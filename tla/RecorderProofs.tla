--------------------------- MODULE RecorderProofs ---------------------------
(***************************************************************************)
(* Theorems about the recorder for every value of its constants, proved    *)
(* with TLAPS.                                                             *)
(***************************************************************************)
EXTENDS Recorder, TLAPS

-----------------------------------------------------------------------------
(* What the calls of hoeldb.c do to a table.                               *)

(* An insert appends at most one row and leaves the others alone.          *)
LEMMA InsertFacts ==
  ASSUME NEW S, NEW table \in Seq(S), NEW row \in S, NEW answer \in InsertAnswers
  PROVE  /\ Insert(table, row, answer) \in Seq(S)
         /\ DOMAIN table \subseteq DOMAIN Insert(table, row, answer)
         /\ \A i \in DOMAIN table : Insert(table, row, answer)[i] = table[i]
         /\ \A i \in DOMAIN Insert(table, row, answer) :
              \/ i \in DOMAIN table
              \/ i = Len(table) + 1 /\ Insert(table, row, answer)[i] = row
         /\ InsertId(table, answer) \in Ids
         /\ \/ /\ answer = "ok"
               /\ InsertId(table, answer) = Len(table) + 1
               /\ Len(table) + 1 \in DOMAIN Insert(table, row, answer)
               /\ Insert(table, row, answer)[Len(table) + 1] = row
            \/ answer # "ok" /\ InsertId(table, answer) <= 0
  BY DEF Insert, InsertId, InsertAnswers, Ids, NoRow, NoId

(* A new row of each table has the fields of its table.                    *)
LEMMA RowFacts ==
  ASSUME NEW S, NEW table \in Seq(S)
  PROVE  \A i \in DOMAIN table : table[i] \in S
  OBVIOUS

(* Replacing one row of a table.                                           *)
LEMMA ReplaceFacts ==
  ASSUME NEW S, NEW table \in Seq(S), NEW i \in DOMAIN table, NEW x \in S
  PROVE  /\ [table EXCEPT ![i] = x] \in Seq(S)
         /\ DOMAIN [table EXCEPT ![i] = x] = DOMAIN table
         /\ \A j \in DOMAIN table :
              [table EXCEPT ![i] = x][j] = IF j = i THEN x ELSE table[j]
  OBVIOUS

(* closesession keeps the rows, but for the finished column of one.        *)
LEMMA CloseSessionFacts ==
  ASSUME NEW table \in Seq(SessionRows), NEW i \in Ids, NEW answer
  PROVE  /\ closesession(table, i, answer) \in Seq(SessionRows)
         /\ DOMAIN closesession(table, i, answer) = DOMAIN table
         /\ \A j \in DOMAIN table : closesession(table, i, answer)[j].run = table[j].run
         /\ \A j \in DOMAIN table : j # i => closesession(table, i, answer)[j] = table[j]
<1>1. CASE ~Updates(table, i, answer)
  BY <1>1 DEF closesession, Finish
<1>2. CASE Updates(table, i, answer)
  <2>1. i \in DOMAIN table /\ table[i] \in SessionRows
    BY <1>2 DEF Updates
  <2>2. /\ [table[i] EXCEPT !.finished = TRUE] \in SessionRows
        /\ [table[i] EXCEPT !.finished = TRUE].run = table[i].run
    BY <2>1 DEF SessionRows
  <2>. QED BY <1>2, <2>1, <2>2, ReplaceFacts DEF closesession, Finish
<1>. QED BY <1>1, <1>2

(* closelap keeps the rows, but for the finished column of one.            *)
LEMMA CloseLapFacts ==
  ASSUME NEW table \in Seq(LapRows), NEW i \in Ids, NEW answer
  PROVE  /\ closelap(table, i, answer) \in Seq(LapRows)
         /\ DOMAIN closelap(table, i, answer) = DOMAIN table
         /\ \A j \in DOMAIN table : /\ closelap(table, i, answer)[j].run = table[j].run
                                    /\ closelap(table, i, answer)[j].stint = table[j].stint
         /\ \A j \in DOMAIN table : j # i => closelap(table, i, answer)[j] = table[j]
<1>1. CASE ~Updates(table, i, answer)
  BY <1>1 DEF closelap, Finish
<1>2. CASE Updates(table, i, answer)
  <2>1. i \in DOMAIN table /\ table[i] \in LapRows
    BY <1>2 DEF Updates
  <2>2. /\ [table[i] EXCEPT !.finished = TRUE] \in LapRows
        /\ [table[i] EXCEPT !.finished = TRUE].run = table[i].run
        /\ [table[i] EXCEPT !.finished = TRUE].stint = table[i].stint
    BY <2>1 DEF LapRows
  <2>. QED BY <1>2, <2>1, <2>2, ReplaceFacts DEF closelap, Finish
<1>. QED BY <1>1, <1>2

(* closestint keeps the rows, but for the counts and the finished column   *)
(* of one.                                                                 *)
LEMMA CloseStintFacts ==
  ASSUME NEW table \in Seq(StintRows), NEW i \in Ids, NEW n \in Nat, NEW v \in Nat,
         NEW answer
  PROVE  /\ closestint(table, i, n, v, answer) \in Seq(StintRows)
         /\ DOMAIN closestint(table, i, n, v, answer) = DOMAIN table
         /\ \A j \in DOMAIN table :
              /\ closestint(table, i, n, v, answer)[j].run = table[j].run
              /\ closestint(table, i, n, v, answer)[j].session = table[j].session
         /\ \A j \in DOMAIN table : j # i => closestint(table, i, n, v, answer)[j] = table[j]
<1>1. CASE ~Updates(table, i, answer)
  BY <1>1 DEF closestint
<1>2. CASE Updates(table, i, answer)
  <2>1. i \in DOMAIN table /\ table[i] \in StintRows
    BY <1>2 DEF Updates
  <2>2. /\ [table[i] EXCEPT !.laps = n, !.valid = v, !.finished = TRUE] \in StintRows
        /\ [table[i] EXCEPT !.laps = n, !.valid = v, !.finished = TRUE].run = table[i].run
        /\ [table[i] EXCEPT !.laps = n, !.valid = v, !.finished = TRUE].session = table[i].session
    BY <2>1 DEF StintRows
  <2>. QED BY <1>2, <2>1, <2>2, ReplaceFacts DEF closestint
<1>. QED BY <1>1, <1>2

(* updatetelemetry keeps the rows, but for the columns of one.             *)
LEMMA UpdateFacts ==
  ASSUME NEW table \in Seq(TelemetryRows), NEW i \in Ids, NEW c \in 1 .. 6, NEW answer
  PROVE  /\ updatetelemetry(table, i, Channels[c], answer) \in Seq(TelemetryRows)
         /\ DOMAIN updatetelemetry(table, i, Channels[c], answer) = DOMAIN table
         /\ \A j \in DOMAIN table :
              /\ updatetelemetry(table, i, Channels[c], answer)[j].run = table[j].run
              /\ updatetelemetry(table, i, Channels[c], answer)[j].lap = table[j].lap
         /\ \A j \in DOMAIN table : j # i => updatetelemetry(table, i, Channels[c], answer)[j] = table[j]
<1>1. CASE ~Updates(table, i, answer)
  BY <1>1 DEF updatetelemetry
<1>2. CASE Updates(table, i, answer)
  <2>1. i \in DOMAIN table /\ table[i] \in TelemetryRows
    BY <1>2 DEF Updates
  <2>. DEFINE name == Channels[c]
  <2>3. name \in ChannelNames
    BY DEF ChannelNames
  <2>. DEFINE wider == table[i].columns \cup {name}
  <2>4. wider \in SUBSET ChannelNames
    BY <2>1, <2>3 DEF TelemetryRows
  <2>. HIDE DEF name, wider
  <2>2. /\ [table[i] EXCEPT !.columns = wider] \in TelemetryRows
        /\ [table[i] EXCEPT !.columns = wider].run = table[i].run
        /\ [table[i] EXCEPT !.columns = wider].lap = table[i].lap
    BY <2>1, <2>4 DEF TelemetryRows
  <2>5. updatetelemetry(table, i, Channels[c], answer)
          = [table EXCEPT ![i] = [table[i] EXCEPT !.columns = wider]]
    BY <1>2 DEF updatetelemetry, name, wider
  <2>. QED BY <2>1, <2>2, <2>5, ReplaceFacts
<1>. QED BY <1>1, <1>2

-----------------------------------------------------------------------------
(* Type correctness.                                                       *)

USE DEF Goto, Charge, Calls, Keep, ResetCounts

(* The ids a run holds, and the parts of TypeOK that the calls share.      *)
LEMMA NameFacts ==
  /\ Names \subseteq Tables
  /\ \A t \in {"track", "event", "driver", "car"} : t \in Names
  /\ \A t \in {"session", "stint", "lap", "telemetry"} : t \in Tables
  /\ \A t \in Named : t \in Names
  /\ "track" \in Named /\ "driver" \in Named /\ "car" \in Named
  /\ NoRow \in Ids /\ NoId \in Ids
  BY DEF Named, Names, Tables, Ids, NoRow, NoId

(* The ids an insert can return are ids, of old rows or of the new one.    *)
LEMMA IdFacts ==
  ASSUME NEW held \in [Tables -> Ids], NEW t \in Tables
  PROVE  /\ held[t] \in Ids
         /\ \A n \in Ids : [held EXCEPT ![t] = n] \in [Tables -> Ids]
  OBVIOUS

(* What a select by name returns is an id.                                 *)
LEMMA SelectFacts ==
  ASSUME NEW S, NEW table \in Seq(S), NEW name, NEW none \in Ids
  PROVE  /\ SelectIds(table, name, none) \subseteq Ids
         /\ \A n \in SelectIds(table, name, none) :
              n > 0 \/ ~ \E i \in DOMAIN table : table[i].name = name
<1>. DEFINE Found == {i \in DOMAIN table : table[i].name = name}
<1>1. Found \subseteq DOMAIN table /\ DOMAIN table = 1 .. Len(table) /\ Len(table) \in Nat
  OBVIOUS
<1>2. CASE Found = {}
  <2>1. SelectIds(table, name, none) = {none} /\ ~ \E i \in DOMAIN table : table[i].name = name
    BY <1>2 DEF SelectIds
  <2>. QED BY <2>1
<1>3. CASE Found # {}
  <2>1. SelectIds(table, name, none) = Found
    BY <1>3 DEF SelectIds
  <2>. HIDE DEF Found
  <2>. QED BY <2>1, <1>1 DEF Ids
<1>. QED BY <1>2, <1>3

(* The fields of SimData the recorder reads have their types.              *)
LEMMA SimFacts ==
  ASSUME NEW r \in SimRecords
  PROVE  /\ \A s \in SessionTypes : [r EXCEPT !.session = s] \in SimRecords
         /\ \A n \in 0 .. MaxLap : [r EXCEPT !.lap = n] \in SimRecords
         /\ [r EXCEPT !.inpit = ~@] \in SimRecords
         /\ [r EXCEPT !.valid = ~@] \in SimRecords
  BY DEF SimRecords

(* So have the names.                                                      *)
LEMMA SimNameFacts ==
  ASSUME NEW r \in SimRecords, NEW t \in Named
  PROVE  /\ r[t] \in AllNames
         /\ \A n \in GameNames[t] : /\ [r EXCEPT ![t] = n] \in SimRecords
                                    /\ [r EXCEPT ![t] = n].inpit = r.inpit
<1>1. /\ \A n \in GameNames["track"] : [r EXCEPT !["track"] = n] \in SimRecords
      /\ \A n \in GameNames["driver"] : [r EXCEPT !["driver"] = n] \in SimRecords
      /\ \A n \in GameNames["car"] : [r EXCEPT !["car"] = n] \in SimRecords
  BY DEF SimRecords
<1>2. /\ r["track"] \in GameNames["track"] /\ r["driver"] \in GameNames["driver"]
      /\ r["car"] \in GameNames["car"]
  BY DEF SimRecords
<1>3. r[t] \in GameNames[t] /\ \A n \in GameNames[t] : [r EXCEPT ![t] = n] \in SimRecords
  BY <1>1, <1>2, Zenon DEF Named
<1>4. \A n \in GameNames[t] : [r EXCEPT ![t] = n].inpit = r.inpit
  <2>1. "inpit" \in DOMAIN r /\ t # "inpit"
    BY DEF SimRecords, Named
  <2>. QED BY <2>1
<1>5. r[t] \in AllNames
  BY <1>3, Zenon DEF AllNames
<1>. QED BY <1>3, <1>4, <1>5, Zenon

(* So have the values it remembers of them.                                *)
LEMMA ReadFacts ==
  ASSUME TypeOK
  PROVE  /\ [seen EXCEPT !.pit = sim.inpit] \in ReadRecords
         /\ [last EXCEPT !.pit = sim.inpit] \in ReadRecords
         /\ [seen EXCEPT !.session = sim.session, !.lap = sim.lap] \in ReadRecords
         /\ [last EXCEPT !.session = sim.session, !.lap = sim.lap] \in ReadRecords
  BY DEF TypeOK, ThreadTypes, WorldTypes, SimRecords, ReadRecords

(* A call leaves the count of faults within its bound.                     *)
LEMMA ChargeFacts ==
  ASSUME TypeOK, NEW answer, Charge(answer)
  PROVE  faults' \in 0 .. MaxFaults /\ faults <= faults' /\ (answer # "ok" => faults' > 0)
  BY RecorderAssumption DEF TypeOK, WorldTypes

(* A step of the recorder that keeps the shared state keeps its types.     *)
LEMMA WorldKept ==
  ASSUME TypeOK, Keep, faults' \in 0 .. MaxFaults
  PROVE  WorldTypes'
  BY DEF TypeOK, WorldTypes, shared, world

(* A select by name keeps the types.                                       *)
LEMMA SelectTypes ==
  ASSUME TypeOK, NEW t \in Named, NEW none \in Ids, Select(t, none)
  PROVE  id' \in [Tables -> Ids] /\ asked' \in AllNames \cup {NoName}
<1>1. t \in Names /\ t \in Tables
  BY NameFacts
<1>2. catalog[t] \in Seq(CatalogRows)
  BY <1>1 DEF TypeOK, TableTypes
<1>3. SelectIds(catalog[t], sim[t], none) \subseteq Ids
  BY <1>2, SelectFacts
<1>4. sim[t] \in AllNames
  BY SimNameFacts DEF TypeOK, WorldTypes
<1>. QED BY <1>1, <1>3, <1>4, IdFacts DEF Select, TypeOK, ThreadTypes

(* Adding a catalog row keeps the types.                                   *)
LEMMA AddRowTypes ==
  ASSUME TypeOK, NEW answer \in InsertAnswers, NEW t \in Names,
         NEW row \in CatalogRows, AddRow(t, row, answer)
  PROVE  id' \in [Tables -> Ids] /\ catalog' \in [Names -> Seq(CatalogRows)]
<1>1. catalog[t] \in Seq(CatalogRows) /\ t \in Tables
  BY NameFacts DEF TypeOK, TableTypes
<1>2. /\ InsertId(catalog[t], answer) \in Ids
      /\ Insert(catalog[t], row, answer) \in Seq(CatalogRows)
  BY <1>1, InsertFacts
<1>3. id \in [Tables -> Ids] /\ catalog \in [Names -> Seq(CatalogRows)]
  BY DEF TypeOK, ThreadTypes, TableTypes
<1>. QED BY <1>1, <1>2, <1>3, IdFacts DEF AddRow

(* So does an insert of a name, if it is made.                             *)
LEMMA AddNameTypes ==
  ASSUME TypeOK, NEW answer \in InsertAnswers, NEW t \in Named, AddName(t, answer)
  PROVE  id' \in [Tables -> Ids] /\ catalog' \in [Names -> Seq(CatalogRows)]
<1>1. CASE id[t] > 0
  BY <1>1 DEF AddName, TypeOK, ThreadTypes, TableTypes
<1>2. CASE ~(id[t] > 0)
  <2>1. sim[t] \in AllNames /\ asked \in AllNames \cup {NoName}
    BY SimNameFacts DEF TypeOK, WorldTypes, ThreadTypes
  <2>2. NameRow(sim[t], asked) \in CatalogRows
    BY <2>1 DEF NameRow, CatalogRows
  <2>3. AddRow(t, NameRow(sim[t], asked), answer)
    BY <1>2 DEF AddName
  <2>. QED BY <2>2, <2>3, AddRowTypes, NameFacts
<1>. QED BY <1>1, <1>2

(* And that of an event.                                                   *)
LEMMA AddEventTypes ==
  ASSUME TypeOK, NEW answer \in InsertAnswers, AddRow("event", EventRow(id.track), answer)
  PROVE  id' \in [Tables -> Ids] /\ catalog' \in [Names -> Seq(CatalogRows)]
<1>1. id.track \in Ids
  BY NameFacts DEF TypeOK, ThreadTypes
<1>2. EventRow(id.track) \in CatalogRows
  BY <1>1 DEF EventRow, CatalogRows
<1>. QED BY <1>2, AddRowTypes, NameFacts

(* addsession keeps the types of the tables and ids.                       *)
LEMMA AddSessionTypes ==
  ASSUME TypeOK, NEW answer \in InsertAnswers, AddSessionRow(answer)
  PROVE  TableTypes' /\ id' \in [Tables -> Ids]
<1>1. id \in [Tables -> Ids] /\ id.event \in Ids /\ id.car \in Ids
  BY NameFacts DEF TypeOK, ThreadTypes
<1>2. SessionRow(id.event, id.car, sim.session, runs) \in SessionRows
  BY <1>1 DEF SessionRow, SessionRows, TypeOK, WorldTypes, SimRecords
<1>3. sessions' \in Seq(SessionRows) /\ InsertId(sessions, answer) \in Ids
  BY <1>2, InsertFacts DEF AddSessionRow, TypeOK, TableTypes
<1>4. TableTypes'
  BY <1>3 DEF AddSessionRow, TypeOK, TableTypes
<1>. QED BY <1>1, <1>3, <1>4, NameFacts, IdFacts DEF AddSessionRow

(* addstint keeps them.                                                    *)
LEMMA AddStintTypes ==
  ASSUME TypeOK, NEW answer \in InsertAnswers, AddStintRow(answer)
  PROVE  TableTypes' /\ id' \in [Tables -> Ids]
<1>1. id \in [Tables -> Ids] /\ id.session \in Ids /\ id.driver \in Ids
  BY NameFacts DEF TypeOK, ThreadTypes
<1>2. StintRow(id.session, id.driver, runs) \in StintRows
  BY <1>1 DEF StintRow, StintRows, TypeOK, WorldTypes
<1>3. stints' \in Seq(StintRows) /\ InsertId(stints, answer) \in Ids
  BY <1>2, InsertFacts DEF AddStintRow, TypeOK, TableTypes
<1>4. TableTypes'
  BY <1>3 DEF AddStintRow, TypeOK, TableTypes
<1>. QED BY <1>1, <1>3, <1>4, NameFacts, IdFacts DEF AddStintRow

(* addstintlap keeps them.                                                 *)
LEMMA AddLapTypes ==
  ASSUME TypeOK, NEW answer \in InsertAnswers, AddLapRow(answer)
  PROVE  TableTypes' /\ id' \in [Tables -> Ids]
<1>1. id \in [Tables -> Ids] /\ id.stint \in Ids
  BY NameFacts DEF TypeOK, ThreadTypes
<1>2. LapRow(id.stint, runs) \in LapRows
  BY <1>1 DEF LapRow, LapRows, TypeOK, WorldTypes
<1>3. laps' \in Seq(LapRows) /\ InsertId(laps, answer) \in Ids
  BY <1>2, InsertFacts DEF AddLapRow, TypeOK, TableTypes
<1>4. TableTypes'
  BY <1>3 DEF AddLapRow, TypeOK, TableTypes
<1>. QED BY <1>1, <1>3, <1>4, NameFacts, IdFacts DEF AddLapRow

(* addtelemetry keeps them.                                                *)
LEMMA AddTelemetryTypes ==
  ASSUME TypeOK, NEW answer \in InsertAnswers, AddTelemetryRow(answer)
  PROVE  TableTypes' /\ id' \in [Tables -> Ids]
<1>1. id \in [Tables -> Ids] /\ id.lap \in Ids
  BY NameFacts DEF TypeOK, ThreadTypes
<1>2. TelemetryRow(id.lap, runs) \in TelemetryRows
  BY <1>1 DEF TelemetryRow, TelemetryRows, TypeOK, WorldTypes
<1>3. telemetry' \in Seq(TelemetryRows) /\ InsertId(telemetry, answer) \in Ids
  BY <1>2, InsertFacts DEF AddTelemetryRow, TypeOK, TableTypes
<1>4. TableTypes'
  BY <1>3 DEF AddTelemetryRow, TypeOK, TableTypes
<1>. QED BY <1>1, <1>3, <1>4, NameFacts, IdFacts DEF AddTelemetryRow

(* closesession, closestint and closelap keep them.                        *)
LEMMA CloseTypes ==
  ASSUME TypeOK, NEW answer \in CallAnswers,
         CloseSessionRow(answer) \/ CloseStintRow(answer) \/ CloseLapRow(answer)
  PROVE  TableTypes'
<1>1. id.session \in Ids /\ id.stint \in Ids /\ id.lap \in Ids
  BY NameFacts DEF TypeOK, ThreadTypes
<1>2. CASE CloseSessionRow(answer)
  BY <1>1, <1>2, CloseSessionFacts DEF CloseSessionRow, TypeOK, TableTypes
<1>3. CASE CloseStintRow(answer)
  BY <1>1, <1>3, CloseStintFacts DEF CloseStintRow, TypeOK, TableTypes, ThreadTypes
<1>4. CASE CloseLapRow(answer)
  BY <1>1, <1>4, CloseLapFacts DEF CloseLapRow, TypeOK, TableTypes
<1>. QED BY <1>2, <1>3, <1>4

(* So does each update of updatetelemetrydata.                             *)
LEMMA UpdateTypes ==
  ASSUME TypeOK, NEW from, NEW to, UpdateTelemetry(from, to)
  PROVE  TableTypes' /\ channel' \in 1 .. 6
<1>1. id.telemetry \in Ids /\ channel \in 1 .. 6
  BY NameFacts DEF TypeOK, ThreadTypes
<1>2. telemetry' \in Seq(TelemetryRows)
  <2>1. telemetry \in Seq(TelemetryRows)
    BY DEF TypeOK, TableTypes
  <2>2. PICK answer :
          telemetry' = updatetelemetry(telemetry, id.telemetry, Channels[channel], answer)
    BY DEF UpdateTelemetry
  <2>3. updatetelemetry(telemetry, id.telemetry, Channels[channel], answer)
          \in Seq(TelemetryRows)
    BY <1>1, <2>1, UpdateFacts
  <2>. QED BY <2>2, <2>3
<1>3. channel' \in 1 .. 6
  BY <1>1 DEF UpdateTelemetry, Channels
<1>. QED BY <1>2, <1>3 DEF UpdateTelemetry, TypeOK, TableTypes

(* The first values of the locals have their types.                        *)
LEMMA FirstFacts ==
  /\ NoIds \in [Tables -> Ids]
  /\ NoReads \in ReadRecords
<1>1. NoIds \in [Tables -> Ids]
  BY DEF NoIds, Ids
<1>2. NoReads \in ReadRecords
  BY RecorderAssumption DEF NoReads, ReadRecords
<1>. QED BY <1>1, <1>2

(* A thread that has lost its stack has typed locals.                      *)
LEMMA ForgetTypes ==
  ASSUME Forget, pc' \in Gone
  PROVE  ThreadTypes'
<1>1. pc' \in Labels
  BY DEF Labels, Gone
<1>2. id' \in [Tables -> Ids]
  BY FirstFacts DEF Forget
<1>3. seen' \in ReadRecords /\ last' \in ReadRecords
  BY FirstFacts DEF Forget
<1>4. stintlaps' \in Nat /\ validstintlaps' \in Nat /\ channel' \in 1 .. 6
  BY DEF Forget
<1>5. validind' \in BOOLEAN /\ spoiled' \in BOOLEAN
  BY Zenon DEF Forget
<1>6. asked' = NoName
  BY DEF Forget
<1>. QED BY <1>1, <1>2, <1>3, <1>4, <1>5, <1>6 DEF ThreadTypes

(* What an earlier recording left is typed, and names nothing twice.       *)
LEMMA OldRowsFacts ==
  /\ OldRows \in Seq(CatalogRows)
  /\ \A j \in DOMAIN OldRows : \A k \in 1 .. j - 1 : OldRows[k].name # OldRows[j].name
<1>1. /\ Registered \in Seq(AllNames)
      /\ \A k, j \in DOMAIN Registered : Registered[k] = Registered[j] => k = j
  BY RecorderAssumption, Zenon
<1>2. Len(Registered) \in Nat /\ DOMAIN Registered = 1 .. Len(Registered)
  BY <1>1
<1>3. \A k \in DOMAIN Registered : NameRow(Registered[k], Registered[k]) \in CatalogRows
  BY <1>1 DEF NameRow, CatalogRows
<1>4. OldRows \in [1 .. Len(Registered) -> CatalogRows]
  BY <1>2, <1>3 DEF OldRows
<1>5. OldRows \in Seq(CatalogRows)
  BY <1>2, <1>4
<1>6. ASSUME NEW j \in DOMAIN OldRows, NEW k \in 1 .. j - 1
      PROVE  OldRows[k].name # OldRows[j].name
  <2>1. j \in DOMAIN Registered /\ k \in DOMAIN Registered /\ k # j
    BY <1>2, <1>6 DEF OldRows
  <2>2. OldRows[j].name = Registered[j] /\ OldRows[k].name = Registered[k]
    BY <2>1 DEF OldRows, NameRow
  <2>. QED BY <1>1, <2>1, <2>2
<1>. QED BY <1>5, <1>6

(* The first state is typed.                                               *)
THEOREM TypeInit == Init => TypeOK
<1>. SUFFICES ASSUME Init PROVE TypeOK
  OBVIOUS
<1>1. ThreadTypes
  <2>1. pc \in Labels
    BY DEF Init, Labels
  <2>2. id \in [Tables -> Ids]
    BY FirstFacts DEF Init
  <2>3. seen \in ReadRecords /\ last \in ReadRecords
    BY FirstFacts DEF Init
  <2>4. stintlaps \in Nat /\ validstintlaps \in Nat /\ channel \in 1 .. 6
    BY DEF Init
  <2>5. validind \in BOOLEAN /\ spoiled \in BOOLEAN
    BY Zenon DEF Init
  <2>6. asked = NoName
    BY DEF Init
  <2>. QED BY <2>1, <2>2, <2>3, <2>4, <2>5, <2>6 DEF ThreadTypes
<1>2. TableTypes
  <2>1. catalog \in [Names -> Seq(CatalogRows)]
    BY OldRowsFacts DEF Init
  <2>2. /\ sessions \in Seq(SessionRows) /\ stints \in Seq(StintRows)
        /\ laps \in Seq(LapRows) /\ telemetry \in Seq(TelemetryRows)
    BY DEF Init
  <2>. QED BY <2>1, <2>2 DEF Init, TableTypes
<1>3. WorldTypes
  <2>1. sim \in SimRecords
    BY Zenon DEF Init
  <2>2. /\ program_state \in {1, -1} /\ err \in {0, 2} /\ pitEntries \in Nat
        /\ changes \in 0 .. MaxChanges /\ faults \in 0 .. MaxFaults
        /\ runs \in 0 .. MaxRuns
    BY RecorderAssumption DEF Init
  <2>. QED BY <2>1, <2>2 DEF WorldTypes
<1>. QED BY <1>1, <1>2, <1>3 DEF TypeOK

(* Every step keeps the types.                                             *)
THEOREM TypeStep == TypeOK /\ [Next]_vars => TypeOK'
<1>. SUFFICES ASSUME TypeOK, [Next]_vars PROVE TypeOK'
  OBVIOUS
<1>. USE RecorderAssumption
<1>1. ASSUME Connect PROVE TypeOK'
  <2>1. ThreadTypes'
    BY <1>1 DEF Connect, TypeOK, ThreadTypes, local, reads, counts, Labels
  <2>2. TableTypes'
    BY <1>1 DEF Connect, TypeOK, TableTypes, db
  <2>3. WorldTypes'
    BY <1>1, ChargeFacts DEF Connect, TypeOK, WorldTypes, world
  <2>. QED BY <2>1, <2>2, <2>3 DEF TypeOK
<1>2. ASSUME GetTrack PROVE TypeOK'
  <2>1. ThreadTypes'
    <3>1. pc' \in Labels
      BY <1>2 DEF GetTrack, Labels
    <3>2. Select("track", NoId) \/ UNCHANGED <<id, asked>>
      BY <1>2, Zenon DEF GetTrack
    <3>3. id' \in [Tables -> Ids] /\ asked' \in AllNames \cup {NoName}
      BY <3>2, SelectTypes, NameFacts DEF TypeOK, ThreadTypes
    <3>. QED BY <1>2, <3>1, <3>3 DEF GetTrack, TypeOK, ThreadTypes, reads, counts
  <2>2. TableTypes'
    BY <1>2 DEF GetTrack, TypeOK, TableTypes, db
  <2>3. WorldTypes'
    BY <1>2, ChargeFacts DEF GetTrack, TypeOK, WorldTypes, world
  <2>. QED BY <2>1, <2>2, <2>3 DEF TypeOK
<1>3. ASSUME AddTrack PROVE TypeOK'
  <2>1. ThreadTypes'
    <3>1. pc' \in Labels
      BY <1>3 DEF AddTrack, Labels
    <3>2. id' \in [Tables -> Ids]
      BY <1>3, AddNameTypes, NameFacts DEF AddTrack, TypeOK, ThreadTypes
    <3>. QED BY <1>3, <3>1, <3>2 DEF AddTrack, TypeOK, ThreadTypes, reads, counts
  <2>2. TableTypes'
    <3>1. catalog' \in [Names -> Seq(CatalogRows)]
      BY <1>3, AddNameTypes, NameFacts DEF AddTrack, TypeOK, TableTypes
    <3>. QED BY <1>3, <3>1 DEF AddTrack, TypeOK, TableTypes
  <2>3. WorldTypes'
    BY <1>3, ChargeFacts DEF AddTrack, TypeOK, WorldTypes, world
  <2>. QED BY <2>1, <2>2, <2>3 DEF TypeOK
<1>4. ASSUME AddEvent PROVE TypeOK'
  <2>1. ThreadTypes'
    <3>1. pc' \in Labels
      BY <1>4 DEF AddEvent, Labels
    <3>2. id' \in [Tables -> Ids]
      BY <1>4, AddEventTypes DEF AddEvent, TypeOK, ThreadTypes
    <3>. QED BY <1>4, <3>1, <3>2 DEF AddEvent, TypeOK, ThreadTypes, reads, counts
  <2>2. TableTypes'
    <3>1. catalog' \in [Names -> Seq(CatalogRows)]
      BY <1>4, AddEventTypes DEF AddEvent, TypeOK, TableTypes
    <3>. QED BY <1>4, <3>1 DEF AddEvent, TypeOK, TableTypes
  <2>3. WorldTypes'
    BY <1>4, ChargeFacts, WorldKept DEF AddEvent
  <2>. QED BY <2>1, <2>2, <2>3 DEF TypeOK
<1>5. ASSUME GetDriver PROVE TypeOK'
  <2>1. ThreadTypes'
    <3>1. pc' \in Labels
      BY <1>5 DEF GetDriver, GetName, Labels
    <3>2. \/ Select("driver", NoRow)
          \/ id' = [id EXCEPT !["driver"] = NoRow] /\ asked' = sim["driver"]
      BY <1>5, Zenon DEF GetDriver, GetName
    <3>3. sim["driver"] \in AllNames
      BY SimNameFacts, NameFacts DEF TypeOK, WorldTypes
    <3>4. id' \in [Tables -> Ids] /\ asked' \in AllNames \cup {NoName}
      BY <3>2, <3>3, SelectTypes, NameFacts, IdFacts DEF TypeOK, ThreadTypes
    <3>. QED BY <1>5, <3>1, <3>4 DEF GetDriver, GetName, TypeOK, ThreadTypes, reads, counts
  <2>2. TableTypes'
    BY <1>5 DEF GetDriver, GetName, TypeOK, TableTypes, db
  <2>3. WorldTypes'
    BY <1>5, ChargeFacts, WorldKept DEF GetDriver, GetName
  <2>. QED BY <2>1, <2>2, <2>3 DEF TypeOK
<1>6. ASSUME AddDriver PROVE TypeOK'
  <2>1. ThreadTypes'
    <3>1. pc' \in Labels
      BY <1>6 DEF AddDriver, AddIfMissing, Labels
    <3>2. id' \in [Tables -> Ids]
      BY <1>6, AddNameTypes, NameFacts DEF AddDriver, AddIfMissing, TypeOK, ThreadTypes
    <3>. QED BY <1>6, <3>1, <3>2 DEF AddDriver, AddIfMissing, TypeOK, ThreadTypes, reads, counts
  <2>2. TableTypes'
    <3>1. catalog' \in [Names -> Seq(CatalogRows)]
      BY <1>6, AddNameTypes, NameFacts DEF AddDriver, AddIfMissing, TypeOK, TableTypes
    <3>. QED BY <1>6, <3>1 DEF AddDriver, AddIfMissing, TypeOK, TableTypes
  <2>3. WorldTypes'
    BY <1>6, ChargeFacts, WorldKept DEF AddDriver, AddIfMissing
  <2>. QED BY <2>1, <2>2, <2>3 DEF TypeOK
<1>7. ASSUME GetCar PROVE TypeOK'
  <2>1. ThreadTypes'
    <3>1. pc' \in Labels
      BY <1>7 DEF GetCar, GetName, Labels
    <3>2. \/ Select("car", NoRow)
          \/ id' = [id EXCEPT !["car"] = NoRow] /\ asked' = sim["car"]
      BY <1>7, Zenon DEF GetCar, GetName
    <3>3. sim["car"] \in AllNames
      BY SimNameFacts, NameFacts DEF TypeOK, WorldTypes
    <3>4. id' \in [Tables -> Ids] /\ asked' \in AllNames \cup {NoName}
      BY <3>2, <3>3, SelectTypes, NameFacts, IdFacts DEF TypeOK, ThreadTypes
    <3>. QED BY <1>7, <3>1, <3>4 DEF GetCar, GetName, TypeOK, ThreadTypes, reads, counts
  <2>2. TableTypes'
    BY <1>7 DEF GetCar, GetName, TypeOK, TableTypes, db
  <2>3. WorldTypes'
    BY <1>7, ChargeFacts, WorldKept DEF GetCar, GetName
  <2>. QED BY <2>1, <2>2, <2>3 DEF TypeOK
<1>8. ASSUME AddCar PROVE TypeOK'
  <2>1. ThreadTypes'
    <3>1. pc' \in Labels
      BY <1>8 DEF AddCar, AddIfMissing, Labels
    <3>2. id' \in [Tables -> Ids]
      BY <1>8, AddNameTypes, NameFacts DEF AddCar, AddIfMissing, TypeOK, ThreadTypes
    <3>. QED BY <1>8, <3>1, <3>2 DEF AddCar, AddIfMissing, TypeOK, ThreadTypes, reads, counts
  <2>2. TableTypes'
    <3>1. catalog' \in [Names -> Seq(CatalogRows)]
      BY <1>8, AddNameTypes, NameFacts DEF AddCar, AddIfMissing, TypeOK, TableTypes
    <3>. QED BY <1>8, <3>1 DEF AddCar, AddIfMissing, TypeOK, TableTypes
  <2>3. WorldTypes'
    BY <1>8, ChargeFacts, WorldKept DEF AddCar, AddIfMissing
  <2>. QED BY <2>1, <2>2, <2>3 DEF TypeOK
<1>9. ASSUME FirstPit PROVE TypeOK'
  <2>1. ThreadTypes'
    BY <1>9, ReadFacts DEF FirstPit, TypeOK, ThreadTypes, counts, Labels
  <2>2. TableTypes'
    BY <1>9 DEF FirstPit, TypeOK, TableTypes, db
  <2>3. WorldTypes'
    BY <1>9, WorldKept DEF FirstPit, TypeOK, WorldTypes
  <2>. QED BY <2>1, <2>2, <2>3 DEF TypeOK
<1>10. ASSUME AddSession PROVE TypeOK'
  <2>1. ThreadTypes'
    <3>1. pc' \in Labels
      BY <1>10 DEF AddSession, Labels
    <3>2. id' \in [Tables -> Ids]
      BY <1>10, AddSessionTypes DEF AddSession
    <3>. QED BY <1>10, <3>1, <3>2 DEF AddSession, AddSessionRow, TypeOK, ThreadTypes, reads, counts
  <2>2. TableTypes'
    BY <1>10, AddSessionTypes DEF AddSession
  <2>3. WorldTypes'
    BY <1>10, ChargeFacts, WorldKept DEF AddSession, AddSessionRow
  <2>. QED BY <2>1, <2>2, <2>3 DEF TypeOK
<1>11. ASSUME AddStint PROVE TypeOK'
  <2>1. ThreadTypes'
    <3>1. pc' \in Labels
      BY <1>11 DEF AddStint, Labels
    <3>2. id' \in [Tables -> Ids]
      BY <1>11, AddStintTypes DEF AddStint
    <3>. QED BY <1>11, <3>1, <3>2 DEF AddStint, AddStintRow, TypeOK, ThreadTypes, reads, counts
  <2>2. TableTypes'
    BY <1>11, AddStintTypes DEF AddStint
  <2>3. WorldTypes'
    BY <1>11, ChargeFacts, WorldKept DEF AddStint, AddStintRow
  <2>. QED BY <2>1, <2>2, <2>3 DEF TypeOK
<1>12. ASSUME AddLap PROVE TypeOK'
  <2>1. ThreadTypes'
    <3>1. pc' \in Labels
      BY <1>12 DEF AddLap, Labels
    <3>2. id' \in [Tables -> Ids]
      BY <1>12, AddLapTypes DEF AddLap
    <3>. QED BY <1>12, <3>1, <3>2 DEF AddLap, AddLapRow, TypeOK, ThreadTypes, reads, counts
  <2>2. TableTypes'
    BY <1>12, AddLapTypes DEF AddLap
  <2>3. WorldTypes'
    BY <1>12, ChargeFacts, WorldKept DEF AddLap, AddLapRow
  <2>. QED BY <2>1, <2>2, <2>3 DEF TypeOK
<1>13. ASSUME Enter PROVE TypeOK'
  <2>1. ThreadTypes'
    BY <1>13, ReadFacts DEF Enter, TypeOK, ThreadTypes, Labels
  <2>2. TableTypes'
    BY <1>13 DEF Enter, TypeOK, TableTypes, db
  <2>3. WorldTypes'
    BY <1>13, WorldKept DEF Enter, TypeOK, WorldTypes
  <2>. QED BY <2>1, <2>2, <2>3 DEF TypeOK
<1>14. ASSUME Tick PROVE TypeOK'
  <2>1. ThreadTypes'
    BY <1>14, ReadFacts DEF Tick, TypeOK, ThreadTypes, Labels, counts
  <2>2. TableTypes'
    BY <1>14 DEF Tick, TypeOK, TableTypes, db
  <2>3. WorldTypes'
    BY <1>14, WorldKept DEF Tick, TypeOK, WorldTypes
  <2>. QED BY <2>1, <2>2, <2>3 DEF TypeOK
<1>15. ASSUME SessionClosesStint PROVE TypeOK'
  <2>1. ThreadTypes'
    <3>1. pc' \in Labels
      BY <1>15 DEF SessionClosesStint, Labels
    <3>. QED BY <1>15, <3>1 DEF SessionClosesStint, CloseStintRow, TypeOK, ThreadTypes, local, reads, counts
  <2>2. TableTypes'
    BY <1>15, CloseTypes DEF SessionClosesStint
  <2>3. WorldTypes'
    BY <1>15, ChargeFacts, WorldKept DEF SessionClosesStint, CloseStintRow
  <2>. QED BY <2>1, <2>2, <2>3 DEF TypeOK
<1>16. ASSUME SessionCloses PROVE TypeOK'
  <2>1. ThreadTypes'
    <3>1. pc' \in Labels
      BY <1>16 DEF SessionCloses, Labels
    <3>. QED BY <1>16, <3>1 DEF SessionCloses, CloseSessionRow, TypeOK, ThreadTypes, local, reads, counts
  <2>2. TableTypes'
    BY <1>16, CloseTypes DEF SessionCloses
  <2>3. WorldTypes'
    BY <1>16, ChargeFacts, WorldKept DEF SessionCloses, CloseSessionRow
  <2>. QED BY <2>1, <2>2, <2>3 DEF TypeOK
<1>17. ASSUME SessionAdds PROVE TypeOK'
  <2>1. ThreadTypes'
    <3>1. pc' \in Labels
      BY <1>17 DEF SessionAdds, Labels
    <3>2. id' \in [Tables -> Ids]
      BY <1>17, AddSessionTypes DEF SessionAdds
    <3>. QED BY <1>17, <3>1, <3>2 DEF SessionAdds, AddSessionRow, TypeOK, ThreadTypes, reads, counts
  <2>2. TableTypes'
    BY <1>17, AddSessionTypes DEF SessionAdds
  <2>3. WorldTypes'
    BY <1>17, ChargeFacts, WorldKept DEF SessionAdds, AddSessionRow
  <2>. QED BY <2>1, <2>2, <2>3 DEF TypeOK
<1>18. ASSUME ReadPit PROVE TypeOK'
  <2>1. ThreadTypes'
    BY <1>18, ReadFacts DEF ReadPit, TypeOK, ThreadTypes, counts, Labels
  <2>2. TableTypes'
    BY <1>18 DEF ReadPit, TypeOK, TableTypes, db
  <2>3. WorldTypes'
    BY <1>18, WorldKept DEF ReadPit, TypeOK, WorldTypes
  <2>. QED BY <2>1, <2>2, <2>3 DEF TypeOK
<1>19. ASSUME CheckPit PROVE TypeOK'
  <2>1. ThreadTypes'
    BY <1>19 DEF CheckPit, TypeOK, ThreadTypes, local, reads, counts, Labels
  <2>2. TableTypes'
    BY <1>19 DEF CheckPit, TypeOK, TableTypes, db
  <2>3. WorldTypes'
    BY <1>19, WorldKept DEF CheckPit, TypeOK, WorldTypes
  <2>. QED BY <2>1, <2>2, <2>3 DEF TypeOK
<1>20. ASSUME PitClosesStint PROVE TypeOK'
  <2>1. ThreadTypes'
    <3>1. pc' \in Labels
      BY <1>20 DEF PitClosesStint, Labels
    <3>. QED BY <1>20, <3>1 DEF PitClosesStint, CloseStintRow, TypeOK, ThreadTypes, local, reads, counts
  <2>2. TableTypes'
    BY <1>20, CloseTypes DEF PitClosesStint
  <2>3. WorldTypes'
    BY <1>20, ChargeFacts, WorldKept DEF PitClosesStint, CloseStintRow
  <2>. QED BY <2>1, <2>2, <2>3 DEF TypeOK
<1>21. ASSUME PitAddsStint PROVE TypeOK'
  <2>1. ThreadTypes'
    <3>1. pc' \in Labels
      BY <1>21 DEF PitAddsStint, Labels
    <3>2. id' \in [Tables -> Ids]
      BY <1>21, AddStintTypes DEF PitAddsStint
    <3>. QED BY <1>21, <3>1, <3>2 DEF PitAddsStint, AddStintRow, TypeOK, ThreadTypes, reads, counts
  <2>2. TableTypes'
    BY <1>21, AddStintTypes DEF PitAddsStint
  <2>3. WorldTypes'
    BY <1>21, ChargeFacts, WorldKept DEF PitAddsStint, AddStintRow
  <2>. QED BY <2>1, <2>2, <2>3 DEF TypeOK
<1>22. ASSUME CheckLap PROVE TypeOK'
  <2>1. ThreadTypes'
    BY <1>22 DEF CheckLap, TypeOK, ThreadTypes, reads, counts, Labels
  <2>2. TableTypes'
    BY <1>22 DEF CheckLap, TypeOK, TableTypes, db
  <2>3. WorldTypes'
    BY <1>22, WorldKept DEF CheckLap, TypeOK, WorldTypes
  <2>. QED BY <2>1, <2>2, <2>3 DEF TypeOK
<1>23. ASSUME LapCloses PROVE TypeOK'
  <2>1. ThreadTypes'
    <3>1. pc' \in Labels
      BY <1>23 DEF LapCloses, Labels
    <3>. QED BY <1>23, <3>1 DEF LapCloses, CloseLapRow, TypeOK, ThreadTypes, local, reads, counts
  <2>2. TableTypes'
    BY <1>23, CloseTypes DEF LapCloses
  <2>3. WorldTypes'
    BY <1>23, ChargeFacts, WorldKept DEF LapCloses, CloseLapRow
  <2>. QED BY <2>1, <2>2, <2>3 DEF TypeOK
<1>24. ASSUME LapAddsTelemetry PROVE TypeOK'
  <2>1. ThreadTypes'
    <3>1. pc' \in Labels
      BY <1>24 DEF LapAddsTelemetry, Labels
    <3>2. id' \in [Tables -> Ids]
      BY <1>24, AddTelemetryTypes DEF LapAddsTelemetry
    <3>. QED BY <1>24, <3>1, <3>2 DEF LapAddsTelemetry, AddTelemetryRow, TypeOK, ThreadTypes, reads, counts
  <2>2. TableTypes'
    BY <1>24, AddTelemetryTypes DEF LapAddsTelemetry
  <2>3. WorldTypes'
    BY <1>24, ChargeFacts, WorldKept DEF LapAddsTelemetry, AddTelemetryRow
  <2>. QED BY <2>1, <2>2, <2>3 DEF TypeOK
<1>25. ASSUME LapStoresChannel PROVE TypeOK'
  <2>1. ThreadTypes'
    <3>1. pc' \in Labels
      BY <1>25 DEF LapStoresChannel, UpdateTelemetry, Labels
    <3>. QED BY <1>25, <3>1, UpdateTypes DEF LapStoresChannel, UpdateTelemetry, TypeOK, ThreadTypes, reads, counts
  <2>2. TableTypes'
    BY <1>25, UpdateTypes DEF LapStoresChannel
  <2>3. WorldTypes'
    BY <1>25, ChargeFacts, WorldKept DEF LapStoresChannel, UpdateTelemetry
  <2>. QED BY <2>1, <2>2, <2>3 DEF TypeOK
<1>26. ASSUME LapAdds PROVE TypeOK'
  <2>1. ThreadTypes'
    <3>1. pc' \in Labels
      BY <1>26 DEF LapAdds, Labels
    <3>2. id' \in [Tables -> Ids]
      BY <1>26, AddLapTypes DEF LapAdds
    <3>. QED BY <1>26, <3>1, <3>2 DEF LapAdds, AddLapRow, TypeOK, ThreadTypes, reads, counts
  <2>2. TableTypes'
    BY <1>26, AddLapTypes DEF LapAdds
  <2>3. WorldTypes'
    BY <1>26, ChargeFacts, WorldKept DEF LapAdds, AddLapRow
  <2>. QED BY <2>1, <2>2, <2>3 DEF TypeOK
<1>27. ASSUME EndOfTurn PROVE TypeOK'
  <2>1. ThreadTypes'
    BY <1>27 DEF EndOfTurn, TypeOK, ThreadTypes, counts, Labels
  <2>2. TableTypes'
    BY <1>27 DEF EndOfTurn, TypeOK, TableTypes, db
  <2>3. WorldTypes'
    BY <1>27, WorldKept DEF EndOfTurn, TypeOK, WorldTypes
  <2>. QED BY <2>1, <2>2, <2>3 DEF TypeOK
<1>28. ASSUME EndAddsTelemetry PROVE TypeOK'
  <2>1. ThreadTypes'
    <3>1. pc' \in Labels
      BY <1>28 DEF EndAddsTelemetry, Labels
    <3>2. id' \in [Tables -> Ids]
      BY <1>28, AddTelemetryTypes DEF EndAddsTelemetry
    <3>. QED BY <1>28, <3>1, <3>2 DEF EndAddsTelemetry, AddTelemetryRow, TypeOK, ThreadTypes, reads, counts
  <2>2. TableTypes'
    BY <1>28, AddTelemetryTypes DEF EndAddsTelemetry
  <2>3. WorldTypes'
    BY <1>28, ChargeFacts, WorldKept DEF EndAddsTelemetry, AddTelemetryRow
  <2>. QED BY <2>1, <2>2, <2>3 DEF TypeOK
<1>29. ASSUME EndStoresChannel PROVE TypeOK'
  <2>1. ThreadTypes'
    <3>1. pc' \in Labels
      BY <1>29 DEF EndStoresChannel, UpdateTelemetry, Labels
    <3>. QED BY <1>29, <3>1, UpdateTypes DEF EndStoresChannel, UpdateTelemetry, TypeOK, ThreadTypes, reads, counts
  <2>2. TableTypes'
    BY <1>29, UpdateTypes DEF EndStoresChannel
  <2>3. WorldTypes'
    BY <1>29, ChargeFacts, WorldKept DEF EndStoresChannel, UpdateTelemetry
  <2>. QED BY <2>1, <2>2, <2>3 DEF TypeOK
<1>30. ASSUME EndClosesLap PROVE TypeOK'
  <2>1. ThreadTypes'
    <3>1. pc' \in Labels
      BY <1>30 DEF EndClosesLap, Labels
    <3>. QED BY <1>30, <3>1 DEF EndClosesLap, CloseLapRow, TypeOK, ThreadTypes, local, reads, counts
  <2>2. TableTypes'
    BY <1>30, CloseTypes DEF EndClosesLap
  <2>3. WorldTypes'
    BY <1>30, ChargeFacts, WorldKept DEF EndClosesLap, CloseLapRow
  <2>. QED BY <2>1, <2>2, <2>3 DEF TypeOK
<1>31. ASSUME EndClosesStint PROVE TypeOK'
  <2>1. ThreadTypes'
    <3>1. pc' \in Labels
      BY <1>31 DEF EndClosesStint, Labels
    <3>. QED BY <1>31, <3>1 DEF EndClosesStint, CloseStintRow, TypeOK, ThreadTypes, local, reads, counts
  <2>2. TableTypes'
    BY <1>31, CloseTypes DEF EndClosesStint
  <2>3. WorldTypes'
    BY <1>31, ChargeFacts, WorldKept DEF EndClosesStint, CloseStintRow
  <2>. QED BY <2>1, <2>2, <2>3 DEF TypeOK
<1>32. ASSUME EndClosesSession PROVE TypeOK'
  <2>1. ThreadTypes'
    <3>1. pc' \in Labels
      BY <1>32 DEF EndClosesSession, Labels
    <3>. QED BY <1>32, <3>1 DEF EndClosesSession, CloseSessionRow, TypeOK, ThreadTypes, local, reads, counts
  <2>2. TableTypes'
    BY <1>32, CloseTypes DEF EndClosesSession
  <2>3. WorldTypes'
    BY <1>32, ChargeFacts, WorldKept DEF EndClosesSession, CloseSessionRow
  <2>. QED BY <2>1, <2>2, <2>3 DEF TypeOK
<1>33. ASSUME CloseDb PROVE TypeOK'
  <2>1. ThreadTypes'
    BY <1>33, ForgetTypes DEF CloseDb, Gone
  <2>2. TableTypes'
    BY <1>33 DEF CloseDb, TypeOK, TableTypes, db
  <2>3. WorldTypes'
    BY <1>33, WorldKept DEF CloseDb, TypeOK, WorldTypes
  <2>. QED BY <2>1, <2>2, <2>3 DEF TypeOK
<1>34. ASSUME SimWrites PROVE TypeOK'
  <2>1. ThreadTypes'
    BY <1>34 DEF SimWrites, TypeOK, ThreadTypes, local, reads, counts
  <2>2. TableTypes'
    BY <1>34 DEF SimWrites, TypeOK, TableTypes, db
  <2>3. WorldTypes'
    <3>0. sim \in SimRecords
      BY DEF TypeOK, WorldTypes
    <3>1. sim' \in SimRecords
      <4>1. CASE \E t \in Named : \E n \in GameNames[t] \ {sim[t]} :
                   sim' = [sim EXCEPT ![t] = n]
        <5>1. PICK t \in Named : \E n \in GameNames[t] : sim' = [sim EXCEPT ![t] = n]
          BY <4>1
        <5>2. PICK n \in GameNames[t] : sim' = [sim EXCEPT ![t] = n]
          BY <5>1
        <5>3. [sim EXCEPT ![t] = n] \in SimRecords
          BY <3>0, SimNameFacts, Zenon
        <5>. QED BY <5>2, <5>3, Zenon
      <4>2. CASE ~ \E t \in Named : \E n \in GameNames[t] \ {sim[t]} :
                     sim' = [sim EXCEPT ![t] = n]
        <5>1. \/ \E x \in SessionTypes : sim' = [sim EXCEPT !.session = x]
              \/ \E n \in 0 .. MaxLap : sim' = [sim EXCEPT !.lap = n]
              \/ sim' = [sim EXCEPT !.inpit = ~@]
              \/ sim' = [sim EXCEPT !.valid = ~@]
          BY <1>34, <4>2, Zenon DEF SimWrites
        <5>. QED BY <5>1, <3>0, SimFacts, Zenon
      <4>. QED BY <4>1, <4>2
    <3>2. pitEntries' \in Nat /\ changes' \in 0 .. MaxChanges
      BY <1>34 DEF SimWrites, TypeOK, WorldTypes
    <3>. QED BY <1>34, <3>1, <3>2 DEF SimWrites, TypeOK, WorldTypes, shared
  <2>. QED BY <2>1, <2>2, <2>3 DEF TypeOK
<1>35. ASSUME StartRun PROVE TypeOK'
  <2>1. ThreadTypes'
    BY <1>35 DEF StartRun, TypeOK, ThreadTypes, local, reads, counts, Labels
  <2>2. TableTypes'
    BY <1>35 DEF StartRun, TypeOK, TableTypes, db
  <2>3. WorldTypes'
    BY <1>35 DEF StartRun, TypeOK, WorldTypes
  <2>. QED BY <2>1, <2>2, <2>3 DEF TypeOK
<1>36. ASSUME StopRun PROVE TypeOK'
  <2>1. ThreadTypes'
    BY <1>36 DEF StopRun, TypeOK, ThreadTypes, local, reads, counts
  <2>2. TableTypes'
    BY <1>36 DEF StopRun, TypeOK, TableTypes, db
  <2>3. WorldTypes'
    BY <1>36 DEF StopRun, TypeOK, WorldTypes, world
  <2>. QED BY <2>1, <2>2, <2>3 DEF TypeOK
<1>37. ASSUME ProcessEnds PROVE TypeOK'
  <2>1. ThreadTypes'
    BY <1>37, ForgetTypes DEF ProcessEnds, Gone
  <2>2. TableTypes'
    BY <1>37 DEF ProcessEnds, TypeOK, TableTypes, db
  <2>3. WorldTypes'
    BY <1>37 DEF ProcessEnds, TypeOK, WorldTypes, world
  <2>. QED BY <2>1, <2>2, <2>3 DEF TypeOK
<1>38. ASSUME UNCHANGED vars PROVE TypeOK'
  BY <1>38 DEF vars, local, db, shared, world, reads, counts, TypeOK, ThreadTypes, TableTypes, WorldTypes
<1>. QED
  BY <1>1, <1>2, <1>3, <1>4, <1>5, <1>6, <1>7, <1>8, <1>9, <1>10, <1>11, <1>12, <1>13, <1>14, <1>15, <1>16, <1>17, <1>18, <1>19, <1>20, <1>21, <1>22, <1>23, <1>24, <1>25, <1>26, <1>27, <1>28, <1>29, <1>30, <1>31, <1>32, <1>33, <1>34, <1>35, <1>36, <1>37, <1>38
  DEF Next, RecorderStep, SetUp, Turn, Stop, Finished

(* The recorder's variables, its tables and the shared fields always have  *)
(* values of their types.                                                  *)
THEOREM TypeCorrect == Spec => []TypeOK
  BY TypeInit, TypeStep, PTL DEF Spec

-----------------------------------------------------------------------------
(* Every parent exists.                                                    *)

(* What an update or an insert does to a table that other rows point into. *)
Grows(t, u) ==
  /\ DOMAIN t \subseteq DOMAIN u
  /\ \A i \in DOMAIN t : u[i].run = t[i].run

(* A row keeps its parent, and the recorder its row, when tables grow and  *)
(* faults are counted up.                                                  *)
LEMMA ParentKept ==
  ASSUME faults \in Nat, faults' \in Nat, faults <= faults',
         NEW t, NEW u, Grows(t, u),
         NEW child, NEW parent \in Ids, Parent(child, parent, t),
         NEW heir, heir.run = child.run
  PROVE  \/ parent \in DOMAIN u /\ u[parent].run = heir.run
         \/ parent <= 0 /\ faults' > 0
  BY DEF Parent, Grows, Ids, NoRow

(* addsession appends at most one row, of this run, and returns its id.    *)
LEMMA AddSessionEffect ==
  ASSUME TypeOK, NEW answer \in InsertAnswers, Charge(answer), AddSessionRow(answer)
  PROVE  /\ Grows(sessions, sessions')
         /\ \A i \in DOMAIN sessions : sessions'[i] = sessions[i]
         /\ \/ id'.session \in DOMAIN sessions' /\ sessions'[id'.session].run = runs
            \/ id'.session <= 0 /\ faults' > 0
<1>. DEFINE row == SessionRow(id.event, id.car, sim.session, runs)
<1>1. id \in [Tables -> Ids] /\ id.event \in Ids /\ id.car \in Ids
  BY NameFacts DEF TypeOK, ThreadTypes
<1>2. row \in SessionRows /\ row.run = runs
  BY <1>1 DEF SessionRow, SessionRows, TypeOK, WorldTypes, SimRecords
<1>3. sessions \in Seq(SessionRows)
  BY DEF TypeOK, TableTypes
<1>4. sessions' = Insert(sessions, row, answer) /\ id'.session = InsertId(sessions, answer)
  BY <1>1, NameFacts DEF AddSessionRow
<1>5. answer # "ok" => faults' > 0
  BY ChargeFacts
<1>. HIDE DEF row
<1>7. /\ DOMAIN sessions \subseteq DOMAIN sessions'
      /\ \A i \in DOMAIN sessions : sessions'[i] = sessions[i]
  BY <1>2, <1>3, <1>4, InsertFacts
<1>8. \A i \in DOMAIN sessions' :
        \/ i \in DOMAIN sessions
        \/ i = Len(sessions) + 1 /\ sessions'[i] = row
  BY <1>2, <1>3, <1>4, InsertFacts
<1>9. \/ /\ answer = "ok" /\ id'.session = Len(sessions) + 1
         /\ id'.session \in DOMAIN sessions' /\ sessions'[id'.session] = row
      \/ answer # "ok" /\ id'.session <= 0
  BY <1>2, <1>3, <1>4, InsertFacts
<1>. QED BY <1>2, <1>5, <1>7, <1>8, <1>9 DEF Grows

(* addstint does, under the session the recorder holds.                    *)
LEMMA AddStintEffect ==
  ASSUME TypeOK, NEW answer \in InsertAnswers, Charge(answer), AddStintRow(answer)
  PROVE  /\ Grows(stints, stints')
         /\ \A i \in DOMAIN stints : stints'[i] = stints[i]
         /\ \A i \in DOMAIN stints' :
              \/ i \in DOMAIN stints /\ stints'[i] = stints[i]
              \/ stints'[i].session = id.session /\ stints'[i].run = runs
         /\ \/ id'.stint \in DOMAIN stints' /\ stints'[id'.stint].run = runs
            \/ id'.stint <= 0 /\ faults' > 0
<1>. DEFINE row == StintRow(id.session, id.driver, runs)
<1>1. id \in [Tables -> Ids] /\ id.session \in Ids /\ id.driver \in Ids
  BY NameFacts DEF TypeOK, ThreadTypes
<1>2. row \in StintRows /\ row.run = runs /\ row.session = id.session
  BY <1>1 DEF StintRow, StintRows, TypeOK, WorldTypes
<1>3. stints \in Seq(StintRows)
  BY DEF TypeOK, TableTypes
<1>4. stints' = Insert(stints, row, answer) /\ id'.stint = InsertId(stints, answer)
  BY <1>1, NameFacts DEF AddStintRow
<1>5. answer # "ok" => faults' > 0
  BY ChargeFacts
<1>. HIDE DEF row
<1>7. /\ DOMAIN stints \subseteq DOMAIN stints'
      /\ \A i \in DOMAIN stints : stints'[i] = stints[i]
  BY <1>2, <1>3, <1>4, InsertFacts
<1>8. \A i \in DOMAIN stints' :
        \/ i \in DOMAIN stints
        \/ i = Len(stints) + 1 /\ stints'[i] = row
  BY <1>2, <1>3, <1>4, InsertFacts
<1>9. \/ /\ answer = "ok" /\ id'.stint = Len(stints) + 1
         /\ id'.stint \in DOMAIN stints' /\ stints'[id'.stint] = row
      \/ answer # "ok" /\ id'.stint <= 0
  BY <1>2, <1>3, <1>4, InsertFacts
<1>. QED BY <1>2, <1>5, <1>7, <1>8, <1>9 DEF Grows

(* addstintlap does, under the stint it holds.                             *)
LEMMA AddLapEffect ==
  ASSUME TypeOK, NEW answer \in InsertAnswers, Charge(answer), AddLapRow(answer)
  PROVE  /\ Grows(laps, laps')
         /\ \A i \in DOMAIN laps : laps'[i] = laps[i]
         /\ \A i \in DOMAIN laps' :
              \/ i \in DOMAIN laps /\ laps'[i] = laps[i]
              \/ /\ i = Len(laps) + 1
                 /\ laps'[i].stint = id.stint /\ laps'[i].run = runs
                 /\ ~laps'[i].finished
         /\ \/ /\ id'.lap = Len(laps) + 1 /\ id'.lap \in DOMAIN laps'
               /\ laps'[id'.lap].run = runs /\ ~laps'[id'.lap].finished
            \/ id'.lap <= 0 /\ faults' > 0
<1>. DEFINE row == LapRow(id.stint, runs)
<1>1. id \in [Tables -> Ids] /\ id.stint \in Ids
  BY NameFacts DEF TypeOK, ThreadTypes
<1>2. row \in LapRows /\ row.run = runs /\ row.stint = id.stint
  BY <1>1 DEF LapRow, LapRows, TypeOK, WorldTypes
<1>6. ~row.finished
  BY Zenon DEF LapRow
<1>3. laps \in Seq(LapRows)
  BY DEF TypeOK, TableTypes
<1>4. laps' = Insert(laps, row, answer) /\ id'.lap = InsertId(laps, answer)
  BY <1>1, NameFacts DEF AddLapRow
<1>5. answer # "ok" => faults' > 0
  BY ChargeFacts
<1>. HIDE DEF row
<1>7. /\ DOMAIN laps \subseteq DOMAIN laps'
      /\ \A i \in DOMAIN laps : laps'[i] = laps[i]
  BY <1>2, <1>3, <1>4, InsertFacts
<1>8. \A i \in DOMAIN laps' :
        \/ i \in DOMAIN laps
        \/ i = Len(laps) + 1 /\ laps'[i] = row
  BY <1>2, <1>3, <1>4, InsertFacts
<1>9. \/ /\ answer = "ok" /\ id'.lap = Len(laps) + 1
         /\ id'.lap \in DOMAIN laps' /\ laps'[id'.lap] = row
      \/ answer # "ok" /\ id'.lap <= 0
  BY <1>2, <1>3, <1>4, InsertFacts
<1>. QED BY <1>2, <1>6, <1>5, <1>7, <1>8, <1>9 DEF Grows

(* addtelemetry does, under the lap it holds.                              *)
LEMMA AddTelemetryEffect ==
  ASSUME TypeOK, NEW answer \in InsertAnswers, Charge(answer), AddTelemetryRow(answer)
  PROVE  /\ \A i \in DOMAIN telemetry : i \in DOMAIN telemetry' /\ telemetry'[i] = telemetry[i]
         /\ \A i \in DOMAIN telemetry' :
              \/ i \in DOMAIN telemetry /\ telemetry'[i] = telemetry[i]
              \/ /\ i = Len(telemetry) + 1
                 /\ telemetry'[i].lap = id.lap /\ telemetry'[i].run = runs
         /\ \/ id'.telemetry \in DOMAIN telemetry' /\ telemetry'[id'.telemetry].run = runs
            \/ id'.telemetry <= 0 /\ faults' > 0
<1>. DEFINE row == TelemetryRow(id.lap, runs)
<1>1. id \in [Tables -> Ids] /\ id.lap \in Ids
  BY NameFacts DEF TypeOK, ThreadTypes
<1>2. row \in TelemetryRows /\ row.run = runs /\ row.lap = id.lap
  BY <1>1 DEF TelemetryRow, TelemetryRows, TypeOK, WorldTypes
<1>3. telemetry \in Seq(TelemetryRows)
  BY DEF TypeOK, TableTypes
<1>4. /\ telemetry' = Insert(telemetry, row, answer)
      /\ id'.telemetry = InsertId(telemetry, answer)
  BY <1>1, NameFacts DEF AddTelemetryRow
<1>5. answer # "ok" => faults' > 0
  BY ChargeFacts
<1>. HIDE DEF row
<1>7. /\ DOMAIN telemetry \subseteq DOMAIN telemetry'
      /\ \A i \in DOMAIN telemetry : telemetry'[i] = telemetry[i]
  BY <1>2, <1>3, <1>4, InsertFacts
<1>8. \A i \in DOMAIN telemetry' :
        \/ i \in DOMAIN telemetry
        \/ i = Len(telemetry) + 1 /\ telemetry'[i] = row
  BY <1>2, <1>3, <1>4, InsertFacts
<1>9. \/ /\ answer = "ok" /\ id'.telemetry = Len(telemetry) + 1
         /\ id'.telemetry \in DOMAIN telemetry' /\ telemetry'[id'.telemetry] = row
      \/ answer # "ok" /\ id'.telemetry <= 0
  BY <1>2, <1>3, <1>4, InsertFacts
<1>. QED BY <1>2, <1>5, <1>7, <1>8, <1>9 DEF Grows

(* The closing updates keep every row's parent and run.                    *)
LEMMA CloseEffect ==
  ASSUME TypeOK, NEW answer \in CallAnswers
  PROVE  /\ CloseSessionRow(answer) => Grows(sessions, sessions')
         /\ CloseStintRow(answer) =>
              /\ Grows(stints, stints') /\ DOMAIN stints' = DOMAIN stints
              /\ \A i \in DOMAIN stints : stints'[i].session = stints[i].session
         /\ CloseLapRow(answer) =>
              /\ Grows(laps, laps') /\ DOMAIN laps' = DOMAIN laps
              /\ \A i \in DOMAIN laps : laps'[i].stint = laps[i].stint
<1>1. id.session \in Ids /\ id.stint \in Ids /\ id.lap \in Ids
  BY NameFacts DEF TypeOK, ThreadTypes
<1>2. CloseSessionRow(answer) => Grows(sessions, sessions')
  BY <1>1, CloseSessionFacts DEF CloseSessionRow, TypeOK, TableTypes, Grows
<1>3. CloseStintRow(answer) =>
         /\ Grows(stints, stints') /\ DOMAIN stints' = DOMAIN stints
         /\ \A i \in DOMAIN stints : stints'[i].session = stints[i].session
  BY <1>1, CloseStintFacts DEF CloseStintRow, TypeOK, TableTypes, ThreadTypes, Grows
<1>4. CloseLapRow(answer) =>
         /\ Grows(laps, laps') /\ DOMAIN laps' = DOMAIN laps
         /\ \A i \in DOMAIN laps : laps'[i].stint = laps[i].stint
  BY <1>1, CloseLapFacts DEF CloseLapRow, TypeOK, TableTypes, Grows
<1>. QED BY <1>2, <1>3, <1>4

(* An update of a telemetry row changes no key, parent or run.             *)
LEMMA UpdateEffect ==
  ASSUME TypeOK, NEW from, NEW to, UpdateTelemetry(from, to)
  PROVE  /\ DOMAIN telemetry' = DOMAIN telemetry
         /\ \A i \in DOMAIN telemetry :
              telemetry'[i].lap = telemetry[i].lap /\ telemetry'[i].run = telemetry[i].run
<1>1. id.telemetry \in Ids /\ channel \in 1 .. 6
  BY NameFacts DEF TypeOK, ThreadTypes
<1>2. telemetry \in Seq(TelemetryRows)
  BY DEF TypeOK, TableTypes
<1>3. PICK answer :
        telemetry' = updatetelemetry(telemetry, id.telemetry, Channels[channel], answer)
  BY DEF UpdateTelemetry
<1>. DEFINE table == updatetelemetry(telemetry, id.telemetry, Channels[channel], answer)
<1>4. /\ DOMAIN table = DOMAIN telemetry
      /\ \A i \in DOMAIN telemetry :
           table[i].run = telemetry[i].run /\ table[i].lap = telemetry[i].lap
  BY <1>1, <1>2, UpdateFacts
<1>. HIDE DEF table
<1>5. telemetry' = table
  BY <1>3 DEF table
<1>. QED BY <1>4, <1>5

(* The counters of runs and faults are natural numbers.                    *)
LEMMA CountFacts ==
  ASSUME TypeOK
  PROVE  faults \in Nat /\ runs \in Nat
  BY RecorderAssumption DEF TypeOK, WorldTypes

(* A step that only lets the tables grow and adds no row below a parent.   *)
LEMMA ParentsKept ==
  ASSUME TypeOK, TypeOK', ParentsExist, faults <= faults',
         Grows(sessions, sessions'), Grows(stints, stints'), Grows(laps, laps')
  PROVE  /\ \A i \in DOMAIN stints : \A heir :
              heir.run = stints[i].run /\ heir.session = stints[i].session
                => Parent(heir, heir.session, sessions)'
         /\ \A i \in DOMAIN laps : \A heir :
              heir.run = laps[i].run /\ heir.stint = laps[i].stint
                => Parent(heir, heir.stint, stints)'
         /\ \A i \in DOMAIN telemetry : \A heir :
              heir.run = telemetry[i].run /\ heir.lap = telemetry[i].lap
                => Parent(heir, heir.lap, laps)'
<1>1. faults \in Nat /\ faults' \in Nat
  BY RecorderAssumption DEF TypeOK, WorldTypes
<1>2. \A i \in DOMAIN stints : stints[i].session \in Ids
  <2>1. \A i \in DOMAIN stints : stints[i] \in StintRows
    BY RowFacts DEF TypeOK, TableTypes
  <2>. QED BY <2>1 DEF StintRows
<1>3. \A i \in DOMAIN laps : laps[i].stint \in Ids
  <2>1. \A i \in DOMAIN laps : laps[i] \in LapRows
    BY RowFacts DEF TypeOK, TableTypes
  <2>. QED BY <2>1 DEF LapRows
<1>4. \A i \in DOMAIN telemetry : telemetry[i].lap \in Ids
  <2>1. \A i \in DOMAIN telemetry : telemetry[i] \in TelemetryRows
    BY RowFacts DEF TypeOK, TableTypes
  <2>. QED BY <2>1 DEF TelemetryRows
<1>5. ASSUME NEW i \in DOMAIN stints, NEW heir,
             heir.run = stints[i].run, heir.session = stints[i].session
      PROVE  Parent(heir, heir.session, sessions)'
  BY <1>1, <1>2, <1>5, ParentKept DEF ParentsExist, Parent
<1>6. ASSUME NEW i \in DOMAIN laps, NEW heir,
             heir.run = laps[i].run, heir.stint = laps[i].stint
      PROVE  Parent(heir, heir.stint, stints)'
  BY <1>1, <1>3, <1>6, ParentKept DEF ParentsExist, Parent
<1>7. ASSUME NEW i \in DOMAIN telemetry, NEW heir,
             heir.run = telemetry[i].run, heir.lap = telemetry[i].lap
      PROVE  Parent(heir, heir.lap, laps)'
  BY <1>1, <1>4, <1>7, ParentKept DEF ParentsExist, Parent
<1>. QED BY <1>5, <1>6, <1>7

(* The ids the step does not replace still name the recorder's own rows.   *)
LEMMA HeldKept ==
  ASSUME TypeOK, TypeOK', faults <= faults', runs' = runs,
         NEW t, NEW u, Grows(t, u), NEW key \in Ids, Held(key, t)
  PROVE  \/ key \in DOMAIN u /\ u[key].run = runs'
         \/ key <= 0 /\ faults' > 0
<1>1. faults \in Nat /\ faults' \in Nat
  BY RecorderAssumption DEF TypeOK, WorldTypes
<1>. QED BY <1>1 DEF Held, Grows

(* A table is a growth of itself.                                          *)
LEMMA GrowsSame == \A t : Grows(t, t)
  BY DEF Grows

(* A step that changes no table: every call but the inserts and updates.   *)
LEMMA QuietParents ==
  ASSUME ParentsInv, TypeOK', faults <= faults',
         UNCHANGED <<sessions, stints, laps, telemetry>>
  PROVE  ParentsExist'
  BY ParentsKept, GrowsSame DEF ParentsInv, ParentsExist

(* A step that inserts nothing keeps the ids the recorder holds.           *)
LEMMA QuietHeld ==
  ASSUME ParentsInv, TypeOK', faults <= faults', runs' = runs, id' = id,
         Grows(sessions, sessions'), Grows(stints, stints'), Grows(laps, laps'),
         pc \notin BeforeSession \cup {"addstint", "addlap"},
         pc' \notin {"l_update", "e_update"}
  PROVE  HeldIds'
<1>1. id.session \in Ids /\ id.stint \in Ids /\ id.lap \in Ids
  BY NameFacts DEF ParentsInv, TypeOK, ThreadTypes
<1>2. Held(id.session, sessions) /\ Held(id.stint, stints) /\ Held(id.lap, laps)
  BY DEF ParentsInv, HeldIds
<1>3. Held(id.session, sessions)' /\ Held(id.stint, stints)' /\ Held(id.lap, laps)'
  BY <1>1, <1>2, HeldKept DEF ParentsInv, Held
<1>. QED BY <1>3 DEF HeldIds

(* A thread that is not past addsession holds nothing.                     *)
LEMMA IdleHeld ==
  ASSUME pc' \in BeforeSession
  PROVE  HeldIds'
  BY DEF HeldIds, BeforeSession

(* A closing update keeps the parents.                                     *)
LEMMA CloseParents ==
  ASSUME ParentsInv, TypeOK', NEW answer \in CallAnswers, Charge(answer),
         CloseSessionRow(answer) \/ CloseStintRow(answer) \/ CloseLapRow(answer)
  PROVE  /\ ParentsExist' /\ faults <= faults' /\ runs' = runs
         /\ Grows(sessions, sessions') /\ Grows(stints, stints') /\ Grows(laps, laps')
<1>. TypeOK /\ ParentsExist /\ faults <= faults' /\ runs' = runs
  BY ChargeFacts DEF ParentsInv, CloseSessionRow, CloseStintRow, CloseLapRow, world
<1>1. /\ DOMAIN stints' = DOMAIN stints /\ DOMAIN laps' = DOMAIN laps
      /\ telemetry' = telemetry
      /\ \A i \in DOMAIN stints : stints'[i].session = stints[i].session
      /\ \A i \in DOMAIN laps : laps'[i].stint = laps[i].stint
  BY CloseEffect DEF CloseSessionRow, CloseStintRow, CloseLapRow
<1>2. Grows(sessions, sessions') /\ Grows(stints, stints') /\ Grows(laps, laps')
  BY CloseEffect, GrowsSame DEF CloseSessionRow, CloseStintRow, CloseLapRow
<1>3. /\ \A i \in DOMAIN stints : stints'[i].run = stints[i].run
      /\ \A i \in DOMAIN laps : laps'[i].run = laps[i].run
  BY <1>2 DEF Grows
<1>4. (\A i \in DOMAIN stints : Parent(stints[i], stints[i].session, sessions))'
  BY <1>1, <1>2, <1>3, ParentsKept
<1>5. (\A i \in DOMAIN laps : Parent(laps[i], laps[i].stint, stints))'
  BY <1>1, <1>2, <1>3, ParentsKept
<1>6. (\A i \in DOMAIN telemetry : Parent(telemetry[i], telemetry[i].lap, laps))'
  BY <1>1, <1>2, ParentsKept
<1>. QED BY <1>2, <1>4, <1>5, <1>6 DEF ParentsExist

(* A new session is below no row the model follows.                        *)
LEMMA AddSessionParents ==
  ASSUME ParentsInv, TypeOK',
         NEW answer \in InsertAnswers, Charge(answer), AddSessionRow(answer)
  PROVE  /\ ParentsExist' /\ faults <= faults' /\ runs' = runs
         /\ Grows(sessions, sessions') /\ Grows(stints, stints') /\ Grows(laps, laps')
         /\ Held(id.session, sessions)'
         /\ id'.stint = id.stint /\ id'.lap = id.lap
<1>. TypeOK /\ ParentsExist /\ faults <= faults' /\ runs' = runs
  BY ChargeFacts DEF ParentsInv, AddSessionRow, world
<1>0. faults \in Nat /\ faults' \in Nat
  BY RecorderAssumption DEF TypeOK, WorldTypes
<1>1. Grows(sessions, sessions') /\ Grows(stints, stints') /\ Grows(laps, laps')
  BY AddSessionEffect, GrowsSame DEF AddSessionRow
<1>2. Held(id.session, sessions)'
  BY AddSessionEffect DEF Held
<1>3. id'.stint = id.stint /\ id'.lap = id.lap
  BY NameFacts, IdFacts DEF AddSessionRow, TypeOK, ThreadTypes
<1>4. (\A i \in DOMAIN stints : Parent(stints[i], stints[i].session, sessions))'
  BY <1>1, ParentsKept DEF AddSessionRow
<1>5. (\A i \in DOMAIN laps : Parent(laps[i], laps[i].stint, stints))'
  BY <1>1, ParentsKept DEF AddSessionRow
<1>6. (\A i \in DOMAIN telemetry : Parent(telemetry[i], telemetry[i].lap, laps))'
  BY <1>1, ParentsKept DEF AddSessionRow
<1>. QED BY <1>1, <1>2, <1>3, <1>4, <1>5, <1>6 DEF ParentsExist

(* A new stint is below the session the recorder holds.                    *)
LEMMA AddStintParents ==
  ASSUME ParentsInv, TypeOK', Held(id.session, sessions),
         NEW answer \in InsertAnswers, Charge(answer), AddStintRow(answer)
  PROVE  /\ ParentsExist' /\ faults <= faults' /\ runs' = runs
         /\ Grows(sessions, sessions') /\ Grows(stints, stints') /\ Grows(laps, laps')
         /\ Held(id.stint, stints)'
         /\ id'.session = id.session /\ id'.lap = id.lap
<1>. TypeOK /\ ParentsExist /\ faults <= faults' /\ runs' = runs
  BY ChargeFacts DEF ParentsInv, AddStintRow, world
<1>0. faults \in Nat /\ faults' \in Nat
  BY RecorderAssumption DEF TypeOK, WorldTypes
<1>1. Grows(sessions, sessions') /\ Grows(stints, stints') /\ Grows(laps, laps')
  BY AddStintEffect, GrowsSame DEF AddStintRow
<1>2. Held(id.stint, stints)'
  BY AddStintEffect DEF Held
<1>3. id'.session = id.session /\ id'.lap = id.lap
  BY NameFacts, IdFacts DEF AddStintRow, TypeOK, ThreadTypes
<1>4. (\A i \in DOMAIN stints : Parent(stints[i], stints[i].session, sessions))'
  <2>1. Held(id.session, sessions)'
    BY <1>0, <1>1 DEF Held, Grows, AddStintRow
  <2>. SUFFICES ASSUME NEW i \in DOMAIN stints'
                PROVE  Parent(stints[i], stints[i].session, sessions)'
    OBVIOUS
  <2>2. CASE i \in DOMAIN stints /\ stints'[i] = stints[i]
    BY <1>1, <2>2, ParentsKept
  <2>3. CASE stints'[i].session = id.session /\ stints'[i].run = runs
    BY <1>1, <1>3, <2>1, <2>3 DEF Parent, Held, AddStintRow
  <2>. QED BY <2>2, <2>3, AddStintEffect
<1>5. (\A i \in DOMAIN laps : Parent(laps[i], laps[i].stint, stints))'
  BY <1>1, ParentsKept DEF AddStintRow
<1>6. (\A i \in DOMAIN telemetry : Parent(telemetry[i], telemetry[i].lap, laps))'
  BY <1>1, ParentsKept DEF AddStintRow
<1>. QED BY <1>1, <1>2, <1>3, <1>4, <1>5, <1>6 DEF ParentsExist

(* A new lap is below the stint the recorder holds.                        *)
LEMMA AddLapParents ==
  ASSUME ParentsInv, TypeOK', Held(id.stint, stints),
         NEW answer \in InsertAnswers, Charge(answer), AddLapRow(answer)
  PROVE  /\ ParentsExist' /\ faults <= faults' /\ runs' = runs
         /\ Grows(sessions, sessions') /\ Grows(stints, stints') /\ Grows(laps, laps')
         /\ Held(id.lap, laps)'
         /\ id'.session = id.session /\ id'.stint = id.stint
<1>. TypeOK /\ ParentsExist /\ faults <= faults' /\ runs' = runs
  BY ChargeFacts DEF ParentsInv, AddLapRow, world
<1>0. faults \in Nat /\ faults' \in Nat
  BY RecorderAssumption DEF TypeOK, WorldTypes
<1>1. Grows(sessions, sessions') /\ Grows(stints, stints') /\ Grows(laps, laps')
  BY AddLapEffect, GrowsSame DEF AddLapRow
<1>2. Held(id.lap, laps)'
  BY AddLapEffect DEF Held
<1>3. id'.session = id.session /\ id'.stint = id.stint
  BY NameFacts, IdFacts DEF AddLapRow, TypeOK, ThreadTypes
<1>4. (\A i \in DOMAIN stints : Parent(stints[i], stints[i].session, sessions))'
  BY <1>1, ParentsKept DEF AddLapRow
<1>5. (\A i \in DOMAIN laps : Parent(laps[i], laps[i].stint, stints))'
  <2>1. Held(id.stint, stints)'
    BY <1>0, <1>1 DEF Held, Grows, AddLapRow
  <2>. SUFFICES ASSUME NEW i \in DOMAIN laps'
                PROVE  Parent(laps[i], laps[i].stint, stints)'
    OBVIOUS
  <2>2. CASE i \in DOMAIN laps /\ laps'[i] = laps[i]
    BY <1>1, <2>2, ParentsKept
  <2>3. CASE laps'[i].stint = id.stint /\ laps'[i].run = runs
    BY <1>1, <1>3, <2>1, <2>3 DEF Parent, Held, AddLapRow
  <2>. QED BY <2>2, <2>3, AddLapEffect
<1>6. (\A i \in DOMAIN telemetry : Parent(telemetry[i], telemetry[i].lap, laps))'
  BY <1>1, ParentsKept DEF AddLapRow
<1>. QED BY <1>1, <1>2, <1>3, <1>4, <1>5, <1>6 DEF ParentsExist

(* A new telemetry row is below the lap the recorder holds.                *)
LEMMA AddTelemetryParents ==
  ASSUME ParentsInv, TypeOK', Held(id.lap, laps),
         NEW answer \in InsertAnswers, Charge(answer), AddTelemetryRow(answer)
  PROVE  /\ ParentsExist' /\ faults <= faults' /\ runs' = runs
         /\ Grows(sessions, sessions') /\ Grows(stints, stints') /\ Grows(laps, laps')
         /\ Held(id.telemetry, telemetry)'
         /\ id'.session = id.session /\ id'.stint = id.stint /\ id'.lap = id.lap
<1>. TypeOK /\ ParentsExist /\ faults <= faults' /\ runs' = runs
  BY ChargeFacts DEF ParentsInv, AddTelemetryRow, world
<1>0. faults \in Nat /\ faults' \in Nat
  BY RecorderAssumption DEF TypeOK, WorldTypes
<1>1. Grows(sessions, sessions') /\ Grows(stints, stints') /\ Grows(laps, laps')
  BY AddTelemetryEffect, GrowsSame DEF AddTelemetryRow
<1>2. Held(id.telemetry, telemetry)'
  BY AddTelemetryEffect DEF Held
<1>3. id'.session = id.session /\ id'.stint = id.stint /\ id'.lap = id.lap
  BY NameFacts, IdFacts DEF AddTelemetryRow, TypeOK, ThreadTypes
<1>4. (\A i \in DOMAIN stints : Parent(stints[i], stints[i].session, sessions))'
  BY <1>1, ParentsKept DEF AddTelemetryRow
<1>5. (\A i \in DOMAIN laps : Parent(laps[i], laps[i].stint, stints))'
  BY <1>1, ParentsKept DEF AddTelemetryRow
<1>6. (\A i \in DOMAIN telemetry : Parent(telemetry[i], telemetry[i].lap, laps))'
  <2>1. Held(id.lap, laps)'
    BY <1>0, <1>1 DEF Held, Grows, AddTelemetryRow
  <2>. SUFFICES ASSUME NEW i \in DOMAIN telemetry'
                PROVE  Parent(telemetry[i], telemetry[i].lap, laps)'
    OBVIOUS
  <2>2. CASE i \in DOMAIN telemetry /\ telemetry'[i] = telemetry[i]
    BY <1>1, <2>2, ParentsKept
  <2>3. CASE telemetry'[i].lap = id.lap /\ telemetry'[i].run = runs
    BY <1>1, <1>3, <2>1, <2>3 DEF Parent, Held, AddTelemetryRow
  <2>. QED BY <2>2, <2>3, AddTelemetryEffect
<1>. QED BY <1>1, <1>2, <1>3, <1>4, <1>5, <1>6 DEF ParentsExist

(* Storing a channel keeps the parents and the row the recorder holds.     *)
LEMMA UpdateParents ==
  ASSUME ParentsInv, TypeOK', NEW from, NEW to, UpdateTelemetry(from, to),
         pc \in {"l_update", "e_update"}
  PROVE  ParentsExist' /\ (pc' \notin BeforeSession \cup {"addstint", "addlap"} => HeldIds')
<1>. TypeOK /\ ParentsExist /\ faults <= faults' /\ runs' = runs /\ id' = id
  BY ChargeFacts DEF ParentsInv, UpdateTelemetry, world
<1>1. UNCHANGED <<sessions, stints, laps>>
  BY DEF UpdateTelemetry
<1>2. /\ DOMAIN telemetry' = DOMAIN telemetry
      /\ \A i \in DOMAIN telemetry :
           telemetry'[i].lap = telemetry[i].lap /\ telemetry'[i].run = telemetry[i].run
  BY UpdateEffect
<1>3. /\ (\A i \in DOMAIN stints : Parent(stints[i], stints[i].session, sessions))'
      /\ (\A i \in DOMAIN laps : Parent(laps[i], laps[i].stint, stints))'
  BY <1>1, ParentsKept, GrowsSame
<1>4. (\A i \in DOMAIN telemetry : Parent(telemetry[i], telemetry[i].lap, laps))'
  BY <1>1, <1>2, ParentsKept, GrowsSame
<1>5. /\ Held(id.session, sessions) /\ Held(id.stint, stints) /\ Held(id.lap, laps)
      /\ Held(id.telemetry, telemetry)
  BY DEF ParentsInv, HeldIds, BeforeSession
<1>6. Held(id.session, sessions)' /\ Held(id.stint, stints)' /\ Held(id.lap, laps)'
  <2>1. faults \in Nat /\ faults' \in Nat
    BY RecorderAssumption DEF TypeOK, WorldTypes
  <2>. QED BY <1>1, <1>5, <2>1 DEF Held
<1>7. Held(id.telemetry, telemetry)'
  <2>1. faults \in Nat /\ faults' \in Nat
    BY RecorderAssumption DEF TypeOK, WorldTypes
  <2>. QED BY <1>2, <1>5, <2>1 DEF Held
<1>. QED BY <1>3, <1>4, <1>6, <1>7 DEF ParentsExist, HeldIds

(* Every step keeps the parents, and the ids the recorder holds, right.    *)
THEOREM ParentsStep == ParentsInv /\ [Next]_vars => ParentsInv'
<1>. SUFFICES ASSUME ParentsInv, [Next]_vars PROVE ParentsExist' /\ HeldIds'
  BY TypeStep DEF ParentsInv
<1>. TypeOK /\ TypeOK'
  BY TypeStep DEF ParentsInv
<1>1. ASSUME Connect PROVE ParentsExist' /\ HeldIds'
  <2>1. pc' \in BeforeSession
    BY <1>1 DEF Connect, BeforeSession
  <2>2. faults <= faults' /\ UNCHANGED <<sessions, stints, laps, telemetry>>
    BY <1>1, ChargeFacts, CountFacts DEF Connect, db
  <2>. QED BY <2>1, <2>2, IdleHeld, QuietParents
<1>2. ASSUME GetTrack PROVE ParentsExist' /\ HeldIds'
  <2>1. pc' \in BeforeSession
    BY <1>2 DEF GetTrack, BeforeSession
  <2>2. faults <= faults' /\ UNCHANGED <<sessions, stints, laps, telemetry>>
    BY <1>2, ChargeFacts, CountFacts DEF GetTrack, db
  <2>. QED BY <2>1, <2>2, IdleHeld, QuietParents
<1>3. ASSUME AddTrack PROVE ParentsExist' /\ HeldIds'
  <2>1. pc' \in BeforeSession
    BY <1>3 DEF AddTrack, BeforeSession
  <2>2. faults <= faults' /\ UNCHANGED <<sessions, stints, laps, telemetry>>
    BY <1>3, ChargeFacts, CountFacts DEF AddTrack, db
  <2>. QED BY <2>1, <2>2, IdleHeld, QuietParents
<1>4. ASSUME AddEvent PROVE ParentsExist' /\ HeldIds'
  <2>1. pc' \in BeforeSession
    BY <1>4 DEF AddEvent, BeforeSession
  <2>2. faults <= faults' /\ UNCHANGED <<sessions, stints, laps, telemetry>>
    BY <1>4, ChargeFacts, CountFacts DEF AddEvent, db
  <2>. QED BY <2>1, <2>2, IdleHeld, QuietParents
<1>5. ASSUME GetDriver PROVE ParentsExist' /\ HeldIds'
  <2>1. pc' \in BeforeSession
    BY <1>5 DEF GetDriver, GetName, BeforeSession
  <2>2. faults <= faults' /\ UNCHANGED <<sessions, stints, laps, telemetry>>
    BY <1>5, ChargeFacts, CountFacts DEF GetDriver, GetName, db
  <2>. QED BY <2>1, <2>2, IdleHeld, QuietParents
<1>6. ASSUME AddDriver PROVE ParentsExist' /\ HeldIds'
  <2>1. pc' \in BeforeSession
    BY <1>6 DEF AddDriver, AddIfMissing, BeforeSession
  <2>2. faults <= faults' /\ UNCHANGED <<sessions, stints, laps, telemetry>>
    BY <1>6, ChargeFacts, CountFacts DEF AddDriver, AddIfMissing, db
  <2>. QED BY <2>1, <2>2, IdleHeld, QuietParents
<1>7. ASSUME GetCar PROVE ParentsExist' /\ HeldIds'
  <2>1. pc' \in BeforeSession
    BY <1>7 DEF GetCar, GetName, BeforeSession
  <2>2. faults <= faults' /\ UNCHANGED <<sessions, stints, laps, telemetry>>
    BY <1>7, ChargeFacts, CountFacts DEF GetCar, GetName, db
  <2>. QED BY <2>1, <2>2, IdleHeld, QuietParents
<1>8. ASSUME AddCar PROVE ParentsExist' /\ HeldIds'
  <2>1. pc' \in BeforeSession
    BY <1>8 DEF AddCar, AddIfMissing, BeforeSession
  <2>2. faults <= faults' /\ UNCHANGED <<sessions, stints, laps, telemetry>>
    BY <1>8, ChargeFacts, CountFacts DEF AddCar, AddIfMissing, db
  <2>. QED BY <2>1, <2>2, IdleHeld, QuietParents
<1>9. ASSUME FirstPit PROVE ParentsExist' /\ HeldIds'
  <2>1. pc' \in BeforeSession
    BY <1>9 DEF FirstPit, BeforeSession
  <2>2. faults <= faults' /\ UNCHANGED <<sessions, stints, laps, telemetry>>
    BY <1>9, ChargeFacts, CountFacts DEF FirstPit, db
  <2>. QED BY <2>1, <2>2, IdleHeld, QuietParents
<1>10. ASSUME Enter PROVE ParentsExist' /\ HeldIds'
  <2>1. faults <= faults' /\ UNCHANGED <<sessions, stints, laps, telemetry>>
    BY <1>10, CountFacts DEF Enter, db
  <2>2. /\ runs' = runs /\ id' = id
        /\ pc \notin BeforeSession \cup {"addstint", "addlap"}
        /\ pc' \notin {"l_update", "e_update"}
    BY <1>10 DEF Enter, BeforeSession, local, world
  <2>. QED BY <2>1, <2>2, GrowsSame, QuietParents, QuietHeld
<1>11. ASSUME Tick PROVE ParentsExist' /\ HeldIds'
  <2>1. faults <= faults' /\ UNCHANGED <<sessions, stints, laps, telemetry>>
    BY <1>11, CountFacts DEF Tick, db
  <2>2. /\ runs' = runs /\ id' = id
        /\ pc \notin BeforeSession \cup {"addstint", "addlap"}
        /\ pc' \notin {"l_update", "e_update"}
    BY <1>11 DEF Tick, BeforeSession, local, world
  <2>. QED BY <2>1, <2>2, GrowsSame, QuietParents, QuietHeld
<1>12. ASSUME ReadPit PROVE ParentsExist' /\ HeldIds'
  <2>1. faults <= faults' /\ UNCHANGED <<sessions, stints, laps, telemetry>>
    BY <1>12, CountFacts DEF ReadPit, db
  <2>2. /\ runs' = runs /\ id' = id
        /\ pc \notin BeforeSession \cup {"addstint", "addlap"}
        /\ pc' \notin {"l_update", "e_update"}
    BY <1>12 DEF ReadPit, BeforeSession, local, world
  <2>. QED BY <2>1, <2>2, GrowsSame, QuietParents, QuietHeld
<1>13. ASSUME CheckPit PROVE ParentsExist' /\ HeldIds'
  <2>1. faults <= faults' /\ UNCHANGED <<sessions, stints, laps, telemetry>>
    BY <1>13, CountFacts DEF CheckPit, db
  <2>2. /\ runs' = runs /\ id' = id
        /\ pc \notin BeforeSession \cup {"addstint", "addlap"}
        /\ pc' \notin {"l_update", "e_update"}
    BY <1>13 DEF CheckPit, BeforeSession, local, world
  <2>. QED BY <2>1, <2>2, GrowsSame, QuietParents, QuietHeld
<1>14. ASSUME CheckLap PROVE ParentsExist' /\ HeldIds'
  <2>1. faults <= faults' /\ UNCHANGED <<sessions, stints, laps, telemetry>>
    BY <1>14, CountFacts DEF CheckLap, db
  <2>2. /\ runs' = runs /\ id' = id
        /\ pc \notin BeforeSession \cup {"addstint", "addlap"}
        /\ pc' \notin {"l_update", "e_update"}
    BY <1>14 DEF CheckLap, BeforeSession, local, world
  <2>. QED BY <2>1, <2>2, GrowsSame, QuietParents, QuietHeld
<1>15. ASSUME EndOfTurn PROVE ParentsExist' /\ HeldIds'
  <2>1. faults <= faults' /\ UNCHANGED <<sessions, stints, laps, telemetry>>
    BY <1>15, CountFacts DEF EndOfTurn, db
  <2>2. /\ runs' = runs /\ id' = id
        /\ pc \notin BeforeSession \cup {"addstint", "addlap"}
        /\ pc' \notin {"l_update", "e_update"}
    BY <1>15 DEF EndOfTurn, BeforeSession, local, world
  <2>. QED BY <2>1, <2>2, GrowsSame, QuietParents, QuietHeld
<1>16. ASSUME SessionClosesStint PROVE ParentsExist' /\ HeldIds'
  <2>1. PICK answer \in CallAnswers : Charge(answer) /\ CloseStintRow(answer)
    BY <1>16 DEF SessionClosesStint
  <2>2. /\ id' = id
        /\ pc \notin BeforeSession \cup {"addstint", "addlap"}
        /\ pc' \notin {"l_update", "e_update"}
    BY <1>16 DEF SessionClosesStint, CloseStintRow, BeforeSession, local
  <2>. QED BY <2>1, <2>2, CloseParents, QuietHeld
<1>17. ASSUME SessionCloses PROVE ParentsExist' /\ HeldIds'
  <2>1. PICK answer \in CallAnswers : Charge(answer) /\ CloseSessionRow(answer)
    BY <1>17 DEF SessionCloses
  <2>2. /\ id' = id
        /\ pc \notin BeforeSession \cup {"addstint", "addlap"}
        /\ pc' \notin {"l_update", "e_update"}
    BY <1>17 DEF SessionCloses, CloseSessionRow, BeforeSession, local
  <2>. QED BY <2>1, <2>2, CloseParents, QuietHeld
<1>18. ASSUME PitClosesStint PROVE ParentsExist' /\ HeldIds'
  <2>1. PICK answer \in CallAnswers : Charge(answer) /\ CloseStintRow(answer)
    BY <1>18 DEF PitClosesStint
  <2>2. /\ id' = id
        /\ pc \notin BeforeSession \cup {"addstint", "addlap"}
        /\ pc' \notin {"l_update", "e_update"}
    BY <1>18 DEF PitClosesStint, CloseStintRow, BeforeSession, local
  <2>. QED BY <2>1, <2>2, CloseParents, QuietHeld
<1>19. ASSUME LapCloses PROVE ParentsExist' /\ HeldIds'
  <2>1. PICK answer \in CallAnswers : Charge(answer) /\ CloseLapRow(answer)
    BY <1>19 DEF LapCloses
  <2>2. /\ id' = id
        /\ pc \notin BeforeSession \cup {"addstint", "addlap"}
        /\ pc' \notin {"l_update", "e_update"}
    BY <1>19 DEF LapCloses, CloseLapRow, BeforeSession, local
  <2>. QED BY <2>1, <2>2, CloseParents, QuietHeld
<1>20. ASSUME EndClosesLap PROVE ParentsExist' /\ HeldIds'
  <2>1. PICK answer \in CallAnswers : Charge(answer) /\ CloseLapRow(answer)
    BY <1>20 DEF EndClosesLap
  <2>2. /\ id' = id
        /\ pc \notin BeforeSession \cup {"addstint", "addlap"}
        /\ pc' \notin {"l_update", "e_update"}
    BY <1>20 DEF EndClosesLap, CloseLapRow, BeforeSession, local
  <2>. QED BY <2>1, <2>2, CloseParents, QuietHeld
<1>21. ASSUME EndClosesStint PROVE ParentsExist' /\ HeldIds'
  <2>1. PICK answer \in CallAnswers : Charge(answer) /\ CloseStintRow(answer)
    BY <1>21 DEF EndClosesStint
  <2>2. /\ id' = id
        /\ pc \notin BeforeSession \cup {"addstint", "addlap"}
        /\ pc' \notin {"l_update", "e_update"}
    BY <1>21 DEF EndClosesStint, CloseStintRow, BeforeSession, local
  <2>. QED BY <2>1, <2>2, CloseParents, QuietHeld
<1>22. ASSUME EndClosesSession PROVE ParentsExist' /\ HeldIds'
  <2>1. PICK answer \in CallAnswers : Charge(answer) /\ CloseSessionRow(answer)
    BY <1>22 DEF EndClosesSession
  <2>2. /\ id' = id
        /\ pc \notin BeforeSession \cup {"addstint", "addlap"}
        /\ pc' \notin {"l_update", "e_update"}
    BY <1>22 DEF EndClosesSession, CloseSessionRow, BeforeSession, local
  <2>. QED BY <2>1, <2>2, CloseParents, QuietHeld
<1>23. ASSUME AddSession PROVE ParentsExist' /\ HeldIds'
  <2>1. PICK answer \in InsertAnswers : Charge(answer) /\ AddSessionRow(answer)
    BY <1>23 DEF AddSession
  <2>2. pc = "addsession"
    BY <1>23 DEF AddSession, BeforeSession, ParentsInv, HeldIds
  <2>3. pc' = "addstint"
    BY <1>23 DEF AddSession, BeforeSession
  <2>4. id.session \in Ids /\ id.stint \in Ids /\ id.lap \in Ids
    BY NameFacts DEF TypeOK, ThreadTypes
  <2>. QED BY <2>1, <2>2, <2>3, <2>4, AddSessionParents, HeldKept DEF HeldIds, Held, BeforeSession
<1>24. ASSUME AddStint PROVE ParentsExist' /\ HeldIds'
  <2>1. PICK answer \in InsertAnswers : Charge(answer) /\ AddStintRow(answer)
    BY <1>24 DEF AddStint
  <2>2. Held(id.session, sessions)
    BY <1>24 DEF AddStint, BeforeSession, ParentsInv, HeldIds
  <2>3. pc' = "addlap"
    BY <1>24 DEF AddStint, BeforeSession
  <2>4. id.session \in Ids /\ id.stint \in Ids /\ id.lap \in Ids
    BY NameFacts DEF TypeOK, ThreadTypes
  <2>. QED BY <2>1, <2>2, <2>3, <2>4, AddStintParents, HeldKept DEF HeldIds, Held, BeforeSession
<1>25. ASSUME AddLap PROVE ParentsExist' /\ HeldIds'
  <2>1. PICK answer \in InsertAnswers : Charge(answer) /\ AddLapRow(answer)
    BY <1>25 DEF AddLap
  <2>2. Held(id.session, sessions) /\ Held(id.stint, stints)
    BY <1>25 DEF AddLap, BeforeSession, ParentsInv, HeldIds
  <2>3. pc' = "enter"
    BY <1>25 DEF AddLap, BeforeSession
  <2>4. id.session \in Ids /\ id.stint \in Ids /\ id.lap \in Ids
    BY NameFacts DEF TypeOK, ThreadTypes
  <2>. QED BY <2>1, <2>2, <2>3, <2>4, AddLapParents, HeldKept DEF HeldIds, Held, BeforeSession
<1>26. ASSUME SessionAdds PROVE ParentsExist' /\ HeldIds'
  <2>1. PICK answer \in InsertAnswers : Charge(answer) /\ AddSessionRow(answer)
    BY <1>26 DEF SessionAdds
  <2>2. Held(id.session, sessions) /\ Held(id.stint, stints) /\ Held(id.lap, laps)
    BY <1>26 DEF SessionAdds, BeforeSession, ParentsInv, HeldIds
  <2>3. pc' = "readpit"
    BY <1>26 DEF SessionAdds, BeforeSession
  <2>4. id.session \in Ids /\ id.stint \in Ids /\ id.lap \in Ids
    BY NameFacts DEF TypeOK, ThreadTypes
  <2>. QED BY <2>1, <2>2, <2>3, <2>4, AddSessionParents, HeldKept DEF HeldIds, Held, BeforeSession
<1>27. ASSUME PitAddsStint PROVE ParentsExist' /\ HeldIds'
  <2>1. PICK answer \in InsertAnswers : Charge(answer) /\ AddStintRow(answer)
    BY <1>27 DEF PitAddsStint
  <2>2. Held(id.session, sessions) /\ Held(id.stint, stints) /\ Held(id.lap, laps)
    BY <1>27 DEF PitAddsStint, BeforeSession, ParentsInv, HeldIds
  <2>3. pc' = "checklap"
    BY <1>27 DEF PitAddsStint, BeforeSession
  <2>4. id.session \in Ids /\ id.stint \in Ids /\ id.lap \in Ids
    BY NameFacts DEF TypeOK, ThreadTypes
  <2>. QED BY <2>1, <2>2, <2>3, <2>4, AddStintParents, HeldKept DEF HeldIds, Held, BeforeSession
<1>28. ASSUME LapAdds PROVE ParentsExist' /\ HeldIds'
  <2>1. PICK answer \in InsertAnswers : Charge(answer) /\ AddLapRow(answer)
    BY <1>28 DEF LapAdds
  <2>2. Held(id.session, sessions) /\ Held(id.stint, stints) /\ Held(id.lap, laps)
    BY <1>28 DEF LapAdds, BeforeSession, ParentsInv, HeldIds
  <2>3. pc' = "tail"
    BY <1>28 DEF LapAdds, BeforeSession
  <2>4. id.session \in Ids /\ id.stint \in Ids /\ id.lap \in Ids
    BY NameFacts DEF TypeOK, ThreadTypes
  <2>. QED BY <2>1, <2>2, <2>3, <2>4, AddLapParents, HeldKept DEF HeldIds, Held, BeforeSession
<1>29. ASSUME LapAddsTelemetry PROVE ParentsExist' /\ HeldIds'
  <2>1. PICK answer \in InsertAnswers : Charge(answer) /\ AddTelemetryRow(answer)
    BY <1>29 DEF LapAddsTelemetry
  <2>2. Held(id.session, sessions) /\ Held(id.stint, stints) /\ Held(id.lap, laps)
    BY <1>29 DEF LapAddsTelemetry, BeforeSession, ParentsInv, HeldIds
  <2>3. pc' = "l_update"
    BY <1>29 DEF LapAddsTelemetry, BeforeSession
  <2>4. id.session \in Ids /\ id.stint \in Ids /\ id.lap \in Ids
    BY NameFacts DEF TypeOK, ThreadTypes
  <2>. QED BY <2>1, <2>2, <2>3, <2>4, AddTelemetryParents, HeldKept DEF HeldIds, Held, BeforeSession
<1>30. ASSUME EndAddsTelemetry PROVE ParentsExist' /\ HeldIds'
  <2>1. PICK answer \in InsertAnswers : Charge(answer) /\ AddTelemetryRow(answer)
    BY <1>30 DEF EndAddsTelemetry
  <2>2. Held(id.session, sessions) /\ Held(id.stint, stints) /\ Held(id.lap, laps)
    BY <1>30 DEF EndAddsTelemetry, BeforeSession, ParentsInv, HeldIds
  <2>3. pc' = "e_update"
    BY <1>30 DEF EndAddsTelemetry, BeforeSession
  <2>4. id.session \in Ids /\ id.stint \in Ids /\ id.lap \in Ids
    BY NameFacts DEF TypeOK, ThreadTypes
  <2>. QED BY <2>1, <2>2, <2>3, <2>4, AddTelemetryParents, HeldKept DEF HeldIds, Held, BeforeSession
<1>31. ASSUME LapStoresChannel PROVE ParentsExist' /\ HeldIds'
  <2>1. UpdateTelemetry("l_update", "l_addlap") /\ pc = "l_update" /\ pc' \in {"l_update", "l_addlap"}
    BY <1>31 DEF LapStoresChannel, UpdateTelemetry
  <2>. QED BY <2>1, UpdateParents DEF BeforeSession
<1>32. ASSUME EndStoresChannel PROVE ParentsExist' /\ HeldIds'
  <2>1. UpdateTelemetry("e_update", "e_closelap") /\ pc = "e_update" /\ pc' \in {"e_update", "e_closelap"}
    BY <1>32 DEF EndStoresChannel, UpdateTelemetry
  <2>. QED BY <2>1, UpdateParents DEF BeforeSession
<1>33. ASSUME CloseDb PROVE ParentsExist' /\ HeldIds'
  <2>1. pc' \in BeforeSession
    BY <1>33 DEF CloseDb, BeforeSession
  <2>2. faults <= faults' /\ UNCHANGED <<sessions, stints, laps, telemetry>>
    BY <1>33, CountFacts DEF CloseDb, db
  <2>. QED BY <2>1, <2>2, IdleHeld, QuietParents
<1>34. ASSUME StartRun PROVE ParentsExist' /\ HeldIds'
  <2>1. pc' \in BeforeSession
    BY <1>34 DEF StartRun, BeforeSession
  <2>2. faults <= faults' /\ UNCHANGED <<sessions, stints, laps, telemetry>>
    BY <1>34, CountFacts DEF StartRun, db
  <2>. QED BY <2>1, <2>2, IdleHeld, QuietParents
<1>35. ASSUME ProcessEnds PROVE ParentsExist' /\ HeldIds'
  <2>1. pc' \in BeforeSession
    BY <1>35 DEF ProcessEnds, BeforeSession
  <2>2. faults <= faults' /\ UNCHANGED <<sessions, stints, laps, telemetry>>
    BY <1>35, CountFacts DEF ProcessEnds, db
  <2>. QED BY <2>1, <2>2, IdleHeld, QuietParents
<1>36. ASSUME SimWrites PROVE ParentsExist' /\ HeldIds'
  <2>1. UNCHANGED <<pc, id, runs, faults, sessions, stints, laps, telemetry>>
    BY <1>36 DEF SimWrites, local, db, shared
  <2>2. HeldIds'
    BY <2>1 DEF ParentsInv, HeldIds, Held
  <2>. QED BY <2>1, <2>2, CountFacts, QuietParents
<1>37. ASSUME StopRun PROVE ParentsExist' /\ HeldIds'
  <2>1. UNCHANGED <<pc, id, runs, faults, sessions, stints, laps, telemetry>>
    BY <1>37 DEF StopRun, local, db, world
  <2>2. HeldIds'
    BY <2>1 DEF ParentsInv, HeldIds, Held
  <2>. QED BY <2>1, <2>2, CountFacts, QuietParents
<1>38. ASSUME UNCHANGED vars PROVE ParentsExist' /\ HeldIds'
  <2>1. UNCHANGED <<pc, id, runs, faults, sessions, stints, laps, telemetry>>
    BY <1>38 DEF vars, local, db, world
  <2>2. HeldIds'
    BY <2>1 DEF ParentsInv, HeldIds, Held
  <2>. QED BY <2>1, <2>2, CountFacts, QuietParents
<1>. QED
  BY <1>1, <1>2, <1>3, <1>4, <1>5, <1>6, <1>7, <1>8, <1>9, <1>10, <1>11, <1>12, <1>13, <1>14, <1>15, <1>16, <1>17, <1>18, <1>19, <1>20, <1>21, <1>22, <1>23, <1>24, <1>25, <1>26, <1>27, <1>28, <1>29, <1>30, <1>31, <1>32, <1>33, <1>34, <1>35, <1>36, <1>37, <1>38
  DEF Next, RecorderStep, SetUp, Turn, Stop, Finished

(* Every stint, lap and telemetry row hangs under a row that the same run  *)
(* stored; only a failed call can leave a row without a parent.            *)
THEOREM ParentsCorrect == Spec => []ParentsExist
<1>1. Init => ParentsInv
  <2>. SUFFICES ASSUME Init PROVE ParentsExist /\ HeldIds
    BY TypeInit DEF ParentsInv
  <2>1. stints = <<>> /\ laps = <<>> /\ telemetry = <<>> /\ pc = "idle"
    BY DEF Init
  <2>. QED BY <2>1 DEF ParentsExist, HeldIds, BeforeSession
<1>2. ParentsInv => ParentsExist
  BY DEF ParentsInv
<1>. QED BY <1>1, <1>2, ParentsStep, PTL DEF Spec

-----------------------------------------------------------------------------
(* One telemetry row for each lap.                                         *)

LapInv == ParentsInv /\ OneTelemetryPerLap /\ LapFresh

(* A step that leaves the lap the recorder holds as open, and as free of   *)
(* telemetry, as the program counter says.                                 *)
LEMMA LapKept ==
  ASSUME LapInv, laps' = laps, id'.lap = id.lap,
         DOMAIN telemetry' = DOMAIN telemetry,
         \A t \in DOMAIN telemetry : telemetry'[t].lap = telemetry[t].lap,
         pc' \in LapOpen => pc \in LapOpen,
         pc' \in LapUnsampled => pc \in LapUnsampled
  PROVE  OneTelemetryPerLap' /\ LapFresh'
<1>1. OneTelemetryPerLap'
  BY DEF LapInv, OneTelemetryPerLap
<1>2. LapFresh'
  BY DEF LapInv, LapFresh
<1>. QED BY <1>1, <1>2

(* A step of a thread that holds no lap, or is done with it.               *)
LEMMA LapNotHeld ==
  ASSUME LapInv,
         DOMAIN telemetry' = DOMAIN telemetry,
         \A t \in DOMAIN telemetry : telemetry'[t].lap = telemetry[t].lap,
         pc' \notin LapOpen, pc' \notin LapUnsampled
  PROVE  OneTelemetryPerLap' /\ LapFresh'
<1>1. OneTelemetryPerLap'
  BY DEF LapInv, OneTelemetryPerLap
<1>. QED BY <1>1 DEF LapFresh

(* A new lap is open and no telemetry row names it yet.                    *)
LEMMA NewLap ==
  ASSUME LapInv, NEW answer \in InsertAnswers, Charge(answer), AddLapRow(answer)
  PROVE  OneTelemetryPerLap' /\ LapFresh'
<1>. TypeOK /\ ParentsExist /\ OneTelemetryPerLap /\ telemetry' = telemetry
  BY DEF LapInv, ParentsInv, AddLapRow
<1>1. OneTelemetryPerLap'
  BY DEF OneTelemetryPerLap
<1>0. id'.lap \in Ids
  BY AddLapTypes, NameFacts
<1>2. CASE id'.lap <= 0
  <2>1. ~(id'.lap > 0)
    BY <1>0, <1>2 DEF Ids, NoRow
  <2>. QED BY <1>1, <2>1 DEF LapFresh
<1>3. CASE id'.lap = Len(laps) + 1 /\ ~laps'[id'.lap].finished
  <2>1. \A t \in DOMAIN telemetry : telemetry[t].lap \in DOMAIN laps \/ telemetry[t].lap <= 0
    BY DEF ParentsExist, Parent
  <2>2. laps \in Seq(LapRows)
    BY DEF TypeOK, TableTypes
  <2>3. \A t \in DOMAIN telemetry : telemetry[t].lap # Len(laps) + 1
    BY <2>1, <2>2
  <2>4. /\ ~laps'[id'.lap].finished
        /\ \A t \in DOMAIN telemetry' : telemetry'[t].lap # id'.lap
    BY <1>3, <2>3
  <2>. QED BY <1>1, <2>4 DEF LapFresh
<1>4. id'.lap <= 0 \/ (id'.lap = Len(laps) + 1 /\ ~laps'[id'.lap].finished)
  BY AddLapEffect
<1>. QED BY <1>1, <1>2, <1>3, <1>4

(* The telemetry row of a lap that had none.                               *)
LEMMA NewTelemetry ==
  ASSUME LapInv, NEW answer \in InsertAnswers, Charge(answer), AddTelemetryRow(answer),
         pc \in LapUnsampled, pc' \notin LapUnsampled,
         pc' \in LapOpen => pc \in LapOpen
  PROVE  OneTelemetryPerLap' /\ LapFresh'
<1>. TypeOK /\ OneTelemetryPerLap /\ LapFresh /\ laps' = laps
  BY DEF LapInv, ParentsInv, AddTelemetryRow
<1>1. id'.lap = id.lap
  BY NameFacts, IdFacts DEF AddTelemetryRow, TypeOK, ThreadTypes
<1>2. OneTelemetryPerLap'
  <2>. SUFFICES ASSUME NEW i \in DOMAIN telemetry', NEW j \in DOMAIN telemetry',
                       telemetry'[i].lap = telemetry'[j].lap, telemetry'[i].lap > 0
                PROVE  i = j
    BY DEF OneTelemetryPerLap
  <2>1. \A k \in DOMAIN telemetry' :
          \/ k \in DOMAIN telemetry /\ telemetry'[k] = telemetry[k]
          \/ k = Len(telemetry) + 1 /\ telemetry'[k].lap = id.lap
    BY AddTelemetryEffect
  <2>2. id.lap > 0 => \A k \in DOMAIN telemetry : telemetry[k].lap # id.lap
    BY DEF LapFresh
  <2>. QED BY <2>1, <2>2 DEF OneTelemetryPerLap
<1>3. LapFresh'
  BY <1>1 DEF LapFresh
<1>. QED BY <1>2, <1>3

(* Every step keeps one telemetry row to a lap and the held lap fresh.     *)
THEOREM LapStep == LapInv /\ [Next]_vars => LapInv'
<1>. SUFFICES ASSUME LapInv, [Next]_vars PROVE OneTelemetryPerLap' /\ LapFresh'
  BY ParentsStep DEF LapInv
<1>. TypeOK /\ ParentsExist
  BY DEF LapInv, ParentsInv
<1>1. ASSUME Connect PROVE OneTelemetryPerLap' /\ LapFresh'
  <2>1. pc' \notin LapOpen /\ pc' \notin LapUnsampled
    BY <1>1 DEF Connect, LapOpen, LapUnsampled
  <2>2. telemetry' = telemetry
    BY <1>1 DEF Connect, db
  <2>. QED BY <2>1, <2>2, LapNotHeld
<1>2. ASSUME GetTrack PROVE OneTelemetryPerLap' /\ LapFresh'
  <2>1. pc' \notin LapOpen /\ pc' \notin LapUnsampled
    BY <1>2 DEF GetTrack, LapOpen, LapUnsampled
  <2>2. telemetry' = telemetry
    BY <1>2 DEF GetTrack, db
  <2>. QED BY <2>1, <2>2, LapNotHeld
<1>3. ASSUME AddTrack PROVE OneTelemetryPerLap' /\ LapFresh'
  <2>1. pc' \notin LapOpen /\ pc' \notin LapUnsampled
    BY <1>3 DEF AddTrack, LapOpen, LapUnsampled
  <2>2. telemetry' = telemetry
    BY <1>3 DEF AddTrack, db
  <2>. QED BY <2>1, <2>2, LapNotHeld
<1>4. ASSUME AddEvent PROVE OneTelemetryPerLap' /\ LapFresh'
  <2>1. pc' \notin LapOpen /\ pc' \notin LapUnsampled
    BY <1>4 DEF AddEvent, LapOpen, LapUnsampled
  <2>2. telemetry' = telemetry
    BY <1>4 DEF AddEvent, db
  <2>. QED BY <2>1, <2>2, LapNotHeld
<1>5. ASSUME GetDriver PROVE OneTelemetryPerLap' /\ LapFresh'
  <2>1. pc' \notin LapOpen /\ pc' \notin LapUnsampled
    BY <1>5 DEF GetDriver, GetName, LapOpen, LapUnsampled
  <2>2. telemetry' = telemetry
    BY <1>5 DEF GetDriver, GetName, db
  <2>. QED BY <2>1, <2>2, LapNotHeld
<1>6. ASSUME AddDriver PROVE OneTelemetryPerLap' /\ LapFresh'
  <2>1. pc' \notin LapOpen /\ pc' \notin LapUnsampled
    BY <1>6 DEF AddDriver, AddIfMissing, LapOpen, LapUnsampled
  <2>2. telemetry' = telemetry
    BY <1>6 DEF AddDriver, AddIfMissing, db
  <2>. QED BY <2>1, <2>2, LapNotHeld
<1>7. ASSUME GetCar PROVE OneTelemetryPerLap' /\ LapFresh'
  <2>1. pc' \notin LapOpen /\ pc' \notin LapUnsampled
    BY <1>7 DEF GetCar, GetName, LapOpen, LapUnsampled
  <2>2. telemetry' = telemetry
    BY <1>7 DEF GetCar, GetName, db
  <2>. QED BY <2>1, <2>2, LapNotHeld
<1>8. ASSUME AddCar PROVE OneTelemetryPerLap' /\ LapFresh'
  <2>1. pc' \notin LapOpen /\ pc' \notin LapUnsampled
    BY <1>8 DEF AddCar, AddIfMissing, LapOpen, LapUnsampled
  <2>2. telemetry' = telemetry
    BY <1>8 DEF AddCar, AddIfMissing, db
  <2>. QED BY <2>1, <2>2, LapNotHeld
<1>9. ASSUME FirstPit PROVE OneTelemetryPerLap' /\ LapFresh'
  <2>1. pc' \notin LapOpen /\ pc' \notin LapUnsampled
    BY <1>9 DEF FirstPit, LapOpen, LapUnsampled
  <2>2. telemetry' = telemetry
    BY <1>9 DEF FirstPit, db
  <2>. QED BY <2>1, <2>2, LapNotHeld
<1>10. ASSUME AddSession PROVE OneTelemetryPerLap' /\ LapFresh'
  <2>1. pc' \notin LapOpen /\ pc' \notin LapUnsampled
    BY <1>10 DEF AddSession, AddSessionRow, LapOpen, LapUnsampled
  <2>2. telemetry' = telemetry
    BY <1>10 DEF AddSession, AddSessionRow, db
  <2>. QED BY <2>1, <2>2, LapNotHeld
<1>11. ASSUME AddStint PROVE OneTelemetryPerLap' /\ LapFresh'
  <2>1. pc' \notin LapOpen /\ pc' \notin LapUnsampled
    BY <1>11 DEF AddStint, AddStintRow, LapOpen, LapUnsampled
  <2>2. telemetry' = telemetry
    BY <1>11 DEF AddStint, AddStintRow, db
  <2>. QED BY <2>1, <2>2, LapNotHeld
<1>12. ASSUME AddLap PROVE OneTelemetryPerLap' /\ LapFresh'
  BY <1>12, NewLap DEF AddLap
<1>13. ASSUME LapAdds PROVE OneTelemetryPerLap' /\ LapFresh'
  BY <1>13, NewLap DEF LapAdds
<1>14. ASSUME Enter PROVE OneTelemetryPerLap' /\ LapFresh'
  <2>1. laps' = laps /\ telemetry' = telemetry /\ id' = id
    BY <1>14 DEF Enter, db, local
  <2>2. (pc' \in LapOpen => pc \in LapOpen) /\ (pc' \in LapUnsampled => pc \in LapUnsampled)
    BY <1>14 DEF Enter, LapOpen, LapUnsampled
  <2>. QED BY <2>1, <2>2, LapKept
<1>15. ASSUME Tick PROVE OneTelemetryPerLap' /\ LapFresh'
  <2>1. laps' = laps /\ telemetry' = telemetry /\ id' = id
    BY <1>15 DEF Tick, db, local
  <2>2. (pc' \in LapOpen => pc \in LapOpen) /\ (pc' \in LapUnsampled => pc \in LapUnsampled)
    BY <1>15 DEF Tick, LapOpen, LapUnsampled
  <2>. QED BY <2>1, <2>2, LapKept
<1>16. ASSUME ReadPit PROVE OneTelemetryPerLap' /\ LapFresh'
  <2>1. laps' = laps /\ telemetry' = telemetry /\ id' = id
    BY <1>16 DEF ReadPit, db, local
  <2>2. (pc' \in LapOpen => pc \in LapOpen) /\ (pc' \in LapUnsampled => pc \in LapUnsampled)
    BY <1>16 DEF ReadPit, LapOpen, LapUnsampled
  <2>. QED BY <2>1, <2>2, LapKept
<1>17. ASSUME CheckPit PROVE OneTelemetryPerLap' /\ LapFresh'
  <2>1. laps' = laps /\ telemetry' = telemetry /\ id' = id
    BY <1>17 DEF CheckPit, db, local
  <2>2. (pc' \in LapOpen => pc \in LapOpen) /\ (pc' \in LapUnsampled => pc \in LapUnsampled)
    BY <1>17 DEF CheckPit, LapOpen, LapUnsampled
  <2>. QED BY <2>1, <2>2, LapKept
<1>18. ASSUME CheckLap PROVE OneTelemetryPerLap' /\ LapFresh'
  <2>1. laps' = laps /\ telemetry' = telemetry /\ id' = id
    BY <1>18 DEF CheckLap, db, local
  <2>2. (pc' \in LapOpen => pc \in LapOpen) /\ (pc' \in LapUnsampled => pc \in LapUnsampled)
    BY <1>18 DEF CheckLap, LapOpen, LapUnsampled
  <2>. QED BY <2>1, <2>2, LapKept
<1>19. ASSUME EndOfTurn PROVE OneTelemetryPerLap' /\ LapFresh'
  <2>1. laps' = laps /\ telemetry' = telemetry /\ id' = id
    BY <1>19 DEF EndOfTurn, db, local
  <2>2. (pc' \in LapOpen => pc \in LapOpen) /\ (pc' \in LapUnsampled => pc \in LapUnsampled)
    BY <1>19 DEF EndOfTurn, LapOpen, LapUnsampled
  <2>. QED BY <2>1, <2>2, LapKept
<1>20. ASSUME SessionClosesStint PROVE OneTelemetryPerLap' /\ LapFresh'
  <2>1. laps' = laps /\ telemetry' = telemetry /\ id' = id
    BY <1>20 DEF SessionClosesStint, CloseStintRow, db, local
  <2>2. (pc' \in LapOpen => pc \in LapOpen) /\ (pc' \in LapUnsampled => pc \in LapUnsampled)
    BY <1>20 DEF SessionClosesStint, CloseStintRow, LapOpen, LapUnsampled
  <2>. QED BY <2>1, <2>2, LapKept
<1>21. ASSUME SessionCloses PROVE OneTelemetryPerLap' /\ LapFresh'
  <2>1. laps' = laps /\ telemetry' = telemetry /\ id' = id
    BY <1>21 DEF SessionCloses, CloseSessionRow, db, local
  <2>2. (pc' \in LapOpen => pc \in LapOpen) /\ (pc' \in LapUnsampled => pc \in LapUnsampled)
    BY <1>21 DEF SessionCloses, CloseSessionRow, LapOpen, LapUnsampled
  <2>. QED BY <2>1, <2>2, LapKept
<1>22. ASSUME PitClosesStint PROVE OneTelemetryPerLap' /\ LapFresh'
  <2>1. laps' = laps /\ telemetry' = telemetry /\ id' = id
    BY <1>22 DEF PitClosesStint, CloseStintRow, db, local
  <2>2. (pc' \in LapOpen => pc \in LapOpen) /\ (pc' \in LapUnsampled => pc \in LapUnsampled)
    BY <1>22 DEF PitClosesStint, CloseStintRow, LapOpen, LapUnsampled
  <2>. QED BY <2>1, <2>2, LapKept
<1>23. ASSUME EndClosesStint PROVE OneTelemetryPerLap' /\ LapFresh'
  <2>1. laps' = laps /\ telemetry' = telemetry /\ id' = id
    BY <1>23 DEF EndClosesStint, CloseStintRow, db, local
  <2>2. (pc' \in LapOpen => pc \in LapOpen) /\ (pc' \in LapUnsampled => pc \in LapUnsampled)
    BY <1>23 DEF EndClosesStint, CloseStintRow, LapOpen, LapUnsampled
  <2>. QED BY <2>1, <2>2, LapKept
<1>24. ASSUME EndClosesSession PROVE OneTelemetryPerLap' /\ LapFresh'
  <2>1. laps' = laps /\ telemetry' = telemetry /\ id' = id
    BY <1>24 DEF EndClosesSession, CloseSessionRow, db, local
  <2>2. (pc' \in LapOpen => pc \in LapOpen) /\ (pc' \in LapUnsampled => pc \in LapUnsampled)
    BY <1>24 DEF EndClosesSession, CloseSessionRow, LapOpen, LapUnsampled
  <2>. QED BY <2>1, <2>2, LapKept
<1>25. ASSUME SessionAdds PROVE OneTelemetryPerLap' /\ LapFresh'
  <2>1. laps' = laps /\ telemetry' = telemetry
    BY <1>25 DEF SessionAdds, AddSessionRow
  <2>2. id'.lap = id.lap
    BY <1>25, NameFacts, IdFacts DEF SessionAdds, AddSessionRow, TypeOK, ThreadTypes
  <2>3. (pc' \in LapOpen => pc \in LapOpen) /\ (pc' \in LapUnsampled => pc \in LapUnsampled)
    BY <1>25 DEF SessionAdds, LapOpen, LapUnsampled
  <2>. QED BY <2>1, <2>2, <2>3, LapKept
<1>26. ASSUME PitAddsStint PROVE OneTelemetryPerLap' /\ LapFresh'
  <2>1. laps' = laps /\ telemetry' = telemetry
    BY <1>26 DEF PitAddsStint, AddStintRow
  <2>2. id'.lap = id.lap
    BY <1>26, NameFacts, IdFacts DEF PitAddsStint, AddStintRow, TypeOK, ThreadTypes
  <2>3. (pc' \in LapOpen => pc \in LapOpen) /\ (pc' \in LapUnsampled => pc \in LapUnsampled)
    BY <1>26 DEF PitAddsStint, LapOpen, LapUnsampled
  <2>. QED BY <2>1, <2>2, <2>3, LapKept
<1>27. ASSUME LapCloses PROVE OneTelemetryPerLap' /\ LapFresh'
  <2>1. telemetry' = telemetry /\ id' = id
    BY <1>27 DEF LapCloses, CloseLapRow, local
  <2>2. pc' \notin LapOpen /\ pc \in LapUnsampled
    BY <1>27 DEF LapCloses, LapOpen, LapUnsampled
  <2>. QED BY <2>1, <2>2 DEF LapInv, OneTelemetryPerLap, LapFresh
<1>28. ASSUME LapAddsTelemetry PROVE OneTelemetryPerLap' /\ LapFresh'
  <2>1. /\ pc \in LapUnsampled /\ pc' \notin LapUnsampled
        /\ pc' \in LapOpen => pc \in LapOpen
    BY <1>28 DEF LapAddsTelemetry, LapOpen, LapUnsampled
  <2>. QED BY <1>28, <2>1, NewTelemetry DEF LapAddsTelemetry
<1>29. ASSUME EndAddsTelemetry PROVE OneTelemetryPerLap' /\ LapFresh'
  <2>1. /\ pc \in LapUnsampled /\ pc' \notin LapUnsampled
        /\ pc' \in LapOpen => pc \in LapOpen
    BY <1>29 DEF EndAddsTelemetry, LapOpen, LapUnsampled
  <2>. QED BY <1>29, <2>1, NewTelemetry DEF EndAddsTelemetry
<1>30. ASSUME LapStoresChannel PROVE OneTelemetryPerLap' /\ LapFresh'
  <2>1. laps' = laps /\ id' = id
    BY <1>30 DEF LapStoresChannel, UpdateTelemetry
  <2>2. (pc' \in LapOpen => pc \in LapOpen) /\ (pc' \in LapUnsampled => pc \in LapUnsampled)
    BY <1>30 DEF LapStoresChannel, UpdateTelemetry, LapOpen, LapUnsampled
  <2>. QED BY <1>30, <2>1, <2>2, UpdateEffect, LapKept DEF LapStoresChannel
<1>31. ASSUME EndStoresChannel PROVE OneTelemetryPerLap' /\ LapFresh'
  <2>1. laps' = laps /\ id' = id
    BY <1>31 DEF EndStoresChannel, UpdateTelemetry
  <2>2. (pc' \in LapOpen => pc \in LapOpen) /\ (pc' \in LapUnsampled => pc \in LapUnsampled)
    BY <1>31 DEF EndStoresChannel, UpdateTelemetry, LapOpen, LapUnsampled
  <2>. QED BY <1>31, <2>1, <2>2, UpdateEffect, LapKept DEF EndStoresChannel
<1>32. ASSUME EndClosesLap PROVE OneTelemetryPerLap' /\ LapFresh'
  <2>1. pc' \notin LapOpen /\ pc' \notin LapUnsampled
    BY <1>32 DEF EndClosesLap, CloseLapRow, LapOpen, LapUnsampled
  <2>2. telemetry' = telemetry
    BY <1>32 DEF EndClosesLap, CloseLapRow, db
  <2>. QED BY <2>1, <2>2, LapNotHeld
<1>33. ASSUME CloseDb PROVE OneTelemetryPerLap' /\ LapFresh'
  <2>1. pc' \notin LapOpen /\ pc' \notin LapUnsampled
    BY <1>33 DEF CloseDb, LapOpen, LapUnsampled
  <2>2. telemetry' = telemetry
    BY <1>33 DEF CloseDb, db
  <2>. QED BY <2>1, <2>2, LapNotHeld
<1>34. ASSUME StartRun PROVE OneTelemetryPerLap' /\ LapFresh'
  <2>1. pc' \notin LapOpen /\ pc' \notin LapUnsampled
    BY <1>34 DEF StartRun, LapOpen, LapUnsampled
  <2>2. telemetry' = telemetry
    BY <1>34 DEF StartRun, db
  <2>. QED BY <2>1, <2>2, LapNotHeld
<1>35. ASSUME ProcessEnds PROVE OneTelemetryPerLap' /\ LapFresh'
  <2>1. pc' \notin LapOpen /\ pc' \notin LapUnsampled
    BY <1>35 DEF ProcessEnds, LapOpen, LapUnsampled
  <2>2. telemetry' = telemetry
    BY <1>35 DEF ProcessEnds, db
  <2>. QED BY <2>1, <2>2, LapNotHeld
<1>36. ASSUME SimWrites PROVE OneTelemetryPerLap' /\ LapFresh'
  <2>1. UNCHANGED <<pc, id, laps, telemetry>>
    BY <1>36 DEF SimWrites, local, db
  <2>. QED BY <2>1, LapKept
<1>37. ASSUME StopRun PROVE OneTelemetryPerLap' /\ LapFresh'
  <2>1. UNCHANGED <<pc, id, laps, telemetry>>
    BY <1>37 DEF StopRun, local, db
  <2>. QED BY <2>1, LapKept
<1>38. ASSUME UNCHANGED vars PROVE OneTelemetryPerLap' /\ LapFresh'
  <2>1. UNCHANGED <<pc, id, laps, telemetry>>
    BY <1>38 DEF vars, local, db
  <2>. QED BY <2>1, LapKept
<1>. QED
  BY <1>1, <1>2, <1>3, <1>4, <1>5, <1>6, <1>7, <1>8, <1>9, <1>10, <1>11, <1>12, <1>13, <1>14, <1>15, <1>16, <1>17, <1>18, <1>19, <1>20, <1>21, <1>22, <1>23, <1>24, <1>25, <1>26, <1>27, <1>28, <1>29, <1>30, <1>31, <1>32, <1>33, <1>34, <1>35, <1>36, <1>37, <1>38
  DEF Next, RecorderStep, SetUp, Turn, Stop, Finished

(* There are no laps at first.                                             *)
LEMMA LapInit == Init => LapInv
<1>. SUFFICES ASSUME Init PROVE LapInv
  OBVIOUS
<1>1. /\ stints = <<>> /\ laps = <<>> /\ telemetry = <<>>
      /\ pc = "idle"
  BY DEF Init
<1>. QED
  BY <1>1, TypeInit
  DEF LapInv, ParentsInv, ParentsExist, HeldIds, BeforeSession,
      OneTelemetryPerLap, LapFresh, LapOpen, LapUnsampled

(* The change of lap and the stop never store two telemetry rows for one   *)
(* lap, whatever calls fail and whenever the process dies.                 *)
THEOREM OneTelemetryCorrect == Spec => []OneTelemetryPerLap
<1>1. LapInv => OneTelemetryPerLap
  BY DEF LapInv
<1>. QED BY <1>1, LapInit, LapStep, PTL DEF Spec

(* The change of lap and the stop never close a lap that is closed.        *)
THEOREM LapClosedCorrect == Spec => []LapClosedOnce
<1>1. LapInv => LapClosedOnce
  BY DEF LapInv, LapFresh, LapOpen, LapClosedOnce
<1>. QED BY <1>1, LapInit, LapStep, PTL DEF Spec

-----------------------------------------------------------------------------
(* The rows of earlier runs are final.                                     *)

(* A step that writes no table keeps the earlier runs' rows.               *)
LEMMA TablesKept ==
  ASSUME UNCHANGED <<sessions, stints, laps, telemetry>>
  PROVE  KeepsEarlierRows
  BY DEF KeepsEarlierRows

(* So does a step that inserts a row.                                      *)
LEMMA InsertsKeep ==
  ASSUME TypeOK, NEW answer \in InsertAnswers, Charge(answer),
         \/ AddSessionRow(answer) \/ AddStintRow(answer)
         \/ AddLapRow(answer) \/ AddTelemetryRow(answer)
  PROVE  KeepsEarlierRows
<1>1. CASE AddSessionRow(answer)
  BY <1>1, AddSessionEffect DEF AddSessionRow, KeepsEarlierRows
<1>2. CASE AddStintRow(answer)
  BY <1>2, AddStintEffect DEF AddStintRow, KeepsEarlierRows
<1>3. CASE AddLapRow(answer)
  BY <1>3, AddLapEffect DEF AddLapRow, KeepsEarlierRows
<1>4. CASE AddTelemetryRow(answer)
  BY <1>4, AddTelemetryEffect DEF AddTelemetryRow, KeepsEarlierRows
<1>. QED BY <1>1, <1>2, <1>3, <1>4

(* The session, the stint and the telemetry row that are written belong to *)
(* the run, so no earlier run's row changes.                               *)
LEMMA SessionCloseKeeps ==
  ASSUME TypeOK, Held(id.session, sessions), NEW answer \in CallAnswers,
         CloseSessionRow(answer)
  PROVE  KeepsEarlierRows
<1>1. id.session \in Ids /\ sessions \in Seq(SessionRows) /\ runs \in Nat
  BY NameFacts, CountFacts DEF TypeOK, ThreadTypes, TableTypes
<1>2. sessions' = closesession(sessions, id.session, answer)
      /\ UNCHANGED <<stints, laps, telemetry>>
  BY DEF CloseSessionRow
<1>3. \A j \in DOMAIN sessions : j # id.session => sessions'[j] = sessions[j]
  BY <1>1, <1>2, CloseSessionFacts
<1>4. \A j \in DOMAIN sessions : sessions[j].run < runs => j # id.session
  BY <1>1 DEF Held
<1>. QED BY <1>2, <1>3, <1>4 DEF KeepsEarlierRows

(* The stint that is closed belongs to the run.                            *)
LEMMA StintCloseKeeps ==
  ASSUME TypeOK, Held(id.stint, stints), NEW answer \in CallAnswers,
         CloseStintRow(answer)
  PROVE  KeepsEarlierRows
<1>1. /\ id.stint \in Ids /\ stints \in Seq(StintRows) /\ runs \in Nat
      /\ stintlaps \in Nat /\ validstintlaps \in Nat
  BY NameFacts, CountFacts DEF TypeOK, ThreadTypes, TableTypes
<1>2. stints' = closestint(stints, id.stint, stintlaps, validstintlaps, answer)
      /\ UNCHANGED <<sessions, laps, telemetry>>
  BY DEF CloseStintRow
<1>3. \A j \in DOMAIN stints : j # id.stint => stints'[j] = stints[j]
  BY <1>1, <1>2, CloseStintFacts
<1>4. \A j \in DOMAIN stints : stints[j].run < runs => j # id.stint
  BY <1>1 DEF Held
<1>. QED BY <1>2, <1>3, <1>4 DEF KeepsEarlierRows

(* The lap that is closed belongs to the run.                              *)
LEMMA LapCloseKeeps ==
  ASSUME TypeOK, Held(id.lap, laps), NEW answer \in CallAnswers, CloseLapRow(answer)
  PROVE  KeepsEarlierRows
<1>1. id.lap \in Ids /\ laps \in Seq(LapRows) /\ runs \in Nat
  BY NameFacts, CountFacts DEF TypeOK, ThreadTypes, TableTypes
<1>2. laps' = closelap(laps, id.lap, answer) /\ UNCHANGED <<sessions, stints, telemetry>>
  BY DEF CloseLapRow
<1>3. \A j \in DOMAIN laps : j # id.lap => laps'[j] = laps[j]
  BY <1>1, <1>2, CloseLapFacts
<1>4. \A j \in DOMAIN laps : laps[j].run < runs => j # id.lap
  BY <1>1 DEF Held
<1>. QED BY <1>2, <1>3, <1>4 DEF KeepsEarlierRows

(* The telemetry row that is updated belongs to the run.                   *)
LEMMA UpdateKeeps ==
  ASSUME TypeOK, Held(id.telemetry, telemetry), NEW from, NEW to,
         UpdateTelemetry(from, to)
  PROVE  KeepsEarlierRows
<1>1. /\ id.telemetry \in Ids /\ telemetry \in Seq(TelemetryRows)
      /\ runs \in Nat /\ channel \in 1 .. 6
  BY NameFacts, CountFacts DEF TypeOK, ThreadTypes, TableTypes
<1>2. UNCHANGED <<sessions, stints, laps>>
  BY DEF UpdateTelemetry
<1>3. PICK answer :
        telemetry' = updatetelemetry(telemetry, id.telemetry, Channels[channel], answer)
  BY DEF UpdateTelemetry
<1>. DEFINE table == updatetelemetry(telemetry, id.telemetry, Channels[channel], answer)
<1>4. \A j \in DOMAIN telemetry : j # id.telemetry => table[j] = telemetry[j]
  BY <1>1, UpdateFacts
<1>. HIDE DEF table
<1>5. telemetry' = table
  BY <1>3 DEF table
<1>6. \A j \in DOMAIN telemetry : telemetry[j].run < runs => j # id.telemetry
  BY <1>1 DEF Held
<1>. QED BY <1>2, <1>4, <1>5, <1>6 DEF KeepsEarlierRows

(* No step writes an earlier run's row.                                    *)
THEOREM KeepsStep == LapInv /\ [Next]_vars => KeepsEarlierRows
<1>. SUFFICES ASSUME LapInv, [Next]_vars PROVE KeepsEarlierRows
  OBVIOUS
<1>. TypeOK /\ HeldIds
  BY DEF LapInv, ParentsInv
<1>1. ASSUME Connect PROVE KeepsEarlierRows
  BY <1>1, TablesKept DEF Connect, db
<1>2. ASSUME GetTrack PROVE KeepsEarlierRows
  BY <1>2, TablesKept DEF GetTrack, db
<1>3. ASSUME AddTrack PROVE KeepsEarlierRows
  BY <1>3, TablesKept DEF AddTrack, db
<1>4. ASSUME AddEvent PROVE KeepsEarlierRows
  BY <1>4, TablesKept DEF AddEvent, db
<1>5. ASSUME GetDriver PROVE KeepsEarlierRows
  BY <1>5, TablesKept DEF GetDriver, GetName, db
<1>6. ASSUME AddDriver PROVE KeepsEarlierRows
  BY <1>6, TablesKept DEF AddDriver, AddIfMissing, db
<1>7. ASSUME GetCar PROVE KeepsEarlierRows
  BY <1>7, TablesKept DEF GetCar, GetName, db
<1>8. ASSUME AddCar PROVE KeepsEarlierRows
  BY <1>8, TablesKept DEF AddCar, AddIfMissing, db
<1>9. ASSUME FirstPit PROVE KeepsEarlierRows
  BY <1>9, TablesKept DEF FirstPit, db
<1>10. ASSUME Enter PROVE KeepsEarlierRows
  BY <1>10, TablesKept DEF Enter, db
<1>11. ASSUME Tick PROVE KeepsEarlierRows
  BY <1>11, TablesKept DEF Tick, db
<1>12. ASSUME ReadPit PROVE KeepsEarlierRows
  BY <1>12, TablesKept DEF ReadPit, db
<1>13. ASSUME CheckPit PROVE KeepsEarlierRows
  BY <1>13, TablesKept DEF CheckPit, db
<1>14. ASSUME CheckLap PROVE KeepsEarlierRows
  BY <1>14, TablesKept DEF CheckLap, db
<1>15. ASSUME EndOfTurn PROVE KeepsEarlierRows
  BY <1>15, TablesKept DEF EndOfTurn, db
<1>16. ASSUME CloseDb PROVE KeepsEarlierRows
  BY <1>16, TablesKept DEF CloseDb, db
<1>17. ASSUME SimWrites PROVE KeepsEarlierRows
  BY <1>17, TablesKept DEF SimWrites, db
<1>18. ASSUME StartRun PROVE KeepsEarlierRows
  BY <1>18, TablesKept DEF StartRun, db
<1>19. ASSUME StopRun PROVE KeepsEarlierRows
  BY <1>19, TablesKept DEF StopRun, db
<1>20. ASSUME ProcessEnds PROVE KeepsEarlierRows
  BY <1>20, TablesKept DEF ProcessEnds, db
<1>21. ASSUME AddSession PROVE KeepsEarlierRows
  BY <1>21, InsertsKeep DEF AddSession
<1>22. ASSUME AddStint PROVE KeepsEarlierRows
  BY <1>22, InsertsKeep DEF AddStint
<1>23. ASSUME AddLap PROVE KeepsEarlierRows
  BY <1>23, InsertsKeep DEF AddLap
<1>24. ASSUME SessionAdds PROVE KeepsEarlierRows
  BY <1>24, InsertsKeep DEF SessionAdds
<1>25. ASSUME PitAddsStint PROVE KeepsEarlierRows
  BY <1>25, InsertsKeep DEF PitAddsStint
<1>26. ASSUME LapAdds PROVE KeepsEarlierRows
  BY <1>26, InsertsKeep DEF LapAdds
<1>27. ASSUME LapAddsTelemetry PROVE KeepsEarlierRows
  BY <1>27, InsertsKeep DEF LapAddsTelemetry
<1>28. ASSUME EndAddsTelemetry PROVE KeepsEarlierRows
  BY <1>28, InsertsKeep DEF EndAddsTelemetry
<1>29. ASSUME SessionClosesStint PROVE KeepsEarlierRows
  <2>1. Held(id.stint, stints)
    BY <1>29 DEF SessionClosesStint, HeldIds, BeforeSession, LapOpen
  <2>. QED BY <1>29, <2>1, StintCloseKeeps DEF SessionClosesStint
<1>30. ASSUME PitClosesStint PROVE KeepsEarlierRows
  <2>1. Held(id.stint, stints)
    BY <1>30 DEF PitClosesStint, HeldIds, BeforeSession, LapOpen
  <2>. QED BY <1>30, <2>1, StintCloseKeeps DEF PitClosesStint
<1>31. ASSUME EndClosesStint PROVE KeepsEarlierRows
  <2>1. Held(id.stint, stints)
    BY <1>31 DEF EndClosesStint, HeldIds, BeforeSession, LapOpen
  <2>. QED BY <1>31, <2>1, StintCloseKeeps DEF EndClosesStint
<1>32. ASSUME SessionCloses PROVE KeepsEarlierRows
  <2>1. Held(id.session, sessions)
    BY <1>32 DEF SessionCloses, HeldIds, BeforeSession, LapOpen
  <2>. QED BY <1>32, <2>1, SessionCloseKeeps DEF SessionCloses
<1>33. ASSUME EndClosesSession PROVE KeepsEarlierRows
  <2>1. Held(id.session, sessions)
    BY <1>33 DEF EndClosesSession, HeldIds, BeforeSession, LapOpen
  <2>. QED BY <1>33, <2>1, SessionCloseKeeps DEF EndClosesSession
<1>34. ASSUME LapCloses PROVE KeepsEarlierRows
  <2>1. Held(id.lap, laps)
    BY <1>34 DEF LapCloses, HeldIds, BeforeSession, LapOpen
  <2>. QED BY <1>34, <2>1, LapCloseKeeps DEF LapCloses
<1>35. ASSUME EndClosesLap PROVE KeepsEarlierRows
  <2>1. Held(id.lap, laps)
    BY <1>35 DEF EndClosesLap, HeldIds, BeforeSession, LapOpen
  <2>. QED BY <1>35, <2>1, LapCloseKeeps DEF EndClosesLap
<1>36. ASSUME LapStoresChannel PROVE KeepsEarlierRows
  <2>1. Held(id.telemetry, telemetry)
    BY <1>36 DEF LapStoresChannel, UpdateTelemetry, HeldIds, BeforeSession, LapOpen
  <2>. QED BY <1>36, <2>1, UpdateKeeps DEF LapStoresChannel
<1>37. ASSUME EndStoresChannel PROVE KeepsEarlierRows
  <2>1. Held(id.telemetry, telemetry)
    BY <1>37 DEF EndStoresChannel, UpdateTelemetry, HeldIds, BeforeSession, LapOpen
  <2>. QED BY <1>37, <2>1, UpdateKeeps DEF EndStoresChannel
<1>38. ASSUME UNCHANGED vars PROVE KeepsEarlierRows
  BY <1>38, TablesKept DEF vars, db
<1>. QED
  BY <1>1, <1>2, <1>3, <1>4, <1>5, <1>6, <1>7, <1>8, <1>9, <1>10, <1>11, <1>12, <1>13, <1>14, <1>15, <1>16, <1>17, <1>18, <1>19, <1>20, <1>21, <1>22, <1>23, <1>24, <1>25, <1>26, <1>27, <1>28, <1>29, <1>30, <1>31, <1>32, <1>33, <1>34, <1>35, <1>36, <1>37, <1>38
  DEF Next, RecorderStep, SetUp, Turn, Stop, Finished

(* What an earlier run stored is never written again.                      *)
THEOREM EarlierRunsCorrect == Spec => EarlierRunsKept
<1>1. LapInv /\ [Next]_vars => [KeepsEarlierRows]_vars
  BY KeepsStep
<1>. QED BY <1>1, LapInit, LapStep, PTL DEF Spec, EarlierRunsKept
-----------------------------------------------------------------------------
(* The recorder implements RecorderThread.                                 *)

(* A step of the recorder is a step of the abstract thread, or leaves it   *)
(* where it is.                                                            *)
THEOREM ThreadStep ==
  [Next]_vars => [Thread!ThreadNext]_<<Stage, program_state, err>>
<1>. SUFFICES ASSUME [Next]_vars,
                     ~ UNCHANGED <<Stage, program_state, err>>
              PROVE  Thread!ThreadNext
  OBVIOUS
<1>1. ASSUME Connect PROVE Thread!ThreadNext
  BY <1>1
  DEF Connect, Thread!ThreadNext, Thread!RecorderSteps, Thread!SetUpFails, Thread!E_FAILED_DB_CONN,
      Stage, SetUpLabels, ClosingLabels, BeforeSession, Gone
<1>2. ASSUME GetTrack PROVE Thread!ThreadNext
  BY <1>2
  DEF GetTrack, Thread!ThreadNext, Thread!RecorderSteps, Thread!SetUpFails, Thread!E_FAILED_DB_CONN,
      Stage, SetUpLabels, ClosingLabels, BeforeSession, Gone
<1>3. ASSUME AddTrack PROVE Thread!ThreadNext
  BY <1>3
  DEF AddTrack, Thread!ThreadNext, Thread!RecorderSteps, Thread!SetUpFails, Thread!E_FAILED_DB_CONN,
      Stage, SetUpLabels, ClosingLabels, BeforeSession, Gone
<1>4. ASSUME Enter PROVE Thread!ThreadNext
  BY <1>4
  DEF Enter, Keep, shared, Thread!ThreadNext, Thread!RecorderSteps, Thread!EnterLoop,
      Stage, SetUpLabels, ClosingLabels, BeforeSession, Gone
<1>5. ASSUME EndOfTurn PROVE Thread!ThreadNext
  BY <1>5
  DEF EndOfTurn, Keep, shared, Thread!ThreadNext, Thread!RecorderSteps, Thread!LeaveLoop,
      Stage, SetUpLabels, ClosingLabels, BeforeSession, Gone
<1>6. ASSUME CloseDb PROVE Thread!ThreadNext
  BY <1>6
  DEF CloseDb, Keep, shared, Thread!ThreadNext, Thread!RecorderSteps, Thread!End,
      Stage, SetUpLabels, ClosingLabels, BeforeSession, Gone
<1>7. ASSUME StartRun PROVE Thread!ThreadNext
  BY <1>7
  DEF StartRun, Thread!ThreadNext, Thread!Begin,
      Stage, SetUpLabels, ClosingLabels, BeforeSession, Gone
<1>8. ASSUME StopRun PROVE Thread!ThreadNext
  BY <1>8
  DEF StopRun, Thread!ThreadNext, Thread!Tell,
      Stage, SetUpLabels, ClosingLabels, BeforeSession, Gone
<1>9. ASSUME ProcessEnds PROVE Thread!ThreadNext
  BY <1>9
  DEF ProcessEnds, Thread!ThreadNext, Thread!Die,
      Stage, SetUpLabels, ClosingLabels, BeforeSession, Gone
<1>10. ASSUME AddEvent PROVE UNCHANGED <<Stage, program_state, err>>
  BY <1>10
  DEF AddEvent, Calls, Goto, Keep, shared,
      Stage, SetUpLabels, ClosingLabels, BeforeSession, Gone
<1>11. ASSUME GetDriver PROVE UNCHANGED <<Stage, program_state, err>>
  BY <1>11
  DEF GetDriver, GetName, Calls, Goto, Keep, shared,
      Stage, SetUpLabels, ClosingLabels, BeforeSession, Gone
<1>12. ASSUME AddDriver PROVE UNCHANGED <<Stage, program_state, err>>
  BY <1>12
  DEF AddDriver, AddIfMissing, Calls, Goto, Keep, shared,
      Stage, SetUpLabels, ClosingLabels, BeforeSession, Gone
<1>13. ASSUME GetCar PROVE UNCHANGED <<Stage, program_state, err>>
  BY <1>13
  DEF GetCar, GetName, Calls, Goto, Keep, shared,
      Stage, SetUpLabels, ClosingLabels, BeforeSession, Gone
<1>14. ASSUME AddCar PROVE UNCHANGED <<Stage, program_state, err>>
  BY <1>14
  DEF AddCar, AddIfMissing, Calls, Goto, Keep, shared,
      Stage, SetUpLabels, ClosingLabels, BeforeSession, Gone
<1>15. ASSUME FirstPit PROVE UNCHANGED <<Stage, program_state, err>>
  BY <1>15
  DEF FirstPit, Goto, Keep, shared,
      Stage, SetUpLabels, ClosingLabels, BeforeSession, Gone
<1>16. ASSUME AddSession PROVE UNCHANGED <<Stage, program_state, err>>
  BY <1>16
  DEF AddSession, Calls, Goto, AddSessionRow, Keep, shared,
      Stage, SetUpLabels, ClosingLabels, BeforeSession, Gone
<1>17. ASSUME AddStint PROVE UNCHANGED <<Stage, program_state, err>>
  BY <1>17
  DEF AddStint, Calls, Goto, AddStintRow, Keep, shared,
      Stage, SetUpLabels, ClosingLabels, BeforeSession, Gone
<1>18. ASSUME AddLap PROVE UNCHANGED <<Stage, program_state, err>>
  BY <1>18
  DEF AddLap, Calls, Goto, AddLapRow, Keep, shared,
      Stage, SetUpLabels, ClosingLabels, BeforeSession, Gone
<1>19. ASSUME Tick PROVE UNCHANGED <<Stage, program_state, err>>
  BY <1>19
  DEF Tick, Keep, shared,
      Stage, SetUpLabels, ClosingLabels, BeforeSession, Gone
<1>20. ASSUME SessionClosesStint PROVE UNCHANGED <<Stage, program_state, err>>
  BY <1>20
  DEF SessionClosesStint, Calls, Goto, CloseStintRow, Keep, shared,
      Stage, SetUpLabels, ClosingLabels, BeforeSession, Gone
<1>21. ASSUME SessionCloses PROVE UNCHANGED <<Stage, program_state, err>>
  BY <1>21
  DEF SessionCloses, Calls, Goto, CloseSessionRow, Keep, shared,
      Stage, SetUpLabels, ClosingLabels, BeforeSession, Gone
<1>22. ASSUME SessionAdds PROVE UNCHANGED <<Stage, program_state, err>>
  BY <1>22
  DEF SessionAdds, Calls, Goto, AddSessionRow, Keep, shared,
      Stage, SetUpLabels, ClosingLabels, BeforeSession, Gone
<1>23. ASSUME ReadPit PROVE UNCHANGED <<Stage, program_state, err>>
  BY <1>23
  DEF ReadPit, Goto, Keep, shared,
      Stage, SetUpLabels, ClosingLabels, BeforeSession, Gone
<1>24. ASSUME CheckPit PROVE UNCHANGED <<Stage, program_state, err>>
  BY <1>24
  DEF CheckPit, Goto, Keep, shared,
      Stage, SetUpLabels, ClosingLabels, BeforeSession, Gone
<1>25. ASSUME PitClosesStint PROVE UNCHANGED <<Stage, program_state, err>>
  BY <1>25
  DEF PitClosesStint, Calls, Goto, CloseStintRow, Keep, shared,
      Stage, SetUpLabels, ClosingLabels, BeforeSession, Gone
<1>26. ASSUME PitAddsStint PROVE UNCHANGED <<Stage, program_state, err>>
  BY <1>26
  DEF PitAddsStint, Calls, Goto, AddStintRow, Keep, shared,
      Stage, SetUpLabels, ClosingLabels, BeforeSession, Gone
<1>27. ASSUME CheckLap PROVE UNCHANGED <<Stage, program_state, err>>
  BY <1>27
  DEF CheckLap, Keep, shared,
      Stage, SetUpLabels, ClosingLabels, BeforeSession, Gone
<1>28. ASSUME LapCloses PROVE UNCHANGED <<Stage, program_state, err>>
  BY <1>28
  DEF LapCloses, Calls, Goto, CloseLapRow, Keep, shared,
      Stage, SetUpLabels, ClosingLabels, BeforeSession, Gone
<1>29. ASSUME LapAddsTelemetry PROVE UNCHANGED <<Stage, program_state, err>>
  BY <1>29
  DEF LapAddsTelemetry, Calls, Goto, AddTelemetryRow, Keep, shared,
      Stage, SetUpLabels, ClosingLabels, BeforeSession, Gone
<1>30. ASSUME LapStoresChannel PROVE UNCHANGED <<Stage, program_state, err>>
  BY <1>30
  DEF LapStoresChannel, UpdateTelemetry, Keep, shared,
      Stage, SetUpLabels, ClosingLabels, BeforeSession, Gone
<1>31. ASSUME LapAdds PROVE UNCHANGED <<Stage, program_state, err>>
  BY <1>31
  DEF LapAdds, Calls, Goto, AddLapRow, Keep, shared,
      Stage, SetUpLabels, ClosingLabels, BeforeSession, Gone
<1>32. ASSUME EndAddsTelemetry PROVE UNCHANGED <<Stage, program_state, err>>
  BY <1>32
  DEF EndAddsTelemetry, Calls, Goto, AddTelemetryRow, Keep, shared,
      Stage, SetUpLabels, ClosingLabels, BeforeSession, Gone
<1>33. ASSUME EndStoresChannel PROVE UNCHANGED <<Stage, program_state, err>>
  BY <1>33
  DEF EndStoresChannel, UpdateTelemetry, Keep, shared,
      Stage, SetUpLabels, ClosingLabels, BeforeSession, Gone
<1>34. ASSUME EndClosesLap PROVE UNCHANGED <<Stage, program_state, err>>
  BY <1>34
  DEF EndClosesLap, Calls, Goto, CloseLapRow, Keep, shared,
      Stage, SetUpLabels, ClosingLabels, BeforeSession, Gone
<1>35. ASSUME EndClosesStint PROVE UNCHANGED <<Stage, program_state, err>>
  BY <1>35
  DEF EndClosesStint, Calls, Goto, CloseStintRow, Keep, shared,
      Stage, SetUpLabels, ClosingLabels, BeforeSession, Gone
<1>36. ASSUME EndClosesSession PROVE UNCHANGED <<Stage, program_state, err>>
  BY <1>36
  DEF EndClosesSession, Calls, Goto, CloseSessionRow, Keep, shared,
      Stage, SetUpLabels, ClosingLabels, BeforeSession, Gone
<1>37. ASSUME SimWrites PROVE UNCHANGED <<Stage, program_state, err>>
  BY <1>37
  DEF SimWrites, shared,
      Stage, SetUpLabels, ClosingLabels, BeforeSession, Gone
<1>38. ASSUME UNCHANGED vars PROVE UNCHANGED <<Stage, program_state, err>>
  BY <1>38 DEF vars, shared, Stage
<1>. QED
  BY <1>1, <1>2, <1>3, <1>4, <1>5, <1>6, <1>7, <1>8, <1>9, <1>10, <1>11, <1>12, <1>13, <1>14, <1>15, <1>16, <1>17, <1>18, <1>19, <1>20, <1>21, <1>22, <1>23, <1>24, <1>25, <1>26, <1>27, <1>28, <1>29, <1>30, <1>31, <1>32, <1>33, <1>34, <1>35, <1>36, <1>37, <1>38
  DEF Next, RecorderStep, SetUp, Turn, Stop, Finished

(* Whatever fails, the recorder ends because it reported an error, was     *)
(* told to stop or the process ended, and is only told to go on when gone. *)
THEOREM ThreadCorrect == Spec => ImplementsThread
<1>1. Init => Thread!ThreadInit
  <2>1. Init => pc = "idle" /\ program_state = 1 /\ err = 0
    BY Zenon DEF Init
  <2>2. pc = "idle" => Stage = "none"
    BY DEF Stage, SetUpLabels, ClosingLabels, BeforeSession, Gone
  <2>. QED BY <2>1, <2>2, Zenon DEF Thread!ThreadInit
<1>. QED BY <1>1, ThreadStep, PTL
  DEF Spec, ImplementsThread, Thread!ThreadSpec, Thread!threadVars
=============================================================================
