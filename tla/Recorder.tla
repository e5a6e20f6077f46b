------------------------------ MODULE Recorder ------------------------------
(***************************************************************************)
(* The telemetry recorder: the thread simviewmysql of gameloop/gameloop.c, *)
(* which turns the live sim data into rows of sessions, stints, laps and   *)
(* telemetry.                                                              *)
(*                                                                         *)
(* It runs against three things it does not control: the UI thread, which  *)
(* rewrites the shared SimData one field at a time while the recorder is   *)
(* between any two of its reads; the database, where each call can fail;   *)
(* and the process, which can end (Ctrl-C is still a signal in the         *)
(* terminal mode mainloop sets) between any two calls.  A later run finds  *)
(* the rows of the earlier ones.                                           *)
(*                                                                         *)
(* One action is one database call or one group of reads of different      *)
(* fields; a field the code reads twice is read in two actions.            *)
(***************************************************************************)
EXTENDS HoelDb, FiniteSets

CONSTANTS
  SessionTypes,  \* values of SimData.session
  GameNames,     \* values of SimData.track, driver and car: a set for each
  Registered,    \* names that earlier recordings left in their tables
  MaxLap,        \* SimData.lap takes the values 0..MaxLap
  MaxChanges,    \* bound: writes of SimData fields in a behaviour
  MaxFaults,     \* bound: failed database calls in a behaviour
  MaxRuns        \* bound: recorder runs in a behaviour

VARIABLES
  \* the recorder thread
  pc,               \* the call or read it is about to make
  id,               \* the ids it holds, one per table
  seen,             \* sessionstatus, lap and pitstatus, as last read
  last,             \* lastsessionstatus, lastlap and lastpitstatus
  stintlaps,
  validstintlaps,
  validind,
  channel,          \* next telemetry channel to store, 1..6
  \* the database
  sessions, stints, laps, telemetry,
  catalog,          \* track_config, events, drivers and cars
  \* what the recorder shares with the other threads
  sim,              \* the fields of SimData it reads
  program_state,
  err,
  \* history and bounds
  spoiled,          \* a tick of the lap being recorded read lapisvalid = false
  asked,            \* the name the last select by name looked for
  pitEntries,       \* inpit went from false to true, in this run
  changes, faults, runs

reads  == <<seen, last>>
counts == <<stintlaps, validstintlaps>>
local  == <<id, reads, counts, validind, channel, spoiled, asked>>
db     == <<sessions, stints, laps, telemetry, catalog>>
shared == <<program_state, err>>
world  == <<sim, pitEntries, changes, runs>>
vars   == <<pc, local, db, shared, world, faults>>

Labels ==
  {"idle", "dead", "connect", "gettrack", "addtrack", "addevent",
   "getdriver", "adddriver", "getcar", "addcar", "firstpit", "addsession",
   "addstint", "addlap", "enter", "leave", "tick",
   "s_closestint", "s_closesession", "s_addsession",
   "readpit", "checkpit", "p_closestint", "p_addstint",
   "checklap", "l_closelap", "l_addtelemetry", "l_update", "l_addlap", "tail",
   "e_addtelemetry", "e_update", "e_closelap", "e_closestint",
   "e_closesession", "close_db"}

(* No recorder runs: it has ended, or the whole process has.               *)
Gone == {"idle", "dead"}

(* The catalog tables with a row per name, and the fields of SimData that  *)
(* hold these names.                                                       *)
Named  == {"track", "driver", "car"}
Names  == Named \cup {"event"}
Tables == Names \cup {"session", "stint", "lap", "telemetry"}

AllNames == UNION {GameNames[t] : t \in Named}

SimRecords == [session : SessionTypes, lap : 0 .. MaxLap, inpit : BOOLEAN,
               valid : BOOLEAN, track : GameNames["track"],
               driver : GameNames["driver"], car : GameNames["car"]]

NoName == ""

ASSUME RecorderAssumption ==
  /\ SessionTypes \subseteq Nat
  /\ Registered \in Seq(AllNames)
  /\ \A i, j \in DOMAIN Registered : Registered[i] = Registered[j] => i = j
  /\ MaxLap \in Nat
  /\ MaxChanges \in Nat
  /\ MaxFaults \in Nat
  /\ MaxRuns \in Nat

(* The rows an earlier recording left: each was added for the name it has. *)
OldRows == [i \in DOMAIN Registered |-> NameRow(Registered[i], Registered[i])]

NoIds == [t \in Tables |-> 0]

NoReads == [session |-> 0, lap |-> 0, pit |-> FALSE]

Init ==
  /\ pc = "idle"
  /\ id = NoIds
  /\ seen = NoReads
  /\ last = NoReads
  /\ stintlaps = 0
  /\ validstintlaps = 0
  /\ validind = TRUE
  /\ channel = 1
  /\ sessions = <<>>
  /\ stints = <<>>
  /\ laps = <<>>
  /\ telemetry = <<>>
  /\ catalog = [t \in Names |-> IF t \in Named THEN OldRows ELSE <<>>]
  /\ sim \in SimRecords /\ sim.lap = 0 /\ sim.valid
  /\ program_state = 1
  /\ err = 0
  /\ spoiled = FALSE
  /\ asked = NoName
  /\ pitEntries = 0
  /\ changes = 0
  /\ faults = 0
  /\ runs = 0

-----------------------------------------------------------------------------
(* Steps of the recorder.                                                  *)

Goto(from, to) == pc = from /\ pc' = to

(* A database call that does not work uses one of the MaxFaults faults.    *)
Charge(answer) ==
  IF answer = "ok" THEN UNCHANGED faults
  ELSE faults < MaxFaults /\ faults' = faults + 1

Calls(from, to, answer) == Goto(from, to) /\ Charge(answer)

Keep == UNCHANGED <<shared, world>>

(* The thread's stack is gone: its locals are back at their first values.   *)
Forget ==
  /\ id' = NoIds
  /\ seen' = NoReads
  /\ last' = NoReads
  /\ stintlaps' = 0
  /\ validstintlaps' = 0
  /\ validind' = TRUE
  /\ channel' = 1
  /\ spoiled' = FALSE
  /\ asked' = NoName

(* Mutant: a connection that cannot be made only ends the thread.          *)
ConnectSilently ==
  \E answer \in CallAnswers :
    /\ Calls("connect", IF answer = "ok" THEN "gettrack" ELSE "idle", answer)
    /\ UNCHANGED <<local, db>>
    /\ Keep

(* h_connect_pgsql, and the error return when it fails.                    *)
Connect ==
  \E answer \in CallAnswers :
    /\ pc = "connect"
    /\ Charge(answer)
    /\ IF answer = "ok" THEN pc' = "gettrack" /\ err' = err
                        ELSE pc' = "idle" /\ err' = 2
    /\ UNCHANGED <<local, db, program_state, world>>

(* The id a select by the name in field "t" finds, or "none".              *)
Select(t, none) ==
  /\ \E n \in SelectIds(catalog[t], sim[t], none) : id' = [id EXCEPT ![t] = n]
  /\ asked' = sim[t]

(* Mutant: gettrack's -1 is not checked.                                   *)
GetTrackUnchecked ==
  \E answer \in CallAnswers :
    /\ Calls("gettrack", "addtrack", answer)
    /\ IF answer = "ok" THEN Select("track", NoId)
       ELSE id' = [id EXCEPT !.track = NoRow] /\ asked' = sim.track
    /\ UNCHANGED <<reads, counts, validind, channel, spoiled, db>>
    /\ Keep

(* gettrack: no row gives 0, a failed select gives -1 and ends the thread. *)
GetTrack ==
  \E answer \in CallAnswers :
    /\ pc = "gettrack"
    /\ Charge(answer)
    /\ IF answer = "ok"
       THEN Select("track", NoId) /\ pc' = "addtrack" /\ err' = err
       ELSE UNCHANGED <<id, asked>> /\ pc' = "idle" /\ err' = 2
    /\ UNCHANGED <<reads, counts, validind, channel, spoiled, db,
                   program_state, world>>

(* One more row of the catalog table "t".                                  *)
AddRow(t, row, answer) ==
  /\ catalog' = [catalog EXCEPT ![t] = Insert(@, row, answer)]
  /\ id' = [id EXCEPT ![t] = InsertId(catalog[t], answer)]

(* An id that was found is kept; otherwise the name is read a second time, *)
(* and the UI thread may have changed it since the select.                 *)
AddName(t, answer) ==
  IF id[t] > 0
  THEN answer = "ok" /\ UNCHANGED <<id, catalog>>
  ELSE AddRow(t, NameRow(sim[t], asked), answer)

(* addtrackconfig, whose -1 ends the thread.                               *)
AddTrack ==
  \E answer \in InsertAnswers :
    /\ pc = "addtrack"
    /\ AddName("track", answer)
    /\ Charge(answer)
    /\ IF answer = "failed" THEN pc' = "idle" /\ err' = 2
                            ELSE pc' = "addevent" /\ err' = err
    /\ UNCHANGED <<reads, counts, validind, channel, spoiled, asked,
                   sessions, stints, laps, telemetry, program_state, world>>

AddEvent ==
  \E answer \in InsertAnswers :
    /\ Calls("addevent", "getdriver", answer)
    /\ AddRow("event", EventRow(id.track), answer)
    /\ UNCHANGED <<reads, counts, validind, channel, spoiled, asked,
                   sessions, stints, laps, telemetry>>
    /\ Keep

(* getdriver and getcar give -1 both for "no such row" and for "the select *)
(* failed", and adddriver and addcar then insert.                          *)
GetName(t, from, to) ==
  \E answer \in CallAnswers :
    /\ Calls(from, to, answer)
    /\ IF answer = "ok" THEN Select(t, NoRow)
       ELSE id' = [id EXCEPT ![t] = NoRow] /\ asked' = sim[t]
    /\ UNCHANGED <<reads, counts, validind, channel, spoiled, db>>
    /\ Keep

AddIfMissing(t, from, to) ==
  \E answer \in InsertAnswers :
    /\ Calls(from, to, answer)
    /\ AddName(t, answer)
    /\ UNCHANGED <<reads, counts, validind, channel, spoiled, asked,
                   sessions, stints, laps, telemetry>>
    /\ Keep

GetDriver == GetName("driver", "getdriver", "adddriver")
AddDriver == AddIfMissing("driver", "adddriver", "getcar")
GetCar    == GetName("car", "getcar", "addcar")
AddCar    == AddIfMissing("car", "addcar", "firstpit")

FirstPit ==
  /\ Goto("firstpit", "addsession")
  /\ seen' = [seen EXCEPT !.pit = sim.inpit]
  /\ last' = [last EXCEPT !.pit = sim.inpit]
  /\ UNCHANGED <<id, counts, validind, channel, spoiled, asked, db, faults>>
  /\ Keep

(* addsession stores the session type read at the call, not the one the    *)
(* caller compared.                                                        *)
AddSessionRow(answer) ==
  /\ sessions' = Insert(sessions,
                        SessionRow(id.event, id.car, sim.session, runs), answer)
  /\ id' = [id EXCEPT !.session = InsertId(sessions, answer)]
  /\ UNCHANGED <<stints, laps, telemetry, catalog, reads, validind, channel,
                 spoiled, asked>>
  /\ Keep

AddStintRow(answer) ==
  /\ stints' = Insert(stints, StintRow(id.session, id.driver, runs), answer)
  /\ id' = [id EXCEPT !.stint = InsertId(stints, answer)]
  /\ UNCHANGED <<sessions, laps, telemetry, catalog, reads, validind, channel,
                 spoiled, asked>>
  /\ Keep

(* Mutant: a failed insert leaves the id of the lap before.                *)
AddLapRowOrKeep(answer) ==
  /\ laps' = Insert(laps, LapRow(id.stint, runs), answer)
  /\ id' = IF answer = "failed" THEN id
           ELSE [id EXCEPT !.lap = InsertId(laps, answer)]
  /\ UNCHANGED <<sessions, stints, telemetry, catalog, reads, counts, channel,
                 asked>>
  /\ Keep

AddLapRow(answer) ==
  /\ laps' = Insert(laps, LapRow(id.stint, runs), answer)
  /\ id' = [id EXCEPT !.lap = InsertId(laps, answer)]
  /\ UNCHANGED <<sessions, stints, telemetry, catalog, reads, counts, channel,
                 asked>>
  /\ Keep

(* closestint(conn, stintid, stintlaps, validstintlaps)                    *)
CloseStintRow(answer) ==
  /\ stints' = closestint(stints, id.stint, stintlaps, validstintlaps, answer)
  /\ UNCHANGED <<sessions, laps, telemetry, catalog, local>>
  /\ Keep

CloseSessionRow(answer) ==
  /\ sessions' = closesession(sessions, id.session, answer)
  /\ UNCHANGED <<stints, laps, telemetry, catalog, id, reads, validind,
                 channel, spoiled, asked>>
  /\ Keep

CloseLapRow(answer) ==
  /\ laps' = closelap(laps, id.lap, answer)
  /\ UNCHANGED <<sessions, stints, telemetry, catalog, local>>
  /\ Keep

AddTelemetryRow(answer) ==
  /\ telemetry' = Insert(telemetry, TelemetryRow(id.lap, runs), answer)
  /\ id' = [id EXCEPT !.telemetry = InsertId(telemetry, answer)]
  /\ channel' = 1
  /\ UNCHANGED <<sessions, stints, laps, catalog, reads, counts, validind,
                 spoiled, asked>>
  /\ Keep

(* One of the six updates of updatetelemetrydata; a failed one does not    *)
(* stop the others.                                                        *)
UpdateTelemetry(from, to) ==
  \E answer \in CallAnswers :
    /\ pc = from
    /\ Charge(answer)
    /\ telemetry' = updatetelemetry(telemetry, id.telemetry, Channels[channel],
                                    answer)
    /\ IF channel < Len(Channels)
       THEN channel' = channel + 1 /\ pc' = from
       ELSE channel' = 1 /\ pc' = to
    /\ UNCHANGED <<id, reads, counts, validind, spoiled, asked,
                   sessions, stints, laps, catalog>>
    /\ Keep

(* Mutant: the lap being driven is taken for an invalid one.               *)
ResetCountsBelowZero == stintlaps' = 1 /\ validstintlaps' = -1

ResetCounts == stintlaps' = 1 /\ validstintlaps' = 0

-----------------------------------------------------------------------------
(* The first rows of a run.                                                *)

AddSession ==
  \E answer \in InsertAnswers :
    Calls("addsession", "addstint", answer) /\ AddSessionRow(answer)
      /\ UNCHANGED counts

AddStint ==
  \E answer \in InsertAnswers :
    Calls("addstint", "addlap", answer) /\ AddStintRow(answer)
      /\ UNCHANGED counts

AddLap ==
  \E answer \in InsertAnswers :
    Calls("addlap", "enter", answer) /\ AddLapRow(answer)
      /\ UNCHANGED <<validind, spoiled>>

(* The second reads of session and lap, the local initialisations, and the *)
(* test that skips the loop, and with it the closing calls, when the UI    *)
(* has already stopped.                                                    *)
Enter ==
  /\ pc = "enter"
  /\ pc' = IF program_state < 0 THEN "leave" ELSE "tick"
  /\ seen' = [seen EXCEPT !.session = sim.session, !.lap = sim.lap]
  /\ last' = [last EXCEPT !.session = sim.session, !.lap = sim.lap]
  /\ ResetCounts
  /\ validind' = TRUE
  /\ spoiled' = FALSE
  /\ UNCHANGED <<id, channel, asked, db, faults>>
  /\ Keep

-----------------------------------------------------------------------------
(* One turn of the loop.                                                   *)

(* The sample, the reads of session, lap and lapisvalid, and the test for  *)
(* a new session.                                                          *)
Tick ==
  /\ pc = "tick"
  /\ err = 0
  /\ seen' = [seen EXCEPT !.session = sim.session, !.lap = sim.lap]
  /\ validind' = (validind /\ sim.valid)
  /\ spoiled' = (spoiled \/ (~sim.valid /\ sim.lap = last.lap))
  /\ pc' = IF sim.session # last.session THEN "s_closestint" ELSE "readpit"
  /\ UNCHANGED <<id, last, counts, channel, asked, db, faults>>
  /\ Keep

(* A new session: the stint and the session are closed, and a session type *)
(* above 1 gets a row.  No stint is added for it.                          *)
SessionClosesStint ==
  \E answer \in CallAnswers :
    Calls("s_closestint", "s_closesession", answer) /\ CloseStintRow(answer)

SessionCloses ==
  \E answer \in CallAnswers :
    /\ Calls("s_closesession",
             IF seen.session > 1 THEN "s_addsession" ELSE "readpit", answer)
    /\ CloseSessionRow(answer)
    /\ IF seen.session > 1 THEN UNCHANGED counts ELSE ResetCounts

SessionAdds ==
  \E answer \in InsertAnswers :
    /\ Calls("s_addsession", "readpit", answer)
    /\ AddSessionRow(answer)
    /\ ResetCounts

ReadPit ==
  /\ Goto("readpit", "checkpit")
  /\ seen' = [seen EXCEPT !.pit = sim.inpit]
  /\ UNCHANGED <<id, last, counts, validind, channel, spoiled, asked, db, faults>>
  /\ Keep

(* Mutant: the test does not look at the last pit status.                  *)
CheckPitAlone ==
  /\ Goto("checkpit", IF sim.inpit THEN "p_closestint" ELSE "checklap")
  /\ UNCHANGED <<local, db, faults>>
  /\ Keep

(* inpit is read again for the test.                                       *)
CheckPit ==
  /\ Goto("checkpit",
          IF sim.inpit /\ seen.pit # last.pit THEN "p_closestint" ELSE "checklap")
  /\ UNCHANGED <<local, db, faults>>
  /\ Keep

(* Mutants: the pit entry adds a stint but does not close the one before,  *)
(* or does not start counting again.                                       *)
PitLeavesStintOpen ==
  Goto("p_closestint", "p_addstint") /\ UNCHANGED <<local, db, faults>> /\ Keep

PitAddsStintUncounted ==
  \E answer \in InsertAnswers :
    Calls("p_addstint", "checklap", answer) /\ AddStintRow(answer)
      /\ UNCHANGED counts

PitClosesStint ==
  \E answer \in CallAnswers :
    Calls("p_closestint", "p_addstint", answer) /\ CloseStintRow(answer)

PitAddsStint ==
  \E answer \in InsertAnswers :
    /\ Calls("p_addstint", "checklap", answer)
    /\ AddStintRow(answer)
    /\ ResetCounts

CheckLap ==
  /\ pc = "checklap"
  /\ IF seen.lap # last.lap
     THEN /\ pc' = "l_closelap"
          /\ stintlaps' = stintlaps + 1
          /\ validstintlaps' = validstintlaps + (IF validind THEN 1 ELSE 0)
     ELSE /\ pc' = "tail"
          /\ UNCHANGED counts
  /\ UNCHANGED <<id, reads, validind, channel, spoiled, asked, db, faults>>
  /\ Keep

LapCloses ==
  \E answer \in CallAnswers :
    Calls("l_closelap", "l_addtelemetry", answer) /\ CloseLapRow(answer)

LapAddsTelemetry ==
  \E answer \in InsertAnswers :
    Calls("l_addtelemetry", "l_update", answer) /\ AddTelemetryRow(answer)

LapStoresChannel == UpdateTelemetry("l_update", "l_addlap")

LapAdds ==
  \E answer \in InsertAnswers :
    /\ Calls("l_addlap", "tail", answer)
    /\ AddLapRow(answer)
    /\ validind' = TRUE
    /\ spoiled' = FALSE

(* Mutants: the turn ends without a look at program_state, or a stop goes  *)
(* straight to the end of the thread.                                      *)
EndOfTurnOnly(stopped) ==
  /\ Goto("tail", IF program_state < 0 THEN stopped ELSE "tick")
  /\ last' = seen
  /\ UNCHANGED <<id, seen, counts, validind, channel, spoiled, asked, db, faults>>
  /\ Keep

EndOfTurnUnstopped == EndOfTurnOnly("tick")

EndOfTurnUnclosed == EndOfTurnOnly("close_db")

(* The end of the turn: the last* variables, and the test for the stop.    *)
EndOfTurn ==
  /\ pc = "tail"
  /\ pc' = IF program_state < 0 THEN "e_addtelemetry" ELSE "tick"
  /\ last' = seen
  /\ UNCHANGED <<id, seen, counts, validind, channel, spoiled, asked, db, faults>>
  /\ Keep

-----------------------------------------------------------------------------
(* The stop.                                                               *)

EndAddsTelemetry ==
  \E answer \in InsertAnswers :
    Calls("e_addtelemetry", "e_update", answer) /\ AddTelemetryRow(answer)

EndStoresChannel == UpdateTelemetry("e_update", "e_closelap")

EndClosesLap ==
  \E answer \in CallAnswers :
    Calls("e_closelap", "e_closestint", answer) /\ CloseLapRow(answer)

EndClosesStint ==
  \E answer \in CallAnswers :
    Calls("e_closestint", "e_closesession", answer) /\ CloseStintRow(answer)

EndClosesSession ==
  \E answer \in CallAnswers :
    Calls("e_closesession", "close_db", answer) /\ CloseSessionRow(answer)
      /\ UNCHANGED counts

(* h_close_db, after the closing calls or straight from Enter.             *)
CloseDb ==
  /\ pc \in {"leave", "close_db"}
  /\ pc' = "idle"
  /\ Forget
  /\ UNCHANGED <<db, faults>>
  /\ Keep

-----------------------------------------------------------------------------
(* The threads and the process around it.                                  *)

(* simdatamap, in the UI thread: one field at a time.  getSim fills the    *)
(* same memory between runs.                                               *)
SimWrites ==
  /\ changes < MaxChanges
  /\ program_state > 0 \/ pc \in Gone
  /\ \/ \E s \in SessionTypes \ {sim.session} :
          sim' = [sim EXCEPT !.session = s] /\ UNCHANGED pitEntries
     \/ \E n \in (0 .. MaxLap) \ {sim.lap} :
          sim' = [sim EXCEPT !.lap = n] /\ UNCHANGED pitEntries
     \/ /\ sim' = [sim EXCEPT !.inpit = ~@]
        /\ pitEntries' = IF sim.inpit THEN pitEntries ELSE pitEntries + 1
     \/ sim' = [sim EXCEPT !.valid = ~@] /\ UNCHANGED pitEntries
     \/ \E t \in Named : \E n \in GameNames[t] \ {sim[t]} :
          sim' = [sim EXCEPT ![t] = n] /\ UNCHANGED pitEntries
  /\ changes' = changes + 1
  /\ UNCHANGED <<pc, local, db, shared, runs, faults>>

(* mainloop creates the thread: program_state is 1 and no error is set.    *)
StartRun ==
  /\ pc \in Gone
  /\ err = 0
  /\ runs < MaxRuns
  /\ pc' = "connect"
  /\ program_state' = 1
  /\ runs' = runs + 1
  /\ pitEntries' = 0
  /\ UNCHANGED <<local, db, sim, err, changes, faults>>

(* The UI thread has ended and mainloop tells the recorder to stop.        *)
StopRun ==
  /\ pc \notin Gone
  /\ program_state = 1
  /\ program_state' = -1
  /\ UNCHANGED <<pc, local, db, err, world, faults>>

(* The process ends, at any moment, and another one starts.                *)
ProcessEnds ==
  /\ pc \notin Gone \/ err # 0
  /\ pc' = "dead"
  /\ program_state' = 1
  /\ err' = 0
  /\ Forget
  /\ UNCHANGED <<db, world, faults>>

(* No further run is started.                                              *)
Finished == pc \in Gone /\ runs = MaxRuns /\ UNCHANGED vars

SetUp ==
  \/ Connect \/ GetTrack \/ AddTrack \/ AddEvent
  \/ GetDriver \/ AddDriver \/ GetCar \/ AddCar
  \/ FirstPit \/ AddSession \/ AddStint \/ AddLap \/ Enter

Turn ==
  \/ Tick \/ SessionClosesStint \/ SessionCloses \/ SessionAdds
  \/ ReadPit \/ CheckPit \/ PitClosesStint \/ PitAddsStint
  \/ CheckLap \/ LapCloses \/ LapAddsTelemetry \/ LapStoresChannel \/ LapAdds
  \/ EndOfTurn

Stop ==
  \/ EndAddsTelemetry \/ EndStoresChannel \/ EndClosesLap
  \/ EndClosesStint \/ EndClosesSession \/ CloseDb

RecorderStep == SetUp \/ Turn \/ Stop

Next == RecorderStep \/ SimWrites \/ StartRun \/ StopRun \/ ProcessEnds \/ Finished

Spec == Init /\ [][Next]_vars

(* The recorder thread is scheduled and its calls return.                  *)
FairSpec == Spec /\ WF_vars(RecorderStep)

-----------------------------------------------------------------------------
(* Properties.                                                             *)

Ids == {NoRow} \cup Nat

ReadRecords == [session : SessionTypes \cup {0}, lap : 0 .. MaxLap, pit : BOOLEAN]

SessionRows == [event : Ids, car : Ids, type : SessionTypes,
                finished : BOOLEAN, run : Nat]
StintRows == [session : Ids, driver : Ids, laps : Nat, valid : Nat,
              finished : BOOLEAN, run : Nat]
LapRows == [stint : Ids, finished : BOOLEAN, run : Nat]
ChannelNames == {Channels[c] : c \in 1 .. 6}
CatalogRows == [name : AllNames, asked : AllNames \cup {NoName}]
               \cup [track : Ids]
TelemetryRows == [lap : Ids, columns : SUBSET ChannelNames, run : Nat]

ThreadTypes ==
  /\ pc \in Labels
  /\ id \in [Tables -> Ids]
  /\ seen \in ReadRecords
  /\ last \in ReadRecords
  /\ stintlaps \in Nat
  /\ validstintlaps \in Nat
  /\ validind \in BOOLEAN
  /\ channel \in 1 .. 6
  /\ spoiled \in BOOLEAN
  /\ asked \in AllNames \cup {NoName}

TableTypes ==
  /\ sessions \in Seq(SessionRows)
  /\ stints \in Seq(StintRows)
  /\ laps \in Seq(LapRows)
  /\ telemetry \in Seq(TelemetryRows)
  /\ catalog \in [Names -> Seq(CatalogRows)]

WorldTypes ==
  /\ sim \in SimRecords
  /\ program_state \in {1, -1}
  /\ err \in {0, 2}
  /\ pitEntries \in Nat
  /\ changes \in 0 .. MaxChanges
  /\ faults \in 0 .. MaxFaults
  /\ runs \in 0 .. MaxRuns

(* The values the recorder's variables, its tables and the shared fields   *)
(* take.                                                                   *)
TypeOK == ThreadTypes /\ TableTypes /\ WorldTypes

(* The parent a row names is a row that exists and was stored by the same  *)
(* run, or no row at all (-1 or 0), and then some call has failed: a child *)
(* is never hung under another run's row, whatever fails or crashes.       *)
Parent(child, parent, table) ==
  \/ parent \in DOMAIN table /\ table[parent].run = child.run
  \/ parent <= 0 /\ faults > 0

ParentsExist ==
  /\ \A i \in DOMAIN stints : Parent(stints[i], stints[i].session, sessions)
  /\ \A i \in DOMAIN laps : Parent(laps[i], laps[i].stint, stints)
  /\ \A i \in DOMAIN telemetry : Parent(telemetry[i], telemetry[i].lap, laps)

(* closelap and addtelemetry are each reached from two places, the change  *)
(* of lap and the stop; still a lap gets at most one telemetry row.        *)
OneTelemetryPerLap ==
  \A i, j \in DOMAIN telemetry :
    telemetry[i].lap = telemetry[j].lap /\ telemetry[i].lap > 0 => i = j

(* gameloop.c:834, "Adding track if necessary": a track, driver or car     *)
(* gets a second row only when the game changed the name between the       *)
(* select that looked for it and the insert, or, for a driver or a car,    *)
(* when a call failed: the -1 of gettrack ends the thread, that of         *)
(* getdriver and getcar means "not there".                                 *)
NamesRegisteredOnce ==
  \A t \in Named : \A j \in DOMAIN catalog[t] : \A i \in 1 .. j - 1 :
    catalog[t][i].name = catalog[t][j].name =>
      \/ catalog[t][j].asked # catalog[t][j].name
      \/ t # "track" /\ faults > 0

(* Why ParentsExist holds: past the call that fills it, an id the recorder *)
(* holds names a row of this run, or is -1 or 0 because a call failed.     *)
BeforeSession ==
  {"idle", "dead", "connect", "gettrack", "addtrack", "addevent",
   "getdriver", "adddriver", "getcar", "addcar", "firstpit", "addsession"}

Held(key, table) ==
  \/ key \in DOMAIN table /\ table[key].run = runs
  \/ key <= 0 /\ faults > 0

HeldIds ==
  /\ pc \notin BeforeSession => Held(id.session, sessions)
  /\ pc \notin BeforeSession \cup {"addstint"} => Held(id.stint, stints)
  /\ pc \notin BeforeSession \cup {"addstint", "addlap"} => Held(id.lap, laps)
  /\ pc \in {"l_update", "e_update"} => Held(id.telemetry, telemetry)

ParentsInv == TypeOK /\ ParentsExist /\ HeldIds

(* Why a lap gets one telemetry row and is closed once: until the calls    *)
(* that do it, the lap the recorder holds is open and has no telemetry.    *)
LapOpen ==
  {"enter", "tick", "s_closestint", "s_closesession", "s_addsession",
   "readpit", "checkpit", "p_closestint", "p_addstint", "checklap",
   "l_closelap", "tail", "e_addtelemetry", "e_update", "e_closelap"}

LapUnsampled == (LapOpen \ {"e_update", "e_closelap"}) \cup {"l_addtelemetry"}

LapFresh ==
  id.lap > 0 =>
    /\ pc \in LapOpen => ~laps[id.lap].finished
    /\ pc \in LapUnsampled =>
         \A t \in DOMAIN telemetry : telemetry[t].lap # id.lap

(* The change of lap and the stop both close the lap the recorder holds;   *)
(* neither ever closes a lap that is closed already, which would overwrite *)
(* its time with another lap's, even when addstintlap failed in between.   *)
LapClosedOnce ==
  pc \in {"l_closelap", "e_closelap"} /\ id.lap > 0 => ~laps[id.lap].finished

(* No row that an earlier run left behind, finished or not, is touched by  *)
(* a later one.                                                            *)
KeepsEarlierRows ==
  /\ \A i \in DOMAIN laps : laps[i].run < runs => laps'[i] = laps[i]
  /\ \A i \in DOMAIN stints : stints[i].run < runs => stints'[i] = stints[i]
  /\ \A i \in DOMAIN sessions : sessions[i].run < runs => sessions'[i] = sessions[i]
  /\ \A i \in DOMAIN telemetry : telemetry[i].run < runs => telemetry'[i] = telemetry[i]

EarlierRunsKept == [][KeepsEarlierRows]_vars

OfRun(table) == {i \in DOMAIN table : table[i].run = runs}

Open(table) == {i \in OfRun(table) : ~table[i].finished}

(* A stop that was noticed inside the loop leaves nothing open when no     *)
(* call failed: every session, stint and lap of the run is closed and each *)
(* lap has a telemetry row with its six channels.                          *)
ShutdownFinishesRun ==
  pc = "close_db" /\ faults = 0 =>
    /\ Open(sessions) = {} /\ Open(stints) = {} /\ Open(laps) = {}
    /\ \A i \in OfRun(laps) :
         \E t \in OfRun(telemetry) :
           telemetry[t].lap = i /\ Cardinality(telemetry[t].columns) = 6

(* While no call fails, a run never has two open sessions, two open stints *)
(* or two open laps, in whatever order session, pit and lap changes come.  *)
OneOpenRowPerRun ==
  faults = 0 =>
    /\ Cardinality(Open(sessions)) <= 1
    /\ Cardinality(Open(stints)) <= 1
    /\ Cardinality(Open(laps)) <= 1

(* The lap counts of a closed stint: fewer valid laps than laps, and, when *)
(* no call failed, at most one lap more than there are lap rows under the  *)
(* stint (the lap a pit stop interrupts belongs to the stint before it).   *)
StintCounts ==
  \A s \in DOMAIN stints :
    stints[s].finished =>
      /\ stints[s].valid < stints[s].laps
      /\ faults = 0 =>
           stints[s].laps <= Cardinality({l \in DOMAIN laps : laps[l].stint = s}) + 1

(* A pit entry makes at most two stints: the second when inpit changes     *)
(* between its two reads of one turn.                                      *)
StintsPerPitEntry == Cardinality(OfRun(stints)) <= 1 + 2 * pitEntries

(* Once told to stop, the recorder thread ends: mainloop's join returns.   *)
StopEndsRecorder == program_state = -1 ~> pc \in Gone

(* The recorder lives the life RecorderThread promises the other threads:  *)
(* whatever fails, it reports an error or runs until it is told to stop,   *)
(* and it closes what it has open only when it is told to.                 *)
SetUpLabels == (BeforeSession \ Gone) \cup {"addstint", "addlap", "enter"}

ClosingLabels == {"leave", "e_addtelemetry", "e_update", "e_closelap",
                  "e_closestint", "e_closesession", "close_db"}

Stage ==
  CASE pc = "idle" -> "none"
    [] pc = "dead" -> "dead"
    [] pc \in SetUpLabels -> "setup"
    [] pc \in ClosingLabels -> "closing"
    [] OTHER -> "loop"

Thread == INSTANCE RecorderThread WITH stage <- Stage

ImplementsThread == Thread!ThreadSpec

(* README.md, "Browse previous sessions": a session that was recorded to   *)
(* its end can be browsed.  The code adds no stint for the session after a *)
(* session change, and getsessions joins the stints.                       *)
FinishedSessionsBrowsable ==
  faults = 0 =>
    \A i \in DOMAIN sessions : sessions[i].finished => Browsable(i, stints)

(* gameloop.c:993, "assume lap is valid until it isn't": a lap none of     *)
(* whose ticks was invalid is counted as valid.                            *)
LapValidUntilItIsNot ==
  [][ pc = "checklap" /\ pc' = "l_closelap" /\ ~spoiled
        => validstintlaps' = validstintlaps + 1 ]_vars
=============================================================================
