# A verification project for gilles

gilles is a telemetry monitor for racing simulators. `gilles play` waits for a
game, shows its live data in a curses or text UI and, with `-M`, records
sessions, stints, laps and lap telemetry in PostgreSQL. `gilles browse` walks
through what was recorded and plots two laps against each other with gnuplot.
This directory holds TLA+ models of its core, the TLC configurations that check
them, and theorems proved with TLAPS. Paths below are relative to `src/`; the
code is in `src/gilles/`.

## 1. Inventory

| Component | Code | State it keeps | Operations |
|---|---|---|---|
| Start-up | `gilles.c`, `helper/*.c` | `Parameters`, configuration | `main`, `getParameters`, `loadconfig`, `freeparams` |
| Main thread of play | `gameloop/gameloop.c` `mainloop` | `go`; shared: `simon`, `program_state`, `err`, `SimData` | search for a game, create and join the threads, read a key, free |
| UI thread | `clilooper`, `looper` | `go`, curses windows, the SIGWINCH handler | copy the game's shared memory, draw, read a key |
| Recorder thread | `simviewmysql` | ids of the open rows, `last*` values, lap counts, `validind`, sample buffers | set-up of a run; per tick: session, pit and lap change; stop |
| Database calls | `gameloop/hoeldb.c`, `gameloop/telemetry.c` | the tables of `data/gilles-psql.sql` | `add*`, `get*`, `close*`, `updatetelemetrydata` |
| Browse loop | `gameloop/browseloop.c` | screen, action, selection, loaded rows, remembered ids, two marked laps | load, draw, one key |
| Telemetry dump | `gameloop/telemetry.c` `dumptelemetrytofile` | buffers of two laps | read two rows, filter, write a file |
| Logging | `slog/` | vendored | none the rest depends on |
| simapi, hoel, libpq, ncurses, libconfig, argtable2 | outside the repository | | modelled as external where they are used |

### How they interact

- `mainloop` writes `SimData` through `getSim` while it searches; the UI thread
  writes it through `simdatamap` while it runs; the recorder reads it, field by
  field and some fields twice. There is no lock: the joins are all that orders
  the first two.
- `mainloop` sets `program_state` to 1 before it creates the threads and to -1
  when it has joined the UI; the recorder looks at it before its loop and at
  the end of each turn. The recorder sets `err` when its set-up fails; both
  other threads look at it at the top of their loops.
- Keys come from the terminal. `getch` takes them one at a time; `scanf` moves
  all there is into the buffer of `stdin`, where `poll` does not look.
- The recorder and the browse loop of another process meet in the database; so
  do the recorder and the dump that `g` in the browse loop starts.
- The recorder samples `SimData` into buffers of one slot per part of the track
  while the UI thread copies it; it stores them when the lap is over, and the
  dump reads them back.
- SIGWINCH runs `handle_winch` in the middle of whatever a thread does: it makes
  `poll` return early and replaces the windows `looper` draws into.

### What is hard, and what makes each part correct

- *Recorder.* A run is a long sequence of session, pit and lap changes in any
  order, seen through reads that race with the UI thread, and it can be stopped
  at any moment. Each call can fail and its result is hardly ever checked. The
  process can end between two calls. Correct means: rows hang under the right
  parents and belong to one run, no lap is closed or sampled twice, at most one
  session, stint and lap is open, counts fit the rows, a stop closes what is
  open, other runs' rows are left alone, and the thread ends when told.
- *Threads of play.* Correct means: data is written and freed by one thread at
  a time, a thread starts only for a game that is there and no error, and a
  quit, an error or the end of the game ends what it should.
- *Browse loop.* The id a screen asks for, the selection, the marks and the
  labels are each set in one turn and used in a later one. Correct means they
  fit what the user was shown.
- *Sample buffers.* Position, sample and lap are read one after the other from
  data that changes in between, and the gap fill works on indices kept from the
  turn before. Correct means no slot the car passed inside a lap is empty or
  stale and no index leaves the buffers.
- *Telemetry dump.* One lap's number of points sizes the buffers of both laps,
  and the last query's number bounds the loop; the queries can fail, find
  nothing, or find a lap that is still being stored. Correct means the buffers
  suffice, and a row holds what its header says, for the same point of both laps.
- *Display.* Two nested loops share an index, and the window can change its size
  between two lines. Correct means that the standings are the ranking, that the
  table of cars is not read past its end, and that a frame ends.
- *Start-up.* Errors leave `main`, `loadconfig` and `getParameters` at many
  places, with different things set. Correct means that nothing is used that
  nobody set, nothing is freed twice, and what was set is freed.

`PROJECT.json` lists every hazard found, at its line, with the properties that
would catch it going wrong. The sections below refer to them.

## 2. Modules

```
HoelDb          the database calls, as operators on tables
  Recorder      simviewmysql, the SimData writer, stops, failures, crashes
RecorderThread  the life the recorder promises: Recorder implements it
  PlayThreads   mainloop, UI thread, and the recorder by RecorderThread
TrackSamples    the sample buffers of simviewmysql against the UI thread's copies
Display         looper's standings and clock, frame by frame, with resizes
BrowseLoop      browseloop and its queries
TelemetryDump   dumptelemetrytofile beside a recorder of another process
Startup         main, getParameters, loadconfig, freeparams

RecorderProofs, RowsProofs, PlayProofs, TrackProofs, DisplayProofs, BrowseProofs,
DumpProofs, StartupProofs
                theorems about Recorder and HoelDb (the first two), PlayThreads,
                TrackSamples, Display, BrowseLoop, TelemetryDump and Startup
MC*             what TLC runs; the bounds are in the .cfg files
```

Where a component is split over modules, each leaves to the others what it does
not need: Recorder treats sampling as one step of `Tick`, TrackSamples treats
the database as not there; PlayThreads makes a turn of `looper` a few steps and
assumes that they end, which `FramesEnd` of Display shows; BrowseLoop ends a
`g` where TelemetryDump begins; TelemetryDump's recorder stores at most one
telemetry row for a lap, which is `OneTelemetryPerLap` of Recorder.

**HoelDb.** A table is a sequence of rows; as keys are SERIAL and nothing is
deleted, a row's key is its position. `Insert`/`InsertId` give the three outcomes
of an insert: it works; `h_insert` fails and -1 is returned (`NoRow`); the row
is stored but `lastval()` cannot be read, and 0 is returned (`NoId`). Selects
and updates work or fail; an UPDATE whose id names no row does nothing. Only
columns the properties tell apart are kept. `run`, the run that inserted a row,
and `asked`, the name the select before an insert looked for, are history columns.

**Recorder.** `pc` names the call or read that comes next, so each action is one
database call or one group of reads of *different* fields; `inpit`, read twice
in a turn, is read by two actions (`ReadPit`, `CheckPit`), as are the first
reads and the reads before the loop. So are the names of track, driver and car:
`GetTrack` looks for the name `SimData` has at the select, `AddTrack` inserts the
one it has by then; `asked` remembers the first for the properties. A name that is
read while the UI thread copies it is one more name. `id` holds `sessionid`, `stintid`,
`stintlapid`, `telemid` and the catalog ids; `seen` and `last` are
`sessionstatus`/`lap`/`pitstatus` and their `last*`. The blocks map to actions
as follows.

| Code (`gameloop.c`) | Actions |
|---|---|
| 815-869 set-up | `Connect` `GetTrack` `AddTrack` `AddEvent` `GetDriver` `AddDriver` `GetCar` `AddCar` `FirstPit` `AddSession` `AddStint` `AddLap` |
| 866-901 locals, early stop | `Enter` |
| 902-948 sample and reads | `Tick` |
| 947-959 session change | `SessionClosesStint` `SessionCloses` `SessionAdds` |
| 960-973 pit entry | `ReadPit` `CheckPit` `PitClosesStint` `PitAddsStint` |
| 974-1001 lap change | `CheckLap` `LapCloses` `LapAddsTelemetry` `LapStoresChannel` (six times) `LapAdds` |
| 1003-1012 end of turn | `EndOfTurn` |
| 1014-1028 stop | `EndAddsTelemetry` `EndStoresChannel` `EndClosesLap` `EndClosesStint` `EndClosesSession` `CloseDb` |

Around it: `SimWrites` changes one field of `SimData`, `StartRun` and `StopRun`
are what `mainloop` does to it, and `ProcessEnds` ends the process at any point
(`ISIG` stays on in the terminal mode set at line 142). A later run finds the
rows of the earlier ones. `Finished` is the end of a bounded behaviour.
Locals are reset at the end of a thread (`Forget`), as its stack is gone.

**RecorderThread.** Three variables: the stage of the recorder (none, setup,
loop, closing, dead), `program_state` and `err`. It says that a recorder starts
only when there is none and no error is set, reports errors only while it sets
up, leaves its loop only when told, and never ends silently.

**PlayThreads.** `mpc` and `upc` are the places of `mainloop` and of the UI;
the recorder is `RecorderSteps` of RecorderThread. `tty` is what `poll` sees,
`stdin` is the buffer of `scanf` (`Scanned`). `game` is the truth about the
game, `simon` and `simstatus` what gilles knows. `Refused` is a failing
`pthread_create`. `Resize` is a SIGWINCH that interrupts `mainloop`'s `poll`.
A `scanf` with nobody at the keyboard waits for ever (`Blocked`).

**BrowseLoop.** A turn is `Show` (the action is chosen, rows are loaded, the
screen is drawn, the id of the selected row is remembered) and one key. Queries
fail or answer in any order (there is no ORDER BY on stints and laps).
`RecordSession`, `RecordStint` and `RecordLap` are the recorder of another
process. `Strays` names the keys the code does not check for in the state they
are pressed in; see `browse` below.

**TrackSamples.** `car` is the distance driven, in slots; a sample is the
distance at which the UI thread copied the value, so it tells its age, and a
place is that distance modulo `Samples`. `Copy` is one field of `simdatamap`,
`Drive` the game. A turn of the recorder is `ReadPos` (905), `StoreSample`
(908-915), `FillSlot` (one turn of the fill, 917-926, which reads `SimData`
again each time) and `ReadLap` (974-1001, with the new buffers, and `lastpos`).
One buffer stands for the six, which are written side by side. Two history
variables: `look` is where the car was at the last read of `pos`, and `looks` are
the looks since the buffers were new, with the one that saw the lap. The model
assumes that a lap takes longer than one copy by the UI thread, that
`playerspline` is less than 1, and that `trackspline` is positive.

**TelemetryDump.** `ints` and `doubles` are the two arrays of each lap, with
the fields one behind the other; a value is the lap, channel and point it was
sampled at, and `Junk` is what `malloc` left. `QueryPoints`, `LoadFirst` and
`LoadSecond` are the three queries, each of which can fail or find no row;
`WriteRow` is a turn of the loop (232-258). `dpc = "undefined"` marks the first
access outside a buffer, by the query (`telem_result`) or by the loop
(`ReadOutside`). A comparison with uninitialized memory has both outcomes (`Is`). A point of a
lap is driven, in neutral, driven with the wheel exactly straight, or a hole that
was not sampled; the last two have a steer of 0.00 (`ZeroSteer`).
Of the other process only the steps the dump can see are there: a telemetry row
(`AddTelemetry`), and its channels one by one (`StoreChannel`), which can fail
and leave the column NULL.

**Display.** A frame of `looper` is `MapSim` (the copy and the four `wclear`),
`DrawClock`, `Fit` (684-700), then `Search` and `DrawLine` for each position,
`Box` and `GetCh`. `Search` gives the inner loop's result in one step: the first
car that has the position, or `displaycars` when there is none. `Resize` is
`handle_winch` between any two of them. `standings` is what each line shows,
and `torn` remembers that the windows were replaced during the frame. The
numbers of the clock are those of the code, hours of 6000 seconds included.

**Startup.** `mem` says of each pointer and flag whether it is garbage, null,
freed or set, and of each string taken from the configuration which key it came
from. `misused` collects the uses of what nobody set and the frees of what was
freed or never set; the program goes on after one, as it may. Command line,
`HOME`, the state of the file and its keys are chosen in `Init`.
`config_setting_lookup_string` leaves its argument alone when a key is missing:
`Temp` is the last key that was there. Without `HOME` `main` asks for the
length of a null string, and the program is gone (`crashed`).

## 3. Runs

All of them also check for deadlock.

| Run | Bounds | Distinct states | Shows |
|---|---|---|---|
| `recorder_races` | 1 run, 4 changes of SimData, no failing call | 0.24 million | `TypeOK`, `ShutdownFinishesRun`, `OneOpenRowPerRun`, `StintCounts`, `StintsPerPitEntry`, and `StopEndsRecorder` under fairness |
| `recorder_faults` | 2 runs, 1 change, 2 tracks, 1 failing call, the process ends anywhere | 3.0 million | `ParentsExist`, `OneTelemetryPerLap`, `LapClosedOnce`, `NamesRegisteredOnce`, `EarlierRunsKept`, `ImplementsThread` |
| `play` | 2 keys, 3 switches of the game, 1 resize, 1 refused thread | 62 thousand | `SearchIsAlone`, `NoUseAfterFree`, `NoStaleStart`, `NoStartAfterError`, `RecorderLife`, and under fairness `ErrorEndsProgram`, `GameOffEndsUi`, `CursesQuits`, `SearchFindsUnlessStuck` |
| `browse` | 2 sessions, stints and laps; at most 2 listed | 1.2 million | `LapsShownBelong`, `SelectionIsShown`, `LabelsMatchMarks`, `MarksWhatIsShown` |
| `track_samples` | 3 slots, up to 2 slots between two looks, 8 slots driven | 9.5 million | `TypeOK`, `PassedSlotsSampled`, `OldSamplesGone` |
| `telemetry_dump` | laps of 1 and 3 points, 1 failing call | 1.9 million | `StaysInBuffers`, `RowsPairTheLaps`, `ListsTurnedPoints`, `NeutralIsHidden` |
| `startup` | all inputs; configurations with every set of keys | 194 thousand | `OnlyKnownMisuse`, `NothingLeft`, `SettingsInPlace` |
| `display` | 3 cars in every ranking and in five that are none, 3 window sizes, 3 times | 18 thousand | `TypeOK`, `StandingsRight`, `ReadsTheTable`, `TimesRight`, and `FramesEnd` under fairness |

Runs that are expected to find a violation; each is a finding in `PROJECT.json`.

| Run | What the repository says | What the code does |
|---|---|---|
| `recorder_browsable` | `README.md:60` "Browse previous sessions" | A session change closes the stint and adds a session but no stint (949-954). `getsessions` joins the stints, so a session recorded that way is not listed. |
| `recorder_valid_lap` | `gameloop.c:993` "assume lap is valid until it isn't" | The first tick of a new lap folds its `lapisvalid` into `validind` (942) before the change of lap is handled (974): an invalid new lap costs the finished one its validity, and starts as valid itself. |
| `play_cli_quit` | `gameloop.c:258` "Press q to quit..." | `scanf` moves all keys to the buffer of `stdin` and takes one. A `q` behind it is not seen by `poll`: nothing happens until another key comes. |
| `play_resize` | `gameloop.c:218` "Searching for sim data... Press q again to quit..." | `handle_winch` stays installed after the curses UI. A resize makes `poll` return -1, line 222 takes that for a key, `scanf` blocks and the search stops. |

### Why the bounds are enough

- *Session types 1 and 2* are the two sides of the test `sessionstatus > 1`.
  *Laps 0 and 1* can alternate, and the code compares laps only for equality.
- *Four changes* are two pit entries, or a session, a pit and a lap change in
  any order with one field to spare; each can fall between any two reads.
- *One failing call* reaches every unchecked result; *two runs* are needed for
  rows of an earlier run, with the process ending anywhere in either.
- *Two tracks*, one of which an earlier recording left in the database
  (`Registered`), and one change let a run look for the new one and insert the old
  one. Drivers and cars have one name there, as they go through the same operators
  (`Select`, `AddName`), and the other runs of the recorder have one name for all,
  since what they check does not look at it; the theorem is for every set of names.
- *Three switches* make a game come, go and come back, which is what stale
  state needs. *Two keys* make one key hide another.
- *Two of each row* give the browse loop a second session or stint to go back
  to and a selection that moves; with 3 stints or 3 laps the run passes as well.
- *Three slots, eight driven* are two full laps and the start of a third, so that
  buffers are renewed twice; *strides of 2* leave a gap, and two of them between
  two looks of the recorder leave one of several slots.
- *Laps of 1 and 3 points* give two laps of different tracks either way round;
  the shapes `driven neutral neutral` and `neutral hole driven` have a neutral with
  and without a gear before it, two in a row, and a hole behind one; the shapes of
  one point set a straight wheel against a turned one.
  *One failing call* takes one channel or one answer away.
- *Three cars* let a position be in front of, at and behind its index; the
  tables with a position that is twice, nobody's or 0 are those of a game that
  is still loading. The window sizes cut lines off, cut cars off, or neither.

`Recorder` has `MaxChanges`, `MaxFaults` and `MaxRuns` only as guards of
`SimWrites`, of a failing call (`Charge`) and of `StartRun`. They bound what TLC
explores; the theorems hold for every value of them.

### Fairness

`FairSpec` of Recorder assumes weak fairness of the recorder's own steps: the
thread is scheduled and its database calls return, if only with an error.
`FairSpec` of PlayThreads assumes it of each of the three threads: POSIX
threads are scheduled, `poll` and `getch` have timeouts. Nothing is assumed of
keys, the game, signals or refused threads, and a blocked `scanf` is allowed to
wait for ever. With a resize `SearchFinds` fails (`play_resize`); what is left of
it is `SearchFindsUnlessStuck`: a game that runs is found, a thread was refused,
an error was reported, or `mainloop` is in `scanf` because of a resize (`Stuck`).

`FairSpec` of Display assumes weak fairness of the frame's own steps and nothing
of the terminal: however often it changes its size, `looper` comes to the next
frame.

### Remarks on single properties

- `StintCounts` allows one lap more than there are rows under the stint: the
  lap that a pit stop interrupts belongs to the stint before it.
- `StintsPerPitEntry` allows *two* stints per pit entry: when the car leaves the
  pits before line 960 reads `inpit` and enters again before line 961 does, the
  stint is closed and a new one added in that turn, and once more in the next.
- `ShutdownFinishesRun` is about a stop noticed inside the loop. A stop noticed
  at line 896 skips the closing calls; the rows just added stay open (stage
  "closing" after "setup" in RecorderThread).
- `NoUseAfterFree` has one exception, which the code has: when the recorder
  cannot be created after the UI was, `mainloop` returns at once and `main`
  frees `Parameters` under the UI until `exit`.
- `SelectionIsShown`, `MarksWhatIsShown` and `LabelsMatchMarks` hold until a
  key is pressed that the code has no check for (`strayed`): `b` on the first
  and `e` on the last screen reset the selection without drawing, `g` reloads
  the laps from every screen, `down` on an empty list selects row 0, and `1`
  or `2` mark off the lap screen, on an empty list, or the lap that is marked
  already. The model shows these are the only ones. `LapsShownBelong` holds
  without that condition.

- `NamesRegisteredOnce` has two exceptions, which the code has: the name changed
  between the select and the insert, which adds a second row of a registered name
  without a failed call (`recorder_faults` reaches it), and, for drivers and cars, a
  call failed, since their -1 means "not there" as well.
- `PassedSlotsSampled` is about what the car passes between two looks of one lap.
  What it passes over the line is not filled (`lastpos > pos` at 915), and what it
  passes up to the look that sees the new lap, with the place of that look, goes
  into the old buffers: these slots of a lap stay empty.
- `ListsTurnedPoints`: the test for a steer of 0.00 (`telemetry.c:238`) leaves out
  the points one of the laps did not sample and, with them, those where one of them
  has the wheel exactly straight.
- `StaysInBuffers` says when the buffers do not suffice: only when one of the laps
  has more points than the first query found. That happens for two laps of
  different tracks, for a lap stored between the queries and after a first query
  that failed; the code compares nothing. `RowsPairTheLaps`,
  `ListsTurnedPoints` and `NeutralIsHidden` are about the other case, with both
  laps loaded whole (`Sound`).
- `NeutralIsHidden` gives the reference: the gear of the last row in the file, up
  to the one looked at, that was not in neutral, and 0 when there was none.
- `OnlyKnownMisuse` lists what start-up does with memory nobody set: `--help` and
  `--version` free the three directories that were never made, `err` is read
  after a browse that worked, and a missing first key makes `strdup` copy from
  an uninitialized pointer.
- `SettingsInPlace`: a setting that is in the file ends in its own parameter; one
  that is not gets the value of a key before it.
- `ReadsTheTable`: the table is read one past its end only when `MAXCARS` cars are
  displayed and one of the positions 1 to `MAXCARS` is nobody's.
- `TimesRight` is about the clock only below 6000 seconds (`ClockRight`): an hour
  of the code's clock has 6000 seconds and is taken off the minutes.

## 4. Theorems
All proofs are checked by TLAPS with SMT (Z3), Zenon and, for the temporal
steps, LS4. They assume only the named assumptions on the constants
(`RecorderAssumption`, `PlayAssumption`, `SamplesAssumption`,
`DisplayAssumption`, `BrowseAssumption`, `DumpAssumption`, `KeysAssumption`):
bounds and sizes are naturals, the names that earlier recordings left are
distinct, the tables of cars have positions and times that are naturals, a
recorded lap has at least one point and a configuration has keys that the code
asks for. They hold for every number of runs, failing calls,
changes, keys, switches, resizes, refused threads, slots, strides, cars,
sessions, stints, laps and points, and for every set of configurations.

`RecorderProofs`:

| Theorem | Property | Argument |
|---|---|---|
| `TypeCorrect` | `TypeOK` | inductive as it stands, action by action |
| `ParentsCorrect` | `ParentsExist` | from `ParentsInv` |
| `OneTelemetryCorrect`, `LapClosedCorrect` | `OneTelemetryPerLap`, `LapClosedOnce` | from `LapInv` |
| `EarlierRunsCorrect` | `EarlierRunsKept` | action property, from `LapInv` |
| `ThreadCorrect` | `ImplementsThread` | refinement mapping `Stage`; each step is a step of RecorderThread or a stutter |

`ParentsExist` alone is not inductive: a row gets its parent from an id that an
earlier call left behind. `ParentsInv` adds `HeldIds`: past the call that fills
it, an id names a row of this run, or is -1 or 0 and some call has failed. It is
also why a step writes no row of another run. `LapInv` adds to it that the lap
that is held is still open and has no telemetry until the calls that close and
sample it (`LapFresh`), and that telemetry rows name different laps. The
interesting case is an insert of a lap that fails after the lap before it was
closed: the id becomes -1 or 0, never the closed lap's.

`RowsProofs`, on top of `RecorderProofs`:

| Theorem | Property | Argument |
|---|---|---|
| `RowsInvariant`, `OneOpenRowCorrect` | `OneOpenRowPerRun` | from `RowsInv` |
| `BookInvariant`, `ShutdownCorrect` | `ShutdownFinishesRun` | from `RowsInv` and `SampledInv` |
| `NamesRegisteredCorrect` | `NamesRegisteredOnce` | from `NamesInv` |
| `StintsPerPitCorrect` | `StintsPerPitEntry` | from `PitInv` |
| `StintCountsCorrect` | `StintCounts` | from `CountsInv` |

`Moves` sorts the steps of the recorder by what they do to the tables, and the
proofs go by these kinds. `RowsInv` says that, while no call fails, the only open
row of a table is the one that is held (`Slot`), that none is open between a close
and the next insert, and that a run has none before its first insert. `SampledInv`
adds that every lap of the run but the one that is held has its six channels, and
which of them the held one has while they are stored. `PitInv` counts the stints
that may still come without another pit entry (`Expected`): none is owed once the
turn has seen `inpit` as it is, one when it is set and was not seen, and two at the
test itself when the last turn saw it set and this turn's first read did not.
`CountsInv` lets the recorder's count be two ahead of the rows between the end of a
lap and the row of the next one, and one ahead elsewhere, which is where stints are
closed. `NamesInv` says that a call that inserts a name is reached with the id of a
row, or when no row has the name that was asked for, or, for a driver or a car, when
a call failed.

`PlayProofs`:

| Theorem | Property |
|---|---|
| `TypeCorrect` | `TypeOK` |
| `SearchCorrect` | `SearchIsAlone` |
| `FreedCorrect` | `NoUseAfterFree` |
| `StartCorrect` | `NoStaleStart` |
| `NoStartAfterErrorCorrect` | `NoStartAfterError` |
| `LifeCorrect` | `RecorderLife` |
| `KeyCorrect` | `KeyIsThere`: `scanf` is called only when a key is there, but for `mainloop` after a resize |

Apart from `KeyIsThere`, which is inductive by itself, they follow from `PlayInv`, which says for each place of `mainloop` who can be
alive (`Alone`: no UI and no recorder while it searches, no UI when it joins the
recorder, no recorder without `-M`), what is freed (`Freed`) and what it knows
(`Known`: `simon` is clear at the top of the search, the game was seen when a UI
is created, `err` is 0 from the loop's test to the creation). `LifeCorrect` and
`ThreadCorrect` meet in RecorderThread: what mainloop does to the recorder is
what the recorder was shown to cope with, and the other way round.

`TrackProofs`:

| Theorem | Property | Argument |
|---|---|---|
| `TypeCorrect` | `TypeOK` | with `LooksInv`: the fill ends at `pos` |
| `PassedCorrect` | `PassedSlotsSampled` | from `SamplesInv` |
| `OldSamplesCorrect` | `OldSamplesGone` | from `SamplesInv` |

`PassedSlotsSampled` says nothing while a turn is under way, so `SamplesInv` says
in `LooksInv` which slots are still owed at each place of it (`Owed`): before the
store those after `lastpos` up to `pos`, during the fill those from `lastpos` to the
one before `pos`; and that outside of a turn `lastpos` is the place of the last look. `CopyInv` bounds
how old a field of `SimData` can be, and `AgeInv` how old a sample: less than a
lap before the lap that was read last.

`DisplayProofs`:

| Theorem | Property | Argument |
|---|---|---|
| `TypeCorrect` | `TypeOK` | with `RowInv` (`row` is `i + 2` between two lines) and `FoundInv` |
| `StandingsCorrect` | `StandingsRight` | from `DisplayInv` |
| `ReadsCorrect` | `ReadsTheTable` | from `DisplayInv` |
| `TimesCorrect` | `TimesRight` | from `DisplayInv`; `Split` by division with rest |

`DisplayInv` adds to the types where `row` is in each place of the frame
(`RowInv`), what a search has found (`FoundInv`), what a line that is not blank
can show (`ShownInv`), that the lines above `row` show the car that is first with
their position and those below are blank (`LinesInv`), and what the clock shows
(`ClockInv`). The ranking comes in at one place: of cars ranked 1 to `numcars`
every one is the first with its position.

`BrowseProofs`:

| Theorem | Property |
|---|---|
| `TypeCorrect` | `TypeOK` of BrowseLoop |
| `LapsCorrect` | `LapsShownBelong` |
| `SelectionCorrect` | `SelectionIsShown` |
| `MarksCorrect` | `MarksWhatIsShown` (action property) |
| `LabelsCorrect` | `LabelsMatchMarks` |

They follow from `BrowseInv` (`BrowseInvariant`). Each property is about a key,
and what it says was decided one or more turns before, so `BrowseInv` carries it
along: lists are as long as their numbers say until a query fails, and hold rows
of their table (`ListsInv`); on STINTS_SCREEN the list is of `stint_useid`, or is
about to be loaded with the selection on its first row, and `lap_useid` is one of
its stints (`IdsInv`). The interesting case is an empty list of stints, which
would leave `lap_useid` at a stint of another session: the list of sessions only
has sessions with stints, and nothing is ever deleted, so it does not happen.
`ShownInv` says of each turn that its selection is shown already, will be drawn,
or is the first of a list that will be loaded; `g` reloads laps, and there it
needs that a stint never has fewer laps than before. `LabelsInv` lets one mark
be ahead of its label only in the turn that draws it.

`DumpProofs`:

| Theorem | Property |
|---|---|
| `BuffersCorrect` | `StaysInBuffers` |
| `RowsPairCorrect` | `RowsPairTheLaps` |
| `ListsCorrect` | `ListsTurnedPoints` |
| `NeutralCorrect` | `NeutralIsHidden` |

They follow from `DumpInv` (`DumpInvariant`). `PathInv` says where `points`, the
bound of the loop, comes from: the first query or a later one that was answered.
So the loop leaves the buffers only after a query that found more points than
they were made for. `WholeInv` says what a query leaves behind that found all
six channels: each of the three fields of a buffer is one lap's channel, in
place (`Holds`), and the lap does not change any more. It rests on `FilledHolds`,
which turns the order of the blobs into places (`x \div n`, `x % n`), and on
`FitsBound`: a lap with all its channels that fits has no more points than the
buffers were made for. `WrittenInv` says which points the loop has listed and
which gear it remembers. `GearKept` and `GearNext` let the reference of
`NeutralIsHidden`, a maximum over the rows, follow the loop: the gear a row should
show does not depend on later rows, and is its own or that of the row before.

`StartupProofs`:

| Theorem | Property |
|---|---|
| `MisuseCorrect` | `OnlyKnownMisuse` |
| `LeftCorrect` | `NothingLeft` |
| `SettingsCorrect` | `SettingsInPlace` |

They follow from `StartupInv` (`StartupInvariant`). `ParamsInv` and `LocalsInv` say
at each place of `main` what is set, null, freed or never set; what `main` frees at
the end, and what it must not free, follow from that. `ConnectInv` says that
a browse is connected only if the settings for the graph, which key `g` needs,
were read before. `TempIs` gives the value of
the string the keys are read into: the last key that was there, for every order
of keys and every set of them that is missing.

Only model-checked: the liveness properties, since fairness and ENABLED are out of
the prover's reach: `StopEndsRecorder`, `ErrorEndsProgram`, `GameOffEndsUi`,
`CursesQuits`, `SearchFindsUnlessStuck` and `FramesEnd`. Every invariant and every
action property that a passing run checks is a theorem.

## 5. What is not modelled, and abstractions to know of

- **Column values** other than parents, counts, finished and the telemetry
  channels: sector times, speeds, fuel, lap times. So the lap time that the stop
  stores for an unfinished lap (1016) and the sector times nobody initializes
  (983) are not visible.
- **simapi**: `getSim` sets `simon` and fills `SimData` when the game runs and
  never clears `simon`; `simdatamap` copies the status. **hoel**: a call works,
  fails, or stores a row whose id is lost. Connections are not counted, so the
  one that the early returns of the recorder's set-up leave open is not seen.
- **Reads of different fields** in one straight line of code are one step. As
  the fields are written one at a time and independently, every combination of
  values the code can read is still read.
- **Undefined outcomes** of ncurses calls from the signal handler, and of
  `scanf` at the end of input (`ch` keeps its value or is uninitialized).
- **The windows of plain numbers**, texts, colours and terminal modes of
  `looper`; the tyre and brake temperatures; the wait of 2 s; logging.
- **The fork of gnuplot** behind `g`, and the file the dump writes. What the
  dump puts in its rows is modelled.
- **dirhelper's cache functions** (`delete_oldest_dir`,
  `restrict_folders_to_cache` and what they call): nothing calls them.
- **slog** is a vendored library no behaviour depends on.
- The assumptions of TrackSamples on `playerspline`, `trackspline` and the
  length of a lap, and of PlayThreads on frames that end, are stated above.

## 6. What could come next

1. `LapJournal`: an abstract journal of sessions, stints and laps that Recorder
   implements while no call fails.
