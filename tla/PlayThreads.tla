---------------------------- MODULE PlayThreads ----------------------------
(***************************************************************************)
(* The three threads of "gilles play": mainloop, the UI it creates         *)
(* (clilooper with -c, looper otherwise) and, with -M, the recorder, here  *)
(* by its abstract steps of RecorderThread.                                *)
(*                                                                         *)
(* They share Parameters (program_state, err, simon), the SimData copy of  *)
(* the game's shared memory, and standard input.  Input is read in two     *)
(* ways: getch takes one key from the terminal; scanf first empties the    *)
(* terminal into the buffer of stdin, which poll does not look at.         *)
(***************************************************************************)
EXTENDS RecorderThread, Sequences

CONSTANTS
  MaxKeys,       \* bound: keys pressed in a behaviour
  MaxSwitches,   \* bound: changes of what the game does
  MaxResizes,    \* bound: resizes of the terminal
  MaxRefusals    \* bound: pthread_create calls that fail

ASSUME PlayAssumption ==
  MaxKeys \in Nat /\ MaxSwitches \in Nat /\ MaxResizes \in Nat /\ MaxRefusals \in Nat

VARIABLES
  mpc, upc,        \* where the main and the UI thread are
  cli, mysql,      \* the options -c and -M
  go, uigo,        \* the variable go of mainloop and of the UI
  simon,           \* Parameters.simon
  simstatus,       \* SimData.simstatus, the copy
  winch,           \* handle_winch is installed
  freed,           \* what has been freed: "simdata", "parameters"
  game,            \* 0 not running, 1 in its menus, 2 driving
  tty, stdin,      \* keys in the terminal, keys in the buffer of stdin
  noticed,         \* history: the last getSim saw the game
  pressed, switches, resizes, refusals

control  == <<go, freed>>
options  == <<cli, mysql>>
uiVars   == <<upc, uigo, winch>>
simVars  == <<simon, simstatus, game, noticed>>
input    == <<tty, stdin>>
bounds   == <<pressed, switches, resizes, refusals>>
vars     == <<threadVars, mpc, control, options, uiVars, simVars, input, bounds>>

Keys == {"q", "x"}

Init ==
  /\ ThreadInit
  /\ mpc = "test" /\ upc = "none"
  /\ cli \in BOOLEAN /\ mysql \in BOOLEAN
  /\ go = TRUE /\ uigo = TRUE
  /\ simon = FALSE /\ simstatus = 0 /\ noticed = FALSE
  /\ winch = FALSE /\ freed = {}
  /\ game = 0
  /\ tty = <<>> /\ stdin = <<>>
  /\ pressed = 0 /\ switches = 0 /\ resizes = 0 /\ refusals = 0

-----------------------------------------------------------------------------
(* scanf("%c"): a key of the buffer or, when that is empty, of everything  *)
(* the terminal has; it blocks while neither has one.                      *)
Scanned(key) ==
  LET buffer == IF stdin = <<>> THEN tty ELSE stdin IN
  /\ buffer # <<>>
  /\ key = Head(buffer)
  /\ stdin' = Tail(buffer)
  /\ tty' = IF stdin = <<>> THEN <<>> ELSE tty

(* poll on the terminal returns 0 only when nothing is there.              *)
Polled(readable, timedout) == IF tty = <<>> THEN timedout ELSE readable

-----------------------------------------------------------------------------
(* mainloop.                                                               *)

Main(from, to) == mpc = from /\ mpc' = to

KeepOthers == UNCHANGED <<threadVars, uiVars, options, bounds>>

(* A step that only moves on.                                              *)
MoveMain(from, to) ==
  /\ Main(from, to)
  /\ UNCHANGED <<control, simVars, input>>
  /\ KeepOthers

(* Mutant: the loop does not look at err.                                  *)
LoopTestGoOnly == MoveMain("test", IF go THEN "getsim" ELSE "restore")

LoopTest == MoveMain("test", IF go /\ err = 0 THEN "getsim" ELSE "restore")

(* simapi's getSim maps a running game and sets simon; it never clears it. *)
GetSim ==
  /\ mpc = "getsim"
  /\ IF game > 0
     THEN simon' = TRUE /\ simstatus' = game
     ELSE UNCHANGED <<simon, simstatus>>
  /\ mpc' = IF simon' /\ simstatus' > 1 THEN "create_ui" ELSE "after"
  /\ noticed' = (game > 0)
  /\ UNCHANGED <<control, game, input>>
  /\ KeepOthers

(* A pthread_create that fails leaves mainloop at once, with -1.           *)
Refused ==
  /\ refusals < MaxRefusals
  /\ refusals' = refusals + 1
  /\ mpc' = "cleanup"

CreateUi ==
  /\ mpc = "create_ui"
  /\ program_state' = 1
  /\ \/ /\ upc' = "start"
        /\ uigo' = TRUE
        /\ mpc' = IF mysql THEN "create_rec" ELSE "check"
        /\ UNCHANGED <<winch, refusals>>
     \/ Refused /\ UNCHANGED uiVars
  /\ UNCHANGED <<stage, err, control, options, simVars, input,
                 pressed, switches, resizes>>

CreateRecorder ==
  /\ mpc = "create_rec"
  /\ \/ Begin /\ mpc' = "check" /\ UNCHANGED refusals
     \/ Refused /\ UNCHANGED threadVars
  /\ UNCHANGED <<control, options, uiVars, simVars, input,
                 pressed, switches, resizes>>

CheckErr ==
  /\ Main("check", "join_ui")
  /\ go' = (go /\ err = 0)
  /\ UNCHANGED <<freed, simVars, input>>
  /\ KeepOthers

JoinUiThen(next) ==
  /\ Main("join_ui", next)
  /\ upc = "ended"
  /\ upc' = "none"
  /\ program_state' = -1
  /\ UNCHANGED <<stage, err, control, options, uigo, winch, simVars, input, bounds>>

(* Mutant: the recorder is not joined.                                     *)
JoinUiOnly == JoinUiThen("after")

JoinUi == JoinUiThen(IF mysql THEN "join_rec" ELSE "after")

JoinRecorder == stage = "none" /\ MoveMain("join_rec", "after")

(* Mutant: simon is left set.                                              *)
ForgetNothing == MoveMain("after", "poll")

ForgetSim ==
  /\ Main("after", "poll")
  /\ simon' = FALSE
  /\ UNCHANGED <<control, simstatus, game, noticed, input>>
  /\ KeepOthers

(* Mutant: poll is given no timeout.                                       *)
PollForEver == MoveMain("poll", Polled("read", "poll"))

Poll == MoveMain("poll", Polled("read", "test"))

Read ==
  /\ Main("read", "test")
  /\ \E key \in Keys : Scanned(key) /\ go' = (go /\ key # "q")
  /\ UNCHANGED <<freed, simVars>>
  /\ KeepOthers

(* The end of mainloop, then of main: freeparams, free(p), exit.           *)
Free(what) ==
  /\ freed' = freed \cup {what}
  /\ UNCHANGED <<go, simVars, input>>
  /\ KeepOthers

Restore == Main("restore", "cleanup") /\ Free("simdata")

CleanUp == Main("cleanup", "exit") /\ Free("parameters")

Exit == MoveMain("exit", "exited")

MainStep ==
  \/ LoopTest \/ GetSim \/ CreateUi \/ CreateRecorder \/ CheckErr
  \/ JoinUi \/ JoinRecorder \/ ForgetSim \/ Poll \/ Read
  \/ Restore \/ CleanUp \/ Exit

-----------------------------------------------------------------------------
(* The UI and the recorder, which run until the process has exited.        *)

Ui(from, to) == mpc # "exited" /\ upc = from /\ upc' = to

KeepMain == UNCHANGED <<threadVars, mpc, control, options, bounds>>

(* curses_init installs handle_winch, which nobody removes.                *)
UiStart ==
  /\ Ui("start", "test")
  /\ winch' = (winch \/ ~cli)
  /\ UNCHANGED <<uigo, simVars, input>>
  /\ KeepMain

UiTestOf(runs) ==
  /\ Ui("test", IF runs THEN "map" ELSE "end")
  /\ UNCHANGED <<uigo, winch, simVars, input>>
  /\ KeepMain

(* Mutants: the UI does not look at simstatus, or at err.                  *)
UiTestNoStatus == UiTestOf(uigo /\ err = 0)

UiTestNoErr == UiTestOf(uigo /\ simstatus > 1)

UiTest == UiTestOf(uigo /\ simstatus > 1 /\ err = 0)

(* simdatamap copies the game's shared memory.                             *)
UiMap ==
  /\ Ui("map", "input")
  /\ simstatus' = game
  /\ UNCHANGED <<uigo, winch, simon, game, noticed, input>>
  /\ KeepMain

(* Mutant: looper takes a key without looking at it.                       *)
GetChIgnored ==
  /\ Ui("input", "test")
  /\ ~cli
  /\ tty' = IF tty = <<>> THEN <<>> ELSE Tail(tty)
  /\ UNCHANGED <<uigo, winch, simVars, stdin>>
  /\ KeepMain

(* looper: getch with its timeout.                                         *)
GetCh ==
  /\ Ui("input", "test")
  /\ ~cli
  /\ uigo' = (uigo /\ (tty = <<>> \/ Head(tty) # "q"))
  /\ tty' = IF tty = <<>> THEN <<>> ELSE Tail(tty)
  /\ UNCHANGED <<winch, simVars, stdin>>
  /\ KeepMain

(* clilooper: poll, then scanf.                                            *)
UiPoll ==
  /\ Ui("input", Polled("read", "test"))
  /\ cli
  /\ UNCHANGED <<uigo, winch, simVars, input>>
  /\ KeepMain

UiRead ==
  /\ Ui("read", "test")
  /\ \E key \in Keys : Scanned(key) /\ uigo' = (uigo /\ key # "q")
  /\ UNCHANGED <<winch, simVars>>
  /\ KeepMain

UiEnd ==
  /\ Ui("end", "ended")
  /\ UNCHANGED <<uigo, winch, simVars, input>>
  /\ KeepMain

UiStep == UiStart \/ UiTest \/ UiMap \/ GetCh \/ UiPoll \/ UiRead \/ UiEnd

RecorderStep ==
  /\ mpc # "exited"
  /\ RecorderSteps
  /\ UNCHANGED <<mpc, control, options, uiVars, simVars, input, bounds>>

-----------------------------------------------------------------------------
(* The user and the game.                                                  *)

Press ==
  /\ pressed < MaxKeys
  /\ pressed' = pressed + 1
  /\ \E key \in Keys : tty' = Append(tty, key)
  /\ UNCHANGED <<threadVars, mpc, control, options, uiVars, simVars, stdin,
                 switches, resizes, refusals>>

Switch ==
  /\ switches < MaxSwitches
  /\ switches' = switches + 1
  /\ game' \in 0 .. 2 \ {game}
  /\ UNCHANGED <<threadVars, mpc, control, options, uiVars, simon, simstatus,
                 noticed, input, pressed, resizes, refusals>>

(* A SIGWINCH that handle_winch catches while mainloop is in poll: poll    *)
(* returns -1, which mainloop takes for "readable".                        *)
Resize ==
  /\ resizes < MaxResizes
  /\ resizes' = resizes + 1
  /\ winch
  /\ Main("poll", "read")
  /\ UNCHANGED <<threadVars, control, options, uiVars, simVars, input,
                 pressed, switches, refusals>>

Exited == mpc = "exited" /\ UNCHANGED vars

(* With nobody at the keyboard a blocked scanf waits for ever.             *)
Blocked ==
  /\ mpc = "read" /\ tty = <<>> /\ stdin = <<>>
  /\ UNCHANGED vars

Next ==
  \/ MainStep \/ UiStep \/ RecorderStep
  \/ Press \/ Switch \/ Resize \/ Exited \/ Blocked

Spec == Init /\ [][Next]_vars

(* The three threads are scheduled and their calls return.                 *)
FairSpec ==
  Spec /\ WF_vars(MainStep) /\ WF_vars(UiStep) /\ WF_vars(RecorderStep)

-----------------------------------------------------------------------------
(* Properties.                                                             *)

UiAlive == upc # "none"

RecorderAlive == stage # "none"

FlagTypes ==
  /\ cli \in BOOLEAN /\ mysql \in BOOLEAN /\ go \in BOOLEAN /\ uigo \in BOOLEAN
  /\ simon \in BOOLEAN /\ noticed \in BOOLEAN /\ winch \in BOOLEAN

PlaceTypes ==
  /\ mpc \in {"test", "getsim", "create_ui", "create_rec", "check", "join_ui",
             "join_rec", "after", "poll", "read", "restore", "cleanup", "exit", "exited"}
  /\ upc \in {"none", "start", "test", "map", "input", "read", "end", "ended"}
  /\ stage \in Stages /\ program_state \in {1, -1} /\ err \in {0, E_FAILED_DB_CONN}
  /\ simstatus \in 0 .. 2 /\ game \in 0 .. 2
  /\ freed \subseteq {"simdata", "parameters"}

InputTypes ==
  /\ tty \in Seq(Keys) /\ stdin \in Seq(Keys)
  /\ pressed \in 0 .. MaxKeys /\ switches \in 0 .. MaxSwitches
  /\ resizes \in 0 .. MaxResizes /\ refusals \in 0 .. MaxRefusals

(* The values the variables take: the places of the threads, the flags and *)
(* what is shared, the keys and the bounds.                                *)
TypeOK == FlagTypes /\ PlaceTypes /\ InputTypes

(* getSim fills SimData, and starting a UI or a recorder relies on the     *)
(* last ones being gone, while none of them is alive.                      *)
SearchIsAlone ==
  mpc \in {"test", "getsim", "create_ui", "after", "poll", "read", "restore"} =>
    ~UiAlive /\ ~RecorderAlive

(* No thread uses SimData or Parameters after they are freed; the one      *)
(* exception is a UI whose recorder could not be created: mainloop returns *)
(* without joining it.                                                     *)
NoUseAfterFree ==
  freed # {} /\ mpc # "exited" =>
    /\ ~RecorderAlive
    /\ UiAlive => refusals > 0 /\ "simdata" \notin freed

(* A UI is only started for a game that this turn of the search saw, never *)
(* for what an earlier game left in simon and simstatus.                   *)
NoStaleStart == mpc = "create_ui" => noticed

(* No UI is created once the recorder has reported an error.               *)
NoStartAfterError ==
  [][ upc = "none" /\ upc' = "start" => err = 0 ]_vars

(* The recorder, composed with the threads around it, lives the life that  *)
(* Recorder implements.                                                    *)
RecorderLife == ThreadSpec

(* A thread at its scanf has a key to read, so that it cannot block there: *)
(* between poll and scanf nobody else takes the key.  The exception is the *)
(* search, when a resize has interrupted its poll.                         *)
KeyIsThere ==
  (mpc = "read" /\ resizes = 0) \/ upc = "read" => tty # <<>> \/ stdin # <<>>

(* The search blocks in scanf, which only a resize brings about.           *)
Stuck == mpc = "read" /\ tty = <<>> /\ stdin = <<>>

(* A recorder error ends the program, unless the search is stuck.          *)
ErrorEndsProgram == err # 0 ~> mpc = "exited" \/ Stuck

(* When the game stops, the UI ends, and then so does the recorder; or the *)
(* program ends around them.                                               *)
GameOffEndsUi ==
  game = 0 /\ UiAlive ~> game # 0 \/ (~UiAlive /\ ~RecorderAlive) \/ mpc = "exited"

Running == mpc # "exited" /\ upc \in {"test", "map", "input", "read"}

(* looper: a "q" pressed while it runs ends it.                            *)
CursesQuits == ~cli /\ Running /\ "q" \in {tty[i] : i \in DOMAIN tty} ~> ~Running

(* While the search is on, a game that runs is found, unless the search is *)
(* stuck.                                                                  *)
Found == game # 2 \/ UiAlive \/ mpc = "exited"

SearchFindsUnlessStuck == mpc = "poll" /\ game = 2 ~> Found \/ Stuck

(* gameloop.c:218, "Searching for sim data...": while the search is on, a  *)
(* game that runs is found.                                                *)
SearchFinds == mpc = "poll" /\ game = 2 ~> Found

(* gameloop.c:258, "Press q to quit...": a "q" that is in the terminal     *)
(* while clilooper runs ends it.                                           *)
CliQuits == cli /\ Running /\ "q" \in {tty[i] : i \in DOMAIN tty} ~> ~Running
=============================================================================
