----------------------------- MODULE PlayProofs -----------------------------
(***************************************************************************)
(* Proofs about PlayThreads, for every number of keys, switches, resizes   *)
(* and refused threads.                                                    *)
(*                                                                         *)
(* The safety properties follow from one inductive invariant, PlayInv: at  *)
(* each place of mainloop it says which threads can be alive, what has     *)
(* been freed, and what is known of the game and of err.                   *)
(***************************************************************************)
EXTENDS PlayThreads, TLAPS

Searching ==
  {"test", "getsim", "create_ui", "after", "poll", "read", "restore"}

Leaving == {"cleanup", "exit", "exited"}

(* Who is alive while mainloop is where.                                   *)
Alone ==
  /\ mpc \in Searching => upc = "none" /\ stage = "none"
  /\ mpc = "create_rec" => stage = "none"
  /\ mpc = "join_rec" => upc = "none"
  /\ ~mysql => stage = "none"
  /\ mpc = "create_rec" => mysql

(* What is left when mainloop has returned, and what has been freed.       *)
Freed ==
  /\ mpc \notin Leaving => freed = {}
  /\ mpc \in {"cleanup", "exit"} =>
       /\ stage = "none"
       /\ upc # "none" => refusals > 0 /\ "simdata" \notin freed

(* What mainloop knows of the game, and of errors, when it starts a UI.    *)
Known ==
  /\ mpc \in {"test", "getsim", "poll", "read"} => ~simon
  /\ mpc = "create_ui" => noticed
  /\ mpc \in {"getsim", "create_ui"} => err = 0

PlayInv == TypeOK /\ Alone /\ Freed /\ Known

-----------------------------------------------------------------------------
(* Type correctness.                                                       *)

(* The initial values have their types.                                    *)
LEMMA TypeInit == Init => TypeOK
<1>1. Init => FlagTypes
  BY Zenon DEF Init, FlagTypes
<1>2. Init => PlaceTypes
  BY SMT DEF Init, ThreadInit, PlaceTypes, Stages, E_FAILED_DB_CONN
<1>3. Init => InputTypes
  BY PlayAssumption, SMT DEF Init, InputTypes, Keys
<1>4. QED
  BY <1>1, <1>2, <1>3 DEF TypeOK

(* A key that scanf takes leaves two sequences of keys.                    *)
LEMMA ScannedKeys ==
  ASSUME NEW key \in Keys, tty \in Seq(Keys), stdin \in Seq(Keys), Scanned(key)
  PROVE  tty' \in Seq(Keys) /\ stdin' \in Seq(Keys)
<1>1. CASE stdin = <<>>
  BY <1>1, SMT DEF Scanned
<1>2. CASE stdin # <<>>
  BY <1>2, SMT DEF Scanned
<1>3. QED
  BY <1>1, <1>2

(* The flags after a step of mainloop.                                     *)
LEMMA FlagsMain ==
  ASSUME TypeOK, MainStep
  PROVE  FlagTypes'
<1>1. CASE LoopTest
  BY <1>1, Zenon DEF TypeOK, FlagTypes, LoopTest, MoveMain, Main, control,
     simVars, input, KeepOthers, threadVars, uiVars, options, bounds
<1>2. CASE GetSim
  <2>1. noticed' \in BOOLEAN
    BY <1>2, SMT DEF GetSim
  <2>2. QED
    BY <1>2, <2>1, Zenon DEF TypeOK, FlagTypes, GetSim, control, input,
       KeepOthers, threadVars, uiVars, options, bounds
<1>3. CASE CreateUi
  BY <1>3, Zenon DEF TypeOK, FlagTypes, CreateUi, Refused, uiVars, control,
     options, simVars, input
<1>4. CASE CreateRecorder
  BY <1>4, Zenon DEF TypeOK, FlagTypes, CreateRecorder, Begin, Refused,
     threadVars, control, options, uiVars, simVars, input
<1>5. CASE CheckErr
  BY <1>5, Zenon DEF TypeOK, FlagTypes, CheckErr, Main, simVars, input,
     KeepOthers, threadVars, uiVars, options, bounds
<1>6. CASE JoinUi
  BY <1>6, Zenon DEF TypeOK, FlagTypes, JoinUi, JoinUiThen, Main, control,
     options, simVars, input, bounds
<1>7. CASE JoinRecorder
  BY <1>7, Zenon DEF TypeOK, FlagTypes, JoinRecorder, MoveMain, Main, control,
     simVars, input, KeepOthers, threadVars, uiVars, options, bounds
<1>8. CASE ForgetSim
  BY <1>8, Zenon DEF TypeOK, FlagTypes, ForgetSim, Main, control, input,
     KeepOthers, threadVars, uiVars, options, bounds
<1>9. CASE Poll
  BY <1>9, Zenon DEF TypeOK, FlagTypes, Poll, MoveMain, Polled, Main, control,
     simVars, input, KeepOthers, threadVars, uiVars, options, bounds
<1>10. CASE Read
  BY <1>10, Zenon DEF TypeOK, FlagTypes, Read, Main, simVars, KeepOthers,
     threadVars, uiVars, options, bounds
<1>11. CASE Restore
  BY <1>11, Zenon DEF TypeOK, FlagTypes, Restore, Main, Free, simVars, input,
     KeepOthers, threadVars, uiVars, options, bounds
<1>12. CASE CleanUp
  BY <1>12, Zenon DEF TypeOK, FlagTypes, CleanUp, Main, Free, simVars, input,
     KeepOthers, threadVars, uiVars, options, bounds
<1>13. CASE Exit
  BY <1>13, Zenon DEF TypeOK, FlagTypes, Exit, MoveMain, Main, control,
     simVars, input, KeepOthers, threadVars, uiVars, options, bounds
<1>14. QED
  BY <1>1, <1>2, <1>3, <1>4, <1>5, <1>6, <1>7, <1>8, <1>9, <1>10, <1>11, <1>12,
     <1>13 DEF MainStep

(* The flags after a step of the UI.                                       *)
LEMMA FlagsUi ==
  ASSUME TypeOK, UiStep
  PROVE  FlagTypes'
<1>1. CASE UiStart
  BY <1>1, Zenon DEF TypeOK, FlagTypes, UiStart, Ui, simVars, input, KeepMain,
     threadVars, control, options, bounds
<1>2. CASE UiTest
  BY <1>2, Zenon DEF TypeOK, FlagTypes, UiTest, UiTestOf, Ui, simVars, input,
     KeepMain, threadVars, control, options, bounds
<1>3. CASE UiMap
  BY <1>3, Zenon DEF TypeOK, FlagTypes, UiMap, Ui, input, KeepMain, threadVars,
     control, options, bounds
<1>4. CASE GetCh
  BY <1>4, Zenon DEF TypeOK, FlagTypes, GetCh, Ui, input, simVars, KeepMain,
     threadVars, control, options, bounds
<1>5. CASE UiPoll
  BY <1>5, Zenon DEF TypeOK, FlagTypes, UiPoll, Ui, input, Polled, simVars,
     KeepMain, threadVars, control, options, bounds
<1>6. CASE UiRead
  BY <1>6, Zenon DEF TypeOK, FlagTypes, UiRead, Ui, simVars, KeepMain,
     threadVars, control, options, bounds
<1>7. CASE UiEnd
  BY <1>7, Zenon DEF TypeOK, FlagTypes, UiEnd, Ui, simVars, input, KeepMain,
     threadVars, control, options, bounds
<1>8. QED
  BY <1>1, <1>2, <1>3, <1>4, <1>5, <1>6, <1>7 DEF UiStep

(* The flags after any other step.                                         *)
LEMMA FlagsAround ==
  ASSUME TypeOK, RecorderStep \/ Press \/ Switch \/ Resize \/ Exited \/ Blocked
  PROVE  FlagTypes'
<1>1. CASE RecorderStep
  BY <1>1, Zenon DEF TypeOK, FlagTypes, RecorderStep, RecorderSteps, control,
     options, uiVars, simVars, input, bounds, SetUpFails, EnterLoop, LeaveLoop,
     End
<1>2. CASE Press
  BY <1>2, Zenon DEF TypeOK, FlagTypes, Press, threadVars, control, options,
     uiVars, simVars
<1>3. CASE Switch
  BY <1>3, Zenon DEF TypeOK, FlagTypes, Switch, threadVars, control, options,
     uiVars, input
<1>4. CASE Resize
  BY <1>4, Zenon DEF TypeOK, FlagTypes, Resize, Main, threadVars, control,
     options, uiVars, simVars, input
<1>5. CASE Exited
  BY <1>5, Zenon DEF TypeOK, FlagTypes, Exited, vars, threadVars, control,
     options, uiVars, simVars, input, bounds
<1>6. CASE Blocked
  BY <1>6, Zenon DEF TypeOK, FlagTypes, Blocked, vars, threadVars, control,
     options, uiVars, simVars, input, bounds
<1>7. QED
  BY <1>1, <1>2, <1>3, <1>4, <1>5, <1>6

(* The places and what is shared after a step of mainloop.                 *)
LEMMA PlacesMain ==
  ASSUME TypeOK, MainStep
  PROVE  PlaceTypes'
<1>1. CASE LoopTest
  BY <1>1, SMT DEF TypeOK, PlaceTypes, LoopTest, MoveMain, Main, control,
     simVars, input, KeepOthers, threadVars, uiVars, options, bounds
<1>2. CASE GetSim
  BY <1>2, SMT DEF TypeOK, PlaceTypes, GetSim, control, input, KeepOthers,
     threadVars, uiVars, options, bounds
<1>3. CASE CreateUi
  BY <1>3, SMT DEF TypeOK, PlaceTypes, Stages, CreateUi, Refused, uiVars,
     control, options, simVars, input
<1>4. CASE CreateRecorder
  BY <1>4, SMT DEF TypeOK, PlaceTypes, Stages, CreateRecorder, Begin, Refused,
     threadVars, control, options, uiVars, simVars, input
<1>5. CASE CheckErr
  BY <1>5, SMT DEF TypeOK, PlaceTypes, CheckErr, Main, simVars, input,
     KeepOthers, threadVars, uiVars, options, bounds
<1>6. CASE JoinUi
  BY <1>6, SMT DEF TypeOK, PlaceTypes, Stages, JoinUi, JoinUiThen, Main,
     control, options, simVars, input, bounds
<1>7. CASE JoinRecorder
  BY <1>7, SMT DEF TypeOK, PlaceTypes, JoinRecorder, MoveMain, Main, control,
     simVars, input, KeepOthers, threadVars, uiVars, options, bounds
<1>8. CASE ForgetSim
  BY <1>8, SMT DEF TypeOK, PlaceTypes, ForgetSim, Main, control, input,
     KeepOthers, threadVars, uiVars, options, bounds
<1>9. CASE Poll
  BY <1>9, SMT DEF TypeOK, PlaceTypes, Poll, MoveMain, Polled, Main, control,
     simVars, input, KeepOthers, threadVars, uiVars, options, bounds
<1>10. CASE Read
  BY <1>10, SMT DEF TypeOK, PlaceTypes, Read, Main, simVars, KeepOthers,
     threadVars, uiVars, options, bounds
<1>11. CASE Restore
  BY <1>11, SMT DEF TypeOK, PlaceTypes, Restore, Main, Free, simVars, input,
     KeepOthers, threadVars, uiVars, options, bounds
<1>12. CASE CleanUp
  BY <1>12, SMT DEF TypeOK, PlaceTypes, CleanUp, Main, Free, simVars, input,
     KeepOthers, threadVars, uiVars, options, bounds
<1>13. CASE Exit
  BY <1>13, SMT DEF TypeOK, PlaceTypes, Exit, MoveMain, Main, control, simVars,
     input, KeepOthers, threadVars, uiVars, options, bounds
<1>14. QED
  BY <1>1, <1>2, <1>3, <1>4, <1>5, <1>6, <1>7, <1>8, <1>9, <1>10, <1>11, <1>12,
     <1>13 DEF MainStep

(* The places and what is shared after a step of the UI.                   *)
LEMMA PlacesUi ==
  ASSUME TypeOK, UiStep
  PROVE  PlaceTypes'
<1>1. CASE UiStart
  BY <1>1, SMT DEF TypeOK, PlaceTypes, UiStart, Ui, simVars, input, KeepMain,
     threadVars, control, options, bounds
<1>2. CASE UiTest
  BY <1>2, SMT DEF TypeOK, PlaceTypes, UiTest, UiTestOf, Ui, simVars, input,
     KeepMain, threadVars, control, options, bounds
<1>3. CASE UiMap
  BY <1>3, SMT DEF TypeOK, PlaceTypes, UiMap, Ui, input, KeepMain, threadVars,
     control, options, bounds
<1>4. CASE GetCh
  BY <1>4, SMT DEF TypeOK, PlaceTypes, GetCh, Ui, input, simVars, KeepMain,
     threadVars, control, options, bounds
<1>5. CASE UiPoll
  BY <1>5, SMT DEF TypeOK, PlaceTypes, UiPoll, Ui, input, Polled, simVars,
     KeepMain, threadVars, control, options, bounds
<1>6. CASE UiRead
  BY <1>6, SMT DEF TypeOK, PlaceTypes, UiRead, Ui, simVars, KeepMain,
     threadVars, control, options, bounds
<1>7. CASE UiEnd
  BY <1>7, SMT DEF TypeOK, PlaceTypes, UiEnd, Ui, simVars, input, KeepMain,
     threadVars, control, options, bounds
<1>8. QED
  BY <1>1, <1>2, <1>3, <1>4, <1>5, <1>6, <1>7 DEF UiStep

(* The places and what is shared after any other step.                     *)
LEMMA PlacesAround ==
  ASSUME TypeOK, RecorderStep \/ Press \/ Switch \/ Resize \/ Exited \/ Blocked
  PROVE  PlaceTypes'
<1>1. CASE RecorderStep
  BY <1>1, SMT DEF TypeOK, PlaceTypes, Stages, RecorderStep, RecorderSteps,
     control, options, uiVars, simVars, input, bounds, SetUpFails, EnterLoop,
     LeaveLoop, End, E_FAILED_DB_CONN
<1>2. CASE Press
  BY <1>2, SMT DEF TypeOK, PlaceTypes, Press, threadVars, control, options,
     uiVars, simVars
<1>3. CASE Switch
  BY <1>3, SMT DEF TypeOK, PlaceTypes, Switch, threadVars, control, options,
     uiVars, input
<1>4. CASE Resize
  BY <1>4, SMT DEF TypeOK, PlaceTypes, Resize, Main, threadVars, control,
     options, uiVars, simVars, input
<1>5. CASE Exited
  BY <1>5, SMT DEF TypeOK, PlaceTypes, Exited, vars, threadVars, control,
     options, uiVars, simVars, input, bounds
<1>6. CASE Blocked
  BY <1>6, SMT DEF TypeOK, PlaceTypes, Blocked, vars, threadVars, control,
     options, uiVars, simVars, input, bounds
<1>7. QED
  BY <1>1, <1>2, <1>3, <1>4, <1>5, <1>6

(* The keys and the bounds after a step of mainloop.                       *)
LEMMA InputsMain ==
  ASSUME TypeOK, MainStep
  PROVE  InputTypes'
<1>1. CASE LoopTest
  BY <1>1, SMT DEF TypeOK, InputTypes, LoopTest, MoveMain, Main, control,
     simVars, input, KeepOthers, threadVars, uiVars, options, bounds
<1>2. CASE GetSim
  BY <1>2, SMT DEF TypeOK, InputTypes, GetSim, control, input, KeepOthers,
     threadVars, uiVars, options, bounds
<1>3. CASE CreateUi
  BY <1>3, PlayAssumption, SMT DEF TypeOK, InputTypes, CreateUi, Refused,
     uiVars, control, options, simVars, input
<1>4. CASE CreateRecorder
  BY <1>4, PlayAssumption, SMT DEF TypeOK, InputTypes, CreateRecorder, Begin,
     Refused, threadVars, control, options, uiVars, simVars, input
<1>5. CASE CheckErr
  BY <1>5, SMT DEF TypeOK, InputTypes, CheckErr, Main, simVars, input,
     KeepOthers, threadVars, uiVars, options, bounds
<1>6. CASE JoinUi
  BY <1>6, SMT DEF TypeOK, InputTypes, JoinUi, JoinUiThen, Main, control,
     options, simVars, input, bounds
<1>7. CASE JoinRecorder
  BY <1>7, SMT DEF TypeOK, InputTypes, JoinRecorder, MoveMain, Main, control,
     simVars, input, KeepOthers, threadVars, uiVars, options, bounds
<1>8. CASE ForgetSim
  BY <1>8, SMT DEF TypeOK, InputTypes, ForgetSim, Main, control, input,
     KeepOthers, threadVars, uiVars, options, bounds
<1>9. CASE Poll
  BY <1>9, SMT DEF TypeOK, InputTypes, Poll, MoveMain, Polled, Main, control,
     simVars, input, KeepOthers, threadVars, uiVars, options, bounds
<1>10. CASE Read
  <2>1. tty' \in Seq(Keys) /\ stdin' \in Seq(Keys)
    BY <1>10, ScannedKeys DEF Read, TypeOK, InputTypes
  <2>2. QED
    BY <1>10, <2>1, SMT DEF TypeOK, InputTypes, Read, Main, simVars, KeepOthers,
       threadVars, uiVars, options, bounds
<1>11. CASE Restore
  BY <1>11, SMT DEF TypeOK, InputTypes, Restore, Main, Free, simVars, input,
     KeepOthers, threadVars, uiVars, options, bounds
<1>12. CASE CleanUp
  BY <1>12, SMT DEF TypeOK, InputTypes, CleanUp, Main, Free, simVars, input,
     KeepOthers, threadVars, uiVars, options, bounds
<1>13. CASE Exit
  BY <1>13, SMT DEF TypeOK, InputTypes, Exit, MoveMain, Main, control, simVars,
     input, KeepOthers, threadVars, uiVars, options, bounds
<1>14. QED
  BY <1>1, <1>2, <1>3, <1>4, <1>5, <1>6, <1>7, <1>8, <1>9, <1>10, <1>11, <1>12,
     <1>13 DEF MainStep

(* The keys and the bounds after a step of the UI.                         *)
LEMMA InputsUi ==
  ASSUME TypeOK, UiStep
  PROVE  InputTypes'
<1>1. CASE UiStart
  BY <1>1, SMT DEF TypeOK, InputTypes, UiStart, Ui, simVars, input, KeepMain,
     threadVars, control, options, bounds
<1>2. CASE UiTest
  BY <1>2, SMT DEF TypeOK, InputTypes, UiTest, UiTestOf, Ui, simVars, input,
     KeepMain, threadVars, control, options, bounds
<1>3. CASE UiMap
  BY <1>3, SMT DEF TypeOK, InputTypes, UiMap, Ui, input, KeepMain, threadVars,
     control, options, bounds
<1>4. CASE GetCh
  BY <1>4, SMT DEF TypeOK, InputTypes, GetCh, Ui, input, simVars, KeepMain,
     threadVars, control, options, bounds
<1>5. CASE UiPoll
  BY <1>5, SMT DEF TypeOK, InputTypes, UiPoll, Ui, input, Polled, simVars,
     KeepMain, threadVars, control, options, bounds
<1>6. CASE UiRead
  <2>1. tty' \in Seq(Keys) /\ stdin' \in Seq(Keys)
    BY <1>6, ScannedKeys DEF UiRead, TypeOK, InputTypes
  <2>2. QED
    BY <1>6, <2>1, SMT DEF TypeOK, InputTypes, UiRead, Ui, simVars, KeepMain,
       threadVars, control, options, bounds
<1>7. CASE UiEnd
  BY <1>7, SMT DEF TypeOK, InputTypes, UiEnd, Ui, simVars, input, KeepMain,
     threadVars, control, options, bounds
<1>8. QED
  BY <1>1, <1>2, <1>3, <1>4, <1>5, <1>6, <1>7 DEF UiStep

(* The keys and the bounds after any other step.                           *)
LEMMA InputsAround ==
  ASSUME TypeOK, RecorderStep \/ Press \/ Switch \/ Resize \/ Exited \/ Blocked
  PROVE  InputTypes'
<1>1. CASE RecorderStep
  BY <1>1, SMT DEF TypeOK, InputTypes, RecorderStep, RecorderSteps, control,
     options, uiVars, simVars, input, bounds, SetUpFails, EnterLoop, LeaveLoop,
     End
<1>2. CASE Press
  BY <1>2, PlayAssumption, SMT DEF TypeOK, InputTypes, Keys, Press, threadVars,
     control, options, uiVars, simVars
<1>3. CASE Switch
  BY <1>3, PlayAssumption, SMT DEF TypeOK, InputTypes, Switch, threadVars,
     control, options, uiVars, input
<1>4. CASE Resize
  BY <1>4, PlayAssumption, SMT DEF TypeOK, InputTypes, Resize, Main,
     threadVars, control, options, uiVars, simVars, input
<1>5. CASE Exited
  BY <1>5, SMT DEF TypeOK, InputTypes, Exited, vars, threadVars, control,
     options, uiVars, simVars, input, bounds
<1>6. CASE Blocked
  BY <1>6, SMT DEF TypeOK, InputTypes, Blocked, vars, threadVars, control,
     options, uiVars, simVars, input, bounds
<1>7. QED
  BY <1>1, <1>2, <1>3, <1>4, <1>5, <1>6

(* Every step keeps the types.                                             *)
LEMMA TypeStep == ASSUME TypeOK, [Next]_vars PROVE TypeOK'
<1>1. CASE MainStep
  BY <1>1, FlagsMain, PlacesMain, InputsMain DEF TypeOK
<1>2. CASE UiStep
  BY <1>2, FlagsUi, PlacesUi, InputsUi DEF TypeOK
<1>3. CASE RecorderStep \/ Press \/ Switch \/ Resize \/ Exited \/ Blocked
  BY <1>3, FlagsAround, PlacesAround, InputsAround DEF TypeOK
<1>4. CASE UNCHANGED vars
  <2>1. FlagTypes'
    BY <1>4, Zenon DEF TypeOK, FlagTypes, vars, control, options,
       uiVars, simVars
  <2>2. PlaceTypes'
    BY <1>4, SMT DEF TypeOK, PlaceTypes, vars, threadVars, control, uiVars,
       simVars
  <2>3. InputTypes'
    BY <1>4, SMT DEF TypeOK, InputTypes, vars, input, bounds
  <2>4. QED
    BY <2>1, <2>2, <2>3 DEF TypeOK
<1>5. QED
  BY <1>1, <1>2, <1>3, <1>4 DEF Next

(* The variables of the three threads keep their types, for every number   *)
(* of keys, game switches, resizes and refused threads.                    *)
THEOREM TypeCorrect == Spec => []TypeOK
<1>1. Init => TypeOK
  BY TypeInit
<1>2. TypeOK /\ [Next]_vars => TypeOK'
  BY TypeStep
<1>3. QED
  BY <1>1, <1>2, PTL DEF Spec

-----------------------------------------------------------------------------
(* The inductive invariant.                                                *)

(* A living UI writes nothing PlayInv looks at but its own place.          *)
LEMMA UiKeeps ==
  ASSUME UiStep
  PROVE  upc # "none" /\ upc' # "none" /\
         UNCHANGED <<threadVars, mpc, mysql, freed, simon, noticed, refusals>>
<1>1. CASE UiStart
  BY <1>1, Zenon DEF UiStart, Ui, simVars, input, KeepMain, threadVars,
     control, options, bounds
<1>2. CASE UiTest
  BY <1>2, Zenon DEF UiTest, UiTestOf, Ui, simVars, input, KeepMain,
     threadVars, control, options, bounds
<1>3. CASE UiMap
  BY <1>3, Zenon DEF UiMap, Ui, input, KeepMain, threadVars, control, options,
     bounds
<1>4. CASE GetCh
  BY <1>4, Zenon DEF GetCh, Ui, input, simVars, KeepMain, threadVars, control,
     options, bounds
<1>5. CASE UiPoll
  BY <1>5, Zenon DEF UiPoll, Ui, input, Polled, simVars, KeepMain, threadVars,
     control, options, bounds
<1>6. CASE UiRead
  BY <1>6, Zenon DEF UiRead, Ui, simVars, KeepMain, threadVars, control,
     options, bounds
<1>7. CASE UiEnd
  BY <1>7, Zenon DEF UiEnd, Ui, simVars, input, KeepMain, threadVars, control,
     options, bounds
<1>8. QED
  BY <1>1, <1>2, <1>3, <1>4, <1>5, <1>6, <1>7 DEF UiStep

(* The program starts with mainloop alone, nothing freed and no game.      *)
LEMMA InvInit == Init => Alone /\ Freed /\ Known
  BY SMT DEF Init, ThreadInit, Searching, Leaving, Alone, Freed, Known

(* A step of any thread leaves the right threads alive.                    *)
LEMMA AloneStep ==
  ASSUME PlayInv, [Next]_vars
  PROVE  Alone'
<1>1. CASE LoopTest
  BY <1>1, SMT DEF PlayInv, Alone, Searching, LoopTest, MoveMain, Main,
     control, simVars, KeepOthers, threadVars, uiVars, options, bounds
<1>2. CASE GetSim
  BY <1>2, SMT DEF PlayInv, Alone, Searching, GetSim, control, KeepOthers,
     threadVars, uiVars, options, bounds
<1>3. CASE CreateUi
  BY <1>3, SMT DEF PlayInv, Alone, Searching, CreateUi, Refused, uiVars,
     control, options, simVars
<1>4. CASE CreateRecorder
  BY <1>4, SMT DEF PlayInv, Alone, Searching, CreateRecorder, Begin, Refused,
     threadVars, control, options, uiVars, simVars
<1>5. CASE CheckErr
  BY <1>5, SMT DEF PlayInv, Alone, Searching, CheckErr, Main, simVars,
     KeepOthers, threadVars, uiVars, options, bounds
<1>6. CASE JoinUi
  BY <1>6, SMT DEF PlayInv, Alone, Searching, JoinUi, JoinUiThen, Main,
     control, options, simVars, bounds
<1>7. CASE JoinRecorder
  BY <1>7, SMT DEF PlayInv, Alone, Searching, JoinRecorder, MoveMain, Main,
     control, simVars, KeepOthers, threadVars, uiVars, options, bounds
<1>8. CASE ForgetSim
  BY <1>8, SMT DEF PlayInv, Alone, Searching, ForgetSim, Main, control,
     KeepOthers, threadVars, uiVars, options, bounds
<1>9. CASE Poll
  BY <1>9, SMT DEF PlayInv, Alone, Searching, Poll, MoveMain, Polled, Main,
     control, simVars, KeepOthers, threadVars, uiVars, options, bounds
<1>10. CASE Read
  BY <1>10, SMT DEF PlayInv, Alone, Searching, Read, Main, simVars, KeepOthers,
     threadVars, uiVars, options, bounds
<1>11. CASE Restore
  BY <1>11, SMT DEF PlayInv, Alone, Searching, Restore, Main, Free, simVars,
     KeepOthers, threadVars, uiVars, options, bounds
<1>12. CASE CleanUp
  BY <1>12, SMT DEF PlayInv, Alone, Searching, CleanUp, Main, Free, simVars,
     KeepOthers, threadVars, uiVars, options, bounds
<1>13. CASE Exit
  BY <1>13, SMT DEF PlayInv, Alone, Searching, Exit, MoveMain, Main, control,
     simVars, KeepOthers, threadVars, uiVars, options, bounds
<1>14. CASE UiStep
  BY <1>14, UiKeeps, SMT DEF PlayInv, Alone, Searching, threadVars
<1>15. CASE RecorderStep
  BY <1>15, SMT DEF PlayInv, Alone, Searching, RecorderStep, RecorderSteps,
     control, options, uiVars, simVars, bounds, SetUpFails, EnterLoop,
     LeaveLoop, End
<1>16. CASE Press \/ Switch
  BY <1>16, SMT DEF PlayInv, Alone, Searching, Press, Switch, threadVars,
     control, options, uiVars, simVars
<1>17. CASE Resize
  BY <1>17, SMT DEF PlayInv, Alone, Searching, Resize, Main, threadVars,
     control, options, uiVars, simVars
<1>18. CASE UNCHANGED vars
  BY <1>18, SMT DEF PlayInv, Alone, Searching, vars, threadVars, control,
     options, uiVars, simVars, bounds
<1>19. QED
  BY <1>1, <1>2, <1>3, <1>4, <1>5, <1>6, <1>7, <1>8, <1>9, <1>10, <1>11, <1>12,
     <1>13, <1>14, <1>15, <1>16, <1>17, <1>18 DEF Next, MainStep,
     Exited, Blocked

(* A step frees nothing a living thread uses, but for the refused one.     *)
LEMMA FreedStep ==
  ASSUME PlayInv, [Next]_vars
  PROVE  Freed'
<1>1. CASE LoopTest
  BY <1>1, SMT DEF PlayInv, Freed, Leaving, Alone, Searching, LoopTest,
     MoveMain, Main, control, simVars, KeepOthers, threadVars, uiVars, options,
     bounds
<1>2. CASE GetSim
  BY <1>2, SMT DEF PlayInv, Freed, Leaving, Alone, Searching, GetSim, control,
     KeepOthers, threadVars, uiVars, options, bounds
<1>3. CASE CreateUi
  BY <1>3, PlayAssumption, SMT DEF PlayInv, TypeOK, FlagTypes, PlaceTypes,
     InputTypes, Freed, Leaving, Alone, Searching, CreateUi, Refused, uiVars,
     control, options, simVars
<1>4. CASE CreateRecorder
  BY <1>4, PlayAssumption, SMT DEF PlayInv, TypeOK, FlagTypes, PlaceTypes,
     InputTypes, Freed, Leaving, Alone, Searching, CreateRecorder, Begin,
     Refused, threadVars, control, options, uiVars, simVars
<1>5. CASE CheckErr
  BY <1>5, SMT DEF PlayInv, Freed, Leaving, Alone, Searching, CheckErr, Main,
     simVars, KeepOthers, threadVars, uiVars, options, bounds
<1>6. CASE JoinUi
  BY <1>6, SMT DEF PlayInv, Freed, Leaving, Alone, Searching, JoinUi,
     JoinUiThen, Main, control, options, simVars, bounds
<1>7. CASE JoinRecorder
  BY <1>7, SMT DEF PlayInv, Freed, Leaving, Alone, Searching, JoinRecorder,
     MoveMain, Main, control, simVars, KeepOthers, threadVars, uiVars, options,
     bounds
<1>8. CASE ForgetSim
  BY <1>8, SMT DEF PlayInv, Freed, Leaving, Alone, Searching, ForgetSim, Main,
     control, KeepOthers, threadVars, uiVars, options, bounds
<1>9. CASE Poll
  BY <1>9, SMT DEF PlayInv, Freed, Leaving, Alone, Searching, Poll, MoveMain,
     Polled, Main, control, simVars, KeepOthers, threadVars, uiVars, options,
     bounds
<1>10. CASE Read
  BY <1>10, SMT DEF PlayInv, Freed, Leaving, Alone, Searching, Read, Main,
     simVars, KeepOthers, threadVars, uiVars, options, bounds
<1>11. CASE Restore
  BY <1>11, SMT DEF PlayInv, Freed, Leaving, Alone, Searching, Restore, Main,
     Free, simVars, KeepOthers, threadVars, uiVars, options, bounds
<1>12. CASE CleanUp
  BY <1>12, SMT DEF PlayInv, Freed, Leaving, Alone, Searching, CleanUp, Main,
     Free, simVars, KeepOthers, threadVars, uiVars, options, bounds
<1>13. CASE Exit
  BY <1>13, SMT DEF PlayInv, Freed, Leaving, Alone, Searching, Exit, MoveMain,
     Main, control, simVars, KeepOthers, threadVars, uiVars, options, bounds
<1>14. CASE UiStep
  BY <1>14, UiKeeps, SMT DEF PlayInv, Freed, Leaving, Alone, Searching,
     threadVars
<1>15. CASE RecorderStep
  BY <1>15, SMT DEF PlayInv, Freed, Leaving, Alone, Searching, RecorderStep,
     RecorderSteps, control, options, uiVars, simVars, bounds, SetUpFails,
     EnterLoop, LeaveLoop, End
<1>16. CASE Press \/ Switch
  BY <1>16, SMT DEF PlayInv, Freed, Leaving, Alone, Searching, Press, Switch,
     threadVars, control, options, uiVars, simVars
<1>17. CASE Resize
  BY <1>17, SMT DEF PlayInv, Freed, Leaving, Alone, Searching, Resize, Main,
     threadVars, control, options, uiVars, simVars
<1>18. CASE UNCHANGED vars
  BY <1>18, SMT DEF PlayInv, Freed, Leaving, Alone, Searching, vars,
     threadVars, control, options, uiVars, simVars, bounds
<1>19. QED
  BY <1>1, <1>2, <1>3, <1>4, <1>5, <1>6, <1>7, <1>8, <1>9, <1>10, <1>11, <1>12,
     <1>13, <1>14, <1>15, <1>16, <1>17, <1>18 DEF Next, MainStep,
     Exited, Blocked

(* What mainloop knows of the game and of err stays true.                  *)
LEMMA KnownStep ==
  ASSUME PlayInv, [Next]_vars
  PROVE  Known'
<1>1. CASE LoopTest
  BY <1>1, SMT DEF PlayInv, Known, LoopTest, MoveMain, Main, control, simVars,
     KeepOthers, threadVars, uiVars, options, bounds
<1>2. CASE GetSim
  <2>1. mpc = "getsim" /\ ~simon /\ err' = 0
    BY <1>2 DEF PlayInv, Known, GetSim, KeepOthers, threadVars
  <2>2. mpc' \in {"create_ui", "after"}
    BY <1>2, Zenon DEF GetSim
  <2>3. CASE game > 0
    <3>1. noticed' = TRUE
      BY <1>2, <2>3, Zenon DEF GetSim
    <3>2. QED
      BY <2>1, <2>2, <3>1, Zenon DEF Known
  <2>4. CASE ~(game > 0)
    <3>1. mpc' = "after"
      BY <1>2, <2>1, <2>4, Zenon DEF GetSim
    <3>2. QED
      BY <3>1, Zenon DEF Known
  <2>5. QED
    BY <2>3, <2>4
<1>3. CASE CreateUi
  BY <1>3, SMT DEF PlayInv, Known, CreateUi, Refused, uiVars, control, options,
     simVars
<1>4. CASE CreateRecorder
  BY <1>4, SMT DEF PlayInv, Known, CreateRecorder, Begin, Refused, threadVars,
     control, options, uiVars, simVars
<1>5. CASE CheckErr
  BY <1>5, SMT DEF PlayInv, Known, CheckErr, Main, simVars, KeepOthers,
     threadVars, uiVars, options, bounds
<1>6. CASE JoinUi
  BY <1>6, SMT DEF PlayInv, Known, JoinUi, JoinUiThen, Main, control, options,
     simVars, bounds
<1>7. CASE JoinRecorder
  BY <1>7, SMT DEF PlayInv, Known, JoinRecorder, MoveMain, Main, control,
     simVars, KeepOthers, threadVars, uiVars, options, bounds
<1>8. CASE ForgetSim
  BY <1>8, SMT DEF PlayInv, Known, ForgetSim, Main, control, KeepOthers,
     threadVars, uiVars, options, bounds
<1>9. CASE Poll
  BY <1>9, SMT DEF PlayInv, Known, Poll, MoveMain, Polled, Main, control,
     simVars, KeepOthers, threadVars, uiVars, options, bounds
<1>10. CASE Read
  BY <1>10, SMT DEF PlayInv, Known, Read, Main, simVars, KeepOthers,
     threadVars, uiVars, options, bounds
<1>11. CASE Restore
  BY <1>11, SMT DEF PlayInv, Known, Restore, Main, Free, simVars, KeepOthers,
     threadVars, uiVars, options, bounds
<1>12. CASE CleanUp
  BY <1>12, SMT DEF PlayInv, Known, CleanUp, Main, Free, simVars, KeepOthers,
     threadVars, uiVars, options, bounds
<1>13. CASE Exit
  BY <1>13, SMT DEF PlayInv, Known, Exit, MoveMain, Main, control, simVars,
     KeepOthers, threadVars, uiVars, options, bounds
<1>14. CASE UiStep
  BY <1>14, UiKeeps, SMT DEF PlayInv, Known, threadVars
<1>15. CASE RecorderStep
  BY <1>15, SMT DEF PlayInv, Known, Alone, Searching, RecorderStep,
     RecorderSteps, control, options, uiVars, simVars, bounds, SetUpFails,
     EnterLoop, LeaveLoop, End
<1>16. CASE Press \/ Switch
  BY <1>16, SMT DEF PlayInv, Known, Press, Switch, threadVars, control,
     options, uiVars, simVars
<1>17. CASE Resize
  BY <1>17, SMT DEF PlayInv, Known, Resize, Main, threadVars, control, options,
     uiVars, simVars
<1>18. CASE UNCHANGED vars
  BY <1>18, SMT DEF PlayInv, Known, vars, threadVars, control, options, uiVars,
     simVars, bounds
<1>19. QED
  BY <1>1, <1>2, <1>3, <1>4, <1>5, <1>6, <1>7, <1>8, <1>9, <1>10, <1>11, <1>12,
     <1>13, <1>14, <1>15, <1>16, <1>17, <1>18 DEF Next, MainStep,
     Exited, Blocked

(* PlayInv is inductive.                                                   *)
LEMMA InvStep == ASSUME PlayInv, [Next]_vars PROVE PlayInv'
  BY TypeStep, AloneStep, FreedStep, KnownStep DEF PlayInv

(* PlayInv holds in every reachable state.                                 *)
LEMMA InvCorrect == Spec => []PlayInv
<1>1. Init => PlayInv
  BY TypeInit, InvInit DEF PlayInv
<1>2. PlayInv /\ [Next]_vars => PlayInv'
  BY InvStep
<1>3. QED
  BY <1>1, <1>2, PTL DEF Spec

-----------------------------------------------------------------------------
(* What follows from it.                                                   *)

(* gameloop.c:160 fills SimData: no UI and no recorder is alive while the  *)
(* search runs.                                                            *)
THEOREM SearchCorrect == Spec => []SearchIsAlone
<1>1. PlayInv => SearchIsAlone
  BY Zenon DEF PlayInv, Alone, Searching, SearchIsAlone, UiAlive, RecorderAlive
<1>2. QED
  BY <1>1, InvCorrect, PTL

(* No thread but a UI whose recorder was refused is alive when mainloop    *)
(* and main free what the threads share.                                   *)
THEOREM FreedCorrect == Spec => []NoUseAfterFree
<1>1. PlayInv => NoUseAfterFree
  BY SMT DEF PlayInv, Freed, Leaving, NoUseAfterFree, UiAlive, RecorderAlive
<1>2. QED
  BY <1>1, InvCorrect, PTL

(* A UI is only started for a game that the last getSim saw.               *)
THEOREM StartCorrect == Spec => []NoStaleStart
<1>1. PlayInv => NoStaleStart
  BY Zenon DEF PlayInv, Known, NoStaleStart
<1>2. QED
  BY <1>1, InvCorrect, PTL

(* Only CreateUi starts a UI, and then err is 0.                           *)
LEMMA StartStep ==
  ASSUME PlayInv, [Next]_vars
  PROVE  upc = "none" /\ upc' = "start" => err = 0
<1>1. CASE LoopTest
  BY <1>1, Zenon DEF LoopTest, MoveMain, Main, control, simVars, KeepOthers,
     threadVars, uiVars, options, bounds
<1>2. CASE GetSim
  BY <1>2, Zenon DEF GetSim, control, KeepOthers, threadVars, uiVars, options,
     bounds
<1>3. CASE CreateUi
  BY <1>3, Zenon DEF PlayInv, Known, CreateUi, Refused, uiVars, control,
     options, simVars
<1>4. CASE CreateRecorder
  BY <1>4, Zenon DEF CreateRecorder, Begin, Refused, threadVars, control,
     options, uiVars, simVars
<1>5. CASE CheckErr
  BY <1>5, Zenon DEF CheckErr, Main, simVars, KeepOthers, threadVars, uiVars,
     options, bounds
<1>6. CASE JoinUi
  BY <1>6, Zenon DEF JoinUi, JoinUiThen, Main, control, options, simVars,
     bounds
<1>7. CASE JoinRecorder
  BY <1>7, Zenon DEF JoinRecorder, MoveMain, Main, control, simVars,
     KeepOthers, threadVars, uiVars, options, bounds
<1>8. CASE ForgetSim
  BY <1>8, Zenon DEF ForgetSim, Main, control, KeepOthers, threadVars, uiVars,
     options, bounds
<1>9. CASE Poll
  BY <1>9, Zenon DEF Poll, MoveMain, Polled, Main, control, simVars,
     KeepOthers, threadVars, uiVars, options, bounds
<1>10. CASE Read
  BY <1>10, Zenon DEF Read, Main, simVars, KeepOthers, threadVars, uiVars,
     options, bounds
<1>11. CASE Restore
  BY <1>11, Zenon DEF Restore, Main, Free, simVars, KeepOthers, threadVars,
     uiVars, options, bounds
<1>12. CASE CleanUp
  BY <1>12, Zenon DEF CleanUp, Main, Free, simVars, KeepOthers, threadVars,
     uiVars, options, bounds
<1>13. CASE Exit
  BY <1>13, Zenon DEF Exit, MoveMain, Main, control, simVars, KeepOthers,
     threadVars, uiVars, options, bounds
<1>14. CASE UiStep
  BY <1>14, UiKeeps, Zenon DEF threadVars
<1>15. CASE RecorderStep
  BY <1>15, Zenon DEF RecorderStep, RecorderSteps, control, options, uiVars,
     simVars, bounds, SetUpFails, EnterLoop, LeaveLoop, End
<1>16. CASE Press \/ Switch
  BY <1>16, Zenon DEF Press, Switch, threadVars, control, options, uiVars,
     simVars
<1>17. CASE Resize
  BY <1>17, Zenon DEF Resize, Main, threadVars, control, options, uiVars,
     simVars
<1>18. CASE UNCHANGED vars
  BY <1>18, Zenon DEF vars, threadVars, control, options, uiVars, simVars,
     bounds
<1>19. QED
  BY <1>1, <1>2, <1>3, <1>4, <1>5, <1>6, <1>7, <1>8, <1>9, <1>10, <1>11, <1>12,
     <1>13, <1>14, <1>15, <1>16, <1>17, <1>18 DEF Next, MainStep,
     Exited, Blocked

(* No UI is created once the recorder has reported an error.               *)
THEOREM NoStartAfterErrorCorrect == Spec => NoStartAfterError
<1>1. PlayInv /\ [Next]_vars => [upc = "none" /\ upc' = "start" => err = 0]_vars
  BY StartStep
<1>2. QED
  BY <1>1, InvCorrect, PTL DEF Spec, NoStartAfterError

(* Only Poll, UiPoll and Resize lead to a scanf, and only the thread that  *)
(* is there takes keys.                                                    *)
LEMMA KeyStep ==
  ASSUME PlayInv, KeyIsThere, [Next]_vars
  PROVE  KeyIsThere'
<1>1. CASE LoopTest
  BY <1>1, Zenon DEF KeyIsThere, LoopTest, MoveMain, Main, control, simVars, input, KeepOthers,
     threadVars, uiVars, options, bounds
<1>2. CASE GetSim
  BY <1>2, Zenon DEF KeyIsThere, GetSim, input, control, KeepOthers, threadVars, uiVars, options, bounds
<1>3. CASE CreateUi
  BY <1>3, Zenon DEF KeyIsThere, CreateUi, Refused, uiVars, control, options, simVars, input
<1>4. CASE CreateRecorder
  BY <1>4, Zenon DEF KeyIsThere, CreateRecorder, Refused, threadVars, control, options, uiVars,
     simVars, input
<1>5. CASE CheckErr
  BY <1>5, Zenon DEF KeyIsThere, CheckErr, Main, simVars, input, KeepOthers, threadVars, uiVars,
     options, bounds
<1>6. CASE JoinUi
  BY <1>6, Zenon DEF KeyIsThere, JoinUi, JoinUiThen, Main, control, options, simVars, input, bounds
<1>7. CASE JoinRecorder
  BY <1>7, Zenon DEF KeyIsThere, JoinRecorder, MoveMain, Main, control, simVars, input,
     KeepOthers, threadVars, uiVars, options, bounds
<1>8. CASE ForgetSim
  BY <1>8, Zenon DEF KeyIsThere, ForgetSim, Main, control, input, KeepOthers, threadVars, uiVars,
     options, bounds
<1>9. CASE Poll
  BY <1>9, Zenon DEF KeyIsThere, Poll, MoveMain, Polled, Main, control, simVars, input,
     KeepOthers, threadVars, uiVars, options, bounds
<1>10. CASE Read
  BY <1>10, Zenon DEF KeyIsThere, PlayInv, Alone, Searching, Read, Main, simVars, KeepOthers,
     threadVars, uiVars, options, bounds
<1>11. CASE Restore
  BY <1>11, Zenon DEF KeyIsThere, Restore, Main, Free, simVars, input, KeepOthers, threadVars,
     uiVars, options, bounds
<1>12. CASE CleanUp
  BY <1>12, Zenon DEF KeyIsThere, CleanUp, Main, Free, simVars, input, KeepOthers, threadVars,
     uiVars, options, bounds
<1>13. CASE Exit
  BY <1>13, Zenon DEF KeyIsThere, Exit, MoveMain, Main, control, simVars, input, KeepOthers,
     threadVars, uiVars, options, bounds
<1>14. CASE UiStart \/ UiMap \/ UiEnd
  BY <1>14, Zenon DEF KeyIsThere, UiStart, UiMap, UiEnd, Ui, simVars, input,
     KeepMain, bounds
<1>15. CASE UiTest
  BY <1>15, Zenon DEF KeyIsThere, UiTest, UiTestOf, Ui, simVars, input, KeepMain,
     bounds
<1>16. CASE UiPoll
  BY <1>16, Zenon DEF KeyIsThere, UiPoll, Polled, Ui, simVars, input, KeepMain,
     bounds
<1>17. CASE GetCh \/ UiRead
  BY <1>17, Zenon DEF PlayInv, Alone, Searching, KeyIsThere, GetCh, UiRead, Ui,
     KeepMain, simVars
<1>18. CASE RecorderStep
  BY <1>18, Zenon DEF KeyIsThere, RecorderStep, control, options, uiVars, simVars,
     input, bounds
<1>19. CASE Press
  BY <1>19, SMT DEF PlayInv, TypeOK, InputTypes, KeyIsThere, Press, uiVars
<1>20. CASE Switch
  BY <1>20, Zenon DEF KeyIsThere, Switch, uiVars, input
<1>21. CASE Resize
  BY <1>21, SMT DEF PlayInv, TypeOK, InputTypes, KeyIsThere, Resize, Main,
     uiVars, input
<1>22. CASE UNCHANGED vars
  BY <1>22, Zenon DEF KeyIsThere, vars, uiVars, input, bounds
<1>23. QED
  BY <1>1, <1>2, <1>3, <1>4, <1>5, <1>6, <1>7, <1>8, <1>9, <1>10, <1>11, <1>12, <1>13,
     <1>14, <1>15, <1>16, <1>17, <1>18, <1>19, <1>20, <1>21, <1>22 DEF Next, MainStep,
     UiStep, Exited, Blocked

(* A scanf has its key, except in a search whose poll was interrupted.     *)
THEOREM KeyCorrect == Spec => []KeyIsThere
<1>1. Init => KeyIsThere
  BY SMT DEF Init, KeyIsThere
<1>2. PlayInv /\ KeyIsThere /\ [Next]_vars => KeyIsThere'
  BY KeyStep
<1>3. QED
  BY <1>1, <1>2, InvCorrect, PTL DEF Spec

(* Each step is one of RecorderThread, or changes nothing it sees.         *)
LEMMA LifeStep ==
  ASSUME PlayInv, [Next]_vars
  PROVE  [ThreadNext]_threadVars
<1>1. CASE LoopTest
  BY <1>1, Zenon DEF LoopTest, MoveMain, Main, control, simVars, KeepOthers,
     threadVars, uiVars, options, bounds, ThreadNext
<1>2. CASE GetSim
  BY <1>2, Zenon DEF GetSim, control, KeepOthers, threadVars, uiVars, options,
     bounds, ThreadNext
<1>3. CASE CreateUi
  BY <1>3, Zenon DEF PlayInv, Alone, Searching, CreateUi, Refused, uiVars,
     control, options, simVars, ThreadNext, Tell
<1>4. CASE CreateRecorder
  BY <1>4, Zenon DEF CreateRecorder, Refused, threadVars, control, options,
     uiVars, simVars, ThreadNext
<1>5. CASE CheckErr
  BY <1>5, Zenon DEF CheckErr, Main, simVars, KeepOthers, threadVars, uiVars,
     options, bounds, ThreadNext
<1>6. CASE JoinUi
  BY <1>6, Zenon DEF PlayInv, Alone, Searching, JoinUi, JoinUiThen, Main,
     control, options, simVars, bounds, ThreadNext, Tell
<1>7. CASE JoinRecorder
  BY <1>7, Zenon DEF JoinRecorder, MoveMain, Main, control, simVars,
     KeepOthers, threadVars, uiVars, options, bounds, ThreadNext
<1>8. CASE ForgetSim
  BY <1>8, Zenon DEF ForgetSim, Main, control, KeepOthers, threadVars, uiVars,
     options, bounds, ThreadNext
<1>9. CASE Poll
  BY <1>9, Zenon DEF Poll, MoveMain, Polled, Main, control, simVars,
     KeepOthers, threadVars, uiVars, options, bounds, ThreadNext
<1>10. CASE Read
  BY <1>10, Zenon DEF Read, Main, simVars, KeepOthers, threadVars, uiVars,
     options, bounds, ThreadNext
<1>11. CASE Restore
  BY <1>11, Zenon DEF Restore, Main, Free, simVars, KeepOthers, threadVars,
     uiVars, options, bounds, ThreadNext
<1>12. CASE CleanUp
  BY <1>12, Zenon DEF CleanUp, Main, Free, simVars, KeepOthers, threadVars,
     uiVars, options, bounds, ThreadNext
<1>13. CASE Exit
  BY <1>13, Zenon DEF Exit, MoveMain, Main, control, simVars, KeepOthers,
     threadVars, uiVars, options, bounds, ThreadNext
<1>14. CASE UiStep
  BY <1>14, UiKeeps, Zenon DEF threadVars, ThreadNext
<1>15. CASE RecorderStep
  BY <1>15, Zenon DEF RecorderStep, control, options, uiVars, simVars, bounds,
     ThreadNext
<1>16. CASE Press \/ Switch
  BY <1>16, Zenon DEF Press, Switch, threadVars, control, options, uiVars,
     simVars, ThreadNext
<1>17. CASE Resize
  BY <1>17, Zenon DEF Resize, Main, threadVars, control, options, uiVars,
     simVars, ThreadNext
<1>18. CASE UNCHANGED vars
  BY <1>18, Zenon DEF vars, threadVars, control, options, uiVars, simVars,
     bounds, ThreadNext
<1>19. QED
  BY <1>1, <1>2, <1>3, <1>4, <1>5, <1>6, <1>7, <1>8, <1>9, <1>10, <1>11, <1>12,
     <1>13, <1>14, <1>15, <1>16, <1>17, <1>18 DEF Next, MainStep,
     Exited, Blocked

(* The threads of play give the recorder the life that RecorderThread      *)
(* describes and Recorder implements.                                      *)
THEOREM LifeCorrect == Spec => RecorderLife
<1>1. Init => ThreadInit
  BY DEF Init
<1>2. PlayInv /\ [Next]_vars => [ThreadNext]_threadVars
  BY LifeStep
<1>3. QED
  BY <1>1, <1>2, InvCorrect, PTL DEF Spec, RecorderLife, ThreadSpec
=============================================================================
