--------------------------- MODULE RecorderThread ---------------------------
(***************************************************************************)
(* What the recorder thread promises the rest of gilles, and what it is    *)
(* promised: the life of simviewmysql as mainloop sees it, with the        *)
(* database left out.  Recorder implements it, and PlayThreads composes it *)
(* with the main and UI threads.                                           *)
(*                                                                         *)
(* A recorder is only created while there is none and no error is set;     *)
(* told to stop, it is not told to go on until it has ended; it sets the   *)
(* error only while it sets up, and it never ends silently: it ends        *)
(* because the set-up failed or because it was told to.                    *)
(***************************************************************************)
EXTENDS Integers

VARIABLES
  stage,           \* of the recorder thread
  program_state,   \* Parameters.program_state: 1, or -1 to stop
  err              \* Parameters.err: 0 or E_FAILED_DB_CONN

threadVars == <<stage, program_state, err>>

Stages == {"none", "dead", "setup", "loop", "closing"}

E_FAILED_DB_CONN == 2

ThreadInit ==
  /\ stage = "none"
  /\ program_state = 1
  /\ err = 0

(* mainloop sets program_state and creates the thread.                     *)
Begin ==
  /\ stage \in {"none", "dead"}
  /\ err = 0
  /\ stage' = "setup"
  /\ program_state' = 1
  /\ UNCHANGED err

SetUpFails ==
  /\ stage = "setup"
  /\ stage' = "none"
  /\ err' = E_FAILED_DB_CONN
  /\ UNCHANGED program_state

(* A stop that comes before the loop skips it and its closing calls.       *)
EnterLoop ==
  /\ stage = "setup"
  /\ stage' = IF program_state < 0 THEN "closing" ELSE "loop"
  /\ UNCHANGED <<program_state, err>>

LeaveLoop ==
  /\ stage = "loop"
  /\ program_state < 0
  /\ stage' = "closing"
  /\ UNCHANGED <<program_state, err>>

End ==
  /\ stage = "closing"
  /\ stage' = "none"
  /\ UNCHANGED <<program_state, err>>

RecorderSteps == SetUpFails \/ EnterLoop \/ LeaveLoop \/ End

(* mainloop writes program_state: -1 at any time, 1 only before Begin.     *)
Tell ==
  \/ program_state' = -1 /\ UNCHANGED <<stage, err>>
  \/ stage = "none" /\ program_state' = 1 /\ UNCHANGED <<stage, err>>

(* The process ends; the next one starts with everything reset.            *)
Die ==
  /\ stage' = "dead"
  /\ program_state' = 1
  /\ err' = 0

ThreadNext == Begin \/ RecorderSteps \/ Tell \/ Die

ThreadSpec == ThreadInit /\ [][ThreadNext]_threadVars
=============================================================================
