------------------------------ MODULE Startup ------------------------------
(***************************************************************************)
(* main, getParameters, loadconfig and freeparams: from the command line   *)
(* to play, browse or neither, and what is set, used and freed on the way. *)
(*                                                                         *)
(* mem gives for each pointer or flag what it holds: garbage before it is  *)
(* assigned, null, freed, the key of the configuration its string came     *)
(* from ("junk" for a string that came from nowhere), or "set".  What is   *)
(* done with garbage or freed memory is recorded in misused, and execution *)
(* goes on, which is one of the possible outcomes.                         *)
(***************************************************************************)
EXTENDS Integers, Sequences

CONSTANT
  KeySets   \* the sets of keys a configuration may have

DbKeys == {"user", "password", "server", "database"}
Keys   == DbKeys \cup {"gnuplotfile", "gnuplotbin"}

ASSUME KeysAssumption == KeySets \subseteq SUBSET Keys

VARIABLES
  pc,
  args,            \* the command line
  env,             \* HOME, the configuration file, gnuplot
  program_action, mysql,
  mem,
  loaded,          \* what loadconfig returned
  ran, connected,  \* history: what was run, and whether browse got a connection
  misused          \* history: <<how, what>>

inputs == <<args, env>>
option == <<program_action, mysql>>
result == <<ran, connected>>
vars   == <<pc, inputs, option, mem, loaded, result, misused>>

DbParams == {"db_user", "db_pass", "db_serv", "db_dbnm", "db_conn"}
Params   == DbParams \cup {"sim_string", "config_path", "gnuplot_file", "gnuplot_bin"}
Locals   == {"gs", "p", "cachedir", "configdir", "datadir", "config_file_str", "cfg"}
Flags    == {"err", "gnuplotfound"}
Memory   == Params \cup Locals \cup Flags

Values   == {"garbage", "null", "freed", "junk", "set"} \cup Keys

Init ==
  /\ pc = "parse"
  /\ args \in [command : {"play", "browse", "other"},
               badoption : BOOLEAN, mysql : BOOLEAN, info : BOOLEAN]
  /\ env \in [home : BOOLEAN, file : {"missing", "broken", "good"},
              sections : SUBSET {"graph", "db"}, keys : KeySets]
  /\ program_action = "play" /\ mysql = FALSE
  /\ mem = [m \in Memory |-> IF m \in {"p", "gs"} THEN "set" ELSE "garbage"]
  /\ loaded = "E_NO_ERROR"
  /\ ran = "nothing" /\ connected = FALSE
  /\ misused = {}

-----------------------------------------------------------------------------
(* Helpers.                                                                *)

Assign(names, value) == [m \in Memory |-> IF m \in names THEN value ELSE mem[m]]

(* The use of a value nobody set.                                          *)
Misuse(how, names, unusable) ==
  misused' = misused \cup {<<how, m>> : m \in {n \in names : mem[n] \in unusable}}

(* free of null does nothing.                                              *)
Frees(names) ==
  /\ Misuse("free", names, {"garbage", "freed"})
  /\ mem' = [m \in Memory |-> IF m \in names /\ mem[m] # "null" THEN "freed" ELSE mem[m]]

Step(from, to) == pc = from /\ pc' = to

-----------------------------------------------------------------------------
(* getParameters.                                                          *)

(* The play table knows no -f; without an error in it, sim_string and      *)
(* config_path are copies of strings, if only of empty ones.               *)
Plays   == args.command = "play" /\ ~args.badoption
Browses == args.command = "browse" /\ ~args.badoption /\ ~args.mysql

ParseThen(next) ==
  /\ Step("parse", next)
  /\ program_action' = IF Browses THEN "browse" ELSE "play"
  /\ mysql' = (Plays /\ args.mysql)
  /\ mem' = [m \in Memory |->
               IF m \in {"sim_string", "config_path"} /\ Plays THEN "set"
               ELSE IF m \in Params THEN "null"
               ELSE mem[m]]
  /\ UNCHANGED <<inputs, loaded, result, misused>>

(* Mutant: a command line that is no good leaves as --help does.           *)
ParseArgsOrLeave ==
  ParseThen(IF args.info \/ ~(Plays \/ Browses) THEN "free_params" ELSE "dirs")

(* --help and --version leave for cleanup_final.  What neither table knows *)
(* is E_SOMETHING_BAD, which main does not look for: action 0 is play.     *)
ParseArgs == ParseThen(IF args.info THEN "free_params" ELSE "dirs")

-----------------------------------------------------------------------------
(* main up to the configuration.                                           *)

(* Without HOME the length of a null string is asked for.                  *)
CreateDirs ==
  /\ Step("dirs", IF env.home THEN "find" ELSE "crashed")
  /\ mem' = IF env.home THEN Assign({"cachedir", "configdir", "datadir"}, "set") ELSE mem
  /\ UNCHANGED <<inputs, option, loaded, result, misused>>

(* A configuration that cannot be read is reported, but is no error.       *)
ReadConfig ==
  /\ Step("find",
          IF env.file # "good" THEN "destroy"
          ELSE IF program_action = "browse" THEN "graph"
          ELSE IF mysql THEN "db" ELSE "destroy")
  /\ mem' = [mem EXCEPT !["config_file_str"] = IF env.file = "missing" THEN "null" ELSE "set",
                        !["cfg"] = "set"]
  /\ UNCHANGED <<inputs, option, loaded, result, misused>>

(* A return in the middle of loadconfig, past config_destroy.              *)
BadConfig(from) ==
  /\ Step(from, "wipe")
  /\ loaded' = "E_BAD_CONFIG"
  /\ UNCHANGED <<inputs, option, mem, result, misused>>

(* config_setting_lookup_string leaves temp alone when there is no such    *)
(* key: temp is the last of the keys looked up so far that is there.       *)
Temp(looked) ==
  LET there == {k \in DOMAIN looked : looked[k] \in env.keys}
  IN IF there = {} THEN "junk"
     ELSE looked[CHOOSE k \in there : \A l \in there : l <= k]

(* What strdup makes of temp.                                              *)
Copies(copy) ==
  misused' = misused \cup {<<"strdup", m>> : m \in {n \in DOMAIN copy : copy[n] = "junk"}}

GraphSettings ==
  /\ Step("graph", "db")
  /\ "graph" \in env.sections
  /\ LET file == Temp(<<"gnuplotfile">>) IN
     /\ mem' = [mem EXCEPT !["gnuplot_file"] = file, !["gnuplot_bin"] = "set",
                           !["gnuplotfound"] = "set"]
     /\ Copies([gnuplot_file |-> file])
  /\ UNCHANGED <<inputs, option, loaded, result>>

NoGraph == "graph" \notin env.sections /\ BadConfig("graph")

LoadGraph == GraphSettings \/ NoGraph

DbSettings(order) ==
  /\ Step("db", "destroy")
  /\ "db" \in env.sections
  /\ LET copy == [db_user |-> Temp(SubSeq(order, 1, 1)), db_pass |-> Temp(SubSeq(order, 1, 2)),
                  db_serv |-> Temp(SubSeq(order, 1, 3)), db_dbnm |-> Temp(order)] IN
     /\ mem' = [m \in Memory |->
                  IF m \in DOMAIN copy THEN copy[m]
                  ELSE IF m = "db_conn" THEN "set"
                  ELSE mem[m]]
     /\ Copies(copy)
  /\ UNCHANGED <<inputs, option, loaded, result>>

NoDb == "db" \notin env.sections /\ BadConfig("db")

(* Mutant: the keys are looked up in another order than they are stored.   *)
LoadDbSwapped == DbSettings(<<"user", "server", "password", "database">>) \/ NoDb

LoadDb == DbSettings(<<"user", "password", "server", "database">>) \/ NoDb

DestroyConfig ==
  /\ Step("destroy", "wipe")
  /\ mem' = [mem EXCEPT !["cfg"] = "freed"]
  /\ UNCHANGED <<inputs, option, loaded, result, misused>>

Wipe ==
  /\ Step("wipe", IF loaded = "E_NO_ERROR" THEN "run" ELSE "free_params")
  /\ Frees({"config_file_str"})
  /\ UNCHANGED <<inputs, option, loaded, result>>

-----------------------------------------------------------------------------
(* The run and the end.                                                    *)

(* mainloop sets err before anything else.                                 *)
Play ==
  /\ Step("run", "report")
  /\ program_action = "play"
  /\ mem' = [mem EXCEPT !["err"] = "set"]
  /\ ran' = "play"
  /\ UNCHANGED <<inputs, option, loaded, connected, misused>>

(* browseloop sets err only when it gets no connection, which without a    *)
(* connection string it cannot.                                            *)
Browse ==
  /\ Step("run", "report")
  /\ program_action = "browse"
  /\ connected' \in {FALSE, mem["db_conn"] # "null"}
  /\ mem' = [mem EXCEPT !["err"] = IF connected' THEN @ ELSE "set"]
  /\ ran' = "browse"
  /\ UNCHANGED <<inputs, option, loaded, misused>>

ReportErr ==
  /\ Step("report", "free_params")
  /\ Misuse("read", {"err"}, {"garbage"})
  /\ UNCHANGED <<inputs, option, mem, loaded, result>>

FreeParamsIf(settings) ==
  /\ Step("free_params", "free_locals")
  /\ Frees({"sim_string", "config_path"}
           \cup IF settings THEN DbParams \cup {"gnuplot_file", "gnuplot_bin"} ELSE {})
  /\ UNCHANGED <<inputs, option, loaded, result>>

(* Mutant: the settings are only freed after browse.                       *)
FreeParamsOfBrowse == FreeParamsIf(program_action = "browse")

FreeParams == FreeParamsIf(mysql \/ program_action = "browse")

FreeLocals ==
  /\ Step("free_locals", "exited")
  /\ Frees({"gs", "p", "configdir", "datadir", "cachedir"})
  /\ UNCHANGED <<inputs, option, loaded, result>>

Ended == pc \in {"exited", "crashed"} /\ UNCHANGED vars

Next ==
  \/ ParseArgs \/ CreateDirs \/ ReadConfig \/ LoadGraph \/ LoadDb
  \/ DestroyConfig \/ Wipe \/ Play \/ Browse \/ ReportErr
  \/ FreeParams \/ FreeLocals \/ Ended

Spec == Init /\ [][Next]_vars

-----------------------------------------------------------------------------
(* Properties.                                                             *)

(* Memory holds what it can hold; once the command line is parsed, no      *)
(* parameter is garbage.                                                   *)
TypeOK ==
  /\ mem \in [Memory -> Values]
  /\ pc # "parse" => \A m \in Params : mem[m] # "garbage"
  /\ program_action \in {"play", "browse"} /\ mysql \in BOOLEAN
  /\ loaded \in {"E_NO_ERROR", "E_BAD_CONFIG"}
  /\ ran \in {"nothing", "play", "browse"} /\ connected \in BOOLEAN

(* The directories that main jumps over for --help and --version.          *)
SkippedDirs == {"cachedir", "configdir", "datadir"}

(* Nothing is used that nobody set and nothing freed twice, but: --help    *)
(* and --version free the directories that were not made, err is read      *)
(* after a browse that worked, and the first key that is missing from a    *)
(* section is copied from nowhere.                                         *)
OnlyKnownMisuse ==
  \A u \in misused :
    \/ u[1] = "free" /\ args.info /\ u[2] \in SkippedDirs
    \/ u = <<"read", "err">> /\ connected
    \/ u = <<"strdup", "gnuplot_file">> /\ "gnuplotfile" \notin env.keys
    \/ u[1] = "strdup" /\ "user" \notin env.keys /\ u[2] \in DbParams

(* Whatever was set is freed at the end: freeparams and main free what     *)
(* getParameters, loadconfig and main set, on every way through them.      *)
(* Only a bad configuration leaves one thing behind, the one libconfig     *)
(* read.                                                                   *)
NothingLeft ==
  pc = "exited" =>
    \A m \in Params \cup Locals :
      \/ mem[m] \in {"freed", "null", "garbage"}
      \/ m = "cfg" /\ loaded = "E_BAD_CONFIG"

KeyOf == [db_user |-> "user", db_pass |-> "password",
          db_serv |-> "server", db_dbnm |-> "database"]

(* A setting that the configuration has ends up in its own parameter, also *)
(* when others are missing; and whoever gets a connection for browse has   *)
(* what key g uses without a look at it: gnuplot_file, gnuplotfound and    *)
(* datadir.                                                                *)
SettingsInPlace ==
  /\ mem["db_conn"] = "set" =>
       \A m \in DOMAIN KeyOf : KeyOf[m] \in env.keys => mem[m] = KeyOf[m]
  /\ connected /\ pc = "report" =>
       /\ mem["gnuplotfound"] = "set" /\ mem["datadir"] = "set"
       /\ mem["gnuplot_file"] = IF "gnuplotfile" \in env.keys THEN "gnuplotfile" ELSE "junk"
=============================================================================
