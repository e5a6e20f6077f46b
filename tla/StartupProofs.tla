---------------------------- MODULE StartupProofs ---------------------------
(***************************************************************************)
(* Proofs about Startup, for every set of configurations: on every way     *)
(* from the command line to the end, what is used that nobody set, what is *)
(* left, and where the settings go.                                        *)
(***************************************************************************)
EXTENDS Startup, SequenceTheorems, WellFoundedInduction, TLAPS

(* The places of main, in the order it comes to them.                      *)
Early     == {"parse", "dirs", "find", "crashed"}
Reading   == {"graph", "db", "destroy"}
BeforeRun == Early \cup Reading \cup {"wipe", "run"}
Late      == {"run", "report", "free_params", "free_locals", "exited"}
Places    == BeforeRun \cup Late

(* What loadconfig sets.                                                   *)
Settings == DbParams \cup {"gnuplot_file", "gnuplot_bin"}

(* Only a browse or a play with -M has settings; it frees them.            *)
ParamsInv ==
  /\ pc = "parse" => \A m \in Params : mem[m] = "garbage"
  /\ pc \notin {"parse", "free_locals", "exited"} =>
       \A m \in Params :
         /\ mem[m] \notin {"garbage", "freed"}
         /\ m \in Settings => mem[m] = "null" \/ mysql \/ program_action = "browse"
  /\ pc \in {"free_locals", "exited"} => \A m \in Params : mem[m] \in {"null", "freed"}
  /\ pc = "graph" => program_action = "browse"
  /\ pc = "db" => mysql \/ program_action = "browse"

(* What is set of the locals of main.                                      *)
LocalsInv ==
  /\ pc # "exited" => mem["gs"] = "set" /\ mem["p"] = "set"
  /\ \A m \in SkippedDirs :
       /\ pc = "parse" => mem[m] = "garbage"
       /\ pc \in {"find", "wipe", "run", "report"} \cup Reading => mem[m] = "set"
       /\ pc \in {"free_params", "free_locals"} =>
            mem[m] = "set" \/ (args.info /\ mem[m] = "garbage")
  /\ pc \in Reading \cup {"wipe"} => mem["config_file_str"] \in {"null", "set"}
  /\ pc \in Early \cup Late => mem["config_file_str"] \in {"garbage", "null", "freed"}
  /\ pc \in Early => mem["cfg"] = "garbage"
  /\ pc \in Late \cup {"wipe"} => mem["cfg"] \in {"garbage", "freed"} \/ loaded = "E_BAD_CONFIG"
  /\ pc = "exited" =>
       \A m \in SkippedDirs \cup {"gs", "p"} : mem[m] \in {"freed", "null", "garbage"}

(* What key g needs.                                                       *)
Graphed ==
  /\ mem["gnuplotfound"] = "set" /\ mem["datadir"] = "set"
  /\ mem["gnuplot_file"] = IF "gnuplotfile" \in env.keys THEN "gnuplotfile" ELSE "junk"

(* A browse has a connection string, and so a connection, only if the      *)
(* graph section was read before.                                          *)
ConnectInv ==
  /\ pc \in BeforeRun => ~connected
  /\ pc \in {"dirs", "find", "graph", "db"} => mem["db_conn"] = "null"
  /\ pc = "db" /\ program_action = "browse" => Graphed
  /\ pc \in {"destroy", "wipe", "run"} /\ program_action = "browse" =>
       mem["db_conn"] = "null" \/ Graphed
  /\ pc = "report" => connected \/ mem["err"] # "garbage"

StartupInv ==
  /\ TypeOK /\ pc \in Places /\ ParamsInv /\ LocalsInv /\ ConnectInv
  /\ OnlyKnownMisuse /\ NothingLeft /\ SettingsInPlace

-----------------------------------------------------------------------------
(* A non-empty set of numbers up to n has a greatest one.                  *)
LEMMA GreatestUpTo ==
  ASSUME NEW n \in Nat, NEW S \in SUBSET (1 .. n), S # {}
  PROVE  \E k \in S : \A l \in S : l <= k
<1> DEFINE R == OpToRel(<, Nat)
           T == {n - k : k \in S}
<1>1. T \in SUBSET Nat /\ T # {}
  <2>1. \A k \in S : n - k \in Nat
    BY SMT
  <2>2. QED
    BY <2>1, Zenon
<1>2. \E t \in T : \A u \in T : ~(<<u, t>> \in R)
  <2>1. IsWellFoundedOn(R, Nat)
    BY NatLessThanWellFounded, Zenon
  <2> HIDE DEF R, T
  <2>2. QED
    BY <1>1, <2>1, WFMin, Zenon
<1>3. PICK t \in T : \A u \in T : ~(<<u, t>> \in R)
  BY <1>2, Zenon
<1>4. PICK k \in S : t = n - k
  BY Zenon
<1>5. ASSUME NEW l \in S
      PROVE  l <= k
  <2>1. <<n - l, n - k>> \notin R
    BY <1>3, <1>4, Zenon
  <2>2. ~(n - l < n - k)
    BY <2>1, SMT DEF OpToRel
  <2>3. QED
    BY <2>2, SMT
<1>6. QED
  BY <1>5, Zenon

(* What strdup copies: the last key looked up when it is there, else one   *)
(* before it, and from nowhere only when the first is missing.             *)
LEMMA TempIs ==
  ASSUME NEW n \in Nat \ {0}, NEW looked \in [1 .. n -> Keys]
  PROVE  /\ Temp(looked) \in Keys \cup {"junk"}
         /\ looked[n] \in env.keys => Temp(looked) = looked[n]
         /\ Temp(looked) = "junk" => looked[1] \notin env.keys
<1> DEFINE there == {k \in DOMAIN looked : looked[k] \in env.keys}
           found == CHOOSE k \in there : \A l \in there : l <= k
<1>1. there \in SUBSET (1 .. n)
  OBVIOUS
<1>2. ASSUME there # {}
      PROVE  /\ found \in there
             /\ \A l \in there : l <= found
             /\ Temp(looked) = looked[found]
  <2>1. \E k \in there : \A l \in there : l <= k
    BY <1>1, <1>2, GreatestUpTo
  <2>2. found \in there /\ \A l \in there : l <= found
    BY <2>1, Zenon
  <2>3. QED
    BY <1>2, <2>2, Zenon DEF Temp
<1>3. there = {} => Temp(looked) = "junk"
  BY Zenon DEF Temp
<1>4. "junk" \notin Keys
  BY DEF Keys, DbKeys
<1>5. looked[n] \in env.keys => n \in there
  OBVIOUS
<1>6. looked[1] \in env.keys => 1 \in there
  OBVIOUS
<1> HIDE DEF found
<1>7. CASE there = {}
  BY <1>3, <1>5, <1>6, <1>7
<1>8. CASE there # {}
  <2> HIDE DEF there
  <2>1. found \in 1 .. n /\ Temp(looked) = looked[found]
    BY <1>1, <1>2, <1>8
  <2>2. looked[n] \in env.keys => found = n
    BY <1>2, <1>5, <1>8, <2>1
  <2>3. QED
    BY <1>4, <2>1, <2>2
<1>9. QED
  BY <1>7, <1>8

Order == <<"user", "password", "server", "database">>

(* The five settings of the db section.                                    *)
LEMMA DbCopies ==
  \A k \in 1 .. 4 :
    /\ Temp(SubSeq(Order, 1, k)) \in Keys \cup {"junk"}
    /\ Order[k] \in env.keys => Temp(SubSeq(Order, 1, k)) = Order[k]
    /\ Temp(SubSeq(Order, 1, k)) = "junk" => "user" \notin env.keys
<1>1. /\ \A j \in 1 .. 4 : Order[j] \in Keys
      /\ Order[1] = "user"
  BY DEF Order, Keys, DbKeys
<1>2. TAKE k \in 1 .. 4
<1> DEFINE looked == SubSeq(Order, 1, k)
<1>3. /\ looked \in [1 .. k -> Keys]
      /\ looked[1] = "user" /\ looked[k] = Order[k]
  <2>1. \A j \in 1 .. k : Order[j] \in Keys
    BY <1>1
  <2>2. /\ looked \in Seq(Keys)
        /\ Len(looked) = IF 1 <= k THEN k - 1 + 1 ELSE 0
        /\ \A j \in 1 .. k - 1 + 1 : looked[j] = Order[1 + j - 1]
    <3>1. 1 \in Int /\ k \in Int
      OBVIOUS
    <3>2. QED
      BY <2>1, <3>1, SubSeqProperties
  <2> HIDE DEF looked
  <2>3. Len(looked) = k /\ \A j \in 1 .. k : looked[j] = Order[j]
    BY <2>2
  <2>4. QED
    BY <1>1, <2>2, <2>3
<1>4. k \in Nat \ {0}
  OBVIOUS
<1> HIDE DEF looked
<1>5. /\ Temp(looked) \in Keys \cup {"junk"}
      /\ looked[k] \in env.keys => Temp(looked) = looked[k]
      /\ Temp(looked) = "junk" => looked[1] \notin env.keys
  BY <1>3, <1>4, TempIs, Zenon
<1>6. QED
  BY <1>3, <1>5, Zenon DEF looked

-----------------------------------------------------------------------------
(* What single steps do to mem.                                            *)

(* The only setting of the graph section that is copied as it is.          *)
LEMMA GraphCopy ==
  Temp(<<"gnuplotfile">>) = IF "gnuplotfile" \in env.keys THEN "gnuplotfile" ELSE "junk"
<1> DEFINE looked == <<"gnuplotfile">>
<1>1. looked \in [1 .. 1 -> Keys] /\ looked[1] = "gnuplotfile"
  BY DEF Keys
<1>2. 1 \in Nat \ {0}
  OBVIOUS
<1> HIDE DEF looked
<1>3. looked[1] \in env.keys => Temp(looked) = looked[1]
  BY <1>1, <1>2, TempIs, Zenon
<1>4. looked[1] \notin env.keys => Temp(looked) = "junk"
  <2>1. SUFFICES ASSUME looked[1] \notin env.keys
                 PROVE  {k \in DOMAIN looked : looked[k] \in env.keys} = {}
    BY Zenon DEF Temp
  <2>2. DOMAIN looked = {1}
    BY <1>1
  <2>3. QED
    BY <2>1, <2>2, Zenon
<1>5. QED
  BY <1>1, <1>3, <1>4, Zenon DEF looked

(* loadconfig leaves in the graph settings what was there of them.         *)
LEMMA GraphEffect ==
  ASSUME TypeOK, GraphSettings
  PROVE  /\ pc = "graph" /\ pc' = "db"
         /\ UNCHANGED <<inputs, option, loaded, result>>
         /\ mem' \in [Memory -> Values]
         /\ \A m \in Memory \ {"gnuplot_file", "gnuplot_bin", "gnuplotfound"} : mem'[m] = mem[m]
         /\ mem'["gnuplot_file"] = IF "gnuplotfile" \in env.keys THEN "gnuplotfile" ELSE "junk"
         /\ mem'["gnuplot_bin"] = "set" /\ mem'["gnuplotfound"] = "set"
         /\ \A u \in misused' \ misused :
              u = <<"strdup", "gnuplot_file">> /\ "gnuplotfile" \notin env.keys
<1> DEFINE file == Temp(<<"gnuplotfile">>)
<1>1. /\ file = IF "gnuplotfile" \in env.keys THEN "gnuplotfile" ELSE "junk"
      /\ file \in Values
  BY GraphCopy DEF Values, Keys
<1>2. mem' = [mem EXCEPT !["gnuplot_file"] = file, !["gnuplot_bin"] = "set",
                        !["gnuplotfound"] = "set"]
  BY Zenon DEF GraphSettings
<1>3. misused' = misused \cup
        {<<"strdup", m>> : m \in {n \in {"gnuplot_file"} : file = "junk"}}
  <2>1. Copies([gnuplot_file |-> file])
    BY Zenon DEF GraphSettings
  <2> HIDE DEF file
  <2>2. QED
    BY <2>1 DEF Copies
<1>4. mem \in [Memory -> Values] /\ {"gnuplot_file", "gnuplot_bin", "gnuplotfound"} \subseteq Memory
  BY DEF TypeOK, Memory, Params, Flags
<1>5. "set" \in Values
  BY DEF Values
<1> HIDE DEF file
<1>6. /\ mem' \in [Memory -> Values]
      /\ \A m \in Memory \ {"gnuplot_file", "gnuplot_bin", "gnuplotfound"} : mem'[m] = mem[m]
      /\ mem'["gnuplot_file"] = file
      /\ mem'["gnuplot_bin"] = "set" /\ mem'["gnuplotfound"] = "set"
  BY <1>1, <1>2, <1>4, <1>5
<1>7. \A u \in misused' \ misused :
        u = <<"strdup", "gnuplot_file">> /\ "gnuplotfile" \notin env.keys
  BY <1>1, <1>3
<1>8. QED
  BY <1>1, <1>6, <1>7 DEF GraphSettings, Step

(* Each setting of the db section is its own, or one before it.            *)
LEMMA DbEffect ==
  ASSUME TypeOK, DbSettings(Order)
  PROVE  /\ pc = "db" /\ pc' = "destroy"
         /\ UNCHANGED <<inputs, option, loaded, result>>
         /\ mem' \in [Memory -> Values]
         /\ \A m \in Memory \ DbParams : mem'[m] = mem[m]
         /\ mem'["db_conn"] = "set"
         /\ \A m \in DOMAIN KeyOf :
              /\ mem'[m] \in Keys \cup {"junk"}
              /\ KeyOf[m] \in env.keys => mem'[m] = KeyOf[m]
         /\ \A u \in misused' \ misused :
              u[1] = "strdup" /\ "user" \notin env.keys /\ u[2] \in DbParams
<1> DEFINE T(k) == Temp(SubSeq(Order, 1, k))
           copy == [db_user |-> T(1), db_pass |-> T(2), db_serv |-> T(3), db_dbnm |-> T(4)]
<1>1. /\ \A k \in 1 .. 4 : T(k) \in Keys \cup {"junk"} /\ (T(k) = "junk" => "user" \notin env.keys)
      /\ \A k \in 1 .. 4 : Order[k] \in env.keys => T(k) = Order[k]
  BY DbCopies, Zenon
<1>2. Order = SubSeq(Order, 1, 4)
  BY DEF Order
<1>3. /\ mem' = [m \in Memory |-> IF m \in DOMAIN copy THEN copy[m]
                                  ELSE IF m = "db_conn" THEN "set" ELSE mem[m]]
      /\ Copies(copy)
  <2>1. T(4) = Temp(Order)
    BY <1>2, Zenon
  <2>2. QED
    BY <2>1, Zenon DEF DbSettings
<1> HIDE DEF T
<1>4. DOMAIN copy = DOMAIN KeyOf
  BY DEF KeyOf
<1>5. \A m \in DOMAIN copy :
        /\ copy[m] \in Keys \cup {"junk"}
        /\ copy[m] = "junk" => "user" \notin env.keys
        /\ KeyOf[m] \in env.keys => copy[m] = KeyOf[m]
  BY <1>1 DEF KeyOf, Order
<1>6. /\ DOMAIN copy \subseteq DbParams /\ "db_conn" \in DbParams
      /\ DbParams \subseteq Memory /\ "db_conn" \notin DOMAIN copy
  BY DEF DbParams, Memory, Params
<1> HIDE DEF copy
<1>7. mem \in [Memory -> Values] /\ Keys \cup {"junk", "set"} \subseteq Values
  BY DEF TypeOK, Values
<1>8. /\ mem' \in [Memory -> Values]
      /\ \A m \in Memory \ DbParams : mem'[m] = mem[m]
      /\ mem'["db_conn"] = "set"
      /\ \A m \in DOMAIN copy : mem'[m] = copy[m]
  BY <1>3, <1>5, <1>6, <1>7
<1>9. \A u \in misused' \ misused :
        u[1] = "strdup" /\ "user" \notin env.keys /\ u[2] \in DbParams
  <2>1. misused' = misused \cup {<<"strdup", m>> : m \in {n \in DOMAIN copy : copy[n] = "junk"}}
    BY <1>3, Zenon DEF Copies
  <2>2. QED
    BY <1>5, <1>6, <2>1
<1>10. QED
  BY <1>4, <1>5, <1>8, <1>9 DEF DbSettings, Step

(* A run of play or browse touches nothing but err.                        *)
LEMMA PlayEffect ==
  ASSUME TypeOK, Play
  PROVE  /\ pc = "run" /\ pc' = "report" /\ program_action = "play"
         /\ UNCHANGED <<inputs, option, loaded, connected, misused>>
         /\ ran' = "play"
         /\ mem' \in [Memory -> Values]
         /\ \A m \in Memory \ {"err"} : mem'[m] = mem[m]
         /\ mem'["err"] = "set"
<1>1. /\ mem \in [Memory -> Values] /\ "err" \in Memory /\ "set" \in Values
      /\ mem' = [mem EXCEPT !["err"] = "set"]
  BY DEF TypeOK, Memory, Flags, Values, Play
<1>2. QED
  BY <1>1 DEF Play, Step

LEMMA BrowseEffect ==
  ASSUME TypeOK, Browse
  PROVE  /\ pc = "run" /\ pc' = "report" /\ program_action = "browse"
         /\ UNCHANGED <<inputs, option, loaded, misused>>
         /\ ran' = "browse" /\ connected' \in BOOLEAN
         /\ mem' \in [Memory -> Values]
         /\ \A m \in Memory \ {"err"} : mem'[m] = mem[m]
         /\ connected' => mem["db_conn"] # "null"
         /\ ~connected' => mem'["err"] = "set"
<1> DEFINE e == IF connected' THEN mem["err"] ELSE "set"
<1>1. /\ mem \in [Memory -> Values] /\ "err" \in Memory /\ "set" \in Values
      /\ mem' = [mem EXCEPT !["err"] = e]
  BY DEF TypeOK, Memory, Flags, Values, Browse
<1>2. connected' \in BOOLEAN /\ (connected' => mem["db_conn"] # "null")
  BY Zenon DEF Browse
<1>3. e \in Values /\ (~connected' => e = "set")
  BY <1>1, <1>2
<1> HIDE DEF e
<1>4. QED
  BY <1>1, <1>2, <1>3 DEF Browse, Step

-----------------------------------------------------------------------------
(* Each part of the invariant is kept by every step.                       *)

(* No step leaves the types, and no parameter is garbage once it was       *)
(* parsed.                                                                 *)
LEMMA TypeStep ==
  ASSUME StartupInv, [Next]_vars
  PROVE  TypeOK'
<1> USE DEF StartupInv, inputs, option, result, TypeOK, Values, Memory, Locals, Flags,
        Params, DbParams, Keys, DbKeys
<1>1. CASE ParseArgs
  BY <1>1, SMTT(30) DEF ParseArgs, ParseThen, Step, Plays, Browses
<1>2. CASE CreateDirs
  BY <1>2, SMTT(30) DEF CreateDirs, Step, Assign
<1>3. CASE ReadConfig
  BY <1>3, SMTT(30) DEF ReadConfig, Step
<1>4. CASE GraphSettings
  BY <1>4, GraphEffect, SMTT(30)
<1>5. CASE NoGraph
  BY <1>5, SMTT(30) DEF NoGraph, BadConfig, Step
<1>6. CASE DbSettings(Order)
  BY <1>6, DbEffect, SMTT(30) DEF KeyOf
<1>7. CASE NoDb
  BY <1>7, SMTT(30) DEF NoDb, BadConfig, Step
<1>8. CASE DestroyConfig
  BY <1>8, SMTT(30) DEF DestroyConfig, Step
<1>9. CASE Wipe
  BY <1>9, SMTT(30) DEF Wipe, Step, Frees, Misuse
<1>10. CASE Play
  BY <1>10, PlayEffect, SMTT(30)
<1>11. CASE Browse
  BY <1>11, BrowseEffect, SMTT(30)
<1>12. CASE ReportErr
  BY <1>12, SMTT(30) DEF ReportErr, Step, Misuse
<1>13. CASE FreeParams
  BY <1>13, SMTT(30) DEF FreeParams, FreeParamsIf, Step, Frees, Misuse
<1>14. CASE FreeLocals
  BY <1>14, SMTT(30) DEF FreeLocals, Step, Frees, Misuse
<1>15. CASE Ended
  BY <1>15, SMTT(30) DEF Ended, vars, inputs, option, result
<1>16. CASE UNCHANGED vars
  BY <1>16 DEF vars
<1>17. QED
  BY <1>1, <1>2, <1>3, <1>4, <1>5, <1>6, <1>7, <1>8, <1>9, <1>10, <1>11, <1>12, <1>13,
       <1>14, <1>15, <1>16 DEF Next, LoadGraph, LoadDb, Order

(* main is at one of its places.                                           *)
LEMMA PlacesStep ==
  ASSUME StartupInv, [Next]_vars
  PROVE  (pc \in Places)'
<1> USE DEF StartupInv, inputs, option, result, TypeOK, Early, Reading, BeforeRun, Late, Places
<1>1. CASE ParseArgs
  BY <1>1, SMTT(30) DEF ParseArgs, ParseThen, Step, Plays, Browses
<1>2. CASE CreateDirs
  BY <1>2, SMTT(30) DEF CreateDirs, Step, Assign
<1>3. CASE ReadConfig
  BY <1>3, SMTT(30) DEF ReadConfig, Step
<1>4. CASE GraphSettings
  BY <1>4, GraphEffect, SMTT(30)
<1>5. CASE NoGraph
  BY <1>5, SMTT(30) DEF NoGraph, BadConfig, Step
<1>6. CASE DbSettings(Order)
  BY <1>6, DbEffect, SMTT(30) DEF KeyOf
<1>7. CASE NoDb
  BY <1>7, SMTT(30) DEF NoDb, BadConfig, Step
<1>8. CASE DestroyConfig
  BY <1>8, SMTT(30) DEF DestroyConfig, Step
<1>9. CASE Wipe
  BY <1>9, SMTT(30) DEF Wipe, Step, Frees, Misuse
<1>10. CASE Play
  BY <1>10, PlayEffect, SMTT(30)
<1>11. CASE Browse
  BY <1>11, BrowseEffect, SMTT(30)
<1>12. CASE ReportErr
  BY <1>12, SMTT(30) DEF ReportErr, Step, Misuse
<1>13. CASE FreeParams
  BY <1>13, SMTT(30) DEF FreeParams, FreeParamsIf, Step, Frees, Misuse
<1>14. CASE FreeLocals
  BY <1>14, SMTT(30) DEF FreeLocals, Step, Frees, Misuse
<1>15. CASE Ended
  BY <1>15, SMTT(30) DEF Ended, vars, inputs, option, result
<1>16. CASE UNCHANGED vars
  BY <1>16 DEF vars
<1>17. QED
  BY <1>1, <1>2, <1>3, <1>4, <1>5, <1>6, <1>7, <1>8, <1>9, <1>10, <1>11, <1>12, <1>13,
       <1>14, <1>15, <1>16 DEF Next, LoadGraph, LoadDb, Order

(* Parameters: parsed, set by loadconfig only for a browse or a play with  *)
(* -M, and freed once.                                                     *)
LEMMA ParamsStep ==
  ASSUME StartupInv, [Next]_vars
  PROVE  ParamsInv'
<1> USE DEF StartupInv, inputs, option, result, TypeOK, ParamsInv, Settings, Values, Memory,
        Locals, Flags, Params, DbParams, Keys, DbKeys
<1>1. CASE ParseArgs
  BY <1>1, SMTT(30) DEF ParseArgs, ParseThen, Step, Plays, Browses
<1>2. CASE CreateDirs
  BY <1>2, SMTT(30) DEF CreateDirs, Step, Assign
<1>3. CASE ReadConfig
  BY <1>3, SMTT(30) DEF ReadConfig, Step
<1>4. CASE GraphSettings
  BY <1>4, GraphEffect, SMTT(30)
<1>5. CASE NoGraph
  BY <1>5, SMTT(30) DEF NoGraph, BadConfig, Step
<1>6. CASE DbSettings(Order)
  BY <1>6, DbEffect, SMTT(30) DEF KeyOf
<1>7. CASE NoDb
  BY <1>7, SMTT(30) DEF NoDb, BadConfig, Step
<1>8. CASE DestroyConfig
  BY <1>8, SMTT(30) DEF DestroyConfig, Step
<1>9. CASE Wipe
  BY <1>9, SMTT(30) DEF Wipe, Step, Frees, Misuse
<1>10. CASE Play
  BY <1>10, PlayEffect, SMTT(30)
<1>11. CASE Browse
  BY <1>11, BrowseEffect, SMTT(30)
<1>12. CASE ReportErr
  BY <1>12, SMTT(30) DEF ReportErr, Step, Misuse
<1>13. CASE FreeParams
  BY <1>13, SMTT(30) DEF FreeParams, FreeParamsIf, Step, Frees, Misuse
<1>14. CASE FreeLocals
  BY <1>14, SMTT(30) DEF FreeLocals, Step, Frees, Misuse
<1>15. CASE Ended
  BY <1>15, SMTT(30) DEF Ended, vars, inputs, option, result
<1>16. CASE UNCHANGED vars
  BY <1>16 DEF vars
<1>17. QED
  BY <1>1, <1>2, <1>3, <1>4, <1>5, <1>6, <1>7, <1>8, <1>9, <1>10, <1>11, <1>12, <1>13,
       <1>14, <1>15, <1>16 DEF Next, LoadGraph, LoadDb, Order

(* The locals of main: set before they are used, on the ways that do not   *)
(* jump over them.                                                         *)
LEMMA LocalsStep ==
  ASSUME StartupInv, [Next]_vars
  PROVE  LocalsInv'
<1> USE DEF StartupInv, inputs, option, result, TypeOK, LocalsInv, SkippedDirs, Values,
        Memory, Locals, Flags, Params, DbParams, Keys, DbKeys, Early, Reading, BeforeRun,
        Late, Places
<1>1. CASE ParseArgs
  BY <1>1, SMTT(30) DEF ParseArgs, ParseThen, Step, Plays, Browses
<1>2. CASE CreateDirs
  BY <1>2, SMTT(30) DEF CreateDirs, Step, Assign
<1>3. CASE ReadConfig
  BY <1>3, SMTT(30) DEF ReadConfig, Step
<1>4. CASE GraphSettings
  BY <1>4, GraphEffect, SMTT(30)
<1>5. CASE NoGraph
  BY <1>5, SMTT(30) DEF NoGraph, BadConfig, Step
<1>6. CASE DbSettings(Order)
  BY <1>6, DbEffect, SMTT(30) DEF KeyOf
<1>7. CASE NoDb
  BY <1>7, SMTT(30) DEF NoDb, BadConfig, Step
<1>8. CASE DestroyConfig
  BY <1>8, SMTT(30) DEF DestroyConfig, Step
<1>9. CASE Wipe
  BY <1>9, SMTT(30) DEF Wipe, Step, Frees, Misuse
<1>10. CASE Play
  BY <1>10, PlayEffect, SMTT(30)
<1>11. CASE Browse
  BY <1>11, BrowseEffect, SMTT(30)
<1>12. CASE ReportErr
  BY <1>12, SMTT(30) DEF ReportErr, Step, Misuse
<1>13. CASE FreeParams
  BY <1>13, SMTT(30) DEF FreeParams, FreeParamsIf, Step, Frees, Misuse
<1>14. CASE FreeLocals
  BY <1>14, SMTT(30) DEF FreeLocals, Step, Frees, Misuse
<1>15. CASE Ended
  BY <1>15, SMTT(30) DEF Ended, vars, inputs, option, result
<1>16. CASE UNCHANGED vars
  BY <1>16 DEF vars
<1>17. QED
  BY <1>1, <1>2, <1>3, <1>4, <1>5, <1>6, <1>7, <1>8, <1>9, <1>10, <1>11, <1>12, <1>13,
       <1>14, <1>15, <1>16 DEF Next, LoadGraph, LoadDb, Order

(* A connection string comes from loadconfig, which reads the graph        *)
(* section before it for a browse.                                         *)
LEMMA ConnectStep ==
  ASSUME StartupInv, [Next]_vars
  PROVE  ConnectInv'
<1> USE DEF StartupInv, inputs, option, result, TypeOK, ConnectInv, Graphed, BeforeRun,
        Early, Reading, ParamsInv, LocalsInv, SkippedDirs, Values, Memory, Locals, Flags,
        Params, DbParams, Keys, DbKeys
<1>1. CASE ParseArgs
  BY <1>1, SMTT(30) DEF ParseArgs, ParseThen, Step, Plays, Browses
<1>2. CASE CreateDirs
  BY <1>2, SMTT(30) DEF CreateDirs, Step, Assign
<1>3. CASE ReadConfig
  BY <1>3, SMTT(30) DEF ReadConfig, Step
<1>4. CASE GraphSettings
  BY <1>4, GraphEffect, SMTT(30)
<1>5. CASE NoGraph
  BY <1>5, SMTT(30) DEF NoGraph, BadConfig, Step
<1>6. CASE DbSettings(Order)
  BY <1>6, DbEffect, SMTT(30) DEF KeyOf
<1>7. CASE NoDb
  BY <1>7, SMTT(30) DEF NoDb, BadConfig, Step
<1>8. CASE DestroyConfig
  BY <1>8, SMTT(30) DEF DestroyConfig, Step
<1>9. CASE Wipe
  BY <1>9, SMTT(30) DEF Wipe, Step, Frees, Misuse
<1>10. CASE Play
  BY <1>10, PlayEffect, SMTT(30)
<1>11. CASE Browse
  BY <1>11, BrowseEffect, SMTT(30)
<1>12. CASE ReportErr
  BY <1>12, SMTT(30) DEF ReportErr, Step, Misuse
<1>13. CASE FreeParams
  BY <1>13, SMTT(30) DEF FreeParams, FreeParamsIf, Step, Frees, Misuse
<1>14. CASE FreeLocals
  BY <1>14, SMTT(30) DEF FreeLocals, Step, Frees, Misuse
<1>15. CASE Ended
  BY <1>15, SMTT(30) DEF Ended, vars, inputs, option, result
<1>16. CASE UNCHANGED vars
  BY <1>16 DEF vars
<1>17. QED
  BY <1>1, <1>2, <1>3, <1>4, <1>5, <1>6, <1>7, <1>8, <1>9, <1>10, <1>11, <1>12, <1>13,
       <1>14, <1>15, <1>16 DEF Next, LoadGraph, LoadDb, Order

(* The misuses listed are the only ones: what a step frees, reads or       *)
(* copies is set, but for those.                                           *)
LEMMA MisuseStep ==
  ASSUME StartupInv, [Next]_vars
  PROVE  OnlyKnownMisuse'
<1> USE DEF StartupInv, inputs, option, result, TypeOK, OnlyKnownMisuse, ConnectInv,
        BeforeRun, ParamsInv, LocalsInv, SkippedDirs, Values, Memory, Locals, Flags, Params,
        DbParams, Keys, DbKeys
<1>1. CASE ParseArgs
  BY <1>1, SMTT(30) DEF ParseArgs, ParseThen, Step, Plays, Browses
<1>2. CASE CreateDirs
  BY <1>2, SMTT(30) DEF CreateDirs, Step, Assign
<1>3. CASE ReadConfig
  BY <1>3, SMTT(30) DEF ReadConfig, Step
<1>4. CASE GraphSettings
  BY <1>4, GraphEffect, SMTT(30)
<1>5. CASE NoGraph
  BY <1>5, SMTT(30) DEF NoGraph, BadConfig, Step
<1>6. CASE DbSettings(Order)
  BY <1>6, DbEffect, SMTT(30) DEF KeyOf
<1>7. CASE NoDb
  BY <1>7, SMTT(30) DEF NoDb, BadConfig, Step
<1>8. CASE DestroyConfig
  BY <1>8, SMTT(30) DEF DestroyConfig, Step
<1>9. CASE Wipe
  BY <1>9, SMTT(30) DEF Wipe, Step, Frees, Misuse
<1>10. CASE Play
  BY <1>10, PlayEffect, SMTT(30)
<1>11. CASE Browse
  BY <1>11, BrowseEffect, SMTT(30)
<1>12. CASE ReportErr
  BY <1>12, SMTT(30) DEF ReportErr, Step, Misuse
<1>13. CASE FreeParams
  BY <1>13, SMTT(30) DEF FreeParams, FreeParamsIf, Step, Frees, Misuse
<1>14. CASE FreeLocals
  BY <1>14, SMTT(30) DEF FreeLocals, Step, Frees, Misuse
<1>15. CASE Ended
  BY <1>15, SMTT(30) DEF Ended, vars, inputs, option, result
<1>16. CASE UNCHANGED vars
  BY <1>16 DEF vars
<1>17. QED
  BY <1>1, <1>2, <1>3, <1>4, <1>5, <1>6, <1>7, <1>8, <1>9, <1>10, <1>11, <1>12, <1>13,
       <1>14, <1>15, <1>16 DEF Next, LoadGraph, LoadDb, Order

(* Only FreeLocals comes to the end; all was freed before it or by it.     *)
LEMMA LeftStep ==
  ASSUME StartupInv, [Next]_vars
  PROVE  NothingLeft'
<1> USE DEF StartupInv, inputs, option, result, TypeOK, NothingLeft, ParamsInv, LocalsInv,
        SkippedDirs, Values, Memory, Locals, Flags, Params, DbParams, Keys, DbKeys, Early,
        Reading, BeforeRun, Late, Places
<1>1. CASE ParseArgs
  BY <1>1, SMTT(30) DEF ParseArgs, ParseThen, Step, Plays, Browses
<1>2. CASE CreateDirs
  BY <1>2, SMTT(30) DEF CreateDirs, Step, Assign
<1>3. CASE ReadConfig
  BY <1>3, SMTT(30) DEF ReadConfig, Step
<1>4. CASE GraphSettings
  BY <1>4, GraphEffect, SMTT(30)
<1>5. CASE NoGraph
  BY <1>5, SMTT(30) DEF NoGraph, BadConfig, Step
<1>6. CASE DbSettings(Order)
  BY <1>6, DbEffect, SMTT(30) DEF KeyOf
<1>7. CASE NoDb
  BY <1>7, SMTT(30) DEF NoDb, BadConfig, Step
<1>8. CASE DestroyConfig
  BY <1>8, SMTT(30) DEF DestroyConfig, Step
<1>9. CASE Wipe
  BY <1>9, SMTT(30) DEF Wipe, Step, Frees, Misuse
<1>10. CASE Play
  BY <1>10, PlayEffect, SMTT(30)
<1>11. CASE Browse
  BY <1>11, BrowseEffect, SMTT(30)
<1>12. CASE ReportErr
  BY <1>12, SMTT(30) DEF ReportErr, Step, Misuse
<1>13. CASE FreeParams
  BY <1>13, SMTT(30) DEF FreeParams, FreeParamsIf, Step, Frees, Misuse
<1>14. CASE FreeLocals
  BY <1>14, SMTT(30) DEF FreeLocals, Step, Frees, Misuse
<1>15. CASE Ended
  BY <1>15, SMTT(30) DEF Ended, vars, inputs, option, result
<1>16. CASE UNCHANGED vars
  BY <1>16 DEF vars
<1>17. QED
  BY <1>1, <1>2, <1>3, <1>4, <1>5, <1>6, <1>7, <1>8, <1>9, <1>10, <1>11, <1>12, <1>13,
       <1>14, <1>15, <1>16 DEF Next, LoadGraph, LoadDb, Order

(* A setting goes to its own place, and stays there until all are freed.   *)
LEMMA SettingsStep ==
  ASSUME StartupInv, [Next]_vars
  PROVE  SettingsInPlace'
<1> USE DEF StartupInv, inputs, option, result, TypeOK, SettingsInPlace, KeyOf, ConnectInv,
        BeforeRun, Graphed, ParamsInv, Values, Memory, Locals, Flags, Params, DbParams,
        Keys, DbKeys
<1>1. CASE ParseArgs
  BY <1>1, SMTT(30) DEF ParseArgs, ParseThen, Step, Plays, Browses
<1>2. CASE CreateDirs
  BY <1>2, SMTT(30) DEF CreateDirs, Step, Assign
<1>3. CASE ReadConfig
  BY <1>3, SMTT(30) DEF ReadConfig, Step
<1>4. CASE GraphSettings
  BY <1>4, GraphEffect, SMTT(30)
<1>5. CASE NoGraph
  BY <1>5, SMTT(30) DEF NoGraph, BadConfig, Step
<1>6. CASE DbSettings(Order)
  BY <1>6, DbEffect, SMTT(30) DEF KeyOf
<1>7. CASE NoDb
  BY <1>7, SMTT(30) DEF NoDb, BadConfig, Step
<1>8. CASE DestroyConfig
  BY <1>8, SMTT(30) DEF DestroyConfig, Step
<1>9. CASE Wipe
  BY <1>9, SMTT(30) DEF Wipe, Step, Frees, Misuse
<1>10. CASE Play
  BY <1>10, PlayEffect, SMTT(30)
<1>11. CASE Browse
  BY <1>11, BrowseEffect, SMTT(30)
<1>12. CASE ReportErr
  BY <1>12, SMTT(30) DEF ReportErr, Step, Misuse
<1>13. CASE FreeParams
  BY <1>13, SMTT(30) DEF FreeParams, FreeParamsIf, Step, Frees, Misuse
<1>14. CASE FreeLocals
  BY <1>14, SMTT(30) DEF FreeLocals, Step, Frees, Misuse
<1>15. CASE Ended
  BY <1>15, SMTT(30) DEF Ended, vars, inputs, option, result
<1>16. CASE UNCHANGED vars
  BY <1>16 DEF vars
<1>17. QED
  BY <1>1, <1>2, <1>3, <1>4, <1>5, <1>6, <1>7, <1>8, <1>9, <1>10, <1>11, <1>12, <1>13,
       <1>14, <1>15, <1>16 DEF Next, LoadGraph, LoadDb, Order

-----------------------------------------------------------------------------
(* StartupInv is an invariant: it holds of every command line and every    *)
(* configuration, and every step of main keeps it.                         *)
THEOREM StartupInvariant == Spec => []StartupInv
<1>1. Init => StartupInv
  <2> SUFFICES ASSUME Init
               PROVE  StartupInv
    OBVIOUS
  <2>1. TypeOK
    BY DEF Init, TypeOK, Values
  <2>2. \A m \in Params : mem[m] = "garbage"
    BY DEF Init, Memory, Params, DbParams
  <2>3. /\ mem["gs"] = "set" /\ mem["p"] = "set"
        /\ \A m \in SkippedDirs \cup {"cfg", "config_file_str"} : mem[m] = "garbage"
    BY DEF Init, Memory, Locals, SkippedDirs
  <2>4. pc = "parse" /\ misused = {} /\ ~connected
    BY DEF Init
  <2>5. mem["db_conn"] = "garbage"
    BY <2>2 DEF Params, DbParams
  <2>6. pc \in Places /\ ParamsInv /\ LocalsInv
    BY <2>2, <2>3, <2>4 DEF ParamsInv, LocalsInv, Places, BeforeRun, Early, Reading, Late
  <2>7. ConnectInv /\ OnlyKnownMisuse /\ NothingLeft /\ SettingsInPlace
    BY <2>4, <2>5 DEF ConnectInv, OnlyKnownMisuse, NothingLeft, SettingsInPlace
  <2>8. QED
    BY <2>1, <2>6, <2>7 DEF StartupInv
<1>2. StartupInv /\ [Next]_vars => StartupInv'
  <2> SUFFICES ASSUME StartupInv, [Next]_vars
               PROVE  StartupInv'
    OBVIOUS
  <2>1. TypeOK' /\ (pc \in Places)'
    BY TypeStep, PlacesStep
  <2>2. ParamsInv' /\ LocalsInv' /\ ConnectInv'
    BY ParamsStep, LocalsStep, ConnectStep
  <2>3. OnlyKnownMisuse' /\ NothingLeft' /\ SettingsInPlace'
    BY MisuseStep, LeftStep, SettingsStep
  <2>4. QED
    BY <2>1, <2>2, <2>3 DEF StartupInv
<1>3. QED
  BY <1>1, <1>2, PTL DEF Spec

(* Start-up uses nothing that nobody set and frees nothing twice, but for  *)
(* the directories after --help and --version, err after a browse that     *)
(* worked, and a first key that is missing from its section.               *)
THEOREM MisuseCorrect == Spec => []OnlyKnownMisuse
<1>1. StartupInv => OnlyKnownMisuse
  BY DEF StartupInv
<1>2. QED
  BY <1>1, StartupInvariant, PTL

(* On every way through main, freeparams and main free what was set; a bad *)
(* configuration leaves what libconfig read.                               *)
THEOREM LeftCorrect == Spec => []NothingLeft
<1>1. StartupInv => NothingLeft
  BY DEF StartupInv
<1>2. QED
  BY <1>1, StartupInvariant, PTL

(* A setting that is there ends in its own parameter, and a browse that is *)
(* connected has what key g needs.                                         *)
THEOREM SettingsCorrect == Spec => []SettingsInPlace
<1>1. StartupInv => SettingsInPlace
  BY DEF StartupInv
<1>2. QED
  BY <1>1, StartupInvariant, PTL

=============================================================================
