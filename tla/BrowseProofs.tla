---------------------------- MODULE BrowseProofs ----------------------------
(***************************************************************************)
(* What the browse loop shows, marks and labels, for any number of rows.   *)
(***************************************************************************)
EXTENDS BrowseLoop, FiniteSetTheorems, SequenceTheorems, TLAPS

Of(table, parent) == {i \in DOMAIN table : table[i] = parent}

(* The rows of a list that the loop looks at.                              *)
Listed(s) == {rows[s][i] : i \in 1 .. results[s]}

(* The keys of the tables: every stint has a session, every lap a stint.   *)
TablesInv ==
  /\ \A i \in DOMAIN stints : stints[i] \in 1 .. nsessions
  /\ \A i \in DOMAIN laps : laps[i] \in 1 .. Len(stints)

(* What a row of a list is: a session that has a stint, a stint, a lap.    *)
IsRow(s, r) ==
  /\ s = SESSIONS_SCREEN => r \in 1 .. nsessions /\ Of(stints, r) # {}
  /\ s = STINTS_SCREEN   => r \in DOMAIN stints
  /\ s = LAPS_SCREEN     => r \in DOMAIN laps

(* Lists are as long as they say, until a query fails; then the loop ends. *)
ListsInv ==
  /\ go => \A s \in Screens : results[s] = Len(rows[s])
  /\ ~go => pc \in {"key", "ended"}
  /\ \A s \in Screens : results[s] <= Len(rows[s])
  /\ \A s \in Screens : \A r \in Listed(s) : IsRow(s, r)

(* At a key all that was asked for is done.                                *)
TurnInv == pc = "key" => action = 0 /\ lastselection = selection

Loading(act) == pc = "show" /\ action = act /\ lastselection = selection

(* The stint that was opened is of the session that was opened.            *)
Belongs ==
  \/ stint_useid = 0 /\ lap_useid = 0
  \/ lap_useid \in DOMAIN stints /\ stints[lap_useid] = stint_useid

StintsBelong == \A s \in Listed(STINTS_SCREEN) : stints[s] = stint_useid

LapsBelong ==
  /\ \A l \in Listed(LAPS_SCREEN) : laps[l] = lap_useid
  /\ results[LAPS_SCREEN] <= Cardinality(Of(laps, lap_useid))

(* The remembered ids, and the lists below them, on the screens that use   *)
(* them.                                                                   *)
IdsInv ==
  /\ stint_useid = 0 => lap_useid = 0
  /\ stint_useid # 0 => Of(stints, stint_useid) # {}
  /\ screen = STINTS_SCREEN /\ pc # "ended" /\ go
       => (Loading(3) /\ selection = 1) \/ (Belongs /\ StintsBelong)
  /\ screen = LAPS_SCREEN /\ pc # "ended"
       => Belongs /\ ((Loading(4) /\ selection = 1) \/ LapsBelong)

(* What is drawn when the selection is in the list that is shown.          *)
Selected ==
  /\ curresults = results[screen]
  /\ IF results[screen] > 0 THEN selection \in 1 .. results[screen] ELSE selection = 1

Highlighted ==
  highlight = IF results[screen] > 0 THEN rows[screen][selection] ELSE 0

(* As long as no unchecked key was pressed: at a key the selected row is   *)
(* shown; before, it will be.                                              *)
ShownInv ==
  ~strayed =>
    /\ pc = "key" /\ ~go => highlight = 0
    /\ pc = "key" /\ go => Selected /\ Highlighted
    /\ pc \in {"connect", "show"} =>
         \/ selection = 1 /\ lastselection = 1 /\ action = screen + 1
         \/ /\ Selected
            /\ \/ action = 0 /\ (lastselection = selection => Highlighted)
               \/ action = 1 /\ lastselection = selection
               \/ action = 4 /\ lastselection = selection /\ screen = LAPS_SCREEN

(* A mark that was just set is in the list that will be drawn.             *)
JustMarked ==
  /\ pc = "show" /\ screen = LAPS_SCREEN /\ action = 1 /\ marks[1] # marks[2]
  /\ \/ marks[1] \in Listed(LAPS_SCREEN) /\ labels[2] = marks[2]
     \/ marks[2] \in Listed(LAPS_SCREEN) /\ labels[1] = marks[1]

LabelsInv == ~strayed /\ pc # "ended" /\ go => labels = marks \/ JustMarked

BrowseInv ==
  /\ TypeOK /\ TablesInv /\ ListsInv /\ TurnInv /\ IdsInv /\ ShownInv /\ LabelsInv

-----------------------------------------------------------------------------
(* Lists.                                                                  *)

LEMMA ListFacts ==
  ASSUME NEW S, NEW n \in Nat, NEW q \in [1 .. n -> S]
  PROVE  q \in Seq(S) /\ Len(q) = n /\ DOMAIN q = 1 .. n
<1>1. q \in Seq(S)
  BY SeqDef, Zenon
<1>2. QED
  BY <1>1, LenProperties, SMT

(* The rows of a table that have a parent.                                 *)
LEMMA OfFacts ==
  ASSUME NEW table \in Seq(Nat), NEW parent
  PROVE  /\ IsFiniteSet(Of(table, parent))
         /\ Cardinality(Of(table, parent)) \in Nat
         /\ Cardinality(Of(table, parent)) = 0 <=> Of(table, parent) = {}
<1>1. IsFiniteSet(1 .. Len(table)) /\ DOMAIN table = 1 .. Len(table)
  BY FS_Interval, LenProperties, SMT
<1>2. IsFiniteSet(Of(table, parent))
  BY <1>1, FS_Subset, Of(table, parent) \subseteq DOMAIN table DEF Of
<1>3. QED
  BY <1>2, FS_CardinalityType, FS_EmptySet

(* A query for children gives all of them and nothing else.                *)
LEMMA ChildrenFacts ==
  ASSUME NEW table \in Seq(Nat), NEW parent, NEW q \in Children(table, parent)
  PROVE  /\ q \in Seq(Nat)
         /\ Len(q) = Cardinality(Of(table, parent))
         /\ \A i \in 1 .. Len(q) : q[i] \in Of(table, parent)
<1> DEFINE n == Cardinality(Of(table, parent))
<1>1. n \in Nat
  BY OfFacts, Zenon
<1>2. q \in [1 .. n -> Of(table, parent)]
  BY Zenon DEF Children, SetToSeqs, Of
<1>3. DOMAIN table = 1 .. Len(table) /\ Len(table) \in Nat
  BY LenProperties, Zenon
<1>4. Of(table, parent) \subseteq Nat
  BY <1>3, SMT DEF Of
<1>5. q \in [1 .. n -> Nat]
  BY <1>2, <1>4, Zenon
<1> HIDE DEF n
<1>6. QED
  BY <1>1, <1>2, <1>5, ListFacts, Zenon DEF n

(* The query for sessions gives sessions that have a stint.                *)
LEMMA SessionsFacts ==
  ASSUME nsessions \in Nat, NEW q \in getsessions
  PROVE  /\ q \in Seq(Nat)
         /\ \A i \in 1 .. Len(q) : q[i] \in 1 .. nsessions /\ Of(stints, q[i]) # {}
<1> DEFINE sessions == {s \in 1 .. nsessions : \E i \in DOMAIN stints : stints[i] = s}
           listed == {s \in sessions : Cardinality({t \in sessions : t > s}) < Limit}
           n == Cardinality(listed)
<1>1. IsFiniteSet(1 .. nsessions)
  BY FS_Interval, SMT
<1>2. listed \subseteq 1 .. nsessions
  OBVIOUS
<1>3. n \in Nat
  BY <1>1, <1>2, FS_Subset, FS_CardinalityType, Zenon
<1>4. q \in [1 .. n -> listed]
  BY Zenon DEF getsessions, NewestFirst, SetToSeqs
<1>5. q \in Seq(listed) /\ Len(q) = n
  BY <1>3, <1>4, ListFacts, Zenon
<1>6. listed \subseteq Nat
  BY <1>2, SMT
<1>7. q \in [1 .. n -> Nat]
  BY <1>4, <1>6, Zenon
<1>8. q \in Seq(Nat)
  BY <1>3, <1>7, ListFacts, Zenon
<1>9. \A s \in listed : s \in 1 .. nsessions /\ Of(stints, s) # {}
  BY Zenon DEF Of
<1>10. \A i \in 1 .. n : q[i] \in listed
  BY <1>4, Zenon
<1> HIDE DEF listed, n
<1>11. QED
  BY <1>5, <1>8, <1>9, <1>10, Zenon

-----------------------------------------------------------------------------
(* The recorder of another process only adds.                              *)

Recording == RecordSession \/ RecordStint \/ RecordLap

LEMMA AppendFacts ==
  ASSUME NEW table \in Seq(Nat), NEW e \in Nat
  PROVE  /\ Append(table, e) \in Seq(Nat)
         /\ Len(Append(table, e)) = Len(table) + 1
         /\ DOMAIN table = 1 .. Len(table)
         /\ DOMAIN Append(table, e) = 1 .. Len(table) + 1
         /\ \A i \in DOMAIN table : Append(table, e)[i] = table[i]
         /\ Append(table, e)[Len(table) + 1] = e
  BY AppendProperties, LenProperties, SMT

Extends(table, next) ==
  /\ DOMAIN table \subseteq DOMAIN next
  /\ \A i \in DOMAIN table : next[i] = table[i]

LEMMA ExtendsFacts ==
  ASSUME NEW table \in Seq(Nat), NEW next \in Seq(Nat), Extends(table, next), NEW parent
  PROVE  /\ Of(table, parent) \subseteq Of(next, parent)
         /\ Cardinality(Of(table, parent)) <= Cardinality(Of(next, parent))
<1>1. Of(table, parent) \subseteq Of(next, parent)
  BY Zenon DEF Of, Extends
<1>2. QED
  BY <1>1, OfFacts, FS_Subset, FS_CardinalityType, Zenon

LEMMA RecordingFacts ==
  ASSUME TypeOK, TablesInv, Recording
  PROVE  /\ UNCHANGED loop
         /\ nsessions' \in Nat /\ nsessions <= nsessions'
         /\ stints' \in Seq(Nat) /\ laps' \in Seq(Nat)
         /\ Len(stints) <= Len(stints') /\ Len(stints) \in Nat /\ Len(stints') \in Nat
         /\ Extends(stints, stints') /\ Extends(laps, laps')
         /\ TablesInv'
<1>1. CASE RecordSession
  BY <1>1, LenProperties, SMT DEF RecordSession, TypeOK, TablesInv, Extends
<1>2. CASE RecordStint
  <2>1. stints' = Append(stints, nsessions) /\ nsessions \in Nat /\ nsessions > 0
    BY <1>2, SMT DEF RecordStint, TypeOK
  <2>2. UNCHANGED <<nsessions, laps, loop>>
    BY <1>2, Zenon DEF RecordStint
  <2>3. stints \in Seq(Nat) /\ Len(stints) \in Nat /\ laps \in Seq(Nat)
    BY LenProperties, Zenon DEF TypeOK
  <2>4. /\ stints' \in Seq(Nat) /\ Len(stints') = Len(stints) + 1
        /\ Extends(stints, stints') /\ DOMAIN stints' = 1 .. Len(stints) + 1
        /\ stints'[Len(stints) + 1] = nsessions
    BY <2>1, <2>3, AppendFacts, SMT DEF Extends
  <2>5. \A i \in DOMAIN stints' : stints'[i] \in 1 .. nsessions
    BY <2>1, <2>3, <2>4, LenProperties, SMT DEF Extends, TablesInv
  <2>6. \A i \in DOMAIN laps : laps[i] \in 1 .. Len(stints')
    BY <2>3, <2>4, SMT DEF TablesInv
  <2>7. QED
    BY <2>1, <2>2, <2>3, <2>4, <2>5, <2>6, SMT DEF TablesInv, Extends
<1>3. CASE RecordLap
  <2>1. stints \in Seq(Nat) /\ Len(stints) \in Nat /\ laps \in Seq(Nat) /\ Len(laps) \in Nat
    BY LenProperties, Zenon DEF TypeOK
  <2>2. laps' = Append(laps, Len(stints)) /\ UNCHANGED <<nsessions, stints, loop>> /\ stints # <<>>
    BY <1>3, Zenon DEF RecordLap
  <2>3. Len(stints) # 0
    BY <2>1, <2>2, EmptySeq, SMT
  <2>4. /\ laps' \in Seq(Nat) /\ Extends(laps, laps') /\ DOMAIN laps' = 1 .. Len(laps) + 1
        /\ laps'[Len(laps) + 1] = Len(stints)
    BY <2>1, <2>2, AppendFacts, SMT DEF Extends
  <2>5. \A i \in DOMAIN laps' : laps'[i] \in 1 .. Len(stints)
    BY <2>1, <2>3, <2>4, LenProperties, SMT DEF Extends, TablesInv
  <2>6. nsessions \in Nat
    BY DEF TypeOK
  <2>7. QED
    BY <2>1, <2>2, <2>4, <2>5, <2>6, SMT DEF TablesInv, Extends
<1>4. QED
  BY <1>1, <1>2, <1>3 DEF Recording

-----------------------------------------------------------------------------
(* A turn up to the key.                                                   *)

LEMMA ScreenFacts == Screens = 1 .. 3
  BY SMT DEF Screens, SESSIONS_SCREEN, STINTS_SCREEN, LAPS_SCREEN

(* The action that is carried out.                                         *)
Act == IF lastselection # selection THEN 1 ELSE action

LEMMA ShowFacts ==
  ASSUME TypeOK, ListsInv, Show
  PROVE  /\ pc = "show" /\ go /\ Act \in 0 .. 4 /\ Load(Act)
         /\ pc' = "key" /\ action' = 0 /\ lastselection' = selection
         /\ UNCHANGED <<screen, selection, marks, db, strayed>>
         /\ Act = 0 => UNCHANGED <<useids, labels, highlight>>
         /\ Act # 0 => Draw /\ highlight' = Drawn
<1>1. pc = "show" /\ go
  BY Zenon DEF Show, ListsInv
<1>2. Act \in 0 .. 4
  BY SMT DEF Act, TypeOK
<1>3. Act = 0 \/ Act > 0
  BY <1>2, SMT
<1>4. ~ (Act = 0 /\ Act > 0)
  BY <1>2, SMT
<1>5. QED
  BY <1>1, <1>2, <1>3, <1>4, Zenon DEF Show, Act

(* A query gives rows of its table, and for a parent all there are.        *)
LEMMA AnswerFacts ==
  ASSUME TypeOK, TablesInv, NEW what \in Screens, NEW answer \in Answers(what)
  PROVE  /\ answer \in Seq(Nat) /\ Len(answer) \in Nat
         /\ \A i \in 1 .. Len(answer) : IsRow(what, answer[i])
         /\ what = STINTS_SCREEN =>
              /\ \A i \in 1 .. Len(answer) : answer[i] \in Of(stints, stint_useid)
              /\ Len(answer) = Cardinality(Of(stints, stint_useid))
         /\ what = LAPS_SCREEN =>
              /\ \A i \in 1 .. Len(answer) : answer[i] \in Of(laps, lap_useid)
              /\ Len(answer) = Cardinality(Of(laps, lap_useid))
<1> USE DEF SESSIONS_SCREEN, STINTS_SCREEN, LAPS_SCREEN
<1>1. nsessions \in Nat /\ stints \in Seq(Nat) /\ laps \in Seq(Nat)
  BY Zenon DEF TypeOK
<1>2. CASE what = 1
  <2>1. answer \in getsessions
    BY <1>2, SMT DEF Answers
  <2>2. answer \in Seq(Nat) /\ \A i \in 1 .. Len(answer) :
          answer[i] \in 1 .. nsessions /\ Of(stints, answer[i]) # {}
    BY <1>1, <2>1, SessionsFacts, Zenon
  <2>3. Len(answer) \in Nat
    BY <2>2, LenProperties, Zenon
  <2>4. QED
    BY <1>2, <2>2, <2>3, SMT DEF IsRow
<1>3. CASE what = 2
  <2>1. answer \in Children(stints, stint_useid)
    BY <1>3, SMT DEF Answers, getstints
  <2>2. /\ answer \in Seq(Nat) /\ Len(answer) = Cardinality(Of(stints, stint_useid))
        /\ \A i \in 1 .. Len(answer) : answer[i] \in Of(stints, stint_useid)
    BY <1>1, <2>1, ChildrenFacts, Zenon
  <2>3. Len(answer) \in Nat
    BY <2>2, LenProperties, Zenon
  <2>4. \A i \in 1 .. Len(answer) : answer[i] \in DOMAIN stints
    BY <2>2, Zenon DEF Of
  <2>5. QED
    BY <1>3, <2>2, <2>3, <2>4, SMT DEF IsRow
<1>4. CASE what = 3
  <2>1. answer \in Children(laps, lap_useid)
    BY <1>4, SMT DEF Answers, getlaps
  <2>2. /\ answer \in Seq(Nat) /\ Len(answer) = Cardinality(Of(laps, lap_useid))
        /\ \A i \in 1 .. Len(answer) : answer[i] \in Of(laps, lap_useid)
    BY <1>1, <2>1, ChildrenFacts, Zenon
  <2>3. Len(answer) \in Nat
    BY <2>2, LenProperties, Zenon
  <2>4. \A i \in 1 .. Len(answer) : answer[i] \in DOMAIN laps
    BY <2>2, Zenon DEF Of
  <2>5. QED
    BY <1>4, <2>2, <2>3, <2>4, SMT DEF IsRow
<1>5. QED
  BY <1>2, <1>3, <1>4, ScreenFacts, SMT

(* What an action does to the lists: nothing, a new list, or a failure.    *)
Kept == UNCHANGED <<go, lists>>

Answered(what, answer) ==
  /\ rows' = [rows EXCEPT ![what] = answer]
  /\ results' = [results EXCEPT ![what] = Len(answer)]
  /\ curresults' = Len(answer)
  /\ go' = go

Failed(what) ==
  /\ results' = [results EXCEPT ![what] = -1]
  /\ curresults' = IF what = SESSIONS_SCREEN THEN curresults ELSE -1
  /\ go' = FALSE /\ rows' = rows

LEMMA LoadCases ==
  ASSUME NEW act \in 0 .. 4, Load(act)
  PROVE  \/ act < 2 /\ Kept
         \/ /\ act >= 2 /\ act - 1 \in Screens
            /\ \/ \E answer \in Answers(act - 1) : Answered(act - 1, answer)
               \/ Failed(act - 1)
<1>1. CASE act < 2
  BY <1>1, SMT DEF Load, Kept
<1>2. CASE act >= 2
  <2>1. act - 1 \in Screens /\ ~ (act < 2)
    BY <1>2, ScreenFacts, SMT
  <2> DEFINE what == act - 1
  <2>2. \/ \E answer \in Answers(what) : Answered(what, answer)
        \/ Failed(what)
    BY <2>1, Zenon DEF Load, Answered, Failed
  <2>3. QED
    BY <1>2, <2>1, <2>2
<1>3. QED
  BY <1>1, <1>2, SMT

LEMMA LoadFacts ==
  ASSUME TypeOK, TablesInv, ListsInv, go, NEW act \in 0 .. 4, Load(act), UNCHANGED db
  PROVE  /\ rows' \in [Screens -> Seq(Nat)]
         /\ results' \in [Screens -> Nat \cup {-1}] /\ curresults' \in Nat \cup {-1}
         /\ go' \in BOOLEAN
         /\ go' => \A s \in Screens : results'[s] = Len(rows'[s])
         /\ \A s \in Screens : results'[s] <= Len(rows'[s])
         /\ \A s \in Screens : \A r \in Listed(s)' : IsRow(s, r)
<1>1. /\ rows \in [Screens -> Seq(Nat)] /\ results \in [Screens -> Nat \cup {-1}]
      /\ curresults \in Nat \cup {-1}
      /\ \A s \in Screens : results[s] = Len(rows[s]) /\ Len(rows[s]) \in Nat
      /\ \A s \in Screens : \A r \in Listed(s) : IsRow(s, r)
  BY LenProperties, Zenon DEF TypeOK, ListsInv
<1>2. CASE Kept
  <2>1. rows' = rows /\ results' = results /\ curresults' = curresults /\ go' = go
    BY <1>2, Zenon DEF Kept, lists
  <2>2. \A s \in Screens : Listed(s)' = Listed(s)
    BY <2>1, Zenon DEF Listed
  <2>3. \A s \in Screens : results'[s] = Len(rows'[s]) /\ results'[s] <= Len(rows'[s])
    BY <1>1, <2>1, SMT
  <2>4. QED
    BY <1>1, <2>1, <2>2, <2>3, Zenon
<1>3. ASSUME act - 1 \in Screens, NEW answer \in Answers(act - 1), Answered(act - 1, answer)
      PROVE  /\ rows' \in [Screens -> Seq(Nat)]
             /\ results' \in [Screens -> Nat] /\ curresults' \in Nat
             /\ go' = go
             /\ \A s \in Screens : results'[s] = Len(rows'[s])
             /\ \A s \in Screens : \A r \in Listed(s)' : IsRow(s, r)
  <2> DEFINE what == act - 1
  <2>1. answer \in Seq(Nat) /\ Len(answer) \in Nat /\ \A i \in 1 .. Len(answer) : IsRow(what, answer[i])
    BY <1>3, AnswerFacts, Zenon
  <2> HIDE DEF what
  <2>2. /\ what \in Screens /\ rows' = [rows EXCEPT ![what] = answer]
        /\ results' = [results EXCEPT ![what] = Len(answer)]
        /\ curresults' = Len(answer) /\ go' = go
    BY <1>3, Zenon DEF Answered, what
  <2>3. /\ rows' \in [Screens -> Seq(Nat)] /\ results' \in [Screens -> Nat]
        /\ \A s \in Screens : results'[s] = Len(rows'[s])
    BY <1>1, <2>1, <2>2, SMT
  <2>4. ASSUME NEW s \in Screens, NEW r \in Listed(s)' PROVE IsRow(s, r)
    <3>1. CASE s = what
      BY <1>1, <2>1, <2>2, <2>4, <3>1, Zenon DEF Listed
    <3>2. CASE s # what
      <4>1. rows'[s] = rows[s] /\ results'[s] = results[s]
        BY <1>1, <2>2, <3>2, Zenon
      <4>2. r \in Listed(s)
        BY <2>4, <4>1, Zenon DEF Listed
      <4>3. QED
        BY <1>1, <4>2, Zenon
    <3>3. QED
      BY <3>1, <3>2
  <2>5. QED
    BY <2>1, <2>2, <2>3, <2>4, Zenon
<1>4. ASSUME act - 1 \in Screens, Failed(act - 1)
      PROVE  /\ rows' \in [Screens -> Seq(Nat)]
             /\ results' \in [Screens -> Nat \cup {-1}] /\ curresults' \in Nat \cup {-1}
             /\ go' = FALSE
             /\ \A s \in Screens : results'[s] <= Len(rows'[s])
             /\ \A s \in Screens : \A r \in Listed(s)' : IsRow(s, r)
  <2> DEFINE what == act - 1
  <2> HIDE DEF what
  <2>1. /\ what \in Screens /\ rows' = rows /\ go' = FALSE
        /\ results' = [results EXCEPT ![what] = -1]
        /\ curresults' = curresults \/ curresults' = -1
    BY <1>4, Zenon DEF Failed, what
  <2>2. /\ results' \in [Screens -> Nat \cup {-1}] /\ curresults' \in Nat \cup {-1}
        /\ \A s \in Screens : results'[s] = results[s] \/ results'[s] = -1
    BY <1>1, <2>1, SMT
  <2>3. \A s \in Screens : results'[s] <= Len(rows'[s])
    BY <1>1, <2>1, <2>2, SMT
  <2>4. ASSUME NEW s \in Screens, NEW r \in Listed(s)' PROVE IsRow(s, r)
    <3>1. PICK i \in 1 .. results'[s] : r = rows'[s][i]
      BY <2>4, Zenon DEF Listed
    <3>2. results'[s] = results[s]
      BY <2>2, <3>1, SMT
    <3>3. r \in Listed(s)
      BY <2>1, <3>1, <3>2, Zenon DEF Listed
    <3>4. QED
      BY <1>1, <3>3, Zenon
  <2>5. QED
    BY <1>1, <2>1, <2>2, <2>3, <2>4, Zenon
<1>5. CASE \E answer \in Answers(act - 1) : Answered(act - 1, answer) /\ act - 1 \in Screens
  <2>1. PICK answer \in Answers(act - 1) : Answered(act - 1, answer) /\ act - 1 \in Screens
    BY <1>5
  <2>2. /\ rows' \in [Screens -> Seq(Nat)]
        /\ results' \in [Screens -> Nat] /\ curresults' \in Nat
        /\ go' = go
        /\ \A s \in Screens : results'[s] = Len(rows'[s])
        /\ \A s \in Screens : \A r \in Listed(s)' : IsRow(s, r)
    BY <1>3, <2>1, Zenon
  <2>3. \A s \in Screens : results'[s] <= Len(rows'[s])
    BY <2>2, SMT
  <2>4. results' \in [Screens -> Nat \cup {-1}] /\ curresults' \in Nat \cup {-1}
    BY <2>2, SMT
  <2>5. QED
    BY <2>2, <2>3, <2>4, Zenon
<1>6. CASE Failed(act - 1) /\ act - 1 \in Screens
  BY <1>4, <1>6, Zenon
<1>7. \/ Kept
      \/ \E answer \in Answers(act - 1) : Answered(act - 1, answer) /\ act - 1 \in Screens
      \/ Failed(act - 1) /\ act - 1 \in Screens
  BY LoadCases, Zenon
<1>8. QED
  BY <1>2, <1>5, <1>6, <1>7, Zenon

-----------------------------------------------------------------------------
(* The keys.                                                               *)

LEMMA KeyFacts ==
  ASSUME Key
  PROVE  /\ pc = "key"
         /\ pc' = IF go' THEN "show" ELSE "ended"
         /\ UNCHANGED <<rows, results, curresults, stint_useid, lap_useid, labels, highlight>>
         /\ UNCHANGED <<nsessions, stints, laps>>
         /\ strayed' \in BOOLEAN /\ (~strayed' => ~strayed)
<1>1. ASSUME NEW key, Pressed(key)
      PROVE  /\ pc = "key"
             /\ pc' = IF go' THEN "show" ELSE "ended"
             /\ UNCHANGED <<rows, results, curresults, stint_useid, lap_useid, labels, highlight>>
             /\ UNCHANGED <<nsessions, stints, laps>>
             /\ strayed' \in BOOLEAN /\ (~strayed' => ~strayed)
  BY <1>1, Zenon DEF Pressed, lists, useids, db
<1>2. QED
  BY <1>1, Zenon DEF Key, Quit, Back, Enter, Go, Plot, Down, Up, Move,
    MarkFirst, MarkSecond, Mark, MarkThen, OtherKey

(* A step is a turn's first half, its key, the recorder's, or nothing that *)
(* matters.                                                                *)
LEMMA StepCases ==
  ASSUME [Next]_vars
  PROVE  Connect \/ Show \/ Key \/ Recording \/ UNCHANGED vars
  BY Zenon DEF Next, Ended, Recording

LEMMA ConnectFacts ==
  ASSUME Connect
  PROVE  /\ pc = "connect" /\ pc' \in {"show", "ended"}
         /\ UNCHANGED <<go, screen, action, selection, lastselection, highlight, strayed, labels>>
         /\ UNCHANGED <<rows, results, curresults, stint_useid, lap_useid, marks>>
         /\ UNCHANGED <<nsessions, stints, laps>>
  BY Zenon DEF Connect, lists, useids, plot, db

LEMMA LoopFacts ==
  ASSUME UNCHANGED loop
  PROVE  /\ UNCHANGED <<pc, go, screen, action, selection, lastselection, highlight, strayed>>
         /\ UNCHANGED <<rows, results, curresults, stint_useid, lap_useid, marks, labels>>
  BY Zenon DEF loop, lists, useids, plot

LEMMA StutterFacts ==
  ASSUME UNCHANGED vars
  PROVE  /\ UNCHANGED <<pc, go, screen, action, selection, lastselection, highlight, strayed>>
         /\ UNCHANGED <<rows, results, curresults, stint_useid, lap_useid, marks, labels>>
         /\ UNCHANGED <<nsessions, stints, laps>>
  BY Zenon DEF vars, lists, useids, plot, db

(* The row that is drawn as selected is a row of the list.                 *)
LEMMA DrawnFacts ==
  ASSUME TypeOK, TablesInv, ListsInv, Show
  PROVE  /\ Drawn \in Nat
         /\ Drawn # 0 => selection \in 1 .. results'[screen] /\ Drawn = rows'[screen][selection]
         /\ Drawn # 0 => Drawn \in Listed(screen)' /\ IsRow(screen, Drawn)
<1>1. /\ rows' \in [Screens -> Seq(Nat)] /\ results' \in [Screens -> Nat \cup {-1}]
      /\ \A s \in Screens : results'[s] <= Len(rows'[s])
      /\ \A s \in Screens : \A r \in Listed(s)' : IsRow(s, r)
  BY ShowFacts, LoadFacts, Zenon
<1>2. screen \in Screens /\ screen' = screen /\ selection \in Int
  BY ShowFacts, SMT DEF TypeOK
<1>3. CASE selection \in 1 .. results'[screen]
  <2> DEFINE list == rows'[screen]
  <2>1. list \in Seq(Nat) /\ results'[screen] <= Len(list) /\ results'[screen] \in Int
    BY <1>1, <1>2, SMT
  <2>2. Len(list) \in Nat /\ \A i \in 1 .. Len(list) : list[i] \in Nat
    BY <2>1, LenProperties, ElementOfSeq, Zenon
  <2>3. selection \in 1 .. Len(list)
    BY <1>3, <2>1, <2>2, SMT
  <2>4. list[selection] \in Nat /\ Drawn = list[selection]
    BY <1>3, <2>2, <2>3, Zenon DEF Drawn
  <2>5. Drawn \in Listed(screen)'
    BY <1>2, <1>3, <2>4, Zenon DEF Listed
  <2>6. IsRow(screen, Drawn)
    BY <1>1, <1>2, <2>5, Zenon DEF Listed
  <2>7. QED
    BY <1>3, <2>4, <2>5, <2>6, Zenon
<1>4. CASE selection \notin 1 .. results'[screen]
  BY <1>4, SMT DEF Drawn
<1>5. QED
  BY <1>3, <1>4

LEMMA DrawFacts ==
  ASSUME TypeOK, Draw
  PROVE  \/ screen = SESSIONS_SCREEN /\ DrawSessions
         \/ screen = STINTS_SCREEN /\ DrawStints
         \/ screen = LAPS_SCREEN /\ DrawLaps
<1>1. /\ screen = SESSIONS_SCREEN \/ screen = STINTS_SCREEN \/ screen = LAPS_SCREEN
      /\ SESSIONS_SCREEN # STINTS_SCREEN /\ SESSIONS_SCREEN # LAPS_SCREEN
      /\ STINTS_SCREEN # LAPS_SCREEN
  BY SMT DEF TypeOK, Screens, SESSIONS_SCREEN, STINTS_SCREEN, LAPS_SCREEN
<1>2. CASE screen = SESSIONS_SCREEN
  BY <1>1, <1>2, Zenon DEF Draw
<1>3. CASE screen = STINTS_SCREEN
  BY <1>1, <1>3, Zenon DEF Draw
<1>4. CASE screen = LAPS_SCREEN
  BY <1>1, <1>4, Zenon DEF Draw
<1>5. QED
  BY <1>1, <1>2, <1>3, <1>4

LEMMA RowsStay ==
  ASSUME TypeOK, TablesInv, Recording, NEW s, NEW r, IsRow(s, r)
  PROVE  IsRow(s, r)'
<1>1. /\ nsessions \in Nat /\ nsessions' \in Nat /\ nsessions <= nsessions'
      /\ stints \in Seq(Nat) /\ stints' \in Seq(Nat)
      /\ Extends(stints, stints') /\ Extends(laps, laps')
  BY RecordingFacts, Zenon DEF TypeOK
<1>2. Of(stints, r) \subseteq Of(stints', r)
  BY <1>1, ExtendsFacts, Zenon
<1>3. r \in 1 .. nsessions => r \in 1 .. nsessions'
  BY <1>1, SMT
<1>4. QED
  BY <1>1, <1>2, <1>3, Zenon DEF IsRow, Extends

-----------------------------------------------------------------------------
(* The invariant, part by part.                                            *)

LEMMA TablesStep == ASSUME TypeOK, TablesInv, ListsInv, [Next]_vars PROVE TablesInv'
<1>1. ASSUME UNCHANGED <<nsessions, stints, laps>> PROVE TablesInv'
  BY <1>1, Zenon DEF TablesInv
<1>2. Show => UNCHANGED <<nsessions, stints, laps>>
  BY ShowFacts, Zenon DEF db
<1>3. QED
  BY <1>1, <1>2, StepCases, ConnectFacts, KeyFacts, StutterFacts, RecordingFacts, Zenon

LEMMA TurnStep == ASSUME TypeOK, ListsInv, TurnInv, [Next]_vars PROVE TurnInv'
<1>1. CASE Connect
  BY <1>1, ConnectFacts, Zenon DEF TurnInv
<1>2. CASE Show
  BY <1>2, ShowFacts, Zenon DEF TurnInv
<1>3. CASE Key
  BY <1>3, KeyFacts, Zenon DEF TurnInv
<1>4. CASE Recording
  BY <1>4, LoopFacts, Zenon DEF TurnInv, Recording, RecordSession, RecordStint, RecordLap
<1>5. CASE UNCHANGED vars
  BY <1>5, StutterFacts, Zenon DEF TurnInv
<1>6. QED
  BY <1>1, <1>2, <1>3, <1>4, <1>5, StepCases

LEMMA ListsStep == ASSUME TypeOK, TablesInv, ListsInv, [Next]_vars PROVE ListsInv'
<1> USE DEF ListsInv
<1>1. CASE Connect
  <2>1. UNCHANGED <<go, rows, results, nsessions, stints, laps>> /\ go
    BY <1>1, ConnectFacts, Zenon
  <2>2. \A s, r : IsRow(s, r)' <=> IsRow(s, r)
    BY <2>1, Zenon DEF IsRow
  <2>3. \A s : Listed(s)' = Listed(s)
    BY <2>1, Zenon DEF Listed
  <2>4. QED
    BY <2>1, <2>2, <2>3, Zenon
<1>2. CASE Show
  <2>1. /\ go' => \A s \in Screens : results'[s] = Len(rows'[s])
        /\ \A s \in Screens : results'[s] <= Len(rows'[s])
        /\ \A s \in Screens : \A r \in Listed(s)' : IsRow(s, r)
    BY <1>2, ShowFacts, LoadFacts, Zenon
  <2>2. pc' = "key" /\ UNCHANGED <<nsessions, stints, laps>>
    BY <1>2, ShowFacts, Zenon DEF db
  <2>3. \A s, r : IsRow(s, r)' <=> IsRow(s, r)
    BY <2>2, Zenon DEF IsRow
  <2>4. QED
    BY <2>1, <2>2, <2>3, Zenon
<1>3. CASE Key
  <2>1. /\ UNCHANGED <<rows, results, nsessions, stints, laps>>
        /\ pc = "key" /\ pc' = IF go' THEN "show" ELSE "ended"
    BY <1>3, KeyFacts, Zenon
  <2>2. go' => go
    BY <1>3, Zenon DEF Key, Quit, Back, Enter, Go, Plot, Down, Up, Move,
      MarkFirst, MarkSecond, Mark, MarkThen, OtherKey
  <2>3. \A s, r : IsRow(s, r)' <=> IsRow(s, r)
    BY <2>1, Zenon DEF IsRow
  <2>4. \A s : Listed(s)' = Listed(s)
    BY <2>1, Zenon DEF Listed
  <2>5. QED
    BY <2>1, <2>2, <2>3, <2>4, Zenon
<1>4. CASE Recording
  <2>1. UNCHANGED <<pc, go, rows, results>>
    BY <1>4, RecordingFacts, LoopFacts, Zenon
  <2>2. \A s : Listed(s)' = Listed(s)
    BY <2>1, Zenon DEF Listed
  <2>3. \A s \in Screens : \A r \in Listed(s) : IsRow(s, r)'
    BY <1>4, RowsStay, Zenon
  <2>4. QED
    BY <2>1, <2>2, <2>3, Zenon
<1>5. CASE UNCHANGED vars
  <2>1. UNCHANGED <<pc, go, rows, results, nsessions, stints, laps>>
    BY <1>5, StutterFacts, Zenon
  <2>2. \A s, r : IsRow(s, r)' <=> IsRow(s, r)
    BY <2>1, Zenon DEF IsRow
  <2>3. \A s : Listed(s)' = Listed(s)
    BY <2>1, Zenon DEF Listed
  <2>4. QED
    BY <2>1, <2>2, <2>3, Zenon
<1>6. QED
  BY <1>1, <1>2, <1>3, <1>4, <1>5, StepCases

(* The types.  The remembered ids and the marks are rows of their lists.   *)
LEMMA TypeStep ==
  ASSUME TypeOK, TablesInv, ListsInv, TurnInv, [Next]_vars
  PROVE  TypeOK'
<1> USE DEF TypeOK
<1>1. CASE Connect
  BY <1>1, ConnectFacts, Zenon
<1>2. CASE Show
  <2>1. /\ pc' = "key" /\ action' = 0 /\ lastselection' = selection
        /\ UNCHANGED <<screen, selection, marks, nsessions, stints, laps, strayed>>
    BY <1>2, ShowFacts, Zenon DEF db
  <2>2. /\ rows' \in [Screens -> Seq(Nat)] /\ results' \in [Screens -> Nat \cup {-1}]
        /\ curresults' \in Nat \cup {-1} /\ go' \in BOOLEAN
    BY <1>2, ShowFacts, LoadFacts, Zenon
  <2>3. 0 \in 0 .. 4
    BY SMT
  <2>4. /\ stint_useid' \in 0 .. nsessions /\ lap_useid' \in 0 .. Len(stints)
        /\ labels' \in [1 .. 2 -> Nat \cup {Junk}] /\ highlight' \in Nat
    <3>1. CASE Act = 0
      BY <1>2, <3>1, ShowFacts, Zenon DEF useids
    <3>2. CASE Act # 0
      <4>1. Draw /\ highlight' = Drawn /\ Drawn \in Nat /\ (Drawn # 0 => IsRow(screen, Drawn))
        BY <1>2, <3>2, ShowFacts, DrawnFacts, Zenon
      <4>2. CASE screen = SESSIONS_SCREEN /\ DrawSessions
        <5>1. Drawn # 0 => Drawn \in 1 .. nsessions
          BY <4>1, <4>2, Zenon DEF IsRow
        <5>2. UNCHANGED <<lap_useid, labels>>
          BY <4>2, Zenon DEF DrawSessions
        <5>3. stint_useid' = stint_useid \/ (stint_useid' = Drawn /\ Drawn # 0)
          BY <4>2, Zenon DEF DrawSessions
        <5>4. stint_useid' \in 0 .. nsessions
          BY <5>1, <5>3, SMT
        <5>5. QED
          BY <4>1, <5>2, <5>4, Zenon
      <4>3. CASE screen = STINTS_SCREEN /\ DrawStints
        <5>1. Drawn # 0 => Drawn \in DOMAIN stints
          BY <4>1, <4>3, Zenon DEF IsRow
        <5>2. UNCHANGED <<stint_useid, labels>>
          BY <4>3, Zenon DEF DrawStints
        <5>3. lap_useid' = lap_useid \/ (lap_useid' = Drawn /\ Drawn # 0)
          BY <4>3, Zenon DEF DrawStints
        <5>4. DOMAIN stints = 1 .. Len(stints) /\ Len(stints) \in Nat
          BY LenProperties, Zenon
        <5>5. lap_useid' \in 0 .. Len(stints)
          BY <5>1, <5>3, <5>4, SMT
        <5>6. QED
          BY <4>1, <5>2, <5>5, Zenon
      <4>4. CASE screen = LAPS_SCREEN /\ DrawLaps
        <5>1. UNCHANGED <<stint_useid, lap_useid>>
          BY <4>4, Zenon DEF DrawLaps, useids
        <5>2. \E x, y \in Nat \cup {Junk} : labels' = <<x, y>>
          <6>1. /\ marks[1] \in Nat \cup {Junk} /\ marks[2] \in Nat \cup {Junk}
                /\ labels[1] \in Nat \cup {Junk} /\ labels[2] \in Nat \cup {Junk}
            BY SMT
          <6>2. QED
            BY <4>4, <6>1, Zenon DEF DrawLaps
        <5>3. labels' \in [1 .. 2 -> Nat \cup {Junk}]
          BY <5>2, SMT
        <5>4. QED
          BY <4>1, <5>1, <5>3, Zenon
      <4>5. QED
        BY <4>1, <4>2, <4>3, <4>4, DrawFacts, Zenon
    <3>3. QED
      BY <3>1, <3>2
  <2>5. QED
    BY <2>1, <2>2, <2>3, <2>4, Zenon
<1>3. CASE Key
  <2>1. /\ UNCHANGED <<rows, results, curresults, stint_useid, lap_useid, labels, highlight>>
        /\ UNCHANGED <<nsessions, stints, laps>>
        /\ strayed' \in BOOLEAN /\ pc' = IF go' THEN "show" ELSE "ended"
    BY <1>3, KeyFacts, Zenon
  <2>2. /\ go' \in BOOLEAN /\ screen' \in Screens /\ action' \in 0 .. 4
        /\ selection' \in Nat \cup {-1} /\ lastselection' \in Nat \cup {-1}
        /\ marks' \in [1 .. 2 -> Nat \cup {Junk}]
    <3>1. CASE Quit
      BY <3>1, Zenon DEF Quit
    <3>2. CASE Back \/ Enter
      BY <3>2, SMT DEF Back, Enter, Go, Screens, SESSIONS_SCREEN, STINTS_SCREEN, LAPS_SCREEN
    <3>3. CASE Plot \/ OtherKey
      BY <3>3, SMT DEF Plot, OtherKey
    <3>4. CASE Down \/ Up
      BY <3>4, SMT DEF Down, Up, Move
    <3>5. ASSUME NEW key, NEW n \in 1 .. 2, Mark(key, n)
          PROVE  /\ UNCHANGED <<go, screen, selection, lastselection>> /\ action' = 1
                 /\ marks' \in [1 .. 2 -> Nat \cup {Junk}]
      <4>1. /\ UNCHANGED <<go, screen, selection, lastselection>> /\ action' = 1
            /\ marks' = [marks EXCEPT ![n] = LapAt]
        BY <3>5, Zenon DEF Mark, MarkThen
      <4>2. LAPS_SCREEN \in Screens
        BY Zenon DEF Screens
      <4>3. LapAt \in Nat \cup {Junk}
        BY <4>2, ElementOfSeq, LenProperties, SMT DEF LapAt
      <4>4. QED
        BY <4>1, <4>3, SMT
    <3>6. CASE MarkFirst \/ MarkSecond
      <4>1. 1 \in 1 .. 2 /\ 2 \in 1 .. 2 /\ 1 \in 0 .. 4
        BY SMT
      <4>2. QED
        BY <3>5, <3>6, <4>1, Zenon DEF MarkFirst, MarkSecond
    <3>7. QED
      BY <1>3, <3>1, <3>2, <3>3, <3>4, <3>6, Zenon DEF Key
  <2>3. QED
    BY <2>1, <2>2, Zenon
<1>4. CASE Recording
  <2>1. /\ UNCHANGED <<pc, go, screen, action, selection, lastselection, highlight, strayed>>
        /\ UNCHANGED <<rows, results, curresults, stint_useid, lap_useid, marks, labels>>
        /\ nsessions' \in Nat /\ nsessions <= nsessions'
        /\ stints' \in Seq(Nat) /\ laps' \in Seq(Nat)
        /\ Len(stints) <= Len(stints') /\ Len(stints) \in Nat /\ Len(stints') \in Nat
    BY <1>4, RecordingFacts, LoopFacts, Zenon
  <2>2. stint_useid' \in 0 .. nsessions' /\ lap_useid' \in 0 .. Len(stints')
    BY <2>1, SMT
  <2>3. QED
    BY <2>1, <2>2, Zenon
<1>5. CASE UNCHANGED vars
  BY <1>5, StutterFacts, Zenon
<1>6. QED
  BY <1>1, <1>2, <1>3, <1>4, <1>5, StepCases

(* A list after the load: new rows, none, or the old ones.                 *)
LEMMA ListAfter ==
  ASSUME TypeOK, TablesInv, ListsInv, Show, NEW s \in Screens
  PROVE  \/ /\ Act = s + 1 /\ go'
            /\ \E answer \in Answers(s) :
                 /\ results'[s] = Len(answer) /\ curresults' = Len(answer)
                 /\ rows'[s] = answer
                 /\ \A r \in Listed(s)' : \E i \in 1 .. Len(answer) : r = answer[i]
         \/ Act = s + 1 /\ ~go' /\ results'[s] = -1 /\ Listed(s)' = {}
         \/ /\ Act # s + 1 /\ results'[s] \in {results[s]}
            /\ rows'[s] = rows[s] /\ Listed(s)' = Listed(s)
<1>1. Act \in 0 .. 4 /\ Load(Act) /\ go
  BY ShowFacts, Zenon
<1>2. rows \in [Screens -> Seq(Nat)] /\ results \in [Screens -> Nat \cup {-1}]
  BY Zenon DEF TypeOK
<1>3. s \in 1 .. 3
  BY ScreenFacts
<1>4. CASE Act < 2 /\ Kept
  <2>1. Act # s + 1
    BY <1>1, <1>3, <1>4, SMT
  <2>2. rows' = rows /\ results' = results
    BY <1>4, Zenon DEF Kept, lists
  <2>3. QED
    BY <2>1, <2>2, Zenon DEF Listed
<1>5. ASSUME Act >= 2, Act - 1 \in Screens, NEW answer \in Answers(Act - 1), Answered(Act - 1, answer)
      PROVE  \/ /\ Act = s + 1 /\ go'
                /\ answer \in Answers(s)
                /\ results'[s] = Len(answer) /\ curresults' = Len(answer)
                /\ rows'[s] = answer
                /\ \A r \in Listed(s)' : \E i \in 1 .. Len(answer) : r = answer[i]
             \/ /\ Act # s + 1 /\ results'[s] \in {results[s]}
                /\ rows'[s] = rows[s] /\ Listed(s)' = Listed(s)
  <2> DEFINE what == Act - 1
  <2>1. (Act = s + 1 <=> what = s)
    BY <1>1, <1>3, SMT
  <2> HIDE DEF what
  <2>2. /\ what \in Screens /\ rows' = [rows EXCEPT ![what] = answer] /\ answer \in Answers(what)
        /\ results' = [results EXCEPT ![what] = Len(answer)]
        /\ curresults' = Len(answer) /\ go' = go
    BY <1>5, Zenon DEF Answered, what
  <2>3. CASE what = s
    <3>1. rows'[s] = answer /\ results'[s] = Len(answer)
      BY <1>2, <2>2, <2>3, Zenon
    <3>2. \A r \in Listed(s)' : \E i \in 1 .. Len(answer) : r = answer[i]
      BY <3>1, Zenon DEF Listed
    <3>3. QED
      BY <1>1, <2>1, <2>2, <2>3, <3>1, <3>2, Zenon
  <2>4. CASE what # s
    <3>1. rows'[s] = rows[s] /\ results'[s] = results[s]
      BY <1>2, <2>2, <2>4, Zenon
    <3>2. QED
      BY <2>1, <2>4, <3>1, Zenon DEF Listed
  <2>5. QED
    BY <2>3, <2>4
<1>6. ASSUME Act >= 2, Act - 1 \in Screens, Failed(Act - 1)
      PROVE  \/ Act = s + 1 /\ ~go' /\ results'[s] = -1 /\ Listed(s)' = {}
             \/ /\ Act # s + 1 /\ results'[s] \in {results[s]}
                /\ rows'[s] = rows[s] /\ Listed(s)' = Listed(s)
  <2> DEFINE what == Act - 1
  <2>1. (Act = s + 1 <=> what = s)
    BY <1>1, <1>3, SMT
  <2> HIDE DEF what
  <2>2. /\ what \in Screens /\ rows' = rows /\ go' = FALSE
        /\ results' = [results EXCEPT ![what] = -1]
    BY <1>6, Zenon DEF Failed, what
  <2>3. CASE what = s
    <3>1. results'[s] = -1
      BY <1>2, <2>2, <2>3, Zenon
    <3>2. 1 .. results'[s] = {}
      BY <3>1, SMT
    <3>3. Listed(s)' = {}
      BY <3>2, Zenon DEF Listed
    <3>4. QED
      BY <2>1, <2>2, <2>3, <3>1, <3>3, Zenon
  <2>4. CASE what # s
    <3>1. rows'[s] = rows[s] /\ results'[s] = results[s]
      BY <1>2, <2>2, <2>4, Zenon
    <3>2. QED
      BY <2>1, <2>4, <3>1, Zenon DEF Listed
  <2>5. QED
    BY <2>3, <2>4
<1>7. QED
  BY <1>1, <1>4, <1>5, <1>6, LoadCases, Zenon

(* The stints listed after a turn that loads them, or that had them right. *)
LEMMA StintsAfter ==
  ASSUME TypeOK, TablesInv, ListsInv, Show, Act = 3 \/ StintsBelong
  PROVE  /\ \A s \in Listed(STINTS_SCREEN)' : s \in DOMAIN stints /\ stints[s] = stint_useid
         /\ Act = 3 /\ go' => results'[STINTS_SCREEN] = Cardinality(Of(stints, stint_useid))
<1>1. STINTS_SCREEN \in Screens /\ STINTS_SCREEN + 1 = 3
  BY SMT DEF Screens, STINTS_SCREEN
<1>2. ASSUME NEW answer \in Answers(STINTS_SCREEN)
      PROVE  /\ \A i \in 1 .. Len(answer) : answer[i] \in DOMAIN stints /\ stints[answer[i]] = stint_useid
             /\ Len(answer) = Cardinality(Of(stints, stint_useid))
  BY <1>1, <1>2, AnswerFacts, Zenon DEF Of
<1>3. \A s \in Listed(STINTS_SCREEN) : s \in DOMAIN stints
  BY <1>1, Zenon DEF ListsInv, IsRow
<1>8. \/ /\ Act = 3 /\ go'
         /\ \E answer \in Answers(STINTS_SCREEN) :
              /\ results'[STINTS_SCREEN] = Len(answer)
              /\ \A r \in Listed(STINTS_SCREEN)' : \E i \in 1 .. Len(answer) : r = answer[i]
      \/ Act = 3 /\ ~go' /\ results'[STINTS_SCREEN] = -1 /\ Listed(STINTS_SCREEN)' = {}
      \/ /\ Act # 3 /\ results'[STINTS_SCREEN] = results[STINTS_SCREEN]
         /\ Listed(STINTS_SCREEN)' = Listed(STINTS_SCREEN)
  <2>1. \A x, y : x \in {y} => x = y
    OBVIOUS
  <2>2. QED
    BY <1>1, <2>1, ListAfter, Zenon
<1>9. CASE /\ Act = 3 /\ go'
           /\ \E answer \in Answers(STINTS_SCREEN) :
                /\ results'[STINTS_SCREEN] = Len(answer)
                /\ \A r \in Listed(STINTS_SCREEN)' : \E i \in 1 .. Len(answer) : r = answer[i]
  BY <1>2, <1>9, Zenon
<1>10. CASE Act = 3 /\ ~go' /\ results'[STINTS_SCREEN] = -1 /\ Listed(STINTS_SCREEN)' = {}
  BY <1>10, Zenon
<1>11. CASE /\ Act # 3 /\ results'[STINTS_SCREEN] = results[STINTS_SCREEN]
           /\ Listed(STINTS_SCREEN)' = Listed(STINTS_SCREEN)
  BY <1>3, <1>11, Zenon DEF StintsBelong
<1>12. QED
  BY <1>8, <1>9, <1>10, <1>11

(* The laps likewise; there are never more than the stint has.             *)
LEMMA LapsAfter ==
  ASSUME TypeOK, TablesInv, ListsInv, Show, Act = 4 \/ LapsBelong
  PROVE  /\ \A l \in Listed(LAPS_SCREEN)' : l \in DOMAIN laps /\ laps[l] = lap_useid
         /\ results'[LAPS_SCREEN] <= Cardinality(Of(laps, lap_useid))
         /\ Act = 4 /\ go' => results'[LAPS_SCREEN] = Cardinality(Of(laps, lap_useid))
<1>1. LAPS_SCREEN \in Screens /\ LAPS_SCREEN + 1 = 4
  BY SMT DEF Screens, LAPS_SCREEN
<1>2. ASSUME NEW answer \in Answers(LAPS_SCREEN)
      PROVE  /\ \A i \in 1 .. Len(answer) : answer[i] \in DOMAIN laps /\ laps[answer[i]] = lap_useid
             /\ Len(answer) = Cardinality(Of(laps, lap_useid))
  BY <1>1, <1>2, AnswerFacts, Zenon DEF Of
<1>3. \A l \in Listed(LAPS_SCREEN) : l \in DOMAIN laps
  BY <1>1, Zenon DEF ListsInv, IsRow
<1>4. Cardinality(Of(laps, lap_useid)) \in Nat
  BY OfFacts, Zenon DEF TypeOK
<1>5. /\ -1 <= Cardinality(Of(laps, lap_useid))
      /\ Cardinality(Of(laps, lap_useid)) <= Cardinality(Of(laps, lap_useid))
  BY <1>4, SMT
<1>8. \/ /\ Act = 4 /\ go'
         /\ \E answer \in Answers(LAPS_SCREEN) :
              /\ results'[LAPS_SCREEN] = Len(answer)
              /\ \A r \in Listed(LAPS_SCREEN)' : \E i \in 1 .. Len(answer) : r = answer[i]
      \/ Act = 4 /\ ~go' /\ results'[LAPS_SCREEN] = -1 /\ Listed(LAPS_SCREEN)' = {}
      \/ /\ Act # 4 /\ results'[LAPS_SCREEN] = results[LAPS_SCREEN]
         /\ Listed(LAPS_SCREEN)' = Listed(LAPS_SCREEN)
  <2>1. \A x, y : x \in {y} => x = y
    OBVIOUS
  <2>2. QED
    BY <1>1, <2>1, ListAfter, Zenon
<1>9. CASE /\ Act = 4 /\ go'
           /\ \E answer \in Answers(LAPS_SCREEN) :
                /\ results'[LAPS_SCREEN] = Len(answer)
                /\ \A r \in Listed(LAPS_SCREEN)' : \E i \in 1 .. Len(answer) : r = answer[i]
  BY <1>2, <1>9, <1>5, Zenon
<1>10. CASE Act = 4 /\ ~go' /\ results'[LAPS_SCREEN] = -1 /\ Listed(LAPS_SCREEN)' = {}
  BY <1>10, <1>5, Zenon
<1>11. CASE /\ Act # 4 /\ results'[LAPS_SCREEN] = results[LAPS_SCREEN]
           /\ Listed(LAPS_SCREEN)' = Listed(LAPS_SCREEN)
  BY <1>3, <1>11, Zenon DEF LapsBelong
<1>12. QED
  BY <1>8, <1>9, <1>10, <1>11

(* The ids.  A row that is drawn on a screen fits what the screen is of.   *)
LEMMA IdsShow ==
  ASSUME TypeOK, TablesInv, ListsInv, IdsInv, Show
  PROVE  IdsInv'
<1>1. /\ pc = "show" /\ go /\ pc' = "key"
      /\ UNCHANGED <<screen, nsessions, stints, laps>>
      /\ Act = 0 => UNCHANGED <<stint_useid, lap_useid>>
      /\ Act # 0 => Draw
  BY ShowFacts, Zenon DEF db, useids
<1>2. /\ SESSIONS_SCREEN # STINTS_SCREEN /\ SESSIONS_SCREEN # LAPS_SCREEN
      /\ STINTS_SCREEN # LAPS_SCREEN
      /\ screen = SESSIONS_SCREEN \/ screen = STINTS_SCREEN \/ screen = LAPS_SCREEN
      /\ SESSIONS_SCREEN = 1
  BY SMT DEF TypeOK, Screens, SESSIONS_SCREEN, STINTS_SCREEN, LAPS_SCREEN
<1>3. \A act : Loading(act) => Act = act
  BY Zenon DEF Loading, Act
<1>4. Drawn # 0 => Drawn \in Listed(screen)' /\ IsRow(screen, Drawn)
  BY DrawnFacts, Zenon
<1>5. \A p : Of(stints, p)' = Of(stints', p)
  BY Zenon DEF Of
<1>6. CASE screen = SESSIONS_SCREEN
  <2>1. lap_useid' = lap_useid
    BY <1>1, <1>2, <1>6, DrawFacts, Zenon DEF DrawSessions
  <2>2. stint_useid' = stint_useid \/ (Drawn # 0 /\ stint_useid' = Drawn)
    BY <1>1, <1>2, <1>6, DrawFacts, Zenon DEF DrawSessions
  <2>3. Drawn # 0 => Of(stints, Drawn) # {}
    BY <1>4, <1>6, Zenon DEF IsRow
  <2>4. QED
    BY <1>1, <1>2, <1>6, <2>1, <2>2, <2>3, Zenon DEF IdsInv
<1>7. CASE screen = STINTS_SCREEN
  <2>1. stint_useid' = stint_useid
    BY <1>1, <1>2, <1>7, DrawFacts, Zenon DEF DrawStints
  <2>2. lap_useid' = lap_useid \/ (Drawn # 0 /\ lap_useid' = Drawn)
    BY <1>1, <1>2, <1>7, DrawFacts, Zenon DEF DrawStints
  <2>3. (Loading(3) /\ selection = 1) \/ (Belongs /\ StintsBelong)
    BY <1>1, <1>7, Zenon DEF IdsInv
  <2>4. /\ \A s \in Listed(STINTS_SCREEN)' : s \in DOMAIN stints /\ stints[s] = stint_useid
        /\ Act = 3 /\ go' => results'[STINTS_SCREEN] = Cardinality(Of(stints, stint_useid))
    BY <1>3, <2>3, StintsAfter, Zenon
  <2>5. Drawn # 0 => Drawn \in DOMAIN stints /\ stints[Drawn] = stint_useid
    BY <1>1, <1>4, <1>7, <2>4, Zenon DEF Listed
  <2>6. Drawn # 0 => stint_useid # 0
    <3>1. \A n : 0 \notin 1 .. n
      BY SMT
    <3>2. QED
      BY <2>5, <3>1, Zenon DEF TablesInv
  <2>7. stint_useid' = 0 => lap_useid' = 0
    BY <2>1, <2>2, <2>6, Zenon DEF IdsInv
  <2>8. stint_useid' # 0 => Of(stints, stint_useid)' # {}
    BY <1>1, <2>1, Zenon DEF IdsInv, Of
  <2>9. ASSUME go' PROVE Belongs'
    <3>1. CASE Drawn # 0 /\ lap_useid' = Drawn
      BY <1>1, <2>1, <2>5, <3>1, Zenon DEF Belongs
    <3>2. CASE lap_useid' = lap_useid /\ Belongs
      BY <1>1, <2>1, <3>2, Zenon DEF Belongs
    <3>3. CASE Loading(3) /\ selection = 1 /\ stint_useid = 0
      BY <2>1, <2>7, <3>3, Zenon DEF Belongs
    <3>4. CASE Loading(3) /\ selection = 1 /\ stint_useid # 0
      <4>1. Act = 3 /\ Draw
        <5>1. 3 # 0
          BY SMT
        <5>2. QED
          BY <1>1, <1>3, <3>4, <5>1, Zenon
      <4>2. results'[STINTS_SCREEN] = Cardinality(Of(stints, stint_useid))
        BY <2>4, <2>9, <4>1, Zenon
      <4>3. Of(stints, stint_useid) # {}
        BY <3>4, Zenon DEF IdsInv
      <4>4. Cardinality(Of(stints, stint_useid)) \in Nat \ {0}
        BY <4>3, OfFacts, Zenon DEF TypeOK
      <4>5. 1 \in 1 .. results'[screen]
        BY <1>7, <4>2, <4>4, SMT
      <4>6. Drawn = rows'[screen][1] /\ Drawn \in Listed(STINTS_SCREEN)'
        BY <1>1, <1>7, <3>4, <4>5, Zenon DEF Drawn, Listed
      <4>7. Drawn \in DOMAIN stints
        BY <2>4, <4>6, Zenon
      <4>8. \A n \in Nat : 0 \notin 1 .. n
        BY SMT
      <4>9. DOMAIN stints = 1 .. Len(stints) /\ Len(stints) \in Nat
        BY LenProperties, Zenon DEF TypeOK
      <4>10. Drawn # 0
        BY <4>7, <4>8, <4>9, Zenon
      <4>11. lap_useid' = Drawn
        BY <1>2, <1>7, <4>1, <4>10, DrawFacts, Zenon DEF DrawStints
      <4>12. QED
        BY <3>1, <4>10, <4>11, Zenon
    <3>5. QED
      BY <2>2, <2>3, <3>1, <3>2, <3>3, <3>4
  <2>10. StintsBelong'
    BY <1>1, <2>1, <2>4, Zenon DEF StintsBelong
  <2>11. QED
    BY <1>1, <1>2, <1>7, <2>7, <2>8, <2>9, <2>10, Zenon DEF IdsInv
<1>8. CASE screen = LAPS_SCREEN
  <2>1. UNCHANGED <<stint_useid, lap_useid>>
    BY <1>1, <1>2, <1>8, DrawFacts, Zenon DEF DrawLaps, useids
  <2>2. Belongs /\ ((Loading(4) /\ selection = 1) \/ LapsBelong) /\ pc # "ended"
    BY <1>1, <1>8, Zenon DEF IdsInv
  <2>3. /\ \A l \in Listed(LAPS_SCREEN)' : laps[l] = lap_useid
        /\ results'[LAPS_SCREEN] <= Cardinality(Of(laps, lap_useid))
    BY <1>3, <2>2, LapsAfter, Zenon
  <2>4. LapsBelong'
    <3>1. Of(laps, lap_useid)' = Of(laps, lap_useid)
      BY <1>1, <2>1, Zenon DEF Of
    <3>2. QED
      BY <1>1, <2>1, <2>3, <3>1, Zenon DEF LapsBelong
  <2>5. Belongs'
    BY <1>1, <2>1, <2>2, Zenon DEF Belongs
  <2>6. Of(stints, stint_useid)' = Of(stints, stint_useid)
    BY <1>1, <2>1, Zenon DEF Of
  <2>7. QED
    BY <1>1, <1>2, <1>8, <2>1, <2>4, <2>5, <2>6, Zenon DEF IdsInv
<1>9. QED
  BY <1>2, <1>6, <1>7, <1>8

LEMMA IdsKey ==
  ASSUME TypeOK, TablesInv, ListsInv, TurnInv, IdsInv, Key
  PROVE  IdsInv'
<1>1. /\ pc = "key" /\ pc' = IF go' THEN "show" ELSE "ended"
      /\ UNCHANGED <<rows, results, stint_useid, lap_useid, stints, laps>>
  BY KeyFacts, Zenon
<1>2. /\ \A act : ~Loading(act)
      /\ UNCHANGED <<Belongs, StintsBelong, LapsBelong, Of(stints, stint_useid)>>
  BY <1>1, Zenon DEF Loading, Belongs, StintsBelong, LapsBelong, Of, Listed
<1>3. /\ pc' # "ended" => go'
      /\ go' => go
  <2>1. pc' # "ended" => go'
    BY <1>1, Zenon
  <2>2. go' => go
    BY Zenon DEF Key, Quit, Back, Enter, Go, Plot, Down, Up, Move,
      MarkFirst, MarkSecond, Mark, MarkThen, OtherKey
  <2>3. QED
    BY <2>1, <2>2
<1>4. \/ screen' = screen
      \/ /\ screen' = STINTS_SCREEN \/ (screen' = LAPS_SCREEN /\ screen = STINTS_SCREEN)
            \/ screen' = SESSIONS_SCREEN
         /\ selection' = 1 /\ lastselection' = 1 /\ action' = screen' + 1
  <2>1. CASE Back \/ Enter
    BY <2>1, SMT DEF Back, Enter, Go, TypeOK, Screens, SESSIONS_SCREEN, STINTS_SCREEN, LAPS_SCREEN
  <2>2. CASE ~ (Back \/ Enter)
    BY <2>2, Zenon DEF Key, Quit, Plot, Down, Up, Move, MarkFirst, MarkSecond, Mark, MarkThen, OtherKey
  <2>3. QED
    BY <2>1, <2>2
<1>5. /\ SESSIONS_SCREEN # STINTS_SCREEN /\ SESSIONS_SCREEN # LAPS_SCREEN
      /\ STINTS_SCREEN # LAPS_SCREEN /\ STINTS_SCREEN + 1 = 3 /\ LAPS_SCREEN + 1 = 4
  BY SMT DEF SESSIONS_SCREEN, STINTS_SCREEN, LAPS_SCREEN
<1>6. CASE screen' = screen
  BY <1>1, <1>2, <1>3, <1>6, Zenon DEF IdsInv
<1>7. CASE screen' = STINTS_SCREEN /\ selection' = 1 /\ lastselection' = 1 /\ action' = screen' + 1
  <2>1. go' => Loading(3)'
    BY <1>1, <1>5, <1>7, Zenon DEF Loading
  <2>2. QED
    BY <1>1, <1>2, <1>5, <1>7, <2>1, Zenon DEF IdsInv
<1>8. CASE /\ screen' = LAPS_SCREEN /\ screen = STINTS_SCREEN
           /\ selection' = 1 /\ lastselection' = 1 /\ action' = screen' + 1
  <2>1. go' => Loading(4)'
    BY <1>1, <1>5, <1>8, Zenon DEF Loading
  <2>2. go' => Belongs
    BY <1>1, <1>2, <1>3, <1>8, Zenon DEF IdsInv
  <2>3. QED
    BY <1>1, <1>2, <1>3, <1>5, <1>8, <2>1, <2>2, Zenon DEF IdsInv
<1>9. CASE screen' = SESSIONS_SCREEN
  BY <1>1, <1>2, <1>5, <1>9, Zenon DEF IdsInv
<1>10. QED
  BY <1>4, <1>6, <1>7, <1>8, <1>9

LEMMA IdsStep ==
  ASSUME TypeOK, TablesInv, ListsInv, TurnInv, IdsInv, [Next]_vars
  PROVE  IdsInv'
<1>1. CASE Connect
  <2>1. /\ pc = "connect" /\ pc' \in {"show", "ended"}
        /\ UNCHANGED <<go, screen, rows, results, stint_useid, lap_useid, stints, laps>>
    BY <1>1, ConnectFacts, Zenon
  <2>2. \A act : ~Loading(act)
    BY <2>1, Zenon DEF Loading
  <2>3. UNCHANGED <<Belongs, StintsBelong, LapsBelong, Of(stints, stint_useid)>>
    BY <2>1, Zenon DEF Belongs, StintsBelong, LapsBelong, Of, Listed
  <2>4. QED
    BY <2>1, <2>2, <2>3, Zenon DEF IdsInv
<1>2. CASE Recording
  <2>1. /\ UNCHANGED <<pc, go, screen, action, selection, lastselection>>
        /\ UNCHANGED <<rows, results, stint_useid, lap_useid>>
        /\ stints \in Seq(Nat) /\ stints' \in Seq(Nat) /\ Extends(stints, stints')
        /\ laps \in Seq(Nat) /\ laps' \in Seq(Nat) /\ Extends(laps, laps')
    BY <1>2, RecordingFacts, LoopFacts, Zenon DEF TypeOK
  <2>2. \A s : Listed(s)' = Listed(s)
    BY <2>1, Zenon DEF Listed
  <2>3. \A act : Loading(act)' <=> Loading(act)
    BY <2>1, Zenon DEF Loading
  <2>4. Of(stints, stint_useid) # {} => Of(stints, stint_useid)' # {}
    <3>1. Of(stints, stint_useid) \subseteq Of(stints', stint_useid)
      BY <2>1, ExtendsFacts, Zenon
    <3>2. Of(stints, stint_useid)' = Of(stints', stint_useid)
      BY <2>1, Zenon DEF Of
    <3>3. QED
      BY <3>1, <3>2, Zenon
  <2>5. Belongs => Belongs'
    BY <2>1, Zenon DEF Belongs, Extends
  <2>6. StintsBelong => StintsBelong'
    <3>1. \A s \in Listed(STINTS_SCREEN) : s \in DOMAIN stints
      BY Zenon DEF ListsInv, IsRow, Screens
    <3>2. QED
      BY <2>1, <2>2, <3>1, Zenon DEF StintsBelong, Extends
  <2>7. LapsBelong => LapsBelong'
    <3>1. \A l \in Listed(LAPS_SCREEN) : l \in DOMAIN laps
      BY Zenon DEF ListsInv, IsRow, Screens
    <3>2. \A l \in Listed(LAPS_SCREEN) : laps'[l] = laps[l]
      BY <2>1, <3>1, Zenon DEF Extends
    <3>3. /\ Cardinality(Of(laps, lap_useid)) <= Cardinality(Of(laps', lap_useid))
          /\ Cardinality(Of(laps, lap_useid)) \in Nat /\ Cardinality(Of(laps', lap_useid)) \in Nat
      BY <2>1, ExtendsFacts, OfFacts, Zenon
    <3>4. Of(laps, lap_useid)' = Of(laps', lap_useid)
      BY <2>1, Zenon DEF Of
    <3>5. results[LAPS_SCREEN] \in Nat \cup {-1}
      BY Zenon DEF TypeOK, Screens
    <3>6. results[LAPS_SCREEN] <= Cardinality(Of(laps, lap_useid)) =>
            results[LAPS_SCREEN] <= Cardinality(Of(laps', lap_useid))
      BY <3>3, <3>5, SMT
    <3>7. QED
      BY <2>1, <2>2, <3>2, <3>4, <3>6, Zenon DEF LapsBelong
  <2>8. QED
    BY <2>1, <2>3, <2>4, <2>5, <2>6, <2>7, Zenon DEF IdsInv
<1>3. CASE UNCHANGED vars
  <2>1. /\ UNCHANGED <<pc, go, screen, action, selection, lastselection>>
        /\ UNCHANGED <<rows, results, stint_useid, lap_useid, stints, laps>>
    BY <1>3, StutterFacts, Zenon
  <2>2. \A act : Loading(act)' <=> Loading(act)
    BY <2>1, Zenon DEF Loading
  <2>3. UNCHANGED <<Belongs, StintsBelong, LapsBelong, Of(stints, stint_useid)>>
    BY <2>1, Zenon DEF Belongs, StintsBelong, LapsBelong, Of, Listed
  <2>4. QED
    BY <2>1, <2>2, <2>3, Zenon DEF IdsInv
<1>4. QED
  BY <1>1, <1>2, <1>3, IdsShow, IdsKey, StepCases

-----------------------------------------------------------------------------
(* What is shown.                                                          *)

(* The row is highlighted when it is drawn from a list it is in.           *)
LEMMA DrawnIsHighlighted ==
  ASSUME TypeOK, TablesInv, ListsInv, Show, highlight' = Drawn, Selected'
  PROVE  Highlighted'
<1>1. /\ screen' = screen /\ selection' = selection /\ selection \in Int
      /\ screen \in Screens
  BY ShowFacts, SMT DEF TypeOK
<1>2. results' \in [Screens -> Nat \cup {-1}]
  BY ShowFacts, LoadFacts, Zenon
<1>3. results'[screen] \in Int
  BY <1>1, <1>2, SMT
<1>4. CASE results'[screen] > 0
  BY <1>1, <1>4, Zenon DEF Selected, Highlighted, Drawn
<1>5. CASE ~ (results'[screen] > 0)
  <2>1. selection \notin 1 .. results'[screen]
    BY <1>1, <1>3, <1>5, SMT
  <2>2. QED
    BY <1>1, <1>5, <2>1, Zenon DEF Highlighted, Drawn
<1>6. QED
  BY <1>4, <1>5

LEMMA ShownShow ==
  ASSUME TypeOK, TablesInv, ListsInv, IdsInv, ShownInv, Show
  PROVE  ShownInv'
<1> SUFFICES ASSUME ~strayed'
             PROVE  IF go' THEN Selected' /\ Highlighted' ELSE highlight' = 0
  <2>1. pc' = "key"
    BY ShowFacts, Zenon
  <2>2. QED
    BY <2>1, Zenon DEF ShownInv
<1>1. /\ pc = "show" /\ go /\ ~strayed /\ Act \in 0 .. 4 /\ Load(Act)
      /\ UNCHANGED <<screen, selection>>
      /\ Act = 0 => UNCHANGED highlight
      /\ Act # 0 => highlight' = Drawn
  <2>1. strayed' = strayed
    BY ShowFacts, Zenon
  <2>2. ~strayed
    BY <2>1, Zenon
  <2>3. QED
    BY <2>2, ShowFacts, Zenon
<1>2. /\ screen \in Screens /\ selection \in Int /\ Screens = 1 .. 3
      /\ rows \in [Screens -> Seq(Nat)] /\ results \in [Screens -> Nat \cup {-1}]
      /\ results' \in [Screens -> Nat \cup {-1}]
  <2>1. results' \in [Screens -> Nat \cup {-1}]
    BY <1>1, LoadFacts, ShowFacts, Zenon
  <2>2. selection \in Int
    BY SMT DEF TypeOK
  <2>3. QED
    BY <2>1, <2>2, ScreenFacts, Zenon DEF TypeOK
<1>3. /\ \/ selection = 1 /\ lastselection = 1 /\ action = screen + 1
         \/ /\ Selected
            /\ \/ action = 0 /\ (lastselection = selection => Highlighted)
               \/ action = 1 /\ lastselection = selection
               \/ action = 4 /\ lastselection = selection /\ screen = LAPS_SCREEN
  BY <1>1, Zenon DEF ShownInv
<1>4. ASSUME Act < 2
      PROVE  go' /\ rows' = rows /\ results' = results /\ curresults' = curresults
  <2>1. ~ (Act >= 2)
    BY <1>1, <1>4, SMT
  <2>2. Kept
    BY <1>1, <2>1, LoadCases, Zenon
  <2>3. QED
    BY <1>1, <2>2, Zenon DEF Kept, lists
<1>5. ASSUME Act < 2, Selected PROVE Selected'
  BY <1>1, <1>4, <1>5, Zenon DEF Selected
(* The screen's own list is loaded.                                        *)
<1>6. ASSUME Act = screen + 1
      PROVE  /\ go' => curresults' = results'[screen]
             /\ ~go' => results'[screen] = -1
  BY <1>2, <1>6, ListAfter, Zenon
<1>7. Act # 0 /\ ~go' => highlight' = 0
  <2>1. CASE Act = screen + 1 /\ ~go'
    <3>1. selection \notin 1 .. results'[screen]
      BY <1>2, <1>6, <2>1, SMT
    <3>2. QED
      BY <1>1, <3>1, Zenon DEF Drawn
  <2>2. CASE Act < 2
    BY <1>4, <2>2
  <2>3. \/ Act = screen + 1
        \/ Act < 2
    <3>1. \/ lastselection # selection
          \/ action \in {0, 1, screen + 1}
      <4>1. LAPS_SCREEN + 1 = 4
        BY SMT DEF LAPS_SCREEN
      <4>2. QED
        BY <1>3, <4>1, Zenon
    <3>2. QED
      BY <3>1, SMT DEF Act
  <2>4. QED
    BY <2>1, <2>2, <2>3
<1>8. CASE selection = 1 /\ lastselection = 1 /\ action = screen + 1
  <2>1. Act = screen + 1 /\ Act # 0
    BY <1>2, <1>8, SMT DEF Act
  <2>2. ASSUME go' PROVE Selected'
    <3>1. results'[screen] > 0 => 1 \in 1 .. results'[screen]
      BY <1>2, SMT
    <3>2. QED
      BY <1>1, <1>6, <1>8, <2>1, <2>2, <3>1, Zenon DEF Selected
  <2>3. QED
    BY <1>1, <1>7, <2>1, <2>2, DrawnIsHighlighted, Zenon
<1>9. CASE Selected /\ action = 0 /\ (lastselection = selection => Highlighted)
  <2>1. CASE lastselection = selection
    <3>1. Act = 0 /\ Act < 2
      BY <1>9, <2>1, SMT DEF Act
    <3>2. QED
      BY <1>1, <1>4, <1>5, <1>9, <2>1, <3>1, Zenon DEF Highlighted
  <2>2. CASE lastselection # selection
    <3>1. Act # 0 /\ Act < 2
      BY <2>2, SMT DEF Act
    <3>2. QED
      BY <1>1, <1>4, <1>5, <1>9, <3>1, DrawnIsHighlighted, Zenon
  <2>3. QED
    BY <2>1, <2>2
<1>10. CASE Selected /\ action = 1 /\ lastselection = selection
  <2>1. Act # 0 /\ Act < 2
    BY <1>10, SMT DEF Act
  <2>2. QED
    BY <1>1, <1>4, <1>5, <1>10, <2>1, DrawnIsHighlighted, Zenon
(* "g" reloads the laps, and laps are never removed.                       *)
<1>11. CASE Selected /\ action = 4 /\ lastselection = selection /\ screen = LAPS_SCREEN
  <2>1. Act = 4 /\ Act # 0 /\ Act = screen + 1
    BY <1>11, SMT DEF Act, LAPS_SCREEN
  <2>2. ASSUME go' PROVE Selected'
    <3>1. /\ curresults' = results'[screen]
          /\ results'[screen] = Cardinality(Of(laps, lap_useid))
      BY <1>6, <1>11, <2>1, <2>2, LapsAfter, Zenon
    <3>2. (Loading(4) /\ selection = 1) \/ LapsBelong
      BY <1>1, <1>11, Zenon DEF IdsInv
    <3>3. \/ selection = 1
          \/ results[screen] <= results'[screen]
      BY <1>11, <3>1, <3>2, Zenon DEF LapsBelong
    <3>4. IF results[screen] > 0 THEN selection \in 1 .. results[screen] ELSE selection = 1
      BY <1>11, Zenon DEF Selected
    <3>5. results'[screen] \in Nat
      BY <3>1, OfFacts, Zenon DEF TypeOK
    <3>6. IF results'[screen] > 0 THEN selection \in 1 .. results'[screen] ELSE selection = 1
      BY <1>2, <3>3, <3>4, <3>5, SMT
    <3>7. QED
      BY <1>1, <3>1, <3>6, Zenon DEF Selected
  <2>3. QED
    BY <1>1, <1>7, <2>1, <2>2, DrawnIsHighlighted, Zenon
<1>12. QED
  BY <1>3, <1>8, <1>9, <1>10, <1>11

LEMMA ShownKey ==
  ASSUME TypeOK, ListsInv, TurnInv, ShownInv, Key
  PROVE  ShownInv'
<1> SUFFICES ASSUME ~strayed', go'
             PROVE  \/ selection' = 1 /\ lastselection' = 1 /\ action' = screen' + 1
                    \/ /\ Selected'
                       /\ \/ action' = 0 /\ (lastselection' = selection' => Highlighted')
                          \/ action' = 1 /\ lastselection' = selection'
                          \/ action' = 4 /\ lastselection' = selection' /\ screen' = LAPS_SCREEN
  <2>1. pc' = IF go' THEN "show" ELSE "ended"
    BY KeyFacts, Zenon
  <2>2. QED
    BY <2>1, Zenon DEF ShownInv
<1>1. /\ pc = "key" /\ ~strayed
      /\ UNCHANGED <<rows, results, curresults, highlight>>
      /\ action = 0 /\ lastselection = selection
  BY KeyFacts, Zenon DEF TurnInv
<1>2. go
  BY Zenon DEF Key, Quit, Back, Enter, Go, Plot, Down, Up, Move,
    MarkFirst, MarkSecond, Mark, MarkThen, OtherKey
<1>3. Selected /\ Highlighted
  BY <1>1, <1>2, Zenon DEF ShownInv
<1>4. /\ screen \in 1 .. 3 /\ selection \in Nat \cup {-1} /\ curresults \in Nat \cup {-1}
      /\ results[screen] \in Nat \cup {-1}
  BY ScreenFacts, Zenon DEF TypeOK
<1>5. ASSUME NEW key, Pressed(key) PROVE ~Strays(key)
  BY <1>5, Zenon DEF Pressed
<1>6. CASE Quit
  BY <1>6, Zenon DEF Quit
<1>7. CASE Back
  <2>1. Strays("b") <=> screen = SESSIONS_SCREEN
    BY Zenon DEF Strays
  <2>2. screen # SESSIONS_SCREEN
    BY <1>5, <1>7, <2>1, Zenon DEF Back, Go
  <2>3. screen' = screen - 1 /\ screen' # screen
    BY <1>4, <1>7, <2>2, SMT DEF Back, Go
  <2>4. selection' = 1 /\ lastselection' = 1 /\ action' = screen' + 1
    BY <1>7, <2>3, Zenon DEF Back, Go
  <2>5. QED
    BY <2>4
<1>8. CASE Enter
  <2>1. Strays("e") <=> screen = LAPS_SCREEN
    <3>1. "e" # "b"
      OBVIOUS
    <3>2. QED
      BY <3>1, Zenon DEF Strays
  <2>2. screen # LAPS_SCREEN
    BY <1>5, <1>8, <2>1, Zenon DEF Enter, Go
  <2>3. screen' = screen + 1 /\ screen' # screen
    BY <1>4, <1>8, <2>2, SMT DEF Enter, Go
  <2>4. selection' = 1 /\ lastselection' = 1 /\ action' = screen' + 1
    BY <1>8, <2>3, Zenon DEF Enter, Go
  <2>5. QED
    BY <2>4
<1>9. CASE Plot
  <2>1. Strays("g") <=> screen # LAPS_SCREEN
    BY SMT DEF Strays
  <2>2. screen = LAPS_SCREEN
    BY <1>5, <1>9, <2>1, Zenon DEF Plot
  <2>3. action' = 4 /\ UNCHANGED <<screen, selection, lastselection>>
    BY <1>9, Zenon DEF Plot
  <2>4. Selected'
    BY <1>1, <1>3, <2>3, Zenon DEF Selected
  <2>5. QED
    BY <1>1, <2>2, <2>3, <2>4
<1>10. ASSUME Down \/ Up
       PROVE  Selected' /\ action' = 0 /\ (lastselection' = selection' => Highlighted')
  <2>1. UNCHANGED <<screen, action, lastselection>>
    BY <1>10, Zenon DEF Down, Up, Move
  <2>2. lastselection' = selection' => Highlighted'
    <3>1. lastselection' = selection' => selection' = selection
      BY <1>1, <2>1, Zenon
    <3>2. QED
      BY <1>1, <1>3, <2>1, <3>1, Zenon DEF Highlighted
  <2>3. IF results[screen] > 0 THEN selection' \in 1 .. results[screen] ELSE selection' = 1
    <3>1. CASE Up
      BY <1>3, <1>4, <3>1, SMT DEF Up, Move, Selected
    <3>2. CASE Down
      <4>1. Strays("down") <=> curresults <= 0
        BY SMT DEF Strays
      <4>2. ~ (curresults <= 0)
        BY <1>5, <3>2, <4>1, Zenon DEF Down, Move
      <4>3. selection' = IF selection + 1 > curresults THEN curresults ELSE selection + 1
        BY <3>2, Zenon DEF Down, Move
      <4>4. /\ curresults = results[screen]
            /\ IF results[screen] > 0 THEN selection \in 1 .. results[screen] ELSE selection = 1
        BY <1>3, Zenon DEF Selected
      <4>5. QED
        BY <1>4, <4>2, <4>3, <4>4, SMT
    <3>3. QED
      BY <1>10, <3>1, <3>2
  <2>4. Selected'
    BY <1>1, <1>3, <2>1, <2>3, Zenon DEF Selected
  <2>5. QED
    BY <1>1, <2>1, <2>2, <2>4, Zenon
<1>11. CASE MarkFirst \/ MarkSecond
  <2>1. action' = 1 /\ UNCHANGED <<screen, selection, lastselection>>
    BY <1>11, Zenon DEF MarkFirst, MarkSecond, Mark, MarkThen
  <2>2. Selected'
    BY <1>1, <1>3, <2>1, Zenon DEF Selected
  <2>3. QED
    BY <1>1, <2>1, <2>2
<1>12. CASE OtherKey
  <2>1. UNCHANGED <<screen, action, selection, lastselection>>
    BY <1>12, Zenon DEF OtherKey
  <2>2. Selected' /\ Highlighted'
    BY <1>1, <1>3, <2>1, Zenon DEF Selected, Highlighted
  <2>3. QED
    BY <1>1, <2>1, <2>2
<1>13. QED
  BY <1>6, <1>7, <1>8, <1>9, <1>10, <1>11, <1>12, Zenon DEF Key

LEMMA ShownStep ==
  ASSUME TypeOK, TablesInv, ListsInv, TurnInv, IdsInv, ShownInv, [Next]_vars
  PROVE  ShownInv'
<1>1. ASSUME UNCHANGED <<go, screen, action, selection, lastselection, highlight, strayed>>,
             UNCHANGED <<rows, results, curresults>>
      PROVE  UNCHANGED <<Selected, Highlighted>>
  BY <1>1, Zenon DEF Selected, Highlighted
<1>2. CASE Connect
  BY <1>1, <1>2, ConnectFacts, Zenon DEF ShownInv
<1>3. CASE Recording
  BY <1>1, <1>3, RecordingFacts, LoopFacts, Zenon DEF ShownInv
<1>4. CASE UNCHANGED vars
  BY <1>1, <1>4, StutterFacts, Zenon DEF ShownInv
<1>5. QED
  BY <1>2, <1>3, <1>4, ShownShow, ShownKey, StepCases

-----------------------------------------------------------------------------
(* Marks and labels.                                                       *)

(* A mark that counts is the row that is shown.                            *)
LEMMA MarkFacts ==
  ASSUME TypeOK, ListsInv, TurnInv, ShownInv, NEW key \in {"1", "2"}, NEW n \in 1 .. 2,
         Mark(key, n), ~strayed'
  PROVE  /\ go /\ screen = LAPS_SCREEN /\ action' = 1
         /\ highlight \notin {marks[1], marks[2]}
         /\ highlight \in Listed(LAPS_SCREEN)
         /\ marks' = [marks EXCEPT ![n] = highlight]
<1>1. /\ pc = "key" /\ ~strayed /\ ~Strays(key) /\ action' = 1
      /\ marks' = [marks EXCEPT ![n] = LapAt]
  BY Zenon DEF Mark, MarkThen, Pressed
<1>2. Strays(key) <=>
        \/ screen # LAPS_SCREEN \/ highlight = 0 \/ highlight \in {marks[1], marks[2]}
  BY SMT DEF Strays
<1>3. go /\ Selected /\ Highlighted
  BY <1>1, <1>2, Zenon DEF ShownInv
<1>4. results[screen] > 0
  BY <1>1, <1>2, <1>3, Zenon DEF Highlighted
<1>5. selection \in 1 .. results[screen] /\ highlight = rows[screen][selection]
  BY <1>3, <1>4, Zenon DEF Selected, Highlighted
<1>6. screen = LAPS_SCREEN /\ screen \in Screens
  BY <1>1, <1>2, Zenon DEF TypeOK
<1>7. rows[screen] \in Seq(Nat) /\ results[screen] = Len(rows[screen])
  BY <1>3, <1>6, Zenon DEF TypeOK, ListsInv
<1>8. selection \in DOMAIN rows[screen]
  BY <1>5, <1>7, LenProperties, Zenon
<1>9. LapAt = highlight
  BY <1>5, <1>6, <1>8, Zenon DEF LapAt
<1>10. highlight \in Listed(LAPS_SCREEN)
  BY <1>5, <1>6, Zenon DEF Listed
<1>11. QED
  BY <1>1, <1>2, <1>3, <1>6, <1>9, <1>10, Zenon

(* Only "1" and "2" set marks.                                             *)
LEMMA KeyMarks ==
  ASSUME Key
  PROVE  \/ Mark("1", 1) \/ Mark("2", 2)
         \/ UNCHANGED marks
  BY Zenon DEF Key, Quit, Back, Enter, Go, Plot, Down, Up, Move, MarkFirst, MarkSecond, OtherKey

LEMMA LabelsShow ==
  ASSUME TypeOK, TablesInv, ListsInv, LabelsInv, Show
  PROVE  LabelsInv'
<1> SUFFICES ASSUME ~strayed' PROVE labels' = marks'
  BY Zenon DEF LabelsInv
<1>1. /\ pc = "show" /\ go /\ UNCHANGED marks
      /\ strayed' = strayed
      /\ Act = 0 => UNCHANGED labels
      /\ Act # 0 => Draw
  BY ShowFacts, Zenon
<1>2. ~strayed
  BY <1>1, Zenon
<1>3. labels = marks \/ JustMarked
  BY <1>1, <1>2, Zenon DEF LabelsInv
<1>4. marks = <<marks[1], marks[2]>>
  <2>1. marks \in [1 .. 2 -> Nat \cup {Junk}]
    BY Zenon DEF TypeOK
  <2>2. QED
    BY <2>1, SMT
<1>5. SESSIONS_SCREEN # LAPS_SCREEN /\ STINTS_SCREEN # LAPS_SCREEN
  BY SMT DEF SESSIONS_SCREEN, STINTS_SCREEN, LAPS_SCREEN
<1>6. CASE labels = marks
  <2>1. CASE UNCHANGED labels
    BY <1>1, <1>6, <2>1
  <2>2. CASE DrawLaps
    <3>1. labels' = <<marks[1], marks[2]>>
      BY <1>6, <2>2, Zenon DEF DrawLaps
    <3>2. QED
      BY <1>1, <1>4, <3>1, Zenon
  <2>3. QED
    BY <1>1, <2>1, <2>2, DrawFacts, Zenon DEF DrawSessions, DrawStints
<1>7. CASE JustMarked
  <2>1. Act = 1 /\ Act < 2 /\ Act # 0 /\ ~ (Act >= 2) /\ Act \in 0 .. 4
    BY <1>7, SMT DEF Act, JustMarked
  <2>2. rows' = rows /\ results' = results
    BY <2>1, ShowFacts, LoadCases, Zenon DEF Kept, lists
  <2>3. DrawLaps
    BY <1>1, <1>5, <1>7, <2>1, DrawFacts, Zenon DEF JustMarked
  <2>4. labels' = <<IF marks[1] \in Listed(LAPS_SCREEN) THEN marks[1] ELSE labels[1],
                    IF marks[2] \in Listed(LAPS_SCREEN) \ {marks[1]} THEN marks[2] ELSE labels[2]>>
    BY <2>2, <2>3, Zenon DEF DrawLaps, Listed
  <2>5. labels' = <<marks[1], marks[2]>>
    BY <1>7, <2>4, Zenon DEF JustMarked
  <2>6. QED
    BY <1>1, <1>4, <2>5, Zenon
<1>8. QED
  BY <1>3, <1>6, <1>7

LEMMA LabelsKey ==
  ASSUME TypeOK, ListsInv, TurnInv, ShownInv, LabelsInv, Key
  PROVE  LabelsInv'
<1> SUFFICES ASSUME ~strayed', go' PROVE labels' = marks' \/ JustMarked'
  BY Zenon DEF LabelsInv
<1>1. /\ pc = "key" /\ ~strayed /\ pc' = "show"
      /\ UNCHANGED <<rows, results, labels>>
  BY KeyFacts, Zenon
<1>2. go
  BY Zenon DEF Key, Quit, Back, Enter, Go, Plot, Down, Up, Move,
    MarkFirst, MarkSecond, Mark, MarkThen, OtherKey
<1>3. labels = marks
  BY <1>1, <1>2, Zenon DEF LabelsInv, JustMarked
<1>4. CASE UNCHANGED marks
  BY <1>1, <1>3, <1>4, Zenon
<1>5. ASSUME NEW key \in {"1", "2"}, NEW n \in 1 .. 2, Mark(key, n)
      PROVE  JustMarked'
  <2>1. /\ screen = LAPS_SCREEN /\ action' = 1
        /\ highlight \notin {marks[1], marks[2]}
        /\ highlight \in Listed(LAPS_SCREEN)
        /\ marks' = [marks EXCEPT ![n] = highlight]
    BY <1>5, MarkFacts, Zenon
  <2>2. screen' = screen
    BY <1>5, Zenon DEF Mark, MarkThen
  <2>3. Listed(LAPS_SCREEN)' = Listed(LAPS_SCREEN)
    BY <1>1, Zenon DEF Listed
  <2>4. \/ marks'[1] = highlight /\ marks'[2] = marks[2]
        \/ marks'[2] = highlight /\ marks'[1] = marks[1]
    BY <2>1, SMT DEF TypeOK
  <2>5. QED
    BY <1>1, <1>3, <2>1, <2>2, <2>3, <2>4, Zenon DEF JustMarked
<1>6. 1 \in 1 .. 2 /\ 2 \in 1 .. 2
  BY SMT
<1>7. QED
  BY <1>4, <1>5, <1>6, KeyMarks, Zenon

LEMMA LabelsStep ==
  ASSUME TypeOK, TablesInv, ListsInv, TurnInv, ShownInv, LabelsInv, [Next]_vars
  PROVE  LabelsInv'
<1>1. ASSUME UNCHANGED <<pc, screen, action, rows, results, marks, labels>>
      PROVE  UNCHANGED JustMarked
  BY <1>1, Zenon DEF JustMarked, Listed
<1>2. CASE Connect
  <2>1. /\ pc = "connect" /\ UNCHANGED <<strayed, go, marks, labels>>
    BY <1>2, ConnectFacts, Zenon
  <2>2. QED
    BY <2>1, Zenon DEF LabelsInv, JustMarked
<1>3. CASE Recording
  BY <1>1, <1>3, RecordingFacts, LoopFacts, Zenon DEF LabelsInv
<1>4. CASE UNCHANGED vars
  BY <1>1, <1>4, StutterFacts, Zenon DEF LabelsInv
<1>5. QED
  BY <1>2, <1>3, <1>4, LabelsShow, LabelsKey, StepCases

-----------------------------------------------------------------------------
(* The theorems.                                                           *)

LEMMA BrowseInit == Init => BrowseInv
<1> SUFFICES ASSUME Init PROVE BrowseInv
  OBVIOUS
<1> USE DEF Init
<1>1. TypeOK
  <2>1. <<>> \in Seq(Nat) /\ Len(<<>>) = 0
    BY EmptySeq, Zenon
  <2>2. rows \in [Screens -> Seq(Nat)] /\ stints \in Seq(Nat) /\ laps \in Seq(Nat)
    BY <2>1, Zenon
  <2>3. /\ results \in [Screens -> Nat \cup {-1}] /\ curresults \in Nat \cup {-1}
        /\ selection \in Nat \cup {-1} /\ lastselection \in Nat \cup {-1}
        /\ action \in 0 .. 4 /\ highlight \in Nat /\ nsessions \in Nat
    BY SMT
  <2>4. screen \in Screens
    BY Zenon DEF Screens
  <2>5. stint_useid \in 0 .. nsessions /\ lap_useid \in 0 .. Len(stints)
    BY <2>1, SMT
  <2>6. marks \in [1 .. 2 -> Nat \cup {Junk}] /\ labels \in [1 .. 2 -> Nat \cup {Junk}]
    <3>1. <<0, 0>> \in [1 .. 2 -> Nat \cup {Junk}]
      BY SMT
    <3>2. QED
      BY <3>1, Zenon
  <2>7. QED
    BY <2>2, <2>3, <2>4, <2>5, <2>6, Zenon DEF TypeOK
<1>2. TablesInv
  BY SMT DEF TablesInv
<1>3. ListsInv
  <2>1. \A s \in Screens : results[s] = 0 /\ rows[s] = <<>>
    BY Zenon
  <2>2. Len(<<>>) = 0 /\ 0 <= 0 /\ 1 .. 0 = {}
    BY SMT
  <2>3. \A s \in Screens : Listed(s) = {}
    BY <2>1, <2>2, Zenon DEF Listed
  <2>4. QED
    BY <2>1, <2>2, <2>3, Zenon DEF ListsInv
<1>4. TurnInv
  BY Zenon DEF TurnInv
<1>5. IdsInv
  BY SMT DEF IdsInv, SESSIONS_SCREEN, STINTS_SCREEN, LAPS_SCREEN
<1>6. ShownInv
  BY SMT DEF ShownInv, SESSIONS_SCREEN
<1>7. LabelsInv
  BY Zenon DEF LabelsInv
<1>8. QED
  BY <1>1, <1>2, <1>3, <1>4, <1>5, <1>6, <1>7, Zenon DEF BrowseInv

LEMMA BrowseStep == BrowseInv /\ [Next]_vars => BrowseInv'
  BY TypeStep, TablesStep, ListsStep, TurnStep, IdsStep, ShownStep, LabelsStep, Zenon
     DEF BrowseInv

(* The whole invariant: tables, lists, ids, what is shown and the labels.  *)
THEOREM BrowseInvariant == Spec => []BrowseInv
  BY BrowseInit, BrowseStep, PTL DEF Spec

(* The variables keep their types: a remembered id is the number of a row  *)
(* of its table or 0, whatever keys are pressed (runbrowser's loop).       *)
THEOREM TypeCorrect == Spec => []TypeOK
<1>1. BrowseInv => TypeOK
  BY Zenon DEF BrowseInv
<1>2. QED
  BY <1>1, BrowseInvariant, PTL

(* The laps on LAPS_SCREEN are of one stint, of the session that was       *)
(* opened, whatever the other process records meanwhile.                   *)
THEOREM LapsCorrect == Spec => []LapsShownBelong
<1>1. BrowseInv => LapsShownBelong
  <2> SUFFICES ASSUME BrowseInv, pc = "key", screen = LAPS_SCREEN,
                      NEW i \in 1 .. results[LAPS_SCREEN]
               PROVE  /\ laps[rows[LAPS_SCREEN][i]] = lap_useid
                      /\ stints[laps[rows[LAPS_SCREEN][i]]] = stint_useid
    BY Zenon DEF LapsShownBelong
  <2> DEFINE l == rows[LAPS_SCREEN][i]
  <2>1. TypeOK /\ TablesInv /\ ListsInv /\ Belongs /\ LapsBelong
    BY Zenon DEF BrowseInv, IdsInv, Loading
  <2>2. l \in Listed(LAPS_SCREEN) /\ LAPS_SCREEN \in Screens
    BY Zenon DEF Listed, Screens
  <2>3. laps[l] = lap_useid /\ l \in DOMAIN laps
    BY <2>1, <2>2, Zenon DEF LapsBelong, ListsInv, IsRow
  <2>4. lap_useid # 0
    <3>1. lap_useid \in 1 .. Len(stints)
      BY <2>1, <2>3, Zenon DEF TablesInv
    <3>2. QED
      BY <3>1, SMT
  <2>5. stints[lap_useid] = stint_useid
    BY <2>1, <2>4, Zenon DEF Belongs
  <2>6. QED
    BY <2>3, <2>5, Zenon
<1>2. QED
  BY <1>1, BrowseInvariant, PTL

(* Until an unchecked key is pressed, the row drawn as selected is the     *)
(* selected one at every key.                                              *)
THEOREM SelectionCorrect == Spec => []SelectionIsShown
<1>1. BrowseInv => SelectionIsShown
  BY Zenon DEF BrowseInv, ShownInv, Selected, Highlighted, SelectionIsShown
<1>2. QED
  BY <1>1, BrowseInvariant, PTL

(* "1" and "2" mark the lap that is shown as selected, and no other key    *)
(* sets a mark.                                                            *)
THEOREM MarksCorrect == Spec => MarksWhatIsShown
<1> DEFINE A == ~strayed' => \A n \in 1 .. 2 : marks'[n] # marks[n] => marks'[n] = highlight
<1>1. BrowseInv /\ [Next]_vars => [A]_vars
  <2> SUFFICES ASSUME BrowseInv, [Next]_vars, ~strayed', NEW n \in 1 .. 2,
                      marks'[n] # marks[n]
               PROVE  marks'[n] = highlight
    OBVIOUS
  <2>1. TypeOK /\ TablesInv /\ ListsInv /\ TurnInv /\ ShownInv
    BY Zenon DEF BrowseInv
  <2>2. Key
    BY <2>1, StepCases, ConnectFacts, ShowFacts, RecordingFacts, LoopFacts, StutterFacts, Zenon
  <2>3. ASSUME NEW key \in {"1", "2"}, NEW m \in 1 .. 2, Mark(key, m)
        PROVE  marks'[n] = highlight
    <3>1. marks' = [marks EXCEPT ![m] = highlight]
      BY <2>1, <2>3, MarkFacts, Zenon
    <3>2. QED
      BY <2>1, <3>1, SMT DEF TypeOK
  <2>4. 1 \in 1 .. 2 /\ 2 \in 1 .. 2
    BY SMT
  <2>5. QED
    BY <2>2, <2>3, <2>4, KeyMarks, Zenon
<1>2. QED
  BY <1>1, BrowseInvariant, PTL DEF Spec, MarksWhatIsShown

(* The times that gnuplot gets are those of the marked laps, also when the *)
(* marks were set on lists of different stints.                            *)
THEOREM LabelsCorrect == Spec => []LabelsMatchMarks
<1>1. BrowseInv => LabelsMatchMarks
  BY Zenon DEF BrowseInv, LabelsInv, JustMarked, LabelsMatchMarks
<1>2. QED
  BY <1>1, BrowseInvariant, PTL
=============================================================================
