-------------------------- MODULE TestSessionProofs --------------------------
(***************************************************************************)
(* SessionInvariant holds in every state of TestSession, for both suites,  *)
(* every set of Machine-IDs, every number of runs and of sessions.         *)
(*                                                                         *)
(* One lemma per action shows that it is preserved; two lemmas before them *)
(* serve the actions that leave the result directories alone and those     *)
(* that end a program.                                                     *)
(***************************************************************************)
EXTENDS TestSession, TLAPS

\* The invariant holds initially.
LEMMA InitInvariant == Init => SessionInvariant
<1> SUFFICES ASSUME Init PROVE SessionInvariant
  OBVIOUS
<1> USE SessionAssumption DEF Init
<1>1. TypeOK
  BY DEF TypeOK, NoOptions, NoParse, Stage, Run
<1>2. UpOneSession /\ ParsedOneSession /\ NoDirectoryNoFile
  BY DEF UpOneSession, ParsedOneSession, OneSession, NoDirectoryNoFile
<1>3. SessionsSoFar /\ Place
  BY DEF SessionsSoFar, Place, Dialogue
<1> QED
  BY <1>1, <1>2, <1>3 DEF SessionInvariant

\* A program that ends leaves well-typed variables behind.
LEMMA EndTypes ==
  ASSUME End
  PROVE  /\ stage' = "idle" /\ stage' \in Stage /\ done' \in 0..(2 * MaxRuns)
         /\ options' \in [num_run : Run, default : BOOLEAN,
                          parse_results : BOOLEAN, replace_old_results : BOOLEAN]
         /\ machine_num' \in MachineId /\ path' \in MachineId
         /\ parse' \in [id : MachineId, runs : Run, replace : BOOLEAN, auto : BOOLEAN]
  BY SessionAssumption DEF End, NoOptions, NoParse, Stage, Run

\* What an action preserves that changes no result directory.
LEMMA StoreUnchanged ==
  ASSUME SessionInvariant, UNCHANGED <<session, store>>
  PROVE  /\ UpOneSession' /\ ParsedOneSession' /\ NoDirectoryNoFile'
         /\ \A i \in MachineId : \A f \in up'[i] : f.by <= session'
         /\ session' \in 0..MaxSessions
         /\ up_dir' \in SUBSET MachineId /\ parsed_dir' \in SUBSET MachineId
         /\ up' \in [MachineId -> SUBSET File] /\ parsed' \in [MachineId -> SUBSET File]
  BY DEF SessionInvariant, TypeOK, UpOneSession, ParsedOneSession, NoDirectoryNoFile,
         SessionsSoFar, store

\* A program ends and leaves its result directories as they are.
LEMMA EndPreserves ==
  ASSUME SessionInvariant, End, UNCHANGED <<session, store>>
  PROVE  SessionInvariant'
<1>1. TypeOK'
  BY EndTypes, StoreUnchanged DEF TypeOK
<1>2. SessionsSoFar' /\ Place'
  BY StoreUnchanged, EndTypes DEF SessionsSoFar, Place, Dialogue
<1> QED
  BY <1>1, <1>2, StoreUnchanged DEF SessionInvariant

\* A session starts.
LEMMA ConfigurePreserves ==
  ASSUME SessionInvariant, NEW i \in MachineId, NEW default \in BOOLEAN, Configure(i, default)
  PROVE  SessionInvariant'
<1>1. /\ session' = session + 1 /\ session < MaxSessions
      /\ machine_num' = i /\ path' = i
      /\ stage' = IF i \in up_dir THEN "clash" ELSE "parsed_check"
      /\ up_dir' = up_dir \cup {i}
      /\ done' = done /\ parse' = parse /\ up' = up /\ parsed_dir' = parsed_dir /\ parsed' = parsed
  BY DEF Configure
<1>2. TypeOK /\ session \in Nat
  BY DEF SessionInvariant, TypeOK
<1>3. options' \in [num_run : Run, default : BOOLEAN,
                   parse_results : BOOLEAN, replace_old_results : BOOLEAN]
  <2>1. PICK n \in Run, flag \in {"not given", "yes", "no"} :
          options' = [num_run |-> n, default |-> default,
                      parse_results |-> ParseResults(flag), replace_old_results |-> FALSE]
    BY DEF Configure
  <2>2. ParseResults(flag) \in BOOLEAN
    BY DEF ParseResults
  <2> QED
    BY <2>1, <2>2
<1>4. TypeOK'
  BY <1>1, <1>2, <1>3, SessionAssumption DEF TypeOK, Stage, Dialogue
<1>5. UpOneSession' /\ ParsedOneSession' /\ NoDirectoryNoFile'
  BY <1>1 DEF SessionInvariant, UpOneSession, ParsedOneSession, NoDirectoryNoFile, OneSession
<1>6. SessionsSoFar'
  <2>1. ASSUME NEW j \in MachineId, NEW f \in up[j]
        PROVE  f.by \in Nat /\ f.by <= session
    BY <1>2 DEF TypeOK, SessionInvariant, SessionsSoFar, File
  <2>2. ASSUME NEW j \in MachineId, NEW f \in up'[j]
        PROVE  f.by <= session'
    <3>1. f \in up[j]
      BY <1>1
    <3> QED
      BY <1>1, <1>2, <2>1, <3>1
  <2>3. session' >= 1
    BY <1>1, <1>2
  <2> QED
    BY <2>2, <2>3 DEF SessionsSoFar
<1>7. Place'
  BY <1>1 DEF SessionInvariant, NoDirectoryNoFile, Place, Dialogue
<1> QED
  BY <1>4, <1>5, <1>6, <1>7 DEF SessionInvariant

\* The user replaces old results.
LEMMA ReplaceResultsPreserves ==
  ASSUME SessionInvariant, ReplaceResults
  PROVE  SessionInvariant'
<1> USE SessionAssumption DEF SessionInvariant, ReplaceResults, store, local
<1>1. TypeOK'
  BY EndTypes DEF TypeOK, Stage, Dialogue, Parsing, Run
<1>2. UpOneSession'
  BY EndTypes DEF UpOneSession, OneSession, SessionsSoFar, Place, TypeOK, NoDirectoryNoFile
<1>3. ParsedOneSession'
  BY EndTypes DEF ParsedOneSession, OneSession, UpOneSession, Place, TypeOK, NoDirectoryNoFile
<1>4. NoDirectoryNoFile'
  BY EndTypes DEF NoDirectoryNoFile, TypeOK
<1>5. SessionsSoFar'
  BY EndTypes DEF SessionsSoFar, TypeOK, Dialogue, Place
<1>6. Place'
  BY EndTypes DEF Place, TypeOK, Dialogue, NoDirectoryNoFile
<1> QED
  BY <1>1, <1>2, <1>3, <1>4, <1>5, <1>6

\* The user chooses another Machine-ID.
LEMMA AssignMachinePreserves ==
  ASSUME SessionInvariant, NEW i \in MachineId, AssignMachine(i)
  PROVE  SessionInvariant'
<1> USE SessionAssumption DEF SessionInvariant, AssignMachine, store, local
<1>1. TypeOK'
  BY EndTypes DEF TypeOK, Stage, Dialogue, Parsing, Run
<1>2. UpOneSession'
  BY EndTypes DEF UpOneSession, OneSession, SessionsSoFar, Place, TypeOK, NoDirectoryNoFile
<1>3. ParsedOneSession'
  BY EndTypes DEF ParsedOneSession, OneSession, UpOneSession, Place, TypeOK, NoDirectoryNoFile
<1>4. NoDirectoryNoFile'
  BY EndTypes DEF NoDirectoryNoFile, TypeOK
<1>5. SessionsSoFar'
  BY EndTypes DEF SessionsSoFar, TypeOK, Dialogue, Place
<1>6. Place'
  BY EndTypes DEF Place, TypeOK, Dialogue, NoDirectoryNoFile
<1> QED
  BY <1>1, <1>2, <1>3, <1>4, <1>5, <1>6

\* The dialogue about parsed results.
LEMMA CheckParsedPreserves ==
  ASSUME SessionInvariant, CheckParsed
  PROVE  SessionInvariant'
<1> USE SessionAssumption DEF SessionInvariant, CheckParsed, store, local
<1>1. TypeOK'
  <2>1. options' \in [num_run : Run, default : BOOLEAN,
                       parse_results : BOOLEAN, replace_old_results : BOOLEAN]
    BY DEF TypeOK
  <2>2. machine_num' \in MachineId /\ stage' \in Stage /\ done' \in 0..(2 * MaxRuns)
    BY DEF TypeOK, Stage
  <2> QED
    BY <2>1, <2>2 DEF TypeOK
<1>2. UpOneSession'
  BY EndTypes DEF UpOneSession, OneSession, SessionsSoFar, Place, TypeOK, NoDirectoryNoFile
<1>3. ParsedOneSession'
  BY EndTypes DEF ParsedOneSession, OneSession, UpOneSession, Place, TypeOK, NoDirectoryNoFile
<1>4. NoDirectoryNoFile'
  BY EndTypes DEF NoDirectoryNoFile, TypeOK
<1>5. SessionsSoFar'
  BY EndTypes DEF SessionsSoFar, TypeOK, Dialogue, Place
<1>6. Place'
  BY EndTypes DEF Place, TypeOK, Dialogue, NoDirectoryNoFile
<1> QED
  BY <1>1, <1>2, <1>3, <1>4, <1>5, <1>6

\* A measurement is stored in a directory that holds this session only.
LEMMA MeasurePreserves ==
  ASSUME SessionInvariant, Measure
  PROVE  SessionInvariant'
<1> USE SessionAssumption DEF SessionInvariant, Measure, Measured, Kept, Run, File, Kind, store, local
<1>1. TypeOK'
  <2>1. /\ done \in Nat /\ options.num_run \in 1..MaxRuns /\ MaxRuns \in Nat
        /\ session \in 1..MaxSessions /\ path \in MachineId
    BY DEF TypeOK, SessionsSoFar, Dialogue
  <2>2. done' \in 0..(2 * MaxRuns)
    BY <2>1
  <2>3. Measured(done, options.num_run) \in File
    BY <2>1
  <2>4. up' \in [MachineId -> SUBSET File]
    <3> DEFINE new == Measured(done, options.num_run)
    <3>1. CASE up' = [up EXCEPT ![path] = {f \in @ : Kept(f, new)} \cup {new}]
      <4> HIDE DEF new
      <4>1. new \in File
        BY <2>3 DEF new
      <4>2. up \in [MachineId -> SUBSET File]
        BY DEF TypeOK
      <4>3. {f \in up[path] : Kept(f, new)} \cup {new} \in SUBSET File
        BY <2>1, <4>1, <4>2
      <4> HIDE DEF Kept, File
      <4> QED
        BY <2>1, <3>1, <4>2, <4>3
    <3>2. CASE UNCHANGED up
      BY <3>2 DEF TypeOK
    <3> QED
      BY <3>1, <3>2
  <2> QED
    BY <2>2, <2>4 DEF TypeOK
<1>2. UpOneSession'
  BY EndTypes DEF UpOneSession, OneSession, SessionsSoFar, Place, TypeOK, NoDirectoryNoFile
<1>3. ParsedOneSession'
  BY EndTypes DEF ParsedOneSession, OneSession, UpOneSession, Place, TypeOK, NoDirectoryNoFile
<1>4. NoDirectoryNoFile'
  BY EndTypes DEF NoDirectoryNoFile, TypeOK
<1>5. SessionsSoFar'
  BY EndTypes DEF SessionsSoFar, TypeOK, Dialogue, Place
<1>6. Place'
  BY EndTypes DEF Place, TypeOK, Dialogue, NoDirectoryNoFile
<1> QED
  BY <1>1, <1>2, <1>3, <1>4, <1>5, <1>6

\* The tests are complete.
LEMMA TestsEndPreserves ==
  ASSUME SessionInvariant, TestsEnd
  PROVE  SessionInvariant'
<1> USE SessionAssumption DEF SessionInvariant, TestsEnd, store, local
<1>1. TypeOK'
  <2>1. CASE End
    BY <2>1, EndTypes DEF TypeOK
  <2>2. CASE parse' = [id |-> machine_num, runs |-> options.num_run,
                       replace |-> options.replace_old_results, auto |-> TRUE]
             /\ stage' = "replace" /\ UNCHANGED <<options, machine_num, path, done>>
    <3>1. machine_num \in MachineId /\ options.num_run \in Run
          /\ options.replace_old_results \in BOOLEAN
      BY DEF TypeOK
    <3>2. parse' \in [id : MachineId, runs : Run, replace : BOOLEAN, auto : BOOLEAN]
      BY <2>2, <3>1
    <3> QED
      BY <2>2, <3>2 DEF TypeOK, Stage, Parsing
  <2> QED
    BY <2>1, <2>2
<1>2. UpOneSession'
  BY EndTypes DEF UpOneSession, OneSession, SessionsSoFar, Place, TypeOK, NoDirectoryNoFile
<1>3. ParsedOneSession'
  BY EndTypes DEF ParsedOneSession, OneSession, UpOneSession, Place, TypeOK, NoDirectoryNoFile
<1>4. NoDirectoryNoFile'
  BY EndTypes DEF NoDirectoryNoFile, TypeOK
<1>5. SessionsSoFar'
  BY EndTypes DEF SessionsSoFar, TypeOK, Dialogue, Place
<1>6. Place'
  BY EndTypes DEF Place, TypeOK, Dialogue, NoDirectoryNoFile
<1> QED
  BY <1>1, <1>2, <1>3, <1>4, <1>5, <1>6

\* The user calls the parser.
LEMMA ManualParsePreserves ==
  ASSUME SessionInvariant, ManualParse
  PROVE  SessionInvariant'
<1> USE SessionAssumption DEF SessionInvariant, ManualParse, Run, store, local
<1>1. TypeOK'
  BY EndTypes DEF TypeOK, Stage, Dialogue, Parsing, Run
<1>2. UpOneSession'
  BY EndTypes DEF UpOneSession, OneSession, SessionsSoFar, Place, TypeOK, NoDirectoryNoFile
<1>3. ParsedOneSession'
  BY EndTypes DEF ParsedOneSession, OneSession, UpOneSession, Place, TypeOK, NoDirectoryNoFile
<1>4. NoDirectoryNoFile'
  BY EndTypes DEF NoDirectoryNoFile, TypeOK
<1>5. SessionsSoFar'
  BY EndTypes DEF SessionsSoFar, TypeOK, Dialogue, Place
<1>6. Place'
  BY EndTypes DEF Place, TypeOK, Dialogue, NoDirectoryNoFile
<1> QED
  BY <1>1, <1>2, <1>3, <1>4, <1>5, <1>6

\* The parser makes its directory.
LEMMA CreateResultsDirPreserves ==
  ASSUME SessionInvariant, CreateResultsDir
  PROVE  SessionInvariant'
<1> USE SessionAssumption DEF SessionInvariant, CreateResultsDir, ReplaceAll, store, local
<1>1. TypeOK'
  BY EndTypes DEF TypeOK, Stage, Dialogue, Parsing, Run
<1>2. UpOneSession'
  BY EndTypes DEF UpOneSession, OneSession, SessionsSoFar, Place, TypeOK, NoDirectoryNoFile
<1>3. ParsedOneSession'
  BY EndTypes DEF ParsedOneSession, OneSession, UpOneSession, Place, TypeOK, NoDirectoryNoFile
<1>4. NoDirectoryNoFile'
  BY EndTypes DEF NoDirectoryNoFile, TypeOK
<1>5. SessionsSoFar'
  BY EndTypes DEF SessionsSoFar, TypeOK, Dialogue, Place
<1>6. Place'
  BY EndTypes DEF Place, TypeOK, Dialogue, NoDirectoryNoFile
<1> QED
  BY <1>1, <1>2, <1>3, <1>4, <1>5, <1>6

\* The user answers the parser.
LEMMA AnswerPreserves ==
  ASSUME SessionInvariant, Answer
  PROVE  SessionInvariant'
<1> USE SessionAssumption DEF SessionInvariant, Answer, ReplaceAll, store, local
<1>1. TypeOK'
  BY EndTypes DEF TypeOK, Stage, Dialogue, Parsing, Run
<1>2. UpOneSession'
  BY EndTypes DEF UpOneSession, OneSession, SessionsSoFar, Place, TypeOK, NoDirectoryNoFile
<1>3. ParsedOneSession'
  BY EndTypes DEF ParsedOneSession, OneSession, UpOneSession, Place, TypeOK, NoDirectoryNoFile
<1>4. NoDirectoryNoFile'
  BY EndTypes DEF NoDirectoryNoFile, TypeOK
<1>5. SessionsSoFar'
  BY EndTypes DEF SessionsSoFar, TypeOK, Dialogue, Place
<1>6. Place'
  BY EndTypes DEF Place, TypeOK, Dialogue, NoDirectoryNoFile
<1> QED
  BY <1>1, <1>2, <1>3, <1>4, <1>5, <1>6

\* The old parsed results have been moved.
LEMMA ResumePreserves ==
  ASSUME SessionInvariant, Resume
  PROVE  SessionInvariant'
<1> USE SessionAssumption DEF SessionInvariant, Resume, store, local
<1>1. TypeOK'
  BY EndTypes DEF TypeOK, Stage, Dialogue, Parsing, Run
<1>2. UpOneSession'
  BY EndTypes DEF UpOneSession, OneSession, SessionsSoFar, Place, TypeOK, NoDirectoryNoFile
<1>3. ParsedOneSession'
  BY EndTypes DEF ParsedOneSession, OneSession, UpOneSession, Place, TypeOK, NoDirectoryNoFile
<1>4. NoDirectoryNoFile'
  BY EndTypes DEF NoDirectoryNoFile, TypeOK
<1>5. SessionsSoFar'
  BY EndTypes DEF SessionsSoFar, TypeOK, Dialogue, Place
<1>6. Place'
  BY EndTypes DEF Place, TypeOK, Dialogue, NoDirectoryNoFile
<1> QED
  BY <1>1, <1>2, <1>3, <1>4, <1>5, <1>6

\* A file is parsed into a directory that holds results of its session only.
LEMMA ParseFilePreserves ==
  ASSUME SessionInvariant, ParseFile
  PROVE  SessionInvariant'
<1> USE SessionAssumption DEF SessionInvariant, ParseFile, FilesOf, Run, store, local
<1>1. TypeOK'
  BY EndTypes DEF TypeOK, Stage, Dialogue, Parsing, Run
<1>2. UpOneSession'
  BY EndTypes DEF UpOneSession, OneSession, SessionsSoFar, Place, TypeOK, NoDirectoryNoFile
<1>3. ParsedOneSession'
  BY EndTypes DEF ParsedOneSession, OneSession, UpOneSession, Place, TypeOK, NoDirectoryNoFile
<1>4. NoDirectoryNoFile'
  BY EndTypes DEF NoDirectoryNoFile, Place, TypeOK
<1>5. SessionsSoFar'
  BY EndTypes DEF SessionsSoFar, TypeOK, Dialogue, Place
<1>6. Place'
  BY EndTypes DEF Place, TypeOK, Dialogue, NoDirectoryNoFile
<1> QED
  BY <1>1, <1>2, <1>3, <1>4, <1>5, <1>6

\* The user moves parsed results away.
LEMMA MoveParsedPreserves ==
  ASSUME SessionInvariant, NEW i \in MachineId, MoveParsed(i)
  PROVE  SessionInvariant'
<1> USE SessionAssumption DEF SessionInvariant, MoveParsed, store, local
<1>1. TypeOK'
  BY EndTypes DEF TypeOK, Stage, Dialogue, Parsing, Run
<1>2. UpOneSession'
  BY EndTypes DEF UpOneSession, OneSession, SessionsSoFar, Place, TypeOK, NoDirectoryNoFile
<1>3. ParsedOneSession'
  BY EndTypes DEF ParsedOneSession, OneSession, UpOneSession, Place, TypeOK, NoDirectoryNoFile
<1>4. NoDirectoryNoFile'
  BY EndTypes DEF NoDirectoryNoFile, TypeOK
<1>5. SessionsSoFar'
  BY EndTypes DEF SessionsSoFar, TypeOK, Dialogue, Place
<1>6. Place'
  BY EndTypes DEF Place, TypeOK, Dialogue, NoDirectoryNoFile
<1> QED
  BY <1>1, <1>2, <1>3, <1>4, <1>5, <1>6

\* Nothing happens.
LEMMA StutterPreserves ==
  ASSUME SessionInvariant, UNCHANGED vars
  PROVE  SessionInvariant'
  BY DEF SessionInvariant, TypeOK, UpOneSession, ParsedOneSession, NoDirectoryNoFile,
         SessionsSoFar, Place, vars, local, store

\* Every step preserves the invariant.
LEMMA NextPreserves ==
  ASSUME SessionInvariant, [Next]_vars
  PROVE  SessionInvariant'
<1>1. CASE StartSession
  BY <1>1, SessionAssumption, ConfigurePreserves DEF StartSession
<1>2. CASE ReplaceResults
  BY <1>2, ReplaceResultsPreserves
<1>3. CASE CheckParsed
  BY <1>3, CheckParsedPreserves
<1>4. CASE Measure
  BY <1>4, MeasurePreserves
<1>5. CASE TestsEnd
  BY <1>5, TestsEndPreserves
<1>6. CASE \E i \in MachineId : AssignMachine(i)
  BY <1>6, AssignMachinePreserves
<1>7. CASE ManualParse
  BY <1>7, ManualParsePreserves
<1>8. CASE CreateResultsDir
  BY <1>8, CreateResultsDirPreserves
<1>9. CASE Answer
  BY <1>9, AnswerPreserves
<1>10. CASE Resume
  BY <1>10, ResumePreserves
<1>11. CASE ParseFile
  BY <1>11, ParseFilePreserves
<1>12. CASE NoUpResults \/ ParseEnds \/ Stop
  BY <1>12, EndPreserves DEF NoUpResults, ParseEnds, Stop
<1>13. CASE \E i \in MachineId : MoveParsed(i)
  BY <1>13, MoveParsedPreserves
<1>14. CASE UNCHANGED vars
  BY <1>14, StutterPreserves
<1> QED
  BY <1>1, <1>2, <1>3, <1>4, <1>5, <1>6, <1>7, <1>8, <1>9, <1>10, <1>11, <1>12, <1>13, <1>14
  DEF Next, Controller, Parser

\* The inductive invariant of the result directories.
THEOREM SessionInvariantHolds == Spec => []SessionInvariant
<1>1. Init => SessionInvariant
  BY InitInvariant
<1>2. SessionInvariant /\ [Next]_vars => SessionInvariant'
  BY NextPreserves
<1> QED
  BY <1>1, <1>2, PTL DEF Spec

\* Type correctness of the controller, the parser and the directories.
THEOREM SessionTypeCorrect == Spec => []TypeOK
<1>1. SessionInvariant => TypeOK
  BY DEF SessionInvariant
<1> QED
  BY <1>1, SessionInvariantHolds, PTL

\* The unparsed results of a machine never mix two sessions, wherever the
\* sessions before were stopped.
THEOREM UpOneSessionHolds == Spec => []UpOneSession
<1>1. SessionInvariant => UpOneSession
  BY DEF SessionInvariant
<1> QED
  BY <1>1, SessionInvariantHolds, PTL

\* Nor do the parsed results.
THEOREM ParsedOneSessionHolds == Spec => []ParsedOneSession
<1>1. SessionInvariant => ParsedOneSession
  BY DEF SessionInvariant
<1> QED
  BY <1>1, SessionInvariantHolds, PTL

\* No step but the answer to the warning about a Machine-ID removes results of
\* an earlier session from it.
THEOREM OldResultsKeptHolds == Spec => OldResultsKept
<1>1. SessionInvariant /\ [Next]_vars =>
        [\A i \in MachineId :
           \/ stage = "clash" /\ machine_num = i
           \/ \A f \in up[i] : f.by < session => f \in up'[i]]_vars
  <2> SUFFICES ASSUME SessionInvariant, [Next]_vars, NEW i \in MachineId
               PROVE  \/ stage = "clash" /\ machine_num = i
                      \/ \A f \in up[i] : f.by < session => f \in up'[i]
    OBVIOUS
  <2>1. CASE ReplaceResults
    BY <2>1 DEF ReplaceResults, SessionInvariant, Place, TypeOK, Dialogue
  <2>2. CASE Measure
    BY <2>2 DEF Measure, Kept, SessionInvariant, Place, TypeOK
  <2>3. CASE UNCHANGED up
    BY <2>3
  <2> QED
    BY <2>1, <2>2, <2>3 DEF Next, Controller, Parser, StartSession, Configure, CheckParsed, TestsEnd,
       AssignMachine, ManualParse, NoUpResults, CreateResultsDir, Answer, Resume, ParseFile,
       ParseEnds, Stop, MoveParsed, vars, store
<1> QED
  BY <1>1, SessionInvariantHolds, PTL DEF Spec, OldResultsKept

(***************************************************************************)
(* What a session of the computational suite has parsed when its parser    *)
(* comes to its end.                                                       *)
(***************************************************************************)

\* The measurements of the running session.
Own == [kind : Kind, run : 1..options.num_run, by : {session}]

\* The file the parser reads as its k-th, if it is the session's.
OwnFile(k) == [kind |-> ParseKind(k), run |-> ParseRun(k), by |-> session]

\* A session measures and parses under one Machine-ID; there are no other
\* files than its own, and what has been read so far has been stored.
OwnInvariant ==
  /\ stage \in Dialogue \cup {"testing"} => machine_num = path
  /\ stage = "testing" => up[path] \subseteq Own
  /\ stage \in Parsing /\ parse.auto =>
       parse.runs = options.num_run /\ up[parse.id] \subseteq Own
  /\ stage \in {"ask", "wait"} => done = 0
  /\ stage = "parsing" /\ parse.auto =>
       \A k \in 0..(2 * MaxRuns) : k < done => OwnFile(k) \in parsed[parse.id]

\* A step of the controller, the parser or the user keeps OwnInvariant.
LEMMA MeasureKeepsOwn ==
  ASSUME SessionInvariant, OwnInvariant, Measure
  PROVE  OwnInvariant'
<1>1. /\ stage = "testing" /\ stage' = "testing" /\ done < 2 * options.num_run
      /\ session' = session /\ options' = options /\ machine_num' = machine_num /\ path' = path
  BY DEF Measure
<1>2. /\ done \in Nat /\ options.num_run \in Nat /\ path \in MachineId
      /\ up \in [MachineId -> SUBSET File]
  BY SessionAssumption DEF SessionInvariant, TypeOK, Run
<1>3. Measured(done, options.num_run) \in Own
  BY <1>1, <1>2 DEF Measured, Own, Kind
<1>4. up'[path] \subseteq up[path] \cup {Measured(done, options.num_run)}
  BY <1>2 DEF Measure
<1>5. Own' = Own
  BY <1>1 DEF Own
<1> QED
  BY <1>1, <1>3, <1>4, <1>5 DEF OwnInvariant, Dialogue, Parsing

LEMMA TestsEndKeepsOwn ==
  ASSUME SessionInvariant, OwnInvariant, TestsEnd
  PROVE  OwnInvariant'
<1>1. CASE End
  BY <1>1 DEF End, OwnInvariant, Dialogue, Parsing
<1>2. CASE ~End
  <2>1. /\ stage = "testing" /\ stage' = "replace"
        /\ parse' = [id |-> machine_num, runs |-> options.num_run,
                     replace |-> options.replace_old_results, auto |-> TRUE]
        /\ UNCHANGED <<options, machine_num, path, done, session, up>>
    BY <1>2 DEF TestsEnd, store
  <2>2. parse'.id = path /\ parse'.runs = options.num_run
    BY <2>1 DEF OwnInvariant
  <2>3. Own' = Own
    BY <2>1 DEF Own
  <2> QED
    BY <2>1, <2>2, <2>3 DEF OwnInvariant, Dialogue
<1> QED
  BY <1>1, <1>2

LEMMA ParseFileKeepsOwn ==
  ASSUME Suite = "computational", SessionInvariant, OwnInvariant, ParseFile
  PROVE  OwnInvariant'
<1>1. CASE End
  BY <1>1 DEF End, OwnInvariant, Dialogue, Parsing
<1>2. CASE ~End
  <2>1. /\ stage = "parsing" /\ stage' = "parsing" /\ done < 2 * parse.runs
        /\ Readable(done) /\ done' = done + 1
        /\ parsed' = [parsed EXCEPT ![parse.id] =
                        @ \cup FilesOf(ParseKind(done), ParseRun(done))]
        /\ UNCHANGED <<options, machine_num, path, parse, session, up>>
    BY <1>2 DEF ParseFile
  <2>2. /\ done \in Nat /\ parse.id \in MachineId /\ parse.runs \in Nat
        /\ parsed \in [MachineId -> SUBSET File]
    BY SessionAssumption DEF SessionInvariant, TypeOK, Run
  <2>3. Own' = Own /\ \A k : OwnFile(k)' = OwnFile(k)
    BY <2>1 DEF Own, OwnFile, ParseKind, ParseRun
  <2>4. parsed'[parse.id] = parsed[parse.id] \cup FilesOf(ParseKind(done), ParseRun(done))
    BY <2>1, <2>2
  <2>5. ASSUME parse.auto
        PROVE  OwnFile(done) \in parsed'[parse.id]
    <3>1. PICK f \in FilesOf(ParseKind(done), ParseRun(done)) : TRUE
      BY <2>1 DEF Readable
    <3>2. f \in Own /\ f.kind = ParseKind(done) /\ f.run = ParseRun(done)
      BY <2>1, <2>5, <3>1 DEF FilesOf, OwnInvariant, Parsing
    <3>3. f = OwnFile(done)
      BY <3>2 DEF Own, OwnFile
    <3> QED
      BY <2>4, <3>1, <3>3
  <2>6. ASSUME parse.auto, NEW k \in 0..(2 * MaxRuns), k < done'
        PROVE  OwnFile(k) \in parsed'[parse.id]
    <3>1. CASE k = done
      BY <2>5, <2>6, <3>1
    <3>2. CASE k # done
      <4>1. k < done
        BY <2>1, <2>2, <2>6, <3>2
      <4> QED
        BY <2>1, <2>4, <2>6, <4>1 DEF OwnInvariant
    <3> QED
      BY <3>1, <3>2
  <2> QED
    BY <2>1, <2>3, <2>6 DEF OwnInvariant, Dialogue, Parsing
<1> QED
  BY <1>1, <1>2

LEMMA ParserStartKeepsOwn ==
  ASSUME SessionInvariant, OwnInvariant, CreateResultsDir \/ Answer \/ Resume
  PROVE  OwnInvariant'
<1>1. CASE End
  BY <1>1 DEF End, OwnInvariant, Dialogue, Parsing
<1>2. CASE ~End
  <2>1. /\ stage \in Parsing \ {"parsing"} /\ stage' \in Parsing
        /\ UNCHANGED <<session, options, machine_num, path, parse, up>>
    BY <1>2 DEF CreateResultsDir, Answer, Resume, Parsing, local
  <2>2. stage' \in {"ask", "wait", "parsing"} => done' = 0
    <3>1. CASE CreateResultsDir
      BY <3>1 DEF CreateResultsDir
    <3>2. CASE Answer \/ Resume
      BY <1>2, <3>2 DEF Answer, Resume, local, OwnInvariant
    <3> QED
      BY <3>1, <3>2
  <2>3. Own' = Own
    BY <2>1 DEF Own
  <2>4. stage' \notin Dialogue \cup {"testing"}
    BY <2>1 DEF Dialogue, Parsing
  <2>5. parse.auto => parse.runs = options.num_run /\ up[parse.id] \subseteq Own
    BY <2>1 DEF OwnInvariant
  <2>6. stage' = "parsing" => \A k \in 0..(2 * MaxRuns) : ~(k < done')
    BY <2>2
  <2> QED
    BY <2>1, <2>2, <2>3, <2>4, <2>5, <2>6 DEF OwnInvariant
<1> QED
  BY <1>1, <1>2

LEMMA ControllerKeepsOwn ==
  ASSUME Suite = "computational", SessionInvariant, OwnInvariant,
         StartSession \/ ReplaceResults \/ CheckParsed \/ (\E i \in MachineId : AssignMachine(i))
  PROVE  OwnInvariant'
<1>1. CASE StartSession
  <2>1. /\ stage' \in Dialogue /\ machine_num' = path'
    BY <1>1 DEF StartSession, Configure, Dialogue
  <2> QED
    BY <2>1 DEF OwnInvariant, Dialogue, Parsing
<1>2. CASE ReplaceResults \/ \E i \in MachineId : AssignMachine(i)
  <2>1. stage \in Dialogue /\ stage' \in Dialogue /\ machine_num' = path'
    BY <1>2 DEF ReplaceResults, AssignMachine, Dialogue, local, OwnInvariant
  <2> QED
    BY <2>1 DEF OwnInvariant, Dialogue, Parsing
<1>3. CASE CheckParsed
  <2>1. /\ stage' = "testing" /\ machine_num' = machine_num /\ path' = path /\ up' = up
        /\ machine_num = path /\ up[path] = {}
    BY <1>3 DEF CheckParsed, store, OwnInvariant, Dialogue, SessionInvariant, Place
  <2> QED
    BY <2>1 DEF OwnInvariant, Dialogue, Parsing
<1> QED
  BY <1>1, <1>2, <1>3

LEMMA OthersKeepOwn ==
  ASSUME OwnInvariant,
         \/ ManualParse \/ NoUpResults \/ ParseEnds \/ Stop \/ UNCHANGED vars
         \/ \E i \in MachineId : MoveParsed(i)
  PROVE  OwnInvariant'
<1>1. CASE NoUpResults \/ ParseEnds \/ Stop
  BY <1>1 DEF NoUpResults, ParseEnds, Stop, End, OwnInvariant, Dialogue, Parsing
<1>2. CASE ManualParse
  <2>1. stage' = "replace" /\ ~parse'.auto
    BY <1>2 DEF ManualParse
  <2> QED
    BY <2>1 DEF OwnInvariant, Dialogue
<1>3. CASE (\E i \in MachineId : MoveParsed(i)) \/ UNCHANGED vars
  <2>1. /\ UNCHANGED <<stage, session, options, machine_num, path, done, parse, up>>
        /\ stage # "parsing" \/ parsed' = parsed
    BY <1>3 DEF MoveParsed, vars, local, store
  <2>2. Own' = Own /\ \A k : OwnFile(k)' = OwnFile(k)
    BY <2>1 DEF Own, OwnFile, ParseKind, ParseRun
  <2> QED
    BY <2>1, <2>2 DEF OwnInvariant
<1> QED
  BY <1>1, <1>2, <1>3

\* A session of the computational suite meets, and its parser reads, only its
\* own files.  (A session of the other suite parses DefaultId's instead when
\* its options are the default ones.)
THEOREM OwnInvariantHolds ==
  ASSUME Suite = "computational"
  PROVE  Spec => []OwnInvariant
<1>1. Init => OwnInvariant
  BY DEF Init, OwnInvariant, Dialogue, Parsing
<1>2. SessionInvariant /\ OwnInvariant /\ [Next]_vars => OwnInvariant'
  BY MeasureKeepsOwn, TestsEndKeepsOwn, ParseFileKeepsOwn, ParserStartKeepsOwn, ControllerKeepsOwn,
     OthersKeepOwn DEF Next, Controller, Parser
<1> QED
  BY <1>1, <1>2, SessionInvariantHolds, PTL DEF Spec

\* When the parser that a computational session called comes to its end, the
\* parsed results of its Machine-ID are the measurements of all its runs, and
\* nothing else.
THEOREM ParsedIsOwnHolds ==
  ASSUME Suite = "computational"
  PROVE  Spec => []ParsedIsOwn
<1>1. SessionInvariant /\ OwnInvariant => ParsedIsOwn
  <2> SUFFICES ASSUME SessionInvariant, OwnInvariant,
                      stage = "parsing", parse.auto, done = 2 * parse.runs
               PROVE  parsed[parse.id] = Own
    BY DEF ParsedIsOwn, Own
  <2>1. parse.runs = options.num_run /\ parsed[parse.id] \subseteq Own
    BY DEF OwnInvariant, SessionInvariant, Place, Parsing
  <2>2. options.num_run \in 1..MaxRuns
    BY DEF SessionInvariant, TypeOK, Run
  <2>3. ASSUME NEW f \in Own
        PROVE  f \in parsed[parse.id]
    <3> DEFINE k == IF f.kind = 1 THEN f.run - 1 ELSE parse.runs + f.run - 1
    <3>1. f.kind \in {1, 2} /\ f.run \in 1..parse.runs /\ f.by = session
      BY <2>1, <2>3 DEF Own, Kind
    <3>2. k \in 0..(2 * MaxRuns) /\ k < done
      BY <2>1, <2>2, <3>1, SessionAssumption
    <3>3. ParseKind(k) = f.kind /\ ParseRun(k) = f.run
      <4>1. CASE f.kind = 1
        BY <2>1, <2>2, <3>1, <4>1, SessionAssumption DEF ParseKind, ParseRun
      <4>2. CASE f.kind = 2
        BY <2>1, <2>2, <3>1, <4>2, SessionAssumption DEF ParseKind, ParseRun
      <4> QED
        BY <3>1, <4>1, <4>2
    <3>4. f = OwnFile(k)
      BY <2>3, <3>1, <3>3 DEF Own, OwnFile
    <3> HIDE DEF k
    <3> QED
      BY <3>2, <3>4 DEF OwnInvariant
  <2> QED
    BY <2>1, <2>3
<1> QED
  BY <1>1, SessionInvariantHolds, OwnInvariantHolds, PTL
=============================================================================
