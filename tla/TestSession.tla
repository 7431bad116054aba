----------------------------- MODULE TestSession -----------------------------
(***************************************************************************)
(* The result directories of one test suite, over several sessions of its  *)
(* controller and of the result parser.                                    *)
(*                                                                         *)
(* pqc_performance_test.sh and pqc_tls_performance_test.sh give the user   *)
(* the same dialogue about the Machine-ID, measure, and call               *)
(* parse_results.py, which the user may also call directly.  Each suite    *)
(* has its own directories; Suite tells the two apart where their code     *)
(* differs.  Programs run one after the other, each until it ends or is    *)
(* stopped.                                                                *)
(*                                                                         *)
(* A result file is the record of what it is a result of: the kind of      *)
(* measurement, the run, and the session that measured it.                 *)
(***************************************************************************)
EXTENDS Naturals, FiniteSets

CONSTANTS
  Suite,         \* "computational" or "tls"
  MachineId,     \* the Machine-IDs a user may enter
  MaxRuns,       \* bound on the number of test runs
  MaxSessions    \* bound on the sessions of a behaviour

DefaultId == 1

ASSUME SessionAssumption ==
  /\ Suite \in {"computational", "tls"}
  /\ DefaultId \in MachineId
  /\ MaxRuns \in Nat \ {0}
  /\ MaxSessions \in Nat

VARIABLES
  stage,         \* where the running program is, "idle" between programs
  session,       \* how many sessions have been started
  options,       \* the answers and flags of the session
  machine_num,   \* the Machine-ID variable of the controller
  path,          \* the Machine-ID whose result paths are set
  done,          \* measurements taken, or files parsed, so far
  parse,         \* the arguments of the parser
  up_dir, up,            \* unparsed results: directories and their files
  parsed_dir, parsed     \* parsed results: directories and their files

store == <<up_dir, up, parsed_dir, parsed>>
local == <<options, machine_num, path, done, parse>>
vars == <<stage, session, local, store>>

Run == 1..MaxRuns
Kind == 1..2     \* speed and memory, or handshake and speed, in this order
File == [kind : Kind, run : Run, by : 1..MaxSessions]

Dialogue == {"clash", "parsed_check"}
Parsing == {"replace", "ask", "wait", "parsing"}
Stage == {"idle", "testing"} \cup Dialogue \cup Parsing

TypeOK ==
  /\ stage \in Stage
  /\ session \in 0..MaxSessions
  /\ options \in [num_run : Run, default : BOOLEAN,
                  parse_results : BOOLEAN, replace_old_results : BOOLEAN]
  /\ machine_num \in MachineId /\ path \in MachineId
  /\ done \in 0..(2 * MaxRuns)
  /\ parse \in [id : MachineId, runs : Run, replace : BOOLEAN, auto : BOOLEAN]
  /\ up_dir \in SUBSET MachineId /\ parsed_dir \in SUBSET MachineId
  /\ up \in [MachineId -> SUBSET File] /\ parsed \in [MachineId -> SUBSET File]

NoOptions == [num_run |-> 1, default |-> FALSE,
              parse_results |-> TRUE, replace_old_results |-> FALSE]

NoParse == [id |-> DefaultId, runs |-> 1, replace |-> FALSE, auto |-> FALSE]

Init ==
  /\ stage = "idle" /\ session = 0 /\ done = 0
  /\ options = NoOptions /\ parse = NoParse
  /\ machine_num = DefaultId /\ path = DefaultId
  /\ up_dir = {} /\ parsed_dir = {}
  /\ up = [i \in MachineId |-> {}] /\ parsed = [i \in MachineId |-> {}]

\* The running program ends, and its variables with it.
End ==
  /\ stage' = "idle"
  /\ options' = NoOptions /\ parse' = NoParse
  /\ machine_num' = DefaultId /\ path' = DefaultId
  /\ done' = 0

-----------------------------------------------------------------------------
(***************************************************************************)
(* The controller.                                                         *)
(***************************************************************************)

\* parse_results after the command line was read: --disable-result-parsing asks
\* "Are you sure?", and the tls controller disables parsing if the answer is no.
\* The other controller never reads its command line.
ParseResults(flag) == Suite = "computational" \/ flag # "no"

Configure(i, default) ==
  /\ stage = "idle" /\ session < MaxSessions
  /\ session' = session + 1
  /\ \E n \in Run, flag \in {"not given", "yes", "no"} :
       options' = [num_run |-> n, default |-> default,
                   parse_results |-> ParseResults(flag), replace_old_results |-> FALSE]
  /\ machine_num' = i /\ path' = i
  /\ stage' = IF i \in up_dir THEN "clash" ELSE "parsed_check"
  /\ up_dir' = up_dir \cup {i}
  /\ UNCHANGED <<done, parse, up, parsed_dir, parsed>>

StartSession == Configure(DefaultId, TRUE) \/ \E i \in MachineId : Configure(i, FALSE)

\* Mutant: mkdir -p without the rm -rf before it.
ReplaceNothing ==
  /\ stage = "clash"
  /\ up_dir' = up_dir \cup {path}
  /\ stage' = "parsed_check"
  /\ UNCHANGED <<session, options, machine_num, path, done, parse, up, parsed_dir, parsed>>

\* Mutant: the rm -rf one directory too high.
ReplaceEveryMachine ==
  /\ stage = "clash"
  /\ up_dir' = {path}
  /\ up' = [i \in MachineId |-> {}]
  /\ stage' = "parsed_check"
  /\ UNCHANGED <<session, options, machine_num, path, done, parse, parsed_dir, parsed>>

\* Option 1 of handle_machine_id_clash.
ReplaceResults ==
  /\ stage = "clash"
  /\ up_dir' = up_dir \cup {path}
  /\ up' = [up EXCEPT ![path] = {}]
  /\ stage' = "parsed_check"
  /\ UNCHANGED <<session, local, parsed_dir, parsed>>

\* Mutant: the result paths stay those of the old Machine-ID.
AssignWithoutPaths(i) ==
  /\ stage = "clash"
  /\ machine_num' = i
  /\ stage' = IF i \in up_dir THEN "clash" ELSE "parsed_check"
  /\ UNCHANGED <<session, options, path, done, parse, store>>

\* Option 2: no directory is made for the new Machine-ID.
AssignMachine(i) ==
  /\ stage = "clash"
  /\ machine_num' = i /\ path' = i
  /\ stage' = IF i \in up_dir THEN "clash" ELSE "parsed_check"
  /\ UNCHANGED <<session, options, done, parse, store>>

\* The end of configure_results_dir, and what its caller exports.
CheckParsed ==
  /\ stage = "parsed_check"
  /\ \/ machine_num \notin parsed_dir /\ UNCHANGED options
     \/ /\ machine_num \in parsed_dir
        /\ \/ options' = [options EXCEPT !.parse_results = FALSE]
           \/ options' = [options EXCEPT !.replace_old_results = TRUE]
  /\ machine_num' = IF Suite = "tls" /\ options.default THEN DefaultId ELSE machine_num
  /\ stage' = "testing" /\ done' = 0
  /\ UNCHANGED <<session, path, parse, store>>

\* The k-th measurement of a session of n runs.
Measured(k, n) == [kind |-> IF k < n THEN 1 ELSE 2,
                   run  |-> IF k < n THEN k + 1 ELSE k - n + 1,
                   by   |-> session]

\* The tls speed tests begin with fresh directories.
Kept(f, new) ==
  /\ ~(f.kind = new.kind /\ f.run = new.run)
  /\ ~(Suite = "tls" /\ f.kind = 2 /\ new.kind = 2 /\ new.run = 1)

\* Mutant: one measurement too many.
MeasureOnceMore ==
  /\ stage = "testing" /\ done <= 2 * options.num_run
  /\ done' = done + 1
  /\ up' = [up EXCEPT ![path] = @ \cup {Measured(done, options.num_run)}]
  /\ UNCHANGED <<stage, session, options, machine_num, path, parse, up_dir, parsed_dir, parsed>>

\* Without the directory, the computational tests run and store nothing, and the
\* tls handshakes never succeed.
Measure ==
  /\ stage = "testing" /\ done < 2 * options.num_run
  /\ done' = done + 1
  /\ LET new == Measured(done, options.num_run) IN
       \/ /\ path \in up_dir
          /\ up' = [up EXCEPT ![path] = {f \in @ : Kept(f, new)} \cup {new}]
       \/ path \notin up_dir /\ Suite = "computational" /\ UNCHANGED up
  /\ UNCHANGED <<stage, session, options, machine_num, path, parse, up_dir, parsed_dir, parsed>>

\* handle_result_parsing.
TestsEnd ==
  /\ stage = "testing" /\ done = 2 * options.num_run
  /\ \/ ~options.parse_results /\ End
     \/ /\ options.parse_results /\ stage' = "replace"
        /\ parse' = [id |-> machine_num, runs |-> options.num_run,
                     replace |-> options.replace_old_results, auto |-> TRUE]
        /\ UNCHANGED <<options, machine_num, path, done>>
  /\ UNCHANGED <<session, store>>

-----------------------------------------------------------------------------
(***************************************************************************)
(* The parser.                                                             *)
(***************************************************************************)

\* The user calls parse_results.py.
ManualParse ==
  /\ stage = "idle"
  /\ \E i \in MachineId, n \in Run, replace \in BOOLEAN :
       parse' = [id |-> i, runs |-> n, replace |-> replace, auto |-> FALSE]
  /\ stage' = "replace"
  /\ UNCHANGED <<session, options, machine_num, path, done, store>>

\* The computational parser looks for results of any machine.
UpResultsExist == IF Suite = "tls" THEN parse.id \in up_dir ELSE up_dir # {}

NoUpResults ==
  /\ stage = "replace" /\ ~UpResultsExist
  /\ End /\ UNCHANGED <<session, store>>

\* Mutant: makedirs accepts the directories that are there.
ReplaceNone ==
  /\ UNCHANGED <<parsed_dir, parsed>>

\* shutil.rmtree(results_dir, ...), then makedirs: the second argument of rmtree
\* is no directory, so the results of all machines are removed.
ReplaceAll ==
  /\ parsed' = [i \in MachineId |-> {}]
  /\ parsed_dir' = {parse.id}

\* handle_results_dir_creation.
CreateResultsDir ==
  /\ stage = "replace" /\ UpResultsExist
  /\ done' = 0
  /\ \/ /\ parse.id \notin parsed_dir
        /\ parsed_dir' = parsed_dir \cup {parse.id} /\ stage' = "parsing" /\ UNCHANGED parsed
     \/ parse.id \in parsed_dir /\ parse.replace /\ ReplaceAll /\ stage' = "parsing"
     \/ /\ parse.id \in parsed_dir /\ ~parse.replace
        /\ stage' = "ask" /\ UNCHANGED <<parsed_dir, parsed>>
  /\ UNCHANGED <<session, options, machine_num, path, parse, up_dir, up>>

\* The user's options 1, 2 and 3.
Answer ==
  /\ stage = "ask"
  /\ \/ ReplaceAll /\ stage' = "parsing" /\ UNCHANGED local
     \/ End /\ UNCHANGED <<parsed_dir, parsed>>
     \/ stage' = "wait" /\ UNCHANGED <<local, parsed_dir, parsed>>
  /\ UNCHANGED <<session, up_dir, up>>

\* The end of option 3: the old results have been moved.
Resume ==
  /\ stage = "wait" /\ parse.id \notin parsed_dir
  /\ parsed_dir' = parsed_dir \cup {parse.id}
  /\ stage' = "parsing"
  /\ UNCHANGED <<session, local, up_dir, up, parsed>>

\* Kind and run of the k-th file: run after run, or one kind after the other.
ParseKind(k) == IF Suite = "tls" THEN (k % 2) + 1
                ELSE IF k < parse.runs THEN 1 ELSE 2
ParseRun(k) == IF Suite = "tls" THEN k \div 2 + 1
               ELSE IF k < parse.runs THEN k + 1 ELSE k - parse.runs + 1

FilesOf(kind, run) == {f \in up[parse.id] : f.kind = kind /\ f.run = run}

\* A missing file ends the parser, except for a missing handshake.  All speed
\* files of the computational suite are read before one is parsed.
Readable(k) ==
  /\ FilesOf(ParseKind(k), ParseRun(k)) = {} => Suite = "tls" /\ ParseKind(k) = 1
  /\ Suite = "computational" /\ k = 0 => \A r \in 1..parse.runs : FilesOf(1, r) # {}

ParseFile ==
  /\ stage = "parsing" /\ done < 2 * parse.runs
  /\ IF Readable(done)
     THEN /\ parsed' = [parsed EXCEPT ![parse.id] =
                          @ \cup FilesOf(ParseKind(done), ParseRun(done))]
          /\ done' = done + 1
          /\ UNCHANGED <<stage, options, machine_num, path, parse>>
     ELSE End /\ UNCHANGED parsed
  /\ up_dir' = IF Suite = "computational" THEN up_dir \cup {parse.id} ELSE up_dir
  /\ UNCHANGED <<session, up, parsed_dir>>

ParseEnds ==
  /\ stage = "parsing" /\ done = 2 * parse.runs
  /\ End /\ UNCHANGED <<session, store>>

-----------------------------------------------------------------------------
(***************************************************************************)
(* The user.                                                               *)
(***************************************************************************)

\* Any program is stopped, or ends itself after an error.
Stop ==
  /\ stage # "idle"
  /\ End /\ UNCHANGED <<session, store>>

MoveParsed(i) ==
  /\ stage \in {"idle", "wait"} /\ i \in parsed_dir
  /\ parsed_dir' = parsed_dir \ {i}
  /\ parsed' = [parsed EXCEPT ![i] = {}]
  /\ UNCHANGED <<stage, session, local, up_dir, up>>

Controller ==
  \/ StartSession \/ ReplaceResults \/ CheckParsed \/ Measure \/ TestsEnd
  \/ \E i \in MachineId : AssignMachine(i)

Parser ==
  ManualParse \/ NoUpResults \/ CreateResultsDir \/ Answer \/ Resume \/ ParseFile \/ ParseEnds

Next == Controller \/ Parser \/ Stop \/ \E i \in MachineId : MoveParsed(i)

Spec == Init /\ [][Next]_vars

-----------------------------------------------------------------------------
(***************************************************************************)
(* Properties.                                                             *)
(***************************************************************************)

OneSession(files) == \A f, g \in files : f.by = g.by

\* The unparsed files of a machine come from one session: what a stopped session
\* left behind never stands next to a later session's measurements.
UpOneSession == \A i \in MachineId : OneSession(up[i])

\* Nor do the parsed files of a machine, whatever the parser met before.
ParsedOneSession == \A i \in MachineId : OneSession(parsed[i])

(***************************************************************************)
(* An inductive invariant for the two.                                     *)
(***************************************************************************)

NoDirectoryNoFile ==
  \A i \in MachineId : /\ i \notin up_dir => up[i] = {}
                       /\ i \notin parsed_dir => parsed[i] = {}

SessionsSoFar ==
  /\ stage \in Dialogue \cup {"testing"} => session >= 1
  /\ \A i \in MachineId : \A f \in up[i] : f.by <= session

\* Where the running program is, and what its directories hold there.
Place ==
  /\ stage \in Dialogue => machine_num = path
  /\ stage = "parsed_check" => up[path] = {}
  /\ stage = "testing" => \A f \in up[path] : f.by = session
  /\ stage = "parsing" => parse.id \in parsed_dir /\ parsed[parse.id] \subseteq up[parse.id]

\* UpOneSession and ParsedOneSession with what makes them inductive: when a
\* session measures, or a parser writes, its directory holds nothing else.
SessionInvariant ==
  TypeOK /\ UpOneSession /\ ParsedOneSession /\ NoDirectoryNoFile /\ SessionsSoFar /\ Place

\* When the parser that a session called comes to its end, the parsed results
\* of its Machine-ID are the measurements of all runs of this session.
ParsedIsOwn ==
  stage = "parsing" /\ parse.auto /\ done = 2 * parse.runs =>
    parsed[parse.id] = [kind : Kind, run : 1..options.num_run, by : {session}]

\* Measurements of an earlier session are removed only by the user who is told
\* of them.
OldResultsKept ==
  [][\A i \in MachineId :
       \/ stage = "clash" /\ machine_num = i
       \/ \A f \in up[i] : f.by < session => f \in up'[i]]_vars

\* A parse leaves the parsed results of the other machines alone.
OthersKept ==
  [][\A i \in MachineId \ {parse.id} :
       stage \in Parsing \ {"wait"} => parsed[i] \subseteq parsed'[i]]_vars

\* When the tests of a session are complete, its measurements are stored.
ResultsStored ==
  stage = "testing" /\ done = 2 * options.num_run =>
    [kind : Kind, run : 1..options.num_run, by : {session}] \subseteq up[path]
=============================================================================
