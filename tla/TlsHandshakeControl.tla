------------------------- MODULE TlsHandshakeControl -------------------------
(***************************************************************************)
(* The two scripts that run the TLS handshake tests together:              *)
(* tls_handshake_test_server.sh (pqc_tests, classic_tests and its          *)
(* entrypoint) and tls_handshake_test_client.sh (the same).  They go       *)
(* through the same runs, test types and algorithm combinations, each on   *)
(* its own, and stay together only through the signals of ControlSignal.   *)
(* For every combination the server starts an openssl s_server and the     *)
(* client measures it with openssl s_time into a file of that              *)
(* combination's name.                                                     *)
(*                                                                         *)
(* A combination (signature and KEM, or cipher and classic algorithm) is   *)
(* one value; the nested loops over the two are one loop over Combos.      *)
(***************************************************************************)
EXTENDS Naturals, Sequences, ControlSignal

CONSTANTS
  Combo,        \* the combinations there are
  NumRun,       \* NUM_RUN: the number of runs each side was told to do
  Combos,       \* Combos[p][t]: the combinations side p has for test type t
  FailLimit,    \* 3000 in the client: failed attempts before it gives up
  Broken,       \* the combinations whose s_server exits at once
  OldServer,    \* is an s_server of an earlier session still on the port?
  OtherOpenssl  \* number of other processes `pgrep openssl` finds at first

TestType == 0..2        \* 0=pqc, 1=hybrid, 2=classic

NoServer == "no_server"
OldCombo == "old_combination"
Served   == Combo \cup {OldCombo}

ASSUME ControlAssumption ==
  /\ SleepEnabled \in BOOLEAN
  /\ NumRun \in [Side -> Nat \ {0}]
  /\ Combos \in [Side -> [TestType -> Seq(Combo)]]
  /\ FailLimit \in Nat
  /\ Broken \subseteq Combo
  /\ NoServer \notin Served /\ OldCombo \notin Combo
  /\ OldServer \in BOOLEAN
  /\ OtherOpenssl \in Nat

VARIABLES
  stage,         \* the statement of its loops a side is at
  at,            \* run_num, test_type and index of the combination
  sserver,       \* what the process bound to S_SERVER_PORT serves
  server_pid,    \* is that process the one server_pid names?
  others,        \* the other openssl processes on the server's machine
  fail_counter,  \* fail_counter of the client
  results        \* the client's complete result files: name and content

vars == <<channel, call, stage, at, sserver, server_pid, others, fail_counter, results>>

Position == [run : Nat, type : TestType, k : Nat]
Stage    == {"entry", "type", "reap", "sync", "await_ready",
             "poll", "send_ready", "await_status", "test", "complete",
             "failed", "done"}

TypeOK ==
  /\ ChannelTypeOK
  /\ stage \in [Side -> Stage]
  /\ at \in [Side -> Position]
  /\ sserver \in Served \cup {NoServer}
  /\ server_pid \in BOOLEAN
  /\ others \in Nat
  /\ fail_counter \in 0..FailLimit
  /\ results \subseteq [at : Position, served : Served]

\* Mutant: the client goes through its list backwards.
ComboAtBackwards(p, a) ==
  IF p = "client" THEN Combos[p][a.type][Len(Combos[p][a.type]) + 1 - a.k]
                  ELSE Combos[p][a.type][a.k]

ComboAt(p, a) == Combos[p][a.type][a.k]

Init ==
  /\ ChannelInit
  /\ stage = [p \in Side |-> "entry"]
  /\ at = [p \in Side |-> [run |-> 1, type |-> 0, k |-> 0]]
  /\ sserver = IF OldServer THEN OldCombo ELSE NoServer
  /\ server_pid = FALSE
  /\ others = OtherOpenssl
  /\ fail_counter = 0
  /\ results = {}

-----------------------------------------------------------------------------
(* Moving through the loops.                                               *)

Here(p, s)     == stage[p] = s /\ step[p] = "idle"
Returned(p, s) == stage[p] = s /\ step[p] = "returned"

\* Go to a statement that is a call of control_signal, and begin the call.
GoCall(p, s, k, m) ==
  /\ stage' = [stage EXCEPT ![p] = s]
  /\ Call(p, k, m)

\* Go to a statement that is no such call.
Goto(p, s) ==
  /\ stage' = [stage EXCEPT ![p] = s]
  /\ step' = [step EXCEPT ![p] = "idle"]
  /\ UNCHANGED <<channel, kind, message, signal_message>>

Handshake(p, s) == GoCall(p, s, "iteration_handshake", "handshake_ready")

\* The first statement of the loop body of a combination: the server looks
\* for old openssl processes before the iteration handshake.
BeginCombo(p) == IF p = "server" THEN Goto(p, "reap") ELSE Handshake(p, "sync")

\* Where the three nested loops lead from a combination, and from the
\* beginning of a test type (k = 0): to its next combination, and when
\* there is none to the next test type, the next run or the end.
Last(p, a) == a.k = Len(Combos[p][a.type])

NextStage(p, a) ==
  CASE ~Last(p, a)                                   -> "sync"
    [] Last(p, a) /\ (a.type < 2 \/ a.run < NumRun[p]) -> "type"
    [] OTHER                                         -> "done"

NextAt(p, a) ==
  CASE ~Last(p, a)                                     -> [a EXCEPT !.k = @ + 1]
    [] Last(p, a) /\ a.type < 2                        -> [a EXCEPT !.type = @ + 1, !.k = 0]
    [] Last(p, a) /\ a.type = 2 /\ a.run < NumRun[p]   -> [run |-> a.run + 1, type |-> 0, k |-> 0]
    [] OTHER                                           -> a

NextCombo(p) ==
  /\ at' = [at EXCEPT ![p] = NextAt(p, @)]
  /\ CASE NextStage(p, at[p]) = "sync" -> BeginCombo(p)
       [] NextStage(p, at[p]) = "type" -> Handshake(p, "type")
       [] NextStage(p, at[p]) = "done" -> Goto(p, "done")

-----------------------------------------------------------------------------
(* What both scripts do.                                                   *)

\* The entrypoint begins the first handshake.
Enter(p) ==
  /\ Here(p, "entry")
  /\ Handshake(p, "entry")
  /\ UNCHANGED <<at, sserver, server_pid, others, fail_counter, results>>

\* The entry handshake is over: the handshake of the first test type.
BeginRuns(p) ==
  /\ Returned(p, "entry")
  /\ Handshake(p, "type")
  /\ UNCHANGED <<at, sserver, server_pid, others, fail_counter, results>>

\* The handshake of a test type is over: set_test_env, then the loop over
\* its combinations.
BeginType(p) ==
  /\ Returned(p, "type")
  /\ NextCombo(p)
  /\ UNCHANGED <<sserver, server_pid, others, fail_counter, results>>

-----------------------------------------------------------------------------
(* The server.                                                             *)

\* pgrep_output=$(pgrep openssl); kill "$pgrep_output".  The quotes make
\* the list of pids one argument: with two or more kill refuses it.  A kill
\* has taken effect by the time anything else looks at the process.
PgrepCount == (IF sserver = NoServer THEN 0 ELSE 1) + others

\* Mutant: the old process is found but never killed.
ReapNone ==
  /\ Here("server", "reap")
  /\ Handshake("server", "sync")
  /\ UNCHANGED <<at, sserver, server_pid, others, fail_counter, results>>

Reap ==
  /\ Here("server", "reap")
  /\ IF PgrepCount = 1
       THEN sserver' = NoServer /\ server_pid' = FALSE /\ others' = 0
       ELSE UNCHANGED <<sserver, server_pid, others>>
  /\ Handshake("server", "sync")
  /\ UNCHANGED <<at, fail_counter, results>>

AwaitReady ==
  /\ Returned("server", "sync")
  /\ GoCall("server", "await_ready", "control_wait", NoText)
  /\ UNCHANGED <<at, sserver, server_pid, others, fail_counter, results>>

\* openssl s_server ... -accept $S_SERVER_PORT & server_pid=$!.  It exits at
\* once when the port is taken.
StartServer ==
  /\ Returned("server", "await_ready")
  /\ LET up == sserver = NoServer /\ ComboAt("server", at["server"]) \notin Broken
     IN  /\ sserver' = IF up THEN ComboAt("server", at["server"]) ELSE sserver
         /\ server_pid' = up
  /\ Goto("server", "poll")
  /\ UNCHANGED <<at, others, fail_counter, results>>

\* until netstat finds the port in use, whoever uses it; then the ready
\* signal.
ServerIsUp ==
  /\ Here("server", "poll")
  /\ sserver # NoServer
  /\ GoCall("server", "send_ready", "control_send", "ready")
  /\ UNCHANGED <<at, sserver, server_pid, others, fail_counter, results>>

\* Mutant: the server goes on without the verdict.
AwaitNoStatus ==
  /\ Returned("server", "send_ready")
  /\ Goto("server", "reap")
  /\ UNCHANGED <<at, sserver, server_pid, others, fail_counter, results>>

AwaitStatus ==
  /\ Returned("server", "send_ready")
  /\ GoCall("server", "await_status", "control_wait", NoText)
  /\ UNCHANGED <<at, sserver, server_pid, others, fail_counter, results>>

\* Mutant: the combination is offered again after every verdict.
JudgeRepeats ==
  /\ Returned("server", "await_status")
  /\ sserver' = IF server_pid THEN NoServer ELSE sserver
  /\ server_pid' = FALSE
  /\ Goto("server", "reap")
  /\ UNCHANGED <<at, others, fail_counter, results>>

\* kill $server_pid after both verdicts; only "complete" ends the retry
\* loop of the combination.
Judge ==
  /\ Returned("server", "await_status")
  /\ LET kills == signal_message["server"] \in {"complete", "failed"} /\ server_pid
     IN  /\ sserver' = IF kills THEN NoServer ELSE sserver
         /\ server_pid' = (server_pid /\ ~kills)
  /\ IF signal_message["server"] = "complete"
       THEN NextCombo("server")
       ELSE Goto("server", "reap") /\ UNCHANGED at
  /\ UNCHANGED <<others, fail_counter, results>>

-----------------------------------------------------------------------------
(* The client.                                                             *)

SendReady ==
  /\ Returned("client", "sync")
  /\ GoCall("client", "send_ready", "control_send", "ready")
  /\ UNCHANGED <<at, sserver, server_pid, others, fail_counter, results>>

AwaitServer ==
  /\ Returned("client", "send_ready")
  /\ GoCall("client", "await_ready", "control_wait", NoText)
  /\ UNCHANGED <<at, sserver, server_pid, others, fail_counter, results>>

\* pqc_tests measures after "ready", passes over the combination after
\* "skip" and starts the loop over after anything else; classic_tests does
\* not look at the answer.
Answered ==
  /\ Returned("client", "await_ready")
  /\ LET answer == IF at["client"].type = 2 THEN "ready" ELSE signal_message["client"]
     IN  /\ fail_counter' = IF answer = "ready" THEN 0 ELSE fail_counter
         /\ CASE answer = "ready" -> Goto("client", "test")
              [] answer = "skip"  -> GoCall("client", "complete", "control_send", "complete")
              [] OTHER            -> Handshake("client", "sync")
  /\ UNCHANGED <<at, sserver, server_pid, others, results>>

\* One run of s_time.  It truncates the result file of the combination and
\* fills it when it succeeds against whatever serves the port: s_time does
\* not check the certificate.
Truncated == {r \in results : r.at # at["client"]}

TestSucceeds ==
  /\ Here("client", "test")
  /\ sserver # NoServer
  /\ results' = Truncated \cup {[at |-> at["client"], served |-> sserver]}
  /\ GoCall("client", "complete", "control_send", "complete")
  /\ UNCHANGED <<at, sserver, server_pid, others, fail_counter>>

\* Mutant: the number of attempts is not bounded.
TestFailsAgain ==
  /\ Here("client", "test")
  /\ fail_counter' = fail_counter + 1
  /\ results' = Truncated
  /\ UNCHANGED <<channel, call, stage, at, sserver, server_pid, others>>

TestFails ==
  /\ Here("client", "test")
  /\ fail_counter # FailLimit
  /\ fail_counter' = fail_counter + 1
  /\ results' = Truncated
  /\ UNCHANGED <<channel, call, stage, at, sserver, server_pid, others>>

GiveUp ==
  /\ Here("client", "test")
  /\ fail_counter = FailLimit
  /\ results' = Truncated
  /\ GoCall("client", "failed", "control_send", "failed")
  /\ UNCHANGED <<at, sserver, server_pid, others, fail_counter>>

Reported ==
  /\ Returned("client", "complete")
  /\ NextCombo("client")
  /\ UNCHANGED <<sserver, server_pid, others, fail_counter, results>>

\* sleep 4, then the loop starts over.
TryAgain ==
  /\ Returned("client", "failed")
  /\ Handshake("client", "sync")
  /\ UNCHANGED <<at, sserver, server_pid, others, fail_counter, results>>

-----------------------------------------------------------------------------
Signal(p) ==
  /\ Signalling(p)
  /\ UNCHANGED <<stage, at, sserver, server_pid, others, fail_counter, results>>

Common(p) == Signal(p) \/ Enter(p) \/ BeginRuns(p) \/ BeginType(p)

Server ==
  \/ Common("server")
  \/ Reap \/ AwaitReady \/ StartServer \/ ServerIsUp \/ AwaitStatus
  \/ Judge

Client ==
  \/ Common("client")
  \/ SendReady \/ AwaitServer \/ Answered
  \/ TestSucceeds \/ TestFails \/ GiveUp \/ Reported \/ TryAgain

\* Both scripts have returned to the controller.
Finished == \A p \in Side : stage[p] = "done"

Next == Server \/ Client \/ (Finished /\ UNCHANGED vars)

Spec == Init /\ [][Next]_vars

\* Each script is a process of its own and keeps executing.
FairSpec == Spec /\ WF_vars(Server) /\ WF_vars(Client)

-----------------------------------------------------------------------------
(* Properties.                                                             *)

\* While s_time measures, the port is served by the s_server of the very
\* combination whose name the result file gets: not by one of an earlier
\* combination, an earlier session, or of a combination the server alone
\* has moved on to.
RightServer ==
  stage["client"] = "test" => sserver = ComboAt("client", at["client"])

\* A result file holds the measurement of the combination in its name.
ResultsAsNamed ==
  \A r \in results : r.served = ComboAt("client", r.at)

\* The server script replaces or kills no s_server under a measurement.
ServerStays == [][Here("client", "test") => UNCHANGED sserver]_vars

\* The two scripts together carry out the test plan: the combinations of
\* every run are offered, measured and withdrawn one by one, in order, none
\* left out and none measured without its server.
PerRun(p) == Len(Combos[p][0]) + Len(Combos[p][1]) + Len(Combos[p][2])

\* The number of tests that come before the loop position a.
Before(p, a) ==
  LET ofRun == CASE a.type = 0 -> 0
                 [] a.type = 1 -> Len(Combos[p][0])
                 [] a.type = 2 -> Len(Combos[p][0]) + Len(Combos[p][1])
  IN  (a.run - 1) * PerRun(p) + ofRun + (IF a.k = 0 THEN 0 ELSE a.k - 1)

Plan == INSTANCE TlsTestPlan WITH
  NumTests <- NumRun["client"] * PerRun("client"),
  offered  <- IF server_pid THEN Before("server", at["server"]) + 1 ELSE 0,
  measured <- IF stage["client"] = "done" THEN NumRun["client"] * PerRun("client")
              ELSE Before("client", at["client"])
                     + (IF stage["client"] = "complete" THEN 1 ELSE 0)

ImplementsPlan == Plan!Spec

\* Both scripts come to their end, unless the client uses up the attempts of a
\* combination: no signal between them is waited for in vain.
Completes == [](stage["client"] # "failed") => <>Finished

\* After the client has given up on a combination and told the server so,
\* the combination is tested again ("if failed, then restart the current
\* run sig/kem combination").
FailedIsRetried == stage["client"] = "failed" ~> stage["client"] = "test"
==============================================================================
