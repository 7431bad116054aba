----------------------------- MODULE OpensslCnf -----------------------------
(***************************************************************************)
(* configure_openssl_cnf.sh, which comments the group directives of        *)
(* openssl.cnf out (mode 1, for key generation and speed tests) and in     *)
(* again (mode 2, for TLS handshake tests), and the scripts that call it.  *)
(*                                                                         *)
(* A mode is five invocations of `sed -i`, one per directive.  Each reads  *)
(* the whole file, and renames its edited copy over the file.  Nothing     *)
(* excludes a second script from doing the same in between: in a           *)
(* single-machine test the server and the client script do.                *)
(***************************************************************************)
EXTENDS Naturals, Sequences

CONSTANTS
  Shell,       \* the shells scripts are run from
  SpeedFails,  \* can openssl speed fail?
  Interrupts,  \* may the user stop a script half-way?
  MaxJobs,     \* bound on the jobs started in a behaviour
  Unread       \* no copy of the file

\* The directives, in the order the sed invocations edit them.
Directive == <<"ssl_conf", "[ssl_sect]", "system_default",
               "[system_default_sect]", "Groups">>
Directives == {Directive[i] : i \in DOMAIN Directive}

\* A script is what it does to the file, in order: mode 1, mode 2, and the
\* work it needs the file for.  A handshake script sets mode 2 before each
\* of its three test types.
Job == {"keygen", "speed", "handshake"}

\* Mutant: the speed test does not restore the file.
ScriptWithoutRestore(j) ==
  CASE j = "keygen"    -> <<"mode1", "work", "mode2">>
    [] j = "speed"     -> <<"mode1", "work">>
    [] j = "handshake" -> <<"mode2", "work", "mode2", "work", "mode2", "work">>

\* Mutant: keys are generated without mode 1.
ScriptWithoutComment(j) ==
  CASE j = "keygen"    -> <<"mode2", "work", "mode2">>
    [] j = "speed"     -> <<"mode1", "work", "mode2">>
    [] j = "handshake" -> <<"mode2", "work", "mode2", "work", "mode2", "work">>

Script(j) ==
  CASE j = "keygen"    -> <<"mode1", "work", "mode2">>
    [] j = "speed"     -> <<"mode1", "work", "mode2">>
    [] j = "handshake" -> <<"mode2", "work", "mode2", "work", "mode2", "work">>

VARIABLES
  conf,    \* the file: the number of # in front of each directive
  job,     \* what the shell runs, or ran last
  todo,    \* the rest of its script; empty when it has ended
  edits,   \* sed invocations the current mode has completed
  copy,    \* what the sed invocation in progress read; Unread if none is
  jobs,    \* jobs started so far
  cut      \* has a script ended before its end? (for TestingConf only)

vars == <<conf, job, todo, edits, copy, jobs, cut>>

File   == [Directives -> Nat]
Active == [d \in Directives |-> 0]

ASSUME CnfAssumption ==
  /\ SpeedFails \in BOOLEAN
  /\ Interrupts \in BOOLEAN
  /\ MaxJobs \in Nat
  /\ Unread \notin File

TypeOK ==
  /\ conf \in File
  /\ job \in [Shell -> Job]
  /\ todo \in [Shell -> Seq({"mode1", "mode2", "work"})]
  /\ edits \in [Shell -> 0..4]
  /\ \A s \in Shell : copy[s] = Unread \/ copy[s] \in File
  /\ jobs \in 0..MaxJobs
  /\ cut \in BOOLEAN

\* Mode 0 of the setup has just appended the directives.
Init ==
  /\ conf = Active
  /\ job = [s \in Shell |-> "keygen"]
  /\ todo = [s \in Shell |-> <<>>]
  /\ edits = [s \in Shell |-> 0]
  /\ copy = [s \in Shell |-> Unread]
  /\ jobs = 0
  /\ cut = FALSE

Running(s) == todo[s] # <<>>
Doing(s, what) == Running(s) /\ Head(todo[s]) = what

-----------------------------------------------------------------------------
(* One sed invocation.                                                     *)

\* Mode 1 puts a # in front of the line s/^directive$/#directive/ finds;
\* the pattern for Groups has no ^, so it also matches a commented line.
Commented(d, hashes) ==
  IF d = "Groups" \/ hashes = 0 THEN hashes + 1 ELSE hashes

\* Mode 2 strips the # of a line that has exactly one.
Uncommented(d, hashes) == IF hashes = 1 THEN 0 ELSE hashes

Edited(mode, d, hashes) ==
  IF mode = "mode1" THEN Commented(d, hashes) ELSE Uncommented(d, hashes)

ReadConf(s) ==
  /\ Doing(s, "mode1") \/ Doing(s, "mode2")
  /\ copy[s] = Unread
  /\ copy' = [copy EXCEPT ![s] = conf]
  /\ UNCHANGED <<conf, job, todo, edits, jobs, cut>>

\* Mutant: one sed invocation too many.
WriteConfOnceMore(s) ==
  /\ Doing(s, "mode1") \/ Doing(s, "mode2")
  /\ copy[s] # Unread
  /\ LET d == Directive[edits[s] + 1]
     IN  conf' = [copy[s] EXCEPT ![d] = Edited(Head(todo[s]), d, @)]
  /\ copy' = [copy EXCEPT ![s] = Unread]
  /\ edits' = [edits EXCEPT ![s] = @ + 1]
  /\ UNCHANGED <<todo, job, jobs, cut>>

WriteConf(s) ==
  /\ Doing(s, "mode1") \/ Doing(s, "mode2")
  /\ copy[s] # Unread
  /\ LET d == Directive[edits[s] + 1]
     IN  conf' = [copy[s] EXCEPT ![d] = Edited(Head(todo[s]), d, @)]
  /\ copy' = [copy EXCEPT ![s] = Unread]
  /\ IF edits[s] < 4
       THEN /\ edits' = [edits EXCEPT ![s] = @ + 1]
            /\ UNCHANGED todo
       ELSE /\ edits' = [edits EXCEPT ![s] = 0]
            /\ todo' = [todo EXCEPT ![s] = Tail(@)]
  /\ UNCHANGED <<job, jobs, cut>>

-----------------------------------------------------------------------------
(* The scripts.                                                            *)

\* The user runs one script at a time, or the two handshake scripts of a
\* single-machine test.
Start(s, j) ==
  /\ jobs < MaxJobs
  /\ ~Running(s)
  /\ \A t \in Shell : Running(t) => job[t] = "handshake" /\ j = "handshake"
  /\ job' = [job EXCEPT ![s] = j]
  /\ todo' = [todo EXCEPT ![s] = Script(j)]
  /\ jobs' = jobs + 1
  /\ UNCHANGED <<conf, edits, copy, cut>>

Work(s) ==
  /\ Doing(s, "work")
  /\ todo' = [todo EXCEPT ![s] = Tail(@)]
  /\ UNCHANGED <<conf, job, edits, copy, jobs, cut>>

\* tls_speed_test: exit 1 when openssl speed fails.
SpeedTestFails(s) ==
  /\ SpeedFails
  /\ Doing(s, "work")
  /\ job[s] = "speed"
  /\ todo' = [todo EXCEPT ![s] = <<>>]
  /\ cut' = TRUE
  /\ UNCHANGED <<conf, job, edits, copy, jobs>>

\* The user stops the script; a sed invocation in progress leaves the file
\* as it was.
Interrupt(s) ==
  /\ Interrupts
  /\ Running(s)
  /\ todo' = [todo EXCEPT ![s] = <<>>]
  /\ edits' = [edits EXCEPT ![s] = 0]
  /\ copy' = [copy EXCEPT ![s] = Unread]
  /\ cut' = TRUE
  /\ UNCHANGED <<conf, job, jobs>>

Next ==
  \E s \in Shell :
    \/ \E j \in Job : Start(s, j)
    \/ ReadConf(s)
    \/ WriteConf(s)
    \/ Work(s)
    \/ SpeedTestFails(s)
    \/ Interrupt(s)

Spec == Init /\ [][Next]_vars

-----------------------------------------------------------------------------
(* Properties.                                                             *)

TestingConfAt(s) == Doing(s, "work") /\ job[s] = "handshake" => conf = Active

\* As long as every script has come to its end, handshakes are measured with
\* every directive in force, whichever scripts ran before and also while both
\* handshake scripts edit the file.
TestingConf == ~cut => \A s \in Shell : TestingConfAt(s)

\* The same whatever happened before ("Restore the OpenSSL conf file to have
\* the configuration needed for testing scripts").
TestingConfRestored == \A s \in Shell : TestingConfAt(s)

\* Keys are generated and speed is measured with none of the directives in
\* force, whatever an earlier script left behind.
KeygenConf ==
  \A s \in Shell : Doing(s, "work") /\ job[s] # "handshake"
                     => \A d \in Directives : conf[d] # 0
==============================================================================
