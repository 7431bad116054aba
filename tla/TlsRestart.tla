------------------------------ MODULE TlsRestart ------------------------------
(***************************************************************************)
(* TlsHandshakeControl with the controller that starts the scripts,        *)
(* pqc_tls_performance_test.sh, and a user who interrupts one of them at   *)
(* any moment and starts it again, the other one still running.            *)
(*                                                                         *)
(* What an interrupted script leaves behind is what its successor meets:   *)
(* the netcat it was waiting in may survive (control_signal begins with a  *)
(* pkill of it), and the s_server it had put in the background does        *)
(* survive, until setup_base_env of the controller finds it on its port    *)
(* and kills it, whoever is measuring it.  The successor knows nothing of  *)
(* where the other side is.                                                *)
(***************************************************************************)
EXTENDS TlsHandshakeControl

CONSTANT OneMachine   \* are both scripts run on one machine (localhost)?

ASSUME RestartAssumption == OneMachine \in BOOLEAN

VARIABLE absent       \* the sides whose script is not running

restart_vars == <<vars, absent>>

RestartInit == Init /\ absent = Side

-----------------------------------------------------------------------------
\* Mutant: the script goes on where it was interrupted.
InterruptResumes(p) ==
  /\ p \notin absent
  /\ stage[p] # "done"
  /\ absent' = absent \cup {p}
  /\ stage' = [stage EXCEPT ![p] = "entry"]
  /\ step' = [step EXCEPT ![p] = "idle"]
  /\ UNCHANGED channel
  /\ server_pid' = (server_pid /\ p # "server")
  /\ UNCHANGED <<at, kind, message, signal_message, sserver, others, fail_counter, results>>

\* The user interrupts a script; its successor will be at the entry.
Interrupt(p) ==
  /\ p \notin absent
  /\ stage[p] # "done"
  /\ absent' = absent \cup {p}
  /\ stage' = [stage EXCEPT ![p] = "entry"]
  /\ step' = [step EXCEPT ![p] = "idle"]
  /\ at' = [at EXCEPT ![p] = [run |-> 1, type |-> 0, k |-> 0]]
  /\ \/ UNCHANGED channel
     \/ /\ port' = [port EXCEPT ![p] = "closed"]
        /\ line' = [line EXCEPT ![p] = NoText]
  /\ server_pid' = (server_pid /\ p # "server")
  /\ UNCHANGED <<kind, message, signal_message, sserver, others, fail_counter, results>>

-----------------------------------------------------------------------------
(* setup_base_env looks at the three ports on its own machine.  It passes  *)
(* over a netcat on a control port and kills an openssl on S_SERVER_PORT,  *)
(* both if they run from inside the project's directory, and exits         *)
(* otherwise.  Where it finds no tool to look with, the server's loop on   *)
(* netstat finds none either, so that a check of S_SERVER_PORT that is     *)
(* skipped has no s_server in front of it that a client measures.          *)

Nearby(p) == IF OneMachine THEN Side ELSE {p}

ServerFound(p) == "server" \in Nearby(p) /\ sserver # NoServer

NetcatFound(p) == \E q \in Nearby(p) : port[q] # "closed"

\* The script stays down, and its user may try again.
Refused(p) ==
  /\ p \in absent
  /\ ServerFound(p) \/ NetcatFound(p)
  /\ UNCHANGED restart_vars

\* Mutant: the s_server of the predecessor is left alone.
StartKeeps(p) ==
  /\ p \in absent
  /\ absent' = absent \ {p}
  /\ results' = IF p = "client" THEN {} ELSE results
  /\ UNCHANGED <<channel, call, stage, at, sserver, server_pid, others, fail_counter>>

\* The script is started, with new result files or a new Machine-ID if it is
\* the client's.
Start(p) ==
  /\ p \in absent
  /\ absent' = absent \ {p}
  /\ sserver' = IF ServerFound(p) THEN NoServer ELSE sserver
  /\ server_pid' = (server_pid /\ ~ServerFound(p))
  /\ results' = IF p = "client" THEN {} ELSE results
  /\ UNCHANGED <<channel, call, stage, at, others, fail_counter>>

-----------------------------------------------------------------------------
Script(p) == IF p = "server" THEN Server ELSE Client

Runs(p) == p \notin absent /\ Script(p) /\ UNCHANGED absent

RestartNext ==
  \E p \in Side : Runs(p) \/ Interrupt(p) \/ Refused(p) \/ Start(p)

RestartSpec == RestartInit /\ [][RestartNext]_restart_vars

-----------------------------------------------------------------------------
(* Properties.                                                             *)

\* A restart may take the s_server away from a measurement, but never puts
\* another one in its place: as long as the client measures, the port is
\* served by the s_server of the combination at hand or by none at all.
NeverWrongServer ==
  stage["client"] = "test" => sserver \in {NoServer, ComboAt("client", at["client"])}

\* The s_server under a measurement is only ever taken away by the
\* controller that starts the server side again (kill -9 in setup_base_env),
\* not by anything the scripts do after a restart.
OnlyControllerKills ==
  [][Here("client", "test") /\ sserver' # sserver =>
       sserver' = NoServer /\ "server" \in absent \ absent']_restart_vars

\* No s_server outlives its script's successor: while the server script
\* runs, what serves the port is the process it has started itself, which it
\* kills after the verdict.
OwnServer == sserver # NoServer => server_pid \/ "server" \in absent
===============================================================================
