----------------------------- MODULE TlsStranded -----------------------------
(***************************************************************************)
(* Why no restart of TlsRestart ever lets s_time measure the wrong         *)
(* s_server, though it may take the right one away: the invariant of       *)
(* TlsLockstep holds, or the scripts are stranded.  Their handshakes all   *)
(* carry the same text, so two scripts that stand at different ones do     *)
(* answer each other, and the one that is behind may follow the other; but *)
(* the handshake of a combination is followed by waiting for a text that   *)
(* no handshake sends, and there they stay until one of them is restarted  *)
(* again.                                                                  *)
(*                                                                         *)
(* That takes lists that are not empty: every handshake of a test type is  *)
(* followed by that of a combination.                                      *)
(***************************************************************************)
EXTENDS TlsLockstep, TlsRestart

ASSUME ListAssumption ==
  \A p \in Side : \A t \in TestType : Combos[p][t] # <<>>

-----------------------------------------------------------------------------
(* What holds of each side, wherever the other one is.                     *)

\* A script that has just been started may find its predecessor's listener.
LeftoverOK(p) ==
  /\ port[p] # "closed" => step[p] = "wait" \/ Here(p, "entry")
  /\ line[p] # NoText => port[p] = "draining"

\* Which s_server is up, when the controller may have killed it.
ServerApart ==
  /\ others = 0
  /\ stage["server"] \in {"sync", "await_ready"} => sserver = NoServer
  /\ stage["server"] \in {"poll", "send_ready", "await_status"} =>
       sserver \in {NoServer, ComboAt("server", at["server"])}
  /\ Returned("server", "await_status") => signal_message["server"] = "complete"

ApartOK ==
  /\ stage["server"] \in ServerStage
  /\ stage["client"] \in ClientStage
  /\ \A p \in Side : CallOK(p) /\ AtOK(p) /\ LeftoverOK(p)
  /\ ServerApart
  /\ stage["server"] = "await_status" => line["server"] \notin {"ready", "skip"}
  /\ ResultsAsNamed

\* A script that is not running will begin at its entry.
AbsentOK == absent \subseteq Side /\ \A p \in absent : Here(p, "entry")

\* Where a script begins, and a test type.
StartsOK ==
  \A p \in Side :
    /\ stage[p] = "entry" => at[p] = [run |-> 1, type |-> 0, k |-> 0]
    /\ stage[p] = "type" => at[p].k = 0

-----------------------------------------------------------------------------
(* Where the server is, seen from a handshake h.                           *)

\* It has the client's signal, and answers it or is about to.
ServerEngaged ==
  /\ stage["server"] \in HandshakeStage
  /\ \/ Sending("server")
     \/ step["server"] = "wait" /\ line["server"] = "handshake_ready"

\* It has not heard of it: it comes from the handshake before, or waits.
Unheard(h) ==
  stage["server"] = h /\ step["server"] = "wait" /\ line["server"] # "handshake_ready"

ServerBefore(h) ==
  \/ Unheard(h)
  \/ h = "entry" /\ Here("server", "entry")
  \/ h = "type" /\ Returned("server", "entry")
  \/ h = "sync" /\ (Returned("server", "type") \/ stage["server"] = "reap")

\* It has left the handshake of a combination, and waits for "ready".
ServerExpects ==
  \/ Returned("server", "sync")
  \/ /\ stage["server"] = "await_ready" /\ step["server"] = "wait"
     /\ line["server"] \notin ControlAnswer

-----------------------------------------------------------------------------
(* Where the client is.                                                    *)

\* It has not spoken in the handshake h.
ClientSilent(h) ==
  stage["client"] = h /\ (step["client"] = "idle" \/ Sending("client"))

\* It has spoken, and is without an answer.
ClientUnanswered ==
  InHandshake /\ step["client"] = "wait" /\ line["client"] # "handshake_ready"

ClientAnswered(h) ==
  /\ stage["client"] = h
  /\ \/ step["client"] = "wait" /\ line["client"] = "handshake_ready"
     \/ step["client"] = "returned"

\* The next handshake it speaks in is that of a test type, of a combination.
ClientToType == ClientAnswered("entry") \/ ClientSilent("type")
ClientToSync == ClientAnswered("type") \/ ClientSilent("sync")

\* It has left the handshake of a combination, and waits for "ready".
ClientExpects ==
  \/ ClientAnswered("sync")
  \/ stage["client"] = "send_ready"
  \/ /\ stage["client"] = "await_ready" /\ step["client"] = "wait"
     /\ line["client"] \notin ControlAnswer

\* The s_server is the right one, or killed by the controller.
RightOrNone == sserver \in {NoServer, ComboAt("client", at["client"])}

\* It may go on to measure, but not the wrong s_server.
ClientMeasures ==
  /\ stage["client"] = "await_ready" /\ line["client"] \in ControlAnswer =>
       line["client"] = "ready" /\ RightOrNone
  /\ Returned("client", "await_ready") =>
       signal_message["client"] = "ready" /\ RightOrNone
  /\ stage["client"] = "test" => RightOrNone

-----------------------------------------------------------------------------
(* The two sides apart.                                                    *)

\* The client waits for the answer of a handshake that the server does not
\* know of.
StrandedInHandshake == ClientUnanswered /\ ~ServerEngaged

\* The client has been interrupted, or started again.
StrandedClient == ClientSilent("entry")

\* The server has been interrupted, or started again, maybe under a measurement.
StrandedServer ==
  ServerBefore("entry") /\ ~ClientSilent("entry") /\ ClientMeasures

\* One of them is a handshake ahead, or two.
StrandedAhead ==
  \/ ServerBefore("type") /\ (ClientToSync \/ ClientExpects)
  \/ ServerBefore("sync") /\ (ClientToType \/ ClientExpects)
  \/ ServerExpects /\ (ClientToType \/ ClientToSync)

\* They answer each other in different handshakes.
StrandedCrossed ==
  ClientUnanswered /\ ServerEngaged /\ stage["client"] # stage["server"]

Stranded ==
  /\ ApartOK
  /\ \/ StrandedInHandshake \/ StrandedClient \/ StrandedServer
     \/ StrandedAhead \/ StrandedCrossed

\* The invariant: the scripts are in lockstep or stranded.
RestartInvariant == TypeOK /\ AbsentOK /\ StartsOK /\ (Inductive \/ Stranded)
==============================================================================
