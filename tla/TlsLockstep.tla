----------------------------- MODULE TlsLockstep -----------------------------
(***************************************************************************)
(* Why the two scripts of TlsHandshakeControl stay together although they  *)
(* share no state: an inductive invariant that says, for every place the   *)
(* client script can be at, where the server script can be, what is on     *)
(* the way between them, and which s_server is up.                         *)
(*                                                                         *)
(* It holds when both machines were given the same algorithm lists and     *)
(* the same number of runs ("must match on both machines"), and no foreign *)
(* openssl process makes pgrep print two pids; with or without the control *)
(* sleep, and whatever fails.                                              *)
(***************************************************************************)
EXTENDS TlsHandshakeControl

ASSUME MatchedAssumption ==
  /\ NumRun["server"] = NumRun["client"]
  /\ Combos["server"] = Combos["client"]
  /\ OtherOpenssl = 0

-----------------------------------------------------------------------------
(* Each side by itself.                                                    *)

HandshakeStage == {"entry", "type", "sync"}
SendStage      == {"send_ready", "complete", "failed"}
WaitStage      == {"await_ready", "await_status"}
IdleStage      == {"reap", "poll", "test", "done"}

\* Which stages belong to which script, and for which of them a combination
\* is at hand.
SharedStage == HandshakeStage \cup {"send_ready", "await_ready", "done"}
ServerStage == SharedStage \cup {"reap", "poll", "await_status"}
ClientStage == SharedStage \cup {"test", "complete", "failed"}
ComboStage  == Stage \ {"entry", "type", "done"}

\* What a side's stage says of the control_signal call it is in.
CallOK(p) ==
  /\ stage[p] \in HandshakeStage /\ step[p] # "idle" =>
       kind[p] = "iteration_handshake" /\ message[p] = "handshake_ready"
  /\ stage[p] \in {"type", "sync"} => step[p] # "idle"
  /\ stage[p] \in SendStage =>
       /\ kind[p] = "control_send"
       /\ message[p] = (IF stage[p] = "send_ready" THEN "ready" ELSE stage[p])
       /\ step[p] \in {"probe", "sleep", "send", "returned"}
  /\ stage[p] \in WaitStage =>
       /\ kind[p] = "control_wait"
       /\ step[p] \in {"wait", "returned"}
  /\ stage[p] \in IdleStage => step[p] = "idle"

\* Only a side that waits has a listener, and only a listener that serves a
\* connection has something to deliver.
PortOK(p) ==
  /\ port[p] # "closed" => step[p] = "wait"
  /\ line[p] # NoText => port[p] = "draining"

\* The combination at hand is one of the list.
AtOK(p) ==
  /\ at[p].run >= 1
  /\ at[p].k <= Len(Combos[p][at[p].type])
  /\ stage[p] \in ComboStage => at[p].k >= 1

SidesOK ==
  /\ stage["server"] \in ServerStage
  /\ stage["client"] \in ClientStage
  /\ CallOK("server") /\ CallOK("client")
  /\ PortOK("server") /\ PortOK("client")
  /\ AtOK("server") /\ AtOK("client")

\* Which s_server is up: none between the reaping and the start, and from
\* the ready signal to the verdict the one of the combination at hand.
ServerOK ==
  /\ others = 0
  /\ stage["server"] \in {"sync", "await_ready"} => sserver = NoServer
  /\ stage["server"] = "poll" =>
       sserver \in {NoServer, ComboAt("server", at["server"])}
  /\ stage["server"] \in {"send_ready", "await_status"} =>
       sserver = ComboAt("server", at["server"])
  /\ Returned("server", "await_status") => signal_message["server"] = "complete"

-----------------------------------------------------------------------------
(* Where the server can be, seen from a handshake h of the client at its   *)
(* loop position a.                                                        *)

\* It has yet to hear the client in the same handshake.
ServerAwaits(h, a) ==
  /\ at["server"] = a
  /\ \/ h = "entry" /\ Here("server", "entry")
     \/ h = "sync" /\ Here("server", "reap")
     \/ h \in HandshakeStage /\ stage["server"] = h /\ step["server"] = "wait"

\* It has heard the client and answers.
ServerAnswers(h, a) ==
  /\ at["server"] = a
  /\ stage["server"] = h
  /\ step["server"] \in {"probe", "sleep", "send"}

\* It is where the loops lead after the position a.
ServerFollows(a) ==
  \/ NextStage("server", a) # "done"
       /\ ServerAwaits(NextStage("server", a), NextAt("server", a))
  \/ NextStage("server", a) = "done" /\ stage["server"] = "done"

\* It has answered, and has gone on as far as it can without the client.
ServerPassed(h, a) ==
  /\ line["server"] = NoText
  /\ \/ at["server"] = a /\ Returned("server", h)
     \/ h = "entry" /\ ServerAwaits("type", a)
     \/ h = "type" /\ ServerFollows(a)
     \/ h = "sync" /\ at["server"] = a
          /\ stage["server"] = "await_ready" /\ step["server"] = "wait"

\* It has not yet come to the handshake: it has still to leave the one
\* before, or to hear the verdict on the combination before.
NextIs(h, a) ==
  NextStage("server", at["server"]) = h /\ NextAt("server", at["server"]) = a

ServerBehind(h, a) ==
  \/ h = "type" /\ at["server"] = a /\ Returned("server", "entry")
  \/ NextIs(h, a) /\ Returned("server", "type")
  \/ NextIs(h, a) /\ stage["server"] = "await_status"
       /\ line["server"] \in {NoText, "complete", "handshake_ready"}
  \/ h = "sync" /\ at["server"] = a
       /\ stage["server"] = "await_status" /\ step["server"] = "wait"
       /\ line["server"] \in {NoText, "failed", "handshake_ready"}

\* It has sent "ready" and waits for the verdict, which is not yet sent.
ServerOffers(a) ==
  /\ at["server"] = a
  /\ line["server"] = NoText
  /\ \/ Returned("server", "send_ready")
     \/ stage["server"] = "await_status" /\ step["server"] = "wait"
-----------------------------------------------------------------------------
(* The two sides together, by the place of the client.                     *)

Sending(p) == step[p] \in {"probe", "sleep", "send"}

InHandshake == stage["client"] \in HandshakeStage

\* In a handshake, before it has spoken.
TogetherBeforeHandshake ==
  InHandshake /\ (step["client"] = "idle" \/ Sending("client")) =>
    \/ ServerAwaits(stage["client"], at["client"]) /\ line["server"] = NoText
    \/ ServerBehind(stage["client"], at["client"])

\* Waiting for the server's answer.
TogetherInHandshake ==
  InHandshake /\ step["client"] = "wait" =>
    /\ line["client"] \in {NoText, "handshake_ready"}
    /\ \/ ServerPassed(stage["client"], at["client"])
       \/ /\ line["client"] = NoText
          /\ \/ ServerAwaits(stage["client"], at["client"])
                  /\ line["server"] \in {NoText, "handshake_ready"}
             \/ ServerAnswers(stage["client"], at["client"])
             \/ ServerBehind(stage["client"], at["client"])

\* With the answer.
TogetherAfterHandshake ==
  InHandshake /\ step["client"] = "returned" =>
    ServerPassed(stage["client"], at["client"])

\* Between the handshake of a combination and the server's "ready".
TogetherGettingReady ==
  LET a == at["client"]
      asked == Returned("client", "send_ready") \/ stage["client"] = "await_ready"
  IN  /\ stage["client"] = "send_ready" /\ Sending("client") =>
           ServerPassed("sync", a)
      /\ asked /\ step["client"] # "wait" => line["client"] = NoText
      /\ asked /\ ~Returned("client", "await_ready") =>
           \/ ServerOffers(a) /\ line["client"] \in {NoText, "ready"}
           \/ /\ line["client"] = NoText
              /\ at["server"] = a
              /\ \/ stage["server"] = "await_ready"
                      /\ line["server"] \in {NoText, "ready"}
                 \/ stage["server"] = "poll"
                 \/ stage["server"] = "send_ready" /\ Sending("server")
      /\ Returned("client", "await_ready") =>
           ServerOffers(a) /\ signal_message["client"] = "ready"

\* From the measurement to the verdict, and after it.
TogetherMeasuring ==
  LET a == at["client"]
  IN  /\ stage["client"] = "test" => ServerOffers(a)
      /\ stage["client"] \in {"complete", "failed"} /\ Sending("client") =>
           ServerOffers(a)
      /\ Returned("client", "complete") =>
           \/ at["server"] = a /\ stage["server"] = "await_status"
                /\ line["server"] \in {NoText, "complete"}
           \/ ServerFollows(a) /\ line["server"] = NoText
      /\ Returned("client", "failed") =>
           /\ at["server"] = a
           /\ stage["server"] = "await_status" /\ step["server"] = "wait"
           /\ line["server"] \in {NoText, "failed"}

\* After the end of the client.
TogetherAtTheEnd ==
  stage["client"] = "done" =>
    \/ stage["server"] = "done"
    \/ /\ NextStage("server", at["server"]) = "done"
       /\ \/ Returned("server", "type")
          \/ stage["server"] = "await_status"
               /\ line["server"] \in {NoText, "complete"}

Lockstep ==
  /\ SidesOK
  /\ ServerOK
  /\ TogetherBeforeHandshake
  /\ TogetherInHandshake
  /\ TogetherAfterHandshake
  /\ TogetherGettingReady
  /\ TogetherMeasuring
  /\ TogetherAtTheEnd

-----------------------------------------------------------------------------
(* The inductive invariant, and what it is for.                            *)

Inductive == TypeOK /\ Lockstep /\ RightServer /\ ResultsAsNamed

(***************************************************************************)
(* What the implementation of TlsTestPlan takes in addition: no side does  *)
(* more runs than it was told to, a test type is begun before its first    *)
(* combination, and server_pid names the s_server from its start to the    *)
(* verdict.                                                                *)
(***************************************************************************)
Planned ==
  /\ \A p \in Side : /\ at[p].run <= NumRun[p]
                     /\ stage[p] \in {"entry", "type"} => at[p].k = 0
  /\ server_pid => stage["server"] \in {"poll", "send_ready", "await_status"}
  /\ stage["server"] \in {"send_ready", "await_status"} => server_pid
  /\ stage["server"] = "poll" /\ sserver # NoServer => server_pid

InStep == Inductive /\ Planned
===============================================================================
