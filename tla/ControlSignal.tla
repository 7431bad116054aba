---------------------------- MODULE ControlSignal ----------------------------
(***************************************************************************)
(* The control channel of the TLS handshake tests: the bash functions      *)
(* control_signal and check_control_port of tls_handshake_test_server.sh   *)
(* and tls_handshake_test_client.sh, on top of netcat.                     *)
(*                                                                         *)
(* Each side owns one TCP port.  It receives by running `nc -l -p PORT` in *)
(* a command substitution: a listener that serves ONE connection and       *)
(* exits.  While it serves that connection its socket still accepts a      *)
(* second one into the backlog, and what arrives there is lost when the    *)
(* listener exits, although the sending netcat exits with status 0.        *)
(*                                                                         *)
(* A connection is opened either by `nc -z` (the probe of                  *)
(* check_control_port, which carries nothing and uses up the listener) or  *)
(* by `echo MESSAGE | nc -n -w 1` (the signal itself).                     *)
(***************************************************************************)

CONSTANT SleepEnabled   \* FALSE when --disable-control-sleep was given

Side == {"server", "client"}

Peer(p) == IF p = "server" THEN "client" ELSE "server"

\* What a connection can carry.  A probe carries NoText.
NoText  == "nothing"
Message == {"handshake_ready", "ready", "complete", "failed"}
Text    == Message \cup {NoText}

\* The messages control_wait takes for an answer; it drops all others and
\* listens again.
ControlAnswer == {"ready", "skip", "complete"}

VARIABLES
  port,            \* state of the side's one-shot listener
  line,            \* what the connection the listener serves carries
  kind,            \* "type" argument of the control_signal call in progress
  message,         \* "message" argument of that call
  step,            \* how far the call has got; "idle" outside of a call
  signal_message   \* global of the script: the last text received

channel == <<port, line>>
call    == <<kind, message, step, signal_message>>

Kind == {"control_send", "control_wait", "iteration_handshake"}
Step == {"idle", "probe", "sleep", "send", "wait", "returned"}

ChannelTypeOK ==
  /\ port \in [Side -> {"closed", "listening", "draining"}]
  /\ line \in [Side -> Text]
  /\ kind \in [Side -> Kind]
  /\ message \in [Side -> Text]
  /\ step \in [Side -> Step]
  /\ signal_message \in [Side -> Text]

ChannelInit ==
  /\ port = [p \in Side |-> "closed"]
  /\ line = [p \in Side |-> NoText]
  /\ kind = [p \in Side |-> "iteration_handshake"]
  /\ message = [p \in Side |-> NoText]
  /\ step = [p \in Side |-> "idle"]
  /\ signal_message = [p \in Side |-> NoText]

-----------------------------------------------------------------------------
(* Calls.  A call begins with pkill of the side's own lingering listener.  *)

\* The first thing a call does after the pkill: in iteration_handshake the
\* client speaks first and the server listens first.
FirstStep(p, k) ==
  IF k = "control_wait" \/ (k = "iteration_handshake" /\ p = "server")
  THEN "wait" ELSE "probe"

Call(p, k, m) ==
  /\ port' = [port EXCEPT ![p] = "closed"]
  /\ line' = [line EXCEPT ![p] = NoText]
  /\ kind' = [kind EXCEPT ![p] = k]
  /\ message' = [message EXCEPT ![p] = m]
  /\ step' = [step EXCEPT ![p] = FirstStep(p, k)]
  /\ UNCHANGED signal_message

\* What follows the step in which the call has sent its signal.
AfterSend(p) ==
  IF kind[p] = "iteration_handshake" /\ p = "client" THEN "wait" ELSE "returned"

\* Mutant: the server does not answer the client's handshake.
AfterReceiveSilent(p) == "returned"

\* What follows the receipt of the signal the call waits for.
AfterReceive(p) ==
  IF kind[p] = "iteration_handshake" /\ p = "server" THEN "probe" ELSE "returned"

-----------------------------------------------------------------------------
(* Opening a connection to the peer's port.                                *)

\* A fresh listener serves the connection.  One that still serves an
\* earlier connection leaves this one in its backlog, and it is lost.
\* There is no step for a refused connection: the loop around netcat spins.
Connect(p, text) ==
  /\ port[Peer(p)] # "closed"
  /\ IF port[Peer(p)] = "listening"
       THEN /\ port' = [port EXCEPT ![Peer(p)] = "draining"]
            /\ line' = [line EXCEPT ![Peer(p)] = text]
       ELSE UNCHANGED channel

\* check_control_port: until nc -z PEER PORT
Probe(p) ==
  /\ step[p] = "probe"
  /\ Connect(p, NoText)
  /\ step' = [step EXCEPT ![p] = IF SleepEnabled THEN "sleep" ELSE "send"]
  /\ UNCHANGED <<kind, message, signal_message>>

\* Mutant: the delay is shorter than what it waits for.
SleepTooShort(p) ==
  /\ step[p] = "sleep"
  /\ step' = [step EXCEPT ![p] = "send"]
  /\ UNCHANGED <<channel, kind, message, signal_message>>

\* check_control_port: sleep $CONTROL_SLEEP_TIME.  The delay is what it is
\* documented for: long enough for the peer's listener to be done with the
\* connections opened before it.
Sleep(p) ==
  /\ step[p] = "sleep"
  /\ port[Peer(p)] # "draining"
  /\ step' = [step EXCEPT ![p] = "send"]
  /\ UNCHANGED <<channel, kind, message, signal_message>>

\* until echo MESSAGE | nc -n -w 1 PEER PORT
Send(p) ==
  /\ step[p] = "send"
  /\ Connect(p, message[p])
  /\ step' = [step EXCEPT ![p] = AfterSend(p)]
  /\ UNCHANGED <<kind, message, signal_message>>

-----------------------------------------------------------------------------
(* Receiving: while true; do signal_message=$(nc -l -p PORT); ... done     *)

Listen(p) ==
  /\ step[p] = "wait"
  /\ port[p] = "closed"
  /\ port' = [port EXCEPT ![p] = "listening"]
  /\ UNCHANGED <<line, call>>

Awaited(p) ==
  IF kind[p] = "control_wait" THEN ControlAnswer ELSE {"handshake_ready"}

\* The listener has served its connection and exited; the loop ends only
\* for an awaited text.
Receive(p) ==
  /\ step[p] = "wait"
  /\ port[p] = "draining"
  /\ port' = [port EXCEPT ![p] = "closed"]
  /\ line' = [line EXCEPT ![p] = NoText]
  /\ signal_message' = [signal_message EXCEPT ![p] = line[p]]
  /\ step' = [step EXCEPT ![p] =
                IF line[p] \in Awaited(p) THEN AfterReceive(p) ELSE "wait"]
  /\ UNCHANGED <<kind, message>>

Signalling(p) == Probe(p) \/ Sleep(p) \/ Send(p) \/ Listen(p) \/ Receive(p)

-----------------------------------------------------------------------------
\* The loop around the sending netcat ends only when the signal has reached
\* a listener that will hand it to the peer's script ("Send the control
\* signal to the client until successful").
SentMeansDelivered ==
  [][\A p \in Side :
       step[p] = "send" /\ step'[p] # "send"
         => port[Peer(p)] = "listening" /\ line'[Peer(p)] = message[p]]_<<channel, call>>
==============================================================================
