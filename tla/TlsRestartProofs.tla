--------------------------- MODULE TlsRestartProofs ---------------------------
(***************************************************************************)
(* Theorems about TlsRestart: whatever moments the user chooses to         *)
(* interrupt a script and start it again, and however often, s_time never  *)
(* measures the wrong s_server, though the controller may kill the right   *)
(* one under the measurement.                                              *)
(*                                                                         *)
(* An interrupt leaves the scripts stranded, and so does a start           *)
(* (InterruptStrands, StartStrands).  What holds of each side by itself    *)
(* does not depend on the other (MoveTypes,                                *)
(* MoveStarts, MoveEach, MoveServer).  A step of one side leaves the other *)
(* one's place alone (StepLeaves), so that where the two are, relative to  *)
(* each other, follows from where the step takes the one (ServerStep,      *)
(* ClientStep): a step of the server keeps them stranded, and one of the   *)
(* client does, too, or brings both together at the entry                  *)
(* (ServerKeepsStranded, ClientKeepsStranded).                             *)
(***************************************************************************)
EXTENDS TlsStranded, TlsHandshakeControlProofs

\* The names for places, calls and stages, expanded in every step below.
USE DEF Side, Peer, NoText, channel, call, Here, Returned, Sending,
        HandshakeStage, SendStage, WaitStage, IdleStage, InHandshake,
        SharedStage, ServerStage, ClientStage

\* In lockstep, each side by itself is as it is when the two are apart.
LEMMA LockstepApart ==
  ASSUME Inductive
  PROVE  ApartOK /\ ClientMeasures
<1> USE DEF Inductive, Lockstep, TypeOK, ChannelTypeOK
<1>1. /\ stage["server"] \in ServerStage
      /\ stage["client"] \in ClientStage
      /\ \A p \in Side : CallOK(p) /\ AtOK(p) /\ LeftoverOK(p)
      /\ ServerApart /\ ResultsAsNamed
  BY DEF SidesOK, PortOK, LeftoverOK, ServerOK, ServerApart
<1>2. stage["server"] = "await_status" => line["server"] \notin {"ready", "skip"}
  <2>1. stage["server"] = "await_status" /\ step["server"] # "wait" => line["server"] = NoText
    BY DEF SidesOK, PortOK, CallOK, Step
  <2> QED
    BY <2>1, Verdicts
<1>3. Returned("client", "await_ready") =>
        signal_message["client"] = "ready" /\ sserver = ComboAt("client", at["client"])
  BY MatchedAssumption DEF TogetherGettingReady, ServerOffers, ServerOK, ComboAt
<1>4. stage["client"] = "await_ready" /\ line["client"] \in ControlAnswer =>
        line["client"] = "ready" /\ sserver = ComboAt("client", at["client"])
  <2>1. stage["client"] = "await_ready" /\ line["client"] \in ControlAnswer
          => ServerOffers(at["client"]) /\ line["client"] = "ready"
    BY DEF TogetherGettingReady, ControlAnswer, SidesOK, CallOK, PortOK
  <2> QED
    BY <2>1, MatchedAssumption DEF ServerOffers, ServerOK, ComboAt
<1> QED
  BY <1>1, <1>2, <1>3, <1>4 DEF ApartOK, ClientMeasures, RightOrNone, RightServer

\* Wherever they are stranded, the client never goes on to measure the wrong
\* s_server, and has nothing to say to a server that waits for a verdict.
LEMMA StrandedSafe ==
  ASSUME Stranded
  PROVE  /\ ClientMeasures /\ NeverWrongServer
         /\ stage["client"] = "send_ready" => stage["server"] # "await_status"
<1> USE DEF ServerBefore, Unheard, ServerExpects, ClientSilent, ClientUnanswered,
            ClientAnswered, ClientToType, ClientToSync, ClientExpects
<1>1. CASE StrandedInHandshake \/ StrandedClient \/ StrandedCrossed
  BY <1>1 DEF StrandedInHandshake, StrandedClient, StrandedCrossed, ClientMeasures, NeverWrongServer
<1>2. CASE StrandedServer
  BY <1>2 DEF StrandedServer, ClientMeasures, RightOrNone, NeverWrongServer
<1>3. CASE StrandedAhead
  BY <1>3 DEF StrandedAhead, ClientMeasures, NeverWrongServer, ControlAnswer
<1> QED
  BY <1>1, <1>2, <1>3 DEF Stranded

-----------------------------------------------------------------------------
(* What the steps do to each side by itself.                               *)

\* A side that moves on in its loops, from the end of a combination or from
\* the handshake of a test type.
LEMMA MovesOn ==
  ASSUME TypeOK, NEW p \in Side, AtOK(p), NextCombo(p)
  PROVE  /\ NextStage(p, at[p]) \in {"sync", "type", "done"}
         /\ NextAt(p, at[p]) \in Position
         /\ NextAt(p, at[p]).run >= 1
         /\ NextAt(p, at[p]).k <= Len(Combos[p][NextAt(p, at[p]).type])
         /\ NextStage(p, at[p]) = "sync" => NextAt(p, at[p]).k >= 1
         /\ at' = [at EXCEPT ![p] = NextAt(p, at[p])]
         /\ \/ /\ NextStage(p, at[p]) \in {"sync", "type"}
               /\ stage' = [stage EXCEPT ![p] = NextStage(p, at[p])]
               /\ Call(p, "iteration_handshake", "handshake_ready")
               /\ NextStage(p, at[p]) = "sync" => p = "client"
            \/ /\ stage' = [stage EXCEPT ![p] = IF NextStage(p, at[p]) = "done" THEN "done" ELSE "reap"]
               /\ NextStage(p, at[p]) = "done" \/ (NextStage(p, at[p]) = "sync" /\ p = "server")
               /\ step' = [step EXCEPT ![p] = "idle"]
               /\ UNCHANGED <<port, line, kind, message, signal_message>>
<1>1. at[p] \in Position
  BY DEF TypeOK
<1>2. NextStage(p, at[p]) \in {"sync", "type", "done"}
  BY Zenon DEF NextStage
<1>3. /\ NextAt(p, at[p]) \in Position
      /\ NextAt(p, at[p]).run >= 1
      /\ NextAt(p, at[p]).k <= Len(Combos[p][NextAt(p, at[p]).type])
      /\ NextStage(p, at[p]) = "sync" => NextAt(p, at[p]).k >= 1
  BY <1>1, NextAtOK DEF AtOK
<1> QED
  BY <1>2, <1>3, NextComboEffect

\* After the handshake of a test type comes that of a combination, since no
\* list is empty.
LEMMA ListGoesOn ==
  ASSUME TypeOK, NEW p \in Side, StartsOK, stage[p] = "type"
  PROVE  NextStage(p, at[p]) = "sync"
<1>1. at[p].k = 0 /\ at[p].type \in TestType
  BY DEF StartsOK, TypeOK, Position
<1>2. Combos[p][at[p].type] # <<>> /\ Combos[p][at[p].type] \in Seq(Combo)
  BY <1>1, ListAssumption, ControlAssumption
<1>3. Len(Combos[p][at[p].type]) # 0
  BY <1>2
<1> QED
  BY <1>1, <1>3 DEF NextStage, Last

\* What a call leaves of its own side's channel.
LEMMA CallEffect ==
  ASSUME ChannelTypeOK, NEW p \in Side, NEW k, NEW m, Call(p, k, m)
  PROVE  /\ port'[p] = "closed" /\ line'[p] = NoText
         /\ kind'[p] = k /\ message'[p] = m /\ step'[p] = FirstStep(p, k)
         /\ signal_message' = signal_message
         /\ \A q \in Side \ {p} :
              /\ port'[q] = port[q] /\ line'[q] = line[q] /\ step'[q] = step[q]
              /\ kind'[q] = kind[q] /\ message'[q] = message[q]
  BY DEF ChannelTypeOK, Call

LEMMA Words ==
  /\ "iteration_handshake" \in Kind /\ "control_send" \in Kind /\ "control_wait" \in Kind
  /\ "handshake_ready" \in Text /\ "ready" \in Text
  /\ "complete" \in Text /\ "failed" \in Text /\ "nothing" \in Text
  /\ {"entry", "type", "reap", "sync", "await_ready", "poll", "send_ready",
      "await_status", "test", "complete", "failed", "done"} = Stage
  BY DEF Kind, Text, Message, Stage

LEMMA GoTypes ==
  ASSUME ChannelTypeOK, stage \in [Side -> Stage], NEW p \in Side, NEW s \in Stage,
         \/ Goto(p, s)
         \/ \E k \in Kind, m \in Text : GoCall(p, s, k, m)
  PROVE  ChannelTypeOK' /\ stage' \in [Side -> Stage]
<1>1. CASE Goto(p, s)
  BY <1>1 DEF Goto, ChannelTypeOK, Step
<1>2. CASE \E k \in Kind, m \in Text : GoCall(p, s, k, m)
  BY <1>2, CallTypeOK DEF GoCall
<1> QED
  BY <1>1, <1>2

LEMMA NextComboTypes ==
  ASSUME TypeOK, NEW p \in Side, AtOK(p), NextCombo(p)
  PROVE  ChannelTypeOK' /\ stage' \in [Side -> Stage] /\ at' \in [Side -> Position]
<1>1. ChannelTypeOK /\ stage \in [Side -> Stage] /\ at \in [Side -> Position]
  BY DEF TypeOK
<1>2. at' \in [Side -> Position]
  BY <1>1, MovesOn
<1>3. \E s \in Stage : Goto(p, s) \/ GoCall(p, s, "iteration_handshake", "handshake_ready")
  <2>1. \/ Goto(p, "done") \/ Goto(p, "reap") \/ Handshake(p, "sync") \/ Handshake(p, "type")
    BY MovesOn DEF NextCombo, BeginCombo
  <2> QED
    BY <2>1, Words DEF Handshake
<1> QED
  BY <1>1, <1>2, <1>3, Words, GoTypes

LEMMA SignalTypes ==
  ASSUME ChannelTypeOK, NEW p \in Side, Signalling(p)
  PROVE  ChannelTypeOK'
<1> USE DEF ChannelTypeOK, Step
<1>1. CASE Probe(p)
  BY <1>1, Words DEF Probe, Connect
<1>2. CASE Send(p)
  BY <1>2 DEF Send, Connect, AfterSend
<1>3. CASE Sleep(p)
  BY <1>3 DEF Sleep
<1>4. CASE Listen(p)
  BY <1>4 DEF Listen
<1>5. CASE Receive(p)
  BY <1>5, Words DEF Receive, AfterReceive
<1> QED
  BY <1>1, <1>2, <1>3, <1>4, <1>5 DEF Signalling

\* Every step keeps the types; for the positions that takes sides that are at a
\* place of their lists.
LEMMA MoveTypes ==
  ASSUME TypeOK, \A p \in Side : AtOK(p), Next
  PROVE  TypeOK'
<1>0. /\ ChannelTypeOK /\ stage \in [Side -> Stage] /\ at \in [Side -> Position]
      /\ sserver \in Served \cup {NoServer} /\ server_pid \in BOOLEAN /\ others \in Nat
      /\ fail_counter \in 0..FailLimit /\ results \subseteq [at : Position, served : Served]
  BY DEF TypeOK
<1>1. ASSUME NEW p \in Side, NEW s \in Stage, Goto(p, s)
      PROVE  ChannelTypeOK' /\ stage' \in [Side -> Stage]
  BY <1>0, <1>1, GoTypes
<1>2. ASSUME NEW p \in Side, NEW s \in Stage, NEW k \in Kind, NEW m \in Text, GoCall(p, s, k, m)
      PROVE  ChannelTypeOK' /\ stage' \in [Side -> Stage]
  BY <1>0, <1>2, GoTypes
<1>3. ASSUME NEW p \in Side, NextCombo(p)
      PROVE  ChannelTypeOK' /\ stage' \in [Side -> Stage] /\ at' \in [Side -> Position]
  BY <1>3, NextComboTypes
<1> "server" \in Side /\ "client" \in Side
  OBVIOUS
<1> HIDE DEF Side
<1>4. ASSUME NEW p \in Side, Common(p)
      PROVE  TypeOK'
  <2>1. CASE Signal(p)
    BY <1>0, <2>1, SignalTypes DEF Signal, TypeOK
  <2>2. CASE Enter(p) \/ BeginRuns(p)
    <3>1. ChannelTypeOK' /\ stage' \in [Side -> Stage]
      BY <1>2, <2>2, Words DEF Enter, BeginRuns, Handshake
    <3> QED
      BY <1>0, <2>2, <3>1 DEF Enter, BeginRuns, TypeOK
  <2>3. CASE BeginType(p)
    BY <1>0, <1>3, <2>3 DEF BeginType, TypeOK
  <2> QED
    BY <1>4, <2>1, <2>2, <2>3 DEF Common
<1>5. CASE Reap \/ AwaitReady \/ ServerIsUp \/ AwaitStatus
  <2>1. ChannelTypeOK' /\ stage' \in [Side -> Stage]
    BY <1>2, <1>5, Words DEF Reap, AwaitReady, ServerIsUp, AwaitStatus, Handshake
  <2>2. /\ at' = at /\ fail_counter' = fail_counter /\ results' = results
        /\ sserver' \in {sserver, NoServer} /\ others' \in {others, 0}
        /\ server_pid' = server_pid \/ server_pid' = FALSE
    BY <1>5, Zenon DEF Reap, AwaitReady, ServerIsUp, AwaitStatus
  <2>3. server_pid' \in BOOLEAN
    BY <1>0, <2>2, Zenon
  <2>4. sserver' \in Served \cup {NoServer} /\ others' \in Nat
    BY <1>0, <2>2
  <2> QED
    BY <1>0, <2>1, <2>2, <2>3, <2>4, Zenon DEF TypeOK
<1>6. CASE StartServer
  <2>1. ComboAt("server", at["server"]) \in Served
    <3>1. at["server"] \in Position /\ AtOK("server") /\ stage["server"] = "await_ready"
      BY <1>0, <1>6 DEF StartServer
    <3> QED
      BY <3>1, ComboAtFact DEF AtOK, ComboStage, Stage, Served
  <2>2. ChannelTypeOK' /\ stage' \in [Side -> Stage]
    BY <1>1, <1>6, Words DEF StartServer
  <2> QED
    BY <1>0, <1>6, <2>1, <2>2 DEF StartServer, TypeOK
<1>7. CASE Judge
  <2>1. ChannelTypeOK' /\ stage' \in [Side -> Stage] /\ at' \in [Side -> Position]
    BY <1>0, <1>1, <1>3, <1>7, Words DEF Judge
  <2> QED
    BY <1>0, <1>7, <2>1 DEF Judge, TypeOK
<1>8. CASE SendReady \/ AwaitServer \/ TryAgain
  <2>1. ChannelTypeOK' /\ stage' \in [Side -> Stage]
    BY <1>2, <1>8, Words DEF SendReady, AwaitServer, TryAgain, Handshake
  <2> QED
    BY <1>0, <1>8, <2>1 DEF SendReady, AwaitServer, TryAgain, TypeOK
<1>9. CASE Answered
  <2>1. \/ Goto("client", "test")
        \/ GoCall("client", "complete", "control_send", "complete")
        \/ Handshake("client", "sync")
    BY <1>9 DEF Answered
  <2>2. ChannelTypeOK' /\ stage' \in [Side -> Stage]
    BY <1>1, <1>2, <2>1, Words DEF Handshake
  <2>3. fail_counter' \in 0..FailLimit
    BY <1>0, <1>9, ControlAssumption DEF Answered
  <2> QED
    BY <1>0, <1>9, <2>2, <2>3 DEF Answered, TypeOK
<1>10. CASE TestSucceeds \/ GiveUp
  <2>1. ChannelTypeOK' /\ stage' \in [Side -> Stage]
    BY <1>2, <1>10, Words DEF TestSucceeds, GiveUp
  <2>2. results' \subseteq [at : Position, served : Served]
    BY <1>0, <1>10 DEF TestSucceeds, GiveUp, Truncated
  <2> QED
    BY <1>0, <1>10, <2>1, <2>2 DEF TestSucceeds, GiveUp, TypeOK
<1>11. CASE TestFails
  <2>1. ChannelTypeOK'
    BY <1>0, <1>11 DEF TestFails, ChannelTypeOK
  <2>2. fail_counter' \in 0..FailLimit /\ results' \subseteq results
    BY <1>0, <1>11, ControlAssumption DEF TestFails, Truncated
  <2> QED
    BY <1>0, <1>11, <2>1, <2>2 DEF TestFails, TypeOK
<1>12. CASE Reported
  BY <1>0, <1>3, <1>12 DEF Reported, TypeOK
<1>13. CASE UNCHANGED vars
  BY <1>0, <1>13 DEF vars, ChannelTypeOK, TypeOK
<1> QED
  BY <1>4, <1>5, <1>6, <1>7, <1>8, <1>9, <1>10, <1>11, <1>12, <1>13 DEF Next, Server, Client

\* No step but a restart leads to the entry, and a test type is begun before
\* its first combination.
LEMMA MoveStarts ==
  ASSUME TypeOK, \A p \in Side : AtOK(p), StartsOK, Next
  PROVE  StartsOK'
<1>0. stage \in [Side -> Stage] /\ at \in [Side -> Position]
  BY DEF TypeOK
<1>1. ASSUME NEW p \in Side, NEW s, s \notin {"entry", "type"}, stage' = [stage EXCEPT ![p] = s],
             at' = at
      PROVE  StartsOK'
  BY <1>0, <1>1 DEF StartsOK
<1>2. ASSUME NEW p \in Side, NextCombo(p)
      PROVE  StartsOK'
  <2>1. /\ at' = [at EXCEPT ![p] = NextAt(p, at[p])]
        /\ stage' \in {[stage EXCEPT ![p] = "type"], [stage EXCEPT ![p] = "sync"],
                       [stage EXCEPT ![p] = "reap"], [stage EXCEPT ![p] = "done"]}
        /\ stage' = [stage EXCEPT ![p] = "type"] => NextStage(p, at[p]) = "type"
    BY <1>0, <1>2, MovesOn
  <2>2. NextStage(p, at[p]) = "type" => NextAt(p, at[p]).k = 0
    <3>1. at[p] \in Position
      BY <1>0
    <3>2. CASE Last(p, at[p]) /\ at[p].type < 2
      <4>1. NextAt(p, at[p]) = [at[p] EXCEPT !.type = @ + 1, !.k = 0]
        BY <3>2 DEF NextAt
      <4> QED
        BY <3>1, <4>1 DEF Position
    <3>3. CASE Last(p, at[p]) /\ at[p].type = 2 /\ at[p].run < NumRun[p]
      <4>1. NextAt(p, at[p]) = [run |-> at[p].run + 1, type |-> 0, k |-> 0]
        BY <3>3 DEF NextAt
      <4> QED
        BY <4>1
    <3>4. CASE ~(Last(p, at[p]) /\ (at[p].type < 2 \/ at[p].run < NumRun[p]))
      BY <3>4 DEF NextStage
    <3>5. at[p].type \in 0..2
      BY <3>1 DEF Position, TestType
    <3> QED
      BY <3>2, <3>3, <3>4, <3>5
  <2> QED
    BY <1>0, <2>1, <2>2 DEF StartsOK
<1>3. ASSUME NEW p \in Side, Common(p)
      PROVE  StartsOK'
  BY <1>0, <1>2, <1>3 DEF Common, Signal, Enter, BeginRuns, BeginType, Handshake, GoCall, StartsOK
<1>4. CASE Reap \/ AwaitReady \/ StartServer \/ ServerIsUp \/ AwaitStatus
  BY <1>1, <1>4 DEF Reap, AwaitReady, StartServer, ServerIsUp, AwaitStatus, Handshake, GoCall, Goto
<1>5. CASE Judge
  BY <1>1, <1>2, <1>5 DEF Judge, Goto
<1>6. CASE SendReady \/ AwaitServer \/ TestSucceeds \/ TestFails \/ GiveUp \/ TryAgain
  BY <1>1, <1>6 DEF SendReady, AwaitServer, TestSucceeds, TestFails, GiveUp, TryAgain, Handshake,
     GoCall, StartsOK
<1>7. CASE Answered
  <2>1. \/ Goto("client", "test")
        \/ GoCall("client", "complete", "control_send", "complete")
        \/ Handshake("client", "sync")
    BY <1>7, Zenon DEF Answered
  <2> QED
    BY <1>1, <1>7, <2>1 DEF Answered, Handshake, GoCall, Goto
<1>8. CASE Reported
  BY <1>2, <1>8 DEF Reported
<1>9. CASE UNCHANGED vars
  BY <1>9 DEF vars, StartsOK
<1> QED
  BY <1>3, <1>4, <1>5, <1>6, <1>7, <1>8, <1>9 DEF Next, Server, Client

\* What holds of one side, and of both.
SideOK(p) == CallOK(p) /\ AtOK(p) /\ LeftoverOK(p)

EachOK == \A p \in Side : SideOK(p)

\* The calls there are at each statement.
CallFits(s, k, m) ==
  \/ s \in HandshakeStage /\ k = "iteration_handshake" /\ m = "handshake_ready"
  \/ s \in SendStage /\ k = "control_send" /\ m = (IF s = "send_ready" THEN "ready" ELSE s)
  \/ s \in WaitStage /\ k = "control_wait" /\ m = NoText

LEMMA GoCallEach ==
  ASSUME TypeOK, EachOK, NEW p \in Side, NEW s, NEW k, NEW m,
         GoCall(p, s, k, m), CallFits(s, k, m), at' = at,
         s \in ComboStage => stage[p] \in ComboStage
  PROVE  EachOK'
<1>0. ChannelTypeOK /\ stage \in [Side -> Stage]
  BY DEF TypeOK
<1>1. Call(p, k, m) /\ stage' = [stage EXCEPT ![p] = s]
  BY DEF GoCall
<1>2. /\ port'[p] = "closed" /\ line'[p] = NoText
      /\ kind'[p] = k /\ message'[p] = m /\ step'[p] = FirstStep(p, k)
      /\ \A q \in Side \ {p} :
           /\ port'[q] = port[q] /\ line'[q] = line[q] /\ step'[q] = step[q]
           /\ kind'[q] = kind[q] /\ message'[q] = message[q]
  BY <1>0, <1>1, CallEffect
<1>3. SideOK(p)'
  <2>1. CallOK(p)'
    BY <1>0, <1>1, <1>2 DEF CallOK, CallFits, FirstStep
  <2>2. LeftoverOK(p)'
    BY <1>2 DEF LeftoverOK
  <2>3. AtOK(p)'
    BY <1>0, <1>1 DEF EachOK, SideOK, AtOK
  <2> QED
    BY <2>1, <2>2, <2>3 DEF SideOK
<1>4. ASSUME NEW q \in Side, q # p
      PROVE  SideOK(q)'
  BY <1>0, <1>1, <1>2, <1>4 DEF EachOK, SideOK, CallOK, AtOK, LeftoverOK
<1> QED
  BY <1>3, <1>4 DEF EachOK

LEMMA GotoEach ==
  ASSUME TypeOK, EachOK, NEW p \in Side, NEW s \in IdleStage, Goto(p, s), at' = at,
         step[p] # "wait", stage[p] # "entry",
         s # "done" => stage[p] \in ComboStage
  PROVE  EachOK'
<1>0. ChannelTypeOK /\ stage \in [Side -> Stage]
  BY DEF TypeOK
<1>1. /\ stage' = [stage EXCEPT ![p] = s] /\ step' = [step EXCEPT ![p] = "idle"]
      /\ UNCHANGED <<port, line, kind, message>>
  BY DEF Goto
<1>2. ASSUME NEW q \in Side
      PROVE  SideOK(q)'
  BY <1>0, <1>1 DEF ChannelTypeOK, EachOK, SideOK, CallOK, AtOK, LeftoverOK, ComboStage
<1> QED
  BY <1>2 DEF EachOK

LEMMA NextComboEach ==
  ASSUME TypeOK, EachOK, NEW p \in Side, NextCombo(p), step[p] = "returned"
  PROVE  EachOK'
<1>0. ChannelTypeOK /\ stage \in [Side -> Stage] /\ at \in [Side -> Position]
  BY DEF TypeOK
<1>1. AtOK(p)
  BY DEF EachOK, SideOK
<1>2. CASE /\ NextStage(p, at[p]) \in {"sync", "type"}
           /\ stage' = [stage EXCEPT ![p] = NextStage(p, at[p])]
           /\ Call(p, "iteration_handshake", "handshake_ready")
  <2>1. /\ port'[p] = "closed" /\ line'[p] = NoText
        /\ kind'[p] = "iteration_handshake" /\ message'[p] = "handshake_ready"
        /\ step'[p] = FirstStep(p, "iteration_handshake")
        /\ \A q \in Side \ {p} :
             /\ port'[q] = port[q] /\ line'[q] = line[q] /\ step'[q] = step[q]
             /\ kind'[q] = kind[q] /\ message'[q] = message[q]
    BY <1>0, <1>2, CallEffect
  <2>2. CallOK(p)' /\ LeftoverOK(p)'
    BY <1>0, <1>2, <2>1 DEF CallOK, LeftoverOK, FirstStep
  <2>3. AtOK(p)'
    BY <1>0, <1>1, <1>2, MovesOn DEF AtOK, ComboStage
  <2>4. ASSUME NEW q \in Side, q # p
        PROVE  SideOK(q)'
    <3>1. stage'[q] = stage[q] /\ at'[q] = at[q]
      BY <1>0, <1>1, <1>2, <2>4, MovesOn
    <3> QED
      BY <2>1, <2>4, <3>1 DEF EachOK, SideOK, CallOK, AtOK, LeftoverOK
  <2> QED
    BY <2>2, <2>3, <2>4 DEF EachOK, SideOK
<1>3. CASE /\ stage' = [stage EXCEPT ![p] = IF NextStage(p, at[p]) = "done" THEN "done" ELSE "reap"]
           /\ step' = [step EXCEPT ![p] = "idle"]
           /\ NextStage(p, at[p]) # "done" => NextStage(p, at[p]) = "sync"
           /\ UNCHANGED <<port, line, kind, message>>
  <2>1. CallOK(p)' /\ LeftoverOK(p)'
    BY <1>0, <1>3 DEF ChannelTypeOK, EachOK, SideOK, CallOK, LeftoverOK
  <2>2. AtOK(p)'
    BY <1>0, <1>1, <1>3, MovesOn DEF AtOK, ComboStage
  <2>3. ASSUME NEW q \in Side, q # p
        PROVE  SideOK(q)'
    <3>1. stage'[q] = stage[q] /\ at'[q] = at[q] /\ step'[q] = step[q]
      BY <1>0, <1>1, <1>3, <2>3, MovesOn DEF ChannelTypeOK
    <3> QED
      BY <1>3, <2>3, <3>1 DEF EachOK, SideOK, CallOK, AtOK, LeftoverOK
  <2> QED
    BY <2>1, <2>2, <2>3 DEF EachOK, SideOK
<1> QED
  BY <1>1, <1>2, <1>3, MovesOn

LEMMA SignalEach ==
  ASSUME TypeOK, EachOK, NEW p \in Side, Signal(p)
  PROVE  EachOK'
<1>0. ChannelTypeOK /\ stage' = stage /\ at' = at
  BY DEF TypeOK, Signal
<1> USE DEF ChannelTypeOK, EachOK, SideOK, CallOK, AtOK, LeftoverOK
<1>1. CASE Probe(p) \/ Send(p)
  BY <1>0, <1>1 DEF Probe, Send, Connect, AfterSend, Step
<1>2. CASE Sleep(p) \/ Listen(p) \/ Receive(p)
  BY <1>0, <1>2 DEF Sleep, Listen, Receive, AfterReceive, Step
<1> QED
  BY <1>1, <1>2 DEF Signal, Signalling

\* Each side by itself after any step.
LEMMA MoveEach ==
  ASSUME TypeOK, EachOK, Next
  PROVE  EachOK'
<1>1. ASSUME NEW p \in Side, Common(p)
      PROVE  EachOK'
  BY <1>1, SignalEach, GoCallEach, NextComboEach
  DEF Common, Enter, BeginRuns, BeginType, Handshake, CallFits, ComboStage
<1>2. CASE Reap \/ AwaitReady \/ ServerIsUp \/ AwaitStatus
  BY <1>2, GoCallEach DEF Reap, AwaitReady, ServerIsUp, AwaitStatus, Handshake, CallFits, ComboStage, Stage
<1>3. CASE StartServer
  BY <1>3, GotoEach DEF StartServer, ComboStage, Stage
<1>4. CASE Judge
  BY <1>4, GotoEach, NextComboEach DEF Judge, ComboStage, Stage
<1>5. CASE SendReady \/ AwaitServer \/ TestSucceeds \/ GiveUp \/ TryAgain
  BY <1>5, GoCallEach DEF SendReady, AwaitServer, TestSucceeds, GiveUp, TryAgain, Handshake, CallFits,
     ComboStage, Stage
<1>6. CASE Answered
  <2>1. /\ Returned("client", "await_ready") /\ at' = at
        /\ \/ Goto("client", "test")
           \/ GoCall("client", "complete", "control_send", "complete")
           \/ Handshake("client", "sync")
    BY <1>6, Zenon DEF Answered
  <2> QED
    BY <2>1, GotoEach, GoCallEach DEF Handshake, CallFits, ComboStage, Stage
<1>7. CASE TestFails \/ UNCHANGED vars
  BY <1>7 DEF TestFails, vars, EachOK, SideOK, CallOK, AtOK, LeftoverOK
<1>8. CASE Reported
  BY <1>8, NextComboEach DEF Reported
<1> QED
  BY <1>1, <1>2, <1>3, <1>4, <1>5, <1>6, <1>7, <1>8 DEF Next, Server, Client

\* No side takes the other's statements.
LEMMA MoveStage ==
  ASSUME TypeOK, EachOK, stage["server"] \in ServerStage, stage["client"] \in ClientStage, Next
  PROVE  stage'["server"] \in ServerStage /\ stage'["client"] \in ClientStage
<1>0. stage \in [Side -> Stage]
  BY DEF TypeOK
<1>1. ASSUME NEW p \in Side, Common(p)
      PROVE  \/ stage'[p] = stage[p]
             \/ stage'[p] \in {"entry", "type", "done"}
             \/ stage'[p] = "sync" /\ p = "client"
             \/ stage'[p] = "reap" /\ p = "server"
  <2>1. CASE BeginType(p)
    <3>1. NextCombo(p) /\ AtOK(p)
      BY <2>1 DEF BeginType, EachOK, SideOK
    <3>2. \E s \in {"sync", "type", "reap", "done"} :
            /\ stage' = [stage EXCEPT ![p] = s]
            /\ s = "sync" => p = "client"
            /\ s = "reap" => p = "server"
      BY <3>1, MovesOn
    <3> QED
      BY <1>0, <3>2
  <2> QED
    BY <1>0, <1>1, <2>1 DEF Common, Signal, Enter, BeginRuns, Handshake, GoCall
<1>2. ASSUME NEW p \in Side, Common(p)
      PROVE  \A q \in Side \ {p} : stage'[q] = stage[q]
  <2>1. CASE BeginType(p)
    BY <1>0, <2>1, MovesOn DEF BeginType, EachOK, SideOK
  <2> QED
    BY <1>0, <1>2, <2>1 DEF Common, Signal, Enter, BeginRuns, Handshake, GoCall
<1>3. CASE Common("server") \/ Common("client")
  BY <1>1, <1>2, <1>3
<1>4. CASE Reap \/ AwaitReady \/ StartServer \/ ServerIsUp \/ AwaitStatus
  BY <1>0, <1>4 DEF Reap, AwaitReady, StartServer, ServerIsUp, AwaitStatus, Handshake, GoCall, Goto
<1>5. CASE Judge
  <2>1. NextCombo("server") \/ Goto("server", "reap")
    BY <1>5 DEF Judge
  <2> QED
    BY <1>0, <2>1, MovesOn DEF Goto, EachOK, SideOK
<1>6. CASE SendReady \/ AwaitServer \/ TestSucceeds \/ TestFails \/ GiveUp \/ TryAgain
  BY <1>0, <1>6 DEF SendReady, AwaitServer, TestSucceeds, TestFails, GiveUp, TryAgain, Handshake, GoCall
<1>7. CASE Answered
  <2>1. \/ Goto("client", "test")
        \/ GoCall("client", "complete", "control_send", "complete")
        \/ Handshake("client", "sync")
    BY <1>7, Zenon DEF Answered
  <2> QED
    BY <1>0, <2>1 DEF Handshake, GoCall, Goto
<1>8. CASE Reported
  BY <1>0, <1>8, MovesOn DEF Reported, EachOK, SideOK
<1>9. CASE UNCHANGED vars
  BY <1>9 DEF vars
<1> QED
  BY <1>3, <1>4, <1>5, <1>6, <1>7, <1>8, <1>9 DEF Next, Server, Client

\* A step of one side leaves the other one where it is; all it can do to it is
\* to open a connection to its listener, and to send it its message.
Leaves(p) ==
  LET q == Peer(p)
  IN  /\ stage'[q] = stage[q] /\ step'[q] = step[q] /\ at'[q] = at[q]
      /\ kind'[q] = kind[q] /\ message'[q] = message[q]
      /\ signal_message'[q] = signal_message[q]
      /\ \/ line'[q] = line[q]
         \/ step[p] = "send" /\ port[q] = "listening" /\ line'[q] = message[p]

LEMMA StepLeaves ==
  ASSUME TypeOK, EachOK
  PROVE  /\ Server => Leaves("server")
         /\ Client => Leaves("client")
<1>0. ChannelTypeOK /\ stage \in [Side -> Stage] /\ at \in [Side -> Position]
  BY DEF TypeOK
<1>1. ASSUME NEW p \in Side, Signal(p)
      PROVE  Leaves(p)
  <2>1. CASE Probe(p) \/ Send(p)
    <3>1. port[Peer(p)] = "listening" => line[Peer(p)] = NoText
      BY DEF EachOK, SideOK, LeftoverOK
    <3> QED
      BY <1>0, <1>1, <2>1, <3>1 DEF ChannelTypeOK, Signal, Probe, Send, Connect, Leaves
  <2>2. CASE Sleep(p) \/ Listen(p) \/ Receive(p)
    BY <1>0, <1>1, <2>2 DEF ChannelTypeOK, Signal, Sleep, Listen, Receive, Leaves
  <2> QED
    BY <1>1, <2>1, <2>2 DEF Signal, Signalling
<1>2. ASSUME NEW p \in Side, NEW s, NEW k, NEW m, GoCall(p, s, k, m), at' = at
      PROVE  Leaves(p)
  BY <1>0, <1>2 DEF ChannelTypeOK, GoCall, Call, Leaves
<1>3. ASSUME NEW p \in Side, NEW s, Goto(p, s), at' = at
      PROVE  Leaves(p)
  BY <1>0, <1>3 DEF ChannelTypeOK, Goto, Leaves
<1>4. ASSUME NEW p \in Side, NextCombo(p)
      PROVE  Leaves(p)
  <2>1. AtOK(p)
    BY DEF EachOK, SideOK
  <2>2. /\ stage'[Peer(p)] = stage[Peer(p)] /\ at'[Peer(p)] = at[Peer(p)]
        /\ \/ Call(p, "iteration_handshake", "handshake_ready")
           \/ /\ step' = [step EXCEPT ![p] = "idle"]
              /\ UNCHANGED <<port, line, kind, message, signal_message>>
    BY <1>0, <1>4, <2>1, MovesOn
  <2> QED
    BY <1>0, <2>2 DEF ChannelTypeOK, Call, Leaves
<1>5. ASSUME NEW p \in Side, Common(p)
      PROVE  Leaves(p)
  BY <1>1, <1>2, <1>4, <1>5 DEF Common, Enter, BeginRuns, BeginType, Handshake
<1>6. Reap \/ AwaitReady \/ StartServer \/ ServerIsUp \/ AwaitStatus => Leaves("server")
  BY <1>2, <1>3 DEF Reap, AwaitReady, StartServer, ServerIsUp, AwaitStatus, Handshake
<1>7. Judge => Leaves("server")
  BY <1>3, <1>4 DEF Judge
<1>8. SendReady \/ AwaitServer \/ TestSucceeds \/ GiveUp \/ TryAgain => Leaves("client")
  BY <1>2 DEF SendReady, AwaitServer, TestSucceeds, GiveUp, TryAgain, Handshake
<1>9. Answered => Leaves("client")
  <2>1. Answered =>
          /\ at' = at
          /\ \/ Goto("client", "test")
             \/ GoCall("client", "complete", "control_send", "complete")
             \/ Handshake("client", "sync")
    BY Zenon DEF Answered
  <2> QED
    BY <1>2, <1>3, <2>1 DEF Handshake
<1>10. TestFails => Leaves("client")
  BY DEF TestFails, Leaves
<1>11. Reported => Leaves("client")
  BY <1>4 DEF Reported
<1> QED
  BY <1>5, <1>6, <1>7, <1>8, <1>9, <1>10, <1>11 DEF Server, Client

\* The client does nothing to the s_server.
LEMMA ClientLeavesServer ==
  ASSUME Client
  PROVE  sserver' = sserver /\ server_pid' = server_pid /\ others' = others
  BY Zenon DEF Client, Common, Signal, Enter, BeginRuns, BeginType, SendReady, AwaitServer, Answered,
     TestSucceeds, TestFails, GiveUp, Reported, TryAgain

\* The s_server's life does not depend on where the client is: it is started
\* where none is left, and killed after the verdict or by the reaping, unless
\* the controller comes first.
LEMMA MoveServer ==
  ASSUME TypeOK, EachOK, stage["server"] \in ServerStage, stage["client"] \in ClientStage,
         ServerApart, Next,
         stage["server"] = "await_status" => line["server"] \notin {"ready", "skip"}
  PROVE  ServerApart'
<1>0. ChannelTypeOK /\ stage \in [Side -> Stage] /\ at \in [Side -> Position]
  BY DEF TypeOK
<1>1. CASE Client \/ UNCHANGED vars
  <2>1. /\ stage'["server"] = stage["server"] /\ step'["server"] = step["server"]
        /\ at'["server"] = at["server"]
        /\ signal_message'["server"] = signal_message["server"]
        /\ sserver' = sserver /\ others' = others
    BY <1>1, StepLeaves, ClientLeavesServer DEF Leaves, vars
  <2> QED
    BY <2>1 DEF ServerApart, ComboAt
<1>2. CASE Common("server")
  <2>1. CASE Signal("server")
    <3>1. stage["server"] = "await_status" => kind["server"] = "control_wait"
      BY DEF EachOK, SideOK, CallOK
    <3> QED
      BY <1>0, <2>1, <3>1 DEF ChannelTypeOK, Signal, Signalling, Probe, Sleep, Send, Listen, Receive,
         ServerApart, ComboAt, EachOK, SideOK, CallOK, Awaited, ControlAnswer, AfterSend
  <2>2. CASE Enter("server") \/ BeginRuns("server")
    BY <1>0, <2>2 DEF Enter, BeginRuns, Handshake, GoCall, ServerApart
  <2>3. CASE BeginType("server")
    <3>1. stage'["server"] \in {"type", "reap", "done"} /\ sserver' = sserver /\ others' = others
      BY <1>0, <2>3, MovesOn DEF BeginType, EachOK, SideOK
    <3> QED
      BY <3>1 DEF ServerApart
  <2> QED
    BY <1>2, <2>1, <2>2, <2>3 DEF Common
<1>3. CASE Reap
  BY <1>0, <1>3, PgrepFindsNone, PgrepFindsOne DEF Reap, Handshake, GoCall, ServerApart
<1>4. CASE AwaitReady \/ ServerIsUp \/ AwaitStatus
  BY <1>0, <1>4 DEF ChannelTypeOK, AwaitReady, ServerIsUp, AwaitStatus, GoCall, Call, FirstStep, ServerApart,
     ComboAt
<1>5. CASE StartServer
  BY <1>0, <1>5 DEF StartServer, Goto, ServerApart, ComboAt
<1>6. CASE Judge
  <2>1. stage'["server"] \in {"type", "reap", "done"} /\ others' = others
    BY <1>0, <1>6, MovesOn DEF Judge, Goto, EachOK, SideOK
  <2> QED
    BY <2>1 DEF ServerApart
<1> QED
  BY <1>1, <1>2, <1>3, <1>4, <1>5, <1>6 DEF Next, Server

\* Where a call of control_signal goes from one step to the next.
CallGoes(p) ==
  /\ stage'[p] = stage[p] /\ at'[p] = at[p]
  /\ \/ /\ step[p] = "wait" /\ step'[p] = "wait"
        /\ \/ line'[p] = line[p]
           \/ line'[p] = NoText /\ line[p] \notin Awaited(p)
     \/ /\ step[p] = "wait" /\ step'[p] = AfterReceive(p)
        /\ signal_message'[p] = line[p]
        /\ line'[p] = NoText /\ line[p] \in Awaited(p)
     \/ /\ step[p] \in {"probe", "sleep"} /\ step'[p] \in {"sleep", "send"}
        /\ line'[p] = line[p]
     \/ /\ step[p] = "send" /\ step'[p] = AfterSend(p)
        /\ line'[p] = line[p]

LEMMA SignalGoes ==
  ASSUME TypeOK, NEW p \in Side, Signal(p)
  PROVE  CallGoes(p)
<1> USE DEF TypeOK, ChannelTypeOK, Signal, CallGoes
<1>1. CASE Probe(p) \/ Send(p)
  BY <1>1 DEF Probe, Send, Connect
<1>2. CASE Sleep(p) \/ Listen(p) \/ Receive(p)
  BY <1>2 DEF Sleep, Listen, Receive
<1> QED
  BY <1>1, <1>2 DEF Signalling

\* Where the server's loops go from one statement to the next.
ServerGoes ==
  LET Calls(s) == stage'["server"] = s /\ step'["server"] = "wait"
      Does(s)  == stage'["server"] = s /\ step'["server"] = "idle"
  IN  /\ line'["server"] = NoText
      /\ \/ Here("server", "entry") /\ Calls("entry")
         \/ Returned("server", "entry") /\ Calls("type")
         \/ Returned("server", "type") /\ Does("reap")
         \/ Here("server", "reap") /\ Calls("sync")
         \/ Returned("server", "sync") /\ Calls("await_ready")
         \/ Returned("server", "await_ready") /\ Does("poll")
         \/ Here("server", "poll") /\ stage'["server"] = "send_ready" /\ step'["server"] = "probe"
         \/ Returned("server", "send_ready") /\ Calls("await_status")
         \/ Returned("server", "await_status") /\ (Calls("type") \/ Does("reap") \/ Does("done"))

LEMMA ServerStep ==
  ASSUME TypeOK, EachOK, StartsOK, Server
  PROVE  CallGoes("server") \/ ServerGoes
<1>0. ChannelTypeOK /\ stage \in [Side -> Stage] /\ AtOK("server")
  BY DEF TypeOK, EachOK, SideOK
<1>1. ASSUME NEW s, NEW k, NEW m, GoCall("server", s, k, m)
      PROVE  /\ stage'["server"] = s /\ step'["server"] = FirstStep("server", k)
             /\ line'["server"] = NoText
  BY <1>0, <1>1, CallEffect DEF GoCall
<1>2. ASSUME NEW s, Goto("server", s)
      PROVE  /\ stage'["server"] = s /\ step'["server"] = "idle"
             /\ line'["server"] = line["server"]
  BY <1>0, <1>2 DEF Goto, ChannelTypeOK
<1>3. step["server"] # "wait" /\ ~Here("server", "entry") => line["server"] = NoText
  BY DEF EachOK, SideOK, LeftoverOK
<1>4. CASE Signal("server")
  BY <1>4, SignalGoes
<1>5. CASE Enter("server") \/ BeginRuns("server")
  BY <1>1, <1>5 DEF Enter, BeginRuns, Handshake, FirstStep, ServerGoes
<1>6. CASE BeginType("server")
  <2>1. NextStage("server", at["server"]) = "sync" /\ Returned("server", "type")
    BY <1>6, ListGoesOn DEF BeginType
  <2>2. Goto("server", "reap")
    BY <1>6, <2>1 DEF BeginType, NextCombo, BeginCombo
  <2> QED
    BY <1>2, <1>3, <2>1, <2>2 DEF ServerGoes
<1>7. CASE Reap \/ AwaitReady \/ AwaitStatus
  BY <1>1, <1>7 DEF Reap, AwaitReady, AwaitStatus, Handshake, FirstStep, ServerGoes
<1>8. CASE StartServer
  BY <1>2, <1>3, <1>8 DEF StartServer, ServerGoes
<1>9. CASE ServerIsUp
  BY <1>1, <1>9 DEF ServerIsUp, FirstStep, ServerGoes
<1>10. CASE Judge
  <2>1. Returned("server", "await_status")
    BY <1>10 DEF Judge
  <2>2. \/ Goto("server", "reap") \/ Goto("server", "done") \/ Handshake("server", "type")
    BY <1>0, <1>10, MovesOn DEF Judge, NextCombo, BeginCombo
  <2> QED
    BY <1>1, <1>2, <1>3, <2>1, <2>2 DEF Handshake, FirstStep, ServerGoes
<1> QED
  BY <1>4, <1>5, <1>6, <1>7, <1>8, <1>9, <1>10 DEF Server, Common

\* And the client's.
ClientGoes ==
  LET Calls(s) == stage'["client"] = s /\ step'["client"] = "probe"
  IN  /\ line'["client"] = NoText /\ signal_message'["client"] = signal_message["client"]
      /\ stage'["client"] \in {"test", "await_ready"} => at'["client"] = at["client"]
      /\ \/ Here("client", "entry") /\ Calls("entry")
         \/ Returned("client", "entry") /\ Calls("type")
         \/ Returned("client", "type") /\ Calls("sync")
         \/ Returned("client", "sync") /\ Calls("send_ready")
         \/ /\ Returned("client", "send_ready")
            /\ stage'["client"] = "await_ready" /\ step'["client"] = "wait"
         \/ /\ Returned("client", "await_ready")
            /\ \/ stage'["client"] = "test" /\ step'["client"] = "idle"
               \/ Calls("complete")
               \/ Calls("sync")
         \/ /\ Here("client", "test")
            /\ \/ stage'["client"] = "test" /\ step'["client"] = "idle"
               \/ Calls("complete")
               \/ Calls("failed")
         \/ /\ Returned("client", "complete")
            /\ \/ Calls("sync")
               \/ Calls("type")
               \/ stage'["client"] = "done" /\ step'["client"] = "idle"
         \/ Returned("client", "failed") /\ Calls("sync")

LEMMA ClientStep ==
  ASSUME TypeOK, EachOK, StartsOK, Client
  PROVE  CallGoes("client") \/ ClientGoes
<1>0. ChannelTypeOK /\ stage \in [Side -> Stage] /\ AtOK("client")
  BY DEF TypeOK, EachOK, SideOK
<1>1. ASSUME NEW s, NEW k, NEW m, GoCall("client", s, k, m)
      PROVE  /\ stage'["client"] = s /\ step'["client"] = FirstStep("client", k)
             /\ line'["client"] = NoText /\ signal_message' = signal_message
  BY <1>0, <1>1, CallEffect DEF GoCall
<1>2. ASSUME NEW s, Goto("client", s)
      PROVE  /\ stage'["client"] = s /\ step'["client"] = "idle"
             /\ line'["client"] = line["client"] /\ signal_message' = signal_message
  BY <1>0, <1>2 DEF Goto, ChannelTypeOK
<1>3. step["client"] # "wait" /\ ~Here("client", "entry") => line["client"] = NoText
  BY DEF EachOK, SideOK, LeftoverOK
<1>4. CASE Signal("client")
  BY <1>4, SignalGoes
<1>5. CASE Enter("client") \/ BeginRuns("client")
  BY <1>1, <1>5 DEF Enter, BeginRuns, Handshake, FirstStep, ClientGoes
<1>6. CASE BeginType("client")
  <2>1. NextStage("client", at["client"]) = "sync" /\ Returned("client", "type")
    BY <1>6, ListGoesOn DEF BeginType
  <2>2. Handshake("client", "sync")
    BY <1>6, <2>1 DEF BeginType, NextCombo, BeginCombo
  <2> QED
    BY <1>1, <2>1, <2>2 DEF Handshake, FirstStep, ClientGoes
<1>7. CASE SendReady \/ AwaitServer \/ TryAgain
  BY <1>1, <1>7 DEF SendReady, AwaitServer, TryAgain, Handshake, FirstStep, ClientGoes
<1>8. CASE Answered
  <2>1. /\ Returned("client", "await_ready") /\ at' = at
        /\ \/ Goto("client", "test")
           \/ GoCall("client", "complete", "control_send", "complete")
           \/ Handshake("client", "sync")
    BY <1>8, Zenon DEF Answered
  <2> QED
    BY <1>1, <1>2, <1>3, <2>1 DEF Handshake, FirstStep, ClientGoes
<1>9. CASE TestSucceeds \/ GiveUp
  BY <1>1, <1>9 DEF TestSucceeds, GiveUp, FirstStep, ClientGoes
<1>10. CASE TestFails
  BY <1>3, <1>10 DEF TestFails, ClientGoes
<1>11. CASE Reported
  <2>1. Returned("client", "complete")
    BY <1>11 DEF Reported
  <2>2. \/ Goto("client", "done") \/ Handshake("client", "sync") \/ Handshake("client", "type")
    BY <1>0, <1>11, MovesOn DEF Reported, NextCombo, BeginCombo
  <2> QED
    BY <1>1, <1>2, <1>3, <2>1, <2>2 DEF Handshake, FirstStep, ClientGoes
<1> QED
  BY <1>4, <1>5, <1>6, <1>7, <1>8, <1>9, <1>10, <1>11 DEF Client, Common

\* No step changes what holds of each side by itself.
LEMMA MoveApart ==
  ASSUME TypeOK, StartsOK, Stranded, Next
  PROVE  ApartOK'
<1>0. /\ ChannelTypeOK /\ stage \in [Side -> Stage]
      /\ EachOK /\ ServerApart /\ ResultsAsNamed
      /\ stage["server"] \in ServerStage /\ stage["client"] \in ClientStage
      /\ stage["server"] = "await_status" => line["server"] \notin {"ready", "skip"}
  BY DEF TypeOK, Stranded, ApartOK, EachOK, SideOK
<1>1. /\ EachOK' /\ ServerApart'
      /\ stage'["server"] \in ServerStage /\ stage'["client"] \in ClientStage
  BY <1>0, MoveEach, MoveStage, MoveServer
<1>2. ResultsAsNamed'
  <2>1. CASE TestSucceeds
    BY <2>1, StrandedSafe, <1>0 DEF TestSucceeds, Truncated, NeverWrongServer, ResultsAsNamed, ComboAt
  <2>2. CASE TestFails \/ GiveUp
    BY <2>2, <1>0 DEF TestFails, GiveUp, Truncated, ResultsAsNamed, ComboAt
  <2>3. CASE results' = results
    BY <2>3, <1>0 DEF ResultsAsNamed, ComboAt
  <2>4. TestSucceeds \/ TestFails \/ GiveUp \/ results' = results
    BY Zenon DEF Next, Server, Client, Common, Signal, Enter, BeginRuns, BeginType, Reap, AwaitReady,
       StartServer, ServerIsUp, AwaitStatus, Judge, SendReady, AwaitServer, Answered, Reported,
       TryAgain, vars
  <2> QED
    BY <2>1, <2>2, <2>3, <2>4
<1>3. stage'["server"] = "await_status" => line'["server"] \notin {"ready", "skip"}
  <2>1. CASE stage["server"] = "await_status" /\ stage'["server"] = "await_status"
    <3>1. step'["server"] # "wait" => line'["server"] = NoText
      BY <1>1, <2>1 DEF EachOK, SideOK, LeftoverOK, CallOK
    <3>2. step["client"] = "send" => message["client"] \in {"handshake_ready", "complete", "failed"}
      BY <1>0, <2>1, StrandedSafe DEF EachOK, SideOK, CallOK
    <3>3. CASE Client \/ UNCHANGED vars
      BY <1>0, <2>1, <3>2, <3>3, StepLeaves DEF Leaves, vars
    <3>4. CASE Server
      BY <1>0, <2>1, <3>4, ServerStep DEF CallGoes, ServerGoes, Stranded
    <3> QED
      BY <3>3, <3>4 DEF Next
  <2>2. CASE stage["server"] # "await_status" /\ stage'["server"] = "await_status"
    <3>1. Server
      BY <2>2, <1>0, StepLeaves DEF Next, Leaves, vars
    <3> QED
      BY <1>0, <2>2, <3>1, ServerStep DEF CallGoes, ServerGoes
  <2> QED
    BY <2>1, <2>2
<1> QED
  BY <1>1, <1>2, <1>3 DEF ApartOK, EachOK, SideOK

-----------------------------------------------------------------------------
(* Stranded scripts stay stranded, or find together.                       *)

\* What a wait is for, by the place.
LEMMA WaitsFor ==
  ASSUME EachOK, NEW p \in Side
  PROVE  /\ stage[p] \in HandshakeStage /\ step[p] # "idle" =>
              /\ kind[p] = "iteration_handshake" /\ message[p] = "handshake_ready"
              /\ Awaited(p) = {"handshake_ready"}
         /\ stage[p] \in WaitStage => Awaited(p) = ControlAnswer
         /\ stage[p] \in SendStage => kind[p] = "control_send" /\ message[p] # "handshake_ready"
         /\ step[p] # "wait" /\ ~Here(p, "entry") => line[p] = NoText
  BY DEF EachOK, SideOK, CallOK, LeftoverOK, Awaited

LEMMA ServerKeepsStranded ==
  ASSUME TypeOK, StartsOK, Stranded, Server
  PROVE  Stranded'
<1>0. /\ stage["server"] \in ServerStage /\ stage["client"] \in ClientStage
      /\ EachOK
  BY DEF Stranded, ApartOK, EachOK, SideOK
<1>1. ApartOK'
  BY MoveApart DEF Next
<1>2. Leaves("server") /\ (CallGoes("server") \/ ServerGoes)
  BY <1>0, StepLeaves, ServerStep
<1>3. /\ stage["server"] \in HandshakeStage /\ step["server"] # "idle" =>
           /\ kind["server"] = "iteration_handshake" /\ message["server"] = "handshake_ready"
           /\ Awaited("server") = {"handshake_ready"}
      /\ stage["server"] \in WaitStage => Awaited("server") = ControlAnswer
      /\ stage["server"] \in SendStage =>
           kind["server"] = "control_send" /\ message["server"] # "handshake_ready"
      /\ step["server"] # "wait" /\ ~Here("server", "entry") => line["server"] = NoText
  BY <1>0, WaitsFor
<1>a. step["server"] \in Step
  BY DEF TypeOK, ChannelTypeOK
<1>b. step["server"] = "send" \/ step["server"] = "probe" \/ step["server"] = "sleep"
        => stage["server"] \in HandshakeStage \cup SendStage
  BY <1>0 DEF EachOK, SideOK, CallOK
<1>c. stage["server"] = "reap" => step["server"] = "idle"
  BY <1>0 DEF EachOK, SideOK, CallOK
<1> USE DEF Leaves, CallGoes, ServerGoes, AfterReceive, AfterSend, ServerEngaged, Unheard,
            ServerBefore, ServerExpects, ClientSilent, ClientUnanswered, ClientAnswered,
            ClientToType, ClientToSync, ClientExpects
<1>4. CASE StrandedClient
  BY <1>1, <1>2, <1>4 DEF Stranded, StrandedClient
<1>5. CASE StrandedInHandshake
  <2>1. StrandedInHandshake'
    BY <1>0, <1>2, <1>3, <1>a, <1>b, <1>5 DEF StrandedInHandshake
  <2> QED
    BY <1>1, <2>1 DEF Stranded
<1>6. ASSUME NEW h \in HandshakeStage, ServerBefore(h)
      PROVE  ServerBefore(h)' /\ step["server"] # "send"
  BY <1>0, <1>2, <1>3, <1>a, <1>b, <1>c, <1>6
<1>7. ASSUME ServerExpects
      PROVE  ServerExpects' /\ step["server"] # "send"
  BY <1>0, <1>2, <1>3, <1>a, <1>b, <1>c, <1>7 DEF ControlAnswer
<1>8. ASSUME step["server"] # "send"
      PROVE  /\ \A h : ClientSilent(h)' <=> ClientSilent(h)
             /\ ClientToType' <=> ClientToType
             /\ ClientToSync' <=> ClientToSync
             /\ ClientExpects' <=> ClientExpects
  BY <1>2, <1>8
<1>9. CASE StrandedServer
  <2>1. sserver' = sserver
    BY <1>9 DEF StrandedServer, Server, Common, Signal, Enter, BeginRuns, BeginType, Reap, AwaitReady,
       StartServer, ServerIsUp, AwaitStatus, Judge
  <2>2. ServerBefore("entry")' /\ ~ClientSilent("entry")' /\ step["server"] # "send"
    BY <1>6, <1>8, <1>9 DEF StrandedServer
  <2>3. ClientMeasures'
    BY <1>2, <1>9, <2>1, <2>2 DEF StrandedServer, ClientMeasures, RightOrNone, ComboAt
  <2> QED
    BY <1>1, <2>2, <2>3 DEF Stranded, StrandedServer
<1>10. CASE StrandedAhead
  <2>1. StrandedAhead'
    <3> HIDE DEF ServerBefore, ServerExpects, ClientToType, ClientToSync, ClientExpects
    <3> QED
      BY <1>6, <1>7, <1>8, <1>10 DEF StrandedAhead
  <2> QED
    BY <1>1, <2>1 DEF Stranded
<1>11. CASE StrandedCrossed
  <2>1. CASE step["server"] = "wait"
    <3>1. StrandedCrossed'
      BY <1>0, <1>2, <1>3, <1>11, <2>1 DEF StrandedCrossed
    <3> QED
      BY <1>1, <3>1 DEF Stranded
  <2>2. CASE step["server"] \in {"probe", "sleep"}
    <3>1. StrandedCrossed'
      BY <1>0, <1>2, <1>3, <1>11, <2>2 DEF StrandedCrossed
    <3> QED
      BY <1>1, <3>1 DEF Stranded
  <2>3. CASE step["server"] = "send"
    <3>1. /\ stage'["server"] = stage["server"] /\ step'["server"] = "returned"
          /\ stage'["client"] = stage["client"] /\ step'["client"] = "wait"
      BY <1>2, <1>3, <1>11, <2>3 DEF StrandedCrossed
    <3>2. CASE line'["client"] # "handshake_ready"
      <4>1. StrandedInHandshake'
        BY <1>11, <3>1, <3>2 DEF StrandedCrossed, StrandedInHandshake
      <4> QED
        BY <1>1, <4>1 DEF Stranded
    <3>3. CASE line'["client"] = "handshake_ready"
      <4>1. StrandedAhead'
        BY <1>11, <3>1, <3>3 DEF StrandedCrossed, StrandedAhead
      <4> QED
        BY <1>1, <4>1 DEF Stranded
    <3> QED
      BY <3>2, <3>3
  <2> QED
    BY <1>11, <2>1, <2>2, <2>3 DEF StrandedCrossed
<1> QED
  BY <1>4, <1>5, <1>9, <1>10, <1>11 DEF Stranded

\* The entry handshake, with both sides at the start, is lockstep again.
LEMMA TogetherAtEntry ==
  ASSUME TypeOK', StartsOK', ApartOK', ClientUnanswered', ServerEngaged',
         stage'["client"] = "entry", stage'["server"] = "entry", line'["client"] = NoText
  PROVE  Inductive'
<1> USE DEF ApartOK, ServerEngaged, ClientUnanswered
<1>1. at'["server"] = at'["client"]
  BY DEF StartsOK
<1>2. SidesOK'
  BY DEF SidesOK, PortOK, LeftoverOK
<1>a. ServerOK'
  BY DEF ServerApart, ServerOK
<1>3. TogetherInHandshake'
  BY <1>1 DEF TogetherInHandshake, ServerAwaits, ServerAnswers
<1>4. /\ TogetherBeforeHandshake' /\ TogetherAfterHandshake' /\ TogetherGettingReady'
      /\ TogetherMeasuring' /\ TogetherAtTheEnd' /\ RightServer'
  BY DEF TogetherBeforeHandshake, TogetherAfterHandshake, TogetherGettingReady,
     TogetherMeasuring, TogetherAtTheEnd, RightServer
<1> QED
  BY <1>2, <1>a, <1>3, <1>4 DEF Inductive, Lockstep

LEMMA ClientKeepsStranded ==
  ASSUME TypeOK, StartsOK, Stranded, Client
  PROVE  Stranded' \/ Inductive'
<1>0. /\ stage["server"] \in ServerStage /\ stage["client"] \in ClientStage
      /\ EachOK
  BY DEF Stranded, ApartOK, EachOK, SideOK
<1>1. ApartOK'
  BY MoveApart DEF Next
<1>2. Leaves("client") /\ (CallGoes("client") \/ ClientGoes) /\ sserver' = sserver
  BY <1>0, StepLeaves, ClientStep, ClientLeavesServer
<1>3. /\ stage["client"] \in HandshakeStage /\ step["client"] # "idle" =>
           /\ kind["client"] = "iteration_handshake" /\ message["client"] = "handshake_ready"
           /\ Awaited("client") = {"handshake_ready"}
      /\ stage["client"] \in WaitStage => Awaited("client") = ControlAnswer
      /\ stage["client"] \in SendStage =>
           kind["client"] = "control_send" /\ message["client"] # "handshake_ready"
      /\ step["client"] # "wait" /\ ~Here("client", "entry") => line["client"] = NoText
  BY <1>0, WaitsFor
<1>a. step["client"] \in Step
  BY DEF TypeOK, ChannelTypeOK
<1>b. /\ step["client"] = "send" \/ step["client"] = "probe" \/ step["client"] = "sleep"
           => stage["client"] \in HandshakeStage \cup SendStage
      /\ stage["client"] = "await_ready" => step["client"] = "wait" \/ step["client"] = "returned"
      /\ stage["client"] = "type" \/ stage["client"] = "sync" => step["client"] # "idle"
      /\ stage["client"] = "send_ready" => Sending("client") \/ Returned("client", "send_ready")
  BY <1>0 DEF EachOK, SideOK, CallOK
<1> USE DEF Leaves, CallGoes, ClientGoes, AfterReceive, AfterSend, ServerEngaged, Unheard,
            ServerBefore, ServerExpects, ClientSilent, ClientUnanswered, ClientAnswered,
            ClientToType, ClientToSync, ClientExpects
<1>4. CASE StrandedInHandshake
  <2>1. StrandedInHandshake'
    BY <1>0, <1>2, <1>3, <1>4 DEF StrandedInHandshake
  <2> QED
    BY <1>1, <2>1 DEF Stranded
<1>5. CASE StrandedCrossed
  <2>1. StrandedCrossed'
    BY <1>0, <1>2, <1>3, <1>5 DEF StrandedCrossed
  <2> QED
    BY <1>1, <2>1 DEF Stranded
<1>6. ASSUME step["client"] = "send", InHandshake
      PROVE  /\ ClientUnanswered' /\ line'["client"] = NoText
             /\ stage'["client"] = stage["client"] /\ stage'["server"] = stage["server"]
             /\ step'["server"] = step["server"]
  BY <1>2, <1>3, <1>6
<1>7. ASSUME step["client"] = "send", InHandshake,
             ServerEngaged' => stage["server"] # stage["client"]
      PROVE  Stranded'
  <2>1. StrandedInHandshake' \/ StrandedCrossed'
    BY <1>6, <1>7 DEF StrandedInHandshake, StrandedCrossed
  <2> QED
    BY <1>1, <2>1 DEF Stranded
<1>8. CASE StrandedClient
  <2>1. CASE step["client"] # "send"
    <3>1. ClientSilent("entry")'
      BY <1>2, <1>8, <2>1 DEF StrandedClient
    <3> QED
      BY <1>1, <3>1 DEF Stranded, StrandedClient
  <2>2. CASE step["client"] = "send"
    <3>1. InHandshake /\ stage["client"] = "entry"
      BY <1>8 DEF StrandedClient
    <3>2. CASE ServerEngaged' /\ stage["server"] = "entry"
      <4>1. TypeOK' /\ StartsOK'
        BY <1>0, MoveTypes, MoveStarts DEF Next, EachOK, SideOK
      <4> QED
        BY <1>1, <1>6, <2>2, <3>1, <3>2, <4>1, TogetherAtEntry
    <3>3. CASE ~(ServerEngaged' /\ stage["server"] = "entry")
      BY <1>7, <2>2, <3>1, <3>3
    <3> QED
      BY <3>2, <3>3
  <2> QED
    BY <2>1, <2>2
<1>9. ASSUME step["client"] = "send", ~InHandshake
      PROVE  line'["server"] = line["server"] \/ line'["server"] # "handshake_ready"
  BY <1>2, <1>3, <1>9, <1>b
<1>10. ASSUME NEW h \in HandshakeStage, ServerBefore(h), ~(step["client"] = "send" /\ InHandshake)
       PROVE  ServerBefore(h)'
  BY <1>2, <1>9, <1>10
<1>11. ASSUME ServerExpects, step["client"] # "send"
       PROVE  ServerExpects'
  BY <1>2, <1>11
<1>12. CASE StrandedServer
  <2>1. CASE step["client"] = "send" /\ InHandshake
    <3>1. stage["server"] = "entry" /\ stage["client"] # "entry"
      BY <1>12, <2>1 DEF StrandedServer
    <3> QED
      BY <1>7, <2>1, <3>1
  <2>2. CASE ~(step["client"] = "send" /\ InHandshake)
    <3>1. ServerBefore("entry")'
      BY <1>10, <1>12, <2>2 DEF StrandedServer
    <3>2. ~ClientSilent("entry")'
      BY <1>2, <1>12, <2>2 DEF StrandedServer
    <3>3. ClientMeasures
      BY <1>12 DEF StrandedServer
    <3>4. stage'["client"] \in {"await_ready", "test"} => at'["client"] = at["client"]
      BY <1>2
    <3>5. ComboAt("client", at["client"])' = ComboAt("client", at["client"])
            \/ stage'["client"] \notin {"await_ready", "test"}
      BY <3>4 DEF ComboAt
    <3>6. stage'["client"] = "test" => RightOrNone'
      <4>1. stage'["client"] = "test" => stage["client"] = "test" \/ Returned("client", "await_ready")
        BY <1>2
      <4>2. stage'["client"] = "test" => RightOrNone
        BY <3>3, <4>1 DEF ClientMeasures
      <4> QED
        BY <1>2, <3>5, <4>2 DEF RightOrNone
    <3>7. stage'["client"] = "await_ready" /\ line'["client"] \in ControlAnswer =>
            line'["client"] = "ready" /\ RightOrNone'
      BY <1>0, <1>2, <3>3, <3>5 DEF ClientMeasures, RightOrNone, ControlAnswer
    <3>8. Returned("client", "await_ready")' =>
            signal_message'["client"] = "ready" /\ RightOrNone'
      BY <1>0, <1>2, <1>3, <1>b, <3>3, <3>5 DEF ClientMeasures, RightOrNone
    <3>9. ClientMeasures'
      BY <3>6, <3>7, <3>8 DEF ClientMeasures
    <3> QED
      BY <1>1, <3>1, <3>2, <3>9 DEF Stranded, StrandedServer
  <2> QED
    BY <2>1, <2>2
<1>13. CASE StrandedAhead
  <2>1. CASE step["client"] = "send" /\ InHandshake
    <3>1. ServerEngaged' => stage["server"] # stage["client"]
      BY <1>6, <1>13, <2>1 DEF StrandedAhead
    <3> QED
      BY <1>7, <2>1, <3>1
  <2>2. CASE ~(step["client"] = "send" /\ InHandshake)
    <3>1. ClientToType => ClientToType' /\ step["client"] # "send"
      BY <1>2, <1>3, <1>a, <1>b, <2>2
    <3>2. ClientToSync => ClientToSync' /\ step["client"] # "send"
      BY <1>2, <1>3, <1>a, <1>b, <2>2
    <3>3. ClientExpects => ClientExpects'
      BY <1>2, <1>3, <1>a, <1>b, <2>2 DEF ControlAnswer
    <3>4. StrandedAhead'
      <4> HIDE DEF ServerBefore, ServerExpects, ClientToType, ClientToSync, ClientExpects
      <4> QED
        BY <1>10, <1>11, <1>13, <2>2, <3>1, <3>2, <3>3 DEF StrandedAhead
    <3> QED
      BY <1>1, <3>4 DEF Stranded
  <2> QED
    BY <2>1, <2>2
<1> QED
  BY <1>4, <1>5, <1>8, <1>12, <1>13 DEF Stranded

-----------------------------------------------------------------------------
(* Restarts.                                                               *)

\* A side at its entry, by its user's doing.
LEMMA BackAtEntry ==
  ASSUME ChannelTypeOK, stage \in [Side -> Stage], at \in [Side -> Position],
         stage["server"] \in ServerStage, stage["client"] \in ClientStage,
         \A q \in Side : CallOK(q) /\ AtOK(q) /\ LeftoverOK(q), StartsOK,
         NEW p \in Side,
         stage' = [stage EXCEPT ![p] = "entry"],
         step' = [step EXCEPT ![p] = "idle"],
         at' = [at EXCEPT ![p] = [run |-> 1, type |-> 0, k |-> 0]],
         kind' = kind, message' = message, signal_message' = signal_message,
         \/ port' = port /\ line' = line
         \/ port' = [port EXCEPT ![p] = "closed"] /\ line' = [line EXCEPT ![p] = NoText]
  PROVE  /\ ChannelTypeOK' /\ stage' \in [Side -> Stage] /\ at' \in [Side -> Position]
         /\ stage'["server"] \in ServerStage /\ stage'["client"] \in ClientStage
         /\ \A q \in Side : CallOK(q)' /\ AtOK(q)' /\ LeftoverOK(q)'
         /\ StartsOK'
<1>1. [run |-> 1, type |-> 0, k |-> 0] \in Position
  BY DEF Position, TestType
<1>2. ChannelTypeOK'
  BY Words DEF ChannelTypeOK, Step
<1>3. stage' \in [Side -> Stage] /\ at' \in [Side -> Position]
  BY <1>1, Words
<1>4. ASSUME NEW q \in Side
      PROVE  CallOK(q)' /\ LeftoverOK(q)'
  BY <1>4 DEF ChannelTypeOK, CallOK, LeftoverOK
<1>5. ASSUME NEW q \in Side
      PROVE  AtOK(q)'
  <2>1. CASE q = p
    <3>1. at'[q].run = 1 /\ at'[q].type = 0 /\ at'[q].k = 0 /\ stage'[q] = "entry"
      BY <2>1
    <3>2. Len(Combos[q][0]) \in Nat
      BY ControlAssumption DEF TestType
    <3> QED
      BY <3>1, <3>2 DEF AtOK, ComboStage
  <2>2. CASE q # p
    BY <2>2 DEF AtOK
  <2> QED
    BY <2>1, <2>2
<1>6. StartsOK'
  BY DEF StartsOK
<1>7. stage'["server"] \in ServerStage /\ stage'["client"] \in ClientStage
  OBVIOUS
<1> QED
  BY <1>2, <1>3, <1>4, <1>5, <1>6, <1>7

\* A script that is interrupted, from lockstep or stranded, leaves the two
\* stranded.
LEMMA InterruptStrands ==
  ASSUME TypeOK, AbsentOK, StartsOK, ApartOK, ClientMeasures, NEW p \in Side, Interrupt(p)
  PROVE  TypeOK' /\ AbsentOK' /\ StartsOK' /\ Stranded'
<1>0. /\ ChannelTypeOK /\ stage \in [Side -> Stage] /\ at \in [Side -> Position]
      /\ stage["server"] \in ServerStage /\ stage["client"] \in ClientStage
      /\ \A q \in Side : CallOK(q) /\ AtOK(q) /\ LeftoverOK(q)
  BY DEF TypeOK, ApartOK
<1>1. /\ stage' = [stage EXCEPT ![p] = "entry"]
      /\ step' = [step EXCEPT ![p] = "idle"]
      /\ at' = [at EXCEPT ![p] = [run |-> 1, type |-> 0, k |-> 0]]
      /\ kind' = kind /\ message' = message /\ signal_message' = signal_message
      /\ sserver' = sserver /\ others' = others /\ fail_counter' = fail_counter
      /\ results' = results /\ absent' = absent \cup {p}
  BY DEF Interrupt
<1>2. \/ port' = port /\ line' = line
      \/ /\ port' = [port EXCEPT ![p] = "closed"]
         /\ line' = [line EXCEPT ![p] = NoText]
  BY DEF Interrupt
<1>3. server_pid' \in BOOLEAN
  BY Zenon DEF Interrupt
<1>4. /\ ChannelTypeOK' /\ stage' \in [Side -> Stage] /\ at' \in [Side -> Position]
      /\ stage'["server"] \in ServerStage /\ stage'["client"] \in ClientStage
      /\ \A q \in Side : CallOK(q)' /\ AtOK(q)' /\ LeftoverOK(q)'
      /\ StartsOK'
  BY <1>0, <1>1, <1>2, BackAtEntry
<1>5. TypeOK'
  BY <1>1, <1>3, <1>4 DEF TypeOK
<1>6. AbsentOK'
  BY <1>0, <1>1 DEF AbsentOK, ChannelTypeOK
<1>7. ApartOK'
  <2>1. ServerApart'
    BY <1>0, <1>1 DEF ApartOK, ServerApart, ComboAt
  <2>2. stage'["server"] = "await_status" => line'["server"] \notin {"ready", "skip"}
    BY <1>0, <1>1, <1>2 DEF ApartOK, ChannelTypeOK
  <2>3. ResultsAsNamed'
    BY <1>1 DEF ApartOK, ResultsAsNamed, ComboAt
  <2> QED
    BY <1>4, <2>1, <2>2, <2>3 DEF ApartOK
<1>8. CASE p = "client"
  <2>1. StrandedClient'
    BY <1>0, <1>1, <1>8 DEF ChannelTypeOK, StrandedClient, ClientSilent
  <2> QED
    BY <1>4, <1>5, <1>6, <1>7, <2>1 DEF Stranded
<1>9. CASE p = "server"
  <2>1. ServerBefore("entry")'
    BY <1>0, <1>1, <1>9 DEF ChannelTypeOK, ServerBefore
  <2>2. ClientMeasures'
    BY <1>0, <1>1, <1>2, <1>9 DEF ChannelTypeOK, ClientMeasures, RightOrNone, ComboAt
  <2>3. StrandedClient' \/ StrandedServer'
    BY <2>1, <2>2 DEF StrandedClient, StrandedServer
  <2> QED
    BY <1>4, <1>5, <1>6, <1>7, <2>3 DEF Stranded
<1> QED
  BY <1>8, <1>9

\* A script that is started leaves the two stranded, whether the controller
\* kills an s_server or finds none.
LEMMA StartStrands ==
  ASSUME TypeOK, AbsentOK, StartsOK, ApartOK, ClientMeasures, NEW p \in Side, Start(p)
  PROVE  TypeOK' /\ AbsentOK' /\ StartsOK' /\ Stranded'
<1>0. Here(p, "entry")
  BY DEF AbsentOK, Start
<1>1. /\ port' = port /\ line' = line /\ kind' = kind /\ message' = message
      /\ step' = step /\ signal_message' = signal_message
      /\ stage' = stage /\ at' = at /\ others' = others /\ fail_counter' = fail_counter
      /\ absent' = absent \ {p}
  BY DEF Start
<1>2. sserver' \in {sserver, NoServer}
  BY DEF Start
<1>3. results' \in {results, {}}
  BY DEF Start
<1>4. server_pid' \in BOOLEAN
  BY Zenon DEF Start
<1>5. TypeOK' /\ AbsentOK' /\ StartsOK'
  <2>1. ChannelTypeOK'
    BY <1>1 DEF TypeOK, ChannelTypeOK
  <2>2. sserver' \in Served \cup {NoServer} /\ results' \subseteq [at : Position, served : Served]
    BY <1>2, <1>3 DEF TypeOK
  <2>3. TypeOK'
    BY <1>1, <1>4, <2>1, <2>2 DEF TypeOK
  <2>4. AbsentOK' /\ StartsOK'
    BY <1>1 DEF AbsentOK, StartsOK
  <2> QED
    BY <2>3, <2>4
<1>6. ApartOK'
  <2>1. \A q \in Side : CallOK(q)' /\ AtOK(q)' /\ LeftoverOK(q)'
    BY <1>1 DEF ApartOK, CallOK, AtOK, LeftoverOK
  <2>2. ServerApart'
    BY <1>1, <1>2 DEF ApartOK, ServerApart, ComboAt
  <2>3. ResultsAsNamed'
    BY <1>3 DEF ApartOK, ResultsAsNamed, ComboAt
  <2> QED
    BY <1>1, <2>1, <2>2, <2>3 DEF ApartOK
<1>7. CASE p = "client"
  <2>1. StrandedClient'
    BY <1>0, <1>1, <1>7 DEF StrandedClient, ClientSilent
  <2> QED
    BY <1>5, <1>6, <2>1 DEF Stranded
<1>8. CASE p = "server"
  <2>1. ServerBefore("entry")'
    BY <1>0, <1>1, <1>8 DEF ServerBefore
  <2>2. ClientMeasures'
    BY <1>1, <1>2 DEF ClientMeasures, RightOrNone, ComboAt
  <2>3. StrandedClient' \/ StrandedServer'
    BY <2>1, <2>2 DEF StrandedClient, StrandedServer
  <2> QED
    BY <1>5, <1>6, <2>3 DEF Stranded
<1> QED
  BY <1>7, <1>8

-----------------------------------------------------------------------------
(* The theorems.                                                           *)

LEMMA StartInvariant == RestartInit => RestartInvariant
<1>1. RestartInit => Inductive
  BY InitInductive DEF RestartInit
<1>2. RestartInit => StartsOK /\ AbsentOK
  BY DEF RestartInit, Init, ChannelInit, StartsOK, AbsentOK
<1> QED
  BY <1>1, <1>2 DEF RestartInvariant, Inductive

LEMMA StrandedStutters ==
  ASSUME Stranded, UNCHANGED vars
  PROVE  Stranded'
<1>1. ApartOK'
  BY DEF vars, Stranded, ApartOK, CallOK, AtOK, LeftoverOK, ServerApart, ResultsAsNamed, ComboAt
<1>2. /\ StrandedInHandshake' <=> StrandedInHandshake
      /\ StrandedClient' <=> StrandedClient
      /\ StrandedServer' <=> StrandedServer
      /\ StrandedAhead' <=> StrandedAhead
      /\ StrandedCrossed' <=> StrandedCrossed
  BY DEF vars, StrandedInHandshake, StrandedClient, StrandedServer, StrandedAhead, StrandedCrossed,
     ServerEngaged, Unheard, ServerBefore, ServerExpects, ClientSilent, ClientUnanswered,
     ClientAnswered, ClientToType, ClientToSync, ClientExpects, ClientMeasures, RightOrNone, ComboAt
<1> QED
  BY <1>1, <1>2 DEF Stranded

\* A step of the scripts, or none.
LEMMA ScriptsKeep ==
  ASSUME TypeOK, StartsOK, Inductive \/ Stranded, [Next]_vars
  PROVE  TypeOK' /\ StartsOK' /\ (Inductive' \/ Stranded')
<1>1. \A p \in Side : AtOK(p)
  BY LockstepApart DEF Stranded, ApartOK
<1>2. TypeOK' /\ StartsOK'
  <2>1. Next => TypeOK' /\ StartsOK'
    BY <1>1, MoveTypes, MoveStarts
  <2>2. UNCHANGED vars => TypeOK' /\ StartsOK'
    BY DEF vars, TypeOK, ChannelTypeOK, StartsOK
  <2> QED
    BY <2>1, <2>2
<1>3. Inductive' \/ Stranded'
  <2>1. Inductive => Inductive'
    BY NextInductive
  <2>2. Stranded /\ Server => Stranded'
    BY ServerKeepsStranded
  <2>3. Stranded /\ Client => Stranded' \/ Inductive'
    BY ClientKeepsStranded
  <2>4. Stranded /\ UNCHANGED vars => Stranded'
    BY StrandedStutters
  <2> QED
    BY <2>1, <2>2, <2>3, <2>4 DEF Next
<1> QED
  BY <1>2, <1>3

\* A script that runs leaves one that does not at its entry.
LEMMA RunsLeaves ==
  ASSUME TypeOK, AbsentOK, ApartOK, NEW p \in Side, Runs(p)
  PROVE  AbsentOK'
<1>1. EachOK /\ absent' = absent /\ p \notin absent
  BY DEF ApartOK, EachOK, SideOK, Runs
<1>2. Leaves(p)
  BY <1>1, StepLeaves DEF Runs, Script
<1>3. ASSUME NEW q \in absent
      PROVE  stage'[q] = "entry" /\ step'[q] = "idle"
  <2>1. q = Peer(p) /\ Here(q, "entry")
    BY <1>1, <1>3 DEF AbsentOK
  <2> QED
    BY <1>2, <2>1 DEF Leaves
<1> QED
  BY <1>1, <1>3 DEF AbsentOK

\* Every step of the scripts that run, every interrupt and every start keeps
\* the invariant.
LEMMA RestartKeeps ==
  ASSUME RestartInvariant, [RestartNext]_restart_vars
  PROVE  RestartInvariant'
<1>0. TypeOK /\ AbsentOK /\ StartsOK /\ (Inductive \/ Stranded)
  BY DEF RestartInvariant
<1>1. ApartOK /\ ClientMeasures
  BY <1>0, LockstepApart, StrandedSafe DEF Stranded
<1>2. ASSUME NEW p \in Side, Runs(p)
      PROVE  RestartInvariant'
  <2>1. Next
    BY <1>2 DEF Runs, Script, Next
  <2>2. TypeOK' /\ StartsOK' /\ (Inductive' \/ Stranded')
    BY <1>0, <2>1, ScriptsKeep
  <2>3. AbsentOK'
    BY <1>0, <1>1, <1>2, RunsLeaves
  <2> QED
    BY <2>2, <2>3 DEF RestartInvariant
<1>3. CASE UNCHANGED restart_vars
  <2>1. UNCHANGED vars /\ absent' = absent
    BY <1>3 DEF restart_vars
  <2>2. TypeOK' /\ StartsOK' /\ (Inductive' \/ Stranded')
    BY <1>0, <2>1, ScriptsKeep
  <2>3. AbsentOK'
    BY <1>0, <2>1 DEF AbsentOK, vars
  <2> QED
    BY <2>2, <2>3 DEF RestartInvariant
<1>4. ASSUME NEW p \in Side, Interrupt(p) \/ Start(p)
      PROVE  RestartInvariant'
  <2>1. TypeOK' /\ AbsentOK' /\ StartsOK' /\ Stranded'
    BY <1>0, <1>1, <1>4, InterruptStrands, StartStrands
  <2> QED
    BY <2>1 DEF RestartInvariant
<1>5. ASSUME NEW p \in Side, Refused(p)
      PROVE  UNCHANGED restart_vars
  BY <1>5 DEF Refused
<1> QED
  BY <1>2, <1>3, <1>4, <1>5 DEF RestartNext

\* However often and at whatever moments the user interrupts the scripts and
\* starts them again, they are in lockstep or stranded in one of the five
\* ways.
THEOREM RestartInvariantHolds == RestartSpec => []RestartInvariant
<1>1. RestartInvariant /\ [RestartNext]_restart_vars => RestartInvariant'
  BY RestartKeeps
<1> QED
  BY <1>1, StartInvariant, PTL DEF RestartSpec

\* With restarts, s_time never measures another s_server than that of the
\* combination its result file is named after: the controller that starts the
\* server side again may have killed it, and then there is none.
THEOREM RestartNeverWrongServer == RestartSpec => []NeverWrongServer
<1>1. RestartInvariant => NeverWrongServer
  BY StrandedSafe DEF RestartInvariant, Inductive, RightServer, NeverWrongServer
<1> QED
  BY <1>1, RestartInvariantHolds, PTL

\* With restarts, too, a result file holds what its name says, also where the
\* s_server was killed under the measurement that should have filled it.
THEOREM RestartResultsAsNamed == RestartSpec => []ResultsAsNamed
<1>1. RestartInvariant => ResultsAsNamed
  BY DEF RestartInvariant, Inductive, Stranded, ApartOK
<1> QED
  BY <1>1, RestartInvariantHolds, PTL

\* The s_server under a measurement is killed by no step of the scripts,
\* restarted or not: what takes it away is the controller, when the server
\* side is started again.
THEOREM RestartOnlyControllerKills == RestartSpec => OnlyControllerKills
<1>1. RestartInvariant /\ [RestartNext]_restart_vars
        => [Here("client", "test") /\ sserver' # sserver =>
              sserver' = NoServer /\ "server" \in absent \ absent']_restart_vars
  <2> SUFFICES ASSUME RestartInvariant, RestartNext, Here("client", "test"), sserver' # sserver
               PROVE  sserver' = NoServer /\ "server" \in absent \ absent'
    BY DEF restart_vars, vars
  <2>1. PICK p \in Side : Runs(p) \/ Interrupt(p) \/ Refused(p) \/ Start(p)
    BY DEF RestartNext
  <2>2. CASE Runs(p)
    <3>1. Reap \/ StartServer \/ Judge
      BY <2>2, Zenon DEF Runs, Script, Server, Client, Common, Signal, Enter, BeginRuns,
         BeginType, AwaitReady, ServerIsUp, AwaitStatus, SendReady, AwaitServer, Answered,
         TestSucceeds, TestFails, GiveUp, Reported, TryAgain
    <3>2. CASE Inductive
      <4>1. ServerOffers(at["client"])
        BY <3>2 DEF Inductive, Lockstep, TogetherMeasuring
      <4> QED
        BY <3>1, <4>1 DEF ServerOffers, Reap, StartServer, Judge
    <3>3. CASE Stranded
      <4>1. ServerBefore("entry")
        BY <3>3 DEF Stranded, StrandedInHandshake, StrandedClient, StrandedServer, StrandedAhead,
           StrandedCrossed, ClientUnanswered, ClientSilent, ClientToType, ClientToSync,
           ClientExpects, ClientAnswered
      <4> QED
        BY <3>1, <4>1 DEF ServerBefore, Unheard, Reap, StartServer, Judge
    <3> QED
      BY <3>2, <3>3 DEF RestartInvariant
  <2>3. CASE Interrupt(p) \/ Refused(p)
    BY <2>3 DEF Interrupt, Refused, restart_vars, vars
  <2>4. CASE Start(p)
    <3>1. Here(p, "entry") /\ p \in absent /\ p \notin absent'
      BY <2>4 DEF RestartInvariant, AbsentOK, Start
    <3>2. p = "server"
      BY <3>1
    <3>3. sserver' = NoServer
      BY <2>4 DEF Start
    <3> QED
      BY <3>1, <3>2, <3>3
  <2> QED
    BY <2>1, <2>2, <2>3, <2>4
<1> QED
  BY <1>1, RestartInvariantHolds, PTL DEF RestartSpec, OnlyControllerKills

\* While the server script runs, an s_server on its port is the one it has
\* started itself: the controller kills what its predecessor left, the reaping
\* leaves none, and the verdict ends the one that was measured.
THEOREM RestartOwnServer == RestartSpec => []OwnServer
<1>1. RestartInit => OwnServer
  BY DEF RestartInit, OwnServer
<1>2. RestartInvariant /\ OwnServer /\ [RestartNext]_restart_vars => OwnServer'
  <2> SUFFICES ASSUME RestartInvariant, OwnServer, [RestartNext]_restart_vars
               PROVE  OwnServer'
    OBVIOUS
  <2>0. ApartOK
    BY LockstepApart DEF RestartInvariant, Stranded
  <2>1. ASSUME NEW p \in Side, Runs(p)
        PROVE  OwnServer'
    <3>1. /\ absent' = absent
          /\ Server \/ Client
          /\ Reap \/ StartServer \/ Judge => "server" \notin absent
      BY <2>0, <2>1 DEF Runs, Script, RestartInvariant, AbsentOK, Reap, StartServer, Judge
    <3>2. CASE Reap
      <4>1. \/ sserver' = NoServer
            \/ sserver' = sserver /\ server_pid' = server_pid
        BY <3>2, Zenon DEF Reap
      <4> QED
        BY <3>1, <4>1, Zenon DEF OwnServer
    <3>3. CASE StartServer
      <4>1. sserver = NoServer
        BY <2>0, <3>3 DEF StartServer, ApartOK, ServerApart
      <4>2. sserver' # NoServer => server_pid'
        BY <3>3, <4>1, Zenon DEF StartServer
      <4> QED
        BY <4>2 DEF OwnServer
    <3>4. CASE Judge
      <4>1. signal_message["server"] = "complete"
        BY <2>0, <3>4 DEF Judge, ApartOK, ServerApart
      <4>2. \/ sserver' = NoServer
            \/ sserver' = sserver /\ ~server_pid
        BY <3>4, <4>1 DEF Judge
      <4>3. "server" \notin absent
        BY <3>1, <3>4
      <4> QED
        BY <3>1, <4>2, <4>3 DEF OwnServer
    <3>5. CASE sserver' = sserver /\ server_pid' = server_pid
      BY <3>1, <3>5 DEF OwnServer
    <3>6. Reap \/ StartServer \/ Judge \/ (sserver' = sserver /\ server_pid' = server_pid)
      BY <3>1, Zenon DEF Server, Client, Common, Signal, Enter, BeginRuns, BeginType, AwaitReady,
         ServerIsUp, AwaitStatus, SendReady, AwaitServer, Answered, TestSucceeds, TestFails,
         GiveUp, Reported, TryAgain
    <3> QED
      BY <3>2, <3>3, <3>4, <3>5, <3>6
  <2>2. ASSUME NEW p \in Side, Interrupt(p)
        PROVE  OwnServer'
    <3>1. CASE p = "server"
      BY <2>2, <3>1 DEF Interrupt, OwnServer
    <3>2. CASE p = "client"
      <4>1. sserver' = sserver /\ absent' = absent \cup {p} /\ (server_pid' <=> server_pid)
        BY <2>2, <3>2 DEF Interrupt
      <4> QED
        BY <4>1 DEF OwnServer
    <3> QED
      BY <3>1, <3>2
  <2>3. ASSUME NEW p \in Side, Start(p)
        PROVE  OwnServer'
    <3>1. absent' = absent \ {p}
      BY <2>3 DEF Start
    <3>2. CASE ServerFound(p)
      BY <2>3, <3>2 DEF Start, OwnServer
    <3>3. CASE ~ServerFound(p) /\ p = "server"
      <4>1. sserver = NoServer
        BY <3>3 DEF ServerFound, Nearby
      <4> QED
        BY <2>3, <3>3, <4>1 DEF Start, OwnServer
    <3>4. CASE ~ServerFound(p) /\ p = "client"
      <4>1. sserver' = sserver /\ (server_pid' <=> server_pid)
        BY <2>3, <3>4 DEF Start
      <4> QED
        BY <3>1, <3>4, <4>1 DEF OwnServer
    <3> QED
      BY <3>2, <3>3, <3>4
  <2>4. CASE UNCHANGED restart_vars
    BY <2>4 DEF restart_vars, vars, OwnServer
  <2> QED
    BY <2>1, <2>2, <2>3, <2>4 DEF RestartNext, Refused
<1> QED
  BY <1>1, <1>2, RestartInvariantHolds, PTL DEF RestartSpec
===============================================================================
