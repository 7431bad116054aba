---------------------- MODULE TlsHandshakeControlProofs ----------------------
(***************************************************************************)
(* Theorems about TlsHandshakeControl, for every list of combinations,     *)
(* every number of runs and every attempt limit.                           *)
(*                                                                         *)
(* Inductive (module TlsLockstep) is shown to hold initially and to be     *)
(* preserved by one lemma per action, in each of which one step proves one *)
(* conjunct.  Steps of the channel occur in a version per side, since the  *)
(* invariant says different things of the two.  NextInductive puts the     *)
(* lemmas together, and the theorems on RightServer, ResultsAsNamed and    *)
(* ServerStays follow from it.                                             *)
(*                                                                         *)
(* Two things need more.  InStep adds where in the test plan the scripts   *)
(* are; under it every step of theirs is a step of the plan or none        *)
(* (PlanImplemented).  Undisturbed adds what the control sleep is for: no  *)
(* signal is sent to a netcat that still serves another connection         *)
(* (SentIsDelivered).                                                      *)
(***************************************************************************)
EXTENDS TlsLockstep, TLAPS

\* With equal lists and numbers of runs, both sides go on from a combination to
\* the same place.
LEMMA NextFacts ==
  ASSUME NEW a \in Position
  PROVE  /\ NextStage("server", a) = NextStage("client", a)
         /\ NextAt("server", a) = NextAt("client", a)
         /\ NextStage("server", a) \in {"sync", "type", "done"}
  BY MatchedAssumption DEF NextStage, NextAt, Last

\* The place after a combination is again a position in the lists.
LEMMA NextAtOK ==
  ASSUME NEW p \in Side, NEW a \in Position,
         a.run >= 1, a.k <= Len(Combos[p][a.type])
  PROVE  /\ NextAt(p, a) \in Position
         /\ NextAt(p, a).run >= 1
         /\ NextAt(p, a).k <= Len(Combos[p][NextAt(p, a).type])
         /\ NextStage(p, a) = "sync" => NextAt(p, a).k >= 1
<1> USE DEF Last
<1>1. /\ Len(Combos[p][0]) \in Nat /\ Len(Combos[p][1]) \in Nat /\ Len(Combos[p][2]) \in Nat
      /\ Len(Combos[p][a.type]) \in Nat
      /\ NumRun[p] \in Nat
      /\ a.run \in Nat /\ a.k \in Nat /\ a.type \in 0..2
  BY ControlAssumption DEF TestType, Position
<1>2. CASE ~Last(p, a)
  <2>1. NextAt(p, a) = [a EXCEPT !.k = @ + 1]
    BY <1>2 DEF NextAt
  <2>2. NextAt(p, a).run = a.run /\ NextAt(p, a).type = a.type /\ NextAt(p, a).k = a.k + 1
    BY <2>1 DEF Position
  <2>3. NextAt(p, a) \in Position
    BY <2>1, <1>1 DEF Position, TestType
  <2> QED
    BY <1>1, <1>2, <2>2, <2>3
<1>3. CASE Last(p, a) /\ a.type < 2
  <2>a. NextAt(p, a) = [a EXCEPT !.type = @ + 1, !.k = 0]
    BY <1>3 DEF NextAt
  <2>1. NextAt(p, a) = [run |-> a.run, type |-> a.type + 1, k |-> 0]
    BY <2>a DEF Position
  <2>2. NextStage(p, a) = "type"
    BY <1>3 DEF NextStage
  <2>3. a.type + 1 \in 1..2
    BY <1>1, <1>3
  <2>4. NextAt(p, a) \in Position
    BY <2>1, <2>3, <1>1 DEF Position, TestType
  <2>5. Len(Combos[p][a.type + 1]) \in Nat
    BY <1>1, <2>3
  <2> QED
    BY <2>1, <2>2, <2>4, <2>5
<1>4. CASE Last(p, a) /\ a.type = 2 /\ a.run < NumRun[p]
  <2>1. NextAt(p, a) = [run |-> a.run + 1, type |-> 0, k |-> 0] /\ NextStage(p, a) = "type"
    BY <1>4 DEF NextAt, NextStage
  <2> QED
    BY <2>1, <1>1 DEF Position, TestType
<1>5. CASE Last(p, a) /\ a.type = 2 /\ ~(a.run < NumRun[p])
  <2>1. NextAt(p, a) = a /\ NextStage(p, a) = "done"
    BY <1>5 DEF NextAt, NextStage
  <2> QED
    BY <2>1
<1> QED
  BY <1>1, <1>2, <1>3, <1>4, <1>5

\* A position behind the start of a list is at a combination.
LEMMA ComboAtFact ==
  ASSUME NEW p \in Side, NEW a \in Position,
         a.k >= 1, a.k <= Len(Combos[p][a.type])
  PROVE  ComboAt(p, a) \in Combo
  BY ControlAssumption DEF ComboAt, Position, TestType

\* A call of control_signal keeps the types of the channel.
LEMMA CallTypeOK ==
  ASSUME ChannelTypeOK, NEW p \in Side, NEW k \in Kind, NEW m \in Text, Call(p, k, m)
  PROVE  ChannelTypeOK'
  BY DEF ChannelTypeOK, Call, FirstStep, NoText, Text, Step

\* What a side does when it leaves a combination, in one equation per variable.
LEMMA NextComboEffect ==
  ASSUME NEW p \in Side, NextCombo(p), NextStage(p, at[p]) \in {"sync", "type", "done"}
  PROVE  LET next == NextStage(p, at[p])
             stays == next = "done" \/ (next = "sync" /\ p = "server")
         IN  /\ at' = [at EXCEPT ![p] = NextAt(p, at[p])]
             /\ stage' = [stage EXCEPT ![p] =
                            IF next = "sync" /\ p = "server" THEN "reap" ELSE next]
             /\ stays => /\ step' = [step EXCEPT ![p] = "idle"]
                         /\ UNCHANGED <<port, line, kind, message, signal_message>>
             /\ ~stays => Call(p, "iteration_handshake", "handshake_ready")
<1>1. CASE NextStage(p, at[p]) = "sync"
  BY <1>1 DEF NextCombo, BeginCombo, Handshake, GoCall, Goto, channel
<1>2. CASE NextStage(p, at[p]) = "type"
  BY <1>2 DEF NextCombo, Handshake, GoCall
<1>3. CASE NextStage(p, at[p]) = "done"
  BY <1>3 DEF NextCombo, Goto, channel
<1> QED
  BY <1>1, <1>2, <1>3

\* What the server can have received when it has waited for the verdict.
LEMMA Verdicts ==
  ASSUME Inductive, stage["server"] = "await_status", step["server"] = "wait"
  PROVE  line["server"] \in {NoText, "complete", "failed", "handshake_ready"}
<1> USE DEF Inductive, Lockstep, NoText, HandshakeStage, SendStage, WaitStage,
            IdleStage, SharedStage, ClientStage, Sending, Returned, InHandshake
<1>1. CASE stage["client"] \in HandshakeStage
  BY <1>1 DEF SidesOK, CallOK, TypeOK, ChannelTypeOK, Side, Step,
     TogetherBeforeHandshake, TogetherInHandshake, TogetherAfterHandshake,
     ServerAwaits, ServerBehind, ServerAnswers, ServerPassed, ServerFollows, Here
<1>2. CASE stage["client"] \notin HandshakeStage
  BY <1>2 DEF SidesOK, CallOK, TypeOK, ChannelTypeOK, Side, Step, TogetherGettingReady,
     TogetherMeasuring, TogetherAtTheEnd, ServerPassed, ServerFollows, ServerAwaits,
     ServerOffers, Here
<1> QED
  BY <1>1, <1>2

\* The client has left a combination, or the beginning of a test type, and
\* begins the next handshake or ends.
LEMMA ClientMovesOn ==
  ASSUME NextCombo("client"),
         NextStage("server", at["client"]) = NextStage("client", at["client"]),
         NextAt("server", at["client"]) = NextAt("client", at["client"]),
         NextStage("client", at["client"]) \in {"sync", "type", "done"},
         ChannelTypeOK, stage \in [Side -> Stage], at \in [Side -> Position],
         \/ at["server"] = at["client"] /\ Returned("server", "type")
         \/ at["server"] = at["client"] /\ stage["server"] = "await_status"
              /\ line["server"] \in {NoText, "complete"}
         \/ ServerFollows(at["client"]) /\ line["server"] = NoText
  PROVE  TogetherBeforeHandshake' /\ TogetherAtTheEnd'
<1> USE DEF Side, NoText
<1>1. /\ stage'["client"] = NextStage("server", at["client"])
      /\ at'["client"] = NextAt("server", at["client"])
      /\ stage'["server"] = stage["server"] /\ at'["server"] = at["server"]
      /\ step'["server"] = step["server"] /\ line'["server"] = line["server"]
  BY NextComboEffect DEF Call, ChannelTypeOK
<1>2. CASE /\ at["server"] = at["client"]
           /\ \/ Returned("server", "type")
              \/ stage["server"] = "await_status" /\ line["server"] \in {NoText, "complete"}
  <2>1. ServerBehind(stage["client"], at["client"])'
    BY <1>1, <1>2 DEF ServerBehind, NextIs, Returned, NextStage, NextAt, Last
  <2>2. TogetherAtTheEnd'
    BY <1>1, <1>2 DEF TogetherAtTheEnd, Returned, NextStage, Last
  <2> QED
    BY <2>1, <2>2 DEF TogetherBeforeHandshake
<1>3. CASE ServerFollows(at["client"]) /\ line["server"] = NoText
  BY <1>1, <1>3 DEF ServerFollows, ServerAwaits, Here, TogetherBeforeHandshake, TogetherAtTheEnd,
     InHandshake, HandshakeStage
<1> QED
  BY <1>2, <1>3

\* Without an s_server, pgrep finds nothing.
LEMMA PgrepFindsNone ==
  ASSUME others = 0, sserver = NoServer
  PROVE  PgrepCount = 0
  BY DEF PgrepCount

\* With one s_server and no foreign process, pgrep finds exactly one.
LEMMA PgrepFindsOne ==
  ASSUME others = 0, sserver # NoServer
  PROVE  PgrepCount = 1
  BY DEF PgrepCount

\* The names for places, calls and stages, expanded in every step below.
USE DEF Side, Peer, NoText, channel, call, Here, Returned, Sending,
        HandshakeStage, SendStage, WaitStage, IdleStage, InHandshake,
        SharedStage, ServerStage, ClientStage,
        ServerAwaits, ServerAnswers, ServerFollows, ServerPassed,
        NextIs, ServerBehind, ServerOffers

\* The client script finds the peer's port open.
LEMMA ProbeClient ==
  ASSUME Inductive, Signal("client"), Probe("client")
  PROVE  Inductive'
<1> USE DEF Inductive, Lockstep, Signal, Probe, Connect
<1>1. TypeOK'
  BY ControlAssumption DEF TypeOK, ChannelTypeOK, Served, Stage, Text, Message, Kind, Step
<1>2. SidesOK'
  BY DEF TypeOK, ChannelTypeOK, SidesOK, CallOK, PortOK, AtOK, ComboStage, Stage
<1>3. ServerOK' /\ RightServer' /\ ResultsAsNamed'
  BY MatchedAssumption DEF TypeOK, ChannelTypeOK, SidesOK, CallOK, ServerOK, RightServer,
     ResultsAsNamed, ComboAt, TogetherGettingReady, TogetherMeasuring
<1>4. /\ TogetherBeforeHandshake'
      /\ TogetherInHandshake'
      /\ TogetherAfterHandshake'
  BY DEF TypeOK, ChannelTypeOK, SidesOK, CallOK, PortOK, ServerOK, TogetherBeforeHandshake,
     TogetherInHandshake, TogetherAfterHandshake, TogetherMeasuring
<1>5. TogetherGettingReady' /\ TogetherMeasuring' /\ TogetherAtTheEnd'
  BY DEF TypeOK, ChannelTypeOK, SidesOK, CallOK, PortOK, ServerOK, TogetherAfterHandshake,
     TogetherGettingReady, TogetherMeasuring, TogetherAtTheEnd
<1> QED
  BY <1>1, <1>2, <1>3, <1>4, <1>5

\* The client script has slept the control delay.
LEMMA SleepClient ==
  ASSUME Inductive, Signal("client"), Sleep("client")
  PROVE  Inductive'
<1> USE DEF Inductive, Lockstep, Signal, Sleep
<1>1. TypeOK'
  BY ControlAssumption DEF TypeOK, ChannelTypeOK, Served, Stage, Text, Message, Kind, Step
<1>2. SidesOK'
  BY DEF TypeOK, ChannelTypeOK, SidesOK, CallOK, PortOK, AtOK, ComboStage, Stage
<1>3. ServerOK' /\ RightServer' /\ ResultsAsNamed'
  BY MatchedAssumption DEF TypeOK, ChannelTypeOK, SidesOK, CallOK, ServerOK, RightServer,
     ResultsAsNamed, ComboAt, TogetherGettingReady, TogetherMeasuring
<1>4. /\ TogetherBeforeHandshake'
      /\ TogetherInHandshake'
      /\ TogetherAfterHandshake'
  BY DEF TypeOK, ChannelTypeOK, SidesOK, CallOK, PortOK, ServerOK, TogetherBeforeHandshake,
     TogetherInHandshake, TogetherAfterHandshake, TogetherMeasuring
<1>5. TogetherGettingReady' /\ TogetherMeasuring' /\ TogetherAtTheEnd'
  BY DEF TypeOK, ChannelTypeOK, SidesOK, CallOK, PortOK, ServerOK, TogetherAfterHandshake,
     TogetherGettingReady, TogetherMeasuring, TogetherAtTheEnd
<1> QED
  BY <1>1, <1>2, <1>3, <1>4, <1>5

\* The client script sends its signal.
LEMMA SendClient ==
  ASSUME Inductive, Signal("client"), Send("client")
  PROVE  Inductive'
<1> USE DEF Inductive, Lockstep, Signal, Send, Connect, AfterSend
<1>1. TypeOK'
  BY ControlAssumption DEF TypeOK, ChannelTypeOK, Served, Stage, Text, Message, Kind, Step
<1>2. SidesOK'
  BY DEF TypeOK, ChannelTypeOK, SidesOK, CallOK, PortOK, AtOK, ComboStage, Stage
<1>3. ServerOK' /\ RightServer' /\ ResultsAsNamed'
  BY MatchedAssumption DEF TypeOK, ChannelTypeOK, SidesOK, CallOK, ServerOK, RightServer,
     ResultsAsNamed, ComboAt, TogetherGettingReady, TogetherMeasuring
<1>4. TogetherBeforeHandshake'
  BY DEF TypeOK, ChannelTypeOK, SidesOK, CallOK, PortOK, ServerOK, TogetherBeforeHandshake, TogetherInHandshake, TogetherAfterHandshake, TogetherMeasuring
<1>5. TogetherInHandshake'
  <2>1. line["client"] = NoText /\ line'["client"] = line["client"]
    BY DEF SidesOK, PortOK, TypeOK, ChannelTypeOK
  <2>2. CASE ServerAwaits(stage["client"], at["client"]) /\ line["server"] = NoText
    BY <2>1, <2>2 DEF TypeOK, ChannelTypeOK, SidesOK, CallOK, TogetherInHandshake
  <2>3. CASE ServerBehind(stage["client"], at["client"])
    BY <2>1, <2>3 DEF TypeOK, ChannelTypeOK, SidesOK, CallOK, PortOK, TogetherInHandshake
  <2> QED
    BY <2>2, <2>3 DEF TogetherBeforeHandshake, TogetherInHandshake
<1>6. TogetherAfterHandshake'
  BY DEF TypeOK, ChannelTypeOK, SidesOK, CallOK, PortOK, ServerOK, TogetherBeforeHandshake, TogetherInHandshake, TogetherAfterHandshake
<1>7. TogetherGettingReady' /\ TogetherMeasuring' /\ TogetherAtTheEnd'
  BY DEF TypeOK, ChannelTypeOK, SidesOK, CallOK, PortOK, ServerOK, TogetherAfterHandshake,
     TogetherGettingReady, TogetherMeasuring, TogetherAtTheEnd
<1> QED
  BY <1>1, <1>2, <1>3, <1>4, <1>5, <1>6, <1>7

\* The client script opens its listener.
LEMMA ListenClient ==
  ASSUME Inductive, Signal("client"), Listen("client")
  PROVE  Inductive'
<1> USE DEF Inductive, Lockstep, Signal, Listen
<1>1. TypeOK'
  BY ControlAssumption DEF TypeOK, ChannelTypeOK, Served, Stage, Text, Message, Kind, Step
<1>2. SidesOK'
  BY DEF TypeOK, ChannelTypeOK, SidesOK, CallOK, PortOK, AtOK, ComboStage, Stage
<1>3. ServerOK' /\ RightServer' /\ ResultsAsNamed'
  BY MatchedAssumption DEF TypeOK, ChannelTypeOK, SidesOK, CallOK, ServerOK, RightServer,
     ResultsAsNamed, ComboAt, TogetherGettingReady, TogetherMeasuring
<1>4. /\ TogetherBeforeHandshake'
      /\ TogetherInHandshake'
      /\ TogetherAfterHandshake'
  BY DEF TypeOK, ChannelTypeOK, SidesOK, CallOK, PortOK, ServerOK, TogetherBeforeHandshake,
     TogetherInHandshake, TogetherAfterHandshake, TogetherMeasuring
<1>5. TogetherGettingReady' /\ TogetherMeasuring' /\ TogetherAtTheEnd'
  BY DEF TypeOK, ChannelTypeOK, SidesOK, CallOK, PortOK, ServerOK, TogetherAfterHandshake,
     TogetherGettingReady, TogetherMeasuring, TogetherAtTheEnd
<1> QED
  BY <1>1, <1>2, <1>3, <1>4, <1>5

\* The client script takes what its listener has received.
LEMMA ReceiveClient ==
  ASSUME Inductive, Signal("client"), Receive("client")
  PROVE  Inductive'
<1> USE DEF Inductive, Lockstep, Signal, Receive, Awaited, ControlAnswer, AfterReceive
<1>1. TypeOK'
  BY ControlAssumption DEF TypeOK, ChannelTypeOK, Served, Stage, Text, Message, Kind, Step
<1>2. SidesOK'
  BY DEF TypeOK, ChannelTypeOK, SidesOK, CallOK, PortOK, AtOK, ComboStage, Stage
<1>3. ServerOK' /\ RightServer' /\ ResultsAsNamed'
  BY MatchedAssumption DEF TypeOK, ChannelTypeOK, SidesOK, CallOK, ServerOK, RightServer,
     ResultsAsNamed, ComboAt, TogetherGettingReady, TogetherMeasuring
<1>4. TogetherBeforeHandshake'
  BY DEF TypeOK, ChannelTypeOK, SidesOK, CallOK, PortOK, ServerOK, TogetherBeforeHandshake, TogetherInHandshake, TogetherAfterHandshake, TogetherMeasuring
<1>5. TogetherInHandshake'
  <2>1. CASE line["client"] = "handshake_ready"
    BY <2>1 DEF TypeOK, ChannelTypeOK, SidesOK, CallOK, TogetherInHandshake
  <2>2. CASE line["client"] = NoText
    <3>1. step' = step /\ line' = line /\ UNCHANGED <<stage, at>>
      BY <2>2 DEF TypeOK, ChannelTypeOK
    <3> QED
      BY <3>1 DEF TogetherInHandshake
  <2> QED
    BY <2>1, <2>2 DEF TogetherInHandshake
<1>6. TogetherAfterHandshake'
  BY DEF TypeOK, ChannelTypeOK, SidesOK, CallOK, PortOK, ServerOK, TogetherBeforeHandshake, TogetherInHandshake, TogetherAfterHandshake
<1>7. TogetherGettingReady' /\ TogetherMeasuring' /\ TogetherAtTheEnd'
  BY DEF TypeOK, ChannelTypeOK, SidesOK, CallOK, PortOK, ServerOK, TogetherAfterHandshake,
     TogetherGettingReady, TogetherMeasuring, TogetherAtTheEnd
<1> QED
  BY <1>1, <1>2, <1>3, <1>4, <1>5, <1>6, <1>7

\* The client script begins the first handshake.
LEMMA EnterClient ==
  ASSUME Inductive, Enter("client")
  PROVE  Inductive'
<1> USE DEF Inductive, Lockstep, Enter, Handshake, GoCall, Call, FirstStep
<1>1. TypeOK'
  BY ControlAssumption DEF TypeOK, ChannelTypeOK, Served, Stage, Text, Message, Kind, Step
<1>2. SidesOK'
  BY DEF TypeOK, ChannelTypeOK, SidesOK, CallOK, PortOK, AtOK, ComboStage, Stage
<1>3. ServerOK' /\ RightServer' /\ ResultsAsNamed'
  BY MatchedAssumption DEF TypeOK, ChannelTypeOK, SidesOK, CallOK, ServerOK, RightServer,
     ResultsAsNamed, ComboAt, TogetherGettingReady, TogetherMeasuring
<1>4. /\ TogetherBeforeHandshake'
      /\ TogetherInHandshake'
      /\ TogetherAfterHandshake'
  BY DEF TypeOK, ChannelTypeOK, SidesOK, CallOK, PortOK, ServerOK, TogetherBeforeHandshake,
     TogetherInHandshake, TogetherAfterHandshake, TogetherMeasuring
<1>5. TogetherGettingReady' /\ TogetherMeasuring' /\ TogetherAtTheEnd'
  BY DEF TypeOK, ChannelTypeOK, SidesOK, CallOK, PortOK, ServerOK, TogetherAfterHandshake,
     TogetherGettingReady, TogetherMeasuring, TogetherAtTheEnd
<1> QED
  BY <1>1, <1>2, <1>3, <1>4, <1>5

\* The client script has done the first handshake.
LEMMA BeginRunsClient ==
  ASSUME Inductive, BeginRuns("client")
  PROVE  Inductive'
<1> USE DEF Inductive, Lockstep, BeginRuns, Handshake, GoCall, Call, FirstStep
<1>1. TypeOK'
  BY ControlAssumption DEF TypeOK, ChannelTypeOK, Served, Stage, Text, Message, Kind, Step
<1>2. SidesOK'
  BY DEF TypeOK, ChannelTypeOK, SidesOK, CallOK, PortOK, AtOK, ComboStage, Stage
<1>3. ServerOK' /\ RightServer' /\ ResultsAsNamed'
  BY MatchedAssumption DEF TypeOK, ChannelTypeOK, SidesOK, CallOK, ServerOK, RightServer,
     ResultsAsNamed, ComboAt, TogetherGettingReady, TogetherMeasuring
<1>4. /\ TogetherBeforeHandshake'
      /\ TogetherInHandshake'
      /\ TogetherAfterHandshake'
  BY DEF TypeOK, ChannelTypeOK, SidesOK, CallOK, PortOK, ServerOK, TogetherBeforeHandshake,
     TogetherInHandshake, TogetherAfterHandshake, TogetherMeasuring
<1>5. TogetherGettingReady' /\ TogetherMeasuring' /\ TogetherAtTheEnd'
  BY DEF TypeOK, ChannelTypeOK, SidesOK, CallOK, PortOK, ServerOK, TogetherAfterHandshake,
     TogetherGettingReady, TogetherMeasuring, TogetherAtTheEnd
<1> QED
  BY <1>1, <1>2, <1>3, <1>4, <1>5

\* The client script has done the handshake of a test type.
LEMMA BeginTypeClient ==
  ASSUME Inductive, BeginType("client")
  PROVE  Inductive'
<1> USE DEF Inductive, Lockstep, BeginType, Call, FirstStep
<1>a. at["server"] \in Position /\ at["client"] \in Position
  BY DEF TypeOK, Side
<1>b. /\ NextAt("client", at["client"]) \in Position
      /\ NextAt("client", at["client"]).run >= 1
      /\ NextAt("client", at["client"]).k <= Len(Combos["client"][NextAt("client", at["client"]).type])
      /\ NextStage("client", at["client"]) = "sync" => NextAt("client", at["client"]).k >= 1
  BY <1>a, NextAtOK DEF SidesOK, AtOK, Side
<1>c. /\ NextStage("server", at["client"]) = NextStage("client", at["client"])
      /\ NextAt("server", at["client"]) = NextAt("client", at["client"])
      /\ NextStage("server", at["client"]) \in {"sync", "type", "done"}
  BY <1>a, NextFacts
<1>d. LET next == NextStage("client", at["client"])
          stays == next = "done" \/ (next = "sync" /\ "client" = "server")
      IN  /\ at' = [at EXCEPT !["client"] = NextAt("client", at["client"])]
          /\ stage' = [stage EXCEPT !["client"] =
                         IF next = "sync" /\ "client" = "server" THEN "reap" ELSE next]
          /\ stays => /\ step' = [step EXCEPT !["client"] = "idle"]
                      /\ UNCHANGED <<port, line, kind, message, signal_message>>
          /\ ~stays => Call("client", "iteration_handshake", "handshake_ready")
  BY <1>c, NextComboEffect
<1>1. ChannelTypeOK'
  BY <1>c, <1>d, CallTypeOK DEF TypeOK, ChannelTypeOK, Kind, Text, Message, Step
<1>2. TypeOK'
  BY ControlAssumption, <1>1, <1>a, <1>b, <1>c, <1>d DEF TypeOK, Served, Stage
<1>3. /\ stage'["server"] \in ServerStage /\ stage'["client"] \in ClientStage
      /\ CallOK("server")' /\ CallOK("client")'
  BY <1>a, <1>b, <1>c, <1>d DEF TypeOK, ChannelTypeOK, SidesOK, CallOK
<1>4. PortOK("server")' /\ PortOK("client")'
  BY <1>a, <1>b, <1>c, <1>d DEF TypeOK, ChannelTypeOK, SidesOK, CallOK, PortOK
<1>5. AtOK("server")' /\ AtOK("client")'
  BY <1>a, <1>b, <1>c, <1>d DEF TypeOK, SidesOK, AtOK, ComboStage, Stage
<1>6. SidesOK'
  BY <1>3, <1>4, <1>5 DEF SidesOK
<1>7. ServerOK' /\ RightServer' /\ ResultsAsNamed'
  BY MatchedAssumption, <1>a, <1>b, <1>c, <1>d DEF TypeOK, ChannelTypeOK, SidesOK, CallOK, ServerOK, RightServer,
     ResultsAsNamed, ComboAt, TogetherGettingReady, TogetherMeasuring
<1>8. TogetherBeforeHandshake' /\ TogetherAtTheEnd'
  <2>1. \/ at["server"] = at["client"] /\ Returned("server", "type")
        \/ at["server"] = at["client"] /\ stage["server"] = "await_status"
             /\ line["server"] \in {NoText, "complete"}
        \/ ServerFollows(at["client"]) /\ line["server"] = NoText
    BY DEF TogetherAfterHandshake
  <2> QED
    BY <2>1, <1>c, ClientMovesOn DEF TypeOK
<1>9. TogetherInHandshake'
  <2>1. CASE NextStage("client", at["client"]) = "sync"
    BY <2>1, <1>a, <1>b, <1>c, <1>d DEF TypeOK, ChannelTypeOK, SidesOK, CallOK, PortOK, ServerOK, TogetherBeforeHandshake, TogetherInHandshake, TogetherAfterHandshake
  <2>2. CASE NextStage("client", at["client"]) = "type"
    BY <2>2, <1>a, <1>b, <1>c, <1>d DEF TypeOK, ChannelTypeOK, SidesOK, CallOK, PortOK, ServerOK, TogetherBeforeHandshake, TogetherInHandshake, TogetherAfterHandshake
  <2>3. CASE NextStage("client", at["client"]) = "done"
    BY <2>3, <1>a, <1>b, <1>c, <1>d DEF TypeOK, ChannelTypeOK, SidesOK, CallOK, PortOK, ServerOK, TogetherBeforeHandshake, TogetherInHandshake, TogetherAfterHandshake
  <2> QED
    BY <2>1, <2>2, <2>3, <1>c
<1>10. TogetherAfterHandshake'
  <2>1. CASE NextStage("client", at["client"]) = "sync"
    BY <2>1, <1>a, <1>b, <1>c, <1>d DEF TypeOK, ChannelTypeOK, SidesOK, CallOK, PortOK, ServerOK, TogetherBeforeHandshake, TogetherInHandshake, TogetherAfterHandshake
  <2>2. CASE NextStage("client", at["client"]) = "type"
    BY <2>2, <1>a, <1>b, <1>c, <1>d DEF TypeOK, ChannelTypeOK, SidesOK, CallOK, PortOK, ServerOK, TogetherBeforeHandshake, TogetherInHandshake, TogetherAfterHandshake
  <2>3. CASE NextStage("client", at["client"]) = "done"
    BY <2>3, <1>a, <1>b, <1>c, <1>d DEF TypeOK, ChannelTypeOK, SidesOK, CallOK, PortOK, ServerOK, TogetherBeforeHandshake, TogetherInHandshake, TogetherAfterHandshake
  <2> QED
    BY <2>1, <2>2, <2>3, <1>c
<1>11. TogetherGettingReady'
  <2>1. CASE NextStage("client", at["client"]) = "sync"
    BY <2>1, <1>a, <1>b, <1>c, <1>d DEF TypeOK, ChannelTypeOK, SidesOK, CallOK, PortOK, ServerOK, TogetherAfterHandshake, TogetherGettingReady
  <2>2. CASE NextStage("client", at["client"]) = "type"
    BY <2>2, <1>a, <1>b, <1>c, <1>d DEF TypeOK, ChannelTypeOK, SidesOK, CallOK, PortOK, ServerOK, TogetherAfterHandshake, TogetherGettingReady
  <2>3. CASE NextStage("client", at["client"]) = "done"
    BY <2>3, <1>a, <1>b, <1>c, <1>d DEF TypeOK, ChannelTypeOK, SidesOK, CallOK, PortOK, ServerOK, TogetherAfterHandshake, TogetherGettingReady
  <2> QED
    BY <2>1, <2>2, <2>3, <1>c
<1>12. TogetherMeasuring'
  <2>1. CASE NextStage("client", at["client"]) = "sync"
    BY <2>1, <1>a, <1>b, <1>c, <1>d DEF TypeOK, ChannelTypeOK, SidesOK, CallOK, PortOK, ServerOK, TogetherGettingReady, TogetherMeasuring
  <2>2. CASE NextStage("client", at["client"]) = "type"
    BY <2>2, <1>a, <1>b, <1>c, <1>d DEF TypeOK, ChannelTypeOK, SidesOK, CallOK, PortOK, ServerOK, TogetherGettingReady, TogetherMeasuring
  <2>3. CASE NextStage("client", at["client"]) = "done"
    BY <2>3, <1>a, <1>b, <1>c, <1>d DEF TypeOK, ChannelTypeOK, SidesOK, CallOK, PortOK, ServerOK, TogetherGettingReady, TogetherMeasuring
  <2> QED
    BY <2>1, <2>2, <2>3, <1>c
<1> QED
  BY <1>2, <1>6, <1>7, <1>8, <1>9, <1>10, <1>11, <1>12

\* The server script finds the peer's port open.
LEMMA ProbeServer ==
  ASSUME Inductive, Signal("server"), Probe("server")
  PROVE  Inductive'
<1> USE DEF Inductive, Lockstep, Signal, Probe, Connect
<1>1. ChannelTypeOK'
  BY DEF TypeOK, ChannelTypeOK, Text, Message, Kind, Step
<1>2. TypeOK'
  BY ControlAssumption, <1>1 DEF TypeOK, Served, Stage
<1>3. SidesOK'
  BY DEF TypeOK, ChannelTypeOK, SidesOK, CallOK, PortOK, AtOK, ComboStage, Stage
<1>4. ServerOK' /\ RightServer' /\ ResultsAsNamed'
  BY MatchedAssumption DEF TypeOK, ChannelTypeOK, SidesOK, CallOK, ServerOK, RightServer,
     ResultsAsNamed, ComboAt, TogetherGettingReady, TogetherMeasuring
<1>5. /\ TogetherBeforeHandshake'
      /\ TogetherInHandshake'
      /\ TogetherAfterHandshake'
  BY DEF TypeOK, ChannelTypeOK, SidesOK, CallOK, PortOK, ServerOK, TogetherBeforeHandshake,
     TogetherInHandshake, TogetherAfterHandshake, TogetherMeasuring
<1>6. TogetherGettingReady' /\ TogetherMeasuring' /\ TogetherAtTheEnd'
  BY DEF TypeOK, ChannelTypeOK, SidesOK, CallOK, PortOK, ServerOK, TogetherAfterHandshake,
     TogetherGettingReady, TogetherMeasuring, TogetherAtTheEnd
<1> QED
  BY <1>2, <1>3, <1>4, <1>5, <1>6

\* The server script has slept the control delay.
LEMMA SleepServer ==
  ASSUME Inductive, Signal("server"), Sleep("server")
  PROVE  Inductive'
<1> USE DEF Inductive, Lockstep, Signal, Sleep
<1>1. TypeOK'
  BY ControlAssumption DEF TypeOK, ChannelTypeOK, Served, Stage, Text, Message, Kind, Step
<1>2. SidesOK'
  BY DEF TypeOK, ChannelTypeOK, SidesOK, CallOK, PortOK, AtOK, ComboStage, Stage
<1>3. ServerOK' /\ RightServer' /\ ResultsAsNamed'
  BY MatchedAssumption DEF TypeOK, ChannelTypeOK, SidesOK, CallOK, ServerOK, RightServer,
     ResultsAsNamed, ComboAt, TogetherGettingReady, TogetherMeasuring
<1>4. /\ TogetherBeforeHandshake'
      /\ TogetherInHandshake'
      /\ TogetherAfterHandshake'
  BY DEF TypeOK, ChannelTypeOK, SidesOK, CallOK, PortOK, ServerOK, TogetherBeforeHandshake,
     TogetherInHandshake, TogetherAfterHandshake, TogetherMeasuring
<1>5. TogetherGettingReady' /\ TogetherMeasuring' /\ TogetherAtTheEnd'
  BY DEF TypeOK, ChannelTypeOK, SidesOK, CallOK, PortOK, ServerOK, TogetherAfterHandshake,
     TogetherGettingReady, TogetherMeasuring, TogetherAtTheEnd
<1> QED
  BY <1>1, <1>2, <1>3, <1>4, <1>5

\* The server script sends its signal.
LEMMA SendServer ==
  ASSUME Inductive, Signal("server"), Send("server")
  PROVE  Inductive'
<1> USE DEF Inductive, Lockstep, Signal, Send, Connect, AfterSend
<1>1. ChannelTypeOK'
  BY DEF TypeOK, ChannelTypeOK, Text, Message, Kind, Step
<1>2. TypeOK'
  BY ControlAssumption, <1>1 DEF TypeOK, Served, Stage
<1>3. SidesOK'
  BY DEF TypeOK, ChannelTypeOK, SidesOK, CallOK, PortOK, AtOK, ComboStage, Stage
<1>4. ServerOK' /\ RightServer' /\ ResultsAsNamed'
  BY MatchedAssumption DEF TypeOK, ChannelTypeOK, SidesOK, CallOK, ServerOK, RightServer,
     ResultsAsNamed, ComboAt, TogetherGettingReady, TogetherMeasuring
<1>5. /\ TogetherBeforeHandshake'
      /\ TogetherInHandshake'
      /\ TogetherAfterHandshake'
  BY DEF TypeOK, ChannelTypeOK, SidesOK, CallOK, PortOK, ServerOK, TogetherBeforeHandshake,
     TogetherInHandshake, TogetherAfterHandshake, TogetherMeasuring
<1>6. TogetherGettingReady' /\ TogetherMeasuring' /\ TogetherAtTheEnd'
  BY DEF TypeOK, ChannelTypeOK, SidesOK, CallOK, PortOK, ServerOK, TogetherAfterHandshake,
     TogetherGettingReady, TogetherMeasuring, TogetherAtTheEnd
<1> QED
  BY <1>2, <1>3, <1>4, <1>5, <1>6

\* The server script opens its listener.
LEMMA ListenServer ==
  ASSUME Inductive, Signal("server"), Listen("server")
  PROVE  Inductive'
<1> USE DEF Inductive, Lockstep, Signal, Listen
<1>1. TypeOK'
  BY ControlAssumption DEF TypeOK, ChannelTypeOK, Served, Stage, Text, Message, Kind, Step
<1>2. SidesOK'
  BY DEF TypeOK, ChannelTypeOK, SidesOK, CallOK, PortOK, AtOK, ComboStage, Stage
<1>3. ServerOK' /\ RightServer' /\ ResultsAsNamed'
  BY MatchedAssumption DEF TypeOK, ChannelTypeOK, SidesOK, CallOK, ServerOK, RightServer,
     ResultsAsNamed, ComboAt, TogetherGettingReady, TogetherMeasuring
<1>4. /\ TogetherBeforeHandshake'
      /\ TogetherInHandshake'
      /\ TogetherAfterHandshake'
  BY DEF TypeOK, ChannelTypeOK, SidesOK, CallOK, PortOK, ServerOK, TogetherBeforeHandshake,
     TogetherInHandshake, TogetherAfterHandshake, TogetherMeasuring
<1>5. TogetherGettingReady' /\ TogetherMeasuring' /\ TogetherAtTheEnd'
  BY DEF TypeOK, ChannelTypeOK, SidesOK, CallOK, PortOK, ServerOK, TogetherAfterHandshake,
     TogetherGettingReady, TogetherMeasuring, TogetherAtTheEnd
<1> QED
  BY <1>1, <1>2, <1>3, <1>4, <1>5

\* The server script takes what its listener has received.
LEMMA ReceiveServer ==
  ASSUME Inductive, Signal("server"), Receive("server")
  PROVE  Inductive'
<1> USE DEF Inductive, Lockstep, Signal, Receive, Awaited, ControlAnswer, AfterReceive
<1>1. TypeOK'
  BY ControlAssumption DEF TypeOK, ChannelTypeOK, Served, Stage, Text, Message, Kind, Step
<1>2. SidesOK'
  BY DEF TypeOK, ChannelTypeOK, SidesOK, CallOK, PortOK, AtOK, ComboStage, Stage
<1>3. ServerOK' /\ RightServer' /\ ResultsAsNamed'
  BY MatchedAssumption, Verdicts DEF TypeOK, ChannelTypeOK, SidesOK, CallOK, ServerOK, RightServer,
     ResultsAsNamed, ComboAt, TogetherGettingReady, TogetherMeasuring
<1>4. /\ TogetherBeforeHandshake'
      /\ TogetherInHandshake'
      /\ TogetherAfterHandshake'
  BY DEF TypeOK, ChannelTypeOK, SidesOK, CallOK, PortOK, ServerOK, TogetherBeforeHandshake,
     TogetherInHandshake, TogetherAfterHandshake, TogetherMeasuring
<1>5. TogetherGettingReady' /\ TogetherMeasuring' /\ TogetherAtTheEnd'
  BY DEF TypeOK, ChannelTypeOK, SidesOK, CallOK, PortOK, ServerOK, TogetherAfterHandshake,
     TogetherGettingReady, TogetherMeasuring, TogetherAtTheEnd
<1> QED
  BY <1>1, <1>2, <1>3, <1>4, <1>5

\* The server script begins the first handshake.
LEMMA EnterServer ==
  ASSUME Inductive, Enter("server")
  PROVE  Inductive'
<1> USE DEF Inductive, Lockstep, Enter, Handshake, GoCall, Call, FirstStep
<1>1. TypeOK'
  BY ControlAssumption DEF TypeOK, ChannelTypeOK, Served, Stage, Text, Message, Kind, Step
<1>2. SidesOK'
  BY DEF TypeOK, ChannelTypeOK, SidesOK, CallOK, PortOK, AtOK, ComboStage, Stage
<1>3. ServerOK' /\ RightServer' /\ ResultsAsNamed'
  BY MatchedAssumption DEF TypeOK, ChannelTypeOK, SidesOK, CallOK, ServerOK, RightServer,
     ResultsAsNamed, ComboAt, TogetherGettingReady, TogetherMeasuring
<1>4. /\ TogetherBeforeHandshake'
      /\ TogetherInHandshake'
      /\ TogetherAfterHandshake'
  BY DEF TypeOK, ChannelTypeOK, SidesOK, CallOK, PortOK, ServerOK, TogetherBeforeHandshake,
     TogetherInHandshake, TogetherAfterHandshake, TogetherMeasuring
<1>5. TogetherGettingReady' /\ TogetherMeasuring' /\ TogetherAtTheEnd'
  BY DEF TypeOK, ChannelTypeOK, SidesOK, CallOK, PortOK, ServerOK, TogetherAfterHandshake,
     TogetherGettingReady, TogetherMeasuring, TogetherAtTheEnd
<1> QED
  BY <1>1, <1>2, <1>3, <1>4, <1>5

\* The server script has done the first handshake.
LEMMA BeginRunsServer ==
  ASSUME Inductive, BeginRuns("server")
  PROVE  Inductive'
<1> USE DEF Inductive, Lockstep, BeginRuns, Handshake, GoCall, Call, FirstStep
<1>1. TypeOK'
  BY ControlAssumption DEF TypeOK, ChannelTypeOK, Served, Stage, Text, Message, Kind, Step
<1>2. SidesOK'
  BY DEF TypeOK, ChannelTypeOK, SidesOK, CallOK, PortOK, AtOK, ComboStage, Stage
<1>3. ServerOK' /\ RightServer' /\ ResultsAsNamed'
  BY MatchedAssumption DEF TypeOK, ChannelTypeOK, SidesOK, CallOK, ServerOK, RightServer,
     ResultsAsNamed, ComboAt, TogetherGettingReady, TogetherMeasuring
<1>4. /\ TogetherBeforeHandshake'
      /\ TogetherInHandshake'
      /\ TogetherAfterHandshake'
  BY DEF TypeOK, ChannelTypeOK, SidesOK, CallOK, PortOK, ServerOK, TogetherBeforeHandshake,
     TogetherInHandshake, TogetherAfterHandshake, TogetherMeasuring
<1>5. TogetherGettingReady' /\ TogetherMeasuring' /\ TogetherAtTheEnd'
  BY DEF TypeOK, ChannelTypeOK, SidesOK, CallOK, PortOK, ServerOK, TogetherAfterHandshake,
     TogetherGettingReady, TogetherMeasuring, TogetherAtTheEnd
<1> QED
  BY <1>1, <1>2, <1>3, <1>4, <1>5

\* The server script has done the handshake of a test type.
LEMMA BeginTypeServer ==
  ASSUME Inductive, BeginType("server")
  PROVE  Inductive'
<1> USE DEF Inductive, Lockstep, BeginType, Call, FirstStep
<1>a. at["server"] \in Position /\ at["client"] \in Position
  BY DEF TypeOK, Side
<1>b. /\ NextAt("server", at["server"]) \in Position
      /\ NextAt("server", at["server"]).run >= 1
      /\ NextAt("server", at["server"]).k <= Len(Combos["server"][NextAt("server", at["server"]).type])
      /\ NextStage("server", at["server"]) = "sync" => NextAt("server", at["server"]).k >= 1
  BY <1>a, NextAtOK DEF SidesOK, AtOK, Side
<1>c. /\ NextStage("server", at["server"]) = NextStage("client", at["server"])
      /\ NextAt("server", at["server"]) = NextAt("client", at["server"])
      /\ NextStage("server", at["server"]) \in {"sync", "type", "done"}
  BY <1>a, NextFacts
<1>d. LET next == NextStage("server", at["server"])
          stays == next = "done" \/ (next = "sync" /\ "server" = "server")
      IN  /\ at' = [at EXCEPT !["server"] = NextAt("server", at["server"])]
          /\ stage' = [stage EXCEPT !["server"] =
                         IF next = "sync" /\ "server" = "server" THEN "reap" ELSE next]
          /\ stays => /\ step' = [step EXCEPT !["server"] = "idle"]
                      /\ UNCHANGED <<port, line, kind, message, signal_message>>
          /\ ~stays => Call("server", "iteration_handshake", "handshake_ready")
  BY <1>c, NextComboEffect
<1>1. ChannelTypeOK'
  BY <1>c, <1>d, CallTypeOK DEF TypeOK, ChannelTypeOK, Kind, Text, Message, Step
<1>2. TypeOK'
  BY ControlAssumption, <1>1, <1>a, <1>b, <1>c, <1>d DEF TypeOK, Served, Stage
<1>3. /\ stage'["server"] \in ServerStage /\ stage'["client"] \in ClientStage
      /\ CallOK("server")' /\ CallOK("client")'
  BY <1>a, <1>b, <1>c, <1>d DEF TypeOK, ChannelTypeOK, SidesOK, CallOK
<1>4. PortOK("server")' /\ PortOK("client")'
  BY <1>a, <1>b, <1>c, <1>d DEF TypeOK, ChannelTypeOK, SidesOK, CallOK, PortOK
<1>5. AtOK("server")' /\ AtOK("client")'
  BY <1>a, <1>b, <1>c, <1>d DEF TypeOK, SidesOK, AtOK, ComboStage, Stage
<1>6. SidesOK'
  BY <1>3, <1>4, <1>5 DEF SidesOK
<1>7. ServerOK' /\ RightServer' /\ ResultsAsNamed'
  BY MatchedAssumption, <1>a, <1>b, <1>c, <1>d DEF TypeOK, ChannelTypeOK, SidesOK, CallOK, ServerOK, RightServer,
     ResultsAsNamed, ComboAt, TogetherGettingReady, TogetherMeasuring
<1>8. TogetherBeforeHandshake'
  <2>1. CASE NextStage("server", at["server"]) = "sync"
    BY <2>1, <1>a, <1>b, <1>c, <1>d DEF TypeOK, ChannelTypeOK, SidesOK, CallOK, PortOK, ServerOK, TogetherBeforeHandshake, TogetherInHandshake, TogetherAfterHandshake, TogetherMeasuring
  <2>2. CASE NextStage("server", at["server"]) = "type"
    BY <2>2, <1>a, <1>b, <1>c, <1>d DEF TypeOK, ChannelTypeOK, SidesOK, CallOK, PortOK, ServerOK, TogetherBeforeHandshake, TogetherInHandshake, TogetherAfterHandshake, TogetherMeasuring
  <2>3. CASE NextStage("server", at["server"]) = "done"
    BY <2>3, <1>a, <1>b, <1>c, <1>d DEF TypeOK, ChannelTypeOK, SidesOK, CallOK, PortOK, ServerOK, TogetherBeforeHandshake, TogetherInHandshake, TogetherAfterHandshake, TogetherMeasuring
  <2> QED
    BY <2>1, <2>2, <2>3, <1>c
<1>9. TogetherInHandshake'
  <2>1. CASE NextStage("server", at["server"]) = "sync"
    BY <2>1, <1>a, <1>b, <1>c, <1>d DEF TypeOK, ChannelTypeOK, SidesOK, CallOK, PortOK, ServerOK, TogetherBeforeHandshake, TogetherInHandshake, TogetherAfterHandshake
  <2>2. CASE NextStage("server", at["server"]) = "type"
    BY <2>2, <1>a, <1>b, <1>c, <1>d DEF TypeOK, ChannelTypeOK, SidesOK, CallOK, PortOK, ServerOK, TogetherBeforeHandshake, TogetherInHandshake, TogetherAfterHandshake
  <2>3. CASE NextStage("server", at["server"]) = "done"
    BY <2>3, <1>a, <1>b, <1>c, <1>d DEF TypeOK, ChannelTypeOK, SidesOK, CallOK, PortOK, ServerOK, TogetherBeforeHandshake, TogetherInHandshake, TogetherAfterHandshake
  <2> QED
    BY <2>1, <2>2, <2>3, <1>c
<1>10. TogetherAfterHandshake'
  <2>1. CASE NextStage("server", at["server"]) = "sync"
    BY <2>1, <1>a, <1>b, <1>c, <1>d DEF TypeOK, ChannelTypeOK, SidesOK, CallOK, PortOK, ServerOK, TogetherBeforeHandshake, TogetherInHandshake, TogetherAfterHandshake
  <2>2. CASE NextStage("server", at["server"]) = "type"
    BY <2>2, <1>a, <1>b, <1>c, <1>d DEF TypeOK, ChannelTypeOK, SidesOK, CallOK, PortOK, ServerOK, TogetherBeforeHandshake, TogetherInHandshake, TogetherAfterHandshake
  <2>3. CASE NextStage("server", at["server"]) = "done"
    BY <2>3, <1>a, <1>b, <1>c, <1>d DEF TypeOK, ChannelTypeOK, SidesOK, CallOK, PortOK, ServerOK, TogetherBeforeHandshake, TogetherInHandshake, TogetherAfterHandshake
  <2> QED
    BY <2>1, <2>2, <2>3, <1>c
<1>11. TogetherGettingReady'
  <2>1. CASE NextStage("server", at["server"]) = "sync"
    BY <2>1, <1>a, <1>b, <1>c, <1>d DEF TypeOK, ChannelTypeOK, SidesOK, CallOK, PortOK, ServerOK, TogetherAfterHandshake, TogetherGettingReady
  <2>2. CASE NextStage("server", at["server"]) = "type"
    BY <2>2, <1>a, <1>b, <1>c, <1>d DEF TypeOK, ChannelTypeOK, SidesOK, CallOK, PortOK, ServerOK, TogetherAfterHandshake, TogetherGettingReady
  <2>3. CASE NextStage("server", at["server"]) = "done"
    BY <2>3, <1>a, <1>b, <1>c, <1>d DEF TypeOK, ChannelTypeOK, SidesOK, CallOK, PortOK, ServerOK, TogetherAfterHandshake, TogetherGettingReady
  <2> QED
    BY <2>1, <2>2, <2>3, <1>c
<1>12. TogetherMeasuring'
  <2>1. CASE NextStage("server", at["server"]) = "sync"
    BY <2>1, <1>a, <1>b, <1>c, <1>d DEF TypeOK, ChannelTypeOK, SidesOK, CallOK, PortOK, ServerOK, TogetherGettingReady, TogetherMeasuring
  <2>2. CASE NextStage("server", at["server"]) = "type"
    BY <2>2, <1>a, <1>b, <1>c, <1>d DEF TypeOK, ChannelTypeOK, SidesOK, CallOK, PortOK, ServerOK, TogetherGettingReady, TogetherMeasuring
  <2>3. CASE NextStage("server", at["server"]) = "done"
    BY <2>3, <1>a, <1>b, <1>c, <1>d DEF TypeOK, ChannelTypeOK, SidesOK, CallOK, PortOK, ServerOK, TogetherGettingReady, TogetherMeasuring
  <2> QED
    BY <2>1, <2>2, <2>3, <1>c
<1>13. TogetherAtTheEnd'
  <2>1. CASE NextStage("server", at["server"]) = "sync"
    BY <2>1, <1>a, <1>b, <1>c, <1>d DEF TypeOK, ChannelTypeOK, SidesOK, CallOK, PortOK, ServerOK, TogetherAfterHandshake, TogetherMeasuring, TogetherAtTheEnd
  <2>2. CASE NextStage("server", at["server"]) = "type"
    BY <2>2, <1>a, <1>b, <1>c, <1>d DEF TypeOK, ChannelTypeOK, SidesOK, CallOK, PortOK, ServerOK, TogetherAfterHandshake, TogetherMeasuring, TogetherAtTheEnd
  <2>3. CASE NextStage("server", at["server"]) = "done"
    BY <2>3, <1>a, <1>b, <1>c, <1>d DEF TypeOK, ChannelTypeOK, SidesOK, CallOK, PortOK, ServerOK, TogetherAfterHandshake, TogetherMeasuring, TogetherAtTheEnd
  <2> QED
    BY <2>1, <2>2, <2>3, <1>c
<1> QED
  BY <1>2, <1>6, <1>7, <1>8, <1>9, <1>10, <1>11, <1>12, <1>13

\* The server looks for an old openssl process.
LEMMA ReapStep ==
  ASSUME Inductive, Reap
  PROVE  Inductive'
<1> USE DEF Inductive, Lockstep, Reap, Handshake, GoCall, Call, FirstStep
<1>f. others = 0
  BY DEF ServerOK
<1>e. sserver' = NoServer /\ others' = 0
  BY <1>f, PgrepFindsNone, PgrepFindsOne
<1>1. TypeOK'
  BY ControlAssumption, <1>f, <1>e DEF TypeOK, ChannelTypeOK, Served, Stage, Text, Message, Kind, Step
<1>2. SidesOK'
  BY <1>f, <1>e DEF TypeOK, ChannelTypeOK, SidesOK, CallOK, PortOK, AtOK, ComboStage, Stage
<1>3. ServerOK' /\ RightServer' /\ ResultsAsNamed'
  BY MatchedAssumption, <1>f, <1>e DEF TypeOK, ChannelTypeOK, SidesOK, CallOK, ServerOK, RightServer,
     ResultsAsNamed, ComboAt, TogetherGettingReady, TogetherMeasuring
<1>4. /\ TogetherBeforeHandshake'
      /\ TogetherInHandshake'
      /\ TogetherAfterHandshake'
  BY <1>f, <1>e DEF TypeOK, ChannelTypeOK, SidesOK, CallOK, PortOK, ServerOK, TogetherBeforeHandshake,
     TogetherInHandshake, TogetherAfterHandshake, TogetherMeasuring
<1>5. TogetherGettingReady' /\ TogetherMeasuring' /\ TogetherAtTheEnd'
  BY <1>f, <1>e DEF TypeOK, ChannelTypeOK, SidesOK, CallOK, PortOK, ServerOK, TogetherAfterHandshake,
     TogetherGettingReady, TogetherMeasuring, TogetherAtTheEnd
<1> QED
  BY <1>1, <1>2, <1>3, <1>4, <1>5

\* The server waits for the client to be ready.
LEMMA AwaitReadyStep ==
  ASSUME Inductive, AwaitReady
  PROVE  Inductive'
<1> USE DEF Inductive, Lockstep, AwaitReady, GoCall, Call, FirstStep
<1>1. TypeOK'
  BY ControlAssumption DEF TypeOK, ChannelTypeOK, Served, Stage, Text, Message, Kind, Step
<1>2. SidesOK'
  BY DEF TypeOK, ChannelTypeOK, SidesOK, CallOK, PortOK, AtOK, ComboStage, Stage
<1>3. ServerOK' /\ RightServer' /\ ResultsAsNamed'
  BY MatchedAssumption DEF TypeOK, ChannelTypeOK, SidesOK, CallOK, ServerOK, RightServer,
     ResultsAsNamed, ComboAt, TogetherGettingReady, TogetherMeasuring
<1>4. /\ TogetherBeforeHandshake'
      /\ TogetherInHandshake'
      /\ TogetherAfterHandshake'
  BY DEF TypeOK, ChannelTypeOK, SidesOK, CallOK, PortOK, ServerOK, TogetherBeforeHandshake,
     TogetherInHandshake, TogetherAfterHandshake, TogetherMeasuring
<1>5. TogetherGettingReady' /\ TogetherMeasuring' /\ TogetherAtTheEnd'
  BY DEF TypeOK, ChannelTypeOK, SidesOK, CallOK, PortOK, ServerOK, TogetherAfterHandshake,
     TogetherGettingReady, TogetherMeasuring, TogetherAtTheEnd
<1> QED
  BY <1>1, <1>2, <1>3, <1>4, <1>5

\* The server starts the s_server of the combination.
LEMMA StartServerStep ==
  ASSUME Inductive, StartServer
  PROVE  Inductive'
<1> USE DEF Inductive, Lockstep, StartServer, Goto
<1>d. ComboAt("server", at["server"]) \in Combo
  BY ComboAtFact DEF SidesOK, AtOK, Side, ComboStage, Stage, StartServer, Returned, TypeOK
<1>1. TypeOK'
  BY ControlAssumption, <1>d DEF TypeOK, ChannelTypeOK, Served, Stage, Text, Message, Kind, Step
<1>2. SidesOK'
  BY <1>d DEF TypeOK, ChannelTypeOK, SidesOK, CallOK, PortOK, AtOK, ComboStage, Stage
<1>3. ServerOK' /\ RightServer' /\ ResultsAsNamed'
  BY MatchedAssumption, <1>d DEF TypeOK, ChannelTypeOK, SidesOK, CallOK, ServerOK, RightServer,
     ResultsAsNamed, ComboAt, TogetherGettingReady, TogetherMeasuring
<1>4. /\ TogetherBeforeHandshake'
      /\ TogetherInHandshake'
      /\ TogetherAfterHandshake'
  BY <1>d DEF TypeOK, ChannelTypeOK, SidesOK, CallOK, PortOK, ServerOK, TogetherBeforeHandshake,
     TogetherInHandshake, TogetherAfterHandshake, TogetherMeasuring
<1>5. TogetherGettingReady' /\ TogetherMeasuring' /\ TogetherAtTheEnd'
  BY <1>d DEF TypeOK, ChannelTypeOK, SidesOK, CallOK, PortOK, ServerOK, TogetherAfterHandshake,
     TogetherGettingReady, TogetherMeasuring, TogetherAtTheEnd
<1> QED
  BY <1>1, <1>2, <1>3, <1>4, <1>5

\* The server finds its port in use and says so.
LEMMA ServerIsUpStep ==
  ASSUME Inductive, ServerIsUp
  PROVE  Inductive'
<1> USE DEF Inductive, Lockstep, ServerIsUp, GoCall, Call, FirstStep
<1>1. TypeOK'
  BY ControlAssumption DEF TypeOK, ChannelTypeOK, Served, Stage, Text, Message, Kind, Step
<1>2. SidesOK'
  BY DEF TypeOK, ChannelTypeOK, SidesOK, CallOK, PortOK, AtOK, ComboStage, Stage
<1>3. ServerOK' /\ RightServer' /\ ResultsAsNamed'
  BY MatchedAssumption DEF TypeOK, ChannelTypeOK, SidesOK, CallOK, ServerOK, RightServer,
     ResultsAsNamed, ComboAt, TogetherGettingReady, TogetherMeasuring
<1>4. /\ TogetherBeforeHandshake'
      /\ TogetherInHandshake'
      /\ TogetherAfterHandshake'
  BY DEF TypeOK, ChannelTypeOK, SidesOK, CallOK, PortOK, ServerOK, TogetherBeforeHandshake,
     TogetherInHandshake, TogetherAfterHandshake, TogetherMeasuring
<1>5. TogetherGettingReady' /\ TogetherMeasuring' /\ TogetherAtTheEnd'
  BY DEF TypeOK, ChannelTypeOK, SidesOK, CallOK, PortOK, ServerOK, TogetherAfterHandshake,
     TogetherGettingReady, TogetherMeasuring, TogetherAtTheEnd
<1> QED
  BY <1>1, <1>2, <1>3, <1>4, <1>5

\* The server waits for the verdict.
LEMMA AwaitStatusStep ==
  ASSUME Inductive, AwaitStatus
  PROVE  Inductive'
<1> USE DEF Inductive, Lockstep, AwaitStatus, GoCall, Call, FirstStep
<1>1. TypeOK'
  BY ControlAssumption DEF TypeOK, ChannelTypeOK, Served, Stage, Text, Message, Kind, Step
<1>2. SidesOK'
  BY DEF TypeOK, ChannelTypeOK, SidesOK, CallOK, PortOK, AtOK, ComboStage, Stage
<1>3. ServerOK' /\ RightServer' /\ ResultsAsNamed'
  BY MatchedAssumption DEF TypeOK, ChannelTypeOK, SidesOK, CallOK, ServerOK, RightServer,
     ResultsAsNamed, ComboAt, TogetherGettingReady, TogetherMeasuring
<1>4. /\ TogetherBeforeHandshake'
      /\ TogetherInHandshake'
      /\ TogetherAfterHandshake'
  BY DEF TypeOK, ChannelTypeOK, SidesOK, CallOK, PortOK, ServerOK, TogetherBeforeHandshake,
     TogetherInHandshake, TogetherAfterHandshake, TogetherMeasuring
<1>5. TogetherGettingReady' /\ TogetherMeasuring' /\ TogetherAtTheEnd'
  BY DEF TypeOK, ChannelTypeOK, SidesOK, CallOK, PortOK, ServerOK, TogetherAfterHandshake,
     TogetherGettingReady, TogetherMeasuring, TogetherAtTheEnd
<1> QED
  BY <1>1, <1>2, <1>3, <1>4, <1>5

\* The client says that it is ready.
LEMMA SendReadyStep ==
  ASSUME Inductive, SendReady
  PROVE  Inductive'
<1> USE DEF Inductive, Lockstep, SendReady, GoCall, Call, FirstStep
<1>1. TypeOK'
  BY ControlAssumption DEF TypeOK, ChannelTypeOK, Served, Stage, Text, Message, Kind, Step
<1>2. SidesOK'
  BY DEF TypeOK, ChannelTypeOK, SidesOK, CallOK, PortOK, AtOK, ComboStage, Stage
<1>3. ServerOK' /\ RightServer' /\ ResultsAsNamed'
  BY MatchedAssumption DEF TypeOK, ChannelTypeOK, SidesOK, CallOK, ServerOK, RightServer,
     ResultsAsNamed, ComboAt, TogetherGettingReady, TogetherMeasuring
<1>4. /\ TogetherBeforeHandshake'
      /\ TogetherInHandshake'
      /\ TogetherAfterHandshake'
  BY DEF TypeOK, ChannelTypeOK, SidesOK, CallOK, PortOK, ServerOK, TogetherBeforeHandshake,
     TogetherInHandshake, TogetherAfterHandshake, TogetherMeasuring
<1>5. TogetherGettingReady' /\ TogetherMeasuring' /\ TogetherAtTheEnd'
  BY DEF TypeOK, ChannelTypeOK, SidesOK, CallOK, PortOK, ServerOK, TogetherAfterHandshake,
     TogetherGettingReady, TogetherMeasuring, TogetherAtTheEnd
<1> QED
  BY <1>1, <1>2, <1>3, <1>4, <1>5

\* The client waits for the server to be ready.
LEMMA AwaitServerStep ==
  ASSUME Inductive, AwaitServer
  PROVE  Inductive'
<1> USE DEF Inductive, Lockstep, AwaitServer, GoCall, Call, FirstStep
<1>1. TypeOK'
  BY ControlAssumption DEF TypeOK, ChannelTypeOK, Served, Stage, Text, Message, Kind, Step
<1>2. SidesOK'
  BY DEF TypeOK, ChannelTypeOK, SidesOK, CallOK, PortOK, AtOK, ComboStage, Stage
<1>3. ServerOK' /\ RightServer' /\ ResultsAsNamed'
  BY MatchedAssumption DEF TypeOK, ChannelTypeOK, SidesOK, CallOK, ServerOK, RightServer,
     ResultsAsNamed, ComboAt, TogetherGettingReady, TogetherMeasuring
<1>4. /\ TogetherBeforeHandshake'
      /\ TogetherInHandshake'
      /\ TogetherAfterHandshake'
  BY DEF TypeOK, ChannelTypeOK, SidesOK, CallOK, PortOK, ServerOK, TogetherBeforeHandshake,
     TogetherInHandshake, TogetherAfterHandshake, TogetherMeasuring
<1>5. TogetherGettingReady' /\ TogetherMeasuring' /\ TogetherAtTheEnd'
  BY DEF TypeOK, ChannelTypeOK, SidesOK, CallOK, PortOK, ServerOK, TogetherAfterHandshake,
     TogetherGettingReady, TogetherMeasuring, TogetherAtTheEnd
<1> QED
  BY <1>1, <1>2, <1>3, <1>4, <1>5

\* The client has heard that the server is ready.
LEMMA AnsweredStep ==
  ASSUME Inductive, Answered
  PROVE  Inductive'
<1> USE DEF Inductive, Lockstep, Returned
<1>e. Goto("client", "test") /\ Returned("client", "await_ready")
      /\ fail_counter' = 0 /\ UNCHANGED <<at, sserver, server_pid, others, results>>
  BY DEF Answered, TogetherGettingReady, Goto
<1> USE DEF Goto
<1>1. ChannelTypeOK'
  BY <1>e DEF TypeOK, ChannelTypeOK, Text, Message, Kind, Step
<1>2. TypeOK'
  BY ControlAssumption, <1>1, <1>e DEF TypeOK, Served, Stage
<1>3. SidesOK'
  BY <1>e DEF TypeOK, ChannelTypeOK, SidesOK, CallOK, PortOK, AtOK, ComboStage, Stage
<1>4. ServerOK' /\ RightServer' /\ ResultsAsNamed'
  BY MatchedAssumption, <1>e DEF TypeOK, ChannelTypeOK, SidesOK, CallOK, ServerOK, RightServer,
     ResultsAsNamed, ComboAt, TogetherGettingReady, TogetherMeasuring
<1>5. /\ TogetherBeforeHandshake'
      /\ TogetherInHandshake'
      /\ TogetherAfterHandshake'
  BY <1>e DEF TypeOK, ChannelTypeOK, SidesOK, CallOK, PortOK, ServerOK, TogetherBeforeHandshake,
     TogetherInHandshake, TogetherAfterHandshake, TogetherMeasuring
<1>6. TogetherGettingReady' /\ TogetherMeasuring' /\ TogetherAtTheEnd'
  BY <1>e DEF TypeOK, ChannelTypeOK, SidesOK, CallOK, PortOK, ServerOK, TogetherAfterHandshake,
     TogetherGettingReady, TogetherMeasuring, TogetherAtTheEnd
<1> QED
  BY <1>2, <1>3, <1>4, <1>5, <1>6

\* s_time succeeds.
LEMMA TestSucceedsStep ==
  ASSUME Inductive, TestSucceeds
  PROVE  Inductive'
<1> USE DEF Inductive, Lockstep, TestSucceeds, Truncated, GoCall, Call, FirstStep
<1>e. sserver \in Served /\ at["client"] \in Position
  BY DEF TypeOK
<1>f. [at |-> at["client"], served |-> sserver] \in [at : Position, served : Served]
  BY <1>e
<1>g. Truncated \subseteq [at : Position, served : Served]
  BY DEF TypeOK
<1>1. TypeOK'
  BY ControlAssumption, <1>e, <1>f, <1>g DEF TypeOK, ChannelTypeOK, Served, Stage, Text, Message, Kind, Step
<1>2. SidesOK'
  BY <1>e, <1>f, <1>g DEF TypeOK, ChannelTypeOK, SidesOK, CallOK, PortOK, AtOK, ComboStage, Stage
<1>3. ServerOK'
  BY <1>e, <1>f, <1>g DEF TypeOK, ChannelTypeOK, SidesOK, CallOK, PortOK, ServerOK, ComboAt, TogetherBeforeHandshake, TogetherInHandshake, TogetherAfterHandshake, TogetherGettingReady, TogetherMeasuring, TogetherAtTheEnd
<1>4. RightServer'
  BY MatchedAssumption, <1>e, <1>f, <1>g DEF TypeOK, ChannelTypeOK, SidesOK, CallOK, RightServer, ServerOK, TogetherGettingReady, TogetherMeasuring, ComboAt
<1>5. ResultsAsNamed'
  <2>1. sserver = Combos["client"][at["client"].type][at["client"].k]
    BY DEF RightServer, ComboAt
  <2>2. SUFFICES ASSUME NEW r \in results'
                 PROVE  r.served = Combos["client"][r.at.type][r.at.k]
    BY DEF ResultsAsNamed, ComboAt
  <2>3. CASE r \in results
    BY <2>3 DEF ResultsAsNamed, ComboAt
  <2>4. CASE r = [at |-> at["client"], served |-> sserver]
    BY <2>1, <2>4
  <2> QED
    BY <2>3, <2>4
<1>6. /\ TogetherBeforeHandshake'
      /\ TogetherInHandshake'
      /\ TogetherAfterHandshake'
  BY <1>e, <1>f, <1>g DEF TypeOK, ChannelTypeOK, SidesOK, CallOK, PortOK, ServerOK, TogetherBeforeHandshake,
     TogetherInHandshake, TogetherAfterHandshake, TogetherMeasuring
<1>7. TogetherGettingReady' /\ TogetherMeasuring' /\ TogetherAtTheEnd'
  BY <1>e, <1>f, <1>g DEF TypeOK, ChannelTypeOK, SidesOK, CallOK, PortOK, ServerOK, TogetherAfterHandshake,
     TogetherGettingReady, TogetherMeasuring, TogetherAtTheEnd
<1> QED
  BY <1>1, <1>2, <1>3, <1>4, <1>5, <1>6, <1>7

\* s_time fails, and is tried again.
LEMMA TestFailsStep ==
  ASSUME Inductive, TestFails
  PROVE  Inductive'
<1> USE DEF Inductive, Lockstep, TestFails, Truncated
<1>e. fail_counter + 1 \in 0..FailLimit
  BY ControlAssumption DEF TypeOK
<1>f. results' \subseteq results
  OBVIOUS
<1>1. TypeOK'
  BY ControlAssumption, <1>e, <1>f DEF TypeOK, ChannelTypeOK, Served, Stage, Text, Message, Kind, Step
<1>2. SidesOK'
  BY <1>e, <1>f DEF TypeOK, ChannelTypeOK, SidesOK, CallOK, PortOK, AtOK, ComboStage, Stage
<1>3. ServerOK' /\ RightServer' /\ ResultsAsNamed'
  BY MatchedAssumption, <1>e, <1>f DEF TypeOK, ChannelTypeOK, SidesOK, CallOK, ServerOK, RightServer,
     ResultsAsNamed, ComboAt, TogetherGettingReady, TogetherMeasuring
<1>4. /\ TogetherBeforeHandshake'
      /\ TogetherInHandshake'
      /\ TogetherAfterHandshake'
  BY <1>e, <1>f DEF TypeOK, ChannelTypeOK, SidesOK, CallOK, PortOK, ServerOK, TogetherBeforeHandshake,
     TogetherInHandshake, TogetherAfterHandshake, TogetherMeasuring
<1>5. TogetherGettingReady' /\ TogetherMeasuring' /\ TogetherAtTheEnd'
  BY <1>e, <1>f DEF TypeOK, ChannelTypeOK, SidesOK, CallOK, PortOK, ServerOK, TogetherAfterHandshake,
     TogetherGettingReady, TogetherMeasuring, TogetherAtTheEnd
<1> QED
  BY <1>1, <1>2, <1>3, <1>4, <1>5

\* s_time has failed too often.
LEMMA GiveUpStep ==
  ASSUME Inductive, GiveUp
  PROVE  Inductive'
<1> USE DEF Inductive, Lockstep, GiveUp, Truncated, GoCall, Call, FirstStep
<1>f. results' \subseteq results
  OBVIOUS
<1>1. TypeOK'
  BY ControlAssumption, <1>f DEF TypeOK, ChannelTypeOK, Served, Stage, Text, Message, Kind, Step
<1>2. SidesOK'
  BY <1>f DEF TypeOK, ChannelTypeOK, SidesOK, CallOK, PortOK, AtOK, ComboStage, Stage
<1>3. ServerOK' /\ RightServer' /\ ResultsAsNamed'
  BY MatchedAssumption, <1>f DEF TypeOK, ChannelTypeOK, SidesOK, CallOK, ServerOK, RightServer,
     ResultsAsNamed, ComboAt, TogetherGettingReady, TogetherMeasuring
<1>4. /\ TogetherBeforeHandshake'
      /\ TogetherInHandshake'
      /\ TogetherAfterHandshake'
  BY <1>f DEF TypeOK, ChannelTypeOK, SidesOK, CallOK, PortOK, ServerOK, TogetherBeforeHandshake,
     TogetherInHandshake, TogetherAfterHandshake, TogetherMeasuring
<1>5. TogetherGettingReady' /\ TogetherMeasuring' /\ TogetherAtTheEnd'
  BY <1>f DEF TypeOK, ChannelTypeOK, SidesOK, CallOK, PortOK, ServerOK, TogetherAfterHandshake,
     TogetherGettingReady, TogetherMeasuring, TogetherAtTheEnd
<1> QED
  BY <1>1, <1>2, <1>3, <1>4, <1>5

\* The client starts the combination over.
LEMMA TryAgainStep ==
  ASSUME Inductive, TryAgain
  PROVE  Inductive'
<1> USE DEF Inductive, Lockstep, TryAgain, Handshake, GoCall, Call, FirstStep
<1>1. TypeOK'
  BY ControlAssumption DEF TypeOK, ChannelTypeOK, Served, Stage, Text, Message, Kind, Step
<1>2. SidesOK'
  BY DEF TypeOK, ChannelTypeOK, SidesOK, CallOK, PortOK, AtOK, ComboStage, Stage
<1>3. ServerOK' /\ RightServer' /\ ResultsAsNamed'
  BY MatchedAssumption DEF TypeOK, ChannelTypeOK, SidesOK, CallOK, ServerOK, RightServer,
     ResultsAsNamed, ComboAt, TogetherGettingReady, TogetherMeasuring
<1>4. /\ TogetherBeforeHandshake'
      /\ TogetherInHandshake'
      /\ TogetherAfterHandshake'
  BY DEF TypeOK, ChannelTypeOK, SidesOK, CallOK, PortOK, ServerOK, TogetherBeforeHandshake,
     TogetherInHandshake, TogetherAfterHandshake, TogetherMeasuring
<1>5. TogetherGettingReady' /\ TogetherMeasuring' /\ TogetherAtTheEnd'
  BY DEF TypeOK, ChannelTypeOK, SidesOK, CallOK, PortOK, ServerOK, TogetherAfterHandshake,
     TogetherGettingReady, TogetherMeasuring, TogetherAtTheEnd
<1> QED
  BY <1>1, <1>2, <1>3, <1>4, <1>5

\* The server has heard the verdict: it kills the s_server and goes on.
LEMMA JudgeStep ==
  ASSUME Inductive, Judge
  PROVE  Inductive'
<1> USE DEF Inductive, Lockstep, Judge, Call, FirstStep
<1>a. at["server"] \in Position /\ at["client"] \in Position
  BY DEF TypeOK, Side
<1>b. /\ NextAt("server", at["server"]) \in Position
      /\ NextAt("server", at["server"]).run >= 1
      /\ NextAt("server", at["server"]).k <= Len(Combos["server"][NextAt("server", at["server"]).type])
      /\ NextStage("server", at["server"]) = "sync" => NextAt("server", at["server"]).k >= 1
  BY <1>a, NextAtOK DEF SidesOK, AtOK, Side
<1>c. /\ NextStage("server", at["server"]) = NextStage("client", at["server"])
      /\ NextAt("server", at["server"]) = NextAt("client", at["server"])
      /\ NextStage("server", at["server"]) \in {"sync", "type", "done"}
  BY <1>a, NextFacts
<1>d. LET next == NextStage("server", at["server"])
          stays == next = "done" \/ (next = "sync" /\ "server" = "server")
      IN  /\ at' = [at EXCEPT !["server"] = NextAt("server", at["server"])]
          /\ stage' = [stage EXCEPT !["server"] =
                         IF next = "sync" /\ "server" = "server" THEN "reap" ELSE next]
          /\ stays => /\ step' = [step EXCEPT !["server"] = "idle"]
                      /\ UNCHANGED <<port, line, kind, message, signal_message>>
          /\ ~stays => Call("server", "iteration_handshake", "handshake_ready")
  BY <1>c, NextComboEffect DEF ServerOK
<1>1. ChannelTypeOK'
  BY <1>c, <1>d, CallTypeOK DEF TypeOK, ChannelTypeOK, Kind, Text, Message, Step
<1>2. TypeOK'
  BY ControlAssumption, <1>1, <1>a, <1>b, <1>c, <1>d DEF TypeOK, Served, Stage
<1>3. /\ stage'["server"] \in ServerStage /\ stage'["client"] \in ClientStage
      /\ CallOK("server")' /\ CallOK("client")'
  BY <1>a, <1>b, <1>c, <1>d DEF TypeOK, ChannelTypeOK, SidesOK, CallOK
<1>4. PortOK("server")' /\ PortOK("client")'
  BY <1>a, <1>b, <1>c, <1>d DEF TypeOK, ChannelTypeOK, SidesOK, CallOK, PortOK
<1>5. AtOK("server")' /\ AtOK("client")'
  BY <1>a, <1>b, <1>c, <1>d DEF TypeOK, SidesOK, AtOK, ComboStage, Stage
<1>6. SidesOK'
  BY <1>3, <1>4, <1>5 DEF SidesOK
<1>7. ServerOK' /\ RightServer' /\ ResultsAsNamed'
  BY MatchedAssumption, <1>a, <1>b, <1>c, <1>d DEF TypeOK, ChannelTypeOK, SidesOK, CallOK, ServerOK, RightServer,
     ResultsAsNamed, ComboAt, TogetherGettingReady, TogetherMeasuring
<1>8. TogetherBeforeHandshake'
  <2>1. CASE NextStage("server", at["server"]) = "sync"
    BY <2>1, <1>a, <1>b, <1>c, <1>d DEF TypeOK, ChannelTypeOK, SidesOK, CallOK, PortOK, ServerOK, TogetherBeforeHandshake, TogetherInHandshake, TogetherAfterHandshake, TogetherMeasuring
  <2>2. CASE NextStage("server", at["server"]) = "type"
    BY <2>2, <1>a, <1>b, <1>c, <1>d DEF TypeOK, ChannelTypeOK, SidesOK, CallOK, PortOK, ServerOK, TogetherBeforeHandshake, TogetherInHandshake, TogetherAfterHandshake, TogetherMeasuring
  <2>3. CASE NextStage("server", at["server"]) = "done"
    BY <2>3, <1>a, <1>b, <1>c, <1>d DEF TypeOK, ChannelTypeOK, SidesOK, CallOK, PortOK, ServerOK, TogetherBeforeHandshake, TogetherInHandshake, TogetherAfterHandshake, TogetherMeasuring
  <2> QED
    BY <2>1, <2>2, <2>3, <1>c
<1>9. TogetherInHandshake'
  <2>1. CASE NextStage("server", at["server"]) = "sync"
    BY <2>1, <1>a, <1>b, <1>c, <1>d DEF TypeOK, ChannelTypeOK, SidesOK, CallOK, PortOK, ServerOK, TogetherBeforeHandshake, TogetherInHandshake, TogetherAfterHandshake
  <2>2. CASE NextStage("server", at["server"]) = "type"
    BY <2>2, <1>a, <1>b, <1>c, <1>d DEF TypeOK, ChannelTypeOK, SidesOK, CallOK, PortOK, ServerOK, TogetherBeforeHandshake, TogetherInHandshake, TogetherAfterHandshake
  <2>3. CASE NextStage("server", at["server"]) = "done"
    BY <2>3, <1>a, <1>b, <1>c, <1>d DEF TypeOK, ChannelTypeOK, SidesOK, CallOK, PortOK, ServerOK, TogetherBeforeHandshake, TogetherInHandshake, TogetherAfterHandshake
  <2> QED
    BY <2>1, <2>2, <2>3, <1>c
<1>10. TogetherAfterHandshake'
  <2>1. CASE NextStage("server", at["server"]) = "sync"
    BY <2>1, <1>a, <1>b, <1>c, <1>d DEF TypeOK, ChannelTypeOK, SidesOK, CallOK, PortOK, ServerOK, TogetherBeforeHandshake, TogetherInHandshake, TogetherAfterHandshake
  <2>2. CASE NextStage("server", at["server"]) = "type"
    BY <2>2, <1>a, <1>b, <1>c, <1>d DEF TypeOK, ChannelTypeOK, SidesOK, CallOK, PortOK, ServerOK, TogetherBeforeHandshake, TogetherInHandshake, TogetherAfterHandshake
  <2>3. CASE NextStage("server", at["server"]) = "done"
    BY <2>3, <1>a, <1>b, <1>c, <1>d DEF TypeOK, ChannelTypeOK, SidesOK, CallOK, PortOK, ServerOK, TogetherBeforeHandshake, TogetherInHandshake, TogetherAfterHandshake
  <2> QED
    BY <2>1, <2>2, <2>3, <1>c
<1>11. TogetherGettingReady'
  <2>1. CASE NextStage("server", at["server"]) = "sync"
    BY <2>1, <1>a, <1>b, <1>c, <1>d DEF TypeOK, ChannelTypeOK, SidesOK, CallOK, PortOK, ServerOK, TogetherAfterHandshake, TogetherGettingReady
  <2>2. CASE NextStage("server", at["server"]) = "type"
    BY <2>2, <1>a, <1>b, <1>c, <1>d DEF TypeOK, ChannelTypeOK, SidesOK, CallOK, PortOK, ServerOK, TogetherAfterHandshake, TogetherGettingReady
  <2>3. CASE NextStage("server", at["server"]) = "done"
    BY <2>3, <1>a, <1>b, <1>c, <1>d DEF TypeOK, ChannelTypeOK, SidesOK, CallOK, PortOK, ServerOK, TogetherAfterHandshake, TogetherGettingReady
  <2> QED
    BY <2>1, <2>2, <2>3, <1>c
<1>12. TogetherMeasuring'
  <2>1. CASE NextStage("server", at["server"]) = "sync"
    BY <2>1, <1>a, <1>b, <1>c, <1>d DEF TypeOK, ChannelTypeOK, SidesOK, CallOK, PortOK, ServerOK, TogetherGettingReady, TogetherMeasuring
  <2>2. CASE NextStage("server", at["server"]) = "type"
    BY <2>2, <1>a, <1>b, <1>c, <1>d DEF TypeOK, ChannelTypeOK, SidesOK, CallOK, PortOK, ServerOK, TogetherGettingReady, TogetherMeasuring
  <2>3. CASE NextStage("server", at["server"]) = "done"
    BY <2>3, <1>a, <1>b, <1>c, <1>d DEF TypeOK, ChannelTypeOK, SidesOK, CallOK, PortOK, ServerOK, TogetherGettingReady, TogetherMeasuring
  <2> QED
    BY <2>1, <2>2, <2>3, <1>c
<1>13. TogetherAtTheEnd'
  <2>1. CASE NextStage("server", at["server"]) = "sync"
    BY <2>1, <1>a, <1>b, <1>c, <1>d DEF TypeOK, ChannelTypeOK, SidesOK, CallOK, PortOK, ServerOK, TogetherAfterHandshake, TogetherMeasuring, TogetherAtTheEnd
  <2>2. CASE NextStage("server", at["server"]) = "type"
    BY <2>2, <1>a, <1>b, <1>c, <1>d DEF TypeOK, ChannelTypeOK, SidesOK, CallOK, PortOK, ServerOK, TogetherAfterHandshake, TogetherMeasuring, TogetherAtTheEnd
  <2>3. CASE NextStage("server", at["server"]) = "done"
    BY <2>3, <1>a, <1>b, <1>c, <1>d DEF TypeOK, ChannelTypeOK, SidesOK, CallOK, PortOK, ServerOK, TogetherAfterHandshake, TogetherMeasuring, TogetherAtTheEnd
  <2> QED
    BY <2>1, <2>2, <2>3, <1>c
<1> QED
  BY <1>2, <1>6, <1>7, <1>8, <1>9, <1>10, <1>11, <1>12, <1>13

\* The client has reported a complete test, and goes on.
LEMMA ReportedStep ==
  ASSUME Inductive, Reported
  PROVE  Inductive'
<1> USE DEF Inductive, Lockstep, Reported, Call, FirstStep
<1>a. at["server"] \in Position /\ at["client"] \in Position
  BY DEF TypeOK, Side
<1>b. /\ NextAt("client", at["client"]) \in Position
      /\ NextAt("client", at["client"]).run >= 1
      /\ NextAt("client", at["client"]).k <= Len(Combos["client"][NextAt("client", at["client"]).type])
      /\ NextStage("client", at["client"]) = "sync" => NextAt("client", at["client"]).k >= 1
  BY <1>a, NextAtOK DEF SidesOK, AtOK, Side
<1>c. /\ NextStage("server", at["client"]) = NextStage("client", at["client"])
      /\ NextAt("server", at["client"]) = NextAt("client", at["client"])
      /\ NextStage("server", at["client"]) \in {"sync", "type", "done"}
  BY <1>a, NextFacts
<1>d. LET next == NextStage("client", at["client"])
          stays == next = "done" \/ (next = "sync" /\ "client" = "server")
      IN  /\ at' = [at EXCEPT !["client"] = NextAt("client", at["client"])]
          /\ stage' = [stage EXCEPT !["client"] =
                         IF next = "sync" /\ "client" = "server" THEN "reap" ELSE next]
          /\ stays => /\ step' = [step EXCEPT !["client"] = "idle"]
                      /\ UNCHANGED <<port, line, kind, message, signal_message>>
          /\ ~stays => Call("client", "iteration_handshake", "handshake_ready")
  BY <1>c, NextComboEffect
<1>1. ChannelTypeOK'
  BY <1>c, <1>d, CallTypeOK DEF TypeOK, ChannelTypeOK, Kind, Text, Message, Step
<1>2. TypeOK'
  BY ControlAssumption, <1>1, <1>a, <1>b, <1>c, <1>d DEF TypeOK, Served, Stage
<1>3. /\ stage'["server"] \in ServerStage /\ stage'["client"] \in ClientStage
      /\ CallOK("server")' /\ CallOK("client")'
  BY <1>a, <1>b, <1>c, <1>d DEF TypeOK, ChannelTypeOK, SidesOK, CallOK
<1>4. PortOK("server")' /\ PortOK("client")'
  BY <1>a, <1>b, <1>c, <1>d DEF TypeOK, ChannelTypeOK, SidesOK, CallOK, PortOK
<1>5. AtOK("server")' /\ AtOK("client")'
  BY <1>a, <1>b, <1>c, <1>d DEF TypeOK, SidesOK, AtOK, ComboStage, Stage
<1>6. SidesOK'
  BY <1>3, <1>4, <1>5 DEF SidesOK
<1>7. ServerOK' /\ RightServer' /\ ResultsAsNamed'
  BY MatchedAssumption, <1>a, <1>b, <1>c, <1>d DEF TypeOK, ChannelTypeOK, SidesOK, CallOK, ServerOK, RightServer,
     ResultsAsNamed, ComboAt, TogetherGettingReady, TogetherMeasuring
<1>8. TogetherBeforeHandshake' /\ TogetherAtTheEnd'
  <2>1. \/ at["server"] = at["client"] /\ Returned("server", "type")
        \/ at["server"] = at["client"] /\ stage["server"] = "await_status"
             /\ line["server"] \in {NoText, "complete"}
        \/ ServerFollows(at["client"]) /\ line["server"] = NoText
    BY DEF TogetherMeasuring
  <2> QED
    BY <2>1, <1>c, ClientMovesOn DEF TypeOK
<1>9. TogetherInHandshake'
  <2>1. CASE NextStage("client", at["client"]) = "sync"
    BY <2>1, <1>a, <1>b, <1>c, <1>d DEF TypeOK, ChannelTypeOK, SidesOK, CallOK, PortOK, ServerOK, TogetherBeforeHandshake, TogetherInHandshake, TogetherAfterHandshake
  <2>2. CASE NextStage("client", at["client"]) = "type"
    BY <2>2, <1>a, <1>b, <1>c, <1>d DEF TypeOK, ChannelTypeOK, SidesOK, CallOK, PortOK, ServerOK, TogetherBeforeHandshake, TogetherInHandshake, TogetherAfterHandshake
  <2>3. CASE NextStage("client", at["client"]) = "done"
    BY <2>3, <1>a, <1>b, <1>c, <1>d DEF TypeOK, ChannelTypeOK, SidesOK, CallOK, PortOK, ServerOK, TogetherBeforeHandshake, TogetherInHandshake, TogetherAfterHandshake
  <2> QED
    BY <2>1, <2>2, <2>3, <1>c
<1>10. TogetherAfterHandshake'
  <2>1. CASE NextStage("client", at["client"]) = "sync"
    BY <2>1, <1>a, <1>b, <1>c, <1>d DEF TypeOK, ChannelTypeOK, SidesOK, CallOK, PortOK, ServerOK, TogetherBeforeHandshake, TogetherInHandshake, TogetherAfterHandshake
  <2>2. CASE NextStage("client", at["client"]) = "type"
    BY <2>2, <1>a, <1>b, <1>c, <1>d DEF TypeOK, ChannelTypeOK, SidesOK, CallOK, PortOK, ServerOK, TogetherBeforeHandshake, TogetherInHandshake, TogetherAfterHandshake
  <2>3. CASE NextStage("client", at["client"]) = "done"
    BY <2>3, <1>a, <1>b, <1>c, <1>d DEF TypeOK, ChannelTypeOK, SidesOK, CallOK, PortOK, ServerOK, TogetherBeforeHandshake, TogetherInHandshake, TogetherAfterHandshake
  <2> QED
    BY <2>1, <2>2, <2>3, <1>c
<1>11. TogetherGettingReady'
  <2>1. CASE NextStage("client", at["client"]) = "sync"
    BY <2>1, <1>a, <1>b, <1>c, <1>d DEF TypeOK, ChannelTypeOK, SidesOK, CallOK, PortOK, ServerOK, TogetherAfterHandshake, TogetherGettingReady
  <2>2. CASE NextStage("client", at["client"]) = "type"
    BY <2>2, <1>a, <1>b, <1>c, <1>d DEF TypeOK, ChannelTypeOK, SidesOK, CallOK, PortOK, ServerOK, TogetherAfterHandshake, TogetherGettingReady
  <2>3. CASE NextStage("client", at["client"]) = "done"
    BY <2>3, <1>a, <1>b, <1>c, <1>d DEF TypeOK, ChannelTypeOK, SidesOK, CallOK, PortOK, ServerOK, TogetherAfterHandshake, TogetherGettingReady
  <2> QED
    BY <2>1, <2>2, <2>3, <1>c
<1>12. TogetherMeasuring'
  <2>1. CASE NextStage("client", at["client"]) = "sync"
    BY <2>1, <1>a, <1>b, <1>c, <1>d DEF TypeOK, ChannelTypeOK, SidesOK, CallOK, PortOK, ServerOK, TogetherGettingReady, TogetherMeasuring
  <2>2. CASE NextStage("client", at["client"]) = "type"
    BY <2>2, <1>a, <1>b, <1>c, <1>d DEF TypeOK, ChannelTypeOK, SidesOK, CallOK, PortOK, ServerOK, TogetherGettingReady, TogetherMeasuring
  <2>3. CASE NextStage("client", at["client"]) = "done"
    BY <2>3, <1>a, <1>b, <1>c, <1>d DEF TypeOK, ChannelTypeOK, SidesOK, CallOK, PortOK, ServerOK, TogetherGettingReady, TogetherMeasuring
  <2> QED
    BY <2>1, <2>2, <2>3, <1>c
<1> QED
  BY <1>2, <1>6, <1>7, <1>8, <1>9, <1>10, <1>11, <1>12

-----------------------------------------------------------------------------
(* The theorems.                                                           *)

\* The place where both scripts begin.
LEMMA StartPosition ==
  LET a == [run |-> 1, type |-> 0, k |-> 0]
  IN  /\ a \in Position
      /\ a.k <= Len(Combos["server"][a.type])
      /\ a.k <= Len(Combos["client"][a.type])
  BY ControlAssumption DEF Position, TestType

\* The invariant holds when both scripts have just been started, whatever
\* an earlier session has left on the port.
LEMMA InitInductive == Init => Inductive
<1> SUFFICES ASSUME Init PROVE Inductive
  OBVIOUS
<1> DEFINE start == [run |-> 1, type |-> 0, k |-> 0]
<1>a. at = [p \in Side |-> start]
  BY DEF Init
<1>b. /\ start \in Position /\ start.run >= 1 /\ start.k = 0
      /\ start.k <= Len(Combos["server"][start.type])
      /\ start.k <= Len(Combos["client"][start.type])
  BY StartPosition
<1>c. stage = [p \in Side |-> "entry"]
  BY DEF Init
<1> HIDE DEF start
<1>1. TypeOK
  <2>1. ChannelTypeOK
    BY DEF Init, ChannelInit, ChannelTypeOK, Text, Message, Kind, Step
  <2>2. at \in [Side -> Position] /\ stage \in [Side -> Stage]
    BY <1>a, <1>b, <1>c DEF Stage
  <2>3. sserver \in Served \cup {NoServer} /\ server_pid \in BOOLEAN /\ results = {}
    BY DEF Init, Served
  <2>4. others \in Nat /\ fail_counter \in 0..FailLimit
    BY ControlAssumption DEF Init
  <2> QED
    BY <2>1, <2>2, <2>3, <2>4 DEF TypeOK
<1>2. AtOK("server") /\ AtOK("client")
  BY <1>a, <1>b, <1>c DEF AtOK, ComboStage
<1> USE DEF Init, ChannelInit
<1>3. /\ CallOK("server") /\ CallOK("client")
      /\ PortOK("server") /\ PortOK("client")
  BY DEF CallOK, PortOK
<1>4. SidesOK
  BY <1>2, <1>3 DEF SidesOK
<1>5. ServerOK
  BY MatchedAssumption DEF ServerOK
<1>6. TogetherBeforeHandshake /\ TogetherInHandshake /\ TogetherAfterHandshake
  BY DEF TogetherBeforeHandshake, TogetherInHandshake, TogetherAfterHandshake
<1>7. TogetherGettingReady /\ TogetherMeasuring /\ TogetherAtTheEnd
  BY DEF TogetherGettingReady, TogetherMeasuring, TogetherAtTheEnd
<1>8. RightServer /\ ResultsAsNamed
  BY DEF RightServer, ResultsAsNamed
<1> QED
  BY <1>1, <1>4, <1>5, <1>6, <1>7, <1>8 DEF Inductive, Lockstep

\* A step that changes nothing keeps it.
LEMMA StutterStep ==
  ASSUME Inductive, UNCHANGED vars
  PROVE  Inductive'
<1> USE DEF Inductive, Lockstep, vars
<1>1. TypeOK'
  BY DEF TypeOK, ChannelTypeOK
<1>2. SidesOK'
  <2>1. AtOK("server")' /\ AtOK("client")'
    BY DEF SidesOK, AtOK
  <2>2. /\ CallOK("server")' /\ CallOK("client")'
        /\ PortOK("server")' /\ PortOK("client")'
    BY DEF SidesOK, CallOK, PortOK
  <2> QED
    BY <2>1, <2>2 DEF SidesOK
<1>3. ServerOK' /\ RightServer' /\ ResultsAsNamed'
  BY DEF ServerOK, RightServer, ResultsAsNamed, ComboAt
<1>4. TogetherBeforeHandshake' /\ TogetherInHandshake' /\ TogetherAfterHandshake'
  BY DEF TogetherBeforeHandshake, TogetherInHandshake, TogetherAfterHandshake
<1>5. TogetherGettingReady' /\ TogetherMeasuring' /\ TogetherAtTheEnd'
  BY DEF TogetherGettingReady, TogetherMeasuring, TogetherAtTheEnd
<1> QED
  BY <1>1, <1>2, <1>3, <1>4, <1>5

\* Every step of either script keeps it.
LEMMA NextInductive ==
  ASSUME Inductive, [Next]_vars
  PROVE  Inductive'
<1>1. CASE Server
  <2>1. CASE Signal("server")
    BY <2>1, ProbeServer, SleepServer, SendServer, ListenServer, ReceiveServer
       DEF Signal, Signalling
  <2>2. CASE Enter("server") \/ BeginRuns("server") \/ BeginType("server")
    BY <2>2, EnterServer, BeginRunsServer, BeginTypeServer
  <2>3. CASE Reap \/ AwaitReady \/ StartServer \/ ServerIsUp \/ AwaitStatus \/ Judge
    BY <2>3, ReapStep, AwaitReadyStep, StartServerStep, ServerIsUpStep, AwaitStatusStep, JudgeStep
  <2> QED
    BY <1>1, <2>1, <2>2, <2>3 DEF Server, Common
<1>2. CASE Client
  <2>1. CASE Signal("client")
    BY <2>1, ProbeClient, SleepClient, SendClient, ListenClient, ReceiveClient
       DEF Signal, Signalling
  <2>2. CASE Enter("client") \/ BeginRuns("client") \/ BeginType("client")
    BY <2>2, EnterClient, BeginRunsClient, BeginTypeClient
  <2>3. CASE \/ SendReady \/ AwaitServer \/ Answered
             \/ TestSucceeds \/ TestFails \/ GiveUp \/ Reported \/ TryAgain
    BY <2>3, SendReadyStep, AwaitServerStep, AnsweredStep, TestSucceedsStep,
       TestFailsStep, GiveUpStep, ReportedStep, TryAgainStep
  <2> QED
    BY <1>2, <2>1, <2>2, <2>3 DEF Client, Common
<1>3. CASE UNCHANGED vars
  BY <1>3, StutterStep
<1> QED
  BY <1>1, <1>2, <1>3 DEF Next

\* On two machines that were given the same lists and number of runs the
\* scripts stay in lockstep, for any lists and runs, with or without the
\* control sleep, and whichever handshakes or s_servers fail.
THEOREM LockstepHolds == Spec => []Inductive
<1>1. Init => Inductive
  BY InitInductive
<1>2. Inductive /\ [Next]_vars => Inductive'
  BY NextInductive
<1> QED
  BY <1>1, <1>2, PTL DEF Spec

\* Type correctness of the two scripts and their channel.
THEOREM TypeCorrect == Spec => []TypeOK
<1>1. Inductive => TypeOK
  BY DEF Inductive
<1> QED
  BY <1>1, LockstepHolds, PTL

\* s_time never measures an s_server of another combination, of an earlier
\* session or of a server script that has moved on.
THEOREM RightServerHolds == Spec => []RightServer
<1>1. Inductive => RightServer
  BY DEF Inductive
<1> QED
  BY <1>1, LockstepHolds, PTL

\* Every complete result file is the measurement of the combination it is
\* named after.
THEOREM ResultsAsNamedHolds == Spec => []ResultsAsNamed
<1>1. Inductive => ResultsAsNamed
  BY DEF Inductive
<1> QED
  BY <1>1, LockstepHolds, PTL

\* No step of either script replaces or kills the s_server while s_time
\* measures it.
THEOREM ServerStaysHolds == Spec => ServerStays
<1>1. Inductive /\ [Next]_vars => [Here("client", "test") => UNCHANGED sserver]_vars
  <2> SUFFICES ASSUME Inductive, [Next]_vars, stage["client"] = "test", sserver' # sserver
               PROVE  FALSE
    BY DEF Here
  <2>1. ServerOffers(at["client"])
    BY DEF Inductive, Lockstep, TogetherMeasuring
  <2>2. Reap \/ StartServer \/ Judge
    BY DEF Next, Server, Client, Common, Signal, Enter, BeginRuns, BeginType, AwaitReady,
       ServerIsUp, AwaitStatus, SendReady, AwaitServer, Answered, TestSucceeds, TestFails,
       GiveUp, Reported, TryAgain, vars
  <2> QED
    BY <2>1, <2>2 DEF Reap, StartServer, Judge
<1> QED
  BY <1>1, LockstepHolds, PTL DEF Spec, ServerStays

-----------------------------------------------------------------------------
(* The test plan: the numbers of the tests.                                *)

Tests == NumRun["client"] * PerRun("client")

Offered == IF server_pid THEN Before("server", at["server"]) + 1 ELSE 0

Measured ==
  IF stage["client"] = "done" THEN Tests
  ELSE Before("client", at["client"]) + (IF stage["client"] = "complete" THEN 1 ELSE 0)

\* A product grows with its first factor.
LEMMA ProductGrows ==
  ASSUME NEW r \in Nat, NEW n \in Nat, NEW c \in Nat, 1 <= r, r <= n
  PROVE  /\ (r - 1) * c \in Nat /\ r * c \in Nat /\ n * c \in Nat
         /\ (r - 1) * c + c = r * c
         /\ r * c <= n * c
<1>1. n - r \in Nat /\ r - 1 \in Nat
  OBVIOUS
<1>2. /\ (n - r) * c \in Nat /\ (r - 1) * c \in Nat /\ r * c \in Nat /\ n * c \in Nat
  BY <1>1
<1>3. n * c = r * c + (n - r) * c /\ (r - 1) * c + c = r * c
  OBVIOUS
<1> QED
  BY <1>2, <1>3

\* A place within a run, and the end of it.
LEMMA InRun ==
  ASSUME NEW d \in Nat, NEW c \in Nat, NEW m \in Nat,
         NEW s \in Nat, NEW k \in Nat, NEW l \in Nat
  PROVE  /\ k >= 1 /\ k <= l /\ s + l <= c /\ d + c <= m
              => d + s + (k - 1) \in Nat /\ d + s + (k - 1) < m
         /\ s + k = c /\ d + c = m => d + s + k = m
  OBVIOUS

\* The tests of a run that come before a test type.
Earlier(p, t) ==
  IF t = 0 THEN 0
  ELSE IF t = 1 THEN Len(Combos[p][0])
  ELSE Len(Combos[p][0]) + Len(Combos[p][1])

\* Before, in runs, test types and combinations.
LEMMA BeforeIs ==
  ASSUME NEW p \in Side, NEW a \in Position
  PROVE  Before(p, a) = (a.run - 1) * PerRun(p) + Earlier(p, a.type)
                          + (IF a.k = 0 THEN 0 ELSE a.k - 1)
<1>1. a.type = 0 \/ a.type = 1 \/ a.type = 2
  BY DEF Position, TestType
<1>2. 0 # 1 /\ 0 # 2 /\ 1 # 2
  OBVIOUS
<1>3. CASE a.type = 0
  BY <1>2, <1>3, Zenon DEF Before, Earlier
<1>4. CASE a.type = 1
  BY <1>2, <1>4, Zenon DEF Before, Earlier
<1>5. CASE a.type = 2
  BY <1>2, <1>5, Zenon DEF Before, Earlier
<1> QED
  BY <1>1, <1>3, <1>4, <1>5

\* The lists have lengths, and the tests of one type fit in a run.
LEMMA Lengths ==
  ASSUME NEW p \in Side, NEW a \in Position
  PROVE  /\ NumRun[p] \in Nat /\ PerRun(p) \in Nat
         /\ a.run \in Nat /\ a.k \in Nat /\ a.type \in 0..2
         /\ Len(Combos[p][a.type]) \in Nat /\ Earlier(p, a.type) \in Nat
         /\ Earlier(p, a.type) + Len(Combos[p][a.type]) <= PerRun(p)
         /\ a.type < 2 => /\ a.type + 1 \in TestType
                          /\ Earlier(p, a.type + 1)
                               = Earlier(p, a.type) + Len(Combos[p][a.type])
         /\ a.type = 2 => Earlier(p, 2) + Len(Combos[p][2]) = PerRun(p)
<1>1. /\ Len(Combos[p][0]) \in Nat /\ Len(Combos[p][1]) \in Nat /\ Len(Combos[p][2]) \in Nat
      /\ NumRun[p] \in Nat /\ a.run \in Nat /\ a.k \in Nat /\ a.type \in 0..2
  BY ControlAssumption DEF TestType, Position
<1> DEFINE x == Len(Combos[p][0])
           y == Len(Combos[p][1])
           z == Len(Combos[p][2])
<1>2. /\ Earlier(p, 0) = 0 /\ Earlier(p, 1) = x /\ Earlier(p, 2) = x + y
      /\ PerRun(p) = x + y + z
  BY DEF Earlier, PerRun
<1>3. 0 + 1 = 1 /\ 1 + 1 = 2 /\ 1 \in TestType /\ 2 \in TestType
  BY DEF TestType
<1>4. /\ x + y + z \in Nat /\ x + y \in Nat /\ 0 + x = x /\ 0 + x <= x + y + z
      /\ x + y <= x + y + z /\ (x + y) + z = x + y + z /\ (x + y) + z <= x + y + z
  <2>1. x \in Nat /\ y \in Nat /\ z \in Nat
    BY <1>1
  <2> HIDE DEF x, y, z
  <2> QED
    BY <2>1
<1> DEFINE e(t) == Earlier(p, t)
           l(t) == Len(Combos[p][t])
<1>5. CASE a.type = 0
  <2>1. l(a.type) = x /\ e(a.type) = 0 /\ e(a.type + 1) = x
    BY <1>2, <1>3, <1>5
  <2>2. a.type + 1 \in TestType /\ a.type # 2
    BY <1>3, <1>5
  <2>3. l(a.type) \in Nat /\ e(a.type) \in Nat
    BY <1>1, <2>1
  <2>4. e(a.type) + l(a.type) <= PerRun(p) /\ e(a.type + 1) = e(a.type) + l(a.type)
    <3> HIDE DEF x, y, z, e, l
    <3> QED
      BY <1>2, <1>4, <2>1
  <2> QED
    BY <1>1, <1>2, <1>4, <2>2, <2>3, <2>4
<1>6. CASE a.type = 1
  <2>1. l(a.type) = y /\ e(a.type) = x /\ e(a.type + 1) = x + y
    BY <1>2, <1>3, <1>6
  <2>2. a.type + 1 \in TestType /\ a.type # 2
    BY <1>3, <1>6
  <2>3. l(a.type) \in Nat /\ e(a.type) \in Nat
    BY <1>1, <2>1
  <2>4. e(a.type) + l(a.type) <= PerRun(p) /\ e(a.type + 1) = e(a.type) + l(a.type)
    <3> HIDE DEF x, y, z, e, l
    <3> QED
      BY <1>2, <1>4, <2>1
  <2> QED
    BY <1>1, <1>2, <1>4, <2>2, <2>3, <2>4
<1>7. CASE a.type = 2
  <2>1. l(a.type) = z /\ e(a.type) = x + y /\ l(2) = z /\ e(2) = x + y
    BY <1>2, <1>7
  <2>2. ~ (a.type < 2)
    BY <1>7
  <2>3. l(a.type) \in Nat /\ e(a.type) \in Nat
    BY <1>1, <1>4, <2>1
  <2>4. e(a.type) + l(a.type) <= PerRun(p) /\ e(2) + l(2) = PerRun(p)
    <3> HIDE DEF x, y, z, e, l
    <3> QED
      BY <1>2, <1>4, <2>1
  <2> QED
    BY <1>1, <1>2, <1>4, <2>2, <2>3, <2>4
<1> QED
  BY <1>1, <1>5, <1>6, <1>7

\* The number of a test is a number.
LEMMA BeforeNat ==
  ASSUME NEW p \in Side, NEW a \in Position, a.run >= 1
  PROVE  Before(p, a) \in Nat
<1> DEFINE c == PerRun(p)
           r == a.run
           d == (r - 1) * c
           s == Earlier(p, a.type)
           k == IF a.k = 0 THEN 0 ELSE a.k - 1
<1>1. c \in Nat /\ r \in Nat /\ a.k \in Nat /\ s \in Nat
  BY Lengths
<1>2. k \in Nat
  BY <1>1
<1>3. d \in Nat
  <2>1. 1 <= r /\ r <= r
    BY <1>1
  <2> HIDE DEF c, r
  <2> QED
    BY <1>1, <2>1, ProductGrows
<1>4. Before(p, a) = d + s + k
  BY BeforeIs
<1> HIDE DEF d, s, k
<1> QED
  BY <1>1, <1>2, <1>3, <1>4

\* A combination of the lists is one of the tests of the plan.
LEMMA InPlan ==
  ASSUME NEW p \in Side, NEW a \in Position,
         a.run >= 1, a.run <= NumRun[p], a.k >= 1, a.k <= Len(Combos[p][a.type])
  PROVE  /\ Before(p, a) \in Nat /\ NumRun[p] * PerRun(p) \in Nat
         /\ Before(p, a) < NumRun[p] * PerRun(p)
<1> DEFINE c == PerRun(p)
           n == NumRun[p]
           r == a.run
<1>1. /\ n \in Nat /\ c \in Nat /\ r \in Nat /\ a.k \in Nat
      /\ Len(Combos[p][a.type]) \in Nat /\ Earlier(p, a.type) \in Nat
      /\ Earlier(p, a.type) + Len(Combos[p][a.type]) <= c
  BY Lengths
<1> DEFINE d == (r - 1) * c
           m == n * c
           s == Earlier(p, a.type)
           l == Len(Combos[p][a.type])
<1>2. Before(p, a) = d + s + (a.k - 1)
  <2>1. a.k # 0
    BY <1>1
  <2> QED
    BY <1>1, <2>1, BeforeIs
<1>3. m \in Nat /\ d \in Nat /\ d + c <= m
  <2>1. 1 <= r /\ r <= n
    BY <1>1
  <2>2. d \in Nat /\ r * c \in Nat /\ m \in Nat /\ d + c = r * c /\ r * c <= m
    <3> HIDE DEF c, n, r
    <3> QED
      BY <1>1, <2>1, ProductGrows
  <2> HIDE DEF c, n, r, d, m
  <2> QED
    BY <2>2
<1>4. d + s + (a.k - 1) \in Nat /\ d + s + (a.k - 1) < m
  <2>1. s \in Nat /\ s + l <= c /\ a.k <= l /\ l \in Nat
    BY <1>1
  <2> HIDE DEF d, m, s, c, l
  <2> QED
    BY <1>1, <1>3, <2>1, InRun
<1> QED
  BY <1>2, <1>3, <1>4

\* Where the loops lead from a place: to the next test of the plan, or to its
\* end; and never to a run too many.
LEMMA NextInPlan ==
  ASSUME NEW p \in Side, NEW a \in Position,
         a.run >= 1, a.run <= NumRun[p], a.k <= Len(Combos[p][a.type])
  PROVE  LET after == Before(p, a) + (IF a.k = 0 THEN 0 ELSE 1)
         IN  /\ NextStage(p, a) # "done" => Before(p, NextAt(p, a)) = after
             /\ NextStage(p, a) = "done" => NumRun[p] * PerRun(p) = after
             /\ NextAt(p, a).run <= NumRun[p]
             /\ NextStage(p, a) = "type" => NextAt(p, a).k = 0
<1> DEFINE c == PerRun(p)
           n == NumRun[p]
           r == a.run
           b == NextAt(p, a)
           s == Earlier(p, a.type)
           l == Len(Combos[p][a.type])
           d == (r - 1) * c
           q == r * c
<1>1. /\ n \in Nat /\ c \in Nat /\ r \in Nat /\ a.k \in Nat /\ a.type \in 0..2
      /\ l \in Nat /\ s \in Nat /\ b \in Position
  BY Lengths, NextAtOK
<1>d. d \in Nat /\ d + c = q /\ q \in Nat
  <2>1. 1 <= r /\ r <= n
    BY <1>1
  <2> HIDE DEF c, n, r
  <2> QED
    BY <1>1, <2>1, ProductGrows
<1>2. Before(p, a) + (IF a.k = 0 THEN 0 ELSE 1) = d + s + a.k
  <2>1. Before(p, a) = d + s + (IF a.k = 0 THEN 0 ELSE a.k - 1)
    BY BeforeIs
  <2>2. CASE a.k = 0
    <3> HIDE DEF d, s
    <3> QED
      BY <1>1, <1>d, <2>1, <2>2
  <2>3. CASE a.k # 0
    <3>1. a.k - 1 \in Nat /\ a.k - 1 + 1 = a.k
      BY <1>1, <2>3
    <3> HIDE DEF d, s
    <3> QED
      BY <1>1, <1>d, <2>1, <2>3, <3>1
  <2> QED
    BY <2>2, <2>3
<1>3. Before(p, b) = (b.run - 1) * c + Earlier(p, b.type) + (IF b.k = 0 THEN 0 ELSE b.k - 1)
  BY <1>1, BeforeIs
<1>4. CASE ~Last(p, a)
  <2>1. b = [a EXCEPT !.k = @ + 1] /\ NextStage(p, a) = "sync"
    BY <1>4 DEF NextAt, NextStage
  <2>2. b.run = r /\ b.type = a.type /\ b.k = a.k + 1
    BY <2>1 DEF Position
  <2>3. b.k # 0 /\ b.k - 1 = a.k
    BY <1>1, <2>2
  <2>4. Before(p, b) = d + s + a.k
    BY <1>3, <2>2, <2>3
  <2> QED
    BY <1>2, <2>1, <2>2, <2>4
<1>5. CASE Last(p, a) /\ a.type < 2
  <2>1. b = [a EXCEPT !.type = @ + 1, !.k = 0]
    BY <1>5 DEF NextAt
  <2>2. NextStage(p, a) = "type"
    BY <1>5 DEF NextStage
  <2>3. b.run = r /\ b.type = a.type + 1 /\ b.k = 0
    BY <2>1 DEF Position
  <2>4. Earlier(p, b.type) = s + l /\ a.k = l
    BY <1>5, <2>3, Lengths DEF Last
  <2>5. Before(p, b) = d + (s + l) + 0
    BY <1>3, <2>3, <2>4
  <2>6. d + (s + l) + 0 = d + s + a.k
    <3> HIDE DEF d, s, l
    <3> QED
      BY <1>1, <1>d, <2>4
  <2> QED
    BY <1>1, <1>2, <2>2, <2>3, <2>5, <2>6
<1>6. CASE Last(p, a) /\ a.type = 2
  <2>1. s + a.k = c
    BY <1>6, Lengths DEF Last
  <2>2. d + s + a.k = q
    <3> HIDE DEF d, s, c, q
    <3> QED
      BY <1>1, <1>d, <2>1, InRun
  <2>3. CASE r < n
    <3>1. b = [run |-> r + 1, type |-> 0, k |-> 0] /\ NextStage(p, a) = "type"
      BY <1>6, <2>3 DEF NextAt, NextStage
    <3>2. b.run = r + 1 /\ b.type = 0 /\ b.k = 0
      BY <3>1
    <3>3. Earlier(p, b.type) = 0
      BY <3>2 DEF Earlier
    <3>4. (b.run - 1) * c = q
      BY <1>1, <3>2
    <3>5. Before(p, b) = q
      BY <1>1, <1>3, <3>2, <3>3, <3>4
    <3> QED
      <4>1. r + 1 <= n /\ NextStage(p, a) # "done"
        BY <1>1, <2>3, <3>1
      <4> QED
        BY <1>2, <2>2, <3>1, <3>2, <3>5, <4>1
  <2>4. CASE ~ (r < n)
    <3>1. b = a /\ NextStage(p, a) = "done"
      BY <1>6, <2>4 DEF NextAt, NextStage
    <3>2. r = n
      BY <1>1, <2>4
    <3> QED
      BY <1>2, <2>2, <3>1, <3>2
  <2> QED
    BY <2>3, <2>4
<1>7. a.type < 2 \/ a.type = 2
  BY <1>1
<1> QED
  BY <1>4, <1>5, <1>6, <1>7

-----------------------------------------------------------------------------
(* The test plan: its steps.                                               *)

\* Both sides number the tests alike.
LEMMA SameNumbers ==
  ASSUME NEW a \in Position
  PROVE  Before("server", a) = Before("client", a)
  BY MatchedAssumption DEF Before, PerRun

\* Where the sides are, in the lists.
LEMMA Places ==
  ASSUME Inductive, Planned, NEW p \in Side
  PROVE  /\ at[p] \in Position /\ at[p].run >= 1 /\ at[p].run <= NumRun[p]
         /\ at[p].k \in Nat /\ at[p].k <= Len(Combos[p][at[p].type])
         /\ stage[p] \in ComboStage => at[p].k >= 1
<1>1. at[p] \in Position
  BY DEF Inductive, TypeOK
<1>2. AtOK("server") /\ AtOK("client")
  BY DEF Inductive, Lockstep, SidesOK
<1>3. AtOK(p)
  BY <1>2 DEF Side
<1>4. at[p].run <= NumRun[p]
  BY DEF Planned
<1>5. at[p].k \in Nat
  BY <1>1 DEF Position
<1> QED
  BY <1>1, <1>3, <1>4, <1>5 DEF AtOK

\* A side that goes on stays within its runs.
LEMMA NextPlanned ==
  ASSUME Inductive, Planned, NEW p \in Side, NextCombo(p)
  PROVE  /\ at' = [at EXCEPT ![p] = NextAt(p, at[p])]
         /\ at'[p].run <= NumRun[p]
         /\ stage'[p] \in {"entry", "type"} => at'[p].k = 0
         /\ \A q \in Side \ {p} : stage'[q] = stage[q] /\ at'[q] = at[q]
         /\ stage'[p] \in {"reap", "sync", "type", "done"}
         /\ stage'[p] = "done" <=> NextStage(p, at[p]) = "done"
         /\ at'[p] = NextAt(p, at[p])
<1>1. /\ at[p] \in Position
      /\ NextAt(p, at[p]).run <= NumRun[p]
      /\ NextStage(p, at[p]) = "type" => NextAt(p, at[p]).k = 0
  BY Places, NextInPlan
<1>2. NextStage(p, at[p]) \in {"sync", "type", "done"}
  <2>1. /\ NextStage("server", at[p]) = NextStage("client", at[p])
        /\ NextStage("server", at[p]) \in {"sync", "type", "done"}
    BY <1>1, NextFacts
  <2>2. p = "server" \/ p = "client"
    BY DEF Side
  <2> QED
    BY <2>1, <2>2
<1>3. /\ at' = [at EXCEPT ![p] = NextAt(p, at[p])]
      /\ stage' = [stage EXCEPT ![p] = IF NextStage(p, at[p]) = "sync" /\ p = "server"
                                       THEN "reap" ELSE NextStage(p, at[p])]
  BY <1>2, NextComboEffect
<1>4. at \in [Side -> Position] /\ stage \in [Side -> Stage]
  BY DEF Inductive, TypeOK
<1> QED
  BY <1>1, <1>2, <1>3, <1>4

\* Steps in which a script only signals, waits or measures.
QuietServer ==
  \/ Signal("server") \/ Enter("server") \/ BeginRuns("server")
  \/ AwaitReady \/ ServerIsUp \/ AwaitStatus

QuietClient ==
  \/ Signal("client") \/ Enter("client") \/ BeginRuns("client")
  \/ SendReady \/ AwaitServer \/ Answered \/ TestFails \/ GiveUp \/ TryAgain

LEMMA QuietServerStep ==
  ASSUME Inductive, Planned, QuietServer
  PROVE  /\ UNCHANGED <<at, server_pid>> /\ stage'["client"] = stage["client"]
         /\ Planned'
<1>1. stage \in [Side -> Stage]
  BY DEF Inductive, TypeOK
<1>2. UNCHANGED <<at, server_pid, sserver>>
  BY DEF QuietServer, Signal, Enter, BeginRuns, AwaitReady, ServerIsUp, AwaitStatus
<1>3. \/ stage' = stage
      \/ stage["server"] = "entry" /\ stage' = [stage EXCEPT !["server"] = "entry"]
      \/ stage["server"] = "entry" /\ stage' = [stage EXCEPT !["server"] = "type"]
      \/ stage["server"] = "sync" /\ stage' = [stage EXCEPT !["server"] = "await_ready"]
      \/ /\ stage["server"] = "poll" /\ sserver # NoServer
         /\ stage' = [stage EXCEPT !["server"] = "send_ready"]
      \/ stage["server"] = "send_ready" /\ stage' = [stage EXCEPT !["server"] = "await_status"]
  BY DEF QuietServer, Signal, Enter, BeginRuns, AwaitReady, ServerIsUp, AwaitStatus,
         GoCall, Handshake, Here, Returned
<1>4. stage'["client"] = stage["client"]
  BY <1>1, <1>3 DEF Side
<1>5. \A p \in Side : stage'[p] \in {"entry", "type"} => stage[p] \in {"entry", "type"}
  BY <1>1, <1>3 DEF Side
<1>6. /\ server_pid => stage'["server"] \in {"poll", "send_ready", "await_status"}
      /\ stage'["server"] \in {"send_ready", "await_status"} => server_pid
      /\ stage'["server"] = "poll" /\ sserver # NoServer => server_pid
  BY <1>1, <1>3 DEF Planned, Side
<1> QED
  BY <1>2, <1>4, <1>5, <1>6 DEF Planned

LEMMA QuietClientStep ==
  ASSUME Inductive, Planned, QuietClient
  PROVE  /\ UNCHANGED <<at, server_pid>>
         /\ stage["client"] \notin {"complete", "done"} \/ stage' = stage
         /\ stage'["client"] \notin {"complete", "done"} \/ stage' = stage
         /\ Planned'
<1>1. stage \in [Side -> Stage]
  BY DEF Inductive, TypeOK
<1>2. UNCHANGED <<at, server_pid, sserver>>
  BY DEF QuietClient, Signal, Enter, BeginRuns, SendReady, AwaitServer, Answered, TestFails,
         GiveUp, TryAgain
<1>3. Answered => stage["client"] = "await_ready" /\ stage' = [stage EXCEPT !["client"] = "test"]
  <2>1. Answered => signal_message["client"] = "ready"
    BY DEF Answered, Inductive, Lockstep, TogetherGettingReady
  <2> QED
    BY <2>1 DEF Answered, Goto, Returned
<1>4. \/ stage' = stage
      \/ stage["client"] = "entry" /\ stage' = [stage EXCEPT !["client"] = "entry"]
      \/ stage["client"] = "entry" /\ stage' = [stage EXCEPT !["client"] = "type"]
      \/ stage["client"] = "sync" /\ stage' = [stage EXCEPT !["client"] = "send_ready"]
      \/ stage["client"] = "send_ready" /\ stage' = [stage EXCEPT !["client"] = "await_ready"]
      \/ stage["client"] = "await_ready" /\ stage' = [stage EXCEPT !["client"] = "test"]
      \/ stage["client"] = "test" /\ stage' = [stage EXCEPT !["client"] = "failed"]
      \/ stage["client"] = "failed" /\ stage' = [stage EXCEPT !["client"] = "sync"]
  <2>1. CASE Answered
    BY <1>3, <2>1
  <2>2. CASE Signal("client") \/ Enter("client") \/ BeginRuns("client") \/ SendReady
    BY <2>2 DEF Signal, Enter, BeginRuns, SendReady, GoCall, Handshake, Here, Returned
  <2>3. CASE AwaitServer \/ TestFails \/ GiveUp \/ TryAgain
    BY <2>3 DEF AwaitServer, TestFails, GiveUp, TryAgain, GoCall, Handshake, Here, Returned
  <2> QED
    BY <2>1, <2>2, <2>3 DEF QuietClient
<1>5. stage'["server"] = stage["server"]
  BY <1>1, <1>4 DEF Side
<1>6. \A p \in Side : stage'[p] \in {"entry", "type"} => stage[p] \in {"entry", "type"}
  BY <1>1, <1>4 DEF Side
<1>7. /\ stage["client"] \notin {"complete", "done"} \/ stage' = stage
      /\ stage'["client"] \notin {"complete", "done"} \/ stage' = stage
  BY <1>1, <1>4 DEF Side
<1>8. Planned'
  BY <1>2, <1>5, <1>6 DEF Planned
<1> QED
  BY <1>2, <1>7, <1>8

\* A step that neither moves a side in its lists, nor completes a test, nor
\* touches the s_server is none of the plan.
LEMMA QuietPlan ==
  ASSUME Inductive, Planned, QuietServer \/ QuietClient
  PROVE  UNCHANGED <<Offered, Measured>> /\ Planned'
<1>1. CASE QuietServer
  BY <1>1, QuietServerStep DEF Offered, Measured
<1>2. CASE QuietClient
  BY <1>2, QuietClientStep DEF Offered, Measured
<1> QED
  BY <1>1, <1>2

\* Where the client is when the server starts an s_server: at the same
\* combination, which it has not measured.
LEMMA ClientAtStart ==
  ASSUME Inductive, Returned("server", "await_ready")
  PROVE  stage["client"] \in {"send_ready", "await_ready"} /\ at["client"] = at["server"]
<1> USE DEF Inductive, Lockstep, NoText, HandshakeStage, SharedStage, ClientStage, Sending,
            Returned, InHandshake, Here
<1>1. stage["client"] \in ClientStage
  BY DEF SidesOK
<1>2. CASE stage["client"] \in HandshakeStage
  BY <1>2 DEF SidesOK, CallOK, TypeOK, ChannelTypeOK, Side, Step,
     TogetherBeforeHandshake, TogetherInHandshake, TogetherAfterHandshake,
     ServerAwaits, ServerBehind, ServerAnswers, ServerPassed, ServerFollows
<1>3. CASE stage["client"] \in {"test", "complete", "failed", "done"}
  BY <1>3 DEF SidesOK, CallOK, SendStage, TogetherMeasuring, TogetherAtTheEnd, ServerFollows,
     ServerAwaits, ServerOffers
<1>4. CASE stage["client"] \in {"send_ready", "await_ready"}
  BY <1>4 DEF SidesOK, CallOK, SendStage, WaitStage, TogetherGettingReady, ServerPassed,
     ServerFollows, ServerAwaits, ServerOffers
<1> QED
  BY <1>1, <1>2, <1>3, <1>4

\* Where it is when the server has the verdict: it has completed the test, and
\* it may have gone on to where the loops lead from there.
LEMMA ClientAtVerdict ==
  ASSUME Inductive, Returned("server", "await_status")
  PROVE  \/ stage["client"] = "complete" /\ at["client"] = at["server"]
         \/ /\ stage["client"] \in HandshakeStage
            /\ NextIs(stage["client"], at["client"])
         \/ /\ stage["client"] = "done"
            /\ NextStage("server", at["server"]) = "done"
<1> USE DEF Inductive, Lockstep, NoText, HandshakeStage, SharedStage, ClientStage, Sending,
            Returned, InHandshake, Here
<1>1. stage["client"] \in ClientStage
  BY DEF SidesOK
<1>2. CASE stage["client"] \in HandshakeStage
  BY <1>2 DEF SidesOK, CallOK, TypeOK, ChannelTypeOK, Side, Step,
     TogetherBeforeHandshake, TogetherInHandshake, TogetherAfterHandshake,
     ServerAwaits, ServerBehind, ServerAnswers, ServerPassed, ServerFollows
<1>3. CASE stage["client"] \in {"test", "complete", "failed", "done"}
  BY <1>3 DEF SidesOK, CallOK, SendStage, TogetherMeasuring, TogetherAtTheEnd, ServerFollows,
     ServerAwaits, ServerOffers
<1>4. CASE stage["client"] \in {"send_ready", "await_ready"}
  BY <1>4 DEF SidesOK, CallOK, SendStage, WaitStage, TogetherGettingReady, ServerPassed,
     ServerFollows, ServerAwaits, ServerOffers
<1> QED
  BY <1>1, <1>2, <1>3, <1>4

\* The server looks for old processes, and begins a test type.
LEMMA ServerMovesPlan ==
  ASSUME Inductive, Planned, Reap \/ BeginType("server")
  PROVE  UNCHANGED <<Offered, Measured>> /\ Planned'
<1>1. stage \in [Side -> Stage]
  BY DEF Inductive, TypeOK
<1>2. CASE Reap
  <2>1. ~ server_pid /\ ~ server_pid' /\ at' = at
    BY <1>2 DEF Reap, Here, Planned
  <2>2. stage' = [stage EXCEPT !["server"] = "sync"]
    BY <1>2 DEF Reap, Handshake, GoCall
  <2>3. stage'["server"] = "sync" /\ stage'["client"] = stage["client"]
    BY <1>1, <2>2 DEF Side
  <2>4. \A p \in Side : stage'[p] \in {"entry", "type"} => stage[p] \in {"entry", "type"}
    BY <2>3 DEF Side
  <2>5. UNCHANGED <<Offered, Measured>>
    BY <2>1, <2>3 DEF Offered, Measured
  <2> QED
    BY <2>1, <2>3, <2>4, <2>5 DEF Planned
<1>3. CASE BeginType("server")
  <2>1. ~ server_pid /\ ~ server_pid'
    BY <1>3 DEF BeginType, Returned, Planned
  <2>2. /\ at'["server"].run <= NumRun["server"]
        /\ stage'["server"] \in {"entry", "type"} => at'["server"].k = 0
        /\ stage'["client"] = stage["client"] /\ at'["client"] = at["client"]
        /\ stage'["server"] \in {"reap", "sync", "type", "done"}
    BY <1>3, NextPlanned DEF BeginType, Side
  <2>3. \A p \in Side : /\ at'[p].run <= NumRun[p]
                        /\ stage'[p] \in {"entry", "type"} => at'[p].k = 0
    BY <2>2 DEF Planned, Side
  <2>4. UNCHANGED <<Offered, Measured>>
    BY <2>1, <2>2 DEF Offered, Measured
  <2> QED
    BY <2>1, <2>2, <2>3, <2>4 DEF Planned
<1> QED
  BY <1>2, <1>3

\* The client goes on in its lists: what it has measured is what it had.
LEMMA ClientMovesPlan ==
  ASSUME Inductive, Planned, BeginType("client") \/ Reported
  PROVE  UNCHANGED <<Offered, Measured>> /\ Planned'
<1> DEFINE a == at["client"]
<1>1. NextCombo("client") /\ UNCHANGED <<sserver, server_pid>>
  BY DEF BeginType, Reported
<1>2. /\ at'["client"] = NextAt("client", a)
      /\ at'["client"].run <= NumRun["client"]
      /\ stage'["client"] \in {"entry", "type"} => at'["client"].k = 0
      /\ stage'["server"] = stage["server"] /\ at'["server"] = at["server"]
      /\ stage'["client"] \in {"reap", "sync", "type", "done"}
      /\ stage'["client"] = "done" <=> NextStage("client", a) = "done"
  BY <1>1, NextPlanned DEF Side
<1>3. Planned'
  <2>1. \A p \in Side : /\ at'[p].run <= NumRun[p]
                        /\ stage'[p] \in {"entry", "type"} => at'[p].k = 0
    BY <1>2 DEF Planned, Side
  <2> QED
    BY <1>1, <1>2, <2>1 DEF Planned
<1>4. Offered' = Offered
  BY <1>1, <1>2 DEF Offered
<1>5. /\ \/ stage["client"] = "type" /\ a.k = 0
         \/ stage["client"] = "complete" /\ a.k # 0
      /\ a \in Position /\ a.run >= 1 /\ a.run <= NumRun["client"]
      /\ a.k <= Len(Combos["client"][a.type])
  <2>1. BeginType("client") => stage["client"] = "type" /\ a.k = 0
    BY DEF BeginType, Returned, Planned, Side
  <2>2. Reported => stage["client"] = "complete" /\ stage["client"] \in ComboStage
    BY DEF Reported, Returned, ComboStage, Stage
  <2>3. /\ a \in Position /\ a.run >= 1 /\ a.run <= NumRun["client"] /\ a.k \in Nat
        /\ a.k <= Len(Combos["client"][a.type])
        /\ stage["client"] \in ComboStage => a.k >= 1
    BY Places DEF Side
  <2>4. Reported => a.k # 0
    BY <2>2, <2>3
  <2> QED
    BY <2>1, <2>2, <2>3, <2>4
<1>6. Measured = Before("client", a) + (IF a.k = 0 THEN 0 ELSE 1)
  BY <1>5 DEF Measured
<1>7. /\ NextStage("client", a) # "done" =>
           Before("client", NextAt("client", a)) = Before("client", a) + (IF a.k = 0 THEN 0 ELSE 1)
      /\ NextStage("client", a) = "done" =>
           Tests = Before("client", a) + (IF a.k = 0 THEN 0 ELSE 1)
  BY <1>5, NextInPlan DEF Side, Tests
<1>8. Measured' = IF stage'["client"] = "done" THEN Tests
                  ELSE Before("client", NextAt("client", a)) + 0
  BY <1>2 DEF Measured
<1>9. stage'["client"] # "done" => Before("client", NextAt("client", a)) \in Nat
  <2>1. NextAt("client", a) \in Position
    BY <1>5, NextAtOK DEF Side
  <2>2. NextAt("client", a).run >= 1
    BY <1>5, NextAtOK DEF Side
  <2> QED
    BY <2>1, <2>2, BeforeNat DEF Side
<1>10. Measured' = Measured
  <2>1. CASE stage'["client"] = "done"
    BY <1>2, <1>6, <1>7, <1>8, <2>1
  <2>2. CASE stage'["client"] # "done"
    <3>1. Before("client", NextAt("client", a)) + 0 = Before("client", NextAt("client", a))
      BY <1>9, <2>2
    <3> QED
      BY <1>2, <1>6, <1>7, <1>8, <2>2, <3>1
  <2> QED
    BY <2>1, <2>2
<1> QED
  BY <1>3, <1>4, <1>10

\* A test that succeeds is the one offered: the plan's Measure.
LEMMA TestSucceedsPlan ==
  ASSUME Inductive, Planned, TestSucceeds
  PROVE  /\ Offered = Measured + 1 /\ Measured' = Offered /\ Offered' = Offered
         /\ Planned'
<1> DEFINE a == at["client"]
<1>1. /\ stage["client"] = "test" /\ stage' = [stage EXCEPT !["client"] = "complete"]
      /\ UNCHANGED <<at, sserver, server_pid>>
  BY DEF TestSucceeds, GoCall, Here
<1>2. stage'["client"] = "complete" /\ stage'["server"] = stage["server"]
  BY <1>1 DEF Inductive, TypeOK, Side
<1>3. at["server"] = a /\ stage["server"] \in {"send_ready", "await_status"}
  BY <1>1 DEF Inductive, Lockstep, TogetherMeasuring, ServerOffers, Returned
<1>4. Planned'
  <2>1. \A p \in Side : /\ at'[p].run <= NumRun[p]
                        /\ stage'[p] \in {"entry", "type"} => at'[p].k = 0
    BY <1>1, <1>2 DEF Planned, Side
  <2> QED
    BY <1>1, <1>2, <2>1 DEF Planned
<1>5. Before("server", a) = Before("client", a) /\ Before("client", a) \in Nat
  BY Places, SameNumbers, BeforeNat DEF Side
<1>6. Offered = Before("client", a) + 1 /\ Offered' = Offered
  BY <1>1, <1>3, <1>5 DEF Offered, Planned
<1>7. Measured = Before("client", a) + 0 /\ Measured' = Before("client", a) + 1
  BY <1>1, <1>2 DEF Measured
<1> QED
  BY <1>4, <1>5, <1>6, <1>7

\* A server that starts offers the next test: the plan's Offer.
LEMMA StartServerPlan ==
  ASSUME Inductive, Planned, StartServer
  PROVE  /\ \/ UNCHANGED <<Offered, Measured>>
            \/ /\ Offered = 0 /\ Measured < Tests
               /\ Offered' = Measured + 1 /\ Measured' = Measured
         /\ Planned'
<1> DEFINE a == at["client"]
           up == sserver = NoServer /\ ComboAt("server", at["server"]) \notin Broken
<1>1. /\ Returned("server", "await_ready") /\ server_pid' = up
      /\ sserver' = IF up THEN ComboAt("server", at["server"]) ELSE sserver
      /\ stage' = [stage EXCEPT !["server"] = "poll"] /\ at' = at
  BY DEF StartServer, Goto
<1>2. stage'["server"] = "poll" /\ stage'["client"] = stage["client"]
  BY <1>1 DEF Inductive, TypeOK, Side
<1>3. stage["client"] \in {"send_ready", "await_ready"} /\ at["server"] = a
  BY <1>1, ClientAtStart
<1>4. ~ server_pid /\ sserver = NoServer /\ stage["server"] = "await_ready"
  BY <1>1 DEF Planned, Inductive, Lockstep, ServerOK, Returned
<1>5. Planned'
  <2>1. \A p \in Side : /\ at'[p].run <= NumRun[p]
                        /\ stage'[p] \in {"entry", "type"} => at'[p].k = 0
    BY <1>1, <1>2 DEF Planned, Side
  <2>2. sserver' # NoServer => server_pid'
    BY <1>1, <1>4
  <2> QED
    BY <1>2, <2>1, <2>2 DEF Planned
<1>6. /\ Before("server", a) = Before("client", a) /\ Before("client", a) \in Nat
      /\ Before("client", a) < Tests
  <2>1. /\ a \in Position /\ a.run >= 1 /\ a.run <= NumRun["client"]
        /\ a.k <= Len(Combos["client"][a.type])
        /\ stage["client"] \in ComboStage => a.k >= 1
    BY Places DEF Side
  <2>2. a.k >= 1
    BY <1>3, <2>1 DEF ComboStage, Stage
  <2> QED
    BY <2>1, <2>2, SameNumbers, InPlan DEF Side, Tests
<1>7. Measured = Before("client", a) + 0 /\ Measured' = Before("client", a) + 0
  BY <1>1, <1>2, <1>3 DEF Measured
<1>8. Offered = 0 /\ Offered' = IF up THEN Before("client", a) + 1 ELSE 0
  BY <1>1, <1>3, <1>4, <1>6 DEF Offered
<1> QED
  BY <1>5, <1>6, <1>7, <1>8

\* A server that has its verdict withdraws the test measured: the plan's
\* Withdraw.
LEMMA JudgePlan ==
  ASSUME Inductive, Planned, Judge
  PROVE  /\ Offered # 0 /\ Offered = Measured /\ Offered' = 0 /\ Measured' = Measured
         /\ Planned'
<1> DEFINE b == at["server"]
<1>1. Returned("server", "await_status") /\ signal_message["server"] = "complete"
  BY DEF Judge, Inductive, Lockstep, ServerOK
<1>2. server_pid /\ stage["server"] = "await_status"
  BY <1>1 DEF Planned, Returned
<1>3. NextCombo("server") /\ ~ server_pid' /\ sserver' = NoServer
  BY <1>1, <1>2 DEF Judge
<1>4. /\ at'["server"].run <= NumRun["server"]
      /\ stage'["server"] \in {"entry", "type"} => at'["server"].k = 0
      /\ stage'["client"] = stage["client"] /\ at'["client"] = at["client"]
      /\ stage'["server"] \in {"reap", "sync", "type", "done"}
  BY <1>3, NextPlanned DEF Side
<1>5. Planned'
  <2>1. \A p \in Side : /\ at'[p].run <= NumRun[p]
                        /\ stage'[p] \in {"entry", "type"} => at'[p].k = 0
    BY <1>4 DEF Planned, Side
  <2> QED
    BY <1>3, <1>4, <2>1 DEF Planned
<1>6. /\ b \in Position /\ b.run >= 1 /\ b.run <= NumRun["server"] /\ b.k \in Nat
      /\ b.k <= Len(Combos["server"][b.type]) /\ b.k >= 1
  <2>1. stage["server"] \in ComboStage
    BY <1>2 DEF ComboStage, Stage
  <2> QED
    BY <2>1, Places DEF Side
<1>7. /\ Before("server", b) = Before("client", b) /\ Before("server", b) \in Nat
      /\ NumRun["server"] * PerRun("server") = Tests
  BY <1>6, SameNumbers, BeforeNat, MatchedAssumption DEF Side, Tests, PerRun
<1>8. /\ NextStage("server", b) # "done" =>
           Before("server", NextAt("server", b)) = Before("server", b) + 1
      /\ NextStage("server", b) = "done" => Tests = Before("server", b) + 1
  <2>1. b.k # 0
    BY <1>6
  <2> QED
    BY <1>6, <1>7, <2>1, NextInPlan DEF Side
<1>9. Measured = Before("server", b) + 1
  <2>1. CASE stage["client"] = "complete" /\ at["client"] = b
    BY <1>7, <2>1 DEF Measured
  <2>2. CASE /\ stage["client"] \in HandshakeStage
             /\ NextIs(stage["client"], at["client"])
    <3>1. /\ stage["client"] \notin {"done", "complete"}
          /\ NextStage("server", b) # "done" /\ NextAt("server", b) = at["client"]
      BY <2>2 DEF HandshakeStage, NextIs
    <3>2. Before("client", at["client"]) = Before("server", at["client"])
      <4>1. at["client"] \in Position
        BY Places DEF Side
      <4> QED
        BY <4>1, SameNumbers
    <3>3. Measured = Before("client", at["client"]) + 0
      BY <3>1 DEF Measured
    <3> QED
      BY <1>7, <1>8, <3>1, <3>2, <3>3
  <2>3. CASE stage["client"] = "done" /\ NextStage("server", b) = "done"
    BY <1>8, <2>3 DEF Measured
  <2> QED
    BY <1>1, <2>1, <2>2, <2>3, ClientAtVerdict
<1>10. Offered = Before("server", b) + 1 /\ Offered' = 0
  BY <1>2, <1>3 DEF Offered
<1>11. Measured' = Measured
  BY <1>4 DEF Measured
<1> QED
  BY <1>5, <1>7, <1>9, <1>10, <1>11

\* Every step of the two scripts is one of the plan, or none.
LEMMA PlanStep ==
  ASSUME Inductive, Planned, [Next]_vars
  PROVE  [Plan!Next]_(Plan!plan) /\ Planned'
<1>1. CASE QuietServer \/ QuietClient \/ Reap \/ BeginType("server") \/ BeginType("client")
           \/ Reported
  <2>1. UNCHANGED <<Offered, Measured>> /\ Planned'
    BY <1>1, QuietPlan, ServerMovesPlan, ClientMovesPlan
  <2> QED
    BY <2>1 DEF Plan!plan, Offered, Measured, Tests
<1>2. CASE TestSucceeds
  BY <1>2, TestSucceedsPlan DEF Plan!Next, Plan!Measure, Plan!plan, Offered, Measured, Tests
<1>3. CASE StartServer
  BY <1>3, StartServerPlan DEF Plan!Next, Plan!Offer, Plan!plan, Offered, Measured, Tests
<1>4. CASE Judge
  BY <1>4, JudgePlan DEF Plan!Next, Plan!Withdraw, Plan!plan, Offered, Measured, Tests
<1>5. CASE UNCHANGED vars
  <2>1. UNCHANGED <<stage, at, sserver, server_pid>>
    BY <1>5 DEF vars
  <2>2. UNCHANGED <<Offered, Measured>> /\ Planned'
    BY <2>1 DEF Offered, Measured, Planned
  <2> QED
    BY <2>2 DEF Plan!plan, Offered, Measured, Tests
<1> QED
  BY <1>1, <1>2, <1>3, <1>4, <1>5 DEF Next, Server, Client, Common, QuietServer, QuietClient

\* The plan's first state.
LEMMA PlanInit ==
  ASSUME Init
  PROVE  Planned /\ Plan!Init
<1> DEFINE start == [run |-> 1, type |-> 0, k |-> 0]
<1>2. at["server"] = start /\ at["client"] = start /\ start \in Position
  BY StartPosition DEF Init, Side
<1>3. start.run = 1 /\ start.k = 0 /\ start.type = 0
  OBVIOUS
<1>4. stage["server"] = "entry" /\ stage["client"] = "entry" /\ ~ server_pid
  BY DEF Init, Side
<1> HIDE DEF start
<1>5. \A p \in Side : at[p].run <= NumRun[p] /\ at[p].k = 0
  BY <1>2, <1>3, ControlAssumption DEF Side
<1>6. Before("client", start) = 0
  <2>1. Before("client", start) = (1 - 1) * PerRun("client") + 0 + 0
    BY <1>2, <1>3, BeforeIs DEF Side, Earlier
  <2>2. PerRun("client") \in Nat
    BY <1>2, Lengths DEF Side
  <2> QED
    BY <2>1, <2>2
<1>7. Offered = 0 /\ Measured = 0
  BY <1>2, <1>4, <1>6 DEF Offered, Measured
<1> QED
  BY <1>4, <1>5, <1>7 DEF Planned, Plan!Init, Offered, Measured, Tests

\* The strengthened invariant, from which the test plan follows.
THEOREM InStepHolds == Spec => []InStep
<1>1. Init => Inductive /\ Planned
  BY InitInductive, PlanInit
<1>2. Inductive /\ Planned /\ [Next]_vars => Inductive' /\ Planned'
  BY NextInductive, PlanStep
<1>3. Inductive /\ Planned => InStep
  BY DEF InStep
<1> QED
  BY <1>1, <1>2, <1>3, PTL DEF Spec

\* The scripts implement the test plan: whatever the lists and the number of
\* runs, whichever attempts and s_servers fail, every combination of every run
\* is offered, measured while it is offered and withdrawn, in the order of the
\* loops, and none twice.
THEOREM PlanImplemented == Spec => ImplementsPlan
<1>1. Init => Inductive /\ Planned /\ Plan!Init
  BY InitInductive, PlanInit
<1>2. Inductive /\ Planned /\ [Next]_vars
        => Inductive' /\ Planned' /\ [Plan!Next]_(Plan!plan)
  BY NextInductive, PlanStep
<1> QED
  BY <1>1, <1>2, PTL DEF Spec, ImplementsPlan, Plan!Spec

-----------------------------------------------------------------------------
(* What has been sent with the control sleep has been delivered.           *)

\* A side that is about to send meets a listener that serves no other
\* connection.
Undisturbed ==
  \A p \in Side : step[p] = "send" => port[Peer(p)] # "draining"

Delivered ==
  \A p \in Side :
    step[p] = "send" /\ step'[p] # "send"
      => port[Peer(p)] = "listening" /\ line'[Peer(p)] = message[p]

\* What a script does outside of control_signal: it begins a call, leaves one,
\* or lets its channel alone.
OutsideSignal(p) ==
  /\ step[p] # "send"
  /\ \/ \E k \in Kind, m \in Text : Call(p, k, m)
     \/ step' = [step EXCEPT ![p] = "idle"] /\ UNCHANGED channel
     \/ UNCHANGED <<channel, step>>

LEMMA OutsideUndisturbed ==
  ASSUME TypeOK, Undisturbed, NEW p \in Side, OutsideSignal(p)
  PROVE  Undisturbed' /\ Delivered
<1>0. step \in [Side -> Step] /\ port \in [Side -> {"closed", "listening", "draining"}]
  BY DEF TypeOK, ChannelTypeOK
<1>1. CASE \E k \in Kind, m \in Text : Call(p, k, m)
  <2>1. /\ port' = [port EXCEPT ![p] = "closed"]
        /\ \/ step' = [step EXCEPT ![p] = "wait"]
           \/ step' = [step EXCEPT ![p] = "probe"]
    BY <1>1 DEF Call, FirstStep
  <2> QED
    BY <1>0, <2>1 DEF Undisturbed, Delivered, OutsideSignal, Side, Peer
<1>2. CASE step' = [step EXCEPT ![p] = "idle"] /\ UNCHANGED channel
  BY <1>0, <1>2 DEF Undisturbed, Delivered, OutsideSignal, Side, Peer, channel
<1>3. CASE UNCHANGED <<channel, step>>
  BY <1>3 DEF Undisturbed, Delivered, channel
<1> QED
  BY <1>1, <1>2, <1>3 DEF OutsideSignal

LEMMA SignalUndisturbed ==
  ASSUME TypeOK, SleepEnabled, Undisturbed, NEW p \in Side, Signal(p)
  PROVE  Undisturbed' /\ Delivered
<1>0. /\ step \in [Side -> Step] /\ line \in [Side -> Text]
      /\ port \in [Side -> {"closed", "listening", "draining"}]
  BY DEF TypeOK, ChannelTypeOK
<1>1. CASE Probe(p)
  <2>1. /\ step[p] = "probe" /\ step' = [step EXCEPT ![p] = "sleep"]
        /\ \A q \in Side \ {Peer(p)} : port'[q] = port[q]
    BY <1>0, <1>1 DEF Probe, Connect, channel
  <2> QED
    BY <1>0, <2>1 DEF Undisturbed, Delivered, Side, Peer
<1>2. CASE Sleep(p)
  BY <1>0, <1>2 DEF Sleep, Undisturbed, Delivered, Side, Peer, channel
<1>3. CASE Send(p)
  <2>1. port[Peer(p)] = "listening"
    BY <1>0, <1>3 DEF Send, Connect, Undisturbed, Side, Peer
  <2>2. /\ step[p] = "send" /\ step' = [step EXCEPT ![p] = AfterSend(p)]
        /\ AfterSend(p) \in {"wait", "returned"}
        /\ port' = [port EXCEPT ![Peer(p)] = "draining"]
        /\ line' = [line EXCEPT ![Peer(p)] = message[p]]
    BY <1>3, <2>1 DEF Send, Connect, AfterSend
  <2> QED
    BY <1>0, <2>1, <2>2 DEF Undisturbed, Delivered, Side, Peer
<1>4. CASE Listen(p) \/ Receive(p)
  <2>1. /\ step[p] = "wait" /\ step'[p] # "send"
        /\ \A q \in Side \ {p} : step'[q] = step[q] /\ port'[q] = port[q]
        /\ port'[p] # "draining"
    BY <1>0, <1>4 DEF Listen, Receive, AfterReceive, call, Side
  <2> QED
    BY <1>0, <2>1 DEF Undisturbed, Delivered, Side, Peer
<1> QED
  BY <1>1, <1>2, <1>3, <1>4 DEF Signal, Signalling

\* Every step of a script that is not one of control_signal is outside of it.
LEMMA StepOutside ==
  ASSUME [Next]_vars
  PROVE  (\E p \in Side : Signal(p) \/ OutsideSignal(p)) \/ UNCHANGED vars
<1> USE DEF Handshake, GoCall, Goto, Here, Returned, Side, Kind, Text, Message, NoText
<1>1. ASSUME NEW p \in Side, Enter(p) \/ BeginRuns(p)
      PROVE  OutsideSignal(p)
  BY <1>1 DEF Enter, BeginRuns, OutsideSignal
<1>2. ASSUME NEW p \in Side, NextCombo(p), step[p] # "send"
      PROVE  OutsideSignal(p)
  <2>1. CASE NextStage(p, at[p]) = "sync"
    BY <1>2, <2>1 DEF NextCombo, BeginCombo, OutsideSignal
  <2>2. CASE NextStage(p, at[p]) = "type"
    BY <1>2, <2>2 DEF NextCombo, OutsideSignal
  <2>3. CASE NextStage(p, at[p]) = "done"
    BY <1>2, <2>3 DEF NextCombo, OutsideSignal
  <2>4. NextStage(p, at[p]) \in {"sync", "type", "done"}
    BY Zenon DEF NextStage
  <2> QED
    BY <2>1, <2>2, <2>3, <2>4
<1>3. ASSUME NEW p \in Side, BeginType(p)
      PROVE  OutsideSignal(p)
  BY <1>2, <1>3 DEF BeginType
<1>4. Reap \/ AwaitReady \/ StartServer \/ ServerIsUp \/ AwaitStatus => OutsideSignal("server")
  BY DEF Reap, AwaitReady, StartServer, ServerIsUp, AwaitStatus, OutsideSignal
<1>5. Judge => OutsideSignal("server")
  <2>1. Judge => NextCombo("server") \/ Goto("server", "reap")
    BY DEF Judge
  <2>2. Judge => step["server"] # "send"
    BY DEF Judge
  <2>3. Goto("server", "reap") /\ step["server"] # "send" => OutsideSignal("server")
    BY DEF OutsideSignal
  <2> QED
    BY <1>2, <2>1, <2>2, <2>3
<1>6. SendReady \/ AwaitServer \/ TestSucceeds \/ GiveUp \/ TryAgain => OutsideSignal("client")
  BY DEF SendReady, AwaitServer, TestSucceeds, GiveUp, TryAgain, OutsideSignal
<1>7. Answered => OutsideSignal("client")
  BY DEF Answered, OutsideSignal
<1>8. TestFails => OutsideSignal("client")
  BY DEF TestFails, OutsideSignal, call
<1>9. Reported => OutsideSignal("client")
  BY <1>2 DEF Reported
<1> QED
  BY <1>1, <1>3, <1>4, <1>5, <1>6, <1>7, <1>8, <1>9 DEF Next, Server, Client, Common

\* With the control sleep, the loop around the sending netcat ends only when
\* the signal has reached a listener that hands it to the peer's script.
THEOREM SentIsDelivered ==
  ASSUME SleepEnabled
  PROVE  Spec => SentMeansDelivered
<1>1. Init => Undisturbed
  BY DEF Init, ChannelInit, Undisturbed, Side
<1>2. TypeOK /\ Undisturbed /\ [Next]_vars
        => Undisturbed' /\ [Delivered]_<<channel, call>>
  <2>1. SUFFICES ASSUME TypeOK, Undisturbed, [Next]_vars
                 PROVE  Undisturbed' /\ [Delivered]_<<channel, call>>
    OBVIOUS
  <2>2. CASE UNCHANGED vars
    BY <2>1, <2>2 DEF vars, Undisturbed, channel, call
  <2>3. ASSUME NEW p \in Side, Signal(p) \/ OutsideSignal(p)
        PROVE  Undisturbed' /\ Delivered
    BY <2>1, <2>3, SignalUndisturbed, OutsideUndisturbed
  <2> QED
    BY <2>1, <2>2, <2>3, StepOutside
<1> QED
  BY <1>1, <1>2, TypeCorrect, PTL DEF Spec, SentMeansDelivered, Delivered
=============================================================================
