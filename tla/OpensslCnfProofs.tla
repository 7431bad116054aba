-------------------------- MODULE OpensslCnfProofs --------------------------
(***************************************************************************)
(* Theorems about OpensslCnf, for any set of shells, any number of jobs,   *)
(* and whatever fails or is stopped.                                       *)
(***************************************************************************)
EXTENDS OpensslCnf, TLAPS

-----------------------------------------------------------------------------
(* The inductive invariant.                                                *)

\* What can be left of a script.
RestOfCommenting == {<<>>, <<"mode2">>, <<"work", "mode2">>, <<"mode1", "work", "mode2">>}
RestOfHandshake  ==
  {<<>>, <<"work">>, <<"mode2", "work">>, <<"work", "mode2", "work">>,
   <<"mode2", "work", "mode2", "work">>, <<"work", "mode2", "work", "mode2", "work">>,
   <<"mode2", "work", "mode2", "work", "mode2", "work">>}
Rest(j) == IF j = "handshake" THEN RestOfHandshake ELSE RestOfCommenting

Editing(s)    == Doing(s, "mode1") \/ Doing(s, "mode2")
Commenting(s) == Running(s) /\ job[s] # "handshake"

CnfShape ==
  /\ conf \in File /\ job \in [Shell -> Job] /\ edits \in [Shell -> 0..4]
  /\ todo = [s \in Shell |-> todo[s]] /\ copy = [s \in Shell |-> copy[s]]
  /\ \A s \in Shell : todo[s] \in Rest(job[s]) /\ copy[s] \in File \cup {Unread}
  /\ jobs \in 0..MaxJobs /\ cut \in BOOLEAN

\* Only a mode that is under way has edited, or read, the file.
BetweenModes == \A s \in Shell : ~Editing(s) => edits[s] = 0 /\ copy[s] = Unread

\* A script that comments the directives out runs alone, so that what its
\* sed invocation has read is still the file.
Alone ==
  \A s, t \in Shell :
    Commenting(s) => /\ copy[s] \in {conf, Unread}
                     /\ t # s => ~Running(t)

\* How far mode 1 has come, whatever it began with.
CommentedSoFar ==
  \A s \in Shell : Commenting(s) =>
    \A k \in 1..5 :
      Doing(s, "work") \/ (Doing(s, "mode1") /\ k <= edits[s]) => conf[Directive[k]] # 0

\* What the file is as long as every script has come to its end: the modes
\* of the running script turn 0 into 1 and 1 into 0, one directive after the
\* other.
Hashes(s, k) ==
  IF Doing(s, "mode1") THEN IF k <= edits[s] THEN 1 ELSE 0
  ELSE IF Doing(s, "work") THEN 1
  ELSE IF k <= edits[s] THEN 0 ELSE 1

Undisturbed ==
  ~cut =>
    /\ \A s \in Shell : Commenting(s) => \A k \in 1..5 : conf[Directive[k]] = Hashes(s, k)
    /\ (\A s \in Shell : ~Commenting(s)) =>
         conf = Active /\ \A s \in Shell : copy[s] \in {Active, Unread}

CnfInvariant ==
  CnfShape /\ BetweenModes /\ Alone /\ CommentedSoFar /\ Undisturbed

-----------------------------------------------------------------------------
(* Directives, and what is left of a script after a step.                  *)

LEMMA DirectiveFacts ==
  /\ \A k \in 1..5 : Directive[k] \in Directives
  /\ \A k, m \in 1..5 : Directive[k] = Directive[m] => k = m
  /\ \A d \in Directives : \E k \in 1..5 : d = Directive[k]
<1>1. /\ Directive[1] = "ssl_conf" /\ Directive[2] = "[ssl_sect]"
      /\ Directive[3] = "system_default" /\ Directive[4] = "[system_default_sect]"
      /\ Directive[5] = "Groups" /\ DOMAIN Directive = 1..5
  BY DEF Directive
<1>2. \A k, m \in 1..5 : Directive[k] = Directive[m] => k = m
  <2> HIDE DEF Directive
  <2> SUFFICES ASSUME NEW k \in 1..5, NEW m \in 1..5, Directive[k] = Directive[m]
               PROVE  k = m
    OBVIOUS
  <2>1. (k = 1 \/ k = 2 \/ k = 3 \/ k = 4 \/ k = 5) /\ (m = 1 \/ m = 2 \/ m = 3 \/ m = 4 \/ m = 5)
    OBVIOUS
  <2> QED
    BY <1>1, <2>1
<1> QED
  <2> HIDE DEF Directive
  <2> QED
    BY <1>1, <1>2 DEF Directives

LEMMA Lists ==
  /\ Head(<<"mode2">>) = "mode2" /\ Tail(<<"mode2">>) = <<>> /\ <<"mode2">> # <<>>
  /\ Head(<<"work">>) = "work" /\ Tail(<<"work">>) = <<>> /\ <<"work">> # <<>>
  /\ Head(<<"work", "mode2">>) = "work" /\ Tail(<<"work", "mode2">>) = <<"mode2">>
  /\ Head(<<"mode1", "work", "mode2">>) = "mode1"
  /\ Tail(<<"mode1", "work", "mode2">>) = <<"work", "mode2">>
  /\ Head(<<"mode2", "work">>) = "mode2" /\ Tail(<<"mode2", "work">>) = <<"work">>
  /\ Head(<<"work", "mode2", "work">>) = "work"
  /\ Tail(<<"work", "mode2", "work">>) = <<"mode2", "work">>
  /\ Head(<<"mode2", "work", "mode2", "work">>) = "mode2"
  /\ Tail(<<"mode2", "work", "mode2", "work">>) = <<"work", "mode2", "work">>
  /\ Head(<<"work", "mode2", "work", "mode2", "work">>) = "work"
  /\ Tail(<<"work", "mode2", "work", "mode2", "work">>) = <<"mode2", "work", "mode2", "work">>
  /\ Head(<<"mode2", "work", "mode2", "work", "mode2", "work">>) = "mode2"
  /\ Tail(<<"mode2", "work", "mode2", "work", "mode2", "work">>)
       = <<"work", "mode2", "work", "mode2", "work">>
  OBVIOUS

\* After mode 1 comes the work, after the work of a key generation or a speed
\* test mode 2, and after that nothing.
LEMMA Steps ==
  ASSUME NEW j \in Job, NEW r \in Rest(j), r # <<>>
  PROVE  /\ Tail(r) \in Rest(j)
         /\ j # "handshake" =>
              \/ Head(r) = "mode1" /\ Tail(r) # <<>> /\ Head(Tail(r)) = "work"
              \/ Head(r) = "work" /\ Tail(r) # <<>> /\ Head(Tail(r)) = "mode2"
              \/ Head(r) = "mode2" /\ Tail(r) = <<>>
         /\ j = "handshake" =>
              \/ Head(r) = "mode2" /\ Tail(r) # <<>> /\ Head(Tail(r)) = "work"
              \/ Head(r) = "work" /\ (Tail(r) # <<>> => Head(Tail(r)) = "mode2")
<1>1. CASE j # "handshake"
  <2>1. r \in RestOfCommenting
    BY <1>1 DEF Rest
  <2>2. CASE r = <<"mode2">>
    BY <1>1, <2>2, Lists DEF Rest, RestOfCommenting
  <2>3. CASE r = <<"work", "mode2">>
    BY <1>1, <2>3, Lists DEF Rest, RestOfCommenting
  <2>4. CASE r = <<"mode1", "work", "mode2">>
    <3>1. Tail(r) = <<"work", "mode2">> /\ <<"work", "mode2">> # <<>>
      BY <2>4
    <3> QED
      BY <1>1, <2>4, <3>1, Lists DEF Rest, RestOfCommenting
  <2> QED
    BY <2>1, <2>2, <2>3, <2>4 DEF RestOfCommenting
<1>2. CASE j = "handshake"
  <2>1. r \in RestOfHandshake
    BY <1>2 DEF Rest
  <2>2. CASE r = <<"work">>
    BY <1>2, <2>2, Lists DEF Rest, RestOfHandshake
  <2>3. CASE r = <<"mode2", "work">>
    BY <1>2, <2>3, Lists DEF Rest, RestOfHandshake
  <2>4. CASE r = <<"work", "mode2", "work">>
    BY <1>2, <2>4, Lists DEF Rest, RestOfHandshake
  <2>5. CASE r = <<"mode2", "work", "mode2", "work">>
    <3>1. Tail(r) = <<"work", "mode2", "work">> /\ <<"work", "mode2", "work">> # <<>>
      BY <2>5
    <3> QED
      BY <1>2, <2>5, <3>1, Lists DEF Rest, RestOfHandshake
  <2>6. CASE r = <<"work", "mode2", "work", "mode2", "work">>
    BY <1>2, <2>6, Lists DEF Rest, RestOfHandshake
  <2>7. CASE r = <<"mode2", "work", "mode2", "work", "mode2", "work">>
    <3>1. /\ Tail(r) = <<"work", "mode2", "work", "mode2", "work">>
          /\ <<"work", "mode2", "work", "mode2", "work">> # <<>>
      BY <2>7
    <3> QED
      BY <1>2, <2>7, <3>1, Lists DEF Rest, RestOfHandshake
  <2> QED
    BY <2>1, <2>2, <2>3, <2>4, <2>5, <2>6, <2>7 DEF RestOfHandshake
<1> QED
  BY <1>1, <1>2

\* What is left of a script is a list of modes and work.
LEMMA Sequences ==
  ASSUME NEW j \in Job, NEW r \in Rest(j)
  PROVE  r \in Seq({"mode1", "mode2", "work"})
<1>1. /\ <<>> \in Seq({"mode1", "mode2", "work"})
      /\ <<"mode2">> \in Seq({"mode1", "mode2", "work"})
      /\ <<"work", "mode2">> \in Seq({"mode1", "mode2", "work"})
      /\ <<"mode1", "work", "mode2">> \in Seq({"mode1", "mode2", "work"})
  OBVIOUS
<1>2. /\ <<"work">> \in Seq({"mode1", "mode2", "work"})
      /\ <<"mode2", "work">> \in Seq({"mode1", "mode2", "work"})
      /\ <<"work", "mode2", "work">> \in Seq({"mode1", "mode2", "work"})
      /\ <<"mode2", "work", "mode2", "work">> \in Seq({"mode1", "mode2", "work"})
      /\ <<"work", "mode2", "work", "mode2", "work">> \in Seq({"mode1", "mode2", "work"})
      /\ <<"mode2", "work", "mode2", "work", "mode2", "work">>
           \in Seq({"mode1", "mode2", "work"})
  OBVIOUS
<1> QED
  BY <1>1, <1>2, Zenon DEF Rest, RestOfCommenting, RestOfHandshake

LEMMA Scripts ==
  ASSUME NEW j \in Job
  PROVE  /\ Script(j) \in Rest(j) /\ Script(j) # <<>> /\ <<>> \in Rest(j)
         /\ Head(Script(j)) = IF j = "handshake" THEN "mode2" ELSE "mode1"
<1>1. /\ Script("keygen") = <<"mode1", "work", "mode2">>
      /\ Script("speed") = <<"mode1", "work", "mode2">>
      /\ Script("handshake") = <<"mode2", "work", "mode2", "work", "mode2", "work">>
  BY Zenon DEF Script
<1>2. CASE j # "handshake"
  <2>1. Script(j) = <<"mode1", "work", "mode2">>
    BY <1>1, <1>2 DEF Job
  <2>2. <<"mode1", "work", "mode2">> # <<>>
    OBVIOUS
  <2> QED
    BY <1>2, <2>1, <2>2, Lists DEF Rest, RestOfCommenting
<1>3. CASE j = "handshake"
  <2>1. <<"mode2", "work", "mode2", "work", "mode2", "work">> # <<>>
    OBVIOUS
  <2> QED
    BY <1>1, <1>3, <2>1, Lists DEF Rest, RestOfHandshake
<1> QED
  BY <1>2, <1>3

-----------------------------------------------------------------------------
(* One sed invocation.                                                     *)

LEMMA EditFacts ==
  ASSUME NEW d, NEW h \in Nat
  PROVE  /\ Edited("mode1", d, h) \in Nat /\ Edited("mode2", d, h) \in Nat
         /\ Edited("mode1", d, h) # 0
         /\ h = 0 => Edited("mode1", d, h) = 1 /\ Edited("mode2", d, h) = 0
         /\ h = 1 => Edited("mode2", d, h) = 0
  BY DEF Edited, Commented, Uncommented

LEMMA FileFacts ==
  ASSUME NEW c \in File, NEW k \in 1..5, NEW v \in Nat
  PROVE  LET new == [c EXCEPT ![Directive[k]] = v]
         IN  /\ new \in File
             /\ new[Directive[k]] = v
             /\ \A m \in 1..5 : m # k => new[Directive[m]] = c[Directive[m]]
<1>1. Directive[k] \in Directives /\ \A m \in 1..5 : Directive[m] \in Directives
  BY DirectiveFacts
<1>2. \A m \in 1..5 : m # k => Directive[m] # Directive[k]
  BY DirectiveFacts
<1> DEFINE d == Directive[k]
           new == [c EXCEPT ![d] = v]
<1>3. d \in Directives
  BY <1>1
<1>4. /\ new \in File /\ new[d] = v
      /\ \A e \in Directives : e # d => new[e] = c[e]
  <2> HIDE DEF d
  <2> QED
    BY <1>3 DEF File
<1> QED
  BY <1>1, <1>2, <1>4

\* A file is known by the hashes in front of the five directives.
LEMMA SameFile ==
  ASSUME NEW c \in File, \A k \in 1..5 : c[Directive[k]] = 0
  PROVE  c = Active
<1>1. \A d \in Directives : c[d] = 0
  BY DirectiveFacts
<1> QED
  BY <1>1 DEF File, Active

LEMMA ActiveFacts == Active \in File /\ \A k \in 1..5 : Active[Directive[k]] = 0
  BY DirectiveFacts DEF Active, File

-----------------------------------------------------------------------------
(* The steps.                                                              *)

\* What a script that runs is doing, and that a script which comments the
\* directives out is the only one running.
LEMMA Doings ==
  ASSUME CnfInvariant, NEW s \in Shell
  PROVE  /\ Doing(s, "mode1") => ~Doing(s, "mode2") /\ ~Doing(s, "work")
         /\ Doing(s, "mode2") => ~Doing(s, "work")
         /\ Running(s) => Doing(s, "mode1") \/ Doing(s, "mode2") \/ Doing(s, "work")
         /\ Doing(s, "mode1") => Commenting(s)
         /\ Running(s) /\ ~Commenting(s) => \A t \in Shell : ~Commenting(t)
         /\ Commenting(s) => \A t \in Shell : t # s => ~Running(t) /\ ~Commenting(t)
<1>1. job[s] \in Job /\ todo[s] \in Rest(job[s])
  BY DEF CnfInvariant, CnfShape
<1>2. Running(s) =>
        \/ Head(todo[s]) = "mode1" /\ job[s] # "handshake"
        \/ Head(todo[s]) = "mode2"
        \/ Head(todo[s]) = "work"
  BY <1>1, Steps DEF Running
<1> QED
  BY <1>2 DEF CnfInvariant, Alone, Commenting, Doing, Running

LEMMA InitHolds == ASSUME Init PROVE CnfInvariant
<1>1. CnfShape
  <2>1. conf \in File
    BY ActiveFacts DEF Init
  <2>2. "keygen" \in Job /\ <<>> \in Rest("keygen")
    BY Scripts DEF Job
  <2>3. job \in [Shell -> Job] /\ \A s \in Shell : job[s] = "keygen"
    BY <2>2 DEF Init
  <2>4. todo = [s \in Shell |-> todo[s]] /\ \A s \in Shell : todo[s] \in Rest(job[s])
    BY <2>2, <2>3 DEF Init
  <2>5. copy = [s \in Shell |-> copy[s]] /\ \A s \in Shell : copy[s] = Unread
    BY DEF Init
  <2>6. edits \in [Shell -> 0..4] /\ jobs \in 0..MaxJobs
    BY CnfAssumption DEF Init
  <2>7. cut \in BOOLEAN
    BY DEF Init
  <2> QED
    BY <2>1, <2>3, <2>4, <2>5, <2>6, <2>7 DEF CnfShape
<1>2. BetweenModes /\ Alone /\ CommentedSoFar /\ Undisturbed
  BY DEF Init, BetweenModes, Alone, CommentedSoFar, Undisturbed, Commenting, Running, Doing
<1> QED
  BY <1>1, <1>2 DEF CnfInvariant

LEMMA StartKeeps ==
  ASSUME CnfInvariant, NEW s \in Shell, NEW j \in Job, Start(s, j)
  PROVE  CnfInvariant'
<1>1. /\ jobs < MaxJobs /\ jobs' = jobs + 1 /\ ~Running(s)
      /\ \A t \in Shell : Running(t) => job[t] = "handshake" /\ j = "handshake"
      /\ conf' = conf /\ edits' = edits /\ copy' = copy /\ cut' = cut
  BY DEF Start
<1>2. /\ todo'[s] = Script(j) /\ job'[s] = j
      /\ \A t \in Shell : t # s => todo'[t] = todo[t] /\ job'[t] = job[t]
      /\ todo' = [t \in Shell |-> todo'[t]] /\ job' \in [Shell -> Job]
  BY DEF Start, CnfInvariant, CnfShape
<1>3. /\ Running(s)' /\ ~Editing(s) /\ ~Commenting(s)
      /\ IF j = "handshake" THEN Doing(s, "mode2")' ELSE Doing(s, "mode1")'
      /\ Commenting(s)' <=> j # "handshake"
  BY <1>1, <1>2, Scripts DEF Running, Doing, Editing, Commenting
<1>4. \A t \in Shell : t # s =>
        /\ Running(t)' = Running(t) /\ Editing(t)' = Editing(t)
        /\ ~Commenting(t)' /\ ~Commenting(t)
  BY <1>1, <1>2 DEF Running, Doing, Editing, Commenting
<1>5. edits[s] = 0 /\ copy[s] = Unread
  BY <1>3 DEF CnfInvariant, BetweenModes
<1>6. CnfShape'
  <2>1. \A t \in Shell : todo'[t] \in Rest(job'[t])
    BY <1>2, Scripts DEF CnfInvariant, CnfShape
  <2> QED
    BY <1>1, <1>2, <2>1, CnfAssumption DEF CnfInvariant, CnfShape
<1>7. BetweenModes'
  BY <1>1, <1>4, <1>5 DEF CnfInvariant, BetweenModes
<1>8. Alone'
  BY <1>1, <1>3, <1>4, <1>5 DEF Alone
<1>9. CommentedSoFar'
  <2>1. ASSUME Commenting(s)', NEW k \in 1..5
        PROVE  ~(Doing(s, "work") \/ (Doing(s, "mode1") /\ k <= edits[s]))'
    BY <1>1, <1>3, <1>5, <2>1 DEF Doing
  <2> QED
    BY <1>4, <2>1 DEF CommentedSoFar
<1>10. Undisturbed'
  <2> SUFFICES ASSUME ~cut
               PROVE  Undisturbed'
    BY <1>1 DEF Undisturbed
  <2>1. conf = Active /\ \A t \in Shell : copy[t] \in {Active, Unread}
    BY <1>3, <1>4 DEF CnfInvariant, Undisturbed
  <2>2. ASSUME Commenting(s)', NEW k \in 1..5
        PROVE  conf'[Directive[k]] = Hashes(s, k)'
    BY <1>1, <1>3, <1>5, <2>1, <2>2, ActiveFacts DEF Hashes
  <2> QED
    BY <1>1, <1>4, <2>1, <2>2 DEF Undisturbed
<1> QED
  BY <1>6, <1>7, <1>8, <1>9, <1>10 DEF CnfInvariant

LEMMA ReadKeeps ==
  ASSUME CnfInvariant, NEW s \in Shell, ReadConf(s)
  PROVE  CnfInvariant'
<1>1. /\ Editing(s) /\ conf' = conf /\ job' = job /\ todo' = todo /\ edits' = edits
      /\ jobs' = jobs /\ cut' = cut
  BY DEF ReadConf, Editing
<1>2. /\ copy'[s] = conf /\ \A t \in Shell : t # s => copy'[t] = copy[t]
      /\ copy' = [t \in Shell |-> copy'[t]]
  BY DEF ReadConf, CnfInvariant, CnfShape
<1>3. \A t \in Shell : /\ Running(t)' = Running(t) /\ Editing(t)' = Editing(t)
                        /\ Commenting(t)' = Commenting(t)
                        /\ \A what : Doing(t, what)' = Doing(t, what)
  BY <1>1 DEF Running, Doing, Editing, Commenting
<1>4. CnfShape'
  BY <1>1, <1>2 DEF CnfInvariant, CnfShape
<1>5. BetweenModes'
  BY <1>1, <1>2, <1>3 DEF CnfInvariant, BetweenModes
<1>6. Alone'
  BY <1>1, <1>2, <1>3 DEF CnfInvariant, Alone
<1>7. CommentedSoFar'
  BY <1>1, <1>3 DEF CnfInvariant, CommentedSoFar
<1>8. Undisturbed'
  <2>1. \A t \in Shell, k \in 1..5 : Hashes(t, k)' = Hashes(t, k)
    BY <1>1, <1>3 DEF Hashes
  <2> QED
    BY <1>1, <1>2, <1>3, <2>1 DEF CnfInvariant, Undisturbed
<1> QED
  BY <1>4, <1>5, <1>6, <1>7, <1>8 DEF CnfInvariant

LEMMA WorkKeeps ==
  ASSUME CnfInvariant, NEW s \in Shell, Work(s)
  PROVE  CnfInvariant'
<1>1. /\ Doing(s, "work") /\ conf' = conf /\ job' = job /\ edits' = edits /\ copy' = copy
      /\ jobs' = jobs /\ cut' = cut
  BY DEF Work
<1>2. /\ todo'[s] = Tail(todo[s]) /\ \A t \in Shell : t # s => todo'[t] = todo[t]
      /\ todo' = [t \in Shell |-> todo'[t]]
  BY DEF Work, CnfInvariant, CnfShape
<1>3. \A t \in Shell : t # s => /\ Running(t)' = Running(t) /\ Editing(t)' = Editing(t)
                                /\ Commenting(t)' = Commenting(t)
                                /\ \A what : Doing(t, what)' = Doing(t, what)
  BY <1>1, <1>2 DEF Running, Doing, Editing, Commenting
<1>4. ~Editing(s) /\ Running(s) /\ edits[s] = 0 /\ copy[s] = Unread
  BY <1>1 DEF Editing, Doing, CnfInvariant, BetweenModes
<1>5. job[s] \in Job /\ todo[s] \in Rest(job[s])
  BY DEF CnfInvariant, CnfShape
<1>6. /\ todo'[s] \in Rest(job[s])
      /\ Commenting(s) => Commenting(s)' /\ Doing(s, "mode2")'
      /\ ~Commenting(s) => ~Commenting(s)'
  BY <1>1, <1>2, <1>4, <1>5, Steps DEF Running, Doing, Commenting
<1>7. CnfShape'
  BY <1>1, <1>2, <1>6 DEF CnfInvariant, CnfShape
<1>8. BetweenModes'
  BY <1>1, <1>3, <1>4 DEF CnfInvariant, BetweenModes
<1>9. Alone'
  <2>1. CASE Commenting(s)
    BY <1>1, <1>3, <1>6, <2>1, Doings DEF CnfInvariant, Alone
  <2>2. CASE ~Commenting(s)
    BY <1>1, <1>3, <1>4, <1>6, <2>2, Doings DEF CnfInvariant, Alone
  <2> QED
    BY <2>1, <2>2
<1>10. CommentedSoFar'
  <2>1. Commenting(s)' => ~Doing(s, "mode1")' /\ ~Doing(s, "work")'
    BY <1>6 DEF Doing
  <2> QED
    BY <1>1, <1>3, <2>1 DEF CnfInvariant, CommentedSoFar
<1>11. Undisturbed'
  <2> SUFFICES ASSUME ~cut
               PROVE  Undisturbed'
    BY <1>1 DEF Undisturbed
  <2>1. CASE Commenting(s)
    <3>1. \A k \in 1..5 : conf[Directive[k]] = 1
      BY <1>1, <2>1 DEF CnfInvariant, Undisturbed, Hashes, Doing
    <3>2. \A k \in 1..5 : Hashes(s, k)' = 1
      BY <1>1, <1>4, <1>6, <2>1 DEF Hashes, Doing
    <3>3. \A t \in Shell : t # s => ~Commenting(t)'
      BY <1>3, <2>1, Doings
    <3> QED
      BY <1>1, <1>6, <2>1, <3>1, <3>2, <3>3 DEF Undisturbed
  <2>2. CASE ~Commenting(s)
    <3>1. \A t \in Shell : ~Commenting(t) /\ ~Commenting(t)'
      BY <1>3, <1>4, <1>6, <2>2, Doings
    <3> QED
      BY <1>1, <3>1 DEF CnfInvariant, Undisturbed
  <2> QED
    BY <2>1, <2>2
<1> QED
  BY <1>7, <1>8, <1>9, <1>10, <1>11 DEF CnfInvariant

\* A script that ends before its end leaves the file as it is.
LEMMA CutKeeps ==
  ASSUME CnfInvariant, NEW s \in Shell, SpeedTestFails(s) \/ Interrupt(s)
  PROVE  CnfInvariant'
<1>1. conf' = conf /\ job' = job /\ jobs' = jobs /\ cut' = TRUE
  BY DEF SpeedTestFails, Interrupt
<1>2. /\ todo'[s] = <<>> /\ \A t \in Shell : t # s => todo'[t] = todo[t]
      /\ todo' = [t \in Shell |-> todo'[t]]
  BY DEF SpeedTestFails, Interrupt, CnfInvariant, CnfShape
<1>3. /\ edits'[s] = 0 /\ copy'[s] = Unread
      /\ \A t \in Shell : t # s => edits'[t] = edits[t] /\ copy'[t] = copy[t]
      /\ edits' \in [Shell -> 0..4] /\ copy' = [t \in Shell |-> copy'[t]]
  <2>1. CASE SpeedTestFails(s)
    <3>1. ~Editing(s)
      BY <2>1 DEF SpeedTestFails, Editing, Doing
    <3>2. edits' = edits /\ copy' = copy
      BY <2>1 DEF SpeedTestFails
    <3>3. edits[s] = 0 /\ copy[s] = Unread
      BY <3>1 DEF CnfInvariant, BetweenModes
    <3> QED
      BY <3>2, <3>3 DEF CnfInvariant, CnfShape
  <2>2. CASE Interrupt(s)
    <3>1. edits' = [edits EXCEPT ![s] = 0] /\ copy' = [copy EXCEPT ![s] = Unread]
      BY <2>2 DEF Interrupt
    <3>2. edits \in [Shell -> 0..4] /\ copy = [t \in Shell |-> copy[t]]
      BY DEF CnfInvariant, CnfShape
    <3>3. /\ edits'[s] = 0 /\ \A t \in Shell : t # s => edits'[t] = edits[t]
          /\ edits' \in [Shell -> 0..4]
      BY <3>1, <3>2
    <3>4. /\ copy'[s] = Unread /\ \A t \in Shell : t # s => copy'[t] = copy[t]
          /\ copy' = [t \in Shell |-> copy'[t]]
      BY <3>1, <3>2
    <3> QED
      BY <3>3, <3>4
  <2> QED
    BY <2>1, <2>2
<1>4. /\ ~Running(s)' /\ ~Commenting(s)'
      /\ \A t \in Shell : t # s => /\ Running(t)' = Running(t) /\ Editing(t)' = Editing(t)
                                   /\ Commenting(t)' = Commenting(t)
                                   /\ \A what : Doing(t, what)' = Doing(t, what)
  BY <1>1, <1>2 DEF Running, Doing, Editing, Commenting
<1>5. CnfShape'
  <2>1. \A t \in Shell : todo'[t] \in Rest(job'[t])
    BY <1>1, <1>2, Scripts DEF CnfInvariant, CnfShape
  <2> QED
    BY <1>1, <1>2, <1>3, <2>1 DEF CnfInvariant, CnfShape
<1>6. BetweenModes'
  BY <1>1, <1>3, <1>4 DEF CnfInvariant, BetweenModes
<1>7. Alone'
  BY <1>1, <1>3, <1>4 DEF CnfInvariant, Alone
<1>8. CommentedSoFar'
  BY <1>1, <1>3, <1>4 DEF CnfInvariant, CommentedSoFar
<1> QED
  BY <1>1, <1>5, <1>6, <1>7, <1>8 DEF CnfInvariant, Undisturbed

\* The last sed invocation of a mode, or one before it.
LEMMA WriteFacts ==
  ASSUME CnfInvariant, NEW s \in Shell, WriteConf(s)
  PROVE  /\ Editing(s) /\ Running(s) /\ copy[s] \in File /\ edits[s] \in 0..4
         /\ Head(todo[s]) \in {"mode1", "mode2"} /\ Doing(s, Head(todo[s]))
         /\ conf' \in File
         /\ conf'[Directive[edits[s] + 1]]
              = Edited(Head(todo[s]), Directive[edits[s] + 1], copy[s][Directive[edits[s] + 1]])
         /\ \A m \in 1..5 : m # edits[s] + 1 => conf'[Directive[m]] = copy[s][Directive[m]]
         /\ job' = job /\ jobs' = jobs /\ cut' = cut
         /\ copy'[s] = Unread /\ \A t \in Shell : t # s => copy'[t] = copy[t]
         /\ copy' = [t \in Shell |-> copy'[t]]
         /\ edits' \in [Shell -> 0..4]
         /\ \A t \in Shell : t # s => edits'[t] = edits[t] /\ todo'[t] = todo[t]
         /\ todo' = [t \in Shell |-> todo'[t]]
         /\ \/ edits[s] < 4 /\ edits'[s] = edits[s] + 1 /\ todo'[s] = todo[s]
            \/ edits[s] = 4 /\ edits'[s] = 0 /\ todo'[s] = Tail(todo[s])
<1>1. /\ Editing(s) /\ Running(s) /\ Head(todo[s]) \in {"mode1", "mode2"}
      /\ Doing(s, Head(todo[s]))
  BY DEF WriteConf, Editing, Doing
<1>2. copy[s] \in File
  BY DEF WriteConf, CnfInvariant, CnfShape
<1>3. /\ edits \in [Shell -> 0..4] /\ edits[s] \in 0..4
      /\ todo = [t \in Shell |-> todo[t]] /\ copy = [t \in Shell |-> copy[t]]
  BY DEF CnfInvariant, CnfShape
<1>4. edits[s] + 1 \in 1..5
  BY <1>3
<1>5. conf' = [copy[s] EXCEPT ![Directive[edits[s] + 1]]
                 = Edited(Head(todo[s]), Directive[edits[s] + 1], @)]
  BY DEF WriteConf
<1>6. /\ conf' \in File
      /\ conf'[Directive[edits[s] + 1]]
           = Edited(Head(todo[s]), Directive[edits[s] + 1], copy[s][Directive[edits[s] + 1]])
      /\ \A m \in 1..5 : m # edits[s] + 1 => conf'[Directive[m]] = copy[s][Directive[m]]
  <2> DEFINE k == edits[s] + 1
             c == copy[s]
             v == Edited(Head(todo[s]), Directive[k], c[Directive[k]])
             new == [c EXCEPT ![Directive[k]] = v]
  <2>1. Directive[k] \in Directives
    BY <1>4, DirectiveFacts
  <2>2. c[Directive[k]] \in Nat
    BY <1>2, <2>1 DEF File
  <2>3. v \in Nat
    BY <1>1, <2>2, EditFacts
  <2>4. /\ new \in File /\ new[Directive[k]] = v
        /\ \A m \in 1..5 : m # k => new[Directive[m]] = c[Directive[m]]
    <3>1. c \in File /\ k \in 1..5 /\ v \in Nat
      BY <1>2, <1>4, <2>3
    <3> HIDE DEF k, c, v
    <3> QED
      BY <3>1, FileFacts
  <2>5. conf' = new
    BY <1>5
  <2> HIDE DEF new
  <2> QED
    BY <2>4, <2>5
<1>7. /\ copy' = [copy EXCEPT ![s] = Unread] /\ job' = job /\ jobs' = jobs /\ cut' = cut
      /\ \/ /\ edits[s] < 4 /\ edits' = [edits EXCEPT ![s] = edits[s] + 1]
            /\ todo' = todo
         \/ /\ ~(edits[s] < 4) /\ edits' = [edits EXCEPT ![s] = 0]
            /\ todo' = [todo EXCEPT ![s] = Tail(todo[s])]
  BY DEF WriteConf
<1>8. /\ copy'[s] = Unread /\ \A t \in Shell : t # s => copy'[t] = copy[t]
      /\ copy' = [t \in Shell |-> copy'[t]]
  BY <1>3, <1>7
<1>9. /\ edits' \in [Shell -> 0..4]
      /\ \A t \in Shell : t # s => edits'[t] = edits[t] /\ todo'[t] = todo[t]
      /\ todo' = [t \in Shell |-> todo'[t]]
      /\ \/ edits[s] < 4 /\ edits'[s] = edits[s] + 1 /\ todo'[s] = todo[s]
         \/ edits[s] = 4 /\ edits'[s] = 0 /\ todo'[s] = Tail(todo[s])
  <2>1. CASE edits[s] < 4
    BY <1>3, <1>7, <2>1
  <2>2. CASE ~(edits[s] < 4)
    <3>1. /\ edits' = [edits EXCEPT ![s] = 0]
          /\ todo' = [todo EXCEPT ![s] = Tail(todo[s])]
      BY <1>7, <2>2
    <3>2. edits' \in [Shell -> 0..4] /\ \A t \in Shell : t # s => edits'[t] = edits[t]
      BY <1>3, <3>1
    <3>3. edits[s] = 4 /\ edits'[s] = 0
      BY <1>3, <2>2, <3>1
    <3>4. /\ \A t \in Shell : t # s => todo'[t] = todo[t]
          /\ todo' = [t \in Shell |-> todo'[t]] /\ todo'[s] = Tail(todo[s])
      BY <1>3, <3>1
    <3> QED
      BY <3>2, <3>3, <3>4
  <2> QED
    BY <2>1, <2>2
<1> QED
  BY <1>1, <1>2, <1>3, <1>6, <1>7, <1>8, <1>9

LEMMA WriteKeeps ==
  ASSUME CnfInvariant, NEW s \in Shell, WriteConf(s)
  PROVE  CnfInvariant'
<1> DEFINE e == edits[s]
           c == copy[s]
           mode == Head(todo[s])
<1>1. /\ Editing(s) /\ Running(s) /\ c \in File /\ e \in 0..4
      /\ mode \in {"mode1", "mode2"} /\ Doing(s, mode)
  BY WriteFacts
<1>2. /\ conf' \in File
      /\ conf'[Directive[e + 1]] = Edited(mode, Directive[e + 1], c[Directive[e + 1]])
      /\ \A m \in 1..5 : m # e + 1 => conf'[Directive[m]] = c[Directive[m]]
  BY WriteFacts
<1>3. /\ job' = job /\ jobs' = jobs /\ cut' = cut
      /\ copy'[s] = Unread /\ \A t \in Shell : t # s => copy'[t] = copy[t]
      /\ copy' = [t \in Shell |-> copy'[t]] /\ todo' = [t \in Shell |-> todo'[t]]
      /\ edits' \in [Shell -> 0..4]
  BY WriteFacts
<1>4. /\ \A t \in Shell : t # s => edits'[t] = edits[t] /\ todo'[t] = todo[t]
      /\ \/ e < 4 /\ edits'[s] = e + 1 /\ todo'[s] = todo[s]
         \/ e = 4 /\ edits'[s] = 0 /\ todo'[s] = Tail(todo[s])
  BY WriteFacts
<1>5. \A t \in Shell : t # s => /\ Running(t)' = Running(t) /\ Editing(t)' = Editing(t)
                                /\ Commenting(t)' = Commenting(t)
                                /\ \A what : Doing(t, what)' = Doing(t, what)
  BY <1>3, <1>4 DEF Running, Doing, Editing, Commenting
<1>6. job[s] \in Job /\ todo[s] \in Rest(job[s]) /\ todo[s] # <<>>
  BY <1>1 DEF CnfInvariant, CnfShape, Running
<1>7. /\ todo'[s] \in Rest(job[s])
      /\ ~Commenting(s) => ~Commenting(s)'
      /\ e < 4 => /\ Running(s)' /\ Commenting(s)' = Commenting(s)
                  /\ \A what : Doing(s, what)' = Doing(s, what)
      /\ e = 4 /\ Commenting(s) =>
           IF mode = "mode1" THEN Commenting(s)' /\ Doing(s, "work")' ELSE ~Running(s)'
  <2>1. ~Commenting(s) => ~Commenting(s)'
    BY <1>1, <1>3 DEF Commenting
  <2>2. CASE e < 4
    BY <1>3, <1>4, <1>6, <2>1, <2>2 DEF Running, Doing, Commenting
  <2>3. CASE e = 4
    <3>1. todo'[s] = Tail(todo[s])
      BY <1>4, <2>3
    <3>2. /\ Tail(todo[s]) \in Rest(job[s])
          /\ job[s] # "handshake" =>
               \/ mode = "mode1" /\ Tail(todo[s]) # <<>> /\ Head(Tail(todo[s])) = "work"
               \/ mode = "work"
               \/ mode = "mode2" /\ Tail(todo[s]) = <<>>
      BY <1>6, Steps
    <3> HIDE DEF mode
    <3> QED
      BY <1>1, <1>3, <2>1, <2>3, <3>1, <3>2 DEF Running, Doing, Commenting
  <2> QED
    BY <1>1, <2>2, <2>3
<1>8. \A k \in 1..5 : c[Directive[k]] \in Nat
  BY <1>1, DirectiveFacts DEF File
<1>9. Commenting(s) => c = conf /\ \A t \in Shell : t # s => ~Running(t) /\ ~Commenting(t)
  <2>1. c # Unread
    BY <1>1, CnfAssumption
  <2> QED
    BY <2>1, Doings DEF CnfInvariant, Alone
<1>10. ~Commenting(s) => mode = "mode2" /\ \A t \in Shell : ~Commenting(t)
  BY <1>1, Doings
<1>11. CnfShape'
  <2>1. \A t \in Shell : todo'[t] \in Rest(job'[t])
    BY <1>3, <1>4, <1>7 DEF CnfInvariant, CnfShape
  <2> QED
    BY <1>2, <1>3, <2>1 DEF CnfInvariant, CnfShape
<1>12. BetweenModes'
  <2>1. ~Editing(s)' => edits'[s] = 0
    BY <1>1, <1>4, <1>7 DEF Editing
  <2> QED
    BY <1>3, <1>4, <1>5, <2>1 DEF CnfInvariant, BetweenModes
<1>13. Alone'
  <2>1. CASE Commenting(s)
    BY <1>3, <1>5, <1>9, <2>1 DEF Alone
  <2>2. CASE ~Commenting(s)
    BY <1>5, <1>7, <1>10, <2>2 DEF Alone
  <2> QED
    BY <2>1, <2>2
<1>14. CommentedSoFar'
  <2>1. CASE ~Commenting(s)
    BY <1>5, <1>7, <1>10, <2>1 DEF CommentedSoFar
  <2>2. CASE Commenting(s) /\ mode = "mode2"
    <3>1. Commenting(s)' => Doing(s, "mode2")'
      BY <1>1, <1>4, <1>7, <2>2 DEF Commenting
    <3> QED
      BY <1>5, <1>9, <2>2, <3>1 DEF CommentedSoFar, Doing
  <2>3. CASE Commenting(s) /\ mode = "mode1"
    <3>1. \A k \in 1..5 : k <= e => c[Directive[k]] # 0
      BY <1>1, <1>9, <2>3 DEF CnfInvariant, CommentedSoFar
    <3>2. \A k \in 1..5 : k <= e + 1 => conf'[Directive[k]] # 0
      <4>1. conf'[Directive[e + 1]] # 0
        BY <1>1, <1>2, <1>8, <2>3, EditFacts
      <4> HIDE DEF e, c
      <4> QED
        BY <1>1, <1>2, <3>1, <4>1
    <3>3. ASSUME NEW k \in 1..5, Doing(s, "work")' \/ (Doing(s, "mode1")' /\ k <= edits'[s])
          PROVE  conf'[Directive[k]] # 0
      <4>1. CASE e < 4
        <5>1. ~Doing(s, "work")' /\ edits'[s] = e + 1
          BY <1>1, <1>4, <1>7, <2>3, <4>1, Doings
        <5> QED
          BY <3>2, <3>3, <5>1
      <4>2. CASE e = 4
        BY <3>2, <3>3, <4>2
      <4> QED
        BY <1>1, <4>1, <4>2
    <3> QED
      BY <1>5, <1>9, <2>3, <3>3 DEF CommentedSoFar
  <2> QED
    BY <1>1, <2>1, <2>2, <2>3
<1>15. Undisturbed'
  <2> SUFFICES ASSUME ~cut
               PROVE  Undisturbed'
    BY <1>3 DEF Undisturbed
  <2>1. CASE ~Commenting(s)
    <3>1. conf = Active /\ \A t \in Shell : copy[t] \in {Active, Unread}
      BY <1>10, <2>1 DEF CnfInvariant, Undisturbed
    <3>2. c = Active
      BY <1>1, <3>1, CnfAssumption
    <3>3. \A k \in 1..5 : conf'[Directive[k]] = 0
      <4>1. \A k \in 1..5 : c[Directive[k]] = 0
        BY <3>2, ActiveFacts
      <4>2. conf'[Directive[e + 1]] = 0
        BY <1>1, <1>2, <1>10, <2>1, <4>1, EditFacts
      <4> HIDE DEF e, c
      <4> QED
        BY <1>1, <1>2, <4>1, <4>2
    <3>4. conf' = Active
      BY <1>2, <3>3, SameFile
    <3>5. \A t \in Shell : ~Commenting(t)'
      BY <1>5, <1>7, <1>10, <2>1
    <3> QED
      BY <1>3, <3>1, <3>4, <3>5 DEF Undisturbed
  <2>2. CASE Commenting(s) /\ mode = "mode1"
    <3>1. Doing(s, "mode1")
      BY <1>1, <2>2
    <3>2. \A k \in 1..5 : c[Directive[k]] = IF k <= e THEN 1 ELSE 0
      BY <1>9, <2>2, <3>1 DEF CnfInvariant, Undisturbed, Hashes
    <3>3. \A k \in 1..5 : conf'[Directive[k]] = IF k <= e + 1 THEN 1 ELSE 0
      <4>1. conf'[Directive[e + 1]] = 1
        BY <1>1, <1>2, <2>2, <3>2, EditFacts
      <4> HIDE DEF e, c
      <4> QED
        BY <1>1, <1>2, <3>2, <4>1
    <3>4. Commenting(s)' /\ \A k \in 1..5 : conf'[Directive[k]] = Hashes(s, k)'
      <4>1. CASE e < 4
        <5>1. Commenting(s)' /\ Doing(s, "mode1")'
          BY <1>7, <2>2, <3>1, <4>1
        <5>2. edits'[s] = e + 1
          BY <1>4, <4>1
        <5> QED
          BY <3>3, <5>1, <5>2 DEF Hashes
      <4>2. CASE e = 4
        <5>1. Commenting(s)' /\ Doing(s, "work")' /\ ~Doing(s, "mode1")'
          BY <1>7, <2>2, <4>2 DEF Doing
        <5> QED
          BY <3>3, <4>2, <5>1 DEF Hashes
      <4> QED
        BY <1>1, <4>1, <4>2
    <3> QED
      BY <1>5, <1>9, <2>2, <3>4 DEF Undisturbed
  <2>3. CASE Commenting(s) /\ mode = "mode2"
    <3>1. Doing(s, "mode2") /\ ~Doing(s, "mode1") /\ ~Doing(s, "work")
      BY <1>1, <2>3, Doings
    <3>2. \A k \in 1..5 : c[Directive[k]] = IF k <= e THEN 0 ELSE 1
      BY <1>9, <2>3, <3>1 DEF CnfInvariant, Undisturbed, Hashes
    <3>3. \A k \in 1..5 : conf'[Directive[k]] = IF k <= e + 1 THEN 0 ELSE 1
      <4>1. conf'[Directive[e + 1]] = 0
        BY <1>1, <1>2, <2>3, <3>2, EditFacts
      <4> HIDE DEF e, c
      <4> QED
        BY <1>1, <1>2, <3>2, <4>1
    <3>4. CASE e < 4
      <4>1. \A k \in 1..5 : conf'[Directive[k]] = Hashes(s, k)'
        <5>1. ~Doing(s, "mode1")' /\ ~Doing(s, "work")' /\ edits'[s] = e + 1
          BY <1>4, <1>7, <3>1, <3>4
        <5> QED
          BY <3>3, <5>1 DEF Hashes
      <4> QED
        BY <1>5, <1>7, <1>9, <2>3, <3>4, <4>1 DEF Undisturbed
    <3>5. CASE e = 4
      <4>1. ~Running(s)' /\ \A t \in Shell : ~Commenting(t)'
        BY <1>5, <1>7, <1>9, <2>3, <3>5 DEF Commenting
      <4>2. conf' = Active
        BY <1>2, <3>3, <3>5, SameFile
      <4>3. \A t \in Shell : copy'[t] = Unread
        <5>1. \A t \in Shell : t # s => ~Editing(t)
          BY <1>9, <2>3 DEF Editing, Doing
        <5> QED
          BY <1>3, <5>1 DEF CnfInvariant, BetweenModes
      <4> QED
        BY <4>1, <4>2, <4>3 DEF Undisturbed
    <3> QED
      BY <1>1, <3>4, <3>5
  <2> QED
    BY <1>1, <2>1, <2>2, <2>3
<1> QED
  BY <1>11, <1>12, <1>13, <1>14, <1>15 DEF CnfInvariant

LEMMA StutterKeeps ==
  ASSUME CnfInvariant, UNCHANGED vars
  PROVE  CnfInvariant'
<1>1. /\ conf' = conf /\ job' = job /\ todo' = todo /\ edits' = edits /\ copy' = copy
      /\ jobs' = jobs /\ cut' = cut
  BY DEF vars
<1> QED
  BY <1>1 DEF CnfInvariant, CnfShape, BetweenModes, Alone, CommentedSoFar, Undisturbed,
              Hashes, Commenting, Editing, Doing, Running

-----------------------------------------------------------------------------
(* The theorems.                                                           *)

\* Every step of every script keeps what is known of the file and of how far
\* the scripts have come.
THEOREM Inductive == Spec => []CnfInvariant
<1>1. Init => CnfInvariant
  BY InitHolds
<1>2. CnfInvariant /\ [Next]_vars => CnfInvariant'
  <2> SUFFICES ASSUME CnfInvariant, [Next]_vars
               PROVE  CnfInvariant'
    OBVIOUS
  <2>1. ASSUME NEW s \in Shell, NEW j \in Job, Start(s, j)
        PROVE  CnfInvariant'
    BY <2>1, StartKeeps
  <2>2. ASSUME NEW s \in Shell, ReadConf(s)
        PROVE  CnfInvariant'
    BY <2>2, ReadKeeps
  <2>3. ASSUME NEW s \in Shell, WriteConf(s)
        PROVE  CnfInvariant'
    BY <2>3, WriteKeeps
  <2>4. ASSUME NEW s \in Shell, Work(s)
        PROVE  CnfInvariant'
    BY <2>4, WorkKeeps
  <2>5. ASSUME NEW s \in Shell, SpeedTestFails(s) \/ Interrupt(s)
        PROVE  CnfInvariant'
    BY <2>5, CutKeeps
  <2>6. CASE UNCHANGED vars
    BY <2>6, StutterKeeps
  <2> QED
    BY <2>1, <2>2, <2>3, <2>4, <2>5, <2>6 DEF Next
<1> QED
  BY <1>1, <1>2, PTL DEF Spec

\* The file, what every shell runs and what its sed invocation has read stay
\* within their types: a mode never makes a sixth invocation.
THEOREM TypeCorrect == Spec => []TypeOK
<1>1. CnfInvariant => TypeOK
  <2> SUFFICES ASSUME CnfInvariant
               PROVE  TypeOK
    OBVIOUS
  <2>1. \A s \in Shell : todo[s] \in Seq({"mode1", "mode2", "work"})
    BY Sequences DEF CnfInvariant, CnfShape
  <2>2. todo \in [Shell -> Seq({"mode1", "mode2", "work"})]
    BY <2>1 DEF CnfInvariant, CnfShape
  <2> QED
    BY <2>2 DEF CnfInvariant, CnfShape, TypeOK
<1> QED
  BY <1>1, Inductive, PTL

\* As long as every script has come to its end, handshakes are measured with
\* every directive in force, however many shells run handshake scripts and
\* whatever the interleaving of their sed invocations.
THEOREM HandshakesMeasuredWithGroups == Spec => []TestingConf
<1>1. CnfInvariant => TestingConf
  <2> SUFFICES ASSUME CnfInvariant, ~cut, NEW s \in Shell, Doing(s, "work"), job[s] = "handshake"
               PROVE  conf = Active
    BY DEF TestingConf, TestingConfAt
  <2>1. Running(s) /\ ~Commenting(s)
    BY DEF Doing, Commenting
  <2> QED
    BY <2>1, Doings DEF CnfInvariant, Undisturbed
<1> QED
  BY <1>1, Inductive, PTL

\* Keys are generated and speed is measured with none of the directives in
\* force, whatever the scripts before left behind.
THEOREM KeysGeneratedWithoutGroups == Spec => []KeygenConf
<1>1. CnfInvariant => KeygenConf
  <2> SUFFICES ASSUME CnfInvariant, NEW s \in Shell, Doing(s, "work"), job[s] # "handshake",
                      NEW d \in Directives
               PROVE  conf[d] # 0
    BY DEF KeygenConf
  <2>1. Commenting(s)
    BY DEF Doing, Commenting
  <2>2. PICK k \in 1..5 : d = Directive[k]
    BY DirectiveFacts
  <2> QED
    BY <2>1, <2>2 DEF CnfInvariant, CommentedSoFar
<1> QED
  BY <1>1, Inductive, PTL
=============================================================================
