# A verification model of the ARMOR / PQC-LEO benchmarking suite

The repository measures post-quantum cryptography on ARM machines. Its own
code is a set of bash and Python scripts around vendored libraries (liboqs with
SVE2 versions of CROSS and BIKE, the OQS provider, OpenSSL 3.5.0). Two parts of
that code are hard. In the TLS handshake benchmark two scripts on two machines,
which share no state, have to walk through thousands of measurements in
lockstep, with netcat as their only means of communication. And in CROSS the
loops over trees and rounds were rewritten to work on two, four or eight things
at a time, on both sides of a protocol in which nothing sent says what it is,
so that signer and verifier must walk through it in exactly the same order.
This directory holds TLA+ models of both and of what surrounds the benchmark,
their TLC configurations, and machine-checked proofs.

## 1. Inventory

| Part | State it keeps | Operations | Interaction | What makes it hard | What makes it correct |
|---|---|---|---|---|---|
| `tls_handshake_test_server.sh`, `tls_handshake_test_client.sh` | position in the loops (run, test type, combination), `signal_message`, `fail_counter`, `server_pid`, the s_server on the port, result files | `check_control_port`, `control_signal` (send, wait, iteration handshake), `pqc_tests`, `classic_tests`, entrypoints | one-shot netcat listeners on two ports; `openssl s_server` in the background of one script, `openssl s_time` in the foreground of the other | two processes, lost signals, stale processes of earlier sessions, retries, interrupted scripts | a result file holds the measurement of the combination it is named after; the scripts stay at the same combination; they come to their end |
| `configure_openssl_cnf.sh` and its callers (`tls_generate_keys.sh`, `tls_speed_test.sh`, `set_test_env` of both handshake scripts) | `openssl.cnf` | modes 0, 1, 2: five `sed -i` each | a file shared by all openssl processes, and by both scripts of a single-machine test | non-atomic edits, scripts that fail or are stopped before restoring the file | handshakes run with the group directives in force, key generation and speed tests without |
| `pqc_tls_performance_test.sh` (controller) | environment variables, result directories, flags for parsing, the three ports | check of the ports with a kill, option prompts, Machine-ID clash handling, running the scripts, parsing, cleaning | calls everything above | long dialogues with early exits, directories shared by sessions | results of earlier sessions are kept unless the user says otherwise; a script that is started again disturbs no measurement but by taking its s_server away |
| `pqc_performance_test.sh` | result directories, liboqs test binaries | runs over algorithms | parsing | as the controller | as the controller |
| `parse_results.py` and its modules | CSV files per machine and run, averages | parse, replace, average | reads what the tests wrote | which directories are replaced, alignment of rows and names | one machine's parse leaves the others' results alone; an average is over its own runs |
| `setup.sh`, `cleaner.sh` | library directories, flag files | install, clean, rebuild | source modifier, algorithm lists, configuration mode 0 | steps that fail in the middle of an installation | a later script finds what its flag file promises |
| `source_code_modifier.sh` | library sources | sizes of algorithm tables, HQC switches | setup | numeric fall-backs | tables are large enough |
| `get_algorithms.py` | algorithm lists | extraction | setup, tests, parsing | text formats | the lists equal what was built |
| CROSS with SVE2 (`upcross_cross-rsdpg-*`: `CROSS.c`, `seedtree.c`, `merkle.c`, `csprng_hash.c`, `restr_arith.h`, `fp_arith.h`, `parameters.h`) | seed tree, Merkle tree, queues of pending hashes, the challenge, the slots and paddings of the signature | `CROSS_sign` and `CROSS_verify` with all they call | arrays that one function fills and the next reads; the signature | truncated trees, unrolled loops, hashes done two at a time, an order that both sides must share, lazy reductions | the verifier rebuilds the signer's seeds and commitments, is sent no seed that leads to a hidden round, and accepts exactly what arrives unchanged; the sums are those of scalar code |
| BIKE SVE2 code, memory test programs, vendored libraries | – | cryptographic primitives | called by the test binaries | vector arithmetic | equality with the scalar code |

The behaviours that are hard to test are the `hazards` of `PROJECT.json`, each
with the line where it bites and the properties that cover it.

## 2. Modules

| Module | What it is |
|---|---|
| `ControlSignal` | The control channel: `control_signal` and `check_control_port` on top of netcat. |
| `TlsHandshakeControl` | The two handshake scripts, EXTENDS `ControlSignal`. |
| `TlsTestPlan` | What the two scripts promise together; `TlsHandshakeControl` implements it. |
| `TlsRestart` | `TlsHandshakeControl` with a user who interrupts scripts, and the controller that starts them again. |
| `TlsLockstep` | The inductive invariant of `TlsHandshakeControl`. |
| `TlsHandshakeControlProofs` | Theorems about `TlsHandshakeControl` and their proofs. |
| `TlsStranded` | The invariant of `TlsRestart`: where the scripts can be after restarts. |
| `TlsRestartProofs` | Theorems about `TlsRestart` and their proofs. |
| `OpensslCnf` | `configure_openssl_cnf.sh` and the scripts that use it. |
| `OpensslCnfProofs` | The inductive invariant of `OpensslCnf`, theorems and their proofs. |
| `TestSession` | The result directories of a suite over several sessions of its controller and of the parser. |
| `TestSessionProofs` | Theorems about `TestSession` and their proofs. |
| `CrossTree` | The numbering of the tree that the files of CROSS share, and the data they hand to each other. |
| `CrossSeedTree` | `seedtree.c`: deriving, publishing and rebuilding the seeds of the rounds. |
| `CrossMerkle` | `merkle.c`: the root over the commitments, its proof, and recomputing it. |
| `CrossRounds` | The loops over the rounds in `CROSS.c`, with their queues of hashes. |
| `CrossChallenge` | `expand_digest_to_fixed_weight`: the second challenge. |
| `CrossSignature` | The composition of the four: one signature, from `CROSS_sign` over the wire to the verdict of `CROSS_verify`. |
| `CrossTreeProofs` | Lemmas about the numbering (levels, pairs, fathers), and theorems about the seed tree and the Merkle tree, each as its own specification. |
| `CrossRoundsProofs` | Theorems about the loops over the rounds as a specification of their own. |
| `CrossSignatureProofs` | Theorems about the composition, which EXTENDS the two. |
| `CrossMatrix`, `CrossMatrixProofs` | One column of the SVE2 matrix products, and theorems about their reductions. |
| `CrossShape`, `CrossParameters` | The tables of `parameters.h` of the three vectorised parameter sets, and what makes them a tree. |
| `MC...` | Constants for TLC. |

### ControlSignal and TlsHandshakeControl

`stage[p]` is the statement of its loops that side `p` is at, `step[p]` how far
a call of `control_signal` has got; `Here(p, s)` and `Returned(p, s)` are the
two ways to be at a statement outside of a call. `at[p]` holds the run, the test
type and the index of the combination. A *combination* (signature and KEM, or
cipher and classic algorithm) is one value, the two nested loops over them one
loop.

| Model | Code |
|---|---|
| `Call` | entry of `control_signal`: `pkill -f "nc -l -p PORT"`, then the `case` on the type |
| `Probe`, `Sleep` | `check_control_port`: `until nc -z`, then the control sleep |
| `Send` | `until echo MESSAGE \| nc -n -w 1` |
| `Listen`, `Receive` | `signal_message=$(nc -l -p PORT)` and the test of the message |
| `Enter`, `BeginRuns`, `BeginType`, `NextCombo` | the entrypoints and loop heads |
| `Reap` | `pgrep openssl`, `kill "$pgrep_output"` |
| `StartServer`, `ServerIsUp` | `openssl s_server ... &`, `until netstat` |
| `Judge` | the two branches on the verdict |
| `TestSucceeds`, `TestFails`, `GiveUp` | one `openssl s_time` and what follows from its exit status |
| `Reported`, `TryAgain` | the end of the retry loop |

Netcat is the environment. `nc -l` serves one connection and exits; a connection
made while it serves another one is accepted by the kernel and lost, and the
sending netcat still exits with 0. A refused connection makes the loop around
netcat spin and is no step of the model. The control sleep is modelled by what
it is there for: when it is over, the peer's listener is done with the
connections made before. `s_time` does not check the certificate, so a
measurement succeeds against whatever s_server is on the port.

Assumptions on the environment: only the two scripts connect to the control
ports; a killed process is gone by the time somebody looks; ports and addresses
are entered correctly. `classic_tests` differs from `pqc_tests` in one point,
which the model keeps: it does not look at the server's answer.

### TlsTestPlan

The tests are numbered in the order of the loops; each is offered, measured once
while offered, and withdrawn. The refinement mapping reads `offered` from
`server_pid` and the server's position, `measured` from the client's.

### TlsRestart

The scripts are only ever started by `pqc_tls_performance_test.sh`. `absent` is the set
of sides whose script is not running: both at first, and any one after an interrupt, at
any moment and any number of times, since nothing counts them.

| Model | Code |
|---|---|
| `Interrupt` | the user stops a script: the netcat it was waiting in survives or not, its s_server survives, `server_pid` does not |
| `ServerFound`, `NetcatFound` | `is_port_in_use` on `S_SERVER_PORT` and on the two control ports |
| `Start` | `setup_base_env` passes over a netcat, kills an s_server with `kill -9`, whoever is measuring it, and the script begins, with fresh result files on the client's side |
| `Refused` | `setup_base_env` exits with 1 because what it found runs from elsewhere; the user may try again |
| `Runs` | a step of a script that is running |

The controller sees the ports of its own machine only. `OneMachine` says whether both
scripts run on the same one, with `localhost` as the address
(`src/docs/testing_tools_usage/tls_performance_testing.md` describes both setups): then
either side's start meets the other side's netcat and the s_server. `Nearby` are the
sides on the machine that a start looks at. Where the machine has none of the tools the
check is done with, the user may skip it, but the server script's own loop on `netstat`
then finds no s_server either, and no client comes to measure.

### OpensslCnf

The file is the number of `#` in front of each of its five directives. A mode is
five edits, each a read of the file and a rename of the edited copy over it.
`Script` says in which order each script sets modes and works; a speed test may
fail and exit, and the user may stop any script at any point. Several shells may
run handshake scripts at the same time, as in the single-machine test the
documentation describes.

### TestSession

The two controllers (`pqc_tls_performance_test.sh` on the client machine,
`pqc_performance_test.sh`) ask the same questions about the Machine-ID with the
same code; `Suite` selects the few places where they, their tests and their
parsers differ. A result file is what it is a result of: kind of measurement,
run, session. The server machine stores no results and has no part here.

| Model | Code |
|---|---|
| `StartSession`, `Configure` | the command line, `get_machine_num`, the first half of `configure_results_dir` / `setup_test_suite` |
| `ReplaceResults`, `AssignMachine` | options 1 and 2 of `handle_machine_id_clash` |
| `CheckParsed` | the question about existing parsed results, and `export MACHINE_NUM` |
| `Measure` | one run of one kind of tests, and the file it writes |
| `TestsEnd` | `handle_result_parsing` |
| `ManualParse` | a user's call of `parse_results.py` |
| `NoUpResults`, `CreateResultsDir`, `Answer`, `Resume` | the checks of `process_tests`, `handle_results_dir_creation` and its dialogue |
| `ParseFile`, `ParseEnds` | the loops over runs and kinds; a file that is missing ends the parser |
| `Stop`, `MoveParsed` | the user stops a program, or moves parsed results away |

`machine_num` and `path` are two variables because the code has two: the
Machine-ID, and the result paths derived from it earlier. When a program ends,
its variables take their initial values again (`End`).

Assumptions: programs of one suite run one after the other; a program may be
stopped between any two result files, but a file is written as a whole; the
algorithm lists do not change, so the check on the number of rows only fails for
missing files. A TLS handshake whose output file cannot be opened fails, and
with it all its retries, so without directories a TLS session can only be
stopped.

### CrossTree, CrossSeedTree, CrossMerkle

The modules follow the code under `OQS_ENABLE_SVE2`. Nodes have the indices they
have in the code's arrays; `off`, `npl`, `lpl`, `LeafStart` and `ConsLeaves` are
the tables of `parameters.h`. A loop that treats several nodes in one pass is one
action that treats as many, with the index it leaves behind; the conditions for
the last pass are guards. An expansion or hash of several inputs at once
(`csprng_randombytes_par`, `hash_par`) gives each input its own result, and
`Xof`, `Hash2` and `Hash` are constants: the models depend on no more than which
inputs a value was computed from.

| Model | Code |
|---|---|
| `SeedInit`, `GenPair`, `GenLast`, `SeedLeaves` | `gen_seed_tree` and `seed_leaves`: two nodes expanded at once, the last one of a level alone, with the level's correction of the child index |
| `LabelLeaves`, `ComputeEight`, `ComputePair`, `ComputeLevel` | `compute_seeds_to_publish`: eight nodes at a time from left to right, then pairs |
| `PathNode`, `PathLevel` | `seed_path`: one node at a time |
| `SeedReceived`, `RebuildPair`, `RebuildLevel` | `rebuild_tree`: pairs, load first, then expand, and the check that the rest of the path is zero |
| `RootPlace`, `RootTwoPairs`, `RootLastPair` | `tree_root` |
| `ProofLabel`, `ProofPair`, `ProofLevel` | `tree_proof` |
| `RecomputePlace`, `RecomputeTwoPairs`, `RecomputeOnePair`, `RecomputeLevel` | `recompute_root` with the `goto` that falls back from two pairs to one, and the check of the rest of the proof |

The signer's place in `sig->path` is `num_seeds_published`, the verifier's
`nodes_used`; `published` is that of each side in `sig->proof`. The buffers are functions over their slots; a
copy past the end is what `PathFits` excludes.

Each of the two modules, and `CrossRounds`, is also a specification by itself
(`SeedTreeSpec`, `MerkleTreeSpec`, `RoundsSpec`): its own steps, the moments at
which the other parts may hand it data (`SeedChallenge`, `MerkleChallenge`,
`RoundsChallenge`), and a step `Outside...` that allows everything it relies on
the others to leave alone.

### CrossRounds

| Model | Code |
|---|---|
| `Queue`, `Enqueued`, `Full`, `Flushed`, `HashPar` | the input, round and domain-separator queues, and `hash_par` |
| `CommitRound` | the body of the first loop of `CROSS_sign`: enqueue both inputs, hash when two are there or the loop ends |
| `Respond1` | the loop that computes all `y` |
| `RespondRound` | the last loop: the round is published or answered |
| `VerifyBegin`, `VerifyPublished`, `VerifyAnswered`, `VerifierHashes` | the loop of `CROSS_verify` with its two queues, each flushed in every round in which it is full and in the last |
| `ResponseDamaged` | environment: one slot of a response changed on the way |

`y`, `v_G_bar` and the syndrome of a round are functions of its seed; that signer
and verifier come to the same syndrome along different ways is the algebra of
CROSS and an assumption here. A variable nothing was written to holds `Garbage`.

### CrossChallenge, CrossSignature

`ExpandBegin`, `Draw` and `ExpandReturn` are the Fisher-Yates shuffle. A draw
takes any value the mask lets through and is rejected when it is too large;
`Refill` is the arithmetic of the sub-buffer, so that the random bytes run out
where they do in the code.

`CrossSignature` calls the steps of the parts in the order of `CROSS_sign` and
`CROSS_verify`. `SignDigests` and `SignChallenge` join the parts: the digests over
the commitments, and the second challenge that all parts receive at once.
`Transit` damages one slot of the path, the proof or the responses, whether any
challenge uses it or not, or nothing. The digests, the salt, the message and the
keys are the same on both sides, and so is the challenge, which both derive from
the digests. `Verdict` is the conjunction at the end of `CROSS_verify`, over
whatever the variables hold.

### CrossMatrix, CrossShape, CrossParameters

`CrossMatrix` is one column: a matrix product of the SVE2 code is the same
computation in each lane of its accumulators. `FzRow` and `FzStore` are
`fz_inf_w_by_fz_matrix` with its 16-bit sums that are reduced every fourth row;
`FpRow` and `FpStore` are `fp_vec_by_fp_matrix` and `restr_vec_by_fp_matrix` with
`sv_barrett_store`. `sum` carries what scalar code has after the same rows.
`CrossParameters` holds the tables of the three parameter sets as records, and
`CrossShape` says when such tables are those of a tree (`TreeFits`) and how many
nodes the worst challenge sends (`MostSent`).

## 3. Runs

All runs finish within seconds, `cross_signature` within a minute.

| Run | Question | Answer |
|---|---|---|
| `control` | Two machines, same lists, two runs, control sleep, an old s_server on the port, combinations that use up their attempts: is every combination measured against its own s_server, is the plan implemented, does a session end in which no combination is given up? | yes |
| `restart` | One machine, no sleep, combinations that fail for good, different numbers of runs on the two sides, and a user who interrupts either script and starts it again, over and over: can a wrong s_server be measured, does one outlive the restart of its script, and who takes an s_server away from a measurement? | no and no, though the session may get stuck; only the controller, when the server side is started again |
| `lockstep` | Is the invariant of the proofs true on a small instance, with lost signals, a broken s_server and any number of restarts on two machines: are the scripts always in lockstep or stranded? | yes |
| `failed_retried` | Is a combination tested again after the client gave up? | no: `control_wait` drops `failed`, both scripts wait for ever |
| `openssl_cnf` | Scripts in any order, speed tests that fail, scripts that are stopped, two handshake scripts at once: are keys and speed tests always without the group directives, and handshakes with all of them while every script came to its end? | yes |
| `openssl_cnf_stuck` | After a failed speed test, do handshakes still have all directives? | no: `Groups` is commented twice and stays commented |
| `session_computational` | Computational suite, three sessions: does any directory mix sessions, does an automatic parse end with its own session's results, is anything measured earlier removed unasked? Does the invariant of the proofs hold? | no, yes, no; yes |
| `session_default` | TLS suite: does an automatic parse end with its own session's results? | no: after a default Machine-ID and a clash, machine 1 is parsed instead |
| `session_others` | Does a parse leave other machines' parsed results alone? | no: `rmtree` removes them all |
| `session_stored` | Are all measurements of a completed session stored? | no: after option 2 of the clash dialogue there is no directory |
| `cross_signature` | One signature, for every second challenge, arriving as sent or with any one slot changed: do both sides have the same seeds, commitments and root, does everything fit its buffer, do the functions return, and is the verdict right? Are the parts used as each expects? | yes |
| `cross_parameters` | With the numbers of the parameter sets: do the lazy reductions come to the reduced sums, are the tables those of a tree, is `TREE_NODES_TO_STORE` enough for every challenge? | yes |

Three further differences are in the models but have no run of their own, because
one step shows them. Without the control sleep the sending loop can end although
the signal is lost (`SentMeansDelivered` holds in `control`, with the sleep). With
two openssl processes on the server machine `kill "$pgrep_output"` passes one
argument, kills neither, and an old s_server stays (`OtherOpenssl > 0`). The
answer to the confirmation of `--disable-result-parsing` is compared with the
wrong value, so *yes* leaves parsing enabled, and the computational suite never
reads its command line (`ParseResults`).

Bounds. Two PQC combinations, one hybrid and one classic make the four ways of
leaving a combination (next combination, type, run, end) happen; two runs make
the run loop happen twice. `FailLimit` is 3000 in the code and 1 or 2 here: the
counter only has a first, a middle and a last value. Restarts are not
bounded; `restart` has both sides on one machine, where a start meets most, and
`lockstep` has two machines. `MaxJobs = 4` allows a failing script, a
second one that meets its leftovers, and a handshake test on each shell. Two
Machine-IDs are one to clash with and one to evade to; two runs let sessions
differ in their number of runs, so that one leaves files the next would not
overwrite; three sessions give two machines with results and a third session
that meets them. No symmetry is used.

The tree of `cross_signature` has `T = 9` leaves and `W = 6` published rounds, and is
truncated as the one of the 256-bit set is: one leaf hangs far above the lowest
level, which is where each level's correction of the numbering matters. Its
levels below the root have 2, 2, 4 and 8 nodes, so that every unrolled loop runs
in full passes, in its rest, and not at all; the number of rounds is odd, so that a
queue ends with one entry. `NodesToStore = 5` is exactly what the worst challenge
needs (an `ASSUME` of the module), so a copy too many is a copy past the end.
`CwstrBytes = 9` is few enough for the shuffle's random bytes to run out. The 84
challenges all occur. Seeds are numbers and digests tuples that stand for the
terms they were computed by; two are equal only when computed in the same way.
One slot is changed at most: what two changes could do together depends on the
hash. `cross_parameters` uses the 128-bit set's numbers of rows (`M = 25`,
`K = 36`) with the elements at both ends of their ranges and 25-bit words, since
TLC's integers do not hold 2^32; overflow then comes earlier. The trees are the
real tables.

Fairness. `WF_vars(Server)` and `WF_vars(Client)`: each script is a process that
the operating system keeps scheduling. No fairness says that a handshake
succeeds: `Completes` is about the sessions in which the client gives up no
combination, which is the assumption the scripts themselves make; the run
`failed_retried` is about the others. `WF_vars(Sign \/ Verify)` in
`CrossSignature`: `CROSS_sign` and `CROSS_verify` are sequential functions that run
until they return. That the shuffle ends needs no fairness of the draws: its
supply of random bytes is finite, and what it finds after their end is zeros,
which it accepts.

`CHECK_DEADLOCK FALSE` appears where the real scripts may stop for ever (a lost
signal, a broken s_server, a lost `failed`, restarts; in `control` it is `Completes` that
excludes all of them but a lost `failed`) and where the model simply
runs out of jobs. `TestSession` has safety properties only: its programs wait for
a user, who may not come back.

## 4. Proofs

`TlsHandshakeControlProofs` proves, for every list of combinations, every number
of runs and every attempt limit, with or without the control sleep, whatever
handshakes fail and whichever s_servers do not start:

* `LockstepHolds`: `Spec => []Inductive`, and `InStepHolds`: `Spec => []InStep`
* `TypeCorrect`, `RightServerHolds`, `ResultsAsNamedHolds`: `Spec => []TypeOK`,
  `[]RightServer`, `[]ResultsAsNamed`
* `ServerStaysHolds`: `Spec => ServerStays`, an action property
* `PlanImplemented`: `Spec => ImplementsPlan`, the refinement of `TlsTestPlan`, step by
  step
* `SentIsDelivered`: `Spec => SentMeansDelivered`, an action property, from
  `SleepEnabled`

from the assumption of `TlsLockstep` that both machines have the same lists and
number of runs and that no foreign openssl process runs when the session starts.

`RightServer` is not inductive: that the s_server is the right one while the
client measures follows only from the two scripts being at the same position,
and that follows from the history of the signals. `Lockstep` states what is left
of that history: for each place of the client, the places the server can be at,
and what can be on the line to either. `ServerAwaits`, `ServerAnswers`,
`ServerPassed` and `ServerBehind` are the four situations of the server relative
to a handshake of the client; `ServerOffers` the one in which it has sent
`ready` and waits for the verdict. Lost signals are part of it (the client waits
and the server does too), which is why the theorems need no assumption on the
sleep. The proof has one lemma per action, and one step per conjunct of the
invariant in each.

`PlanImplemented` needs more than lockstep: the number that the plan gives a test is
computed from run, type and index, and equal places must give equal numbers
(`Before`, `PerRun` and their lemmas). `Planned` adds that no side is beyond its last
run, that a test type begins at its beginning, and that `server_pid` is set exactly
from the start of an s_server to the verdict, from which `offered` is read. In
`SentIsDelivered`, `Undisturbed` says that a side that is about to send never meets a
listener that still serves a probe, which is what the sleep is there for; nothing else
is needed of the scripts than that what they do outside of `control_signal` leaves the
channel alone (`OutsideSignal`).

`TlsRestartProofs` proves of `RestartSpec`, for any number of interrupts and starts of
either script at any moment, on one machine or on two:

* `RestartInvariantHolds`: `RestartSpec => []RestartInvariant`
* `RestartNeverWrongServer`: `RestartSpec => []NeverWrongServer`. `RightServer` itself is
  false here: the controller of a server side that is started again kills the s_server
  of a measurement. But as long as the client measures, no other s_server takes its
  place; `s_time` fails until its attempts are used up or the client is interrupted, too.
* `RestartResultsAsNamed`: `RestartSpec => []ResultsAsNamed`
* `RestartOnlyControllerKills`: `RestartSpec => OnlyControllerKills`, an action property:
  that kill is the only thing that ever happens to the s_server of a measurement
* `RestartOwnServer`: `RestartSpec => []OwnServer`: an s_server left by an interrupted
  script is gone before its successor runs, so that the s_server its later steps meet
  is the one they have started

The scripts do not notice a restart of the other, and all their handshakes carry the
same text, so a restarted script may well be answered by one that stands somewhere
else. `Stranded` says what can become of the two, in five ways: the client waits for an
answer in a handshake that the server does not know of (`StrandedInHandshake`), the
client or the server has been restarted (`StrandedClient`, `StrandedServer`), one is
a handshake ahead of the other, or two (`StrandedAhead`), or they answer each other in
different handshakes (`StrandedCrossed`). A client that is measuring when the server
side is interrupted goes on to do so, against the s_server it has or, once the
controller has killed that one, against none (`ClientMeasures` in `StrandedServer`): the
server that is started again waits in the handshake of its entry until the client is
done or interrupted, too. From nowhere else does a stranded client come to measure:
after the handshake of a combination each side waits for a text that no handshake
sends. The only way back is the handshake of the entry, when both are restarted.
`ApartOK` is what holds of each side wherever the other one is. The proof has one lemma
for each way to change sides: `InterruptStrands`, `StartStrands`, and `RunsLeaves` with
what it rests on for the steps of the scripts.

Two assumptions stand behind it. `MatchedAssumption` as above; that two machines with
different numbers of runs do no harm either is what the run `restart` shows on its
instance. And `ListAssumption`: no list of combinations is empty. This is needed, not
convenient: with an empty list in the middle, TLC finds a restarted client that is one
handshake behind, goes through a test type without combinations, is level with the
server again at a combination, but one type off, and measures the wrong s_server. The
lists are those of `get_algorithms.py` and of the `classic` arrays in the scripts; none
of them is empty.

`TestSessionProofs` proves, for both suites, every set of Machine-IDs and every
number of runs and sessions, from `SessionAssumption` (the default Machine-ID is
one of them):

* `SessionInvariantHolds`: `Spec => []SessionInvariant`, and from it
  `SessionTypeCorrect`, `UpOneSessionHolds`, `ParsedOneSessionHolds`
* `OldResultsKeptHolds`: `Spec => OldResultsKept`, an action property
* `ParsedIsOwnHolds`: `Spec => []ParsedIsOwn` when `Suite = "computational"`. For the
  other suite it is false (run `session_default`).

`UpOneSession` and `ParsedOneSession` are not inductive: a measurement or a
parsed file joins whatever is in its directory. `Place` says what that is: the
directory is empty when the dialogue is over and holds only the running
session's files while it measures; while the parser writes, its directory holds
only files that are in the unparsed directory. `NoDirectoryNoFile` carries this
over the branch that creates a directory without removing anything, and
`SessionsSoFar` tells a new session's measurements from the old ones. For `ParsedIsOwn`,
`OwnInvariant` follows one session from the dialogue to the end of its parser: Machine-ID
and path are the same, the directory has no files but the session's own, and what the
parser has read so far is stored.

`OpensslCnfProofs` proves, for any number of shells, jobs and interruptions:

* `Inductive`: `Spec => []CnfInvariant`, and from it `TypeCorrect`
* `HandshakesMeasuredWithGroups`: `Spec => []TestingConf`
* `KeysGeneratedWithoutGroups`: `Spec => []KeygenConf`

The modes are five edits each, and every edit renames a copy that may be stale. A
script that comments the directives out runs alone, so its copies are not
(`Alone`); what it has commented so far stays so (`CommentedSoFar`), whatever the file
was before, which is why `KeygenConf` holds even after scripts that were stopped. As
long as none was, the number of `#` of each directive follows from how far the script has
come, and several handshake scripts that edit at once all read and write the same file
(`Undisturbed`).

`CrossMatrixProofs` proves `ExponentRight` and `SyndromeRight` for all elements and
for every number of rows that `MatrixAssumption` allows, which covers the three
parameter sets. `MatrixInvariant` is what makes them inductive: a row keeps the
residue of the scalar sum, and the accumulator stays below a bound that depends on
how many rows were added since the last partial reduction, which leaves at most
627. The 16-bit sums do not overflow although the code's comments count four
products only.

`CrossRoundsProofs` proves, for every number of rounds and every weight, from
`RoundAssumption`, with no assumption on the hashes or on the algebra:

* `RoundsInvariantHolds`: `RoundsSpec => []RoundsInvariant`
* `OwnCommitmentsHold`: `RoundsSpec => []OwnCommitments`
* `VerifierAgreesHolds`: `RoundsSpec => []VerifierAgrees`
* `RoundsTypeHolds`: `RoundsSpec => []RoundsTypeOK`

Neither property is inductive, because the commitment of a round may still be in
a queue when the round is over. The invariant says for each queue which rounds are
in it, with their inputs and domain separators, and that all earlier ones of its
kind are hashed (`Committing` for the signer, `Verifying` for the two queues of the
verifier); `Answering` counts: the slot of the next response is the number of
answered rounds so far, which is why signer and verifier, who count by
themselves, read and write the same one. What the verifier is to come to is stated
by what arrived (`SeenY`, `SeenCmt0`, `SeenCmt1`), so that the invariant holds of
damaged responses, too; once a padding was wrong (`PadsOk`), nothing is claimed of `y`
and `cmt_0`, which are computed from uninitialised values. `SeenIsOwn` says that undamaged
responses and the signer's seeds make them the signer's. The counting lemmas rest on the
cardinality theorems of the library.

`CrossTreeProofs` derives from `TableAssumption`, which `cross_parameters` evaluates on
the real tables as `TreeFits`, what the loops rely on: levels are contiguous
and do not overlap, the nodes of a level come in pairs, the two of a pair have the
same father, fathers are in the order of their pairs (`KidsInOrder`), every node but the
root has exactly one (`HasFather`), and every leaf is the leaf of one round.

It goes on to prove of `SeedTreeSpec`, for every such tree, weight and
challenge and for any `Xof`, `RebuiltSeedsHolds`, `HiddenSeedsHolds` and
`PathUsedUpHolds`. Although three functions go through the nodes in three
ways, all can be described by how far they have come:

* `gen_seed_tree` has expanded all nodes below the next one (`ExpandedTo`).
* `compute_seeds_to_publish` is described by the set of fathers it has done (`DonePairs`),
  since within a pass of eight the order does not matter: they are the AND of their
  children (`AndOn`), and the verifier's agree with the signer's (`AgreeOn`). `ClearOn`
  follows a leaf that is not published on its way up, so that the root is never published.
* `seed_path` has stored the flagged nodes below the next one, each in the slot that is
  the number of flagged nodes before it (`StoredTo`, `CountTo`, `EmptyFrom`).
* `rebuild_tree` has loaded the same nodes from the same slots and expanded them
  (`Grown`), whatever the path holds by then, and every node that is not published is
  still zero (`Blank`). That it loads a pair before it expands the pair changes
  nothing, because a father comes before both children. From an undamaged path those
  are the signer's seeds (`SeedsArrive`).

`HiddenSeeds` is about what `sig->path` holds, from the moment `seed_path` begins and
as long as nothing was changed: every slot that is filled is the signer's seed of a node
below which (`RoundsOf`, a recursion over the tree) all rounds are published, and every
other slot is zero. A path with a hidden leaf's seed, or with the root's, violates it. The
proof looks at the last node that is flagged although a hidden round hangs on it: its
flag is the AND of its children's, so that one of them is such a node, too, and comes
after it (`NoneHidden`). That `RoundsOf` is what its recursive equation says needs a
function that satisfies the equation, which is that of the leaves `Under` a node
(`RoundsOfIs`).

`PathFits` is a hypothesis of `RebuiltSeeds`, as it is of the property, and is proved
by itself: `PathFitsHolds` and, for the Merkle tree, `ProofFitsHolds` say that no
challenge makes `seed_path` or `tree_proof` store more than `TREE_NODES_TO_STORE` nodes,
for any `row` that solves the equation by which `MostSent` goes through the tree
(`WorstRows`) and whose value at the root is no larger than that constant. `MostSent` of
`CrossShape` is that solution by a recursive function; `cross_parameters` evaluates
it on the three real tables (`StoreSuffices`), and `MCCrossSignature` on its tree. The
argument is a tree recursion without induction: `HiddenCount` and `SentInside` count the
unpublished leaves and the sent nodes `Under` a node, both add over the two children of
a father (`HiddenSplits`, `SentSplits`), `Joined` takes the maximum over the ways to split
the hidden leaves (`JoinedRow`), and the last node with more sent nodes than its row
allows would have a child with more, too (`CountedFather`, `SentAtMost`).

`SeedsDistinctHolds` says that no node of the signer's tree is left unset, written
twice or expanded with another's domain separator: if no two expansions that occur in
the tree give the same seed, none gives the root seed and none gives zero
(`NoCollision`), all seeds differ. A random function of seeds this long is like that but
for a negligible chance. The argument takes the first node that has the seed of
another one; the library's induction theorems cannot be used by the provers, so a
least element (`LeastOf`) stands in for the induction.

Of `MerkleTreeSpec` it proves `TreeCompleteHolds`, `RecomputedRootHolds` and
`ProofUsedUpHolds`. Here all loops go from the last node to the first, so one number
describes them (`Front`): whatever is above it is hashed (`HashedFrom`), flagged (`OrFrom`,
`SameFlags`) and stored (`Stored`, `SlotsFrom`). `Rising` follows a flag from a leaf
on its way up, so that the root is always recomputed. `Rehashed` says what `recompute_root`
has made of the proof, damaged or not; from an undamaged one those are the signer's
digests (`DigestsArrive`). `PairDone` says what one pair adds;
a pass of `recompute_root` over two pairs is proved to be two of them, which is what
the `goto` relies on.

`CrossSignatureProofs` proves for the whole signature:

* `SignatureImplementsParts`: `Spec => ImplementsParts`. Every step of the composition
  is a step of the seed tree, of the Merkle tree and of the rounds, or one that
  each of them allows to its surroundings. `Phases` is the invariant for it: which
  function runs, and where all others stand meanwhile.
* `WeightKeptHolds`: `Spec => []WeightKept`, for any bytes drawn. A swap of two
  positions keeps the number of ones (`SwapKeepsWeight`).
* `SignatureOwnCommitments`, `SignatureVerifierAgrees`, `SignatureRebuiltSeeds`,
  `SignatureHiddenSeeds`, `SignaturePathUsedUp`, `SignatureTreeComplete`,
  `SignatureRecomputedRoot`, `SignatureProofUsedUp`, `SignatureSeedsDistinct`,
  `SignatureTypeCorrect`: the theorems about the parts hold for
  the whole signature, since it implements their specifications.
* `SignatureSameNumber`: `Spec => []SameNumber`: seed path and Merkle proof use equally many slots. The flags of the two trees
  are opposite (`FlagsOpposite`), and so the node that `seed_path` sends below a father
  is the one whose hash `tree_proof` sends (`SameCount`): the one constant
  `TREE_NODES_TO_STORE` serves both.
* `SignatureBuffersSuffice`: `Spec => [](PathFits /\ ProofFits)`, under the hypothesis of
  `PathFitsHolds`: neither copy of `CROSS_sign` writes behind its buffer of the signature.
* `SignatureAccepted`: completeness. A signature that arrives as it was made and whose
  nodes fit their buffers is never rejected. `Ended` joins the parts: the digests are
  still the ones of the signer's root and responses when `CROSS_verify` compares them. The
  theorem has the hypothesis that `is_fz_vec_in_restr_group_m` accepts the signer's own
  `v_G_bar`, whose arithmetic is not modelled.
* `SignatureRejected`: soundness. A signature that is accepted was not changed, in any
  slot of path, proof or responses, used or not, nor in a padding, unless the CSPRNG
  or a hash collides (`NoCollisions`).
* `SignatureVerdictRight`: both together, `Spec => [](NoCollisions => VerdictRight)`, under
  the hypotheses of `SignatureAccepted` and of `SignatureBuffersSuffice`.

The argument for `SignatureRejected` goes backwards through `CROSS_verify`. `AsSent`
describes a signature as `CROSS_sign` made it. It determines every slot, since each one in
use belongs to exactly one node or round and all others are cleared (`OnePath`, `OneProof`,
`SlotOfAnswer`, which find the owner of a slot by counting); hence a signature with
one changed slot is not `AsSent`, and stays so, because no later step of either side
touches the signature or the signer's half of the arrays (`Damaged`, `AnyOnward`). On the
other hand `OkMeansSent`: from equal roots follow, from the root down, the
proof and the commitments that the verifier computed (`DigestsMatch`), from those the
answers, from equal `cmt_1` the published seeds, and from those, from the leaves up, the
path (`SeedsMatch`); that the rest of both buffers is cleared is what
`is_mtree_padding_ok` and `is_stree_padding_ok` are for: without them the theorem is false.

`NoCollisions` compares only inputs that occur: the two parties' inputs to the same
hash of the same node or round. It is weaker than to assume injective functions
(`IdealNeverCollide`), which no hash of fixed length is. The digests of the signature,
`digest_cmt` and `digest_chall_2`, are in the model the tuples that are hashed, so that a
collision of those two hashes is left out. In the instance of `signature` the
functions are injective by construction.

Only model-checked:

* Liveness, which is out of the prover's reach: the end of the session and of
  `CROSS_verify` (`Completes`).
* Restarts with different numbers of runs on the two machines (run `restart`).
* `TreeFits` and `StoreSuffices` are about given tables and have nothing to prove
  beyond their evaluation. That `MostSent` solves `WorstRows` is the definition of its
  recursive function.

`ParsedIsOwn` of the TLS suite, `OthersKept`, `ResultsStored`, `TestingConfRestored` and
`FailedIsRetried` are false of the code; their runs show how.

## 5. Not modelled, and the plan

Not modelled:

* The vendored libraries. The repository has 1.75 million lines of code, of which the
  benchmark's own scripts are about eight thousand and a CROSS parameter set about
  five thousand. Nearly all the rest are the sources of OpenSSL, liboqs and the
  OQS provider: other projects' systems, of which a model would say nothing about
  this one. No model of the benchmark and of CROSS can cover a large share of
  those lines.
* Of CROSS: hashing, packing and unpacking, key generation, the algebra by which
  verifier and signer come to the same syndrome, and the parameter sets without
  vector code. The three vectorised sets share the code that is modelled; the map
  names the 256-bit set.
* BIKE: carry-less products and bit-sliced counters over long polynomials,
  without control flow of their own.
* The memory test programs, terminal output, and the text processing of
  `get_algorithms.py`.

Planned, in this order:

1. The averager and the row alignment of the parsers as operators, checked against
   a reference definition: an average is over the rows of its own algorithm and
   its own runs. (`results_averager.py` selects rows with `str.contains`, and
   builds the average over reused sessions from the frame of first uses.)
2. `Installation`: setup, cleaner and rebuild with their flag files.
3. The values of `source_code_modifier.sh` as operators.
4. The composition of a client session of `TestSession` with the handshake scripts:
   which step of which script fails when the result paths do not exist.
5. Proofs: restarts with different numbers of runs.
