# Zero-Trust CPS gateway: TLA+ models and proofs

This directory holds TLA+ models of the Zero-Trust CPS gateway (`src/src/`), of
the firmware it talks to (`src/firmware/main.py`), and of the scripts that
record, allocate and train what the gateway decides with (`src/scripts/`); the
TLC configurations that check them on small instances; and TLAPS proofs of the
properties that matter most for every value of the constants.  `PROJECT.json` maps every
definition to the lines it models.

Tools: `tlc -config X.cfg M` checks module `M`; `tlapm M.tla` checks the proofs
in `M`.

## 1. The system

A device signs every telemetry message and stamps it with a persisted
`boot_id`, a sequence number and its clock.  The gateway, one process with
several threads, lets it through a gate (registry, signature, replay,
freshness), scores it twice (security trust from how the device behaves on the
network, process trust from what the sensor says), looks the two scores up in a
policy, publishes a signed decision and writes an audit row.

| component | state | operations | interacts with |
|---|---|---|---|
| telemetry gate (`gateway.process_telemetry`, first half) | none of its own | verify, refuse, commit | registry, replay baselines, throttle; called by the MQTT thread and the HTTPS thread under `_pipeline_lock` |
| replay baselines (`trust_engine.auth_state`) | last boot id and seq per device, in memory | `check_boot_replay`, `commit_boot_seq`, `check_timestamp_freshness` | gate |
| identity-targeting throttle | attempt times and cooldown per claimed id, in memory | `record`, `is_throttled` | gate, on refusals |
| device registry (`config.DEVICE_REGISTRY`) | status, secret, previous secret, rotation time, in memory | `revoke_device`, `reinstate_device`, `rotate_key` | gate, decision signature, operator |
| audit log (`audit_log.py`) | SQLite table, checkpoint file | `log_decision`, three verifications | every thread of the gateway, dashboard threads |
| decision channel | boot counter file, sequence number per device; on the device the last pair | `_publish_decision`; `on_message` | gateway to firmware over MQTT |
| step-up challenge | one pending nonce per device and its time; on the device the nonce to echo | `initiate_step_up`, `check_step_up_response` | security trust, policy, firmware |
| security trust, flood check | score per device, arrival times | `score_security_trust`, `check_flood` | policy |
| process anomaly state | score and FRESH/STALE per device | `update_process_anomaly`, `get_process_anomaly` | policy, watchdog |
| policy | static table; or a bandit table seeded lazily | `decide`, `greedy_action` | both scores |
| auto-quarantine (off by default) | consecutive BLOCKs per device | `_apply_auto_quarantine` | registry, audit log |
| silence watchdog | devices reported silent | one sweep every 5 s | both states, audit log |
| dashboard | a cache of computed views | `_cached` | audit log |
| scorers, fusion, explanations | trained models, rolling windows, `last_shap` | a score per message | pipeline |
| supervisor (`run_gateway_supervised.py`) | none | starts the gateway again | process |
| session files, manifest | captured rows; captures per split | generators, merge, `assert_disjoint` | trainers, evaluations |
| trained files, pins, lineage sidecars | one file per model and table; recorded hashes | trainers, `verify`, `verify_policy_lineage` | evaluations, gateway |
| hardware capture | buffered records, marked intervals | callback, labelling, saving | MQTT client's thread; session files |

What makes it hard: several threads and two transports feed one pipeline; the
network (a broker) loses, delays, repeats and reorders; devices and the gateway
restart independently, and nearly all of the gateway's state is in memory while
the counters of both sides are in files; the audit log writes two stores one
after the other and is verified by threads that take no lock.

What makes each part correct:

* gate: what it accepts is a stream of messages the device published, ever
  newer; nothing it refuses has an effect on a device's baseline; a device in
  good standing is heard, and one that lost its boot counter is heard again;
  retired secrets expire.
* audit log: the chain is never forked or torn by the gateway itself; every
  edit is found by one of the three verifications; a verification that reports
  nothing was right.
* decision channel: a device acts on ever newer decisions, a restarted
  gateway's decisions supersede those of the earlier run, and the newest
  decision is never refused.
* step-up: a correct answer in time succeeds, and an answer fails only when it
  is late, a restart came between, or the challenge topic was not the gateway's
  alone.
* threads: an audit row speaks of one message; every silence is reported, when
  there is one and once; nobody waits for ever.
* quarantine, policy: only an unbroken run of BLOCKs revokes; an honest device
  is challenged fairly and allowed again; both policies agree where the bandit
  was not trained.
* lineage: no reported result is on rows a model met before; stages of the
  pipeline are fitted on different rows; what is used together was fitted
  together.
* capture: what a labelled session holds was recorded in a marked interval.

## 2. Modules

| module | models |
|---|---|
| `AcceptedStream` | abstract: what both signed channels promise |
| `TelemetryAuth` | gate, replay baselines, throttle, registry, device counters, restarts |
| `MCTelemetryAuth` | small instances of it (sets of numbers a cfg cannot write) |
| `TelemetryAuthProofs` | its theorems |
| `AuditChain` | audit log |
| `AuditChainProofs` | its theorems |
| `DecisionChannel` | decision channel, both ends |
| `DecisionChannelProofs` | its theorems |
| `StepUp` | step-up challenges on both sides, and auto-quarantine |
| `StepUpProofs` | its theorems |
| `GatewayThreads` | transports, watchdog, locks and shared memories of one gateway process, and its supervisor |
| `GatewayThreadsProofs` | its theorems |
| `TrustScore` | security trust score, static policy, buckets and the deployed policy table, as operators |
| `PolicyTable` | the table as messages and the dashboard use it |
| `PolicyTableProofs` | its theorems |
| `DeviceLoop` | one board and the gateway end to end, on top of `TrustScore` |
| `DeviceLoopProofs` | its theorems |
| `ModelLineage` | session files, manifest, trainers, pins, sidecars, evaluations |
| `ModelLineageProofs` | its theorems |
| `HardwareCapture` | the recording of a session on real boards |

Operators called *Mutant* in their comment are plausible bugs, each next to the
definition it would replace; nothing uses them.  They record which mistake each
property is able to catch (`PROJECT.json`, "mutants").

### AcceptedStream

Per device, `stream[d]` is the sequence of messages let through since their
receiver started.  A step publishes, takes one published message that is newer
than the last one taken, or forgets (a receiver restarts).  `TelemetryAuth`
implements it with the gateway as receiver of all streams, `DecisionChannel`
with each device as receiver of its own; the order is the one
`check_boot_replay` and the firmware's `check_decision_replay` share.

### TelemetryAuth

State: the registry (`key`, `prevKey`, `rotatedAt`, `revoked`), the replay
baselines (`lastSeen`), the throttle (`attempts`, `cooldownUntil`), the devices
(`boot`, `seq`, `skew`, `devKey`), a clock, and the network `sent`.  History
variables (`accepted`, `past`, `retired`, `minted`, `lives`) exist for the
properties.

One step handles one envelope, because `process_telemetry` holds
`_pipeline_lock` throughout.  The predicates `Registered`, `Admitted`,
`Signed`, `InOrder`, `Fresh`, `Authentic` follow the order of the checks in
`_process_telemetry`; the actions `RejectUnadmitted`, `RejectSignature`,
`DropThrottled`, `RejectSigned` and `Accept` are the ways out of it.  `Boot`
and `Publish` are the firmware's start-up and main loop, `TornBoot` a loss of
power between the emptying of the boot counter's file and its writing, after
which the firmware counts from 1 (`highest` remembers how far it was).  `Revoke`,
`Reinstate` and `RotateKey` are the operator's calls, `Restart` a new gateway
process.

The network keeps everything ever published and may hand over any of it at any
time: loss, delay, repetition and reordering over the two transports in one.
Envelopes no secret signed (`Unsigned`) claim any id, registered or not.

Abstractions: a signature is the number of the secret that made it; readings
are readable or not; the field-type checks refuse without an effect and are no
actions; `_reject`'s audit row belongs to `AuditChain`.  The module is one copy of
`gateway.py` (see `GatewayThreads`).

### AuditChain

State: the committed rows, the checkpoint file, the open transaction, the lock,
and per thread how far it is in `log_decision`.  `Call`, `Chain`, `Insert` and
`Commit` are its stages: fields put together, lock taken and predecessor read,
INSERT and checkpoint record, COMMIT and unlock.  `Fail` is an exception under
the lock, `Crash` the death of the process.  `NaiveEdit` and `Rewrite` change
the database from outside, without and with recomputed hashes.  `ScanStart`,
`ScanLine` and `ScanEnd` are `verify_against_checkpoints` in a dashboard
thread: no lock, one SELECT per line.  A hash is the sequence of everything
hashed so far, which is what collision resistance means here.

### DecisionChannel

State: the boot counter's file, `bootId`, `decisionSeq`, the registry's secret;
per device the flashed secret and the baseline in RAM.  `Start` reads and
empties the file, `PersistBootId` writes it; between them lies `DieStarting`.
`PublishDecision` is `_publish_decision`, `Act` is `on_message` with a decision
that passes both checks; refusals leave no trace and are no actions.  History:
the number of a process (`lives`), the last one that died in between
(`lastTorn`), and both for every decision (`life`, `since`).

### StepUp

State: the device's `toEcho`, the challenges on their way to it (`inbox`), the
echoes on their way back (`uplink`); the gateway's `pending` nonce and its
`age`, the run of BLOCKs (`blocks`), `revoked`.  `Process` is the second half of
`_process_telemetry` in its order: verdict, policy, escalation or new challenge
(`Settle`), then auto-quarantine (`CountBlock`).  `ProcessUnlogged` is the same
with `log_decision` raising, which skips `CountBlock`.  `Publish`, `Receive` and
`Reconnect` are the firmware's main loop and `on_message`.  Challenges are not
signed and the firmware takes any nonce on its topic, so `Stray` puts one there
that the gateway did not send: the pending one once more, or a `Foreign` one.
`recent` is the end of the audit log: what `ProcessUnlogged` decides is not in
it.

The module starts where the gate ends: telemetry arrives in order and not
twice, as `AcceptedStream` promises, but any of it may be lost.  Challenges
travel at QoS 0, the gateway's in order and none twice.  The policy may choose anything for any message, because the
scores are not modelled here.  Nonces are drawn from `os.urandom(16)`; the
model numbers them, so two challenges never share one.

### GatewayThreads

State: the pipeline lock and the memories (`window`, `features`, `shap`) of each
copy of the module, the chain lock, where each thread is and what it holds in
local variables, the ages of the last message and of the process state, the
silence state, the rows.  The steps of a transport's thread are the stretches of
`_process_telemetry` between two accesses to shared memory: `Take`, `Reject` or
`Accept`, `ScoreLSTM`, `ScoreRelational`, `Combine`, `Explain`, `TakeChain`,
`Log`, `Release`.  The watchdog visits the devices of a sweep in any order
(`Visit`, `Take`, `Look`, then the row).  `LogFails` is an exception in
`log_decision`: the HTTPS server goes on, the watchdog's thread ends, and in the
MQTT thread (`MQTTLogFails`) it ends the process, which `Supervise` starts again.

`coap_server.py` imports `gateway` inside its request handler.  When the gateway
is started as `python gateway.py` the running module is `__main__`, and that
import executes the file a second time.  `twice` says which of the two it is;
both are checked in every run.  A row and a score are known by the numbers of
the messages they were computed from.

### TrustScore, PolicyTable

Scores are integers in thousandths, because the code rounds to three digits
after every message; time is in tenths of a second, in each of which a score
loses a thousandth.  `Bucket` is what `int(score / 0.1)` gives, which at 0.3,
0.6 and 0.7 is one less than it should be; `Trained` holds the best action of
every state of the table deployed in `models/`.  `PolicyTable` adds the lazily
seeded states, the dashboard's view, which asks the same object and seeds states
too, and the challenge that ties a verdict to what went before: with none pending
there is no verdict, one older than ten seconds has timed out, and a younger one
is answered rightly, wrongly or not yet.  The first message finds a fresh score
and no message before it.

### DeviceLoop

State: the board's place in its loop, its connection, the nonce to echo, its
boot counter in memory and in the file; telemetry under way, decisions and
challenges under way; the gateway's side of the same.  A tick is the publish
interval of two seconds.  Within one the board publishes, drains up to eight
messages and sleeps, and the gateway handles what arrived; a *slip* delays a
message beyond its tick or skips a cycle, a *fault* loses a message, a connection,
the power or the gateway's memory.  Both have budgets.  Where inside a tick
something happens is not told, so an age of exactly the timeout may or may not
count as late, and two messages of a tick may or may not be a flood.  The scores
and the policy are `TrustScore`'s, with the deployed constants.

That `check_msg` handles one message and returns something other than `None`
is what `firmware/main.py` relies on and is assumed of the library.  Only the
gateway publishes challenges in this module; `StepUp` has others.

### ModelLineage

State: the captures, the manifest, the rows of each session file, the captures
behind each file of the virtual network, what every version of every trained
file was made from (`fit`: its rows; `below`: the rows of the models it was
scored with; `via`: which files and versions those were), the version on disk,
the pins' recorded versions, the tables' sidecars.  A version stands for a
sha256; a row is known by where it was drawn, a simulated session by its seed.
`Capture`, `Allocate`, `MergeReal`, the `Generate...` and `Train...` actions and
`Repin` are the scripts and the two things people do by hand.  An evaluation is
a state function: whether it goes through its checks, the rows it reports on,
everything fitted or tuned before, and the files it loads; nothing it writes is
read again.

### HardwareCapture

State: the records the callback appends to, the marks, how far the labelling
is.  The main thread and the MQTT client's thread interleave at the granularity
the interpreter's lock gives: an append, a read of an index, an assignment of
the list.

## 3. Runs

| run | module, cfg | expected | properties | shows |
|---|---|---|---|---|
| `auth_replay` | `MCTelemetryAuth`, `TelemetryAuth_replay.cfg` | pass | `AcceptedInOrder`, `LockoutBounded`, `ReplayExposureBounded`, `RejectionIsolation`, `ImplementsPromise` | One device that reboots, may lose its boot counter in doing so and whose clock may run fast, a network that repeats and reorders, a gateway restart: what is accepted is in order, is never replayed inside a life and only for two windows across one; no rejection moves the baseline, and only a lost counter locks the device out, until it has counted past where it was. |
| `auth_registry` | `MCTelemetryAuth`, `TelemetryAuth_registry.cfg` | pass | `TypeOK`, `RetiredKeysExpire`, `LatestIsAccepted` | Key rotations within and after the grace period, revocation and reinstatement, unreadable values, a stranger and the throttle: retired secrets expire and nothing keeps out the newest message of a device in good standing. |
| `audit_writers` | `AuditChain`, `AuditChain_writers.cfg` | pass | `ChainUnbroken`, `DriftIsBounded`, `LoggingProgresses` | Two threads log while calls fail and the process dies: the chain verifies in every state, checkpoint file and database drift apart only by one record per failure, and logging never wedges. |
| `audit_edits` | `AuditChain`, `AuditChain_edits.cfg` | pass | `TypeOK`, `EditIsDetected`, `TailIsCovered`, `CleanScanIsSound` | The database is edited twice, naively or consistently, while one thread logs and one verifies without a lock: what the three checks together promise to detect is detected. |
| `decision_restarts` | `DecisionChannel`, `DecisionChannel_restarts.cfg` | pass | `TypeOK`, `RestartSupersedes`, `NewestIsTaken`, `ImplementsPromise` | Five gateway processes, two of which may die while they rewrite the boot counter, key rotation, device reboots and a network that repeats and reorders: what a device acts on is a stream of ever newer decisions, the newest one gets through, and those of earlier processes are stale; a torn start suspends the last two for what was published before it, until it is outlived. |
| `stepup_challenges` | `StepUp`, `StepUp_challenges.cfg` | pass | `TypeOK`, `OpenIsPending`, `MismatchHasCause`, `VerdictIsFinal`, `UnbrokenOnRecord`, `ChallengeResolved` | Three challenges of one device and one on its topic that the gateway did not send, with lost and late messages on both ways, restarts, revocations and one message whose audit row fails: one challenge is open at a time, is judged once and ends; a wrong echo has a timed-out, forgotten or foreign challenge behind it; only an unbroken run of logged BLOCKs quarantines. |
| `model_lineage` | `ModelLineage`, `ModelLineage_retrain.cfg` | pass | `TypeOK`, `TestIsUntouched`, `StagesApart`, `PinnedIsMatched`, `LineageIsTrue` | Captures recorded, allocated (twice, too), merged and turned into virtual devices, any two trainings in any order, pins recorded anew, a policy trainer that dies before its sidecar: no evaluation that goes through reports on rows its models met, stages stay apart, what verifies belongs together. |
| `gateway_threads` | `GatewayThreads`, `GatewayThreads_threads.cfg` | pass | `TypeOK`, `RowIsOfOneMessage`, `OncePerEpisode`, `SilenceIsSound`, `SilenceRecorded`, `NobodyStuck` | Both transports and the silence watchdog in one process, with one copy of gateway.py or two, a row that cannot be written, a death of the process and the supervisor: a row speaks of one message, silence is reported when there is one, once, and nobody waits for ever. |
| `device_loop` | `DeviceLoop`, `DeviceLoop_honest.cfg` | pass | `TypeOK`, `HeardUnlessTorn`, `InTime`, `Recovers` | One honest board with the deployed timeout, cadence, drain and policy table, two losses, power cuts or restarts and one delay: challenges are answered in time unless something was lost, no session is refused unless its boot counter was torn, and the board is allowed again whatever failed. |
| `capture_race` | `HardwareCapture`, `HardwareCapture_race.cfg` | violation | `EveryRecordLabelled` | A message that arrives after the labelling and before the MQTT loop is stopped is saved with a labelled session, with no label. |
| `policy_boundary` | `PolicyTable`, `PolicyTable_boundary.cfg` | violation | `FallbackIsStatic` | A score of exactly 0.600 falls into the bucket below it, which the dashboard's view has seeded with STEP_UP: a device the static policy would allow is challenged. |
| `gateway_copies` | `GatewayThreads`, `GatewayThreads_copies.cfg` | violation | `SilentMeansUnheard` | With the gateway run as a script, the HTTPS server feeds a second copy of the module, and the watchdog of the first reports a device silent that has just been heard. |

No run uses symmetry.  `device_loop` checks for deadlock: board and gateway go on
for ever.  The other runs set `CHECK_DEADLOCK FALSE`, as every bounded counter
ends a behaviour: nothing has to happen any more once the budgets of boots,
messages and time are spent.

The bounds: two boot ids, two sequence numbers in each, three messages in all and
three ticks with a window of one tick give the gate every order of old, new, stale,
early and repeated messages; one loss of the boot counter after two sessions lets
the device go through both boot ids again.  A third rotation inside and outside the grace period is reached by
`MaxKey = 3` and `Grace = 1`; a threshold of two attempts starts the throttle
inside the run and lets it end again.  Two writer threads and an interval of
two rows give the audit log a forked predecessor, a checkpoint with and without
its row, and a second checkpoint; two edits allow an edit to be undone or
covered by another.  Five gateway processes and two torn starts give the
decision channel a reset counter that ordinary restarts outlive, or that is
reset once more; two decisions per process and two device reboots make old and
new decisions meet in either order.  Three nonces, two messages in flight and a timeout of one tick
let an echo arrive in time, late, after the next challenge was issued, and after
a restart; a run of two BLOCKs is the shortest that something can interrupt; one
stray challenge can come before, while or after a real one is pending.
Two messages over two transports and a limit of one interval let each thread
meet every stage of the other and a device fall silent before, between and
after them; with two messages a window of two slides.  One row that cannot be
written and one death suffice for each thread to fail with a lock in hand and
for the process to start anew.  `device_loop` has the deployed timeout (five
ticks), drain (eight), thresholds and table; two faults let a challenge fail,
and its successor fail too, or a power loss tear the file and another one show
it.  The listed run allows one slip, for the size of its state space.
The slack of the timeout is larger: checked apart, `InTime` holds with no fault
and three slips and fails with four, and with one fault holds with two and fails
with three (challenge and echo take two of five ticks, and both ends of the
interval may be cut).  Section 4 proves it for two slips and up to four faults.
Four nonces are enough for every nonce in use to differ.  One capture tells the
splits of `model_lineage` apart, because every list and every file says whether
it holds it; two trainings let a scorer change under a fusion, a table outlive
its pin, or a merge be trained on twice.  What only several captures could show,
a virtual network with all three splits built from disjoint captures, is covered
by the proof of `TestUntouched` for every set of captures.

### Fairness

`AuditChain`: `FairSpec` has weak fairness of each
thread's next step inside `log_decision`, which is what the operating system's
scheduler gives a runnable thread.  Nothing is assumed about which of several
waiting threads gets the lock, and nothing obliges a thread to call
`log_decision`, an exception to happen or the process to survive.
`LoggingProgresses` therefore says only that a row is committed or a call fails
again and again while some thread is inside.

`StepUp`: `FairSpec` has weak fairness of time and of the firmware's publish
loop, which runs every `PUBLISH_INTERVAL_MS` for ever, and strong fairness of
`Process`: a network that keeps delivering telemetry gets some of it through,
however much it loses.  Nothing is assumed about challenges reaching the
device, so `ChallengeResolved` covers a device that never hears one: its
challenge times out at its next message.

`GatewayThreads`: `FairSpec` has weak fairness of what each thread does once it
has a lock, of time, of the watchdog's sweep and of the supervisor, and strong
fairness of a transport's taking of the pipeline lock.  The last is more than
`threading.Lock` promises and less than it gives here: the watchdog sleeps most
of the time and at most one other thread competes.  Nothing obliges messages to
arrive, a row to fail or a process to survive; `SilenceRecorded` and
`NobodyStuck` name the deaths that excuse them.

`DeviceLoop`: `FairSpec` has weak fairness of the board's loop, of a reconnection
while the link is down, of the gateway's handling of the next message and of
time.  Faults and slips are never obliged to happen and end with their budget,
so `Recovers` speaks of a board whose troubles end.

### What the failing runs show

* **`EveryRecordLabelled`** (run `capture_race`, `src/scripts/collect_hardware_session.py:733`). main() calls finalise_labelled before client.loop_stop() (collect_hardware_session.py:733), so the callback still appends when the labelling is over; such a record keeps the phase "(pending mark)" and is saved. src/scripts/collect_hardware_session.py:528-533 says finalise_labelled "Assigns each buffered record the event whose MARKED interval contains its arrival time, and DROPS everything else". The committed session data/collected/hardware_session_20260902_221217_labelled.json holds one such record; virtual_device_generator.py:134 and generate_network_data.py:173 skip that phase, evaluate_real_hardware.py:273 counts it as a disturbance.
* **`FallbackIsStatic`** (run `policy_boundary`, `src/src/adaptive_pdp.py:105`). _get_q seeds a state nobody trained from the first score that asks for it, for every score of its bucket, and int(0.6 / 0.1) is 5, so a score of exactly 0.600 shares a bucket with 0.55. The run: the dashboard's view asks for 0.55 and seeds STEP_UP; a device's first message, a second one 10.5 s later and a third 0.3 s after that (a flood) bring its score to 0.853, 0.819 and 0.600, and it is challenged where the static policy says ALLOW. The other way round, 0.600 seeds ALLOW for the scores below it. src/src/gateway.py:624-630 tells the operator that "AdaptivePDP seeds an unvisited state from the static 2x2 table, so the gateway's decision there is the static policy's".
* **`SilentMeansUnheard`** (run `gateway_copies`, `src/src/coap_server.py:68`). gateway.py runs as __main__, and coap_server.py:68 (import gateway) therefore executes it a second time: HTTPS telemetry meets a second trust engine, pipeline lock and replay baseline, and no MQTT client, so its decisions and challenges are never published. The watchdog looks at the first copy only. src/src/gateway.py:1010-1011 writes "no message received within the staleness window" into the row; the run shows that row for a device the HTTPS copy has just heard. src/src/gateway.py:125-136 says of _pipeline_lock that both transports share it.

Divergences of the same kind that no listed run pins down; the listed properties
say what holds instead:

* Replay across a restart.  The baselines live in memory
  (`src/src/trust_engine.py:287`), so a message accepted before a gateway
  restart is accepted once more while its timestamp is fresh; `src/README.md:8-9`
  says that replayed traffic is rejected.  `ReplayExposureBounded` bounds it to
  two windows.  The second copy of the module has baselines of its own, too.
* Checkpoints.  A record is in its file before the row is committed
  (`src/src/audit_log.py:183`), and the dashboard compares the two without a
  lock (`:405`): after a failed call, or in the middle of one, a mismatch does
  not mean that "history was rewritten" (`:382-383`).  `DriftIsBounded` counts
  such records, `CleanScanIsSound` holds nevertheless.
* Torn boot counters.  Both sides empty the file before they write it
  (`src/src/gateway.py:437`, `src/firmware/main.py:197`).  A gateway that died
  in between signs with boot id 1 again; a board that did is refused until its
  counter has caught up.  `RestartSupersedes` and `NewestIsTaken` bound the one,
  `LockoutBounded` the other; `HeardUnlessTorn` says that nothing else has a board
  refused.
* An ALLOW whose row could not be written does not reset the run of BLOCKs
  (`src/src/gateway.py:386`, against `src/src/config.py:174-175`).
  What quarantines is a run in the audit log: `UnbrokenOnRecord`.
* `src/src/gateway.py:468-471` says of a nonce nobody asked for that the gateway
  "would simply not have a pending match" for its echo.  That is so while nothing
  is pending; otherwise `check_step_up_response` (`trust_engine.py:434-439`) ends
  the pending challenge as a MISMATCH, and the decision is BLOCK.
  `MismatchHasCause` names it as a cause.
* `src/firmware/main_sw420.py:412` still calls `check_msg` once per cycle;
  `main.py` was changed to drain, and `main_sw420.py:12-15` calls itself a
  byte-identical copy outside the sensor.  With one message per cycle `InTime`
  fails: this is the mutant `DrainOne`.
* `gateway.py:972-973` says both transitions of a silence are logged; the end is
  only printed (`:1016-1018`).
* `splits.py:127-128` says every script that consumes a split calls
  `assert_disjoint`; the virtual network's generator
  (`src/src/virtual_device_generator.py:125`) does not.  `TestIsUntouched` claims
  its studies clean only while nothing is allocated twice.
* Five evaluations (`evaluate_ablation`, `evaluate_explainability`,
  `evaluate_latency_stages`, `evaluate_trust_responsiveness`,
  `diagnose_high_rate_leak`) load the ambient fusion next to the graph scorer
  without a pin, and `evaluate_policy_comparison.py:264` scores the GCN pin's
  triples with the ambient table: `PinnedIsMatched` and `LineageIsTrue` say
  nothing about them, because they verify nothing.

## 4. Proofs

Every theorem holds for all values of the constants that satisfy the named
assumptions: `DevicesAssumption` (devices and strangers are disjoint, only
devices can be revoked), `ClockAssumption` (windows and thresholds are natural
numbers, clock errors integers), `IntervalAssumption` and `NobodyAssumption`
(the checkpoint interval is positive, "no thread" is not a thread),
`NoRowAssumption` ("no row" is not a row),
`ThresholdAssumption` (a natural timeout, a positive run length),
`LimitsAssumption` (a positive window and a positive staleness limit),
`VersionsAssumption` and `MaxRunsAssumption` (versions are natural numbers and 0
is one, trainings a natural number), `CapturesAssumption` (no capture has the
name of a simulated session), the `DevicesAssumption` of `GatewayThreads`
("nobody" is not a device), `TimesAssumption` (a tick and
a drain are positive), `NoncesAssumption` (no nonce is "none" or a decision),
`SlackAssumption` (below), and each module's `BoundsAssumption` (the bounds are
natural numbers).  The bounds
appear in guards only, so "for every bound" means "for runs of any length".
`SlackAssumption` is the exception: `ChallengeFollowed` and `AnsweredInTime`, and
no other theorem, need
`MaxSlips + 2 < Timeout` and `MaxSlips + MaxFaults + 2 <= Drained`, that is,
fewer delays than the timeout has ticks to spare, and a drain that reaches behind
every backlog the delays and losses can make.  Deployed, with a timeout of five
ticks and a drain of eight, this allows two slips and four faults.

| theorem | property | establishes |
|---|---|---|
| `TelemetryAuthProofs!TypeCorrect` | `TypeOK` | every variable of the gate stays in its range, for every value of the constants |
| `TelemetryAuthProofs!Inductive` |  | the inductive invariant of the gate: counters of devices that may lose them, baseline = last accepted message, secrets minted once |
| `TelemetryAuthProofs!AcceptedOrdered` | `AcceptedInOrder` | what is accepted in one gateway life strictly advances, per device |
| `TelemetryAuthProofs!RetiredExpire` | `RetiredKeysExpire` | no secret verifies a message longer than the grace period after it was rotated out |
| `TelemetryAuthProofs!LockoutEnds` | `LockoutBounded` | only a lost boot counter lets the baseline refuse a device's next message, and the baseline stays at or below the highest boot id the device had used |
| `TelemetryAuthProofs!ReplayBounded` | `ReplayExposureBounded` | what an earlier gateway life accepted is stale two windows later |
| `TelemetryAuthProofs!RejectionsLeaveNoTrace` | `RejectionIsolation` | a step that accepts nothing of a device leaves its baseline alone |
| `TelemetryAuthProofs!NewestGetsThrough` | `LatestIsAccepted` | the newest message of a device in good standing, past every boot id it used before it lost a counter, passes every check |
| `TelemetryAuthProofs!GateImplementsStream` | `ImplementsPromise` | the gate implements the abstract stream of ever newer published messages |
| `AuditChainProofs!ChainNeverBreaks` | `ChainUnbroken` | with no edits the chain verifies in every state, whatever threads, failures and crashes do |
| `DecisionChannelProofs!TypeCorrect` | `TypeOK` | every variable of the decision channel stays in its range |
| `DecisionChannelProofs!DevicesImplementStream` | `ImplementsPromise` | the decisions a device acts on implement the abstract stream, torn boot counters or not |
| `DecisionChannelProofs!Inductive` |  | the inductive invariant of the decision channel: baselines, and the boot counter as the number of processes since the last torn start |
| `DecisionChannelProofs!Supersedes` | `RestartSupersedes` | a decision of an earlier gateway process is stale for a device that acted on a later one's, unless a torn start lies between them and has not been outlived |
| `DecisionChannelProofs!NewestTaken` | `NewestIsTaken` | the newest decision of the running gateway is acted on, or would be, except by a device that acted on one from before a torn start not yet outlived |
| `StepUpProofs!TypeCorrect` | `TypeOK` | every variable of the step-up part stays in its range |
| `StepUpProofs!OneOpenChallenge` | `OpenIsPending` | the one challenge without a verdict is the pending one |
| `StepUpProofs!VerdictsAreFinal` | `VerdictIsFinal` | a challenge has one verdict, once |
| `StepUpProofs!Inductive` |  | the inductive invariant about nonces: the pending one is the newest; while only the gateway sends challenges, each is under way at most once and none after it was answered |
| `StepUpProofs!MismatchExplained` | `MismatchHasCause` | a wrong echo has an earlier timeout or forgotten challenge behind it, or a challenge the gateway did not send |
| `StepUpProofs!QuarantineIsEarned` | `UnbrokenOnRecord` | only RunLength BLOCKs in a row of the audit log quarantine a device, whatever was not logged in between |
| `ModelLineageProofs!Invariance` |  | the inductive invariant: rows and virtual devices from the manifest into session files, from there into trained files; pins and sidecars name what was trained together |
| `ModelLineageProofs!TypeCorrect` | `TypeOK` | every variable of the lineage stays in its range |
| `ModelLineageProofs!TestUntouched` | `TestIsUntouched` | no script that goes through reports on rows its models met, whatever was captured, allocated, merged and trained before; for the virtual studies, as long as nothing is allocated twice |
| `ModelLineageProofs!StagesStayApart` | `StagesApart` | every fusion and table ever trained was fitted on rows nothing below it was fitted on |
| `ModelLineageProofs!PinsStayMatched` | `PinnedIsMatched` | a pin that verifies is a fusion with the scorer it was fitted on |
| `ModelLineageProofs!LineageStaysTrue` | `LineageIsTrue` | a table that passes the lineage check was trained on the files it meets, unless its trainer died before the sidecar |
| `GatewayThreadsProofs!Invariance` |  | the inductive invariant: whoever is inside holds the lock of its copy, and what a thread holds is what the memory still says |
| `GatewayThreadsProofs!TypeCorrect` | `TypeOK` | every variable of the gateway's threads stays in its range |
| `GatewayThreadsProofs!RowsAreOfOneMessage` | `RowIsOfOneMessage` | a telemetry row's window, peers, attribution and explanation are of the message it names |
| `GatewayThreadsProofs!PipelineIsExclusive` |  | whoever is inside the pipeline holds the lock of its copy, and one thread does |
| `GatewayThreadsProofs!SilenceSound` | `SilenceIsSound` | no SILENT row of a device its own copy has heard within the limit |
| `DeviceLoopProofs!Invariance` |  | the inductive invariant: a session's number from the board's file through the messages under way to the gateway's last seen one |
| `DeviceLoopProofs!TypeCorrect` | `TypeOK` | every variable of board and gateway stays in its range: boot numbers are bounded by the power losses, the score is one under every verdict |
| `DeviceLoopProofs!NeverRefused` | `HeardUnlessTorn` | a board that never lost power between emptying and writing its boot number is never refused |
| `AuditChainProofs!Invariance` |  | the inductive invariant of the audit log under edits from outside, failed calls and crashes |
| `AuditChainProofs!TypeCorrect` | `TypeOK` | rows, records, scans and every thread's stage stay in their ranges, for any number of edits |
| `AuditChainProofs!DriftStaysBounded` | `DriftIsBounded` | without edits, the checkpoint file has at most one stray record for each failed call or crash, apart from that of the row about to be committed |
| `AuditChainProofs!EditsAreDetected` | `EditIsDetected` | a row that no longer says what was logged is found by the full scan or by the checkpoints, once a checkpoint at or after it was written before the first edit; whatever was edited, recomputed and logged since |
| `AuditChainProofs!TailStaysCovered` | `TailIsCovered` | a row edited after the newest checkpoint without recomputing hashes does not pass the tail check |
| `AuditChainProofs!CleanScansAreSound` | `CleanScanIsSound` | what the dashboard's scan reports clean was consistent all at once unless somebody edited meanwhile, although the scan takes no lock |
| `GatewayThreadsProofs!SilenceToldOnce` | `OncePerEpisode` | two SILENT rows of a device in one life of the process have a message of it scored in between, for any number of devices, messages and copies |
| `DeviceLoopProofs!ChallengeFollowed` |  | the inductive invariant of a challenge's way: its nonce is in one place at a time, no older than slips and stages allow, and within reach of the next drain |
| `DeviceLoopProofs!AnsweredInTime` | `InTime` | a challenge issued while no older nonce was under way fails only after a loss, for every timeout longer than slips and two stages, and every drain as deep as the backlog |
| `PolicyTableProofs!TableIsStaticInside` |  | every entry the running table gains is the static policy's answer for some pair of scores of that state, whoever asked first, whatever was challenged and answered |
| `PolicyTableProofs!DepartureIsBounded` |  | where the fallback decides otherwise than the static policy, in either direction, one of the two scores is between 0.5 and 0.6: how far the finding FallbackIsStatic reaches |

**Gate.**  `IInv` of `TelemetryAuth`: nothing in the network is newer than the
device's own counters, but for the boot ids it went through before it lost its
counter (`SentInv`); a device's baseline is the pair of the last
message accepted in this life (`StreamInv`); the accepted messages strictly
advance; what earlier lives accepted was timely when it was accepted; secrets
are minted once, so a retired one is never the current one again, and as long as
it is the previous one the rotation time is still its own (`KeyInv`).  None of the properties is
inductive without the others: `LockoutBounded` needs that whatever moved the
baseline was published by the device, `AcceptedInOrder` that the baseline is the
last message and not some older one, `RetiredKeysExpire` that no rotation
brings an old secret back.  `GateImplementsStream` maps `accepted` (its message
parts) to the abstract `stream` and shows every step a publication, a newer
message taken, a restart that forgets, or a stutter.

**Audit log.**  `ChainInv`: while nobody edited the database, the rows verify;
a thread between reading its predecessor and committing holds the lock; and what
it read is still the last hash.  The last part
is what `_chain_lock` is for and the reason the chain cannot fork.  The other
properties speak of edited databases and need `IInv`, which is inductive with
edits from outside: rows keep what was logged until they are edited, and their
hash until it is recomputed (`RowsKept`); every `Interval`-th row was attested as
it was committed, and no record is further ahead than the row about to be
committed (`RecordsKept`); a record written before the first edit says in its
hash what every row below it said (`HonestSay`); the records without a row are
no more than the failed calls and deaths (`LostToFaults`); and what a scan in
progress has passed still holds (`ScanTrue`), which is why it may go without a
lock.  `EditsAreDetected` is then an argument about one hash: if the full scan
passes, the hash at the attested row spells out all rows up to it
(`HashSaysAll`), so the first row that differs differs from the record.  The steps
over all rows are inductions; they are proved through a least counterexample
(`LeastNatural`, from the well-foundedness of the naturals).

**Decision channel.**  `ActedInv` (the baseline of a device is the last decision
it acted on in this boot) suffices for the refinement, torn counters or not.
`CounterInv` says that the boot id and (outside a start) the file count the
gateway processes since the last torn start; `SentInv` that a decision carries
that number, that decisions with no torn start between them count from the same
one, that a torn process published nothing, and that a sequence number is unique
in its process and not above its counter.  `Supersedes` and `NewestTaken` follow
by arithmetic: once as many processes came after a torn start as before it, every
boot id since is above every one before.

**Step-up.**  `EchoInv`: every nonce is under way (on its way to the device,
waiting in it, or on its way back) at most once (`SentOnce`), none after its
challenge succeeded (`NoneAnswered`), and the pending nonce is the newest
(`Issued`); the first two as long as the gateway's challenges are the only ones.
A wrong echo is then an older nonce whose challenge neither
succeeded nor is open, so it failed or was forgotten.  For the quarantine,
`RunCounted`: the counter is at most the number of BLOCKs at the end of the
audit log.

**Threads.**  `IInv` of `GatewayThreads`: who is inside the pipeline holds the
lock of its copy (`LockHeld`); what a transport's thread holds is what the memory
of its copy still says, stage by stage (`WorkTrue`); between look and row the
device stays unheard (`WatchTrue`); and a device heard is a device updated, or
about to be (`HeardIsUpdated`).  `RowIsOfOneMessage` needs the second because
window, peers and attribution are read again after they were written, and
`SilenceSound` needs the last two because the watchdog reads one table and
reports on another.  `SilenceToldOnce` needs `EpisodeInv`: a silence is known by
the last message of the device that was scored before it, that message is
never scored again, and as long as it is the last, the device is still in the
alerted set and still silent to the next look (`StillAlerted`); so nobody is
about to write a second row for it (`ToldOnce`).

**Lineage.**  Rows reach a session file through the manifest only
(`RowsAllocated`, `VirtualAllocated`); a file is made from the rows its stage may
use and from files of the stages below (`MadeInStages`); so what a network
evaluation reports on is apart from all of it (`TestRowsApart`).  `PinsMatched`
and `SidecarsTrue` carry, in every pin and sidecar, the versions that were
trained together, which is what `Verified` and `LineageHolds` compare later.
`TestUntouched` then needs no bound on captures, versions or trainings.

**Board.**  `IInv` of `DeviceLoop`: a new session has a power loss behind it
(`BootsBounded`), and as long as the file was never torn, file, board, messages
under way and gateway carry the boot number in that order (`BootsInOrder`).
The score's range is a lemma on `Trust` (`ScoreRange`), the policy's on the
seeded table (`SeededRange`).  `AnsweredInTime` rests on `TimelyInv`: as long as
nothing of it was lost, the nonce of a challenge is in one place, waiting within
reach of the next drain, held by the board, under way back, or in a session
the gateway refuses altogether (`NonceKept`), and its age is at most the slips so far
and the ticks its place takes.  That it is within reach of the drain is
`Backlog`, a bound on all that is under way: every drain takes a decision, if
there is one, so only delays and losses let the inbox grow.

**Policy.**  `TableInv`: every entry that the running gateway adds to its table is
what the static policy says of some pair of scores of that state, whether a message or the
dashboard asked first (`TableIsStaticInside`).  One bucket mixes scores from both sides of the threshold,
the one from 0.5 that, by floating-point division, 0.6 falls into as well
(`BucketSides`, `SameSide`).  So the divergence the run of `FallbackIsStatic` finds is confined to it
(`DepartureIsBounded`), in either direction, for every gap between messages, every
way a challenge is answered and every process score from 0 to 1000.


## 5. Only model-checked, and not modelled

Liveness (`LoggingProgresses`, `ChallengeResolved`, `SilenceRecorded`,
`NobodyStuck`, `Recovers`) is model-checked only: TLAPS here proves safety, not
leads-to under fairness or anything with ENABLED.  Every other property of a
passing run is a theorem as well.  The properties that a run finds violated have no
theorem; of one of them, `FallbackIsStatic`, Section 4 proves how far the
violation reaches.  Induction over rows is done by hand, through a least
counterexample; nothing is claimed about what a recursive definition computes,
and the project has no RECURSIVE operator.

Not modelled, and why: what the anomaly scorers, fusion, feature engineering and
the virtual devices' signals compute is numerical; governance views and
dashboard pages only read; the dashboard's read cache delays what an operator
sees and decides nothing; the simulator and the script that attacks a running
gateway are test drivers; figure scripts format finished results; TLS, MQTT and
HTTP are libraries, present as the network's freedom to lose, repeat and reorder.
A step-up over the second copy of the module (it has no MQTT client, so its
challenges reach nobody) is described above and not modelled further.

## 6. Plan

Done in this order: gate, audit log, decision channel, step-up with
auto-quarantine; then threads and silence, score and policy, the board's loop
end to end, model lineage, hardware capture.  What is left:

1. Proofs: that `AuditChain` implements a ledger that is only appended to while
   nobody edits it; for `HardwareCapture`, which intervals a
   labelled record can come from.  Liveness stays with TLC.
2. Composition of gate, step-up, decision and audit log for one message: every
   decision acted on has its row unless a call failed.
3. `ReadCache`: `_cached` computes between two lock sections, so an older value
   may be stored over a newer one.
4. Lineage checks in the five evaluations that verify nothing, once they call
   `verify`.

