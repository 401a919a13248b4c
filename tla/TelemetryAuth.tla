---------------------------- MODULE TelemetryAuth ----------------------------
(***************************************************************************)
(* The authentication gate every telemetry envelope passes before it may   *)
(* touch a device's state: src/gateway.py _process_telemetry down to       *)
(* commit_boot_seq, with src/trust_engine.py's replay baseline, freshness  *)
(* check, identity-targeting throttle and device registry operations, the  *)
(* firmware's boot_id/seq/ts stamping, and restarts of device and gateway. *)
(*                                                                         *)
(* - One step handles one envelope: process_telemetry holds _pipeline_lock *)
(*   from the first check to the last write.                               *)
(* - The network keeps every envelope ever published and hands any of them *)
(*   over at any time, any number of times: loss, delay, reordering (two   *)
(*   transports feed the gate) and redelivery in one.                      *)
(* - An envelope whose signature no secret explains carries key = NoKey.   *)
(* - What the rest of the pipeline does with an accepted message (scores,  *)
(*   decision, audit row) is in other modules; here it is the stream of    *)
(*   messages let through.  An envelope that fails the field-type checks   *)
(*   is dropped without any effect and needs no action.                    *)
(* - The module is one copy of gateway.py.  Run as a script, the HTTPS     *)
(*   server's is a second one (GatewayThreads), with baselines and a       *)
(*   throttle of its own and the same registry.                            *)
(***************************************************************************)
EXTENDS Integers, Sequences, FiniteSets

CONSTANTS
    Device,         \* registered ids (DEVICE_REGISTRY)
    Stranger,       \* claimed ids that are not registered
    Window,         \* REPLAY_WINDOW_SECONDS
    Grace,          \* KEY_ROTATION_GRACE_SECONDS
    RiskWindow,     \* IdentityTargetingRisk.window_seconds
    RiskThreshold,  \* IDENTITY_TARGETING_RISK_THRESHOLD_60S
    Cooldown,       \* IDENTITY_TARGETING_COOLDOWN_SECONDS
    Skews,          \* errors a device clock can have after sync_time()
    Readings,       \* whether a published reading is finite and numeric
    Revocable,      \* bound: the devices the operator may revoke
    MaxTime, MaxBoot, MaxTears, MaxSeq, MaxSent, MaxKey, MaxLives, MaxAttempts  \* bounds

ASSUME DevicesAssumption == Device \cap Stranger = {} /\ Revocable \subseteq Device
ASSUME ClockAssumption ==
    /\ Window \in Nat /\ Grace \in Nat
    /\ RiskWindow \in Nat /\ RiskThreshold \in Nat /\ Cooldown \in Nat
    /\ Skews \subseteq Int
    /\ Readings \subseteq BOOLEAN
ASSUME BoundsAssumption ==
    /\ MaxTime \in Nat /\ MaxBoot \in Nat /\ MaxSeq \in Nat /\ MaxSent \in Nat
    /\ MaxTears \in Nat /\ MaxKey \in Nat /\ MaxLives \in Nat /\ MaxAttempts \in Nat

VARIABLES
    now,            \* the clock of gateway and devices, from the first start on
    boot,           \* boot[d]: the number in d's counter file, the boot_id of its
                    \* running session (0: no number there, no session)
    highest,        \* history: highest[d]: the highest boot_id d has used before it
                    \* last lost its counter (0: it never did)
    tears,          \* number of counter files lost
    seq,            \* seq[d]: last sequence number d published in it
    skew,           \* skew[d]: error of d's clock in this session
    devKey,         \* devKey[d]: the secret flashed into d
    sent,           \* every message a device published
    lastSeen,       \* lastSeen[d]: the replay baseline in auth_state
    revoked,        \* devices with status "revoked"
    key,            \* key[d]: registry "secret"
    prevKey,        \* prevKey[d]: registry "secret_previous"
    rotatedAt,      \* rotatedAt[d]: registry "key_rotated_at"
    attempts,       \* attempts[c]: times of failed attempts claiming id c
    cooldownUntil,  \* cooldownUntil[c]: end of c's throttle
    minted,         \* minted[d]: newest secret ever generated for d
    lives,          \* number of the running gateway process
    accepted,       \* accepted[d]: messages let through in this life, with times
    past,           \* history: acceptances of earlier gateway lives
    retired         \* history: [dev, key, at] of every rotation in this life

deviceVars   == <<boot, highest, tears, seq, skew, devKey, sent>>
keyVars      == <<key, prevKey, rotatedAt, minted, retired>>
riskVars     == <<attempts, cooldownUntil>>
lifeVars     == <<lives, past>>
vars == <<now, deviceVars, lastSeen, revoked, keyVars, riskVars, lifeVars, accepted>>

NoKey   == 0
NoBoot  == -1    \* last_seen_boot_id is None
NoTime  == -1    \* key_rotated_at is None
ClaimedId == Device \cup Stranger

Message == [dev : ClaimedId, boot : Nat, seq : Nat, ts : Int, key : Nat,
            readable : BOOLEAN]
Baseline == [boot : Nat \cup {NoBoot}, seq : Nat]
FirstContact == [boot |-> NoBoot, seq |-> 0]
Acceptance == [msg : Message, at : Nat]

(* The registry and every in-memory table as a fresh process builds them. *)
Init ==
    /\ now = 0
    /\ boot = [d \in Device |-> 0]
    /\ highest = [d \in Device |-> 0]
    /\ tears = 0
    /\ seq = [d \in Device |-> 0]
    /\ skew = [d \in Device |-> 0]
    /\ devKey = [d \in Device |-> 1]
    /\ sent = {}
    /\ lastSeen = [d \in Device |-> FirstContact]
    /\ revoked = {}
    /\ key = [d \in Device |-> 1]
    /\ prevKey = [d \in Device |-> NoKey]
    /\ rotatedAt = [d \in Device |-> NoTime]
    /\ minted = [d \in Device |-> 1]
    /\ attempts = [c \in ClaimedId |-> << >>]
    /\ cooldownUntil = [c \in ClaimedId |-> 0]
    /\ lives = 1
    /\ accepted = [d \in Device |-> << >>]
    /\ past = {}
    /\ retired = {}

-----------------------------------------------------------------------------
(* Devices and time. *)

(* Mutant of Boot: the boot counter is not persisted, every session is the *)
(* first one.                                                              *)
BootForgetful(d) ==
    /\ boot[d] < MaxBoot
    /\ boot' = [boot EXCEPT ![d] = 1]
    /\ seq' = [seq EXCEPT ![d] = 0]
    /\ \E s \in Skews : skew' = [skew EXCEPT ![d] = s]
    /\ \E k \in {devKey[d], key[d]} : devKey' = [devKey EXCEPT ![d] = k]
    /\ UNCHANGED <<now, highest, tears, sent, lastSeen, revoked, keyVars, riskVars,
                   lifeVars, accepted>>

(* Power-up: the boot counter goes up by one, from nothing to 1 when its   *)
(* file is missing or empty, and is written back; seq restarts, the clock  *)
(* is set, possibly wrongly; a re-flashed board may carry the registry's   *)
(* current secret.                                                         *)
Boot(d) ==
    /\ boot[d] < MaxBoot
    /\ boot' = [boot EXCEPT ![d] = @ + 1]
    /\ seq' = [seq EXCEPT ![d] = 0]
    /\ \E s \in Skews : skew' = [skew EXCEPT ![d] = s]
    /\ \E k \in {devKey[d], key[d]} : devKey' = [devKey EXCEPT ![d] = k]
    /\ UNCHANGED <<now, highest, tears, sent, lastSeen, revoked, keyVars, riskVars, lifeVars,
                   accepted>>

(* Power is lost in the middle of that: opening the file for writing has   *)
(* emptied it and the number is not in it yet.  The next start finds no    *)
(* number and counts from 1 again.                                         *)
TornBoot(d) ==
    /\ tears < MaxTears
    /\ tears' = tears + 1
    /\ boot' = [boot EXCEPT ![d] = 0]
    /\ highest' = [highest EXCEPT ![d] = IF boot[d] > @ THEN boot[d] ELSE @]
    /\ seq' = [seq EXCEPT ![d] = 0]
    /\ UNCHANGED <<now, skew, devKey, sent, lastSeen, revoked, keyVars, riskVars,
                   lifeVars, accepted>>

(* One pass of the firmware's main loop: stamp, sign, publish. *)
Publish(d) ==
    /\ boot[d] > 0
    /\ seq[d] < MaxSeq /\ Cardinality(sent) < MaxSent
    /\ seq' = [seq EXCEPT ![d] = @ + 1]
    /\ \E r \in Readings :
          sent' = sent \cup {[dev |-> d, boot |-> boot[d], seq |-> seq[d] + 1,
                              ts |-> now + skew[d], key |-> devKey[d],
                              readable |-> r]}
    /\ UNCHANGED <<now, boot, highest, tears, skew, devKey, lastSeen, revoked, keyVars,
                   riskVars, lifeVars, accepted>>

Tick ==
    /\ now < MaxTime
    /\ now' = now + 1
    /\ UNCHANGED <<deviceVars, lastSeen, revoked, keyVars, riskVars, lifeVars, accepted>>

-----------------------------------------------------------------------------
(* The checks, in the order of _process_telemetry.  Each one presupposes   *)
(* those before it.                                                        *)

Registered(m) == m.dev \in Device

Admitted(m) == Registered(m) /\ m.dev \notin revoked

GraceOver(d) == rotatedAt[d] = NoTime \/ now - rotatedAt[d] > Grace

(* verify_signature: the current secret, else the previous one in grace. *)
VerifySignature(m) ==
    \/ m.key # NoKey /\ m.key = key[m.dev]
    \/ prevKey[m.dev] # NoKey /\ ~GraceOver(m.dev) /\ m.key = prevKey[m.dev]

IsThrottled(c) == now < cooldownUntil[c]

(* Mutant of Signed: the throttle is consulted before the signature. *)
SignedUnthrottled(m) == Admitted(m) /\ ~IsThrottled(m.dev) /\ VerifySignature(m)

Signed(m) == Admitted(m) /\ VerifySignature(m)

(* Mutant of Advances: off by one, the same sequence number passes again. *)
AdvancesOrRepeats(m, b) ==
    \/ m.boot > b.boot
    \/ m.boot = b.boot /\ m.seq >= b.seq

(* Does (boot, seq) advance the baseline b?  The negation of what          *)
(* check_boot_replay reports.                                              *)
Advances(m, b) ==
    \/ m.boot > b.boot
    \/ m.boot = b.boot /\ m.seq > b.seq

InOrder(m) == Signed(m) /\ m.readable /\ Advances(m, lastSeen[m.dev])

(* Mutant of Fresh: only old timestamps are refused, future ones pass. *)
NotOld(m) == now - m.ts <= Window

Fresh(m) == now - m.ts <= Window /\ m.ts - now <= Window

Authentic(m) == InOrder(m) /\ Fresh(m)

-----------------------------------------------------------------------------
(* What a failed check does.                                               *)

(* Attempts still inside the risk window, oldest first. *)
Recent(c) ==
    LET expired == {i \in DOMAIN attempts[c] : now - attempts[c][i] > RiskWindow}
    IN  SubSeq(attempts[c], Cardinality(expired) + 1, Len(attempts[c]))

(* Mutant of Reject: the cooldown is set backwards. *)
RejectBackwards(m) ==
    LET c == m.dev
        run == Append(Recent(c), now)
    IN  /\ Len(run) <= MaxAttempts
        /\ attempts' = [attempts EXCEPT ![c] = run]
        /\ cooldownUntil' = IF Len(run) >= RiskThreshold
                            THEN [cooldownUntil EXCEPT ![c] = now - Cooldown]
                            ELSE cooldownUntil
        /\ UNCHANGED <<now, deviceVars, lastSeen, revoked, key, rotatedAt, minted,
                       retired, lifeVars, accepted>>

(* _reject: the attempt counts against the claimed id, and only there. *)
Reject(m) ==
    LET c == m.dev
        run == Append(Recent(c), now)
    IN  /\ Len(run) <= MaxAttempts
        /\ attempts' = [attempts EXCEPT ![c] = run]
        /\ cooldownUntil' = IF Len(run) >= RiskThreshold
                            THEN [cooldownUntil EXCEPT ![c] = now + Cooldown]
                            ELSE cooldownUntil
        /\ UNCHANGED <<now, deviceVars, lastSeen, revoked, key, rotatedAt, minted,
                       retired, lifeVars, accepted>>

(* verify_signature_with_rotation forgets a previous secret once it finds  *)
(* the grace period over.                                                  *)
ForgetExpiredKey(d) ==
    prevKey' = IF rotatedAt[d] # NoTime /\ GraceOver(d)
               THEN [prevKey EXCEPT ![d] = NoKey] ELSE prevKey

RejectUnadmitted(m) ==
    /\ ~Admitted(m)
    /\ Reject(m)
    /\ UNCHANGED prevKey

RejectSignature(m) ==
    /\ Admitted(m) /\ ~Signed(m)
    /\ ~IsThrottled(m.dev)
    /\ ForgetExpiredKey(m.dev)
    /\ Reject(m)

(* During the cooldown a bad signature is dropped without a trace. *)
DropThrottled(m) ==
    /\ Admitted(m) /\ ~Signed(m)
    /\ IsThrottled(m.dev)
    /\ ForgetExpiredKey(m.dev)
    /\ UNCHANGED <<now, deviceVars, lastSeen, revoked, key, rotatedAt, minted, retired,
                   riskVars, lifeVars, accepted>>

(* Mutant of RejectSigned: the baseline is advanced in the replay check,   *)
(* before the freshness check refuses the message.                         *)
RejectSignedEager(m) ==
    /\ Signed(m) /\ ~Authentic(m)
    /\ attempts' = [attempts EXCEPT ![m.dev] = Append(Recent(m.dev), now)]
    /\ lastSeen' = IF InOrder(m)
                   THEN [lastSeen EXCEPT ![m.dev] = [boot |-> m.boot, seq |-> m.seq]]
                   ELSE lastSeen
    /\ UNCHANGED <<now, deviceVars, revoked, keyVars, cooldownUntil, lifeVars, accepted>>

(* malformed_reading, a replay, a superseded session or a stale timestamp. *)
RejectSigned(m) ==
    /\ Signed(m) /\ ~Authentic(m)
    /\ Reject(m)
    /\ UNCHANGED prevKey

(* Mutant of Commit: inside a session the baseline stays at its first      *)
(* message.                                                                *)
CommitBootOnly(m) ==
    lastSeen' = IF m.boot > lastSeen[m.dev].boot
                THEN [lastSeen EXCEPT ![m.dev] = [boot |-> m.boot, seq |-> m.seq]]
                ELSE lastSeen

(* commit_boot_seq: the baseline never moves back. *)
Commit(m) ==
    lastSeen' = IF Advances(m, lastSeen[m.dev])
                THEN [lastSeen EXCEPT ![m.dev] = [boot |-> m.boot, seq |-> m.seq]]
                ELSE lastSeen

Accept(m) ==
    /\ Authentic(m)
    /\ Commit(m)
    /\ accepted' = [accepted EXCEPT ![m.dev] = Append(@, [msg |-> m, at |-> now])]
    /\ UNCHANGED <<now, deviceVars, revoked, keyVars, riskVars, lifeVars>>

Deliver(m) ==
    \/ RejectUnadmitted(m)
    \/ RejectSignature(m)
    \/ DropThrottled(m)
    \/ RejectSigned(m)
    \/ Accept(m)

(* An envelope that no secret signed, claiming any id and the newest       *)
(* session there could be.                                                 *)
Unsigned == {[dev |-> c, boot |-> MaxBoot + 1, seq |-> 1, ts |-> now,
              key |-> NoKey, readable |-> TRUE] : c \in ClaimedId}

-----------------------------------------------------------------------------
(* The registry's operations, and a restart of the gateway process.        *)

Revoke(d) ==
    /\ revoked' = revoked \cup {d}
    /\ UNCHANGED <<now, deviceVars, lastSeen, keyVars, riskVars, lifeVars, accepted>>

Reinstate(d) ==
    /\ revoked' = revoked \ {d}
    /\ UNCHANGED <<now, deviceVars, lastSeen, keyVars, riskVars, lifeVars, accepted>>

(* Mutant of RotateKey: a second rotation keeps the oldest secret. *)
RotateKeepingOldest(d) ==
    /\ minted[d] < MaxKey
    /\ minted' = [minted EXCEPT ![d] = @ + 1]
    /\ prevKey' = [prevKey EXCEPT ![d] = IF @ = NoKey THEN key[d] ELSE @]
    /\ key' = [key EXCEPT ![d] = minted[d] + 1]
    /\ rotatedAt' = [rotatedAt EXCEPT ![d] = now]
    /\ retired' = retired \cup {[dev |-> d, key |-> key[d], at |-> now]}
    /\ UNCHANGED <<now, deviceVars, lastSeen, revoked, riskVars, lifeVars, accepted>>

RotateKey(d) ==
    /\ minted[d] < MaxKey
    /\ minted' = [minted EXCEPT ![d] = @ + 1]
    /\ prevKey' = [prevKey EXCEPT ![d] = key[d]]
    /\ key' = [key EXCEPT ![d] = minted[d] + 1]
    /\ rotatedAt' = [rotatedAt EXCEPT ![d] = now]
    /\ retired' = retired \cup {[dev |-> d, key |-> key[d], at |-> now]}
    /\ UNCHANGED <<now, deviceVars, lastSeen, revoked, riskVars, lifeVars, accepted>>

(* Everything above lives in memory: a new process starts from config.py. *)
Restart ==
    /\ lives < MaxLives
    /\ lives' = lives + 1
    /\ past' = past \cup UNION {{accepted[d][i] : i \in DOMAIN accepted[d]} : d \in Device}
    /\ lastSeen' = [d \in Device |-> FirstContact]
    /\ revoked' = {}
    /\ key' = [d \in Device |-> 1]
    /\ prevKey' = [d \in Device |-> NoKey]
    /\ rotatedAt' = [d \in Device |-> NoTime]
    /\ retired' = {}
    /\ attempts' = [c \in ClaimedId |-> << >>]
    /\ cooldownUntil' = [c \in ClaimedId |-> 0]
    /\ accepted' = [d \in Device |-> << >>]
    /\ UNCHANGED <<now, deviceVars, minted>>

Next ==
    \/ \E d \in Device : Boot(d)
    \/ \E d \in Device : TornBoot(d)
    \/ \E d \in Device : Publish(d)
    \/ Tick
    \/ \E m \in sent \cup Unsigned : Deliver(m)
    \/ \E d \in Revocable : Revoke(d)
    \/ \E d \in Revocable : Reinstate(d)
    \/ \E d \in Device : RotateKey(d)
    \/ Restart

Spec == Init /\ [][Next]_vars
-----------------------------------------------------------------------------
(* Properties. *)

(* Every variable stays in its range. *)
TypeOK ==
    /\ now \in Nat /\ lives \in Nat /\ tears \in Nat
    /\ boot \in [Device -> Nat] /\ highest \in [Device -> Nat]
    /\ seq \in [Device -> Nat]
    /\ skew \in [Device -> Int]
    /\ devKey \in [Device -> Nat \ {NoKey}]
    /\ sent \subseteq Message
    /\ lastSeen \in [Device -> Baseline]
    /\ revoked \subseteq Device
    /\ key \in [Device -> Nat \ {NoKey}] /\ minted \in [Device -> Nat \ {NoKey}]
    /\ prevKey \in [Device -> Nat]
    /\ rotatedAt \in [Device -> Nat \cup {NoTime}]
    /\ attempts \in [ClaimedId -> Seq(Nat)]
    /\ cooldownUntil \in [ClaimedId -> Nat]
    /\ accepted \in [Device -> Seq(Acceptance)]
    /\ past \subseteq Acceptance
    /\ retired \subseteq [dev : Device, key : Nat \ {NoKey}, at : Nat]

(* At most once, in order: within one life of the gateway a device's       *)
(* accepted messages strictly advance by (boot_id, seq), whatever the      *)
(* network repeats, delays or reorders and however often the device        *)
(* reboots (trust_engine.py check_boot_replay / commit_boot_seq).          *)
AcceptedInOrder ==
    \A d \in Device : \A i, j \in DOMAIN accepted[d] :
        i < j => Advances(accepted[d][j].msg, accepted[d][i].msg)

(* Only a lost boot counter can lock a device out, and not for good.  The  *)
(* replay baseline does not run ahead of what the device has counted, so   *)
(* its next message still advances, unless power was lost while the        *)
(* counter file was being rewritten (main.py load_and_increment_boot_id).  *)
(* Then the device is refused as a superseded session, but no longer than  *)
(* until it has been started once more often than ever before: the         *)
(* baseline stays at or below the highest boot_id it had used.             *)
LockoutBounded ==
    \A d \in Device :
        IF boot[d] > highest[d]
        THEN \/ lastSeen[d].boot < boot[d]
             \/ lastSeen[d].boot = boot[d] /\ lastSeen[d].seq <= seq[d]
        ELSE lastSeen[d].boot <= highest[d]

(* A restart forgets the baselines, and a message accepted before it can   *)
(* then be accepted again, but never more than two freshness windows after *)
(* its first acceptance (check_timestamp_freshness is two-sided).          *)
ReplayExposureBounded ==
    \A p \in past, d \in Device : \A i \in DOMAIN accepted[d] :
        accepted[d][i].msg = p.msg => accepted[d][i].at - p.at <= 2 * Window

(* A secret that was rotated out authenticates nothing once its grace      *)
(* period is over, also when other rotations followed (rotate_key,         *)
(* verify_signature_with_rotation).                                        *)
RetiredKeysExpire ==
    \A r \in retired : \A i \in DOMAIN accepted[r.dev] :
        accepted[r.dev][i].msg.key = r.key => accepted[r.dev][i].at <= r.at + Grace

(* A rejected or dropped envelope never touches the state of the device it *)
(* names: the baseline moves only to the message just accepted, or is      *)
(* forgotten by a restart (gateway.py _reject, "never touches that         *)
(* device's own" state).                                                   *)
RejectionIsolation ==
    [][\A d \in Device : lastSeen'[d] # lastSeen[d] =>
          \/ lives' # lives
          \/ \E m \in sent :
                /\ m.dev = d
                /\ accepted'[d] = Append(accepted[d], [msg |-> m, at |-> now])
                /\ lastSeen'[d] = [boot |-> m.boot, seq |-> m.seq]]_vars

(* Neither the throttle nor a replay of older traffic can keep out the     *)
(* newest message of a device in good standing: if it is not revoked, signs*)
(* with a live secret, has a sane clock and has not fallen back to an      *)
(* earlier boot_id by losing its counter, its newest message would pass    *)
(* every check now, unless it already did (IdentityTargetingRisk.          *)
(* is_throttled: "a claimed identity must never suppress authentic         *)
(* telemetry").                                                            *)
LatestIsAccepted ==
    \A m \in sent :
        /\ m.dev \notin revoked /\ VerifySignature(m)
        /\ m.readable /\ Fresh(m)
        /\ m.boot = boot[m.dev] /\ m.seq = seq[m.dev]
        /\ m.boot > highest[m.dev]
        /\ \A i \in DOMAIN accepted[m.dev] : accepted[m.dev][i].msg # m
        => Authentic(m)

(* The promise this gate implements. *)
Promise == INSTANCE AcceptedStream WITH
    stream <- [d \in Device |->
                 [i \in DOMAIN accepted[d] |-> accepted[d][i].msg]]

ImplementsPromise == Promise!Spec
-----------------------------------------------------------------------------
(* The inductive invariant behind them.                                    *)

(* A device stamps its messages with counters that go up and do not repeat, *)
(* but those of the boot_ids it went through before it lost its counter.    *)
SentInv ==
    /\ \A m \in sent :
        /\ m.dev \in Device /\ m.key # NoKey
        /\ \/ m.boot <= highest[m.dev]
           \/ m.boot < boot[m.dev]
           \/ m.boot = boot[m.dev] /\ m.seq <= seq[m.dev]
    /\ \A m, n \in sent :
        m.boot > highest[m.dev] /\ m.dev = n.dev /\ m.boot = n.boot /\ m.seq = n.seq
            => m = n

LastMsg(d) == accepted[d][Len(accepted[d])].msg

Timely(a) == a.at - a.msg.ts <= Window /\ a.msg.ts - a.at <= Window

(* The replay baseline is the last accepted message. *)
StreamInv ==
    \A d \in Device :
        /\ accepted[d] = << >> => lastSeen[d] = FirstContact
        /\ accepted[d] # << >> => /\ lastSeen[d].boot = LastMsg(d).boot
                                 /\ lastSeen[d].seq = LastMsg(d).seq
        /\ \A i \in DOMAIN accepted[d] :
            /\ accepted[d][i].msg \in sent /\ accepted[d][i].msg.dev = d
            /\ accepted[d][i].at <= now /\ Timely(accepted[d][i])

(* Secrets are minted once; the previous one is the last to be rotated out. *)
KeyInv ==
    \A d \in Device :
        /\ key[d] <= minted[d]
        /\ \A r \in retired :
            r.dev = d => /\ r.key < minted[d] /\ r.key # key[d] /\ r.at <= now
                         /\ r.key = prevKey[d] => r.at = rotatedAt[d]

IInv == /\ SentInv /\ StreamInv /\ AcceptedInOrder
        /\ \A p \in past : Timely(p)
        /\ KeyInv /\ RetiredKeysExpire
===============================================================================
