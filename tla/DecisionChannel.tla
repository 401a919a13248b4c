---------------------------- MODULE DecisionChannel ----------------------------
(***************************************************************************)
(* The gateway's decisions on their way back to the devices: the persisted *)
(* boot counter and the per-device sequence numbers of src/gateway.py, the *)
(* signature with the registry's current secret, and the checks of         *)
(* firmware/main.py before a device acts on a decision.                    *)
(*                                                                         *)
(* - Decisions are published one at a time, under _pipeline_lock.          *)
(* - As for telemetry the network keeps every decision and hands any of    *)
(*   them over at any time and repeatedly.  A decision that a device       *)
(*   refuses leaves no trace there, so refusals need no action.            *)
(* - open(..., "w") empties the counter's file before the number is        *)
(*   written: a process that dies in between, or whose write fails, leaves *)
(*   an empty file, and the next one counts from 1 again.                  *)
(* - One copy of gateway.py: a second one (GatewayThreads) has no MQTT     *)
(*   client and publishes nothing.                                         *)
(***************************************************************************)
EXTENDS Integers, Sequences, FiniteSets

CONSTANTS
    Device,         \* registered device ids
    MaxLives, MaxTorn, MaxDecisions, MaxKey, MaxReboots     \* bounds

ASSUME BoundsAssumption ==
    /\ MaxLives \in Nat /\ MaxTorn \in Nat /\ MaxDecisions \in Nat
    /\ MaxKey \in Nat /\ MaxReboots \in Nat

VARIABLES
    gateway,        \* the gateway process: down, starting or up
    bootFile,       \* what GATEWAY_BOOT_ID_PATH holds
    bootId,         \* _gateway_boot_id
    decisionSeq,    \* _decision_seq_by_device
    secret,         \* secret[d]: registry "secret"
    minted,         \* minted[d]: newest secret ever generated for d
    sent,           \* every decision published
    devSecret,      \* devSecret[d]: the secret flashed into d
    last,           \* last[d]: _last_decision_boot_id, _last_decision_seq
    acted,          \* acted[d]: the decisions d acted on since it booted
    lives,          \* history: gateway processes started so far
    torn,           \* history: how many of them left an empty file
    lastTorn,       \* history: the last of those, 0 if none
    reboots         \* history: device reboots so far

gatewayVars == <<gateway, bootFile, bootId, decisionSeq, lives, torn, lastTorn>>
keyVars     == <<secret, minted>>
deviceVars  == <<devSecret, last, acted, reboots>>
vars == <<gatewayVars, keyVars, sent, deviceVars>>

Unreadable == 0     \* no file, or no number in it
NoBoot == -1        \* _last_decision_boot_id is None

(* life and since are history: the process that published a decision, and  *)
(* the last torn start before that process.                                *)
Decision == [dev : Device, boot : Nat, seq : Nat, key : Nat, life : Nat, since : Nat]
Baseline == [boot : Nat \cup {NoBoot}, seq : Nat]
NothingYet == [boot |-> NoBoot, seq |-> 0]

Init ==
    /\ gateway = "down"
    /\ bootFile = Unreadable
    /\ bootId = 1
    /\ decisionSeq = [d \in Device |-> 0]
    /\ secret = [d \in Device |-> 1]
    /\ minted = [d \in Device |-> 1]
    /\ sent = {}
    /\ devSecret = [d \in Device |-> 1]
    /\ last = [d \in Device |-> NothingYet]
    /\ acted = [d \in Device |-> << >>]
    /\ lives = 0 /\ torn = 0 /\ lastTorn = 0 /\ reboots = 0

-----------------------------------------------------------------------------
(* The gateway process. *)

(* Mutant of NextBootId: the number is read back, not counted up. *)
SameBootId == IF bootFile = Unreadable THEN 1 ELSE bootFile

(* Mutant of NextBootId: an unreadable file counts from 0. *)
BootIdFromZero == IF bootFile = Unreadable THEN 0 ELSE bootFile + 1

NextBootId == IF bootFile = Unreadable THEN 1 ELSE bootFile + 1

(* A new process reads the counter and opens its file for writing; the     *)
(* registry is rebuilt from config.py, the sequence numbers are gone.      *)
Start ==
    /\ gateway = "down"
    /\ lives < MaxLives
    /\ lives' = lives + 1
    /\ gateway' = "starting"
    /\ bootId' = NextBootId
    /\ bootFile' = Unreadable
    /\ decisionSeq' = [d \in Device |-> 0]
    /\ secret' = [d \in Device |-> 1]
    /\ UNCHANGED <<torn, lastTorn, minted, sent, deviceVars>>

PersistBootId ==
    /\ gateway = "starting"
    /\ gateway' = "up"
    /\ bootFile' = bootId
    /\ UNCHANGED <<bootId, decisionSeq, lives, torn, lastTorn, keyVars, sent, deviceVars>>

DieStarting ==
    /\ gateway = "starting"
    /\ torn < MaxTorn
    /\ torn' = torn + 1
    /\ lastTorn' = lives
    /\ gateway' = "down"
    /\ UNCHANGED <<bootFile, bootId, decisionSeq, lives, keyVars, sent, deviceVars>>

Die ==
    /\ gateway = "up"
    /\ gateway' = "down"
    /\ UNCHANGED <<bootFile, bootId, decisionSeq, lives, torn, lastTorn, keyVars, sent,
                   deviceVars>>

PublishDecision(d) ==
    /\ gateway = "up"
    /\ decisionSeq[d] < MaxDecisions
    /\ decisionSeq' = [decisionSeq EXCEPT ![d] = @ + 1]
    /\ sent' = sent \cup {[dev |-> d, boot |-> bootId, seq |-> decisionSeq[d] + 1,
                           key |-> secret[d], life |-> lives, since |-> lastTorn]}
    /\ UNCHANGED <<gateway, bootFile, bootId, lives, torn, lastTorn, keyVars, deviceVars>>

RotateKey(d) ==
    /\ gateway = "up"
    /\ minted[d] < MaxKey
    /\ minted' = [minted EXCEPT ![d] = @ + 1]
    /\ secret' = [secret EXCEPT ![d] = minted[d] + 1]
    /\ UNCHANGED <<gatewayVars, sent, deviceVars>>

-----------------------------------------------------------------------------
(* A device. *)

(* The baseline is in RAM; a re-flashed board may carry the new secret. *)
Reboot(d) ==
    /\ reboots < MaxReboots
    /\ reboots' = reboots + 1
    /\ last' = [last EXCEPT ![d] = NothingYet]
    /\ acted' = [acted EXCEPT ![d] = << >>]
    /\ \E k \in {devSecret[d], secret[d]} : devSecret' = [devSecret EXCEPT ![d] = k]
    /\ UNCHANGED <<gatewayVars, keyVars, sent>>

verify_decision_signature(m) == m.key = devSecret[m.dev]

(* Mutant of Advances: the same sequence number is taken again. *)
AdvancesOrRepeats(m, b) ==
    \/ m.boot > b.boot
    \/ m.boot = b.boot /\ m.seq >= b.seq

(* The negation of what check_decision_replay returns. *)
Advances(m, b) ==
    \/ m.boot > b.boot
    \/ m.boot = b.boot /\ m.seq > b.seq

(* Mutant of Remember: a new session keeps the old sequence number. *)
RememberBootOnly(m, b) ==
    IF m.boot > b.boot THEN [b EXCEPT !.boot = m.boot] ELSE [b EXCEPT !.seq = m.seq]

(* What check_decision_replay leaves behind. *)
Remember(m, b) == [boot |-> m.boot, seq |-> m.seq]

Act(m) ==
    /\ verify_decision_signature(m)
    /\ Advances(m, last[m.dev])
    /\ last' = [last EXCEPT ![m.dev] = Remember(m, @)]
    /\ acted' = [acted EXCEPT ![m.dev] = Append(@, m)]
    /\ UNCHANGED <<gatewayVars, keyVars, sent, devSecret, reboots>>

Next ==
    \/ Start
    \/ PersistBootId
    \/ DieStarting
    \/ Die
    \/ \E d \in Device : PublishDecision(d)
    \/ \E d \in Device : RotateKey(d)
    \/ \E d \in Device : Reboot(d)
    \/ \E m \in sent : Act(m)

Spec == Init /\ [][Next]_vars
-----------------------------------------------------------------------------
(* Properties. *)

(* Every variable stays in its range; boot ids count from 1. *)
TypeOK ==
    /\ gateway \in {"down", "starting", "up"}
    /\ bootFile \in Nat
    /\ bootId \in Nat \ {0}
    /\ decisionSeq \in [Device -> Nat]
    /\ secret \in [Device -> Nat] /\ minted \in [Device -> Nat]
    /\ sent \subseteq Decision
    /\ devSecret \in [Device -> Nat]
    /\ last \in [Device -> Baseline]
    /\ acted \in [Device -> Seq(Decision)]
    /\ lives \in Nat /\ torn \in Nat /\ lastTorn \in Nat /\ reboots \in Nat

(* What a device acts on between two reboots is a stream of decisions the  *)
(* gateway published, each strictly newer than the one before, whatever    *)
(* happens to the boot counter.                                            *)
Promise == INSTANCE AcceptedStream WITH stream <- acted

ImplementsPromise == Promise!Spec

(* A torn start makes the boot counter begin again.  A later process has   *)
(* outlived it when more starts followed the torn one than led up to it.   *)
Outlived(life, tear) == life - tear >= tear

(* Once a device acted on a decision of some gateway process, those of     *)
(* earlier processes are stale for it (gateway.py on _gateway_boot_id: "a  *)
(* strictly-higher gateway_boot_id after a restart already makes any lower *)
(* seq from a prior run correctly stale").  A torn start suspends this,    *)
(* for the decisions published before it and until it is outlived.         *)
RestartSupersedes ==
    \A d \in Device : \A m \in sent :
        /\ acted[d] # << >> /\ m.dev = d
        /\ LET a == acted[d][Len(acted[d])]
           IN m.life < a.life /\ (m.life > a.since \/ Outlived(a.life, a.since))
        => ~Advances(m, last[d])

(* The newest decision of the running gateway is acted on by a device that *)
(* holds the secret it is signed with, in whatever order older ones        *)
(* reached it: it was, or it would be if it arrived now.  A torn start     *)
(* shuts out only a device that acted, since it booted, on a decision from *)
(* before that start, and it only until the start is outlived.             *)
NewestIsTaken ==
    \A m \in sent :
        /\ gateway = "up" /\ m.life = lives /\ m.seq = decisionSeq[m.dev]
        /\ verify_decision_signature(m)
        /\ \/ acted[m.dev] = << >>
           \/ acted[m.dev][Len(acted[m.dev])].life > lastTorn
           \/ Outlived(lives, lastTorn)
        => \/ Advances(m, last[m.dev])
           \/ \E i \in DOMAIN acted[m.dev] : acted[m.dev][i] = m

-----------------------------------------------------------------------------
(* The inductive invariant behind them. *)

(* A device's baseline is the last decision it acted on. *)
ActedInv ==
    \A d \in Device :
        /\ acted[d] = << >> => last[d] = NothingYet
        /\ acted[d] # << >> =>
            /\ acted[d][Len(acted[d])] \in sent
            /\ acted[d][Len(acted[d])].dev = d
            /\ last[d] = [boot |-> acted[d][Len(acted[d])].boot,
                          seq |-> acted[d][Len(acted[d])].seq]

(* The boot counter counts the gateway processes since the last torn start.*)
CounterInv ==
    /\ lastTorn <= lives
    /\ gateway # "down" => lastTorn < lives /\ bootId = lives - lastTorn
    /\ bootFile = IF gateway = "starting" THEN Unreadable ELSE lives - lastTorn

(* And a decision carries its number.                                      *)
SentInv ==
    /\ \A m \in sent :
        /\ m.boot = m.life - m.since /\ m.since < m.life /\ m.life <= lives /\ m.seq > 0
        /\ m.life # lastTorn
        /\ m.life > lastTorn => m.since = lastTorn
        /\ m.life = lives => gateway # "starting" /\ m.seq <= decisionSeq[m.dev]
    /\ \A m, n \in sent :
        /\ m.dev = n.dev /\ m.life = n.life /\ m.seq = n.seq => m = n
        /\ m.life <= n.life /\ m.life > n.since => m.since = n.since
        /\ m.life # n.since

IInv == ActedInv /\ CounterInv /\ SentInv
===============================================================================
