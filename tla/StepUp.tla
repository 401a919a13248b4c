--------------------------------- MODULE StepUp ---------------------------------
(***************************************************************************)
(* Step-up challenges and what follows from a failed one: the pending nonce*)
(* of src/trust_engine.py, the second half of gateway.py's                 *)
(* _process_telemetry (verdict, policy, new challenge, auto-quarantine) and*)
(* the echoing of nonces by firmware/main.py, for one device.  Devices     *)
(* share none of this state.                                               *)
(*                                                                         *)
(* - Telemetry reaches this part of the pipeline through the gate: in      *)
(*   order, no message twice, any of them lost (TelemetryAuth implements   *)
(*   AcceptedStream).  Challenges travel over MQTT at QoS 0: in order, none*)
(*   twice, any of them lost, arbitrarily late.                            *)
(* - Challenges are not signed: the device takes whatever arrives on its   *)
(*   topic.  MaxStrays of them are not this gateway's doing (Stray).       *)
(* - The two scores are left to other modules: the policy may come to any  *)
(*   of its decisions for any message.                                     *)
(* - Only whether the timeout has passed matters of the time since a       *)
(*   challenge was issued, so age stops counting there.                    *)
(* - One copy of gateway.py; a second one (GatewayThreads) issues no       *)
(*   challenge that anybody receives, having no MQTT client.               *)
(***************************************************************************)
EXTENDS Integers, Sequences, FiniteSets

CONSTANTS
    Timeout,        \* STEP_UP_CHALLENGE_TIMEOUT_SECONDS
    RunLength,      \* AUTO_QUARANTINE_CONSECUTIVE_BLOCKS
    Armed,          \* AUTO_QUARANTINE_ENABLED
    MaxNonces, MaxFlight, MaxFaults, MaxStrays     \* bounds

ASSUME ThresholdAssumption ==
    Timeout \in Nat /\ RunLength \in Nat \ {0} /\ Armed \in BOOLEAN
ASSUME BoundsAssumption ==
    /\ MaxNonces \in Nat /\ MaxFlight \in Nat
    /\ MaxFaults \in Nat /\ MaxStrays \in Nat

VARIABLES
    toEcho,         \* the device's _pending_step_up_nonce
    inbox,          \* challenges on their way to the device
    uplink,         \* telemetry on its way: the nonce each message echoes
    pending,        \* the gateway's pending_step_up_nonce
    age,            \* time since it was issued, up to Timeout + 1
    blocks,         \* _consecutive_blocks of the device
    revoked,        \* is the device revoked?
    nonces,         \* challenges issued so far: their nonces are 1 .. nonces
    outcome,        \* history: what became of each challenge
    recent,         \* history: of the last RunLength decisions in the audit log,
                    \* which BLOCKed
    faults,         \* number of messages whose audit row could not be written
    strays          \* number of challenges the gateway did not send

deviceVars == <<toEcho, inbox>>
gatewayVars == <<pending, age, blocks, revoked, nonces, outcome, recent, faults>>
vars == <<deviceVars, uplink, gatewayVars, strays>>

None == 0
Nonce == 1 .. MaxNonces
Foreign == MaxNonces + 1    \* a nonce this gateway never draws
Action == {"ALLOW", "STEP_UP", "ALERT", "BLOCK"}
Failed == {"TIMEOUT", "MISMATCH"}

Init ==
    /\ toEcho = None
    /\ inbox = << >>
    /\ uplink = << >>
    /\ pending = None
    /\ age = 0
    /\ blocks = 0
    /\ revoked = FALSE
    /\ nonces = 0
    /\ outcome = [n \in Nonce |-> "unissued"]
    /\ recent = << >>
    /\ faults = 0
    /\ strays = 0

-----------------------------------------------------------------------------
(* The device and the network. *)

(* Mutant of Publish: the nonce is kept and echoed again. *)
PublishKeeping ==
    /\ Len(uplink) < MaxFlight
    /\ uplink' = Append(uplink, toEcho)
    /\ UNCHANGED <<deviceVars, gatewayVars, strays>>

(* A message that echoes the nonce, which is thereby used up. *)
Publish ==
    /\ Len(uplink) < MaxFlight
    /\ uplink' = Append(uplink, toEcho)
    /\ toEcho' = None
    /\ UNCHANGED <<inbox, gatewayVars, strays>>

(* A newer challenge replaces the one not yet echoed. *)
Receive ==
    /\ inbox # << >>
    /\ toEcho' = Head(inbox)
    /\ inbox' = Tail(inbox)
    /\ UNCHANGED <<uplink, gatewayVars, strays>>

(* A publish that fails has used up the nonce all the same; the new        *)
(* connection is a clean session.  So is the one after a reboot.           *)
Reconnect ==
    /\ toEcho' \in {toEcho, None}
    /\ inbox' = << >>
    /\ UNCHANGED <<uplink, gatewayVars, strays>>

(* A challenge the gateway did not send comes in on the topic: the pending *)
(* one once more, or one it waits for no answer to.                        *)
Stray ==
    /\ strays < MaxStrays
    /\ strays' = strays + 1
    /\ \E n \in {pending, Foreign} \ {None} : inbox' = Append(inbox, n)
    /\ UNCHANGED <<toEcho, uplink, gatewayVars>>

LoseMessage ==
    /\ uplink # << >>
    /\ uplink' = Tail(uplink)
    /\ UNCHANGED <<deviceVars, gatewayVars, strays>>

LoseChallenge ==
    /\ inbox # << >>
    /\ inbox' = Tail(inbox)
    /\ UNCHANGED <<toEcho, uplink, gatewayVars, strays>>

Tick ==
    /\ pending # None
    /\ age <= Timeout
    /\ age' = age + 1
    /\ UNCHANGED <<deviceVars, uplink, pending, blocks, revoked, nonces, outcome,
                   recent, faults, strays>>

-----------------------------------------------------------------------------
(* The gateway, once the gate has let a message through. *)

(* Mutant of Verdict: an unanswered challenge never expires. *)
VerdictPatient(echo) ==
    CASE pending = None     -> "none"
      [] OTHER              -> CASE echo = None    -> "none"
                                 [] echo = pending -> "SUCCESS"
                                 [] OTHER          -> "MISMATCH"

(* check_step_up_response *)
Verdict(echo) ==
    CASE pending = None     -> "none"
      [] pending # None /\ age > Timeout -> "TIMEOUT"
      [] OTHER              -> CASE echo = None    -> "none"
                                 [] echo = pending -> "SUCCESS"
                                 [] OTHER          -> "MISMATCH"

(* Mutant of Clears: a wrong echo leaves the challenge pending. *)
ClearsUnlessWrong(verdict) == verdict \in {"SUCCESS", "TIMEOUT"}

(* The verdicts that end a challenge. *)
Clears(verdict) == verdict \in {"SUCCESS", "TIMEOUT", "MISMATCH"}

Decision(verdict, policy) == IF verdict \in Failed THEN "BLOCK" ELSE policy

(* Mutant of Initiates: has_pending_step_up is not asked. *)
InitiatesAnew(verdict, policy) == policy = "STEP_UP" /\ verdict \notin Failed

(* A new challenge, unless one is still open. *)
Initiates(verdict, policy) ==
    /\ policy = "STEP_UP"
    /\ verdict \notin Failed
    /\ pending = None \/ Clears(verdict)

(* Mutant of Settle: a cleared challenge keeps its time of issue. *)
SettleKeepingTime(verdict, policy) ==
    /\ Initiates(verdict, policy) => nonces < MaxNonces
    /\ nonces' = IF Initiates(verdict, policy) THEN nonces + 1 ELSE nonces
    /\ pending' = IF Initiates(verdict, policy) THEN nonces'
                  ELSE IF Clears(verdict) THEN None ELSE pending
    /\ age' = IF Initiates(verdict, policy) THEN 0 ELSE age
    /\ inbox' = IF Initiates(verdict, policy) THEN Append(inbox, nonces') ELSE inbox
    /\ outcome' = [n \in Nonce |-> IF n = pending /\ verdict # "none" THEN verdict
                                   ELSE IF n = nonces' /\ n # nonces THEN "open"
                                   ELSE outcome[n]]

(* From the verdict to the published challenge. *)
Settle(verdict, policy) ==
    /\ Initiates(verdict, policy) => nonces < MaxNonces
    /\ nonces' = IF Initiates(verdict, policy) THEN nonces + 1 ELSE nonces
    /\ pending' = IF Initiates(verdict, policy) THEN nonces'
                  ELSE IF Clears(verdict) THEN None ELSE pending
    /\ age' = IF Initiates(verdict, policy) \/ Clears(verdict) THEN 0 ELSE age
    /\ inbox' = IF Initiates(verdict, policy) THEN Append(inbox, nonces') ELSE inbox
    /\ outcome' = [n \in Nonce |-> IF n = pending /\ verdict # "none" THEN verdict
                                   ELSE IF n = nonces' /\ n # nonces THEN "open"
                                   ELSE outcome[n]]

(* Mutant of CountBlock: a decision other than BLOCK leaves the run alone. *)
CountBlockCumulative(decision) ==
    IF ~Armed \/ decision # "BLOCK" THEN UNCHANGED <<blocks, revoked>>
    ELSE IF blocks + 1 < RunLength THEN blocks' = blocks + 1 /\ UNCHANGED revoked
    ELSE blocks' = 0 /\ revoked' = TRUE

(* _apply_auto_quarantine *)
CountBlock(decision) ==
    IF ~Armed THEN UNCHANGED <<blocks, revoked>>
    ELSE IF decision # "BLOCK" THEN blocks' = 0 /\ UNCHANGED revoked
    ELSE IF blocks + 1 < RunLength THEN blocks' = blocks + 1 /\ UNCHANGED revoked
    ELSE blocks' = 0 /\ revoked' = TRUE

Remember(decision) ==
    LET all == Append(recent, decision = "BLOCK")
    IN  recent' = IF Len(all) <= RunLength THEN all ELSE Tail(all)

(* One accepted message: verdict, policy, challenge, decision, audit row,  *)
(* auto-quarantine.                                                        *)
Process(policy) ==
    /\ uplink # << >> /\ ~revoked
    /\ LET verdict == Verdict(Head(uplink))
       IN  /\ Settle(verdict, policy)
           /\ Remember(Decision(verdict, policy))
           /\ CountBlock(Decision(verdict, policy))
    /\ uplink' = Tail(uplink)
    /\ UNCHANGED <<toEcho, faults, strays>>

(* log_decision raises (the database is busy): the decision has been       *)
(* published, the HTTPS thread lives on, the rest is skipped.  The run of  *)
(* blocks stays as it was, whatever this decision is.                      *)
ProcessUnlogged(policy) ==
    /\ uplink # << >> /\ ~revoked
    /\ faults < MaxFaults
    /\ faults' = faults + 1
    /\ LET verdict == Verdict(Head(uplink))
       IN  Settle(verdict, policy)
    /\ uplink' = Tail(uplink)
    /\ UNCHANGED <<toEcho, blocks, revoked, recent, strays>>

(* The gate refuses whatever a revoked device sends. *)
Refuse ==
    /\ uplink # << >> /\ revoked
    /\ uplink' = Tail(uplink)
    /\ UNCHANGED <<deviceVars, gatewayVars, strays>>

Revoke ==
    /\ revoked' = TRUE
    /\ UNCHANGED <<deviceVars, uplink, pending, age, blocks, nonces, outcome, recent,
                   faults, strays>>

Reinstate ==
    /\ revoked' = FALSE
    /\ UNCHANGED <<deviceVars, uplink, pending, age, blocks, nonces, outcome, recent,
                   faults, strays>>

(* A new gateway process: all of its state was in memory. *)
Restart ==
    /\ pending' = None /\ age' = 0
    /\ blocks' = 0
    /\ revoked' = FALSE
    /\ outcome' = [n \in Nonce |-> IF n = pending THEN "forgotten" ELSE outcome[n]]
    /\ UNCHANGED <<deviceVars, uplink, nonces, recent, faults, strays>>

Next ==
    \/ Publish
    \/ Receive
    \/ Reconnect
    \/ Stray
    \/ LoseMessage
    \/ LoseChallenge
    \/ Tick
    \/ \E policy \in Action : Process(policy)
    \/ \E policy \in Action : ProcessUnlogged(policy)
    \/ Refuse
    \/ Revoke
    \/ Reinstate
    \/ Restart

Spec == Init /\ [][Next]_vars

(* Time passes, the device's main loop keeps publishing, and the network   *)
(* does not lose every message.  Nothing is assumed about challenges       *)
(* reaching the device.                                                    *)
FairSpec ==
    /\ Spec
    /\ WF_vars(Tick)
    /\ WF_vars(Publish)
    /\ SF_vars(\E policy \in Action : Process(policy))
-----------------------------------------------------------------------------
(* Properties. *)

(* Every variable stays in its range; a challenge and its time of issue are*)
(* set and cleared together.                                               *)
TypeOK ==
    /\ toEcho \in Nonce \cup {None, Foreign}
    /\ inbox \in Seq(Nonce \cup {Foreign}) /\ uplink \in Seq(Nonce \cup {None, Foreign})
    /\ pending \in Nonce \cup {None}
    /\ age \in 0 .. Timeout + 1
    /\ pending = None => age = 0
    /\ blocks \in 0 .. RunLength - 1
    /\ revoked \in BOOLEAN
    /\ nonces \in 0 .. MaxNonces
    /\ outcome \in [Nonce -> {"unissued", "open", "SUCCESS", "TIMEOUT", "MISMATCH", "forgotten"}]
    /\ recent \in Seq(BOOLEAN) /\ Len(recent) <= RunLength
    /\ faults \in Nat /\ strays \in Nat

(* The one challenge without a verdict is the pending one: the gateway     *)
(* never issues a second while it waits for an answer to the first         *)
(* (has_pending_step_up, "moving the target"), and loses none.             *)
OpenIsPending == \A n \in Nonce : outcome[n] = "open" <=> pending = n

(* A challenge has one verdict, once ("the intended single pass/fail       *)
(* evaluated once", check_step_up_response).                               *)
VerdictIsFinal ==
    [][\A n \in Nonce :
        outcome[n] \notin {"unissued", "open"} => outcome'[n] = outcome[n]]_vars

(* A challenge fails by a wrong echo only after an earlier one timed out   *)
(* or was forgotten by a restarted gateway, however many mismatches lie in *)
(* between, or if there are other challenges on the topic than the         *)
(* gateway's.  Those are not as harmless as _publish_challenge says        *)
(* (gateway.py 468-471): while a challenge is pending, the echo of a nonce *)
(* nobody asked for ends it.                                               *)
MismatchHasCause ==
    \A n \in Nonce : outcome[n] = "MISMATCH" =>
        \/ \E k \in 1 .. n - 1 : outcome[k] \in {"TIMEOUT", "forgotten"}
        \/ strays > 0

Quarantined == ~revoked /\ revoked' /\ uplink' # uplink
UnbrokenRun(s) == Len(s) = RunLength /\ \A i \in DOMAIN s : s[i]

(* The step that revokes a device without an operator comes at the end of  *)
(* RunLength decisions in the audit log that are all BLOCK, whatever       *)
(* restarts, failed step-ups, revocations, reinstatements and unlogged     *)
(* decisions lie in between (config.py: "Consecutive, not cumulative: a    *)
(* single ALLOW resets the counter" -- one that was logged).               *)
UnbrokenOnRecord == [][Quarantined => UnbrokenRun(recent')]_vars

(* Whatever is lost, a challenge does not stay open for ever while the     *)
(* device is heard: it is answered or times out, and then further          *)
(* challenges are possible.                                                *)
ChallengeResolved ==
    \A n \in Nonce : pending = n ~> (pending # n \/ revoked)
===============================================================================
