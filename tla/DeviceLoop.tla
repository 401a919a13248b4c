----------------------------- MODULE DeviceLoop -----------------------------
(***************************************************************************)
(* One board and the gateway, end to end: the loop of firmware/main.py,    *)
(* the broker between them, and what the gateway does with a message -     *)
(* verdict, trust score, decision, challenge (src/gateway.py,              *)
(* src/trust_engine.py, src/adaptive_pdp.py).                              *)
(*                                                                         *)
(*   - A tick is PUBLISH_INTERVAL_MS, two seconds.  The board goes through *)
(*     its loop once in a tick, and the gateway handles what was published *)
(*     in it, except for a slip: a message that stays under way, or a      *)
(*     cycle the sensor's failure cuts short.                              *)
(*   - Where in its tick a message is handled is not told: an age of       *)
(*     exactly the timeout may or may not be over it, two messages of one  *)
(*     tick may or may not come within MIN_MESSAGE_INTERVAL_SECONDS.       *)
(*   - Messages are in order and pass every other check; one of an earlier *)
(*     boot number is refused.  The process score stays the same.          *)
(*   - check_msg handles one message and says so, as the firmware's        *)
(*     comment has it.  The broker keeps nothing for a board that is away. *)
(*   - Only the gateway publishes challenges here; StepUp has others too.  *)
(***************************************************************************)
EXTENDS TrustScore, Sequences, FiniteSets

CONSTANTS
    Timeout,        \* STEP_UP_CHALLENGE_TIMEOUT_SECONDS, in ticks
    TickTenths,     \* a tick in tenths of a second
    Drained,        \* messages the board takes in one cycle
    Process,        \* the process trust score
    Nonces,         \* a nonce is drawn among those that are nowhere in use
    MaxFaults, MaxSlips,    \* bounds
    MaxOff          \* bound: the board is started before it was silent for so long

ASSUME TimesAssumption  == Timeout \in Nat /\ TickTenths \in Nat \ {0} /\ Drained \in Nat \ {0}
ASSUME BoundsAssumption == {MaxFaults, MaxSlips, MaxOff} \subseteq Nat
(* The slack: an undelayed answer takes two ticks, and a drain reaches     *)
(* behind every backlog the delays and losses can make.                    *)
ASSUME SlackAssumption  == MaxSlips + 2 < Timeout /\ MaxSlips + MaxFaults + 2 <= Drained

VARIABLES
    board,      \* where the board's loop is
    linked,     \* does the board's MQTT connection work?
    nonce,      \* _pending_step_up_nonce
    boot, file, \* the board's boot_id, and boot_id.txt: 0 is empty or absent
    uplink,     \* telemetry under way
    inbox,      \* decisions and challenges under way
    newest,     \* last_seen_boot_id
    pending,    \* pending_step_up_nonce
    age,        \* ticks since it was issued, up to Timeout + 1 (0 when there is none)
    score, failures, q,     \* trust score, failed step-ups (up to 3), policy table
    quiet,      \* ticks since the last accepted message
    heardNow,   \* was a message accepted in this tick?
    outcome,    \* what became of the last message
    decision,   \* the last decision
    faults, slips,
    torn,       \* did the board lose power between emptying and writing boot_id.txt?
    excused     \* see InTime

device  == <<board, linked, nonce, boot, file>>
gateway == <<newest, pending, age, score, failures, q, quiet, heardNow, outcome, decision>>
budget  == <<faults, slips, torn, excused>>
vars    == <<device, uplink, inbox, gateway, budget>>

None == "none"
ASSUME NoncesAssumption == {None, "decision"} \cap Nonces = {}
Quiet == 300 \div TickTenths + 1      \* past it a score decays no further
(* Mutant of Capped: one step too far.                                     *)
CappedLate(n, cap) == IF n <= cap THEN n + 1 ELSE n
Capped(n, cap)     == IF n < cap THEN n + 1 ELSE n
Telemetry(b, e) == [boot |-> b, echo |-> e]

Init ==
    /\ board = "publish" /\ linked = TRUE /\ nonce = None /\ boot = 2 /\ file = 2
    /\ uplink = << >> /\ inbox = << >>
    /\ newest = 0 /\ pending = None /\ age = 0 /\ quiet = 0 /\ heardNow = FALSE
    /\ score = InitialTrust /\ failures = 0 /\ q = NothingSeeded
    /\ outcome = None /\ decision = None
    /\ faults = 0 /\ slips = 0 /\ torn = FALSE /\ excused = FALSE
-----------------------------------------------------------------------------
(* Faults, each within its budget.  A slip delays, a fault loses.          *)

Fault == faults < MaxFaults /\ faults' = faults + 1 /\ excused' = (pending # None)
         /\ UNCHANGED slips
Slip  == slips < MaxSlips /\ slips' = slips + 1 /\ UNCHANGED <<faults, excused>>
NoFault == UNCHANGED <<faults, slips, excused>>
-----------------------------------------------------------------------------
(* The board: main() of the firmware                                       *)

(* The nonce is consumed before the message goes out.                      *)
Publish ==
    /\ board = "publish" /\ linked /\ board' = "drain"
    /\ uplink' = Append(uplink, Telemetry(boot, nonce)) /\ nonce' = None
    /\ UNCHANGED <<linked, boot, file, inbox, gateway, budget>>

(* A new connection starts with nothing in the inbox, or is not made.      *)
Reconnects(fails) ==
    /\ inbox' = << >> /\ board' = "sleep"
    /\ \/ linked' = TRUE /\ IF fails THEN Fault ELSE NoFault
       \/ linked' = FALSE /\ Fault

PublishFails ==
    /\ board = "publish" /\ Reconnects(linked) /\ nonce' = None
    /\ UNCHANGED <<boot, file, uplink, gateway, torn>>

(* on_message, for the first n messages of the inbox.                      *)
Received(n) == LET last == {i \in 1 .. n : inbox[i] \in Nonces
                                 /\ \A j \in i + 1 .. n : inbox[j] \notin Nonces}
               IN IF last = {} THEN nonce ELSE inbox[CHOOSE i \in last : TRUE]
Taken(n) == SubSeq(inbox, n + 1, Len(inbox))

(* Mutant of Drain: one message per cycle, as main_sw420.py has it.        *)
DrainOne ==
    /\ board = "drain" /\ board' = "sleep"
    /\ LET n == IF inbox = << >> THEN 0 ELSE 1
       IN nonce' = Received(n) /\ inbox' = Taken(n)
    /\ UNCHANGED <<linked, boot, file, uplink, gateway, budget>>
Drain ==
    /\ board = "drain" /\ board' = "sleep"
    /\ LET n == IF Len(inbox) < Drained THEN Len(inbox) ELSE Drained
       IN nonce' = Received(n) /\ inbox' = Taken(n)
    /\ UNCHANGED <<linked, boot, file, uplink, gateway, budget>>

DrainFails ==
    /\ board = "drain" /\ Reconnects(TRUE)
    /\ \E n \in 0 .. Len(inbox) : n < Drained /\ nonce' = Received(n)
    /\ UNCHANGED <<boot, file, uplink, gateway, torn>>

(* The sensor's OSError skips the rest of the cycle.                       *)
SensorFails ==
    /\ board = "publish" /\ board' = "sleep" /\ Slip
    /\ UNCHANGED <<linked, nonce, boot, file, uplink, inbox, gateway, torn>>

PowerLoss ==
    /\ board # "off" /\ board' = "off" /\ Fault
    /\ nonce' = None /\ inbox' = << >> /\ torn' = (torn \/ board = "boots")
    /\ UNCHANGED <<linked, boot, file, uplink, gateway>>

(* connect_mqtt, then load_and_increment_boot_id: the file is emptied as   *)
(* it is opened, and written.                                              *)
Start ==
    /\ board = "off" /\ board' = "boots" /\ linked' = TRUE
    /\ boot' = file + 1 /\ file' = 0
    /\ UNCHANGED <<nonce, uplink, inbox, gateway, budget>>

(* Mutant of WriteBoot: the file is opened for writing and not written.    *)
WriteBootEmpty ==
    /\ board = "boots" /\ board' = "publish"
    /\ UNCHANGED <<linked, nonce, boot, file, uplink, inbox, gateway, budget>>
WriteBoot ==
    /\ board = "boots" /\ board' = "publish" /\ file' = boot
    /\ UNCHANGED <<linked, nonce, boot, uplink, inbox, gateway, budget>>
-----------------------------------------------------------------------------
(* The gateway: one message                                                *)

(* check_step_up_response.                                                 *)
Late(over) == CASE age < Timeout -> ~over [] age = Timeout -> TRUE [] OTHER -> over
Verdict(echo, over) ==
    CASE pending = None  -> "NONE"
      [] pending # None /\ over -> "TIMEOUT"
      [] pending # None /\ ~over /\ echo = None -> "NONE"
      [] pending # None /\ ~over /\ echo # None ->
            IF echo = pending THEN "SUCCESS" ELSE "MISMATCH"

Settle(verdict) == IF verdict = "NONE" THEN pending ELSE None

(* Messages reach a board whose connection works.                          *)
Send(msgs) == inbox' = IF linked /\ board # "off" THEN inbox \o msgs ELSE inbox
Listening == linked /\ board \notin {"off", "boots"}
InUse == {nonce, pending} \cup {uplink[i].echo : i \in DOMAIN uplink}
         \cup {inbox[i] : i \in DOMAIN inbox}
Stray == (InUse \cap Nonces) # {}
Fresh == CHOOSE n \in Nonces : n \notin InUse      \* which one makes no difference

Refuse ==
    /\ uplink # << >> /\ Head(uplink).boot < newest
    /\ uplink' = Tail(uplink) /\ outcome' = "refused"
    /\ UNCHANGED <<device, inbox, newest, pending, age, score, failures, q, quiet,
                   heardNow, decision, budget>>

(* An accepted message, up to the decision: the score, the table, and the  *)
(* challenge, which goes out before the decision.                          *)
Handle(over, flood) ==
    LET m == Head(uplink)
        verdict == Verdict(m.echo, over)
        failed == IF verdict \in Fails THEN Capped(failures, 3) ELSE failures
        s == Trust(score, TickTenths * quiet, verdict, flood, failed)
        action == IF verdict \in Fails THEN "BLOCK" ELSE Greedy(q, s, Process)
        left == Settle(verdict)
    IN /\ uplink # << >> /\ m.boot >= newest
       /\ Late(over) /\ (flood => heardNow)
       /\ uplink' = Tail(uplink) /\ newest' = m.boot /\ outcome' = verdict
       /\ score' = s /\ failures' = failed /\ q' = Seeded(q, s, Process)
       /\ quiet' = 0 /\ heardNow' = TRUE /\ decision' = action
       /\ IF action = "STEP_UP" /\ left = None
          THEN /\ Nonces \ InUse # {}
               /\ pending' = Fresh /\ age' = 0 /\ Send(<<Fresh, "decision">>)
               /\ excused' = (Stray \/ ~Listening) /\ UNCHANGED <<faults, slips, torn>>
          ELSE /\ pending' = left /\ Send(<<"decision">>)
               /\ age' = (IF left = None THEN 0 ELSE age)
               /\ excused' = (left # None /\ excused) /\ UNCHANGED <<faults, slips, torn>>
       /\ UNCHANGED device

(* Everything in memory is forgotten, and what was under way to it lost.   *)
Restart ==
    /\ Fault /\ uplink' = << >>
    /\ newest' = 0 /\ pending' = None /\ age' = 0 /\ quiet' = 0 /\ heardNow' = FALSE
    /\ score' = InitialTrust /\ failures' = 0 /\ q' = NothingSeeded
    /\ UNCHANGED <<device, inbox, outcome, decision, torn>>
-----------------------------------------------------------------------------
(* The network and time                                                    *)

LoseUp ==
    /\ uplink # << >> /\ uplink' = Tail(uplink) /\ Fault
    /\ UNCHANGED <<device, inbox, gateway, torn>>

LoseDown ==
    /\ inbox # << >> /\ inbox' = Tail(inbox) /\ Fault
    /\ UNCHANGED <<device, uplink, gateway, torn>>

Tick ==
    /\ board = "sleep" \/ (board = "off" /\ quiet < MaxOff)
    /\ board' = IF board = "sleep" THEN "publish" ELSE board
    /\ IF uplink = << >> THEN NoFault ELSE Slip
    /\ age' = (IF pending = None THEN 0 ELSE Capped(age, Timeout + 1))
    /\ quiet' = Capped(quiet, Quiet)
    /\ heardNow' = FALSE
    /\ UNCHANGED <<linked, nonce, boot, file, uplink, inbox, newest, pending, score,
                   failures, q, outcome, decision, torn>>

Board == Publish \/ Drain \/ Start \/ WriteBoot
HandleOne == Refuse \/ \E over, flood \in BOOLEAN : Handle(over, flood)
Next ==
    \/ Board \/ PublishFails \/ DrainFails \/ SensorFails \/ PowerLoss
    \/ HandleOne \/ Restart \/ LoseUp \/ LoseDown \/ Tick

Spec == Init /\ [][Next]_vars

(* The board's loop, the gateway and time go on; a broken connection is    *)
(* made again when the next publish fails.                                 *)
FairSpec == Spec /\ WF_vars(Board) /\ WF_vars(PublishFails /\ ~linked)
                 /\ WF_vars(HandleOne) /\ WF_vars(Tick)
-----------------------------------------------------------------------------
(* Properties                                                              *)

(* Every variable stays in its range.                                      *)
TypeOK ==
    /\ board \in {"publish", "drain", "sleep", "off", "boots"} /\ linked \in BOOLEAN
    /\ nonce \in Nonces \cup {None} /\ pending \in Nonces \cup {None}
    /\ boot \in 1 .. 2 + MaxFaults /\ file \in 0 .. 2 + MaxFaults
    /\ newest \in 0 .. 2 + MaxFaults
    /\ age \in 0 .. Timeout + 1 /\ quiet \in 0 .. Quiet /\ heardNow \in BOOLEAN
    /\ score \in Scores /\ failures \in 0 .. 3 /\ decision \in Actions \cup {None}
    /\ outcome \in Verdicts \cup {None, "refused"}
    /\ faults \in 0 .. MaxFaults /\ slips \in 0 .. MaxSlips
    /\ torn \in BOOLEAN /\ excused \in BOOLEAN

(* A board that loses nothing answers in time: of a challenge that was     *)
(* issued when no older nonce was under way, only a loss makes a failure,  *)
(* whatever is delayed within the slack (firmware/main.py, the comment on  *)
(* draining the inbox).                                                    *)
InTime == [][outcome' \in Fails /\ pending' = None /\ pending # None => excused]_vars

(* A board that never lost power between emptying and writing its boot     *)
(* number is never refused.                                                *)
HeardUnlessTorn == outcome = "refused" => torn

(* Whatever was lost, and however often a step-up failed, the board is     *)
(* allowed again, unless its boot number was torn.                         *)
Recovers == []<>((heardNow /\ decision = "ALLOW") \/ torn)
-----------------------------------------------------------------------------
(* The inductive invariant behind HeardUnlessTorn.                         *)

Messages == [boot : 1 .. 2 + MaxFaults, echo : Nonces \cup {None}]
QueuesOK ==
    /\ uplink \in Seq(Messages) /\ inbox \in Seq(Nonces \cup {"decision"})
    /\ \A k \in DOMAIN q : q[k] \in Actions

(* Every new session has a power loss behind it.                           *)
BootsBounded ==
    /\ boot <= 2 + faults /\ file <= 2 + faults
    /\ board = "off" => file < 2 + faults

(* As long as the file was never torn, sessions are numbered upwards and   *)
(* their messages reach the gateway in that order.                         *)
BootsInOrder == ~torn =>
    /\ board # "boots" => file = boot
    /\ newest <= boot
    /\ \A i \in DOMAIN uplink : newest <= uplink[i].boot /\ uplink[i].boot <= boot
    /\ \A i, j \in DOMAIN uplink : i <= j => uplink[i].boot <= uplink[j].boot

IInv == TypeOK /\ QueuesOK /\ BootsBounded /\ BootsInOrder /\ HeardUnlessTorn
-----------------------------------------------------------------------------
(* The inductive invariant behind InTime: where the nonce of a challenge   *)
(* is that nothing was lost of, and how old it can be there.               *)

(* A challenge goes out before its message's decision.                     *)
DecisionFollows ==
    \A i \in DOMAIN inbox : inbox[i] \in Nonces => i < Len(inbox) /\ inbox[i + 1] \notin Nonces

(* A backlog has a delay or a fault behind it, beyond what one tick brings *)
(* and the next one begins with: every drain takes a decision, if any.     *)
Decisions(box) == {i \in DOMAIN box : box[i] \notin Nonces}
Backlog ==
    /\ Len(uplink) <= slips + faults + (IF board \in {"drain", "sleep"} THEN 1 ELSE 0)
    /\ Len(uplink) + Cardinality(Decisions(inbox))
          <= slips + faults + (IF board = "drain" THEN 2 ELSE 1)

OnlyDecisions == \A i \in DOMAIN inbox : inbox[i] \notin Nonces
NoEcho        == \A i \in DOMAIN uplink : uplink[i].echo = None

(* The challenge waits within reach of the next drain.                     *)
InInbox ==
    /\ nonce = None /\ NoEcho /\ age <= slips + (IF board = "sleep" THEN 0 ELSE 1)
    /\ \E p \in DOMAIN inbox : /\ p <= Drained /\ inbox[p] = pending
                               /\ \A i \in DOMAIN inbox : i # p => inbox[i] \notin Nonces

(* The board holds it, for its next message.                               *)
AtBoard ==
    /\ nonce = pending /\ OnlyDecisions /\ NoEcho /\ board # "drain"
    /\ age <= slips + (IF board = "sleep" THEN 1 ELSE 2)

(* The answer is under way, in the session that goes on.                   *)
InUplink ==
    /\ nonce = None /\ OnlyDecisions /\ age <= slips + 2
    /\ \E k \in DOMAIN uplink :
          /\ uplink[k].echo = pending
          /\ \A i \in DOMAIN uplink : i # k => uplink[i].echo = None
          /\ \A i \in DOMAIN uplink : i >= k => uplink[i].boot = boot

(* The answer was refused, and so is everything of this session.           *)
Unheard ==
    /\ nonce = None /\ OnlyDecisions /\ boot < newest
    /\ \A i \in DOMAIN uplink : uplink[i].boot < newest

NonceKept == pending # None /\ ~excused =>
    /\ linked /\ board \in {"publish", "drain", "sleep"}
    /\ InInbox \/ AtBoard \/ InUplink \/ Unheard

(* A failed step-up settles its challenge, and its message brings no other.*)
NoneFailed == pending # None => outcome \notin Fails

TimelyInv == DecisionFollows /\ Backlog /\ NonceKept /\ NoneFailed
=============================================================================
