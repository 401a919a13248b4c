----------------------------- MODULE PolicyTable -----------------------------
(***************************************************************************)
(* The policy of one running gateway: the trust score of a device, its     *)
(* step-up challenge, the table its decisions come from, and the           *)
(* dashboard, whose view of the table asks the same object.                *)
(*                                                                         *)
(*   - Messages come after any of the gaps, with any process score.  One   *)
(*     may echo the pending nonce, another one, or none.                   *)
(*   - A message, and a view of the table, is handled at one instant.      *)
(***************************************************************************)
EXTENDS TrustScore

CONSTANTS
    Gaps,           \* tenths of a second between two messages
    ProcessScores

VARIABLES
    heard,      \* a message was accepted before: the device's state exists
    score,      \* SecurityTrustState.score
    failures,   \* step_up_failures_total, counted up to 3
    pending,    \* a nonce is in pending_step_up_nonce
    age,        \* tenths since it was issued, up to the last message
    q,          \* the untrained states in AdaptivePDP.q, and their best action
    last        \* the last decision, its verdict and the scores it was taken for

vars == <<heard, score, failures, pending, age, q, last>>

StepUpTimeout == 100    \* STEP_UP_CHALLENGE_TIMEOUT_SECONDS
Echoes == {"none", "right", "wrong"}

NoDecision == [action |-> "ALLOW", verdict |-> "NONE", security |-> 1000, process |-> 1000]

Init ==
    /\ heard = FALSE /\ score = InitialTrust /\ failures = 0
    /\ pending = FALSE /\ age = 0
    /\ q = NothingSeeded /\ last = NoDecision

(* check_step_up_response, gap tenths after the message before.            *)
Verdict(gap, echo) ==
    CASE ~pending -> "NONE"
      [] pending /\ age + gap > StepUpTimeout -> "TIMEOUT"
      [] OTHER -> [none |-> "NONE", right |-> "SUCCESS", wrong |-> "MISMATCH"][echo]

(* check_flood, check_step_up_response, score_security_trust,              *)
(* greedy_action, and the challenge a STEP_UP asks for; a failed step-up   *)
(* is a BLOCK whatever the table says.  A message within half a second is  *)
(* a flood; the first one has none before it.                              *)
Message(gap, echo, p) ==
    LET verdict == Verdict(gap, echo)
        n == IF verdict \in Fails /\ failures < 3 THEN failures + 1 ELSE failures
        s == Trust(score, IF heard THEN gap ELSE 0, verdict, heard /\ gap < 5, n)
        waiting == pending /\ verdict = "NONE"
        challenged == Greedy(q, s, p) = "STEP_UP" /\ verdict \notin Fails
    IN /\ heard' = TRUE /\ score' = s /\ failures' = n
       /\ pending' = (waiting \/ challenged)
       /\ age' = IF waiting THEN age + gap ELSE 0
       /\ q' = Seeded(q, s, p)
       /\ last' = [action |-> IF verdict \in Fails THEN "BLOCK" ELSE Greedy(q, s, p),
                   verdict |-> verdict, security |-> s, process |-> p]

(* _build_qtable_view asks for the middle of ten buckets.                  *)
View ==
    /\ LET middles == {100 * b + 50 : b \in 0 .. 9}
           asked == {Key(s, 950) : s \in middles}
       IN q' = [k \in DOMAIN q \cup (asked \ DOMAIN Trained) |->
                  IF k \in DOMAIN q THEN q[k] ELSE Decide(100 * k[1] + 50, 950)]
    /\ UNCHANGED <<heard, score, failures, pending, age, last>>

Next == View \/ \E gap \in Gaps, echo \in Echoes, p \in ProcessScores : Message(gap, echo, p)

Spec == Init /\ [][Next]_vars
-----------------------------------------------------------------------------
(* Properties                                                              *)

(* What the dashboard says of the table (src/src/gateway.py): in a state   *)
(* the training never visited, the gateway's decision is the static        *)
(* policy's.  A failed step-up is decided without the table.               *)
FallbackIsStatic ==
    last.verdict \notin Fails /\ Key(last.security, last.process) \notin DOMAIN Trained
        => last.action = Decide(last.security, last.process)
-----------------------------------------------------------------------------
(* How far FallbackIsStatic is from true: the inductive invariant.         *)

(* An untrained state holds what the static policy said of some pair of    *)
(* scores of this state, the first one that visited it.                    *)
SeededInside(k, action) ==
    \E s, p \in Scores : Key(s, p) = k /\ action = Decide(s, p)

TableInv ==
    /\ score \in Scores /\ failures \in 0 .. 3
    /\ \A k \in DOMAIN q : k \notin DOMAIN Trained /\ SeededInside(k, q[k])
    /\ last.security \in Scores /\ last.process \in Scores
    /\ LET k == Key(last.security, last.process)
       IN k \notin DOMAIN Trained /\ last.verdict \notin Fails => SeededInside(k, last.action)

(* The fallback departs from the static policy, in either direction, at    *)
(* the threshold only: for a score in the bucket from 0.5, which 0.6       *)
(* itself falls short of leaving (state_key).                              *)
DepartsAtThreshold ==
    \/ FallbackIsStatic
    \/ last.security \in 500 .. 600
    \/ last.process \in 500 .. 600
=============================================================================
