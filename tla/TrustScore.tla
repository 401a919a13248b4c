----------------------------- MODULE TrustScore -----------------------------
(***************************************************************************)
(* The security trust score (src/trust_engine.py), the static policy       *)
(* (src/policy_engine.py) and the deployed policy table with its buckets   *)
(* (src/adaptive_pdp.py), as operators on integers.                        *)
(*                                                                         *)
(*   - A score is counted in thousandths: the code rounds it to three      *)
(*     digits after every message.  A rounding that ends in an exact half  *)
(*     goes up.                                                            *)
(*   - Time is counted in tenths of a second: a score loses a thousandth   *)
(*     in each.                                                            *)
(***************************************************************************)
EXTENDS Integers

Threshold == 600       \* SECURITY_THRESHOLD and PROCESS_THRESHOLD
InitialTrust == 800
Scores == 0 .. 1000
Actions == {"ALLOW", "STEP_UP", "ALERT", "BLOCK"}
Fails == {"TIMEOUT", "MISMATCH"}
Verdicts == Fails \cup {"NONE", "SUCCESS"}

Least(a, b) == IF a < b THEN a ELSE b
Most(a, b)  == IF a > b THEN a ELSE b

(* Mutant of Decayed: the limit on a decay taken for a floor.              *)
DecayedAtLeast(s, e) == Most(0, s - Most(300, e))
(* score_security_trust: what is left of a score after e tenths.           *)
Decayed(s, e) == Most(0, s - Least(300, e))

(* failures counts this one already.                                       *)
Observation(s, verdict, flood, failures) ==
    CASE verdict = "SUCCESS" -> s
      [] verdict \in Fails   -> Most(0, 500 - 150 * Least(failures, 3))
      [] verdict = "NONE"    -> IF flood THEN 200 ELSE 950

Trust(score, e, verdict, flood, failures) ==
    LET d == Decayed(score, e)
        s == IF verdict = "SUCCESS" THEN Least(1000, d + 100) ELSE d
    IN (35 * Observation(s, verdict, flood, failures) + 65 * s + 50) \div 100

(* policy_engine.decide.                                                   *)
Decide(s, p) ==
    CASE s >= Threshold /\ p >= Threshold -> "ALLOW"
      [] s >= Threshold /\ p < Threshold  -> "ALERT"
      [] s < Threshold /\ p >= Threshold  -> "STEP_UP"
      [] OTHER                            -> "BLOCK"

(* state_key: int(score / 0.1) falls short at three of the boundaries.     *)
Short == {300, 600, 700}
Bucket(s) == LET b == s \div 100 IN Least(9, IF s \in Short THEN b - 1 ELSE b)
Key(s, p) == <<Bucket(s), Bucket(p)>>

(* The best action of every state the deployed table was trained on.       *)
TrainedStepUp == {6} \X {0, 5, 8, 9}
TrainedAlert  == {<<6, 2>>, <<7, 2>>, <<8, 0>>, <<8, 2>>, <<8, 3>>, <<9, 0>>, <<9, 2>>}
TrainedAllow  == ({7} \X {0, 7, 8, 9}) \cup ({8} \X (5 .. 9)) \cup ({9} \X (3 .. 9))
Trained == [k \in TrainedStepUp \cup TrainedAlert \cup TrainedAllow |->
              IF k \in TrainedAllow THEN "ALLOW"
              ELSE IF k \in TrainedAlert THEN "ALERT" ELSE "STEP_UP"]

(* _get_q, with the untrained states of its table in q: the first score    *)
(* that visits one decides for all of it.                                  *)
NothingSeeded == [k \in {} |-> "ALLOW"]
Seeded(q, s, p) == [k \in DOMAIN q \cup ({Key(s, p)} \ DOMAIN Trained) |->
                      IF k \in DOMAIN q THEN q[k] ELSE Decide(s, p)]
Greedy(q, s, p) == IF Key(s, p) \in DOMAIN Trained THEN Trained[Key(s, p)]
                   ELSE Seeded(q, s, p)[Key(s, p)]
=============================================================================
