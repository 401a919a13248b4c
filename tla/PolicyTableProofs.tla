------------------------- MODULE PolicyTableProofs --------------------------
(***************************************************************************)
(* What the deployed policy table can decide in a state its training never *)
(* visited, for every gap between messages, every echo of a challenge and  *)
(* every process score: its departure from the static policy is confined   *)
(* to one bucket.                                                          *)
(***************************************************************************)
EXTENDS PolicyTable, TLAPS

(***************************************************************************)
(* The score.                                                              *)
(***************************************************************************)
LEMMA DecayedRange ==
    ASSUME NEW s \in Scores, NEW e \in Nat
    PROVE  Decayed(s, e) \in Scores /\ Decayed(s, e) <= s
BY DEF Decayed, Least, Most, Scores

LEMMA ObservationRange ==
    ASSUME NEW s \in Scores, NEW verdict \in Verdicts, NEW flood \in BOOLEAN, NEW n \in 0 .. 3
    PROVE  Observation(s, verdict, flood, n) \in Scores
BY DEF Observation, Least, Most, Scores, Verdicts, Fails

LEMMA ScoreRange ==
    ASSUME NEW s \in Scores, NEW e \in Nat, NEW verdict \in Verdicts, NEW flood \in BOOLEAN,
           NEW n \in 0 .. 3
    PROVE  Trust(s, e, verdict, flood, n) \in Scores
<1> DEFINE t == IF verdict = "SUCCESS" THEN Least(1000, Decayed(s, e) + 100) ELSE Decayed(s, e)
           o == Observation(t, verdict, flood, n)
<1>1. Trust(s, e, verdict, flood, n) = (35 * o + 65 * t + 50) \div 100
  BY DEF Trust
<1>2. t \in Scores
  <2>1. Decayed(s, e) \in Scores
    BY DecayedRange
  <2>2. \A d \in Scores : (IF verdict = "SUCCESS" THEN Least(1000, d + 100) ELSE d) \in Scores
    BY DEF Least, Scores
  <2> QED BY <2>1, <2>2
<1> HIDE DEF t
<1>3. o \in Scores
  BY <1>2, ObservationRange
<1> HIDE DEF o
<1>4. \A x, y \in Scores : (35 * x + 65 * y + 50) \div 100 \in Scores
  BY DEF Scores
<1> QED BY <1>1, <1>2, <1>3, <1>4

(***************************************************************************)
(* The buckets: only the one below the threshold mixes the two sides.      *)
(***************************************************************************)
LEMMA BucketSides ==
    ASSUME NEW s \in Scores
    PROVE  /\ Bucket(s) <= 4 => s < Threshold
           /\ Bucket(s) = 5 => s \in 500 .. 600
           /\ Bucket(s) >= 6 => s >= Threshold
           /\ Bucket(s) \in 0 .. 9
<1>1. s \in 0 .. 1000
  BY DEF Scores
<1>2. CASE s < 500
  BY <1>1, <1>2 DEF Bucket, Least, Short, Threshold
<1>3. CASE s \in 500 .. 599
  BY <1>3 DEF Bucket, Least, Short, Threshold
<1>4. CASE s = 600
  BY <1>4 DEF Bucket, Least, Short, Threshold
<1>5. CASE s > 600
  BY <1>1, <1>5 DEF Bucket, Least, Short, Threshold
<1> QED BY <1>1, <1>2, <1>3, <1>4, <1>5

LEMMA SameSide ==
    ASSUME NEW s \in Scores, NEW t \in Scores, Bucket(s) = Bucket(t), s \notin 500 .. 600
    PROVE  s >= Threshold <=> t >= Threshold
<1>1. Bucket(s) \in 0 .. 9
  BY BucketSides
<1>2. CASE Bucket(s) <= 4
  <2>1. s < Threshold /\ t < Threshold
    BY <1>2, BucketSides
  <2> QED BY <2>1 DEF Threshold, Scores
<1>3. Bucket(s) # 5
  BY BucketSides
<1>4. CASE Bucket(s) >= 6
  <2>1. s >= Threshold /\ t >= Threshold
    BY <1>4, BucketSides
  <2> QED BY <2>1
<1> QED BY <1>1, <1>2, <1>3, <1>4

LEMMA DecideBySides ==
    ASSUME NEW s \in Scores, NEW p \in Scores, NEW t \in Scores, NEW r \in Scores,
           s >= Threshold <=> t >= Threshold, p >= Threshold <=> r >= Threshold
    PROVE  Decide(s, p) = Decide(t, r)
<1>1. \A x \in Scores : x < Threshold <=> ~(x >= Threshold)
  BY DEF Scores, Threshold
<1>2. /\ s < Threshold <=> t < Threshold
      /\ p < Threshold <=> r < Threshold
  BY <1>1
<1> QED BY <1>2, Zenon DEF Decide

(***************************************************************************)
(* The table.                                                              *)
(***************************************************************************)
LEMMA SeededByStatic ==
    ASSUME NEW s \in Scores, NEW p \in Scores
    PROVE  SeededInside(Key(s, p), Decide(s, p))
BY DEF SeededInside

LEMMA TableSeeded ==
    ASSUME NEW s \in Scores, NEW p \in Scores,
           \A k \in DOMAIN q : k \notin DOMAIN Trained /\ SeededInside(k, q[k])
    PROVE  /\ \A k \in DOMAIN Seeded(q, s, p) :
                 k \notin DOMAIN Trained /\ SeededInside(k, Seeded(q, s, p)[k])
           /\ Key(s, p) \notin DOMAIN Trained => SeededInside(Key(s, p), Greedy(q, s, p))
<1> DEFINE T == Seeded(q, s, p)
           new == {Key(s, p)} \ DOMAIN Trained
<1>1. /\ DOMAIN T = DOMAIN q \cup new
      /\ \A k \in DOMAIN T : T[k] = IF k \in DOMAIN q THEN q[k] ELSE Decide(s, p)
  BY DEF Seeded
<1> HIDE DEF T
<1>2. \A k \in new : k = Key(s, p) /\ k \notin DOMAIN Trained
  OBVIOUS
<1> HIDE DEF new
<1>3. \A k \in DOMAIN T : k \notin DOMAIN Trained /\ SeededInside(k, T[k])
  BY <1>1, <1>2, SeededByStatic
<1>4. ASSUME Key(s, p) \notin DOMAIN Trained
      PROVE  Greedy(q, s, p) = T[Key(s, p)] /\ Key(s, p) \in DOMAIN T
  BY <1>1, <1>4 DEF Greedy, T, new
<1> QED BY <1>3, <1>4 DEF T

LEMMA InitTable == Init => TableInv
<1> SUFFICES ASSUME Init PROVE TableInv
  OBVIOUS
<1>1. /\ score \in Scores /\ failures \in 0 .. 3 /\ DOMAIN q = {}
      /\ last.security = 1000 /\ last.process = 1000
  BY DEF Init, InitialTrust, NothingSeeded, NoDecision, Scores
<1>2. last.action = Decide(1000, 1000)
  BY DEF Init, NoDecision, Decide, Threshold
<1>3. SeededInside(Key(1000, 1000), Decide(1000, 1000))
  <2>1. 1000 \in Scores
    BY DEF Scores
  <2> QED BY <2>1, SeededByStatic
<1> QED BY <1>1, <1>2, <1>3 DEF TableInv, Scores

LEMMA VerdictRange ==
    ASSUME NEW gap, NEW echo \in Echoes
    PROVE  Verdict(gap, echo) \in Verdicts
<1>1. [none |-> "NONE", right |-> "SUCCESS", wrong |-> "MISMATCH"][echo] \in Verdicts
  BY DEF Echoes, Verdicts, Fails
<1>2. "NONE" \in Verdicts /\ "TIMEOUT" \in Verdicts
  BY DEF Verdicts, Fails
<1>3. CASE ~pending
  BY <1>2, <1>3 DEF Verdict
<1>4. CASE pending /\ age + gap > StepUpTimeout
  BY <1>2, <1>4 DEF Verdict
<1>5. CASE pending /\ ~(age + gap > StepUpTimeout)
  BY <1>1, <1>5 DEF Verdict
<1> QED BY <1>3, <1>4, <1>5

LEMMA MessageTable ==
    ASSUME TableInv, NEW gap \in Nat, NEW echo \in Echoes, NEW p \in Scores,
           Message(gap, echo, p)
    PROVE  TableInv'
<1> DEFINE verdict == Verdict(gap, echo)
           n == IF verdict \in Fails /\ failures < 3 THEN failures + 1 ELSE failures
           e == IF heard THEN gap ELSE 0
           flood == heard /\ gap < 5
           s == Trust(score, e, verdict, flood, n)
<1>1. /\ score' = s /\ failures' = n /\ q' = Seeded(q, s, p)
      /\ last' = [action |-> IF verdict \in Fails THEN "BLOCK" ELSE Greedy(q, s, p),
                  verdict |-> verdict, security |-> s, process |-> p]
  BY DEF Message
<1>a. verdict \in Verdicts
  BY VerdictRange
<1>b. e \in Nat
  OBVIOUS
<1>c. flood \in BOOLEAN
  OBVIOUS
<1> HIDE DEF verdict, e, flood
<1>2. n \in 0 .. 3
  BY DEF TableInv
<1> HIDE DEF n
<1>3. s \in Scores
  <2>1. score \in Scores
    BY DEF TableInv
  <2> QED BY <1>2, <1>a, <1>b, <1>c, <2>1, ScoreRange
<1> HIDE DEF s
<1>4. /\ \A k \in DOMAIN q' : k \notin DOMAIN Trained /\ SeededInside(k, q'[k])
      /\ Key(s, p) \notin DOMAIN Trained => SeededInside(Key(s, p), Greedy(q, s, p))
  BY <1>1, <1>3, TableSeeded DEF TableInv
<1>5. /\ last'.security = s /\ last'.process = p
      /\ last'.verdict \notin Fails => last'.action = Greedy(q, s, p)
  BY <1>1
<1> QED BY <1>1, <1>2, <1>3, <1>4, <1>5 DEF TableInv

(* The dashboard's middle of a bucket lies in the bucket it asks for.      *)
LEMMA ViewTable == ASSUME TableInv, View PROVE TableInv'
<1> DEFINE middles == {100 * b + 50 : b \in 0 .. 9}
           asked == {Key(s, 950) : s \in middles}
<1>1. /\ q' = [k \in DOMAIN q \cup (asked \ DOMAIN Trained) |->
                  IF k \in DOMAIN q THEN q[k] ELSE Decide(100 * k[1] + 50, 950)]
      /\ UNCHANGED <<score, failures, last>>
  BY DEF View
<1>2. \A b \in 0 .. 9 : 100 * b + 50 \in Scores /\ Bucket(100 * b + 50) = b
  BY DEF Scores, Bucket, Least, Short
<1>3. \A k \in asked : \E s \in Scores : k = Key(s, 950) /\ 100 * k[1] + 50 = s
  <2> SUFFICES ASSUME NEW b \in 0 .. 9
               PROVE  LET s == 100 * b + 50
                      IN  s \in Scores /\ 100 * Key(s, 950)[1] + 50 = s
    OBVIOUS
  <2>1. Key(100 * b + 50, 950)[1] = b
    BY <1>2 DEF Key
  <2> QED BY <1>2, <2>1
<1>4. \A k \in asked : SeededInside(k, Decide(100 * k[1] + 50, 950))
  <2>1. 950 \in Scores
    BY DEF Scores
  <2> QED BY <1>3, <2>1, SeededByStatic
<1> HIDE DEF asked, middles
<1>5. \A k \in DOMAIN q' : k \notin DOMAIN Trained /\ SeededInside(k, q'[k])
  BY <1>1, <1>4 DEF TableInv
<1> QED BY <1>1, <1>5 DEF TableInv

LEMMA NextTable ==
    ASSUME Gaps \subseteq Nat, ProcessScores \subseteq Scores, TableInv, [Next]_vars
    PROVE  TableInv'
<1>1. CASE View
  BY <1>1, ViewTable
<1>2. CASE \E gap \in Gaps, echo \in Echoes, p \in ProcessScores : Message(gap, echo, p)
  <2>1. PICK gap \in Gaps, echo \in Echoes, p \in ProcessScores : Message(gap, echo, p)
    BY <1>2
  <2>2. gap \in Nat /\ p \in Scores
    OBVIOUS
  <2> QED BY <2>1, <2>2, MessageTable
<1>3. CASE UNCHANGED vars
  BY <1>3 DEF vars, TableInv
<1> QED BY <1>1, <1>2, <1>3 DEF Next

LEMMA TableImplies == TableInv => DepartsAtThreshold
<1> SUFFICES ASSUME TableInv, last.verdict \notin Fails,
                    Key(last.security, last.process) \notin DOMAIN Trained,
                    last.security \notin 500 .. 600, last.process \notin 500 .. 600
             PROVE  last.action = Decide(last.security, last.process)
  BY DEF DepartsAtThreshold, FallbackIsStatic
<1>1. /\ last.security \in Scores /\ last.process \in Scores
      /\ SeededInside(Key(last.security, last.process), last.action)
  BY DEF TableInv
<1>2. PICK s \in Scores, p \in Scores :
         Key(s, p) = Key(last.security, last.process) /\ last.action = Decide(s, p)
  BY <1>1 DEF SeededInside
<1>3. Bucket(last.security) = Bucket(s) /\ Bucket(last.process) = Bucket(p)
  BY <1>2 DEF Key
<1>4. /\ last.security >= Threshold <=> s >= Threshold
      /\ last.process >= Threshold <=> p >= Threshold
  BY <1>1, <1>3, SameSide
<1>5. Decide(last.security, last.process) = Decide(s, p)
  BY <1>1, <1>4, DecideBySides
<1> QED BY <1>2, <1>5

(* Every entry the gateway's table gains while it runs is the static       *)
(* policy's answer for some scores of that state, whether a message or the *)
(* dashboard asked first.                                                  *)
THEOREM TableIsStaticInside ==
    ASSUME Gaps \subseteq Nat, ProcessScores \subseteq Scores
    PROVE  Spec => []TableInv
<1>1. TableInv /\ [Next]_vars => TableInv'
  BY NextTable
<1> QED BY InitTable, <1>1, PTL DEF Spec

(* Where the gateway decides an untrained state otherwise than the static  *)
(* policy, and no step-up has just failed, one of the two scores is        *)
(* between 0.5 and 0.6.                                                    *)
THEOREM DepartureIsBounded ==
    ASSUME Gaps \subseteq Nat, ProcessScores \subseteq Scores
    PROVE  Spec => []DepartsAtThreshold
<1>1. Spec => []TableInv
  BY TableIsStaticInside
<1> QED BY <1>1, TableImplies, PTL
=============================================================================
