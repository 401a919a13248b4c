-------------------------- MODULE TelemetryAuthProofs --------------------------
(***************************************************************************)
(* Proofs about the telemetry gate, for any set of devices, any clock      *)
(* errors and any bounds.                                                  *)
(***************************************************************************)
EXTENDS TelemetryAuth, FiniteSetTheorems, SequenceTheorems, TLAPS

USE DEF NoKey, NoBoot, NoTime

(* Every envelope the gate can be handed is well typed. *)
LEMMA DeliverableType ==
    ASSUME TypeOK, NEW m \in sent \cup Unsigned
    PROVE  m \in Message
<1>1. MaxBoot + 1 \in Nat /\ now \in Int
  BY BoundsAssumption DEF TypeOK
<1>2. CASE m \in sent
  BY <1>2 DEF TypeOK
<1>3. CASE m \in Unsigned
  <2>1. PICK c \in ClaimedId :
          m = [dev |-> c, boot |-> MaxBoot + 1, seq |-> 1, ts |-> now,
               key |-> NoKey, readable |-> TRUE]
    BY <1>3 DEF Unsigned
  <2>2. PICK r \in BOOLEAN : r = TRUE
    OBVIOUS
  <2>3. m = [dev |-> c, boot |-> MaxBoot + 1, seq |-> 1, ts |-> now,
             key |-> NoKey, readable |-> r]
    BY <2>1, <2>2
  <2> QED
    BY <1>1, <2>3 DEF Message
<1> QED
  BY <1>2, <1>3

(* Pruning old attempts leaves a sequence of times. *)
LEMMA RecentType ==
    ASSUME TypeOK, NEW c \in ClaimedId
    PROVE  Recent(c) \in Seq(Nat)
<1> DEFINE expired == {i \in DOMAIN attempts[c] : now - attempts[c][i] > RiskWindow}
<1>1. attempts[c] \in Seq(Nat)
  BY DEF TypeOK
<1>2. Len(attempts[c]) \in Nat /\ DOMAIN attempts[c] = 1 .. Len(attempts[c])
  BY <1>1
<1>3. IsFiniteSet(1 .. Len(attempts[c]))
  BY <1>2, FS_Interval
<1>4. expired \subseteq 1 .. Len(attempts[c])
  BY <1>2
<1>5. Cardinality(expired) \in Nat
  BY <1>3, <1>4, FS_Subset, FS_CardinalityType
<1> HIDE DEF expired
<1>6. SubSeq(attempts[c], Cardinality(expired) + 1, Len(attempts[c])) \in Seq(Nat)
  BY <1>1, <1>2, <1>5
<1> QED
  BY <1>6 DEF Recent, expired

(* One handled envelope keeps the types. *)
LEMMA DeliverType ==
    ASSUME TypeOK, NEW m \in sent \cup Unsigned, Deliver(m)
    PROVE  TypeOK'
<1>1. m \in Message
  BY DeliverableType
<1>2. ASSUME Reject(m), m.dev \in ClaimedId, prevKey' \in [Device -> Nat]
      PROVE  TypeOK'
  <2> DEFINE run == Append(Recent(m.dev), now)
  <2>1. run \in Seq(Nat)
    <3>1. Recent(m.dev) \in Seq(Nat)
      BY <1>2, RecentType
    <3> QED
      BY <3>1 DEF TypeOK
  <2>2. now + Cooldown \in Nat
    BY ClockAssumption DEF TypeOK
  <2>3. attempts' \in [ClaimedId -> Seq(Nat)]
    BY <1>2, <2>1 DEF Reject, TypeOK
  <2>4. cooldownUntil' \in [ClaimedId -> Nat]
    BY <1>2, <2>2 DEF Reject, TypeOK
  <2> QED
    BY <1>2, <2>3, <2>4 DEF Reject, TypeOK, deviceVars, lifeVars
<1>3. m.dev \in ClaimedId
  BY <1>1 DEF Message
<1>4. CASE RejectUnadmitted(m)
  BY <1>2, <1>3, <1>4 DEF RejectUnadmitted, TypeOK
<1>5. CASE RejectSignature(m)
  BY <1>2, <1>3, <1>5 DEF RejectSignature, ForgetExpiredKey, TypeOK
<1>6. CASE DropThrottled(m)
  BY <1>6 DEF DropThrottled, ForgetExpiredKey, TypeOK, deviceVars, lifeVars, riskVars
<1>7. CASE RejectSigned(m)
  BY <1>2, <1>3, <1>7 DEF RejectSigned, TypeOK
<1>8. CASE Accept(m)
  <2>1. m.dev \in Device
    BY <1>8 DEF Accept, Authentic, InOrder, Signed, Admitted, Registered
  <2>2. [msg |-> m, at |-> now] \in Acceptance
    BY <1>1 DEF Acceptance, TypeOK
  <2>3. [boot |-> m.boot, seq |-> m.seq] \in Baseline
    BY <1>1 DEF Message, Baseline
  <2>4. accepted' \in [Device -> Seq(Acceptance)]
    BY <1>8, <2>1, <2>2 DEF Accept, TypeOK
  <2>5. lastSeen' \in [Device -> Baseline]
    BY <1>8, <2>1, <2>3 DEF Accept, Commit, TypeOK
  <2> QED
    BY <1>8, <2>4, <2>5 DEF Accept, TypeOK, deviceVars, keyVars, riskVars, lifeVars
<1> QED
  BY <1>4, <1>5, <1>6, <1>7, <1>8 DEF Deliver

(* Every step keeps the types. *)
LEMMA TypeStep ==
    ASSUME TypeOK, [Next]_vars
    PROVE  TypeOK'
<1> USE DEF deviceVars, keyVars, riskVars, lifeVars
<1>1. ASSUME NEW d \in Device, Boot(d) PROVE TypeOK'
  BY <1>1, ClockAssumption DEF Boot, TypeOK
<1>9. ASSUME NEW d \in Device, TornBoot(d) PROVE TypeOK'
  <2>1. boot' \in [Device -> Nat] /\ seq' \in [Device -> Nat] /\ tears' \in Nat
    BY <1>9 DEF TornBoot, TypeOK
  <2>2. highest' \in [Device -> Nat]
    BY <1>9 DEF TornBoot, TypeOK
  <2> QED
    BY <1>9, <2>1, <2>2 DEF TornBoot, TypeOK
<1>2. ASSUME NEW d \in Device, Publish(d) PROVE TypeOK'
  <2>1. PICK r \in Readings :
          sent' = sent \cup {[dev |-> d, boot |-> boot[d], seq |-> seq[d] + 1,
                              ts |-> now + skew[d], key |-> devKey[d],
                              readable |-> r]}
    BY <1>2 DEF Publish
  <2>2. [dev |-> d, boot |-> boot[d], seq |-> seq[d] + 1, ts |-> now + skew[d],
         key |-> devKey[d], readable |-> r] \in Message
    BY ClockAssumption DEF TypeOK, Message, ClaimedId
  <2>3. sent' \subseteq Message
    BY <2>1, <2>2 DEF TypeOK
  <2>4. seq' \in [Device -> Nat]
    BY <1>2 DEF Publish, TypeOK
  <2> QED
    BY <1>2, <2>3, <2>4 DEF Publish, TypeOK
<1>3. CASE Tick
  <2>1. now' \in Nat
    BY <1>3 DEF Tick, TypeOK
  <2> QED
    BY <1>3, <2>1 DEF Tick, TypeOK
<1>4. ASSUME NEW m \in sent \cup Unsigned, Deliver(m) PROVE TypeOK'
  BY <1>4, DeliverType
<1>5. ASSUME NEW d \in Device, Revoke(d) \/ Reinstate(d) PROVE TypeOK'
  BY <1>5 DEF Revoke, Reinstate, TypeOK
<1>6. ASSUME NEW d \in Device, RotateKey(d) PROVE TypeOK'
  <2>1. /\ key' \in [Device -> Nat \ {NoKey}] /\ minted' \in [Device -> Nat \ {NoKey}]
        /\ prevKey' \in [Device -> Nat] /\ rotatedAt' \in [Device -> Nat \cup {NoTime}]
    BY <1>6 DEF RotateKey, TypeOK
  <2>2. retired' \subseteq [dev : Device, key : Nat \ {NoKey}, at : Nat]
    <3>1. key[d] \in Nat \ {NoKey} /\ now \in Nat
      BY DEF TypeOK
    <3>2. [dev |-> d, key |-> key[d], at |-> now]
            \in [dev : Device, key : Nat \ {NoKey}, at : Nat]
      BY <3>1
    <3> QED
      BY <1>6, <3>2 DEF RotateKey, TypeOK
  <2> QED
    BY <1>6, <2>1, <2>2 DEF RotateKey, TypeOK
<1>7. CASE Restart
  <2>1. past' \subseteq Acceptance
    BY <1>7 DEF Restart, TypeOK
  <2> QED
    BY <1>7, <2>1 DEF Restart, TypeOK, Baseline, FirstContact
<1>8. CASE UNCHANGED vars
  BY <1>8 DEF vars, TypeOK
<1> QED
  BY <1>1, <1>9, <1>2, <1>3, <1>4, <1>5, <1>6, <1>7, <1>8, DevicesAssumption DEF Next

(* Type correctness. *)
THEOREM TypeCorrect == Spec => []TypeOK
<1>1. Init => TypeOK
  BY DEF Init, TypeOK, Baseline, FirstContact
<1>2. TypeOK /\ [Next]_vars => TypeOK'
  BY TypeStep
<1> QED
  BY <1>1, <1>2, PTL DEF Spec

-------------------------------------------------------------------------------
(* Only what a secret signed is accepted, so it was published. *)
LEMMA AcceptedWasSent ==
    ASSUME TypeOK, NEW m \in sent \cup Unsigned, Accept(m)
    PROVE  m \in sent /\ m.dev \in Device
<1>1. m.key # NoKey
  BY DEF Accept, Authentic, InOrder, Signed, VerifySignature
<1>2. m \notin Unsigned
  BY <1>1 DEF Unsigned
<1> QED
  BY <1>2 DEF Accept, Authentic, InOrder, Signed, Admitted, Registered

(* A step accepts a published message, restarts the gateway, or leaves the *)
(* baselines and the accepted streams alone.                               *)
LEMMA StepKinds ==
    ASSUME TypeOK, [Next]_vars
    PROVE  \/ \E m \in sent : Accept(m)
           \/ Restart
           \/ UNCHANGED <<lastSeen, accepted, past>>
<1> USE DEF deviceVars, keyVars, riskVars, lifeVars
<1>1. ASSUME NEW m \in sent \cup Unsigned, Deliver(m)
      PROVE  (\E n \in sent : Accept(n)) \/ UNCHANGED <<lastSeen, accepted, past>>
  <2>1. CASE Accept(m)
    BY <2>1, AcceptedWasSent
  <2>2. CASE ~Accept(m)
    BY <1>1, <2>2 DEF Deliver, RejectUnadmitted, RejectSignature, DropThrottled,
                     RejectSigned, Reject
  <2> QED
    BY <2>1, <2>2
<1> QED
  BY <1>1, DevicesAssumption
  DEF Next, Boot, TornBoot, Publish, Tick, Revoke, Reinstate, RotateKey, vars

(* Published messages stay on the network, and time does not run back. *)
LEMMA Progress ==
    ASSUME TypeOK, [Next]_vars
    PROVE  sent \subseteq sent' /\ now <= now'
<1> USE DEF deviceVars, keyVars, riskVars, lifeVars
<1>1. ASSUME NEW m \in sent \cup Unsigned, Deliver(m)
      PROVE  UNCHANGED <<sent, now>>
  BY <1>1 DEF Deliver, RejectUnadmitted, RejectSignature, DropThrottled,
              RejectSigned, Reject, Accept
<1> QED
  BY <1>1, DevicesAssumption
  DEF Next, Boot, TornBoot, Publish, Tick, Revoke, Reinstate, RotateKey, Restart, vars, TypeOK

(* What an acceptance does to the stream of its device. *)
LEMMA AcceptEffect ==
    ASSUME TypeOK, NEW m \in sent, Accept(m)
    PROVE  /\ m.dev \in Device
           /\ Advances(m, lastSeen[m.dev])
           /\ lastSeen' = [lastSeen EXCEPT ![m.dev] = [boot |-> m.boot, seq |-> m.seq]]
           /\ accepted' = [accepted EXCEPT ![m.dev] =
                             Append(accepted[m.dev], [msg |-> m, at |-> now])]
           /\ UNCHANGED <<now, boot, highest, seq, sent, key, prevKey, rotatedAt, minted, retired,
                          past, lives>>
<1>1. m.dev \in Device /\ Advances(m, lastSeen[m.dev])
  BY DEF Accept, Authentic, InOrder, Signed, Admitted, Registered
<1> QED
  BY <1>1 DEF Accept, Commit, deviceVars, keyVars, lifeVars

-------------------------------------------------------------------------------
(* Devices stamp no two messages alike, but those of lost boot counters. *)
LEMMA SentStep ==
    ASSUME TypeOK, SentInv, [Next]_vars
    PROVE  SentInv'
<1> USE DEF deviceVars, keyVars, riskVars, lifeVars
<1>0. \A m \in sent : m.boot \in Nat /\ m.seq \in Nat /\ m.dev \in Device /\ m.key # NoKey
  BY DEF TypeOK, Message, SentInv
<1>1. ASSUME NEW d \in Device, Boot(d) PROVE SentInv'
  <2>1. /\ sent' = sent
        /\ boot' = [boot EXCEPT ![d] = boot[d] + 1] /\ seq' = [seq EXCEPT ![d] = 0]
        /\ highest' = highest
    BY <1>1 DEF Boot
  <2>2. \A e \in Device : boot[e] \in Nat /\ boot'[e] = IF e = d THEN boot[e] + 1 ELSE boot[e]
    BY <2>1 DEF TypeOK
  <2>3. \A e \in Device : seq'[e] = IF e = d THEN 0 ELSE seq[e]
    BY <2>1 DEF TypeOK
  <2>4. ASSUME NEW m \in sent
        PROVE  \/ m.boot <= highest'[m.dev]
               \/ m.boot < boot'[m.dev]
               \/ m.boot = boot'[m.dev] /\ m.seq <= seq'[m.dev]
    <3>1. \/ m.boot <= highest[m.dev]
          \/ m.boot < boot[m.dev]
          \/ m.boot = boot[m.dev] /\ m.seq <= seq[m.dev]
      BY DEF SentInv
    <3> QED
      BY <1>0, <2>1, <2>2, <2>3, <3>1
  <2> QED
    BY <1>0, <2>1, <2>4 DEF SentInv
<1>9. ASSUME NEW d \in Device, TornBoot(d) PROVE SentInv'
  <2>1. /\ sent' = sent
        /\ \A e \in Device : e # d => /\ boot'[e] = boot[e] /\ seq'[e] = seq[e]
                                      /\ highest'[e] = highest[e]
    BY <1>9 DEF TornBoot, TypeOK
  <2>2. /\ highest'[d] = IF boot[d] > highest[d] THEN boot[d] ELSE highest[d]
        /\ boot[d] \in Nat /\ highest[d] \in Nat
    BY <1>9 DEF TornBoot, TypeOK
  <2>3. ASSUME NEW m \in sent, m.dev = d PROVE m.boot <= highest'[d]
    <3>1. m.boot <= highest[d] \/ m.boot <= boot[d]
      BY <1>0, <2>2, <2>3 DEF SentInv
    <3> QED
      BY <1>0, <2>2, <3>1
  <2>4. ASSUME NEW m \in sent, m.dev # d
        PROVE  \/ m.boot <= highest'[m.dev]
               \/ m.boot < boot'[m.dev]
               \/ m.boot = boot'[m.dev] /\ m.seq <= seq'[m.dev]
    BY <1>0, <2>1, <2>4 DEF SentInv
  <2>5. ASSUME NEW m \in sent, NEW n \in sent, m.boot > highest'[m.dev],
               m.dev = n.dev, m.boot = n.boot, m.seq = n.seq
        PROVE  m = n
    <3>1. highest'[d] \in Nat
      BY <2>2
    <3>2. m.dev # d
      BY <1>0, <2>3, <2>5, <3>1
    <3> QED
      BY <1>0, <2>1, <2>5, <3>2 DEF SentInv
  <2> QED
    BY <1>0, <2>1, <2>3, <2>4, <2>5 DEF SentInv
<1>2. ASSUME NEW d \in Device, Publish(d) PROVE SentInv'
  <2>0. PICK r \in Readings :
          sent' = sent \cup {[dev |-> d, boot |-> boot[d], seq |-> seq[d] + 1,
                              ts |-> now + skew[d], key |-> devKey[d],
                              readable |-> r]}
    BY <1>2 DEF Publish
  <2> DEFINE n == [dev |-> d, boot |-> boot[d], seq |-> seq[d] + 1,
                   ts |-> now + skew[d], key |-> devKey[d], readable |-> r]
  <2>1. /\ sent' = sent \cup {n}
        /\ n.dev = d /\ n.boot = boot[d] /\ n.seq = seq[d] + 1 /\ n.key = devKey[d]
    BY <2>0
  <2> HIDE DEF n
  <2>2. /\ boot' = boot /\ highest' = highest /\ seq' = [seq EXCEPT ![d] = seq[d] + 1]
        /\ seq[d] \in Nat /\ boot[d] \in Nat
    BY <1>2 DEF Publish, TypeOK
  <2>3. n.key # NoKey
    BY <2>1 DEF TypeOK
  <2>4. \A e \in Device : seq[e] \in Nat /\ seq'[e] = IF e = d THEN seq[e] + 1 ELSE seq[e]
    BY <2>2 DEF TypeOK
  <2>5. ASSUME NEW m \in sent
        PROVE  /\ \/ m.boot <= highest'[m.dev]
                  \/ m.boot < boot'[m.dev]
                  \/ m.boot = boot'[m.dev] /\ m.seq <= seq'[m.dev]
               /\ m.boot > highest'[m.dev] =>
                    ~(m.dev = n.dev /\ m.boot = n.boot /\ m.seq = n.seq)
    <3>1. \/ m.boot <= highest[m.dev]
          \/ m.boot < boot[m.dev]
          \/ m.boot = boot[m.dev] /\ m.seq <= seq[m.dev]
      BY DEF SentInv
    <3>2. m.boot \in Nat /\ m.seq \in Nat /\ m.dev \in Device
      BY <1>0
    <3>3. highest[m.dev] \in Nat
      BY <3>2 DEF TypeOK
    <3> QED
      BY <2>1, <2>2, <2>4, <3>1, <3>2, <3>3
  <2>6. n.boot = boot'[n.dev] /\ n.seq <= seq'[n.dev]
    BY <2>1, <2>2, <2>4
  <2>7. ASSUME NEW m \in sent', NEW k \in sent', m.boot > highest'[m.dev],
               m.dev = k.dev, m.boot = k.boot, m.seq = k.seq
        PROVE  m = k
    BY <2>1, <2>2, <2>5, <2>7 DEF SentInv
  <2>8. ASSUME NEW m \in sent'
        PROVE  /\ m.dev \in Device /\ m.key # NoKey
               /\ \/ m.boot <= highest'[m.dev]
                  \/ m.boot < boot'[m.dev]
                  \/ m.boot = boot'[m.dev] /\ m.seq <= seq'[m.dev]
    BY <1>0, <2>1, <2>3, <2>5, <2>6
  <2> QED
    BY <2>7, <2>8 DEF SentInv
<1>3. ASSUME NEW m \in sent \cup Unsigned, Deliver(m) PROVE UNCHANGED <<sent, boot, highest, seq>>
  BY <1>3 DEF Deliver, RejectUnadmitted, RejectSignature, DropThrottled,
              RejectSigned, Reject, Accept
<1>4. CASE UNCHANGED <<sent, boot, highest, seq>>
  BY <1>4 DEF SentInv
<1> QED
  BY <1>1, <1>9, <1>2, <1>3, <1>4, DevicesAssumption
  DEF Next, Tick, Revoke, Reinstate, RotateKey, Restart, vars

(* The shape of a stream after an acceptance: the old one and one message. *)
LEMMA StreamGrows ==
    ASSUME TypeOK, NEW m \in sent, Accept(m)
    PROVE  /\ DOMAIN accepted[m.dev] = 1 .. Len(accepted[m.dev])
           /\ Len(accepted[m.dev]) \in Nat
           /\ DOMAIN accepted'[m.dev] = 1 .. (Len(accepted[m.dev]) + 1)
           /\ Len(accepted'[m.dev]) = Len(accepted[m.dev]) + 1
           /\ accepted'[m.dev] # << >>
           /\ accepted'[m.dev][Len(accepted[m.dev]) + 1] = [msg |-> m, at |-> now]
           /\ \A i \in 1 .. Len(accepted[m.dev]) : accepted'[m.dev][i] = accepted[m.dev][i]
           /\ \A e \in Device : e # m.dev => accepted'[e] = accepted[e]
<1> DEFINE a == [msg |-> m, at |-> now]
<1>1. m.dev \in Device /\ accepted' = [accepted EXCEPT ![m.dev] = Append(accepted[m.dev], a)]
  BY AcceptEffect
<1>2. a \in Acceptance /\ accepted[m.dev] \in Seq(Acceptance)
  BY <1>1 DEF TypeOK, Acceptance
<1>3. accepted'[m.dev] = Append(accepted[m.dev], a)
  BY <1>1 DEF TypeOK
<1> HIDE DEF a
<1>4. \A e \in Device : e # m.dev => accepted'[e] = accepted[e]
  BY <1>1 DEF TypeOK
<1>5. /\ DOMAIN accepted[m.dev] = 1 .. Len(accepted[m.dev])
      /\ Len(accepted[m.dev]) \in Nat
  BY <1>2
<1>6. /\ DOMAIN accepted'[m.dev] = 1 .. (Len(accepted[m.dev]) + 1)
      /\ Len(accepted'[m.dev]) = Len(accepted[m.dev]) + 1
      /\ accepted'[m.dev][Len(accepted[m.dev]) + 1] = a
      /\ \A i \in 1 .. Len(accepted[m.dev]) : accepted'[m.dev][i] = accepted[m.dev][i]
  BY <1>2, <1>3
<1>7. accepted'[m.dev] # << >>
  BY <1>2, <1>3
<1> QED
  BY <1>4, <1>5, <1>6, <1>7 DEF a

(* The types of an accepted entry. *)
LEMMA EntryType ==
    ASSUME TypeOK
    PROVE  \A d \in Device : \A i \in DOMAIN accepted[d] :
              /\ accepted[d][i] \in Acceptance
              /\ accepted[d][i].at \in Nat /\ accepted[d][i].msg \in Message
<1>1. ASSUME NEW d \in Device, NEW i \in DOMAIN accepted[d]
      PROVE  accepted[d][i] \in Acceptance
  BY DEF TypeOK
<1> QED
  BY <1>1 DEF Acceptance

(* The baseline stays the last accepted message. *)
LEMMA StreamStep ==
    ASSUME TypeOK, StreamInv, [Next]_vars
    PROVE  StreamInv'
<1>1. sent \subseteq sent' /\ now <= now'
  BY Progress
<1>2. ASSUME NEW m \in sent, Accept(m) PROVE StreamInv'
  <2> DEFINE a == [msg |-> m, at |-> now]
             n == Len(accepted[m.dev])
  <2>1. /\ DOMAIN accepted[m.dev] = 1 .. n /\ n \in Nat
        /\ DOMAIN accepted'[m.dev] = 1 .. (n + 1) /\ Len(accepted'[m.dev]) = n + 1
        /\ accepted'[m.dev] # << >> /\ accepted'[m.dev][n + 1] = a
        /\ \A i \in 1 .. n : accepted'[m.dev][i] = accepted[m.dev][i]
        /\ \A e \in Device : e # m.dev => accepted'[e] = accepted[e]
    BY <1>2, StreamGrows
  <2>2. /\ m.dev \in Device /\ now' = now /\ sent' = sent
        /\ lastSeen' = [lastSeen EXCEPT ![m.dev] = [boot |-> m.boot, seq |-> m.seq]]
    BY <1>2, AcceptEffect
  <2>3. /\ lastSeen'[m.dev].boot = m.boot /\ lastSeen'[m.dev].seq = m.seq
        /\ \A e \in Device : e # m.dev => lastSeen'[e] = lastSeen[e]
    BY <2>2 DEF TypeOK
  <2>4. Timely(a) /\ a.msg = m /\ a.at = now /\ now <= now
    BY <1>2 DEF Accept, Authentic, Fresh, Timely, TypeOK
  <2> HIDE DEF n, a
  <2>5. ASSUME NEW i \in DOMAIN accepted'[m.dev]
        PROVE  /\ accepted'[m.dev][i].msg \in sent' /\ accepted'[m.dev][i].msg.dev = m.dev
               /\ accepted'[m.dev][i].at <= now' /\ Timely(accepted'[m.dev][i])
    <3>1. CASE i = n + 1
      BY <2>1, <2>2, <2>4, <3>1
    <3>2. CASE i # n + 1
      <4>1. i \in 1 .. n
        BY <2>1, <2>5, <3>2
      <4> QED
        BY <2>1, <2>2, <4>1 DEF StreamInv
    <3> QED
      BY <3>1, <3>2
  <2>6. ASSUME NEW e \in Device
        PROVE  /\ accepted'[e] = << >> => lastSeen'[e] = FirstContact
               /\ accepted'[e] # << >> => /\ lastSeen'[e].boot = LastMsg(e)'.boot
                                         /\ lastSeen'[e].seq = LastMsg(e)'.seq
               /\ \A i \in DOMAIN accepted'[e] :
                    /\ accepted'[e][i].msg \in sent' /\ accepted'[e][i].msg.dev = e
                    /\ accepted'[e][i].at <= now' /\ Timely(accepted'[e][i])
    <3>1. CASE e = m.dev
      <4>1. LastMsg(m.dev)' = m
        BY <2>1, <2>4 DEF LastMsg
      <4> QED
        BY <2>1, <2>3, <2>5, <3>1, <4>1
    <3>2. CASE e # m.dev
      <4>1. accepted'[e] = accepted[e] /\ lastSeen'[e] = lastSeen[e]
        BY <2>1, <2>3, <3>2
      <4>2. LastMsg(e)' = LastMsg(e)
        BY <4>1 DEF LastMsg
      <4> QED
        BY <2>2, <4>1, <4>2 DEF StreamInv
    <3> QED
      BY <3>1, <3>2
  <2> QED
    BY <2>6 DEF StreamInv, Timely
<1>3. CASE Restart
  <2>1. \A d \in Device : accepted'[d] = << >> /\ lastSeen'[d] = FirstContact
    BY <1>3 DEF Restart
  <2> QED
    BY <2>1 DEF StreamInv, FirstContact
<1>4. CASE UNCHANGED <<lastSeen, accepted, past>>
  <2>1. ASSUME NEW d \in Device, NEW i \in DOMAIN accepted[d]
        PROVE  accepted[d][i].at <= now'
    <3>1. now \in Nat /\ now' \in Nat /\ accepted[d][i].at \in Nat
      BY TypeStep, EntryType DEF TypeOK
    <3>2. accepted[d][i].at <= now
      BY DEF StreamInv
    <3> QED
      BY <1>1, <3>1, <3>2
  <2>2. \A d \in Device : LastMsg(d)' = LastMsg(d)
    BY <1>4 DEF LastMsg
  <2> QED
    BY <1>1, <1>4, <2>1, <2>2 DEF StreamInv, Timely
<1> QED
  BY <1>2, <1>3, <1>4, StepKinds

(* Advancing the baseline is a transitive relation. *)
LEMMA AdvancesTransitive ==
    ASSUME NEW k \in Message, NEW m \in Message, NEW n \in Message,
           Advances(n, m), Advances(m, k)
    PROVE  Advances(n, k)
  BY DEF Advances, Message

(* An accepted message advances everything accepted before it. *)
LEMMA OrderStep ==
    ASSUME TypeOK, StreamInv, AcceptedInOrder, [Next]_vars
    PROVE  AcceptedInOrder'
<1>1. ASSUME NEW m \in sent, Accept(m) PROVE AcceptedInOrder'
  <2> DEFINE n == Len(accepted[m.dev])
  <2>1. /\ DOMAIN accepted[m.dev] = 1 .. n /\ n \in Nat
        /\ DOMAIN accepted'[m.dev] = 1 .. (n + 1)
        /\ accepted'[m.dev][n + 1].msg = m
        /\ \A i \in 1 .. n : accepted'[m.dev][i] = accepted[m.dev][i]
        /\ \A e \in Device : e # m.dev => accepted'[e] = accepted[e]
    <3> DEFINE a == [msg |-> m, at |-> now]
    <3>1. a.msg = m
      OBVIOUS
    <3> HIDE DEF a
    <3>2. accepted'[m.dev][n + 1] = a
      BY <1>1, StreamGrows DEF a
    <3> QED
      BY <1>1, <3>1, <3>2, StreamGrows
  <2>2. m.dev \in Device /\ Advances(m, lastSeen[m.dev]) /\ m \in Message
    BY <1>1, AcceptEffect DEF TypeOK
  <2>3. ASSUME NEW i \in 1 .. n PROVE Advances(m, accepted[m.dev][i].msg)
    <3>1. n \in 1 .. n /\ accepted[m.dev] # << >>
      BY <2>1
    <3>2. Advances(m, accepted[m.dev][n].msg)
      BY <2>2, <3>1 DEF StreamInv, LastMsg, Advances
    <3>3. i = n \/ Advances(accepted[m.dev][n].msg, accepted[m.dev][i].msg)
      BY <2>1, <2>2, <3>1 DEF AcceptedInOrder
    <3>4. accepted[m.dev][i].msg \in Message /\ accepted[m.dev][n].msg \in Message
      BY <2>1, <2>2, <3>1, EntryType
    <3> QED
      BY <2>2, <3>2, <3>3, <3>4, AdvancesTransitive
  <2> HIDE DEF n
  <2>4. ASSUME NEW i \in 1 .. (n + 1), NEW j \in 1 .. (n + 1), i < j
        PROVE  Advances(accepted'[m.dev][j].msg, accepted'[m.dev][i].msg)
    <3>1. i \in 1 .. n
      BY <2>1, <2>4
    <3>2. CASE j = n + 1
      BY <2>1, <2>3, <3>1, <3>2
    <3>3. CASE j # n + 1
      <4>1. j \in 1 .. n
        BY <2>1, <3>3
      <4> QED
        BY <2>1, <2>2, <2>4, <3>1, <4>1 DEF AcceptedInOrder
    <3> QED
      BY <3>2, <3>3
  <2>5. ASSUME NEW e \in Device, NEW i \in DOMAIN accepted'[e], NEW j \in DOMAIN accepted'[e],
               i < j
        PROVE  Advances(accepted'[e][j].msg, accepted'[e][i].msg)
    <3>1. CASE e = m.dev
      BY <2>1, <2>4, <2>5, <3>1
    <3>2. CASE e # m.dev
      BY <2>1, <2>5, <3>2 DEF AcceptedInOrder
    <3> QED
      BY <3>1, <3>2
  <2> QED
    BY <2>5 DEF AcceptedInOrder, Advances
<1>2. CASE Restart
  <2>1. \A d \in Device : DOMAIN accepted'[d] = {}
    BY <1>2 DEF Restart
  <2> QED
    BY <2>1 DEF AcceptedInOrder
<1>3. CASE UNCHANGED <<lastSeen, accepted, past>>
  BY <1>3 DEF AcceptedInOrder, Advances
<1> QED
  BY <1>1, <1>2, <1>3, StepKinds

-------------------------------------------------------------------------------
(* A step rotates a key, restarts the gateway, or at most forgets previous *)
(* secrets.                                                                *)
LEMMA KeyStepKinds ==
    ASSUME TypeOK, [Next]_vars
    PROVE  \/ \E d \in Device : RotateKey(d)
           \/ Restart
           \/ /\ UNCHANGED <<key, rotatedAt, minted, retired>>
              /\ \A d \in Device : prevKey'[d] \in {prevKey[d], NoKey}
<1> USE DEF deviceVars, keyVars, riskVars, lifeVars
<1>1. ASSUME NEW m \in sent \cup Unsigned, Deliver(m)
      PROVE  /\ UNCHANGED <<key, rotatedAt, minted, retired>>
             /\ \A d \in Device : prevKey'[d] \in {prevKey[d], NoKey}
  <2>1. UNCHANGED <<key, rotatedAt, minted, retired>>
    BY <1>1 DEF Deliver, RejectUnadmitted, RejectSignature, DropThrottled,
                RejectSigned, Reject, Accept
  <2>2. prevKey' = prevKey \/ ForgetExpiredKey(m.dev)
    BY <1>1 DEF Deliver, RejectUnadmitted, RejectSignature, DropThrottled,
                RejectSigned, Reject, Accept
  <2>3. \A d \in Device : prevKey'[d] \in {prevKey[d], NoKey}
    BY <2>2 DEF ForgetExpiredKey, TypeOK
  <2> QED
    BY <2>1, <2>3
<1> QED
  BY <1>1, DevicesAssumption
  DEF Next, Boot, TornBoot, Publish, Tick, Revoke, Reinstate, vars

(* Secrets are minted once, and only the last retired one is remembered. *)
LEMMA KeyStep ==
    ASSUME TypeOK, KeyInv, [Next]_vars
    PROVE  KeyInv'
<1>0. now \in Nat /\ now' \in Nat /\ now <= now'
  BY TypeStep, Progress DEF TypeOK
<1>t. ASSUME NEW r \in retired
      PROVE  r.dev \in Device /\ r.key \in Nat /\ r.key # NoKey /\ r.at \in Nat
  BY DEF TypeOK
<1>1. ASSUME NEW d \in Device, RotateKey(d) PROVE KeyInv'
  <2> DEFINE new == [dev |-> d, key |-> key[d], at |-> now]
  <2>1. retired' = retired \cup {new} /\ now' = now
    BY <1>1 DEF RotateKey
  <2>2. /\ minted'[d] = minted[d] + 1 /\ key'[d] = minted[d] + 1
        /\ prevKey'[d] = key[d] /\ rotatedAt'[d] = now
        /\ \A e \in Device : e # d =>
              /\ minted'[e] = minted[e] /\ key'[e] = key[e]
              /\ prevKey'[e] = prevKey[e] /\ rotatedAt'[e] = rotatedAt[e]
    BY <1>1 DEF RotateKey, TypeOK
  <2>3. key[d] \in Nat /\ minted[d] \in Nat /\ key[d] <= minted[d]
    BY DEF TypeOK, KeyInv
  <2>4. ASSUME NEW r \in retired', r.dev = d
        PROVE  /\ r.key < minted'[d] /\ r.key # key'[d] /\ r.at <= now'
               /\ r.key = prevKey'[d] => r.at = rotatedAt'[d]
    <3>1. CASE r \in retired
      <4>1. r.key < minted[d] /\ r.key # key[d] /\ r.at <= now
        BY <2>4, <3>1 DEF KeyInv
      <4> QED
        BY <1>t, <2>1, <2>2, <2>3, <3>1, <4>1
    <3>2. CASE r = new
      BY <1>0, <2>1, <2>2, <2>3, <3>2
    <3> QED
      BY <2>1, <3>1, <3>2
  <2>5. ASSUME NEW e \in Device, e # d
        PROVE  /\ key'[e] <= minted'[e]
               /\ \A r \in retired' : r.dev = e =>
                    /\ r.key < minted'[e] /\ r.key # key'[e] /\ r.at <= now'
                    /\ r.key = prevKey'[e] => r.at = rotatedAt'[e]
    BY <2>1, <2>2, <2>5 DEF KeyInv
  <2>6. key'[d] <= minted'[d]
    BY <2>2, <2>3
  <2> QED
    BY <2>4, <2>5, <2>6 DEF KeyInv
<1>2. CASE Restart
  <2>1. retired' = {} /\ minted' = minted /\ \A d \in Device : key'[d] = 1
    BY <1>2 DEF Restart
  <2>2. \A d \in Device : 1 <= minted[d]
    BY DEF TypeOK
  <2> QED
    BY <2>1, <2>2 DEF KeyInv
<1>3. CASE /\ UNCHANGED <<key, rotatedAt, minted, retired>>
           /\ \A d \in Device : prevKey'[d] \in {prevKey[d], NoKey}
  <2>1. ASSUME NEW d \in Device, NEW r \in retired, r.dev = d
        PROVE  /\ r.key < minted[d] /\ r.key # key[d] /\ r.at <= now'
               /\ r.key = prevKey'[d] => r.at = rotatedAt[d]
    <3>1. /\ r.key < minted[d] /\ r.key # key[d] /\ r.at <= now
          /\ r.key = prevKey[d] => r.at = rotatedAt[d]
      BY <2>1 DEF KeyInv
    <3>2. r.at <= now' /\ r.key # NoKey
      BY <1>0, <1>t, <3>1
    <3> QED
      BY <1>3, <3>1, <3>2
  <2> QED
    BY <1>3, <2>1 DEF KeyInv
<1> QED
  BY <1>1, <1>2, <1>3, KeyStepKinds

(* A retired secret opens nothing after its grace period. *)
LEMMA RetiredStep ==
    ASSUME TypeOK, SentInv, StreamInv, KeyInv, RetiredKeysExpire, [Next]_vars
    PROVE  RetiredKeysExpire'
<1>0. now \in Nat /\ Grace \in Nat
  BY ClockAssumption DEF TypeOK
<1>t. \A r \in retired : r.dev \in Device /\ r.key # NoKey /\ r.at \in Nat
  BY DEF TypeOK
<1>1. ASSUME NEW m \in sent, Accept(m) PROVE RetiredKeysExpire'
  <2> DEFINE n == Len(accepted[m.dev])
             a == [msg |-> m, at |-> now]
  <2>1. /\ DOMAIN accepted[m.dev] = 1 .. n /\ n \in Nat
        /\ DOMAIN accepted'[m.dev] = 1 .. (n + 1)
        /\ accepted'[m.dev][n + 1] = a
        /\ \A i \in 1 .. n : accepted'[m.dev][i] = accepted[m.dev][i]
        /\ \A e \in Device : e # m.dev => accepted'[e] = accepted[e]
    BY <1>1, StreamGrows
  <2>2. a.msg = m /\ a.at = now
    OBVIOUS
  <2>3. m.dev \in Device /\ retired' = retired
    BY <1>1, AcceptEffect
  <2> HIDE DEF n, a
  <2>4. ASSUME NEW r \in retired, r.dev = m.dev, m.key = r.key
        PROVE  now <= r.at + Grace
    <3>1. r.key # key[m.dev] /\ (r.key = prevKey[m.dev] => r.at = rotatedAt[m.dev])
      BY <2>3, <2>4 DEF KeyInv
    <3>2. VerifySignature(m)
      BY <1>1 DEF Accept, Authentic, InOrder, Signed
    <3>3. m.key = prevKey[m.dev] /\ ~GraceOver(m.dev)
      BY <2>4, <3>1, <3>2 DEF VerifySignature
    <3>4. r.at = rotatedAt[m.dev] /\ ~(now - rotatedAt[m.dev] > Grace)
      BY <2>4, <3>1, <3>3 DEF GraceOver
    <3> QED
      BY <1>0, <1>t, <3>4
  <2>5. ASSUME NEW r \in retired, NEW i \in DOMAIN accepted'[r.dev],
               accepted'[r.dev][i].msg.key = r.key
        PROVE  accepted'[r.dev][i].at <= r.at + Grace
    <3>1. CASE r.dev # m.dev
      BY <1>t, <2>1, <2>5, <3>1 DEF RetiredKeysExpire
    <3>2. CASE r.dev = m.dev /\ i = n + 1
      BY <2>1, <2>2, <2>4, <2>5, <3>2
    <3>3. CASE r.dev = m.dev /\ i # n + 1
      <4>1. i \in 1 .. n
        BY <2>1, <2>5, <3>3
      <4> QED
        BY <2>1, <2>5, <3>3, <4>1 DEF RetiredKeysExpire
    <3> QED
      BY <3>1, <3>2, <3>3
  <2> QED
    BY <2>3, <2>5 DEF RetiredKeysExpire
<1>2. CASE Restart
  BY <1>2 DEF Restart, RetiredKeysExpire
<1>3. ASSUME NEW d \in Device, RotateKey(d) PROVE RetiredKeysExpire'
  <2> DEFINE new == [dev |-> d, key |-> key[d], at |-> now]
  <2>1. retired' = retired \cup {new} /\ accepted' = accepted
    BY <1>3 DEF RotateKey
  <2>2. new.dev = d /\ new.at = now
    OBVIOUS
  <2> HIDE DEF new
  <2>3. ASSUME NEW i \in DOMAIN accepted[d]
        PROVE  accepted[d][i].at <= now + Grace
    <3>1. accepted[d][i].at <= now /\ accepted[d][i].at \in Nat
      BY EntryType DEF StreamInv
    <3> QED
      BY <1>0, <3>1
  <2> QED
    BY <2>1, <2>2, <2>3 DEF RetiredKeysExpire
<1>4. CASE accepted' = accepted /\ retired' = retired
  BY <1>4 DEF RetiredKeysExpire
<1> QED
  BY <1>1, <1>2, <1>3, <1>4, StepKinds, KeyStepKinds

(* Whatever was accepted in an earlier life was timely then. *)
LEMMA PastStep ==
    ASSUME TypeOK, StreamInv, \A p \in past : Timely(p), [Next]_vars
    PROVE  \A p \in past' : Timely(p)
<1>1. CASE Restart
  <2>1. past' = past \cup UNION {{accepted[d][i] : i \in DOMAIN accepted[d]} : d \in Device}
    BY <1>1 DEF Restart
  <2>2. ASSUME NEW p \in past', p \notin past
        PROVE  \E d \in Device : \E i \in DOMAIN accepted[d] : p = accepted[d][i]
    BY <2>1, <2>2
  <2> QED
    BY <2>2 DEF StreamInv
<1>2. ASSUME NEW m \in sent, Accept(m) PROVE past' = past
  BY <1>2, AcceptEffect
<1> QED
  BY <1>1, <1>2, StepKinds

-------------------------------------------------------------------------------
(* The inductive invariant holds in every reachable state. *)
THEOREM Inductive == Spec => [](TypeOK /\ IInv)
<1>1. Init => TypeOK /\ IInv
  <2>1. Init => TypeOK
    BY DEF Init, TypeOK, Baseline, FirstContact
  <2>2. Init => IInv
    BY DEF Init, IInv, SentInv, StreamInv, AcceptedInOrder, KeyInv, RetiredKeysExpire
  <2> QED
    BY <2>1, <2>2
<1>2. TypeOK /\ IInv /\ [Next]_vars => (TypeOK /\ IInv)'
  <2> SUFFICES ASSUME TypeOK, IInv, [Next]_vars PROVE (TypeOK /\ IInv)'
    OBVIOUS
  <2>1. TypeOK' /\ SentInv' /\ StreamInv' /\ AcceptedInOrder' /\ KeyInv'
        /\ RetiredKeysExpire'
    BY TypeStep, SentStep, StreamStep, OrderStep, KeyStep, RetiredStep DEF IInv
  <2>2. \A p \in past' : Timely(p)
    BY PastStep DEF IInv
  <2> QED
    BY <2>1, <2>2 DEF IInv, Timely
<1> QED
  BY <1>1, <1>2, PTL DEF Spec

(* Accepted messages strictly advance, in every life of the gateway. *)
THEOREM AcceptedOrdered == Spec => []AcceptedInOrder
<1>1. TypeOK /\ IInv => AcceptedInOrder
  BY DEF IInv
<1> QED
  BY <1>1, Inductive, PTL

(* A secret that was rotated out expires. *)
THEOREM RetiredExpire == Spec => []RetiredKeysExpire
<1>1. TypeOK /\ IInv => RetiredKeysExpire
  BY DEF IInv
<1> QED
  BY <1>1, Inductive, PTL

(* The last accepted message of a device was published by it. *)
LEMMA LastMsgSent ==
    ASSUME TypeOK, IInv, NEW d \in Device, accepted[d] # << >>
    PROVE  /\ LastMsg(d) \in sent /\ LastMsg(d).dev = d
           /\ LastMsg(d) \in Message
           /\ \E i \in DOMAIN accepted[d] : accepted[d][i].msg = LastMsg(d)
           /\ lastSeen[d].boot = LastMsg(d).boot /\ lastSeen[d].seq = LastMsg(d).seq
<1>1. accepted[d] \in Seq(Acceptance)
  BY DEF TypeOK
<1>2. Len(accepted[d]) \in DOMAIN accepted[d]
  BY <1>1
<1>3. accepted[d][Len(accepted[d])].msg \in sent /\ LastMsg(d).dev = d
  BY <1>2 DEF IInv, StreamInv, LastMsg
<1>4. lastSeen[d].boot = LastMsg(d).boot /\ lastSeen[d].seq = LastMsg(d).seq
  BY DEF IInv, StreamInv
<1>5. LastMsg(d) \in sent
  BY <1>3 DEF LastMsg
<1>6. LastMsg(d) \in Message
  BY <1>5 DEF TypeOK
<1> QED
  BY <1>2, <1>3, <1>4, <1>5, <1>6 DEF LastMsg

(* Only a lost boot counter makes the baseline refuse a device's next      *)
(* message, and only until it has counted past its highest boot_id.        *)
THEOREM LockoutEnds == Spec => []LockoutBounded
<1>1. TypeOK /\ IInv => LockoutBounded
  <2> SUFFICES ASSUME TypeOK, IInv, NEW d \in Device
               PROVE  IF boot[d] > highest[d]
                      THEN \/ lastSeen[d].boot < boot[d]
                           \/ lastSeen[d].boot = boot[d] /\ lastSeen[d].seq <= seq[d]
                      ELSE lastSeen[d].boot <= highest[d]
    BY DEF LockoutBounded
  <2>0. boot[d] \in Nat /\ highest[d] \in Nat
    BY DEF TypeOK
  <2>1. CASE accepted[d] = << >>
    <3>1. lastSeen[d].boot = -1
      BY <2>1 DEF IInv, StreamInv, FirstContact
    <3> QED
      BY <2>0, <3>1
  <2>2. CASE accepted[d] # << >>
    <3>1. /\ lastSeen[d].boot = LastMsg(d).boot /\ lastSeen[d].seq = LastMsg(d).seq
          /\ LastMsg(d).boot \in Nat
      BY <2>2, LastMsgSent DEF Message
    <3>2. \/ LastMsg(d).boot <= highest[d]
          \/ LastMsg(d).boot < boot[d]
          \/ LastMsg(d).boot = boot[d] /\ LastMsg(d).seq <= seq[d]
      BY <2>2, LastMsgSent DEF IInv, SentInv
    <3> QED
      BY <2>0, <3>1, <3>2
  <2> QED
    BY <2>1, <2>2
<1> QED
  BY <1>1, Inductive, PTL

(* A message is replayable across a restart for two freshness windows. *)
THEOREM ReplayBounded == Spec => []ReplayExposureBounded
<1>1. TypeOK /\ IInv => ReplayExposureBounded
  <2> SUFFICES ASSUME TypeOK, IInv, NEW p \in past, NEW d \in Device,
                      NEW i \in DOMAIN accepted[d], accepted[d][i].msg = p.msg
               PROVE  accepted[d][i].at - p.at <= 2 * Window
    BY DEF ReplayExposureBounded
  <2>1. accepted[d][i].at \in Nat /\ accepted[d][i].msg \in Message
    BY EntryType
  <2>2. p.at \in Nat /\ p.msg.ts \in Int
    <3>1. p.at \in Nat /\ p.msg \in Message
      BY DEF TypeOK, Acceptance
    <3> QED
      BY <3>1 DEF Message
  <2>3. Timely(accepted[d][i]) /\ Timely(p)
    BY DEF IInv, StreamInv
  <2>4. Window \in Nat
    BY ClockAssumption
  <2> QED
    BY <2>1, <2>2, <2>3, <2>4 DEF Timely
<1> QED
  BY <1>1, Inductive, PTL

(* Only an acceptance or a restart moves a device's baseline. *)
THEOREM RejectionsLeaveNoTrace == Spec => RejectionIsolation
<1> DEFINE Kept ==
        \A d \in Device : lastSeen'[d] # lastSeen[d] =>
          \/ lives' # lives
          \/ \E m \in sent :
                /\ m.dev = d
                /\ accepted'[d] = Append(accepted[d], [msg |-> m, at |-> now])
                /\ lastSeen'[d] = [boot |-> m.boot, seq |-> m.seq]
<1>1. TypeOK /\ [Next]_vars => [Kept]_vars
  <2> SUFFICES ASSUME TypeOK, [Next]_vars PROVE Kept
    OBVIOUS
  <2>1. ASSUME NEW m \in sent, Accept(m) PROVE Kept
    <3>1. /\ m.dev \in Device
          /\ lastSeen' = [lastSeen EXCEPT ![m.dev] = [boot |-> m.boot, seq |-> m.seq]]
          /\ accepted' = [accepted EXCEPT ![m.dev] =
                             Append(accepted[m.dev], [msg |-> m, at |-> now])]
      BY <2>1, AcceptEffect
    <3> QED
      BY <3>1 DEF TypeOK
  <2>2. CASE Restart
    BY <2>2 DEF Restart, TypeOK
  <2> QED
    BY <2>1, <2>2, StepKinds
<1> QED
  BY <1>1, TypeCorrect, PTL DEF RejectionIsolation, Spec

(* The newest message of a device in good standing passes every check,     *)
(* whatever others do and however often boot counters are lost.            *)
THEOREM NewestGetsThrough == Spec => []LatestIsAccepted
<1>1. TypeOK /\ IInv => LatestIsAccepted
  <2> SUFFICES ASSUME TypeOK, IInv, NEW m \in sent,
                      m.dev \notin revoked, VerifySignature(m), m.readable, Fresh(m),
                      m.boot = boot[m.dev], m.seq = seq[m.dev], m.boot > highest[m.dev],
                      \A i \in DOMAIN accepted[m.dev] : accepted[m.dev][i].msg # m
               PROVE  Authentic(m)
    BY DEF LatestIsAccepted
  <2>1. m.dev \in Device /\ m \in Message
    BY DEF IInv, SentInv, TypeOK
  <2>2. Advances(m, lastSeen[m.dev])
    <3>1. CASE accepted[m.dev] = << >>
      <4>1. lastSeen[m.dev].boot = -1 /\ m.boot \in Nat
        BY <2>1, <3>1 DEF IInv, StreamInv, FirstContact, Message
      <4> QED
        BY <4>1 DEF Advances
    <3>2. CASE accepted[m.dev] # << >>
      <4> DEFINE k == LastMsg(m.dev)
      <4>1. /\ k \in sent /\ k.dev = m.dev /\ k # m
            /\ k.boot \in Nat /\ k.seq \in Nat
            /\ lastSeen[m.dev].boot = k.boot /\ lastSeen[m.dev].seq = k.seq
        BY <2>1, <3>2, LastMsgSent DEF Message
      <4> HIDE DEF k
      <4>2. \/ k.boot <= highest[m.dev]
            \/ k.boot < m.boot
            \/ k.boot = m.boot /\ k.seq <= m.seq
        BY <4>1 DEF IInv, SentInv
      <4>3. ~(k.boot = m.boot /\ k.seq = m.seq)
        BY <4>1 DEF IInv, SentInv
      <4>5. highest[m.dev] \in Nat
        BY <2>1 DEF TypeOK
      <4>4. m.boot \in Nat /\ m.seq \in Nat
        BY <2>1 DEF Message
      <4> QED
        BY <4>1, <4>2, <4>3, <4>4, <4>5 DEF Advances
    <3> QED
      BY <3>1, <3>2
  <2> QED
    BY <2>1, <2>2 DEF Authentic, InOrder, Signed, Admitted, Registered
<1> QED
  BY <1>1, Inductive, PTL

-------------------------------------------------------------------------------
(* A stream of messages that nothing was accepted into is empty. *)
LEMMA EmptyStream ==
    ASSUME NEW s, s = << >>
    PROVE  [i \in DOMAIN s |-> s[i].msg] = << >>
  OBVIOUS

(* The messages of a stream of acceptances. *)
LEMMA MsgsOf ==
    ASSUME NEW s \in Seq(Acceptance)
    PROVE  /\ [i \in DOMAIN s |-> s[i].msg] \in Seq(Message)
           /\ Len([i \in DOMAIN s |-> s[i].msg]) = Len(s)
           /\ \A i \in 1 .. Len(s) : [j \in DOMAIN s |-> s[j].msg][i] = s[i].msg
<1>1. Len(s) \in Nat /\ DOMAIN s = 1 .. Len(s) /\ \A i \in 1 .. Len(s) : s[i] \in Acceptance
  OBVIOUS
<1>2. \A i \in 1 .. Len(s) : s[i].msg \in Message
  BY <1>1 DEF Acceptance
<1> QED
  BY <1>1, <1>2

(* An acceptance appends its message to the abstract stream. *)
LEMMA MsgsAppend ==
    ASSUME NEW s \in Seq(Acceptance), NEW a \in Acceptance
    PROVE  [i \in DOMAIN Append(s, a) |-> Append(s, a)[i].msg]
           = Append([i \in DOMAIN s |-> s[i].msg], a.msg)
<1> DEFINE t == Append(s, a)
           ms == [i \in DOMAIN s |-> s[i].msg]
           mt == [i \in DOMAIN t |-> t[i].msg]
<1>1. /\ t \in Seq(Acceptance) /\ Len(t) = Len(s) + 1 /\ Len(s) \in Nat
      /\ t[Len(s) + 1] = a /\ \A i \in 1 .. Len(s) : t[i] = s[i]
  OBVIOUS
<1>2. a.msg \in Message
  BY DEF Acceptance
<1> HIDE DEF t
<1>3. /\ ms \in Seq(Message) /\ Len(ms) = Len(s)
      /\ \A i \in 1 .. Len(s) : ms[i] = s[i].msg
  BY MsgsOf
<1>4. /\ mt \in Seq(Message) /\ Len(mt) = Len(t)
      /\ \A i \in 1 .. Len(t) : mt[i] = t[i].msg
  BY <1>1, MsgsOf
<1> HIDE DEF ms, mt
<1>5. /\ Append(ms, a.msg) \in Seq(Message)
      /\ Len(Append(ms, a.msg)) = Len(s) + 1
      /\ Append(ms, a.msg)[Len(s) + 1] = a.msg
      /\ \A i \in 1 .. Len(s) : Append(ms, a.msg)[i] = s[i].msg
  BY <1>1, <1>2, <1>3
<1>6. \A i \in 1 .. Len(mt) : mt[i] = Append(ms, a.msg)[i]
  <2> SUFFICES ASSUME NEW i \in 1 .. (Len(s) + 1) PROVE mt[i] = Append(ms, a.msg)[i]
    BY <1>1, <1>4
  <2>1. CASE i = Len(s) + 1
    BY <1>1, <1>4, <1>5, <2>1
  <2>2. CASE i # Len(s) + 1
    <3>1. i \in 1 .. Len(s)
      BY <1>1, <2>2
    <3> QED
      BY <1>1, <1>4, <1>5, <3>1
  <2> QED
    BY <2>1, <2>2
<1>7. mt = Append(ms, a.msg)
  BY <1>1, <1>4, <1>5, <1>6, SeqEqual
<1> QED
  BY <1>7 DEF mt, ms, t

(* The gate implements the stream it promises: every step of it publishes, *)
(* takes one message, forgets everything, or does nothing the stream sees. *)
THEOREM GateImplementsStream == Spec => ImplementsPromise
<1> DEFINE Msgs(s) == [i \in DOMAIN s |-> s[i].msg]
           stream == [d \in Device |-> [i \in DOMAIN accepted[d] |-> accepted[d][i].msg]]
<1>1. Init => Promise!Init
  <2>1. Init => sent = {} /\ \A d \in Device : accepted[d] = << >>
    BY DEF Init
  <2> QED
    BY <2>1, EmptyStream DEF Promise!Init
<1>2. TypeOK /\ IInv /\ [Next]_vars => [Promise!Next]_(Promise!vars)
  <2> SUFFICES ASSUME TypeOK, IInv, [Next]_vars PROVE [Promise!Next]_(Promise!vars)
    OBVIOUS
  <2>1. ASSUME NEW m \in sent, Accept(m) PROVE Promise!Take(m.dev, m) /\ m.dev \in Device
    <3> DEFINE a == [msg |-> m, at |-> now]
    <3>1. /\ m.dev \in Device /\ sent' = sent /\ Advances(m, lastSeen[m.dev])
          /\ accepted' = [accepted EXCEPT ![m.dev] = Append(accepted[m.dev], a)]
      BY <2>1, AcceptEffect
    <3>2. a \in Acceptance /\ a.msg = m /\ accepted[m.dev] \in Seq(Acceptance)
      BY <3>1 DEF TypeOK, Acceptance
    <3> HIDE DEF a
    <3>3. ASSUME stream[m.dev] # << >>
          PROVE  Promise!Newer(m, stream[m.dev][Len(stream[m.dev])])
      <4>1. stream[m.dev] = Msgs(accepted[m.dev])
        BY <3>1
      <4>2. accepted[m.dev] # << >>
        BY <3>3, <4>1, EmptyStream
      <4>3. Len(stream[m.dev]) = Len(accepted[m.dev]) /\ Len(accepted[m.dev]) \in 1 .. Len(accepted[m.dev])
        BY <3>2, <4>1, <4>2, MsgsOf
      <4>4. stream[m.dev][Len(stream[m.dev])] = LastMsg(m.dev)
        BY <3>2, <4>1, <4>3, MsgsOf DEF LastMsg
      <4>5. lastSeen[m.dev].boot = LastMsg(m.dev).boot /\ lastSeen[m.dev].seq = LastMsg(m.dev).seq
        BY <3>1, <4>2, LastMsgSent
      <4> QED
        BY <3>1, <4>4, <4>5 DEF Advances, Promise!Newer
    <3>4. stream' = [stream EXCEPT ![m.dev] = Append(stream[m.dev], m)]
      <4>1. accepted'[m.dev] = Append(accepted[m.dev], a)
        BY <3>1 DEF TypeOK
      <4>2. \A d \in Device : d # m.dev => accepted'[d] = accepted[d]
        BY <3>1 DEF TypeOK
      <4>3. Msgs(accepted'[m.dev]) = Append(Msgs(accepted[m.dev]), m)
        BY <3>2, <4>1, MsgsAppend
      <4> QED
        BY <4>2, <4>3
    <3> QED
      BY <3>1, <3>3, <3>4 DEF Promise!Take
  <2>2. CASE Restart
    <3>1. sent' = sent /\ accepted' = [d \in Device |-> << >>]
      BY <2>2 DEF Restart, deviceVars
    <3>2. stream' = [d \in Device |-> << >>]
      BY <3>1, EmptyStream
    <3>3. Promise!Forget(Device)
      BY <3>1, <3>2 DEF Promise!Forget
    <3>4. Device \in SUBSET Device
      OBVIOUS
    <3> QED
      BY <3>3, <3>4 DEF Promise!Next
  <2>3. CASE accepted' = accepted
    <3>1. stream' = stream /\ sent \subseteq sent'
      BY <2>3, Progress
    <3> QED
      BY <3>1 DEF Promise!Next, Promise!Publish
  <2> QED
    BY <2>1, <2>2, <2>3, StepKinds DEF Promise!Next
<1> QED
  BY <1>1, <1>2, Inductive, PTL DEF ImplementsPromise, Promise!Spec, Spec
===============================================================================
