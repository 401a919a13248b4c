------------------------- MODULE DecisionChannelProofs -------------------------
(***************************************************************************)
(* What TLAPS proves of DecisionChannel, for every set of devices and every*)
(* bound: its types, the stream a device acts on, and what the boot        *)
(* counter guarantees, torn starts of the gateway included.                *)
(***************************************************************************)
EXTENDS DecisionChannel, TLAPS

USE DEF Unreadable, NoBoot, NothingYet, Baseline

(* A published decision names its device and carries natural numbers. *)
LEMMA DecisionFields ==
    ASSUME TypeOK, NEW m \in sent
    PROVE  /\ m \in Decision /\ m.dev \in Device /\ m.boot \in Nat /\ m.seq \in Nat
           /\ m.key \in Nat /\ m.life \in Nat /\ m.since \in Nat
           /\ [boot |-> m.boot, seq |-> m.seq] \in Baseline
  BY DEF TypeOK, Decision

LEMMA TypeStep == ASSUME TypeOK, [Next]_vars PROVE TypeOK'
<1> USE DEF TypeOK
<1>1. CASE Start
  <2>1. NextBootId \in Nat \ {0}
    BY DEF NextBootId
  <2> QED
    BY <1>1, <2>1 DEF Start, deviceVars
<1>2. CASE PersistBootId
  BY <1>2 DEF PersistBootId, keyVars, deviceVars
<1>3. CASE DieStarting
  BY <1>3 DEF DieStarting, keyVars, deviceVars
<1>4. CASE Die
  BY <1>4 DEF Die, keyVars, deviceVars
<1>5. ASSUME NEW d \in Device, PublishDecision(d) PROVE TypeOK'
  <2>1. [dev |-> d, boot |-> bootId, seq |-> decisionSeq[d] + 1,
         key |-> secret[d], life |-> lives, since |-> lastTorn] \in Decision
    BY DEF Decision
  <2> QED
    BY <1>5, <2>1 DEF PublishDecision, keyVars, deviceVars
<1>6. ASSUME NEW d \in Device, RotateKey(d) PROVE TypeOK'
  BY <1>6 DEF RotateKey, gatewayVars, deviceVars
<1>7. ASSUME NEW d \in Device, Reboot(d) PROVE TypeOK'
  BY <1>7 DEF Reboot, gatewayVars, keyVars
<1>8. ASSUME NEW m \in sent, Act(m) PROVE TypeOK'
  <2>1. m \in Decision /\ m.dev \in Device /\ [boot |-> m.boot, seq |-> m.seq] \in Baseline
    BY DecisionFields
  <2>2. last' = [last EXCEPT ![m.dev] = [boot |-> m.boot, seq |-> m.seq]]
    BY <1>8 DEF Act, Remember
  <2>3. last' \in [Device -> Baseline]
    BY <2>1, <2>2
  <2>4. acted' \in [Device -> Seq(Decision)]
    BY <1>8, <2>1 DEF Act
  <2>5. UNCHANGED <<gatewayVars, keyVars, sent, devSecret, reboots>>
    BY <1>8 DEF Act
  <2> QED
    BY <2>3, <2>4, <2>5 DEF gatewayVars, keyVars
<1>9. CASE UNCHANGED vars
  BY <1>9 DEF vars, gatewayVars, keyVars, deviceVars
<1> QED
  BY <1>1, <1>2, <1>3, <1>4, <1>5, <1>6, <1>7, <1>8, <1>9 DEF Next

(* Every variable of the decision channel stays in its range; in           *)
(* particular the gateway never signs with boot id 0.                      *)
THEOREM TypeCorrect == Spec => []TypeOK
<1>1. Init => TypeOK
  BY DEF Init, TypeOK
<1> QED
  BY <1>1, TypeStep, PTL DEF Spec

-----------------------------------------------------------------------------
(* The stream a device acts on. *)

(* Appending makes the decision the last one. *)
LEMMA LastOfAppend ==
    ASSUME NEW s \in Seq(Decision), NEW m \in Decision
    PROVE  /\ Append(s, m) # << >> /\ Append(s, m)[Len(Append(s, m))] = m
           /\ \A i \in DOMAIN s : i \in DOMAIN Append(s, m) /\ Append(s, m)[i] = s[i]
           /\ Len(Append(s, m)) \in DOMAIN Append(s, m)
  OBVIOUS

(* Seen from a device, a step acts on a decision, reboots, or does nothing.*)
LEMMA ActedSteps ==
    ASSUME [Next]_vars
    PROVE  \/ /\ last' = last /\ acted' = acted /\ sent \subseteq sent'
           \/ /\ sent' = sent
              /\ \E d \in Device : /\ last' = [last EXCEPT ![d] = NothingYet]
                                   /\ acted' = [acted EXCEPT ![d] = << >>]
           \/ \E m \in sent : Act(m) /\ sent' = sent
  BY DEF Next, vars, Start, PersistBootId, DieStarting, Die, PublishDecision, RotateKey,
         Reboot, Act, gatewayVars, keyVars, deviceVars

LEMMA ActedStep == ASSUME TypeOK, ActedInv, [Next]_vars PROVE ActedInv'
<1>1. CASE last' = last /\ acted' = acted /\ sent \subseteq sent'
  BY <1>1 DEF ActedInv
<1>2. ASSUME sent' = sent, NEW d \in Device,
             last' = [last EXCEPT ![d] = NothingYet],
             acted' = [acted EXCEPT ![d] = << >>]
      PROVE  ActedInv'
  <2> SUFFICES ASSUME NEW e \in Device
               PROVE  /\ acted'[e] = << >> => last'[e] = NothingYet
                      /\ acted'[e] # << >> =>
                          /\ acted'[e][Len(acted'[e])] \in sent'
                          /\ acted'[e][Len(acted'[e])].dev = e
                          /\ last'[e] = [boot |-> acted'[e][Len(acted'[e])].boot,
                                         seq |-> acted'[e][Len(acted'[e])].seq]
    BY DEF ActedInv
  <2>1. CASE e = d
    BY <1>2, <2>1 DEF TypeOK
  <2>2. CASE e # d
    BY <1>2, <2>2 DEF TypeOK, ActedInv
  <2> QED
    BY <2>1, <2>2
<1>3. ASSUME NEW m \in sent, Act(m), sent' = sent PROVE ActedInv'
  <2>1. m.dev \in Device /\ m \in Decision
    BY DecisionFields
  <2>2. /\ acted' = [acted EXCEPT ![m.dev] = Append(acted[m.dev], m)]
        /\ last' = [last EXCEPT ![m.dev] = [boot |-> m.boot, seq |-> m.seq]]
    BY <1>3 DEF Act, Remember
  <2>3. acted[m.dev] \in Seq(Decision)
    BY <2>1 DEF TypeOK
  <2> SUFFICES ASSUME NEW e \in Device
               PROVE  /\ acted'[e] = << >> => last'[e] = NothingYet
                      /\ acted'[e] # << >> =>
                          /\ acted'[e][Len(acted'[e])] \in sent'
                          /\ acted'[e][Len(acted'[e])].dev = e
                          /\ last'[e] = [boot |-> acted'[e][Len(acted'[e])].boot,
                                         seq |-> acted'[e][Len(acted'[e])].seq]
    BY DEF ActedInv
  <2>4. CASE e = m.dev
    <3>1. /\ acted'[e] = Append(acted[m.dev], m)
          /\ last'[e] = [boot |-> m.boot, seq |-> m.seq]
      BY <2>1, <2>2, <2>4 DEF TypeOK
    <3>2. acted'[e] # << >> /\ acted'[e][Len(acted'[e])] = m
      BY <3>1, <2>1, <2>3, LastOfAppend
    <3> QED
      BY <3>1, <3>2, <1>3, <2>4
  <2>5. CASE e # m.dev
    BY <1>3, <2>2, <2>5 DEF TypeOK, ActedInv
  <2> QED
    BY <2>4, <2>5
<1> QED
  BY <1>1, <1>2, <1>3, ActedSteps

(* Whatever happens to the boot counter, the decisions a device acts on    *)
(* between two reboots implement the abstract stream.                      *)
THEOREM DevicesImplementStream == Spec => ImplementsPromise
<1>1. Init => TypeOK /\ ActedInv /\ Promise!Init
  BY DEF Init, TypeOK, ActedInv, Promise!Init
<1>2. TypeOK /\ ActedInv /\ [Next]_vars => [Promise!Next]_(Promise!vars)
  <2> SUFFICES ASSUME TypeOK, ActedInv, [Next]_vars PROVE Promise!Next
    OBVIOUS
  <2>1. CASE acted' = acted /\ sent \subseteq sent'
    BY <2>1 DEF Promise!Next, Promise!Publish
  <2>2. ASSUME sent' = sent, NEW d \in Device, acted' = [acted EXCEPT ![d] = << >>]
        PROVE  Promise!Next
    <3>1. acted' = [e \in Device |-> IF e \in {d} THEN << >> ELSE acted[e]]
      BY <2>2 DEF TypeOK
    <3>2. Promise!Forget({d})
      BY <2>2, <3>1 DEF Promise!Forget
    <3>3. {d} \in SUBSET Device
      OBVIOUS
    <3> QED
      BY <3>2, <3>3 DEF Promise!Next
  <2>3. ASSUME NEW m \in sent, Act(m), sent' = sent PROVE Promise!Next
    <3>1. m.dev \in Device /\ Advances(m, last[m.dev])
      BY <2>3, DecisionFields DEF Act
    <3>2. ASSUME acted[m.dev] # << >>
          PROVE  Promise!Newer(m, acted[m.dev][Len(acted[m.dev])])
      <4>1. last[m.dev] = [boot |-> acted[m.dev][Len(acted[m.dev])].boot,
                           seq |-> acted[m.dev][Len(acted[m.dev])].seq]
        BY <3>1, <3>2 DEF ActedInv
      <4>2. /\ last[m.dev].boot = acted[m.dev][Len(acted[m.dev])].boot
            /\ last[m.dev].seq = acted[m.dev][Len(acted[m.dev])].seq
        BY <4>1
      <4> QED
        BY <3>1, <4>2 DEF Advances, Promise!Newer
    <3>3. Promise!Take(m.dev, m)
      BY <2>3, <3>2 DEF Promise!Take, Act
    <3> QED
      BY <3>1, <3>3 DEF Promise!Next
  <2> QED
    BY <2>1, <2>2, <2>3, ActedSteps
<1> QED
  BY <1>1, <1>2, TypeStep, ActedStep, PTL DEF ImplementsPromise, Promise!Spec, Spec

-----------------------------------------------------------------------------
(* The boot counter. *)

LEMMA CounterStep == ASSUME TypeOK, CounterInv, [Next]_vars PROVE CounterInv'
<1>1. CASE Start
  BY <1>1 DEF Start, NextBootId, CounterInv, TypeOK
<1>2. CASE PersistBootId
  BY <1>2 DEF PersistBootId, CounterInv, TypeOK
<1>3. CASE DieStarting
  BY <1>3 DEF DieStarting, CounterInv, TypeOK
<1>4. CASE Die
  BY <1>4 DEF Die, CounterInv, TypeOK
<1>5. CASE UNCHANGED <<gateway, bootFile, bootId, lives, lastTorn>>
  BY <1>5 DEF CounterInv
<1> QED
  BY <1>1, <1>2, <1>3, <1>4, <1>5
  DEF Next, vars, PublishDecision, RotateKey, Reboot, Act, gatewayVars

(* Publishing: the new decision carries the newest number of all. *)
LEMMA SentPublish ==
    ASSUME TypeOK, CounterInv, SentInv, NEW d \in Device, PublishDecision(d)
    PROVE  SentInv'
<1> DEFINE n == [dev |-> d, boot |-> bootId, seq |-> decisionSeq[d] + 1,
                 key |-> secret[d], life |-> lives, since |-> lastTorn]
<1>1. /\ gateway = "up" /\ gateway' = gateway /\ lives' = lives /\ lastTorn' = lastTorn
      /\ decisionSeq' = [decisionSeq EXCEPT ![d] = @ + 1]
      /\ sent' = sent \cup {n}
  BY DEF PublishDecision
<1>2. /\ n.dev = d /\ n.boot = bootId /\ n.seq = decisionSeq[d] + 1 /\ n.life = lives
      /\ n.since = lastTorn
  OBVIOUS
<1> HIDE DEF n
<1>3. /\ lives \in Nat /\ lastTorn \in Nat /\ decisionSeq[d] \in Nat
      /\ decisionSeq'[d] = decisionSeq[d] + 1
  BY <1>1 DEF TypeOK
<1>4. lastTorn < lives /\ bootId = lives - lastTorn
  BY <1>1 DEF CounterInv
<1>5. \A m \in sent' :
         /\ m.boot = m.life - m.since /\ m.since < m.life /\ m.life <= lives' /\ m.seq > 0
         /\ m.life # lastTorn'
         /\ m.life > lastTorn' => m.since = lastTorn'
         /\ m.life = lives' => gateway' # "starting" /\ m.seq <= decisionSeq'[m.dev]
  <2> TAKE m \in sent'
  <2>1. CASE m = n
    BY <1>1, <1>2, <1>3, <1>4, <2>1
  <2>2. CASE m \in sent
    <3>1. m.dev \in Device /\ m.seq \in Nat
      BY <2>2, DecisionFields
    <3>2. /\ decisionSeq[m.dev] \in Nat /\ decisionSeq'[m.dev] \in Nat
          /\ decisionSeq[m.dev] <= decisionSeq'[m.dev]
      BY <1>1, <1>3, <3>1 DEF TypeOK
    <3>3. /\ m.boot = m.life - m.since /\ m.since < m.life /\ m.life <= lives /\ m.seq > 0
          /\ m.life # lastTorn
          /\ m.life > lastTorn => m.since = lastTorn
          /\ m.life = lives => m.seq <= decisionSeq[m.dev]
      BY <2>2 DEF SentInv
    <3>4. m.life = lives => m.seq <= decisionSeq'[m.dev]
      BY <3>1, <3>2, <3>3
    <3> QED
      BY <1>1, <3>3, <3>4
  <2> QED
    BY <1>1, <2>1, <2>2
<1>6. \A m \in sent : ~(m.dev = n.dev /\ m.life = n.life /\ m.seq = n.seq)
  <2> SUFFICES ASSUME NEW m \in sent, m.dev = d, m.life = lives PROVE m.seq # n.seq
    BY <1>2
  <2>1. m.seq \in Nat /\ m.seq <= decisionSeq[d]
    BY DecisionFields DEF SentInv
  <2> QED
    BY <2>1, <1>2, <1>3
<1>7. \A m, k \in sent' : m.dev = k.dev /\ m.life = k.life /\ m.seq = k.seq => m = k
  <2>1. \A m, k \in sent : m.dev = k.dev /\ m.life = k.life /\ m.seq = k.seq => m = k
    BY DEF SentInv
  <2> QED
    BY <1>1, <1>6, <2>1
<1>8. \A m, k \in sent' : m.life <= k.life /\ m.life > k.since => m.since = k.since
  <2>1. \A m, k \in sent : m.life <= k.life /\ m.life > k.since => m.since = k.since
    BY DEF SentInv
  <2>2. \A m \in sent : m.life > lastTorn => m.since = lastTorn
    BY DEF SentInv
  <2>3. \A m \in sent : n.life <= m.life => m.since = lastTorn
    <3> SUFFICES ASSUME NEW m \in sent, lives <= m.life PROVE m.since = lastTorn
      BY <1>2
    <3>1. m.life \in Nat
      BY DecisionFields
    <3>2. m.life > lastTorn
      BY <1>3, <1>4, <3>1
    <3> QED
      BY <2>2, <3>2
  <2> QED
    BY <1>1, <1>2, <2>1, <2>2, <2>3
<1>9. \A m, k \in sent' : m.life # k.since
  <2>1. \A m, k \in sent : m.life # k.since
    BY DEF SentInv
  <2>2. \A m \in sent : m.life # lastTorn
    BY DEF SentInv
  <2>3. \A m \in sent : lives # m.since
    <3> TAKE m \in sent
    <3>1. m.since < m.life /\ m.life <= lives
      BY DEF SentInv
    <3>2. m.since \in Nat /\ m.life \in Nat
      BY DecisionFields
    <3> QED
      BY <1>3, <3>1, <3>2
  <2>4. lives # lastTorn
    BY <1>3, <1>4
  <2> QED
    BY <1>1, <1>2, <2>1, <2>2, <2>3, <2>4
<1> QED
  BY <1>5, <1>7, <1>8, <1>9 DEF SentInv

LEMMA SentStep == ASSUME TypeOK, CounterInv, SentInv, [Next]_vars PROVE SentInv'
<1>1. ASSUME sent' = sent, lives <= lives', lastTorn' = lastTorn,
             \A m \in sent : m.life = lives' =>
                 gateway' # "starting" /\ m.seq <= decisionSeq'[m.dev]
      PROVE  SentInv'
  <2>1. \A m \in sent : m.life <= lives'
    <3> TAKE m \in sent
    <3>1. m.life <= lives /\ m.life \in Nat /\ lives \in Nat
      BY DecisionFields DEF SentInv, TypeOK
    <3>2. lives' \in Nat
      BY TypeStep DEF TypeOK
    <3> QED
      BY <1>1, <3>1, <3>2
  <2> QED
    BY <1>1, <2>1 DEF SentInv
<1>2. CASE Start
  <2>1. /\ sent' = sent /\ lives' = lives + 1 /\ lastTorn' = lastTorn
    BY <1>2 DEF Start
  <2>2. ASSUME NEW m \in sent PROVE m.life # lives'
    <3>1. m.life <= lives /\ m.life \in Nat /\ lives \in Nat
      BY DecisionFields DEF SentInv, TypeOK
    <3> QED
      BY <2>1, <3>1
  <2>3. lives <= lives'
    BY <2>1 DEF TypeOK
  <2> QED
    BY <1>1, <2>1, <2>2, <2>3
<1>3. CASE PersistBootId \/ Die
  <2>1. /\ sent' = sent /\ lives' = lives /\ lastTorn' = lastTorn
        /\ gateway' # "starting" /\ decisionSeq' = decisionSeq
    BY <1>3 DEF PersistBootId, Die
  <2>2. lives <= lives'
    BY <2>1 DEF TypeOK
  <2>3. \A m \in sent : m.life = lives => m.seq <= decisionSeq[m.dev]
    BY DEF SentInv
  <2> QED
    BY <1>1, <2>1, <2>2, <2>3
<1>4. CASE DieStarting
  <2>1. /\ gateway = "starting" /\ gateway' = "down" /\ sent' = sent
        /\ lives' = lives /\ lastTorn' = lives
    BY <1>4 DEF DieStarting
  <2>2. \A m \in sent : m.life \in Nat /\ lives \in Nat
    BY DecisionFields DEF TypeOK
  <2>3. \A m \in sent : m.life # lives /\ m.life <= lives
    BY <2>1 DEF SentInv
  <2>4. \A m \in sent : ~(m.life > lives)
    BY <2>2, <2>3
  <2> QED
    BY <2>1, <2>3, <2>4 DEF SentInv
<1>5. ASSUME NEW d \in Device, PublishDecision(d) PROVE SentInv'
  BY <1>5, SentPublish
<1>6. CASE UNCHANGED <<gateway, decisionSeq, lives, lastTorn, sent>>
  BY <1>6 DEF SentInv
<1> QED
  BY <1>2, <1>3, <1>4, <1>5, <1>6 DEF Next, vars, RotateKey, Reboot, Act, gatewayVars

(* The baselines, the boot counter and the numbers of decisions: the       *)
(* inductive invariant holds.                                              *)
THEOREM Inductive == Spec => [](TypeOK /\ IInv)
<1>1. Init => TypeOK /\ IInv
  BY DEF Init, TypeOK, IInv, ActedInv, CounterInv, SentInv
<1>2. TypeOK /\ IInv /\ [Next]_vars => (TypeOK /\ IInv)'
  BY TypeStep, ActedStep, CounterStep, SentStep DEF IInv
<1> QED
  BY <1>1, <1>2, PTL DEF Spec

(* A decision of an earlier gateway process is stale for a device that     *)
(* acted on a later one's, unless a torn start lies between the two and    *)
(* has not been outlived.                                                  *)
THEOREM Supersedes == Spec => []RestartSupersedes
<1>1. TypeOK /\ IInv => RestartSupersedes
  <2> SUFFICES ASSUME TypeOK, IInv, NEW d \in Device, NEW m \in sent, acted[d] # << >>,
                      m.dev = d, m.life < acted[d][Len(acted[d])].life,
                      \/ m.life > acted[d][Len(acted[d])].since
                      \/ Outlived(acted[d][Len(acted[d])].life, acted[d][Len(acted[d])].since)
               PROVE  ~Advances(m, last[d])
    BY DEF RestartSupersedes
  <2> DEFINE a == acted[d][Len(acted[d])]
  <2>1. a \in sent /\ last[d] = [boot |-> a.boot, seq |-> a.seq]
    BY DEF IInv, ActedInv
  <2>2. last[d].boot = a.boot
    BY <2>1
  <2>3. /\ a.boot = a.life - a.since /\ a.since < a.life
        /\ m.boot = m.life - m.since /\ m.since < m.life
        /\ m.life > a.since /\ m.life <= a.life => m.since = a.since
    BY <2>1 DEF IInv, SentInv
  <2>4. m.life < a.life /\ (m.life > a.since \/ Outlived(a.life, a.since))
    OBVIOUS
  <2> HIDE DEF a
  <2>5. a.life \in Nat /\ m.life \in Nat /\ a.since \in Nat /\ m.since \in Nat
    BY <2>1, DecisionFields
  <2>6. m.boot < a.boot
    <3>1. CASE m.life > a.since
      BY <2>3, <2>4, <2>5, <3>1
    <3>2. CASE ~(m.life > a.since) /\ Outlived(a.life, a.since)
      <4>1. a.life - a.since >= a.since /\ m.life <= a.since
        BY <2>5, <3>2 DEF Outlived
      <4>2. m.life # a.since
        BY <2>1 DEF IInv, SentInv
      <4> QED
        BY <2>3, <2>5, <4>1, <4>2
    <3> QED
      BY <2>4, <3>1, <3>2
  <2>7. m.boot \in Int /\ a.boot \in Int
    BY <2>3, <2>5
  <2> QED
    BY <2>2, <2>6, <2>7 DEF Advances
<1> QED
  BY <1>1, Inductive, PTL

(* The newest decision of the running gateway is acted on, or would be if  *)
(* it arrived now, unless the device acted on one from before a torn start *)
(* that has not been outlived.                                             *)
THEOREM NewestTaken == Spec => []NewestIsTaken
<1>1. TypeOK /\ IInv => NewestIsTaken
  <2> SUFFICES ASSUME TypeOK, IInv, NEW m \in sent, gateway = "up",
                      m.life = lives, m.seq = decisionSeq[m.dev],
                      \/ acted[m.dev] = << >>
                      \/ acted[m.dev][Len(acted[m.dev])].life > lastTorn
                      \/ Outlived(lives, lastTorn),
                      ~Advances(m, last[m.dev])
               PROVE  \E i \in DOMAIN acted[m.dev] : acted[m.dev][i] = m
    BY DEF NewestIsTaken
  <2> DEFINE d == m.dev
             a == acted[d][Len(acted[d])]
  <2>1. /\ d \in Device /\ m.boot \in Nat /\ m.seq \in Nat /\ lives \in Nat
        /\ lastTorn \in Nat
    BY DecisionFields DEF TypeOK
  <2>2. lastTorn < lives /\ m.boot = lives - lastTorn
    <3>1. lastTorn < lives
      BY DEF IInv, CounterInv
    <3>2. m.since = lastTorn /\ m.boot = m.life - m.since
      BY <3>1 DEF IInv, SentInv
    <3> QED
      BY <3>1, <3>2
  <2>3. acted[d] # << >>
    <3>1. SUFFICES ASSUME acted[d] = << >> PROVE FALSE
      OBVIOUS
    <3>2. last[d] = NothingYet
      BY <2>1, <3>1 DEF IInv, ActedInv
    <3>3. last[d].boot = -1
      BY <3>2
    <3> QED
      BY <2>1, <3>3 DEF Advances
  <2>4. a \in sent /\ a.dev = d /\ last[d] = [boot |-> a.boot, seq |-> a.seq]
    BY <2>1, <2>3 DEF IInv, ActedInv
  <2>5. last[d].boot = a.boot /\ last[d].seq = a.seq
    BY <2>4
  <2>6. a.life > lastTorn \/ Outlived(lives, lastTorn)
    BY <2>3
  <2>7. /\ a.boot = a.life - a.since /\ a.since < a.life /\ a.life <= lives
        /\ a.life # lastTorn
        /\ a.life > lastTorn => a.since = lastTorn
        /\ a.life = lives => a.seq <= decisionSeq[a.dev]
    BY <2>4 DEF IInv, SentInv
  <2> HIDE DEF a
  <2>8. a.life \in Nat /\ a.seq \in Nat /\ a.since \in Nat
    BY <2>4, DecisionFields
  <2>9. m.boot <= a.boot /\ (m.boot = a.boot => m.seq <= a.seq)
    BY <2>1, <2>5, <2>7, <2>8 DEF Advances
  <2>10. a.life > lastTorn
    <3> SUFFICES ASSUME ~(a.life > lastTorn) PROVE FALSE
      OBVIOUS
    <3>1. lives - lastTorn >= lastTorn
      BY <2>6 DEF Outlived
    <3>2. a.life < lastTorn
      BY <2>1, <2>7, <2>8
    <3> QED
      BY <2>1, <2>2, <2>7, <2>8, <2>9, <3>1, <3>2
  <2>11. a.life = lives
    BY <2>1, <2>2, <2>7, <2>8, <2>9, <2>10
  <2>12. a.seq = m.seq
    BY <2>1, <2>2, <2>4, <2>7, <2>8, <2>9, <2>10, <2>11
  <2>13. a = m
    BY <2>4, <2>11, <2>12 DEF IInv, SentInv
  <2>14. acted[d] \in Seq(Decision)
    BY <2>1 DEF TypeOK
  <2>15. Len(acted[d]) \in DOMAIN acted[d]
    BY <2>3, <2>14
  <2> QED
    BY <2>13, <2>15 DEF a
<1> QED
  BY <1>1, Inductive, PTL
===============================================================================
