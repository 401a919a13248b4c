-------------------------- MODULE DeviceLoopProofs --------------------------
(***************************************************************************)
(* The theorems about DeviceLoop, for every timeout, drain, set of nonces  *)
(* and number of faults and slips within the slack.  IInv follows a        *)
(* session's number from the board's file through the messages under way   *)
(* to the gateway; TimelyInv follows a challenge's nonce from the inbox    *)
(* through the board to the uplink, and counts the ticks it spends there.  *)
(***************************************************************************)
EXTENDS DeviceLoop, SequenceTheorems, FiniteSetTheorems, TLAPS

USE TimesAssumption, BoundsAssumption, NoncesAssumption

(***************************************************************************)
(* The score and the table.                                                *)
(***************************************************************************)
LEMMA ScoreRange ==
    ASSUME NEW s \in Scores, NEW e \in Nat, NEW verdict \in Verdicts, NEW flood \in BOOLEAN,
           NEW n \in 0 .. 3
    PROVE  Trust(s, e, verdict, flood, n) \in Scores
<1>1. Decayed(s, e) \in Scores
  BY DEF Decayed, Least, Most, Scores
<1>2. \A t \in Scores : Observation(t, verdict, flood, n) \in Scores
  BY DEF Observation, Least, Most, Scores, Verdicts, Fails
<1>3. \A d \in Scores : (IF verdict = "SUCCESS" THEN Least(1000, d + 100) ELSE d) \in Scores
  BY DEF Least, Scores
<1>4. \A o, t \in Scores : (35 * o + 65 * t + 50) \div 100 \in Scores
  BY DEF Scores
<1> DEFINE t == IF verdict = "SUCCESS" THEN Least(1000, Decayed(s, e) + 100) ELSE Decayed(s, e)
           o == Observation(t, verdict, flood, n)
<1>5. Trust(s, e, verdict, flood, n) = (35 * o + 65 * t + 50) \div 100
  BY DEF Trust
<1>6. t \in Scores
  BY <1>1, <1>3
<1> HIDE DEF t
<1>7. o \in Scores
  BY <1>2, <1>6
<1> HIDE DEF o
<1> QED BY <1>4, <1>5, <1>6, <1>7

LEMMA SeededRange ==
    ASSUME \A k \in DOMAIN q : q[k] \in Actions, NEW s, NEW p
    PROVE  /\ \A k \in DOMAIN Seeded(q, s, p) : Seeded(q, s, p)[k] \in Actions
           /\ Greedy(q, s, p) \in Actions
<1>1. Decide(s, p) \in Actions
  BY DEF Decide, Actions
<1>2. \A k \in DOMAIN Seeded(q, s, p) : Seeded(q, s, p)[k] \in Actions
  BY <1>1 DEF Seeded
<1>3. \A k \in DOMAIN Trained : Trained[k] \in Actions
  BY DEF Trained, Actions
<1>4. Key(s, p) \notin DOMAIN Trained => Key(s, p) \in DOMAIN Seeded(q, s, p)
  BY DEF Seeded
<1> QED BY <1>2, <1>3, <1>4 DEF Greedy

(***************************************************************************)
(* The inbox: the nonce of the last challenge, and what is left.           *)
(***************************************************************************)
LEMMA ReceivedTyped ==
    ASSUME TypeOK, QueuesOK, NEW n \in 0 .. Len(inbox)
    PROVE  /\ Received(n) \in Nonces \cup {None}
           /\ Taken(n) \in Seq(Nonces \cup {"decision"})
<1> DEFINE last == {i \in 1 .. n : inbox[i] \in Nonces
                         /\ \A j \in i + 1 .. n : inbox[j] \notin Nonces}
<1>1. inbox \in Seq(Nonces \cup {"decision"}) /\ Len(inbox) \in Nat /\ n \in Nat
  BY DEF QueuesOK
<1>2. \A i \in last : inbox[i] \in Nonces
  OBVIOUS
<1>3. Received(n) = IF last = {} THEN nonce ELSE inbox[CHOOSE i \in last : TRUE]
  BY DEF Received
<1> HIDE DEF last
<1>4. Received(n) \in Nonces \cup {None}
  BY <1>2, <1>3 DEF TypeOK
<1>5. Taken(n) \in Seq(Nonces \cup {"decision"})
  BY <1>1 DEF Taken
<1> QED BY <1>4, <1>5

(***************************************************************************)
(* Counters and budgets.                                                   *)
(***************************************************************************)
LEMMA QuietIsNatural == Quiet \in Nat \ {0}
<1>1. 300 \div TickTenths \in Nat
  OBVIOUS
<1> QED BY <1>1 DEF Quiet

LEMMA CappedRange ==
    ASSUME NEW cap \in Nat, NEW n \in 0 .. cap
    PROVE  Capped(n, cap) \in 0 .. cap
BY DEF Capped

LEMMA BudgetOnlyGrows ==
    ASSUME TypeOK, BootsBounded, faults' \in Nat, faults' >= faults,
           UNCHANGED <<boot, file>>, board' = "off" => board = "off"
    PROVE  BootsBounded'
<1>1. \A b, f, g \in Nat : g >= f => (b <= 2 + f => b <= 2 + g) /\ (b < 2 + f => b < 2 + g)
  OBVIOUS
<1>2. boot \in Nat /\ file \in Nat /\ faults \in Nat
  BY DEF TypeOK
<1> QED BY <1>1, <1>2, Zenon DEF BootsBounded

LEMMA FaultRange ==
    ASSUME TypeOK, Fault
    PROVE  /\ faults' = faults + 1 /\ faults' \in 0 .. MaxFaults
           /\ slips' \in 0 .. MaxSlips /\ excused' \in BOOLEAN
<1>1. excused' \in BOOLEAN
  BY Zenon DEF Fault
<1>2. faults' = faults + 1 /\ faults' \in 0 .. MaxFaults /\ slips' \in 0 .. MaxSlips
  BY DEF Fault, TypeOK
<1> QED BY <1>1, <1>2

LEMMA SlipRange ==
    ASSUME TypeOK, Slip
    PROVE  /\ faults' = faults
           /\ slips' \in 0 .. MaxSlips /\ excused' = excused
BY DEF Slip, TypeOK

(***************************************************************************)
(* Initially, and for each action.                                         *)
(***************************************************************************)
LEMMA InitIInv == Init => IInv
<1> SUFFICES ASSUME Init PROVE IInv
  OBVIOUS
<1>1. TypeOK
  <2>1. heardNow \in BOOLEAN /\ torn \in BOOLEAN /\ excused \in BOOLEAN /\ linked \in BOOLEAN
    BY Zenon DEF Init
  <2>2. quiet \in 0 .. Quiet
    BY QuietIsNatural DEF Init
  <2> QED BY <2>1, <2>2 DEF Init, TypeOK, InitialTrust, Scores
<1>2. QueuesOK
  BY DEF Init, QueuesOK, NothingSeeded
<1>3. BootsBounded /\ BootsInOrder /\ HeardUnlessTorn
  BY DEF Init, BootsBounded, BootsInOrder, HeardUnlessTorn, None
<1> QED BY <1>1, <1>2, <1>3 DEF IInv

LEMMA PublishIInv == ASSUME IInv, Publish PROVE IInv'
<1> DEFINE m == Telemetry(boot, nonce)
<1>1. m \in Messages /\ m.boot = boot
  BY DEF IInv, TypeOK, Telemetry, Messages
<1>2. uplink \in Seq(Messages)
  BY DEF IInv, QueuesOK
<1> HIDE DEF m
<1>3. /\ uplink' = Append(uplink, m) /\ uplink' \in Seq(Messages)
      /\ Len(uplink') = Len(uplink) + 1
      /\ \A i \in DOMAIN uplink' : uplink'[i] = IF i <= Len(uplink) THEN uplink[i] ELSE m
  BY <1>1, <1>2 DEF Publish, m
<1>4. \A i \in DOMAIN uplink' :
         \/ i \in DOMAIN uplink /\ uplink'[i] = uplink[i]
         \/ i = Len(uplink) + 1 /\ uplink'[i] = m
  BY <1>2, <1>3
<1>5. TypeOK'
  BY DEF IInv, TypeOK, Publish, gateway, budget
<1>6. QueuesOK'
  BY <1>3 DEF IInv, QueuesOK, Publish, gateway
<1>7. BootsBounded' /\ HeardUnlessTorn'
  BY DEF IInv, BootsBounded, HeardUnlessTorn, Publish, gateway, budget
<1>8. BootsInOrder'
  <2> SUFFICES ASSUME ~torn' PROVE
        /\ board' # "boots" => file' = boot'
        /\ newest' <= boot'
        /\ \A i \in DOMAIN uplink' : newest' <= uplink'[i].boot /\ uplink'[i].boot <= boot'
        /\ \A i, j \in DOMAIN uplink' : i <= j => uplink'[i].boot <= uplink'[j].boot
    BY DEF BootsInOrder
  <2>1. /\ file = boot /\ newest <= boot
        /\ \A i \in DOMAIN uplink : newest <= uplink[i].boot /\ uplink[i].boot <= boot
        /\ \A i, j \in DOMAIN uplink : i <= j => uplink[i].boot <= uplink[j].boot
    BY DEF IInv, BootsInOrder, Publish, budget
  <2>2. boot \in Int /\ newest' = newest /\ boot' = boot /\ file' = file
    BY DEF IInv, TypeOK, Publish, gateway
  <2>3. \A i \in DOMAIN uplink' : newest' <= uplink'[i].boot /\ uplink'[i].boot <= boot'
    BY <1>1, <1>4, <2>1, <2>2
  <2>4. \A i, j \in DOMAIN uplink' : i <= j => uplink'[i].boot <= uplink'[j].boot
    BY <1>1, <1>2, <1>3, <1>4, <2>1, <2>2
  <2> QED BY <2>1, <2>2, <2>3, <2>4
<1> QED BY <1>5, <1>6, <1>7, <1>8 DEF IInv

LEMMA ReconnectsIInv ==
    ASSUME IInv, NEW fails \in BOOLEAN, Reconnects(fails), board \in {"publish", "drain"},
           nonce' \in Nonces \cup {None},
           UNCHANGED <<boot, file, uplink, gateway, torn>>
    PROVE  IInv'
<1>1. /\ faults' \in 0 .. MaxFaults /\ faults' >= faults
      /\ slips' \in 0 .. MaxSlips /\ excused' \in BOOLEAN
  <2>1. CASE Fault
    BY <2>1, FaultRange DEF IInv, TypeOK
  <2>2. CASE NoFault
    <3>1. excused' \in BOOLEAN
      BY <2>2, Zenon DEF IInv, TypeOK, NoFault
    <3> QED BY <2>2, <3>1 DEF IInv, TypeOK, NoFault
  <2> QED BY <2>1, <2>2, Zenon DEF Reconnects
<1>2. inbox' = << >> /\ board' = "sleep" /\ linked' \in BOOLEAN
  BY Zenon DEF Reconnects
<1>3. TypeOK'
  BY <1>1, <1>2 DEF IInv, TypeOK, gateway
<1>4. QueuesOK'
  BY <1>2 DEF IInv, QueuesOK, gateway
<1>5. BootsBounded'
  <2>1. faults' \in Nat /\ faults' >= faults /\ (board' = "off" => board = "off")
    BY <1>1, <1>2
  <2> QED BY <2>1, BudgetOnlyGrows DEF IInv
<1>6. BootsInOrder' /\ HeardUnlessTorn'
  BY <1>2 DEF IInv, BootsInOrder, HeardUnlessTorn, gateway
<1> QED BY <1>3, <1>4, <1>5, <1>6 DEF IInv

LEMMA PublishFailsIInv == ASSUME IInv, PublishFails PROVE IInv'
<1>1. linked \in BOOLEAN
  BY DEF IInv, TypeOK
<1>2. Reconnects(linked) /\ board = "publish" /\ nonce' = None
      /\ UNCHANGED <<boot, file, uplink, gateway, torn>>
  BY DEF PublishFails
<1> QED BY <1>1, <1>2, ReconnectsIInv

LEMMA DrainFailsIInv == ASSUME IInv, DrainFails PROVE IInv'
<1>1. Reconnects(TRUE) /\ board = "drain"
      /\ UNCHANGED <<boot, file, uplink, gateway, torn>>
  BY DEF DrainFails
<1>2. PICK n \in 0 .. Len(inbox) : nonce' = Received(n)
  BY DEF DrainFails
<1>3. nonce' \in Nonces \cup {None}
  BY <1>2, ReceivedTyped DEF IInv
<1> QED BY <1>1, <1>3, ReconnectsIInv

LEMMA DrainIInv == ASSUME IInv, Drain PROVE IInv'
<1>1. PICK n \in 0 .. Len(inbox) : nonce' = Received(n) /\ inbox' = Taken(n)
  <2>1. Len(inbox) \in Nat
    BY DEF IInv, QueuesOK
  <2> QED BY <2>1, TimesAssumption DEF Drain
<1>2. nonce' \in Nonces \cup {None} /\ inbox' \in Seq(Nonces \cup {"decision"})
  BY <1>1, ReceivedTyped DEF IInv
<1>3. board' = "sleep" /\ UNCHANGED <<linked, boot, file, uplink, gateway, budget>>
  BY DEF Drain
<1>4. board # "boots"
  BY DEF Drain
<1>5. TypeOK' /\ QueuesOK'
  BY <1>2, <1>3 DEF IInv, TypeOK, QueuesOK, gateway, budget
<1>6. BootsBounded' /\ BootsInOrder' /\ HeardUnlessTorn'
  BY <1>3, <1>4 DEF IInv, BootsBounded, BootsInOrder, HeardUnlessTorn, gateway, budget
<1> QED BY <1>5, <1>6 DEF IInv

LEMMA SensorFailsIInv == ASSUME IInv, SensorFails PROVE IInv'
<1>1. /\ board = "publish" /\ board' = "sleep"
      /\ UNCHANGED <<linked, nonce, boot, file, uplink, inbox, gateway, torn>>
  BY DEF SensorFails
<1>2. faults' = faults /\ slips' \in 0 .. MaxSlips /\ excused' = excused
  BY SlipRange DEF IInv, SensorFails
<1>3. TypeOK' /\ QueuesOK'
  BY <1>1, <1>2 DEF IInv, TypeOK, QueuesOK, gateway
<1>4. BootsBounded' /\ BootsInOrder' /\ HeardUnlessTorn'
  BY <1>1, <1>2 DEF IInv, BootsBounded, BootsInOrder, HeardUnlessTorn, gateway
<1> QED BY <1>3, <1>4 DEF IInv

LEMMA PowerLossIInv == ASSUME IInv, PowerLoss PROVE IInv'
<1>1. /\ board' = "off" /\ nonce' = None /\ inbox' = << >>
      /\ UNCHANGED <<linked, boot, file, uplink, gateway>>
      /\ torn' = (torn \/ board = "boots")
  BY DEF PowerLoss
<1>2. /\ faults' = faults + 1 /\ faults' \in 0 .. MaxFaults
      /\ slips' \in 0 .. MaxSlips /\ excused' \in BOOLEAN
  BY FaultRange DEF IInv, PowerLoss
<1>3. torn' \in BOOLEAN
  BY <1>1, Zenon
<1>4. TypeOK'
  BY <1>1, <1>2, <1>3 DEF IInv, TypeOK, gateway
<1>5. QueuesOK'
  BY <1>1 DEF IInv, QueuesOK, gateway
<1>6. BootsBounded'
  <2>1. boot \in Nat /\ file \in Nat /\ faults \in Nat /\ boot <= 2 + faults /\ file <= 2 + faults
    BY DEF IInv, TypeOK, BootsBounded
  <2> QED BY <1>1, <1>2, <2>1 DEF BootsBounded
<1>7. ~torn' => ~torn /\ board # "boots"
  BY <1>1, Zenon
<1>8. BootsInOrder'
  BY <1>1, <1>7 DEF IInv, BootsInOrder, gateway
<1>9. HeardUnlessTorn'
  BY <1>1, <1>7, Zenon DEF IInv, HeardUnlessTorn, gateway
<1> QED BY <1>4, <1>5, <1>6, <1>8, <1>9 DEF IInv

LEMMA StartIInv == ASSUME IInv, Start PROVE IInv'
<1>1. /\ board = "off" /\ board' = "boots" /\ linked' = TRUE /\ boot' = file + 1 /\ file' = 0
      /\ UNCHANGED <<nonce, uplink, inbox, gateway, budget>>
  BY DEF Start
<1>2. /\ file \in Nat /\ boot \in Nat /\ faults \in 0 .. MaxFaults /\ file < 2 + faults
  BY <1>1 DEF IInv, TypeOK, BootsBounded
<1>3. boot' \in 1 .. 2 + MaxFaults /\ boot' <= 2 + faults /\ file' \in 0 .. 2 + MaxFaults
  BY <1>1, <1>2
<1>4. TypeOK' /\ QueuesOK'
  BY <1>1, <1>3 DEF IInv, TypeOK, QueuesOK, gateway, budget
<1>5. BootsBounded'
  BY <1>1, <1>2, <1>3 DEF BootsBounded, budget
<1>6. BootsInOrder'
  <2> SUFFICES ASSUME ~torn PROVE BootsInOrder'
    BY <1>1 DEF BootsInOrder, budget
  <2>1. /\ file = boot /\ newest <= boot
        /\ \A i \in DOMAIN uplink : newest <= uplink[i].boot /\ uplink[i].boot <= boot
        /\ \A i, j \in DOMAIN uplink : i <= j => uplink[i].boot <= uplink[j].boot
    <3>1. board # "boots"
      BY <1>1
    <3> QED BY <3>1, Zenon DEF IInv, BootsInOrder
  <2>2. boot' = boot + 1 /\ newest \in Nat /\ uplink \in Seq(Messages)
    BY <1>1, <2>1 DEF IInv, TypeOK, QueuesOK
  <2>3. \A i \in DOMAIN uplink : uplink[i].boot \in Nat
    <3>1. \A i \in DOMAIN uplink : uplink[i] \in Messages
      BY <2>2
    <3>2. \A msg \in Messages : msg.boot \in Nat
      BY DEF Messages
    <3> QED BY <3>1, <3>2, Zenon
  <2> QED BY <1>1, <1>2, <2>1, <2>2, <2>3 DEF BootsInOrder, gateway
<1>7. HeardUnlessTorn'
  BY <1>1 DEF IInv, HeardUnlessTorn, gateway, budget
<1> QED BY <1>4, <1>5, <1>6, <1>7 DEF IInv

LEMMA WriteBootIInv == ASSUME IInv, WriteBoot PROVE IInv'
<1>1. /\ board = "boots" /\ board' = "publish" /\ file' = boot
      /\ UNCHANGED <<linked, nonce, boot, uplink, inbox, gateway, budget>>
  BY DEF WriteBoot
<1>2. TypeOK' /\ QueuesOK'
  BY <1>1 DEF IInv, TypeOK, QueuesOK, gateway, budget
<1>3. BootsBounded' /\ BootsInOrder' /\ HeardUnlessTorn'
  BY <1>1 DEF IInv, BootsBounded, BootsInOrder, HeardUnlessTorn, gateway, budget
<1> QED BY <1>2, <1>3 DEF IInv

LEMMA LoseDownIInv == ASSUME IInv, LoseDown PROVE IInv'
<1>1. /\ inbox # << >> /\ inbox' = Tail(inbox) /\ UNCHANGED <<device, uplink, gateway, torn>>
  BY DEF LoseDown
<1>2. /\ faults' = faults + 1 /\ faults' \in 0 .. MaxFaults
      /\ slips' \in 0 .. MaxSlips /\ excused' \in BOOLEAN
  BY FaultRange DEF IInv, LoseDown
<1>3. inbox' \in Seq(Nonces \cup {"decision"})
  BY <1>1 DEF IInv, QueuesOK
<1>4. TypeOK' /\ QueuesOK'
  BY <1>1, <1>2, <1>3 DEF IInv, TypeOK, QueuesOK, device, gateway
<1>5. BootsBounded'
  <2>1. faults' \in Nat /\ faults' >= faults /\ (board' = "off" => board = "off")
        /\ UNCHANGED <<boot, file>>
    BY <1>1, <1>2 DEF IInv, TypeOK, device
  <2> QED BY <2>1, BudgetOnlyGrows DEF IInv
<1>6. BootsInOrder' /\ HeardUnlessTorn'
  BY <1>1 DEF IInv, BootsInOrder, HeardUnlessTorn, device, gateway
<1> QED BY <1>4, <1>5, <1>6 DEF IInv

LEMMA TickIInv == ASSUME IInv, Tick PROVE IInv'
<1>1. /\ board' = (IF board = "sleep" THEN "publish" ELSE board) /\ board \in {"sleep", "off"}
      /\ heardNow' = FALSE
      /\ UNCHANGED <<linked, nonce, boot, file, uplink, inbox, newest, pending, score,
                     failures, q, outcome, decision, torn>>
  BY DEF Tick
<1>2. faults' = faults /\ slips' \in 0 .. MaxSlips /\ excused' = excused
  BY SlipRange DEF IInv, TypeOK, Tick, NoFault
<1>3. age' \in 0 .. Timeout + 1 /\ quiet' \in 0 .. Quiet
  <2>1. age \in 0 .. Timeout + 1 /\ quiet \in 0 .. Quiet
    BY DEF IInv, TypeOK
  <2>2. Timeout + 1 \in Nat /\ Quiet \in Nat
    BY QuietIsNatural
  <2> HIDE DEF Quiet
  <2>3. Capped(age, Timeout + 1) \in 0 .. Timeout + 1 /\ Capped(quiet, Quiet) \in 0 .. Quiet
    BY <2>1, <2>2, CappedRange
  <2> QED BY <2>2, <2>3 DEF Tick
<1>4. board' \in {"publish", "off"}
  BY <1>1
<1>5. TypeOK' /\ QueuesOK'
  BY <1>1, <1>2, <1>3, <1>4 DEF IInv, TypeOK, QueuesOK
<1>6. BootsBounded' /\ BootsInOrder' /\ HeardUnlessTorn'
  BY <1>1, <1>2, <1>4 DEF IInv, BootsBounded, BootsInOrder, HeardUnlessTorn
<1> QED BY <1>5, <1>6 DEF IInv

(***************************************************************************)
(* The gateway takes the oldest message: what is left is still in order.   *)
(***************************************************************************)
LEMMA OldestFirst ==
    ASSUME QueuesOK, uplink # << >>
    PROVE  /\ Head(uplink) \in Messages /\ Head(uplink) = uplink[1] /\ 1 \in DOMAIN uplink
           /\ Tail(uplink) \in Seq(Messages)
           /\ \A i \in DOMAIN Tail(uplink) :
                 i + 1 \in DOMAIN uplink /\ Tail(uplink)[i] = uplink[i + 1] /\ 1 <= i + 1
BY DEF QueuesOK

LEMMA TailInOrder ==
    ASSUME QueuesOK, BootsInOrder, ~torn, uplink # << >>
    PROVE  /\ \A i \in DOMAIN Tail(uplink) :
                 /\ newest <= Tail(uplink)[i].boot /\ Tail(uplink)[i].boot <= boot
                 /\ Head(uplink).boot <= Tail(uplink)[i].boot
           /\ \A i, j \in DOMAIN Tail(uplink) :
                 i <= j => Tail(uplink)[i].boot <= Tail(uplink)[j].boot
           /\ newest <= Head(uplink).boot /\ Head(uplink).boot <= boot
<1> DEFINE T == Tail(uplink)
           h == Head(uplink)
<1>1. h = uplink[1] /\ 1 \in DOMAIN uplink
      /\ \A i \in DOMAIN T : i \in Int /\ i + 1 \in DOMAIN uplink /\ T[i] = uplink[i + 1] /\ 1 <= i + 1
  <2>1. DOMAIN T \subseteq Int
    BY OldestFirst
  <2> QED BY OldestFirst, <2>1
<1>2. /\ \A i \in DOMAIN uplink : newest <= uplink[i].boot /\ uplink[i].boot <= boot
      /\ \A i, j \in DOMAIN uplink : i <= j => uplink[i].boot <= uplink[j].boot
  BY DEF BootsInOrder
<1>3. \A i, j \in Int : i <= j => i + 1 <= j + 1
  OBVIOUS
<1> HIDE DEF T, h
<1>4. \A i, j \in DOMAIN T : i <= j => T[i].boot <= T[j].boot
  BY <1>1, <1>2, <1>3, Zenon
<1>5. \A i \in DOMAIN T : newest <= T[i].boot /\ T[i].boot <= boot /\ h.boot <= T[i].boot
  BY <1>1, <1>2, Zenon
<1>6. newest <= h.boot /\ h.boot <= boot
  BY <1>1, <1>2, Zenon
<1> QED BY <1>4, <1>5, <1>6, Zenon DEF T, h

LEMMA RefuseIInv == ASSUME IInv, Refuse PROVE IInv'
<1>1. /\ uplink # << >> /\ Head(uplink).boot < newest
      /\ uplink' = Tail(uplink) /\ outcome' = "refused"
      /\ UNCHANGED <<device, inbox, newest, pending, age, score, failures, q, quiet,
                     heardNow, decision, budget>>
  BY DEF Refuse
<1>2. torn
  <2> SUFFICES ASSUME ~torn PROVE FALSE
    BY DEF IInv, TypeOK
  <2>1. newest <= Head(uplink).boot
    BY <1>1, TailInOrder DEF IInv
  <2>2. newest \in Int /\ Head(uplink).boot \in Int
    BY <1>1, OldestFirst DEF IInv, TypeOK, Messages
  <2> QED BY <1>1, <2>1, <2>2
<1>3. TypeOK'
  BY <1>1 DEF IInv, TypeOK, device, budget
<1>4. QueuesOK'
  BY <1>1, OldestFirst DEF IInv, QueuesOK
<1>5. BootsBounded'
  BY <1>1 DEF IInv, BootsBounded, device, budget
<1>6. BootsInOrder' /\ HeardUnlessTorn'
  BY <1>1, <1>2 DEF BootsInOrder, HeardUnlessTorn, budget
<1> QED BY <1>3, <1>4, <1>5, <1>6 DEF IInv

LEMMA LoseUpIInv == ASSUME IInv, LoseUp PROVE IInv'
<1>1. uplink # << >> /\ uplink' = Tail(uplink) /\ UNCHANGED <<device, inbox, gateway, torn>>
  BY DEF LoseUp
<1>2. /\ faults' = faults + 1 /\ faults' \in 0 .. MaxFaults
      /\ slips' \in 0 .. MaxSlips /\ excused' \in BOOLEAN
  BY FaultRange DEF IInv, LoseUp
<1>3. TypeOK'
  BY <1>1, <1>2 DEF IInv, TypeOK, device, gateway
<1>4. QueuesOK'
  BY <1>1, OldestFirst DEF IInv, QueuesOK, device, gateway
<1>5. BootsBounded'
  <2>1. faults' \in Nat /\ faults' >= faults /\ (board' = "off" => board = "off")
        /\ UNCHANGED <<boot, file>>
    BY <1>1, <1>2 DEF IInv, TypeOK, device
  <2> QED BY <2>1, BudgetOnlyGrows DEF IInv
<1>6. BootsInOrder'
  <2> SUFFICES ASSUME ~torn PROVE BootsInOrder'
    BY <1>1, Zenon DEF BootsInOrder
  <2>1. /\ \A i \in DOMAIN uplink' : newest <= uplink'[i].boot /\ uplink'[i].boot <= boot
        /\ \A i, j \in DOMAIN uplink' : i <= j => uplink'[i].boot <= uplink'[j].boot
    BY <1>1, TailInOrder, Zenon DEF IInv
  <2> QED BY <1>1, <2>1, Zenon DEF IInv, BootsInOrder, device, gateway
<1>7. HeardUnlessTorn'
  BY <1>1 DEF IInv, HeardUnlessTorn, gateway
<1> QED BY <1>3, <1>4, <1>5, <1>6, <1>7 DEF IInv

LEMMA RestartIInv == ASSUME IInv, Restart PROVE IInv'
<1>1. /\ uplink' = << >> /\ newest' = 0 /\ pending' = None /\ age' = 0 /\ quiet' = 0
      /\ heardNow' = FALSE /\ score' = InitialTrust /\ failures' = 0 /\ q' = NothingSeeded
      /\ UNCHANGED <<device, inbox, outcome, decision, torn>>
  BY DEF Restart
<1>2. /\ faults' = faults + 1 /\ faults' \in 0 .. MaxFaults
      /\ slips' \in 0 .. MaxSlips /\ excused' \in BOOLEAN
  BY FaultRange DEF IInv, Restart
<1>3. 0 \in 0 .. Quiet
  BY QuietIsNatural
<1>4. TypeOK'
  <2>1. heardNow' \in BOOLEAN /\ torn' \in BOOLEAN /\ linked' \in BOOLEAN
    BY <1>1, Zenon DEF IInv, TypeOK, device
  <2>2. quiet' \in 0 .. Quiet
    BY <1>1, <1>3
  <2>3. score' \in Scores
    BY <1>1 DEF InitialTrust, Scores
  <2> QED BY <1>1, <1>2, <2>1, <2>2, <2>3 DEF IInv, TypeOK, device
<1>5. QueuesOK'
  BY <1>1 DEF IInv, QueuesOK, NothingSeeded
<1>6. BootsBounded'
  <2>1. faults' \in Nat /\ faults' >= faults /\ (board' = "off" => board = "off")
        /\ UNCHANGED <<boot, file>>
    BY <1>1, <1>2 DEF IInv, TypeOK, device
  <2> QED BY <2>1, BudgetOnlyGrows DEF IInv
<1>7. BootsInOrder' /\ HeardUnlessTorn'
  <2>1. boot \in Nat
    BY DEF IInv, TypeOK
  <2> QED BY <1>1, <2>1 DEF IInv, BootsInOrder, HeardUnlessTorn, device
<1> QED BY <1>4, <1>5, <1>6, <1>7 DEF IInv

(***************************************************************************)
(* A message is handled: first the parts of Handle, then the whole.        *)
(***************************************************************************)
LEMMA VerdictRange ==
    ASSUME NEW echo, NEW over \in BOOLEAN
    PROVE  Verdict(echo, over) \in Verdicts
BY DEF Verdict, Verdicts, Fails

LEMMA SendTyped ==
    ASSUME QueuesOK, NEW msgs \in Seq(Nonces \cup {"decision"}), Send(msgs)
    PROVE  inbox' \in Seq(Nonces \cup {"decision"})
<1>1. inbox \in Seq(Nonces \cup {"decision"})
  BY DEF QueuesOK
<1>2. inbox \o msgs \in Seq(Nonces \cup {"decision"})
  BY <1>1
<1> QED BY <1>1, <1>2, Zenon DEF Send

LEMMA FreshIsANonce ==
    ASSUME Nonces \ InUse # {}
    PROVE  Fresh \in Nonces
<1>1. \E n \in Nonces : n \notin InUse
  OBVIOUS
<1> QED BY <1>1, Zenon DEF Fresh

LEMMA HandleIInv ==
    ASSUME IInv, NEW over \in BOOLEAN, NEW flood \in BOOLEAN, Handle(over, flood)
    PROVE  IInv'
<1> DEFINE m == Head(uplink)
           verdict == Verdict(m.echo, over)
           failed == IF verdict \in Fails THEN Capped(failures, 3) ELSE failures
           s == Trust(score, TickTenths * quiet, verdict, flood, failed)
           action == IF verdict \in Fails THEN "BLOCK" ELSE Greedy(q, s, Process)
           left == Settle(verdict)
           issues == action = "STEP_UP" /\ left = None
<1>1. /\ uplink # << >> /\ m.boot >= newest
      /\ uplink' = Tail(uplink) /\ newest' = m.boot /\ outcome' = verdict
      /\ score' = s /\ failures' = failed /\ q' = Seeded(q, s, Process)
      /\ quiet' = 0 /\ heardNow' = TRUE /\ decision' = action
      /\ UNCHANGED device
  BY Zenon DEF Handle
<1>2. /\ issues => /\ Nonces \ InUse # {} /\ pending' = Fresh /\ age' = 0
                   /\ Send(<<Fresh, "decision">>) /\ excused' = (Stray \/ ~Listening)
                   /\ UNCHANGED <<faults, slips, torn>>
      /\ ~issues => /\ pending' = left /\ Send(<<"decision">>)
                    /\ age' = (IF left = None THEN 0 ELSE age)
                    /\ excused' = (left # None /\ excused)
                    /\ UNCHANGED <<faults, slips, torn>>
  BY Zenon DEF Handle
<1>3. m \in Messages
  BY <1>1, OldestFirst DEF IInv
<1>4. verdict \in Verdicts
  BY VerdictRange
<1>5. left \in {pending, None} /\ left \in Nonces \cup {None}
  BY Zenon DEF Settle, IInv, TypeOK
<1>6. failed \in 0 .. 3
  BY CappedRange DEF IInv, TypeOK
<1>7. s \in Scores
  <2>1. TickTenths * quiet \in Nat
    BY QuietIsNatural DEF IInv, TypeOK
  <2>2. score \in Scores
    BY DEF IInv, TypeOK
  <2> HIDE DEF verdict, failed
  <2> QED BY <1>4, <1>6, <2>1, <2>2, ScoreRange
<1> HIDE DEF m, verdict, failed, s, left
<1>8. /\ action \in Actions
      /\ \A k \in DOMAIN Seeded(q, s, Process) : Seeded(q, s, Process)[k] \in Actions
  BY SeededRange DEF IInv, QueuesOK, Actions
<1> HIDE DEF action
<1>9. UNCHANGED <<faults, slips, torn>> /\ excused' \in BOOLEAN
  BY <1>2, Zenon
<1>10. pending' \in Nonces \cup {None}
  BY <1>2, <1>5, FreshIsANonce
<1>11. age' \in 0 .. Timeout + 1
  BY <1>2 DEF IInv, TypeOK
<1>12. inbox' \in Seq(Nonces \cup {"decision"})
  <2>1. CASE issues
    <3>1. Fresh \in Nonces
      BY <1>2, <2>1, FreshIsANonce
    <3>2. <<Fresh, "decision">> \in Seq(Nonces \cup {"decision"})
      BY <3>1
    <3> QED BY <1>2, <2>1, <3>2, SendTyped DEF IInv
  <2>2. CASE ~issues
    <3>1. <<"decision">> \in Seq(Nonces \cup {"decision"})
      OBVIOUS
    <3> QED BY <1>2, <2>2, <3>1, SendTyped, Zenon DEF IInv
  <2> QED BY <2>1, <2>2, Zenon
<1> HIDE DEF issues
<1>13. TypeOK'
  <2>1. newest' \in 0 .. 2 + MaxFaults
    BY <1>1, <1>3 DEF Messages
  <2>2. 0 \in 0 .. Quiet
    BY QuietIsNatural
  <2>3. heardNow' \in BOOLEAN /\ torn' \in BOOLEAN
    BY <1>1, <1>9, Zenon DEF IInv, TypeOK
  <2> QED BY <1>1, <1>4, <1>6, <1>7, <1>8, <1>9, <1>10, <1>11, <2>1, <2>2, <2>3
          DEF IInv, TypeOK, device
<1>14. QueuesOK'
  BY <1>1, <1>8, <1>12, OldestFirst DEF IInv, QueuesOK
<1>15. BootsBounded'
  BY <1>1, <1>9 DEF IInv, BootsBounded, device
<1>16. BootsInOrder'
  <2> SUFFICES ASSUME ~torn PROVE BootsInOrder'
    BY <1>9, Zenon DEF BootsInOrder
  <2>1. /\ \A i \in DOMAIN uplink' : newest' <= uplink'[i].boot /\ uplink'[i].boot <= boot
        /\ \A i, j \in DOMAIN uplink' : i <= j => uplink'[i].boot <= uplink'[j].boot
        /\ newest' <= boot
    BY <1>1, TailInOrder, Zenon DEF IInv, m
  <2> QED BY <1>1, <2>1, Zenon DEF IInv, BootsInOrder, device
<1>17. HeardUnlessTorn'
  BY <1>1, <1>4 DEF HeardUnlessTorn, Verdicts, Fails
<1> QED BY <1>13, <1>14, <1>15, <1>16, <1>17 DEF IInv

(***************************************************************************)
(* The inductive invariant, and what it implies.                           *)
(***************************************************************************)
LEMMA StutterIInv == ASSUME IInv, UNCHANGED vars PROVE IInv'
BY DEF IInv, TypeOK, QueuesOK, BootsBounded, BootsInOrder, HeardUnlessTorn, vars, device,
       gateway, budget

LEMMA NextIInv == IInv /\ [Next]_vars => IInv'
<1> SUFFICES ASSUME IInv, [Next]_vars PROVE IInv'
  OBVIOUS
<1>1. CASE Publish
  BY <1>1, PublishIInv
<1>2. CASE Drain
  BY <1>2, DrainIInv
<1>3. CASE Start
  BY <1>3, StartIInv
<1>4. CASE WriteBoot
  BY <1>4, WriteBootIInv
<1>5. CASE PublishFails
  BY <1>5, PublishFailsIInv
<1>6. CASE DrainFails
  BY <1>6, DrainFailsIInv
<1>7. CASE SensorFails
  BY <1>7, SensorFailsIInv
<1>8. CASE PowerLoss
  BY <1>8, PowerLossIInv
<1>9. CASE Refuse
  BY <1>9, RefuseIInv
<1>10. CASE \E over, flood \in BOOLEAN : Handle(over, flood)
  BY <1>10, HandleIInv
<1>11. CASE Restart
  BY <1>11, RestartIInv
<1>12. CASE LoseUp
  BY <1>12, LoseUpIInv
<1>13. CASE LoseDown
  BY <1>13, LoseDownIInv
<1>14. CASE Tick
  BY <1>14, TickIInv
<1>15. CASE UNCHANGED vars
  BY <1>15, StutterIInv
<1> QED BY <1>1, <1>2, <1>3, <1>4, <1>5, <1>6, <1>7, <1>8, <1>9, <1>10, <1>11, <1>12,
           <1>13, <1>14, <1>15, Zenon DEF Next, Board, HandleOne

(* The inductive invariant holds at every step.                            *)
THEOREM Invariance == Spec => []IInv
BY InitIInv, NextIInv, PTL DEF Spec

(* Every variable of the board and of its gateway stays in its range: the  *)
(* boot number grows with the number of power losses, the score stays a    *)
(* score under every verdict.                                              *)
THEOREM TypeCorrect == Spec => []TypeOK
<1>1. IInv => TypeOK
  BY DEF IInv
<1> QED BY Invariance, <1>1, PTL

(* A board that never lost power between emptying and writing its boot     *)
(* number is never refused, whatever is lost, delayed or restarted.        *)
THEOREM NeverRefused == Spec => []HeardUnlessTorn
<1>1. IInv => HeardUnlessTorn
  BY DEF IInv
<1> QED BY Invariance, <1>1, PTL
-----------------------------------------------------------------------------
(* What an inbox holds.                                                    *)
Entries == Nonces \cup {"decision"}

(***************************************************************************)
(* Counting the decisions of an inbox.                                     *)
(***************************************************************************)
LEMMA DecisionsFinite ==
    ASSUME NEW box \in Seq(Entries)
    PROVE  /\ IsFiniteSet(Decisions(box)) /\ Cardinality(Decisions(box)) \in Nat
           /\ (\A i \in DOMAIN box : box[i] \notin Nonces)
                 => Cardinality(Decisions(box)) = Len(box)
<1>1. Len(box) \in Nat /\ DOMAIN box = 1 .. Len(box)
  OBVIOUS
<1>2. IsFiniteSet(1 .. Len(box)) /\ Cardinality(1 .. Len(box)) = Len(box)
  <2>1. /\ IsFiniteSet(1 .. Len(box))
        /\ Cardinality(1 .. Len(box)) = IF 1 > Len(box) THEN 0 ELSE Len(box) - 1 + 1
    <3>1. 1 \in Int /\ Len(box) \in Int
      BY <1>1
    <3> QED BY <3>1, FS_Interval, Zenon
  <2> QED BY <1>1, <2>1
<1>3. Decisions(box) \in SUBSET (1 .. Len(box))
  BY <1>1 DEF Decisions
<1>4. IsFiniteSet(Decisions(box))
  BY <1>2, <1>3, FS_Subset
<1>5. (\A i \in DOMAIN box : box[i] \notin Nonces) => Decisions(box) = 1 .. Len(box)
  BY <1>1 DEF Decisions
<1> QED BY <1>2, <1>4, <1>5, FS_CardinalityType

LEMMA DecisionsEmpty == Cardinality(Decisions(<< >>)) = 0
<1>1. Decisions(<< >>) = {}
  BY DEF Decisions
<1> QED BY <1>1, FS_EmptySet

LEMMA DecisionsAdded ==
    ASSUME NEW box \in Seq(Entries), NEW x \in Entries
    PROVE  /\ Cardinality(Decisions(Append(box, x))) <= Cardinality(Decisions(box)) + 1
           /\ x \in Nonces
                 => Cardinality(Decisions(Append(box, x))) = Cardinality(Decisions(box))
<1>1. IsFiniteSet(Decisions(box)) /\ Cardinality(Decisions(box)) \in Nat
  BY DecisionsFinite
<1> DEFINE long == Append(box, x)
           n == Len(box) + 1
<1>2. /\ DOMAIN long = DOMAIN box \cup {n} /\ n \notin DOMAIN box
      /\ long[n] = x /\ \A i \in DOMAIN box : long[i] = box[i]
  <2>1. Len(box) \in Nat /\ DOMAIN box = 1 .. Len(box) /\ DOMAIN long = 1 .. n
    OBVIOUS
  <2> QED BY <2>1
<1> HIDE DEF long, n
<1>3. CASE x \in Nonces
  <2>1. Decisions(long) = Decisions(box)
    BY <1>2, <1>3, Zenon DEF Decisions
  <2> QED BY <1>1, <1>3, <2>1 DEF long
<1>4. CASE x \notin Nonces
  <2>1. Decisions(long) = Decisions(box) \cup {n}
    BY <1>2, <1>4, Zenon DEF Decisions
  <2>2. n \notin Decisions(box)
    BY <1>2, Zenon DEF Decisions
  <2>3. Cardinality(Decisions(long)) = Cardinality(Decisions(box)) + 1
    BY <1>1, <2>1, <2>2, FS_AddElement
  <2> QED BY <1>1, <1>4, <2>3 DEF long
<1> QED BY <1>3, <1>4

(* What is left of an inbox holds no more decisions than it did, and one   *)
(* less when one was taken.                                                *)
LEMMA DecisionsLeft ==
    ASSUME NEW box \in Seq(Entries), NEW n \in 0 .. Len(box)
    PROVE  LET rest == SubSeq(box, n + 1, Len(box))
           IN  /\ Cardinality(Decisions(rest)) <= Cardinality(Decisions(box))
               /\ (\E j \in 1 .. n : box[j] \notin Nonces)
                     => Cardinality(Decisions(rest)) < Cardinality(Decisions(box))
<1> DEFINE rest == SubSeq(box, n + 1, Len(box))
           D == Decisions(box)
           R == Decisions(rest)
           f == [i \in R |-> i + n]
<1>1. /\ Len(box) \in Nat /\ DOMAIN box = 1 .. Len(box)
      /\ rest \in Seq(Entries) /\ DOMAIN rest = 1 .. Len(box) - n
      /\ \A i \in DOMAIN rest : rest[i] = box[i + n]
  OBVIOUS
<1>2. /\ IsFiniteSet(D) /\ Cardinality(D) \in Nat
      /\ IsFiniteSet(R) /\ Cardinality(R) \in Nat
  BY <1>1, DecisionsFinite
<1>3. \A i \in R : i \in Nat /\ i + n \in D /\ i + n > n
  BY <1>1 DEF Decisions
<1> HIDE DEF rest, D, R
<1>4. ASSUME NEW T \in SUBSET D, \A i \in R : i + n \in T
      PROVE  Cardinality(R) <= Cardinality(T)
  <2>1. f \in [R -> T] /\ \A i, j \in R : f[i] = f[j] => i = j
    BY <1>3, <1>4
  <2>2. f \in Injection(R, T)
    BY <2>1 DEF Injection, IsInjective
  <2>3. IsFiniteSet(T)
    BY <1>2, FS_Subset
  <2> HIDE DEF f
  <2> QED BY <2>2, <2>3, FS_Injection
<1>5. Cardinality(R) <= Cardinality(D)
  BY <1>3, <1>4
<1>6. ASSUME NEW j \in 1 .. n, box[j] \notin Nonces
      PROVE  Cardinality(R) < Cardinality(D)
  <2>1. j \in D
    BY <1>1, <1>6 DEF D, Decisions
  <2>2. \A i \in R : i + n \in D \ {j}
    BY <1>3
  <2>3. Cardinality(R) <= Cardinality(D \ {j})
    BY <1>4, <2>2
  <2>4. Cardinality(D \ {j}) = Cardinality(D) - 1
    BY <1>2, <2>1, FS_RemoveElement
  <2> QED BY <1>2, <2>3, <2>4
<1> QED BY <1>5, <1>6 DEF rest, D, R

(***************************************************************************)
(* What the types of IInv give the rest.                                   *)
(***************************************************************************)
LEMMA Ranges ==
    ASSUME IInv
    PROVE  /\ uplink \in Seq(Messages) /\ Len(uplink) \in Nat
           /\ inbox \in Seq(Entries) /\ Len(inbox) \in Nat
           /\ Cardinality(Decisions(inbox)) \in Nat
           /\ slips \in 0 .. MaxSlips /\ faults \in 0 .. MaxFaults /\ age \in 0 .. Timeout + 1
           /\ boot \in Nat /\ newest \in Nat
           /\ nonce \in Nonces \cup {None} /\ pending \in Nonces \cup {None}
           /\ None \notin Nonces /\ "decision" \notin Nonces
<1>1. uplink \in Seq(Messages) /\ inbox \in Seq(Entries)
  BY DEF IInv, QueuesOK, Entries
<1>2. Cardinality(Decisions(inbox)) \in Nat
  BY <1>1, DecisionsFinite
<1>3. None \notin Nonces /\ "decision" \notin Nonces
  BY NoncesAssumption
<1>4. /\ slips \in 0 .. MaxSlips /\ faults \in 0 .. MaxFaults /\ age \in 0 .. Timeout + 1
      /\ boot \in Nat /\ newest \in Nat
      /\ nonce \in Nonces \cup {None} /\ pending \in Nonces \cup {None}
  BY DEF IInv, TypeOK
<1> QED BY <1>1, <1>2, <1>3, <1>4

(***************************************************************************)
(* DecisionFollows: inboxes lose what is oldest and gain whole answers.    *)
(***************************************************************************)
LEMMA FollowsLeft ==
    ASSUME IInv, DecisionFollows, NEW n \in 0 .. Len(inbox),
           inbox' = SubSeq(inbox, n + 1, Len(inbox))
    PROVE  DecisionFollows'
<1>1. inbox \in Seq(Entries) /\ Len(inbox) \in Nat
  BY Ranges
<1>2. /\ Len(inbox') = Len(inbox) - n /\ DOMAIN inbox' = 1 .. Len(inbox) - n
      /\ \A i \in 1 .. Len(inbox) - n : inbox'[i] = inbox[i + n]
  BY <1>1
<1>3. \A i \in 1 .. Len(inbox) : inbox[i] \in Nonces
         => i < Len(inbox) /\ inbox[i + 1] \notin Nonces
  BY <1>1 DEF DecisionFollows
<1> SUFFICES ASSUME NEW i \in 1 .. Len(inbox) - n, inbox'[i] \in Nonces
             PROVE  i < Len(inbox') /\ inbox'[i + 1] \notin Nonces
  BY <1>2 DEF DecisionFollows
<1>4. i + n \in 1 .. Len(inbox) /\ inbox[i + n] \in Nonces
  BY <1>1, <1>2
<1>5. i + n < Len(inbox) /\ inbox[(i + n) + 1] \notin Nonces
  BY <1>3, <1>4
<1>6. i < Len(inbox) - n /\ i + 1 \in 1 .. Len(inbox) - n /\ (i + 1) + n = (i + n) + 1
  BY <1>1, <1>5
<1>7. inbox'[i + 1] = inbox[(i + 1) + n]
  BY <1>2, <1>6
<1> QED BY <1>2, <1>5, <1>6, <1>7

LEMMA FollowsDecision ==
    ASSUME IInv, DecisionFollows, inbox' = inbox \o <<"decision">>
    PROVE  DecisionFollows'
<1>1. inbox \in Seq(Entries) /\ Len(inbox) \in Nat /\ "decision" \notin Nonces
  BY Ranges
<1>2. /\ Len(inbox') = Len(inbox) + 1 /\ DOMAIN inbox' = 1 .. Len(inbox) + 1
      /\ \A i \in 1 .. Len(inbox) : inbox'[i] = inbox[i]
      /\ inbox'[Len(inbox) + 1] = "decision"
  BY <1>1
<1>3. \A i \in 1 .. Len(inbox) : inbox[i] \in Nonces
         => i < Len(inbox) /\ inbox[i + 1] \notin Nonces
  BY <1>1 DEF DecisionFollows
<1> SUFFICES ASSUME NEW i \in 1 .. Len(inbox) + 1, inbox'[i] \in Nonces
             PROVE  i < Len(inbox') /\ inbox'[i + 1] \notin Nonces
  BY <1>2 DEF DecisionFollows
<1>4. i \in 1 .. Len(inbox) /\ inbox[i] \in Nonces
  BY <1>1, <1>2
<1>5. i < Len(inbox) /\ inbox[i + 1] \notin Nonces
  BY <1>3, <1>4
<1>6. i + 1 \in 1 .. Len(inbox)
  BY <1>1, <1>5
<1> QED BY <1>1, <1>2, <1>5, <1>6

LEMMA FollowsChallenge ==
    ASSUME IInv, DecisionFollows, NEW x \in Nonces, inbox' = inbox \o <<x, "decision">>
    PROVE  DecisionFollows'
<1>1. inbox \in Seq(Entries) /\ Len(inbox) \in Nat /\ "decision" \notin Nonces
  BY Ranges
<1>2. /\ Len(inbox') = Len(inbox) + 2 /\ DOMAIN inbox' = 1 .. Len(inbox) + 2
      /\ \A i \in 1 .. Len(inbox) : inbox'[i] = inbox[i]
      /\ inbox'[Len(inbox) + 1] = x /\ inbox'[Len(inbox) + 2] = "decision"
  BY <1>1
<1>3. \A i \in 1 .. Len(inbox) : inbox[i] \in Nonces
         => i < Len(inbox) /\ inbox[i + 1] \notin Nonces
  BY <1>1 DEF DecisionFollows
<1> SUFFICES ASSUME NEW i \in 1 .. Len(inbox) + 2, inbox'[i] \in Nonces
             PROVE  i < Len(inbox') /\ inbox'[i + 1] \notin Nonces
  BY <1>2 DEF DecisionFollows
<1>4. CASE i = Len(inbox) + 1
  <2>1. i + 1 = Len(inbox) + 2 /\ i < Len(inbox) + 2
    BY <1>1, <1>4
  <2>2. inbox'[i + 1] = "decision"
    BY <1>2, <2>1
  <2>3. inbox'[i + 1] \notin Nonces
    BY <1>1, <2>2, Zenon
  <2> QED BY <1>2, <2>1, <2>3
<1>5. CASE i # Len(inbox) + 1
  <2>1. i \in 1 .. Len(inbox) /\ inbox[i] \in Nonces
    <3>1. i # Len(inbox) + 2
      BY <1>1, <1>2, Zenon
    <3>2. \A n \in Nat : \A k \in 1 .. n + 2 : k # n + 1 /\ k # n + 2 => k \in 1 .. n
      OBVIOUS
    <3>3. i \in 1 .. Len(inbox)
      BY <1>1, <1>5, <3>1, <3>2, Zenon
    <3> QED BY <1>2, <3>3, Zenon
  <2>2. i < Len(inbox) /\ inbox[i + 1] \notin Nonces
    BY <1>3, <2>1
  <2>3. i + 1 \in 1 .. Len(inbox)
    BY <1>1, <2>2
  <2> QED BY <1>1, <1>2, <2>2, <2>3
<1> QED BY <1>4, <1>5

LEMMA FollowsNone ==
    ASSUME inbox' = << >>
    PROVE  DecisionFollows'
BY DEF DecisionFollows

(***************************************************************************)
(* Backlog, for each way a queue changes.                                  *)
(***************************************************************************)
LEMMA BacklogLost ==
    ASSUME IInv, Backlog, Len(uplink') \in Nat, Len(uplink') <= Len(uplink),
           Cardinality(Decisions(inbox'))  \in Nat,
           Cardinality(Decisions(inbox')) <= Cardinality(Decisions(inbox)),
           slips' = slips, faults' = faults + 1
    PROVE  Backlog'
<1>1. /\ Len(uplink) \in Nat /\ Cardinality(Decisions(inbox)) \in Nat
      /\ slips \in Nat /\ faults \in Nat
  BY Ranges
<1>2. /\ Len(uplink) <= slips + faults + 1
      /\ Len(uplink) + Cardinality(Decisions(inbox)) <= slips + faults + 2
  BY <1>1 DEF Backlog
<1>3. /\ Len(uplink') <= slips' + faults'
      /\ Len(uplink') + Cardinality(Decisions(inbox')) <= slips' + faults' + 1
  BY <1>1, <1>2
<1>4. slips' + faults' \in Nat
  BY <1>1
<1> QED BY <1>3, <1>4 DEF Backlog
LEMMA BacklogBoard ==
    ASSUME IInv, Backlog, UNCHANGED <<uplink, inbox, slips, faults>>,
           board' = board \/ <<board, board'>> \in {"off", "boots"} \X {"boots", "publish"}
    PROVE  Backlog'
BY DEF Backlog

LEMMA BacklogSlip ==
    ASSUME IInv, Backlog, UNCHANGED <<uplink, inbox, faults>>, slips' = slips + 1,
           board = "publish" /\ board' = "sleep"
    PROVE  Backlog'
<1>1. /\ Len(uplink) \in Nat /\ Cardinality(Decisions(inbox)) \in Nat
      /\ slips \in Nat /\ faults \in Nat
  BY Ranges
<1> QED BY <1>1 DEF Backlog

LEMMA BacklogPublish ==
    ASSUME IInv, Backlog, UNCHANGED <<inbox, slips, faults>>, Len(uplink') = Len(uplink) + 1,
           board = "publish" /\ board' = "drain"
    PROVE  Backlog'
<1>1. /\ Len(uplink) \in Nat /\ Cardinality(Decisions(inbox)) \in Nat
      /\ slips \in Nat /\ faults \in Nat
  BY Ranges
<1> QED BY <1>1 DEF Backlog

LEMMA BacklogTick ==
    ASSUME IInv, Backlog, UNCHANGED <<uplink, inbox, faults>>,
           slips' \in Nat, slips' >= slips, uplink # << >> => slips' = slips + 1,
           board \in {"sleep", "off"},
           board' = (IF board = "sleep" THEN "publish" ELSE board)
    PROVE  Backlog'
<1>1. /\ Len(uplink) \in Nat /\ Cardinality(Decisions(inbox)) \in Nat
      /\ slips \in Nat /\ faults \in Nat
      /\ uplink = << >> => Len(uplink) = 0
  BY Ranges
<1>2. /\ Len(uplink) <= slips + faults + 1
      /\ Len(uplink) + Cardinality(Decisions(inbox)) <= slips + faults + 1
      /\ board' \notin {"drain", "sleep"}
  BY <1>1 DEF Backlog
<1>3. /\ Len(uplink) <= slips' + faults
      /\ Len(uplink) + Cardinality(Decisions(inbox)) <= slips' + faults + 1
  BY <1>1, <1>2
<1> QED BY <1>1, <1>2, <1>3 DEF Backlog

LEMMA BacklogHandled ==
    ASSUME IInv, Backlog, UNCHANGED <<board, slips, faults>>,
           Len(uplink') = Len(uplink) - 1, Cardinality(Decisions(inbox')) \in Nat,
           Cardinality(Decisions(inbox')) <= Cardinality(Decisions(inbox)) + 1
    PROVE  Backlog'
<1>1. /\ Len(uplink) \in Nat /\ Cardinality(Decisions(inbox)) \in Nat
      /\ slips \in Nat /\ faults \in Nat
  BY Ranges
<1> QED BY <1>1 DEF Backlog

LEMMA BacklogDrained ==
    ASSUME IInv, Backlog, UNCHANGED <<uplink, slips, faults>>,
           board = "drain" /\ board' = "sleep", Cardinality(Decisions(inbox')) \in Nat,
           \/ Cardinality(Decisions(inbox')) = 0
           \/ Cardinality(Decisions(inbox')) < Cardinality(Decisions(inbox))
    PROVE  Backlog'
<1>1. /\ Len(uplink) \in Nat /\ Cardinality(Decisions(inbox)) \in Nat
      /\ slips \in Nat /\ faults \in Nat
  BY Ranges
<1> QED BY <1>1 DEF Backlog
(***************************************************************************)
(* What a message adds to the inbox.                                       *)
(***************************************************************************)
LEMMA SendDecision ==
    ASSUME IInv, DecisionFollows, Send(<<"decision">>)
    PROVE  /\ DecisionFollows' /\ Cardinality(Decisions(inbox')) \in Nat
           /\ Cardinality(Decisions(inbox')) <= Cardinality(Decisions(inbox)) + 1
<1>1. /\ inbox \in Seq(Entries) /\ "decision" \in Entries
      /\ Cardinality(Decisions(inbox)) \in Nat
  BY Ranges DEF Entries
<1>2. CASE inbox' = inbox
  BY <1>1, <1>2 DEF DecisionFollows
<1>3. CASE inbox' = inbox \o <<"decision">>
  <2>1. inbox' = Append(inbox, "decision") /\ inbox' \in Seq(Entries)
    BY <1>1, <1>3
  <2>2. DecisionFollows'
    BY <1>3, FollowsDecision
  <2>3. Cardinality(Decisions(inbox')) <= Cardinality(Decisions(inbox)) + 1
    BY <1>1, <2>1, DecisionsAdded
  <2>4. Cardinality(Decisions(inbox')) \in Nat
    BY <2>1, DecisionsFinite
  <2> QED BY <2>2, <2>3, <2>4
<1> QED BY <1>2, <1>3, Zenon DEF Send

LEMMA SendChallenge ==
    ASSUME IInv, DecisionFollows, NEW x \in Nonces, Send(<<x, "decision">>)
    PROVE  /\ DecisionFollows' /\ Cardinality(Decisions(inbox')) \in Nat
           /\ Cardinality(Decisions(inbox')) <= Cardinality(Decisions(inbox)) + 1
<1>1. /\ inbox \in Seq(Entries) /\ "decision" \in Entries /\ x \in Entries
      /\ Cardinality(Decisions(inbox)) \in Nat
  BY Ranges DEF Entries
<1>2. CASE inbox' = inbox
  BY <1>1, <1>2 DEF DecisionFollows
<1>3. CASE inbox' = inbox \o <<x, "decision">>
  <2> DEFINE half == Append(inbox, x)
  <2>1. inbox' = Append(half, "decision") /\ half \in Seq(Entries) /\ inbox' \in Seq(Entries)
    BY <1>1, <1>3
  <2>2. DecisionFollows'
    BY <1>3, FollowsChallenge
  <2>3. Cardinality(Decisions(half)) = Cardinality(Decisions(inbox))
    BY <1>1, DecisionsAdded
  <2> HIDE DEF half
  <2>4. Cardinality(Decisions(inbox')) <= Cardinality(Decisions(half)) + 1
    BY <1>1, <2>1, DecisionsAdded
  <2>5. Cardinality(Decisions(inbox')) \in Nat
    BY <2>1, DecisionsFinite
  <2> QED BY <2>2, <2>3, <2>4, <2>5
<1> QED BY <1>2, <1>3, Zenon DEF Send

(***************************************************************************)
(* A drain takes a decision, if there is one, and the nonce within reach.  *)
(***************************************************************************)
LEMMA RestOf ==
    ASSUME inbox \in Seq(Entries), NEW n \in 0 .. Len(inbox),
           inbox' = SubSeq(inbox, n + 1, Len(inbox))
    PROVE  /\ inbox' \in Seq(Entries) /\ DOMAIN inbox' = 1 .. Len(inbox) - n
           /\ \A i \in 1 .. Len(inbox) - n : inbox'[i] = inbox[i + n]
           /\ n = Len(inbox) => inbox' = << >>
OBVIOUS

LEMMA Reach ==
    ASSUME NEW l \in Nat
    PROVE  LET n == IF l < Drained THEN l ELSE Drained
           IN  /\ n \in 0 .. l /\ (n < l => n >= 2)
               /\ \A p \in 1 .. l : p <= Drained => p \in 1 .. n
<1>1. Drained \in Nat /\ Drained >= 2
  BY SlackAssumption
<1> QED BY <1>1

LEMMA Shifted ==
    ASSUME NEW l \in Nat, NEW n \in 0 .. l
    PROVE  /\ \A i \in 1 .. l - n : i + n \in 1 .. l /\ i + n \notin 1 .. n
           /\ \A i \in 1 .. n : i \in 1 .. l /\ \A j \in i + 1 .. n : j \in 1 .. l /\ j # i
OBVIOUS

LEMMA DrainTakes ==
    ASSUME IInv, DecisionFollows, NEW n \in 0 .. Len(inbox), n < Len(inbox) => n >= 2,
           inbox' = Taken(n)
    PROVE  /\ DecisionFollows' /\ Cardinality(Decisions(inbox')) \in Nat
           /\ \/ Cardinality(Decisions(inbox')) = 0
              \/ Cardinality(Decisions(inbox')) < Cardinality(Decisions(inbox))
<1>1. inbox \in Seq(Entries) /\ Len(inbox) \in Nat
  BY Ranges
<1>2. n \in 0 .. Len(inbox) /\ (n < Len(inbox) => n >= 2)
  OBVIOUS
<1>3. inbox' = SubSeq(inbox, n + 1, Len(inbox))
  BY DEF Taken
<1>4. inbox' \in Seq(Entries) /\ (n = Len(inbox) => inbox' = << >>)
  BY <1>1, <1>3, RestOf, Zenon
<1>5. DecisionFollows'
  BY <1>2, <1>3, FollowsLeft
<1>6. Cardinality(Decisions(inbox')) \in Nat
  BY <1>4, DecisionsFinite
<1>7. CASE n = Len(inbox)
  BY <1>4, <1>5, <1>6, <1>7, DecisionsEmpty
<1>8. CASE n < Len(inbox)
  <2>1. 1 \in 1 .. n /\ 2 \in 1 .. n /\ 1 \in 1 .. Len(inbox) /\ 1 + 1 = 2
    BY <1>1, <1>2, <1>8
  <2>2. inbox[1] \in Nonces => inbox[1 + 1] \notin Nonces
    <3>1. 1 \in DOMAIN inbox
      BY <1>1, <2>1
    <3> QED BY <3>1, Zenon DEF DecisionFollows
  <2>3. \E j \in 1 .. n : inbox[j] \notin Nonces
    BY <2>1, <2>2
  <2>4. Cardinality(Decisions(inbox')) < Cardinality(Decisions(inbox))
    BY <1>1, <1>2, <1>3, <2>3, DecisionsLeft
  <2> QED BY <1>5, <1>6, <2>4
<1> QED BY <1>1, <1>2, <1>7, <1>8

LEMMA DrainHears ==
    ASSUME IInv, NEW n \in 0 .. Len(inbox),
           \A p \in 1 .. Len(inbox) : p <= Drained => p \in 1 .. n,
           nonce' = Received(n), inbox' = Taken(n)
    PROVE  /\ OnlyDecisions => nonce' = nonce /\ OnlyDecisions'
           /\ \A p \in DOMAIN inbox :
                 /\ p <= Drained /\ inbox[p] \in Nonces
                 /\ \A i \in DOMAIN inbox : i # p => inbox[i] \notin Nonces
                 => nonce' = inbox[p] /\ OnlyDecisions'
<1>1. inbox \in Seq(Entries) /\ Len(inbox) \in Nat /\ DOMAIN inbox = 1 .. Len(inbox)
  BY Ranges
<1>2. n \in 0 .. Len(inbox) /\ \A p \in 1 .. Len(inbox) : p <= Drained => p \in 1 .. n
  OBVIOUS
<1>3. /\ \A i \in 1 .. Len(inbox) - n : i + n \in DOMAIN inbox /\ i + n \notin 1 .. n
      /\ \A i \in 1 .. n : i \in DOMAIN inbox /\ \A j \in i + 1 .. n : j \in DOMAIN inbox /\ j # i
  BY <1>1, <1>2, Shifted
<1>4. /\ DOMAIN inbox' = 1 .. Len(inbox) - n
      /\ \A i \in 1 .. Len(inbox) - n : inbox'[i] = inbox[i + n]
  <2>1. inbox' = SubSeq(inbox, n + 1, Len(inbox))
    BY DEF Taken
  <2> QED BY <1>1, <1>2, <2>1, RestOf, Zenon
<1> DEFINE last == {i \in 1 .. n : inbox[i] \in Nonces
                         /\ \A j \in i + 1 .. n : inbox[j] \notin Nonces}
<1>5. nonce' = IF last = {} THEN nonce ELSE inbox[CHOOSE i \in last : TRUE]
  BY DEF Received
<1>6. ASSUME OnlyDecisions PROVE nonce' = nonce /\ OnlyDecisions'
  <2>1. last = {}
    BY <1>3, <1>6 DEF OnlyDecisions
  <2>2. OnlyDecisions'
    BY <1>3, <1>4, <1>6, Zenon DEF OnlyDecisions
  <2> QED BY <1>5, <2>1, <2>2
<1>7. ASSUME NEW p \in DOMAIN inbox, p <= Drained, inbox[p] \in Nonces,
             \A i \in DOMAIN inbox : i # p => inbox[i] \notin Nonces
      PROVE  nonce' = inbox[p] /\ OnlyDecisions'
  <2>1. p \in 1 .. n
    BY <1>1, <1>2, <1>7, Zenon
  <2>2. last = {p}
    <3>1. \A i \in last : i = p
      BY <1>3, <1>7, Zenon
    <3>2. p \in last
      BY <1>3, <1>7, <2>1, Zenon
    <3> QED BY <3>1, <3>2, Zenon
  <2>3. nonce' = inbox[p]
    BY <1>5, <2>2
  <2>4. \A i \in 1 .. Len(inbox) - n : i + n \in DOMAIN inbox /\ i + n # p
    BY <1>3, <2>1, Zenon
  <2>5. OnlyDecisions'
    BY <1>4, <1>7, <2>4, Zenon DEF OnlyDecisions
  <2> QED BY <2>3, <2>5
<1> QED BY <1>6, <1>7
(***************************************************************************)
(* A fault excuses whatever challenge is open.                             *)
(***************************************************************************)
LEMMA FaultExcuses ==
    ASSUME Fault, pending' \in {pending, None}
    PROVE  NonceKept'
BY DEF Fault, NonceKept

LEMMA FaultTimely ==
    ASSUME IInv, TimelyInv, Fault, pending' \in {pending, None}, outcome' = outcome,
           Len(uplink') \in Nat, Len(uplink') <= Len(uplink),
           Cardinality(Decisions(inbox')) \in Nat,
           Cardinality(Decisions(inbox')) <= Cardinality(Decisions(inbox)),
           DecisionFollows'
    PROVE  TimelyInv'
<1>1. NonceKept'
  BY FaultExcuses
<1>2. Backlog'
  <2>1. slips' = slips /\ faults' = faults + 1
    BY DEF Fault
  <2> QED BY <2>1, BacklogLost DEF TimelyInv
<1>3. NoneFailed'
  BY DEF TimelyInv, NoneFailed
<1> QED BY <1>1, <1>2, <1>3 DEF TimelyInv

LEMMA NothingCounted ==
    ASSUME IInv, inbox' = << >>
    PROVE  /\ DecisionFollows' /\ Cardinality(Decisions(inbox')) \in Nat
           /\ Cardinality(Decisions(inbox')) <= Cardinality(Decisions(inbox))
<1>1. Cardinality(Decisions(inbox)) \in Nat
  BY Ranges
<1>2. Cardinality(Decisions(inbox')) = 0
  BY DecisionsEmpty
<1> QED BY <1>1, <1>2, FollowsNone

LEMMA TailShorter ==
    ASSUME IInv, uplink # << >>
    PROVE  Len(Tail(uplink)) = Len(uplink) - 1 /\ Len(uplink) - 1 \in Nat
BY Ranges

LEMMA PowerLossTimely == ASSUME IInv, TimelyInv, PowerLoss PROVE TimelyInv'
<1>1. Fault /\ inbox' = << >> /\ UNCHANGED <<uplink, pending, outcome>>
  BY DEF PowerLoss, gateway
<1>2. Len(uplink') \in Nat /\ Len(uplink') <= Len(uplink)
  BY <1>1, Ranges
<1> QED BY <1>1, <1>2, NothingCounted, FaultTimely

LEMMA RestartTimely == ASSUME IInv, TimelyInv, Restart PROVE TimelyInv'
<1>1. Fault /\ uplink' = << >> /\ pending' = None /\ UNCHANGED <<inbox, outcome>>
  BY DEF Restart
<1>2. Len(uplink') \in Nat /\ Len(uplink') <= Len(uplink)
  BY <1>1, Ranges
<1>3. /\ DecisionFollows' /\ Cardinality(Decisions(inbox')) \in Nat
      /\ Cardinality(Decisions(inbox')) <= Cardinality(Decisions(inbox))
  BY <1>1, Ranges DEF TimelyInv, DecisionFollows
<1> QED BY <1>1, <1>2, <1>3, FaultTimely

LEMMA LoseUpTimely == ASSUME IInv, TimelyInv, LoseUp PROVE TimelyInv'
<1>1. Fault /\ uplink # << >> /\ uplink' = Tail(uplink) /\ UNCHANGED <<inbox, pending, outcome>>
  BY DEF LoseUp, gateway
<1>2. Len(uplink') \in Nat /\ Len(uplink') <= Len(uplink)
  BY <1>1, TailShorter
<1>3. /\ DecisionFollows' /\ Cardinality(Decisions(inbox')) \in Nat
      /\ Cardinality(Decisions(inbox')) <= Cardinality(Decisions(inbox))
  BY <1>1, Ranges DEF TimelyInv, DecisionFollows
<1> QED BY <1>1, <1>2, <1>3, FaultTimely

LEMMA LoseDownTimely == ASSUME IInv, TimelyInv, LoseDown PROVE TimelyInv'
<1>1. Fault /\ inbox # << >> /\ inbox' = Tail(inbox) /\ UNCHANGED <<uplink, pending, outcome>>
  BY DEF LoseDown, gateway
<1>2. Len(uplink') \in Nat /\ Len(uplink') <= Len(uplink)
  BY <1>1, Ranges
<1>3. inbox \in Seq(Entries) /\ 1 \in 0 .. Len(inbox)
  <2>1. inbox \in Seq(Entries)
    BY Ranges
  <2> QED BY <1>1, <2>1
<1>4. inbox' = SubSeq(inbox, 1 + 1, Len(inbox))
  BY <1>1, <1>3
<1>5. DecisionFollows'
  BY <1>3, <1>4, FollowsLeft DEF TimelyInv
<1>6. inbox' \in Seq(Entries)
  BY <1>3, <1>4, RestOf
<1>7. /\ Cardinality(Decisions(inbox')) \in Nat
      /\ Cardinality(Decisions(inbox')) <= Cardinality(Decisions(inbox))
  BY <1>3, <1>4, <1>6, DecisionsFinite, DecisionsLeft
<1> QED BY <1>1, <1>2, <1>5, <1>7, FaultTimely

(* A connection that was not working when the nonce was under way is       *)
(* excused already; a working one breaks by a fault.                       *)
LEMMA ReconnectsTimely ==
    ASSUME IInv, TimelyInv, NEW fails \in BOOLEAN, Reconnects(fails),
           board \in {"publish", "drain"}, ~fails => ~linked,
           UNCHANGED <<uplink, pending, outcome>>
    PROVE  TimelyInv'
<1>1. inbox' = << >> /\ board' = "sleep" /\ (Fault \/ (NoFault /\ ~fails))
  BY Zenon DEF Reconnects
<1>2. /\ DecisionFollows' /\ Cardinality(Decisions(inbox')) \in Nat
      /\ Cardinality(Decisions(inbox')) <= Cardinality(Decisions(inbox))
  BY <1>1, NothingCounted
<1>3. Len(uplink) \in Nat
  BY Ranges
<1>4. CASE Fault
  BY <1>2, <1>3, <1>4, FaultTimely
<1>5. CASE NoFault /\ ~fails
  <2>1. NonceKept'
    BY <1>5, Zenon DEF TimelyInv, NonceKept, NoFault
  <2>2. NoneFailed'
    BY DEF TimelyInv, NoneFailed
  <2>3. Backlog'
    <3>1. /\ slips \in Nat /\ faults \in Nat /\ slips' = slips /\ faults' = faults
          /\ Cardinality(Decisions(inbox)) \in Nat
      BY <1>5, Ranges DEF NoFault
    <3>2. Cardinality(Decisions(inbox')) = 0
      BY <1>1, DecisionsEmpty
    <3>3. Len(uplink) <= slips + faults + 1
      BY <1>3, <3>1 DEF TimelyInv, Backlog
    <3> QED BY <1>1, <1>3, <3>1, <3>2, <3>3 DEF Backlog
  <2> QED BY <1>2, <2>1, <2>2, <2>3 DEF TimelyInv
<1> QED BY <1>1, <1>4, <1>5, Zenon

LEMMA PublishFailsTimely == ASSUME IInv, TimelyInv, PublishFails PROVE TimelyInv'
<1>1. linked \in BOOLEAN
  BY DEF IInv, TypeOK
<1>2. /\ Reconnects(linked) /\ board = "publish"
      /\ UNCHANGED <<uplink, pending, outcome>>
  BY DEF PublishFails, gateway
<1> QED BY <1>1, <1>2, ReconnectsTimely

LEMMA DrainFailsTimely == ASSUME IInv, TimelyInv, DrainFails PROVE TimelyInv'
<1>1. /\ Reconnects(TRUE) /\ board = "drain" /\ UNCHANGED <<uplink, pending, outcome>>
  BY DEF DrainFails, gateway
<1> QED BY <1>1, ReconnectsTimely
(***************************************************************************)
(* The board goes on: the nonce moves from the inbox to the board to the   *)
(* uplink, and everything that takes longer is a slip.                     *)
(***************************************************************************)
LEMMA BootTimely ==
    ASSUME IInv, TimelyInv, Start \/ WriteBoot
    PROVE  TimelyInv'
<1>1. /\ <<board, board'>> \in {"off", "boots"} \X {"boots", "publish"}
      /\ UNCHANGED <<uplink, inbox, pending, outcome, slips, faults, excused>>
  BY DEF Start, WriteBoot, gateway, budget
<1>2. Backlog'
  BY <1>1, BacklogBoard DEF TimelyInv
<1>3. NonceKept'
  <2>1. board \notin {"publish", "drain", "sleep"}
    BY <1>1
  <2> QED BY <1>1, <2>1, Zenon DEF TimelyInv, NonceKept
<1>4. DecisionFollows' /\ NoneFailed'
  BY <1>1 DEF TimelyInv, DecisionFollows, NoneFailed
<1> QED BY <1>2, <1>3, <1>4 DEF TimelyInv

LEMMA SensorFailsTimely == ASSUME IInv, TimelyInv, SensorFails PROVE TimelyInv'
<1>1. /\ board = "publish" /\ board' = "sleep" /\ slips' = slips + 1
      /\ UNCHANGED <<linked, nonce, boot, uplink, inbox, newest, pending, age, outcome,
                     faults, excused>>
  BY DEF SensorFails, Slip, gateway
<1>2. Backlog'
  BY <1>1, BacklogSlip DEF TimelyInv
<1>3. DecisionFollows' /\ NoneFailed'
  BY <1>1 DEF TimelyInv, DecisionFollows, NoneFailed
<1>4. NonceKept'
  <2> SUFFICES ASSUME pending # None, ~excused
               PROVE  linked /\ (InInbox' \/ AtBoard' \/ InUplink' \/ Unheard')
    BY <1>1 DEF NonceKept
  <2>1. linked /\ (InInbox \/ AtBoard \/ InUplink \/ Unheard)
    BY Zenon DEF TimelyInv, NonceKept
  <2>2. slips \in Nat /\ age \in Nat
    BY Ranges
  <2>3. CASE InInbox
    <3>1. age <= slips + (IF board = "sleep" THEN 0 ELSE 1)
      BY <2>3, Zenon DEF InInbox
    <3>2. age' <= slips' + (IF board' = "sleep" THEN 0 ELSE 1)
      BY <1>1, <2>2, <3>1
    <3>3. InInbox'
      BY <1>1, <2>3, <3>2, Zenon DEF InInbox, NoEcho
    <3> QED BY <2>1, <3>3, Zenon
  <2>4. CASE AtBoard
    <3>1. age <= slips + (IF board = "sleep" THEN 1 ELSE 2)
      BY <2>4, Zenon DEF AtBoard
    <3>2. board' # "drain" /\ age' <= slips' + (IF board' = "sleep" THEN 1 ELSE 2)
      BY <1>1, <2>2, <3>1
    <3>3. AtBoard'
      BY <1>1, <2>4, <3>2, Zenon DEF AtBoard, NoEcho, OnlyDecisions
    <3> QED BY <2>1, <3>3, Zenon
  <2>5. CASE InUplink
    <3>1. age <= slips + 2
      BY <2>5, Zenon DEF InUplink
    <3>2. age' <= slips' + 2
      BY <1>1, <2>2, <3>1
    <3>3. InUplink'
      BY <1>1, <2>5, <3>2, Zenon DEF InUplink, OnlyDecisions
    <3> QED BY <2>1, <3>3, Zenon
  <2>6. CASE Unheard
    <3>1. Unheard'
      BY <1>1, <2>6, Zenon DEF Unheard, OnlyDecisions
    <3> QED BY <2>1, <3>1, Zenon
  <2> QED BY <2>1, <2>3, <2>4, <2>5, <2>6, Zenon
<1> QED BY <1>2, <1>3, <1>4 DEF TimelyInv

LEMMA PublishTimely == ASSUME IInv, TimelyInv, Publish PROVE TimelyInv'
<1> DEFINE m == Telemetry(boot, nonce)
           n == Len(uplink) + 1
<1>1. /\ board = "publish" /\ linked /\ board' = "drain" /\ uplink' = Append(uplink, m)
      /\ nonce' = None
      /\ UNCHANGED <<linked, boot, inbox, newest, pending, age, outcome, slips, faults, excused>>
  BY DEF Publish, gateway, budget
<1>2. uplink \in Seq(Messages) /\ Len(uplink) \in Nat
  BY Ranges
<1>3. m.boot = boot /\ m.echo = nonce
  BY DEF Telemetry
<1> HIDE DEF m
<1>4. /\ Len(uplink') = Len(uplink) + 1 /\ DOMAIN uplink' = DOMAIN uplink \cup {n}
      /\ n \notin DOMAIN uplink /\ uplink'[n] = m
      /\ \A i \in DOMAIN uplink : uplink'[i] = uplink[i] /\ i \in Int /\ n >= i
  BY <1>1, <1>2
<1>5. Backlog'
  BY <1>1, <1>4, BacklogPublish DEF TimelyInv
<1>6. DecisionFollows' /\ NoneFailed'
  BY <1>1 DEF TimelyInv, DecisionFollows, NoneFailed
<1>7. n \in Int /\ n >= n
  BY <1>2
<1> HIDE DEF n
<1>8. NonceKept'
  <2> SUFFICES ASSUME pending # None, ~excused
               PROVE  InInbox' \/ AtBoard' \/ InUplink' \/ Unheard'
    BY <1>1 DEF NonceKept
  <2>1. InInbox \/ AtBoard \/ InUplink \/ Unheard
    BY Zenon DEF TimelyInv, NonceKept
  <2>2. slips \in Nat /\ age \in Nat
    BY Ranges
  <2>3. CASE InInbox
    <3>1. NoEcho'
      BY <1>3, <1>4, <2>3, Zenon DEF InInbox, NoEcho
    <3>2. InInbox'
      BY <1>1, <2>2, <2>3, <3>1 DEF InInbox
    <3> QED BY <3>2
  <2>4. CASE AtBoard
    <3>1. age' <= slips' + 2
      BY <1>1, <2>4 DEF AtBoard
    <3>2. \A i \in DOMAIN uplink' : i # n => uplink'[i].echo = None
      BY <1>4, <2>4, Zenon DEF AtBoard, NoEcho
    <3>3. \A i \in DOMAIN uplink' : i >= n => uplink'[i].boot = boot'
      <4>1. \A i \in DOMAIN uplink : ~(i >= n)
        BY <1>4, <1>7
      <4> QED BY <1>1, <1>3, <1>4, <4>1, Zenon
    <3>4. n \in DOMAIN uplink' /\ uplink'[n].echo = pending'
      BY <1>1, <1>3, <1>4, <2>4, Zenon DEF AtBoard
    <3>5. OnlyDecisions'
      BY <1>1, <2>4 DEF AtBoard, OnlyDecisions
    <3>6. InUplink'
      BY <1>1, <3>1, <3>2, <3>3, <3>4, <3>5, Zenon DEF InUplink
    <3> QED BY <3>6
  <2>5. CASE InUplink
    <3>1. age' <= slips' + 2 /\ OnlyDecisions' /\ nonce = None
      BY <1>1, <2>5 DEF InUplink, OnlyDecisions
    <3>2. PICK k \in DOMAIN uplink :
             /\ uplink[k].echo = pending
             /\ \A i \in DOMAIN uplink : i # k => uplink[i].echo = None
             /\ \A i \in DOMAIN uplink : i >= k => uplink[i].boot = boot
      BY <2>5, Zenon DEF InUplink
    <3>3. k \in DOMAIN uplink' /\ uplink'[k].echo = pending'
      BY <1>1, <1>4, <3>2, Zenon
    <3>4. \A i \in DOMAIN uplink' : i # k => uplink'[i].echo = None
      BY <1>3, <1>4, <3>1, <3>2, Zenon
    <3>5. \A i \in DOMAIN uplink' : i >= k => uplink'[i].boot = boot'
      BY <1>1, <1>3, <1>4, <3>2, Zenon
    <3>6. InUplink'
      BY <1>1, <3>1, <3>3, <3>4, <3>5, Zenon DEF InUplink
    <3> QED BY <3>6
  <2>6. CASE Unheard
    <3>1. OnlyDecisions' /\ boot' < newest'
      BY <1>1, <2>6 DEF Unheard, OnlyDecisions
    <3>2. \A i \in DOMAIN uplink' : uplink'[i].boot < newest'
      BY <1>1, <1>3, <1>4, <2>6, Zenon DEF Unheard
    <3> QED BY <1>1, <3>1, <3>2, Zenon DEF Unheard
  <2> QED BY <2>1, <2>3, <2>4, <2>5, <2>6, Zenon
<1> QED BY <1>5, <1>6, <1>8 DEF TimelyInv

LEMMA DrainTimely == ASSUME IInv, TimelyInv, Drain PROVE TimelyInv'
<1> DEFINE n == IF Len(inbox) < Drained THEN Len(inbox) ELSE Drained
<1>1. /\ board = "drain" /\ board' = "sleep" /\ nonce' = Received(n) /\ inbox' = Taken(n)
      /\ UNCHANGED <<linked, boot, uplink, newest, pending, age, outcome, slips, faults, excused>>
  BY DEF Drain, gateway, budget
<1>2. Len(inbox) \in Nat
  BY Ranges
<1>3. /\ n \in 0 .. Len(inbox) /\ (n < Len(inbox) => n >= 2)
      /\ \A p \in 1 .. Len(inbox) : p <= Drained => p \in 1 .. n
  BY <1>2, Reach
<1> HIDE DEF n
<1>4. /\ DecisionFollows' /\ Cardinality(Decisions(inbox')) \in Nat
      /\ \/ Cardinality(Decisions(inbox')) = 0
         \/ Cardinality(Decisions(inbox')) < Cardinality(Decisions(inbox))
  BY <1>1, <1>3, DrainTakes DEF TimelyInv
<1>5. Backlog'
  BY <1>1, <1>4, BacklogDrained DEF TimelyInv
<1>6. NoneFailed'
  BY <1>1 DEF TimelyInv, NoneFailed
<1>7. /\ OnlyDecisions => nonce' = nonce /\ OnlyDecisions'
      /\ \A p \in DOMAIN inbox :
            /\ p <= Drained /\ inbox[p] \in Nonces
            /\ \A i \in DOMAIN inbox : i # p => inbox[i] \notin Nonces
            => nonce' = inbox[p] /\ OnlyDecisions'
  BY <1>1, <1>3, DrainHears
<1>8. NonceKept'
  <2> SUFFICES ASSUME pending # None, ~excused
               PROVE  linked /\ (InInbox' \/ AtBoard' \/ InUplink' \/ Unheard')
    BY <1>1 DEF NonceKept
  <2>1. linked /\ (InInbox \/ AtBoard \/ InUplink \/ Unheard)
    BY Zenon DEF TimelyInv, NonceKept
  <2>2. slips \in Nat /\ age \in Nat /\ pending \in Nonces
    BY Ranges
  <2>3. CASE InInbox
    <3>1. nonce' = pending /\ OnlyDecisions'
      BY <1>7, <2>2, <2>3, Zenon DEF InInbox
    <3>2. NoEcho' /\ age' <= slips' + 1
      BY <1>1, <2>2, <2>3 DEF InInbox, NoEcho
    <3>3. AtBoard'
      BY <1>1, <3>1, <3>2 DEF AtBoard
    <3> QED BY <2>1, <3>3
  <2>4. CASE AtBoard
    BY <1>1, <2>4 DEF AtBoard
  <2>5. CASE InUplink
    <3>1. nonce' = None /\ OnlyDecisions'
      BY <1>7, <2>5, Zenon DEF InUplink
    <3>2. InUplink'
      BY <1>1, <2>5, <3>1, Zenon DEF InUplink
    <3> QED BY <2>1, <3>2
  <2>6. CASE Unheard
    <3>1. nonce' = None /\ OnlyDecisions'
      BY <1>7, <2>6, Zenon DEF Unheard
    <3>2. Unheard'
      BY <1>1, <2>6, <3>1, Zenon DEF Unheard
    <3> QED BY <2>1, <3>2
  <2> QED BY <2>1, <2>3, <2>4, <2>5, <2>6, Zenon
<1> QED BY <1>4, <1>5, <1>6, <1>8 DEF TimelyInv

LEMMA Later ==
    ASSUME NEW a \in Nat, NEW b \in Nat, NEW s \in Nat, NEW t \in Nat, b <= a + 1, t >= s
    PROVE  (a <= s + 0 => b <= t + 1) /\ (a <= s + 1 => b <= t + 2)
OBVIOUS

LEMMA TickTimely == ASSUME IInv, TimelyInv, Tick PROVE TimelyInv'
<1>1. /\ board \in {"sleep", "off"} /\ board' = (IF board = "sleep" THEN "publish" ELSE board)
      /\ age' = (IF pending = None THEN 0 ELSE Capped(age, Timeout + 1))
      /\ UNCHANGED <<linked, nonce, boot, uplink, inbox, newest, pending, outcome>>
  BY DEF Tick
<1>2. slips \in Nat /\ age \in Nat
  BY Ranges
<1>3. /\ faults' = faults /\ excused' = excused
      /\ slips' = slips \/ slips' = slips + 1
      /\ uplink # << >> => slips' = slips + 1
  BY DEF Tick, NoFault, Slip
<1>4. slips' \in Nat /\ slips' >= slips /\ (uplink # << >> => slips' = slips + 1)
  BY <1>2, <1>3
<1>5. Backlog'
  BY <1>1, <1>3, <1>4, BacklogTick DEF TimelyInv
<1>6. DecisionFollows' /\ NoneFailed'
  BY <1>1 DEF TimelyInv, DecisionFollows, NoneFailed
<1>7. NonceKept'
  <2> SUFFICES ASSUME pending # None, ~excused, board = "sleep"
               PROVE  linked /\ (InInbox' \/ AtBoard' \/ InUplink' \/ Unheard')
    BY <1>1, <1>3, Zenon DEF TimelyInv, NonceKept
  <2>1. linked /\ (InInbox \/ AtBoard \/ InUplink \/ Unheard)
    BY Zenon DEF TimelyInv, NonceKept
  <2>2. age' \in Nat /\ age' <= age + 1
    BY <1>1, <1>2 DEF Capped
  <2>3. slips' \in Nat /\ slips' >= slips
    BY <1>4, Zenon
  <2>4. CASE InInbox
    <3>1. age <= slips + (IF board = "sleep" THEN 0 ELSE 1)
      BY <2>4, Zenon DEF InInbox
    <3>2. (IF board = "sleep" THEN 0 ELSE 1) = 0
      OBVIOUS
    <3>3. age' <= slips' + 1
      BY <1>2, <2>2, <2>3, <3>1, <3>2, Later, Zenon
    <3>4. InInbox'
      BY <1>1, <2>4, <3>3 DEF InInbox, NoEcho
    <3> QED BY <2>1, <3>4
  <2>5. CASE AtBoard
    <3>1. age <= slips + (IF board = "sleep" THEN 1 ELSE 2)
      BY <2>5, Zenon DEF AtBoard
    <3>2. (IF board = "sleep" THEN 1 ELSE 2) = 1
      OBVIOUS
    <3>3. age' <= slips' + 2
      BY <1>2, <2>2, <2>3, <3>1, <3>2, Later, Zenon
    <3>4. AtBoard'
      BY <1>1, <2>5, <3>3 DEF AtBoard, NoEcho, OnlyDecisions
    <3> QED BY <2>1, <3>4
  <2>6. CASE InUplink
    <3>1. uplink # << >>
      BY <2>6 DEF InUplink
    <3>2. age' <= slips' + 2
      BY <1>2, <1>4, <2>2, <2>6, <3>1 DEF InUplink
    <3>3. InUplink'
      BY <1>1, <2>6, <3>2, Zenon DEF InUplink, OnlyDecisions
    <3> QED BY <2>1, <3>3
  <2>7. CASE Unheard
    <3>1. Unheard'
      BY <1>1, <2>7, Zenon DEF Unheard, OnlyDecisions
    <3> QED BY <2>1, <3>1
  <2> QED BY <2>1, <2>4, <2>5, <2>6, <2>7, Zenon
<1> QED BY <1>5, <1>6, <1>7 DEF TimelyInv
(***************************************************************************)
(* The gateway takes the oldest message.                                   *)
(***************************************************************************)
LEMMA OthersShift ==
    ASSUME IInv, uplink # << >>, uplink' = Tail(uplink)
    PROVE  /\ Len(uplink') = Len(uplink) - 1
           /\ 1 \in DOMAIN uplink /\ Head(uplink) = uplink[1]
           /\ \A i \in DOMAIN uplink' :
                 i + 1 \in DOMAIN uplink /\ uplink'[i] = uplink[i + 1] /\ i \in Int
           /\ \A k \in DOMAIN uplink : k # 1 =>
                 /\ k - 1 \in DOMAIN uplink' /\ uplink'[k - 1] = uplink[k]
                 /\ \A i \in DOMAIN uplink' : /\ i # k - 1 => i + 1 # k
                                              /\ i >= k - 1 => i + 1 >= k
<1>1. uplink \in Seq(Messages)
  BY Ranges
<1>2. /\ Len(uplink) \in Nat /\ DOMAIN uplink = 1 .. Len(uplink) /\ Len(uplink) >= 1
      /\ Len(uplink') = Len(uplink) - 1 /\ DOMAIN uplink' = 1 .. Len(uplink) - 1
      /\ \A i \in 1 .. Len(uplink) - 1 : uplink'[i] = uplink[i + 1]
      /\ Head(uplink) = uplink[1]
  BY <1>1
<1>3. \A k \in 1 .. Len(uplink) : k # 1 =>
         /\ k - 1 \in 1 .. Len(uplink) - 1 /\ (k - 1) + 1 = k
         /\ \A i \in 1 .. Len(uplink) - 1 : /\ i # k - 1 => i + 1 # k
                                            /\ i >= k - 1 => i + 1 >= k
  BY <1>2
<1>4. \A k \in DOMAIN uplink : k # 1 => uplink'[k - 1] = uplink[k]
  BY <1>2, <1>3
<1>5. \A i \in 1 .. Len(uplink) - 1 : i + 1 \in 1 .. Len(uplink) /\ i \in Int
  BY <1>2
<1>6. 1 \in DOMAIN uplink
  BY <1>2
<1> QED BY <1>2, <1>3, <1>4, <1>5, <1>6, Zenon

(* Wherever the nonce is but in the message that is taken, it stays.       *)
LEMMA ShiftEchoes ==
    ASSUME IInv, uplink # << >>, uplink' = Tail(uplink), NoEcho
    PROVE  NoEcho'
<1>1. \A i \in DOMAIN uplink' : i + 1 \in DOMAIN uplink /\ uplink'[i] = uplink[i + 1]
  BY OthersShift, Zenon
<1>2. \A i \in DOMAIN uplink' : uplink'[i].echo = uplink[i + 1].echo
  BY <1>1
<1> QED BY <1>1, <1>2, Zenon DEF NoEcho

LEMMA OtherStays ==
    ASSUME IInv, uplink # << >>, uplink' = Tail(uplink),
           UNCHANGED <<nonce, pending, boot, age, slips>>,
           InUplink, OnlyDecisions', Head(uplink).echo # pending
    PROVE  InUplink'
<1>1. /\ 1 \in DOMAIN uplink /\ Head(uplink) = uplink[1]
      /\ \A i \in DOMAIN uplink' : i + 1 \in DOMAIN uplink /\ uplink'[i] = uplink[i + 1]
      /\ \A k \in DOMAIN uplink : k # 1 =>
            /\ k - 1 \in DOMAIN uplink' /\ uplink'[k - 1] = uplink[k]
            /\ \A i \in DOMAIN uplink' : /\ i # k - 1 => i + 1 # k
                                         /\ i >= k - 1 => i + 1 >= k
  BY OthersShift, Zenon
<1>2. \A i \in DOMAIN uplink' : /\ uplink'[i].echo = uplink[i + 1].echo
                                 /\ uplink'[i].boot = uplink[i + 1].boot
  BY <1>1
<1>3. PICK k \in DOMAIN uplink :
           /\ uplink[k].echo = pending
           /\ \A i \in DOMAIN uplink : i # k => uplink[i].echo = None
           /\ \A i \in DOMAIN uplink : i >= k => uplink[i].boot = boot
  BY Zenon DEF InUplink
<1>4. k # 1
  BY <1>1, <1>3, Zenon
<1>5. k - 1 \in DOMAIN uplink' /\ uplink'[k - 1].echo = pending'
  BY <1>1, <1>3, <1>4, Zenon
<1>6. \A i \in DOMAIN uplink' : i # k - 1 => uplink'[i].echo = None
  <2>1. \A i \in DOMAIN uplink' : i # k - 1 => i + 1 \in DOMAIN uplink /\ i + 1 # k
    BY <1>1, <1>4, Zenon
  <2>2. \A i \in DOMAIN uplink' : i # k - 1 => uplink[i + 1].echo = None
    BY <1>3, <2>1, Zenon
  <2> QED BY <1>2, <2>2
<1>7. \A i \in DOMAIN uplink' : i >= k - 1 => uplink'[i].boot = boot'
  <2>1. \A i \in DOMAIN uplink' : i >= k - 1 => i + 1 \in DOMAIN uplink /\ i + 1 >= k
    BY <1>1, <1>4, Zenon
  <2>2. \A i \in DOMAIN uplink' : i >= k - 1 => uplink[i + 1].boot = boot
    BY <1>3, <2>1, Zenon
  <2> QED BY <1>2, <2>2
<1>8. nonce' = None /\ age' <= slips' + 2
  BY Zenon DEF InUplink
<1> QED BY <1>5, <1>6, <1>7, <1>8, Zenon DEF InUplink

LEMMA RefuseTimely == ASSUME IInv, TimelyInv, Refuse PROVE TimelyInv'
<1>1. /\ uplink # << >> /\ Head(uplink).boot < newest
      /\ uplink' = Tail(uplink) /\ outcome' = "refused"
      /\ UNCHANGED <<board, linked, nonce, boot, inbox, newest, pending, age, faults, slips, excused>>
  BY DEF Refuse, device, budget
<1>2. /\ Len(uplink') = Len(uplink) - 1 /\ 1 \in DOMAIN uplink /\ Head(uplink) = uplink[1]
      /\ \A i \in DOMAIN uplink' : i + 1 \in DOMAIN uplink /\ uplink'[i] = uplink[i + 1]
  BY <1>1, OthersShift, Zenon
<1>3. Backlog'
  <2>1. /\ Cardinality(Decisions(inbox')) \in Nat
        /\ Cardinality(Decisions(inbox')) <= Cardinality(Decisions(inbox)) + 1
    BY <1>1, Ranges
  <2> QED BY <1>1, <1>2, <2>1, BacklogHandled DEF TimelyInv
<1>4. DecisionFollows' /\ NoneFailed'
  <2>1. "refused" \notin Fails
    BY DEF Fails
  <2> QED BY <1>1, <2>1 DEF TimelyInv, DecisionFollows, NoneFailed
<1>5. NonceKept'
  <2> SUFFICES ASSUME pending # None, ~excused
               PROVE  InInbox' \/ AtBoard' \/ InUplink' \/ Unheard'
    BY <1>1, Zenon DEF TimelyInv, NonceKept
  <2>1. InInbox \/ AtBoard \/ InUplink \/ Unheard
    BY Zenon DEF TimelyInv, NonceKept
  <2>2. CASE InInbox
    <3>1. NoEcho'
      BY <1>1, <2>2, ShiftEchoes, Zenon DEF InInbox
    <3> QED BY <1>1, <2>2, <3>1, Zenon DEF InInbox
  <2>3. CASE AtBoard
    <3>1. NoEcho'
      BY <1>1, <2>3, ShiftEchoes, Zenon DEF AtBoard
    <3> QED BY <1>1, <2>3, <3>1, Zenon DEF AtBoard, OnlyDecisions
  <2>4. CASE InUplink
    <3>1. OnlyDecisions'
      BY <1>1, <2>4, Zenon DEF InUplink, OnlyDecisions
    <3>2. CASE Head(uplink).echo # pending
      BY <1>1, <2>4, <3>1, <3>2, OtherStays, Zenon
    <3>3. CASE Head(uplink).echo = pending
      <4>1. PICK k \in DOMAIN uplink :
               /\ uplink[k].echo = pending
               /\ \A i \in DOMAIN uplink : i # k => uplink[i].echo = None
               /\ \A i \in DOMAIN uplink : i >= k => uplink[i].boot = boot
        BY <2>4, Zenon DEF InUplink
      <4>2. k = 1
        BY <1>2, <3>3, <4>1, Zenon
      <4>3. \A i \in DOMAIN uplink : i >= 1
        BY Ranges
      <4>4. \A i \in DOMAIN uplink : uplink[i].boot = boot
        BY <4>1, <4>2, <4>3, Zenon
      <4>5. boot < newest
        BY <1>1, <1>2, <4>4, Zenon
      <4>6. \A i \in DOMAIN uplink' : uplink'[i].boot < newest
        BY <1>2, <4>4, <4>5, Zenon
      <4> QED BY <1>1, <2>4, <3>1, <4>5, <4>6, Zenon DEF Unheard, InUplink
    <3> QED BY <3>2, <3>3, Zenon
  <2>5. CASE Unheard
    <3>1. \A i \in DOMAIN uplink' : uplink'[i].boot < newest
      BY <1>2, <2>5, Zenon DEF Unheard
    <3> QED BY <1>1, <2>5, <3>1, Zenon DEF Unheard, OnlyDecisions
  <2> QED BY <2>1, <2>2, <2>3, <2>4, <2>5, Zenon
<1> QED BY <1>3, <1>4, <1>5 DEF TimelyInv
(* A message that is handled while its challenge is not excused comes      *)
(* before the timeout, and echoes that challenge or nothing.               *)
LEMMA InReach ==
    ASSUME IInv, TimelyInv, pending # None, ~excused,
           uplink # << >>, Head(uplink).boot >= newest, NEW over \in BOOLEAN, Late(over)
    PROVE  /\ ~over /\ Head(uplink).echo \in {None, pending}
           /\ InInbox \/ AtBoard \/ InUplink
<1>1. InInbox \/ AtBoard \/ InUplink \/ Unheard
  BY Zenon DEF TimelyInv, NonceKept
<1>2. 1 \in DOMAIN uplink /\ Head(uplink) = uplink[1] /\ Head(uplink) \in Messages
  BY OldestFirst DEF IInv
<1>3. ~Unheard
  <2>1. Head(uplink).boot \in Nat /\ newest \in Nat
    BY <1>2, Ranges DEF Messages
  <2>2. ~(Head(uplink).boot < newest)
    BY <2>1
  <2> QED BY <1>2, <2>2, Zenon DEF Unheard
<1>4. age <= slips + 2
  <2>1. slips \in Nat /\ age \in Nat
    BY Ranges
  <2>2. CASE InInbox
    <3>1. age <= slips + (IF board = "sleep" THEN 0 ELSE 1)
      BY <2>2, Zenon DEF InInbox
    <3> QED BY <2>1, <3>1
  <2>3. CASE AtBoard
    <3>1. age <= slips + (IF board = "sleep" THEN 1 ELSE 2)
      BY <2>3, Zenon DEF AtBoard
    <3> QED BY <2>1, <3>1
  <2>4. CASE InUplink
    BY <2>4, Zenon DEF InUplink
  <2> QED BY <1>1, <1>3, <2>2, <2>3, <2>4, Zenon
<1>5. age < Timeout
  BY <1>4, Ranges, SlackAssumption
<1>6. ~over
  BY <1>5 DEF Late
<1>7. Head(uplink).echo \in {None, pending}
  <2>1. CASE InInbox \/ AtBoard
    BY <1>2, <2>1, Zenon DEF InInbox, AtBoard, NoEcho
  <2>2. CASE InUplink
    <3>1. PICK k \in DOMAIN uplink :
             /\ uplink[k].echo = pending
             /\ \A i \in DOMAIN uplink : i # k => uplink[i].echo = None
      BY <2>2, Zenon DEF InUplink
    <3>2. uplink[1].echo = pending \/ uplink[1].echo = None
      BY <1>2, <3>1, Zenon
    <3> QED BY <1>2, <3>2, Zenon
  <2> QED BY <1>1, <1>3, <2>1, <2>2, Zenon
<1> QED BY <1>1, <1>3, <1>6, <1>7, Zenon

(* So its verdict is no failure; and is none at all only if it echoes      *)
(* nothing.                                                                *)
LEMMA NoFailure ==
    ASSUME IInv, TimelyInv, pending # None, ~excused,
           uplink # << >>, Head(uplink).boot >= newest, NEW over \in BOOLEAN, Late(over)
    PROVE  /\ Verdict(Head(uplink).echo, over) \notin Fails
           /\ Verdict(Head(uplink).echo, over) = "NONE" => Head(uplink).echo # pending
<1>1. over = FALSE /\ Head(uplink).echo \in {None, pending}
  BY InReach, Zenon
<1> QED BY <1>1 DEF Verdict, Fails

LEMMA HandleTimely ==
    ASSUME IInv, TimelyInv, NEW over \in BOOLEAN, NEW flood \in BOOLEAN, Handle(over, flood)
    PROVE  TimelyInv'
<1> DEFINE m == Head(uplink)
           verdict == Verdict(m.echo, over)
           failed == IF verdict \in Fails THEN Capped(failures, 3) ELSE failures
           s == Trust(score, TickTenths * quiet, verdict, flood, failed)
           action == IF verdict \in Fails THEN "BLOCK" ELSE Greedy(q, s, Process)
           left == Settle(verdict)
           issues == action = "STEP_UP" /\ left = None
<1>1. /\ uplink # << >> /\ m.boot >= newest /\ Late(over)
      /\ uplink' = Tail(uplink) /\ outcome' = verdict
      /\ UNCHANGED <<device, slips, faults>>
  BY Zenon DEF Handle
<1>2. /\ issues => /\ Nonces \ InUse # {} /\ pending' = Fresh /\ age' = 0
                   /\ Send(<<Fresh, "decision">>) /\ excused' = (Stray \/ ~Listening)
      /\ ~issues => /\ pending' = left /\ Send(<<"decision">>)
                    /\ age' = (IF left = None THEN 0 ELSE age)
                    /\ excused' = (left # None /\ excused)
  BY Zenon DEF Handle
<1>3. /\ verdict \in Fails => ~issues /\ left = None
      /\ left # None => verdict = "NONE" /\ left = pending
  BY DEF Settle, Fails
<1>4. UNCHANGED <<board, linked, nonce, boot>>
  BY <1>1 DEF device
<1> HIDE DEF m, verdict, s, failed, action, left, issues
<1>5. issues => Fresh \in Nonces
  BY <1>2, FreshIsANonce, Zenon
<1>6. /\ DecisionFollows' /\ Cardinality(Decisions(inbox')) \in Nat
      /\ Cardinality(Decisions(inbox')) <= Cardinality(Decisions(inbox)) + 1
  <2>1. DecisionFollows
    BY DEF TimelyInv
  <2>2. CASE issues
    BY <1>2, <1>5, <2>1, <2>2, SendChallenge, Zenon
  <2>3. CASE ~issues
    BY <1>2, <2>1, <2>3, SendDecision, Zenon
  <2> QED BY <2>2, <2>3
<1>7. Backlog'
  <2>1. Len(uplink') = Len(uplink) - 1
    BY <1>1, TailShorter
  <2> QED BY <1>1, <1>4, <1>6, <2>1, BacklogHandled DEF TimelyInv
<1>8. NoneFailed'
  BY <1>1, <1>2, <1>3, Zenon DEF NoneFailed
<1>9. inbox \in Seq(Entries) /\ Len(inbox) \in Nat /\ DOMAIN inbox = 1 .. Len(inbox)
      /\ "decision" \notin Nonces
  BY Ranges
<1>10. ASSUME issues, ~excused'
       PROVE  NonceKept'
  <2>1. /\ ~Stray /\ Listening /\ pending' = Fresh /\ Fresh \in Nonces /\ age' = 0
        /\ Send(<<Fresh, "decision">>)
    BY <1>2, <1>5, <1>10, Zenon
  <2>2. linked /\ board \in {"publish", "drain", "sleep"} /\ inbox' = inbox \o <<Fresh, "decision">>
    BY <2>1 DEF Listening, Send, IInv, TypeOK
  <2>3. InUse \cap Nonces = {}
    BY <2>1, Zenon DEF Stray
  <2>4. nonce = None
    <3>1. nonce \notin Nonces
      BY <2>3 DEF InUse
    <3> QED BY <3>1, Ranges
  <2>5. NoEcho
    <3> SUFFICES ASSUME NEW i \in DOMAIN uplink PROVE uplink[i].echo = None
      BY DEF NoEcho
    <3>1. uplink[i].echo \notin Nonces
      BY <2>3 DEF InUse
    <3>2. uplink[i] \in Messages
      BY Ranges
    <3>3. uplink[i].echo \in Nonces \cup {None}
      BY <3>2 DEF Messages
    <3> QED BY <3>1, <3>3
  <2>6. NoEcho'
    BY <1>1, <2>5, ShiftEchoes, Zenon
  <2>7. \A i \in DOMAIN inbox : inbox[i] \notin Nonces
    BY <2>3 DEF InUse
  <2>8. Len(inbox) + 1 <= Drained
    <3>1. Cardinality(Decisions(inbox)) = Len(inbox)
      BY <1>9, <2>7, DecisionsFinite, Zenon
    <3>2. Len(uplink) \in Nat /\ Len(uplink) >= 1
      BY <1>1, Ranges
    <3>3. slips \in 0 .. MaxSlips /\ faults \in 0 .. MaxFaults
      BY Ranges
    <3>4. Len(uplink) + Len(inbox) <= slips + faults + 2
      BY <1>9, <3>1, <3>2, <3>3 DEF TimelyInv, Backlog
    <3>5. MaxSlips \in Nat /\ MaxFaults \in Nat /\ Drained \in Nat
          /\ MaxSlips + MaxFaults + 2 <= Drained
      BY TimesAssumption, BoundsAssumption, SlackAssumption
    <3> QED BY <1>9, <3>2, <3>3, <3>4, <3>5
  <2> DEFINE p == Len(inbox) + 1
  <2>9. p \in DOMAIN inbox' /\ inbox'[p] = Fresh
        /\ \A i \in DOMAIN inbox' : i # p => inbox'[i] \notin Nonces
    BY <1>9, <2>2, <2>7
  <2>10. age' <= slips' + (IF board' = "sleep" THEN 0 ELSE 1)
    BY <1>1, <2>1, Ranges
  <2> HIDE DEF p
  <2>11. InInbox'
    BY <1>4, <2>1, <2>4, <2>6, <2>8, <2>9, <2>10, Zenon DEF InInbox, p
  <2> QED BY <1>4, <2>2, <2>11, Zenon DEF NonceKept
<1>11. ASSUME ~issues, pending' # None, ~excused'
       PROVE  NonceKept'
  <2>1. /\ verdict = "NONE" /\ pending' = pending /\ pending # None /\ ~excused /\ age' = age
        /\ Send(<<"decision">>)
    BY <1>2, <1>3, <1>11, Zenon
  <2>2. linked /\ board \in {"publish", "drain", "sleep"}
    BY <2>1, Zenon DEF TimelyInv, NonceKept
  <2>3. inbox' = inbox \o <<"decision">>
    BY <2>1, <2>2 DEF Send
  <2>4. /\ DOMAIN inbox' = DOMAIN inbox \cup {Len(inbox) + 1}
        /\ \A i \in DOMAIN inbox : inbox'[i] = inbox[i]
        /\ inbox'[Len(inbox) + 1] = "decision"
    BY <1>9, <2>3
  <2>5. OnlyDecisions => OnlyDecisions'
    BY <1>9, <2>4, Zenon DEF OnlyDecisions
  <2>6. InInbox \/ AtBoard \/ InUplink
    BY <1>1, <2>1, InReach, Zenon DEF m
  <2>7. m.echo # pending
    BY <1>1, <2>1, NoFailure, Zenon DEF m, verdict
  <2>8. CASE InInbox
    <3>1. NoEcho'
      BY <1>1, <2>8, ShiftEchoes, Zenon DEF InInbox
    <3>2. PICK p \in DOMAIN inbox : /\ p <= Drained /\ inbox[p] = pending
                               /\ \A i \in DOMAIN inbox : i # p => inbox[i] \notin Nonces
      BY <2>8, Zenon DEF InInbox
    <3>3. /\ p \in DOMAIN inbox' /\ inbox'[p] = pending'
          /\ \A i \in DOMAIN inbox' : i # p => inbox'[i] \notin Nonces
      BY <1>9, <2>1, <2>4, <3>2, Zenon
    <3>4. InInbox'
      BY <1>1, <1>4, <2>1, <2>8, <3>1, <3>2, <3>3, Zenon DEF InInbox
    <3> QED BY <1>4, <2>2, <3>4, Zenon DEF NonceKept
  <2>9. CASE AtBoard
    <3>1. NoEcho' /\ OnlyDecisions'
      BY <1>1, <2>5, <2>9, ShiftEchoes, Zenon DEF AtBoard
    <3>2. AtBoard'
      BY <1>1, <1>4, <2>1, <2>9, <3>1, Zenon DEF AtBoard
    <3> QED BY <1>4, <2>2, <3>2, Zenon DEF NonceKept
  <2>10. CASE InUplink
    <3>1. OnlyDecisions'
      BY <2>5, <2>10, Zenon DEF InUplink
    <3>2. InUplink'
      BY <1>1, <1>4, <2>1, <2>7, <2>10, <3>1, OtherStays, Zenon DEF m
    <3> QED BY <1>4, <2>2, <3>2, Zenon DEF NonceKept
  <2> QED BY <2>6, <2>8, <2>9, <2>10, Zenon
<1>12. NonceKept'
  BY <1>10, <1>11, Zenon DEF NonceKept
<1> QED BY <1>6, <1>7, <1>8, <1>12 DEF TimelyInv
(***************************************************************************)
(* The inductive invariant of the challenges, and what it implies.         *)
(***************************************************************************)
LEMMA InitTimely == Init => TimelyInv
<1> SUFFICES ASSUME Init PROVE TimelyInv
  OBVIOUS
<1>1. DecisionFollows /\ NonceKept /\ NoneFailed
  BY DEF Init, DecisionFollows, NonceKept, NoneFailed
<1>2. Backlog
  <2>1. Len(uplink) = 0 /\ Cardinality(Decisions(inbox)) = 0
    BY DecisionsEmpty DEF Init
  <2> QED BY <2>1 DEF Init, Backlog
<1> QED BY <1>1, <1>2 DEF TimelyInv

LEMMA StutterTimely == ASSUME TimelyInv, UNCHANGED vars PROVE TimelyInv'
<1>1. UNCHANGED <<board, linked, nonce, boot, uplink, inbox, newest, pending, age, outcome,
                  faults, slips, excused>>
  BY DEF vars, device, gateway, budget
<1>2. DecisionFollows' /\ Backlog' /\ NoneFailed'
  BY <1>1 DEF TimelyInv, DecisionFollows, Backlog, NoneFailed
<1>3. NonceKept'
  <2>1. (InInbox => InInbox') /\ (AtBoard => AtBoard') /\ (InUplink => InUplink')
        /\ (Unheard => Unheard')
    BY <1>1 DEF InInbox, AtBoard, InUplink, Unheard, NoEcho, OnlyDecisions
  <2> QED BY <1>1, <2>1, Zenon DEF TimelyInv, NonceKept
<1> QED BY <1>2, <1>3 DEF TimelyInv

LEMMA NextTimely == IInv /\ TimelyInv /\ [Next]_vars => TimelyInv'
<1> SUFFICES ASSUME IInv, TimelyInv, [Next]_vars PROVE TimelyInv'
  OBVIOUS
<1>1. CASE Publish
  BY <1>1, PublishTimely
<1>2. CASE Drain
  BY <1>2, DrainTimely
<1>3. CASE Start \/ WriteBoot
  BY <1>3, BootTimely
<1>4. CASE PublishFails
  BY <1>4, PublishFailsTimely
<1>5. CASE DrainFails
  BY <1>5, DrainFailsTimely
<1>6. CASE SensorFails
  BY <1>6, SensorFailsTimely
<1>7. CASE PowerLoss
  BY <1>7, PowerLossTimely
<1>8. CASE Refuse
  BY <1>8, RefuseTimely
<1>9. CASE \E over, flood \in BOOLEAN : Handle(over, flood)
  BY <1>9, HandleTimely
<1>10. CASE Restart
  BY <1>10, RestartTimely
<1>11. CASE LoseUp
  BY <1>11, LoseUpTimely
<1>12. CASE LoseDown
  BY <1>12, LoseDownTimely
<1>13. CASE Tick
  BY <1>13, TickTimely
<1>14. CASE UNCHANGED vars
  BY <1>14, StutterTimely
<1> QED BY <1>1, <1>2, <1>3, <1>4, <1>5, <1>6, <1>7, <1>8, <1>9, <1>10, <1>11, <1>12,
           <1>13, <1>14, Zenon DEF Next, Board, HandleOne

LEMMA StepInTime ==
    ASSUME IInv, TimelyInv, [Next]_vars, outcome' \in Fails, pending # None
    PROVE  excused
<1>1. outcome \notin Fails /\ "refused" \notin Fails
  BY DEF TimelyInv, NoneFailed, Fails
<1>2. outcome' # outcome /\ outcome' # "refused"
  BY <1>1
<1>3. CASE \E over, flood \in BOOLEAN : Handle(over, flood)
  <2>1. PICK over \in BOOLEAN, flood \in BOOLEAN : Handle(over, flood)
    BY <1>3
  <2>2. /\ uplink # << >> /\ Head(uplink).boot >= newest /\ Late(over)
        /\ outcome' = Verdict(Head(uplink).echo, over)
    BY <2>1, Zenon DEF Handle
  <2> QED BY <2>2, NoFailure, Zenon
<1>4. CASE Refuse
  BY <1>2, <1>4 DEF Refuse
<1>5. CASE Board \/ PublishFails \/ DrainFails \/ SensorFails \/ PowerLoss
  BY <1>2, <1>5 DEF Board, Publish, Drain, Start, WriteBoot, PublishFails, DrainFails,
                    SensorFails, PowerLoss, gateway
<1>6. CASE Restart \/ LoseUp \/ LoseDown \/ Tick
  BY <1>2, <1>6 DEF Restart, LoseUp, LoseDown, Tick, gateway
<1>7. CASE UNCHANGED vars
  BY <1>2, <1>7 DEF vars, gateway
<1> QED BY <1>3, <1>4, <1>5, <1>6, <1>7, Zenon DEF Next, HandleOne

(* While nothing is lost of a challenge, its nonce is in one place on its  *)
(* way to the board and back, and no older there than the slips make it.   *)
THEOREM ChallengeFollowed == Spec => []TimelyInv
BY InitTimely, NextTimely, Invariance, PTL DEF Spec

(* Within the slack, a challenge that was issued when no older nonce was   *)
(* under way fails only after a loss: check_step_up_response never finds   *)
(* the answer of a board that lost nothing late or wrong.                  *)
THEOREM AnsweredInTime == Spec => InTime
<1>1. IInv /\ TimelyInv /\ [Next]_vars
        => [outcome' \in Fails /\ pending' = None /\ pending # None => excused]_vars
  BY StepInTime
<1> QED BY Invariance, ChallengeFollowed, <1>1, PTL DEF Spec, InTime
=============================================================================
