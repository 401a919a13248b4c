------------------------------ MODULE StepUpProofs ------------------------------
(***************************************************************************)
(* What StepUp promises for every timeout, run length and bound.  The key  *)
(* fact about nonces is that, as long as nobody but the gateway sends      *)
(* challenges, each is under way at most once (SentOnce) and never after   *)
(* it was answered (NoneAnswered): a wrong echo is then the echo of an     *)
(* earlier challenge that failed or was forgotten.                         *)
(***************************************************************************)
EXTENDS StepUp, TLAPS

Occurs(n, s) == \E i \in DOMAIN s : s[i] = n

Distinct(s) == \A i, j \in DOMAIN s : s[i] = s[j] /\ s[i] # None => i = j

UnderWay(n) == n = toEcho \/ Occurs(n, inbox) \/ Occurs(n, uplink)

Issued ==
    /\ \A n \in Nonce : outcome[n] = "unissued" <=> n > nonces
    /\ pending # None => pending = nonces

SentOnce ==
    /\ Distinct(inbox) /\ Distinct(uplink)
    /\ \A n \in Nonce : ~ (Occurs(n, inbox) /\ Occurs(n, uplink))
    /\ toEcho # None => ~ Occurs(toEcho, inbox) /\ ~ Occurs(toEcho, uplink)

NoneAnswered ==
    \A n \in Nonce : UnderWay(n) => n <= nonces /\ outcome[n] # "SUCCESS"

(* The counter never exceeds the blocks at the end of the decisions logged. *)
RunCounted ==
    /\ ~Armed => blocks = 0
    /\ blocks <= Len(recent)
    /\ \A i \in DOMAIN recent : i > Len(recent) - blocks => recent[i]

-----------------------------------------------------------------------------
(* Sequences of nonces. *)

(* What is appended is all that is added. *)
LEMMA OccursAppend ==
    ASSUME NEW S, NEW s \in Seq(S), NEW x \in S, NEW n
    PROVE  Occurs(n, Append(s, x)) <=> Occurs(n, s) \/ n = x
<1>1. /\ DOMAIN Append(s, x) = 1 .. Len(s) + 1 /\ DOMAIN s = 1 .. Len(s)
      /\ Len(s) \in Nat
      /\ \A i \in 1 .. Len(s) : Append(s, x)[i] = s[i]
      /\ Append(s, x)[Len(s) + 1] = x
    OBVIOUS
<1>2. ASSUME Occurs(n, Append(s, x)) PROVE Occurs(n, s) \/ n = x
    <2>1. PICK i \in 1 .. Len(s) + 1 : Append(s, x)[i] = n
        BY <1>1, <1>2 DEF Occurs
    <2> QED BY <2>1, <1>1 DEF Occurs
<1>3. ASSUME Occurs(n, s) PROVE Occurs(n, Append(s, x))
    <2>1. PICK i \in 1 .. Len(s) : s[i] = n
        BY <1>1, <1>3 DEF Occurs
    <2>2. i \in 1 .. Len(s) + 1 /\ Append(s, x)[i] = n
        BY <2>1, <1>1
    <2> QED BY <2>2, <1>1 DEF Occurs
<1>4. ASSUME n = x PROVE Occurs(n, Append(s, x))
    <2>1. Len(s) + 1 \in 1 .. Len(s) + 1
        BY <1>1
    <2> QED BY <2>1, <1>1, <1>4 DEF Occurs
<1> QED BY <1>2, <1>3, <1>4

(* What appending does to the type and to the length. *)
LEMMA AppendTyped ==
    ASSUME NEW S, NEW s \in Seq(S), NEW x \in S
    PROVE  /\ Append(s, x) \in Seq(S) /\ Len(s) \in Nat
           /\ Len(Append(s, x)) = Len(s) + 1 /\ Append(s, x) # << >>
           /\ \A i \in 1 .. Len(s) : Append(s, x)[i] = s[i]
           /\ Append(s, x)[Len(s) + 1] = x
    OBVIOUS

(* The elements of a sequence without its head. *)
LEMMA TailElements ==
    ASSUME NEW S, NEW s \in Seq(S), s # << >>
    PROVE  /\ Tail(s) \in Seq(S) /\ Head(s) \in S
           /\ Len(s) \in Nat \ {0} /\ DOMAIN s = 1 .. Len(s)
           /\ DOMAIN Tail(s) = 1 .. Len(s) - 1
           /\ \A i \in 1 .. Len(s) - 1 : Tail(s)[i] = s[i + 1]
           /\ Head(s) = s[1]
    OBVIOUS

(* A sequence holds its head and the elements of its tail. *)
LEMMA OccursTail ==
    ASSUME NEW S, NEW s \in Seq(S), s # << >>, NEW n
    PROVE  /\ Occurs(n, Tail(s)) => Occurs(n, s)
           /\ Occurs(Head(s), s)
<1>1. ASSUME Occurs(n, Tail(s)) PROVE Occurs(n, s)
    <2>1. PICK i \in 1 .. Len(s) - 1 : Tail(s)[i] = n
        BY <1>1, TailElements DEF Occurs
    <2>2. i + 1 \in 1 .. Len(s) /\ s[i + 1] = n
        BY <2>1, TailElements
    <2> QED BY <2>2, TailElements DEF Occurs
<1>2. 1 \in DOMAIN s /\ Head(s) = s[1]
    BY TailElements
<1> QED BY <1>1, <1>2 DEF Occurs

(* Nothing but None is in a sequence twice, and so not once its one        *)
(* occurrence is taken off.                                                *)
LEMMA DistinctTail ==
    ASSUME NEW S, NEW s \in Seq(S), s # << >>, Distinct(s)
    PROVE  /\ Distinct(Tail(s))
           /\ Head(s) # None => ~ Occurs(Head(s), Tail(s))
<1>1. ASSUME NEW i \in DOMAIN Tail(s), NEW j \in DOMAIN Tail(s),
             Tail(s)[i] = Tail(s)[j], Tail(s)[i] # None
      PROVE  i = j
    <2>1. /\ i \in 1 .. Len(s) - 1 /\ j \in 1 .. Len(s) - 1
          /\ i + 1 \in DOMAIN s /\ j + 1 \in DOMAIN s
          /\ s[i + 1] = s[j + 1] /\ s[i + 1] # None
        BY <1>1, TailElements
    <2>2. i + 1 = j + 1
        BY <2>1 DEF Distinct
    <2> QED BY <2>1, <2>2
<1>2. ASSUME Head(s) # None, NEW i \in DOMAIN Tail(s), Tail(s)[i] = Head(s)
      PROVE  FALSE
    <2>1. /\ i \in 1 .. Len(s) - 1 /\ i + 1 \in DOMAIN s /\ 1 \in DOMAIN s
          /\ s[i + 1] = s[1] /\ s[1] # None
        BY <1>2, TailElements
    <2>2. i + 1 = 1
        BY <2>1 DEF Distinct
    <2> QED BY <2>1, <2>2
<1> QED BY <1>1, <1>2 DEF Distinct, Occurs

(* Something new may be appended, and None always. *)
LEMMA DistinctAppend ==
    ASSUME NEW S, NEW s \in Seq(S), NEW x \in S, Distinct(s),
           x # None => ~ Occurs(x, s)
    PROVE  Distinct(Append(s, x))
<1>1. /\ DOMAIN Append(s, x) = 1 .. Len(s) + 1 /\ DOMAIN s = 1 .. Len(s)
      /\ Len(s) \in Nat
      /\ \A i \in 1 .. Len(s) : Append(s, x)[i] = s[i]
      /\ Append(s, x)[Len(s) + 1] = x
    OBVIOUS
<1>2. ASSUME NEW i \in 1 .. Len(s) + 1, NEW j \in 1 .. Len(s) + 1,
             Append(s, x)[i] = Append(s, x)[j], Append(s, x)[i] # None
      PROVE  i = j
    <2>1. CASE i \in 1 .. Len(s) /\ j \in 1 .. Len(s)
        <3>1. s[i] = s[j] /\ s[i] # None
            BY <2>1, <1>1, <1>2
        <3> QED BY <3>1, <2>1, <1>1 DEF Distinct
    <2>2. CASE i \in 1 .. Len(s) /\ j = Len(s) + 1
        <3>1. s[i] = x /\ x # None
            BY <2>2, <1>1, <1>2
        <3> QED BY <3>1, <2>2, <1>1 DEF Occurs
    <2>3. CASE j \in 1 .. Len(s) /\ i = Len(s) + 1
        <3>1. s[j] = x /\ x # None
            BY <2>3, <1>1, <1>2
        <3> QED BY <3>1, <2>3, <1>1 DEF Occurs
    <2> QED BY <2>1, <2>2, <2>3, <1>1
<1> QED BY <1>1, <1>2 DEF Distinct

-----------------------------------------------------------------------------
(* Types. *)

(* What verdict, policy and a new challenge do to the types.               *)
LEMMA SettleTyped ==
    ASSUME TypeOK, NEW verdict \in {"none", "SUCCESS", "TIMEOUT", "MISMATCH"},
           NEW policy, Settle(verdict, policy)
    PROVE  /\ pending' \in Nonce \cup {None}
           /\ age' \in 0 .. Timeout + 1
           /\ pending' = None => age' = 0
           /\ nonces' \in 0 .. MaxNonces
           /\ inbox' \in Seq(Nonce \cup {Foreign})
           /\ outcome' \in [Nonce -> {"unissued", "open", "SUCCESS", "TIMEOUT",
                                      "MISMATCH", "forgotten"}]
<1> USE ThresholdAssumption, BoundsAssumption
<1>1. outcome' \in [Nonce -> {"unissued", "open", "SUCCESS", "TIMEOUT",
                             "MISMATCH", "forgotten"}]
    BY DEF Settle, TypeOK, Clears
<1>2. CASE Initiates(verdict, policy)
    <2>1. /\ nonces < MaxNonces /\ nonces' = nonces + 1
          /\ pending' = nonces + 1 /\ age' = 0
          /\ inbox' = Append(inbox, nonces + 1)
        BY <1>2 DEF Settle
    <2>2. nonces + 1 \in Nonce /\ nonces + 1 \in 0 .. MaxNonces
        BY <2>1 DEF TypeOK, Nonce
    <2>3. Append(inbox, nonces + 1) \in Seq(Nonce \cup {Foreign})
        BY <2>2, AppendTyped DEF TypeOK
    <2>4. 0 \in 0 .. Timeout + 1 /\ nonces + 1 # None
        BY <2>2 DEF Nonce, None
    <2> QED BY <1>1, <2>1, <2>2, <2>3, <2>4
<1>3. CASE ~ Initiates(verdict, policy) /\ Clears(verdict)
    <2>1. nonces' = nonces /\ pending' = None /\ age' = 0 /\ inbox' = inbox
        BY <1>3 DEF Settle
    <2> QED BY <1>1, <2>1 DEF TypeOK
<1>4. CASE ~ Initiates(verdict, policy) /\ ~ Clears(verdict)
    <2>1. nonces' = nonces /\ pending' = pending /\ age' = age /\ inbox' = inbox
        BY <1>4 DEF Settle
    <2> QED BY <1>1, <2>1 DEF TypeOK
<1> QED BY <1>2, <1>3, <1>4

(* Of the decisions made, the last RunLength are remembered. *)
LEMMA RememberTyped ==
    ASSUME TypeOK, NEW decision, Remember(decision)
    PROVE  recent' \in Seq(BOOLEAN) /\ Len(recent') <= RunLength
<1> DEFINE blocked == decision = "BLOCK"
           all == Append(recent, blocked)
<1>1. /\ all \in Seq(BOOLEAN) /\ Len(all) = Len(recent) + 1
      /\ Len(recent) \in Nat /\ Len(recent) <= RunLength /\ all # << >>
    <2>1. blocked \in BOOLEAN
        OBVIOUS
    <2>2. recent \in Seq(BOOLEAN) /\ Len(recent) <= RunLength
        BY DEF TypeOK
    <2> HIDE DEF blocked
    <2> QED BY <2>1, <2>2, AppendTyped
<1>2. recent' = IF Len(all) <= RunLength THEN all ELSE Tail(all)
    BY DEF Remember
<1> HIDE DEF all
<1>3. Tail(all) \in Seq(BOOLEAN) /\ Len(Tail(all)) = Len(recent)
    BY <1>1
<1> QED BY <1>1, <1>2, <1>3

(* The run of blocks stays below the threshold. *)
LEMMA CountTyped ==
    ASSUME TypeOK, NEW decision, CountBlock(decision)
    PROVE  blocks' \in 0 .. RunLength - 1 /\ revoked' \in BOOLEAN
<1>1. blocks \in 0 .. RunLength - 1 /\ revoked \in BOOLEAN
    BY DEF TypeOK
<1>2. blocks' \in 0 .. RunLength - 1
    BY <1>1, ThresholdAssumption DEF CountBlock
<1>3. revoked' = revoked \/ revoked' = TRUE
    BY DEF CountBlock
<1> QED BY <1>1, <1>2, <1>3

(* Every verdict is one of the four. *)
LEMMA VerdictTyped ==
    ASSUME NEW echo
    PROVE  Verdict(echo) \in {"none", "SUCCESS", "TIMEOUT", "MISMATCH"}
BY DEF Verdict

LEMMA Typing == TypeOK /\ [Next]_vars => TypeOK'
<1> SUFFICES ASSUME TypeOK, [Next]_vars PROVE TypeOK'
    OBVIOUS
<1> USE ThresholdAssumption, BoundsAssumption
<1>1. CASE Publish
    <2>1. uplink' \in Seq(Nonce \cup {None, Foreign})
        BY <1>1 DEF Publish, TypeOK
    <2> QED BY <1>1, <2>1 DEF Publish, TypeOK, deviceVars, gatewayVars
<1>2. CASE Receive
    <2>1. toEcho' \in Nonce \cup {None, Foreign} /\ inbox' \in Seq(Nonce \cup {Foreign})
        BY <1>2, TailElements DEF Receive, TypeOK
    <2> QED BY <1>2, <2>1 DEF Receive, TypeOK, gatewayVars
<1>3. CASE Reconnect
    <2>1. inbox' \in Seq(Nonce \cup {Foreign}) /\ toEcho' \in Nonce \cup {None, Foreign}
        BY <1>3 DEF Reconnect, TypeOK
    <2> QED BY <1>3, <2>1 DEF Reconnect, TypeOK, gatewayVars
<1>4. CASE LoseMessage
    <2>1. uplink' \in Seq(Nonce \cup {None, Foreign})
        BY <1>4, TailElements DEF LoseMessage, TypeOK
    <2> QED BY <1>4, <2>1 DEF LoseMessage, TypeOK, deviceVars, gatewayVars
<1>5. CASE LoseChallenge
    <2>1. inbox' \in Seq(Nonce \cup {Foreign})
        BY <1>5, TailElements DEF LoseChallenge, TypeOK
    <2> QED BY <1>5, <2>1 DEF LoseChallenge, TypeOK, gatewayVars
<1>6. CASE Tick
    <2>1. age' \in 0 .. Timeout + 1 /\ pending' # None
        BY <1>6 DEF Tick, TypeOK
    <2> QED BY <1>6, <2>1 DEF Tick, TypeOK, deviceVars
<1>7. ASSUME NEW policy \in Action, Process(policy) PROVE TypeOK'
    <2> DEFINE v == Verdict(Head(uplink))
    <2>1. /\ Settle(v, policy) /\ Remember(Decision(v, policy))
          /\ CountBlock(Decision(v, policy))
          /\ uplink # << >> /\ uplink' = Tail(uplink)
          /\ toEcho' = toEcho /\ faults' = faults /\ strays' = strays
        BY <1>7 DEF Process
    <2>2. v \in {"none", "SUCCESS", "TIMEOUT", "MISMATCH"}
        BY VerdictTyped
    <2>3. uplink' \in Seq(Nonce \cup {None, Foreign})
        BY <2>1, TailElements DEF TypeOK
    <2> HIDE DEF v
    <2> QED BY <2>1, <2>2, <2>3, SettleTyped, RememberTyped, CountTyped DEF TypeOK
<1>8. ASSUME NEW policy \in Action, ProcessUnlogged(policy) PROVE TypeOK'
    <2> DEFINE v == Verdict(Head(uplink))
    <2>1. /\ Settle(v, policy) /\ recent' = recent
          /\ uplink # << >> /\ uplink' = Tail(uplink)
          /\ toEcho' = toEcho /\ faults' = faults + 1 /\ strays' = strays
          /\ blocks' = blocks /\ revoked' = revoked
        BY <1>8 DEF ProcessUnlogged
    <2>2. v \in {"none", "SUCCESS", "TIMEOUT", "MISMATCH"}
        BY VerdictTyped
    <2>3. uplink' \in Seq(Nonce \cup {None, Foreign})
        BY <2>1, TailElements DEF TypeOK
    <2>4. faults' \in Nat
        BY <2>1 DEF TypeOK
    <2> HIDE DEF v
    <2> QED BY <2>1, <2>2, <2>3, <2>4, SettleTyped DEF TypeOK
<1>9. CASE Refuse
    <2>1. uplink' \in Seq(Nonce \cup {None, Foreign})
        BY <1>9, TailElements DEF Refuse, TypeOK
    <2> QED BY <1>9, <2>1 DEF Refuse, TypeOK, deviceVars, gatewayVars
<1>10. CASE Revoke
    BY <1>10 DEF Revoke, TypeOK, deviceVars
<1>11. CASE Reinstate
    BY <1>11 DEF Reinstate, TypeOK, deviceVars
<1>12. CASE Restart
    <2>1. outcome' \in [Nonce -> {"unissued", "open", "SUCCESS", "TIMEOUT",
                                 "MISMATCH", "forgotten"}]
        BY <1>12 DEF Restart, TypeOK
    <2>2. 0 \in 0 .. Timeout + 1 /\ 0 \in 0 .. RunLength - 1
        OBVIOUS
    <2> QED BY <1>12, <2>1, <2>2 DEF Restart, TypeOK, deviceVars
<1>13. CASE UNCHANGED vars
    BY <1>13 DEF TypeOK, vars, deviceVars, gatewayVars
<1>14. CASE Stray
    <2>1. PICK n \in {pending, Foreign} \ {None} : inbox' = Append(inbox, n)
        BY <1>14 DEF Stray
    <2>2. n \in Nonce \cup {Foreign}
        BY DEF TypeOK
    <2>3. inbox' \in Seq(Nonce \cup {Foreign})
        BY <2>1, <2>2, AppendTyped DEF TypeOK
    <2>4. strays' \in Nat
        BY <1>14 DEF Stray, TypeOK
    <2> QED BY <1>14, <2>3, <2>4 DEF Stray, TypeOK, gatewayVars
<1> QED BY <1>1, <1>2, <1>3, <1>4, <1>5, <1>6, <1>7, <1>8, <1>9, <1>10, <1>11,
           <1>12, <1>13, <1>14 DEF Next

(* Every variable stays in its range (TypeOK), whatever the device, the    *)
(* network, the gateway and its operators do.                              *)
THEOREM TypeCorrect == Spec => []TypeOK
<1>1. Init => TypeOK
    <2> SUFFICES ASSUME Init PROVE TypeOK
        OBVIOUS
    <2>1. inbox \in Seq(Nonce \cup {Foreign}) /\ uplink \in Seq(Nonce \cup {None, Foreign})
        BY DEF Init
    <2>2. recent \in Seq(BOOLEAN) /\ Len(recent) <= RunLength
        BY ThresholdAssumption DEF Init
    <2>3. blocks \in 0 .. RunLength - 1 /\ age \in 0 .. Timeout + 1
          /\ nonces \in 0 .. MaxNonces /\ faults \in Nat /\ strays \in Nat
        BY ThresholdAssumption, BoundsAssumption DEF Init
    <2> QED BY <2>1, <2>2, <2>3 DEF Init, TypeOK
<1> QED BY <1>1, Typing, PTL DEF Spec

-----------------------------------------------------------------------------
(* One verdict per challenge. *)

Final ==
    \A n \in Nonce :
        outcome[n] \notin {"unissued", "open"} => outcome'[n] = outcome[n]

(* What becomes of a challenge when a message is processed: the pending one *)
(* may end, the next one may be opened, the others keep their verdicts.     *)
LEMMA SettleSteps ==
    ASSUME TypeOK, OpenIsPending, Issued, NEW echo, NEW policy,
           Settle(Verdict(echo), policy)
    PROVE  OpenIsPending' /\ Issued' /\ Final
<1> DEFINE v == Verdict(echo)
<1>1. v \in {"none", "SUCCESS", "TIMEOUT", "MISMATCH"}
    BY VerdictTyped
<1>2. /\ Clears(v) => pending # None
      /\ v # "none" <=> Clears(v)
    BY <1>1 DEF Verdict, Clears
<1>3. nonces \in Nat /\ nonces \in 0 .. MaxNonces
    BY BoundsAssumption DEF TypeOK
<1>4. \A n \in Nonce : outcome'[n] = IF n = pending /\ v # "none" THEN v
                                    ELSE IF n = nonces' /\ n # nonces THEN "open"
                                    ELSE outcome[n]
    BY DEF Settle
<1>5. Settle(v, policy)
    OBVIOUS
<1>6. \A n \in Nonce : n \in Nat /\ n # None
    BY DEF Nonce, None
<1> HIDE DEF v
<1>7. CASE Initiates(v, policy)
    <2>1. /\ nonces' = nonces + 1 /\ pending' = nonces + 1
          /\ pending = None \/ Clears(v)
        BY <1>5, <1>7 DEF Settle, Initiates
    <2>2. \A n \in Nonce : n = nonces + 1 => outcome[n] = "unissued" /\ n # pending
        BY <1>3, <1>6 DEF Issued
    <2>3. OpenIsPending'
        BY <1>1, <1>2, <1>3, <1>4, <1>6, <2>1, <2>2 DEF OpenIsPending
    <2>4. Issued'
        <3>1. ASSUME NEW n \in Nonce PROVE outcome'[n] = "unissued" <=> n > nonces'
            BY <1>1, <1>2, <1>3, <1>4, <1>6, <2>1, <2>2 DEF Issued
        <3> QED BY <3>1, <2>1 DEF Issued
    <2>5. Final
        BY <1>3, <1>4, <2>1, <2>2, <1>2 DEF Final, OpenIsPending
    <2> QED BY <2>3, <2>4, <2>5
<1>8. CASE ~ Initiates(v, policy)
    <2>1. nonces' = nonces /\ pending' = IF Clears(v) THEN None ELSE pending
        BY <1>5, <1>8 DEF Settle
    <2>2. \A n \in Nonce : outcome'[n] = IF n = pending /\ v # "none" THEN v
                                        ELSE outcome[n]
        BY <1>4, <2>1
    <2>3. OpenIsPending'
        BY <1>1, <1>2, <1>6, <2>1, <2>2 DEF OpenIsPending
    <2>4. Issued'
        <3>1. ASSUME NEW n \in Nonce PROVE outcome'[n] = "unissued" <=> n > nonces'
            BY <1>1, <1>2, <1>3, <1>6, <2>1, <2>2 DEF Issued
        <3> QED BY <3>1, <2>1 DEF Issued
    <2>5. Final
        BY <2>2 DEF Final, OpenIsPending
    <2> QED BY <2>3, <2>4, <2>5
<1> QED BY <1>7, <1>8

(* A restarted gateway has forgotten the pending challenge and no other. *)
LEMMA RestartSteps ==
    ASSUME TypeOK, OpenIsPending, Issued, Restart
    PROVE  OpenIsPending' /\ Issued' /\ Final
<1>1. /\ pending' = None /\ nonces' = nonces
      /\ \A n \in Nonce :
            outcome'[n] = IF n = pending THEN "forgotten" ELSE outcome[n]
    BY DEF Restart
<1>2. \A n \in Nonce : n # None
    BY DEF Nonce, None
<1>3. \A n \in Nonce : n = pending => outcome[n] = "open"
    BY DEF OpenIsPending
<1> QED BY <1>1, <1>2, <1>3 DEF OpenIsPending, Issued, Final

LEMMA ChallengeSteps ==
    TypeOK /\ OpenIsPending /\ Issued /\ [Next]_vars
        => OpenIsPending' /\ Issued' /\ Final
<1> SUFFICES ASSUME TypeOK, OpenIsPending, Issued, [Next]_vars
             PROVE  OpenIsPending' /\ Issued' /\ Final
    OBVIOUS
<1>1. ASSUME UNCHANGED <<pending, nonces, outcome>>
      PROVE  OpenIsPending' /\ Issued' /\ Final
    BY <1>1 DEF OpenIsPending, Issued, Final
<1>2. ASSUME NEW policy \in Action, Process(policy) \/ ProcessUnlogged(policy)
      PROVE  OpenIsPending' /\ Issued' /\ Final
    <2>1. Settle(Verdict(Head(uplink)), policy)
        BY <1>2 DEF Process, ProcessUnlogged
    <2> QED BY <2>1, SettleSteps
<1>3. CASE Restart
    BY <1>3, RestartSteps
<1>4. CASE \/ Publish \/ Receive \/ Reconnect \/ Stray \/ LoseMessage \/ LoseChallenge
           \/ Tick \/ Refuse \/ Revoke \/ Reinstate \/ UNCHANGED vars
    BY <1>1, <1>4 DEF Publish, Receive, Reconnect, Stray, LoseMessage, LoseChallenge, Tick,
                      Refuse, Revoke, Reinstate, vars, gatewayVars
<1> QED BY <1>2, <1>3, <1>4 DEF Next

LEMMA Challenges == Spec => [](TypeOK /\ OpenIsPending /\ Issued)
<1>1. Init => OpenIsPending /\ Issued
    <2> SUFFICES ASSUME Init PROVE OpenIsPending /\ Issued
        OBVIOUS
    <2>1. \A n \in Nonce : outcome[n] = "unissued" /\ n > nonces /\ n # pending
        BY DEF Init, Nonce, None
    <2> QED BY <2>1 DEF Init, OpenIsPending, Issued
<1> QED BY <1>1, TypeCorrect, ChallengeSteps, PTL DEF Spec

(* The one challenge without a verdict is the pending one (OpenIsPending): *)
(* none is issued while another is open, none is dropped unnoticed.        *)
THEOREM OneOpenChallenge == Spec => []OpenIsPending
BY Challenges, PTL

(* A challenge has one verdict, once (VerdictIsFinal). *)
THEOREM VerdictsAreFinal == Spec => VerdictIsFinal
<1>1. TypeOK /\ OpenIsPending /\ Issued /\ [Next]_vars
        => [\A n \in Nonce : outcome[n] \notin {"unissued", "open"}
                                => outcome'[n] = outcome[n]]_vars
    BY ChallengeSteps DEF Final
<1> QED BY <1>1, Challenges, PTL DEF Spec, VerdictIsFinal

-----------------------------------------------------------------------------
(* No mismatch without a cause. *)

(* Only this gateway's nonces are under way. *)
OwnOnly ==
    /\ toEcho \in Nonce \cup {None}
    /\ inbox \in Seq(Nonce) /\ uplink \in Seq(Nonce \cup {None})

EchoInv ==
    /\ TypeOK /\ OpenIsPending /\ Issued /\ MismatchHasCause
    /\ strays = 0 => OwnOnly /\ SentOnce /\ NoneAnswered

(* So far nobody else has sent a challenge. *)
Undisturbed == EchoInv /\ strays = 0

(* As long as no verdict changes, no nonce is under way that was not.      *)
LEMMA FewerUnderWay ==
    ASSUME NoneAnswered, UNCHANGED <<outcome, nonces>>,
           \A n \in Nonce : UnderWay(n)' => UnderWay(n)
    PROVE  NoneAnswered'
BY DEF NoneAnswered

(* The device takes the nonce off its inbox. *)
LEMMA ReceiveSteps ==
    ASSUME Undisturbed, Receive
    PROVE  OwnOnly' /\ SentOnce' /\ NoneAnswered'
<1>1. /\ inbox \in Seq(Nonce) /\ inbox # << >> /\ Distinct(inbox)
      /\ toEcho' = Head(inbox) /\ inbox' = Tail(inbox) /\ uplink' = uplink
      /\ outcome' = outcome /\ nonces' = nonces
    BY DEF Receive, Undisturbed, EchoInv, OwnOnly, SentOnce, gatewayVars
<1>2. Head(inbox) \in Nonce /\ Head(inbox) # None /\ Occurs(Head(inbox), inbox)
    <2>1. Head(inbox) \in Nonce
        BY <1>1, TailElements
    <2>2. Occurs(Head(inbox), inbox)
        BY <1>1, OccursTail
    <2>3. \A n \in Nonce : n # None
        BY DEF Nonce, None
    <2> QED BY <2>1, <2>2, <2>3
<1>3. Distinct(Tail(inbox)) /\ ~ Occurs(Head(inbox), Tail(inbox))
    BY <1>1, <1>2, DistinctTail
<1>4. \A n \in Nonce : Occurs(n, Tail(inbox)) => Occurs(n, inbox)
    BY <1>1, OccursTail
<1>5. SentOnce'
    BY <1>1, <1>2, <1>3, <1>4 DEF Undisturbed, EchoInv, SentOnce
<1>6. \A n \in Nonce : UnderWay(n)' => UnderWay(n)
    BY <1>1, <1>2, <1>4 DEF UnderWay
<1>7. OwnOnly'
    <2>1. Tail(inbox) \in Seq(Nonce)
        BY <1>1, TailElements
    <2> QED BY <2>1, <1>1, <1>2 DEF Undisturbed, EchoInv, OwnOnly
<1> QED BY <1>1, <1>5, <1>6, <1>7, FewerUnderWay DEF Undisturbed, EchoInv

(* The device echoes the nonce and keeps none. *)
LEMMA PublishSteps ==
    ASSUME Undisturbed, Publish
    PROVE  OwnOnly' /\ SentOnce' /\ NoneAnswered'
<1>1. /\ uplink \in Seq(Nonce \cup {None}) /\ toEcho \in Nonce \cup {None}
      /\ Distinct(uplink) /\ (toEcho # None => ~ Occurs(toEcho, uplink))
      /\ toEcho' = None /\ uplink' = Append(uplink, toEcho) /\ inbox' = inbox
      /\ outcome' = outcome /\ nonces' = nonces
    BY DEF Publish, Undisturbed, EchoInv, OwnOnly, SentOnce, gatewayVars
<1>2. Distinct(Append(uplink, toEcho))
    BY <1>1, DistinctAppend
<1>3. \A n \in Nonce : Occurs(n, Append(uplink, toEcho))
                          <=> Occurs(n, uplink) \/ n = toEcho
    BY <1>1, OccursAppend
<1>4. \A n \in Nonce : n # None
    BY DEF Nonce, None
<1>5. SentOnce'
    BY <1>1, <1>2, <1>3, <1>4 DEF Undisturbed, EchoInv, SentOnce
<1>6. \A n \in Nonce : UnderWay(n)' => UnderWay(n)
    BY <1>1, <1>3, <1>4 DEF UnderWay
<1>7. OwnOnly'
    <2>1. Append(uplink, toEcho) \in Seq(Nonce \cup {None})
        BY <1>1, AppendTyped
    <2> QED BY <2>1, <1>1 DEF Undisturbed, EchoInv, OwnOnly
<1> QED BY <1>1, <1>5, <1>6, <1>7, FewerUnderWay DEF Undisturbed, EchoInv

(* What is lost, or dropped at the gate, is under way no more. *)
LEMMA LossSteps ==
    ASSUME Undisturbed, LoseMessage \/ LoseChallenge \/ Refuse \/ Reconnect
    PROVE  OwnOnly' /\ SentOnce' /\ NoneAnswered'
<1>1. inbox \in Seq(Nonce) /\ uplink \in Seq(Nonce \cup {None})
    BY DEF Undisturbed, EchoInv, OwnOnly
<1>2. outcome' = outcome /\ nonces' = nonces
    BY DEF LoseMessage, LoseChallenge, Refuse, Reconnect, gatewayVars
<1>3. /\ inbox' = inbox \/ (inbox # << >> /\ inbox' = Tail(inbox)) \/ inbox' = << >>
      /\ uplink' = uplink \/ (uplink # << >> /\ uplink' = Tail(uplink))
      /\ toEcho' = toEcho \/ toEcho' = None
    BY DEF LoseMessage, LoseChallenge, Refuse, Reconnect, deviceVars
<1>4. \A n \in Nonce : Occurs(n, inbox') => Occurs(n, inbox)
    <2>1. CASE inbox' = << >>
        BY <2>1 DEF Occurs
    <2> QED BY <2>1, <1>1, <1>3, OccursTail
<1>5. \A n \in Nonce : Occurs(n, uplink') => Occurs(n, uplink)
    BY <1>1, <1>3, OccursTail
<1>6. Distinct(inbox')
    <2>1. CASE inbox' = << >>
        BY <2>1 DEF Distinct
    <2> QED BY <2>1, <1>1, <1>3, DistinctTail DEF Undisturbed, EchoInv, SentOnce
<1>7. Distinct(uplink')
    BY <1>1, <1>3, DistinctTail DEF Undisturbed, EchoInv, SentOnce
<1>8. \A n \in Nonce : n # None
    BY DEF Nonce, None
<1>9. toEcho \in Nonce \cup {None}
    BY DEF Undisturbed, EchoInv, OwnOnly
<1>10. SentOnce'
    BY <1>3, <1>4, <1>5, <1>6, <1>7, <1>9 DEF Undisturbed, EchoInv, SentOnce
<1>11. \A n \in Nonce : UnderWay(n)' => UnderWay(n)
    BY <1>3, <1>4, <1>5, <1>8 DEF UnderWay
<1>12. OwnOnly'
    <2>1. inbox' \in Seq(Nonce)
        <3>1. CASE inbox' = << >>
            BY <3>1
        <3>2. CASE inbox # << >> /\ inbox' = Tail(inbox)
            BY <1>1, <3>2, TailElements
        <3>3. CASE inbox' = inbox
            BY <1>1, <3>3
        <3> QED BY <1>3, <3>1, <3>2, <3>3
    <2>2. uplink' \in Seq(Nonce \cup {None})
        BY <1>1, <1>3, TailElements
    <2> QED BY <2>1, <2>2, <1>3, <1>9 DEF OwnOnly
<1> QED BY <1>2, <1>10, <1>11, <1>12, FewerUnderWay DEF Undisturbed, EchoInv

(* An answered nonce was the one just taken off the uplink, and was there  *)
(* only once; a new one is new.                                            *)
LEMMA ProcessSteps ==
    ASSUME Undisturbed, NEW policy, uplink # << >>, uplink' = Tail(uplink),
           toEcho' = toEcho, Settle(Verdict(Head(uplink)), policy)
    PROVE  OwnOnly' /\ SentOnce' /\ NoneAnswered'
<1> DEFINE e == Head(uplink)
           v == Verdict(e)
<1>1. /\ inbox \in Seq(Nonce) /\ uplink \in Seq(Nonce \cup {None})
      /\ toEcho \in Nonce \cup {None}
      /\ nonces \in Nat /\ nonces \in 0 .. MaxNonces
    BY DEF Undisturbed, EchoInv, OwnOnly, TypeOK
<1>2. \A n \in Nonce : n # None /\ n \in Nat
    BY DEF Nonce, None
<1>3. /\ Occurs(e, uplink) /\ Distinct(Tail(uplink))
      /\ e # None => ~ Occurs(e, Tail(uplink))
      /\ \A n \in Nonce : Occurs(n, Tail(uplink)) => Occurs(n, uplink)
    BY <1>1, OccursTail, DistinctTail DEF Undisturbed, EchoInv, SentOnce
<1>4. v = "SUCCESS" => e = pending /\ e # None
    BY DEF Verdict
<1>5. Settle(v, policy)
    OBVIOUS
<1>6. \/ nonces' = nonces /\ inbox' = inbox
      \/ /\ nonces' = nonces + 1 /\ nonces + 1 \in Nonce
         /\ inbox' = Append(inbox, nonces + 1)
    <2>1. CASE Initiates(v, policy)
        <3>1. /\ nonces < MaxNonces /\ nonces' = nonces + 1
              /\ inbox' = Append(inbox, nonces + 1)
            BY <1>5, <2>1 DEF Settle
        <3>2. nonces + 1 \in Nonce
            BY <3>1, <1>1, BoundsAssumption DEF Nonce
        <3> QED BY <3>1, <3>2
    <2>2. CASE ~ Initiates(v, policy)
        BY <1>5, <2>2 DEF Settle
    <2> QED BY <2>1, <2>2
<1>7. \A n \in Nonce : outcome'[n] = IF n = pending /\ v # "none" THEN v
                                    ELSE IF n = nonces' /\ n # nonces THEN "open"
                                    ELSE outcome[n]
    BY <1>5 DEF Settle
<1>8. /\ Distinct(inbox)
      /\ \A n \in Nonce : ~ (Occurs(n, inbox) /\ Occurs(n, uplink))
      /\ toEcho # None => ~ Occurs(toEcho, inbox) /\ ~ Occurs(toEcho, uplink)
    BY DEF Undisturbed, EchoInv, SentOnce
<1>9. \A n \in Nonce : UnderWay(n) => n <= nonces /\ outcome[n] # "SUCCESS"
    BY DEF Undisturbed, EchoInv, NoneAnswered
<1> HIDE DEF v
<1>10. \A n \in Nonce : Occurs(n, inbox') => Occurs(n, inbox) \/ (n = nonces' /\ n # nonces)
    <2>1. CASE nonces' = nonces /\ inbox' = inbox
        BY <2>1
    <2>2. CASE /\ nonces' = nonces + 1 /\ nonces + 1 \in Nonce
               /\ inbox' = Append(inbox, nonces + 1)
        <3>1. \A n \in Nonce : Occurs(n, Append(inbox, nonces + 1))
                                <=> Occurs(n, inbox) \/ n = nonces + 1
            BY <1>1, <2>2, OccursAppend
        <3>2. nonces' # nonces
            BY <1>1, <2>2
        <3> QED BY <2>2, <3>1, <3>2
    <2> QED BY <2>1, <2>2, <1>6
<1>11. Distinct(inbox')
    <2>1. CASE inbox' = inbox
        BY <2>1, <1>8
    <2>2. CASE nonces' = nonces + 1 /\ nonces + 1 \in Nonce
               /\ inbox' = Append(inbox, nonces + 1)
        <3>1. ~ Occurs(nonces + 1, inbox)
            BY <2>2, <1>1, <1>9 DEF UnderWay
        <3>2. Distinct(Append(inbox, nonces + 1))
            BY <2>2, <3>1, <1>1, <1>8, DistinctAppend
        <3> QED BY <2>2, <3>2
    <2> QED BY <2>1, <2>2, <1>6
<1>12. \A n \in Nonce : n = nonces' /\ n # nonces => ~ UnderWay(n)
    BY <1>1, <1>2, <1>6, <1>9
<1>13. SentOnce'
    BY <1>1, <1>3, <1>8, <1>10, <1>11, <1>12 DEF SentOnce, UnderWay
<1>14. ASSUME NEW n \in Nonce, UnderWay(n)' PROVE n <= nonces' /\ outcome'[n] # "SUCCESS"
    <2>1. UnderWay(n) \/ (n = nonces' /\ n # nonces)
        BY <1>3, <1>10, <1>14 DEF UnderWay
    <2>2. n <= nonces'
        BY <2>1, <1>1, <1>2, <1>6, <1>9
    <2>3. ASSUME n = pending, v = "SUCCESS" PROVE FALSE
        <3>1. n = e /\ UnderWay(n) /\ Occurs(n, uplink)
            BY <2>3, <1>3, <1>4 DEF UnderWay
        <3>2. ~ Occurs(n, inbox) /\ n # toEcho /\ ~ Occurs(n, Tail(uplink))
            BY <3>1, <1>2, <1>3, <1>8
        <3>3. ~ (n = nonces' /\ n # nonces)
            BY <3>1, <1>12
        <3> QED BY <3>2, <3>3, <1>10, <1>14 DEF UnderWay
    <2>4. outcome'[n] # "SUCCESS"
        BY <2>1, <2>3, <1>7, <1>9
    <2> QED BY <2>2, <2>4
<1>15. OwnOnly'
    <2>1. inbox' \in Seq(Nonce)
        <3>1. CASE inbox' = inbox
            BY <1>1, <3>1
        <3>2. CASE nonces + 1 \in Nonce /\ inbox' = Append(inbox, nonces + 1)
            BY <1>1, <3>2, AppendTyped
        <3> QED BY <1>6, <3>1, <3>2
    <2>2. uplink' \in Seq(Nonce \cup {None})
        BY <1>1, TailElements
    <2> QED BY <2>1, <2>2, <1>1 DEF OwnOnly
<1> QED BY <1>13, <1>14, <1>15 DEF NoneAnswered

(* As long as the gateway's challenges are the only ones, a wrong echo is  *)
(* the nonce of an earlier challenge, which was not answered and is not    *)
(* open: it timed out, was forgotten, or failed by a wrong echo itself,    *)
(* which then had a cause earlier still.                                   *)
LEMMA CauseSteps ==
    ASSUME EchoInv, [Next]_vars
    PROVE  MismatchHasCause'
<1>0. strays \in Nat /\ (strays' = strays \/ strays' = strays + 1)
    BY DEF EchoInv, TypeOK, Next, Publish, Receive, Reconnect, Stray, LoseMessage,
           LoseChallenge, Tick, Process, ProcessUnlogged, Refuse, Revoke, Reinstate,
           Restart, vars
<1> SUFFICES ASSUME strays' = 0 PROVE MismatchHasCause'
    <2>1. strays' \in Nat
        BY <1>0
    <2>2. strays' = 0 \/ strays' > 0
        BY <2>1
    <2>3. ASSUME strays' > 0 PROVE MismatchHasCause'
        BY <2>3 DEF MismatchHasCause
    <2> QED BY <2>2, <2>3
<1>9. strays = 0 /\ Undisturbed
    BY <1>0 DEF Undisturbed
<1>1. Final
    BY ChallengeSteps DEF EchoInv
<1>2. ASSUME NEW n \in Nonce, outcome[n] = "MISMATCH"
      PROVE  \E k \in 1 .. n - 1 : outcome'[k] \in {"TIMEOUT", "forgotten"}
    <2>1. PICK k \in 1 .. n - 1 : outcome[k] \in {"TIMEOUT", "forgotten"}
        BY <1>9, <1>2 DEF EchoInv, MismatchHasCause
    <2>2. k \in Nonce
        BY <2>1, BoundsAssumption DEF Nonce
    <2> QED BY <1>1, <2>1, <2>2 DEF Final
<1>3. ASSUME NEW policy \in Action, Process(policy) \/ ProcessUnlogged(policy),
             NEW n \in Nonce, outcome'[n] = "MISMATCH", outcome[n] # "MISMATCH"
      PROVE  \E k \in 1 .. n - 1 : outcome'[k] \in {"TIMEOUT", "forgotten"}
    <2> DEFINE e == Head(uplink)
               v == Verdict(e)
    <2>1. Settle(v, policy) /\ uplink # << >>
        BY <1>3 DEF Process, ProcessUnlogged
    <2>2. n = pending /\ v = "MISMATCH"
        BY <1>3, <2>1 DEF Settle
    <2>3. e # None /\ e # pending
        BY <2>2 DEF Verdict
    <2>4. e \in Nonce /\ Occurs(e, uplink)
        BY <1>9, <2>1, <2>3, TailElements, OccursTail DEF EchoInv, OwnOnly
    <2>5. e <= nonces /\ outcome[e] # "SUCCESS"
        BY <1>9, <2>4 DEF EchoInv, NoneAnswered, UnderWay
    <2>6. pending = nonces
        BY <2>2 DEF EchoInv, Issued, Nonce, None
    <2>7. e \in 1 .. n - 1
        <3>1. e \in Nat /\ e >= 1 /\ n \in Nat
            BY <2>4 DEF Nonce
        <3> QED BY <3>1, <2>2, <2>3, <2>5, <2>6
    <2>8. outcome[e] # "open"
        BY <2>3, <2>4 DEF EchoInv, OpenIsPending
    <2>9. outcome[e] # "unissued"
        <3>1. e \in Nat /\ nonces \in Nat
            BY <2>4 DEF EchoInv, TypeOK, Nonce
        <3> QED BY <3>1, <2>4, <2>5 DEF EchoInv, Issued
    <2>10. outcome[e] \in {"TIMEOUT", "MISMATCH", "forgotten"}
        BY <2>4, <2>5, <2>8, <2>9 DEF EchoInv, TypeOK
    <2>11. outcome'[e] = outcome[e]
        BY <1>1, <2>4, <2>8, <2>9 DEF Final
    <2>12. CASE outcome[e] # "MISMATCH"
        BY <2>7, <2>10, <2>11, <2>12
    <2>13. CASE outcome[e] = "MISMATCH"
        <3>1. PICK k \in 1 .. e - 1 : outcome'[k] \in {"TIMEOUT", "forgotten"}
            BY <1>2, <2>4, <2>13
        <3>2. k \in 1 .. n - 1
            <4>1. e \in Nat /\ n \in Nat /\ e <= n - 1
                BY <2>4, <2>7 DEF Nonce
            <4> QED BY <4>1
        <3> QED BY <3>1, <3>2
    <2> QED BY <2>12, <2>13
<1>4. ASSUME NEW n \in Nonce, outcome'[n] = "MISMATCH", outcome[n] # "MISMATCH"
      PROVE  \E k \in 1 .. n - 1 : outcome'[k] \in {"TIMEOUT", "forgotten"}
    <2>1. CASE \E policy \in Action : Process(policy) \/ ProcessUnlogged(policy)
        BY <2>1, <1>3, <1>4
    <2>2. CASE Restart
        BY <2>2, <1>4 DEF Restart
    <2>3. CASE \/ Publish \/ Receive \/ Reconnect \/ Stray \/ LoseMessage \/ LoseChallenge
               \/ Tick \/ Refuse \/ Revoke \/ Reinstate \/ UNCHANGED vars
        BY <2>3, <1>4 DEF Publish, Receive, Reconnect, Stray, LoseMessage, LoseChallenge, Tick,
                          Refuse, Revoke, Reinstate, vars, gatewayVars
    <2> QED BY <2>1, <2>2, <2>3 DEF Next
<1> QED BY <1>2, <1>4 DEF MismatchHasCause

LEMMA EchoSteps ==
    EchoInv /\ [Next]_vars => (strays = 0 => OwnOnly /\ SentOnce /\ NoneAnswered)'
<1> DEFINE Own == OwnOnly /\ SentOnce /\ NoneAnswered
<1> SUFFICES ASSUME EchoInv, [Next]_vars, strays' = 0 PROVE Own'
    OBVIOUS
<1>0. strays = 0 /\ ~ Stray
    BY DEF EchoInv, TypeOK, Next, Publish, Receive, Reconnect, Stray, LoseMessage,
           LoseChallenge, Tick, Process, ProcessUnlogged, Refuse, Revoke, Reinstate,
           Restart, vars
<1>8. Undisturbed
    BY <1>0 DEF Undisturbed
<1>1. ASSUME UNCHANGED <<toEcho, inbox, uplink, nonces, outcome>>
      PROVE  Own'
    BY <1>0, <1>1 DEF EchoInv, OwnOnly, SentOnce, NoneAnswered, UnderWay
<1>2. CASE Publish
    BY <1>8, <1>2, PublishSteps
<1>3. CASE Receive
    BY <1>8, <1>3, ReceiveSteps
<1>4. CASE LoseMessage \/ LoseChallenge \/ Refuse \/ Reconnect
    BY <1>8, <1>4, LossSteps
<1>5. CASE Tick \/ Revoke \/ Reinstate \/ UNCHANGED vars
    BY <1>1, <1>5 DEF Tick, Revoke, Reinstate, vars, deviceVars, gatewayVars
<1>6. ASSUME NEW policy \in Action, Process(policy) \/ ProcessUnlogged(policy)
      PROVE  Own'
    <2>1. /\ uplink # << >> /\ uplink' = Tail(uplink) /\ toEcho' = toEcho
          /\ Settle(Verdict(Head(uplink)), policy)
        BY <1>6 DEF Process, ProcessUnlogged
    <2> QED BY <1>8, <2>1, ProcessSteps
<1>7. CASE Restart
    <2>1. /\ UNCHANGED <<toEcho, inbox, uplink, nonces>>
          /\ \A n \in Nonce : outcome'[n] = "SUCCESS" => outcome[n] = "SUCCESS"
        BY <1>7 DEF Restart, deviceVars
    <2> QED BY <1>0, <2>1 DEF EchoInv, OwnOnly, SentOnce, NoneAnswered, UnderWay
<1> QED BY <1>0, <1>2, <1>3, <1>4, <1>5, <1>6, <1>7 DEF Next

(* The inductive invariant about nonces: the pending one is the newest,    *)
(* and as long as the gateway's challenges are the only ones, each is under*)
(* way at most once and none after its challenge was answered.             *)
THEOREM Inductive == Spec => []EchoInv
<1> DEFINE Own == OwnOnly /\ SentOnce /\ NoneAnswered
<1>1. Init => Own /\ MismatchHasCause
    <2> SUFFICES ASSUME Init PROVE Own /\ MismatchHasCause
        OBVIOUS
    <2>1. /\ inbox = << >> /\ uplink = << >> /\ toEcho = None
          /\ \A n \in Nonce : n # None /\ outcome[n] = "unissued"
        BY DEF Init, Nonce, None
    <2>2. \A n : ~ Occurs(n, inbox) /\ ~ Occurs(n, uplink)
        BY <2>1 DEF Occurs
    <2>3. Distinct(inbox) /\ Distinct(uplink)
        BY <2>1 DEF Distinct
    <2>4. OwnOnly
        <3>1. inbox \in Seq(Nonce) /\ uplink \in Seq(Nonce \cup {None})
            BY <2>1
        <3> QED BY <3>1, <2>1 DEF OwnOnly
    <2> QED BY <2>1, <2>2, <2>3, <2>4 DEF SentOnce, NoneAnswered, UnderWay, MismatchHasCause
<1>2. EchoInv /\ [Next]_vars => (strays = 0 => Own)' /\ MismatchHasCause'
    BY EchoSteps, CauseSteps
<1>3. TypeOK /\ OpenIsPending /\ Issued /\ MismatchHasCause /\ (strays = 0 => Own)
        <=> EchoInv
    BY DEF EchoInv
<1> HIDE DEF Own
<1> QED BY <1>1, <1>2, <1>3, Challenges, PTL DEF Spec

(* A wrong echo goes back to a challenge that timed out or was forgotten,  *)
(* or to one the gateway did not send (MismatchHasCause).                  *)
THEOREM MismatchExplained == Spec => []MismatchHasCause
<1>1. EchoInv => MismatchHasCause
    BY DEF EchoInv
<1> QED BY <1>1, Inductive, PTL

-----------------------------------------------------------------------------
(* Auto-quarantine. *)

(* The last RunLength of the decisions made, with the new one at the end.  *)
LEMMA RememberEffect ==
    ASSUME TypeOK, NEW decision, Remember(decision)
    PROVE  /\ Len(recent) \in Nat /\ Len(recent') \in Nat
           /\ DOMAIN recent = 1 .. Len(recent) /\ DOMAIN recent' = 1 .. Len(recent')
           /\ Len(recent') = IF Len(recent) < RunLength THEN Len(recent) + 1
                                                        ELSE RunLength
           /\ Len(recent') > 0
           /\ recent'[Len(recent')] = (decision = "BLOCK")
           /\ \A i \in 1 .. Len(recent') - 1 :
                recent'[i] = recent[i + Len(recent) + 1 - Len(recent')]
           /\ Len(recent) <= RunLength
<1> DEFINE blocked == decision = "BLOCK"
           all == Append(recent, blocked)
<1>1. blocked \in BOOLEAN
    OBVIOUS
<1>2. recent \in Seq(BOOLEAN) /\ Len(recent) <= RunLength
    BY DEF TypeOK
<1>3. recent' = IF Len(all) <= RunLength THEN all ELSE Tail(all)
    BY DEF Remember
<1>4. blocked = (decision = "BLOCK")
    OBVIOUS
<1> HIDE DEF blocked
<1>5. /\ all \in Seq(BOOLEAN) /\ Len(recent) \in Nat /\ Len(all) = Len(recent) + 1
      /\ all # << >> /\ \A i \in 1 .. Len(recent) : all[i] = recent[i]
      /\ all[Len(recent) + 1] = blocked
    BY <1>1, <1>2, AppendTyped
<1> HIDE DEF all
<1>6. /\ DOMAIN recent = 1 .. Len(recent) /\ DOMAIN all = 1 .. Len(all)
      /\ Tail(all) \in Seq(BOOLEAN) /\ Len(Tail(all)) = Len(recent)
      /\ DOMAIN Tail(all) = 1 .. Len(recent)
      /\ \A i \in 1 .. Len(recent) : Tail(all)[i] = all[i + 1]
    BY <1>2, <1>5
<1>7. CASE Len(recent) < RunLength
    <2>1. recent' = all
        BY <1>3, <1>5, <1>7, ThresholdAssumption
    <2>2. \A i \in 1 .. Len(recent') - 1 : i + Len(recent) + 1 - Len(recent') = i
        BY <2>1, <1>5
    <2> QED BY <2>1, <2>2, <1>2, <1>4, <1>5, <1>6, <1>7
<1>8. CASE Len(recent) = RunLength
    <2>1. recent' = Tail(all)
        BY <1>3, <1>5, <1>8, ThresholdAssumption
    <2>2. Len(recent') = RunLength /\ DOMAIN recent' = 1 .. RunLength /\ RunLength \in Nat \ {0}
        BY <2>1, <1>6, <1>8, ThresholdAssumption
    <2>3. recent'[RunLength] = blocked
        BY <2>1, <1>5, <1>6, <1>8, ThresholdAssumption
    <2>4. ASSUME NEW i \in 1 .. RunLength - 1
          PROVE  recent'[i] = recent[i + 1] /\ i + Len(recent) + 1 - RunLength = i + 1
        BY <2>1, <2>2, <1>5, <1>6, <1>8
    <2> QED BY <2>2, <2>3, <2>4, <1>2, <1>4, <1>5, <1>6, <1>8
<1> QED BY <1>2, <1>5, <1>7, <1>8, ThresholdAssumption

(* One more BLOCK lengthens the run at the end by one. *)
LEMMA RunGrows ==
    ASSUME TypeOK, RunCounted, Remember("BLOCK")
    PROVE  /\ blocks + 1 <= Len(recent')
           /\ \A i \in DOMAIN recent' : i > Len(recent') - (blocks + 1) => recent'[i]
<1>1. /\ blocks \in Nat /\ blocks <= RunLength - 1 /\ RunLength \in Nat
      /\ blocks <= Len(recent)
      /\ \A i \in DOMAIN recent : i > Len(recent) - blocks => recent[i]
    BY ThresholdAssumption DEF TypeOK, RunCounted
<1>2. /\ Len(recent) \in Nat /\ Len(recent') \in Nat
      /\ DOMAIN recent = 1 .. Len(recent) /\ DOMAIN recent' = 1 .. Len(recent')
      /\ Len(recent') = IF Len(recent) < RunLength THEN Len(recent) + 1 ELSE RunLength
      /\ Len(recent) <= RunLength
      /\ recent'[Len(recent')] = ("BLOCK" = "BLOCK")
      /\ \A i \in 1 .. Len(recent') - 1 :
            recent'[i] = recent[i + Len(recent) + 1 - Len(recent')]
    BY RememberEffect
<1>3. blocks + 1 <= Len(recent')
    BY <1>1, <1>2
<1>4. ASSUME NEW i \in DOMAIN recent', i > Len(recent') - (blocks + 1)
      PROVE  recent'[i]
    <2>1. CASE i = Len(recent')
        BY <2>1, <1>2
    <2>2. CASE i # Len(recent')
        <3> DEFINE j == i + Len(recent) + 1 - Len(recent')
        <3>1. i \in 1 .. Len(recent') - 1
            BY <2>2, <1>2
        <3>2. j \in 1 .. Len(recent) /\ j > Len(recent) - blocks
            BY <3>1, <1>1, <1>2, <1>4
        <3>3. recent'[i] = recent[j]
            BY <3>1, <1>2
        <3> HIDE DEF j
        <3>4. recent[j]
            BY <3>2, <1>1, <1>2
        <3> QED BY <3>3, <3>4
    <2> QED BY <2>1, <2>2
<1> QED BY <1>3, <1>4

(* The counter counts: every decision lengthens the run, ends it, or is    *)
(* not in the log either.                                                  *)
LEMMA CountSteps ==
    ASSUME TypeOK, RunCounted, [Next]_vars
    PROVE  RunCounted'
<1>1. ASSUME UNCHANGED <<blocks, recent>> PROVE RunCounted'
    BY <1>1 DEF RunCounted
<1>2. ASSUME NEW policy \in Action, Process(policy) PROVE RunCounted'
    <2> DEFINE d == Decision(Verdict(Head(uplink)), policy)
    <2>1. Remember(d) /\ CountBlock(d)
        BY <1>2 DEF Process
    <2>2. Len(recent') \in Nat
        BY <2>1, RememberEffect
    <2> HIDE DEF d
    <2>3. CASE ~ Armed
        BY <2>1, <2>2, <2>3, RememberEffect DEF CountBlock, RunCounted
    <2>4. CASE Armed /\ blocks' = 0
        BY <2>2, <2>4, RememberEffect, <2>1 DEF RunCounted
    <2>5. CASE Armed /\ d = "BLOCK" /\ blocks' = blocks + 1
        BY <2>1, <2>5, RunGrows DEF RunCounted
    <2>6. Armed => blocks' = 0 \/ (d = "BLOCK" /\ blocks' = blocks + 1)
        BY <2>1 DEF CountBlock
    <2> QED BY <2>3, <2>4, <2>5, <2>6
<1>3. ASSUME NEW policy \in Action, ProcessUnlogged(policy) PROVE RunCounted'
    BY <1>1, <1>3 DEF ProcessUnlogged
<1>4. CASE Restart
    <2>1. blocks' = 0 /\ recent' = recent /\ recent \in Seq(BOOLEAN)
        BY <1>4 DEF Restart, TypeOK
    <2>2. Len(recent) \in Nat /\ DOMAIN recent = 1 .. Len(recent)
        BY <2>1
    <2> QED BY <2>1, <2>2 DEF RunCounted
<1>5. CASE \/ Publish \/ Receive \/ Reconnect \/ Stray \/ LoseMessage \/ LoseChallenge
           \/ Tick \/ Refuse \/ Revoke \/ Reinstate \/ UNCHANGED vars
    BY <1>1, <1>5 DEF Publish, Receive, Reconnect, Stray, LoseMessage, LoseChallenge, Tick,
                      Refuse, Revoke, Reinstate, vars, gatewayVars
<1> QED BY <1>2, <1>3, <1>4, <1>5 DEF Next

(* Only Process revokes a device on its own, and then the run is complete. *)
LEMMA QuarantineStep ==
    ASSUME TypeOK, RunCounted, [Next]_vars, Quarantined
    PROVE  UnbrokenRun(recent')
<1>1. PICK policy \in Action : Process(policy)
    BY DEF Quarantined, Next, Publish, Receive, Reconnect, Stray, LoseMessage, LoseChallenge,
           Tick, ProcessUnlogged, Refuse, Revoke, Reinstate, Restart, vars, deviceVars,
           gatewayVars
<1> DEFINE d == Decision(Verdict(Head(uplink)), policy)
<1>2. Remember(d) /\ CountBlock(d)
    BY <1>1 DEF Process
<1> HIDE DEF d
<1>3. ~ revoked /\ revoked'
    BY DEF Quarantined
<1>4. d = "BLOCK" /\ ~ (blocks + 1 < RunLength)
    BY <1>2, <1>3 DEF CountBlock
<1>5. /\ blocks + 1 <= Len(recent')
      /\ \A i \in DOMAIN recent' : i > Len(recent') - (blocks + 1) => recent'[i]
    BY <1>2, <1>4, RunGrows
<1>6. /\ Len(recent') \in Nat /\ DOMAIN recent' = 1 .. Len(recent')
      /\ Len(recent') <= RunLength
    BY <1>2, RememberEffect, RememberTyped
<1>7. blocks \in Nat /\ RunLength \in Nat /\ blocks + 1 = RunLength
    BY <1>4, ThresholdAssumption DEF TypeOK
<1>8. Len(recent') = RunLength
    <2>1. blocks + 1 <= Len(recent')
        BY <1>5
    <2>2. Len(recent') \in Nat /\ Len(recent') <= RunLength
        BY <1>6
    <2> QED BY <2>1, <2>2, <1>7
<1>9. \A i \in DOMAIN recent' : i > Len(recent') - (blocks + 1)
    BY <1>6, <1>7, <1>8
<1>10. \A i \in DOMAIN recent' : recent'[i]
    BY <1>5, <1>9
<1> QED BY <1>8, <1>10 DEF UnbrokenRun

(* Only an unbroken run of RunLength BLOCK decisions in the audit log      *)
(* quarantines a device (UnbrokenOnRecord).                                *)
THEOREM QuarantineIsEarned == Spec => UnbrokenOnRecord
<1>1. Init => RunCounted
    <2> SUFFICES ASSUME Init PROVE RunCounted
        OBVIOUS
    <2>1. blocks = 0 /\ Len(recent) = 0 /\ DOMAIN recent = {}
        BY DEF Init
    <2> QED BY <2>1 DEF RunCounted
<1>2. TypeOK /\ RunCounted /\ [Next]_vars => RunCounted'
    BY CountSteps
<1>3. TypeOK /\ RunCounted /\ [Next]_vars
        => [Quarantined => UnbrokenRun(recent')]_vars
    BY QuarantineStep
<1> QED BY <1>1, <1>2, <1>3, TypeCorrect, PTL DEF Spec, UnbrokenOnRecord
===============================================================================
