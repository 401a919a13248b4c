------------------------ MODULE GatewayThreadsProofs ------------------------
(***************************************************************************)
(* The theorems about GatewayThreads, for every set of devices, window     *)
(* length, staleness limit and every number of messages and failures.  The *)
(* argument is the lock's: whoever is in the pipeline of a copy holds that *)
(* copy's lock, so what it put into the copy's memory is still there when  *)
(* it reads it again.  The last section follows a silence from the look    *)
(* that finds it to the message that ends it.                              *)
(***************************************************************************)
EXTENDS GatewayThreads, TLAPS

USE LimitsAssumption, BoundsAssumption, DevicesAssumption

(***************************************************************************)
(* Types, one group of variables at a time.                                *)
(***************************************************************************)
Kinds == {"none", "telemetry", "rejected", "silent"}
ScalarOK == /\ twice \in BOOLEAN /\ up \in BOOLEAN /\ watching \in BOOLEAN
            /\ sent \in Messages /\ faults \in 0 .. MaxFaults /\ deaths \in 0 .. MaxDeaths
LockOK == /\ lock \in [Copies -> Threads \cup {Free}] /\ chain \in Threads \cup {Free}
PcOK   == pc \in [Threads -> Labels]
WorkOK == work \in [Threads -> Row] /\ rows \in Seq(Row)
MemoryOK == /\ window \in [Copies -> [Devices -> Seq(Messages)]]
            /\ features \in [Copies -> [Devices -> Messages]]
            /\ shap \in [Copies -> Messages]
SilenceOK == /\ heard \in [Copies -> [Devices -> Ages]] /\ updated \in [Devices -> Ages]
             /\ alerted \subseteq Devices /\ todo \subseteq Devices

LEMMA TypeParts == TypeOK <=> ScalarOK /\ LockOK /\ PcOK /\ WorkOK /\ MemoryOK /\ SilenceOK
BY DEF TypeOK, ScalarOK, LockOK, PcOK, WorkOK, MemoryOK, SilenceOK

LEMMA Names == /\ Transports \subseteq Threads /\ "watchdog" \in Threads
               /\ "watchdog" \notin Transports /\ "mqtt" \in Transports
               /\ \A t \in Threads : Copy(t) \in Copies /\ t # Free
               /\ Copy("watchdog") = "main" /\ "main" \in Copies
BY DEF Transports, Threads, Copy, Copies, Free

LEMMA ScalarStep ==
    ASSUME ScalarOK, [Next]_vars
    PROVE  ScalarOK'
<1> USE DEF ScalarOK, Messages, process
<1>1. ASSUME NEW t \in Transports, NEW d \in Devices, Arrive(t, d)
      PROVE  ScalarOK'
  BY <1>1 DEF Arrive
<1>2. ASSUME NEW t \in Threads, Take(t)
      PROVE  ScalarOK'
  BY <1>2 DEF Take
<1>3. ASSUME NEW t \in Transports, Reject(t)
      PROVE  ScalarOK'
  BY <1>3 DEF Reject
<1>4. ASSUME NEW t \in Transports, Accept(t)
      PROVE  ScalarOK'
  BY <1>4 DEF Accept
<1>5. ASSUME NEW t \in Transports, ScoreLSTM(t)
      PROVE  ScalarOK'
  BY <1>5 DEF ScoreLSTM
<1>6. ASSUME NEW t \in Transports, ScoreRelational(t)
      PROVE  ScalarOK'
  BY <1>6 DEF ScoreRelational
<1>7. ASSUME NEW t \in Transports, Combine(t)
      PROVE  ScalarOK'
  BY <1>7 DEF Combine
<1>8. ASSUME NEW t \in Transports, Explain(t)
      PROVE  ScalarOK'
  BY <1>8 DEF Explain
<1>9. ASSUME NEW t \in Threads, TakeChain(t)
      PROVE  ScalarOK'
  BY <1>9 DEF TakeChain
<1>10. ASSUME NEW t \in Threads, Log(t)
      PROVE  ScalarOK'
  BY <1>10 DEF Log
<1>11. ASSUME NEW t \in Threads, LogFails(t)
      PROVE  ScalarOK'
  BY <1>11 DEF LogFails
<1>12. ASSUME NEW t \in Threads, Release(t)
      PROVE  ScalarOK'
  BY <1>12 DEF Release
<1>13. ASSUME Tick
      PROVE  ScalarOK'
  BY <1>13 DEF Tick
<1>14. ASSUME NEW d \in Devices, Visit(d)
      PROVE  ScalarOK'
  BY <1>14 DEF Visit
<1>15. ASSUME Look
      PROVE  ScalarOK'
  BY <1>15 DEF Look
<1>16. ASSUME Die, faults' \in 0 .. MaxFaults
      PROVE  ScalarOK'
  <2>1. deaths' \in 0 .. MaxDeaths /\ sent' \in 0 .. MaxMessages
    BY <1>16 DEF Die
  <2>2. up' = FALSE /\ watching' = TRUE /\ twice' = twice
    BY <1>16 DEF Die
  <2>3. up' \in BOOLEAN /\ watching' \in BOOLEAN /\ twice' \in BOOLEAN
    BY <2>2
  <2> QED BY <1>16, <2>1, <2>3
<1>17. ASSUME Supervise
      PROVE  ScalarOK'
  BY <1>17 DEF Supervise
<1>18. CASE UNCHANGED vars
  BY <1>18 DEF vars
<1> QED
  BY <1>1, <1>2, <1>3, <1>4, <1>5, <1>6, <1>7, <1>8, <1>9,
     <1>10, <1>11, <1>12, <1>13, <1>14, <1>15, <1>16, <1>17, <1>18
     DEF Next, Score, Leave, Crash, MQTTLogFails

LEMMA LockStep ==
    ASSUME LockOK, [Next]_vars
    PROVE  LockOK'
<1> USE Names DEF LockOK
<1>1. ASSUME NEW t \in Transports, NEW d \in Devices, Arrive(t, d)
      PROVE  LockOK'
  BY <1>1 DEF Arrive, Unlock, Blank
<1>2. ASSUME NEW t \in Threads, Take(t)
      PROVE  LockOK'
  BY <1>2 DEF Take, Unlock, Blank
<1>3. ASSUME NEW t \in Transports, Reject(t)
      PROVE  LockOK'
  BY <1>3 DEF Reject, Unlock, Blank
<1>4. ASSUME NEW t \in Transports, Accept(t)
      PROVE  LockOK'
  BY <1>4 DEF Accept, Unlock, Blank
<1>5. ASSUME NEW t \in Transports, ScoreLSTM(t)
      PROVE  LockOK'
  BY <1>5 DEF ScoreLSTM, Unlock, Blank
<1>6. ASSUME NEW t \in Transports, ScoreRelational(t)
      PROVE  LockOK'
  BY <1>6 DEF ScoreRelational, Unlock, Blank
<1>7. ASSUME NEW t \in Transports, Combine(t)
      PROVE  LockOK'
  BY <1>7 DEF Combine, Unlock, Blank
<1>8. ASSUME NEW t \in Transports, Explain(t)
      PROVE  LockOK'
  BY <1>8 DEF Explain, Unlock, Blank
<1>9. ASSUME NEW t \in Threads, TakeChain(t)
      PROVE  LockOK'
  BY <1>9 DEF TakeChain, Unlock, Blank
<1>10. ASSUME NEW t \in Threads, Log(t)
      PROVE  LockOK'
  BY <1>10 DEF Log, Unlock, Blank
<1>11. ASSUME NEW t \in Threads, LogFails(t)
      PROVE  LockOK'
  BY <1>11 DEF LogFails, Unlock, Blank
<1>12. ASSUME NEW t \in Threads, Release(t)
      PROVE  LockOK'
  BY <1>12 DEF Release, Unlock, Blank
<1>13. ASSUME Tick
      PROVE  LockOK'
  BY <1>13 DEF Tick, Unlock, Blank
<1>14. ASSUME NEW d \in Devices, Visit(d)
      PROVE  LockOK'
  BY <1>14 DEF Visit, Unlock, Blank
<1>15. ASSUME Look
      PROVE  LockOK'
  BY <1>15 DEF Look, Unlock, Blank
<1>16. ASSUME Die
      PROVE  LockOK'
  BY <1>16 DEF Die, Unlock, Blank
<1>17. ASSUME Supervise
      PROVE  LockOK'
  BY <1>17 DEF Supervise, Unlock, Blank
<1>18. CASE UNCHANGED vars
  BY <1>18 DEF vars, Unlock, Blank
<1> QED
  BY <1>1, <1>2, <1>3, <1>4, <1>5, <1>6, <1>7, <1>8, <1>9,
     <1>10, <1>11, <1>12, <1>13, <1>14, <1>15, <1>16, <1>17, <1>18
     DEF Next, Score, Leave, Crash, MQTTLogFails

LEMMA PcGoto ==
    ASSUME PcOK, NEW t \in Threads, NEW l \in Labels, Goto(t, l)
    PROVE  PcOK'
BY DEF PcOK, Goto

LEMMA PcStep ==
    ASSUME PcOK, [Next]_vars
    PROVE  PcOK'
<1> USE Names
<1>1. ASSUME NEW t \in Transports, NEW d \in Devices, Arrive(t, d)
      PROVE  PcOK'
  BY <1>1, PcGoto DEF Arrive, Labels
<1>2. ASSUME NEW t \in Threads, Take(t)
      PROVE  PcOK'
  BY <1>2, PcGoto DEF Take, Labels
<1>3. ASSUME NEW t \in Transports, Reject(t)
      PROVE  PcOK'
  BY <1>3, PcGoto DEF Reject, Labels
<1>4. ASSUME NEW t \in Transports, Accept(t)
      PROVE  PcOK'
  BY <1>4, PcGoto DEF Accept, Labels
<1>5. ASSUME NEW t \in Transports, ScoreLSTM(t)
      PROVE  PcOK'
  BY <1>5, PcGoto DEF ScoreLSTM, Labels
<1>6. ASSUME NEW t \in Transports, ScoreRelational(t)
      PROVE  PcOK'
  BY <1>6, PcGoto DEF ScoreRelational, Labels
<1>7. ASSUME NEW t \in Transports, Combine(t)
      PROVE  PcOK'
  BY <1>7, PcGoto DEF Combine, Labels
<1>8. ASSUME NEW t \in Transports, Explain(t)
      PROVE  PcOK'
  BY <1>8, PcGoto DEF Explain, Labels
<1>9. ASSUME NEW t \in Threads, TakeChain(t)
      PROVE  PcOK'
  BY <1>9, PcGoto DEF TakeChain, Labels
<1>10. ASSUME NEW t \in Threads, Log(t)
      PROVE  PcOK'
  BY <1>10, PcGoto DEF Log, Labels
<1>11. ASSUME NEW t \in Threads, LogFails(t)
      PROVE  PcOK'
  BY <1>11, PcGoto DEF LogFails, Labels
<1>12. ASSUME NEW t \in Threads, Release(t)
      PROVE  PcOK'
  BY <1>12, PcGoto DEF Release, Labels
<1>13. ASSUME Tick
      PROVE  PcOK'
  BY <1>13 DEF Tick, PcOK
<1>14. ASSUME NEW d \in Devices, Visit(d)
      PROVE  PcOK'
  BY <1>14, PcGoto DEF Visit, Labels
<1>15. ASSUME Look
      PROVE  PcOK'
  BY <1>15, PcGoto DEF Look, Labels
<1>16. ASSUME Die
      PROVE  PcOK'
  BY <1>16 DEF Die, Blank, PcOK, Labels
<1>17. ASSUME Supervise
      PROVE  PcOK'
  BY <1>17 DEF Supervise, PcOK
<1>18. CASE UNCHANGED vars
  BY <1>18 DEF vars, PcOK
<1> QED
  BY <1>1, <1>2, <1>3, <1>4, <1>5, <1>6, <1>7, <1>8, <1>9,
     <1>10, <1>11, <1>12, <1>13, <1>14, <1>15, <1>16, <1>17, <1>18
     DEF Next, Score, Leave, Crash, MQTTLogFails

LEMMA AppendLast ==
    ASSUME NEW w \in Seq(Messages), NEW m \in Messages
    PROVE  /\ Append(w, m) \in Seq(Messages) /\ Append(w, m) # << >>
           /\ Append(w, m)[Len(Append(w, m))] = m
BY DEF Messages

LEMMA SlideTyped ==
    ASSUME NEW w \in Seq(Messages), NEW m \in Messages
    PROVE  /\ Slide(w, m) \in Seq(Messages) /\ Slide(w, m) # << >>
           /\ Slide(w, m)[Len(Slide(w, m))] = m
<1>1. CASE Len(w) < SeqLen
  BY <1>1, AppendLast DEF Slide
<1>2. CASE ~(Len(w) < SeqLen)
  <2>1. Tail(w) \in Seq(Messages)
    BY <1>2
  <2> QED BY <1>2, <2>1, AppendLast DEF Slide
<1> QED BY <1>1, <1>2

LEMMA EmptyTyped == Empty \in [Devices -> Messages] /\ 0 \in Messages
BY DEF Empty, Messages

LEMMA HoldsTyped ==
    ASSUME ScalarOK, NEW k \in Kinds, NEW m \in Messages, NEW d \in Devices \cup {Nobody}
    PROVE  Holds(k, m, d) \in Row
<1>1. << >> \in Seq(Messages)
  OBVIOUS
<1> QED BY <1>1, EmptyTyped DEF Holds, Row, ScalarOK, Kinds

LEMMA RowEdits ==
    ASSUME NEW w \in Row
    PROVE  /\ w.msg \in Messages /\ w.dev \in Devices \cup {Nobody}
           /\ [w EXCEPT !.kind = "rejected"] \in Row
           /\ \A l \in Seq(Messages) : [w EXCEPT !.lstm = l] \in Row
           /\ \A p \in [Devices -> Messages] : [w EXCEPT !.peers = p] \in Row
           /\ \A m \in Messages, e \in Seq(Messages) \X [Devices -> Messages] :
                 [w EXCEPT !.shap = m, !.explained = e] \in Row
BY DEF Row

LEMMA MemoryStep ==
    ASSUME MemoryOK, WorkOK, [Next]_vars
    PROVE  MemoryOK'
<1> USE Names DEF MemoryOK
<1>1. ASSUME NEW t \in Transports, NEW d \in Devices, Arrive(t, d)
      PROVE  MemoryOK'
  BY <1>1 DEF Arrive, memory
<1>2. ASSUME NEW t \in Threads, Take(t)
      PROVE  MemoryOK'
  BY <1>2 DEF Take, memory
<1>3. ASSUME NEW t \in Transports, Reject(t)
      PROVE  MemoryOK'
  BY <1>3 DEF Reject, memory
<1>4. ASSUME NEW t \in Transports, Accept(t)
      PROVE  MemoryOK'
  BY <1>4 DEF Accept, memory
<1>5. ASSUME NEW t \in Transports, ScoreLSTM(t)
      PROVE  MemoryOK'
  <2>1. work[t].msg \in Messages
    BY <1>5, RowEdits DEF WorkOK
  <2> DEFINE w == Slide(window[Copy(t)][work[t].dev], work[t].msg)
  <2>2. CASE work[t].dev \in Devices
    <3>0. window[Copy(t)][work[t].dev] \in Seq(Messages)
      BY <2>2
    <3>1. w \in Seq(Messages)
      BY <2>1, <3>0, SlideTyped
    <3> HIDE DEF w
    <3>2. window' = [window EXCEPT ![Copy(t)][work[t].dev] = w]
      BY <1>5 DEF ScoreLSTM, w
    <3> QED BY <1>5, <2>2, <3>1, <3>2 DEF ScoreLSTM
  <2>3. CASE work[t].dev \notin Devices
    BY <1>5, <2>3 DEF ScoreLSTM
  <2> QED BY <2>2, <2>3
<1>6. ASSUME NEW t \in Transports, ScoreRelational(t)
      PROVE  MemoryOK'
  <2>1. work[t].msg \in Messages
    BY <1>6, RowEdits DEF WorkOK
  <2> QED BY <1>6, <2>1 DEF ScoreRelational
<1>7. ASSUME NEW t \in Transports, Combine(t)
      PROVE  MemoryOK'
  <2>1. work[t].msg \in Messages
    BY <1>7, RowEdits DEF WorkOK
  <2> QED BY <1>7, <2>1 DEF Combine
<1>8. ASSUME NEW t \in Transports, Explain(t)
      PROVE  MemoryOK'
  BY <1>8 DEF Explain, memory
<1>9. ASSUME NEW t \in Threads, TakeChain(t)
      PROVE  MemoryOK'
  BY <1>9 DEF TakeChain, memory
<1>10. ASSUME NEW t \in Threads, Log(t)
      PROVE  MemoryOK'
  BY <1>10 DEF Log, memory
<1>11. ASSUME NEW t \in Threads, LogFails(t)
      PROVE  MemoryOK'
  BY <1>11 DEF LogFails, memory
<1>12. ASSUME NEW t \in Threads, Release(t)
      PROVE  MemoryOK'
  BY <1>12 DEF Release, memory
<1>13. ASSUME Tick
      PROVE  MemoryOK'
  BY <1>13 DEF Tick, memory
<1>14. ASSUME NEW d \in Devices, Visit(d)
      PROVE  MemoryOK'
  BY <1>14 DEF Visit, memory
<1>15. ASSUME Look
      PROVE  MemoryOK'
  BY <1>15 DEF Look, memory
<1>16. ASSUME Die
      PROVE  MemoryOK'
  BY <1>16, EmptyTyped DEF Die, Blank
<1>17. ASSUME Supervise
      PROVE  MemoryOK'
  BY <1>17 DEF Supervise, memory
<1>18. CASE UNCHANGED vars
  BY <1>18 DEF vars, memory
<1> QED
  BY <1>1, <1>2, <1>3, <1>4, <1>5, <1>6, <1>7, <1>8, <1>9,
     <1>10, <1>11, <1>12, <1>13, <1>14, <1>15, <1>16, <1>17, <1>18
     DEF Next, Score, Leave, Crash, MQTTLogFails

LEMMA SilenceStep ==
    ASSUME SilenceOK, WatchTrue, [Next]_vars
    PROVE  SilenceOK'
<1> USE Names DEF SilenceOK
<1>0. 0 \in Ages /\ Never \in Ages /\ \A a \in Ages : Aged(a) \in Ages
  BY DEF Ages, Never, Aged, Fresh
<1>1. ASSUME NEW t \in Transports, NEW d \in Devices, Arrive(t, d)
      PROVE  SilenceOK'
  BY <1>1 DEF Arrive, silence
<1>2. ASSUME NEW t \in Threads, Take(t)
      PROVE  SilenceOK'
  BY <1>2 DEF Take, silence
<1>3. ASSUME NEW t \in Transports, Reject(t)
      PROVE  SilenceOK'
  BY <1>3 DEF Reject, silence
<1>4. ASSUME NEW t \in Transports, Accept(t)
      PROVE  SilenceOK'
  BY <1>4, <1>0 DEF Accept
<1>5. ASSUME NEW t \in Transports, ScoreLSTM(t)
      PROVE  SilenceOK'
  BY <1>5 DEF ScoreLSTM, silence
<1>6. ASSUME NEW t \in Transports, ScoreRelational(t)
      PROVE  SilenceOK'
  BY <1>6 DEF ScoreRelational, silence
<1>7. ASSUME NEW t \in Transports, Combine(t)
      PROVE  SilenceOK'
  BY <1>7, <1>0 DEF Combine
<1>8. ASSUME NEW t \in Transports, Explain(t)
      PROVE  SilenceOK'
  BY <1>8 DEF Explain, silence
<1>9. ASSUME NEW t \in Threads, TakeChain(t)
      PROVE  SilenceOK'
  BY <1>9 DEF TakeChain, silence
<1>10. ASSUME NEW t \in Threads, Log(t)
      PROVE  SilenceOK'
  BY <1>10 DEF Log, silence
<1>11. ASSUME NEW t \in Threads, LogFails(t)
      PROVE  SilenceOK'
  BY <1>11 DEF LogFails, silence
<1>12. ASSUME NEW t \in Threads, Release(t)
      PROVE  SilenceOK'
  BY <1>12 DEF Release, silence
<1>13. ASSUME Tick
      PROVE  SilenceOK'
  BY <1>13, <1>0 DEF Tick, Older
<1>14. ASSUME NEW d \in Devices, Visit(d)
      PROVE  SilenceOK'
  BY <1>14 DEF Visit, silence
<1>15. ASSUME Look
      PROVE  SilenceOK'
  <2>1. work["watchdog"].dev \in Devices
    BY <1>15 DEF Look, WatchTrue
  <2> QED BY <1>15, <2>1, <1>0 DEF Look, Seen
<1>16. ASSUME Die
      PROVE  SilenceOK'
  BY <1>16, <1>0 DEF Die, Blank
<1>17. ASSUME Supervise
      PROVE  SilenceOK'
  BY <1>17 DEF Supervise, silence
<1>18. CASE UNCHANGED vars
  BY <1>18 DEF vars, silence
<1> QED
  BY <1>1, <1>2, <1>3, <1>4, <1>5, <1>6, <1>7, <1>8, <1>9,
     <1>10, <1>11, <1>12, <1>13, <1>14, <1>15, <1>16, <1>17, <1>18
     DEF Next, Score, Leave, Crash, MQTTLogFails

LEMMA WorkStep ==
    ASSUME TypeOK, WorkTrue, [Next]_vars, MemoryOK'
    PROVE  WorkOK'
<1>0. ScalarOK /\ WorkOK /\ MemoryOK
  BY TypeParts
<1>a. \A t \in Threads : Drop(t) => work' \in [Threads -> Row]
  <2>1. Nothing \in Row
    BY <1>0, HoldsTyped, EmptyTyped DEF Nothing, Kinds
  <2> QED BY <1>0, <2>1 DEF Drop, WorkOK
<1> USE Names
<1>1. ASSUME NEW t \in Transports, NEW d \in Devices, Arrive(t, d)
      PROVE  WorkOK'
  <2>1. Holds("telemetry", sent', d) \in Row
    BY <1>1, <1>0, HoldsTyped DEF Arrive, Kinds, ScalarOK, Messages
  <2> QED BY <1>1, <1>0, <2>1 DEF Arrive, WorkOK
<1>2. ASSUME NEW t \in Threads, Take(t)
      PROVE  WorkOK'
  BY <1>2, <1>0 DEF Take, WorkOK
<1>3. ASSUME NEW t \in Transports, Reject(t)
      PROVE  WorkOK'
  <2>1. [work[t] EXCEPT !.kind = "rejected"] \in Row
    BY <1>3, <1>0, RowEdits DEF WorkOK
  <2> QED BY <1>3, <1>0, <2>1 DEF Reject, WorkOK
<1>4. ASSUME NEW t \in Transports, Accept(t)
      PROVE  WorkOK'
  BY <1>4, <1>0 DEF Accept, WorkOK
<1>5. ASSUME NEW t \in Transports, ScoreLSTM(t)
      PROVE  WorkOK'
  <2> DEFINE w == Slide(window[Copy(t)][work[t].dev], work[t].msg)
  <2>1. w \in Seq(Messages)
    <3>1. work[t].msg \in Messages
      BY <1>5, <1>0, RowEdits DEF WorkOK
    <3>2. work[t].dev \in Devices
      BY <1>5 DEF ScoreLSTM, WorkTrue, ThreadTrue
    <3>3. window[Copy(t)][work[t].dev] \in Seq(Messages)
      BY <1>0, <3>2 DEF MemoryOK
    <3> QED BY <3>1, <3>3, SlideTyped
  <2> HIDE DEF w
  <2>2. [work[t] EXCEPT !.lstm = w] \in Row
    BY <1>5, <1>0, <2>1, RowEdits DEF WorkOK
  <2>3. work' = [work EXCEPT ![t].lstm = w] /\ rows' = rows
    BY <1>5 DEF ScoreLSTM, w
  <2> QED BY <1>5, <1>0, <2>2, <2>3 DEF WorkOK
<1>6. ASSUME NEW t \in Transports, ScoreRelational(t)
      PROVE  WorkOK'
  <2>1. features'[Copy(t)] \in [Devices -> Messages]
    BY <1>6 DEF MemoryOK
  <2>2. [work[t] EXCEPT !.peers = features'[Copy(t)]] \in Row
    BY <1>6, <1>0, <2>1, RowEdits DEF WorkOK
  <2> QED BY <1>6, <1>0, <2>2 DEF ScoreRelational, WorkOK
<1>7. ASSUME NEW t \in Transports, Combine(t)
      PROVE  WorkOK'
  BY <1>7, <1>0 DEF Combine, WorkOK
<1>8. ASSUME NEW t \in Transports, Explain(t)
      PROVE  WorkOK'
  <2> DEFINE e == <<window[Copy(t)][work[t].dev], features[Copy(t)]>>
  <2>1. shap[Copy(t)] \in Messages /\ e \in Seq(Messages) \X [Devices -> Messages]
    <3>1. work[t].dev \in Devices
      BY <1>8 DEF Explain, WorkTrue, ThreadTrue
    <3> QED BY <1>8, <1>0, <3>1 DEF MemoryOK
  <2> HIDE DEF e
  <2>2. [work[t] EXCEPT !.shap = shap[Copy(t)], !.explained = e] \in Row
    BY <1>8, <1>0, <2>1, RowEdits DEF WorkOK
  <2>3. /\ work' = [work EXCEPT ![t].shap = shap[Copy(t)], ![t].explained = e]
        /\ rows' = rows
    BY <1>8 DEF Explain, e
  <2> QED BY <1>8, <1>0, <2>2, <2>3 DEF WorkOK
<1>9. ASSUME NEW t \in Threads, TakeChain(t)
      PROVE  WorkOK'
  BY <1>9, <1>0 DEF TakeChain, WorkOK
<1>10. ASSUME NEW t \in Threads, Log(t)
      PROVE  WorkOK'
  BY <1>10, <1>0 DEF Log, WorkOK
<1>11. ASSUME NEW t \in Threads, LogFails(t)
      PROVE  WorkOK'
  BY <1>11, <1>0, <1>a DEF LogFails, WorkOK
<1>12. ASSUME NEW t \in Threads, Release(t)
      PROVE  WorkOK'
  BY <1>12, <1>0, <1>a DEF Release, WorkOK
<1>13. ASSUME Tick
      PROVE  WorkOK'
  BY <1>13, <1>0 DEF Tick, WorkOK
<1>14. ASSUME NEW d \in Devices, Visit(d)
      PROVE  WorkOK'
  <2>1. Holds("silent", 0, d) \in Row
    BY <1>0, HoldsTyped, EmptyTyped DEF Kinds
  <2> QED BY <1>14, <1>0, <2>1 DEF Visit, WorkOK
<1>15. ASSUME Look
      PROVE  WorkOK'
  <2>1. [work["watchdog"] EXCEPT !.peers = features["main"]] \in Row
    BY <1>15, <1>0, RowEdits DEF WorkOK, MemoryOK
  <2> QED BY <1>15, <1>0, <2>1 DEF Look, WorkOK
<1>16. ASSUME Die
      PROVE  WorkOK'
  <2>1. Nothing \in Row
    BY <1>0, HoldsTyped, EmptyTyped DEF Nothing, Kinds
  <2> QED BY <1>16, <1>0, <2>1 DEF Die, WorkOK
<1>17. ASSUME Supervise
      PROVE  WorkOK'
  BY <1>17, <1>0 DEF Supervise, WorkOK
<1>18. CASE UNCHANGED vars
  BY <1>0, <1>18 DEF vars, WorkOK
<1> QED
  BY <1>1, <1>2, <1>3, <1>4, <1>5, <1>6, <1>7, <1>8, <1>9,
     <1>10, <1>11, <1>12, <1>13, <1>14, <1>15, <1>16, <1>17, <1>18
     DEF Next, Score, Leave, Crash, MQTTLogFails

(***************************************************************************)
(* Whoever is in the pipeline of a copy holds its lock.                    *)
(***************************************************************************)
LEMMA CopyStep ==
    ASSUME [Next]_vars
    PROVE  \A t \in Threads : Copy(t)' = Copy(t)
<1> SUFFICES twice' = twice
  BY DEF Copy
<1>1. ASSUME NEW t \in Transports, NEW d \in Devices, Arrive(t, d)
      PROVE  twice' = twice
  BY <1>1 DEF Arrive, process
<1>2. ASSUME NEW t \in Threads, Take(t)
      PROVE  twice' = twice
  BY <1>2 DEF Take, process
<1>3. ASSUME NEW t \in Transports, Reject(t)
      PROVE  twice' = twice
  BY <1>3 DEF Reject, process
<1>4. ASSUME NEW t \in Transports, Accept(t)
      PROVE  twice' = twice
  BY <1>4 DEF Accept, process
<1>5. ASSUME NEW t \in Transports, ScoreLSTM(t)
      PROVE  twice' = twice
  BY <1>5 DEF ScoreLSTM, process
<1>6. ASSUME NEW t \in Transports, ScoreRelational(t)
      PROVE  twice' = twice
  BY <1>6 DEF ScoreRelational, process
<1>7. ASSUME NEW t \in Transports, Combine(t)
      PROVE  twice' = twice
  BY <1>7 DEF Combine, process
<1>8. ASSUME NEW t \in Transports, Explain(t)
      PROVE  twice' = twice
  BY <1>8 DEF Explain, process
<1>9. ASSUME NEW t \in Threads, TakeChain(t)
      PROVE  twice' = twice
  BY <1>9 DEF TakeChain, process
<1>10. ASSUME NEW t \in Threads, Log(t)
      PROVE  twice' = twice
  BY <1>10 DEF Log, process
<1>11. ASSUME NEW t \in Threads, LogFails(t)
      PROVE  twice' = twice
  BY <1>11 DEF LogFails, process
<1>12. ASSUME NEW t \in Threads, Release(t)
      PROVE  twice' = twice
  BY <1>12 DEF Release, process
<1>13. ASSUME Tick
      PROVE  twice' = twice
  BY <1>13 DEF Tick, process
<1>14. ASSUME NEW d \in Devices, Visit(d)
      PROVE  twice' = twice
  BY <1>14 DEF Visit, process
<1>15. ASSUME Look
      PROVE  twice' = twice
  BY <1>15 DEF Look, process
<1>16. ASSUME Die
      PROVE  twice' = twice
  BY <1>16 DEF Die, process
<1>17. ASSUME Supervise
      PROVE  twice' = twice
  BY <1>17 DEF Supervise, process
<1>18. CASE UNCHANGED vars
  BY <1>18 DEF vars, process
<1> QED
  BY <1>1, <1>2, <1>3, <1>4, <1>5, <1>6, <1>7, <1>8, <1>9,
     <1>10, <1>11, <1>12, <1>13, <1>14, <1>15, <1>16, <1>17, <1>18
     DEF Next, Score, Leave, Crash, MQTTLogFails

LEMMA LockHeldStep ==
    ASSUME TypeOK, LockHeld, WatchTrue, [Next]_vars
    PROVE  LockHeld'
<1>a. /\ \A t \in Threads : Copy(t)' = Copy(t) /\ Copy(t) \in Copies
      /\ pc \in [Threads -> Labels] /\ lock \in [Copies -> Threads \cup {Free}]
  BY CopyStep, Names DEF TypeOK
<1> USE <1>a, Names DEF LockHeld, Inside
<1>1. ASSUME NEW t \in Transports, NEW d \in Devices, Arrive(t, d)
      PROVE  LockHeld'
  BY <1>1 DEF Arrive, Goto
<1>2. ASSUME NEW t \in Threads, Take(t)
      PROVE  LockHeld'
  BY <1>2 DEF Take, Goto
<1>3. ASSUME NEW t \in Transports, Reject(t)
      PROVE  LockHeld'
  BY <1>3 DEF Reject, Goto
<1>4. ASSUME NEW t \in Transports, Accept(t)
      PROVE  LockHeld'
  BY <1>4 DEF Accept, Goto
<1>5. ASSUME NEW t \in Transports, ScoreLSTM(t)
      PROVE  LockHeld'
  BY <1>5 DEF ScoreLSTM, Goto
<1>6. ASSUME NEW t \in Transports, ScoreRelational(t)
      PROVE  LockHeld'
  BY <1>6 DEF ScoreRelational, Goto
<1>7. ASSUME NEW t \in Transports, Combine(t)
      PROVE  LockHeld'
  BY <1>7 DEF Combine, Goto
<1>8. ASSUME NEW t \in Transports, Explain(t)
      PROVE  LockHeld'
  BY <1>8 DEF Explain, Goto
<1>9. ASSUME NEW t \in Threads, TakeChain(t)
      PROVE  LockHeld'
  BY <1>9 DEF TakeChain, Goto
<1>10. ASSUME NEW t \in Threads, Log(t)
      PROVE  LockHeld'
  BY <1>10 DEF Log, Goto
<1>11. ASSUME NEW t \in Threads, LogFails(t)
      PROVE  LockHeld'
  BY <1>11 DEF LogFails, Goto, Unlock
<1>12. ASSUME NEW t \in Threads, Release(t)
      PROVE  LockHeld'
  BY <1>12 DEF Release, Goto, Unlock
<1>13. ASSUME Tick
      PROVE  LockHeld'
  BY <1>13 DEF Tick, Goto
<1>14. ASSUME NEW d \in Devices, Visit(d)
      PROVE  LockHeld'
  BY <1>14 DEF Visit, Goto
<1>15. ASSUME Look
      PROVE  LockHeld'
  BY <1>15 DEF Look, Goto
<1>16. ASSUME Die
      PROVE  LockHeld'
  BY <1>16 DEF Die, Blank
<1>17. ASSUME Supervise
      PROVE  LockHeld'
  BY <1>17 DEF Supervise, Goto
<1>18. CASE UNCHANGED vars
  BY <1>18 DEF vars, Goto
<1> QED
  BY <1>1, <1>2, <1>3, <1>4, <1>5, <1>6, <1>7, <1>8, <1>9,
     <1>10, <1>11, <1>12, <1>13, <1>14, <1>15, <1>16, <1>17, <1>18
     DEF Next, Score, Leave, Crash, MQTTLogFails

(***************************************************************************)
(* What a thread holds is what the memory of its copy still says.          *)
(***************************************************************************)
LEMMA EditFields ==
    ASSUME NEW w \in Row
    PROVE  /\ LET v == [w EXCEPT !.kind = "rejected"] IN v.kind = "rejected" /\ v.dev = w.dev
           /\ \A l : LET v == [w EXCEPT !.lstm = l] IN
                 v.lstm = l /\ v.msg = w.msg /\ v.dev = w.dev /\ v.kind = w.kind
           /\ \A p : LET v == [w EXCEPT !.peers = p] IN
                 /\ v.peers = p /\ v.msg = w.msg /\ v.dev = w.dev /\ v.kind = w.kind
                 /\ v.lstm = w.lstm
           /\ \A m, e : LET v == [w EXCEPT !.shap = m, !.explained = e] IN
                 /\ v.shap = m /\ v.explained = e /\ v.msg = w.msg /\ v.dev = w.dev
                 /\ v.kind = w.kind /\ v.lstm = w.lstm /\ v.peers = w.peers
BY DEF Row

(* A thread that is not there to disturb another's copy.                   *)
LEMMA Apart ==
    ASSUME LockHeld, NEW t \in Threads, NEW r \in Threads, t # r, Inside(t), Inside(r)
    PROVE  Copy(t) # Copy(r)
BY DEF LockHeld

LEMMA WorkTrueStep ==
    ASSUME TypeOK, LockHeld, WorkTrue, WatchTrue, [Next]_vars
    PROVE  WorkTrue'
<1> SUFFICES ASSUME NEW r \in Transports
             PROVE  ThreadTrue(r)'
  BY DEF WorkTrue
<1>a. /\ \A t \in Threads : Copy(t)' = Copy(t) /\ Copy(t) \in Copies
      /\ pc \in [Threads -> Labels] /\ work \in [Threads -> Row]
      /\ window \in [Copies -> [Devices -> Seq(Messages)]]
      /\ features \in [Copies -> [Devices -> Messages]] /\ shap \in [Copies -> Messages]
      /\ r \in Threads /\ r # "watchdog" /\ Transports \subseteq Threads
      /\ ThreadTrue(r)
  BY CopyStep, Names DEF TypeOK, WorkTrue
<1>b. pc'[r] = pc[r] /\ work'[r] = work[r] /\ UNCHANGED memory => ThreadTrue(r)'
  BY <1>a DEF ThreadTrue, memory, Scoring
<1>1. ASSUME NEW t \in Transports, NEW d \in Devices, Arrive(t, d)
      PROVE  ThreadTrue(r)'
  <2>1. CASE t = r
    <3>1. pc'[r] = "wants" /\ work'[r] = Holds("telemetry", sent', d)
      BY <1>1, <1>a, <2>1 DEF Arrive, Goto
    <3> QED BY <3>1 DEF ThreadTrue, Holds, Scoring
  <2>2. CASE t # r
    BY <1>1, <1>a, <1>b, <2>2 DEF Arrive, Goto, memory
  <2> QED BY <2>1, <2>2
<1>2. ASSUME NEW t \in Threads, Take(t)
      PROVE  ThreadTrue(r)'
  <2>1. CASE t = r
    <3>1. pc[r] = "wants" /\ pc'[r] = "gates" /\ work'[r] = work[r]
      BY <1>2, <1>a, <2>1 DEF Take, Goto
    <3> QED BY <3>1, <1>a DEF ThreadTrue, Scoring
  <2>2. CASE t # r
    BY <1>2, <1>a, <1>b, <2>2 DEF Take, Goto, memory
  <2> QED BY <2>1, <2>2
<1>3. ASSUME NEW t \in Transports, Reject(t)
      PROVE  ThreadTrue(r)'
  <2>1. CASE t = r
    <3>1. pc[r] = "gates"
      BY <1>3, <2>1 DEF Reject
    <3>2. CASE pc'[r] = "logs" /\ work' = [work EXCEPT ![r].kind = "rejected"]
      <4>1. work'[r] = [work[r] EXCEPT !.kind = "rejected"]
        BY <3>2, <1>a
      <4>2. work'[r].kind = "rejected" /\ work'[r].dev = work[r].dev
        BY <4>1, <1>a, EditFields
      <4> QED BY <3>1, <3>2, <4>2, <1>a DEF ThreadTrue, Scoring, Scored
    <3>3. CASE pc'[r] = "leaves" /\ work'[r] = work[r]
      BY <3>1, <3>3, <1>a DEF ThreadTrue, Scoring
    <3> QED BY <1>3, <3>2, <3>3, <2>1, <1>a DEF Reject, Goto
  <2>2. CASE t # r
    BY <1>3, <1>a, <1>b, <2>2 DEF Reject, Goto, memory
  <2> QED BY <2>1, <2>2
<1>4. ASSUME NEW t \in Transports, Accept(t)
      PROVE  ThreadTrue(r)'
  <2>1. CASE t = r
    <3>1. pc[r] = "gates" /\ pc'[r] = "scores" /\ work'[r] = work[r]
      BY <1>4, <1>a, <2>1 DEF Accept, Goto
    <3> QED BY <3>1, <1>a DEF ThreadTrue, Scoring
  <2>2. CASE t # r
    BY <1>4, <1>a, <1>b, <2>2 DEF Accept, Goto, memory
  <2> QED BY <2>1, <2>2
<1>5. ASSUME NEW t \in Transports, ScoreLSTM(t)
      PROVE  ThreadTrue(r)'
  <2>1. CASE t = r
    <3> DEFINE c == Copy(r)  d == work[r].dev  w == Slide(window[c][d], work[r].msg)
    <3>1. /\ pc[r] = "scores" /\ pc'[r] = "relates"
          /\ work'[r] = [work[r] EXCEPT !.lstm = w]
          /\ window' = [window EXCEPT ![c][d] = w]
      BY <1>5, <1>a, <2>1 DEF ScoreLSTM, Goto
    <3>2. d \in Devices /\ work[r].kind = "telemetry" /\ work[r].msg \in Messages
      BY <3>1, <1>a, RowEdits DEF ThreadTrue, Scoring
    <3>3. w # << >> /\ w[Len(w)] = work[r].msg
      <4>1. window[c][d] \in Seq(Messages)
        BY <3>2, <1>a
      <4> QED BY <4>1, <3>2, SlideTyped
    <3> HIDE DEF w
    <3>4. /\ work'[r].lstm = w /\ work'[r].msg = work[r].msg /\ work'[r].dev = d
          /\ work'[r].kind = "telemetry"
      BY <3>1, <3>2, <1>a, EditFields
    <3>5. window'[c][d] = w
      BY <3>1, <3>2, <1>a
    <3> QED BY <3>1, <3>2, <3>3, <3>4, <3>5, <1>a DEF ThreadTrue, Scoring
  <2>2. CASE t # r
    <3>1. /\ pc'[r] = pc[r] /\ work'[r] = work[r] /\ UNCHANGED <<features, shap>>
          /\ Inside(t) /\ \A c \in Copies \ {Copy(t)} : window'[c] = window[c]
      BY <1>5, <2>2, <1>a DEF ScoreLSTM, Goto, Inside
    <3>2. CASE Inside(r)
      <4>1. window'[Copy(r)] = window[Copy(r)]
        BY <2>2, <3>1, <3>2, <1>a, Apart
      <4> QED BY <3>1, <4>1, <1>a DEF ThreadTrue, Scoring
    <3>3. CASE ~Inside(r)
      BY <3>1, <3>3, <1>a DEF ThreadTrue, Scoring, Inside
    <3> QED BY <3>2, <3>3
  <2> QED BY <2>1, <2>2
<1>6. ASSUME NEW t \in Transports, ScoreRelational(t)
      PROVE  ThreadTrue(r)'
  <2>1. CASE t = r
    <3> DEFINE c == Copy(r)  d == work[r].dev  p == features'[c]
    <3>1. /\ pc[r] = "relates" /\ pc'[r] = "fuses"
          /\ work'[r] = [work[r] EXCEPT !.peers = p]
          /\ features' = [features EXCEPT ![c][d] = work[r].msg]
          /\ window' = window
      BY <1>6, <1>a, <2>1 DEF ScoreRelational, Goto
    <3>2. /\ d \in Devices /\ work[r].kind = "telemetry"
          /\ work[r].lstm # << >> /\ work[r].lstm[Len(work[r].lstm)] = work[r].msg
          /\ window[c][d] = work[r].lstm
      BY <3>1, <1>a DEF ThreadTrue, Scoring
    <3>3. features'[c][d] = work[r].msg
      BY <3>1, <3>2, <1>a
    <3> HIDE DEF p
    <3>4. /\ work'[r].peers = p /\ work'[r].msg = work[r].msg /\ work'[r].dev = d
          /\ work'[r].kind = "telemetry" /\ work'[r].lstm = work[r].lstm
      BY <3>1, <3>2, <1>a, EditFields
    <3> QED BY <3>1, <3>2, <3>3, <3>4, <1>a DEF ThreadTrue, Scoring, p
  <2>2. CASE t # r
    <3>1. /\ pc'[r] = pc[r] /\ work'[r] = work[r] /\ UNCHANGED <<window, shap>>
          /\ Inside(t) /\ \A c \in Copies \ {Copy(t)} : features'[c] = features[c]
      BY <1>6, <2>2, <1>a DEF ScoreRelational, Goto, Inside
    <3>2. CASE Inside(r)
      <4>1. features'[Copy(r)] = features[Copy(r)]
        BY <2>2, <3>1, <3>2, <1>a, Apart
      <4> QED BY <3>1, <4>1, <1>a DEF ThreadTrue, Scoring
    <3>3. CASE ~Inside(r)
      BY <3>1, <3>3, <1>a DEF ThreadTrue, Scoring, Inside
    <3> QED BY <3>2, <3>3
  <2> QED BY <2>1, <2>2
<1>7. ASSUME NEW t \in Transports, Combine(t)
      PROVE  ThreadTrue(r)'
  <2>1. CASE t = r
    <3>1. /\ pc[r] = "fuses" /\ pc'[r] = "explains" /\ work'[r] = work[r]
          /\ shap'[Copy(r)] = work[r].msg /\ UNCHANGED <<window, features>>
      BY <1>7, <1>a, <2>1 DEF Combine, Goto
    <3> QED BY <3>1, <1>a DEF ThreadTrue, Scoring
  <2>2. CASE t # r
    <3>1. /\ pc'[r] = pc[r] /\ work'[r] = work[r] /\ UNCHANGED <<window, features>>
          /\ Inside(t) /\ \A c \in Copies \ {Copy(t)} : shap'[c] = shap[c]
      BY <1>7, <2>2, <1>a DEF Combine, Goto, Inside
    <3>2. CASE Inside(r)
      <4>1. shap'[Copy(r)] = shap[Copy(r)]
        BY <2>2, <3>1, <3>2, <1>a, Apart
      <4> QED BY <3>1, <4>1, <1>a DEF ThreadTrue, Scoring
    <3>3. CASE ~Inside(r)
      BY <3>1, <3>3, <1>a DEF ThreadTrue, Scoring, Inside
    <3> QED BY <3>2, <3>3
  <2> QED BY <2>1, <2>2
<1>8. ASSUME NEW t \in Transports, Explain(t)
      PROVE  ThreadTrue(r)'
  <2>1. CASE t = r
    <3> DEFINE c == Copy(r)  d == work[r].dev  e == <<window[c][d], features[c]>>
    <3>1. /\ pc[r] = "explains" /\ pc'[r] = "logs"
          /\ work'[r] = [work[r] EXCEPT !.shap = shap[c], !.explained = e]
      BY <1>8, <1>a, <2>1 DEF Explain, Goto
    <3>2. /\ d \in Devices /\ work[r].kind = "telemetry"
          /\ work[r].lstm # << >> /\ work[r].lstm[Len(work[r].lstm)] = work[r].msg
          /\ work[r].peers[d] = work[r].msg /\ shap[c] = work[r].msg
          /\ e = <<work[r].lstm, work[r].peers>>
      BY <3>1, <1>a DEF ThreadTrue, Scoring
    <3> HIDE DEF e
    <3>3. /\ work'[r].shap = shap[c] /\ work'[r].explained = e /\ work'[r].dev = d
          /\ work'[r].msg = work[r].msg /\ work'[r].kind = work[r].kind
          /\ work'[r].lstm = work[r].lstm /\ work'[r].peers = work[r].peers
      BY <3>1, <1>a, EditFields
    <3>4. Scored(work[r])'
      BY <3>2, <3>3 DEF Scored
    <3> QED BY <3>1, <3>2, <3>3, <3>4 DEF ThreadTrue, Scoring
  <2>2. CASE t # r
    BY <1>8, <1>a, <1>b, <2>2 DEF Explain, Goto, memory
  <2> QED BY <2>1, <2>2
<1>9. ASSUME NEW t \in Threads, TakeChain(t)
      PROVE  ThreadTrue(r)'
  <2>1. CASE t = r
    <3>1. pc[r] = "logs" /\ pc'[r] = "writes" /\ work'[r] = work[r]
      BY <1>9, <1>a, <2>1 DEF TakeChain, Goto
    <3> QED BY <3>1, <1>a DEF ThreadTrue, Scoring, Scored
  <2>2. CASE t # r
    BY <1>9, <1>a, <1>b, <2>2 DEF TakeChain, Goto, memory
  <2> QED BY <2>1, <2>2
<1>10. ASSUME NEW t \in Threads, Log(t)
      PROVE  ThreadTrue(r)'
  <2>1. CASE t = r
    <3>1. pc[r] = "writes" /\ pc'[r] = "leaves" /\ work'[r] = work[r]
      BY <1>10, <1>a, <2>1 DEF Log, Goto
    <3> QED BY <3>1, <1>a DEF ThreadTrue, Scoring
  <2>2. CASE t # r
    BY <1>10, <1>a, <1>b, <2>2 DEF Log, Goto, memory
  <2> QED BY <2>1, <2>2
<1>11. ASSUME NEW t \in Threads, LogFails(t)
      PROVE  ThreadTrue(r)'
  <2>1. CASE t = r
    <3>1. pc'[r] = "idle"
      BY <1>11, <1>a, <2>1 DEF LogFails, Goto
    <3> QED BY <3>1 DEF ThreadTrue, Scoring
  <2>2. CASE t # r
    BY <1>11, <1>a, <1>b, <2>2 DEF LogFails, Goto, Drop
  <2> QED BY <2>1, <2>2
<1>12. ASSUME NEW t \in Threads, Release(t)
      PROVE  ThreadTrue(r)'
  <2>1. CASE t = r
    <3>1. pc'[r] = "idle"
      BY <1>12, <1>a, <2>1 DEF Release, Goto
    <3> QED BY <3>1 DEF ThreadTrue, Scoring
  <2>2. CASE t # r
    BY <1>12, <1>a, <1>b, <2>2 DEF Release, Goto, Drop
  <2> QED BY <2>1, <2>2
<1>13. ASSUME Tick
      PROVE  ThreadTrue(r)'
  BY <1>13, <1>a, <1>b DEF Tick
<1>14. ASSUME NEW d \in Devices, Visit(d)
      PROVE  ThreadTrue(r)'
  BY <1>14, <1>a, <1>b DEF Visit, Goto
<1>15. ASSUME Look
      PROVE  ThreadTrue(r)'
  BY <1>15, <1>a, <1>b DEF Look, Goto
<1>16. ASSUME Die
      PROVE  ThreadTrue(r)'
  <2>1. pc'[r] = "idle"
    BY <1>16, <1>a DEF Die, Blank
  <2> QED BY <2>1 DEF ThreadTrue, Scoring
<1>17. ASSUME Supervise
      PROVE  ThreadTrue(r)'
  BY <1>17, <1>a, <1>b DEF Supervise
<1>18. CASE UNCHANGED vars
  BY <1>18, <1>b DEF vars
<1> QED
  BY <1>1, <1>2, <1>3, <1>4, <1>5, <1>6, <1>7, <1>8, <1>9,
     <1>10, <1>11, <1>12, <1>13, <1>14, <1>15, <1>16, <1>17, <1>18
     DEF Next, Score, Leave, Crash, MQTTLogFails

(***************************************************************************)
(* Between look and row the device of the sweep stays unheard: the watchdog*)
(* has the lock that check_flood would need, and a device heard of late has*)
(* been updated.                                                           *)
(***************************************************************************)
LEMMA WatchTrueStep ==
    ASSUME TypeOK, LockHeld, WorkTrue, WatchTrue, HeardIsUpdated, [Next]_vars
    PROVE  WatchTrue'
<1>a. /\ pc \in [Threads -> Labels] /\ work \in [Threads -> Row]
      /\ heard \in [Copies -> [Devices -> Ages]] /\ updated \in [Devices -> Ages]
      /\ "watchdog" \in Threads /\ Transports \subseteq Threads /\ "watchdog" \notin Transports
      /\ \A t \in Threads : Copy(t) \in Copies
      /\ Copy("watchdog") = "main" /\ "main" \in Copies
  BY Names DEF TypeOK
<1>b. ASSUME pc'["watchdog"] = pc["watchdog"], work'["watchdog"] = work["watchdog"],
             heard' = heard
      PROVE  WatchTrue'
  BY <1>b DEF WatchTrue
<1>1. ASSUME NEW t \in Transports, NEW d \in Devices, Arrive(t, d)
      PROVE  WatchTrue'
  BY <1>1, <1>a, <1>b DEF Arrive, Goto, silence
<1>2. ASSUME NEW t \in Threads, Take(t)
      PROVE  WatchTrue'
  <2>1. CASE t = "watchdog"
    <3>1. /\ pc["watchdog"] = "wants" /\ pc'["watchdog"] = "looks"
          /\ heard' = heard /\ work'["watchdog"] = work["watchdog"]
      BY <1>2, <1>a, <2>1 DEF Take, Goto, silence
    <3> QED BY <3>1 DEF WatchTrue
  <2>2. CASE t # "watchdog"
    BY <1>2, <1>a, <1>b, <2>2 DEF Take, Goto, silence
  <2> QED BY <2>1, <2>2
<1>3. ASSUME NEW t \in Transports, Reject(t)
      PROVE  WatchTrue'
  BY <1>3, <1>a, <1>b DEF Reject, Goto, silence
<1>4. ASSUME NEW t \in Transports, Accept(t)
      PROVE  WatchTrue'
  <2>1. /\ pc'["watchdog"] = pc["watchdog"] /\ work'["watchdog"] = work["watchdog"]
        /\ \A c \in Copies \ {Copy(t)} : heard'[c] = heard[c]
    BY <1>4, <1>a DEF Accept, Goto
  <2>2. CASE pc["watchdog"] \in {"logs", "writes"}
    <3>1. Inside(t) /\ Inside("watchdog") /\ t # "watchdog" /\ t \in Threads
      BY <1>4, <1>a, <2>2 DEF Inside, Accept
    <3>2. Copy(t) # "main"
      BY <3>1, <1>a, Apart
    <3> QED BY <2>1, <3>2, <1>a DEF WatchTrue
  <2>3. CASE pc["watchdog"] \notin {"logs", "writes"}
    BY <2>1, <2>3 DEF WatchTrue
  <2> QED BY <2>2, <2>3
<1>5. ASSUME NEW t \in Transports, ScoreLSTM(t)
      PROVE  WatchTrue'
  BY <1>5, <1>a, <1>b DEF ScoreLSTM, Goto, silence
<1>6. ASSUME NEW t \in Transports, ScoreRelational(t)
      PROVE  WatchTrue'
  BY <1>6, <1>a, <1>b DEF ScoreRelational, Goto, silence
<1>7. ASSUME NEW t \in Transports, Combine(t)
      PROVE  WatchTrue'
  BY <1>7, <1>a, <1>b DEF Combine, Goto
<1>8. ASSUME NEW t \in Transports, Explain(t)
      PROVE  WatchTrue'
  BY <1>8, <1>a, <1>b DEF Explain, Goto, silence
<1>9. ASSUME NEW t \in Threads, TakeChain(t)
      PROVE  WatchTrue'
  <2>1. CASE t = "watchdog"
    <3>1. /\ pc["watchdog"] = "logs" /\ pc'["watchdog"] = "writes"
          /\ heard' = heard /\ work'["watchdog"] = work["watchdog"]
      BY <1>9, <1>a, <2>1 DEF TakeChain, Goto, silence
    <3> QED BY <3>1 DEF WatchTrue
  <2>2. CASE t # "watchdog"
    BY <1>9, <1>a, <1>b, <2>2 DEF TakeChain, Goto, silence
  <2> QED BY <2>1, <2>2
<1>10. ASSUME NEW t \in Threads, Log(t)
      PROVE  WatchTrue'
  <2>1. CASE t = "watchdog"
    <3>1. /\ pc["watchdog"] = "writes" /\ pc'["watchdog"] = "leaves"
          /\ heard' = heard /\ work'["watchdog"] = work["watchdog"]
      BY <1>10, <1>a, <2>1 DEF Log, Goto, silence
    <3> QED BY <3>1 DEF WatchTrue
  <2>2. CASE t # "watchdog"
    BY <1>10, <1>a, <1>b, <2>2 DEF Log, Goto, silence
  <2> QED BY <2>1, <2>2
<1>11. ASSUME NEW t \in Threads, LogFails(t)
      PROVE  WatchTrue'
  <2>1. CASE t = "watchdog"
    <3>1. /\ pc["watchdog"] = "writes" /\ pc'["watchdog"] = "idle"
          /\ heard' = heard
      BY <1>11, <1>a, <2>1 DEF LogFails, Goto, silence
    <3> QED BY <3>1 DEF WatchTrue
  <2>2. CASE t # "watchdog"
    BY <1>11, <1>a, <1>b, <2>2 DEF LogFails, Goto, silence, Drop
  <2> QED BY <2>1, <2>2
<1>12. ASSUME NEW t \in Threads, Release(t)
      PROVE  WatchTrue'
  <2>1. CASE t = "watchdog"
    <3>1. /\ pc["watchdog"] = "leaves" /\ pc'["watchdog"] = "idle"
          /\ heard' = heard
      BY <1>12, <1>a, <2>1 DEF Release, Goto, silence
    <3> QED BY <3>1 DEF WatchTrue
  <2>2. CASE t # "watchdog"
    BY <1>12, <1>a, <1>b, <2>2 DEF Release, Goto, silence, Drop
  <2> QED BY <2>1, <2>2
<1>13. ASSUME Tick
      PROVE  WatchTrue'
  <2>1. pc'["watchdog"] = "idle"
    BY <1>13 DEF Tick
  <2> QED BY <2>1 DEF WatchTrue
<1>14. ASSUME NEW d \in Devices, Visit(d)
      PROVE  WatchTrue'
  <2>1. pc'["watchdog"] = "wants" /\ work'["watchdog"] = Holds("silent", 0, d)
    BY <1>14, <1>a DEF Visit, Goto
  <2> QED BY <2>1 DEF WatchTrue, Holds
<1>15. ASSUME Look
      PROVE  WatchTrue'
  <2> DEFINE d == work["watchdog"].dev
  <2>1. d \in Devices /\ pc["watchdog"] = "looks" /\ work["watchdog"].kind = "silent"
    BY <1>15 DEF Look, WatchTrue
  <2>2. CASE pc'["watchdog"] = "leaves" /\ work' = work
    BY <2>1, <2>2 DEF WatchTrue
  <2>3. CASE /\ Silent(d, Seen(d)) /\ pc'["watchdog"] = "logs"
             /\ work' = [work EXCEPT !["watchdog"].peers = features["main"]]
    <3>1. work'["watchdog"] = [work["watchdog"] EXCEPT !.peers = features["main"]]
      BY <2>3, <1>a
    <3>2. work'["watchdog"].kind = "silent" /\ work'["watchdog"].dev = d
      BY <3>1, <2>1, <1>a, EditFields
    <3>3. ASSUME heard["main"][d] \in Fresh
          PROVE  FALSE
      <4>1. updated[d] \in Fresh
        <5>1. ASSUME NEW t \in Transports, Copy(t) = "main",
                     pc[t] \in {"scores", "relates", "fuses"}
              PROVE  FALSE
          <6>1. Inside(t) /\ Inside("watchdog") /\ t # "watchdog"
            BY <5>1, <2>1, <1>a DEF Inside
          <6> QED BY <6>1, <5>1, <1>a, Apart
        <5> QED BY <5>1, <3>3, <2>1 DEF HeardIsUpdated
      <4> QED BY <4>1, <3>3, <2>3, <2>1 DEF Silent, Seen, Fresh, Never
    <3>4. heard' = heard
      BY <1>15 DEF Look
    <3> QED BY <3>2, <3>3, <3>4, <2>1, <2>3 DEF WatchTrue
  <2> QED BY <1>15, <1>a, <2>2, <2>3 DEF Look, Goto
<1>16. ASSUME Die
      PROVE  WatchTrue'
  <2>1. pc'["watchdog"] = "idle"
    BY <1>16, <1>a DEF Die, Blank
  <2> QED BY <2>1 DEF WatchTrue
<1>17. ASSUME Supervise
      PROVE  WatchTrue'
  BY <1>17, <1>a, <1>b DEF Supervise, Goto, silence
<1>18. CASE UNCHANGED vars
  BY <1>18, <1>b DEF vars, silence
<1> QED
  BY <1>1, <1>2, <1>3, <1>4, <1>5, <1>6, <1>7, <1>8, <1>9,
     <1>10, <1>11, <1>12, <1>13, <1>14, <1>15, <1>16, <1>17, <1>18
     DEF Next, Score, Leave, Crash, MQTTLogFails

(***************************************************************************)
(* A device heard of is updated, at the latest when its message is fused.  *)
(***************************************************************************)
InHand(d, t) == Copy(t) = "main" /\ work[t].dev = d /\ pc[t] \in {"scores", "relates", "fuses"}
Updated(d) == heard["main"][d] \in Fresh =>
    \/ updated[d] \in Fresh /\ updated[d] <= heard["main"][d]
    \/ \E t \in Transports : InHand(d, t)

LEMMA HeardIsUpdatedStep ==
    ASSUME TypeOK, WorkTrue, WatchTrue, HeardIsUpdated, [Next]_vars
    PROVE  HeardIsUpdated'
<1> SUFFICES ASSUME NEW e \in Devices
             PROVE  Updated(e)'
  BY DEF HeardIsUpdated, Updated, InHand
<1>a. /\ pc \in [Threads -> Labels] /\ work \in [Threads -> Row]
      /\ heard \in [Copies -> [Devices -> Ages]] /\ updated \in [Devices -> Ages]
      /\ "watchdog" \in Threads /\ Transports \subseteq Threads /\ "watchdog" \notin Transports
      /\ \A t \in Threads : Copy(t) \in Copies /\ Copy(t)' = Copy(t)
      /\ Copy("watchdog") = "main" /\ "main" \in Copies
      /\ Updated(e)
  BY Names, CopyStep DEF TypeOK, HeardIsUpdated, Updated, InHand
<1>b. ASSUME heard' = heard, updated' = updated,
             \A t \in Transports : InHand(e, t) => InHand(e, t)'
      PROVE  Updated(e)'
  BY <1>a, <1>b DEF Updated
<1>1. ASSUME NEW t \in Transports, NEW d \in Devices, Arrive(t, d)
      PROVE  Updated(e)'
  <2>1. heard' = heard /\ updated' = updated
    BY <1>1 DEF Arrive, silence
  <2>2. ASSUME NEW r \in Transports, InHand(e, r)
        PROVE  InHand(e, r)'
    BY <1>1, <1>a, <2>2 DEF Arrive, InHand, Goto
  <2> QED BY <1>b, <2>1, <2>2
<1>2. ASSUME NEW t \in Threads, Take(t)
      PROVE  Updated(e)'
  <2>1. heard' = heard /\ updated' = updated
    BY <1>2 DEF Take, silence
  <2>2. ASSUME NEW r \in Transports, InHand(e, r)
        PROVE  InHand(e, r)'
    BY <1>2, <1>a, <2>2 DEF Take, InHand, Goto
  <2> QED BY <1>b, <2>1, <2>2
<1>3. ASSUME NEW t \in Transports, Reject(t)
      PROVE  Updated(e)'
  <2>1. heard' = heard /\ updated' = updated
    BY <1>3 DEF Reject, silence
  <2>2. ASSUME NEW r \in Transports, InHand(e, r)
        PROVE  InHand(e, r)'
    <3>1. pc[t] = "gates" /\ pc[r] # "gates"
      BY <1>3, <2>2 DEF Reject, InHand
    <3>2. pc'[r] = pc[r] /\ work'[r] = work[r]
      BY <1>3, <1>a, <3>1 DEF Reject, Goto
    <3> QED BY <2>2, <3>2, <1>a DEF InHand
  <2> QED BY <1>b, <2>1, <2>2
<1>4. ASSUME NEW t \in Transports, Accept(t)
      PROVE  Updated(e)'
  <2>1. /\ pc[t] = "gates" /\ pc' = [pc EXCEPT ![t] = "scores"] /\ work' = work
        /\ updated' = updated
        /\ heard' = [heard EXCEPT ![Copy(t)][work[t].dev] = 0]
    BY <1>4 DEF Accept, Goto
  <2>2. work[t].dev \in Devices
    BY <1>4, <2>1 DEF WorkTrue, ThreadTrue
  <2>3. ASSUME NEW r \in Transports, InHand(e, r)
        PROVE  InHand(e, r)'
    BY <2>1, <2>3, <1>a DEF InHand
  <2>4. CASE Copy(t) = "main" /\ work[t].dev = e
    <3>1. InHand(e, t)'
      BY <2>1, <2>4, <1>a DEF InHand
    <3> QED BY <3>1 DEF Updated
  <2>5. CASE ~(Copy(t) = "main" /\ work[t].dev = e)
    <3>1. heard'["main"][e] = heard["main"][e]
      BY <2>1, <2>2, <2>5, <1>a
    <3> QED BY <3>1, <2>1, <2>3, <1>a DEF Updated
  <2> QED BY <2>4, <2>5
<1>5. ASSUME NEW t \in Transports, ScoreLSTM(t)
      PROVE  Updated(e)'
  <2>1. heard' = heard /\ updated' = updated
    BY <1>5 DEF ScoreLSTM, silence
  <2>2. ASSUME NEW r \in Transports, InHand(e, r)
        PROVE  InHand(e, r)'
    <3>1. CASE r = t
      <4>1. pc'[t] = "relates" /\ work'[t].dev = work[t].dev
        BY <1>5, <1>a, EditFields DEF ScoreLSTM, Goto
      <4> QED BY <4>1, <3>1, <2>2, <1>a DEF InHand
    <3>2. CASE r # t
      <4>1. pc'[r] = pc[r] /\ work'[r] = work[r]
        BY <1>5, <1>a, <3>2 DEF ScoreLSTM, Goto
      <4> QED BY <4>1, <2>2, <1>a DEF InHand
    <3> QED BY <3>1, <3>2
  <2> QED BY <1>b, <2>1, <2>2
<1>6. ASSUME NEW t \in Transports, ScoreRelational(t)
      PROVE  Updated(e)'
  <2>1. heard' = heard /\ updated' = updated
    BY <1>6 DEF ScoreRelational, silence
  <2>2. ASSUME NEW r \in Transports, InHand(e, r)
        PROVE  InHand(e, r)'
    <3>1. CASE r = t
      <4>1. pc'[t] = "fuses" /\ work'[t].dev = work[t].dev
        BY <1>6, <1>a, EditFields DEF ScoreRelational, Goto
      <4> QED BY <4>1, <3>1, <2>2, <1>a DEF InHand
    <3>2. CASE r # t
      <4>1. pc'[r] = pc[r] /\ work'[r] = work[r]
        BY <1>6, <1>a, <3>2 DEF ScoreRelational, Goto
      <4> QED BY <4>1, <2>2, <1>a DEF InHand
    <3> QED BY <3>1, <3>2
  <2> QED BY <1>b, <2>1, <2>2
<1>7. ASSUME NEW t \in Transports, Combine(t)
      PROVE  Updated(e)'
  <2>1. /\ heard' = heard /\ work' = work /\ pc[t] = "fuses"
        /\ pc' = [pc EXCEPT ![t] = "explains"]
        /\ updated' = IF Copy(t) = "main" THEN [updated EXCEPT ![work[t].dev] = 0] ELSE updated
    BY <1>7 DEF Combine, Goto
  <2>2. CASE Copy(t) = "main" /\ work[t].dev = e
    <3>1. updated'[e] = 0
      BY <2>1, <2>2, <1>a
    <3> QED BY <3>1, <2>1, <1>a DEF Updated, Fresh
  <2>3. CASE ~(Copy(t) = "main" /\ work[t].dev = e)
    <3>1. updated'[e] = updated[e]
      BY <2>1, <2>3, <1>a
    <3>2. ASSUME NEW r \in Transports, InHand(e, r)
          PROVE  InHand(e, r)'
      <4>1. r # t
        BY <3>2, <2>3 DEF InHand
      <4> QED BY <4>1, <2>1, <3>2, <1>a DEF InHand
    <3> QED BY <3>1, <3>2, <2>1, <1>a DEF Updated
  <2> QED BY <2>2, <2>3
<1>8. ASSUME NEW t \in Transports, Explain(t)
      PROVE  Updated(e)'
  <2>1. heard' = heard /\ updated' = updated
    BY <1>8 DEF Explain, silence
  <2>2. ASSUME NEW r \in Transports, InHand(e, r)
        PROVE  InHand(e, r)'
    <3>1. pc[t] = "explains" /\ pc[r] # "explains"
      BY <1>8, <2>2 DEF Explain, InHand
    <3>2. pc'[r] = pc[r] /\ work'[r] = work[r]
      BY <1>8, <1>a, <3>1 DEF Explain, Goto
    <3> QED BY <2>2, <3>2, <1>a DEF InHand
  <2> QED BY <1>b, <2>1, <2>2
<1>9. ASSUME NEW t \in Threads, TakeChain(t)
      PROVE  Updated(e)'
  <2>1. heard' = heard /\ updated' = updated
    BY <1>9 DEF TakeChain, silence
  <2>2. ASSUME NEW r \in Transports, InHand(e, r)
        PROVE  InHand(e, r)'
    BY <1>9, <1>a, <2>2 DEF TakeChain, InHand, Goto
  <2> QED BY <1>b, <2>1, <2>2
<1>10. ASSUME NEW t \in Threads, Log(t)
      PROVE  Updated(e)'
  <2>1. heard' = heard /\ updated' = updated
    BY <1>10 DEF Log, silence
  <2>2. ASSUME NEW r \in Transports, InHand(e, r)
        PROVE  InHand(e, r)'
    BY <1>10, <1>a, <2>2 DEF Log, InHand, Goto
  <2> QED BY <1>b, <2>1, <2>2
<1>11. ASSUME NEW t \in Threads, LogFails(t)
      PROVE  Updated(e)'
  <2>1. heard' = heard /\ updated' = updated
    BY <1>11 DEF LogFails, silence
  <2>2. ASSUME NEW r \in Transports, InHand(e, r)
        PROVE  InHand(e, r)'
    BY <1>11, <1>a, <2>2 DEF LogFails, InHand, Goto, Drop
  <2> QED BY <1>b, <2>1, <2>2
<1>12. ASSUME NEW t \in Threads, Release(t)
      PROVE  Updated(e)'
  <2>1. heard' = heard /\ updated' = updated
    BY <1>12 DEF Release, silence
  <2>2. ASSUME NEW r \in Transports, InHand(e, r)
        PROVE  InHand(e, r)'
    BY <1>12, <1>a, <2>2 DEF Release, InHand, Goto, Drop
  <2> QED BY <1>b, <2>1, <2>2
<1>13. ASSUME Tick
      PROVE  Updated(e)'
  <2>1. /\ heard'["main"][e] = Aged(heard["main"][e]) /\ updated'[e] = Aged(updated[e])
        /\ pc' = pc /\ work' = work
    BY <1>13, <1>a DEF Tick, Older
  <2>2. ASSUME NEW r \in Transports, InHand(e, r)
        PROVE  InHand(e, r)'
    BY <2>1, <2>2, <1>a DEF InHand
  <2>3. heard["main"][e] \in Ages /\ updated[e] \in Ages
    BY <1>a
  <2> QED BY <2>1, <2>2, <2>3, <1>a DEF Updated, Aged, Fresh, Ages, Never
<1>14. ASSUME NEW d \in Devices, Visit(d)
      PROVE  Updated(e)'
  <2>1. heard' = heard /\ updated' = updated
    BY <1>14 DEF Visit
  <2>2. ASSUME NEW r \in Transports, InHand(e, r)
        PROVE  InHand(e, r)'
    BY <1>14, <1>a, <2>2 DEF Visit, InHand, Goto
  <2> QED BY <1>b, <2>1, <2>2
<1>15. ASSUME Look
      PROVE  Updated(e)'
  <2>1. /\ heard' = heard /\ pc["watchdog"] = "looks"
        /\ updated' = [updated EXCEPT ![work["watchdog"].dev] = Seen(work["watchdog"].dev)]
        /\ \A r \in Transports : pc'[r] = pc[r] /\ work'[r] = work[r]
    BY <1>15, <1>a DEF Look, Goto
  <2>2. ASSUME NEW r \in Transports, InHand(e, r)
        PROVE  InHand(e, r)'
    BY <2>1, <2>2, <1>a DEF InHand
  <2>3. updated[e] \in Fresh => updated'[e] = updated[e]
    BY <2>1, <1>a DEF Seen, Fresh, Never
  <2> QED BY <2>1, <2>2, <2>3, <1>a DEF Updated
<1>16. ASSUME Die
      PROVE  Updated(e)'
  <2>1. heard'["main"][e] = Never
    BY <1>16, <1>a DEF Die, Blank
  <2> QED BY <2>1 DEF Updated, Fresh, Never
<1>17. ASSUME Supervise
      PROVE  Updated(e)'
  <2>1. heard' = heard /\ updated' = updated
    BY <1>17 DEF Supervise, silence
  <2>2. ASSUME NEW r \in Transports, InHand(e, r)
        PROVE  InHand(e, r)'
    BY <1>17, <1>a, <2>2 DEF Supervise, InHand, Goto
  <2> QED BY <1>b, <2>1, <2>2
<1>18. CASE UNCHANGED vars
  BY <1>18, <1>b DEF vars, silence, InHand, Copy, process
<1> QED
  BY <1>1, <1>2, <1>3, <1>4, <1>5, <1>6, <1>7, <1>8, <1>9,
     <1>10, <1>11, <1>12, <1>13, <1>14, <1>15, <1>16, <1>17, <1>18
     DEF Next, Score, Leave, Crash, MQTTLogFails

(***************************************************************************)
(* Rows: only Log writes one, and it writes what its thread holds.         *)
(***************************************************************************)
LEMMA RowsOnlyLogged ==
    ASSUME [Next]_vars
    PROVE  \/ rows' = rows
           \/ \E t \in Threads : Log(t)
<1>1. ASSUME NEW t \in Transports, NEW d \in Devices, Arrive(t, d)
      PROVE  rows' = rows \/ \E r \in Threads : Log(r)
  BY <1>1 DEF Arrive
<1>2. ASSUME NEW t \in Threads, Take(t)
      PROVE  rows' = rows \/ \E r \in Threads : Log(r)
  BY <1>2 DEF Take
<1>3. ASSUME NEW t \in Transports, Reject(t)
      PROVE  rows' = rows \/ \E r \in Threads : Log(r)
  BY <1>3 DEF Reject
<1>4. ASSUME NEW t \in Transports, Accept(t)
      PROVE  rows' = rows \/ \E r \in Threads : Log(r)
  BY <1>4 DEF Accept
<1>5. ASSUME NEW t \in Transports, ScoreLSTM(t)
      PROVE  rows' = rows \/ \E r \in Threads : Log(r)
  BY <1>5 DEF ScoreLSTM
<1>6. ASSUME NEW t \in Transports, ScoreRelational(t)
      PROVE  rows' = rows \/ \E r \in Threads : Log(r)
  BY <1>6 DEF ScoreRelational
<1>7. ASSUME NEW t \in Transports, Combine(t)
      PROVE  rows' = rows \/ \E r \in Threads : Log(r)
  BY <1>7 DEF Combine
<1>8. ASSUME NEW t \in Transports, Explain(t)
      PROVE  rows' = rows \/ \E r \in Threads : Log(r)
  BY <1>8 DEF Explain
<1>9. ASSUME NEW t \in Threads, TakeChain(t)
      PROVE  rows' = rows \/ \E r \in Threads : Log(r)
  BY <1>9 DEF TakeChain
<1>10. ASSUME NEW t \in Threads, Log(t)
      PROVE  rows' = rows \/ \E r \in Threads : Log(r)
  BY <1>10
<1>11. ASSUME NEW t \in Threads, LogFails(t)
      PROVE  rows' = rows \/ \E r \in Threads : Log(r)
  BY <1>11 DEF LogFails
<1>12. ASSUME NEW t \in Threads, Release(t)
      PROVE  rows' = rows \/ \E r \in Threads : Log(r)
  BY <1>12 DEF Release
<1>13. ASSUME Tick
      PROVE  rows' = rows \/ \E r \in Threads : Log(r)
  BY <1>13 DEF Tick
<1>14. ASSUME NEW d \in Devices, Visit(d)
      PROVE  rows' = rows \/ \E r \in Threads : Log(r)
  BY <1>14 DEF Visit
<1>15. ASSUME Look
      PROVE  rows' = rows \/ \E r \in Threads : Log(r)
  BY <1>15 DEF Look
<1>16. ASSUME Die
      PROVE  rows' = rows \/ \E r \in Threads : Log(r)
  BY <1>16 DEF Die
<1>17. ASSUME Supervise
      PROVE  rows' = rows \/ \E r \in Threads : Log(r)
  BY <1>17 DEF Supervise
<1>18. CASE UNCHANGED vars
  BY <1>18 DEF vars
<1> QED
  BY <1>1, <1>2, <1>3, <1>4, <1>5, <1>6, <1>7, <1>8, <1>9,
     <1>10, <1>11, <1>12, <1>13, <1>14, <1>15, <1>16, <1>17, <1>18
     DEF Next, Score, Leave, Crash, MQTTLogFails

LEMMA RowStep ==
    ASSUME TypeOK, RowIsOfOneMessage, WorkTrue, WatchTrue, [Next]_vars
    PROVE  RowIsOfOneMessage'
<1>1. CASE rows' = rows
  BY <1>1 DEF RowIsOfOneMessage, Scored
<1>2. ASSUME NEW t \in Threads, Log(t)
      PROVE  RowIsOfOneMessage'
  <2>1. rows \in Seq(Row) /\ work[t] \in Row
    BY DEF TypeOK
  <2>2. pc[t] = "writes" /\ rows' = Append(rows, work[t])
    BY <1>2 DEF Log
  <2>3. Scored(work[t])
    <3>1. CASE t = "watchdog"
      BY <3>1, <2>2 DEF WatchTrue, Scored
    <3>2. CASE t \in Transports
      BY <3>2, <2>2 DEF WorkTrue, ThreadTrue
    <3> QED BY <3>1, <3>2 DEF Threads
  <2>4. \A i \in DOMAIN rows' : Scored(rows'[i])
    <3> SUFFICES ASSUME NEW i \in DOMAIN rows'
                 PROVE  Scored(rows'[i])
      OBVIOUS
    <3>1. rows'[i] = work[t] \/ (i \in DOMAIN rows /\ rows'[i] = rows[i])
      BY <2>1, <2>2
    <3> QED BY <3>1, <2>3 DEF RowIsOfOneMessage
  <2> QED BY <2>4 DEF RowIsOfOneMessage, Scored
<1> QED BY <1>1, <1>2, RowsOnlyLogged

LEMMA SilenceStepSound ==
    ASSUME TypeOK, WorkTrue, WatchTrue, [Next]_vars, NEW d \in Devices, SilentRow(d)
    PROVE  heard["main"][d] \notin Fresh
<1>1. rows' # rows
  BY DEF SilentRow, TypeOK
<1>2. PICK t \in Threads : Log(t)
  BY <1>1, RowsOnlyLogged
<1>3. rows \in Seq(Row) /\ work[t] \in Row
  BY DEF TypeOK
<1>4. pc[t] = "writes" /\ rows' = Append(rows, work[t])
  BY <1>2 DEF Log
<1>5. work[t].kind = "silent" /\ work[t].dev = d
  BY <1>3, <1>4 DEF SilentRow
<1>6. t \notin Transports
  BY <1>4, <1>5 DEF WorkTrue, ThreadTrue
<1> QED BY <1>4, <1>5, <1>6 DEF WatchTrue, Threads
-----------------------------------------------------------------------------
(***************************************************************************)
(* The theorems.                                                           *)
(***************************************************************************)
LEMMA InitIInv == Init => IInv
<1> SUFFICES ASSUME Init PROVE IInv
  OBVIOUS
<1>1. ScalarOK /\ LockOK /\ PcOK
  BY DEF Init, Blank, ScalarOK, LockOK, PcOK, Labels, Messages
<1>2. WorkOK
  <2>1. "none" \in Kinds /\ 0 \in Messages /\ Nobody \in Devices \cup {Nobody}
    BY EmptyTyped DEF Kinds
  <2>2. Nothing \in Row
    BY <1>1, <2>1, HoldsTyped DEF Nothing
  <2> QED BY <2>2 DEF Init, WorkOK
<1>3. MemoryOK
  BY EmptyTyped DEF Init, Blank, MemoryOK
<1>4. SilenceOK
  BY DEF Init, Blank, SilenceOK, Ages, Never
<1>5. TypeOK
  BY <1>1, <1>2, <1>3, <1>4, TypeParts
<1>6. RowIsOfOneMessage
  BY DEF Init, RowIsOfOneMessage
<1>7. LockHeld
  BY Names DEF Init, Blank, LockHeld, Inside, Free, Threads, Transports, Copies
<1>8. WorkTrue /\ WatchTrue
  BY Names DEF Init, Blank, WorkTrue, ThreadTrue, WatchTrue, Scoring
<1>9. HeardIsUpdated
  BY Names DEF Init, Blank, HeardIsUpdated, Fresh, Never
<1> QED BY <1>5, <1>6, <1>7, <1>8, <1>9 DEF IInv

LEMMA NextIInv ==
    ASSUME IInv, [Next]_vars
    PROVE  IInv'
<1> USE DEF IInv
<1>1. LockHeld' /\ WorkTrue' /\ WatchTrue' /\ HeardIsUpdated' /\ RowIsOfOneMessage'
  BY LockHeldStep, WorkTrueStep, WatchTrueStep, HeardIsUpdatedStep, RowStep
<1>2. ScalarOK /\ LockOK /\ PcOK /\ WorkOK /\ MemoryOK /\ SilenceOK
  BY TypeParts
<1>3. ScalarOK' /\ LockOK' /\ PcOK'
  BY <1>2, ScalarStep, LockStep, PcStep
<1>4. MemoryOK' /\ SilenceOK'
  BY <1>2, MemoryStep, SilenceStep
<1>5. WorkOK'
  BY <1>4, WorkStep
<1>6. TypeOK'
  BY <1>3, <1>4, <1>5 DEF TypeOK, ScalarOK, LockOK, PcOK, WorkOK, MemoryOK, SilenceOK
<1> QED BY <1>1, <1>6

(* The inductive invariant holds in every reachable state of the process.  *)
THEOREM Invariance == Spec => []IInv
BY InitIInv, NextIInv, PTL DEF Spec

(* Every variable of the gateway's threads stays in its range.             *)
THEOREM TypeCorrect == Spec => []TypeOK
<1>1. IInv => TypeOK
  BY DEF IInv
<1> QED BY <1>1, Invariance, PTL

(* A telemetry row never mixes two messages: its window, its peers, its    *)
(* last_shap and its explanation are those its message was scored with,    *)
(* over either transport and with one or two copies of the module.         *)
THEOREM RowsAreOfOneMessage == Spec => []RowIsOfOneMessage
<1>1. IInv => RowIsOfOneMessage
  BY DEF IInv
<1> QED BY <1>1, Invariance, PTL

(* Whoever is between Take and Release holds the lock of its copy, so no   *)
(* two threads of a copy are in the pipeline at once.                      *)
THEOREM PipelineIsExclusive == Spec => []LockHeld
<1>1. IInv => LockHeld
  BY DEF IInv
<1> QED BY <1>1, Invariance, PTL

(* A SILENT row is written only while the writing copy has not heard of    *)
(* the device within the limit.                                            *)
THEOREM SilenceSound == Spec => SilenceIsSound
<1>1. ASSUME IInv, [Next]_vars
      PROVE  [\A d \in Devices : SilentRow(d) => heard["main"][d] \notin Fresh]_vars
  BY <1>1, SilenceStepSound DEF IInv
<1> QED BY <1>1, Invariance, PTL DEF Spec, SilenceIsSound
-----------------------------------------------------------------------------
(***************************************************************************)
(* Silences: each is told once.                                            *)
(***************************************************************************)

(* What the types say, in the form the steps below use. *)
LEMMA EpisodeTypes ==
    ASSUME TypeOK
    PROVE  /\ pc \in [Threads -> Labels] /\ work \in [Threads -> Row]
           /\ sent \in 0 .. MaxMessages /\ sent \in Nat /\ deaths \in Nat
           /\ rows \in Seq(Row) /\ alerted \subseteq Devices
           /\ features \in [Copies -> [Devices -> Messages]]
           /\ \A d \in Devices : features["main"][d] \in Messages
           /\ heard \in [Copies -> [Devices -> Ages]] /\ updated \in [Devices -> Ages]
           /\ \A t \in Threads : work[t].msg \in Messages /\ work[t].peers \in [Devices -> Messages]
<1>1. \A r \in Row : r.msg \in Messages /\ r.peers \in [Devices -> Messages]
  BY DEF Row
<1>2. /\ pc \in [Threads -> Labels] /\ work \in [Threads -> Row] /\ rows \in Seq(Row)
      /\ sent \in 0 .. MaxMessages /\ deaths \in 0 .. MaxDeaths /\ alerted \subseteq Devices
      /\ features \in [Copies -> [Devices -> Messages]]
      /\ heard \in [Copies -> [Devices -> Ages]] /\ updated \in [Devices -> Ages]
  BY DEF TypeOK, Messages
<1>3. \A d \in Devices : features["main"][d] \in Messages
  BY <1>2, Names
<1>4. \A t \in Threads : work[t].msg \in Messages /\ work[t].peers \in [Devices -> Messages]
  BY <1>1, <1>2
<1>5. sent \in Nat /\ deaths \in Nat
  BY <1>2
<1> QED
  BY <1>2, <1>3, <1>4, <1>5, Zenon

LEMMA ReportedStays ==
    ASSUME rows' = rows, deaths' = deaths
    PROVE  \A d, m : Reported(d, m)' <=> Reported(d, m)
BY DEF Reported

(* A message in the pipeline that can be heard but not yet scored. *)
Hears(d, t) == Copy(t) = "main" /\ work[t].dev = d /\ pc[t] \in {"scores", "relates"}

(* A step of one thread that leaves rows, scorers and silence alone. *)
LEMMA QuietStep ==
    ASSUME TypeOK, EpisodeInv,
           UNCHANGED <<rows, deaths, sent, features, alerted, heard, updated, twice>>,
           NEW t \in Threads, NEW l \in Labels, pc' = [pc EXCEPT ![t] = l],
           \A u \in Threads : u # t => work'[u] = work[u],
           l # "idle" => work'[t].life = deaths,
           t \in Transports /\ l # "idle" =>
               pc[t] # "idle" /\ work'[t].msg = work[t].msg /\ work'[t].dev = work[t].dev,
           t \in Transports =>
               /\ l \in Pending => pc[t] \in Pending
               /\ l # "fuses"
               /\ pc[t] \in {"scores", "relates"} => l \in {"scores", "relates"},
           t = "watchdog" /\ l \in {"logs", "writes"} =>
               pc[t] \in {"logs", "writes"} /\ work'[t] = work[t]
    PROVE  EpisodeInv'
<1>1. /\ pc \in [Threads -> Labels]
      /\ \A u \in Threads : Copy(u)' = Copy(u)
      /\ "watchdog" \in Threads /\ "watchdog" \notin Transports /\ Transports \subseteq Threads
  BY EpisodeTypes, Names DEF Copy
<1>2. pc'[t] = l /\ \A u \in Threads : u # t => pc'[u] = pc[u]
  BY <1>1
<1>3. \A d, m : Reported(d, m)' <=> Reported(d, m)
  BY ReportedStays
<1>4. \A d, m : Telling(d, m)' => Telling(d, m)
  BY <1>1, <1>2 DEF Telling
<1>5. \A d, m : Told(d, m)' => Told(d, m)
  BY <1>3, <1>4 DEF Told
<1>6. LivesTrue /\ Numbered /\ NeverScored /\ StillAlerted /\ ToldOnce /\ OncePerEpisode
  BY DEF EpisodeInv
<1>7. LivesTrue'
  BY <1>1, <1>2, <1>6 DEF LivesTrue
<1>8. Numbered'
  <2>1. \A u \in Transports : pc'[u] # "idle" => pc[u] # "idle" /\ work'[u].msg = work[u].msg
    BY <1>1, <1>2
  <2> QED
    BY <2>1, <1>5, <1>6 DEF Numbered
<1>9. NeverScored'
  <2>1. \A u \in Transports :
          /\ pc'[u] \in Pending => pc[u] \in Pending /\ work'[u].msg = work[u].msg
          /\ pc'[u] = "fuses" => pc[u] = "fuses" /\ work'[u].msg = work[u].msg
    BY <1>1, <1>2 DEF Pending
  <2> QED
    BY <2>1, <1>1, <1>5, <1>6 DEF NeverScored
<1>10. StillAlerted'
  <2>1. \A u \in Transports, d \in Devices : Hears(d, u) => Hears(d, u)'
    BY <1>1, <1>2 DEF Hears
  <2>2. ASSUME NEW d \in Devices, Told(d, features["main"][d])'
        PROVE  /\ d \in alerted
               /\ \/ heard["main"][d] > StaleAfter \/ updated[d] > StaleAfter
                  \/ \E u \in Transports : Hears(d, u)
    BY <2>2, <1>5, <1>6 DEF StillAlerted, Hears
  <2> QED
    BY <2>1, <2>2 DEF StillAlerted, Hears
<1>11. ToldOnce'
  BY <1>3, <1>4, <1>6 DEF ToldOnce
<1>12. OncePerEpisode'
  BY <1>6 DEF OncePerEpisode
<1> QED
  BY <1>7, <1>8, <1>9, <1>10, <1>11, <1>12 DEF EpisodeInv

LEMMA EpisodeInit == Init => EpisodeInv
<1> SUFFICES ASSUME Init PROVE EpisodeInv
  OBVIOUS
<1>1. /\ rows = << >> /\ sent = 0 /\ deaths = 0 /\ \A t \in Threads : pc[t] = "idle"
      /\ \A d \in Devices : features["main"][d] = 0
  BY Names DEF Init, Blank, Empty
<1>2. \A d, m : ~Told(d, m)
  BY <1>1, Names DEF Told, Reported, Telling
<1>3. LivesTrue /\ Numbered
  BY <1>1, <1>2, Names DEF LivesTrue, Numbered
<1>4. NeverScored /\ StillAlerted
  BY <1>1, <1>2, Names DEF NeverScored, StillAlerted, Pending
<1>5. ToldOnce /\ OncePerEpisode
  BY <1>1, <1>2 DEF ToldOnce, OncePerEpisode, Told
<1> QED
  BY <1>3, <1>4, <1>5 DEF EpisodeInv

(* The steps of that kind. *)
LEMMA QuietSteps ==
    ASSUME IInv, EpisodeInv
    PROVE  /\ \A t \in Threads : Take(t) \/ TakeChain(t) \/ LogFails(t) \/ Release(t) => EpisodeInv'
           /\ \A t \in Transports : Reject(t) \/ ScoreLSTM(t) \/ Explain(t) => EpisodeInv'
           /\ \A d \in Devices : Visit(d) => EpisodeInv'
<1>1. TypeOK /\ WatchTrue /\ LivesTrue
  BY DEF IInv, EpisodeInv
<1>2. /\ pc \in [Threads -> Labels] /\ work \in [Threads -> Row]
      /\ Transports \subseteq Threads /\ "watchdog" \in Threads /\ "watchdog" \notin Transports
  BY <1>1, EpisodeTypes, Names
<1>3. \A t \in Threads : pc[t] # "idle" => work[t].life = deaths
  BY <1>1 DEF LivesTrue
<1>4. ASSUME NEW t \in Threads, Take(t) PROVE EpisodeInv'
  <2> DEFINE l == IF t = "watchdog" THEN "looks" ELSE "gates"
  <2>1. /\ UNCHANGED <<rows, deaths, sent, features, alerted, heard, updated, twice>>
        /\ pc[t] = "wants" /\ pc' = [pc EXCEPT ![t] = l] /\ work' = work
    BY <1>4 DEF Take, memory, silence, process, Goto
  <2>2. l \in Labels /\ l \notin {"idle", "logs", "writes", "fuses"}
    BY DEF Labels
  <2> HIDE DEF l
  <2> QED
    BY <1>1, <1>3, <2>1, <2>2, QuietStep DEF Pending
<1>5. ASSUME NEW t \in Threads, TakeChain(t) PROVE EpisodeInv'
  <2>1. /\ UNCHANGED <<rows, deaths, sent, features, alerted, heard, updated, twice>>
        /\ pc[t] = "logs" /\ pc' = [pc EXCEPT ![t] = "writes"] /\ work' = work
    BY <1>5 DEF TakeChain, memory, silence, process, Goto
  <2>2. "writes" \in Labels
    BY DEF Labels
  <2> QED
    BY <1>1, <1>3, <2>1, <2>2, QuietStep DEF Pending
<1>6. ASSUME NEW t \in Threads, LogFails(t) \/ Release(t) PROVE EpisodeInv'
  <2>1. /\ UNCHANGED <<rows, deaths, sent, features, alerted, heard, updated, twice>>
        /\ pc[t] \in {"writes", "leaves"} /\ pc' = [pc EXCEPT ![t] = "idle"]
        /\ work' = [work EXCEPT ![t] = Nothing]
    BY <1>6 DEF LogFails, Release, memory, silence, process, Goto, Drop
  <2>2. "idle" \in Labels /\ \A u \in Threads : u # t => work'[u] = work[u]
    BY <1>2, <2>1 DEF Labels
  <2> QED
    BY <1>1, <1>3, <2>1, <2>2, QuietStep DEF Pending
<1>7. ASSUME NEW t \in Transports, Reject(t) PROVE EpisodeInv'
  <2>0. t \in Threads /\ t # "watchdog" /\ work[t] \in Row
    BY <1>2
  <2>1. PICK l \in {"logs", "leaves"} :
            /\ UNCHANGED <<rows, deaths, sent, features, alerted, heard, updated, twice>>
            /\ pc[t] = "gates" /\ pc' = [pc EXCEPT ![t] = l]
            /\ work' = work \/ work' = [work EXCEPT ![t].kind = "rejected"]
    BY <1>7 DEF Reject, memory, silence, process, Goto
  <2>2. l \in Labels /\ l \notin Pending \cup {"idle", "fuses"}
    BY DEF Labels, Pending
  <2>3. /\ \A u \in Threads : u # t => work'[u] = work[u]
        /\ work'[t].life = work[t].life /\ work'[t].msg = work[t].msg
        /\ work'[t].dev = work[t].dev
    <3>1. /\ [work[t] EXCEPT !.kind = "rejected"].life = work[t].life
          /\ [work[t] EXCEPT !.kind = "rejected"].msg = work[t].msg
          /\ [work[t] EXCEPT !.kind = "rejected"].dev = work[t].dev
      BY <2>0 DEF Row
    <3> QED
      BY <1>2, <2>0, <2>1, <3>1
  <2>4. work'[t].life = deaths
    BY <1>3, <2>0, <2>1, <2>3
  <2> QED
    BY <1>1, <2>0, <2>1, <2>2, <2>3, <2>4, QuietStep
<1>8. ASSUME NEW t \in Transports, ScoreLSTM(t) PROVE EpisodeInv'
  <2>0. t \in Threads /\ t # "watchdog" /\ work[t] \in Row
    BY <1>2
  <2>1. /\ UNCHANGED <<rows, deaths, sent, features, alerted, heard, updated, twice>>
        /\ pc[t] = "scores" /\ pc' = [pc EXCEPT ![t] = "relates"]
        /\ \A u \in Threads : u # t => work'[u] = work[u]
    BY <1>2, <1>8 DEF ScoreLSTM, silence, process, Goto
  <2>2. "relates" \in Labels /\ "relates" \in Pending /\ pc[t] \in Pending
    BY <2>1 DEF Labels, Pending
  <2>3. \A w : /\ [work[t] EXCEPT !.lstm = w].life = work[t].life
               /\ [work[t] EXCEPT !.lstm = w].msg = work[t].msg
               /\ [work[t] EXCEPT !.lstm = w].dev = work[t].dev
    BY <2>0 DEF Row
  <2>4. \E w : work'[t] = [work[t] EXCEPT !.lstm = w]
    BY <1>2, <1>8, <2>0 DEF ScoreLSTM
  <2>5. /\ work'[t].life = deaths /\ work'[t].msg = work[t].msg
        /\ work'[t].dev = work[t].dev
    BY <1>3, <2>0, <2>1, <2>3, <2>4
  <2> QED
    BY <1>1, <2>0, <2>1, <2>2, <2>5, QuietStep
<1>9. ASSUME NEW t \in Transports, Explain(t) PROVE EpisodeInv'
  <2>0. t \in Threads /\ t # "watchdog" /\ work[t] \in Row
    BY <1>2
  <2>1. /\ UNCHANGED <<rows, deaths, sent, features, alerted, heard, updated, twice>>
        /\ pc[t] = "explains" /\ pc' = [pc EXCEPT ![t] = "logs"]
        /\ \A u \in Threads : u # t => work'[u] = work[u]
    BY <1>2, <1>9 DEF Explain, memory, silence, process, Goto
  <2>2. "logs" \in Labels /\ "logs" \notin Pending
    BY DEF Labels, Pending
  <2>3. \A x, y : /\ [work[t] EXCEPT !.shap = x, !.explained = y].life = work[t].life
                  /\ [work[t] EXCEPT !.shap = x, !.explained = y].msg = work[t].msg
                  /\ [work[t] EXCEPT !.shap = x, !.explained = y].dev = work[t].dev
    BY <2>0 DEF Row
  <2>4. \E x, y : work'[t] = [work[t] EXCEPT !.shap = x, !.explained = y]
    BY <1>2, <1>9, <2>0 DEF Explain
  <2>5. /\ work'[t].life = deaths /\ work'[t].msg = work[t].msg
        /\ work'[t].dev = work[t].dev
    BY <1>3, <2>0, <2>1, <2>3, <2>4
  <2> QED
    BY <1>1, <2>0, <2>1, <2>2, <2>5, QuietStep
<1>10. ASSUME NEW d \in Devices, Visit(d) PROVE EpisodeInv'
  <2>1. /\ UNCHANGED <<rows, deaths, sent, features, alerted, heard, updated, twice>>
        /\ pc' = [pc EXCEPT !["watchdog"] = "wants"]
        /\ work' = [work EXCEPT !["watchdog"] = Holds("silent", 0, d)]
    BY <1>10 DEF Visit, memory, process, Goto
  <2>2. "wants" \in Labels
    BY DEF Labels
  <2>3. /\ work'["watchdog"].life = deaths
        /\ \A u \in Threads : u # "watchdog" => work'[u] = work[u]
    BY <1>2, <2>1 DEF Holds
  <2> QED
    BY <1>1, <1>2, <2>1, <2>2, <2>3, QuietStep
<1> QED
  BY <1>4, <1>5, <1>6, <1>7, <1>8, <1>9, <1>10

(* The supervisor's step, and none. *)
LEMMA RestStep ==
    ASSUME EpisodeInv, Supervise \/ UNCHANGED vars
    PROVE  EpisodeInv'
<1>1. UNCHANGED <<rows, deaths, sent, features, alerted, heard, updated, twice, pc, work>>
  BY DEF Supervise, vars, memory, silence, process
<1>2. \A t : Copy(t)' = Copy(t)
  BY <1>1 DEF Copy
<1>3. \A d, m : (Reported(d, m)' <=> Reported(d, m)) /\ (Telling(d, m)' <=> Telling(d, m))
  BY <1>1 DEF Reported, Telling
<1>4. \A d, m : Told(d, m)' <=> Told(d, m)
  BY <1>3 DEF Told
<1> QED
  BY <1>1, <1>2, <1>3, <1>4 DEF EpisodeInv, LivesTrue, Numbered, NeverScored, StillAlerted,
     ToldOnce, OncePerEpisode

(* A message arrives with a number nobody has seen. *)
LEMMA ArriveEpisode ==
    ASSUME IInv, EpisodeInv, NEW t \in Transports, NEW e \in Devices, Arrive(t, e)
    PROVE  EpisodeInv'
<1>1. /\ pc \in [Threads -> Labels] /\ work \in [Threads -> Row] /\ sent \in Nat
      /\ \A d \in Devices : features["main"][d] \in Messages
      /\ t \in Threads /\ t # "watchdog" /\ Transports \subseteq Threads
      /\ "watchdog" \in Threads
  BY EpisodeTypes, Names DEF IInv
<1>2. LivesTrue /\ Numbered /\ NeverScored /\ StillAlerted /\ ToldOnce /\ OncePerEpisode
  BY DEF EpisodeInv
<1>3. /\ UNCHANGED <<rows, deaths, features, alerted, heard, updated, twice>>
      /\ pc[t] = "idle" /\ pc' = [pc EXCEPT ![t] = "wants"] /\ sent' = sent + 1
      /\ sent < MaxMessages
      /\ work' = [work EXCEPT ![t] = Holds("telemetry", sent', e)]
  BY DEF Arrive, memory, silence, process, Goto
<1>4. /\ pc'[t] = "wants" /\ work'[t].msg = sent + 1 /\ work'[t].life = deaths
      /\ \A u \in Threads : u # t => pc'[u] = pc[u] /\ work'[u] = work[u]
  BY <1>1, <1>3 DEF Holds
<1>5. \A u : Copy(u)' = Copy(u)
  BY <1>3 DEF Copy
<1>6. \A d, m : Reported(d, m)' <=> Reported(d, m)
  BY <1>3, ReportedStays
<1>7. \A d, m : Telling(d, m)' <=> Telling(d, m)
  BY <1>1, <1>4 DEF Telling
<1>8. \A d, m : Told(d, m)' <=> Told(d, m)
  BY <1>6, <1>7 DEF Told
<1>9. LivesTrue'
  BY <1>2, <1>3, <1>4 DEF LivesTrue
<1>10. sent + 1 \in Messages
  <2>1. sent \in Nat /\ sent < MaxMessages
    BY <1>1, <1>3, Zenon
  <2> QED
    BY <2>1, BoundsAssumption DEF Messages
<1>11. /\ \A d \in Devices : ~Told(d, sent + 1) /\ features["main"][d] # sent + 1
       /\ \A u \in Transports : pc[u] # "idle" => work[u].msg \in 1 .. sent
  <2>1. ~(sent + 1 <= sent)
    BY <1>1
  <2>2. \A d \in Devices : ~Told(d, sent + 1) /\ features["main"][d] # sent + 1
    BY <1>2, <1>10, <2>1, Zenon DEF Numbered
  <2> QED
    BY <1>2, <2>2, Zenon DEF Numbered
<1>12. Numbered'
  <2>1. \A u \in Transports : pc'[u] # "idle" => work'[u].msg \in 1 .. sent + 1
    BY <1>1, <1>4, <1>11
  <2>2. \A u, v \in Transports :
          u # v /\ pc'[u] # "idle" /\ pc'[v] # "idle" => work'[u].msg # work'[v].msg
    <3>1. \A u \in Transports : u # t /\ pc[u] # "idle" => work[u].msg # sent + 1
      BY <1>1, <1>11
    <3> QED
      BY <3>1, <1>1, <1>2, <1>4 DEF Numbered
  <2>3. \A d \in Devices : features["main"][d] <= sent + 1
    <3>1. \A m \in Messages : m <= sent => m <= sent + 1
      BY <1>1 DEF Messages
    <3>2. \A d \in Devices : features["main"][d] <= sent
      BY <1>2, Zenon DEF Numbered
    <3> QED
      BY <3>1, <3>2, <1>1, Zenon
  <2>4. \A d \in Devices, m \in Messages : Told(d, m) => m <= sent + 1
    <3>1. \A d \in Devices, m \in Messages : Told(d, m) => m <= sent
      BY <1>2 DEF Numbered
    <3>2. \A m \in Messages : m <= sent => m <= sent + 1
      BY <1>1 DEF Messages
    <3> QED
      BY <3>1, <3>2
  <2> QED
    BY <1>3, <1>8, <2>1, <2>2, <2>3, <2>4 DEF Numbered
<1>13. NeverScored'
  BY <1>1, <1>2, <1>3, <1>4, <1>5, <1>8, <1>11 DEF NeverScored, Pending
<1>14. StillAlerted'
  <2>1. \A u \in Transports, d \in Devices : Hears(d, u) => Hears(d, u)'
    BY <1>1, <1>3, <1>4, <1>5 DEF Hears
  <2> QED
    BY <1>2, <1>3, <1>8, <2>1 DEF StillAlerted, Hears
<1>15. ToldOnce' /\ OncePerEpisode'
  BY <1>2, <1>3, <1>6, <1>7 DEF ToldOnce, OncePerEpisode
<1> QED
  BY <1>9, <1>12, <1>13, <1>14, <1>15 DEF EpisodeInv

(* A thread of the pipeline moves on, and with it what it holds. *)
LEMMA MoveOn ==
    ASSUME TypeOK, LivesTrue, Numbered, NEW t \in Transports, NEW l \in Labels, l # "idle",
           UNCHANGED <<rows, deaths, sent, features, twice>>, pc[t] # "idle",
           pc' = [pc EXCEPT ![t] = l], work' = work
    PROVE  /\ \A u : Copy(u)' = Copy(u)
           /\ \A d, m : Reported(d, m)' <=> Reported(d, m)
           /\ \A d, m : Telling(d, m)' <=> Telling(d, m)
           /\ \A d, m : Told(d, m)' <=> Told(d, m)
           /\ pc'[t] = l /\ \A u \in Threads : u # t => pc'[u] = pc[u]
           /\ LivesTrue' /\ Numbered'
<1>1. /\ pc \in [Threads -> Labels] /\ t \in Threads /\ t # "watchdog"
      /\ Transports \subseteq Threads /\ "watchdog" \in Threads
  BY EpisodeTypes, Names
<1>2. /\ pc'[t] = l /\ \A u \in Threads : u # t => pc'[u] = pc[u]
  BY <1>1
<1>3. \A u : Copy(u)' = Copy(u)
  BY DEF Copy
<1>4. \A d, m : Reported(d, m)' <=> Reported(d, m)
  BY ReportedStays
<1>5. \A d, m : Telling(d, m)' <=> Telling(d, m)
  BY <1>1, <1>2 DEF Telling
<1>6. \A d, m : Told(d, m)' <=> Told(d, m)
  BY <1>4, <1>5 DEF Told
<1>7. LivesTrue'
  BY <1>2 DEF LivesTrue
<1>8. Numbered'
  <2>1. \A u \in Transports : pc'[u] # "idle" => pc[u] # "idle"
    BY <1>1, <1>2
  <2> QED
    BY <2>1, <1>6 DEF Numbered
<1> QED
  BY <1>2, <1>3, <1>4, <1>5, <1>6, <1>7, <1>8, Zenon

(* An arrival is noted: its message is in the pipeline. *)
LEMMA AcceptEpisode ==
    ASSUME IInv, EpisodeInv, NEW t \in Transports, Accept(t)
    PROVE  EpisodeInv'
<1>1. /\ TypeOK /\ LivesTrue /\ Numbered /\ NeverScored /\ StillAlerted /\ ToldOnce
      /\ OncePerEpisode
  BY DEF IInv, EpisodeInv
<1>2. /\ UNCHANGED <<rows, deaths, sent, features, twice, alerted, updated>>
      /\ pc[t] = "gates" /\ pc' = [pc EXCEPT ![t] = "scores"] /\ work' = work
      /\ heard' = [heard EXCEPT ![Copy(t)][work[t].dev] = 0]
  BY DEF Accept, memory, process, Goto
<1>3. "scores" \in Labels
  BY DEF Labels
<1>4. /\ \A u : Copy(u)' = Copy(u)
      /\ \A d, m : Reported(d, m)' <=> Reported(d, m)
      /\ \A d, m : Telling(d, m)' <=> Telling(d, m)
      /\ \A d, m : Told(d, m)' <=> Told(d, m)
      /\ pc'[t] = "scores" /\ \A u \in Threads : u # t => pc'[u] = pc[u]
      /\ LivesTrue' /\ Numbered'
  BY <1>1, <1>2, <1>3, MoveOn
<1>5. /\ heard \in [Copies -> [Devices -> Ages]] /\ Transports \subseteq Threads
      /\ Copy(t) \in Copies /\ "main" \in Copies
  BY <1>1, EpisodeTypes, Names
<1>6. NeverScored'
  BY <1>1, <1>2, <1>4, <1>5 DEF NeverScored, Pending
<1>7. StillAlerted'
  <2>1. \A d \in Devices : heard'["main"][d] # heard["main"][d]
          => Copy(t) = "main" /\ work[t].dev = d
    BY <1>2, <1>5
  <2>2. \A d \in Devices : Copy(t) = "main" /\ work[t].dev = d => Hears(d, t)'
    BY <1>2, <1>4 DEF Hears
  <2>3. \A u \in Transports, d \in Devices : Hears(d, u) => Hears(d, u)'
    BY <1>2, <1>4, <1>5 DEF Hears
  <2> QED
    BY <1>1, <1>2, <1>4, <2>1, <2>2, <2>3 DEF StillAlerted, Hears
<1>8. ToldOnce' /\ OncePerEpisode'
  BY <1>1, <1>2, <1>4 DEF ToldOnce, OncePerEpisode
<1> QED
  BY <1>4, <1>6, <1>7, <1>8 DEF EpisodeInv

(* The message is through: no silence is known by it. *)
LEMMA CombineEpisode ==
    ASSUME IInv, EpisodeInv, NEW t \in Transports, Combine(t)
    PROVE  EpisodeInv'
<1>1. /\ TypeOK /\ LivesTrue /\ Numbered /\ NeverScored /\ StillAlerted /\ ToldOnce
      /\ OncePerEpisode /\ WorkTrue
  BY DEF IInv, EpisodeInv
<1>2. /\ UNCHANGED <<rows, deaths, sent, features, twice, alerted, heard>>
      /\ pc[t] = "fuses" /\ pc' = [pc EXCEPT ![t] = "explains"] /\ work' = work
      /\ updated' = IF Copy(t) = "main" THEN [updated EXCEPT ![work[t].dev] = 0] ELSE updated
  BY DEF Combine, process, Goto
<1>3. "explains" \in Labels
  BY DEF Labels
<1>4. /\ \A u : Copy(u)' = Copy(u)
      /\ \A d, m : Reported(d, m)' <=> Reported(d, m)
      /\ \A d, m : Telling(d, m)' <=> Telling(d, m)
      /\ \A d, m : Told(d, m)' <=> Told(d, m)
      /\ pc'[t] = "explains" /\ \A u \in Threads : u # t => pc'[u] = pc[u]
      /\ LivesTrue' /\ Numbered'
  BY <1>1, <1>2, <1>3, MoveOn
<1>5. /\ updated \in [Devices -> Ages] /\ Transports \subseteq Threads
  BY <1>1, EpisodeTypes, Names
<1>6. NeverScored'
  BY <1>1, <1>2, <1>4, <1>5 DEF NeverScored, Pending
<1>7. StillAlerted'
  <2>1. work[t].dev \in Devices /\ features[Copy(t)][work[t].dev] = work[t].msg
    BY <1>1, <1>2 DEF WorkTrue, ThreadTrue
  <2>2. Copy(t) = "main" => ~Told(work[t].dev, features["main"][work[t].dev])
    BY <1>1, <1>2, <2>1 DEF NeverScored
  <2>3. \A d \in Devices : Told(d, features["main"][d]) => updated'[d] = updated[d]
    BY <1>2, <1>5, <2>1, <2>2
  <2>4. \A u \in Transports, d \in Devices : Hears(d, u) => Hears(d, u)'
    BY <1>2, <1>4, <1>5 DEF Hears
  <2> QED
    BY <1>1, <1>2, <1>4, <2>3, <2>4 DEF StillAlerted, Hears
<1>8. ToldOnce' /\ OncePerEpisode'
  BY <1>1, <1>2, <1>4 DEF ToldOnce, OncePerEpisode
<1> QED
  BY <1>4, <1>6, <1>7, <1>8 DEF EpisodeInv

(* The message is scored: what is known of its device is new. *)
LEMMA ScoreRelationalEpisode ==
    ASSUME IInv, EpisodeInv, NEW t \in Transports, ScoreRelational(t)
    PROVE  EpisodeInv'
<1>1. /\ TypeOK /\ LivesTrue /\ Numbered /\ NeverScored /\ StillAlerted /\ ToldOnce
      /\ OncePerEpisode /\ WorkTrue
  BY DEF IInv, EpisodeInv
<1> DEFINE e == work[t].dev
           n == work[t].msg
<1>2. /\ UNCHANGED <<rows, deaths, sent, twice, alerted, heard, updated>>
      /\ pc[t] = "relates" /\ pc' = [pc EXCEPT ![t] = "fuses"]
      /\ features' = [features EXCEPT ![Copy(t)][e] = n]
      /\ work' = [work EXCEPT ![t].peers = features'[Copy(t)]]
  BY DEF ScoreRelational, silence, process, Goto
<1>3. /\ pc \in [Threads -> Labels] /\ work \in [Threads -> Row] /\ sent \in Nat
      /\ features \in [Copies -> [Devices -> Messages]]
      /\ Transports \subseteq Threads /\ t \in Threads /\ t # "watchdog" /\ "watchdog" \in Threads
      /\ Copy(t) \in Copies /\ "main" \in Copies
  BY <1>1, EpisodeTypes, Names
<1>4. e \in Devices
  BY <1>1, <1>2 DEF WorkTrue, ThreadTrue
<1>5. /\ pc'[t] = "fuses"
      /\ \A u \in Threads : u # t => pc'[u] = pc[u] /\ work'[u] = work[u]
      /\ work'[t].life = work[t].life /\ work'[t].msg = n /\ work'[t].dev = e
  <2>1. work[t] \in Row
    BY <1>3
  <2>2. \A f : /\ [work[t] EXCEPT !.peers = f].life = work[t].life
               /\ [work[t] EXCEPT !.peers = f].msg = n /\ [work[t] EXCEPT !.peers = f].dev = e
    BY <2>1 DEF Row
  <2>3. work'[t] = [work[t] EXCEPT !.peers = features'[Copy(t)]]
    BY <1>2, <1>3
  <2> QED
    BY <1>2, <1>3, <2>2, <2>3
<1> HIDE DEF e, n
<1>6. \A u : Copy(u)' = Copy(u)
  BY <1>2 DEF Copy
<1>7. \A d, m : Reported(d, m)' <=> Reported(d, m)
  BY <1>2, ReportedStays
<1>8. \A d, m : Telling(d, m)' <=> Telling(d, m)
  BY <1>3, <1>5 DEF Telling
<1>9. \A d, m : Told(d, m)' <=> Told(d, m)
  BY <1>7, <1>8 DEF Told
<1>10. \A d \in Devices : features'["main"][d] = IF Copy(t) = "main" /\ d = e
                                                 THEN n ELSE features["main"][d]
  BY <1>2, <1>3, <1>4
<1>11. /\ n \in 1 .. sent
       /\ \A u \in Transports : u # t /\ pc[u] # "idle" => work[u].msg # n
       /\ Copy(t) = "main" => \A d \in Devices : ~Told(d, n)
  BY <1>1, <1>2 DEF Numbered, NeverScored, Pending, n
<1>12. LivesTrue'
  BY <1>1, <1>2, <1>3, <1>5 DEF LivesTrue
<1>13. Numbered'
  <2>1. \A u \in Transports : work'[u].msg = work[u].msg /\ (pc'[u] # "idle" => pc[u] # "idle")
    BY <1>2, <1>3, <1>5 DEF n
  <2>2. \A d \in Devices : features'["main"][d] <= sent
    BY <1>1, <1>3, <1>10, <1>11 DEF Numbered
  <2> QED
    BY <1>1, <1>2, <1>9, <2>1, <2>2 DEF Numbered
<1>14. NeverScored'
  <2>1. \A u \in Transports : /\ work'[u].msg = work[u].msg
                              /\ pc'[u] \in Pending => u # t /\ pc[u] \in Pending
                              /\ pc'[u] = "fuses" => u = t \/ pc[u] = "fuses"
    BY <1>3, <1>5 DEF Pending, n
  <2>2. ASSUME NEW u \in Transports, NEW d \in Devices, Copy(u) = "main"
        PROVE  /\ pc'[u] \in Pending => features'["main"][d] # work'[u].msg
               /\ pc'[u] \in Pending \cup {"fuses"} => ~Told(d, work'[u].msg)
    <3>1. pc'[u] \in Pending => features'["main"][d] # work'[u].msg
      <4>1. ASSUME pc'[u] \in Pending PROVE u # t /\ pc[u] \in Pending /\ pc[u] # "idle"
        BY <4>1, <2>1 DEF Pending
      <4> QED
        BY <4>1, <1>1, <1>10, <1>11, <2>1, <2>2 DEF NeverScored
    <3>2. CASE u = t
      BY <3>1, <3>2, <1>5, <1>11, <2>2
    <3>3. CASE u # t
      BY <3>1, <3>3, <1>1, <2>1, <2>2 DEF NeverScored
    <3> QED
      BY <3>2, <3>3
  <2> QED
    BY <2>2, <1>6, <1>9 DEF NeverScored
<1>15. StillAlerted'
  <2>1. ASSUME NEW d \in Devices, Told(d, features'["main"][d])
        PROVE  /\ features'["main"][d] = features["main"][d]
               /\ \A u \in Transports : Hears(d, u) => Hears(d, u)'
    <3>1. ~(Copy(t) = "main" /\ d = e)
      BY <2>1, <1>10, <1>11
    <3>2. \A u \in Transports : Hears(d, u) => u # t
      BY <3>1 DEF Hears, e
    <3> QED
      BY <3>1, <3>2, <1>3, <1>5, <1>6, <1>10 DEF Hears
  <2> QED
    BY <2>1, <1>1, <1>2, <1>9 DEF StillAlerted, Hears
<1>16. ToldOnce' /\ OncePerEpisode'
  BY <1>1, <1>2, <1>7, <1>8 DEF ToldOnce, OncePerEpisode
<1> QED
  BY <1>12, <1>13, <1>14, <1>15, <1>16 DEF EpisodeInv

(* A row is written: of a message, or of a silence told for the first time.*)
LEMMA LogEpisode ==
    ASSUME IInv, EpisodeInv, NEW t \in Threads, Log(t)
    PROVE  EpisodeInv'
<1>1. /\ TypeOK /\ LivesTrue /\ Numbered /\ NeverScored /\ StillAlerted /\ ToldOnce
      /\ OncePerEpisode /\ WorkTrue /\ WatchTrue
  BY DEF IInv, EpisodeInv
<1> DEFINE w == work[t]
           n == Len(rows)
<1>2. /\ UNCHANGED <<work, deaths, sent, twice, features, alerted, heard, updated>>
      /\ pc[t] = "writes" /\ pc' = [pc EXCEPT ![t] = "leaves"] /\ rows' = Append(rows, w)
  BY DEF Log, memory, silence, process, Goto
<1>3. /\ pc \in [Threads -> Labels] /\ rows \in Seq(Row) /\ w \in Row /\ n \in Nat
      /\ Transports \subseteq Threads /\ "watchdog" \in Threads /\ "watchdog" \notin Transports
      /\ \A u \in Threads : work[u].peers \in [Devices -> Messages]
  BY <1>1, EpisodeTypes, Names
<1>4. /\ DOMAIN rows = 1 .. n /\ DOMAIN rows' = 1 .. n + 1 /\ rows'[n + 1] = w
      /\ \A i \in 1 .. n : rows'[i] = rows[i]
      /\ \A i \in 1 .. n + 1 : i \in 1 .. n \/ i = n + 1
      /\ 1 .. n \subseteq 1 .. n + 1 /\ n + 1 \in 1 .. n + 1
  BY <1>2, <1>3
<1>5. pc'[t] = "leaves" /\ \A u \in Threads : u # t => pc'[u] = pc[u]
  BY <1>2, <1>3
<1>6. \A u : Copy(u)' = Copy(u)
  BY <1>2 DEF Copy
<1>7. w.life = deaths /\ (t = "watchdog" <=> w.kind = "silent")
  BY <1>1, <1>2, <1>3 DEF LivesTrue, WorkTrue, ThreadTrue, WatchTrue, Threads
<1> HIDE DEF n, w
<1>8. \A d, m : Reported(d, m)' <=>
          Reported(d, m) \/ (w.kind = "silent" /\ w.dev = d /\ w.peers[d] = m)
  <2> SUFFICES ASSUME NEW d, NEW m
               PROVE  Reported(d, m)' <=>
                        Reported(d, m) \/ (w.kind = "silent" /\ w.dev = d /\ w.peers[d] = m)
    OBVIOUS
  <2> DEFINE Of(r) == /\ r.kind = "silent" /\ r.dev = d /\ r.life = deaths /\ r.peers[d] = m
  <2>1. Reported(d, m) <=> \E i \in 1 .. n : Of(rows[i])
    BY <1>4 DEF Reported
  <2>2. Reported(d, m)' <=> \E i \in 1 .. n + 1 : Of(rows'[i])
    BY <1>2, <1>4 DEF Reported
  <2>3. (\E i \in 1 .. n + 1 : Of(rows'[i])) <=> (\E i \in 1 .. n : Of(rows[i])) \/ Of(w)
    <3> HIDE DEF Of
    <3>1. (\E i \in 1 .. n : Of(rows[i])) => \E i \in 1 .. n + 1 : Of(rows'[i])
      BY <1>4
    <3>2. Of(w) => \E i \in 1 .. n + 1 : Of(rows'[i])
      BY <1>4
    <3>3. (\E i \in 1 .. n + 1 : Of(rows'[i])) => (\E i \in 1 .. n : Of(rows[i])) \/ Of(w)
      BY <1>4
    <3> QED
      BY <3>1, <3>2, <3>3
  <2>4. Of(w) <=> w.kind = "silent" /\ w.dev = d /\ w.peers[d] = m
    BY <1>7
  <2> HIDE DEF Of
  <2> QED
    BY <2>1, <2>2, <2>3, <2>4, Zenon
<1>9. \A d, m : Telling(d, m)' <=> Telling(d, m) /\ t # "watchdog"
  BY <1>2, <1>3, <1>5 DEF Telling
<1>10. \A d, m : Told(d, m)' => Told(d, m)
  <2>1. ASSUME NEW d, NEW m, w.kind = "silent" /\ w.dev = d /\ w.peers[d] = m
        PROVE  Telling(d, m)
    BY <2>1, <1>2, <1>7 DEF Telling, w
  <2> QED
    BY <2>1, <1>8, <1>9 DEF Told
<1>11. LivesTrue'
  <2>1. \A i \in 1 .. n + 1 : rows'[i].life <= deaths
    <3>1. deaths <= deaths
      BY <1>1, EpisodeTypes
    <3> QED
      BY <3>1, <1>1, <1>4, <1>7 DEF LivesTrue
  <2> QED
    BY <2>1, <1>1, <1>2, <1>3, <1>4, <1>5 DEF LivesTrue
<1>12. \A u \in Threads : pc'[u] # "idle" => pc[u] # "idle"
  BY <1>2, <1>5
<1>13. Numbered'
  BY <1>1, <1>2, <1>3, <1>10, <1>12 DEF Numbered
<1>14. NeverScored'
  BY <1>1, <1>2, <1>3, <1>5, <1>6, <1>10 DEF NeverScored, Pending
<1>15. StillAlerted'
  <2>1. \A u \in Transports, d \in Devices : Hears(d, u) => Hears(d, u)'
    BY <1>2, <1>3, <1>5, <1>6 DEF Hears
  <2> QED
    BY <2>1, <1>1, <1>2, <1>10 DEF StillAlerted, Hears
<1>16. ToldOnce'
  BY <1>1, <1>7, <1>8, <1>9 DEF ToldOnce
<1>17. OncePerEpisode'
  <2>1. ASSUME NEW i \in 1 .. n, w.kind = "silent", rows[i].kind = "silent",
               rows[i].dev = w.dev, rows[i].life = w.life
        PROVE  rows[i].peers[rows[i].dev] # w.peers[w.dev]
    <3>1. w.dev \in Devices /\ Telling(w.dev, w.peers[w.dev])
      BY <2>1, <1>1, <1>2, <1>7 DEF WatchTrue, Telling, w
    <3>2. w.peers[w.dev] \in Messages
      BY <3>1, <1>3 DEF w
    <3>3. ~Reported(w.dev, w.peers[w.dev])
      BY <3>1, <3>2, <1>1 DEF ToldOnce
    <3> QED
      BY <2>1, <3>3, <1>4, <1>7 DEF Reported
  <2>2. ASSUME NEW i \in 1 .. n + 1, NEW j \in 1 .. n + 1, i < j,
               rows'[i].kind = "silent", rows'[j].kind = "silent",
               rows'[i].dev = rows'[j].dev, rows'[i].life = rows'[j].life
        PROVE  rows'[i].peers[rows'[i].dev] # rows'[j].peers[rows'[j].dev]
    <3>1. i \in 1 .. n
      BY <2>2, <1>3
    <3>2. CASE j \in 1 .. n
      BY <2>2, <3>1, <3>2, <1>1, <1>4 DEF OncePerEpisode
    <3>3. CASE j = n + 1
      BY <2>1, <2>2, <3>1, <3>3, <1>4
    <3> QED
      BY <3>2, <3>3, <1>4
  <2> QED
    BY <2>2, <1>4 DEF OncePerEpisode
<1> QED
  BY <1>11, <1>13, <1>14, <1>15, <1>16, <1>17 DEF EpisodeInv

(* Time passes: what is silent stays so. *)
LEMMA TickEpisode ==
    ASSUME IInv, EpisodeInv, Tick
    PROVE  EpisodeInv'
<1>1. /\ UNCHANGED <<rows, deaths, sent, features, alerted, twice, pc, work>>
      /\ heard' = [c \in Copies |-> Older(heard[c])] /\ updated' = Older(updated)
  BY DEF Tick, memory, process
<1>2. /\ heard \in [Copies -> [Devices -> Ages]] /\ updated \in [Devices -> Ages]
      /\ "main" \in Copies
  BY EpisodeTypes, Names DEF IInv
<1>3. \A a \in Ages : a > StaleAfter => Aged(a) > StaleAfter
  BY DEF Ages, Aged, Fresh, Never
<1>4. \A d \in Devices : /\ heard["main"][d] > StaleAfter => heard'["main"][d] > StaleAfter
                         /\ updated[d] > StaleAfter => updated'[d] > StaleAfter
  BY <1>1, <1>2, <1>3 DEF Older
<1>5. \A t : Copy(t)' = Copy(t)
  BY <1>1 DEF Copy
<1>6. \A d, m : (Reported(d, m)' <=> Reported(d, m)) /\ (Telling(d, m)' <=> Telling(d, m))
  BY <1>1 DEF Reported, Telling
<1>7. \A d, m : Told(d, m)' <=> Told(d, m)
  BY <1>6 DEF Told
<1>8. StillAlerted'
  BY <1>1, <1>4, <1>5, <1>7 DEF EpisodeInv, StillAlerted
<1> QED
  BY <1>1, <1>5, <1>6, <1>7, <1>8 DEF EpisodeInv, LivesTrue, Numbered, NeverScored,
     ToldOnce, OncePerEpisode

(* A new life of the process has told nothing. *)
LEMMA DieEpisode ==
    ASSUME IInv, EpisodeInv, Die
    PROVE  EpisodeInv'
<1>1. /\ deaths' = deaths + 1 /\ sent' = sent /\ rows' = rows
      /\ \A t \in Threads : pc'[t] = "idle"
      /\ \A d \in Devices : features'["main"][d] = 0
  BY Names DEF Die, Blank, Empty
<1>2. deaths \in Nat /\ sent \in Nat /\ rows \in Seq(Row) /\ "watchdog" \in Threads
      /\ Transports \subseteq Threads
  BY EpisodeTypes, Names DEF IInv
<1>3. \A i \in DOMAIN rows : rows[i].life <= deaths /\ rows[i].life \in Nat
  <2>1. \A r \in Row : r.life \in Nat
    BY DEF Row
  <2> QED
    BY <1>2, <2>1 DEF EpisodeInv, LivesTrue
<1>4. \A i \in DOMAIN rows : rows[i].life # deaths + 1 /\ rows[i].life <= deaths + 1
  BY <1>2, <1>3
<1>5. \A d, m : ~Reported(d, m)' /\ ~Telling(d, m)'
  BY <1>1, <1>2, <1>4 DEF Reported, Telling
<1>6. \A d, m : ~Told(d, m)'
  BY <1>5 DEF Told
<1>7. LivesTrue'
  BY <1>1, <1>4 DEF LivesTrue
<1>8. Numbered'
  BY <1>1, <1>2, <1>6 DEF Numbered
<1>9. NeverScored' /\ StillAlerted'
  BY <1>1, <1>2, <1>6 DEF NeverScored, StillAlerted, Pending
<1>10. ToldOnce' /\ OncePerEpisode'
  BY <1>1, <1>5 DEF EpisodeInv, ToldOnce, OncePerEpisode
<1> QED
  BY <1>7, <1>8, <1>9, <1>10 DEF EpisodeInv

(* While the watchdog looks, nobody else is in the pipeline of its copy. *)
LEMMA LookAlone ==
    ASSUME IInv, pc["watchdog"] = "looks", NEW t \in Transports, Copy(t) = "main"
    PROVE  pc[t] \in {"idle", "wants"}
<1>1. LockHeld /\ t \in Threads /\ "watchdog" \in Threads /\ t # "watchdog"
      /\ Copy("watchdog") = "main"
  BY Names DEF IInv
<1>2. lock["main"] = "watchdog"
  BY <1>1 DEF LockHeld, Inside
<1>3. lock["main"] # t
  BY <1>1, <1>2
<1> QED
  BY <1>1, <1>3 DEF LockHeld, Inside

(* The watchdog looks at a device: it tells a silence that is news, and    *)
(* forgets one only after a message was scored.                            *)
LEMMA LookEpisode ==
    ASSUME IInv, EpisodeInv, Look
    PROVE  EpisodeInv'
<1>1. /\ TypeOK /\ LivesTrue /\ Numbered /\ NeverScored /\ StillAlerted /\ ToldOnce
      /\ OncePerEpisode /\ WatchTrue
  BY DEF IInv, EpisodeInv
<1> DEFINE e == work["watchdog"].dev
           tells == Silent(e, Seen(e)) /\ e \notin alerted
           p == features["main"]
<1>2. /\ UNCHANGED <<rows, deaths, sent, twice, features, heard>> /\ pc["watchdog"] = "looks"
      /\ updated' = [updated EXCEPT ![e] = Seen(e)]
      /\ tells => /\ alerted' = alerted \cup {e}
                  /\ pc' = [pc EXCEPT !["watchdog"] = "logs"]
                  /\ work' = [work EXCEPT !["watchdog"].peers = p]
      /\ ~tells => /\ alerted' = IF Silent(e, Seen(e)) THEN alerted ELSE alerted \ {e}
                   /\ pc' = [pc EXCEPT !["watchdog"] = "leaves"] /\ work' = work
  BY DEF Look, memory, process, Goto
<1>3. /\ pc \in [Threads -> Labels] /\ work \in [Threads -> Row] /\ sent \in Nat
      /\ updated \in [Devices -> Ages] /\ features \in [Copies -> [Devices -> Messages]]
      /\ \A d \in Devices : p[d] \in Messages
      /\ Transports \subseteq Threads /\ "watchdog" \in Threads /\ "watchdog" \notin Transports
  BY <1>1, EpisodeTypes, Names
<1>4. e \in Devices
  BY <1>1, <1>2 DEF WatchTrue
<1>5. /\ \A u \in Transports : pc'[u] = pc[u] /\ work'[u] = work[u]
      /\ pc'["watchdog"] = IF tells THEN "logs" ELSE "leaves"
      /\ work'["watchdog"].life = work["watchdog"].life /\ work'["watchdog"].dev = e
      /\ tells => work'["watchdog"].peers = p
  <2>1. work["watchdog"] \in Row
    BY <1>3
  <2>2. LET f == [work["watchdog"] EXCEPT !.peers = p]
        IN  f.life = work["watchdog"].life /\ f.dev = e /\ f.peers = p
    BY <2>1 DEF Row
  <2>3. tells => work'["watchdog"] = [work["watchdog"] EXCEPT !.peers = p]
    BY <1>2, <1>3
  <2>4. ~tells => work'["watchdog"] = work["watchdog"]
    BY <1>2
  <2>5. \A u \in Transports : pc'[u] = pc[u] /\ work'[u] = work[u]
    BY <1>2, <1>3
  <2>6. pc'["watchdog"] = IF tells THEN "logs" ELSE "leaves"
    BY <1>2, <1>3
  <2> HIDE DEF e, p, tells
  <2> QED
    BY <2>2, <2>3, <2>4, <2>5, <2>6 DEF e
<1>6. \A u : Copy(u)' = Copy(u)
  BY <1>2 DEF Copy
<1>7. \A d, m : Reported(d, m)' <=> Reported(d, m)
  BY <1>2, ReportedStays
<1> HIDE DEF tells, p, e
<1>8. \A d, m : ~Telling(d, m) /\ (Telling(d, m)' <=> tells /\ d = e /\ m = p[e])
  <2> SUFFICES ASSUME NEW d, NEW m
               PROVE  ~Telling(d, m) /\ (Telling(d, m)' <=> tells /\ d = e /\ m = p[e])
    OBVIOUS
  <2>1. ~Telling(d, m)
    BY <1>2 DEF Telling
  <2>2. Telling(d, m)' => tells /\ d = e /\ m = p[e]
    BY <1>5 DEF Telling
  <2>3. tells /\ d = e /\ m = p[e] => Telling(d, m)'
    BY <1>5 DEF Telling
  <2> QED
    BY <2>1, <2>2, <2>3
<1>9. \A d, m : Told(d, m)' <=> Told(d, m) \/ (tells /\ d = e /\ m = p[e])
  BY <1>7, <1>8 DEF Told
<1>10. LivesTrue'
  <2>1. \A u \in Threads : pc'[u] # "idle" => work'[u].life = deaths
    BY <1>1, <1>2, <1>5 DEF LivesTrue, Threads
  <2> QED
    BY <2>1, <1>1, <1>2 DEF LivesTrue
<1>11. Numbered'
  <2>1. p[e] <= sent
    BY <1>1, <1>4 DEF Numbered, p
  <2> QED
    BY <2>1, <1>1, <1>2, <1>5, <1>9 DEF Numbered
<1>12. NeverScored'
  <2>1. ASSUME NEW u \in Transports, Copy(u) = "main", pc[u] \in Pending \cup {"fuses"}
        PROVE  work[u].msg # p[e]
    <3>1. pc[u] \in Pending
      BY <2>1, <1>2, LookAlone DEF Pending
    <3> QED
      BY <2>1, <3>1, <1>1, <1>4 DEF NeverScored, p
  <2> QED
    BY <2>1, <1>1, <1>2, <1>5, <1>6, <1>9 DEF NeverScored
<1>13. StillAlerted'
  <2>1. \A u \in Transports, d \in Devices : ~Hears(d, u)
    BY <1>2, LookAlone DEF Hears
  <2>2. \A d \in Devices : Told(d, p[d]) =>
          d \in alerted /\ (heard["main"][d] > StaleAfter \/ updated[d] > StaleAfter)
    BY <2>1, <1>1 DEF StillAlerted, Hears, p
  <2>3. updated[e] > StaleAfter => Seen(e) = updated[e]
    BY <1>3, <1>4 DEF Seen, Never
  <2>4. \A d \in Devices : updated'[d] = IF d = e THEN Seen(e) ELSE updated[d]
    BY <1>2, <1>3, <1>4
  <2>5. \A d \in Devices : updated[d] > StaleAfter => updated'[d] > StaleAfter
    BY <2>3, <2>4
  <2>6. Told(e, p[e]) => Silent(e, Seen(e))
    BY <2>2, <2>3, <1>4 DEF Silent
  <2>7. tells => Silent(e, Seen(e))
    BY DEF tells
  <2>8. Silent(e, Seen(e)) => heard["main"][e] > StaleAfter \/ updated'[e] > StaleAfter
    BY <2>4, <1>4 DEF Silent
  <2>9. ASSUME NEW d \in Devices, Told(d, p[d]) \/ (tells /\ d = e)
        PROVE  d \in alerted' /\ (heard["main"][d] > StaleAfter \/ updated'[d] > StaleAfter)
    <3>1. CASE d # e
      BY <2>2, <2>5, <2>9, <3>1, <1>2
    <3>2. CASE d = e
      <4>1. Silent(e, Seen(e))
        BY <2>6, <2>7, <2>9, <3>2
      <4>2. e \in alerted'
        BY <4>1, <1>2 DEF tells
      <4> QED
        BY <4>1, <4>2, <2>8, <3>2
    <3> QED
      BY <3>1, <3>2
  <2>10. \A d \in Devices : features'["main"][d] = p[d] /\ heard'["main"][d] = heard["main"][d]
    BY <1>2 DEF p
  <2> QED
    BY <2>9, <2>10, <1>9 DEF StillAlerted
<1>14. ToldOnce'
  <2>1. tells => ~Told(e, p[e])
    BY <1>1, <1>4 DEF StillAlerted, tells, p
  <2>2. tells => ~Reported(e, p[e])
    BY <2>1 DEF Told
  <2> QED
    BY <2>2, <1>7, <1>8 DEF ToldOnce
<1>15. OncePerEpisode'
  BY <1>1, <1>2 DEF OncePerEpisode
<1> QED
  BY <1>10, <1>11, <1>12, <1>13, <1>14, <1>15 DEF EpisodeInv

LEMMA EpisodeStep ==
    ASSUME IInv, EpisodeInv, [Next]_vars
    PROVE  EpisodeInv'
<1>1. ASSUME NEW t \in Transports, Score(t) PROVE EpisodeInv'
  BY <1>1, QuietSteps, AcceptEpisode, ScoreRelationalEpisode, CombineEpisode DEF Score
<1>2. ASSUME NEW t \in Threads, Take(t) \/ Leave(t) PROVE EpisodeInv'
  BY <1>2, QuietSteps, LogEpisode DEF Leave
<1>3. ASSUME NEW t \in Transports, NEW d \in Devices, Arrive(t, d) PROVE EpisodeInv'
  BY <1>3, ArriveEpisode
<1>4. ASSUME NEW d \in Devices, Visit(d) PROVE EpisodeInv'
  BY <1>4, QuietSteps
<1>5. CASE Tick \/ Look
  BY <1>5, TickEpisode, LookEpisode
<1>6. CASE Crash \/ MQTTLogFails
  BY <1>6, DieEpisode DEF Crash, MQTTLogFails
<1>7. CASE Supervise \/ UNCHANGED vars
  BY <1>7, RestStep
<1> QED
  BY <1>1, <1>2, <1>3, <1>4, <1>5, <1>6, <1>7 DEF Next

(* Two SILENT rows of a device in one life of the process always have a    *)
(* message of it scored in between: the watchdog's _silence_alerted forgets*)
(* a device only after the pipeline, under its lock, heard and scored it.  *)
THEOREM SilenceToldOnce == Spec => []OncePerEpisode
<1>1. EpisodeInv => OncePerEpisode
  BY DEF EpisodeInv
<1> QED
  BY <1>1, EpisodeInit, EpisodeStep, Invariance, PTL DEF Spec
=============================================================================
