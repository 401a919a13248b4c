---------------------------- MODULE GatewayThreads ----------------------------
(***************************************************************************)
(* The threads of one gateway process: the MQTT loop and the HTTPS server, *)
(* which both run gateway.py's process_telemetry, and the silence watchdog.*)
(* They share the per-device memories of the scorers, the fusion engine's  *)
(* last_shap, the silence state and the audit log.  The supervisor starts  *)
(* the process again when it dies.                                         *)
(*                                                                         *)
(* - coap_server.py imports gateway for itself.  When the gateway runs as a*)
(*   script that is a second copy of the module, with a lock and a state of*)
(*   its own; when it was imported it is the same module.                  *)
(* - What the gates and the policy decide is left to other modules: a      *)
(*   message is accepted or rejected.  A score is known by the messages it *)
(*   was computed from.                                                    *)
(* - Time is counted in SILENCE_CHECK_INTERVAL_SECONDS, up to the staleness*)
(*   limit, which is longer (5 s against 20 s, for both limits).           *)
(* - A quarantine's second row is written under the same locks and left    *)
(*   out, and so is an operator's stop.                                    *)
(***************************************************************************)
EXTENDS Integers, Sequences

CONSTANTS
    Devices,        \* the devices the watchdog looks after
    SeqLen,         \* LSTM_SEQ_LEN
    StaleAfter,     \* STALE_AFTER_SECONDS and PROCESS_STALE_AFTER_SECONDS
    MaxMessages, MaxFaults, MaxDeaths     \* bounds

ASSUME LimitsAssumption == SeqLen \in Nat \ {0} /\ StaleAfter \in Nat \ {0}
ASSUME BoundsAssumption ==
    MaxMessages \in Nat /\ MaxFaults \in Nat /\ MaxDeaths \in Nat

VARIABLES
    twice,      \* is the HTTPS server's gateway a second copy?
    sent,       \* the number of messages so far; the last one is this message
    lock,       \* _pipeline_lock of each copy
    chain,      \* audit_log's _chain_lock
    pc,         \* where each thread is
    work,       \* what each thread holds in its local variables
    window,     \* LSTMAEScorer._history of each copy
    features,   \* SetTransformerScorer.last_features of each copy
    shap,       \* FusionEngine.last_shap of each copy
    heard,      \* age of the newest of message_arrivals, up to StaleAfter + 1
    updated,    \* age of the process anomaly state, of the copy that runs the watchdog
    todo,       \* devices the sweep in progress has yet to look at
    alerted,    \* _silence_alerted, of that copy too
    watching,   \* does the watchdog's thread live?
    up,         \* does the process live?
    rows,       \* the audit rows written
    faults,     \* audit rows that could not be written
    deaths      \* times the process died

memory  == <<window, features, shap>>
silence == <<heard, updated, alerted, todo>>
process == <<twice, up, deaths, faults, watching>>
vars == <<sent, lock, chain, pc, work, memory, silence, process, rows>>

Free == "free"
Never == -1
Transports == {"mqtt", "https"}
Threads == Transports \cup {"watchdog"}
Copies == {"main", "imported"}
Copy(t) == IF t = "https" /\ twice THEN "imported" ELSE "main"
Ages == Never .. StaleAfter + 1
Fresh == 0 .. StaleAfter

Empty == [d \in Devices |-> 0]
Holds(k, m, d) == [kind |-> k, msg |-> m, dev |-> d, lstm |-> << >>, peers |-> Empty,
                   shap |-> 0, explained |-> <<<< >>, Empty>>, life |-> deaths]
Nobody == "nobody"
ASSUME DevicesAssumption == Nobody \notin Devices
Nothing == Holds("none", 0, Nobody)
Drop(t) == work' = [work EXCEPT ![t] = Nothing]

(* Memory as the import of the module leaves it.                           *)
Blank ==
    [lock |-> [c \in Copies |-> Free],
     pc |-> [t \in Threads |-> "idle"],
     window |-> [c \in Copies |-> [d \in Devices |-> << >>]],
     features |-> [c \in Copies |-> Empty],
     shap |-> [c \in Copies |-> 0],
     age |-> [d \in Devices |-> Never],
     ages |-> [c \in Copies |-> [d \in Devices |-> Never]]]

Init ==
    /\ twice \in BOOLEAN /\ up = TRUE /\ deaths = 0 /\ faults = 0 /\ watching = TRUE
    /\ sent = 0 /\ rows = << >>
    /\ lock = Blank.lock /\ chain = Free /\ pc = Blank.pc
    /\ work = [t \in Threads |-> Nothing]
    /\ window = Blank.window /\ features = Blank.features /\ shap = Blank.shap
    /\ heard = Blank.ages /\ updated = Blank.age /\ alerted = {} /\ todo = {}
-----------------------------------------------------------------------------
(* process_telemetry: thread t has one message and the lock of its copy.   *)

Goto(t, l) == pc' = [pc EXCEPT ![t] = l]

Arrive(t, d) ==
    /\ up /\ pc[t] = "idle" /\ sent < MaxMessages
    /\ sent' = sent + 1
    /\ work' = [work EXCEPT ![t] = Holds("telemetry", sent', d)]
    /\ Goto(t, "wants")
    /\ UNCHANGED <<lock, chain, memory, silence, process, rows>>

(* Mutant of Take: the pipeline without its lock.                          *)
TakeNothing(t) ==
    /\ pc[t] = "wants" /\ Goto(t, IF t = "watchdog" THEN "looks" ELSE "gates")
    /\ UNCHANGED <<lock, chain, sent, work, memory, silence, process, rows>>
Take(t) ==
    /\ pc[t] = "wants" /\ lock[Copy(t)] = Free
    /\ lock' = [lock EXCEPT ![Copy(t)] = t]
    /\ Goto(t, IF t = "watchdog" THEN "looks" ELSE "gates")
    /\ UNCHANGED <<chain, sent, work, memory, silence, process, rows>>

(* A gate says no: most leave a row, a few leave nothing.                  *)
Reject(t) ==
    /\ pc[t] = "gates"
    /\ \/ Goto(t, "logs") /\ work' = [work EXCEPT ![t].kind = "rejected"]
       \/ Goto(t, "leaves") /\ UNCHANGED work
    /\ UNCHANGED <<lock, chain, sent, memory, silence, process, rows>>

(* Every gate passed; check_flood notes the arrival.                       *)
Accept(t) ==
    /\ pc[t] = "gates" /\ Goto(t, "scores")
    /\ heard' = [heard EXCEPT ![Copy(t)][work[t].dev] = 0]
    /\ UNCHANGED <<lock, chain, sent, work, memory, updated, alerted, todo, process, rows>>

(* The window slides over the message and is scored.                       *)
Slide(w, m) == IF Len(w) < SeqLen THEN Append(w, m) ELSE Append(Tail(w), m)
ScoreLSTM(t) == LET c == Copy(t)  d == work[t].dev  w == Slide(window[c][d], work[t].msg) IN
    /\ pc[t] = "scores" /\ Goto(t, "relates")
    /\ window' = [window EXCEPT ![c][d] = w]
    /\ work' = [work EXCEPT ![t].lstm = w]
    /\ UNCHANGED <<lock, chain, sent, features, shap, silence, process, rows>>

ScoreRelational(t) == LET c == Copy(t)  d == work[t].dev  m == work[t].msg IN
    /\ pc[t] = "relates" /\ Goto(t, "fuses")
    /\ features' = [features EXCEPT ![c][d] = m]
    /\ work' = [work EXCEPT ![t].peers = features'[c]]
    /\ UNCHANGED <<lock, chain, sent, window, shap, silence, process, rows>>

Combine(t) ==
    /\ pc[t] = "fuses" /\ Goto(t, "explains")
    /\ shap' = [shap EXCEPT ![Copy(t)] = work[t].msg]
    /\ updated' = IF Copy(t) = "main" THEN [updated EXCEPT ![work[t].dev] = 0] ELSE updated
    /\ UNCHANGED <<lock, chain, sent, work, window, features, heard, alerted, todo, process, rows>>

(* Level 2 follows last_shap to the signal and reads its window or the     *)
(* features once more; the row takes last_shap itself.                     *)
Explain(t) == LET c == Copy(t) IN
    /\ pc[t] = "explains" /\ Goto(t, "logs")
    /\ work' = [work EXCEPT ![t].shap = shap[c],
                            ![t].explained = <<window[c][work[t].dev], features[c]>>]
    /\ UNCHANGED <<lock, chain, sent, memory, silence, process, rows>>
-----------------------------------------------------------------------------
(* log_decision under the chain lock, and leaving the pipeline.            *)

TakeChain(t) ==
    /\ pc[t] = "logs" /\ chain = Free
    /\ chain' = t /\ Goto(t, "writes")
    /\ UNCHANGED <<lock, sent, work, memory, silence, process, rows>>

Log(t) ==
    /\ pc[t] = "writes" /\ Goto(t, "leaves")
    /\ rows' = Append(rows, work[t]) /\ chain' = Free
    /\ UNCHANGED <<lock, sent, work, memory, silence, process>>

Unlock(t) == IF lock[Copy(t)] = t THEN [lock EXCEPT ![Copy(t)] = Free] ELSE lock

(* Mutant of LogFails: the locks are not taken by with.                    *)
LogFailsLocked(t) ==
    /\ pc[t] = "writes" /\ t # "mqtt" /\ faults < MaxFaults
    /\ faults' = faults + 1 /\ chain' = Free /\ Goto(t, "idle")
    /\ watching' = (watching /\ t # "watchdog")
    /\ UNCHANGED <<lock, sent, work, memory, silence, twice, up, deaths, rows>>
(* The database raises and both locks are given up.  The HTTPS server goes *)
(* on with the next request, the watchdog's thread ends.                   *)
LogFails(t) ==
    /\ pc[t] = "writes" /\ t # "mqtt" /\ faults < MaxFaults
    /\ faults' = faults + 1 /\ chain' = Free /\ lock' = Unlock(t) /\ Goto(t, "idle")
    /\ watching' = (watching /\ t # "watchdog") /\ Drop(t)
    /\ UNCHANGED <<sent, memory, silence, twice, up, deaths, rows>>

Release(t) ==
    /\ pc[t] = "leaves" /\ Goto(t, "idle")
    /\ lock' = Unlock(t) /\ Drop(t)
    /\ UNCHANGED <<chain, sent, memory, silence, process, rows>>

(* The process dies, and with it every thread and everything in memory.    *)
Die ==
    /\ deaths < MaxDeaths /\ deaths' = deaths + 1
    /\ up' = FALSE /\ watching' = TRUE
    /\ lock' = Blank.lock /\ chain' = Free /\ pc' = Blank.pc
    /\ window' = Blank.window /\ features' = Blank.features /\ shap' = Blank.shap
    /\ heard' = Blank.ages /\ updated' = Blank.age /\ alerted' = {} /\ todo' = {}
    /\ work' = [t \in Threads |-> Nothing]
    /\ UNCHANGED <<twice, sent, rows>>
Crash == up /\ Die /\ UNCHANGED faults
(* What raises in the MQTT loop ends run().                                *)
MQTTLogFails ==
    /\ pc["mqtt"] = "writes" /\ faults < MaxFaults /\ faults' = faults + 1
    /\ Die

Supervise ==
    /\ ~up /\ up' = TRUE
    /\ UNCHANGED <<lock, chain, sent, pc, work, memory, silence, twice, deaths,
                   faults, watching, rows>>
-----------------------------------------------------------------------------
(* Time and the watchdog, a thread of the main copy.                       *)

(* Mutant of Aged: the age does not stop at the limit.                     *)
AgedOn(age) == age + 1
Aged(age) == IF age \in Fresh THEN age + 1 ELSE age
Older(ages) == [d \in Devices |-> Aged(ages[d])]

(* An interval of the watchdog passes: time enough for a sweep, which its  *)
(* thread, if it lives, has finished before the next.                      *)
Tick ==
    /\ up /\ pc["watchdog"] = "idle" /\ todo = {}
    /\ heard' = [c \in Copies |-> Older(heard[c])] /\ updated' = Older(updated)
    /\ todo' = IF watching THEN Devices ELSE {}
    /\ UNCHANGED <<lock, chain, sent, pc, work, memory, alerted, process, rows>>

Visit(d) ==
    /\ watching /\ pc["watchdog"] = "idle" /\ d \in todo
    /\ todo' = todo \ {d}
    /\ work' = [work EXCEPT !["watchdog"] = Holds("silent", 0, d)]
    /\ Goto("watchdog", "wants")
    /\ UNCHANGED <<lock, chain, sent, memory, heard, updated, alerted, process, rows>>

(* Mutant of Silent: only a device that was heard once can be silent.      *)
SilentOnceHeard(d, seen) == heard["main"][d] > StaleAfter /\ seen > StaleAfter
Silent(d, seen) == heard["main"][d] > StaleAfter \/ seen > StaleAfter

(* get_process_anomaly gives a device without a state a fresh one.         *)
Seen(d) == IF updated[d] = Never THEN 0 ELSE updated[d]

(* Mutant of Look: silence is not remembered from sweep to sweep.          *)
LookForgetful == LET d == work["watchdog"].dev IN
    /\ pc["watchdog"] = "looks"
    /\ updated' = [updated EXCEPT ![d] = Seen(d)]
    /\ IF Silent(d, Seen(d))
       THEN /\ Goto("watchdog", "logs")
            /\ work' = [work EXCEPT !["watchdog"].peers = features["main"]]
       ELSE Goto("watchdog", "leaves") /\ UNCHANGED work
    /\ UNCHANGED <<lock, chain, sent, memory, heard, alerted, todo, process, rows>>

(* Mutant of Look: the lock is held for the reading only.                  *)
LookAndRelease == LET d == work["watchdog"].dev IN
    /\ pc["watchdog"] = "looks" /\ lock' = Unlock("watchdog")
    /\ updated' = [updated EXCEPT ![d] = Seen(d)]
    /\ IF Silent(d, Seen(d)) /\ d \notin alerted
       THEN /\ alerted' = alerted \cup {d} /\ Goto("watchdog", "logs")
            /\ work' = [work EXCEPT !["watchdog"].peers = features["main"]]
       ELSE /\ alerted' = IF Silent(d, Seen(d)) THEN alerted ELSE alerted \ {d}
            /\ Goto("watchdog", "leaves") /\ UNCHANGED work
    /\ UNCHANGED <<chain, sent, memory, heard, todo, process, rows>>
(* One device of a sweep.  A row's peers say what was last scored.         *)
Look == LET d == work["watchdog"].dev IN
    /\ pc["watchdog"] = "looks"
    /\ updated' = [updated EXCEPT ![d] = Seen(d)]
    /\ IF Silent(d, Seen(d)) /\ d \notin alerted
       THEN /\ alerted' = alerted \cup {d} /\ Goto("watchdog", "logs")
            /\ work' = [work EXCEPT !["watchdog"].peers = features["main"]]
       ELSE /\ alerted' = IF Silent(d, Seen(d)) THEN alerted ELSE alerted \ {d}
            /\ Goto("watchdog", "leaves") /\ UNCHANGED work
    /\ UNCHANGED <<lock, chain, sent, memory, heard, todo, process, rows>>
-----------------------------------------------------------------------------
Score(t) == \/ Reject(t) \/ Accept(t) \/ ScoreLSTM(t) \/ ScoreRelational(t)
            \/ Combine(t) \/ Explain(t)
Leave(t) == TakeChain(t) \/ Log(t) \/ LogFails(t) \/ Release(t)

Next ==
    \/ \E t \in Transports : (\E d \in Devices : Arrive(t, d)) \/ Score(t)
    \/ \E t \in Threads : Take(t) \/ Leave(t)
    \/ Tick \/ (\E d \in Devices : Visit(d)) \/ Look
    \/ Crash \/ MQTTLogFails \/ Supervise

Spec == Init /\ [][Next]_vars

(* Threads run, time passes, the watchdog wakes up, the supervisor         *)
(* restarts.  While the watchdog sleeps nobody is ahead of a thread that   *)
(* waits for the lock, so it gets it in the end.                           *)
Fairness ==
    /\ \A t \in Transports : SF_vars(Take(t)) /\ WF_vars(Score(t) \/ Leave(t))
    /\ WF_vars(Take("watchdog") \/ Look \/ Leave("watchdog") \/ \E d \in Devices : Visit(d))
    /\ WF_vars(Tick) /\ WF_vars(Supervise)

FairSpec == Spec /\ Fairness
-----------------------------------------------------------------------------
(* Properties                                                              *)

(* Every variable stays in its range.                                      *)
Messages == 0 .. MaxMessages
Row == [kind : {"none", "telemetry", "rejected", "silent"}, msg : Messages,
        dev : Devices \cup {Nobody}, lstm : Seq(Messages), peers : [Devices -> Messages],
        shap : Messages, explained : Seq(Messages) \X [Devices -> Messages],
        life : 0 .. MaxDeaths]
Labels == {"idle", "wants", "gates", "scores", "relates", "fuses", "explains",
           "looks", "logs", "writes", "leaves"}
TypeOK ==
    /\ twice \in BOOLEAN /\ up \in BOOLEAN /\ watching \in BOOLEAN
    /\ sent \in Messages /\ faults \in 0 .. MaxFaults /\ deaths \in 0 .. MaxDeaths
    /\ lock \in [Copies -> Threads \cup {Free}] /\ chain \in Threads \cup {Free}
    /\ pc \in [Threads -> Labels] /\ work \in [Threads -> Row]
    /\ window \in [Copies -> [Devices -> Seq(Messages)]]
    /\ features \in [Copies -> [Devices -> Messages]]
    /\ shap \in [Copies -> Messages]
    /\ heard \in [Copies -> [Devices -> Ages]] /\ updated \in [Devices -> Ages]
    /\ alerted \subseteq Devices /\ todo \subseteq Devices
    /\ rows \in Seq(Row)

(* What a row says of a message comes from that message: its window ends   *)
(* with it, the relational scorer saw it, the explanation is of the same   *)
(* window, peers and last_shap it was scored with (gateway.py, the comment *)
(* on _pipeline_lock).                                                     *)
Scored(r) == r.kind = "telemetry" =>
    /\ r.lstm # << >> /\ r.lstm[Len(r.lstm)] = r.msg
    /\ r.peers[r.dev] = r.msg /\ r.shap = r.msg
    /\ r.explained = <<r.lstm, r.peers>>
RowIsOfOneMessage == \A i \in DOMAIN rows : Scored(rows[i])

(* When a SILENT row is written, the copy that writes it has not heard of  *)
(* the device within the limit: no message came between look and row.      *)
SilentRow(d) == Len(rows') > Len(rows) /\ rows'[Len(rows')].kind = "silent"
                                       /\ rows'[Len(rows')].dev = d
SilenceIsSound == [][\A d \in Devices : SilentRow(d) => heard["main"][d] \notin Fresh]_vars

(* A silence is reported once: two SILENT rows of a device in one life of  *)
(* the process have a message of it scored in between.                     *)
OncePerEpisode == \A i, j \in DOMAIN rows : LET r == rows[i]  s == rows[j] IN
    i < j /\ r.kind = "silent" /\ s.kind = "silent" /\ r.dev = s.dev /\ r.life = s.life
        => r.peers[r.dev] # s.peers[s.dev]

(* As long as the watchdog lives, a device that is not heard again is      *)
(* reported, the one that was never heard included.                        *)
Reported(d, m) == \E i \in DOMAIN rows : LET r == rows[i] IN
    r.kind = "silent" /\ r.dev = d /\ r.life = deaths /\ r.peers[d] = m
SilenceRecorded == \A d \in Devices, m \in Messages :
    (up /\ features["main"][d] = m)
        ~> (Reported(d, m) \/ features["main"][d] # m \/ ~up \/ ~watching)

(* No thread is left waiting: a message that arrived is done with, whoever *)
(* died or failed to log with a lock in hand.                              *)
NobodyStuck == \A t \in Transports : pc[t] = "wants" ~> pc[t] = "idle"

(* What the SILENT row itself says (src/src/gateway.py): no message was    *)
(* received within the staleness window, over whichever transport.         *)
SilentMeansUnheard == [][\A d \in Devices : SilentRow(d) =>
                            \A c \in Copies : heard[c][d] \notin Fresh]_vars
-----------------------------------------------------------------------------
(* The inductive invariant behind the safety properties.                   *)

Inside(t) == pc[t] \notin {"idle", "wants"}
Scoring == {"gates", "scores", "relates", "fuses", "explains"}

(* Whoever is in the pipeline holds its copy's lock.                       *)
LockHeld == \A t \in Threads :
    /\ Inside(t) <=> lock[Copy(t)] = t
    /\ \A c \in Copies : lock[c] = t => c = Copy(t)

(* What a transport's thread holds is what the memory still says.          *)
ThreadTrue(t) == LET c == Copy(t)  w == work[t] IN
    /\ pc[t] # "idle" => w.dev \in Devices /\ w.kind # "silent" /\ pc[t] # "looks"
    /\ pc[t] \in Scoring \cup {"wants"} => w.kind = "telemetry"
    /\ pc[t] \in {"relates", "fuses", "explains"} =>
          w.lstm # << >> /\ w.lstm[Len(w.lstm)] = w.msg /\ window[c][w.dev] = w.lstm
    /\ pc[t] \in {"fuses", "explains"} => w.peers = features[c] /\ w.peers[w.dev] = w.msg
    /\ pc[t] = "explains" => shap[c] = w.msg
    /\ pc[t] \in {"logs", "writes"} => Scored(w)
WorkTrue == \A t \in Transports : ThreadTrue(t)

(* Between look and row the device stays unheard.                          *)
WatchTrue == LET w == work["watchdog"] IN
    /\ pc["watchdog"] \in {"idle", "wants", "looks", "logs", "writes", "leaves"}
    /\ pc["watchdog"] # "idle" => w.kind = "silent" /\ w.dev \in Devices
    /\ pc["watchdog"] \in {"logs", "writes"} => heard["main"][w.dev] \notin Fresh

(* A device is updated whenever it is heard, once the message is through.  *)
HeardIsUpdated == \A d \in Devices : heard["main"][d] \in Fresh =>
    \/ updated[d] \in Fresh /\ updated[d] <= heard["main"][d]
    \/ \E t \in Transports : /\ Copy(t) = "main" /\ work[t].dev = d
                             /\ pc[t] \in {"scores", "relates", "fuses"}

IInv == TypeOK /\ RowIsOfOneMessage /\ LockHeld /\ WorkTrue /\ WatchTrue /\ HeardIsUpdated
-----------------------------------------------------------------------------
(* The inductive invariant behind OncePerEpisode: a silence of device d is *)
(* known by the message last scored before it, and that message is never   *)
(* scored again.                                                           *)

(* The row of such a silence is written, or about to be.                   *)
Telling(d, m) == /\ pc["watchdog"] \in {"logs", "writes"}
                 /\ work["watchdog"].dev = d /\ work["watchdog"].peers[d] = m
Told(d, m) == Reported(d, m) \/ Telling(d, m)

(* What a thread holds is of this life of the process.                     *)
LivesTrue == /\ \A i \in DOMAIN rows : rows[i].life <= deaths
             /\ \A t \in Threads : pc[t] # "idle" => work[t].life = deaths

(* Messages are numbered as they arrive, and no two threads hold the same. *)
Numbered ==
    /\ \A t \in Transports : pc[t] # "idle" => work[t].msg \in 1 .. sent
    /\ \A t, u \in Transports :
          t # u /\ pc[t] # "idle" /\ pc[u] # "idle" => work[t].msg # work[u].msg
    /\ \A d \in Devices : features["main"][d] <= sent
    /\ \A d \in Devices, m \in Messages : Told(d, m) => m <= sent

(* A message on its way to the scorer was never scored, so no silence is   *)
(* known by it.                                                            *)
Pending == {"wants", "gates", "scores", "relates"}
NeverScored == \A t \in Transports, d \in Devices : Copy(t) = "main" =>
    /\ pc[t] \in Pending => features["main"][d] # work[t].msg
    /\ pc[t] \in Pending \cup {"fuses"} => ~Told(d, work[t].msg)

(* As long as nothing is scored after a silence that was told, the watchdog*)
(* remembers it, and the next look finds the device silent still: only a   *)
(* message in the pipeline can have been heard.                            *)
StillAlerted == \A d \in Devices : Told(d, features["main"][d]) =>
    /\ d \in alerted
    /\ \/ heard["main"][d] > StaleAfter \/ updated[d] > StaleAfter
       \/ \E t \in Transports : /\ Copy(t) = "main" /\ work[t].dev = d
                                /\ pc[t] \in {"scores", "relates"}

ToldOnce == \A d \in Devices, m \in Messages : Telling(d, m) => ~Reported(d, m)

EpisodeInv == LivesTrue /\ Numbered /\ NeverScored /\ StillAlerted /\ ToldOnce /\ OncePerEpisode
=============================================================================
