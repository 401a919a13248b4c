--------------------------- MODULE HardwareCapture ---------------------------
(***************************************************************************)
(* scripts/collect_hardware_session.py: the thread of the MQTT client      *)
(* buffers telemetry while the main thread walks the operator through the  *)
(* events (or waits for the end of a timetable), labels what was buffered, *)
(* stops the client and writes the session.                                *)
(*                                                                         *)
(*   - Time is counted in ticks of MARK_MARGIN_S, which is also the time   *)
(*     between two messages.                                               *)
(*   - A message is one of the session's devices, with every feature; the  *)
(*     callback refuses the others without any effect.                     *)
(*   - A step of either thread is atomic, as the interpreter's lock makes  *)
(*     an append, a read of an index and an assignment.                    *)
(*   - The gateway's scores, joined before the session is written, leave   *)
(*     the labels alone.                                                   *)
(***************************************************************************)
EXTENDS Integers, Sequences

CONSTANTS
    NEvents,        \* events, or phases of the timetable
    MinEvent,       \* MIN_EVENT_SECONDS, in ticks
    Duration,       \* of a phase of the timetable, in ticks
    Settle,         \* SETTLE_SECONDS, in ticks
    MaxTime, MaxMessages        \* bounds

VARIABLES
    mode,       \* --labelled, or the timetable
    main,       \* where the main thread is
    now,
    event,      \* the event that is prompted for or recorded
    start,      \* when its recording began
    marked_intervals,
    records,    \* the list the callback appends to
    scanned,    \* how many of them finalise_labelled has looked at
    kept,
    messages    \* how many have arrived

operator == <<event, start, marked_intervals>>
vars == <<mode, main, now, operator, records, scanned, kept, messages>>

Margin  == 1
Pending == 0        \* "(pending mark)"
Events  == 1 .. NEvents

Init ==
    /\ mode \in {"labelled", "timed"}
    /\ main = (IF mode = "labelled" THEN "prompt" ELSE "schedule")
    /\ now = 0 /\ event = 1 /\ start = 0 /\ marked_intervals = {}
    /\ records = << >> /\ scanned = 0 /\ kept = << >> /\ messages = 0
-----------------------------------------------------------------------------
(* The callback                                                            *)

(* phase_and_time_in_phase; past the last event the schedule is over.      *)
Phase(t) == t \div Duration + 1
TimeInPhase(t) == t % Duration

(* on_message, until the client's loop is stopped.                         *)
OnMessage ==
    LET phase == IF mode = "labelled" THEN Pending ELSE Phase(now)
        takes == mode = "labelled" \/ (phase \in Events /\ TimeInPhase(now) >= Settle)
    IN /\ main \notin {"stopped", "saved"}
       /\ messages < MaxMessages /\ messages' = messages + 1
       /\ records' = IF takes THEN Append(records, [phase |-> phase, arrival |-> now])
                     ELSE records
       /\ UNCHANGED <<mode, main, now, operator, scanned, kept>>
-----------------------------------------------------------------------------
(* run_labelled_capture                                                    *)

Start ==
    /\ main = "prompt" /\ main' = "marking" /\ start' = now
    /\ UNCHANGED <<mode, now, event, marked_intervals, records, scanned, kept, messages>>

(* The operator goes on to the next event.                                 *)
Proceed == /\ event' = event + 1
           /\ main' = IF event = NEvents THEN "scanning" ELSE "prompt"

Stop ==
    /\ main = "marking"
    /\ IF now - start >= MinEvent
       THEN /\ marked_intervals' = marked_intervals \cup
                   {[event |-> event, from |-> start, to |-> now]}
            /\ Proceed
       ELSE /\ UNCHANGED marked_intervals
            /\ Proceed \/ (main' = "prompt" /\ UNCHANGED event)
    /\ UNCHANGED <<mode, now, start, records, scanned, kept, messages>>
-----------------------------------------------------------------------------
(* finalise_labelled                                                       *)

(* label_for_wall_time: the events whose interval holds t.                 *)
Labels(t) == {i.event : i \in {i \in marked_intervals :
                                 i.from + Margin <= t /\ t <= i.to - Margin}}

(* The loop goes on to a record that was appended behind it.               *)
Scan ==
    /\ main = "scanning" /\ scanned < Len(records) /\ scanned' = scanned + 1
    /\ LET r == records[scanned + 1]
       IN kept' = kept \o (IF Labels(r.arrival) = {} THEN << >>
                           ELSE <<[r EXCEPT !.phase = CHOOSE e \in Labels(r.arrival) : TRUE]>>)
    /\ UNCHANGED <<mode, main, now, operator, records, messages>>

(* Renumbering kept takes a moment; what arrives in it goes to the list    *)
(* that is about to be replaced.                                           *)
ScanEnds ==
    /\ main = "scanning" /\ scanned = Len(records) /\ main' = "renumbering"
    /\ UNCHANGED <<mode, now, operator, records, scanned, kept, messages>>

Replace ==
    /\ main = "renumbering" /\ main' = "stopping" /\ records' = kept
    /\ UNCHANGED <<mode, now, operator, scanned, kept, messages>>
-----------------------------------------------------------------------------
(* main()                                                                  *)

ScheduleEnds ==
    /\ main = "schedule" /\ Phase(now) \notin Events /\ main' = "stopping"
    /\ UNCHANGED <<mode, now, operator, records, scanned, kept, messages>>

(* loop_stop comes after the labelling.                                    *)
LoopStop ==
    /\ main = "stopping" /\ main' = "stopped"
    /\ UNCHANGED <<mode, now, operator, records, scanned, kept, messages>>

WriteOutputs ==
    /\ main = "stopped" /\ main' = "saved"
    /\ UNCHANGED <<mode, now, operator, records, scanned, kept, messages>>

Tick ==
    /\ now < MaxTime /\ now' = now + 1
    /\ UNCHANGED <<mode, main, operator, records, scanned, kept, messages>>

Next ==
    \/ OnMessage \/ Start \/ Stop \/ Scan \/ ScanEnds \/ Replace
    \/ ScheduleEnds \/ LoopStop \/ WriteOutputs \/ Tick

Spec == Init /\ [][Next]_vars
-----------------------------------------------------------------------------
(* Properties                                                              *)

(* What a labelled session holds was kept for the event whose marked       *)
(* interval it arrived in; everything else is dropped (finalise_labelled:  *)
(* "Assigns each buffered record the event whose MARKED interval contains  *)
(* its arrival time, and DROPS everything else").                          *)
EveryRecordLabelled ==
    main = "saved" /\ mode = "labelled" =>
        \A i \in DOMAIN records : records[i].phase \in Labels(records[i].arrival)
=============================================================================
