---------------------------- MODULE ModelLineage ----------------------------
(***************************************************************************)
(* Where the trained files come from: the session files the generators     *)
(* write, the manifest that allocates hardware captures to splits          *)
(* (src/splits.py), the trainers (scripts/train_*.py), the pins that       *)
(* record which files belong together (src/relational_pin.py) and the      *)
(* evaluations that load them.                                             *)
(*                                                                         *)
(*   - A row is known by its draw: the seed of a simulated session or the  *)
(*     capture it was recorded in.  A simulated session is the same draw   *)
(*     whenever it is generated.  A row of the virtual network is known    *)
(*     by the captures it was computed from; every capture holds rows at   *)
(*     rest and disturbed of the board the virtual nodes derive from.      *)
(*   - A trained file is its version, which stands for its sha256.  Two    *)
(*     trainings on different inputs never give the same bytes; on the     *)
(*     same inputs they may or may not.                                    *)
(*   - Scripts run one at a time.  A fusion model and its background       *)
(*     sample are one file.                                                *)
(*   - Captures are allocated, even twice by a slip, and never moved; a    *)
(*     pin is recorded again only for a fusion fitted on its scorer.       *)
(***************************************************************************)
EXTENDS Naturals

CONSTANTS
    Captures,     \* labelled captures of the real boards
    Versions,     \* versions a file can have; bounds what is told apart
    MaxRuns       \* bound on the number of training runs

ASSUME VersionsAssumption == Versions \subseteq Nat /\ 0 \in Versions
ASSUME MaxRunsAssumption  == MaxRuns \in Nat

VARIABLES
    captured,   \* captures whose labelled file is on disk
    manifest,   \* split -> captures listed in it
    rows,       \* session file -> the draws of its rows
    virtual,    \* virtual network's files -> the captures their rows derive from
    made,       \* file -> version -> what those bytes were made from
    model,      \* file -> the version on disk
    pinned,     \* pin -> recorded versions of its scorer and its fusion
    sidecar,    \* table -> the lineage recorded next to it
    torn,       \* tables whose trainer died before it wrote the sidecar
    runs        \* training runs so far

vars == <<captured, manifest, rows, virtual, made, model, pinned, sidecar, torn, runs>>
-----------------------------------------------------------------------------
(* Draws, session files and the manifest                                   *)

Splits == {"train", "validation", "test"}
Lists  == Splits \cup {"excluded"}
Net(s) == CASE s = "train" -> "NET_TRAIN" [] s = "validation" -> "NET_VAL"
            [] s = "test" -> "NET_TEST"
Simulated == {"TRAIN_001", "VAL_001", "VAL_002", "TEST_001",
              "NET_TRAIN", "NET_VAL", "NET_TEST"}
Draws == Simulated \cup Captures

ASSUME CapturesAssumption == Captures \cap Simulated = {}

Mergeable == {"training_session"} \cup Splits   \* a split: its network files

FusionSession == {"VAL_001"}       \* validation_session.json
(* Mutant of PolicySession: one validation session serves both stages.     *)
PolicySessionShared == {"VAL_001"}
PolicySession == {"VAL_002"}       \* validation_policy_session.json
TestSession   == {"TEST_001"}      \* test_session.json

Labelled(s) == manifest[s] \cap captured
Disjoint == \A s, t \in Lists : s # t => manifest[s] \cap manifest[t] = {}

(* The virtual network: its files per split, and the stress test's.  Every *)
(* node draws its base and its faults from the split's captures and its    *)
(* noise from statistics of them all.  A split without a capture stops the *)
(* generator, which has then written the splits before it.                 *)
VirtualFiles == Splits \cup {"stress"}
Pool(s) == Labelled(s)
UpTo(s) == CASE s = "train" -> {"train"} [] s = "validation" -> {"train", "validation"}
             [] s = "test" -> Splits
Buildable == {s \in Splits : \A r \in UpTo(s) : Pool(r) # {}}
-----------------------------------------------------------------------------
(* Files, pins and lineage                                                 *)

Local   == {"if", "lstm"}
Scorers == {"gnn", "st", "st_flawed"}
Fusions == {"fusion", "fusion_m6", "fusion_gcn"}
Tables  == {"table", "table_gcn"}
Files   == Local \cup {"transformer"} \cup Scorers \cup Fusions \cup Tables

Pins == {"gcn", "m6_deployed", "m6_corrected"}
Scorer(p) == CASE p = "gcn" -> "gnn" [] p = "m6_deployed" -> "st_flawed"
               [] p = "m6_corrected" -> "st"
Fusion(p) == CASE p = "gcn" -> "fusion_gcn" [] p = "m6_deployed" -> "fusion_m6"
               [] p = "m6_corrected" -> "fusion"

Stamp(f) == <<f, model[f]>>
Unmade == [fit |-> {}, below |-> {}, via |-> {}]
Content(f) == made[f][model[f]]
Seen(fs) == UNION {Content(f).fit \cup Content(f).below : f \in fs}
Lineages == [pin : Pins, scorer : Versions, fusion : Versions]

(* Mutant of Verified: the fusion's hash is not compared.                  *)
VerifiedScorerOnly(p) == model[Scorer(p)] = pinned[p].scorer
(* RelationalPin.verify.                                                   *)
Verified(p) == /\ model[Scorer(p)] = pinned[p].scorer
               /\ model[Fusion(p)] = pinned[p].fusion

(* Mutant of LineageHolds: the name alone is believed.                     *)
LineageNameOnly(p, t) == sidecar[t].pin = p
(* verify_policy_lineage: the sidecar against a pin's recorded versions.   *)
LineageHolds(p, t) == sidecar[t] = [pin |-> p, scorer |-> pinned[p].scorer,
                                    fusion |-> pinned[p].fusion]
-----------------------------------------------------------------------------
(* The shipped repository: every file trained once, in the right order.    *)

ShippedPin(t) == IF t = "table" THEN "m6_corrected" ELSE "gcn"
PolicyInputs(p) == Local \cup {Scorer(p), Fusion(p)}
ShippedVia(f) ==
    {u \in Local   : f \in Scorers \cup Fusions}
    \cup {u \in Scorers : \E p \in Pins : u = Scorer(p) /\ f = Fusion(p)}
    \cup {u \in Files   : f \in Tables /\ u \in PolicyInputs(ShippedPin(f))}

Shipped(f) ==
    LET base == rows["training_session"] \cup rows["train"]
    IN [fit   |-> CASE f \in Local -> base
                    [] f \in Fusions -> FusionSession
                    [] f \in Tables -> PolicySession
                    [] OTHER -> rows["training_session"],
        below |-> CASE f \in Scorers \cup Fusions -> base
                    [] f \in Tables -> base \cup FusionSession
                    [] OTHER -> {},
        via   |-> {<<u, 0>> : u \in ShippedVia(f)}]

Init ==
    /\ captured \in SUBSET Captures
    /\ manifest \in [Lists -> SUBSET captured] /\ Disjoint
    /\ rows = [s \in Mergeable |->
                 IF s = "training_session" THEN {"TRAIN_001"} \cup Labelled("train")
                                           ELSE {Net(s)} \cup Labelled(s)]
    /\ virtual = [v \in VirtualFiles |->
                    CASE v \in Buildable -> Pool(v) [] v = "stress" -> Pool("test") [] OTHER -> {}]
    /\ made = [f \in Files |-> [v \in Versions |-> IF v = 0 THEN Shipped(f) ELSE Unmade]]
    /\ model = [f \in Files |-> 0]
    /\ pinned = [p \in Pins |-> [scorer |-> 0, fusion |-> 0]]
    /\ sidecar = [t \in Tables |-> [pin |-> ShippedPin(t), scorer |-> 0, fusion |-> 0]]
    /\ torn = {} /\ runs = 0
-----------------------------------------------------------------------------
(* Captures, the manifest and the session generators                       *)

Capture(c) ==
    /\ c \notin captured
    /\ captured' = captured \cup {c}
    /\ UNCHANGED <<manifest, rows, virtual, made, model, pinned, sidecar, torn, runs>>

Allocate(c, s) ==
    /\ c \in captured \ manifest[s]
    /\ manifest' = [manifest EXCEPT ![s] = @ \cup {c}]
    /\ UNCHANGED <<captured, rows, virtual, made, model, pinned, sidecar, torn, runs>>

Writes(newRows) ==
    /\ rows' = newRows
    /\ UNCHANGED <<captured, manifest, virtual, made, model, pinned, sidecar, torn, runs>>

GenerateTraining == Writes([rows EXCEPT !["training_session"] = {"TRAIN_001"}])

(* Mutant of MergeReal: the glob over every labelled file it replaced.     *)
MergeEveryFile ==
    Writes([rows EXCEPT !["training_session"] = {"TRAIN_001"} \cup captured])
MergeReal ==
    /\ Disjoint /\ Labelled("train") # {}
    /\ Writes([rows EXCEPT !["training_session"] = {"TRAIN_001"} \cup Labelled("train")])

GenerateNetwork ==
    /\ Disjoint
    /\ Writes([s \in Mergeable |-> IF s \in Splits THEN {Net(s)} \cup Labelled(s)
                                                   ELSE rows[s]])
Derives(newVirtual) ==
    /\ virtual' = newVirtual
    /\ UNCHANGED <<captured, manifest, rows, made, model, pinned, sidecar, torn, runs>>

GenerateVirtual ==
    Derives([v \in VirtualFiles |-> IF v \in Buildable THEN Pool(v) ELSE virtual[v]])

(* The presets MEDIUM and HIGH: TEST only.                                 *)
GenerateStress ==
    /\ Pool("test") # {}
    /\ Derives([virtual EXCEPT !["stress"] = Pool("test")])
-----------------------------------------------------------------------------
(* Trainers: file f from the rows fit, scored through the files via.       *)

Made(fit, via) == [fit |-> fit, below |-> Seen(via), via |-> {Stamp(u) : u \in via}]

Train(f, fit, via) ==
    /\ runs < MaxRuns /\ runs' = runs + 1
    /\ \E v \in Versions :
         /\ made[f][v] \in {Unmade, Made(fit, via)}
         /\ made' = [made EXCEPT ![f] = [@ EXCEPT ![v] = Made(fit, via)]]
         /\ model' = [model EXCEPT ![f] = v]
    /\ UNCHANGED <<captured, manifest, rows, virtual, pinned>>

Unlabelled == UNCHANGED <<sidecar, torn>>

TrainIF   == Train("if", rows["training_session"] \cup rows["train"], {}) /\ Unlabelled

TrainLSTM == Train("lstm", rows["training_session"] \cup rows["train"], {}) /\ Unlabelled

TrainTransformer == Train("transformer", rows["training_session"], {}) /\ Unlabelled

TrainGNN == Train("gnn", rows["training_session"], Local) /\ Unlabelled

(* The output path is config's, or the one the environment names.          *)
TrainSetTransformer(out) == Train(out, rows["training_session"], Local) /\ Unlabelled

TrainFusion ==
    Disjoint /\ Train("fusion", FusionSession, Local \cup {"gnn"}) /\ Unlabelled

TrainFusionM6(from, out) ==
    Disjoint /\ Train(out, FusionSession, Local \cup {from}) /\ Unlabelled

(* Mutant of TrainPolicy: the sidecar names the pin and records no hash.   *)
TrainPolicyBare(p, out) ==
    /\ Verified(p)
    /\ Train(out, PolicySession, PolicyInputs(p))
    /\ sidecar' = [sidecar EXCEPT ![out] = [pin |-> p]]
    /\ torn' = torn \ {out}
(* The table is saved, then the sidecar; the process may die in between.   *)
TrainPolicy(p, out) ==
    /\ Verified(p)
    /\ Train(out, PolicySession, PolicyInputs(p))
    /\ \/ /\ sidecar' = [sidecar EXCEPT ![out] =
                [pin |-> p, scorer |-> pinned[p].scorer, fusion |-> pinned[p].fusion]]
          /\ torn' = torn \ {out}
       \/ torn' = torn \cup {out} /\ UNCHANGED sidecar

Repin(p) ==
    /\ Stamp(Scorer(p)) \in Content(Fusion(p)).via
    /\ pinned' = [pinned EXCEPT ![p] = [scorer |-> model[Scorer(p)],
                                        fusion |-> model[Fusion(p)]]]
    /\ UNCHANGED <<captured, manifest, rows, virtual, made, model, sidecar, torn, runs>>

Next ==
    \/ \E c \in Captures : Capture(c) \/ \E s \in Lists : Allocate(c, s)
    \/ GenerateTraining \/ MergeReal \/ GenerateNetwork
    \/ GenerateVirtual \/ GenerateStress
    \/ TrainIF \/ TrainLSTM \/ TrainTransformer \/ TrainGNN \/ TrainFusion
    \/ \E out \in {"st", "st_flawed"} : TrainSetTransformer(out)
    \/ \E from \in {"st", "st_flawed"}, out \in {"fusion", "fusion_m6"} :
          TrainFusionM6(from, out)
    \/ \E p \in Pins : Repin(p) \/ \E out \in Tables : TrainPolicy(p, out)

Spec == Init /\ [][Next]_vars
-----------------------------------------------------------------------------
(* Evaluations: whether the script goes through, the rows it reports on,   *)
(* everything that was fitted or tuned before, and the files it loads.     *)

Scores(ok, on, before, fs) ==
    [ok |-> ok, on |-> on, seen |-> before \cup Seen(fs), uses |-> fs]
Arm(p) == PolicyInputs(p)

EvaluateAblation == Scores(TRUE, TestSession, {},
                           Local \cup {"transformer", "gnn", "fusion"})
EvaluateExplainability  == Scores(TRUE, TestSession, {}, Local \cup {"gnn", "fusion"})
EvaluateResponsiveness  == Scores(TRUE, TestSession, {}, Local \cup {"gnn", "fusion"})
DiagnoseHighRate        == Scores(TRUE, TestSession, {}, Local \cup {"gnn", "fusion"})
EvaluateLatencyStages == Scores(TRUE, TestSession \cup rows["test"], {},
                                Local \cup {"gnn", "fusion", "table"})
EvaluateAblationM6 == Scores(\A p \in Pins : Verified(p), TestSession, {},
                             Local \cup Scorers \cup Fusions)
EvaluateExplainability2(p) == Scores(Verified(p), TestSession, {}, Arm(p))
EvaluateHardware(p) == Scores(Disjoint /\ Verified(p) /\ Labelled("test") # {},
                              Labelled("test"), {}, Arm(p))

(* The network's snapshots and the virtual ones are scored by the deployed *)
(* local models; the comparators are fitted on TRAIN, their weights and    *)
(* thresholds chosen on VALIDATION.                                        *)
NetworkScorers == Local
VirtualScorers == Local
Fitted == rows["train"] \cup rows["validation"]
FittedMixed == Fitted \cup virtual["train"]
FittedVirtual == virtual["train"] \cup rows["validation"]
EvaluateNetwork == Scores(TRUE, rows["test"], Fitted, NetworkScorers)
EvaluatePattern == Scores(TRUE, rows["test"], Fitted, NetworkScorers)
BenchmarkNetwork ==
    Scores(virtual["train"] # {}, rows["test"], Fitted, NetworkScorers)
Refitted == Fitted
StudySeeds == Scores(TRUE, rows["test"], Refitted, NetworkScorers)

(* The studies of the virtual network need its files; the stress test is   *)
(* scored at the threshold of the virtual validation files.                *)
BenchmarkMixed == Scores(virtual["train"] # {}, rows["test"], FittedMixed,
                         NetworkScorers \cup VirtualScorers)
CheckMixed == Scores(\A s \in Splits : virtual[s] # {}, rows["test"] \cup virtual["test"],
                     FittedMixed \cup virtual["validation"], NetworkScorers \cup VirtualScorers)
StudyMixed == Scores(\A v \in VirtualFiles : virtual[v] # {},
                     rows["test"] \cup virtual["test"] \cup virtual["stress"],
                     FittedMixed \cup virtual["validation"], NetworkScorers \cup VirtualScorers)
StudyVirtual == Scores(virtual["train"] # {}, rows["test"], FittedMixed \cup FittedVirtual,
                       NetworkScorers \cup VirtualScorers)

ArmTable(p) == IF p = "gcn" THEN "table_gcn" ELSE "table"
EvaluateCorrected(p) == Scores(LineageHolds(p, ArmTable(p)) /\ Verified(p),
                               TestSession, {}, Arm(p) \cup {ArmTable(p)})
EvaluateRL(p) == Scores(LineageHolds(p, "table") /\ Verified(p),
                        TestSession, {}, Arm(p) \cup {"table"})
ComparePolicies == Scores(Verified("gcn"), TestSession, PolicySession,
                          Arm("gcn") \cup {"table"})

LineageChecked == {EvaluateCorrected(p) : p \in {"gcn", "m6_corrected"}}
                  \cup {EvaluateRL(p) : p \in Pins}
Evaluations ==
    {EvaluateAblation, EvaluateExplainability, EvaluateResponsiveness, DiagnoseHighRate,
     EvaluateLatencyStages, EvaluateAblationM6, EvaluateNetwork, EvaluatePattern,
     BenchmarkNetwork, StudySeeds, ComparePolicies}
    \cup {EvaluateExplainability2(p) : p \in Pins}
    \cup {EvaluateHardware(p) : p \in Pins} \cup LineageChecked
VirtualStudies == {BenchmarkMixed, CheckMixed, StudyMixed, StudyVirtual}
-----------------------------------------------------------------------------
(* Properties                                                              *)

(* Every variable stays in its range, and a file on disk has been made.    *)
Contents == [fit : SUBSET Draws, below : SUBSET Draws, via : SUBSET (Files \X Versions)]
TypeOK ==
    /\ captured \subseteq Captures
    /\ manifest \in [Lists -> SUBSET Captures]
    /\ rows \in [Mergeable -> SUBSET Draws]
    /\ virtual \in [VirtualFiles -> SUBSET Captures]
    /\ made \in [Files -> [Versions -> Contents]]
    /\ model \in [Files -> Versions]
    /\ pinned \in [Pins -> [scorer : Versions, fusion : Versions]]
    /\ sidecar \in [Tables -> Lineages]
    /\ torn \subseteq Tables
    /\ runs \in 0..MaxRuns

(* No evaluation that goes through reports on rows that anything it loads, *)
(* or anything below that, was fitted or tuned on: over every order of     *)
(* captures, allocations (slips included), merges, trainings (README and   *)
(* src/splits.py: TEST is untouched).  The virtual network's generator is  *)
(* the one reader of the manifest that does not call assert_disjoint, so   *)
(* its studies are clean only while nothing is allocated twice.            *)
TestIsUntouched ==
    /\ \A e \in Evaluations : e.ok => e.on \cap e.seen = {}
    /\ Disjoint => \A e \in VirtualStudies : e.ok => e.on \cap e.seen = {}

(* A fusion is fitted on rows none of the models below it was fitted on,   *)
(* and a table on rows neither its fusion nor they were (src/splits.py:    *)
(* one validation session per stage, or the scores are in-sample).         *)
StagesApart == \A f \in Fusions \cup Tables, v \in Versions :
                  made[f][v].fit \cap made[f][v].below = {}

(* A pin that verifies is a fusion with the scorer it was fitted on,       *)
(* whatever was retrained, redirected or recorded since.                   *)
PinnedIsMatched == \A p \in Pins : Verified(p) => Stamp(Scorer(p)) \in Content(Fusion(p)).via

(* A table that passes the lineage check was trained on the very scorer    *)
(* and fusion it is about to be scored with, unless its trainer died       *)
(* between the table and its sidecar.                                      *)
LineageIsTrue == \A p \in Pins, t \in Tables :
    Verified(p) /\ LineageHolds(p, t) /\ t \notin torn
        => {Stamp(Scorer(p)), Stamp(Fusion(p))} \subseteq Content(t).via

-----------------------------------------------------------------------------
(* The inductive invariant behind the properties.                          *)

Base == {"TRAIN_001", "NET_TRAIN"} \cup manifest["train"]
MadeFrom(f, v) == made[f][v].fit \cup made[f][v].below

(* What a session file holds was allocated to its split.                   *)
RowsAllocated ==
    /\ rows["training_session"] \cup rows["train"] \subseteq Base
    /\ rows["validation"] \subseteq {"NET_VAL"} \cup manifest["validation"]
    /\ rows["test"] \subseteq {"NET_TEST"} \cup manifest["test"]

VirtualAllocated ==
    /\ \A s \in Splits : virtual[s] \subseteq manifest[s]
    /\ virtual["stress"] \subseteq manifest["test"]

(* What a file was made from, stage by stage.                              *)
MadeInStages == \A f \in Files, v \in Versions :
    /\ f \in Fusions => /\ made[f][v].fit \subseteq FusionSession
                        /\ made[f][v].below \subseteq Base
    /\ f \in Tables => /\ made[f][v].fit \subseteq PolicySession
                       /\ made[f][v].below \subseteq Base \cup FusionSession
    /\ f \notin Fusions \cup Tables => MadeFrom(f, v) \subseteq Base

(* The rows a network evaluation reports on met nothing fitted or tuned.   *)
TestRowsApart ==
    /\ \A s \in Mergeable \ {"test"} : rows[s] \cap rows["test"] = {}
    /\ \A f \in Files, v \in Versions : MadeFrom(f, v) \cap rows["test"] = {}

PinsMatched == \A p \in Pins :
    <<Scorer(p), pinned[p].scorer>> \in made[Fusion(p)][pinned[p].fusion].via

SidecarsTrue == \A t \in Tables \ torn : LET s == sidecar[t] IN
    {<<Scorer(s.pin), s.scorer>>, <<Fusion(s.pin), s.fusion>>} \subseteq Content(t).via

IInv == /\ TypeOK /\ RowsAllocated /\ VirtualAllocated /\ MadeInStages
        /\ TestRowsApart /\ PinsMatched /\ SidecarsTrue
=============================================================================
