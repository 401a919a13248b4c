------------------------- MODULE ModelLineageProofs -------------------------
(***************************************************************************)
(* The theorems about ModelLineage, for every set of captures, every       *)
(* number of file versions and every number of trainings.  IInv follows a  *)
(* row from the manifest into the session files, from there into what the  *)
(* trained files were made from, and the pins and sidecars to the versions *)
(* they name; a version that was made is never made from anything else.    *)
(***************************************************************************)
EXTENDS ModelLineage, TLAPS

USE VersionsAssumption, MaxRunsAssumption

(***************************************************************************)
(* Names.                                                                  *)
(***************************************************************************)
LEMMA PinFiles ==
    \A p \in Pins : /\ Scorer(p) \in Scorers /\ Scorer(p) \in Files
                    /\ Fusion(p) \in Fusions /\ Fusion(p) \in Files
                    /\ PolicyInputs(p) \subseteq Local \cup Scorers \cup Fusions
BY DEF Pins, Scorer, Fusion, Scorers, Fusions, Files, PolicyInputs, Local

LEMMA Kinds ==
    /\ Local \cup Scorers \cup Fusions \cup Tables \cup {"transformer"} = Files
    /\ Local \cap (Fusions \cup Tables) = {} /\ Scorers \cap (Fusions \cup Tables) = {}
    /\ Fusions \cap Tables = {} /\ "transformer" \notin Fusions \cup Tables
BY DEF Local, Scorers, Fusions, Tables, Files

LEMMA Simulations ==
    /\ "VAL_001" \in Simulated /\ "VAL_002" \in Simulated /\ "TEST_001" \in Simulated
    /\ "NET_TRAIN" \in Simulated /\ "NET_VAL" \in Simulated /\ "NET_TEST" \in Simulated
    /\ "TRAIN_001" \in Simulated
    /\ \A c \in Captures : c \notin Simulated
    /\ Simulated \subseteq Draws /\ Captures \subseteq Draws
BY CapturesAssumption DEF Simulated, Draws

(***************************************************************************)
(* What a set of files has seen, and what a training makes.                *)
(***************************************************************************)
LEMMA SeenTyped ==
    ASSUME TypeOK, NEW fs \in SUBSET Files
    PROVE  Seen(fs) \subseteq Draws
<1>1. \A f \in fs : Content(f).fit \subseteq Draws /\ Content(f).below \subseteq Draws
  BY DEF TypeOK, Content, Contents
<1> QED BY <1>1 DEF Seen

LEMMA SeenStaged ==
    ASSUME TypeOK, MadeInStages, NEW fs \in SUBSET Files
    PROVE  /\ Seen(fs) \subseteq Base \cup FusionSession \cup PolicySession
           /\ fs \cap Tables = {} => Seen(fs) \subseteq Base \cup FusionSession
           /\ fs \cap (Fusions \cup Tables) = {} => Seen(fs) \subseteq Base
<1>1. \A f \in fs : f \in Files /\ model[f] \in Versions
  BY DEF TypeOK
<1>2. \A f \in fs :
        /\ Content(f).fit \cup Content(f).below \subseteq Base \cup FusionSession \cup PolicySession
        /\ f \notin Tables => Content(f).fit \cup Content(f).below \subseteq Base \cup FusionSession
        /\ f \notin Fusions \cup Tables => Content(f).fit \cup Content(f).below \subseteq Base
  BY <1>1 DEF MadeInStages, MadeFrom, Content
<1> QED BY <1>2 DEF Seen

LEMMA SeenApart ==
    ASSUME TypeOK, TestRowsApart, NEW fs \in SUBSET Files
    PROVE  Seen(fs) \cap rows["test"] = {}
<1>1. \A f \in fs : (Content(f).fit \cup Content(f).below) \cap rows["test"] = {}
  BY DEF TypeOK, TestRowsApart, MadeFrom, Content
<1> QED BY <1>1 DEF Seen

(* A training changes one version of one file, and only if it was unmade.  *)
Effect(f, mk) ==
    /\ mk \in Contents
    /\ runs' \in 0..MaxRuns
    /\ model' \in [Files -> Versions] /\ \A g \in Files \ {f} : model'[g] = model[g]
    /\ made' \in [Files -> [Versions -> Contents]]
    /\ \A g \in Files, v \in Versions :
          \/ made'[g][v] = made[g][v]
          \/ g = f /\ made[g][v] = Unmade /\ made'[g][v] = mk
    /\ \A g \in Files \ {f}, v \in Versions : made'[g][v] = made[g][v]
    /\ made'[f][model'[f]] = mk
    /\ UNCHANGED <<captured, manifest, rows, virtual, pinned>>

LEMMA TrainEffect ==
    ASSUME TypeOK, NEW f \in Files, NEW fit \in SUBSET Draws, NEW via \in SUBSET Files,
           Train(f, fit, via)
    PROVE  Effect(f, Made(fit, via))
<1>1. Made(fit, via) \in Contents
  <2>1. {Stamp(u) : u \in via} \in SUBSET (Files \X Versions)
    BY DEF Stamp, TypeOK
  <2> QED BY <2>1, SeenTyped DEF Made, Contents
<1>2. PICK v \in Versions :
        /\ made[f][v] \in {Unmade, Made(fit, via)}
        /\ made' = [made EXCEPT ![f] = [@ EXCEPT ![v] = Made(fit, via)]]
        /\ model' = [model EXCEPT ![f] = v]
  BY DEF Train
<1>3. runs' \in 0..MaxRuns
  BY DEF Train, TypeOK
<1>4. UNCHANGED <<captured, manifest, rows, virtual, pinned>>
  BY DEF Train
<1> DEFINE mk == Made(fit, via)
<1> HIDE DEF mk
<1>5. /\ mk \in Contents
      /\ made' = [made EXCEPT ![f] = [made[f] EXCEPT ![v] = mk]]
      /\ made[f][v] \in {Unmade, mk}
  BY <1>1, <1>2 DEF mk
<1>6. made \in [Files -> [Versions -> Contents]] /\ model \in [Files -> Versions]
  BY DEF TypeOK
<1>7. /\ made' \in [Files -> [Versions -> Contents]]
      /\ \A g \in Files, w \in Versions :
            made'[g][w] = IF g = f /\ w = v THEN mk ELSE made[g][w]
  BY <1>5, <1>6
<1>8. /\ model' \in [Files -> Versions] /\ \A g \in Files \ {f} : model'[g] = model[g]
      /\ model'[f] = v
  BY <1>2, <1>6
<1>9. Effect(f, mk)
  BY <1>3, <1>4, <1>5, <1>7, <1>8 DEF Effect
<1> QED BY <1>9 DEF mk

(* The virtual network draws from what is allocated to its split.          *)
LEMMA VirtualPools ==
    ASSUME manifest \in [Lists -> SUBSET Captures]
    PROVE  /\ \A s \in Splits : Pool(s) \subseteq manifest[s] /\ manifest[s] \subseteq Captures
           /\ Buildable \subseteq Splits /\ "stress" \notin Splits /\ "test" \in Splits
BY DEF Pool, Labelled, Buildable, Lists, Splits

(***************************************************************************)
(* The shipped repository satisfies the invariant.                         *)
(***************************************************************************)
LEMMA InitIInv ==
    ASSUME Init
    PROVE  IInv
<1> DEFINE base == rows["training_session"] \cup rows["train"]
<1>1. /\ captured \subseteq Captures /\ manifest \in [Lists -> SUBSET Captures]
      /\ model \in [Files -> Versions] /\ runs \in 0..MaxRuns
      /\ \A f \in Files : model[f] = 0
      /\ torn = {}
  BY DEF Init
<1>2. /\ pinned \in [Pins -> [scorer : Versions, fusion : Versions]]
      /\ \A p \in Pins : pinned[p].scorer = 0 /\ pinned[p].fusion = 0
  BY DEF Init
<1>3. /\ sidecar \in [Tables -> Lineages]
      /\ \A t \in Tables : sidecar[t] = [pin |-> ShippedPin(t), scorer |-> 0, fusion |-> 0]
  BY DEF Init, Lineages, ShippedPin, Pins
<1>4. /\ rows["training_session"] \subseteq {"TRAIN_001"} \cup manifest["train"]
      /\ rows["train"] \subseteq {"NET_TRAIN"} \cup manifest["train"]
      /\ rows["validation"] \subseteq {"NET_VAL"} \cup manifest["validation"]
      /\ rows["test"] \subseteq {"NET_TEST"} \cup manifest["test"]
  <2>1. Mergeable = {"training_session", "train", "validation", "test"}
    BY DEF Mergeable, Splits
  <2>2. rows["training_session"] = {"TRAIN_001"} \cup Labelled("train")
    BY <2>1 DEF Init
  <2>3. rows["train"] = {Net("train")} \cup Labelled("train")
    BY <2>1 DEF Init
  <2>4. rows["validation"] = {Net("validation")} \cup Labelled("validation")
    BY <2>1 DEF Init
  <2>5. rows["test"] = {Net("test")} \cup Labelled("test")
    BY <2>1 DEF Init
  <2>6. Net("train") = "NET_TRAIN" /\ Net("validation") = "NET_VAL" /\ Net("test") = "NET_TEST"
    BY DEF Net
  <2> QED BY <2>2, <2>3, <2>4, <2>5, <2>6 DEF Labelled
<1>5. RowsAllocated /\ base \subseteq Base
  BY <1>4 DEF RowsAllocated, Base
<1>6. rows \in [Mergeable -> SUBSET Draws]
  <2>1. rows = [s \in Mergeable |-> rows[s]]
    BY DEF Init
  <2>2. \A s \in Lists : manifest[s] \subseteq Draws
    BY <1>1, Simulations
  <2>3. \A s \in Mergeable : rows[s] \subseteq Draws
    BY <1>4, <2>2, Simulations DEF Mergeable, Splits, Lists
  <2> QED BY <2>1, <2>3
<1>7. \A f \in Files : /\ Shipped(f).via = {<<u, 0>> : u \in ShippedVia(f)}
                       /\ ShippedVia(f) \subseteq Files
  BY DEF Shipped, ShippedVia, Files
<1>8. \A f \in Files :
        /\ f \in Fusions => Shipped(f).fit = FusionSession /\ Shipped(f).below = base
        /\ f \in Tables => /\ Shipped(f).fit = PolicySession
                           /\ Shipped(f).below = base \cup FusionSession
        /\ f \notin Fusions \cup Tables => Shipped(f).fit \cup Shipped(f).below \subseteq base
  BY DEF Shipped, Files, Local, Scorers, Fusions, Tables
<1>9. \A f \in Files : Shipped(f) \in Contents
  <2> SUFFICES ASSUME NEW f \in Files PROVE Shipped(f) \in Contents
    OBVIOUS
  <2>1. base \subseteq Draws /\ FusionSession \subseteq Draws /\ PolicySession \subseteq Draws
    BY <1>6, Simulations DEF Mergeable, Splits, FusionSession, PolicySession
  <2>2. Shipped(f).fit \subseteq Draws /\ Shipped(f).below \subseteq Draws
    <3>1. CASE f \in Fusions BY <3>1, <2>1, <1>8
    <3>2. CASE f \in Tables BY <3>2, <2>1, <1>8
    <3>3. CASE f \notin Fusions \cup Tables BY <3>3, <2>1, <1>8
    <3> QED BY <3>1, <3>2, <3>3
  <2>3. Shipped(f).via \subseteq Files \X Versions
    BY <1>7
  <2>4. Shipped(f) = [fit |-> Shipped(f).fit, below |-> Shipped(f).below, via |-> Shipped(f).via]
    BY DEF Shipped
  <2> HIDE DEF base
  <2> QED BY <2>2, <2>3, <2>4 DEF Contents
<1>10. \A f \in Files, v \in Versions : made[f][v] = IF v = 0 THEN Shipped(f) ELSE Unmade
  BY DEF Init
<1>11. made \in [Files -> [Versions -> Contents]]
  <2>1. Unmade \in Contents
    BY DEF Unmade, Contents
  <2>2. made = [f \in Files |-> [v \in Versions |-> IF v = 0 THEN Shipped(f) ELSE Unmade]]
    BY DEF Init
  <2> QED BY <1>9, <2>1, <2>2
<1>a. /\ virtual \in [VirtualFiles -> SUBSET Captures] /\ VirtualAllocated
  BY <1>1, VirtualPools DEF Init, VirtualAllocated, VirtualFiles
<1>12. TypeOK
  BY <1>1, <1>2, <1>3, <1>6, <1>11, <1>a DEF TypeOK
<1>13. MadeInStages
  <2>1. Unmade.fit = {} /\ Unmade.below = {}
    BY DEF Unmade
  <2> SUFFICES ASSUME NEW f \in Files, NEW v \in Versions
               PROVE /\ f \in Fusions => /\ made[f][v].fit \subseteq FusionSession
                                         /\ made[f][v].below \subseteq Base
                     /\ f \in Tables => /\ made[f][v].fit \subseteq PolicySession
                                        /\ made[f][v].below \subseteq Base \cup FusionSession
                     /\ f \notin Fusions \cup Tables => MadeFrom(f, v) \subseteq Base
    BY DEF MadeInStages
  <2>2. CASE v = 0
    BY <2>2, <1>5, <1>8, <1>10 DEF MadeFrom
  <2>3. CASE v # 0
    BY <2>3, <2>1, <1>10 DEF MadeFrom
  <2> QED BY <2>2, <2>3
<1>14. Disjoint
  BY DEF Init
<1>15. \A x \in rows["test"] :
          x \notin Base \cup FusionSession \cup PolicySession \cup rows["validation"]
  <2>1. \A s \in {"train", "validation"} : manifest[s] \cap manifest["test"] = {}
    BY <1>14 DEF Disjoint, Lists, Splits
  <2>2. manifest["train"] \subseteq Captures /\ manifest["validation"] \subseteq Captures
        /\ manifest["test"] \subseteq Captures
    BY <1>1 DEF Lists, Splits
  <2> QED BY <2>1, <2>2, <1>4, Simulations DEF Base, FusionSession, PolicySession
<1>16. TestRowsApart
  <2>1. \A s \in Mergeable \ {"test"} : rows[s] \cap rows["test"] = {}
    BY <1>5, <1>15 DEF Mergeable, Splits
  <2>2. \A f \in Files, v \in Versions : MadeFrom(f, v) \cap rows["test"] = {}
    BY <1>13, <1>15 DEF MadeInStages, MadeFrom
  <2> QED BY <2>1, <2>2 DEF TestRowsApart
<1>17. PinsMatched
  <2>1. \A p \in Pins : Scorer(p) \in ShippedVia(Fusion(p))
    BY PinFiles DEF ShippedVia
  <2> QED BY <2>1, <1>2, <1>7, <1>10, PinFiles DEF PinsMatched
<1>18. SidecarsTrue
  <2>1. \A t \in Tables : /\ t \in Files /\ ShippedPin(t) \in Pins
                          /\ {Scorer(ShippedPin(t)), Fusion(ShippedPin(t))} \subseteq ShippedVia(t)
    BY PinFiles DEF Tables, Files, ShippedPin, Pins, ShippedVia, PolicyInputs
  <2>2. \A t \in Tables : Content(t) = Shipped(t)
    BY <2>1, <1>1, <1>10 DEF Content
  <2> SUFFICES ASSUME NEW t \in Tables
               PROVE {<<Scorer(sidecar[t].pin), sidecar[t].scorer>>,
                      <<Fusion(sidecar[t].pin), sidecar[t].fusion>>} \subseteq Content(t).via
    BY DEF SidecarsTrue
  <2>3. /\ Scorer(ShippedPin(t)) \in ShippedVia(t) /\ Fusion(ShippedPin(t)) \in ShippedVia(t)
    BY <2>1
  <2>4. sidecar[t].pin = ShippedPin(t) /\ sidecar[t].scorer = 0 /\ sidecar[t].fusion = 0
    BY <1>3
  <2> QED BY <2>1, <2>2, <2>3, <2>4, <1>7
<1> QED BY <1>5, <1>a, <1>12, <1>13, <1>16, <1>17, <1>18 DEF IInv

(***************************************************************************)
(* Each step preserves it.                                                 *)
(***************************************************************************)
LEMMA CaptureIInv ==
    ASSUME IInv, NEW c \in Captures, Capture(c)
    PROVE  IInv'
<1>1. TypeOK'
  BY DEF IInv, TypeOK, Capture
<1> QED BY <1>1 DEF IInv, Capture, RowsAllocated, VirtualAllocated, Base, MadeInStages, MadeFrom,
            TestRowsApart, PinsMatched, SidecarsTrue, Content

LEMMA AllocateIInv ==
    ASSUME IInv, NEW c \in Captures, NEW s \in Lists, Allocate(c, s)
    PROVE  IInv'
<1>1. /\ manifest' \in [Lists -> SUBSET Captures]
      /\ \A t \in Lists : manifest[t] \subseteq manifest'[t]
      /\ UNCHANGED <<captured, rows, virtual, made, model, pinned, sidecar, torn, runs>>
  BY DEF IInv, TypeOK, Allocate
<1>2. Base \subseteq Base'
  BY <1>1 DEF Base, Lists, Splits
<1>3. TypeOK'
  BY <1>1 DEF IInv, TypeOK
<1>4. RowsAllocated'
  BY <1>1, <1>2 DEF IInv, RowsAllocated, Lists, Splits
<1>5. MadeInStages'
  BY <1>1, <1>2 DEF IInv, MadeInStages, MadeFrom
<1>6. TestRowsApart' /\ PinsMatched' /\ SidecarsTrue'
  BY <1>1 DEF IInv, TestRowsApart, MadeFrom, PinsMatched, SidecarsTrue, Content
<1>7. VirtualAllocated'
  <2>1. Splits \subseteq Lists /\ "test" \in Lists
    BY DEF Lists, Splits
  <2> QED BY <1>1, <2>1 DEF IInv, VirtualAllocated
<1> QED BY <1>3, <1>4, <1>5, <1>6, <1>7 DEF IInv

(* With disjoint lists, what is allocated to TEST is in no other stage.    *)
LEMMA TestAllocatedApart ==
    ASSUME TypeOK, Disjoint, NEW x \in {"NET_TEST"} \cup manifest["test"]
    PROVE  x \notin Base \cup FusionSession \cup PolicySession
                    \cup {"NET_VAL"} \cup manifest["validation"]
<1>1. \A s \in {"train", "validation"} : manifest[s] \cap manifest["test"] = {}
  BY DEF Disjoint, Lists, Splits
<1>2. /\ manifest["train"] \subseteq Captures /\ manifest["validation"] \subseteq Captures
      /\ manifest["test"] \subseteq Captures
  BY DEF TypeOK, Lists, Splits
<1> QED BY <1>1, <1>2, Simulations DEF Base, FusionSession, PolicySession

LEMMA WritesIInv ==
    ASSUME IInv, NEW newRows \in [Mergeable -> SUBSET Draws], Writes(newRows),
           newRows["training_session"] \cup newRows["train"] \subseteq Base,
           newRows["validation"] \subseteq {"NET_VAL"} \cup manifest["validation"],
           newRows["test"] \subseteq {"NET_TEST"} \cup manifest["test"],
           \/ Disjoint
           \/ /\ newRows["test"] = rows["test"]
              /\ \A s \in Mergeable \ {"test"} : newRows[s] \cap rows["test"] = {}
    PROVE  IInv'
<1>1. /\ rows' = newRows
      /\ UNCHANGED <<captured, manifest, virtual, made, model, pinned, sidecar, torn, runs>>
      /\ Base' = Base
  BY DEF Writes, Base
<1>2. TypeOK'
  BY <1>1 DEF IInv, TypeOK
<1>3. RowsAllocated'
  BY <1>1 DEF RowsAllocated
<1>4. VirtualAllocated' /\ MadeInStages' /\ PinsMatched' /\ SidecarsTrue'
  BY <1>1 DEF IInv, VirtualAllocated, MadeInStages, MadeFrom, PinsMatched, SidecarsTrue, Content
<1>5. TestRowsApart'
  <2>1. CASE Disjoint
    <3>1. \A x \in newRows["test"] : x \notin Base \cup FusionSession \cup PolicySession
                                     \cup {"NET_VAL"} \cup manifest["validation"]
      BY <2>1, TestAllocatedApart DEF IInv
    <3>2. \A s \in Mergeable \ {"test"} : newRows[s] \cap newRows["test"] = {}
      BY <3>1 DEF Mergeable, Splits
    <3>3. \A f \in Files, v \in Versions : MadeFrom(f, v) \cap newRows["test"] = {}
      BY <3>1 DEF IInv, MadeInStages, MadeFrom
    <3> QED BY <3>2, <3>3, <1>1 DEF TestRowsApart, MadeFrom
  <2>2. CASE /\ newRows["test"] = rows["test"]
             /\ \A s \in Mergeable \ {"test"} : newRows[s] \cap rows["test"] = {}
    BY <2>2, <1>1 DEF IInv, TestRowsApart, MadeFrom
  <2> QED BY <2>1, <2>2
<1> QED BY <1>2, <1>3, <1>4, <1>5 DEF IInv

LEMMA GenerateTrainingIInv ==
    ASSUME IInv, GenerateTraining
    PROVE  IInv'
<1> DEFINE new == [rows EXCEPT !["training_session"] = {"TRAIN_001"}]
<1>1. /\ new \in [Mergeable -> SUBSET Draws] /\ Writes(new)
      /\ new["training_session"] = {"TRAIN_001"}
      /\ \A s \in Mergeable \ {"training_session"} : new[s] = rows[s]
  BY Simulations DEF GenerateTraining, IInv, TypeOK, Mergeable
<1>2. {"training_session", "train", "validation", "test"} \subseteq Mergeable
  BY DEF Mergeable, Splits
<1>3. "TRAIN_001" \notin rows["test"]
  BY Simulations DEF IInv, TypeOK, RowsAllocated, Lists, Splits
<1> HIDE DEF new
<1>4. /\ new["test"] = rows["test"]
      /\ \A s \in Mergeable \ {"test"} : new[s] \cap rows["test"] = {}
  BY <1>1, <1>2, <1>3 DEF IInv, TestRowsApart
<1>5. /\ new["training_session"] \cup new["train"] \subseteq Base
      /\ new["validation"] \subseteq {"NET_VAL"} \cup manifest["validation"]
      /\ new["test"] \subseteq {"NET_TEST"} \cup manifest["test"]
  BY <1>1, <1>2 DEF IInv, RowsAllocated, Base
<1> QED BY <1>1, <1>4, <1>5, WritesIInv

LEMMA MergeRealIInv ==
    ASSUME IInv, MergeReal
    PROVE  IInv'
<1> DEFINE new == [rows EXCEPT !["training_session"] = {"TRAIN_001"} \cup Labelled("train")]
<1>1. manifest["train"] \subseteq Captures
  BY DEF IInv, TypeOK, Lists, Splits
<1>2. /\ new \in [Mergeable -> SUBSET Draws] /\ Writes(new) /\ Disjoint
      /\ new["training_session"] = {"TRAIN_001"} \cup Labelled("train")
      /\ \A s \in Mergeable \ {"training_session"} : new[s] = rows[s]
  BY <1>1, Simulations DEF MergeReal, IInv, TypeOK, Mergeable, Labelled
<1>3. {"training_session", "train", "validation", "test"} \subseteq Mergeable
  BY DEF Mergeable, Splits
<1> HIDE DEF new
<1>4. /\ new["training_session"] \cup new["train"] \subseteq Base
      /\ new["validation"] \subseteq {"NET_VAL"} \cup manifest["validation"]
      /\ new["test"] \subseteq {"NET_TEST"} \cup manifest["test"]
  BY <1>2, <1>3 DEF IInv, RowsAllocated, Base, Labelled
<1> QED BY <1>2, <1>4, WritesIInv

LEMMA GenerateNetworkIInv ==
    ASSUME IInv, GenerateNetwork
    PROVE  IInv'
<1> DEFINE new == [s \in Mergeable |-> IF s \in Splits THEN {Net(s)} \cup Labelled(s)
                                                       ELSE rows[s]]
<1>1. \A s \in Splits : /\ Labelled(s) \subseteq manifest[s] /\ manifest[s] \subseteq Captures
                        /\ Net(s) \in Draws
  BY Simulations DEF IInv, TypeOK, Lists, Splits, Labelled, Net
<1>2. \A s \in Mergeable : new[s] \subseteq Draws
  BY <1>1, Simulations DEF IInv, TypeOK
<1>3. /\ new \in [Mergeable -> SUBSET Draws] /\ Writes(new) /\ Disjoint
  BY <1>2 DEF GenerateNetwork
<1>4. /\ new["training_session"] = rows["training_session"]
      /\ new["train"] = {"NET_TRAIN"} \cup Labelled("train")
      /\ new["validation"] = {"NET_VAL"} \cup Labelled("validation")
      /\ new["test"] = {"NET_TEST"} \cup Labelled("test")
  BY DEF Mergeable, Splits, Net
<1> HIDE DEF new
<1>5. /\ new["training_session"] \cup new["train"] \subseteq Base
      /\ new["validation"] \subseteq {"NET_VAL"} \cup manifest["validation"]
      /\ new["test"] \subseteq {"NET_TEST"} \cup manifest["test"]
  BY <1>1, <1>4 DEF IInv, RowsAllocated, Base, Splits
<1> QED BY <1>3, <1>5, WritesIInv

LEMMA DerivesIInv ==
    ASSUME IInv, NEW newVirtual \in [VirtualFiles -> SUBSET Captures], Derives(newVirtual),
           \A s \in Splits : newVirtual[s] \subseteq manifest[s],
           newVirtual["stress"] \subseteq manifest["test"]
    PROVE  IInv'
<1>1. /\ virtual' = newVirtual
      /\ UNCHANGED <<captured, manifest, rows, made, model, pinned, sidecar, torn, runs>>
  BY DEF Derives
<1>2. TypeOK'
  BY <1>1 DEF IInv, TypeOK
<1>3. VirtualAllocated'
  BY <1>1 DEF VirtualAllocated
<1> QED BY <1>1, <1>2, <1>3 DEF IInv, RowsAllocated, Base, MadeInStages, MadeFrom,
        TestRowsApart, PinsMatched, SidecarsTrue, Content

LEMMA GenerateVirtualIInv ==
    ASSUME IInv, GenerateVirtual
    PROVE  IInv'
<1> DEFINE new == [v \in VirtualFiles |-> IF v \in Buildable THEN Pool(v) ELSE virtual[v]]
<1>1. /\ virtual \in [VirtualFiles -> SUBSET Captures] /\ VirtualAllocated
      /\ manifest \in [Lists -> SUBSET Captures]
  BY DEF IInv, TypeOK
<1>2. new \in [VirtualFiles -> SUBSET Captures]
  BY <1>1, VirtualPools
<1>3. /\ \A s \in Splits : new[s] \subseteq manifest[s]
      /\ new["stress"] \subseteq manifest["test"]
  BY <1>1, VirtualPools DEF VirtualAllocated, VirtualFiles
<1>4. Derives(new)
  BY DEF GenerateVirtual
<1> HIDE DEF new
<1> QED BY <1>2, <1>3, <1>4, DerivesIInv

LEMMA GenerateStressIInv ==
    ASSUME IInv, GenerateStress
    PROVE  IInv'
<1> DEFINE new == [virtual EXCEPT !["stress"] = Pool("test")]
<1>1. /\ virtual \in [VirtualFiles -> SUBSET Captures] /\ VirtualAllocated
      /\ manifest \in [Lists -> SUBSET Captures]
  BY DEF IInv, TypeOK
<1>2. new \in [VirtualFiles -> SUBSET Captures]
  BY <1>1, VirtualPools
<1>3. /\ \A s \in Splits : new[s] \subseteq manifest[s]
      /\ new["stress"] \subseteq manifest["test"]
  BY <1>1, VirtualPools DEF VirtualAllocated, VirtualFiles
<1>4. Derives(new)
  BY DEF GenerateStress
<1> HIDE DEF new
<1> QED BY <1>2, <1>3, <1>4, DerivesIInv

(* A training whose rows and files are of the stages below it.             *)
Staged(f, fit, via) ==
    /\ f \in Fusions => fit \subseteq FusionSession /\ via \cap (Fusions \cup Tables) = {}
    /\ f \in Tables  => fit \subseteq PolicySession /\ via \cap Tables = {}
    /\ f \notin Fusions \cup Tables =>
          /\ fit \subseteq rows["training_session"] \cup rows["train"]
          /\ via \cap (Fusions \cup Tables) = {}

LEMMA TrainIInv ==
    ASSUME IInv, NEW f \in Files, NEW fit \in SUBSET Draws, NEW via \in SUBSET Files,
           Train(f, fit, via), Staged(f, fit, via),
           sidecar' \in [Tables -> Lineages], torn' \subseteq Tables, SidecarsTrue'
    PROVE  IInv'
<1> DEFINE mk == Made(fit, via)
<1>0. Effect(f, mk)
  BY TrainEffect DEF IInv
<1>1. /\ mk \in Contents
      /\ runs' \in 0..MaxRuns
      /\ model' \in [Files -> Versions]
      /\ made' \in [Files -> [Versions -> Contents]]
      /\ \A g \in Files, v \in Versions :
            \/ made'[g][v] = made[g][v]
            \/ g = f /\ made[g][v] = Unmade /\ made'[g][v] = mk
      /\ UNCHANGED <<captured, manifest, rows, virtual, pinned>>
      /\ Base' = Base
  <2> HIDE DEF mk
  <2> QED BY <1>0 DEF Effect, Base
<1>2. mk.fit = fit /\ mk.below = Seen(via)
  BY DEF Made
<1>3. /\ f \in Fusions => mk.fit \subseteq FusionSession /\ mk.below \subseteq Base
      /\ f \in Tables => mk.fit \subseteq PolicySession /\ mk.below \subseteq Base \cup FusionSession
      /\ f \notin Fusions \cup Tables => mk.fit \cup mk.below \subseteq Base
  BY <1>2, SeenStaged DEF Staged, IInv, RowsAllocated
<1>4. (mk.fit \cup mk.below) \cap rows["test"] = {}
  <2>1. mk.below \cap rows["test"] = {}
    BY <1>2, SeenApart DEF IInv
  <2>2. \A x \in FusionSession \cup PolicySession : x \notin rows["test"]
    <3>1. manifest["test"] \subseteq Captures
      BY DEF IInv, TypeOK, Lists, Splits
    <3> QED BY <3>1, Simulations DEF IInv, RowsAllocated, FusionSession, PolicySession
  <2>3. (rows["training_session"] \cup rows["train"]) \cap rows["test"] = {}
    BY DEF IInv, TestRowsApart, Mergeable, Splits
  <2> QED BY <1>2, <2>1, <2>2, <2>3 DEF Staged
<1> HIDE DEF mk
<1>5. TypeOK'
  BY <1>1 DEF IInv, TypeOK
<1>6. RowsAllocated' /\ VirtualAllocated'
  BY <1>1 DEF IInv, RowsAllocated, VirtualAllocated
<1>7. MadeInStages'
  <2> SUFFICES ASSUME NEW g \in Files, NEW v \in Versions
               PROVE /\ g \in Fusions => /\ made'[g][v].fit \subseteq FusionSession
                                         /\ made'[g][v].below \subseteq Base
                     /\ g \in Tables => /\ made'[g][v].fit \subseteq PolicySession
                                        /\ made'[g][v].below \subseteq Base \cup FusionSession
                     /\ g \notin Fusions \cup Tables =>
                           made'[g][v].fit \cup made'[g][v].below \subseteq Base
    BY <1>1 DEF MadeInStages, MadeFrom
  <2>1. CASE made'[g][v] = made[g][v]
    BY <2>1 DEF IInv, MadeInStages, MadeFrom
  <2>2. CASE g = f /\ made'[g][v] = mk
    BY <2>2, <1>3
  <2> QED BY <2>1, <2>2, <1>1
<1>8. TestRowsApart'
  <2>1. \A g \in Files, v \in Versions :
           (made'[g][v].fit \cup made'[g][v].below) \cap rows["test"] = {}
    BY <1>1, <1>4 DEF IInv, TestRowsApart, MadeFrom
  <2> QED BY <1>1, <2>1 DEF IInv, TestRowsApart, MadeFrom
<1>9. PinsMatched'
  <2> SUFFICES ASSUME NEW p \in Pins
               PROVE <<Scorer(p), pinned[p].scorer>>
                        \in made'[Fusion(p)][pinned[p].fusion].via
    BY <1>1 DEF PinsMatched
  <2>1. /\ Fusion(p) \in Files /\ pinned[p].fusion \in Versions
        /\ <<Scorer(p), pinned[p].scorer>> \in made[Fusion(p)][pinned[p].fusion].via
    BY PinFiles DEF IInv, TypeOK, PinsMatched
  <2>2. made[Fusion(p)][pinned[p].fusion] # Unmade
    BY <2>1 DEF Unmade
  <2>3. made'[Fusion(p)][pinned[p].fusion] = made[Fusion(p)][pinned[p].fusion]
    BY <1>1, <2>1, <2>2
  <2> QED BY <2>1, <2>3
<1> QED BY <1>5, <1>6, <1>7, <1>8, <1>9 DEF IInv

LEMMA UnlabelledIInv ==
    ASSUME IInv, NEW f \in Files \ Tables, NEW fit \in SUBSET Draws, NEW via \in SUBSET Files,
           Train(f, fit, via), Staged(f, fit, via), Unlabelled
    PROVE  IInv'
<1>0. Effect(f, Made(fit, via))
  BY TrainEffect DEF IInv
<1>1. /\ \A g \in Files \ {f}, v \in Versions : made'[g][v] = made[g][v]
      /\ \A g \in Files \ {f} : model'[g] = model[g]
  BY <1>0 DEF Effect
<1>2. \A t \in Tables : Content(t)' = Content(t)
  <2> TAKE t \in Tables
  <2>1. t \in Files \ {f} /\ model[t] \in Versions
    BY Kinds DEF IInv, TypeOK
  <2>2. model'[t] = model[t] /\ made'[t][model[t]] = made[t][model[t]]
    BY <1>1, <2>1
  <2> QED BY <2>2 DEF Content
<1>3. SidecarsTrue'
  BY <1>2 DEF IInv, SidecarsTrue, Unlabelled
<1>4. sidecar' \in [Tables -> Lineages] /\ torn' \subseteq Tables
  BY DEF Unlabelled, IInv, TypeOK
<1> QED BY <1>3, <1>4, TrainIInv

LEMMA RowsTyped ==
    ASSUME TypeOK
    PROVE  /\ rows["training_session"] \subseteq Draws /\ rows["train"] \subseteq Draws
           /\ FusionSession \subseteq Draws /\ PolicySession \subseteq Draws
BY Simulations DEF TypeOK, Mergeable, Splits, FusionSession, PolicySession

LEMMA TrainersIInv ==
    ASSUME IInv,
           \/ TrainIF \/ TrainLSTM \/ TrainTransformer \/ TrainGNN \/ TrainFusion
           \/ \E out \in {"st", "st_flawed"} : TrainSetTransformer(out)
           \/ \E from \in {"st", "st_flawed"}, out \in {"fusion", "fusion_m6"} :
                 TrainFusionM6(from, out)
    PROVE  IInv'
<1>1. TypeOK
  BY DEF IInv
<1>2. CASE TrainIF
  <2>1. Staged("if", rows["training_session"] \cup rows["train"], {})
    BY DEF Staged, Fusions, Tables
  <2> QED BY <1>1, <1>2, <2>1, RowsTyped, UnlabelledIInv DEF TrainIF, Files, Local, Tables
<1>3. CASE TrainLSTM
  <2>1. Staged("lstm", rows["training_session"] \cup rows["train"], {})
    BY DEF Staged, Fusions, Tables
  <2> QED BY <1>1, <1>3, <2>1, RowsTyped, UnlabelledIInv DEF TrainLSTM, Files, Local, Tables
<1>4. CASE TrainTransformer
  <2>1. Staged("transformer", rows["training_session"], {})
    BY DEF Staged, Fusions, Tables
  <2> QED BY <1>1, <1>4, <2>1, RowsTyped, UnlabelledIInv DEF TrainTransformer, Files, Tables
<1>5. CASE TrainGNN
  <2>1. Staged("gnn", rows["training_session"], Local)
    BY DEF Staged, Fusions, Tables, Local
  <2>2. "gnn" \in Files \ Tables /\ Local \subseteq Files
    BY DEF Files, Scorers, Tables, Local
  <2> QED BY <1>1, <1>5, <2>1, <2>2, RowsTyped, UnlabelledIInv DEF TrainGNN
<1>6. CASE TrainFusion
  <2>1. Staged("fusion", FusionSession, Local \cup {"gnn"})
    BY DEF Staged, Fusions, Tables, Local
  <2>2. "fusion" \in Files \ Tables /\ Local \cup {"gnn"} \subseteq Files
    BY DEF Files, Scorers, Fusions, Tables, Local
  <2> QED BY <1>1, <1>6, <2>1, <2>2, RowsTyped, UnlabelledIInv DEF TrainFusion
<1>7. ASSUME NEW out \in {"st", "st_flawed"}, TrainSetTransformer(out)
      PROVE  IInv'
  <2>1. Staged(out, rows["training_session"], Local)
    BY DEF Staged, Fusions, Tables, Local
  <2>2. out \in Files \ Tables /\ Local \subseteq Files
    BY DEF Files, Scorers, Tables, Local
  <2> QED BY <1>1, <1>7, <2>1, <2>2, RowsTyped, UnlabelledIInv DEF TrainSetTransformer
<1>8. ASSUME NEW from \in {"st", "st_flawed"}, NEW out \in {"fusion", "fusion_m6"},
             TrainFusionM6(from, out)
      PROVE  IInv'
  <2>1. Staged(out, FusionSession, Local \cup {from})
    BY DEF Staged, Fusions, Tables, Local
  <2>2. out \in Files \ Tables /\ Local \cup {from} \subseteq Files
    BY DEF Files, Scorers, Fusions, Tables, Local
  <2> QED BY <1>1, <1>8, <2>1, <2>2, RowsTyped, UnlabelledIInv DEF TrainFusionM6
<1> QED BY <1>2, <1>3, <1>4, <1>5, <1>6, <1>7, <1>8

LEMMA TrainPolicyIInv ==
    ASSUME IInv, NEW p \in Pins, NEW out \in Tables, TrainPolicy(p, out)
    PROVE  IInv'
<1> DEFINE via == PolicyInputs(p)
<1>1. TypeOK /\ out \in Files /\ via \in SUBSET Files /\ via \cap Tables = {}
      /\ Scorer(p) \in via /\ Fusion(p) \in via
  BY PinFiles, Kinds DEF IInv, PolicyInputs
<1>2. Train(out, PolicySession, via) /\ Verified(p)
  BY DEF TrainPolicy
<1>3. Staged(out, PolicySession, via) /\ PolicySession \in SUBSET Draws
  BY <1>1, Kinds, RowsTyped DEF Staged
<1> HIDE DEF via
<1>4. /\ made'[out][model'[out]] = Made(PolicySession, via)
      /\ \A g \in Files \ {out}, v \in Versions : made'[g][v] = made[g][v]
      /\ \A g \in Files \ {out} : model'[g] = model[g]
  <2>1. Effect(out, Made(PolicySession, via))
    BY <1>1, <1>2, <1>3, TrainEffect
  <2> QED BY <2>1 DEF Effect
<1> DEFINE lin == [pin |-> p, scorer |-> pinned[p].scorer, fusion |-> pinned[p].fusion]
<1>5. lin \in Lineages
  BY <1>1 DEF TypeOK, Lineages
<1>6. \/ sidecar' = [sidecar EXCEPT ![out] = lin] /\ torn' = torn \ {out}
      \/ sidecar' = sidecar /\ torn' = torn \cup {out}
  BY DEF TrainPolicy
<1>7. lin.pin = p /\ lin.scorer = model[Scorer(p)] /\ lin.fusion = model[Fusion(p)]
  BY <1>2 DEF Verified
<1> HIDE DEF lin
<1>8. sidecar' \in [Tables -> Lineages] /\ torn' \subseteq Tables
  BY <1>1, <1>5, <1>6 DEF TypeOK
<1>9. SidecarsTrue'
  <2> SUFFICES ASSUME NEW t \in Tables, t \notin torn'
               PROVE {<<Scorer(sidecar'[t].pin), sidecar'[t].scorer>>,
                      <<Fusion(sidecar'[t].pin), sidecar'[t].fusion>>}
                        \subseteq made'[t][model'[t]].via
    BY DEF SidecarsTrue, Content
  <2>1. CASE t = out
    <3>1. sidecar'[t] = lin
      BY <2>1, <1>1, <1>6 DEF TypeOK
    <3>2. made'[t][model'[t]].via = {Stamp(u) : u \in via}
      BY <2>1, <1>4 DEF Made
    <3> QED BY <3>1, <3>2, <1>1, <1>7 DEF Stamp
  <2>2. CASE t # out
    <3>1. t \notin torn /\ sidecar'[t] = sidecar[t]
      BY <2>2, <1>1, <1>6 DEF TypeOK
    <3>2. t \in Files /\ model'[t] = model[t] /\ model[t] \in Versions
      BY <2>2, <1>1, <1>4, Kinds DEF TypeOK
    <3>3. made'[t][model'[t]] = made[t][model[t]]
      BY <2>2, <3>2, <1>4
    <3> QED BY <3>1, <3>3 DEF IInv, SidecarsTrue, Content
  <2> QED BY <2>1, <2>2
<1> QED BY <1>1, <1>2, <1>3, <1>8, <1>9, TrainIInv

LEMMA RepinIInv ==
    ASSUME IInv, NEW p \in Pins, Repin(p)
    PROVE  IInv'
<1>1. /\ model[Scorer(p)] \in Versions /\ model[Fusion(p)] \in Versions
      /\ Fusion(p) \in Files /\ Scorer(p) \in Files
  BY PinFiles DEF IInv, TypeOK
<1>2. /\ pinned' \in [Pins -> [scorer : Versions, fusion : Versions]]
      /\ pinned'[p].scorer = model[Scorer(p)] /\ pinned'[p].fusion = model[Fusion(p)]
      /\ \A q \in Pins \ {p} : pinned'[q] = pinned[q]
      /\ UNCHANGED <<captured, manifest, rows, virtual, made, model, sidecar, torn, runs>>
  BY <1>1 DEF Repin, IInv, TypeOK
<1>3. PinsMatched'
  BY <1>2 DEF Repin, Stamp, Content, IInv, PinsMatched
<1>4. TypeOK'
  BY <1>2 DEF IInv, TypeOK
<1> QED BY <1>2, <1>3, <1>4 DEF IInv, RowsAllocated, VirtualAllocated, Base, MadeInStages,
        MadeFrom, TestRowsApart, SidecarsTrue, Content

(***************************************************************************)
(* The theorems.                                                           *)
(***************************************************************************)

(* IInv is inductive, so it holds of every reachable repository.           *)
THEOREM Invariance == Spec => []IInv
<1>1. Init => IInv
  BY InitIInv
<1>2. IInv /\ [Next]_vars => IInv'
  <2> SUFFICES ASSUME IInv, [Next]_vars PROVE IInv'
    OBVIOUS
  <2>1. CASE \E c \in Captures : Capture(c) \/ \E s \in Lists : Allocate(c, s)
    BY <2>1, CaptureIInv, AllocateIInv
  <2>2. CASE GenerateTraining \/ MergeReal \/ GenerateNetwork
    BY <2>2, GenerateTrainingIInv, MergeRealIInv, GenerateNetworkIInv
  <2>a. CASE GenerateVirtual \/ GenerateStress
    BY <2>a, GenerateVirtualIInv, GenerateStressIInv
  <2>3. CASE \/ TrainIF \/ TrainLSTM \/ TrainTransformer \/ TrainGNN \/ TrainFusion
             \/ \E out \in {"st", "st_flawed"} : TrainSetTransformer(out)
             \/ \E from \in {"st", "st_flawed"}, out \in {"fusion", "fusion_m6"} :
                   TrainFusionM6(from, out)
    BY <2>3, TrainersIInv
  <2>4. CASE \E p \in Pins : Repin(p) \/ \E out \in Tables : TrainPolicy(p, out)
    BY <2>4, RepinIInv, TrainPolicyIInv
  <2>5. CASE UNCHANGED vars
    BY <2>5 DEF vars, IInv, TypeOK, RowsAllocated, VirtualAllocated, Base, MadeInStages, MadeFrom,
                TestRowsApart, PinsMatched, SidecarsTrue, Content
  <2> QED BY <2>1, <2>2, <2>a, <2>3, <2>4, <2>5 DEF Next
<1> QED BY <1>1, <1>2, PTL DEF Spec

(* The type invariant of every reachable repository.                       *)
THEOREM TypeCorrect == Spec => []TypeOK
<1>1. IInv => TypeOK
  BY DEF IInv
<1> QED BY <1>1, Invariance, PTL

(* Whatever is captured, allocated, merged and trained in whatever order,  *)
(* no script that goes through reports on rows its models met.             *)
THEOREM TestUntouched == Spec => []TestIsUntouched
<1>1. ASSUME IInv, NEW e \in Evaluations, e.ok
      PROVE  e.on \cap e.seen = {}
  <2>1. TypeOK /\ MadeInStages /\ TestRowsApart /\ RowsAllocated
    BY <1>1 DEF IInv
  <2>2. \A fs \in SUBSET Files : /\ Seen(fs) \cap rows["test"] = {}
                                 /\ Seen(fs) \subseteq Base \cup FusionSession \cup PolicySession
    BY <2>1, SeenApart, SeenStaged
  <2>3. \A fs \in SUBSET Files : TestSession \cap Seen(fs) = {}
    <3>1. "TEST_001" \notin Base \cup FusionSession \cup PolicySession
      BY <2>1, Simulations DEF TypeOK, Lists, Splits, Base, FusionSession, PolicySession
    <3> QED BY <2>2, <3>1 DEF TestSession
  <2>4. ASSUME NEW fs \in SUBSET Files, NEW ok, e = Scores(ok, TestSession, {}, fs)
        PROVE  e.on \cap e.seen = {}
    BY <2>3, <2>4 DEF Scores
  <2>5. /\ Local \cup Scorers \cup Fusions \subseteq Files
        /\ \A p \in Pins : Arm(p) \subseteq Files /\ Arm(p) \cup {"table"} \subseteq Files
                          /\ Arm(p) \cup {ArmTable(p)} \subseteq Files
    BY PinFiles, Kinds DEF Arm, ArmTable, Tables
  <2>6. CASE e \in {EvaluateAblation, EvaluateExplainability, EvaluateResponsiveness,
                    DiagnoseHighRate, EvaluateAblationM6}
    <3>1. /\ Local \cup {"transformer", "gnn", "fusion"} \subseteq Files
          /\ Local \cup {"gnn", "fusion"} \subseteq Files
      BY DEF Local, Files, Scorers, Fusions
    <3> QED BY <2>4, <2>5, <2>6, <3>1 DEF EvaluateAblation, EvaluateExplainability,
               EvaluateResponsiveness, DiagnoseHighRate, EvaluateAblationM6
  <2>7. CASE e = EvaluateLatencyStages
    <3> DEFINE fs == Local \cup {"gnn", "fusion", "table"}
    <3>1. fs \subseteq Files
      BY DEF Local, Files, Scorers, Fusions, Tables
    <3>2. e.on = TestSession \cup rows["test"] /\ e.seen = {} \cup Seen(fs)
      BY <2>7 DEF EvaluateLatencyStages, Scores
    <3> HIDE DEF fs
    <3> QED BY <2>2, <2>3, <3>1, <3>2
  <2>8. CASE e \in {EvaluateNetwork, EvaluatePattern, BenchmarkNetwork, StudySeeds}
    <3>1. e.on = rows["test"] /\ e.seen = rows["train"] \cup rows["validation"] \cup Seen(Local)
      BY <2>8 DEF EvaluateNetwork, EvaluatePattern, BenchmarkNetwork, StudySeeds, Scores,
                  Fitted, Refitted, NetworkScorers
    <3>2. rows["train"] \cap rows["test"] = {} /\ rows["validation"] \cap rows["test"] = {}
      BY <2>1 DEF TestRowsApart, Mergeable, Splits
    <3> QED BY <2>2, <2>5, <3>1, <3>2
  <2>9. CASE e = ComparePolicies
    <3> DEFINE fs == Arm("gcn") \cup {"table"}
    <3>1. fs \subseteq Files
      BY <2>5 DEF Pins
    <3>2. e.on = TestSession /\ e.seen = PolicySession \cup Seen(fs)
      BY <2>9 DEF ComparePolicies, Scores
    <3>3. TestSession \cap PolicySession = {}
      BY DEF TestSession, PolicySession
    <3> HIDE DEF fs
    <3> QED BY <2>3, <3>1, <3>2, <3>3
  <2>10. CASE \E p \in Pins : e = EvaluateExplainability2(p)
    BY <2>4, <2>5, <2>10 DEF EvaluateExplainability2
  <2>11. CASE \E p \in Pins : e = EvaluateHardware(p)
    <3>1. PICK p \in Pins : e = EvaluateHardware(p)
      BY <2>11
    <3>2. Disjoint /\ e.on = Labelled("test") /\ e.seen = {} \cup Seen(Arm(p))
      BY <1>1, <3>1 DEF EvaluateHardware, Scores
    <3>3. \A x \in Labelled("test") : x \notin Base \cup FusionSession \cup PolicySession
      BY <2>1, <3>2, TestAllocatedApart DEF Labelled
    <3> QED BY <2>2, <2>5, <3>2, <3>3
  <2>12. CASE e \in LineageChecked
    <3>1. \/ \E p \in Pins : e = EvaluateCorrected(p)
          \/ \E p \in Pins : e = EvaluateRL(p)
      BY <2>12 DEF LineageChecked, Pins
    <3> QED BY <2>4, <2>5, <3>1 DEF EvaluateCorrected, EvaluateRL
  <2> QED BY <2>6, <2>7, <2>8, <2>9, <2>10, <2>11, <2>12 DEF Evaluations
<1>2. ASSUME IInv, Disjoint, NEW e \in VirtualStudies
      PROVE  e.on \cap e.seen = {}
  <2>1. TypeOK /\ MadeInStages /\ RowsAllocated /\ VirtualAllocated
    BY <1>2 DEF IInv
  <2> DEFINE tested == {"NET_TEST"} \cup manifest["test"]
             fitted == Base \cup {"NET_VAL"} \cup manifest["validation"]
  <2>2. tested \cap fitted = {}
    BY <1>2, <2>1, TestAllocatedApart
  <2>3. Seen(Local) \subseteq Base /\ Seen(Local \cup Local) \subseteq Base
    BY <2>1, SeenStaged, Kinds
  <2>4. /\ rows["test"] \subseteq tested /\ virtual["test"] \subseteq tested
        /\ virtual["stress"] \subseteq tested
        /\ rows["train"] \subseteq fitted /\ rows["validation"] \subseteq fitted
        /\ virtual["train"] \subseteq fitted /\ virtual["validation"] \subseteq fitted
        /\ Seen(Local \cup Local) \subseteq fitted
    BY <2>1, <2>3 DEF RowsAllocated, VirtualAllocated, Splits, Base
  <2> HIDE DEF tested, fitted
  <2>5. e.on \subseteq tested
    BY <2>4 DEF VirtualStudies, BenchmarkMixed, CheckMixed, StudyMixed, StudyVirtual, Scores
  <2>6. e.seen \subseteq fitted
    BY <2>4 DEF VirtualStudies, BenchmarkMixed, CheckMixed, StudyMixed, StudyVirtual, Scores,
                FittedMixed, FittedVirtual, Fitted, NetworkScorers, VirtualScorers
  <2> QED BY <2>2, <2>5, <2>6
<1>3. IInv => TestIsUntouched
  BY <1>1, <1>2 DEF TestIsUntouched
<1> QED BY <1>3, Invariance, PTL

(* Every fusion and every table, in every version ever trained, is fitted  *)
(* on rows that nothing below it was fitted on.                            *)
THEOREM StagesStayApart == Spec => []StagesApart
<1>1. IInv => StagesApart
  <2> SUFFICES ASSUME IInv PROVE StagesApart
    OBVIOUS
  <2>1. \A x \in Base : x # "VAL_001" /\ x # "VAL_002"
    BY Simulations DEF IInv, TypeOK, Base, Lists, Splits
  <2>2. "VAL_001" # "VAL_002"
    OBVIOUS
  <2>3. \A f \in Fusions \cup Tables : f \in Files
    BY Kinds
  <2> QED BY <2>1, <2>2, <2>3 DEF IInv, MadeInStages, StagesApart, FusionSession, PolicySession
<1> QED BY <1>1, Invariance, PTL

(* A pin that verifies pairs a fusion with the scorer it was fitted on.    *)
THEOREM PinsStayMatched == Spec => []PinnedIsMatched
<1>1. IInv => PinnedIsMatched
  BY DEF IInv, PinsMatched, PinnedIsMatched, Verified, Stamp, Content
<1> QED BY <1>1, Invariance, PTL

(* A table that passes the lineage check against a pin that verifies was   *)
(* trained on the two files that pin loads.                                *)
THEOREM LineageStaysTrue == Spec => []LineageIsTrue
<1>1. IInv => LineageIsTrue
  <2> SUFFICES ASSUME IInv, NEW p \in Pins, NEW t \in Tables,
                      Verified(p), LineageHolds(p, t), t \notin torn
               PROVE  {Stamp(Scorer(p)), Stamp(Fusion(p))} \subseteq Content(t).via
    BY DEF LineageIsTrue
  <2>1. /\ sidecar[t].pin = p /\ sidecar[t].scorer = model[Scorer(p)]
        /\ sidecar[t].fusion = model[Fusion(p)]
    BY DEF LineageHolds, Verified
  <2> QED BY <2>1 DEF IInv, SidecarsTrue, Stamp
<1> QED BY <1>1, Invariance, PTL
=============================================================================
