---------------------------- MODULE MCFeatureEngine ---------------------------
(***************************************************************************)
(* The feature engine over a catalogue with every kind of processor a        *)
(* plugin may declare: one that invalidates the feature it provides, one     *)
(* that uses and invalidates, features with two implementations, a feature   *)
(* nobody implements, a processor that may fail.                             *)
(***************************************************************************)
EXTENDS FeatureEngine

Entry(k, f) == [kind |-> k, feature |-> f]

MCFeatures == {"Code", "Flow", "Loops", "Times"}

MCUsages ==
    [NoProcessor |-> <<>>,
     Decode |-> <<Entry("provide", "Code")>>,
     BuildFlow |-> <<Entry("require", "Code"), Entry("provide", "Flow")>>,
     BuildAll |-> <<Entry("require", "Code"), Entry("provide", "Loops"), Entry("provide", "Flow")>>,
     FindLoops |-> <<Entry("require", "Flow"), Entry("require", "Code"), Entry("provide", "Loops")>>,
     Reload |-> <<Entry("invalidate", "Code"), Entry("provide", "Code")>>,
     Transform |-> <<Entry("use", "Loops"), Entry("require", "Code"), Entry("require", "Flow"),
                     Entry("invalidate", "Flow"), Entry("provide", "Flow")>>,
     Measure |-> <<Entry("require", "Loops"), Entry("use", "Times"), Entry("provide", "Times")>>]

MCMakers ==
    [Code |-> {"Decode", "Reload"}, Flow |-> {"BuildFlow", "BuildAll"},
     Loops |-> {"FindLoops", "BuildAll"}, Times |-> {"NoProcessor"}]

MCFaulty == {"BuildFlow"}

MCCleaned ==
    [p \in DOMAIN MCUsages |-> IF p = "FindLoops" THEN {"Loops"} ELSE {}]

MCLoaded == <<>>

MCProcessors == DOMAIN MCUsages

\* The declarations are coherent.
ASSUME CoherentAssumption == CoherentCatalogue
=============================================================================
