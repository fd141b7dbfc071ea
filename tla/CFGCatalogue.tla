----------------------------- MODULE CFGCatalogue -----------------------------
(***************************************************************************)
(* What the processors that work on control-flow graphs declare, restricted *)
(* to the features of this catalogue.  A usage list is enumerated by        *)
(* FeatureIter in the order it was declared when it comes from p::init (the *)
(* list is copied, so reversed twice), in the opposite order when it comes  *)
(* from a tag list or from calls in a constructor, the base class last.     *)
(***************************************************************************)
EXTENDS Sequences, SequencesExt

CFG_INFO == "CFG_INFO"
COLLECTED_CFG == "COLLECTED_CFG"
VIRTUALIZED_CFG == "VIRTUALIZED_CFG"
DELAYED_CFG == "DELAYED_CFG"
DOMINANCE == "DOMINANCE"
LOOP_HEADERS == "LOOP_HEADERS"
LOOP_INFO == "LOOP_INFO"
UNROLLED_LOOPS == "UNROLLED_LOOPS"
REDUCED_LOOPS == "REDUCED_LOOPS"

Entry(k, f) == [kind |-> k, feature |-> f]

\* p::init ... and setFeatures: SLList::add twice.
FromInit(declared, base) == Reverse(Reverse(declared)) \o base

\* AbstractRegistration::init, Processor::require...: SLList::add once.
FromTags(declared, base) == Reverse(declared) \o base

CFGProcessorUsage == FromTags(<<Entry("require", COLLECTED_CFG)>>, <<>>)

CFGBuilderUsage == FromTags(<<Entry("provide", CFG_INFO)>>, <<>>)

CFGCollectorUsage ==
    FromTags(<<Entry("require", CFG_INFO), Entry("provide", COLLECTED_CFG)>>, <<>>)

VirtualizerUsage ==
    FromInit(<<Entry("use", COLLECTED_CFG), Entry("invalidate", COLLECTED_CFG),
               Entry("provide", VIRTUALIZED_CFG), Entry("provide", COLLECTED_CFG)>>, <<>>)

SubCFGBuilderUsage ==
    FromTags(<<Entry("require", COLLECTED_CFG), Entry("use", VIRTUALIZED_CFG),
               Entry("invalidate", COLLECTED_CFG), Entry("provide", VIRTUALIZED_CFG)>>, <<>>)

DelayedBuilderUsage ==
    FromTags(<<Entry("require", COLLECTED_CFG), Entry("invalidate", COLLECTED_CFG),
               Entry("provide", COLLECTED_CFG), Entry("provide", DELAYED_CFG)>>,
             CFGProcessorUsage)

DominanceUsage ==
    FromTags(<<Entry("provide", DOMINANCE), Entry("provide", LOOP_HEADERS)>>,
             CFGProcessorUsage)

LoopInfoBuilderUsage ==
    FromTags(<<Entry("require", DOMINANCE), Entry("require", LOOP_HEADERS),
               Entry("provide", LOOP_INFO)>>,
             CFGProcessorUsage)

LoopUnrollerUsage ==
    FromInit(<<Entry("use", DOMINANCE), Entry("use", LOOP_HEADERS), Entry("use", LOOP_INFO),
               Entry("use", COLLECTED_CFG), Entry("invalidate", COLLECTED_CFG),
               Entry("provide", COLLECTED_CFG), Entry("provide", UNROLLED_LOOPS)>>, <<>>)

LoopReductorUsage ==
    FromTags(<<Entry("require", COLLECTED_CFG), Entry("invalidate", COLLECTED_CFG),
               Entry("provide", LOOP_HEADERS), Entry("provide", REDUCED_LOOPS)>>, <<>>)
=============================================================================
