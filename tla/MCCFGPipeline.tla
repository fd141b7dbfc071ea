---------------------------- MODULE MCCFGPipeline ----------------------------
(***************************************************************************)
(* Instances of the control-flow-graph pipeline.                            *)
(***************************************************************************)
EXTENDS CFGPipeline

MCFeatures ==
    {CFG_INFO, COLLECTED_CFG, VIRTUALIZED_CFG, DELAYED_CFG, DOMINANCE,
     LOOP_HEADERS, LOOP_INFO, UNROLLED_LOOPS, REDUCED_LOOPS}

MCUsages ==
    [NoProcessor |-> <<>>,
     CFGBuilder |-> CFGBuilderUsage,
     CFGCollector |-> CFGCollectorUsage,
     Virtualizer |-> VirtualizerUsage,
     SubCFGBuilder |-> SubCFGBuilderUsage,
     DelayedBuilder |-> DelayedBuilderUsage,
     Dominance |-> DominanceUsage,
     LoopInfoBuilder |-> LoopInfoBuilderUsage,
     LoopUnroller |-> LoopUnrollerUsage,
     LoopReductor |-> LoopReductorUsage]

MCProcessors == DOMAIN MCUsages

MCMakers ==
    [f \in MCFeatures |->
        CASE f = CFG_INFO -> {"CFGBuilder"}
          [] f = COLLECTED_CFG -> {"CFGCollector"}
          [] f = VIRTUALIZED_CFG -> {"Virtualizer"}
          [] f = DELAYED_CFG -> {"DelayedBuilder"}
          [] f \in {DOMINANCE, LOOP_HEADERS} -> {"Dominance"}
          [] f = LOOP_INFO -> {"LoopInfoBuilder"}
          [] f = UNROLLED_LOOPS -> {"LoopUnroller"}
          [] f = REDUCED_LOOPS -> {"LoopReductor"}]

MCFaulty == {"CFGCollector", "DelayedBuilder"}

MCCleaned ==
    [p \in MCProcessors |->
        CASE p = "CFGBuilder" -> {CFG_INFO}
          [] p = "CFGCollector" -> {COLLECTED_CFG}
          [] p = "Virtualizer" -> {COLLECTED_CFG, VIRTUALIZED_CFG}
          [] p = "SubCFGBuilder" -> {VIRTUALIZED_CFG}
          [] p = "DelayedBuilder" -> {COLLECTED_CFG}
          [] p = "Dominance" -> {DOMINANCE}
          [] OTHER -> {}]

MCLoaded == <<>>

\* The declarations are coherent, and what the theorems on the pipeline ask of
\* them.
ASSUME CoherentAssumption == CoherentCatalogue
ASSUME DeclarationsAssumption == CFGDeclarations

\* Only the tools that run LoopReductor and SubCFGBuilder are out of ToolCalls.
ASSUME ToolsAssumption == Tools \subseteq Known => ToolCalls
=============================================================================
