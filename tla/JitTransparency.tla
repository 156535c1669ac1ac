--------------------------- MODULE JitTransparency ---------------------------
(***************************************************************************)
(* One program run twice: by the interpreter alone (the variables with the *)
(* prefix off), and then under --jit.  Both start from the same module.    *)
(***************************************************************************)
EXTENDS JitTier

VARIABLES offStack, offLabelMap, offActivMap, offLabelCount, offPc,
          offGlobals, offContStore, offStatus, offOutcome, offResult

offVars == <<offStack, offLabelMap, offActivMap, offLabelCount, offPc,
             offGlobals, offContStore, offStatus, offOutcome, offResult>>

Off == INSTANCE Interpreter WITH
  stack <- offStack, labelMap <- offLabelMap, activMap <- offActivMap,
  labelCount <- offLabelCount, pc <- offPc, globals <- offGlobals,
  contStore <- offContStore, status <- offStatus, outcome <- offOutcome, result <- offResult

TwinInit == TierInit /\ Off!Init

TwinNext ==
  \/ Off!Step /\ UNCHANGED <<vars, tierVars>>
  \/ Off!Ended /\ TierStep /\ UNCHANGED offVars
  \/ Off!Ended /\ Ended /\ UNCHANGED <<vars, tierVars, offVars>>

TwinSpec == TwinInit /\ [][TwinNext]_<<vars, tierVars, offVars>>

\* The tiers cannot be told apart: under --jit a program ends as it does
\* without, with the same globals, whenever LLVM fails and whatever is retried.
Transparent ==
  Ended /\ Off!Ended =>
    outcome = offOutcome /\ result = offResult /\ globals = offGlobals
=============================================================================
