------------------------- MODULE MCInterpreterTests -------------------------
(* Interpreter on the modules of the repository's own test suite, with the  *)
(* outcomes the tests expect, on two more with the standard's, and on those *)
(* of Divergences, with the outcomes the engine comes to.                   *)
EXTENDS Interpreter, Divergences

MCModules == GtestModules \cup FurtherModules \cup EngineRuns
MCValType == {"i32", "i64", "f32", "f64"}
MCArity == {<<>>} \cup {<<t>> : t \in MCValType}

\* The depths whose shortest encoding ends in the byte of `end`, below 2000: not
\* only the one that BranchElevenBlocks has.
ASSUME MCEndBytes == {n \in 0 .. 2000 : LastByte(n) = EndByte} = {11} \cup 1408 .. 1535
=============================================================================
