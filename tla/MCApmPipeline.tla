--------------------------- MODULE MCApmPipeline ----------------------------
(* The instance of ApmPipeline that TLC checks.                            *)
EXTENDS ApmPipeline

CONSTANTS t1, t2

MCRecorders == {t1, t2}
MCBatchSize == [s \in Services |-> IF s = Java THEN 2 ELSE 1]
MCElapsed   == [s \in Services |-> IF s = Java THEN <<4, 9, 1>> ELSE <<6, 2>>]
MCMaxEvents == [s \in Services |-> IF s = Java THEN 3 ELSE 2]
=============================================================================
