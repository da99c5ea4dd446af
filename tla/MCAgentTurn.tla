----------------------------- MODULE MCAgentTurn -----------------------------
(* Instances of AgentTurn: call alphabets for the completion gate, for the   *)
(* anti-spin guards and for the recovery ladders.                            *)
EXTENDS AgentTurn

CONSTANTS read1, read2, write1, shell1, verify1, todo1, start1, task1

AllCalls == {read1, read2, write1, shell1, verify1, todo1, start1, task1}
CallKind ==
  [c \in AllCalls |->
     CASE c \in {read1, read2} -> "read" [] c = write1 -> "write" [] c = shell1 -> "shell"
       [] c = verify1 -> "verify" [] c = todo1 -> "todo" [] c = start1 -> "start"
       [] OTHER -> "delegate"]
CallTarget == [c \in AllCalls |-> IF c \in {todo1, task1} THEN NoTarget ELSE c]

GateBatches == {<<write1>>, <<shell1>>, <<verify1>>, <<todo1>>, <<verify1, shell1>>}
MixedBatches == {<<read1, read2>>, <<start1, verify1>>}
SpinBatches == {<<read1>>, <<task1>>, <<read1, read2>>}
=============================================================================
