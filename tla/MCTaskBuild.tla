------------------------------ MODULE MCTaskBuild ------------------------------
(* Constants of TaskBuild for model checking.                              *)
EXTENDS TaskBuild

Test      == [kind |-> "test", gated |-> TRUE]
BlindTest == [kind |-> "test", gated |-> FALSE]
Impl      == [kind |-> "impl", gated |-> TRUE]
Run       == [kind |-> "run",  gated |-> TRUE]

(* No steps; a test and its implementation; two implementations; a test    *)
(* that no command can make fail, and a command to run.                    *)
ManyStepPlans ==
  {<< >>, <<Test, Impl>>, <<Impl, Impl>>, <<Run, BlindTest, Run>>}
=============================================================================
