------------------------------ MODULE MCHarness ------------------------------
(* Constants of Harness for model checking.                                *)
EXTENDS Harness

(* Two tasks: alone, in a chain, in a chain against plan order, in a cycle,*)
(* waiting for a task the plan does not have, and a plan the structural    *)
(* checks refuse.                                                          *)
TwoTaskShapes ==
  {[tasks |-> {1},    deps |-> {},               sound |-> TRUE],
   [tasks |-> {1, 2}, deps |-> {<<2, 1>>},       sound |-> TRUE],
   [tasks |-> {1, 2}, deps |-> {<<1, 2>>},       sound |-> TRUE],
   [tasks |-> {1, 2}, deps |-> {<<1, 2>>, <<2, 1>>}, sound |-> TRUE],
   [tasks |-> {1},    deps |-> {<<1, 2>>},       sound |-> TRUE],
   [tasks |-> {1},    deps |-> {},               sound |-> FALSE]}

(* One task or the other, or both in a chain: a replan may drop a task.    *)
FewShapes ==
  {[tasks |-> {1},    deps |-> {},         sound |-> TRUE],
   [tasks |-> {2},    deps |-> {},         sound |-> TRUE],
   [tasks |-> {1, 2}, deps |-> {<<1, 2>>}, sound |-> TRUE]}

(* One task or the other.                                                  *)
OneTaskShapes == {shape \in FewShapes : Cardinality(shape.tasks) = 1}
=============================================================================
