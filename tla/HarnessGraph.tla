---------------------------- MODULE HarnessGraph ----------------------------
(***************************************************************************)
(* The topology of the harness: which nodes exist, which of them a graph   *)
(* registers, and where an edge table sends a NodeResult.  Nodes never     *)
(* know their neighbours; everything here is the content of                *)
(* domain/harness/route.py (the root graph) and                            *)
(* subgraphs/implement_loop.py (the execution loop folded into one node),  *)
(* read through EdgeTable.route of domain/harness/graph.py.                *)
(***************************************************************************)
EXTENDS Naturals

None   == "None"      \* Python's None: no branch, no query, no layer, no node
Stop   == "Stop"      \* EdgeTable.route returned None: a terminal node
Escape == "Escape"    \* EdgeTable.route returned ESCAPE: bubble to the outer graph

Policies == {"SUPERVISED", "FULL_AUTO"}

OuterNodes ==
  {"router", "explorer", "understanding_gate", "interviewer",
   "spec_confirm_gate", "planner", "plan_gate", "plan_reviewer",
   "plan_confirm_gate", "provisioner", "implement_loop",
   "global_validator", "reporter", "fast_path"}

InnerNodes == {"task_selector", "composer", "implementer", "verifier"}

ConfirmGates == {"spec_confirm_gate", "plan_confirm_gate"}

(* build_default_registry: fast_path exists only when an agent is passed,  *)
(* which the TUI does and the headless entry point does not; no graph      *)
(* registers the node "user" that an ESCALATE verdict is routed to.        *)
Registered(node, policy) ==
  /\ node \in OuterNodes
  /\ node = "fast_path" => policy # "FULL_AUTO"

-----------------------------------------------------------------------------
(* A NodeResult: the session state with the node's output applied to it, a *)
(* query (the asking node stands for it), a verdict kind with its layer,   *)
(* and the branch that picks a forward edge.                               *)
Produced(s, branch) ==
  [state |-> s, query |-> None, verdict |-> "none", layer |-> None, branch |-> branch]

Ask(s, node) ==
  [state |-> s, query |-> node, verdict |-> "none", layer |-> None, branch |-> None]

Approve(s) ==
  [state |-> s, query |-> None, verdict |-> "advance", layer |-> None, branch |-> None]

Repair(s, layer) ==
  [state |-> s, query |-> None, verdict |-> "repair", layer |-> layer, branch |-> None]

Escalate(s) ==
  [state |-> s, query |-> None, verdict |-> "escalate", layer |-> None, branch |-> None]

-----------------------------------------------------------------------------
(* route.FORWARD, keyed by (node, branch).                                 *)
FORWARD(node, branch) ==
  CASE node = "router" /\ branch = "engineering" -> "explorer"
    [] node = "router" /\ branch = "lightweight" -> "fast_path"
    [] node = "explorer"                         -> "understanding_gate"
    [] node = "understanding_gate"               -> "interviewer"
    [] node = "interviewer"                      -> "spec_confirm_gate"
    [] node = "spec_confirm_gate"                -> "planner"
    [] node = "planner"                          -> "plan_gate"
    [] node = "plan_gate"                        -> "plan_reviewer"
    [] node = "plan_reviewer"                    -> "plan_confirm_gate"
    [] node = "plan_confirm_gate"                -> "provisioner"
    [] node = "provisioner"                      -> "implement_loop"
    [] node = "implement_loop" /\ branch = "done"   -> "global_validator"
    [] node = "global_validator" /\ branch = "pass" -> "reporter"
    [] OTHER                                        -> Stop

(* route._FULL_AUTO_SKIP: the remap applied to forward edges only.         *)
FullAutoSkip(nxt) ==
  CASE nxt \in {"interviewer", "spec_confirm_gate"}   -> "planner"
    [] nxt \in {"plan_reviewer", "plan_confirm_gate"} -> "provisioner"
    [] OTHER                                          -> nxt

(* route._SHALLOWEST: the layer a repair names decides where it goes.      *)
SHALLOWEST(layer) ==
  CASE layer = "implementation" -> "implement_loop"
    [] layer = "plan"           -> "planner"
    [] layer = "understanding"  -> "explorer"
    [] layer = "acceptance"     -> "interviewer"
    [] OTHER                    -> Escape

(* EdgeTable.route on DEFAULT_EDGES.                                       *)
Route(node, r, policy) ==
  LET forward == FORWARD(node, r.branch)
  IN  CASE r.verdict = "repair"   -> SHALLOWEST(r.layer)
        [] r.verdict = "escalate" -> "user"
        [] OTHER -> IF policy = "FULL_AUTO" THEN FullAutoSkip(forward) ELSE forward

-----------------------------------------------------------------------------
(* implement_loop._INNER_FORWARD.                                          *)
InnerForward(node, branch) ==
  CASE node = "task_selector" /\ branch = "task" -> "composer"
    [] node = "composer"                         -> "implementer"
    [] node = "implementer"                      -> "verifier"
    [] node = "verifier" /\ branch = "done"      -> "task_selector"
    [] OTHER                                     -> Stop

(* EdgeTable.route on the subgraph's edges: only IMPLEMENTATION is         *)
(* repaired inside, any other layer escapes.                               *)
InnerRoute(node, r) ==
  CASE r.verdict = "repair"   -> IF r.layer = "implementation" THEN "implementer"
                                                              ELSE Escape
    [] r.verdict = "escalate" -> "user"
    [] OTHER                  -> InnerForward(node, r.branch)
=============================================================================
