---------------------------- MODULE Permissions ----------------------------
(* packages/permission-engine: what the runtime answers for the user when   *)
(* an adapter asks for a permission.  A tool's name is the set of patterns   *)
(* that it matches; the questions of the adapter have no tool.              *)
EXTENDS Naturals

Patterns == {"destructive", "execute", "edit", "read"}
Risks == {"low", "medium", "high"}
Policies == {"read-only", "interactive", "auto-edit"}
\* workspaceContained: not every caller knows it.
Containment == {"unknown", "inside", "outside"}

Level == [r \in Risks |-> CASE r = "low" -> 0 [] r = "medium" -> 1 [] r = "high" -> 2]
MaxRisk(left, right) == IF Level[left] >= Level[right] THEN left ELSE right

\* The first pattern counts, in the order of the tests.
ClassifyTool(name) ==
  CASE "destructive" \in name -> [effect |-> "destructive", risk |-> "high"]
    [] "destructive" \notin name /\ "execute" \in name -> [effect |-> "execute", risk |-> "high"]
    [] name \cap {"destructive", "execute"} = {} /\ "edit" \in name -> [effect |-> "edit", risk |-> "medium"]
    [] name = {"read"} -> [effect |-> "read", risk |-> "low"]
    [] OTHER -> [effect |-> "unknown", risk |-> "high"]

\* A permission for the tool "name", to which the adapter gives the risk "asked".
DecideTool(policy, name, asked, contained) ==
  LET tool == ClassifyTool(name)
      high == MaxRisk(tool.risk, asked) = "high"
  IN CASE policy = "read-only" -> "deny"
       [] policy = "interactive" -> "prompt"
       [] policy = "auto-edit" /\ ~high /\ tool.effect = "read" -> "allow"
       [] policy = "auto-edit" /\ ~high /\ tool.effect = "edit" /\ contained = "inside" -> "allow"
       [] policy = "auto-edit" /\ ~high /\ tool.effect = "edit" /\ contained = "outside" -> "deny"
       [] OTHER -> "prompt"

DecidePermission(policy, kind, name, asked, contained) ==
  IF kind = "question" THEN "prompt" ELSE DecideTool(policy, name, asked, contained)
=============================================================================
