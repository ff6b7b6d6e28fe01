---------------------------- MODULE PolicyProofs ----------------------------
(* The two pure decisions of the local runtime: what decidePermission       *)
(* answers, for every policy, tool, risk and place, and what                *)
(* resolveConfigLayers makes of the layers, for any keys, values and        *)
(* layers.                                                                  *)
EXTENDS Permissions, ConfigLayers, TLAPS

-----------------------------------------------------------------------------
(* Permissions.                                                            *)

\* The order of the risks.
LEMMA LevelDef == /\ Level["low"] = 0 /\ Level["medium"] = 1 /\ Level["high"] = 2
                  /\ \A r \in Risks : Level[r] \in Nat
BY DEF Level, Risks

\* A risk is raised to high by either side (maxRisk).
LEMMA MaxRiskIsHigh ==
  ASSUME NEW left \in Risks, NEW right \in Risks
  PROVE  MaxRisk(left, right) = "high" <=> left = "high" \/ right = "high"
BY LevelDef DEF MaxRisk, Risks

\* A tool counts as a read when its name says nothing else, and as an edit when it
\* says nothing worse (classifyTool).
LEMMA ClassificationRisk ==
  ASSUME NEW name \in SUBSET Patterns
  PROVE  /\ ClassifyTool(name).risk \in Risks
         /\ ClassifyTool(name).effect = "read" <=> name = {"read"}
         /\ ClassifyTool(name).effect = "edit" <=>
              "edit" \in name /\ name \cap {"destructive", "execute"} = {}
BY DEF ClassifyTool, Patterns, Risks

\* Nothing is allowed without a person but reading and, inside the workspace,
\* editing, under auto-edit and while neither the tool nor the adapter calls the
\* risk high (decidePermission).
THEOREM AllowedThm ==
  ASSUME NEW policy \in Policies, NEW kind \in {"permission", "question"}, NEW name \in SUBSET Patterns,
         NEW asked \in Risks, NEW contained \in Containment,
         DecidePermission(policy, kind, name, asked, contained) = "allow"
  PROVE  /\ policy = "auto-edit" /\ kind = "permission" /\ asked # "high"
         /\ name \cap {"destructive", "execute"} = {}
         /\ name = {"read"} \/ ("edit" \in name /\ contained = "inside")
<1>1. kind = "permission" /\ DecideTool(policy, name, asked, contained) = "allow"
  BY DEF DecidePermission
<1>2. policy = "auto-edit"
  BY <1>1 DEF DecideTool, Policies
<1>3. ClassifyTool(name).risk \in Risks
  BY ClassificationRisk
<1>4. MaxRisk(ClassifyTool(name).risk, asked) # "high"
  BY <1>1, <1>2 DEF DecideTool
<1>5. asked # "high"
  BY <1>3, <1>4, MaxRiskIsHigh
<1>6. \/ ClassifyTool(name).effect = "read"
      \/ ClassifyTool(name).effect = "edit" /\ contained = "inside"
  BY <1>1, <1>2, <1>4 DEF DecideTool
<1>7. name = {"read"} \/ ("edit" \in name /\ name \cap {"destructive", "execute"} = {} /\ contained = "inside")
  BY <1>6, ClassificationRisk
<1>. QED  BY <1>1, <1>2, <1>5, <1>7

\* The supervisor does not know whether a tool stays in the workspace, so it
\* allows reading alone and denies only under read-only: every edit is a question
\* under auto-edit too (#handleInteraction, decidePermission).
THEOREM UnknownPlaceThm ==
  ASSUME NEW policy \in Policies, NEW kind \in {"permission", "question"}, NEW name \in SUBSET Patterns,
         NEW asked \in Risks
  PROVE  /\ DecidePermission(policy, kind, name, asked, "unknown") = "allow" => name = {"read"}
         /\ DecidePermission(policy, kind, name, asked, "unknown") = "deny" => policy = "read-only"
<1>1. ASSUME DecidePermission(policy, kind, name, asked, "unknown") = "allow"
      PROVE  name = {"read"}
  BY <1>1, AllowedThm DEF Containment
<1>2. ASSUME DecidePermission(policy, kind, name, asked, "unknown") = "deny"
      PROVE  policy = "read-only"
  BY <1>2 DEF DecidePermission, DecideTool, Policies
<1>. QED  BY <1>1, <1>2

\* What is allowed at a risk is allowed at every lower one: an adapter that warns
\* of a risk never loses a question by it (maxRisk).
THEOREM RiskThm ==
  ASSUME NEW policy \in Policies, NEW kind \in {"permission", "question"}, NEW name \in SUBSET Patterns,
         NEW asked \in Risks, NEW lower \in Risks, NEW contained \in Containment,
         Level[lower] <= Level[asked],
         DecidePermission(policy, kind, name, asked, contained) = "allow"
  PROVE  DecidePermission(policy, kind, name, lower, contained) = "allow"
<1>1. policy = "auto-edit" /\ kind = "permission"
  BY DEF DecidePermission, DecideTool, Policies
<1>2. ClassifyTool(name).risk \in Risks
  BY ClassificationRisk
<1>3. MaxRisk(ClassifyTool(name).risk, asked) # "high"
  BY <1>1 DEF DecidePermission, DecideTool
<1>4. asked # "high" /\ lower # "high"
  BY <1>2, <1>3, MaxRiskIsHigh, LevelDef DEF Risks
<1>5. MaxRisk(ClassifyTool(name).risk, lower) # "high"
  BY <1>2, <1>3, <1>4, MaxRiskIsHigh
<1>. QED  BY <1>1, <1>3, <1>5 DEF DecidePermission, DecideTool

-----------------------------------------------------------------------------
(* Configuration layers: a definition that goes through the scopes names    *)
(* them one after the other.                                                *)

USE DEF ThroughTheScopes

-----------------------------------------------------------------------------
(* The adapter's configuration.                                            *)

\* What the scopes below the enforced one give.
Below4(layers, scopes) ==
  LET Use(s, config) ==
        IF config = Conflict \/ s \notin Selected(scopes) THEN config
        ELSE MergeObjects(config, layers[s].adapter)
  IN Use("organization", Use("project", Use("user", Use("local", Nothing))))

\* The enforced layer is merged last, over whatever the others give.
LEMMA EnforcedLast ==
  ASSUME NEW layers, NEW scopes, AdapterConfig(layers, scopes) # Conflict
  PROVE  /\ Below4(layers, scopes) # Conflict
         /\ AdapterConfig(layers, scopes) = MergeObjects(Below4(layers, scopes), layers["enforced"].adapter)
BY DEF AdapterConfig, Below4, Selected

\* A merge without a conflict gives each key what MergeKey gives it.
LEMMA MergeOfKeys ==
  ASSUME NEW lower, NEW higher, MergeObjects(lower, higher) # Conflict, NEW k \in Keys
  PROVE  MergeObjects(lower, higher)[k] = MergeKey(lower[k], higher[k])
BY DEF MergeObjects

\* A scalar or an array of the higher layer replaces what is below; null removes it.
LEMMA MergeOfScalar ==
  ASSUME NEW lower, NEW higher \in Scalars, MergeKey(lower, higher) # Conflict
  PROVE  MergeKey(lower, higher) = higher
BY ValuesAreDistinct DEF MergeKey, MergeValue, Values

LEMMA MergeOfNull ==
  ASSUME NEW lower
  PROVE  MergeKey(lower, Null) = Missing
BY ValuesAreDistinct DEF MergeKey, MergeValue, Values

\* No layer that a user or a project can write overrides the enforced one: a value
\* of it is the one that the adapter gets, and what it sets to null the adapter
\* does not get (resolveConfigLayers).
THEOREM EnforcedThm ==
  ASSUME NEW layers \in [Scopes -> Layer], NEW scopes \in SUBSET ConfigScopes, NEW k \in Keys,
         AdapterConfig(layers, scopes) # Conflict
  PROVE  /\ layers["enforced"].adapter[k] \in Scalars =>
              AdapterConfig(layers, scopes)[k] = layers["enforced"].adapter[k]
         /\ layers["enforced"].adapter[k] = Null => AdapterConfig(layers, scopes)[k] = Missing
<1>. DEFINE enforced == layers["enforced"].adapter
            merged == MergeObjects(Below4(layers, scopes), enforced)
<1>1. AdapterConfig(layers, scopes) = merged
  BY EnforcedLast
<1>2. merged # Conflict
  BY <1>1
<1>3. merged[k] = MergeKey(Below4(layers, scopes)[k], enforced[k])
  BY <1>2, MergeOfKeys
<1>4. MergeKey(Below4(layers, scopes)[k], enforced[k]) # Conflict
  BY <1>2 DEF MergeObjects
<1>5. ASSUME enforced[k] \in Scalars PROVE merged[k] = enforced[k]
  BY <1>3, <1>4, <1>5, MergeOfScalar
<1>6. ASSUME enforced[k] = Null PROVE merged[k] = Missing
  BY <1>3, <1>6, MergeOfNull
<1>. QED  BY <1>1, <1>5, <1>6

-----------------------------------------------------------------------------
(* The scopes that were not selected.                                      *)

\* A layer whose scope the request did not select has no say in anything that a
\* run is given: what it says of the adapter, of extensions and of credentials
\* might as well be something else (resolveConfigLayers).
THEOREM UnselectedThm ==
  ASSUME NEW layers \in [Scopes -> Layer], NEW others \in [Scopes -> Layer],
         NEW scopes \in SUBSET ConfigScopes,
         \A s \in Selected(scopes) : layers[s] = others[s]
  PROVE  /\ AdapterConfig(layers, scopes) = AdapterConfig(others, scopes)
         /\ ExtensionSelections(layers, scopes) = ExtensionSelections(others, scopes)
         /\ CredentialRefs(layers, scopes) = CredentialRefs(others, scopes)
<1>1. AdapterConfig(layers, scopes) = AdapterConfig(others, scopes)
  BY DEF AdapterConfig
<1>2. ExtensionSelections(layers, scopes) = ExtensionSelections(others, scopes)
  BY DEF ExtensionSelections
<1>3. CredentialRefs(layers, scopes) = CredentialRefs(others, scopes)
  BY DEF CredentialRefs
<1>. QED  BY <1>1, <1>2, <1>3

-----------------------------------------------------------------------------
(* Credentials.                                                            *)

\* A credential reaches the adapter only under a reference that a selected layer
\* gives and no higher selected layer replaces or deletes, and only if the
\* environment provides it (resolveConfigLayers, createEnvironmentContextProvider).
THEOREM CredentialThm ==
  ASSUME NEW layers \in [Scopes -> Layer], NEW scopes \in SUBSET ConfigScopes,
         NEW provided \in SUBSET References,
         NEW c \in Credentials(CredentialRefs(layers, scopes), provided)
  PROVE  \E s \in Selected(scopes) :
           /\ layers[s].credentialRefs[c] \in provided
           /\ \A t \in Selected(scopes) : Below(s, t) => layers[t].credentialRefs[c] = Missing
<1>. DEFINE Said(s) == layers[s].credentialRefs[c]
            Use(s, reference) ==
              IF s \in Selected(scopes) /\ Said(s) # Missing
              THEN IF Said(s) = Null THEN Missing ELSE Said(s)
              ELSE reference
            v0 == Missing
            v1 == Use("local", v0)
            v2 == Use("user", v1)
            v3 == Use("project", v2)
            v4 == Use("organization", v3)
            v5 == Use("enforced", v4)
<1>1. c \in CredentialKeys /\ v5 \in provided
  BY DEF Credentials, CredentialRefs
<1>2. Missing \notin provided /\ Null \notin provided
  BY ValuesAreDistinct
<1>3. /\ Priority["local"] = 0 /\ Priority["user"] = 1 /\ Priority["project"] = 2
      /\ Priority["organization"] = 3 /\ Priority["enforced"] = 4
  BY DEF Priority, Scopes, ConfigScopes
<1>4. Selected(scopes) \subseteq {"local", "user", "project", "organization", "enforced"}
  BY DEF Selected, ConfigScopes
<1>. QED  BY <1>1, <1>2, <1>3, <1>4 DEF Below

-----------------------------------------------------------------------------
(* The order of the scopes.                                                *)

\* The scopes are in a strict and total order.
LEMMA BelowIs ==
  ASSUME NEW s \in Scopes, NEW t \in Scopes
  PROVE  /\ ~Below(s, s)
         /\ Below(s, t) => ~Below(t, s)
         /\ s = t \/ Below(s, t) \/ Below(t, s)
         /\ \A u \in Scopes : Below(s, t) /\ Below(t, u) => Below(s, u)
<1>1. /\ Priority["local"] = 0 /\ Priority["user"] = 1 /\ Priority["project"] = 2
      /\ Priority["organization"] = 3 /\ Priority["enforced"] = 4
  BY DEF Priority, Scopes, ConfigScopes
<1>2. \A u \in Scopes : u \in {"local", "user", "project", "organization", "enforced"}
  BY DEF Scopes, ConfigScopes
<1>. QED  BY <1>1, <1>2 DEF Below

\* The highest and the lowest scope of a set.
TopOf(m) == CHOOSE s \in m : \A t \in m : t = s \/ Below(t, s)
BaseOf(m) == CHOOSE s \in m : \A t \in m : t = s \/ Below(s, t)

\* A set of scopes that is not empty has them.
LEMMA TopIs ==
  ASSUME NEW m \in SUBSET Scopes, m # {}
  PROVE  TopOf(m) \in m /\ \A t \in m : t = TopOf(m) \/ Below(t, TopOf(m))
<1>1. /\ Priority["local"] = 0 /\ Priority["user"] = 1 /\ Priority["project"] = 2
      /\ Priority["organization"] = 3 /\ Priority["enforced"] = 4
  BY DEF Priority, Scopes, ConfigScopes
<1>2. \A u \in m : u \in {"local", "user", "project", "organization", "enforced"}
  BY DEF Scopes, ConfigScopes
<1>3. \E s \in m : \A t \in m : t = s \/ Below(t, s)
  <2>1. CASE "enforced" \in m
    BY <1>1, <1>2, <2>1 DEF Below
  <2>2. CASE "enforced" \notin m /\ "organization" \in m
    BY <1>1, <1>2, <2>2 DEF Below
  <2>3. CASE m \cap {"enforced", "organization"} = {} /\ "project" \in m
    BY <1>1, <1>2, <2>3 DEF Below
  <2>4. CASE m \cap {"enforced", "organization", "project"} = {} /\ "user" \in m
    BY <1>1, <1>2, <2>4 DEF Below
  <2>5. CASE m \cap {"enforced", "organization", "project", "user"} = {}
    BY <1>1, <1>2, <2>5 DEF Below
  <2>. QED  BY <2>1, <2>2, <2>3, <2>4, <2>5
<1>. QED  BY <1>3 DEF TopOf

\* So with the lowest.
LEMMA BaseIs ==
  ASSUME NEW m \in SUBSET Scopes, m # {}
  PROVE  BaseOf(m) \in m /\ \A t \in m : t = BaseOf(m) \/ Below(BaseOf(m), t)
<1>1. /\ Priority["local"] = 0 /\ Priority["user"] = 1 /\ Priority["project"] = 2
      /\ Priority["organization"] = 3 /\ Priority["enforced"] = 4
  BY DEF Priority, Scopes, ConfigScopes
<1>2. \A u \in m : u \in {"local", "user", "project", "organization", "enforced"}
  BY DEF Scopes, ConfigScopes
<1>3. \E s \in m : \A t \in m : t = s \/ Below(s, t)
  <2>1. CASE "local" \in m
    BY <1>1, <1>2, <2>1 DEF Below
  <2>2. CASE "local" \notin m /\ "user" \in m
    BY <1>1, <1>2, <2>2 DEF Below
  <2>3. CASE m \cap {"local", "user"} = {} /\ "project" \in m
    BY <1>1, <1>2, <2>3 DEF Below
  <2>4. CASE m \cap {"local", "user", "project"} = {} /\ "organization" \in m
    BY <1>1, <1>2, <2>4 DEF Below
  <2>5. CASE m \cap {"local", "user", "project", "organization"} = {}
    BY <1>1, <1>2, <2>5 DEF Below
  <2>. QED  BY <2>1, <2>2, <2>3, <2>4, <2>5
<1>. QED  BY <1>3 DEF BaseOf

\* A scope that is above a set of scopes.
Above(s, in) == s \in Scopes /\ in \in SUBSET Scopes /\ \A t \in in : Below(t, s)

\* What that says of the scope and the others.
LEMMA AboveIs ==
  ASSUME NEW s, NEW in, Above(s, in)
  PROVE  /\ s \in Scopes /\ in \subseteq Scopes /\ s \notin in /\ in \cup {s} \subseteq Scopes
         /\ \A t \in in : Below(t, s) /\ ~Below(s, t)
         /\ ~Below(s, s)
BY BelowIs DEF Above

-----------------------------------------------------------------------------
(* One column: what its scopes say of a key, and what one more scope above  *)
(* them adds.                                                               *)

\* The scopes with a value, and those that no tombstone above hides.
Solid(column, in) == {x \in in : column[x] \notin {Null, Missing}}

\* The scopes with a value and no tombstone above them.
Open(column, in) == {x \in Solid(column, in) : \A u \in in : column[u] = Null => ~Below(x, u)}

\* The highest value counts, if no tombstone is above it: then it is in the open segment.
LEMMA HighestIs ==
  ASSUME NEW column, NEW in \in SUBSET Scopes, Null # Missing
  PROVE  \/ Open(column, in) = {} /\ Highest(column, in) = Missing
         \/ /\ TopOf(Mentions(column, in)) \in Open(column, in)
            /\ Highest(column, in) = column[TopOf(Mentions(column, in))]
            /\ \A t \in Mentions(column, in) :
                 t = TopOf(Mentions(column, in)) \/ Below(t, TopOf(Mentions(column, in)))
<1>. DEFINE m == Mentions(column, in)
            top == TopOf(m)
<1>1. CASE m = {}
  BY <1>1 DEF Highest, Open, Solid, Mentions
<1>2. CASE m # {}
  <2>1. m \in SUBSET Scopes /\ m \subseteq in /\ \A x \in in : x \in m <=> column[x] # Missing
    BY DEF Mentions
  <2>2. top \in m /\ \A t \in m : t = top \/ Below(t, top)
    BY <1>2, <2>1, TopIs
  <2>3. Highest(column, in) = IF column[top] = Null THEN Missing ELSE column[top]
    BY <1>2 DEF Highest, TopOf
  <2>. HIDE DEF m, top
  <2>4. CASE column[top] = Null
    <3>1. ASSUME NEW x \in Open(column, in) PROVE FALSE
      <4>1. x \in in /\ column[x] # Null /\ column[x] # Missing
        BY DEF Open, Solid
      <4>2. Below(x, top)
        BY <2>1, <2>2, <2>4, <4>1
      <4>. QED  BY <2>1, <2>2, <2>4, <4>2 DEF Open
    <3>. QED  BY <2>3, <2>4, <3>1
  <2>5. CASE column[top] # Null
    <3>1. top \in Solid(column, in)
      BY <2>1, <2>2, <2>5 DEF Solid
    <3>2. ASSUME NEW u \in in, column[u] = Null PROVE ~Below(top, u)
      <4>1. u \in m
        BY <2>1, <3>2
      <4>2. Below(u, top)
        BY <2>2, <2>5, <3>2, <4>1
      <4>. QED  BY <2>1, <2>2, <4>1, <4>2, BelowIs
    <3>3. top \in Open(column, in)
      BY <3>1, <3>2 DEF Open
    <3>. QED  BY <2>2, <2>3, <2>5, <3>3 DEF m, top
  <2>. QED  BY <2>4, <2>5
<1>. QED  BY <1>1, <1>2

\* The open segment is a segment.
LEMMA OpenIsSegment ==
  ASSUME NEW column, NEW in \in SUBSET Scopes, NEW x \in Open(column, in), NEW y \in in
  PROVE  /\ SameSegment(column, in, y, x) <=> y \in Open(column, in)
         /\ SameSegment(column, in, x, y) <=> y \in Open(column, in)
<1>1. x \in in /\ column[x] \notin {Null, Missing} /\ \A u \in in : column[u] = Null => ~Below(x, u)
  BY DEF Open, Solid
<1>2. ASSUME y \in Open(column, in)
      PROVE  SameSegment(column, in, y, x) /\ SameSegment(column, in, x, y)
  <2>1. column[y] \notin {Null, Missing} /\ \A u \in in : column[u] = Null => ~Below(y, u)
    BY <1>2 DEF Open, Solid
  <2>. QED  BY <1>1, <2>1 DEF SameSegment
<1>3. ASSUME SameSegment(column, in, y, x) \/ SameSegment(column, in, x, y)
      PROVE  y \in Open(column, in)
  <2>1. /\ column[y] \notin {Null, Missing}
        /\ \A u \in in : column[u] = Null => ~(Below(y, u) /\ Below(u, x))
    BY <1>3 DEF SameSegment
  <2>2. ASSUME NEW u \in in, column[u] = Null PROVE ~Below(y, u)
    <3>1. ~Below(x, u) /\ u # x
      BY <1>1, <2>2
    <3>2. Below(u, x)
      BY <1>1, <3>1, BelowIs
    <3>. QED  BY <2>1, <2>2, <3>2
  <2>. QED  BY <2>1, <2>2 DEF Open, Solid
<1>. QED  BY <1>2, <1>3

\* A scope above the others leaves the segments among them as they are.
LEMMA SegmentBelow ==
  ASSUME NEW column, NEW in, NEW s, Above(s, in), NEW x \in in, NEW y \in in
  PROVE  SameSegment(column, in \cup {s}, x, y) <=> SameSegment(column, in, x, y)
<1>1. ~Below(s, x) /\ ~Below(s, y)
  BY AboveIs
<1>2. {x, y} \subseteq in /\ {x, y} \subseteq in \cup {s}
  OBVIOUS
<1>. QED  BY <1>1, <1>2 DEF SameSegment

\* If it has a value it continues the open segment.
LEMMA SegmentAbove ==
  ASSUME NEW column, NEW in, NEW s, Above(s, in), NEW x \in in
  PROVE  /\ SameSegment(column, in \cup {s}, x, s) <=> column[s] \notin {Null, Missing} /\ x \in Open(column, in)
         /\ SameSegment(column, in \cup {s}, s, x) <=> column[s] \notin {Null, Missing} /\ x \in Open(column, in)
<1>1. ~Below(s, x) /\ ~Below(s, s) /\ \A u \in in : Below(u, s) /\ ~Below(s, u)
  BY AboveIs
<1>2. {x, s} \subseteq in \cup {s} /\ {s, x} \subseteq in \cup {s}
  OBVIOUS
<1>3. x \in Open(column, in) <=>
        column[x] \notin {Null, Missing} /\ \A u \in in : column[u] = Null => ~Below(x, u)
  BY DEF Open, Solid
<1>4. column[s] \notin {Null, Missing} =>
        ((\A u \in in : column[u] = Null => ~Below(x, u)) <=>
           \A u \in in \cup {s} : column[u] = Null => ~(Below(x, u) /\ Below(u, s)) /\ ~(Below(s, u) /\ Below(u, x)))
  BY <1>1
<1>5. SameSegment(column, in \cup {s}, x, s) <=> column[s] \notin {Null, Missing} /\ x \in Open(column, in)
  BY <1>2, <1>3, <1>4 DEF SameSegment
<1>6. SameSegment(column, in \cup {s}, s, x) <=> SameSegment(column, in \cup {s}, x, s)
  BY <1>2 DEF SameSegment
<1>. QED  BY <1>5, <1>6

\* It is in a segment with itself if it has a value.
LEMMA SegmentOne ==
  ASSUME NEW column, NEW in, NEW s, Above(s, in)
  PROVE  SameSegment(column, in \cup {s}, s, s) <=> column[s] \notin {Null, Missing}
<1>1. \A u \in in \cup {s} : ~Below(s, u)
  BY AboveIs
<1>. QED  BY <1>1 DEF SameSegment

\* What the scope says counts, if it says something.
LEMMA HighestAdd ==
  ASSUME NEW column, NEW in, NEW s, Above(s, in)
  PROVE  Highest(column, in \cup {s}) =
           IF column[s] = Missing THEN Highest(column, in)
           ELSE IF column[s] = Null THEN Missing ELSE column[s]
<1>. DEFINE m == Mentions(column, in \cup {s})
<1>1. s \in Scopes /\ in \cup {s} \subseteq Scopes /\ \A t \in in : Below(t, s) /\ ~Below(s, t)
  BY AboveIs
<1>2. CASE column[s] = Missing
  <2>1. m = Mentions(column, in)
    BY <1>2 DEF Mentions
  <2>. HIDE DEF m
  <2>2. Highest(column, in \cup {s}) =
          IF m = {} THEN Missing ELSE IF column[TopOf(m)] = Null THEN Missing ELSE column[TopOf(m)]
    BY DEF Highest, TopOf, m
  <2>3. Highest(column, in) =
          IF m = {} THEN Missing ELSE IF column[TopOf(m)] = Null THEN Missing ELSE column[TopOf(m)]
    BY <2>1 DEF Highest, TopOf
  <2>. QED  BY <1>2, <2>2, <2>3
<1>3. CASE column[s] # Missing
  <2>1. s \in m /\ m # {} /\ m \in SUBSET Scopes /\ m \subseteq in \cup {s}
    BY <1>1, <1>3 DEF Mentions
  <2>2. TopOf(m) \in m /\ \A t \in m : t = TopOf(m) \/ Below(t, TopOf(m))
    BY <2>1, TopIs
  <2>. HIDE DEF m
  <2>3. TopOf(m) = s
    BY <1>1, <2>1, <2>2
  <2>4. Highest(column, in \cup {s}) =
          IF column[TopOf(m)] = Null THEN Missing ELSE column[TopOf(m)]
    BY <2>1 DEF Highest, TopOf, m
  <2>. QED  BY <1>3, <2>3, <2>4
<1>. QED  BY <1>2, <1>3

\* The types disagree if they did, or if its value is of another type than the one
\* that counts below it.
LEMMA DisagreeAdd ==
  ASSUME NEW column, NEW in, NEW s, Above(s, in), Null # Missing
  PROVE  TypesDisagree(column, in \cup {s}) <=>
           \/ TypesDisagree(column, in)
           \/ /\ column[s] \notin {Null, Missing} /\ Open(column, in) # {}
              /\ Kind(Highest(column, in)) # Kind(column[s])
<1>. DEFINE top == TopOf(Mentions(column, in))
            all == in \cup {s}
<1>1. s \in Scopes /\ in \in SUBSET Scopes
  BY AboveIs
<1>2. Open(column, in) # {} => top \in Open(column, in) /\ Highest(column, in) = column[top]
  BY <1>1, HighestIs
<1>. HIDE DEF top
<1>3. ASSUME TypesDisagree(column, in) PROVE TypesDisagree(column, all)
  <2>1. PICK x, y \in in : SameSegment(column, in, x, y) /\ Kind(column[x]) # Kind(column[y])
    BY <1>3 DEF TypesDisagree
  <2>2. SameSegment(column, all, x, y) /\ x \in all /\ y \in all
    BY <2>1, SegmentBelow
  <2>. QED  BY <2>1, <2>2 DEF TypesDisagree
<1>4. ASSUME column[s] \notin {Null, Missing}, Open(column, in) # {},
             Kind(Highest(column, in)) # Kind(column[s])
      PROVE  TypesDisagree(column, all)
  <2>1. top \in Open(column, in) /\ top \in in /\ Kind(column[top]) # Kind(column[s])
    BY <1>2, <1>4 DEF Open, Solid
  <2>2. SameSegment(column, all, top, s)
    BY <1>4, <2>1, SegmentAbove
  <2>. QED  BY <2>1, <2>2 DEF TypesDisagree
<1>5. ASSUME TypesDisagree(column, all), ~TypesDisagree(column, in)
      PROVE  /\ column[s] \notin {Null, Missing} /\ Open(column, in) # {}
             /\ Kind(Highest(column, in)) # Kind(column[s])
  <2>1. PICK x, y \in all : SameSegment(column, all, x, y) /\ Kind(column[x]) # Kind(column[y])
    BY <1>5 DEF TypesDisagree
  <2>2. ~(x \in in /\ y \in in)
    BY <1>5, <2>1, SegmentBelow DEF TypesDisagree
  <2>3. x # y
    BY <2>1
  <2>4. PICK z \in in :
          column[s] \notin {Null, Missing} /\ z \in Open(column, in) /\ Kind(column[z]) # Kind(column[s])
    <3>1. CASE x = s /\ y \in in
      BY <2>1, <3>1, SegmentAbove
    <3>2. CASE y = s /\ x \in in
      BY <2>1, <3>2, SegmentAbove
    <3>. QED  BY <2>2, <2>3, <3>1, <3>2
  <2>5. top \in Open(column, in) /\ top \in in /\ Highest(column, in) = column[top]
    BY <1>2, <2>4 DEF Open, Solid
  <2>6. SameSegment(column, in, top, z)
    BY <1>1, <2>4, <2>5, OpenIsSegment
  <2>7. Kind(column[top]) = Kind(column[z])
    BY <1>5, <2>5, <2>6 DEF TypesDisagree
  <2>. QED  BY <2>4, <2>5, <2>7
<1>. QED  BY <1>3, <1>4, <1>5

-----------------------------------------------------------------------------
(* Values and their types.                                                 *)

\* What an object may have under a key.
Atoms == Scalars \cup {Null, Missing}

\* A value is either missing, null, a scalar or an object, and no conflict.
LEMMA ValuesAre ==
  /\ Null # Missing /\ Conflict # Null /\ Conflict # Missing /\ Kind(Null) = "null"
  /\ Null \notin Members /\ Missing \notin Members /\ Conflict \notin Members
  /\ \A v \in Scalars : /\ v \notin {Null, Missing, Conflict} \cup Members
                        /\ Kind(v) # "null" /\ Kind(v) # "object"
  /\ \A v \in Members : v \notin {Null, Missing, Conflict} \cup Scalars /\ Kind(v) = "object"
BY ValuesAreDistinct, KindsAreJson DEF Kind, Values

\* What the merge of two values is.
LEMMA MergeValueIs ==
  ASSUME NEW lower, NEW higher
  PROVE  /\ higher = Missing => MergeValue(lower, higher) = lower
         /\ higher = Null => MergeValue(lower, higher) = Missing
         /\ higher \notin {Missing, Null} =>
              MergeValue(lower, higher) =
                IF lower # Missing /\ Kind(lower) # Kind(higher) THEN Conflict ELSE higher
<1>1. Null # Missing
  BY ValuesAre
<1>2. ASSUME higher \notin {Missing, Null}
      PROVE  MergeValue(lower, higher) =
               IF lower # Missing /\ Kind(lower) # Kind(higher) THEN Conflict ELSE higher
  <2>1. CASE lower # Missing /\ Kind(lower) # Kind(higher)
    BY <1>2, <2>1 DEF MergeValue
  <2>2. CASE ~(lower # Missing /\ Kind(lower) # Kind(higher))
    BY <1>2, <2>2 DEF MergeValue
  <2>. QED  BY <2>1, <2>2
<1>3. higher = Missing => MergeValue(lower, higher) = lower
  BY <1>1 DEF MergeValue
<1>4. higher = Null => MergeValue(lower, higher) = Missing
  BY <1>1 DEF MergeValue
<1>. QED  BY <1>2, <1>3, <1>4

-----------------------------------------------------------------------------
(* One key of the objects of a segment.                                    *)

\* The lowest object has null there, and a value of the higher ones meets it.
MeetsNull(sub, segment) ==
  /\ sub[BaseOf(segment)] = Null
  /\ \E t \in segment :
       /\ sub[t] \notin {Null, Missing}
       /\ \A u \in segment \ {BaseOf(segment)} : sub[u] = Null => Below(t, u)

\* What the objects say of the key conflicts.
Clashes(sub, segment) == TypesDisagree(sub, segment) \/ MeetsNull(sub, segment)

\* The null of the lowest object is kept as long as nothing is said above it.
KeepsNull(sub, segment) ==
  sub[BaseOf(segment)] = Null /\ Mentions(sub, segment) = {BaseOf(segment)}

\* What the objects of a segment give the key together.
SubValue(sub, segment) ==
  IF Clashes(sub, segment) THEN Conflict
  ELSE IF KeepsNull(sub, segment) THEN Null ELSE Highest(sub, segment)

\* A scope above the others does not change which is the lowest.
LEMMA BaseKept ==
  ASSUME NEW in, NEW s, Above(s, in), in # {}
  PROVE  BaseOf(in \cup {s}) = BaseOf(in) /\ BaseOf(in) \in in
<1>. DEFINE all == in \cup {s}
<1>1. s \in Scopes /\ in \in SUBSET Scopes /\ all \in SUBSET Scopes /\ \A t \in in : Below(t, s) /\ ~Below(s, t)
  BY AboveIs
<1>2. BaseOf(in) \in in /\ \A t \in in : t = BaseOf(in) \/ Below(BaseOf(in), t)
  BY <1>1, BaseIs
<1>3. BaseOf(all) \in all /\ \A t \in all : t = BaseOf(all) \/ Below(BaseOf(all), t)
  BY <1>1, BaseIs
<1>4. BaseOf(all) \in in
  BY <1>1, <1>2, <1>3
<1>5. BaseOf(all) = BaseOf(in) \/ (Below(BaseOf(in), BaseOf(all)) /\ Below(BaseOf(all), BaseOf(in)))
  BY <1>2, <1>3, <1>4
<1>. QED  BY <1>1, <1>2, <1>4, <1>5, BelowIs

\* When it meets a null of the lowest one.
LEMMA MeetsNullAdd ==
  ASSUME NEW sub, NEW in, NEW s, Above(s, in), in # {}
  PROVE  MeetsNull(sub, in \cup {s}) <=>
           \/ MeetsNull(sub, in)
           \/ /\ sub[BaseOf(in)] = Null /\ sub[s] \notin {Null, Missing}
              /\ \A u \in in \ {BaseOf(in)} : sub[u] # Null
<1>. DEFINE b == BaseOf(in)
            all == in \cup {s}
<1>1. BaseOf(all) = b /\ b \in in
  BY BaseKept
<1>2. s \notin in /\ \A t \in in : Below(t, s) /\ ~Below(s, t)
  BY AboveIs
<1>. HIDE DEF b
<1>3. MeetsNull(sub, all) <=>
        /\ sub[b] = Null
        /\ \E t \in all : sub[t] \notin {Null, Missing} /\ \A u \in all \ {b} : sub[u] = Null => Below(t, u)
  BY <1>1 DEF MeetsNull
<1>4. MeetsNull(sub, in) <=>
        /\ sub[b] = Null
        /\ \E t \in in : sub[t] \notin {Null, Missing} /\ \A u \in in \ {b} : sub[u] = Null => Below(t, u)
  BY DEF MeetsNull, b
<1>5. ASSUME NEW t \in in
      PROVE  (\A u \in all \ {b} : sub[u] = Null => Below(t, u)) <=> \A u \in in \ {b} : sub[u] = Null => Below(t, u)
  BY <1>2
<1>6. sub[s] \notin {Null, Missing} =>
        ((\A u \in all \ {b} : sub[u] = Null => Below(s, u)) <=> \A u \in in \ {b} : sub[u] # Null)
  BY <1>2
<1>. QED  BY <1>3, <1>4, <1>5, <1>6 DEF b

\* What counts is a value of the column, and missing when the open segment is empty.
LEMMA HighestType ==
  ASSUME NEW V, NEW column, NEW in \in SUBSET Scopes, \A x \in in : column[x] \in V \cup {Null, Missing}
  PROVE  /\ Open(column, in) = {} <=> Highest(column, in) = Missing
         /\ Highest(column, in) \in V \cup {Missing}
         /\ Highest(column, in) # Null
<1>1. Null # Missing
  BY ValuesAre
<1>2. CASE Open(column, in) = {} /\ Highest(column, in) = Missing
  BY <1>1, <1>2
<1>3. CASE /\ TopOf(Mentions(column, in)) \in Open(column, in)
           /\ Highest(column, in) = column[TopOf(Mentions(column, in))]
  BY <1>1, <1>3 DEF Open, Solid
<1>. QED  BY <1>1, <1>2, <1>3, HighestIs

\* What the objects of a segment and one more above them say of a key is what the
\* merge makes of it.
LEMMA SubValueAdd ==
  ASSUME NEW sub, NEW in, NEW s, Above(s, in), in # {}, \A x \in in \cup {s} : sub[x] \in Atoms
  PROVE  SubValue(sub, in \cup {s}) =
           IF SubValue(sub, in) = Conflict THEN Conflict ELSE MergeValue(SubValue(sub, in), sub[s])
<1>. DEFINE b == BaseOf(in)
            all == in \cup {s}
            x == sub[s]
            H == Highest(sub, in)
            V == SubValue(sub, in)
<1>1. /\ Null # Missing /\ Conflict # Null /\ Conflict # Missing /\ Kind(Null) = "null"
      /\ \A v \in Scalars : v \notin {Null, Missing, Conflict} /\ Kind(v) # "null"
  BY ValuesAre
<1>2. s \in Scopes /\ in \in SUBSET Scopes /\ s \notin in /\ BaseOf(all) = b /\ b \in in
  BY AboveIs, BaseKept
<1>3. /\ Highest(sub, all) = IF x = Missing THEN H ELSE IF x = Null THEN Missing ELSE x
      /\ TypesDisagree(sub, all) <=>
           TypesDisagree(sub, in) \/ (x \notin {Null, Missing} /\ Open(sub, in) # {} /\ Kind(H) # Kind(x))
      /\ MeetsNull(sub, all) <=>
           MeetsNull(sub, in) \/ (sub[b] = Null /\ x \notin {Null, Missing} /\ \A u \in in \ {b} : sub[u] # Null)
  <2>1. Highest(sub, all) = IF x = Missing THEN H ELSE IF x = Null THEN Missing ELSE x
    BY HighestAdd
  <2>2. TypesDisagree(sub, all) <=>
          TypesDisagree(sub, in) \/ (x \notin {Null, Missing} /\ Open(sub, in) # {} /\ Kind(H) # Kind(x))
    BY <1>1, DisagreeAdd
  <2>3. MeetsNull(sub, all) <=>
          MeetsNull(sub, in) \/ (sub[b] = Null /\ x \notin {Null, Missing} /\ \A u \in in \ {b} : sub[u] # Null)
    BY MeetsNullAdd
  <2>. HIDE DEF all, x, H, b
  <2>. QED  BY <2>1, <2>2, <2>3
<1>4. KeepsNull(sub, all) <=> KeepsNull(sub, in) /\ x = Missing
  <2>1. Mentions(sub, all) = Mentions(sub, in) \cup (IF x = Missing THEN {} ELSE {s})
    BY DEF Mentions
  <2>. QED  BY <1>2, <2>1 DEF KeepsNull
<1>5. (Open(sub, in) = {} <=> H = Missing) /\ H \in Scalars \cup {Missing} /\ H # Conflict
  BY <1>1, <1>2, HighestType DEF Atoms
<1>6. x \in Scalars \cup {Null, Missing}
  BY DEF Atoms
<1>7. KeepsNull(sub, in) <=> sub[b] = Null /\ \A u \in in \ {b} : sub[u] = Missing
  BY <1>1, <1>2 DEF KeepsNull, Mentions
<1>8. SubValue(sub, all) =
        IF TypesDisagree(sub, all) \/ MeetsNull(sub, all) THEN Conflict
        ELSE IF KeepsNull(sub, all) THEN Null ELSE Highest(sub, all)
  BY DEF SubValue, Clashes
<1>9. V = IF TypesDisagree(sub, in) \/ MeetsNull(sub, in) THEN Conflict ELSE IF KeepsNull(sub, in) THEN Null ELSE H
  BY DEF SubValue, Clashes
<1>10. /\ x = Missing => MergeValue(V, x) = V
       /\ x = Null => MergeValue(V, x) = Missing
       /\ x \notin {Missing, Null} => MergeValue(V, x) = IF V # Missing /\ Kind(V) # Kind(x) THEN Conflict ELSE x
  BY MergeValueIs
<1>11. ASSUME sub[b] = Null, \A u \in in \ {b} : sub[u] # Null, ~MeetsNull(sub, in)
       PROVE  KeepsNull(sub, in)
  <2>1. \A t \in in : sub[t] \in {Null, Missing}
    BY <1>11 DEF MeetsNull
  <2>. QED  BY <1>7, <1>11, <2>1
<1>. HIDE DEF b, all, x, H, V
<1>12. CASE TypesDisagree(sub, in) \/ MeetsNull(sub, in)
  <2>1. V = Conflict /\ SubValue(sub, all) = Conflict
    BY <1>3, <1>8, <1>9, <1>12
  <2>. QED  BY <2>1 DEF V, all, x
<1>13. CASE ~TypesDisagree(sub, in) /\ ~MeetsNull(sub, in)
  <2>1. V = (IF KeepsNull(sub, in) THEN Null ELSE H) /\ V # Conflict
    BY <1>1, <1>5, <1>9, <1>13
  <2>2. SubValue(sub, all) = MergeValue(V, x)
    <3>1. CASE x = Missing
      BY <1>3, <1>4, <1>8, <1>10, <1>13, <2>1, <3>1
    <3>2. CASE x = Null
      BY <1>1, <1>3, <1>4, <1>8, <1>10, <1>13, <2>1, <3>2
    <3>3. CASE x \in Scalars
      <4>1. x \notin {Null, Missing} /\ Kind(x) # "null" /\ ~KeepsNull(sub, all) /\ Highest(sub, all) = x
        BY <1>1, <1>3, <1>4, <3>3
      <4>2. CASE KeepsNull(sub, in)
        <5>1. MeetsNull(sub, all)
          BY <1>1, <1>3, <1>7, <4>1, <4>2
        <5>. QED  BY <1>1, <1>8, <1>10, <2>1, <4>1, <4>2, <5>1
      <4>3. CASE ~KeepsNull(sub, in)
        <5>1. ~MeetsNull(sub, all)
          BY <1>3, <1>11, <1>13, <4>3
        <5>2. TypesDisagree(sub, all) <=> V # Missing /\ Kind(V) # Kind(x)
          BY <1>3, <1>5, <1>13, <2>1, <4>1, <4>3
        <5>. QED  BY <1>8, <1>10, <4>1, <5>1, <5>2
      <4>. QED  BY <4>2, <4>3
    <3>. QED  BY <1>6, <3>1, <3>2, <3>3
  <2>. QED  BY <2>1, <2>2 DEF V, all, x
<1>. QED  BY <1>12, <1>13

\* What a segment says depends on what its scopes say and on nothing else.
LEMMA SubValueSame ==
  ASSUME NEW sub, NEW other, NEW in \in SUBSET Scopes, in # {}, \A x \in in : sub[x] = other[x]
  PROVE  SubValue(sub, in) = SubValue(other, in)
<1>1. BaseOf(in) \in in
  BY BaseIs
<1>2. \A x, y \in in : SameSegment(sub, in, x, y) <=> SameSegment(other, in, x, y)
  BY DEF SameSegment
<1>3. TypesDisagree(sub, in) <=> TypesDisagree(other, in)
  BY <1>2 DEF TypesDisagree
<1>4. Mentions(sub, in) = Mentions(other, in) /\ Mentions(sub, in) \in SUBSET in
  BY DEF Mentions
<1>5. Highest(sub, in) = Highest(other, in)
  <2>. DEFINE m == Mentions(sub, in)
              top == TopOf(m)
  <2>1. m # {} => top \in in
    BY <1>4, TopIs
  <2>2. Highest(sub, in) = IF m = {} THEN Missing ELSE IF sub[top] = Null THEN Missing ELSE sub[top]
    BY DEF Highest, TopOf
  <2>. HIDE DEF m
  <2>3. Highest(other, in) = IF m = {} THEN Missing ELSE IF other[top] = Null THEN Missing ELSE other[top]
    BY <1>4 DEF Highest, TopOf, m
  <2>. QED  BY <2>1, <2>2, <2>3
<1>6. MeetsNull(sub, in) <=> MeetsNull(other, in)
  BY <1>1 DEF MeetsNull
<1>7. KeepsNull(sub, in) <=> KeepsNull(other, in)
  BY <1>1, <1>4 DEF KeepsNull
<1>. QED  BY <1>3, <1>5, <1>6, <1>7 DEF SubValue, Clashes

-----------------------------------------------------------------------------
(* The objects of a segment, as mergeObjects makes them of each other.     *)

\* What the objects of a segment say of a key, and what they are together.
Sub(column, segment, k) == [s \in segment |-> column[s][k]]

ObjectOf(column, segment) ==
  IF \E k \in SubKeys : Clashes(Sub(column, segment, k), segment) THEN Conflict
  ELSE [k \in SubKeys |->
          IF KeepsNull(Sub(column, segment, k), segment) THEN Null ELSE Highest(Sub(column, segment, k), segment)]

\* It is what it says of each key.
LEMMA ObjectIs ==
  ASSUME NEW column, NEW in \in SUBSET Scopes, in # {}, \A x \in in : column[x] \in Members
  PROVE  /\ ObjectOf(column, in) = Conflict <=> \E k \in SubKeys : SubValue(Sub(column, in, k), in) = Conflict
         /\ ObjectOf(column, in) # Conflict =>
              /\ ObjectOf(column, in) \in Members
              /\ ObjectOf(column, in) = [k \in SubKeys |-> SubValue(Sub(column, in, k), in)]
<1>1. ASSUME NEW k \in SubKeys
      PROVE  /\ Clashes(Sub(column, in, k), in) <=> SubValue(Sub(column, in, k), in) = Conflict
             /\ ~Clashes(Sub(column, in, k), in) =>
                  /\ SubValue(Sub(column, in, k), in) \in Scalars \cup {Null, Missing}
                  /\ SubValue(Sub(column, in, k), in) =
                       IF KeepsNull(Sub(column, in, k), in) THEN Null ELSE Highest(Sub(column, in, k), in)
  <2>. DEFINE sub == Sub(column, in, k)
  <2>1. \A x \in in : sub[x] \in Scalars \cup {Null, Missing}
    BY DEF Sub, Members
  <2>2. Highest(sub, in) \in Scalars \cup {Missing}
    BY <2>1, HighestType
  <2>3. Conflict \notin Scalars \cup {Null, Missing}
    BY ValuesAre
  <2>. HIDE DEF sub
  <2>. QED  BY <2>2, <2>3 DEF SubValue, sub
<1>2. CASE \E k \in SubKeys : Clashes(Sub(column, in, k), in)
  BY <1>1, <1>2 DEF ObjectOf
<1>3. CASE ~\E k \in SubKeys : Clashes(Sub(column, in, k), in)
  <2>1. ObjectOf(column, in) = [k \in SubKeys |->
          IF KeepsNull(Sub(column, in, k), in) THEN Null ELSE Highest(Sub(column, in, k), in)]
    BY <1>3 DEF ObjectOf
  <2>2. ObjectOf(column, in) = [k \in SubKeys |-> SubValue(Sub(column, in, k), in)]
    BY <1>1, <1>3, <2>1
  <2>3. ObjectOf(column, in) \in Members
    BY <1>1, <1>3, <2>2 DEF Members
  <2>4. ObjectOf(column, in) # Conflict
    BY <2>3, ValuesAre
  <2>. QED  BY <1>1, <1>3, <2>2, <2>3, <2>4
<1>. QED  BY <1>2, <1>3

\* One more object above them is merged with them.
LEMMA ObjectAdd ==
  ASSUME NEW column, NEW in, NEW s, Above(s, in), in # {}, \A x \in in \cup {s} : column[x] \in Members
  PROVE  ObjectOf(column, in \cup {s}) =
           IF ObjectOf(column, in) = Conflict THEN Conflict ELSE MergeMembers(ObjectOf(column, in), column[s])
<1>. DEFINE all == in \cup {s}
            Low(k) == SubValue(Sub(column, in, k), in)
            Now(k) == SubValue(Sub(column, all, k), all)
            object == ObjectOf(column, in)
<1>1. s \in Scopes /\ in \in SUBSET Scopes /\ all \in SUBSET Scopes /\ all # {} /\ s \notin in
  BY AboveIs
<1>2. ASSUME NEW k \in SubKeys
      PROVE  Now(k) = IF Low(k) = Conflict THEN Conflict ELSE MergeValue(Low(k), column[s][k])
  <2>. DEFINE sub == Sub(column, all, k)
  <2>1. \A x \in all : sub[x] = column[x][k] /\ sub[x] \in Atoms
    BY DEF Sub, Members, Atoms
  <2>2. \A x \in in : sub[x] = Sub(column, in, k)[x]
    BY DEF Sub
  <2>. HIDE DEF sub
  <2>3. SubValue(sub, all) = IF SubValue(sub, in) = Conflict THEN Conflict ELSE MergeValue(SubValue(sub, in), sub[s])
    BY <2>1, SubValueAdd
  <2>4. SubValue(sub, in) = Low(k)
    BY <1>1, <2>2, SubValueSame
  <2>5. sub[s] = column[s][k]
    BY <2>1
  <2>. QED  BY <2>3, <2>4, <2>5 DEF sub
<1>3. /\ object = Conflict <=> \E k \in SubKeys : Low(k) = Conflict
      /\ object # Conflict => object = [k \in SubKeys |-> Low(k)]
  BY <1>1, ObjectIs
<1>4. /\ ObjectOf(column, all) = Conflict <=> \E k \in SubKeys : Now(k) = Conflict
      /\ ObjectOf(column, all) # Conflict => ObjectOf(column, all) = [k \in SubKeys |-> Now(k)]
  BY <1>1, ObjectIs
<1>. HIDE DEF Low, Now, object, all
<1>5. CASE object = Conflict
  <2>1. ObjectOf(column, all) = Conflict
    BY <1>2, <1>3, <1>4, <1>5
  <2>. QED  BY <1>5, <2>1 DEF object, all
<1>6. CASE object # Conflict
  <2>1. \A k \in SubKeys : Low(k) # Conflict /\ object[k] = Low(k)
    BY <1>3, <1>6
  <2>2. \A k \in SubKeys : Now(k) = MergeValue(object[k], column[s][k])
    BY <1>2, <2>1
  <2>. DEFINE merged == [k \in SubKeys |-> MergeValue(object[k], column[s][k])]
  <2>3. MergeMembers(object, column[s]) = IF \E k \in SubKeys : merged[k] = Conflict THEN Conflict ELSE merged
    BY DEF MergeMembers
  <2>4. \A k \in SubKeys : merged[k] = Now(k)
    BY <2>2
  <2>5. merged = [k \in SubKeys |-> Now(k)]
    BY <2>2
  <2>. HIDE DEF merged
  <2>6. ObjectOf(column, all) = MergeMembers(object, column[s])
    <3>1. CASE \E k \in SubKeys : Now(k) = Conflict
      BY <1>4, <2>3, <2>4, <3>1
    <3>2. CASE ~\E k \in SubKeys : Now(k) = Conflict
      BY <1>4, <2>3, <2>4, <2>5, <3>2
    <3>. QED  BY <3>1, <3>2
  <2>. QED  BY <1>6, <2>6 DEF object, all
<1>. QED  BY <1>5, <1>6

\* An object that is alone in its segment is what it is.
LEMMA ObjectOne ==
  ASSUME NEW column, NEW s \in Scopes, column[s] \in Members
  PROVE  ObjectOf(column, {s}) = column[s]
<1>1. Above(s, {}) /\ {s} \in SUBSET Scopes /\ {s} # {} /\ {} \cup {s} = {s}
  BY DEF Above
<1>2. ASSUME NEW k \in SubKeys PROVE SubValue(Sub(column, {s}, k), {s}) = column[s][k]
  <2>. DEFINE sub == Sub(column, {s}, k)
  <2>1. sub[s] = column[s][k] /\ sub[s] \in Scalars \cup {Null, Missing}
    BY DEF Sub, Members
  <2>. HIDE DEF sub
  <2>2. Null # Missing
    BY ValuesAre
  <2>3. BaseOf({s}) = s
    BY <1>1, BaseIs
  <2>4. ~TypesDisagree(sub, {s})
    BY DEF TypesDisagree
  <2>5. ~MeetsNull(sub, {s})
    BY <2>3 DEF MeetsNull
  <2>6. KeepsNull(sub, {s}) <=> sub[s] = Null
    BY <2>2, <2>3 DEF KeepsNull, Mentions
  <2>7. Highest(sub, {}) = Missing
    BY DEF Highest, Mentions
  <2>8. sub[s] # Null => Highest(sub, {s}) = sub[s]
    BY <1>1, <2>7, HighestAdd
  <2>9. SubValue(sub, {s}) = sub[s]
    BY <2>4, <2>5, <2>6, <2>8 DEF SubValue, Clashes
  <2>. QED  BY <2>1, <2>9 DEF sub
<1>3. column[s] = [k \in SubKeys |-> column[s][k]] /\ \A k \in SubKeys : column[s][k] # Conflict
  <2>1. Conflict \notin Scalars \cup {Null, Missing}
    BY ValuesAre
  <2>. QED  BY <2>1 DEF Members
<1>4. /\ ObjectOf(column, {s}) = Conflict <=> \E k \in SubKeys : SubValue(Sub(column, {s}, k), {s}) = Conflict
      /\ ObjectOf(column, {s}) # Conflict =>
           ObjectOf(column, {s}) = [k \in SubKeys |-> SubValue(Sub(column, {s}, k), {s})]
  BY <1>1, ObjectIs
<1>5. ObjectOf(column, {s}) = [k \in SubKeys |-> SubValue(Sub(column, {s}, k), {s})]
  BY <1>2, <1>3, <1>4
<1>. QED  BY <1>2, <1>3, <1>5

-----------------------------------------------------------------------------
(* One key of the configuration.                                           *)

\* The segment of a scope.
SegmentOf(column, in, x) == {y \in in : SameSegment(column, in, y, x)}

\* The segment of a scope of the open segment is that one.
LEMMA OpenSegmentIs ==
  ASSUME NEW column, NEW in \in SUBSET Scopes, NEW x \in Open(column, in)
  PROVE  SegmentOf(column, in, x) = Open(column, in)
<1>1. \A y \in in : SameSegment(column, in, y, x) <=> y \in Open(column, in)
  BY OpenIsSegment
<1>2. Open(column, in) \subseteq in
  BY DEF Open, Solid
<1>. QED  BY <1>1, <1>2 DEF SegmentOf

\* A scope above the others continues the open segment or closes it.
LEMMA OpenAdd ==
  ASSUME NEW column, NEW in, NEW s, Above(s, in)
  PROVE  /\ column[s] = Missing => Open(column, in \cup {s}) = Open(column, in)
         /\ column[s] = Null => Open(column, in \cup {s}) = {}
         /\ column[s] \notin {Null, Missing} => Open(column, in \cup {s}) = Open(column, in) \cup {s}
<1>1. s \notin in /\ ~Below(s, s) /\ \A t \in in : Below(t, s) /\ ~Below(s, t)
  BY AboveIs
<1>2. Null # Missing
  BY ValuesAre
<1>3. ASSUME column[s] = Missing PROVE Open(column, in \cup {s}) = Open(column, in)
  BY <1>2, <1>3 DEF Open, Solid
<1>4. ASSUME column[s] = Null PROVE Open(column, in \cup {s}) = {}
  BY <1>1, <1>2, <1>4 DEF Open, Solid
<1>5. ASSUME column[s] \notin {Null, Missing}
      PROVE  Open(column, in \cup {s}) = Open(column, in) \cup {s}
  BY <1>1, <1>5 DEF Open, Solid
<1>. QED  BY <1>3, <1>4, <1>5

\* Its value joins the segments of the scopes of the open one, and no others.
LEMMA SegmentKept ==
  ASSUME NEW column, NEW in, NEW s, Above(s, in), NEW x \in in,
         column[s] \in {Null, Missing} \/ x \notin Open(column, in)
  PROVE  SegmentOf(column, in \cup {s}, x) = SegmentOf(column, in, x)
<1>1. \A y \in in : SameSegment(column, in \cup {s}, y, x) <=> SameSegment(column, in, y, x)
  BY SegmentBelow
<1>2. ~SameSegment(column, in \cup {s}, s, x)
  BY SegmentAbove
<1>. QED  BY <1>1, <1>2 DEF SegmentOf

\* An object above the others joins the open segment.
LEMMA SegmentJoined ==
  ASSUME NEW column, NEW in, NEW s, Above(s, in), NEW x \in Open(column, in) \cup {s},
         column[s] \notin {Null, Missing}
  PROVE  SegmentOf(column, in \cup {s}, x) = Open(column, in) \cup {s}
<1>1. Open(column, in \cup {s}) = Open(column, in) \cup {s}
  BY OpenAdd
<1>2. in \cup {s} \in SUBSET Scopes /\ x \in Open(column, in \cup {s})
  BY <1>1, AboveIs
<1>3. SegmentOf(column, in \cup {s}, x) = Open(column, in \cup {s})
  BY <1>2, OpenSegmentIs
<1>. QED  BY <1>1, <1>3

\* The objects among what is said of a key, and those that do not go together.
Objects(column, in) == {x \in in : column[x] \in Members}
Torn(column, in) == \E x \in Objects(column, in) : ObjectOf(column, SegmentOf(column, in, x)) = Conflict

\* What the layers of the scopes give a key, in closed form: as the reference, but
\* for the null that the lowest object of a segment keeps.
MergedValue(column, in) ==
  IF TypesDisagree(column, in) \/ Torn(column, in) THEN Conflict
  ELSE IF Highest(column, in) \notin Members THEN Highest(column, in)
  ELSE ObjectOf(column, SegmentOf(column, in, TopOf(Objects(column, in))))

\* It in terms of the open segment.
LEMMA MergedIs ==
  ASSUME NEW column, NEW in \in SUBSET Scopes, \A x \in in : column[x] \in Values \cup {Missing}
  PROVE  /\ TypesDisagree(column, in) \/ Torn(column, in) => MergedValue(column, in) = Conflict
         /\ ~TypesDisagree(column, in) /\ ~Torn(column, in) =>
              /\ MergedValue(column, in) =
                   IF Highest(column, in) \in Members THEN ObjectOf(column, Open(column, in)) ELSE Highest(column, in)
              /\ MergedValue(column, in) # Conflict
<1>. DEFINE H == Highest(column, in)
            top == TopOf(Mentions(column, in))
            objects == Objects(column, in)
<1>1. /\ Null # Missing /\ Conflict # Missing /\ Missing \notin Members
      /\ Conflict \notin Values
  BY ValuesAre, ValuesAreDistinct
<1>2. MergedValue(column, in) =
        IF TypesDisagree(column, in) \/ Torn(column, in) THEN Conflict
        ELSE IF H \notin Members THEN H ELSE ObjectOf(column, SegmentOf(column, in, TopOf(objects)))
  BY DEF MergedValue
<1>5. H \in Values \cup {Missing}
  <2>1. \A x \in in : column[x] \in Values \cup {Null, Missing}
    OBVIOUS
  <2>. QED  BY <2>1, HighestType
<1>6. ASSUME H \in Members
      PROVE  /\ TopOf(objects) \in objects
             /\ SegmentOf(column, in, TopOf(objects)) = Open(column, in)
  <2>1. /\ top \in Open(column, in) /\ H = column[top]
        /\ \A t \in Mentions(column, in) : t = top \/ Below(t, top)
    BY <1>1, <1>6, HighestIs
  <2>. HIDE DEF top
  <2>2. top \in in /\ top \in objects
    BY <1>6, <2>1 DEF Open, Solid, Objects
  <2>3. objects \subseteq Mentions(column, in) /\ objects \subseteq in /\ objects \in SUBSET Scopes
    BY <1>1 DEF Objects, Mentions
  <2>4. TopOf(objects) \in objects /\ \A t \in objects : t = TopOf(objects) \/ Below(t, TopOf(objects))
    BY <2>2, <2>3, TopIs
  <2>. HIDE DEF objects
  <2>5. TopOf(objects) = top
    <3>1. TopOf(objects) = top \/ (Below(TopOf(objects), top) /\ Below(top, TopOf(objects)))
      BY <2>1, <2>2, <2>3, <2>4
    <3>2. TopOf(objects) \in Scopes /\ top \in Scopes
      BY <2>2, <2>3, <2>4
    <3>. QED  BY <3>1, <3>2, BelowIs
  <2>6. SegmentOf(column, in, top) = Open(column, in)
    BY <2>1, OpenSegmentIs
  <2>. QED  BY <2>4, <2>5, <2>6
<1>. HIDE DEF H, objects
<1>7. CASE TypesDisagree(column, in) \/ Torn(column, in)
  BY <1>2, <1>7
<1>8. CASE ~TypesDisagree(column, in) /\ ~Torn(column, in)
  <2>1. CASE H \in Members
    <3>1. MergedValue(column, in) = ObjectOf(column, Open(column, in))
      BY <1>2, <1>6, <1>8, <2>1
    <3>2. ObjectOf(column, Open(column, in)) # Conflict
      BY <1>6, <1>8, <2>1 DEF Torn, objects
    <3>. QED  BY <1>8, <2>1, <3>1, <3>2 DEF H
  <2>2. CASE H \notin Members
    <3>1. MergedValue(column, in) = H
      BY <1>2, <1>8, <2>2
    <3>2. H # Conflict
      BY <1>1, <1>5
    <3>. QED  BY <1>8, <2>2, <3>1, <3>2 DEF H
  <2>. QED  BY <2>1, <2>2
<1>. QED  BY <1>7, <1>8

\* An open segment whose highest value is an object has objects alone, if the types agree.
LEMMA OpenObjects ==
  ASSUME NEW column, NEW in \in SUBSET Scopes, \A x \in in : column[x] \in Values \cup {Missing},
         ~TypesDisagree(column, in), Highest(column, in) \in Members
  PROVE  Open(column, in) # {} /\ Open(column, in) \subseteq Objects(column, in)
<1>. DEFINE top == TopOf(Mentions(column, in))
<1>1. Null # Missing /\ Missing \notin Members
  BY ValuesAre
<1>2. top \in Open(column, in) /\ Highest(column, in) = column[top]
  BY <1>1, HighestIs
<1>. HIDE DEF top
<1>3. ASSUME NEW x \in Open(column, in) PROVE x \in Objects(column, in)
  <2>1. x \in in /\ top \in in /\ column[x] \notin {Null, Missing} /\ column[x] \in Values
    BY <1>2 DEF Open, Solid
  <2>2. SameSegment(column, in, x, top)
    BY <1>2, <2>1, OpenIsSegment
  <2>3. Kind(column[x]) = Kind(column[top])
    BY <2>1, <2>2 DEF TypesDisagree
  <2>4. Kind(column[x]) = "object"
    BY <1>2, <2>3, ValuesAre
  <2>5. column[x] \notin Scalars
    BY <2>4, ValuesAre
  <2>. QED  BY <2>1, <2>5 DEF Objects, Values
<1>. QED  BY <1>2, <1>3

\* A scope above the others that gives no object tears no object apart.
LEMMA TornKept ==
  ASSUME NEW column, NEW in, NEW s, Above(s, in), column[s] \notin Members,
         \A x \in in \cup {s} : column[x] \in Values \cup {Missing}, ~TypesDisagree(column, in \cup {s})
  PROVE  Torn(column, in \cup {s}) <=> Torn(column, in)
<1>. DEFINE all == in \cup {s}
<1>1. Objects(column, all) = Objects(column, in)
  BY DEF Objects
<1>2. ASSUME NEW x \in Objects(column, in)
      PROVE  SegmentOf(column, all, x) = SegmentOf(column, in, x)
  <2>1. x \in in /\ column[x] \in Members
    BY DEF Objects
  <2>2. column[s] \in Scalars \cup {Null, Missing}
    BY DEF Values
  <2>3. ~(column[s] \notin {Null, Missing} /\ x \in Open(column, in))
    <3>1. SUFFICES ASSUME column[s] \in Scalars, x \in Open(column, in) PROVE FALSE
      BY <2>2
    <3>2. column[s] \notin {Null, Missing}
      BY <3>1, ValuesAre
    <3>3. SameSegment(column, all, x, s)
      BY <2>1, <3>1, <3>2, SegmentAbove
    <3>4. Kind(column[x]) = Kind(column[s])
      BY <2>1, <3>3 DEF TypesDisagree
    <3>. QED  BY <2>1, <3>1, <3>4, ValuesAre
  <2>4. column[s] \in {Null, Missing} \/ x \notin Open(column, in)
    BY <2>3
  <2>. QED  BY <2>1, <2>4, SegmentKept
<1>. QED  BY <1>1, <1>2 DEF Torn

\* One that gives an object tears those of the open segment apart if it does not go
\* with them.
LEMMA TornAdd ==
  ASSUME NEW column, NEW in, NEW s, Above(s, in), column[s] \in Members,
         \A x \in in \cup {s} : column[x] \in Values \cup {Missing}, ~TypesDisagree(column, in \cup {s})
  PROVE  Torn(column, in \cup {s}) <=>
           Torn(column, in) \/ ObjectOf(column, Open(column, in) \cup {s}) = Conflict
<1>. DEFINE all == in \cup {s}
            open == Open(column, in)
<1>1. /\ s \in Scopes /\ in \in SUBSET Scopes /\ s \notin in
      /\ column[s] \notin {Null, Missing} /\ open \subseteq in
  BY AboveIs, ValuesAre DEF Open, Solid
<1>2. Objects(column, all) = Objects(column, in) \cup {s}
  BY DEF Objects
<1>3. SegmentOf(column, all, s) = open \cup {s}
  BY <1>1, SegmentJoined
<1>4. ASSUME NEW x \in Objects(column, in), x \notin open
      PROVE  SegmentOf(column, all, x) = SegmentOf(column, in, x)
  <2>1. x \in in
    BY DEF Objects
  <2>. QED  BY <1>4, <2>1, SegmentKept
<1>5. ASSUME NEW x \in open
      PROVE  /\ SegmentOf(column, in, x) = open
             /\ SegmentOf(column, all, x) = open \cup {s}
  <2>1. SegmentOf(column, in, x) = open
    BY <1>1, OpenSegmentIs
  <2>2. SegmentOf(column, all, x) = open \cup {s}
    BY <1>1, SegmentJoined
  <2>. QED  BY <2>1, <2>2
<1>6. ASSUME NEW x \in open, x \in Objects(column, in), ObjectOf(column, open) = Conflict
      PROVE  ObjectOf(column, open \cup {s}) = Conflict
  <2>1. ~TypesDisagree(column, in) /\ (open # {} => Kind(Highest(column, in)) = Kind(column[s]))
    BY <1>1, DisagreeAdd, ValuesAre
  <2>2. Kind(Highest(column, in)) = "object"
    BY <1>6, <2>1, ValuesAre
  <2>3. Highest(column, in) \in Values \cup {Missing} /\ Highest(column, in) # Null /\ Highest(column, in) # Missing
    <3>1. \A y \in in : column[y] \in Values \cup {Null, Missing}
      OBVIOUS
    <3>. QED  BY <1>1, <1>6, <3>1, HighestType
  <2>4. Highest(column, in) \in Members
    BY <2>2, <2>3, ValuesAre DEF Values
  <2>5. open \subseteq Objects(column, in)
    BY <1>1, <2>1, <2>4, OpenObjects
  <2>6. Above(s, open) /\ open # {} /\ \A y \in open \cup {s} : column[y] \in Members
    BY <1>1, <1>6, <2>5, AboveIs DEF Objects, Above
  <2>. QED  BY <1>6, <2>6, ObjectAdd
<1>. HIDE DEF all, open
<1>7. ASSUME Torn(column, all)
      PROVE  Torn(column, in) \/ ObjectOf(column, open \cup {s}) = Conflict
  <2>1. PICK x \in Objects(column, in) \cup {s} : ObjectOf(column, SegmentOf(column, all, x)) = Conflict
    BY <1>2, <1>7 DEF Torn
  <2>2. CASE x = s \/ x \in open
    BY <1>3, <1>5, <2>1, <2>2
  <2>3. CASE x \in Objects(column, in) /\ x \notin open
    BY <1>4, <2>1, <2>3 DEF Torn
  <2>. QED  BY <2>1, <2>2, <2>3
<1>8. ASSUME Torn(column, in) PROVE Torn(column, all)
  <2>1. PICK x \in Objects(column, in) : ObjectOf(column, SegmentOf(column, in, x)) = Conflict
    BY <1>8 DEF Torn
  <2>2. CASE x \in open
    <3>1. ObjectOf(column, open \cup {s}) = Conflict
      BY <1>5, <1>6, <2>1, <2>2
    <3>. QED  BY <1>2, <1>3, <3>1 DEF Torn
  <2>3. CASE x \notin open
    BY <1>2, <1>4, <2>1, <2>3 DEF Torn
  <2>. QED  BY <2>2, <2>3
<1>9. ASSUME ObjectOf(column, open \cup {s}) = Conflict PROVE Torn(column, all)
  BY <1>2, <1>3, <1>9 DEF Torn
<1>. QED  BY <1>7, <1>8, <1>9 DEF all, open

\* What the closed form says of one more scope above the others is what the merge makes
\* of it.
LEMMA MergedAdd ==
  ASSUME NEW column, NEW in, NEW s, Above(s, in), \A x \in in \cup {s} : column[x] \in Values \cup {Missing}
  PROVE  MergedValue(column, in \cup {s}) =
           IF MergedValue(column, in) = Conflict THEN Conflict
           ELSE MergeKey(MergedValue(column, in), column[s])
<1>. DEFINE all == in \cup {s}
            c == column[s]
            R == MergedValue(column, in)
            H == Highest(column, in)
            open == Open(column, in)
<1>1. /\ s \in Scopes /\ in \in SUBSET Scopes /\ all \in SUBSET Scopes /\ s \notin in
      /\ c \in Scalars \cup {Null} \cup Members \cup {Missing}
  BY AboveIs DEF Values
<1>2. /\ Null # Missing /\ Missing \notin Members /\ Null \notin Members /\ Conflict \notin Members
      /\ \A v \in Scalars : v \notin {Null, Missing, Conflict} \cup Members /\ Kind(v) # "object"
      /\ \A v \in Members : v \notin {Null, Missing, Conflict} /\ Kind(v) = "object"
  BY ValuesAre
<1>3. /\ TypesDisagree(column, in) \/ Torn(column, in) => R = Conflict
      /\ ~TypesDisagree(column, in) /\ ~Torn(column, in) =>
           R = (IF H \in Members THEN ObjectOf(column, open) ELSE H) /\ R # Conflict
  BY <1>1, MergedIs
<1>4. /\ TypesDisagree(column, all) \/ Torn(column, all) => MergedValue(column, all) = Conflict
      /\ ~TypesDisagree(column, all) /\ ~Torn(column, all) =>
           /\ MergedValue(column, all) =
                IF Highest(column, all) \in Members THEN ObjectOf(column, Open(column, all)) ELSE Highest(column, all)
           /\ MergedValue(column, all) # Conflict
  BY <1>1, MergedIs
<1>5. TypesDisagree(column, all) <=>
        TypesDisagree(column, in) \/ (c \notin {Null, Missing} /\ open # {} /\ Kind(H) # Kind(c))
  BY <1>2, DisagreeAdd
<1>6. /\ c = Missing => Highest(column, all) = H /\ Open(column, all) = open
      /\ c = Null => Highest(column, all) = Missing
      /\ c \notin {Null, Missing} => Highest(column, all) = c /\ Open(column, all) = open \cup {s}
  <2>1. Highest(column, all) = IF c = Missing THEN H ELSE IF c = Null THEN Missing ELSE c
    BY HighestAdd
  <2>2. /\ c = Missing => Open(column, all) = open
        /\ c \notin {Null, Missing} => Open(column, all) = open \cup {s}
    BY OpenAdd
  <2>. HIDE DEF all, c, H, open
  <2>. QED  BY <1>2, <2>1, <2>2
<1>7. (open = {} <=> H = Missing) /\ H \in Scalars \cup Members \cup {Missing}
  <2>1. \A x \in in : column[x] \in Values \cup {Null, Missing}
    OBVIOUS
  <2>2. (open = {} <=> H = Missing) /\ H \in Values \cup {Missing} /\ H # Null
    BY <1>1, <2>1, HighestType
  <2>. QED  BY <2>2 DEF Values
<1>8. ASSUME ~TypesDisagree(column, in), H \in Members
      PROVE  open # {} /\ \A x \in open : column[x] \in Members
  BY <1>1, <1>8, OpenObjects DEF Objects
<1>9. open \in SUBSET Scopes /\ Above(s, open)
  BY <1>1, AboveIs DEF Open, Solid, Above
<1>10. ASSUME ~TypesDisagree(column, in), ~Torn(column, in), H \in Members PROVE R \in Members
  <2>1. open # {} /\ \A x \in open : column[x] \in Members
    BY <1>8, <1>10
  <2>2. R = ObjectOf(column, open) /\ R # Conflict
    BY <1>3, <1>10
  <2>. QED  BY <1>9, <2>1, <2>2, ObjectIs
<1>11. /\ c \notin Members => MergeKey(R, c) = MergeValue(R, c)
       /\ R \notin Members => MergeKey(R, c) = MergeValue(R, c)
       /\ R \in Members /\ c \in Members => MergeKey(R, c) = MergeMembers(R, c)
  BY DEF MergeKey
<1>12. /\ c = Missing => MergeValue(R, c) = R
       /\ c = Null => MergeValue(R, c) = Missing
       /\ c \notin {Missing, Null} => MergeValue(R, c) = IF R # Missing /\ Kind(R) # Kind(c) THEN Conflict ELSE c
  BY MergeValueIs
<1>13. ASSUME c \notin Members, ~TypesDisagree(column, all) PROVE Torn(column, all) <=> Torn(column, in)
  BY <1>13, TornKept
<1>14. ASSUME c \in Members, ~TypesDisagree(column, all)
       PROVE  Torn(column, all) <=> Torn(column, in) \/ ObjectOf(column, open \cup {s}) = Conflict
  BY <1>14, TornAdd
<1>15. c \in Members => ObjectOf(column, {s}) = c
  BY <1>1, ObjectOne
<1>16. ASSUME c \in Members, H \in Members, ~TypesDisagree(column, in)
       PROVE  ObjectOf(column, open \cup {s}) =
                IF ObjectOf(column, open) = Conflict THEN Conflict ELSE MergeMembers(ObjectOf(column, open), c)
  <2>1. open # {} /\ \A x \in open \cup {s} : column[x] \in Members
    BY <1>8, <1>16
  <2>. QED  BY <1>9, <2>1, ObjectAdd
<1>. HIDE DEF all, c, R, H, open
<1>. SUFFICES MergedValue(column, all) = IF R = Conflict THEN Conflict ELSE MergeKey(R, c)
  BY DEF all, c, R
<1>17. CASE TypesDisagree(column, in)
  BY <1>3, <1>4, <1>5, <1>17
<1>18. CASE ~TypesDisagree(column, in) /\ TypesDisagree(column, all)
  <2>1. MergedValue(column, all) = Conflict /\ c \notin {Null, Missing} /\ H # Missing /\ Kind(H) # Kind(c)
    BY <1>4, <1>5, <1>7, <1>18
  <2>2. ASSUME ~Torn(column, in) PROVE MergeKey(R, c) = Conflict
    <3>1. CASE H \in Members
      <4>1. R \in Members /\ Kind(R) = Kind(H) /\ R # Missing /\ c \notin Members
        BY <1>2, <1>10, <1>18, <2>1, <2>2, <3>1
      <4>. QED  BY <1>11, <1>12, <2>1, <4>1
    <3>2. CASE H \notin Members
      <4>1. R = H
        BY <1>3, <1>18, <2>2, <3>2
      <4>. QED  BY <1>11, <1>12, <2>1, <3>2, <4>1
    <3>. QED  BY <3>1, <3>2
  <2>. QED  BY <1>3, <1>18, <2>1, <2>2
<1>19. CASE ~TypesDisagree(column, all) /\ Torn(column, in)
  <2>1. Torn(column, all) /\ R = Conflict
    BY <1>3, <1>13, <1>14, <1>19
  <2>. QED  BY <1>4, <2>1
<1>20. CASE ~TypesDisagree(column, all) /\ ~Torn(column, in)
  <2>1. /\ ~TypesDisagree(column, in) /\ R # Conflict
        /\ R = IF H \in Members THEN ObjectOf(column, open) ELSE H
    BY <1>3, <1>5, <1>20
  <2>2. CASE c \notin Members
    <3>1. /\ MergeKey(R, c) = MergeValue(R, c)
          /\ MergedValue(column, all) =
               IF Highest(column, all) \in Members THEN ObjectOf(column, Open(column, all)) ELSE Highest(column, all)
      BY <1>4, <1>11, <1>13, <1>20, <2>2
    <3>2. CASE c = Missing
      BY <1>6, <1>12, <2>1, <3>1, <3>2
    <3>3. CASE c = Null
      BY <1>2, <1>6, <1>12, <2>1, <3>1, <3>3
    <3>4. CASE c \in Scalars
      <4>1. c \notin {Null, Missing} /\ Kind(c) # "object"
        BY <1>2, <3>4
      <4>2. MergedValue(column, all) = c
        BY <1>6, <2>2, <3>1, <4>1
      <4>3. R = Missing \/ Kind(R) = Kind(c)
        <5>1. H = Missing \/ Kind(H) = Kind(c)
          BY <1>5, <1>7, <1>20, <4>1
        <5>2. H \notin Members
          BY <1>2, <4>1, <5>1
        <5>. QED  BY <2>1, <5>1, <5>2
      <4>. QED  BY <1>12, <2>1, <3>1, <4>1, <4>2, <4>3
    <3>. QED  BY <1>1, <2>2, <3>2, <3>3, <3>4 DEF c
  <2>3. CASE c \in Members
    <3>1. c \notin {Null, Missing} /\ c # Conflict /\ Highest(column, all) = c /\ Open(column, all) = open \cup {s}
      BY <1>2, <1>6, <2>3
    <3>2. MergedValue(column, all) = ObjectOf(column, open \cup {s})
      <4>1. CASE Torn(column, all)
        BY <1>4, <1>14, <1>20, <2>3, <4>1
      <4>2. CASE ~Torn(column, all)
        BY <1>4, <1>20, <2>3, <3>1, <4>2
      <4>. QED  BY <4>1, <4>2
    <3>3. CASE open = {}
      <4>1. H = Missing /\ H \notin Members /\ R = Missing
        BY <1>2, <1>7, <2>1, <3>3
      <4>2. MergedValue(column, all) = c
        <5>1. open \cup {s} = {s}
          BY <3>3
        <5>. QED  BY <1>15, <2>3, <3>2, <5>1
      <4>3. MergeKey(R, c) = c
        BY <1>2, <1>11, <1>12, <3>1, <4>1
      <4>. QED  BY <2>1, <4>2, <4>3
    <3>4. CASE open # {}
      <4>1. Kind(H) = "object" /\ H # Missing
        BY <1>2, <1>5, <1>7, <1>20, <2>3, <3>1, <3>4
      <4>2. H \in Members
        BY <1>2, <1>7, <4>1
      <4>3. R = ObjectOf(column, open) /\ R \in Members
        BY <1>10, <1>20, <2>1, <4>2
      <4>. QED  BY <1>11, <1>16, <2>1, <2>3, <3>2, <4>2, <4>3
    <3>. QED  BY <3>3, <3>4
  <2>. QED  BY <2>2, <2>3
<1>. QED  BY <1>5, <1>17, <1>18, <1>19, <1>20

-----------------------------------------------------------------------------
(* The configuration.                                                      *)

\* The closed form gives a conflict or what an adapter's configuration may have.
LEMMA MergedType ==
  ASSUME NEW column, NEW in \in SUBSET Scopes, \A x \in in : column[x] \in Values \cup {Missing},
         MergedValue(column, in) # Conflict
  PROVE  MergedValue(column, in) \in Values \cup {Missing}
<1>. DEFINE H == Highest(column, in)
<1>1. ~TypesDisagree(column, in) /\ ~Torn(column, in)
  BY MergedIs
<1>2. MergedValue(column, in) = IF H \in Members THEN ObjectOf(column, Open(column, in)) ELSE H
  BY <1>1, MergedIs
<1>3. H \in Values \cup {Missing}
  <2>1. \A x \in in : column[x] \in Values \cup {Null, Missing}
    OBVIOUS
  <2>. QED  BY <2>1, HighestType
<1>4. ASSUME H \in Members PROVE MergedValue(column, in) \in Members
  <2>1. Open(column, in) # {} /\ \A x \in Open(column, in) : column[x] \in Members
    BY <1>1, <1>4, OpenObjects DEF Objects
  <2>2. Open(column, in) \in SUBSET Scopes
    BY DEF Open, Solid
  <2>. QED  BY <1>2, <1>4, <2>1, <2>2, ObjectIs
<1>. QED  BY <1>2, <1>3, <1>4 DEF Values

\* The configuration that the layers of some scopes give.
ConfigOf(layers, in) ==
  IF \E k \in Keys : MergedValue(ColumnOf(layers, k), in) = Conflict THEN Conflict
  ELSE [k \in Keys |-> MergedValue(ColumnOf(layers, k), in)]

\* It is a value, or missing.
LEMMA ColumnType ==
  ASSUME NEW layers \in [Scopes -> Layer], NEW k \in Keys
  PROVE  \A s \in Scopes : /\ ColumnOf(layers, k)[s] = layers[s].adapter[k]
                           /\ ColumnOf(layers, k)[s] \in Values \cup {Missing}
BY DEF ColumnOf, Layer, Config

\* No configuration is the conflict.
LEMMA ConfigOfIs ==
  ASSUME NEW layers \in [Scopes -> Layer], NEW in \in SUBSET Scopes
  PROVE  /\ ConfigOf(layers, in) = Conflict <=>
              \E k \in Keys : MergedValue(ColumnOf(layers, k), in) = Conflict
         /\ ConfigOf(layers, in) # Conflict =>
              ConfigOf(layers, in) = [k \in Keys |-> MergedValue(ColumnOf(layers, k), in)]
<1>1. CASE \E k \in Keys : MergedValue(ColumnOf(layers, k), in) = Conflict
  BY <1>1 DEF ConfigOf
<1>2. CASE ~\E k \in Keys : MergedValue(ColumnOf(layers, k), in) = Conflict
  <2>1. ASSUME NEW k \in Keys PROVE MergedValue(ColumnOf(layers, k), in) \in Values \cup {Missing}
    <3>1. \A x \in in : ColumnOf(layers, k)[x] \in Values \cup {Missing}
      BY ColumnType
    <3>. QED  BY <1>2, <3>1, MergedType
  <2>2. ConfigOf(layers, in) = [k \in Keys |-> MergedValue(ColumnOf(layers, k), in)]
    BY <1>2 DEF ConfigOf
  <2>3. ConfigOf(layers, in) \in Config
    BY <2>1, <2>2 DEF Config
  <2>4. ConfigOf(layers, in) # Conflict
    BY <2>3, ValuesAreDistinct
  <2>. QED  BY <1>2, <2>2, <2>4
<1>. QED  BY <1>1, <1>2

\* One more layer above the others is merged with what they give.
LEMMA ConfigAdd ==
  ASSUME NEW layers \in [Scopes -> Layer], NEW in, NEW s, Above(s, in)
  PROVE  ConfigOf(layers, in \cup {s}) =
           IF ConfigOf(layers, in) = Conflict THEN Conflict
           ELSE MergeObjects(ConfigOf(layers, in), layers[s].adapter)
<1>. DEFINE all == in \cup {s}
            Low(k) == MergedValue(ColumnOf(layers, k), in)
            Now(k) == MergedValue(ColumnOf(layers, k), all)
            config == ConfigOf(layers, in)
            given == layers[s].adapter
<1>1. s \in Scopes /\ in \in SUBSET Scopes /\ all \in SUBSET Scopes
  BY AboveIs
<1>2. ASSUME NEW k \in Keys
      PROVE  Now(k) = IF Low(k) = Conflict THEN Conflict ELSE MergeKey(Low(k), given[k])
  <2>1. /\ \A x \in all : ColumnOf(layers, k)[x] \in Values \cup {Missing}
        /\ ColumnOf(layers, k)[s] = given[k]
    BY <1>1, ColumnType
  <2>2. Now(k) = IF Low(k) = Conflict THEN Conflict ELSE MergeKey(Low(k), ColumnOf(layers, k)[s])
    BY <2>1, MergedAdd
  <2>. QED  BY <2>1, <2>2
<1>3. /\ config = Conflict <=> \E k \in Keys : Low(k) = Conflict
      /\ config # Conflict => config = [k \in Keys |-> Low(k)]
  BY <1>1, ConfigOfIs
<1>4. /\ ConfigOf(layers, all) = Conflict <=> \E k \in Keys : Now(k) = Conflict
      /\ ConfigOf(layers, all) # Conflict => ConfigOf(layers, all) = [k \in Keys |-> Now(k)]
  BY <1>1, ConfigOfIs
<1>. HIDE DEF Low, Now, config, all, given
<1>5. CASE config = Conflict
  <2>1. ConfigOf(layers, all) = Conflict
    BY <1>2, <1>3, <1>4, <1>5
  <2>. QED  BY <1>5, <2>1 DEF config, all
<1>6. CASE config # Conflict
  <2>1. \A k \in Keys : Low(k) # Conflict /\ config[k] = Low(k)
    BY <1>3, <1>6
  <2>2. \A k \in Keys : Now(k) = MergeKey(config[k], given[k])
    BY <1>2, <2>1
  <2>. DEFINE merged == [k \in Keys |-> MergeKey(config[k], given[k])]
  <2>3. MergeObjects(config, given) = IF \E k \in Keys : merged[k] = Conflict THEN Conflict ELSE merged
    BY DEF MergeObjects
  <2>4. \A k \in Keys : merged[k] = Now(k)
    BY <2>2
  <2>5. merged = [k \in Keys |-> Now(k)]
    BY <2>2
  <2>. HIDE DEF merged
  <2>6. ConfigOf(layers, all) = MergeObjects(config, given)
    <3>1. CASE \E k \in Keys : Now(k) = Conflict
      BY <1>4, <2>3, <2>4, <3>1
    <3>2. CASE ~\E k \in Keys : Now(k) = Conflict
      BY <1>4, <2>3, <2>4, <2>5, <3>2
    <3>. QED  BY <3>1, <3>2
  <2>. QED  BY <1>6, <2>6 DEF config, all, given
<1>. QED  BY <1>5, <1>6

\* The merge of the layers, from the lowest scope to the enforced one, is the closed
\* form for all of them.
LEMMA MergeIsClosed ==
  ASSUME NEW layers \in [Scopes -> Layer], NEW scopes \in SUBSET ConfigScopes
  PROVE  AdapterConfig(layers, scopes) = ConfigOf(layers, Selected(scopes))
<1>. DEFINE chosen == Selected(scopes)
            Use(s, config) ==
              IF config = Conflict \/ s \notin chosen THEN config ELSE MergeObjects(config, layers[s].adapter)
            Upto(m) == ConfigOf(layers, chosen \cap m)
<1>1. ConfigOf(layers, {}) = Nothing
  <2>1. ASSUME NEW k \in Keys PROVE MergedValue(ColumnOf(layers, k), {}) = Missing
    <3>. DEFINE column == ColumnOf(layers, k)
    <3>. HIDE DEF column
    <3>1. ~TypesDisagree(column, {}) /\ ~Torn(column, {}) /\ Highest(column, {}) = Missing
      BY DEF TypesDisagree, Torn, Objects, Highest, Mentions
    <3>. QED  BY <3>1, MergedIs, ValuesAre DEF column
  <2>2. Conflict # Missing
    BY ValuesAre
  <2>. QED  BY <2>1, <2>2 DEF ConfigOf, Nothing
<1>2. ASSUME NEW m \in SUBSET Scopes, NEW s \in Scopes, \A t \in m : Below(t, s)
      PROVE  Use(s, Upto(m)) = Upto(m \cup {s})
  <2>1. CASE s \in chosen
    <3>1. Above(s, chosen \cap m) /\ chosen \cap (m \cup {s}) = (chosen \cap m) \cup {s}
      BY <1>2, <2>1 DEF Above
    <3>2. Upto(m \cup {s}) = IF Upto(m) = Conflict THEN Conflict ELSE MergeObjects(Upto(m), layers[s].adapter)
      BY <3>1, ConfigAdd
    <3>. QED  BY <2>1, <3>2
  <2>2. CASE s \notin chosen
    <3>1. chosen \cap (m \cup {s}) = chosen \cap m
      BY <2>2
    <3>. QED  BY <2>2, <3>1
  <2>. QED  BY <2>1, <2>2
<1>3. /\ Priority["local"] = 0 /\ Priority["user"] = 1 /\ Priority["project"] = 2
      /\ Priority["organization"] = 3 /\ Priority["enforced"] = 4
  BY DEF Priority, Scopes, ConfigScopes
<1>4. Scopes = {"local", "user", "project", "organization", "enforced"}
  BY DEF Scopes, ConfigScopes
<1>5. AdapterConfig(layers, scopes) =
        Use("enforced", Use("organization", Use("project", Use("user", Use("local", Nothing)))))
  BY DEF AdapterConfig
<1>. HIDE DEF Use, Upto
<1>7. Use("local", Upto({})) = Upto({"local"})
  <2>1. {} \cup {"local"} = {"local"}
    OBVIOUS
  <2>. QED  BY <1>2, <1>4, <2>1
<1>8. Use("user", Upto({"local"})) = Upto({"local", "user"})
  <2>1. {"local"} \cup {"user"} = {"local", "user"} /\ Below("local", "user")
    BY <1>3 DEF Below
  <2>. QED  BY <1>2, <1>4, <2>1
<1>9. Use("project", Upto({"local", "user"})) = Upto({"local", "user", "project"})
  <2>1. /\ {"local", "user"} \cup {"project"} = {"local", "user", "project"}
        /\ \A t \in {"local", "user"} : Below(t, "project")
    BY <1>3 DEF Below
  <2>. QED  BY <1>2, <1>4, <2>1
<1>10. Use("organization", Upto({"local", "user", "project"})) = Upto({"local", "user", "project", "organization"})
  <2>1. /\ {"local", "user", "project"} \cup {"organization"} = {"local", "user", "project", "organization"}
        /\ \A t \in {"local", "user", "project"} : Below(t, "organization")
    BY <1>3 DEF Below
  <2>. QED  BY <1>2, <1>4, <2>1
<1>11. Use("enforced", Upto({"local", "user", "project", "organization"})) = Upto(Scopes)
  <2>1. /\ {"local", "user", "project", "organization"} \cup {"enforced"} = Scopes
        /\ \A t \in {"local", "user", "project", "organization"} : Below(t, "enforced")
    BY <1>3, <1>4 DEF Below
  <2>. QED  BY <1>2, <1>4, <2>1
<1>12. Upto({}) = Nothing
  <2>1. chosen \cap {} = {}
    OBVIOUS
  <2>. QED  BY <1>1, <2>1 DEF Upto
<1>13. Upto(Scopes) = ConfigOf(layers, chosen)
  <2>1. chosen \cap Scopes = chosen
    BY DEF Selected, Scopes
  <2>. QED  BY <2>1 DEF Upto
<1>. QED  BY <1>5, <1>7, <1>8, <1>9, <1>10, <1>11, <1>12, <1>13

-----------------------------------------------------------------------------
(* The reference.                                                          *)

\* The lowest scope of a segment has nobody below it in its own segment.
LEMMA BaseIsLowest ==
  ASSUME NEW column, NEW in \in SUBSET Scopes, NEW x \in in, column[x] \notin {Null, Missing}
  PROVE  LET base == BaseOf(SegmentOf(column, in, x)) IN
         /\ base \in SegmentOf(column, in, x)
         /\ \A t \in in : SameSegment(column, in, base, t) => ~Below(t, base)
<1>. DEFINE segment == SegmentOf(column, in, x)
            base == BaseOf(segment)
<1>1. x \in segment /\ segment \in SUBSET Scopes
  BY BelowIs DEF SegmentOf, SameSegment
<1>2. base \in segment /\ \A t \in segment : t = base \/ Below(base, t)
  BY <1>1, BaseIs
<1>. HIDE DEF base
<1>3. base \in in /\ SameSegment(column, in, base, x)
  BY <1>2 DEF SegmentOf
<1>4. ASSUME NEW t \in in, SameSegment(column, in, base, t), Below(t, base) PROVE FALSE
  <2>1. /\ column[base] \notin {Null, Missing} /\ column[t] \notin {Null, Missing}
        /\ \A u \in in : column[u] = Null => ~(Below(t, u) /\ Below(u, base))
        /\ \A u \in in : column[u] = Null => ~(Below(base, u) /\ Below(u, x))
    BY <1>3, <1>4 DEF SameSegment
  <2>2. base = x \/ Below(base, x)
    BY <1>1, <1>2
  <2>3. Below(t, x)
    BY <1>3, <1>4, <2>2, BelowIs
  <2>4. ASSUME NEW u \in in, column[u] = Null PROVE ~(Below(t, u) /\ Below(u, x))
    <3>1. u = base \/ Below(u, base) \/ Below(base, u)
      BY <1>3, BelowIs
    <3>. QED  BY <2>1, <2>4, <3>1
  <2>5. ASSUME NEW u \in in PROVE ~(Below(x, u) /\ Below(u, t))
    BY <1>4, <2>3, BelowIs
  <2>6. SameSegment(column, in, t, x)
    BY <2>1, <2>4, <2>5 DEF SameSegment
  <2>7. t = base \/ Below(base, t)
    BY <1>2, <2>6 DEF SegmentOf
  <2>. QED  BY <1>3, <1>4, <2>7, BelowIs
<1>. QED  BY <1>2, <1>4 DEF base

\* Where no object is copied with a null, the objects of a segment are what the
\* reference says.
LEMMA MembersOfIs ==
  ASSUME NEW column, NEW in \in SUBSET Scopes, NEW x \in Objects(column, in),
         \A s \in in : column[s] \in Values \cup {Missing},
         ~TypesDisagree(column, in),
         ~\E s \in in : /\ column[s] \in Members /\ \E j \in SubKeys : column[s][j] = Null
                       /\ \A t \in in : SameSegment(column, in, s, t) => ~Below(t, s)
  PROVE  MembersOf(column, in, x) = ObjectOf(column, SegmentOf(column, in, x))
<1>. DEFINE segment == SegmentOf(column, in, x)
            base == BaseOf(segment)
<1>1. x \in in /\ column[x] \in Members /\ column[x] \notin {Null, Missing}
  BY ValuesAreDistinct DEF Objects, Values
<1>2. base \in segment /\ \A t \in in : SameSegment(column, in, base, t) => ~Below(t, base)
  BY <1>1, BaseIsLowest
<1>3. base \in in /\ SameSegment(column, in, base, x) /\ column[base] \notin {Null, Missing}
  BY <1>2 DEF SegmentOf, SameSegment
<1>4. column[base] \in Members
  <2>1. Kind(column[base]) = Kind(column[x])
    BY <1>1, <1>3 DEF TypesDisagree
  <2>2. column[base] \in Scalars \cup Members
    BY <1>3 DEF Values
  <2>. QED  BY <1>1, <1>3, <2>1, <2>2, KindsAreJson DEF Kind
<1>5. \A k \in SubKeys : Sub(column, segment, k)[base] # Null
  BY <1>2, <1>3, <1>4 DEF Sub
<1>6. ASSUME NEW k \in SubKeys
      PROVE  /\ Clashes(Sub(column, segment, k), segment) <=> TypesDisagree(Sub(column, segment, k), segment)
             /\ ~KeepsNull(Sub(column, segment, k), segment)
  BY <1>5 DEF Clashes, MeetsNull, KeepsNull
<1>7. MembersOf(column, in, x) =
        IF \E k \in SubKeys : TypesDisagree(Sub(column, segment, k), segment) THEN Conflict
        ELSE [k \in SubKeys |-> Highest(Sub(column, segment, k), segment)]
  BY DEF MembersOf, Sub, SegmentOf
<1>8. ObjectOf(column, segment) =
        IF \E k \in SubKeys : Clashes(Sub(column, segment, k), segment) THEN Conflict
        ELSE [k \in SubKeys |->
                IF KeepsNull(Sub(column, segment, k), segment) THEN Null ELSE Highest(Sub(column, segment, k), segment)]
  BY DEF ObjectOf
<1>. HIDE DEF segment, base
<1>9. CASE \E k \in SubKeys : TypesDisagree(Sub(column, segment, k), segment)
  BY <1>6, <1>7, <1>8, <1>9 DEF segment
<1>10. CASE ~\E k \in SubKeys : TypesDisagree(Sub(column, segment, k), segment)
  <2>1. /\ MembersOf(column, in, x) = [k \in SubKeys |-> Highest(Sub(column, segment, k), segment)]
        /\ ObjectOf(column, segment) =
             [k \in SubKeys |->
                IF KeepsNull(Sub(column, segment, k), segment) THEN Null ELSE Highest(Sub(column, segment, k), segment)]
    BY <1>6, <1>7, <1>8, <1>10
  <2>2. [k \in SubKeys |->
           IF KeepsNull(Sub(column, segment, k), segment) THEN Null ELSE Highest(Sub(column, segment, k), segment)]
          = [k \in SubKeys |-> Highest(Sub(column, segment, k), segment)]
    BY <1>6
  <2>. QED  BY <2>1, <2>2 DEF segment
<1>. QED  BY <1>9, <1>10

\* And so is what the layers give the key.
LEMMA ReferenceValueIs ==
  ASSUME NEW column, NEW in \in SUBSET Scopes,
         \A s \in in : column[s] \in Values \cup {Missing},
         ~\E s \in in : /\ column[s] \in Members /\ \E j \in SubKeys : column[s][j] = Null
                       /\ \A t \in in : SameSegment(column, in, s, t) => ~Below(t, s)
  PROVE  MergedValue(column, in) = ReferenceValue(column, in)
<1>. DEFINE objects == Objects(column, in)
            H == Highest(column, in)
<1>1. ReferenceValue(column, in) =
        IF TypesDisagree(column, in) \/ \E x \in objects : MembersOf(column, in, x) = Conflict THEN Conflict
        ELSE IF H \notin Members THEN H ELSE MembersOf(column, in, TopOf(objects))
  BY DEF ReferenceValue, Objects, TopOf
<1>2. MergedValue(column, in) =
        IF TypesDisagree(column, in) \/ Torn(column, in) THEN Conflict
        ELSE IF H \notin Members THEN H ELSE ObjectOf(column, SegmentOf(column, in, TopOf(objects)))
  BY DEF MergedValue
<1>3. CASE TypesDisagree(column, in)
  BY <1>1, <1>2, <1>3
<1>4. CASE ~TypesDisagree(column, in)
  <2>1. \A x \in objects : MembersOf(column, in, x) = ObjectOf(column, SegmentOf(column, in, x))
    BY <1>4, MembersOfIs
  <2>2. (\E x \in objects : MembersOf(column, in, x) = Conflict) <=> Torn(column, in)
    BY <2>1 DEF Torn
  <2>3. ASSUME H \in Members PROVE TopOf(objects) \in objects
    <3>1. /\ TopOf(Mentions(column, in)) \in Open(column, in)
          /\ H = column[TopOf(Mentions(column, in))]
      BY <2>3, HighestIs, ValuesAre, ValuesAreDistinct DEF Values
    <3>2. objects # {} /\ objects \in SUBSET Scopes
      BY <2>3, <3>1 DEF Objects, Open, Solid
    <3>. QED  BY <3>2, TopIs
  <2>. HIDE DEF objects, H
  <2>. QED  BY <1>1, <1>2, <1>4, <2>1, <2>2, <2>3
<1>. QED  BY <1>3, <1>4

\* Unless an object is copied with a null in it, the merge of the layers is what
\* requirements.md LR-R9 says of each key of its own: the highest value counts, a null
\* deletes what is below it, types agree between two nulls, objects are merged key by
\* key, whatever the layers say of any keys (resolveConfigLayers, mergeObjects).
THEOREM ReferenceThm ==
  ASSUME NEW layers \in [Scopes -> Layer], NEW scopes \in SUBSET ConfigScopes, ~CopiesNull(layers, scopes)
  PROVE  AdapterConfig(layers, scopes) = ReferenceConfig(layers, scopes)
<1>1. Selected(scopes) \in SUBSET Scopes
  BY DEF Selected, Scopes
<1>2. ASSUME NEW k \in Keys
      PROVE  MergedValue(ColumnOf(layers, k), Selected(scopes)) = ReferenceValue(ColumnOf(layers, k), Selected(scopes))
  <2>. DEFINE column == ColumnOf(layers, k)
              in == Selected(scopes)
  <2>1. \A s \in in : column[s] \in Values \cup {Missing}
    BY <1>1, ColumnType
  <2>2. ~\E s \in in : /\ column[s] \in Members /\ \E j \in SubKeys : column[s][j] = Null
                      /\ \A t \in in : SameSegment(column, in, s, t) => ~Below(t, s)
    BY DEF CopiesNull
  <2>. HIDE DEF column, in
  <2>3. in \in SUBSET Scopes
    BY <1>1 DEF in
  <2>4. MergedValue(column, in) = ReferenceValue(column, in)
    BY <2>1, <2>2, <2>3, ReferenceValueIs
  <2>. QED  BY <2>4 DEF column, in
<1>3. [k \in Keys |-> ReferenceValue(ColumnOf(layers, k), Selected(scopes))]
        = [k \in Keys |-> MergedValue(ColumnOf(layers, k), Selected(scopes))]
  BY <1>2
<1>4. ReferenceConfig(layers, scopes) = ConfigOf(layers, Selected(scopes))
  BY <1>2, <1>3 DEF ReferenceConfig, ConfigOf
<1>. QED  BY <1>4, MergeIsClosed
=============================================================================
