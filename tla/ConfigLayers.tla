---------------------------- MODULE ConfigLayers ----------------------------
(* The effective configuration of a run: the layers that the runtime was   *)
(* started with, merged from the lowest scope to the enforced one           *)
(* (packages/config-loader), the extension selections that it and the       *)
(* request make (packages/extension-kit), and the credentials that the      *)
(* environment provides for its references (adapters.ts).                   *)
(*                                                                          *)
(* A configuration has the keys Keys; a value is a scalar or an array (an   *)
(* element of Scalars, its JSON type given by KindOf), null, or an object   *)
(* with the keys SubKeys whose members are not objects.  A scope has one    *)
(* layer.                                                                   *)
EXTENDS Naturals

CONSTANTS Keys, SubKeys, Scalars, KindOf, Null, Missing, Conflict,
          Extensions, CredentialKeys, References

Members == [SubKeys -> Scalars \cup {Null, Missing}]
Values == Scalars \cup {Null} \cup Members
Config == [Keys -> Values \cup {Missing}]

ASSUME ValuesAreDistinct ==
  /\ Null \notin Scalars \cup Members /\ Missing \notin Values /\ Conflict \notin Values \cup {Missing}
  /\ Scalars \cap Members = {} /\ Conflict \notin Config
  /\ References \cap {Null, Missing} = {}

\* A value is an object or null only for what it is (jsonKind).
ASSUME KindsAreJson == \A v \in Scalars : KindOf[v] \notin {"null", "object"}

ConfigScopes == {"local", "user", "project", "organization"}
Scopes == ConfigScopes \cup {"enforced"}
Priority ==
  [s \in Scopes |-> CASE s = "local" -> 0 [] s = "user" -> 1 [] s = "project" -> 2
                      [] s = "organization" -> 3 [] s = "enforced" -> 4]

\* "disabled" is a selection too, and so is one of a version that was not found.
Selections == {"enabled", "disabled", "other version"}

\* sound: schema and keys are accepted (configLayerSchema, assertSafeObject);
\* secretFree: no sensitive key has a value (assertNoInlineCredentialValues).
Layer ==
  [sound : BOOLEAN, secretFree : BOOLEAN, adapter : Config,
   extensions : [Extensions -> Selections \cup {Missing}],
   credentialRefs : [CredentialKeys -> References \cup {Null, Missing}]]

Nothing == [k \in Keys |-> Missing]

-----------------------------------------------------------------------------
(* mergeObjects.                                                           *)

Kind(v) == IF v = Null THEN "null" ELSE IF v \in Members THEN "object" ELSE KindOf[v]

\* Mutant: null leaves what is below it.
NullKeeps(lower, higher) ==
  CASE higher \in {Missing, Null} -> lower
    [] higher \notin {Missing, Null} /\ lower # Missing /\ Kind(lower) # Kind(higher) -> Conflict
    [] OTHER -> higher

\* One key, when not both values are objects: null deletes, a value of another
\* type than the lower one is a conflict, anything else replaces.
MergeValue(lower, higher) ==
  CASE higher = Missing -> lower
    [] higher = Null -> Missing
    [] higher \notin {Missing, Null} /\ lower # Missing /\ Kind(lower) # Kind(higher) -> Conflict
    [] OTHER -> higher

\* Two objects are merged key by key.
MergeMembers(lower, higher) ==
  LET merged == [k \in SubKeys |-> MergeValue(lower[k], higher[k])] IN
  IF \E k \in SubKeys : merged[k] = Conflict THEN Conflict ELSE merged

MergeKey(lower, higher) ==
  IF lower \in Members /\ higher \in Members THEN MergeMembers(lower, higher) ELSE MergeValue(lower, higher)

\* Conflict stands for the error CONFIGURATION_INVALID of the whole resolution.
MergeObjects(lower, higher) ==
  LET merged == [k \in Keys |-> MergeKey(lower[k], higher[k])] IN
  IF \E k \in Keys : merged[k] = Conflict THEN Conflict ELSE merged

-----------------------------------------------------------------------------
(* resolveConfigLayers.                                                    *)

\* The scopes whose layers take part: the enforced one always does.
Selected(scopes) == scopes \cup {"enforced"}

\* The value after the layers of all scopes, where Use(s, v) is what the layer of
\* s makes of v.
ThroughTheScopes(Use(_, _), v) ==
  Use("enforced", Use("organization", Use("project", Use("user", Use("local", v)))))

AdapterConfig(layers, scopes) ==
  LET Use(s, config) ==
        IF config = Conflict \/ s \notin Selected(scopes) THEN config
        ELSE MergeObjects(config, layers[s].adapter)
  IN ThroughTheScopes(Use, Nothing)

\* The last selection of an extension counts, an enabled or a disabled one.
ExtensionSelections(layers, scopes) ==
  [e \in Extensions |->
     LET Use(s, selection) ==
           IF s \in Selected(scopes) /\ layers[s].extensions[e] # Missing THEN layers[s].extensions[e]
           ELSE selection
     IN ThroughTheScopes(Use, Missing)]

CredentialRefs(layers, scopes) ==
  [c \in CredentialKeys |->
     LET Use(s, reference) ==
           IF s \in Selected(scopes) /\ layers[s].credentialRefs[c] # Missing
           THEN IF layers[s].credentialRefs[c] = Null THEN Missing ELSE layers[s].credentialRefs[c]
           ELSE reference
     IN ThroughTheScopes(Use, Missing)]

\* Every layer must be sound, also one that is not selected; only those that are
\* selected are searched for secrets.
LayersAreAccepted(layers, scopes) ==
  /\ \A s \in Scopes : layers[s].sound
  /\ \A s \in Selected(scopes) : layers[s].secretFree

EffectiveConfig(layers, scopes) ==
  [ok |-> LayersAreAccepted(layers, scopes) /\ AdapterConfig(layers, scopes) # Conflict,
   adapterConfig |-> AdapterConfig(layers, scopes),
   extensions |-> ExtensionSelections(layers, scopes),
   credentialRefs |-> CredentialRefs(layers, scopes)]

-----------------------------------------------------------------------------
(* What is done with the effective configuration.                          *)

\* An adapter's configSchema, as the JSON types that it accepts at each key.
SchemaAccepts(schema, config) ==
  \A k \in Keys : (IF config[k] = Missing THEN "missing" ELSE Kind(config[k])) \in schema[k]

\* The request's selections replace those of the layers.
MergeExtensionSelections(lower, higher) ==
  [e \in Extensions |-> IF higher[e] = Missing THEN lower[e] ELSE higher[e]]

\* An extension that is selected must have been found, in the selected version,
\* and the adapter must have what it requires.
ExtensionsAreAvailable(selections, discovered, supported) ==
  \A e \in Extensions :
    selections[e] \notin {Missing, "disabled"} =>
      e \in discovered /\ selections[e] # "other version" /\ e \in supported

\* createEnvironmentContextProvider: the credentials whose references name an
\* allowed environment variable that has a value.
Credentials(refs, provided) == {c \in CredentialKeys : refs[c] \in provided}

-----------------------------------------------------------------------------
(* The reference: what requirements.md LR-R9 says (objects are merged deeply, *)
(* arrays replaced, an explicit null deletes, types may not conflict), given   *)
(* what the layer of each scope says of one key (column).  Scopes between two  *)
(* nulls form a segment; within a segment types agree and the highest value    *)
(* counts.                                                                     *)

Below(s, t) == Priority[s] < Priority[t]
Mentions(column, in) == {s \in in : column[s] # Missing}

\* A null separates what is below it from what is above it.
SameSegment(column, in, s, t) ==
  /\ {s, t} \subseteq in /\ column[s] \notin {Null, Missing} /\ column[t] \notin {Null, Missing}
  /\ \A u \in in : column[u] = Null => ~(Below(s, u) /\ Below(u, t)) /\ ~(Below(t, u) /\ Below(u, s))

TypesDisagree(column, in) ==
  \E s, t \in in : SameSegment(column, in, s, t) /\ Kind(column[s]) # Kind(column[t])

Highest(column, in) ==
  LET m == Mentions(column, in) IN
  IF m = {} THEN Missing
  ELSE LET top == CHOOSE s \in m : \A t \in m : t = s \/ Below(t, s) IN
       IF column[top] = Null THEN Missing ELSE column[top]

\* An object is what the objects of its segment say of each of its keys, where null
\* deletes as it does outside.
MembersOf(column, in, top) ==
  LET segment == {s \in in : SameSegment(column, in, s, top)}
      Sub(k) == [s \in segment |-> column[s][k]]
  IN IF \E k \in SubKeys : TypesDisagree(Sub(k), segment) THEN Conflict
     ELSE [k \in SubKeys |-> Highest(Sub(k), segment)]

ReferenceValue(column, in) ==
  LET objects == {s \in in : column[s] \in Members}
      top == Highest(column, in)
  IN IF TypesDisagree(column, in) \/ \E s \in objects : MembersOf(column, in, s) = Conflict THEN Conflict
     ELSE IF top \notin Members THEN top
     ELSE MembersOf(column, in, CHOOSE s \in objects : \A t \in objects : t = s \/ Below(t, s))

\* What the layers say of a key.
ColumnOf(layers, k) == [s \in Scopes |-> layers[s].adapter[k]]

ReferenceConfig(layers, scopes) ==
  LET value == [k \in Keys |-> ReferenceValue(ColumnOf(layers, k), Selected(scopes))]
  IN IF \E k \in Keys : value[k] = Conflict THEN Conflict ELSE value

\* Where the code departs from LR-R9: an object with a null in it that meets no
\* object below it in its segment is copied with the null, which is then a value
\* of type null (mergeObjects, its last branch).
CopiesNull(layers, scopes) ==
  \E k \in Keys : \E s \in Selected(scopes) :
    LET column == ColumnOf(layers, k) IN
    /\ column[s] \in Members /\ \E j \in SubKeys : column[s][j] = Null
    /\ \A t \in Selected(scopes) : SameSegment(column, Selected(scopes), s, t) => ~Below(t, s)
=============================================================================
