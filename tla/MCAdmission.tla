---------------------------- MODULE MCAdmission ----------------------------
EXTENDS Admission, TLC

CONSTANTS k1, k2, u1, u2, a1, a2, n1, e1, c1, ref, r1, r2, o1, o2, g1

Kinds == (a1 :> "string") @@ (a2 :> "string") @@ (n1 :> "number")
AnySchema == [k \in Keys |-> {"missing", "string", "number", "object"}]

At(value1, value2, selection, reference) ==
  [sound |-> TRUE, secretFree |-> TRUE, adapter |-> (k1 :> value1) @@ (k2 :> value2),
   extensions |-> (e1 :> selection), credentialRefs |-> (c1 :> reference)]
Object(member1, member2) == (u1 :> member1) @@ (u2 :> member2)
Empty == At(Missing, Missing, Missing, Missing)

\* Scopes that agree on the type of a key until a third one does not.
Disagreeing ==
  [s \in Scopes |->
     CASE s = "local" -> At(a1, n1, Missing, ref)
       [] s = "user" -> At(a2, Missing, "enabled", Missing)
       [] s = "project" -> At(Object(a1, Missing), n1, Missing, Null)
       [] OTHER -> Empty]

\* A key that is deleted between two objects, and objects that are merged, in which
\* a null deletes what a lower object says, whatever type comes next.
Deleting ==
  [s \in Scopes |->
     CASE s = "local" -> At(Object(a1, Missing), Object(a1, n1), Missing, ref)
       [] s = "user" -> At(Missing, Object(Null, Missing), Missing, Missing)
       [] s = "project" -> At(Missing, Object(n1, Missing), Missing, Missing)
       [] s = "organization" -> At(Null, Object(Missing, Null), "disabled", Missing)
       [] s = "enforced" -> At(Object(Missing, a2), Missing, "enabled", ref)]

\* Objects that are copied with a null, which meets a value in the project's.
Copying ==
  [s \in Scopes |->
     CASE s = "user" -> At(Object(Null, a1), Object(a1, Missing), Missing, Missing)
       [] s = "project" -> At(Object(a1, Missing), Missing, Missing, Missing)
       [] OTHER -> Empty]
SomeLayers == {Disagreeing, Deleting, Copying}

\* Requests and sessions are interchangeable, and the properties are about safety.
Symmetry == Permutations(Requests) \cup Permutations(SessionIds)

SomeAdapters ==
  {[extensions |-> {}, resume |-> FALSE], [extensions |-> {e1}, resume |-> TRUE]}

SomeAsks ==
  {[scopes |-> {"local", "user"}, extensions |-> (e1 :> Missing), resume |-> FALSE],
   [scopes |-> ConfigScopes, extensions |-> (e1 :> "enabled"), resume |-> TRUE]}
=============================================================================
