\* Two requests, one grant, two origins of which one may use the token, one binding
\* and up to two sessions, which end before the token;
\* three sets of layers: one conflicts, one deletes, one copies a null.
SPECIFICATION Spec
SYMMETRY Symmetry
CONSTANTS
  k1 = k1
  k2 = k2
  u1 = u1
  u2 = u2
  a1 = a1
  a2 = a2
  n1 = n1
  e1 = e1
  c1 = c1
  ref = ref
  r1 = r1
  r2 = r2
  o1 = o1
  o2 = o2
  g1 = g1
  Keys = {k1, k2}
  SubKeys = {u1, u2}
  Scalars = {a1, a2, n1}
  KindOf <- Kinds
  Null = Null
  Missing = Missing
  Conflict = Conflict
  Extensions = {e1}
  CredentialKeys = {c1}
  References = {ref}
  Origins = {o1, o2}
  AllowedOrigins = {o2}
  BindingIds = {b1}
  SessionIds = {s1, s2}
  GrantIds = {g1}
  None = None
  TokenTtl = 2
  SessionTtl = 1
  MinTtl = 1
  MaxBindingTtl = 2
  MaxGrantTtl = 2
  Ttls = {0}
  MaxTime = 2
  Requests = {r1, r2}
  Asks <- SomeAsks
  LayerChoices <- SomeLayers
  AdapterChoices <- SomeAdapters
  Schema <- AnySchema
  Discovered = {e1}
INVARIANTS EndedGrantAdmitsNoRun RuntimesAreDisposed TurnsAreTaken
PROPERTIES AccessIsBound ConfigIsTheReference
CHECK_DEADLOCK FALSE
