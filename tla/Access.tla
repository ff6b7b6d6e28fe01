------------------------------- MODULE Access -------------------------------
(* Who may use the local runtime, and for which directories: the access     *)
(* token, the bindings by which a browser page gets a session of its own     *)
(* (auth.ts), and the workspace grants (workspace-grants.ts), all kept in    *)
(* memory and all ending with time.                                          *)
(*                                                                           *)
(* A binding, session or grant is named by its id: who presents the id has   *)
(* its secret too, and whatever else is presented is None.                   *)
EXTENDS Naturals, FiniteSets

CONSTANTS Origins, AllowedOrigins, BindingIds, SessionIds, GrantIds, None,
          TokenTtl, SessionTtl, MinTtl, MaxBindingTtl, MaxGrantTtl,
          Ttls,      \* model bound: the lifetimes that are asked for
          MaxTime    \* model bound: where the clock stops

ASSUME AccessAssumption ==
  /\ {TokenTtl, SessionTtl, MinTtl, MaxBindingTtl, MaxGrantTtl, MaxTime} \subseteq Nat /\ Ttls \subseteq Nat
  /\ AllowedOrigins \subseteq Origins /\ None \notin Origins \cup BindingIds \cup SessionIds \cup GrantIds
  /\ "bearer" \notin Origins \cup {None}
  /\ None \notin [expiresAt : Nat, revoked : BOOLEAN]

VARIABLES
  now,        \* the clock
  bindings,   \* #bindings: binding id -> its origin and expiry, or None
  spent,      \* the bindings that were exchanged: they are not in #bindings any more
  sessions,   \* #browserSessions: session id -> origin, expiry and the binding it came from, or None
  issuing,    \* the grants whose issue awaits the file system
  grants,     \* #grants: grant id -> its expiry and whether it was revoked, or None
  ended       \* the grants that were deleted when they were found expired

access == <<now, bindings, spent, sessions, issuing, grants, ended>>

TokenExpiresAt == TokenTtl
Min2(a, b) == IF a <= b THEN a ELSE b
BoundedTtl(ttl, maximum) == Min2(maximum, IF ttl < MinTtl THEN MinTtl ELSE ttl)

AccessTypeOK ==
  /\ now \in 0..MaxTime
  /\ bindings \in [BindingIds -> [origin : Origins, expiresAt : Nat] \cup {None}]
  /\ spent \subseteq BindingIds
  /\ sessions \in [SessionIds -> [origin : Origins, expiresAt : Nat, binding : BindingIds] \cup {None}]
  /\ issuing \subseteq GrantIds /\ ended \subseteq GrantIds
  /\ grants \in [GrantIds -> [expiresAt : Nat, revoked : BOOLEAN] \cup {None}]

AccessInit ==
  /\ now = 0
  /\ bindings = [b \in BindingIds |-> None] /\ spent = {}
  /\ sessions = [s \in SessionIds |-> None]
  /\ issuing = {} /\ ended = {}
  /\ grants = [g \in GrantIds |-> None]

Tick ==
  /\ now < MaxTime
  /\ now' = now + 1
  /\ UNCHANGED <<bindings, spent, sessions, issuing, grants, ended>>

-----------------------------------------------------------------------------
(* LocalAuthManager.                                                       *)

BearerMatches(credentials) == credentials.bearer /\ now < TokenExpiresAt

\* authenticate: a token that matches is not a session's, even if its request is
\* refused for its origin; a session needs the origin it was made for.
Principal(credentials) ==
  IF BearerMatches(credentials)
  THEN IF credentials.origin \in AllowedOrigins \cup {None} THEN "bearer" ELSE None
  ELSE IF /\ credentials.session # None /\ sessions[credentials.session] # None
          /\ now < sessions[credentials.session].expiresAt
          /\ credentials.origin = sessions[credentials.session].origin
       THEN credentials.origin ELSE None

Bearer == [bearer |-> TRUE, session |-> None, origin |-> None]

\* The process that holds the runtime hands a page a token to exchange.
IssueBrowserBinding(b, origin, ttl) ==
  /\ bindings[b] = None /\ b \notin spent
  /\ bindings' = [bindings EXCEPT ![b] = [origin |-> origin, expiresAt |-> now + BoundedTtl(ttl, MaxBindingTtl)]]
  /\ UNCHANGED <<now, spent, sessions, issuing, grants, ended>>

\* Mutant: the binding stays after the exchange.
ExchangeAndKeep(b, origin, s) ==
  /\ bindings[b] # None /\ now < bindings[b].expiresAt /\ origin = bindings[b].origin
  /\ sessions[s] = None
  /\ spent' = spent \cup {b}
  /\ sessions' = [sessions EXCEPT ![s] = [origin |-> origin, binding |-> b,
                                          expiresAt |-> Min2(TokenExpiresAt, now + SessionTtl)]]
  /\ UNCHANGED <<now, bindings, issuing, grants, ended>>

\* A binding that is unknown, expired or of another origin is refused, and the
\* last of these stays what it was.
ExchangeBrowserBinding(b, origin, s) ==
  /\ bindings[b] # None /\ now < bindings[b].expiresAt /\ origin = bindings[b].origin
  /\ sessions[s] = None
  /\ bindings' = [bindings EXCEPT ![b] = None]
  /\ spent' = spent \cup {b}
  /\ sessions' = [sessions EXCEPT ![s] = [origin |-> origin, binding |-> b,
                                          expiresAt |-> Min2(TokenExpiresAt, now + SessionTtl)]]
  /\ UNCHANGED <<now, issuing, grants, ended>>

-----------------------------------------------------------------------------
(* WorkspaceGrantRegistry.  Its routes are for bearers only.               *)

RequestGrant(g) ==
  /\ Principal(Bearer) = "bearer"
  /\ g \notin issuing \cup ended /\ grants[g] = None
  /\ issuing' = issuing \cup {g}
  /\ UNCHANGED <<now, bindings, spent, sessions, grants, ended>>

\* The directory was found: the lifetime begins, at least MinTtl and at most
\* MaxGrantTtl long.
IssueGrant(g, ttl) ==
  /\ g \in issuing
  /\ issuing' = issuing \ {g}
  /\ grants' = [grants EXCEPT ![g] = [expiresAt |-> now + BoundedTtl(ttl, MaxGrantTtl), revoked |-> FALSE]]
  /\ UNCHANGED <<now, bindings, spent, sessions, ended>>

RefuseGrant(g) ==
  /\ g \in issuing
  /\ issuing' = issuing \ {g}
  /\ UNCHANGED <<now, bindings, spent, sessions, grants, ended>>

Revoke(g) ==
  /\ Principal(Bearer) = "bearer"
  /\ grants[g] # None /\ ~grants[g].revoked
  /\ grants' = [grants EXCEPT ![g].revoked = TRUE]
  /\ UNCHANGED <<now, bindings, spent, sessions, issuing, ended>>

\* What resolve checks before it asks the file system.
GrantIsValid(g) == g # None /\ grants[g] # None /\ ~grants[g].revoked /\ now < grants[g].expiresAt

\* A grant that is found expired is deleted.
Forget(g) ==
  IF g # None /\ grants[g] # None /\ ~grants[g].revoked /\ now >= grants[g].expiresAt
  THEN grants' = [grants EXCEPT ![g] = None] /\ ended' = ended \cup {g}
  ELSE UNCHANGED <<grants, ended>>

AccessNext ==
  \/ Tick
  \/ \E b \in BindingIds, o \in Origins, ttl \in Ttls : IssueBrowserBinding(b, o, ttl)
  \/ \E b \in BindingIds, o \in Origins, s \in SessionIds : ExchangeBrowserBinding(b, o, s)
  \/ \E g \in GrantIds :
       \/ RequestGrant(g) \/ RefuseGrant(g) \/ Revoke(g)
       \/ \E ttl \in Ttls : IssueGrant(g, ttl)
=============================================================================
