-------------------------- MODULE AdmissionProofs --------------------------
(* What holds for any number of requests, grants, bindings and sessions: an *)
(* ended grant admits no run, runtimes are disposed, turns are taken, nobody *)
(* gets in without a token or a binding, and no runtime is opened with       *)
(* another configuration than the documented one.                            *)
EXTENDS Admission, PolicyProofs, TLAPS

-----------------------------------------------------------------------------
(* The inductive invariant, of the access state, of each handler, of the    *)
(* grants that requests name, and of the queue.                             *)

\* A binding is exchanged at most once, and a session does not outlive the token.
BindingInv ==
  /\ \A b \in spent : bindings[b] = None
  /\ \A s \in SessionIds :
       sessions[s] # None =>
         /\ sessions[s].binding \in spent /\ sessions[s].expiresAt <= TokenExpiresAt
         /\ \A t \in SessionIds \ {s} : sessions[t] # None => sessions[t].binding # sessions[s].binding

\* A grant that is being issued has never been there.
IssuingInv == \A g \in issuing : grants[g] = None /\ g \notin ended

\* A request is new while it is idle; its first runtime is closed from when its
\* answers are looked at.
HandlerInv(x) ==
  /\ DOMAIN x = DOMAIN NewHandler
  /\ x.step \in Steps /\ x.grant \in GrantIds \cup {None} /\ x.late \in BOOLEAN
  /\ x.step = "idle" => x = NewHandler
  /\ x.first = "open" => x.step \in {"probing", "listing"}
  /\ x.step \in {"disposing", "recording", "starting", "matching", "running", "ending"} => x.first = "closed"
  /\ x.second = "open" => x.step \in {"matching", "running"}
  /\ x.late => x.step = "session"

Handlers == h = [r \in Requests |-> h[r]] /\ \A r \in Requests : HandlerInv(h[r])

\* A grant that a request names was issued, so it is never issued again; that it
\* has ended stays true.
GrantInv ==
  \A r \in Requests :
    /\ h[r].grant # None => grants[h[r].grant] # None \/ h[r].grant \in ended
    /\ h[r].late => ~GrantIsValid(h[r].grant)

Pending(x) == x.kind = "createRun" /\ x.step \notin Answered \cup {"idle"}

QueueInv ==
  /\ queue \in Seq(Requests)
  /\ \A i, j \in 1..Len(queue) : queue[i] = queue[j] => i = j
  /\ \A i \in 1..Len(queue) : Pending(h[queue[i]]) /\ (i > 1 => h[queue[i]].step = "queued")
  /\ \A r \in Requests : Pending(h[r]) => \E i \in 1..Len(queue) : queue[i] = r

IInv == AccessTypeOK /\ BindingInv /\ IssuingInv /\ Handlers /\ GrantInv /\ QueueInv

-----------------------------------------------------------------------------
(* The access state.                                                       *)

LEMMA BoundedTtlType ==
  ASSUME NEW ttl \in Nat, NEW maximum \in Nat
  PROVE  BoundedTtl(ttl, maximum) \in Nat
BY AccessAssumption DEF BoundedTtl, Min2

LEMMA AccessTypeStep ==
  ASSUME AccessTypeOK, AccessNext
  PROVE  AccessTypeOK'
<1>. USE AccessAssumption DEF AccessTypeOK
<1>1. CASE Tick  BY <1>1 DEF Tick
<1>2. ASSUME NEW b \in BindingIds, NEW o \in Origins, NEW ttl \in Ttls, IssueBrowserBinding(b, o, ttl)
      PROVE  AccessTypeOK'
  <2>1. now + BoundedTtl(ttl, MaxBindingTtl) \in Nat
    BY BoundedTtlType
  <2>. QED  BY <1>2, <2>1 DEF IssueBrowserBinding
<1>3. ASSUME NEW b \in BindingIds, NEW o \in Origins, NEW s \in SessionIds, ExchangeBrowserBinding(b, o, s)
      PROVE  AccessTypeOK'
  <2>1. Min2(TokenExpiresAt, now + SessionTtl) \in Nat
    BY DEF Min2, TokenExpiresAt
  <2>. QED  BY <1>3, <2>1 DEF ExchangeBrowserBinding
<1>4. ASSUME NEW g \in GrantIds, RequestGrant(g) \/ RefuseGrant(g)
      PROVE  AccessTypeOK'
  BY <1>4 DEF RequestGrant, RefuseGrant
<1>5. ASSUME NEW g \in GrantIds, Revoke(g)
      PROVE  AccessTypeOK'
  BY <1>5 DEF Revoke
<1>6. ASSUME NEW g \in GrantIds, NEW ttl \in Ttls, IssueGrant(g, ttl)
      PROVE  AccessTypeOK'
  <2>1. now + BoundedTtl(ttl, MaxGrantTtl) \in Nat
    BY BoundedTtlType
  <2>. QED  BY <1>6, <2>1 DEF IssueGrant
<1>. QED  BY <1>1, <1>2, <1>3, <1>4, <1>5, <1>6 DEF AccessNext

\* An exchanged binding is gone, so no second session comes from it.
LEMMA BindingStep ==
  ASSUME AccessTypeOK, BindingInv, AccessNext
  PROVE  BindingInv'
<1>. USE DEF BindingInv, TokenExpiresAt
<1>1. ASSUME UNCHANGED <<bindings, spent, sessions>>  PROVE BindingInv'
  BY <1>1
<1>2. ASSUME NEW b \in BindingIds, NEW o \in Origins, NEW ttl \in Ttls, IssueBrowserBinding(b, o, ttl)
      PROVE  BindingInv'
  BY <1>2 DEF IssueBrowserBinding, AccessTypeOK
<1>3. ASSUME NEW b \in BindingIds, NEW o \in Origins, NEW s \in SessionIds, ExchangeBrowserBinding(b, o, s)
      PROVE  BindingInv'
  <2>1. b \notin spent /\ spent' = spent \cup {b} /\ bindings' = [bindings EXCEPT ![b] = None]
    BY <1>3 DEF ExchangeBrowserBinding
  <2>2. \A c \in spent' : bindings'[c] = None
    BY <2>1 DEF AccessTypeOK
  <2>3. Min2(TokenExpiresAt, now + SessionTtl) <= TokenExpiresAt
    BY AccessAssumption DEF Min2, AccessTypeOK
  <2>4. sessions'[s].binding = b /\ sessions'[s].expiresAt <= TokenExpiresAt
    BY <1>3, <2>3 DEF ExchangeBrowserBinding, AccessTypeOK
  <2>5. \A t \in SessionIds \ {s} : sessions'[t] = sessions[t]
    BY <1>3 DEF ExchangeBrowserBinding, AccessTypeOK
  <2>6. \A t \in SessionIds \ {s} : sessions[t] # None => sessions[t].binding # b
    BY <2>1
  <2>. QED  BY <2>1, <2>2, <2>4, <2>5, <2>6
<1>. QED
  BY <1>1, <1>2, <1>3 DEF AccessNext, Tick, RequestGrant, RefuseGrant, Revoke, IssueGrant

LEMMA IssuingStep ==
  ASSUME AccessTypeOK, IssuingInv, AccessNext
  PROVE  IssuingInv'
<1>. USE DEF IssuingInv, AccessTypeOK
<1>1. ASSUME UNCHANGED <<issuing, grants, ended>>  PROVE IssuingInv'
  BY <1>1
<1>2. ASSUME NEW g \in GrantIds, RequestGrant(g) \/ RefuseGrant(g)  PROVE IssuingInv'
  BY <1>2 DEF RequestGrant, RefuseGrant
<1>3. ASSUME NEW g \in GrantIds, Revoke(g)  PROVE IssuingInv'
  BY <1>3 DEF Revoke
<1>4. ASSUME NEW g \in GrantIds, NEW ttl \in Ttls, IssueGrant(g, ttl)  PROVE IssuingInv'
  BY <1>4 DEF IssueGrant
<1>. QED
  BY <1>1, <1>2, <1>3, <1>4 DEF AccessNext, Tick, IssueBrowserBinding, ExchangeBrowserBinding

\* A grant that was there once and is not valid is never valid again.
LEMMA EndedStaysEnded ==
  ASSUME AccessTypeOK, IssuingInv, AccessNext,
         NEW q \in GrantIds, grants[q] # None \/ q \in ended
  PROVE  /\ grants'[q] # None \/ q \in ended'
         /\ ~GrantIsValid(q) => ~GrantIsValid(q)'
<1>. USE AccessAssumption DEF AccessTypeOK, GrantIsValid
<1>1. ASSUME UNCHANGED <<grants, ended>>, now' >= now, now' \in Nat
      PROVE  /\ grants'[q] # None \/ q \in ended'
             /\ ~GrantIsValid(q) => ~GrantIsValid(q)'
  <2>1. grants'[q] # None \/ q \in ended'
    BY <1>1
  <2>2. ASSUME ~GrantIsValid(q)  PROVE ~GrantIsValid(q)'
    BY <1>1, <2>2
  <2>. QED  BY <2>1, <2>2
<1>2. now' >= now /\ now' \in Nat
  BY DEF AccessNext, Tick, IssueBrowserBinding, ExchangeBrowserBinding, RequestGrant, RefuseGrant, Revoke, IssueGrant
<1>3. ASSUME NEW g \in GrantIds, Revoke(g)
      PROVE  /\ grants'[q] # None \/ q \in ended'
             /\ ~GrantIsValid(q) => ~GrantIsValid(q)'
  <2>1. /\ grants' = [grants EXCEPT ![g].revoked = TRUE] /\ grants[g] # None
        /\ ended' = ended /\ now' = now
    BY <1>3 DEF Revoke
  <2>2. CASE q = g
    <3>1. grants[g] \in [expiresAt : Nat, revoked : BOOLEAN]
      BY <2>1
    <3>2. grants'[q] = [grants[g] EXCEPT !.revoked = TRUE]
      BY <2>1, <2>2
    <3>3. grants'[q] \in [expiresAt : Nat, revoked : BOOLEAN] /\ grants'[q].revoked
      BY <3>1, <3>2
    <3>4. grants'[q] # None
      BY <3>3
    <3>. QED  BY <3>3, <3>4
  <2>3. CASE q # g
    <3>1. grants'[q] = grants[q]
      BY <2>1, <2>3
    <3>. QED  BY <2>1, <3>1
  <2>. QED  BY <2>2, <2>3
<1>4. ASSUME NEW g \in GrantIds, NEW ttl \in Ttls, IssueGrant(g, ttl)
      PROVE  /\ grants'[q] # None \/ q \in ended'
             /\ ~GrantIsValid(q) => ~GrantIsValid(q)'
  <2>1. q # g
    BY <1>4 DEF IssueGrant, IssuingInv
  <2>2. grants'[q] = grants[q] /\ ended' = ended /\ now' = now
    BY <1>4, <2>1 DEF IssueGrant
  <2>. QED  BY <2>2
<1>5. CASE UNCHANGED <<grants, ended>>
  BY <1>1, <1>2, <1>5
<1>. QED
  BY <1>3, <1>4, <1>5 DEF AccessNext, Tick, IssueBrowserBinding, ExchangeBrowserBinding, RequestGrant, RefuseGrant

\* Forgetting a grant ends nothing that has not ended.
LEMMA ForgetStep ==
  ASSUME AccessTypeOK, BindingInv, IssuingInv,
         NEW g \in GrantIds \cup {None}, Forget(g),
         UNCHANGED <<now, bindings, spent, sessions, issuing>>
  PROVE  /\ AccessTypeOK' /\ BindingInv' /\ IssuingInv'
         /\ \A q \in GrantIds :
              /\ grants[q] # None \/ q \in ended => grants'[q] # None \/ q \in ended'
              /\ ~GrantIsValid(q) => ~GrantIsValid(q)'
<1>1. AccessTypeOK'
  BY AccessAssumption DEF AccessTypeOK, Forget
<1>2. BindingInv'
  BY DEF BindingInv, TokenExpiresAt
<1>3. IssuingInv'
  BY DEF IssuingInv, Forget, AccessTypeOK
<1>4. ASSUME NEW q \in GrantIds, grants[q] # None \/ q \in ended
      PROVE  grants'[q] # None \/ q \in ended'
  BY <1>4 DEF Forget, AccessTypeOK
<1>5. ASSUME NEW q \in GrantIds, ~GrantIsValid(q)
      PROVE  ~GrantIsValid(q)'
  BY <1>5 DEF Forget, GrantIsValid, AccessTypeOK
<1>. QED  BY <1>1, <1>2, <1>3, <1>4, <1>5

-----------------------------------------------------------------------------
(* What a step of a request does to its handler and the queue.             *)

\* The request stays where it is in the queue, or leaves it and is not pending;
\* only the first in the queue goes on.
Advances(r, x) ==
  /\ h' = [h EXCEPT ![r] = x] /\ HandlerInv(x)
  /\ x.grant \in {None, h[r].grant}
  /\ x.late => x.grant = h[r].grant /\ ~GrantIsValid(x.grant)
  /\ h[r].step = "queued" => Head(queue) = r
  /\ \/ queue' = queue /\ (Pending(x) <=> Pending(h[r]))
     \/ Leave(r) /\ ~Pending(x)

\* A handler that is left has neither a grant nor an open runtime.
LEMMA LeftInv ==
  ASSUME NEW r \in Requests, HandlerInv(h[r]), NEW step \in {"listed", "refused", "over"},
         h[r].first # "open", h[r].second # "open"
  PROVE  /\ HandlerInv(Left(r, step)) /\ ~Pending(Left(r, step))
         /\ Left(r, step).grant = None /\ ~Left(r, step).late
         /\ Left(r, step).principal = None
<1>1. /\ Left(r, step).step = step /\ Left(r, step).grant = None /\ Left(r, step).late = FALSE
      /\ Left(r, step).first = h[r].first /\ Left(r, step).second = h[r].second
      /\ Left(r, step).principal = None
      /\ DOMAIN Left(r, step) = DOMAIN NewHandler
  BY DEF Left, NewHandler
<1>. QED  BY <1>1 DEF HandlerInv, Pending, Answered, Steps

LEMMA RefuseAdvances ==
  ASSUME Handlers, NEW r \in Requests, Refuse(r), h[r].step = "queued" => Head(queue) = r,
         h[r].step \notin {"probing", "listing", "matching", "running"}
  PROVE  Advances(r, Left(r, "refused"))
<1>1. h[r].first # "open" /\ h[r].second # "open" /\ HandlerInv(h[r])
  BY DEF Handlers, HandlerInv
<1>2. HandlerInv(Left(r, "refused")) /\ ~Pending(Left(r, "refused")) /\ ~Left(r, "refused").late
      /\ Left(r, "refused").grant = None
  BY <1>1, LeftInv
<1>. QED  BY <1>2 DEF Refuse, Advances

LEMMA LeftAdvances ==
  ASSUME Handlers, NEW r \in Requests, NEW step \in {"listed", "over"},
         h' = [h EXCEPT ![r] = Left(r, step)], queue' = queue, ~Pending(h[r]),
         h[r].step # "queued", h[r].first # "open", h[r].second # "open"
  PROVE  Advances(r, Left(r, step))
<1>1. HandlerInv(Left(r, step)) /\ ~Pending(Left(r, step)) /\ ~Left(r, step).late
      /\ Left(r, step).grant = None
  BY LeftInv DEF Handlers
<1>. QED  BY <1>1 DEF Advances

\* A step that only moves the handler on.
LEMMA MoveAdvances ==
  ASSUME Handlers, NEW r \in Requests, NEW step \in Steps \ {"idle"}, Move(r, step),
         h[r].step = "queued" => Head(queue) = r, h[r].step # "idle",
         h[r].first = "open" => step \in {"probing", "listing"},
         step \in {"disposing", "recording", "starting", "matching", "running", "ending"} => h[r].first = "closed",
         h[r].second = "open" => step \in {"matching", "running"}, ~h[r].late,
         \/ queue' = queue /\ (h[r].kind = "createRun" => (step \in Answered <=> h[r].step \in Answered))
         \/ Leave(r) /\ step \in Answered
  PROVE  Advances(r, [h[r] EXCEPT !.step = step])
<1>. DEFINE x == [h[r] EXCEPT !.step = step]
<1>1. h' = [h EXCEPT ![r] = x]
  BY DEF Move
<1>2. HandlerInv(h[r])
  BY DEF Handlers
<1>3. "step" \in DOMAIN h[r] /\ DOMAIN h[r] = DOMAIN NewHandler
  BY <1>2 DEF HandlerInv, NewHandler
<1>4. /\ x.step = step /\ x.grant = h[r].grant /\ x.late = h[r].late /\ x.kind = h[r].kind
      /\ x.first = h[r].first /\ x.second = h[r].second /\ DOMAIN x = DOMAIN NewHandler
  BY <1>3 DEF NewHandler
<1>5. HandlerInv(x)
  BY <1>2, <1>4 DEF HandlerInv
<1>6. step \in Answered => ~Pending(x)
  BY <1>4 DEF Pending
<1>7. queue' = queue /\ (h[r].kind = "createRun" => (step \in Answered <=> h[r].step \in Answered))
        => (Pending(x) <=> Pending(h[r]))
  BY <1>4 DEF Pending
<1>. QED  BY <1>1, <1>4, <1>5, <1>6, <1>7 DEF Advances

\* Whatever a request does after it came in advances it (Next but the way in).
Working(r) ==
  \/ Begin(r) \/ ResolveGrant(r) \/ EnterWorkspace(r)
  \/ OpenFirst(r) \/ Probe(r) \/ Listed(r) \/ Check(r) \/ Record(r)
  \/ OpenSecond(r) \/ Match(r) \/ Run(r) \/ EndDispose(r)

\* effectiveConfig opens a runtime with what the handler has, or refuses.
LEMMA ConfigureAdvances ==
  ASSUME Handlers, NEW r \in Requests, NEW handler, NEW schema \in BOOLEAN, Configure(r, handler, schema),
         h[r].step \in {"idle", "workspace"}, HandlerInv(handler), handler.step = h[r].step,
         handler.first = h[r].first, handler.second = h[r].second, ~handler.late,
         handler.grant = h[r].grant,
         handler.kind = h[r].kind \/ handler.kind \in Discoveries,
         h[r].step = "idle" => handler.kind \in Discoveries,
         h[r].step = "workspace" => handler.kind = h[r].kind
  PROVE  \E x : Advances(r, x)
<1>. DEFINE effective == EffectiveConfig(layers, handler.ask.scopes)
            x == [handler EXCEPT !.step = "opening", !.config = effective]
<1>1. CASE Refuse(r)
  BY <1>1, RefuseAdvances
<1>2. CASE h' = [h EXCEPT ![r] = x] /\ UNCHANGED queue
  <2>1. DOMAIN handler = DOMAIN NewHandler
    BY DEF HandlerInv
  <2>2. /\ x.step = "opening" /\ x.grant = handler.grant /\ x.late = handler.late /\ x.kind = handler.kind
        /\ x.first = handler.first /\ x.second = handler.second /\ DOMAIN x = DOMAIN NewHandler
    BY <2>1 DEF NewHandler
  <2>3. h[r].first # "open" /\ h[r].second # "open"
    BY DEF Handlers, HandlerInv
  <2>4. HandlerInv(x)
    BY <2>2, <2>3 DEF HandlerInv, Steps
  <2>5. Pending(x) <=> Pending(h[r])
    <3>1. CASE h[r].step = "idle"
      <4>1. ~Pending(h[r])
        BY <3>1 DEF Pending
      <4>2. handler.kind # "createRun"
        BY <3>1 DEF Discoveries
      <4>. QED  BY <2>2, <4>1, <4>2 DEF Pending
    <3>2. CASE h[r].step = "workspace"
      BY <2>2, <3>2 DEF Pending, Answered
    <3>. QED  BY <3>1, <3>2
  <2>. QED  BY <1>2, <2>2, <2>4, <2>5 DEF Advances
<1>. QED  BY <1>1, <1>2 DEF Configure

LEMMA WorkingAdvances ==
  ASSUME Handlers, GrantInv, NEW r \in Requests, Working(r)
  PROVE  \E x : Advances(r, x)
<1>0. HandlerInv(h[r])
  BY DEF Handlers
<1>1. CASE Begin(r)
  <2>. DEFINE late == ~GrantIsValid(h[r].grant)
              x == [h[r] EXCEPT !.step = "session", !.late = late]
  <2>1. h[r].step = "queued" /\ Head(queue) = r
    BY <1>1 DEF Begin
  <2>2. CASE Refuse(r)
    BY <2>1, <2>2, RefuseAdvances
  <2>3. CASE h' = [h EXCEPT ![r] = x] /\ UNCHANGED queue
    <3>1. /\ x.step = "session" /\ x.grant = h[r].grant /\ x.late = late /\ x.kind = h[r].kind
          /\ x.first = h[r].first /\ x.second = h[r].second /\ DOMAIN x = DOMAIN NewHandler
      BY <1>0 DEF HandlerInv, NewHandler
    <3>2. late \in BOOLEAN
      BY DEF GrantIsValid
    <3>3. HandlerInv(x)
      BY <1>0, <2>1, <3>1, <3>2 DEF HandlerInv, Steps
    <3>4. Pending(x) <=> Pending(h[r])
      BY <2>1, <3>1 DEF Pending, Answered
    <3>5. x.late => x.grant = h[r].grant /\ ~GrantIsValid(x.grant)
      BY <3>1
    <3>. QED  BY <2>1, <2>3, <3>1, <3>3, <3>4, <3>5 DEF Advances
  <2>4. Refuse(r) \/ (h' = [h EXCEPT ![r] = x] /\ UNCHANGED queue)
    BY <1>0, <1>1 DEF Begin, HandlerInv, Handlers, NewHandler
  <2>. QED  BY <2>2, <2>3, <2>4
<1>2. CASE ResolveGrant(r)
  <2>1. h[r].step = "session"
    BY <1>2 DEF ResolveGrant
  <2>2. CASE Refuse(r)
    BY <2>1, <2>2, RefuseAdvances
  <2>3. CASE GrantIsValid(h[r].grant) /\ Move(r, "workspace") /\ queue' = queue
    <3>1. ~h[r].late
      BY <2>3 DEF GrantInv
    <3>. QED  BY <1>0, <2>1, <2>3, <3>1, MoveAdvances DEF HandlerInv, Steps, Answered
  <2>. QED  BY <1>2, <2>2, <2>3 DEF ResolveGrant
<1>3. CASE EnterWorkspace(r)
  <2>1. h[r].step = "workspace" /\ ~h[r].late
    BY <1>0, <1>3 DEF EnterWorkspace, HandlerInv
  <2>2. CASE Refuse(r)
    BY <2>1, <2>2, RefuseAdvances
  <2>3. CASE Configure(r, h[r], TRUE)
    BY <1>0, <2>1, <2>3, ConfigureAdvances
  <2>. QED  BY <1>3, <2>2, <2>3 DEF EnterWorkspace
<1>4. CASE OpenFirst(r)
  <2>. DEFINE x == [h[r] EXCEPT !.step = "probing", !.first = "open"]
  <2>1. h[r].step = "opening" /\ ~h[r].late /\ h[r].second # "open"
    BY <1>0, <1>4 DEF OpenFirst, HandlerInv
  <2>2. CASE Refuse(r)
    BY <2>1, <2>2, RefuseAdvances
  <2>3. CASE h' = [h EXCEPT ![r] = x] /\ UNCHANGED queue
    <3>1. /\ x.step = "probing" /\ x.grant = h[r].grant /\ x.late = h[r].late /\ x.kind = h[r].kind
          /\ x.first = "open" /\ x.second = h[r].second /\ DOMAIN x = DOMAIN NewHandler
      BY <1>0 DEF HandlerInv, NewHandler
    <3>2. HandlerInv(x)
      BY <1>0, <2>1, <3>1 DEF HandlerInv, Steps
    <3>3. Pending(x) <=> Pending(h[r])
      BY <2>1, <3>1 DEF Pending, Answered
    <3>. QED  BY <2>1, <2>3, <3>1, <3>2, <3>3 DEF Advances
  <2>4. Refuse(r) \/ (h' = [h EXCEPT ![r] = x] /\ UNCHANGED queue)
    BY <1>0, <1>4 DEF OpenFirst, HandlerInv, Handlers, NewHandler
  <2>. QED  BY <2>2, <2>3, <2>4
<1>5. ASSUME NEW good \in BOOLEAN, DisposeFirst(r, good), queue' = queue, h[r].step \in {"probing", "listing"}
      PROVE  \E x : Advances(r, x)
  <2>. DEFINE x == [h[r] EXCEPT !.step = "disposing", !.passed = good, !.first = "closed"]
  <2>1. /\ x.step = "disposing" /\ x.grant = h[r].grant /\ x.late = h[r].late /\ x.kind = h[r].kind
        /\ x.first = "closed" /\ x.second = h[r].second /\ DOMAIN x = DOMAIN NewHandler
    BY <1>0 DEF HandlerInv, NewHandler
  <2>2. ~h[r].late /\ h[r].second # "open"
    BY <1>0, <1>5 DEF HandlerInv
  <2>3. HandlerInv(x)
    BY <1>0, <2>1, <2>2 DEF HandlerInv, Steps
  <2>4. Pending(x) <=> Pending(h[r])
    BY <1>5, <2>1 DEF Pending, Answered
  <2>5. h' = [h EXCEPT ![r] = x]
    BY <1>0, <1>5 DEF DisposeFirst, HandlerInv, Handlers, NewHandler
  <2>. QED  BY <1>5, <2>1, <2>2, <2>3, <2>4, <2>5 DEF Advances
<1>6. CASE Probe(r)
  <2>1. h[r].step = "probing" /\ queue' = queue /\ ~h[r].late /\ h[r].second # "open"
    BY <1>0, <1>6 DEF Probe, HandlerInv
  <2>2. CASE Move(r, "listing")
    BY <1>0, <2>1, <2>2, MoveAdvances DEF Steps, Answered
  <2>. QED  BY <1>5, <1>6, <2>1, <2>2 DEF Probe
<1>7. CASE Listed(r)
  BY <1>5, <1>7 DEF Listed
<1>8. CASE Check(r)
  <2>1. h[r].step = "disposing" /\ ~h[r].late /\ h[r].second # "open" /\ h[r].first = "closed"
    BY <1>0, <1>8 DEF Check, HandlerInv
  <2>2. CASE Refuse(r)
    BY <2>1, <2>2, RefuseAdvances
  <2>3. CASE h[r].kind \in Discoveries /\ h' = [h EXCEPT ![r] = Left(r, "listed")] /\ queue' = queue
    <3>1. ~Pending(h[r])
      BY <2>3 DEF Pending, Discoveries
    <3>. QED  BY <2>1, <2>3, <3>1, LeftAdvances
  <2>4. CASE h[r].kind = "createRun" /\ Move(r, "recording") /\ queue' = queue
    BY <1>0, <2>1, <2>4, MoveAdvances DEF Steps, Answered
  <2>. QED  BY <1>8, <2>2, <2>3, <2>4 DEF Check
<1>9. CASE Record(r)
  <2>1. h[r].step = "recording" /\ ~h[r].late /\ h[r].second # "open" /\ h[r].first = "closed"
    BY <1>0, <1>9 DEF Record, HandlerInv
  <2>2. CASE Refuse(r)
    BY <2>1, <2>2, RefuseAdvances
  <2>3. CASE Move(r, "starting") /\ Leave(r)
    BY <2>1, <2>3, MoveAdvances DEF Steps, Answered
  <2>. QED  BY <1>9, <2>2, <2>3 DEF Record
<1>10. CASE OpenSecond(r)
  <2>. DEFINE x == [h[r] EXCEPT !.step = "matching", !.second = "open"]
  <2>1. h[r].step = "starting" /\ ~h[r].late /\ h[r].first = "closed" /\ h[r].second # "open" /\ queue' = queue
    BY <1>0, <1>10 DEF OpenSecond, HandlerInv
  <2>2. ~Pending(h[r])
    BY <2>1 DEF Pending, Answered
  <2>3. CASE h' = [h EXCEPT ![r] = Left(r, "over")]
    BY <2>1, <2>2, <2>3, LeftAdvances
  <2>4. CASE h' = [h EXCEPT ![r] = x]
    <3>1. /\ x.step = "matching" /\ x.grant = h[r].grant /\ x.late = h[r].late /\ x.kind = h[r].kind
          /\ x.first = h[r].first /\ x.second = "open" /\ DOMAIN x = DOMAIN NewHandler
      BY <1>0 DEF HandlerInv, NewHandler
    <3>2. HandlerInv(x)
      BY <1>0, <2>1, <3>1 DEF HandlerInv, Steps
    <3>3. Pending(x) <=> Pending(h[r])
      BY <2>1, <3>1 DEF Pending, Answered
    <3>. QED  BY <2>1, <2>4, <3>1, <3>2, <3>3 DEF Advances
  <2>5. h' = [h EXCEPT ![r] = Left(r, "over")] \/ h' = [h EXCEPT ![r] = x]
    BY <1>0, <1>10 DEF OpenSecond, HandlerInv, Handlers, NewHandler
  <2>. QED  BY <2>3, <2>4, <2>5
<1>11. ASSUME EndRun(r), queue' = queue, h[r].step \in {"matching", "running"}
       PROVE  \E x : Advances(r, x)
  <2>. DEFINE x == [h[r] EXCEPT !.step = "ending", !.second = "closed"]
  <2>1. /\ x.step = "ending" /\ x.grant = h[r].grant /\ x.late = h[r].late /\ x.kind = h[r].kind
        /\ x.first = h[r].first /\ x.second = "closed" /\ DOMAIN x = DOMAIN NewHandler
    BY <1>0 DEF HandlerInv, NewHandler
  <2>2. ~h[r].late /\ h[r].first = "closed"
    BY <1>0, <1>11 DEF HandlerInv
  <2>3. HandlerInv(x)
    BY <1>0, <2>1, <2>2 DEF HandlerInv, Steps
  <2>4. Pending(x) <=> Pending(h[r])
    BY <1>11, <2>1 DEF Pending, Answered
  <2>5. h' = [h EXCEPT ![r] = x]
    BY <1>0, <1>11 DEF EndRun, HandlerInv, Handlers, NewHandler
  <2>. QED  BY <1>11, <2>1, <2>2, <2>3, <2>4, <2>5 DEF Advances
<1>12. CASE Match(r)
  <2>1. h[r].step = "matching" /\ queue' = queue /\ ~h[r].late /\ h[r].first = "closed"
    BY <1>0, <1>12 DEF Match, HandlerInv
  <2>2. CASE Move(r, "running")
    BY <1>0, <2>1, <2>2, MoveAdvances DEF Steps, Answered
  <2>. QED  BY <1>11, <1>12, <2>1, <2>2 DEF Match
<1>13. CASE Run(r)
  BY <1>11, <1>13 DEF Run
<1>14. CASE EndDispose(r)
  <2>1. h[r].step = "ending" /\ h[r].second # "open" /\ h[r].first # "open" /\ queue' = queue
    BY <1>0, <1>14 DEF EndDispose, HandlerInv
  <2>2. ~Pending(h[r])
    BY <2>1 DEF Pending, Answered
  <2>. QED  BY <1>14, <2>1, <2>2, LeftAdvances DEF EndDispose
<1>. QED
  BY <1>1, <1>2, <1>3, <1>4, <1>6, <1>7, <1>8, <1>9, <1>10, <1>12, <1>13, <1>14 DEF Working

-----------------------------------------------------------------------------
(* The way in.                                                             *)

LEMMA NewHandlerInv == HandlerInv(NewHandler) /\ ~Pending(NewHandler)
BY DEF HandlerInv, Pending, NewHandler, Steps

LEMMA DiscoverAdvances ==
  ASSUME Handlers, NEW r \in Requests, NEW credentials, NEW kind \in Discoveries,
         Discover(r, credentials, kind)
  PROVE  \E x : Advances(r, x)
<1>. DEFINE handler == [h[r] EXCEPT !.principal = Principal(credentials), !.kind = kind]
            handed == [NewHandler EXCEPT !.principal = Principal(credentials), !.kind = kind, !.step = "opening"]
<1>1. h[r] = NewHandler /\ h[r].step = "idle"
  BY DEF Discover, Handlers, HandlerInv
<1>2. CASE Refuse(r)
  BY <1>1, <1>2, RefuseAdvances
<1>3. ASSUME NEW x, h' = [h EXCEPT ![r] = x], queue' = queue,
             x = [handler EXCEPT !.step = "opening",
                                 !.config = EffectiveConfig(layers, handler.ask.scopes)]
      PROVE  Advances(r, x)
  <2>1. DOMAIN handler = DOMAIN NewHandler
    BY <1>1 DEF NewHandler
  <2>2. /\ x.step = "opening" /\ x.grant = None /\ x.late = FALSE /\ x.kind = kind
        /\ x.first = "none" /\ x.second = "none" /\ DOMAIN x = DOMAIN NewHandler
    BY <1>1, <1>3, <2>1 DEF NewHandler
  <2>3. HandlerInv(x)
    BY <2>2 DEF HandlerInv, Steps
  <2>4. ~Pending(x) /\ ~Pending(h[r])
    BY <1>1, <2>2, NewHandlerInv DEF Pending, Discoveries
  <2>. QED  BY <1>1, <1>3, <2>2, <2>3, <2>4 DEF Advances
<1>. QED  BY <1>2, <1>3 DEF Discover, Configure

\* What CreateRun makes of a new handler.
LEMMA CreateRunEffect ==
  ASSUME Handlers, NEW r \in Requests, NEW credentials, NEW a, NEW g \in GrantIds \cup {None},
         CreateRun(r, credentials, a, g)
  PROVE  \E x : /\ h' = [h EXCEPT ![r] = x] /\ HandlerInv(x) /\ x.grant = g /\ ~x.late
                /\ Pending(x) /\ x.step = "queued" /\ ~Pending(h[r])
                /\ queue' = Append(queue, r)
<1>1. h[r] = NewHandler /\ h[r].step = "idle"
  BY DEF CreateRun, Handlers, HandlerInv
<1>. DEFINE x == [NewHandler EXCEPT !.step = "queued", !.principal = Principal(credentials),
                                    !.ask = a, !.grant = g]
<1>2. /\ x.step = "queued" /\ x.grant = g /\ x.late = FALSE /\ x.kind = "createRun"
      /\ x.first = "none" /\ x.second = "none" /\ DOMAIN x = DOMAIN NewHandler
  BY DEF NewHandler
<1>3. HandlerInv(x) /\ Pending(x)
  BY <1>2 DEF HandlerInv, Pending, Steps, Answered
<1>4. h' = [h EXCEPT ![r] = x]
  BY <1>1 DEF CreateRun
<1>. QED  BY <1>1, <1>2, <1>3, <1>4, NewHandlerInv DEF CreateRun

-----------------------------------------------------------------------------
(* Each part of the invariant is preserved.                                *)

LEMMA HandlersStep ==
  ASSUME Handlers, NEW r \in Requests, NEW x, h' = [h EXCEPT ![r] = x], HandlerInv(x)
  PROVE  Handlers' /\ h'[r] = x /\ \A q \in Requests \ {r} : h'[q] = h[q]
<1>1. h'[r] = x /\ \A q \in Requests \ {r} : h'[q] = h[q]
  BY DEF Handlers
<1>2. h' = [q \in Requests |-> h'[q]]
  BY DEF Handlers
<1>3. \A q \in Requests : HandlerInv(h'[q])
  BY <1>1 DEF Handlers
<1>. QED  BY <1>1, <1>2, <1>3 DEF Handlers, HandlerInv, NewHandler, NoAsk

\* The first of the queue goes on or leaves it; others do not move.
LEMMA AdvancesQueue ==
  ASSUME Handlers, QueueInv, NEW r \in Requests, NEW x, Advances(r, x)
  PROVE  QueueInv'
<1>1. h'[r] = x /\ \A q \in Requests \ {r} : h'[q] = h[q]
  BY HandlersStep DEF Advances
<1>2. queue \in Seq(Requests) /\ Len(queue) \in Nat /\ \A i \in 1..Len(queue) : queue[i] \in Requests
  BY DEF QueueInv
<1>3. ASSUME NEW i \in 1..Len(queue), queue[i] = r  PROVE i = 1 /\ queue # <<>> /\ Head(queue) = r
  <2>1. queue # <<>> /\ Head(queue) = queue[1] /\ 1 \in 1..Len(queue)
    BY <1>2
  <2>2. CASE i > 1
    <3>1. h[r].step = "queued"
      BY <1>3, <2>2 DEF QueueInv
    <3>2. queue[1] = r
      BY <2>1, <3>1 DEF Advances
    <3>. QED  BY <1>3, <2>1, <2>2, <3>2 DEF QueueInv
  <2>3. CASE ~(i > 1)
    BY <1>2, <1>3, <2>1, <2>3
  <2>. QED  BY <2>2, <2>3
<1>4. CASE queue' = queue /\ (Pending(x) <=> Pending(h[r]))
  <2>1. ASSUME NEW i \in 1..Len(queue)
        PROVE  Pending(h'[queue[i]]) /\ (i > 1 => h'[queue[i]].step = "queued")
    <3>1. CASE queue[i] = r
      BY <1>1, <1>3, <1>4, <3>1 DEF QueueInv
    <3>2. CASE queue[i] # r
      BY <1>1, <1>2, <3>2 DEF QueueInv
    <3>. QED  BY <3>1, <3>2
  <2>2. ASSUME NEW q \in Requests, Pending(h'[q])
        PROVE  \E i \in 1..Len(queue) : queue[i] = q
    <3>1. CASE q = r
      BY <1>1, <1>4, <2>2, <3>1 DEF QueueInv
    <3>2. CASE q # r
      BY <1>1, <2>2, <3>2 DEF QueueInv
    <3>. QED  BY <3>1, <3>2
  <2>. QED  BY <1>4, <2>1, <2>2 DEF QueueInv, Pending
<1>5. CASE Leave(r) /\ ~Pending(x)
  <2>1. CASE queue # <<>> /\ Head(queue) = r
    <3>1. /\ queue' = Tail(queue) /\ queue' \in Seq(Requests) /\ Len(queue') = Len(queue) - 1
          /\ \A i \in 1..Len(queue') : queue'[i] = queue[i + 1] /\ i + 1 \in 1..Len(queue)
      BY <1>2, <1>5, <2>1 DEF Leave
    <3>2. \A i \in 1..Len(queue') : queue'[i] # r
      BY <1>3, <3>1
    <3>3. \A i, j \in 1..Len(queue') : queue'[i] = queue'[j] => i = j
      BY <1>2, <3>1 DEF QueueInv
    <3>4. ASSUME NEW i \in 1..Len(queue')
          PROVE  Pending(h'[queue'[i]]) /\ h'[queue'[i]].step = "queued"
      <4>1. queue'[i] \in Requests \ {r} /\ queue'[i] = queue[i + 1] /\ i + 1 > 1 /\ i + 1 \in 1..Len(queue)
        BY <1>2, <3>1, <3>2
      <4>2. Pending(h[queue[i + 1]]) /\ h[queue[i + 1]].step = "queued"
        BY <4>1 DEF QueueInv
      <4>. QED  BY <1>1, <4>1, <4>2
    <3>5. ASSUME NEW q \in Requests, Pending(h'[q])
          PROVE  \E i \in 1..Len(queue') : queue'[i] = q
      <4>1. q # r /\ Pending(h[q])
        BY <1>1, <1>5, <3>5
      <4>2. PICK i \in 1..Len(queue) : queue[i] = q
        BY <4>1 DEF QueueInv
      <4>3. i # 1
        BY <2>1, <4>1, <4>2, <1>2
      <4>4. i - 1 \in 1..Len(queue') /\ queue'[i - 1] = q
        BY <1>2, <3>1, <4>2, <4>3
      <4>. QED  BY <4>4
    <3>. QED  BY <3>1, <3>3, <3>4, <3>5 DEF QueueInv, Pending
  <2>2. CASE ~(queue # <<>> /\ Head(queue) = r)
    <3>1. queue' = queue /\ \A i \in 1..Len(queue) : queue[i] # r
      BY <1>3, <1>5, <2>2 DEF Leave
    <3>2. ASSUME NEW i \in 1..Len(queue)
          PROVE  Pending(h'[queue[i]]) /\ (i > 1 => h'[queue[i]].step = "queued")
      BY <1>1, <1>2, <3>1 DEF QueueInv
    <3>3. ASSUME NEW q \in Requests, Pending(h'[q])
          PROVE  \E i \in 1..Len(queue) : queue[i] = q
      BY <1>1, <1>5, <3>3 DEF QueueInv
    <3>. QED  BY <3>1, <3>2, <3>3 DEF QueueInv, Pending
  <2>. QED  BY <2>1, <2>2
<1>. QED  BY <1>4, <1>5 DEF Advances

\* A createRun comes in at the end of the queue, in which it is not yet.
LEMMA CreateRunQueue ==
  ASSUME Handlers, QueueInv, NEW r \in Requests, NEW x, h' = [h EXCEPT ![r] = x], HandlerInv(x),
         Pending(x), x.step = "queued", ~Pending(h[r]), queue' = Append(queue, r)
  PROVE  QueueInv'
<1>1. h'[r] = x /\ \A q \in Requests \ {r} : h'[q] = h[q]
  BY HandlersStep
<1>2. /\ queue \in Seq(Requests) /\ Len(queue) \in Nat /\ \A i \in 1..Len(queue) : queue[i] \in Requests
      /\ queue' \in Seq(Requests) /\ Len(queue') = Len(queue) + 1
      /\ \A i \in 1..Len(queue) : queue'[i] = queue[i]
      /\ queue'[Len(queue) + 1] = r
  BY DEF QueueInv
<1>3. \A i \in 1..Len(queue) : queue[i] # r
  BY DEF QueueInv
<1>4. ASSUME NEW i \in 1..Len(queue'), NEW j \in 1..Len(queue'), queue'[i] = queue'[j]
      PROVE  i = j
  <2>1. CASE i = Len(queue) + 1 \/ j = Len(queue) + 1
    BY <1>2, <1>3, <1>4, <2>1
  <2>2. CASE i \in 1..Len(queue) /\ j \in 1..Len(queue)
    BY <1>2, <1>4, <2>2 DEF QueueInv
  <2>. QED  BY <1>2, <2>1, <2>2
<1>5. ASSUME NEW i \in 1..Len(queue')
      PROVE  Pending(h'[queue'[i]]) /\ (i > 1 => h'[queue'[i]].step = "queued")
  <2>1. CASE i = Len(queue) + 1
    BY <1>1, <1>2, <2>1
  <2>2. CASE i \in 1..Len(queue)
    <3>1. queue'[i] \in Requests \ {r} /\ queue'[i] = queue[i]
      BY <1>2, <1>3, <2>2
    <3>. QED  BY <1>1, <2>2, <3>1 DEF QueueInv
  <2>. QED  BY <1>2, <2>1, <2>2
<1>6. ASSUME NEW q \in Requests, Pending(h'[q])
      PROVE  \E i \in 1..Len(queue') : queue'[i] = q
  <2>1. CASE q = r
    <3>1. Len(queue) + 1 \in 1..Len(queue')
      BY <1>2
    <3>. QED  BY <1>2, <2>1, <3>1
  <2>2. CASE q # r
    <3>1. PICK i \in 1..Len(queue) : queue[i] = q
      BY <1>1, <1>6, <2>2 DEF QueueInv
    <3>2. i \in 1..Len(queue') /\ queue'[i] = q
      BY <1>2, <3>1
    <3>. QED  BY <3>2
  <2>. QED  BY <2>1, <2>2
<1>. QED  BY <1>2, <1>4, <1>5, <1>6 DEF QueueInv, Pending

\* A step that ends grants, or none, and lets one request go on.
LEMMA GrantStep ==
  ASSUME Handlers, GrantInv, NEW r \in Requests, NEW x, h' = [h EXCEPT ![r] = x], HandlerInv(x),
         \/ /\ x.grant \in {None, h[r].grant}
            /\ x.late => x.grant = h[r].grant /\ ~GrantIsValid(x.grant)
         \/ /\ x.grant # None => grants[x.grant] # None \/ x.grant \in ended
            /\ ~x.late,
         \A q \in GrantIds :
           /\ grants[q] # None \/ q \in ended => grants'[q] # None \/ q \in ended'
           /\ ~GrantIsValid(q) => ~GrantIsValid(q)'
  PROVE  GrantInv'
<1>1. h'[r] = x /\ \A q \in Requests \ {r} : h'[q] = h[q]
  BY HandlersStep
<1>2. \A q \in Requests : h[q].grant \in GrantIds \cup {None} /\ x.grant \in GrantIds \cup {None}
  BY DEF Handlers, HandlerInv
<1>3. ASSUME NEW q \in Requests
      PROVE  h'[q].grant # None => grants'[h'[q].grant] # None \/ h'[q].grant \in ended'
  <2>1. h'[q].grant # None => grants[h'[q].grant] # None \/ h'[q].grant \in ended
    BY <1>1 DEF GrantInv
  <2>2. h'[q].grant \in GrantIds \cup {None}
    BY <1>1, <1>2
  <2>. QED  BY <2>1, <2>2
<1>4. ASSUME NEW q \in Requests, h'[q].late
      PROVE  ~GrantIsValid(h[q].grant)'
  <2>1. ~GrantIsValid(h'[q].grant)
    BY <1>1, <1>4 DEF GrantInv
  <2>2. h'[q].grant \in GrantIds \cup {None}
    BY <1>1, <1>2
  <2>3. CASE h'[q].grant = None
    BY <2>3 DEF GrantIsValid
  <2>4. CASE h'[q].grant \in GrantIds
    BY <2>1, <2>4 DEF GrantIsValid
  <2>. QED  BY <2>2, <2>3, <2>4
<1>. QED  BY <1>3, <1>4 DEF GrantInv

-----------------------------------------------------------------------------
(* The inductive invariant holds.                                          *)

LEMMA InitInvariant == Init => IInv
<1>. SUFFICES ASSUME Init PROVE IInv
  OBVIOUS
<1>1. AccessTypeOK /\ BindingInv /\ IssuingInv
  BY AccessAssumption DEF Init, AccessInit, AccessTypeOK, BindingInv, IssuingInv
<1>2. h = [r \in Requests |-> NewHandler]
  BY DEF Init
<1>3. \A r \in Requests : h[r] = NewHandler
  BY <1>2
<1>4. Handlers
  BY <1>2, <1>3, NewHandlerInv DEF Handlers
<1>5. GrantInv
  BY <1>3 DEF GrantInv, NewHandler
<1>6. queue = <<>> /\ queue \in Seq(Requests) /\ Len(queue) = 0
  BY DEF Init
<1>7. QueueInv
  BY <1>3, <1>6, NewHandlerInv DEF QueueInv
<1>. QED  BY <1>1, <1>4, <1>5, <1>7 DEF IInv

LEMMA StepInvariant == IInv /\ [Next]_vars => IInv'
<1>. SUFFICES ASSUME IInv, [Next]_vars PROVE IInv'
  OBVIOUS
<1>. USE DEF IInv
<1>1. CASE UNCHANGED vars
  BY <1>1 DEF vars, access, AccessTypeOK, BindingInv, TokenExpiresAt, IssuingInv, Handlers, HandlerInv,
              GrantInv, GrantIsValid, QueueInv, Pending, NewHandler, NoAsk
<1>2. CASE AccessNext /\ UNCHANGED <<layers, adapter, queue, h>>
  <2>1. AccessTypeOK' /\ BindingInv' /\ IssuingInv'
    BY <1>2, AccessTypeStep, BindingStep, IssuingStep
  <2>2. Handlers' /\ QueueInv'
    BY <1>2 DEF Handlers, HandlerInv, QueueInv, Pending, NewHandler, NoAsk
  <2>3. ASSUME NEW r \in Requests
        PROVE  /\ h'[r].grant # None => grants'[h'[r].grant] # None \/ h'[r].grant \in ended'
               /\ h'[r].late => ~GrantIsValid(h[r].grant)'
    <3>1. h'[r] = h[r] /\ h[r].grant \in GrantIds \cup {None}
      BY <1>2 DEF Handlers, HandlerInv
    <3>2. CASE h[r].grant = None
      BY <3>1, <3>2 DEF GrantIsValid
    <3>3. CASE h[r].grant # None
      <4>1. h[r].grant \in GrantIds /\ (grants[h[r].grant] # None \/ h[r].grant \in ended)
        BY <3>1, <3>3 DEF GrantInv
      <4>2. \A q \in GrantIds :
              grants[q] # None \/ q \in ended =>
                /\ grants'[q] # None \/ q \in ended'
                /\ ~GrantIsValid(q) => ~GrantIsValid(q)'
        BY <1>2, EndedStaysEnded
      <4>3. h[r].late => ~GrantIsValid(h[r].grant)
        BY DEF GrantInv
      <4>4. grants'[h[r].grant] # None \/ h[r].grant \in ended'
        BY <4>1, <4>2
      <4>5. ASSUME h[r].late PROVE ~GrantIsValid(h[r].grant)'
        BY <3>1, <4>1, <4>2, <4>3, <4>5 DEF GrantIsValid
      <4>. QED  BY <3>1, <4>4, <4>5
    <3>. QED  BY <3>2, <3>3
  <2>. QED  BY <2>1, <2>2, <2>3 DEF GrantInv
<1>3. ASSUME UNCHANGED access
      PROVE  /\ AccessTypeOK' /\ BindingInv' /\ IssuingInv'
             /\ \A q \in GrantIds :
                  /\ grants[q] # None \/ q \in ended => grants'[q] # None \/ q \in ended'
                  /\ ~GrantIsValid(q) => ~GrantIsValid(q)'
  BY <1>3 DEF access, AccessTypeOK, BindingInv, TokenExpiresAt, IssuingInv, GrantIsValid
<1>4. ASSUME NEW r \in Requests, NEW x, Advances(r, x), AccessTypeOK', BindingInv', IssuingInv',
             \A q \in GrantIds :
               /\ grants[q] # None \/ q \in ended => grants'[q] # None \/ q \in ended'
               /\ ~GrantIsValid(q) => ~GrantIsValid(q)'
      PROVE  IInv'
  <2>1. Handlers'
    BY <1>4, HandlersStep DEF Advances
  <2>2. GrantInv'
    BY <1>4, GrantStep DEF Advances
  <2>3. QueueInv'
    BY <1>4, AdvancesQueue
  <2>. QED  BY <1>4, <2>1, <2>2, <2>3
<1>5. ASSUME NEW r \in Requests, NEW c \in Credential, NEW a \in Asks, NEW g \in GrantIds \cup {None},
             CreateRun(r, c, a, g)
      PROVE  IInv'
  <2>1. PICK x : /\ h' = [h EXCEPT ![r] = x] /\ HandlerInv(x) /\ x.grant = g /\ ~x.late
                 /\ Pending(x) /\ x.step = "queued" /\ ~Pending(h[r])
                 /\ queue' = Append(queue, r)
    BY <1>5, CreateRunEffect
  <2>2. UNCHANGED access /\ (g # None => grants[g] # None \/ g \in ended)
    BY <1>5 DEF CreateRun
  <2>3. Handlers'
    BY <2>1, HandlersStep
  <2>4. GrantInv'
    BY <1>3, <2>1, <2>2, GrantStep
  <2>5. QueueInv'
    BY <2>1, CreateRunQueue
  <2>. QED  BY <1>3, <2>2, <2>3, <2>4, <2>5
<1>6. ASSUME NEW r \in Requests, NEW c \in Credential, NEW kind \in Discoveries, Discover(r, c, kind)
      PROVE  IInv'
  <2>1. PICK x : Advances(r, x)
    BY <1>6, DiscoverAdvances
  <2>2. UNCHANGED access
    BY <1>6 DEF Discover
  <2>. QED  BY <1>3, <1>4, <2>1, <2>2
<1>7. ASSUME NEW r \in Requests, Working(r)
      PROVE  IInv'
  <2>1. PICK x : Advances(r, x)
    BY <1>7, WorkingAdvances
  <2>2. CASE ResolveGrant(r)
    <3>1. /\ UNCHANGED <<now, bindings, spent, sessions, issuing>>
          /\ UNCHANGED <<grants, ended>> \/ Forget(h[r].grant)
      BY <2>2 DEF ResolveGrant
    <3>2. CASE UNCHANGED <<grants, ended>>
      BY <1>3, <1>4, <2>1, <3>1, <3>2 DEF access
    <3>3. CASE Forget(h[r].grant)
      <4>1. h[r].grant \in GrantIds \cup {None}
        BY DEF Handlers, HandlerInv
      <4>. QED  BY <1>4, <2>1, <3>1, <3>3, <4>1, ForgetStep
    <3>. QED  BY <3>1, <3>2, <3>3
  <2>3. CASE ~ResolveGrant(r)
    <3>1. UNCHANGED access
      BY <1>7, <2>3 DEF Working, Begin, EnterWorkspace, OpenFirst, Probe, Listed, Check, Record, OpenSecond,
                       Match, Run, EndDispose
    <3>. QED  BY <1>3, <1>4, <2>1, <3>1
  <2>. QED  BY <2>2, <2>3
<1>. QED  BY <1>1, <1>2, <1>5, <1>6, <1>7 DEF Next, Working

\* The invariant holds throughout.
THEOREM InvariantThm == Spec => []IInv
BY InitInvariant, StepInvariant, PTL DEF Spec

-----------------------------------------------------------------------------
(* What follows from it.                                                   *)

\* The types of the bindings, the sessions and the grants (auth.ts,
\* workspace-grants.ts).
THEOREM AccessTypeThm == Spec => []AccessTypeOK
<1>1. IInv => AccessTypeOK
  BY DEF IInv
<1>. QED  BY <1>1, InvariantThm, PTL

\* However long a request waits for its turn, a grant that ended meanwhile, by a
\* revocation or with time, admits no run (createRun, WorkspaceGrantRegistry.resolve).
THEOREM GrantThm == Spec => []EndedGrantAdmitsNoRun
<1>1. IInv => EndedGrantAdmitsNoRun
  BY DEF IInv, Handlers, HandlerInv, EndedGrantAdmitsNoRun
<1>. QED  BY <1>1, InvariantThm, PTL

\* No runtime of an adapter is left without a dispose, whatever fails on the way
\* (#withRuntime, createManagedAdapterRun).
THEOREM DisposeThm == Spec => []RuntimesAreDisposed
<1>1. IInv => RuntimesAreDisposed
  BY DEF IInv, Handlers, HandlerInv, RuntimesAreDisposed
<1>. QED  BY <1>1, InvariantThm, PTL

\* The queue of createRun is what has no answer yet, and only its first has begun
\* (#serializeCreate).
THEOREM TurnsThm == Spec => []TurnsAreTaken
<1>1. IInv => TurnsAreTaken
  <2>. SUFFICES ASSUME IInv PROVE TurnsAreTaken
    OBVIOUS
  <2>1. QueueInv /\ Len(queue) \in Nat /\ DOMAIN queue = 1..Len(queue)
    BY DEF IInv, QueueInv
  <2>2. ASSUME NEW r \in Requests
        PROVE  Pending(h[r]) <=> \E i \in DOMAIN queue : queue[i] = r
    BY <2>1 DEF QueueInv
  <2>3. \A i \in DOMAIN queue : i > 1 => h[queue[i]].step = "queued"
    BY <2>1 DEF QueueInv
  <2>. QED  BY <2>2, <2>3 DEF TurnsAreTaken, Pending
<1>. QED  BY <1>1, InvariantThm, PTL

\* Nobody gets past the middleware without the token or a session that still lasts
\* and came from a binding of the page's origin, which was exchanged once (authenticate).
THEOREM AccessThm == Spec => AccessIsBound
<1>. DEFINE Bound(r) ==
       h[r].step = "idle" /\ h'[r].principal # None =>
         /\ now < TokenExpiresAt
         /\ h'[r].principal \in Origins =>
              \E s \in SessionIds :
                /\ sessions[s] # None /\ sessions[s].origin = h'[r].principal /\ sessions[s].binding \in spent
                /\ now < sessions[s].expiresAt
                /\ \A t \in SessionIds \ {s} : sessions[t] # None => sessions[t].binding # sessions[s].binding
<1>1. ASSUME IInv, NEW r \in Requests, NEW c \in Credential, Principal(c) # None
      PROVE  /\ now < TokenExpiresAt
             /\ Principal(c) \in Origins =>
                  \E s \in SessionIds :
                    /\ sessions[s] # None /\ sessions[s].origin = Principal(c) /\ sessions[s].binding \in spent
                    /\ now < sessions[s].expiresAt
                    /\ \A t \in SessionIds \ {s} : sessions[t] # None => sessions[t].binding # sessions[s].binding
  <2>1. CASE BearerMatches(c)
    BY <1>1, <2>1, AccessAssumption DEF Principal, BearerMatches
  <2>2. CASE ~BearerMatches(c)
    <3>1. /\ c.session \in SessionIds /\ sessions[c.session] # None
          /\ now < sessions[c.session].expiresAt /\ sessions[c.session].origin = Principal(c)
      BY <1>1, <2>2 DEF Principal, Credential
    <3>2. /\ sessions[c.session].binding \in spent /\ sessions[c.session].expiresAt <= TokenExpiresAt
          /\ \A t \in SessionIds \ {c.session} :
               sessions[t] # None => sessions[t].binding # sessions[c.session].binding
      BY <1>1, <3>1 DEF IInv, BindingInv
    <3>3. now \in Nat /\ sessions[c.session].expiresAt \in Nat /\ TokenExpiresAt \in Nat
      BY <1>1, <3>1, AccessAssumption DEF IInv, AccessTypeOK, TokenExpiresAt
    <3>. QED  BY <3>1, <3>2, <3>3
  <2>. QED  BY <2>1, <2>2
<1>2. IInv /\ [Next]_vars => [\A r \in Requests : Bound(r)]_vars
  <2>. SUFFICES ASSUME IInv, Next, NEW r \in Requests PROVE Bound(r)
    OBVIOUS
  <2>1. h[r].step = "idle" => h[r].principal = None
    BY DEF IInv, Handlers, HandlerInv, NewHandler
  <2>2. CASE AccessNext /\ UNCHANGED <<layers, adapter, queue, h>>
    BY <2>1, <2>2
  <2>3. ASSUME NEW q \in Requests, NEW c \in Credential, NEW a \in Asks, NEW g \in GrantIds \cup {None},
               CreateRun(q, c, a, g)
        PROVE  Bound(r)
    <3>1. CASE q = r
      <4>1. h'[r].principal = Principal(c) /\ Principal(c) # None
        BY <2>3, <3>1 DEF CreateRun, IInv, Handlers, HandlerInv, NewHandler
      <4>. QED  BY <1>1, <4>1
    <3>2. CASE q # r
      <4>1. h'[r] = h[r]
        BY <2>3, <3>2 DEF CreateRun, IInv, Handlers
      <4>. QED  BY <2>1, <4>1
    <3>. QED  BY <3>1, <3>2
  <2>4. ASSUME NEW q \in Requests, NEW c \in Credential, NEW kind \in Discoveries, Discover(q, c, kind)
        PROVE  Bound(r)
    <3>1. CASE q = r
      <4>0. h[r] = NewHandler /\ h = [p \in Requests |-> h[p]] /\ Principal(c) # None
        BY <2>4, <3>1 DEF Discover, IInv, Handlers, HandlerInv
      <4>1. h'[r].principal \in {None, Principal(c)}
        <5>1. ASSUME NEW x, h' = [h EXCEPT ![r] = x]  PROVE h'[r] = x
          BY <4>0, <5>1
        <5>2. CASE Refuse(r)
          <6>1. Left(r, "refused").principal = None
            BY DEF Left, NewHandler
          <6>. QED  BY <5>1, <5>2, <6>1 DEF Refuse
        <5>3. ASSUME NEW config,
                     h' = [h EXCEPT ![r] = [[h[r] EXCEPT !.principal = Principal(c), !.kind = kind]
                                              EXCEPT !.step = "opening", !.config = config]]
              PROVE  h'[r].principal = Principal(c)
          <6>1. h'[r] = [[NewHandler EXCEPT !.principal = Principal(c), !.kind = kind]
                           EXCEPT !.step = "opening", !.config = config]
            BY <4>0, <5>1, <5>3
          <6>. QED  BY <6>1 DEF NewHandler
        <5>. QED  BY <2>4, <3>1, <5>2, <5>3 DEF Discover, Configure
      <4>. QED  BY <1>1, <4>0, <4>1
    <3>2. CASE q # r
      <4>1. h'[r] = h[r]
        BY <2>4, <3>2 DEF Discover, Configure, Refuse, IInv, Handlers
      <4>. QED  BY <2>1, <4>1
    <3>. QED  BY <3>1, <3>2
  <2>5. ASSUME NEW q \in Requests, Working(q)
        PROVE  Bound(r)
    <3>1. h[q].step # "idle"
      BY <2>5 DEF Working, Begin, ResolveGrant, EnterWorkspace, OpenFirst, Probe, Listed, Check, Record,
                  OpenSecond, Match, Run, EndDispose
    <3>2. PICK x : Advances(q, x)
      BY <2>5, WorkingAdvances DEF IInv
    <3>3. q # r => h'[r] = h[r]
      BY <3>2 DEF Advances, IInv, Handlers
    <3>. QED  BY <2>1, <3>1, <3>3
  <2>. QED  BY <2>2, <2>3, <2>4, <2>5 DEF Next, Working
<1>. QED  BY <1>2, InvariantThm, PTL DEF Spec, AccessIsBound

-----------------------------------------------------------------------------
(* The configuration that runtimes are opened with.                        *)

\* The steps of a handler from when it has its configuration until it is left.
Configured == {"opening", "probing", "listing", "disposing", "recording", "starting", "matching", "running",
               "ending"}

\* A handler goes on with what the layers give for the scopes it asked for: the
\* layers stay what the runtime was started with, and the answer to what it asked.
ConfigInv ==
  /\ layers \in LayerChoices
  /\ \A r \in Requests :
       /\ h[r].ask.scopes \in SUBSET ConfigScopes
       /\ h[r].step \in Configured =>
            h[r].config.ok /\ h[r].config = EffectiveConfig(layers, h[r].ask.scopes)

\* The handler is left or not configured yet, keeps its configuration, or gets the
\* one of its scopes; the first runtime is opened only by one that is opening it.
Keeps(r, x) ==
  /\ h' = [h EXCEPT ![r] = x]
  /\ x.first = "open" => h[r].first = "open" \/ h[r].step = "opening"
  /\ \/ x.step \notin Configured /\ x.ask.scopes \in SUBSET ConfigScopes
     \/ /\ x.ask = h[r].ask
        /\ \/ x.config = h[r].config /\ h[r].step \in Configured
           \/ x.config.ok /\ x.config = EffectiveConfig(layers, x.ask.scopes)

\* What a handler that is left keeps.
LEMMA LeftKeeps ==
  ASSUME NEW r \in Requests, NEW step \in Steps \ Configured, h' = [h EXCEPT ![r] = Left(r, step)]
  PROVE  Keeps(r, Left(r, step))
<1>1. /\ Left(r, step).step = step /\ Left(r, step).ask = NoAsk /\ Left(r, step).first = h[r].first
      /\ NoAsk.scopes = {}
  BY DEF Left, NewHandler, NoAsk
<1>. QED  BY <1>1 DEF Keeps

\* A refused request is left.
LEMMA RefuseKeeps ==
  ASSUME NEW r \in Requests, Refuse(r)
  PROVE  \E x : Keeps(r, x)
BY LeftKeeps DEF Refuse, Configured, Steps

\* A step that changes neither what was asked nor the configuration.
LEMMA OnwardKeeps ==
  ASSUME Handlers, ConfigInv, NEW r \in Requests, NEW x, h' = [h EXCEPT ![r] = x],
         x.ask = h[r].ask, x.config = h[r].config,
         x.first = "open" => h[r].first = "open" \/ h[r].step = "opening",
         x.step \in Configured => h[r].step \in Configured
  PROVE  Keeps(r, x)
BY DEF Keeps, ConfigInv

\* A step that only moves the handler on.
LEMMA MoveKeeps ==
  ASSUME Handlers, ConfigInv, NEW r \in Requests, NEW step \in Steps, Move(r, step),
         step \in Configured => h[r].step \in Configured
  PROVE  \E x : Keeps(r, x)
<1>. DEFINE x == [h[r] EXCEPT !.step = step]
<1>1. h' = [h EXCEPT ![r] = x]
  BY DEF Move
<1>2. DOMAIN h[r] = DOMAIN NewHandler
  BY DEF Handlers, HandlerInv
<1>3. x.step = step /\ x.ask = h[r].ask /\ x.config = h[r].config /\ x.first = h[r].first
  BY <1>2 DEF NewHandler
<1>. HIDE DEF x
<1>. QED  BY <1>1, <1>3, OnwardKeeps

\* effectiveConfig is what the layers give for the scopes of the request.
LEMMA ConfigureKeeps ==
  ASSUME Handlers, NEW r \in Requests, NEW handler, NEW schema \in BOOLEAN, Configure(r, handler, schema),
         DOMAIN handler = DOMAIN NewHandler, handler.ask = h[r].ask, handler.first = h[r].first
  PROVE  \E x : Keeps(r, x)
<1>. DEFINE effective == EffectiveConfig(layers, handler.ask.scopes)
            x == [handler EXCEPT !.step = "opening", !.config = effective]
<1>1. CASE Refuse(r)
  BY <1>1, RefuseKeeps
<1>2. CASE h' = [h EXCEPT ![r] = x] /\ effective.ok
  <2>1. x.ask = h[r].ask /\ x.config = effective /\ x.first = h[r].first
    BY DEF NewHandler
  <2>2. x.config = EffectiveConfig(layers, x.ask.scopes)
    BY <2>1
  <2>. HIDE DEF x, effective
  <2>3. Keeps(r, x)
    BY <1>2, <2>1, <2>2 DEF Keeps
  <2>. QED  BY <2>3
<1>. QED  BY <1>1, <1>2 DEF Configure

\* Whatever a request does after it came in.
LEMMA WorkingKeeps ==
  ASSUME Handlers, ConfigInv, NEW r \in Requests, Working(r)
  PROVE  \E x : Keeps(r, x)
<1>. DEFINE Fields(x) == x.ask = h[r].ask /\ x.config = h[r].config
<1>0. HandlerInv(h[r]) /\ DOMAIN h[r] = DOMAIN NewHandler /\ h = [q \in Requests |-> h[q]]
  BY DEF Handlers, HandlerInv
<1>1. CASE Begin(r)
  <2>. DEFINE x == [h[r] EXCEPT !.step = "session", !.late = ~GrantIsValid(h[r].grant)]
  <2>1. x.step = "session" /\ Fields(x) /\ x.first = h[r].first
    BY <1>0 DEF NewHandler
  <2>2. Refuse(r) \/ h' = [h EXCEPT ![r] = x]
    BY <1>0, <1>1 DEF Begin, NewHandler
  <2>. HIDE DEF x
  <2>. QED  BY <2>1, <2>2, RefuseKeeps, OnwardKeeps DEF Configured
<1>2. CASE ResolveGrant(r)
  <2>1. Refuse(r) \/ Move(r, "workspace")
    BY <1>2 DEF ResolveGrant
  <2>. QED  BY <2>1, RefuseKeeps, MoveKeeps DEF Configured, Steps
<1>3. CASE EnterWorkspace(r)
  <2>1. Configure(r, h[r], TRUE) \/ Refuse(r)
    BY <1>3 DEF EnterWorkspace
  <2>. QED  BY <1>0, <2>1, RefuseKeeps, ConfigureKeeps
<1>4. CASE OpenFirst(r)
  <2>. DEFINE x == [h[r] EXCEPT !.step = "probing", !.first = "open"]
  <2>1. h[r].step = "opening" /\ (Refuse(r) \/ h' = [h EXCEPT ![r] = x])
    BY <1>0, <1>4 DEF OpenFirst, NewHandler
  <2>2. Fields(x)
    BY <1>0 DEF NewHandler
  <2>. HIDE DEF x
  <2>. QED  BY <2>1, <2>2, RefuseKeeps, OnwardKeeps DEF Configured
<1>5. ASSUME NEW good \in BOOLEAN, DisposeFirst(r, good), h[r].step \in Configured
      PROVE  \E x : Keeps(r, x)
  <2>. DEFINE x == [h[r] EXCEPT !.step = "disposing", !.passed = good, !.first = "closed"]
  <2>1. h' = [h EXCEPT ![r] = x]
    BY <1>0, <1>5 DEF DisposeFirst, NewHandler
  <2>2. Fields(x) /\ x.first = "closed"
    BY <1>0 DEF NewHandler
  <2>. HIDE DEF x
  <2>. QED  BY <1>5, <2>1, <2>2, OnwardKeeps
<1>6. CASE Probe(r)
  <2>1. h[r].step = "probing" /\ (Move(r, "listing") \/ \E good \in BOOLEAN : DisposeFirst(r, good))
    BY <1>6 DEF Probe
  <2>. QED  BY <1>5, <2>1, MoveKeeps DEF Configured, Steps
<1>7. CASE Listed(r)
  BY <1>5, <1>7 DEF Listed, Configured
<1>8. CASE Check(r)
  <2>1. /\ h[r].step = "disposing"
        /\ Refuse(r) \/ Move(r, "recording") \/ h' = [h EXCEPT ![r] = Left(r, "listed")]
    BY <1>8 DEF Check
  <2>. QED  BY <2>1, RefuseKeeps, MoveKeeps, LeftKeeps DEF Configured, Steps
<1>9. CASE Record(r)
  <2>1. h[r].step = "recording" /\ (Refuse(r) \/ Move(r, "starting"))
    BY <1>9 DEF Record
  <2>. QED  BY <2>1, RefuseKeeps, MoveKeeps DEF Configured, Steps
<1>10. CASE OpenSecond(r)
  <2>. DEFINE x == [h[r] EXCEPT !.step = "matching", !.second = "open"]
  <2>1. h[r].step = "starting" /\ (h' = [h EXCEPT ![r] = x] \/ h' = [h EXCEPT ![r] = Left(r, "over")])
    BY <1>0, <1>10 DEF OpenSecond, NewHandler
  <2>2. Fields(x) /\ x.first = h[r].first
    BY <1>0 DEF NewHandler
  <2>. HIDE DEF x
  <2>. QED  BY <2>1, <2>2, LeftKeeps, OnwardKeeps DEF Configured, Steps
<1>11. ASSUME EndRun(r), h[r].step \in Configured
       PROVE  \E x : Keeps(r, x)
  <2>. DEFINE x == [h[r] EXCEPT !.step = "ending", !.second = "closed"]
  <2>1. h' = [h EXCEPT ![r] = x]
    BY <1>0, <1>11 DEF EndRun, NewHandler
  <2>2. Fields(x) /\ x.first = h[r].first
    BY <1>0 DEF NewHandler
  <2>. HIDE DEF x
  <2>. QED  BY <1>11, <2>1, <2>2, OnwardKeeps
<1>12. CASE Match(r)
  <2>1. h[r].step = "matching" /\ (Move(r, "running") \/ EndRun(r))
    BY <1>12 DEF Match
  <2>. QED  BY <1>11, <2>1, MoveKeeps DEF Configured, Steps
<1>13. CASE Run(r)
  BY <1>11, <1>13 DEF Run, Configured
<1>14. CASE EndDispose(r)
  BY <1>14, LeftKeeps DEF EndDispose, Configured, Steps
<1>. QED
  BY <1>1, <1>2, <1>3, <1>4, <1>6, <1>7, <1>8, <1>9, <1>10, <1>12, <1>13, <1>14 DEF Working

\* The ways in give a request what it asks, and no configuration but a discovery's.
LEMMA ComingInKeeps ==
  ASSUME Handlers, ConfigInv, NEW r \in Requests, NEW c \in Credential,
         \/ \E a \in Asks, g \in GrantIds \cup {None} : CreateRun(r, c, a, g)
         \/ \E kind \in Discoveries : Discover(r, c, kind)
  PROVE  \E x : Keeps(r, x)
<1>1. ASSUME NEW a \in Asks, NEW g \in GrantIds \cup {None}, CreateRun(r, c, a, g)
      PROVE  \E x : Keeps(r, x)
  <2>. DEFINE x == [NewHandler EXCEPT !.step = "queued", !.principal = Principal(c), !.ask = a, !.grant = g]
  <2>1. h[r] = NewHandler /\ h' = [h EXCEPT ![r] = x]
    BY <1>1 DEF CreateRun, Handlers, HandlerInv
  <2>2. x.step = "queued" /\ x.ask = a /\ x.first = "none"
    BY DEF NewHandler
  <2>3. a.scopes \in SUBSET ConfigScopes
    BY RequestAssumption
  <2>. HIDE DEF x
  <2>. QED  BY <2>1, <2>2, <2>3 DEF Keeps, Configured
<1>2. ASSUME NEW kind \in Discoveries, Discover(r, c, kind)
      PROVE  \E x : Keeps(r, x)
  <2>. DEFINE handler == [NewHandler EXCEPT !.principal = Principal(c), !.kind = kind]
  <2>1. h[r] = NewHandler /\ Configure(r, handler, FALSE)
    BY <1>2 DEF Discover, Handlers, HandlerInv
  <2>2. /\ DOMAIN handler = DOMAIN NewHandler
        /\ handler.ask = NewHandler.ask /\ handler.first = NewHandler.first
    BY DEF NewHandler
  <2>. HIDE DEF handler
  <2>. QED  BY <2>1, <2>2, ConfigureKeeps
<1>. QED  BY <1>1, <1>2

\* So it stays true.
LEMMA KeepsConfig ==
  ASSUME Handlers, ConfigInv, UNCHANGED layers, NEW r \in Requests, NEW x, Keeps(r, x)
  PROVE  ConfigInv'
<1>1. h'[r] = x /\ \A q \in Requests \ {r} : h'[q] = h[q]
  BY DEF Keeps, Handlers
<1>2. x.ask.scopes \in SUBSET ConfigScopes
  BY DEF Keeps, ConfigInv
<1>3. x.step \in Configured => x.config.ok /\ x.config = EffectiveConfig(layers, x.ask.scopes)
  BY DEF Keeps, ConfigInv
<1>4. ASSUME NEW q \in Requests
      PROVE  /\ h'[q].ask.scopes \in SUBSET ConfigScopes
             /\ h'[q].step \in Configured =>
                  h'[q].config.ok /\ h'[q].config = EffectiveConfig(layers, h'[q].ask.scopes)
  <2>1. CASE q = r
    BY <1>1, <1>2, <1>3, <2>1
  <2>2. CASE q # r
    BY <1>1, <2>2 DEF ConfigInv
  <2>. QED  BY <2>1, <2>2
<1>. QED  BY <1>4 DEF ConfigInv

\* Every step of the service is a step of a request that keeps its configuration,
\* or no request's.
LEMMA NextKeeps ==
  ASSUME IInv, ConfigInv, Next
  PROVE  UNCHANGED layers /\ (UNCHANGED h \/ \E r \in Requests : \E x : Keeps(r, x))
<1>1. UNCHANGED layers
  <2>1. ASSUME NEW r \in Requests, Working(r) PROVE UNCHANGED layers
    BY <2>1 DEF Working, Begin, ResolveGrant, EnterWorkspace, OpenFirst, Probe, Listed, Check, Record,
                OpenSecond, Match, Run, EndDispose
  <2>. QED  BY <2>1 DEF Next, Working, CreateRun, Discover
<1>2. ASSUME NEW r \in Requests, Working(r) PROVE \E x : Keeps(r, x)
  BY <1>2, WorkingKeeps DEF IInv
<1>3. ASSUME NEW r \in Requests, NEW c \in Credential,
             \/ \E a \in Asks, g \in GrantIds \cup {None} : CreateRun(r, c, a, g)
             \/ \E kind \in Discoveries : Discover(r, c, kind)
      PROVE  \E x : Keeps(r, x)
  BY <1>3, ComingInKeeps DEF IInv
<1>. QED  BY <1>1, <1>2, <1>3 DEF Next, Working

\* A request goes on, until it is answered and its runtimes are gone, with what the
\* layers give for the scopes it asked for (effectiveConfig).
THEOREM ConfigInvThm == Spec => []ConfigInv
<1>1. Init => ConfigInv
  BY DEF Init, ConfigInv, NewHandler, NoAsk, Configured
<1>2. IInv /\ ConfigInv /\ [Next]_vars => ConfigInv'
  <2>1. ASSUME IInv, ConfigInv, Next PROVE ConfigInv'
    <3>1. CASE UNCHANGED h
      BY <2>1, <3>1, NextKeeps DEF ConfigInv
    <3>2. ASSUME NEW r \in Requests, NEW x, Keeps(r, x) PROVE ConfigInv'
      BY <2>1, <3>2, NextKeeps, KeepsConfig DEF IInv
    <3>. QED  BY <2>1, <3>1, <3>2, NextKeeps
  <2>2. ASSUME ConfigInv, UNCHANGED vars PROVE ConfigInv'
    BY <2>2 DEF ConfigInv, vars
  <2>. QED  BY <2>1, <2>2
<1>. QED  BY <1>1, <1>2, InvariantThm, PTL DEF Spec

\* The configuration of a request that has one is that of the reference, unless an
\* object is copied with a null.
LEMMA ConfigIs ==
  ASSUME ConfigInv, NEW r \in Requests, h[r].step \in Configured
  PROVE  /\ h[r].config.adapterConfig # Conflict
         /\ ~CopiesNull(layers, h[r].ask.scopes) =>
              h[r].config.adapterConfig = ReferenceConfig(layers, h[r].ask.scopes)
<1>. DEFINE scopes == h[r].ask.scopes
<1>1. /\ scopes \in SUBSET ConfigScopes /\ layers \in [Scopes -> Layer]
      /\ h[r].config.ok /\ h[r].config = EffectiveConfig(layers, scopes)
  BY RequestAssumption DEF ConfigInv
<1>2. ~CopiesNull(layers, scopes) => AdapterConfig(layers, scopes) = ReferenceConfig(layers, scopes)
  BY <1>1, ReferenceThm
<1>3. /\ EffectiveConfig(layers, scopes).adapterConfig = AdapterConfig(layers, scopes)
      /\ EffectiveConfig(layers, scopes).ok => AdapterConfig(layers, scopes) # Conflict
  BY DEF EffectiveConfig
<1>. QED  BY <1>1, <1>2, <1>3

\* No runtime is opened when the layers conflict, nor with a configuration other than
\* the one that requirements.md LR-R9 gives, unless an object is copied with a null in
\* it, for any keys, values, layers and requests (resolveConfigLayers, #withRuntime).
THEOREM ConfigThm == Spec => ConfigIsTheReference
<1>. DEFINE Given(r) ==
       h[r].first = "none" /\ h'[r].first = "open" =>
         /\ h[r].config.adapterConfig # Conflict
         /\ ~CopiesNull(layers, h[r].ask.scopes) =>
              h[r].config.adapterConfig = ReferenceConfig(layers, h[r].ask.scopes)
<1>1. IInv /\ ConfigInv /\ [Next]_vars => [\A r \in Requests : Given(r)]_vars
  <2>. SUFFICES ASSUME IInv, ConfigInv, Next, NEW r \in Requests,
                       h[r].first = "none", h'[r].first = "open"
                PROVE  /\ h[r].config.adapterConfig # Conflict
                       /\ ~CopiesNull(layers, h[r].ask.scopes) =>
                            h[r].config.adapterConfig = ReferenceConfig(layers, h[r].ask.scopes)
    OBVIOUS
  <2>1. ~UNCHANGED h
    OBVIOUS
  <2>2. PICK q \in Requests : \E x : Keeps(q, x)
    BY <2>1, NextKeeps
  <2>3. PICK x : Keeps(q, x)
    BY <2>2
  <2>4. h'[q] = x /\ \A p \in Requests \ {q} : h'[p] = h[p]
    BY <2>3 DEF Keeps, IInv, Handlers
  <2>5. q = r
    BY <2>4
  <2>6. h[r].step = "opening"
    BY <2>3, <2>4, <2>5 DEF Keeps
  <2>. QED  BY <2>6, ConfigIs DEF Configured
<1>. QED  BY <1>1, InvariantThm, ConfigInvThm, PTL DEF Spec, ConfigIsTheReference

\* The same is true of the runtime of the run, which is opened long after: nothing
\* that happens in between changes what the request was given (createRun, #execute).
THEOREM RunConfigThm ==
  Spec => [](\A r \in Requests :
               "open" \in {h[r].first, h[r].second} =>
                 /\ h[r].config.adapterConfig # Conflict
                 /\ ~CopiesNull(layers, h[r].ask.scopes) =>
                      h[r].config.adapterConfig = ReferenceConfig(layers, h[r].ask.scopes))
<1>1. IInv /\ ConfigInv =>
        \A r \in Requests :
          "open" \in {h[r].first, h[r].second} =>
            /\ h[r].config.adapterConfig # Conflict
            /\ ~CopiesNull(layers, h[r].ask.scopes) =>
                 h[r].config.adapterConfig = ReferenceConfig(layers, h[r].ask.scopes)
  BY ConfigIs DEF IInv, Handlers, HandlerInv, Configured
<1>. QED  BY <1>1, InvariantThm, ConfigInvThm, PTL
=============================================================================
