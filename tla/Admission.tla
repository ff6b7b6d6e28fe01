----------------------------- MODULE Admission -----------------------------
(* From an HTTP request to an adapter that runs: the principal is checked,  *)
(* then createRun waits for its turn, resolves the workspace grant, computes *)
(* the configuration, opens a runtime of the adapter to ask it what it can   *)
(* do and disposes it, checks the request against the answer, records the    *)
(* run, and opens another runtime for the run itself.  A discovery (models,  *)
(* adapters, extensions) opens a runtime too, without waiting for anyone.    *)
(*                                                                           *)
(* A step is what runs between two awaits.  What RunSupervisor models of     *)
(* createRun (limits, sessions, idempotency, cancels) may refuse a request   *)
(* here at any time; the layers and what the adapter supports do not change. *)
EXTENDS Access, ConfigLayers, Sequences

CONSTANTS Requests,      \* model bound: the requests, each of which comes once
          Asks,          \* model bound: what the bodies of requests may say
          LayerChoices,  \* model bound: the layers the runtime may be started with
          AdapterChoices, \* model bound: what the capabilities of the adapter may declare
          Schema, Discovered

ASSUME RequestAssumption ==
  /\ Asks \subseteq [scopes : SUBSET ConfigScopes, extensions : [Extensions -> Selections \cup {Missing}],
                     resume : BOOLEAN]
  /\ LayerChoices \subseteq [Scopes -> Layer]
  /\ AdapterChoices \subseteq [extensions : SUBSET Extensions, resume : BOOLEAN]

VARIABLES
  layers,   \* #configLayers: scope -> layer
  adapter,  \* the extensions and the resumption that its capabilities declare
  queue,    \* #createQueue: the createRuns, the first of which runs
  h         \* request -> its handler and its run

vars == <<access, layers, adapter, queue, h>>

\* What a request awaits; queued its turn, recording the two writes of the run's
\* files, running the run's stream.
Steps == {"idle", "queued", "session", "workspace", "opening", "probing", "listing", "disposing",
          "recording", "starting", "matching", "running", "ending", "listed", "refused", "over"}

\* The request has its response.
Answered == {"starting", "matching", "running", "ending", "listed", "refused", "over"}

Discoveries == {"listModels", "capabilities"}

\* dispose was called on a runtime that is closed.
RuntimeStates == {"none", "open", "closed"}

NoAsk == [scopes |-> {}, extensions |-> [e \in Extensions |-> Missing], resume |-> FALSE]

\* principal: response.locals.principal; kind: its route; passed: the answers of
\* its first runtime were good; config: its effective configuration; first: the
\* runtime that is asked what it can do; second: the runtime of the run; late:
\* its grant had ended when its turn came.
NewHandler ==
  [step |-> "idle", principal |-> None, kind |-> "createRun", ask |-> NoAsk, grant |-> None, late |-> FALSE,
   passed |-> FALSE, config |-> None, first |-> "none", second |-> "none"]

\* A handler that is over leaves nothing but its runtimes.
Left(r, step) == [NewHandler EXCEPT !.step = step, !.first = h[r].first, !.second = h[r].second]

TypeOK ==
  /\ AccessTypeOK
  /\ layers \in LayerChoices /\ adapter \in AdapterChoices
  /\ queue \in Seq(Requests)
  /\ \A r \in Requests :
       /\ DOMAIN h[r] = DOMAIN NewHandler
       /\ h[r].step \in Steps
       /\ h[r].principal \in {None, "bearer"} \cup Origins /\ h[r].kind \in {"createRun"} \cup Discoveries
       /\ h[r].ask \in Asks \cup {NoAsk} /\ h[r].grant \in GrantIds \cup {None}
       /\ {h[r].late, h[r].passed} \subseteq BOOLEAN
       /\ {h[r].first, h[r].second} \subseteq RuntimeStates

Init ==
  /\ AccessInit
  /\ layers \in LayerChoices /\ adapter \in AdapterChoices
  /\ queue = <<>>
  /\ h = [r \in Requests |-> NewHandler]

-----------------------------------------------------------------------------
(* The way in.                                                             *)

Move(r, step) == h' = [h EXCEPT ![r].step = step]

\* Mutant: a request that fails keeps the queue.
RefuseAndStay(r) == h' = [h EXCEPT ![r] = Left(r, "refused")] /\ UNCHANGED queue

\* The next in the queue may go on, whether this one was accepted or refused
\* (#serializeCreate).
Leave(r) == queue' = IF queue # <<>> /\ Head(queue) = r THEN Tail(queue) ELSE queue
Refuse(r) == h' = [h EXCEPT ![r] = Left(r, "refused")] /\ Leave(r)

\* The middleware authenticates and createRun takes its place in the queue at
\* once.
CreateRun(r, credentials, a, g) ==
  /\ h[r].step = "idle" /\ Principal(credentials) # None
  /\ g # None => grants[g] # None \/ g \in ended
  /\ h' = [h EXCEPT ![r] = [@ EXCEPT !.step = "queued", !.principal = Principal(credentials),
                                      !.ask = a, !.grant = g]]
  /\ queue' = Append(queue, r)
  /\ UNCHANGED <<access, layers, adapter>>

\* effectiveConfig, and validateAdapterConfig unless schema is FALSE: from what
\* came before to the context of the first runtime without an await.
Configure(r, handler, schema) ==
  LET effective == EffectiveConfig(layers, handler.ask.scopes) IN
  IF effective.ok /\ (schema => SchemaAccepts(Schema, effective.adapterConfig))
  THEN h' = [h EXCEPT ![r] = [handler EXCEPT !.step = "opening", !.config = effective]] /\ UNCHANGED queue
  ELSE Refuse(r)

\* A discovery goes on at once, with the configuration of no selected scope.  The
\* list of the adapters does so for each adapter before it awaits any, and the
\* branches share nothing: each is a request here, and the requests of one list are
\* those that begin one after another with the same credentials.  A branch that
\* fails answers the client early, which stops no other branch.
Discover(r, credentials, kind) ==
  /\ h[r].step = "idle" /\ Principal(credentials) # None
  /\ Configure(r, [h[r] EXCEPT !.principal = Principal(credentials), !.kind = kind], FALSE)
  /\ UNCHANGED <<access, layers, adapter>>

\* The turn of a request comes: #serializeCreate runs one createRun at a time.
Begin(r) ==
  /\ h[r].step = "queued" /\ Head(queue) = r
  /\ \/ /\ h' = [h EXCEPT ![r].step = "session", ![r].late = ~GrantIsValid(h[r].grant)]
        /\ UNCHANGED queue
     \/ Refuse(r)
  /\ UNCHANGED <<access, layers, adapter>>

\* Mutant: a grant that is found to have ended is forgotten and used all the same.
ForgetAndGoOn(r) ==
  /\ h[r].step = "session"
  /\ \/ Refuse(r) /\ UNCHANGED <<grants, ended>>
     \/ Move(r, "workspace") /\ UNCHANGED queue /\ Forget(h[r].grant)
  /\ UNCHANGED <<now, bindings, spent, sessions, issuing, layers, adapter>>

\* The session was read, or refused the request: resolve begins.
ResolveGrant(r) ==
  /\ h[r].step = "session"
  /\ \/ Refuse(r) /\ UNCHANGED <<grants, ended>>
     \/ GrantIsValid(h[r].grant) /\ Move(r, "workspace") /\ UNCHANGED <<queue, grants, ended>>
     \/ ~GrantIsValid(h[r].grant) /\ Refuse(r) /\ Forget(h[r].grant)
  /\ UNCHANGED <<now, bindings, spent, sessions, issuing, layers, adapter>>

\* The directory is in the granted one; or it is not, or does not exist.
EnterWorkspace(r) ==
  /\ h[r].step = "workspace"
  /\ Configure(r, h[r], TRUE) \/ Refuse(r)
  /\ UNCHANGED <<access, layers, adapter>>

-----------------------------------------------------------------------------
(* The first runtime (#withRuntime).                                       *)

\* The context provider and createRuntime have answered, or one of them failed.
OpenFirst(r) ==
  /\ h[r].step = "opening"
  /\ \/ h' = [h EXCEPT ![r].step = "probing", ![r].first = "open"] /\ UNCHANGED queue
     \/ Refuse(r)
  /\ UNCHANGED <<access, layers, adapter>>

\* Mutant: a runtime is disposed only when its answers were good.
DisposeWhenGood(r, good) ==
  h' = [h EXCEPT ![r].step = "disposing", ![r].passed = good, ![r].first = IF good THEN "closed" ELSE @]

\* The finally block: dispose is called on every way out.
DisposeFirst(r, good) ==
  h' = [h EXCEPT ![r].step = "disposing", ![r].passed = good, ![r].first = "closed"]

\* capabilities answers and matches the runtime's methods, or does not, or fails.
Probe(r) ==
  /\ h[r].step = "probing"
  /\ \/ h[r].kind # "listModels" /\ DisposeFirst(r, TRUE)
     \/ h[r].kind = "listModels" /\ Move(r, "listing")
     \/ DisposeFirst(r, FALSE)
  /\ UNCHANGED <<access, layers, adapter, queue>>

Listed(r) ==
  /\ h[r].step = "listing"
  /\ \E good \in BOOLEAN : DisposeFirst(r, good)
  /\ UNCHANGED <<access, layers, adapter, queue>>

\* The selections of the layers and the request (mergeExtensionSelections).
Selection(r) == MergeExtensionSelections(h[r].config.extensions, h[r].ask.extensions)

\* The first runtime is gone, or its dispose failed.  #resolveResumeSession and
\* resolveExtensions check what the adapter declared, and whether the session can
\* be resumed.
Check(r) ==
  /\ h[r].step = "disposing"
  /\ \/ Refuse(r)
     \/ /\ h[r].passed /\ h[r].kind \in Discoveries
        /\ h' = [h EXCEPT ![r] = Left(r, "listed")] /\ UNCHANGED queue
     \/ /\ h[r].passed /\ h[r].kind = "createRun"
        /\ h[r].ask.resume => adapter.resume
        /\ ExtensionsAreAvailable(Selection(r), Discovered, adapter.extensions)
        /\ Move(r, "recording") /\ UNCHANGED queue
  /\ UNCHANGED <<access, layers, adapter>>

-----------------------------------------------------------------------------
(* The run (#execute, createManagedAdapterRun).                            *)

\* run.json and session.json are written and #execute begins, or a write failed.
Record(r) ==
  /\ h[r].step = "recording"
  /\ (Move(r, "starting") /\ Leave(r)) \/ Refuse(r)
  /\ UNCHANGED <<access, layers, adapter>>

OpenSecond(r) ==
  /\ h[r].step = "starting"
  /\ \/ h' = [h EXCEPT ![r].step = "matching", ![r].second = "open"]
     \/ h' = [h EXCEPT ![r] = Left(r, "over")]
  /\ UNCHANGED <<access, layers, adapter, queue>>

EndRun(r) == h' = [h EXCEPT ![r].step = "ending", ![r].second = "closed"]

\* The capabilities of the second runtime do not match it, or it has no stream to
\* give: the catch block disposes it.
Match(r) ==
  /\ h[r].step = "matching"
  /\ Move(r, "running") \/ EndRun(r)
  /\ UNCHANGED <<access, layers, adapter, queue>>

\* The stream is over, in whatever way (ManagedAdapterRun.#iterate).
Run(r) ==
  /\ h[r].step = "running"
  /\ EndRun(r)
  /\ UNCHANGED <<access, layers, adapter, queue>>

EndDispose(r) ==
  /\ h[r].step = "ending"
  /\ h' = [h EXCEPT ![r] = Left(r, "over")]
  /\ UNCHANGED <<access, layers, adapter, queue>>

-----------------------------------------------------------------------------

Credential == [bearer : BOOLEAN, session : SessionIds \cup {None}, origin : Origins \cup {None}]

Next ==
  \/ AccessNext /\ UNCHANGED <<layers, adapter, queue, h>>
  \/ \E r \in Requests :
       \/ \E c \in Credential :
            \/ \E a \in Asks, g \in GrantIds \cup {None} : CreateRun(r, c, a, g)
            \/ \E kind \in Discoveries : Discover(r, c, kind)
       \/ Begin(r) \/ ResolveGrant(r) \/ EnterWorkspace(r)
       \/ OpenFirst(r) \/ Probe(r) \/ Listed(r) \/ Check(r) \/ Record(r)
       \/ OpenSecond(r) \/ Match(r) \/ Run(r) \/ EndDispose(r)

Spec == Init /\ [][Next]_vars

-----------------------------------------------------------------------------
(* Properties.                                                             *)

\* A request gets past the middleware only while the access token lasts; one of a
\* page shows that the page exchanged a binding for its origin, once, for a session
\* that still lasts (authenticate, exchangeBrowserBinding).
AccessIsBound ==
  [][\A r \in Requests :
       h[r].step = "idle" /\ h'[r].principal # None =>
         /\ now < TokenExpiresAt
         /\ h'[r].principal \in Origins =>
              \E s \in SessionIds :
                /\ sessions[s] # None /\ sessions[s].origin = h'[r].principal /\ sessions[s].binding \in spent
                /\ now < sessions[s].expiresAt
                /\ \A t \in SessionIds \ {s} : sessions[t] # None => sessions[t].binding # sessions[s].binding]_vars

\* A grant that is revoked or expires while a request waits for its turn admits
\* no run: resolve looks at the grant when the turn has come (createRun).
EndedGrantAdmitsNoRun == \A r \in Requests : h[r].late => h[r].step = "session"

\* Whatever fails on the way, no runtime of the adapter is left without a dispose,
\* and a request never has two at a time (#withRuntime, createManagedAdapterRun).
RuntimesAreDisposed ==
  \A r \in Requests :
    /\ h[r].first = "open" => h[r].step \in {"probing", "listing"}
    /\ h[r].second = "open" => h[r].step \in {"matching", "running"} /\ h[r].first = "closed"

\* A runtime is opened with the configuration that requirements.md LR-R9 gives for
\* the scopes of the request, and none is opened when the layers conflict, unless
\* an object is copied with a null in it (mergeObjects), where the code departs from
\* LR-R9 (resolveConfigLayers).
ConfigIsTheReference ==
  [][\A r \in Requests :
       h[r].first = "none" /\ h'[r].first = "open" =>
         /\ h[r].config.adapterConfig # Conflict
         /\ ~CopiesNull(layers, h[r].ask.scopes) =>
              h[r].config.adapterConfig = ReferenceConfig(layers, h[r].ask.scopes)]_vars

\* The queue is the createRuns without an answer, and only its first has begun:
\* none overtakes another between the grant and the two writes, and none that was
\* refused or failed keeps its place (#serializeCreate).
TurnsAreTaken ==
  /\ \A r \in Requests :
       h[r].kind = "createRun" /\ h[r].step \notin Answered \cup {"idle"} <=>
         \E i \in DOMAIN queue : queue[i] = r
  /\ \A i \in DOMAIN queue : i > 1 => h[queue[i]].step = "queued"
=============================================================================
