---------------------------- MODULE AgentConfigs ----------------------------
(***************************************************************************)
(* The AIAgentConfig resources: the defaults that every session's load     *)
(* keeps up to date (services/agent/loader.py), the tools a session loads  *)
(* (factory.py), and the controller that validates a resource when it is   *)
(* created, updated or resumed (controllers/ai_agent_config.py).           *)
(*                                                                         *)
(* The load is synchronous, so that sessions of the process do not         *)
(* interleave in it; the administrator and the controller's thread do.     *)
(* Abstracted data: the managed fields of a spec are the version of the    *)
(* program whose default they are, or one of the specs the administrator   *)
(* writes.  The defaults have Rancher's authentication; an OAuth2 spec     *)
(* names a secret, and the state of that secret is what create_fn reads.   *)
(***************************************************************************)
EXTENDS Naturals, FiniteSets

CONSTANTS
    Defaults,      \* names of the built-in agents
    Customs,       \* names of agents the administrator may add
    OwnSpecs,      \* specs the administrator may write
    OAuthSpecs,    \* those with OAuth2 authentication, each with its secret
    UntypedSpecs,  \* those without an authenticationType
    NoSpec,        \* no spec
    Sessions,
    MaxRetries,    \* _MAX_RETRIES of the controller
    MaxVersion,    \* bound: versions of the program
    MaxEdits,      \* bound: changes by the administrator, of agents and secrets
    MaxRestarts    \* bound: restarts of the program

ASSUME AgentConfigsAssumption ==
    /\ Defaults \cap Customs = {}
    /\ OAuthSpecs \subseteq OwnSpecs /\ UntypedSpecs \subseteq OwnSpecs \ OAuthSpecs
    /\ OwnSpecs \cap 1..MaxVersion = {} /\ NoSpec \notin OwnSpecs \cup 1..MaxVersion
    /\ MaxRetries \in Nat /\ MaxVersion \in Nat \ {0} /\ MaxEdits \in Nat
    /\ MaxRestarts \in Nat

VARIABLES
    version,    \* of the running program
    crds,       \* the resources in the cluster
    session,    \* per session: its place in the load, what it listed, what is left
    handler,    \* per resource: the controller's handler
    clients,    \* per agent: the spec with which its OAuth2 client is registered
    secrets,    \* of the OAuth2 specs, in the cluster
    edits,      \* changes by the administrator so far
    restarts,   \* restarts so far
    disturbed   \* history: per load, what others changed meanwhile or a call failed for

vars == <<version, crds, session, handler, clients, secrets, edits, restarts, disturbed>>

Names == Defaults \cup Customs
Specs == 1..MaxVersion \cup OwnSpecs

\* A documented secret has the keys of the README, and stands for every one that
\* create_fn finds incomplete, and for none being named.
SecretStates == {"absent", "documented", "complete"}

\* The phase of a resource; "login" is Ready with 'Needs OAuth2 authentication'.
Statuses == {"none", "ready", "login", "failed"}

Absent == [exists |-> FALSE]
Crd == [exists : {TRUE}, spec : Specs, builtIn : BOOLEAN, enabled : BOOLEAN, status : Statuses]
DefaultCrd == [exists |-> TRUE, spec |-> version, builtIn |-> TRUE, enabled |-> TRUE, status |-> "none"]
NoItems == [n \in Names |-> Absent]
Idle == [at |-> "idle", items |-> NoItems, ready |-> {}, todo |-> {}]
HandlerOff ==
    [at |-> "off", spec |-> NoSpec, retry |-> 0, resumed |-> FALSE, dirty |-> FALSE, read |-> "nothing"]

Init ==
    /\ version = 1
    /\ crds = [n \in Names |-> Absent]
    /\ session = [s \in Sessions |-> Idle]
    /\ handler = [n \in Names |-> HandlerOff]
    /\ clients = [n \in Names |-> NoSpec]
    /\ secrets \in [OAuthSpecs -> SecretStates]
    /\ edits = 0 /\ restarts = 0
    /\ disturbed = [s \in Sessions |-> {}]

-----------------------------------------------------------------------------
(* kopf handles a resource that was created or updated, its events one by  *)
(* one: an update during an attempt is handled after it.                   *)

\* Mutant: the handler is not registered for resources that are created.
NotifiedOfUpdates(h) ==
    IF h.at \in {"done", "failed"} THEN [HandlerOff EXCEPT !.at = "due"] ELSE [h EXCEPT !.dirty = h.at = "validating"]

Notified(h) ==
    IF h.at \in {"off", "done", "failed"} THEN [HandlerOff EXCEPT !.at = "due"]
    ELSE [h EXCEPT !.dirty = h.at = "validating"]

\* The resource n is stored as crd, by whoever asked for it.
Stores(n, crd) ==
    /\ crds' = [crds EXCEPT ![n] = crd]
    /\ handler' = IF crd = crds[n] THEN handler ELSE [handler EXCEPT ![n] = Notified(@)]

-----------------------------------------------------------------------------
(* load_agent_configs of a session.                                        *)

ListConfigs(s) ==
    /\ session[s].at = "idle" /\ \A t \in Sessions : session[t].at # "syncing"
    /\ session' = [session EXCEPT ![s] = [Idle EXCEPT !.at = "syncing", !.items = crds, !.todo = Defaults]]
    /\ disturbed' = [disturbed EXCEPT ![s] = {}]
    /\ UNCHANGED <<version, crds, handler, clients, secrets, edits, restarts>>

\* Mutant: only the absence of a built-in agent is looked at.
NeverDrifts(crd) == FALSE

\* Mutant: whose agent it is is not looked at.
DriftsAnyway(crd) == crd.spec # version

\* A built-in agent whose managed fields differ; "enabled" is not compared.
Drifts(crd) == crd.builtIn /\ crd.spec # version

\* One default is created if it was missing, patched as a whole if it drifted.
SyncDefault(s, n) ==
    /\ session[s].at = "syncing" /\ n \in session[s].todo
    /\ session' = [session EXCEPT ![s].todo = @ \ {n}]
    /\ LET listed == session[s].items[n] IN
       IF ~listed.exists
       THEN Stores(n, IF crds[n].exists THEN crds[n] ELSE DefaultCrd)
       ELSE IF Drifts(listed) /\ crds[n].exists
       THEN Stores(n, [DefaultCrd EXCEPT !.status = crds[n].status])
       ELSE UNCHANGED <<crds, handler>>
    /\ UNCHANGED <<version, clients, secrets, edits, restarts, disturbed>>

\* The API server refuses; the error is logged and the load goes on.
SyncFails(s, n) ==
    /\ session[s].at = "syncing" /\ n \in session[s].todo
    /\ session' = [session EXCEPT ![s].todo = @ \ {n}]
    /\ disturbed' = [disturbed EXCEPT ![s] = @ \cup {n}]
    /\ UNCHANGED <<version, crds, handler, clients, secrets, edits, restarts>>

\* The resources are listed again, and the enabled ones are loaded.
ListAgain(s) ==
    /\ session[s].at = "syncing" /\ session[s].todo = {}
    /\ session' = [session EXCEPT ![s] =
           [Idle EXCEPT !.at = "loading",
                        !.todo = {n \in Names : crds[n].exists /\ crds[n].enabled},
                        !.ready = {n \in Names : crds[n].exists /\ crds[n].status \in {"ready", "login"}}]]
    /\ UNCHANGED <<version, crds, handler, clients, secrets, edits, restarts, disturbed>>

\* Listing fails, or the API server cannot be reached for one of the defaults, which
\* is no ApiException: no agent is loaded, and the other defaults are not looked at.
ListFails(s) ==
    /\ session[s].at = "syncing"
    /\ session' = [session EXCEPT ![s] = Idle]
    /\ UNCHANGED <<version, crds, handler, clients, secrets, edits, restarts, disturbed>>

\* _update_agent_status, against the status that was listed.
ReportStatus(s, n, ready) ==
    LET same == ready <=> n \in session[s].ready IN
    crds' = IF same \/ ~crds[n].exists THEN crds
            ELSE [crds EXCEPT ![n].status = IF ready THEN "ready" ELSE "failed"]

\* The tools of an agent are loaded, or fail to load; its status stays as it is
\* when it needs a login, or when no client can be made for it.
LoadTools(s, n) ==
    /\ session[s].at = "loading" /\ n \in session[s].todo
    /\ session' = [session EXCEPT ![s].todo = @ \ {n}]
    /\ \/ \E ready \in BOOLEAN : ReportStatus(s, n, ready)
       \/ UNCHANGED crds
    /\ UNCHANGED <<version, handler, clients, secrets, edits, restarts, disturbed>>

\* All are loaded, or the session ends before.
LoadEnds(s) ==
    /\ session[s].at = "loading"
    /\ session' = [session EXCEPT ![s] = Idle]
    /\ UNCHANGED <<version, crds, handler, clients, secrets, edits, restarts, disturbed>>

-----------------------------------------------------------------------------
(* create_fn, for created, updated and resumed resources.                  *)

\* The handler is due again, to retry.
Again(h) == [h EXCEPT !.at = "due", !.spec = NoSpec, !.dirty = FALSE,
                      !.retry = IF @ < MaxRetries THEN @ + 1 ELSE @]

\* The spec is read into an AgentConfig, and its server asked for the tools.
Attempt(n) ==
    /\ handler[n].at = "due" /\ crds[n].spec \notin UntypedSpecs
    /\ handler' = [handler EXCEPT ![n].at = "validating", ![n].spec = crds[n].spec]
    /\ UNCHANGED <<version, crds, session, clients, secrets, edits, restarts, disturbed>>

\* A spec without an authenticationType is no AgentConfig: the exception is raised
\* outside the try, no status is set, and kopf retries, without a limit.
AttemptRaises(n) ==
    /\ handler[n].at = "due" /\ crds[n].spec \in UntypedSpecs
    /\ handler' = [handler EXCEPT ![n] = Again(@)]
    /\ UNCHANGED <<version, crds, session, clients, secrets, edits, restarts, disturbed>>

\* An attempt ends with a status; the handler is due again, to retry or for an
\* update that came meanwhile, or is done, or is given up.
Ends(n, status, next) ==
    LET h == handler[n]
        read == IF status = "login" THEN secrets[h.spec] ELSE "nothing"
        ended == [HandlerOff EXCEPT !.at = IF h.dirty THEN "due" ELSE next, !.read = read]
    IN /\ h.at = "validating"
       /\ crds' = [crds EXCEPT ![n].status = status]
       /\ handler' = [handler EXCEPT ![n] = IF next = "due" THEN Again(h) ELSE ended]
       /\ UNCHANGED <<version, session, secrets, edits, restarts, disturbed>>

ValidationSucceeds(n) == Ends(n, "ready", "done") /\ UNCHANGED clients

\* NeedsOauth2, and the secret is complete: the client is registered, anew if it was.
RegisterClient(n) ==
    /\ handler[n].spec \in OAuthSpecs /\ secrets[handler[n].spec] = "complete"
    /\ Ends(n, "login", "done")
    /\ clients' = [clients EXCEPT ![n] = handler[n].spec]

\* The secret lacks the client or the endpoint, or none is named: nothing is
\* registered, the status says Ready, and the handler is done.
RegisterNothing(n) ==
    /\ handler[n].spec \in OAuthSpecs /\ secrets[handler[n].spec] = "documented"
    /\ Ends(n, "login", "done")
    /\ UNCHANGED clients

\* Mutant: that the secret cannot be read is logged, and the handler is done.
MissingSecretIsDone(n) ==
    handler[n].spec \in OAuthSpecs /\ Ends(n, "login", "done") /\ UNCHANGED clients

\* The secret is not there, or the API server does not give it: the status says
\* Ready, and the handler retries, without a limit.
RegisterLater(n) ==
    handler[n].spec \in OAuthSpecs /\ Ends(n, "login", "due") /\ UNCHANGED clients

\* Mutant: the number of retries is not looked at.
MayRetryAlways(n) == TRUE

MayRetry(n) == handler[n].retry < MaxRetries

\* The connection fails: a transient error is retried, MaxRetries times.
ValidationFails(n, transient) ==
    /\ Ends(n, "failed", IF transient /\ MayRetry(n) THEN "due" ELSE "failed")
    /\ UNCHANGED clients

\* The handler of a resumed resource is given an hour.
TimesOut(n) ==
    /\ handler[n].at = "due" /\ handler[n].resumed /\ handler[n].retry > 0
    /\ handler' = [handler EXCEPT ![n] = [HandlerOff EXCEPT !.at = "failed"]]
    /\ UNCHANGED <<version, crds, session, clients, secrets, edits, restarts, disturbed>>

-----------------------------------------------------------------------------
(* The administrator, and the life of the process.                         *)

\* The administrator changes the agent n.
Intervenes(n) ==
    /\ edits < MaxEdits /\ edits' = edits + 1
    /\ disturbed' = [s \in Sessions |-> disturbed[s] \cup {n}]
    /\ UNCHANGED <<version, session, clients, secrets, restarts>>

AdminAdds(n) ==
    /\ ~crds[n].exists /\ Intervenes(n)
    /\ \E crd \in Crd : crd.status = "none" /\ Stores(n, crd)

\* Any field: an agent is disabled or enabled, or made the administrator's own.
AdminEdits(n) ==
    /\ crds[n].exists /\ Intervenes(n)
    /\ \E crd \in Crd : crd.status = crds[n].status /\ crd # crds[n] /\ Stores(n, crd)

\* Bound: not during an attempt of the controller.
AdminDeletes(n) ==
    /\ crds[n].exists /\ handler[n].at # "validating" /\ Intervenes(n)
    /\ crds' = [crds EXCEPT ![n] = Absent]
    /\ handler' = [handler EXCEPT ![n] = HandlerOff]

\* A secret is written or deleted: no handler is told.
SecretChanges(o) ==
    /\ edits < MaxEdits /\ edits' = edits + 1
    /\ \E state \in SecretStates \ {secrets[o]} : secrets' = [secrets EXCEPT ![o] = state]
    /\ UNCHANGED <<version, crds, session, handler, clients, restarts, disturbed>>

\* The program starts again, maybe in its next version; kopf resumes the resources.
Restart ==
    /\ restarts < MaxRestarts /\ restarts' = restarts + 1
    /\ version' \in {version, version + 1} \cap 1..MaxVersion
    /\ session' = [s \in Sessions |-> Idle]
    /\ clients' = [n \in Names |-> NoSpec]
    /\ handler' = [n \in Names |->
           IF crds[n].exists
           THEN [HandlerOff EXCEPT !.at = "due", !.retry = handler[n].retry, !.resumed = TRUE]
           ELSE HandlerOff]
    /\ disturbed' = [s \in Sessions |-> {}]
    /\ UNCHANGED <<crds, secrets, edits>>

-----------------------------------------------------------------------------
AttemptEnds(n) ==
    \/ ValidationSucceeds(n) \/ RegisterClient(n) \/ RegisterNothing(n) \/ RegisterLater(n)
    \/ \E transient \in BOOLEAN : ValidationFails(n, transient)

Controller(n) == Attempt(n) \/ AttemptRaises(n) \/ AttemptEnds(n) \/ TimesOut(n)
Admin(n) == AdminAdds(n) \/ AdminEdits(n) \/ AdminDeletes(n)
Load(s) ==
    \/ ListConfigs(s) \/ ListAgain(s) \/ ListFails(s) \/ LoadEnds(s)
    \/ \E n \in Names : SyncDefault(s, n) \/ SyncFails(s, n) \/ LoadTools(s, n)

Next ==
    \/ \E s \in Sessions : Load(s)
    \/ \E n \in Names : Controller(n) \/ Admin(n)
    \/ \E o \in OAuthSpecs : SecretChanges(o)
    \/ Restart

Spec == Init /\ [][Next]_vars

\* kopf calls the handler that is due, and a call ends: the connection to the
\* agent's server has a timeout.
FairSpec == Spec /\ \A n \in Names : WF_vars(Attempt(n) \/ AttemptRaises(n)) /\ WF_vars(AttemptEnds(n))

-----------------------------------------------------------------------------
\* The variables keep their types, and the controller has a handler for just the
\* resources that exist: none is created without being validated.
TypeOK ==
    /\ version \in 1..MaxVersion
    /\ crds \in [Names -> Crd \cup {Absent}]
    /\ session \in [Sessions -> [at : {"idle", "syncing", "loading"},
                                 items : [Names -> Crd \cup {Absent}],
                                 ready : SUBSET Names, todo : SUBSET Names]]
    /\ handler \in [Names -> [at : {"off", "due", "validating", "done", "failed"},
                              spec : Specs \cup {NoSpec}, retry : 0..MaxRetries,
                              resumed : BOOLEAN, dirty : BOOLEAN,
                              read : SecretStates \cup {"nothing"}]]
    /\ clients \in [Names -> Specs \cup {NoSpec}]
    /\ secrets \in [OAuthSpecs -> SecretStates]
    /\ edits \in 0..MaxEdits /\ restarts \in 0..MaxRestarts
    /\ disturbed \in [Sessions -> SUBSET Names]
    /\ \A n \in Names : handler[n].at = "off" <=> ~crds[n].exists

\* An agent whose status says that it needs a login can be logged in to once the
\* controller is done with it: its client is registered in this process, with the
\* agent's present spec, unless the secret that was read names no client or endpoint.
RegisteredWhenDone ==
    \A n \in Names :
        handler[n].at = "done" /\ crds[n].status = "login" /\ handler[n].read # "documented" =>
            clients[n] = crds[n].spec

\* A secret with the keys the README lists is enough for the client to be registered
\* (README.md:199 names the key metadata_endpoint, the code reads metadataEndpoint).
DocumentedSecretIsEnough ==
    \A n \in Names :
        handler[n].at = "done" /\ crds[n].status = "login" /\ handler[n].read = "documented" =>
            clients[n] = crds[n].spec

\* A load that comes to its end leaves every built-in agent in the cluster, those
\* still marked so with the fields of the program's version: all but those that others
\* changed meanwhile or that the API server refused, for whom the load goes on.
LoadLeavesDefaults ==
    [][\A s \in Sessions :
         ListAgain(s) =>
             \A n \in Defaults \ disturbed[s] :
                 crds[n].exists /\ (crds[n].builtIn => crds[n].spec = version)]_vars

\* A load changes no agent of the administrator's own, one that is not marked
\* built-in, under whatever name, unless it became his own during the load.
OwnIsKept ==
    [][\A s \in Sessions, n \in Names :
         SyncDefault(s, n) /\ n \notin disturbed[s] /\ crds[n].exists /\ ~crds[n].builtIn =>
             UNCHANGED crds]_vars

\* What the controller may try for ever: a spec it cannot read, and a login whose
\* secret it waits for.
Endless(n) == crds[n].exists /\ crds[n].spec \in UntypedSpecs \cup OAuthSpecs

\* The controller comes to an end with every other agent.
HandlersEnd ==
    \A n \in Names :
        handler[n].at = "due" ~> handler[n].at \in {"off", "done", "failed"} \/ Endless(n)
=============================================================================
