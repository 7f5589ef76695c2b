------------------------- MODULE AgentConfigsProofs -------------------------
(***************************************************************************)
(* Theorems about the AIAgentConfig resources: the types of the variables, *)
(* that an agent found to need a login has its client, and what a load     *)
(* does to the built-in agents and to the administrator's own.             *)
(***************************************************************************)
EXTENDS AgentConfigs, TLAPS

\* The type of a session, and of a handler.
SessionRecords ==
    [at : {"idle", "syncing", "loading"}, items : [Names -> Crd \cup {Absent}],
     ready : SUBSET Names, todo : SUBSET Names]
HandlerRecords ==
    [at : {"off", "due", "validating", "done", "failed"}, spec : Specs \cup {NoSpec},
     retry : 0..MaxRetries, resumed : BOOLEAN, dirty : BOOLEAN, read : SecretStates \cup {"nothing"}]

\* The type of what the cluster stores.
ClusterOK ==
    /\ version \in 1..MaxVersion
    /\ crds \in [Names -> Crd \cup {Absent}]
    /\ clients \in [Names -> Specs \cup {NoSpec}]
    /\ secrets \in [OAuthSpecs -> SecretStates]

\* The type of who works on it.
ActorsOK ==
    /\ session \in [Sessions -> SessionRecords]
    /\ handler \in [Names -> HandlerRecords]
    /\ \A n \in Names : handler[n].at = "off" <=> ~crds[n].exists

\* The type of what is counted.
CountsOK ==
    /\ edits \in 0..MaxEdits /\ restarts \in 0..MaxRestarts
    /\ disturbed \in [Sessions -> SUBSET Names]

\* The type invariant is its three parts, in any state.
LEMMA TypeParts == TypeOK <=> ClusterOK /\ ActorsOK /\ CountsOK
    BY DEF TypeOK, ClusterOK, ActorsOK, CountsOK, SessionRecords, HandlerRecords

\* Likewise in the next state.
LEMMA TypePartsNext == TypeOK' <=> ClusterOK' /\ ActorsOK' /\ CountsOK'
    BY DEF TypeOK, ClusterOK, ActorsOK, CountsOK, SessionRecords, HandlerRecords

\* A handler that is not at work is of its type, whatever it waits for.
LEMMA HandlerOffType == HandlerOff \in HandlerRecords
    BY AgentConfigsAssumption DEF HandlerOff, HandlerRecords

\* A resource is there or absent, and never both.
LEMMA CrdExists ==
    /\ \A crd \in Crd : crd.exists
    /\ ~Absent.exists
    /\ \A crd \in Crd \cup {Absent} : crd.exists => crd \in Crd
<1>1. ASSUME NEW crd \in Crd
      PROVE  crd.exists
    <2>1. crd.exists \in {TRUE}
        BY DEF Crd
    <2>2. crd.exists = TRUE
        BY <2>1
    <2>3. QED
        BY <2>2, Zenon
<1>2. ~Absent.exists
    <2>1. Absent.exists = FALSE
        BY DEF Absent
    <2>2. QED
        BY <2>1, Zenon
<1>3. ASSUME NEW crd \in Crd \cup {Absent}, crd.exists
      PROVE  crd \in Crd
    BY <1>2, <1>3
<1>4. QED
    BY <1>1, <1>2, <1>3

\* The default that a load writes is a resource.
LEMMA DefaultType ==
    ASSUME ClusterOK
    PROVE  DefaultCrd \in Crd /\ DefaultCrd.builtIn /\ DefaultCrd.spec = version
    BY AgentConfigsAssumption DEF ClusterOK, DefaultCrd, Crd, Specs, Statuses

\* A handler that is told of an update is at work, and of its type.
LEMMA NotifiedType ==
    ASSUME NEW h \in HandlerRecords
    PROVE  Notified(h) \in HandlerRecords /\ Notified(h).at # "off"
<1>1. CASE h.at \in {"off", "done", "failed"}
    <2>1. [HandlerOff EXCEPT !.at = "due"] \in HandlerRecords /\ [HandlerOff EXCEPT !.at = "due"].at = "due"
        BY HandlerOffType DEF HandlerRecords
    <2>2. QED
        BY <1>1, <2>1 DEF Notified
<1>2. CASE h.at \notin {"off", "done", "failed"}
    <2>1. ASSUME NEW d \in BOOLEAN
          PROVE  [h EXCEPT !.dirty = d] \in HandlerRecords /\ [h EXCEPT !.dirty = d].at = h.at
        BY DEF HandlerRecords
    <2>2. (h.at = "validating") \in BOOLEAN
        OBVIOUS
    <2>3. Notified(h) = [h EXCEPT !.dirty = (h.at = "validating")]
        BY <1>2 DEF Notified
    <2>4. PICK d \in BOOLEAN : Notified(h) = [h EXCEPT !.dirty = d]
        BY <2>2, <2>3, Zenon
    <2>5. QED
        BY <1>2, <2>1, <2>4
<1>3. QED
    BY <1>1, <1>2

\* Storing a resource keeps the types, and its handler is told if it changed.
LEMMA StoresType ==
    ASSUME ClusterOK, ActorsOK, NEW n \in Names, NEW crd \in Crd, Stores(n, crd)
    PROVE  /\ crds' \in [Names -> Crd \cup {Absent}]
           /\ handler' \in [Names -> HandlerRecords]
           /\ \A m \in Names : handler'[m].at = "off" <=> ~crds'[m].exists
<1>1. crds' = [crds EXCEPT ![n] = crd] /\ crds' \in [Names -> Crd \cup {Absent}]
    BY DEF Stores, ClusterOK
<1>2. CASE crd = crds[n]
    <2>1. handler' = handler /\ crds' = crds
        BY <1>1, <1>2 DEF Stores, ClusterOK
    <2>2. QED
        BY <1>1, <2>1 DEF ActorsOK
<1>3. CASE crd # crds[n]
    <2>1. handler' = [handler EXCEPT ![n] = Notified(handler[n])]
        BY <1>3 DEF Stores
    <2>2. Notified(handler[n]) \in HandlerRecords /\ Notified(handler[n]).at # "off"
        BY NotifiedType DEF ActorsOK
    <2>3. crds'[n].exists /\ handler'[n].at # "off"
        BY <1>1, <2>1, <2>2, CrdExists DEF ActorsOK, ClusterOK
    <2>4. \A m \in Names \ {n} : crds'[m] = crds[m] /\ handler'[m] = handler[m]
        BY <1>1, <2>1 DEF ActorsOK, ClusterOK
    <2>5. QED
        BY <1>1, <2>1, <2>2, <2>3, <2>4 DEF ActorsOK
<1>4. QED
    BY <1>2, <1>3

\* The types hold initially.
LEMMA InitType == Init => TypeOK
<1> SUFFICES ASSUME Init
             PROVE  TypeOK
    OBVIOUS
<1>1. ClusterOK
    BY AgentConfigsAssumption DEF Init, ClusterOK, Specs
<1>2. Idle \in SessionRecords
    BY DEF Idle, SessionRecords, NoItems
<1>3. ActorsOK
    BY <1>2, HandlerOffType, CrdExists DEF Init, ActorsOK, HandlerOff
<1>4. CountsOK
    BY AgentConfigsAssumption DEF Init, CountsOK
<1>5. QED
    BY <1>1, <1>3, <1>4, TypeParts

\* A load keeps the types.
LEMMA LoadType ==
    ASSUME TypeOK, NEW s \in Sessions, Load(s)
    PROVE  TypeOK'
<1>1. ClusterOK /\ ActorsOK /\ CountsOK
    BY TypeParts
<1>2. session[s] \in SessionRecords /\ Idle \in SessionRecords
    BY <1>1 DEF ActorsOK, Idle, SessionRecords, NoItems
<1>3. CASE ListConfigs(s)
    <2>1. [Idle EXCEPT !.at = "syncing", !.items = crds, !.todo = Defaults] \in SessionRecords
        BY <1>1, <1>2 DEF SessionRecords, Names, ClusterOK, Idle
    <2>2. QED
        BY <1>1, <1>3, <2>1, TypePartsNext DEF ListConfigs, ClusterOK, ActorsOK, CountsOK
<1>4. ASSUME NEW n \in Names, SyncDefault(s, n)
      PROVE  TypeOK'
    <2>1. [session[s] EXCEPT !.todo = @ \ {n}] \in SessionRecords
        BY <1>2 DEF SessionRecords
    <2>2. session' \in [Sessions -> SessionRecords]
        BY <1>1, <1>4, <2>1 DEF SyncDefault, ActorsOK
    <2>3. CASE UNCHANGED <<crds, handler>>
        BY <1>1, <1>4, <2>2, <2>3, TypePartsNext DEF SyncDefault, ClusterOK, ActorsOK, CountsOK
    <2>4. ASSUME NEW crd \in Crd, Stores(n, crd)
          PROVE  TypeOK'
        <3>1. /\ crds' \in [Names -> Crd \cup {Absent}]
              /\ handler' \in [Names -> HandlerRecords]
              /\ \A m \in Names : handler'[m].at = "off" <=> ~crds'[m].exists
            BY <1>1, <2>4, StoresType
        <3>2. QED
            BY <1>1, <1>4, <2>2, <3>1, TypePartsNext DEF SyncDefault, ClusterOK, ActorsOK, CountsOK
    <2>5. (IF crds[n].exists THEN crds[n] ELSE DefaultCrd) \in Crd
        BY <1>1, CrdExists, DefaultType DEF ClusterOK
    <2>6. crds[n].exists => [DefaultCrd EXCEPT !.status = crds[n].status] \in Crd
        <3>1. crds[n].exists => crds[n] \in Crd
            BY <1>1, CrdExists DEF ClusterOK
        <3>2. DefaultCrd \in Crd
            BY <1>1, DefaultType
        <3>3. QED
            BY <3>1, <3>2 DEF Crd
    <2>7. \/ UNCHANGED <<crds, handler>>
          \/ \E crd \in Crd : Stores(n, crd)
        BY <1>4, <2>5, <2>6 DEF SyncDefault
    <2>8. QED
        BY <2>3, <2>4, <2>7
<1>5. ASSUME NEW n \in Names, SyncFails(s, n)
      PROVE  TypeOK'
    <2>1. [session[s] EXCEPT !.todo = @ \ {n}] \in SessionRecords
        BY <1>2 DEF SessionRecords
    <2>2. session' \in [Sessions -> SessionRecords]
        BY <1>1, <1>5, <2>1 DEF SyncFails, ActorsOK
    <2>3. QED
        BY <1>1, <1>5, <2>2, TypePartsNext DEF SyncFails, ClusterOK, ActorsOK, CountsOK
<1>6. CASE ListAgain(s)
    <2> DEFINE listed == [Idle EXCEPT !.at = "loading",
                              !.todo = {n \in Names : crds[n].exists /\ crds[n].enabled},
                              !.ready = {n \in Names : crds[n].exists /\ crds[n].status \in {"ready", "login"}}]
    <2>1. listed \in SessionRecords
        BY <1>2 DEF SessionRecords, Idle
    <2>2. session' = [session EXCEPT ![s] = listed]
        BY <1>6 DEF ListAgain
    <2>3. session' \in [Sessions -> SessionRecords]
        BY <1>1, <2>1, <2>2 DEF ActorsOK
    <2>4. QED
        BY <1>1, <1>6, <2>3, TypePartsNext DEF ListAgain, ClusterOK, ActorsOK, CountsOK
<1>7. CASE ListFails(s) \/ LoadEnds(s)
    BY <1>1, <1>2, <1>7, TypePartsNext DEF ListFails, LoadEnds, ClusterOK, ActorsOK, CountsOK
<1>8. ASSUME NEW n \in Names, LoadTools(s, n)
      PROVE  TypeOK'
    <2>1. [session[s] EXCEPT !.todo = @ \ {n}] \in SessionRecords
        BY <1>2 DEF SessionRecords
    <2>2. session' \in [Sessions -> SessionRecords]
        BY <1>1, <1>8, <2>1 DEF LoadTools, ActorsOK
    <2>3. \/ crds' = crds
          \/ \E status \in Statuses : crds[n].exists /\ crds' = [crds EXCEPT ![n].status = status]
        BY <1>8 DEF LoadTools, ReportStatus, Statuses
    <2>4. ASSUME NEW status \in Statuses, crds[n].exists
          PROVE  [crds[n] EXCEPT !.status = status] \in Crd
        <3>1. crds[n] \in Crd
            BY <1>1, <2>4, CrdExists DEF ClusterOK
        <3>2. QED
            BY <3>1 DEF Crd
    <2>5. /\ crds' \in [Names -> Crd \cup {Absent}]
          /\ \A m \in Names : crds'[m].exists = crds[m].exists
        <3>1. CASE crds' = crds
            BY <1>1, <3>1 DEF ClusterOK
        <3>2. ASSUME NEW status \in Statuses, crds[n].exists, crds' = [crds EXCEPT ![n].status = status]
              PROVE  /\ crds' \in [Names -> Crd \cup {Absent}]
                     /\ \A m \in Names : crds'[m].exists = crds[m].exists
            <4>1. crds' = [crds EXCEPT ![n] = [crds[n] EXCEPT !.status = status]]
                BY <3>2
            <4>2. crds' \in [Names -> Crd \cup {Absent}]
                BY <1>1, <2>4, <3>2, <4>1 DEF ClusterOK
            <4>3. crds'[n].exists /\ \A m \in Names \ {n} : crds'[m] = crds[m]
                BY <1>1, <2>4, <3>2, <4>1, CrdExists DEF ClusterOK
            <4>4. QED
                BY <3>2, <4>2, <4>3, CrdExists
        <3>3. QED
            BY <2>3, <3>1, <3>2
    <2>6. QED
        BY <1>1, <1>8, <2>2, <2>5, TypePartsNext DEF LoadTools, ClusterOK, ActorsOK, CountsOK
<1>9. QED
    BY <1>3, <1>4, <1>5, <1>6, <1>7, <1>8 DEF Load

\* How an attempt can end: a login is found for a spec with OAuth2 only, and when the
\* handler is done with it, its client is registered or its secret was incomplete.
LEMMA AttemptEndsHow ==
    ASSUME NEW n \in Names, AttemptEnds(n)
    PROVE  \E status \in Statuses, next \in {"due", "done", "failed"} :
               /\ Ends(n, status, next)
               /\ status = "login" => handler[n].spec \in OAuthSpecs
               /\ \/ clients' = clients
                  \/ clients' = [clients EXCEPT ![n] = handler[n].spec]
               /\ status = "login" /\ next = "done" =>
                      \/ secrets[handler[n].spec] = "documented"
                      \/ clients' = [clients EXCEPT ![n] = handler[n].spec]
<1>1. {"ready", "login", "failed"} \subseteq Statuses
    BY DEF Statuses
<1>2. CASE ValidationSucceeds(n)
    BY <1>1, <1>2 DEF ValidationSucceeds
<1>3. CASE RegisterClient(n)
    BY <1>1, <1>3 DEF RegisterClient
<1>4. CASE RegisterNothing(n)
    BY <1>1, <1>4 DEF RegisterNothing
<1>5. CASE RegisterLater(n)
    BY <1>1, <1>5 DEF RegisterLater
<1>6. ASSUME NEW transient \in BOOLEAN, ValidationFails(n, transient)
      PROVE  \E next \in {"due", "done", "failed"} : Ends(n, "failed", next) /\ clients' = clients
    BY <1>6 DEF ValidationFails
<1>7. QED
    BY <1>1, <1>2, <1>3, <1>4, <1>5, <1>6 DEF AttemptEnds

\* A handler that is to retry is due, and of its type.
LEMMA AgainType ==
    ASSUME NEW h \in HandlerRecords
    PROVE  Again(h) \in HandlerRecords /\ Again(h).at = "due"
<1>1. h.retry \in 0..MaxRetries
    BY DEF HandlerRecords
<1>2. (IF h.retry < MaxRetries THEN h.retry + 1 ELSE h.retry) \in 0..MaxRetries
    BY <1>1, AgentConfigsAssumption
<1>3. QED
    BY <1>2 DEF Again, HandlerRecords

\* An attempt that ends with a status keeps the types, changes nothing but the status
\* of its agent, and leaves its handler due, done or given up, with what it read.
LEMMA EndsDoes ==
    ASSUME ClusterOK, ActorsOK, NEW n \in Names, NEW status \in Statuses,
           NEW next \in {"due", "done", "failed"}, Ends(n, status, next),
           status = "login" => handler[n].spec \in OAuthSpecs
    PROVE  /\ ActorsOK' /\ crds' \in [Names -> Crd \cup {Absent}]
           /\ crds[n].exists /\ crds' = [crds EXCEPT ![n].status = status]
           /\ crds'[n].status = status
           /\ \A m \in Names \ {n} : handler'[m] = handler[m] /\ crds'[m] = crds[m]
           /\ handler'[n].at = (IF next = "due" \/ handler[n].dirty THEN "due" ELSE next)
           /\ next # "due" /\ status = "login" => handler'[n].read = secrets[handler[n].spec]
<1> DEFINE h == handler[n]
           read == IF status = "login" THEN secrets[h.spec] ELSE "nothing"
           ended == [HandlerOff EXCEPT !.at = IF h.dirty THEN "due" ELSE next, !.read = read]
<1>1. h \in HandlerRecords /\ h.at = "validating" /\ crds[n].exists
    BY DEF ActorsOK, Ends
<1>2. Again(h) \in HandlerRecords /\ Again(h).at = "due"
    BY <1>1, AgainType
<1>3. read \in SecretStates \cup {"nothing"}
    BY DEF ClusterOK
<1>4. next # "due" => /\ ended \in HandlerRecords /\ ended.read = read
                      /\ ended.at = (IF h.dirty THEN "due" ELSE next)
    <2> HIDE DEF read
    <2>1. next # "due" => (IF h.dirty THEN "due" ELSE next) \in {"due", "done", "failed"}
        OBVIOUS
    <2>2. QED
        BY <1>3, <2>1, HandlerOffType DEF HandlerRecords
<1>5. handler' = [handler EXCEPT ![n] = IF next = "due" THEN Again(h) ELSE ended]
    BY DEF Ends
<1>6. /\ handler'[n] = (IF next = "due" THEN Again(h) ELSE ended)
      /\ handler' \in [Names -> HandlerRecords]
      /\ \A m \in Names \ {n} : handler'[m] = handler[m]
    <2> HIDE DEF ended, h
    <2>1. (IF next = "due" THEN Again(h) ELSE ended) \in HandlerRecords
        BY <1>2, <1>4
    <2>2. QED
        BY <1>5, <2>1 DEF ActorsOK
<1>7. handler'[n].at = (IF next = "due" \/ h.dirty THEN "due" ELSE next)
    <2> HIDE DEF ended, h
    <2>1. CASE next = "due"
        BY <1>2, <1>6, <2>1
    <2>2. CASE next # "due"
        BY <1>4, <1>6, <2>2
    <2>3. QED
        BY <2>1, <2>2
<1>8. next # "due" /\ status = "login" => handler'[n].read = secrets[h.spec]
    <2> HIDE DEF ended, h
    <2>1. QED
        BY <1>4, <1>6
<1>9. crds' = [crds EXCEPT ![n] = [crds[n] EXCEPT !.status = status]]
    BY DEF Ends
<1>10. crds[n] \in Crd
    BY <1>1, CrdExists DEF ClusterOK
<1>11. [crds[n] EXCEPT !.status = status] \in Crd /\ [crds[n] EXCEPT !.status = status].status = status
    BY <1>10 DEF Crd
<1>12. /\ crds' \in [Names -> Crd \cup {Absent}] /\ crds'[n] \in Crd /\ crds'[n].status = status
       /\ \A m \in Names \ {n} : crds'[m] = crds[m]
    BY <1>9, <1>11 DEF ClusterOK
<1>13. crds'[n].exists
    BY <1>12, CrdExists
<1>14. ActorsOK'
    <2>1. handler'[n].at # "off"
        BY <1>7
    <2>2. QED
        BY <1>6, <1>12, <1>13, <2>1 DEF ActorsOK, Ends
<1>15. QED
    BY <1>1, <1>6, <1>7, <1>8, <1>12, <1>14 DEF Ends

\* The controller keeps the types.
LEMMA ControllerType ==
    ASSUME TypeOK, NEW n \in Names, Controller(n)
    PROVE  TypeOK'
<1>1. ClusterOK /\ ActorsOK /\ CountsOK
    BY TypeParts
<1>2. CASE Attempt(n)
    <2>1. handler[n] \in HandlerRecords /\ handler[n].at = "due" /\ crds[n].exists
        BY <1>1, <1>2 DEF Attempt, ActorsOK
    <2>2. crds[n].spec \in Specs
        BY <1>1, <2>1, CrdExists DEF ClusterOK, Crd
    <2>3. [handler[n] EXCEPT !.at = "validating", !.spec = crds[n].spec] \in HandlerRecords
        BY <2>1, <2>2 DEF HandlerRecords
    <2>4. handler' = [handler EXCEPT ![n] = [handler[n] EXCEPT !.at = "validating", !.spec = crds[n].spec]]
        BY <1>2 DEF Attempt
    <2>5. handler' \in [Names -> HandlerRecords] /\ \A m \in Names : handler'[m].at = "off" <=> handler[m].at = "off"
        BY <1>1, <2>1, <2>3, <2>4 DEF ActorsOK, HandlerRecords
    <2>6. QED
        BY <1>1, <1>2, <2>5, TypePartsNext DEF Attempt, ClusterOK, ActorsOK, CountsOK
<1>3. CASE AttemptEnds(n)
    <2>1. PICK status \in Statuses, next \in {"due", "done", "failed"} :
              /\ Ends(n, status, next)
              /\ status = "login" => handler[n].spec \in OAuthSpecs
              /\ \/ clients' = clients
                 \/ clients' = [clients EXCEPT ![n] = handler[n].spec]
        BY <1>3, AttemptEndsHow
    <2>2. crds' \in [Names -> Crd \cup {Absent}] /\ ActorsOK'
        BY <1>1, <2>1, EndsDoes
    <2>3. clients' \in [Names -> Specs \cup {NoSpec}]
        <3>1. handler[n].spec \in Specs \cup {NoSpec}
            BY <1>1 DEF ActorsOK, HandlerRecords
        <3>2. QED
            BY <1>1, <2>1, <3>1 DEF ClusterOK
    <2>4. UNCHANGED <<version, secrets, edits, restarts, disturbed>>
        BY <2>1 DEF Ends
    <2>5. QED
        BY <1>1, <2>2, <2>3, <2>4, TypePartsNext DEF ClusterOK, CountsOK
<1>4. ASSUME NEW new \in HandlerRecords, new.at # "off", handler' = [handler EXCEPT ![n] = new],
             handler[n].at = "due",
             UNCHANGED <<version, crds, session, clients, secrets, edits, restarts, disturbed>>
      PROVE  TypeOK'
    <2>1. handler' \in [Names -> HandlerRecords] /\ \A m \in Names : handler'[m].at = "off" <=> handler[m].at = "off"
        BY <1>1, <1>4 DEF ActorsOK
    <2>2. QED
        BY <1>1, <1>4, <2>1, TypePartsNext DEF ClusterOK, ActorsOK, CountsOK
<1>5. CASE AttemptRaises(n)
    <2>1. Again(handler[n]) \in HandlerRecords /\ Again(handler[n]).at = "due"
        BY <1>1, AgainType DEF ActorsOK
    <2>2. QED
        BY <1>4, <1>5, <2>1 DEF AttemptRaises
<1>6. CASE TimesOut(n)
    <2>1. [HandlerOff EXCEPT !.at = "failed"] \in HandlerRecords /\ [HandlerOff EXCEPT !.at = "failed"].at = "failed"
        BY HandlerOffType DEF HandlerRecords
    <2>2. QED
        BY <1>4, <1>6, <2>1 DEF TimesOut
<1>7. QED
    BY <1>2, <1>3, <1>5, <1>6 DEF Controller

\* The administrator keeps the types.
LEMMA AdminType ==
    ASSUME TypeOK, NEW n \in Names, Admin(n)
    PROVE  TypeOK'
<1>1. ClusterOK /\ ActorsOK /\ CountsOK
    BY TypeParts
<1>2. CountsOK' /\ UNCHANGED <<version, session, clients, secrets>>
    <2>1. Intervenes(n)
        BY DEF Admin, AdminAdds, AdminEdits, AdminDeletes
    <2>2. edits' \in 0..MaxEdits
        BY <1>1, <2>1, AgentConfigsAssumption DEF Intervenes, CountsOK
    <2>3. disturbed' \in [Sessions -> SUBSET Names]
        BY <1>1, <2>1 DEF Intervenes, CountsOK
    <2>4. QED
        BY <1>1, <2>1, <2>2, <2>3 DEF Intervenes, CountsOK
<1>3. CASE \E crd \in Crd : Stores(n, crd)
    <2>1. /\ crds' \in [Names -> Crd \cup {Absent}]
          /\ handler' \in [Names -> HandlerRecords]
          /\ \A m \in Names : handler'[m].at = "off" <=> ~crds'[m].exists
        BY <1>1, <1>3, StoresType
    <2>2. QED
        BY <1>1, <1>2, <2>1, TypePartsNext DEF ClusterOK, ActorsOK
<1>4. CASE AdminDeletes(n)
    <2>1. crds' = [crds EXCEPT ![n] = Absent] /\ handler' = [handler EXCEPT ![n] = HandlerOff]
        BY <1>4 DEF AdminDeletes
    <2>2. crds' \in [Names -> Crd \cup {Absent}] /\ handler' \in [Names -> HandlerRecords]
        BY <1>1, <2>1, HandlerOffType DEF ClusterOK, ActorsOK
    <2>3. ~crds'[n].exists /\ handler'[n].at = "off"
        BY <1>1, <2>1, CrdExists DEF ClusterOK, ActorsOK, HandlerOff
    <2>4. \A m \in Names \ {n} : crds'[m] = crds[m] /\ handler'[m] = handler[m]
        BY <1>1, <2>1 DEF ClusterOK, ActorsOK
    <2>5. QED
        BY <1>1, <1>2, <2>2, <2>3, <2>4, TypePartsNext DEF ClusterOK, ActorsOK
<1>5. QED
    BY <1>3, <1>4 DEF Admin, AdminAdds, AdminEdits

\* A restart keeps the types: kopf resumes what exists.
LEMMA RestartType ==
    ASSUME TypeOK, Restart
    PROVE  TypeOK'
<1>1. ClusterOK /\ ActorsOK /\ CountsOK
    BY TypeParts
<1>2. ClusterOK'
    BY <1>1 DEF Restart, ClusterOK
<1>3. Idle \in SessionRecords
    BY DEF Idle, SessionRecords, NoItems
<1>4. ASSUME NEW n \in Names
      PROVE  /\ [HandlerOff EXCEPT !.at = "due", !.retry = handler[n].retry, !.resumed = TRUE] \in HandlerRecords
             /\ [HandlerOff EXCEPT !.at = "due", !.retry = handler[n].retry, !.resumed = TRUE].at = "due"
    BY <1>1, HandlerOffType DEF ActorsOK, HandlerRecords
<1>5. handler' \in [Names -> HandlerRecords] /\ \A n \in Names : handler'[n].at = "off" <=> ~crds[n].exists
    BY <1>4, HandlerOffType DEF Restart, HandlerOff
<1>6. ActorsOK'
    BY <1>1, <1>3, <1>5 DEF Restart, ActorsOK
<1>7. CountsOK'
    <2>1. edits' \in 0..MaxEdits
        BY <1>1 DEF Restart, CountsOK
    <2>2. restarts' \in 0..MaxRestarts
        <3>1. restarts < MaxRestarts /\ restarts' = restarts + 1
            BY DEF Restart
        <3>2. restarts \in 0..MaxRestarts
            BY <1>1 DEF CountsOK
        <3>3. QED
            BY <3>1, <3>2, AgentConfigsAssumption
    <2>3. disturbed' \in [Sessions -> SUBSET Names]
        BY DEF Restart
    <2>4. QED
        BY <2>1, <2>2, <2>3 DEF CountsOK
<1>8. QED
    BY <1>2, <1>6, <1>7, TypePartsNext

\* A secret that changes keeps the types.
LEMMA SecretType ==
    ASSUME TypeOK, NEW o \in OAuthSpecs, SecretChanges(o)
    PROVE  TypeOK'
<1>1. ClusterOK /\ ActorsOK /\ CountsOK
    BY TypeParts
<1>2. secrets' \in [OAuthSpecs -> SecretStates]
    BY <1>1 DEF SecretChanges, ClusterOK
<1>3. edits' \in 0..MaxEdits
    BY <1>1, AgentConfigsAssumption DEF SecretChanges, CountsOK
<1>4. QED
    BY <1>1, <1>2, <1>3, TypePartsNext DEF SecretChanges, ClusterOK, ActorsOK, CountsOK

\* Every step keeps the types.
LEMMA NextType == TypeOK /\ [Next]_vars => TypeOK'
<1>1. TypeOK /\ UNCHANGED vars => TypeOK'
    BY DEF vars, TypeOK
<1>2. QED
    BY <1>1, LoadType, ControllerType, AdminType, RestartType, SecretType DEF Next

\* The variables keep their types in every behaviour, and the controller has a handler
\* for just the resources that exist.
THEOREM TypeCorrect == Spec => []TypeOK
    BY InitType, NextType, PTL DEF Spec

-----------------------------------------------------------------------------
(* An agent whose status says that it needs a login has its client.        *)

\* A validation that no update overtook reads the present spec; a handler that is
\* done with a login whose secret was complete has registered its client.
ClientOf(n) ==
    /\ handler[n].at = "validating" /\ ~handler[n].dirty => handler[n].spec = crds[n].spec
    /\ handler[n].at = "done" /\ crds[n].status = "login" /\ handler[n].read # "documented" =>
           clients[n] = crds[n].spec

ClientInv == \A n \in Names : ClientOf(n)

\* An agent whose handler, spec and client a step leaves alone stays as it was found,
\* if its status is not made to say that it needs a login.
LEMMA SameClient ==
    ASSUME ClientInv, NEW n \in Names, handler'[n] = handler[n], crds'[n].spec = crds[n].spec,
           crds'[n].status = "login" => crds[n].status = "login", clients'[n] = clients[n]
    PROVE  ClientOf(n)'
    BY DEF ClientInv, ClientOf

\* Storing a resource calls its handler again, or marks what it is reading as stale.
LEMMA StoresClient ==
    ASSUME TypeOK, ClientInv, NEW n \in Names, NEW crd \in Crd, Stores(n, crd), UNCHANGED clients
    PROVE  ClientInv'
<1>1. ClusterOK /\ ActorsOK
    BY TypeParts
<1>2. crds' = [crds EXCEPT ![n] = crd]
    BY DEF Stores
<1>3. CASE crd = crds[n]
    <2>1. handler' = handler /\ crds' = crds
        BY <1>1, <1>2, <1>3 DEF Stores, ClusterOK
    <2>2. QED
        BY <2>1 DEF ClientInv, ClientOf
<1>4. CASE crd # crds[n]
    <2>1. handler' = [handler EXCEPT ![n] = Notified(handler[n])]
        BY <1>4 DEF Stores
    <2>2. handler'[n] = Notified(handler[n])
        BY <1>1, <2>1 DEF ActorsOK
    <2>3. handler'[n].at \in {"due", "validating"} /\ (handler'[n].at = "validating" => handler'[n].dirty)
        <3>1. handler[n] \in HandlerRecords
            BY <1>1 DEF ActorsOK
        <3>2. CASE handler[n].at \in {"off", "done", "failed"}
            BY <2>2, <3>2 DEF Notified, HandlerOff
        <3>3. CASE handler[n].at \notin {"off", "done", "failed"}
            <4>1. handler[n].at \in {"due", "validating"}
                BY <3>1, <3>3 DEF HandlerRecords
            <4>2. handler'[n] = [handler[n] EXCEPT !.dirty = (handler[n].at = "validating")]
                BY <2>2, <3>3 DEF Notified
            <4>3. CASE handler[n].at = "due"
                <5>1. handler'[n].at = "due"
                    BY <3>1, <4>2, <4>3 DEF HandlerRecords
                <5>2. QED
                    BY <5>1
            <4>4. CASE handler[n].at = "validating"
                <5>1. (handler[n].at = "validating") = TRUE
                    BY <4>4
                <5>2. handler'[n] = [handler[n] EXCEPT !.dirty = TRUE]
                    BY <4>2, <5>1, Zenon
                <5>3. handler'[n].at = "validating" /\ handler'[n].dirty
                    BY <3>1, <4>4, <5>2 DEF HandlerRecords
                <5>4. QED
                    BY <5>3
            <4>5. QED
                BY <4>1, <4>3, <4>4
        <3>4. QED
            BY <3>2, <3>3
    <2>4. ClientOf(n)'
        BY <2>3 DEF ClientOf
    <2>5. ASSUME NEW m \in Names \ {n}
          PROVE  ClientOf(m)'
        <3>1. handler'[m] = handler[m] /\ crds'[m] = crds[m]
            BY <1>1, <1>2, <2>1 DEF ClusterOK, ActorsOK
        <3>2. QED
            BY <3>1, SameClient
    <2>6. QED
        BY <2>4, <2>5 DEF ClientInv, ClientOf
<1>5. QED
    BY <1>3, <1>4

\* A status that is patched leaves the specs alone.
LEMMA PatchKeepsSpecs ==
    ASSUME ClusterOK, NEW n \in Names, NEW status \in Statuses, crds[n].exists,
           crds' = [crds EXCEPT ![n].status = status]
    PROVE  /\ crds'[n].status = status
           /\ \A m \in Names : /\ crds'[m].exists = crds[m].exists
                               /\ crds[m].exists => /\ crds'[m].spec = crds[m].spec
                                                    /\ crds'[m].builtIn = crds[m].builtIn
                               /\ crds'[m].spec = crds[m].spec
                               /\ m # n => crds'[m] = crds[m]
<1>1. crds[n] \in Crd
    BY CrdExists DEF ClusterOK
<1>2. crds' = [crds EXCEPT ![n] = [crds[n] EXCEPT !.status = status]]
    OBVIOUS
<1>3. \A m \in Names \ {n} : crds'[m] = crds[m]
    BY <1>2 DEF ClusterOK
<1>4. crds'[n] = [crds[n] EXCEPT !.status = status]
    BY <1>2 DEF ClusterOK
<1>5. /\ crds'[n].exists = crds[n].exists
      /\ crds'[n].spec = crds[n].spec
      /\ crds'[n].builtIn = crds[n].builtIn
      /\ crds'[n].status = status
    BY <1>1, <1>4 DEF Crd
<1>6. QED
    BY <1>3, <1>5

\* A load keeps the clients as they were found: it stores resources and statuses.
LEMMA LoadClient ==
    ASSUME TypeOK, ClientInv, NEW s \in Sessions, Load(s)
    PROVE  ClientInv'
<1>1. ClusterOK /\ ActorsOK
    BY TypeParts
<1>2. ASSUME UNCHANGED <<crds, handler, clients>>
      PROVE  ClientInv'
    BY <1>2 DEF ClientInv, ClientOf
<1>3. ASSUME NEW n \in Names, SyncDefault(s, n)
      PROVE  ClientInv'
    <2>1. (IF crds[n].exists THEN crds[n] ELSE DefaultCrd) \in Crd
        BY <1>1, CrdExists, DefaultType DEF ClusterOK
    <2>2. crds[n].exists => [DefaultCrd EXCEPT !.status = crds[n].status] \in Crd
        <3>1. crds[n].exists => crds[n] \in Crd
            BY <1>1, CrdExists DEF ClusterOK
        <3>2. DefaultCrd \in Crd
            BY <1>1, DefaultType
        <3>3. QED
            BY <3>1, <3>2 DEF Crd
    <2>3. \/ UNCHANGED <<crds, handler>>
          \/ \E crd \in Crd : Stores(n, crd)
        BY <1>3, <2>1, <2>2 DEF SyncDefault
    <2>4. QED
        BY <1>2, <1>3, <2>3, StoresClient DEF SyncDefault
<1>4. ASSUME NEW n \in Names, LoadTools(s, n)
      PROVE  ClientInv'
    <2>1. \/ crds' = crds
          \/ \E status \in {"ready", "failed"} : crds[n].exists /\ crds' = [crds EXCEPT ![n].status = status]
        BY <1>4 DEF LoadTools, ReportStatus
    <2>2. {"ready", "failed"} \subseteq Statuses
        BY DEF Statuses
    <2>3. \A m \in Names : crds'[m].spec = crds[m].spec /\ (crds'[m].status = "login" => crds[m].status = "login")
        BY <1>1, <2>1, <2>2, PatchKeepsSpecs
    <2>4. \A m \in Names : ClientOf(m)'
        BY <1>4, <2>3, SameClient DEF LoadTools
    <2>5. QED
        BY <2>4 DEF ClientInv
<1>5. QED
    BY <1>2, <1>3, <1>4 DEF Load, ListConfigs, SyncFails, ListAgain, ListFails, LoadEnds

\* An attempt that ends finds what is so: the client it registers has the spec it read,
\* which is the present one unless an update made the handler due.
LEMMA EndsClient ==
    ASSUME TypeOK, ClientInv, NEW n \in Names, AttemptEnds(n)
    PROVE  ClientInv'
<1>1. ClusterOK /\ ActorsOK
    BY TypeParts
<1>2. PICK status \in Statuses, next \in {"due", "done", "failed"} :
          /\ Ends(n, status, next)
          /\ status = "login" => handler[n].spec \in OAuthSpecs
          /\ \/ clients' = clients
             \/ clients' = [clients EXCEPT ![n] = handler[n].spec]
          /\ status = "login" /\ next = "done" =>
                 \/ secrets[handler[n].spec] = "documented"
                 \/ clients' = [clients EXCEPT ![n] = handler[n].spec]
    BY AttemptEndsHow
<1>3. /\ crds[n].exists /\ crds' = [crds EXCEPT ![n].status = status]
      /\ crds'[n].status = status
      /\ \A m \in Names \ {n} : handler'[m] = handler[m] /\ crds'[m] = crds[m]
      /\ handler'[n].at = (IF next = "due" \/ handler[n].dirty THEN "due" ELSE next)
      /\ next # "due" /\ status = "login" => handler'[n].read = secrets[handler[n].spec]
    BY <1>1, <1>2, EndsDoes
<1>4. crds'[n].spec = crds[n].spec
    BY <1>1, <1>3, PatchKeepsSpecs
<1>5. \A m \in Names \ {n} : clients'[m] = clients[m]
    BY <1>1, <1>2 DEF ClusterOK
<1>6. \A m \in Names \ {n} : ClientOf(m)'
    BY <1>3, <1>5, SameClient
<1>7. ClientOf(n)'
    <2>1. handler'[n].at # "validating"
        BY <1>3
    <2>2. ASSUME handler'[n].at = "done", crds'[n].status = "login", handler'[n].read # "documented"
          PROVE  clients'[n] = crds'[n].spec
        <3>1. next = "done" /\ ~handler[n].dirty /\ status = "login"
            BY <1>3, <2>2
        <3>2. clients' = [clients EXCEPT ![n] = handler[n].spec]
            BY <1>2, <1>3, <2>2, <3>1
        <3>3. handler[n].spec = crds[n].spec
            BY <1>2, <3>1 DEF ClientInv, ClientOf, Ends
        <3>4. QED
            BY <1>1, <1>4, <3>2, <3>3 DEF ClusterOK
    <2>3. QED
        BY <2>1, <2>2 DEF ClientOf
<1>8. QED
    BY <1>6, <1>7 DEF ClientInv

\* The controller leaves every login it found with its client.
LEMMA ControllerClient ==
    ASSUME TypeOK, ClientInv, NEW n \in Names, Controller(n)
    PROVE  ClientInv'
<1>1. ClusterOK /\ ActorsOK
    BY TypeParts
<1>2. ASSUME NEW new \in HandlerRecords, handler' = [handler EXCEPT ![n] = new],
             new.at \in {"due", "failed"} \/ (new.at = "validating" /\ new.spec = crds[n].spec),
             UNCHANGED <<crds, clients>>
      PROVE  ClientInv'
    <2>1. handler'[n] = new /\ \A m \in Names \ {n} : handler'[m] = handler[m]
        BY <1>1, <1>2 DEF ActorsOK
    <2>2. ClientOf(n)'
        BY <1>2, <2>1 DEF ClientOf
    <2>3. \A m \in Names \ {n} : ClientOf(m)'
        BY <1>2, <2>1, SameClient
    <2>4. QED
        BY <2>2, <2>3 DEF ClientInv
<1>3. handler[n] \in HandlerRecords
    BY <1>1 DEF ActorsOK
<1>4. CASE Attempt(n)
    <2> DEFINE new == [handler[n] EXCEPT !.at = "validating", !.spec = crds[n].spec]
    <2>1. crds[n].spec \in Specs
        <3>1. crds[n].exists
            BY <1>1, <1>4 DEF Attempt, ActorsOK
        <3>2. QED
            BY <1>1, <3>1, CrdExists DEF ClusterOK, Crd
    <2>2. new \in HandlerRecords /\ new.at = "validating" /\ new.spec = crds[n].spec
        BY <1>3, <2>1 DEF HandlerRecords
    <2>3. handler' = [handler EXCEPT ![n] = new] /\ UNCHANGED <<crds, clients>>
        BY <1>4 DEF Attempt
    <2> HIDE DEF new
    <2>4. QED
        BY <1>2, <2>2, <2>3
<1>5. CASE AttemptRaises(n)
    <2>1. Again(handler[n]) \in HandlerRecords /\ Again(handler[n]).at = "due"
        BY <1>3, AgainType
    <2>2. QED
        BY <1>2, <1>5, <2>1 DEF AttemptRaises
<1>6. CASE TimesOut(n)
    <2>1. [HandlerOff EXCEPT !.at = "failed"] \in HandlerRecords /\ [HandlerOff EXCEPT !.at = "failed"].at = "failed"
        BY HandlerOffType DEF HandlerRecords
    <2>2. QED
        BY <1>2, <1>6, <2>1 DEF TimesOut
<1>7. QED
    BY <1>4, <1>5, <1>6, EndsClient DEF Controller

\* Every step leaves every login that was found with its client.
LEMMA NextClient == TypeOK /\ ClientInv /\ [Next]_vars => ClientInv'
<1> SUFFICES ASSUME TypeOK, ClientInv, [Next]_vars
             PROVE  ClientInv'
    OBVIOUS
<1>1. ClusterOK /\ ActorsOK
    BY TypeParts
<1>2. ASSUME NEW n \in Names, Admin(n)
      PROVE  ClientInv'
    <2>1. UNCHANGED clients
        BY <1>2 DEF Admin, AdminAdds, AdminEdits, AdminDeletes, Intervenes
    <2>2. CASE \E crd \in Crd : Stores(n, crd)
        BY <2>1, <2>2, StoresClient
    <2>3. CASE AdminDeletes(n)
        <3>1. crds' = [crds EXCEPT ![n] = Absent] /\ handler' = [handler EXCEPT ![n] = HandlerOff]
            BY <2>3 DEF AdminDeletes
        <3>2. handler'[n].at = "off"
            BY <1>1, <3>1 DEF ActorsOK, HandlerOff
        <3>3. \A m \in Names \ {n} : crds'[m] = crds[m] /\ handler'[m] = handler[m]
            BY <1>1, <3>1 DEF ClusterOK, ActorsOK
        <3>4. ClientOf(n)' /\ \A m \in Names \ {n} : ClientOf(m)'
            BY <2>1, <3>2, <3>3, SameClient DEF ClientOf
        <3>5. QED
            BY <3>4 DEF ClientInv
    <2>4. QED
        BY <1>2, <2>2, <2>3 DEF Admin, AdminAdds, AdminEdits
<1>3. CASE Restart
    <2>1. \A n \in Names : handler'[n].at \in {"due", "off"}
        BY <1>3 DEF Restart, HandlerOff
    <2>2. QED
        BY <2>1 DEF ClientInv, ClientOf
<1>4. CASE UNCHANGED vars
    BY <1>4 DEF vars, ClientInv, ClientOf
<1>5. ASSUME NEW o \in OAuthSpecs, SecretChanges(o)
      PROVE  ClientInv'
    BY <1>5 DEF SecretChanges, ClientInv, ClientOf
<1>6. QED
    BY <1>2, <1>3, <1>4, <1>5, LoadClient, ControllerClient DEF Next

\* An agent whose status says that it needs a login has its client, with the agent's
\* present spec, once the controller is done with it, unless the secret it read was
\* incomplete: an update that overtakes a validation makes the handler due again.
THEOREM LoginsHaveClients == Spec => []RegisteredWhenDone
<1>1. Init => ClientInv
    BY DEF Init, HandlerOff, ClientInv, ClientOf
<1>2. ClientInv => RegisteredWhenDone
    BY DEF ClientInv, ClientOf, RegisteredWhenDone
<1>3. QED
    BY <1>1, <1>2, InitType, NextType, NextClient, PTL DEF Spec

-----------------------------------------------------------------------------
(* What a load does to the agents that others leave alone meanwhile.       *)

\* The fields of a resource that a status does not change.
SameAgent(c, d) == /\ c.exists = d.exists
                   /\ c.exists => c.builtIn = d.builtIn /\ c.spec = d.spec

\* A built-in agent as a load leaves it.
UpToDate(crd) == crd.exists /\ (crd.builtIn => crd.spec = version)

\* Of a load: what it has yet to look at is as it was listed, and what it looked at is
\* up to date, but for the agents that others changed or it could not write.
LoadKnows(s) ==
    session[s].at = "syncing" =>
        /\ \A n \in session[s].todo \ disturbed[s] : SameAgent(session[s].items[n], crds[n])
        /\ \A n \in Defaults \ disturbed[s] : n \notin session[s].todo => UpToDate(crds[n])

\* One load is at it at a time, for it does not wait.
OneLoads == \A s, t \in Sessions : session[s].at = "syncing" /\ session[t].at = "syncing" => s = t

LoadInv == OneLoads /\ \A s \in Sessions : LoadKnows(s)

\* A load that a step leaves alone knows as much as before, if the step leaves the
\* agents alone but for their statuses and for those it disturbs.
LEMMA SameLoad ==
    ASSUME TypeOK, LoadInv, NEW s \in Sessions, session'[s] = session[s],
           disturbed[s] \subseteq disturbed'[s], version' = version,
           \A n \in Names \ disturbed'[s] :
               /\ crds'[n].exists = crds[n].exists
               /\ crds[n].exists => /\ crds'[n].spec = crds[n].spec
                                    /\ crds'[n].builtIn = crds[n].builtIn
    PROVE  LoadKnows(s)'
<1>1. session[s].todo \subseteq Names
    BY TypeParts DEF ActorsOK, SessionRecords
<1>2. SUFFICES ASSUME session[s].at = "syncing"
               PROVE  /\ \A n \in session[s].todo \ disturbed'[s] : SameAgent(session[s].items[n], crds'[n])
                      /\ \A n \in Defaults \ disturbed'[s] : n \notin session[s].todo => UpToDate(crds[n])'
    BY DEF LoadKnows
<1>3. /\ \A n \in session[s].todo \ disturbed[s] : SameAgent(session[s].items[n], crds[n])
      /\ \A n \in Defaults \ disturbed[s] : n \notin session[s].todo => UpToDate(crds[n])
    BY <1>2 DEF LoadInv, LoadKnows
<1>4. ASSUME NEW n \in session[s].todo \ disturbed'[s]
      PROVE  SameAgent(session[s].items[n], crds'[n])
    BY <1>1, <1>3 DEF SameAgent
<1>5. ASSUME NEW n \in Defaults \ disturbed'[s], n \notin session[s].todo
      PROVE  UpToDate(crds[n])'
    <2>1. n \in Names /\ UpToDate(crds[n])
        BY <1>3, <1>5 DEF Names
    <2>2. crds[n].exists /\ crds'[n].exists
        BY <2>1 DEF UpToDate
    <2>3. crds'[n].spec = crds[n].spec /\ crds'[n].builtIn = crds[n].builtIn
        BY <2>1, <2>2
    <2>4. QED
        BY <2>1, <2>2, <2>3 DEF UpToDate
<1>6. QED
    BY <1>4, <1>5

\* The status of an agent is all that the controller and a loading session patch.
LEMMA StatusLoad ==
    ASSUME TypeOK, NEW n \in Names, \/ crds' = crds
                                   \/ \E status \in Statuses : crds[n].exists /\ crds' = [crds EXCEPT ![n].status = status]
    PROVE  \A m \in Names : /\ crds'[m].exists = crds[m].exists
                            /\ crds[m].exists => /\ crds'[m].spec = crds[m].spec
                                                 /\ crds'[m].builtIn = crds[m].builtIn
<1>1. ClusterOK
    BY TypeParts
<1>2. QED
    BY <1>1, PatchKeepsSpecs

\* The step of a load on one default: an agent that is up to date, or not its own,
\* stays as it is, and one that is missing or drifted gets the default.
LEMMA SyncDefaultDoes ==
    ASSUME TypeOK, LoadInv, NEW s \in Sessions, NEW n \in Names, SyncDefault(s, n),
           n \notin disturbed[s]
    PROVE  /\ UpToDate(crds[n])'
           /\ \A m \in Names \ {n} : crds'[m] = crds[m]
           /\ crds[n].exists /\ ~crds[n].builtIn => UNCHANGED crds
<1> DEFINE listed == session[s].items[n]
<1>1. ClusterOK /\ ActorsOK
    BY TypeParts
<1>2. SameAgent(listed, crds[n]) /\ version' = version
    BY DEF LoadInv, LoadKnows, SyncDefault
<1>3. CASE ~listed.exists
    <2>1. ~crds[n].exists
        BY <1>2, <1>3 DEF SameAgent
    <2>2. Stores(n, DefaultCrd)
        BY <1>3, <2>1 DEF SyncDefault
    <2>3. crds'[n] = DefaultCrd /\ \A m \in Names \ {n} : crds'[m] = crds[m]
        BY <1>1, <2>2 DEF Stores, ClusterOK
    <2>4. crds'[n].exists /\ crds'[n].spec = version
        BY <2>3 DEF DefaultCrd
    <2>5. QED
        BY <1>2, <2>1, <2>3, <2>4 DEF UpToDate
<1>4. CASE listed.exists /\ Drifts(listed)
    <2>1. crds[n].exists /\ crds[n].builtIn
        BY <1>2, <1>4 DEF SameAgent, Drifts
    <2>2. Stores(n, [DefaultCrd EXCEPT !.status = crds[n].status])
        BY <1>4, <2>1 DEF SyncDefault
    <2>3. crds'[n] = [DefaultCrd EXCEPT !.status = crds[n].status] /\ \A m \in Names \ {n} : crds'[m] = crds[m]
        BY <1>1, <2>2 DEF Stores, ClusterOK
    <2>4. crds'[n].exists /\ crds'[n].spec = version
        BY <2>3 DEF DefaultCrd
    <2>5. QED
        BY <1>2, <2>1, <2>3, <2>4 DEF UpToDate
<1>5. CASE listed.exists /\ ~Drifts(listed)
    <2>1. crds' = crds
        BY <1>5 DEF SyncDefault
    <2>2. crds[n].exists /\ (crds[n].builtIn => crds[n].spec = version)
        BY <1>2, <1>5 DEF SameAgent, Drifts
    <2>3. QED
        BY <1>2, <2>1, <2>2 DEF UpToDate
<1>6. QED
    BY <1>3, <1>4, <1>5

\* A step that leaves every session alone, and the agents but for their statuses.
LEMMA OthersLoad ==
    ASSUME TypeOK, LoadInv, NEW n \in Names,
           \/ crds' = crds
           \/ \E status \in Statuses : crds[n].exists /\ crds' = [crds EXCEPT ![n].status = status],
           UNCHANGED <<version, session, disturbed>>
    PROVE  LoadInv'
<1>1. \A s \in Sessions : LoadKnows(s)'
    BY StatusLoad, SameLoad
<1>2. QED
    BY <1>1 DEF LoadInv, OneLoads

\* A session's load knows what it has to, and those of the other sessions too.
LEMMA LoadLoad ==
    ASSUME TypeOK, LoadInv, NEW s \in Sessions, Load(s)
    PROVE  LoadInv'
<1>1. ClusterOK /\ ActorsOK /\ CountsOK
    BY TypeParts
<1>2. session[s] \in SessionRecords
    BY <1>1 DEF ActorsOK
<1>3. ASSUME NEW new, session' = [session EXCEPT ![s] = new], new.at # "syncing",
             UNCHANGED <<version, disturbed>>, NEW n \in Names,
             \/ crds' = crds
             \/ \E status \in Statuses : crds[n].exists /\ crds' = [crds EXCEPT ![n].status = status]
      PROVE  LoadInv'
    <2>1. session'[s].at # "syncing" /\ \A t \in Sessions \ {s} : session'[t] = session[t]
        BY <1>1, <1>3 DEF ActorsOK
    <2>2. \A t \in Sessions \ {s} : LoadKnows(t)'
        BY <1>3, <2>1, StatusLoad, SameLoad
    <2>3. LoadKnows(s)'
        BY <2>1 DEF LoadKnows
    <2>4. QED
        BY <2>1, <2>2, <2>3 DEF LoadInv, OneLoads
<1>4. CASE ListConfigs(s)
    <2> DEFINE new == [Idle EXCEPT !.at = "syncing", !.items = crds, !.todo = Defaults]
    <2>1. new.items = crds /\ new.todo = Defaults
        BY DEF Idle
    <2>2. session' = [session EXCEPT ![s] = new] /\ crds' = crds /\ version' = version
        BY <1>4 DEF ListConfigs
    <2> HIDE DEF new
    <2>3. session'[s] = new /\ \A t \in Sessions \ {s} : session'[t] = session[t] /\ session[t].at # "syncing"
        BY <1>1, <1>4, <2>2 DEF ListConfigs, ActorsOK
    <2>4. LoadKnows(s)'
        BY <2>1, <2>2, <2>3 DEF LoadKnows, SameAgent
    <2>5. \A t \in Sessions \ {s} : LoadKnows(t)'
        BY <2>3 DEF LoadKnows
    <2>6. QED
        BY <2>3, <2>4, <2>5 DEF LoadInv, OneLoads
<1>5. ASSUME NEW n \in Names, SyncDefault(s, n)
      PROVE  LoadInv'
    <2> DEFINE new == [session[s] EXCEPT !.todo = @ \ {n}]
    <2>1. session' = [session EXCEPT ![s] = new] /\ session[s].at = "syncing"
          /\ UNCHANGED <<version, disturbed>>
        BY <1>5 DEF SyncDefault
    <2>2. new.at = "syncing" /\ new.items = session[s].items /\ new.todo = session[s].todo \ {n}
        BY <1>2, <2>1 DEF SessionRecords
    <2> HIDE DEF new
    <2>3. session'[s] = new /\ \A t \in Sessions \ {s} : session'[t] = session[t] /\ session[t].at # "syncing"
        BY <1>1, <2>1 DEF ActorsOK, LoadInv, OneLoads
    <2>4. LoadKnows(s)'
        <3>1. n \notin disturbed[s] => UpToDate(crds[n])'
            BY <1>5, SyncDefaultDoes
        <3>2. \A m \in Names \ {n} : crds'[m] = crds[m]
            BY <1>1, <1>5 DEF SyncDefault, Stores, ClusterOK
        <3>3. session[s].todo \subseteq Names /\ Defaults \subseteq Names
            BY <1>2 DEF SessionRecords, Names
        <3>4. /\ \A m \in session[s].todo \ disturbed[s] : SameAgent(session[s].items[m], crds[m])
              /\ \A m \in Defaults \ disturbed[s] : m \notin session[s].todo => UpToDate(crds[m])
            BY <2>1 DEF LoadInv, LoadKnows
        <3>5. \A m \in new.todo \ disturbed'[s] : SameAgent(session[s].items[m], crds'[m])
            BY <2>1, <2>2, <3>2, <3>3, <3>4
        <3>6. ASSUME NEW m \in Defaults \ disturbed'[s], m \notin new.todo
              PROVE  UpToDate(crds[m])'
            <4>1. CASE m = n
                BY <2>1, <3>1, <4>1
            <4>2. CASE m # n
                BY <2>1, <2>2, <3>2, <3>3, <3>4, <3>6, <4>2 DEF UpToDate
            <4>3. QED
                BY <4>1, <4>2
        <3>7. QED
            BY <2>2, <2>3, <3>5, <3>6 DEF LoadKnows
    <2>5. \A t \in Sessions \ {s} : LoadKnows(t)'
        BY <2>3 DEF LoadKnows
    <2>6. QED
        BY <2>3, <2>4, <2>5 DEF LoadInv, OneLoads
<1>6. ASSUME NEW n \in Names, SyncFails(s, n)
      PROVE  LoadInv'
    <2> DEFINE new == [session[s] EXCEPT !.todo = @ \ {n}]
    <2>1. session' = [session EXCEPT ![s] = new] /\ session[s].at = "syncing"
          /\ disturbed' = [disturbed EXCEPT ![s] = @ \cup {n}] /\ UNCHANGED <<version, crds>>
        BY <1>6 DEF SyncFails
    <2>2. new.at = "syncing" /\ new.items = session[s].items /\ new.todo = session[s].todo \ {n}
        BY <1>2, <2>1 DEF SessionRecords
    <2> HIDE DEF new
    <2>3. session'[s] = new /\ \A t \in Sessions \ {s} : session'[t] = session[t] /\ session[t].at # "syncing"
        BY <1>1, <2>1 DEF ActorsOK, LoadInv, OneLoads
    <2>4. disturbed'[s] = disturbed[s] \cup {n}
        BY <1>1, <2>1 DEF CountsOK
    <2>5. /\ \A m \in session[s].todo \ disturbed[s] : SameAgent(session[s].items[m], crds[m])
          /\ \A m \in Defaults \ disturbed[s] : m \notin session[s].todo => UpToDate(crds[m])
        BY <2>1 DEF LoadInv, LoadKnows
    <2>6. /\ \A m \in new.todo \ disturbed'[s] : SameAgent(new.items[m], crds'[m])
          /\ \A m \in Defaults \ disturbed'[s] : m \notin new.todo => UpToDate(crds[m])'
        BY <2>1, <2>2, <2>4, <2>5 DEF UpToDate
    <2>7. LoadKnows(s)' /\ \A t \in Sessions \ {s} : LoadKnows(t)'
        BY <2>3, <2>6 DEF LoadKnows
    <2>8. QED
        BY <2>3, <2>7 DEF LoadInv, OneLoads
<1>7. CASE ListAgain(s) \/ ListFails(s) \/ LoadEnds(s)
    <2> DEFINE listed == [Idle EXCEPT !.at = "loading",
                              !.todo = {n \in Names : crds[n].exists /\ crds[n].enabled},
                              !.ready = {n \in Names : crds[n].exists /\ crds[n].status \in {"ready", "login"}}]
    <2>1. listed.at # "syncing" /\ Idle.at # "syncing"
        BY DEF Idle
    <2>2. \/ session' = [session EXCEPT ![s] = listed]
          \/ session' = [session EXCEPT ![s] = Idle]
        BY <1>7 DEF ListAgain, ListFails, LoadEnds
    <2>3. UNCHANGED <<crds, version, disturbed>>
        BY <1>7 DEF ListAgain, ListFails, LoadEnds
    <2> HIDE DEF listed
    <2>4. PICK new : session' = [session EXCEPT ![s] = new] /\ new.at # "syncing"
        BY <2>1, <2>2
    <2>5. CASE Names = {}
        <3>1. session'[s].at # "syncing" /\ \A t \in Sessions \ {s} : session'[t] = session[t]
            BY <1>1, <2>4 DEF ActorsOK
        <3>2. \A t \in Sessions : LoadKnows(t)'
            BY <2>3, <3>1 DEF LoadInv, LoadKnows, UpToDate
        <3>3. QED
            BY <3>1, <3>2 DEF LoadInv, OneLoads
    <2>6. ASSUME NEW n \in Names
          PROVE  LoadInv'
        BY <1>3, <2>3, <2>4
    <2>7. QED
        BY <2>5, <2>6
<1>8. ASSUME NEW n \in Names, LoadTools(s, n)
      PROVE  LoadInv'
    <2> DEFINE new == [session[s] EXCEPT !.todo = @ \ {n}]
    <2>1. new.at # "syncing" /\ session' = [session EXCEPT ![s] = new]
        BY <1>2, <1>8 DEF LoadTools, SessionRecords
    <2>2. \/ crds' = crds
          \/ \E status \in Statuses : crds[n].exists /\ crds' = [crds EXCEPT ![n].status = status]
        BY <1>8 DEF LoadTools, ReportStatus, Statuses
    <2>3. UNCHANGED <<version, disturbed>>
        BY <1>8 DEF LoadTools
    <2> HIDE DEF new
    <2>4. QED
        BY <1>3, <2>1, <2>2, <2>3
<1>9. QED
    BY <1>4, <1>5, <1>6, <1>7, <1>8 DEF Load

\* Every step leaves the loads with what they know.
LEMMA NextLoad == TypeOK /\ LoadInv /\ [Next]_vars => LoadInv'
<1> SUFFICES ASSUME TypeOK, LoadInv, [Next]_vars
             PROVE  LoadInv'
    OBVIOUS
<1>1. ClusterOK /\ ActorsOK /\ CountsOK
    BY TypeParts
<1>2. ASSUME NEW n \in Names, Admin(n)
      PROVE  LoadInv'
    <2>1. session' = session /\ version' = version /\ \A s \in Sessions : disturbed'[s] = disturbed[s] \cup {n}
        BY <1>2 DEF Admin, AdminAdds, AdminEdits, AdminDeletes, Intervenes
    <2>2. \A m \in Names \ {n} : crds'[m] = crds[m]
        BY <1>1, <1>2 DEF Admin, AdminAdds, AdminEdits, AdminDeletes, Stores, ClusterOK
    <2>3. \A s \in Sessions : LoadKnows(s)'
        BY <2>1, <2>2, SameLoad
    <2>4. QED
        BY <2>1, <2>3 DEF LoadInv, OneLoads
<1>3. ASSUME NEW n \in Names, Controller(n)
      PROVE  LoadInv'
    <2>1. CASE Attempt(n) \/ AttemptRaises(n) \/ TimesOut(n)
        BY <2>1, OthersLoad DEF Attempt, AttemptRaises, TimesOut
    <2>2. CASE AttemptEnds(n)
        <3>1. PICK status \in Statuses, next \in {"due", "done", "failed"} : Ends(n, status, next)
            BY <2>2, AttemptEndsHow
        <3>2. crds[n].exists
            BY <1>1, <3>1 DEF Ends, ActorsOK
        <3>3. crds' = [crds EXCEPT ![n].status = status] /\ UNCHANGED <<version, session, disturbed>>
            BY <3>1 DEF Ends
        <3>4. QED
            BY <3>2, <3>3, OthersLoad
    <2>3. QED
        BY <1>3, <2>1, <2>2 DEF Controller
<1>4. CASE Restart
    <2>1. \A s \in Sessions : session'[s].at = "idle"
        BY <1>4 DEF Restart, Idle
    <2>2. QED
        BY <2>1 DEF LoadInv, OneLoads, LoadKnows
<1>5. CASE UNCHANGED vars
    BY <1>5 DEF vars, LoadInv, OneLoads, LoadKnows, UpToDate
<1>6. ASSUME NEW o \in OAuthSpecs, SecretChanges(o)
      PROVE  LoadInv'
    BY <1>6 DEF SecretChanges, LoadInv, OneLoads, LoadKnows, UpToDate
<1>7. QED
    BY <1>2, <1>3, <1>4, <1>5, <1>6, LoadLoad DEF Next

\* No load is under way initially.
LEMMA InitLoad == Init => LoadInv
    BY DEF Init, Idle, LoadInv, OneLoads, LoadKnows

\* A load that comes to its end leaves every built-in agent in the cluster, with the
\* fields of the program's version unless the administrator made it his own: all but
\* those that others changed meanwhile or that could not be written.
THEOREM LoadsLeaveDefaults == Spec => LoadLeavesDefaults
<1>1. TypeOK /\ LoadInv =>
          [\A s \in Sessions :
               ListAgain(s) =>
                   \A n \in Defaults \ disturbed[s] :
                       crds[n].exists /\ (crds[n].builtIn => crds[n].spec = version)]_vars
    <2> SUFFICES ASSUME LoadInv, NEW s \in Sessions, ListAgain(s), NEW n \in Defaults \ disturbed[s]
                 PROVE  crds[n].exists /\ (crds[n].builtIn => crds[n].spec = version)
        OBVIOUS
    <2>1. QED
        BY DEF LoadInv, LoadKnows, ListAgain, UpToDate
<1>2. QED
    BY <1>1, InitType, NextType, InitLoad, NextLoad, PTL DEF Spec, LoadLeavesDefaults

\* A load changes no agent of the administrator's own, in every behaviour, unless it
\* became his own while the load was under way.
THEOREM LoadsKeepOwn == Spec => OwnIsKept
<1>1. TypeOK /\ LoadInv =>
          [\A s \in Sessions, n \in Names :
               SyncDefault(s, n) /\ n \notin disturbed[s] /\ crds[n].exists /\ ~crds[n].builtIn =>
                   UNCHANGED crds]_vars
    BY SyncDefaultDoes
<1>2. QED
    BY <1>1, InitType, NextType, InitLoad, NextLoad, PTL DEF Spec, OwnIsKept

=============================================================================
