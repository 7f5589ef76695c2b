------------------------------- MODULE OAuth -------------------------------
(***************************************************************************)
(* The OAuth2 login of a child agent (services/oauth2, routers/oauth2.py): *)
(* a tab's session waits on its websocket while its browser logs in on     *)
(* another page; the callback of that page leaves the tokens in a store of *)
(* the process, from which the session takes them once.                    *)
(*                                                                         *)
(* Abstracted data: a state parameter is the number of its login, a token  *)
(* the number of its grant; one tick of the clock is any fixed time.  What *)
(* the browser does is translated from the repository's test page          *)
(* (routers/testui.html).                                                  *)
(*                                                                         *)
(* Assumed: RANCHER_API_TOKEN is not set.  Where it is, it takes the place *)
(* of every browser's R_SESS cookie in the keys of the store (handler.py,  *)
(* lines 116 and 140; routers/oauth2.py, lines 34 and 197): the store does *)
(* not tell browsers apart, and what is said of two of them does not hold. *)
(***************************************************************************)
EXTENDS Naturals, Sequences, FiniteSets

CONSTANTS
    Browsers,      \* browser sessions (R_SESS cookies)
    Tabs,          \* open pages, each with a websocket
    BrowserOf,     \* the browser of each tab
    Agents,        \* child agents behind OAuth2
    TTL,           \* _TTL_SECONDS, in ticks
    Period,        \* the sleep of the cleanup task, in ticks
    MaxLogins,     \* bound: logins started
    MaxGrants,     \* bound: tokens issued by the providers
    MaxFaults      \* bound: faults that happen

ASSUME OAuthAssumption ==
    /\ BrowserOf \in [Tabs -> Browsers]
    /\ TTL \in Nat /\ Period \in Nat \ {0}
    /\ MaxLogins \in Nat /\ MaxGrants \in Nat /\ MaxFaults \in Nat

VARIABLES
    logins,     \* logins started: the tab and the agent of each
    states,     \* _state_store: age of the entry of each login, or Gone
    tokens,     \* _token_store: grant and age of the entry of each key
    nap,        \* ticks until the cleanup task wakes, Off before its start
    cookies,    \* per browser: the tokens it keeps as cookies
    tab,        \* per tab: its place in the handler, the cookies of its socket
    mail,       \* per tab: messages to the websocket not read yet
    callbacks,  \* callbacks being served: logins whose state was taken
    broadcasts, \* browsers to which a callback answered, success not announced
    faults,     \* faults so far
    grants,     \* history: the browser and the agent of each grant
    taken,      \* history: per login, how often its state was taken
    injected    \* history: the tabs each grant was handed to

store == <<states, tokens, nap>>
vars == <<logins, store, cookies, tab, mail, callbacks, broadcasts,
          faults, grants, taken, injected>>

Gone == TTL + Period + 2
Off == Period + 1
NoGrant == 0
NoAgent == ""
Logins == 1..MaxLogins
Grants == 1..MaxGrants
Ages == 0..(TTL + Period + 1)
Kinds == {"access", "refresh"}
Keys == Browsers \X Agents \X Kinds
NoToken == [grant |-> NoGrant, age |-> 0]

NoCookies == [access |-> [a \in Agents |-> NoGrant], refresh |-> {}]

Init ==
    /\ logins = << >>
    /\ states = [f \in Logins |-> Gone]
    /\ tokens = [k \in Keys |-> NoToken]
    /\ nap = Off
    /\ cookies = [b \in Browsers |-> NoCookies]
    /\ tab = [t \in Tabs |-> [at |-> "idle", agent |-> NoAgent, cookies |-> NoCookies]]
    /\ mail = [t \in Tabs |-> << >>]
    /\ callbacks = {} /\ broadcasts = {} /\ faults = 0
    /\ grants = << >> /\ taken = [f \in Logins |-> 0]
    /\ injected = [g \in Grants |-> {}]

-----------------------------------------------------------------------------
(* The store.                                                              *)

\* Mutant: the cleanup is left to a lifecycle that nobody calls.
CleanupNeverStarts == UNCHANGED nap

\* _ensure_cleanup_running
EnsureCleanup == nap' = IF nap = Off THEN Period ELSE nap

\* Mutant: the key leaves out the session.
KeyWithoutSession(b, a, kind) == <<CHOOSE x \in Browsers : TRUE, a, kind>>

\* _make_key of the session token and the cookie name.
TokenKey(b, a, kind) == <<b, a, kind>>

\* A state is found by the session that stored it.
HasState(b, f) == f <= Len(logins) /\ states[f] # Gone /\ BrowserOf[logins[f].tab] = b

\* Mutant: the state is read, not taken.
KeepState(f) == UNCHANGED states

PopState(f) == states' = [states EXCEPT ![f] = Gone]

PopToken(key) == tokens' = [tokens EXCEPT ![key] = NoToken]

Older(age) == IF age > TTL + Period THEN age ELSE age + 1

Tick ==
    /\ nap # 0 /\ nap' = IF nap = Off THEN Off ELSE nap - 1
    /\ states' = [f \in Logins |-> IF states[f] = Gone THEN Gone ELSE Older(states[f])]
    /\ tokens' = [k \in Keys |-> IF tokens[k] = NoToken THEN NoToken
                                 ELSE [tokens[k] EXCEPT !.age = Older(@)]]
    /\ UNCHANGED <<logins, cookies, tab, mail, callbacks, broadcasts,
                   faults, grants, taken, injected>>

\* Mutant: only the states are looked at.
EvictsStates ==
    /\ states' = [f \in Logins |-> IF states[f] > TTL THEN Gone ELSE states[f]]
    /\ UNCHANGED tokens

\* _evict_expired
EvictExpired ==
    /\ states' = [f \in Logins |-> IF states[f] > TTL THEN Gone ELSE states[f]]
    /\ tokens' = [k \in Keys |-> IF tokens[k].age > TTL THEN NoToken ELSE tokens[k]]

Cleanup ==
    /\ nap = 0 /\ nap' = Period
    /\ EvictExpired
    /\ UNCHANGED <<logins, cookies, tab, mail, callbacks, broadcasts,
                   faults, grants, taken, injected>>

-----------------------------------------------------------------------------
(* The session of a tab: handle_oauth_authentication and its caller.       *)

At(t, place) == tab[t].at = place
Goes(t, place) == tab' = [tab EXCEPT ![t].at = place]

\* The end of _initiate_oauth_flow: the login is started, or cannot be (no
\* client is registered, or the provider's metadata cannot be read).
StartLogin(t, a) ==
    \/ /\ Len(logins) < MaxLogins
       /\ logins' = Append(logins, [tab |-> t, agent |-> a])
       /\ states' = [states EXCEPT ![Len(logins) + 1] = 0]
       /\ EnsureCleanup
       /\ tab' = [tab EXCEPT ![t].at = "login", ![t].agent = a]
    \/ /\ Goes(t, "idle")
       /\ UNCHANGED <<logins, states, nap>>

\* A request needs the tools of an agent that the socket has no valid token for.
\* With a refresh token among the socket's cookies, the client is asked to refresh.
NeedsLogin(t, a) ==
    /\ At(t, "idle") /\ mail[t] = << >>
    /\ IF a \in tab[t].cookies.refresh
       THEN /\ tab' = [tab EXCEPT ![t].at = "refresh", ![t].agent = a]
            /\ UNCHANGED <<logins, states, nap>>
       ELSE StartLogin(t, a)
    /\ UNCHANGED <<tokens, cookies, mail, callbacks, broadcasts, faults, grants, taken, injected>>

\* _inject_oauth_cookie: the token is taken, and added to the socket's cookies.
InjectToken(t) ==
    LET key == TokenKey(BrowserOf[t], tab[t].agent, "access")
        g == tokens[key].grant
    IN  /\ PopToken(key)
        /\ tab' = [tab EXCEPT ![t].at = "idle",
                              ![t].cookies.access[tab[t].agent] = IF g = NoGrant THEN @ ELSE g]
        /\ injected' = IF g = NoGrant THEN injected ELSE [injected EXCEPT ![g] = @ \cup {t}]

Reads(t, message) == mail[t] # << >> /\ Head(mail[t]) = message /\ mail' = [mail EXCEPT ![t] = Tail(@)]

\* The answer the handler waits for: the refresh, or the login, has been done.
\* The agent's tools are loaded with the token, or fail to without one.
Confirmed(t) ==
    /\ \/ At(t, "refresh") /\ Reads(t, "refreshed")
       \/ At(t, "login") /\ Reads(t, "confirmed")
    /\ InjectToken(t)
    /\ UNCHANGED <<logins, states, nap, cookies, callbacks, broadcasts, faults, grants, taken>>

\* Any other message: the refresh has failed, and the login is started, ...
RefreshFails(t) ==
    /\ At(t, "refresh")
    /\ Reads(t, "confirmed") \/ Reads(t, "other")
    /\ StartLogin(t, tab[t].agent)
    /\ UNCHANGED <<tokens, cookies, callbacks, broadcasts, faults, grants, taken, injected>>

\* ... or the login has failed.
LoginFails(t) ==
    /\ At(t, "login")
    /\ Reads(t, "refreshed") \/ Reads(t, "other")
    /\ Goes(t, "idle")
    /\ UNCHANGED <<logins, store, cookies, callbacks, broadcasts, faults, grants, taken, injected>>

\* A session that does not wait takes the message for a request.
ReadsRequest(t) ==
    /\ At(t, "idle")
    /\ \E m \in {"confirmed", "refreshed", "other"} : Reads(t, m)
    /\ UNCHANGED <<logins, store, cookies, tab, callbacks, broadcasts,
                   faults, grants, taken, injected>>

-----------------------------------------------------------------------------
(* The browser, and the endpoints it calls.                                *)

\* The user cancels, or types something.
UserWrites(t) ==
    /\ tab[t].at \in {"refresh", "login"} /\ mail[t] = << >>
    /\ mail' = [mail EXCEPT ![t] = Append(@, "other")]
    /\ UNCHANGED <<logins, store, cookies, tab, callbacks, broadcasts,
                   faults, grants, taken, injected>>

\* The provider issues tokens, with a refresh token or without one; they are
\* stored, and set as cookies of the browser.
Issue(b, a) ==
    /\ Len(grants) < MaxGrants
    /\ grants' = Append(grants, [browser |-> b, agent |-> a])

StoreTokens(b, a) ==
    \E withRefresh \in BOOLEAN :
        LET entry == [grant |-> Len(grants) + 1, age |-> 0]
            kinds == IF withRefresh THEN Kinds ELSE {"access"}
        IN  /\ tokens' = [k \in Keys |->
                   IF \E kind \in kinds : k = TokenKey(b, a, kind) THEN entry ELSE tokens[k]]
            /\ EnsureCleanup
            /\ cookies' = [cookies EXCEPT
                   ![b].access[a] = entry.grant,
                   ![b].refresh = IF withRefresh THEN @ \cup {a} ELSE @]

\* refresh_token_endpoint, called by the page of a tab that was asked to; the
\* page answers the session only if the refresh succeeded.
RefreshSucceeds(t) ==
    LET b == BrowserOf[t]
        a == tab[t].agent
    IN  /\ At(t, "refresh") /\ a \in cookies[b].refresh
        /\ \A i \in DOMAIN mail[t] : mail[t][i] # "refreshed"
        /\ Issue(b, a) /\ StoreTokens(b, a)
        /\ mail' = [mail EXCEPT ![t] = Append(@, "refreshed")]
        /\ UNCHANGED <<logins, states, tab, callbacks, broadcasts, faults, taken, injected>>

\* The callback takes the state of a login; the page may be loaded again, or in
\* another browser.
CallbackStarts(b, f) ==
    /\ HasState(b, f)
    /\ taken[f] < 2 /\ taken' = [taken EXCEPT ![f] = @ + 1]
    /\ PopState(f)
    /\ callbacks' = callbacks \cup {<<b, f>>}
    /\ UNCHANGED <<logins, tokens, nap, cookies, tab, mail, broadcasts, faults, grants, injected>>

\* The code is exchanged for the tokens of the user who logged in.
CallbackStores(b, f) ==
    LET a == logins[f].agent
    IN  /\ <<b, f>> \in callbacks
        /\ callbacks' = callbacks \ {<<b, f>>}
        /\ Issue(BrowserOf[logins[f].tab], a) /\ StoreTokens(b, a)
        /\ broadcasts' = broadcasts \cup {b}
        /\ UNCHANGED <<logins, states, tab, mail, faults, taken, injected>>

\* No client is registered, or the exchange fails.
CallbackFails(b, f) ==
    /\ <<b, f>> \in callbacks
    /\ callbacks' = callbacks \ {<<b, f>>}
    /\ UNCHANGED <<logins, store, cookies, tab, mail, broadcasts, faults, grants, taken, injected>>

\* The page announces the success on a channel that all tabs of the browser
\* listen to, and each tells its session.
Broadcast(b) ==
    /\ b \in broadcasts /\ broadcasts' = broadcasts \ {b}
    /\ mail' = [t \in Tabs |-> IF BrowserOf[t] = b THEN Append(mail[t], "confirmed") ELSE mail[t]]
    /\ UNCHANGED <<logins, store, cookies, tab, callbacks, faults, grants, taken, injected>>

-----------------------------------------------------------------------------
(* Faults.                                                                 *)

\* The connection is lost and opened again, with the browser's cookies.
Reconnect(t) ==
    /\ faults < MaxFaults /\ faults' = faults + 1
    /\ tab' = [tab EXCEPT ![t].at = "idle", ![t].cookies = cookies[BrowserOf[t]]]
    /\ mail' = [mail EXCEPT ![t] = << >>]
    /\ UNCHANGED <<logins, store, cookies, callbacks, broadcasts, grants, taken, injected>>

\* The process restarts with an empty store.
Restart ==
    /\ faults < MaxFaults /\ faults' = faults + 1
    /\ states' = [f \in Logins |-> Gone] /\ tokens' = [k \in Keys |-> NoToken] /\ nap' = Off
    /\ callbacks' = {}
    /\ tab' = [t \in Tabs |-> [tab[t] EXCEPT !.at = "idle", !.cookies = cookies[BrowserOf[t]]]]
    /\ mail' = [t \in Tabs |-> << >>]
    /\ UNCHANGED <<logins, cookies, broadcasts, grants, taken, injected>>

-----------------------------------------------------------------------------
Session(t) == \/ \E a \in Agents : NeedsLogin(t, a)
              \/ Confirmed(t) \/ RefreshFails(t) \/ LoginFails(t) \/ ReadsRequest(t)

Browser == \/ \E t \in Tabs : UserWrites(t) \/ RefreshSucceeds(t)
           \/ \E b \in Browsers, f \in Logins :
                 CallbackStarts(b, f) \/ CallbackStores(b, f) \/ CallbackFails(b, f)
           \/ \E b \in Browsers : Broadcast(b)

Environment == \/ Restart
               \/ \E t \in Tabs : Reconnect(t)

Next == Tick \/ Cleanup \/ Browser \/ Environment \/ \E t \in Tabs : Session(t)

Spec == Init /\ [][Next]_vars

-----------------------------------------------------------------------------
Messages == {"confirmed", "refreshed", "other"}
Cookies == [access : [Agents -> Grants \cup {NoGrant}], refresh : SUBSET Agents]

\* The type of the state; the store holds nothing before the cleanup task runs.
TypeOK ==
    /\ logins \in Seq([tab : Tabs, agent : Agents]) /\ Len(logins) <= MaxLogins
    /\ states \in [Logins -> Ages \cup {Gone}]
    /\ tokens \in [Keys -> [grant : Grants \cup {NoGrant}, age : Ages]]
    /\ nap \in 0..Off
    /\ nap = Off => (\A f \in Logins : states[f] = Gone) /\ (\A k \in Keys : tokens[k] = NoToken)
    /\ cookies \in [Browsers -> Cookies]
    /\ tab \in [Tabs -> [at : {"idle", "refresh", "login"},
                      agent : Agents \cup {NoAgent}, cookies : Cookies]]
    /\ mail \in [Tabs -> Seq(Messages)]
    /\ callbacks \subseteq Browsers \X (1..Len(logins))
    /\ broadcasts \subseteq Browsers
    /\ faults \in 0..MaxFaults
    /\ grants \in Seq([browser : Browsers, agent : Agents]) /\ Len(grants) <= MaxGrants
    /\ taken \in [Logins -> 0..2]
    /\ injected \in [Grants -> SUBSET Tabs]

\* A session only ever uses tokens that its own browser was granted, for the very
\* agent, whichever page, tab or reconnection they came through.
TokenOfOwner ==
    \A t \in Tabs, a \in Agents :
        tab[t].cookies.access[a] # NoGrant =>
            grants[tab[t].cookies.access[a]] = [browser |-> BrowserOf[t], agent |-> a]

\* A state serves one callback, so that a page loaded again gets no second exchange,
\* and the store hands a token to one session, however many tabs of the browser are
\* told of the login.
TakenOnce ==
    /\ \A f \in Logins : taken[f] <= 1
    /\ \A g \in Grants : Cardinality(injected[g]) <= 1

\* Nothing older than the time to live and one sleep of the cleanup is found, and
\* so abandoned logins and tokens nobody takes leave the store.
EntriesAreFresh ==
    /\ \A f \in Logins : states[f] # Gone => states[f] <= TTL + Period
    /\ \A k \in Keys : tokens[k] # NoToken => tokens[k].age <= TTL + Period
=============================================================================
