----------------------------- MODULE OAuthProofs -----------------------------
(* Proofs about OAuth, for any browsers, tabs, agents, times and bounds.   *)
EXTENDS OAuth, FiniteSetTheorems, TLAPS

(***************************************************************************)
(* Type correctness.                                                       *)
(***************************************************************************)
TabStates == [at : {"idle", "refresh", "login"}, agent : Agents \cup {NoAgent}, cookies : Cookies]
Entries == [grant : Grants \cup {NoGrant}, age : Ages]
LoginRecords == [tab : Tabs, agent : Agents]
GrantRecords == [browser : Browsers, agent : Agents]

\* A tab that waits knows which agent it logs in to.
TabKnows(t) == tab[t].at # "idle" => tab[t].agent \in Agents

TypeInv == TypeOK /\ \A t \in Tabs : TabKnows(t)

\* The type of the store, which is empty until the cleanup runs.
StoreOK ==
    /\ states \in [Logins -> Ages \cup {Gone}]
    /\ tokens \in [Keys -> Entries]
    /\ nap \in 0..Off
    /\ nap = Off => (\A f \in Logins : states[f] = Gone) /\ (\A k \in Keys : tokens[k] = NoToken)

\* The type of the tabs and of what they are told.
TabsOK ==
    /\ tab \in [Tabs -> TabStates]
    /\ mail \in [Tabs -> Seq(Messages)]
    /\ \A t \in Tabs : TabKnows(t)

\* The type of logins and of what is called back.
LoginsOK ==
    /\ logins \in Seq(LoginRecords) /\ Len(logins) <= MaxLogins
    /\ callbacks \subseteq Browsers \X (1..Len(logins))
    /\ broadcasts \subseteq Browsers

\* The type of what has been granted, and of what keeps it.
GrantsOK ==
    /\ grants \in Seq(GrantRecords) /\ Len(grants) <= MaxGrants
    /\ cookies \in [Browsers -> Cookies]
    /\ injected \in [Grants -> SUBSET Tabs]

\* The type of the rest.
CountsOK == faults \in 0..MaxFaults /\ taken \in [Logins -> 0..2]

\* The parts make up the whole.
LEMMA TypeParts == TypeInv <=> StoreOK /\ TabsOK /\ LoginsOK /\ GrantsOK /\ CountsOK
BY DEF TypeInv, TypeOK, StoreOK, TabsOK, LoginsOK, GrantsOK, CountsOK,
       TabStates, Entries, LoginRecords, GrantRecords

\* So they do after a step.
LEMMA TypePartsNext ==
    StoreOK' /\ TabsOK' /\ LoginsOK' /\ GrantsOK' /\ CountsOK' => TypeInv'
BY TypeParts, PTL

\* The values the store and the cookies begin with, and what time is made of.
LEMMA ConstantFacts ==
    /\ TTL \in Nat /\ Period \in Nat \ {0} /\ Off \in Nat /\ Off # Period /\ 0 # Off
    /\ Gone \notin Ages /\ 0 \in Ages /\ Gone \in Nat
    /\ NoToken \in Entries /\ NoCookies \in Cookies
    /\ MaxLogins \in Nat /\ MaxGrants \in Nat /\ MaxFaults \in Nat
    /\ NoGrant \notin Grants
BY OAuthAssumption DEF Off, Gone, Ages, NoToken, Entries, NoCookies, Cookies, NoGrant, Grants

\* Growing older stays within the ages that are told apart.
LEMMA OlderFacts ==
    ASSUME NEW age \in Ages
    PROVE  Older(age) \in Ages
BY OAuthAssumption DEF Older, Ages

\* The cleanup is running after it was ensured.
LEMMA EnsureFacts ==
    ASSUME nap \in 0..Off, EnsureCleanup
    PROVE  nap' \in 0..Off /\ nap' # Off /\ (nap # Off => nap' = nap) /\ (nap = Off => nap' = Period)
BY ConstantFacts DEF EnsureCleanup, Off

\* The type is right initially.
LEMMA InitTypeInv == Init => TypeInv
<1> SUFFICES ASSUME Init
             PROVE  TypeInv
    OBVIOUS
<1>1. StoreOK
    BY ConstantFacts DEF Init, StoreOK
<1>2. TabsOK
    BY ConstantFacts DEF Init, TabsOK, TabStates, TabKnows
<1>3. LoginsOK
    BY ConstantFacts DEF Init, LoginsOK
<1>4. GrantsOK
    BY ConstantFacts DEF Init, GrantsOK
<1>5. CountsOK
    BY ConstantFacts DEF Init, CountsOK
<1>6. QED
    BY <1>1, <1>2, <1>3, <1>4, <1>5, TypeParts

\* A tab that moves keeps the type of the tabs.
LEMMA TabMoves ==
    ASSUME tab \in [Tabs -> TabStates], NEW t \in Tabs, NEW state \in TabStates,
           tab' = [tab EXCEPT ![t] = state], state.at # "idle" => state.agent \in Agents,
           \A x \in Tabs : TabKnows(x)
    PROVE  tab' \in [Tabs -> TabStates] /\ \A x \in Tabs : TabKnows(x)'
BY DEF TabKnows

\* A login that starts is of the tab that waits for it; the cleanup runs then.
LEMMA StartLoginType ==
    ASSUME TypeInv, NEW t \in Tabs, NEW a \in Agents, StartLogin(t, a), tokens' = tokens,
           callbacks' = callbacks, broadcasts' = broadcasts
    PROVE  StoreOK' /\ LoginsOK' /\ tab' \in [Tabs -> TabStates] /\ \A x \in Tabs : TabKnows(x)'
<1>1. StoreOK /\ TabsOK /\ LoginsOK
    BY TypeParts
<1>2. CASE /\ Len(logins) < MaxLogins
           /\ logins' = Append(logins, [tab |-> t, agent |-> a])
           /\ states' = [states EXCEPT ![Len(logins) + 1] = 0]
           /\ EnsureCleanup
           /\ tab' = [tab EXCEPT ![t].at = "login", ![t].agent = a]
    <2>1. nap' \in 0..Off /\ nap' # Off
        BY <1>1, <1>2, EnsureFacts DEF StoreOK
    <2>2. StoreOK'
        BY <1>1, <1>2, <2>1, ConstantFacts DEF StoreOK
    <2>3. LoginsOK'
        <3>1. [tab |-> t, agent |-> a] \in LoginRecords
            BY DEF LoginRecords
        <3>2. logins' \in Seq(LoginRecords) /\ Len(logins') = Len(logins) + 1 /\ Len(logins) \in Nat
            BY <1>1, <1>2, <3>1 DEF LoginsOK
        <3>3. QED
            BY <1>1, <1>2, <3>2, ConstantFacts DEF LoginsOK
    <2>4. [tab[t] EXCEPT !.at = "login", !.agent = a] \in TabStates
        BY <1>1 DEF TabsOK, TabStates
    <2>5. tab' = [tab EXCEPT ![t] = [tab[t] EXCEPT !.at = "login", !.agent = a]]
        BY <1>1, <1>2 DEF TabsOK
    <2>6. [tab[t] EXCEPT !.at = "login", !.agent = a].agent = a
        BY <1>1 DEF TabsOK, TabStates
    <2>7. QED
        BY <1>1, <2>2, <2>3, <2>4, <2>5, <2>6, TabMoves DEF TabsOK
<1>3. CASE Goes(t, "idle") /\ UNCHANGED <<logins, states, nap>>
    <2>1. StoreOK' /\ LoginsOK'
        BY <1>1, <1>3 DEF StoreOK, LoginsOK
    <2>2. /\ [tab[t] EXCEPT !.at = "idle"] \in TabStates
          /\ [tab[t] EXCEPT !.at = "idle"].at = "idle"
        BY <1>1 DEF TabsOK, TabStates
    <2>3. tab' = [tab EXCEPT ![t] = [tab[t] EXCEPT !.at = "idle"]]
        BY <1>1, <1>3 DEF TabsOK, Goes
    <2>4. QED
        BY <1>1, <2>1, <2>2, <2>3, TabMoves DEF TabsOK
<1>4. QED
    BY <1>2, <1>3 DEF StartLogin

\* Reading a message leaves messages.
LEMMA ReadsType ==
    ASSUME TabsOK, NEW t \in Tabs, NEW message, Reads(t, message)
    PROVE  mail' \in [Tabs -> Seq(Messages)]
<1>1. Tail(mail[t]) \in Seq(Messages)
    BY DEF TabsOK, Reads
<1>2. QED
    BY <1>1 DEF TabsOK, Reads

\* Each step of a session keeps the type.
LEMMA SessionKeepsType == ASSUME TypeInv, NEW t \in Tabs, Session(t) PROVE TypeInv'
<1>1. StoreOK /\ TabsOK /\ LoginsOK /\ GrantsOK /\ CountsOK
    BY TypeParts
<1>2. tab[t] \in TabStates /\ TabKnows(t)
    BY <1>1 DEF TabsOK
<1>3. ASSUME NEW a \in Agents, NeedsLogin(t, a)
      PROVE  TypeInv'
    <2>1. UNCHANGED <<tokens, cookies, mail, callbacks, broadcasts, faults, grants, taken, injected>>
        BY <1>3 DEF NeedsLogin
    <2>2. CASE a \in tab[t].cookies.refresh
        <3> DEFINE state == [tab[t] EXCEPT !.at = "refresh", !.agent = a]
        <3>1. tab' = [tab EXCEPT ![t] = state] /\ UNCHANGED <<logins, states, nap>>
            BY <1>1, <1>3, <2>2 DEF NeedsLogin, TabsOK
        <3>2. state \in TabStates /\ state.agent = a
            BY <1>2 DEF TabStates
        <3>3. TabsOK'
            BY <1>1, <2>1, <3>1, <3>2, TabMoves DEF TabsOK
        <3>4. StoreOK' /\ LoginsOK' /\ GrantsOK' /\ CountsOK'
            BY <1>1, <2>1, <3>1 DEF StoreOK, LoginsOK, GrantsOK, CountsOK
        <3>5. QED
            BY <3>3, <3>4, TypePartsNext
    <2>3. CASE a \notin tab[t].cookies.refresh
        <3>1. StartLogin(t, a)
            BY <1>3, <2>3 DEF NeedsLogin
        <3>2. StoreOK' /\ LoginsOK' /\ tab' \in [Tabs -> TabStates] /\ \A x \in Tabs : TabKnows(x)'
            BY <2>1, <3>1, StartLoginType
        <3>3. TabsOK' /\ GrantsOK' /\ CountsOK'
            BY <1>1, <2>1, <3>2 DEF TabsOK, GrantsOK, CountsOK
        <3>4. QED
            BY <3>2, <3>3, TypePartsNext
    <2>4. QED
        BY <2>2, <2>3
<1>4. CASE Confirmed(t)
    <2> DEFINE a == tab[t].agent
               key == TokenKey(BrowserOf[t], a, "access")
               g == tokens[key].grant
    <2>1. a \in Agents
        BY <1>2, <1>4 DEF Confirmed, At, TabKnows
    <2>2. key \in Keys /\ g \in Grants \cup {NoGrant}
        BY <1>1, <2>1, OAuthAssumption DEF StoreOK, Entries, Keys, Kinds, TokenKey
    <2>3. InjectToken(t) /\ UNCHANGED <<logins, states, nap, cookies, callbacks, broadcasts, faults, grants, taken>>
        BY <1>4 DEF Confirmed
    <2>4. StoreOK'
        <3>1. tokens' = [tokens EXCEPT ![key] = NoToken]
            BY <2>3 DEF InjectToken, PopToken
        <3>2. QED
            BY <1>1, <2>2, <2>3, <3>1, ConstantFacts DEF StoreOK
    <2>5. injected' \in [Grants -> SUBSET Tabs]
        BY <1>1, <2>2, <2>3 DEF InjectToken, GrantsOK
    <2>6. mail' \in [Tabs -> Seq(Messages)]
        BY <1>1, <1>4, ReadsType DEF Confirmed
    <2>7. tab' \in [Tabs -> TabStates] /\ \A x \in Tabs : TabKnows(x)'
        <3> DEFINE new == IF g = NoGrant THEN tab[t].cookies.access[a] ELSE g
                   access == [tab[t].cookies.access EXCEPT ![a] = new]
                   kept == [tab[t].cookies EXCEPT !.access = access]
                   state == [tab[t] EXCEPT !.at = "idle", !.cookies = kept]
        <3>1. tab[t].cookies \in Cookies /\ tab[t].cookies.access \in [Agents -> Grants \cup {NoGrant}]
            BY <1>2 DEF TabStates, Cookies
        <3>2. access \in [Agents -> Grants \cup {NoGrant}]
            BY <2>1, <2>2, <3>1
        <3>3. kept \in Cookies
            BY <3>1, <3>2 DEF Cookies
        <3>4. state \in TabStates /\ state.at = "idle"
            BY <1>2, <3>3 DEF TabStates
        <3>5. tab' = [tab EXCEPT ![t] = state]
            BY <1>1, <1>2, <2>3 DEF InjectToken, TabsOK, TabStates
        <3>6. QED
            BY <1>1, <3>4, <3>5, TabMoves DEF TabsOK
    <2>8. TabsOK' /\ LoginsOK' /\ GrantsOK' /\ CountsOK'
        BY <1>1, <2>3, <2>5, <2>6, <2>7 DEF TabsOK, LoginsOK, GrantsOK, CountsOK
    <2>9. QED
        BY <2>4, <2>8, TypePartsNext
<1>5. CASE RefreshFails(t)
    <2>1. tab[t].agent \in Agents
        BY <1>2, <1>5 DEF RefreshFails, At, TabKnows
    <2>2. /\ StartLogin(t, tab[t].agent)
          /\ UNCHANGED <<tokens, cookies, callbacks, broadcasts, faults, grants, taken, injected>>
        BY <1>5 DEF RefreshFails
    <2>3. StoreOK' /\ LoginsOK' /\ tab' \in [Tabs -> TabStates] /\ \A x \in Tabs : TabKnows(x)'
        BY <2>1, <2>2, StartLoginType
    <2>4. mail' \in [Tabs -> Seq(Messages)]
        BY <1>1, <1>5, ReadsType DEF RefreshFails
    <2>5. TabsOK' /\ GrantsOK' /\ CountsOK'
        BY <1>1, <2>2, <2>3, <2>4 DEF TabsOK, GrantsOK, CountsOK
    <2>6. QED
        BY <2>3, <2>5, TypePartsNext
<1>6. CASE LoginFails(t)
    <2> DEFINE state == [tab[t] EXCEPT !.at = "idle"]
    <2>1. /\ tab' = [tab EXCEPT ![t] = state]
          /\ UNCHANGED <<logins, store, cookies, callbacks, broadcasts, faults, grants, taken, injected>>
        BY <1>1, <1>6 DEF LoginFails, Goes, TabsOK
    <2>2. state \in TabStates /\ state.at = "idle"
        BY <1>2 DEF TabStates
    <2>3. mail' \in [Tabs -> Seq(Messages)]
        BY <1>1, <1>6, ReadsType DEF LoginFails
    <2>4. TabsOK'
        BY <1>1, <2>1, <2>2, <2>3, TabMoves DEF TabsOK
    <2>5. StoreOK' /\ LoginsOK' /\ GrantsOK' /\ CountsOK'
        BY <1>1, <2>1 DEF StoreOK, LoginsOK, GrantsOK, CountsOK, store
    <2>6. QED
        BY <2>4, <2>5, TypePartsNext
<1>7. CASE ReadsRequest(t)
    <2>1. UNCHANGED <<logins, store, cookies, tab, callbacks, broadcasts, faults, grants, taken, injected>>
        BY <1>7 DEF ReadsRequest
    <2>2. mail' \in [Tabs -> Seq(Messages)]
        BY <1>1, <1>7, ReadsType DEF ReadsRequest
    <2>3. TabsOK'
        BY <1>1, <2>1, <2>2 DEF TabsOK, TabKnows
    <2>4. StoreOK' /\ LoginsOK' /\ GrantsOK' /\ CountsOK'
        BY <1>1, <2>1 DEF StoreOK, LoginsOK, GrantsOK, CountsOK, store
    <2>5. QED
        BY <2>3, <2>4, TypePartsNext
<1>8. QED
    BY <1>3, <1>4, <1>5, <1>6, <1>7 DEF Session

\* Tokens are stored under keys of their browser, and kept by it.
LEMMA StoreTokensType ==
    ASSUME TypeInv, NEW b \in Browsers, NEW owner \in Browsers, NEW a \in Agents,
           Issue(owner, a), StoreTokens(b, a), UNCHANGED <<states, injected>>
    PROVE  StoreOK' /\ GrantsOK'
<1>1. StoreOK /\ GrantsOK
    BY TypeParts
<1>2. PICK withRefresh \in BOOLEAN :
          LET entry == [grant |-> Len(grants) + 1, age |-> 0]
              kinds == IF withRefresh THEN Kinds ELSE {"access"}
          IN  /\ tokens' = [k \in Keys |->
                     IF \E kind \in kinds : k = TokenKey(b, a, kind) THEN entry ELSE tokens[k]]
              /\ EnsureCleanup
              /\ cookies' = [cookies EXCEPT
                     ![b].access[a] = entry.grant,
                     ![b].refresh = IF withRefresh THEN @ \cup {a} ELSE @]
    BY DEF StoreTokens
<1> DEFINE entry == [grant |-> Len(grants) + 1, age |-> 0]
<1>3. Len(grants) + 1 \in Grants /\ entry \in Entries
    <2>1. Len(grants) \in Nat /\ Len(grants) < MaxGrants
        BY <1>1 DEF Issue, GrantsOK
    <2>2. QED
        BY <2>1, ConstantFacts DEF Grants, Entries
<1>4. StoreOK'
    <2>1. nap' \in 0..Off /\ nap' # Off
        BY <1>1, <1>2, EnsureFacts DEF StoreOK
    <2>2. tokens' \in [Keys -> Entries]
        BY <1>1, <1>2, <1>3 DEF StoreOK
    <2>3. QED
        BY <1>1, <2>1, <2>2 DEF StoreOK
<1>5. cookies' \in [Browsers -> Cookies]
    <2> DEFINE access == [cookies[b].access EXCEPT ![a] = Len(grants) + 1]
               refresh == IF withRefresh THEN cookies[b].refresh \cup {a} ELSE cookies[b].refresh
               kept == [cookies[b] EXCEPT !.access = access, !.refresh = refresh]
    <2>1. cookies[b] \in Cookies
        BY <1>1 DEF GrantsOK
    <2>2. kept \in Cookies
        <3>1. access \in [Agents -> Grants \cup {NoGrant}] /\ refresh \in SUBSET Agents
            BY <1>3, <2>1 DEF Cookies
        <3>2. QED
            BY <2>1, <3>1 DEF Cookies
    <2>3. cookies' = [cookies EXCEPT ![b] = kept]
        BY <1>1, <1>2, <2>1 DEF GrantsOK, Cookies
    <2>4. QED
        BY <1>1, <2>2, <2>3 DEF GrantsOK
<1>6. GrantsOK'
    <2>1. [browser |-> owner, agent |-> a] \in GrantRecords
        BY DEF GrantRecords
    <2>2. grants' \in Seq(GrantRecords) /\ Len(grants') = Len(grants) + 1
        BY <1>1, <2>1 DEF Issue, GrantsOK
    <2>3. QED
        BY <1>1, <1>3, <1>5, <2>2, ConstantFacts DEF GrantsOK, Grants
<1>7. QED
    BY <1>4, <1>6

\* A message more is still messages.
LEMMA AppendsType ==
    ASSUME TabsOK, NEW t \in Tabs, NEW message \in Messages
    PROVE  [mail EXCEPT ![t] = Append(@, message)] \in [Tabs -> Seq(Messages)]
<1>1. Append(mail[t], message) \in Seq(Messages)
    BY DEF TabsOK
<1>2. QED
    BY <1>1 DEF TabsOK

\* Each step of a browser keeps the type.
LEMMA BrowserKeepsType == TypeInv /\ Browser => TypeInv'
<1> SUFFICES ASSUME TypeInv, Browser
             PROVE  TypeInv'
    OBVIOUS
<1>1. StoreOK /\ TabsOK /\ LoginsOK /\ GrantsOK /\ CountsOK
    BY TypeParts
<1>2. "other" \in Messages /\ "confirmed" \in Messages /\ "refreshed" \in Messages
    BY DEF Messages
<1>3. ASSUME NEW t \in Tabs, UserWrites(t)
      PROVE  TypeInv'
    <2>1. UNCHANGED <<logins, store, cookies, tab, callbacks, broadcasts, faults, grants, taken, injected>>
        BY <1>3 DEF UserWrites
    <2>2. mail' \in [Tabs -> Seq(Messages)]
        BY <1>1, <1>2, <1>3, AppendsType DEF UserWrites
    <2>3. TabsOK'
        BY <1>1, <2>1, <2>2 DEF TabsOK, TabKnows
    <2>4. StoreOK' /\ LoginsOK' /\ GrantsOK' /\ CountsOK'
        BY <1>1, <2>1 DEF StoreOK, LoginsOK, GrantsOK, CountsOK, store
    <2>5. QED
        BY <2>3, <2>4, TypePartsNext
<1>4. ASSUME NEW t \in Tabs, RefreshSucceeds(t)
      PROVE  TypeInv'
    <2>1. tab[t].agent \in Agents /\ BrowserOf[t] \in Browsers
        BY <1>1, <1>4, OAuthAssumption DEF RefreshSucceeds, At, TabsOK, TabKnows
    <2>2. /\ Issue(BrowserOf[t], tab[t].agent)
          /\ StoreTokens(BrowserOf[t], tab[t].agent)
          /\ mail' = [mail EXCEPT ![t] = Append(@, "refreshed")]
          /\ UNCHANGED <<logins, states, tab, callbacks, broadcasts, faults, taken, injected>>
        BY <1>4 DEF RefreshSucceeds
    <2>3. StoreOK' /\ GrantsOK'
        BY <2>1, <2>2, StoreTokensType
    <2>4. mail' \in [Tabs -> Seq(Messages)]
        BY <1>1, <1>2, <2>2, AppendsType
    <2>5. TabsOK' /\ LoginsOK' /\ CountsOK'
        BY <1>1, <2>2, <2>4 DEF TabsOK, TabKnows, LoginsOK, CountsOK
    <2>6. QED
        BY <2>3, <2>5, TypePartsNext
<1>5. ASSUME NEW b \in Browsers, NEW f \in Logins, CallbackStarts(b, f)
      PROVE  TypeInv'
    <2>1. /\ states' = [states EXCEPT ![f] = Gone]
          /\ taken[f] < 2 /\ taken' = [taken EXCEPT ![f] = @ + 1]
          /\ callbacks' = callbacks \cup {<<b, f>>} /\ f <= Len(logins)
          /\ UNCHANGED <<logins, tokens, nap, cookies, tab, mail, broadcasts, faults, grants, injected>>
        BY <1>5 DEF CallbackStarts, PopState, HasState
    <2>2. StoreOK'
        BY <1>1, <2>1 DEF StoreOK
    <2>3. taken' \in [Logins -> 0..2]
        BY <1>1, <2>1 DEF CountsOK
    <2>4. f \in 1..Len(logins)
        BY <1>1, <2>1, ConstantFacts DEF Logins, LoginsOK
    <2>5. TabsOK' /\ LoginsOK' /\ GrantsOK' /\ CountsOK'
        BY <1>1, <2>1, <2>3, <2>4 DEF TabsOK, TabKnows, LoginsOK, GrantsOK, CountsOK
    <2>6. QED
        BY <2>2, <2>5, TypePartsNext
<1>6. ASSUME NEW b \in Browsers, NEW f \in Logins, CallbackStores(b, f)
      PROVE  TypeInv'
    <2> DEFINE a == logins[f].agent
               owner == BrowserOf[logins[f].tab]
    <2>1. f \in 1..Len(logins) /\ logins[f] \in LoginRecords
        BY <1>1, <1>6 DEF CallbackStores, LoginsOK
    <2>2. a \in Agents /\ owner \in Browsers
        BY <2>1, OAuthAssumption DEF LoginRecords
    <2>3. /\ Issue(owner, a) /\ StoreTokens(b, a)
          /\ callbacks' = callbacks \ {<<b, f>>}
          /\ broadcasts' = broadcasts \cup {b}
          /\ UNCHANGED <<logins, states, tab, mail, faults, taken, injected>>
        BY <1>6 DEF CallbackStores
    <2>4. StoreOK' /\ GrantsOK'
        BY <2>2, <2>3, StoreTokensType
    <2>5. TabsOK' /\ LoginsOK' /\ CountsOK'
        BY <1>1, <2>3 DEF TabsOK, TabKnows, LoginsOK, CountsOK
    <2>6. QED
        BY <2>4, <2>5, TypePartsNext
<1>7. ASSUME NEW b \in Browsers, NEW f \in Logins, CallbackFails(b, f)
      PROVE  TypeInv'
    <2>1. /\ callbacks' = callbacks \ {<<b, f>>}
          /\ UNCHANGED <<logins, store, cookies, tab, mail, broadcasts, faults, grants, taken, injected>>
        BY <1>7 DEF CallbackFails
    <2>2. StoreOK' /\ TabsOK' /\ LoginsOK' /\ GrantsOK' /\ CountsOK'
        BY <1>1, <2>1 DEF StoreOK, TabsOK, TabKnows, LoginsOK, GrantsOK, CountsOK, store
    <2>3. QED
        BY <2>2, TypePartsNext
<1>8. ASSUME NEW b \in Browsers, Broadcast(b)
      PROVE  TypeInv'
    <2>1. /\ broadcasts' = broadcasts \ {b}
          /\ UNCHANGED <<logins, store, cookies, tab, callbacks, faults, grants, taken, injected>>
        BY <1>8 DEF Broadcast
    <2>2. \A t \in Tabs : Append(mail[t], "confirmed") \in Seq(Messages)
        BY <1>1, <1>2 DEF TabsOK
    <2>3. mail' \in [Tabs -> Seq(Messages)]
        BY <1>1, <1>8, <2>2 DEF Broadcast, TabsOK
    <2>4. TabsOK'
        BY <1>1, <2>1, <2>3 DEF TabsOK, TabKnows
    <2>5. StoreOK' /\ LoginsOK' /\ GrantsOK' /\ CountsOK'
        BY <1>1, <2>1 DEF StoreOK, LoginsOK, GrantsOK, CountsOK, store
    <2>6. QED
        BY <2>4, <2>5, TypePartsNext
<1>9. QED
    BY <1>3, <1>4, <1>5, <1>6, <1>7, <1>8 DEF Browser

\* Time, the cleanup and faults keep the type.
LEMMA OthersKeepType == TypeInv /\ (Tick \/ Cleanup \/ Environment) => TypeInv'
<1> SUFFICES ASSUME TypeInv, Tick \/ Cleanup \/ Environment
             PROVE  TypeInv'
    OBVIOUS
<1>1. StoreOK /\ TabsOK /\ LoginsOK /\ GrantsOK /\ CountsOK
    BY TypeParts
<1>2. CASE Tick
    <2>1. nap' \in 0..Off /\ (nap' = Off => nap = Off)
        <3>1. nap \in 0..Off /\ nap # 0 /\ nap' = IF nap = Off THEN Off ELSE nap - 1
            BY <1>1, <1>2 DEF Tick, StoreOK
        <3>2. QED
            BY <3>1, ConstantFacts
    <2>2. states' \in [Logins -> Ages \cup {Gone}]
        <3>1. \A f \in Logins : states[f] # Gone => Older(states[f]) \in Ages
            BY <1>1, OlderFacts DEF StoreOK
        <3>2. QED
            BY <1>2, <3>1 DEF Tick
    <2>3. tokens' \in [Keys -> Entries]
        <3>1. ASSUME NEW k \in Keys
              PROVE  [tokens[k] EXCEPT !.age = Older(@)] \in Entries
            <4>1. tokens[k] \in Entries /\ Older(tokens[k].age) \in Ages
                BY <1>1, OlderFacts DEF StoreOK, Entries
            <4>2. QED
                BY <4>1 DEF Entries
        <3>2. QED
            BY <1>2, <3>1, ConstantFacts DEF Tick
    <2>4. StoreOK'
        BY <1>1, <1>2, <2>1, <2>2, <2>3 DEF Tick, StoreOK
    <2>5. TabsOK' /\ LoginsOK' /\ GrantsOK' /\ CountsOK'
        BY <1>1, <1>2 DEF Tick, TabsOK, TabKnows, LoginsOK, GrantsOK, CountsOK
    <2>6. QED
        BY <2>4, <2>5, TypePartsNext
<1>3. CASE Cleanup
    <2>1. nap' = Period /\ EvictExpired
        BY <1>3 DEF Cleanup
    <2>2. StoreOK'
        <3>1. Period \in 0..Off /\ Period # Off
            BY ConstantFacts DEF Off
        <3>2. QED
            BY <1>1, <2>1, <3>1, ConstantFacts DEF StoreOK, EvictExpired
    <2>3. TabsOK' /\ LoginsOK' /\ GrantsOK' /\ CountsOK'
        BY <1>1, <1>3 DEF Cleanup, TabsOK, TabKnows, LoginsOK, GrantsOK, CountsOK
    <2>4. QED
        BY <2>2, <2>3, TypePartsNext
<1>4. ASSUME NEW t \in Tabs, cookies[BrowserOf[t]] \in Cookies
      PROVE  [tab[t] EXCEPT !.at = "idle", !.cookies = cookies[BrowserOf[t]]] \in TabStates
    BY <1>1, <1>4 DEF TabsOK, TabStates
<1>5. \A t \in Tabs : cookies[BrowserOf[t]] \in Cookies
    BY <1>1, OAuthAssumption DEF GrantsOK
<1>6. faults < MaxFaults /\ faults' = faults + 1 => faults' \in 0..MaxFaults
    BY <1>1, ConstantFacts DEF CountsOK
<1>7. ASSUME NEW t \in Tabs, Reconnect(t)
      PROVE  TypeInv'
    <2> DEFINE state == [tab[t] EXCEPT !.at = "idle", !.cookies = cookies[BrowserOf[t]]]
    <2>1. /\ faults < MaxFaults /\ faults' = faults + 1
          /\ mail' = [mail EXCEPT ![t] = << >>]
          /\ UNCHANGED <<logins, store, cookies, callbacks, broadcasts, grants, taken, injected>>
        BY <1>7 DEF Reconnect
    <2>2. tab' = [tab EXCEPT ![t] = state]
        BY <1>1, <1>7 DEF Reconnect, TabsOK
    <2>3. state \in TabStates /\ state.at = "idle"
        BY <1>1, <1>4, <1>5 DEF TabsOK, TabStates
    <2>4. tab' \in [Tabs -> TabStates] /\ \A x \in Tabs : TabKnows(x)'
        BY <1>1, <2>2, <2>3, TabMoves DEF TabsOK
    <2>5. << >> \in Seq(Messages)
        OBVIOUS
    <2>6. TabsOK'
        BY <1>1, <2>1, <2>4, <2>5 DEF TabsOK
    <2>7. StoreOK' /\ LoginsOK' /\ GrantsOK' /\ CountsOK'
        BY <1>1, <1>6, <2>1 DEF StoreOK, LoginsOK, GrantsOK, CountsOK, store
    <2>8. QED
        BY <2>6, <2>7, TypePartsNext
<1>8. CASE Restart
    <2>1. /\ faults < MaxFaults /\ faults' = faults + 1
          /\ states' = [f \in Logins |-> Gone]
          /\ tokens' = [k \in Keys |-> NoToken]
          /\ nap' = Off
          /\ callbacks' = {}
          /\ tab' = [t \in Tabs |-> [tab[t] EXCEPT !.at = "idle", !.cookies = cookies[BrowserOf[t]]]]
          /\ mail' = [t \in Tabs |-> << >>]
          /\ UNCHANGED <<logins, cookies, broadcasts, grants, taken, injected>>
        BY <1>8 DEF Restart
    <2>2. StoreOK'
        <3>1. states' \in [Logins -> Ages \cup {Gone}] /\ \A f \in Logins : states'[f] = Gone
            BY <2>1
        <3>2. tokens' \in [Keys -> Entries] /\ \A k \in Keys : tokens'[k] = NoToken
            BY <2>1, ConstantFacts
        <3>3. nap' \in 0..Off
            <4>1. nap' = Off
                BY <2>1
            <4>2. Off \in 0..Off
                BY ConstantFacts
            <4>3. QED
                BY <4>1, <4>2
        <3>4. QED
            BY <3>1, <3>2, <3>3 DEF StoreOK
    <2>3. \A t \in Tabs : tab'[t] \in TabStates /\ tab'[t].at = "idle"
        <3>1. \A t \in Tabs : tab[t] \in TabStates
            BY <1>1 DEF TabsOK
        <3>2. QED
            BY <1>4, <1>5, <2>1, <3>1 DEF TabStates
    <2>4. TabsOK'
        <3>1. mail' \in [Tabs -> Seq(Messages)]
            <4>1. << >> \in Seq(Messages)
                OBVIOUS
            <4>2. QED
                BY <2>1, <4>1
        <3>2. tab' \in [Tabs -> TabStates]
            BY <2>1, <2>3
        <3>3. QED
            BY <2>3, <3>1, <3>2 DEF TabsOK, TabKnows
    <2>5. LoginsOK' /\ GrantsOK' /\ CountsOK'
        BY <1>1, <1>6, <2>1 DEF LoginsOK, GrantsOK, CountsOK
    <2>6. QED
        BY <2>2, <2>4, <2>5, TypePartsNext
<1>9. QED
    BY <1>2, <1>3, <1>7, <1>8 DEF Environment

\* Every step keeps the type.
LEMMA NextTypeInv == TypeInv /\ [Next]_vars => TypeInv'
<1>1. TypeInv /\ UNCHANGED vars => TypeInv'
    <2> SUFFICES ASSUME TypeInv, UNCHANGED vars
                 PROVE  TypeInv'
        OBVIOUS
    <2>1. StoreOK' /\ TabsOK' /\ LoginsOK' /\ GrantsOK' /\ CountsOK'
        BY TypeParts DEF vars, store, StoreOK, TabsOK, TabKnows, LoginsOK, GrantsOK, CountsOK
    <2>2. QED
        BY <2>1, TypePartsNext
<1>2. QED
    BY <1>1, SessionKeepsType, BrowserKeepsType, OthersKeepType DEF Next

\* The state has its type in every behaviour: the store holds nothing unless its
\* cleanup task runs, and whoever calls back or waits knows a login or an agent.
THEOREM TypeCorrect == Spec => []TypeOK
<1>1. TypeInv => TypeOK
    BY DEF TypeInv
<1>2. QED
    BY <1>1, InitTypeInv, NextTypeInv, PTL DEF Spec

(***************************************************************************)
(* The store holds nothing that is older than its time.                    *)
(***************************************************************************)
\* What is stored will not be older than its time when the cleanup wakes.
FreshInv ==
    nap # Off =>
        /\ \A f \in Logins : states[f] # Gone => states[f] + nap <= TTL + Period
        /\ \A k \in Keys : tokens[k].age + nap <= TTL + Period

\* Entries that are added, kept or taken are as fresh, as the cleanup runs then.
LEMMA StoreStaysFresh ==
    ASSUME TypeInv, FreshInv, nap' = nap \/ EnsureCleanup,
           \A f \in Logins : states'[f] \in {states[f], 0, Gone},
           \A k \in Keys : tokens'[k] = tokens[k] \/ tokens'[k].age = 0
    PROVE  FreshInv'
<1>1. StoreOK
    BY TypeParts
<1>2. CASE nap' = Off
    BY <1>2 DEF FreshInv
<1>3. CASE nap = Off /\ nap' # Off
    <2>1. nap' = Period
        BY <1>1, <1>3, EnsureFacts DEF StoreOK
    <2>2. \A k \in Keys : tokens[k].age = 0
        BY <1>1, <1>3 DEF StoreOK, NoToken
    <2>3. \A k \in Keys : tokens'[k].age = 0
        BY <2>2
    <2>4. \A f \in Logins : states'[f] \in {0, Gone}
        BY <1>1, <1>3 DEF StoreOK
    <2>5. QED
        BY <2>1, <2>3, <2>4, ConstantFacts DEF FreshInv
<1>4. CASE nap # Off
    <2>1. nap' = nap /\ nap \in Nat /\ nap <= Period
        BY <1>1, <1>4, EnsureFacts, ConstantFacts DEF StoreOK, Off
    <2>2. QED
        BY <1>4, <2>1, ConstantFacts DEF FreshInv
<1>5. QED
    BY <1>2, <1>3, <1>4

\* Nothing is stored initially.
LEMMA InitFresh == Init => FreshInv
BY DEF Init, FreshInv

\* A session stores a state that is new, and takes tokens.
LEMMA SessionFresh == ASSUME TypeInv, FreshInv, NEW t \in Tabs, Session(t) PROVE FreshInv'
<1>1. StoreOK
    BY TypeParts
<1>2. ASSUME NEW a, StartLogin(t, a), tokens' = tokens
      PROVE  FreshInv'
    <2>1. nap' = nap \/ EnsureCleanup
        BY <1>2 DEF StartLogin
    <2>2. \A f \in Logins : states'[f] \in {states[f], 0, Gone}
        BY <1>1, <1>2 DEF StartLogin, StoreOK
    <2>3. QED
        BY <1>2, <2>1, <2>2, StoreStaysFresh
<1>3. ASSUME NEW a \in Agents, NeedsLogin(t, a)
      PROVE  FreshInv'
    BY <1>2, <1>3, StoreStaysFresh DEF NeedsLogin
<1>4. CASE Confirmed(t)
    <2>1. \A k \in Keys : tokens'[k] = tokens[k] \/ tokens'[k].age = 0
        BY <1>1, <1>4 DEF Confirmed, InjectToken, PopToken, StoreOK, NoToken
    <2>2. states' = states /\ nap' = nap
        BY <1>4 DEF Confirmed
    <2>3. QED
        BY <2>1, <2>2, StoreStaysFresh
<1>5. CASE RefreshFails(t)
    BY <1>2, <1>5 DEF RefreshFails
<1>6. CASE LoginFails(t) \/ ReadsRequest(t)
    BY <1>6, StoreStaysFresh DEF LoginFails, ReadsRequest, store
<1>7. QED
    BY <1>3, <1>4, <1>5, <1>6 DEF Session

\* A callback takes a state and stores tokens that are new.
LEMMA BrowserFresh == TypeInv /\ FreshInv /\ Browser => FreshInv'
<1> SUFFICES ASSUME TypeInv, FreshInv, Browser
             PROVE  FreshInv'
    OBVIOUS
<1>1. StoreOK
    BY TypeParts
<1>2. ASSUME NEW b, NEW a, StoreTokens(b, a), states' = states
      PROVE  FreshInv'
    <2>1. EnsureCleanup
        BY <1>2 DEF StoreTokens
    <2>2. \A k \in Keys : tokens'[k] = tokens[k] \/ tokens'[k].age = 0
        BY <1>2 DEF StoreTokens
    <2>3. QED
        BY <1>2, <2>1, <2>2, StoreStaysFresh
<1>3. ASSUME NEW t \in Tabs, UserWrites(t) \/ RefreshSucceeds(t)
      PROVE  FreshInv'
    BY <1>2, <1>3, StoreStaysFresh DEF UserWrites, RefreshSucceeds, store
<1>4. ASSUME NEW b \in Browsers, NEW f \in Logins, CallbackStarts(b, f)
      PROVE  FreshInv'
    <2>1. \A x \in Logins : states'[x] \in {states[x], 0, Gone}
        BY <1>1, <1>4 DEF CallbackStarts, PopState, StoreOK
    <2>2. tokens' = tokens /\ nap' = nap
        BY <1>4 DEF CallbackStarts
    <2>3. QED
        BY <2>1, <2>2, StoreStaysFresh
<1>5. ASSUME NEW b \in Browsers, NEW f \in Logins, CallbackStores(b, f) \/ CallbackFails(b, f)
      PROVE  FreshInv'
    BY <1>2, <1>5, StoreStaysFresh DEF CallbackStores, CallbackFails, store
<1>6. ASSUME NEW b \in Browsers, Broadcast(b)
      PROVE  FreshInv'
    BY <1>6, StoreStaysFresh DEF Broadcast, store
<1>7. QED
    BY <1>3, <1>4, <1>5, <1>6 DEF Browser

\* What ages while the cleanup sleeps is what it evicts when it wakes.
LEMMA OthersFresh == TypeInv /\ FreshInv /\ (Tick \/ Cleanup \/ Environment) => FreshInv'
<1> SUFFICES ASSUME TypeInv, FreshInv, Tick \/ Cleanup \/ Environment
             PROVE  FreshInv'
    OBVIOUS
<1>1. StoreOK
    BY TypeParts
<1>2. CASE Tick
    <2>1. CASE nap = Off
        BY <1>2, <2>1 DEF Tick, FreshInv
    <2>2. CASE nap # Off
        <3>1. nap \in Nat /\ nap # 0 /\ nap' = nap - 1
            BY <1>1, <1>2, <2>2, ConstantFacts DEF Tick, StoreOK
        <3>2. ASSUME NEW f \in Logins, states'[f] # Gone
              PROVE  states'[f] + nap' <= TTL + Period
            <4>1. states[f] # Gone /\ states'[f] = Older(states[f]) /\ states[f] \in Ages
                BY <1>1, <1>2, <3>2 DEF Tick, StoreOK
            <4>2. states[f] + nap <= TTL + Period
                BY <2>2, <4>1 DEF FreshInv
            <4>3. states[f] \in Nat
                BY <4>1, ConstantFacts DEF Ages
            <4>4. QED
                BY <3>1, <4>1, <4>2, <4>3, ConstantFacts DEF Older
        <3>3. ASSUME NEW k \in Keys
              PROVE  tokens'[k].age + nap' <= TTL + Period
            <4>1. tokens[k] \in Entries /\ tokens[k].age \in Nat
                BY <1>1, ConstantFacts DEF StoreOK, Entries, Ages
            <4>2. tokens'[k].age \in {tokens[k].age, Older(tokens[k].age)}
                BY <1>2, <4>1 DEF Tick, Entries
            <4>3. tokens[k].age + nap <= TTL + Period
                BY <2>2 DEF FreshInv
            <4>4. QED
                BY <3>1, <4>1, <4>2, <4>3, ConstantFacts DEF Older
        <3>4. QED
            BY <3>2, <3>3 DEF FreshInv
    <2>3. QED
        BY <2>1, <2>2
<1>3. CASE Cleanup
    <2>1. nap' = Period /\ EvictExpired
        BY <1>3 DEF Cleanup
    <2>2. ASSUME NEW f \in Logins, states'[f] # Gone
          PROVE  states'[f] + nap' <= TTL + Period
        <3>1. states'[f] = states[f] /\ ~(states[f] > TTL) /\ states[f] \in Ages
            BY <1>1, <2>1, <2>2 DEF EvictExpired, StoreOK
        <3>2. QED
            BY <2>1, <3>1, ConstantFacts DEF Ages
    <2>3. ASSUME NEW k \in Keys
          PROVE  tokens'[k].age + nap' <= TTL + Period
        <3>1. tokens[k].age \in Nat
            BY <1>1, ConstantFacts DEF StoreOK, Entries, Ages
        <3>2. tokens'[k].age = 0 \/ (tokens'[k].age = tokens[k].age /\ ~(tokens[k].age > TTL))
            BY <2>1 DEF EvictExpired, NoToken
        <3>3. QED
            BY <2>1, <3>1, <3>2, ConstantFacts
    <2>4. QED
        BY <2>2, <2>3 DEF FreshInv
<1>4. CASE Restart
    BY <1>4 DEF Restart, FreshInv
<1>5. ASSUME NEW t \in Tabs, Reconnect(t)
      PROVE  FreshInv'
    BY <1>5, StoreStaysFresh DEF Reconnect, store
<1>6. QED
    BY <1>2, <1>3, <1>4, <1>5 DEF Environment

\* Every step leaves the store fresh.
LEMMA NextFresh == TypeInv /\ FreshInv /\ [Next]_vars => FreshInv'
<1>1. TypeInv /\ FreshInv /\ UNCHANGED vars => FreshInv'
    BY DEF FreshInv, vars, store
<1>2. QED
    BY <1>1, SessionFresh, BrowserFresh, OthersFresh DEF Next

\* Nothing older than the time to live and one sleep of the cleanup is found in the
\* store, in every behaviour: _evict_expired wakes before what it left is too old.
THEOREM StoreIsFresh == Spec => []EntriesAreFresh
<1>1. TypeInv /\ FreshInv => EntriesAreFresh
    <2> SUFFICES ASSUME TypeInv, FreshInv
                 PROVE  EntriesAreFresh
        OBVIOUS
    <2>1. StoreOK
        BY TypeParts
    <2>2. CASE nap = Off
        BY <2>1, <2>2 DEF StoreOK, EntriesAreFresh
    <2>3. CASE nap # Off
        <3>1. nap \in Nat
            BY <2>1, ConstantFacts DEF StoreOK
        <3>2. \A f \in Logins : states[f] # Gone => states[f] \in Nat
            BY <2>1, ConstantFacts DEF StoreOK, Ages
        <3>3. \A k \in Keys : tokens[k].age \in Nat
            BY <2>1, ConstantFacts DEF StoreOK, Entries, Ages
        <3>4. QED
            BY <2>3, <3>1, <3>2, <3>3, ConstantFacts DEF FreshInv, EntriesAreFresh
    <2>4. QED
        BY <2>2, <2>3
<1>2. QED
    BY <1>1, InitTypeInv, NextTypeInv, InitFresh, NextFresh, PTL DEF Spec

(***************************************************************************)
(* Tokens are used by those they were granted to, and once.                *)
(***************************************************************************)
\* A grant is the browser's, for the agent, if there is one.
Owns(gs, g, b, a) == g # NoGrant => g \in 1..Len(gs) /\ gs[g] = [browser |-> b, agent |-> a]

\* A callback is served for the browser whose login it takes the state of.
CallbackOwns(b, f) == <<b, f>> \in callbacks => f \in 1..Len(logins) /\ BrowserOf[logins[f].tab] = b

\* Whatever keeps a token keeps one of its owner's.
OwnerInv ==
    /\ \A b \in Browsers, a \in Agents, kind \in Kinds : Owns(grants, tokens[<<b, a, kind>>].grant, b, a)
    /\ \A b \in Browsers, a \in Agents : Owns(grants, cookies[b].access[a], b, a)
    /\ \A t \in Tabs, a \in Agents : Owns(grants, tab[t].cookies.access[a], BrowserOf[t], a)
    /\ \A b \in Browsers, f \in Logins : CallbackOwns(b, f)

\* A state that is stored was not taken; a token that is stored was not handed out.
TakenInv ==
    /\ \A f \in Logins : taken[f] <= 1 /\ (states[f] # Gone \/ f > Len(logins) => taken[f] = 0)
    /\ \A g \in Grants : injected[g] = {} \/ \E t \in Tabs : injected[g] = {t}
    /\ \A g \in Grants : g > Len(grants) => injected[g] = {}
    /\ \A b \in Browsers, a \in Agents :
           LET g == tokens[<<b, a, "access">>].grant IN g # NoGrant => injected[g] = {}

UseInv == TypeInv /\ OwnerInv /\ TakenInv

\* No tokens are there initially.
LEMMA InitUse == Init => UseInv
<1> SUFFICES ASSUME Init
             PROVE  UseInv
    OBVIOUS
<1>1. TypeInv
    BY InitTypeInv
<1>2. \A b \in Browsers, a \in Agents, kind \in Kinds : tokens[<<b, a, kind>>] = NoToken
    BY DEF Init, Keys
<1>3. NoToken.grant = NoGrant /\ \A a \in Agents : NoCookies.access[a] = NoGrant
    BY DEF NoToken, NoCookies
<1>4. OwnerInv
    BY <1>2, <1>3 DEF Init, OwnerInv, Owns, CallbackOwns
<1>5. TakenInv
    <2>1. /\ \A f \in Logins : taken[f] = 0
          /\ \A g \in Grants : injected[g] = {}
        BY DEF Init
    <2>2. \A b \in Browsers, a \in Agents : tokens[<<b, a, "access">>].grant = NoGrant
        BY <1>2, <1>3 DEF Kinds
    <2>3. \A f \in Logins : taken[f] <= 1
        BY <2>1
    <2>4. QED
        BY <2>1, <2>2, <2>3 DEF TakenInv
<1>6. QED
    BY <1>1, <1>4, <1>5 DEF UseInv

\* Grants that are added leave those there are with their owners.
LEMMA OwnsGrows ==
    ASSUME NEW gs \in Seq(GrantRecords), NEW record \in GrantRecords, NEW g, NEW b, NEW a,
           Owns(gs, g, b, a)
    PROVE  Owns(Append(gs, record), g, b, a)
<1>1. Len(Append(gs, record)) = Len(gs) + 1 /\ Len(gs) \in Nat
    OBVIOUS
<1>2. \A i \in 1..Len(gs) : Append(gs, record)[i] = gs[i]
    OBVIOUS
<1>3. QED
    BY <1>1, <1>2 DEF Owns

\* A session that starts a login, or does not, uses and hands out nothing.
LEMMA StartLoginUse ==
    ASSUME UseInv, TypeInv', NEW t \in Tabs, NEW a \in Agents, StartLogin(t, a),
           UNCHANGED <<tokens, cookies, callbacks, grants, taken, injected>>
    PROVE  UseInv'
<1>1. StoreOK /\ TabsOK /\ LoginsOK /\ CountsOK
    BY TypeParts DEF UseInv
<1>2. \A x \in Tabs : tab'[x].cookies = tab[x].cookies
    <2>1. tab[t] \in TabStates /\ tab \in [Tabs -> TabStates]
        BY <1>1 DEF TabsOK
    <2>2. CASE tab' = [tab EXCEPT ![t].at = "login", ![t].agent = a]
        BY <2>1, <2>2 DEF TabStates
    <2>3. CASE Goes(t, "idle")
        BY <2>1, <2>3 DEF Goes, TabStates
    <2>4. QED
        BY <2>2, <2>3 DEF StartLogin
<1>3. CASE UNCHANGED <<logins, states>>
    <2>1. OwnerInv'
        BY <1>2, <1>3 DEF UseInv, OwnerInv, CallbackOwns
    <2>2. TakenInv'
        BY <1>3 DEF UseInv, TakenInv
    <2>3. QED
        BY <2>1, <2>2 DEF UseInv
<1>4. CASE /\ Len(logins) < MaxLogins
           /\ logins' = Append(logins, [tab |-> t, agent |-> a])
           /\ states' = [states EXCEPT ![Len(logins) + 1] = 0]
    <2> DEFINE record == [tab |-> t, agent |-> a]
    <2>1. logins \in Seq(LoginRecords) /\ record \in LoginRecords /\ Len(logins) \in Nat
        BY <1>1 DEF LoginsOK, LoginRecords
    <2>2. Len(logins') = Len(logins) + 1 /\ \A i \in 1..Len(logins) : logins'[i] = logins[i]
        BY <1>4, <2>1
    <2>3. \A b \in Browsers, f \in Logins : CallbackOwns(b, f)'
        BY <2>1, <2>2 DEF UseInv, OwnerInv, CallbackOwns
    <2>4. OwnerInv'
        BY <1>2, <2>3 DEF UseInv, OwnerInv
    <2>5. ASSUME NEW f \in Logins
          PROVE  taken'[f] <= 1 /\ (states'[f] # Gone \/ f > Len(logins') => taken'[f] = 0)
        <3>1. taken[f] <= 1 /\ (states[f] # Gone \/ f > Len(logins) => taken[f] = 0) /\ taken' = taken
            BY DEF UseInv, TakenInv
        <3>2. f \in Nat
            BY ConstantFacts DEF Logins
        <3>3. CASE f = Len(logins) + 1
            BY <2>1, <3>1, <3>2, <3>3
        <3>4. CASE f # Len(logins) + 1
            <4>1. states'[f] = states[f]
                BY <1>1, <1>4, <3>4 DEF StoreOK
            <4>2. QED
                BY <2>1, <2>2, <3>1, <3>2, <4>1
        <3>5. QED
            BY <3>3, <3>4
    <2>6. TakenInv'
        BY <2>5 DEF UseInv, TakenInv
    <2>7. QED
        BY <2>4, <2>6 DEF UseInv
<1>5. QED
    BY <1>3, <1>4 DEF StartLogin

\* A session that is told takes the token of its own browser and agent, if it is there.
LEMMA ConfirmedUse == ASSUME UseInv, TypeInv', NEW t \in Tabs, Confirmed(t) PROVE UseInv'
<1> DEFINE a == tab[t].agent
           b == BrowserOf[t]
           key == <<b, a, "access">>
           g == tokens[key].grant
<1>1. StoreOK /\ TabsOK /\ LoginsOK /\ GrantsOK /\ CountsOK /\ OwnerInv /\ TakenInv
    BY TypeParts DEF UseInv
<1>2. a \in Agents /\ b \in Browsers /\ key \in Keys /\ g \in Grants \cup {NoGrant}
    <2>1. a \in Agents /\ b \in Browsers
        BY <1>1, OAuthAssumption DEF Confirmed, At, TabsOK, TabKnows
    <2>2. QED
        BY <1>1, <2>1 DEF StoreOK, Entries, Keys, Kinds
<1>3. /\ tokens' = [tokens EXCEPT ![key] = NoToken]
      /\ tab' = [tab EXCEPT ![t].at = "idle", ![t].cookies.access[a] = IF g = NoGrant THEN @ ELSE g]
      /\ injected' = IF g = NoGrant THEN injected ELSE [injected EXCEPT ![g] = @ \cup {t}]
      /\ UNCHANGED <<logins, states, cookies, callbacks, grants, taken>>
    BY DEF Confirmed, InjectToken, PopToken, TokenKey
<1>4. NoToken.grant = NoGrant
    BY DEF NoToken
<1>5. \A k \in Keys : tokens'[k] = tokens[k] \/ tokens'[k].grant = NoGrant
    BY <1>1, <1>3, <1>4 DEF StoreOK
<1>6. OwnerInv'
    <2>1. \A x \in Browsers, y \in Agents, kind \in Kinds :
              Owns(grants, tokens'[<<x, y, kind>>].grant, x, y)
        BY <1>1, <1>5 DEF OwnerInv, Owns, Keys
    <2>2. ASSUME NEW x \in Tabs, NEW y \in Agents
          PROVE  Owns(grants, tab'[x].cookies.access[y], BrowserOf[x], y)
        <3>1. CASE x = t /\ y = a /\ g # NoGrant
            <4>1. tab'[x].cookies.access[y] = g
                BY <1>1, <1>2, <1>3, <3>1 DEF TabsOK, TabStates, Cookies
            <4>2. Owns(grants, g, b, a)
                BY <1>1, <1>2 DEF OwnerInv, Kinds
            <4>3. QED
                BY <3>1, <4>1, <4>2
        <3>2. CASE ~(x = t /\ y = a /\ g # NoGrant)
            <4>1. tab'[x].cookies.access[y] = tab[x].cookies.access[y]
                BY <1>1, <1>2, <1>3, <3>2 DEF TabsOK, TabStates, Cookies
            <4>2. QED
                BY <1>1, <4>1 DEF OwnerInv
        <3>3. QED
            BY <3>1, <3>2
    <2>3. QED
        BY <1>1, <1>3, <2>1, <2>2 DEF OwnerInv, CallbackOwns
<1>7. TakenInv'
    <2>1. \A f \in Logins : taken'[f] <= 1 /\ (states'[f] # Gone \/ f > Len(logins') => taken'[f] = 0)
        BY <1>1, <1>3 DEF TakenInv
    <2>2. CASE g = NoGrant
        <3>1. injected' = injected
            BY <1>3, <2>2
        <3>2. \A x \in Browsers, y \in Agents :
                  tokens'[<<x, y, "access">>].grant # NoGrant =>
                      injected[tokens'[<<x, y, "access">>].grant] = {}
            BY <1>1, <1>5 DEF TakenInv, Keys, Kinds
        <3>3. QED
            BY <1>1, <1>3, <2>1, <3>1, <3>2 DEF TakenInv
    <2>3. CASE g # NoGrant
        <3>1. injected[g] = {} /\ g \in Grants
            BY <1>1, <1>2, <2>3 DEF TakenInv
        <3>2. injected' = [injected EXCEPT ![g] = {t}]
            BY <1>3, <2>3, <3>1
        <3>3. Owns(grants, g, b, a)
            BY <1>1, <1>2 DEF OwnerInv, Kinds
        <3>4. g \in 1..Len(grants) /\ grants[g] = [browser |-> b, agent |-> a]
            BY <2>3, <3>3 DEF Owns
        <3>5. \A i \in Grants : injected'[i] = {} \/ \E x \in Tabs : injected'[i] = {x}
            BY <1>1, <3>2 DEF TakenInv, GrantsOK
        <3>6. \A i \in Grants : i > Len(grants) => injected'[i] = {}
            <4>1. Len(grants) \in Nat /\ g \in Nat /\ ~(g > Len(grants))
                BY <1>1, <3>4 DEF GrantsOK
            <4>2. QED
                BY <1>1, <3>2, <4>1 DEF TakenInv, GrantsOK
        <3>7. ASSUME NEW x \in Browsers, NEW y \in Agents, tokens'[<<x, y, "access">>].grant # NoGrant
              PROVE  injected'[tokens'[<<x, y, "access">>].grant] = {}
            <4> DEFINE other == tokens[<<x, y, "access">>].grant
            <4>1. <<x, y, "access">> \in Keys
                BY DEF Keys, Kinds
            <4>2. <<x, y, "access">> # key /\ tokens'[<<x, y, "access">>].grant = other
                BY <1>1, <1>3, <1>4, <3>7, <4>1 DEF StoreOK
            <4>3. other # NoGrant /\ other \in Grants
                BY <1>1, <3>7, <4>1, <4>2 DEF StoreOK, Entries
            <4>4. grants[other] = [browser |-> x, agent |-> y]
                BY <1>1, <4>3 DEF OwnerInv, Owns, Kinds
            <4>5. other # g
                BY <3>4, <4>2, <4>4
            <4>6. injected[other] = {}
                BY <1>1, <4>3 DEF TakenInv
            <4>7. QED
                BY <1>1, <3>2, <4>2, <4>3, <4>5, <4>6 DEF GrantsOK
        <3>8. QED
            BY <1>1, <1>3, <2>1, <3>5, <3>6, <3>7 DEF TakenInv
    <2>4. QED
        BY <2>2, <2>3
<1>8. QED
    BY <1>6, <1>7 DEF UseInv

\* Tokens that are issued are stored for their owner, and were handed to nobody.
LEMMA StoreTokensUse ==
    ASSUME UseInv, TypeInv', NEW b \in Browsers, NEW a \in Agents, Issue(b, a), StoreTokens(b, a),
           UNCHANGED <<logins, states, tab, taken, injected>>, callbacks' \subseteq callbacks
    PROVE  UseInv'
<1> DEFINE g == Len(grants) + 1
           record == [browser |-> b, agent |-> a]
<1>1. StoreOK /\ GrantsOK /\ OwnerInv /\ TakenInv
    BY TypeParts DEF UseInv
<1>2. grants \in Seq(GrantRecords) /\ record \in GrantRecords /\ grants' = Append(grants, record)
    BY <1>1 DEF GrantsOK, GrantRecords, Issue
<1>3. Len(grants) \in Nat /\ Len(grants') = g /\ grants'[g] = record
    BY <1>2
<1>4. g \in Grants /\ Owns(grants', g, b, a)
    BY <1>1, <1>3, ConstantFacts DEF Issue, Grants, Owns
<1>5. \A x, y, i : Owns(grants, i, x, y) => Owns(grants', i, x, y)
    BY <1>2, OwnsGrows
<1>6. \A x \in Browsers, y \in Agents, kind \in Kinds :
          \/ tokens'[<<x, y, kind>>] = tokens[<<x, y, kind>>]
          \/ x = b /\ y = a /\ tokens'[<<x, y, kind>>].grant = g
    BY DEF StoreTokens, TokenKey, Keys
<1>7. \A x \in Browsers, y \in Agents :
          \/ cookies'[x].access[y] = cookies[x].access[y]
          \/ x = b /\ y = a /\ cookies'[x].access[y] = g
    <2>1. PICK refresh : cookies' = [cookies EXCEPT ![b].access[a] = g, ![b].refresh = refresh]
        BY DEF StoreTokens
    <2>2. cookies \in [Browsers -> Cookies] /\ cookies[b] \in Cookies
        BY <1>1 DEF GrantsOK
    <2>3. QED
        BY <2>1, <2>2 DEF Cookies
<1>8. OwnerInv'
    <2>1. \A x \in Browsers, y \in Agents, kind \in Kinds :
              Owns(grants', tokens'[<<x, y, kind>>].grant, x, y)
        BY <1>1, <1>4, <1>5, <1>6 DEF OwnerInv
    <2>2. \A x \in Browsers, y \in Agents : Owns(grants', cookies'[x].access[y], x, y)
        BY <1>1, <1>4, <1>5, <1>7 DEF OwnerInv
    <2>3. \A t \in Tabs, y \in Agents : Owns(grants', tab'[t].cookies.access[y], BrowserOf[t], y)
        BY <1>1, <1>5 DEF OwnerInv
    <2>4. \A x \in Browsers, f \in Logins : CallbackOwns(x, f)'
        BY <1>1 DEF OwnerInv, CallbackOwns
    <2>5. QED
        BY <2>1, <2>2, <2>3, <2>4 DEF OwnerInv
<1>9. TakenInv'
    <2>1. injected[g] = {}
        BY <1>1, <1>3, <1>4 DEF TakenInv
    <2>2. \A i \in Grants : i > g => injected[i] = {}
        <3>1. \A i \in Grants : i > g => i > Len(grants)
            BY <1>3, ConstantFacts DEF Grants
        <3>2. QED
            BY <1>1, <3>1 DEF TakenInv
    <2>3. \A x \in Browsers, y \in Agents :
              tokens'[<<x, y, "access">>].grant # NoGrant =>
                  injected[tokens'[<<x, y, "access">>].grant] = {}
        BY <1>1, <1>6, <2>1 DEF TakenInv, Kinds
    <2>4. QED
        BY <1>1, <1>3, <2>2, <2>3 DEF TakenInv
<1>10. QED
    BY <1>8, <1>9 DEF UseInv

\* Each step of a session keeps the tokens with their owners.
LEMMA SessionUse == ASSUME UseInv, NEW t \in Tabs, Session(t) PROVE UseInv'
<1>1. TypeInv' /\ TabsOK
    BY SessionKeepsType, TypeParts DEF UseInv
<1>2. ASSUME UNCHANGED <<logins, states, tokens, cookies, callbacks, grants, taken, injected>>,
             \A x \in Tabs : tab'[x].cookies = tab[x].cookies
      PROVE  UseInv'
    <2>1. OwnerInv' /\ TakenInv'
        BY <1>2 DEF UseInv, OwnerInv, CallbackOwns, TakenInv
    <2>2. QED
        BY <1>1, <2>1 DEF UseInv
<1>3. ASSUME NEW a \in Agents, NeedsLogin(t, a)
      PROVE  UseInv'
    <2>1. UNCHANGED <<tokens, cookies, callbacks, grants, taken, injected>>
        BY <1>3 DEF NeedsLogin
    <2>2. CASE a \in tab[t].cookies.refresh
        <3>1. tab' = [tab EXCEPT ![t].at = "refresh", ![t].agent = a] /\ UNCHANGED <<logins, states>>
            BY <1>3, <2>2 DEF NeedsLogin
        <3>2. \A x \in Tabs : tab'[x].cookies = tab[x].cookies
            BY <1>1, <3>1 DEF TabsOK, TabStates
        <3>3. QED
            BY <1>2, <2>1, <3>1, <3>2
    <2>3. CASE a \notin tab[t].cookies.refresh
        <3>1. StartLogin(t, a)
            BY <1>3, <2>3 DEF NeedsLogin
        <3>2. QED
            BY <1>1, <2>1, <3>1, StartLoginUse
    <2>4. QED
        BY <2>2, <2>3
<1>4. CASE Confirmed(t)
    BY <1>1, <1>4, ConfirmedUse
<1>5. CASE RefreshFails(t)
    <2>1. tab[t].agent \in Agents
        BY <1>1, <1>5 DEF RefreshFails, At, TabsOK, TabKnows
    <2>2. QED
        BY <1>1, <1>5, <2>1, StartLoginUse DEF RefreshFails
<1>6. CASE LoginFails(t)
    <2>1. tab' = [tab EXCEPT ![t].at = "idle"]
        BY <1>6 DEF LoginFails, Goes
    <2>2. \A x \in Tabs : tab'[x].cookies = tab[x].cookies
        BY <1>1, <2>1 DEF TabsOK, TabStates
    <2>3. UNCHANGED <<logins, states, tokens, cookies, callbacks, grants, taken, injected>>
        BY <1>6 DEF LoginFails, store
    <2>4. QED
        BY <1>2, <2>2, <2>3
<1>7. CASE ReadsRequest(t)
    BY <1>2, <1>7 DEF ReadsRequest, store
<1>8. QED
    BY <1>3, <1>4, <1>5, <1>6, <1>7 DEF Session

\* Each step of a browser keeps the tokens with their owners: a state is only found by
\* the browser whose login it is, and so are the tokens of its callback.
LEMMA BrowserUse == UseInv /\ Browser => UseInv'
<1> SUFFICES ASSUME UseInv, Browser
             PROVE  UseInv'
    OBVIOUS
<1>1. TypeInv' /\ StoreOK /\ TabsOK /\ LoginsOK /\ CountsOK /\ OwnerInv /\ TakenInv
    BY BrowserKeepsType, TypeParts DEF UseInv
<1>2. ASSUME UNCHANGED <<logins, states, tokens, cookies, tab, grants, taken, injected>>,
             callbacks' \subseteq callbacks
      PROVE  UseInv'
    <2>1. OwnerInv' /\ TakenInv'
        BY <1>1, <1>2 DEF OwnerInv, CallbackOwns, TakenInv
    <2>2. QED
        BY <1>1, <2>1 DEF UseInv
<1>3. ASSUME NEW t \in Tabs, UserWrites(t)
      PROVE  UseInv'
    BY <1>2, <1>3 DEF UserWrites, store
<1>4. ASSUME NEW t \in Tabs, RefreshSucceeds(t)
      PROVE  UseInv'
    <2>1. tab[t].agent \in Agents /\ BrowserOf[t] \in Browsers
        BY <1>1, <1>4, OAuthAssumption DEF RefreshSucceeds, At, TabsOK, TabKnows
    <2>2. /\ Issue(BrowserOf[t], tab[t].agent)
          /\ StoreTokens(BrowserOf[t], tab[t].agent)
          /\ UNCHANGED <<logins, states, tab, callbacks, taken, injected>>
        BY <1>4 DEF RefreshSucceeds
    <2>3. QED
        BY <1>1, <2>1, <2>2, StoreTokensUse
<1>5. ASSUME NEW b \in Browsers, NEW f \in Logins, CallbackStarts(b, f)
      PROVE  UseInv'
    <2>1. /\ states' = [states EXCEPT ![f] = Gone]
          /\ taken' = [taken EXCEPT ![f] = @ + 1]
          /\ callbacks' = callbacks \cup {<<b, f>>}
          /\ f <= Len(logins) /\ states[f] # Gone /\ BrowserOf[logins[f].tab] = b
          /\ UNCHANGED <<logins, tokens, cookies, tab, grants, injected>>
        BY <1>5 DEF CallbackStarts, PopState, HasState
    <2>2. f \in 1..Len(logins)
        BY <1>1, <2>1, ConstantFacts DEF Logins, LoginsOK
    <2>3. \A x \in Browsers, i \in Logins : CallbackOwns(x, i)'
        BY <1>1, <2>1, <2>2 DEF OwnerInv, CallbackOwns
    <2>4. OwnerInv'
        BY <1>1, <2>1, <2>3 DEF OwnerInv
    <2>5. ASSUME NEW i \in Logins
          PROVE  taken'[i] <= 1 /\ (states'[i] # Gone \/ i > Len(logins') => taken'[i] = 0)
        <3>1. taken[i] <= 1 /\ (states[i] # Gone \/ i > Len(logins) => taken[i] = 0)
            BY <1>1 DEF TakenInv
        <3>2. CASE i = f
            <4>1. taken[f] = 0 /\ taken'[f] = 1 /\ states'[f] = Gone
                BY <1>1, <2>1, <3>1, <3>2 DEF CountsOK, StoreOK
            <4>2. ~(f > Len(logins'))
                BY <1>1, <2>1, <2>2 DEF LoginsOK
            <4>3. QED
                BY <3>2, <4>1, <4>2
        <3>3. CASE i # f
            <4>1. taken'[i] = taken[i] /\ states'[i] = states[i] /\ logins' = logins
                BY <1>1, <2>1, <3>3 DEF CountsOK, StoreOK
            <4>2. QED
                BY <3>1, <4>1
        <3>4. QED
            BY <3>2, <3>3
    <2>6. TakenInv'
        BY <1>1, <2>1, <2>5 DEF TakenInv
    <2>7. QED
        BY <1>1, <2>4, <2>6 DEF UseInv
<1>6. ASSUME NEW b \in Browsers, NEW f \in Logins, CallbackStores(b, f)
      PROVE  UseInv'
    <2> DEFINE a == logins[f].agent
    <2>1. f \in 1..Len(logins) /\ BrowserOf[logins[f].tab] = b
        BY <1>1, <1>6 DEF CallbackStores, OwnerInv, CallbackOwns
    <2>2. a \in Agents
        <3>1. logins \in Seq(LoginRecords)
            BY <1>1 DEF UseInv, TypeInv, LoginsOK
        <3>2. logins[f] \in LoginRecords
            BY <2>1, <3>1
        <3>3. QED
            BY <3>2 DEF LoginRecords
    <2>3. /\ Issue(b, a) /\ StoreTokens(b, a) /\ callbacks' \subseteq callbacks
          /\ UNCHANGED <<logins, states, tab, taken, injected>>
        BY <1>6, <2>1 DEF CallbackStores
    <2>4. QED
        BY <1>1, <2>2, <2>3, StoreTokensUse
<1>7. ASSUME NEW b \in Browsers, NEW f \in Logins, CallbackFails(b, f)
      PROVE  UseInv'
    BY <1>2, <1>7 DEF CallbackFails, store
<1>8. ASSUME NEW b \in Browsers, Broadcast(b)
      PROVE  UseInv'
    BY <1>2, <1>8 DEF Broadcast, store
<1>9. QED
    BY <1>3, <1>4, <1>5, <1>6, <1>7, <1>8 DEF Browser

\* Time and faults take tokens away, or give a socket the cookies of its browser.
LEMMA OthersUse == UseInv /\ (Tick \/ Cleanup \/ Environment) => UseInv'
<1> SUFFICES ASSUME UseInv, Tick \/ Cleanup \/ Environment
             PROVE  UseInv'
    OBVIOUS
<1>1. TypeInv' /\ StoreOK /\ TabsOK /\ OwnerInv /\ TakenInv
    BY OthersKeepType, TypeParts DEF UseInv
<1>2. NoToken.grant = NoGrant
    BY DEF NoToken
<1>3. ASSUME UNCHANGED <<logins, cookies, grants, taken, injected>>, callbacks' \subseteq callbacks,
             \A f \in Logins : states'[f] # Gone => states[f] # Gone,
             \A k \in Keys : tokens'[k].grant \in {tokens[k].grant, NoGrant},
             \A t \in Tabs : tab'[t].cookies \in {tab[t].cookies, cookies[BrowserOf[t]]}
      PROVE  UseInv'
    <2>1. \A b \in Browsers, a \in Agents, kind \in Kinds : <<b, a, kind>> \in Keys
        BY DEF Keys
    <2>2. \A b \in Browsers, a \in Agents, kind \in Kinds :
              Owns(grants, tokens'[<<b, a, kind>>].grant, b, a)
        BY <1>1, <1>3, <2>1 DEF OwnerInv, Owns
    <2>3. \A t \in Tabs, a \in Agents : Owns(grants, tab'[t].cookies.access[a], BrowserOf[t], a)
        BY <1>1, <1>3, OAuthAssumption DEF OwnerInv
    <2>4. OwnerInv'
        BY <1>1, <1>3, <2>2, <2>3 DEF OwnerInv, CallbackOwns
    <2>5. \A b \in Browsers, a \in Agents :
              tokens'[<<b, a, "access">>].grant # NoGrant =>
                  injected[tokens'[<<b, a, "access">>].grant] = {}
        BY <1>1, <1>3, <2>1 DEF TakenInv, Kinds
    <2>6. TakenInv'
        BY <1>1, <1>3, <2>5 DEF TakenInv
    <2>7. QED
        BY <1>1, <2>4, <2>6 DEF UseInv
<1>4. CASE Tick
    <2>1. \A k \in Keys : tokens'[k].grant = tokens[k].grant
        BY <1>1, <1>4 DEF Tick, StoreOK, Entries
    <2>2. \A f \in Logins : states'[f] # Gone => states[f] # Gone
        BY <1>4 DEF Tick
    <2>3. UNCHANGED <<logins, cookies, grants, taken, injected, callbacks, tab>>
        BY <1>4 DEF Tick
    <2>4. QED
        BY <1>3, <2>1, <2>2, <2>3
<1>5. CASE Cleanup
    <2>1. \A k \in Keys : tokens'[k].grant \in {tokens[k].grant, NoGrant}
        BY <1>2, <1>5 DEF Cleanup, EvictExpired
    <2>2. \A f \in Logins : states'[f] # Gone => states[f] # Gone
        BY <1>5 DEF Cleanup, EvictExpired
    <2>3. UNCHANGED <<logins, cookies, grants, taken, injected, callbacks, tab>>
        BY <1>5 DEF Cleanup
    <2>4. QED
        BY <1>3, <2>1, <2>2, <2>3
<1>6. CASE Restart
    <2>1. \A k \in Keys : tokens'[k].grant = NoGrant
        BY <1>2, <1>6 DEF Restart
    <2>2. \A f \in Logins : states'[f] = Gone
        BY <1>6 DEF Restart
    <2>3. \A t \in Tabs : tab'[t].cookies = cookies[BrowserOf[t]]
        BY <1>1, <1>6 DEF Restart, TabsOK, TabStates
    <2>4. UNCHANGED <<logins, cookies, grants, taken, injected>> /\ callbacks' \subseteq callbacks
        BY <1>6 DEF Restart
    <2>5. QED
        BY <1>3, <2>1, <2>2, <2>3, <2>4
<1>7. ASSUME NEW t \in Tabs, Reconnect(t)
      PROVE  UseInv'
    <2>1. \A x \in Tabs : tab'[x].cookies \in {tab[x].cookies, cookies[BrowserOf[x]]}
        BY <1>1, <1>7 DEF Reconnect, TabsOK, TabStates
    <2>2. UNCHANGED <<logins, states, tokens, cookies, grants, taken, injected, callbacks>>
        BY <1>7 DEF Reconnect, store
    <2>3. QED
        BY <1>3, <2>1, <2>2
<1>8. QED
    BY <1>4, <1>5, <1>6, <1>7 DEF Environment

\* Every step keeps the tokens with their owners, and hands each out once.
LEMMA NextUse == UseInv /\ [Next]_vars => UseInv'
<1>1. UseInv /\ UNCHANGED vars => UseInv'
    <2> SUFFICES ASSUME UseInv, UNCHANGED vars
                 PROVE  UseInv'
        OBVIOUS
    <2>1. TypeInv'
        BY NextTypeInv DEF UseInv
    <2>2. OwnerInv' /\ TakenInv'
        BY DEF vars, store, UseInv, OwnerInv, CallbackOwns, TakenInv
    <2>3. QED
        BY <2>1, <2>2 DEF UseInv
<1>2. QED
    BY <1>1, SessionUse, BrowserUse, OthersUse DEF Next

\* A session only ever uses tokens that its own browser was granted, for the very agent,
\* in every behaviour: states and tokens are stored under the browser's session.
THEOREM OwnersOnly == Spec => []TokenOfOwner
<1>1. UseInv => TokenOfOwner
    BY DEF UseInv, OwnerInv, Owns, TokenOfOwner
<1>2. QED
    BY <1>1, InitUse, NextUse, PTL DEF Spec

\* A state serves one callback and a token one session, in every behaviour: the store
\* gives each away by taking it out.
THEOREM EachTakenOnce == Spec => []TakenOnce
<1>1. UseInv => TakenOnce
    <2> SUFFICES ASSUME UseInv
                 PROVE  TakenOnce
        OBVIOUS
    <2>1. \A g \in Grants : Cardinality(injected[g]) <= 1
        <3>1. Cardinality({}) <= 1
            BY FS_EmptySet
        <3>2. ASSUME NEW t \in Tabs
              PROVE  Cardinality({t}) <= 1
            <4>1. Cardinality({t}) = 1
                BY FS_Singleton
            <4>2. QED
                BY <4>1
        <3>3. QED
            BY <3>1, <3>2 DEF UseInv, TakenInv
    <2>2. QED
        BY <2>1 DEF UseInv, TakenInv, TakenOnce
<1>2. QED
    BY <1>1, InitUse, NextUse, PTL DEF Spec
=============================================================================
