-------------------------- MODULE PriceProxyProofs --------------------------
(***************************************************************************)
(* The safety of the ticker cache for any number of symbols, bots, retries *)
(* and moves of the market.                                                *)
(*                                                                         *)
(* A refresh that no other one overlaps works on a cache that it emptied   *)
(* itself (Filled) and brings prices that are at least as new as all that  *)
(* anybody has seen (Newest), so what it stores is ahead of the bots       *)
(* (Ahead). Only an overlap, which crossed records, breaks that.           *)
(***************************************************************************)
EXTENDS PriceProxy, TLAPS

Overlap ==
    \A t, u \in Tasks : t # u /\ Refreshing(t) /\ Refreshing(u) => crossed[t]

Working ==
    \A t \in Tasks :
        /\ Refreshing(t) => batch[t] \subseteq todo[t]
        /\ pc[t] = "quoted" => got[t] # Missing

Asked == \A c \in Clients : pc[c] # "idle" => Wanted[c] \subseteq tracked

Filled ==
    \A c \in Clients :
        Refreshing(c) /\ ~crossed[c]
            => \A s \in Wanted[c] : s \in todo[c] \/ tickers[s] # Missing

Past ==
    /\ \A s \in Symbols : tickers[s] <= now
    /\ \A t \in Tasks : got[t] <= now
    /\ \A c \in Clients, s \in Symbols : price[c][s] <= now

Newest ==
    \A t \in Tasks :
        pc[t] = "quoted" /\ ~crossed[t]
            => /\ \A s \in Symbols : tickers[s] <= got[t]
               /\ \A c \in Clients, s \in Symbols : price[c][s] <= got[t]

Ahead ==
    \A s \in Symbols \ tainted :
        tickers[s] # Missing => \A c \in Clients : price[c][s] <= tickers[s]

Inv ==
    /\ TypeOK /\ Overlap /\ Working /\ Asked
    /\ Filled /\ Past /\ Newest /\ Ahead

-----------------------------------------------------------------------------

\* What a response does to the prices of the bot that gets it, and of the others.
LEMMA RespondEffect ==
    ASSUME TypeOK, NEW c \in Clients,
           NEW cache \in [Symbols -> Versions \cup {Missing}], Respond(c, cache)
    PROVE  /\ price' \in [Clients -> [Symbols -> Versions \cup {Missing}]]
           /\ \A d \in Clients, s \in Symbols :
                 price'[d][s] = IF d = c /\ s \in Wanted[c] /\ cache[s] # Missing
                                THEN cache[s] ELSE price[d][s]
    BY DEF TypeOK, Respond

\* A request that the cache answers, at once or behind the lock.
LEMMA ServesKeeps ==
    ASSUME Inv, NEW c \in Clients,
           \/ AskCached(c)
           \/ Enter(c) /\ ~NeedsRefresh(c)
    PROVE  Inv'
<1> USE ProxyConstants DEF Inv
<1>a. /\ price' \in [Clients -> [Symbols -> Versions \cup {Missing}]]
      /\ \A d \in Clients, s \in Symbols :
            \/ price'[d][s] = price[d][s]
            \/ tickers[s] # Missing /\ price'[d][s] = tickers[s]
    <2>1. Respond(c, tickers)
        BY DEF AskCached, Enter
    <2>2. tickers \in [Symbols -> Versions \cup {Missing}]
        BY DEF TypeOK
    <2> QED
        BY <2>1, <2>2, RespondEffect
<1>b. /\ tracked \subseteq tracked'
      /\ UNCHANGED <<now, tickers, todo, batch, got, crossed, tainted>>
      /\ pc' \in [Tasks -> States]
      /\ \A t \in Tasks : pc'[t] = pc[t] \/ pc'[t] = "idle"
    BY DEF AskCached, Enter, taskVars, TypeOK, States
<1>1. TypeOK'
    BY RespondEffect DEF AskCached, Enter, taskVars, TypeOK, States
<1>2. Overlap'
    BY <1>b DEF Overlap, Refreshing
<1>3. Working'
    BY <1>b DEF Working, Refreshing
<1>4. Asked'
    BY <1>b DEF Asked, Tasks
<1>5. Filled'
    BY <1>b DEF Filled, Refreshing, Tasks
<1>6. Past'
    BY <1>a, <1>b DEF Past
<1>7. Newest'
    BY <1>a, <1>b DEF Newest
<1>8. Ahead'
    <2> SUFFICES ASSUME NEW s \in Symbols \ tainted, tickers[s] # Missing,
                        NEW d \in Clients
                 PROVE  price'[d][s] <= tickers[s]
        BY <1>b DEF Ahead
    <2>1. price[d][s] <= tickers[s]
        BY DEF Ahead
    <2> QED
        BY <1>a, <2>1 DEF TypeOK, Versions
<1> QED
    BY <1>1, <1>2, <1>3, <1>4, <1>5, <1>6, <1>7, <1>8

\* A request that goes for the lock, its symbols known from here on.
LEMMA AskMissingKeeps ==
    ASSUME Inv, NEW c \in Clients,
           AskMissing(c)
    PROVE  Inv'
<1> USE ProxyConstants DEF Inv
<1>1. TypeOK'
    BY DEF AskMissing, TypeOK, States
<1>2. Overlap'
    BY DEF AskMissing, Overlap, Refreshing, Versions, Missing
<1>3. Working'
    BY DEF AskMissing, Working, TypeOK, Refreshing
<1>4. Asked'
    BY DEF AskMissing, Asked, Tasks
<1>5. Filled'
    BY DEF AskMissing, Filled, Refreshing
<1>6. Past'
    BY DEF AskMissing, Past
<1>7. Newest'
    BY DEF AskMissing, Newest
<1>8. Ahead'
    BY DEF AskMissing, Ahead
<1> QED
    BY <1>1, <1>2, <1>3, <1>4, <1>5, <1>6, <1>7, <1>8

\* A refresh begins: the cache is empty, and each other refresh under way is crossed.
LEMMA BeginsKeeps ==
    ASSUME Inv, NEW t \in Tasks,
           \/ t \in Clients /\ Enter(t) /\ NeedsRefresh(t)
           \/ t = Periodic /\ Wake
           \/ Again(t)
    PROVE  Inv'
<1> USE ProxyConstants DEF Inv
<1>a. Begin(t)
    BY DEF Enter, Wake, Again
<1>b. tracked \subseteq Symbols /\ t \in Tasks
    BY DEF TypeOK
<1>c. /\ batch' \in [Tasks -> SUBSET Symbols] /\ batch'[t] \subseteq tracked
      /\ \A u \in Tasks \ {t} : batch'[u] = batch[u]
    <2>1. PICK b \in Batches(tracked) : batch' = [batch EXCEPT ![t] = b]
        BY <1>a DEF Begin
    <2>2. b \subseteq tracked
        BY DEF Batches
    <2> QED
        BY <1>b, <2>1, <2>2 DEF TypeOK
<1>d. /\ pc' \in [Tasks -> States] /\ pc'[t] = "fetching"
      /\ todo' \in [Tasks -> SUBSET Symbols] /\ todo'[t] = tracked
      /\ got' \in [Tasks -> Versions \cup {Missing}] /\ got'[t] = Missing
      /\ \A u \in Tasks \ {t} : /\ pc'[u] = pc[u] /\ todo'[u] = todo[u]
                                /\ got'[u] = got[u]
    BY <1>a, <1>b DEF Begin, TypeOK, States
<1>e. /\ crossed' \in [Tasks -> BOOLEAN] /\ crossed'[t] = (Others(t) # {})
      /\ \A u \in Tasks \ {t} : crossed'[u] = (Refreshing(u) \/ crossed[u])
    BY <1>a, <1>b DEF Begin, Others
<1>f. /\ \A s \in Symbols : tickers'[s] = Missing
      /\ tickers' \in [Symbols -> Versions \cup {Missing}]
      /\ tainted' = {} /\ UNCHANGED <<now, tracked, attempt, price>>
    BY <1>a DEF Begin
<1>g. lock' \in Clients \cup {Nobody}
    BY DEF Enter, Wake, Again, TypeOK
<1>1. TypeOK'
    BY <1>b, <1>c, <1>d, <1>e, <1>f, <1>g DEF TypeOK
<1>2. Overlap'
    <2> SUFFICES ASSUME NEW v \in Tasks, NEW u \in Tasks, v # u,
                        Refreshing(v)', Refreshing(u)'
                 PROVE  crossed'[v]
        BY DEF Overlap
    <2>1. CASE v = t
        BY <1>d, <1>e, <2>1 DEF Others, Refreshing
    <2>2. CASE v # t
        BY <1>d, <1>e, <2>2 DEF Refreshing
    <2> QED
        BY <2>1, <2>2
<1>3. Working'
    BY DEF Enter, Wake, Again, Begin, Batches, Working, TypeOK, Refreshing
<1>4. Asked'
    BY DEF Enter, Wake, Again, Begin, Asked, Tasks, TypeOK
<1>5. Filled'
    <2> SUFFICES ASSUME NEW c \in Clients, Refreshing(c)', ~crossed'[c],
                        NEW s \in Wanted[c]
                 PROVE  s \in todo'[c]
        BY DEF Filled
    <2>1. c = t
        BY <1>d, <1>e DEF Refreshing, Tasks
    <2>2. pc[c] # "idle"
        BY <2>1 DEF Enter, Again
    <2> QED
        BY <1>d, <2>1, <2>2 DEF Asked
<1>6. Past'
    BY DEF Enter, Wake, Again, Begin, Past, Versions, Missing, TypeOK
<1>7. Newest'
    BY DEF Enter, Wake, Again, Begin, Newest, Past, Working, Versions, Missing,
       Tasks, TypeOK, Refreshing
<1>8. Ahead'
    BY DEF Enter, Wake, Again, Begin, Ahead
<1> QED
    BY <1>1, <1>2, <1>3, <1>4, <1>5, <1>6, <1>7, <1>8

\* An answer carries the newest prices there are.
LEMMA QuoteKeeps ==
    ASSUME Inv, NEW t \in Tasks,
           Quote(t)
    PROVE  Inv'
<1> USE ProxyConstants DEF Inv
<1>1. TypeOK'
    BY DEF Quote, TypeOK, States
<1>2. Overlap'
    BY DEF Quote, Overlap, Refreshing
<1>3. Working'
    BY DEF Quote, Working, Missing, TypeOK, Refreshing, Versions
<1>4. Asked'
    BY DEF Quote, Asked
<1>5. Filled'
    BY DEF Quote, Filled, Refreshing
<1>6. Past'
    BY DEF Quote, Past, Versions, TypeOK
<1>7. Newest'
    BY DEF Quote, Newest, Past, TypeOK
<1>8. Ahead'
    BY DEF Quote, Ahead
<1> QED
    BY <1>1, <1>2, <1>3, <1>4, <1>5, <1>6, <1>7, <1>8

\* One of several answers is stored.
LEMMA StoreMoreKeeps ==
    ASSUME Inv, NEW t \in Tasks,
           Store(t), ~(todo[t] \subseteq batch[t])
    PROVE  Inv'
<1> USE ProxyConstants DEF Inv
<1>a. /\ \A s \in Symbols :
            tickers'[s] = IF s \in batch[t] THEN got[t] ELSE tickers[s]
      /\ tickers' \in [Symbols -> Versions \cup {Missing}]
    BY DEF Store, Stored, TypeOK
<1>b. /\ pc[t] = "quoted" /\ UNCHANGED <<now, tracked>>
      /\ tainted' = IF crossed[t] THEN tainted \cup batch[t]
                                  ELSE tainted \ batch[t]
    BY DEF Store, Arrived
<1>c. /\ batch' \in [Tasks -> SUBSET Symbols]
      /\ batch'[t] \subseteq todo[t] \ batch[t]
      /\ \A u \in Tasks \ {t} : batch'[u] = batch[u]
    <2>1. PICK b \in Batches(todo[t] \ batch[t]) : batch' = [batch EXCEPT ![t] = b]
        BY DEF Store
    <2>2. b \subseteq todo[t] \ batch[t]
        BY DEF Batches
    <2> QED
        BY <2>1, <2>2 DEF TypeOK
<1>d. /\ pc' \in [Tasks -> States] /\ pc'[t] = "fetching"
      /\ todo' \in [Tasks -> SUBSET Symbols] /\ todo'[t] = todo[t] \ batch[t]
      /\ got' \in [Tasks -> Versions \cup {Missing}] /\ got'[t] = Missing
      /\ \A u \in Tasks \ {t} : /\ pc'[u] = pc[u] /\ todo'[u] = todo[u]
                                /\ got'[u] = got[u]
      /\ UNCHANGED <<lock, attempt, price, crossed>>
    <2>1. /\ pc' = [pc EXCEPT ![t] = "fetching"]
          /\ todo' = [todo EXCEPT ![t] = @ \ batch[t]]
          /\ got' = [got EXCEPT ![t] = Missing]
          /\ UNCHANGED <<lock, attempt, price, crossed>>
        BY DEF Store
    <2>2. pc' \in [Tasks -> States] /\ todo' \in [Tasks -> SUBSET Symbols]
        BY <2>1 DEF TypeOK, States
    <2> QED
        BY <2>1, <2>2 DEF TypeOK
<1>1. TypeOK'
    BY <1>a, <1>b, <1>c, <1>d DEF TypeOK
<1>2. Overlap'
    BY DEF Store, Arrived, Overlap, TypeOK, Refreshing
<1>3. Working'
    BY DEF Store, Batches, Working, TypeOK, Refreshing
<1>4. Asked'
    BY DEF Store, Arrived, Asked, Tasks, TypeOK
<1>5. Filled'
    BY DEF Store, Arrived, Stored, Filled, Working, Tasks, TypeOK, Refreshing
<1>6. Past'
    BY DEF Store, Stored, Past, Versions, Missing, TypeOK, Refreshing
<1>7. Newest'
    BY DEF Store, Arrived, Newest, Overlap, TypeOK, Refreshing
<1>8. Ahead'
    BY DEF Store, Arrived, Stored, Ahead, Newest
<1> QED
    BY <1>1, <1>2, <1>3, <1>4, <1>5, <1>6, <1>7, <1>8

\* The last answer is stored, and a request gets its response.
LEMMA StoreLastKeeps ==
    ASSUME Inv, NEW t \in Tasks,
           Store(t), todo[t] \subseteq batch[t]
    PROVE  Inv'
<1> USE ProxyConstants DEF Inv
<1>a. /\ \A s \in Symbols :
            tickers'[s] = IF s \in batch[t] THEN got[t] ELSE tickers[s]
      /\ tickers' \in [Symbols -> Versions \cup {Missing}]
    BY DEF Store, Stored, TypeOK
<1>b. /\ pc[t] = "quoted" /\ UNCHANGED <<now, tracked>>
      /\ tainted' = IF crossed[t] THEN tainted \cup batch[t]
                                  ELSE tainted \ batch[t]
    BY DEF Store, Arrived
<1>d. /\ pc' \in [Tasks -> States] /\ pc'[t] = "idle"
      /\ todo' \in [Tasks -> SUBSET Symbols]
      /\ batch' \in [Tasks -> SUBSET Symbols]
      /\ got' \in [Tasks -> Versions \cup {Missing}] /\ got'[t] = Missing
      /\ crossed' \in [Tasks -> BOOLEAN]
      /\ attempt' \in [Tasks -> 0..Attempts - 1]
      /\ \A u \in Tasks \ {t} : /\ pc'[u] = pc[u] /\ todo'[u] = todo[u]
                                /\ batch'[u] = batch[u] /\ got'[u] = got[u]
                                /\ crossed'[u] = crossed[u]
      /\ lock' \in Clients \cup {Nobody}
    <2>1. Done(t)
        BY DEF Store
    <2>2. pc' \in [Tasks -> States] /\ pc'[t] = "idle"
        BY <2>1 DEF Done, TypeOK, States
    <2>3. lock' \in Clients \cup {Nobody}
        BY <2>1 DEF Done, Free, TypeOK
    <2>4. attempt' \in [Tasks -> 0..Attempts - 1]
        BY <2>1 DEF Done, TypeOK
    <2>5. /\ todo' \in [Tasks -> SUBSET Symbols]
          /\ batch' \in [Tasks -> SUBSET Symbols]
          /\ got' \in [Tasks -> Versions \cup {Missing}] /\ got'[t] = Missing
          /\ crossed' \in [Tasks -> BOOLEAN]
        BY <2>1 DEF Done, TypeOK
    <2>6. \A u \in Tasks \ {t} : /\ pc'[u] = pc[u] /\ todo'[u] = todo[u]
                                /\ batch'[u] = batch[u] /\ got'[u] = got[u]
                                /\ crossed'[u] = crossed[u]
        BY <2>1 DEF Done, TypeOK
    <2> QED
        BY <2>2, <2>3, <2>4, <2>5, <2>6
<1>e. /\ price' \in [Clients -> [Symbols -> Versions \cup {Missing}]]
      /\ \A d \in Clients, s \in Symbols :
            \/ price'[d][s] = price[d][s]
            \/ tickers'[s] # Missing /\ price'[d][s] = tickers'[s]
    <2>1. CASE t \in Clients
        <3>1. Respond(t, tickers')
            BY <2>1 DEF Store
        <3> QED
            BY <1>a, <2>1, <3>1, RespondEffect
    <2>2. CASE t \notin Clients
        BY <2>2 DEF Store, TypeOK
    <2> QED
        BY <2>1, <2>2
<1>f. \A u \in Tasks : Refreshing(u)' => crossed'[u]
    BY <1>b, <1>d DEF Overlap, Refreshing
<1>1. TypeOK'
    BY <1>a, <1>b, <1>d, <1>e DEF TypeOK
<1>2. Overlap'
    BY <1>f DEF Overlap
<1>3. Working'
    BY <1>d DEF Working, Refreshing
<1>4. Asked'
    BY <1>b, <1>d DEF Asked, Tasks
<1>5. Filled'
    BY <1>f DEF Filled, Tasks
<1>6. Past'
    <2>1. \A s \in Symbols : tickers'[s] <= now
        BY <1>a DEF Past
    <2>2. \A u \in Tasks : got'[u] <= now
        BY <1>d DEF Past, TypeOK, Versions, Missing
    <2>3. \A d \in Clients, s \in Symbols : price'[d][s] <= now
        BY <1>e, <2>1 DEF Past
    <2> QED
        BY <1>b, <2>1, <2>2, <2>3 DEF Past
<1>7. Newest'
    BY <1>f DEF Newest, Refreshing
<1>8. Ahead'
    <2> SUFFICES ASSUME NEW s \in Symbols \ tainted', tickers'[s] # Missing,
                        NEW d \in Clients
                 PROVE  price'[d][s] <= tickers'[s]
        BY DEF Ahead
    <2>1. price[d][s] <= tickers'[s]
        <3>1. CASE s \in batch[t]
            BY <1>a, <1>b, <3>1 DEF Newest
        <3>2. CASE s \notin batch[t]
            BY <1>a, <1>b, <3>2 DEF Ahead
        <3> QED
            BY <3>1, <3>2
    <2> QED
        BY <1>a, <1>e, <2>1 DEF TypeOK, Versions
<1> QED
    BY <1>1, <1>2, <1>3, <1>4, <1>5, <1>6, <1>7, <1>8

\* A failed refresh waits to be tried again.
LEMMA RetriesKeeps ==
    ASSUME Inv, NEW t \in Tasks,
           Retries(t)
    PROVE  Inv'
<1> USE ProxyConstants DEF Inv
<1>1. TypeOK'
    BY DEF Retries, TypeOK, States
<1>2. Overlap'
    BY DEF Retries, Overlap, TypeOK, Refreshing
<1>3. Working'
    BY DEF Retries, Working, TypeOK, Refreshing
<1>4. Asked'
    BY DEF Retries, Asked, Refreshing
<1>5. Filled'
    BY DEF Retries, Filled, TypeOK, Refreshing
<1>6. Past'
    BY DEF Retries, Past
<1>7. Newest'
    BY DEF Retries, Newest, TypeOK
<1>8. Ahead'
    BY DEF Retries, Ahead
<1> QED
    BY <1>1, <1>2, <1>3, <1>4, <1>5, <1>6, <1>7, <1>8

\* A failed refresh is given up.
LEMMA FailsKeeps ==
    ASSUME Inv, NEW t \in Tasks,
           Fails(t)
    PROVE  Inv'
<1> USE ProxyConstants DEF Inv
<1>1. TypeOK'
    BY DEF Fails, Done, Free, TypeOK, States
<1>2. Overlap'
    BY DEF Fails, Done, Overlap, TypeOK, Refreshing
<1>3. Working'
    BY DEF Fails, Done, Working, TypeOK, Refreshing
<1>4. Asked'
    BY DEF Fails, Done, Asked
<1>5. Filled'
    BY DEF Fails, Done, Filled, TypeOK, Refreshing
<1>6. Past'
    BY DEF Fails, Done, Past, Versions, Missing, TypeOK
<1>7. Newest'
    BY DEF Fails, Done, Newest, TypeOK
<1>8. Ahead'
    BY DEF Fails, Ahead
<1> QED
    BY <1>1, <1>2, <1>3, <1>4, <1>5, <1>6, <1>7, <1>8

\* The market moves on.
LEMMA MoveKeeps ==
    ASSUME Inv, Move
    PROVE  Inv'
<1> USE ProxyConstants DEF Inv
<1>1. TypeOK'
    BY DEF Move, taskVars, TypeOK, Versions
<1>2. Overlap'
    BY DEF Move, taskVars, Overlap, Refreshing
<1>3. Working'
    BY DEF Move, taskVars, Working, Refreshing
<1>4. Asked'
    BY DEF Move, taskVars, Asked
<1>5. Filled'
    BY DEF Move, taskVars, Filled, Refreshing
<1>6. Past'
    BY DEF Move, taskVars, Past, Versions, Missing, TypeOK
<1>7. Newest'
    BY DEF Move, taskVars, Newest
<1>8. Ahead'
    BY DEF Move, Ahead
<1> QED
    BY <1>1, <1>2, <1>3, <1>4, <1>5, <1>6, <1>7, <1>8

-----------------------------------------------------------------------------

\* Nothing is cached, asked for or under way at the start.
LEMMA InitInv == Init => Inv
    BY ProxyConstants DEF Init, Inv, TypeOK, Overlap, Working, Asked, Filled,
       Past, Newest, Ahead, Refreshing, States, Versions, Missing, Tasks

\* Every step keeps the invariant.
LEMMA NextInv == Inv /\ [Next]_vars => Inv'
<1> SUFFICES ASSUME Inv, [Next]_vars PROVE Inv'
    OBVIOUS
<1>1. ASSUME NEW c \in Clients, AskCached(c) \/ AskMissing(c) \/ Enter(c) PROVE Inv'
    <2>1. c \in Tasks
        BY DEF Tasks
    <2>2. CASE AskCached(c) \/ (Enter(c) /\ ~NeedsRefresh(c))
        BY <2>2, ServesKeeps
    <2>3. CASE AskMissing(c)
        BY <2>3, AskMissingKeeps
    <2>4. CASE Enter(c) /\ NeedsRefresh(c)
        BY <2>1, <2>4, BeginsKeeps
    <2> QED
        BY <1>1, <2>2, <2>3, <2>4
<1>2. CASE Wake
    BY <1>2, BeginsKeeps DEF Tasks
<1>3. CASE Move
    BY <1>3, MoveKeeps
<1>4. ASSUME NEW t \in Tasks, RefreshStep(t) PROVE Inv'
    BY <1>4, BeginsKeeps, QuoteKeeps, StoreMoreKeeps, StoreLastKeeps,
       RetriesKeeps, FailsKeeps DEF RefreshStep
<1>5. CASE UNCHANGED vars
    BY <1>5 DEF Inv, TypeOK, Overlap, Working, Asked, Filled, Past, Newest, Ahead,
       Refreshing, vars, taskVars
<1> QED
    BY <1>1, <1>2, <1>3, <1>4, <1>5 DEF Next

\* Every reachable state satisfies the invariant.
THEOREM PriceInvariant == Spec => []Inv
    BY InitInv, NextInv, PTL DEF Spec

\* The cache, the lock, the refreshes and the prices of the bots hold values of
\* their kinds: in particular no refresh is tried more often than max_retries.
THEOREM PriceTypeCorrect == Spec => []TypeOK
<1>1. Inv => TypeOK
    BY DEF Inv
<1> QED
    BY <1>1, PriceInvariant, PTL

\* A step that gives a bot new prices gives it all it asked for, or ends a refresh
\* of its own that another one crossed: the response of the proxy has an error
\* object in place of a price only then.
LEMMA StepComplete ==
    ASSUME Inv, [Next]_vars, NEW c \in Clients, price'[c] # price[c]
    PROVE  \/ \A s \in Wanted[c] : tickers'[s] # Missing /\ price'[c][s] = tickers'[s]
           \/ pc[c] = "quoted" /\ crossed[c]
<1> USE ProxyConstants DEF Inv
<1>1. ASSUME NEW d \in Clients, Respond(d, tickers), tickers' = tickers,
             ~NeedsRefresh(d)
      PROVE  \A s \in Wanted[c] : tickers'[s] # Missing /\ price'[c][s] = tickers'[s]
    <2>1. tickers \in [Symbols -> Versions \cup {Missing}] /\ Wanted[c] \subseteq Symbols
        BY DEF TypeOK
    <2>2. c = d
        BY <1>1 DEF Respond
    <2> QED
        BY <1>1, <2>1, <2>2, RespondEffect DEF NeedsRefresh
<1>2. ASSUME NEW d \in Clients, AskCached(d) \/ Enter(d)
      PROVE  \A s \in Wanted[c] : tickers'[s] # Missing /\ price'[c][s] = tickers'[s]
    <2>1. ~(Enter(d) /\ NeedsRefresh(d))
        BY DEF Enter, Begin
    <2>2. Respond(d, tickers) /\ tickers' = tickers /\ ~NeedsRefresh(d)
        BY <1>2, <2>1 DEF AskCached, Enter
    <2> QED
        BY <1>1, <2>2
<1>3. ASSUME NEW t \in Tasks, Store(t), ~crossed[c]
      PROVE  \A s \in Wanted[c] : tickers'[s] # Missing /\ price'[c][s] = tickers'[s]
    <2>1. todo[t] \subseteq batch[t] /\ t \in Clients /\ Respond(t, Stored(t))
        BY <1>3 DEF Store
    <2>2. /\ Stored(t) \in [Symbols -> Versions \cup {Missing}]
          /\ Wanted[c] \subseteq Symbols /\ tickers' = Stored(t)
          /\ pc[t] = "quoted"
        BY <1>3 DEF Store, Arrived, Stored, TypeOK
    <2>3. c = t
        BY <2>1 DEF Respond
    <2>4. ASSUME NEW s \in Wanted[c] PROVE tickers'[s] # Missing
        <3>1. s \in todo[c] \/ tickers[s] # Missing
            BY <1>3, <2>2, <2>3 DEF Filled, Refreshing
        <3>2. got[c] # Missing
            BY <2>2, <2>3 DEF Working
        <3> QED
            BY <2>1, <2>2, <2>3, <3>1, <3>2 DEF Stored
    <2> QED
        BY <2>1, <2>2, <2>3, <2>4, RespondEffect
<1>4. ASSUME NEW t \in Tasks, Store(t), crossed[c] PROVE pc[c] = "quoted"
    <2>1. t \in Clients /\ Respond(t, Stored(t)) /\ pc[t] = "quoted"
        BY <1>4 DEF Store, Arrived
    <2> QED
        BY <2>1 DEF Respond
<1>5. \/ \E d \in Clients : AskCached(d) \/ Enter(d)
      \/ \E t \in Tasks : Store(t)
    BY DEF Next, RefreshStep, AskMissing, Wake, Again, Begin, Quote, Retries,
       Fails, Move, vars
<1> QED
    BY <1>2, <1>3, <1>4, <1>5

\* A response of the proxy has a price for every symbol asked for, unless the
\* refresh behind it overlapped with another.
THEOREM AnswersAreComplete == Spec => AnswersComplete
<1>1. Inv /\ [Next]_vars =>
        [\A c \in Clients :
            price'[c] # price[c] =>
                \/ \A s \in Wanted[c] :
                    tickers'[s] # Missing /\ price'[c][s] = tickers'[s]
                \/ pc[c] = "quoted" /\ crossed[c]]_vars
    BY StepComplete
<1> QED
    BY <1>1, PriceInvariant, PTL DEF Spec, AnswersComplete

\* A step takes a bot to an older price only if a crossed refresh stored it.
LEMMA StepForward ==
    ASSUME Inv, [Next]_vars, NEW c \in Clients, NEW s \in Symbols, s \notin tainted'
    PROVE  price'[c][s] >= price[c][s]
<1> USE ProxyConstants DEF Inv
<1>0. price[c][s] \in Versions \cup {Missing}
    BY DEF TypeOK
<1>1. CASE price'[c][s] = price[c][s]
    BY <1>0, <1>1 DEF Versions, Missing
<1>2. CASE price'[c][s] # price[c][s]
    <2>1. ASSUME NEW d \in Clients, NEW cache \in [Symbols -> Versions \cup {Missing}],
                 Respond(d, cache)
          PROVE  price'[c][s] = cache[s] /\ cache[s] # Missing
        BY <1>2, <2>1, RespondEffect
    <2>2. ASSUME NEW d \in Clients, AskCached(d) \/ Enter(d)
          PROVE  price'[c][s] >= price[c][s]
        <3>1. Respond(d, tickers) /\ tainted' = tainted
            BY <1>2, <2>2 DEF AskCached, Enter, Begin
        <3>2. price'[c][s] = tickers[s] /\ tickers[s] # Missing
            BY <2>1, <3>1 DEF TypeOK
        <3> QED
            BY <1>0, <3>1, <3>2 DEF Ahead
    <2>3. ASSUME NEW t \in Tasks, Store(t) PROVE price'[c][s] >= price[c][s]
        <3>1. /\ t \in Clients /\ Respond(t, Stored(t)) /\ pc[t] = "quoted"
              /\ tickers' = Stored(t)
              /\ Stored(t) \in [Symbols -> Versions \cup {Missing}]
            BY <1>2, <2>3 DEF Store, Arrived, Stored, TypeOK
        <3>2. price'[c][s] = tickers'[s] /\ tickers'[s] # Missing
            BY <2>1, <3>1
        <3>3. Inv'
            BY <2>3, StoreMoreKeeps, StoreLastKeeps
        <3>4. price'[c][s] <= tickers'[s]
            BY <3>2, <3>3 DEF Ahead
        <3>5. CASE s \in batch[t]
            <4>1. ~crossed[t] /\ tickers'[s] = got[t]
                BY <2>3, <3>1, <3>5 DEF Store, Stored
            <4> QED
                BY <1>0, <3>1, <3>2, <4>1 DEF Newest
        <3>6. CASE s \notin batch[t]
            <4>1. s \notin tainted /\ tickers'[s] = tickers[s]
                BY <2>3, <3>1, <3>6 DEF Store, Stored
            <4> QED
                BY <1>0, <3>1, <3>2, <4>1 DEF Ahead
        <3> QED
            BY <3>5, <3>6
    <2>4. \/ \E d \in Clients : AskCached(d) \/ Enter(d)
          \/ \E t \in Tasks : Store(t)
        BY <1>2 DEF Next, RefreshStep, AskMissing, Wake, Again, Begin, Quote,
           Retries, Fails, Move, vars
    <2> QED
        BY <2>2, <2>3, <2>4
<1> QED
    BY <1>1, <1>2

\* A bot that already has a price of a symbol never gets an older one from the
\* proxy, unless two refreshes overlapped.
THEOREM PricesGoForward == Spec => PricesMoveForward
<1>1. Inv /\ [Next]_vars =>
        [\A c \in Clients, s \in Symbols :
            price'[c][s] >= price[c][s] \/ s \in tainted']_vars
    BY StepForward
<1> QED
    BY <1>1, PriceInvariant, PTL DEF Spec, PricesMoveForward

-----------------------------------------------------------------------------
(* Where the overlaps come from.                                            *)

\* A request works on the cache, and waits for its next attempt, with the lock.
LockHeld ==
    \A c \in Clients : pc[c] \in {"fetching", "quoted", "backoff"} => lock = c

\* No refresh has overlapped with another, and none that did has left its prices.
Uncrossed == (\A t \in Tasks : ~crossed[t]) /\ tainted = {}

\* Enter takes the lock when it is free; only the refresh that holds it frees it.
LEMMA LockKept == Inv /\ LockHeld /\ [Next]_vars => LockHeld'
<1> SUFFICES ASSUME Inv, LockHeld, [Next]_vars, NEW c \in Clients,
                    pc'[c] \in {"fetching", "quoted", "backoff"}
             PROVE  lock' = c
    BY DEF LockHeld
<1> USE ProxyConstants
<1>0. pc \in [Tasks -> States] /\ c \in Tasks /\ Periodic \in Tasks /\ c # Periodic
    BY DEF Inv, TypeOK, Tasks
<1>1. CASE UNCHANGED vars \/ Move
    BY <1>1 DEF vars, taskVars, Move, LockHeld
<1>2. ASSUME NEW d \in Clients, AskCached(d) \/ AskMissing(d) \/ Enter(d)
      PROVE  lock' = c
    <2>1. d \in Tasks /\ Nobody # c
        BY DEF Tasks
    <2> QED
        BY <1>0, <1>2, <2>1 DEF AskCached, AskMissing, Enter, Begin, taskVars, LockHeld
<1>3. CASE Wake
    BY <1>0, <1>3 DEF Wake, Begin, LockHeld
<1>4. ASSUME NEW t \in Tasks, RefreshStep(t) PROVE lock' = c
    <2>1. CASE t = c
        BY <1>0, <1>4, <2>1 DEF RefreshStep, Quote, Store, Arrived, Retries, Again,
           Begin, Fails, Done, Refreshing, LockHeld
    <2>2. CASE t # c
        <3>1. pc'[c] = pc[c]
            BY <1>0, <1>4, <2>2 DEF RefreshStep, Quote, Store, Arrived, Retries, Again,
               Begin, Fails, Done
        <3>2. lock = c
            BY <3>1 DEF LockHeld
        <3>3. lock' = lock
            BY <1>4, <2>2, <3>2 DEF RefreshStep, Quote, Store, Arrived, Retries, Again,
               Begin, Fails, Done, Free
        <3> QED
            BY <3>2, <3>3
    <2> QED
        BY <2>1, <2>2
<1> QED
    BY <1>1, <1>2, <1>3, <1>4 DEF Next

\* A refresh that begins while the periodic task rests is the only one: it crosses
\* nobody.
LEMMA LoneRefresh ==
    ASSUME Inv, LockHeld, Uncrossed, pc[Periodic] = "idle", NEW t \in Clients,
           lock \in {t, Nobody}, Begin(t)
    PROVE  Uncrossed'
<1>1. Others(t) = {}
    BY ProxyConstants DEF Others, Tasks, Refreshing, LockHeld
<1>2. crossed' = [u \in Tasks |->
            IF u = t THEN Others(t) # {} ELSE u \in Others(t) \/ crossed[u]]
    BY DEF Begin
<1>3. \A u \in Tasks : ~crossed'[u]
    BY <1>1, <1>2 DEF Uncrossed
<1> QED
    BY <1>3 DEF Begin, Uncrossed

\* So requests alone never cross each other, retries and failures included.
LEMMA UncrossedKept ==
    Inv /\ LockHeld /\ Uncrossed /\ pc[Periodic] = "idle" /\ [Next]_vars
        /\ (pc[Periodic] = "idle")'
    => Uncrossed'
<1> SUFFICES ASSUME Inv, LockHeld, Uncrossed, pc[Periodic] = "idle", [Next]_vars,
                    pc'[Periodic] = "idle"
             PROVE  Uncrossed'
    OBVIOUS
<1>0. pc \in [Tasks -> States] /\ crossed \in [Tasks -> BOOLEAN] /\ Periodic \in Tasks
    BY DEF Inv, TypeOK, Tasks
<1>1. CASE UNCHANGED <<crossed, tainted>>
    BY <1>1 DEF Uncrossed
<1>2. ~Wake
    BY <1>0 DEF Wake, Begin
<1>3. ASSUME NEW c \in Clients, Enter(c) PROVE Uncrossed'
    BY <1>1, <1>3, LoneRefresh DEF Enter
<1>4. ASSUME NEW t \in Tasks, RefreshStep(t) PROVE Uncrossed'
    <2>1. t \in Clients
        BY <1>4, <1>0 DEF RefreshStep, Quote, Store, Arrived, Retries, Again, Fails,
           Refreshing, Tasks
    <2>2. CASE Again(t)
        BY <2>1, <2>2, LoneRefresh DEF Again, LockHeld
    <2>3. CASE Quote(t)
        BY <1>1, <2>3 DEF Quote
    <2>4. CASE Store(t) \/ Retries(t) \/ Fails(t)
        <3>1. tainted' = {}
            BY <2>4 DEF Store, Retries, Fails, Uncrossed
        <3>2. crossed' \in {crossed, [crossed EXCEPT ![t] = FALSE]}
            BY <2>4 DEF Store, Retries, Fails, Done
        <3>3. \A u \in Tasks : ~crossed'[u]
            BY <1>0, <3>2 DEF Uncrossed
        <3> QED
            BY <3>1, <3>3 DEF Uncrossed
    <2> QED
        BY <1>4, <2>2, <2>3, <2>4 DEF RefreshStep
<1>5. ASSUME NEW c \in Clients, AskCached(c) \/ AskMissing(c) PROVE Uncrossed'
    BY <1>1, <1>5 DEF AskCached, AskMissing
<1>6. CASE Move \/ UNCHANGED vars
    BY <1>1, <1>6 DEF Move, vars
<1> QED
    BY <1>2, <1>3, <1>4, <1>5, <1>6 DEF Next

\* What PricesMoveForward and AnswersComplete say without their exceptions.
NeverBack ==
    [][\A c \in Clients, s \in Symbols : price'[c][s] >= price[c][s]]_vars

AlwaysComplete ==
    [][\A c \in Clients :
        price'[c] # price[c] =>
            \A s \in Wanted[c] :
                tickers'[s] # Missing /\ price'[c][s] = tickers'[s]]_vars

\* The only cause of both exceptions is _run_periodically, which refreshes the cache
\* without _refresh_lock: with the requests alone, however many bots make them, no
\* bot ever goes back to an older price and no answer lacks one.
THEOREM LockedRefreshesAreSafe ==
    Spec /\ [](pc[Periodic] = "idle") => NeverBack /\ AlwaysComplete
<1>1. Init => LockHeld /\ Uncrossed
    BY ProxyConstants DEF Init, LockHeld, Uncrossed, Tasks
<1>2. Inv /\ Uncrossed' /\ [Next]_vars =>
        [\A c \in Clients, s \in Symbols : price'[c][s] >= price[c][s]]_vars
    BY StepForward DEF Uncrossed
<1>3. Inv /\ Uncrossed /\ [Next]_vars =>
        [\A c \in Clients :
            price'[c] # price[c] =>
                \A s \in Wanted[c] :
                    tickers'[s] # Missing /\ price'[c][s] = tickers'[s]]_vars
    BY StepComplete DEF Uncrossed, Tasks
<1> QED
    BY <1>1, <1>2, <1>3, LockKept, UncrossedKept, PriceInvariant,
       PTL DEF Spec, NeverBack, AlwaysComplete
=============================================================================
