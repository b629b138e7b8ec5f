----------------------------- MODULE PriceProxy -----------------------------
(***************************************************************************)
(* The ticker cache of the price proxy (PriceFetcher and WebServer of      *)
(* proxy_ccxt.py) and the prices that the bots take from it (PriceHandler  *)
(* of definitions/starter.py, ccxt_manager.py).                            *)
(*                                                                         *)
(* A request that misses a symbol refreshes the whole cache under a lock;  *)
(* the periodic task refreshes it without the lock. Each refresh empties   *)
(* the cache and fills it, one market type after the other, as the answers *)
(* of the exchange come in. A price is the version of the market it was    *)
(* read from.                                                              *)
(***************************************************************************)
EXTENDS Integers

CONSTANTS
    Symbols,     \* the valid symbols
    TypeOf,      \* the market type of each
    Clients,     \* the bots; each has one request at a time
    Wanted,      \* the symbols each one asks for
    Periodic,    \* the task _run_periodically
    Nobody,
    Attempts,    \* max_retries of refresh_ccxt_tickers
    MaxVersion   \* bound on the moves of the market

ASSUME ProxyConstants ==
    /\ Wanted \in [Clients -> SUBSET Symbols]
    /\ Periodic \notin Clients
    /\ Nobody \notin Clients \cup {Periodic}
    /\ Attempts \in Nat \ {0} /\ MaxVersion \in Nat

VARIABLES
    now,       \* the version of the market
    tracked,   \* symbols_list
    tickers,   \* the cache: a version for each symbol, or Missing
    lock,      \* who holds _refresh_lock
    pc,        \* what each task does
    attempt,   \* its retries of the refresh under way
    todo,      \* the symbols its refresh has yet to store
    batch,     \* those it has asked the exchange for
    got,       \* the version the exchange answered with
    price,     \* the token prices of each bot
    crossed,   \* its refresh overlapped with another one: history
    tainted    \* cached symbols that such a refresh stored: history

taskVars == <<pc, attempt, todo, batch, got>>
vars == <<now, tracked, tickers, lock, taskVars, price, crossed, tainted>>

-----------------------------------------------------------------------------

Tasks == Clients \cup {Periodic}

States == {"idle", "locking", "fetching", "quoted", "backoff"}

Missing == -1
Versions == 0..MaxVersion

\* A refresh has emptied the cache and waits for an answer of the exchange.
Refreshing(t) == pc[t] \in {"fetching", "quoted"}

Others(t) == {u \in Tasks \ {t} : Refreshing(u)}

NeedsRefresh(c) == \E s \in Wanted[c] : tickers[s] = Missing

\* The symbols of one market type, asked for in one call.
Batches(S) == {{s \in S : TypeOf[s] = TypeOf[r]} : r \in S}

-----------------------------------------------------------------------------
(* One request or one round of the periodic task. ArrivedLate, KeepLock,
   EnterTrusting and RetriesForever are not part of Next: each changes one
   operation that the properties below depend on. *)

\* The bot gets an entry for each symbol. One without a price is an error object;
\* reading it raises, which leaves the token with the price it had.
Respond(c, cache) ==
    price' = [price EXCEPT ![c] =
                [s \in Symbols |-> IF s \in Wanted[c] /\ cache[s] # Missing
                                   THEN cache[s] ELSE @[s]]]

\* A request is served from the cache ...
AskCached(c) ==
    /\ pc[c] = "idle" /\ ~NeedsRefresh(c)
    /\ tracked' = tracked \cup Wanted[c]
    /\ Respond(c, tickers)
    /\ UNCHANGED <<now, tickers, lock, taskVars, crossed, tainted>>

\* ... or goes for the lock.
AskMissing(c) ==
    /\ pc[c] = "idle" /\ NeedsRefresh(c)
    /\ tracked' = tracked \cup Wanted[c]
    /\ pc' = [pc EXCEPT ![c] = "locking"]
    /\ UNCHANGED <<now, tickers, lock, attempt, todo, batch, got, price, crossed, tainted>>

\* refresh_ccxt_tickers: the symbols known by now are grouped, the cache is
\* emptied and the first group asked for.
Begin(t) ==
    /\ tickers' = [s \in Symbols |-> Missing]
    /\ todo' = [todo EXCEPT ![t] = tracked]
    /\ \E b \in Batches(tracked) : batch' = [batch EXCEPT ![t] = b]
    /\ pc' = [pc EXCEPT ![t] = "fetching"]
    /\ crossed' = [u \in Tasks |->
            IF u = t THEN Others(t) # {} ELSE u \in Others(t) \/ crossed[u]]
    /\ tainted' = {}
    /\ got' = [got EXCEPT ![t] = Missing]
    /\ UNCHANGED <<now, tracked, attempt, price>>

EnterTrusting(c) ==
    /\ pc[c] = "locking" /\ lock = Nobody
    /\ IF tickers = [s \in Symbols |-> Missing]
       THEN lock' = c /\ Begin(c)
       ELSE /\ Respond(c, tickers)
            /\ pc' = [pc EXCEPT ![c] = "idle"]
            /\ UNCHANGED <<now, tracked, tickers, lock, attempt, todo, batch, got,
                           crossed, tainted>>

\* The lock is free: the cache is looked at again.
Enter(c) ==
    /\ pc[c] = "locking" /\ lock = Nobody
    /\ IF NeedsRefresh(c)
       THEN lock' = c /\ Begin(c)
       ELSE /\ Respond(c, tickers)
            /\ pc' = [pc EXCEPT ![c] = "idle"]
            /\ UNCHANGED <<now, tracked, tickers, lock, attempt, todo, batch, got,
                           crossed, tainted>>

\* The periodic task does nothing until a symbol is known.
Wake ==
    /\ pc[Periodic] = "idle" /\ tracked # {}
    /\ Begin(Periodic) /\ UNCHANGED lock

\* The exchange reads its prices and answers.
Quote(t) ==
    /\ pc[t] = "fetching"
    /\ got' = [got EXCEPT ![t] = now]
    /\ pc' = [pc EXCEPT ![t] = "quoted"]
    /\ UNCHANGED <<now, tracked, tickers, lock, attempt, todo, batch, price, crossed, tainted>>

KeepLock(t) == UNCHANGED lock

Free(t) == lock' = IF lock = t THEN Nobody ELSE lock

\* The refresh is over.
Done(t) ==
    /\ Free(t)
    /\ pc' = [pc EXCEPT ![t] = "idle"]
    /\ attempt' = [attempt EXCEPT ![t] = 0]
    /\ todo' = [todo EXCEPT ![t] = {}]
    /\ batch' = [batch EXCEPT ![t] = {}]
    /\ got' = [got EXCEPT ![t] = Missing]
    /\ crossed' = [crossed EXCEPT ![t] = FALSE]

Stored(t) == [s \in Symbols |-> IF s \in batch[t] THEN got[t] ELSE tickers[s]]

ArrivedLate(t) == pc[t] \in {"quoted", "backoff"} /\ got[t] # Missing

Arrived(t) == pc[t] = "quoted"

\* The answer is stored. After the last one a request gets its response, in the
\* same step: nothing is awaited between the two.
Store(t) ==
    /\ Arrived(t)
    /\ tickers' = Stored(t)
    /\ tainted' = IF crossed[t] THEN tainted \cup batch[t] ELSE tainted \ batch[t]
    /\ IF todo[t] \subseteq batch[t]
       THEN /\ Done(t)
            /\ IF t \in Clients THEN Respond(t, Stored(t)) ELSE UNCHANGED price
       ELSE /\ todo' = [todo EXCEPT ![t] = @ \ batch[t]]
            /\ \E b \in Batches(todo[t] \ batch[t]) : batch' = [batch EXCEPT ![t] = b]
            /\ pc' = [pc EXCEPT ![t] = "fetching"]
            /\ got' = [got EXCEPT ![t] = Missing]
            /\ UNCHANGED <<lock, attempt, price, crossed>>
    /\ UNCHANGED <<now, tracked>>

RetriesForever(t) ==
    /\ Refreshing(t)
    /\ pc' = [pc EXCEPT ![t] = "backoff"]
    /\ attempt' = [attempt EXCEPT ![t] = @ + 1]
    /\ todo' = [todo EXCEPT ![t] = {}]
    /\ crossed' = [crossed EXCEPT ![t] = FALSE]
    /\ UNCHANGED <<now, tracked, tickers, lock, batch, got, price, tainted>>

\* A network error: the refresh will be tried again, the lock stays held ...
Retries(t) ==
    /\ Refreshing(t) /\ attempt[t] + 1 < Attempts
    /\ pc' = [pc EXCEPT ![t] = "backoff"]
    /\ attempt' = [attempt EXCEPT ![t] = @ + 1]
    /\ todo' = [todo EXCEPT ![t] = {}]
    /\ crossed' = [crossed EXCEPT ![t] = FALSE]
    /\ UNCHANGED <<now, tracked, tickers, lock, batch, got, price, tainted>>

Again(t) == pc[t] = "backoff" /\ Begin(t) /\ UNCHANGED lock

\* ... or not: another error, a time-out, or the last attempt. A request is answered
\* with an error status, and the bot will ask again.
Fails(t) ==
    /\ Refreshing(t) /\ Done(t)
    /\ UNCHANGED <<now, tracked, tickers, price, tainted>>

\* Prices move.
Move ==
    /\ now < MaxVersion
    /\ now' = now + 1
    /\ UNCHANGED <<tracked, tickers, lock, taskVars, price, crossed, tainted>>

-----------------------------------------------------------------------------

Init ==
    /\ now = 0 /\ tracked = {} /\ lock = Nobody
    /\ tickers = [s \in Symbols |-> Missing]
    /\ pc = [t \in Tasks |-> "idle"]
    /\ attempt = [t \in Tasks |-> 0]
    /\ todo = [t \in Tasks |-> {}]
    /\ batch = [t \in Tasks |-> {}]
    /\ got = [t \in Tasks |-> Missing]
    /\ price = [c \in Clients |-> [s \in Symbols |-> Missing]]
    /\ crossed = [t \in Tasks |-> FALSE] /\ tainted = {}

RefreshStep(t) == Quote(t) \/ Store(t) \/ Retries(t) \/ Again(t) \/ Fails(t)

Next ==
    \/ \E c \in Clients : AskCached(c) \/ AskMissing(c) \/ Enter(c)
    \/ Wake \/ Move
    \/ \E t \in Tasks : RefreshStep(t)

\* A fetch has a time-out of 10 s and a backoff an end; asyncio's lock serves its
\* waiters in order.
Spec ==
    /\ Init /\ [][Next]_vars
    /\ \A t \in Tasks : WF_vars(RefreshStep(t))
    /\ \A c \in Clients : SF_vars(Enter(c))

-----------------------------------------------------------------------------
(* Properties. *)

\* Every variable holds a value of its kind.
TypeOK ==
    /\ now \in Versions
    /\ tracked \subseteq Symbols
    /\ tickers \in [Symbols -> Versions \cup {Missing}]
    /\ lock \in Clients \cup {Nobody}
    /\ pc \in [Tasks -> States]
    /\ attempt \in [Tasks -> 0..Attempts - 1]
    /\ todo \in [Tasks -> SUBSET Symbols]
    /\ batch \in [Tasks -> SUBSET Symbols]
    /\ got \in [Tasks -> Versions \cup {Missing}]
    /\ price \in [Clients -> [Symbols -> Versions \cup {Missing}]]
    /\ crossed \in [Tasks -> BOOLEAN] /\ tainted \subseteq Symbols

\* A bot never goes back to an older price of a symbol, except to one that was
\* stored by a refresh that overlapped with another: two refreshes that overlap
\* store their answers in either order.
PricesMoveForward ==
    [][\A c \in Clients, s \in Symbols :
        price'[c][s] >= price[c][s] \/ s \in tainted']_vars

\* A request that is not answered with an error gets a price for every symbol,
\* unless its own refresh overlapped with another one, which emptied the cache
\* between two answers of the exchange.
AnswersComplete ==
    [][\A c \in Clients :
        price'[c] # price[c] =>
            \/ \A s \in Wanted[c] : tickers'[s] # Missing /\ price'[c][s] = tickers'[s]
            \/ pc[c] = "quoted" /\ crossed[c]]_vars

\* Every request is answered, with prices or with an error, however many others
\* ask and however often the periodic task refreshes.
RequestsEnd == \A c \in Clients : pc[c] # "idle" ~> pc[c] = "idle"

=============================================================================
