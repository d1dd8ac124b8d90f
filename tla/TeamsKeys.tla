----------------------------- MODULE TeamsKeys -----------------------------
(***************************************************************************)
(* The signing keys of the teams adapter (internal/teams/auth.go): a cache *)
(* of the published key set that requests share, refreshed by one of them  *)
(* at a time, at most once per MinRefresh, and served past its age while   *)
(* refreshes fail.                                                         *)
(*                                                                         *)
(* The publisher adds and retires keys at any time, and its answer to a    *)
(* fetch is its set at some moment of the fetch.  A fetch may fail.  What  *)
(* else a token needs (validateInbound) holds of every request here.       *)
(***************************************************************************)
EXTENDS Integers

CONSTANTS Requests,   \* handlers that validate a token
          NoRequest,  \* nobody holds fetchMu
          Kids,       \* key ids
          NoKid,      \* no token at hand
          MaxAge,     \* jwksMaxAge
          HardMaxAge, \* jwksHardMaxAge
          MinRefresh, \* jwksMinRefreshInterval
          FetchTime,  \* jwksFetchTimeout
          MaxTime     \* bound on the clock

\* What the module takes for granted of its parameters; MCClients assumes it.
KeysAssumption == /\ NoRequest \notin Requests
                  /\ NoKid \notin Kids
                  /\ {MaxAge, MinRefresh, FetchTime, MaxTime} \subseteq Nat \ {0}
                  /\ HardMaxAge = 2 * MaxAge

VARIABLES now,       \* the clock
          future,    \* keys the publisher has not published yet
          published, \* its keys
          retiredAt, \* when it retired each key, MaxTime if it did not
          keys,      \* the cache
          keysAt,    \* when the last fetch began
          freshAt,   \* keysFreshAt: when the last good one ended
          step,      \* each request: "idle", "lookup", "lock", "fetch", "answered"
          kid,       \* the key that signed its token
          cached,    \* requests that found their key when they decided to fetch
          fetchMu,   \* the request that refreshes
          answer,    \* the set the publisher sent
          accepted   \* history: when each retired key was last accepted, -1 if never

publisherVars == <<future, published, retiredAt>>
cacheVars == <<keys, keysAt, freshAt>>
requestVars == <<step, kid, cached, fetchMu, answer, accepted>>
vars == <<now, publisherVars, cacheVars, requestVars>>

Init == /\ now = 0
        /\ published = {}
        /\ future = Kids
        /\ retiredAt = [k \in Kids |-> MaxTime]
        /\ keys = {}
        /\ keysAt = -MinRefresh
        /\ freshAt = -HardMaxAge
        /\ step = [q \in Requests |-> "idle"]
        /\ kid = [q \in Requests |-> NoKid]
        /\ cached = {}
        /\ fetchMu = NoRequest
        /\ answer = {}
        /\ accepted = [k \in Kids |-> -1]

Goto(q, s) == step' = [step EXCEPT ![q] = s]

-----------------------------------------------------------------------------
(* The clock and the publisher *)

\* A fetch never outlives its timeout.
Tick == /\ now < MaxTime
        /\ fetchMu # NoRequest => now < keysAt + FetchTime
        /\ now' = now + 1
        /\ UNCHANGED <<publisherVars, cacheVars, requestVars>>

Publish(k) == /\ k \in future
              /\ published' = published \cup {k}
              /\ future' = future \ {k}
              /\ UNCHANGED <<now, retiredAt, cacheVars, requestVars>>

Retire(k) == /\ k \in published
             /\ published' = published \ {k}
             /\ retiredAt' = [retiredAt EXCEPT ![k] = now]
             /\ UNCHANGED <<now, future, cacheVars, requestVars>>

-----------------------------------------------------------------------------
(* publicKey *)

Fresh == now - freshAt < MaxAge
WithinHardCeiling == now - freshAt < HardMaxAge
RateLimited == now - keysAt < MinRefresh

\* Fault: the rate-limited path serves a key of any age.
ServesAnyAge(k) == k \in keys /\ (Fresh \/ RateLimited)

\* lookupCached answers with the key.
Serves(k) == k \in keys /\ (Fresh \/ (RateLimited /\ WithinHardCeiling))

\* It answers with an error: no key to serve, and no fetch to be made.
Refuses(k) == ~Serves(k) /\ RateLimited

\* The request goes on to the activity.
Accept(q) == accepted' = [accepted EXCEPT ![kid[q]] =
                             IF kid[q] \in published \cup future THEN @ ELSE now]

Finish(q) == /\ Goto(q, "idle")
             /\ kid' = [kid EXCEPT ![q] = NoKid]

Request(q, k) == /\ step[q] = "idle"
                 /\ kid' = [kid EXCEPT ![q] = k]
                 /\ Goto(q, "lookup")
                 /\ UNCHANGED <<now, publisherVars, cacheVars, cached, fetchMu, answer, accepted>>

\* The first lookup answers, or the request queues up for fetchMu.
Lookup(q) == /\ step[q] = "lookup"
             /\ \/ Serves(kid[q]) /\ Finish(q) /\ Accept(q)
                \/ Refuses(kid[q]) /\ Finish(q) /\ UNCHANGED accepted
                \/ /\ ~Serves(kid[q]) /\ ~Refuses(kid[q])
                   /\ Goto(q, "lock")
                   /\ UNCHANGED <<kid, accepted>>
             /\ UNCHANGED <<now, publisherVars, cacheVars, cached, fetchMu, answer>>

\* Fault: the winner of fetchMu fetches without another look at the cache.
BeginFetchUnchecked(q) == /\ step[q] = "lock"
                          /\ fetchMu = NoRequest
                          /\ Goto(q, "fetch")
                          /\ fetchMu' = q
                          /\ cached' = IF kid[q] \in keys THEN cached \cup {q} ELSE cached \ {q}
                          /\ keysAt' = now
                          /\ UNCHANGED <<now, publisherVars, keys, freshAt, kid, answer, accepted>>

\* The winner of fetchMu still has to fetch, and the attempt is on the clock before
\* its outcome is known.
BeginFetch(q) == /\ step[q] = "lock"
                 /\ fetchMu = NoRequest
                 /\ ~Serves(kid[q]) /\ ~Refuses(kid[q])
                 /\ Goto(q, "fetch")
                 /\ fetchMu' = q
                 /\ cached' = IF kid[q] \in keys THEN cached \cup {q} ELSE cached \ {q}
                 /\ keysAt' = now
                 /\ UNCHANGED <<now, publisherVars, keys, freshAt, kid, answer, accepted>>

\* Another request's refresh resolved it meanwhile, or used up the interval.
Resolved(q) == /\ step[q] = "lock"
               /\ fetchMu = NoRequest
               /\ \/ Serves(kid[q]) /\ Accept(q)
                  \/ Refuses(kid[q]) /\ UNCHANGED accepted
               /\ Finish(q)
               /\ UNCHANGED <<now, publisherVars, cacheVars, cached, fetchMu, answer>>

\* fetchJWKS: the publisher answers with usable keys.
Answer(q) == /\ step[q] = "fetch"
             /\ published # {}
             /\ answer' = published
             /\ Goto(q, "answered")
             /\ UNCHANGED <<now, publisherVars, cacheVars, kid, cached, fetchMu, accepted>>

\* The set is replaced, and judges the key.
FetchEnds(q) == /\ step[q] = "answered"
                /\ keys' = answer
                /\ freshAt' = now
                /\ IF kid[q] \in answer THEN Accept(q) ELSE UNCHANGED accepted
                /\ Finish(q)
                /\ fetchMu' = NoRequest
                /\ answer' = {}
                /\ cached' = cached \ {q}
                /\ UNCHANGED <<now, publisherVars, keysAt>>

\* The fetch fails: the key found before it serves on, up to the hard ceiling.
FetchFails(q) == /\ step[q] \in {"fetch", "answered"}
                 /\ IF q \in cached /\ WithinHardCeiling THEN Accept(q) ELSE UNCHANGED accepted
                 /\ Finish(q)
                 /\ fetchMu' = NoRequest
                 /\ answer' = {}
                 /\ cached' = cached \ {q}
                 /\ UNCHANGED <<now, publisherVars, cacheVars>>

-----------------------------------------------------------------------------
Next == \/ Tick
        \/ \E k \in Kids : Publish(k) \/ Retire(k)
        \/ \E q \in Requests : \/ \E k \in Kids : Request(q, k)
                               \/ Lookup(q) \/ Resolved(q) \/ BeginFetch(q)
                               \/ Answer(q) \/ FetchEnds(q) \/ FetchFails(q)

Spec == Init /\ [][Next]_vars

-----------------------------------------------------------------------------
(* Properties *)

(* Types of every variable. *)
TypeOK == /\ now \in 0 .. MaxTime
          /\ future \subseteq Kids
          /\ published \subseteq Kids
          /\ retiredAt \in [Kids -> 0 .. MaxTime]
          /\ keys \subseteq Kids
          /\ keysAt \in -MinRefresh .. MaxTime
          /\ freshAt \in -HardMaxAge .. MaxTime
          /\ step \in [Requests -> {"idle", "lookup", "lock", "fetch", "answered"}]
          /\ kid \in [Requests -> Kids \cup {NoKid}]
          /\ cached \subseteq Requests
          /\ fetchMu \in Requests \cup {NoRequest}
          /\ answer \subseteq Kids
          /\ accepted \in [Kids -> -1 .. MaxTime]

(* auth.go:31: "past this age a stale cached key is rejected outright, so a       *)
(* persistent outage cannot keep a retired signing key trusted forever".  Whatever *)
(* fetches fail and however requests interleave, the last acceptance of a retired  *)
(* key is less than HardMaxAge, and the fetch that may have raced its retirement,  *)
(* after it.                                                                       *)
KeysExpire == \A k \in Kids \ (published \cup future) :
                 accepted[k] < retiredAt[k] + FetchTime + HardMaxAge

(* auth.go:132: "Refreshes run at most once per jwksMinRefreshInterval", also when *)
(* a burst of requests queued up for fetchMu and the first refresh failed.         *)
FetchesAreSpaced ==
    [][fetchMu' # fetchMu /\ fetchMu' # NoRequest => now >= keysAt + MinRefresh]_vars
=============================================================================
