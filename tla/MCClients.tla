----------------------------- MODULE MCClients -----------------------------
(***************************************************************************)
(* What the adapters do beside their sessions: the filters and replies of  *)
(* the forges and the chats, github's reaction poller, and the keys and    *)
(* replies of teams.  They share nothing, and one of them runs.            *)
(***************************************************************************)
EXTENDS Integers, FiniteSets

CONSTANTS ForgePosts, Posts, NoPost, BlankAt,
          Conns, NoConn, Explicit, Wildcard, RefreshCycles, Reactions, BotReactions, NoComment,
          Requests, NoRequest, Kids, NoKid, MaxAge, HardMaxAge, MinRefresh, FetchTime, MaxTime,
          Sends, NoSend, Convs, NoId, NoConv, MaxConvs, MaxTokens, MaxExpiry

VARIABLES part, \* the one that runs
          fForge, fAuth, fState, fSelf, fPost, fTried, fHandled, fAnswer,
          hChat, hPost, hTried, hHandled, hAnswer,
          rConn, rCtxDone, rOn, rSpent, rBefore, rSeen, rLoop, rCycle, rDiscovered, rTodo, rAt,
          rSampled, rBatch, rCounts, rNext, rRuns, rRemoved,
          kNow, kFuture, kPublished, kRetiredAt, kKeys, kKeysAt, kFreshAt, kStep, kKid, kCached,
          kFetchMu, kAnswer, kAccepted,
          sConvOrder, sTarget, sNewer, sStep, sAttempt, sTok, sCache, sTokenMu, sMinted,
          sRefused, sDropped

fVars == <<fForge, fAuth, fState, fSelf, fPost, fTried, fHandled, fAnswer>>
hVars == <<hChat, hPost, hTried, hHandled, hAnswer>>
rVars == <<rConn, rCtxDone, rOn, rSpent, rBefore, rSeen, rLoop, rCycle, rDiscovered, rTodo, rAt,
           rSampled, rBatch, rCounts, rNext, rRuns, rRemoved>>
kVars == <<kNow, kFuture, kPublished, kRetiredAt, kKeys, kKeysAt, kFreshAt, kStep, kKid, kCached,
           kFetchMu, kAnswer, kAccepted>>
sVars == <<sConvOrder, sTarget, sNewer, sStep, sAttempt, sTok, sCache, sTokenMu, sMinted,
           sRefused, sDropped>>
vars == <<part, fVars, hVars, rVars, kVars, sVars>>

Forge == INSTANCE ForgeIngress WITH
    Posts <- ForgePosts, forge <- fForge, auth <- fAuth, state <- fState, self <- fSelf, post <- fPost,
    tried <- fTried, handled <- fHandled, answer <- fAnswer

Chat == INSTANCE ChatIngress WITH
    chat <- hChat, post <- hPost, tried <- hTried, handled <- hHandled, answer <- hAnswer

Poller == INSTANCE ReactionPoller WITH
    conn <- rConn, ctxDone <- rCtxDone, on <- rOn, spent <- rSpent, before <- rBefore,
    seen <- rSeen, loop <- rLoop, cycle <- rCycle, discovered <- rDiscovered, todo <- rTodo,
    at <- rAt, sampled <- rSampled, batch <- rBatch, counts <- rCounts, next <- rNext,
    runs <- rRuns, removed <- rRemoved

Keys == INSTANCE TeamsKeys WITH
    now <- kNow, future <- kFuture, published <- kPublished, retiredAt <- kRetiredAt,
    keys <- kKeys, keysAt <- kKeysAt, freshAt <- kFreshAt, step <- kStep, kid <- kKid,
    cached <- kCached, fetchMu <- kFetchMu, answer <- kAnswer, accepted <- kAccepted

Send == INSTANCE TeamsSend WITH
    convOrder <- sConvOrder, target <- sTarget, newer <- sNewer, step <- sStep,
    attempt <- sAttempt, tok <- sTok, cache <- sCache, tokenMu <- sTokenMu, minted <- sMinted,
    refused <- sRefused, dropped <- sDropped

ASSUME ClientAssumption == /\ Forge!ForgeAssumption
                           /\ Chat!ChatAssumption
                           /\ Poller!PollerAssumption
                           /\ Keys!KeysAssumption
                           /\ Send!SendAssumption

Init == /\ part \in {"forge", "chat", "poller", "keys", "send"}
        /\ Forge!Init /\ (part = "forge" \/ (fForge = "gitlab" /\ fAuth = "user"))
        /\ Chat!Init /\ (part = "chat" \/ hChat = "slack")
        /\ Poller!Init
        /\ Keys!Init
        /\ Send!Init

Others(p) == /\ UNCHANGED part
             /\ p = "forge" \/ UNCHANGED fVars
             /\ p = "chat" \/ UNCHANGED hVars
             /\ p = "poller" \/ UNCHANGED rVars
             /\ p = "keys" \/ UNCHANGED kVars
             /\ p = "send" \/ UNCHANGED sVars

Next == \/ part = "forge" /\ Forge!Next /\ Others("forge")
        \/ part = "chat" /\ Chat!Next /\ Others("chat")
        \/ part = "poller" /\ Poller!Next /\ Others("poller")
        \/ part = "keys" /\ Keys!Next /\ Others("keys")
        \/ part = "send" /\ Send!Next /\ Others("send")

Spec == Init /\ [][Next]_vars

-----------------------------------------------------------------------------
(* The properties of the five, each by the name of what it is about. *)

(* Types of every variable. *)
ClientTypes == Forge!TypeOK /\ Chat!TypeOK /\ Poller!TypeOK /\ Keys!TypeOK /\ Send!TypeOK

(* A bot never handles its own replies, on a forge where it has to learn its own  *)
(* account first (gitlab/server.go:353), or in a chat (signal.go:399).            *)
OwnPostsDropped == Forge!OwnPostsDropped /\ Chat!OwnPostsDropped

(* A reply lands on the issue, merge request, thread, group or chat of what it    *)
(* replies to, and quotes it where the platform can (gitlab/message.go:30).       *)
RepliesLandAtOrigin == Forge!RepliesLandAtOrigin /\ Chat!RepliesLandAtOrigin

(* gitlab/server.go:114: the bot does not publish an internal thread.             *)
InternalNotesStayInternal == Forge!InternalNotesStayInternal

(* reactions.go:49: "a poll cycle dispatches each reaction at most once".         *)
DispatchedOnce == Poller!DispatchedOnce

(* reactions.go:414: a reaction is missed only when another was removed.          *)
MissedOnlyByRemoval == Poller!MissedOnlyByRemoval

(* auth.go:31: a retired signing key is not trusted past its hard age.            *)
KeysExpire == Keys!KeysExpire

(* auth.go:132 and send.go:140: key fetches keep their interval, and concurrent   *)
(* sends share one token request.                                                 *)
RequestsCoalesce == Keys!FetchesAreSpaced /\ []Send!MintsCoalesce

(* send.go:70: the retry of a refused post uses a token that was not refused it.  *)
RetryUsesFreshToken == Send!RetryUsesFreshToken
=============================================================================
