----------------------------- MODULE TeamsSend -----------------------------
(***************************************************************************)
(* Replies of the teams adapter (internal/teams/send.go, and               *)
(* recordConversation of server.go): handlers that answer an activity      *)
(* through the table of conversations, which forgets the oldest, with the  *)
(* cached client-credentials token, which one of them mints at a time.     *)
(*                                                                         *)
(* The Connector may refuse any post with 401 or 403, also one with a      *)
(* token that it took before, and any request may fail.  The cached token  *)
(* comes within tokenRefreshSkew of its expiry at any time.  Activities    *)
(* whose service URL is empty are refused before they reach the table      *)
(* (isAllowedServiceHost); those whose conversation has no id are not.     *)
(***************************************************************************)
EXTENDS Integers, FiniteSets, SequencesExt

CONSTANTS Sends,     \* activities whose handler replies once
          NoSend,    \* nobody holds tokenMu
          Convs,     \* conversations
          NoId,      \* the conversation of an activity that names none
          NoConv,    \* no activity yet
          MaxConvs,  \* maxConversations
          MaxTokens, \* bound on the tokens minted
          MaxExpiry  \* bound on the tokens that expire

\* What the module takes for granted of its parameters; MCClients assumes it.
SendAssumption == /\ NoSend \notin Sends
                  /\ NoId \notin Convs
                  /\ NoConv \notin Convs \cup {NoId}
                  /\ {MaxConvs, MaxTokens} \subseteq Nat \ {0}
                  /\ MaxExpiry \in Nat

VARIABLES convOrder, \* the table of conversations, oldest first
          target,    \* the conversation each send replies to
          newer,     \* history: conversations the table took since that activity
          step,      \* each send: "idle", "handler", "token", "lock", "mint", "minted",
                     \* "post", "refused", and "sent", "unknown" or "failed" at its end
          attempt,   \* which of its two posts a send is at
          tok,       \* the token a send holds
          cache,     \* the cached token, 0 when there is none to use
          tokenMu,   \* the send that mints
          minted,    \* tokens minted so far, which are 1 .. minted
          refused,   \* history: the token the Connector refused each send first
          dropped    \* history: tokens that expired or were invalidated

tableVars == <<convOrder, target, newer>>
sendVars == <<step, attempt, tok>>
tokenVars == <<cache, tokenMu, minted, refused, dropped>>
vars == <<tableVars, sendVars, tokenVars>>

Init == /\ convOrder = <<>>
        /\ target = [s \in Sends |-> NoConv]
        /\ newer = [s \in Sends |-> {}]
        /\ step = [s \in Sends |-> "idle"]
        /\ attempt = [s \in Sends |-> 1]
        /\ tok = [s \in Sends |-> 0]
        /\ cache = 0
        /\ tokenMu = NoSend
        /\ minted = 0
        /\ refused = [s \in Sends |-> 0]
        /\ dropped = 0

Goto(s, l) == step' = [step EXCEPT ![s] = l]

-----------------------------------------------------------------------------
(* The table of conversations *)

\* Fault: a full table takes one more.
RecordedUnbounded(c) == IF c \in ToSet(convOrder) \cup {NoId} THEN convOrder ELSE Append(convOrder, c)

\* recordConversation: the table with conversation c, which it may have already and
\* ignores when it has no id.
Recorded(c) == IF c \in ToSet(convOrder) \cup {NoId} THEN convOrder
               ELSE IF Len(convOrder) < MaxConvs THEN Append(convOrder, c)
               ELSE Append(Tail(convOrder), c)

\* An activity of conversation c arrives, and its handler starts.
Activity(s, c) == /\ step[s] = "idle"
                  /\ convOrder' = Recorded(c)
                  /\ target' = [target EXCEPT ![s] = c]
                  /\ newer' = [t \in Sends |->
                                 IF target[t] = NoConv THEN {}
                                 ELSE newer[t] \cup (ToSet(convOrder') \ ToSet(convOrder))]
                  /\ Goto(s, "handler")
                  /\ UNCHANGED <<attempt, tok, tokenVars>>

\* Send looks its conversation up.
Lookup(s) == /\ step[s] = "handler"
             /\ Goto(s, IF target[s] \in ToSet(convOrder) THEN "token" ELSE "unknown")
             /\ UNCHANGED <<tableVars, attempt, tok, tokenVars>>

-----------------------------------------------------------------------------
(* accessToken *)

Take(s) == /\ tok' = [tok EXCEPT ![s] = cache]
           /\ Goto(s, "post")

CachedToken(s) == /\ step[s] = "token"
                  /\ IF cache # 0 THEN Take(s) ELSE Goto(s, "lock") /\ UNCHANGED tok
                  /\ UNCHANGED <<tableVars, attempt, tokenVars>>

\* Fault: the winner of tokenMu mints without another look at the cache.
LockUnchecked(s) == /\ step[s] = "lock"
                    /\ tokenMu = NoSend
                    /\ Goto(s, "mint")
                    /\ tokenMu' = s
                    /\ UNCHANGED <<tableVars, attempt, tok, cache, minted, refused, dropped>>

\* The winner of tokenMu looks at the cache again, and holds on only to mint.
Lock(s) == /\ step[s] = "lock"
           /\ tokenMu = NoSend
           /\ \/ cache # 0 /\ Take(s) /\ UNCHANGED tokenMu
              \/ cache = 0 /\ Goto(s, "mint") /\ tokenMu' = s /\ UNCHANGED tok
           /\ UNCHANGED <<tableVars, attempt, cache, minted, refused, dropped>>

\* The token endpoint answers with a new token.
Mint(s) == /\ step[s] = "mint"
           /\ minted < MaxTokens
           /\ minted' = minted + 1
           /\ tok' = [tok EXCEPT ![s] = minted']
           /\ Goto(s, "minted")
           /\ UNCHANGED <<tableVars, attempt, cache, tokenMu, refused, dropped>>

\* It is cached and used.
Store(s) == /\ step[s] = "minted"
            /\ cache' = tok[s]
            /\ tokenMu' = NoSend
            /\ Goto(s, "post")
            /\ UNCHANGED <<tableVars, attempt, tok, minted, refused, dropped>>

\* The mint fails, and the send with it.
MintFails(s) == /\ step[s] \in {"mint", "minted"}
                /\ tok' = [tok EXCEPT ![s] = 0]
                /\ tokenMu' = NoSend
                /\ dropped' = IF step[s] = "minted" THEN dropped + 1 ELSE dropped
                /\ Goto(s, "failed")
                /\ UNCHANGED <<tableVars, attempt, cache, minted, refused>>

-----------------------------------------------------------------------------
(* Send: the post and its retry *)

\* The Connector takes the reply.
Posted(s) == /\ step[s] = "post"
             /\ Goto(s, "sent")
             /\ UNCHANGED <<tableVars, attempt, tok, tokenVars>>

\* The post fails other than with 401 or 403, which is not retried.
PostFails(s) == /\ step[s] = "post"
                /\ Goto(s, "failed")
                /\ UNCHANGED <<tableVars, attempt, tok, tokenVars>>

\* The Connector refuses the token: the second time that is final.
Refused(s) == /\ step[s] = "post"
              /\ Goto(s, IF attempt[s] = 1 THEN "refused" ELSE "failed")
              /\ refused' = IF attempt[s] = 1 THEN [refused EXCEPT ![s] = tok[s]] ELSE refused
              /\ UNCHANGED <<tableVars, attempt, tok, cache, tokenMu, minted, dropped>>

\* Fault: the cache is kept when its token is refused.
InvalidateNothing(s) == /\ step[s] = "refused"
                        /\ attempt' = [attempt EXCEPT ![s] = 2]
                        /\ Goto(s, "token")
                        /\ UNCHANGED <<tableVars, tok, tokenVars>>

\* invalidateToken: whatever is cached by now goes, and the post is tried again.
Invalidate(s) == /\ step[s] = "refused"
                 /\ cache' = 0
                 /\ dropped' = IF cache = 0 THEN dropped ELSE dropped + 1
                 /\ attempt' = [attempt EXCEPT ![s] = 2]
                 /\ Goto(s, "token")
                 /\ UNCHANGED <<tableVars, tok, tokenMu, minted, refused>>

-----------------------------------------------------------------------------
(* The environment *)

\* The cached token comes near its expiry, and is not used any more.
Expire == /\ cache # 0
          /\ dropped < MaxExpiry
          /\ cache' = 0
          /\ dropped' = dropped + 1
          /\ UNCHANGED <<tableVars, sendVars, tokenMu, minted, refused>>

Next == \/ Expire
        \/ \E s \in Sends : \/ \E c \in Convs \cup {NoId} : Activity(s, c)
                            \/ Lookup(s) \/ CachedToken(s) \/ Lock(s)
                            \/ Mint(s) \/ Store(s) \/ MintFails(s)
                            \/ Posted(s) \/ PostFails(s) \/ Refused(s) \/ Invalidate(s)

Spec == Init /\ [][Next]_vars

-----------------------------------------------------------------------------
(* Properties *)

(* Types of every variable. *)
TypeOK == /\ convOrder \in Seq(Convs) /\ IsInjective(convOrder) /\ Len(convOrder) <= MaxConvs
          /\ target \in [Sends -> Convs \cup {NoConv, NoId}]
          /\ newer \in [Sends -> SUBSET Convs]
          /\ step \in [Sends -> {"idle", "handler", "token", "lock", "mint", "minted", "post",
                                 "refused", "sent", "unknown", "failed"}]
          /\ attempt \in [Sends -> 1 .. 2]
          /\ tok \in [Sends -> 0 .. MaxTokens]
          /\ cache \in 0 .. MaxTokens
          /\ tokenMu \in Sends \cup {NoSend}
          /\ minted \in 0 .. MaxTokens
          /\ refused \in [Sends -> 0 .. MaxTokens]
          /\ dropped \in Nat

(* send.go:70: "on 401/403, drop the cache and retry once".  The retry never      *)
(* posts the token that was refused, whichever mints and invalidations of other   *)
(* sends come between.                                                            *)
RetryUsesFreshToken ==
    \A s \in Sends : attempt[s] = 2 /\ step[s] = "post" => tok[s] # refused[s]

(* send.go:140: "a burst of concurrent Sends makes a single token request".       *)
(* Beyond the first, each token minted replaces one that was dropped.  A request   *)
(* that fails mints none: each send that waited then makes its own.               *)
MintsCoalesce == minted <= 1 + dropped

(* server.go:272: "A much-later proactive send may find an evicted conversation".  *)
(* A reply to an activity that names its conversation then finds it unless at      *)
(* least MaxConvs others came since that activity.                                 *)
ReplyFindsConversation ==
    \A s \in Sends : step[s] = "unknown" /\ target[s] # NoId => Cardinality(newer[s]) >= MaxConvs
=============================================================================
