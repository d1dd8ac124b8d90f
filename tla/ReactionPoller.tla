--------------------------- MODULE ReactionPoller ---------------------------
(***************************************************************************)
(* The github adapter's reaction poller (internal/github/reactions.go).    *)
(* One loop per connection lists the comments of every polled repository,  *)
(* lists the reactions of those whose count changed since its last cycle,  *)
(* and dispatches the reactions that are dated after the connection's      *)
(* cutoff, not a bot's and not seen before.  A request may fail at any     *)
(* time and is made again in the next cycle.                               *)
(*                                                                         *)
(* Disconnect cancels the loop's context and drains the handlers, but does *)
(* not wait for the loop: a loop that already holds a list of reactions    *)
(* works through it beside the next connection's, and both may take the    *)
(* same reaction for theirs, for the clocks of GitHub and of the host      *)
(* differ.  The seen reactions are the adapter's, and outlive connections; *)
(* the cached counts do not.                                               *)
(*                                                                         *)
(* Comments are those of the window (the newest of each repository).  The  *)
(* number of a cycle only matters modulo RefreshCycles.                    *)
(***************************************************************************)
EXTENDS Integers, FiniteSets

CONSTANTS Conns,         \* connections
          NoConn,        \* the bot is not connected
          Explicit,      \* repositories of ReactionPollRepos
          Wildcard,      \* repositories its "owner/*" entries may match
          RefreshCycles, \* discoveryRefreshCycles
          Reactions,     \* reactions users and bots add
          BotReactions,  \* those of the bot itself or another bot
          NoComment      \* no comment at hand

(* One comment in each repository stands for the window.                     *)
Comments == Explicit \cup Wildcard

\* What the module takes for granted of its parameters; MCClients assumes it.
PollerAssumption == /\ NoConn \notin Conns
                    /\ NoComment \notin Comments
                    /\ RefreshCycles \in Nat \ {0}
                    /\ BotReactions \subseteq Reactions

VARIABLES conn,       \* the connection core has installed
          ctxDone,    \* connections whose run context is done
          on,         \* the comment a reaction is on, NoComment when absent
          spent,      \* reactions that were added once, for they are never added again
          before,     \* reactions that GitHub dates at or before each connection's cutoff
          seen,       \* the reactionStore
          loop,       \* each loop: "off", "cycle", "repos", "list", "batch", "sleep", "over"
          cycle,      \* the number of each loop's cycle, modulo RefreshCycles
          discovered, \* each loop's discovered repositories
          todo,       \* repositories left in this cycle
          at,         \* the comment whose listing is at hand
          sampled,    \* its count, as the comment list gave it
          batch,      \* reactions listed and not yet looked at
          counts,     \* counts of the last cycle, -1 when not cached
          next,       \* counts of this cycle
          runs,       \* history: handlers started for each reaction
          removed     \* history: comments that lost a reaction since each loop last found their
                      \* count changed

connVars == <<conn, ctxDone, before>>
userVars == <<on, spent, removed>>
storeVars == <<seen, runs>>
cycleVars == <<cycle, discovered, counts>>
scanVars == <<todo, next, at, sampled, batch>>
vars == <<connVars, userVars, storeVars, loop, cycleVars, scanVars>>

None == [m \in Comments |-> -1]
On(m) == {r \in Reactions : on[r] = m}

Init == /\ conn = NoConn
        /\ ctxDone = {}
        /\ on = [r \in Reactions |-> NoComment]
        /\ spent = {}
        /\ before = [c \in Conns |-> {}]
        /\ seen = {}
        /\ loop = [c \in Conns |-> "off"]
        /\ cycle = [c \in Conns |-> 0]
        /\ discovered = [c \in Conns |-> {}]
        /\ todo = [c \in Conns |-> {}]
        /\ at = [c \in Conns |-> NoComment]
        /\ sampled = [c \in Conns |-> 0]
        /\ batch = [c \in Conns |-> {}]
        /\ counts = [c \in Conns |-> None]
        /\ next = [c \in Conns |-> None]
        /\ runs = [r \in Reactions |-> 0]
        /\ removed = [c \in Conns |-> {}]

Goto(c, l) == loop' = [loop EXCEPT ![c] = l]

-----------------------------------------------------------------------------
(* Users and connections *)

Add(r, m) == /\ r \notin spent
             /\ on' = [on EXCEPT ![r] = m]
             /\ spent' = spent \cup {r}
             /\ UNCHANGED <<connVars, removed, loop, cycleVars, scanVars, storeVars>>

Remove(r) == /\ on[r] # NoComment
             /\ on' = [on EXCEPT ![r] = NoComment]
             /\ removed' = [c \in Conns |-> removed[c] \cup {on[r]}]
             /\ UNCHANGED <<connVars, spent, loop, cycleVars, scanVars, storeVars>>

\* Fault: each connection has a store of its own.
ConnectForgets(c) == /\ conn = NoConn
                     /\ loop[c] = "off"
                     /\ conn' = c
                     /\ \E rs \in SUBSET (Reactions \ BotReactions) :
                           before' = [before EXCEPT ![c] = rs]
                     /\ seen' = {}
                     /\ Goto(c, "cycle")
                     /\ UNCHANGED <<ctxDone, userVars, cycleVars, scanVars, runs>>

\* The cutoff is taken; the loop starts once the bot knows itself, which leaves
\* reactions time to be added before the first cycle.  The cutoff is the host's time
\* and a reaction's is GitHub's, in whole seconds: nobody synchronises the two clocks,
\* so that any reaction, added or yet to come, may be dated on either side.  (Which
\* side a bot's is on makes no difference.)
Connect(c) == /\ conn = NoConn
              /\ loop[c] = "off"
              /\ conn' = c
              /\ \E rs \in SUBSET (Reactions \ BotReactions) : before' = [before EXCEPT ![c] = rs]
              /\ Goto(c, "cycle")
              /\ UNCHANGED <<ctxDone, userVars, cycleVars, scanVars, storeVars>>

\* core's teardown cancels the run context.
Cancel == /\ conn # NoConn
          /\ ctxDone' = ctxDone \cup {conn}
          /\ UNCHANGED <<conn, before, userVars, loop, cycleVars, scanVars, storeVars>>

\* The drain ends, for the handlers returned or its deadline passed.
DisconnectEnd == /\ conn \in ctxDone
                 /\ conn' = NoConn
                 /\ UNCHANGED <<ctxDone, before, userVars, loop, cycleVars, scanVars, storeVars>>

-----------------------------------------------------------------------------
(* pollReactions: a cycle *)

\* mergeRepos: explicit and discovered repositories, each once.
Polled(repos) == Explicit \cup repos

\* A cycle begins.  Every RefreshCycles cycles the wildcards are listed again, to any
\* repositories that are not archived; when that fails the last list stays.
BeginCycle(c) == /\ loop[c] = "cycle"
                 /\ \/ /\ c \notin ctxDone /\ cycle[c] = 0
                       /\ \E rs \in SUBSET Wildcard : discovered' = [discovered EXCEPT ![c] = rs]
                    \/ UNCHANGED discovered
                 /\ todo' = [todo EXCEPT ![c] = Polled(discovered'[c])]
                 /\ Goto(c, "repos")
                 /\ UNCHANGED <<connVars, userVars, cycle, counts, next, at, sampled, batch, storeVars>>

\* The comments of a repository are listed, each with the number of its reactions.
\* One whose count is zero or that of the last cycle is cached again without a look
\* at its reactions.
ListComments(c, m) ==
    LET count == Cardinality(On(m))
        unchanged == count \in {0, counts[c][m]}
    IN  /\ loop[c] = "repos"
        /\ c \notin ctxDone
        /\ m \in todo[c]
        /\ todo' = [todo EXCEPT ![c] = @ \ {m}]
        /\ \/ /\ unchanged
              /\ next' = [next EXCEPT ![c][m] = count]
              /\ UNCHANGED <<loop, at, sampled, removed>>
           \/ /\ ~unchanged
              /\ Goto(c, "list")
              /\ at' = [at EXCEPT ![c] = m]
              /\ sampled' = [sampled EXCEPT ![c] = count]
              /\ removed' = [removed EXCEPT ![c] = @ \ {m}]
              /\ UNCHANGED next
        /\ UNCHANGED <<connVars, on, spent, cycleVars, batch, storeVars>>

\* Leaving a comment.
Leave(c) == /\ at' = [at EXCEPT ![c] = NoComment]
            /\ sampled' = [sampled EXCEPT ![c] = 0]

\* A canceled loop ends, and its cache with it.
Exit(c) == /\ Goto(c, "over")
           /\ Leave(c)
           /\ todo' = [todo EXCEPT ![c] = {}]
           /\ next' = [next EXCEPT ![c] = None]
           /\ counts' = [counts EXCEPT ![c] = None]
           /\ discovered' = [discovered EXCEPT ![c] = {}]
           /\ cycle' = [cycle EXCEPT ![c] = 0]

\* A request of a canceled loop fails, or its select notices the context.
Canceled(c) == /\ c \in ctxDone
               /\ \/ loop[c] = "repos" /\ todo[c] # {}
                  \/ loop[c] \in {"list", "sleep"}
                  \/ loop[c] = "cycle" /\ Wildcard # {} /\ cycle[c] = 0
               /\ Exit(c)
               /\ UNCHANGED <<connVars, userVars, batch, storeVars>>

\* The comments of a repository cannot be listed: it waits for the next cycle.
CommentsFail(c, m) == /\ loop[c] = "repos"
                      /\ c \notin ctxDone
                      /\ m \in todo[c]
                      /\ todo' = [todo EXCEPT ![c] = @ \ {m}]
                      /\ UNCHANGED <<connVars, userVars, loop, cycleVars, next, at, sampled, batch,
                                     storeVars>>

\* Fault: a comment whose reactions could not be listed is cached all the same.
ListFailsCached(c) == /\ loop[c] = "list"
                      /\ c \notin ctxDone
                      /\ next' = [next EXCEPT ![c][at[c]] = sampled[c]]
                      /\ Leave(c)
                      /\ Goto(c, "repos")
                      /\ UNCHANGED <<connVars, userVars, cycleVars, todo, batch, storeVars>>

\* The reactions of a comment cannot be listed: its count is not cached, so that
\* the next cycle tries again.
ListFails(c) == /\ loop[c] = "list"
                /\ c \notin ctxDone
                /\ Leave(c)
                /\ Goto(c, "repos")
                /\ UNCHANGED <<connVars, userVars, cycleVars, todo, next, batch, storeVars>>

ListReactions(c) == /\ loop[c] = "list"
                    /\ c \notin ctxDone
                    /\ batch' = [batch EXCEPT ![c] = On(at[c])]
                    /\ Goto(c, "batch")
                    /\ UNCHANGED <<connVars, userVars, cycleVars, todo, next, at, sampled, storeVars>>

\* A reaction at or before the cutoff is not even recorded, and a bot's is dropped.
Eligible(c, r) == r \notin before[c] /\ r \notin BotReactions

\* dispatchCommentReactions: markSeen lets the first loop that comes by dispatch it.
DispatchReaction(c, r) ==
    /\ loop[c] = "batch"
    /\ r \in batch[c]
    /\ batch' = [batch EXCEPT ![c] = @ \ {r}]
    /\ IF Eligible(c, r) /\ r \notin seen
       THEN /\ seen' = seen \cup {r}
            /\ runs' = [runs EXCEPT ![r] = @ + 1]
       ELSE UNCHANGED storeVars
    /\ UNCHANGED <<connVars, userVars, loop, cycleVars, todo, next, at, sampled>>

\* The comment is done: its count moves to the next cycle's cache.
CommentDone(c) == /\ loop[c] = "batch"
                  /\ batch[c] = {}
                  /\ next' = [next EXCEPT ![c][at[c]] = sampled[c]]
                  /\ Leave(c)
                  /\ Goto(c, "repos")
                  /\ UNCHANGED <<connVars, userVars, cycleVars, todo, batch, storeVars>>

\* The cycle is over; the loop sleeps for the interval.
EndCycle(c) == /\ loop[c] = "repos"
               /\ todo[c] = {}
               /\ counts' = [counts EXCEPT ![c] = next[c]]
               /\ next' = [next EXCEPT ![c] = None]
               /\ cycle' = [cycle EXCEPT ![c] = (@ + 1) % RefreshCycles]
               /\ Goto(c, "sleep")
               /\ UNCHANGED <<connVars, userVars, discovered, todo, at, sampled, batch, storeVars>>

\* The timer fires, which a select may prefer to a context that is done.
Wake(c) == /\ loop[c] = "sleep"
           /\ Goto(c, "cycle")
           /\ UNCHANGED <<connVars, userVars, cycleVars, scanVars, storeVars>>

-----------------------------------------------------------------------------
LoopStep(c) == \/ BeginCycle(c) \/ EndCycle(c) \/ Wake(c) \/ Canceled(c)
               \/ ListReactions(c) \/ ListFails(c) \/ CommentDone(c)
               \/ \E r \in Reactions : DispatchReaction(c, r)
               \/ \E m \in Comments : ListComments(c, m) \/ CommentsFail(c, m)

Next == \/ Cancel \/ DisconnectEnd
        \/ \E r \in Reactions : Remove(r) \/ \E m \in Comments : Add(r, m)
        \/ \E c \in Conns : Connect(c) \/ LoopStep(c)

Spec == Init /\ [][Next]_vars

-----------------------------------------------------------------------------
(* Properties *)

(* Types of every variable. *)
TypeOK == /\ conn \in Conns \cup {NoConn}
          /\ ctxDone \subseteq Conns
          /\ on \in [Reactions -> Comments \cup {NoComment}]
          /\ spent \subseteq Reactions
          /\ before \in [Conns -> SUBSET Reactions]
          /\ seen \subseteq spent \ BotReactions
          /\ loop \in [Conns -> {"off", "cycle", "repos", "list", "batch", "sleep", "over"}]
          /\ cycle \in [Conns -> 0 .. RefreshCycles - 1]
          /\ discovered \in [Conns -> SUBSET Wildcard]
          /\ todo \in [Conns -> SUBSET Comments]
          /\ at \in [Conns -> Comments \cup {NoComment}]
          /\ sampled \in [Conns -> Nat]
          /\ batch \in [Conns -> SUBSET Reactions]
          /\ counts \in [Conns -> [Comments -> Nat \cup {-1}]]
          /\ next \in [Conns -> [Comments -> Nat \cup {-1}]]
          /\ runs \in [Reactions -> Nat]
          /\ removed \in [Conns -> SUBSET Comments]

(* "a poll cycle dispatches each reaction at most once" (reactions.go:49): a      *)
(* reaction is handled once, in all cycles of all connections, also while the     *)
(* loop of a connection that is over competes with its successor's.               *)
DispatchedOnce == \A r \in Reactions : runs[r] <= 1

(* reactions.go:414: a reaction is missed only through "a reaction removed and a  *)
(* different one added between two cycles".  A sleeping loop whose cached count   *)
(* equals a comment's current one has looked at every reaction on it that is its  *)
(* to handle, unless the comment lost one since it was listed.                    *)
MissedOnlyByRemoval ==
    \A c \in Conns : \A m \in Comments \ removed[c] :
        loop[c] = "sleep" /\ counts[c][m] = Cardinality(On(m))
            => \A r \in On(m) : Eligible(c, r) => r \in seen
=============================================================================
