# botbooter in TLA+

A TLA+ development of [lao/botbooter](../src/README.md), a Go toolkit that runs one chat
bot on many platforms. It models the parts of the code whose correctness depends on the
order in which goroutines, network peers and the clock act, and the filters and mappings
that decide what a bot answers and where. TLC checks the models on small instances, and
TLAPS proves every safety property of
them for instances of any size. Source paths below are
relative to `src/internal/`.

- [Inventory](#inventory) of the system and of what could go wrong in it
- [The modules](#the-modules) and how they correspond to the code
- [The runs](#the-runs), their bounds and the fairness they assume
- [Where code and documentation part](#where-code-and-documentation-part)
- [The proofs](#the-proofs)
- [Not modelled](#not-modelled)

## Inventory

A `Bot` (package `core`) owns the handlers, the middleware, the conversational flows and one
platform `Adapter`. An application calls `Run`, or `Connect` and `Disconnect`, from any
goroutine. The adapter turns the platform's traffic into messages and hands them to
`deps.Dispatch`; handlers answer through the adapter. Everything a platform delivers is
handled on goroutines of the adapter's own.

| Component | State | Operations | Interaction | Modules |
| --- | --- | --- | --- | --- |
| core: life cycle (`core/core.go`) | `b.mu`, `b.conn`; per connection `cancel`, `runDone`, `done`, `discOnce` | `Connect`, `Disconnect`, `Run`, `disconnectConn`, `teardown` | calls the adapter with and without `b.mu`; the adapter's ctx-watcher calls back into `deps.Disconnect`; the event loop reports on `deps.Done` | `Lifecycle`, `AdapterSession` |
| core: flows (`core/conversation.go`, `core/flow.go`) | map of conversation to flow state, one mutex | `start`, `advance`, `transitionLocked`, `sweep` | fed by the dispatch chain, on one goroutine per message; a sweeper per connection | `Conversation` |
| core: dispatch, replies | command table, middleware | `dispatch`, `Reply`, `ReplyToMessage` | no state after set-up | `Conversation`, `ChatIngress`, `ForgeIngress` |
| slack | `queue`, `drained`, `detachedCancel`; the socket client's channel | `Connect`, pump, dispatcher, `Disconnect` | the channel outlives connections | `SlackDispatch`, `ChatIngress` |
| github, gitlab, bitbucket, teams, whatsapp cloud: webhook server | `srv`, `sem`, `readSem`, `inflight`, `detachedCancel` | `Connect`, `handleWebhook`, `ackAndDispatch`, `Disconnect` | one HTTP handler goroutine per request, one dispatch goroutine per delivery | `WebhookServer` |
| github, gitlab, bitbucket: filters and replies | the bot's own account | the webhook filters, `resolveSelf`, `Send` | the bot's replies come back as webhooks | `ForgeIngress` |
| github: reaction poller | seen reactions, per-loop caches of counts and repositories | `pollReactions`, `pollRepoOnce`, `dispatchCommentReactions` | polls GitHub; a loop may outlive its connection | `ReactionPoller` |
| teams: keys, tokens, conversations | JWKS cache, token cache, bounded table | `publicKey`, `accessToken`, `recordConversation`, `Send` | HTTP to Microsoft; shared by all requests | `TeamsKeys`, `TeamsSend` |
| signal | websocket, flag `closed`, drain counter per connection | `Connect`, read loop, `Disconnect` | a lost socket ends the run: nothing redials | `SignalSocket`, `ChatIngress` |
| whatsmeow, discord | the library's session; event handlers, terminal-event `Once`, device store | `Connect`, event handlers, pairing, `Disconnect` | the library calls back | `CallbackSession`, `ChatIngress` |
| telegram | polling client | `Connect` with its probe, `onUpdate` | `Disconnect` does nothing: two loops may overlap | `TelegramPoll`, `ChatIngress` |
| cli | scanner and loop goroutines | `Connect` | standard input cannot be canceled and outlives connections | `CliLines` |

The behaviours that are hard to test:

- *Life cycle.* A cancelled context, a `Disconnect` call and the end of the event loop all
  tear down the same connection, perhaps at once, while another goroutine already connects
  again. The adapter is one shared object, so a teardown that is late must not close the
  session of the next connection; `b.mu` is released between the parts of a teardown.
- *Flows.* Two messages of one user are two goroutines. They race for the start, for each
  answer and for the end of a flow, and race the sweeper; the time a message judges expiry
  by is read before the lock is taken.
- *Shutdown.* Most adapters acknowledge a delivery to the platform before it is handled, so
  an acknowledged delivery that is then lost is lost for good. `Disconnect` waits for the
  handlers up to a deadline; what outlives the deadline runs on beside the next connection
  and shares channels, counters and semaphores with it.
- *Overlap.* telegram, the cli and the reaction poller do not wait for their loop at all. It
  may poll, or hold a line or a list of reactions, when its successor already runs.
- *Capacity and caches.* Queues, semaphores and tables are bounded, and a slot that leaks on
  one path shrinks the capacity until the process restarts. Keys, tokens, reaction counts and
  the bot's own identity are cached, and each cache can be stale when it is used.
- *Reply loops.* A bot's replies come back as events. One that it does not recognize as its
  own is answered again, for ever.

What makes each component correct: the adapter is driven strictly alternately and every
teardown hits its own connection (life cycle); a flow collects exactly the answers its
conversation gave, in order, and ends once (flows); order, backpressure and a shutdown that
abandons nothing it had time for (slack); exact counts, slots that stay with their connection
and the same shutdown (webhook server); a message is handled once, by the connection that
received it, and the end of a session is reported truthfully (the other sessions); no stale
key, no refused token and no reaction twice (caches); no own message handled, and every reply
where its message came from (filters). `PROJECT.json` lists each hazard at its line, with the
properties that cover it.

## The modules

A `Bot` has one adapter, so the adapters' modules are not composed with each other. They are
composed with the core through `AdapterSession`: each takes for granted that its `Connect` and
`Disconnect` alternate as that module says, and `Lifecycle` is shown to implement it.

### `Lifecycle` and `AdapterSession`

`Lifecycle` models `core.go`: any number of goroutines call `Run`, `Connect` and
`Disconnect`, and each connection has the ctx-watcher that adapters start in `Connect`
(`discord/discord.go` is the simplest). A step is one critical section of `b.mu`, one side of
a blocking adapter call, or one wake-up of a select. `mu` is a variable, and not implied by
the steps, only because `Connect` holds `b.mu` across `adapter.Connect`.

| Variable | Code |
| --- | --- |
| `mu`, `conn` | `b.mu`, `b.conn` |
| `target`, `current`, `attempt` | locals `c` and `current`; the connection one's own `Connect` made |
| `ctxDone`, `runDone` | the caller's context; `c.cancel` and `c.runDone`, which `teardown` fires together |
| `done` | the channel `c.done`, of capacity one |
| `disc` | `c.discOnce`: not entered, in `adapter.Disconnect`, over |
| `session` | the adapter's live session |

`disconnectConn` is `CheckCurrent` (first critical section), `Teardown`, then `DisconnectBegin`,
`DisconnectEnd` or `DisconnectShared` (the `sync.Once`), then `ClearConn` (second critical
section). `Run` is `ConnectBegin`, `ConnectEnd`, `RunAdopt` (it reads `b.conn` again),
`RunWake` (its select), then `disconnectConn`. Abstracted: which error a call returns, and the
set-up errors that make `Connect` fail at once.

`AdapterSession` is what an adapter may rely on: `Connect` and `Disconnect` strictly alternate,
are never concurrent, and a `Disconnect` ends the session of the connection it is called for.
`Lifecycle` implements it under the mapping that collects the goroutines inside the two adapter
calls.

### `Conversation`

The flow engine with the dispatch chain in front of it. A message is dispatched on its own
goroutine: `Dispatch` reads the clock (`advance`'s `now`), then one action per branch of
`transitionLocked` holds the manager's lock, then `Act` runs the prompt or callback with the lock
released. A message no flow consumed reaches the command table, where a trigger calls `start`
(`Start`, or `NotStarted` for the loser of a race). The sweeper deletes every expired state in one
critical section; it runs only while a connection is up, which `Reconnect` switches. (The code
reads the sweeper's clock just before it takes the lock, the model under it: with an older clock a
sweep leaves a state to the next, which the model has as a later sweep.) A flow instance is named
by the message that started it, and an answer by the message that gave it, so that properties can
tell whose answer it is. `heard` and `called` are histories. A message's content is abstracted to
what the engine distinguishes: a trigger, which inside a flow is an ordinary answer, other text,
the cancel word, an answer the validator rejects (an empty one acts the same), an answer the
validator panics on.

Left out: reaping a state whose flow is not registered or has become shorter. Flows are
registered before `Connect` and never shrink, so no state reaches that branch.

### `SlackDispatch`

Each connection's pump, dispatcher and socket goroutine, and `Disconnect`'s drain. The event
channel belongs to the socket client and is shared by all connections. `PumpTakes` is the
receive with the acknowledgement; `PumpEnqueues` and `PumpAbandons` are the two arms of the
inner select, between which Go chooses at random when both are ready, as it does between
`PumpStops` and `PumpTakes`. `DrainTimeout` may happen at any time the drain is not over: the
model has no clock, and every schedule of the code is one of the model's. Left out: the
closing of the event channel, which the client never does, and the event filters, which only
end a dispatch early and are part of `ChatIngress`. The client's `Ack`, which queues the response
for the socket goroutine, is taken not to block: `CanceledDrains` rests on that.

### `WebhookServer`

The HTTP server that five adapters share in structure. A request is admitted by the read
semaphore (`readSem`, made once per adapter) or shed; read and verified; takes a snapshot of the
dispatch semaphore under the lock (`Verify`), acquires a slot or is shed (`Ack`, `Shed`), is
counted in `inflight` (`Track`), handled, and gives slot and count back in two deferred calls
(`HandlerReturns`, `DispatchEnds`). `Connect` makes a fresh server and semaphore; the bot's own
identity is resolved before `Serve`, off the `Connect` path. `Disconnect` is `ShutdownBegin`,
`ShutdownEnd` (all handlers returned, or its deadline) and `DrainEnd` (`inflight` is zero, or
its deadline). The variable `teams`, which never changes, chooses the teams variant: it frees
the read slot once the body is parsed and runs the two deferred calls in the other order. The
adapters differ in the status with which they shed, which is not modelled, and in which
payloads they drop, which is the nondeterminism of `Reject` here and explicit in `ForgeIngress`
and `ChatIngress`.

### `SignalSocket`

The websocket and read loop of each connection and the dispatch goroutines it starts. `Read`,
`Skip` and `Dispatch` are the loop's body; the counter is the connection's own, and every
increment happens in the loop. `Disconnect` is four steps in the order of the code:
`MarkClosed` sets the flag that makes the coming read error an intended one, `CloseSocket`,
`LoopAwaited` (or its budget passed), `DrainEnd` (or its deadline, then with an error).
Closing does not discard what the socket had buffered, so the loop may still read a message
after it. A lost socket is reported by `Done`, which ends `Run`; there is no redial.

### `CallbackSession`

The two adapters whose library owns the connection: whatsmeow, with a device store of its own or
one the caller passed, and discord. `Connect` registers the handlers before it dials and takes
them back when the dial fails; both sides of that, and of `Disconnect`, are steps. The library
may deliver events, terminal ones too, at any time a handler is registered; a first connection
of whatsmeow pairs by codes that a goroutine of its own pumps. A store the adapter opened is
closed in `Disconnect`, after which no `Connect` succeeds.

### `TelegramPoll`

The probe and long-poll goroutine of each connection. `ChooseClient` is the choice between the
client `New` built, usable once, and a fresh one: two loops on one client would share its
buffer. The library is external: a client fetches updates, which confirms to Telegram those it
fetched before, buffers them and hands each to `onUpdate`. `Disconnect` does nothing, so a loop
whose context is done may wind down beside its successor; what it had buffered dies with it.

### `CliLines`

The scanner goroutine, which blocks in a read nobody can cancel, and the loop goroutine it hands
lines to over an unbuffered channel. `HandOver` is the rendezvous, which a cancellation prevents;
`Dispatch` follows once the line is parsed, which may open files, and asks no context. So a
canceled loop may dispatch the one line it had received after lines of its successor, and
`LinesInOrder` allows exactly that. The end of the input travels on a channel of its own. A scanner
whose connection is over still takes the next line and drops it.

### `ReactionPoller`

A loop per connection: `BeginCycle` (with the discovery of wildcard repositories every
`RefreshCycles` cycles), `ListComments` for each repository, `ListReactions` of a comment whose
count changed, `DispatchReaction` for each reaction (the cutoff, bots, and `markSeen`, which the
loops of overlapping connections race for), `CommentDone`, `EndCycle`, `Wake`. Each request may
fail (`CommentsFail`, `ListFails`), which leaves the count out of the cache. Users add and
remove reactions at any time between two requests. One comment per repository stands for the
window, since comments are cached and skipped independently; paging only stretches a cycle.

The cutoff is the host's `time.Now()`, and a reaction's date is GitHub's clock in whole seconds.
`Connect` therefore chooses freely which reactions will be dated at or before its cutoff: one that
was added before may be dated after it, and the other way round. That is what makes two loops
compete for one reaction, when the old one still holds a list of reactions and the new one takes
the same reaction for newer than itself. With several reactions the choice is freer than
two clocks are, since it need not respect the order of the reactions.

### `TeamsKeys` and `TeamsSend`

`TeamsKeys` models `publicKey` with its two looks at the cache, the mutex between them, the
fetch and its failure, under a clock: `Serves` and `Refuses` are the outcomes of `lookupCached`.
The publisher adds and retires keys at any time.

`TeamsSend` models `Send` from the lookup of the conversation to the post and its one retry:
`CachedToken`, `Lock`, `Mint` and `Store` are `accessToken`, `Invalidate` is
`invalidateToken`. The Connector may refuse any post with 401 or 403, whatever its token, and the
cached token may expire at any time. A failed token request is not counted by `MintsCoalesce`:
each send that waited for it makes a request of its own. The table of conversations, which forgets
the oldest, is part of the module, because a send starts by looking its conversation up there. An
activity may name no conversation (`NoId`): it is dispatched and not recorded, and a reply to it
finds none.

### `ForgeIngress` and `ChatIngress`

What an adapter takes for a message or reaction, as predicates over abstract posts: one per
platform where they differ (`GitHubTakes`, `GitLabTakes`, `BitbucketTakes`; `TakesMessage`,
`TakesReaction`), and where a reply lands (`ChannelID` and `Target`; `Channel` and `Landing`).
The actions close the loop: users write, the platform delivers, the handler replies, and the
reply is a post that comes back. `ForgeIngress` also has the start of the server, because a forge
bot has to ask who it is before it can tell its own notes. A post is its author, item or place,
event, internal flag and quoted message; text matters only as empty or not. Of a forge's events,
"edited" stands for all that the filters drop by kind, gitlab's `system` notes among them, and
"opened" for all that change what is to be reviewed (`reopened`, `synchronize`, `update`). The
author of such an event is the user its filter asks about: on bitbucket the one who caused the
event, elsewhere the one who opened the request. The two are not told apart.

### `MCSessions`, `MCClients`, `MCConversation`

`MCSessions` and `MCClients` put several small adapters into one instance each: `adapter` or
`part` chooses the one that runs, the others keep their initial state, and the properties of
all hold of every behaviour. `MCConversation` adds a symmetry set, which only the run without
liveness uses.

### Fault operators

An operator marked `Fault:` is a plausible bug in the definition below it. No specification
uses it; substituting it shows that a property can fail.

## The runs

All run under TLC within two and a half minutes. Deadlock is not checked: every one of these
systems stops when its bounded supply of connections, messages or requests is used up.

| Run | Instance | What it shows |
| --- | --- | --- |
| `lifecycle` | 2 goroutines, of which one also calls Connect and Disconnect, 2 connections; 261 000 states | teardowns hit their own session, whoever returns from a teardown finds it finished, `AdapterSession` is implemented; cancellation ends the session, and `Run` returns |
| `conversation` | 3 messages, 2 conversations, 2 questions, idle timeout 1; 448 000 states | answers match the questions and come from the right user, flows move forward, end once, and are swept when abandoned |
| `slack` | 2 connections, 3 events, channel of 2, queue of 1; 107 000 states | order, serial handlers, backpressure, clean shutdown; handling and draining happen |
| `webhook` | both variants, 2 connections, 3 requests, 2 read slots, 1 dispatch slot; 513 000 states | exact counts, clean shutdown, slots cross connections only after a late Shutdown; acknowledged deliveries are handled, the port is freed |
| `sessions` | signal, whatsmeow and discord, telegram, cli: 2 connections, 2 messages, 3 lines; 416 000 states | clean shutdown, truthful `Done`, each message once and by its own connection, lines in order but for the last of a canceled loop, updates lost only as the code says; the end of a session ends the run |
| `clients` | forges 2 posts, chats 3 posts, poller 2 connections, keys and tokens 2 requests each; 1 112 000 states | own posts dropped, replies where they belong, internal notes kept internal, reactions once and none missed but by a removal, stale keys and refused tokens not used |
| `lifecycle_own`, `conversation_quiet`, `slack_abandon`, `webhook_counted`, `teams_reply`, `ingress_blank` | the least in which it shows | counterexamples, [see below](#where-code-and-documentation-part) |

Bounds. `Conns` bounds the number of `Connect`s: two are the least with which an old connection
meets its successor, and a third is to the second as the second to the first, since a step reads
at most the installed connection and its own. Two goroutines and two watchers give three callers
of one teardown, since a connection has one watcher. In `Conversation`, `Msgs` bounds the
messages: three are a trigger and two answers racing each other. `MaxTime` bounds the clock;
`LastArrival` the time a message may still arrive, which leaves the clock room for a flow to
expire after it. In `SlackDispatch`, `Deliveries` numbers the events; with a queue of one
(`dispatchBuffer` is 64) the pump blocks on the second, and a third waits in the channel. In
`WebhookServer`, `MaxReads` and `MaxDispatch` (16 and 256 in the code) are smaller than the number
of requests, so both semaphores fill, shed and recover. In `SignalSocket`, `CallbackSession` and
`TelegramPoll` two messages let one be in progress while the next arrives or the connection ends;
three lines let one be lost to an old scanner, one be handled and one wait. `MaxTerminals` bounds
the terminal events of one whatsmeow session; the second is the one that must not be reported. In
`ReactionPoller`, two overlapping loops, each with any cutoff, meet one user's and one bot's
reaction. In `TeamsKeys` the clock reaches 4, enough to pass `HardMaxAge` (2) after a fetch that
took its full time. In `TeamsSend`, `MaxTokens` and `MaxExpiry` bound mints and expiries; two
sends suffice for one to mint or invalidate between the steps of the other. `BlankAt` says which
forge may answer the question for the bot's account with a blank.

Larger instances of single modules were checked as well, without liveness: `ReactionPoller` with
discovery every second cycle (1.93 million states), `TeamsKeys` with ages 2 and 4, a minimum
interval of 2 and a clock to 7 (2.5 million), `TeamsSend` with 3 sends (1.3 million),
`ForgeIngress` with 3 posts (1.5 million), `CliLines` with 3 connections and 4 lines (6.2 million),
`Conversation` with a clock to 2 (1.1 million). They
found nothing the listed runs do not.

Fairness. The Go scheduler runs every runnable goroutine, which is weak fairness of each
goroutine's steps. Beyond that the live runs assume:

- `Lifecycle`: `adapter.Connect` and `adapter.Disconnect` return. The `Adapter` interface
  requires a non-blocking `Connect`, and every `Disconnect` bounds its drain by a timeout.
- `Conversation`: time passes, and the sweeper's ticker fires while a connection is up.
- `SlackDispatch`, `WebhookServer`: handlers return. The code cannot enforce it (the drain
  timeouts exist because of it), so liveness is claimed of well-behaved handlers only. A pump
  whose select has several ready arms is weakly fair as a whole; deliveries are finite, so it
  cannot take events for ever instead of noticing its context. An identity request pending at
  `Disconnect` ends, because its context is canceled; `http.Server` ends a slow body at its
  `ReadTimeout`.
- `MCSessions`: read and line loops run; the telegram probe answers within `getMeTimeout` and
  the library's poll returns once its context is canceled; the cli's handlers, which run on its
  loop, return. The scanner of the cli is not fair: nobody has to type.

Nothing makes a user write, a platform deliver, a socket fail, an event loop end or an
application disconnect.

## Where code and documentation part

Six runs end in a counterexample that TLC prints. Each is a narrow race or an unlikely answer.

- `lifecycle_own`. `Run` reads `b.conn` again after its `Connect` (`core.go:540`). When another
  goroutine disconnects and connects in between, `Run` adopts that connection and tears it down
  when its own context ends; the comment at `core.go:554` promises the connection `Run` owns.
- `conversation_quiet`. `advance` reads the clock before it waits for the lock and slides the
  deadline from that value (`conversation.go:219`). A message that waited can move the deadline
  backwards, and the flow of a user who was not quiet for the timeout expires (`flow.go:138`).
- `slack_abandon`. With its context canceled the pump may still take and acknowledge an event
  and then leave without enqueuing it (`slack.go:152`), although `Disconnect` drained in time;
  `slack.go:161` promises that no acknowledged event is abandoned.
- `webhook_counted`. A request that outlives `Shutdown`'s deadline is acknowledged and counted
  after the drain began, or ended; `github/server.go:190` says it never is. The same request
  may draw on the next connection's semaphore: `SlotsCrossOnlyLate` states, and `webhook`
  checks, that nothing else does.
- `teams_reply`. A conversation keeps its place in the table of `teams/server.go:285` when it is
  active again, so a single new conversation can evict it before the reply to its newest activity
  is sent; `server.go:272` expects that only of "a much-later proactive send".
- `ingress_blank`. gitlab takes an answer without an account id for success
  (`gitlab/server.go:411`), serves with an identity that matches no note, and handles its own
  reply; `bitbucket/server.go:251` calls a blank identity as dangerous as a failure, and fatal
  "like GitLab does". github has the same gap (`github/server.go:337` returns `user.GetID()` as it
  is); the quoted comment speaks of gitlab, and so does the run.

## The proofs

Eight modules hold theorems, for any values of the constants that the assumptions allow: any
sets of goroutines, connections, messages, posts, requests, reactions or keys, and any capacities
and intervals. The assumptions only say that null values are distinct from real ones and that
bounds are (positive) naturals; `TeamsKeys` also needs `HardMaxAge = 2 * MaxAge`, as in the code,
and `ForgeIngress` that `BlankAt` names forges. Between them the theorems state every invariant
and every action property that a passing run checks, and the refinement. Six modules are
about the one they are named after; `MCSessionsProofs` and `MCClientsProofs` are about the two
composed specifications, and state the properties that the runs `sessions` and `clients` check.

| Module | Theorems | Property |
| --- | --- | --- |
| `LifecycleProofs` | `TypeCorrect`, `SessionInstalled`, `TeardownIsScoped`, `DisconnectAtMostOnce`, `ReturnsSettled`, `RefinesAdapterSession` | `TypeOK`, `SessionIsInstalled`, `TeardownHitsOwnSession`, `DisconnectOnce`, `SettledOnReturn`, `ImplementsAdapterSession` |
| `ConversationProofs` | `TypeCorrect`, `NoQuestionSkipped`, `AnswersStayInConversation`, `OneEnding`, `FlowsMoveForward` | `TypeOK`, `AnswersMatchSteps`, `AnswersAreOwn`, `EndsOnce`, `ForwardOnly` |
| `SlackDispatchProofs` | `TypeCorrect`, `HandlersInOrder`, `HandlersSerial`, `ShutdownIsClean`, `AbandonsAreFew` | `TypeOK`, `InOrder`, `Serial`, `CleanShutdown`; `AtMostOneAbandonedEach` |
| `WebhookServerProofs` | `TypeCorrect`, `CountersAreExact`, `ShutdownIsClean`, `SlotsStay` | `TypeOK`, `CountersExact`, `CleanShutdown`, `SlotsCrossOnlyLate` |
| `SignalSocketProofs` | `TypeCorrect`, `ShutdownIsClean`, `CountsAreOwn`, `DoneIsTruthful` | `TypeOK`, `CleanShutdown`, `CountsOwnDispatches`, `DoneMeansLost` |
| `ReactionPollerProofs` | `TypeCorrect`, `ReactionsOnce`, `NothingElseMissed` | `TypeOK`, `DispatchedOnce`, `MissedOnlyByRemoval` |
| `MCSessionsProofs` | `TypesKept`, `CleanShutdowns`, `DoneTruthful`, `HandledOnceInOrder`, `UpdatesKeptAlways` | `SessionTypes`, `ShutdownIsClean`, `DoneIsTruthful`, `HandledInOrder`, `UpdatesKept` |
| `MCClientsProofs` | `TypesKept`, `OwnPostsAreDropped`, `KnownBotsDropOwnPosts`, `RepliesLand`, `InternalNotesStay`, `ReactionsOnce`, `NothingElseMissed`, `RetiredKeysExpire`, `RetryIsFresh`, `RequestsAreFew`, `RepliesLostToNewcomers` | `ClientTypes`, `OwnPostsDropped`, `OwnPostsDropped`, `RepliesLandAtOrigin`, `InternalNotesStayInternal`, `DispatchedOnce`, `MissedOnlyByRemoval`, `KeysExpire`, `RetryUsesFreshToken`, `RequestsCoalesce`; `LostOnlyToNewcomers` |

In each, `IInv` conjoins the properties with what they lack to be inductive, as named parts.
`InitInv` and `StepInv` show it inductive, with one lemma or step per action and one step per
part under it; `Invariance` follows, and the theorems from it.

In the two composed modules each component has an invariant of its own (`CallbackInv`,
`TelegramInv`, `CliInv`; `ForgeInv`, `ChatInv`, `KeysInv`, `SendInv`), and `SessionsInv` and
`ClientsInv` are their conjunctions. `StepOfEach` shows that a step of the whole is a step of each
component or leaves its variables alone, so each conjunct is kept by its own step lemma. The
invariants of signal and of the poller come from `SignalSocketProofs` and
`ReactionPollerProofs`, instantiated with the composed module's variables: `SignalNext` and
`PollerNext` show that both instances of the component take the same steps, and `SignalMeans`
and `PollerMeans` carry the result back. Both conjunctions were model-checked on
the instances of `sessions` and `clients` before they were proved.

What the parts say:

- *`Lifecycle`.* `LockInv`: `b.mu` is held exactly by the goroutine inside `adapter.Connect`,
  and then nothing is installed. `TargetInv`: a connection in a goroutine's local variable is
  installed, or its `adapter.Disconnect` is over; and a goroutine that found its connection
  superseded is right for good. This is what makes the check in the first critical section
  valid after `b.mu` is released: `b.conn` leaves `c` only when the disconnect is over, and
  never comes back to it. `FreshInv`: a connection whose `adapter.Connect` has not returned is
  known to nobody else. `OnceInv`: a running `adapter.Disconnect` has exactly one caller, and
  who passed the `sync.Once` finds it over. `SessionInv`: the session lives from installation
  to the end of `adapter.Disconnect`. `AdapterIsExclusive` derives that at most one goroutine
  is inside the adapter, and `RefinementStep` maps every step to an `AdapterSession` step or a
  stutter.
- *`Conversation`.* The invariants need each other: that the stored answers have the right type
  rests on `AnswersMatchSteps`, and that a flow ends once rests on no other conversation
  holding the same instance, which is part of `AnswersAreOwn`. What they lack is `PhaseInv`: a
  message that has not left the command table has started no flow and answered none. The five
  branches that act inside a flow share their argument: `FlowStep` says what they have in
  common, the lemmas `ExpireInv` to `NextStepInv` show that each is one, and `FlowStepInv`
  shows once that such a step keeps the invariants.
- *`SlackDispatch`.* `ChannelInv`, `QueueInv` and `StartedInv` say where events are in order:
  those in the shared channel come after all that were taken, those in a queue after all whose
  handlers started - on this connection always, on any connection while no drain has timed
  out. That condition is `CoreInv`'s: a connection that is over in time is drained, so its
  queue, its pump and its dispatcher hold nothing a successor could overtake. `AbandonedInv`
  charges each abandoned event to a connection whose pump has exited, no two to the same: an
  injection, so the events need not be counted. Only `PumpAbandons` adds one, and it is the last
  step of its pump; every other step moves an event on and keeps it `Placed`.
- *`WebhookServer`.* The counts are cardinalities, so `FiniteInv` (only finitely many requests
  have come) goes with them, and the requests may be infinitely many. `RequestInv` ties each
  request's place to its server and semaphore; `QuietInv` says that a server whose `Shutdown`
  was in time has no open request left, which makes the drain counter final.
- *`SignalSocket`.* `SocketInv`: a socket that we closed was marked first, so an unmarked loop
  that fails lost its socket. `HeldInv`: a loop that is gone holds no message, so its counter
  only falls. `CountInv` adds finiteness to the counts.
- *`ReactionPoller`.* A cached count does not say which reactions it counted. `CountsOK`,
  `NextOK` and `AtOK` follow one count from the comment list to the next cycle's cache, and say
  that some set of reactions that are still on the comment, as many as the count, was looked
  at, unless the comment lost one since. When the count is still right, that set is all of them
  (`CoveredWhole`). The two places that may hold a stale count are excluded by `ShapeOK`.
- *`CallbackSession`.* `SessionInv`: at most one connection is between its `Connect` and the end
  of its `Disconnect`, it is the only one whose handlers are registered, and the live session is
  its own. So what a delivery runs is the session's own handlers, and nothing a failed dial left.
  `StoreInv`: the store is closed when all sessions are.
- *`TelegramPoll`.* `ClientInv`: no two connections poll with one client, because the client that
  `New` built is used once. `UnusedInv` and `OwnInv` then keep what a client fetched, buffered and
  passed on with the one connection that polls with it, while two of them overlap.
- *`CliLines`.* `LiveInv`: only the installed connection is not canceled. `ReadInv` accounts for
  each line read: dispatched, received, held, or dropped by a canceled scanner. `OwnLineInv`: the
  lines of one connection stay in order. `LiveLineInv`: a line of the live connection is later than
  all that were dispatched or received elsewhere, so only a canceled loop dispatches late.
  `LateInv`: a loop that did has no other line, and the cancellation keeps it from one.
- *`ForgeIngress`.* `SelfInv`: a bot that serves knows its account, or needs none, unless its
  forge answered blankly (`Blank`). `NoteInv` says which posts there are, `NoteTakenInv` what the
  filters let through, and `NoteAnswerInv` where replies are. `TargetIsOrigin` is the fact behind
  the last: a channel id leads back to the one item it was made for, issue or merge request.
- *`ChatIngress`.* The same for the chats: `PostInv`, `TakenInv` and `AnswerInv`, which says that
  a reply is where the channel of its message leads and quotes what it should.
- *`TeamsKeys`.* A retired key in an answer was retired during the fetch, and one in the cache
  came by a fetch that ended at most `FetchTime` after its retirement (`RetiredInv`, with the
  timeout in `FetchInv`); each way to accept a key is then bounded by the ages.
- *`TeamsSend`.* `SecretInv`: a token that is minted and not stored is its minter's alone, so
  no send was refused it. Hence no store can bring a refused token back (`RefusedInv`).
  `CountInv`: each token minted was dropped, is cached or is about to be. `RecordedType`: the
  table of conversations has no duplicates and never outgrows its capacity. `EvictedInv`: a
  conversation someone replies to has no id, is in the table, or a newcomer took its place.

`OwnPostsDropped` does not hold for every `BlankAt`: `ingress_blank` is its counterexample.
`OwnPostsAreDropped` therefore states it of every behaviour in which the forge, if it is github
or gitlab, does not answer blankly, and `KnownBotsDropOwnPosts` of all behaviours when only
bitbucket may, which is the instance of the run `clients`.

Model-checked only: liveness, which needs ENABLED and fairness. The six counterexamples are TLC's
too; where the code has a weaker guarantee to offer in their place, it is proved:

| Counterexample | What holds instead |
| --- | --- |
| `lifecycle_own` | `TeardownHitsOwnSession`: a teardown ends the session of the connection it names |
| `slack_abandon` | `AtMostOneAbandonedEach`: while every drain is in time, at most one acknowledged event is lost per canceled connection |
| `webhook_counted` | `SlotsCrossOnlyLate`: only a request that outlived `Shutdown` draws on another semaphore |
| `teams_reply` | `LostOnlyToNewcomers`: a reply to an activity that names its conversation loses it only to one that came since |
| `ingress_blank` | `~Blank => OwnPostsDropped`: only a blank answer makes a bot handle its own post |

`AtMostOneAbandonedEach` and `LostOnlyToNewcomers` are stated in the proof modules; TLC found
their inductive invariants kept on the instances of `slack` (106 509 states) and of `teams_reply`
with three sends (285 453).

## Not modelled

- *The flow builder* (`flow.go`): it appends to slices before `Connect`, on one goroutine, and
  returns an error for a wrong flow.
- *Middleware composition and command matching*: fixed before `Connect`; the order of flow,
  command table and unknown-command handler is part of `Conversation`.
- *Attachments*: sent and received as they are; which messages count as empty is modelled.
- *Formatting and parsing*: mention syntax, payload fields, signatures and token claims are data
  transformations. The modules assume a body that parsed and verified, and `WebhookServer`
  rejects any other. Channel ids are modelled by what tells an issue from a merge request.
- *The request and response formats* of each platform's API, and the verification handshake of
  the WhatsApp Cloud API, which keeps no state.
- *The public packages*, which re-export the internal ones, and the examples and test helpers.
- *The platform libraries and services* are outside the repository: modelled only as far as the
  adapters use them, and marked external in `PROJECT.json`.
