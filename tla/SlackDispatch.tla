--------------------------- MODULE SlackDispatch ---------------------------
(***************************************************************************)
(* The event path of the Slack adapter (internal/slack/slack.go).  Per     *)
(* connection a pump goroutine takes events from the socket client's       *)
(* channel, which all connections share, acknowledges each and enqueues    *)
(* its dispatch; one dispatcher goroutine runs the handlers in order.      *)
(* Disconnect waits for the dispatcher, up to a deadline.                  *)
(*                                                                         *)
(* Connections follow each other as module AdapterSession says: core calls *)
(* Connect only when the previous Disconnect has returned, and cancels the *)
(* connection's context before Disconnect.  What outlives a Disconnect     *)
(* whose drain timed out runs beside the next connection.                  *)
(*                                                                         *)
(* Left out: the closing of the event channel, which the socket client     *)
(* never does, and the filters of handleEventsAPI, which end a dispatch    *)
(* early.  A redelivered event is one more delivery.  The client's Ack,    *)
(* which leaves the response to its socket goroutine, is taken not to      *)
(* block; a pump that it held would hold up its dispatcher and the drain.  *)
(***************************************************************************)
EXTENDS Integers, Sequences

CONSTANTS Conns,      \* connections, in no order
          NoConn,     \* a.drained == nil
          Deliveries, \* bound on the deliveries of Slack, numbered from 1
          Inbox,      \* capacity of the socket client's event channel
          Buffer      \* dispatchBuffer, the capacity of a dispatch queue

ASSUME SlackAssumption == /\ NoConn \notin Conns
                          /\ Deliveries \in Nat
                          /\ Inbox \in Nat \ {0}
                          /\ Buffer \in Nat \ {0}

VARIABLES events,     \* the socket client's event channel
          delivered,  \* number of events Slack has delivered
          current,    \* whose queue, drained and detachedCancel the adapter holds
          draining,   \* Disconnect of the current connection waits for its drain
          socket,     \* the socket client's RunContext of each connection
          ctxDone,    \* connections whose context is canceled
          pump,       \* where each pump is
          held,       \* the event a pump is about to enqueue, 0 if none
          queue,      \* the dispatch queues
          dispatcher, \* where each dispatcher is
          running,    \* the event whose handler a dispatcher runs, 0 if none
          acked,      \* history: acknowledged events that carry a dispatch
          started,    \* history: <<connection, event>> in the order handlers started
          over,       \* history: connections whose Disconnect has returned
          timedOut    \* history: those whose drain timed out

vars == <<events, delivered, current, draining, socket, ctxDone, pump, held, queue,
          dispatcher, running, acked, started, over, timedOut>>
coreVars == <<current, draining, ctxDone, over, timedOut>>
slackVars == <<events, delivered, socket>>
pumpVars == <<pump, held, queue, acked>>
dispatchVars == <<dispatcher, running, started>>

Event == 1 .. Deliveries

Init == /\ events = <<>>
        /\ delivered = 0
        /\ current = NoConn
        /\ draining = FALSE
        /\ socket = [c \in Conns |-> "off"]
        /\ ctxDone = {}
        /\ pump = [c \in Conns |-> "off"]
        /\ held = [c \in Conns |-> 0]
        /\ queue = [c \in Conns |-> <<>>]
        /\ dispatcher = [c \in Conns |-> "off"]
        /\ running = [c \in Conns |-> 0]
        /\ acked = {}
        /\ started = <<>>
        /\ over = {}
        /\ timedOut = {}

-----------------------------------------------------------------------------
(* Slack and the socket client *)

\* The socket of connection c delivers the next event.
Deliver(c) == /\ socket[c] = "running"
              /\ delivered < Deliveries
              /\ Len(events) < Inbox
              /\ delivered' = delivered + 1
              /\ events' = Append(events, delivered')
              /\ UNCHANGED <<socket, coreVars, pumpVars, dispatchVars>>

\* RunContext returns, on an error of its own or because its context is canceled,
\* and its goroutine reports Done.
SocketEnds(c) == /\ socket[c] = "running"
                 /\ socket' = [socket EXCEPT ![c] = "done"]
                 /\ UNCHANGED <<events, delivered, coreVars, pumpVars, dispatchVars>>

-----------------------------------------------------------------------------
(* Connect and Disconnect *)

\* A fresh queue and the three goroutines of the connection.
Connect(c) == /\ current = NoConn
              /\ pump[c] = "off"
              /\ current' = c
              /\ socket' = [socket EXCEPT ![c] = "running"]
              /\ pump' = [pump EXCEPT ![c] = "select"]
              /\ dispatcher' = [dispatcher EXCEPT ![c] = "idle"]
              /\ UNCHANGED <<events, delivered, draining, ctxDone, over, timedOut, held,
                             queue, acked, running, started>>

\* The context is canceled: by the caller, or by core on its way to Disconnect.
Cancel(c) == /\ pump[c] # "off"
             /\ ctxDone' = ctxDone \cup {c}
             /\ UNCHANGED <<current, draining, over, timedOut, slackVars, pumpVars, dispatchVars>>

DisconnectBegin == /\ current \in ctxDone
                   /\ ~draining
                   /\ draining' = TRUE
                   /\ UNCHANGED <<current, ctxDone, over, timedOut, slackVars, pumpVars, dispatchVars>>

\* The wait is over: the detached context is canceled and the fields are cleared.
DisconnectEnd == /\ draining' = FALSE
                 /\ current' = NoConn
                 /\ over' = over \cup {current}
                 /\ UNCHANGED <<ctxDone, slackVars, pumpVars, dispatchVars>>

\* Fault: Disconnect does not wait for the dispatcher.
DrainedUnawaited == /\ draining
                    /\ DisconnectEnd
                    /\ UNCHANGED timedOut

Drained == /\ draining
           /\ dispatcher[current] = "drained"
           /\ DisconnectEnd
           /\ UNCHANGED timedOut

DrainTimeout == /\ draining
                /\ dispatcher[current] # "drained"
                /\ DisconnectEnd
                /\ timedOut' = timedOut \cup {current}

-----------------------------------------------------------------------------
(* The pump: pumpEvents and prepareDispatch *)

\* The context is done: the pump closes the queue and exits.
PumpStops(c) == /\ pump[c] = "select"
                /\ c \in ctxDone
                /\ pump' = [pump EXCEPT ![c] = "closed"]
                /\ UNCHANGED <<held, queue, acked, slackVars, coreVars, dispatchVars>>

\* The next event is acknowledged; its dispatch is to be enqueued, if it has one.
\* A select with both the context done and an event ready may take the event.
PumpTakes(c) == /\ pump[c] = "select"
                /\ events # <<>>
                /\ events' = Tail(events)
                /\ \/ UNCHANGED pumpVars
                   \/ /\ acked' = acked \cup {Head(events)}
                      /\ held' = [held EXCEPT ![c] = Head(events)]
                      /\ pump' = [pump EXCEPT ![c] = "enqueue"]
                      /\ UNCHANGED queue
                /\ UNCHANGED <<delivered, socket, coreVars, dispatchVars>>

\* Fault: the queue is not bounded.
PumpEnqueuesUnbounded(c) ==
    /\ pump[c] = "enqueue"
    /\ queue' = [queue EXCEPT ![c] = Append(@, held[c])]
    /\ held' = [held EXCEPT ![c] = 0]
    /\ pump' = [pump EXCEPT ![c] = "select"]
    /\ UNCHANGED <<acked, slackVars, coreVars, dispatchVars>>

\* The dispatch is enqueued; a full queue blocks the pump.
PumpEnqueues(c) == /\ pump[c] = "enqueue"
                   /\ Len(queue[c]) < Buffer
                   /\ queue' = [queue EXCEPT ![c] = Append(@, held[c])]
                   /\ held' = [held EXCEPT ![c] = 0]
                   /\ pump' = [pump EXCEPT ![c] = "select"]
                   /\ UNCHANGED <<acked, slackVars, coreVars, dispatchVars>>

\* Fault: the pump exits here without closing the queue.
PumpLeavesOpen(c) == /\ pump[c] = "enqueue"
                     /\ c \in ctxDone
                     /\ held' = [held EXCEPT ![c] = 0]
                     /\ pump' = [pump EXCEPT ![c] = "off"]
                     /\ UNCHANGED <<queue, acked, slackVars, coreVars, dispatchVars>>

\* The context is done while the pump would enqueue: it exits without the event,
\* even if the queue has room.
PumpAbandons(c) == /\ pump[c] = "enqueue"
                   /\ c \in ctxDone
                   /\ held' = [held EXCEPT ![c] = 0]
                   /\ pump' = [pump EXCEPT ![c] = "closed"]
                   /\ UNCHANGED <<queue, acked, slackVars, coreVars, dispatchVars>>

-----------------------------------------------------------------------------
(* The dispatcher *)

HandlerStarts(c) == /\ dispatcher[c] = "idle"
                    /\ queue[c] # <<>>
                    /\ queue' = [queue EXCEPT ![c] = Tail(@)]
                    /\ running' = [running EXCEPT ![c] = Head(queue[c])]
                    /\ dispatcher' = [dispatcher EXCEPT ![c] = "handling"]
                    /\ started' = Append(started, <<c, Head(queue[c])>>)
                    /\ UNCHANGED <<pump, held, acked, slackVars, coreVars>>

\* Fault: a handler's panic ends the dispatcher.
HandlerReturnsForGood(c) == /\ dispatcher[c] = "handling"
                            /\ running' = [running EXCEPT ![c] = 0]
                            /\ dispatcher' = [dispatcher EXCEPT ![c] = "drained"]
                            /\ UNCHANGED <<started, slackVars, coreVars, pumpVars>>

\* The handler returns, or panics and core's dispatch recovers.
HandlerReturns(c) == /\ dispatcher[c] = "handling"
                     /\ running' = [running EXCEPT ![c] = 0]
                     /\ dispatcher' = [dispatcher EXCEPT ![c] = "idle"]
                     /\ UNCHANGED <<started, slackVars, coreVars, pumpVars>>

\* The queue is closed and empty.
DispatcherExits(c) == /\ dispatcher[c] = "idle"
                      /\ pump[c] = "closed"
                      /\ queue[c] = <<>>
                      /\ dispatcher' = [dispatcher EXCEPT ![c] = "drained"]
                      /\ UNCHANGED <<running, started, slackVars, coreVars, pumpVars>>

-----------------------------------------------------------------------------
PumpStep(c) == PumpStops(c) \/ PumpTakes(c) \/ PumpEnqueues(c) \/ PumpAbandons(c)
DispatchStep(c) == HandlerStarts(c) \/ HandlerReturns(c) \/ DispatcherExits(c)

Next == \/ \E c \in Conns : \/ Deliver(c) \/ SocketEnds(c)
                            \/ Connect(c) \/ Cancel(c)
                            \/ PumpStep(c) \/ DispatchStep(c)
        \/ DisconnectBegin \/ Drained \/ DrainTimeout

Spec == Init /\ [][Next]_vars

(* The goroutines are scheduled, handlers return, and a drain that is over is  *)
(* noticed.  Nothing makes Slack deliver, a socket fail or anyone disconnect.  *)
FairSpec == Spec /\ \A c \in Conns : WF_vars(PumpStep(c)) /\ WF_vars(DispatchStep(c))

-----------------------------------------------------------------------------
(* Properties *)

(* Types of every variable; a queue never outgrows its capacity. *)
TypeOK == /\ events \in Seq(Event) /\ Len(events) <= Inbox
          /\ delivered \in 0 .. Deliveries
          /\ current \in Conns \cup {NoConn}
          /\ draining \in BOOLEAN
          /\ socket \in [Conns -> {"off", "running", "done"}]
          /\ ctxDone \subseteq Conns
          /\ pump \in [Conns -> {"off", "select", "enqueue", "closed"}]
          /\ held \in [Conns -> 0 .. Deliveries]
          /\ queue \in [Conns -> Seq(Event)]
          /\ \A c \in Conns : Len(queue[c]) <= Buffer
          /\ dispatcher \in [Conns -> {"off", "idle", "handling", "drained"}]
          /\ running \in [Conns -> 0 .. Deliveries]
          /\ acked \subseteq Event
          /\ started \in Seq(Conns \X Event)
          /\ over \subseteq Conns
          /\ timedOut \subseteq over

(* slack.go:42: handlers of one connection start in the order Slack delivered   *)
(* the events, each event once; across connections too, as long as no drain     *)
(* timed out, for a leaked pump or dispatcher competes with its successor.      *)
InOrder == \A i, j \in 1 .. Len(started) :
              i < j => \/ started[i][2] < started[j][2]
                       \/ started[i][1] # started[j][1] /\ timedOut # {}

(* slack.go:43: handlers never run concurrently, except beside the handler of a *)
(* connection whose drain timed out.                                            *)
Serial == \A c, d \in Conns : running[c] # 0 /\ running[d] # 0 /\ c # d
                                 => {c, d} \cap timedOut # {}

(* A Disconnect that returns without a timeout leaves nothing behind: the queue *)
(* is empty, no handler runs and the pump takes no more events, so the detached *)
(* context is canceled under no handler.                                        *)
CleanShutdown == \A c \in over \ timedOut : /\ queue[c] = <<>>
                                            /\ running[c] = 0
                                            /\ pump[c] = "closed"

Started == {started[i][2] : i \in 1 .. Len(started)}

(* slack.go:161: "Disconnect drains queued dispatch before returning so an      *)
(* acked event is not abandoned at shutdown".  When every Disconnect so far was *)
(* in time and no connection is open, each acknowledged event was handled.      *)
AckedNotAbandoned == current = NoConn /\ timedOut = {} => acked \subseteq Started

(* With handlers that return, an acknowledged event is handled eventually unless *)
(* a context is canceled.                                                        *)
AckedIsHandled == \A e \in Event : e \in acked ~> (e \in Started \/ ctxDone # {})

(* With handlers that return, a canceled connection winds down: its pump closes  *)
(* the queue and its dispatcher empties it, so no Disconnect has to time out.    *)
CanceledDrains == \A c \in Conns : c \in ctxDone ~> dispatcher[c] = "drained"
=============================================================================
