--------------------------- MODULE WebhookServer ---------------------------
(***************************************************************************)
(* The HTTP server every webhook adapter builds (internal/github,          *)
(* internal/gitlab, internal/bitbucket, internal/teams and                 *)
(* internal/whatsapp/cloud, file server.go or cloud.go): a request is      *)
(* admitted by the read semaphore, verified, given a slot of the dispatch  *)
(* semaphore, acknowledged and dispatched on a goroutine of its own, which *)
(* Disconnect drains through the inflight counter.                         *)
(*                                                                         *)
(* A step ends where another goroutine can see or disturb it.  Tracking a  *)
(* dispatch and the return of its HTTP handler are one step.  A shed       *)
(* delivery is answered 503 by github, teams and cloud, which the platform *)
(* sends again, and 200 by gitlab and bitbucket, which drop it.            *)
(*                                                                         *)
(* Connections follow each other as module AdapterSession says: core calls *)
(* Connect only when the previous Disconnect has returned.  What a timeout *)
(* leaves behind runs beside the next connection.                          *)
(***************************************************************************)
EXTENDS Integers, FiniteSets

CONSTANTS Conns,       \* connections, one server each
          NoConn,      \* a.srv == nil
          Requests,    \* webhook deliveries, each one HTTP request
          MaxReads,    \* maxConcurrentReads
          MaxDispatch  \* maxConcurrentDispatch

ASSUME WebhookAssumption == /\ NoConn \notin Conns
                            /\ MaxReads \in Nat \ {0}
                            /\ MaxDispatch \in Nat \ {0}

VARIABLES teams,    \* the adapter is teams, which orders its releases its own way
          srv,      \* a.srv: the connection the adapter holds
          sem,      \* a.sem: whose semaphore Connect installed last
          phase,    \* where Disconnect of that connection is
          server,   \* each connection's server and listener
          shut,     \* connections whose Shutdown has begun
          slots,    \* taken slots of each connection's dispatch semaphore
          readers,  \* taken slots of the read semaphore, which is made once
          inflight, \* the adapter's counter of dispatch goroutines
          at,       \* where each request is
          of,       \* the server a request came to
          semOf,    \* the semaphore a request took a snapshot of
          over,     \* history: connections whose Disconnect has returned
          late,     \* history: connections whose Shutdown timed out
          timedOut  \* history: connections whose drain timed out

vars == <<teams, srv, sem, phase, server, shut, slots, readers, inflight, at, of, semOf,
          over, late, timedOut>>
\* Which adapter it is never changes: teams is part of both groups.
connVars == <<teams, srv, sem, phase, server, shut, over, late, timedOut>>
requestVars == <<slots, readers, inflight, at, of, semOf, teams>>

Init == /\ teams \in BOOLEAN
        /\ srv = NoConn
        /\ sem = NoConn
        /\ phase = "up"
        /\ server = [c \in Conns |-> "new"]
        /\ shut = {}
        /\ slots = [c \in Conns |-> 0]
        /\ readers = 0
        /\ inflight = 0
        /\ at = [r \in Requests |-> "new"]
        /\ of = [r \in Requests |-> NoConn]
        /\ semOf = [r \in Requests |-> NoConn]
        /\ over = {}
        /\ late = {}
        /\ timedOut = {}

-----------------------------------------------------------------------------
(* Helpers *)

\* The HTTP handler of r has not returned; Shutdown waits for it.
Open(r) == at[r] \in {"reading", "verifying", "acquire", "acked"}

\* r holds a read slot: to the return of its handler, or on teams until its body is
\* parsed, for there the verification may wait for a key fetch.
Reads(r) == IF teams THEN at[r] = "reading" ELSE Open(r)

\* The first deferred call of a dispatch frees its slot and the second counts it
\* down; on teams it is the other way round.
HoldsSlot(r) == at[r] \in {"acked", "handling"} \/ (teams /\ at[r] = "returned")
Tracked(r) == at[r] = "handling" \/ (~teams /\ at[r] = "returned")

\* The listener of c is bound: until Serve returns, or resolving fails.
Bound(c) == server[c] \notin {"new", "closed"}

Goto(r, l) == at' = [at EXCEPT ![r] = l]

\* The read slot of r is freed, if r holds one.
FreesReadSlot(r) == readers' = IF Reads(r) THEN readers - 1 ELSE readers

FreesSlot(c) == /\ slots' = [slots EXCEPT ![c] = @ - 1]
                /\ UNCHANGED inflight
CountsDown == /\ inflight' = inflight - 1
              /\ UNCHANGED slots

-----------------------------------------------------------------------------
(* Connect and the server *)

\* A fresh server and dispatch semaphore; net.Listen needs the port to be free.
\* The bot's own identity is resolved off the Connect path, before Serve.
Connect(c) == /\ srv = NoConn
              /\ server[c] = "new"
              /\ \A d \in Conns : ~Bound(d)
              /\ srv' = c
              /\ sem' = c
              /\ phase' = "up"
              /\ server' = [server EXCEPT ![c] = "resolving"]
              /\ UNCHANGED <<shut, over, late, timedOut, requestVars>>

\* The identity is known.  Serve on a server that was shut down closes the
\* listener and returns at once.
Serve(c) == /\ server[c] = "resolving"
            /\ server' = [server EXCEPT ![c] = IF c \in shut THEN "closed" ELSE "serving"]
            /\ UNCHANGED <<srv, sem, phase, shut, over, late, timedOut, requestVars>>

\* Fault: the listener is left open.
ResolveLeavesOpen(c) ==
    /\ server[c] = "resolving"
    /\ server' = [server EXCEPT ![c] = "bound"]
    /\ UNCHANGED <<srv, sem, phase, shut, over, late, timedOut, requestVars>>

\* The identity cannot be resolved: the listener is closed, Done is reported
\* unless the context is done.
ResolveFails(c) == /\ server[c] = "resolving"
                   /\ server' = [server EXCEPT ![c] = "closed"]
                   /\ UNCHANGED <<srv, sem, phase, shut, over, late, timedOut, requestVars>>

\* Serve returns an error of its own and reports Done.
ServeFails(c) == /\ server[c] = "serving"
                 /\ server' = [server EXCEPT ![c] = "closed"]
                 /\ UNCHANGED <<srv, sem, phase, shut, over, late, timedOut, requestVars>>

-----------------------------------------------------------------------------
(* A request: handleWebhook and ackAndDispatch *)

\* The read semaphore admits r, or r is shed.
Admit(r, c) == /\ at[r] = "new"
               /\ server[c] = "serving"
               /\ of' = [of EXCEPT ![r] = c]
               /\ IF readers < MaxReads
                  THEN Goto(r, "reading") /\ readers' = readers + 1
                  ELSE Goto(r, "shed") /\ UNCHANGED readers
               /\ UNCHANGED <<connVars, slots, inflight, semOf>>

\* Fault: the read slot is not freed on a rejection.
RejectKeepsSlot(r) == /\ at[r] = "reading"
                      /\ Goto(r, "rejected")
                      /\ UNCHANGED <<connVars, slots, readers, inflight, of, semOf>>

\* The body cannot be read or verified, or carries nothing to dispatch.
Reject(r) == /\ at[r] \in {"reading", "verifying"}
             /\ Goto(r, "rejected")
             /\ FreesReadSlot(r)
             /\ UNCHANGED <<connVars, slots, inflight, of, semOf>>

\* teams: the body is parsed; what is left to verify needs no read slot.
Parse(r) == /\ teams
            /\ at[r] = "reading"
            /\ Goto(r, "verifying")
            /\ FreesReadSlot(r)
            /\ UNCHANGED <<connVars, slots, inflight, of, semOf>>

\* The body is verified and carries work: r takes a snapshot of the semaphore
\* the adapter holds, which need not be that of its own server.
Verify(r) == /\ at[r] = IF teams THEN "verifying" ELSE "reading"
             /\ Goto(r, "acquire")
             /\ semOf' = [semOf EXCEPT ![r] = sem]
             /\ UNCHANGED <<connVars, slots, readers, inflight, of>>

\* A slot is free: it is taken and the delivery acknowledged.
Ack(r) == /\ at[r] = "acquire"
          /\ slots[semOf[r]] < MaxDispatch
          /\ slots' = [slots EXCEPT ![semOf[r]] = @ + 1]
          /\ Goto(r, "acked")
          /\ UNCHANGED <<connVars, readers, inflight, of, semOf>>

\* All slots are taken: the delivery is shed without waiting.
Shed(r) == /\ at[r] = "acquire"
           /\ slots[semOf[r]] >= MaxDispatch
           /\ Goto(r, "shed")
           /\ FreesReadSlot(r)
           /\ UNCHANGED <<connVars, slots, inflight, of, semOf>>

\* Fault: the dispatch goroutine, not the handler, counts itself.
TrackLate(r) == /\ at[r] = "acked"
                /\ Goto(r, "handling")
                /\ FreesReadSlot(r)
                /\ UNCHANGED <<connVars, slots, inflight, of, semOf>>

\* Fault: an acknowledged delivery is dropped when its connection is gone.
TrackIfConnected(r) ==
    /\ at[r] = "acked"
    /\ IF srv = of[r]
       THEN Goto(r, "handling") /\ inflight' = inflight + 1 /\ UNCHANGED slots
       ELSE Goto(r, "shed") /\ UNCHANGED inflight /\ slots' = [slots EXCEPT ![semOf[r]] = @ - 1]
    /\ FreesReadSlot(r)
    /\ UNCHANGED <<connVars, of, semOf>>

\* dispatchAsync counts the dispatch and starts its goroutine; the handler returns.
Track(r) == /\ at[r] = "acked"
            /\ inflight' = inflight + 1
            /\ Goto(r, "handling")
            /\ FreesReadSlot(r)
            /\ UNCHANGED <<connVars, slots, of, semOf>>

\* Fault: the slot is returned to the semaphore the adapter holds by now.
HandlerReturnsToCurrent(r) ==
    /\ at[r] = "handling"
    /\ IF teams THEN CountsDown ELSE FreesSlot(sem)
    /\ Goto(r, "returned")
    /\ UNCHANGED <<connVars, readers, of, semOf>>

\* The handler returns and the first deferred call runs.
HandlerReturns(r) == /\ at[r] = "handling"
                     /\ IF teams THEN CountsDown ELSE FreesSlot(semOf[r])
                     /\ Goto(r, "returned")
                     /\ UNCHANGED <<connVars, readers, of, semOf>>

\* The second deferred call runs and the dispatch goroutine ends.
DispatchEnds(r) == /\ at[r] = "returned"
                   /\ IF teams THEN FreesSlot(semOf[r]) ELSE CountsDown
                   /\ Goto(r, "handled")
                   /\ UNCHANGED <<connVars, readers, of, semOf>>

-----------------------------------------------------------------------------
(* Disconnect *)

\* Shutdown closes the listener of a server that serves.
ShutdownBegin == /\ srv # NoConn
                 /\ phase = "up"
                 /\ phase' = "shutdown"
                 /\ shut' = shut \cup {srv}
                 /\ server' = [server EXCEPT ![srv] = IF @ = "serving" THEN "closed" ELSE @]
                 /\ UNCHANGED <<srv, sem, over, late, timedOut, requestVars>>

Stragglers(c) == {r \in Requests : Open(r) /\ of[r] = c}

\* Fault: Shutdown is started and not waited for.
ShutdownUnawaited == /\ phase = "shutdown"
                     /\ phase' = "drain"
                     /\ UNCHANGED <<srv, sem, server, shut, over, late, timedOut, requestVars>>

\* Shutdown returns when every HTTP handler has returned, or at its deadline.
ShutdownEnd == /\ phase = "shutdown"
               /\ phase' = "drain"
               /\ late' = IF Stragglers(srv) = {} THEN late ELSE late \cup {srv}
               /\ UNCHANGED <<srv, sem, server, shut, over, timedOut, requestVars>>

\* Fault: the drain is skipped.
DrainSkipped == /\ phase = "drain"
                /\ srv' = NoConn
                /\ over' = over \cup {srv}
                /\ phase' = "up"
                /\ UNCHANGED <<sem, server, shut, late, timedOut, requestVars>>

\* The drain ends when inflight is zero, or at its own deadline; the fields are
\* cleared and the connection's detached context canceled.
DrainEnd == /\ phase = "drain"
            /\ srv' = NoConn
            /\ over' = over \cup {srv}
            /\ phase' = "up"
            /\ timedOut' = IF inflight = 0 THEN timedOut ELSE timedOut \cup {srv}
            /\ UNCHANGED <<sem, server, shut, late, requestVars>>

-----------------------------------------------------------------------------
HandleRequest(r) == \/ Reject(r) \/ Parse(r) \/ Verify(r) \/ Ack(r) \/ Shed(r) \/ Track(r)
                    \/ HandlerReturns(r) \/ DispatchEnds(r)

Disconnect == ShutdownBegin \/ ShutdownEnd \/ DrainEnd

Next == \/ \E c \in Conns : Connect(c) \/ Serve(c) \/ ResolveFails(c) \/ ServeFails(c)
        \/ \E r \in Requests : HandleRequest(r) \/ \E c \in Conns : Admit(r, c)
        \/ Disconnect

Spec == Init /\ [][Next]_vars

(* A body arrives before ReadTimeout, handlers return, and an identity request  *)
(* pending at Disconnect ends, for its context is canceled.  Nobody has to send *)
(* a request or to disconnect.                                                  *)
FairSpec == /\ Spec
            /\ \A r \in Requests : WF_vars(HandleRequest(r))
            /\ \A c \in Conns : WF_vars(c \in shut /\ (Serve(c) \/ ResolveFails(c)))

-----------------------------------------------------------------------------
(* Properties *)

(* Types of every variable, with both semaphores within their capacity. *)
TypeOK == /\ teams \in BOOLEAN
          /\ srv \in Conns \cup {NoConn}
          /\ sem \in Conns \cup {NoConn}
          /\ phase \in {"up", "shutdown", "drain"}
          /\ server \in [Conns -> {"new", "resolving", "serving", "closed"}]
          /\ shut \subseteq Conns
          /\ slots \in [Conns -> 0 .. MaxDispatch]
          /\ readers \in 0 .. MaxReads
          /\ inflight \in Nat
          /\ at \in [Requests -> {"new", "reading", "rejected", "verifying", "acquire", "shed",
                                  "acked", "handling", "returned", "handled"}]
          /\ of \in [Requests -> Conns \cup {NoConn}]
          /\ semOf \in [Requests -> Conns \cup {NoConn}]
          /\ over \subseteq Conns
          /\ late \subseteq shut
          /\ timedOut \subseteq over

(* Slots come back to the semaphore they were taken from, on every path of the   *)
(* handler and across reconnects: each count is the number of its holders, so no *)
(* sequence of rejections, sheds and reconnects leaks capacity.                  *)
CountersExact ==
    /\ \A c \in Conns : slots[c] = Cardinality({r \in Requests : HoldsSlot(r) /\ semOf[r] = c})
    /\ readers = Cardinality({r \in Requests : Reads(r)})
    /\ inflight = Cardinality({r \in Requests : Tracked(r)})

(* Disconnect lets acknowledged work finish: when neither Shutdown nor the drain  *)
(* timed out, no request of the connection is in progress once it has returned    *)
(* and its detached context is canceled.                                          *)
CleanShutdown == \A c \in over \ (late \cup timedOut) :
                    \A r \in Requests : of[r] = c => ~Open(r) /\ ~Tracked(r)

(* A request takes a slot of another connection only if its own server's Shutdown *)
(* timed out: no live request draws on the capacity of a later connection.        *)
SlotsCrossOnlyLate == \A r \in Requests : semOf[r] \notin {NoConn, of[r]} => of[r] \in late

(* github/server.go:190: "The increment lands before Shutdown returns, so         *)
(* drainDispatch always observes it."  No delivery of a connection is             *)
(* acknowledged and uncounted after its Shutdown.                                 *)
CountedBeforeDrain == \A r \in Requests :
                         at[r] = "acked" => of[r] = srv /\ phase # "drain"

(* With handlers that return, an acknowledged delivery is handled to its end,     *)
(* through a Shutdown and a reconnect.                                            *)
AckedIsHandled == \A r \in Requests : at[r] = "acked" ~> at[r] = "handled"

(* The port of a connection that is over is freed, also when Disconnect returned  *)
(* while the identity request was pending, so a later Connect can listen again.   *)
PortIsFreed == \A c \in Conns : c \in over ~> ~Bound(c)
=============================================================================
