---------------------------- MODULE SignalSocket ----------------------------
(***************************************************************************)
(* The receive socket of the signal adapter (internal/signal/signal.go):   *)
(* a read loop per connection that dispatches every user message on a      *)
(* goroutine of its own, and the Disconnect that closes the socket, waits  *)
(* for the loop and drains the dispatches.                                 *)
(*                                                                         *)
(* Connect dials before it touches any state, so one that fails changes    *)
(* nothing.  Close does not discard what the socket has already buffered:  *)
(* the loop may still read it, or fail first.  Both waits of Disconnect    *)
(* may end at their deadline at any time.                                  *)
(***************************************************************************)
EXTENDS Integers, FiniteSets

CONSTANTS Conns,  \* receive sockets, one per Connect
          NoConn, \* a.conn == nil
          Msgs    \* envelopes the container sends

\* What the module takes for granted of its parameters; MCSessions assumes it.
SignalAssumption == NoConn \notin Conns

VARIABLES conn,     \* a.conn
          phase,    \* where Disconnect of that connection is
          socket,   \* each socket: "new", "open", "closed" by us or "lost"
          closed,   \* connections whose flag closed is set
          loop,     \* each read loop: "new", "reading", "holding" a message, "gone"
          inflight, \* each connection's counter of dispatch goroutines
          at,       \* where each message is
          of,       \* the socket a message arrived on
          done,     \* connections whose loop reported Done
          over,     \* history: connections whose Disconnect has returned
          failed,   \* history: those for which it returned an error
          late      \* history: connections whose loop outlived its budget

vars == <<conn, phase, socket, closed, loop, inflight, at, of, done, over, failed, late>>
stopVars == <<conn, phase, over, failed, late>>
msgVars == <<inflight, at, of>>

Init == /\ conn = NoConn
        /\ phase = "up"
        /\ socket = [c \in Conns |-> "new"]
        /\ closed = {}
        /\ loop = [c \in Conns |-> "new"]
        /\ inflight = [c \in Conns |-> 0]
        /\ at = [m \in Msgs |-> "new"]
        /\ of = [m \in Msgs |-> NoConn]
        /\ done = {}
        /\ over = {}
        /\ failed = {}
        /\ late = {}

Held(c) == {m \in Msgs : of[m] = c /\ at[m] = "held"}
Handling(c) == {m \in Msgs : of[m] = c /\ at[m] = "handling"}

-----------------------------------------------------------------------------
(* The socket and its read loop *)

\* The socket is dialed, the connection published and its loop started.
Connect(c) == /\ conn = NoConn
              /\ socket[c] = "new"
              /\ conn' = c
              /\ socket' = [socket EXCEPT ![c] = "open"]
              /\ loop' = [loop EXCEPT ![c] = "reading"]
              /\ UNCHANGED <<phase, closed, msgVars, done, over, failed, late>>

\* The container sends an envelope.
Arrive(m, c) == /\ at[m] = "new"
                /\ socket[c] = "open"
                /\ at' = [at EXCEPT ![m] = "buffered"]
                /\ of' = [of EXCEPT ![m] = c]
                /\ UNCHANGED <<stopVars, socket, closed, loop, inflight, done>>

\* The socket dies without our doing.
Lose(c) == /\ socket[c] = "open"
           /\ socket' = [socket EXCEPT ![c] = "lost"]
           /\ UNCHANGED <<stopVars, closed, loop, msgVars, done>>

\* ReadMessage returns a message.
Read(m) == /\ at[m] = "buffered"
           /\ loop[of[m]] = "reading"
           /\ at' = [at EXCEPT ![m] = "held"]
           /\ loop' = [loop EXCEPT ![of[m]] = "holding"]
           /\ UNCHANGED <<stopVars, socket, closed, inflight, of, done>>

\* Fault: Done is reported whoever closed the socket.
ReadFailsLoudly(c) == /\ loop[c] = "reading"
                      /\ socket[c] # "open"
                      /\ loop' = [loop EXCEPT ![c] = "gone"]
                      /\ done' = done \cup {c}
                      /\ UNCHANGED <<stopVars, socket, closed, msgVars>>

\* ReadMessage fails: the loop ends and reports Done, unless Disconnect closed it.
ReadFails(c) == /\ loop[c] = "reading"
                /\ socket[c] # "open"
                /\ loop' = [loop EXCEPT ![c] = "gone"]
                /\ done' = IF c \in closed THEN done ELSE done \cup {c}
                /\ UNCHANGED <<stopVars, socket, closed, msgVars>>

\* handleReceive drops what is not a user's message: see module ChatIngress.
Skip(m) == /\ at[m] = "held"
           /\ at' = [at EXCEPT ![m] = "skipped"]
           /\ loop' = [loop EXCEPT ![of[m]] = "reading"]
           /\ UNCHANGED <<stopVars, socket, closed, inflight, of, done>>

\* Fault: the dispatch is counted on the connection that is installed by now.
DispatchOnCurrent(m) ==
    /\ at[m] = "held"
    /\ at' = [at EXCEPT ![m] = "handling"]
    /\ loop' = [loop EXCEPT ![of[m]] = "reading"]
    /\ inflight' = [inflight EXCEPT ![IF conn = NoConn THEN of[m] ELSE conn] = @ + 1]
    /\ UNCHANGED <<stopVars, socket, closed, of, done>>

\* The dispatch is counted on the loop's own connection and its goroutine started.
Dispatch(m) == /\ at[m] = "held"
               /\ at' = [at EXCEPT ![m] = "handling"]
               /\ loop' = [loop EXCEPT ![of[m]] = "reading"]
               /\ inflight' = [inflight EXCEPT ![of[m]] = @ + 1]
               /\ UNCHANGED <<stopVars, socket, closed, of, done>>

\* The handler returns, and the deferred call counts it down.
HandlerReturns(m) == /\ at[m] = "handling"
                     /\ at' = [at EXCEPT ![m] = "handled"]
                     /\ inflight' = [inflight EXCEPT ![of[m]] = @ - 1]
                     /\ UNCHANGED <<stopVars, socket, closed, loop, of, done>>

-----------------------------------------------------------------------------
(* Disconnect *)

\* The flag is set first, so that the loop takes the coming error for intended.
MarkClosed == /\ conn # NoConn
              /\ phase = "up"
              /\ phase' = "marked"
              /\ closed' = closed \cup {conn}
              /\ UNCHANGED <<conn, socket, loop, msgVars, done, over, failed, late>>

CloseSocket == /\ phase = "marked"
               /\ phase' = "loop"
               /\ socket' = [socket EXCEPT ![conn] = IF @ = "open" THEN "closed" ELSE @]
               /\ UNCHANGED <<conn, closed, loop, msgVars, done, over, failed, late>>

\* Fault: the loop is not waited for.
LoopUnawaited == /\ phase = "loop"
                 /\ phase' = "drain"
                 /\ UNCHANGED <<conn, socket, closed, loop, msgVars, done, over, failed, late>>

\* The loop exited, or loopExitTimeout passed.
LoopAwaited == /\ phase = "loop"
               /\ phase' = "drain"
               /\ late' = IF loop[conn] = "gone" THEN late ELSE late \cup {conn}
               /\ UNCHANGED <<conn, socket, closed, loop, msgVars, done, over, failed>>

\* The drain ends with no dispatch counted, or at its deadline and then with an
\* error; the connection is cleared and its dispatch context canceled.
DrainEnd == /\ phase = "drain"
            /\ phase' = "up"
            /\ conn' = NoConn
            /\ over' = over \cup {conn}
            /\ failed' = IF inflight[conn] = 0 THEN failed ELSE failed \cup {conn}
            /\ UNCHANGED <<socket, closed, loop, msgVars, done, late>>

-----------------------------------------------------------------------------
LoopStep(c) == \/ ReadFails(c)
               \/ \E m \in Msgs : of[m] = c /\ (Read(m) \/ Skip(m) \/ Dispatch(m))

Disconnect == MarkClosed \/ CloseSocket \/ LoopAwaited \/ DrainEnd

Next == \/ \E c \in Conns : Connect(c) \/ Lose(c) \/ LoopStep(c) \/ \E m \in Msgs : Arrive(m, c)
        \/ \E m \in Msgs : HandlerReturns(m)
        \/ Disconnect

Spec == Init /\ [][Next]_vars

-----------------------------------------------------------------------------
(* Properties *)

(* Types of every variable. *)
TypeOK == /\ conn \in Conns \cup {NoConn}
          /\ phase \in {"up", "marked", "loop", "drain"}
          /\ socket \in [Conns -> {"new", "open", "closed", "lost"}]
          /\ closed \subseteq Conns
          /\ loop \in [Conns -> {"new", "reading", "holding", "gone"}]
          /\ inflight \in [Conns -> Nat]
          /\ at \in [Msgs -> {"new", "buffered", "held", "skipped", "handling", "handled"}]
          /\ of \in [Msgs -> Conns \cup {NoConn}]
          /\ done \subseteq Conns
          /\ over \subseteq closed
          /\ failed \subseteq over
          /\ late \subseteq closed

(* signal.go:537: "every inflight.Add happens inside the loop, so waiting here is *)
(* what guarantees the drain counter observes all of them".  A Disconnect that    *)
(* returns nil, and whose loop kept its budget, leaves nothing in progress.       *)
CleanShutdown == \A c \in over \ (failed \cup late) :
                    loop[c] = "gone" /\ Held(c) \cup Handling(c) = {}

(* signal.go:429: a connection's drain "must not be charged for work it never     *)
(* spawned".  Each counter is the number of its own connection's dispatches.      *)
CountsOwnDispatches == \A c \in Conns : inflight[c] = Cardinality(Handling(c))

(* An intended Disconnect is never reported as a lost socket: Done means the      *)
(* container or the network ended the connection.                                 *)
DoneMeansLost == \A c \in done : socket[c] = "lost"
=============================================================================
