----------------------------- MODULE Lifecycle -----------------------------
(***************************************************************************)
(* The connection life cycle of a Bot (internal/core/core.go): Connect,    *)
(* Disconnect and Run, called concurrently by any number of goroutines,    *)
(* racing the ctx-watcher that an adapter starts for each connection.      *)
(*                                                                         *)
(* A step is one critical section of b.mu, one side of the adapter calls   *)
(* (which block and may fail), or one wake-up of a select.  A watcher is   *)
(* named by the connection it watches.  The caller's context is one per    *)
(* Connect attempt, so it is named by the connection too.                  *)
(***************************************************************************)
EXTENDS FiniteSets

CONSTANTS Runners,   \* application goroutines that call Run
          Callers,   \* application goroutines that call Connect and Disconnect
          Conns,     \* connection identities; their number bounds the Connects
          NoConn,    \* b.conn == nil
          NoProc     \* b.mu is free

Threads == Runners \cup Callers
Procs == Threads \cup Conns

ASSUME LifecycleAssumption == /\ Threads \cap Conns = {}
                              /\ NoConn \notin Procs
                              /\ NoProc \notin Procs

VARIABLES mu,        \* goroutine holding b.mu across adapter.Connect, or NoProc
          conn,      \* b.conn
          pc,        \* where each goroutine is
          call,      \* the Bot method each goroutine is in
          target,    \* c: the connection a goroutine holds in a local variable
          attempt,   \* the connection made by the goroutine's own Connect
          current,   \* disconnectConn's local "current"
          made,      \* connections handed out by Connect so far
          ctxDone,   \* attempts whose caller cancelled the ctx given to Connect
          runDone,   \* connections torn down: c.cancel ran, c.runDone is closed
          done,      \* c.done and what the event loop put in it
          disc,      \* c.discOnce and c.discErr
          session    \* the adapter's live session

vars == <<mu, conn, pc, call, target, attempt, current, made, ctxDone,
          runDone, done, disc, session>>

procVars == <<pc, call, target, attempt, current>>
connVars == <<made, ctxDone, runDone, done, disc>>

PCs == {"idle", "connecting", "adopt", "waiting", "check", "teardown",
        "discOnce", "stopping", "clear", "watching"}
Calls == {"none", "Connect", "Run", "Disconnect", "watcher"}
Done == {"open", "sent", "received"}
Disc == {"no", "running", "over"}

TypeOK == /\ mu \in Threads \cup {NoProc}
          /\ conn \in Conns \cup {NoConn}
          /\ pc \in [Procs -> PCs]
          /\ call \in [Procs -> Calls]
          /\ target \in [Procs -> Conns \cup {NoConn}]
          /\ attempt \in [Procs -> Conns \cup {NoConn}]
          /\ current \in [Procs -> BOOLEAN]
          /\ made \subseteq Conns
          /\ ctxDone \subseteq Conns
          /\ runDone \subseteq Conns
          /\ done \in [Conns -> Done]
          /\ disc \in [Conns -> Disc]
          /\ session \in Conns \cup {NoConn}

Init == /\ mu = NoProc
        /\ conn = NoConn
        /\ pc = [p \in Procs |-> "idle"]
        /\ call = [p \in Procs |-> "none"]
        /\ target = [p \in Procs |-> NoConn]
        /\ attempt = [p \in Procs |-> NoConn]
        /\ current = [p \in Procs |-> FALSE]
        /\ made = {}
        /\ ctxDone = {}
        /\ runDone = {}
        /\ done = [c \in Conns |-> "open"]
        /\ disc = [c \in Conns |-> "no"]
        /\ session = NoConn

-----------------------------------------------------------------------------
(* Helpers *)

Goto(p, l) == pc' = [pc EXCEPT ![p] = l]

\* Fault: the run context does not descend from the caller's.
RunCtxDoneDetached(c) == c \in runDone

\* The context runCtx of connection c is done: its own cancel ran, or its parent's.
RunCtxDone(c) == c \in runDone \cup ctxDone

\* adapter.Connect succeeded for connection c, now or earlier.
Opened(c) == call[c] = "watcher" \/ c \in runDone

\* The connection the next Connect allocates.
Fresh == CHOOSE c \in Conns \ made : TRUE

\* The method goroutine p is in returns.
Return(p) == /\ Goto(p, "idle")
             /\ call' = [call EXCEPT ![p] = "none"]
             /\ target' = [target EXCEPT ![p] = NoConn]
             /\ attempt' = [attempt EXCEPT ![p] = NoConn]
             /\ current' = [current EXCEPT ![p] = FALSE]

-----------------------------------------------------------------------------
(* Connect, alone or as the first half of Run *)

\* Take b.mu, make a fresh connection, enter adapter.Connect with b.mu held.  With
\* a connection installed the call returns ErrAlreadyConnected and changes nothing.
ConnectBegin(t, m) == /\ pc[t] = "idle"
                      /\ mu = NoProc
                      /\ conn = NoConn
                      /\ Conns \ made # {}
                      /\ made' = made \cup {Fresh}
                      /\ attempt' = [attempt EXCEPT ![t] = Fresh]
                      /\ mu' = t
                      /\ call' = [call EXCEPT ![t] = m]
                      /\ Goto(t, "connecting")
                      /\ UNCHANGED <<conn, target, current, ctxDone, runDone, done, disc,
                                     session>>

\* adapter.Connect succeeded: the session is live, its ctx-watcher is running,
\* b.conn is installed and b.mu released.
ConnectEnd(t) ==
    LET c == attempt[t] IN
    /\ pc[t] = "connecting"
    /\ session' = c
    /\ conn' = c
    /\ mu' = NoProc
    /\ pc' = [pc EXCEPT ![t] = IF call[t] = "Run" THEN "adopt" ELSE "idle",
                        ![c] = "watching"]
    /\ call' = [call EXCEPT ![t] = IF @ = "Run" THEN @ ELSE "none",
                            ![c] = "watcher"]
    /\ attempt' = [attempt EXCEPT ![t] = IF call[t] = "Run" THEN @ ELSE NoConn]
    /\ target' = [target EXCEPT ![c] = c]
    /\ UNCHANGED <<current, connVars>>

\* adapter.Connect failed: nothing is installed, nobody holds the connection.
ConnectFail(t) == /\ pc[t] = "connecting"
                  /\ mu' = NoProc
                  /\ Return(t)
                  /\ UNCHANGED <<conn, connVars, session>>

-----------------------------------------------------------------------------
(* Disconnect, and the teardown of one connection (disconnectConn) *)

\* Fault: Disconnect does not look whether a connection is installed.
DisconnectUnchecked(t) == /\ pc[t] = "idle"
                          /\ mu = NoProc
                          /\ target' = [target EXCEPT ![t] = conn]
                          /\ call' = [call EXCEPT ![t] = "Disconnect"]
                          /\ Goto(t, "check")
                          /\ UNCHANGED <<mu, conn, attempt, current, connVars, session>>

\* Disconnect reads b.conn; with nothing installed it returns nil and changes
\* nothing.
Disconnect(t) == /\ pc[t] = "idle"
                 /\ mu = NoProc
                 /\ conn # NoConn
                 /\ target' = [target EXCEPT ![t] = conn]
                 /\ call' = [call EXCEPT ![t] = "Disconnect"]
                 /\ Goto(t, "check")
                 /\ UNCHANGED <<mu, conn, attempt, current, connVars, session>>

\* Fault: b.conn is cleared before the adapter is disconnected.
CheckCurrentClears(p) == /\ pc[p] = "check"
                         /\ mu = NoProc
                         /\ current' = [current EXCEPT ![p] = (conn = target[p])]
                         /\ conn' = IF conn = target[p] THEN NoConn ELSE conn
                         /\ Goto(p, "teardown")
                         /\ UNCHANGED <<mu, call, target, attempt, connVars, session>>

\* disconnectConn's first critical section: is c still the installed connection?
CheckCurrent(p) == /\ pc[p] = "check"
                   /\ mu = NoProc
                   /\ current' = [current EXCEPT ![p] = (conn = target[p])]
                   /\ Goto(p, "teardown")
                   /\ UNCHANGED <<mu, conn, call, target, attempt, connVars, session>>

\* teardown: cancel the run context and close runDone; a superseded connection
\* leaves the adapter alone and disconnectConn returns.
Teardown(p) == /\ pc[p] = "teardown"
               /\ runDone' = runDone \cup {target[p]}
               /\ \/ /\ current[p]
                     /\ Goto(p, "discOnce")
                     /\ UNCHANGED <<call, target, attempt, current>>
                  \/ /\ ~current[p]
                     /\ Return(p)
               /\ UNCHANGED <<mu, conn, made, ctxDone, done, disc, session>>

\* Fault: no discOnce, every true caller disconnects the adapter.
DisconnectBeginAgain(p) == /\ pc[p] = "discOnce"
                           /\ disc' = [disc EXCEPT ![target[p]] = "running"]
                           /\ Goto(p, "stopping")
                           /\ UNCHANGED <<mu, conn, call, target, attempt, current, made,
                                          ctxDone, runDone, done, session>>

\* discOnce: the first caller enters adapter.Disconnect ...
DisconnectBegin(p) == /\ pc[p] = "discOnce"
                      /\ disc[target[p]] = "no"
                      /\ disc' = [disc EXCEPT ![target[p]] = "running"]
                      /\ Goto(p, "stopping")
                      /\ UNCHANGED <<mu, conn, call, target, attempt, current, made, ctxDone,
                                     runDone, done, session>>

\* ... whose return, even with an error, ends the adapter's session ...
DisconnectEnd(p) == /\ pc[p] = "stopping"
                    /\ disc' = [disc EXCEPT ![target[p]] = "over"]
                    /\ session' = NoConn
                    /\ Goto(p, "clear")
                    /\ UNCHANGED <<mu, conn, call, target, attempt, current, made, ctxDone,
                                   runDone, done>>

\* Fault: the losers of discOnce do not wait for the winner.
DisconnectSharedEarly(p) == /\ pc[p] = "discOnce"
                            /\ disc[target[p]] # "no"
                            /\ Goto(p, "clear")
                            /\ UNCHANGED <<mu, conn, call, target, attempt, current, connVars,
                                           session>>

\* ... while every other true caller blocks until then.
DisconnectShared(p) == /\ pc[p] = "discOnce"
                       /\ disc[target[p]] = "over"
                       /\ Goto(p, "clear")
                       /\ UNCHANGED <<mu, conn, call, target, attempt, current, connVars,
                                      session>>

\* Fault: b.conn is cleared without looking whose it is.
ClearConnBlindly(p) == /\ pc[p] = "clear"
                       /\ mu = NoProc
                       /\ conn' = NoConn
                       /\ Return(p)
                       /\ UNCHANGED <<mu, connVars, session>>

\* disconnectConn's second critical section: uninstall c and return.
ClearConn(p) == /\ pc[p] = "clear"
                /\ mu = NoProc
                /\ conn' = IF conn = target[p] THEN NoConn ELSE conn
                /\ Return(p)
                /\ UNCHANGED <<mu, connVars, session>>

-----------------------------------------------------------------------------
(* Run *)

\* Run re-reads b.conn after its Connect returned; with none installed it returns.
RunAdopt(t) == /\ pc[t] = "adopt"
               /\ mu = NoProc
               /\ \/ /\ conn = NoConn
                     /\ Return(t)
                  \/ /\ conn # NoConn
                     /\ target' = [target EXCEPT ![t] = conn]
                     /\ Goto(t, "waiting")
                     /\ UNCHANGED <<call, attempt, current>>
               /\ UNCHANGED <<mu, conn, connVars, session>>

\* Fault: Run does not select on runDone.
RunWakeDeaf(t) == /\ pc[t] = "waiting"
                  /\ \/ attempt[t] \in ctxDone /\ UNCHANGED done
                     \/ /\ done[target[t]] = "sent"
                        /\ done' = [done EXCEPT ![target[t]] = "received"]
                  /\ Goto(t, "check")
                  /\ UNCHANGED <<mu, conn, call, target, attempt, current, made, ctxDone,
                                 runDone, disc, session>>

\* Run's select: its ctx is done, the connection was torn down, or the loop ended.
RunWake(t) == /\ pc[t] = "waiting"
              /\ \/ /\ attempt[t] \in ctxDone \/ target[t] \in runDone
                    /\ UNCHANGED done
                 \/ /\ done[target[t]] = "sent"
                    /\ done' = [done EXCEPT ![target[t]] = "received"]
              /\ Goto(t, "check")
              /\ UNCHANGED <<mu, conn, call, target, attempt, current, made, ctxDone,
                             runDone, disc, session>>

-----------------------------------------------------------------------------
(* The adapter's goroutines and the caller's context *)

\* The ctx-watcher of a connection wakes and calls deps.Disconnect.
WatcherWake(c) == /\ pc[c] = "watching"
                  /\ RunCtxDone(c)
                  /\ Goto(c, "check")
                  /\ UNCHANGED <<mu, conn, call, target, attempt, current, connVars,
                                 session>>

\* The event loop of a connection that connected ends and reports Done,
\* once, at any time: a platform may hang up long before or after the teardown.
LoopEnd(c) == /\ Opened(c)
              /\ done[c] = "open"
              /\ done' = [done EXCEPT ![c] = "sent"]
              /\ UNCHANGED <<mu, conn, procVars, made, ctxDone, runDone, disc, session>>

\* The caller cancels the context it gave to a Connect attempt.
CallerCancels(c) == /\ c \in made \ ctxDone
                    /\ ctxDone' = ctxDone \cup {c}
                    /\ UNCHANGED <<mu, conn, procVars, made, runDone, done, disc, session>>

-----------------------------------------------------------------------------
ThreadStep(t) == \/ t \in Callers /\ ConnectBegin(t, "Connect")
                 \/ t \in Callers /\ Disconnect(t)
                 \/ t \in Runners /\ ConnectBegin(t, "Run")
                 \/ ConnectEnd(t)
                 \/ ConnectFail(t)
                 \/ RunAdopt(t)
                 \/ RunWake(t)

TeardownStep(p) == \/ CheckCurrent(p)
                   \/ Teardown(p)
                   \/ DisconnectBegin(p)
                   \/ DisconnectEnd(p)
                   \/ DisconnectShared(p)
                   \/ ClearConn(p)

ConnStep(c) == WatcherWake(c) \/ LoopEnd(c) \/ CallerCancels(c)

Next == \/ \E t \in Threads : ThreadStep(t)
        \/ \E p \in Procs : TeardownStep(p)
        \/ \E c \in Conns : ConnStep(c)

Spec == Init /\ [][Next]_vars

(* A call in progress and a woken watcher keep running: the Go scheduler runs *)
(* every runnable goroutine, adapter.Connect and adapter.Disconnect return    *)
(* (Connect is non-blocking by contract, every Disconnect bounds its drain).  *)
(* No new call, cancellation or end of an event loop is ever required.        *)
Fairness == /\ \A t \in Threads : WF_vars(ConnectEnd(t) \/ ConnectFail(t) \/ RunAdopt(t)
                                           \/ RunWake(t))
            /\ \A p \in Procs : WF_vars(TeardownStep(p))
            /\ \A c \in Conns : WF_vars(WatcherWake(c))

FairSpec == Spec /\ Fairness

-----------------------------------------------------------------------------
(* Properties *)

\* adapter.Disconnect runs for a connection only while that connection is the
\* installed one and its session is the live one: no teardown, however late,
\* closes the session of a newer connection.
TeardownHitsOwnSession ==
    \A p \in Procs : pc[p] = "stopping" => session = target[p] /\ conn = target[p]

\* A live session is always the installed connection's, so that a Connect which
\* finds b.conn nil finds the adapter at rest.
SessionIsInstalled == session # NoConn => conn = session

\* Whoever comes out of disconnectConn(c), first caller, later caller or
\* superseded one, comes out with c uninstalled and its session over.
SettledOnReturn ==
    [][\A p \in Procs : pc[p] \in {"teardown", "clear"} /\ pc'[p] = "idle"
                         => conn' # target[p] /\ session' # target[p]]_vars

\* adapter.Disconnect is called at most once per connection, however
\* many callers race through the teardown.
DisconnectOnce ==
    [][\A c \in Conns : disc'[c] # disc[c] =>
          <<disc[c], disc'[c]>> \in {<<"no", "running">>, <<"running", "over">>}]_disc

\* Run's comment: "Tear down the connection Run OWNS, not whatever b.conn
\* currently points at" - the connection its own Connect installed.
RunTearsDownOwn ==
    \A t \in Threads : call[t] = "Run" /\ pc[t] \in {"check", "teardown", "discOnce", "stopping"}
                         => target[t] = attempt[t]

Session == INSTANCE AdapterSession
             WITH connecting <- {p \in Procs : pc[p] = "connecting"},
                  disconnecting <- {<<p, target[p]>> : p \in {q \in Procs : pc[q] = "stopping"}}

\* The Bot drives its one adapter as AdapterSession promises.
ImplementsAdapterSession == Session!SessionSpec

\* Cancelling the context given to Connect ends the session it opened.
CancelEndsSession == \A c \in Conns : (c \in ctxDone /\ session = c) ~> session # c

\* A Run returns once its context is cancelled, or once the connection it waits on
\* was torn down by anyone or its event loop reported its end.
RunReturns ==
    \A t \in Runners :
        (/\ call[t] = "Run"
         /\ \/ attempt[t] \in ctxDone
            \/ pc[t] = "waiting" /\ (target[t] \in runDone \/ done[target[t]] = "sent"))
        ~> call[t] # "Run"
=============================================================================
