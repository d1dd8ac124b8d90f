-------------------------- MODULE LifecycleProofs --------------------------
(***************************************************************************)
(* Proofs about Lifecycle, for any number of goroutines and connections.   *)
(***************************************************************************)
EXTENDS Lifecycle, TLAPS

(* The inductive invariant.  b.mu is held exactly by the goroutine inside       *)
(* adapter.Connect, and then nothing is installed.                              *)
LockInv == /\ \A p \in Procs : pc[p] = "connecting" <=> mu = p
           /\ mu # NoProc => conn = NoConn /\ session = NoConn /\ attempt[mu] \in made

(* A goroutine holding a connection in its "c" got it from b.conn or from the   *)
(* adapter, so the connection is installed until its adapter.Disconnect is over.*)
TargetInv == \A p \in Procs :
    /\ pc[p] \in {"waiting", "check", "teardown", "discOnce", "stopping", "clear", "watching"}
         => target[p] \in made
    /\ target[p] # NoConn => conn = target[p] \/ disc[target[p]] = "over"
    /\ pc[p] = "teardown" /\ ~current[p] => conn # target[p]

(* A connection whose adapter.Connect has not returned is known to nobody else. *)
FreshInv == \A c \in Conns :
    (c \notin made \/ \E p \in Procs : pc[p] = "connecting" /\ attempt[p] = c)
        => disc[c] = "no" /\ conn # c /\ \A q \in Procs : target[q] # c

(* discOnce: a running adapter.Disconnect has one caller, an over one has none. *)
OnceInv == /\ \A p \in Procs : pc[p] = "stopping" => disc[target[p]] = "running"
           /\ \A p, q \in Procs : pc[p] = "stopping" /\ pc[q] = "stopping"
                                    /\ target[p] = target[q] => p = q
           /\ \A p \in Procs : pc[p] = "clear" => disc[target[p]] = "over"

(* The session lives from installation to the end of adapter.Disconnect.        *)
SessionInv == /\ SessionIsInstalled
              /\ conn # NoConn => conn \in made
              /\ \A c \in Conns : conn = c /\ disc[c] # "over" => session = c
              /\ \A c \in Conns : disc[c] = "over" => session # c
              /\ \A c \in Conns : disc[c] = "running" => conn = c

IInv == TypeOK /\ LockInv /\ TargetInv /\ FreshInv /\ OnceInv /\ SessionInv
-----------------------------------------------------------------------------
LEMMA FreshIsNew == Conns \ made # {} => Fresh \in Conns \ made
BY DEF Fresh

(* A returning goroutine's variables keep their types.                          *)
LEMMA ReturnTypes ==
    ASSUME TypeOK, NEW p \in Procs, Return(p)
    PROVE  /\ pc' \in [Procs -> PCs]
           /\ call' \in [Procs -> Calls]
           /\ target' \in [Procs -> Conns \cup {NoConn}]
           /\ attempt' \in [Procs -> Conns \cup {NoConn}]
           /\ current' \in [Procs -> BOOLEAN]
BY DEF TypeOK, Return, Goto, PCs, Calls

(* IInv holds initially.                                                        *)
LEMMA InitInv == Init => IInv
<1> SUFFICES ASSUME Init PROVE IInv
  OBVIOUS
<1> USE LifecycleAssumption DEF Init, Procs, Threads
<1>1. TypeOK
  BY DEF TypeOK, PCs, Calls, Done, Disc
<1>2. LockInv /\ TargetInv /\ FreshInv /\ OnceInv /\ SessionInv
  BY DEF LockInv, TargetInv, FreshInv, OnceInv, SessionInv, SessionIsInstalled
<1>3. QED
  BY <1>1, <1>2 DEF IInv

(* Every step keeps IInv.                                                       *)
LEMMA StepInv == IInv /\ [Next]_vars => IInv'
<1> SUFFICES ASSUME IInv, [Next]_vars PROVE IInv'
  OBVIOUS
<1> USE LifecycleAssumption, FreshIsNew DEF IInv, Procs, Threads, Goto, connVars, procVars
<1>1. ASSUME NEW t \in Threads, NEW m \in {"Connect", "Run"}, ConnectBegin(t, m)
      PROVE  IInv'
  <2>1. TypeOK'
    BY <1>1 DEF ConnectBegin, TypeOK, PCs, Calls, Done, Disc
  <2>2. LockInv'
    BY <1>1 DEF ConnectBegin, TypeOK, LockInv, SessionInv, SessionIsInstalled
  <2>3. TargetInv'
    BY <1>1 DEF ConnectBegin, TypeOK, LockInv, TargetInv, FreshInv, OnceInv, SessionInv
  <2>4. FreshInv'
    BY <1>1 DEF ConnectBegin, TypeOK, LockInv, TargetInv, FreshInv, OnceInv, SessionInv
  <2>5. OnceInv'
    BY <1>1 DEF ConnectBegin, TypeOK, LockInv, TargetInv, OnceInv
  <2>6. SessionInv'
    BY <1>1 DEF ConnectBegin, TypeOK, LockInv, TargetInv, FreshInv, OnceInv, SessionInv, SessionIsInstalled
  <2>7. QED
    BY <2>1, <2>2, <2>3, <2>4, <2>5, <2>6
<1>2. ASSUME NEW t \in Threads, ConnectEnd(t)
      PROVE  IInv'
  <2>1. TypeOK'
    BY <1>2 DEF ConnectEnd, TypeOK, PCs, Calls, Done, Disc
  <2>2. LockInv'
    BY <1>2 DEF ConnectEnd, TypeOK, LockInv
  <2>3. TargetInv'
    BY <1>2 DEF ConnectEnd, TypeOK, LockInv, TargetInv, FreshInv, OnceInv, SessionInv
  <2>4. FreshInv'
    BY <1>2 DEF ConnectEnd, TypeOK, LockInv, TargetInv, FreshInv, OnceInv, SessionInv
  <2>5. OnceInv'
    BY <1>2 DEF ConnectEnd, TypeOK, LockInv, TargetInv, OnceInv
  <2>6. SessionInv'
    BY <1>2 DEF ConnectEnd, TypeOK, LockInv, TargetInv, FreshInv, OnceInv, SessionInv, SessionIsInstalled
  <2>7. QED
    BY <2>1, <2>2, <2>3, <2>4, <2>5, <2>6
<1>3. ASSUME NEW t \in Threads, ConnectFail(t)
      PROVE  IInv'
  <2>1. TypeOK'
    BY <1>3 DEF ConnectFail, Return, TypeOK, PCs, Calls, Done, Disc
  <2>2. LockInv'
    BY <1>3 DEF ConnectFail, Return, TypeOK, LockInv
  <2>3. TargetInv'
    BY <1>3 DEF ConnectFail, Return, TypeOK, LockInv, TargetInv, FreshInv, OnceInv, SessionInv
  <2>4. FreshInv'
    BY <1>3 DEF ConnectFail, Return, TypeOK, LockInv, TargetInv, FreshInv, OnceInv, SessionInv
  <2>5. OnceInv'
    BY <1>3 DEF ConnectFail, Return, TypeOK, LockInv, TargetInv, OnceInv
  <2>6. SessionInv'
    BY <1>3 DEF ConnectFail, Return, TypeOK, LockInv, TargetInv, FreshInv, OnceInv, SessionInv, SessionIsInstalled
  <2>7. QED
    BY <2>1, <2>2, <2>3, <2>4, <2>5, <2>6
<1>4. ASSUME NEW t \in Threads, Disconnect(t)
      PROVE  IInv'
  <2>1. TypeOK'
    BY <1>4 DEF Disconnect, TypeOK, PCs, Calls, Done, Disc
  <2>2. LockInv'
    BY <1>4 DEF Disconnect, TypeOK, LockInv
  <2>3. TargetInv'
    BY <1>4 DEF Disconnect, TypeOK, LockInv, TargetInv, FreshInv, OnceInv, SessionInv
  <2>4. FreshInv'
    BY <1>4 DEF Disconnect, TypeOK, LockInv, TargetInv, FreshInv, OnceInv, SessionInv
  <2>5. OnceInv'
    BY <1>4 DEF Disconnect, TypeOK, LockInv, TargetInv, OnceInv
  <2>6. SessionInv'
    BY <1>4 DEF Disconnect, TypeOK, LockInv, TargetInv, FreshInv, OnceInv, SessionInv, SessionIsInstalled
  <2>7. QED
    BY <2>1, <2>2, <2>3, <2>4, <2>5, <2>6
<1>5. ASSUME NEW t \in Threads, RunAdopt(t)
      PROVE  IInv'
  <2>1. TypeOK'
    <3>1. CASE conn = NoConn
      <4>1. Return(t)
        BY <1>5, <3>1 DEF RunAdopt
      <4>2. QED
        BY <1>5, <4>1, ReturnTypes DEF RunAdopt, TypeOK
    <3>2. CASE conn # NoConn
      BY <1>5, <3>2 DEF RunAdopt, TypeOK, PCs, Calls, Done, Disc
    <3>3. QED
      BY <3>1, <3>2
  <2>2. LockInv'
    BY <1>5 DEF RunAdopt, Return, TypeOK, LockInv
  <2>3. TargetInv'
    BY <1>5 DEF RunAdopt, Return, TypeOK, LockInv, TargetInv, FreshInv, OnceInv, SessionInv
  <2>4. FreshInv'
    BY <1>5 DEF RunAdopt, Return, TypeOK, LockInv, TargetInv, FreshInv, OnceInv, SessionInv
  <2>5. OnceInv'
    BY <1>5 DEF RunAdopt, Return, TypeOK, LockInv, TargetInv, OnceInv
  <2>6. SessionInv'
    BY <1>5 DEF RunAdopt, Return, TypeOK, LockInv, TargetInv, FreshInv, OnceInv, SessionInv, SessionIsInstalled
  <2>7. QED
    BY <2>1, <2>2, <2>3, <2>4, <2>5, <2>6
<1>6. ASSUME NEW t \in Threads, RunWake(t)
      PROVE  IInv'
  <2>1. TypeOK'
    BY <1>6 DEF RunWake, TypeOK, PCs, Calls, Done, Disc
  <2>2. LockInv'
    BY <1>6 DEF RunWake, TypeOK, LockInv
  <2>3. TargetInv'
    BY <1>6 DEF RunWake, TypeOK, LockInv, TargetInv, FreshInv, OnceInv, SessionInv
  <2>4. FreshInv'
    BY <1>6 DEF RunWake, TypeOK, LockInv, TargetInv, FreshInv, OnceInv, SessionInv
  <2>5. OnceInv'
    BY <1>6 DEF RunWake, TypeOK, LockInv, TargetInv, OnceInv
  <2>6. SessionInv'
    BY <1>6 DEF RunWake, TypeOK, LockInv, TargetInv, FreshInv, OnceInv, SessionInv, SessionIsInstalled
  <2>7. QED
    BY <2>1, <2>2, <2>3, <2>4, <2>5, <2>6
<1>7. ASSUME NEW p \in Procs, CheckCurrent(p)
      PROVE  IInv'
  <2>1. TypeOK'
    BY <1>7 DEF CheckCurrent, TypeOK, PCs, Calls, Done, Disc
  <2>2. LockInv'
    BY <1>7 DEF CheckCurrent, TypeOK, LockInv
  <2>3. TargetInv'
    BY <1>7 DEF CheckCurrent, TypeOK, LockInv, TargetInv, FreshInv, OnceInv, SessionInv
  <2>4. FreshInv'
    BY <1>7 DEF CheckCurrent, TypeOK, LockInv, TargetInv, FreshInv, OnceInv, SessionInv
  <2>5. OnceInv'
    BY <1>7 DEF CheckCurrent, TypeOK, LockInv, TargetInv, OnceInv
  <2>6. SessionInv'
    BY <1>7 DEF CheckCurrent, TypeOK, LockInv, TargetInv, FreshInv, OnceInv, SessionInv, SessionIsInstalled
  <2>7. QED
    BY <2>1, <2>2, <2>3, <2>4, <2>5, <2>6
<1>8. ASSUME NEW p \in Procs, Teardown(p)
      PROVE  IInv'
  <2>1. TypeOK'
    <3>1. target[p] \in Conns
      BY <1>8 DEF Teardown, TypeOK, TargetInv
    <3>2. CASE current[p]
      BY <1>8, <3>1, <3>2 DEF Teardown, TypeOK, PCs, Calls, Done, Disc
    <3>3. CASE ~current[p]
      <4>1. Return(p)
        BY <1>8, <3>3 DEF Teardown
      <4>2. QED
        BY <1>8, <3>1, <4>1, ReturnTypes DEF Teardown, TypeOK
    <3>4. QED
      BY <3>2, <3>3
  <2>2. LockInv'
    BY <1>8 DEF Teardown, Return, TypeOK, LockInv
  <2>3. TargetInv'
    BY <1>8 DEF Teardown, Return, TypeOK, LockInv, TargetInv, FreshInv, OnceInv, SessionInv
  <2>4. FreshInv'
    BY <1>8 DEF Teardown, Return, TypeOK, LockInv, TargetInv, FreshInv, OnceInv, SessionInv
  <2>5. OnceInv'
    BY <1>8 DEF Teardown, Return, TypeOK, LockInv, TargetInv, OnceInv
  <2>6. SessionInv'
    BY <1>8 DEF Teardown, Return, TypeOK, LockInv, TargetInv, FreshInv, OnceInv, SessionInv, SessionIsInstalled
  <2>7. QED
    BY <2>1, <2>2, <2>3, <2>4, <2>5, <2>6
<1>9. ASSUME NEW p \in Procs, DisconnectBegin(p)
      PROVE  IInv'
  <2>1. TypeOK'
    BY <1>9 DEF DisconnectBegin, TypeOK, PCs, Calls, Done, Disc
  <2>2. LockInv'
    BY <1>9 DEF DisconnectBegin, TypeOK, LockInv
  <2>3. TargetInv'
    BY <1>9 DEF DisconnectBegin, TypeOK, LockInv, TargetInv, FreshInv, OnceInv, SessionInv
  <2>4. FreshInv'
    BY <1>9 DEF DisconnectBegin, TypeOK, LockInv, TargetInv, FreshInv, OnceInv, SessionInv
  <2>5. OnceInv'
    BY <1>9 DEF DisconnectBegin, TypeOK, LockInv, TargetInv, OnceInv
  <2>6. SessionInv'
    BY <1>9 DEF DisconnectBegin, TypeOK, LockInv, TargetInv, FreshInv, OnceInv, SessionInv, SessionIsInstalled
  <2>7. QED
    BY <2>1, <2>2, <2>3, <2>4, <2>5, <2>6
<1>10. ASSUME NEW p \in Procs, DisconnectEnd(p)
      PROVE  IInv'
  <2>1. TypeOK'
    BY <1>10 DEF DisconnectEnd, TypeOK, PCs, Calls, Done, Disc
  <2>2. LockInv'
    BY <1>10 DEF DisconnectEnd, TypeOK, LockInv
  <2>3. TargetInv'
    BY <1>10 DEF DisconnectEnd, TypeOK, LockInv, TargetInv, FreshInv, OnceInv, SessionInv
  <2>4. FreshInv'
    BY <1>10 DEF DisconnectEnd, TypeOK, LockInv, TargetInv, FreshInv, OnceInv, SessionInv
  <2>5. OnceInv'
    BY <1>10 DEF DisconnectEnd, TypeOK, LockInv, TargetInv, OnceInv
  <2>6. SessionInv'
    BY <1>10 DEF DisconnectEnd, TypeOK, LockInv, TargetInv, FreshInv, OnceInv, SessionInv, SessionIsInstalled
  <2>7. QED
    BY <2>1, <2>2, <2>3, <2>4, <2>5, <2>6
<1>11. ASSUME NEW p \in Procs, DisconnectShared(p)
      PROVE  IInv'
  <2>1. TypeOK'
    BY <1>11 DEF DisconnectShared, TypeOK, PCs, Calls, Done, Disc
  <2>2. LockInv'
    BY <1>11 DEF DisconnectShared, TypeOK, LockInv
  <2>3. TargetInv'
    BY <1>11 DEF DisconnectShared, TypeOK, LockInv, TargetInv, FreshInv, OnceInv, SessionInv
  <2>4. FreshInv'
    BY <1>11 DEF DisconnectShared, TypeOK, LockInv, TargetInv, FreshInv, OnceInv, SessionInv
  <2>5. OnceInv'
    BY <1>11 DEF DisconnectShared, TypeOK, LockInv, TargetInv, OnceInv
  <2>6. SessionInv'
    BY <1>11 DEF DisconnectShared, TypeOK, LockInv, TargetInv, FreshInv, OnceInv, SessionInv, SessionIsInstalled
  <2>7. QED
    BY <2>1, <2>2, <2>3, <2>4, <2>5, <2>6
<1>12. ASSUME NEW p \in Procs, ClearConn(p)
      PROVE  IInv'
  <2>1. TypeOK'
    BY <1>12 DEF ClearConn, Return, TypeOK, PCs, Calls, Done, Disc
  <2>2. LockInv'
    BY <1>12 DEF ClearConn, Return, TypeOK, LockInv
  <2>3. TargetInv'
    BY <1>12 DEF ClearConn, Return, TypeOK, LockInv, TargetInv, FreshInv, OnceInv, SessionInv
  <2>4. FreshInv'
    BY <1>12 DEF ClearConn, Return, TypeOK, LockInv, TargetInv, FreshInv, OnceInv, SessionInv
  <2>5. OnceInv'
    BY <1>12 DEF ClearConn, Return, TypeOK, LockInv, TargetInv, OnceInv
  <2>6. SessionInv'
    BY <1>12 DEF ClearConn, Return, TypeOK, LockInv, TargetInv, FreshInv, OnceInv, SessionInv, SessionIsInstalled
  <2>7. QED
    BY <2>1, <2>2, <2>3, <2>4, <2>5, <2>6
<1>13. ASSUME NEW c \in Conns, WatcherWake(c)
      PROVE  IInv'
  <2>1. TypeOK'
    BY <1>13 DEF WatcherWake, TypeOK, PCs, Calls, Done, Disc
  <2>2. LockInv'
    BY <1>13 DEF WatcherWake, TypeOK, LockInv
  <2>3. TargetInv'
    BY <1>13 DEF WatcherWake, TypeOK, LockInv, TargetInv, FreshInv, OnceInv, SessionInv
  <2>4. FreshInv'
    BY <1>13 DEF WatcherWake, TypeOK, LockInv, TargetInv, FreshInv, OnceInv, SessionInv
  <2>5. OnceInv'
    BY <1>13 DEF WatcherWake, TypeOK, LockInv, TargetInv, OnceInv
  <2>6. SessionInv'
    BY <1>13 DEF WatcherWake, TypeOK, LockInv, TargetInv, FreshInv, OnceInv, SessionInv, SessionIsInstalled
  <2>7. QED
    BY <2>1, <2>2, <2>3, <2>4, <2>5, <2>6
<1>14. ASSUME NEW c \in Conns, LoopEnd(c)
      PROVE  IInv'
  <2>1. TypeOK'
    BY <1>14 DEF LoopEnd, TypeOK, PCs, Calls, Done, Disc
  <2>2. LockInv'
    BY <1>14 DEF LoopEnd, TypeOK, LockInv
  <2>3. TargetInv'
    BY <1>14 DEF LoopEnd, TypeOK, LockInv, TargetInv, FreshInv, OnceInv, SessionInv
  <2>4. FreshInv'
    BY <1>14 DEF LoopEnd, TypeOK, LockInv, TargetInv, FreshInv, OnceInv, SessionInv
  <2>5. OnceInv'
    BY <1>14 DEF LoopEnd, TypeOK, LockInv, TargetInv, OnceInv
  <2>6. SessionInv'
    BY <1>14 DEF LoopEnd, TypeOK, LockInv, TargetInv, FreshInv, OnceInv, SessionInv, SessionIsInstalled
  <2>7. QED
    BY <2>1, <2>2, <2>3, <2>4, <2>5, <2>6
<1>15. ASSUME NEW c \in Conns, CallerCancels(c)
      PROVE  IInv'
  <2>1. TypeOK'
    BY <1>15 DEF CallerCancels, TypeOK, PCs, Calls, Done, Disc
  <2>2. LockInv'
    BY <1>15 DEF CallerCancels, TypeOK, LockInv
  <2>3. TargetInv'
    BY <1>15 DEF CallerCancels, TypeOK, LockInv, TargetInv, FreshInv, OnceInv, SessionInv
  <2>4. FreshInv'
    BY <1>15 DEF CallerCancels, TypeOK, LockInv, TargetInv, FreshInv, OnceInv, SessionInv
  <2>5. OnceInv'
    BY <1>15 DEF CallerCancels, TypeOK, LockInv, TargetInv, OnceInv
  <2>6. SessionInv'
    BY <1>15 DEF CallerCancels, TypeOK, LockInv, TargetInv, FreshInv, OnceInv, SessionInv, SessionIsInstalled
  <2>7. QED
    BY <2>1, <2>2, <2>3, <2>4, <2>5, <2>6
<1>16. CASE UNCHANGED vars
  BY <1>16 DEF vars, TypeOK, LockInv, TargetInv, FreshInv, OnceInv, SessionInv, SessionIsInstalled
<1>17. QED
  BY <1>1, <1>2, <1>3, <1>4, <1>5, <1>6, <1>7, <1>8, <1>9, <1>10, <1>11, <1>12, <1>13, <1>14, <1>15, <1>16 DEF Next, ThreadStep, TeardownStep, ConnStep
(* IInv is an invariant of the life cycle.                                      *)
THEOREM Invariance == Spec => []IInv
BY InitInv, StepInv, PTL DEF Spec

(* Every variable keeps its type.                                               *)
THEOREM TypeCorrect == Spec => []TypeOK
<1>1. IInv => TypeOK
  BY DEF IInv
<1>2. QED
  BY <1>1, Invariance, PTL

(* A live session belongs to the installed connection.                          *)
THEOREM SessionInstalled == Spec => []SessionIsInstalled
<1>1. IInv => SessionIsInstalled
  BY DEF IInv, SessionInv
<1>2. QED
  BY <1>1, Invariance, PTL

(* adapter.Disconnect only ever runs for the connection that is installed and   *)
(* whose session is live: a late teardown cannot close a newer session.         *)
THEOREM TeardownIsScoped == Spec => []TeardownHitsOwnSession
<1>1. IInv => TeardownHitsOwnSession
  <2> SUFFICES ASSUME IInv, NEW p \in Procs, pc[p] = "stopping"
               PROVE  session = target[p] /\ conn = target[p]
    BY DEF TeardownHitsOwnSession
  <2>1. target[p] \in Conns /\ disc[target[p]] = "running"
    BY DEF IInv, TypeOK, TargetInv, OnceInv
  <2>2. QED
    BY <2>1 DEF IInv, SessionInv
<1>2. QED
  BY <1>1, Invariance, PTL

(* adapter.Disconnect runs at most once per connection.                         *)
THEOREM DisconnectAtMostOnce == Spec => DisconnectOnce
<1>1. IInv /\ [Next]_vars =>
        [\A c \in Conns : disc'[c] # disc[c] =>
            <<disc[c], disc'[c]>> \in {<<"no", "running">>, <<"running", "over">>}]_disc
  <2> SUFFICES ASSUME IInv, [Next]_vars, NEW c \in Conns, disc'[c] # disc[c]
               PROVE  <<disc[c], disc'[c]>> \in {<<"no", "running">>, <<"running", "over">>}
    OBVIOUS
  <2>1. PICK p \in Procs : DisconnectBegin(p) \/ DisconnectEnd(p)
    BY DEF Next, ThreadStep, TeardownStep, ConnStep, vars, ConnectBegin, ConnectEnd,
           ConnectFail, Disconnect, RunAdopt, RunWake, CheckCurrent, Teardown,
           DisconnectShared, ClearConn, WatcherWake, LoopEnd, CallerCancels, connVars
  <2>2. target[p] \in Conns /\ disc \in [Conns -> Disc]
    BY <2>1 DEF DisconnectBegin, DisconnectEnd, IInv, TypeOK, TargetInv
  <2>3. CASE DisconnectBegin(p)
    BY <2>2, <2>3 DEF DisconnectBegin
  <2>4. CASE DisconnectEnd(p)
    BY <2>2, <2>4 DEF DisconnectEnd, IInv, OnceInv
  <2>5. QED
    BY <2>1, <2>3, <2>4
<1>2. QED
  BY <1>1, Invariance, PTL DEF Spec, DisconnectOnce

(* disconnectConn never returns before its connection is uninstalled and its    *)
(* session is over, whichever of the racing callers returns.                    *)
THEOREM ReturnsSettled == Spec => SettledOnReturn
<1>1. IInv /\ [Next]_vars =>
        [\A p \in Procs : pc[p] \in {"teardown", "clear"} /\ pc'[p] = "idle"
                            => conn' # target[p] /\ session' # target[p]]_vars
  <2> SUFFICES ASSUME IInv, [Next]_vars, NEW p \in Procs,
                      pc[p] \in {"teardown", "clear"}, pc'[p] = "idle"
               PROVE  conn' # target[p] /\ session' # target[p]
    OBVIOUS
  <2> USE LifecycleAssumption DEF IInv
  <2>1. target[p] \in Conns /\ pc \in [Procs -> PCs]
    BY DEF TypeOK, TargetInv
  <2>2. Teardown(p) \/ ClearConn(p)
    BY <2>1 DEF Next, ThreadStep, TeardownStep, ConnStep, vars, procVars, ConnectBegin,
           ConnectEnd, ConnectFail, Disconnect, RunAdopt, RunWake, CheckCurrent, Teardown,
           DisconnectBegin, DisconnectEnd, DisconnectShared, ClearConn, WatcherWake,
           LoopEnd, CallerCancels, Goto, Return, Procs, Threads
  <2>3. CASE Teardown(p)
    <3>1. ~current[p]
      BY <2>1, <2>3 DEF Teardown, Goto, Procs
    <3>2. conn # target[p] /\ disc[target[p]] = "over"
      BY <2>1, <2>3, <3>1 DEF Teardown, TargetInv, Procs
    <3>3. QED
      BY <2>1, <2>3, <3>2 DEF Teardown, SessionInv
  <2>4. CASE ClearConn(p)
    <3>1. disc[target[p]] = "over"
      BY <2>4 DEF ClearConn, OnceInv
    <3>2. QED
      BY <2>1, <2>4, <3>1 DEF ClearConn, SessionInv, Procs
  <2>5. QED
    BY <2>2, <2>3, <2>4
<1>2. QED
  BY <1>1, Invariance, PTL DEF Spec, SettledOnReturn

(* The goroutines inside adapter.Connect, and those inside adapter.Disconnect   *)
(* with the connection they disconnect: the refinement mapping.                 *)
InConnect == {p \in Procs : pc[p] = "connecting"}
InDisconnect == {<<p, target[p]>> : p \in {q \in Procs : pc[q] = "stopping"}}

(* At most one goroutine is inside the adapter, and an adapter.Disconnect in    *)
(* progress is for the live session.                                            *)
LEMMA AdapterIsExclusive ==
    ASSUME IInv
    PROVE  /\ mu = NoProc => InConnect = {}
           /\ mu # NoProc => InConnect = {mu} /\ InDisconnect = {}
           /\ conn = NoConn => InDisconnect = {}
           /\ conn # NoConn /\ disc[conn] # "running" => InDisconnect = {}
           /\ \A p \in Procs : pc[p] = "stopping" => InDisconnect = {<<p, session>>}
<1> USE LifecycleAssumption DEF IInv, Procs, Threads
<1>1. \A p \in Procs : pc[p] = "stopping" =>
        target[p] \in Conns /\ disc[target[p]] = "running" /\ conn = target[p] /\ session = target[p]
  BY DEF TypeOK, TargetInv, OnceInv, SessionInv
<1>2. mu = NoProc => InConnect = {}
  BY DEF LockInv, InConnect
<1>3. mu # NoProc => InConnect = {mu} /\ conn = NoConn
  BY DEF TypeOK, LockInv, InConnect
<1>4. conn = NoConn => InDisconnect = {}
  BY <1>1 DEF InDisconnect
<1>5. conn # NoConn /\ disc[conn] # "running" => InDisconnect = {}
  BY <1>1 DEF InDisconnect
<1>6. \A p \in Procs : pc[p] = "stopping" => InDisconnect = {<<p, session>>}
  BY <1>1 DEF InDisconnect, OnceInv
<1>7. QED
  BY <1>2, <1>3, <1>4, <1>5, <1>6

(* A step maps to a step of AdapterSession or changes nothing it can see.       *)
LEMMA RefinementStep == IInv /\ [Next]_vars => [Session!SessionNext]_(Session!sessionVars)
<1> SUFFICES ASSUME IInv, IInv', [Next]_vars
             PROVE  Session!SessionNext \/ UNCHANGED <<session, InConnect, InDisconnect>>
  BY StepInv DEF Session!sessionVars, InConnect, InDisconnect
<1> USE LifecycleAssumption DEF Procs, Threads, Goto, connVars, procVars
<1>0. /\ pc \in [Procs -> PCs] /\ mu \in Procs \cup {NoProc}
      /\ target \in [Procs -> Conns \cup {NoConn}]
      /\ conn \in Conns \cup {NoConn} /\ disc \in [Conns -> Disc]
  BY DEF IInv, TypeOK
<1>1. ASSUME NEW t \in Threads, NEW m \in {"Connect", "Run"}, ConnectBegin(t, m)
      PROVE  Session!BeginConnect(t)
  <2>1. InConnect = {} /\ InDisconnect = {} /\ session = NoConn
    BY <1>1, AdapterIsExclusive DEF ConnectBegin, IInv, SessionInv, SessionIsInstalled
  <2>2. InConnect' = {t} /\ InDisconnect' = {}
    BY <1>0, <1>1, <2>1 DEF ConnectBegin, InConnect, InDisconnect
  <2>3. QED
    BY <1>1, <2>1, <2>2 DEF ConnectBegin, Session!BeginConnect, Session!Quiet, InConnect, InDisconnect
<1>2. ASSUME NEW t \in Threads, ConnectEnd(t) \/ ConnectFail(t)
      PROVE  Session!EndConnect(t)
  <2>1. mu = t /\ InConnect = {t} /\ InDisconnect = {}
    BY <1>2, AdapterIsExclusive DEF ConnectEnd, ConnectFail, IInv, LockInv
  <2>2. InConnect' = {} /\ InDisconnect' = {}
    BY <1>0, <1>2, <2>1 DEF ConnectEnd, ConnectFail, Return, InConnect, InDisconnect
  <2>3. session' \in Conns \cup {NoConn}
    BY DEF IInv, TypeOK
  <2>4. QED
    BY <2>1, <2>2, <2>3 DEF Session!EndConnect, InConnect, InDisconnect
<1>3. ASSUME NEW p \in Procs, DisconnectBegin(p)
      PROVE  Session!BeginDisconnect(p)
  <2>1. target[p] \in Conns /\ conn = target[p] /\ session = target[p]
    BY <1>3 DEF DisconnectBegin, IInv, TypeOK, TargetInv, SessionInv
  <2>2. InConnect = {} /\ InDisconnect = {}
    BY <1>0, <1>3, <2>1, AdapterIsExclusive DEF DisconnectBegin, IInv, LockInv
  <2>3. InConnect' = {} /\ InDisconnect' = {<<p, session>>}
    BY <1>0, <1>3, <2>1, <2>2 DEF DisconnectBegin, InConnect, InDisconnect
  <2>4. QED
    BY <1>3, <2>1, <2>2, <2>3
       DEF DisconnectBegin, Session!BeginDisconnect, Session!Quiet, InConnect, InDisconnect
<1>4. ASSUME NEW p \in Procs, DisconnectEnd(p)
      PROVE  Session!EndDisconnect(p)
  <2>1. InDisconnect = {<<p, session>>}
    BY <1>4, AdapterIsExclusive DEF DisconnectEnd
  <2>2. InDisconnect' = {} /\ InConnect' = InConnect /\ session' = NoConn
    BY <1>0, <1>4, <2>1 DEF DisconnectEnd, InConnect, InDisconnect
  <2>3. QED
    BY <2>1, <2>2 DEF Session!EndDisconnect, InConnect, InDisconnect
<1>5. ASSUME NEW p \in Procs,
             \/ Disconnect(p) \/ RunAdopt(p) \/ RunWake(p) \/ CheckCurrent(p) \/ Teardown(p)
             \/ DisconnectShared(p) \/ ClearConn(p) \/ WatcherWake(p) \/ LoopEnd(p)
             \/ CallerCancels(p)
      PROVE  UNCHANGED <<session, InConnect, InDisconnect>>
  <2>1. /\ session' = session
        /\ pc' \in [Procs -> PCs]
        /\ \A q \in Procs : pc'[q] = "connecting" <=> pc[q] = "connecting"
        /\ \A q \in Procs : pc'[q] = "stopping" <=> pc[q] = "stopping"
        /\ \A q \in Procs : pc[q] = "stopping" => target'[q] = target[q]
    <3>0. pc' \in [Procs -> PCs]
      BY DEF IInv, TypeOK
    <3>1. CASE Disconnect(p)
      BY <1>0, <3>0, <3>1 DEF Disconnect
    <3>2. CASE RunAdopt(p)
      BY <1>0, <3>0, <3>2 DEF RunAdopt, Return
    <3>3. CASE RunWake(p)
      BY <1>0, <3>0, <3>3 DEF RunWake
    <3>4. CASE CheckCurrent(p)
      BY <1>0, <3>0, <3>4 DEF CheckCurrent
    <3>5. CASE Teardown(p)
      BY <1>0, <3>0, <3>5 DEF Teardown, Return
    <3>6. CASE DisconnectShared(p)
      BY <1>0, <3>0, <3>6 DEF DisconnectShared
    <3>7. CASE ClearConn(p)
      BY <1>0, <3>0, <3>7 DEF ClearConn, Return
    <3>8. CASE WatcherWake(p)
      BY <1>0, <3>0, <3>8 DEF WatcherWake
    <3>9. CASE LoopEnd(p)
      BY <1>0, <3>0, <3>9 DEF LoopEnd
    <3>10. CASE CallerCancels(p)
      BY <1>0, <3>0, <3>10 DEF CallerCancels
    <3>11. QED
      BY <1>5, <3>1, <3>2, <3>3, <3>4, <3>5, <3>6, <3>7, <3>8, <3>9, <3>10
  <2>2. QED
    BY <2>1 DEF InConnect, InDisconnect
<1>6. CASE UNCHANGED vars
  BY <1>6 DEF vars, InConnect, InDisconnect
<1>7. CASE Next
  BY <1>1, <1>2, <1>3, <1>4, <1>5, <1>7
     DEF Next, ThreadStep, TeardownStep, ConnStep, Session!SessionNext
<1>8. QED
  BY <1>6, <1>7

(* The Bot implements AdapterSession: its calls of adapter.Connect and          *)
(* adapter.Disconnect alternate, never overlap, and each Disconnect is made for *)
(* the connection whose session it ends.                                        *)
THEOREM RefinesAdapterSession == Spec => ImplementsAdapterSession
<1>1. Init => Session!SessionInit
  BY DEF Init, Session!SessionInit
<1>2. QED
  BY <1>1, RefinementStep, Invariance, PTL DEF Spec, ImplementsAdapterSession, Session!SessionSpec
=============================================================================
