-------------------------- MODULE MCSessionsProofs --------------------------
(***************************************************************************)
(* Proofs of what MCSessions says of the adapters that hold a session, for *)
(* any number of connections, messages, lines and terminal events.  One    *)
(* adapter runs, so the invariant is the conjunction of the four adapters' *)
(* own, and a step keeps one of them and leaves the other three alone.     *)
(* The invariant of signal, and that its steps keep it, comes from         *)
(* SignalSocketProofs; the other three are here.                           *)
(***************************************************************************)
EXTENDS MCSessions, TLAPS

SignalP == INSTANCE SignalSocketProofs WITH
    conn <- gConn, phase <- gPhase, socket <- gSocket, closed <- gClosed, loop <- gLoop,
    inflight <- gInflight, at <- gAt, of <- gOf, done <- gDone, over <- gOver,
    failed <- gFailed, late <- gLate

-----------------------------------------------------------------------------
(* Signal                                                                     *)

(* A step of Signal is one that SignalSocketProofs is about.                  *)
LEMMA SignalNext == Signal!Next => SignalP!Next
BY DEF Signal!Next, SignalP!Next, Signal!Connect, SignalP!Connect, Signal!Arrive,
       SignalP!Arrive, Signal!Lose, SignalP!Lose, Signal!Disconnect, SignalP!Disconnect,
       Signal!LoopStep, SignalP!LoopStep, Signal!ReadFails, SignalP!ReadFails, Signal!DrainEnd,
       SignalP!DrainEnd, Signal!MarkClosed, SignalP!MarkClosed, Signal!CloseSocket,
       SignalP!CloseSocket, Signal!Dispatch, SignalP!Dispatch, Signal!HandlerReturns,
       SignalP!HandlerReturns, Signal!msgVars, SignalP!msgVars, Signal!stopVars,
       SignalP!stopVars, Signal!Skip, SignalP!Skip, Signal!LoopAwaited, SignalP!LoopAwaited,
       Signal!Read, SignalP!Read

(* Signal begins as SignalSocketProofs says.                                  *)
LEMMA SignalInit ==
    ASSUME Signal!SignalAssumption, Signal!Init
    PROVE  SignalP!IInv
<1>1. SignalP!Init
  BY DEF Signal!Init, SignalP!Init
<1>2. QED
  BY <1>1, SignalP!InitInv DEF Signal!SignalAssumption, SignalP!SignalAssumption

(* Its steps keep the invariant.                                              *)
LEMMA SignalStep ==
    ASSUME Signal!SignalAssumption, SignalP!IInv, [Signal!Next]_(Signal!vars)
    PROVE  SignalP!IInv'
<1>1. SignalP!Next \/ UNCHANGED SignalP!vars
  BY SignalNext DEF Signal!vars, SignalP!vars
<1>2. QED
  BY <1>1, SignalP!StepInv DEF Signal!SignalAssumption, SignalP!SignalAssumption

(* What the invariant says in Signal's own words.                             *)
LEMMA SignalMeans ==
    ASSUME SignalP!IInv
    PROVE  /\ Signal!TypeOK
           /\ Signal!CleanShutdown
           /\ Signal!CountsOwnDispatches
           /\ Signal!DoneMeansLost
<1>1. Signal!TypeOK
  BY DEF SignalP!IInv, SignalP!TypeOK, Signal!TypeOK
<1>2. Signal!CleanShutdown
  BY DEF SignalP!IInv, SignalP!CleanShutdown, Signal!CleanShutdown, SignalP!Held, Signal!Held,
         SignalP!Handling, Signal!Handling
<1>3. Signal!CountsOwnDispatches
  BY DEF SignalP!IInv, SignalP!CountInv, Signal!CountsOwnDispatches, SignalP!Handling,
         Signal!Handling, SignalP!Cardinality, Signal!Cardinality
<1>4. Signal!DoneMeansLost
  BY DEF SignalP!IInv, SignalP!TypeOK, SignalP!SocketInv, Signal!DoneMeansLost
<1>5. QED
  BY <1>1, <1>2, <1>3, <1>4

-----------------------------------------------------------------------------
(* Whatsmeow and discord                                                    *)

(* A connection between its Connect and the end of its Disconnect.              *)
Active(c) == bStep[c] \notin {"new", "over"}

(* One connection at a time is between its Connect and the end of its             *)
(* Disconnect; it has its handlers until Disconnect takes them, and is the one    *)
(* that dialed.                                                                   *)
SessionInv == \A c \in Conns :
    /\ \A d \in Conns : Active(c) /\ Active(d) => c = d
    /\ c \in bRegistered <=> bStep[c] \in {"registered", "up"}
    /\ bStep[c] = "up" => bSession = c /\ bSlot = c
    /\ bSession = c => bStep[c] \in {"up", "stopping"}

(* The store is closed last, and the bot is retired with it.                      *)
StoreInv == /\ bStore = "closed" => bClosed
            /\ bClosed => Callback!AtRest

CallbackInv == Callback!TypeOK /\ SessionInv /\ StoreInv /\ Callback!HandledOnce /\ Callback!OneDone
-----------------------------------------------------------------------------
(* The invariant holds before the first Connect.                                *)
LEMMA CallbackInit ==
    ASSUME Callback!CallbackAssumption, Callback!Init
    PROVE  CallbackInv
<1> USE DEF Callback!CallbackAssumption, Callback!Init, Callback!Unseen
<1>1. Callback!TypeOK
  <2>1. bRunBy \in [Msgs -> [up : BOOLEAN, of : Conns \cup {NoConn}, by : SUBSET Conns]]
    OBVIOUS
  <2>2. bLinked \in BOOLEAN /\ bClosed \in BOOLEAN
    BY Zenon
  <2>3. QED
    BY <2>1, <2>2 DEF Callback!TypeOK
<1>2. SessionInv /\ StoreInv
  BY DEF SessionInv, StoreInv, Active, Callback!AtRest
<1>3. Callback!HandledOnce /\ Callback!OneDone
  BY DEF Callback!HandledOnce, Callback!OneDone
<1>4. QED
  BY <1>1, <1>2, <1>3 DEF CallbackInv

(* Each step keeps it: a failed dial and a Disconnect take their own handlers   *)
(* back, so a delivery finds at most those of the live session.                 *)
LEMMA CallbackStep ==
    ASSUME Callback!CallbackAssumption, CallbackInv, [Callback!Next]_(Callback!vars)
    PROVE  CallbackInv'
<1> USE DEF Callback!CallbackAssumption, CallbackInv, Active, Callback!AtRest, Callback!Goto,
            Callback!Discord, Callback!storeVars, Callback!reportVars
<1>1. ASSUME NEW c \in Conns, Callback!Register(c)
      PROVE  CallbackInv'
  <2> USE <1>1 DEF Callback!Register, Callback!MayConnect
  <2>1. Callback!TypeOK'
    BY DEF Callback!TypeOK
  <2>2. SessionInv' /\ StoreInv'
    BY DEF Callback!TypeOK, SessionInv, StoreInv
  <2>3. Callback!HandledOnce' /\ Callback!OneDone'
    BY DEF Callback!HandledOnce, Callback!OneDone
  <2>4. QED
    BY <2>1, <2>2, <2>3
<1>2. ASSUME NEW c \in Conns, Callback!DialFails(c)
      PROVE  CallbackInv'
  <2> USE <1>2 DEF Callback!DialFails
  <2>1. Callback!TypeOK'
    BY DEF Callback!TypeOK
  <2>2. SessionInv' /\ StoreInv'
    BY DEF Callback!TypeOK, SessionInv, StoreInv
  <2>3. Callback!HandledOnce' /\ Callback!OneDone'
    BY DEF Callback!HandledOnce, Callback!OneDone
  <2>4. QED
    BY <2>1, <2>2, <2>3
<1>3. ASSUME NEW c \in Conns, Callback!Dial(c)
      PROVE  CallbackInv'
  <2> USE <1>3 DEF Callback!Dial
  <2>1. Callback!TypeOK'
    BY DEF Callback!TypeOK
  <2>2. SessionInv' /\ StoreInv'
    BY DEF Callback!TypeOK, SessionInv, StoreInv
  <2>3. Callback!HandledOnce' /\ Callback!OneDone'
    BY DEF Callback!HandledOnce, Callback!OneDone
  <2>4. QED
    BY <2>1, <2>2, <2>3
<1>4. ASSUME NEW c \in Conns, Callback!Terminal(c) \/ Callback!PumpQR(c)
      PROVE  CallbackInv'
  <2>1. UNCHANGED <<bFlavor, bStep, bRegistered, bSlot, bSession, bClosed, bStore, bRunBy>>
    BY <1>4, Zenon DEF Callback!Terminal, Callback!PumpQR, Callback!Paired, Callback!PairingFails,
                       Callback!PumpEnds
  <2>2. bPairing' \subseteq bPairing /\ bLinked' \in BOOLEAN
    BY <1>4, Zenon DEF Callback!TypeOK, Callback!Terminal, Callback!PumpQR, Callback!Paired,
                       Callback!PairingFails, Callback!PumpEnds
  <2>3. \/ UNCHANGED bTerminals
        \/ bTerminals[c] < MaxTerminals /\ bTerminals' = [bTerminals EXCEPT ![c] = @ + 1]
    BY <1>4, Zenon DEF Callback!Terminal, Callback!PumpQR, Callback!Paired, Callback!PairingFails,
                       Callback!PumpEnds
  <2>4. UNCHANGED bReported \/ Callback!Report(c)
    BY <1>4, Zenon DEF Callback!Terminal, Callback!PumpQR, Callback!Paired, Callback!PairingFails,
                       Callback!PumpEnds
  <2>5. Callback!TypeOK'
    BY <2>1, <2>2, <2>3, <2>4 DEF Callback!TypeOK, Callback!Report
  <2>6. Callback!OneDone'
    BY <2>4 DEF Callback!TypeOK, Callback!OneDone, Callback!Report
  <2>7. SessionInv' /\ StoreInv' /\ Callback!HandledOnce'
    BY <2>1 DEF SessionInv, StoreInv, Callback!HandledOnce
  <2>8. QED
    BY <2>5, <2>6, <2>7
<1>5. ASSUME NEW c \in Conns, Callback!RemoveHandler(c)
      PROVE  CallbackInv'
  <2> USE <1>5 DEF Callback!RemoveHandler
  <2>1. Callback!TypeOK'
    BY DEF Callback!TypeOK
  <2>2. SessionInv' /\ StoreInv'
    BY DEF Callback!TypeOK, SessionInv, StoreInv
  <2>3. Callback!HandledOnce' /\ Callback!OneDone'
    BY DEF Callback!HandledOnce, Callback!OneDone
  <2>4. QED
    BY <2>1, <2>2, <2>3
<1>6. ASSUME NEW c \in Conns, Callback!CloseSession(c)
      PROVE  CallbackInv'
  <2> USE <1>6 DEF Callback!CloseSession
  <2>1. Callback!TypeOK'
    BY DEF Callback!TypeOK
  <2>2. SessionInv' /\ StoreInv'
    BY DEF Callback!TypeOK, SessionInv, StoreInv
  <2>3. Callback!HandledOnce' /\ Callback!OneDone'
    BY DEF Callback!HandledOnce, Callback!OneDone
  <2>4. QED
    BY <2>1, <2>2, <2>3
<1>7. ASSUME NEW c \in Conns, Callback!CloseStore(c)
      PROVE  CallbackInv'
  <2> USE <1>7 DEF Callback!CloseStore
  <2>1. Callback!TypeOK'
    BY DEF Callback!TypeOK
  <2>2. SessionInv' /\ StoreInv'
    BY DEF Callback!TypeOK, SessionInv, StoreInv
  <2>3. Callback!HandledOnce' /\ Callback!OneDone'
    BY DEF Callback!HandledOnce, Callback!OneDone
  <2>4. QED
    BY <2>1, <2>2, <2>3
<1>8. ASSUME NEW e \in Msgs, Callback!Deliver(e)
      PROVE  CallbackInv'
  <2> USE <1>8 DEF Callback!Deliver
  <2>1. bSession \in Conns /\ bRegistered \subseteq {bSession}
                          /\ (bStep[bSession] = "up" => bRegistered = {bSession})
    BY DEF Callback!TypeOK, SessionInv
  <2>2. Callback!TypeOK'
    BY DEF Callback!TypeOK
  <2>3. Callback!HandledOnce'
    BY <2>1 DEF Callback!TypeOK, Callback!HandledOnce
  <2>4. SessionInv' /\ StoreInv' /\ Callback!OneDone'
    BY DEF SessionInv, StoreInv, Callback!OneDone
  <2>5. QED
    BY <2>2, <2>3, <2>4
<1>9. CASE UNCHANGED Callback!vars
  BY <1>9 DEF Callback!vars, Callback!TypeOK, SessionInv, StoreInv, Callback!HandledOnce,
              Callback!OneDone
<1>10. QED
  BY <1>1, <1>2, <1>3, <1>4, <1>5, <1>6, <1>7, <1>8, <1>9 DEF Callback!Next, Callback!Disconnect

-----------------------------------------------------------------------------
(* Telegram                                                                 *)

(* No two connections poll with one client: the New-time client serves one, and   *)
(* every other connection its own.                                                *)
ClientInv == /\ ~tConsumed => tClient = NewTime /\ \A c \in Conns : tUses[c] = NoConn
             /\ \A c \in Conns : /\ tUses[c] \in {NoConn, NewTime, c}
                                 /\ tUses[c] = NoConn <=> tLoop[c] = "new"
                                 /\ \A d \in Conns :
                                       tUses[c] = tUses[d] /\ tUses[c] # NoConn => c = d

(* A client nobody polls with yet has fetched nothing.                            *)
UnusedInv == \A k \in Telegram!Clients :
                (\A c \in Conns : tUses[c] # k) => tGot[k] = {} /\ tBuffer[k] = {}

(* What a client has is its connection's own, and is on its way to a handler      *)
(* unless the connection was canceled.                                            *)
OwnInv == /\ tChecked \subseteq tFetched
          /\ \A c \in Conns : tUses[c] # NoConn =>
                /\ \A u \in tBuffer[tUses[c]] : <<u, c>> \in tFetched
                /\ \A u \in tGot[tUses[c]] :
                      /\ <<u, c>> \in tFetched
                      /\ \/ c \in tCtxDone \/ u \in tBuffer[tUses[c]]
                         \/ <<u, c>> \in tDispatched \cup tChecked

TelegramInv == Telegram!TypeOK /\ ClientInv /\ UnusedInv /\ OwnInv /\ Telegram!BufferedUpdatesDie
-----------------------------------------------------------------------------
(* The invariant holds before anything has been polled.                         *)
LEMMA TelegramInit ==
    ASSUME Telegram!TelegramAssumption, Telegram!Init
    PROVE  TelegramInv
BY DEF Telegram!TelegramAssumption, Telegram!Init, TelegramInv, Telegram!TypeOK, ClientInv,
       UnusedInv, OwnInv, Telegram!BufferedUpdatesDie, Telegram!Clients

(* Each step keeps it: a client that a Connect takes is one nobody polled       *)
(* with, so what a loop fetches stays that connection's own.                    *)
LEMMA TelegramStep ==
    ASSUME Telegram!TelegramAssumption, TelegramInv, [Telegram!Next]_(Telegram!vars)
    PROVE  TelegramInv'
<1> USE DEF Telegram!TelegramAssumption, TelegramInv, Telegram!Clients, Telegram!connVars,
            Telegram!updateVars
<1>1. ASSUME NEW c \in Conns, Telegram!Connect(c)
      PROVE  TelegramInv'
  <2> USE <1>1 DEF Telegram!Connect, Telegram!ChooseClient
  <2>1. Telegram!TypeOK'
    BY DEF Telegram!TypeOK
  <2>2. ClientInv'
    BY DEF Telegram!TypeOK, ClientInv
  <2>3. UnusedInv'
    BY DEF Telegram!TypeOK, ClientInv, UnusedInv
  <2>4. OwnInv' /\ Telegram!BufferedUpdatesDie'
    <3>1. tUses'[c] \in Telegram!Clients /\ \A d \in Conns : tUses[d] # tUses'[c]
      BY DEF Telegram!TypeOK, ClientInv
    <3>2. tGot[tUses'[c]] = {} /\ tBuffer[tUses'[c]] = {}
      BY <3>1 DEF UnusedInv
    <3>3. \A d \in Conns \ {c} : tUses'[d] = tUses[d]
      BY DEF Telegram!TypeOK
    <3>4. QED
      BY <3>2, <3>3 DEF Telegram!TypeOK, OwnInv, Telegram!BufferedUpdatesDie
  <2>5. QED
    BY <2>1, <2>2, <2>3, <2>4
<1>2. ASSUME Telegram!Cancel \/ Telegram!Teardown
      PROVE  TelegramInv'
  <2> USE <1>2 DEF Telegram!Cancel, Telegram!Teardown
  <2>1. Telegram!TypeOK'
    BY DEF Telegram!TypeOK
  <2>2. ClientInv' /\ UnusedInv'
    BY DEF ClientInv, UnusedInv
  <2>3. OwnInv' /\ Telegram!BufferedUpdatesDie'
    BY DEF OwnInv, Telegram!BufferedUpdatesDie
  <2>4. QED
    BY <2>1, <2>2, <2>3
<1>3. ASSUME NEW c \in Conns, Telegram!LoopEnds(c)
      PROVE  TelegramInv'
  <2> USE <1>3 DEF Telegram!LoopEnds, Telegram!ProbeSucceeds, Telegram!ProbeFails,
                   Telegram!PollEnds
  <2>1. Telegram!TypeOK'
    BY DEF Telegram!TypeOK
  <2>2. ClientInv' /\ UnusedInv'
    BY DEF Telegram!TypeOK, ClientInv, UnusedInv
  <2>3. OwnInv' /\ Telegram!BufferedUpdatesDie'
    BY DEF OwnInv, Telegram!BufferedUpdatesDie
  <2>4. QED
    BY <2>1, <2>2, <2>3
<1>4. ASSUME NEW u \in Msgs, Telegram!Happen(u)
      PROVE  TelegramInv'
  <2> USE <1>4 DEF Telegram!Happen
  <2>1. Telegram!TypeOK'
    BY DEF Telegram!TypeOK
  <2>2. ClientInv' /\ UnusedInv'
    BY DEF ClientInv, UnusedInv
  <2>3. OwnInv' /\ Telegram!BufferedUpdatesDie'
    BY DEF OwnInv, Telegram!BufferedUpdatesDie
  <2>4. QED
    BY <2>1, <2>2, <2>3
<1>5. ASSUME NEW c \in Conns, NEW u \in Msgs, Telegram!Fetch(c, u)
      PROVE  TelegramInv'
  <2> USE <1>5 DEF Telegram!Fetch
  <2>1. tUses[c] \in Telegram!Clients /\ \A d \in Conns \ {c} : tUses[d] # tUses[c]
    BY DEF Telegram!TypeOK, ClientInv
  <2>2. Telegram!TypeOK'
    BY <2>1 DEF Telegram!TypeOK
  <2>3. ClientInv' /\ UnusedInv'
    BY <2>1 DEF Telegram!TypeOK, ClientInv, UnusedInv
  <2>4. OwnInv' /\ Telegram!BufferedUpdatesDie'
    BY <2>1 DEF Telegram!TypeOK, OwnInv, Telegram!BufferedUpdatesDie
  <2>5. QED
    BY <2>2, <2>3, <2>4
<1>6. ASSUME NEW c \in Conns, NEW u \in Msgs, Telegram!OnUpdate(c, u)
      PROVE  TelegramInv'
  <2> USE <1>6 DEF Telegram!OnUpdate
  <2>1. tUses[c] \in Telegram!Clients /\ \A d \in Conns \ {c} : tUses[d] # tUses[c]
    BY DEF Telegram!TypeOK, ClientInv
  <2>2. Telegram!TypeOK'
    BY <2>1 DEF Telegram!TypeOK
  <2>3. ClientInv' /\ UnusedInv'
    BY <2>1 DEF Telegram!TypeOK, ClientInv, UnusedInv
  <2>4. OwnInv' /\ Telegram!BufferedUpdatesDie'
    BY <2>1 DEF Telegram!TypeOK, OwnInv, Telegram!BufferedUpdatesDie
  <2>5. QED
    BY <2>2, <2>3, <2>4
<1>7. ASSUME NEW c \in Conns, NEW u \in Msgs, Telegram!Dispatch(c, u)
      PROVE  TelegramInv'
  <2> USE <1>7 DEF Telegram!Dispatch
  <2>1. Telegram!TypeOK'
    BY DEF Telegram!TypeOK
  <2>2. ClientInv' /\ UnusedInv'
    BY DEF ClientInv, UnusedInv
  <2>3. OwnInv' /\ Telegram!BufferedUpdatesDie'
    BY DEF OwnInv, Telegram!BufferedUpdatesDie
  <2>4. QED
    BY <2>1, <2>2, <2>3
<1>8. CASE UNCHANGED Telegram!vars
  BY <1>8 DEF Telegram!vars, Telegram!TypeOK, ClientInv, UnusedInv, OwnInv,
              Telegram!BufferedUpdatesDie
<1>9. QED
  BY <1>1, <1>2, <1>3, <1>4, <1>5, <1>6, <1>7, <1>8 DEF Telegram!Next

(* An update that a client has was fetched by the one connection that polls     *)
(* with it, and is still on its way unless that one was canceled.               *)
LEMMA NoneElseLost ==
    ASSUME Telegram!TelegramAssumption, TelegramInv
    PROVE  Telegram!LostOnlyWhenCanceled
<1> SUFFICES ASSUME NEW u \in Msgs, NEW k \in Telegram!Clients, u \in tGot[k]
             PROVE  \E c \in Conns :
                       \/ <<u, c>> \in tDispatched \cup tChecked
                       \/ <<u, c>> \in tFetched /\ (c \in tCtxDone \/ u \in tBuffer[tUses[c]])
  BY DEF Telegram!LostOnlyWhenCanceled
<1>1. PICK c \in Conns : tUses[c] = k
  BY DEF TelegramInv, UnusedInv
<1>2. tUses[c] # NoConn
  BY <1>1 DEF Telegram!TelegramAssumption, Telegram!Clients
<1>3. QED
  BY <1>1, <1>2 DEF TelegramInv, OwnInv

-----------------------------------------------------------------------------
(* The cli                                                                  *)

(* Only the installed connection is not canceled.                                 *)
LiveInv == \A c \in Conns : /\ cScanner[c] = "new" => cLoop[c] = "new"
                            /\ cScanner[c] # "new" /\ c \notin cCtxDone => c = cConn

(* Every line read so far is logged, on its way to the log, or was dropped by a   *)
(* canceled scanner, and a scanner that saw the end has none on its way.          *)
ReadInv == /\ \A l \in 1 .. Lines : cTakenBy[l] # NoConn => l <= cTyped
           /\ \A c \in Conns : /\ cScanner[c] = "new" => \A l \in 1 .. Lines : cTakenBy[l] # c
                               /\ c \in cScanErr => cScanner[c] = "gone"
                               /\ c \in cEof => c \in cScanErr /\ cLoop[c] = "over"
           /\ \A l \in 1 .. Lines : cTakenBy[l] # NoConn =>
                 \/ \E i \in 1 .. Len(cLog) : cLog[i] = l
                 \/ cScanner[cTakenBy[l]] = "holding" /\ cLine[cTakenBy[l]] = l
                 \/ cLoop[cTakenBy[l]] = "received" /\ cHandling[cTakenBy[l]] = l
                 \/ cScanner[cTakenBy[l]] = "gone" /\ cTakenBy[l] \notin cScanErr

(* A line that is held or received was read by its connection, after all that     *)
(* this connection has logged, and a held one after the received one.             *)
OwnLineInv ==
    \A c \in Conns :
       /\ cScanner[c] = "holding" => /\ cLine[c] \in 1 .. cTyped
                                     /\ cTakenBy[cLine[c]] = c
       /\ cLoop[c] = "received" => /\ cHandling[c] \in 1 .. cTyped
                                   /\ cTakenBy[cHandling[c]] = c
       /\ cScanner[c] = "holding" /\ cLoop[c] = "received" => cHandling[c] < cLine[c]
       /\ \A i \in 1 .. Len(cLog) : cTakenBy[cLog[i]] = c =>
             /\ cScanner[c] = "holding" => cLog[i] < cLine[c]
             /\ cLoop[c] = "received" => cLog[i] < cHandling[c]

(* A line of the live connection is later than all that are logged and all that   *)
(* other connections have received.                                               *)
LiveLineInv ==
    /\ \A i \in 1 .. Len(cLog) : cLog[i] <= cTyped /\ cTakenBy[cLog[i]] # NoConn
    /\ \A c \in Conns \ cCtxDone :
          /\ cScanner[c] = "holding" =>
                /\ \A i \in 1 .. Len(cLog) : cLog[i] < cLine[c]
                /\ \A d \in Conns : cLoop[d] = "received" => cHandling[d] < cLine[c]
          /\ cLoop[c] = "received" =>
                /\ \A i \in 1 .. Len(cLog) : cLog[i] < cHandling[c]
                /\ \A d \in Conns \ {c} : cLoop[d] = "received" => cHandling[d] < cHandling[c]

(* A loop whose line came late has no other line, and gets none.                  *)
LateInv == \A i, j \in 1 .. Len(cLog) : i < j /\ cLog[j] < cLog[i] =>
              /\ cTakenBy[cLog[j]] \in cCtxDone
              /\ cLoop[cTakenBy[cLog[j]]] # "received"

CliInv == /\ Cli!TypeOK /\ LiveInv /\ ReadInv
          /\ OwnLineInv /\ LiveLineInv /\ LateInv /\ Cli!LinesInOrder
-----------------------------------------------------------------------------
(* The invariant holds before the first line.                                   *)
LEMMA CliInit ==
    ASSUME Cli!CliAssumption, Cli!Init
    PROVE  CliInv
BY DEF Cli!CliAssumption, Cli!Init, CliInv, Cli!TypeOK, LiveInv, ReadInv, OwnLineInv,
       LiveLineInv, LateInv, Cli!LinesInOrder

(* Each step keeps it: a line that is logged is later than all that were, or its *)
(* connection is canceled and has no other.                                     *)
LEMMA CliStep ==
    ASSUME Cli!CliAssumption, CliInv, [Cli!Next]_(Cli!vars)
    PROVE  CliInv'
<1> USE DEF Cli!CliAssumption, CliInv, Cli!inputVars, Cli!loopVars
<1>0. \A i \in 1 .. Len(cLog) : cLog[i] \in 1 .. Lines
  BY DEF Cli!TypeOK
<1>1. ASSUME NEW c \in Conns, Cli!Connect(c)
      PROVE  CliInv'
  <2> USE <1>1 DEF Cli!Connect
  <2>1. Cli!TypeOK'
    BY DEF Cli!TypeOK
  <2>2. LiveInv'
    BY DEF Cli!TypeOK, LiveInv
  <2>3. ReadInv'
    BY DEF Cli!TypeOK, ReadInv
  <2>4. OwnLineInv'
    BY <1>0 DEF Cli!TypeOK, OwnLineInv
  <2>5. LiveLineInv'
    BY <1>0 DEF Cli!TypeOK, LiveLineInv
  <2>6. LateInv'
    BY <1>0 DEF Cli!TypeOK, LateInv
  <2>7. Cli!LinesInOrder'
    BY <1>0 DEF Cli!TypeOK, Cli!LinesInOrder
  <2>8. QED
    BY <2>1, <2>2, <2>3, <2>4, <2>5, <2>6, <2>7
<1>2. ASSUME Cli!Cancel
      PROVE  CliInv'
  <2> USE <1>2 DEF Cli!Cancel
  <2>1. Cli!TypeOK'
    BY DEF Cli!TypeOK
  <2>2. LiveInv'
    BY DEF Cli!TypeOK, LiveInv
  <2>3. ReadInv'
    BY DEF Cli!TypeOK, ReadInv
  <2>4. OwnLineInv'
    BY <1>0 DEF Cli!TypeOK, OwnLineInv
  <2>5. LiveLineInv'
    BY <1>0 DEF Cli!TypeOK, LiveLineInv
  <2>6. LateInv'
    BY <1>0 DEF Cli!TypeOK, LateInv
  <2>7. Cli!LinesInOrder'
    BY <1>0 DEF Cli!TypeOK, Cli!LinesInOrder
  <2>8. QED
    BY <2>1, <2>2, <2>3, <2>4, <2>5, <2>6, <2>7
<1>3. ASSUME Cli!Teardown
      PROVE  CliInv'
  <2> USE <1>3 DEF Cli!Teardown
  <2>1. Cli!TypeOK'
    BY DEF Cli!TypeOK
  <2>2. LiveInv'
    BY DEF Cli!TypeOK, LiveInv
  <2>3. ReadInv'
    BY DEF Cli!TypeOK, ReadInv
  <2>4. OwnLineInv'
    BY <1>0 DEF Cli!TypeOK, OwnLineInv
  <2>5. LiveLineInv'
    BY <1>0 DEF Cli!TypeOK, LiveLineInv
  <2>6. LateInv'
    BY <1>0 DEF Cli!TypeOK, LateInv
  <2>7. Cli!LinesInOrder'
    BY <1>0 DEF Cli!TypeOK, Cli!LinesInOrder
  <2>8. QED
    BY <2>1, <2>2, <2>3, <2>4, <2>5, <2>6, <2>7
<1>4. ASSUME NEW c \in Conns, Cli!ScanLine(c)
      PROVE  CliInv'
  <2> USE <1>4 DEF Cli!ScanLine
  <2>1. cTyped \in Nat /\ cTyped' \in 1 .. Lines /\ cTyped' = cTyped + 1
    BY DEF Cli!TypeOK
  <2>2. \A l \in 1 .. cTyped : l \in 1 .. Lines /\ cTakenBy'[l] = cTakenBy[l]
    BY <2>1 DEF Cli!TypeOK
  <2>3. cTakenBy'[cTyped'] = c
    BY <2>1 DEF Cli!TypeOK
  <2>4. /\ cLine'[c] = cTyped' /\ \A d \in Conns \ {c} : cLine'[d] = cLine[d]
        /\ cScanner'[c] = "holding" /\ \A d \in Conns \ {c} : cScanner'[d] = cScanner[d]
    BY DEF Cli!TypeOK
  <2>5. \A i \in 1 .. Len(cLog) : cLog[i] \in 1 .. cTyped /\ cTakenBy'[cLog[i]] = cTakenBy[cLog[i]]
    BY <1>0, <2>1, <2>2 DEF LiveLineInv
  <2>6. Cli!TypeOK'
    BY DEF Cli!TypeOK
  <2>7. LiveInv'
    BY DEF Cli!TypeOK, LiveInv
  <2>8. ReadInv'
    BY <2>1, <2>2, <2>3 DEF Cli!TypeOK, ReadInv
  <2>9. OwnLineInv'
    <3>1. SUFFICES ASSUME NEW d \in Conns
                   PROVE  /\ cScanner'[d] = "holding" => /\ cLine'[d] \in 1 .. cTyped'
                                                         /\ cTakenBy'[cLine'[d]] = d
                          /\ cLoop[d] = "received" => /\ cHandling[d] \in 1 .. cTyped'
                                                      /\ cTakenBy'[cHandling[d]] = d
                          /\ cScanner'[d] = "holding" /\ cLoop[d] = "received" =>
                                cHandling[d] < cLine'[d]
                          /\ \A i \in 1 .. Len(cLog) : cTakenBy'[cLog[i]] = d =>
                                /\ cScanner'[d] = "holding" => cLog[i] < cLine'[d]
                                /\ cLoop[d] = "received" => cLog[i] < cHandling[d]
      BY DEF OwnLineInv
    <3>2. /\ cLoop[d] = "received" => /\ cHandling[d] \in 1 .. cTyped
                                      /\ cTakenBy'[cHandling[d]] = d
          /\ \A i \in 1 .. Len(cLog) : cTakenBy'[cLog[i]] = d =>
                (cLoop[d] = "received" => cLog[i] < cHandling[d])
      BY <2>2, <2>5 DEF OwnLineInv
    <3>3. CASE d = c
      BY <3>2, <3>3, <2>1, <2>3, <2>4, <2>5
    <3>4. CASE d # c
      BY <3>2, <3>4, <2>1, <2>2, <2>4, <2>5 DEF OwnLineInv
    <3>5. QED
      BY <3>1, <3>3, <3>4
  <2>10. LiveLineInv'
    <3>1. \A i \in 1 .. Len(cLog) : cLog[i] <= cTyped' /\ cTakenBy'[cLog[i]] # NoConn
      BY <2>1, <2>5 DEF LiveLineInv
    <3>2. ASSUME NEW d \in Conns \ cCtxDone, cScanner'[d] = "holding"
          PROVE  /\ \A i \in 1 .. Len(cLog) : cLog[i] < cLine'[d]
                 /\ \A e \in Conns : cLoop[e] = "received" => cHandling[e] < cLine'[d]
      <4>1. CASE d = c
        BY <4>1, <2>1, <2>4, <2>5 DEF OwnLineInv
      <4>2. CASE d # c
        BY <3>2, <4>2, <2>4 DEF LiveLineInv
      <4>3. QED
        BY <4>1, <4>2
    <3>3. QED
      BY <3>1, <3>2 DEF LiveLineInv
  <2>11. LateInv'
    BY <2>5 DEF LateInv
  <2>12. Cli!LinesInOrder'
    BY <2>5 DEF Cli!LinesInOrder
  <2>13. QED
    BY <2>6, <2>7, <2>8, <2>9, <2>10, <2>11, <2>12
<1>5. ASSUME NEW c \in Conns, Cli!ScanEnds(c)
      PROVE  CliInv'
  <2> USE <1>5 DEF Cli!ScanEnds
  <2>1. Cli!TypeOK'
    BY DEF Cli!TypeOK
  <2>2. LiveInv'
    BY DEF Cli!TypeOK, LiveInv
  <2>3. ReadInv'
    BY DEF Cli!TypeOK, ReadInv
  <2>4. OwnLineInv'
    BY <1>0 DEF Cli!TypeOK, OwnLineInv
  <2>5. LiveLineInv'
    BY <1>0 DEF Cli!TypeOK, LiveLineInv
  <2>6. LateInv'
    BY <1>0 DEF Cli!TypeOK, LateInv
  <2>7. Cli!LinesInOrder'
    BY <1>0 DEF Cli!TypeOK, Cli!LinesInOrder
  <2>8. QED
    BY <2>1, <2>2, <2>3, <2>4, <2>5, <2>6, <2>7
<1>6. ASSUME NEW c \in Conns, Cli!ScannerQuits(c)
      PROVE  CliInv'
  <2> USE <1>6 DEF Cli!ScannerQuits
  <2>1. Cli!TypeOK'
    BY DEF Cli!TypeOK
  <2>2. LiveInv'
    BY DEF Cli!TypeOK, LiveInv
  <2>3. ReadInv'
    BY DEF Cli!TypeOK, ReadInv
  <2>4. OwnLineInv'
    BY <1>0 DEF Cli!TypeOK, OwnLineInv
  <2>5. LiveLineInv'
    BY <1>0 DEF Cli!TypeOK, LiveLineInv
  <2>6. LateInv'
    BY <1>0 DEF Cli!TypeOK, LateInv
  <2>7. Cli!LinesInOrder'
    BY <1>0 DEF Cli!TypeOK, Cli!LinesInOrder
  <2>8. QED
    BY <2>1, <2>2, <2>3, <2>4, <2>5, <2>6, <2>7
<1>7. ASSUME NEW c \in Conns, Cli!HandOver(c)
      PROVE  CliInv'
  <2> USE <1>7 DEF Cli!HandOver
  <2>1. /\ cScanner'[c] = "scanning" /\ \A d \in Conns \ {c} : cScanner'[d] = cScanner[d]
        /\ cLoop'[c] = "received" /\ \A d \in Conns \ {c} : cLoop'[d] = cLoop[d]
        /\ cHandling'[c] = cLine[c] /\ \A d \in Conns \ {c} : cHandling'[d] = cHandling[d]
    BY DEF Cli!TypeOK
  <2>2. /\ \A i \in 1 .. Len(cLog) : cLog[i] < cLine[c]
        /\ \A d \in Conns : cLoop[d] = "received" => cHandling[d] < cLine[c]
    BY DEF LiveLineInv
  <2>3. \A d \in Conns \ {c} : d \notin cCtxDone => cScanner[d] = "new" /\ cLoop[d] = "new"
    BY DEF LiveInv
  <2>4. Cli!TypeOK'
    BY DEF Cli!TypeOK
  <2>5. LiveInv'
    BY DEF Cli!TypeOK, LiveInv
  <2>6. ReadInv'
    BY DEF Cli!TypeOK, ReadInv
  <2>7. OwnLineInv'
    BY <1>0 DEF Cli!TypeOK, OwnLineInv
  <2>8. LiveLineInv'
    BY <2>1, <2>2, <2>3 DEF LiveLineInv
  <2>9. LateInv'
    BY <2>1 DEF LateInv
  <2>10. Cli!LinesInOrder'
    BY <1>0 DEF Cli!TypeOK, Cli!LinesInOrder
  <2>11. QED
    BY <2>4, <2>5, <2>6, <2>7, <2>8, <2>9, <2>10
<1>8. ASSUME NEW c \in Conns, Cli!Dispatch(c)
      PROVE  CliInv'
  <2> USE <1>8 DEF Cli!Dispatch
  <2>1. /\ cHandling[c] \in 1 .. Lines /\ cHandling[c] <= cTyped
        /\ cTakenBy[cHandling[c]] = c
    BY DEF Cli!TypeOK, OwnLineInv
  <2>2. /\ cLog' \in Seq(1 .. Lines)
        /\ Len(cLog') = Len(cLog) + 1
        /\ cLog'[Len(cLog) + 1] = cHandling[c]
        /\ \A i \in 1 .. Len(cLog) : cLog'[i] = cLog[i]
    BY <2>1 DEF Cli!TypeOK
  <2>3. cLoop'[c] = "dispatching" /\ \A d \in Conns \ {c} : cLoop'[d] = cLoop[d]
    BY DEF Cli!TypeOK
  <2>4. \A i \in 1 .. Len(cLog) : cHandling[c] <= cLog[i] =>
           cTakenBy[cLog[i]] # c /\ c \in cCtxDone /\ cLog[i] # cHandling[c]
    BY <1>0, <2>1 DEF Cli!TypeOK, OwnLineInv, LiveLineInv
  <2>5. Cli!TypeOK'
    BY <2>1, <2>2, <2>3 DEF Cli!TypeOK
  <2>6. LiveInv'
    BY <2>1, <2>2, <2>3 DEF Cli!TypeOK, LiveInv
  <2>7. ReadInv'
    BY <2>1, <2>2, <2>3 DEF Cli!TypeOK, ReadInv
  <2>8. OwnLineInv'
    BY <1>0, <2>1, <2>2, <2>3 DEF Cli!TypeOK, OwnLineInv
  <2>9. LiveLineInv'
    BY <1>0, <2>1, <2>2, <2>3 DEF Cli!TypeOK, OwnLineInv, LiveLineInv
  <2>10. LateInv'
    BY <1>0, <2>1, <2>2, <2>3, <2>4 DEF Cli!TypeOK, LateInv
  <2>11. Cli!LinesInOrder'
    <3>0. Len(cLog) \in Nat /\ cTakenBy' = cTakenBy /\ cCtxDone' = cCtxDone
      BY DEF Cli!TypeOK
    <3>1. \A i, j \in 1 .. Len(cLog) : i < j /\ cLog[j] < cLog[i] => cTakenBy[cLog[j]] # c
      BY DEF LateInv
    <3> HIDE <1>8 DEF Cli!Dispatch, CliInv
    <3>2. ASSUME NEW i \in 1 .. Len(cLog'), NEW j \in 1 .. Len(cLog'), i < j
          PROVE  \/ cLog'[i] < cLog'[j]
                 \/ /\ cLog'[j] < cLog'[i]
                    /\ cTakenBy[cLog'[j]] \in cCtxDone
                    /\ cTakenBy[cLog'[i]] # cTakenBy[cLog'[j]]
                    /\ \A k \in 1 .. Len(cLog') : j < k => cTakenBy[cLog'[k]] # cTakenBy[cLog'[j]]
      <4>1. i \in 1 .. Len(cLog) /\ Len(cLog) \in Nat
        BY <3>0, <3>2, <2>2
      <4>2. CASE j = Len(cLog) + 1
        BY <4>1, <4>2, <1>0, <2>1, <2>2, <2>4
      <4>3. CASE j \in 1 .. Len(cLog)
        <5>1. \/ cLog[i] < cLog[j]
              \/ /\ cLog[j] < cLog[i]
                 /\ cTakenBy[cLog[j]] \in cCtxDone
                 /\ cTakenBy[cLog[i]] # cTakenBy[cLog[j]]
                 /\ \A k \in 1 .. Len(cLog) : j < k => cTakenBy[cLog[k]] # cTakenBy[cLog[j]]
          BY <3>2, <4>1, <4>3 DEF CliInv, Cli!LinesInOrder
        <5>2. CASE cLog[i] < cLog[j]
          BY <5>2, <4>1, <4>3, <2>2
        <5>3. CASE cLog[j] < cLog[i]
          <6>1. cTakenBy[cLog[j]] # c
            BY <3>1, <3>2, <4>1, <4>3, <5>3
          <6>2. \A k \in 1 .. Len(cLog') : j < k => cTakenBy[cLog'[k]] # cTakenBy[cLog'[j]]
            <7> SUFFICES ASSUME NEW k \in 1 .. Len(cLog'), j < k
                         PROVE  cTakenBy[cLog'[k]] # cTakenBy[cLog[j]]
              BY <4>3, <2>2
            <7>1. cLog[i] \in Int /\ cLog[j] \in Int
              BY <4>1, <4>3, <1>0
            <7>2. ~(cLog[i] < cLog[j])
              BY <5>3, <7>1
            <7>3. \A m \in 1 .. Len(cLog) : j < m => cTakenBy[cLog[m]] # cTakenBy[cLog[j]]
              BY <5>1, <7>2
            <7>4. CASE k \in 1 .. Len(cLog)
              BY <7>3, <7>4, <2>2
            <7>5. CASE k = Len(cLog) + 1
              BY <6>1, <7>5, <2>1, <2>2
            <7>6. QED
              BY <4>1, <7>4, <7>5, <2>2
          <6>3. QED
            BY <5>1, <5>3, <6>2, <4>1, <4>3, <1>0, <2>2
        <5>4. QED
          BY <5>1, <5>2, <5>3
      <4>4. QED
        BY <4>1, <4>2, <4>3, <2>2
    <3>3. QED
      BY <3>0, <3>2 DEF Cli!LinesInOrder
  <2>12. QED
    BY <2>5, <2>6, <2>7, <2>8, <2>9, <2>10, <2>11
<1>9. ASSUME NEW c \in Conns, Cli!HandlerReturns(c)
      PROVE  CliInv'
  <2> USE <1>9 DEF Cli!HandlerReturns
  <2>1. Cli!TypeOK'
    BY DEF Cli!TypeOK
  <2>2. LiveInv'
    BY DEF Cli!TypeOK, LiveInv
  <2>3. ReadInv'
    BY DEF Cli!TypeOK, ReadInv
  <2>4. OwnLineInv'
    BY <1>0 DEF Cli!TypeOK, OwnLineInv
  <2>5. LiveLineInv'
    BY <1>0 DEF Cli!TypeOK, LiveLineInv
  <2>6. LateInv'
    BY <1>0 DEF Cli!TypeOK, LateInv
  <2>7. Cli!LinesInOrder'
    BY <1>0 DEF Cli!TypeOK, Cli!LinesInOrder
  <2>8. QED
    BY <2>1, <2>2, <2>3, <2>4, <2>5, <2>6, <2>7
<1>10. ASSUME NEW c \in Conns, Cli!LoopEnds(c)
      PROVE  CliInv'
  <2> USE <1>10 DEF Cli!LoopEnds
  <2>1. Cli!TypeOK'
    BY DEF Cli!TypeOK
  <2>2. LiveInv'
    BY DEF Cli!TypeOK, LiveInv
  <2>3. ReadInv'
    BY DEF Cli!TypeOK, ReadInv
  <2>4. OwnLineInv'
    BY <1>0 DEF Cli!TypeOK, OwnLineInv
  <2>5. LiveLineInv'
    BY <1>0 DEF Cli!TypeOK, LiveLineInv
  <2>6. LateInv'
    BY <1>0 DEF Cli!TypeOK, LateInv
  <2>7. Cli!LinesInOrder'
    BY <1>0 DEF Cli!TypeOK, Cli!LinesInOrder
  <2>8. QED
    BY <2>1, <2>2, <2>3, <2>4, <2>5, <2>6, <2>7
<1>11. CASE UNCHANGED Cli!vars
  BY <1>11 DEF Cli!vars, Cli!TypeOK, LiveInv, ReadInv, OwnLineInv, LiveLineInv, LateInv,
               Cli!LinesInOrder
<1>12. QED
  BY <1>1, <1>2, <1>3, <1>4, <1>5, <1>6, <1>7, <1>8, <1>9, <1>10, <1>11
     DEF Cli!Next, Cli!LoopStep

(* A scanner that reports the end of the input holds no line and has dropped    *)
(* none.                                                                        *)
LEMMA EofIsLast ==
    ASSUME Cli!CliAssumption, CliInv
    PROVE  Cli!EofAfterLines
BY DEF Cli!CliAssumption, CliInv, Cli!TypeOK, ReadInv, Cli!EofAfterLines
-----------------------------------------------------------------------------
(* The four together                                                          *)

(* Each adapter keeps its invariant, whichever runs.                          *)
SessionsInv == SignalP!IInv /\ CallbackInv /\ TelegramInv /\ CliInv

(* A step of the whole is a step of each adapter or leaves it alone.          *)
LEMMA StepOfEach ==
    ASSUME [Next]_vars
    PROVE  /\ [Signal!Next]_(Signal!vars)
           /\ [Callback!Next]_(Callback!vars)
           /\ [Telegram!Next]_(Telegram!vars)
           /\ [Cli!Next]_(Cli!vars)
<1> USE DEF Others, vars, gVars, bVars, tVars, cVars
<1>1. [Signal!Next]_(Signal!vars)
  BY Zenon DEF Next, Signal!vars
<1>2. [Callback!Next]_(Callback!vars)
  BY Zenon DEF Next, Callback!vars
<1>3. [Telegram!Next]_(Telegram!vars)
  BY Zenon DEF Next, Telegram!vars
<1>4. [Cli!Next]_(Cli!vars)
  BY Zenon DEF Next, Cli!vars
<1>5. QED
  BY <1>1, <1>2, <1>3, <1>4

(* The invariants hold at first and are kept, so they always hold.            *)
THEOREM SessionsInvariance == FairSpec => []SessionsInv
<1> USE SessionAssumption DEF SessionAssumption
<1>1. Init => SessionsInv
  BY SignalInit, CallbackInit, TelegramInit, CliInit DEF Init, SessionsInv
<1>2. SessionsInv /\ [Next]_vars => SessionsInv'
  BY StepOfEach, SignalStep, CallbackStep, TelegramStep, CliStep DEF SessionsInv
<1>3. QED
  BY <1>1, <1>2, PTL DEF FairSpec

(* Every variable of the four adapters keeps its type.                        *)
THEOREM TypesKept == FairSpec => []SessionTypes
<1>1. SessionsInv => SessionTypes
  BY SignalMeans DEF SessionsInv, SessionTypes, CallbackInv, TelegramInv, CliInv
<1>2. QED
  BY <1>1, SessionsInvariance, PTL

(* A Disconnect of signal that returns nil within its budgets leaves nothing  *)
(* behind and drains its own dispatches only, and no whatsmeow session        *)
(* outlives its device store.                                                 *)
THEOREM CleanShutdowns == FairSpec => []ShutdownIsClean
<1>1. SessionsInv => Callback!StoreOutlivesSession
  BY DEF SessionsInv, CallbackInv, SessionInv, StoreInv, Callback!StoreOutlivesSession,
         Callback!AtRest, Callback!TypeOK
<1>2. SessionsInv => ShutdownIsClean
  BY <1>1, SignalMeans DEF SessionsInv, ShutdownIsClean
<1>3. QED
  BY <1>2, SessionsInvariance, PTL

(* Done is reported for a socket that was lost, and once: for the first       *)
(* terminal event of a session, however many there are.                       *)
THEOREM DoneTruthful == FairSpec => []DoneIsTruthful
<1>1. SessionsInv => DoneIsTruthful
  BY SignalMeans DEF SessionsInv, CallbackInv, DoneIsTruthful
<1>2. QED
  BY <1>1, SessionsInvariance, PTL

(* An event is handled by the connection that received it.  Lines are         *)
(* dispatched in the order they were typed and none is overtaken by the end   *)
(* of the input; only the last line that the loop of a canceled connection    *)
(* received may come after lines of its successors.                           *)
THEOREM HandledOnceInOrder == FairSpec => []HandledInOrder
<1> USE SessionAssumption DEF SessionAssumption
<1>1. SessionsInv => HandledInOrder
  BY EofIsLast DEF SessionsInv, CallbackInv, CliInv, HandledInOrder
<1>2. QED
  BY <1>1, SessionsInvariance, PTL

(* What a canceled poll of telegram had buffered is not dispatched by its     *)
(* successor, and only a cancellation loses an update.                        *)
THEOREM UpdatesKeptAlways == FairSpec => []UpdatesKept
<1> USE SessionAssumption DEF SessionAssumption
<1>1. SessionsInv => UpdatesKept
  BY NoneElseLost DEF SessionsInv, TelegramInv, UpdatesKept
<1>2. QED
  BY <1>1, SessionsInvariance, PTL
=============================================================================
