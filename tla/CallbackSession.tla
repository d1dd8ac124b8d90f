--------------------------- MODULE CallbackSession ---------------------------
(***************************************************************************)
(* The two adapters whose library owns the connection and calls back: the  *)
(* whatsmeow flavor of WhatsApp (internal/whatsapp/whatsmeow) and discord  *)
(* (internal/discord).  Connect registers event handlers and dials, and    *)
(* takes the handlers back when the dial fails; Disconnect takes them back *)
(* and closes the session.                                                 *)
(*                                                                         *)
(* whatsmeow links a new device by codes it pumps to a callback, reports   *)
(* the events it cannot recover from, and closes a store it opened itself, *)
(* after which the bot cannot connect again.  discord reports nothing, for *)
(* its library reconnects.  Neither waits for handlers in progress.        *)
(***************************************************************************)
EXTENDS Integers, FiniteSets

CONSTANTS Conns,       \* calls of Connect
          NoConn,      \* no handler or session
          Events,      \* messages the library delivers
          MaxTerminals \* bound on the terminal events of one connection

\* What the module takes for granted of its parameters; MCSessions assumes it.
CallbackAssumption == NoConn \notin Conns /\ MaxTerminals \in Nat

VARIABLES flavor,     \* "discord", or "whatsmeow" with its own or the caller's store
          step,       \* each Connect: "new", "registered", "up", "stopping", "over"
          registered, \* connections whose handlers the library calls
          slot,       \* a.handlerID and a.handlerSet, or a.removeHandler
          session,    \* the connection that dialed the library's live session
          linked,     \* the device store holds an identity
          closed,     \* a.closed: the owned store is closed
          store,      \* the device store can be used
          pairing,    \* connections whose goroutine pumps pairing codes
          terminals,  \* terminal events delivered for each connection
          reported,   \* number of Done each connection sent
          runBy       \* history: the session of each event, whether up, and who ran it

vars == <<flavor, step, registered, slot, session, linked, closed, store, pairing,
          terminals, reported, runBy>>
storeVars == <<closed, store>>
reportVars == <<pairing, terminals, reported>>

Unseen == [up |-> FALSE, of |-> NoConn, by |-> {}]

Init == /\ flavor \in {"discord", "own", "callers"}
        /\ step = [c \in Conns |-> "new"]
        /\ registered = {}
        /\ slot = NoConn
        /\ session = NoConn
        /\ linked \in BOOLEAN
        /\ closed = FALSE
        /\ store = "open"
        /\ pairing = {}
        /\ terminals = [c \in Conns |-> 0]
        /\ reported = [c \in Conns |-> 0]
        /\ runBy = [e \in Events |-> Unseen]

Discord == flavor = "discord"
Goto(c, l) == step' = [step EXCEPT ![c] = l]

\* core lets no two calls into the adapter overlap, and connects only when nothing is.
AtRest == \A c \in Conns : step[c] \in {"new", "over"}

-----------------------------------------------------------------------------
(* Connect *)

\* Fault: the store is not known to be closed.
MayConnectBlindly == TRUE

\* Connect fails at once with ErrClosed when Disconnect closed the owned store.
MayConnect == ~closed

\* The handlers are registered.  whatsmeow notes them at once, discord once dialed.
Register(c) == /\ AtRest
               /\ step[c] = "new"
               /\ MayConnect
               /\ registered' = registered \cup {c}
               /\ slot' = IF Discord THEN slot ELSE c
               /\ Goto(c, "registered")
               /\ UNCHANGED <<flavor, session, linked, storeVars, reportVars, runBy>>

\* Fault: the handlers of a failed dial stay.
DialFailsDirtily(c) == /\ step[c] = "registered"
                       /\ Goto(c, "over")
                       /\ UNCHANGED <<flavor, registered, slot, session, linked, storeVars,
                                      reportVars, runBy>>

\* The pairing channel or the dial fails: Connect takes its handlers back.
DialFails(c) == /\ step[c] = "registered"
                /\ registered' = registered \ {c}
                /\ slot' = IF Discord THEN slot ELSE NoConn
                /\ Goto(c, "over")
                /\ UNCHANGED <<flavor, session, linked, storeVars, reportVars, runBy>>

\* The session is open.  A device never linked is given pairing codes.
Dial(c) == /\ step[c] = "registered"
           /\ session' = c
           /\ slot' = c
           /\ pairing' = IF Discord \/ linked THEN pairing ELSE pairing \cup {c}
           /\ Goto(c, "up")
           /\ UNCHANGED <<flavor, registered, linked, storeVars, terminals, reported, runBy>>

-----------------------------------------------------------------------------
(* The library's callbacks *)

\* The library runs every registered handler on a message.
Deliver(e) == /\ session # NoConn
              /\ runBy[e] = Unseen
              /\ runBy' = [runBy EXCEPT ![e] = [up |-> step[session] = "up", of |-> session,
                                                by |-> registered]]
              /\ UNCHANGED <<flavor, step, registered, slot, session, linked, storeVars, reportVars>>

\* Fault: every terminal outcome is sent.
ReportAlways(c) == reported' = [reported EXCEPT ![c] = @ + 1]

\* reportDone: only the first terminal outcome of a connection is sent.
Report(c) == reported' = [reported EXCEPT ![c] = IF @ = 0 THEN 1 ELSE @]

\* A session that is replaced, banned, refused or outdated ends for good, and one
\* that is logged out loses its identity.
Terminal(c) == /\ ~Discord
               /\ c \in registered
               /\ terminals[c] < MaxTerminals
               /\ terminals' = [terminals EXCEPT ![c] = @ + 1]
               /\ linked' \in {linked, FALSE}
               /\ Report(c)
               /\ UNCHANGED <<flavor, step, registered, slot, session, storeVars, pairing, runBy>>

\* The device is linked and the pump ends.
Paired(c) == /\ c \in pairing
             /\ linked' = TRUE
             /\ pairing' = pairing \ {c}
             /\ UNCHANGED <<flavor, step, registered, slot, session, storeVars, terminals,
                            reported, runBy>>

\* Pairing fails or times out: the pump reports it, beside the event handler.
PairingFails(c) == /\ c \in pairing
                   /\ pairing' = pairing \ {c}
                   /\ Report(c)
                   /\ UNCHANGED <<flavor, step, registered, slot, session, linked, storeVars,
                                  terminals, runBy>>

\* The channel closes and the pump ends without a word.
PumpEnds(c) == /\ c \in pairing
               /\ pairing' = pairing \ {c}
               /\ UNCHANGED <<flavor, step, registered, slot, session, linked, storeVars,
                              terminals, reported, runBy>>

-----------------------------------------------------------------------------
(* Disconnect *)

\* The handlers noted in the slot are removed, once.
RemoveHandler(c) == /\ step[c] = "up"
                    /\ registered' = registered \ {slot}
                    /\ slot' = NoConn
                    /\ Goto(c, "stopping")
                    /\ UNCHANGED <<flavor, session, linked, storeVars, reportVars, runBy>>

\* The session is closed.
CloseSession(c) == /\ step[c] = "stopping"
                   /\ session = c
                   /\ session' = NoConn
                   /\ UNCHANGED <<flavor, step, registered, slot, linked, storeVars, reportVars,
                                  runBy>>

\* An owned store is closed too, and the bot is retired.
CloseStore(c) == /\ step[c] = "stopping"
                 /\ session = NoConn
                 /\ Goto(c, "over")
                 /\ closed' = (closed \/ flavor = "own")
                 /\ store' = IF flavor = "own" THEN "closed" ELSE store
                 /\ UNCHANGED <<flavor, registered, slot, session, linked, reportVars, runBy>>

-----------------------------------------------------------------------------
Disconnect(c) == RemoveHandler(c) \/ CloseSession(c) \/ CloseStore(c)

PumpQR(c) == Paired(c) \/ PairingFails(c) \/ PumpEnds(c)

Next == \/ \E c \in Conns : \/ Register(c) \/ DialFails(c) \/ Dial(c)
                            \/ Terminal(c) \/ PumpQR(c) \/ Disconnect(c)
        \/ \E e \in Events : Deliver(e)

Spec == Init /\ [][Next]_vars

-----------------------------------------------------------------------------
(* Properties *)

(* Types of every variable. *)
TypeOK == /\ flavor \in {"discord", "own", "callers"}
          /\ step \in [Conns -> {"new", "registered", "up", "stopping", "over"}]
          /\ registered \subseteq Conns
          /\ slot \in Conns \cup {NoConn}
          /\ session \in Conns \cup {NoConn}
          /\ linked \in BOOLEAN
          /\ closed \in BOOLEAN
          /\ store \in {"open", "closed"}
          /\ pairing \subseteq Conns
          /\ terminals \in [Conns -> 0 .. MaxTerminals]
          /\ reported \in [Conns -> Nat]
          /\ runBy \in [Events -> [up : BOOLEAN, of : Conns \cup {NoConn}, by : SUBSET Conns]]

(* A message is handled once: by the handlers of the session that delivers it and *)
(* by no leftover of an earlier Connect, failed or disconnected.                  *)
HandledOnce == \A e \in Events : /\ runBy[e].by \subseteq {runBy[e].of}
                                 /\ runBy[e].up => runBy[e].by = {runBy[e].of}

(* whatsmeow.go:263: "a surplus send would block a whatsmeow dispatch goroutine". *)
(* However pairing and session events race, a connection sends one Done.          *)
OneDone == \A c \in Conns : reported[c] <= 1

(* A session is never opened on, nor outlives, the store that holds its keys.     *)
StoreOutlivesSession == session # NoConn => store = "open"
=============================================================================
