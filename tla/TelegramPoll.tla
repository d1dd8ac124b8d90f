---------------------------- MODULE TelegramPoll ----------------------------
(***************************************************************************)
(* The telegram adapter's Connect (internal/telegram/telegram.go): a       *)
(* goroutine probes getMe and then runs the library's long-poll loop until *)
(* its context is done.  Disconnect does nothing, so the loop of a         *)
(* connection may still wind down beside its successor's.                  *)
(*                                                                         *)
(* The library is external: a client fetches updates with an offset, which *)
(* confirms to Telegram the ones it fetched before, and its workers hand   *)
(* each to onUpdate on a goroutine of its own.  An update that was never   *)
(* confirmed is fetched again by the next client.                          *)
(***************************************************************************)
EXTENDS Integers, FiniteSets

CONSTANTS Conns,   \* connections; each names the client Connect may build for it
          NoConn,  \* the bot is not connected
          NewTime, \* the client that New builds
          Updates  \* updates users cause

\* What the module takes for granted of its parameters; MCSessions assumes it.
TelegramAssumption == NoConn \notin Conns /\ NewTime \notin Conns /\ NewTime # NoConn

Clients == Conns \cup {NewTime}

VARIABLES conn,       \* the connection core has installed
          ctxDone,    \* connections whose context is done
          client,     \* a.client
          consumed,   \* a.newClientConsumed
          uses,       \* the client each connection polls with
          loop,       \* each goroutine: "new", "probing", "polling", "over"
          pending,    \* updates Telegram holds, not confirmed yet
          got,        \* updates each client has fetched, which its offset is behind
          buffer,     \* fetched updates a client has not handed to onUpdate
          checked,    \* pairs of an update and the connection whose context it passed
          fetched,    \* history: pairs of an update and the connection that fetched it
          dispatched  \* history: pairs of an update and the connection that dispatched it

vars == <<conn, ctxDone, client, consumed, uses, loop, pending, got, buffer, checked,
          fetched, dispatched>>
connVars == <<conn, ctxDone, client, consumed, uses>>
updateVars == <<pending, got, buffer, checked, fetched, dispatched>>

Init == /\ conn = NoConn
        /\ ctxDone = {}
        /\ client = NewTime
        /\ consumed = FALSE
        /\ uses = [c \in Conns |-> NoConn]
        /\ loop = [c \in Conns |-> "new"]
        /\ pending = {}
        /\ got = [k \in Clients |-> {}]
        /\ buffer = [k \in Clients |-> {}]
        /\ checked = {}
        /\ fetched = {}
        /\ dispatched = {}

-----------------------------------------------------------------------------
\* Fault: a reconnect polls with the client of the last connection.
ChooseClientAgain(c) == client

\* The New-time client serves the first Connect, a fresh one every other.
ChooseClient(c) == IF consumed THEN c ELSE client

Connect(c) == /\ conn = NoConn
              /\ loop[c] = "new"
              /\ conn' = c
              /\ client' = ChooseClient(c)
              /\ uses' = [uses EXCEPT ![c] = ChooseClient(c)]
              /\ consumed' = TRUE
              /\ loop' = [loop EXCEPT ![c] = "probing"]
              /\ UNCHANGED <<ctxDone, updateVars>>

\* The caller cancels the context.
Cancel == /\ conn # NoConn
          /\ ctxDone' = ctxDone \cup {conn}
          /\ UNCHANGED <<conn, client, consumed, uses, loop, updateVars>>

\* core's teardown cancels it; the adapter's Disconnect does nothing.
Teardown == /\ conn # NoConn
            /\ ctxDone' = ctxDone \cup {conn}
            /\ conn' = NoConn
            /\ UNCHANGED <<client, consumed, uses, loop, updateVars>>

\* getMe answers.
ProbeSucceeds(c) == /\ loop[c] = "probing"
                    /\ loop' = [loop EXCEPT ![c] = "polling"]
                    /\ UNCHANGED <<connVars, updateVars>>

\* getMe fails, times out or is canceled: Done is reported and no loop started.
ProbeFails(c) == /\ loop[c] = "probing"
                 /\ loop' = [loop EXCEPT ![c] = "over"]
                 /\ UNCHANGED <<connVars, updateVars>>

\* Fault: the loop is not told of the cancellation.
PollEndsNever(c) == /\ loop[c] = "polling"
                    /\ c \in ctxDone
                    /\ UNCHANGED vars

\* The context is done: Start returns and Done is reported.
PollEnds(c) == /\ loop[c] = "polling"
               /\ c \in ctxDone
               /\ loop' = [loop EXCEPT ![c] = "over"]
               /\ UNCHANGED <<connVars, updateVars>>

\* A user causes an update.
Happen(u) == /\ u \notin pending
             /\ \A k \in Clients : u \notin got[k]
             /\ pending' = pending \cup {u}
             /\ UNCHANGED <<connVars, loop, got, buffer, checked, fetched, dispatched>>

\* getUpdates confirms what the client already has and returns another update.
Fetch(c, u) == /\ loop[c] = "polling"
               /\ u \in pending \ got[uses[c]]
               /\ pending' = pending \ got[uses[c]]
               /\ got' = [got EXCEPT ![uses[c]] = @ \cup {u}]
               /\ buffer' = [buffer EXCEPT ![uses[c]] = @ \cup {u}]
               /\ fetched' = fetched \cup {<<u, c>>}
               /\ UNCHANGED <<connVars, loop, checked, dispatched>>

\* A worker calls onUpdate, which drops the update if the context is done.
OnUpdate(c, u) == /\ loop[c] = "polling"
                  /\ u \in buffer[uses[c]]
                  /\ buffer' = [buffer EXCEPT ![uses[c]] = @ \ {u}]
                  /\ checked' = IF c \in ctxDone THEN checked ELSE checked \cup {<<u, c>>}
                  /\ UNCHANGED <<connVars, loop, pending, got, fetched, dispatched>>

\* Dispatch runs the handlers; the context may have ended since the check.
Dispatch(c, u) == /\ <<u, c>> \in checked
                  /\ checked' = checked \ {<<u, c>>}
                  /\ dispatched' = dispatched \cup {<<u, c>>}
                  /\ UNCHANGED <<connVars, loop, pending, got, buffer, fetched>>

-----------------------------------------------------------------------------
\* The steps that nobody has to wait for forever.
LoopEnds(c) == ProbeSucceeds(c) \/ ProbeFails(c) \/ PollEnds(c)

Next == \/ Cancel \/ Teardown
        \/ \E c \in Conns : Connect(c) \/ LoopEnds(c)
        \/ \E u \in Updates : \/ Happen(u)
                              \/ \E c \in Conns : Fetch(c, u) \/ OnUpdate(c, u) \/ Dispatch(c, u)

Spec == Init /\ [][Next]_vars

-----------------------------------------------------------------------------
(* Properties *)

(* Types of every variable. *)
TypeOK == /\ conn \in Conns \cup {NoConn}
          /\ ctxDone \subseteq Conns
          /\ client \in Clients
          /\ consumed \in BOOLEAN
          /\ uses \in [Conns -> Clients \cup {NoConn}]
          /\ loop \in [Conns -> {"new", "probing", "polling", "over"}]
          /\ pending \subseteq Updates
          /\ got \in [Clients -> SUBSET Updates]
          /\ buffer \in [Clients -> SUBSET Updates]
          /\ checked \subseteq Updates \X Conns
          /\ fetched \subseteq Updates \X Conns
          /\ dispatched \subseteq Updates \X Conns

(* telegram.go:145: "a canceled run's buffered updates die with it instead of     *)
(* draining into the successor connection".  A connection dispatches what its own *)
(* loop fetched, though the loop before it may still poll.                        *)
BufferedUpdatesDie == dispatched \subseteq fetched

(* Only a cancellation loses an update: one that Telegram no longer holds is      *)
(* dispatched, on its way in a live client, or was fetched by a canceled loop.    *)
LostOnlyWhenCanceled ==
    \A u \in Updates :
        (\E k \in Clients : u \in got[k]) =>
            \/ u \in pending
            \/ \E c \in Conns : \/ <<u, c>> \in dispatched \cup checked
                                \/ <<u, c>> \in fetched /\ (c \in ctxDone \/ u \in buffer[uses[c]])
=============================================================================
