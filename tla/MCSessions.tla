----------------------------- MODULE MCSessions -----------------------------
(***************************************************************************)
(* The adapters that hold a session of their own: signal's socket, the     *)
(* callback libraries of whatsmeow and discord, telegram's poll and the    *)
(* lines of the cli.  A Bot has one adapter, so one of them runs.          *)
(***************************************************************************)
EXTENDS Integers, FiniteSets, Sequences

CONSTANTS Conns, NoConn, Msgs, MaxTerminals, NewTime, Lines

VARIABLES adapter, \* the one that runs
          gConn, gPhase, gSocket, gClosed, gLoop, gInflight, gAt, gOf, gDone, gOver, gFailed, gLate,
          bFlavor, bStep, bRegistered, bSlot, bSession, bLinked, bClosed, bStore, bPairing,
          bTerminals, bReported, bRunBy,
          tConn, tCtxDone, tClient, tConsumed, tUses, tLoop, tPending, tGot, tBuffer, tChecked,
          tFetched, tDispatched,
          cConn, cCtxDone, cTyped, cScanner, cLine, cTakenBy, cScanErr, cLoop, cHandling, cEof, cLog

Signal == INSTANCE SignalSocket WITH
    conn <- gConn, phase <- gPhase, socket <- gSocket, closed <- gClosed, loop <- gLoop,
    inflight <- gInflight, at <- gAt, of <- gOf, done <- gDone, over <- gOver,
    failed <- gFailed, late <- gLate

Callback == INSTANCE CallbackSession WITH
    Events <- Msgs, flavor <- bFlavor, step <- bStep, registered <- bRegistered, slot <- bSlot,
    session <- bSession, linked <- bLinked, closed <- bClosed, store <- bStore,
    pairing <- bPairing, terminals <- bTerminals, reported <- bReported, runBy <- bRunBy

Telegram == INSTANCE TelegramPoll WITH
    Updates <- Msgs, conn <- tConn, ctxDone <- tCtxDone, client <- tClient,
    consumed <- tConsumed, uses <- tUses, loop <- tLoop, pending <- tPending, got <- tGot,
    buffer <- tBuffer, checked <- tChecked, fetched <- tFetched, dispatched <- tDispatched

Cli == INSTANCE CliLines WITH
    conn <- cConn, ctxDone <- cCtxDone, typed <- cTyped, scanner <- cScanner, line <- cLine,
    takenBy <- cTakenBy, scanErr <- cScanErr, loop <- cLoop, handling <- cHandling,
    eof <- cEof, log <- cLog

ASSUME SessionAssumption == /\ Signal!SignalAssumption
                            /\ Callback!CallbackAssumption
                            /\ Telegram!TelegramAssumption
                            /\ Cli!CliAssumption

gVars == <<gConn, gPhase, gSocket, gClosed, gLoop, gInflight, gAt, gOf, gDone, gOver, gFailed,
           gLate>>
bVars == <<bFlavor, bStep, bRegistered, bSlot, bSession, bLinked, bClosed, bStore, bPairing,
           bTerminals, bReported, bRunBy>>
tVars == <<tConn, tCtxDone, tClient, tConsumed, tUses, tLoop, tPending, tGot, tBuffer, tChecked,
           tFetched, tDispatched>>
cVars == <<cConn, cCtxDone, cTyped, cScanner, cLine, cTakenBy, cScanErr, cLoop, cHandling, cEof,
           cLog>>
vars == <<adapter, gVars, bVars, tVars, cVars>>

Init == /\ adapter \in {"signal", "callback", "telegram", "cli"}
        /\ Signal!Init
        /\ Callback!Init
        /\ Telegram!Init
        /\ Cli!Init

Others(a) == /\ UNCHANGED adapter
             /\ a = "signal" \/ UNCHANGED gVars
             /\ a = "callback" \/ UNCHANGED bVars
             /\ a = "telegram" \/ UNCHANGED tVars
             /\ a = "cli" \/ UNCHANGED cVars

Next == \/ adapter = "signal" /\ Signal!Next /\ Others("signal")
        \/ adapter = "callback" /\ Callback!Next /\ Others("callback")
        \/ adapter = "telegram" /\ Telegram!Next /\ Others("telegram")
        \/ adapter = "cli" /\ Cli!Next /\ Others("cli")

(* Loops run, the telegram probe answers within getMeTimeout and its library       *)
(* returns once canceled, and the cli's handlers return.  Nobody has to send, type *)
(* or disconnect.                                                                  *)
LoopRuns(c) == \/ adapter = "signal" /\ Signal!LoopStep(c) /\ Others("signal")
               \/ adapter = "telegram" /\ Telegram!LoopEnds(c) /\ Others("telegram")
               \/ adapter = "cli" /\ Cli!LoopStep(c) /\ Others("cli")

FairSpec == Init /\ [][Next]_vars /\ \A c \in Conns : WF_vars(LoopRuns(c))

-----------------------------------------------------------------------------
(* The properties of the four, each by the name of what it is about. *)

(* Types of every variable. *)
SessionTypes == Signal!TypeOK /\ Callback!TypeOK /\ Telegram!TypeOK /\ Cli!TypeOK

(* A Disconnect of signal that returns nil within its budgets leaves no loop and  *)
(* no handler behind, and each connection drains its own dispatches               *)
(* (signal.go:537, 429); a whatsmeow session does not outlive its device store.   *)
ShutdownIsClean == /\ Signal!CleanShutdown
                   /\ Signal!CountsOwnDispatches
                   /\ Callback!StoreOutlivesSession

(* Done is sent for what it reports, once: signal's for a socket that was lost,   *)
(* and whatsmeow's for the first terminal event (whatsmeow.go:263).               *)
DoneIsTruthful == Signal!DoneMeansLost /\ Callback!OneDone

(* A message is handled by the connection that received it, once and in order:    *)
(* no handler of an earlier Connect runs beside it, lines keep their order but    *)
(* for the last one a canceled loop received, and the end of the input overtakes  *)
(* none of them.                                                                  *)
HandledInOrder == Callback!HandledOnce /\ Cli!LinesInOrder /\ Cli!EofAfterLines

(* telegram.go:145: a canceled run's updates die with it, and no others do.       *)
UpdatesKept == Telegram!BufferedUpdatesDie /\ Telegram!LostOnlyWhenCanceled

Ended(c) == \/ adapter = "signal" /\ gSocket[c] = "lost"
            \/ adapter = "telegram" /\ c \in tCtxDone
            \/ adapter = "cli" /\ c \in cCtxDone

Reported(c) == \/ adapter = "signal" /\ (c \in gDone \/ c \in gClosed)
               \/ adapter = "telegram" /\ tLoop[c] = "over"
               \/ adapter = "cli" /\ cLoop[c] = "over"

(* The end of a session ends the run.  A socket that is lost is reported unless    *)
(* Disconnect came first; a canceled poll ends with its context; and so does a     *)
(* canceled line loop: "shutdown never waits for the next line" (cli.go:56).       *)
EndsAreReported == \A c \in Conns : Ended(c) ~> Reported(c)
=============================================================================
