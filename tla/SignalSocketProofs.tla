------------------------- MODULE SignalSocketProofs -------------------------
(***************************************************************************)
(* Proofs about SignalSocket, for any number of connections and envelopes. *)
(***************************************************************************)
EXTENDS SignalSocket, FiniteSetTheorems, TLAPS

(* A socket that we closed is marked, and one that exists has its loop.         *)
SocketInv == \A c \in Conns :
    /\ socket[c] = "closed" => c \in closed
    /\ socket[c] = "new" <=> loop[c] = "new"
    /\ c \in done => socket[c] = "lost"

(* A loop holds a message while it says so, and no two.                         *)
HeldInv == \A m \in Msgs :
    /\ at[m] = "new" <=> of[m] = NoConn
    /\ at[m] = "held" => loop[of[m]] = "holding"
    /\ \A n \in Msgs : at[m] = "held" /\ at[n] = "held" /\ of[m] = of[n] => m = n

(* Disconnect runs on an installed connection, which is not over.               *)
PhaseInv == /\ phase # "up" => conn \in closed
            /\ conn # NoConn => socket[conn] # "new" /\ conn \notin over
            /\ phase = "drain" => conn \in late \/ loop[conn] = "gone"
            /\ \A c \in over : socket[c] # "new"

(* The dispatches of a connection, of which there are finitely many, are counted. *)
CountInv == \A c \in Conns : IsFiniteSet(Handling(c)) /\ inflight[c] = Cardinality(Handling(c))

IInv == TypeOK /\ SocketInv /\ HeldInv /\ PhaseInv /\ CountInv /\ CleanShutdown
-----------------------------------------------------------------------------
(* Steps that move no message between the loop and its handlers.                *)
LEMMA CountIdle ==
    ASSUME CountInv, UNCHANGED inflight, \A c \in Conns : Handling(c)' = Handling(c)
    PROVE  CountInv'
BY DEF CountInv

(* With no socket and no message IInv holds.                                    *)
LEMMA InitInv == SignalAssumption /\ Init => IInv
<1> SUFFICES ASSUME SignalAssumption, Init PROVE IInv
  OBVIOUS
<1>1. TypeOK
  BY DEF Init, TypeOK
<1>2. SocketInv /\ HeldInv /\ PhaseInv /\ CleanShutdown
  BY DEF Init, SocketInv, HeldInv, PhaseInv, CleanShutdown
<1>3. CountInv
  <2>1. \A c \in Conns : Handling(c) = {}
    BY DEF Init, Handling
  <2>2. QED
    BY <2>1, FS_EmptySet DEF CountInv, Init
<1>4. QED
  BY <1>1, <1>2, <1>3 DEF IInv
-----------------------------------------------------------------------------
(* The lemmas that follow show, action by action, that each part of IInv is     *)
(* kept.                                                                        *)
LEMMA ConnectInv ==
    ASSUME SignalAssumption, IInv, NEW c \in Conns, Connect(c)
    PROVE  IInv'
<1> USE DEF IInv, SignalAssumption, Connect, stopVars, msgVars
<1>1. TypeOK'
  BY DEF TypeOK, PhaseInv
<1>2. SocketInv'
  BY DEF TypeOK, SocketInv, HeldInv, PhaseInv
<1>3. HeldInv'
  BY DEF TypeOK, SocketInv, HeldInv
<1>4. PhaseInv'
  BY DEF TypeOK, SocketInv, HeldInv, PhaseInv
<1>5. CountInv'
  <2>1. \A d \in Conns : Handling(d)' = Handling(d)
    BY DEF TypeOK, Handling, HeldInv
  <2>2. QED
    BY <2>1, CountIdle
<1>6. CleanShutdown'
  BY DEF TypeOK, SocketInv, HeldInv, PhaseInv, CountInv, CleanShutdown, Held, Handling
<1>7. QED
  BY <1>1, <1>2, <1>3, <1>4, <1>5, <1>6

LEMMA ArriveInv ==
    ASSUME SignalAssumption, IInv, NEW m \in Msgs, NEW c \in Conns, Arrive(m, c)
    PROVE  IInv'
<1> USE DEF IInv, SignalAssumption, Arrive, stopVars, msgVars
<1>1. TypeOK'
  BY DEF TypeOK, PhaseInv
<1>2. SocketInv'
  BY DEF TypeOK, SocketInv, HeldInv, PhaseInv
<1>3. HeldInv'
  BY DEF TypeOK, SocketInv, HeldInv
<1>4. PhaseInv'
  BY DEF TypeOK, SocketInv, HeldInv, PhaseInv
<1>5. CountInv'
  <2>1. \A d \in Conns : Handling(d)' = Handling(d)
    BY DEF TypeOK, Handling, HeldInv
  <2>2. QED
    BY <2>1, CountIdle
<1>6. CleanShutdown'
  BY DEF TypeOK, SocketInv, HeldInv, PhaseInv, CountInv, CleanShutdown, Held, Handling
<1>7. QED
  BY <1>1, <1>2, <1>3, <1>4, <1>5, <1>6

LEMMA LoseInv ==
    ASSUME SignalAssumption, IInv, NEW c \in Conns, Lose(c)
    PROVE  IInv'
<1> USE DEF IInv, SignalAssumption, Lose, stopVars, msgVars
<1>1. TypeOK'
  BY DEF TypeOK, PhaseInv
<1>2. SocketInv'
  BY DEF TypeOK, SocketInv, HeldInv, PhaseInv
<1>3. HeldInv'
  BY DEF TypeOK, SocketInv, HeldInv
<1>4. PhaseInv'
  BY DEF TypeOK, SocketInv, HeldInv, PhaseInv
<1>5. CountInv'
  <2>1. \A d \in Conns : Handling(d)' = Handling(d)
    BY DEF TypeOK, Handling, HeldInv
  <2>2. QED
    BY <2>1, CountIdle
<1>6. CleanShutdown'
  BY DEF TypeOK, SocketInv, HeldInv, PhaseInv, CountInv, CleanShutdown, Held, Handling
<1>7. QED
  BY <1>1, <1>2, <1>3, <1>4, <1>5, <1>6

LEMMA ReadInv ==
    ASSUME SignalAssumption, IInv, NEW m \in Msgs, Read(m)
    PROVE  IInv'
<1> USE DEF IInv, SignalAssumption, Read, stopVars, msgVars
<1>1. TypeOK'
  BY DEF TypeOK, PhaseInv
<1>2. SocketInv'
  BY DEF TypeOK, SocketInv, HeldInv, PhaseInv
<1>3. HeldInv'
  BY DEF TypeOK, SocketInv, HeldInv
<1>4. PhaseInv'
  BY DEF TypeOK, SocketInv, HeldInv, PhaseInv
<1>5. CountInv'
  <2>1. \A d \in Conns : Handling(d)' = Handling(d)
    BY DEF TypeOK, Handling, HeldInv
  <2>2. QED
    BY <2>1, CountIdle
<1>6. CleanShutdown'
  BY DEF TypeOK, SocketInv, HeldInv, PhaseInv, CountInv, CleanShutdown, Held, Handling
<1>7. QED
  BY <1>1, <1>2, <1>3, <1>4, <1>5, <1>6

LEMMA ReadFailsInv ==
    ASSUME SignalAssumption, IInv, NEW c \in Conns, ReadFails(c)
    PROVE  IInv'
<1> USE DEF IInv, SignalAssumption, ReadFails, stopVars, msgVars
<1>1. TypeOK'
  BY DEF TypeOK, PhaseInv
<1>2. SocketInv'
  BY DEF TypeOK, SocketInv, HeldInv, PhaseInv
<1>3. HeldInv'
  BY DEF TypeOK, SocketInv, HeldInv
<1>4. PhaseInv'
  BY DEF TypeOK, SocketInv, HeldInv, PhaseInv
<1>5. CountInv'
  <2>1. \A d \in Conns : Handling(d)' = Handling(d)
    BY DEF TypeOK, Handling, HeldInv
  <2>2. QED
    BY <2>1, CountIdle
<1>6. CleanShutdown'
  BY DEF TypeOK, SocketInv, HeldInv, PhaseInv, CountInv, CleanShutdown, Held, Handling
<1>7. QED
  BY <1>1, <1>2, <1>3, <1>4, <1>5, <1>6

LEMMA SkipInv ==
    ASSUME SignalAssumption, IInv, NEW m \in Msgs, Skip(m)
    PROVE  IInv'
<1> USE DEF IInv, SignalAssumption, Skip, stopVars, msgVars
<1>1. TypeOK'
  BY DEF TypeOK, PhaseInv, HeldInv
<1>2. SocketInv'
  BY DEF TypeOK, SocketInv, HeldInv, PhaseInv
<1>3. HeldInv'
  BY DEF TypeOK, SocketInv, HeldInv
<1>4. PhaseInv'
  BY DEF TypeOK, SocketInv, HeldInv, PhaseInv
<1>5. CountInv'
  <2>1. \A d \in Conns : Handling(d)' = Handling(d)
    BY DEF TypeOK, Handling, HeldInv
  <2>2. QED
    BY <2>1, CountIdle
<1>6. CleanShutdown'
  BY DEF TypeOK, SocketInv, HeldInv, PhaseInv, CountInv, CleanShutdown, Held, Handling
<1>7. QED
  BY <1>1, <1>2, <1>3, <1>4, <1>5, <1>6

LEMMA DispatchInv ==
    ASSUME SignalAssumption, IInv, NEW m \in Msgs, Dispatch(m)
    PROVE  IInv'
<1> USE DEF IInv, SignalAssumption, Dispatch, stopVars, msgVars
<1>1. TypeOK'
  BY DEF TypeOK, PhaseInv, HeldInv
<1>2. SocketInv'
  BY DEF TypeOK, SocketInv, HeldInv, PhaseInv
<1>3. HeldInv'
  BY DEF TypeOK, SocketInv, HeldInv
<1>4. PhaseInv'
  BY DEF TypeOK, SocketInv, HeldInv, PhaseInv
<1>5. CountInv'
  <2>1. m \notin Handling(of[m]) /\ Handling(of[m])' = Handling(of[m]) \cup {m}
    BY DEF TypeOK, Handling
  <2>2. \A d \in Conns \ {of[m]} : Handling(d)' = Handling(d) /\ inflight'[d] = inflight[d]
    BY DEF TypeOK, Handling
  <2>3. /\ of[m] \in Conns
        /\ inflight'[of[m]] = inflight[of[m]] + 1
    BY DEF TypeOK, HeldInv
  <2>4. /\ IsFiniteSet(Handling(of[m]) \cup {m})
        /\ Cardinality(Handling(of[m]) \cup {m}) = Cardinality(Handling(of[m])) + 1
    BY <2>1, <2>3, FS_AddElement DEF CountInv
  <2>5. QED
    BY <2>1, <2>2, <2>3, <2>4 DEF CountInv
<1>6. CleanShutdown'
  BY DEF TypeOK, SocketInv, HeldInv, PhaseInv, CountInv, CleanShutdown, Held, Handling
<1>7. QED
  BY <1>1, <1>2, <1>3, <1>4, <1>5, <1>6

LEMMA HandlerReturnsInv ==
    ASSUME SignalAssumption, IInv, NEW m \in Msgs, HandlerReturns(m)
    PROVE  IInv'
<1> USE DEF IInv, SignalAssumption, HandlerReturns, stopVars, msgVars
<1>1. TypeOK'
  <2>1. of[m] \in Conns /\ m \in Handling(of[m])
    BY DEF TypeOK, HeldInv, Handling
  <2>2. inflight[of[m]] = Cardinality(Handling(of[m])) /\ Cardinality(Handling(of[m])) # 0
    BY <2>1, FS_EmptySet DEF CountInv
  <2>3. inflight[of[m]] - 1 \in Nat
    BY <2>1, <2>2 DEF TypeOK
  <2>4. QED
    BY <2>3 DEF TypeOK
<1>2. SocketInv'
  BY DEF TypeOK, SocketInv, HeldInv, PhaseInv
<1>3. HeldInv'
  BY DEF TypeOK, SocketInv, HeldInv
<1>4. PhaseInv'
  BY DEF TypeOK, SocketInv, HeldInv, PhaseInv
<1>5. CountInv'
  <2>1. m \in Handling(of[m]) /\ Handling(of[m])' = Handling(of[m]) \ {m}
    BY DEF TypeOK, Handling
  <2>2. \A d \in Conns \ {of[m]} : Handling(d)' = Handling(d) /\ inflight'[d] = inflight[d]
    BY DEF TypeOK, Handling
  <2>3. /\ of[m] \in Conns
        /\ inflight'[of[m]] = inflight[of[m]] - 1
    BY DEF TypeOK, HeldInv
  <2>4. /\ IsFiniteSet(Handling(of[m])')
        /\ Cardinality(Handling(of[m])') = Cardinality(Handling(of[m])) - 1
    BY <2>1, <2>3, FS_RemoveElement DEF CountInv
  <2>5. QED
    BY <2>2, <2>3, <2>4 DEF CountInv
<1>6. CleanShutdown'
  BY DEF TypeOK, SocketInv, HeldInv, PhaseInv, CountInv, CleanShutdown, Held, Handling
<1>7. QED
  BY <1>1, <1>2, <1>3, <1>4, <1>5, <1>6

LEMMA MarkClosedInv ==
    ASSUME SignalAssumption, IInv, MarkClosed
    PROVE  IInv'
<1> USE DEF IInv, SignalAssumption, MarkClosed, stopVars, msgVars
<1>1. TypeOK'
  BY DEF TypeOK, PhaseInv
<1>2. SocketInv'
  BY DEF TypeOK, SocketInv, HeldInv, PhaseInv
<1>3. HeldInv'
  BY DEF TypeOK, SocketInv, HeldInv
<1>4. PhaseInv'
  BY DEF TypeOK, SocketInv, HeldInv, PhaseInv
<1>5. CountInv'
  <2>1. \A d \in Conns : Handling(d)' = Handling(d)
    BY DEF TypeOK, Handling, HeldInv
  <2>2. QED
    BY <2>1, CountIdle
<1>6. CleanShutdown'
  BY DEF TypeOK, SocketInv, HeldInv, PhaseInv, CountInv, CleanShutdown, Held, Handling
<1>7. QED
  BY <1>1, <1>2, <1>3, <1>4, <1>5, <1>6

LEMMA CloseSocketInv ==
    ASSUME SignalAssumption, IInv, CloseSocket
    PROVE  IInv'
<1> USE DEF IInv, SignalAssumption, CloseSocket, stopVars, msgVars
<1>1. TypeOK'
  BY DEF TypeOK, PhaseInv
<1>2. SocketInv'
  BY DEF TypeOK, SocketInv, HeldInv, PhaseInv
<1>3. HeldInv'
  BY DEF TypeOK, SocketInv, HeldInv
<1>4. PhaseInv'
  BY DEF TypeOK, SocketInv, HeldInv, PhaseInv
<1>5. CountInv'
  <2>1. \A d \in Conns : Handling(d)' = Handling(d)
    BY DEF TypeOK, Handling, HeldInv
  <2>2. QED
    BY <2>1, CountIdle
<1>6. CleanShutdown'
  BY DEF TypeOK, SocketInv, HeldInv, PhaseInv, CountInv, CleanShutdown, Held, Handling
<1>7. QED
  BY <1>1, <1>2, <1>3, <1>4, <1>5, <1>6

LEMMA LoopAwaitedInv ==
    ASSUME SignalAssumption, IInv, LoopAwaited
    PROVE  IInv'
<1> USE DEF IInv, SignalAssumption, LoopAwaited, stopVars, msgVars
<1>1. TypeOK'
  BY DEF TypeOK, PhaseInv
<1>2. SocketInv'
  BY DEF TypeOK, SocketInv, HeldInv, PhaseInv
<1>3. HeldInv'
  BY DEF TypeOK, SocketInv, HeldInv
<1>4. PhaseInv'
  BY DEF TypeOK, SocketInv, HeldInv, PhaseInv
<1>5. CountInv'
  <2>1. \A d \in Conns : Handling(d)' = Handling(d)
    BY DEF TypeOK, Handling, HeldInv
  <2>2. QED
    BY <2>1, CountIdle
<1>6. CleanShutdown'
  BY DEF TypeOK, SocketInv, HeldInv, PhaseInv, CountInv, CleanShutdown, Held, Handling
<1>7. QED
  BY <1>1, <1>2, <1>3, <1>4, <1>5, <1>6

LEMMA DrainEndInv ==
    ASSUME SignalAssumption, IInv, DrainEnd
    PROVE  IInv'
<1> USE DEF IInv, SignalAssumption, DrainEnd, stopVars, msgVars
<1>1. TypeOK'
  BY DEF TypeOK, PhaseInv
<1>2. SocketInv'
  BY DEF TypeOK, SocketInv, HeldInv, PhaseInv
<1>3. HeldInv'
  BY DEF TypeOK, SocketInv, HeldInv
<1>4. PhaseInv'
  BY DEF TypeOK, SocketInv, HeldInv, PhaseInv
<1>5. CountInv'
  <2>1. \A d \in Conns : Handling(d)' = Handling(d)
    BY DEF TypeOK, Handling, HeldInv
  <2>2. QED
    BY <2>1, CountIdle
<1>6. CleanShutdown'
  <2>1. conn \in Conns /\ (conn \in late \/ loop[conn] = "gone")
    BY DEF TypeOK, PhaseInv
  <2>2. inflight[conn] = 0 => Handling(conn) = {}
    BY <2>1, FS_EmptySet DEF CountInv
  <2>3. loop[conn] = "gone" => Held(conn) = {}
    BY DEF HeldInv, Held
  <2>4. /\ over' = over \cup {conn} /\ late' = late /\ loop' = loop
        /\ \A c \in Conns : Held(c)' = Held(c) /\ Handling(c)' = Handling(c)
        /\ failed \subseteq failed' /\ (inflight[conn] # 0 => conn \in failed')
    BY DEF Held, Handling
  <2>5. over' \subseteq Conns
    BY <2>1, <2>4 DEF TypeOK
  <2>6. QED
    BY <2>1, <2>2, <2>3, <2>4, <2>5 DEF CleanShutdown
<1>7. QED
  BY <1>1, <1>2, <1>3, <1>4, <1>5, <1>6

-----------------------------------------------------------------------------
(* Every step keeps IInv.                                                       *)
LEMMA StepInv ==
    ASSUME SignalAssumption, IInv, [Next]_vars
    PROVE  IInv'
<1>1. ASSUME NEW c \in Conns, Connect(c) \/ Lose(c) \/ ReadFails(c)
      PROVE  IInv'
  BY <1>1, ConnectInv, LoseInv, ReadFailsInv
<1>2. ASSUME NEW m \in Msgs, NEW c \in Conns, Arrive(m, c)
      PROVE  IInv'
  BY <1>2, ArriveInv
<1>3. ASSUME NEW m \in Msgs, Read(m) \/ Skip(m) \/ Dispatch(m) \/ HandlerReturns(m)
      PROVE  IInv'
  BY <1>3, ReadInv, SkipInv, DispatchInv, HandlerReturnsInv
<1>4. CASE Disconnect
  BY <1>4, MarkClosedInv, CloseSocketInv, LoopAwaitedInv, DrainEndInv DEF Disconnect
<1>5. CASE UNCHANGED vars
  <2>1. TypeOK' /\ SocketInv' /\ HeldInv' /\ PhaseInv'
    BY <1>5 DEF IInv, vars, TypeOK, SocketInv, HeldInv, PhaseInv
  <2>2. CountInv' /\ CleanShutdown'
    BY <1>5 DEF IInv, vars, CountInv, CleanShutdown, Held, Handling
  <2>3. QED
    BY <2>1, <2>2 DEF IInv
<1>6. QED
  BY <1>1, <1>2, <1>3, <1>4, <1>5 DEF Next, LoopStep
-----------------------------------------------------------------------------
(* The theorems                                                                *)

(* IInv holds initially and is kept by every step, so it holds always.          *)
THEOREM Invariance ==
    ASSUME SignalAssumption
    PROVE  Spec => []IInv
<1>1. Init => IInv
  BY InitInv
<1>2. IInv /\ [Next]_vars => IInv'
  BY StepInv
<1>3. QED
  BY <1>1, <1>2, PTL DEF Spec

(* Every variable keeps its type.                                               *)
THEOREM TypeCorrect ==
    ASSUME SignalAssumption
    PROVE  Spec => []TypeOK
<1>1. IInv => TypeOK
  BY DEF IInv
<1>2. QED
  BY <1>1, Invariance, PTL

(* A Disconnect that returns nil, and whose loop kept its budget, leaves the    *)
(* loop gone and no message held or handled.                                    *)
THEOREM ShutdownIsClean ==
    ASSUME SignalAssumption
    PROVE  Spec => []CleanShutdown
<1>1. IInv => CleanShutdown
  BY DEF IInv
<1>2. QED
  BY <1>1, Invariance, PTL

(* Each counter is the number of its own connection's dispatches, at any time   *)
(* and through every reconnect.                                                 *)
THEOREM CountsAreOwn ==
    ASSUME SignalAssumption
    PROVE  Spec => []CountsOwnDispatches
<1>1. IInv => CountsOwnDispatches
  BY DEF IInv, CountInv, CountsOwnDispatches
<1>2. QED
  BY <1>1, Invariance, PTL

(* Done is reported only for a socket that was lost: never for a Disconnect,     *)
(* whenever the read loop notices it.                                           *)
THEOREM DoneIsTruthful ==
    ASSUME SignalAssumption
    PROVE  Spec => []DoneMeansLost
<1>1. IInv => DoneMeansLost
  BY DEF IInv, TypeOK, SocketInv, DoneMeansLost
<1>2. QED
  BY <1>1, Invariance, PTL
=============================================================================
