------------------------- MODULE WebhookServerProofs -------------------------
(***************************************************************************)
(* Proofs about WebhookServer, for any number of connections and requests, *)
(* any capacities, and both orders of release.                             *)
(***************************************************************************)
EXTENDS WebhookServer, FiniteSetTheorems, TLAPS

(* The holders of a dispatch slot, of a read slot, and of a count.              *)
Holders(c) == {r \in Requests : HoldsSlot(r) /\ semOf[r] = c}
Readers == {r \in Requests : Reads(r)}
Trackers == {r \in Requests : Tracked(r)}

(* Each counter is within its range and the number of its holders.              *)
SlotsExact == /\ slots \in [Conns -> 0 .. MaxDispatch]
              /\ \A c \in Conns : slots[c] = Cardinality(Holders(c))
ReadersExact == readers \in 0 .. MaxReads /\ readers = Cardinality(Readers)
TracksExact == inflight \in Nat /\ inflight = Cardinality(Trackers)

(* Requests may be endless, but only finitely many have come so far.            *)
FiniteInv == IsFiniteSet({r \in Requests : at[r] # "new"})

(* One connection at a time: the adapter holds its server and its semaphore     *)
(* from Connect to the end of Disconnect, and a server that is shut down never  *)
(* serves again.                                                                *)
ConnInv == /\ srv # NoConn => sem = srv /\ server[srv] # "new" /\ srv \notin over
           /\ phase # "up" => srv \in shut
           /\ over \subseteq shut
           /\ \A c \in Conns : server[c] # "new" => sem # NoConn /\ (srv = c \/ c \in over)
           /\ \A c \in shut : server[c] \notin {"new", "serving"}

(* A request belongs to a server that was started, and has chosen a semaphore   *)
(* once it asks for a slot.                                                     *)
RequestInv == \A r \in Requests :
    /\ at[r] # "new" => of[r] \in Conns /\ server[of[r]] # "new"
    /\ at[r] = "new" => semOf[r] = NoConn
    /\ at[r] \in {"acquire", "acked", "handling", "returned"} => semOf[r] \in Conns

(* A Shutdown that did not time out left no HTTP handler of its server, and no  *)
(* more can start.                                                              *)
QuietInv == \A c \in Conns \ late : \A r \in Requests :
               c \in over \/ (c = srv /\ phase = "drain") => ~(Open(r) /\ of[r] = c)

IInv == /\ TypeOK /\ FiniteInv /\ CountersExact
        /\ ConnInv /\ RequestInv /\ QuietInv /\ CleanShutdown /\ SlotsCrossOnlyLate

Labels == {"new", "reading", "rejected", "verifying", "acquire", "shed", "acked", "handling",
           "returned", "handled"}
-----------------------------------------------------------------------------
(* The counters                                                                *)

(* Only finitely many requests hold anything.                                   *)
LEMMA HoldersFinite ==
    ASSUME FiniteInv
    PROVE  /\ IsFiniteSet(Readers) /\ IsFiniteSet(Trackers)
           /\ \A c \in Conns : IsFiniteSet(Holders(c))
<1>1. /\ Readers \subseteq {r \in Requests : at[r] # "new"}
      /\ Trackers \subseteq {r \in Requests : at[r] # "new"}
      /\ \A c \in Conns : Holders(c) \subseteq {r \in Requests : at[r] # "new"}
  BY DEF Readers, Trackers, Holders, Reads, Open, Tracked, HoldsSlot
<1>2. QED
  BY <1>1, FS_Subset DEF FiniteInv

(* A set that gains or loses one element.                                       *)
LEMMA OneMore ==
    ASSUME NEW S, NEW T, NEW r, IsFiniteSet(S), r \notin S, T = S \cup {r}
    PROVE  Cardinality(S) \in Nat /\ Cardinality(T) = Cardinality(S) + 1
BY FS_AddElement, FS_CardinalityType

LEMMA OneLess ==
    ASSUME NEW S, NEW T, NEW r, IsFiniteSet(S), r \in S, T = S \ {r}
    PROVE  /\ Cardinality(S) \in Nat \ {0} /\ Cardinality(T) = Cardinality(S) - 1
           /\ Cardinality(T) \in Nat
<1>1. Cardinality(T) = Cardinality(S) - 1 /\ Cardinality(T) \in Nat /\ Cardinality(S) \in Nat
  BY FS_RemoveElement, FS_CardinalityType
<1>2. QED
  BY <1>1

(* A request that moves: the finitely many stay finitely many.                  *)
LEMMA MoveFinite ==
    ASSUME TypeOK, FiniteInv, NEW r \in Requests, NEW l \in Labels, Goto(r, l)
    PROVE  FiniteInv'
<1>1. {q \in Requests : at'[q] # "new"} \subseteq {q \in Requests : at[q] # "new"} \cup {r}
  BY DEF Goto, TypeOK
<1>2. IsFiniteSet({q \in Requests : at[q] # "new"} \cup {r})
  BY FS_AddElement DEF FiniteInv
<1>3. QED
  BY <1>1, <1>2, FS_Subset DEF FiniteInv

LEMMA ExactCounters ==
    ASSUME TypeOK, CountersExact
    PROVE  SlotsExact /\ ReadersExact /\ TracksExact
BY DEF TypeOK, CountersExact, SlotsExact, ReadersExact, TracksExact, Holders, Readers, Trackers

LEMMA CountersAgain ==
    ASSUME SlotsExact', ReadersExact', TracksExact'
    PROVE  /\ CountersExact'
           /\ slots' \in [Conns -> 0 .. MaxDispatch] /\ readers' \in 0 .. MaxReads /\ inflight' \in Nat
BY DEF CountersExact, SlotsExact, ReadersExact, TracksExact, Holders, Readers, Trackers

(* The read semaphore: a request that leaves it frees its slot if it had one.   *)
LEMMA ReaderLeaves ==
    ASSUME TypeOK, FiniteInv, ReadersExact, UNCHANGED teams,
           NEW r \in Requests, NEW l \in Labels, Goto(r, l), FreesReadSlot(r),
           l \notin {"reading", "acked", "acquire"}, teams \/ l # "verifying"
    PROVE  ReadersExact'
<1>1. Readers' = Readers \ {r}
  BY DEF Readers, Reads, Open, Goto, TypeOK, Labels
<1>2. CASE Reads(r)
  <2>1. r \in Readers /\ readers' = readers - 1
    BY <1>2 DEF Readers, FreesReadSlot
  <2>2. QED
    BY <1>1, <2>1, OneLess, HoldersFinite, WebhookAssumption DEF ReadersExact
<1>3. CASE ~Reads(r)
  <2>1. Readers' = Readers /\ readers' = readers
    BY <1>1, <1>3 DEF Readers, FreesReadSlot
  <2>2. QED
    BY <2>1 DEF ReadersExact
<1>4. QED
  BY <1>2, <1>3

(* One that is admitted takes a slot, which is there.                           *)
LEMMA ReaderEnters ==
    ASSUME TypeOK, FiniteInv, ReadersExact, UNCHANGED teams,
           NEW r \in Requests, at[r] = "new", Goto(r, "reading"),
           readers < MaxReads, readers' = readers + 1
    PROVE  ReadersExact'
<1>1. Readers' = Readers \cup {r} /\ r \notin Readers
  BY DEF Readers, Reads, Open, Goto, TypeOK
<1>2. QED
  BY <1>1, OneMore, HoldersFinite, WebhookAssumption DEF ReadersExact

(* One that moves within the handler, or outside it, changes nothing.           *)
LEMMA ReaderStays ==
    ASSUME TypeOK, ReadersExact, UNCHANGED <<teams, readers>>,
           NEW r \in Requests, NEW l \in Labels, Goto(r, l), Reads(r)' <=> Reads(r)
    PROVE  ReadersExact'
<1>1. \A q \in Requests : Reads(q)' <=> Reads(q)
  BY DEF Reads, Open, Goto, TypeOK
<1>2. Readers' = Readers
  BY <1>1 DEF Readers
<1>3. QED
  BY <1>2 DEF ReadersExact

(* The dispatch semaphore: a slot is taken only where one is left.              *)
LEMMA SlotTaken ==
    ASSUME TypeOK, FiniteInv, SlotsExact, UNCHANGED <<teams, semOf>>,
           NEW r \in Requests, at[r] = "acquire", semOf[r] \in Conns, Goto(r, "acked"),
           slots[semOf[r]] < MaxDispatch, slots' = [slots EXCEPT ![semOf[r]] = @ + 1]
    PROVE  SlotsExact'
<1>1. ASSUME NEW c \in Conns
      PROVE  slots'[c] \in 0 .. MaxDispatch /\ slots'[c] = Cardinality(Holders(c)')
  <2>1. CASE c = semOf[r]
    <3>1. Holders(c)' = Holders(c) \cup {r} /\ r \notin Holders(c)
      BY <2>1 DEF Holders, HoldsSlot, Goto, TypeOK
    <3>2. QED
      BY <2>1, <3>1, OneMore, HoldersFinite, WebhookAssumption DEF SlotsExact
  <2>2. CASE c # semOf[r]
    <3>1. Holders(c)' = Holders(c)
      BY <2>2 DEF Holders, HoldsSlot, Goto, TypeOK
    <3>2. QED
      BY <2>2, <3>1 DEF SlotsExact
  <2>3. QED
    BY <2>1, <2>2
<1>2. QED
  BY <1>1 DEF SlotsExact, Holders

(* It is returned to the semaphore it was taken from.                           *)
LEMMA SlotFreed ==
    ASSUME TypeOK, FiniteInv, SlotsExact, UNCHANGED <<teams, semOf>>,
           NEW r \in Requests, NEW l \in {"returned", "handled"}, semOf[r] \in Conns, Goto(r, l),
           HoldsSlot(r), ~HoldsSlot(r)', FreesSlot(semOf[r])
    PROVE  SlotsExact'
<1>1. ASSUME NEW c \in Conns
      PROVE  slots'[c] \in 0 .. MaxDispatch /\ slots'[c] = Cardinality(Holders(c)')
  <2>1. ASSUME NEW q \in Requests, q # r
        PROVE  HoldsSlot(q)' <=> HoldsSlot(q)
    BY <2>1 DEF HoldsSlot, Goto, TypeOK
  <2>2. CASE c = semOf[r]
    <3>1. Holders(c)' = Holders(c) \ {r} /\ r \in Holders(c)
      BY <2>1, <2>2 DEF Holders
    <3>2. QED
      BY <2>2, <3>1, OneLess, HoldersFinite, WebhookAssumption DEF SlotsExact, FreesSlot
  <2>3. CASE c # semOf[r]
    <3>1. Holders(c)' = Holders(c)
      BY <2>1, <2>3 DEF Holders
    <3>2. QED
      BY <2>3, <3>1 DEF SlotsExact, FreesSlot
  <2>4. QED
    BY <2>2, <2>3
<1>2. QED
  BY <1>1 DEF SlotsExact, Holders, FreesSlot

LEMMA SlotStays ==
    ASSUME TypeOK, SlotsExact, UNCHANGED <<teams, slots>>,
           NEW r \in Requests, NEW l \in Labels, Goto(r, l), HoldsSlot(r)' <=> HoldsSlot(r),
           HoldsSlot(r) => semOf'[r] = semOf[r], \A q \in Requests \ {r} : semOf'[q] = semOf[q]
    PROVE  SlotsExact'
<1>1. \A q \in Requests : HoldsSlot(q)' <=> HoldsSlot(q)
  BY DEF HoldsSlot, Goto, TypeOK
<1>2. \A c \in Conns : Holders(c)' = Holders(c)
  BY <1>1 DEF Holders
<1>3. QED
  BY <1>2 DEF SlotsExact, Holders

(* The drain counter.                                                           *)
LEMMA TrackStarts ==
    ASSUME TypeOK, FiniteInv, TracksExact, UNCHANGED teams,
           NEW r \in Requests, at[r] = "acked", Goto(r, "handling"), inflight' = inflight + 1
    PROVE  TracksExact'
<1>1. Trackers' = Trackers \cup {r} /\ r \notin Trackers
  BY DEF Trackers, Tracked, Goto, TypeOK
<1>2. QED
  BY <1>1, OneMore, HoldersFinite DEF TracksExact

LEMMA TrackEnds ==
    ASSUME TypeOK, FiniteInv, TracksExact, UNCHANGED teams,
           NEW r \in Requests, NEW l \in {"returned", "handled"}, Goto(r, l),
           Tracked(r), ~Tracked(r)', CountsDown
    PROVE  TracksExact'
<1>1. ASSUME NEW q \in Requests, q # r
      PROVE  Tracked(q)' <=> Tracked(q)
  BY <1>1 DEF Tracked, Goto, TypeOK
<1>2. Trackers' = Trackers \ {r} /\ r \in Trackers
  BY <1>1 DEF Trackers
<1>3. QED
  BY <1>2, OneLess, HoldersFinite DEF TracksExact, CountsDown

LEMMA TrackStays ==
    ASSUME TypeOK, TracksExact, UNCHANGED <<teams, inflight>>,
           NEW r \in Requests, NEW l \in Labels, Goto(r, l), Tracked(r)' <=> Tracked(r)
    PROVE  TracksExact'
<1>1. \A q \in Requests : Tracked(q)' <=> Tracked(q)
  BY DEF Tracked, Goto, TypeOK
<1>2. Trackers' = Trackers
  BY <1>1 DEF Trackers
<1>3. QED
  BY <1>2 DEF TracksExact
-----------------------------------------------------------------------------
(* The invariant                                                               *)

LEMMA InitInv == Init => IInv
<1> SUFFICES ASSUME Init PROVE IInv
  OBVIOUS
<1> USE WebhookAssumption DEF Init
<1>1. FiniteInv
  <2>1. {r \in Requests : at[r] # "new"} = {}
    OBVIOUS
  <2>2. QED
    BY <2>1, FS_EmptySet DEF FiniteInv
<1>2. Readers = {} /\ Trackers = {} /\ \A c \in Conns : Holders(c) = {}
  BY DEF Readers, Reads, Open, Trackers, Tracked, Holders, HoldsSlot
<1>3. CountersExact
  BY <1>2, FS_EmptySet DEF CountersExact, Readers, Trackers, Holders
<1>4. TypeOK
  BY DEF TypeOK
<1>5. ConnInv /\ RequestInv /\ QuietInv /\ CleanShutdown /\ SlotsCrossOnlyLate
  BY DEF ConnInv, RequestInv, QuietInv, CleanShutdown, SlotsCrossOnlyLate
<1>6. QED
  BY <1>1, <1>3, <1>4, <1>5 DEF IInv

(* Connect, Serve and Disconnect leave requests and their counters alone.       *)
LEMMA RequestsIdle ==
    ASSUME FiniteInv, CountersExact, UNCHANGED requestVars
    PROVE  FiniteInv' /\ CountersExact'
<1>1. \A r \in Requests : /\ HoldsSlot(r)' <=> HoldsSlot(r)
                          /\ Tracked(r)' <=> Tracked(r)
                          /\ Reads(r)' <=> Reads(r)
  BY DEF requestVars, HoldsSlot, Tracked, Reads, Open
<1>2. QED
  BY <1>1 DEF requestVars, FiniteInv, CountersExact

LEMMA ConnectInv ==
    ASSUME IInv, NEW c \in Conns, Connect(c)
    PROVE  IInv'
<1> USE WebhookAssumption DEF IInv, Connect
<1>1. FiniteInv' /\ CountersExact'
  BY RequestsIdle
<1>2. TypeOK'
  BY DEF TypeOK, requestVars, ConnInv
<1>3. ConnInv'
  BY DEF TypeOK, requestVars, ConnInv, Bound
<1>4. RequestInv'
  BY DEF TypeOK, requestVars, ConnInv, RequestInv
<1>5. QuietInv'
  BY DEF TypeOK, requestVars, ConnInv, RequestInv, QuietInv, Open, Stragglers
<1>6. CleanShutdown'
  BY DEF TypeOK, requestVars, ConnInv, RequestInv, QuietInv, CleanShutdown, Open, Tracked
<1>7. SlotsCrossOnlyLate'
  BY DEF requestVars, SlotsCrossOnlyLate
<1>8. QED
  BY <1>1, <1>2, <1>3, <1>4, <1>5, <1>6, <1>7

LEMMA ServeInv ==
    ASSUME IInv, NEW c \in Conns, Serve(c)
    PROVE  IInv'
<1> USE WebhookAssumption DEF IInv, Serve
<1>1. FiniteInv' /\ CountersExact'
  BY RequestsIdle
<1>2. TypeOK'
  BY DEF TypeOK, requestVars, ConnInv
<1>3. ConnInv'
  BY DEF TypeOK, requestVars, ConnInv, Bound
<1>4. RequestInv'
  BY DEF TypeOK, requestVars, ConnInv, RequestInv
<1>5. QuietInv'
  BY DEF TypeOK, requestVars, ConnInv, RequestInv, QuietInv, Open, Stragglers
<1>6. CleanShutdown'
  BY DEF TypeOK, requestVars, ConnInv, RequestInv, QuietInv, CleanShutdown, Open, Tracked
<1>7. SlotsCrossOnlyLate'
  BY DEF requestVars, SlotsCrossOnlyLate
<1>8. QED
  BY <1>1, <1>2, <1>3, <1>4, <1>5, <1>6, <1>7

LEMMA ResolveFailsInv ==
    ASSUME IInv, NEW c \in Conns, ResolveFails(c)
    PROVE  IInv'
<1> USE WebhookAssumption DEF IInv, ResolveFails
<1>1. FiniteInv' /\ CountersExact'
  BY RequestsIdle
<1>2. TypeOK'
  BY DEF TypeOK, requestVars, ConnInv
<1>3. ConnInv'
  BY DEF TypeOK, requestVars, ConnInv, Bound
<1>4. RequestInv'
  BY DEF TypeOK, requestVars, ConnInv, RequestInv
<1>5. QuietInv'
  BY DEF TypeOK, requestVars, ConnInv, RequestInv, QuietInv, Open, Stragglers
<1>6. CleanShutdown'
  BY DEF TypeOK, requestVars, ConnInv, RequestInv, QuietInv, CleanShutdown, Open, Tracked
<1>7. SlotsCrossOnlyLate'
  BY DEF requestVars, SlotsCrossOnlyLate
<1>8. QED
  BY <1>1, <1>2, <1>3, <1>4, <1>5, <1>6, <1>7

LEMMA ServeFailsInv ==
    ASSUME IInv, NEW c \in Conns, ServeFails(c)
    PROVE  IInv'
<1> USE WebhookAssumption DEF IInv, ServeFails
<1>1. FiniteInv' /\ CountersExact'
  BY RequestsIdle
<1>2. TypeOK'
  BY DEF TypeOK, requestVars, ConnInv
<1>3. ConnInv'
  BY DEF TypeOK, requestVars, ConnInv, Bound
<1>4. RequestInv'
  BY DEF TypeOK, requestVars, ConnInv, RequestInv
<1>5. QuietInv'
  BY DEF TypeOK, requestVars, ConnInv, RequestInv, QuietInv, Open, Stragglers
<1>6. CleanShutdown'
  BY DEF TypeOK, requestVars, ConnInv, RequestInv, QuietInv, CleanShutdown, Open, Tracked
<1>7. SlotsCrossOnlyLate'
  BY DEF requestVars, SlotsCrossOnlyLate
<1>8. QED
  BY <1>1, <1>2, <1>3, <1>4, <1>5, <1>6, <1>7

LEMMA ShutdownBeginInv ==
    ASSUME IInv, ShutdownBegin
    PROVE  IInv'
<1> USE WebhookAssumption DEF IInv, ShutdownBegin
<1>1. FiniteInv' /\ CountersExact'
  BY RequestsIdle
<1>2. TypeOK'
  BY DEF TypeOK, requestVars, ConnInv
<1>3. ConnInv'
  BY DEF TypeOK, requestVars, ConnInv, Bound
<1>4. RequestInv'
  BY DEF TypeOK, requestVars, ConnInv, RequestInv
<1>5. QuietInv'
  BY DEF TypeOK, requestVars, ConnInv, RequestInv, QuietInv, Open, Stragglers
<1>6. CleanShutdown'
  BY DEF TypeOK, requestVars, ConnInv, RequestInv, QuietInv, CleanShutdown, Open, Tracked
<1>7. SlotsCrossOnlyLate'
  BY DEF requestVars, SlotsCrossOnlyLate
<1>8. QED
  BY <1>1, <1>2, <1>3, <1>4, <1>5, <1>6, <1>7

LEMMA ShutdownEndInv ==
    ASSUME IInv, ShutdownEnd
    PROVE  IInv'
<1> USE WebhookAssumption DEF IInv, ShutdownEnd
<1>1. FiniteInv' /\ CountersExact'
  BY RequestsIdle
<1>2. TypeOK'
  BY DEF TypeOK, requestVars, ConnInv
<1>3. ConnInv'
  BY DEF TypeOK, requestVars, ConnInv, Bound
<1>4. RequestInv'
  BY DEF TypeOK, requestVars, ConnInv, RequestInv
<1>5. QuietInv'
  BY DEF TypeOK, requestVars, ConnInv, RequestInv, QuietInv, Open, Stragglers
<1>6. CleanShutdown'
  BY DEF TypeOK, requestVars, ConnInv, RequestInv, QuietInv, CleanShutdown, Open, Tracked
<1>7. SlotsCrossOnlyLate'
  BY DEF requestVars, SlotsCrossOnlyLate
<1>8. QED
  BY <1>1, <1>2, <1>3, <1>4, <1>5, <1>6, <1>7

(* A counter of zero means that no dispatch is under way, on any connection.    *)
LEMMA NothingTracked ==
    ASSUME FiniteInv, CountersExact, inflight = 0
    PROVE  \A r \in Requests : ~Tracked(r)
<1>1. Cardinality(Trackers) = 0 /\ IsFiniteSet(Trackers)
  BY HoldersFinite DEF CountersExact, Trackers
<1>2. Trackers = {}
  BY <1>1, FS_EmptySet
<1>3. QED
  BY <1>2 DEF Trackers

LEMMA DrainEndInv ==
    ASSUME IInv, DrainEnd
    PROVE  IInv'
<1> USE WebhookAssumption DEF IInv, DrainEnd
<1>1. FiniteInv' /\ CountersExact'
  BY RequestsIdle
<1>2. TypeOK'
  BY DEF TypeOK, requestVars, ConnInv
<1>3. ConnInv'
  BY DEF TypeOK, requestVars, ConnInv, Bound
<1>4. RequestInv'
  BY DEF TypeOK, requestVars, ConnInv, RequestInv
<1>5. QuietInv'
  BY DEF TypeOK, requestVars, ConnInv, RequestInv, QuietInv, Open, Stragglers
<1>6. CleanShutdown'
  <2>1. \A r \in Requests : (Open(r)' <=> Open(r)) /\ (Tracked(r)' <=> Tracked(r))
    BY DEF requestVars, Open, Tracked
  <2>2. CASE inflight = 0
    <3>1. \A r \in Requests : ~Tracked(r)
      BY <2>2, NothingTracked
    <3>2. srv \in Conns /\ over \subseteq Conns /\ late' = late
      BY DEF TypeOK, ConnInv
    <3>3. \A c \in over' \ late' : \A r \in Requests : of[r] = c => ~Open(r)
      BY <3>2 DEF QuietInv
    <3>4. QED
      BY <2>1, <3>1, <3>3 DEF requestVars, CleanShutdown
  <2>3. CASE inflight # 0
    <3>1. over' \ (late' \cup timedOut') \subseteq over \ (late \cup timedOut)
      BY <2>3
    <3>2. QED
      BY <2>1, <3>1 DEF requestVars, CleanShutdown
  <2>4. QED
    BY <2>2, <2>3
<1>7. SlotsCrossOnlyLate'
  BY DEF requestVars, SlotsCrossOnlyLate
<1>8. QED
  BY <1>1, <1>2, <1>3, <1>4, <1>5, <1>6, <1>7

LEMMA RejectInv ==
    ASSUME IInv, NEW r \in Requests, Reject(r)
    PROVE  IInv'
<1> USE WebhookAssumption, ExactCounters DEF IInv, Reject
<1>1. FiniteInv'
  BY MoveFinite DEF Labels
<1>2. SlotsExact' /\ ReadersExact' /\ TracksExact'
  <2>1. SlotsExact'
    BY SlotStays DEF HoldsSlot, Goto, TypeOK, Labels, connVars
  <2>2. ReadersExact'
    BY ReaderLeaves DEF Labels, connVars
  <2>3. TracksExact'
    BY TrackStays DEF Tracked, Goto, TypeOK, Labels, connVars
  <2>4. QED
    BY <2>1, <2>2, <2>3
<1>3. CountersExact' /\ TypeOK'
  BY <1>2, CountersAgain DEF TypeOK, connVars, Goto
<1>4. ConnInv'
  BY DEF ConnInv, connVars
<1>5. RequestInv'
  BY DEF TypeOK, ConnInv, RequestInv, connVars, Goto
<1>6. QuietInv'
  BY DEF TypeOK, ConnInv, QuietInv, connVars, Goto, Open
<1>7. CleanShutdown'
  BY DEF TypeOK, ConnInv, CleanShutdown, connVars, Goto, Open, Tracked
<1>8. SlotsCrossOnlyLate'
  BY DEF TypeOK, ConnInv, RequestInv, QuietInv, SlotsCrossOnlyLate, connVars, Goto, Open
<1>9. QED
  BY <1>1, <1>3, <1>4, <1>5, <1>6, <1>7, <1>8

LEMMA ParseInv ==
    ASSUME IInv, NEW r \in Requests, Parse(r)
    PROVE  IInv'
<1> USE WebhookAssumption, ExactCounters DEF IInv, Parse
<1>1. FiniteInv'
  BY MoveFinite DEF Labels
<1>2. SlotsExact' /\ ReadersExact' /\ TracksExact'
  <2>1. SlotsExact'
    BY SlotStays DEF HoldsSlot, Goto, TypeOK, Labels, connVars
  <2>2. ReadersExact'
    BY ReaderLeaves DEF Labels, connVars
  <2>3. TracksExact'
    BY TrackStays DEF Tracked, Goto, TypeOK, Labels, connVars
  <2>4. QED
    BY <2>1, <2>2, <2>3
<1>3. CountersExact' /\ TypeOK'
  BY <1>2, CountersAgain DEF TypeOK, connVars, Goto
<1>4. ConnInv'
  BY DEF ConnInv, connVars
<1>5. RequestInv'
  BY DEF TypeOK, ConnInv, RequestInv, connVars, Goto
<1>6. QuietInv'
  BY DEF TypeOK, ConnInv, QuietInv, connVars, Goto, Open
<1>7. CleanShutdown'
  BY DEF TypeOK, ConnInv, CleanShutdown, connVars, Goto, Open, Tracked
<1>8. SlotsCrossOnlyLate'
  BY DEF TypeOK, ConnInv, RequestInv, QuietInv, SlotsCrossOnlyLate, connVars, Goto, Open
<1>9. QED
  BY <1>1, <1>3, <1>4, <1>5, <1>6, <1>7, <1>8

LEMMA VerifyInv ==
    ASSUME IInv, NEW r \in Requests, Verify(r)
    PROVE  IInv'
<1> USE WebhookAssumption, ExactCounters DEF IInv, Verify
<1>1. FiniteInv'
  BY MoveFinite DEF Labels
<1>2. SlotsExact' /\ ReadersExact' /\ TracksExact'
  <2>1. SlotsExact'
    BY SlotStays DEF HoldsSlot, Goto, TypeOK, Labels, connVars
  <2>2. ReadersExact'
    BY ReaderStays DEF Reads, Open, Goto, TypeOK, Labels, connVars
  <2>3. TracksExact'
    BY TrackStays DEF Tracked, Goto, TypeOK, Labels, connVars
  <2>4. QED
    BY <2>1, <2>2, <2>3
<1>3. CountersExact' /\ TypeOK'
  BY <1>2, CountersAgain DEF TypeOK, connVars, Goto
<1>4. ConnInv'
  BY DEF ConnInv, connVars
<1>5. RequestInv'
  BY DEF TypeOK, ConnInv, RequestInv, connVars, Goto
<1>6. QuietInv'
  BY DEF TypeOK, ConnInv, QuietInv, connVars, Goto, Open
<1>7. CleanShutdown'
  BY DEF TypeOK, ConnInv, CleanShutdown, connVars, Goto, Open, Tracked
<1>8. SlotsCrossOnlyLate'
  BY DEF TypeOK, ConnInv, RequestInv, QuietInv, SlotsCrossOnlyLate, connVars, Goto, Open
<1>9. QED
  BY <1>1, <1>3, <1>4, <1>5, <1>6, <1>7, <1>8

LEMMA AckInv ==
    ASSUME IInv, NEW r \in Requests, Ack(r)
    PROVE  IInv'
<1> USE WebhookAssumption, ExactCounters DEF IInv, Ack
<1>1. FiniteInv'
  BY MoveFinite DEF Labels
<1>2. SlotsExact' /\ ReadersExact' /\ TracksExact'
  <2>1. SlotsExact'
    BY SlotTaken DEF RequestInv, connVars
  <2>2. ReadersExact'
    BY ReaderStays DEF Reads, Open, Goto, TypeOK, Labels, connVars
  <2>3. TracksExact'
    BY TrackStays DEF Tracked, Goto, TypeOK, Labels, connVars
  <2>4. QED
    BY <2>1, <2>2, <2>3
<1>3. CountersExact' /\ TypeOK'
  BY <1>2, CountersAgain DEF TypeOK, connVars, Goto
<1>4. ConnInv'
  BY DEF ConnInv, connVars
<1>5. RequestInv'
  BY DEF TypeOK, ConnInv, RequestInv, connVars, Goto
<1>6. QuietInv'
  BY DEF TypeOK, ConnInv, QuietInv, connVars, Goto, Open
<1>7. CleanShutdown'
  BY DEF TypeOK, ConnInv, CleanShutdown, connVars, Goto, Open, Tracked
<1>8. SlotsCrossOnlyLate'
  BY DEF TypeOK, ConnInv, RequestInv, QuietInv, SlotsCrossOnlyLate, connVars, Goto, Open
<1>9. QED
  BY <1>1, <1>3, <1>4, <1>5, <1>6, <1>7, <1>8

LEMMA ShedInv ==
    ASSUME IInv, NEW r \in Requests, Shed(r)
    PROVE  IInv'
<1> USE WebhookAssumption, ExactCounters DEF IInv, Shed
<1>1. FiniteInv'
  BY MoveFinite DEF Labels
<1>2. SlotsExact' /\ ReadersExact' /\ TracksExact'
  <2>1. SlotsExact'
    BY SlotStays DEF HoldsSlot, Goto, TypeOK, Labels, connVars
  <2>2. ReadersExact'
    BY ReaderLeaves DEF Labels, connVars
  <2>3. TracksExact'
    BY TrackStays DEF Tracked, Goto, TypeOK, Labels, connVars
  <2>4. QED
    BY <2>1, <2>2, <2>3
<1>3. CountersExact' /\ TypeOK'
  BY <1>2, CountersAgain DEF TypeOK, connVars, Goto
<1>4. ConnInv'
  BY DEF ConnInv, connVars
<1>5. RequestInv'
  BY DEF TypeOK, ConnInv, RequestInv, connVars, Goto
<1>6. QuietInv'
  BY DEF TypeOK, ConnInv, QuietInv, connVars, Goto, Open
<1>7. CleanShutdown'
  BY DEF TypeOK, ConnInv, CleanShutdown, connVars, Goto, Open, Tracked
<1>8. SlotsCrossOnlyLate'
  BY DEF TypeOK, ConnInv, RequestInv, QuietInv, SlotsCrossOnlyLate, connVars, Goto, Open
<1>9. QED
  BY <1>1, <1>3, <1>4, <1>5, <1>6, <1>7, <1>8

LEMMA TrackInv ==
    ASSUME IInv, NEW r \in Requests, Track(r)
    PROVE  IInv'
<1> USE WebhookAssumption, ExactCounters DEF IInv, Track
<1>1. FiniteInv'
  BY MoveFinite DEF Labels
<1>2. SlotsExact' /\ ReadersExact' /\ TracksExact'
  <2>1. SlotsExact'
    BY SlotStays DEF HoldsSlot, Goto, TypeOK, Labels, connVars
  <2>2. ReadersExact'
    BY ReaderLeaves DEF Labels, connVars
  <2>3. TracksExact'
    BY TrackStarts DEF connVars
  <2>4. QED
    BY <2>1, <2>2, <2>3
<1>3. CountersExact' /\ TypeOK'
  BY <1>2, CountersAgain DEF TypeOK, connVars, Goto
<1>4. ConnInv'
  BY DEF ConnInv, connVars
<1>5. RequestInv'
  BY DEF TypeOK, ConnInv, RequestInv, connVars, Goto
<1>6. QuietInv'
  BY DEF TypeOK, ConnInv, QuietInv, connVars, Goto, Open
<1>7. CleanShutdown'
  BY DEF TypeOK, ConnInv, CleanShutdown, connVars, Goto, Open, Tracked
<1>8. SlotsCrossOnlyLate'
  BY DEF TypeOK, ConnInv, RequestInv, QuietInv, SlotsCrossOnlyLate, connVars, Goto, Open
<1>9. QED
  BY <1>1, <1>3, <1>4, <1>5, <1>6, <1>7, <1>8

LEMMA HandlerReturnsInv ==
    ASSUME IInv, NEW r \in Requests, HandlerReturns(r)
    PROVE  IInv'
<1> USE WebhookAssumption, ExactCounters DEF IInv, HandlerReturns
<1>1. FiniteInv'
  BY MoveFinite DEF Labels
<1>2. SlotsExact' /\ ReadersExact' /\ TracksExact'
  <2>1. CASE teams
    <3>1. SlotsExact'
      BY <2>1, SlotStays DEF HoldsSlot, Goto, TypeOK, Labels, connVars, CountsDown
    <3>2. ReadersExact'
      BY <2>1, ReaderStays DEF Reads, Open, Goto, TypeOK, Labels, connVars
    <3>3. TracksExact'
      BY <2>1, TrackEnds DEF Tracked, Goto, TypeOK, connVars
    <3>4. QED
      BY <3>1, <3>2, <3>3
  <2>2. CASE ~teams
    <3>1. SlotsExact'
      BY <2>2, SlotFreed DEF HoldsSlot, RequestInv, Goto, TypeOK, connVars
    <3>2. ReadersExact'
      BY <2>2, ReaderStays DEF Reads, Open, Goto, TypeOK, Labels, connVars
    <3>3. TracksExact'
      BY <2>2, TrackStays DEF Tracked, Goto, TypeOK, Labels, connVars, FreesSlot
    <3>4. QED
      BY <3>1, <3>2, <3>3
  <2>3. QED
    BY <2>1, <2>2
<1>3. CountersExact' /\ TypeOK'
  BY <1>2, CountersAgain DEF TypeOK, connVars, Goto
<1>4. ConnInv'
  BY DEF ConnInv, connVars
<1>5. RequestInv'
  BY DEF TypeOK, ConnInv, RequestInv, connVars, Goto
<1>6. QuietInv'
  BY DEF TypeOK, ConnInv, QuietInv, connVars, Goto, Open
<1>7. CleanShutdown'
  BY DEF TypeOK, ConnInv, CleanShutdown, connVars, Goto, Open, Tracked
<1>8. SlotsCrossOnlyLate'
  BY DEF TypeOK, ConnInv, RequestInv, QuietInv, SlotsCrossOnlyLate, connVars, Goto, Open
<1>9. QED
  BY <1>1, <1>3, <1>4, <1>5, <1>6, <1>7, <1>8

LEMMA DispatchEndsInv ==
    ASSUME IInv, NEW r \in Requests, DispatchEnds(r)
    PROVE  IInv'
<1> USE WebhookAssumption, ExactCounters DEF IInv, DispatchEnds
<1>1. FiniteInv'
  BY MoveFinite DEF Labels
<1>2. SlotsExact' /\ ReadersExact' /\ TracksExact'
  <2>1. CASE teams
    <3>1. SlotsExact'
      BY <2>1, SlotFreed DEF HoldsSlot, RequestInv, Goto, TypeOK, connVars
    <3>2. ReadersExact'
      BY <2>1, ReaderStays DEF Reads, Open, Goto, TypeOK, Labels, connVars
    <3>3. TracksExact'
      BY <2>1, TrackStays DEF Tracked, Goto, TypeOK, Labels, connVars, FreesSlot
    <3>4. QED
      BY <3>1, <3>2, <3>3
  <2>2. CASE ~teams
    <3>1. SlotsExact'
      BY <2>2, SlotStays DEF HoldsSlot, Goto, TypeOK, Labels, connVars, CountsDown
    <3>2. ReadersExact'
      BY <2>2, ReaderStays DEF Reads, Open, Goto, TypeOK, Labels, connVars
    <3>3. TracksExact'
      BY <2>2, TrackEnds DEF Tracked, Goto, TypeOK, connVars
    <3>4. QED
      BY <3>1, <3>2, <3>3
  <2>3. QED
    BY <2>1, <2>2
<1>3. CountersExact' /\ TypeOK'
  BY <1>2, CountersAgain DEF TypeOK, connVars, Goto
<1>4. ConnInv'
  BY DEF ConnInv, connVars
<1>5. RequestInv'
  BY DEF TypeOK, ConnInv, RequestInv, connVars, Goto
<1>6. QuietInv'
  BY DEF TypeOK, ConnInv, QuietInv, connVars, Goto, Open
<1>7. CleanShutdown'
  BY DEF TypeOK, ConnInv, CleanShutdown, connVars, Goto, Open, Tracked
<1>8. SlotsCrossOnlyLate'
  BY DEF TypeOK, ConnInv, RequestInv, QuietInv, SlotsCrossOnlyLate, connVars, Goto, Open
<1>9. QED
  BY <1>1, <1>3, <1>4, <1>5, <1>6, <1>7, <1>8

LEMMA AdmitInv ==
    ASSUME IInv, NEW r \in Requests, NEW c \in Conns, Admit(r, c)
    PROVE  IInv'
<1> USE WebhookAssumption, ExactCounters DEF IInv, Admit
<1>1. FiniteInv'
  BY MoveFinite DEF Labels
<1>2. SlotsExact' /\ ReadersExact' /\ TracksExact'
  <2>1. CASE readers < MaxReads
    <3>1. SlotsExact'
      BY <2>1, SlotStays DEF HoldsSlot, Goto, TypeOK, Labels, connVars
    <3>2. ReadersExact'
      BY <2>1, ReaderEnters DEF connVars
    <3>3. TracksExact'
      BY <2>1, TrackStays DEF Tracked, Goto, TypeOK, Labels, connVars
    <3>4. QED
      BY <3>1, <3>2, <3>3
  <2>2. CASE ~(readers < MaxReads)
    <3>1. SlotsExact'
      BY <2>2, SlotStays DEF HoldsSlot, Goto, TypeOK, Labels, connVars
    <3>2. ReadersExact'
      BY <2>2, ReaderStays DEF Reads, Open, Goto, TypeOK, Labels, connVars
    <3>3. TracksExact'
      BY <2>2, TrackStays DEF Tracked, Goto, TypeOK, Labels, connVars
    <3>4. QED
      BY <3>1, <3>2, <3>3
  <2>3. QED
    BY <2>1, <2>2
<1>3. CountersExact' /\ TypeOK'
  BY <1>2, CountersAgain DEF TypeOK, connVars, Goto
<1>4. ConnInv'
  BY DEF ConnInv, connVars
<1>5. RequestInv'
  BY DEF TypeOK, ConnInv, RequestInv, connVars, Goto
<1>6. QuietInv'
  BY DEF TypeOK, ConnInv, QuietInv, connVars, Goto, Open
<1>7. CleanShutdown'
  BY DEF TypeOK, ConnInv, CleanShutdown, connVars, Goto, Open, Tracked
<1>8. SlotsCrossOnlyLate'
  BY DEF TypeOK, ConnInv, RequestInv, QuietInv, SlotsCrossOnlyLate, connVars, Goto, Open
<1>9. QED
  BY <1>1, <1>3, <1>4, <1>5, <1>6, <1>7, <1>8

(* Every step keeps IInv.                                                       *)
LEMMA StepInv == IInv /\ [Next]_vars => IInv'
<1> SUFFICES ASSUME IInv, [Next]_vars PROVE IInv'
  OBVIOUS
<1>1. ASSUME NEW c \in Conns, Connect(c) \/ Serve(c) \/ ResolveFails(c) \/ ServeFails(c)
      PROVE  IInv'
  BY <1>1, ConnectInv, ServeInv, ResolveFailsInv, ServeFailsInv
<1>2. ASSUME NEW r \in Requests, HandleRequest(r)
      PROVE  IInv'
  BY <1>2, RejectInv, ParseInv, VerifyInv, AckInv, ShedInv, TrackInv, HandlerReturnsInv,
     DispatchEndsInv DEF HandleRequest
<1>3. ASSUME NEW r \in Requests, NEW c \in Conns, Admit(r, c)
      PROVE  IInv'
  BY <1>3, AdmitInv
<1>4. ASSUME Disconnect
      PROVE  IInv'
  BY <1>4, ShutdownBeginInv, ShutdownEndInv, DrainEndInv DEF Disconnect
<1>5. CASE UNCHANGED vars
  <2>1. CountersExact' /\ FiniteInv'
    BY <1>5, RequestsIdle DEF IInv, vars, requestVars
  <2>2. TypeOK' /\ ConnInv' /\ RequestInv'
    BY <1>5 DEF IInv, vars, TypeOK, ConnInv, RequestInv
  <2>3. QuietInv' /\ CleanShutdown' /\ SlotsCrossOnlyLate'
    BY <1>5 DEF IInv, vars, QuietInv, CleanShutdown, SlotsCrossOnlyLate, Open, Tracked
  <2>4. QED
    BY <2>1, <2>2, <2>3 DEF IInv
<1>6. QED
  BY <1>1, <1>2, <1>3, <1>4, <1>5 DEF Next
-----------------------------------------------------------------------------
(* The theorems                                                                *)

(* IInv holds initially and is kept by every step, so it holds always.          *)
THEOREM Invariance == Spec => []IInv
<1>1. QED
  BY InitInv, StepInv, PTL DEF Spec

(* Every variable keeps its type, and no semaphore exceeds its capacity.        *)
THEOREM TypeCorrect == Spec => []TypeOK
<1>1. IInv => TypeOK
  BY DEF IInv
<1>2. QED
  BY <1>1, Invariance, PTL

(* No sequence of rejections, sheds, timeouts and reconnects leaks a slot or a  *)
(* count.                                                                       *)
THEOREM CountersAreExact == Spec => []CountersExact
<1>1. IInv => CountersExact
  BY DEF IInv
<1>2. QED
  BY <1>1, Invariance, PTL

(* A Disconnect within its deadlines leaves no request of its connection.       *)
THEOREM ShutdownIsClean == Spec => []CleanShutdown
<1>1. IInv => CleanShutdown
  BY DEF IInv
<1>2. QED
  BY <1>1, Invariance, PTL

(* Only a request that outlived its Shutdown draws on a later semaphore.        *)
THEOREM SlotsStay == Spec => []SlotsCrossOnlyLate
<1>1. IInv => SlotsCrossOnlyLate
  BY DEF IInv
<1>2. QED
  BY <1>1, Invariance, PTL
=============================================================================
