------------------------ MODULE SlackDispatchProofs ------------------------
(***************************************************************************)
(* Proofs about SlackDispatch, for any number of connections and events    *)
(* and any capacities.                                                     *)
(***************************************************************************)
EXTENDS SlackDispatch, TLAPS

(* The three goroutines of a connection: an event is held while it is enqueued  *)
(* and runs while it is handled, and a dispatcher that is through leaves a      *)
(* closed and empty queue.                                                      *)
LoopInv == \A c \in Conns :
    /\ pump[c] = "enqueue" <=> held[c] # 0
    /\ dispatcher[c] = "handling" <=> running[c] # 0
    /\ pump[c] = "off" => queue[c] = <<>> /\ dispatcher[c] = "off"
    /\ dispatcher[c] = "drained" => pump[c] = "closed" /\ queue[c] = <<>>

(* One connection at a time: one that was started is installed or over, and one *)
(* that is over in time is drained.                                             *)
CoreInv == /\ draining => current # NoConn
           /\ \A c \in Conns : pump[c] # "off" <=> (c = current \/ c \in over)
           /\ \A c \in over \ timedOut : dispatcher[c] = "drained"

(* Events are numbered as delivered.  Those in the channel come in order, after *)
(* every one that a pump has taken.                                             *)
ChannelInv == \A i \in DOMAIN events :
    /\ events[i] <= delivered
    /\ \A j \in DOMAIN events : i < j => events[i] < events[j]
    /\ \A c \in Conns : held[c] < events[i]
    /\ \A c \in Conns : \A k \in DOMAIN queue[c] : queue[c][k] < events[i]
    /\ \A k \in DOMAIN started : started[k][2] < events[i]

(* So do those in a queue, after every one whose handler has started: of this   *)
(* connection, or of any while no drain has timed out.                          *)
QueueInv == \A c \in Conns :
    /\ held[c] <= delivered
    /\ \A k \in DOMAIN queue[c] :
          /\ queue[c][k] <= delivered
          /\ held[c] # 0 => queue[c][k] < held[c]
          /\ \A l \in DOMAIN queue[c] : k < l => queue[c][k] < queue[c][l]
    /\ \A i \in DOMAIN started : started[i][1] = c \/ timedOut = {} =>
          /\ held[c] # 0 => started[i][2] < held[c]
          /\ \A k \in DOMAIN queue[c] : started[i][2] < queue[c][k]

StartedInv == \A i \in DOMAIN started : started[i][2] <= delivered

IInv == TypeOK /\ LoopInv /\ CoreInv /\ ChannelInv /\ QueueInv /\ StartedInv /\ InOrder
-----------------------------------------------------------------------------
(* Taking the first element of a sequence moves the others up by one.           *)
LEMMA TailAt ==
    ASSUME NEW S, NEW s \in Seq(S), s # <<>>
    PROVE  /\ Tail(s) \in Seq(S) /\ Head(s) \in S /\ Head(s) = s[1] /\ 1 \in DOMAIN s
           /\ \A i \in DOMAIN Tail(s) : i \in Nat \ {0} /\ i + 1 \in DOMAIN s /\ Tail(s)[i] = s[i + 1]
           /\ Len(Tail(s)) = Len(s) - 1
OBVIOUS

(* Appending an element leaves the others where they are.                       *)
LEMMA AppendAt ==
    ASSUME NEW S, NEW s \in Seq(S), NEW e \in S
    PROVE  /\ Append(s, e) \in Seq(S)
           /\ \A i \in DOMAIN Append(s, e) :
                 /\ i \in Nat
                 /\ i \in DOMAIN s \/ i = Len(s) + 1
                 /\ i \in DOMAIN s => Append(s, e)[i] = s[i] /\ i < Len(s) + 1
           /\ Append(s, e)[Len(s) + 1] = e
           /\ Len(Append(s, e)) = Len(s) + 1
OBVIOUS

(* What is queued or started is an event's number.                              *)
LEMMA Numbers ==
    ASSUME TypeOK
    PROVE  /\ delivered \in Nat
           /\ \A c \in Conns : held[c] \in Nat
           /\ \A k \in DOMAIN events : k \in Nat /\ events[k] \in Nat
           /\ \A c \in Conns : \A k \in DOMAIN queue[c] : k \in Nat /\ queue[c][k] \in Nat
           /\ \A k \in DOMAIN started : k \in Nat /\ started[k][1] \in Conns /\ started[k][2] \in Nat
<1> USE SlackAssumption DEF Event
<1>1. delivered \in Nat /\ \A c \in Conns : held[c] \in Nat
  BY DEF TypeOK
<1>2. ASSUME NEW k \in DOMAIN events PROVE k \in Nat /\ events[k] \in Nat
  BY <1>2 DEF TypeOK
<1>3. ASSUME NEW c \in Conns, NEW k \in DOMAIN queue[c] PROVE k \in Nat /\ queue[c][k] \in Nat
  <2>1. queue[c] \in Seq(Event)
    BY DEF TypeOK
  <2>2. QED
    BY <1>3, <2>1
<1>4. ASSUME NEW k \in DOMAIN started
      PROVE  k \in Nat /\ started[k][1] \in Conns /\ started[k][2] \in Nat
  <2>1. started \in Seq(Conns \X Event)
    BY DEF TypeOK
  <2>2. k \in Nat /\ started[k] \in Conns \X Event
    BY <1>4, <2>1
  <2>3. QED
    BY <2>2
<1>5. QED
  BY <1>1, <1>2, <1>3, <1>4

(* With no event anywhere IInv holds.                                           *)
LEMMA InitInv == Init => IInv
<1> SUFFICES ASSUME Init PROVE IInv
  OBVIOUS
<1> USE SlackAssumption DEF Init
<1>1. TypeOK
  <2>1. <<>> \in Seq(Event) /\ <<>> \in Seq(Conns \X Event)
    OBVIOUS
  <2>2. Len(events) <= Inbox
    OBVIOUS
  <2>3. \A c \in Conns : queue[c] = <<>>
    OBVIOUS
  <2>4. ASSUME NEW c \in Conns PROVE Len(queue[c]) <= Buffer
    <3>1. \A q : q = <<>> => Len(q) = 0
      OBVIOUS
    <3>2. Len(queue[c]) = 0
      BY <2>3, <3>1, Zenon
    <3>3. QED
      BY <3>2
  <2>5. queue \in [Conns -> Seq(Event)]
    BY <2>1
  <2>6. /\ held \in [Conns -> 0 .. Deliveries] /\ running \in [Conns -> 0 .. Deliveries]
        /\ delivered \in 0 .. Deliveries
    OBVIOUS
  <2>7. QED
    BY <2>1, <2>2, <2>4, <2>5, <2>6 DEF TypeOK
<1>2. LoopInv
  BY DEF LoopInv
<1>3. CoreInv
  BY DEF CoreInv
<1>4. ChannelInv /\ QueueInv /\ StartedInv
  BY DEF ChannelInv, QueueInv, StartedInv
<1>5. InOrder
  BY DEF InOrder
<1>6. QED
  BY <1>1, <1>2, <1>3, <1>4, <1>5 DEF IInv

(* Steps that move no event keep the order.                                     *)
LEMMA OrderIdle ==
    ASSUME ChannelInv, QueueInv, StartedInv, InOrder,
           UNCHANGED <<events, delivered, held, queue, started>>, timedOut \subseteq timedOut'
    PROVE  ChannelInv' /\ QueueInv' /\ StartedInv' /\ InOrder'
<1>1. ChannelInv' /\ StartedInv'
  BY DEF ChannelInv, StartedInv
<1>2. timedOut' = {} => timedOut = {}
  OBVIOUS
<1>3. QueueInv'
  BY <1>2 DEF QueueInv
<1>4. InOrder'
  BY <1>2 DEF InOrder
<1>5. QED
  BY <1>1, <1>3, <1>4

(* The lemmas that follow show, action by action, that each part of IInv is     *)
(* kept.                                                                        *)
LEMMA SocketEndsInv ==
    ASSUME IInv, NEW c \in Conns, SocketEnds(c)
    PROVE  IInv'
<1> USE SlackAssumption DEF IInv, SocketEnds, slackVars, coreVars, pumpVars, dispatchVars
<1>1. TypeOK'
  BY DEF TypeOK, CoreInv
<1>2. LoopInv'
  BY DEF TypeOK, LoopInv
<1>3. CoreInv'
  BY DEF TypeOK, LoopInv, CoreInv
<1>4. ChannelInv' /\ QueueInv' /\ StartedInv' /\ InOrder'
  BY OrderIdle
<1>5. QED
  BY <1>1, <1>2, <1>3, <1>4

LEMMA ConnectInv ==
    ASSUME IInv, NEW c \in Conns, Connect(c)
    PROVE  IInv'
<1> USE SlackAssumption DEF IInv, Connect, slackVars, coreVars, pumpVars, dispatchVars
<1>1. TypeOK'
  BY DEF TypeOK, CoreInv
<1>2. LoopInv'
  BY DEF TypeOK, LoopInv
<1>3. CoreInv'
  BY DEF TypeOK, LoopInv, CoreInv
<1>4. ChannelInv' /\ QueueInv' /\ StartedInv' /\ InOrder'
  BY OrderIdle
<1>5. QED
  BY <1>1, <1>2, <1>3, <1>4

LEMMA CancelInv ==
    ASSUME IInv, NEW c \in Conns, Cancel(c)
    PROVE  IInv'
<1> USE SlackAssumption DEF IInv, Cancel, slackVars, coreVars, pumpVars, dispatchVars
<1>1. TypeOK'
  BY DEF TypeOK, CoreInv
<1>2. LoopInv'
  BY DEF TypeOK, LoopInv
<1>3. CoreInv'
  BY DEF TypeOK, LoopInv, CoreInv
<1>4. ChannelInv' /\ QueueInv' /\ StartedInv' /\ InOrder'
  BY OrderIdle
<1>5. QED
  BY <1>1, <1>2, <1>3, <1>4

LEMMA DisconnectBeginInv ==
    ASSUME IInv, DisconnectBegin
    PROVE  IInv'
<1> USE SlackAssumption DEF IInv, DisconnectBegin, slackVars, coreVars, pumpVars, dispatchVars
<1>1. TypeOK'
  BY DEF TypeOK, CoreInv
<1>2. LoopInv'
  BY DEF TypeOK, LoopInv
<1>3. CoreInv'
  BY DEF TypeOK, LoopInv, CoreInv
<1>4. ChannelInv' /\ QueueInv' /\ StartedInv' /\ InOrder'
  BY OrderIdle
<1>5. QED
  BY <1>1, <1>2, <1>3, <1>4

LEMMA DrainedInv ==
    ASSUME IInv, Drained
    PROVE  IInv'
<1> USE SlackAssumption DEF IInv, Drained, DisconnectEnd, slackVars, coreVars, pumpVars, dispatchVars
<1>1. TypeOK'
  BY DEF TypeOK, CoreInv
<1>2. LoopInv'
  BY DEF TypeOK, LoopInv
<1>3. CoreInv'
  BY DEF TypeOK, LoopInv, CoreInv
<1>4. ChannelInv' /\ QueueInv' /\ StartedInv' /\ InOrder'
  BY OrderIdle
<1>5. QED
  BY <1>1, <1>2, <1>3, <1>4

LEMMA DrainTimeoutInv ==
    ASSUME IInv, DrainTimeout
    PROVE  IInv'
<1> USE SlackAssumption DEF IInv, DrainTimeout, DisconnectEnd, slackVars, coreVars, pumpVars, dispatchVars
<1>1. TypeOK'
  BY DEF TypeOK, CoreInv
<1>2. LoopInv'
  BY DEF TypeOK, LoopInv
<1>3. CoreInv'
  BY DEF TypeOK, LoopInv, CoreInv
<1>4. ChannelInv' /\ QueueInv' /\ StartedInv' /\ InOrder'
  BY OrderIdle
<1>5. QED
  BY <1>1, <1>2, <1>3, <1>4

LEMMA PumpStopsInv ==
    ASSUME IInv, NEW c \in Conns, PumpStops(c)
    PROVE  IInv'
<1> USE SlackAssumption DEF IInv, PumpStops, slackVars, coreVars, pumpVars, dispatchVars
<1>1. TypeOK'
  BY DEF TypeOK, CoreInv
<1>2. LoopInv'
  BY DEF TypeOK, LoopInv
<1>3. CoreInv'
  BY DEF TypeOK, LoopInv, CoreInv
<1>4. ChannelInv' /\ QueueInv' /\ StartedInv' /\ InOrder'
  BY OrderIdle
<1>5. QED
  BY <1>1, <1>2, <1>3, <1>4

LEMMA HandlerReturnsInv ==
    ASSUME IInv, NEW c \in Conns, HandlerReturns(c)
    PROVE  IInv'
<1> USE SlackAssumption DEF IInv, HandlerReturns, slackVars, coreVars, pumpVars, dispatchVars
<1>1. TypeOK'
  BY DEF TypeOK, CoreInv
<1>2. LoopInv'
  BY DEF TypeOK, LoopInv
<1>3. CoreInv'
  BY DEF TypeOK, LoopInv, CoreInv
<1>4. ChannelInv' /\ QueueInv' /\ StartedInv' /\ InOrder'
  BY OrderIdle
<1>5. QED
  BY <1>1, <1>2, <1>3, <1>4

LEMMA DispatcherExitsInv ==
    ASSUME IInv, NEW c \in Conns, DispatcherExits(c)
    PROVE  IInv'
<1> USE SlackAssumption DEF IInv, DispatcherExits, slackVars, coreVars, pumpVars, dispatchVars
<1>1. TypeOK'
  BY DEF TypeOK, CoreInv
<1>2. LoopInv'
  BY DEF TypeOK, LoopInv
<1>3. CoreInv'
  BY DEF TypeOK, LoopInv, CoreInv
<1>4. ChannelInv' /\ QueueInv' /\ StartedInv' /\ InOrder'
  BY OrderIdle
<1>5. QED
  BY <1>1, <1>2, <1>3, <1>4

(* A new event comes after all others.                                          *)
LEMMA DeliverInv ==
    ASSUME IInv, NEW c \in Conns, Deliver(c)
    PROVE  IInv'
<1> USE SlackAssumption DEF IInv, Deliver, coreVars, pumpVars, dispatchVars
<1>1. events \in Seq(Event) /\ delivered \in Nat /\ delivered' \in Event
  BY DEF TypeOK, Event
<1>2. /\ events' \in Seq(Event) /\ Len(events') = Len(events) + 1
      /\ \A i \in DOMAIN events' : \/ i \in DOMAIN events /\ events'[i] = events[i] /\ i < Len(events')
                                   \/ i = Len(events') /\ events'[i] = delivered + 1
      /\ DOMAIN events \subseteq Nat
  BY <1>1, AppendAt
<1>3. TypeOK'
  BY <1>1, <1>2 DEF TypeOK
<1>4. LoopInv' /\ CoreInv'
  BY DEF LoopInv, CoreInv
<1>5. ChannelInv'
  <2> SUFFICES ASSUME NEW i \in DOMAIN events'
      PROVE  /\ events'[i] <= delivered'
             /\ \A j \in DOMAIN events' : i < j => events'[i] < events'[j]
             /\ \A d \in Conns : held[d] < events'[i]
             /\ \A d \in Conns : \A k \in DOMAIN queue[d] : queue[d][k] < events'[i]
             /\ \A k \in DOMAIN started : started[k][2] < events'[i]
    BY DEF ChannelInv
  <2>2. CASE i \in DOMAIN events /\ events'[i] = events[i] /\ i < Len(events')
    BY <1>1, <1>2, <2>2, Numbers DEF ChannelInv
  <2>3. CASE i = Len(events') /\ events'[i] = delivered + 1
    BY <1>1, <1>2, <2>3, Numbers DEF QueueInv, StartedInv
  <2>4. QED
    BY <1>2, <2>2, <2>3
<1>6. QueueInv' /\ StartedInv' /\ InOrder'
  <2>2. QueueInv'
    BY <1>1, Numbers DEF QueueInv
  <2>3. StartedInv'
    BY <1>1, Numbers DEF StartedInv
  <2>4. InOrder'
    BY DEF InOrder
  <2>5. QED
    BY <2>2, <2>3, <2>4
<1>7. QED
  BY <1>3, <1>4, <1>5, <1>6

(* A pump takes the first event, which is after all that were taken before.     *)
LEMMA PumpTakesInv ==
    ASSUME IInv, NEW c \in Conns, PumpTakes(c)
    PROVE  IInv'
<1> USE SlackAssumption DEF IInv, PumpTakes, coreVars, dispatchVars
<1>1. events \in Seq(Event) /\ events # <<>> /\ events' = Tail(events)
  BY DEF TypeOK
<1>2. /\ Head(events) \in Event /\ Head(events) = events[1] /\ 1 \in DOMAIN events
      /\ events' \in Seq(Event) /\ Len(events') = Len(events) - 1 /\ Len(events) \in Nat
      /\ \A i \in DOMAIN events' : i \in Nat \ {0} /\ i + 1 \in DOMAIN events /\ events'[i] = events[i + 1]
  BY <1>1, TailAt
<1>3. /\ \A d \in Conns : held'[d] = held[d] \/ (d = c /\ held'[d] = events[1])
      /\ UNCHANGED <<queue, delivered, started, timedOut>>
      /\ held[c] = 0
  BY <1>2 DEF pumpVars, TypeOK, LoopInv
<1>4. TypeOK'
  <2>1. events' \in Seq(Event) /\ Len(events') <= Inbox
    BY <1>2 DEF TypeOK
  <2>2. Head(events) \in 0 .. Deliveries
    BY <1>2 DEF Event
  <2>3. /\ held' \in [Conns -> 0 .. Deliveries] /\ acked' \subseteq Event
        /\ pump' \in [Conns -> {"off", "select", "enqueue", "closed"}]
    <3>1. CASE UNCHANGED pumpVars
      BY <3>1 DEF TypeOK, pumpVars
    <3>2. CASE /\ acked' = acked \cup {Head(events)}
               /\ held' = [held EXCEPT ![c] = Head(events)]
               /\ pump' = [pump EXCEPT ![c] = "enqueue"]
      <4>1. acked' \subseteq Event
        BY <1>2, <3>2 DEF TypeOK
      <4>2. held' \in [Conns -> 0 .. Deliveries]
        BY <2>2, <3>2 DEF TypeOK
      <4>3. pump' \in [Conns -> {"off", "select", "enqueue", "closed"}]
        BY <3>2 DEF TypeOK
      <4>4. QED
        BY <4>1, <4>2, <4>3
    <3>3. QED
      BY <3>1, <3>2
  <2>4. QED
    BY <1>3, <2>1, <2>3 DEF TypeOK
<1>5. LoopInv'
  <2>1. CASE UNCHANGED pumpVars
    BY <2>1 DEF LoopInv, pumpVars
  <2>2. CASE /\ held' = [held EXCEPT ![c] = Head(events)]
             /\ pump' = [pump EXCEPT ![c] = "enqueue"]
             /\ UNCHANGED queue
    <3>1. Head(events) # 0
      BY <1>2 DEF Event
    <3>2. QED
      BY <2>2, <3>1 DEF TypeOK, LoopInv
  <2>3. QED
    BY <2>1, <2>2 DEF pumpVars
<1>6. CoreInv'
  BY DEF TypeOK, CoreInv, pumpVars
<1>7. ChannelInv'
  <2> SUFFICES ASSUME NEW i \in DOMAIN events'
      PROVE  /\ events'[i] <= delivered'
             /\ \A j \in DOMAIN events' : i < j => events'[i] < events'[j]
             /\ \A d \in Conns : held'[d] < events'[i]
             /\ \A d \in Conns : \A k \in DOMAIN queue'[d] : queue'[d][k] < events'[i]
             /\ \A k \in DOMAIN started' : started'[k][2] < events'[i]
    BY DEF ChannelInv
  <2>1. i \in Nat \ {0} /\ i + 1 \in DOMAIN events /\ events'[i] = events[i + 1] /\ 1 < i + 1
    BY <1>2
  <2>2. events[1] < events'[i]
    BY <1>2, <2>1 DEF ChannelInv
  <2>3. \A j \in DOMAIN events' : i < j => events'[i] < events'[j]
    BY <1>2, <2>1 DEF ChannelInv
  <2>4. \A d \in Conns : held'[d] < events'[i]
    BY <1>3, <2>1, <2>2 DEF ChannelInv
  <2>5. QED
    BY <1>3, <2>1, <2>3, <2>4 DEF ChannelInv
<1>8. QueueInv'
  BY <1>2, <1>3, Numbers DEF QueueInv, ChannelInv
<1>9. StartedInv' /\ InOrder'
  BY <1>3 DEF StartedInv, InOrder
<1>10. QED
  BY <1>4, <1>5, <1>6, <1>7, <1>8, <1>9

LEMMA PumpEnqueuesInv ==
    ASSUME IInv, NEW c \in Conns, PumpEnqueues(c)
    PROVE  IInv'
<1> USE SlackAssumption DEF IInv, PumpEnqueues, coreVars, slackVars, dispatchVars
<1>1. queue[c] \in Seq(Event) /\ held[c] \in Event /\ held[c] # 0 /\ held'[c] = 0
  BY DEF TypeOK, LoopInv, Event
<1>2. /\ queue'[c] \in Seq(Event) /\ Len(queue'[c]) = Len(queue[c]) + 1
      /\ DOMAIN queue[c] \subseteq Nat /\ Len(queue[c]) \in Nat
      /\ \A k \in DOMAIN queue'[c] :
            \/ k \in DOMAIN queue[c] /\ queue'[c][k] = queue[c][k] /\ k < Len(queue'[c])
            \/ k = Len(queue'[c]) /\ queue'[c][k] = held[c]
  <2>1. queue'[c] = Append(queue[c], held[c])
    BY DEF TypeOK
  <2>2. QED
    BY <1>1, <2>1, AppendAt
<1>3. /\ \A d \in Conns : d # c => queue'[d] = queue[d] /\ held'[d] = held[d]
      /\ UNCHANGED <<events, delivered, started, timedOut>>
  BY DEF TypeOK
<1>4. TypeOK'
  <2>1. Len(queue'[c]) <= Buffer
    BY <1>2
  <2>2. \A d \in Conns : queue'[d] \in Seq(Event) /\ Len(queue'[d]) <= Buffer
    BY <1>2, <1>3, <2>1 DEF TypeOK
  <2>3. queue' \in [Conns -> Seq(Event)]
    BY <2>2 DEF TypeOK
  <2>4. QED
    BY <2>2, <2>3 DEF TypeOK
<1>5. LoopInv'
  BY DEF TypeOK, LoopInv
<1>6. CoreInv'
  BY DEF TypeOK, CoreInv
<1>7. ChannelInv'
  <2>1. \A d \in Conns : held'[d] = held[d] \/ held'[d] = 0
    BY <1>1, <1>3
  <2>2. \A i \in DOMAIN events : \A d \in Conns : held'[d] < events[i]
    BY <2>1, Numbers DEF ChannelInv, TypeOK, Event
  <2>3. \A i \in DOMAIN events : \A d \in Conns : \A k \in DOMAIN queue'[d] : queue'[d][k] < events[i]
    BY <1>2, <1>3 DEF ChannelInv
  <2>4. QED
    BY <1>3, <2>2, <2>3 DEF ChannelInv
<1>8. QueueInv'
  <2>1. ASSUME NEW d \in Conns, d # c
        PROVE  /\ held'[d] = held[d] /\ queue'[d] = queue[d]
               /\ UNCHANGED <<delivered, started, timedOut>>
    BY <1>3, <2>1
  <2>2. /\ held'[c] <= delivered'
        /\ \A k \in DOMAIN queue'[c] :
              /\ queue'[c][k] <= delivered'
              /\ held'[c] # 0 => queue'[c][k] < held'[c]
              /\ \A l \in DOMAIN queue'[c] : k < l => queue'[c][k] < queue'[c][l]
    BY <1>1, <1>2, <1>3, Numbers DEF QueueInv
  <2>3. \A i \in DOMAIN started' : started'[i][1] = c \/ timedOut' = {} =>
              /\ held'[c] # 0 => started'[i][2] < held'[c]
              /\ \A k \in DOMAIN queue'[c] : started'[i][2] < queue'[c][k]
    BY <1>1, <1>2, <1>3, Numbers DEF QueueInv
  <2>4. QED
    BY <2>1, <2>2, <2>3 DEF QueueInv
<1>9. StartedInv' /\ InOrder'
  BY <1>3 DEF StartedInv, InOrder
<1>10. QED
  BY <1>4, <1>5, <1>6, <1>7, <1>8, <1>9

LEMMA PumpAbandonsInv ==
    ASSUME IInv, NEW c \in Conns, PumpAbandons(c)
    PROVE  IInv'
<1> USE SlackAssumption DEF IInv, PumpAbandons, coreVars, slackVars, dispatchVars
<1>1. /\ \A d \in Conns : held'[d] = held[d] \/ held'[d] = 0
      /\ UNCHANGED <<events, delivered, queue, started, timedOut>>
  BY DEF TypeOK
<1>2. TypeOK' /\ LoopInv'
  BY DEF TypeOK, LoopInv
<1>3. CoreInv'
  BY DEF TypeOK, CoreInv
<1>4. ChannelInv'
  <2>1. \A i \in DOMAIN events : \A d \in Conns : held'[d] < events[i]
    BY <1>1, Numbers DEF ChannelInv, TypeOK, Event
  <2>2. QED
    BY <1>1, <2>1 DEF ChannelInv
<1>5. QueueInv'
  BY <1>1, Numbers DEF QueueInv
<1>6. StartedInv' /\ InOrder'
  BY <1>1 DEF StartedInv, InOrder
<1>7. QED
  BY <1>2, <1>3, <1>4, <1>5, <1>6

(* A handler starts for the first event in its queue.  While no drain has timed *)
(* out the queues of the other connections are empty.                           *)
LEMMA HandlerStartsInv ==
    ASSUME IInv, NEW c \in Conns, HandlerStarts(c)
    PROVE  IInv'
<1> USE SlackAssumption DEF IInv, HandlerStarts, coreVars, slackVars
<1> DEFINE e == Head(queue[c])
<1>1. queue[c] \in Seq(Event) /\ queue[c] # <<>> /\ queue'[c] = Tail(queue[c])
  BY DEF TypeOK
<1>2. /\ e \in Event /\ e = queue[c][1] /\ 1 \in DOMAIN queue[c]
      /\ queue'[c] \in Seq(Event) /\ Len(queue'[c]) = Len(queue[c]) - 1 /\ Len(queue[c]) \in Nat
      /\ \A k \in DOMAIN queue'[c] :
            k \in Nat \ {0} /\ k + 1 \in DOMAIN queue[c] /\ queue'[c][k] = queue[c][k + 1]
  <2>1. \A q \in Seq(Event) : q # <<>> =>
          /\ Head(q) \in Event /\ Head(q) = q[1] /\ 1 \in DOMAIN q
          /\ Tail(q) \in Seq(Event) /\ Len(Tail(q)) = Len(q) - 1 /\ Len(q) \in Nat
          /\ \A k \in DOMAIN Tail(q) :
                k \in Nat \ {0} /\ k + 1 \in DOMAIN q /\ Tail(q)[k] = q[k + 1]
    <3> SUFFICES ASSUME NEW q \in Seq(Event), q # <<>>
        PROVE  /\ Head(q) \in Event /\ Head(q) = q[1] /\ 1 \in DOMAIN q
               /\ Tail(q) \in Seq(Event) /\ Len(Tail(q)) = Len(q) - 1 /\ Len(q) \in Nat
               /\ \A k \in DOMAIN Tail(q) :
                     k \in Nat \ {0} /\ k + 1 \in DOMAIN q /\ Tail(q)[k] = q[k + 1]
      OBVIOUS
    <3>1. Len(q) \in Nat
      OBVIOUS
    <3>2. QED
      BY <3>1, TailAt
  <2>2. QED
    BY <1>1, <2>1, Zenon
<1>3. /\ \A d \in Conns : d # c => queue'[d] = queue[d]
      /\ UNCHANGED <<events, delivered, held, timedOut>>
  BY DEF TypeOK
<1>4. /\ started' \in Seq(Conns \X Event) /\ Len(started') = Len(started) + 1
      /\ \A i \in DOMAIN started' :
            \/ i \in DOMAIN started /\ started'[i] = started[i] /\ i < Len(started')
            \/ i = Len(started') /\ started'[i] = <<c, e>>
      /\ \A i \in DOMAIN started' : i \in Nat
  <2>1. started \in Seq(Conns \X Event) /\ <<c, e>> \in Conns \X Event
    BY <1>2 DEF TypeOK
  <2>2. started' = Append(started, <<c, e>>)
    OBVIOUS
  <2>3. QED
    BY <2>1, <2>2, AppendAt
<1>5. \A d \in Conns : d # c /\ timedOut = {} => queue[d] = <<>> /\ held[d] = 0
  BY DEF TypeOK, LoopInv, CoreInv
<1>6. TypeOK'
  <2>1. \A d \in Conns : queue'[d] \in Seq(Event) /\ Len(queue'[d]) <= Buffer
    BY <1>2, <1>3 DEF TypeOK
  <2>2. queue' \in [Conns -> Seq(Event)]
    BY <2>1 DEF TypeOK
  <2>3. e \in 0 .. Deliveries
    BY <1>2 DEF Event
  <2>4. QED
    BY <1>4, <2>1, <2>2, <2>3 DEF TypeOK
<1>7. LoopInv'
  <2>1. e # 0
    BY <1>2 DEF Event
  <2>2. QED
    BY <2>1, <1>3 DEF TypeOK, LoopInv
<1>8. CoreInv'
  BY DEF TypeOK, CoreInv
<1>9. ChannelInv'
  <2>1. \A i \in DOMAIN events : \A d \in Conns : \A k \in DOMAIN queue'[d] : queue'[d][k] < events[i]
    BY <1>2, <1>3 DEF ChannelInv
  <2>2. \A i \in DOMAIN events : e < events[i]
    BY <1>2 DEF ChannelInv
  <2>3. \A i \in DOMAIN events : \A k \in DOMAIN started' : started'[k][2] < events[i]
    BY <1>4, <2>2 DEF ChannelInv
  <2>4. QED
    BY <1>3, <2>1, <2>3 DEF ChannelInv
<1>10. QueueInv'
  <2>1. ASSUME NEW d \in Conns
        PROVE  /\ held'[d] <= delivered'
               /\ \A k \in DOMAIN queue'[d] :
                     /\ queue'[d][k] <= delivered'
                     /\ held'[d] # 0 => queue'[d][k] < held'[d]
                     /\ \A l \in DOMAIN queue'[d] : k < l => queue'[d][k] < queue'[d][l]
    <3>1. CASE d = c
      BY <1>2, <1>3, <3>1 DEF QueueInv
    <3>2. CASE d # c
      BY <1>3, <3>2 DEF QueueInv
    <3>3. QED
      BY <3>1, <3>2
  <2>2. /\ held[c] # 0 => e < held[c]
        /\ \A k \in DOMAIN queue'[c] : e < queue'[c][k]
    BY <1>2 DEF QueueInv
  <2>3. ASSUME NEW d \in Conns, NEW i \in DOMAIN started', started'[i][1] = d \/ timedOut = {}
        PROVE  /\ held[d] # 0 => started'[i][2] < held[d]
               /\ \A k \in DOMAIN queue'[d] : started'[i][2] < queue'[d][k]
    <3>1. CASE i \in DOMAIN started /\ started'[i] = started[i]
      <4>1. CASE d = c
        BY <1>2, <2>3, <3>1, <4>1 DEF QueueInv
      <4>2. CASE d # c
        BY <1>3, <2>3, <3>1, <4>2 DEF QueueInv
      <4>3. QED
        BY <4>1, <4>2
    <3>2. CASE started'[i] = <<c, e>>
      <4>1. CASE d = c
        BY <2>2, <3>2, <4>1
      <4>2. CASE d # c
        <5>1. queue[d] = <<>> /\ held[d] = 0
          BY <1>5, <2>3, <3>2, <4>2
        <5>2. QED
          BY <1>3, <4>2, <5>1
      <4>3. QED
        BY <4>1, <4>2
    <3>3. QED
      BY <1>4, <3>1, <3>2
  <2>4. QED
    BY <1>3, <2>1, <2>3 DEF QueueInv
<1>11. StartedInv'
  <2>1. e <= delivered
    BY <1>2 DEF QueueInv
  <2>2. QED
    BY <1>3, <1>4, <2>1 DEF StartedInv
<1>12. InOrder'
  <2> SUFFICES ASSUME NEW i \in DOMAIN started', NEW j \in DOMAIN started', i < j
      PROVE  \/ started'[i][2] < started'[j][2]
             \/ started'[i][1] # started'[j][1] /\ timedOut # {}
    <3>1. DOMAIN started' = 1 .. Len(started') /\ timedOut' = timedOut
      BY <1>3, <1>4
    <3>2. QED
      BY <3>1 DEF InOrder
  <2>1. i \in DOMAIN started /\ started'[i] = started[i]
    BY <1>4
  <2>2. CASE j \in DOMAIN started /\ started'[j] = started[j]
    <3>1. started \in Seq(Conns \X Event)
      BY DEF TypeOK
    <3>2. i \in 1 .. Len(started) /\ j \in 1 .. Len(started)
      BY <2>1, <2>2, <3>1
    <3>3. QED
      BY <2>1, <2>2, <3>2 DEF InOrder
  <2>3. CASE started'[j] = <<c, e>>
    BY <1>2, <2>1, <2>3 DEF QueueInv
  <2>4. QED
    BY <1>4, <2>2, <2>3
<1>13. QED
  BY <1>6, <1>7, <1>8, <1>9, <1>10, <1>11, <1>12

(* Every step keeps IInv.                                                       *)
LEMMA StepInv == IInv /\ [Next]_vars => IInv'
<1> SUFFICES ASSUME IInv, [Next]_vars PROVE IInv'
  OBVIOUS
<1>1. ASSUME NEW c \in Conns, Deliver(c) \/ SocketEnds(c) \/ Connect(c) \/ Cancel(c)
      PROVE  IInv'
  BY <1>1, DeliverInv, SocketEndsInv, ConnectInv, CancelInv
<1>2. ASSUME NEW c \in Conns, PumpStep(c)
      PROVE  IInv'
  BY <1>2, PumpStopsInv, PumpTakesInv, PumpEnqueuesInv, PumpAbandonsInv DEF PumpStep
<1>3. ASSUME NEW c \in Conns, DispatchStep(c)
      PROVE  IInv'
  BY <1>3, HandlerStartsInv, HandlerReturnsInv, DispatcherExitsInv DEF DispatchStep
<1>4. ASSUME DisconnectBegin \/ Drained \/ DrainTimeout
      PROVE  IInv'
  BY <1>4, DisconnectBeginInv, DrainedInv, DrainTimeoutInv
<1>5. CASE UNCHANGED vars
  <2>1. TypeOK' /\ LoopInv' /\ CoreInv'
    BY <1>5 DEF IInv, vars, TypeOK, LoopInv, CoreInv
  <2>2. ChannelInv' /\ QueueInv' /\ StartedInv' /\ InOrder'
    BY <1>5, OrderIdle DEF IInv, vars
  <2>3. QED
    BY <2>1, <2>2 DEF IInv
<1>6. QED
  BY <1>1, <1>2, <1>3, <1>4, <1>5 DEF Next
-----------------------------------------------------------------------------
(* The theorems                                                                *)

(* IInv holds initially and is kept by every step, so it holds always.          *)
THEOREM Invariance == Spec => []IInv
<1>1. QED
  BY InitInv, StepInv, PTL DEF Spec

(* Every variable keeps its type, and no queue exceeds its capacity.            *)
THEOREM TypeCorrect == Spec => []TypeOK
<1>1. IInv => TypeOK
  BY DEF IInv
<1>2. QED
  BY <1>1, Invariance, PTL

(* Handlers start in the order of delivery, across reconnects too while every   *)
(* drain is in time.                                                            *)
THEOREM HandlersInOrder == Spec => []InOrder
<1>1. IInv => InOrder
  BY DEF IInv
<1>2. QED
  BY <1>1, Invariance, PTL

(* No two handlers run at once, except beside a drain that timed out.           *)
THEOREM HandlersSerial == Spec => []Serial
<1>1. IInv => Serial
  BY DEF IInv, TypeOK, LoopInv, CoreInv, Serial
<1>2. QED
  BY <1>1, Invariance, PTL

(* A Disconnect that drained in time leaves nothing behind.                     *)
THEOREM ShutdownIsClean == Spec => []CleanShutdown
<1>1. IInv => CleanShutdown
  BY DEF IInv, TypeOK, LoopInv, CoreInv, CleanShutdown
<1>2. QED
  BY <1>1, Invariance, PTL
-----------------------------------------------------------------------------
(* What a cancellation costs                                                   *)

(* An acknowledged event is with a pump, in a queue or at its handler, or it    *)
(* was abandoned.                                                               *)
Placed(e) == \/ \E c \in Conns : held[c] = e
             \/ \E c \in Conns : \E k \in DOMAIN queue[c] : queue[c][k] = e
             \/ \E i \in DOMAIN started : started[i][2] = e

Abandoned == {e \in acked : ~Placed(e)}

(* The connections whose pump has exited, each for its context was canceled.    *)
Stopped == {c \in Conns : pump[c] = "closed"}

\* Each element of S can be charged to one of T, and no two to the same.
OneEach(S, T) == \E f \in [S -> T] : \A d, e \in S : f[d] = f[e] => d = e

AbandonedInv == Stopped \subseteq ctxDone /\ OneEach(Abandoned, Stopped)

(* Charging fewer elements to more is no harder.                                *)
LEMMA OneEachShrinks ==
    ASSUME NEW S, NEW T, NEW S1, NEW T1, S1 \subseteq S, T \subseteq T1, OneEach(S, T)
    PROVE  OneEach(S1, T1)
<1>1. PICK f \in [S -> T] : \A d, e \in S : f[d] = f[e] => d = e
  BY DEF OneEach
<1> DEFINE g == [e \in S1 |-> f[e]]
<1>2. g \in [S1 -> T1] /\ \A d, e \in S1 : g[d] = g[e] => d = e
  BY <1>1
<1>3. QED
  BY <1>2 DEF OneEach

(* Nor is it harder to charge one more to one that is new.                      *)
LEMMA OneEachGrows ==
    ASSUME NEW S, NEW T, NEW s, NEW t, t \notin T, OneEach(S, T)
    PROVE  OneEach(S \cup {s}, T \cup {t})
<1>1. PICK f \in [S -> T] : \A d, e \in S : f[d] = f[e] => d = e
  BY DEF OneEach
<1> DEFINE g == [e \in S \cup {s} |-> IF e \in S THEN f[e] ELSE t]
<1>2. \A e \in S : g[e] = f[e] /\ g[e] \in T
  BY <1>1
<1>3. \A e \in (S \cup {s}) \ S : e = s /\ g[e] = t
  OBVIOUS
<1>4. g \in [S \cup {s} -> T \cup {t}]
  BY <1>1
<1>5. \A d, e \in S \cup {s} : g[d] = g[e] => d = e
  BY <1>1, <1>2, <1>3
<1>6. QED
  BY <1>4, <1>5 DEF OneEach

(* Whatever moves an event on but keeps it placed abandons none.                *)
LEMMA PlacedKept ==
    ASSUME AbandonedInv, Stopped \subseteq Stopped', Stopped' \subseteq ctxDone',
           \A e \in acked : Placed(e) => Placed(e)',
           \A e \in acked' \ acked : Placed(e)'
    PROVE  AbandonedInv'
<1>1. Abandoned' \subseteq Abandoned
  BY DEF Abandoned
<1>2. OneEach(Abandoned', Stopped')
  BY <1>1, OneEachShrinks DEF AbandonedInv
<1>3. QED
  BY <1>2 DEF AbandonedInv, OneEach

(* Steps of the pumps and dispatchers that move an event from place to place.   *)
LEMMA PumpTakesPlaces ==
    ASSUME IInv, AbandonedInv, NEW c \in Conns, PumpTakes(c)
    PROVE  AbandonedInv'
<1> USE DEF PumpTakes, coreVars, dispatchVars
<1>1. CASE UNCHANGED pumpVars
  <2>1. UNCHANGED <<acked, held, queue, started, pump, ctxDone>>
    BY <1>1 DEF pumpVars
  <2>2. QED
    BY <2>1, PlacedKept DEF Placed, Stopped, AbandonedInv
<1>2. CASE /\ acked' = acked \cup {Head(events)}
           /\ held' = [held EXCEPT ![c] = Head(events)]
           /\ pump' = [pump EXCEPT ![c] = "enqueue"]
           /\ UNCHANGED queue
  <2>1. /\ held[c] = 0 /\ held'[c] = Head(events)
        /\ \A d \in Conns : d # c => held'[d] = held[d]
        /\ 0 \notin acked /\ UNCHANGED <<queue, started, ctxDone>>
    BY <1>2 DEF IInv, TypeOK, LoopInv, Event
  <2>2. \A e \in acked : Placed(e) => Placed(e)'
    BY <2>1 DEF Placed
  <2>3. \A e \in acked' \ acked : Placed(e)'
    BY <1>2, <2>1 DEF Placed
  <2>4. Stopped' = Stopped
    BY <1>2 DEF Stopped, IInv, TypeOK
  <2>5. QED
    BY <2>1, <2>2, <2>3, <2>4, PlacedKept DEF AbandonedInv
<1>3. QED
  BY <1>1, <1>2

LEMMA PumpEnqueuesPlaces ==
    ASSUME IInv, AbandonedInv, NEW c \in Conns, PumpEnqueues(c)
    PROVE  AbandonedInv'
<1> USE DEF PumpEnqueues, coreVars, dispatchVars, slackVars
<1>1. /\ queue'[c] = Append(queue[c], held[c]) /\ queue[c] \in Seq(Event) /\ held[c] \in Event
      /\ \A d \in Conns : d # c => held'[d] = held[d] /\ queue'[d] = queue[d]
      /\ UNCHANGED <<acked, started, ctxDone>>
  BY SlackAssumption DEF IInv, TypeOK, LoopInv, Event
<1>2. /\ \A k \in DOMAIN queue[c] : k \in DOMAIN queue'[c] /\ queue'[c][k] = queue[c][k]
      /\ \E k \in DOMAIN queue'[c] : queue'[c][k] = held[c]
  BY <1>1
<1>3. \A e \in acked : Placed(e) => Placed(e)'
  BY <1>1, <1>2 DEF Placed
<1>4. Stopped' = Stopped
  BY DEF Stopped, IInv, TypeOK
<1>5. QED
  BY <1>1, <1>3, <1>4, PlacedKept DEF AbandonedInv

(* Nothing but the head is taken from a sequence with its tail, and an appended *)
(* sequence has what it had and the new element.                                *)
LEMMA TailHasRest ==
    \A S : \A q \in Seq(S) : q # <<>> =>
        /\ Head(q) \in S
        /\ \A k \in DOMAIN q : \/ q[k] = Head(q)
                               \/ k - 1 \in DOMAIN Tail(q) /\ Tail(q)[k - 1] = q[k]
<1> SUFFICES ASSUME NEW S, NEW q \in Seq(S), q # <<>>, NEW k \in DOMAIN q
    PROVE  /\ Head(q) \in S
           /\ \/ q[k] = Head(q)
              \/ k - 1 \in DOMAIN Tail(q) /\ Tail(q)[k - 1] = q[k]
  BY TailAt
<1>1. Head(q) \in S /\ Head(q) = q[1]
  BY TailAt
<1>2. CASE k # 1
  <2>1. k - 1 \in DOMAIN Tail(q) /\ k - 1 + 1 = k
    BY <1>2
  <2>2. Tail(q)[k - 1] = q[k - 1 + 1]
    BY <2>1, TailAt
  <2>3. QED
    BY <1>1, <2>1, <2>2
<1>3. QED
  BY <1>1, <1>2

LEMMA AppendHasAll ==
    ASSUME NEW S, NEW s \in Seq(S), NEW e \in S
    PROVE  /\ \A i \in DOMAIN s : i \in DOMAIN Append(s, e) /\ Append(s, e)[i] = s[i]
           /\ \E i \in DOMAIN Append(s, e) : Append(s, e)[i] = e
<1>1. /\ Len(s) + 1 \in DOMAIN Append(s, e) /\ Append(s, e)[Len(s) + 1] = e
      /\ \A i \in DOMAIN s : i \in DOMAIN Append(s, e) /\ Append(s, e)[i] = s[i]
  OBVIOUS
<1>2. QED
  BY <1>1

LEMMA HandlerStartsPlaces ==
    ASSUME IInv, AbandonedInv, NEW c \in Conns, HandlerStarts(c)
    PROVE  AbandonedInv'
<1> USE DEF HandlerStarts, coreVars, slackVars
<1>1. /\ queue[c] \in Seq(Event) /\ queue[c] # <<>> /\ queue'[c] = Tail(queue[c])
      /\ \A d \in Conns : d # c => queue'[d] = queue[d]
      /\ UNCHANGED <<acked, held, pump, ctxDone>>
  BY DEF IInv, TypeOK
<1>2. /\ Head(queue[c]) \in Event
      /\ \A k \in DOMAIN queue[c] :
            \/ queue[c][k] = Head(queue[c])
            \/ k - 1 \in DOMAIN queue'[c] /\ queue'[c][k - 1] = queue[c][k]
  BY <1>1, TailHasRest, Zenon
<1>3. /\ started \in Seq(Conns \X Event) /\ <<c, Head(queue[c])>> \in Conns \X Event
      /\ started' = Append(started, <<c, Head(queue[c])>>)
  BY <1>2 DEF IInv, TypeOK
<1>4. /\ \A i \in DOMAIN started : i \in DOMAIN started' /\ started'[i] = started[i]
      /\ \E i \in DOMAIN started' : started'[i] = <<c, Head(queue[c])>>
  <2> HIDE DEF HandlerStarts
  <2> DEFINE p == <<c, Head(queue[c])>>
  <2>1. started \in Seq(Conns \X Event) /\ p \in Conns \X Event /\ started' = Append(started, p)
    BY <1>3
  <2> HIDE DEF p
  <2>2. /\ \A i \in DOMAIN started : i \in DOMAIN started' /\ started'[i] = started[i]
        /\ \E i \in DOMAIN started' : started'[i] = p
    BY <2>1, AppendHasAll
  <2>3. QED
    BY <2>2 DEF p
<1>5. /\ \A i \in DOMAIN started : i \in DOMAIN started' /\ started'[i][2] = started[i][2]
      /\ \E i \in DOMAIN started' : started'[i][2] = Head(queue[c])
  BY <1>4
<1>6. ASSUME NEW e \in acked, Placed(e)
      PROVE  Placed(e)'
  <2>1. CASE \E d \in Conns : held[d] = e
    BY <1>1, <2>1 DEF Placed
  <2>2. CASE \E d \in Conns : \E k \in DOMAIN queue[d] : queue[d][k] = e
    <3>1. PICK d \in Conns : \E k \in DOMAIN queue[d] : queue[d][k] = e
      BY <2>2
    <3>2. PICK k \in DOMAIN queue[d] : queue[d][k] = e
      BY <3>1
    <3>3. CASE d # c
      <4>1. k \in DOMAIN queue'[d] /\ queue'[d][k] = e
        BY <1>1, <3>2, <3>3
      <4>2. QED
        BY <4>1 DEF Placed
    <3>4. CASE d = c /\ e = Head(queue[c])
      BY <1>5, <3>4 DEF Placed
    <3>5. CASE d = c /\ k - 1 \in DOMAIN queue'[c] /\ queue'[c][k - 1] = e
      BY <3>5 DEF Placed
    <3>6. QED
      BY <1>2, <3>2, <3>3, <3>4, <3>5
  <2>3. CASE \E i \in DOMAIN started : started[i][2] = e
    BY <1>5, <2>3 DEF Placed
  <2>4. QED
    BY <1>6, <2>1, <2>2, <2>3 DEF Placed
<1>7. Stopped' = Stopped
  BY <1>1 DEF Stopped
<1>8. QED
  BY <1>1, <1>6, <1>7, PlacedKept DEF AbandonedInv

(* The one step that abandons an event is the last of its pump.                 *)
LEMMA PumpAbandonsOne ==
    ASSUME IInv, AbandonedInv, NEW c \in Conns, PumpAbandons(c)
    PROVE  AbandonedInv'
<1> USE DEF PumpAbandons, coreVars, slackVars, dispatchVars
<1>1. /\ \A d \in Conns : d # c => held'[d] = held[d]
      /\ UNCHANGED <<acked, queue, started, ctxDone>>
  BY DEF IInv, TypeOK
<1>2. Abandoned' \subseteq Abandoned \cup {held[c]}
  BY <1>1 DEF Abandoned, Placed
<1>3. Stopped' = Stopped \cup {c} /\ c \notin Stopped /\ c \in ctxDone
  BY DEF Stopped, IInv, TypeOK
<1>4. OneEach(Abandoned \cup {held[c]}, Stopped')
  BY <1>3, OneEachGrows DEF AbandonedInv
<1>5. OneEach(Abandoned', Stopped')
  BY <1>2, <1>4, OneEachShrinks
<1>6. QED
  BY <1>1, <1>3, <1>5 DEF AbandonedInv, OneEach

LEMMA AbandonedStep == IInv /\ AbandonedInv /\ [Next]_vars => AbandonedInv'
<1> SUFFICES ASSUME IInv, AbandonedInv, [Next]_vars PROVE AbandonedInv'
  OBVIOUS
<1>1. ASSUME UNCHANGED <<acked, held, queue, started>>,
             Stopped \subseteq Stopped', Stopped' \subseteq ctxDone'
      PROVE  AbandonedInv'
  BY <1>1, PlacedKept DEF Placed
<1>2. ASSUME NEW c \in Conns, Deliver(c) \/ SocketEnds(c) \/ Connect(c) \/ Cancel(c) \/ PumpStops(c)
                                \/ HandlerReturns(c) \/ DispatcherExits(c)
      PROVE  AbandonedInv'
  BY <1>1, <1>2 DEF Deliver, SocketEnds, Connect, Cancel, PumpStops, HandlerReturns, DispatcherExits,
         coreVars, slackVars, pumpVars, dispatchVars, Stopped, AbandonedInv, IInv, TypeOK
<1>3. ASSUME NEW c \in Conns, PumpStep(c) \/ DispatchStep(c)
      PROVE  AbandonedInv'
  BY <1>2, <1>3, PumpTakesPlaces, PumpEnqueuesPlaces, PumpAbandonsOne, HandlerStartsPlaces
  DEF PumpStep, DispatchStep
<1>4. ASSUME DisconnectBegin \/ Drained \/ DrainTimeout \/ UNCHANGED vars
      PROVE  AbandonedInv'
  BY <1>1, <1>4 DEF DisconnectBegin, Drained, DrainTimeout, DisconnectEnd, vars,
         coreVars, slackVars, pumpVars, dispatchVars, Stopped, AbandonedInv
<1>5. QED
  BY <1>2, <1>3, <1>4 DEF Next

(* While every drain is in time, the acknowledged events that no handler got,   *)
(* once the adapter is disconnected, are at most one for each connection that   *)
(* was canceled: AckedNotAbandoned up to the event a pump was about to enqueue. *)
AtMostOneAbandonedEach ==
    current = NoConn /\ timedOut = {} => OneEach(acked \ Started, ctxDone)

(* It holds always, for each pump abandons one event at most and then exits.    *)
THEOREM AbandonsAreFew == Spec => []AtMostOneAbandonedEach
<1>1. Init => AbandonedInv
  <2> SUFFICES ASSUME Init PROVE AbandonedInv
    OBVIOUS
  <2>1. Stopped = {} /\ Abandoned = {}
    BY DEF Init, Stopped, Abandoned
  <2>2. [e \in {} |-> 0] \in [{} -> {}]
    OBVIOUS
  <2>3. QED
    BY <2>1, <2>2 DEF AbandonedInv, OneEach
<1>2. IInv /\ AbandonedInv => AtMostOneAbandonedEach
  <2> SUFFICES ASSUME IInv, AbandonedInv, current = NoConn, timedOut = {}
      PROVE  OneEach(acked \ Started, ctxDone)
    BY DEF AtMostOneAbandonedEach
  <2>1. \A c \in Conns : held[c] = 0 /\ queue[c] = <<>>
    BY SlackAssumption DEF IInv, TypeOK, LoopInv, CoreInv
  <2>2. 0 \notin acked /\ DOMAIN started = 1 .. Len(started)
    BY DEF IInv, TypeOK, Event
  <2>3. acked \ Started \subseteq Abandoned
    BY <2>1, <2>2 DEF Abandoned, Placed, Started
  <2>4. QED
    BY <2>3, OneEachShrinks DEF AbandonedInv
<1>3. QED
  BY <1>1, <1>2, AbandonedStep, Invariance, PTL DEF Spec
=============================================================================
