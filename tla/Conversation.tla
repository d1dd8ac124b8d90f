---------------------------- MODULE Conversation ----------------------------
(***************************************************************************)
(* Conversational flows: the engine of internal/core/conversation.go and   *)
(* the dispatch chain of core.go that feeds it.  Every incoming message is *)
(* dispatched on a goroutine of its own, so messages of one conversation   *)
(* race each other, the background sweeper and the clock.                  *)
(*                                                                         *)
(* A step is one critical section of the manager's mutex, or what comes    *)
(* before it (reading the clock) or after it (a prompt or a callback).     *)
(* A conversation is a user in a channel; the instance of a flow running   *)
(* there is named by the message that started it.                          *)
(*                                                                         *)
(* The sweeper too reads the clock before it waits for the mutex; here it  *)
(* reads it under the mutex.  An older clock makes it leave states to the  *)
(* next sweep, and conversations do not depend on each other's.            *)
(***************************************************************************)
EXTENDS Integers, Sequences

CONSTANTS Msgs,       \* messages dispatched (each once)
          Convs,      \* conversation keys
          Flows,      \* registered flows, each with its own trigger text
          NSteps,     \* questions per flow
          TTL,        \* idle timeout of every flow
          MaxTime,    \* bound on the clock
          LastArrival,\* bound on arrivals (leaves time for a flow to expire)
          None        \* no active flow

ASSUME ConversationAssumption == /\ NSteps \in Nat \ {0}
                                 /\ TTL \in Nat \ {0}
                                 /\ MaxTime \in Nat
                                 /\ LastArrival \in Nat
                                 /\ None \notin Msgs \cup Convs
                                 /\ Flows \cap {"plain", "cancel", "rejected", "panics"} = {}

\* What a message says: the trigger of a flow, which inside a flow is an ordinary
\* answer, other text, the cancel word, a non-answer (empty, or rejected by the
\* validator), or an answer the validator panics on.
Texts == Flows \cup {"plain", "cancel", "rejected", "panics"}

VARIABLES clock,     \* time.Now()
          sweeping,  \* a sweeper goroutine runs: a connection is up
          state,     \* the manager's map, conversation -> state or None
          pc,        \* where each dispatch is
          conv,      \* the message's conversation
          text,      \* the message's content
          now,       \* advance's local "now"
          action,    \* what to do after the lock: [kind, flow instance, answers]
          called,    \* callbacks that ran for each flow instance
          heard      \* history: when the user last spoke to the active flow

vars == <<clock, sweeping, state, pc, conv, text, now, action, called, heard>>

Keys == 0 .. NSteps - 1
NoAnswers == [k \in {} |-> None]
NoAction == [kind |-> "none"]

PCs == {"new", "advance", "command", "act", "end"}
Callbacks == {"onComplete", "onCancel", "onTimeout"}

Init == /\ clock = 0
        /\ sweeping = TRUE
        /\ state = [c \in Convs |-> None]
        /\ pc = [m \in Msgs |-> "new"]
        /\ conv = [m \in Msgs |-> None]
        /\ text = [m \in Msgs |-> "rejected"]
        /\ now = [m \in Msgs |-> 0]
        /\ action = [m \in Msgs |-> NoAction]
        /\ called = [m \in Msgs |-> <<>>]
        /\ heard = [c \in Convs |-> 0]

-----------------------------------------------------------------------------
(* Helpers *)

Goto(m, l) == pc' = [pc EXCEPT ![m] = l]
Active(m) == state[conv[m]]

\* isExpired: a deadline at or before t.
IsExpired(s, t) == s.expires <= t

\* The post-lock work of message m is to call back, or prompt, for instance i.
Then(m, kind, i, answers) ==
    /\ action' = [action EXCEPT ![m] = [kind |-> kind, flow |-> i, answers |-> answers]]
    /\ Goto(m, "act")

\* The dispatch returns; its local variables are gone.
End(m) == /\ Goto(m, "end")
          /\ text' = [text EXCEPT ![m] = "rejected"]
          /\ now' = [now EXCEPT ![m] = 0]
          /\ action' = [action EXCEPT ![m] = NoAction]

\* transitionLocked can handle m: its dispatch holds the lock, a flow is active
\* and not expired at the time m read the clock.
InFlow(m) == /\ pc[m] = "advance"
             /\ Active(m) # None
             /\ ~IsExpired(Active(m), now[m])

\* slideTTL: the deadline restarts from the clock value m read before the lock.
Slide(m, s) ==
    /\ state' = [state EXCEPT ![conv[m]] = [s EXCEPT !.expires = now[m] + TTL]]
    /\ heard' = [heard EXCEPT ![conv[m]] = IF @ < now[m] THEN now[m] ELSE @]

Delete(m) == /\ state' = [state EXCEPT ![conv[m]] = None]
             /\ UNCHANGED heard

\* The answers with m's stored under the current step's key.
Answered(m) == [k \in DOMAIN Active(m).answers \cup {Active(m).step} |->
                    IF k = Active(m).step THEN m ELSE Active(m).answers[k]]
Accepts(m) == InFlow(m) /\ text[m] \in Flows \cup {"plain"}

-----------------------------------------------------------------------------
(* dispatch and advance *)

\* A message arrives and its dispatch reads the clock before it asks for the lock.
Dispatch(m) == /\ pc[m] = "new"
               /\ clock <= LastArrival
               /\ \E c \in Convs, t \in Texts : /\ conv' = [conv EXCEPT ![m] = c]
                                                /\ text' = [text EXCEPT ![m] = t]
               /\ now' = [now EXCEPT ![m] = clock]
               /\ Goto(m, "advance")
               /\ UNCHANGED <<clock, sweeping, state, action, called, heard>>

\* No active flow: the message goes on to the command table.
NoFlow(m) == /\ pc[m] = "advance"
             /\ Active(m) = None
             /\ Goto(m, "command")
             /\ UNCHANGED <<clock, sweeping, state, conv, text, now, action, called, heard>>

\* The flow had expired: it is reaped and the message consumed by OnTimeout.
Expire(m) == /\ pc[m] = "advance"
             /\ Active(m) # None
             /\ IsExpired(Active(m), now[m])
             /\ Delete(m)
             /\ Then(m, "onTimeout", Active(m).id, NoAnswers)
             /\ UNCHANGED <<clock, sweeping, conv, text, now, called>>

\* The cancel word shadows every step.
Cancel(m) == /\ InFlow(m)
             /\ text[m] = "cancel"
             /\ Delete(m)
             /\ Then(m, "onCancel", Active(m).id, NoAnswers)
             /\ UNCHANGED <<clock, sweeping, conv, text, now, called>>

\* Fault: an empty or rejected answer moves on to the next question.
RepromptSkips(m) ==
    /\ InFlow(m)
    /\ text[m] = "rejected"
    /\ Active(m).step # NSteps - 1
    /\ Slide(m, [Active(m) EXCEPT !.step = @ + 1])
    /\ Then(m, "prompt", Active(m).id, NoAnswers)
    /\ UNCHANGED <<clock, sweeping, conv, text, now, called>>

\* An empty or rejected answer slides the deadline and prompts again.
Reprompt(m) == /\ InFlow(m)
               /\ text[m] = "rejected"
               /\ Slide(m, Active(m))
               /\ Then(m, "prompt", Active(m).id, NoAnswers)
               /\ UNCHANGED <<clock, sweeping, conv, text, now, called>>

\* A panic in the validator releases the lock and ends the dispatch.
ValidatorPanics(m) == /\ InFlow(m)
                      /\ text[m] = "panics"
                      /\ End(m)
                      /\ UNCHANGED <<clock, sweeping, state, conv, called, heard>>

\* Fault: the last answer forgets to delete the state.
CompleteWithoutDelete(m) ==
    /\ Accepts(m)
    /\ Active(m).step = NSteps - 1
    /\ Then(m, "onComplete", Active(m).id, Answered(m))
    /\ UNCHANGED <<clock, sweeping, state, conv, text, now, called, heard>>

\* The last answer deletes the state and completes with all answers.
Complete(m) == /\ Accepts(m)
               /\ Active(m).step = NSteps - 1
               /\ Delete(m)
               /\ Then(m, "onComplete", Active(m).id, Answered(m))
               /\ UNCHANGED <<clock, sweeping, conv, text, now, called>>

\* Fault: the step is advanced past the last question.
NextStepAnyway(m) ==
    /\ Accepts(m)
    /\ Slide(m, [Active(m) EXCEPT !.answers = Answered(m), !.step = @ + 1])
    /\ Then(m, "prompt", Active(m).id, NoAnswers)
    /\ UNCHANGED <<clock, sweeping, conv, text, now, called>>

\* Any other answer advances the step, slides the deadline and prompts.
NextStep(m) == /\ Accepts(m)
               /\ Active(m).step # NSteps - 1
               /\ Slide(m, [Active(m) EXCEPT !.answers = Answered(m), !.step = @ + 1])
               /\ Then(m, "prompt", Active(m).id, NoAnswers)
               /\ UNCHANGED <<clock, sweeping, conv, text, now, called>>

\* After the lock: the prompt is sent, or the callback runs.
Act(m) == /\ pc[m] = "act"
          /\ called' = IF action[m].kind \in Callbacks
                       THEN [called EXCEPT ![action[m].flow] = Append(@, action[m].kind)]
                       ELSE called
          /\ End(m)
          /\ UNCHANGED <<clock, sweeping, state, conv, heard>>

-----------------------------------------------------------------------------
(* The command table: a trigger starts its flow, other text is no command *)

\* Fault: start falls through to advance, which takes the trigger as an answer.
StartFallsThrough(m) ==
    /\ pc[m] = "command"
    /\ text[m] \in Flows
    /\ Active(m) = None
    /\ state' = [state EXCEPT ![conv[m]] =
                    [id |-> m, step |-> 0, answers |-> NoAnswers, expires |-> clock + TTL]]
    /\ heard' = [heard EXCEPT ![conv[m]] = clock]
    /\ Goto(m, "advance")
    /\ UNCHANGED <<clock, sweeping, conv, text, now, action, called>>

\* Fault: the state is set without looking whether one is there.
StartOverwrites(m) ==
    /\ pc[m] = "command"
    /\ text[m] \in Flows
    /\ state' = [state EXCEPT ![conv[m]] =
                    [id |-> m, step |-> 0, answers |-> NoAnswers, expires |-> clock + TTL]]
    /\ heard' = [heard EXCEPT ![conv[m]] = clock]
    /\ Then(m, "prompt", m, NoAnswers)
    /\ UNCHANGED <<clock, sweeping, conv, text, now, called>>

\* start: set-if-absent under the lock, with the clock read there.
Start(m) == /\ pc[m] = "command"
            /\ text[m] \in Flows
            /\ Active(m) = None
            /\ state' = [state EXCEPT ![conv[m]] =
                            [id |-> m, step |-> 0, answers |-> NoAnswers, expires |-> clock + TTL]]
            /\ heard' = [heard EXCEPT ![conv[m]] = clock]
            /\ Then(m, "prompt", m, NoAnswers)
            /\ UNCHANGED <<clock, sweeping, conv, text, now, called>>

\* A trigger that lost the race to start is dropped, never an answer; text that
\* matches no command goes to the unknown-command handler.
NotStarted(m) == /\ pc[m] = "command"
                 /\ text[m] \in Flows => Active(m) # None
                 /\ End(m)
                 /\ UNCHANGED <<clock, sweeping, state, conv, called, heard>>

-----------------------------------------------------------------------------
(* The sweeper, the connection and the clock *)

\* Fault: the sweeper spares flows nobody has answered.
SweepSpares ==
    LET stale(c) == state[c] # None /\ IsExpired(state[c], clock) /\ state[c].step # 0
    IN  /\ sweeping
        /\ \E c \in Convs : stale(c)
        /\ state' = [c \in Convs |-> IF stale(c) THEN None ELSE state[c]]
        /\ UNCHANGED <<clock, sweeping, pc, conv, text, now, action, called, heard>>

\* The sweeper of a live connection deletes every expired state, calling nobody.
Sweep == /\ sweeping
         /\ \E c \in Convs : state[c] # None /\ IsExpired(state[c], clock)
         /\ state' = [c \in Convs |-> IF state[c] # None /\ IsExpired(state[c], clock)
                                       THEN None ELSE state[c]]
         /\ UNCHANGED <<clock, sweeping, pc, conv, text, now, action, called, heard>>

\* A connection's end stops its sweeper, a new one starts one; states survive both.
Reconnect == /\ sweeping' = ~sweeping
             /\ UNCHANGED <<clock, state, pc, conv, text, now, action, called, heard>>

Tick == /\ clock < MaxTime
        /\ clock' = clock + 1
        /\ UNCHANGED <<sweeping, state, pc, conv, text, now, action, called, heard>>

-----------------------------------------------------------------------------
Transition(m) == \/ NoFlow(m) \/ Expire(m) \/ Cancel(m) \/ Reprompt(m)
                 \/ ValidatorPanics(m) \/ Complete(m) \/ NextStep(m)

Handle(m) == Transition(m) \/ Act(m) \/ Start(m) \/ NotStarted(m)

Next == \/ \E m \in Msgs : Dispatch(m) \/ Handle(m)
        \/ Sweep
        \/ Reconnect
        \/ Tick

Spec == Init /\ [][Next]_vars

(* Dispatched messages are handled, time passes, and the sweeper's ticker fires *)
(* while a connection is up.  Nobody has to send a message or to reconnect.     *)
FairSpec == /\ Spec
            /\ \A m \in Msgs : WF_vars(Handle(m))
            /\ WF_vars(Tick)
            /\ WF_vars(Sweep)

-----------------------------------------------------------------------------
(* Properties *)

Answers == UNION {[0 .. k - 1 -> Msgs] : k \in 0 .. NSteps}
Asking == [id : Msgs, step : Keys, answers : Answers, expires : Nat]
Pending == [kind : Callbacks \cup {"prompt"}, flow : Msgs, answers : Answers]

(* Types of every variable. *)
TypeOK == /\ clock \in Nat
          /\ sweeping \in BOOLEAN
          /\ state \in [Convs -> Asking \cup {None}]
          /\ pc \in [Msgs -> PCs]
          /\ conv \in [Msgs -> Convs \cup {None}]
          /\ text \in [Msgs -> Texts]
          /\ now \in [Msgs -> Nat]
          /\ action \in [Msgs -> Pending \cup {NoAction}]
          /\ called \in [Msgs -> Seq(Callbacks)]
          /\ heard \in [Convs -> Nat]

(* An active flow holds exactly the answers to the questions before its current *)
(* step, and a completing one the answers to all of them: no question is        *)
(* skipped and none is answered ahead of its prompt, however the messages of a  *)
(* conversation interleave with each other, the sweeper and the clock.          *)
AnswersMatchSteps ==
    /\ \A c \in Convs : state[c] # None => DOMAIN state[c].answers = 0 .. state[c].step - 1
    /\ \A m \in Msgs : action[m].kind = "onComplete" => DOMAIN action[m].answers = Keys

\* The answers of flow instance i are messages of conversation c other than the
\* one that started i, each answering one question.
OwnAnswers(c, i, answers) ==
    \A k \in DOMAIN answers : /\ conv[answers[k]] = c
                              /\ answers[k] # i
                              /\ \A l \in DOMAIN answers : answers[k] = answers[l] => k = l

(* A flow is answered by its own conversation only: never by another user or     *)
(* channel, by the message that triggered it, or twice by one message.           *)
AnswersAreOwn ==
    /\ \A c \in Convs : state[c] # None => /\ conv[state[c].id] = c
                                           /\ OwnAnswers(c, state[c].id, state[c].answers)
    /\ \A m \in Msgs : action[m].kind = "onComplete" =>
                          OwnAnswers(conv[m], action[m].flow, action[m].answers)

\* The dispatches about to call back for instance i.
Ending(i) == {m \in Msgs : action[m].kind \in Callbacks /\ action[m].flow = i}

(* A flow ends at most once: of completion, cancellation and timeout one callback *)
(* runs, once, and only for an instance that is no longer active, so two answers  *)
(* racing for the last question cannot both complete it.                          *)
EndsOnce ==
    \A i \in Msgs :
        /\ \/ called[i] = <<>>
           \/ Len(called[i]) = 1 /\ Ending(i) = {}
        /\ \A m, n \in Ending(i) : m = n
        /\ called[i] # <<>> \/ Ending(i) # {} => \A c \in Convs : state[c] # None => state[c].id # i

\* A step keeps the flow of c at its question, or moves it to the next one with the
\* earlier answers kept.
MovesForward(c) == /\ state'[c].id = state[c].id
                   /\ state'[c].step - state[c].step \in {0, 1}
                   /\ \A k \in DOMAIN state[c].answers :
                         k \in DOMAIN state'[c].answers /\ state'[c].answers[k] = state[c].answers[k]

(* A flow moves forward only: a step leaves an instance alone, moves it to its  *)
(* next question with the earlier answers kept, or ends it; one instance is     *)
(* never replaced by another in one step, as a second trigger would.            *)
ForwardOnly == [][\A c \in Convs : state[c] # None /\ state'[c] # None => MovesForward(c)]_state

(* flow.go:138: "Only going quiet past the TTL lets the flow expire."  A flow is  *)
(* reaped, by the sweeper or by a late message, only when the user's last message *)
(* to it is at least TTL old.                                                     *)
OnlyQuietFlowsExpire ==
    [][Sweep \/ (\E m \in Msgs : Expire(m)) =>
          \A c \in Convs : state[c] # None /\ state'[c] = None => heard[c] + TTL <= clock]_vars

(* While a connection is up an idle flow does not linger: every conversation is   *)
(* free of flows again and again, unless its deadline lies beyond MaxTime.        *)
AbandonedFlowsGo ==
    <>[]sweeping =>
        \A c \in Convs : []<>(state[c] = None \/ state[c].expires > MaxTime)
=============================================================================
