-------------------------- MODULE ConversationProofs --------------------------
(***************************************************************************)
(* Proofs about Conversation, for any number of messages, conversations,   *)
(* flows and questions and any timeouts.                                   *)
(***************************************************************************)
EXTENDS Conversation, TLAPS

\* Message m has neither started a flow nor answered a question.
Unused(m) ==
    /\ called[m] = <<>>
    /\ \A c \in Convs : state[c] # None =>
          state[c].id # m /\ \A k \in DOMAIN state[c].answers : state[c].answers[k] # m
    /\ \A n \in Msgs : action[n] # NoAction =>
          action[n].flow # m /\ \A k \in DOMAIN action[n].answers : action[n].answers[k] # m

(* Where a message is tells what it has done: before it leaves the command      *)
(* table it is part of no flow, and it has post-lock work only while it does it.*)
PhaseInv == \A m \in Msgs :
    /\ pc[m] # "new" => conv[m] \in Convs
    /\ action[m] # NoAction <=> pc[m] = "act"
    /\ pc[m] \in {"new", "advance", "command"} => Unused(m)

(* What a dispatch does to the flow of its conversation while it holds the lock: *)
(* it keeps the flow, perhaps with its answer added, or ends it, and remembers    *)
(* the prompt or callback that follows.                                           *)
FlowStep(m) ==
    LET c == conv[m]
        s == state[c]
    IN  /\ c \in Convs /\ s # None /\ s \in Asking
        /\ pc[m] = "advance"
        /\ UNCHANGED <<conv, called>>
        /\ \A d \in Convs : d # c => state'[d] = state[d]
        /\ \/ state'[c] = None
           \/ /\ state'[c].id = s.id
              /\ state'[c].answers \in {s.answers, Answered(m)}
              /\ action'[m].kind = "prompt"
        /\ pc'[m] = "act"
        /\ action'[m] # NoAction
        /\ action'[m].flow = s.id
        /\ action'[m].answers \in {NoAnswers, Answered(m)}
        /\ \A n \in Msgs : n # m => action'[n] = action[n] /\ pc'[n] = pc[n]

IInv == TypeOK /\ PhaseInv /\ AnswersMatchSteps /\ AnswersAreOwn /\ EndsOnce
-----------------------------------------------------------------------------
(* What a dispatch remembers of its answers.                                    *)
LEMMA NoAnswersType == NoAnswers \in Answers /\ DOMAIN NoAnswers = {}
<1>1. 0 \in 0 .. NSteps /\ 0 .. 0 - 1 = {}
  BY ConversationAssumption
<1>2. NoAnswers \in [0 .. 0 - 1 -> Msgs]
  BY <1>1 DEF NoAnswers
<1>3. QED
  BY <1>1, <1>2 DEF Answers, NoAnswers

LEMMA AnswersType ==
    ASSUME NEW a \in Answers, NEW k \in DOMAIN a
    PROVE  a[k] \in Msgs
BY DEF Answers

(* An accepted answer is added to those of the earlier questions.               *)
LEMMA AnsweredType ==
    ASSUME TypeOK, AnswersMatchSteps, NEW m \in Msgs, conv[m] \in Convs, Active(m) # None
    PROVE  /\ Active(m) \in Asking
           /\ Answered(m) \in Answers
           /\ DOMAIN Answered(m) = 0 .. Active(m).step
           /\ \A k \in 0 .. Active(m).step :
                 Answered(m)[k] = IF k = Active(m).step THEN m ELSE Active(m).answers[k]
           /\ DOMAIN Active(m).answers = 0 .. Active(m).step - 1
           /\ Active(m).step \in Nat
<1> DEFINE s == Active(m)
<1> USE ConversationAssumption
<1>1. s \in Asking /\ s.step \in Nat /\ s.step + 1 \in 0 .. NSteps
  BY DEF TypeOK, Active, Asking, Keys
<1>2. DOMAIN s.answers = 0 .. s.step - 1 /\ s.answers \in Answers
  BY DEF TypeOK, AnswersMatchSteps, Active, Asking
<1>3. \A k \in 0 .. s.step - 1 : s.answers[k] \in Msgs
  BY <1>2, AnswersType
<1>4. DOMAIN s.answers \cup {s.step} = 0 .. (s.step + 1) - 1 /\ (s.step + 1) - 1 = s.step
  BY <1>1, <1>2
<1>5. Answered(m) \in [0 .. (s.step + 1) - 1 -> Msgs]
  BY <1>2, <1>3, <1>4 DEF Answered
<1>6. Answered(m) \in Answers
  BY <1>1, <1>5 DEF Answers
<1>7. QED
  BY <1>1, <1>2, <1>4, <1>5, <1>6 DEF Answered

(* Post-lock work is remembered by the dispatch that found it, by no other.     *)
LEMMA ThenEffect ==
    ASSUME TypeOK, NEW m \in Msgs, NEW kind \in Callbacks \cup {"prompt"}, NEW i \in Msgs,
           NEW answers \in Answers, Then(m, kind, i, answers)
    PROVE  /\ action' \in [Msgs -> Pending \cup {NoAction}]
           /\ pc' \in [Msgs -> PCs]
           /\ pc'[m] = "act"
           /\ action'[m] # NoAction
           /\ action'[m].kind = kind /\ action'[m].flow = i /\ action'[m].answers = answers
           /\ \A n \in Msgs : n # m => action'[n] = action[n] /\ pc'[n] = pc[n]
BY DEF TypeOK, Then, Goto, Pending, PCs, Callbacks, NoAction

(* Ending a flow touches the state of the message's conversation only.           *)
LEMMA DeleteEffect ==
    ASSUME TypeOK, NEW m \in Msgs, conv[m] \in Convs, Delete(m)
    PROVE  /\ state' \in [Convs -> Asking \cup {None}]
           /\ heard' \in [Convs -> Nat]
           /\ state'[conv[m]] = None
           /\ \A c \in Convs : c # conv[m] => state'[c] = state[c]
BY DEF TypeOK, Delete

(* Sliding the deadline touches the state of the message's conversation only.   *)
LEMMA SlideEffect ==
    ASSUME TypeOK, NEW m \in Msgs, conv[m] \in Convs, NEW s \in Asking, Slide(m, s)
    PROVE  /\ state' \in [Convs -> Asking \cup {None}]
           /\ heard' \in [Convs -> Nat]
           /\ state'[conv[m]] \in Asking
           /\ state'[conv[m]].id = s.id /\ state'[conv[m]].step = s.step
           /\ state'[conv[m]].answers = s.answers
           /\ \A c \in Convs : c # conv[m] => state'[c] = state[c]
<1>1. now[m] + TTL \in Nat
  BY ConversationAssumption DEF TypeOK
<1>2. [s EXCEPT !.expires = now[m] + TTL] \in Asking
  BY <1>1 DEF Asking
<1>3. QED
  BY <1>2 DEF TypeOK, Slide, Asking

(* IInv holds initially.                                                        *)
LEMMA InitInv == Init => IInv
<1> SUFFICES ASSUME Init PROVE IInv
  OBVIOUS
<1> USE ConversationAssumption DEF Init, NoAction
<1>1. TypeOK
  BY DEF TypeOK, PCs, Texts
<1>2. PhaseInv
  BY DEF PhaseInv, Unused
<1>3. AnswersMatchSteps /\ AnswersAreOwn /\ EndsOnce
  BY DEF AnswersMatchSteps, AnswersAreOwn, EndsOnce, Ending, Callbacks
<1>4. QED
  BY <1>1, <1>2, <1>3 DEF IInv

(* A step inside a flow keeps what the other parts of IInv say.                 *)
LEMMA FlowStepInv ==
    ASSUME IInv, NEW m \in Msgs, FlowStep(m)
    PROVE  PhaseInv' /\ AnswersAreOwn' /\ EndsOnce'
<1> DEFINE c == conv[m]
           s == state[c]
<1> USE ConversationAssumption
<1>1. /\ c \in Convs /\ s # None /\ s \in Asking /\ s = Active(m) /\ s.id \in Msgs
      /\ pc[m] = "advance" /\ pc'[m] = "act"
      /\ UNCHANGED <<conv, called>>
  BY DEF FlowStep, Asking, Active
<1>2. /\ \A d \in Convs : d # c => state'[d] = state[d]
      /\ \/ state'[c] = None
         \/ /\ state'[c].id = s.id
            /\ state'[c].answers \in {s.answers, Answered(m)}
            /\ action'[m].kind = "prompt"
  BY DEF FlowStep
<1>3. /\ action'[m] # NoAction
      /\ action'[m].flow = s.id
      /\ action'[m].answers \in {NoAnswers, Answered(m)}
      /\ \A n \in Msgs : n # m => action'[n] = action[n] /\ pc'[n] = pc[n]
  BY DEF FlowStep
<1>4. /\ DOMAIN s.answers = 0 .. s.step - 1 /\ s.step \in Nat
      /\ DOMAIN Answered(m) = 0 .. s.step
      /\ \A k \in 0 .. s.step : Answered(m)[k] = IF k = s.step THEN m ELSE s.answers[k]
  BY <1>1, AnsweredType DEF IInv
<1>5. Unused(m) /\ action[m] = NoAction /\ \A n \in Msgs : action[n] # NoAction <=> pc[n] = "act"
  BY <1>1 DEF IInv, PhaseInv
<1>6. conv[s.id] = c /\ OwnAnswers(c, s.id, s.answers)
  BY <1>1 DEF IInv, AnswersAreOwn
<1>7. s.id # m /\ \A k \in DOMAIN s.answers : s.answers[k] # m
  BY <1>1, <1>5 DEF Unused
<1>8. \A d \in Convs : state[d] # None /\ state[d].id = s.id => d = c
  BY <1>6 DEF IInv, AnswersAreOwn
<1>9. called[s.id] = <<>> /\ Ending(s.id) = {}
  BY <1>1 DEF IInv, EndsOnce
<1> HIDE DEF c, s
<1>10. PhaseInv'
  <2>1. ASSUME NEW n \in Msgs, pc'[n] # "new"
        PROVE  conv'[n] \in Convs
    BY <2>1, <1>1, <1>3 DEF IInv, PhaseInv, c
  <2>2. ASSUME NEW n \in Msgs
        PROVE  (action'[n] # NoAction) <=> (pc'[n] = "act")
    BY <1>1, <1>3, <1>5
  <2>3. ASSUME NEW n \in Msgs, pc'[n] \in {"new", "advance", "command"}
        PROVE  Unused(n)'
    <3>1. n # m /\ Unused(n)
      BY <2>3, <1>1, <1>3 DEF IInv, PhaseInv
    <3>2. s.id # n /\ \A k \in DOMAIN s.answers : s.answers[k] # n
      BY <3>1, <1>1 DEF Unused, s
    <3>3. \A k \in DOMAIN Answered(m) : Answered(m)[k] # n
      BY <3>1, <3>2, <1>4
    <3>4. ASSUME NEW d \in Convs, state'[d] # None
          PROVE  state'[d].id # n /\ \A k \in DOMAIN state'[d].answers : state'[d].answers[k] # n
      BY <3>1, <3>2, <3>3, <3>4, <1>2 DEF Unused
    <3>5. ASSUME NEW p \in Msgs, action'[p] # NoAction
          PROVE  action'[p].flow # n /\ \A k \in DOMAIN action'[p].answers : action'[p].answers[k] # n
      BY <3>1, <3>2, <3>3, <3>5, <1>3, NoAnswersType DEF Unused
    <3>6. QED
      BY <3>1, <3>4, <3>5, <1>1 DEF Unused, NoAction
  <2>4. QED
    BY <2>1, <2>2, <2>3 DEF PhaseInv, NoAction
<1>11. AnswersAreOwn'
  <2>1. OwnAnswers(c, s.id, Answered(m))
    BY <1>1, <1>4, <1>6, <1>7 DEF OwnAnswers, c
  <2>2. OwnAnswers(c, s.id, NoAnswers)
    BY NoAnswersType DEF OwnAnswers
  <2>3. ASSUME NEW d \in Convs, state'[d] # None
        PROVE  conv[state'[d].id] = d /\ OwnAnswers(d, state'[d].id, state'[d].answers)
    BY <2>1, <2>3, <1>2, <1>6 DEF IInv, AnswersAreOwn
  <2>4. ASSUME NEW n \in Msgs, action'[n].kind = "onComplete"
        PROVE  OwnAnswers(conv[n], action'[n].flow, action'[n].answers)
    BY <2>1, <2>2, <2>4, <1>3 DEF IInv, AnswersAreOwn, c
  <2>5. QED
    BY <2>3, <2>4, <1>1 DEF AnswersAreOwn, OwnAnswers
<1>12. EndsOnce'
  <2>1. ASSUME NEW i \in Msgs, i # s.id
        PROVE  Ending(i)' = Ending(i)
    BY <2>1, <1>3, <1>5 DEF Ending, NoAction, Callbacks
  <2>2. ASSUME NEW i \in Msgs, i = s.id, NEW p \in Ending(i)'
        PROVE  p = m /\ action'[m].kind \in Callbacks
    BY <2>2, <1>3, <1>9 DEF Ending
  <2>3. ASSUME NEW i \in Msgs, i = s.id, NEW p \in Ending(i)'
        PROVE  state'[c] = None
    BY <2>2, <2>3, <1>2 DEF Callbacks
  <2>4. \A d \in Convs : state'[d] # None /\ state'[d].id = s.id => d = c
    BY <1>2, <1>8
  <2>5. ASSUME NEW i \in Msgs, NEW d \in Convs, i # s.id, state'[d] # None, state'[d].id = i
        PROVE  state[d] # None /\ state[d].id = i
    BY <2>5, <1>2
  <2>6. ASSUME NEW i \in Msgs
        PROVE  /\ \/ called[i] = <<>>
                  \/ Len(called[i]) = 1 /\ Ending(i)' = {}
               /\ \A p, q \in Ending(i)' : p = q
               /\ (called[i] # <<>> \/ Ending(i)' # {}) =>
                     \A d \in Convs : state'[d] # None => state'[d].id # i
    <3>1. CASE i = s.id
      BY <3>1, <1>9, <2>2, <2>3, <2>4
    <3>2. CASE i # s.id
      BY <3>2, <2>1, <2>5 DEF IInv, EndsOnce
    <3>3. QED
      BY <3>1, <3>2
  <2>7. QED
    BY <2>6, <1>1 DEF EndsOnce
<1>13. QED
  BY <1>10, <1>11, <1>12

(* Each of the lock's critical sections inside a flow keeps IInv.               *)
LEMMA ExpireInv ==
    ASSUME IInv, NEW m \in Msgs, Expire(m)
    PROVE  IInv'
<1> DEFINE c == conv[m]
           s == state[c]
<1> USE ConversationAssumption
<1>1. /\ c \in Convs /\ s # None /\ s = Active(m) /\ s \in Asking
      /\ pc[m] = "advance" /\ s.id \in Msgs /\ s.step \in Keys /\ s.answers \in Answers
  BY DEF Expire, Active, IInv, PhaseInv, TypeOK, Asking
<1>2. /\ state' \in [Convs -> Asking \cup {None}] /\ heard' \in [Convs -> Nat]
      /\ state'[c] = None
      /\ \A d \in Convs : d # c => state'[d] = state[d]
  BY <1>1, DeleteEffect DEF IInv, Expire
<1>3. /\ action' \in [Msgs -> Pending \cup {NoAction}] /\ pc' \in [Msgs -> PCs]
      /\ pc'[m] = "act" /\ action'[m] # NoAction
      /\ action'[m].kind = "onTimeout" /\ action'[m].flow = s.id /\ action'[m].answers = NoAnswers
      /\ \A n \in Msgs : n # m => action'[n] = action[n] /\ pc'[n] = pc[n]
  <2>1. Then(m, "onTimeout", s.id, NoAnswers)
    BY <1>1 DEF Expire
  <2>2. QED
    BY <1>1, <2>1, NoAnswersType, ThenEffect DEF IInv, Callbacks
<1>4. UNCHANGED <<clock, sweeping, conv, text, now, called>>
  BY DEF Expire
<1> HIDE DEF c, s
<1>5. TypeOK'
  BY <1>2, <1>3, <1>4 DEF IInv, TypeOK
<1>6. FlowStep(m)
  BY <1>1, <1>2, <1>3, <1>4 DEF FlowStep, c, s
<1>7. AnswersMatchSteps'
  <2>1. ASSUME NEW d \in Convs, state'[d] # None
        PROVE  DOMAIN state'[d].answers = 0 .. state'[d].step - 1
    BY <1>1, <2>1, <1>2 DEF IInv, AnswersMatchSteps, s, Keys
  <2>2. ASSUME NEW n \in Msgs, action'[n].kind = "onComplete"
        PROVE  DOMAIN action'[n].answers = Keys
    BY <1>1, <2>2, <1>3 DEF IInv, AnswersMatchSteps
  <2>3. QED
    BY <2>1, <2>2 DEF AnswersMatchSteps, Keys
<1>8. QED
  BY <1>5, <1>6, <1>7, FlowStepInv DEF IInv

LEMMA CancelInv ==
    ASSUME IInv, NEW m \in Msgs, Cancel(m)
    PROVE  IInv'
<1> DEFINE c == conv[m]
           s == state[c]
<1> USE ConversationAssumption
<1>1. /\ c \in Convs /\ s # None /\ s = Active(m) /\ s \in Asking
      /\ pc[m] = "advance" /\ s.id \in Msgs /\ s.step \in Keys /\ s.answers \in Answers
  BY DEF Cancel, InFlow, Active, IInv, PhaseInv, TypeOK, Asking
<1>2. /\ state' \in [Convs -> Asking \cup {None}] /\ heard' \in [Convs -> Nat]
      /\ state'[c] = None
      /\ \A d \in Convs : d # c => state'[d] = state[d]
  BY <1>1, DeleteEffect DEF IInv, Cancel
<1>3. /\ action' \in [Msgs -> Pending \cup {NoAction}] /\ pc' \in [Msgs -> PCs]
      /\ pc'[m] = "act" /\ action'[m] # NoAction
      /\ action'[m].kind = "onCancel" /\ action'[m].flow = s.id /\ action'[m].answers = NoAnswers
      /\ \A n \in Msgs : n # m => action'[n] = action[n] /\ pc'[n] = pc[n]
  <2>1. Then(m, "onCancel", s.id, NoAnswers)
    BY <1>1 DEF Cancel
  <2>2. QED
    BY <1>1, <2>1, NoAnswersType, ThenEffect DEF IInv, Callbacks
<1>4. UNCHANGED <<clock, sweeping, conv, text, now, called>>
  BY DEF Cancel
<1> HIDE DEF c, s
<1>5. TypeOK'
  BY <1>2, <1>3, <1>4 DEF IInv, TypeOK
<1>6. FlowStep(m)
  BY <1>1, <1>2, <1>3, <1>4 DEF FlowStep, c, s
<1>7. AnswersMatchSteps'
  <2>1. ASSUME NEW d \in Convs, state'[d] # None
        PROVE  DOMAIN state'[d].answers = 0 .. state'[d].step - 1
    BY <1>1, <2>1, <1>2 DEF IInv, AnswersMatchSteps, s, Keys
  <2>2. ASSUME NEW n \in Msgs, action'[n].kind = "onComplete"
        PROVE  DOMAIN action'[n].answers = Keys
    BY <1>1, <2>2, <1>3 DEF IInv, AnswersMatchSteps
  <2>3. QED
    BY <2>1, <2>2 DEF AnswersMatchSteps, Keys
<1>8. QED
  BY <1>5, <1>6, <1>7, FlowStepInv DEF IInv

LEMMA RepromptInv ==
    ASSUME IInv, NEW m \in Msgs, Reprompt(m)
    PROVE  IInv'
<1> DEFINE c == conv[m]
           s == state[c]
<1> USE ConversationAssumption
<1>1. /\ c \in Convs /\ s # None /\ s = Active(m) /\ s \in Asking
      /\ pc[m] = "advance" /\ s.id \in Msgs /\ s.step \in Keys /\ s.answers \in Answers
  BY DEF Reprompt, InFlow, Active, IInv, PhaseInv, TypeOK, Asking
<1>2. /\ state' \in [Convs -> Asking \cup {None}] /\ heard' \in [Convs -> Nat]
      /\ state'[c].id = s.id /\ state'[c].step = s.step /\ state'[c].answers = s.answers
      /\ \A d \in Convs : d # c => state'[d] = state[d]
  BY <1>1, SlideEffect DEF IInv, Reprompt
<1>3. /\ action' \in [Msgs -> Pending \cup {NoAction}] /\ pc' \in [Msgs -> PCs]
      /\ pc'[m] = "act" /\ action'[m] # NoAction
      /\ action'[m].kind = "prompt" /\ action'[m].flow = s.id /\ action'[m].answers = NoAnswers
      /\ \A n \in Msgs : n # m => action'[n] = action[n] /\ pc'[n] = pc[n]
  <2>1. Then(m, "prompt", s.id, NoAnswers)
    BY <1>1 DEF Reprompt
  <2>2. QED
    BY <1>1, <2>1, NoAnswersType, ThenEffect DEF IInv, Callbacks
<1>4. UNCHANGED <<clock, sweeping, conv, text, now, called>>
  BY DEF Reprompt
<1> HIDE DEF c, s
<1>5. TypeOK'
  BY <1>2, <1>3, <1>4 DEF IInv, TypeOK
<1>6. FlowStep(m)
  BY <1>1, <1>2, <1>3, <1>4 DEF FlowStep, c, s
<1>7. AnswersMatchSteps'
  <2>1. ASSUME NEW d \in Convs, state'[d] # None
        PROVE  DOMAIN state'[d].answers = 0 .. state'[d].step - 1
    BY <1>1, <2>1, <1>2 DEF IInv, AnswersMatchSteps, s, Keys
  <2>2. ASSUME NEW n \in Msgs, action'[n].kind = "onComplete"
        PROVE  DOMAIN action'[n].answers = Keys
    BY <1>1, <2>2, <1>3 DEF IInv, AnswersMatchSteps
  <2>3. QED
    BY <2>1, <2>2 DEF AnswersMatchSteps, Keys
<1>8. QED
  BY <1>5, <1>6, <1>7, FlowStepInv DEF IInv

LEMMA CompleteInv ==
    ASSUME IInv, NEW m \in Msgs, Complete(m)
    PROVE  IInv'
<1> DEFINE c == conv[m]
           s == state[c]
<1> USE ConversationAssumption
<1>1. /\ c \in Convs /\ s # None /\ s = Active(m) /\ s \in Asking
      /\ pc[m] = "advance" /\ s.id \in Msgs /\ s.step \in Keys /\ s.answers \in Answers
  BY DEF Complete, Accepts, InFlow, Active, IInv, PhaseInv, TypeOK, Asking
<1>2. Answered(m) \in Answers /\ DOMAIN Answered(m) = 0 .. s.step
  BY <1>1, AnsweredType DEF IInv
<1>3. /\ state' \in [Convs -> Asking \cup {None}] /\ heard' \in [Convs -> Nat]
      /\ state'[c] = None
      /\ \A d \in Convs : d # c => state'[d] = state[d]
  BY <1>1, DeleteEffect DEF IInv, Complete
<1>4. /\ action' \in [Msgs -> Pending \cup {NoAction}] /\ pc' \in [Msgs -> PCs]
      /\ pc'[m] = "act" /\ action'[m] # NoAction
      /\ action'[m].kind = "onComplete" /\ action'[m].flow = s.id /\ action'[m].answers = Answered(m)
      /\ \A n \in Msgs : n # m => action'[n] = action[n] /\ pc'[n] = pc[n]
  <2>1. Then(m, "onComplete", s.id, Answered(m))
    BY <1>1 DEF Complete
  <2>2. QED
    BY <1>1, <1>2, <2>1, NoAnswersType, ThenEffect DEF IInv, Callbacks
<1>5. UNCHANGED <<clock, sweeping, conv, text, now, called>>
  BY DEF Complete
<1> HIDE DEF c, s
<1>6. TypeOK'
  BY <1>3, <1>4, <1>5 DEF IInv, TypeOK
<1>7. FlowStep(m)
  BY <1>1, <1>3, <1>4, <1>5 DEF FlowStep, c, s
<1>8. AnswersMatchSteps'
  <2>1. ASSUME NEW d \in Convs, state'[d] # None
        PROVE  DOMAIN state'[d].answers = 0 .. state'[d].step - 1
    BY <1>1, <1>2, <2>1, <1>3 DEF IInv, AnswersMatchSteps, s, Keys
  <2>2. ASSUME NEW n \in Msgs, action'[n].kind = "onComplete"
        PROVE  DOMAIN action'[n].answers = Keys
    BY <1>1, <1>2, <2>2, <1>4 DEF IInv, AnswersMatchSteps, Complete, Keys
  <2>3. QED
    BY <2>1, <2>2 DEF AnswersMatchSteps, Keys
<1>9. QED
  BY <1>6, <1>7, <1>8, FlowStepInv DEF IInv

LEMMA NextStepInv ==
    ASSUME IInv, NEW m \in Msgs, NextStep(m)
    PROVE  IInv'
<1> DEFINE c == conv[m]
           s == state[c]
<1> USE ConversationAssumption
<1>1. /\ c \in Convs /\ s # None /\ s = Active(m) /\ s \in Asking
      /\ pc[m] = "advance" /\ s.id \in Msgs /\ s.step \in Keys /\ s.answers \in Answers
  BY DEF NextStep, Accepts, InFlow, Active, IInv, PhaseInv, TypeOK, Asking
<1>2. Answered(m) \in Answers /\ DOMAIN Answered(m) = 0 .. s.step
  BY <1>1, AnsweredType DEF IInv
<1>3. s.step + 1 \in Keys
  BY <1>1 DEF NextStep, Keys
<1> DEFINE next == [s EXCEPT !.answers = Answered(m), !.step = s.step + 1]
<1>4. next \in Asking /\ next.id = s.id /\ next.step = s.step + 1 /\ next.answers = Answered(m)
  BY <1>1, <1>2, <1>3 DEF Asking
<1>5. Slide(m, next)
  BY <1>1 DEF NextStep
<1> HIDE DEF next
<1>6. /\ state' \in [Convs -> Asking \cup {None}] /\ heard' \in [Convs -> Nat]
      /\ state'[c].id = s.id /\ state'[c].step = s.step + 1 /\ state'[c].answers = Answered(m)
      /\ \A d \in Convs : d # c => state'[d] = state[d]
  BY <1>1, <1>2, <1>3, <1>4, <1>5, SlideEffect DEF IInv
<1>7. /\ action' \in [Msgs -> Pending \cup {NoAction}] /\ pc' \in [Msgs -> PCs]
      /\ pc'[m] = "act" /\ action'[m] # NoAction
      /\ action'[m].kind = "prompt" /\ action'[m].flow = s.id /\ action'[m].answers = NoAnswers
      /\ \A n \in Msgs : n # m => action'[n] = action[n] /\ pc'[n] = pc[n]
  <2>1. Then(m, "prompt", s.id, NoAnswers)
    BY <1>1 DEF NextStep
  <2>2. QED
    BY <1>1, <1>2, <1>3, <1>4, <1>5, <2>1, NoAnswersType, ThenEffect DEF IInv, Callbacks
<1>8. UNCHANGED <<clock, sweeping, conv, text, now, called>>
  BY DEF NextStep
<1> HIDE DEF c, s
<1>9. TypeOK'
  BY <1>6, <1>7, <1>8 DEF IInv, TypeOK
<1>10. FlowStep(m)
  BY <1>1, <1>6, <1>7, <1>8 DEF FlowStep, c, s
<1>11. AnswersMatchSteps'
  <2>1. ASSUME NEW d \in Convs, state'[d] # None
        PROVE  DOMAIN state'[d].answers = 0 .. state'[d].step - 1
    BY <1>1, <1>2, <1>3, <1>4, <1>5, <2>1, <1>6 DEF IInv, AnswersMatchSteps, s, Keys
  <2>2. ASSUME NEW n \in Msgs, action'[n].kind = "onComplete"
        PROVE  DOMAIN action'[n].answers = Keys
    BY <1>1, <1>2, <1>3, <1>4, <1>5, <2>2, <1>7 DEF IInv, AnswersMatchSteps
  <2>3. QED
    BY <2>1, <2>2 DEF AnswersMatchSteps, Keys
<1>12. QED
  BY <1>9, <1>10, <1>11, FlowStepInv DEF IInv

(* Every step keeps IInv.                                                       *)
LEMMA StepInv == IInv /\ [Next]_vars => IInv'
<1> SUFFICES ASSUME IInv, [Next]_vars PROVE IInv'
  OBVIOUS
<1> USE ConversationAssumption DEF IInv
<1>1. ASSUME NEW m \in Msgs, Dispatch(m)
      PROVE  IInv'
  <2>1. TypeOK'
    BY <1>1 DEF Dispatch, Goto, TypeOK, PCs, Texts, Asking, Pending, Answers, Keys,
       Callbacks, NoAction, NoAnswers, PhaseInv, AnswersMatchSteps
  <2>2. PhaseInv'
    BY <1>1 DEF Dispatch, Goto, TypeOK, PhaseInv, Unused, NoAction, NoAnswers, Pending,
       Asking, PCs
  <2>3. AnswersMatchSteps'
    BY <1>1 DEF Dispatch, Goto, TypeOK, AnswersMatchSteps, PhaseInv, Asking, Pending, Keys,
       NoAction, NoAnswers
  <2>4. AnswersAreOwn'
    <3>1. UNCHANGED <<state, action, called>> /\ \A n \in Msgs : n # m => conv'[n] = conv[n]
      BY <1>1 DEF Dispatch, TypeOK
    <3>2. Unused(m) /\ action[m] = NoAction
      BY <1>1 DEF Dispatch, PhaseInv
    <3>3. ASSUME NEW c \in Convs, state[c] # None
          PROVE  /\ conv'[state[c].id] = c
                 /\ \A k \in DOMAIN state[c].answers : conv'[state[c].answers[k]] = c
      <4>1. /\ state[c].id \in Msgs \ {m}
            /\ \A k \in DOMAIN state[c].answers : state[c].answers[k] \in Msgs \ {m}
        BY <3>2, <3>3, AnswersType DEF Unused, TypeOK, Asking
      <4>2. QED
        BY <3>1, <3>3, <4>1 DEF AnswersAreOwn, OwnAnswers
    <3>4. ASSUME NEW n \in Msgs, action[n].kind = "onComplete"
          PROVE  /\ conv'[n] = conv[n]
                 /\ \A k \in DOMAIN action[n].answers : conv'[action[n].answers[k]] = conv[n]
      <4>1. n # m /\ action[n] # NoAction
        BY <3>2, <3>4 DEF NoAction
      <4>2. \A k \in DOMAIN action[n].answers : action[n].answers[k] \in Msgs \ {m}
        BY <3>2, <4>1, AnswersType DEF Unused, TypeOK, Pending
      <4>3. QED
        BY <3>1, <3>4, <4>1, <4>2 DEF AnswersAreOwn, OwnAnswers
    <3>5. QED
      BY <3>1, <3>3, <3>4 DEF AnswersAreOwn, OwnAnswers
  <2>5. EndsOnce'
    BY <1>1 DEF Dispatch, Goto, TypeOK, PhaseInv, Unused, AnswersAreOwn, EndsOnce, Ending,
       Callbacks, Asking, Pending, NoAction
  <2>6. QED
    BY <2>1, <2>2, <2>3, <2>4, <2>5
<1>2. ASSUME NEW m \in Msgs, NoFlow(m)
      PROVE  IInv'
  <2>1. TypeOK'
    BY <1>2 DEF NoFlow, Goto, Active, TypeOK, PCs, Texts, Asking, Pending, Answers, Keys,
       Callbacks, NoAction, NoAnswers, PhaseInv, AnswersMatchSteps
  <2>2. PhaseInv'
    BY <1>2 DEF NoFlow, Goto, Active, TypeOK, PhaseInv, Unused, NoAction, NoAnswers,
       Pending, Asking, PCs
  <2>3. AnswersMatchSteps'
    BY <1>2 DEF NoFlow, Goto, Active, TypeOK, AnswersMatchSteps, PhaseInv, Asking, Pending,
       Keys, NoAction, NoAnswers
  <2>4. AnswersAreOwn'
    BY <1>2 DEF NoFlow, Goto, Active, TypeOK, PhaseInv, Unused, AnswersMatchSteps,
       AnswersAreOwn, OwnAnswers, Asking, Pending, NoAction, NoAnswers, Keys
  <2>5. EndsOnce'
    BY <1>2 DEF NoFlow, Goto, Active, TypeOK, PhaseInv, Unused, AnswersAreOwn, EndsOnce,
       Ending, Callbacks, Asking, Pending, NoAction
  <2>6. QED
    BY <2>1, <2>2, <2>3, <2>4, <2>5
<1>3. ASSUME NEW m \in Msgs, ValidatorPanics(m)
      PROVE  IInv'
  <2>1. TypeOK'
    BY <1>3 DEF ValidatorPanics, InFlow, Active, End, Goto, TypeOK, PCs, Texts, Asking,
       Pending, Answers, Keys, Callbacks, NoAction, NoAnswers, PhaseInv, AnswersMatchSteps
  <2>2. PhaseInv'
    BY <1>3 DEF ValidatorPanics, InFlow, Active, End, Goto, TypeOK, PhaseInv, Unused,
       NoAction, NoAnswers, Pending, Asking, PCs
  <2>3. AnswersMatchSteps'
    BY <1>3 DEF ValidatorPanics, InFlow, Active, End, Goto, TypeOK, AnswersMatchSteps,
       PhaseInv, Asking, Pending, Keys, NoAction, NoAnswers
  <2>4. AnswersAreOwn'
    BY <1>3 DEF ValidatorPanics, InFlow, Active, End, Goto, TypeOK, PhaseInv, Unused,
       AnswersMatchSteps, AnswersAreOwn, OwnAnswers, Asking, Pending, NoAction, NoAnswers,
       Keys
  <2>5. EndsOnce'
    BY <1>3 DEF ValidatorPanics, InFlow, Active, End, Goto, TypeOK, PhaseInv, Unused,
       AnswersAreOwn, EndsOnce, Ending, Callbacks, Asking, Pending, NoAction
  <2>6. QED
    BY <2>1, <2>2, <2>3, <2>4, <2>5
<1>4. ASSUME NEW m \in Msgs, Act(m)
      PROVE  IInv'
  <2>1. TypeOK'
    BY <1>4 DEF Act, End, Goto, TypeOK, PCs, Texts, Asking, Pending, Answers, Keys,
       Callbacks, NoAction, NoAnswers, PhaseInv, AnswersMatchSteps
  <2>2. PhaseInv'
    BY <1>4 DEF Act, End, Goto, TypeOK, PhaseInv, Unused, NoAction, NoAnswers, Pending,
       Asking, PCs
  <2>3. AnswersMatchSteps'
    BY <1>4 DEF Act, End, Goto, TypeOK, AnswersMatchSteps, PhaseInv, Asking, Pending, Keys,
       NoAction, NoAnswers
  <2>4. AnswersAreOwn'
    BY <1>4 DEF Act, End, Goto, TypeOK, PhaseInv, Unused, AnswersMatchSteps, AnswersAreOwn,
       OwnAnswers, Asking, Pending, NoAction, NoAnswers, Keys
  <2>5. EndsOnce'
    BY <1>4 DEF Act, End, Goto, TypeOK, PhaseInv, Unused, AnswersAreOwn, EndsOnce, Ending,
       Callbacks, Asking, Pending, NoAction
  <2>6. QED
    BY <2>1, <2>2, <2>3, <2>4, <2>5
<1>5. ASSUME NEW m \in Msgs, Start(m)
      PROVE  IInv'
  <2>1. TypeOK'
    <3> DEFINE asked == [id |-> m, step |-> 0, answers |-> NoAnswers, expires |-> clock + TTL]
    <3>1. asked \in Asking
      BY NoAnswersType DEF TypeOK, Asking, Keys
    <3>2. Then(m, "prompt", m, NoAnswers)
      BY <1>5 DEF Start
    <3>3. action' \in [Msgs -> Pending \cup {NoAction}] /\ pc' \in [Msgs -> PCs]
      BY <3>2, NoAnswersType, ThenEffect DEF Callbacks
    <3>4. state' \in [Convs -> Asking \cup {None}] /\ heard' \in [Convs -> Nat]
      BY <1>5, <3>1 DEF Start, TypeOK
    <3>5. QED
      BY <1>5, <3>3, <3>4 DEF Start, TypeOK
  <2>2. PhaseInv'
    BY <1>5 DEF Start, Active, Then, Goto, TypeOK, PhaseInv, Unused, NoAction, NoAnswers,
       Pending, Asking, PCs
  <2>3. AnswersMatchSteps'
    BY <1>5 DEF Start, Active, Then, Goto, TypeOK, AnswersMatchSteps, PhaseInv, Asking,
       Pending, Keys, NoAction, NoAnswers
  <2>4. AnswersAreOwn'
    BY <1>5 DEF Start, Active, Then, Goto, TypeOK, PhaseInv, Unused, AnswersMatchSteps,
       AnswersAreOwn, OwnAnswers, Asking, Pending, NoAction, NoAnswers, Keys
  <2>5. EndsOnce'
    BY <1>5 DEF Start, Active, Then, Goto, TypeOK, PhaseInv, Unused, AnswersAreOwn,
       EndsOnce, Ending, Callbacks, Asking, Pending, NoAction
  <2>6. QED
    BY <2>1, <2>2, <2>3, <2>4, <2>5
<1>6. ASSUME NEW m \in Msgs, NotStarted(m)
      PROVE  IInv'
  <2>1. TypeOK'
    BY <1>6 DEF NotStarted, End, Goto, Active, TypeOK, PCs, Texts, Asking, Pending, Answers,
       Keys, Callbacks, NoAction, NoAnswers, PhaseInv, AnswersMatchSteps
  <2>2. PhaseInv'
    BY <1>6 DEF NotStarted, End, Goto, Active, TypeOK, PhaseInv, Unused, NoAction,
       NoAnswers, Pending, Asking, PCs
  <2>3. AnswersMatchSteps'
    BY <1>6 DEF NotStarted, End, Goto, Active, TypeOK, AnswersMatchSteps, PhaseInv, Asking,
       Pending, Keys, NoAction, NoAnswers
  <2>4. AnswersAreOwn'
    BY <1>6 DEF NotStarted, End, Goto, Active, TypeOK, PhaseInv, Unused, AnswersMatchSteps,
       AnswersAreOwn, OwnAnswers, Asking, Pending, NoAction, NoAnswers, Keys
  <2>5. EndsOnce'
    BY <1>6 DEF NotStarted, End, Goto, Active, TypeOK, PhaseInv, Unused, AnswersAreOwn,
       EndsOnce, Ending, Callbacks, Asking, Pending, NoAction
  <2>6. QED
    BY <2>1, <2>2, <2>3, <2>4, <2>5
<1>7. ASSUME Sweep
      PROVE  IInv'
  <2>1. TypeOK'
    BY <1>7 DEF Sweep, IsExpired, TypeOK, PCs, Texts, Asking, Pending, Answers, Keys,
       Callbacks, NoAction, NoAnswers, PhaseInv, AnswersMatchSteps
  <2>2. PhaseInv'
    BY <1>7 DEF Sweep, IsExpired, TypeOK, PhaseInv, Unused, NoAction, NoAnswers, Pending,
       Asking, PCs
  <2>3. AnswersMatchSteps'
    BY <1>7 DEF Sweep, IsExpired, TypeOK, AnswersMatchSteps, PhaseInv, Asking, Pending,
       Keys, NoAction, NoAnswers
  <2>4. AnswersAreOwn'
    BY <1>7 DEF Sweep, IsExpired, TypeOK, PhaseInv, Unused, AnswersMatchSteps,
       AnswersAreOwn, OwnAnswers, Asking, Pending, NoAction, NoAnswers, Keys
  <2>5. EndsOnce'
    BY <1>7 DEF Sweep, IsExpired, TypeOK, PhaseInv, Unused, AnswersAreOwn, EndsOnce, Ending,
       Callbacks, Asking, Pending, NoAction
  <2>6. QED
    BY <2>1, <2>2, <2>3, <2>4, <2>5
<1>8. ASSUME Reconnect
      PROVE  IInv'
  <2>1. TypeOK'
    BY <1>8 DEF Reconnect, TypeOK, PCs, Texts, Asking, Pending, Answers, Keys, Callbacks,
       NoAction, NoAnswers, PhaseInv, AnswersMatchSteps
  <2>2. PhaseInv'
    BY <1>8 DEF Reconnect, TypeOK, PhaseInv, Unused, NoAction, NoAnswers, Pending, Asking,
       PCs
  <2>3. AnswersMatchSteps'
    BY <1>8 DEF Reconnect, TypeOK, AnswersMatchSteps, PhaseInv, Asking, Pending, Keys,
       NoAction, NoAnswers
  <2>4. AnswersAreOwn'
    BY <1>8 DEF Reconnect, TypeOK, PhaseInv, Unused, AnswersMatchSteps, AnswersAreOwn,
       OwnAnswers, Asking, Pending, NoAction, NoAnswers, Keys
  <2>5. EndsOnce'
    BY <1>8 DEF Reconnect, TypeOK, PhaseInv, Unused, AnswersAreOwn, EndsOnce, Ending,
       Callbacks, Asking, Pending, NoAction
  <2>6. QED
    BY <2>1, <2>2, <2>3, <2>4, <2>5
<1>9. ASSUME Tick
      PROVE  IInv'
  <2>1. TypeOK'
    BY <1>9 DEF Tick, TypeOK, PCs, Texts, Asking, Pending, Answers, Keys, Callbacks,
       NoAction, NoAnswers, PhaseInv, AnswersMatchSteps
  <2>2. PhaseInv'
    BY <1>9 DEF Tick, TypeOK, PhaseInv, Unused, NoAction, NoAnswers, Pending, Asking, PCs
  <2>3. AnswersMatchSteps'
    BY <1>9 DEF Tick, TypeOK, AnswersMatchSteps, PhaseInv, Asking, Pending, Keys, NoAction,
       NoAnswers
  <2>4. AnswersAreOwn'
    BY <1>9 DEF Tick, TypeOK, PhaseInv, Unused, AnswersMatchSteps, AnswersAreOwn,
       OwnAnswers, Asking, Pending, NoAction, NoAnswers, Keys
  <2>5. EndsOnce'
    BY <1>9 DEF Tick, TypeOK, PhaseInv, Unused, AnswersAreOwn, EndsOnce, Ending, Callbacks,
       Asking, Pending, NoAction
  <2>6. QED
    BY <2>1, <2>2, <2>3, <2>4, <2>5
<1>10. ASSUME UNCHANGED vars
      PROVE  IInv'
  BY <1>10 DEF vars, TypeOK, PhaseInv, Unused, AnswersMatchSteps, AnswersAreOwn, OwnAnswers,
     EndsOnce, Ending
<1>11. QED
  BY <1>1, <1>2, <1>3, <1>4, <1>5, <1>6, <1>7, <1>8, <1>9, <1>10,
     ExpireInv, CancelInv, RepromptInv, CompleteInv, NextStepInv DEF Next, Handle, Transition
-----------------------------------------------------------------------------
(* IInv holds initially and is kept by every step, so it holds always.          *)
THEOREM Invariance == Spec => []IInv
BY InitInv, StepInv, PTL DEF Spec

(* Every variable keeps its type.                                               *)
THEOREM TypeCorrect == Spec => []TypeOK
<1>1. IInv => TypeOK
  BY DEF IInv
<1>2. QED
  BY <1>1, Invariance, PTL

(* A flow holds exactly the answers to the questions before its current one.    *)
THEOREM NoQuestionSkipped == Spec => []AnswersMatchSteps
<1>1. IInv => AnswersMatchSteps
  BY DEF IInv
<1>2. QED
  BY <1>1, Invariance, PTL

(* A flow is answered by its own conversation, once per message.                *)
THEOREM AnswersStayInConversation == Spec => []AnswersAreOwn
<1>1. IInv => AnswersAreOwn
  BY DEF IInv
<1>2. QED
  BY <1>1, Invariance, PTL

(* Of completion, cancellation and timeout at most one callback runs per flow.  *)
THEOREM OneEnding == Spec => []EndsOnce
<1>1. IInv => EndsOnce
  BY DEF IInv
<1>2. QED
  BY <1>1, Invariance, PTL

(* A step moves each flow forward.                                              *)
LEMMA StepForward ==
    ASSUME IInv, [Next]_vars, NEW c \in Convs, state[c] # None, state'[c] # None
    PROVE  MovesForward(c)
<1> USE ConversationAssumption
<1>1. state[c] \in Asking /\ state[c].step \in Nat /\ DOMAIN state[c].answers = 0 .. state[c].step - 1
  BY DEF IInv, TypeOK, Asking, Keys, AnswersMatchSteps
<1>2. CASE state'[c] = state[c]
  BY <1>1, <1>2 DEF MovesForward
<1>3. ASSUME NEW m \in Msgs, Expire(m) \/ Cancel(m) \/ Complete(m)
      PROVE  state'[c] = state[c]
  BY <1>3 DEF Expire, Cancel, Complete, Delete, IInv, TypeOK
<1>4. ASSUME NEW m \in Msgs, Reprompt(m)
      PROVE  MovesForward(c)
  BY <1>1, <1>4 DEF Reprompt, Slide, Active, MovesForward, IInv, TypeOK, Asking
<1>5. ASSUME NEW m \in Msgs, NextStep(m), c = conv[m]
      PROVE  MovesForward(c)
  <2>1. /\ DOMAIN Answered(m) = 0 .. state[c].step
        /\ \A k \in 0 .. state[c].step - 1 : Answered(m)[k] = state[c].answers[k]
    BY <1>1, <1>5, AnsweredType DEF IInv, Active
  <2>2. /\ state'[c].id = state[c].id /\ state'[c].step = state[c].step + 1
        /\ state'[c].answers = Answered(m)
    BY <1>1, <1>5 DEF NextStep, Slide, Active, IInv, TypeOK, Asking
  <2>3. QED
    BY <1>1, <2>1, <2>2 DEF MovesForward
<1>6. ASSUME NEW m \in Msgs, NextStep(m), c # conv[m]
      PROVE  state'[c] = state[c]
  BY <1>6 DEF NextStep, Slide, IInv, TypeOK
<1>7. ASSUME NEW m \in Msgs, Start(m)
      PROVE  state'[c] = state[c]
  BY <1>7 DEF Start, Active, IInv, TypeOK
<1>8. ASSUME NEW m \in Msgs, Dispatch(m) \/ NoFlow(m) \/ ValidatorPanics(m) \/ Act(m) \/ NotStarted(m)
      PROVE  state'[c] = state[c]
  BY <1>8 DEF Dispatch, NoFlow, ValidatorPanics, Act, NotStarted
<1>9. ASSUME Sweep \/ Reconnect \/ Tick
      PROVE  state'[c] = state[c]
  BY <1>9 DEF Sweep, Reconnect, Tick
<1>10. QED
  BY <1>2, <1>3, <1>4, <1>5, <1>6, <1>7, <1>8, <1>9 DEF Next, Handle, Transition, vars

(* A flow moves forward only, one question at a time, and is never replaced.    *)
THEOREM FlowsMoveForward == Spec => ForwardOnly
<1>1. IInv /\ [Next]_vars =>
        [\A c \in Convs : state[c] # None /\ state'[c] # None => MovesForward(c)]_state
  BY StepForward
<1>2. QED
  BY <1>1, Invariance, PTL DEF Spec, ForwardOnly
=============================================================================
