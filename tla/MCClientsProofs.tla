-------------------------- MODULE MCClientsProofs --------------------------
(***************************************************************************)
(* Proofs of what MCClients says of the filters and replies of the forges  *)
(* and the chats, of github's reaction poller, and of the keys and replies *)
(* of teams, for any number of posts, connections, requests and sends and  *)
(* any ages and capacities.  One part runs, so the invariant is the        *)
(* conjunction of the five parts' own.  The poller's, and that its steps   *)
(* keep it, comes from ReactionPollerProofs; the other four are here.      *)
(***************************************************************************)
EXTENDS MCClients, Sequences, TLAPS

PollerP == INSTANCE ReactionPollerProofs WITH
    conn <- rConn, ctxDone <- rCtxDone, on <- rOn, spent <- rSpent, before <- rBefore,
    seen <- rSeen, loop <- rLoop, cycle <- rCycle, discovered <- rDiscovered, todo <- rTodo,
    at <- rAt, sampled <- rSampled, batch <- rBatch, counts <- rCounts, next <- rNext,
    runs <- rRuns, removed <- rRemoved

-----------------------------------------------------------------------------
(* The forges                                                               *)

(* gitlab and github take a blank answer for an account.                          *)
Blank == fForge \in BlankAt /\ fForge # "bitbucket"

(* A bot that serves knows its account, or needs none, unless its forge did not   *)
(* give it one.                                                                   *)
SelfInv == /\ fAuth \in Forge!Auths(fForge)
           /\ fAuth = "told" => fSelf = "self"
           /\ fState = "resolving" => Forge!AsksWhoami
           /\ fState = "serving" /\ ~Blank => fSelf = "self" \/ fAuth = "app"

(* The posts there are: on an item of the forge, requests only opened or closed,  *)
(* and only gitlab's notes internal.                                              *)
NoteInv == \A p \in ForgePosts : fPost[p] # NoPost =>
    /\ fPost[p].item \in Forge!On(fForge)
    /\ fPost[p].internal => fForge = "gitlab" /\ fPost[p].event = "created"
    /\ fPost[p].event = "opened" => fPost[p].item.kind = "merge"

(* What the filters let through; a commit's note is not among it.                 *)
NoteTakenInv == \A p \in fHandled :
    /\ fPost[p] # NoPost
    /\ fPost[p].item.kind # "commit"
    /\ ~Blank => fPost[p].author # "self"
    /\ fForge = "github" => fPost[p].author # "bot"
    /\ fPost[p].internal => fAuth = "user" /\ fPost[p].item.kind = "confidential"

(* A reply is written, and once.                                                  *)
NoteAnswerInv == \A p \in ForgePosts : fAnswer[p] # NoPost =>
    /\ p \in fHandled
    /\ fPost[fAnswer[p]] # NoPost
    /\ fPost[fAnswer[p]].item = fPost[p].item

ForgeInv == Forge!TypeOK /\ SelfInv /\ NoteInv /\ NoteTakenInv /\ NoteAnswerInv
-----------------------------------------------------------------------------
(* A channel id names one item: the one it was made for.                         *)
LEMMA TargetIsOrigin ==
    ASSUME NEW item \in Forge!On(fForge), item.kind # "commit"
    PROVE  Forge!Target(Forge!ChannelID(item)) = item
<1> DEFINE P(i) == /\ i.number = Forge!ChannelID(item).number
                   /\ fForge # "github" => (Forge!ChannelID(item).sigil = "!" <=> i.kind = "merge")
                   /\ i.kind # "commit"
<1>1. P(item)
  BY DEF Forge!ChannelID
<1>2. ASSUME NEW i \in Forge!On(fForge), P(i)
      PROVE  i = item
  <2>1. i \in Forge!Items /\ item \in Forge!Items
    BY DEF Forge!On
  <2>2. i.number = item.number /\ i.kind # "commit"
    BY <1>2 DEF Forge!ChannelID
  <2>3. fForge = "github" => i.kind = "merge" /\ item.kind = "merge"
    BY DEF Forge!On
  <2>4. i.kind = "merge" <=> item.kind = "merge"
    BY <1>2, <2>3 DEF Forge!ChannelID
  <2>5. QED
    BY <2>1, <2>2, <2>4, item.kind # "commit" DEF Forge!Items
<1>3. QED
  BY <1>1, <1>2 DEF Forge!Target

(* The invariant holds before the first post.                                   *)
LEMMA ForgeInit ==
    ASSUME Forge!ForgeAssumption, Forge!Init
    PROVE  ForgeInv
BY DEF Forge!ForgeAssumption, Forge!Init, ForgeInv, Forge!TypeOK, SelfInv, NoteInv, NoteTakenInv,
       NoteAnswerInv, Forge!Auths, Forge!AsksWhoami

(* Each step keeps it.  What the filters take is not the bot's own, for a bot   *)
(* that serves knows its account; and a reply goes where the channel id leads,  *)
(* which is where its message was posted.                                       *)
LEMMA ForgeStep ==
    ASSUME Forge!ForgeAssumption, ForgeInv, [Forge!Next]_(Forge!vars)
    PROVE  ForgeInv'
<1> USE DEF Forge!ForgeAssumption, ForgeInv, Forge!botVars
<1>1. ASSUME Forge!Connect \/ Forge!Resolve \/ Forge!Stop
      PROVE  ForgeInv'
  <2>1. UNCHANGED <<fForge, fAuth, fPost, fTried, fHandled, fAnswer>>
    BY <1>1 DEF Forge!Connect, Forge!Resolve, Forge!Stop
  <2>2. Forge!TypeOK'
    BY <1>1 DEF Forge!TypeOK, Forge!Connect, Forge!Resolve, Forge!Stop
  <2>3. SelfInv'
    BY <1>1 DEF Forge!TypeOK, SelfInv, Forge!Auths, Forge!AsksWhoami, Blank, Forge!Connect,
                Forge!Resolve, Forge!Stop
  <2>4. NoteInv' /\ NoteTakenInv' /\ NoteAnswerInv'
    BY <2>1 DEF NoteInv, NoteTakenInv, NoteAnswerInv, Forge!On, Blank
  <2>5. QED
    BY <2>2, <2>3, <2>4
<1>2. ASSUME NEW p \in ForgePosts, NEW r \in Forge!Records, Forge!Write(p, r)
      PROVE  ForgeInv'
  <2> USE <1>2 DEF Forge!Write
  <2>1. r # NoPost /\ fPost'[p] = r /\ \A q \in ForgePosts \ {p} : fPost'[q] = fPost[q]
    BY DEF Forge!TypeOK, Forge!Records
  <2>2. Forge!TypeOK'
    BY DEF Forge!TypeOK
  <2>3. SelfInv'
    BY DEF SelfInv, Forge!Auths, Forge!AsksWhoami, Blank
  <2>4. NoteInv'
    BY <2>1 DEF Forge!TypeOK, NoteInv, Forge!On
  <2>5. NoteTakenInv'
    BY <2>1 DEF Forge!TypeOK, NoteTakenInv, Blank
  <2>6. NoteAnswerInv'
    BY <2>1 DEF Forge!TypeOK, NoteAnswerInv, NoteTakenInv
  <2>7. QED
    BY <2>2, <2>3, <2>4, <2>5, <2>6
<1>3. ASSUME NEW p \in ForgePosts, Forge!Deliver(p)
      PROVE  ForgeInv'
  <2> USE <1>3 DEF Forge!Deliver
  <2>1. Forge!TypeOK'
    BY DEF Forge!TypeOK
  <2>2. SelfInv' /\ NoteInv' /\ NoteAnswerInv'
    BY DEF SelfInv, NoteInv, NoteAnswerInv, Forge!Auths, Forge!AsksWhoami, Blank, Forge!On
  <2>3. ASSUME Forge!Takes(fPost[p])
        PROVE  /\ fPost[p].item.kind # "commit"
               /\ ~Blank => fPost[p].author # "self"
               /\ fForge = "github" => fPost[p].author # "bot"
               /\ fPost[p].internal => fAuth = "user" /\ fPost[p].item.kind = "confidential"
    <3>1. fPost[p] \in Forge!Records /\ fPost[p].item \in Forge!On(fForge)
      BY DEF Forge!TypeOK, NoteInv
    <3>2. QED
      BY <2>3, <3>1 DEF Forge!Takes, Forge!GitHubTakes, Forge!GitHubReviews, Forge!GitHubDrops,
                        Forge!GitLabTakes, Forge!OthersReview, Forge!BitbucketTakes,
                        Forge!Internal, Forge!IsSelf, SelfInv, NoteInv, Forge!On, Forge!Auths,
                        Forge!Items, Forge!Records, Forge!TypeOK
  <2>4. NoteTakenInv'
    BY <2>3 DEF NoteTakenInv, Blank
  <2>5. QED
    BY <2>1, <2>2, <2>4
<1>4. ASSUME NEW p \in ForgePosts, NEW q \in ForgePosts, Forge!Reply(p, q)
      PROVE  ForgeInv'
  <2> DEFINE r == [author |-> "self", event |-> "created", item |-> fPost[p].item,
                   internal |-> FALSE]
  <2>1. /\ p \in fHandled /\ fPost[q] = NoPost /\ fAnswer[p] = NoPost
        /\ fAnswer' = [fAnswer EXCEPT ![p] = q]
        /\ UNCHANGED <<fForge, fAuth, fState, fSelf, fTried, fHandled>>
    BY <1>4 DEF Forge!Reply
  <2>2. /\ fPost[p] # NoPost /\ fPost[p] \in Forge!Records
        /\ fPost[p].item \in Forge!On(fForge) /\ fPost[p].item.kind # "commit"
    BY <2>1 DEF Forge!TypeOK, NoteInv, NoteTakenInv
  <2>3. fPost' = [fPost EXCEPT ![q] = r]
    <3>1. Forge!Target(Forge!ChannelID(fPost[p].item)) = fPost[p].item
      BY <2>2, TargetIsOrigin
    <3>2. QED
      BY <1>4, <3>1 DEF Forge!Reply
  <2>4. /\ r \in Forge!Records
        /\ r.item = fPost[p].item /\ ~r.internal /\ r.event = "created"
    BY <2>2 DEF Forge!Records
  <2> HIDE DEF r
  <2>5. q \notin fHandled /\ r # NoPost
    BY <2>1, <2>4 DEF NoteTakenInv
  <2>6. /\ fPost'[q] = r
        /\ \A t \in ForgePosts \ {q} : fPost'[t] = fPost[t]
        /\ fAnswer'[p] = q
        /\ \A t \in ForgePosts \ {p} : fAnswer'[t] = fAnswer[t]
    BY <2>1, <2>3 DEF Forge!TypeOK
  <2>7. Forge!TypeOK'
    BY <2>1, <2>3, <2>4 DEF Forge!TypeOK
  <2>8. SelfInv'
    BY <2>1 DEF SelfInv, Forge!Auths, Forge!AsksWhoami, Blank
  <2>9. NoteInv'
    BY <2>1, <2>2, <2>4, <2>6 DEF NoteInv, Forge!On
  <2>10. NoteTakenInv'
    BY <2>1, <2>5, <2>6 DEF Forge!TypeOK, NoteTakenInv, Blank
  <2>11. NoteAnswerInv'
    <3>1. /\ q \notin fHandled /\ r # NoPost /\ r.item = fPost[p].item
          /\ fHandled' = fHandled /\ fHandled \subseteq ForgePosts
      BY <2>1, <2>4, <2>5 DEF Forge!TypeOK
    <3>2. ASSUME NEW t \in ForgePosts, fAnswer[t] # NoPost
          PROVE  fAnswer[t] \in ForgePosts \ {q}
      BY <2>1, <3>2 DEF Forge!TypeOK, NoteAnswerInv
    <3>3. ASSUME NEW t \in ForgePosts, fAnswer'[t] # NoPost
          PROVE  /\ t \in fHandled'
                 /\ fPost'[fAnswer'[t]] # NoPost
                 /\ fPost'[fAnswer'[t]].item = fPost'[t].item
      <4>1. CASE t = p
        BY <2>1, <2>6, <3>1, <4>1
      <4>2. CASE t # p
        BY <2>6, <3>1, <3>2, <3>3, <4>2 DEF NoteAnswerInv
      <4>3. QED
        BY <4>1, <4>2
    <3>4. QED
      BY <3>3 DEF NoteAnswerInv
  <2>12. QED
    BY <2>7, <2>8, <2>9, <2>10, <2>11
<1>5. CASE UNCHANGED Forge!vars
  BY <1>5 DEF Forge!vars, Forge!TypeOK, SelfInv, NoteInv, NoteTakenInv, NoteAnswerInv,
              Forge!Auths, Forge!AsksWhoami, Blank, Forge!On
<1>6. QED
  BY <1>1, <1>2, <1>3, <1>4, <1>5 DEF Forge!Next

-----------------------------------------------------------------------------
(* The chats                                                                *)

(* The posts there are: in a place of the platform; the bot only writes messages; *)
(* and a reaction is on a message, where the platform always says on which.       *)
PostInv == \A p \in Posts : hPost[p] # NoPost =>
    /\ hPost[p].place \in Chat!Places(hChat)
    /\ hPost[p].author = "self" => hPost[p].kind = "message"
    /\ hPost[p].kind = "added" /\ hPost[p].on = NoPost => hChat \in {"slack", "whatsmeow"}

(* What the filters let through.                                                  *)
TakenInv == \A p \in hHandled :
    /\ hPost[p] # NoPost
    /\ hPost[p].author # "self"
    /\ hPost[p].kind = "message" /\ hChat \in {"slack", "telegram", "discord", "teams"}
          => hPost[p].author # "bot"
    /\ hPost[p].kind \in {"message", "added"}
    /\ hPost[p].kind = "added" => hPost[p].on # NoPost

(* Where a is put as the reply to post p.                                         *)
Answers(a, p) ==
    /\ \/ a.place = hPost[p].place
       \/ hChat = "slack" /\ hPost[p].kind = "added" /\ a.place = "thread"
    /\ Chat!Quotes => a.on = IF hPost[p].kind = "message" THEN p ELSE hPost[p].on

(* A reply is written, to what was handled and where it belongs.                *)
AnswerInv == \A p \in Posts : hAnswer[p] # NoPost =>
    /\ p \in hHandled
    /\ hPost[hAnswer[p]] # NoPost
    /\ Answers(hPost[hAnswer[p]], p)

ChatInv == Chat!TypeOK /\ PostInv /\ TakenInv /\ AnswerInv
-----------------------------------------------------------------------------
(* The invariant holds before the first post.                                   *)
LEMMA ChatInit ==
    ASSUME Chat!ChatAssumption, Chat!Init
    PROVE  ChatInv
BY DEF Chat!ChatAssumption, Chat!Init, ChatInv, Chat!TypeOK, PostInv, TakenInv, AnswerInv

(* Writing a post leaves the others, and the replies to them, alone.              *)
LEMMA ChatWrites ==
    ASSUME Chat!ChatAssumption, ChatInv, NEW p \in Posts, NEW record \in Chat!Records,
           Chat!Writes(p, record), record.place \in Chat!Places(hChat), record.author # "self",
           record.kind = "added" /\ record.on = NoPost => hChat \in {"slack", "whatsmeow"}
    PROVE  ChatInv'
<1> USE DEF Chat!ChatAssumption, ChatInv
<1>1. /\ hPost[p] = NoPost /\ record # NoPost
      /\ hPost' = [hPost EXCEPT ![p] = record]
      /\ UNCHANGED <<hChat, hTried, hHandled, hAnswer>>
  BY DEF Chat!Writes
<1>2. hPost'[p] = record /\ \A q \in Posts \ {p} : hPost'[q] = hPost[q]
  BY <1>1 DEF Chat!TypeOK
<1>3. Chat!TypeOK'
  BY <1>1 DEF Chat!TypeOK
<1>4. PostInv'
  BY <1>1, <1>2 DEF PostInv, Chat!Places
<1>5. TakenInv'
  BY <1>1, <1>2 DEF Chat!TypeOK, TakenInv
<1>6. AnswerInv'
  <2> SUFFICES ASSUME NEW q \in Posts, hAnswer[q] # NoPost
               PROVE  /\ q \in hHandled
                      /\ hPost'[hAnswer[q]] # NoPost
                      /\ Answers(hPost[hAnswer[q]], q)'
    BY <1>1, <1>2 DEF AnswerInv
  <2>1. q \in hHandled /\ hAnswer[q] \in Posts /\ hPost[hAnswer[q]] # NoPost /\ hPost[q] # NoPost
    BY DEF Chat!TypeOK, AnswerInv, TakenInv
  <2>2. hPost'[q] = hPost[q] /\ hPost'[hAnswer[q]] = hPost[hAnswer[q]]
    BY <1>1, <1>2, <2>1
  <2>3. QED
    BY <1>1, <2>1, <2>2 DEF AnswerInv, Answers, Chat!Quotes
<1>7. QED
  BY <1>3, <1>4, <1>5, <1>6

(* So does answering one, where the reply belongs.                                *)
LEMMA ChatAnswers ==
    ASSUME Chat!ChatAssumption, ChatInv, NEW p \in Posts, NEW q \in Posts,
           NEW record \in Chat!Records, Chat!Answer(p, q, record),
           record.author = "self", record.kind = "message",
           record.place \in Chat!Places(hChat), Answers(record, p)
    PROVE  ChatInv'
<1> USE DEF Chat!ChatAssumption, ChatInv
<1>1. /\ p \in hHandled /\ hAnswer[p] = NoPost /\ hPost[q] = NoPost /\ record # NoPost
      /\ hAnswer' = [hAnswer EXCEPT ![p] = q]
      /\ hPost' = [hPost EXCEPT ![q] = record]
      /\ UNCHANGED <<hChat, hTried, hHandled>>
  BY DEF Chat!Answer
<1>2. /\ hPost'[q] = record
      /\ \A r \in Posts \ {q} : hPost'[r] = hPost[r]
      /\ hAnswer'[p] = q
      /\ \A r \in Posts \ {p} : hAnswer'[r] = hAnswer[r]
  BY <1>1 DEF Chat!TypeOK
<1>3. q \notin hHandled
  BY <1>1 DEF TakenInv
<1>4. Chat!TypeOK'
  BY <1>1 DEF Chat!TypeOK
<1>5. PostInv'
  BY <1>1, <1>2 DEF PostInv, Chat!Places
<1>6. TakenInv'
  BY <1>1, <1>2, <1>3 DEF Chat!TypeOK, TakenInv
<1>7. AnswerInv'
  <2> SUFFICES ASSUME NEW r \in Posts, hAnswer'[r] # NoPost
               PROVE  /\ r \in hHandled
                      /\ hPost'[hAnswer'[r]] # NoPost
                      /\ Answers(hPost[hAnswer[r]], r)'
    BY <1>1 DEF AnswerInv
  <2>1. CASE r = p
    BY <1>1, <1>2, <1>3, <2>1 DEF Answers, Chat!Quotes
  <2>2. CASE r # p
    <3>1. r \in hHandled /\ hAnswer[r] \in Posts /\ hPost[hAnswer[r]] # NoPost
      BY <1>2, <2>2 DEF Chat!TypeOK, AnswerInv
    <3>2. /\ hPost'[r] = hPost[r] /\ hAnswer'[r] = hAnswer[r]
          /\ hPost'[hAnswer'[r]] = hPost[hAnswer[r]]
      BY <1>1, <1>2, <1>3, <2>2, <3>1
    <3>3. QED
      BY <1>1, <2>2, <3>1, <3>2 DEF AnswerInv, Answers, Chat!Quotes
  <2>3. QED
    BY <2>1, <2>2
<1>8. QED
  BY <1>4, <1>5, <1>6, <1>7

(* Each step keeps it: the channel of a post leads back to the post's place.    *)
LEMMA ChatStep ==
    ASSUME Chat!ChatAssumption, ChatInv, [Chat!Next]_(Chat!vars)
    PROVE  ChatInv'
<1>1. ASSUME NEW p \in Posts, Chat!Message(p)
      PROVE  ChatInv'
  <2>1. PICK author \in Chat!Others, place \in Chat!Places(hChat), empty \in BOOLEAN :
           Chat!Writes(p, [author |-> author, place |-> place, kind |-> "message",
                      empty |-> empty, on |-> NoPost])
    BY <1>1 DEF Chat!Message
  <2>2. hChat \in Chat!Platforms /\ author \in {"user", "bot", "anonymous"}
    BY DEF ChatInv, Chat!TypeOK, Chat!Others
  <2>3. [author |-> author, place |-> place, kind |-> "message", empty |-> empty,
         on |-> NoPost] \in Chat!Records
    BY <2>2 DEF Chat!Records
  <2>4. QED
    BY <2>1, <2>2, <2>3, ChatWrites
<1>2. ASSUME NEW p \in Posts, Chat!React(p)
      PROVE  ChatInv'
  <2>1. PICK author \in Chat!Others, kind \in {"added", "removed"}, place \in Chat!Places(hChat),
             on \in Posts \cup {NoPost} :
           /\ on = NoPost => hChat \in {"slack", "whatsmeow"}
           /\ Chat!Writes(p, [author |-> author, place |-> place, kind |-> kind,
                         empty |-> FALSE, on |-> on])
    BY <1>2 DEF Chat!React
  <2>2. hChat \in Chat!Platforms /\ author \in {"user", "bot", "anonymous"}
    BY DEF ChatInv, Chat!TypeOK, Chat!Others
  <2>3. [author |-> author, place |-> place, kind |-> kind, empty |-> FALSE,
         on |-> on] \in Chat!Records
    BY <2>2 DEF Chat!Records
  <2>4. QED
    BY <2>1, <2>2, <2>3, ChatWrites
<1>3. ASSUME NEW p \in Posts, Chat!Deliver(p)
      PROVE  ChatInv'
  <2> USE <1>3 DEF ChatInv, Chat!Deliver
  <2>1. Chat!TypeOK'
    BY DEF Chat!TypeOK
  <2>2. PostInv' /\ AnswerInv'
    BY DEF PostInv, AnswerInv, Answers, Chat!Quotes, Chat!Places
  <2>3. ASSUME Chat!TakesMessage(hPost[p]) \/ Chat!TakesReaction(hPost[p])
        PROVE  /\ hPost[p].author # "self"
               /\ hPost[p].kind = "message" /\ hChat \in {"slack", "telegram", "discord", "teams"}
                     => hPost[p].author # "bot"
               /\ hPost[p].kind \in {"message", "added"}
               /\ hPost[p].kind = "added" => hPost[p].on # NoPost
    BY <2>3 DEF Chat!TypeOK, PostInv, Chat!Platforms, Chat!TakesMessage, Chat!TakesReaction,
                Chat!FromBot
  <2>4. TakenInv'
    BY <2>3 DEF TakenInv
  <2>5. QED
    BY <2>1, <2>2, <2>4
<1>4. ASSUME NEW p \in Posts, NEW q \in Posts, hPost[p] # NoPost, Chat!Reply(p, q)
      PROVE  ChatInv'
  <2> DEFINE ch == Chat!Channel(hPost[p])
             record == Chat!Own(Chat!Landing(ch.id, ch.thread), p)
  <2>1. Chat!Answer(p, q, record) /\ hPost[p].kind = "message"
    BY <1>4 DEF Chat!Reply
  <2>2. hPost[p].place \in Chat!Places(hChat) /\ hChat \in Chat!Platforms
    BY <1>4 DEF ChatInv, Chat!TypeOK, PostInv
  <2>3. Chat!Landing(ch.id, ch.thread) = hPost[p].place
    BY <2>2 DEF Chat!Landing, Chat!Channel, Chat!Places, Chat!Platforms
  <2>4. /\ record \in Chat!Records /\ record.place = hPost[p].place
        /\ record.author = "self" /\ record.kind = "message"
        /\ record.on = IF Chat!Quotes THEN p ELSE NoPost
    BY <2>2, <2>3 DEF Chat!Own, Chat!Records
  <2> HIDE DEF record
  <2>5. Answers(record, p)
    BY <2>1, <2>4 DEF Answers
  <2>6. QED
    BY <2>1, <2>2, <2>4, <2>5, ChatAnswers
<1>5. ASSUME NEW p \in Posts, NEW q \in Posts, hPost[p] # NoPost, Chat!ReplyToReaction(p, q)
      PROVE  ChatInv'
  <2> DEFINE ch == Chat!Channel(hPost[p])
             record == Chat!Own(Chat!Landing(ch.id, TRUE), hPost[p].on)
  <2>1. Chat!Answer(p, q, record) /\ hPost[p].kind = "added"
    BY <1>5 DEF Chat!ReplyToReaction
  <2>2. /\ hPost[p].place \in Chat!Places(hChat) /\ hChat \in Chat!Platforms
        /\ hPost[p].on \in Posts \cup {NoPost}
    BY <1>5 DEF ChatInv, Chat!TypeOK, PostInv, Chat!Records
  <2>3. Chat!Landing(ch.id, TRUE) = IF hChat = "slack" THEN "thread" ELSE hPost[p].place
    BY <2>2 DEF Chat!Landing, Chat!Channel, Chat!Places, Chat!Platforms
  <2>4. Chat!Landing(ch.id, TRUE) \in Chat!Places(hChat)
    BY <2>2, <2>3 DEF Chat!Places
  <2>5. /\ record \in Chat!Records /\ record.place = Chat!Landing(ch.id, TRUE)
        /\ record.author = "self" /\ record.kind = "message"
        /\ record.on = IF Chat!Quotes THEN hPost[p].on ELSE NoPost
    BY <2>2, <2>4 DEF Chat!Own, Chat!Records
  <2> HIDE DEF record
  <2>6. Answers(record, p)
    BY <2>1, <2>3, <2>5 DEF Answers
  <2>7. QED
    BY <2>1, <2>4, <2>5, <2>6, ChatAnswers
<1>6. CASE UNCHANGED Chat!vars
  BY <1>6 DEF Chat!vars, ChatInv, Chat!TypeOK, PostInv, TakenInv, AnswerInv, Answers, Chat!Quotes,
              Chat!Places
<1>7. QED
  BY <1>1, <1>2, <1>3, <1>4, <1>5, <1>6 DEF Chat!Next

-----------------------------------------------------------------------------
(* Reactions                                                                 *)

(* A step of Poller is one that ReactionPollerProofs is about.                 *)
LEMMA PollerNext == Poller!Next => PollerP!Next
BY DEF Poller!Next, PollerP!Next, Poller!Comments, PollerP!Comments, Poller!connVars,
       PollerP!connVars, Poller!userVars, PollerP!userVars, Poller!storeVars, PollerP!storeVars,
       Poller!cycleVars, PollerP!cycleVars, Poller!scanVars, PollerP!scanVars, Poller!None,
       PollerP!None, Poller!On, PollerP!On, Poller!Goto, PollerP!Goto, Poller!Add, PollerP!Add,
       Poller!Remove, PollerP!Remove, Poller!Connect, PollerP!Connect, Poller!Cancel,
       PollerP!Cancel, Poller!DisconnectEnd, PollerP!DisconnectEnd, Poller!Polled,
       PollerP!Polled, Poller!BeginCycle, PollerP!BeginCycle, Poller!ListComments,
       PollerP!ListComments, Poller!Leave, PollerP!Leave, Poller!Exit, PollerP!Exit,
       Poller!Canceled, PollerP!Canceled, Poller!CommentsFail, PollerP!CommentsFail,
       Poller!ListFails, PollerP!ListFails, Poller!ListReactions, PollerP!ListReactions,
       Poller!Eligible, PollerP!Eligible, Poller!DispatchReaction, PollerP!DispatchReaction,
       Poller!CommentDone, PollerP!CommentDone, Poller!EndCycle, PollerP!EndCycle, Poller!Wake,
       PollerP!Wake, Poller!LoopStep, PollerP!LoopStep, Poller!Cardinality, PollerP!Cardinality

(* What is assumed of the constants is the same.                              *)
LEMMA PollerAssumed == Poller!PollerAssumption => PollerP!PollerAssumption
BY DEF Poller!PollerAssumption, PollerP!PollerAssumption, Poller!Comments, PollerP!Comments

(* Poller begins as ReactionPollerProofs says.                                 *)
LEMMA PollerInit ==
    ASSUME Poller!PollerAssumption, Poller!Init
    PROVE  PollerP!IInv
<1>1. PollerP!Init
  BY DEF Poller!Init, PollerP!Init, Poller!None, PollerP!None, Poller!Comments, PollerP!Comments
<1>2. QED
  BY <1>1, PollerAssumed, PollerP!InitInv

(* Its steps keep the invariant.                                              *)
LEMMA PollerStep ==
    ASSUME Poller!PollerAssumption, PollerP!IInv, [Poller!Next]_(Poller!vars)
    PROVE  PollerP!IInv'
<1>1. PollerP!Next \/ UNCHANGED PollerP!vars
  BY PollerNext DEF Poller!vars, PollerP!vars, Poller!connVars, PollerP!connVars,
                    Poller!userVars, PollerP!userVars, Poller!storeVars, PollerP!storeVars,
                    Poller!cycleVars, PollerP!cycleVars, Poller!scanVars, PollerP!scanVars
<1>2. QED
  BY <1>1, PollerAssumed, PollerP!StepInv

(* What the invariant says in Poller's own words.                             *)
LEMMA PollerMeans ==
    ASSUME Poller!PollerAssumption, PollerP!IInv
    PROVE  /\ Poller!TypeOK
           /\ Poller!DispatchedOnce
           /\ Poller!MissedOnlyByRemoval
<1>1. Poller!TypeOK
  BY DEF PollerP!IInv, PollerP!TypeOK, Poller!TypeOK, PollerP!Comments, Poller!Comments
<1>2. Poller!DispatchedOnce
  BY DEF PollerP!IInv, PollerP!OnceInv, Poller!DispatchedOnce
<1>3. Poller!MissedOnlyByRemoval
  <2>1. PollerP!MissedOnlyByRemoval
    BY PollerAssumed, PollerP!MissedInv
  <2>2. QED
    BY <2>1 DEF Poller!MissedOnlyByRemoval, PollerP!MissedOnlyByRemoval, Poller!Comments,
                PollerP!Comments, Poller!On, PollerP!On, Poller!Eligible, PollerP!Eligible,
                Poller!Cardinality, PollerP!Cardinality
<1>4. QED
  BY <1>1, <1>2, <1>3

-----------------------------------------------------------------------------
(* The keys of teams                                                        *)

(* A key that was published once and is no more.                                *)
Retired(k) == k \notin kPublished \cup kFuture

(* The request that refreshes is where it says, keeps to the timeout and finds  *)
(* the cache as it left it.                                                     *)
FetchInv == /\ \A q \in Requests : kStep[q] \in {"fetch", "answered"} <=> kFetchMu = q
            /\ \A q \in Requests : kStep[q] # "idle" => kKid[q] \in Kids
            /\ kFetchMu # NoRequest => kNow <= kKeysAt + FetchTime
            /\ kAnswer # {} => kFetchMu # NoRequest
            /\ \A q \in kCached : kFetchMu = q /\ kKid[q] \in kKeys

(* The past is past.                                                            *)
ClockInv == /\ kKeysAt <= kNow /\ kFreshAt <= kNow
            /\ \A k \in Kids : /\ kAccepted[k] <= kNow
                               /\ Retired(k) => kRetiredAt[k] <= kNow

(* A retired key in an answer was retired during the fetch; one in the cache    *)
(* came there by a fetch it was retired during or after.                        *)
RetiredInv == \A k \in Kids : Retired(k) =>
                 /\ k \in kAnswer => kKeysAt <= kRetiredAt[k]
                 /\ k \in kKeys => kFreshAt <= kRetiredAt[k] + FetchTime

KeysInv == Keys!TypeOK /\ FetchInv /\ ClockInv /\ RetiredInv /\ Keys!KeysExpire
-----------------------------------------------------------------------------
(* With an empty cache and nothing published the invariant holds.               *)
LEMMA KeysInit == Keys!KeysAssumption /\ Keys!Init => KeysInv
<1> SUFFICES ASSUME Keys!KeysAssumption, Keys!Init PROVE KeysInv
  OBVIOUS
<1> USE DEF Keys!Init, Keys!KeysAssumption
<1>1. Keys!TypeOK
  BY DEF Keys!TypeOK
<1>2. FetchInv /\ ClockInv /\ RetiredInv /\ Keys!KeysExpire
  BY DEF FetchInv, ClockInv, RetiredInv, Keys!KeysExpire, Retired
<1>3. QED
  BY <1>1, <1>2 DEF KeysInv

(* Each step keeps it: a fetch starts by the clock of its own request, so what  *)
(* it brings was retired, if at all, after that.                                *)
LEMMA KeysStep ==
    ASSUME Keys!KeysAssumption, KeysInv, [Keys!Next]_(Keys!vars)
    PROVE  KeysInv'
<1> USE DEF Keys!KeysAssumption, KeysInv, FetchInv, ClockInv, RetiredInv, Keys!KeysExpire,
            Retired, Keys!Goto, Keys!publisherVars, Keys!cacheVars, Keys!requestVars
<1>1. CASE Keys!Tick
  BY <1>1 DEF Keys!Tick, Keys!TypeOK
<1>2. ASSUME NEW k \in Kids, Keys!Publish(k)
      PROVE  KeysInv'
  BY <1>2 DEF Keys!Publish, Keys!TypeOK
<1>3. ASSUME NEW k \in Kids, Keys!Retire(k)
      PROVE  KeysInv'
  BY <1>3 DEF Keys!Retire, Keys!TypeOK
<1>4. ASSUME NEW q \in Requests, NEW k \in Kids, Keys!Request(q, k)
      PROVE  KeysInv'
  BY <1>4 DEF Keys!Request, Keys!TypeOK
<1>5. ASSUME NEW q \in Requests, Keys!Lookup(q)
      PROVE  KeysInv'
  BY <1>5 DEF Keys!Lookup, Keys!Finish, Keys!Accept, Keys!Serves, Keys!Refuses, Keys!Fresh,
              Keys!RateLimited, Keys!WithinHardCeiling, Keys!TypeOK
<1>6. ASSUME NEW q \in Requests, Keys!Resolved(q)
      PROVE  KeysInv'
  BY <1>6 DEF Keys!Resolved, Keys!Finish, Keys!Accept, Keys!Serves, Keys!Refuses, Keys!Fresh,
              Keys!RateLimited, Keys!WithinHardCeiling, Keys!TypeOK
<1>7. ASSUME NEW q \in Requests, Keys!BeginFetch(q)
      PROVE  KeysInv'
  BY <1>7 DEF Keys!BeginFetch, Keys!TypeOK
<1>8. ASSUME NEW q \in Requests, Keys!Answer(q)
      PROVE  KeysInv'
  BY <1>8 DEF Keys!Answer, Keys!TypeOK
<1>9. ASSUME NEW q \in Requests, Keys!FetchEnds(q)
      PROVE  KeysInv'
  BY <1>9 DEF Keys!FetchEnds, Keys!Finish, Keys!Accept, Keys!TypeOK
<1>10. ASSUME NEW q \in Requests, Keys!FetchFails(q)
      PROVE  KeysInv'
  BY <1>10 DEF Keys!FetchFails, Keys!Finish, Keys!Accept, Keys!WithinHardCeiling, Keys!TypeOK
<1>11. CASE UNCHANGED Keys!vars
  BY <1>11 DEF Keys!vars, Keys!TypeOK
<1>12. QED
  BY <1>1, <1>2, <1>3, <1>4, <1>5, <1>6, <1>7, <1>8, <1>9, <1>10, <1>11 DEF Keys!Next

-----------------------------------------------------------------------------
(* The replies of teams                                                     *)

(* What the token cache's invariants need to know of types: nobody holds a token   *)
(* that was not minted.                                                           *)
MintedInv == /\ sStep \in [Sends -> {"idle", "handler", "token", "lock", "mint", "minted", "post",
                                     "refused", "sent", "unknown", "failed"}]
             /\ sAttempt \in [Sends -> 1 .. 2]
             /\ sTok \in [Sends -> 0 .. sMinted]
             /\ sRefused \in [Sends -> 0 .. sMinted]
             /\ sCache \in 0 .. sMinted
             /\ sTokenMu \in Sends \cup {NoSend}
             /\ {sMinted, sDropped} \subseteq Nat

(* The send that asks for a token is the one that holds the lock, and there is  *)
(* no token to be had from the cache until it is done.                          *)
MinterInv == /\ \A s \in Sends : sStep[s] \in {"mint", "minted"} <=> sTokenMu = s
             /\ sTokenMu # NoSend => sCache = 0

(* A token just minted is nobody's yet: no other send posts it or was refused   *)
(* it.                                                                          *)
SecretInv == \A s, t \in Sends :
                sStep[s] = "minted" => /\ sTok[s] = sMinted
                                       /\ sRefused[t] # sTok[s]
                                       /\ t # s /\ sStep[t] = "post" => sTok[t] # sTok[s]

(* Who posts has a token, and who tries again was refused one, which is not     *)
(* the one in the cache.                                                        *)
RefusedInv == \A s \in Sends :
                 /\ sStep[s] \in {"minted", "post"} => sTok[s] # 0
                 /\ sAttempt[s] = 2 \/ sStep[s] = "refused" => sRefused[s] # 0
                 /\ sAttempt[s] = 2 => sCache # sRefused[s]

(* One token at most was minted and not dropped.                                *)
CountInv == LET current == sCache # 0 \/ \E s \in Sends : sStep[s] = "minted"
            IN  sMinted = sDropped + (IF current THEN 1 ELSE 0)

(* A conversation that a send replies to has no id, is in the table or lost to  *)
(* one that came since; a reply that found none is not of the second kind.      *)
EvictedInv == \A s \in Sends :
    /\ sStep[s] # "idle" => sTarget[s] # NoConv
    /\ sTarget[s] \in {NoConv, NoId} \cup Send!ToSet(sConvOrder) \/ sNewer[s] # {}
    /\ sStep[s] = "unknown" => sTarget[s] = NoId \/ sNewer[s] # {}

SendInv == /\ Send!TypeOK /\ MintedInv /\ MinterInv /\ SecretInv /\ RefusedInv /\ CountInv
           /\ Send!RetryUsesFreshToken
-----------------------------------------------------------------------------
(* The table keeps its shape.                                                     *)
LEMMA RecordedType ==
    ASSUME Send!SendAssumption, Send!TypeOK, NEW c \in Convs \cup {NoId}
    PROVE  /\ Send!Recorded(c) \in Seq(Convs)
           /\ Send!IsInjective(Send!Recorded(c))
           /\ Len(Send!Recorded(c)) <= MaxConvs
           /\ Send!ToSet(Send!Recorded(c)) \subseteq Convs
<1> USE DEF Send!SendAssumption
<1>1. /\ sConvOrder \in Seq(Convs) /\ Len(sConvOrder) <= MaxConvs
      /\ \A i, j \in DOMAIN sConvOrder : sConvOrder[i] = sConvOrder[j] => i = j
  BY DEF Send!TypeOK, Send!IsInjective
<1>2. CASE c \in Send!ToSet(sConvOrder) \cup {NoId}
  BY <1>1, <1>2 DEF Send!Recorded, Send!IsInjective, Send!ToSet
<1>3. CASE c \notin Send!ToSet(sConvOrder) \cup {NoId} /\ Len(sConvOrder) < MaxConvs
  <2>1. Send!Recorded(c) = Append(sConvOrder, c)
    BY <1>3 DEF Send!Recorded
  <2>2. QED
    BY <1>1, <1>3, <2>1 DEF Send!IsInjective, Send!ToSet
<1>4. CASE c \notin Send!ToSet(sConvOrder) \cup {NoId} /\ ~(Len(sConvOrder) < MaxConvs)
  <2>1. Send!Recorded(c) = Append(Tail(sConvOrder), c)
    BY <1>4 DEF Send!Recorded
  <2>2. /\ sConvOrder # <<>> /\ Tail(sConvOrder) \in Seq(Convs)
        /\ Len(Tail(sConvOrder)) = Len(sConvOrder) - 1
        /\ \A i \in 1 .. Len(Tail(sConvOrder)) : Tail(sConvOrder)[i] = sConvOrder[i + 1]
    BY <1>1, <1>4
  <2>3. QED
    BY <1>1, <1>4, <2>1, <2>2 DEF Send!IsInjective, Send!ToSet
<1>5. QED
  BY <1>2, <1>3, <1>4

(* The invariant holds before the first activity.                               *)
LEMMA SendInit ==
    ASSUME Send!SendAssumption, Send!Init
    PROVE  SendInv
<1> USE DEF Send!Init, Send!SendAssumption
<1>1. Send!TypeOK
  BY DEF Send!TypeOK, Send!IsInjective
<1>2. MintedInv /\ MinterInv /\ SecretInv /\ RefusedInv /\ CountInv /\ Send!RetryUsesFreshToken
  BY DEF MintedInv, MinterInv, SecretInv, RefusedInv, CountInv, Send!RetryUsesFreshToken
<1>3. QED
  BY <1>1, <1>2 DEF SendInv

(* Each step keeps it.                                                          *)
LEMMA SendStep ==
    ASSUME Send!SendAssumption, SendInv, [Send!Next]_(Send!vars)
    PROVE  SendInv'
<1> USE DEF Send!SendAssumption, SendInv, Send!Goto, Send!tableVars, Send!sendVars, Send!tokenVars
<1>1. ASSUME NEW s \in Sends, NEW c \in Convs \cup {NoId}, Send!Activity(s, c)
      PROVE  SendInv'
  <2>1. Send!TypeOK'
    BY <1>1, RecordedType DEF Send!Activity, Send!TypeOK
  <2>2. MintedInv' /\ MinterInv' /\ SecretInv'
    BY <1>1 DEF Send!Activity, MintedInv, MinterInv, SecretInv
  <2>3. RefusedInv' /\ Send!RetryUsesFreshToken' /\ CountInv'
    BY <1>1 DEF Send!Activity, MintedInv, RefusedInv, Send!RetryUsesFreshToken, CountInv
  <2>4. QED
    BY <2>1, <2>2, <2>3
<1>2. ASSUME NEW s \in Sends, Send!Lookup(s)
      PROVE  SendInv'
  <2> USE <1>2 DEF Send!Lookup
  <2>1. Send!TypeOK'
    BY DEF Send!TypeOK
  <2>2. MintedInv' /\ MinterInv'
    BY DEF MintedInv, MinterInv
  <2>3. SecretInv'
    BY DEF MintedInv, MinterInv, SecretInv
  <2>4. RefusedInv' /\ Send!RetryUsesFreshToken'
    BY DEF MintedInv, MinterInv, SecretInv, RefusedInv, Send!RetryUsesFreshToken
  <2>5. CountInv'
    BY DEF MintedInv, MinterInv, RefusedInv, CountInv
  <2>6. QED
    BY <2>1, <2>2, <2>3, <2>4, <2>5
<1>3. ASSUME NEW s \in Sends, Send!CachedToken(s)
      PROVE  SendInv'
  <2>1. Send!TypeOK'
    <3>1. UNCHANGED <<Send!tableVars, sAttempt, Send!tokenVars>>
      BY <1>3 DEF Send!CachedToken, Send!Take
    <3>2. sTok' \in [Sends -> 0 .. MaxTokens]
      BY <1>3 DEF Send!CachedToken, Send!Take, Send!TypeOK
    <3>3. sStep' \in [Sends -> {"idle", "handler", "token", "lock", "mint", "minted",
                                      "post", "refused", "sent", "unknown", "failed"}]
      BY <1>3 DEF Send!CachedToken, Send!Take, Send!TypeOK
    <3>4. QED
      BY <3>1, <3>2, <3>3 DEF Send!TypeOK
  <2> USE <1>3 DEF Send!CachedToken, Send!Take
  <2>2. MintedInv' /\ MinterInv'
    BY DEF MintedInv, MinterInv
  <2>3. SecretInv'
    BY DEF MintedInv, MinterInv, SecretInv
  <2>4. RefusedInv' /\ Send!RetryUsesFreshToken'
    BY DEF MintedInv, MinterInv, SecretInv, RefusedInv, Send!RetryUsesFreshToken
  <2>5. CountInv'
    BY DEF MintedInv, MinterInv, RefusedInv, CountInv
  <2>6. QED
    BY <2>1, <2>2, <2>3, <2>4, <2>5
<1>4. ASSUME NEW s \in Sends, Send!Lock(s)
      PROVE  SendInv'
  <2>1. Send!TypeOK'
    <3>1. UNCHANGED <<Send!tableVars, sAttempt, sCache, sMinted, sRefused, sDropped>>
      BY <1>4 DEF Send!Lock, Send!Take
    <3>2. sTok' \in [Sends -> 0 .. MaxTokens]
      BY <1>4 DEF Send!Lock, Send!Take, Send!TypeOK
    <3>3. sStep' \in [Sends -> {"idle", "handler", "token", "lock", "mint", "minted",
                                      "post", "refused", "sent", "unknown", "failed"}]
      BY <1>4 DEF Send!Lock, Send!Take, Send!TypeOK
    <3>4. sTokenMu' \in Sends \cup {NoSend}
      BY <1>4 DEF Send!Lock, Send!Take, Send!TypeOK
    <3>5. QED
      BY <3>1, <3>2, <3>3, <3>4 DEF Send!TypeOK
  <2> USE <1>4 DEF Send!Lock, Send!Take
  <2>2. MintedInv' /\ MinterInv'
    BY DEF MintedInv, MinterInv
  <2>3. SecretInv'
    BY DEF MintedInv, MinterInv, SecretInv
  <2>4. RefusedInv' /\ Send!RetryUsesFreshToken'
    BY DEF MintedInv, MinterInv, SecretInv, RefusedInv, Send!RetryUsesFreshToken
  <2>5. CountInv'
    BY DEF MintedInv, MinterInv, RefusedInv, CountInv
  <2>6. QED
    BY <2>1, <2>2, <2>3, <2>4, <2>5
<1>5. ASSUME NEW s \in Sends, Send!Mint(s)
      PROVE  SendInv'
  <2> USE <1>5 DEF Send!Mint
  <2>1. Send!TypeOK'
    <3>1. sMinted + 1 \in 1 .. MaxTokens
      BY DEF Send!TypeOK
    <3>2. QED
      BY <3>1 DEF Send!TypeOK
  <2>2. MintedInv' /\ MinterInv'
    BY DEF MintedInv, MinterInv
  <2>3. SecretInv'
    BY DEF MintedInv, MinterInv, SecretInv
  <2>4. RefusedInv' /\ Send!RetryUsesFreshToken'
    BY DEF MintedInv, MinterInv, SecretInv, RefusedInv, Send!RetryUsesFreshToken
  <2>5. CountInv'
    BY DEF MintedInv, MinterInv, RefusedInv, CountInv
  <2>6. QED
    BY <2>1, <2>2, <2>3, <2>4, <2>5
<1>6. ASSUME NEW s \in Sends, Send!Store(s)
      PROVE  SendInv'
  <2> USE <1>6 DEF Send!Store
  <2>1. Send!TypeOK'
    BY DEF Send!TypeOK
  <2>2. MintedInv' /\ MinterInv'
    BY DEF MintedInv, MinterInv
  <2>3. SecretInv'
    BY DEF MintedInv, MinterInv, SecretInv
  <2>4. RefusedInv' /\ Send!RetryUsesFreshToken'
    BY DEF MintedInv, MinterInv, SecretInv, RefusedInv, Send!RetryUsesFreshToken
  <2>5. CountInv'
    BY DEF MintedInv, MinterInv, RefusedInv, CountInv
  <2>6. QED
    BY <2>1, <2>2, <2>3, <2>4, <2>5
<1>7. ASSUME NEW s \in Sends, Send!MintFails(s)
      PROVE  SendInv'
  <2> USE <1>7 DEF Send!MintFails
  <2>1. Send!TypeOK'
    BY DEF Send!TypeOK
  <2>2. MintedInv' /\ MinterInv'
    BY DEF MintedInv, MinterInv
  <2>3. SecretInv'
    BY DEF MintedInv, MinterInv, SecretInv
  <2>4. RefusedInv' /\ Send!RetryUsesFreshToken'
    BY DEF MintedInv, MinterInv, SecretInv, RefusedInv, Send!RetryUsesFreshToken
  <2>5. CountInv'
    BY DEF MintedInv, MinterInv, RefusedInv, CountInv
  <2>6. QED
    BY <2>1, <2>2, <2>3, <2>4, <2>5
<1>8. ASSUME NEW s \in Sends, Send!Posted(s) \/ Send!PostFails(s)
      PROVE  SendInv'
  <2> USE <1>8 DEF Send!Posted, Send!PostFails
  <2>1. Send!TypeOK'
    BY DEF Send!TypeOK
  <2>2. MintedInv' /\ MinterInv'
    BY DEF MintedInv, MinterInv
  <2>3. SecretInv'
    BY DEF MintedInv, MinterInv, SecretInv
  <2>4. RefusedInv' /\ Send!RetryUsesFreshToken'
    BY DEF MintedInv, MinterInv, SecretInv, RefusedInv, Send!RetryUsesFreshToken
  <2>5. CountInv'
    BY DEF MintedInv, MinterInv, RefusedInv, CountInv
  <2>6. QED
    BY <2>1, <2>2, <2>3, <2>4, <2>5
<1>9. ASSUME NEW s \in Sends, Send!Refused(s)
      PROVE  SendInv'
  <2> USE <1>9 DEF Send!Refused
  <2>1. Send!TypeOK'
    BY DEF Send!TypeOK
  <2>2. MintedInv' /\ MinterInv'
    BY DEF MintedInv, MinterInv
  <2>3. SecretInv'
    BY DEF MintedInv, MinterInv, SecretInv
  <2>4. RefusedInv' /\ Send!RetryUsesFreshToken'
    BY DEF MintedInv, MinterInv, SecretInv, RefusedInv, Send!RetryUsesFreshToken
  <2>5. CountInv'
    BY DEF MintedInv, MinterInv, RefusedInv, CountInv
  <2>6. QED
    BY <2>1, <2>2, <2>3, <2>4, <2>5
<1>10. ASSUME NEW s \in Sends, Send!Invalidate(s)
      PROVE  SendInv'
  <2> USE <1>10 DEF Send!Invalidate
  <2>1. Send!TypeOK'
    BY DEF Send!TypeOK
  <2>2. MintedInv' /\ MinterInv'
    BY DEF MintedInv, MinterInv
  <2>3. SecretInv'
    BY DEF MintedInv, MinterInv, SecretInv
  <2>4. RefusedInv' /\ Send!RetryUsesFreshToken'
    BY DEF MintedInv, MinterInv, SecretInv, RefusedInv, Send!RetryUsesFreshToken
  <2>5. CountInv'
    BY DEF MintedInv, MinterInv, RefusedInv, CountInv
  <2>6. QED
    BY <2>1, <2>2, <2>3, <2>4, <2>5
<1>11. CASE Send!Expire
  <2> USE <1>11 DEF Send!Expire
  <2>1. Send!TypeOK'
    BY DEF Send!TypeOK
  <2>2. MintedInv' /\ MinterInv'
    BY DEF MintedInv, MinterInv
  <2>3. SecretInv'
    BY DEF MintedInv, MinterInv, SecretInv
  <2>4. RefusedInv' /\ Send!RetryUsesFreshToken'
    BY DEF MintedInv, MinterInv, SecretInv, RefusedInv, Send!RetryUsesFreshToken
  <2>5. CountInv'
    BY DEF MintedInv, MinterInv, RefusedInv, CountInv
  <2>6. QED
    BY <2>1, <2>2, <2>3, <2>4, <2>5
<1>12. CASE UNCHANGED Send!vars
  <2> USE <1>12 DEF Send!vars
  <2>1. Send!TypeOK'
    BY DEF Send!TypeOK
  <2>2. MintedInv' /\ MinterInv'
    BY DEF MintedInv, MinterInv
  <2>3. SecretInv'
    BY DEF MintedInv, MinterInv, SecretInv
  <2>4. RefusedInv' /\ Send!RetryUsesFreshToken'
    BY DEF MintedInv, MinterInv, SecretInv, RefusedInv, Send!RetryUsesFreshToken
  <2>5. CountInv'
    BY DEF MintedInv, MinterInv, RefusedInv, CountInv
  <2>6. QED
    BY <2>1, <2>2, <2>3, <2>4, <2>5
<1>13. QED
  BY <1>1, <1>2, <1>3, <1>4, <1>5, <1>6, <1>7, <1>8, <1>9, <1>10, <1>11, <1>12 DEF Send!Next

(* The table takes the conversation that an activity names, and what it forgets *)
(* for it makes that one a newcomer.                                            *)
LEMMA RecordedKeeps ==
    ASSUME Send!SendAssumption, Send!TypeOK, NEW c \in Convs \cup {NoId}
    PROVE  /\ c \in {NoId} \cup Send!ToSet(Send!Recorded(c))
           /\ \A d \in Send!ToSet(sConvOrder) \ Send!ToSet(Send!Recorded(c)) :
                 Send!ToSet(Send!Recorded(c)) \ Send!ToSet(sConvOrder) # {}
<1> USE DEF Send!SendAssumption
<1>1. sConvOrder \in Seq(Convs)
  BY DEF Send!TypeOK
<1>2. CASE c \in Send!ToSet(sConvOrder) \cup {NoId}
  BY <1>2 DEF Send!Recorded
<1>3. CASE c \notin Send!ToSet(sConvOrder) \cup {NoId}
  <2>1. PICK q \in Seq(Convs) : Send!Recorded(c) = Append(q, c)
    <3>1. CASE Len(sConvOrder) < MaxConvs
      BY <1>1, <1>3, <3>1 DEF Send!Recorded
    <3>2. CASE ~(Len(sConvOrder) < MaxConvs)
      <4>1. Tail(sConvOrder) \in Seq(Convs)
        BY <1>1, <3>2
      <4>2. QED
        BY <1>3, <3>2, <4>1 DEF Send!Recorded
    <3>3. QED
      BY <3>1, <3>2
  <2>2. c \in Send!ToSet(Send!Recorded(c))
    <3>1. Append(q, c)[Len(q) + 1] = c /\ Len(q) + 1 \in DOMAIN Append(q, c)
      BY <2>1
    <3>2. QED
      BY <2>1, <3>1 DEF Send!ToSet
  <2>3. QED
    BY <1>3, <2>2
<1>4. QED
  BY <1>2, <1>3

(* Only an activity changes the table, and only of a conversation it names.     *)
LEMMA EvictedStep ==
    ASSUME Send!SendAssumption, Send!TypeOK, EvictedInv, [Send!Next]_(Send!vars)
    PROVE  EvictedInv'
<1> USE DEF Send!SendAssumption, Send!Goto, Send!tableVars, Send!sendVars, Send!tokenVars
<1>1. ASSUME NEW s \in Sends, NEW c \in Convs \cup {NoId}, Send!Activity(s, c)
      PROVE  EvictedInv'
  <2> DEFINE fresh == Send!ToSet(sConvOrder') \ Send!ToSet(sConvOrder)
  <2>1. /\ sStep[s] = "idle" /\ sStep' = [sStep EXCEPT ![s] = "handler"]
        /\ sTarget' = [sTarget EXCEPT ![s] = c] /\ c # NoConv
        /\ \A t \in Sends : sNewer'[t] = IF sTarget[t] = NoConv THEN {} ELSE sNewer[t] \cup fresh
    BY <1>1 DEF Send!Activity
  <2>2. /\ c \in {NoId} \cup Send!ToSet(sConvOrder')
        /\ \A d \in Send!ToSet(sConvOrder) \ Send!ToSet(sConvOrder') : fresh # {}
    BY <1>1, RecordedKeeps DEF Send!Activity
  <2>3. ASSUME NEW t \in Sends
        PROVE  /\ sStep'[t] # "idle" => sTarget'[t] # NoConv
               /\ sTarget'[t] \in {NoConv, NoId} \cup Send!ToSet(sConvOrder') \/ sNewer'[t] # {}
               /\ sStep'[t] = "unknown" => sTarget'[t] = NoId \/ sNewer'[t] # {}
    <3>1. CASE t = s
      BY <2>1, <2>2, <3>1 DEF Send!TypeOK
    <3>2. CASE t # s
      <4>1. sStep'[t] = sStep[t] /\ sTarget'[t] = sTarget[t]
        BY <2>1, <3>2 DEF Send!TypeOK
      <4>2. sTarget[t] # NoConv => sNewer[t] \cup fresh = sNewer'[t]
        BY <2>1
      <4>3. QED
        BY <2>2, <4>1, <4>2 DEF EvictedInv
    <3>3. QED
      BY <3>1, <3>2
  <2>4. QED
    BY <2>3 DEF EvictedInv
<1>2. ASSUME NEW s \in Sends, Send!Lookup(s)
      PROVE  EvictedInv'
  BY <1>2 DEF Send!Lookup, Send!TypeOK, EvictedInv
<1>3. ASSUME UNCHANGED Send!tableVars,
             \A s \in Sends : sStep'[s] = sStep[s] \/ (sStep[s] # "idle" /\ sStep'[s] # "unknown")
      PROVE  EvictedInv'
  BY <1>3 DEF EvictedInv
<1>4. ASSUME NEW s \in Sends,
             \/ Send!CachedToken(s) \/ Send!Lock(s) \/ Send!Mint(s) \/ Send!Store(s)
             \/ Send!MintFails(s) \/ Send!Posted(s) \/ Send!PostFails(s) \/ Send!Refused(s)
             \/ Send!Invalidate(s)
      PROVE  EvictedInv'
  <2>1. UNCHANGED Send!tableVars
    BY <1>4 DEF Send!CachedToken, Send!Lock, Send!Mint, Send!Store, Send!MintFails,
                Send!Posted, Send!PostFails, Send!Refused, Send!Invalidate
  <2>2. /\ sStep[s] # "idle"
        /\ \E l \in {"lock", "mint", "minted", "post", "refused", "sent", "failed", "token"} :
              sStep' = [sStep EXCEPT ![s] = l]
    BY <1>4 DEF Send!CachedToken, Send!Lock, Send!Mint, Send!Store, Send!MintFails, Send!Take,
                Send!Posted, Send!PostFails, Send!Refused, Send!Invalidate
  <2>3. QED
    BY <1>3, <2>1, <2>2 DEF Send!TypeOK
<1>5. ASSUME Send!Expire \/ UNCHANGED Send!vars
      PROVE  EvictedInv'
  BY <1>3, <1>5 DEF Send!Expire, Send!vars
<1>6. QED
  BY <1>1, <1>2, <1>4, <1>5 DEF Send!Next

-----------------------------------------------------------------------------
(* The five together                                                         *)

(* Each part keeps its invariant, whichever runs.                             *)
ClientsInv == ForgeInv /\ ChatInv /\ PollerP!IInv /\ KeysInv /\ SendInv

(* A step of the whole is a step of each part or leaves it alone.             *)
LEMMA StepOfEach ==
    ASSUME [Next]_vars
    PROVE  /\ [Forge!Next]_(Forge!vars)
           /\ [Chat!Next]_(Chat!vars)
           /\ [Poller!Next]_(Poller!vars)
           /\ [Keys!Next]_(Keys!vars)
           /\ [Send!Next]_(Send!vars)
<1> USE DEF Next, Others, vars, fVars, hVars, rVars, kVars, sVars
<1>1. [Forge!Next]_(Forge!vars)
  BY Zenon DEF Forge!vars, Forge!botVars
<1>2. [Chat!Next]_(Chat!vars)
  BY Zenon DEF Chat!vars
<1>3. [Poller!Next]_(Poller!vars)
  BY Zenon DEF Poller!vars, Poller!connVars, Poller!userVars, Poller!storeVars,
               Poller!cycleVars, Poller!scanVars
<1>4. [Keys!Next]_(Keys!vars)
  BY Zenon DEF Keys!vars, Keys!publisherVars, Keys!cacheVars, Keys!requestVars
<1>5. [Send!Next]_(Send!vars)
  BY Zenon DEF Send!vars, Send!tableVars, Send!sendVars, Send!tokenVars
<1>6. QED
  BY <1>1, <1>2, <1>3, <1>4, <1>5

(* The invariants hold at first and are kept, so they always hold.            *)
THEOREM ClientsInvariance == Spec => []ClientsInv
<1> USE ClientAssumption DEF ClientAssumption
<1>1. Init => ClientsInv
  BY ForgeInit, ChatInit, PollerInit, KeysInit, SendInit DEF Init, ClientsInv
<1>2. ClientsInv /\ [Next]_vars => ClientsInv'
  BY StepOfEach, ForgeStep, ChatStep, PollerStep, KeysStep, SendStep DEF ClientsInv
<1>3. QED
  BY <1>1, <1>2, PTL DEF Spec

(* Every variable of the five parts keeps its type.                           *)
THEOREM TypesKept == Spec => []ClientTypes
<1>1. ClientsInv => ClientTypes
  BY ClientAssumption, PollerMeans
  DEF ClientAssumption, ClientsInv, ClientTypes, ForgeInv, ChatInv, KeysInv, SendInv
<1>2. QED
  BY <1>1, ClientsInvariance, PTL

(* No bot handles a post of its own, unless its forge, being github or gitlab, *)
(* gave a blank answer to the question who it is.                             *)
THEOREM OwnPostsAreDropped == Spec => [](~Blank => OwnPostsDropped)
<1>1. ClientsInv /\ ~Blank => Forge!OwnPostsDropped
  BY DEF ClientsInv, ForgeInv, NoteTakenInv, Forge!OwnPostsDropped
<1>2. ClientsInv => Chat!OwnPostsDropped
  BY DEF ClientsInv, ChatInv, TakenInv, Chat!OwnPostsDropped
<1>3. ClientsInv => (~Blank => OwnPostsDropped)
  BY <1>1, <1>2 DEF OwnPostsDropped
<1>4. QED
  BY <1>3, ClientsInvariance, PTL

(* So where no forge but bitbucket, which takes it for a failure, answers     *)
(* blankly, it holds of all.                                                  *)
COROLLARY KnownBotsDropOwnPosts ==
    ASSUME BlankAt \subseteq {"bitbucket"}
    PROVE  Spec => []OwnPostsDropped
<1>1. ~Blank
  BY DEF Blank
<1>2. QED
  BY <1>1, OwnPostsAreDropped, PTL

(* A reply lands on the item, thread, group or chat of what it replies to,    *)
(* and quotes it where the platform can.                                      *)
THEOREM RepliesLand == Spec => []RepliesLandAtOrigin
<1>1. ClientsInv => Forge!RepliesLandAtOrigin
  BY DEF ClientsInv, ForgeInv, NoteAnswerInv, Forge!RepliesLandAtOrigin
<1>2. ClientsInv => Chat!RepliesLandAtOrigin
  BY DEF ClientsInv, ChatInv, Chat!TypeOK, TakenInv, AnswerInv, Answers,
         Chat!RepliesLandAtOrigin
<1>3. ClientsInv => RepliesLandAtOrigin
  BY <1>1, <1>2 DEF RepliesLandAtOrigin
<1>4. QED
  BY <1>3, ClientsInvariance, PTL

(* gitlab's bot publishes no internal thread: the internal notes it handles   *)
(* are those it cannot tell, on issues that are confidential, where its reply *)
(* stays confidential too.                                                    *)
THEOREM InternalNotesStay == Spec => []InternalNotesStayInternal
<1>1. ClientsInv => InternalNotesStayInternal
  BY DEF ClientsInv, ForgeInv, Forge!TypeOK, NoteTakenInv, NoteAnswerInv,
         InternalNotesStayInternal, Forge!InternalNotesStayInternal
<1>2. QED
  BY <1>1, ClientsInvariance, PTL

(* A reaction is handled at most once, in all cycles of all connections.      *)
THEOREM ReactionsOnce == Spec => []DispatchedOnce
<1>1. ClientsInv => DispatchedOnce
  BY ClientAssumption, PollerMeans DEF ClientAssumption, ClientsInv, DispatchedOnce
<1>2. QED
  BY <1>1, ClientsInvariance, PTL

(* A comment skipped for its count hides no reaction that is the loop's to    *)
(* handle, unless it lost one since it was counted.                           *)
THEOREM NothingElseMissed == Spec => []MissedOnlyByRemoval
<1>1. ClientsInv => MissedOnlyByRemoval
  BY ClientAssumption, PollerMeans DEF ClientAssumption, ClientsInv, MissedOnlyByRemoval
<1>2. QED
  BY <1>1, ClientsInvariance, PTL

(* A retired key is accepted for less than HardMaxAge after it was retired    *)
(* and the fetch that may have raced that, whatever fetches fail.             *)
THEOREM RetiredKeysExpire == Spec => []KeysExpire
<1>1. ClientsInv => KeysExpire
  BY DEF ClientsInv, KeysInv, KeysExpire
<1>2. QED
  BY <1>1, ClientsInvariance, PTL

(* The retry of a refused post never posts the refused token again, whichever *)
(* mints, expiries and invalidations of other sends come between.             *)
THEOREM RetryIsFresh == Spec => []RetryUsesFreshToken
<1>1. ClientsInv => RetryUsesFreshToken
  BY DEF ClientsInv, SendInv, RetryUsesFreshToken
<1>2. QED
  BY <1>1, ClientsInvariance, PTL

(* Only BeginFetch takes the lock, and it keeps the interval.                 *)
LEMMA FetchSpaced ==
    ASSUME Keys!KeysAssumption, Keys!TypeOK, Keys!Next, kFetchMu' # kFetchMu, kFetchMu' # NoRequest
    PROVE  kNow >= kKeysAt + MinRefresh
<1>1. PICK q \in Requests : Keys!BeginFetch(q)
  BY DEF Keys!Next, Keys!Tick, Keys!Publish, Keys!Retire, Keys!Request, Keys!Lookup,
         Keys!Resolved, Keys!Answer, Keys!FetchEnds, Keys!FetchFails, Keys!publisherVars,
         Keys!cacheVars, Keys!requestVars
<1>2. kNow - kKeysAt >= MinRefresh
  BY <1>1 DEF Keys!BeginFetch, Keys!Refuses, Keys!RateLimited, Keys!TypeOK, Keys!KeysAssumption
<1>3. QED
  BY <1>2 DEF Keys!TypeOK, Keys!KeysAssumption

(* Key fetches keep their interval, however many requests wait and whether or *)
(* not they succeed; and each token minted beyond the first replaces one that *)
(* was dropped, so that sends that find no token at once mint one between them. *)
THEOREM RequestsAreFew == Spec => RequestsCoalesce
<1>1. ClientsInv /\ [Next]_vars
         => [kFetchMu' # kFetchMu /\ kFetchMu' # NoRequest
                => kNow >= kKeysAt + MinRefresh]_(Keys!vars)
  BY ClientAssumption, StepOfEach, FetchSpaced DEF ClientAssumption, ClientsInv, KeysInv
<1>2. ClientsInv => Send!MintsCoalesce
  BY DEF ClientsInv, SendInv, MintedInv, CountInv, Send!MintsCoalesce
<1>3. QED
  BY <1>1, <1>2, ClientsInvariance, PTL DEF Spec, RequestsCoalesce, Keys!FetchesAreSpaced

(* A reply finds no conversation only when its activity named none, or the      *)
(* table took another one since that activity.                                  *)
LostOnlyToNewcomers ==
    \A s \in Sends : sStep[s] = "unknown" => sTarget[s] = NoId \/ sNewer[s] # {}

(* That holds always, though fewer than MaxConvs newcomers may do for it: an    *)
(* activity does not renew the place of its conversation in the table.          *)
THEOREM RepliesLostToNewcomers == Spec => []LostOnlyToNewcomers
<1>1. Init => EvictedInv
  BY DEF Init, Send!Init, EvictedInv
<1>2. ClientsInv /\ EvictedInv /\ [Next]_vars => EvictedInv'
  BY ClientAssumption, StepOfEach, EvictedStep DEF ClientAssumption, ClientsInv, SendInv
<1>3. EvictedInv => LostOnlyToNewcomers
  BY DEF EvictedInv, LostOnlyToNewcomers
<1>4. QED
  BY <1>1, <1>2, <1>3, ClientsInvariance, PTL DEF Spec
=============================================================================
