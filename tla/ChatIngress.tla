----------------------------- MODULE ChatIngress -----------------------------
(***************************************************************************)
(* What the chat adapters take for a message or a reaction, and where a    *)
(* reply lands: the filters between the library's event and Dispatch, the  *)
(* mapping to a Message or Reaction, and Send and SendThreaded, as core's  *)
(* Reply and ReplyToMessage call them.                                     *)
(*                                                                         *)
(* The bot's own replies come back as events, except from the WhatsApp     *)
(* Cloud API.  Adapters never add reactions.                               *)
(***************************************************************************)
EXTENDS Integers, FiniteSets

CONSTANTS Posts, \* messages, and reactions to them
          NoPost \* a post not written yet, or none

VARIABLES chat,    \* the platform
          post,    \* every post
          tried,   \* posts whose event was delivered
          handled, \* posts the bot dispatched
          answer   \* the reply to a post

vars == <<chat, post, tried, handled, answer>>

Platforms == {"slack", "telegram", "discord", "whatsmeow", "whatsapp", "signal", "teams"}

(* Where a post can be: slack's threads are beside their channel, signal's groups  *)
(* and discord's guild channels beside direct chats; whatsmeow also brings         *)
(* broadcasts, which take no reply.                                                *)
Places(f) == CASE f = "slack" -> {"channel", "thread"}
               [] f = "signal" -> {"direct", "group"}
               [] f = "whatsmeow" -> {"chat", "broadcast"}
               [] f = "discord" -> {"channel", "dm"}
               [] OTHER -> {"chat"}

(* A post: its author, where it is, whether there is text or a file in it, and for *)
(* a reaction ("added" or "removed") the message it is on, NoPost when the event   *)
(* names none (a slack file, a whatsmeow key without an id).  A reply quotes a     *)
(* message or none.                                                                *)
Records == [author : {"user", "bot", "self", "anonymous"},
            place : UNION {Places(f) : f \in Platforms},
            kind : {"message", "added", "removed"}, empty : BOOLEAN,
            on : Posts \cup {NoPost}]

\* What the module takes for granted of its parameters; MCClients assumes it.
ChatAssumption == NoPost \notin Posts \cup Records

Init == /\ chat \in Platforms
        /\ post = [p \in Posts |-> NoPost]
        /\ tried = {}
        /\ handled = {}
        /\ answer = [p \in Posts |-> NoPost]

-----------------------------------------------------------------------------
(* The filters *)

\* Fault: whatsmeow's IsFromMe and signal's own number are not looked at.
FromBotByFlag(p) == /\ chat \in {"slack", "telegram", "discord", "teams"}
                    /\ p.author \in {"bot", "self"}

\* The four that flag bots drop them all; whatsmeow and signal know the bot's own
\* messages; the Cloud API brings none.
FromBot(p) == CASE chat \in {"slack", "telegram", "discord", "teams"} -> p.author \in {"bot", "self"}
                [] chat \in {"whatsmeow", "signal"} -> p.author = "self"
                [] OTHER -> FALSE

\* No text and no file: joins, stickers, receipts and the like.
Unusable(p) == p.empty /\ chat \in {"slack", "telegram", "whatsmeow"}

\* A signal sender has a number, an older source field or an id, or is skipped.
TakesMessage(p) == /\ p.kind = "message"
                   /\ ~FromBot(p) /\ ~Unusable(p)
                   /\ p.place # "broadcast"
                   /\ p.author # "anonymous"

\* Fault: a reaction is taken though the event names no message.
TakesAnyReaction(p) == p.kind = "added" /\ p.place # "broadcast" /\ p.author \notin {"bot", "self"}

\* A bot's reaction is dropped where the event tells it apart, as in a guild.
\* telegram keeps what is in the new set of reactions and not in the old.
TakesReaction(p) == /\ p.kind = "added"
                    /\ p.place # "broadcast"
                    /\ chat = "telegram" \/ (chat = "discord" /\ p.place = "channel") => p.author # "bot"
                    /\ chat \in {"slack", "whatsmeow"} => p.on # NoPost

-----------------------------------------------------------------------------
(* Messages and replies *)

\* Fault: a group message's channel is its sender.
ChannelOfSender(p) == [id |-> IF p.place = "group" THEN "direct" ELSE p.place, thread |-> p.place = "thread"]

\* toMessage: the channel, and the thread that slack keeps in ReplyToID.
Channel(p) == [id |-> IF p.place = "thread" THEN "channel" ELSE p.place, thread |-> p.place = "thread"]

\* Send puts a reply in the channel, on slack in the thread it is given.
Landing(id, threaded) == IF chat = "slack" /\ threaded THEN "thread" ELSE id

\* The platforms on which Reply and ReplyToMessage quote; slack threads, the rest is flat.
Quotes == chat \in {"telegram", "discord", "whatsapp"}

Writes(p, record) == /\ post[p] = NoPost
                     /\ post' = [post EXCEPT ![p] = record]
                     /\ UNCHANGED <<chat, tried, handled, answer>>

Others == {"user", "bot"} \cup IF chat = "signal" THEN {"anonymous"} ELSE {}

\* Somebody posts a message.
Message(p) == \E author \in Others, place \in Places(chat), empty \in BOOLEAN :
                 Writes(p, [author |-> author, place |-> place, kind |-> "message",
                            empty |-> empty, on |-> NoPost])

\* Somebody adds a reaction to a message or removes one, where the message is; or to
\* something else.
React(p) == /\ chat \notin {"signal", "teams"}
            /\ \E author \in Others, kind \in {"added", "removed"}, place \in Places(chat),
                  on \in Posts \cup {NoPost} :
                 /\ IF on = NoPost THEN chat \in {"slack", "whatsmeow"}
                    ELSE /\ post[on] # NoPost
                         /\ post[on].kind = "message"
                         /\ post[on].place = place
                 /\ Writes(p, [author |-> author, place |-> place, kind |-> kind,
                               empty |-> FALSE, on |-> on])

\* The library delivers a post.
Deliver(p) == /\ post[p] # NoPost
              /\ p \notin tried
              /\ chat = "whatsapp" => post[p].author # "self"
              /\ tried' = tried \cup {p}
              /\ handled' = IF TakesMessage(post[p]) \/ TakesReaction(post[p])
                            THEN handled \cup {p} ELSE handled
              /\ UNCHANGED <<chat, post, answer>>

Own(place, quoted) == [author |-> "self", place |-> place, kind |-> "message", empty |-> FALSE,
                       on |-> IF Quotes THEN quoted ELSE NoPost]

Answer(p, q, record) == /\ p \in handled
                        /\ answer[p] = NoPost
                        /\ post[q] = NoPost
                        /\ answer' = [answer EXCEPT ![p] = q]
                        /\ post' = [post EXCEPT ![q] = record]
                        /\ UNCHANGED <<chat, tried, handled>>

\* Reply(m): Send to the channel of m, with InReplyTo(m).
Reply(p, q) == /\ post[p].kind = "message"
               /\ LET ch == Channel(post[p])
                  IN  Answer(p, q, Own(Landing(ch.id, ch.thread), p))

\* ReplyToMessage to a reaction: SendThreaded, or Send where there is none.  slack
\* nests the reply under the message, in its thread.
ReplyToReaction(p, q) == /\ post[p].kind = "added"
                         /\ LET ch == Channel(post[p])
                            IN  Answer(p, q, Own(Landing(ch.id, TRUE), post[p].on))

Next == \E p \in Posts : \/ Message(p) \/ React(p)
                         \/ Deliver(p)
                         \/ \E q \in Posts : post[p] # NoPost /\ (Reply(p, q) \/ ReplyToReaction(p, q))

Spec == Init /\ [][Next]_vars

-----------------------------------------------------------------------------
(* Properties *)

(* Types of every variable. *)
TypeOK == /\ chat \in Platforms
          /\ post \in [Posts -> Records \cup {NoPost}]
          /\ handled \subseteq tried /\ tried \subseteq Posts
          /\ answer \in [Posts -> Posts \cup {NoPost}]

(* slack.go:393, discord.go:73, telegram.go:408, whatsmeow.go:354, signal.go:399: *)
(* the bot's own messages are dropped "to avoid reply loops".  It never handles   *)
(* one of its replies, and where the platform flags bots no other bot's message.  *)
OwnPostsDropped ==
    \A p \in handled : /\ post[p].author # "self"
                       /\ post[p].kind = "message" /\ chat \in {"slack", "telegram", "discord", "teams"}
                             => post[p].author # "bot"

(* A reply lands where its message is: in its thread and not beside it, in the    *)
(* group and not with the sender, quoting the message, or the one reacted to.     *)
(* whatsmeow.go:366: "keeping Reaction.MessageID always set".                     *)
RepliesLandAtOrigin ==
    \A p \in handled :
        LET r == post[p]
        IN  /\ r.kind = "added" => r.on # NoPost
            /\ answer[p] # NoPost =>
                  LET a == post[answer[p]]
                  IN  /\ a.place = r.place \/ (chat = "slack" /\ r.kind = "added" /\ a.place = "thread")
                      /\ Quotes => a.on = IF r.kind = "message" THEN p ELSE r.on
=============================================================================
