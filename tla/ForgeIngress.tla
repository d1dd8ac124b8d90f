---------------------------- MODULE ForgeIngress ----------------------------
(***************************************************************************)
(* What the github, gitlab and bitbucket adapters take for a message, and  *)
(* where a reply to it lands: the webhook filters and the reply-loop guard *)
(* of internal/<forge>/server.go, the channel ids of message.go and the    *)
(* parsing of them in send.go.                                             *)
(*                                                                         *)
(* The bot's own replies come back as webhooks.  It knows them by its      *)
(* account, which it is given or asks for when it connects, before its     *)
(* server accepts a request.  A signed and well-formed body is assumed:    *)
(* module WebhookServer rejects the others.                                *)
(*                                                                         *)
(* "edited" stands for every comment event that the filters drop by its    *)
(* kind: edits and deletions, and the notes that gitlab itself writes      *)
(* (system).  "opened" stands for every event that makes or changes what   *)
(* is to be reviewed: reopened, synchronize and update too.  The author of *)
(* such an event is whom the filter asks about: who opened the request on  *)
(* github and gitlab, who caused the event on bitbucket.                   *)
(***************************************************************************)
EXTENDS Integers, FiniteSets

CONSTANTS Posts,       \* comments, and pull or merge requests, users and bots write
          NoPost,      \* a post not written yet, or no reply
          BlankAt      \* forges that may answer the question for the bot's account with none

(* What posts are on.  An issue and a merge request have the same number, as they  *)
(* are numbered apart; github numbers its issues and pull requests together, and   *)
(* one item stands for both.                                                       *)
Items == {[kind |-> "issue", number |-> 1], [kind |-> "confidential", number |-> 2],
          [kind |-> "merge", number |-> 1], [kind |-> "commit", number |-> 0]}

Records == [author : {"user", "bot", "self"}, item : Items,
            event : {"created", "edited", "opened", "closed"}, internal : BOOLEAN]

\* What the module takes for granted of its parameters; MCClients assumes it.
ForgeAssumption == /\ NoPost \notin Posts \cup Records
                   /\ BlankAt \subseteq {"github", "gitlab", "bitbucket"}

VARIABLES forge,   \* "github", "gitlab", "bitbucket" (Cloud) or "datacenter"
          auth,    \* "app": a github App, "flagged": gitlab 18.6, "told": Config.Self, or "user"
          state,   \* the server: "off", "resolving" or "serving"
          self,    \* the identity the bot knows: "none" or "self"
          post,    \* every post
          tried,   \* posts whose webhook was delivered
          handled, \* posts the bot dispatched
          answer   \* the reply to a post

vars == <<forge, auth, state, self, post, tried, handled, answer>>
botVars == <<forge, auth, state, self>>

On(f) == {i \in Items : CASE f = "gitlab" -> TRUE
                          [] f = "bitbucket" -> i.kind \in {"issue", "merge"}
                          [] OTHER -> i.kind = "merge"}

\* Data Center has no whoami, and bitbucket's access tokens may not ask: the bot is
\* then told its account.
Auths(f) == CASE f = "github" -> {"user", "app"}
              [] f = "gitlab" -> {"user", "flagged"}
              [] f = "bitbucket" -> {"user", "told"}
              [] f = "datacenter" -> {"told"}

Init == /\ forge \in {"github", "gitlab", "bitbucket", "datacenter"}
        /\ auth \in Auths(forge)
        /\ self = IF auth = "told" THEN "self" ELSE "none"
        /\ state = "off"
        /\ post = [p \in Posts |-> NoPost]
        /\ tried = {}
        /\ handled = {}
        /\ answer = [p \in Posts |-> NoPost]

-----------------------------------------------------------------------------
(* The bot's own account *)

\* A github App's comments are marked as a bot's and need no recognizing.
AsksWhoami == auth \in {"user", "flagged"}

\* Fault: requests are served while the account is asked for.
ConnectServes == /\ state = "off"
                 /\ state' = "serving"
                 /\ UNCHANGED <<forge, auth, self, post, tried, handled, answer>>

Connect == /\ state = "off"
           /\ state' = IF AsksWhoami THEN "resolving" ELSE "serving"
           /\ UNCHANGED <<forge, auth, self, post, tried, handled, answer>>

\* The forge answers.  Only bitbucket refuses an answer with no account in it.
Resolve == /\ state = "resolving"
           /\ \/ /\ self' = "self"
                 /\ state' = "serving"
              \/ /\ forge \in BlankAt
                 /\ self' = "none"
                 /\ state' = IF forge = "bitbucket" THEN "off" ELSE "serving"
           /\ UNCHANGED <<forge, auth, post, tried, handled, answer>>

\* The question fails, times out or is canceled; or Disconnect stops the server.
Stop == /\ state # "off"
        /\ state' = "off"
        /\ UNCHANGED <<forge, auth, self, post, tried, handled, answer>>

IsSelf(author) == self = "self" /\ author = "self"

-----------------------------------------------------------------------------
(* The filters *)

\* isSelfOrBotUser: github marks the accounts of Apps.
GitHubDrops(author) == author = "bot" \/ (author = "self" /\ auth = "app") \/ IsSelf(author)

\* Fault: only the note's own flag tells an internal note.
InternalByFlag(p) == p.internal /\ auth = "flagged"

\* handleNote: gitlab 18.6 flags an internal note.  Before, one is known by its
\* trigger, which confidential issues share.
Internal(p) == \/ p.internal /\ auth = "flagged"
               \/ p.internal /\ p.item.kind # "confidential"

\* A comment that is dispatched as a message.
GitHubTakes(p) == p.event = "created" /\ ~GitHubDrops(p.author)
GitLabTakes(p) == /\ p.item.kind # "commit"
                  /\ p.event = "created"
                  /\ ~Internal(p)
                  /\ ~IsSelf(p.author)
BitbucketTakes(p) == p.event = "created" /\ ~IsSelf(p.author)

\* A pull or merge request that is handed to its callback.
GitHubReviews(p) == p.event = "opened" /\ ~GitHubDrops(p.author)
OthersReview(p) == p.event = "opened" /\ ~IsSelf(p.author)

Takes(p) == CASE forge = "github" -> GitHubTakes(p) \/ GitHubReviews(p)
              [] forge = "gitlab" -> GitLabTakes(p) \/ OthersReview(p)
              [] OTHER -> BitbucketTakes(p) \/ OthersReview(p)

-----------------------------------------------------------------------------
(* Channel ids *)

ChannelID(item) == [sigil |-> IF item.kind = "merge" /\ forge # "github" THEN "!" ELSE "#",
                    number |-> item.number]

\* Fault: every channel is taken for an issue's, as github's are.
TargetAsIssue(ch) == CHOOSE i \in On(forge) :
                        i.number = ch.number /\ (forge \in {"github", "datacenter"} \/ i.kind # "merge")

\* parseChannelID and the endpoint Send picks.  github's comments go to one endpoint.
Target(ch) == CHOOSE i \in On(forge) :
                 /\ i.number = ch.number
                 /\ forge # "github" => (ch.sigil = "!" <=> i.kind = "merge")
                 /\ i.kind # "commit"

-----------------------------------------------------------------------------
(* Posts and replies *)

\* A user, a bot or the bot's owner writes on an item.  The bot may open one too.
Write(p, record) == /\ post[p] = NoPost
                    /\ record.item \in On(forge)
                    /\ record.event \in {"opened", "closed"} => record.item.kind = "merge"
                    /\ record.internal => forge = "gitlab" /\ record.event = "created"
                    /\ record.author = "self" => record.event = "opened"
                    /\ post' = [post EXCEPT ![p] = record]
                    /\ UNCHANGED <<botVars, tried, handled, answer>>

\* The webhook of a post is delivered, and dispatched unless a filter drops it.
Deliver(p) == /\ state = "serving"
              /\ post[p] # NoPost
              /\ p \notin tried
              /\ tried' = tried \cup {p}
              /\ handled' = IF Takes(post[p]) THEN handled \cup {p} ELSE handled
              /\ UNCHANGED <<botVars, post, answer>>

\* The handler of a comment replies to its channel; an internal note's reply is public.
Reply(p, q) == /\ p \in handled
               /\ post[p].event = "created"
               /\ answer[p] = NoPost
               /\ post[q] = NoPost
               /\ answer' = [answer EXCEPT ![p] = q]
               /\ post' = [post EXCEPT ![q] = [author |-> "self", event |-> "created",
                                               item |-> Target(ChannelID(post[p].item)),
                                               internal |-> FALSE]]
               /\ UNCHANGED <<botVars, tried, handled>>

Next == \/ Connect \/ Resolve \/ Stop
        \/ \E p \in Posts : \/ \E r \in Records : Write(p, r)
                            \/ Deliver(p)
                            \/ \E q \in Posts : Reply(p, q)

Spec == Init /\ [][Next]_vars

-----------------------------------------------------------------------------
(* Properties *)

(* Types of every variable. *)
TypeOK == /\ forge \in {"github", "gitlab", "bitbucket", "datacenter"}
          /\ auth \in {"user", "app", "flagged", "told"}
          /\ state \in {"off", "resolving", "serving"}
          /\ self \in {"none", "self"}
          /\ post \in [Posts -> Records \cup {NoPost}]
          /\ handled \subseteq tried /\ tried \subseteq Posts
          /\ answer \in [Posts -> Posts \cup {NoPost}]

(* gitlab/server.go:353: "no request is handled before the bot can recognize its  *)
(* own notes".  The bot never handles its own post, through stops and reconnects  *)
(* with a reply still to be delivered; and on github no other bot's either.       *)
OwnPostsDropped == \A p \in handled : /\ post[p].author # "self"
                                      /\ forge = "github" => post[p].author # "bot"

(* message.go of each forge: a message's channel id is "exactly what Send's       *)
(* parseChannelID accepts".  A reply lands on the item of its message, though an  *)
(* issue and a merge request may have the same number.                            *)
RepliesLandAtOrigin == \A p \in Posts : answer[p] # NoPost => post[answer[p]].item = post[p].item

(* gitlab/server.go:114: "answering an internal note would publish the internal   *)
(* thread".  No internal note is handled, except one that gitlab before 18.6 does *)
(* not flag on an issue whose readers are restricted anyhow.                      *)
InternalNotesStayInternal ==
    \A p \in handled : post[p].internal =>
                          /\ auth = "user"
                          /\ post[p].item.kind = "confidential"
                          /\ answer[p] # NoPost => post[answer[p]].item.kind = "confidential"

(* bitbucket/server.go:251: a blank identity "is as dangerous as a failure" and   *)
(* is treated "as fatal, like GitLab does".  gitlab then never serves, and so     *)
(* never answers itself, without knowing its account.                             *)
BlankIsFatalToGitLab == forge = "gitlab" => \A p \in handled : post[p].author # "self"
=============================================================================
