----------------------------- MODULE PostCreation -----------------------------
(***************************************************************************)
(* The user's own posts in the browser, from the moment they are written:  *)
(* createPost (mattermost-redux actions/posts.ts) shows a pending post at  *)
(* once and sends it; what comes back, in any order, is the answer or an   *)
(* error, the event of the websocket and the synchronisation after a lost  *)
(* connection.  A failed post can be retried and cancelled.                *)
(*                                                                         *)
(* All posts are comments of one thread of one loaded channel, with        *)
(* collapsed threads off, so that the thread and the channel list both.    *)
(* The id of a post is its create_at; a pending_post_id is the time the    *)
(* post was written and stays the id of the pending post through retries   *)
(* (the new create_at of a retried post, which only moves it within its    *)
(* block, is left out).                                                    *)
(* The server creates one post for a pending_post_id (PostDeduplication).  *)
(* What a synchronisation asks for is abstracted: it brings everything     *)
(* (ChannelPosts says when).                                               *)
(***************************************************************************)
EXTENDS Integers, SequencesExt

CONSTANTS
    MaxClock,      \* bound: posts written and posts created
    MaxWrites,     \* bound: posts the user writes
    MaxLosses,     \* bound: lost connections
    MaxBlocks,     \* bound: blocks of posts, where pages are loaded
    Conditions,    \* the sets of circumstances to consider
    NoPost, Unloaded, NoReply

ASSUME ConditionsAssumption ==
    Conditions \subseteq SUBSET {"others", "failure", "lost answer", "dismissal",
                                  "disconnect", "permalink"}

ASSUME ConstantsAssumption ==
    /\ MaxClock \in Nat \ {0}
    /\ NoPost \notin 1..MaxClock
    /\ \A ids \in SUBSET (1..MaxClock) : ids # NoReply
    /\ Unloaded \notin Seq([order : Seq(Nat), recent : BOOLEAN, oldest : BOOLEAN])

VARIABLES
    clock,           \* the time: every write and every creation takes one
    createdFor,      \* the posts of the server, with their pending_post_id
    request,         \* the request of the post that was written at a time
    connected,
    events,          \* posted events on their way to the browser
    losses,          \* lost connections so far
    sync,            \* the answer of getPostsSince, while it is awaited
    entry,           \* postsInChannel of the channel
    thread,          \* postsInThread of the thread
    posts,           \* the ids the browser holds a post for
    failed,          \* those of them that are marked as failed
    pendingPostIds,
    may              \* the circumstances of this behaviour

server == <<clock, createdFor>>
socket == <<connected, events, losses>>
client == <<entry, thread, posts, failed, pendingPostIds>>
vars == <<server, request, socket, sync, client, may>>

Time == 1..MaxClock
Stored == DOMAIN createdFor
Written == {k \in Time : request[k] # "unwritten"}

CreateAt(id) == id
IsPending(id) == id \in Written

P == INSTANCE PostsInChannel

Init ==
    /\ may \in Conditions
    /\ clock = 1
    /\ createdFor = [id \in {1} |-> NoPost]
    /\ request = [k \in Time |-> "unwritten"]
    /\ connected = TRUE
    /\ events = <<>>
    /\ losses = 0
    /\ sync = {}
    /\ entry = <<P!Block(<<1>>, TRUE, TRUE)>>
    /\ thread = {1}
    /\ posts = {1}
    /\ failed = {}
    /\ pendingPostIds = {}

-----------------------------------------------------------------------------
(* What the reducers do with the actions.                                  *)

\* A received post takes the place of its pending post.
\* Seeded bug: the pending post stays.
BugReplacePending(held, id, pending) == held \cup {id}

ReplacePending(held, id, pending) ==
    (held \cup {id}) \ (IF pending = id THEN {} ELSE {pending})

\* handlePostReceived: when the browser holds the post and need not update it
\* (shouldUpdatePost, which looks at what is left out here), its pending post stays.  What
\* is sent or marked as failed is always an update.
HandlePostReceived(id, pending) ==
    \/ posts' = ReplacePending(posts, id, pending)
    \/ id \in posts \cap Stored /\ UNCHANGED posts

\* RECEIVED_NEW_POST.
ReceivedNewPost(id, pending) ==
    /\ entry' = P!ReceivedNewPost(entry, id, pending)
    /\ thread' = ReplacePending(thread, id, pending)
    /\ HandlePostReceived(id, pending)
    /\ pendingPostIds' = pendingPostIds \cup ({pending} \ {NoPost})

\* RECEIVED_POST.
ReceivedPost(id, pending) ==
    /\ entry' = P!ReceivedPost(entry, id, pending)
    /\ thread' = ReplacePending(thread, id, pending)
    /\ HandlePostReceived(id, pending)
    /\ pendingPostIds' = pendingPostIds \ {pending}

\* POST_REMOVED.
PostRemoved(id) ==
    /\ entry' = P!PostsRemoved(entry, {id})
    /\ thread' = thread \ {id}
    /\ posts' = posts \ {id}
    /\ pendingPostIds' = pendingPostIds \ {id}

-----------------------------------------------------------------------------
(* The user.                                                               *)

\* Seeded bug: only what is being sent for the first time counts as sending.
BugisPostIdSending(k) == k \in pendingPostIds \ failed

isPostIdSending(k) == k \in pendingPostIds

Write ==
    /\ clock < MaxClock
    /\ Cardinality(Written) < MaxWrites
    /\ clock' = clock + 1
    /\ request' = [request EXCEPT ![clock'] = "sent"]
    /\ ReceivedNewPost(clock', clock')
    /\ UNCHANGED <<createdFor, socket, sync, failed, may>>

\* What the channel and the thread show.
Listed == thread \cup UNION {ToSet(entry[i].order) : i \in DOMAIN entry}

\* The options of a failed post, where it is shown.  The post that is sent again is a copy
\* of the failed one and stays marked as failed until it is answered.
Retry(k) ==
    /\ k \in failed \cap Listed
    /\ ~ isPostIdSending(k)
    /\ request' = [request EXCEPT ![k] = "sent"]
    /\ ReceivedNewPost(k, k)
    /\ UNCHANGED <<server, socket, sync, failed, may>>

Cancel(k) ==
    /\ k \in failed \cap Listed
    /\ PostRemoved(k)
    /\ failed' = failed \ {k}
    /\ UNCHANGED <<server, request, socket, sync, may>>

-----------------------------------------------------------------------------
(* The server.                                                             *)

Publish(id) ==
    events' = IF connected THEN Append(events, id) ELSE events

Create(pending) ==
    /\ clock < MaxClock
    /\ clock' = clock + 1
    /\ createdFor' = [id \in Stored \cup {clock'} |->
                         IF id = clock' THEN pending ELSE createdFor[id]]
    /\ Publish(clock')
    /\ UNCHANGED <<connected, losses>>

OtherPost ==
    /\ "others" \in may
    /\ Create(NoPost)
    /\ UNCHANGED <<request, sync, client, may>>

Exists(k) == \E id \in Stored : createdFor[id] = k
PostOf(k) == CHOOSE id \in Stored : createdFor[id] = k

Accept(k) ==
    /\ request[k] = "sent"
    /\ IF Exists(k) THEN UNCHANGED <<server, socket>> ELSE Create(k)
    /\ request' = [request EXCEPT ![k] = "created"]
    /\ UNCHANGED <<sync, client, may>>

\* The server refuses the post, or the request gets lost before or after it was
\* accepted: to the browser it is an error all the same.
Fail(k) ==
    /\ \/ request[k] = "sent" /\ "failure" \in may
       \/ request[k] = "created" /\ "lost answer" \in may
    /\ request' = [request EXCEPT ![k] = "failed"]
    /\ UNCHANGED <<server, socket, sync, client, may>>

Dismiss(k) ==
    /\ request[k] = "sent"
    /\ "dismissal" \in may
    /\ request' = [request EXCEPT ![k] = "dismissed"]
    /\ UNCHANGED <<server, socket, sync, client, may>>

-----------------------------------------------------------------------------
(* What the browser receives.                                              *)

Answered(k) == request' = [request EXCEPT ![k] = "none"]

ReceiveCreated(k) ==
    /\ request[k] = "created"
    /\ Answered(k)
    /\ ReceivedPost(PostOf(k), k)
    /\ failed' = failed \cap posts'
    /\ UNCHANGED <<server, socket, sync, may>>

ReceiveFailure(k) ==
    /\ request[k] = "failed"
    /\ Answered(k)
    /\ ReceivedPost(k, k)
    /\ failed' = failed \cup {k}
    /\ UNCHANGED <<server, socket, sync, may>>

ReceiveDismissal(k) ==
    /\ request[k] = "dismissed"
    /\ Answered(k)
    /\ PostRemoved(k)
    /\ failed' = failed \ {k}
    /\ UNCHANGED <<server, socket, sync, may>>

ReceiveEvent ==
    /\ events # <<>>
    /\ events' = Tail(events)
    /\ LET id == Head(events) IN
         /\ ReceivedNewPost(id, createdFor[id])
         /\ failed' = failed \cap posts'
    /\ UNCHANGED <<server, request, connected, losses, sync, may>>

-----------------------------------------------------------------------------
(* The connection.                                                         *)

Disconnect ==
    /\ "disconnect" \in may
    /\ connected /\ losses < MaxLosses
    /\ connected' = FALSE
    /\ events' = <<>>
    /\ losses' = losses + 1
    /\ UNCHANGED <<server, request, sync, client, may>>

NewestFirst(ids) == P!Enumerate(ids, >)

\* getPostsSince is sent.  Its answer is what is stored when the server handles
\* it, which may be well before the browser receives it.
\* Seeded bug: nothing is synchronised.
BugReconnect ==
    /\ ~ connected
    /\ connected' = TRUE
    /\ UNCHANGED <<server, request, events, losses, sync, client, may>>

Reconnect ==
    /\ ~ connected
    /\ connected' = TRUE
    /\ sync' = sync \cup {NoReply}
    /\ UNCHANGED <<server, request, events, losses, client, may>>

AnswerSync ==
    /\ NoReply \in sync
    /\ sync' = (sync \ {NoReply}) \cup {Stored}
    /\ UNCHANGED <<server, request, socket, client, may>>

\* RECEIVED_POSTS and RECEIVED_POSTS_SINCE.  A stored post does not carry its
\* pending_post_id, so no pending post is replaced.
ReceiveSync ==
    \E reply \in sync \ {NoReply} :
      /\ sync' = sync \ {reply}
      /\ entry' = P!ReceivedPostsSince(entry, NewestFirst(reply))
      /\ thread' = thread \cup reply
      /\ posts' = posts \cup reply
      /\ UNCHANGED <<server, request, socket, failed, pendingPostIds, may>>

\* A permalink loads a post with its neighbours.  When a block holds an id
\* without a post, merging the blocks reads it, and throws.
ShownPostsExist ==
    /\ \A i \in DOMAIN entry : ToSet(entry[i].order) \subseteq posts
    /\ thread \subseteq posts

Between(a, b) == {id \in Stored : (a <= id /\ id < b) \/ (b <= id /\ id < a)}

OpenPermalink(target) ==
    LET page == {id \in Stored : Cardinality(Between(target, id)) <= 1} IN
    /\ "permalink" \in may
    /\ target \in Stored /\ Len(entry) < MaxBlocks
    /\ ShownPostsExist
    /\ entry' = P!ReceivedPostsInChannel(entry, NewestFirst(page),
                                         \A id \in Stored : id <= Max(page),
                                         1 \in page)
    /\ thread' = thread \cup page
    /\ posts' = posts \cup page
    /\ UNCHANGED <<server, request, socket, sync, failed, pendingPostIds, may>>

Next ==
    \/ Write
    \/ \E k \in Time :
          \/ Retry(k) \/ Cancel(k)
          \/ Accept(k) \/ Fail(k) \/ Dismiss(k)
          \/ ReceiveCreated(k) \/ ReceiveFailure(k) \/ ReceiveDismissal(k)
    \/ OtherPost
    \/ ReceiveEvent
    \/ Disconnect \/ Reconnect \/ AnswerSync \/ ReceiveSync
    \/ \E target \in Time : OpenPermalink(target)

Spec == Init /\ [][Next]_vars

\* Every request ends: the server answers or the browser reports an error.  The
\* connection comes back and delivers what it holds, and the answer of
\* getPostsSince arrives.  Nothing makes the user do anything.
Fairness ==
    /\ \A k \in Time :
          /\ WF_vars(Accept(k) \/ Fail(k) \/ Dismiss(k))
          /\ WF_vars(ReceiveCreated(k) \/ ReceiveFailure(k) \/ ReceiveDismissal(k))
    /\ WF_vars(ReceiveEvent)
    /\ WF_vars(Reconnect)
    /\ WF_vars(AnswerSync)
    /\ WF_vars(ReceiveSync)

LiveSpec == Spec /\ Fairness

-----------------------------------------------------------------------------
(* Properties.                                                             *)

\* A post is not sent again while it is being sent (isPostIdSending): not after a
\* retry that still shows it as failed, not after it was cancelled, failed and was
\* shown again, whatever the event and the answer did to pendingPostIds.
SentOnceAtATime ==
    [][\A k \in Written :
          request'[k] = "sent" => request[k] \in {"none", "sent"}]_vars

\* A block lists a post of somebody else once, and, unless a synchronisation, a page or
\* a retry after a lost answer brings a post of the user beside its pending post, every
\* post.
EachPostOnce ==
    \A i \in DOMAIN entry : \A j, k \in DOMAIN entry[i].order :
       LET id == entry[i].order[j] IN
       j # k /\ id = entry[i].order[k] =>
          /\ may \cap {"disconnect", "lost answer", "permalink"} # {}
          /\ id \in Stored /\ createdFor[id] # NoPost

\* Unless the answer is lost or a page brings the post beside it, a pending or failed
\* post and the post that came of it are not listed together (posts.ts:523, 986: the
\* created post removes "any pending post that exists for it").
PendingOrCreated ==
    may \cap {"disconnect", "lost answer", "permalink"} = {} =>
       \A id \in Stored : ~ (id \in Listed /\ createdFor[id] \in Listed)

\* The posts the server created for the user come to be shown in the channel for
\* good, though an answer or an event was lost, a pending post cancelled or the
\* connection down, unless a page takes the mark of the recent block from theirs.
OwnPostsCome ==
    <>[]("permalink" \notin may =>
            \A id \in Stored :
               createdFor[id] # NoPost => id \in ToSet(entry[P!RecentIndex(entry)].order))
=============================================================================
