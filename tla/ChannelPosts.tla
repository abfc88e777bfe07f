---------------------------- MODULE ChannelPosts ----------------------------
(***************************************************************************)
(* The posts of one channel as the web application loads them: pages       *)
(* fetched over REST while the channel is open (actions/views/channel.ts   *)
(* and post_list.tsx), new posts arriving as websocket events, and the     *)
(* synchronisation after the connection was lost (websocket_actions.jsx).  *)
(*                                                                         *)
(* A post is the time it was created at, so its id is its create_at.  Time *)
(* passes when somebody posts or edits and when the connection breaks; the *)
(* clocks of browser and server agree.  Page loads may overlap: the list   *)
(* clears its loading flags when the load that opened it ends.             *)
(***************************************************************************)
EXTENDS Integers, FiniteSets, SequencesExt

CONSTANTS
    Scenarios,     \* what to start from, how far to go, and what may happen
    PerPage,       \* posts in a page
    NoPost, Unloaded, NoReply

\* The posts there are, the bounds on time and on the requests under way, the posts that
\* answer a synchronisation at most, and what may happen.
Scenario(existing, end, room, limit, may) ==
    [existing |-> existing, end |-> end, room |-> room, limit |-> limit, may |-> may]

ASSUME ConstantsAssumption ==
    /\ PerPage \in Nat \ {0}
    /\ NoPost \notin Nat
    /\ Unloaded \notin Seq([order : Seq(Nat), recent : BOOLEAN, oldest : BOOLEAN])
    /\ \A s \in Scenarios :
          /\ s.existing \in Nat /\ s.end \in Nat /\ s.room \in Nat
          /\ s.limit \in Nat \ {0}
          /\ s.may \subseteq {"offline", "overtaking", "permalink", "failure", "threads",
                              "cursor"}

VARIABLES
    clock,             \* the present
    updateAt,          \* server: update_at of every post of the channel
    connected,         \* the websocket is up
    events,            \* posted events on their way to the browser
    lastDisconnectAt,  \* when the websocket last went down
    entry,             \* postsInChannel of the channel
    lastGetPosts,      \* start of the last load that reached the newest post
    viewing,           \* the channel is open
    requests,          \* REST requests under way
    held,              \* posts whose event waits for their thread
    prefetch,          \* what became of the prefetch of the channel
    lost,              \* history: posts whose event was never applied
    unstamped,         \* history: a block became the recent one unstamped
    detached,          \* history: a page was loaded above the recent block
    truncated,         \* history: a synchronisation was cut short by its limit
    scenario           \* the scenario of this behaviour

\* Bound on time.
MaxClock == scenario.end
\* REST may still work while the websocket is down.
OfflineLoads == "offline" \in scenario.may
\* Replies and events may overtake each other.
Overtaking == "overtaking" \in scenario.may
\* LIMIT of getPostsSince.
SinceLimit == scenario.limit

server == <<clock, updateAt>>
socket == <<connected, events, lastDisconnectAt>>
posts == <<entry, lastGetPosts, held>>
screen == <<viewing, prefetch>>
history == <<lost, unstamped, detached, truncated>>
vars == <<server, socket, posts, screen, requests, history, scenario>>

IdentityOf(p) == p
NeverPending(p) == FALSE

P == INSTANCE PostsInChannel WITH CreateAt <- IdentityOf,
                                  IsPending <- NeverPending

Channel == DOMAIN updateAt
Blocks == {P!BlocksOf(entry)[i] : i \in DOMAIN P!BlocksOf(entry)}
RecentBlocks == {b \in Blocks : b.recent}
RecentPosts == {b \in RecentBlocks : b.order # <<>>}

Init ==
    /\ scenario \in Scenarios
    /\ clock = IF scenario.existing = 0 THEN 1 ELSE scenario.existing
    /\ updateAt = [p \in 1..scenario.existing |-> p]
    /\ connected = TRUE
    /\ events = <<>>
    /\ lastDisconnectAt = 0
    /\ entry = Unloaded
    /\ lastGetPosts = 0
    /\ viewing = FALSE
    /\ requests = {}
    /\ prefetch = "none"
    /\ held = {}
    /\ lost = {}
    /\ unstamped = FALSE
    /\ detached = FALSE
    /\ truncated = FALSE

-----------------------------------------------------------------------------
(* The server and the connection.                                          *)

\* Where nothing overtakes, a reply is received before anything later happens.
NoReplyUnderWay == \A r \in requests : r.reply = NoReply

\* Somebody posts, and the post is published to a connected browser.
CreatePost ==
    /\ Overtaking \/ NoReplyUnderWay
    /\ clock < MaxClock
    /\ clock' = clock + 1
    /\ updateAt' = [p \in Channel \cup {clock'} |->
                      IF p = clock' THEN p ELSE updateAt[p]]
    /\ events' = IF connected THEN Append(events, clock') ELSE events
    /\ lost' = IF connected THEN lost ELSE lost \cup {clock'}
    /\ UNCHANGED <<connected, lastDisconnectAt, posts, screen, requests, unstamped,
                   detached, truncated, scenario>>

\* Somebody edits a post; its event changes no block.
EditPost(p) ==
    /\ clock < MaxClock
    /\ clock' = clock + 1
    /\ updateAt' = [updateAt EXCEPT ![p] = clock']
    /\ UNCHANGED <<socket, posts, screen, requests, history, scenario>>

\* WEBSOCKET_CLOSED: the events under way are lost.
Disconnect ==
    /\ connected
    /\ Overtaking \/ NoReplyUnderWay
    /\ clock < MaxClock
    /\ clock' = clock + 1
    /\ connected' = FALSE
    /\ events' = <<>>
    /\ lastDisconnectAt' = clock'
    /\ lost' = lost \cup ToSet(events)
    /\ prefetch' = IF prefetch = "delayed" THEN prefetch ELSE "none"
    /\ UNCHANGED <<updateAt, posts, viewing, requests, unstamped, detached, truncated,
                   scenario>>

-----------------------------------------------------------------------------
(* Requests of the browser.                                                *)

\* A load that is to count as one that reached the newest post is stamped with
\* the time it started.
Request(kind, anchor, stamp) ==
    [kind |-> kind, anchor |-> anchor, time |-> IF stamp THEN clock ELSE 0,
     prefetch |-> FALSE, reply |-> NoReply]

\* Seeded bug: always from the newest post that is loaded.
BugSyncRequest(since) == Request("since", since, TRUE)

\* syncPostsInChannel: from the newest post that is loaded, or, if the
\* connection was lost after the last load, from that load on.
SyncRequest(since) ==
    Request("since",
            IF lastGetPosts # 0 /\ lastGetPosts < lastDisconnectAt
            THEN lastGetPosts ELSE since,
            TRUE)

Send(r) == requests' = requests \cup {r}

Room == Cardinality(requests) < scenario.room

\* reconnect: the open channel is synchronised from its newest loaded post.
SyncOnReconnect ==
    \/ /\ viewing
       /\ \E b \in RecentPosts : Send(SyncRequest(Head(b.order)))
    \/ /\ viewing /\ RecentPosts = {}
       /\ Send(Request("latest", NoPost, FALSE))
    \/ /\ ~ viewing
       /\ requests' = requests

Reconnect ==
    /\ ~ connected
    /\ connected' = TRUE
    /\ SyncOnReconnect
    /\ UNCHANGED <<server, events, lastDisconnectAt, posts, screen, history, scenario>>

isPrefetchingInProcess == prefetch = "started"

\* postsOnLoad of the post list, when the channel is opened: b is the block
\* that the list is going to show.
OpenChannel ==
    /\ ~ viewing
    /\ Room
    /\ viewing' = TRUE
    /\ \/ /\ entry = Unloaded /\ ~ isPrefetchingInProcess
          /\ Send(Request("unread", NoPost, TRUE))
       \/ /\ entry = Unloaded /\ isPrefetchingInProcess
          /\ requests' = requests
       \/ \E b \in Blocks :
             b.order # <<>> /\ Send(SyncRequest(Head(b.order)))
       \/ /\ entry # Unloaded
          /\ RecentPosts = {}
          /\ Send(Request("latest", NoPost, TRUE))
    /\ UNCHANGED <<server, socket, posts, prefetch, history, scenario>>

\* prefetchChannelPosts, queued once per connection when the channel has unread
\* posts: a load of the channel may be put off by a moment.
SendPrefetch(r) ==
    /\ Send([r EXCEPT !.prefetch = TRUE])
    /\ prefetch' = "started"

Prefetch ==
    /\ prefetch = "none"
    /\ Room
    /\ \/ \E b \in RecentPosts : SendPrefetch(SyncRequest(Head(b.order)))
       \/ /\ RecentPosts = {}
          /\ \/ SendPrefetch(Request("unread", NoPost, TRUE))
             \/ /\ prefetch' = "delayed"
                /\ requests' = requests
    /\ UNCHANGED <<server, socket, posts, viewing, history, scenario>>

DelayedPrefetch ==
    /\ prefetch = "delayed"
    /\ Room
    /\ SendPrefetch(Request("unread", NoPost, TRUE))
    /\ UNCHANGED <<server, socket, posts, viewing, history, scenario>>

CloseChannel ==
    /\ viewing
    /\ viewing' = FALSE
    /\ UNCHANGED <<server, socket, posts, prefetch, requests, history, scenario>>

\* canLoadMorePosts and loadPosts: older posts than the block shown has, then
\* newer ones.
LoadMore(b) ==
    /\ viewing
    /\ Room
    /\ b.order # <<>>
    /\ \/ ~ b.oldest /\ Send(Request("before", Last(b.order), FALSE))
       \/ ~ b.recent /\ Send(Request("after", Head(b.order), FALSE))
    /\ UNCHANGED <<server, socket, posts, screen, history, scenario>>

\* loadPostsAround: a permalink to a post opens the channel around it.
OpenPermalink(p) ==
    /\ "permalink" \in scenario.may
    /\ ~ viewing
    /\ Room
    /\ viewing' = TRUE
    /\ Send(Request("around", p, FALSE))
    /\ UNCHANGED <<server, socket, posts, prefetch, history, scenario>>

-----------------------------------------------------------------------------
(* Answers of the server: what the posts were when it read them.           *)

NewestFirst(S) == P!Enumerate(S, >)
Closest(S, n, Before(_, _)) ==
    {p \in S : Cardinality({q \in S : Before(q, p)}) < n}
Newest(S) == Closest(S, PerPage, LAMBDA a, b : a > b)
Oldest(S) == Closest(S, PerPage, LAMBDA a, b : a < b)

\* The ids of the posts next to a page come with it, and a page without them reaches the
\* end of the channel: so does one for which the server fails to read them.
Misread == IF "cursor" \in scenario.may THEN BOOLEAN ELSE {FALSE}

Replies(S) ==
    {[order |-> NewestFirst(S),
      recent |-> noNext \/ \A p \in S, q \in Channel : q \in S \/ q < p,
      oldest |-> noPrev \/ \A p \in S, q \in Channel : q \in S \/ q > p] :
         noNext, noPrev \in Misread}

ChangedSince(time) == {p \in Channel : updateAt[p] > time}

\* The pages a request may be answered with; where the unread posts begin is
\* any post, and a synchronisation that would exceed its limit leaves out any posts.
Pages(r) ==
    LET Before(p) == Newest({q \in Channel : q < p})
        After(p) == Oldest({q \in Channel : q > p})
    IN  CASE r.kind = "latest" -> {Newest(Channel)}
          [] r.kind = "unread" ->
                IF Channel = {} THEN {{}}
                ELSE {Before(p) \cup {p} \cup After(p) : p \in Channel}
          [] r.kind = "before" -> {Before(r.anchor)}
          [] r.kind = "after" -> {After(r.anchor)}
          [] r.kind = "around" ->
                {Before(r.anchor) \cup {r.anchor} \cup After(r.anchor)}
          [] r.kind = "since" ->
                {S \in SUBSET ChangedSince(r.anchor) :
                    S = ChangedSince(r.anchor) \/ Cardinality(S) >= SinceLimit}

Answer(r) ==
    /\ r.reply = NoReply
    /\ connected \/ OfflineLoads
    /\ Overtaking \/ events = <<>>
    /\ \E page \in Pages(r) :
          /\ \E reply \in Replies(page) :
                requests' = (requests \ {r}) \cup {[r EXCEPT !.reply = reply]}
          /\ truncated' = (truncated \/ (r.kind = "since" /\ page # ChangedSince(r.anchor)))
    /\ UNCHANGED <<server, socket, posts, screen, lost, unstamped, detached, scenario>>

-----------------------------------------------------------------------------
(* What the browser receives.                                              *)

\* The reducer's answer to the reply of a request.
Reduced(r) ==
    LET order == r.reply.order IN
    CASE r.kind \in {"unread", "around"} ->
            P!ReceivedPostsInChannel(entry, order, r.reply.recent, r.reply.oldest)
      [] r.kind = "latest" ->
            P!ReceivedPostsInChannel(entry, order, TRUE, r.reply.oldest)
      [] r.kind = "before" -> P!ReceivedPostsBefore(entry, order, r.anchor, r.reply.oldest)
      [] r.kind = "after" -> P!ReceivedPostsAfter(entry, order, r.anchor, r.reply.recent)
      [] r.kind = "since" -> P!ReceivedPostsSince(entry, order)

\* The reducer reads the create_at of the first post of an empty block: the reply is
\* given up, and what else it would have brought about.
Throws(r) ==
    LET order == r.reply.order
        Merges(b) == P!MergeThrows(Append(P!BlocksOf(entry), b))
    IN  /\ order # <<>>
        /\ CASE r.kind \in {"unread", "around", "latest"} ->
                  /\ r.kind # "latest" /\ ~ r.reply.recent
                  /\ Merges(P!Block(order, FALSE, FALSE))
             [] r.kind \in {"before", "after"} -> Merges(P!Block(order, FALSE, FALSE))
             [] r.kind = "since" -> \E b \in RecentBlocks : b.order = <<>>

ReceiveThrows(r) ==
    /\ r.reply # NoReply
    /\ Throws(r)
    /\ requests' = requests \ {r}
    /\ UNCHANGED <<server, socket, posts, screen, history, scenario>>

\* The request is over, and a prefetch is done, however it ended.
Finish(r) ==
    /\ requests' = requests \ {r}
    /\ prefetch' = IF r.prefetch THEN "done" ELSE prefetch

\* The reply makes a recent block.
Marks(r) ==
    /\ r.kind = "latest" \/ (r.kind \in {"unread", "around", "after"} /\ r.reply.recent)
    /\ r.reply.order # <<>> \/ entry = Unloaded

\* The reply is a page that ends before the newest post and begins after all that the
\* recent block has: posts were lost, and the recent block is not the newest any more.
Detaches(r) ==
    /\ r.kind \in {"unread", "around"}
    /\ r.reply.order # <<>> /\ ~ r.reply.recent
    /\ \E b \in RecentPosts : Last(r.reply.order) > Head(b.order)

ReceiveReply(r) ==
    /\ r.reply # NoReply
    /\ ~ Throws(r)
    /\ Finish(r)
    /\ entry' = Reduced(r)
    /\ lastGetPosts' = IF r.time # 0 /\ (r.kind = "unread" => r.reply.recent)
                       THEN r.time ELSE lastGetPosts
    /\ unstamped' = (unstamped \/ (Marks(r) /\ (r.time = 0 \/ RecentPosts # {})))
    /\ detached' = (detached \/ Detaches(r))
    /\ UNCHANGED <<server, socket, held, viewing, lost, truncated, scenario>>

\* The request fails: the state keeps what it has.
Fail(r) ==
    /\ "failure" \in scenario.may
    /\ Finish(r)
    /\ UNCHANGED <<server, socket, posts, viewing, history, scenario>>

ApplyNewPost(p) ==
    /\ entry' = P!ReceivedNewPost(entry, p, NoPost)
    /\ lost' = IF entry = Unloaded THEN lost \cup {p} ELSE lost
    /\ unstamped' = (unstamped \/ (entry # Unloaded /\ RecentBlocks = {}))
    /\ UNCHANGED <<detached, truncated>>

\* handleNewPostEvent, where completePostReceive goes straight through.
ReceiveEvent ==
    /\ events # <<>>
    /\ events' = Tail(events)
    /\ ApplyNewPost(Head(events))
    /\ UNCHANGED <<server, connected, lastDisconnectAt, lastGetPosts, held, screen,
                   requests, scenario>>

\* In the open channel, a comment on a post that is not loaded waits until its
\* thread was fetched: later events do not wait for it.
HoldEvent ==
    /\ "threads" \in scenario.may
    /\ events # <<>>
    /\ viewing
    /\ events' = Tail(events)
    /\ held' = held \cup {Head(events)}
    /\ UNCHANGED <<server, connected, lastDisconnectAt, entry, lastGetPosts, screen,
                   requests, history, scenario>>

ApplyHeld(p) ==
    /\ held' = held \ {p}
    /\ ApplyNewPost(p)
    /\ UNCHANGED <<server, socket, lastGetPosts, screen, requests, scenario>>

\* The thread cannot be fetched: the event is given up.
DropHeld(p) ==
    /\ held' = held \ {p}
    /\ lost' = lost \cup {p}
    /\ UNCHANGED <<server, socket, entry, lastGetPosts, screen, requests, unstamped,
                   detached, truncated, scenario>>

Next ==
    \/ CreatePost
    \/ \E p \in Channel : EditPost(p) \/ OpenPermalink(p)
    \/ Disconnect \/ Reconnect
    \/ OpenChannel \/ CloseChannel \/ Prefetch \/ DelayedPrefetch
    \/ \E b \in Blocks : LoadMore(b)
    \/ \E r \in requests : Answer(r) \/ ReceiveReply(r) \/ ReceiveThrows(r) \/ Fail(r)
    \/ ReceiveEvent \/ HoldEvent
    \/ \E p \in held : ApplyHeld(p) \/ DropHeld(p)

Spec == Init /\ [][Next]_vars

-----------------------------------------------------------------------------
(* Properties.                                                             *)

Has(b, p) == Contains(b.order, p)
BlockList == P!BlocksOf(entry)

\* Every post between the ends of the block that is not in it.
Holes(b) ==
    {p \in Channel : b.order # <<>> /\ p > Last(b.order) /\ p < Head(b.order)
                        /\ ~ Has(b, p)}

\* Every post the block lacks though it is newer than the block's oldest.
Missing(b) == {p \in Channel : b.order # <<>> /\ p > Last(b.order) /\ ~ Has(b, p)}

\* Whether new posts, and what the server answered before them, may overtake each
\* other.
Overtaken == Overtaking /\ scenario.existing < scenario.end

\* What the order of blocks rests on: no new post overtakes a reply or, waiting for its
\* thread, an older post, no page is taken for the end of the channel because the server
\* failed to read what is next to it, and every page touches the recent block, lies below
\* it or is the new recent block.
Undisturbed ==
    ~ Overtaken /\ "threads" \notin scenario.may /\ "cursor" \notin scenario.may /\ ~ detached

\* However pages, events and syncs interleave, a block lists a post once.  As long as
\* nothing is disturbed (Undisturbed), every block lists its posts newest first and no
\* post is in two blocks: blocks that touch are merged.
OrderedBlocks ==
    /\ \A b \in Blocks : IsInjective(b.order)
    /\ Undisturbed =>
          /\ \A b \in Blocks : \A i, j \in DOMAIN b.order :
                i < j => b.order[i] > b.order[j]
          /\ \A i, j \in DOMAIN BlockList : i # j =>
                ToSet(BlockList[i].order) \cap ToSet(BlockList[j].order) = {}

\* As long as nothing is disturbed, at most one block is marked as recent, and nothing
\* that is loaded is newer than its newest post: what is shown as the end of the channel
\* is the end of what is loaded.
OneRecentNewest ==
    Undisturbed =>
       /\ Cardinality(RecentBlocks) <= 1
       /\ \A b \in RecentPosts : \A other \in Blocks :
             other.order # <<>> => Head(other.order) <= Head(b.order)

\* As long as nothing is disturbed, a post is missing inside a block only if its event
\* never reached the reducer or is still to come: merging closes over no other post.
HolesOnlyFromLostEvents ==
    Undisturbed => \A b \in Blocks : Holes(b) \subseteq lost \cup ToSet(events)

\* A post the recent block lacks is newer than where the next sync starts.  So it is as
\* long as nothing is disturbed, a block becomes the recent one only by a load that was
\* stamped with the time it started, in place of none and while the connection was up, and
\* no sync had more posts to bring than its limit.
StampedSyncRepairs ==
    Undisturbed /\ ~ unstamped /\ ~ OfflineLoads /\ ~ truncated =>
       \A b \in RecentPosts : \A p \in Missing(b) : p > SyncRequest(Head(b.order)).anchor
=============================================================================
