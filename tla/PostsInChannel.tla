--------------------------- MODULE PostsInChannel ---------------------------
(***************************************************************************)
(* The reducer that keeps the loaded posts of one channel in the browser:  *)
(* postsInChannel of mattermost-redux (reducers/entities/posts.ts).  The   *)
(* posts are kept in blocks, each the ids of posts that were received as   *)
(* neighbours, newest first; blocks that turn out to overlap are merged,   *)
(* and one block may be marked as reaching up to the newest post.          *)
(*                                                                         *)
(* Every operator takes the channel's entry c, the list of blocks or       *)
(* Unloaded when the reducer has no entry for it, and returns the next one.*)
(***************************************************************************)
EXTENDS Integers, SequencesExt

CONSTANTS
    CreateAt(_),    \* create_at of a post, by its id
    IsPending(_),   \* the post is still to be accepted by the server
    NoPost,         \* the absent pending_post_id
    Unloaded        \* the entry of a channel that was never loaded

Block(order, recent, oldest) ==
    [order |-> order, recent |-> recent, oldest |-> oldest]

\* The reducer's `state[channelId] || []`.
BlocksOf(c) == IF c = Unloaded THEN <<>> ELSE c

\* Position of the recent block, 0 when there is none.
RecentIndex(blocks) == SelectInSeq(blocks, LAMBDA b : b.recent)

StartsAt(b) == CreateAt(Head(b.order))
EndsAt(b) == CreateAt(Last(b.order))

Newer(a, b) == CreateAt(a) > CreateAt(b)

\* The elements of a finite set in the strict order Before.  Lists are put in order by
\* the ranks of their positions, since proofs cannot look into SelectSeq and SortSeq.
Enumerate(S, Before(_, _)) ==
    [k \in 1..Cardinality(S) |->
        CHOOSE x \in S : Cardinality({y \in S \ {x} : Before(y, x)}) = k - 1]

\* Array.filter: what stands at some positions of a list.
Filter(list, positions) ==
    LET kept == Enumerate(positions, <) IN [k \in DOMAIN kept |-> list[kept[k]]]

\* Array.sort, which is stable.
Sort(list, Before(_, _)) ==
    LET Precedes(i, j) == \/ Before(list[i], list[j])
                          \/ i < j /\ ~ Before(list[j], list[i])
        order == Enumerate(DOMAIN list, Precedes)
    IN  [k \in DOMAIN order |-> list[order[k]]]

\* Pending posts come first, then the newest.
ComparePosts(a, b) ==
    IF IsPending(a) # IsPending(b) THEN IsPending(a) ELSE Newer(a, b)

RemoveNonRecentEmptyPostBlocks(blocks) ==
    Filter(blocks, {i \in DOMAIN blocks : blocks[i].order # <<>> \/ blocks[i].recent})

MergePostOrder(left, right) ==
    LET added == Filter(right, {i \in DOMAIN right : ~ Contains(left, right[i])}) IN
    IF added = <<>> THEN left ELSE Sort(left \o added, Newer)

\* Seeded bug: blocks that share one post do not count as overlapping.
BugMergeNextOfTouching(merged, b) ==
    LET a == Last(merged) IN
    IF merged = <<>> \/ EndsAt(a) >= StartsAt(b)
    THEN Append(merged, b)
    ELSE Append(Front(merged),
                Block(MergePostOrder(a.order, b.order), a.recent \/ b.recent,
                      a.oldest \/ b.oldest))

MergeNext(merged, b) ==
    LET a == Last(merged) IN
    IF merged = <<>> \/ EndsAt(a) > StartsAt(b)
    THEN Append(merged, b)
    ELSE Append(Front(merged),
                Block(MergePostOrder(a.order, b.order), a.recent \/ b.recent,
                      a.oldest \/ b.oldest))

\* Comparing an empty block with another one reads the create_at of a post
\* that does not exist: the reducer throws and the state stays as it was.
MergeThrows(blocks) ==
    LET next == RemoveNonRecentEmptyPostBlocks(blocks) IN
    Len(next) > 1 /\ \E i \in DOMAIN next : next[i].order = <<>>

MergePostBlocks(blocks) ==
    LET next == Sort(RemoveNonRecentEmptyPostBlocks(blocks),
                     LAMBDA a, b : StartsAt(a) > StartsAt(b))
        merged[i \in 0..Len(next)] ==
            IF i = 0 THEN <<>> ELSE MergeNext(merged[i - 1], next[i])
        all == merged[Len(next)]
    IN  IF next = <<>> \/ Len(all) = Len(blocks) THEN blocks ELSE all

\* A received block is put next to the others and merged with them.
AddBlock(c, blocks, b) ==
    LET next == Append(blocks, b) IN
    IF MergeThrows(next) THEN c ELSE MergePostBlocks(next)

\* RECEIVED_NEW_POST: a post of the websocket, or the user's own while it is
\* pending.  A channel that has not been loaded ignores it; a channel without
\* a recent block starts one.  The pending post it replaces goes.
\* Seeded bug: the post joins the first block, whether or not it is the recent one.
BugReceivedNewPost(c, id, pending) ==
    LET marked == IF c = <<>> THEN <<Block(<<>>, TRUE, FALSE)>> ELSE c
    IN  IF c = Unloaded THEN c
        ELSE [marked EXCEPT ![1].order = IF Contains(@, id) THEN @ ELSE <<id>> \o @]

\* Seeded bug: a post that a reply already brought is added again.
BugReceivedNewPostTwice(c, id, pending) ==
    LET marked == IF RecentIndex(c) = 0 THEN Append(c, Block(<<>>, TRUE, FALSE)) ELSE c
        r == RecentIndex(marked)
        added == [marked EXCEPT ![r].order = <<id>> \o @]
        removed == [added EXCEPT ![r].order = RemoveFirst(@, pending)]
    IN  IF c = Unloaded THEN c
        ELSE IF pending # id /\ Contains(added[r].order, pending)
        THEN [removed EXCEPT ![r].order = Sort(@, ComparePosts)]
        ELSE added

ReceivedNewPost(c, id, pending) ==
    LET marked == IF RecentIndex(c) = 0 THEN Append(c, Block(<<>>, TRUE, FALSE)) ELSE c
        r == RecentIndex(marked)
        added == [marked EXCEPT ![r].order =
                     IF Contains(@, id) THEN @ ELSE <<id>> \o @]
        removed == [added EXCEPT ![r].order = RemoveFirst(@, pending)]
    IN  IF c = Unloaded THEN c
        ELSE IF pending # id /\ Contains(added[r].order, pending)
        THEN [removed EXCEPT ![r].order = Sort(@, ComparePosts)]
        ELSE added

\* RECEIVED_POST: only the pending post it replaces matters, and the post takes
\* the very place of it.
ReceivedPost(c, id, pending) ==
    LET blocks == BlocksOf(c)
        r == RecentIndex(blocks)
        i == SelectInSeq(blocks[r].order, LAMBDA old : old = pending)
    IN  IF r = 0 \/ pending = NoPost \/ i = 0 THEN c
        ELSE [blocks EXCEPT ![r].order[i] = id]

\* RECEIVED_POSTS_IN_CHANNEL: a page of posts whose neighbours are not known.
\* When it reaches up to the newest post, the recent block is no longer it.
\* Seeded bug: the block that was the recent one keeps its mark.
BugReceivedPostsInChannel(c, order, recent, oldest) ==
    IF order = <<>> /\ c # Unloaded THEN c
    ELSE AddBlock(c, BlocksOf(c), Block(order, recent, oldest))

ReceivedPostsInChannel(c, order, recent, oldest) ==
    LET blocks == BlocksOf(c)
        r == RecentIndex(blocks)
        Same(b) == /\ Len(b.order) = Len(order)
                   /\ order # <<>> => /\ Head(b.order) = Head(order)
                                      /\ Last(b.order) = Last(order)
        unmarked == IF recent /\ r # 0 THEN [blocks EXCEPT ![r].recent = FALSE]
                                       ELSE blocks
    IN  IF \/ order = <<>> /\ c # Unloaded
           \/ recent /\ r # 0 /\ Same(blocks[r])
        THEN c
        ELSE AddBlock(c, unmarked, Block(order, recent, oldest))

\* RECEIVED_POSTS_AFTER: the page that follows a post.
ReceivedPostsAfter(c, order, afterPostId, recent) ==
    IF order = <<>> THEN c
    ELSE AddBlock(c, BlocksOf(c), Block(Append(order, afterPostId), recent, FALSE))

\* RECEIVED_POSTS_BEFORE: the page that precedes a post.
ReceivedPostsBefore(c, order, beforePostId, oldest) ==
    IF order = <<>> THEN c
    ELSE AddBlock(c, BlocksOf(c), Block(<<beforePostId>> \o order, FALSE, oldest))

\* RECEIVED_POSTS_SINCE: posts created or only edited since some time.  Those
\* newer than the oldest post of the recent block are missing from it.
ReceivedPostsSince(c, order) ==
    LET r == RecentIndex(BlocksOf(c))
        old == c[r]
        new == {i \in DOMAIN order : /\ CreateAt(order[i]) > EndsAt(old)
                                     /\ ~ Contains(old.order, order[i])}
        added == [c EXCEPT ![r].order = Filter(order, new) \o @]
    IN  IF r = 0 \/ order = <<>> THEN c
        ELSE IF old.order = <<>> \/ new = {} THEN c
        ELSE [added EXCEPT ![r].order = Sort(@, ComparePosts)]

\* POST_DELETED and POST_REMOVED: the posts that go with it, the comments on it
\* or these and itself, leave every block.
PostsRemoved(c, gone) ==
    LET blocks == BlocksOf(c)
        next == [i \in DOMAIN blocks |->
                   [blocks[i] EXCEPT !.order =
                        Filter(@, {k \in DOMAIN @ : @[k] \notin gone})]]
    IN  IF next = blocks THEN c ELSE RemoveNonRecentEmptyPostBlocks(next)
=============================================================================
