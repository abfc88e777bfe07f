-------------------------- MODULE PostDeduplication --------------------------
(***************************************************************************)
(* Creating a post on the server (app/post.go): the requests a client      *)
(* sends for one pending_post_id, each in a goroutine of its own, and the  *)
(* entry of that id in seenPendingPostIdsCache, which is meant to let one  *)
(* of them create the post and to give it to the others.                   *)
(*                                                                         *)
(* A post is named after the request that saved it.                        *)
(***************************************************************************)
CONSTANTS
    Request,            \* requests that carry the same pending_post_id
    Disturbances,       \* the sets of disturbances to consider
    Absent, Unknown,    \* no entry, and unknownPostId: somebody is at it
    NoneSaved, Waiting, Error

ASSUME DisturbancesAssumption ==
    Disturbances \subseteq SUBSET {"race", "late failure", "cache failure", "expiry",
                                  "unauthorized"}

ASSUME DistinctAssumption ==
    /\ {Absent, Unknown, NoneSaved, Waiting, Error} \cap Request = {}
    /\ Absent # Unknown
    /\ Waiting # Error

VARIABLES
    cache,     \* the entry of the pending_post_id
    pc,        \* where the goroutine of every request is
    saved,     \* the posts in the database
    answer,    \* what every request was answered
    disturbed  \* the disturbances that may arise in this behaviour

serverVars == <<cache, pc, saved, answer, disturbed>>

ServerInit ==
    /\ disturbed \in Disturbances
    /\ cache = Absent
    /\ pc = [r \in Request |-> "start"]
    /\ saved = {}
    /\ answer = [r \in Request |-> Waiting]

GoTo(r, place) == pc' = [pc EXCEPT ![r] = place]

AnswerWith(r, value) ==
    /\ answer' = [answer EXCEPT ![r] = value]
    /\ GoTo(r, "done")

\* deduplicateCreatePost reads the entry.  Reading it and recording the id are
\* two operations on the cache: where there is a race, others read in between.
\* A post that the client may no longer see does not count.
Get(r) ==
    /\ pc[r] = "start"
    /\ "race" \in disturbed \/ \A q \in Request : pc[q] # "record"
    /\ \/ /\ cache = Absent
          /\ GoTo(r, "record")
          /\ UNCHANGED answer
       \/ /\ cache = Unknown
          /\ AnswerWith(r, Error)
       \/ /\ cache \notin {Absent, Unknown}
          /\ AnswerWith(r, cache) \/ AnswerWith(r, Error)
       \/ /\ "unauthorized" \in disturbed
          /\ cache \notin {Absent, Unknown}
          /\ GoTo(r, "save")
          /\ UNCHANGED answer
       \/ /\ "cache failure" \in disturbed
          /\ AnswerWith(r, Error)
    /\ UNCHANGED <<cache, saved, disturbed>>

\* Seeded bug: the id is not recorded before the post is saved.
BugRecord(r) ==
    /\ pc[r] = "record"
    /\ GoTo(r, "save")
    /\ UNCHANGED <<cache, saved, answer, disturbed>>

Record(r) ==
    /\ pc[r] = "record"
    /\ \/ /\ cache' = Unknown
          /\ GoTo(r, "save")
          /\ UNCHANGED answer
       \/ /\ "cache failure" \in disturbed
          /\ AnswerWith(r, Error)
          /\ UNCHANGED cache
    /\ UNCHANGED <<saved, disturbed>>

Reject(r) ==
    /\ pc[r] = "save"
    /\ GoTo(r, "undo")
    /\ UNCHANGED <<cache, saved, answer, disturbed>>

Save(r) ==
    /\ pc[r] = "save"
    /\ saved' = saved \cup {r}
    /\ GoTo(r, "map")
    /\ UNCHANGED <<cache, answer, disturbed>>

\* The entry is given the id of the post.
MapToPost(r) ==
    /\ pc[r] = "map"
    /\ \/ /\ cache' = r
          /\ GoTo(r, "finish")
       \/ /\ "cache failure" \in disturbed
          /\ GoTo(r, "undo")
          /\ UNCHANGED cache
    /\ UNCHANGED <<saved, answer, disturbed>>

\* The notifications of the thread and the metadata of the answer may fail
\* after the post was saved and published.
FailLate(r) ==
    /\ "late failure" \in disturbed
    /\ pc[r] = "finish"
    /\ GoTo(r, "undo")
    /\ UNCHANGED <<cache, saved, answer, disturbed>>

\* The deferred function, after a success.
Succeed(r) ==
    /\ pc[r] = "finish"
    /\ \/ /\ cache' = r
          /\ AnswerWith(r, r)
       \/ /\ "cache failure" \in disturbed
          /\ AnswerWith(r, Error)
          /\ UNCHANGED cache
    /\ UNCHANGED <<saved, disturbed>>

\* The deferred function, after a failure.
\* Seeded bug: the record of a failed attempt stays.
BugUndo(r) ==
    /\ pc[r] = "undo"
    /\ AnswerWith(r, Error)
    /\ UNCHANGED <<cache, saved, disturbed>>

Undo(r) ==
    /\ pc[r] = "undo"
    /\ AnswerWith(r, Error)
    /\ \/ cache' = Absent
       \/ "cache failure" \in disturbed /\ UNCHANGED cache
    /\ UNCHANGED <<saved, disturbed>>

\* pendingPostIDsCacheTTL passes.
Expire ==
    /\ "expiry" \in disturbed
    /\ cache # Absent
    /\ cache' = Absent
    /\ UNCHANGED <<pc, saved, answer, disturbed>>

ServerNext ==
    \/ \E r \in Request :
          \/ Get(r) \/ Record(r) \/ Reject(r) \/ Save(r) \/ MapToPost(r)
          \/ FailLate(r) \/ Succeed(r) \/ Undo(r)
    \/ Expire

ServerSpec == ServerInit /\ [][ServerNext]_serverVars

-----------------------------------------------------------------------------
(* Properties.                                                             *)

Places == {"start", "record", "save", "map", "finish", "undo", "done"}

\* Type invariant of the server's state.
TypeOK ==
    /\ cache \in Request \cup {Absent, Unknown}
    /\ pc \in [Request -> Places]
    /\ saved \subseteq Request
    /\ answer \in [Request -> Request \cup {Waiting, Error}]
    /\ disturbed \in Disturbances

\* However often and however concurrently a client sends the post, one is saved
\* (post.go:113: "attempts to make posting idempotent within a caching window"),
\* unless a disturbance arises: each of them lets a second post through.
AtMostOnePost == disturbed = {} => \A p, q \in saved : p = q

\* An answer that is a post is a post of the database, whatever disturbs.
AnswersAreSaved == \A r \in Request : answer[r] \in Request => answer[r] \in saved

\* Once nobody is at it, the entry says what happened: the post that was saved,
\* or nothing, so that a rejected post may be tried again (post.go:174), unless a
\* disturbance arises.
Idle == \A r \in Request : pc[r] \in {"start", "done"}

IdleEntryIsTrue ==
    disturbed = {} /\ Idle => IF saved = {} THEN cache = Absent ELSE cache \in saved

\* Undisturbed, the requests together do what the abstract specification allows:
\* its initial state, and each of their steps one of its steps or none.
SavedPost == IF saved = {} THEN NoneSaved ELSE CHOOSE p \in saved : TRUE

Idempotent == INSTANCE IdempotentPost WITH post <- SavedPost, NoPost <- NoneSaved

ImplementsIdempotentPost ==
    /\ Idempotent!Init
    /\ [][disturbed = {} => [Idempotent!Next]_(Idempotent!vars)]_serverVars
=============================================================================
