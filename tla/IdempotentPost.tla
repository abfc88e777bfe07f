--------------------------- MODULE IdempotentPost ---------------------------
(***************************************************************************)
(* What the server promises to a client that sends the same post more than *)
(* once under one pending_post_id (app/post.go, deduplicateCreatePost): at *)
(* most one post comes of it, and an answer is an error or that post.      *)
(***************************************************************************)
CONSTANTS Request, NoPost, Waiting, Error

VARIABLES
    post,     \* the post that was created, named after the request that did it
    answer    \* what every request was answered

vars == <<post, answer>>

Init ==
    /\ post = NoPost
    /\ answer = [r \in Request |-> Waiting]

Create(r) ==
    /\ post = NoPost
    /\ answer[r] = Waiting
    /\ post' = r
    /\ UNCHANGED answer

Respond(r) ==
    /\ answer[r] = Waiting
    /\ \/ answer' = [answer EXCEPT ![r] = Error]
       \/ post # NoPost /\ answer' = [answer EXCEPT ![r] = post]
    /\ UNCHANGED post

Next == \E r \in Request : Create(r) \/ Respond(r)

Spec == Init /\ [][Next]_vars
=============================================================================
