------------------------------- MODULE Board -------------------------------
(***************************************************************************)
(* The notice board (src/services/bot/services/board_service.py): the      *)
(* posts that customers write in a dialogue of the bot, likes and comments *)
(* of a post, each a table with a counter in the row of the post, and the  *)
(* posts that administrators pin.  The transactions run at READ COMMITTED: *)
(* what a SELECT sees may have changed when the statement that follows it  *)
(* gets its locks.                                                         *)
(***************************************************************************)
EXTENDS Integers, FiniteSets

CONSTANTS
    Taps,           \* taps on the buttons of the board
    Customers,      \* who may tap
    Posts,          \* posts that may be pinned
    MaxPinned,      \* MAX_PINNED
    MaxPosts,       \* MAX_POSTS_PER_DAY
    MaxComments     \* bound: comments of the post

ASSUME BoardAssumption ==
    /\ IsFiniteSet(Taps) /\ IsFiniteSet(Customers) /\ IsFiniteSet(Posts)
    /\ {MaxPinned, MaxPosts, MaxComments} \subseteq Nat

VARIABLES
    likes,          \* customers with a row in board_likes, for one post
    likesCount,     \* likes_count of that post
    comments,       \* its rows in board_comments
    commentsCount,  \* its comments_count
    writing,        \* comments inserted and not counted yet
    uncounted,      \* history: comments whose process died then
    pinned,         \* posts with is_pinned
    deleted,        \* posts with is_deleted
    draft,          \* BoardPostStates of each customer
    posts,          \* posts of each customer today, without the deleted ones
    tap,            \* where each tap is, whose it is and what it has seen
    undone,         \* history: a customer was seen to like the post twice at a time
    crowded,        \* history: a post was pinned after a count that had changed
    hasty           \* history: customers with two taps in the dialogue at a time

boardVars == <<likes, likesCount, comments, commentsCount, writing, uncounted, pinned,
               deleted, draft, posts, tap, undone, crowded, hasty>>

NewTap == [at |-> "new"]

BoardInit ==
    /\ likes = {}
    /\ likesCount = 0
    /\ comments = 0
    /\ commentsCount = 0
    /\ writing = 0
    /\ uncounted = 0
    /\ pinned = {}
    /\ deleted = {}
    /\ draft = [c \in Customers |-> "none"]
    /\ posts = [c \in Customers |-> 0]
    /\ hasty = {}
    /\ tap = [t \in Taps |-> NewTap]
    /\ undone = FALSE
    /\ crowded = FALSE

likeVars == <<likes, likesCount>>
commentVars == <<comments, commentsCount, writing, uncounted>>
pinVars == <<pinned, deleted>>
postVars == <<draft, posts, hasty>>

Becomes(t, state) == tap' = [tap EXCEPT ![t] = state]
Over(t) == Becomes(t, [at |-> "over"])

-----------------------------------------------------------------------------
(* toggle_like *)

Unliking(c) ==
    {t \in Taps : tap[t].at = "liking" /\ tap[t].who = c /\ tap[t].liked}

LookLiked(t, c) ==
    /\ tap[t].at = "new"
    /\ Becomes(t, [at |-> "liking", who |-> c, liked |-> c \in likes])
    /\ undone' = (undone \/ (c \in likes /\ Unliking(c) # {}))
    /\ UNCHANGED <<likeVars, commentVars, pinVars, postVars, crowded>>

\* The DELETE may find nothing; the counter goes down all the same.
Unlike(t) ==
    /\ tap[t].at = "liking"
    /\ tap[t].liked
    /\ likes' = likes \ {tap[t].who}
    /\ likesCount' = likesCount - 1
    /\ Over(t)
    /\ UNCHANGED <<commentVars, pinVars, postVars, undone, crowded>>

\* Seeded fault: board_likes lets a customer like a post twice.
UniqueNot(c) == FALSE

\* uq_board_likes_post_user makes the INSERT fail, and the transaction with it.
UniqueFails(c) == c \in likes

Like(t) ==
    /\ tap[t].at = "liking"
    /\ ~tap[t].liked
    /\ IF UniqueFails(tap[t].who)
       THEN UNCHANGED likeVars
       ELSE /\ likes' = likes \cup {tap[t].who}
            /\ likesCount' = likesCount + 1
    /\ Over(t)
    /\ UNCHANGED <<commentVars, pinVars, postVars, undone, crowded>>

-----------------------------------------------------------------------------
(* add_comment: the row and the counter are two transactions *)

InsertComment ==
    /\ comments < MaxComments
    /\ comments' = comments + 1
    /\ writing' = writing + 1
    /\ UNCHANGED <<likeVars, commentsCount, uncounted, pinVars, postVars, tap, undone, crowded>>

CountComment ==
    /\ writing > 0
    /\ writing' = writing - 1
    /\ commentsCount' = commentsCount + 1
    /\ UNCHANGED <<likeVars, comments, uncounted, pinVars, postVars, tap, undone, crowded>>

\* The bot stops, or the UPDATE fails.
LeaveUncounted ==
    /\ writing > 0
    /\ writing' = writing - 1
    /\ uncounted' = uncounted + 1
    /\ UNCHANGED <<likeVars, comments, commentsCount, pinVars, postVars, tap, undone, crowded>>

-----------------------------------------------------------------------------
(* set_pinned and delete_post *)

Shown == pinned \ deleted

\* Seeded fault: one too many is let through.
RoomForOneMore(n) == n <= MaxPinned

Room(n) == n < MaxPinned

CountPinned(t, post) ==
    /\ tap[t].at = "new"
    /\ IF Room(Cardinality(Shown))
       THEN Becomes(t, [at |-> "pinning", post |-> post, shown |-> Shown])
       ELSE Over(t)
    /\ UNCHANGED <<likeVars, commentVars, pinVars, postVars, undone, crowded>>

Pin(t) ==
    /\ tap[t].at = "pinning"
    /\ pinned' = pinned \cup {tap[t].post}
    /\ crowded' = (crowded \/ Shown # tap[t].shown)
    /\ Over(t)
    /\ UNCHANGED <<likeVars, commentVars, deleted, postVars, undone>>

Unpin(t, post) ==
    /\ tap[t].at = "new"
    /\ pinned' = pinned \ {post}
    /\ Over(t)
    /\ UNCHANGED <<likeVars, commentVars, deleted, postVars, undone, crowded>>

\* A deleted post keeps its pin.
DeletePost(t, post) ==
    /\ tap[t].at = "new"
    /\ deleted' = deleted \cup {post}
    /\ Over(t)
    /\ UNCHANGED <<likeVars, commentVars, pinned, postVars, undone, crowded>>

-----------------------------------------------------------------------------
(* Writing a post: the dialogue of handlers/board.py *)

InDialogue == {"writing", "publishing", "clearing"}

\* The customer taps while an earlier tap is still being handled.
Enters(t, c, at) ==
    /\ Becomes(t, [at |-> at, who |-> c])
    /\ hasty' = IF \E s \in Taps : tap[s].at \in InDialogue /\ tap[s].who = c
                THEN hasty \cup {c} ELSE hasty

\* cb_board_write counts the posts of the day; that somebody is banned from the
\* board is asked here only, too.
CountPosts(t, c) ==
    /\ tap[t].at = "new"
    /\ posts[c] < MaxPosts
    /\ Enters(t, c, "writing")
    /\ UNCHANGED <<likeVars, commentVars, pinVars, draft, posts, undone, crowded>>

Draft(t) ==
    /\ tap[t].at = "writing"
    /\ draft' = [draft EXCEPT ![tap[t].who] = "text"]
    /\ Over(t)
    /\ UNCHANGED <<likeVars, commentVars, pinVars, posts, hasty, undone, crowded>>

Turns(c, from, to) ==
    /\ draft[c] \in from
    /\ draft' = [draft EXCEPT ![c] = to]
    /\ UNCHANGED <<likeVars, commentVars, pinVars, posts, tap, hasty, undone, crowded>>

EnterText(c) == Turns(c, {"text"}, "photo")
EnterPhoto(c) == Turns(c, {"photo"}, "confirm")
EditPost(c) == Turns(c, {"confirm"}, "text")

\* /cancel, the button, or a stopword in the text.
CancelPost(c) == Turns(c, {"text", "photo", "confirm"}, "none")

\* The filter of the state lets the tap through.
ConfirmPost(t, c) ==
    /\ tap[t].at = "new"
    /\ draft[c] = "confirm"
    /\ Enters(t, c, "publishing")
    /\ UNCHANGED <<likeVars, commentVars, pinVars, draft, posts, undone, crowded>>

\* Nothing is counted again.
Publish(t) ==
    /\ tap[t].at = "publishing"
    /\ posts' = [posts EXCEPT ![tap[t].who] = @ + 1]
    /\ Becomes(t, [tap[t] EXCEPT !.at = "clearing"])
    /\ UNCHANGED <<likeVars, commentVars, pinVars, draft, hasty, undone, crowded>>

\* Seeded fault: a published draft can be confirmed again.
Uncleared(c) == draft[c]

Cleared(c) == "none"

ClearDraft(t) ==
    /\ tap[t].at = "clearing"
    /\ draft' = [draft EXCEPT ![tap[t].who] = Cleared(tap[t].who)]
    /\ Over(t)
    /\ UNCHANGED <<likeVars, commentVars, pinVars, posts, hasty, undone, crowded>>

\* One of the customer's posts is deleted, which makes room for another.
PostDeleted(c) ==
    /\ posts[c] > 0
    /\ posts' = [posts EXCEPT ![c] = @ - 1]
    /\ UNCHANGED <<likeVars, commentVars, pinVars, draft, tap, hasty, undone, crowded>>

BoardNext ==
    \/ \E c \in Customers :
        EnterText(c) \/ EnterPhoto(c) \/ EditPost(c) \/ CancelPost(c) \/ PostDeleted(c)
    \/ InsertComment \/ CountComment \/ LeaveUncounted
    \/ \E t \in Taps :
        \/ Unlike(t) \/ Like(t) \/ Pin(t)
        \/ Draft(t) \/ Publish(t) \/ ClearDraft(t)
        \/ \E c \in Customers : LookLiked(t, c) \/ CountPosts(t, c) \/ ConfirmPost(t, c)
        \/ \E post \in Posts : CountPinned(t, post) \/ Unpin(t, post) \/ DeletePost(t, post)

BoardSpec == BoardInit /\ [][BoardNext]_boardVars

-----------------------------------------------------------------------------
(* Properties *)

IdleTap == [at : {"new", "over"}]
LikingTap == [at : {"liking"}, who : Customers, liked : BOOLEAN]
PinningTap == [at : {"pinning"}, post : Posts, shown : SUBSET Posts]
WritingTap == [at : InDialogue, who : Customers]
TapStates == IdleTap \cup LikingTap \cup PinningTap \cup WritingTap

\* Every variable has the values the code gives it.
BoardTypeOK ==
    /\ likes \subseteq Customers
    /\ likesCount \in Int
    /\ {comments, commentsCount, writing, uncounted} \subseteq Nat
    /\ {pinned, deleted} \subseteq SUBSET Posts
    /\ {undone, crowded} \subseteq BOOLEAN
    /\ tap \in [Taps -> TapStates]
    /\ draft \in [Customers -> {"none", "text", "photo", "confirm"}]
    /\ posts \in [Customers -> Nat]
    /\ hasty \subseteq Customers

\* The counters shown with a post are those of the tables: likes unless one
\* customer took a like back with two taps that both saw it (toggle_like),
\* comments but for those being counted or whose process died (add_comment).
CountersTrue ==
    /\ likesCount = Cardinality(likes) \/ undone
    /\ commentsCount + writing + uncounted = comments

\* No more than MAX_PINNED posts are shown at the top unless two administrators
\* counted them at the same time (set_pinned), and nobody has more posts of the
\* day than MAX_POSTS_PER_DAY but with two taps in the dialogue at a time: they
\* are counted when the dialogue begins and not when the post is published
\* (cb_board_write, board_confirm_post).
LimitsHold ==
    /\ Cardinality(Shown) <= MaxPinned \/ crowded
    /\ \A c \in Customers : posts[c] <= MaxPosts \/ c \in hasty

=============================================================================
