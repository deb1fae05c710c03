-------------------------------- MODULE Chat --------------------------------
(***************************************************************************)
(* The chat history of a customer (services/bot/services/chat_service.py). *)
(* An answer is appended together with its question by the text handlers   *)
(* (append_chat_pair) and after it by the voice handlers                   *)
(* (append_chat_message twice); each append then prunes the history, in    *)
(* statements of their own, while other handlers of the same customer do   *)
(* the same and the customer may clear it.                                 *)
(***************************************************************************)
EXTENDS Integers, FiniteSets

CONSTANTS
    Answers,        \* answers the handlers append
    MaxStored,      \* _MAX_STORED_MESSAGES
    MaxClears       \* bound: clear_chat_history

ASSUME ChatAssumption ==
    /\ IsFiniteSet(Answers)
    /\ MaxStored \in Nat \ {0}
    /\ MaxClears \in Nat

VARIABLES
    lastId,         \* the sequence of chat_messages.id
    stored,         \* ids of the rows of the customer
    stage,          \* where the append of each answer is
    drawn,          \* ids drawn by an append that has not committed
    cutoff,         \* the oldest id each append means to keep
    clears,         \* counts clear_chat_history
    said,           \* history: ids committed since the last clear
    underPrune      \* history: a clear came between the statements of a prune

chatVars == <<lastId, stored, stage, drawn, cutoff, clears, said, underPrune>>

ChatInit ==
    /\ lastId = 0
    /\ stored = {}
    /\ stage = [a \in Answers |-> "asked"]
    /\ drawn = [a \in Answers |-> {}]
    /\ cutoff = [a \in Answers |-> 0]
    /\ clears = 0
    /\ said = {}
    /\ underPrune = FALSE

GoTo(a, place) == stage' = [stage EXCEPT ![a] = place]
Commit(ids) == stored' = stored \cup ids /\ said' = said \cup ids

-----------------------------------------------------------------------------
(* The inserts *)

\* The two rows of a pair draw their ids one after the other and are committed
\* together, so that pairs of two handlers can interleave.
DrawId(a) ==
    /\ stage[a] = "asked"
    /\ lastId' = lastId + 1
    /\ drawn' = [drawn EXCEPT ![a] = {lastId + 1}]
    /\ GoTo(a, "pairing")
    /\ UNCHANGED <<stored, cutoff, clears, said, underPrune>>

InsertPair(a) ==
    /\ stage[a] = "pairing"
    /\ lastId' = lastId + 1
    /\ Commit(drawn[a] \cup {lastId + 1})
    /\ drawn' = [drawn EXCEPT ![a] = {}]
    /\ GoTo(a, "inserted")
    /\ UNCHANGED <<cutoff, clears, underPrune>>

\* append_chat_message, for the question and again for the answer.
InsertMessage(a) ==
    /\ stage[a] \in {"asked", "answering"}
    /\ lastId' = lastId + 1
    /\ Commit({lastId + 1})
    /\ GoTo(a, IF stage[a] = "asked" THEN "questioned" ELSE "inserted")
    /\ UNCHANGED <<drawn, cutoff, clears, underPrune>>

-----------------------------------------------------------------------------
(* The pruning *)

NewerThan(id) == {i \in stored : i > id}
OlderThan(id) == {i \in stored : i < id}

\* Seeded fault: the rows are counted from the oldest.
AtOffsetAscending(id) == Cardinality(OlderThan(id)) = MaxStored

AtOffset(id) == Cardinality(NewerThan(id)) = MaxStored

After(place) == IF place = "questioned" THEN "answering" ELSE "over"

\* The id at OFFSET _MAX_STORED_MESSAGES from the newest, when there is one.
FindCutoff(a) ==
    /\ stage[a] \in {"questioned", "inserted"}
    /\ \/ /\ \E id \in stored :
                AtOffset(id) /\ cutoff' = [cutoff EXCEPT ![a] = id]
          /\ GoTo(a, IF stage[a] = "questioned" THEN "pruningQuestion" ELSE "pruning")
       \/ /\ \A id \in stored : ~AtOffset(id)
          /\ GoTo(a, After(stage[a]))
          /\ UNCHANGED cutoff
    /\ UNCHANGED <<lastId, stored, drawn, clears, said, underPrune>>

Prune(a) ==
    /\ stage[a] \in {"pruningQuestion", "pruning"}
    /\ stored' = stored \ OlderThan(cutoff[a])
    /\ cutoff' = [cutoff EXCEPT ![a] = 0]
    /\ GoTo(a, IF stage[a] = "pruningQuestion" THEN "answering" ELSE "over")
    /\ UNCHANGED <<lastId, drawn, clears, said, underPrune>>

\* The bot stops, or a statement fails, between any two statements; what was
\* not committed is rolled back.
GiveUp(a) ==
    /\ stage[a] # "over"
    /\ drawn' = [drawn EXCEPT ![a] = {}]
    /\ cutoff' = [cutoff EXCEPT ![a] = 0]
    /\ GoTo(a, "over")
    /\ UNCHANGED <<lastId, stored, clears, said, underPrune>>

ClearHistory ==
    /\ clears < MaxClears
    /\ clears' = clears + 1
    /\ stored' = {}
    /\ said' = {}
    /\ underPrune' = (underPrune \/ \E a \in Answers : cutoff[a] # 0)
    /\ UNCHANGED <<lastId, stage, drawn, cutoff>>

ChatNext ==
    \/ ClearHistory
    \/ \E a \in Answers :
        \/ DrawId(a) \/ InsertPair(a) \/ InsertMessage(a)
        \/ FindCutoff(a) \/ Prune(a) \/ GiveUp(a)

ChatSpec == ChatInit /\ [][ChatNext]_chatVars

-----------------------------------------------------------------------------
(* Properties *)

\* Every variable has the values the code gives it.
ChatTypeOK ==
    /\ {lastId, clears} \subseteq Nat
    /\ {stored, said} \subseteq SUBSET (1..lastId)
    /\ stage \in [Answers -> {"asked", "pairing", "questioned", "pruningQuestion",
                              "answering", "inserted", "pruning", "over"}]
    /\ drawn \in [Answers -> SUBSET (1..lastId)]
    /\ cutoff \in [Answers -> 0..lastId]
    /\ underPrune \in BOOLEAN

\* The model is always given the newest messages: whatever a handler prunes on
\* the strength of an id it read before others inserted, the MaxStored newest
\* messages since the last clear are still there, unless the clear came between
\* the two statements of a prune (append_chat_message, append_chat_pair).
NewestKept ==
    \/ underPrune
    \/ \A id \in said \ stored : Cardinality({i \in said : i > id}) >= MaxStored

=============================================================================
