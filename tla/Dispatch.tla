------------------------------ MODULE Dispatch ------------------------------
(***************************************************************************)
(* Which handler gets a message of one user.  The routers are asked in the *)
(* order in which main.py includes them.  Five menus leave a key in Redis  *)
(* that says what the next message is meant for; the filters that look for *)
(* such a key read it and delete it before the type of the message is      *)
(* looked at, and before the middlewares of the handler run.               *)
(***************************************************************************)
EXTENDS Integers, FiniteSets, Sequences, Functions

CONSTANTS
    Messages,      \* messages of the user, handled concurrently
    MaxChoices     \* bound: taps on the menus, in all

ASSUME DispatchAssumption == IsFiniteSet(Messages) /\ MaxChoices \in Nat

Modes == {"docgen", "tts", "music", "transcribe"}

\* "command" is one that no router knows; the others have handlers of their own.
MessageKinds == {"text", "command", "voice", "audio", "video_note", "photo"}

\* The kinds that a router before docgen takes, keys or no keys.
EarlyKinds == {"voice", "video_note", "photo"}

VARIABLES
    waiting,       \* the modes whose key is set
    prompting,     \* the FSM state CustomModeStates.enter_prompt
    choices,       \* history: how often a mode was chosen
    msgKind,
    at,            \* the filter the message has come to; 0: not arrived
    dropping,      \* the filter has read its key and has yet to delete it
    by,            \* the handler that got the message
    servedBy,      \* the mode that the handler serves
    served,        \* history: per mode, the messages handled in it
    doubled        \* history: per mode, reads of a key about to be deleted

dispatchVars == <<waiting, prompting, choices, msgKind, at, dropping, by,
                  servedBy, served, doubled>>

\* The filters in the order of the routers, with the kind their handler takes.
Filters == <<[mode |-> "docgen", wants |-> "text"],
             [mode |-> "tts", wants |-> "text"],
             [mode |-> "music", wants |-> "text"],
             [mode |-> "transcribe", wants |-> "voice"],
             [mode |-> "transcribe", wants |-> "audio"],
             [mode |-> "transcribe", wants |-> "video_note"]>>
AfterFilters == Len(Filters) + 1
Ended == AfterFilters + 1

DispatchInit ==
    /\ waiting = {}
    /\ prompting = FALSE
    /\ choices = [d \in Modes |-> 0]
    /\ msgKind \in [Messages -> MessageKinds]
    /\ at = [m \in Messages |-> 0]
    /\ dropping = [m \in Messages |-> FALSE]
    /\ by = [m \in Messages |-> "nobody"]
    /\ servedBy = [m \in Messages |-> "none"]
    /\ served = [d \in Modes |-> 0]
    /\ doubled = [d \in Modes |-> 0]

Taken(m, handler) == by' = [by EXCEPT ![m] = handler] /\ at' = [at EXCEPT ![m] = Ended]

-----------------------------------------------------------------------------
(* The menus                                                               *)

MayTap == FoldFunction(+, 0, choices) < MaxChoices

Choose(d) ==
    /\ MayTap
    /\ waiting' = waiting \cup {d}
    /\ choices' = [choices EXCEPT ![d] = @ + 1]
    /\ UNCHANGED <<prompting, msgKind, at, dropping, by, servedBy, served,
                   doubled>>

\* A format, a voice, music, or a kind of transcription.
cb_docgen_fmt == Choose("docgen")
cb_audio_setvoice == Choose("tts")
cb_audio_music == Choose("music")
cb_tr_mode == Choose("transcribe")

\* The key is set for 300 seconds.
ModeExpires(d) ==
    /\ d \in waiting
    /\ waiting' = waiting \ {d}
    /\ UNCHANGED <<prompting, choices, msgKind, at, dropping, by, servedBy,
                   served, doubled>>

EditPrompt ==
    /\ ~prompting
    /\ \E m \in Messages : at[m] = 0
    /\ prompting' = TRUE
    /\ UNCHANGED <<waiting, choices, msgKind, at, dropping, by, servedBy,
                   served, doubled>>

-----------------------------------------------------------------------------
(* A message                                                               *)

\* voice, image, video and photo_tools are asked before the filters.
ArriveEarly(m) ==
    /\ at[m] = 0
    /\ msgKind[m] \in EarlyKinds
    /\ Taken(m, msgKind[m])
    /\ UNCHANGED <<waiting, prompting, choices, msgKind, dropping, servedBy, served,
                   doubled>>

\* So is modes: the text becomes the prompt, other messages are told to be text.
ArrivePrompt(m) ==
    /\ at[m] = 0
    /\ msgKind[m] \in {"text", "audio"}
    /\ prompting
    /\ prompting' = (msgKind[m] # "text")
    /\ Taken(m, IF msgKind[m] = "text" THEN "mode_enter_prompt" ELSE "mode_non_text")
    /\ UNCHANGED <<waiting, choices, msgKind, dropping, servedBy, served, doubled>>

ArriveLate(m) ==
    /\ at[m] = 0
    /\ msgKind[m] \notin EarlyKinds
    /\ prompting => msgKind[m] = "command"
    /\ at' = [at EXCEPT ![m] = 1]
    /\ UNCHANGED <<waiting, prompting, choices, msgKind, dropping, by, servedBy, served,
                   doubled>>

AtFilter(m) == at[m] \in 1..Len(Filters)
Mode(m) == Filters[at[m]].mode
Dropping(d) == {m \in Messages : dropping[m] /\ Mode(m) = d}

\* GET of the key.
FilterReads(m) ==
    /\ AtFilter(m)
    /\ ~dropping[m]
    /\ IF Mode(m) \in waiting
       THEN /\ dropping' = [dropping EXCEPT ![m] = TRUE]
            /\ doubled' = [doubled EXCEPT ![Mode(m)] = @ + Cardinality(Dropping(Mode(m)))]
            /\ UNCHANGED at
       ELSE /\ at' = [at EXCEPT ![m] = @ + 1]
            /\ UNCHANGED <<dropping, doubled>>
    /\ UNCHANGED <<waiting, prompting, choices, msgKind, by, servedBy, served>>

\* Seeded fault: the key is read and stays.
DeletesNothing(m) == waiting

Deletes(m) == waiting \ {Mode(m)}

\* HasAudioMode does not look for the music key once it has found the other.
NextFilter(i) == IF Filters[i].mode = "tts" THEN i + 2 ELSE i + 1

\* DELETE of the key; only now the kind of the message is compared.  The
\* middlewares may refuse the message all the same.
FilterDrops(m) ==
    /\ AtFilter(m)
    /\ dropping[m]
    /\ waiting' = Deletes(m)
    /\ dropping' = [dropping EXCEPT ![m] = FALSE]
    /\ IF msgKind[m] = Filters[at[m]].wants
       THEN \/ /\ Taken(m, "handler of the mode")
               /\ servedBy' = [servedBy EXCEPT ![m] = Mode(m)]
               /\ served' = [served EXCEPT ![Mode(m)] = @ + 1]
            \/ /\ Taken(m, "middleware")
               /\ UNCHANGED <<servedBy, served>>
       ELSE /\ at' = [at EXCEPT ![m] = NextFilter(@)]
            /\ UNCHANGED <<by, servedBy, served>>
    /\ UNCHANGED <<prompting, choices, msgKind, doubled>>

\* Redis fails in a filter: it does not match.
FilterFails(m) ==
    /\ AtFilter(m)
    /\ ~dropping[m]
    /\ at' = [at EXCEPT ![m] = NextFilter(@)]
    /\ UNCHANGED <<waiting, prompting, choices, msgKind, dropping, by, servedBy, served, doubled>>

\* text.router is the last that takes messages; it has no handler for audio.
LastRouter(m) ==
    /\ at[m] = AfterFilters
    /\ Taken(m, CASE msgKind[m] = "text" -> "handle_text"
                  [] msgKind[m] = "command" -> "handle_unknown_command"
                  [] OTHER -> "nobody")
    /\ UNCHANGED <<waiting, prompting, choices, msgKind, dropping, servedBy,
                   served, doubled>>

DispatchNext ==
    \/ cb_docgen_fmt \/ cb_audio_setvoice \/ cb_audio_music \/ cb_tr_mode
    \/ \E d \in Modes : ModeExpires(d)
    \/ EditPrompt
    \/ \E m \in Messages :
        \/ ArriveEarly(m) \/ ArrivePrompt(m) \/ ArriveLate(m)
        \/ FilterReads(m) \/ FilterDrops(m) \/ FilterFails(m) \/ LastRouter(m)

DispatchSpec == DispatchInit /\ [][DispatchNext]_dispatchVars

-----------------------------------------------------------------------------

DispatchTypeOK ==
    /\ waiting \in SUBSET Modes
    /\ prompting \in BOOLEAN
    /\ choices \in [Modes -> Nat]
    /\ msgKind \in [Messages -> MessageKinds]
    /\ at \in [Messages -> 0..Ended]
    /\ dropping \in [Messages -> BOOLEAN]
    /\ \A m \in Messages : dropping[m] => AtFilter(m)
    /\ servedBy \in [Messages -> Modes \cup {"none"}]
    /\ served \in [Modes -> Nat]
    /\ doubled \in [Modes -> Nat]

\* A choice in a menu serves one message: a second document or recording for
\* the same choice, which is charged, needs two messages whose filters both
\* read the key before either has deleted it.
ChoiceServesOne == \A d \in Modes : served[d] <= choices[d] + doubled[d]

=============================================================================
