----------------------------- MODULE MCServices -----------------------------
(***************************************************************************)
(* The services beside the payments and the requests of a user: the queue  *)
(* of videos, the breaker in front of a provider, the balance as           *)
(* administrators change it, the notices, the board, the chat history and  *)
(* a call of a provider.  The modules share no variable: "focus" names the *)
(* one that moves, and the others stay where they begin.                   *)
(***************************************************************************)
EXTENDS VideoQueue, Breaker, AdminLedger, Notices, Board, Chat, Providers

VARIABLE focus

servicesVars == <<focus, videoVars, breakerVars, adminVars, noticeVars, boardVars, chatVars,
                  providerVars>>

MCInit ==
    /\ focus \in {"video", "breaker", "admin", "notices", "board", "chat", "provider"}
    /\ VideoInit /\ BreakerInit /\ AdminInit /\ NoticeInit /\ BoardInit /\ ChatInit
    /\ ProviderInit
    /\ focus # "video" => payer = [o \in Orders |-> "paid"]
    /\ focus # "provider" => need = "video"

Moves(name, next) == focus = name /\ UNCHANGED focus /\ next

MCNext ==
    \/ /\ Moves("video", VideoNext)
       /\ UNCHANGED <<breakerVars, adminVars, noticeVars, boardVars, chatVars, providerVars>>
    \/ /\ Moves("breaker", BreakerNext)
       /\ UNCHANGED <<videoVars, adminVars, noticeVars, boardVars, chatVars, providerVars>>
    \/ /\ Moves("admin", AdminNext)
       /\ UNCHANGED <<videoVars, breakerVars, noticeVars, boardVars, chatVars, providerVars>>
    \/ /\ Moves("notices", NoticeNext)
       /\ UNCHANGED <<videoVars, breakerVars, adminVars, boardVars, chatVars, providerVars>>
    \/ /\ Moves("board", BoardNext)
       /\ UNCHANGED <<videoVars, breakerVars, adminVars, noticeVars, chatVars, providerVars>>
    \/ /\ Moves("chat", ChatNext)
       /\ UNCHANGED <<videoVars, breakerVars, adminVars, noticeVars, boardVars, providerVars>>
    \/ /\ Moves("provider", ProviderNext)
       /\ UNCHANGED <<videoVars, breakerVars, adminVars, noticeVars, boardVars, chatVars>>

MCSpec == MCInit /\ [][MCNext]_servicesVars

\* Every variable of the seven modules has the values the code gives it.
ServicesTypeOK ==
    /\ VideoTypeOK /\ BreakerTypeOK /\ AdminTypeOK
    /\ NoticeTypeOK /\ BoardTypeOK /\ ChatTypeOK
    /\ ProviderTypeOK

=============================================================================
