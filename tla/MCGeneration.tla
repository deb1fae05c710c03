---------------------------- MODULE MCGeneration ----------------------------
(***************************************************************************)
(* Generation with the programs of Handlers: one update for any handler,   *)
(* and pairs of updates that share the lock, a cooldown or a pending       *)
(* picture.                                                                *)
(***************************************************************************)
EXTENDS HandlerRules, Handlers

CONSTANTS e1, e2

MCUpdates == {e1, e2}
Pair(one, other) == [u \in MCUpdates |-> IF u = e1 THEN one ELSE other]

Scenario(h, k, n) == [handler |-> h, kind |-> k, attempts |-> n]

MCScenarios ==
    {Scenario(Pair(h, "nothing"), "paid", 4) : h \in DOMAIN HandlerPrograms}
    \cup {Scenario(Pair(h, "nothing"), k, 2) :
            h \in DOMAIN HandlerPrograms, k \in UserKinds \ {"paid"}}
    \cup {Scenario(p, "paid", 2) : p \in
            {Pair("cmd_img4", "cmd_img"), Pair("cmd_img4", "cb_regen_img"),
             Pair("cb_upscale", "cb_upscale"), Pair("cb_regen_mus", "cb_regen_mus"),
             Pair("cb_photo_action", "cb_photo_action")}}

-----------------------------------------------------------------------------
(* The ways through the programs of Handlers, as HandlerRules wants them   *)

\* Longer than any way through a handler.
Depth == 20

\* Every handler's smallest set of ways that holds what "start" does and "more"
\* adds to it, and its largest without what "bad" finds.
Grown(start, more(_)) ==
    LET set[n \in 0..Depth] ==
            IF n = 0 THEN start ELSE LET less == set[n - 1] IN less \cup UNION {more(p) : p \in less}
    IN  set[Depth]
Pruned(start, bad(_, _)) ==
    LET set[n \in 0..Depth] ==
            IF n = 0 THEN start ELSE LET more == set[n - 1] IN {p \in more : ~bad(p, more)}
    IN  set[Depth]

MCWays == [h \in DOMAIN HandlerPrograms |-> Grown(HandlerPrograms[h], Onward)]

MCNoSpend ==
    LET spends(p, kept) == p # <<>> /\ (Op(p) = "spend" \/ ~(Onward(p) \subseteq kept))
    IN  [h \in DOMAIN HandlerPrograms |-> Pruned(MCWays[h], spends)]

MCNoRefund ==
    LET refunds(p, kept) ==
            /\ p # <<>>
            /\ \/ Op(p) = "giveback"
               \/ Op(p) = "spend" /\ ~(Wrong(p) \subseteq kept)
               \/ Op(p) # "spend" /\ ~(Onward(p) \subseteq kept)
    IN  [h \in DOMAIN HandlerPrograms |-> Pruned(MCWays[h], refunds)]

MCNoReturn ==
    [h \in DOMAIN HandlerPrograms |->
        LET settles(p) == Op(p) \in {"reply", "giveback"} \/ (Op(p) = "call" /\ h \in LoseAnswer)
            returns(p, kept) ==
                \/ p = <<>>
                \/ /\ Op(p) # "raise"
                   /\ ~(Wrong(p) \subseteq kept) \/ (~settles(p) /\ Tail(p) \notin kept)
        IN  Pruned(MCWays[h], returns)]

=============================================================================
