----------------------------- MODULE MCRequests -----------------------------
(***************************************************************************)
(* What happens to the updates of one user: the middlewares (Gatekeeper),  *)
(* the choice of a handler (Dispatch), the usage policy (UsagePolicy) and  *)
(* the handlers (MCGeneration).  The modules share no variable: "focus"    *)
(* names the one that moves, and the others stay where they begin.         *)
(***************************************************************************)
EXTENDS MCGeneration, UsagePolicy, Gatekeeper, Dispatch

VARIABLE focus

requestsVars == <<focus, genVars, policyVars, gateVars, dispatchVars>>

\* Two messages: a text and another one, or two recordings.
CONSTANTS m1, m2
MCMessages == {m1, m2}
MCKinds ==
    \/ msgKind[m1] = "text"
    \/ msgKind[m1] = "audio" /\ msgKind[m2] = "audio"

\* A module that does not move is in one of its initial states, always the same.
MCInit ==
    /\ focus \in {"generation", "policy", "gate", "dispatch"}
    /\ GenInit /\ PolicyInit /\ GateInit /\ DispatchInit
    /\ focus # "generation" =>
        handler = Pair("handle_text", "nothing") /\ kind = "paid" /\ attempts = 4
    /\ focus # "policy" => bucket = "video" /\ tier = "free"
    /\ focus # "gate" => blocked = FALSE
    /\ IF focus = "dispatch" THEN MCKinds ELSE msgKind = [m \in Messages |-> "text"]

Moves(name, next) == focus = name /\ UNCHANGED focus /\ next

\* Calls and events are numbered in the order in which they come, which spares
\* TLC their permutations.
InTurn(where, outside) ==
    \A i, j \in DOMAIN where : i < j /\ where[i] = outside => where[j] = outside

MCNext ==
    \/ /\ Moves("generation", GenNext)
       /\ UNCHANGED <<policyVars, gateVars, dispatchVars>>
    \/ /\ Moves("policy", PolicyNext)
       /\ InTurn(stage', "new")
       /\ UNCHANGED <<genVars, gateVars, dispatchVars>>
    \/ /\ Moves("gate", GateNext)
       /\ InTurn(place', NotThere)
       /\ UNCHANGED <<genVars, policyVars, dispatchVars>>
    \/ /\ Moves("dispatch", DispatchNext)
       /\ UNCHANGED <<genVars, policyVars, gateVars>>

MCSpec == MCInit /\ [][MCNext]_requestsVars

\* Every variable of the four modules has the values the code gives it.
RequestsTypeOK == GenTypeOK /\ PolicyTypeOK /\ GateTypeOK /\ DispatchTypeOK

=============================================================================
