---------------------------- MODULE RequestsProof ----------------------------
(***************************************************************************)
(* Proofs about the way of an update to its handler (Gatekeeper, Dispatch) *)
(* and about all of its way (MCRequests), for every number of updates,     *)
(* every lifetime of a key and every time an update spends in the          *)
(* middlewares.                                                            *)
(***************************************************************************)
EXTENDS MCRequests, GenerationProof, UsagePolicyProof, TLAPS, FiniteSetTheorems

-----------------------------------------------------------------------------
(* The ban check.  A verdict that contradicts the row was read before the  *)
(* last change of the row; Fresh says how long ago that can have been, for *)
(* a verdict on its way to the cache, in it, and taken from it.            *)

Places == [at : Passing \cup {"idle", "banned", "limited", "served", "deleted"},
           since : Nat, row : BOOLEAN, waved : BOOLEAN]

BanTypeOK ==
    /\ {clock, blockedAt} \subseteq Nat
    /\ blocked \in BOOLEAN
    /\ verdict \in [blocked : BOOLEAN, until : Nat]
    /\ place \in [Events -> Places]

\* No update stays longer than MaxFlight, and the past is the past.
InTime ==
    /\ blockedAt <= clock
    /\ verdict.until <= clock + BanTTL
    /\ \A u \in Events :
        place[u].at \in Passing => place[u].since <= clock /\ clock <= place[u].since + MaxFlight

\* How old a verdict is that contradicts the row as it is now.
Fresh ==
    /\ verdict.blocked # blocked => verdict.until <= blockedAt + MaxFlight + BanTTL
    /\ \A u \in Events :
        /\ place[u].at = "storing" /\ place[u].row # blocked => place[u].since <= blockedAt
        /\ place[u].at = "rating" /\ ~place[u].waved /\ blocked
              => place[u].since < blockedAt + MaxFlight + BanTTL

GateInv == BanTypeOK /\ InTime /\ Fresh

-----------------------------------------------------------------------------

LEMMA Parameters ==
    BanTTL \in Nat \ {0} /\ MaxFlight \in Nat
  BY GateAssumption

\* What CheckBan and End write: a place that has forgotten what it read.
LEMMA Fresher ==
    ASSUME NEW to \in Passing \cup {"idle", "banned", "limited", "served", "deleted"},
           NEW t \in Nat
    PROVE  /\ [NotThere EXCEPT !.since = t, !.at = to] \in Places
           /\ [NotThere EXCEPT !.since = t, !.at = to].at = to
           /\ [NotThere EXCEPT !.since = t, !.at = to].since = t
           /\ [NotThere EXCEPT !.at = to] \in Places
           /\ [NotThere EXCEPT !.at = to].at = to
  BY DEF NotThere, Places

LEMMA GateBegins == GateInit => GateInv
<1> SUFFICES ASSUME GateInit
             PROVE  GateInv
  OBVIOUS
<1>1. NotThere \in Places /\ NotThere.at = "idle"
  BY DEF NotThere, Places
<1>2. /\ clock = 1 /\ blockedAt = 0 /\ blocked \in BOOLEAN
      /\ verdict.until = 0 /\ verdict \in [blocked : BOOLEAN, until : Nat]
  BY DEF GateInit, NoVerdict
<1>3. \A u \in Events : place[u] = NotThere
  BY DEF GateInit
<1>4. BanTypeOK
  BY <1>1, <1>2 DEF GateInit, BanTypeOK
<1>5. InTime /\ Fresh
  BY <1>1, <1>2, <1>3, Parameters DEF InTime, Fresh, Passing
<1> QED
  BY <1>4, <1>5 DEF GateInv

\* The update's own place and the verdict are all that most steps touch.
LEMMA PlaceStep ==
    ASSUME GateInv, NEW u \in Events,
           place' \in [Events -> Places],
           \A v \in Events \ {u} : place'[v] = place[v],
           UNCHANGED <<clock, blocked, blockedAt>>,
           verdict' = verdict
             \/ /\ verdict' \in [blocked : BOOLEAN, until : Nat]
                /\ verdict'.until <= clock + BanTTL
                /\ verdict'.blocked # blocked => verdict'.until <= blockedAt + MaxFlight + BanTTL,
           place'[u].at \in Passing =>
              place'[u].since <= clock /\ clock <= place'[u].since + MaxFlight,
           place'[u].at = "storing" /\ place'[u].row # blocked => place'[u].since <= blockedAt,
           place'[u].at = "rating" /\ ~place'[u].waved /\ blocked
              => place'[u].since < blockedAt + MaxFlight + BanTTL
    PROVE  GateInv'
<1>1. BanTypeOK'
  BY DEF GateInv, BanTypeOK
<1>2. InTime' /\ Fresh'
  BY DEF GateInv, InTime, Fresh
<1> QED
  BY <1>1, <1>2 DEF GateInv

-----------------------------------------------------------------------------
(* The steps of the ban check                                              *)

LEMMA CheckBanStep ==
    ASSUME GateInv, NEW u \in Events, CheckBan(u)
    PROVE  GateInv'
<1>1. PICK to \in {"reading", "banned", "rating"} :
        /\ place' = [place EXCEPT ![u] = [NotThere EXCEPT !.since = clock, !.at = to]]
        /\ to = "rating" => Cached /\ ~verdict.blocked
  BY DEF CheckBan
<1>2. UNCHANGED <<clock, blocked, blockedAt, verdict>>
  BY DEF CheckBan
<1>3. /\ clock \in Nat /\ blockedAt \in Nat /\ blocked \in BOOLEAN
      /\ verdict \in [blocked : BOOLEAN, until : Nat] /\ place \in [Events -> Places]
  BY DEF GateInv, BanTypeOK
<1>4. /\ place' \in [Events -> Places]
      /\ \A v \in Events \ {u} : place'[v] = place[v]
      /\ place'[u].at = to /\ place'[u].since = clock
  BY <1>1, <1>3, Fresher DEF Passing
<1>5. to = "rating" /\ blocked => clock < blockedAt + MaxFlight + BanTTL
  <2> SUFFICES ASSUME to = "rating", blocked
               PROVE  clock < blockedAt + MaxFlight + BanTTL
    OBVIOUS
  <2>1. clock < verdict.until /\ verdict.until <= blockedAt + MaxFlight + BanTTL
    BY <1>1, <1>3 DEF Cached, GateInv, Fresh
  <2> QED
    BY <2>1, <1>3, Parameters
<1>6. clock <= clock /\ clock <= clock + MaxFlight
  BY <1>3, Parameters
<1>7. to # "storing"
  OBVIOUS
<1> QED
  BY <1>2, <1>4, <1>5, <1>6, <1>7, PlaceStep

LEMMA ReadRowStep ==
    ASSUME GateInv, NEW u \in Events, ReadRow(u)
    PROVE  GateInv'
<1>1. /\ place \in [Events -> Places] /\ place[u] \in Places /\ place[u].at = "reading"
      /\ blocked \in BOOLEAN
  BY DEF GateInv, BanTypeOK, ReadRow
<1>2. /\ place[u].since <= clock /\ clock <= place[u].since + MaxFlight
      /\ place[u].since <= clock
  BY <1>1 DEF GateInv, InTime, Passing
<1>3. UNCHANGED <<clock, blocked, blockedAt, verdict>>
  BY DEF ReadRow
<1>4. CASE place' = [place EXCEPT ![u].at = "storing", ![u].row = blocked]
  <2>1. /\ place' \in [Events -> Places]
        /\ \A v \in Events \ {u} : place'[v] = place[v]
        /\ place'[u].at = "storing" /\ place'[u].row = blocked
        /\ place'[u].since = place[u].since
    BY <1>1, <1>4 DEF Places, Passing
  <2> QED
    BY <1>2, <1>3, <2>1, PlaceStep
<1>5. CASE place' = [place EXCEPT ![u].at = "rating", ![u].waved = TRUE]
  <2>1. /\ place' \in [Events -> Places]
        /\ \A v \in Events \ {u} : place'[v] = place[v]
        /\ place'[u].at = "rating" /\ place'[u].waved
        /\ place'[u].since = place[u].since
    BY <1>1, <1>5 DEF Places, Passing
  <2> QED
    BY <1>2, <1>3, <2>1, PlaceStep
<1> QED
  BY <1>4, <1>5 DEF ReadRow

LEMMA StoreStep ==
    ASSUME GateInv, NEW u \in Events, Store(u)
    PROVE  GateInv'
<1>1. /\ place \in [Events -> Places] /\ place[u] \in Places /\ place[u].at = "storing"
      /\ blocked \in BOOLEAN /\ clock \in Nat /\ blockedAt \in Nat
  BY DEF GateInv, BanTypeOK, Store
<1>2. /\ place[u].since \in Nat /\ place[u].row \in BOOLEAN
      /\ place[u].since <= clock /\ clock <= place[u].since + MaxFlight
      /\ place[u].row # blocked => place[u].since <= blockedAt
  BY <1>1 DEF GateInv, InTime, Fresh, Passing, Places
<1>3. UNCHANGED <<clock, blocked, blockedAt>>
  BY DEF Store
<1>4. \/ verdict' = verdict
      \/ /\ verdict' \in [blocked : BOOLEAN, until : Nat]
         /\ verdict'.until <= clock + BanTTL
         /\ verdict'.blocked # blocked => verdict'.until <= blockedAt + MaxFlight + BanTTL
  <2>1. CASE verdict' = Stored(place[u].row)
    <3>1. verdict' = [blocked |-> place[u].row, until |-> clock + BanTTL]
      BY <2>1 DEF Stored
    <3> QED
      BY <1>1, <1>2, <3>1, Parameters
  <2> QED
    BY <2>1 DEF Store
<1>5. CASE place[u].row
  <2>1. place' = [place EXCEPT ![u] = [NotThere EXCEPT !.at = "banned"]]
    BY <1>5 DEF Store, End
  <2>2. /\ place' \in [Events -> Places]
        /\ \A v \in Events \ {u} : place'[v] = place[v]
        /\ place'[u].at = "banned"
    BY <1>1, <2>1, Fresher
  <2> QED
    BY <1>3, <1>4, <2>2, PlaceStep DEF Passing
<1>6. CASE ~place[u].row
  <2>1. place' = [place EXCEPT ![u].at = "rating"]
    BY <1>6 DEF Store, GoTo
  <2>2. /\ place' \in [Events -> Places]
        /\ \A v \in Events \ {u} : place'[v] = place[v]
        /\ place'[u].at = "rating" /\ place'[u].since = place[u].since
    BY <1>1, <2>1 DEF Places, Passing
  <2>3. blocked => place[u].since < blockedAt + MaxFlight + BanTTL
    <3> SUFFICES ASSUME blocked
                 PROVE  place[u].since < blockedAt + MaxFlight + BanTTL
      OBVIOUS
    <3>1. place[u].since <= blockedAt
      BY <1>1, <1>2, <1>6
    <3> QED
      BY <1>1, <1>2, <3>1, Parameters
  <2> QED
    BY <1>2, <1>3, <1>4, <2>2, <2>3, PlaceStep
<1> QED
  BY <1>5, <1>6

LEMMA RateStep ==
    ASSUME GateInv, NEW u \in Events, Rate(u)
    PROVE  GateInv'
<1>1. PICK to \in {"served", "limited"} :
        place' = [place EXCEPT ![u] = [NotThere EXCEPT !.at = to]]
  BY DEF Rate, End
<1>2. UNCHANGED <<clock, blocked, blockedAt, verdict>>
  BY DEF Rate
<1>3. place \in [Events -> Places]
  BY DEF GateInv, BanTypeOK
<1>4. /\ place' \in [Events -> Places]
      /\ \A v \in Events \ {u} : place'[v] = place[v]
      /\ place'[u].at = to
  BY <1>1, <1>3, Fresher
<1> QED
  BY <1>2, <1>4, PlaceStep DEF Passing

-----------------------------------------------------------------------------
(* What happens to the row and to the clock                                *)

LEMMA WriteKeeps ==
    ASSUME GateInv, NEW value \in BOOLEAN, Write(value), place' = place
    PROVE  GateInv'
<1>1. /\ blocked' = value /\ clock' = clock /\ verdict' = verdict /\ place' = place
      /\ blockedAt' = IF blocked = value THEN blockedAt ELSE clock
  BY DEF Write
<1>2. BanTypeOK' /\ InTime'
  BY <1>1 DEF GateInv, BanTypeOK, InTime
<1>3. Fresh'
  <2>1. CASE blocked = value
    BY <1>1, <2>1 DEF GateInv, Fresh
  <2>2. CASE blocked # value
    <3>1. blockedAt' = clock /\ clock \in Nat /\ verdict.until \in Nat
      BY <1>1, <2>2 DEF GateInv, BanTypeOK
    <3>2. verdict.until <= clock + MaxFlight + BanTTL
      BY <3>1, Parameters DEF GateInv, InTime
    <3>3. ASSUME NEW u \in Events, place[u].at \in Passing
          PROVE  place[u].since <= clock /\ place[u].since < clock + MaxFlight + BanTTL
      BY <3>1, <3>3, Parameters DEF GateInv, InTime, BanTypeOK, Places
    <3> QED
      BY <1>1, <3>1, <3>2, <3>3 DEF Fresh, Passing
  <2> QED
    BY <2>1, <2>2
<1> QED
  BY <1>2, <1>3 DEF GateInv

LEMMA DeleteAccountStep ==
    ASSUME GateInv, NEW u \in Events, DeleteAccount(u)
    PROVE  GateInv'
<1>1. /\ place' = [place EXCEPT ![u] = [NotThere EXCEPT !.at = "deleted"]]
      /\ blocked' = TRUE /\ clock' = clock /\ verdict' = verdict
      /\ blockedAt' = IF blocked = TRUE THEN blockedAt ELSE clock
  BY DEF DeleteAccount, Write, End
<1>2. place \in [Events -> Places] /\ blocked \in BOOLEAN
  BY DEF GateInv, BanTypeOK
<1>3. /\ place' \in [Events -> Places]
      /\ \A v \in Events \ {u} : place'[v] = place[v]
      /\ place'[u].at = "deleted"
  BY <1>1, <1>2, Fresher
<1>4. BanTypeOK'
  BY <1>1, <1>3 DEF GateInv, BanTypeOK
<1>5. InTime'
  BY <1>1, <1>3 DEF GateInv, InTime, BanTypeOK, Passing
<1>6. Fresh'
  <2>1. CASE blocked
    BY <1>1, <1>3, <2>1 DEF GateInv, Fresh, BanTypeOK
  <2>2. CASE ~blocked
    <3>1. blockedAt' = clock /\ clock \in Nat /\ verdict.until \in Nat
      BY <1>1, <2>2 DEF GateInv, BanTypeOK
    <3>2. verdict.until <= clock + MaxFlight + BanTTL
      BY <3>1, Parameters DEF GateInv, InTime
    <3>3. ASSUME NEW v \in Events, place[v].at \in Passing
          PROVE  place[v].since <= clock /\ place[v].since < clock + MaxFlight + BanTTL
      BY <3>1, <3>3, Parameters DEF GateInv, InTime, BanTypeOK, Places
    <3> QED
      BY <1>1, <1>3, <3>1, <3>2, <3>3 DEF Fresh, Passing
  <2> QED
    BY <2>1, <2>2
<1> QED
  BY <1>4, <1>5, <1>6 DEF GateInv

LEMMA TickStep ==
    ASSUME GateInv, Tick
    PROVE  GateInv'
<1>1. /\ clock' = clock + 1 /\ UNCHANGED <<blocked, blockedAt, verdict, place>>
      /\ \A u \in Events : place[u].at \in Passing => clock - place[u].since < MaxFlight
  BY DEF Tick
<1>2. clock \in Nat /\ blockedAt \in Nat /\ verdict.until \in Nat
  BY DEF GateInv, BanTypeOK
<1>3. ASSUME NEW u \in Events, place[u].at \in Passing
      PROVE  place[u].since <= clock + 1 /\ clock + 1 <= place[u].since + MaxFlight
  BY <1>1, <1>2, <1>3, Parameters DEF GateInv, InTime, BanTypeOK, Places
<1> QED
  BY <1>1, <1>2, <1>3, Parameters DEF GateInv, BanTypeOK, InTime, Fresh

LEMMA GateSteps == GateInv /\ [GateNext]_gateVars => GateInv'
<1> SUFFICES ASSUME GateInv, [GateNext]_gateVars
             PROVE  GateInv'
  OBVIOUS
<1>1. CASE UNCHANGED gateVars
  BY <1>1 DEF gateVars, GateInv, BanTypeOK, InTime, Fresh
<1>2. CASE AdminBlocks \/ AdminUnblocks \/ SendForbidden
  BY <1>2, WriteKeeps DEF AdminBlocks, AdminUnblocks, SendForbidden
<1>3. CASE GateNext
  BY <1>2, <1>3, TickStep, CheckBanStep, ReadRowStep, StoreStep, RateStep, DeleteAccountStep
     DEF GateNext
<1> QED
  BY <1>1, <1>3

-----------------------------------------------------------------------------

\* Who is served, or refused as banned, against the row had a verdict that is
\* younger than Memory.
LEMMA Timely ==
    ASSUME GateInv, GateNext, NEW u \in Events,
           \/ Reaches(u, "served") /\ blocked /\ ~place[u].waved
           \/ Reaches(u, "banned") /\ ~blocked
    PROVE  clock - blockedAt < Memory
<1>1. /\ clock \in Nat /\ blockedAt \in Nat /\ blocked \in BOOLEAN
      /\ verdict \in [blocked : BOOLEAN, until : Nat]
      /\ \A v \in Events : place[v] \in Places
  BY DEF GateInv, BanTypeOK
<1>2. CASE Reaches(u, "served") /\ blocked /\ ~place[u].waved
  <2>1. place[u].at = "rating"
    <3>1. ASSUME NEW v \in Events, v # u,
                 CheckBan(v) \/ ReadRow(v) \/ Store(v) \/ Rate(v) \/ DeleteAccount(v)
          PROVE  FALSE
      BY <1>2, <3>1 DEF CheckBan, ReadRow, Store, Rate, DeleteAccount, End, GoTo, Reaches,
                        GateInv, BanTypeOK
    <3>2. ~(Tick \/ AdminBlocks \/ AdminUnblocks \/ SendForbidden)
      BY <1>2 DEF Tick, AdminBlocks, AdminUnblocks, SendForbidden, Reaches
    <3>3. ~CheckBan(u)
      BY <1>2 DEF CheckBan, Reaches, NotThere, GateInv, BanTypeOK
    <3>4. place \in [Events -> Places]
      BY DEF GateInv, BanTypeOK
    <3>5. ~ReadRow(u)
      BY <1>2, <3>4 DEF ReadRow, Reaches, Places
    <3>6. ~DeleteAccount(u)
      BY <1>2 DEF DeleteAccount, Reaches
    <3>7. ~Store(u)
      <4>1. ASSUME Store(u), place[u].row
            PROVE  place'[u].at = "banned"
        BY <3>4, <4>1, Fresher DEF Store, End
      <4>2. ASSUME Store(u), ~place[u].row
            PROVE  place'[u].at = "rating"
        BY <3>4, <4>2 DEF Store, GoTo, Places
      <4> QED
        BY <1>2, <4>1, <4>2 DEF Reaches
    <3> QED
      BY <3>1, <3>2, <3>3, <3>5, <3>6, <3>7 DEF GateNext, Rate
  <2>2. /\ place[u].since \in Nat /\ clock <= place[u].since + MaxFlight
        /\ place[u].since < blockedAt + MaxFlight + BanTTL
    BY <1>1, <1>2, <2>1 DEF GateInv, InTime, Fresh, Passing, Places
  <2> QED
    BY <1>1, <2>2, Parameters DEF Memory
<1>3. CASE Reaches(u, "banned") /\ ~blocked
  <2>1. CheckBan(u) \/ Store(u)
    <3>1. ASSUME NEW v \in Events, v # u,
                 CheckBan(v) \/ ReadRow(v) \/ Store(v) \/ Rate(v) \/ DeleteAccount(v)
          PROVE  FALSE
      BY <1>3, <3>1 DEF CheckBan, ReadRow, Store, Rate, DeleteAccount, End, GoTo, Reaches,
                        GateInv, BanTypeOK
    <3>2. ~(Tick \/ AdminBlocks \/ AdminUnblocks \/ SendForbidden)
      BY <1>3 DEF Tick, AdminBlocks, AdminUnblocks, SendForbidden, Reaches
    <3>3. ~ReadRow(u)
      BY <1>3 DEF ReadRow, Reaches, GateInv, BanTypeOK, Places
    <3>4. ~(Rate(u) \/ DeleteAccount(u))
      BY <1>3 DEF Rate, DeleteAccount, End, Reaches, NotThere, GateInv, BanTypeOK
    <3> QED
      BY <3>1, <3>2, <3>3, <3>4 DEF GateNext
  <2>2. CASE CheckBan(u)
    <3>1. Cached /\ verdict.blocked
      BY <1>3, <2>2 DEF CheckBan, Reaches, NotThere, GateInv, BanTypeOK
    <3>2. clock < verdict.until /\ verdict.until <= blockedAt + MaxFlight + BanTTL
      BY <1>1, <1>3, <3>1 DEF Cached, GateInv, Fresh
    <3> QED
      BY <1>1, <3>2, Parameters DEF Memory
  <2>3. CASE Store(u)
    <3>1. place[u].at = "storing" /\ place[u].row
      <4>1. place \in [Events -> Places]
        BY DEF GateInv, BanTypeOK
      <4>2. ~place[u].row => place'[u].at = "rating"
        BY <4>1, <2>3 DEF Store, GoTo, Places
      <4> QED
        BY <1>3, <2>3, <4>2 DEF Store, Reaches
    <3>2. /\ place[u].since \in Nat /\ place[u].since <= blockedAt
          /\ clock <= place[u].since + MaxFlight
      BY <1>1, <1>3, <3>1 DEF GateInv, InTime, Fresh, Passing, Places
    <3> QED
      BY <1>1, <3>2, Parameters DEF Memory
  <2> QED
    BY <2>1, <2>2, <2>3
<1> QED
  BY <1>2, <1>3

\* Once is_blocked has been the same for BanTTL and two passages of the
\* middlewares, no update of a blocked customer is served, and no update of
\* another is refused as banned, unless the database failed the check.
THEOREM BansTakeHold == GateSpec => BlocksTakeHold
<1>1. GateInv /\ [GateNext]_gateVars =>
        [\A u \in Events :
            ( \/ Reaches(u, "served") /\ blocked /\ ~place[u].waved
              \/ Reaches(u, "banned") /\ ~blocked )
            => clock - blockedAt < Memory]_gateVars
  BY Timely
<1> QED
  BY <1>1, GateBegins, GateSteps, PTL DEF GateSpec, BlocksTakeHold

-----------------------------------------------------------------------------
(* The rate limit                                                          *)

\* A counter outlives every update that it has counted, so that it knows of all
\* updates of the window that ends now.
Counter ==
    /\ {blocks, failures} \subseteq Nat
    /\ rateCount \in [hits : Nat, until : Nat]
    /\ countedAt \in [Events -> Nat]
    /\ \A u \in Events :
        /\ countedAt[u] <= clock
        /\ countedAt[u] # 0 => countedAt[u] + RateWindow <= rateCount.until
    /\ Cardinality(InWindow) <= Hits

RateInv == Counter /\ RateHolds

LEMMA Windows ==
    ASSUME NEW S \in SUBSET Events
    PROVE  /\ IsFiniteSet(S) /\ Cardinality(S) \in Nat
           /\ \A T \in SUBSET S : Cardinality(T) \in Nat /\ Cardinality(T) <= Cardinality(S)
           /\ \A u \in Events : Cardinality(S \cup {u}) <= Cardinality(S) + 1
<1>1. IsFiniteSet(S)
  BY GateAssumption, FS_Subset
<1>2. ASSUME NEW T \in SUBSET S
      PROVE  Cardinality(T) \in Nat /\ Cardinality(T) <= Cardinality(S)
  BY <1>1, FS_Subset, FS_CardinalityType
<1>3. ASSUME NEW u \in Events
      PROVE  Cardinality(S \cup {u}) <= Cardinality(S) + 1
  <2>1. /\ Cardinality(S) \in Nat
        /\ u \in S => S \cup {u} = S
        /\ u \notin S => Cardinality(S \cup {u}) = Cardinality(S) + 1
    BY <1>1, FS_AddElement, FS_CardinalityType
  <2>2. CASE u \in S
    <3>1. Cardinality(S \cup {u}) = Cardinality(S)
      BY <2>1, <2>2
    <3> QED
      BY <2>1, <3>1
  <2>3. CASE u \notin S
    BY <2>1, <2>3
  <2> QED
    BY <2>2, <2>3
<1> QED
  BY <1>1, <1>2, <1>3, FS_CardinalityType

\* What the invariant is about stays as it is when nobody is counted.
LEMMA NotCounted ==
    ASSUME RateInv, {blocks', failures'} \subseteq Nat,
           UNCHANGED <<clock, rateCount, countedAt>>
    PROVE  RateInv'
  BY DEF RateInv, Counter, RateHolds, InWindow, Hits

LEMMA RateBegins == GateInit => RateInv
<1> SUFFICES ASSUME GateInit
             PROVE  RateInv
  OBVIOUS
<1>1. /\ clock = 1 /\ blocks = 0 /\ failures = 0
      /\ rateCount = [hits |-> 0, until |-> 0]
      /\ countedAt = [u \in Events |-> 0]
  BY DEF GateInit, NoCounter
<1>2. InWindow = {}
  BY <1>1 DEF InWindow
<1>3. Hits = 0 /\ RateMax \in Nat
  BY <1>1, GateAssumption DEF Hits
<1> QED
  BY <1>1, <1>2, <1>3, FS_EmptySet DEF RateInv, Counter, RateHolds

\* An update is counted, and served when the counter allows it.
LEMMA CountedStep ==
    ASSUME GateInv, RateInv, NEW u \in Events, Rate(u)
    PROVE  RateInv'
<1>1. /\ clock \in Nat /\ clock' = clock /\ blocks' = blocks
      /\ RateWindow \in Nat /\ RateWindow > 0 /\ RateMax \in Nat /\ MaxFailures \in Nat
  BY GateAssumption DEF GateInv, BanTypeOK, Rate
<1>2. /\ blocks \in Nat /\ failures \in Nat /\ failures' \in Nat
  BY DEF Rate, Works, Fails, RateInv, Counter
<1>3. /\ rateCount \in [hits : Nat, until : Nat] /\ countedAt \in [Events -> Nat]
      /\ Hits \in Nat /\ Cardinality(InWindow) <= Hits /\ Cardinality(InWindow) <= RateMax
  BY DEF RateInv, Counter, Hits, RateHolds
<1>4. /\ Count \in [hits : Nat, until : Nat]
      /\ Count.hits = Hits + 1 /\ Count.until = clock + RateWindow
  BY <1>1, <1>3 DEF Count
<1>5. CASE rateCount' = Count
            /\ countedAt' = IF Count.hits <= RateMax THEN [countedAt EXCEPT ![u] = clock]
                                                     ELSE countedAt
  <2>1. /\ countedAt' \in [Events -> Nat]
        /\ \A v \in Events : countedAt'[v] = countedAt[v] \/ (v = u /\ countedAt'[v] = clock)
    BY <1>1, <1>3, <1>5
  <2>2. \A v \in Events : /\ countedAt'[v] <= clock
                          /\ countedAt'[v] # 0 => countedAt'[v] + RateWindow <= rateCount'.until
    BY <1>1, <1>3, <1>4, <1>5, <2>1 DEF RateInv, Counter
  <2>3. InWindow' \subseteq InWindow \cup {u} /\ InWindow \in SUBSET Events
    BY <1>1, <2>1 DEF InWindow
  <2>4. Cardinality(InWindow') <= Cardinality(InWindow) + 1 /\ Cardinality(InWindow') \in Nat
    <3>1. InWindow \cup {u} \in SUBSET Events
      BY <2>3
    <3>2. /\ Cardinality(InWindow') \in Nat /\ Cardinality(InWindow \cup {u}) \in Nat
          /\ Cardinality(InWindow') <= Cardinality(InWindow \cup {u})
      BY <2>3, <3>1, Windows
    <3>3. Cardinality(InWindow \cup {u}) <= Cardinality(InWindow) + 1
          /\ Cardinality(InWindow) \in Nat
      BY <2>3, Windows
    <3> QED
      BY <3>2, <3>3
  <2>5. Cardinality(InWindow) \in Nat
    BY <2>3, Windows
  <2>6. Hits' = Hits + 1
    BY <1>1, <1>4, <1>5 DEF Hits
  <2>7. Cardinality(InWindow') <= RateMax
    <3>1. CASE Count.hits <= RateMax
      BY <1>1, <1>3, <1>4, <2>4, <2>5, <3>1
    <3>2. CASE ~(Count.hits <= RateMax)
      <4>1. InWindow' = InWindow
        BY <1>1, <1>5, <3>2 DEF InWindow
      <4> QED
        BY <1>3, <4>1
    <3> QED
      BY <3>1, <3>2
  <2> QED
    BY <1>1, <1>2, <1>3, <1>4, <1>5, <2>1, <2>2, <2>4, <2>5, <2>6, <2>7
       DEF RateInv, Counter, RateHolds
<1>6. CASE rateCount' = Count /\ countedAt' = countedAt
  <2>1. InWindow' = InWindow /\ Cardinality(InWindow) \in Nat
    BY <1>1, <1>6, Windows DEF InWindow
  <2>2. Hits' = Hits + 1
    BY <1>1, <1>4, <1>6 DEF Hits
  <2>3. \A v \in Events : /\ countedAt[v] <= clock
                          /\ countedAt[v] # 0 => countedAt[v] + RateWindow <= rateCount'.until
    BY <1>1, <1>3, <1>4, <1>6 DEF RateInv, Counter
  <2> QED
    BY <1>1, <1>2, <1>3, <1>4, <1>6, <2>1, <2>2, <2>3 DEF RateInv, Counter, RateHolds
<1>7. CASE rateCount' = rateCount /\ countedAt' = countedAt
  BY <1>1, <1>2, <1>7, NotCounted
<1> QED
  BY <1>5, <1>6, <1>7 DEF Rate

\* When the counter expires, the window is empty.
LEMMA WindowStep ==
    ASSUME GateInv, RateInv, Tick
    PROVE  RateInv'
<1>1. /\ clock \in Nat /\ clock' = clock + 1
      /\ UNCHANGED <<blocks, failures, rateCount, countedAt>>
      /\ RateWindow \in Nat /\ RateMax \in Nat
  BY GateAssumption DEF GateInv, BanTypeOK, Tick
<1>2. /\ rateCount.until \in Nat /\ rateCount.hits \in Nat /\ Hits \in Nat
      /\ countedAt \in [Events -> Nat]
      /\ \A u \in Events : /\ countedAt[u] <= clock
                           /\ countedAt[u] # 0 => countedAt[u] + RateWindow <= rateCount.until
      /\ Cardinality(InWindow) <= Hits /\ Cardinality(InWindow) <= RateMax
  BY DEF RateInv, Counter, Hits, RateHolds
<1>3. InWindow' \subseteq InWindow /\ InWindow \in SUBSET Events
  BY <1>1, <1>2 DEF InWindow
<1>4. /\ Cardinality(InWindow) \in Nat /\ Cardinality(InWindow') \in Nat
      /\ Cardinality(InWindow') <= Cardinality(InWindow)
  BY <1>3, Windows
<1>5. Cardinality(InWindow') <= Hits'
  <2>1. CASE clock' < rateCount.until
    <3>1. Hits' = Hits
      BY <1>1, <1>2, <2>1 DEF Hits
    <3> QED
      BY <1>2, <1>4, <3>1
  <2>2. CASE ~(clock' < rateCount.until)
    <3>1. InWindow' = {}
      BY <1>1, <1>2, <2>2 DEF InWindow
    <3>2. Hits' = 0
      BY <1>1, <2>2 DEF Hits
    <3> QED
      BY <3>1, <3>2, FS_EmptySet
  <2> QED
    BY <2>1, <2>2
<1>6. \A u \in Events : countedAt[u] <= clock + 1
  BY <1>1, <1>2
<1> QED
  BY <1>1, <1>2, <1>4, <1>5, <1>6 DEF RateInv, Counter, RateHolds

LEMMA RateSteps == GateInv /\ RateInv /\ [GateNext]_gateVars => RateInv'
<1> SUFFICES ASSUME GateInv, RateInv, [GateNext]_gateVars
             PROVE  RateInv'
  OBVIOUS
<1>1. blocks \in Nat /\ failures \in Nat
  BY DEF RateInv, Counter
<1>2. CASE UNCHANGED gateVars
  BY <1>1, <1>2, NotCounted DEF gateVars
<1>3. ASSUME AdminBlocks \/ AdminUnblocks \/ SendForbidden
      PROVE  RateInv'
  BY <1>1, <1>3, NotCounted DEF AdminBlocks, AdminUnblocks, SendForbidden, Write
<1>4. ASSUME NEW u \in Events, CheckBan(u) \/ ReadRow(u) \/ Store(u) \/ DeleteAccount(u)
      PROVE  RateInv'
  BY <1>1, <1>4, NotCounted DEF CheckBan, ReadRow, Store, DeleteAccount, Write, Works, Fails
<1>5. CASE GateNext
  BY <1>3, <1>4, <1>5, CountedStep, WindowStep DEF GateNext
<1> QED
  BY <1>2, <1>5

\* Of the updates that Redis counted, no more than RateMax are served in any
\* window, for every limit, every window and any number of updates, whatever
\* answers of Redis are lost.
THEOREM RateLimitHolds == GateSpec => []RateHolds
<1>1. GateInv /\ RateInv => RateHolds
  BY DEF RateInv
<1> QED
  BY <1>1, GateBegins, GateSteps, RateBegins, RateSteps, PTL DEF GateSpec

\* What the middlewares keep has its type.
THEOREM GateTypeCorrect == GateSpec => []GateTypeOK
<1>1. GateInv /\ RateInv => GateTypeOK
  BY DEF GateInv, BanTypeOK, Places, RateInv, Counter, GateTypeOK
<1> QED
  BY <1>1, GateBegins, GateSteps, RateBegins, RateSteps, PTL DEF GateSpec

-----------------------------------------------------------------------------
(* Dispatch: what a choice is still good for                               *)

\* A key that no filter has read serves one message; once it is read, every
\* filter that has read it and has yet to delete it may serve one.
Promised(d) ==
    IF Dropping(d) = {} THEN IF d \in waiting THEN 1 ELSE 0 ELSE Cardinality(Dropping(d))

Paid(d) == served[d] + Promised(d) <= choices[d] + doubled[d]

DispatchInv == DispatchTypeOK /\ \A d \in Modes : Paid(d)

LEMMA FilterTable ==
    /\ Len(Filters) = 6 /\ AfterFilters = 7 /\ Ended = 8
    /\ \A i \in 1..6 : Filters[i].mode \in Modes /\ NextFilter(i) \in 1..7
<1>1. /\ Filters[1].mode = "docgen" /\ Filters[2].mode = "tts" /\ Filters[3].mode = "music"
      /\ Filters[4].mode = "transcribe" /\ Filters[5].mode = "transcribe"
      /\ Filters[6].mode = "transcribe" /\ Len(Filters) = 6
  BY DEF Filters
<1>2. \A i \in 1..6 : i = 1 \/ i = 2 \/ i = 3 \/ i = 4 \/ i = 5 \/ i = 6
  OBVIOUS
<1>3. \A i \in 1..6 : Filters[i].mode \in Modes
  BY <1>1, <1>2 DEF Modes
<1>4. ASSUME NEW i \in 1..6
      PROVE  NextFilter(i) \in 1..7
  <2>1. Filters[i].mode = "tts" => i = 2
    BY <1>1, <1>2
  <2> QED
    BY <2>1 DEF NextFilter
<1> QED
  BY <1>1, <1>3, <1>4 DEF AfterFilters, Ended

LEMMA Droppings ==
    ASSUME NEW d
    PROVE  IsFiniteSet(Dropping(d)) /\ Cardinality(Dropping(d)) \in Nat
<1>1. Dropping(d) \in SUBSET Messages
  BY DEF Dropping
<1> QED
  BY <1>1, DispatchAssumption, FS_Subset, FS_CardinalityType

LEMMA PromisedType ==
    ASSUME NEW d
    PROVE  Promised(d) \in Nat
  BY Droppings DEF Promised

\* No filter has the key in hand before and after, and no more keys wait.
LEMMA SameDropping ==
    ASSUME DispatchInv, DispatchTypeOK',
           \A d \in Modes :
              /\ Dropping(d)' = Dropping(d)
              /\ d \in waiting' /\ d \notin waiting => choices'[d] = choices[d] + 1
              /\ choices'[d] = choices[d] \/ choices'[d] = choices[d] + 1
              /\ served'[d] = served[d] /\ doubled'[d] = doubled[d]
    PROVE  DispatchInv'
<1> SUFFICES ASSUME NEW d \in Modes
             PROVE  Paid(d)'
  BY DEF DispatchInv
<1>1. /\ served[d] \in Nat /\ choices[d] \in Nat /\ doubled[d] \in Nat
      /\ served[d] + Promised(d) <= choices[d] + doubled[d]
  BY DEF DispatchInv, DispatchTypeOK, Paid
<1>2. Promised(d) \in Nat
  BY PromisedType
<1>3. \/ Promised(d)' <= Promised(d) /\ Promised(d)' \in Nat
      \/ Promised(d)' = Promised(d) + 1 /\ choices'[d] = choices[d] + 1
  BY Droppings DEF Promised
<1> QED
  BY <1>1, <1>2, <1>3 DEF Paid

LEMMA DispatchBegins == DispatchInit => DispatchInv
<1> SUFFICES ASSUME DispatchInit
             PROVE  DispatchInv
  OBVIOUS
<1>1. DispatchTypeOK
  <2>1. 0 \in 0..Ended
    BY FilterTable
  <2> QED
    BY <2>1 DEF DispatchInit, DispatchTypeOK
<1>2. ASSUME NEW d \in Modes
      PROVE  Paid(d)
  <2>1. Dropping(d) = {}
    BY DEF DispatchInit, Dropping
  <2> QED
    BY <2>1 DEF DispatchInit, Paid, Promised
<1> QED
  BY <1>1, <1>2 DEF DispatchInv

LEMMA ChooseStep ==
    ASSUME DispatchInv, NEW d \in Modes, Choose(d)
    PROVE  DispatchInv'
<1>1. /\ waiting' = waiting \cup {d}
      /\ choices' = [choices EXCEPT ![d] = @ + 1]
      /\ UNCHANGED <<prompting, msgKind, at, dropping, by, servedBy, served, doubled>>
  BY DEF Choose
<1>2. /\ choices \in [Modes -> Nat] /\ waiting \in SUBSET Modes
  BY DEF DispatchInv, DispatchTypeOK
<1>3. /\ choices' \in [Modes -> Nat] /\ choices'[d] = choices[d] + 1
      /\ \A e \in Modes \ {d} : choices'[e] = choices[e]
      /\ waiting' \in SUBSET Modes
  BY <1>1, <1>2
<1>4. DispatchTypeOK'
  BY <1>1, <1>3 DEF DispatchInv, DispatchTypeOK, AtFilter
<1>5. \A e \in Modes : Dropping(e)' = Dropping(e)
  BY <1>1 DEF Dropping, Mode
<1> QED
  BY <1>1, <1>3, <1>4, <1>5, SameDropping

\* The message moves on; no key is read and none deleted.
LEMMA MovesOn ==
    ASSUME DispatchInv, NEW m \in Messages, ~dropping[m], NEW i \in 1..8,
           at' = [at EXCEPT ![m] = i],
           waiting' \in SUBSET waiting, prompting' \in BOOLEAN,
           UNCHANGED <<choices, msgKind, dropping, servedBy, served, doubled>>
    PROVE  DispatchInv'
<1>1. /\ at \in [Messages -> 0..Ended] /\ dropping \in [Messages -> BOOLEAN]
      /\ waiting \in SUBSET Modes
      /\ \A n \in Messages : dropping[n] => AtFilter(n)
  BY DEF DispatchInv, DispatchTypeOK
<1>2. at' \in [Messages -> 0..Ended] /\ \A n \in Messages \ {m} : at'[n] = at[n]
  BY <1>1, FilterTable
<1>3. \A n \in Messages : dropping'[n] => AtFilter(n)'
  BY <1>1, <1>2 DEF AtFilter
<1>4. DispatchTypeOK'
  BY <1>1, <1>2, <1>3 DEF DispatchInv, DispatchTypeOK
<1>5. \A e \in Modes : Dropping(e)' = Dropping(e)
  BY <1>2 DEF Dropping, Mode
<1> QED
  BY <1>1, <1>4, <1>5, SameDropping

LEMMA QuietMessages ==
    ASSUME DispatchInv, NEW m \in Messages,
           \/ ArriveEarly(m) \/ ArrivePrompt(m) \/ ArriveLate(m)
           \/ FilterFails(m) \/ LastRouter(m)
    PROVE  DispatchInv'
<1>1. /\ at \in [Messages -> 0..Ended] /\ prompting \in BOOLEAN
      /\ dropping \in [Messages -> BOOLEAN]
      /\ dropping[m] => at[m] \in 1..6
  BY FilterTable DEF DispatchInv, DispatchTypeOK, AtFilter
<1>2. ~dropping[m]
  BY <1>1, FilterTable DEF ArriveEarly, ArrivePrompt, ArriveLate, FilterFails, LastRouter
<1>3. PICK i \in 1..8 : at' = [at EXCEPT ![m] = i]
  <2>1. CASE FilterFails(m)
    <3>1. at[m] \in 1..6 /\ at' = [at EXCEPT ![m] = NextFilter(at[m])]
      BY <1>1, <2>1, FilterTable DEF FilterFails, AtFilter
    <3>2. NextFilter(at[m]) \in 1..8
      BY <3>1, FilterTable
    <3> QED
      BY <3>1, <3>2
  <2>2. CASE ArriveLate(m)
    BY <2>2 DEF ArriveLate
  <2>3. CASE ArriveEarly(m) \/ ArrivePrompt(m) \/ LastRouter(m)
    BY <2>3, FilterTable DEF ArriveEarly, ArrivePrompt, LastRouter, Taken
  <2> QED
    BY <2>1, <2>2, <2>3
<1>4. /\ waiting' = waiting /\ prompting' \in BOOLEAN
      /\ UNCHANGED <<choices, msgKind, dropping, servedBy, served, doubled>>
  BY <1>1 DEF ArriveEarly, ArrivePrompt, ArriveLate, FilterFails, LastRouter
<1> QED
  BY <1>2, <1>3, <1>4, MovesOn

\* The first filter to read a key has it from the choice, each other one from
\* the filters that have it in hand.
LEMMA ReadsStep ==
    ASSUME DispatchInv, NEW m \in Messages, FilterReads(m),
           NEW d \in Modes, Mode(m) = d
    PROVE  DispatchInv'
<1>1. /\ at \in [Messages -> 0..Ended] /\ dropping \in [Messages -> BOOLEAN]
      /\ doubled \in [Modes -> Nat] /\ served \in [Modes -> Nat] /\ choices \in [Modes -> Nat]
      /\ \A n \in Messages : dropping[n] => AtFilter(n)
      /\ prompting \in BOOLEAN
  BY DEF DispatchInv, DispatchTypeOK
<1>2. at[m] \in 1..6 /\ ~dropping[m]
  BY FilterTable DEF FilterReads, AtFilter, Mode
<1>3. CASE d \in waiting
  <2>1. /\ dropping' = [dropping EXCEPT ![m] = TRUE]
        /\ doubled' = [doubled EXCEPT ![d] = @ + Cardinality(Dropping(d))]
        /\ UNCHANGED <<waiting, prompting, choices, msgKind, at, by, servedBy, served>>
    BY <1>3 DEF FilterReads
  <2>2. Cardinality(Dropping(d)) \in Nat /\ IsFiniteSet(Dropping(d))
    BY Droppings
  <2>3. /\ dropping' \in [Messages -> BOOLEAN] /\ dropping'[m]
        /\ \A n \in Messages \ {m} : dropping'[n] = dropping[n]
    BY <1>1, <2>1
  <2>4. /\ doubled' \in [Modes -> Nat]
        /\ doubled'[d] = doubled[d] + Cardinality(Dropping(d))
        /\ \A e \in Modes \ {d} : doubled'[e] = doubled[e]
    BY <1>1, <1>2, <2>1, <2>2
  <2>5. DispatchTypeOK'
    <3>1. \A n \in Messages : dropping'[n] => AtFilter(n)'
      BY <1>1, <2>1, <2>3 DEF AtFilter, FilterReads
    <3> QED
      BY <2>1, <2>3, <2>4, <3>1 DEF DispatchInv, DispatchTypeOK
  <2>6. /\ Dropping(d)' = Dropping(d) \cup {m} /\ m \notin Dropping(d)
        /\ \A e \in Modes \ {d} : Dropping(e)' = Dropping(e)
    BY <1>2, <2>1, <2>3 DEF Dropping, Mode
  <2>7. Paid(d)'
    <3>1. Cardinality(Dropping(d)') = Cardinality(Dropping(d)) + 1 /\ Dropping(d)' # {}
      BY <2>2, <2>6, FS_AddElement
    <3>2. Promised(d)' = Cardinality(Dropping(d)) + 1
      BY <3>1 DEF Promised
    <3>3. served[d] + Promised(d) <= choices[d] + doubled[d]
      BY <1>2 DEF DispatchInv, Paid
    <3>4. CASE Dropping(d) = {}
      <4>1. Promised(d) = 1 /\ Cardinality(Dropping(d)) = 0
        BY <1>3, <3>4, FS_EmptySet DEF Promised
      <4> QED
        BY <1>1, <1>2, <2>1, <2>4, <3>2, <3>3, <4>1 DEF Paid
    <3>5. CASE Dropping(d) # {}
      <4>1. Promised(d) = Cardinality(Dropping(d)) /\ Cardinality(Dropping(d)) >= 1
        BY <2>2, <3>5, FS_EmptySet DEF Promised
      <4> QED
        BY <1>1, <1>2, <2>1, <2>2, <2>4, <3>2, <3>3, <4>1 DEF Paid
    <3> QED
      BY <3>4, <3>5
  <2>8. ASSUME NEW e \in Modes, e # d
        PROVE  Paid(e)'
    BY <2>1, <2>4, <2>6, <2>8 DEF DispatchInv, Paid, Promised
  <2> QED
    BY <2>5, <2>7, <2>8 DEF DispatchInv
<1>4. CASE d \notin waiting
  <2>1. at' = [at EXCEPT ![m] = at[m] + 1] /\ at[m] + 1 \in 1..8
    BY <1>1, <1>2, <1>4 DEF FilterReads
  <2>2. UNCHANGED <<waiting, prompting, choices, msgKind, dropping, servedBy, served, doubled>>
    BY <1>4 DEF FilterReads
  <2> QED
    BY <1>1, <1>2, <2>1, <2>2, MovesOn
<1> QED
  BY <1>3, <1>4

\* The filter that deletes the key has one less in hand, and may have served it.
LEMMA DropsStep ==
    ASSUME DispatchInv, NEW m \in Messages, FilterDrops(m),
           NEW d \in Modes, Mode(m) = d
    PROVE  DispatchInv'
<1>1. /\ at \in [Messages -> 0..Ended] /\ dropping \in [Messages -> BOOLEAN]
      /\ doubled \in [Modes -> Nat] /\ served \in [Modes -> Nat] /\ choices \in [Modes -> Nat]
      /\ servedBy \in [Messages -> Modes \cup {"none"}]
      /\ \A n \in Messages : dropping[n] => AtFilter(n)
      /\ prompting \in BOOLEAN /\ waiting \in SUBSET Modes
  BY DEF DispatchInv, DispatchTypeOK
<1>2. at[m] \in 1..6 /\ dropping[m]
  BY FilterTable DEF FilterDrops, AtFilter, Mode
<1>3. /\ waiting' = waiting \ {d}
      /\ dropping' = [dropping EXCEPT ![m] = FALSE]
      /\ UNCHANGED <<prompting, choices, msgKind, doubled>>
  BY DEF FilterDrops, Deletes
<1>4. PICK i \in 1..8 : at' = [at EXCEPT ![m] = i]
  <2>1. NextFilter(at[m]) \in 1..8
    BY <1>2, FilterTable
  <2>2. \/ at' = [at EXCEPT ![m] = NextFilter(at[m])]
        \/ at' = [at EXCEPT ![m] = Ended]
    BY <1>1 DEF FilterDrops, Taken
  <2> QED
    BY <2>1, <2>2, FilterTable
<1>5. /\ servedBy' \in [Messages -> Modes \cup {"none"}] /\ served' \in [Modes -> Nat]
      /\ served'[d] <= served[d] + 1
      /\ \A e \in Modes \ {d} : served'[e] = served[e]
  <2>1. CASE UNCHANGED <<servedBy, served>>
    BY <1>1, <1>2, <2>1
  <2>2. CASE /\ servedBy' = [servedBy EXCEPT ![m] = d]
             /\ served' = [served EXCEPT ![d] = @ + 1]
    BY <1>1, <1>2, <2>2
  <2> QED
    BY <2>1, <2>2 DEF FilterDrops
<1>6. /\ dropping' \in [Messages -> BOOLEAN] /\ ~dropping'[m]
      /\ at' \in [Messages -> 0..Ended]
      /\ \A n \in Messages \ {m} : dropping'[n] = dropping[n] /\ at'[n] = at[n]
  BY <1>1, <1>3, <1>4, FilterTable
<1>7. DispatchTypeOK'
  <2>1. \A n \in Messages : dropping'[n] => AtFilter(n)'
    BY <1>1, <1>6 DEF AtFilter
  <2> QED
    BY <1>1, <1>3, <1>5, <1>6, <2>1 DEF DispatchInv, DispatchTypeOK
<1>8. /\ Dropping(d)' = Dropping(d) \ {m} /\ m \in Dropping(d)
      /\ \A e \in Modes \ {d} : Dropping(e)' = Dropping(e)
  BY <1>2, <1>6 DEF Dropping, Mode
<1>9. Paid(d)'
  <2>1. IsFiniteSet(Dropping(d)) /\ Cardinality(Dropping(d)) \in Nat
    BY Droppings
  <2>2. Cardinality(Dropping(d)') = Cardinality(Dropping(d)) - 1
    BY <1>8, <2>1, FS_RemoveElement
  <2>3. Promised(d) = Cardinality(Dropping(d))
    BY <1>8 DEF Promised
  <2>4. Promised(d)' = Cardinality(Dropping(d)')
    BY <1>3, FS_EmptySet DEF Promised
  <2>5. served[d] + Promised(d) <= choices[d] + doubled[d]
    BY <1>2 DEF DispatchInv, Paid
  <2>6. /\ served[d] \in Nat /\ served'[d] \in Nat /\ choices[d] \in Nat /\ doubled[d] \in Nat
    BY <1>1, <1>2, <1>5
  <2> QED
    BY <1>3, <1>5, <2>1, <2>2, <2>3, <2>4, <2>5, <2>6 DEF Paid
<1>10. ASSUME NEW e \in Modes, e # d
       PROVE  Paid(e)'
  BY <1>3, <1>5, <1>8, <1>10 DEF DispatchInv, Paid, Promised
<1> QED
  BY <1>7, <1>9, <1>10 DEF DispatchInv

LEMMA DispatchSteps == DispatchInv /\ [DispatchNext]_dispatchVars => DispatchInv'
<1> SUFFICES ASSUME DispatchInv, [DispatchNext]_dispatchVars
             PROVE  DispatchInv'
  OBVIOUS
<1>1. CASE UNCHANGED dispatchVars
  BY <1>1 DEF dispatchVars, DispatchInv, DispatchTypeOK, AtFilter, Paid, Promised, Dropping, Mode
<1>2. CASE cb_docgen_fmt \/ cb_audio_setvoice \/ cb_audio_music \/ cb_tr_mode
  BY <1>2, ChooseStep DEF cb_docgen_fmt, cb_audio_setvoice, cb_audio_music, cb_tr_mode, Modes
<1>3. ASSUME EditPrompt \/ \E d \in Modes : ModeExpires(d)
      PROVE  DispatchInv'
  <2>1. /\ waiting' \in SUBSET waiting /\ prompting' \in BOOLEAN
        /\ UNCHANGED <<choices, msgKind, at, dropping, by, servedBy, served, doubled>>
    BY <1>3 DEF EditPrompt, ModeExpires, DispatchInv, DispatchTypeOK
  <2>2. DispatchTypeOK'
    BY <2>1 DEF DispatchInv, DispatchTypeOK, AtFilter
  <2>3. \A e \in Modes : Dropping(e)' = Dropping(e)
    BY <2>1 DEF Dropping, Mode
  <2> QED
    BY <2>1, <2>2, <2>3, SameDropping
<1>4. ASSUME NEW m \in Messages, FilterReads(m) \/ FilterDrops(m)
      PROVE  DispatchInv'
  <2>1. Mode(m) \in Modes
    BY <1>4, FilterTable DEF FilterReads, FilterDrops, AtFilter, Mode
  <2> QED
    BY <1>4, <2>1, ReadsStep, DropsStep
<1>5. CASE DispatchNext
  BY <1>2, <1>3, <1>4, <1>5, QuietMessages DEF DispatchNext
<1> QED
  BY <1>1, <1>5

\* A choice in a menu serves one message, whatever messages arrive together:
\* a second one needs a filter that reads the key while another has it in hand.
THEOREM ChoicesServeOne == DispatchSpec => []ChoiceServesOne
<1>1. DispatchInv => ChoiceServesOne
  <2> SUFFICES ASSUME DispatchInv, NEW d \in Modes
               PROVE  served[d] <= choices[d] + doubled[d]
    BY DEF ChoiceServesOne
  <2>1. served[d] \in Nat /\ choices[d] \in Nat /\ doubled[d] \in Nat /\ Promised(d) \in Nat
    BY PromisedType DEF DispatchInv, DispatchTypeOK
  <2> QED
    BY <2>1 DEF DispatchInv, Paid
<1> QED
  BY <1>1, DispatchBegins, DispatchSteps, PTL DEF DispatchSpec

\* The keys, the messages and what they were counted as keep their types.
THEOREM DispatchTypeCorrect == DispatchSpec => []DispatchTypeOK
<1>1. DispatchInv => DispatchTypeOK
  BY DEF DispatchInv
<1> QED
  BY <1>1, DispatchBegins, DispatchSteps, PTL DEF DispatchSpec

-----------------------------------------------------------------------------
(* All of an update's way                                                  *)

\* While one module moves, the others stay where they are.
LEMMA OneMoves ==
    ASSUME [MCNext]_requestsVars
    PROVE  /\ [GenNext]_genVars /\ [PolicyNext]_policyVars
           /\ [GateNext]_gateVars /\ [DispatchNext]_dispatchVars
<1>1. CASE UNCHANGED requestsVars
  BY <1>1 DEF requestsVars
<1>2. CASE MCNext
  BY <1>2 DEF MCNext, Moves
<1> QED
  BY <1>1, <1>2

RequestsInv == GenTypeOK /\ PolicyInv /\ GateInv /\ RateInv /\ DispatchInv

\* The variables of the middlewares, the dispatching, the policy and the
\* handlers keep their types.
THEOREM RequestsTypeCorrect == MCSpec => []RequestsTypeOK
<1>1. MCInit => RequestsInv
  BY TypesBegin, PolicyBegins, GateBegins, RateBegins, DispatchBegins DEF MCInit, RequestsInv
<1>2. RequestsInv /\ [MCNext]_requestsVars => RequestsInv'
  BY OneMoves, TypesStep, PolicySteps, GateSteps, RateSteps, DispatchSteps DEF RequestsInv
<1>3. RequestsInv => RequestsTypeOK
  BY DEF RequestsInv, RequestsTypeOK, PolicyInv, GateInv, BanTypeOK, Places, RateInv, Counter,
         GateTypeOK, DispatchInv
<1> QED
  BY <1>1, <1>2, <1>3, PTL DEF MCSpec

\* Each module moves in the whole as it moves alone.
LEMMA Parts == MCSpec => GenSpec /\ PolicySpec /\ GateSpec /\ DispatchSpec
<1>1. MCInit => GenInit /\ PolicyInit /\ GateInit /\ DispatchInit
  BY DEF MCInit
<1>2. [MCNext]_requestsVars =>
        /\ [GenNext]_genVars /\ [PolicyNext]_policyVars
        /\ [GateNext]_gateVars /\ [DispatchNext]_dispatchVars
  BY OneMoves
<1> QED
  BY <1>1, <1>2, PTL DEF MCSpec, GenSpec, PolicySpec, GateSpec, DispatchSpec

\* What is proved of a module holds of all the way of an update: bans, rates, menus,
\* caps, the lock, charges and refunds.
THEOREM RequestsSafe ==
    MCSpec => /\ []RateHolds /\ []ChoiceServesOne
              /\ []CapUnlessRaced /\ []CounterExact /\ []CountedOrCharged
              /\ []Exclusion /\ []ChargedDelivered /\ []NothingMinted
              /\ []HeavyOnce /\ []TakenOnce /\ []RetryAllowed
              /\ BlocksTakeHold
<1>1. GateSpec => []RateHolds /\ BlocksTakeHold
  BY RateLimitHolds, BansTakeHold
<1>2. DispatchSpec => []ChoiceServesOne
  BY ChoicesServeOne
<1>3. PolicySpec => []CapUnlessRaced /\ []CounterExact /\ []CountedOrCharged
  BY CapHolds, CounterIsExact, FreeIsCounted
<1>4. GenSpec => []Exclusion /\ []ChargedDelivered /\ []NothingMinted
  BY LockExcludes, PaidIsServed, RefundsAreCovered
<1>5. GenSpec => []HeavyOnce /\ []TakenOnce /\ []RetryAllowed
  BY HeavyIsPaidOnce, TakenIsPaidOnce, FailedCanBeRepeated
<1> QED
  BY <1>1, <1>2, <1>3, <1>4, <1>5, Parts

=============================================================================
