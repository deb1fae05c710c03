---------------------------- MODULE ProvidersProof ----------------------------
(***************************************************************************)
(* Proofs about what becomes of the work given to the providers: the       *)
(* copies of an order of a video (VideoQueue), the breaker (Breaker) and   *)
(* one call (Providers), for every number of orders, copies, requests and  *)
(* polls, and every threshold, window and cooldown of the breaker.         *)
(***************************************************************************)
EXTENDS VideoQueue, Breaker, Providers, TLAPS, FiniteSetTheorems, SequenceTheorems

-----------------------------------------------------------------------------
(* VideoQueue: what becomes of the copies of an order                      *)

Tasks(q, o) == {i \in DOMAIN q : q[i] = o}
Queued(o) == Tasks(queue, o)
InHand(o) == IF working = o THEN 1 ELSE 0
Inline(o) == IF botStage[o] = "inline" THEN 1 ELSE 0

\* Before its push an order has no copy, afterwards each of its copies is still
\* to come or has had its outcome.
Account(o) ==
    /\ botStage[o] = "spent" => copies[o] = 0
    /\ sent[o] + rolled[o] + Open(o) <= copies[o] /\ given[o] <= rolled[o]
    /\ botStage[o] # "spent" /\ o \notin lost \cup swallowed /\ payer[o] = "paid"
          => sent[o] + given[o] + Open(o) = copies[o] /\ copies[o] > 0

VideoInv == VideoTypeOK /\ \A o \in Orders : Account(o)

LEMMA TasksCounted ==
    ASSUME NEW q \in Seq(Orders), NEW o
    PROVE  IsFiniteSet(Tasks(q, o)) /\ Cardinality(Tasks(q, o)) \in Nat
<1>1. Len(q) \in Nat /\ DOMAIN q = 1..Len(q)
  OBVIOUS
<1>2. IsFiniteSet(1..Len(q))
  BY <1>1, FS_Interval
<1>3. Tasks(q, o) \in SUBSET (1..Len(q))
  BY <1>1 DEF Tasks
<1> QED
  BY <1>2, <1>3, FS_Subset, FS_CardinalityType

\* Open is a number, now and after a step.
LEMMA Opens ==
    ASSUME NEW o
    PROVE  /\ VideoTypeOK => Open(o) \in Nat /\ Cardinality(Queued(o)) \in Nat
           /\ VideoTypeOK' => Open(o)' \in Nat /\ Cardinality(Queued(o)') \in Nat
           /\ Open(o) = Cardinality(Queued(o)) + InHand(o) + Inline(o)
           /\ Open(o)' = Cardinality(Queued(o)') + InHand(o)' + Inline(o)'
           /\ {InHand(o), Inline(o), InHand(o)', Inline(o)'} \subseteq {0, 1}
<1>1. ASSUME VideoTypeOK
      PROVE  Cardinality(Queued(o)) \in Nat
  <2>1. queue \in Seq(Orders)
    BY <1>1 DEF VideoTypeOK
  <2> QED
    BY <2>1, TasksCounted DEF Queued
<1>2. ASSUME VideoTypeOK'
      PROVE  Cardinality(Queued(o)') \in Nat
  <2>1. queue' \in Seq(Orders)
    BY <1>2 DEF VideoTypeOK
  <2> QED
    BY <2>1, TasksCounted DEF Queued
<1>3. /\ Open(o) = Cardinality(Queued(o)) + InHand(o) + Inline(o)
      /\ Open(o)' = Cardinality(Queued(o)') + InHand(o)' + Inline(o)'
  BY DEF Open, Queued, Tasks, InHand, Inline
<1>4. {InHand(o), Inline(o), InHand(o)', Inline(o)'} \subseteq {0, 1}
  BY DEF InHand, Inline
<1> QED
  BY <1>1, <1>2, <1>3, <1>4

\* BLPOP takes one of the tasks of the order at the head.
LEMMA Popped ==
    ASSUME NEW q \in Seq(Orders), q # <<>>, NEW o
    PROVE  /\ Head(q) = o => Cardinality(Tasks(Tail(q), o)) = Cardinality(Tasks(q, o)) - 1
           /\ Head(q) # o => Cardinality(Tasks(Tail(q), o)) = Cardinality(Tasks(q, o))
<1> DEFINE S == Tasks(q, o)
           T == Tasks(Tail(q), o)
<1>1. /\ Len(q) \in Nat /\ Len(q) > 0 /\ Tail(q) \in Seq(Orders)
      /\ DOMAIN q = 1..Len(q) /\ DOMAIN Tail(q) = 1..(Len(q) - 1)
      /\ \A i \in 1..(Len(q) - 1) : Tail(q)[i] = q[i + 1]
      /\ Head(q) = q[1]
  BY SMT
<1>2. /\ S \in SUBSET (1..Len(q)) /\ T \in SUBSET (1..(Len(q) - 1))
      /\ \A i \in 1..Len(q) : i \in S <=> q[i] = o
      /\ \A i \in 1..(Len(q) - 1) : i \in T <=> q[i + 1] = o
  BY <1>1 DEF Tasks
<1>3. IsFiniteSet(S) /\ IsFiniteSet(T) /\ Cardinality(S) \in Nat /\ Cardinality(T) \in Nat
  BY <1>1, TasksCounted
<1>4. 1 \in S <=> Head(q) = o
  BY <1>1, <1>2
<1> HIDE DEF S, T
<1> DEFINE f == [i \in T |-> i + 1]
<1>5. f \in Bijection(T, S \ {1})
  <2>1. f \in [T -> S \ {1}]
    BY <1>1, <1>2
  <2>2. \A i, j \in T : f[i] = f[j] => i = j
    BY <1>2
  <2>3. ASSUME NEW s \in S \ {1}
        PROVE  \E i \in T : f[i] = s
    <3>1. s \in 2..Len(q) /\ s - 1 \in 1..(Len(q) - 1)
      BY <1>1, <1>2
    <3>2. s - 1 \in T
      BY <1>1, <1>2, <3>1
    <3>3. f[s - 1] = s
      BY <3>1, <3>2
    <3> QED
      BY <3>2, <3>3
  <2> QED
    BY <2>1, <2>2, <2>3 DEF Bijection, Injection, Surjection, IsInjective
<1>6. Cardinality(S \ {1}) = Cardinality(T)
  BY <1>3, <1>5, FS_Bijection DEF ExistsBijection
<1>7. /\ 1 \in S => Cardinality(S \ {1}) = Cardinality(S) - 1
      /\ 1 \notin S => Cardinality(S \ {1}) = Cardinality(S)
  BY <1>3, FS_RemoveElement
<1>8. /\ Head(q) = o => Cardinality(T) = Cardinality(S) - 1
      /\ Head(q) # o => Cardinality(T) = Cardinality(S)
  BY <1>4, <1>6, <1>7
<1> QED
  BY <1>8 DEF S, T

\* A push adds n tasks of its order and none of another.
LEMMA Pushed ==
    ASSUME NEW q \in Seq(Orders), NEW o \in Orders, NEW n \in Nat,
           NEW r \in Seq(Orders), r = q \o [i \in 1..n |-> o]
    PROVE  /\ Tasks(q, o) = {} => Cardinality(Tasks(r, o)) = n
           /\ \A p : p # o => Tasks(r, p) = Tasks(q, p)
<1> DEFINE t == [i \in 1..n |-> o]
<1>1. t \in Seq(Orders) /\ Len(t) = n
  BY SMT
<1>2. /\ Len(q) \in Nat /\ DOMAIN q = 1..Len(q)
      /\ Len(r) = Len(q) + n /\ DOMAIN r = 1..(Len(q) + n)
      /\ \A i \in 1..Len(q) : r[i] = q[i]
      /\ \A i \in (Len(q) + 1)..(Len(q) + n) : r[i] = o
  <2>1. /\ Len(q) \in Nat /\ DOMAIN q = 1..Len(q)
        /\ Len(r) = Len(q) + n /\ DOMAIN r = 1..(Len(q) + n)
    BY <1>1
  <2>2. \A i \in 1..(Len(q) + n) : r[i] = IF i <= Len(q) THEN q[i] ELSE t[i - Len(q)]
    BY <1>1, <2>1
  <2> QED
    BY <2>1, <2>2
<1>3. ASSUME Tasks(q, o) = {}
      PROVE  Cardinality(Tasks(r, o)) = n
  <2>1. Tasks(r, o) = (Len(q) + 1)..(Len(q) + n)
    BY <1>2, <1>3 DEF Tasks
  <2>2. Cardinality((Len(q) + 1)..(Len(q) + n)) = n
    BY <1>2, FS_Interval
  <2> QED
    BY <2>1, <2>2
<1>4. ASSUME NEW p, p # o
      PROVE  Tasks(r, p) = Tasks(q, p)
  BY <1>2, <1>4 DEF Tasks
<1> QED
  BY <1>2, <1>3, <1>4

\* What keeps the account of an order whose push is over, or that is untouched.
LEMMA Settles ==
    ASSUME VideoInv, VideoTypeOK', NEW o \in Orders,
           copies'[o] = copies[o], payer'[o] = payer[o],
           botStage'[o] = "spent" => botStage[o] = "spent",
           sent'[o] + rolled'[o] + Open(o)' <= sent[o] + rolled[o] + Open(o),
           given'[o] <= rolled'[o],
           botStage'[o] # "spent" /\ o \notin lost' \cup swallowed' /\ payer[o] = "paid"
              => /\ botStage[o] # "spent" /\ o \notin lost \cup swallowed
                 /\ sent'[o] + given'[o] + Open(o)' = sent[o] + given[o] + Open(o)
    PROVE  Account(o)'
<1>1. Open(o) \in Nat /\ Open(o)' \in Nat
  BY Opens DEF VideoInv
<1>2. sent[o] \in Nat /\ rolled[o] \in Nat /\ given[o] \in Nat /\ copies[o] \in Nat
  BY DEF VideoInv, VideoTypeOK
<1>3. sent'[o] \in Nat /\ rolled'[o] \in Nat /\ given'[o] \in Nat
  BY DEF VideoTypeOK
<1>4. Account(o)
  BY DEF VideoInv
<1> QED
  BY <1>1, <1>2, <1>3, <1>4 DEF Account

LEMMA VideoBegins == VideoInit => VideoInv
<1> SUFFICES ASSUME VideoInit
             PROVE  VideoInv
  OBVIOUS
<1>1. VideoTypeOK
  BY VideoAssumption DEF VideoInit, VideoTypeOK
<1>2. ASSUME NEW o \in Orders
      PROVE  Account(o)
  <2>1. Queued(o) = {} /\ working # o
    BY VideoAssumption DEF VideoInit, Queued, Tasks
  <2>2. Open(o) = 0
    <3>1. Cardinality(Queued(o)) = 0 /\ InHand(o) = 0 /\ Inline(o) = 0
      BY <2>1, FS_EmptySet DEF VideoInit, InHand, Inline
    <3> QED
      BY <3>1, Opens
  <2> QED
    BY <2>2 DEF VideoInit, Account
<1> QED
  BY <1>1, <1>2 DEF VideoInv

\* The bot leaves between zero and MaxCopies tasks, and one video to make itself
\* when it was not answered.
LEMMA PushStep ==
    ASSUME VideoInv, NEW o \in Orders, Push(o)
    PROVE  VideoInv'
<1>1. PICK n \in 0..MaxCopies, answered \in BOOLEAN :
        /\ answered => n > 0
        /\ queue' = queue \o [i \in 1..n |-> o]
        /\ copies' = [copies EXCEPT ![o] = n + IF InlineAfter(answered) THEN 1 ELSE 0]
        /\ botStage' = [botStage EXCEPT ![o] = IF InlineAfter(answered) THEN "inline" ELSE "end"]
  BY DEF Push
<1>2. /\ botStage[o] = "spent"
      /\ UNCHANGED <<payer, working, workStage, sent, rolled, given, swallowed, lost>>
  BY DEF Push, outcomes
<1>3. /\ VideoTypeOK /\ queue \in Seq(Orders) /\ copies \in [Orders -> Nat]
      /\ botStage \in [Orders -> {"spent", "inline", "end"}]
      /\ sent \in [Orders -> Nat] /\ rolled \in [Orders -> Nat] /\ given \in [Orders -> Nat]
  BY DEF VideoInv, VideoTypeOK
<1> DEFINE inline == IF InlineAfter(answered) THEN 1 ELSE 0
<1>4. /\ n \in Nat /\ inline \in Nat /\ n + inline > 0 /\ n + inline \in Nat
      /\ inline = 1 <=> InlineAfter(answered)
  BY <1>1, VideoAssumption DEF InlineAfter
<1>5. /\ queue' \in Seq(Orders)
      /\ \A p \in Orders \ {o} : Queued(p)' = Queued(p)
      /\ Queued(o) = {} => Cardinality(Queued(o)') = n
  <2>1. queue' = queue \o [i \in 1..n |-> o] /\ queue \in Seq(Orders) /\ n \in Nat
    BY <1>1, <1>3, <1>4
  <2>2. [i \in 1..n |-> o] \in Seq(Orders)
    BY <2>1
  <2>3. queue' \in Seq(Orders)
    BY <2>1, <2>2
  <2>4. /\ Tasks(queue, o) = {} => Cardinality(Tasks(queue', o)) = n
        /\ \A p : p # o => Tasks(queue', p) = Tasks(queue, p)
    BY <2>1, <2>3, Pushed
  <2> QED
    BY <2>3, <2>4 DEF Queued
<1>6. /\ copies' \in [Orders -> Nat] /\ copies'[o] = n + inline
      /\ \A p \in Orders \ {o} : copies'[p] = copies[p]
  BY <1>1, <1>3, <1>4
<1>7. /\ botStage' \in [Orders -> {"spent", "inline", "end"}]
      /\ botStage'[o] = IF InlineAfter(answered) THEN "inline" ELSE "end"
      /\ \A p \in Orders \ {o} : botStage'[p] = botStage[p]
  BY <1>1, <1>3
<1>8. VideoTypeOK'
  BY <1>2, <1>3, <1>5, <1>6, <1>7 DEF VideoTypeOK
<1>9. /\ sent[o] = 0 /\ rolled[o] = 0 /\ given[o] = 0 /\ Open(o) = 0
      /\ Queued(o) = {} /\ working # o
  <2>1. /\ sent[o] + rolled[o] + Open(o) <= 0 /\ given[o] <= rolled[o]
        /\ sent[o] \in Nat /\ rolled[o] \in Nat /\ given[o] \in Nat /\ Open(o) \in Nat
    BY <1>2, <1>3, Opens DEF VideoInv, Account
  <2>2. sent[o] = 0 /\ rolled[o] = 0 /\ given[o] = 0 /\ Open(o) = 0
    BY <2>1
  <2>3. Cardinality(Queued(o)) = 0 /\ InHand(o) = 0
    <3>1. /\ Cardinality(Queued(o)) \in Nat /\ InHand(o) \in {0, 1} /\ Inline(o) \in {0, 1}
          /\ Cardinality(Queued(o)) + InHand(o) + Inline(o) = 0
      BY <1>3, <2>2, Opens
    <3> QED
      BY <3>1
  <2>4. IsFiniteSet(Queued(o))
    BY <1>3, TasksCounted DEF Queued
  <2> QED
    BY <2>2, <2>3, <2>4, FS_EmptySet DEF InHand
<1>10. Open(o)' = n + inline
  <2>1. InHand(o)' = 0 /\ Inline(o)' = inline
    BY <1>2, <1>7, <1>9 DEF InHand, Inline
  <2>2. Cardinality(Queued(o)') = n
    BY <1>5, <1>9
  <2> QED
    BY <1>4, <2>1, <2>2, Opens
<1>11. Account(o)'
  <2>1. /\ sent'[o] = 0 /\ rolled'[o] = 0 /\ given'[o] = 0
        /\ botStage'[o] # "spent" /\ payer'[o] = payer[o]
    BY <1>2, <1>7, <1>9
  <2> QED
    BY <1>4, <1>6, <1>10, <2>1 DEF Account
<1>12. ASSUME NEW p \in Orders, p # o
       PROVE  Account(p)'
  <2>1. Open(p)' = Open(p)
    <3>1. Queued(p)' = Queued(p) /\ InHand(p)' = InHand(p) /\ Inline(p)' = Inline(p)
      BY <1>2, <1>5, <1>7, <1>12 DEF InHand, Inline
    <3> QED
      BY <3>1, Opens
  <2> QED
    BY <1>2, <1>6, <1>7, <1>12, <2>1 DEF VideoInv, Account
<1> QED
  BY <1>8, <1>11, <1>12 DEF VideoInv

\* The bot makes the video itself, and it arrives, does not, or is paid back.
LEMMA InlineSteps ==
    ASSUME VideoInv, NEW o \in Orders, InlineMade(o) \/ InlineFailed(o)
    PROVE  VideoInv'
<1>1. /\ botStage[o] = "inline" /\ botStage' = [botStage EXCEPT ![o] = "end"]
      /\ UNCHANGED <<payer, queue, working, workStage, copies, lost>>
  BY DEF InlineMade, InlineFailed
<1>2. /\ VideoTypeOK /\ botStage \in [Orders -> {"spent", "inline", "end"}]
      /\ sent \in [Orders -> Nat] /\ rolled \in [Orders -> Nat] /\ given \in [Orders -> Nat]
      /\ swallowed \in SUBSET Orders
  BY DEF VideoInv, VideoTypeOK
<1>3. /\ sent' \in [Orders -> Nat] /\ rolled' \in [Orders -> Nat] /\ given' \in [Orders -> Nat]
      /\ swallowed' \in SUBSET Orders /\ swallowed \subseteq swallowed'
      /\ \A p \in Orders \ {o} :
            sent'[p] = sent[p] /\ rolled'[p] = rolled[p] /\ given'[p] = given[p]
      /\ \/ /\ sent'[o] = sent[o] + 1 /\ rolled'[o] = rolled[o] /\ given'[o] = given[o]
         \/ /\ sent'[o] = sent[o] /\ rolled'[o] = rolled[o] /\ given'[o] = given[o]
            /\ o \in swallowed' \/ payer[o] # "paid"
         \/ /\ sent'[o] = sent[o] /\ rolled'[o] = rolled[o] + 1 /\ given'[o] = given[o] + 1
  BY <1>2 DEF InlineMade, InlineFailed, AddTo
<1>4. /\ botStage' \in [Orders -> {"spent", "inline", "end"}] /\ botStage'[o] = "end"
      /\ \A p \in Orders \ {o} : botStage'[p] = botStage[p]
  BY <1>1, <1>2
<1>5. VideoTypeOK'
  BY <1>1, <1>2, <1>3, <1>4 DEF VideoTypeOK
<1>6. \A p \in Orders : Queued(p)' = Queued(p)
  BY <1>1 DEF Queued
<1>7. Account(o)'
  <2>1. Open(o)' = Open(o) - 1 /\ Open(o) \in Nat
    <3>1. /\ Queued(o)' = Queued(o) /\ InHand(o)' = InHand(o)
          /\ Inline(o) = 1 /\ Inline(o)' = 0
      BY <1>1, <1>4, <1>6 DEF InHand, Inline
    <3>2. Cardinality(Queued(o)) \in Nat /\ InHand(o) \in {0, 1}
      BY <1>2, Opens
    <3> QED
      BY <1>2, <3>1, <3>2, Opens
  <2>2. given[o] <= rolled[o]
    BY DEF VideoInv, Account
  <2> QED
    BY <1>1, <1>2, <1>3, <1>4, <1>5, <2>1, <2>2, Settles
<1>8. ASSUME NEW p \in Orders, p # o
      PROVE  Account(p)'
  <2>1. Open(p)' = Open(p)
    <3>1. Queued(p)' = Queued(p) /\ InHand(p)' = InHand(p) /\ Inline(p)' = Inline(p)
      BY <1>1, <1>4, <1>6, <1>8 DEF InHand, Inline
    <3> QED
      BY <3>1, Opens
  <2> QED
    BY <1>1, <1>3, <1>4, <1>8, <2>1 DEF VideoInv, Account
<1> QED
  BY <1>5, <1>7, <1>8 DEF VideoInv

\* The orders the bot was busy with are lost.
LEMMA RestartStep ==
    ASSUME VideoInv, BotRestarts
    PROVE  VideoInv'
<1>1. /\ lost' = lost \cup {o \in Orders : botStage[o] # "end"}
      /\ botStage' = [o \in Orders |-> "end"]
      /\ UNCHANGED <<payer, queue, working, workStage, copies, sent, rolled, given, swallowed>>
  BY DEF BotRestarts
<1>2. VideoTypeOK /\ VideoTypeOK'
  BY <1>1 DEF VideoInv, VideoTypeOK
<1>3. ASSUME NEW o \in Orders
      PROVE  Account(o)'
  <2>1. Queued(o)' = Queued(o)
    BY <1>1 DEF Queued
  <2>2. /\ Open(o)' <= Open(o)
        /\ botStage[o] # "inline" => Open(o)' = Open(o)
        /\ Open(o) \in Nat /\ Open(o)' \in Nat
    <3>1. /\ InHand(o)' = InHand(o) /\ Inline(o)' = 0
          /\ botStage[o] # "inline" => Inline(o) = 0
      BY <1>1 DEF InHand, Inline
    <3>2. /\ Cardinality(Queued(o)) \in Nat /\ InHand(o) \in {0, 1} /\ Inline(o) \in {0, 1}
          /\ Open(o) = Cardinality(Queued(o)) + InHand(o) + Inline(o)
          /\ Open(o)' = Cardinality(Queued(o)) + InHand(o) + 0
      BY <1>2, <2>1, <3>1, Opens
    <3> QED
      BY <3>1, <3>2
  <2>3. /\ given[o] <= rolled[o] /\ {sent[o], rolled[o], given[o]} \subseteq Nat
    BY <1>2 DEF VideoInv, Account, VideoTypeOK
  <2> QED
    BY <1>1, <1>2, <2>2, <2>3, Settles
<1> QED
  BY <1>2, <1>3 DEF VideoInv

\* A task that is popped is still to come: the worker has it.
LEMMA PopStep ==
    ASSUME VideoInv, Pop
    PROVE  VideoInv'
<1>1. /\ working = NoOrder /\ queue # <<>>
      /\ working' = Head(queue) /\ queue' = Tail(queue) /\ workStage' = "make"
      /\ UNCHANGED <<payer, botStage, copies, sent, rolled, given, swallowed, lost>>
  BY DEF Pop, outcomes
<1>2. VideoTypeOK /\ queue \in Seq(Orders)
  BY DEF VideoInv, VideoTypeOK
<1>3. Head(queue) \in Orders /\ Tail(queue) \in Seq(Orders)
  BY <1>1, <1>2
<1>4. VideoTypeOK'
  BY <1>1, <1>2, <1>3, VideoAssumption DEF VideoTypeOK
<1>5. ASSUME NEW o \in Orders
      PROVE  Account(o)'
  <2>1. /\ Head(queue) = o => Cardinality(Queued(o)') = Cardinality(Queued(o)) - 1
        /\ Head(queue) # o => Cardinality(Queued(o)') = Cardinality(Queued(o))
    BY <1>1, <1>2, Popped DEF Queued
  <2>2. Open(o)' = Open(o)
    <3>1. InHand(o) = 0 /\ Inline(o)' = Inline(o)
      BY <1>1, VideoAssumption DEF InHand, Inline
    <3>2. InHand(o)' = IF Head(queue) = o THEN 1 ELSE 0
      BY <1>1 DEF InHand
    <3>3. Cardinality(Queued(o)') + InHand(o)' = Cardinality(Queued(o)) + InHand(o)
      BY <1>2, <2>1, <3>1, <3>2, Opens
    <3> QED
      BY <3>1, <3>3, Opens
  <2> QED
    BY <1>1, <2>2 DEF VideoInv, Account
<1> QED
  BY <1>4, <1>5 DEF VideoInv

LEMMA MakeStep ==
    ASSUME VideoInv, Make
    PROVE  VideoInv'
<1>1. /\ workStage = "make" /\ workStage' \in {"deliver", "refund"}
      /\ UNCHANGED <<payer, botStage, queue, working, copies, sent, rolled, given, swallowed,
                     lost>>
  BY DEF Make, outcomes
<1> QED
  BY <1>1 DEF VideoInv, VideoTypeOK, Account, Open

\* The worker is done with its copy: delivered, paid back, or nobody knows.
LEMMA WorkerSteps ==
    ASSUME VideoInv, DeliverVideo \/ RefundVideo \/ WorkerDies
    PROVE  VideoInv'
<1>1. PICK o \in Orders : o = working
  BY DEF VideoInv, VideoTypeOK, DeliverVideo, RefundVideo, WorkerDies
<1>2. /\ working' = NoOrder /\ workStage' = "idle"
      /\ UNCHANGED <<payer, botStage, queue, copies>>
  BY DEF DeliverVideo, RefundVideo, WorkerDies, Finish
<1>3. /\ VideoTypeOK
      /\ sent \in [Orders -> Nat] /\ rolled \in [Orders -> Nat] /\ given \in [Orders -> Nat]
      /\ swallowed \in SUBSET Orders /\ lost \in SUBSET Orders
  BY DEF VideoInv, VideoTypeOK
<1>4. /\ sent' \in [Orders -> Nat] /\ rolled' \in [Orders -> Nat] /\ given' \in [Orders -> Nat]
      /\ swallowed' \in SUBSET Orders /\ lost' \in SUBSET Orders
      /\ swallowed \subseteq swallowed' /\ lost \subseteq lost'
      /\ \A p \in Orders \ {o} :
            sent'[p] = sent[p] /\ rolled'[p] = rolled[p] /\ given'[p] = given[p]
      /\ \/ /\ sent'[o] = sent[o] + 1 /\ rolled'[o] = rolled[o] /\ given'[o] = given[o]
         \/ /\ sent'[o] = sent[o] /\ given'[o] = given[o] /\ o \in lost' \cup swallowed'
            /\ rolled'[o] = rolled[o] \/ rolled'[o] = rolled[o] + 1
         \/ /\ sent'[o] = sent[o] /\ rolled'[o] = rolled[o] + 1
            /\ given'[o] = IF payer[o] # "free" THEN given[o] + 1 ELSE given[o]
  <2>1. CASE DeliverVideo
    BY <1>1, <1>3, <2>1 DEF DeliverVideo, AddTo
  <2>2. CASE RefundVideo
    BY <1>1, <1>3, <2>2 DEF RefundVideo, AddTo
  <2>3. CASE WorkerDies
    BY <1>1, <1>3, <2>3 DEF WorkerDies
  <2> QED
    BY <2>1, <2>2, <2>3
<1>5. VideoTypeOK'
  BY <1>2, <1>3, <1>4 DEF VideoTypeOK
<1>6. \A p \in Orders : Queued(p)' = Queued(p)
  BY <1>2 DEF Queued
<1>7. Account(o)'
  <2>1. Open(o)' = Open(o) - 1 /\ Open(o) \in Nat /\ Open(o) >= 1
    <3>1. InHand(o) = 1 /\ InHand(o)' = 0 /\ Inline(o)' = Inline(o)
      BY <1>1, <1>2, VideoAssumption DEF InHand, Inline
    <3>2. Cardinality(Queued(o)) \in Nat /\ Inline(o) \in {0, 1}
      BY <1>3, Opens
    <3> QED
      BY <1>3, <1>6, <3>1, <3>2, Opens
  <2>2. given[o] <= rolled[o]
    BY DEF VideoInv, Account
  <2>3. botStage[o] # "spent"
    <3>1. botStage[o] = "spent" => sent[o] + rolled[o] + Open(o) <= 0
      BY DEF VideoInv, Account
    <3> QED
      BY <1>3, <2>1, <3>1
  <2>4. {sent[o], rolled[o], given[o]} \subseteq Nat
    BY <1>3
  <2>5. /\ sent'[o] + rolled'[o] + Open(o)' <= sent[o] + rolled[o] + Open(o)
        /\ given'[o] <= rolled'[o]
        /\ o \notin lost' \cup swallowed' /\ payer[o] = "paid" =>
              /\ o \notin lost \cup swallowed
              /\ sent'[o] + given'[o] + Open(o)' = sent[o] + given[o] + Open(o)
    BY <1>4, <2>1, <2>2, <2>4
  <2> QED
    BY <1>2, <1>5, <2>3, <2>5, Settles
<1>8. ASSUME NEW p \in Orders, p # o
      PROVE  Account(p)'
  <2>1. Open(p)' = Open(p)
    <3>1. Queued(p)' = Queued(p) /\ InHand(p)' = InHand(p) /\ Inline(p)' = Inline(p)
      BY <1>1, <1>2, <1>6, <1>8, VideoAssumption DEF InHand, Inline
    <3> QED
      BY <3>1, Opens
  <2>2. lost \subseteq lost' /\ swallowed \subseteq swallowed'
    BY <1>4
  <2> QED
    BY <1>2, <1>4, <1>8, <2>1, <2>2 DEF VideoInv, Account
<1> QED
  BY <1>5, <1>7, <1>8 DEF VideoInv

LEMMA VideoSteps == VideoInv /\ [VideoNext]_videoVars => VideoInv'
<1> SUFFICES ASSUME VideoInv, [VideoNext]_videoVars
             PROVE  VideoInv'
  OBVIOUS
<1>1. CASE UNCHANGED videoVars
  BY <1>1 DEF videoVars, VideoInv, VideoTypeOK, Account, Open
<1>2. CASE VideoNext
  BY <1>2, PushStep, InlineSteps, RestartStep, PopStep, MakeStep, WorkerSteps DEF VideoNext
<1> QED
  BY <1>1, <1>2

\* A copy of an order ends as one video or as one refund, never as both, however
\* many copies the pushes leave and whenever the bot or the worker dies.
THEOREM CopiesEndOnce == VideoSpec => []OneOutcomePerCopy
<1>1. VideoInv => OneOutcomePerCopy
  BY DEF VideoInv, Account, OneOutcomePerCopy
<1> QED
  BY <1>1, VideoBegins, VideoSteps, PTL DEF VideoSpec

\* An order whose copies are all dealt with was delivered or paid back, unless a
\* process died with it or a failure went unseen.
THEOREM NothingLostSilently == VideoSpec => []NoSilentLoss
<1>1. VideoInv => NoSilentLoss
  <2> SUFFICES ASSUME VideoInv, NEW o \in Orders, botStage[o] = "end", Open(o) = 0,
                      o \notin lost \cup swallowed, payer[o] = "paid"
               PROVE  sent[o] + given[o] = copies[o] /\ copies[o] > 0
    BY DEF NoSilentLoss
  <2>1. sent[o] \in Nat /\ given[o] \in Nat /\ copies[o] \in Nat
    BY DEF VideoInv, VideoTypeOK
  <2> QED
    BY <2>1 DEF VideoInv, Account
<1> QED
  BY <1>1, VideoBegins, VideoSteps, PTL DEF VideoSpec
-----------------------------------------------------------------------------
(* Breaker: the failures it keeps are those of the outage that goes on     *)

\* Answers come in the order of time.
InOrder ==
    /\ \A i \in DOMAIN answers : answers[i].at <= clock
    /\ \A i, j \in DOMAIN answers : i <= j => answers[i].at <= answers[j].at

Failure(i) == [at |-> answers[i].at, no |-> i]

KeepsOutage == failures = {Failure(i) : i \in Outage(Len(answers))}

Completes(i) == Cardinality(Outage(i)) >= Threshold

\* The breaker is open for an outage, and for the last one.
OpenFor ==
    /\ openUntil # 0 => \E i \in DOMAIN answers :
                            Completes(i) /\ openUntil = answers[i].at + Cooldown
    /\ \A i \in DOMAIN answers : Completes(i) =>
            answers[i].at + Cooldown <= clock \/ answers[i].at + Cooldown <= openUntil

BreakerInv == BreakerTypeOK /\ InOrder /\ KeepsOutage /\ OpenFor

LEMMA BreakerTimes ==
    /\ Threshold \in Nat /\ Window \in Nat /\ Cooldown \in Nat
    /\ Threshold > 0 /\ Window > 0 /\ Cooldown > 0
  BY BreakerAssumption

LEMMA AnswersTyped ==
    ASSUME BreakerTypeOK
    PROVE  /\ Len(answers) \in Nat /\ DOMAIN answers = 1..Len(answers)
           /\ \A i \in DOMAIN answers : answers[i].at \in Nat /\ answers[i].ok \in BOOLEAN
<1>1. answers \in Seq([at : Nat, ok : BOOLEAN])
  BY DEF BreakerTypeOK
<1>2. \A i \in 1..Len(answers) : answers[i] \in [at : Nat, ok : BOOLEAN]
  BY <1>1, ElementOfSeq
<1>3. Len(answers) \in Nat /\ DOMAIN answers = 1..Len(answers)
  BY <1>1
<1> QED
  BY <1>2, <1>3

LEMMA BreakerBegins == BreakerInit => BreakerInv
<1> SUFFICES ASSUME BreakerInit
             PROVE  BreakerInv
  OBVIOUS
<1>1. BreakerTypeOK
  BY DEF BreakerInit, BreakerTypeOK
<1>2. DOMAIN answers = {} /\ Len(answers) = 0
  BY DEF BreakerInit
<1>3. Outage(Len(answers)) = {}
  BY <1>2 DEF Outage
<1>4. KeepsOutage
  BY <1>3 DEF KeepsOutage, BreakerInit
<1> QED
  BY <1>1, <1>2, <1>4 DEF BreakerInv, InOrder, OpenFor, BreakerInit

\* A failure completes the outage that the kept failures belong to; the outages
\* that earlier answers completed are the same.
LEMMA FailureAdds ==
    ASSUME BreakerInv, answers' = Append(answers, [at |-> clock, ok |-> FALSE]),
           NEW n, n = Len(answers)
    PROVE  /\ Len(answers') = n + 1 /\ DOMAIN answers' = 1..(n + 1)
           /\ \A i \in 1..n : answers'[i] = answers[i] /\ Outage(i)' = Outage(i)
           /\ answers'[n + 1] = [at |-> clock, ok |-> FALSE]
           /\ Outage(n + 1)' = {i \in Outage(n) : answers[i].at > clock - Window} \cup {n + 1}
<1>1. /\ n \in Nat /\ DOMAIN answers = 1..n /\ clock \in Nat
      /\ \A i \in 1..n : answers[i].at \in Nat /\ answers[i].ok \in BOOLEAN
      /\ \A i \in 1..n : answers[i].at <= clock
      /\ answers \in Seq([at : Nat, ok : BOOLEAN])
  BY AnswersTyped DEF BreakerInv, InOrder, BreakerTypeOK
<1>2. /\ Len(answers') = n + 1 /\ DOMAIN answers' = 1..(n + 1)
      /\ \A i \in 1..n : answers'[i] = answers[i]
      /\ answers'[n + 1] = [at |-> clock, ok |-> FALSE]
  BY <1>1
<1>3. ASSUME NEW i \in 1..n
      PROVE  \A j \in 1..n : (\A k \in j..(n + 1) : ~answers'[k].ok)
                                <=> (\A k \in j..n : ~answers[k].ok)
  <2> SUFFICES ASSUME NEW j \in 1..n
               PROVE  (\A k \in j..(n + 1) : ~answers'[k].ok) <=> (\A k \in j..n : ~answers[k].ok)
    OBVIOUS
  <2>1. \A k \in j..(n + 1) : k \in j..n \/ k = n + 1
    BY <1>1
  <2>2. \A k \in j..n : k \in 1..n /\ k \in j..(n + 1)
    BY <1>1
  <2>3. ~answers'[n + 1].ok
    BY <1>2
  <2> QED
    BY <1>2, <2>1, <2>2, <2>3
<1>4. ASSUME NEW i \in 1..n
      PROVE  Outage(i)' = Outage(i)
  <2>1. \A j \in 1..i : j \in 1..n
    BY <1>1
  <2> QED
    BY <1>1, <1>2, <1>3, <2>1 DEF Outage
<1>5. Outage(n + 1)' = {i \in Outage(n) : answers[i].at > clock - Window} \cup {n + 1}
  <2>1. \A j : j \in Outage(n + 1)' <=>
            /\ j \in 1..(n + 1) /\ answers'[j].at > clock - Window
            /\ \A k \in j..(n + 1) : ~answers'[k].ok
    BY <1>2 DEF Outage
  <2>2. n + 1 \in Outage(n + 1)'
    <3>1. n + 1 \in 1..(n + 1) /\ \A k \in (n + 1)..(n + 1) : k = n + 1
      BY <1>1
    <3>2. answers'[n + 1].at > clock - Window /\ ~answers'[n + 1].ok
      BY <1>1, <1>2, BreakerTimes
    <3> QED
      BY <2>1, <3>1, <3>2
  <2>3. ASSUME NEW j \in 1..n
        PROVE  j \in Outage(n + 1)' <=> j \in Outage(n) /\ answers[j].at > clock - Window
    <3>1. j \in Outage(n) <=> /\ answers[j].at > answers[n].at - Window
                              /\ \A k \in j..n : ~answers[k].ok
      BY DEF Outage
    <3>2. answers[j].at > clock - Window => answers[j].at > answers[n].at - Window
      <4>1. /\ answers[n].at \in Nat /\ answers[n].at <= clock /\ answers[j].at \in Nat
            /\ clock \in Nat
        BY <1>1
      <4> QED
        BY <4>1, BreakerTimes
    <3>3. j \in 1..(n + 1) /\ answers'[j] = answers[j]
      BY <1>1, <1>2
    <3> QED
      BY <1>3, <2>1, <3>1, <3>2, <3>3
  <2>4. \A j \in Outage(n) : j \in 1..n
    BY DEF Outage
  <2>5. \A j \in Outage(n + 1)' : j \in 1..n \/ j = n + 1
    BY <1>1, <2>1
  <2> QED
    BY <2>2, <2>3, <2>4, <2>5
<1> QED
  BY <1>1, <1>2, <1>4, <1>5

\* The list of failures is as long as the outage.
LEMMA AsLong ==
    ASSUME NEW S, IsFiniteSet(S), NEW Time
    PROVE  Cardinality({[at |-> Time[i], no |-> i] : i \in S}) = Cardinality(S)
<1> DEFINE T == {[at |-> Time[i], no |-> i] : i \in S}
           f == [i \in S |-> [at |-> Time[i], no |-> i]]
<1>1. f \in Bijection(S, T)
  <2>1. f \in [S -> T] /\ \A t \in T : \E i \in S : f[i] = t
    OBVIOUS
  <2>2. \A i, j \in S : f[i] = f[j] => i = j
    <3>1. \A i \in S : f[i].no = i
      OBVIOUS
    <3> QED
      BY <3>1
  <2> QED
    BY <2>1, <2>2 DEF Bijection, Injection, Surjection, IsInjective
<1> QED
  BY <1>1, FS_Bijection DEF ExistsBijection

LEMMA OutageFinite ==
    ASSUME NEW i \in Int
    PROVE  /\ IsFiniteSet(Outage(i)) /\ Cardinality(Outage(i)) \in Nat
           /\ Outage(i) \in SUBSET (1..i)
<1>1. Outage(i) \in SUBSET (1..i) /\ IsFiniteSet(1..i)
  BY FS_Interval DEF Outage
<1> QED
  BY <1>1, FS_Subset, FS_CardinalityType

LEMMA GoWrongStep ==
    ASSUME BreakerInv, NEW c \in Calls, GoWrong(c)
    PROVE  BreakerInv'
<1>1. PICK n : n = Len(answers)
  OBVIOUS
<1>2. /\ n \in Nat /\ DOMAIN answers = 1..n /\ clock \in Nat \ {0} /\ openUntil \in Nat
      /\ \A i \in 1..n : answers[i].at \in Nat /\ answers[i].at <= clock
      /\ \A i, j \in 1..n : i <= j => answers[i].at <= answers[j].at
      /\ answers \in Seq([at : Nat, ok : BOOLEAN])
      /\ failures \subseteq [at : Nat, no : Nat] /\ asking \subseteq Calls
  BY <1>1, AnswersTyped DEF BreakerInv, InOrder, BreakerTypeOK
<1> DEFINE all == failures \cup {[at |-> clock, no |-> n + 1]}
<1>3. /\ failures' = Kept(all)
      /\ openUntil' = IF Reached(Kept(all)) THEN clock + Cooldown ELSE openUntil
      /\ answers' = Append(answers, [at |-> clock, ok |-> FALSE])
      /\ clock' = clock /\ asking' \subseteq Calls
  BY <1>1, <1>2 DEF GoWrong, RecordFailure, Leave
<1>4. /\ Len(answers') = n + 1 /\ DOMAIN answers' = 1..(n + 1)
      /\ \A i \in 1..n : answers'[i] = answers[i] /\ Outage(i)' = Outage(i)
      /\ answers'[n + 1] = [at |-> clock, ok |-> FALSE]
      /\ Outage(n + 1)' = {i \in Outage(n) : answers[i].at > clock - Window} \cup {n + 1}
  BY <1>1, <1>3, FailureAdds
<1>5. BreakerTypeOK'
  <2>1. answers' \in Seq([at : Nat, ok : BOOLEAN])
    BY <1>2, <1>3
  <2>2. failures' \subseteq [at : Nat, no : Nat]
    BY <1>2, <1>3 DEF Kept
  <2>3. openUntil' \in Nat
    BY <1>2, <1>3, BreakerTimes
  <2> QED
    BY <1>2, <1>3, <2>1, <2>2, <2>3 DEF BreakerTypeOK
<1>6. InOrder'
  BY <1>2, <1>3, <1>4 DEF InOrder
<1>7. failures' = {[at |-> answers'[i].at, no |-> i] : i \in Outage(n + 1)'}
  <2>1. failures = {[at |-> answers[i].at, no |-> i] : i \in Outage(n)}
    BY <1>1 DEF BreakerInv, KeepsOutage, Failure
  <2>2. Outage(n) \in SUBSET (1..n)
    BY <1>2, OutageFinite
  <2>3. failures' = {f \in failures : f.at > clock - Window} \cup {[at |-> clock, no |-> n + 1]}
    BY <1>2, <1>3, BreakerTimes DEF Kept
  <2>4. \A i \in Outage(n) : answers'[i] = answers[i]
    BY <1>4, <2>2
  <2>5. {f \in failures : f.at > clock - Window}
          = {[at |-> answers'[i].at, no |-> i] : i \in {j \in Outage(n) : answers[j].at > clock - Window}}
    BY <2>1, <2>4
  <2>6. [at |-> clock, no |-> n + 1] = [at |-> answers'[n + 1].at, no |-> n + 1]
    BY <1>4
  <2> QED
    BY <1>4, <2>3, <2>5, <2>6
<1>8. KeepsOutage'
  BY <1>4, <1>7 DEF KeepsOutage, Failure
<1>9. Cardinality(failures') = Cardinality(Outage(n + 1)')
  <2> DEFINE Recent == {i \in Outage(n) : answers[i].at > clock - Window}
  <2>0. IsFiniteSet(Recent)
    <3>1. Recent \subseteq Outage(n)
      OBVIOUS
    <3>2. IsFiniteSet(Outage(n))
      BY <1>2, OutageFinite
    <3> QED
      BY <3>1, <3>2, FS_Subset
  <2>a. IsFiniteSet(Recent \cup {n + 1})
    BY <2>0, FS_AddElement
  <2>1. IsFiniteSet(Outage(n + 1)')
    BY <2>a, <1>4
  <2> DEFINE Time == [i \in Outage(n + 1)' |-> answers'[i].at]
  <2>2. failures' = {[at |-> Time[i], no |-> i] : i \in Outage(n + 1)'}
    BY <1>7
  <2> QED
    BY <2>1, <2>2, AsLong
<1>10. OpenFor'
  <2>1. \A i \in 1..n : Completes(i)' <=> Completes(i)
    BY <1>4 DEF Completes
  <2>2. Completes(n + 1)' <=> Reached(Kept(all))
    BY <1>3, <1>9 DEF Completes, Reached
  <2>3. openUntil # 0 => \E i \in 1..n : Completes(i) /\ openUntil = answers[i].at + Cooldown
    BY <1>2 DEF BreakerInv, OpenFor
  <2>4. \A i \in 1..n : Completes(i) =>
            answers[i].at + Cooldown <= clock \/ answers[i].at + Cooldown <= openUntil
    BY <1>2 DEF BreakerInv, OpenFor
  <2>5. answers'[n + 1].at = clock /\ n + 1 \in 1..(n + 1) /\ \A i \in 1..n : i \in 1..(n + 1)
    BY <1>2, <1>4
  <2>6. openUntil' # 0 =>
            \E i \in 1..(n + 1) : Completes(i)' /\ openUntil' = answers'[i].at + Cooldown
    <3>1. CASE Reached(Kept(all))
      <4>1. Completes(n + 1)' /\ openUntil' = answers'[n + 1].at + Cooldown
        BY <1>3, <2>2, <2>5, <3>1
      <4> QED
        BY <2>5, <4>1
    <3>2. CASE ~Reached(Kept(all))
      BY <1>3, <1>4, <2>1, <2>3, <2>5, <3>2
    <3> QED
      BY <3>1, <3>2
  <2>7. ASSUME NEW i \in 1..(n + 1), Completes(i)'
        PROVE  answers'[i].at + Cooldown <= clock \/ answers'[i].at + Cooldown <= openUntil'
    <3>1. CASE i = n + 1
      <4>1. openUntil' = clock + Cooldown
        BY <1>3, <2>2, <2>7, <3>1
      <4> QED
        BY <1>2, <2>5, <3>1, <4>1, BreakerTimes
    <3>2. CASE i \in 1..n
      <4>1. /\ answers'[i] = answers[i] /\ answers[i].at \in Nat /\ answers[i].at <= clock
            /\ answers[i].at + Cooldown <= clock \/ answers[i].at + Cooldown <= openUntil
        BY <1>2, <1>4, <2>1, <2>4, <2>7, <3>2
      <4> QED
        BY <1>2, <1>3, <4>1, BreakerTimes
    <3> QED
      BY <1>2, <3>1, <3>2
  <2> QED
    BY <1>3, <1>4, <2>6, <2>7 DEF OpenFor
<1> QED
  BY <1>5, <1>6, <1>8, <1>10 DEF BreakerInv

\* A success ends every outage.
LEMMA SucceedStep ==
    ASSUME BreakerInv, NEW c \in Calls, Succeed(c)
    PROVE  BreakerInv'
<1>1. PICK n : n = Len(answers)
  OBVIOUS
<1>2. /\ n \in Nat /\ DOMAIN answers = 1..n /\ clock \in Nat \ {0}
      /\ \A i \in 1..n : answers[i].at \in Nat /\ answers[i].at <= clock
      /\ \A i, j \in 1..n : i <= j => answers[i].at <= answers[j].at
      /\ answers \in Seq([at : Nat, ok : BOOLEAN]) /\ asking \subseteq Calls
  BY <1>1, AnswersTyped DEF BreakerInv, InOrder, BreakerTypeOK
<1>3. /\ failures' = {} /\ openUntil' = 0 /\ clock' = clock /\ asking' \subseteq Calls
      /\ answers' = Append(answers, [at |-> clock, ok |-> TRUE])
  BY <1>2 DEF Succeed, RecordSuccess, Leave
<1>4. /\ Len(answers') = n + 1 /\ DOMAIN answers' = 1..(n + 1)
      /\ \A i \in 1..n : answers'[i] = answers[i]
      /\ answers'[n + 1] = [at |-> clock, ok |-> TRUE]
      /\ answers' \in Seq([at : Nat, ok : BOOLEAN])
  BY <1>1, <1>2, <1>3
<1>5. BreakerTypeOK' /\ InOrder'
  BY <1>2, <1>3, <1>4 DEF BreakerTypeOK, InOrder
<1>6. \A i \in 1..(n + 1) : Outage(i)' = {}
  <2>1. ASSUME NEW i \in 1..(n + 1), NEW j \in 1..i
        PROVE  ~(\A k \in j..(n + 1) : ~answers'[k].ok)
    <3>1. n + 1 \in j..(n + 1)
      BY <1>2
    <3> QED
      BY <1>4, <3>1
  <2> QED
    BY <1>4, <2>1 DEF Outage
<1>7. n + 1 \in 1..(n + 1)
  BY <1>2
<1>8. KeepsOutage'
  BY <1>3, <1>4, <1>6, <1>7 DEF KeepsOutage
<1>9. \A i \in 1..(n + 1) : ~Completes(i)'
  BY <1>6, BreakerTimes, FS_EmptySet DEF Completes
<1> QED
  BY <1>3, <1>4, <1>5, <1>8, <1>9 DEF BreakerInv, OpenFor

\* Asking, dropping and the passing of time leave the answers alone.
LEMMA OtherBreakerSteps ==
    ASSUME BreakerInv, clock' \in Nat, clock' >= clock, asking' \subseteq Calls,
           UNCHANGED <<failures, answers>>,
           openUntil' = openUntil \/ (openUntil' = 0 /\ ~IsOpen)
    PROVE  BreakerInv'
<1>1. /\ DOMAIN answers = 1..Len(answers) /\ clock \in Nat \ {0} /\ openUntil \in Nat
      /\ \A i \in DOMAIN answers : answers[i].at \in Nat
  BY AnswersTyped DEF BreakerInv, BreakerTypeOK
<1>2. BreakerTypeOK'
  BY <1>1 DEF BreakerInv, BreakerTypeOK
<1>3. InOrder'
  BY <1>1 DEF BreakerInv, InOrder
<1>4. \A i : Outage(i)' = Outage(i)
  BY DEF Outage
<1>5. KeepsOutage'
  BY <1>4 DEF BreakerInv, KeepsOutage, Failure
<1>6. OpenFor'
  <2>1. \A i : Completes(i)' <=> Completes(i)
    BY <1>4 DEF Completes
  <2>2. ASSUME NEW i \in DOMAIN answers, Completes(i)
        PROVE  answers[i].at + Cooldown <= clock' \/ answers[i].at + Cooldown <= openUntil'
    <3>1. answers[i].at + Cooldown <= clock \/ answers[i].at + Cooldown <= openUntil
      BY <2>2 DEF BreakerInv, OpenFor
    <3>2. openUntil' # openUntil => openUntil <= clock \/ openUntil = 0
      BY <1>1 DEF IsOpen
    <3>3. answers[i].at \in Nat
      BY <1>1
    <3> QED
      BY <1>1, <3>1, <3>2, <3>3, BreakerTimes
  <2>3. openUntil' # 0 => \E i \in DOMAIN answers :
                              Completes(i) /\ openUntil' = answers[i].at + Cooldown
    BY DEF BreakerInv, OpenFor
  <2> QED
    BY <2>1, <2>2, <2>3 DEF OpenFor
<1> QED
  BY <1>2, <1>3, <1>5, <1>6 DEF BreakerInv

LEMMA BreakerSteps == BreakerInv /\ [BreakerNext]_breakerVars => BreakerInv'
<1> SUFFICES ASSUME BreakerInv, [BreakerNext]_breakerVars
             PROVE  BreakerInv'
  OBVIOUS
<1>1. clock \in Nat /\ asking \subseteq Calls
  BY DEF BreakerInv, BreakerTypeOK
<1>2. CASE UNCHANGED breakerVars
  BY <1>1, <1>2, OtherBreakerSteps DEF breakerVars
<1>3. CASE Tick
  BY <1>1, <1>3, OtherBreakerSteps DEF Tick
<1>4. ASSUME NEW c \in Calls, Ask(c) \/ Suggest(c) \/ Drop(c)
      PROVE  BreakerInv'
  BY <1>1, <1>4, OtherBreakerSteps DEF Ask, Suggest, Drop, Forget, Leave
<1>5. CASE BreakerNext
  BY <1>3, <1>4, <1>5, GoWrongStep, SucceedStep DEF BreakerNext
<1> QED
  BY <1>2, <1>5

\* The breaker is shut exactly while a failure that completed an outage is less
\* than a cooldown old, for every threshold, window and cooldown, and in whatever
\* order any number of overlapping requests are answered.
THEOREM ShutExactlyInOutage == BreakerSpec => []ShutInOutage
<1>1. BreakerInv => ShutInOutage
  <2> SUFFICES ASSUME BreakerInv
               PROVE  ShutInOutage
    OBVIOUS
  <2>1. clock \in Nat /\ openUntil \in Nat
        /\ \A i \in DOMAIN answers : answers[i].at \in Nat
    BY AnswersTyped DEF BreakerInv, BreakerTypeOK
  <2>2. IsOpen => \E i \in DOMAIN answers : Completes(i) /\ clock < answers[i].at + Cooldown
    BY DEF BreakerInv, OpenFor, IsOpen
  <2>3. ASSUME NEW i \in DOMAIN answers, Completes(i), clock < answers[i].at + Cooldown
        PROVE  IsOpen
    <3>1. answers[i].at \in Nat /\ answers[i].at + Cooldown <= openUntil
      BY <2>1, <2>3, BreakerTimes DEF BreakerInv, OpenFor
    <3> QED
      BY <2>1, <2>3, <3>1, BreakerTimes DEF IsOpen
  <2> QED
    BY <2>2, <2>3 DEF ShutInOutage, Completes
<1> QED
  BY <1>1, BreakerBegins, BreakerSteps, PTL DEF BreakerSpec

-----------------------------------------------------------------------------
(* Providers: what a call that was paid back has made                      *)

\* What the plans have in common: a job wants one result, a completion is
\* attempted as often as there are results to bring.
LEMMA PlansAgree ==
    ASSUME NEW n \in Needs
    PROVE  /\ Plans[n].job \in BOOLEAN
           /\ Plans[n].attempts \in Nat /\ Plans[n].wanted \in Nat \ {0}
           /\ Plans[n].deadline \in BOOLEAN /\ Plans[n].patient \in BOOLEAN
           /\ Plans[n].job => Plans[n].wanted = 1
           /\ Plans[n].attempts >= Plans[n].wanted
           /\ n = "speech" => Plans[n].wanted = 1 /\ ~Plans[n].job
<1>1. n \in {"video", "song", "tune", "picture", "pictures", "edit", "upscale", "rmbg", "speech"}
  BY DEF Needs, Plans
<1> DEFINE Sound(p) == /\ p.job \in BOOLEAN
                       /\ p.attempts \in Nat /\ p.wanted \in Nat \ {0}
                       /\ p.deadline \in BOOLEAN /\ p.patient \in BOOLEAN
                       /\ p.job => p.wanted = 1
                       /\ p.attempts >= p.wanted
<1>2. CASE n = "video"
  <2>1. Plans[n] = generate_video
    BY <1>2 DEF Plans
  <2>2. Sound(generate_video)
    BY DEF generate_video, Plan
  <2> QED
    BY <1>2, <2>1, <2>2
<1>3. CASE n = "song"
  <2>1. Plans[n] = generate_song
    BY <1>3 DEF Plans
  <2>2. Sound(generate_song)
    BY DEF generate_song, Plan
  <2> QED
    BY <1>3, <2>1, <2>2
<1>4. CASE n = "tune"
  <2>1. Plans[n] = musicgen
    BY <1>4 DEF Plans
  <2>2. Sound(musicgen)
    BY DEF musicgen, Plan
  <2> QED
    BY <1>4, <2>1, <2>2
<1>5. CASE n = "picture"
  <2>1. Plans[n] = generate_openrouter_image
    BY <1>5 DEF Plans
  <2>2. Sound(generate_openrouter_image)
    BY DEF generate_openrouter_image, Plan
  <2> QED
    BY <1>5, <2>1, <2>2
<1>6. CASE n = "pictures"
  <2>1. Plans[n] = generate_four_images
    BY <1>6 DEF Plans
  <2>2. Sound(generate_four_images)
    BY DEF generate_four_images, Plan
  <2> QED
    BY <1>6, <2>1, <2>2
<1>7. CASE n = "edit"
  <2>1. Plans[n] = edit_openrouter_image
    BY <1>7 DEF Plans
  <2>2. Sound(edit_openrouter_image)
    BY DEF edit_openrouter_image, Plan
  <2> QED
    BY <1>7, <2>1, <2>2
<1>8. CASE n = "upscale"
  <2>1. Plans[n] = upscale_openrouter_image
    BY <1>8 DEF Plans
  <2>2. Sound(upscale_openrouter_image)
    BY DEF upscale_openrouter_image, Plan
  <2> QED
    BY <1>8, <2>1, <2>2
<1>9. CASE n = "rmbg"
  <2>1. Plans[n] = remove_background_openrouter
    BY <1>9 DEF Plans
  <2>2. Sound(remove_background_openrouter)
    BY DEF remove_background_openrouter, Plan
  <2> QED
    BY <1>9, <2>1, <2>2
<1>10. CASE n = "speech"
  <2>1. Plans[n] = transcribe_audio
    BY <1>10 DEF Plans
  <2>2. Sound(transcribe_audio)
    BY DEF transcribe_audio, Plan
  <2>3. transcribe_audio.wanted = 1 /\ ~transcribe_audio.job
    BY DEF transcribe_audio, Plan
  <2> QED
    BY <2>1, <2>2, <2>3
<1> QED
  BY <1>1, <1>2, <1>3, <1>4, <1>5, <1>6, <1>7, <1>8, <1>9, <1>10

\* A job has made one result at most, and one that may still make it has none;
\* a call that ends with its job at work has gone astray.
JobAccounted(call) ==
    call.job =>
        /\ phase = "ready" => made = 0 /\ job = "none"
        /\ phase = "polling" => job # "none"
        /\ phase = "fetching" => made = 1 /\ job \in {"none", "made"}
        /\ made <= 1
        /\ job \in {"working", "broken"} => made = 0
        /\ job = "made" => made = 1
        /\ phase = "end" /\ ~astray => job # "working"
        /\ reply = "ok" => made = 1 /\ got = 1
        /\ reply # "none" /\ ~astray => (reply = "ok" <=> made = 1)

\* A completion that has made something has brought it unless it went astray,
\* and the attempts that are left are enough for what is wanted unless a request
\* brought none.
CompletionAccounted(call) ==
    ~call.job =>
        /\ job = "none" /\ phase \in {"ready", "end"}
        /\ got > 0 => made > 0
        /\ ~astray => (made > 0 => got > 0)
        /\ reply = "ok" => got > 0 /\ (got >= call.wanted \/ missed)
        /\ reply # "none" /\ ~astray => (reply = "ok" <=> got > 0)
        /\ reply = "none" /\ ~missed => got + attempts >= call.wanted

CallInv ==
    /\ ProviderTypeOK
    /\ reply = "none" <=> phase # "end"
    /\ JobAccounted(Call)
    /\ CompletionAccounted(Call)

LEMMA CallBegins == ProviderInit => CallInv
<1> SUFFICES ASSUME ProviderInit PROVE CallInv
  OBVIOUS
<1>1. PICK call : call = Call
  OBVIOUS
<1>2. /\ call.job \in BOOLEAN /\ call.attempts \in Nat /\ call.wanted \in Nat \ {0}
      /\ call.attempts >= call.wanted
  BY <1>1, PlansAgree DEF ProviderInit, Call
<1>3. ProviderTypeOK
  <2>1. MaxResends \in Nat
    BY ProvidersAssumption
  <2>2. /\ need \in Needs /\ phase = "ready" /\ job = "none" /\ reply = "none"
        /\ {attempts, resends, polls, made, got} \subseteq Nat
    BY <1>1, <1>2, <2>1 DEF ProviderInit
  <2>3. {astray, missed} \subseteq BOOLEAN
    BY DEF ProviderInit
  <2> QED
    BY <2>2, <2>3 DEF ProviderTypeOK
<1>4. JobAccounted(call) /\ CompletionAccounted(call)
  BY <1>1, <1>2 DEF ProviderInit, JobAccounted, CompletionAccounted
<1> QED
  BY <1>1, <1>3, <1>4 DEF ProviderInit, CallInv

LEMMA CallSteps == CallInv /\ [ProviderNext]_providerVars => CallInv'
<1> SUFFICES ASSUME CallInv, [ProviderNext]_providerVars PROVE CallInv'
  OBVIOUS
<1>1. PICK call : call = Call
  OBVIOUS
<1>2. /\ call.job \in BOOLEAN /\ call.wanted \in Nat \ {0} /\ call.patient \in BOOLEAN
      /\ call.job => call.wanted = 1
      /\ need = "speech" => call.wanted = 1 /\ ~call.job
  BY <1>1, PlansAgree DEF CallInv, ProviderTypeOK, Call
<1>3. need' = need /\ Call' = call
  BY <1>1 DEF ProviderNext, providerVars, Call, Submit, SubmitAnswered, SubmitRefused,
     SubmitLost, JobEnds, PollAnswered, PollLost, PollsRunOut, Fetch, FetchFails, Completed,
     Empty, Resend, Failed, Conclude, DeadlinePasses, Polled, Asking
<1>4. /\ need \in Needs
      /\ phase \in {"ready", "polling", "fetching", "end"}
      /\ attempts \in Nat /\ resends \in Nat /\ polls \in Nat /\ made \in Nat /\ got \in Nat
      /\ job \in {"none", "working", "made", "broken"}
      /\ reply \in {"none", "ok", "error", "late"}
      /\ astray \in BOOLEAN /\ missed \in BOOLEAN
      /\ reply = "none" <=> phase # "end"
      /\ JobAccounted(call) /\ CompletionAccounted(call)
  BY <1>1 DEF CallInv, ProviderTypeOK
<1> DEFINE Accounted ==
      /\ phase' \in {"ready", "polling", "fetching", "end"}
      /\ attempts' \in Nat /\ resends' \in Nat /\ polls' \in Nat /\ made' \in Nat /\ got' \in Nat
      /\ job' \in {"none", "working", "made", "broken"}
      /\ reply' \in {"none", "ok", "error", "late"}
      /\ astray' \in BOOLEAN /\ missed' \in BOOLEAN
      /\ reply' = "none" <=> phase' # "end"
      /\ JobAccounted(call)' /\ CompletionAccounted(call)'
<1>5. Accounted => CallInv'
  BY <1>3, <1>4 DEF CallInv, ProviderTypeOK, JobAccounted, CompletionAccounted
<1>6. ASSUME Submit PROVE Accounted
  BY <1>1, <1>2, <1>4, <1>6, ProvidersAssumption DEF Submit, JobAccounted, CompletionAccounted
<1>7. ASSUME SubmitAnswered PROVE Accounted
  BY <1>1, <1>2, <1>4, <1>7 DEF SubmitAnswered, JobAccounted, CompletionAccounted
<1>8. ASSUME SubmitRefused PROVE Accounted
  BY <1>1, <1>2, <1>4, <1>8 DEF SubmitRefused, Reply, Stay, JobAccounted, CompletionAccounted
<1>9. ASSUME SubmitLost PROVE Accounted
  BY <1>1, <1>2, <1>4, <1>9 DEF SubmitLost, Reply, JobAccounted, CompletionAccounted
<1>10. ASSUME JobEnds PROVE Accounted
  BY <1>1, <1>2, <1>4, <1>10 DEF JobEnds, JobAccounted, CompletionAccounted
<1>11. ASSUME PollAnswered PROVE Accounted
  BY <1>1, <1>2, <1>4, <1>11 DEF PollAnswered, Polled, Reply, Stay, JobAccounted, CompletionAccounted
<1>12. ASSUME PollLost PROVE Accounted
  BY <1>1, <1>2, <1>4, <1>12 DEF PollLost, Polled, Reply, Stay, JobAccounted, CompletionAccounted
<1>13. ASSUME PollsRunOut PROVE Accounted
  BY <1>1, <1>2, <1>4, <1>13 DEF PollsRunOut, Reply, JobAccounted, CompletionAccounted
<1>14. ASSUME Fetch PROVE Accounted
  BY <1>1, <1>2, <1>4, <1>14 DEF Fetch, Reply, JobAccounted, CompletionAccounted
<1>15. ASSUME FetchFails PROVE Accounted
  BY <1>1, <1>2, <1>4, <1>15 DEF FetchFails, Reply, JobAccounted, CompletionAccounted
<1>16. ASSUME Completed PROVE Accounted
  BY <1>1, <1>2, <1>4, <1>16, ProvidersAssumption DEF Completed, Asking, JobAccounted, CompletionAccounted
<1>17. ASSUME Empty PROVE Accounted
  BY <1>1, <1>2, <1>4, <1>17, ProvidersAssumption DEF Empty, Asking, Reply, Stay, JobAccounted, CompletionAccounted
<1>18. ASSUME Resend PROVE Accounted
  <2>1. CASE made' = made
    <3>1. astray' = astray
      BY <1>4, <1>18, <2>1 DEF Resend
    <3> QED
      BY <1>1, <1>2, <1>4, <1>18, <2>1, <3>1 DEF Resend, Asking, JobAccounted, CompletionAccounted
  <2>2. CASE made' = made + 1
    <3>1. astray'
      <4>1. made' > made
        BY <1>4, <2>2
      <4>2. astray' = (astray \/ made' > made)
        BY <1>18 DEF Resend
      <4> QED
        BY <4>1, <4>2, Zenon
    <3> QED
      BY <1>1, <1>2, <1>4, <1>18, <2>2, <3>1 DEF Resend, Asking, JobAccounted, CompletionAccounted
  <2> QED
    BY <1>18, <2>1, <2>2 DEF Resend
<1>19. ASSUME Failed PROVE Accounted
  <2>1. CASE made' = made
    <3>1. astray' = astray
      BY <1>4, <1>19, <2>1 DEF Failed
    <3> QED
      BY <1>1, <1>2, <1>4, <1>19, <2>1, <3>1, ProvidersAssumption DEF Failed, Asking, JobAccounted, CompletionAccounted
  <2>2. CASE made' = made + 1
    <3>1. astray'
      <4>1. made' > made
        BY <1>4, <2>2
      <4>2. astray' = (astray \/ made' > made)
        BY <1>19 DEF Failed
      <4> QED
        BY <4>1, <4>2, Zenon
    <3> QED
      BY <1>1, <1>2, <1>4, <1>19, <2>2, <3>1, ProvidersAssumption DEF Failed, Asking, JobAccounted, CompletionAccounted
  <2> QED
    BY <1>19, <2>1, <2>2 DEF Failed
<1>20. ASSUME Conclude PROVE Accounted
  BY <1>1, <1>2, <1>4, <1>20 DEF Conclude, Asking, Reply, JobAccounted, CompletionAccounted
<1>21. ASSUME DeadlinePasses PROVE Accounted
  BY <1>1, <1>2, <1>4, <1>21 DEF DeadlinePasses, Reply, JobAccounted, CompletionAccounted
<1>22. ASSUME UNCHANGED providerVars PROVE Accounted
  BY <1>2, <1>4, <1>22 DEF providerVars, JobAccounted, CompletionAccounted
<1> QED
  BY <1>5, <1>6, <1>7, <1>8, <1>9, <1>10, <1>11, <1>12, <1>13,
     <1>14, <1>15, <1>16, <1>17, <1>18, <1>19, <1>20, <1>21, <1>22 DEF ProviderNext

\* A call that was paid back made nothing unless it went astray, a job is made
\* once, and what was charged arrived: the accounts of the call say so.
THEOREM NothingIsWasted == ProviderSpec => []NothingWasted
<1>1. CallInv => NothingWasted
  <2> SUFFICES ASSUME CallInv PROVE NothingWasted
    OBVIOUS
  <2>1. PICK call : call = Call
    OBVIOUS
  <2>2. /\ call.job \in BOOLEAN /\ call.wanted \in Nat \ {0}
        /\ call.job => call.wanted = 1
    BY <2>1, PlansAgree DEF CallInv, ProviderTypeOK, Call
  <2>3. /\ made \in Nat /\ got \in Nat
        /\ reply = "none" <=> phase # "end"
        /\ JobAccounted(call) /\ CompletionAccounted(call)
    BY <2>1 DEF CallInv, ProviderTypeOK
  <2>4. CASE call.job
    <3>1. made <= 1 /\ call.wanted = 1
      BY <2>2, <2>3, <2>4 DEF JobAccounted
    <3>2. reply = "ok" => made = 1 /\ got = 1
      BY <2>3, <2>4 DEF JobAccounted
    <3>3. reply # "none" /\ ~astray => (reply = "ok" <=> made > 0) /\ job # "working"
      BY <2>3, <2>4, <3>1 DEF JobAccounted
    <3> QED
      BY <2>1, <2>3, <3>1, <3>2, <3>3 DEF NothingWasted
  <2>5. CASE ~call.job
    BY <2>1, <2>2, <2>3, <2>5 DEF NothingWasted, CompletionAccounted
  <2> QED
    BY <2>4, <2>5
<1> QED
  BY <1>1, CallBegins, CallSteps, PTL DEF ProviderSpec

=============================================================================
