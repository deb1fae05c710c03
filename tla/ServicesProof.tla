---------------------------- MODULE ServicesProof ----------------------------
(***************************************************************************)
(* Proofs about the services beside the payments and the requests of a     *)
(* user: the balance as administrators change it (AdminLedger), the        *)
(* notices (Notices), the board (Board), the chat history (Chat), and all  *)
(* of the services together (MCServices), for every number of processes,   *)
(* notices, taps, customers and answers, and every limit.                  *)
(***************************************************************************)
EXTENDS MCServices, ProvidersProof, TLAPS, FiniteSetTheorems

-----------------------------------------------------------------------------
(* AdminLedger: what three panels that do not lock the row can, and        *)
(* cannot, do to a balance.                                                *)

\* What the backend has accepted was covered by the row it read.
DeductionAccepted == Covers(deduction["backend"], deduction["backend"].amount)

LedgerInv == AdminTypeOK /\ DeductionAccepted /\ JournalExplains /\ OwesOnlyIfRaced

-----------------------------------------------------------------------------

LEMMA AtLeastZeroFacts ==
    ASSUME NEW n \in Int
    PROVE  /\ AtLeastZero(n) \in Nat
           /\ AtLeastZero(n) >= n
           /\ n >= 0 => AtLeastZero(n) = n
           /\ n <= 0 => AtLeastZero(n) = 0
  BY DEF AtLeastZero

\* A number is what it has above zero less what it lacks.
LEMMA AtLeastZeroSplits ==
    ASSUME NEW m \in Int, NEW n \in Int
    PROVE  AtLeastZero(m - n) - AtLeastZero(n - m) = m - n
  BY DEF AtLeastZero

LEMMA Rows ==
    ASSUME AdminTypeOK, NEW p \in Panels
    PROVE  /\ deduction[p].amount \in Nat
           /\ deduction[p].bought \in Int
           /\ deduction[p].free \in Nat
<1>1. deduction[p] \in [amount : Amounts \cup {0}, bought : Int, free : Nat]
  BY DEF AdminTypeOK
<1>2. deduction[p].amount \in Nat
  BY <1>1, LedgerAssumption
<1> QED
  BY <1>1, <1>2

LEMMA LedgerBegins == AdminInit => LedgerInv
  BY LedgerAssumption
     DEF AdminInit, LedgerInv, AdminTypeOK, DeductionAccepted, Covers, JournalExplains, OwesOnlyIfRaced,
         NoDeduction, Panels, Fields

-----------------------------------------------------------------------------
(* One lemma per kind of step.                                             *)

\* A change by the customer or of the day, which no panel has read.
LEMMA LedgerCustomerSteps ==
    ASSUME LedgerInv,
           NewDay \/ \E n \in Amounts : CustomerSpends(n) \/ CreditsAdded(n) \/ cb_pay_test(n)
    PROVE  LedgerInv'
<1>1. CASE NewDay
  BY <1>1, LedgerAssumption
     DEF NewDay, Changed, LedgerInv, AdminTypeOK, DeductionAccepted, Covers, JournalExplains, OwesOnlyIfRaced
<1>2. ASSUME NEW n \in Amounts, CreditsAdded(n) \/ cb_pay_test(n)
      PROVE  LedgerInv'
  BY <1>2, LedgerAssumption
     DEF CreditsAdded, cb_pay_test, Changed, LedgerInv, AdminTypeOK, DeductionAccepted, Covers,
         JournalExplains, OwesOnlyIfRaced
<1>3. ASSUME NEW n \in Amounts, CustomerSpends(n)
      PROVE  LedgerInv'
  <2>1. /\ n \in Nat /\ free \in Nat /\ bought \in Int /\ journal \in Int /\ gap \in Int
        /\ changes \in Nat /\ bought + free >= n
    BY <1>3, LedgerAssumption DEF CustomerSpends, LedgerInv, AdminTypeOK
  <2>2. /\ bought' = bought - AtLeastZero(n - free)
        /\ free' = AtLeastZero(free - n)
        /\ journal' = journal - n
        /\ changes' = changes + 1
        /\ UNCHANGED <<deduction, stale, gap>>
    BY <1>3 DEF CustomerSpends, Changed
  <2>3. /\ free' \in Nat /\ AtLeastZero(n - free) \in Nat
        /\ free' - AtLeastZero(n - free) = free - n
        /\ n - free <= 0 => AtLeastZero(n - free) = 0
    BY <2>1, <2>2 DEF AtLeastZero
  <2>4. AdminTypeOK'
    BY <2>1, <2>2, <2>3 DEF LedgerInv, AdminTypeOK
  <2>5. bought' + free' = bought + free - n
    BY <2>1, <2>2, <2>3
  <2>6. JournalExplains'
    BY <2>1, <2>2, <2>3, <2>5, LedgerAssumption DEF LedgerInv, JournalExplains
  <2>7. bought >= 0 => bought' >= 0
    BY <2>1, <2>2 DEF AtLeastZero
  <2> QED
    BY <2>2, <2>4, <2>6, <2>7 DEF LedgerInv, DeductionAccepted, Covers, OwesOnlyIfRaced
<1> QED
  BY <1>1, <1>2, <1>3

LEMMA ReadStep ==
    ASSUME LedgerInv, NEW p \in Panels, NEW n \in Amounts, ReadRow(p, n)
    PROVE  LedgerInv'
<1> DEFINE row == [amount |-> n, bought |-> bought, free |-> free]
<1>1. /\ deduction' = [deduction EXCEPT ![p] = row]
      /\ p = "backend" => Covers(row, n)
      /\ UNCHANGED <<bought, free, journal, changes, stale, gap>>
  BY DEF ReadRow
<1>2. AdminTypeOK'
  BY <1>1 DEF LedgerInv, AdminTypeOK
<1>3. DeductionAccepted'
  BY <1>1 DEF LedgerInv, AdminTypeOK, DeductionAccepted, Covers, Panels
<1> QED
  BY <1>1, <1>2, <1>3 DEF LedgerInv, JournalExplains, OwesOnlyIfRaced

\* What a panel's second statement does to the row it has read.
LEMMA Deductions ==
    ASSUME LedgerInv, NEW p \in Panels, Deducting(p)
    PROVE  /\ deduction' \in [Panels -> [amount : Amounts \cup {0}, bought : Int, free : Nat]]
           /\ changes' \in Nat
           /\ stale' \in [Panels -> SUBSET Fields]
           /\ \A q \in Panels : stale[q] \subseteq stale'[q]
           /\ "bought" \in stale'[p] \/ deduction[p].bought = bought
           /\ "free" \in stale'[p] \/ deduction[p].free = free
           /\ DeductionAccepted'
<1>1. /\ deduction' = [deduction EXCEPT ![p] = NoDeduction]
      /\ changes' = changes + 1
      /\ stale' = [stale EXCEPT ![p] = @ \cup
                    {f \in Fields : deduction[p][f] # [bought |-> bought, free |-> free][f]}]
  BY DEF Deducting, Changed
<1>2. NoDeduction \in [amount : Amounts \cup {0}, bought : Int, free : Nat]
  BY DEF NoDeduction
<1>3. deduction' \in [Panels -> [amount : Amounts \cup {0}, bought : Int, free : Nat]]
  BY <1>1, <1>2 DEF LedgerInv, AdminTypeOK
<1>4. /\ stale' \in [Panels -> SUBSET Fields]
      /\ \A q \in Panels : stale[q] \subseteq stale'[q]
  BY <1>1 DEF LedgerInv, AdminTypeOK
<1>5. /\ "bought" \in stale'[p] \/ deduction[p].bought = bought
      /\ "free" \in stale'[p] \/ deduction[p].free = free
  BY <1>1 DEF LedgerInv, AdminTypeOK, Fields
<1>6. DeductionAccepted'
  BY <1>1 DEF LedgerInv, AdminTypeOK, DeductionAccepted, Covers, NoDeduction, Panels
<1> QED
  BY <1>1, <1>3, <1>4, <1>5, <1>6 DEF LedgerInv, AdminTypeOK

LEMMA BackendStep ==
    ASSUME LedgerInv, BackendDeducts
    PROVE  LedgerInv'
<1> DEFINE row == deduction["backend"]
<1>1. "backend" \in Panels /\ Deducting("backend")
  BY DEF BackendDeducts, Panels
<1>2. /\ row.amount \in Nat /\ row.bought \in Int /\ row.free \in Nat
      /\ bought \in Int /\ free \in Nat /\ journal \in Int /\ gap \in Int
  BY <1>1, Rows DEF LedgerInv, AdminTypeOK
<1>3. /\ free' = AtLeastZero(row.free - row.amount)
      /\ bought' = bought - AtLeastZero(row.amount - row.free)
      /\ journal' = journal - row.amount
      /\ gap' = gap
  BY DEF BackendDeducts
<1>4. /\ free' \in Nat /\ AtLeastZero(row.amount - row.free) \in Nat
      /\ free' - AtLeastZero(row.amount - row.free) = row.free - row.amount
      /\ AtLeastZero(row.amount - row.free) = 0
           \/ AtLeastZero(row.amount - row.free) = row.amount - row.free
  BY <1>2, <1>3 DEF AtLeastZero
<1>5. AdminTypeOK'
  BY <1>1, <1>2, <1>3, <1>4, Deductions DEF AdminTypeOK
<1>6. JournalExplains'
  <2>1. CASE row.free = free
    <3>1. bought' + free' = bought + free - row.amount
      BY <2>1, <1>2, <1>3, <1>4
    <3> QED
      BY <3>1, <1>1, <1>2, <1>3, <1>4, Deductions, LedgerAssumption
         DEF LedgerInv, JournalExplains, Panels
  <2>2. CASE row.free # free
    BY <2>2, <1>1, Deductions DEF JournalExplains
  <2> QED
    BY <2>1, <2>2
<1>7. OwesOnlyIfRaced'
  <2>1. CASE row.free = free /\ row.bought = bought
    <3>1. row.amount <= row.bought + row.free
      BY DEF LedgerInv, DeductionAccepted, Covers
    <3>2. bought >= 0 => bought' >= 0
      BY <2>1, <3>1, <1>2, <1>3, <1>4
    <3> QED
      BY <3>2, <1>1, Deductions DEF LedgerInv, OwesOnlyIfRaced
  <2>2. CASE ~(row.free = free /\ row.bought = bought)
    BY <2>2, <1>1, Deductions DEF OwesOnlyIfRaced
  <2> QED
    BY <2>1, <2>2
<1> QED
  BY <1>1, <1>5, <1>6, <1>7, Deductions DEF LedgerInv

\* The other two panels write credits_bought alone, and stop at zero.
LEMMA ConstantStep ==
    ASSUME LedgerInv, WebDeducts \/ BotDeducts
    PROVE  LedgerInv'
<1>1. PICK p \in {"web", "bot"} : (p = "web" /\ WebDeducts) \/ (p = "bot" /\ BotDeducts)
  OBVIOUS
<1> DEFINE row == deduction[p]
<1>2. p \in Panels /\ Deducting(p)
  BY <1>1 DEF Panels, WebDeducts, BotDeducts
<1>3. /\ row.amount \in Nat /\ row.bought \in Int /\ row.free \in Nat
      /\ bought \in Int /\ free \in Nat /\ journal \in Int /\ gap \in Int
  BY <1>2, Rows DEF LedgerInv, AdminTypeOK
<1>4. /\ bought' = AtLeastZero(row.bought - row.amount)
      /\ free' = free
      /\ journal' \in Int /\ gap' \in Int
      /\ journal' + gap' = journal + gap + (bought' - row.bought)
  <2>1. CASE p = "web"
    <3>1. /\ bought' = AtLeastZero(row.bought - row.amount)
          /\ free' = free
          /\ journal' = journal - row.amount
          /\ gap' = gap + AtLeastZero(row.amount - row.bought)
      BY <1>1, <2>1 DEF WebDeducts, WebDeduction
    <3>2. AtLeastZero(row.amount - row.bought) \in Nat
          /\ bought' - AtLeastZero(row.amount - row.bought) = row.bought - row.amount
      BY <3>1, <1>3 DEF AtLeastZero
    <3> QED
      BY <3>1, <3>2, <1>3 DEF AtLeastZero
  <2>2. CASE p = "bot"
    BY <1>1, <2>2, <1>3 DEF BotDeducts, AtLeastZero
  <2> QED
    BY <2>1, <2>2, <1>1
<1>5. bought' \in Nat
  BY <1>3, <1>4 DEF AtLeastZero
<1>6. AdminTypeOK'
  BY <1>2, <1>3, <1>4, <1>5, Deductions DEF AdminTypeOK
<1>7. JournalExplains'
  <2>1. CASE row.bought = bought
    <3>1. bought' + free' - (journal' + gap') = bought + free - (journal + gap)
      BY <2>1, <1>3, <1>4, <1>5
    <3>2. /\ stale["web"] \subseteq stale'["web"]
          /\ stale["bot"] \subseteq stale'["bot"]
          /\ stale["backend"] \subseteq stale'["backend"]
      BY <1>2, Deductions DEF Panels
    <3>3. Opening \in Nat /\ FreeDaily \in Nat
      BY LedgerAssumption
    <3>4. CASE bought + free = Opening + FreeDaily + journal + gap
      <4>1. bought' + free' = Opening + FreeDaily + journal' + gap'
        BY <3>1, <3>3, <3>4, <1>3, <1>4, <1>5
      <4> QED
        BY <4>1 DEF JournalExplains
    <3>5. CASE bought + free # Opening + FreeDaily + journal + gap
      BY <3>2, <3>5 DEF LedgerInv, JournalExplains
    <3> QED
      BY <3>4, <3>5
  <2>2. CASE row.bought # bought
    BY <2>2, <1>1, <1>2, Deductions DEF JournalExplains
  <2> QED
    BY <2>1, <2>2
<1> QED
  BY <1>2, <1>5, <1>6, <1>7, Deductions DEF LedgerInv, OwesOnlyIfRaced

LEMMA LedgerSteps == LedgerInv /\ [AdminNext]_adminVars => LedgerInv'
<1> SUFFICES ASSUME LedgerInv, [AdminNext]_adminVars
             PROVE  LedgerInv'
  OBVIOUS
<1>1. CASE UNCHANGED adminVars
  BY <1>1 DEF adminVars, LedgerInv, AdminTypeOK, DeductionAccepted, Covers, JournalExplains, OwesOnlyIfRaced
<1>2. CASE AdminNext
  BY <1>2, LedgerCustomerSteps, ReadStep, BackendStep, ConstantStep DEF AdminNext
<1> QED
  BY <1>1, <1>2

\* The balances, the journal and what the panels have read keep their types:
\* the free credits are never negative.
THEOREM AdminTypeCorrect == AdminSpec => []AdminTypeOK
<1>1. LedgerInv => AdminTypeOK
  BY DEF LedgerInv
<1> QED
  BY <1>1, LedgerBegins, LedgerSteps, PTL DEF AdminSpec

\* As long as no panel has written a field that had changed since it was read,
\* the journal and the changes that have no row explain the balance.
THEOREM JournalAlwaysExplains == AdminSpec => []JournalExplains
<1>1. LedgerInv => JournalExplains
  BY DEF LedgerInv
<1> QED
  BY <1>1, LedgerBegins, LedgerSteps, PTL DEF AdminSpec

\* A balance goes below zero only when the backend deducted from a row that had
\* changed since it was compared with the amount.
THEOREM OwesOnlyAfterRace == AdminSpec => []OwesOnlyIfRaced
<1>1. LedgerInv => OwesOnlyIfRaced
  BY DEF LedgerInv
<1> QED
  BY <1>1, LedgerBegins, LedgerSteps, PTL DEF AdminSpec

-----------------------------------------------------------------------------
(* Notices.  A reminder belongs to one process from the moment it is       *)
(* marked; of the notices that are marked afterwards, each selection that  *)
(* is still on its way will be sent once more, which Budget counts.        *)

\* The processes that will still send a notice.
Holders(n) == {p \in Processes : n \in held[p]}

\* A reminder that is held is marked, held once, and not sent yet.
RemindersClaimed ==
    \A r \in Reminders :
        /\ told[r] > 0 => r \in marked
        /\ \A p \in Processes : r \in held[p] =>
            /\ r \in marked
            /\ told[r] = 0
            /\ \A q \in Processes : r \in held[q] => q = p

\* What has been sent and will be, against what has been lost or doubled: one
\* sending is free once the notice is marked or on its way.
Budget ==
    \A n \in Nudges \cup Alerts :
        told[n] + Cardinality(Holders(n)) <=
            slips[n] + overlaps[n] + (IF n \in marked \/ Busy(n) # {} THEN 1 ELSE 0)

NoticesInv == NoticeTypeOK /\ RemindersClaimed /\ ReminderFate /\ Budget

-----------------------------------------------------------------------------

LEMMA HoldersFinite ==
    ASSUME NEW S \in SUBSET Processes
    PROVE  /\ IsFiniteSet(S)
           /\ Cardinality(S) \in Nat
           /\ \A T \in SUBSET S : Cardinality(T) \in Nat /\ Cardinality(T) <= Cardinality(S)
<1>1. IsFiniteSet(S)
  BY NoticesAssumption, FS_Subset
<1>2. ASSUME NEW T \in SUBSET S
      PROVE  Cardinality(T) \in Nat /\ Cardinality(T) <= Cardinality(S)
  BY <1>1, FS_Subset, FS_CardinalityType
<1> QED
  BY <1>1, <1>2, FS_CardinalityType

LEMMA AmongFacts ==
    ASSUME NEW counter \in [Notices -> Nat], NEW ns
    PROVE  /\ Among(counter, ns) \in [Notices -> Nat]
           /\ \A n \in Notices :
                Among(counter, ns)[n] = IF n \in ns THEN counter[n] + 1 ELSE counter[n]
  BY DEF Among

LEMMA NoticesBegin == NoticeInit => NoticesInv
<1> SUFFICES ASSUME NoticeInit
             PROVE  NoticesInv
  OBVIOUS
<1>1. NoticeTypeOK
  BY DEF NoticeInit, NoticeTypeOK
<1>2. RemindersClaimed /\ ReminderFate
  BY DEF NoticeInit, RemindersClaimed, ReminderFate, Notices
<1>3. \A n \in Nudges \cup Alerts : Holders(n) = {} /\ told[n] = 0 /\ slips[n] = 0 /\ overlaps[n] = 0
  BY DEF NoticeInit, Holders, Notices
<1>4. Budget
  BY <1>3, FS_EmptySet DEF Budget
<1> QED
  BY <1>1, <1>2, <1>4 DEF NoticesInv

-----------------------------------------------------------------------------
(* Types                                                                   *)

LEMMA NoticeTypesStep ==
    ASSUME NoticeTypeOK, NoticeNext
    PROVE  NoticeTypeOK'
<1>1. CASE \E r \in Reminders : FallsDue(r)
  BY <1>1 DEF FallsDue, NoticeTypeOK
<1>2. ASSUME NEW p \in Processes, ClaimReminders(p)
      PROVE  NoticeTypeOK'
  BY <1>2 DEF ClaimReminders, DueReminders, NoticeTypeOK, Notices
<1>3. ASSUME NEW p \in Processes, SelectNudges(p) \/ SelectAlerts(p)
      PROVE  NoticeTypeOK'
  <2>1. PICK kind \in {Nudges, Alerts} : Select(p, kind)
    BY <1>3 DEF SelectNudges, SelectAlerts
  <2>2. /\ held' = [held EXCEPT ![p] = kind \ marked]
        /\ overlaps' = Among(overlaps, {n \in kind \ marked : Busy(n) # {}})
        /\ UNCHANGED <<due, marked, unmarked, told, dropped, slips, mishaps>>
    BY <2>1 DEF Select
  <2>3. held' \in [Processes -> SUBSET Notices]
    BY <2>2 DEF NoticeTypeOK, Notices
  <2>4. overlaps' \in [Notices -> Nat]
    BY <2>2, AmongFacts DEF NoticeTypeOK
  <2> QED
    BY <2>2, <2>3, <2>4 DEF NoticeTypeOK
<1>4. ASSUME NEW p \in Processes, Mark(p) \/ MarkFails(p) \/ Dies(p)
      PROVE  NoticeTypeOK'
  <2>1. /\ slips' = slips \/ slips' = Among(slips, unmarked[p])
        /\ UNCHANGED <<due, told, overlaps>>
    BY <1>4 DEF Mark, MarkFails, Dies
  <2>2. slips' \in [Notices -> Nat]
    BY <2>1, AmongFacts DEF NoticeTypeOK
  <2>3. mishaps' \in Nat
    BY <1>4 DEF Mark, MarkFails, Dies, NoticeTypeOK
  <2>4. marked' \subseteq Notices /\ dropped' \subseteq Reminders
    BY <1>4 DEF Mark, MarkedNow, MarkFails, Dies, NoticeTypeOK, Notices
  <2>5. /\ held' \in [Processes -> SUBSET Notices]
        /\ unmarked' \in [Processes -> SUBSET (Nudges \cup Alerts)]
    BY <1>4 DEF Mark, MarkFails, Dies, NoticeTypeOK
  <2> QED
    BY <2>1, <2>2, <2>3, <2>4, <2>5 DEF NoticeTypeOK
<1>5. ASSUME NEW p \in Processes, NEW n \in Notices,
             \/ TellReminder(p, n) \/ ReminderRefused(p, n)
             \/ TellNudge(p, n) \/ NudgeRefused(p, n) \/ TellAlert(p, n)
      PROVE  NoticeTypeOK'
  BY <1>5, AmongFacts
     DEF TellReminder, ReminderRefused, TellNudge, NudgeRefused, TellAlert, Unhold,
         NoticeTypeOK
<1> QED
  BY <1>1, <1>2, <1>3, <1>4, <1>5 DEF NoticeNext

-----------------------------------------------------------------------------
(* Reminders                                                               *)

\* The reminders of a step that neither holds, sends nor loses any stay right.
LEMMA RemindersUntouched ==
    ASSUME NoticesInv, NoticeTypeOK',
           \A r \in Reminders :
              /\ told'[r] = told[r] /\ (r \in marked' <=> r \in marked)
              /\ \A p \in Processes : r \in held'[p] <=> r \in held[p],
           dropped \subseteq dropped'
    PROVE  RemindersClaimed' /\ ReminderFate'
<1>1. \A r \in Reminders, p \in Processes : r \notin unmarked[p] /\ r \notin unmarked'[p]
  BY NoticesAssumption DEF NoticesInv, NoticeTypeOK
<1>2. RemindersClaimed'
  BY DEF NoticesInv, RemindersClaimed
<1>3. ReminderFate'
  BY <1>1 DEF NoticesInv, ReminderFate, Busy
<1> QED
  BY <1>2, <1>3

LEMMA ClaimStep ==
    ASSUME NoticesInv, NEW p \in Processes, ClaimReminders(p)
    PROVE  RemindersClaimed' /\ ReminderFate'
<1>1. /\ marked' = marked \cup DueReminders
      /\ held' = [held EXCEPT ![p] = DueReminders]
      /\ UNCHANGED <<due, unmarked, told, dropped>>
      /\ held \in [Processes -> SUBSET Notices]
      /\ told \in [Notices -> Nat]
      /\ held[p] = {} /\ unmarked[p] = {}
  BY DEF ClaimReminders, Idle, NoticesInv, NoticeTypeOK
<1>2. RemindersClaimed'
  <2> SUFFICES ASSUME NEW r \in Reminders
               PROVE  /\ told'[r] > 0 => r \in marked'
                      /\ \A q \in Processes : r \in held'[q] =>
                          /\ r \in marked' /\ told'[r] = 0
                          /\ \A s \in Processes : r \in held'[s] => s = q
    BY DEF RemindersClaimed
  <2>1. CASE r \in DueReminders
    <3>1. \A q \in Processes : r \notin held[q]
      BY <2>1 DEF NoticesInv, RemindersClaimed, DueReminders
    <3>2. told[r] = 0
      BY <1>1, <2>1 DEF NoticesInv, RemindersClaimed, DueReminders, Notices
    <3> QED
      BY <1>1, <2>1, <3>1, <3>2
  <2>2. CASE r \notin DueReminders
    BY <1>1, <2>2 DEF NoticesInv, RemindersClaimed
  <2> QED
    BY <2>1, <2>2
<1>3. ReminderFate'
  <2> SUFFICES ASSUME NEW r \in Reminders
               PROVE  /\ told'[r] <= 1
                      /\ r \in marked' => \/ told'[r] = 1 \/ r \in dropped'
                                          \/ Busy(r)' # {}
    BY DEF ReminderFate
  <2>1. CASE r \in DueReminders
    BY <1>1, <2>1 DEF NoticesInv, ReminderFate, Busy
  <2>2. CASE r \notin DueReminders
    <3>1. \A q \in Processes : q \in Busy(r) => q \in Busy(r)'
      BY <1>1, <2>2 DEF Busy
    <3>2. told[r] <= 1 /\ (r \in marked => told[r] = 1 \/ r \in dropped \/ Busy(r) # {})
      BY DEF NoticesInv, ReminderFate
    <3>3. Busy(r) # {} => Busy(r)' # {}
      BY <3>1 DEF Busy
    <3> QED
      BY <1>1, <2>2, <3>2, <3>3
  <2> QED
    BY <2>1, <2>2
<1> QED
  BY <1>2, <1>3

\* The one process that holds the reminder sends it, or Telegram refuses it.
LEMMA TellReminderStep ==
    ASSUME NoticesInv, NEW p \in Processes, NEW r \in Reminders,
           TellReminder(p, r) \/ ReminderRefused(p, r)
    PROVE  RemindersClaimed' /\ ReminderFate'
<1>1. /\ r \in held[p] /\ r \in marked /\ told[r] = 0
      /\ \A q \in Processes : r \in held[q] => q = p
      /\ held' = [held EXCEPT ![p] = @ \ {r}]
      /\ held \in [Processes -> SUBSET Notices]
      /\ told \in [Notices -> Nat] /\ r \in Notices
      /\ UNCHANGED <<marked, unmarked>>
  BY DEF TellReminder, ReminderRefused, Unhold, NoticesInv, RemindersClaimed, NoticeTypeOK, Notices
<1>2. \/ told' = Among(told, {r}) /\ dropped' = dropped
      \/ told' = told /\ dropped' = dropped \cup {r}
  BY DEF TellReminder, ReminderRefused
<1>3. \A s \in Notices : told'[s] = told[s] \/ (s = r /\ told'[s] = 1)
  BY <1>1, <1>2, AmongFacts
<1>4. RemindersClaimed'
  BY <1>1, <1>3 DEF NoticesInv, RemindersClaimed, Notices
<1>5. ReminderFate'
  <2> SUFFICES ASSUME NEW s \in Reminders
               PROVE  /\ told'[s] <= 1
                      /\ s \in marked' => \/ told'[s] = 1 \/ s \in dropped'
                                          \/ Busy(s)' # {}
    BY DEF ReminderFate
  <2>1. CASE s = r
    BY <1>1, <1>2, <2>1, AmongFacts
  <2>2. CASE s # r
    <3>1. Busy(s)' = Busy(s) /\ told'[s] = told[s] /\ dropped \subseteq dropped'
      BY <1>1, <1>2, <1>3, <2>2 DEF Busy, Notices
    <3> QED
      BY <1>1, <3>1 DEF NoticesInv, ReminderFate
  <2> QED
    BY <2>1, <2>2
<1> QED
  BY <1>4, <1>5

\* What a process that dies was holding is lost.
LEMMA DiesReminders ==
    ASSUME NoticesInv, NEW p \in Processes, Dies(p)
    PROVE  RemindersClaimed' /\ ReminderFate'
<1>1. /\ dropped' = dropped \cup (held[p] \cap Reminders)
      /\ held' = [held EXCEPT ![p] = {}]
      /\ unmarked' = [unmarked EXCEPT ![p] = {}]
      /\ UNCHANGED <<marked, told>>
      /\ held \in [Processes -> SUBSET Notices]
      /\ unmarked \in [Processes -> SUBSET (Nudges \cup Alerts)]
  BY DEF Dies, NoticesInv, NoticeTypeOK
<1>2. RemindersClaimed'
  BY <1>1 DEF NoticesInv, RemindersClaimed
<1>3. ReminderFate'
  <2> SUFFICES ASSUME NEW r \in Reminders
               PROVE  /\ told'[r] <= 1
                      /\ r \in marked' => \/ told'[r] = 1 \/ r \in dropped'
                                          \/ Busy(r)' # {}
    BY DEF ReminderFate
  <2>1. r \in held[p] \/ (\A q \in Processes : q \in Busy(r) => q \in Busy(r)')
    BY <1>1, NoticesAssumption DEF Busy
  <2>2. told[r] <= 1 /\ (r \in marked => told[r] = 1 \/ r \in dropped \/ Busy(r) # {})
    BY DEF NoticesInv, ReminderFate
  <2>3. r \in held[p] \/ (Busy(r) # {} => Busy(r)' # {})
    BY <2>1 DEF Busy
  <2> QED
    BY <1>1, <2>2, <2>3
<1> QED
  BY <1>2, <1>3

-----------------------------------------------------------------------------
(* Nudges and alerts                                                       *)

\* What Budget says of one notice.
BudgetOf(n) ==
    told[n] + Cardinality(Holders(n)) <=
        slips[n] + overlaps[n] + (IF n \in marked \/ Busy(n) # {} THEN 1 ELSE 0)

LEMMA Counts ==
    ASSUME NoticeTypeOK, NEW n \in Nudges \cup Alerts
    PROVE  /\ told[n] \in Nat /\ slips[n] \in Nat /\ overlaps[n] \in Nat
           /\ Cardinality(Holders(n)) \in Nat /\ IsFiniteSet(Holders(n))
           /\ Holders(n) \in SUBSET Processes
<1>1. Holders(n) \in SUBSET Processes
  BY DEF Holders
<1> QED
  BY <1>1, HoldersFinite DEF NoticeTypeOK, Notices

\* A step that leaves a notice alone leaves its budget alone.
LEMMA BudgetKept ==
    ASSUME NoticesInv, NEW n \in Nudges \cup Alerts,
           told'[n] = told[n], slips'[n] = slips[n], overlaps'[n] = overlaps[n],
           Holders(n)' = Holders(n), Busy(n)' = Busy(n), n \in marked' <=> n \in marked
    PROVE  BudgetOf(n)'
  BY DEF NoticesInv, Budget, BudgetOf

\* A process that finds the notice unmarked takes it up; when another has it
\* already, that is an overlap.
LEMMA SelectBudget ==
    ASSUME NoticesInv, NEW p \in Processes, SelectNudges(p) \/ SelectAlerts(p),
           NEW n \in Nudges \cup Alerts
    PROVE  BudgetOf(n)'
<1>1. PICK kind \in {Nudges, Alerts} : Select(p, kind)
  BY DEF SelectNudges, SelectAlerts
<1>2. /\ NoticeTypeOK /\ held[p] = {} /\ unmarked[p] = {}
      /\ held' = [held EXCEPT ![p] = kind \ marked]
      /\ overlaps' = Among(overlaps, {m \in kind \ marked : Busy(m) # {}})
      /\ UNCHANGED <<marked, unmarked, told, slips>>
  BY <1>1 DEF Select, Idle, NoticesInv
<1>3. /\ told[n] \in Nat /\ slips[n] \in Nat /\ overlaps[n] \in Nat
      /\ Cardinality(Holders(n)) \in Nat /\ IsFiniteSet(Holders(n))
      /\ held \in [Processes -> SUBSET Notices] /\ overlaps \in [Notices -> Nat]
      /\ n \in Notices
  BY <1>2, Counts DEF NoticeTypeOK, Notices
<1>4. BudgetOf(n)
  BY DEF NoticesInv, Budget, BudgetOf
<1>5. CASE n \in kind \ marked
  <2>1. /\ Holders(n)' = Holders(n) \cup {p} /\ p \notin Holders(n)
        /\ p \in Busy(n)'
    BY <1>2, <1>3, <1>5 DEF Holders, Busy
  <2>2. Cardinality(Holders(n)') = Cardinality(Holders(n)) + 1
    BY <1>3, <2>1, FS_AddElement
  <2>3. overlaps'[n] = IF Busy(n) # {} THEN overlaps[n] + 1 ELSE overlaps[n]
    BY <1>2, <1>3, <1>5, AmongFacts
  <2> QED
    BY <1>2, <1>3, <1>4, <1>5, <2>1, <2>2, <2>3 DEF BudgetOf
<1>6. CASE n \notin kind \ marked
  <2>1. Holders(n)' = Holders(n) /\ Busy(n)' = Busy(n)
    BY <1>2, <1>3, <1>6 DEF Holders, Busy
  <2>2. overlaps'[n] = overlaps[n]
    BY <1>2, <1>3, <1>6, AmongFacts
  <2> QED
    BY <1>2, <2>1, <2>2, BudgetKept
<1> QED
  BY <1>5, <1>6

\* A notice leaves the hands of one process: sent, which the process has yet to
\* mark, or refused.
LEMMA TellBudget ==
    ASSUME NoticesInv, NEW p \in Processes, NEW m \in Notices,
           TellNudge(p, m) \/ NudgeRefused(p, m) \/ TellAlert(p, m),
           NEW n \in Nudges \cup Alerts
    PROVE  BudgetOf(n)'
<1>1. /\ NoticeTypeOK /\ m \in held[p]
      /\ held' = [held EXCEPT ![p] = @ \ {m}]
      /\ UNCHANGED <<marked, slips, overlaps>>
      /\ held \in [Processes -> SUBSET Notices]
      /\ unmarked \in [Processes -> SUBSET (Nudges \cup Alerts)]
      /\ told \in [Notices -> Nat] /\ n \in Notices
  BY DEF TellNudge, NudgeRefused, TellAlert, Unhold, NoticesInv, NoticeTypeOK, Notices
<1>2. \/ told' = told /\ unmarked' = unmarked
      \/ /\ told' \in {told, Among(told, {m})}
         /\ unmarked' = [unmarked EXCEPT ![p] = @ \cup {m}]
      \/ /\ told' = Among(told, {m})
         /\ unmarked' = [unmarked EXCEPT ![p] = {m}]
         /\ unmarked[p] = {}
  BY DEF TellNudge, NudgeRefused, TellAlert
<1>3. /\ told[n] \in Nat /\ slips[n] \in Nat /\ overlaps[n] \in Nat
      /\ Cardinality(Holders(n)) \in Nat /\ IsFiniteSet(Holders(n))
  BY <1>1, Counts
<1>4. BudgetOf(n)
  BY DEF NoticesInv, Budget, BudgetOf
<1>5. CASE n = m
  <2>1. Holders(n)' = Holders(n) \ {p} /\ p \in Holders(n)
    BY <1>1, <1>5 DEF Holders
  <2>2. Cardinality(Holders(n)') = Cardinality(Holders(n)) - 1
    BY <1>3, <2>1, FS_RemoveElement
  <2>3. \/ told'[n] = told[n]
        \/ told'[n] = told[n] + 1 /\ p \in Busy(n)'
    BY <1>1, <1>2, <1>5, AmongFacts DEF Busy
  <2>4. p \in Busy(n)
    BY <1>1, <1>5 DEF Busy
  <2> QED
    BY <1>1, <1>3, <1>4, <2>2, <2>3, <2>4 DEF BudgetOf
<1>6. CASE n # m
  <2>1. Holders(n)' = Holders(n) /\ Busy(n)' = Busy(n)
    BY <1>1, <1>2, <1>6 DEF Holders, Busy
  <2>2. told'[n] = told[n]
    BY <1>1, <1>2, <1>6, AmongFacts
  <2> QED
    BY <1>1, <2>1, <2>2, BudgetKept
<1> QED
  BY <1>5, <1>6

\* A mark, or one that is lost with the statement or the process.
LEMMA MarkBudget ==
    ASSUME NoticesInv, NEW p \in Processes, Mark(p) \/ MarkFails(p) \/ Dies(p),
           NEW n \in Nudges \cup Alerts
    PROVE  BudgetOf(n)'
<1>1. /\ NoticeTypeOK
      /\ held' = held \/ held' = [held EXCEPT ![p] = {}]
      /\ unmarked' = [unmarked EXCEPT ![p] = {}]
      /\ \/ marked' = marked \cup unmarked[p] /\ slips' = slips /\ held' = held
         \/ marked' = marked /\ slips' = Among(slips, unmarked[p])
      /\ UNCHANGED <<told, overlaps>>
      /\ held \in [Processes -> SUBSET Notices]
      /\ unmarked \in [Processes -> SUBSET (Nudges \cup Alerts)]
      /\ slips \in [Notices -> Nat] /\ n \in Notices
  BY DEF Mark, MarkedNow, MarkFails, Dies, NoticesInv, NoticeTypeOK, Notices
<1>2. /\ told[n] \in Nat /\ slips[n] \in Nat /\ overlaps[n] \in Nat
      /\ Cardinality(Holders(n)) \in Nat /\ IsFiniteSet(Holders(n))
      /\ Holders(n) \in SUBSET Processes
  BY <1>1, Counts
<1>3. BudgetOf(n)
  BY DEF NoticesInv, Budget, BudgetOf
<1>4. Holders(n)' \in SUBSET Holders(n)
  BY <1>1 DEF Holders
<1>5. /\ Cardinality(Holders(n)') \in Nat
      /\ Cardinality(Holders(n)') <= Cardinality(Holders(n))
  BY <1>2, <1>4, HoldersFinite
<1>6. CASE n \in unmarked[p]
  <2>1. \/ n \in marked' /\ slips'[n] = slips[n]
        \/ slips'[n] = slips[n] + 1
    BY <1>1, <1>6, AmongFacts
  <2>2. marked \subseteq marked'
    BY <1>1
  <2> QED
    BY <1>1, <1>2, <1>3, <1>5, <2>1, <2>2 DEF BudgetOf
<1>7. CASE n \in held[p] /\ n \notin unmarked[p]
  <2>1. /\ slips'[n] = slips[n] /\ p \in Busy(n)
        /\ marked \subseteq marked'
    BY <1>1, <1>7, AmongFacts DEF Busy
  <2>2. CASE held' = held
    <3>1. p \in Busy(n)'
      BY <1>1, <1>7, <2>2 DEF Busy
    <3> QED
      BY <1>1, <1>2, <1>3, <1>5, <2>1, <3>1 DEF BudgetOf
  <2>3. CASE held' = [held EXCEPT ![p] = {}]
    <3>1. Holders(n)' = Holders(n) \ {p} /\ p \in Holders(n)
      BY <1>1, <1>7, <2>3 DEF Holders
    <3>2. Cardinality(Holders(n)') = Cardinality(Holders(n)) - 1
      BY <1>2, <3>1, FS_RemoveElement
    <3> QED
      BY <1>1, <1>2, <1>3, <2>1, <3>2 DEF BudgetOf
  <2> QED
    BY <1>1, <2>2, <2>3
<1>8. CASE n \notin held[p] /\ n \notin unmarked[p]
  <2>1. Holders(n)' = Holders(n) /\ Busy(n)' = Busy(n)
    BY <1>1, <1>8 DEF Holders, Busy
  <2>2. slips'[n] = slips[n] /\ (n \in marked' <=> n \in marked)
    BY <1>1, <1>8, AmongFacts
  <2> QED
    BY <1>1, <2>1, <2>2, BudgetKept
<1> QED
  BY <1>6, <1>7, <1>8

\* What happens to the reminders has nothing to do with the others.
LEMMA ReminderBudget ==
    ASSUME NoticesInv,
           \/ \E r \in Reminders : FallsDue(r)
           \/ \E p \in Processes : ClaimReminders(p)
           \/ \E p \in Processes, m \in Notices : TellReminder(p, m) \/ ReminderRefused(p, m),
           NEW n \in Nudges \cup Alerts
    PROVE  BudgetOf(n)'
<1>1. /\ n \in Notices /\ n \notin Reminders
      /\ held \in [Processes -> SUBSET Notices] /\ told \in [Notices -> Nat]
      /\ due \subseteq Reminders
  BY NoticesAssumption DEF NoticesInv, NoticeTypeOK, Notices
<1>2. /\ UNCHANGED <<unmarked, slips, overlaps>>
      /\ told'[n] = told[n]
      /\ n \in marked' <=> n \in marked
      /\ \A q \in Processes : n \in held'[q] <=> n \in held[q]
  <2>1. CASE \E r \in Reminders : FallsDue(r)
    BY <2>1 DEF FallsDue
  <2>2. ASSUME NEW p \in Processes, ClaimReminders(p)
        PROVE  <1>2!:
    BY <1>1, <2>2 DEF ClaimReminders, DueReminders, Idle
  <2>3. ASSUME NEW p \in Processes, NEW m \in Notices,
               TellReminder(p, m) \/ ReminderRefused(p, m)
        PROVE  <1>2!:
    BY <1>1, <2>3, AmongFacts DEF TellReminder, ReminderRefused, Unhold
  <2> QED
    BY <2>1, <2>2, <2>3
<1>3. Holders(n)' = Holders(n) /\ Busy(n)' = Busy(n)
  BY <1>2 DEF Holders, Busy
<1> QED
  BY <1>2, <1>3, BudgetKept

-----------------------------------------------------------------------------

LEMMA RemindersStep ==
    ASSUME NoticesInv, NoticeTypeOK', NoticeNext
    PROVE  RemindersClaimed' /\ ReminderFate'
<1>1. /\ held \in [Processes -> SUBSET Notices] /\ told \in [Notices -> Nat]
      /\ unmarked \in [Processes -> SUBSET (Nudges \cup Alerts)]
      /\ Reminders \subseteq Notices /\ Reminders \cap (Nudges \cup Alerts) = {}
  BY NoticesAssumption DEF NoticesInv, NoticeTypeOK, Notices
<1>2. CASE \E r \in Reminders : FallsDue(r)
  BY <1>2, RemindersUntouched DEF FallsDue
<1>3. ASSUME NEW p \in Processes, SelectNudges(p) \/ SelectAlerts(p)
      PROVE  RemindersClaimed' /\ ReminderFate'
  <2>1. PICK kind \in {Nudges, Alerts} : Select(p, kind)
    BY <1>3 DEF SelectNudges, SelectAlerts
  <2>2. /\ UNCHANGED <<told, marked, dropped>> /\ held[p] = {}
        /\ held' = [held EXCEPT ![p] = kind \ marked]
    BY <2>1 DEF Select, Idle
  <2> QED
    BY <1>1, <2>2, RemindersUntouched
<1>4. ASSUME NEW p \in Processes, Mark(p) \/ MarkFails(p)
      PROVE  RemindersClaimed' /\ ReminderFate'
  <2>1. /\ UNCHANGED <<told, held, dropped>>
        /\ marked' = marked \/ marked' = marked \cup unmarked[p]
    BY <1>4 DEF Mark, MarkedNow, MarkFails
  <2> QED
    BY <1>1, <2>1, RemindersUntouched
<1>5. ASSUME NEW p \in Processes, NEW n \in Notices,
             TellNudge(p, n) \/ NudgeRefused(p, n) \/ TellAlert(p, n)
      PROVE  RemindersClaimed' /\ ReminderFate'
  <2>1. /\ n \in Nudges \cup Alerts
        /\ told' = told \/ told' = Among(told, {n})
        /\ held' = [held EXCEPT ![p] = @ \ {n}]
        /\ UNCHANGED <<marked, dropped>>
    BY <1>5 DEF TellNudge, NudgeRefused, TellAlert, Unhold
  <2>2. \A r \in Reminders : told'[r] = told[r]
    BY <1>1, <2>1, AmongFacts
  <2>3. \A r \in Reminders, q \in Processes : r \in held'[q] <=> r \in held[q]
    BY <1>1, <2>1
  <2> QED
    BY <2>1, <2>2, <2>3, RemindersUntouched
<1>6. ASSUME NEW p \in Processes, NEW n \in Notices,
             TellReminder(p, n) \/ ReminderRefused(p, n)
      PROVE  RemindersClaimed' /\ ReminderFate'
  <2>1. n \in Reminders
    BY <1>6 DEF TellReminder, ReminderRefused
  <2> QED
    BY <1>6, <2>1, TellReminderStep
<1> QED
  BY <1>2, <1>3, <1>4, <1>5, <1>6, ClaimStep, DiesReminders DEF NoticeNext

LEMMA NoticesStep == NoticesInv /\ [NoticeNext]_noticeVars => NoticesInv'
<1> SUFFICES ASSUME NoticesInv, [NoticeNext]_noticeVars
             PROVE  NoticesInv'
  OBVIOUS
<1>1. CASE UNCHANGED noticeVars
  BY <1>1 DEF noticeVars, NoticesInv, NoticeTypeOK, RemindersClaimed, ReminderFate, Budget,
              Holders, Busy
<1>2. CASE NoticeNext
  <2>1. NoticeTypeOK'
    BY <1>2, NoticeTypesStep DEF NoticesInv
  <2>2. RemindersClaimed' /\ ReminderFate'
    BY <1>2, <2>1, RemindersStep
  <2>3. ASSUME NEW n \in Nudges \cup Alerts
        PROVE  BudgetOf(n)'
    BY <1>2, ReminderBudget, SelectBudget, TellBudget, MarkBudget DEF NoticeNext
  <2>4. Budget'
    BY <2>3 DEF Budget, BudgetOf
  <2> QED
    BY <2>1, <2>2, <2>4 DEF NoticesInv
<1> QED
  BY <1>1, <1>2

\* Every variable keeps its type.
THEOREM NoticesTypeCorrect == NoticeSpec => []NoticeTypeOK
<1>1. NoticesInv => NoticeTypeOK
  BY DEF NoticesInv
<1> QED
  BY <1>1, NoticesBegin, NoticesStep, PTL DEF NoticeSpec

\* A reminder is sent at most once, and one that is marked was sent, is on its
\* way, or was lost with its process or by Telegram.
THEOREM RemindersSentOnce == NoticeSpec => []ReminderFate
<1>1. NoticesInv => ReminderFate
  BY DEF NoticesInv
<1> QED
  BY <1>1, NoticesBegin, NoticesStep, PTL DEF NoticeSpec

\* A nudge or an alert is repeated once for each mark that was lost and each
\* selection that overlapped another, and for nothing else.
THEOREM NudgesRepeatedForCause == NoticeSpec => []NudgedOnce
<1>1. NoticesInv => NudgedOnce
  <2> SUFFICES ASSUME NoticesInv, NEW n \in Nudges \cup Alerts
               PROVE  told[n] <= 1 + slips[n] + overlaps[n]
    BY DEF NudgedOnce
  <2>1. /\ told[n] \in Nat /\ slips[n] \in Nat /\ overlaps[n] \in Nat
        /\ Cardinality(Holders(n)) \in Nat
    BY Counts DEF NoticesInv
  <2>2. told[n] + Cardinality(Holders(n)) <=
            slips[n] + overlaps[n] + (IF n \in marked \/ Busy(n) # {} THEN 1 ELSE 0)
    BY DEF NoticesInv, Budget
  <2> QED
    BY <2>1, <2>2
<1> QED
  BY <1>1, NoticesBegin, NoticesStep, PTL DEF NoticeSpec

-----------------------------------------------------------------------------
(* Board: the counters, the pins and the posts of the day                  *)

TapsBack(t) == tap[t].at = "liking" /\ tap[t].liked

\* Until a like is taken back twice at a time each tap that takes one back finds
\* it, and no other tap takes it.
LikesTrue ==
    ~undone =>
        /\ likesCount = Cardinality(likes)
        /\ \A t \in Taps : TapsBack(t) => tap[t].who \in likes
        /\ \A s, t \in Taps : TapsBack(s) /\ TapsBack(t) /\ tap[s].who = tap[t].who => s = t

\* A count that let a post be pinned was below the limit.
PinsLimited ==
    /\ Cardinality(Shown) <= MaxPinned \/ crowded
    /\ \A t \in Taps : tap[t].at = "pinning" => Cardinality(tap[t].shown) < MaxPinned

TapOf(t, c) == tap[t].at \in InDialogue /\ tap[t].who = c

\* One tap at a time is in the dialogue of a customer who does not hurry, and
\* there is room for a post while the dialogue can still publish one.
DialogueHolds(c) ==
    /\ \A s, t \in Taps : TapOf(s, c) /\ TapOf(t, c) => s = t
    /\ posts[c] <= MaxPosts
    /\ \A t \in Taps : TapOf(t, c) /\ tap[t].at # "clearing" => posts[c] < MaxPosts
    /\ draft[c] # "none" /\ (\A t \in Taps : TapOf(t, c) => tap[t].at # "clearing")
          => posts[c] < MaxPosts

BoardInv ==
    /\ BoardTypeOK
    /\ commentsCount + writing + uncounted = comments
    /\ LikesTrue
    /\ PinsLimited
    /\ \A c \in Customers \ hasty : DialogueHolds(c)

LEMMA TapTyped ==
    ASSUME BoardTypeOK, NEW t \in Taps
    PROVE  /\ tap[t].at \in {"new", "over", "liking", "pinning"} \cup InDialogue
           /\ tap[t].at = "liking" => tap[t].who \in Customers /\ tap[t].liked \in BOOLEAN
           /\ tap[t].at = "pinning" => tap[t].post \in Posts /\ tap[t].shown \in SUBSET Posts
           /\ tap[t].at \in InDialogue => tap[t].who \in Customers /\ tap[t] \in WritingTap
<1>1. tap[t] \in IdleTap \/ tap[t] \in LikingTap \/ tap[t] \in PinningTap \/ tap[t] \in WritingTap
  BY DEF BoardTypeOK, TapStates
<1>2. CASE tap[t] \in IdleTap
  BY <1>2 DEF IdleTap, InDialogue
<1>3. CASE tap[t] \in LikingTap
  BY <1>3 DEF LikingTap, InDialogue
<1>4. CASE tap[t] \in PinningTap
  BY <1>4 DEF PinningTap, InDialogue
<1>5. CASE tap[t] \in WritingTap
  BY <1>5 DEF WritingTap, InDialogue
<1> QED
  BY <1>1, <1>2, <1>3, <1>4, <1>5

LEMMA TapMoves ==
    ASSUME BoardTypeOK, NEW t \in Taps, NEW state \in TapStates, Becomes(t, state)
    PROVE  /\ tap' \in [Taps -> TapStates]
           /\ tap'[t] = state
           /\ \A u \in Taps \ {t} : tap'[u] = tap[u]
  BY DEF BoardTypeOK, Becomes

\* Nothing that counts about likes moves: none is taken back by a tap that did
\* not do so before.
LEMMA LikesStand ==
    ASSUME LikesTrue, UNCHANGED <<likes, likesCount>>, undone \in BOOLEAN, undone => undone',
           \A u \in Taps : TapsBack(u)' => TapsBack(u) /\ tap'[u].who = tap[u].who
    PROVE  LikesTrue'
  BY DEF LikesTrue

LEMMA PinsStand ==
    ASSUME PinsLimited, UNCHANGED <<pinned, deleted, crowded>>,
           \A u \in Taps : tap'[u].at = "pinning" =>
                tap[u].at = "pinning" /\ tap'[u].shown = tap[u].shown
    PROVE  PinsLimited'
  BY DEF PinsLimited, Shown

LEMMA DialogueStands ==
    ASSUME NEW c, DialogueHolds(c), draft'[c] = draft[c], posts'[c] = posts[c],
           \A u \in Taps : /\ tap'[u].at \in InDialogue <=> tap[u].at \in InDialogue
                           /\ tap[u].at \in InDialogue => tap'[u] = tap[u]
    PROVE  DialogueHolds(c)'
  BY DEF DialogueHolds, TapOf

LEMMA ShownFinite ==
    ASSUME BoardTypeOK
    PROVE  /\ Shown \in SUBSET Posts /\ IsFiniteSet(Shown)
           /\ IsFiniteSet(likes) /\ Cardinality(likes) \in Nat
<1>1. Shown \in SUBSET Posts /\ likes \in SUBSET Customers
  BY DEF BoardTypeOK, Shown
<1> QED
  BY <1>1, BoardAssumption, FS_Subset, FS_CardinalityType

LEMMA BoardBegins == BoardInit => BoardInv
<1> SUFFICES ASSUME BoardInit PROVE BoardInv
  OBVIOUS
<1>1. NewTap \in TapStates /\ NewTap.at = "new"
  BY DEF NewTap, TapStates, IdleTap
<1>2. BoardTypeOK
  <2>1. tap \in [Taps -> TapStates]
    BY <1>1 DEF BoardInit
  <2>2. /\ likes \subseteq Customers /\ likesCount \in Int
        /\ {comments, commentsCount, writing, uncounted} \subseteq Nat
        /\ {pinned, deleted} \subseteq SUBSET Posts
        /\ hasty \subseteq Customers
    BY DEF BoardInit
  <2>3. {undone, crowded} \subseteq BOOLEAN
    BY DEF BoardInit
  <2>4. /\ draft \in [Customers -> {"none", "text", "photo", "confirm"}]
        /\ posts \in [Customers -> Nat]
    BY DEF BoardInit
  <2> QED
    BY <2>1, <2>2, <2>3, <2>4 DEF BoardTypeOK
<1>3. \A t \in Taps : tap[t].at = "new"
  BY <1>1 DEF BoardInit
<1>4. commentsCount + writing + uncounted = comments
  BY DEF BoardInit
<1>5. LikesTrue
  BY <1>3, FS_EmptySet DEF BoardInit, LikesTrue, TapsBack
<1>6. PinsLimited
  <2>1. Shown = {} /\ MaxPinned \in Nat
    BY BoardAssumption DEF BoardInit, Shown
  <2> QED
    BY <1>3, <2>1, FS_EmptySet DEF PinsLimited
<1>7. \A c \in Customers : DialogueHolds(c)
  <2>1. MaxPosts \in Nat
    BY BoardAssumption
  <2> QED
    BY <1>3, <2>1 DEF BoardInit, DialogueHolds, TapOf, InDialogue
<1> QED
  BY <1>2, <1>4, <1>5, <1>6, <1>7 DEF BoardInv

-----------------------------------------------------------------------------
\* What BoardTypeOK says, one variable at a time.
LEMMA BoardTyped ==
    BoardTypeOK <=>
        /\ likes \subseteq Customers /\ likesCount \in Int
        /\ comments \in Nat /\ commentsCount \in Nat /\ writing \in Nat /\ uncounted \in Nat
        /\ pinned \subseteq Posts /\ deleted \subseteq Posts
        /\ undone \in BOOLEAN /\ crowded \in BOOLEAN
        /\ tap \in [Taps -> TapStates]
        /\ draft \in [Customers -> {"none", "text", "photo", "confirm"}]
        /\ posts \in [Customers -> Nat]
        /\ hasty \subseteq Customers
  BY DEF BoardTypeOK

LEMMA BoardTypedNext ==
    BoardTypeOK' <=>
        /\ likes' \subseteq Customers /\ likesCount' \in Int
        /\ comments' \in Nat /\ commentsCount' \in Nat /\ writing' \in Nat /\ uncounted' \in Nat
        /\ pinned' \subseteq Posts /\ deleted' \subseteq Posts
        /\ undone' \in BOOLEAN /\ crowded' \in BOOLEAN
        /\ tap' \in [Taps -> TapStates]
        /\ draft' \in [Customers -> {"none", "text", "photo", "confirm"}]
        /\ posts' \in [Customers -> Nat]
        /\ hasty' \subseteq Customers
  BY DEF BoardTypeOK

\* A tap that is over, or begins or ends outside the dialogue, leaves the
\* dialogues alone.
LEMMA OutsideDialogue ==
    ASSUME BoardInv, NEW t \in Taps, NEW state \in TapStates, Becomes(t, state),
           tap[t].at \notin InDialogue, state.at \notin InDialogue,
           UNCHANGED postVars
    PROVE  \A c \in Customers \ hasty' : DialogueHolds(c)'
<1> SUFFICES ASSUME NEW c \in Customers \ hasty' PROVE DialogueHolds(c)'
  OBVIOUS
<1>1. DialogueHolds(c) /\ draft'[c] = draft[c] /\ posts'[c] = posts[c]
  BY DEF BoardInv, postVars
<1>2. tap'[t] = state /\ \A u \in Taps \ {t} : tap'[u] = tap[u]
  BY TapMoves DEF BoardInv
<1>3. \A u \in Taps : /\ tap'[u].at \in InDialogue <=> tap[u].at \in InDialogue
                      /\ tap[u].at \in InDialogue => tap'[u] = tap[u]
  BY <1>2
<1> QED
  BY <1>1, <1>3, DialogueStands

LEMMA LookLikedStep ==
    ASSUME BoardInv, NEW t \in Taps, NEW c \in Customers, LookLiked(t, c)
    PROVE  BoardInv'
<1>1. PICK state : state = [at |-> "liking", who |-> c, liked |-> c \in likes]
  OBVIOUS
<1>2. /\ state \in TapStates /\ state.at = "liking" /\ state.who = c
      /\ state.liked <=> c \in likes
  <2>1. (c \in likes) \in BOOLEAN
    OBVIOUS
  <2>2. state \in LikingTap
    BY <1>1, <2>1 DEF LikingTap
  <2> QED
    BY <1>1, <2>2 DEF TapStates
<1>3. /\ tap[t].at = "new" /\ Becomes(t, state)
      /\ undone' = (undone \/ (c \in likes /\ Unliking(c) # {}))
      /\ UNCHANGED <<likeVars, commentVars, pinVars, postVars, crowded>>
  BY <1>1 DEF LookLiked
<1>4. /\ tap' \in [Taps -> TapStates] /\ tap'[t] = state
      /\ \A u \in Taps \ {t} : tap'[u] = tap[u]
  BY <1>2, <1>3, TapMoves DEF BoardInv
<1>5. BoardTypeOK'
  <2>1. undone' \in BOOLEAN
    BY <1>3
  <2> QED
    BY <1>3, <1>4, <2>1, BoardTyped, BoardTypedNext
       DEF BoardInv, likeVars, commentVars, pinVars, postVars
<1>6. LikesTrue'
  <2> SUFFICES ASSUME ~undone' PROVE LikesTrue'
    BY DEF LikesTrue
  <2>1. ~undone /\ ~(c \in likes /\ Unliking(c) # {})
    BY <1>3
  <2>2. \A u \in Taps \ {t} : TapsBack(u)' => TapsBack(u) /\ tap'[u] = tap[u]
    BY <1>4 DEF TapsBack
  <2>3. TapsBack(t)' => c \in likes /\ tap'[t].who = c
    BY <1>2, <1>4 DEF TapsBack
  <2>4. ASSUME NEW u \in Taps \ {t}, TapsBack(t)', TapsBack(u)', tap'[u].who = c
        PROVE  FALSE
    BY <2>1, <2>2, <2>3, <2>4 DEF Unliking, TapsBack
  <2> QED
    BY <1>2, <1>3, <1>4, <2>1, <2>2, <2>3, <2>4 DEF BoardInv, LikesTrue, likeVars
<1>7. PinsLimited'
  BY <1>2, <1>3, <1>4, PinsStand DEF BoardInv, pinVars
<1>8. \A d \in Customers \ hasty' : DialogueHolds(d)'
  BY <1>2, <1>3, OutsideDialogue DEF InDialogue
<1> QED
  BY <1>3, <1>5, <1>6, <1>7, <1>8 DEF BoardInv, commentVars

\* A tap that ends outside the dialogue and takes no like back.
LEMMA OverState == /\ [at |-> "over"] \in TapStates
                   /\ [at |-> "over"].at = "over"
                   /\ "over" \notin InDialogue /\ "new" \notin InDialogue
                   /\ "liking" \notin InDialogue /\ "pinning" \notin InDialogue
  BY DEF TapStates, IdleTap, InDialogue

LEMMA Ends ==
    ASSUME BoardInv, NEW t \in Taps, Over(t)
    PROVE  /\ tap' \in [Taps -> TapStates] /\ tap'[t].at = "over"
           /\ \A u \in Taps \ {t} : tap'[u] = tap[u]
           /\ tap[t].at \notin InDialogue /\ UNCHANGED postVars =>
                \A c \in Customers \ hasty' : DialogueHolds(c)'
<1>1. PICK state : state = [at |-> "over"]
  OBVIOUS
<1>2. state \in TapStates /\ state.at = "over" /\ state.at \notin InDialogue
  BY <1>1, OverState
<1>3. Becomes(t, state)
  BY <1>1 DEF Over
<1> QED
  BY <1>2, <1>3, TapMoves, OutsideDialogue DEF BoardInv

LEMMA UnlikeStep ==
    ASSUME BoardInv, NEW t \in Taps, Unlike(t)
    PROVE  BoardInv'
<1>1. PICK c : c = tap[t].who
  OBVIOUS
<1>2. /\ tap[t].at = "liking" /\ tap[t].liked /\ Over(t)
      /\ likes' = likes \ {c} /\ likesCount' = likesCount - 1
      /\ UNCHANGED <<commentVars, pinVars, postVars, undone, crowded>>
  BY <1>1 DEF Unlike
<1>3. /\ tap' \in [Taps -> TapStates] /\ tap'[t].at = "over"
      /\ \A u \in Taps \ {t} : tap'[u] = tap[u]
      /\ \A d \in Customers \ hasty' : DialogueHolds(d)'
  BY <1>2, Ends, OverState
<1>4. BoardTypeOK'
  BY <1>2, <1>3, BoardTyped, BoardTypedNext DEF BoardInv, commentVars, pinVars, postVars
<1>5. LikesTrue'
  <2> SUFFICES ASSUME ~undone' PROVE LikesTrue'
    BY DEF LikesTrue
  <2>1. /\ likesCount = Cardinality(likes) /\ c \in likes
        /\ \A u \in Taps : TapsBack(u) => tap[u].who \in likes
        /\ \A s, u \in Taps : TapsBack(s) /\ TapsBack(u) /\ tap[s].who = tap[u].who => s = u
    BY <1>1, <1>2 DEF BoardInv, LikesTrue, TapsBack
  <2>2. Cardinality(likes \ {c}) = Cardinality(likes) - 1
    BY <2>1, ShownFinite, FS_RemoveElement DEF BoardInv
  <2>3. \A u \in Taps : TapsBack(u)' => u # t /\ TapsBack(u) /\ tap'[u] = tap[u]
    BY <1>3 DEF TapsBack
  <2>4. TapsBack(t)
    BY <1>2 DEF TapsBack
  <2>5. \A u \in Taps : TapsBack(u)' => tap'[u].who \in likes'
    BY <1>1, <1>2, <2>1, <2>3, <2>4
  <2> QED
    BY <1>2, <2>1, <2>2, <2>3, <2>5 DEF LikesTrue
<1>6. PinsLimited'
  BY <1>2, <1>3, PinsStand DEF BoardInv, pinVars
<1> QED
  BY <1>2, <1>3, <1>4, <1>5, <1>6 DEF BoardInv, commentVars

LEMMA LikeStep ==
    ASSUME BoardInv, NEW t \in Taps, Like(t)
    PROVE  BoardInv'
<1>1. PICK c : c = tap[t].who
  OBVIOUS
<1>2. /\ tap[t].at = "liking" /\ ~tap[t].liked /\ Over(t)
      /\ IF c \in likes THEN UNCHANGED <<likes, likesCount>>
                       ELSE likes' = likes \cup {c} /\ likesCount' = likesCount + 1
      /\ UNCHANGED <<commentVars, pinVars, postVars, undone, crowded>>
  BY <1>1 DEF Like, UniqueFails, likeVars
<1>3. /\ tap' \in [Taps -> TapStates] /\ tap'[t].at = "over"
      /\ \A u \in Taps \ {t} : tap'[u] = tap[u]
      /\ \A d \in Customers \ hasty' : DialogueHolds(d)'
  BY <1>2, Ends, OverState
<1>4. c \in Customers
  BY <1>1, <1>2, TapTyped DEF BoardInv
<1>5. BoardTypeOK'
  BY <1>2, <1>3, <1>4, BoardTyped, BoardTypedNext DEF BoardInv, commentVars, pinVars, postVars
<1>6. LikesTrue'
  <2> SUFFICES ASSUME ~undone' PROVE LikesTrue'
    BY DEF LikesTrue
  <2>1. /\ likesCount = Cardinality(likes)
        /\ \A u \in Taps : TapsBack(u) => tap[u].who \in likes
        /\ \A s, u \in Taps : TapsBack(s) /\ TapsBack(u) /\ tap[s].who = tap[u].who => s = u
    BY <1>2 DEF BoardInv, LikesTrue
  <2>2. c \notin likes => Cardinality(likes \cup {c}) = Cardinality(likes) + 1
    BY ShownFinite, FS_AddElement DEF BoardInv
  <2>3. \A u \in Taps : TapsBack(u)' => TapsBack(u) /\ tap'[u] = tap[u]
    BY <1>3 DEF TapsBack
  <2>4. likes \subseteq likes' /\ likesCount' = Cardinality(likes')
    BY <1>2, <2>1, <2>2
  <2> QED
    BY <2>1, <2>3, <2>4 DEF LikesTrue
<1>7. PinsLimited'
  BY <1>2, <1>3, PinsStand DEF BoardInv, pinVars
<1> QED
  BY <1>2, <1>3, <1>5, <1>6, <1>7 DEF BoardInv, commentVars

LEMMA CommentSteps ==
    ASSUME BoardInv, InsertComment \/ CountComment \/ LeaveUncounted
    PROVE  BoardInv'
<1>1. /\ comments \in Nat /\ commentsCount \in Nat /\ writing \in Nat /\ uncounted \in Nat
      /\ commentsCount + writing + uncounted = comments
  BY BoardTyped DEF BoardInv
<1>2. UNCHANGED <<likeVars, pinVars, postVars, tap, undone, crowded>>
  BY DEF InsertComment, CountComment, LeaveUncounted
<1>3. /\ comments' \in Nat /\ commentsCount' \in Nat /\ writing' \in Nat /\ uncounted' \in Nat
      /\ commentsCount' + writing' + uncounted' = comments'
  BY <1>1 DEF InsertComment, CountComment, LeaveUncounted
<1>4. BoardTypeOK'
  BY <1>2, <1>3, BoardTyped, BoardTypedNext DEF BoardInv, likeVars, pinVars, postVars
<1>5. LikesTrue'
  BY <1>2, BoardTyped, LikesStand DEF BoardInv, likeVars, TapsBack
<1>6. PinsLimited'
  BY <1>2, PinsStand DEF BoardInv, pinVars
<1>7. \A c \in Customers \ hasty' : DialogueHolds(c)'
  BY <1>2, DialogueStands DEF BoardInv, postVars
<1> QED
  BY <1>3, <1>4, <1>5, <1>6, <1>7 DEF BoardInv

LEMMA CountPinnedStep ==
    ASSUME BoardInv, NEW t \in Taps, NEW post \in Posts, CountPinned(t, post)
    PROVE  BoardInv'
<1>1. PICK state : state = IF Room(Cardinality(Shown))
                           THEN [at |-> "pinning", post |-> post, shown |-> Shown]
                           ELSE [at |-> "over"]
  OBVIOUS
<1>2. /\ tap[t].at = "new" /\ Becomes(t, state)
      /\ UNCHANGED <<likeVars, commentVars, pinVars, postVars, undone, crowded>>
  BY <1>1 DEF CountPinned, Over
<1>3. /\ state \in TapStates /\ state.at \in {"pinning", "over"}
      /\ state.at = "pinning" => Cardinality(state.shown) < MaxPinned
  <2>1. CASE Room(Cardinality(Shown))
    <3>1. state = [at |-> "pinning", post |-> post, shown |-> Shown]
      BY <1>1, <2>1
    <3>2. state \in PinningTap
      BY <3>1, ShownFinite DEF BoardInv, PinningTap
    <3> QED
      BY <2>1, <3>1, <3>2 DEF Room, TapStates
  <2>2. CASE ~Room(Cardinality(Shown))
    BY <1>1, <2>2, OverState
  <2> QED
    BY <2>1, <2>2
<1>4. /\ tap' \in [Taps -> TapStates] /\ tap'[t] = state
      /\ \A u \in Taps \ {t} : tap'[u] = tap[u]
  BY <1>2, <1>3, TapMoves DEF BoardInv
<1>5. BoardTypeOK'
  BY <1>2, <1>4, BoardTyped, BoardTypedNext DEF BoardInv, likeVars, commentVars, pinVars, postVars
<1>6. LikesTrue'
  BY <1>2, <1>3, <1>4, BoardTyped, LikesStand DEF BoardInv, likeVars, TapsBack
<1>7. PinsLimited'
  BY <1>2, <1>3, <1>4 DEF BoardInv, pinVars, PinsLimited, Shown
<1>8. \A c \in Customers \ hasty' : DialogueHolds(c)'
  BY <1>2, <1>3, OutsideDialogue, OverState
<1> QED
  BY <1>2, <1>5, <1>6, <1>7, <1>8 DEF BoardInv, commentVars

\* The posts shown once a post is pinned, with a count that was still right.
LEMMA PinStep ==
    ASSUME BoardInv, NEW t \in Taps, Pin(t)
    PROVE  BoardInv'
<1>1. PICK post, shown : post = tap[t].post /\ shown = tap[t].shown
  OBVIOUS
<1>2. /\ tap[t].at = "pinning" /\ Over(t) /\ pinned' = pinned \cup {post}
      /\ crowded' = (crowded \/ Shown # shown)
      /\ UNCHANGED <<likeVars, commentVars, deleted, postVars, undone>>
  BY <1>1 DEF Pin
<1>3. /\ tap' \in [Taps -> TapStates] /\ tap'[t].at = "over"
      /\ \A u \in Taps \ {t} : tap'[u] = tap[u]
      /\ \A d \in Customers \ hasty' : DialogueHolds(d)'
  BY <1>2, Ends, OverState
<1>4. /\ post \in Posts /\ crowded \in BOOLEAN /\ Cardinality(shown) < MaxPinned
      /\ MaxPinned \in Nat
  BY <1>1, <1>2, TapTyped, BoardTyped, BoardAssumption DEF BoardInv, PinsLimited
<1>5. BoardTypeOK'
  <2>1. crowded' \in BOOLEAN
    BY <1>2
  <2> QED
    BY <1>2, <1>3, <1>4, <2>1, BoardTyped, BoardTypedNext DEF BoardInv, likeVars, commentVars, postVars
<1>6. LikesTrue'
  BY <1>2, <1>3, BoardTyped, LikesStand DEF BoardInv, likeVars, TapsBack
<1>7. PinsLimited'
  <2>1. Cardinality(Shown') <= MaxPinned \/ crowded'
    <3> SUFFICES ASSUME ~crowded' PROVE Cardinality(Shown') <= MaxPinned
      OBVIOUS
    <3>1. Shown = shown
      BY <1>2
    <3>2. Shown' \in SUBSET (shown \cup {post})
      BY <1>2, <3>1 DEF Shown
    <3>3. IsFiniteSet(shown) /\ Cardinality(shown) \in Nat
      BY <3>1, ShownFinite, FS_CardinalityType DEF BoardInv
    <3>4. /\ IsFiniteSet(shown \cup {post})
          /\ Cardinality(shown \cup {post}) \in Nat
          /\ Cardinality(shown \cup {post}) <= Cardinality(shown) + 1
      <4>1. /\ IsFiniteSet(shown \cup {post})
            /\ Cardinality(shown \cup {post})
                = IF post \in shown THEN Cardinality(shown) ELSE Cardinality(shown) + 1
        BY <3>3, FS_AddElement
      <4> QED
        BY <3>3, <4>1
    <3>5. Cardinality(Shown') \in Nat /\ Cardinality(Shown') <= Cardinality(shown \cup {post})
      BY <3>2, <3>4, FS_Subset, FS_CardinalityType
    <3> QED
      BY <1>4, <3>3, <3>4, <3>5
  <2>2. \A u \in Taps : tap'[u].at = "pinning" => Cardinality(tap'[u].shown) < MaxPinned
    BY <1>3 DEF BoardInv, PinsLimited
  <2> QED
    BY <2>1, <2>2 DEF PinsLimited
<1> QED
  BY <1>2, <1>3, <1>5, <1>6, <1>7 DEF BoardInv, commentVars

LEMMA UnpinStep ==
    ASSUME BoardInv, NEW t \in Taps, NEW post \in Posts, Unpin(t, post) \/ DeletePost(t, post)
    PROVE  BoardInv'
<1>1. /\ tap[t].at = "new" /\ Over(t) /\ Shown' \in SUBSET Shown
      /\ pinned' \subseteq Posts /\ deleted' \subseteq Posts
      /\ UNCHANGED <<likeVars, commentVars, postVars, undone, crowded>>
  BY BoardTyped DEF BoardInv, Unpin, DeletePost, Shown
<1>2. /\ tap' \in [Taps -> TapStates] /\ tap'[t].at = "over"
      /\ \A u \in Taps \ {t} : tap'[u] = tap[u]
      /\ \A d \in Customers \ hasty' : DialogueHolds(d)'
  BY <1>1, Ends, OverState
<1>3. BoardTypeOK'
  BY <1>1, <1>2, BoardTyped, BoardTypedNext DEF BoardInv, likeVars, commentVars, postVars
<1>4. LikesTrue'
  BY <1>1, <1>2, BoardTyped, LikesStand DEF BoardInv, likeVars, TapsBack
<1>5. PinsLimited'
  <2>1. Cardinality(Shown') \in Nat /\ Cardinality(Shown) \in Nat
        /\ Cardinality(Shown') <= Cardinality(Shown) /\ MaxPinned \in Nat
    BY <1>1, ShownFinite, FS_Subset, FS_CardinalityType, BoardAssumption DEF BoardInv
  <2>2. \A u \in Taps : tap'[u].at = "pinning" => Cardinality(tap'[u].shown) < MaxPinned
    BY <1>2 DEF BoardInv, PinsLimited
  <2> QED
    BY <1>1, <2>1, <2>2 DEF BoardInv, PinsLimited
<1> QED
  BY <1>1, <1>2, <1>3, <1>4, <1>5 DEF BoardInv, commentVars

\* A step of the dialogues changes nothing that counts about likes and pins.
LEMMA BesideDialogue ==
    ASSUME BoardInv, UNCHANGED <<likeVars, commentVars, pinVars, undone, crowded>>,
           tap' \in [Taps -> TapStates],
           draft' \in [Customers -> {"none", "text", "photo", "confirm"}],
           posts' \in [Customers -> Nat], hasty' \subseteq Customers,
           \A u \in Taps : tap'[u].at \in {"liking", "pinning"} => tap'[u] = tap[u],
           \A c \in Customers \ hasty' : DialogueHolds(c)'
    PROVE  BoardInv'
<1>1. BoardTypeOK'
  BY BoardTyped, BoardTypedNext DEF BoardInv, likeVars, commentVars, pinVars
<1>2. LikesTrue'
  BY BoardTyped, LikesStand DEF BoardInv, likeVars, TapsBack
<1>3. PinsLimited'
  BY PinsStand DEF BoardInv, pinVars
<1> QED
  BY <1>1, <1>2, <1>3 DEF BoardInv, commentVars

\* Entering a dialogue: the customer who is in one already is hasty from now on.
LEMMA EntersStep ==
    ASSUME BoardInv, NEW t \in Taps, NEW c \in Customers,
           NEW at \in {"writing", "publishing"}, Enters(t, c, at),
           tap[t].at = "new",
           posts[c] < MaxPosts \/ (draft[c] # "none" /\ at = "publishing"),
           UNCHANGED <<likeVars, commentVars, pinVars, draft, posts, undone, crowded>>
    PROVE  BoardInv'
<1>1. PICK state : state = [at |-> at, who |-> c]
  OBVIOUS
<1>2. /\ state \in TapStates /\ state.at = at /\ state.who = c
      /\ at \in InDialogue /\ "new" \notin InDialogue
      /\ at \notin {"liking", "pinning", "clearing"}
  BY <1>1 DEF TapStates, WritingTap, InDialogue
<1>3. /\ tap' \in [Taps -> TapStates] /\ tap'[t] = state
      /\ \A u \in Taps \ {t} : tap'[u] = tap[u]
  <2>1. Becomes(t, state)
    BY <1>1 DEF Enters
  <2> QED
    BY <1>2, <2>1, TapMoves DEF BoardInv
<1>4. /\ hasty \subseteq hasty' /\ hasty' \subseteq hasty \cup {c}
      /\ c \notin hasty' => \A s \in Taps : ~TapOf(s, c)
  BY DEF Enters, TapOf
<1>5. ASSUME NEW d \in Customers \ hasty', d # c PROVE DialogueHolds(d)'
  <2>1. DialogueHolds(d)
    BY <1>4 DEF BoardInv
  <2>2. \A u \in Taps : TapOf(u, d)' => u # t /\ TapOf(u, d) /\ tap'[u] = tap[u]
    BY <1>2, <1>3, <1>5 DEF TapOf
  <2>3. \A u \in Taps : TapOf(u, d) => TapOf(u, d)' /\ tap'[u] = tap[u]
    BY <1>2, <1>3, <1>5 DEF TapOf
  <2> QED
    BY <2>1, <2>2, <2>3 DEF DialogueHolds
<1>6. ASSUME c \notin hasty' PROVE DialogueHolds(c)'
  <2>1. DialogueHolds(c) /\ \A s \in Taps : ~TapOf(s, c)
    BY <1>4, <1>6 DEF BoardInv
  <2>2. \A u \in Taps : TapOf(u, c)' => u = t /\ tap'[u].at = at
    BY <1>2, <1>3, <2>1 DEF TapOf
  <2>3. posts[c] < MaxPosts
    BY <2>1 DEF DialogueHolds
  <2> QED
    BY <1>2, <2>1, <2>2, <2>3 DEF DialogueHolds
<1>7. \A u \in Taps : tap'[u].at \in {"liking", "pinning"} => tap'[u] = tap[u]
  BY <1>2, <1>3
<1>8. hasty' \subseteq Customers
  BY <1>4, BoardTyped DEF BoardInv
<1> QED
  BY <1>3, <1>5, <1>6, <1>7, <1>8, BesideDialogue, BoardTyped DEF BoardInv

LEMMA DraftStep ==
    ASSUME BoardInv, NEW t \in Taps, Draft(t) \/ ClearDraft(t)
    PROVE  BoardInv'
<1>1. PICK c : c = tap[t].who
  OBVIOUS
<1>2. PICK text \in {"text", "none"} :
        /\ draft' = [draft EXCEPT ![c] = text]
        /\ tap[t].at \in {"writing", "clearing"} /\ Over(t)
        /\ text = "text" => tap[t].at = "writing"
        /\ UNCHANGED <<likeVars, commentVars, pinVars, posts, hasty, undone, crowded>>
  BY <1>1 DEF Draft, ClearDraft, Cleared
<1>3. tap[t].at \in InDialogue /\ c \in Customers /\ TapOf(t, c)
  BY <1>1, <1>2, TapTyped DEF BoardInv, InDialogue, TapOf
<1>4. /\ tap' \in [Taps -> TapStates] /\ tap'[t].at = "over"
      /\ \A u \in Taps \ {t} : tap'[u] = tap[u]
  BY <1>2, Ends
<1>5. /\ draft' \in [Customers -> {"none", "text", "photo", "confirm"}]
      /\ draft'[c] = text /\ \A d \in Customers \ {c} : draft'[d] = draft[d]
  BY <1>2, <1>3, BoardTyped DEF BoardInv
<1>6. ASSUME NEW d \in Customers \ hasty' PROVE DialogueHolds(d)'
  <2>1. DialogueHolds(d) /\ posts'[d] = posts[d]
    BY <1>2, <1>6 DEF BoardInv
  <2>2. \A u \in Taps : TapOf(u, d)' => u # t /\ TapOf(u, d) /\ tap'[u] = tap[u]
    BY <1>4, OverState DEF TapOf
  <2>3. CASE d = c
    <3>1. \A u \in Taps : ~TapOf(u, d)'
      BY <1>3, <2>1, <2>2, <2>3 DEF DialogueHolds
    <3>2. text = "text" => posts[d] < MaxPosts
      BY <1>2, <1>3, <2>1, <2>3 DEF DialogueHolds
    <3> QED
      BY <1>5, <2>1, <2>3, <3>1, <3>2 DEF DialogueHolds
  <2>4. CASE d # c
    <3>1. \A u \in Taps : TapOf(u, d) => TapOf(u, d)' /\ tap'[u] = tap[u]
      BY <1>3, <1>4, <2>4 DEF TapOf
    <3>2. draft'[d] = draft[d]
      BY <1>5, <2>4
    <3> QED
      BY <2>1, <2>2, <3>1, <3>2 DEF DialogueHolds
  <2> QED
    BY <2>3, <2>4
<1>7. \A u \in Taps : tap'[u].at \in {"liking", "pinning"} => tap'[u] = tap[u]
  BY <1>4
<1> QED
  BY <1>2, <1>4, <1>5, <1>6, <1>7, BesideDialogue, BoardTyped DEF BoardInv

LEMMA PublishStep ==
    ASSUME BoardInv, NEW t \in Taps, Publish(t)
    PROVE  BoardInv'
<1>1. PICK c, state : c = tap[t].who /\ state = [tap[t] EXCEPT !.at = "clearing"]
  OBVIOUS
<1>2. /\ tap[t].at = "publishing" /\ posts' = [posts EXCEPT ![c] = @ + 1]
      /\ Becomes(t, state)
      /\ UNCHANGED <<likeVars, commentVars, pinVars, draft, hasty, undone, crowded>>
  BY <1>1 DEF Publish
<1>3. /\ tap[t] \in WritingTap /\ c \in Customers /\ TapOf(t, c)
      /\ "publishing" \in InDialogue /\ "clearing" \in InDialogue
  BY <1>1, <1>2, TapTyped DEF BoardInv, InDialogue, TapOf
<1>4. state \in TapStates /\ state.at = "clearing" /\ state.who = c
  BY <1>1, <1>3 DEF TapStates, WritingTap
<1>5. /\ tap' \in [Taps -> TapStates] /\ tap'[t] = state
      /\ \A u \in Taps \ {t} : tap'[u] = tap[u]
  BY <1>2, <1>4, TapMoves DEF BoardInv
<1>6. posts \in [Customers -> Nat]
  BY BoardTyped DEF BoardInv
<1>7. /\ posts' \in [Customers -> Nat]
      /\ posts'[c] = posts[c] + 1 /\ \A d \in Customers \ {c} : posts'[d] = posts[d]
  BY <1>2, <1>3, <1>6
<1>8. ASSUME NEW d \in Customers \ hasty' PROVE DialogueHolds(d)'
  <2>1. DialogueHolds(d) /\ draft'[d] = draft[d]
    BY <1>2, <1>8 DEF BoardInv
  <2>2. \A u \in Taps : TapOf(u, d)' <=> TapOf(u, d)
    BY <1>1, <1>2, <1>3, <1>4, <1>5 DEF TapOf
  <2>3. CASE d = c
    <3>1. \A u \in Taps : TapOf(u, d)' => u = t
      BY <1>3, <2>1, <2>2, <2>3 DEF DialogueHolds
    <3>2. posts[d] < MaxPosts /\ posts[d] \in Nat /\ MaxPosts \in Nat
      BY <1>2, <1>3, <1>6, <2>1, <2>3, BoardAssumption DEF DialogueHolds
    <3>3. TapOf(t, d)' /\ tap'[t].at = "clearing"
      BY <1>3, <1>4, <1>5, <2>2, <2>3
    <3> QED
      BY <1>7, <2>3, <3>1, <3>2, <3>3 DEF DialogueHolds
  <2>4. CASE d # c
    <3>1. \A u \in Taps : TapOf(u, d) => tap'[u] = tap[u]
      BY <1>3, <1>5, <2>4 DEF TapOf
    <3>2. posts'[d] = posts[d]
      BY <1>7, <2>4
    <3> QED
      BY <2>1, <2>2, <3>1, <3>2 DEF DialogueHolds
  <2> QED
    BY <2>3, <2>4
<1>9. \A u \in Taps : tap'[u].at \in {"liking", "pinning"} => tap'[u] = tap[u]
  BY <1>4, <1>5
<1> QED
  BY <1>2, <1>5, <1>7, <1>8, <1>9, BesideDialogue, BoardTyped DEF BoardInv

\* Turning the pages of a draft, and deleting a post, makes no room less.
LEMMA TurnStep ==
    ASSUME BoardInv, NEW c \in Customers,
           EnterText(c) \/ EnterPhoto(c) \/ EditPost(c) \/ CancelPost(c) \/ PostDeleted(c)
    PROVE  BoardInv'
<1>1. PICK place \in {"none", "text", "photo", "confirm"} :
        /\ draft' = [draft EXCEPT ![c] = place]
        /\ place # "none" => draft[c] # "none"
        /\ posts' = posts \/ (posts' = [posts EXCEPT ![c] = @ - 1] /\ posts[c] > 0)
        /\ UNCHANGED <<likeVars, commentVars, pinVars, tap, hasty, undone, crowded>>
  <2>1. CASE PostDeleted(c)
    <3>1. draft[c] \in {"none", "text", "photo", "confirm"} /\ draft' = [draft EXCEPT ![c] = draft[c]]
      BY <2>1, BoardTyped DEF BoardInv, PostDeleted
    <3> QED
      BY <2>1, <3>1 DEF PostDeleted
  <2>2. CASE EnterText(c) \/ EnterPhoto(c) \/ EditPost(c) \/ CancelPost(c)
    BY <2>2 DEF EnterText, EnterPhoto, EditPost, CancelPost, Turns
  <2> QED
    BY <2>1, <2>2
<1>2. /\ draft \in [Customers -> {"none", "text", "photo", "confirm"}]
      /\ posts \in [Customers -> Nat]
  BY BoardTyped DEF BoardInv
<1>3. /\ draft' \in [Customers -> {"none", "text", "photo", "confirm"}]
      /\ \A d \in Customers : draft'[d] # "none" => draft[d] # "none"
  BY <1>1, <1>2
<1>4. /\ posts' \in [Customers -> Nat]
      /\ \A d \in Customers : posts'[d] <= posts[d]
  BY <1>1, <1>2
<1>5. ASSUME NEW d \in Customers \ hasty' PROVE DialogueHolds(d)'
  <2>1. DialogueHolds(d)
    BY <1>1, <1>5 DEF BoardInv
  <2>2. posts[d] \in Nat /\ posts'[d] \in Nat /\ MaxPosts \in Nat /\ posts'[d] <= posts[d]
    BY <1>2, <1>4, BoardAssumption
  <2>3. \A u \in Taps : tap'[u] = tap[u]
    BY <1>1
  <2> QED
    BY <1>3, <2>1, <2>2, <2>3 DEF DialogueHolds, TapOf
<1>6. tap' \in [Taps -> TapStates]
  BY <1>1, BoardTyped DEF BoardInv
<1> QED
  BY <1>1, <1>3, <1>4, <1>5, <1>6, BesideDialogue, BoardTyped DEF BoardInv

LEMMA BoardSteps == BoardInv /\ [BoardNext]_boardVars => BoardInv'
<1> SUFFICES ASSUME BoardInv, [BoardNext]_boardVars PROVE BoardInv'
  OBVIOUS
<1>1. CASE \E c \in Customers :
            EnterText(c) \/ EnterPhoto(c) \/ EditPost(c) \/ CancelPost(c) \/ PostDeleted(c)
  BY <1>1, TurnStep
<1>2. CASE InsertComment \/ CountComment \/ LeaveUncounted
  BY <1>2, CommentSteps
<1>3. ASSUME NEW t \in Taps, Unlike(t) \/ Like(t) \/ Pin(t) \/ Draft(t) \/ Publish(t) \/ ClearDraft(t)
      PROVE  BoardInv'
  BY <1>3, UnlikeStep, LikeStep, PinStep, DraftStep, PublishStep
<1>4. ASSUME NEW t \in Taps, NEW c \in Customers,
             LookLiked(t, c) \/ CountPosts(t, c) \/ ConfirmPost(t, c)
      PROVE  BoardInv'
  <2>1. CASE LookLiked(t, c)
    BY <2>1, LookLikedStep
  <2>2. CASE CountPosts(t, c)
    BY <2>2, EntersStep DEF CountPosts
  <2>3. CASE ConfirmPost(t, c)
    BY <2>3, EntersStep DEF ConfirmPost
  <2> QED
    BY <1>4, <2>1, <2>2, <2>3
<1>5. ASSUME NEW t \in Taps, NEW post \in Posts,
             CountPinned(t, post) \/ Unpin(t, post) \/ DeletePost(t, post)
      PROVE  BoardInv'
  BY <1>5, CountPinnedStep, UnpinStep
<1>6. CASE UNCHANGED boardVars
  <2>1. /\ UNCHANGED <<likeVars, commentVars, pinVars, undone, crowded>>
        /\ UNCHANGED <<tap, draft, posts, hasty>>
    BY <1>6 DEF boardVars, likeVars, commentVars, pinVars
  <2>2. \A c \in Customers \ hasty' : DialogueHolds(c)'
    BY <2>1, DialogueStands DEF BoardInv
  <2> QED
    BY <2>1, <2>2, BesideDialogue, BoardTyped DEF BoardInv
<1> QED
  BY <1>1, <1>2, <1>3, <1>4, <1>5, <1>6 DEF BoardNext

\* The counters of a post agree with its tables whatever taps overlap, unless two
\* of them take back one like at a time; a comment is counted after it is written.
THEOREM CountersAreTrue == BoardSpec => []CountersTrue
<1>1. BoardInv => CountersTrue
  BY DEF BoardInv, LikesTrue, CountersTrue
<1> QED
  BY <1>1, BoardBegins, BoardSteps, PTL DEF BoardSpec

\* The limits of pins and of posts of a day hold as long as nothing changed
\* between the count and the write, and one tap at a time was in the dialogue.
THEOREM LimitsAreKept == BoardSpec => []LimitsHold
<1>1. BoardInv => LimitsHold
  BY DEF BoardInv, PinsLimited, DialogueHolds, LimitsHold
<1> QED
  BY <1>1, BoardBegins, BoardSteps, PTL DEF BoardSpec

-----------------------------------------------------------------------------
(* Chat: the newest messages survive every prune                           *)

Places == {"asked", "pairing", "questioned", "pruningQuestion", "answering", "inserted",
           "pruning", "over"}

\* The messages a prune down to an id does not touch are enough.
Enough(messages, id) == Cardinality({i \in messages : i > id}) >= MaxStored

ChatInv ==
    /\ ChatTypeOK
    /\ stored \subseteq said
    /\ ~underPrune =>
        /\ \A id \in said \ stored : Enough(said, id)
        /\ \A a \in Answers : cutoff[a] # 0 => Enough(said, cutoff[a])

LEMMA ChatTyped ==
    ChatTypeOK <=>
        /\ lastId \in Nat /\ clears \in Nat
        /\ stored \subseteq 1..lastId /\ said \subseteq 1..lastId
        /\ stage \in [Answers -> Places]
        /\ drawn \in [Answers -> SUBSET (1..lastId)]
        /\ cutoff \in [Answers -> 0..lastId]
        /\ underPrune \in BOOLEAN
  BY DEF ChatTypeOK, Places

LEMMA ChatTypedNext ==
    ChatTypeOK' <=>
        /\ lastId' \in Nat /\ clears' \in Nat
        /\ stored' \subseteq 1..lastId' /\ said' \subseteq 1..lastId'
        /\ stage' \in [Answers -> Places]
        /\ drawn' \in [Answers -> SUBSET (1..lastId')]
        /\ cutoff' \in [Answers -> 0..lastId']
        /\ underPrune' \in BOOLEAN
  BY DEF ChatTypeOK, Places

\* More messages, or an older id, are no fewer.
LEMMA EnoughStays ==
    ASSUME NEW n \in Nat, NEW T \in SUBSET (1..n), NEW S \in SUBSET T,
           NEW i \in Int, NEW j \in Int, j <= i, Enough(S, i)
    PROVE  Enough(T, j)
<1> DEFINE newerS == {k \in S : k > i}
           newerT == {k \in T : k > j}
<1>1. newerS \in SUBSET newerT /\ newerT \in SUBSET (1..n)
  <2>1. \A k \in T : k \in Int /\ k \in 1..n
    OBVIOUS
  <2>2. \A k \in S : k \in T /\ (k > i => k > j)
    BY <2>1
  <2> QED
    BY <2>1, <2>2
<1>2. IsFiniteSet(newerT) /\ Cardinality(newerT) \in Nat
  <2>1. IsFiniteSet(1..n)
    BY FS_Interval
  <2> QED
    BY <1>1, <2>1, FS_Subset, FS_CardinalityType
<1>3. Cardinality(newerS) \in Nat /\ Cardinality(newerS) <= Cardinality(newerT)
  BY <1>1, <1>2, FS_Subset, FS_CardinalityType
<1> QED
  BY <1>2, <1>3, ChatAssumption DEF Enough

LEMMA EnoughGrows ==
    ASSUME NEW n \in Nat, NEW T \in SUBSET (1..n), NEW S \in SUBSET T, NEW i \in Int
    PROVE  Enough(S, i) => Enough(T, i)
<1> SUFFICES ASSUME Enough(S, i) PROVE Enough(T, i)
  OBVIOUS
<1>1. i <= i
  OBVIOUS
<1> QED
  BY <1>1, EnoughStays

LEMMA ChatBegins == ChatInit => ChatInv
<1> SUFFICES ASSUME ChatInit PROVE ChatInv
  OBVIOUS
<1>1. /\ lastId = 0 /\ clears = 0 /\ stored = {} /\ said = {} /\ underPrune = FALSE
      /\ \A a \in Answers : cutoff[a] = 0
  BY DEF ChatInit
<1>2. /\ stage \in [Answers -> Places] /\ drawn \in [Answers -> SUBSET (1..0)]
      /\ cutoff \in [Answers -> 0..0]
  BY DEF ChatInit, Places
<1>3. ChatTypeOK
  <2>1. underPrune \in BOOLEAN
    BY <1>1
  <2>2. lastId \in Nat /\ clears \in Nat /\ stored \subseteq 1..lastId /\ said \subseteq 1..lastId
    BY <1>1
  <2> QED
    BY <1>1, <1>2, <2>1, <2>2, ChatTyped
<1> QED
  BY <1>1, <1>3 DEF ChatInv

\* An append adds messages and an id or two.
LEMMA AppendStep ==
    ASSUME ChatInv, NEW a \in Answers, DrawId(a) \/ InsertPair(a) \/ InsertMessage(a)
    PROVE  ChatInv'
<1>1. /\ lastId \in Nat /\ stored \subseteq 1..lastId /\ said \subseteq 1..lastId
      /\ stage \in [Answers -> Places]
      /\ drawn \in [Answers -> SUBSET (1..lastId)]
      /\ cutoff \in [Answers -> 0..lastId]
      /\ clears \in Nat /\ underPrune \in BOOLEAN /\ stored \subseteq said
  BY ChatTyped DEF ChatInv
<1>2. PICK place \in Places, own \in SUBSET (1..(lastId + 1)), new \in SUBSET (1..(lastId + 1)) :
        /\ lastId' = lastId + 1 /\ stage' = [stage EXCEPT ![a] = place]
        /\ drawn' = drawn \/ drawn' = [drawn EXCEPT ![a] = own]
        /\ stored' = stored \cup new /\ said' = said \cup new
        /\ UNCHANGED <<cutoff, clears, underPrune>>
  <2>1. CASE DrawId(a)
    <3>1. {lastId + 1} \in SUBSET (1..(lastId + 1)) /\ {} \in SUBSET (1..(lastId + 1))
          /\ "pairing" \in Places
      BY <1>1 DEF Places
    <3>2. stored' = stored \cup {} /\ said' = said \cup {}
      BY <2>1 DEF DrawId
    <3> QED
      BY <2>1, <3>1, <3>2 DEF DrawId, GoTo
  <2>2. CASE InsertPair(a)
    <3>1. /\ drawn[a] \cup {lastId + 1} \in SUBSET (1..(lastId + 1))
          /\ {} \in SUBSET (1..(lastId + 1)) /\ "inserted" \in Places
      BY <1>1 DEF Places
    <3> QED
      BY <2>2, <3>1 DEF InsertPair, GoTo, Commit
  <2>3. CASE InsertMessage(a)
    <3>1. /\ {lastId + 1} \in SUBSET (1..(lastId + 1)) /\ {} \in SUBSET (1..(lastId + 1))
          /\ "questioned" \in Places /\ "inserted" \in Places
      BY <1>1 DEF Places
    <3> QED
      BY <2>3, <3>1 DEF InsertMessage, GoTo, Commit
  <2> QED
    BY <2>1, <2>2, <2>3
<1>3. 1..lastId \subseteq 1..lastId' /\ 0..lastId \subseteq 0..lastId' /\ lastId' \in Nat
  BY <1>1, <1>2
<1>4. ChatTypeOK'
  <2>1. stored' \subseteq 1..lastId' /\ said' \subseteq 1..lastId'
    BY <1>1, <1>2, <1>3
  <2>2. drawn' \in [Answers -> SUBSET (1..lastId')]
    BY <1>1, <1>2, <1>3
  <2>3. cutoff' \in [Answers -> 0..lastId'] /\ stage' \in [Answers -> Places]
    BY <1>1, <1>2, <1>3
  <2> QED
    BY <1>1, <1>2, <1>3, <2>1, <2>2, <2>3, ChatTypedNext
<1>5. said \in SUBSET said' /\ said' \in SUBSET (1..lastId')
      /\ said' \ stored' \subseteq said \ stored /\ stored' \subseteq said'
  BY <1>1, <1>2, <1>3
<1>6. ASSUME ~underPrune'
      PROVE  /\ \A id \in said' \ stored' : Enough(said', id)
             /\ \A b \in Answers : cutoff'[b] # 0 => Enough(said', cutoff'[b])
  <2>1. /\ \A id \in said \ stored : id \in Int /\ Enough(said, id)
        /\ \A b \in Answers : cutoff[b] \in Int /\ (cutoff[b] # 0 => Enough(said, cutoff[b]))
    BY <1>1, <1>2, <1>6 DEF ChatInv
  <2>2. \A id \in Int : Enough(said, id) => Enough(said', id)
    BY <1>3, <1>5, EnoughGrows
  <2> QED
    BY <1>2, <1>5, <2>1, <2>2
<1> QED
  BY <1>4, <1>5, <1>6 DEF ChatInv

\* An id at the offset has enough messages above it.
LEMMA FindCutoffStep ==
    ASSUME ChatInv, NEW a \in Answers, FindCutoff(a)
    PROVE  ChatInv'
<1>1. /\ lastId \in Nat /\ stored \subseteq 1..lastId /\ said \subseteq 1..lastId
      /\ stage \in [Answers -> Places] /\ cutoff \in [Answers -> 0..lastId]
      /\ stored \subseteq said
  BY ChatTyped DEF ChatInv
<1>2. UNCHANGED <<lastId, stored, drawn, clears, said, underPrune>>
  BY DEF FindCutoff
<1>3. stage' \in [Answers -> Places]
  <2>1. PICK place \in Places : stage' = [stage EXCEPT ![a] = place]
    BY DEF FindCutoff, GoTo, After, Places
  <2> QED
    BY <1>1, <2>1
<1>4. /\ cutoff' \in [Answers -> 0..lastId]
      /\ \A b \in Answers : cutoff'[b] = cutoff[b] \/ Enough(said, cutoff'[b])
  <2>1. CASE UNCHANGED cutoff
    BY <1>1, <2>1
  <2>2. CASE \E id \in stored : AtOffset(id) /\ cutoff' = [cutoff EXCEPT ![a] = id]
    <3>1. PICK id \in stored : AtOffset(id) /\ cutoff' = [cutoff EXCEPT ![a] = id]
      BY <2>2
    <3>2. Enough(stored, id)
      BY <3>1, ChatAssumption DEF AtOffset, NewerThan, Enough
    <3>3. Enough(said, id)
      <4>1. id \in Int
        BY <1>1
      <4> QED
        BY <1>1, <3>2, <4>1, EnoughGrows
    <3>4. id \in 0..lastId
      BY <1>1
    <3> QED
      BY <1>1, <3>1, <3>3, <3>4
  <2> QED
    BY <2>1, <2>2 DEF FindCutoff
<1>5. ChatTypeOK'
  BY <1>2, <1>3, <1>4, ChatTyped, ChatTypedNext DEF ChatInv
<1> QED
  BY <1>2, <1>4, <1>5 DEF ChatInv

LEMMA PruneStep ==
    ASSUME ChatInv, NEW a \in Answers, Prune(a) \/ GiveUp(a)
    PROVE  ChatInv'
<1>1. /\ lastId \in Nat /\ stored \subseteq 1..lastId /\ said \subseteq 1..lastId
      /\ stage \in [Answers -> Places] /\ cutoff \in [Answers -> 0..lastId]
      /\ drawn \in [Answers -> SUBSET (1..lastId)]
      /\ stored \subseteq said
  BY ChatTyped DEF ChatInv
<1>2. PICK place \in Places :
        /\ stage' = [stage EXCEPT ![a] = place] /\ cutoff' = [cutoff EXCEPT ![a] = 0]
        /\ drawn' = drawn \/ drawn' = [drawn EXCEPT ![a] = {}]
        /\ stored' = stored \/ stored' = stored \ OlderThan(cutoff[a])
        /\ UNCHANGED <<lastId, clears, said, underPrune>>
  BY DEF Prune, GiveUp, GoTo, Places
<1>3. ChatTypeOK'
  <2>1. stage' \in [Answers -> Places] /\ stored' \subseteq 1..lastId
    BY <1>1, <1>2
  <2>2. drawn' \in [Answers -> SUBSET (1..lastId)]
    BY <1>1, <1>2
  <2>3. cutoff' \in [Answers -> 0..lastId]
    BY <1>1, <1>2
  <2> QED
    BY <1>2, <2>1, <2>2, <2>3, ChatTyped, ChatTypedNext DEF ChatInv
<1>4. ASSUME ~underPrune'
      PROVE  /\ \A id \in said' \ stored' : Enough(said', id)
             /\ \A b \in Answers : cutoff'[b] # 0 => Enough(said', cutoff'[b])
  <2>1. /\ \A id \in said \ stored : Enough(said, id)
        /\ \A b \in Answers : cutoff[b] # 0 => Enough(said, cutoff[b])
    BY <1>2, <1>4 DEF ChatInv
  <2>2. ASSUME NEW id \in said \ stored', id \in stored PROVE Enough(said, id)
    <3>1. /\ cutoff[a] \in Int /\ id \in Int /\ id < cutoff[a] /\ id > 0
      BY <1>1, <1>2, <2>2 DEF OlderThan
    <3>2. Enough(said, cutoff[a])
      BY <2>1, <3>1
    <3>3. said \in SUBSET (1..lastId) /\ said \in SUBSET said /\ id <= cutoff[a]
      BY <1>1, <3>1
    <3> QED
      BY <1>1, <3>1, <3>2, <3>3, EnoughStays
  <2> QED
    BY <1>1, <1>2, <2>1, <2>2
<1> QED
  BY <1>1, <1>2, <1>3, <1>4 DEF ChatInv

LEMMA ClearStep ==
    ASSUME ChatInv, ClearHistory
    PROVE  ChatInv'
<1>1. /\ stored' = {} /\ said' = {} /\ clears' = clears + 1
      /\ underPrune' = (underPrune \/ \E a \in Answers : cutoff[a] # 0)
      /\ UNCHANGED <<lastId, stage, drawn, cutoff>>
  BY DEF ClearHistory
<1>2. underPrune' \in BOOLEAN
  BY <1>1, ChatTyped DEF ChatInv
<1>3. ChatTypeOK'
  BY <1>1, <1>2, ChatTyped, ChatTypedNext DEF ChatInv
<1>4. ~underPrune' => \A a \in Answers : cutoff'[a] = 0
  BY <1>1
<1> QED
  BY <1>1, <1>3, <1>4 DEF ChatInv

LEMMA ChatSteps == ChatInv /\ [ChatNext]_chatVars => ChatInv'
<1> SUFFICES ASSUME ChatInv, [ChatNext]_chatVars PROVE ChatInv'
  OBVIOUS
<1>1. CASE ClearHistory
  BY <1>1, ClearStep
<1>2. ASSUME NEW a \in Answers,
             \/ DrawId(a) \/ InsertPair(a) \/ InsertMessage(a)
             \/ FindCutoff(a) \/ Prune(a) \/ GiveUp(a)
      PROVE  ChatInv'
  BY <1>2, AppendStep, FindCutoffStep, PruneStep
<1>3. CASE UNCHANGED chatVars
  BY <1>3, ChatTyped, ChatTypedNext DEF ChatInv, chatVars
<1> QED
  BY <1>1, <1>2, <1>3 DEF ChatNext

\* Whatever handlers insert and prune between the two statements of a prune, the
\* newest messages are there: a prune takes only ids with enough above them.
THEOREM NewestAreKept == ChatSpec => []NewestKept
<1>1. ChatInv => NewestKept
  BY DEF ChatInv, NewestKept, Enough
<1> QED
  BY <1>1, ChatBegins, ChatSteps, PTL DEF ChatSpec

-----------------------------------------------------------------------------
(* All of the services (MCServices)                                        *)

\* Whichever service moves, each of them takes a step of its own or stands.
LEMMA OneMoves ==
    ASSUME [MCNext]_servicesVars
    PROVE  /\ [VideoNext]_videoVars /\ [BreakerNext]_breakerVars
           /\ [AdminNext]_adminVars /\ [NoticeNext]_noticeVars
           /\ [BoardNext]_boardVars /\ [ChatNext]_chatVars
           /\ [ProviderNext]_providerVars
<1>1. CASE UNCHANGED servicesVars
  BY <1>1 DEF servicesVars
<1>2. CASE MCNext
  BY <1>2 DEF MCNext, Moves
<1> QED
  BY <1>1, <1>2

ServicesInv ==
    /\ VideoInv /\ BreakerInv /\ LedgerInv
    /\ NoticesInv /\ BoardInv /\ ChatInv
    /\ CallInv

\* The variables of the seven services keep their types.
THEOREM ServicesTypeCorrect == MCSpec => []ServicesTypeOK
<1>1. MCInit => ServicesInv
  BY VideoBegins, BreakerBegins, LedgerBegins, NoticesBegin, BoardBegins, ChatBegins, CallBegins
     DEF MCInit, ServicesInv
<1>2. ServicesInv /\ [MCNext]_servicesVars => ServicesInv'
  BY OneMoves, VideoSteps, BreakerSteps, LedgerSteps, NoticesStep, BoardSteps, ChatSteps, CallSteps
     DEF ServicesInv
<1>3. ServicesInv => ServicesTypeOK
  BY DEF ServicesInv, ServicesTypeOK, VideoInv, BreakerInv, LedgerInv, NoticesInv, BoardInv,
         ChatInv, CallInv
<1> QED
  BY <1>1, <1>2, <1>3, PTL DEF MCSpec

\* Each service moves in the whole as it moves alone.
LEMMA Parts ==
    MCSpec => /\ VideoSpec /\ BreakerSpec /\ ProviderSpec /\ AdminSpec
              /\ NoticeSpec /\ BoardSpec /\ ChatSpec
<1>1. MCInit => /\ VideoInit /\ BreakerInit /\ ProviderInit /\ AdminInit
                /\ NoticeInit /\ BoardInit /\ ChatInit
  BY DEF MCInit
<1>2. [MCNext]_servicesVars =>
        /\ [VideoNext]_videoVars /\ [BreakerNext]_breakerVars
        /\ [AdminNext]_adminVars /\ [NoticeNext]_noticeVars
        /\ [BoardNext]_boardVars /\ [ChatNext]_chatVars
        /\ [ProviderNext]_providerVars
  BY OneMoves
<1> QED
  BY <1>1, <1>2, PTL DEF MCSpec, VideoSpec, BreakerSpec, ProviderSpec, AdminSpec, NoticeSpec,
                         BoardSpec, ChatSpec

\* What is proved of a service holds of all of them together.
THEOREM ServicesSafe ==
    MCSpec => /\ []OneOutcomePerCopy /\ []NoSilentLoss
              /\ []ShutInOutage /\ []NothingWasted
              /\ []JournalExplains /\ []OwesOnlyIfRaced
              /\ []ReminderFate /\ []NudgedOnce
              /\ []CountersTrue /\ []LimitsHold /\ []NewestKept
<1>1. VideoSpec => []OneOutcomePerCopy /\ []NoSilentLoss
  BY CopiesEndOnce, NothingLostSilently
<1>2. (BreakerSpec => []ShutInOutage) /\ (ProviderSpec => []NothingWasted)
  BY ShutExactlyInOutage, NothingIsWasted
<1>3. AdminSpec => []JournalExplains /\ []OwesOnlyIfRaced
  BY JournalAlwaysExplains, OwesOnlyAfterRace
<1>4. NoticeSpec => []ReminderFate /\ []NudgedOnce
  BY RemindersSentOnce, NudgesRepeatedForCause
<1>5. (BoardSpec => []CountersTrue /\ []LimitsHold) /\ (ChatSpec => []NewestKept)
  BY CountersAreTrue, LimitsAreKept, NewestAreKept
<1> QED
  BY <1>1, <1>2, <1>3, <1>4, <1>5, Parts

=============================================================================
