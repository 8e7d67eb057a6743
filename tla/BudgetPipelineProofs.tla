------------------------ MODULE BudgetPipelineProofs ------------------------
(***************************************************************************)
(* Machine-checked proofs about BudgetPipeline, for any set of campaigns,  *)
(* loaders, prices and request bodies and any source file.                 *)
(***************************************************************************)
EXTENDS BudgetPipeline, TLAPS

(* A record in overdraft has used up its limit. *)
Exhausted(b) == b.day_budget_overdraft > 0 => b.day_budget_limit = 0

(***************************************************************************)
(* Facts about the operations on one record.                               *)
(***************************************************************************)

(* CampaignBudget::update(price) keeps a record well formed, keeps its key *)
(* and its total, adds exactly the price to its cost and leaves no limit   *)
(* beside an overdraft.                                                    *)
LEMMA UpdatePriceFacts ==
  ASSUME NEW b \in CampaignBudgets, NEW p \in Nat
  PROVE  /\ UpdatePrice(b, p) \in CampaignBudgets
         /\ UpdatePrice(b, p).campaign_id = b.campaign_id
         /\ Total(UpdatePrice(b, p)) = Total(b)
         /\ Cost(UpdatePrice(b, p)) = Cost(b) + p
         /\ Exhausted(b) => Exhausted(UpdatePrice(b, p))
<1> DEFINE m == Least(b.day_budget_limit, p)
<1>1. /\ b.campaign_id \in Nat /\ b.day_budget_limit \in Nat
      /\ b.day_budget_spent \in Nat /\ b.day_budget_overdraft \in Nat
      /\ b.metric \in Metric
  BY DEF CampaignBudgets
<1>2. /\ m \in Nat /\ m <= b.day_budget_limit /\ m <= p
      /\ m < p => m = b.day_budget_limit
  BY <1>1 DEF Least
<1>3. UpdatePrice(b, p) =
        [ campaign_id          |-> b.campaign_id,
          day_budget_limit     |-> b.day_budget_limit - m,
          day_budget_spent     |-> b.day_budget_spent + m,
          day_budget_overdraft |-> b.day_budget_overdraft + (p - m),
          metric               |-> b.metric ]
  BY DEF UpdatePrice, CampaignBudgets
<1>4. QED
  BY <1>1, <1>2, <1>3 DEF CampaignBudgets, Total, Cost, Exhausted

(* The archive of a budget keeps everything but the overdraft. *)
LEMMA ArchivedFacts ==
  ASSUME NEW b \in CampaignBudgets
  PROVE  /\ Archived(b) \in CampaignBudgets
         /\ Archived(b).campaign_id = b.campaign_id
         /\ Total(Archived(b)) = Total(b)
BY DEF Archived, CampaignBudgets, Total

(* authorize() refuses a record that has no limit left. *)
LEMMA NoLimitNoBid ==
  ASSUME NEW b \in CampaignBudgets, b.day_budget_limit = 0
  PROVE  Authorize(b) = 0
BY DEF Authorize, CampaignBudgets

(* Total and Cost of a record are natural numbers. *)
LEMMA AmountsAreNat ==
  ASSUME NEW b \in CampaignBudgets
  PROVE  Total(b) \in Nat /\ Cost(b) \in Nat
BY DEF CampaignBudgets, Total, Cost

(* Records of the source file and of request bodies. *)
LEMMA WrittenRecords ==
  /\ \A b \in Bodies : b \in CampaignBudgets /\ b.day_budget_overdraft = 0
                       /\ b.campaign_id \in Campaigns /\ b # NoEntry
  /\ Len(Source) \in Nat
  /\ \A i \in 1..Len(Source) :
       /\ Source[i] \in CampaignBudgets /\ Source[i].day_budget_overdraft = 0
       /\ Source[i].campaign_id \in Campaigns /\ Source[i] # NoEntry
BY BodiesAssumption, SourceAssumption, NoEntryAssumption DEF JsonBudgets

(***************************************************************************)
(* Type correctness.                                                       *)
(***************************************************************************)

(* What an edit or a load writes into the history is well typed. *)
LEMMA RecordedType ==
  ASSUME TypeOK, NEW c \in Campaigns, NEW b \in CampaignBudgets, Recorded(c, b)
  PROVE  /\ base' \in [Campaigns -> Nat]
         /\ charged' \in [Campaigns -> Nat]
         /\ raced' \in [Campaigns -> BOOLEAN]
         /\ granted' \in [Campaigns -> SUBSET Nat]
<1>1. Total(b) \in Nat /\ Cost(b) \in Nat
  BY AmountsAreNat
<1>2. base' \in [Campaigns -> Nat] /\ charged' \in [Campaigns -> Nat]
  BY <1>1 DEF Recorded, TypeOK
<1>3. raced' \in [Campaigns -> BOOLEAN]
  BY Zenon DEF Recorded, TypeOK
<1>4. granted' \in [Campaigns -> SUBSET Nat]
  BY <1>1 DEF Recorded, TypeOK
<1>5. QED
  BY <1>2, <1>3, <1>4

(* Every reachable state of the pipeline is well typed: no amount goes     *)
(* negative and every loader stays inside the source file.                 *)
THEOREM TypeCorrect == Spec => []TypeOK
<1>1. Init => TypeOK
  <2> SUFFICES ASSUME Init PROVE TypeOK
    OBVIOUS
  <2>1. slave \in [Campaigns -> Entries]
    BY WrittenRecords DEF Init, Entries
  <2>2. granted \in [Campaigns -> SUBSET Nat]
    BY <2>1, AmountsAreNat DEF Init, Entries
  <2>3. held \in CampaignBudgets
    BY DEF Init, DefaultBudget, CampaignBudgets, Metric, MetricType
  <2>4. raced \in [Campaigns -> BOOLEAN]
    BY Zenon DEF Init
  <2>5. lpos \in [Loaders -> 0..Len(Source)]
    BY WrittenRecords DEF Init
  <2>6. /\ ipc \in [Campaigns -> Entries]
        /\ win \in [campaign_id : Nat, price : Nat]
        /\ win_notice_count \in 0..MaxWins /\ edits \in 0..MaxEdits
        /\ base \in [Campaigns -> Nat] /\ charged \in [Campaigns -> Nat]
    BY BoundsAssumption DEF Init, Entries
  <2>7. QED
    BY <2>1, <2>2, <2>3, <2>4, <2>5, <2>6 DEF Init, TypeOK
<1>2. TypeOK /\ [Next]_vars => TypeOK'
  <2> SUFFICES ASSUME TypeOK, [Next]_vars PROVE TypeOK'
    OBVIOUS
  <2>1. ASSUME NEW c \in Campaigns, NEW b \in Bodies, Create(c, b) PROVE TypeOK'
    <3>1. b \in CampaignBudgets
      BY WrittenRecords
    <3>2. edits' \in 0..MaxEdits
      BY <2>1, BoundsAssumption DEF Create, Edit, TypeOK
    <3>3. CASE ipc[c] = NoEntry
      <4>1. Recorded(c, b) /\ ipc' = [ipc EXCEPT ![c] = b]
        BY <2>1, <3>3 DEF Create
      <4>2. overtaken' \in BOOLEAN
        BY <2>1, <3>3, Zenon DEF Create, Overtakes, TypeOK
      <4>3. QED
        BY <2>1, <3>1, <3>2, <3>3, <4>1, <4>2, RecordedType DEF Create, TypeOK, Entries
    <3>4. CASE ipc[c] # NoEntry
      BY <2>1, <3>2, <3>4 DEF Create, TypeOK
    <3>5. QED
      BY <3>3, <3>4
  <2>2. ASSUME NEW c \in Campaigns, NEW b \in Bodies, Update(c, b) PROVE TypeOK'
    <3>1. b \in CampaignBudgets
      BY WrittenRecords
    <3>2. edits' \in 0..MaxEdits
      BY <2>2, BoundsAssumption DEF Update, Edit, TypeOK
    <3>3. CASE ipc[c] # NoEntry
      <4>1. Recorded(c, b) /\ ipc' = [ipc EXCEPT ![c] = b]
        BY <2>2, <3>3 DEF Update
      <4>2. overtaken' \in BOOLEAN
        BY <2>2, <3>3, Zenon DEF Update, Overtakes, TypeOK
      <4>3. QED
        BY <2>2, <3>1, <3>2, <3>3, <4>1, <4>2, RecordedType DEF Update, TypeOK, Entries
    <3>4. CASE ipc[c] = NoEntry
      BY <2>2, <3>2, <3>4 DEF Update, TypeOK
    <3>5. QED
      BY <3>3, <3>4
  <2>3. ASSUME NEW c \in Campaigns, Remove(c) PROVE TypeOK'
    <3>1. edits' \in 0..MaxEdits
      BY <2>3, BoundsAssumption DEF Remove, Edit, TypeOK
    <3>2. overtaken' \in BOOLEAN
      BY <2>3, Zenon DEF Remove, Overtakes, TypeOK
    <3>3. QED
      BY <2>3, <3>1, <3>2 DEF Remove, TypeOK, Entries
  <2>4. ASSUME NEW l \in Loaders, LoadClear(l) PROVE TypeOK'
    <3>1. edits' \in 0..MaxEdits
      BY <2>4, BoundsAssumption DEF LoadClear, Edit, TypeOK
    <3>2. overtaken' \in BOOLEAN
      BY <2>4, Zenon DEF LoadClear, Overtakes, TypeOK
    <3>3. lpos' \in [Loaders -> 0..Len(Source)]
      <4>1. Source # <<>> => 1 \in 0..Len(Source)
        BY SourceAssumption
      <4>2. QED
        BY <2>4, <4>1, WrittenRecords DEF LoadClear, TypeOK
    <3>4. QED
      BY <2>4, <3>1, <3>2, <3>3 DEF LoadClear, TypeOK, Entries
  <2>5. ASSUME NEW l \in Loaders, LoadInsert(l) PROVE TypeOK'
    <3> DEFINE b == Source[lpos[l]]
               c == b.campaign_id
    <3>1. lpos[l] \in 1..Len(Source)
      BY <2>5, WrittenRecords DEF LoadInsert, TypeOK
    <3>2. b \in CampaignBudgets /\ c \in Campaigns
      BY <3>1, WrittenRecords
    <3>3. lpos' \in [Loaders -> 0..Len(Source)]
      BY <2>5, <3>1, WrittenRecords DEF LoadInsert, TypeOK
    <3>4. CASE ipc[c] = NoEntry
      <4>1. Recorded(c, b) /\ ipc' = [ipc EXCEPT ![c] = b]
        BY <2>5, <3>4 DEF LoadInsert
      <4>2. overtaken' \in BOOLEAN
        BY <2>5, <3>4, Zenon DEF LoadInsert, Overtakes, TypeOK
      <4>3. deleted' \subseteq Campaigns
        BY <2>5, <3>4 DEF LoadInsert, TypeOK
      <4> HIDE DEF b, c
      <4>4. ipc' \in [Campaigns -> Entries]
        BY <3>2, <4>1 DEF TypeOK, Entries
      <4>5. /\ base' \in [Campaigns -> Nat]
            /\ charged' \in [Campaigns -> Nat]
            /\ raced' \in [Campaigns -> BOOLEAN]
            /\ granted' \in [Campaigns -> SUBSET Nat]
        BY <3>2, <4>1, RecordedType
      <4>6. QED
        BY <2>5, <3>3, <4>2, <4>3, <4>4, <4>5 DEF LoadInsert, TypeOK
    <3>5. CASE ipc[c] # NoEntry
      BY <2>5, <3>3, <3>5 DEF LoadInsert, TypeOK
    <3>6. QED
      BY <3>4, <3>5
  <2>6. ASSUME NEW c \in Campaigns, NEW p \in Prices, WinRetrieve(c, p) PROVE TypeOK'
    <3>1. ipc[c] \in CampaignBudgets /\ p \in Nat
      BY <2>6, PricesAssumption DEF WinRetrieve, TypeOK, Entries
    <3>2. held' \in CampaignBudgets
      BY <2>6, <3>1, UpdatePriceFacts DEF WinRetrieve
    <3>3. win' \in [campaign_id : Nat, price : Nat] /\ win'.campaign_id \in Campaigns
      BY <2>6, <3>1, CampaignsAssumption DEF WinRetrieve
    <3>4. win_notice_count' \in 0..MaxWins
      BY <2>6, BoundsAssumption DEF WinRetrieve, TypeOK
    <3>5. QED
      BY <2>6, <3>2, <3>3, <3>4 DEF WinRetrieve, TypeOK
  <2>7. CASE WinStore
    <3> DEFINE c == win.campaign_id
    <3>1. c \in Campaigns /\ win.price \in Nat
      BY <2>7 DEF WinStore, TypeOK
    <3>2. CASE ipc[c] # NoEntry
      <4>1. /\ ipc' = [ipc EXCEPT ![c] = held]
            /\ charged' = [charged EXCEPT ![c] = @ + win.price]
        BY <2>7, <3>2 DEF WinStore
      <4>2. raced' \in [Campaigns -> BOOLEAN]
        BY <2>7, <3>2, Zenon DEF WinStore, TypeOK
      <4> HIDE DEF c
      <4>3. ipc' \in [Campaigns -> Entries]
        BY <3>1, <4>1 DEF TypeOK, Entries
      <4>4. charged' \in [Campaigns -> Nat]
        BY <3>1, <4>1 DEF TypeOK
      <4>5. QED
        BY <2>7, <4>2, <4>3, <4>4 DEF WinStore, TypeOK
    <3>3. CASE ipc[c] = NoEntry
      BY <2>7, <3>1, <3>3 DEF WinStore, TypeOK
    <3>4. QED
      BY <3>2, <3>3
  <2>8. CASE WinSend
    <3>1. Archived(held) \in CampaignBudgets
      BY ArchivedFacts DEF TypeOK
    <3>2. QED
      BY <2>8, <3>1 DEF WinSend, TypeOK, history
  <2>9. ASSUME NEW m \in sent, Receive(m) PROVE TypeOK'
    BY <2>9 DEF Receive, TypeOK, history, Entries
  <2>10. CASE UNCHANGED vars
    BY <2>10 DEF vars, TypeOK
  <2>11. QED
    BY <2>1, <2>2, <2>3, <2>4, <2>5, <2>6, <2>7, <2>8, <2>9, <2>10
    DEF Next, Manager, Loading, Notifying
<1>3. QED
  BY <1>1, <1>2, PTL DEF Spec

(***************************************************************************)
(* The steps of the pipeline by what they do to the budgets: Create,       *)
(* Update and LoadInsert write a record, Remove and LoadClear erase keys.  *)
(***************************************************************************)

budgets == <<ipc, slave, sent, npc, win, held, base, charged, overtaken, raced, granted>>

Writes(c, b) ==
  /\ b \in CampaignBudgets /\ b # NoEntry
  /\ b.day_budget_overdraft = 0 /\ b.campaign_id \in Campaigns
  /\ ipc' = [ipc EXCEPT ![c] = b]
  /\ Recorded(c, b)
  /\ Overtakes(c)
  /\ UNCHANGED <<slave, sent, npc, win, held>>

Erases(S) ==
  /\ ipc' = [c \in Campaigns |-> IF c \in S THEN NoEntry ELSE ipc[c]]
  /\ overtaken' = (overtaken \/ (npc = "store" /\ win.campaign_id \in S))
  /\ UNCHANGED <<slave, sent, npc, win, held, base, charged, raced, granted>>

(* Every step of the specification is one of these seven kinds. *)
LEMMA StepKinds ==
  ASSUME TypeOK, [Next]_vars
  PROVE  \/ \E c \in Campaigns, b \in CampaignBudgets : Writes(c, b)
         \/ \E S \in SUBSET Campaigns : Erases(S)
         \/ \E c \in Campaigns, p \in Prices : WinRetrieve(c, p)
         \/ WinStore
         \/ WinSend
         \/ \E m \in sent : Receive(m)
         \/ UNCHANGED budgets
<1>1. ASSUME NEW c \in Campaigns, NEW b \in Bodies, Create(c, b)
      PROVE  Writes(c, b) \/ UNCHANGED budgets
  <2>1. CASE ipc[c] = NoEntry
    BY <1>1, <2>1, WrittenRecords DEF Create, Writes
  <2>2. CASE ipc[c] # NoEntry
    BY <1>1, <2>2 DEF Create, budgets
  <2>3. QED
    BY <2>1, <2>2
<1>2. ASSUME NEW c \in Campaigns, NEW b \in Bodies, Update(c, b)
      PROVE  Writes(c, b) \/ UNCHANGED budgets
  <2>1. CASE ipc[c] # NoEntry
    BY <1>2, <2>1, WrittenRecords DEF Update, Writes
  <2>2. CASE ipc[c] = NoEntry
    BY <1>2, <2>2 DEF Update, budgets
  <2>3. QED
    BY <2>1, <2>2
<1>3. ASSUME NEW c \in Campaigns, Remove(c)
      PROVE  Erases({c})
  <2>1. ipc' = [k \in Campaigns |-> IF k \in {c} THEN NoEntry ELSE ipc[k]]
    BY <1>3 DEF Remove, TypeOK
  <2>2. overtaken' = (overtaken \/ (npc = "store" /\ win.campaign_id \in {c}))
    BY <1>3, Zenon DEF Remove, Overtakes
  <2>3. QED
    BY <1>3, <2>1, <2>2 DEF Remove, Erases
<1>4. ASSUME NEW l \in Loaders, LoadClear(l)
      PROVE  Erases(Campaigns)
  <2>1. ipc' = [k \in Campaigns |-> IF k \in Campaigns THEN NoEntry ELSE ipc[k]]
    BY <1>4 DEF LoadClear
  <2>2. npc = "store" => win.campaign_id \in Campaigns
    BY DEF TypeOK
  <2>3. overtaken' = (overtaken \/ (npc = "store" /\ win.campaign_id \in Campaigns))
    BY <1>4, <2>2, Zenon DEF LoadClear, Overtakes
  <2>4. QED
    BY <1>4, <2>1, <2>3 DEF LoadClear, Erases
<1>5. ASSUME NEW l \in Loaders, LoadInsert(l)
      PROVE  \/ \E c \in Campaigns, b \in CampaignBudgets : Writes(c, b)
             \/ UNCHANGED budgets
  <2> DEFINE b == Source[lpos[l]]
             c == b.campaign_id
  <2>1. lpos[l] \in 1..Len(Source)
    BY <1>5, WrittenRecords DEF LoadInsert, TypeOK
  <2>2. b \in CampaignBudgets /\ b.day_budget_overdraft = 0 /\ c \in Campaigns /\ b # NoEntry
    BY <2>1, WrittenRecords
  <2>3. CASE ipc[c] = NoEntry
    <3>1. /\ ipc' = [ipc EXCEPT ![c] = b] /\ Recorded(c, b) /\ Overtakes(c)
          /\ UNCHANGED <<slave, sent, npc, win, held>>
      BY <1>5, <2>3 DEF LoadInsert
    <3>2. Writes(c, b)
      BY <2>2, <3>1 DEF Writes
    <3>3. QED
      BY <2>2, <3>2
  <2>4. CASE ipc[c] # NoEntry
    BY <1>5, <2>4 DEF LoadInsert, budgets
  <2>5. QED
    BY <2>3, <2>4
<1>6. CASE UNCHANGED vars
  BY <1>6 DEF vars, budgets
<1>7. Bodies \subseteq CampaignBudgets
  BY WrittenRecords
<1>8. CASE Manager
  <2>1. ASSUME NEW c \in Campaigns, NEW b \in Bodies, Create(c, b) \/ Update(c, b)
        PROVE  \/ \E k \in Campaigns, r \in CampaignBudgets : Writes(k, r)
               \/ UNCHANGED budgets
    BY <2>1, <1>1, <1>2, <1>7
  <2>2. ASSUME NEW c \in Campaigns, Remove(c)
        PROVE  \E S \in SUBSET Campaigns : Erases(S)
    <3>1. {c} \in SUBSET Campaigns
      OBVIOUS
    <3>2. QED
      BY <2>2, <1>3, <3>1
  <2>3. QED
    BY <1>8, <2>1, <2>2 DEF Manager
<1>9. CASE Loading
  BY <1>9, <1>4, <1>5 DEF Loading
<1>10. CASE Notifying
  BY <1>10 DEF Notifying
<1>11. QED
  BY <1>6, <1>8, <1>9, <1>10 DEF Next

(***************************************************************************)
(* No authorization in overdraft.                                          *)
(***************************************************************************)

(* The strengthening: not only the cached records, the copy in the hand of *)
(* the notification service too has no limit beside an overdraft.          *)
CopiesExhausted ==
  /\ \A c \in Campaigns : ipc[c] # NoEntry => Exhausted(ipc[c])
  /\ Exhausted(held)

(* BudgetManager::authorize returns 0 for every cached campaign whose      *)
(* overdraft is positive, in every reachable state.                        *)
THEOREM OverdraftTheorem == Spec => []OverdrawnNeverAuthorized
<1>1. Init => CopiesExhausted
  BY DEF Init, CopiesExhausted, Exhausted, DefaultBudget
<1>2. TypeOK /\ CopiesExhausted /\ [Next]_vars => CopiesExhausted'
  <2> SUFFICES ASSUME TypeOK, CopiesExhausted, [Next]_vars PROVE CopiesExhausted'
    OBVIOUS
  <2>1. ASSUME NEW c \in Campaigns, NEW b \in CampaignBudgets, Writes(c, b)
        PROVE  CopiesExhausted'
    <3>1. Exhausted(b)
      BY <2>1 DEF Writes, Exhausted
    <3>2. QED
      BY <2>1, <3>1 DEF Writes, CopiesExhausted, TypeOK
  <2>2. ASSUME NEW S \in SUBSET Campaigns, Erases(S) PROVE CopiesExhausted'
    BY <2>2 DEF Erases, CopiesExhausted
  <2>3. ASSUME NEW c \in Campaigns, NEW p \in Prices, WinRetrieve(c, p)
        PROVE  CopiesExhausted'
    <3>1. ipc[c] \in CampaignBudgets /\ p \in Nat /\ Exhausted(ipc[c])
      BY <2>3, PricesAssumption DEF WinRetrieve, TypeOK, Entries, CopiesExhausted
    <3>2. Exhausted(held')
      BY <2>3, <3>1, UpdatePriceFacts DEF WinRetrieve
    <3>3. QED
      BY <2>3, <3>2 DEF WinRetrieve, CopiesExhausted, Exhausted
  <2>4. CASE WinStore
    <3>1. win.campaign_id \in Campaigns
      BY <2>4 DEF WinStore, TypeOK
    <3>2. QED
      BY <2>4, <3>1 DEF WinStore, CopiesExhausted, TypeOK, Exhausted
  <2>5. CASE WinSend
    BY <2>5 DEF WinSend, CopiesExhausted, Exhausted
  <2>6. ASSUME NEW m \in sent, Receive(m) PROVE CopiesExhausted'
    BY <2>6 DEF Receive, CopiesExhausted, Exhausted
  <2>7. CASE UNCHANGED budgets
    BY <2>7 DEF budgets, CopiesExhausted, Exhausted
  <2>8. QED
    BY <2>1, <2>2, <2>3, <2>4, <2>5, <2>6, <2>7, StepKinds
<1>3. TypeOK /\ CopiesExhausted => OverdrawnNeverAuthorized
  <2> SUFFICES ASSUME TypeOK, CopiesExhausted, NEW c \in Campaigns, ipc[c] # NoEntry,
                      ipc[c].day_budget_overdraft > 0
               PROVE  Authorize(ipc[c]) = 0
    BY DEF OverdrawnNeverAuthorized
  <2>1. ipc[c] \in CampaignBudgets
    BY DEF TypeOK, Entries
  <2>2. ipc[c].day_budget_limit = 0
    BY DEF CopiesExhausted, Exhausted
  <2>3. QED
    BY <2>1, <2>2, NoLimitNoBid
<1>4. QED
  BY <1>1, <1>2, <1>3, TypeCorrect, PTL DEF Spec

(***************************************************************************)
(* Conservation of budget.                                                 *)
(***************************************************************************)

(* The strengthening follows a record through every place it passes: the   *)
(* shared cache, the notification service, the datagrams, the slave cache. *)
(* Under a cached key the record may name another campaign_id (the body of *)
(* the edit did), so its total is granted to both.                         *)
GrantsCover ==
  /\ \A c \in Campaigns : ipc[c] # NoEntry =>
       /\ ipc[c].campaign_id \in Campaigns
       /\ Total(ipc[c]) \in granted[c]
       /\ Total(ipc[c]) \in granted[ipc[c].campaign_id]
  /\ npc # "idle" => /\ held.campaign_id \in Campaigns
                     /\ Total(held) \in granted[win.campaign_id]
                     /\ Total(held) \in granted[held.campaign_id]
  /\ \A m \in sent : m.campaign_id \in Campaigns /\ Total(m) \in granted[m.campaign_id]
  /\ \A c \in Campaigns : slave[c] # NoEntry => Total(slave[c]) \in granted[c]

(* An edit or a load only adds to what is granted. *)
LEMMA GrantsGrow ==
  ASSUME TypeOK, NEW c \in Campaigns, NEW b \in CampaignBudgets,
         b.campaign_id \in Campaigns, Recorded(c, b)
  PROVE  /\ \A k \in Campaigns : granted[k] \subseteq granted'[k]
         /\ Total(b) \in granted'[c]
         /\ Total(b) \in granted'[b.campaign_id]
BY DEF TypeOK, Recorded

(* Limit plus spent of every record in the shared cache and in the slave's *)
(* cache is an amount some edit or load wrote for that campaign, however   *)
(* charges race with edits and datagrams are lost, repeated or reordered.  *)
THEOREM ConservationTheorem == Spec => []BudgetConserved
<1>1. Init => GrantsCover
  BY DEF Init, GrantsCover
<1>2. TypeOK /\ GrantsCover /\ [Next]_vars => GrantsCover'
  <2> SUFFICES ASSUME TypeOK, GrantsCover, [Next]_vars PROVE GrantsCover'
    OBVIOUS
  <2>1. ASSUME NEW c \in Campaigns, NEW b \in CampaignBudgets, Writes(c, b)
        PROVE  GrantsCover'
    <3>1. /\ \A k \in Campaigns : granted[k] \subseteq granted'[k]
          /\ Total(b) \in granted'[c]
          /\ Total(b) \in granted'[b.campaign_id]
      BY <2>1, GrantsGrow DEF Writes
    <3>2. npc # "idle" => win.campaign_id \in Campaigns
      BY DEF TypeOK
    <3>3. ASSUME NEW k \in Campaigns, ipc'[k] # NoEntry
          PROVE  /\ ipc'[k].campaign_id \in Campaigns
                 /\ Total(ipc'[k]) \in granted'[k]
                 /\ Total(ipc'[k]) \in granted'[ipc'[k].campaign_id]
      <4>1. CASE k = c
        <5>1. ipc'[k] = b
          BY <2>1, <4>1 DEF Writes, TypeOK
        <5>2. QED
          BY <2>1, <3>1, <4>1, <5>1 DEF Writes
      <4>2. CASE k # c
        <5>1. ipc'[k] = ipc[k]
          BY <2>1, <4>2 DEF Writes, TypeOK
        <5>2. QED
          BY <3>1, <3>3, <5>1 DEF GrantsCover
      <4>3. QED
        BY <4>1, <4>2
    <3>4. npc' # "idle" => /\ held'.campaign_id \in Campaigns
                           /\ Total(held') \in granted'[win'.campaign_id]
                           /\ Total(held') \in granted'[held'.campaign_id]
      BY <2>1, <3>1, <3>2 DEF Writes, GrantsCover
    <3>5. \A m \in sent' : /\ m.campaign_id \in Campaigns
                           /\ Total(m) \in granted'[m.campaign_id]
      BY <2>1, <3>1 DEF Writes, GrantsCover
    <3>6. \A k \in Campaigns : slave'[k] # NoEntry => Total(slave'[k]) \in granted'[k]
      BY <2>1, <3>1 DEF Writes, GrantsCover
    <3>7. QED
      BY <3>3, <3>4, <3>5, <3>6 DEF GrantsCover, Total
  <2>2. ASSUME NEW S \in SUBSET Campaigns, Erases(S) PROVE GrantsCover'
    BY <2>2 DEF Erases, GrantsCover, Total
  <2>3. ASSUME NEW c \in Campaigns, NEW p \in Prices, WinRetrieve(c, p)
        PROVE  GrantsCover'
    <3>1. ipc[c] \in CampaignBudgets /\ p \in Nat /\ ipc[c] # NoEntry
      BY <2>3, PricesAssumption DEF WinRetrieve, TypeOK, Entries
    <3>2. held'.campaign_id = ipc[c].campaign_id /\ Total(held') = Total(ipc[c])
      BY <2>3, <3>1, UpdatePriceFacts DEF WinRetrieve
    <3>3. win'.campaign_id = c
      BY <2>3 DEF WinRetrieve
    <3>4. /\ held'.campaign_id \in Campaigns
          /\ Total(held') \in granted'[win'.campaign_id]
          /\ Total(held') \in granted'[held'.campaign_id]
      BY <2>3, <3>1, <3>2, <3>3 DEF WinRetrieve, GrantsCover
    <3>5. QED
      BY <2>3, <3>4 DEF WinRetrieve, GrantsCover, Total
  <2>4. CASE WinStore
    <3>1. win.campaign_id \in Campaigns /\ npc # "idle"
      BY <2>4 DEF WinStore, TypeOK
    <3>2. ASSUME NEW k \in Campaigns, ipc'[k] # NoEntry
          PROVE  /\ ipc'[k].campaign_id \in Campaigns
                 /\ Total(ipc'[k]) \in granted[k]
                 /\ Total(ipc'[k]) \in granted[ipc'[k].campaign_id]
      <4>1. CASE ipc'[k] = ipc[k]
        BY <3>2, <4>1 DEF GrantsCover
      <4>2. CASE k = win.campaign_id /\ ipc'[k] = held
        BY <3>1, <4>2 DEF GrantsCover
      <4>3. QED
        BY <2>4, <4>1, <4>2 DEF WinStore, TypeOK
    <3>3. QED
      BY <2>4, <3>1, <3>2 DEF WinStore, GrantsCover, Total
  <2>5. CASE WinSend
    <3> DEFINE m == Archived(held)
    <3>1. m.campaign_id = held.campaign_id /\ Total(m) = Total(held)
      BY ArchivedFacts DEF TypeOK
    <3>2. m.campaign_id \in Campaigns /\ Total(m) \in granted[m.campaign_id]
      BY <2>5, <3>1 DEF WinSend, GrantsCover
    <3>3. sent' = sent \cup {m}
      BY <2>5 DEF WinSend
    <3> HIDE DEF m
    <3>4. QED
      BY <2>5, <3>2, <3>3 DEF WinSend, GrantsCover, Total, history
  <2>6. ASSUME NEW m \in sent, Receive(m) PROVE GrantsCover'
    <3>1. m.campaign_id \in Campaigns /\ Total(m) \in granted[m.campaign_id]
      BY DEF GrantsCover
    <3>2. \A k \in Campaigns : slave'[k] = IF k = m.campaign_id THEN m ELSE slave[k]
      BY <2>6, <3>1 DEF Receive, TypeOK
    <3>3. \A k \in Campaigns : slave'[k] # NoEntry => Total(slave'[k]) \in granted[k]
      BY <3>1, <3>2 DEF GrantsCover
    <3>4. QED
      BY <2>6, <3>3 DEF Receive, GrantsCover, Total, history
  <2>7. CASE UNCHANGED budgets
    BY <2>7 DEF budgets, GrantsCover, Total
  <2>8. QED
    BY <2>1, <2>2, <2>3, <2>4, <2>5, <2>6, <2>7, StepKinds
<1>3. GrantsCover => BudgetConserved
  BY DEF GrantsCover, BudgetConserved
<1>4. QED
  BY <1>1, <1>2, <1>3, TypeCorrect, PTL DEF Spec

(***************************************************************************)
(* Exactness of the ledger.                                                *)
(***************************************************************************)

(* The strengthening: as long as nothing overtook it, the copy that the    *)
(* notification service is about to store is the cached record charged     *)
(* with the price of the notice.                                           *)
CopyFresh ==
  npc = "store" /\ ~overtaken =>
    /\ ipc[win.campaign_id] # NoEntry
    /\ held = UpdatePrice(ipc[win.campaign_id], win.price)

(* The read-modify-write of a win notice charges its price exactly once    *)
(* unless an edit or a load falls between its two cache calls.             *)
THEOREM LedgerTheorem == Spec => []LedgerExact
<1>1. Init => LedgerExact /\ CopyFresh
  BY DEF Init, LedgerExact, CopyFresh
<1>2. TypeOK /\ LedgerExact /\ CopyFresh /\ [Next]_vars => LedgerExact' /\ CopyFresh'
  <2> SUFFICES ASSUME TypeOK, LedgerExact, CopyFresh, [Next]_vars
               PROVE  LedgerExact' /\ CopyFresh'
    OBVIOUS
  <2>1. ASSUME NEW c \in Campaigns, NEW b \in CampaignBudgets, Writes(c, b)
        PROVE  LedgerExact' /\ CopyFresh'
    <3>1. \A k \in Campaigns : ipc'[k] = IF k = c THEN b ELSE ipc[k]
      BY <2>1 DEF Writes, TypeOK
    <3>2. \A k \in Campaigns :
            /\ base'[k] = IF k = c THEN Cost(b) ELSE base[k]
            /\ charged'[k] = IF k = c THEN 0 ELSE charged[k]
            /\ k # c => raced'[k] = raced[k]
      BY <2>1 DEF Writes, Recorded, TypeOK
    <3>3. Cost(b) + 0 = Cost(b)
      BY AmountsAreNat
    <3>4. ASSUME NEW k \in Campaigns, ipc'[k] # NoEntry, ~raced'[k]
          PROVE  Cost(ipc'[k]) = base'[k] + charged'[k]
      BY <3>1, <3>2, <3>3, <3>4 DEF LedgerExact
    <3>5. LedgerExact'
      BY <3>4 DEF LedgerExact, Cost
    <3>6. ASSUME npc' = "store", ~overtaken'
          PROVE  /\ ipc'[win'.campaign_id] # NoEntry
                 /\ held' = UpdatePrice(ipc'[win'.campaign_id], win'.price)
      <4>1. npc = "store" /\ ~overtaken /\ win.campaign_id # c
        BY <2>1, <3>6 DEF Writes, Overtakes
      <4>2. win.campaign_id \in Campaigns
        BY <4>1 DEF TypeOK
      <4>3. QED
        BY <2>1, <3>1, <4>1, <4>2 DEF Writes, CopyFresh
    <3>7. QED
      BY <3>5, <3>6 DEF CopyFresh, UpdatePrice
  <2>2. ASSUME NEW S \in SUBSET Campaigns, Erases(S) PROVE LedgerExact' /\ CopyFresh'
    <3>1. LedgerExact'
      BY <2>2 DEF Erases, LedgerExact, Cost
    <3>2. ASSUME npc' = "store", ~overtaken'
          PROVE  /\ ipc'[win'.campaign_id] # NoEntry
                 /\ held' = UpdatePrice(ipc'[win'.campaign_id], win'.price)
      <4>1. npc = "store" /\ ~overtaken /\ win.campaign_id \notin S
        BY <2>2, <3>2 DEF Erases
      <4>2. win.campaign_id \in Campaigns
        BY <4>1 DEF TypeOK
      <4>3. QED
        BY <2>2, <4>1, <4>2 DEF Erases, CopyFresh
    <3>3. QED
      BY <3>1, <3>2 DEF CopyFresh, UpdatePrice
  <2>3. ASSUME NEW c \in Campaigns, NEW p \in Prices, WinRetrieve(c, p)
        PROVE  LedgerExact' /\ CopyFresh'
    BY <2>3 DEF WinRetrieve, LedgerExact, CopyFresh, Cost, UpdatePrice
  <2>4. CASE WinStore
    <3> DEFINE c == win.campaign_id
    <3>1. c \in Campaigns /\ win.price \in Nat /\ npc = "store"
      BY <2>4 DEF WinStore, TypeOK
    <3>2. CopyFresh'
      BY <2>4 DEF WinStore, CopyFresh
    <3>3. CASE ipc[c] = NoEntry
      BY <2>4, <3>2, <3>3 DEF WinStore, LedgerExact, Cost
    <3>4. CASE ipc[c] # NoEntry
      <4>1. ASSUME NEW k \in Campaigns, ipc'[k] # NoEntry, ~raced'[k]
            PROVE  Cost(ipc'[k]) = base'[k] + charged'[k]
        <5>1. base' = base
          BY <2>4 DEF WinStore
        <5>2. CASE k # c
          <6>1. ipc'[k] = ipc[k] /\ charged'[k] = charged[k] /\ raced'[k] = raced[k]
            BY <2>4, <3>4, <5>2 DEF WinStore, TypeOK
          <6>2. QED
            BY <4>1, <5>1, <6>1 DEF LedgerExact
        <5>3. CASE k = c
          <6>1. ipc'[k] = held /\ charged'[k] = charged[k] + win.price
            BY <2>4, <3>1, <3>4, <5>3 DEF WinStore, TypeOK
          <6>2. raced'[k] = (raced[k] \/ overtaken)
            BY <2>4, <3>1, <3>4, <5>3, Zenon DEF WinStore, TypeOK
          <6>3. ~raced[k] /\ ~overtaken
            BY <4>1, <6>2
          <6>4. held = UpdatePrice(ipc[c], win.price)
            BY <3>1, <6>3 DEF CopyFresh
          <6>5. ipc[c] \in CampaignBudgets /\ base[c] \in Nat /\ charged[c] \in Nat
            BY <3>1, <3>4 DEF TypeOK, Entries
          <6>6. Cost(held) = Cost(ipc[c]) + win.price
            BY <3>1, <6>4, <6>5, UpdatePriceFacts
          <6>7. Cost(ipc[c]) = base[c] + charged[c]
            BY <3>1, <3>4, <5>3, <6>3 DEF LedgerExact
          <6>8. QED
            BY <3>1, <5>1, <5>3, <6>1, <6>5, <6>6, <6>7
        <5>4. QED
          BY <5>2, <5>3
      <4>2. QED
        BY <3>2, <4>1 DEF LedgerExact, Cost
    <3>5. QED
      BY <3>3, <3>4
  <2>5. CASE WinSend
    BY <2>5 DEF WinSend, LedgerExact, CopyFresh, Cost, history
  <2>6. ASSUME NEW m \in sent, Receive(m) PROVE LedgerExact' /\ CopyFresh'
    BY <2>6 DEF Receive, LedgerExact, CopyFresh, Cost, UpdatePrice, history
  <2>7. CASE UNCHANGED budgets
    BY <2>7 DEF budgets, LedgerExact, CopyFresh, Cost, UpdatePrice
  <2>8. QED
    BY <2>1, <2>2, <2>3, <2>4, <2>5, <2>6, <2>7, StepKinds
<1>3. QED
  BY <1>1, <1>2, TypeCorrect, PTL DEF Spec

(***************************************************************************)
(* Loads and deletions.                                                    *)
(***************************************************************************)

(* Concurrent clear-and-reload passes lose no campaign of the source file. *)
THEOREM LoadTheorem == Spec => []LoadsForgetNothing
<1>1. Init => LoadsForgetNothing
  BY DEF Init, LoadsForgetNothing
<1>2. TypeOK /\ LoadsForgetNothing /\ [Next]_vars => LoadsForgetNothing'
  <2> SUFFICES ASSUME TypeOK, LoadsForgetNothing, [Next]_vars
               PROVE  LoadsForgetNothing'
    OBVIOUS
  <2> USE DEF LoadsForgetNothing
  <2>1. ASSUME NEW c \in Campaigns, NEW b \in Bodies, Create(c, b)
        PROVE  LoadsForgetNothing'
    BY <2>1, WrittenRecords DEF Create, TypeOK
  <2>2. ASSUME NEW c \in Campaigns, NEW b \in Bodies, Update(c, b)
        PROVE  LoadsForgetNothing'
    BY <2>2, WrittenRecords DEF Update, TypeOK
  <2>3. ASSUME NEW c \in Campaigns, Remove(c) PROVE LoadsForgetNothing'
    BY <2>3, WrittenRecords DEF Remove, TypeOK
  <2>4. ASSUME NEW l \in Loaders, LoadClear(l) PROVE LoadsForgetNothing'
    <3>1. CASE Source = <<>>
      BY <3>1
    <3>2. CASE Source # <<>>
      <4>1. lpos'[l] = 1
        BY <2>4, <3>2 DEF LoadClear, TypeOK
      <4>2. \A i \in 1..Len(Source) : lpos'[l] \in 1..i
        BY <4>1, WrittenRecords
      <4>3. QED
        BY <4>2
    <3>3. QED
      BY <3>1, <3>2
  <2>5. ASSUME NEW l \in Loaders, LoadInsert(l) PROVE LoadsForgetNothing'
    <3> DEFINE n == lpos[l]
               k == Source[n].campaign_id
    <3>1. n \in 1..Len(Source)
      BY <2>5, WrittenRecords DEF LoadInsert, TypeOK
    <3>2. k \in Campaigns /\ Source[n] # NoEntry
      BY <3>1, WrittenRecords
    <3>3. ipc'[k] # NoEntry
      BY <2>5, <3>2 DEF LoadInsert, TypeOK
    <3>4. \A c \in Campaigns : /\ ipc[c] # NoEntry => ipc'[c] # NoEntry
                               /\ c \in deleted /\ c # k => c \in deleted'
      BY <2>5, <3>2 DEF LoadInsert, TypeOK
    <3>5. n < Len(Source) => lpos'[l] = n + 1
      BY <2>5, <3>1, WrittenRecords DEF LoadInsert, TypeOK
    <3>6. \A j \in Loaders : j # l => lpos'[j] = lpos[j]
      BY <2>5 DEF LoadInsert, TypeOK
    <3>7. loaded' = loaded
      BY <2>5 DEF LoadInsert
    <3> HIDE DEF k
    <3>8. ASSUME loaded', NEW i \in 1..Len(Source)
          PROVE  \/ ipc'[Source[i].campaign_id] # NoEntry
                 \/ Source[i].campaign_id \in deleted'
                 \/ \E j \in Loaders : lpos'[j] \in 1..i
      <4> DEFINE c == Source[i].campaign_id
      <4>1. c \in Campaigns
        BY WrittenRecords
      <4>2. CASE c = k
        BY <3>3, <4>2
      <4>3. CASE c # k /\ (ipc[c] # NoEntry \/ c \in deleted)
        BY <3>4, <4>1, <4>3
      <4>4. ASSUME NEW j \in Loaders, lpos[j] \in 1..i, c # k
            PROVE  \E h \in Loaders : lpos'[h] \in 1..i
        <5>1. CASE j # l
          BY <3>6, <4>4, <5>1
        <5>2. CASE j = l
          <6>1. n # i
            BY <4>4 DEF k
          <6>2. n < i /\ n < Len(Source)
            BY <3>1, <4>4, <5>2, <6>1, WrittenRecords
          <6>3. lpos'[l] \in 1..i
            BY <3>1, <3>5, <6>2, WrittenRecords
          <6>4. QED
            BY <6>3
        <5>3. QED
          BY <5>1, <5>2
      <4>5. QED
        BY <3>7, <3>8, <4>2, <4>3, <4>4
    <3>9. QED
      BY <3>8
  <2>6. ASSUME NEW c \in Campaigns, NEW p \in Prices, WinRetrieve(c, p)
        PROVE  LoadsForgetNothing'
    BY <2>6 DEF WinRetrieve
  <2>7. CASE WinStore
    <3>1. held # NoEntry
      BY NoEntryAssumption DEF TypeOK
    <3>2. \A c \in Campaigns : ipc[c] # NoEntry => ipc'[c] # NoEntry
      BY <2>7, <3>1 DEF WinStore, TypeOK
    <3>3. QED
      BY <2>7, <3>2, WrittenRecords DEF WinStore
  <2>8. CASE WinSend
    BY <2>8 DEF WinSend, history
  <2>9. ASSUME NEW m \in sent, Receive(m) PROVE LoadsForgetNothing'
    BY <2>9 DEF Receive, history
  <2>10. CASE UNCHANGED vars
    BY <2>10 DEF vars
  <2>11. QED
    BY <2>1, <2>2, <2>3, <2>4, <2>5, <2>6, <2>7, <2>8, <2>9, <2>10
    DEF Next, Manager, Loading, Notifying
<1>3. QED
  BY <1>1, <1>2, TypeCorrect, PTL DEF Spec

(* No step of the notification service adds a campaign to the cache: a win *)
(* that races with a deletion does not bring the campaign back.            *)
THEOREM ResurrectionTheorem == Spec => NoResurrection
<1> DEFINE A == \A c \in Campaigns : ipc[c] = NoEntry /\ ipc'[c] # NoEntry => npc' = npc
<1>1. TypeOK /\ [Next]_vars => [A]_vars
  <2> SUFFICES ASSUME TypeOK, [Next]_vars PROVE A
    OBVIOUS
  <2>1. ASSUME NEW c \in Campaigns, NEW b \in CampaignBudgets, Writes(c, b) PROVE A
    BY <2>1 DEF Writes
  <2>2. ASSUME NEW S \in SUBSET Campaigns, Erases(S) PROVE A
    BY <2>2 DEF Erases
  <2>3. ASSUME NEW c \in Campaigns, NEW p \in Prices, WinRetrieve(c, p) PROVE A
    BY <2>3 DEF WinRetrieve
  <2>4. CASE WinStore
    BY <2>4 DEF WinStore, TypeOK
  <2>5. CASE WinSend
    BY <2>5 DEF WinSend
  <2>6. ASSUME NEW m \in sent, Receive(m) PROVE A
    BY <2>6 DEF Receive
  <2>7. CASE UNCHANGED budgets
    BY <2>7 DEF budgets
  <2>8. QED
    BY <2>1, <2>2, <2>3, <2>4, <2>5, <2>6, <2>7, StepKinds
<1>2. QED
  BY <1>1, TypeCorrect, PTL DEF Spec, NoResurrection

=============================================================================
