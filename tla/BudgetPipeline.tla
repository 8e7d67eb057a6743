--------------------------- MODULE BudgetPipeline ---------------------------
(***************************************************************************)
(* How campaign budgets move between the processes of a deployment.        *)
(*                                                                         *)
(*   campaign manager      PUT / POST / DELETE on the shared budget cache  *)
(*   loaders               every process that calls CampaignCache::load at *)
(*                         start (manager, http bidder, cache loader)      *)
(*   notification service  charges a win to the cached budget and          *)
(*                         broadcasts the new budget over UDP              *)
(*   slave banker          applies the broadcasts to a cache of its own    *)
(*                                                                         *)
(* The cache is shared memory.  Each call of an entity_cache operation     *)
(* holds the named mutex, so one call is one step here; a handler that     *)
(* makes several calls takes several steps, and the other processes may    *)
(* run in between.                                                         *)
(***************************************************************************)
EXTENDS CampaignBudget, Sequences

CONSTANTS
  Campaigns,    \* campaign ids
  NoEntry,      \* marks a key that is not in a cache
  Source,       \* the records of the budget source file, in file order
  Bodies,       \* budgets that request bodies carry
  Prices,       \* prices that win notices carry
  Loaders,      \* processes that load the cache from the source file
  MaxWins,      \* bound on the number of win notices
  MaxEdits      \* bound on the number of REST edits and loads

ASSUME CampaignsAssumption == Campaigns \subseteq Nat
ASSUME NoEntryAssumption == NoEntry \notin CampaignBudgets
ASSUME SourceAssumption ==
  /\ Source \in Seq(JsonBudgets)
  /\ \A i \in 1..Len(Source) : Source[i].campaign_id \in Campaigns
ASSUME BodiesAssumption ==
  /\ Bodies \subseteq JsonBudgets
  /\ \A b \in Bodies : b.campaign_id \in Campaigns
ASSUME PricesAssumption == Prices \subseteq Nat
ASSUME BoundsAssumption == MaxWins \in Nat /\ MaxEdits \in Nat

VARIABLES
  ipc,               \* the shared cache: key -> budget or NoEntry
  slave,             \* the slave banker's cache
  sent,              \* every broadcast sent; UDP may drop, repeat, reorder
  npc, win, held,    \* notification service: its step, the notice it works
                     \* on, its private copy of the budget
  win_notice_count,  \* notification_service_status::win_notice_count
  lpos,              \* loader -> record it inserts next, 0 when not loading
  edits              \* number of REST edits and loads so far

(* History, read by no action guard: what the cache should account for.    *)
VARIABLES
  base,              \* Cost of the record last written by an edit or load
  charged,           \* sum of the wins stored on top of it
  overtaken,         \* the budget in hand was edited since it was retrieved
  raced,             \* a charge was computed from an overtaken copy
  granted,           \* Totals ever written for a campaign id
  loaded, deleted    \* some load started; keys deleted since the last one

history == <<base, charged, overtaken, raced, granted, loaded, deleted>>
vars == <<ipc, slave, sent, npc, win, held, win_notice_count, lpos, edits,
          base, charged, overtaken, raced, granted, loaded, deleted>>

Entries == CampaignBudgets \cup {NoEntry}

-----------------------------------------------------------------------------
Init ==
  /\ ipc = [c \in Campaigns |-> NoEntry]
  /\ slave \in {s \in [Campaigns -> {NoEntry} \cup {Source[i] : i \in 1..Len(Source)}] :
                  \A c \in Campaigns : s[c] # NoEntry => s[c].campaign_id = c}
  /\ sent = {}
  /\ npc = "idle"
  /\ win = [campaign_id |-> 0, price |-> 0]
  /\ held = DefaultBudget
  /\ win_notice_count = 0
  /\ lpos = [l \in Loaders |-> 0]
  /\ edits = 0
  /\ base = [c \in Campaigns |-> 0]
  /\ charged = [c \in Campaigns |-> 0]
  /\ overtaken = FALSE
  /\ raced = [c \in Campaigns |-> FALSE]
  /\ granted = [c \in Campaigns |->
                  IF slave[c] = NoEntry THEN {} ELSE {Total(slave[c])}]
  /\ loaded = FALSE
  /\ deleted = {}

(* History of a record b written under key c by an edit or a load. *)
Recorded(c, b) ==
  /\ base' = [base EXCEPT ![c] = Cost(b)]
  /\ charged' = [charged EXCEPT ![c] = 0]
  /\ raced' = [raced EXCEPT ![c] = FALSE]
  /\ granted' = [k \in Campaigns |-> IF k \in {c, b.campaign_id}
                                     THEN granted[k] \cup {Total(b)}
                                     ELSE granted[k]]

(* The notification service loses a race when key c changes while it holds *)
(* a copy of that entry.                                                   *)
Overtakes(c) == overtaken' = (overtaken \/ (npc = "store" /\ win.campaign_id = c))

Edit == edits < MaxEdits /\ edits' = edits + 1

-----------------------------------------------------------------------------
(* Campaign manager.  The URL names the key; the body names a campaign_id  *)
(* of its own, and nothing compares the two.                               *)

(* PUT: CampaignCache::insert never replaces an existing entry. *)
Create(c, body) ==
  /\ Edit
  /\ IF ipc[c] = NoEntry
     THEN /\ ipc' = [ipc EXCEPT ![c] = body]
          /\ Recorded(c, body)
          /\ Overtakes(c)
          /\ deleted' = deleted \ {c}
     ELSE UNCHANGED <<ipc, base, charged, overtaken, raced, granted, deleted>>
  /\ UNCHANGED <<slave, sent, npc, win, held, win_notice_count, lpos, loaded>>

(* Mutant of Update: the overdraft of the old entry survives the edit. *)
UpdateMerges(c, body) ==
  /\ Edit
  /\ ipc[c] # NoEntry
  /\ ipc' = [ipc EXCEPT ![c] = [body EXCEPT !.day_budget_overdraft = ipc[c].day_budget_overdraft]]
  /\ Recorded(c, body)
  /\ Overtakes(c)
  /\ UNCHANGED <<slave, sent, npc, win, held, win_notice_count, lpos, loaded, deleted>>

(* POST: CampaignCache::update only replaces an existing entry. *)
Update(c, body) ==
  /\ Edit
  /\ IF ipc[c] # NoEntry
     THEN /\ ipc' = [ipc EXCEPT ![c] = body]
          /\ Recorded(c, body)
          /\ Overtakes(c)
     ELSE UNCHANGED <<ipc, base, charged, overtaken, raced, granted>>
  /\ UNCHANGED <<slave, sent, npc, win, held, win_notice_count, lpos, loaded, deleted>>

(* DELETE *)
Remove(c) ==
  /\ Edit
  /\ ipc' = [ipc EXCEPT ![c] = NoEntry]
  /\ Overtakes(c)
  /\ deleted' = deleted \cup {c}
  /\ UNCHANGED <<slave, sent, npc, win, held, win_notice_count, lpos,
                 base, charged, raced, granted, loaded>>

-----------------------------------------------------------------------------
(* CampaignCache::load: one locked clear, then one locked insert a record. *)

(* Mutant of LoadClear: the pass starts one record late. *)
LoadClearLate(l) ==
  /\ Edit
  /\ lpos[l] = 0
  /\ ipc' = [c \in Campaigns |-> NoEntry]
  /\ lpos' = [lpos EXCEPT ![l] = IF Len(Source) < 2 THEN 0 ELSE 2]
  /\ Overtakes(win.campaign_id)
  /\ loaded' = TRUE
  /\ deleted' = {}
  /\ UNCHANGED <<slave, sent, npc, win, held, win_notice_count,
                 base, charged, raced, granted>>

LoadClear(l) ==
  /\ Edit
  /\ lpos[l] = 0
  /\ ipc' = [c \in Campaigns |-> NoEntry]
  /\ lpos' = [lpos EXCEPT ![l] = IF Source = <<>> THEN 0 ELSE 1]
  /\ Overtakes(win.campaign_id)
  /\ loaded' = TRUE
  /\ deleted' = {}
  /\ UNCHANGED <<slave, sent, npc, win, held, win_notice_count,
                 base, charged, raced, granted>>

LoadInsert(l) ==
  /\ lpos[l] # 0
  /\ LET b == Source[lpos[l]]
         c == b.campaign_id
     IN  IF ipc[c] = NoEntry
         THEN /\ ipc' = [ipc EXCEPT ![c] = b]
              /\ Recorded(c, b)
              /\ Overtakes(c)
              /\ deleted' = deleted \ {c}
         ELSE UNCHANGED <<ipc, base, charged, overtaken, raced, granted, deleted>>
  /\ lpos' = [lpos EXCEPT ![l] = IF @ = Len(Source) THEN 0 ELSE @ + 1]
  /\ UNCHANGED <<slave, sent, npc, win, held, win_notice_count, edits, loaded>>

-----------------------------------------------------------------------------
(* Notification service: the handler of a win notice.                      *)

(* The budget is copied out under a shared lock and charged privately.  A  *)
(* notice whose campaign is not cached is answered and forgotten.          *)
WinRetrieve(c, price) ==
  /\ npc = "idle"
  /\ win_notice_count < MaxWins
  /\ ipc[c] # NoEntry
  /\ win' = [campaign_id |-> c, price |-> price]
  /\ held' = UpdatePrice(ipc[c], price)
  /\ win_notice_count' = win_notice_count + 1
  /\ npc' = "store"
  /\ overtaken' = FALSE
  /\ UNCHANGED <<ipc, slave, sent, lpos, edits, base, charged, raced, granted,
                 loaded, deleted>>

(* Mutant of WinStore: the copy is stored whether or not the key is there. *)
WinStoreUpserts ==
  /\ npc = "store"
  /\ npc' = "send"
  /\ ipc' = [ipc EXCEPT ![win.campaign_id] = held]
  /\ charged' = [charged EXCEPT ![win.campaign_id] = @ + win.price]
  /\ raced' = [raced EXCEPT ![win.campaign_id] = @ \/ overtaken]
  /\ UNCHANGED <<slave, sent, win, held, win_notice_count, lpos, edits, base,
                 overtaken, granted, loaded, deleted>>

(* cache.update with the private copy: replaces an existing entry only. *)
WinStore ==
  /\ npc = "store"
  /\ npc' = "send"
  /\ LET c == win.campaign_id
     IN  IF ipc[c] # NoEntry
         THEN /\ ipc' = [ipc EXCEPT ![c] = held]
              /\ charged' = [charged EXCEPT ![c] = @ + win.price]
              /\ raced' = [raced EXCEPT ![c] = @ \/ overtaken]
         ELSE UNCHANGED <<ipc, charged, raced>>
  /\ UNCHANGED <<slave, sent, win, held, win_notice_count, lpos, edits, base,
                 overtaken, granted, loaded, deleted>>

(* communicator<broadcast>().distribute, whether or not update found a key *)
WinSend ==
  /\ npc = "send"
  /\ npc' = "idle"
  /\ sent' = sent \cup {Archived(held)}
  /\ UNCHANGED <<ipc, slave, win, held, win_notice_count, lpos, edits, history>>

-----------------------------------------------------------------------------
(* Slave banker: a datagram replaces the entry of the campaign it names,   *)
(* if there is one.  A datagram that is never received was lost; one that  *)
(* is received again was duplicated; nothing orders them.                  *)
Receive(m) ==
  /\ slave[m.campaign_id] # NoEntry
  /\ slave' = [slave EXCEPT ![m.campaign_id] = m]
  /\ UNCHANGED <<ipc, sent, npc, win, held, win_notice_count, lpos, edits, history>>

-----------------------------------------------------------------------------
Manager == \E c \in Campaigns : \/ \E b \in Bodies : Create(c, b) \/ Update(c, b)
                                \/ Remove(c)

Loading == \E l \in Loaders : LoadClear(l) \/ LoadInsert(l)

Notifying == \/ \E c \in Campaigns, p \in Prices : WinRetrieve(c, p)
             \/ WinStore
             \/ WinSend

Next == Manager \/ Loading \/ Notifying \/ \E m \in sent : Receive(m)

Spec == Init /\ [][Next]_vars

-----------------------------------------------------------------------------
TypeOK ==
  /\ ipc \in [Campaigns -> Entries]
  /\ slave \in [Campaigns -> Entries]
  /\ sent \subseteq CampaignBudgets
  /\ npc \in {"idle", "store", "send"}
  /\ win \in [campaign_id : Nat, price : Nat]
  /\ npc # "idle" => win.campaign_id \in Campaigns
  /\ held \in CampaignBudgets
  /\ win_notice_count \in 0..MaxWins
  /\ lpos \in [Loaders -> 0..Len(Source)]
  /\ edits \in 0..MaxEdits
  /\ base \in [Campaigns -> Nat]
  /\ charged \in [Campaigns -> Nat]
  /\ overtaken \in BOOLEAN
  /\ raced \in [Campaigns -> BOOLEAN]
  /\ granted \in [Campaigns -> SUBSET Nat]
  /\ loaded \in BOOLEAN
  /\ deleted \subseteq Campaigns

(* A campaign that is in overdraft gets no bid authorized.  authorize()    *)
(* never looks at the overdraft: this rests on every way a record is       *)
(* written (charge, REST edit, load) leaving a zero limit beside a         *)
(* positive overdraft.                                                     *)
OverdrawnNeverAuthorized ==
  \A c \in Campaigns :
    ipc[c] # NoEntry /\ ipc[c].day_budget_overdraft > 0 => Authorize(ipc[c]) = 0

(* Charging, racing, broadcasting and reordering neither create nor        *)
(* destroy budget: limit plus spent of every cached or received record is  *)
(* an amount that an edit or a load wrote for that campaign.               *)
BudgetConserved ==
  \A c \in Campaigns :
    /\ ipc[c] # NoEntry => Total(ipc[c]) \in granted[c]
    /\ slave[c] # NoEntry => Total(slave[c]) \in granted[c]

(* A cached record accounts for exactly the wins stored since it was last  *)
(* edited, unless an edit or a load slipped between the retrieve and the   *)
(* update of a win notice: that window is the only way a charge goes       *)
(* missing or a stale one comes back.                                      *)
LedgerExact ==
  \A c \in Campaigns :
    ipc[c] # NoEntry /\ ~raced[c] => Cost(ipc[c]) = base[c] + charged[c]

(* However the loads of several processes interleave, with each other and  *)
(* with edits, a campaign of the source file is cached, deleted on         *)
(* purpose, or still to be inserted by a load under way.                   *)
LoadsForgetNothing ==
  loaded => \A i \in 1..Len(Source) :
              LET c == Source[i].campaign_id
              IN  \/ ipc[c] # NoEntry
                  \/ c \in deleted
                  \/ \E l \in Loaders : lpos[l] \in 1..i

(* A win that races with the deletion of its campaign does not bring the   *)
(* campaign back: no step of the notification service adds a key.          *)
NoResurrection ==
  [][\A c \in Campaigns : ipc[c] = NoEntry /\ ipc'[c] # NoEntry => npc' = npc]_vars

=============================================================================
