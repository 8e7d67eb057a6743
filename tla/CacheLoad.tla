------------------------------- MODULE CacheLoad -------------------------------
(* Loading the shared caches a bidder matches with: examples/matchers/ad.hpp,   *)
(* geo.hpp, geo_campaign.hpp, domain.hpp and ico_campaign.hpp, the loaders that *)
(* call them one after the other (generic_bidder_cache_loader.hpp when asked    *)
(* over HTTP, bidder_caches.hpp when a bidder starts), and a bidder that        *)
(* matches a request in three caches meanwhile.                                 *)
EXTENDS Naturals, Sequences

CONSTANTS
    Loaders,   \* the processes that load
    Order,     \* per loader the sequence of entities it loads
    Sources,   \* the files there may be: per entity its lines, <<>> if it is missing
    Unique,    \* entities whose container has one record per key
    Request    \* the key the bidder looks up first

Entity == {"geo", "geo_campaign", "ad"}
Default == [key |-> 0, val |-> 0]

(* A line is a record, has too few fields, or has a field that throws: a number *)
(* that is none, or the seventh field of an ad that has six.                    *)
Line == [kind : {"record", "short", "throws"}, rec : [key : Nat, val : Nat]]

(* A loader loads something, and every cache is loaded by one.                  *)
LoadAssumption ==
    /\ Unique \subseteq Entity /\ Request \in Nat
    /\ Sources \subseteq [Entity -> Seq(Line)]
    /\ Order \in [Loaders -> Seq(Entity) \ {<<>>}]
    /\ \A e \in Entity : \E l \in Loaders : \E i \in 1 .. Len(Order[l]) : Order[l][i] = e

VARIABLES
    source,   \* the files, which stay as they are
    cache,    \* per entity the records in shared memory
    turn,     \* per loader the place in its order
    line,     \* per loader lines read of the present file, 0 before it is opened
    value,    \* per loader the record its istream_iterator holds
    status,   \* per loader "loading", "loaded" or "threw"
    stage,    \* of the bidder: entities it has retrieved from
    user,     \* whether its request names a user's place
    found     \* and what it found: ids, campaigns, ads

vars == <<source, cache, turn, line, value, status, stage, user, found>>

TypeOK ==
    /\ \A e \in Entity : \A r \in cache[e] : r \in [key : Nat, val : Nat]
    /\ status \in [Loaders -> {"loading", "loaded", "threw"}]
    /\ \A l \in Loaders : status[l] = "loading" => turn[l] \in 1 .. Len(Order[l])
    /\ stage \in 0 .. 3

Init ==
    /\ source \in Sources
    /\ cache = [e \in Entity |-> {}]
    /\ turn = [l \in Loaders |-> 1]
    /\ line = [l \in Loaders |-> 0]
    /\ value = [l \in Loaders |-> Default]
    /\ status = [l \in Loaders |-> "loading"]
    /\ stage = 0
    /\ user = TRUE
    /\ found = {Request}

Now(l) == Order[l][turn[l]]

(* Mutant of Open: the record of the file before is inserted first.             *)
OpenKeepsValue(l) ==
    /\ status[l] = "loading" /\ line[l] = 0
    /\ IF source[Now(l)] = <<>>
       THEN /\ status' = [status EXCEPT ![l] = "threw"]
            /\ UNCHANGED <<cache, line, value>>
       ELSE /\ cache' = [cache EXCEPT ![Now(l)] = {value[l]}]
            /\ line' = [line EXCEPT ![l] = 1]
            /\ UNCHANGED <<status, value>>
    /\ UNCHANGED <<source, turn, stage, user, found>>

(* The file is opened, or load throws before it clears anything.                *)
Open(l) ==
    /\ status[l] = "loading" /\ line[l] = 0
    /\ IF source[Now(l)] = <<>>
       THEN /\ status' = [status EXCEPT ![l] = "threw"]
            /\ UNCHANGED <<cache, line, value>>
       ELSE /\ cache' = [cache EXCEPT ![Now(l)] = {}]
            /\ line' = [line EXCEPT ![l] = 1]
            /\ value' = [value EXCEPT ![l] = Default]
            /\ UNCHANGED status
    /\ UNCHANGED <<source, turn, stage, user, found>>

(* Mutant of Parse: fields are assigned before they are counted.                *)
ParseHalf(old, ln) ==
    IF ln.kind = "short" THEN [old EXCEPT !.key = ln.rec.key] ELSE ln.rec

(* operator>>: a line with too few fields leaves the value as it was.           *)
Parse(old, ln) == IF ln.kind = "short" THEN old ELSE ln.rec

(* Mutant of Insert: every container has one record per key.                    *)
InsertUnique(e, rec) ==
    IF \E r \in cache[e] : r.key = rec.key THEN cache[e] ELSE cache[e] \cup {rec}

(* cache.insert of the value, refused where the key is taken.                   *)
Insert(e, rec) ==
    IF e \in Unique /\ \E r \in cache[e] : r.key = rec.key THEN cache[e] ELSE cache[e] \cup {rec}

(* One turn of for_each over the istream_iterator.                              *)
Read(l) ==
    /\ status[l] = "loading" /\ line[l] \in 1 .. Len(source[Now(l)])
    /\ LET ln == source[Now(l)][line[l]] IN
       IF ln.kind = "throws"
       THEN /\ status' = [status EXCEPT ![l] = "threw"]
            /\ UNCHANGED <<cache, line, value>>
       ELSE /\ value' = [value EXCEPT ![l] = Parse(@, ln)]
            /\ cache' = [cache EXCEPT ![Now(l)] = Insert(Now(l), value'[l])]
            /\ line' = [line EXCEPT ![l] = @ + 1]
            /\ UNCHANGED status
    /\ UNCHANGED <<source, turn, stage, user, found>>

(* Mutant of EndOfFile: the load goes on past the last entity.                  *)
EndOfFileLate(l) ==
    /\ status[l] = "loading" /\ line[l] > Len(source[Now(l)])
    /\ IF turn[l] > Len(Order[l])
       THEN status' = [status EXCEPT ![l] = "loaded"] /\ UNCHANGED turn
       ELSE turn' = [turn EXCEPT ![l] = @ + 1] /\ UNCHANGED status
    /\ line' = [line EXCEPT ![l] = 0]
    /\ UNCHANGED <<source, cache, value, stage, user, found>>

(* The end of a file: the next entity, or the end of the load.                  *)
EndOfFile(l) ==
    /\ status[l] = "loading" /\ line[l] > Len(source[Now(l)])
    /\ IF turn[l] = Len(Order[l])
       THEN status' = [status EXCEPT ![l] = "loaded"] /\ UNCHANGED turn
       ELSE turn' = [turn EXCEPT ![l] = @ + 1] /\ UNCHANGED status
    /\ line' = [line EXCEPT ![l] = 0]
    /\ UNCHANGED <<source, cache, value, stage, user, found>>

Chain == <<"geo", "geo_campaign", "ad">>

(* Mutant of Retrieve: the walk goes on past the end of the range.              *)
RetrieveAll(e, keys) == {r.val : r \in cache[e]}

Retrieve(e, keys) == {r.val : r \in {r \in cache[e] : r.key \in keys}}

(* The bidder: the request's geo id, the campaigns of the id, their ads.  A     *)
(* request that names no user or place goes on with the default id.             *)
Match ==
    /\ stage < 3
    /\ stage' = stage + 1
    /\ found' = Retrieve(Chain[stage + 1], found)
    /\ UNCHANGED <<source, cache, turn, line, value, status, user>>

NextRequest ==
    /\ stage = 3
    /\ \/ stage' = 0 /\ user' = TRUE /\ found' = {Request}
       \/ stage' = 1 /\ user' = FALSE /\ found' = {Default.val}
    /\ UNCHANGED <<source, cache, turn, line, value, status>>

Next == Match \/ NextRequest \/ \E l \in Loaders : Open(l) \/ Read(l) \/ EndOfFile(l)

Spec == Init /\ [][Next]_vars

------------------------------------------------------------------------------
Records(e) == {source[e][i].rec : i \in {i \in 1 .. Len(source[e]) : source[e][i].kind = "record"}}

(* What a load may put into a cache: the records of the file, and where the     *)
(* file begins with a line that is too short the default record that line leaves. *)
Given(e) ==
    Records(e) \cup (IF source[e] # <<>> /\ source[e][1].kind = "short" THEN {Default} ELSE {})

(* A cache holds nothing else, whatever loads clear and fill it.                *)
OnlyRecordsOfTheFile == \A e \in Entity : cache[e] \subseteq Given(e)

(* Two loads of the same files, in any order and at the same time, leave every  *)
(* key of the files in the caches, and every record where keys may repeat.      *)
LoadsComplete ==
    (\A l \in Loaders : status[l] = "loaded") =>
        \A e \in Entity : \A r \in Records(e) :
            IF e \in Unique THEN \E q \in cache[e] : q.key = r.key ELSE r \in cache[e]

Join(keys, e) == {r.val : r \in {r \in Given(e) : r.key \in keys}}
Places == IF user THEN Join({Request}, "geo") ELSE {Default.val}
Campaigns == Join(Places, "geo_campaign")

(* A bidder that matches while caches are cleared and filled may miss an ad; it *)
(* never finds one that the files do not give for its request.                  *)
MatchesComeFromTheFiles ==
    CASE stage = 1 -> found \subseteq Places
      [] stage = 2 -> found \subseteq Campaigns
      [] stage = 3 -> found \subseteq Join(Campaigns, "ad")
      [] OTHER -> TRUE
==============================================================================
