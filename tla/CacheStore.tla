------------------------------ MODULE CacheStore -------------------------------
(***************************************************************************)
(* libs/cache, CacheService: values, counters and lists in Redis.  An      *)
(* error is answered like nothing found, although a command that timed out *)
(* may have been executed; a command that was on its way when the          *)
(* connection broke is sent again, and may be executed twice.  Between     *)
(* what getOrSet or warm fetch and what they store, the origin may change. *)
(***************************************************************************)
EXTENDS Requests

CONSTANTS
    StoreKeys,             \* keys of cached values
    Items,                 \* pushed on a list, each once
    MaxOrigin,             \* bounds the changes of a value
    MaxIncrements, MaxTold \* bounds the increments of the counter, and what the statistics count

ASSUME CacheStoreAssumption == IsFiniteSet(StoreKeys) /\ MaxOrigin \in Nat \ {0}

VARIABLES
    origin,        \* the version each value has where it comes from
    kept,          \* the version under each key, 0 for none
    counter, list, \* a counter, and a list from its head
    told,          \* stats: hits, misses, errors, and the hits and lookups of hitRate
    storing,       \* the call each client is in
    counted,       \* history: increments answered, and those that may have been executed besides
    given,         \* history: how often lpop answered each item
    astray,        \* history: items whose push or pop was not answered, or sent twice
    outdated      \* history: keys whose origin changed while a caller held it, or whose deletion failed

StoreVars == <<origin, kept, counter, list, told, storing, counted, given, astray, outdated>>

\* How a command ends: executed and answered, executed twice and answered the second time,
\* executed without an answer, or neither.  (Nothing said below depends on what other commands
\* come between the two executions.)
Outcomes == {"answered", "resent", "lost", "failed"}
IsAnswered(outcome) == outcome \in {"answered", "resent"}
Times(outcome) == CASE outcome = "failed" -> 0 [] outcome = "resent" -> 2 [] OTHER -> 1
IsExecuted(outcome) == Times(outcome) > 0

NothingTold == [hits |-> 0, misses |-> 0, errors |-> 0, rate |-> <<0, 0>>]
StoreInit ==
    /\ origin = [key \in StoreKeys |-> 1] /\ kept = [key \in StoreKeys |-> 0]
    /\ counter = 0 /\ list = <<>> /\ told = NothingTold /\ storing = [k \in Clients |-> Resting]
    /\ counted = [answered |-> 0, besides |-> 0] /\ given = [item \in Items |-> 0]
    /\ astray = {} /\ outdated = {}

-----------------------------------------------------------------------------
\* Faulty variant: the rate is left alone when nothing new was found.
updateHitRateOnHit(stats) ==
    IF stats.hits = stats.rate[1] THEN stats
    ELSE [stats EXCEPT !.rate = <<stats.hits, stats.hits + stats.misses>>]

updateHitRate(stats) == [stats EXCEPT !.rate = <<stats.hits, stats.hits + stats.misses>>]
AfterError == [told EXCEPT !.errors = @ + 1]
Told(outcome) == IF IsAnswered(outcome) THEN told ELSE AfterError
Start(k, call) == storing' = [storing EXCEPT ![k] = call]

\* A hit is the answer; after a miss, or an error, getOrSet asks the origin.
get(k, key, works, thenFetch) ==
    LET hit == works /\ kept[key] # 0 IN
    /\ told' = IF ~works THEN AfterError
               ELSE updateHitRate(IF hit THEN [told EXCEPT !.hits = @ + 1] ELSE [told EXCEPT !.misses = @ + 1])
    /\ Start(k, IF thenFetch /\ ~hit THEN [pc |-> "fetch", keys |-> {key}] ELSE Resting)
    /\ UNCHANGED <<origin, kept, counter, list, counted, given, astray, outdated>>
\* One command, whose keys are counted one by one.
mget(keys, works) ==
    LET hits == Cardinality({key \in keys : kept[key] # 0}) IN
    /\ told' = updateHitRate(IF works
                             THEN [told EXCEPT !.hits = @ + hits, !.misses = @ + Cardinality(keys) - hits]
                             ELSE AfterError)
    /\ UNCHANGED <<origin, kept, counter, list, storing, counted, given, astray, outdated>>

\* warm fetches the values of its entries one after the other.
warm(k, keys) ==
    /\ Start(k, [pc |-> "fetch", keys |-> keys])
    /\ UNCHANGED <<origin, kept, counter, list, told, counted, given, astray, outdated>>
Held(k) == IF "held" \in DOMAIN storing[k] THEN storing[k].held ELSE [key \in {} |-> 0]
\* An origin that throws has no value to store.
fetcher(k, key, throws) ==
    /\ storing[k].pc = "fetch" /\ key \in storing[k].keys
    /\ LET got == IF throws THEN Held(k)
                  ELSE [other \in DOMAIN Held(k) \union {key} |-> IF other = key THEN origin[key] ELSE Held(k)[other]]
           left == storing[k].keys \ {key} IN
       Start(k, CASE left # {} -> [pc |-> "fetch", keys |-> left, held |-> got]
                  [] left = {} /\ DOMAIN got = {} -> Resting
                  [] OTHER -> [pc |-> "store", keys |-> {}, held |-> got])
    /\ UNCHANGED <<origin, kept, counter, list, told, counted, given, astray, outdated>>
\* What mset leaves, whose pipeline has a command for each key, and what a deletion leaves.
With(got) == [key \in StoreKeys |-> IF key \in DOMAIN got THEN got[key] ELSE kept[key]]
Without(keys) == [key \in StoreKeys |-> IF key \in keys THEN 0 ELSE kept[key]]

\* Whatever was fetched is stored, one value by set, several by a pipeline.
set(k, outcome) ==
    LET got == Held(k) IN
    /\ storing[k].pc = "store" /\ told' = Told(outcome) /\ Start(k, Resting)
    /\ kept' = IF IsExecuted(outcome) THEN With(got) ELSE kept
    /\ UNCHANGED <<origin, counter, list, counted, given, astray, outdated>>

\* CacheAwareRequest.invalidateAfter and the decorator CacheInvalidate: first the operation.
invalidateAfter(k, key) ==
    /\ origin[key] < MaxOrigin /\ origin' = [origin EXCEPT ![key] = @ + 1]
    /\ Start(k, [pc |-> "delete", keys |-> {key}])
    /\ outdated' = IF \E other \in Clients : storing[other] # Resting /\ key \in DOMAIN Held(other)
                    THEN outdated \union {key} ELSE outdated
    /\ UNCHANGED <<kept, counter, list, told, counted, given, astray>>

\* Faulty variant: a deletion without an answer is taken for done.
mdelHopeful(k, outcome) ==
    LET keys == storing[k].keys IN
    /\ storing[k].pc = "delete" /\ told' = Told(outcome) /\ Start(k, Resting)
    /\ kept' = IF IsExecuted(outcome) THEN Without(keys) ELSE kept
    /\ UNCHANGED <<origin, counter, list, counted, given, astray, outdated>>

\* A deletion that fails is answered as if there had been no such key.
mdel(k, outcome) ==
    LET keys == storing[k].keys IN
    /\ storing[k].pc = "delete" /\ told' = Told(outcome) /\ Start(k, Resting)
    /\ kept' = IF IsExecuted(outcome) THEN Without(keys) ELSE kept
    /\ outdated' = IF IsExecuted(outcome) THEN outdated ELSE outdated \union keys
    /\ UNCHANGED <<origin, counter, list, counted, given, astray>>
\* A ttl that is over, or flushall.
Expires(keys) ==
    /\ kept' = Without(keys)
    /\ UNCHANGED <<origin, counter, list, told, storing, counted, given, astray, outdated>>

-----------------------------------------------------------------------------
\* incr, and decr alike: an increment that failed answers 0.
incr(outcome) ==
    /\ counter < MaxIncrements
    /\ counter' = counter + Times(outcome)
    /\ counted' = [answered |-> counted.answered + (IF IsAnswered(outcome) THEN 1 ELSE 0),
                   besides |-> counted.besides + (IF outcome \in {"resent", "lost"} THEN 1 ELSE 0)]
    /\ told' = Told(outcome)
    /\ UNCHANGED <<origin, kept, list, storing, given, astray, outdated>>

lpush(item, outcome) ==
    /\ item \notin {list[n] : n \in DOMAIN list} \union astray /\ given[item] = 0
    /\ list' = [n \in 1 .. Times(outcome) |-> item] \o list
    /\ astray' = IF outcome = "answered" THEN astray ELSE astray \union {item}
    /\ told' = Told(outcome)
    /\ UNCHANGED <<origin, kept, counter, storing, counted, given, outdated>>
\* Each execution takes an item; only the one of the last is answered.
lpop(outcome) ==
    LET gone == IF Times(outcome) < Len(list) THEN Times(outcome) ELSE Len(list)
        answer == IF IsAnswered(outcome) /\ Times(outcome) <= Len(list) /\ gone > 0 THEN {list[gone]} ELSE {} IN
    /\ list' = SubSeq(list, gone + 1, Len(list))
    /\ given' = [item \in Items |-> IF item \in answer THEN given[item] + 1 ELSE given[item]]
    /\ astray' = astray \union ({list[n] : n \in 1 .. gone} \ answer)
    /\ told' = Told(outcome)
    /\ UNCHANGED <<origin, kept, counter, storing, counted, outdated>>
resetStats ==
    /\ told' = NothingTold
    /\ UNCHANGED <<origin, kept, counter, list, storing, counted, given, astray, outdated>>

-----------------------------------------------------------------------------
Idle(k) == storing[k] = Resting
ValuesNext ==
    \/ /\ told.hits + told.misses + told.errors < MaxTold
       /\ \/ \E k \in Clients, key \in StoreKeys, works \in BOOLEAN :
                Idle(k) /\ \E thenFetch \in BOOLEAN : get(k, key, works, thenFetch)
          \/ \E works \in BOOLEAN : mget(StoreKeys, works)
          \/ \E k \in Clients, outcome \in Outcomes : set(k, outcome) \/ mdel(k, outcome)
    \/ \E k \in Clients :
        \/ Idle(k) /\ (warm(k, StoreKeys) \/ \E key \in StoreKeys : invalidateAfter(k, key))
        \/ \E key \in StoreKeys, throws \in BOOLEAN : fetcher(k, key, throws)
    \/ Expires(StoreKeys) \/ \E key \in StoreKeys : Expires({key})
    \/ resetStats
CountersNext ==
    /\ told.errors < MaxTold
    /\ \E outcome \in Outcomes : incr(outcome) \/ lpop(outcome) \/ \E item \in Items : lpush(item, outcome)
StoreSpec == StoreInit /\ [][ValuesNext \/ CountersNext]_StoreVars

-----------------------------------------------------------------------------
\* The keys and the statistics hold what CacheService puts there.
StoreTypeOK ==
    /\ origin \in [StoreKeys -> 1 .. MaxOrigin] /\ kept \in [StoreKeys -> 0 .. MaxOrigin]
    /\ counter \in Nat /\ list \in Seq(Items) /\ {told.hits, told.misses, told.errors} \subseteq Nat

\* After an operation and its invalidation, an older value is under the key only if a reader or
\* a warm-up had fetched it before the operation, or the deletion failed.
OldOnlyByOverlap ==
    \A key \in StoreKeys \ outdated :
        kept[key] \in {0, origin[key]} \/ \E k \in Clients : storing[k].pc = "delete" /\ key \in storing[k].keys

\* hitRate is that of the hits and misses counted, through errors, many keys at once and resets.
RateIsCurrent == told.rate = <<told.hits, told.hits + told.misses>>

\* Every answered increment is in the counter, and nothing but increments that failed or were
\* sent twice is in it besides.
IncrementsAreKept == counted.answered <= counter /\ counter <= counted.answered + counted.besides

\* An item is handed to one caller at most, and is not waiting for another, unless a command
\* about it went wrong.
HandedOverOnce ==
    \A item \in Items \ astray :
        given[item] + Cardinality({n \in DOMAIN list : list[n] = item}) <= 1
=============================================================================
