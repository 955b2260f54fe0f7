---------------------------- MODULE PromptCache ----------------------------
(***************************************************************************)
(* The prompt cache of the OpenAI adapter, shared by every chat of the     *)
(* process: a DashMap of answers, sharded, each shard behind a lock of its *)
(* own, and a list of keys in the order of their use behind a mutex.  A    *)
(* chat looks its key up, and when it is not there asks the provider and   *)
(* inserts the answer.                                                     *)
(*                                                                         *)
(* Each step is what a thread does under one lock.  A lookup keeps the     *)
(* read guard of its shard while it takes the mutex of the list; an        *)
(* eviction holds that mutex while it takes write guards.                  *)
(***************************************************************************)
EXTENDS Integers, Sequences, FiniteSets

CONSTANTS
    Chats,          \* the calls of `chat` that can be under way at a time
    Asks,           \* what clients ask
    Serving(_),     \* the provider_model_ids a public id can resolve to
    Shard(_),       \* the shard of the map a key falls into
    max_size,
    default_ttl,
    NoEntry,
    Unset,
    MaxCalls,       \* bounds the chats of a behaviour
    MaxClock        \* bounds the clock

\* temperature counts thousandths.
ASSUME PromptCacheAssumption ==
    /\ \A q \in Asks : /\ q.stream \in BOOLEAN
                       /\ q.temperature \in Nat \cup {Unset}
    /\ Unset \notin Nat
    /\ max_size \in Nat \ {0} /\ default_ttl \in Nat
    /\ MaxCalls \in Nat /\ MaxClock \in Nat

VARIABLES
    cache,        \* [key -> CacheEntry or NoEntry]
    lru_order,
    lru_lock,     \* who holds the mutex
    guards,       \* [shard -> the chats that hold a read guard on it]
    chatting,     \* [chat -> what it is doing]
    begun,        \* how many chats have begun
    clock

pvars == <<cache, lru_order, lru_lock, guards, chatting, begun, clock>>

\* Mutant: the key forgets max_tokens.
from_request_forgets(q) ==
    [model |-> q.model, messages |-> q.messages, max_tokens |-> Unset,
     temperature |-> IF q.temperature = Unset THEN Unset ELSE q.temperature \div 10,
     response_format |-> q.response_format]

\* The temperature is kept in hundredths.  Tools, stop sequences, the seed and
\* all other options (`rest`) are no part of the key, and neither is the
\* profile that answers.
from_request(q) ==
    [model |-> q.model, messages |-> q.messages, max_tokens |-> q.max_tokens,
     temperature |-> IF q.temperature = Unset THEN Unset ELSE q.temperature \div 10,
     response_format |-> q.response_format]

\* Lookup keys have the public id the client named, inserted keys the id of
\* the provider.
Translated(q, id) ==
    [model |-> id, messages |-> q.messages, temperature |-> q.temperature,
     max_tokens |-> q.max_tokens, response_format |-> q.response_format,
     stream |-> q.stream, rest |-> q.rest]

PromptKeys == UNION {{from_request(q)} \cup {from_request(Translated(q, id)) : id \in Serving(q.model)} :
                        q \in Asks}
Shards == {Shard(k) : k \in PromptKeys}

NoChat == [pc |-> "idle"]

PInit ==
    /\ cache = [k \in PromptKeys |-> NoEntry]
    /\ lru_order = <<>> /\ lru_lock = Unset
    /\ guards = [s \in Shards |-> {}]
    /\ chatting = [c \in Chats |-> NoChat]
    /\ begun = 0 /\ clock = 0

----------------------------------------------------------------------------
ChatAt(c, pc) == chatting[c].pc = pc
Goto(c, pc) == chatting' = [chatting EXCEPT ![c].pc = pc]
Len_(f) == Cardinality({k \in DOMAIN f : f[k] # NoEntry})
Writable(k) == guards[Shard(k)] = {}

InOrder(k) == \E i \in 1..Len(lru_order) : lru_order[i] = k

\* The list without the key, which it has once at most.
Without(k) ==
    LET pos == CHOOSE i \in 1..Len(lru_order) : lru_order[i] = k
    IN  IF InOrder(k) THEN SubSeq(lru_order, 1, pos - 1) \o SubSeq(lru_order, pos + 1, Len(lru_order))
        ELSE lru_order

\* Mutant: an access moves a key that is in the list and adds none.
MovedOnly(k) == IF InOrder(k) THEN Append(Without(k), k) ELSE lru_order

\* update_lru_access, under the mutex.
Moved(k) == Append(Without(k), k)

chat(c, q, id) ==
    /\ ChatAt(c, "idle") /\ begun < MaxCalls /\ id \in Serving(q.model)
    /\ begun' = begun + 1
    /\ chatting' = [chatting EXCEPT ![c] =
         [pc |-> IF q.stream THEN "send" ELSE "get", ask |-> q, id |-> id,
          key |-> from_request(q), victim |-> Unset, answer |-> Unset, expires_at |-> 0,
          read_at |-> 0, served |-> Unset]]
    /\ UNCHANGED <<cache, lru_order, lru_lock, guards, clock>>

\* get: the shard is read; the guard of an expired entry is dropped.
LookUp(c) ==
    LET k == chatting[c].key
        e == cache[k]
    IN  /\ ChatAt(c, "get")
        /\ \/ e = NoEntry /\ Goto(c, "send") /\ UNCHANGED guards
           \/ e # NoEntry /\ e.expires_at < clock /\ Goto(c, "expired") /\ UNCHANGED guards
           \/ /\ e # NoEntry /\ e.expires_at >= clock
              /\ chatting' = [chatting EXCEPT ![c].pc = "touch", ![c].read_at = clock]
              /\ guards' = [guards EXCEPT ![Shard(k)] = @ \cup {c}]
        /\ UNCHANGED <<cache, lru_order, lru_lock, begun, clock>>

RemoveExpired(c) ==
    /\ ChatAt(c, "expired") /\ Writable(chatting[c].key)
    /\ cache' = [cache EXCEPT ![chatting[c].key] = NoEntry]
    /\ Goto(c, "send")
    /\ UNCHANGED <<lru_order, lru_lock, guards, begun, clock>>

\* The access is noted under the guard, then the value is cloned and served.
Hit(c) ==
    LET k == chatting[c].key
    IN  /\ ChatAt(c, "touch") /\ lru_lock = Unset
        /\ lru_order' = Moved(k)
        /\ guards' = [guards EXCEPT ![Shard(k)] = @ \ {c}]
        /\ chatting' = [chatting EXCEPT ![c].pc = "done", ![c].served = cache[k].value]
        /\ UNCHANGED <<cache, lru_lock, begun, clock>>

\* The provider answers, or fails in one of the ways `chat` returns as an
\* error; the answer of a stream is not cached.
Answered(c, ok) ==
    /\ ChatAt(c, "send")
    /\ chatting' = [chatting EXCEPT
         ![c].pc = IF ok /\ ~chatting[c].ask.stream THEN "contains" ELSE "done",
         ![c].key = from_request(Translated(chatting[c].ask, chatting[c].id)),
         ![c].answer = IF ok THEN [to |-> chatting[c].ask, by |-> chatting[c].id, at |-> clock]
                             ELSE Unset,
         ![c].expires_at = clock + default_ttl]
    /\ UNCHANGED <<cache, lru_order, lru_lock, guards, begun, clock>>

\* insert_with_ttl, step by step.
ContainsKey(c) ==
    /\ ChatAt(c, "contains")
    /\ Goto(c, IF cache[chatting[c].key] = NoEntry THEN "len" ELSE "remove")
    /\ UNCHANGED <<cache, lru_order, lru_lock, guards, begun, clock>>

AtCapacity(c) ==
    /\ ChatAt(c, "len")
    /\ Goto(c, IF Len_(cache) >= max_size THEN "evict" ELSE "remove")
    /\ UNCHANGED <<cache, lru_order, lru_lock, guards, begun, clock>>

\* evict_lru: keys are taken from the front until one is in the map.
evict_lru(c) ==
    /\ ChatAt(c, "evict") /\ lru_lock = Unset
    /\ lru_lock' = c /\ Goto(c, "pop")
    /\ UNCHANGED <<cache, lru_order, guards, begun, clock>>

PopFront(c) ==
    /\ ChatAt(c, "pop")
    /\ \/ lru_order = <<>> /\ lru_lock' = Unset /\ Goto(c, "remove") /\ UNCHANGED lru_order
       \/ /\ lru_order # <<>>
          /\ lru_order' = Tail(lru_order)
          /\ \/ cache[Head(lru_order)] = NoEntry /\ UNCHANGED chatting
             \/ /\ cache[Head(lru_order)] # NoEntry
                /\ chatting' = [chatting EXCEPT ![c].pc = "drop", ![c].victim = Head(lru_order)]
          /\ UNCHANGED lru_lock
    /\ UNCHANGED <<cache, guards, begun, clock>>

DropVictim(c) ==
    /\ ChatAt(c, "drop") /\ Writable(chatting[c].victim)
    /\ cache' = [cache EXCEPT ![chatting[c].victim] = NoEntry]
    /\ lru_lock' = Unset
    /\ chatting' = [chatting EXCEPT ![c].pc = "remove", ![c].victim = Unset]
    /\ UNCHANGED <<lru_order, guards, begun, clock>>

RemoveOld(c) ==
    /\ ChatAt(c, "remove") /\ Writable(chatting[c].key)
    /\ cache' = [cache EXCEPT ![chatting[c].key] = NoEntry]
    /\ Goto(c, "insert")
    /\ UNCHANGED <<lru_order, lru_lock, guards, begun, clock>>

InsertEntry(c) ==
    /\ ChatAt(c, "insert") /\ Writable(chatting[c].key)
    /\ cache' = [cache EXCEPT ![chatting[c].key] =
                    [value |-> chatting[c].answer, expires_at |-> chatting[c].expires_at]]
    /\ Goto(c, "note")
    /\ UNCHANGED <<lru_order, lru_lock, guards, begun, clock>>

update_lru_access(c) ==
    /\ ChatAt(c, "note") /\ lru_lock = Unset
    /\ lru_order' = Moved(chatting[c].key)
    /\ Goto(c, "done")
    /\ UNCHANGED <<cache, lru_lock, guards, begun, clock>>

ChatReturns(c) ==
    /\ ChatAt(c, "done")
    /\ chatting' = [chatting EXCEPT ![c] = NoChat]
    /\ UNCHANGED <<cache, lru_order, lru_lock, guards, begun, clock>>

ClockTick ==
    /\ clock < MaxClock /\ clock' = clock + 1
    /\ UNCHANGED <<cache, lru_order, lru_lock, guards, chatting, begun>>

ChatStep(c) ==
    \/ \E q \in Asks : \E id \in Serving(q.model) : chat(c, q, id)
    \/ LookUp(c) \/ RemoveExpired(c) \/ Hit(c)
    \/ \E ok \in BOOLEAN : Answered(c, ok)
    \/ ContainsKey(c) \/ AtCapacity(c)
    \/ evict_lru(c) \/ PopFront(c) \/ DropVictim(c)
    \/ RemoveOld(c) \/ InsertEntry(c) \/ update_lru_access(c)
    \/ ChatReturns(c)

PNext == ClockTick \/ \E c \in Chats : ChatStep(c)

PSpec == PInit /\ [][PNext]_pvars

----------------------------------------------------------------------------
(* Properties.                                                             *)

\* What a chat is served from the cache is an answer of the provider's model
\* that carries the name the client used, to the same messages, token limit,
\* response format and temperature (in hundredths), no older than the time to
\* live: whatever was inserted, evicted, expired and inserted again meanwhile
\* (PromptCacheKey::from_request, PromptCache::get).
HitIsFaithful ==
    \A c \in Chats : (~ChatAt(c, "idle") /\ chatting[c].served # Unset) =>
        LET q == chatting[c].ask
            v == chatting[c].served
        IN  /\ ~q.stream /\ v.by = q.model
            /\ v.to.messages = q.messages /\ v.to.max_tokens = q.max_tokens
            /\ v.to.response_format = q.response_format
            /\ (v.to.temperature = Unset) <=> (q.temperature = Unset)
            /\ q.temperature # Unset => v.to.temperature \div 10 = q.temperature \div 10
            /\ chatting[c].read_at <= v.at + default_ttl

\* No entry is out of the eviction's reach for good: every key in the map is
\* in the list, or its insertion has yet to put it there, or an eviction is
\* about to remove it (insert_with_ttl touches map and list under different
\* locks).
EveryEntryEvictable ==
    \A k \in PromptKeys : cache[k] # NoEntry =>
        \/ InOrder(k)
        \/ \E c \in Chats : \/ ChatAt(c, "note") /\ chatting[c].key = k
                            \/ ChatAt(c, "drop") /\ chatting[c].victim = k

\* "Thread-safe prompt cache with TTL and LRU eviction" (prompt_cache.rs:14):
\* a lookup and an eviction never wait for each other, the one for the mutex
\* of the list, the other for the shard the lookup is reading.
NoLockCycle ==
    ~ \E c, d \in Chats : /\ ChatAt(c, "touch") /\ lru_lock = d
                          /\ ChatAt(d, "drop") /\ c \in guards[Shard(chatting[d].victim)]
=============================================================================
