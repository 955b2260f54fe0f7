------------------------- MODULE PromptCacheProofs --------------------------
(***************************************************************************)
(* Proofs about PromptCache for any number of chats, asks and shards, any  *)
(* capacity and any time to live.                                          *)
(*                                                                         *)
(* HitIsFaithful rests on three facts: every entry is filed under the key  *)
(* of the question it answers (EntriesFiled), a chat that inserts carries  *)
(* such an answer (Inserts), and what a lookup has read stays until it is  *)
(* served, because its read guard keeps every writer of the shard out      *)
(* (Touches).  EveryEntryEvictable is inductive with the types.            *)
(***************************************************************************)
EXTENDS PromptCache, SequenceTheorems, TLAPS

ModelIds == UNION {Serving(q.model) : q \in Asks}
AnswersTo == [to : Asks, by : ModelIds, at : Nat]
Entries == [value : AnswersTo, expires_at : Nat]
Working == {"get", "expired", "touch", "send", "contains", "len", "evict", "pop", "drop",
            "remove", "insert", "note", "done"}
Inserting == {"contains", "len", "evict", "pop", "drop", "remove", "insert"}
Chatting == [pc : Working, ask : Asks, id : ModelIds, key : PromptKeys,
             victim : PromptKeys \cup {Unset}, answer : AnswersTo \cup {Unset},
             expires_at : Nat, read_at : Nat, served : AnswersTo \cup {Unset}]

PromptTypeOK ==
    /\ cache \in [PromptKeys -> Entries \cup {NoEntry}]
    /\ lru_order \in Seq(PromptKeys)
    /\ guards \in [Shards -> SUBSET Chats]
    /\ chatting \in [Chats -> Chatting \cup {NoChat}]
    /\ clock \in Nat

\* An entry is filed under the key of the question it answers.
Filed(k, value, expires_at) ==
    /\ value.by \in Serving(value.to.model)
    /\ k = from_request(Translated(value.to, value.by))
    /\ expires_at = value.at + default_ttl
EntriesFiled == \A k \in PromptKeys :
    cache[k] # NoEntry => Filed(k, cache[k].value, cache[k].expires_at)

Asked(t) == t.id \in Serving(t.ask.model)
LooksUp(t) == t.pc \in {"get", "expired", "touch"} => t.key = from_request(t.ask) /\ ~t.ask.stream
Inserts(t) == t.pc \in Inserting => t.answer \in AnswersTo /\ Filed(t.key, t.answer, t.expires_at)
Drops(t) == t.pc = "drop" => t.victim \in PromptKeys
Serves(t) == t.served # Unset => t.pc = "done"

\* The entry a lookup has read is there until it is served.
Touches(c, t) == t.pc = "touch" =>
    /\ c \in guards[Shard(t.key)]
    /\ cache[t.key] # NoEntry
    /\ t.read_at <= cache[t.key].expires_at

\* HitIsFaithful of one chat.
Faithful(t) == t.served # Unset =>
    LET q == t.ask
        v == t.served
    IN  /\ ~q.stream /\ v.by = q.model
        /\ v.to.messages = q.messages /\ v.to.max_tokens = q.max_tokens
        /\ v.to.response_format = q.response_format
        /\ (v.to.temperature = Unset) <=> (q.temperature = Unset)
        /\ q.temperature # Unset => v.to.temperature \div 10 = q.temperature \div 10
        /\ t.read_at <= v.at + default_ttl

ChatOK(c, t) == t = NoChat \/
    /\ t \in Chatting /\ Asked(t) /\ LooksUp(t) /\ Inserts(t) /\ Drops(t) /\ Serves(t)
    /\ Touches(c, t) /\ Faithful(t)

PromptInv ==
    /\ PromptTypeOK /\ EntriesFiled /\ EveryEntryEvictable
    /\ \A c \in Chats : ChatOK(c, chatting[c])

-----------------------------------------------------------------------------
\* What a key looks like, and that keys of questions are keys of the cache.
LEMMA KeysOfAsks ==
  ASSUME NEW q \in Asks
  PROVE  /\ from_request(q) \in PromptKeys
         /\ \A id \in Serving(q.model) : from_request(Translated(q, id)) \in PromptKeys
BY DEF PromptKeys

\* Noting an access keeps every key of the list and adds the one accessed.
LEMMA Moving ==
  ASSUME lru_order \in Seq(PromptKeys), NEW k \in PromptKeys, lru_order' = Moved(k)
  PROVE  /\ lru_order' \in Seq(PromptKeys)
         /\ InOrder(k)'
         /\ \A x : InOrder(x) => InOrder(x)'
<1> DEFINE s == lru_order
           pos == CHOOSE i \in 1..Len(s) : s[i] = k
           w == Without(k)
<1>1. /\ w \in Seq(PromptKeys)
      /\ \A x : InOrder(x) /\ x # k => \E i \in 1..Len(w) : w[i] = x
  <2>1. CASE ~InOrder(k)
    BY <2>1 DEF Without, InOrder
  <2>2. CASE InOrder(k)
    <3>1. pos \in 1..Len(s) /\ s[pos] = k
      BY <2>2 DEF InOrder
    <3> DEFINE a == SubSeq(s, 1, pos - 1)
               b == SubSeq(s, pos + 1, Len(s))
    <3>2. w = a \o b
      BY <2>2 DEF Without
    <3> HIDE DEF pos, w
    <3>3. a \in Seq(PromptKeys) /\ Len(a) = pos - 1 /\ \A i \in 1..(pos - 1) : a[i] = s[i]
      BY <3>1
    <3>4. /\ b \in Seq(PromptKeys) /\ Len(b) = Len(s) - pos
          /\ \A i \in 1..(Len(s) - pos) : b[i] = s[pos + i]
      BY <3>1
    <3> HIDE DEF a, b
    <3>5. /\ w \in Seq(PromptKeys) /\ Len(w) = Len(s) - 1
          /\ \A i \in 1..(pos - 1) : w[i] = s[i]
          /\ \A i \in pos..(Len(s) - 1) : w[i] = s[i + 1]
      <4>1. /\ w \in Seq(PromptKeys) /\ Len(w) = Len(a) + Len(b)
            /\ \A i \in 1..(Len(a) + Len(b)) :
                  w[i] = IF i <= Len(a) THEN a[i] ELSE b[i - Len(a)]
        BY <3>2, <3>3, <3>4, ConcatProperties
      <4>2. Len(s) \in Nat
        OBVIOUS
      <4>3. ASSUME NEW i \in 1..(pos - 1) PROVE w[i] = s[i]
        <5>1. i \in 1..(Len(a) + Len(b)) /\ i <= Len(a)
          BY <3>1, <3>3, <3>4, <4>2
        <5> QED BY <3>3, <4>1, <5>1
      <4>4. ASSUME NEW i \in pos..(Len(s) - 1) PROVE w[i] = s[i + 1]
        <5>1. i \in 1..(Len(a) + Len(b)) /\ ~(i <= Len(a))
          BY <3>1, <3>3, <3>4, <4>2
        <5>2. w[i] = b[i - (pos - 1)]
          BY <3>3, <4>1, <5>1
        <5>3. i - (pos - 1) \in 1..(Len(s) - pos) /\ pos + (i - (pos - 1)) = i + 1
          BY <3>1, <4>2
        <5> QED BY <3>4, <5>2, <5>3
      <4> QED BY <3>1, <3>3, <3>4, <4>1, <4>2, <4>3, <4>4
    <3>6. ASSUME NEW j \in 1..Len(s), s[j] # k
          PROVE  \E i \in 1..Len(w) : w[i] = s[j]
      <4>1. CASE j < pos
        BY <4>1, <3>1, <3>5
      <4>2. CASE j > pos
        <5>1. j - 1 \in pos..(Len(s) - 1) /\ w[j - 1] = s[j]
          BY <4>2, <3>1, <3>5
        <5> QED BY <5>1, <3>1, <3>5
      <4> QED BY <3>1, <3>6, <4>1, <4>2
    <3> QED BY <3>5, <3>6 DEF InOrder
  <2> QED BY <2>1, <2>2
<1>2. lru_order' = Append(w, k)
  BY DEF Moved
<1> HIDE DEF w
<1>3. /\ lru_order' \in Seq(PromptKeys) /\ Len(lru_order') = Len(w) + 1
      /\ lru_order'[Len(w) + 1] = k /\ \A i \in 1..Len(w) : lru_order'[i] = w[i]
  BY <1>1, <1>2
<1>4. InOrder(k)'
  BY <1>1, <1>3 DEF InOrder
<1>5. ASSUME NEW x, InOrder(x) PROVE InOrder(x)'
  <2>1. CASE x = k
    BY <1>4, <2>1
  <2>2. CASE x # k
    <3>1. PICK i \in 1..Len(w) : w[i] = x
      BY <1>1, <1>5, <2>2
    <3>2. i \in 1..Len(lru_order') /\ lru_order'[i] = x
      BY <1>1, <1>3, <3>1
    <3> QED BY <3>2 DEF InOrder
  <2> QED BY <2>1, <2>2
<1> QED BY <1>3, <1>4, <1>5

-----------------------------------------------------------------------------
(* What a step of one chat leaves to the others.                           *)

OthersStay(c) == \A d \in Chats : d # c => chatting'[d] = chatting[d]

\* A chat that takes no step keeps what it knows, whoever writes to the map.
LEMMA OthersKept ==
  ASSUME PromptInv, NEW c \in Chats, OthersStay(c),
         \A k \in PromptKeys : guards[Shard(k)] # {} => cache'[k] = cache[k],
         \A s \in Shards, d \in Chats : d # c /\ d \in guards[s] => d \in guards'[s]
  PROVE  \A d \in Chats : d # c => ChatOK(d, chatting[d])'
<1> SUFFICES ASSUME NEW d \in Chats, d # c, chatting[d] # NoChat
             PROVE  ChatOK(d, chatting[d])'
  BY DEF OthersStay, ChatOK
<1>1. chatting[d] \in Chatting /\ chatting'[d] = chatting[d]
  BY DEF PromptInv, PromptTypeOK, OthersStay
<1>2. chatting[d].key \in PromptKeys /\ Shard(chatting[d].key) \in Shards
  BY <1>1 DEF Chatting, Shards
<1>3. Touches(d, chatting[d])'
  BY <1>1, <1>2 DEF Touches, PromptInv, ChatOK
<1> QED BY <1>1, <1>3 DEF PromptInv, ChatOK, Asked, LooksUp, Inserts, Filed, Drops, Serves, Faithful

\* No entry gets out of the reach of the eviction, if the step of c does what its place
\* asks for.
LEMMA EvictableKept ==
  ASSUME PromptInv, NEW c \in Chats, OthersStay(c),
         \A k \in PromptKeys : cache[k] = NoEntry /\ cache'[k] # NoEntry
             => chatting'[c].pc = "note" /\ chatting'[c].key = k,
         \A k \in PromptKeys : InOrder(k) =>
             \/ InOrder(k)'
             \/ cache'[k] = NoEntry
             \/ chatting'[c].pc = "drop" /\ chatting'[c].victim = k,
         \A k \in PromptKeys : ChatAt(c, "note") /\ chatting[c].key = k => InOrder(k)',
         ChatAt(c, "drop") => cache'[chatting[c].victim] = NoEntry
  PROVE  EveryEntryEvictable'
<1> SUFFICES ASSUME NEW k \in PromptKeys, cache'[k] # NoEntry
             PROVE  \/ InOrder(k)'
                    \/ \E d \in Chats : \/ chatting'[d].pc = "note" /\ chatting'[d].key = k
                                        \/ chatting'[d].pc = "drop" /\ chatting'[d].victim = k
  BY DEF EveryEntryEvictable, ChatAt, InOrder
<1>1. CASE cache[k] = NoEntry
  BY <1>1
<1>2. CASE cache[k] # NoEntry
  <2>1. CASE InOrder(k)
    BY <2>1
  <2>2. ASSUME NEW d \in Chats, \/ ChatAt(d, "note") /\ chatting[d].key = k
                                \/ ChatAt(d, "drop") /\ chatting[d].victim = k
        PROVE  \/ InOrder(k)'
               \/ \E e \in Chats : \/ chatting'[e].pc = "note" /\ chatting'[e].key = k
                                   \/ chatting'[e].pc = "drop" /\ chatting'[e].victim = k
    <3>1. CASE d = c
      BY <2>2, <3>1, <1>2
    <3>2. CASE d # c
      BY <2>2, <3>2 DEF OthersStay, ChatAt
    <3> QED BY <3>1, <3>2
  <2> QED BY <1>2, <2>1, <2>2 DEF PromptInv, EveryEntryEvictable
<1> QED BY <1>1, <1>2

\* A step that touches neither the map nor the list.
LEMMA QuietKeeps ==
  ASSUME PromptInv, NEW c \in Chats, OthersStay(c), UNCHANGED <<cache, lru_order, clock>>,
         chatting' \in [Chats -> Chatting \cup {NoChat}], guards' \in [Shards -> SUBSET Chats],
         \A s \in Shards, d \in Chats : d # c /\ d \in guards[s] => d \in guards'[s],
         ~ChatAt(c, "note"), ~ChatAt(c, "drop"), ChatOK(c, chatting[c])'
  PROVE  PromptInv'
<1>1. PromptTypeOK' /\ EntriesFiled'
  BY DEF PromptInv, PromptTypeOK, EntriesFiled, Filed
<1>2. EveryEntryEvictable'
  <2>1. \A k : InOrder(k) => InOrder(k)'
    BY DEF InOrder
  <2> QED BY <2>1, EvictableKept
<1>3. \A d \in Chats : ChatOK(d, chatting[d])'
  BY OthersKept
<1> QED BY <1>1, <1>2, <1>3 DEF PromptInv

SameTask(t, u) ==
    /\ t.ask = u.ask /\ t.id = u.id /\ t.key = u.key /\ t.victim = u.victim
    /\ t.answer = u.answer /\ t.expires_at = u.expires_at
    /\ t.read_at = u.read_at /\ t.served = u.served

\* What Goto changes.
LEMMA Going ==
  ASSUME PromptInv, NEW c \in Chats, NEW pc \in Working, Goto(c, pc), chatting[c].pc \in Working
  PROVE  /\ chatting[c] \in Chatting
         /\ OthersStay(c)
         /\ chatting' \in [Chats -> Chatting \cup {NoChat}]
         /\ chatting'[c] \in Chatting
         /\ chatting'[c].pc = pc
         /\ SameTask(chatting'[c], chatting[c])
<1>1. chatting[c] \in Chatting
  BY DEF PromptInv, PromptTypeOK, NoChat, Working
<1>2. /\ chatting'[c] \in Chatting /\ chatting'[c].pc = pc
      /\ SameTask(chatting'[c], chatting[c])
  BY <1>1 DEF PromptInv, PromptTypeOK, Goto, Chatting, SameTask
<1>3. OthersStay(c) /\ chatting' \in [Chats -> Chatting \cup {NoChat}]
  BY <1>2 DEF PromptInv, PromptTypeOK, Goto, OthersStay
<1> QED BY <1>1, <1>2, <1>3

\* A step that takes an entry out of a shard that nobody reads.
LEMMA RemovalKeeps ==
  ASSUME PromptInv, NEW c \in Chats, OthersStay(c), UNCHANGED <<lru_order, guards, clock>>,
         NEW x \in PromptKeys, Writable(x), cache' = [cache EXCEPT ![x] = NoEntry],
         chatting' \in [Chats -> Chatting \cup {NoChat}],
         ~ChatAt(c, "note"), ChatAt(c, "drop") => chatting[c].victim = x,
         ChatOK(c, chatting[c])'
  PROVE  PromptInv'
<1>1. \A k \in PromptKeys : cache'[k] = IF k = x THEN NoEntry ELSE cache[k]
  BY DEF PromptInv, PromptTypeOK
<1>2. PromptTypeOK'
  BY DEF PromptInv, PromptTypeOK
<1>3. EntriesFiled'
  BY <1>1 DEF PromptInv, EntriesFiled, Filed
<1>4. EveryEntryEvictable'
  <2>1. \A k : InOrder(k) => InOrder(k)'
    BY DEF InOrder
  <2> QED BY <1>1, <2>1, EvictableKept
<1>5. \A k \in PromptKeys : guards[Shard(k)] # {} => cache'[k] = cache[k]
  BY <1>1 DEF Writable
<1>6. \A d \in Chats : ChatOK(d, chatting[d])'
  BY <1>5, OthersKept
<1> QED BY <1>2, <1>3, <1>4, <1>6 DEF PromptInv

\* A step that notes an access.
LEMMA AccessKeeps ==
  ASSUME PromptInv, NEW c \in Chats, OthersStay(c), UNCHANGED <<cache, clock>>,
         NEW x \in PromptKeys, lru_order' = Moved(x),
         guards' \in [Shards -> SUBSET Chats],
         \A s \in Shards, d \in Chats : d # c /\ d \in guards[s] => d \in guards'[s],
         chatting' \in [Chats -> Chatting \cup {NoChat}],
         ChatAt(c, "note") => chatting[c].key = x, ~ChatAt(c, "drop"),
         ChatOK(c, chatting[c])'
  PROVE  PromptInv'
<1>1. lru_order' \in Seq(PromptKeys) /\ InOrder(x)' /\ \A k : InOrder(k) => InOrder(k)'
  BY Moving DEF PromptInv, PromptTypeOK
<1>2. PromptTypeOK' /\ EntriesFiled'
  BY <1>1 DEF PromptInv, PromptTypeOK, EntriesFiled, Filed
<1>3. EveryEntryEvictable'
  BY <1>1, EvictableKept
<1>4. \A d \in Chats : ChatOK(d, chatting[d])'
  BY OthersKept
<1> QED BY <1>2, <1>3, <1>4 DEF PromptInv

-----------------------------------------------------------------------------
(* The steps.                                                              *)

\* A request begins: it holds no guard, and its key is the one its fields give.
LEMMA ChatKeeps ==
  ASSUME PromptInv, NEW c \in Chats, NEW q \in Asks, NEW id \in Serving(q.model), chat(c, q, id)
  PROVE  PromptInv'
<1> DEFINE t == [pc |-> IF q.stream THEN "send" ELSE "get", ask |-> q, id |-> id,
          key |-> from_request(q), victim |-> Unset, answer |-> Unset, expires_at |-> 0,
          read_at |-> 0, served |-> Unset]
<1>1. from_request(q) \in PromptKeys /\ id \in ModelIds /\ q.stream \in BOOLEAN
  BY KeysOfAsks, PromptCacheAssumption DEF ModelIds
<1>2. /\ t \in Chatting /\ t.pc \in {"send", "get"} /\ t.served = Unset /\ t.ask = q /\ t.id = id
      /\ t.key = from_request(q) /\ (t.pc = "get" => ~q.stream)
  BY <1>1 DEF Chatting, Working
<1>3. chatting' = [chatting EXCEPT ![c] = t] /\ UNCHANGED <<cache, lru_order, guards, clock>>
      /\ ChatAt(c, "idle")
  BY DEF chat
<1> HIDE DEF t
<1>4. OthersStay(c) /\ chatting'[c] = t /\ chatting' \in [Chats -> Chatting \cup {NoChat}]
  BY <1>2, <1>3 DEF PromptInv, PromptTypeOK, OthersStay
<1>5. ChatOK(c, chatting[c])'
  BY <1>2, <1>4 DEF ChatOK, Asked, LooksUp, Inserts, Inserting, Drops, Serves, Touches, Faithful
<1> QED BY <1>3, <1>4, <1>5, QuietKeeps DEF ChatAt, PromptInv, PromptTypeOK

\* Going on to the provider, or to the removal of an expired entry.
LEMMA ToSendOK ==
  ASSUME PromptInv, NEW c \in Chats, NEW pc \in {"send", "expired"}, Goto(c, pc),
         chatting[c].pc \in {"get", "expired"}
  PROVE  ChatOK(c, chatting[c])'
<1>1. /\ chatting[c] \in Chatting /\ chatting'[c] \in Chatting /\ chatting'[c].pc = pc
      /\ SameTask(chatting'[c], chatting[c])
  BY Going DEF Working
<1>2. ChatOK(c, chatting[c]) /\ chatting[c] # NoChat
  BY DEF PromptInv, NoChat
<1> QED BY <1>1, <1>2 DEF SameTask, ChatOK, Asked, LooksUp, Inserts, Inserting, Drops, Serves,
        Touches, Faithful

\* The steps of an insertion carry the answer along.
LEMMA InsertingOK ==
  ASSUME PromptInv, NEW c \in Chats, NEW pc \in {"len", "remove", "evict", "pop", "insert"},
         Goto(c, pc), chatting[c].pc \in Inserting
  PROVE  ChatOK(c, chatting[c])'
<1>1. /\ chatting[c] \in Chatting /\ chatting'[c] \in Chatting /\ chatting'[c].pc = pc
      /\ SameTask(chatting'[c], chatting[c])
  BY Going DEF Working, Inserting
<1>2. ChatOK(c, chatting[c]) /\ chatting[c] # NoChat
  BY DEF PromptInv, NoChat, Inserting
<1> QED BY <1>1, <1>2 DEF SameTask, ChatOK, Asked, LooksUp, Inserts, Inserting, Filed, Drops,
        Serves, Touches, Faithful

\* The look-up takes a guard of the shard only for an entry that is there.
LEMMA LookUpKeeps ==
  ASSUME PromptInv, NEW c \in Chats, LookUp(c)
  PROVE  PromptInv'
<1> DEFINE k == chatting[c].key
<1>1. /\ chatting[c].pc = "get" /\ chatting[c] \in Chatting /\ k \in PromptKeys
      /\ Shard(k) \in Shards /\ ChatOK(c, chatting[c]) /\ chatting[c] # NoChat
  BY DEF LookUp, ChatAt, PromptInv, PromptTypeOK, NoChat, Chatting, Shards
<1>2. UNCHANGED <<cache, lru_order, clock>> /\ ~ChatAt(c, "note") /\ ~ChatAt(c, "drop")
  BY <1>1 DEF LookUp, ChatAt
<1>3. ASSUME NEW pc \in {"send", "expired"}, Goto(c, pc), UNCHANGED guards
      PROVE  PromptInv'
  <2>1. OthersStay(c) /\ chatting' \in [Chats -> Chatting \cup {NoChat}]
    BY <1>1, <1>3, Going DEF Working
  <2>2. ChatOK(c, chatting[c])'
    BY <1>1, <1>3, ToSendOK
  <2> QED BY <1>2, <1>3, <2>1, <2>2, QuietKeeps DEF PromptInv, PromptTypeOK
<1>4. ASSUME cache[k] # NoEntry, cache[k].expires_at >= clock,
             chatting' = [chatting EXCEPT ![c].pc = "touch", ![c].read_at = clock],
             guards' = [guards EXCEPT ![Shard(k)] = @ \cup {c}]
      PROVE  PromptInv'
  <2>1. /\ guards' \in [Shards -> SUBSET Chats] /\ c \in guards'[Shard(k)]
        /\ \A s \in Shards, d \in Chats : d # c /\ d \in guards[s] => d \in guards'[s]
    BY <1>1, <1>4 DEF PromptInv, PromptTypeOK
  <2>2. /\ chatting'[c] \in Chatting /\ chatting'[c].pc = "touch" /\ chatting'[c].read_at = clock
        /\ chatting'[c].ask = chatting[c].ask /\ chatting'[c].id = chatting[c].id
        /\ chatting'[c].key = k /\ chatting'[c].served = chatting[c].served
    BY <1>1, <1>4 DEF PromptInv, PromptTypeOK, Chatting, Working
  <2>3. OthersStay(c) /\ chatting' \in [Chats -> Chatting \cup {NoChat}]
    BY <1>1, <1>4, <2>2 DEF PromptInv, PromptTypeOK, OthersStay
  <2>4. cache[k].expires_at \in Nat /\ clock \in Nat
    BY <1>1, <1>4 DEF PromptInv, PromptTypeOK, Entries
  <2>5. Touches(c, chatting[c])'
    BY <1>2, <1>4, <2>1, <2>2, <2>4 DEF Touches
  <2>6. ChatOK(c, chatting[c])'
    BY <1>1, <2>2, <2>5 DEF ChatOK, Asked, LooksUp, Inserts, Inserting, Drops, Serves, Faithful
  <2> QED BY <1>2, <2>1, <2>3, <2>6, QuietKeeps
<1> QED BY <1>3, <1>4 DEF LookUp

\* An expired entry is removed from the map; its key may stay in the list.
LEMMA RemoveExpiredKeeps ==
  ASSUME PromptInv, NEW c \in Chats, RemoveExpired(c)
  PROVE  PromptInv'
<1>1. chatting[c].pc = "expired" /\ Goto(c, "send")
  BY DEF RemoveExpired, ChatAt
<1>2. /\ chatting[c] \in Chatting /\ OthersStay(c)
      /\ chatting' \in [Chats -> Chatting \cup {NoChat}]
  BY <1>1, Going DEF Working
<1>3. ChatOK(c, chatting[c])'
  BY <1>1, ToSendOK
<1>4. chatting[c].key \in PromptKeys
  BY <1>2 DEF Chatting
<1> QED BY <1>1, <1>2, <1>3, <1>4, RemovalKeeps DEF RemoveExpired, ChatAt

\* What is filed under the key of a question answers it.
LEMMA FiledAnswers ==
  ASSUME NEW q \in Asks, NEW v \in AnswersTo, NEW e, Filed(from_request(q), v, e)
  PROVE  /\ v.by = q.model /\ v.to.messages = q.messages /\ v.to.max_tokens = q.max_tokens
         /\ v.to.response_format = q.response_format
         /\ (v.to.temperature = Unset) <=> (q.temperature = Unset)
         /\ q.temperature # Unset => v.to.temperature \div 10 = q.temperature \div 10
<1> DEFINE u == v.to
<1>1. u \in Asks
  BY DEF AnswersTo
<1>2. /\ q.temperature \in Nat \cup {Unset} /\ u.temperature \in Nat \cup {Unset}
      /\ Unset \notin Nat
  BY <1>1, PromptCacheAssumption
<1>3. /\ v.by = q.model /\ u.messages = q.messages /\ u.max_tokens = q.max_tokens
      /\ u.response_format = q.response_format
      /\ (IF u.temperature = Unset THEN Unset ELSE u.temperature \div 10)
           = (IF q.temperature = Unset THEN Unset ELSE q.temperature \div 10)
  BY DEF Filed, from_request, Translated
<1>4. \A n \in Nat : n \div 10 \in Nat
  OBVIOUS
<1>5. CASE u.temperature = Unset
  BY <1>2, <1>3, <1>4, <1>5
<1>6. CASE u.temperature # Unset
  BY <1>2, <1>3, <1>4, <1>6
<1> QED BY <1>3, <1>5, <1>6

\* A hit moves its key to the back of the list and serves the entry it guards.
LEMMA HitKeeps ==
  ASSUME PromptInv, NEW c \in Chats, Hit(c)
  PROVE  PromptInv'
<1> DEFINE k == chatting[c].key
<1>1. /\ chatting[c].pc = "touch" /\ chatting[c] \in Chatting /\ k \in PromptKeys
      /\ Shard(k) \in Shards /\ ChatOK(c, chatting[c]) /\ chatting[c] # NoChat
  BY DEF Hit, ChatAt, PromptInv, PromptTypeOK, NoChat, Chatting, Shards
<1>2. /\ lru_order' = Moved(k) /\ guards' = [guards EXCEPT ![Shard(k)] = @ \ {c}]
      /\ chatting' = [chatting EXCEPT ![c].pc = "done", ![c].served = cache[k].value]
      /\ UNCHANGED <<cache, clock>>
  BY DEF Hit
<1>3. /\ cache[k] \in Entries /\ Filed(k, cache[k].value, cache[k].expires_at)
      /\ chatting[c].read_at <= cache[k].expires_at
  BY <1>1 DEF ChatOK, Touches, PromptInv, PromptTypeOK, EntriesFiled
<1>4. cache[k].value \in AnswersTo
  BY <1>3 DEF Entries
<1>5. /\ chatting'[c] \in Chatting /\ chatting'[c].pc = "done"
      /\ chatting'[c].served = cache[k].value /\ chatting'[c].read_at = chatting[c].read_at
      /\ chatting'[c].ask = chatting[c].ask /\ chatting'[c].id = chatting[c].id
  BY <1>1, <1>2, <1>4 DEF PromptInv, PromptTypeOK, Chatting, Working
<1>6. OthersStay(c) /\ chatting' \in [Chats -> Chatting \cup {NoChat}]
  BY <1>1, <1>2, <1>5 DEF PromptInv, PromptTypeOK, OthersStay
<1>7. /\ guards' \in [Shards -> SUBSET Chats]
      /\ \A s \in Shards, d \in Chats : d # c /\ d \in guards[s] => d \in guards'[s]
  BY <1>1, <1>2 DEF PromptInv, PromptTypeOK
<1>8. Faithful(chatting'[c])
  <2>1. chatting[c].ask \in Asks /\ k = from_request(chatting[c].ask) /\ ~chatting[c].ask.stream
    BY <1>1 DEF ChatOK, LooksUp, Chatting
  <2>2. cache[k].expires_at = cache[k].value.at + default_ttl
    BY <1>3 DEF Filed
  <2>3. Filed(from_request(chatting[c].ask), cache[k].value, cache[k].expires_at)
    BY <1>3, <2>1
  <2> DEFINE q == chatting[c].ask
             v == cache[k].value
  <2>4. /\ v.by = q.model /\ v.to.messages = q.messages /\ v.to.max_tokens = q.max_tokens
        /\ v.to.response_format = q.response_format
        /\ (v.to.temperature = Unset) <=> (q.temperature = Unset)
        /\ q.temperature # Unset => v.to.temperature \div 10 = q.temperature \div 10
    BY <1>4, <2>1, <2>3, FiledAnswers
  <2>5. chatting'[c].read_at <= v.at + default_ttl
    BY <1>3, <1>5, <2>2
  <2>6. chatting'[c].ask = q /\ chatting'[c].served = v /\ ~q.stream
    BY <1>5, <2>1
  <2> HIDE DEF q, v
  <2> QED BY <2>4, <2>5, <2>6 DEF Faithful
<1>9. ChatOK(c, chatting[c])'
  BY <1>1, <1>5, <1>8 DEF ChatOK, Asked, LooksUp, Inserts, Inserting, Drops, Serves, Touches, Faithful
<1> QED BY <1>1, <1>2, <1>6, <1>7, <1>9, AccessKeeps DEF ChatAt

\* The provider answers: what is to be inserted is an answer to the translated request.
LEMMA AnsweredKeeps ==
  ASSUME PromptInv, NEW c \in Chats, NEW ok \in BOOLEAN, Answered(c, ok)
  PROVE  PromptInv'
<1> DEFINE q == chatting[c].ask
           id == chatting[c].id
           key == from_request(Translated(q, id))
           answer == IF ok THEN [to |-> q, by |-> id, at |-> clock] ELSE Unset
           pc == IF ok /\ ~q.stream THEN "contains" ELSE "done"
<1>1. /\ chatting[c].pc = "send" /\ chatting[c] \in Chatting /\ ChatOK(c, chatting[c])
      /\ chatting[c] # NoChat /\ clock \in Nat
  BY DEF Answered, ChatAt, PromptInv, PromptTypeOK, NoChat
<1>2. q \in Asks /\ id \in ModelIds /\ id \in Serving(q.model)
  BY <1>1 DEF Chatting, ChatOK, Asked
<1>3. /\ chatting' = [chatting EXCEPT ![c].pc = pc, ![c].key = key, ![c].answer = answer,
                                      ![c].expires_at = clock + default_ttl]
      /\ UNCHANGED <<cache, lru_order, guards, clock>>
  BY DEF Answered
<1>4. /\ key \in PromptKeys /\ answer \in AnswersTo \cup {Unset} /\ pc \in {"contains", "done"}
      /\ clock + default_ttl \in Nat
  BY <1>1, <1>2, KeysOfAsks, PromptCacheAssumption DEF AnswersTo
<1>5. pc = "contains" => answer \in AnswersTo /\ Filed(key, answer, clock + default_ttl)
  BY <1>1, <1>2 DEF AnswersTo, Filed
<1> HIDE DEF key, answer, pc
<1>6. /\ chatting'[c] \in Chatting /\ chatting'[c].pc = pc /\ chatting'[c].key = key
      /\ chatting'[c].answer = answer /\ chatting'[c].expires_at = clock + default_ttl
      /\ chatting'[c].ask = q /\ chatting'[c].id = id /\ chatting'[c].served = chatting[c].served
  BY <1>1, <1>3, <1>4 DEF PromptInv, PromptTypeOK, Chatting, Working
<1>7. OthersStay(c) /\ chatting' \in [Chats -> Chatting \cup {NoChat}]
  BY <1>1, <1>3, <1>6 DEF PromptInv, PromptTypeOK, OthersStay
<1>8. ChatOK(c, chatting[c])'
  BY <1>1, <1>2, <1>4, <1>5, <1>6
     DEF ChatOK, Asked, LooksUp, Inserts, Inserting, Filed, Drops, Serves, Touches, Faithful
<1> QED BY <1>1, <1>3, <1>7, <1>8, QuietKeeps DEF ChatAt, PromptInv, PromptTypeOK

\* The reads of an insertion write neither the map nor the list.
LEMMA QuietInsertionKeeps ==
  ASSUME PromptInv, NEW c \in Chats, ContainsKey(c) \/ AtCapacity(c) \/ evict_lru(c)
  PROVE  PromptInv'
<1>1. PICK pc \in {"len", "remove", "evict", "pop"} :
         Goto(c, pc) /\ chatting[c].pc \in {"contains", "len", "evict"}
  BY DEF ContainsKey, AtCapacity, evict_lru, ChatAt
<1>2. UNCHANGED <<cache, lru_order, guards, clock>>
  BY DEF ContainsKey, AtCapacity, evict_lru
<1>3. OthersStay(c) /\ chatting' \in [Chats -> Chatting \cup {NoChat}]
  BY <1>1, Going DEF Working
<1>4. ChatOK(c, chatting[c])'
  BY <1>1, InsertingOK DEF Inserting
<1> QED BY <1>1, <1>2, <1>3, <1>4, QuietKeeps DEF ChatAt, PromptInv, PromptTypeOK

\* The victim leaves the list first: the request that popped it still owes its removal.
LEMMA PopFrontKeeps ==
  ASSUME PromptInv, NEW c \in Chats, PopFront(c)
  PROVE  PromptInv'
<1>1. /\ chatting[c].pc = "pop" /\ chatting[c] \in Chatting /\ ChatOK(c, chatting[c])
      /\ chatting[c] # NoChat /\ UNCHANGED <<cache, guards, clock>>
      /\ ~ChatAt(c, "note") /\ ~ChatAt(c, "drop")
  BY DEF PopFront, ChatAt, PromptInv, PromptTypeOK, NoChat
<1>2. CASE lru_order = <<>>
  <2>1. UNCHANGED lru_order /\ Goto(c, "remove")
    BY <1>2 DEF PopFront
  <2>2. OthersStay(c) /\ chatting' \in [Chats -> Chatting \cup {NoChat}]
    BY <1>1, <2>1, Going DEF Working
  <2>3. ChatOK(c, chatting[c])'
    BY <1>1, <2>1, InsertingOK DEF Inserting
  <2> QED BY <1>1, <2>1, <2>2, <2>3, QuietKeeps DEF PromptInv, PromptTypeOK
<1>3. CASE lru_order # <<>>
  <2> DEFINE x == Head(lru_order)
  <2>1. /\ x \in PromptKeys /\ lru_order' \in Seq(PromptKeys)
        /\ \A k : InOrder(k) => k = x \/ InOrder(k)'
    <3>1. /\ x = lru_order[1] /\ x \in PromptKeys /\ lru_order' = Tail(lru_order)
          /\ lru_order' \in Seq(PromptKeys) /\ Len(lru_order') = Len(lru_order) - 1
          /\ \A i \in 1..(Len(lru_order) - 1) : lru_order'[i] = lru_order[i + 1]
          /\ Len(lru_order) \in Nat
      <4>1. lru_order \in Seq(PromptKeys) /\ lru_order' = Tail(lru_order)
        BY <1>3 DEF PopFront, PromptInv, PromptTypeOK
      <4>2. /\ x \in PromptKeys /\ Tail(lru_order) \in Seq(PromptKeys)
            /\ Len(Tail(lru_order)) = Len(lru_order) - 1
            /\ \A i \in 1..Len(Tail(lru_order)) : Tail(lru_order)[i] = lru_order[i + 1]
        BY <1>3, <4>1, HeadTailProperties
      <4>3. x = lru_order[1] /\ Len(lru_order) \in Nat
        BY <1>3, <4>1
      <4> QED BY <4>1, <4>2, <4>3
    <3>2. ASSUME NEW i \in 1..Len(lru_order), i # 1
          PROVE  i - 1 \in 1..Len(lru_order') /\ lru_order'[i - 1] = lru_order[i]
      <4>1. i - 1 \in 1..(Len(lru_order) - 1) /\ (i - 1) + 1 = i
        BY <3>1, <3>2
      <4> QED BY <3>1, <4>1
    <3> HIDE DEF x
    <3>3. ASSUME NEW k, InOrder(k), k # x PROVE InOrder(k)'
      <4>1. PICK i \in 1..Len(lru_order) : lru_order[i] = k
        BY <3>3 DEF InOrder
      <4>2. i # 1
        BY <3>1, <3>3, <4>1
      <4> QED BY <3>2, <4>1, <4>2 DEF InOrder
    <3> QED BY <3>1, <3>3
  <2>2. /\ OthersStay(c) /\ chatting' \in [Chats -> Chatting \cup {NoChat}]
        /\ ChatOK(c, chatting[c])'
        /\ cache[x] # NoEntry => chatting'[c].pc = "drop" /\ chatting'[c].victim = x
    <3>1. CASE cache[x] = NoEntry
      <4>1. UNCHANGED chatting
        BY <1>3, <3>1 DEF PopFront
      <4> QED BY <1>1, <3>1, <4>1 DEF OthersStay, PromptInv, PromptTypeOK, ChatOK, Asked, LooksUp,
              Inserts, Filed, Drops, Serves, Touches, Faithful
    <3>2. CASE cache[x] # NoEntry
      <4>1. chatting' = [chatting EXCEPT ![c].pc = "drop", ![c].victim = x]
        BY <1>3, <3>2 DEF PopFront
      <4> HIDE DEF x
      <4>2. /\ chatting'[c] \in Chatting /\ chatting'[c].pc = "drop" /\ chatting'[c].victim = x
            /\ chatting'[c].ask = chatting[c].ask /\ chatting'[c].id = chatting[c].id
            /\ chatting'[c].key = chatting[c].key /\ chatting'[c].answer = chatting[c].answer
            /\ chatting'[c].expires_at = chatting[c].expires_at
            /\ chatting'[c].read_at = chatting[c].read_at
            /\ chatting'[c].served = chatting[c].served
        BY <1>1, <2>1, <4>1 DEF PromptInv, PromptTypeOK, Chatting, Working
      <4>3. OthersStay(c) /\ chatting' \in [Chats -> Chatting \cup {NoChat}]
        BY <1>1, <4>1, <4>2 DEF PromptInv, PromptTypeOK, OthersStay
      <4>4. ChatOK(c, chatting[c])'
        BY <1>1, <2>1, <4>2 DEF ChatOK, Asked, LooksUp, Inserts, Inserting, Filed, Drops, Serves,
           Touches, Faithful
      <4> QED BY <4>2, <4>3, <4>4
    <3> QED BY <3>1, <3>2
  <2> HIDE DEF x
  <2>3. EveryEntryEvictable'
    BY <1>1, <2>1, <2>2, EvictableKept
  <2>4. PromptTypeOK' /\ EntriesFiled'
    BY <1>1, <2>1, <2>2 DEF PromptInv, PromptTypeOK, EntriesFiled, Filed
  <2>5. \A d \in Chats : ChatOK(d, chatting[d])'
    BY <1>1, <2>2, OthersKept
  <2> QED BY <2>3, <2>4, <2>5 DEF PromptInv
<1> QED BY <1>2, <1>3

\* The victim leaves the map.
LEMMA DropVictimKeeps ==
  ASSUME PromptInv, NEW c \in Chats, DropVictim(c)
  PROVE  PromptInv'
<1> DEFINE x == chatting[c].victim
<1>1. /\ chatting[c].pc = "drop" /\ chatting[c] \in Chatting /\ ChatOK(c, chatting[c])
      /\ chatting[c] # NoChat /\ x \in PromptKeys
  BY DEF DropVictim, ChatAt, PromptInv, PromptTypeOK, NoChat, ChatOK, Drops
<1>2. /\ cache' = [cache EXCEPT ![x] = NoEntry] /\ Writable(x)
      /\ chatting' = [chatting EXCEPT ![c].pc = "remove", ![c].victim = Unset]
      /\ UNCHANGED <<lru_order, guards, clock>>
  BY DEF DropVictim
<1>3. /\ chatting'[c] \in Chatting /\ chatting'[c].pc = "remove"
      /\ chatting'[c].ask = chatting[c].ask /\ chatting'[c].id = chatting[c].id
      /\ chatting'[c].key = chatting[c].key /\ chatting'[c].answer = chatting[c].answer
      /\ chatting'[c].expires_at = chatting[c].expires_at
      /\ chatting'[c].read_at = chatting[c].read_at /\ chatting'[c].served = chatting[c].served
  BY <1>1, <1>2 DEF PromptInv, PromptTypeOK, Chatting, Working
<1>4. OthersStay(c) /\ chatting' \in [Chats -> Chatting \cup {NoChat}]
  BY <1>1, <1>2, <1>3 DEF PromptInv, PromptTypeOK, OthersStay
<1>5. ChatOK(c, chatting[c])'
  BY <1>1, <1>3 DEF ChatOK, Asked, LooksUp, Inserts, Inserting, Filed, Drops, Serves,
     Touches, Faithful
<1> QED BY <1>1, <1>2, <1>4, <1>5, RemovalKeeps DEF ChatAt

\* The old entry of the key leaves the map before the new one is inserted.
LEMMA RemoveOldKeeps ==
  ASSUME PromptInv, NEW c \in Chats, RemoveOld(c)
  PROVE  PromptInv'
<1>1. chatting[c].pc = "remove" /\ Goto(c, "insert")
  BY DEF RemoveOld, ChatAt
<1>2. /\ chatting[c] \in Chatting /\ OthersStay(c)
      /\ chatting' \in [Chats -> Chatting \cup {NoChat}]
  BY <1>1, Going DEF Working
<1>3. ChatOK(c, chatting[c])'
  BY <1>1, InsertingOK DEF Inserting
<1>4. chatting[c].key \in PromptKeys
  BY <1>2 DEF Chatting
<1> QED BY <1>1, <1>2, <1>3, <1>4, RemovalKeeps DEF RemoveOld, ChatAt

\* The entry enters the map first: the request that inserted it still owes its place in the list.
LEMMA InsertKeeps ==
  ASSUME PromptInv, NEW c \in Chats, InsertEntry(c)
  PROVE  PromptInv'
<1> DEFINE x == chatting[c].key
           e == [value |-> chatting[c].answer, expires_at |-> chatting[c].expires_at]
<1>1. /\ chatting[c].pc = "insert" /\ Goto(c, "note") /\ Writable(x)
      /\ cache' = [cache EXCEPT ![x] = e] /\ UNCHANGED <<lru_order, guards, clock>>
  BY DEF InsertEntry, ChatAt
<1>2. /\ chatting[c] \in Chatting /\ OthersStay(c) /\ SameTask(chatting'[c], chatting[c])
      /\ chatting' \in [Chats -> Chatting \cup {NoChat}]
      /\ chatting'[c] \in Chatting /\ chatting'[c].pc = "note"
  BY <1>1, Going DEF Working
<1>3. ChatOK(c, chatting[c]) /\ chatting[c] # NoChat
  BY <1>1 DEF PromptInv, NoChat
<1>4. /\ x \in PromptKeys /\ chatting[c].answer \in AnswersTo /\ chatting[c].expires_at \in Nat
      /\ Filed(x, chatting[c].answer, chatting[c].expires_at)
  BY <1>1, <1>2, <1>3 DEF ChatOK, Inserts, Inserting, Chatting
<1>5. /\ e \in Entries /\ e.value = chatting[c].answer /\ e.expires_at = chatting[c].expires_at
  BY <1>4 DEF Entries
<1> HIDE DEF e
<1>6. \A k \in PromptKeys : cache'[k] = IF k = x THEN e ELSE cache[k]
  BY <1>1 DEF PromptInv, PromptTypeOK
<1>7. PromptTypeOK'
  BY <1>1, <1>2, <1>4, <1>5 DEF PromptInv, PromptTypeOK
<1>8. EntriesFiled'
  BY <1>4, <1>5, <1>6 DEF PromptInv, EntriesFiled, Filed
<1>9. EveryEntryEvictable'
  <2>1. \A k : InOrder(k) => InOrder(k)'
    BY <1>1 DEF InOrder
  <2>2. chatting'[c].key = x /\ ~ChatAt(c, "note") /\ ~ChatAt(c, "drop")
    BY <1>1, <1>2 DEF SameTask, ChatAt
  <2> HIDE DEF x
  <2> QED BY <1>2, <1>6, <2>1, <2>2, EvictableKept
<1>10. ChatOK(c, chatting[c])'
  BY <1>2, <1>3, <1>1 DEF SameTask, ChatOK, Asked, LooksUp, Inserts, Inserting, Drops, Serves,
     Touches, Faithful
<1>11. \A k \in PromptKeys : guards[Shard(k)] # {} => cache'[k] = cache[k]
  BY <1>1, <1>6 DEF Writable
<1>12. \A d \in Chats : ChatOK(d, chatting[d])'
  BY <1>1, <1>2, <1>10, <1>11, OthersKept
<1> QED BY <1>7, <1>8, <1>9, <1>12 DEF PromptInv

\* The key of the inserted entry takes its place in the list.
LEMMA NoteKeeps ==
  ASSUME PromptInv, NEW c \in Chats, update_lru_access(c)
  PROVE  PromptInv'
<1>1. /\ chatting[c].pc = "note" /\ Goto(c, "done") /\ lru_order' = Moved(chatting[c].key)
      /\ UNCHANGED <<cache, guards, clock>>
  BY DEF update_lru_access, ChatAt
<1>2. /\ chatting[c] \in Chatting /\ OthersStay(c) /\ SameTask(chatting'[c], chatting[c])
      /\ chatting' \in [Chats -> Chatting \cup {NoChat}]
      /\ chatting'[c] \in Chatting /\ chatting'[c].pc = "done"
  BY <1>1, Going DEF Working
<1>3. ChatOK(c, chatting[c]) /\ chatting[c] # NoChat
  BY <1>1 DEF PromptInv, NoChat
<1>4. chatting[c].key \in PromptKeys
  BY <1>2 DEF Chatting
<1>5. ChatOK(c, chatting[c])'
  BY <1>1, <1>2, <1>3 DEF SameTask, ChatOK, Asked, LooksUp, Inserts, Inserting, Drops, Serves,
     Touches, Faithful
<1> QED BY <1>1, <1>2, <1>4, <1>5, AccessKeeps DEF ChatAt, PromptInv, PromptTypeOK

\* A request that returns owes neither list nor map anything.
LEMMA ReturnKeeps ==
  ASSUME PromptInv, NEW c \in Chats, ChatReturns(c)
  PROVE  PromptInv'
<1>1. OthersStay(c) /\ chatting' \in [Chats -> Chatting \cup {NoChat}] /\ chatting'[c] = NoChat
  BY DEF ChatReturns, OthersStay, PromptInv, PromptTypeOK
<1>2. ChatOK(c, chatting[c])'
  BY <1>1 DEF ChatOK
<1> QED BY <1>1, <1>2, QuietKeeps DEF ChatReturns, ChatAt, PromptInv, PromptTypeOK

\* The clock, and steps of other parts of the process.
LEMMA TickKeeps ==
  ASSUME PromptInv, UNCHANGED <<cache, lru_order, guards, chatting>>, clock' \in Nat
  PROVE  PromptInv'
<1>1. PromptTypeOK'
  BY DEF PromptInv, PromptTypeOK
<1>2. EntriesFiled'
  BY DEF PromptInv, EntriesFiled
<1>3. EveryEntryEvictable'
  BY DEF PromptInv, EveryEntryEvictable, InOrder, ChatAt
<1>4. ASSUME NEW c \in Chats PROVE ChatOK(c, chatting[c])'
  <2>1. ChatOK(c, chatting[c]) /\ chatting'[c] = chatting[c]
    BY DEF PromptInv
  <2>2. Touches(c, chatting[c]) => Touches(c, chatting[c])'
    BY <2>1 DEF Touches
  <2> QED BY <2>1, <2>2 DEF ChatOK
<1> QED BY <1>1, <1>2, <1>3, <1>4 DEF PromptInv

-----------------------------------------------------------------------------
\* The cache starts empty.
LEMMA PromptInit == PInit => PromptInv
<1> SUFFICES ASSUME PInit PROVE PromptInv
  OBVIOUS
<1>1. PromptTypeOK
  BY DEF PInit, PromptTypeOK
<1>2. EntriesFiled /\ EveryEntryEvictable
  BY DEF PInit, EntriesFiled, EveryEntryEvictable
<1>3. \A c \in Chats : ChatOK(c, chatting[c])
  BY DEF PInit, ChatOK
<1> QED BY <1>1, <1>2, <1>3 DEF PromptInv

\* Every step of the cache and of the requests keeps the invariant.
LEMMA PromptNext == PromptInv /\ [PNext]_pvars => PromptInv'
<1> SUFFICES ASSUME PromptInv, [PNext]_pvars PROVE PromptInv'
  OBVIOUS
<1>1. ASSUME NEW c \in Chats, ChatStep(c) PROVE PromptInv'
  BY <1>1, ChatKeeps, LookUpKeeps, RemoveExpiredKeeps, HitKeeps, AnsweredKeeps,
     QuietInsertionKeeps, PopFrontKeeps, DropVictimKeeps, RemoveOldKeeps, InsertKeeps, NoteKeeps,
     ReturnKeeps DEF ChatStep
<1>2. CASE ClockTick
  BY <1>2, TickKeeps DEF ClockTick, PromptInv, PromptTypeOK
<1>3. CASE UNCHANGED pvars
  BY <1>3, TickKeeps DEF pvars, PromptInv, PromptTypeOK
<1> QED BY <1>1, <1>2, <1>3 DEF PNext

\* What a chat is served from the cache answers its own question and has not outlived the
\* time to live, for any number of chats and whatever is evicted and inserted meanwhile.
THEOREM HitsAreFaithful == PSpec => []HitIsFaithful
<1>1. PromptInv => HitIsFaithful
  <2> SUFFICES ASSUME PromptInv, NEW c \in Chats, ~ChatAt(c, "idle")
               PROVE  Faithful(chatting[c])
    BY DEF HitIsFaithful, Faithful
  <2>1. ChatOK(c, chatting[c])
    BY DEF PromptInv
  <2>2. chatting[c] # NoChat
    BY DEF ChatAt, NoChat
  <2> QED BY <2>1, <2>2 DEF ChatOK
<1> QED BY <1>1, PromptInit, PromptNext, PTL DEF PSpec

\* No entry of the map ever gets out of the reach of the eviction for good.
THEOREM EntriesAreEvictable == PSpec => []EveryEntryEvictable
<1>1. PromptInv => EveryEntryEvictable
  BY DEF PromptInv
<1> QED BY <1>1, PromptInit, PromptNext, PTL DEF PSpec
=============================================================================
