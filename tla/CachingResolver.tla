---------------------------- MODULE CachingResolver ----------------------------
(***************************************************************************)
(* The caching resolver of internal/dnsserver/resolver.go: a map from      *)
(* questions to answers in front of another Resolver, shared by one        *)
(* goroutine per DNS request, a maintenance goroutine that ages the        *)
(* entries, and a debug handler that flushes them.                         *)
(*                                                                         *)
(* Answers are Go slices of pointers to resource records, so the map, the  *)
(* maintenance loop and the replies being written may all refer to the     *)
(* same memory.  A Slice is the identity of such memory: ttl[s] are the    *)
(* TTLs (in seconds) of its records and owner[s] the question they answer. *)
(*                                                                         *)
(* Durations and the clock are in units of which a second has Second.      *)
(* Every section run under c.mu is one step, except the maintenance loop,  *)
(* which takes one step per entry and keeps the lock while todo # {}.      *)
(***************************************************************************)
EXTENDS Integers, Sequences, FiniteSets

CONSTANTS
  Question,           \* the dns.Question values asked
  Caller,             \* goroutines inside Server.Handler
  Slice,              \* identities of []dns.RR
  None,
  Second,             \* clock units in a second
  maxCacheSize, minTTL, maxTTL, maintenancePeriod,
  MaxLag,             \* longest time from a tick to the end of its GC
  BackHeader,         \* the headers that replies of the back resolver have
  BackTTLs,           \* the TTLs that their answers have
  MaxQueries          \* bound: queries per behaviour

Multi == "multi"     \* stands for the questions of a request with len # 1

Counter == {"total", "bypassed", "hits", "misses", "recorded"}

Header == [rcode : {"success", "failure"}, response : BOOLEAN,
           opcode : {"query", "other"}, truncated : BOOLEAN,
           question : Seq(Question)]

ASSUME CacheAssumption ==
  /\ IsFiniteSet(Question) /\ IsFiniteSet(Caller)
  /\ None \notin Question \cup Slice /\ Multi \notin Question
  /\ Second \in Nat \ {0}
  /\ maxCacheSize \in Nat /\ minTTL \in Nat \ {0} /\ maxTTL \in Nat
  /\ maintenancePeriod \in Nat \ {0}
  /\ MaxLag \in Nat /\ MaxLag < maintenancePeriod
  /\ BackHeader \subseteq Header
  /\ BackTTLs \subseteq Seq(Nat)
  /\ MaxQueries \in Nat

VARIABLES
  answer,     \* c.answer: question -> slice, None when absent
  ttl, owner, \* the records in memory
  todo,       \* entries the running GC has still to visit
  pc, question, header, held, view,  \* one Query and its caller, per goroutine
  stats,      \* the expvar counters
  phase,      \* time since the maintenance ticker last fired
  tick,       \* the tick waiting in the ticker's one-slot channel
  age,        \* history: time since the entry was recorded (0 if none is)
  granted,    \* history: the TTL it was recorded with, as a duration
  size        \* history: the number of records it was recorded with

mem == <<answer, ttl, owner>>
local == <<pc, question, header, held, view>>
history == <<age, granted, size>>
vars == <<mem, todo, local, stats, phase, tick, history>>

(***************************************************************************)
(* Helpers of resolver.go, on the TTLs of a slice.                         *)
(***************************************************************************)
getTTL(ts) == ts[1] * Second

limitTTL(ts) == IF ts[1] * Second > maxTTL THEN maxTTL ELSE ts[1] * Second

setTTL_FirstOnly(ts, d) == [ts EXCEPT ![1] = d \div Second]

\* uint32(newTTL.Seconds()): fractions of a second are dropped
setTTL(ts, d) == [i \in DOMAIN ts |-> d \div Second]

wantToCache_AnyQuestion(q, h, n) ==
  /\ h.rcode = "success"
  /\ h.response
  /\ h.opcode = "query"
  /\ n # 0
  /\ Len(h.question) = 1
  /\ ~h.truncated

wantToCache(q, h, n) ==
  /\ h.rcode = "success"
  /\ h.response
  /\ h.opcode = "query"
  /\ n # 0
  /\ Len(h.question) = 1
  /\ ~h.truncated
  /\ h.question[1] = q

Cached == {q \in Question : answer[q] # None}

\* Memory that neither the map nor a caller refers to.
FreeSlices == {s \in Slice : /\ \A q \in Question : answer[q] # s
                             /\ \A c \in Caller : held[c] # s}

\* Which free memory an allocation returns makes no difference.
NewSlice == IF FreeSlices = {} THEN {} ELSE {CHOOSE s \in FreeSlices : TRUE}

\* delete(c.answer, q)
Delete(q) ==
  /\ answer' = [answer EXCEPT ![q] = None]
  /\ age' = [age EXCEPT ![q] = 0]
  /\ granted' = [granted EXCEPT ![q] = 0]
  /\ size' = [size EXCEPT ![q] = 0]

Count(f) == stats' = [stats EXCEPT ![f] = @ + 1]

-----------------------------------------------------------------------------
(* Init: NewCachingResolver, nobody asking. *)
Init ==
  /\ answer = [q \in Question |-> None]
  /\ ttl = [s \in Slice |-> <<>>]
  /\ owner = [s \in Slice |-> None]
  /\ todo = {}
  /\ pc = [c \in Caller |-> "idle"]
  /\ question = [c \in Caller |-> None]
  /\ header = [c \in Caller |-> None]
  /\ held = [c \in Caller |-> None]
  /\ view = [c \in Caller |-> 0]
  /\ stats = [f \in Counter |-> 0]
  /\ phase = 0 /\ tick = FALSE
  /\ age = [q \in Question |-> 0]
  /\ granted = [q \in Question |-> 0]
  /\ size = [q \in Question |-> 0]

(***************************************************************************)
(* Query.                                                                  *)
(***************************************************************************)
\* Query is called; a request without exactly one question bypasses the cache.
Query(c, q) ==
  /\ pc[c] = "idle" /\ stats["total"] < MaxQueries
  /\ question' = [question EXCEPT ![c] = q]
  /\ IF q = Multi
       THEN /\ pc' = [pc EXCEPT ![c] = "bypass"]
            /\ stats' = [stats EXCEPT !["total"] = @ + 1, !["bypassed"] = @ + 1]
       ELSE /\ pc' = [pc EXCEPT ![c] = "lookup"]
            /\ Count("total")
  /\ UNCHANGED <<mem, todo, header, held, view, phase, tick, history>>

\* The lookup under RLock finds the entry: the reply shares its memory.
Hit(c) ==
  /\ pc[c] = "lookup" /\ todo = {}
  /\ question[c] \in Cached
  /\ held' = [held EXCEPT ![c] = answer[question[c]]]
  /\ view' = [view EXCEPT ![c] = Len(ttl[answer[question[c]]])]
  /\ pc' = [pc EXCEPT ![c] = "return"]
  /\ Count("hits")
  /\ UNCHANGED <<mem, todo, question, header, phase, tick, history>>

Miss(c) ==
  /\ pc[c] = "lookup" /\ todo = {}
  /\ question[c] \notin Cached
  /\ pc' = [pc EXCEPT ![c] = "back"]
  /\ Count("misses")
  /\ UNCHANGED <<mem, todo, question, header, held, view, phase, tick, history>>

\* c.back.Query returns a reply: freshly unpacked, in memory of its own.  The
\* records answer the question its question section names.
BackReply(c) ==
  /\ pc[c] \in {"back", "bypass"}
  /\ \E h \in BackHeader, ts \in BackTTLs, o \in Question, s \in NewSlice :
       /\ Len(h.question) = 1 => o = h.question[1]
       /\ ttl' = [ttl EXCEPT ![s] = ts]
       /\ owner' = [owner EXCEPT ![s] = o]
       /\ held' = [held EXCEPT ![c] = s]
       /\ view' = [view EXCEPT ![c] = Len(ts)]
       /\ IF pc[c] = "back"
            THEN /\ pc' = [pc EXCEPT ![c] = "record"]
                 /\ header' = [header EXCEPT ![c] = h]
            ELSE /\ pc' = [pc EXCEPT ![c] = "return"]
                 /\ UNCHANGED header
  /\ UNCHANGED <<answer, todo, question, stats, phase, tick, history>>

\* c.back.Query fails: the caller gets no records.
BackError(c) ==
  /\ pc[c] \in {"back", "bypass"}
  /\ pc' = [pc EXCEPT ![c] = "return"]
  /\ UNCHANGED <<mem, todo, question, header, held, view, stats, phase, tick, history>>

\* What Query computes about the reply it holds, before it takes the lock.
Cacheable(c) ==
  /\ wantToCache(question[c], header[c], Len(ttl[held[c]]))
  /\ limitTTL(ttl[held[c]]) >= minTTL

HasRoom_OffByOne == Cardinality(Cached) <= maxCacheSize

\* len(c.answer) < maxCacheSize
HasRoom == Cardinality(Cached) < maxCacheSize

\* The reply is not recorded: unsuitable, too short-lived, or no room.
Skip(c) ==
  /\ pc[c] = "record"
  /\ \/ ~Cacheable(c)
     \/ Cacheable(c) /\ todo = {} /\ ~HasRoom
  /\ pc' = [pc EXCEPT ![c] = "return"]
  /\ header' = [header EXCEPT ![c] = None]
  /\ UNCHANGED <<mem, todo, question, held, view, stats, phase, tick, history>>

\* Under the lock: the TTL is capped in place and the map shares the memory
\* of the reply about to be returned.
Record(c) ==
  LET q == question[c]
      d == limitTTL(ttl[held[c]])
  IN /\ pc[c] = "record" /\ todo = {}
     /\ Cacheable(c) /\ HasRoom
     /\ ttl' = [ttl EXCEPT ![held[c]] = setTTL(@, d)]
     /\ answer' = [answer EXCEPT ![q] = held[c]]
     /\ Count("recorded")
     /\ pc' = [pc EXCEPT ![c] = "return"]
     /\ header' = [header EXCEPT ![c] = None]
     /\ age' = [age EXCEPT ![q] = 0]
     /\ granted' = [granted EXCEPT ![q] = d]
     /\ size' = [size EXCEPT ![q] = Len(ttl[held[c]])]
     /\ UNCHANGED <<owner, todo, question, held, view, phase, tick>>

(***************************************************************************)
(* The caller, Server.Handler: writeReply may cut the reply down to the    *)
(* UDP size, and WriteMsg packs whatever the records then hold.            *)
(***************************************************************************)
Truncate_Shared(c) ==
  /\ pc[c] = "return"
  /\ \E n \in 0..view[c] :
       /\ view' = [view EXCEPT ![c] = n]
       /\ ttl' = IF held[c] = None THEN ttl
                 ELSE [ttl EXCEPT ![held[c]] = SubSeq(@, 1, n)]
  /\ pc' = [pc EXCEPT ![c] = "write"]
  /\ UNCHANGED <<answer, owner, todo, question, header, held, stats, phase, tick, history>>

\* reply.Truncate reslices reply.Answer; the records stay where they are.
Truncate(c) ==
  /\ pc[c] = "return"
  /\ \E n \in 0..view[c] : view' = [view EXCEPT ![c] = n]
  /\ pc' = [pc EXCEPT ![c] = "write"]
  /\ UNCHANGED <<mem, todo, question, header, held, stats, phase, tick, history>>

WriteMsg(c) ==
  /\ pc[c] = "write"
  /\ pc' = [pc EXCEPT ![c] = "idle"]
  /\ question' = [question EXCEPT ![c] = None]
  /\ held' = [held EXCEPT ![c] = None]
  /\ view' = [view EXCEPT ![c] = 0]
  /\ UNCHANGED <<mem, todo, header, stats, phase, tick, history>>

(***************************************************************************)
(* Maintain, FlushCache and the passing of time.                           *)
(***************************************************************************)
\* A tick is received and the lock taken; the loop visits what is there now.
GCStart ==
  /\ tick /\ todo = {}
  /\ tick' = FALSE
  /\ todo' = Cached
  /\ UNCHANGED <<mem, local, stats, phase, history>>

\* The entry of q refers to a copy of its records with another TTL.
AgedCopy(q, d) ==
  /\ \E s \in NewSlice :
       /\ ttl' = [ttl EXCEPT ![s] = setTTL(ttl[answer[q]], d)]
       /\ owner' = [owner EXCEPT ![s] = owner[answer[q]]]
       /\ answer' = [answer EXCEPT ![q] = s]
  /\ UNCHANGED history

Drop(q) == Delete(q) /\ UNCHANGED <<ttl, owner>>

NewTTL(q) == getTTL(ttl[answer[q]]) - maintenancePeriod

\* The loop goes on to another entry of the map.
Visit(q) ==
  q \in todo /\ todo' = todo \ {q} /\ UNCHANGED <<local, stats, phase, tick>>

GCEntry_InPlace(q) ==
  /\ Visit(q)
  /\ \/ /\ NewTTL(q) > 0
        /\ ttl' = [ttl EXCEPT ![answer[q]] = setTTL(@, NewTTL(q))]
        /\ UNCHANGED <<owner, answer, history>>
     \/ NewTTL(q) <= 0 /\ Drop(q)

GCEntry_NoAgeing(q) ==
  /\ Visit(q)
  /\ \/ NewTTL(q) > 0 /\ UNCHANGED <<mem, history>>
     \/ NewTTL(q) <= 0 /\ Drop(q)

GCEntry_Early(q) ==
  /\ Visit(q)
  /\ \/ NewTTL(q) > maintenancePeriod /\ AgedCopy(q, NewTTL(q))
     \/ NewTTL(q) <= maintenancePeriod /\ Drop(q)

\* The loop has the lock for reading only, and waits for ever to delete.
GCEntry_ReadLocked(q) ==
  \/ Visit(q) /\ NewTTL(q) > 0 /\ AgedCopy(q, NewTTL(q))
  \/ q \in todo /\ NewTTL(q) <= 0 /\ UNCHANGED vars

GCEntry_KeepExpired(q) == Visit(q) /\ AgedCopy(q, NewTTL(q))

\* One iteration: an entry with time left is replaced by an aged copy, so that
\* callers still writing the old one are not disturbed; the rest are deleted.
GCEntry(q) ==
  /\ Visit(q)
  /\ \/ NewTTL(q) > 0 /\ AgedCopy(q, NewTTL(q))
     \/ NewTTL(q) <= 0 /\ Drop(q)

FlushCache ==
  /\ todo = {}
  /\ answer' = [q \in Question |-> None]
  /\ age' = [q \in Question |-> 0]
  /\ granted' = [q \in Question |-> 0]
  /\ size' = [q \in Question |-> 0]
  /\ UNCHANGED <<ttl, owner, todo, local, stats, phase, tick>>

\* One unit of time: the ticker fires every maintenancePeriod.  A tick is
\* handled within MaxLag, hence before the next one.
TimePasses ==
  /\ tick \/ todo # {} => phase < MaxLag
  /\ phase' = IF phase + 1 = maintenancePeriod THEN 0 ELSE phase + 1
  /\ tick' = (tick \/ phase + 1 = maintenancePeriod)
  /\ age' = [q \in Question |-> IF q \in Cached THEN age[q] + 1 ELSE age[q]]
  /\ UNCHANGED <<mem, todo, local, stats, granted, size>>

Next ==
  \/ \E c \in Caller : \/ \E q \in Question \cup {Multi} : Query(c, q)
                       \/ Hit(c) \/ Miss(c)
                       \/ BackReply(c) \/ BackError(c)
                       \/ Skip(c) \/ Record(c)
                       \/ Truncate(c) \/ WriteMsg(c)
  \/ GCStart
  \/ \E q \in Question : GCEntry(q)
  \/ FlushCache
  \/ TimePasses

Spec == Init /\ [][Next]_vars

\* The clock runs and the maintenance goroutine is scheduled; callers and the
\* back resolver may stop for ever.
FairSpec ==
  /\ Spec
  /\ WF_vars(TimePasses) /\ WF_vars(GCStart)
  /\ \A q \in Question : WF_vars(GCEntry(q))

-----------------------------------------------------------------------------
(***************************************************************************)
(* Properties.                                                             *)
(***************************************************************************)
\* Types of the variables.
TypeOK ==
  /\ answer \in [Question -> Slice \cup {None}]
  /\ ttl \in [Slice -> Seq(Nat)]
  /\ owner \in [Slice -> Question \cup {None}]
  /\ todo \subseteq Question
  /\ pc \in [Caller -> {"idle", "lookup", "back", "bypass", "record",
                        "return", "write"}]
  /\ question \in [Caller -> Question \cup {Multi, None}]
  /\ header \in [Caller -> Header \cup {None}]
  /\ held \in [Caller -> Slice \cup {None}]
  /\ view \in [Caller -> Nat]
  /\ stats \in [Counter -> Nat]
  /\ phase \in 0..(maintenancePeriod - 1) /\ tick \in BOOLEAN
  /\ age \in [Question -> Nat]
  /\ granted \in [Question -> Nat]
  /\ size \in [Question -> Nat]

\* The map never holds more than maxCacheSize entries, whatever the number of
\* misses that are recorded at the same time (the check and the insertion of
\* Query are under one lock; resolver.go: "don't exceed 2k entries").
WithinCapacity == Cardinality(Cached) <= maxCacheSize

\* Every entry answers its own question: no interleaving of misses, ageing and
\* flushes files the records of one question under another.
AnswerMatchesQuestion == \A q \in Cached : owner[answer[q]] = q

\* Every entry is nonempty, since getTTL, which Maintain and DumpCache apply to
\* all of them, indexes the first record; and its records have one TTL, which
\* is what lets getTTL look at the first only; that TTL is at most maxTTL.
CachedWellFormed ==
  \A q \in Cached : LET ts == ttl[answer[q]]
                    IN /\ ts # <<>>
                       /\ \A i \in DOMAIN ts : ts[i] = ts[1]
                       /\ getTTL(ts) <= maxTTL

\* An entry keeps all the records it was stored with, although the replies that
\* share its memory are cut down to the size of the clients' buffers.
CachedComplete == \A q \in Cached : Len(ttl[answer[q]]) = size[q]

\* Time by which the TTL of an entry lags behind the clock: the time since the
\* tick that the entry was last aged for.
Due(q) == IF tick \/ q \in todo THEN maintenancePeriod + phase ELSE phase

\* The TTLs kept in the map, corrected for the lag, never promise more than the
\* back resolver did.  This is StaleBound made inductive.
AgeingExact ==
  \A q \in Cached : getTTL(ttl[answer[q]]) + age[q] <= granted[q] + Due(q)

\* No reply from the cache outlives its records by more than a maintenance
\* period and the time it takes the maintenance goroutine to react: what is
\* left of the TTL and the time in the cache add up to no more than that
\* beyond the TTL received (resolver.go, maintenancePeriod: "Must be < minTTL
\* if we don't want to have entries stale for too long").
StaleBound ==
  \A q \in Cached :
    getTTL(ttl[answer[q]]) + age[q]
      <= granted[q] + maintenancePeriod + MaxLag

\* The cache implements the leases of AnswerLease when its period and maxTTL are
\* whole seconds, as in the code: entries are aged by a whole period, by a loop
\* that runs late and at whatever time they were recorded, yet the TTLs that
\* clients are told are wrong by no more than a period and a tick's lag, either
\* way; and unless it is flushed, the cache gives up no answer earlier than that.
Lease == INSTANCE AnswerLease WITH
  left <- [q \in Question |-> IF q \in Cached THEN getTTL(ttl[answer[q]]) ELSE 0],
  Capacity <- maxCacheSize,
  Longest <- maxTTL,
  Error <- maintenancePeriod + MaxLag

ImplementsLease == Lease!Spec

\* The records of a reply on its way to a client do not change until it is
\* written: no GC, recording or flush touches the memory it refers to
\* (Maintain: "we avoid races with users that have gotten a cached answer").
HeldUnchanged ==
  \A c \in Caller :
    pc[c] \in {"return", "write"} /\ held[c] # None
      => /\ ttl'[held[c]] = ttl[held[c]]
         /\ owner'[held[c]] = owner[held[c]]

HeldRRsImmutable == [][HeldUnchanged]_vars

\* Nothing stays in the cache for ever: each entry is eventually deleted, even
\* if every caller and the back resolver hang.
EveryEntryExpires == \A q \in Question : q \in Cached ~> q \notin Cached

=============================================================================
