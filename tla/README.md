# A TLA+ model of dnss

dnss carries DNS over HTTPS. In one direction (DNS to HTTPS) it is a DNS server
for the local machine or network that forwards queries to a DoH server, with a
cache in between; in the other (HTTPS to DNS) it is the DoH server. This
directory holds TLA+ modules of its components, TLC configurations that check
them on small instances, and proofs, checked by TLAPS, of the main properties
for all values of the constants.

## 1. The system

```
 DNS clients
     |                        overrides (DomainMap) --> servers for some domains
     v                       /
 dnsserver.Server.Handler --+---- -dns_unqualified_upstream
     |      |                \
     |      |                 cachingResolver --> httpsResolver ==HTTPS==> DoH
     |      v                  (Resolver)          (Resolver)
     |   dnstap.Writer --> collector
     v
   traces (nettrace), counters (stats, expvar)

 DoH clients ==HTTPS==> httpserver.Server.Resolve --UDP, TCP--> DNS upstream
```

| Component (source) | State | Operations | What is hard |
|---|---|---|---|
| Caching resolver (`internal/dnsserver/resolver.go`) | `answer`, a map from questions to slices of records, under an RWMutex; counters | `Query`, `Maintain` (every 5 s), `FlushCache`, `DumpCache` | Any number of queries run at once. The map, the maintenance loop and the replies being written share memory. TTLs are only aged at ticks, which can be late. A hit is looked up and a miss recorded in different critical sections |
| DoH resolver (`internal/httpresolver/resolver.go`) | `client`, `firstErr` under a mutex | `Query`, `Maintain` (every 2 s), which replaces the client after 10 s of errors | Requests in flight over a rotation report to the new client's record; piling up connections |
| Domain overrides (`internal/dnsserver/domainmap.go`) | a map, constant after start | `DomainMapFromString`, `Set`, `GetMostSpecific` | Iteration in any order; spellings of a name; the root |
| DNS server (`internal/dnsserver/server.go`) | the bounded channel `newID`; per request the message, whose ID the handler changes | `Handler`, `writeReply`, the ID generator | Restoring the ID on every path; which upstream may see a query; waiting for an ID |
| dnstap exporter (`internal/dnstap/dnstap.go`) | the bounded channel `ch`, the connection | `Capture`, the `run` loop | The collector goes away at any moment, also in the middle of a frame, or stops reading (writes have no deadline); the queue fills |
| HTTPS to DNS server (`internal/httpserver/server.go`) | per request only | `Resolve` (GET, POST, JSON), `exchange` (UDP, then TCP) | Which failure is reported; the client has a timeout of its own and does not wait for this end's |
| Log of a trace (`internal/nettrace/trace.go`, `evtring.go`) | first events in a slice, latest in a ring | `append`, `SetMaxEvents`, `Events` | Ring arithmetic; goroutines that read the clock before they lock |
| Trace registry (`internal/nettrace/trace.go`, `histogram.go`) | per family: active traces, rings by latency, ring of errors, histogram | `New`, `NewChild`, `Link`, `SetError`, `Finish`, `findInFamilies` | Lookups over several locks while traces are created, finished and dropped |
| Trace viewer (`internal/nettrace/http.go`) | none | the page of a trace: `allEvents` | Traces refer to each other in circles, and are logged to while the page is gathered, each under its own lock |
| Statistics (`internal/stats`) | counters, counts of domains | `Inc`, `RecordDomainQuery`, `Report`, `ReportTopDomains` | A report is no snapshot: counters are read one after the other while queries go on |
| Trace context (`nettrace/context.go`), wrapper (`internal/trace`) | none | - | not modelled |
| Start (`dnss.go`), monitoring (`monitoring.go`) | flags | - | not modelled |
| Test helpers (`tests`, `testutil`, `nettrace/test_server.go`) | - | - | not modelled |

Components call each other directly: a handler goroutine calls `Query` of the
cache, which calls `Query` of the DoH resolver, and puts a record in the
dnstap queue before it writes the reply. They share no other state but the
memory of records (which the cache keeps and `writeReply` truncates and packs),
so most are modelled with the others as their environment: the cache's callers do
what `writeReply` does to the records, its back resolver returns any reply or
fails; the handler's resolver returns any message or fails. Where components
do interact through more than a call and its result, they are composed:
`Tunnel` (a DoH resolver with the HTTPS server of another dnss, each with its
timeouts), `DomainStats` (the handler, its overrides and the reports) and
`TracePage` (the viewer over the logs of traces).

What has to be right, component by component, is in section 4; the places where
it could go wrong are listed as "hazards" in `PROJECT.json`, each with the line
and with the properties that cover it.

## 2. Modules

| Module | Models | Instances | Proofs |
|---|---|---|---|
| `CachingResolver` | caching resolver, its callers' use of the replies | `MC_CachingResolver`: `MC_Cache_sharing.cfg`, `MC_Cache_ageing.cfg` | `CachingResolverProofs` |
| `AnswerLease` | abstract: what a cache of answers promises | as `ImplementsLease` of `CachingResolver` | in `CachingResolverProofs` |
| `DoHResolver` | DoH resolver | `MC_DoHResolver`: `MC_DoH_rotation.cfg`; in `Tunnel` | in `TunnelProofs` |
| `DoHRecency` | the same, with the time of the last error | `MC_DoHRecency`: `MC_DoH_idle.cfg` | - |
| `DohServer` | HTTPS to DNS server | in `Tunnel` | in `TunnelProofs` |
| `Tunnel` | composition: `DoHResolver`, `DohServer`, the network | `MC_Tunnel` | `TunnelProofs` |
| `DomainMap` | domain overrides | `MC_DomainMap`: `MC_DomainMap_root.cfg`; in `DomainStats` | `DomainMapProofs` |
| `DomainStats` | composition: `DomainMap`, the statistics and the handler's use of both | `MC_DomainStats` | in `DomainMapProofs` |
| `DnsServer` | DNS server: handlers, IDs, `writeReply` | `MC_DnsServer`: `MC_DnsServer.cfg`, `MC_Server_dnstap.cfg` | `DnsServerProofs` |
| `DnstapWriter` | dnstap exporter and a collector | `MC_DnstapWriter` | `DnstapWriterProofs` |
| `LossyFifo` | abstract: what a bounded export queue promises | as `ImplementsFifo` of `DnstapWriter` | in `DnstapWriterProofs` |
| `EventLog` | logs of traces | in `TracePage` | in `TracePageProofs` |
| `TracePage` | composition: `EventLog`, the viewer's page of a trace | `MC_TracePage` | `TracePageProofs` |
| `TraceRegistry` | families of traces and lookups | `MC_TraceRegistry` | `TraceRegistryProofs` |
| `Orders` | sorting and filtering, as functions of a set and an order | in `DomainStats`, `TracePage`, `TraceRegistry` | `OrderTheorems` |

Definitions have the names of the code where they can; `PROJECT.json` gives the
lines that each one models. Those with a suffix, such as `HasRoom_OffByOne`, are
not part of the model: they are variants with a plausible mistake, kept to show
that each property would notice one. Variables marked "history" record what
happened for the sake of a property, and no action depends on them.

### Conventions

*Steps.* What runs under one lock is one step, together with the local
computation around it, which no other goroutine can see. The exceptions are
loops whose intermediate states matter: the maintenance loop of the cache takes
one step per entry (it holds the lock in between), and `GetMostSpecific` one per
entry of the map.

*Time.* Instants are replaced by the time that has passed since: phases of
tickers, ages. One action, `TimePasses`, advances them all.

*Sorting.* `sort.Slice` and filters are modelled with `InOrder` and `Selected` of
`Orders`, rather than with `SortSeq` and `SelectSeq`: those have operators for
parameters and are defined by recursion, which the provers cannot look into.
`sort.Slice` is not stable, but no two elements are equal in the orders used
here: names differ, and no two lines of a page have the same time.

*Counters.* The expvar counters are only ever incremented and printed. The
cache keeps its own as `stats`, since they tell how a query ended; those of the
other components are left out, as are log and trace messages.

### CachingResolver

`answer` maps questions to a `Slice`, the identity of a Go slice of record
pointers; `ttl[s]` and `owner[s]` are the contents of that memory. This is what
makes sharing visible: `Hit` lets the reply refer to the entry's slice, `Record`
caps the TTLs in place and lets the map refer to the reply's slice, `GCEntry`
replaces an entry by an aged copy in new memory. A caller then truncates its
view of the reply (`Truncate`, which changes only its own slice header) and
packs it (`WriteMsg`), and holds on to the memory until then. Memory to which
nobody refers is free (Go's collector); the number of slices in an instance is
enough for every allocation.

`TimePasses` fires the ticker every `maintenancePeriod`. The channel of
`time.Tick` has one slot. The loop must have handled a tick within `MaxLag`, an
assumption about scheduling that `StaleBound` needs, as it states a time bound.
Durations are in units of which a second has `Second`, so that `setTTL`'s
truncation to seconds can lose something.

`AnswerLease` is the view of a client: of each question the time left that it
would be told, what was granted, and the time since. `ImplementsLease` maps an
entry to the TTL of its first record (the one that `getTTL` speaks for), and
allows an error of a maintenance period and the lag, either way. Truncation to
seconds does no harm as long as the period is in whole seconds, as the code's
are; a period of one and a half would violate it, since each ageing would lose
half a second more. `Question` values, unsuitable replies
(`Header`) and error returns follow `wantToCache` and `Query`.

### DoHResolver

A request picks `client` under the lock (`Query`), is in `Post` without it, and
reports to `setClientError` under it (`PostFails`, `PostSucceeds`); `Return`
stands for reading the body and all the ways to fail after the status, none of
which concerns the client. `TimePasses` cannot go beyond the `Timeout` of
`http.Client` while a request is in `Post` or reading the body. Clients are
numbered modulo 3: a request on a client two rotations old would show as one on
a client that is neither current nor previous. `newClient` always returns a nil
error, so its error path is dead. `DoHRecency` adds the memory of the latest
error, which the code does not keep, to state what finding 1 is about.

### DomainMap

Parsing adds one item at a time. A domain is a name and a spelling; names are
sequences of labels from the root. The loop of `GetMostSpecific` visits entries
in any order.

### DomainStats

A query is counted (`Handle`), its domain recorded under the lock of
`domainStats` (`RecordDomainQuery`), and then looked up; an override is counted
when the lookup has ended (`Forward`). A message with more or less than one
question is counted and gets no further (`RejectQuestions`). `Report` and `Read` take a counter at a
time, as `expvar.Do` and `Map.String` do, in the order of the keys. Of the
counters those two are kept that a reader would relate, and of the handlers one:
more would only let more queries be between their two counts. `ReportTopDomains`
holds the lock for the whole of its computation and is one step.

### DnsServer

Each handler goes through routing, `dns.Exchange` or the wait for an ID and the
resolver, `Capture`, truncation and the write, or `HandleFailed`. `Exchange`
returns only messages with the ID of the query; a resolver may return any.
Messages have an ID, a size and the truncation flag. `w.WriteMsg` may fail, for
instance on a reply that cannot be packed, and the handler then sends nothing
else: `written` has `None` for such a call (`Write`). The dnstap channel is
reduced to the number of records in it, and its reader may stop for ever.

### DnstapWriter

Records are numbered. `Succeeds`, `Vanishes` and `Fails` are what `conn.Write`
can do on a connection that is up, or that the collector has dropped and the
kernel may not know of; while the collector is `stalled`, a write does not
return. `stream` is what was written to the current connection, `sent`
and `fate` what became of each record. *Sent* means that the write to an open
connection has returned without an error. Neither the code nor the model knows
whether the collector has read the record from the socket's buffers before it
went away: the frame format has no acknowledgements of data.

`LossyFifo` leaves out connections: items are accepted or refused, and then
delivered in order or lost. An item waits in the channel or in the hands of
`run`, which the refinement puts before the channel; hence the bounds on both
sides of `Capacity` in `Accept` and `Refuse`.

### DohServer, Tunnel

In `DohServer` a request has the few attributes that `Resolve` branches on, and
an exchange ends in one of four ways. The `content` of a response tells an error
page, the upstream's reply, the SERVFAIL that `resolveDoH` sends in place of a
reply that it cannot pack, and the empty body that is left if that cannot be
packed either: the last three have the same status and type. `Tunnel` extends `DoHResolver` and
instantiates `DohServer` over variables of its own. A `POST` has a `stream` on
its client's connection: the request is on its way, with a handler, or the
response is on its way. A `Cut` leaves the connections that exist `dead`:
nothing arrives over them any more, and neither end is told. `client.Post` may
fail at any moment before its timeout and at the latest then (`GiveUp`): names
may not resolve, connections be refused or reset, TLS fail. Of a `POST` that the
resolver has packed itself, the body may break off, and it need not unpack, as
the server reads no more than 4092 bytes of it (`Posts`). A handler whose client
has left goes on, as `exchange` has no context.

`asked` numbers the queries of each goroutine, and a handler keeps the
`question` it has read: a response carries it, so that a late one can be told
from the answer to the query that is waiting (`OnlyOwnAnswers`). What keeps them
apart in the code is that HTTP ties a response to the stream of its request,
which `Close` models: the handler of a query that is over has no `peer`. The
variant `Close_SharedStream` leaves it, and the late answer is then taken for
that of the next query.

An exchange over UDP may last `upstreamTimeout`, one over TCP twice that, as
`dns.Client` uses the timeout once for the connection and once for the answer.

The instance has one handler. Handlers share nothing, and a handler that goes on
for a client that has left merely delays the next `POST`, as a slow network
would. Other programs' requests (`Foreign`), which go through each way out of
`Resolve`, are only accepted while the resolver has nothing in flight and no
error: they cannot influence it, and this keeps the instance small.

### EventLog, TraceRegistry

`EventLog` has the logs in full: `firstEvents`, the ring with its position, and
the times that events get before the lock is taken; `Link` and `NewChild` log
events that refer to another trace. Two readings of the clock are taken to be
distinct. `MinEvents`, 6 in the code, is a parameter of at least 3, for which
the cutoff is not 0. In
`TraceRegistry` the log is reduced to the set of traces it refers to (an append
adds at most one and may drop any one), and the rings by latency and the
histogram are there in full. A trace is used by one goroutine, as the comment on
`Finish` asks, apart from the lookups, whose steps interleave with everything.
A family's entry in `families` is there from the start: entries are only added,
and a new one is empty.

### TracePage

The recursion of `appendAllEvents` is unrolled: `calls` are the calls to come,
in order, and each is a step, since a trace is locked only while its own events
are copied. Between the steps the loggers of `EventLog` go on. `lasting` (a
history) has the events that a log has had since the page was asked for: those
must be on it, while what is logged or overwritten in between may be or not.

## 3. Runs

All take from a second to about three minutes with two workers.

| Run | Question | Bounds |
|---|---|---|
| `cache_sharing` | Is shared memory ever disturbed, is an entry ever wrong, too many, or malformed? | 2 callers, 2 questions, room for 1 entry, 3 queries; every single way for a reply to be unsuitable; answers that are empty, too short-lived, or above `maxTTL` with unequal records |
| `cache_ageing` | Are TTLs aged correctly when ticks are late; is the cache a lease on answers; are all entries deleted in the end? | 1 caller, 2 questions, 2 queries, times in half seconds: period 2, lag up to 1, TTLs around `minTTL` 4 and `maxTTL` 6 |
| `doh_rotation` | When are clients replaced, how many are in use? | 3 requests, any number of queries, 10 s, 4 s and 2 s as in the code; no bound on time |
| `doh_idle` | Finding 1 | 1 request |
| `domain_stats` | Is the lookup right, and do the reports agree with the queries? | 3 items, 5 names (the root, two top-level names and a chain of three), 2 spellings, 2 values, 3 queries, lists of 2 domains |
| `domainmap_root` | Finding 2 | the same names |
| `dnstap` | What is written to a collector; is the exporter a queue; does it recover? | 5 records, queue of 2, 2 breaks, any number of stalls |
| `dns_server` | Replies, leaks, sizes, and waiting for IDs and for dnstap | 2 handlers without end, 6 queries that reach every upstream, 2 IDs, 1 slot in `newID`, room for 1 record |
| `server_dnstap` | Finding 3 | as above, without overrides |
| `tunnel` | What is an answer, what an error; is a dead connection given up? | 1 request at a time without end, 1 handler, 11 kinds of foreign requests, the times of the code in units of 2 s, queries numbered modulo 2, 1 change of networks |
| `trace_page` | Is the page of a trace complete and free of repetitions, are the right events kept? | 2 traces, 2 writers, 6 events of which 2 refer to a trace, logs of 3 and 4 (rings of 2 and 3) |
| `traces` | Do rings and histogram keep what they should, do lookups find what is there? | 3 traces, 2 buckets, rings of 2 |

*Why the bounds are enough.* The cache's hazards need two goroutines that share
one entry, and a third reply to compete for the room; three queries give each
of these, with GC and a flush at any point of them. In the DoH resolver a
request that outlives a rotation needs a second one that causes the errors, and
a third to end their streak. Six events overflow a log of three and take
its ring of two once around; two references make a circle of two traces, two
ways to one trace, or a trace that refers to itself. A list of two domains
leaves out one of three. A ring of two traces overflows
with the third, and a lookup over a parent or child involves two traces, which
the third can push out. Two handlers of `DnsServer` share only the channels.
One change of networks is enough for `DeadClientReplaced`, as each starts it
afresh. Queries are numbered modulo 2: a late answer is one to the query before,
or to an earlier one, and to mistake the former is enough of a violation. The
proof is for any modulus.

*Symmetry and views.* Callers, writers, traces and values are interchangeable
in the runs with `SYMMETRY`; no run with a liveness property has it. `Live` (in
`MC_CachingResolver`) identifies states that differ in the contents of free
memory only. `Relevant` (in `MC_TraceRegistry`) leaves out what dropped traces
referred to and what lookups that need not succeed have found. `Relevant` of
`MC_DomainStats` leaves out the items of the flag that led to the map and the
last list of domains; that of `MC_TracePage` replaces the events by their places
in their logs, and the order of a sorted page by its set of lines. The
properties of these runs are functions of what the views keep.

*Deadlock* is checked except where the system really comes to rest within its
bounds: all records captured and sent, all traces finished, events and queries used up,
an invalid flag (dnss exits).

## 4. Properties

Every component has a type invariant. The others:

- **Cache.** `WithinCapacity`; `AnswerMatchesQuestion`; `CachedWellFormed`
  (`getTTL` indexes the first record, in a goroutine without `recover`);
  `CachedComplete` (truncating a reply does not truncate the entry it shares);
  `HeldRRsImmutable` (an action property: what a reply being written refers to
  never changes); `StaleBound` (from the back resolver's answer to expiry no
  more than its TTL, a period and the lag); `ImplementsLease` (a refinement: the
  cache is an `AnswerLease`, so neither is an entry given up sooner than its TTL
  less a period and the lag); `EveryEntryExpires` (liveness).
- **DoH resolver.** `AtMostOneOldClient` ("we never have too many in-flight
  connections"); `RotationJustified` (an action property: only after 10 s
  without any success, and 10 s after the last one); `StreakBounded`,
  `StreakEnds` (errors cannot go on without a rotation).
- **Tunnel.** `OnlyOwnAnswers` (what `Query` returns answers the query it was
  called with, not one before, and is the reply of the upstream exchange that
  decided, or the server's SERVFAIL for a reply that it could not pack; never an
  error page or an empty body);
  `RotatesOnlyUnheard` (an action property: a server that answers, be it that
  its upstream is down, keeps its connection); `DeadClientReplaced` (liveness:
  after the network has changed, the dead connection is given up);
  `CompleteIfPossible` and `FailureNotMasked` of the server, with requests whose
  client has left.
- **Overrides and statistics.** `MostSpecific`; `ReportConsistent` (a report
  shows no more overridden queries than queries, which rests on the order of
  the counters' names: `override` is read before `total`); `TopIsTop`.
- **DNS server.** `OneUsableReply` (`WriteMsg` is called exactly once for a
  query, so at most one message goes out; it has the client's ID and fits),
  `NoLeakUpstream` (a query for an
  overridden or unqualified name never goes to the public resolver, also when
  its server fails), `EveryQueryAnswered` (liveness, with the collector of
  dnstap stalled for good).
- **dnstap.** `StreamWellFormed`, `Conservation`, `ImplementsFifo` (a
  refinement: the exporter is a `LossyFifo`), `Drains` (liveness, if from some
  point on the collector stays up and reads).
- **Logs and their page.** `EventsAreFirstAndLast`; `ShownOnce`,
  `PageComplete`.
- **Registry.** `RingsKeepLatest`, `HistogramExact`, `LookupSucceeds` (a lookup
  finds a trace that was reachable all the time the lookup ran).

### Fairness

- `CachingResolver`: the clock and the maintenance goroutine, which waits only
  for its ticker and the lock. Nothing is assumed of callers or the back
  resolver.
- `DoHResolver`: the clock, the maintenance goroutine, and a request that has
  started, since `http.Client.Timeout` (4 s) ends both `Post` and the reading of
  the body. No fairness for success: `StreakEnds` holds if everything fails.
- `Tunnel`: the clock, strongly, since it is held up again and again by steps
  that take no time; the maintenance goroutine; the steps of `Query` and of a
  handler, both of which have timeouts; and that there are always more queries,
  without which nothing would tell that a connection is dead. Nothing is
  assumed of the network, the server's upstream and other programs.
- `DnsServer`: the ID generator, and the steps of a handler; `dns.Exchange` and
  the DoH resolver have timeouts. Nothing is assumed of the exporter. The receive from `newID` is strongly fair: Go
  serves the receivers of a channel in order.
- `DnstapWriter`: the `run` goroutine only, and while a collector stalls it is
  in a write. It also writes to a dead connection for as long as the kernel
  accepts that.

### Findings

1. `doh_idle`: `maybeRotateClient` says "If we've seen errors for the last 10s,
   rotate the client", but looks only at the age of the first error since the
   last success. One error and ten seconds without queries also rotate it.
2. `domainmap_root`: `GetMostSpecific` says "we pick the map entry that is
   closest to the domain", but compares with `>` to a count that starts at 0,
   which is that of the root: an override for `.` is never used.
3. `server_dnstap`: `Capture` "records a DNS query/response pair", but of a
   query that went to the resolver the pair has two IDs: the handler restores
   the client's in the response, and in the query only if the resolver fails.

## 5. Proofs

The theorems hold for every value of the constants that satisfies the modules'
`ASSUME`s: sets of questions and callers are finite, durations are positive
where the code's are, `MaxLag < maintenancePeriod`, `Timeout <= RotateAfter`, the
bounds of the latency buckets increase from 0, a page is asked of finitely many
traces, logs have room for three events at least. With them every invariant and
every action property that a run checks is proved, and both refinements.

**Cache.** `TypeOK` and the properties are not inductive as they stand. What a
caller holds has to be known at each stage (`CallerOK`: the records of a reply that
may be recorded answer the question in its header), and which memory may not be
shared (`Exclusive`: such a reply is neither in the map nor held by another
caller). `LoopOK` says that
what the maintenance loop still has to visit is in the map; `NonEmpty` that
entries are. Their conjunction is `Inv`; `NextInv` proves that each action keeps
it. `EntryStep` says what a step can do to an entry (leave it, delete it, record
it, age it), and the remaining proofs go over these cases:
`CapacityRespected`, `AnswersMatch`, `EntriesComplete`, `EntriesWellFormed`,
`HeldRRsAreImmutable`. The time bound needs `AgeingExact`: an entry's TTL and age
exceed what was granted by at most the time since the tick for which it was last
aged (`Due`). Recording sets the sum to what was granted, time adds to both sides,
and ageing takes at least a period from both; `StalenessBounded` follows with
`Prompt` (ticks are handled within `MaxLag`). Rounding to seconds is included: it
only shortens.

`LeaseImplemented` is the refinement of `AnswerLease`, under the one further
hypothesis that `maintenancePeriod` and `maxTTL` are whole seconds
(`WholeDurations`), as the code's are: then rounding loses nothing (`RecordedWhole`,
`AgedWhole`). `AgeingExact` is the upper half of what the lease allows.
`AgeingDue` is the lower half: what an entry is due for when it is recorded, up to
a period and the lag, is all that can be taken from it early. Between the visits of
the loop its age and what it is due for go on together (`LagKept`), and a visit
takes a period from both its TTL and the latter, since no tick waits during a GC
(`OneTick`). With `TimeLeft`, the entries are what the lease keeps; `LeaseGrant`,
`LeaseAge` and `LeaseTime` map the steps, and all others are stutters.

**DoH resolver.** `RotationHistory`: a request on the previous client has been
in flight since before the last rotation, and an error streak began after it.
As `Timeout <= RotateAfter`, the next rotation comes after that request's end;
this gives `OldClientsBounded` and half of `RotationIsJustified`.
`StreakHistory`: `firstErr` is the age of the streak, and exceeds `RotateAfter`
only by the time since a tick that found it too young; this gives
`StreakIsBounded` and the other half.

**Tunnel.** `ResolverImplemented` shows that the resolver in the composition
takes the steps of `DoHResolver`, so that what is proved of it holds there; with
`RotationIsJustified` this gives `RotationOnlyUnheard`. Of the server,
`HandlerStage` says what a handler knows at each place of `Resolve`: how the
exchanges ended that it has made, and that what it sent agrees with the one that
decided (`SentOK`). `RequestOK` carries that over the network: a handler whose
`peer` is a request works for the query that this one asked last, so nobody works
for a query that is over; a response on its way is one that such a handler sent
(`Genuine`), a body is only read while its stream has a response, and a result was
one. A query that begins must find no handler of an earlier one (`AskStreams`),
which is what `Close` provides (`CloseKeeps`). `AnswersComplete`,
`FailuresNotMasked` and `AnswersAreOwn` follow, for any numbers of requests,
handlers, queries and cuts.

**Overrides and statistics.** `LoopInvariant` states `MostSpecific` for the
entries visited so far; `QueriesUseMap` carries it over to the queries of
`DomainStats`. For `ReportsConsistent`, `CountersOK` says that a query is counted
before it can count as overridden, and `ReportOK` what a report knows after each
reading: the overrides it has read are no more than there are now, which are no
more than the total to be read. `TopReported` rests on `CountsOK`, that the map
counts the queries for each name, and on the theorems about orders.

**Orders.** `InOrder(S, ord)` picks for each place the element that has as many
ahead of it. `InOrderLists` says that it lists a finite set in a strict total
order: the places of two elements differ (`AheadGrows`), so each is taken.
`SelectedIs` and `SelectedGrows` say the same of parts of a sequence, and what
becomes of them when the sequence grows.

**dnstap.** `StreamWellFormed` alone does not say what may be sent next. `StreamOK`
relates the stream to the place of `run` in its loop (`Handshaken`): whole
frames so far while the connection is in use, and as many of them as the
handshake has sent. `FrameAppended` extends such a stream by a frame. For the
refinement, `InHand`, `TakeInHand` and `AppendBehind` are facts about the
sequence of the record in hand and the channel behind it; `FifoStep` maps each
step of the exporter to one of the queue, or to none, and `FifoImplemented`
follows.

`Conservation` speaks of accepted records only; `Accounts` says of every record
that its fate tells where it is, that the channel holds none twice, and that those
not yet captured have no fate; `Blame`, that one is lost only after a break.

**DNS server.** `Stage` says what a handler knows at each place of its code:
which upstream it has asked, that nothing has been written yet, and, from the
moment the ID is restored, that the reply in hand has the client's. A step of one
handler leaves the others' stages alone (`OthersOK`), and the early returns all
end in one call of `WriteMsg`, with a reply that is usable (`FailedReply`); that
truncation fits the buffer is `FittedFits`. `RepliesUsable` and `NoLeaks` are
read off the last stage.

**Logs and their page.** The invariant accounts for every slot of the ring (`RingShape`,
`RingKeeps`): the slots up to `pos` hold the latest events, and those behind it
the ones before. It is stated without the code's modulo, so that `Add` is linear
arithmetic (`SlotsStay`, `RoomKeeps`, `FullKeeps`); `DoVisits` resolves the modulo
of `Do` once, and `EventsOfLog` puts the pieces together. It is an invariant of
`TracePage`, since no step of the viewer changes a log (`PageKeepsLogs`).
`SequenceTheorems` supplies the facts about concatenation and subsequences.

`SortedIs` says that the page's sort loses and repeats nothing. For the page, the
logs' invariant is extended by `TimesOK` (no two events of a log, written or
on their way, have the same time) and `RefsOK`. `PageOK` describes a page that is
being gathered: every trace that a line refers to is seen or in a call to come
(`Reached`), calls nest no deeper than there are traces seen, and the
events that a trace seen has kept are on the page. Hence the recursion is no
deeper than there are traces (`PageTypeCorrect`), and a page is without
repetitions (`LinesShownOnce`) and complete (`PagesComplete`).

**Registry.** `RegistryInv` (`RegistryConsistent`) says how the tables relate: a
trace is active in its family until it is finished (`ActiveOK`), is finished once
(`DoneOK`), and only finished traces of the family are in its rings (`RingsOK`).
Every other proof starts from it. `LookupKnows` says what a lookup that has to
succeed knows after each lock it has taken and released: once the direct lookup has
failed, the trace is finished and dropped for good (`Preserved`: what is dropped
stays so, and parents do not change), so that the way to it must lead through the
trace that it is looked up by. `RingHolds` ties every slot of a ring to the
traces that were finished: the last of them, wherever the ring has turned to
(`RingGrows` for `Add`, `RingShows` for `Do`). `HistogramOf` is the histogram of a
set of traces, which `Add` extends by one (`HistogramGrows`); the sum of latencies
is the cardinality of a set, since a recursive sum could not be reasoned about.

*Only model-checked* are the liveness properties, `EveryEntryExpires`,
`StreakEnds`, `DeadClientReplaced`, `EveryQueryAnswered` and `Drains`: they rest on
fairness, and the prover has no rules for `ENABLED` and for fairness of quantified
actions. The findings are counterexamples of TLC's.

## 6. What is not modelled

- Sockets, TLS, systemd activation, flags, logs and HTML: input and output
  without state that the program depends on.
- Contents of messages beyond what the code branches on: record data, names
  beyond their place in the tree, the layout of JSON and protobuf.
- Read-only reports: `GetExact`, `DumpCache`, `TracesFor`, `Snapshot`, and the
  counters other than those of `DomainStats`. What
  `DumpCache` needs of an entry is `CachedWellFormed`.
- The resolver that dials the DoH server (`-fallback_upstream`) and the
  connection pool, which belong to `net/http`.
- The rate of reconnections of dnstap, and what a socket's buffers still hold
  when a connection breaks.
- The viewer's parameters, templates and other pages; the writing of a report
  to stderr in several pieces, which two reports may mix.
- Starting and stopping: a signal ends the process at once, and nothing is kept
  over a restart.

## 7. Plan

In this order, most important first:

1. *Composition of the DNS side*: handlers, cache and DoH resolver with one
   clock, replacing the cache's abstract back resolver and the handler's
   abstract resolver; and `DnsServer` with `DnstapWriter`, of which `DnsServer`
   has only the length of the queue.
2. *Proofs*: what liveness rests on and the prover can show: that each helpful
   step gets nearer to the goal, and that no other step takes it further away; a
   variant for the page, whose calls come to an end as traces are seen; the theorems
   of new modules.
3. *An abstract log*, as a function of the events logged, implemented by
   `EventLog` (`EventsOfLog` is the refinement's value).
