----------------------------- MODULE DomainStats -----------------------------
(***************************************************************************)
(* internal/stats, as the DNS server uses it around the lookup of its      *)
(* overrides: the counters of the queries, the counts of the domains that  *)
(* were asked for, and the two goroutines that report them.                *)
(*                                                                         *)
(* Counters are atomic and there is no lock around several of them, so a   *)
(* report reads one after the other while queries go on; the counts of the *)
(* domains have a lock.                                                    *)
(***************************************************************************)
EXTENDS DomainMap, Orders, Functions, SequencesExt

CONSTANTS
  Alphabet,    \* all the names, in the order of their spelling
  Limit,       \* -top_domains_stats_count
  MaxQueries   \* bound: queries in a behaviour

ASSUME DomainStatsAssumption ==
  /\ Alphabet \in Seq(Name) /\ IsInjective(Alphabet) /\ Range(Alphabet) = Name
  /\ Limit \in Nat \ {0} /\ MaxQueries \in Nat

VARIABLES
  stage,      \* the handler: "idle", "counted", "recorded" or "lookup"
  question,   \* the name it was asked for
  total,      \* dnsserver_queries_total
  overrides,  \* dnsserver_queries_override
  counts,     \* domainStats.counts, by name
  report,     \* Report: what is still to be read, and what was read
  top,        \* the last ReportTopDomains
  asked       \* history: the domains recorded, as they were spelled

statVars ==
  <<stage, question, total, overrides, counts, report, top, asked>>
allVars == <<vars, statVars>>

StatsInit ==
  /\ Init
  /\ stage = "idle" /\ question = None
  /\ total = 0 /\ overrides = 0
  /\ counts = [n \in {} |-> 0]
  /\ report = [todo |-> <<>>, read |-> [k \in {} |-> 0]]
  /\ top = <<>>
  /\ asked = <<>>

(***************************************************************************)
(* Server.Handler: a query is counted, its domain recorded and then looked *)
(* up; if there is an override, it is counted as such.                     *)
(***************************************************************************)
Handle(d) ==
  /\ pc = "ready" /\ stage = "idle" /\ total < MaxQueries
  /\ total' = total + 1
  /\ stage' = "counted" /\ question' = d
  /\ UNCHANGED <<vars, overrides, counts, report, top, asked>>

\* One with more or less than one question is counted, too, and gets no further.
RejectQuestions ==
  /\ pc = "ready" /\ stage = "idle" /\ total < MaxQueries
  /\ total' = total + 1
  /\ UNCHANGED <<vars, stage, question, overrides, counts, report, top, asked>>

\* Letter case and a final dot make no difference to the name that is counted.
RecordDomainQuery ==
  /\ stage = "counted"
  /\ counts' = LET key == CanonicalName(question).labels
               IN [n \in DOMAIN counts \cup {key} |->
                     (IF n \in DOMAIN counts THEN counts[n] ELSE 0)
                     + (IF n = key THEN 1 ELSE 0)]
  /\ asked' = Append(asked, question)
  /\ stage' = "recorded"
  /\ UNCHANGED <<vars, question, total, overrides, report, top>>

GetMostSpecific ==
  /\ stage = "recorded"
  /\ Lookup(question)
  /\ stage' = "lookup"
  /\ UNCHANGED <<question, total, overrides, counts, report, top, asked>>

Looking ==
  /\ (\E d \in todo : Iterate(d)) \/ LoopEnd
  /\ UNCHANGED statVars

Forward ==
  /\ stage = "lookup"
  /\ Return
  /\ overrides' = overrides + (IF ok THEN 1 ELSE 0)
  /\ stage' = "idle" /\ question' = None
  /\ UNCHANGED <<total, counts, report, top, asked>>

(***************************************************************************)
(* Report, which expvar takes through the counters in alphabetical order.  *)
(***************************************************************************)
Keys_Unsorted == <<"total", "override">>

Keys == <<"override", "total">>

Report ==
  /\ pc # "invalid" /\ report.todo = <<>>
  /\ report' = [todo |-> Keys, read |-> [k \in {} |-> 0]]
  /\ UNCHANGED <<vars, stage, question, total, overrides, counts, top, asked>>

Read ==
  /\ pc # "invalid" /\ report.todo # <<>>
  /\ LET key == Head(report.todo)
         value == IF key = "total" THEN total ELSE overrides
     IN report' = [todo |-> Tail(report.todo),
                   read |-> [k \in DOMAIN report.read \cup {key} |->
                               IF k = key THEN value ELSE report.read[k]]]
  /\ UNCHANGED <<vars, stage, question, total, overrides, counts, top, asked>>

Rank(n) == CHOOSE i \in DOMAIN Alphabet : Alphabet[i] = n

Before(x, y) ==
  \/ x.count > y.count
  \/ x.count = y.count /\ Rank(x.name) < Rank(y.name)

Entries == {[name |-> n, count |-> counts[n]] : n \in DOMAIN counts}

\* sort.Slice, of entries of which no two are equal.
Sorted(all) == InOrder(all, {p \in all \X all : Before(p[1], p[2])})

Cut(s) == IF Len(s) > Limit THEN SubSeq(s, 1, Limit) ELSE s

topDomains_CutFirst == Sorted(ToSet(Cut(SetToSeq(Entries))))

topDomains == Cut(Sorted(Entries))

ReportTopDomains ==
  /\ pc # "invalid"
  /\ UNCHANGED <<vars, stage, question, total, overrides, counts, report, asked>>
  /\ top' = topDomains

Parse ==
  /\ (\E d \in Domain, v \in Value : ParseItem(d, v)) \/ ParseError \/ ParseEnd
  /\ UNCHANGED statVars

StatsNext ==
  \/ Parse
  \/ \E d \in Domain : Handle(d)
  \/ RejectQuestions
  \/ RecordDomainQuery \/ GetMostSpecific \/ Looking \/ Forward
  \/ Report \/ Read \/ ReportTopDomains

StatsSpec == StatsInit /\ [][StatsNext]_allVars

-----------------------------------------------------------------------------
Asked(n) == Cardinality({i \in DOMAIN asked : asked[i].labels = n})

AskedNames == {asked[i].labels : i \in DOMAIN asked}

\* Of two names the one asked for more often is first, and of two with the same
\* number the one first in the alphabet.
Outranks(x, y) ==
  \/ Asked(x) > Asked(y)
  \/ Asked(x) = Asked(y) /\ Rank(x) < Rank(y)

TopOfAsked(t) ==
  LET Listed == {t[i].name : i \in DOMAIN t}
  IN /\ Listed \subseteq AskedNames
     /\ Len(t) = Cardinality(Listed)
     /\ Len(t) = Limit \/ Listed = AskedNames
     /\ \A i \in DOMAIN t :
          /\ t[i].count = Asked(t[i].name)
          /\ \A n \in AskedNames : Outranks(n, t[i].name) =>
               \E j \in 1 .. i - 1 : t[j].name = n

\* Every report of the top domains lists those that were asked for most, in
\* whatever spelling, with the number of times, as many as there is room for.
TopIsTop == [][ReportTopDomains => TopOfAsked(top')]_allVars

\* A report never counts more overridden queries than queries, although it is
\* no snapshot: queries go on between its readings.
ReportConsistent ==
  DOMAIN report.read = {"override", "total"} =>
    report.read["override"] <= report.read["total"]

=============================================================================
