------------------------------- MODULE DomainMap -------------------------------
(***************************************************************************)
(* internal/dnsserver/domainmap.go: the server overrides.  The map is      *)
(* built once from the -dns_server_for_domain flag and then looked up for  *)
(* every request.                                                          *)
(*                                                                         *)
(* A domain is a spelling of a sequence of labels, which are listed from   *)
(* the root down, so that the root is <<>> and a parent is a prefix.       *)
(* dns.CanonicalName takes every spelling (letter case, final dot) of a    *)
(* name to the canonical one.                                              *)
(***************************************************************************)
EXTENDS Naturals, Sequences, FiniteSets

CONSTANTS
  Label,
  Name,       \* the names considered: sequences of labels
  Value,      \* what domains are mapped to
  None,
  MaxItems    \* bound: comma-separated items in the flag

ASSUME DomainMapAssumption ==
  /\ Name \subseteq Seq(Label)
  /\ None \notin Value
  /\ MaxItems \in Nat

Domain == [labels : Name, spelling : {"canonical", "other"}]

VARIABLES
  pc,         \* "parse", "invalid", "ready", "loop" or "done"
  items,      \* history: the "domain:value" items parsed so far
  m,          \* the DomainMap: a function on the domains that are set
  domain,     \* argument of GetMostSpecific
  todo,       \* keys that its loop has not visited
  mc, mv, ok  \* its local variables

vars == <<pc, items, m, domain, todo, mc, mv, ok>>

CanonicalName(d) == [d EXCEPT !.spelling = "canonical"]

\* dns.IsSubDomain ignores the spelling, dns.CountLabel(".") is 0.
IsSubDomain(parent, child) ==
  /\ Len(parent.labels) <= Len(child.labels)
  /\ \A i \in 1..Len(parent.labels) : parent.labels[i] = child.labels[i]

CountLabel(d) == Len(d.labels)

\* DomainMap.Set: the map with domain d set to v.
Set(f, d, v) ==
  LET key == CanonicalName(d)
  IN [k \in DOMAIN f \cup {key} |-> IF k = key THEN v ELSE f[k]]

-----------------------------------------------------------------------------
Init ==
  /\ pc = "parse"
  /\ items = <<>>
  /\ m = [k \in {} |-> None]
  /\ domain = None
  /\ todo = {}
  /\ mc = 0 /\ mv = None /\ ok = FALSE

(***************************************************************************)
(* DomainMapFromString, one item of the flag at a time (empty items are    *)
(* skipped and change nothing).                                            *)
(***************************************************************************)
ParseItem(d, v) ==
  /\ pc = "parse" /\ Len(items) < MaxItems
  /\ m' = Set(m, d, v)
  /\ items' = Append(items, [labels |-> d.labels, value |-> v])
  /\ UNCHANGED <<pc, domain, todo, mc, mv, ok>>

\* An item without a ':': there is no map, and dnss exits.
ParseError ==
  /\ pc = "parse" /\ Len(items) < MaxItems
  /\ pc' = "invalid"
  /\ m' = [k \in {} |-> None]
  /\ UNCHANGED <<items, domain, todo, mc, mv, ok>>

ParseEnd ==
  /\ pc = "parse"
  /\ pc' = "ready"
  /\ UNCHANGED <<items, m, domain, todo, mc, mv, ok>>

(***************************************************************************)
(* GetMostSpecific, with one step per iteration over the map.              *)
(***************************************************************************)
Lookup(d) ==
  /\ pc = "ready"
  /\ pc' = "loop"
  /\ domain' = CanonicalName(d)
  /\ todo' = DOMAIN m
  /\ mc' = 0 /\ mv' = None /\ ok' = FALSE
  /\ UNCHANGED <<items, m>>

\* The first match wins
Better_AnyMatch(d) == ~ok

Better(d) == CountLabel(d) > mc

\* Go iterates over a map in any order.
Iterate(d) ==
  /\ pc = "loop" /\ d \in todo
  /\ todo' = todo \ {d}
  /\ IF IsSubDomain(d, domain) /\ Better(d)
       THEN mc' = CountLabel(d) /\ mv' = m[d] /\ ok' = TRUE
       ELSE UNCHANGED <<mc, mv, ok>>
  /\ UNCHANGED <<pc, items, m, domain>>

LoopEnd_FirstMatch ==
  /\ pc = "loop" /\ (todo = {} \/ ok)
  /\ pc' = "done"
  /\ UNCHANGED <<items, m, domain, todo, mc, mv, ok>>

LoopEnd ==
  /\ pc = "loop" /\ todo = {}
  /\ pc' = "done"
  /\ UNCHANGED <<items, m, domain, todo, mc, mv, ok>>

Return ==
  /\ pc = "done"
  /\ pc' = "ready"
  /\ domain' = None /\ mc' = 0 /\ mv' = None /\ ok' = FALSE
  /\ UNCHANGED <<items, m, todo>>

Next ==
  \/ \E d \in Domain, v \in Value : ParseItem(d, v)
  \/ ParseError \/ ParseEnd
  \/ \E d \in Domain : Lookup(d)
  \/ \E d \in todo : Iterate(d)
  \/ LoopEnd \/ Return

Spec == Init /\ [][Next]_vars

-----------------------------------------------------------------------------
\* Types of the variables.
TypeOK ==
  /\ pc \in {"parse", "invalid", "ready", "loop", "done"}
  /\ items \in Seq([labels : Name, value : Value])
  /\ DOMAIN m \subseteq Domain
  /\ m \in [DOMAIN m -> Value]
  /\ domain \in Domain \cup {None}
  /\ todo \subseteq DOMAIN m /\ (pc # "loop" => todo = {})
  /\ mc \in Nat
  /\ mv \in Value \cup {None}
  /\ ok \in BOOLEAN

\* The entries that the domain being looked up is, or is below.
Matches == {d \in DOMAIN m : IsSubDomain(d, domain)}

Root(d) == d.labels = <<>>

\* The order in which Go visits the map makes no difference: GetMostSpecific
\* finds the longest of the matching entries below the root if there are any,
\* and nothing otherwise.
MostSpecific ==
  pc = "done" =>
    \/ /\ ok
       /\ \E d \in Matches : /\ mv = m[d] /\ ~Root(d)
                             /\ \A e \in Matches : CountLabel(e) <= CountLabel(d)
    \/ ~ok /\ \A d \in Matches : Root(d)

\* The state of the loop: MostSpecific for the entries visited.
LoopInvariant ==
  pc \in {"loop", "done"} =>
    /\ domain \in Domain
    /\ LET Seen == {d \in DOMAIN m \ todo : IsSubDomain(d, domain)}
       IN /\ \A d \in Seen : CountLabel(d) <= mc
          /\ ok => mc > 0 /\ \E d \in Seen : CountLabel(d) = mc /\ mv = m[d]
          /\ ~ok => mc = 0

\* GetMostSpecific's promise for all entries, that of the root included: "we
\* pick the map entry that is closest to the domain".
ClosestEntry ==
  pc = "done" /\ Matches # {} =>
    ok /\ \E d \in Matches : /\ mv = m[d]
                             /\ \A e \in Matches : CountLabel(e) <= CountLabel(d)

=============================================================================
