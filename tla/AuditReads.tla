----------------------------- MODULE AuditReads -----------------------------
(***************************************************************************)
(* list_events and get_event of the core, over any store that keeps the    *)
(* promise of AuditLog: rows only ever appear.  Consumers page through the *)
(* log newest first while writers append to it - at any occurred_at, which *)
(* the writer chooses - and ask for single events by id, within the scope  *)
(* ceiling that reader_scopes sets for them.                               *)
(*                                                                         *)
(* A scan is the sequence of list_events calls a consumer makes, each with *)
(* the next_cursor of the one before and a limit of its choice.  Of the    *)
(* filters the scope and the range of occurred_at are kept: the others are *)
(* equalities that are treated as the scope's are.                         *)
(***************************************************************************)
EXTENDS Naturals, FiniteSets

CONSTANTS
  Callers,          \* Plugin Instances that can invoke the Capability
  ReaderInstances,  \* the configured reader_instances
  ReaderScopes,     \* the configured reader_scopes: reader -> set of scopes
  Events,           \* the events that may ever be recorded
  Wirable,          \* those whose projection fits the wire
  Absent,           \* a filter that was not supplied, or a scope not recorded
  Queries,          \* the filters consumers send: [scope, after, before]
  Limits            \* the limits they send with them

ASSUME ReadsAssumption ==
  /\ ReaderInstances \subseteq Callers
  /\ DOMAIN ReaderScopes \subseteq ReaderInstances
  /\ \A c \in DOMAIN ReaderScopes : \A s \in ReaderScopes[c] :
       s = <<s[1], s[2]>> /\ Absent \notin {s[1], s[2]}
  /\ \A e \in Events : e # Absent /\ e.scope = <<e.scope[1], e.scope[2]>>
  /\ \A e \in Events : e.at \in Nat /\ e.id \in Nat
  /\ \A e, f \in Events : e.id = f.id => e = f
  /\ IsFiniteSet(Events)
  /\ \A q \in Queries : {q.after, q.before} \subseteq Nat \cup {Absent}
  /\ Limits \subseteq Nat \ {0}

VARIABLES
  rows,      \* the recorded events
  scan,      \* consumer -> its scan
  lookup     \* consumer -> its last get_event and the answer

vars == <<rows, scan, lookup>>

-----------------------------------------------------------------------------
(* The policy. *)

AuthorizedReader(c) == c \in ReaderInstances

\* (mutant: the type alone admits a scope)
AdmitsScopeType(c, scope) ==
  c \in DOMAIN ReaderScopes => \E s \in ReaderScopes[c] : s[1] = scope[1]

\* A reader without an entry is not limited; one with an entry needs exactly
\* one of its scopes.
ReaderAdmitsScope(c, scope) ==
  c \in DOMAIN ReaderScopes => scope \in ReaderScopes[c]

-----------------------------------------------------------------------------
(* The order of the log and its pages. *)

\* order by occurred_at desc, id desc
Newer(e, f) == e.at > f.at \/ (e.at = f.at /\ e.id > f.id)

\* (mutants: a cursor that keeps its whole instant, one that skips its instant, and
\* one that compares nothing but ids)
NoLater(e, cursor) == cursor = Absent \/ e.at <= cursor.at
StrictlyEarlier(e, cursor) == cursor = Absent \/ e.at < cursor.at
LowerId(e, cursor) == cursor = Absent \/ e.id < cursor.id

AfterCursor(e, cursor) == cursor = Absent \/ Newer(cursor, e)

MatchesScope(e, scope) == \A i \in {1, 2} : scope[i] # Absent => e.scope[i] = scope[i]

InRange(e, q) ==
  /\ q.after # Absent => e.at >= q.after
  /\ q.before # Absent => e.at <= q.before

Matching(q, cursor) ==
  {e \in rows : MatchesScope(e, q.scope) /\ InRange(e, q) /\ AfterCursor(e, cursor)}

\* The n newest events of a set.
Newest(n, s) == {e \in s : Cardinality({f \in s : Newer(f, e)}) < n}

-----------------------------------------------------------------------------
(* Writers and consumers. *)

\* EventFilter::from_request refuses a range that ends before it begins.
ValidQuery(q) == Absent \notin {q.after, q.before} => q.after <= q.before

Everything == [scope |-> <<Absent, Absent>>, after |-> Absent, before |-> Absent]

Idle == [phase |-> "idle", query |-> Everything, cursor |-> Absent,
         page |-> {}, seen |-> {}, start |-> {}]

Append(e) ==
  /\ rows' = rows \cup {e}
  /\ UNCHANGED <<scan, lookup>>

\* The first list_events of a scan; admission and the query are decided on
\* before the store is asked.  start remembers what the scan has to find.
BeginScan(c, q) ==
  /\ scan[c].phase # "paging"
  /\ AuthorizedReader(c)
  /\ ReaderAdmitsScope(c, q.scope)
  /\ ValidQuery(q)
  /\ scan' = [scan EXCEPT ![c] =
       [phase |-> "paging", query |-> q, cursor |-> Absent,
        page |-> {}, seen |-> {}, start |-> Matching(q, Absent)]]
  /\ UNCHANGED <<rows, lookup>>

\* (mutant: the cursor is taken before the extra row is dropped)
CursorBeforeTruncation(next, found, limit) ==
  IF Cardinality(found) > limit
  THEN next \in found /\ \A e \in found : e = next \/ Newer(e, next)
  ELSE next = Absent

\* The next cursor is the last row of a full page that has a successor.
NextCursor(next, found, limit) ==
  IF Cardinality(found) > limit
  THEN next \in Newest(limit, found) /\ \A e \in Newest(limit, found) : e = next \/ Newer(e, next)
  ELSE next = Absent

\* One list_events call: limit + 1 rows are read and limit are kept.  One row
\* the wire refuses fails the whole page.
ListEvents(c, limit) ==
  /\ scan[c].phase = "paging"
  /\ LET found == Newest(limit + 1, Matching(scan[c].query, scan[c].cursor))
         kept  == Newest(limit, found)
     IN  IF kept \subseteq Wirable
         THEN \E next \in found \cup {Absent} :
                /\ NextCursor(next, found, limit)
                /\ scan' = [scan EXCEPT
                     ![c].phase  = IF next = Absent THEN "done" ELSE "paging",
                     ![c].cursor = next,
                     ![c].page   = kept,
                     ![c].seen   = @ \cup kept]
         ELSE scan' = [scan EXCEPT ![c].phase = "failed"]
  /\ UNCHANGED <<rows, lookup>>

\* The consumer asks for the same page again.
RetryPage(c) ==
  /\ scan[c].phase = "failed"
  /\ scan' = [scan EXCEPT ![c].phase = "paging"]
  /\ UNCHANGED <<rows, lookup>>

\* (mutant: the row is projected before the ceiling is checked)
GetOutcomeProjectingFirst(c, id) ==
  LET found == {e \in rows : e.id = id}
  IN  IF ~ AuthorizedReader(c) THEN "unauthorized"
      ELSE IF found = {} THEN "not_found"
      ELSE IF \E e \in found : e \notin Wirable THEN "failed"
      ELSE IF \E e \in found : ~ ReaderAdmitsScope(c, e.scope) THEN "not_found"
      ELSE "found"

\* get_event looks the row up, then applies the ceiling to the row's own scope -
\* a row outside it and no row are answered alike - then projects it.
GetOutcome(c, id) ==
  LET found == {e \in rows : e.id = id}
  IN  IF ~ AuthorizedReader(c) THEN "unauthorized"
      ELSE IF \A e \in found : ~ ReaderAdmitsScope(c, e.scope) THEN "not_found"
      ELSE IF \E e \in found : e \notin Wirable THEN "failed"
      ELSE "found"

GetEvent(c, id) ==
  /\ lookup' = [lookup EXCEPT ![c] = [id |-> id, outcome |-> GetOutcome(c, id)]]
  /\ UNCHANGED <<rows, scan>>

-----------------------------------------------------------------------------

Init ==
  /\ rows = {}
  /\ scan = [c \in Callers |-> Idle]
  /\ lookup = [c \in Callers |-> [id |-> 0, outcome |-> "none"]]

Next ==
  \/ \E e \in Events \ rows : Append(e)
  \/ \E c \in Callers, q \in Queries : BeginScan(c, q)
  \/ \E c \in Callers, limit \in Limits : ListEvents(c, limit)
  \/ \E c \in Callers : RetryPage(c)
  \/ \E c \in Callers, id \in {e.id : e \in Events} : GetEvent(c, id)

Spec == Init /\ [][Next]_vars

\* A consumer that is paging asks for the next page.
FairSpec == Spec /\ \A c \in Callers : WF_vars(\E limit \in Limits : ListEvents(c, limit))

-----------------------------------------------------------------------------
(* Properties. *)

Phases == {"idle", "paging", "failed", "done"}
Answers == {"none", "unauthorized", "not_found", "failed", "found"}

TypeOK ==
  /\ rows \subseteq Events
  /\ scan \in [Callers -> [phase : Phases, query : Queries \cup {Everything},
                           cursor : Events \cup {Absent}, page : SUBSET Events,
                           seen : SUBSET Events, start : SUBSET Events]]
  /\ \A c \in Callers : /\ scan[c].cursor # Absent => scan[c].cursor \in scan[c].seen
                        /\ scan[c].phase = "done" => scan[c].cursor = Absent
  /\ lookup \in [Callers -> [id : {0} \cup {e.id : e \in Events}, outcome : Answers]]

\* What a consumer has been shown, by the pages of its scan or by its lookup.
Shown(c) ==
  scan[c].seen \cup {e \in rows : lookup[c].outcome = "found" /\ e.id = lookup[c].id}

\* What a reader is shown, by list or get, lies within its ceiling, and nothing
\* is shown to an Instance that is not a reader.
CeilingHolds ==
  \A c \in Callers : \A e \in Shown(c) :
    /\ c \in ReaderInstances
    /\ c \in DOMAIN ReaderScopes => e.scope \in ReaderScopes[c]

\* Guessing the id of an event outside the ceiling is answered as if the event
\* did not exist, also when that event could not have been projected.
DeniedLooksAbsent ==
  \A c \in ReaderInstances, e \in Events :
    lookup[c].id = e.id /\ c \in DOMAIN ReaderScopes /\ e.scope \notin ReaderScopes[c]
      => lookup[c].outcome \in {"none", "not_found"}

\* A scan returns nothing but events of the log that match what was asked for,
\* and one that reaches the last page has returned every matching event that
\* was recorded when it began, although writers appended between its pages.
ScanIsExact ==
  \A c \in Callers :
    /\ scan[c].seen \subseteq Matching(scan[c].query, Absent)
    /\ scan[c].phase = "done" => scan[c].start \subseteq scan[c].seen

\* Every page is older than all the pages before it: the log is returned newest
\* first and no event is returned twice.
PagesDescend ==
  [][\A c \in Callers : scan[c].phase = "paging" /\ scan'[c].phase \in {"paging", "done"} =>
       \/ scan'[c] = scan[c]
       \/ \A e \in scan'[c].page, f \in scan[c].seen : Newer(f, e)]_scan

\* A scan ends, at the last page or at a row the wire refuses, even though the
\* log keeps growing.
ScansEnd == \A c \in Callers : scan[c].phase = "paging" ~> scan[c].phase # "paging"
=============================================================================
