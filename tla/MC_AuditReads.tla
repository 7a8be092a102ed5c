--------------------------- MODULE MC_AuditReads ---------------------------
(* Two scopes, an unscoped event, two events at one instant and one that the
   wire refuses; a reader limited to one scope and one that is not limited. *)
EXTENDS AuditReads

CONSTANTS console, management, support

Ev(id, at, kind, scopeId) == [id |-> id, at |-> at, scope |-> <<kind, scopeId>>]

scopeA == <<"deployment", "a">>
MCEvents == { Ev(1, 1, "deployment", "a"), Ev(2, 1, "deployment", "a"),
              Ev(3, 2, "deployment", "b"), Ev(4, 1, Absent, Absent),
              Ev(5, 0, "deployment", "a") }
MCCallers == {console, management, support}
\* For the ceilings: an event of each scope, an unscoped one, and one of the
\* other deployment that can be projected.
CeilingEvents == {e \in MCEvents : e.id \in {1, 3, 4}} \cup {Ev(6, 3, "deployment", "b")}
\* One event cannot be projected: of the other deployment, or the oldest.
MCWirable == {e \in MCEvents \cup CeilingEvents : e.id # 3}
PagingWirable == {e \in MCEvents : e.id # 5}

MCReaders == {console, management}
MCReaderScopes == [c \in {management} |-> {scopeA}]
\* One reader without a ceiling pages through everything.
PagingCallers == {console}
NoReaderScopes == [c \in {} |-> {}]
Query(scope, after, before) == [scope |-> scope, after |-> after, before |-> before]
NoScope == <<Absent, Absent>>

\* Everything, one scope from an instant on, a closed range, and a range that
\* ends before it begins.
PagingQueries == { Query(NoScope, Absent, Absent), Query(scopeA, 1, Absent),
                   Query(NoScope, 1, 2), Query(NoScope, 2, 1) }

CeilingQueries == { Query(scope, Absent, Absent) :
  scope \in {NoScope, <<"deployment", Absent>>, scopeA, <<"deployment", "b">>} }
=============================================================================
