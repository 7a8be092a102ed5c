-------------------------- MODULE AuditReads_proofs --------------------------
(***************************************************************************)
(* Proofs about AuditReads, for any set of events, any policy, any filters *)
(* and any limits: the ceilings hold, and a scan returns what was there    *)
(* when it began, newest first, each event once.                           *)
(***************************************************************************)
EXTENDS AuditReads, FiniteSetTheorems, WellFoundedInduction, TLAPS

-----------------------------------------------------------------------------
(* The order of the log. *)

\* Newer is a strict total order on the events: ids are unique.
LEMMA NewerIsTotalOrder ==
  ASSUME NEW e \in Events, NEW f \in Events, NEW g \in Events
  PROVE  /\ ~ Newer(e, e)
         /\ Newer(e, f) /\ Newer(f, g) => Newer(e, g)
         /\ e = f \/ Newer(e, f) \/ Newer(f, e)
<1>1. /\ e.at \in Nat /\ f.at \in Nat /\ g.at \in Nat
      /\ e.id \in Nat /\ f.id \in Nat /\ g.id \in Nat
      /\ e.id = f.id => e = f
  BY ReadsAssumption
<1> QED
  BY <1>1 DEF Newer

\* The members of a set that come before an event.
Above(e, s) == {f \in s : Newer(f, e)}

\* Sets of events are finite, and so are the events above one of them.
LEMMA AboveFinite ==
  ASSUME NEW s \in SUBSET Events, NEW e \in Events
  PROVE  /\ IsFiniteSet(s) /\ Cardinality(s) \in Nat
         /\ IsFiniteSet(Above(e, s)) /\ Cardinality(Above(e, s)) \in Nat
<1>1. IsFiniteSet(s)
  BY FS_Subset, ReadsAssumption
<1>2. Above(e, s) \in SUBSET s
  BY DEF Above
<1>3. IsFiniteSet(Above(e, s))
  BY <1>1, <1>2, FS_Subset
<1> QED
  BY <1>1, <1>3, FS_CardinalityType

\* An event above another has fewer events above it.
LEMMA AboveShrinks ==
  ASSUME NEW s \in SUBSET Events, NEW e \in s, NEW f \in s, Newer(e, f)
  PROVE  /\ Above(e, s) \subseteq Above(f, s)
         /\ Above(e, s) # Above(f, s)
         /\ Cardinality(Above(e, s)) <= Cardinality(Above(f, s))
<1>1. Above(e, s) \subseteq Above(f, s)
  BY NewerIsTotalOrder DEF Above
<1>2. e \in Above(f, s) /\ e \notin Above(e, s)
  BY NewerIsTotalOrder DEF Above
<1>3. Cardinality(Above(e, s)) <= Cardinality(Above(f, s))
  BY <1>1, AboveFinite, FS_Subset
<1> QED
  BY <1>1, <1>2, <1>3

\* A page has no gap: what lies above one of its events is on it too.
LEMMA NewestHasNoGap ==
  ASSUME NEW s \in SUBSET Events, NEW n \in Nat,
         NEW f \in Newest(n, s), NEW e \in s, Newer(e, f)
  PROVE  e \in Newest(n, s)
<1>1. f \in s /\ Cardinality(Above(f, s)) < n
  BY DEF Newest, Above
<1>2. Cardinality(Above(e, s)) <= Cardinality(Above(f, s))
  BY <1>1, AboveShrinks
<1>3. Cardinality(Above(e, s)) \in Nat /\ Cardinality(Above(f, s)) \in Nat
  BY <1>1, AboveFinite
<1>4. Cardinality(Above(e, s)) < n
  BY <1>1, <1>2, <1>3
<1> QED
  BY <1>4 DEF Newest, Above

\* A page takes all of a set that is not larger.
LEMMA NewestTakesSmallSets ==
  ASSUME NEW s \in SUBSET Events, NEW n \in Nat, Cardinality(s) <= n
  PROVE  Newest(n, s) = s
<1>1. ASSUME NEW e \in s
      PROVE  Cardinality(Above(e, s)) < n
  <2>1. Above(e, s) \in SUBSET s /\ e \notin Above(e, s)
    BY NewerIsTotalOrder DEF Above
  <2>2. /\ Cardinality(Above(e, s)) <= Cardinality(s)
        /\ Cardinality(Above(e, s)) # Cardinality(s)
    BY <2>1, AboveFinite, FS_Subset
  <2> QED
    BY <2>2, AboveFinite
<1> QED
  BY <1>1 DEF Newest, Above

\* A query for one row more than the page that comes back without that row has
\* returned everything: the highest event it missed would have all of n + 1
\* events above it, and they were all returned.
LEMMA ShortPageIsLast ==
  ASSUME NEW s \in SUBSET Events, NEW n \in Nat, Cardinality(Newest(n + 1, s)) <= n
  PROVE  Newest(n + 1, s) = s
<1> DEFINE page == Newest(n + 1, s)
           missed == s \ page
           above == {Above(e, s) : e \in missed}
<1>1. page \in SUBSET s
  BY DEF Newest
<1>2. SUFFICES ASSUME missed # {} PROVE FALSE
  BY <1>1
<1>3. above \subseteq FiniteSubsetsOf(Events) /\ above # {}
  BY <1>2, AboveFinite DEF Above, FiniteSubsetsOf
<1>4. PICK a \in above : \A b \in above : <<b, a>> \notin StrictSubsetOrdering(Events)
  <2>1. IsWellFoundedOn(StrictSubsetOrdering(Events), FiniteSubsetsOf(Events))
    BY FS_StrictSubsetOrderingWellFounded
  <2> HIDE DEF above
  <2> QED
    BY <1>3, <2>1, WFMin
<1>5. PICK e \in missed : a = Above(e, s)
  BY <1>4
<1>6. ASSUME NEW f \in Above(e, s)
      PROVE  f \in page
  <2>1. f \in s /\ Newer(f, e)
    BY <1>6 DEF Above
  <2>2. Above(f, s) \subseteq Above(e, s) /\ Above(f, s) # Above(e, s)
    BY <2>1, <1>5, AboveShrinks
  <2>3. <<Above(f, s), a>> \in StrictSubsetOrdering(Events)
    BY <1>5, <2>2 DEF StrictSubsetOrdering, Above
  <2> QED
    BY <1>4, <2>1, <2>3
<1>7. Cardinality(Above(e, s)) <= Cardinality(page)
  <2>1. Above(e, s) \in SUBSET page
    BY <1>6
  <2>2. IsFiniteSet(page)
    BY <1>1, AboveFinite
  <2> QED
    BY <2>1, <2>2, FS_Subset
<1>8. ~ (Cardinality(Above(e, s)) < n + 1)
  BY <1>5 DEF Newest, Above
<1>9. Cardinality(Above(e, s)) \in Nat /\ Cardinality(page) \in Nat
  BY <1>1, <1>5, AboveFinite
<1> QED
  BY <1>7, <1>8, <1>9

-----------------------------------------------------------------------------
(* One page. *)

\* What list_events returns for a set of matching events: all of them when
\* there is no next cursor, and otherwise those from the cursor upwards.
LEMMA PageOfMatching ==
  ASSUME NEW s \in SUBSET Events, NEW limit \in Limits, NEW next,
         NextCursor(next, Newest(limit + 1, s), limit)
  PROVE  LET found == Newest(limit + 1, s)
             kept  == Newest(limit, found)
         IN  /\ kept \subseteq s
             /\ next = Absent => kept = s
             /\ next # Absent => /\ next \in kept
                                 /\ \A e \in kept : e = next \/ Newer(e, next)
                                 /\ \A e \in s \ kept : Newer(next, e)
<1> DEFINE found == Newest(limit + 1, s)
           kept  == Newest(limit, found)
<1>1. limit \in Nat /\ limit + 1 \in Nat
  BY ReadsAssumption
<1>2. found \in SUBSET s /\ kept \in SUBSET found
  BY DEF Newest
<1>3. found \in SUBSET Events /\ Cardinality(found) \in Nat
  BY <1>2, AboveFinite, FS_Subset, FS_CardinalityType, ReadsAssumption
<1>4. CASE Cardinality(found) <= limit
  <2>1. next = Absent
    BY <1>1, <1>3, <1>4 DEF NextCursor
  <2>2. found = s
    BY <1>1, <1>4, ShortPageIsLast
  <2>3. kept = found
    BY <1>1, <1>3, <1>4, NewestTakesSmallSets
  <2> QED
    BY <2>1, <2>2, <2>3
<1>5. CASE Cardinality(found) > limit
  <2>1. next \in kept /\ \A e \in kept : e = next \/ Newer(e, next)
    BY <1>5 DEF NextCursor
  <2>2. next # Absent
    BY <1>2, <2>1, ReadsAssumption
  <2>3. ASSUME NEW e \in s \ kept
        PROVE  Newer(next, e)
    <3>1. e # next
      BY <2>1
    <3>2. ~ Newer(e, next)
      <4>1. CASE e \in found
        BY <1>1, <1>3, <2>1, <2>3, <4>1, NewestHasNoGap
      <4>2. CASE e \notin found
        BY <1>1, <1>2, <2>1, <2>3, <4>2, NewestHasNoGap
      <4> QED
        BY <4>1, <4>2
    <3> QED
      BY <1>2, <2>1, <3>1, <3>2, NewerIsTotalOrder
  <2> QED
    BY <1>2, <2>1, <2>2, <2>3
<1> QED
  BY <1>1, <1>3, <1>4, <1>5

-----------------------------------------------------------------------------
(* The invariant. *)

Admitted(c, e) ==
  /\ c \in ReaderInstances
  /\ c \in DOMAIN ReaderScopes => e.scope \in ReaderScopes[c]

\* A scan was admitted for its scope, and what it has returned, like what a
\* lookup returned, lies within the ceiling.
AdmittedOnly ==
  \A c \in Callers :
    /\ scan[c].phase \in {"paging", "failed"} =>
         AuthorizedReader(c) /\ ReaderAdmitsScope(c, scan[c].query.scope)
    /\ \A e \in scan[c].seen : Admitted(c, e)
    /\ lookup[c].outcome = "found" => \E e \in rows : e.id = lookup[c].id /\ Admitted(c, e)

\* The cursor is the oldest event a scan has returned.
CursorIsOldest ==
  \A c \in Callers : scan[c].phase \in {"paging", "failed"} =>
    IF scan[c].cursor = Absent
    THEN scan[c].seen = {}
    ELSE \A f \in scan[c].seen : f = scan[c].cursor \/ Newer(f, scan[c].cursor)

\* An event of the start that a scan has not returned is still ahead of it.
NothingSkipped ==
  \A c \in Callers : scan[c].phase \in {"paging", "failed"} =>
    scan[c].start \subseteq scan[c].seen \cup Matching(scan[c].query, scan[c].cursor)

IInv ==
  TypeOK /\ AdmittedOnly /\ CursorIsOldest /\ NothingSkipped /\ ScanIsExact
         /\ DeniedLooksAbsent

LEMMA InitIInv == Init => IInv
<1> SUFFICES ASSUME Init PROVE IInv
  OBVIOUS
<1>1. \A c \in Callers : scan[c] = Idle /\ lookup[c] = [id |-> 0, outcome |-> "none"]
  BY DEF Init
<1>2. TypeOK
  BY <1>1 DEF Init, TypeOK, Idle, Phases, Answers
<1>3. AdmittedOnly
  BY <1>1 DEF Idle, AdmittedOnly
<1>4. CursorIsOldest /\ NothingSkipped /\ ScanIsExact
  BY <1>1 DEF Idle, CursorIsOldest, NothingSkipped, ScanIsExact
<1>5. DeniedLooksAbsent
  BY <1>1, ReadsAssumption DEF DeniedLooksAbsent
<1> QED
  BY <1>2, <1>3, <1>4, <1>5 DEF IInv

\* Whoever is admitted for a scope is admitted for the events it matches.
LEMMA AdmittedScope ==
  ASSUME NEW c \in Callers, NEW q, NEW e \in Events,
         AuthorizedReader(c), ReaderAdmitsScope(c, q.scope), MatchesScope(e, q.scope)
  PROVE  Admitted(c, e)
<1>1. c \in ReaderInstances
  BY DEF AuthorizedReader
<1>2. ASSUME c \in DOMAIN ReaderScopes
      PROVE  e.scope \in ReaderScopes[c]
  <2>1. q.scope \in ReaderScopes[c]
    BY <1>2 DEF ReaderAdmitsScope
  <2>2. q.scope = <<q.scope[1], q.scope[2]>> /\ Absent \notin {q.scope[1], q.scope[2]}
    BY <1>2, <2>1, ReadsAssumption
  <2>3. e.scope[1] = q.scope[1] /\ e.scope[2] = q.scope[2]
    BY <2>2 DEF MatchesScope
  <2> QED
    BY <2>1, <2>2, <2>3, ReadsAssumption
<1> QED
  BY <1>1, <1>2 DEF Admitted

LEMMA AppendKeepsIInv ==
  ASSUME IInv, NEW e \in Events, Append(e)
  PROVE  IInv'
<1> USE DEF IInv
<1>1. rows' = rows \cup {e} /\ scan' = scan /\ lookup' = lookup
  BY DEF Append
<1>2. TypeOK'
  BY <1>1 DEF TypeOK
<1>3. AdmittedOnly' /\ CursorIsOldest' /\ DeniedLooksAbsent'
  BY <1>1 DEF AdmittedOnly, Admitted, AuthorizedReader, ReaderAdmitsScope, CursorIsOldest,
              Newer, DeniedLooksAbsent
<1>4. \A q, cursor : Matching(q, cursor) \subseteq Matching(q, cursor)'
  BY <1>1 DEF Matching, MatchesScope, InRange, AfterCursor, Newer
<1>5. NothingSkipped' /\ ScanIsExact'
  BY <1>1, <1>4 DEF NothingSkipped, ScanIsExact
<1> QED
  BY <1>2, <1>3, <1>5
LEMMA BeginScanKeepsIInv ==
  ASSUME IInv, NEW c \in Callers, NEW q \in Queries, BeginScan(c, q)
  PROVE  IInv'
<1> USE DEF IInv
<1> DEFINE begun == [phase |-> "paging", query |-> q, cursor |-> Absent,
                     page |-> {}, seen |-> {}, start |-> Matching(q, Absent)]
<1>1. /\ AuthorizedReader(c) /\ ReaderAdmitsScope(c, q.scope)
      /\ scan' = [scan EXCEPT ![c] = begun]
      /\ rows' = rows /\ lookup' = lookup
  BY DEF BeginScan
<1>2. \A d \in Callers : scan'[d] = IF d = c THEN begun ELSE scan[d]
  BY <1>1 DEF TypeOK
<1>3. TypeOK'
  <2>1. Matching(q, Absent) \subseteq Events
    BY DEF Matching, TypeOK
  <2>2. begun \in [phase : Phases, query : Queries \cup {Everything},
                   cursor : Events \cup {Absent}, page : SUBSET Events,
                   seen : SUBSET Events, start : SUBSET Events]
    BY <2>1 DEF Phases
  <2> HIDE DEF begun
  <2>3. begun.cursor = Absent
    BY DEF begun
  <2> QED
    BY <1>1, <1>2, <2>2, <2>3 DEF TypeOK
<1>4. \A r, cursor : Matching(r, cursor)' = Matching(r, cursor)
  BY <1>1 DEF Matching
<1>5. AdmittedOnly'
  BY <1>1, <1>2 DEF AdmittedOnly, Admitted, AuthorizedReader, ReaderAdmitsScope
<1>6. CursorIsOldest'
  BY <1>2 DEF CursorIsOldest
<1>7. NothingSkipped'
  BY <1>2, <1>4 DEF NothingSkipped
<1>8. ScanIsExact'
  BY <1>2, <1>4 DEF ScanIsExact
<1>9. DeniedLooksAbsent'
  BY <1>1 DEF DeniedLooksAbsent
<1> QED
  BY <1>3, <1>5, <1>6, <1>7, <1>8, <1>9

\* A page that the wire refuses, or that is asked for again, moves nothing but
\* the phase.
LEMMA PhaseKeepsIInv ==
  ASSUME IInv, NEW c \in Callers, NEW phase \in {"paging", "failed"},
         scan[c].phase \in {"paging", "failed"},
         scan' = [scan EXCEPT ![c].phase = phase], UNCHANGED <<rows, lookup>>
  PROVE  IInv'
<1> USE DEF IInv
<1>1. \A d \in Callers : /\ scan'[d].phase = IF d = c THEN phase ELSE scan[d].phase
                         /\ scan'[d].query = scan[d].query
                         /\ scan'[d].cursor = scan[d].cursor
                         /\ scan'[d].seen = scan[d].seen
                         /\ scan'[d].start = scan[d].start
  BY DEF TypeOK
<1>2. TypeOK'
  <2>1. scan' \in [Callers -> [phase : Phases, query : Queries \cup {Everything},
                              cursor : Events \cup {Absent}, page : SUBSET Events,
                              seen : SUBSET Events, start : SUBSET Events]]
    <3>1. [scan[c] EXCEPT !.phase = phase] \in
            [phase : Phases, query : Queries \cup {Everything},
             cursor : Events \cup {Absent}, page : SUBSET Events,
             seen : SUBSET Events, start : SUBSET Events]
      BY DEF TypeOK, Phases
    <3> QED
      BY <3>1 DEF TypeOK
  <2> QED
    BY <1>1, <2>1 DEF TypeOK
<1>3. \A r, cursor : Matching(r, cursor)' = Matching(r, cursor)
  BY DEF Matching
<1>4. AdmittedOnly' /\ CursorIsOldest' /\ NothingSkipped' /\ ScanIsExact' /\ DeniedLooksAbsent'
  BY <1>1, <1>3 DEF AdmittedOnly, CursorIsOldest, NothingSkipped, ScanIsExact, DeniedLooksAbsent
<1> QED
  BY <1>2, <1>4

LEMMA GetEventKeepsIInv ==
  ASSUME IInv, NEW c \in Callers, NEW id \in {e.id : e \in Events}, GetEvent(c, id)
  PROVE  IInv'
<1> USE DEF IInv
<1>1. /\ scan' = scan /\ rows' = rows
      /\ \A d \in Callers : lookup'[d] = IF d = c THEN [id |-> id, outcome |-> GetOutcome(c, id)]
                                                 ELSE lookup[d]
  BY DEF GetEvent, TypeOK
<1>2. GetOutcome(c, id) \in Answers
  BY DEF GetOutcome, Answers
<1>3. TypeOK'
  BY <1>1, <1>2 DEF TypeOK, GetEvent
<1>4. \A r, cursor : Matching(r, cursor)' = Matching(r, cursor)
  BY <1>1 DEF Matching
<1>5. CursorIsOldest' /\ NothingSkipped' /\ ScanIsExact'
  BY <1>1, <1>4 DEF CursorIsOldest, NothingSkipped, ScanIsExact
<1>6. AdmittedOnly'
  <2>1. GetOutcome(c, id) = "found" => \E e \in rows : e.id = id /\ Admitted(c, e)
    BY DEF GetOutcome, Admitted, AuthorizedReader, ReaderAdmitsScope
  <2> QED
    BY <1>1, <2>1 DEF AdmittedOnly
<1>7. DeniedLooksAbsent'
  <2>1. ASSUME NEW e \in Events, e.id = id, c \in ReaderInstances, c \in DOMAIN ReaderScopes,
               e.scope \notin ReaderScopes[c]
        PROVE  GetOutcome(c, id) = "not_found"
    <3>1. \A f \in rows : f.id = id => f = e
      BY <2>1, ReadsAssumption DEF TypeOK
    <3>2. \A f \in {g \in rows : g.id = id} : ~ ReaderAdmitsScope(c, f.scope)
      BY <2>1, <3>1 DEF ReaderAdmitsScope
    <3> QED
      BY <2>1, <3>2 DEF GetOutcome, AuthorizedReader
  <2> QED
    BY <1>1, <2>1, ReadsAssumption DEF DeniedLooksAbsent
<1> QED
  BY <1>3, <1>5, <1>6, <1>7
\* A page that is returned: it lies after the cursor, nothing the scan still
\* owes lies behind the next one.
LEMMA PageKeepsIInv ==
  ASSUME IInv, NEW c \in Callers, NEW limit \in Limits, scan[c].phase = "paging",
         NEW next,
         LET found == Newest(limit + 1, Matching(scan[c].query, scan[c].cursor))
             kept  == Newest(limit, found)
         IN  /\ NextCursor(next, found, limit)
             /\ scan' = [scan EXCEPT
                  ![c].phase  = IF next = Absent THEN "done" ELSE "paging",
                  ![c].cursor = next,
                  ![c].page   = kept,
                  ![c].seen   = @ \cup kept],
         UNCHANGED <<rows, lookup>>
  PROVE  /\ IInv'
         /\ \A e \in scan'[c].page, f \in scan[c].seen : Newer(f, e)
<1> USE DEF IInv
<1> DEFINE matching == Matching(scan[c].query, scan[c].cursor)
           kept == Newest(limit, Newest(limit + 1, matching))
           phase == IF next = Absent THEN "done" ELSE "paging"
           paged == [scan[c] EXCEPT !.phase = phase, !.cursor = next, !.page = kept,
                                    !.seen = @ \cup kept]
           Scans == [phase : Phases, query : Queries \cup {Everything},
                     cursor : Events \cup {Absent}, page : SUBSET Events,
                     seen : SUBSET Events, start : SUBSET Events]
<1>1. scan \in [Callers -> Scans] /\ rows \subseteq Events
  BY DEF TypeOK
<1>2. matching \in SUBSET Events
  BY <1>1 DEF Matching
<1>3. /\ kept \subseteq matching
      /\ next = Absent => kept = matching
      /\ next # Absent => /\ next \in kept
                          /\ \A e \in kept : e = next \/ Newer(e, next)
                          /\ \A e \in matching \ kept : Newer(next, e)
  <2>1. NextCursor(next, Newest(limit + 1, matching), limit)
    OBVIOUS
  <2> HIDE DEF matching
  <2> QED
    BY <1>2, <2>1, PageOfMatching
<1>4. scan' = [scan EXCEPT ![c] = paged]
  BY <1>1
<1>5. /\ paged.phase = phase /\ paged.query = scan[c].query /\ paged.cursor = next
      /\ paged.page = kept /\ paged.seen = scan[c].seen \cup kept
      /\ paged.start = scan[c].start
  BY <1>1
<1>6. \A e \in matching : e \in Events /\ e \in rows /\ MatchesScope(e, scan[c].query.scope)
                        /\ InRange(e, scan[c].query) /\ AfterCursor(e, scan[c].cursor)
  BY <1>1 DEF Matching
<1>7. paged \in Scans
  BY <1>1, <1>2, <1>3 DEF Phases
<1> HIDE DEF matching, kept, paged, Scans
<1>8. \A d \in Callers : scan'[d] = IF d = c THEN paged ELSE scan[d]
  BY <1>1, <1>4
<1>9. TypeOK'
  <2>1. scan' \in [Callers -> Scans]
    BY <1>1, <1>4, <1>7
  <2>2. paged.cursor # Absent => paged.cursor \in paged.seen
    BY <1>3, <1>5
  <2>3. paged.phase = "done" => paged.cursor = Absent
    BY <1>5
  <2> QED
    BY <1>8, <2>1, <2>2, <2>3 DEF TypeOK, Scans
<1>10. \A q, cursor : Matching(q, cursor)' = Matching(q, cursor)
  BY DEF Matching
<1>11. AdmittedOnly'
  <2>1. \A e \in kept : Admitted(c, e)
    BY <1>3, <1>6, AdmittedScope DEF AdmittedOnly
  <2>2. \A d \in Callers : \A e \in scan'[d].seen : Admitted(d, e)
    BY <1>5, <1>8, <2>1 DEF AdmittedOnly
  <2>3. \A d \in Callers : scan'[d].phase \in {"paging", "failed"} =>
          AuthorizedReader(d) /\ ReaderAdmitsScope(d, scan'[d].query.scope)
    <3>1. \A d \in Callers : scan'[d].phase \in {"paging", "failed"} =>
            scan[d].phase \in {"paging", "failed"} /\ scan'[d].query = scan[d].query
      BY <1>5, <1>8
    <3> QED
      BY <3>1 DEF AdmittedOnly
  <2> QED
    BY <2>2, <2>3 DEF AdmittedOnly, Admitted, AuthorizedReader, ReaderAdmitsScope
<1>12. CursorIsOldest'
  <2>1. ASSUME next # Absent, NEW f \in scan[c].seen
        PROVE  Newer(f, next)
    <3>1. scan[c].cursor # Absent /\ (f = scan[c].cursor \/ Newer(f, scan[c].cursor))
      BY <2>1 DEF CursorIsOldest
    <3>2. scan[c].cursor \in Events /\ f \in Events
      BY <1>1, <3>1 DEF Scans
    <3>3. next \in Events /\ Newer(scan[c].cursor, next)
      BY <1>3, <1>6, <2>1, <3>1 DEF AfterCursor
    <3> QED
      BY <3>1, <3>2, <3>3, NewerIsTotalOrder
  <2> QED
    BY <1>3, <1>5, <1>8, <2>1 DEF CursorIsOldest
<1>13. ASSUME NEW e \in scan[c].start
       PROVE  \/ e \in paged.seen
              \/ next # Absent /\ e \in Matching(scan[c].query, next)
  <2>1. e \in scan[c].seen \/ e \in matching
    BY DEF NothingSkipped, matching
  <2>2. CASE e \in matching \ kept
    <3>1. next # Absent /\ Newer(next, e)
      BY <1>3, <2>2
    <3> QED
      BY <1>6, <2>2, <3>1 DEF Matching, AfterCursor
  <2> QED
    BY <1>5, <2>1, <2>2
<1>14. NothingSkipped' /\ ScanIsExact'
  <2>1. \A e \in kept : e \in Matching(scan[c].query, Absent)
    BY <1>3, <1>6 DEF Matching, AfterCursor
  <2>2. paged.seen \subseteq Matching(scan[c].query, Absent)
    BY <1>5, <2>1 DEF ScanIsExact
  <2>3. \A d \in Callers : (scan[d].seen \subseteq Matching(scan[d].query, Absent))'
    BY <1>5, <1>8, <1>10, <2>2 DEF ScanIsExact
  <2>4. \A d \in Callers : scan'[d].phase = "done" => scan'[d].start \subseteq scan'[d].seen
    BY <1>5, <1>8, <1>13 DEF ScanIsExact
  <2>5. NothingSkipped'
    BY <1>5, <1>8, <1>10, <1>13 DEF NothingSkipped
  <2> QED
    BY <2>3, <2>4, <2>5 DEF ScanIsExact
<1>15. DeniedLooksAbsent'
  BY DEF DeniedLooksAbsent
<1>16. ASSUME NEW e \in scan'[c].page, NEW f \in scan[c].seen
       PROVE  Newer(f, e)
  <2>1. e \in matching
    BY <1>3, <1>5, <1>8
  <2>2. scan[c].cursor # Absent /\ (f = scan[c].cursor \/ Newer(f, scan[c].cursor))
    BY DEF CursorIsOldest
  <2>3. e \in Events /\ Newer(scan[c].cursor, e)
    BY <1>6, <2>1, <2>2 DEF AfterCursor
  <2>4. f \in Events /\ scan[c].cursor \in Events
    BY <1>1, <2>2 DEF Scans
  <2> QED
    BY <2>2, <2>3, <2>4, NewerIsTotalOrder
<1> QED
  BY <1>9, <1>11, <1>12, <1>14, <1>15, <1>16

\* list_events either returns a page or fails on a row the wire refuses.
LEMMA ListEventsCases ==
  ASSUME NEW c \in Callers, NEW limit \in Limits, ListEvents(c, limit)
  PROVE  /\ scan[c].phase = "paging" /\ UNCHANGED <<rows, lookup>>
         /\ LET found == Newest(limit + 1, Matching(scan[c].query, scan[c].cursor))
                kept  == Newest(limit, found)
            IN  \/ \E next : /\ NextCursor(next, found, limit)
                             /\ scan' = [scan EXCEPT
                                  ![c].phase  = IF next = Absent THEN "done" ELSE "paging",
                                  ![c].cursor = next,
                                  ![c].page   = kept,
                                  ![c].seen   = @ \cup kept]
                \/ scan' = [scan EXCEPT ![c].phase = "failed"]
BY DEF ListEvents

LEMMA IInvStep == IInv /\ [Next]_vars => IInv'
<1> SUFFICES ASSUME IInv, [Next]_vars PROVE IInv'
  OBVIOUS
<1>1. ASSUME NEW e \in Events \ rows, Append(e)
      PROVE  IInv'
  BY <1>1, AppendKeepsIInv
<1>2. ASSUME NEW c \in Callers, NEW q \in Queries, BeginScan(c, q)
      PROVE  IInv'
  BY <1>2, BeginScanKeepsIInv
<1>3. ASSUME NEW c \in Callers, NEW limit \in Limits, ListEvents(c, limit)
      PROVE  IInv'
  BY <1>3, ListEventsCases, PageKeepsIInv, PhaseKeepsIInv
<1>4. ASSUME NEW c \in Callers, RetryPage(c)
      PROVE  IInv'
  BY <1>4, PhaseKeepsIInv DEF RetryPage
<1>5. ASSUME NEW c \in Callers, NEW id \in {e.id : e \in Events}, GetEvent(c, id)
      PROVE  IInv'
  BY <1>5, GetEventKeepsIInv
<1>6. CASE UNCHANGED vars
  BY <1>6 DEF vars, IInv, TypeOK, AdmittedOnly, Admitted, CursorIsOldest, NothingSkipped,
              Matching, ScanIsExact, DeniedLooksAbsent
<1> QED
  BY <1>1, <1>2, <1>3, <1>4, <1>5, <1>6 DEF Next

-----------------------------------------------------------------------------
(* The theorems. *)

\* The strengthening holds of every behaviour.
THEOREM Invariant == Spec => []IInv
<1>1. Init => IInv
  BY InitIInv
<1>2. IInv /\ [Next]_vars => IInv'
  BY IInvStep
<1> QED
  BY <1>1, <1>2, PTL DEF Spec

\* Every variable has its type, and a cursor is an event its scan returned.
THEOREM TypeCorrect == Spec => []TypeOK
<1>1. IInv => TypeOK
  BY DEF IInv
<1> QED
  BY <1>1, Invariant, PTL

\* Whatever filters, limits and cursors a reader uses, list_events and get_event
\* show it nothing outside its ceiling, and other Instances nothing at all.
THEOREM CeilingsHold == Spec => []CeilingHolds
<1>1. IInv => CeilingHolds
  <2> SUFFICES ASSUME IInv, NEW c \in Callers, NEW e \in Shown(c)
               PROVE  Admitted(c, e)
    BY DEF CeilingHolds, Admitted
  <2>1. CASE e \in scan[c].seen
    BY <2>1 DEF IInv, AdmittedOnly
  <2>2. CASE e \in rows /\ lookup[c].outcome = "found" /\ e.id = lookup[c].id
    BY <2>2, ReadsAssumption DEF IInv, TypeOK, AdmittedOnly
  <2> QED
    BY <2>1, <2>2 DEF Shown
<1> QED
  BY <1>1, Invariant, PTL

\* A denied event is answered as an absent one.
THEOREM DenialsRevealNothing == Spec => []DeniedLooksAbsent
<1>1. IInv => DeniedLooksAbsent
  BY DEF IInv
<1> QED
  BY <1>1, Invariant, PTL

\* A scan returns nothing that does not match, and one that is finished has
\* missed nothing that was recorded when it began.
THEOREM ScansAreExact == Spec => []ScanIsExact
<1>1. IInv => ScanIsExact
  BY DEF IInv
<1> QED
  BY <1>1, Invariant, PTL

\* The pages of a scan descend, and none repeats an event.
THEOREM ScansDescend == Spec => PagesDescend
<1>1. ASSUME IInv, [Next]_vars, NEW c \in Callers, scan'[c] # scan[c],
             scan[c].phase = "paging", scan'[c].phase \in {"paging", "done"}
      PROVE  \A e \in scan'[c].page, f \in scan[c].seen : Newer(f, e)
  <2>1. PICK d \in Callers, limit \in Limits : ListEvents(d, limit)
    BY <1>1 DEF Next, Append, BeginScan, RetryPage, GetEvent, vars, IInv, TypeOK
  <2>2. d = c
    BY <1>1, <2>1 DEF ListEvents, IInv, TypeOK
  <2>3. scan' # [scan EXCEPT ![c].phase = "failed"]
    BY <1>1 DEF IInv, TypeOK
  <2> QED
    BY <1>1, <2>1, <2>2, <2>3, ListEventsCases, PageKeepsIInv
<1>2. IInv /\ [Next]_vars =>
        [\A c \in Callers : scan[c].phase = "paging" /\ scan'[c].phase \in {"paging", "done"} =>
           \/ scan'[c] = scan[c]
           \/ \A e \in scan'[c].page, f \in scan[c].seen : Newer(f, e)]_scan
  BY <1>1
<1> QED
  BY <1>2, Invariant, PTL DEF Spec, PagesDescend
=============================================================================
