--------------------------- MODULE AuditLog_proofs ---------------------------
(***************************************************************************)
(* What the promise of AuditLog amounts to for a writer, whatever a store  *)
(* does to the data it keeps and reads back.  A store that implements      *)
(* AuditLog has these properties too.                                      *)
(***************************************************************************)
EXTENDS AuditLog, TLAPS

\* The event a writer reads in a row.
Shown(row) ==
  [id |-> row.id, source |-> row.source, body |-> row.body,
   meta |-> ReadBack(row.meta), at |-> row.at, created |-> row.created]

\* Every id names one row of the log.
OneRowPerId == \A x, y \in log : x.id = y.id => x = y

\* What a writer was answered is in the log, as it was answered, and is what
\* the writer asked to keep - under the key's own id, if there was a key.
AnswersAreInTheLog ==
  \A a \in acks : \E row \in log :
    /\ a.event = Shown(row)
    /\ Holds(row, a.req)
    /\ a.req.key # NoKey => row.id = StableEventId(a.req.caller, a.req.key)

\* All answers to one key of a caller are the same event, and no answer to
\* another caller's or another key is.
OneEventPerKey ==
  \A a, b \in acks : a.req.key # NoKey /\ b.req.key # NoKey =>
    (a.event = b.event <=> a.req.caller = b.req.caller /\ a.req.key = b.req.key)

\* Nothing is removed from the log or changed in it, and no answer is taken back.
LogIsAppendOnly == [][log \subseteq log' /\ acks \subseteq acks' /\ conflicts \subseteq conflicts']_vars

IInv == OneRowPerId /\ AnswersAreInTheLog

\* Only a row under a new id enters the log; only rows of the log are answered.
LEMMA IInvStep == IInv /\ [Next]_vars => IInv'
<1> SUFFICES ASSUME IInv, [Next]_vars PROVE IInv'
  OBVIOUS
<1> USE DEF IInv, OneRowPerId, AnswersAreInTheLog
<1>1. ASSUME NEW r \in Requests, NEW serial \in 0 .. MaxFresh, NEW now \in 0 .. MaxClock,
             Record(r, serial, now)
      PROVE  IInv'
  <2> DEFINE event == Kept(NewAuditEvent(r, serial))
             row == [id |-> event.id, source |-> event.source, body |-> event.body,
                     meta |-> event.meta, at |-> event.at, created |-> now]
  <2>1. /\ log' = log \cup {row}
        /\ \A other \in log : other.id # event.id
        /\ UNCHANGED <<acks, conflicts>>
    BY <1>1 DEF Record
  <2>2. row.id = event.id
    OBVIOUS
  <2> HIDE DEF row, event
  <2> QED
    BY <2>1, <2>2 DEF Holds
<1>2. ASSUME NEW r \in Requests, NEW row \in log, Acknowledge(r, row)
      PROVE  IInv'
  <2>1. /\ Holds(row, r)
        /\ r.key # NoKey => row.id = StableEventId(r.caller, r.key)
        /\ acks' = acks \cup {[req |-> r, event |-> Shown(row)]}
        /\ UNCHANGED <<log, conflicts>>
    BY <1>2 DEF Acknowledge, Shown
  <2> QED
    BY <2>1
<1>3. ASSUME NEW r \in Requests, Refuse(r)
      PROVE  IInv'
  BY <1>3 DEF Refuse
<1>4. CASE UNCHANGED vars
  BY <1>4 DEF vars
<1> QED
  BY <1>1, <1>2, <1>3, <1>4 DEF Next

\* Rows have ids of their own, and answers are in the log.
THEOREM Invariant == Spec => []IInv
<1>1. Init => IInv
  BY DEF Init, IInv, OneRowPerId, AnswersAreInTheLog
<1> QED
  BY <1>1, IInvStep, PTL DEF Spec

\* A writer that is answered finds its evidence in the log from then on.
THEOREM AnswersAreDurable == Spec => []AnswersAreInTheLog
BY Invariant, PTL DEF IInv

\* Retries under one key are answered with one event, other keys with others.
THEOREM KeysNameEvents == Spec => []OneEventPerKey
<1>1. IInv => OneEventPerKey
  <2> SUFFICES ASSUME IInv, NEW a \in acks, NEW b \in acks,
                      a.req.key # NoKey, b.req.key # NoKey
               PROVE  a.event = b.event <=> a.req.caller = b.req.caller /\ a.req.key = b.req.key
    BY DEF OneEventPerKey
  <2>1. PICK x \in log : a.event = Shown(x) /\ x.id = StableEventId(a.req.caller, a.req.key)
    BY DEF IInv, AnswersAreInTheLog
  <2>2. PICK y \in log : b.event = Shown(y) /\ y.id = StableEventId(b.req.caller, b.req.key)
    BY DEF IInv, AnswersAreInTheLog
  <2>3. Shown(x).id = x.id /\ Shown(y).id = y.id
    BY DEF Shown
  <2>4. x.id = y.id <=> a.req.caller = b.req.caller /\ a.req.key = b.req.key
    BY <2>1, <2>2 DEF StableEventId
  <2>5. x.id = y.id => x = y
    BY DEF IInv, OneRowPerId
  <2> QED
    BY <2>1, <2>2, <2>3, <2>4, <2>5
<1> QED
  BY <1>1, Invariant, PTL

\* No step of the promise takes evidence or an answer back.
THEOREM NothingIsTakenBack == Spec => LogIsAppendOnly
<1>1. [Next]_vars =>
        [log \subseteq log' /\ acks \subseteq acks' /\ conflicts \subseteq conflicts']_vars
  BY DEF Next, Record, Acknowledge, Refuse
<1> QED
  BY <1>1, PTL DEF Spec, LogIsAppendOnly
=============================================================================
