------------------------------ MODULE D1Schema ------------------------------
(***************************************************************************)
(* setup(database) of the D1 store: the explicit Owner action that creates *)
(* audit_events and the ledger lenso_audit_schema, and the readiness check *)
(* that looks at the ledger.  Each statement of setup is a round trip of   *)
(* its own; only the batch of DDL is atomic.  Several operators may run    *)
(* setup at once, another release may set the database up with a version   *)
(* of its own, and somebody else may create a table called audit_events.   *)
(*                                                                         *)
(* A setup that is given up while its batch is under way needs no action   *)
(* of its own: it is one that waits in "ddl" and fails in "verify".        *)
(***************************************************************************)
EXTENDS Naturals

CONSTANTS Operators   \* sessions that run setup

VARIABLES
  ledger,   \* lenso_audit_schema: the version it holds, 0 when there is none
  table,    \* audit_events: what it is
  setup     \* operator -> where its setup stands, or how it ended ("idle"
            \* before the first one, and after one that was refused or failed)

schemaVars == <<ledger, table, setup>>

SchemaVersion == 1
NewerVersion == 2

\* A "foreign" table lacks a column of the index setup creates; a "lookalike"
\* has those columns and lacks others.
Tables == {"absent", "owned", "foreign", "lookalike"}

Ended == {"idle", "done", "audit_schema_incompatible"}
SetupPhases == Ended \cup {"checkTable", "checkVersion", "ddl", "verify"}

SchemaTypeOK ==
  /\ ledger \in {0, SchemaVersion, NewerVersion}
  /\ table \in Tables
  /\ setup \in [Operators -> SetupPhases]

SchemaInit ==
  /\ ledger = 0
  /\ table = "absent"
  /\ setup = [o \in Operators |-> "idle"]

Goto(o, phase) == setup' = [setup EXCEPT ![o] = phase]

-----------------------------------------------------------------------------
(* The statements of setup. *)

InspectLedger(o) ==
  /\ setup[o] \in Ended
  /\ Goto(o, IF ledger = 0 THEN "checkTable" ELSE "checkVersion")
  /\ UNCHANGED <<ledger, table>>

\* A table without a ledger is refused: audit_schema_unmanaged.
CheckTable(o) ==
  /\ setup[o] = "checkTable"
  /\ Goto(o, IF table = "absent" THEN "ddl" ELSE "idle")
  /\ UNCHANGED <<ledger, table>>

CheckVersion(o) ==
  /\ setup[o] = "checkVersion"
  /\ Goto(o, IF ledger = SchemaVersion THEN "ddl" ELSE "audit_schema_incompatible")
  /\ UNCHANGED <<ledger, table>>

\* (mutant: the ledger's version is overwritten)
RunDDLOverwriting(o) ==
  /\ setup[o] = "ddl"
  /\ IF table = "foreign"
     THEN Goto(o, "idle") /\ UNCHANGED <<ledger, table>>
     ELSE /\ ledger' = SchemaVersion
          /\ table' = IF table = "absent" THEN "owned" ELSE table
          /\ Goto(o, "verify")

\* (mutant: the DDL statements run one by one, the ledger first)
RunDDLUnbatched(o) ==
  /\ setup[o] = "ddl"
  /\ ledger' = IF ledger = 0 THEN SchemaVersion ELSE ledger
  /\ IF table = "foreign"
     THEN Goto(o, "idle") /\ UNCHANGED table
     ELSE /\ table' = IF table = "absent" THEN "owned" ELSE table
          /\ Goto(o, "verify")

\* One batch: CREATE .. IF NOT EXISTS leaves a table that has come to exist,
\* CREATE INDEX fails on one without the columns and takes the batch with it,
\* and the version of a ledger that has come to exist stays.
RunDDL(o) ==
  /\ setup[o] = "ddl"
  /\ IF table = "foreign"
     THEN Goto(o, "idle") /\ UNCHANGED <<ledger, table>>
     ELSE /\ ledger' = IF ledger = 0 THEN SchemaVersion ELSE ledger
          /\ table' = IF table = "absent" THEN "owned" ELSE table
          /\ Goto(o, "verify")

\* (mutant: the version is not read again after the batch)
AssumeVersion(o) ==
  /\ setup[o] = "verify"
  /\ Goto(o, "done")
  /\ UNCHANGED <<ledger, table>>

VerifyVersion(o) ==
  /\ setup[o] = "verify"
  /\ Goto(o, IF ledger = SchemaVersion THEN "done" ELSE "audit_schema_incompatible")
  /\ UNCHANGED <<ledger, table>>

\* A statement fails, or the operator goes away.
SetupFails(o) ==
  /\ setup[o] \notin Ended
  /\ Goto(o, "idle")
  /\ UNCHANGED <<ledger, table>>

-----------------------------------------------------------------------------
(* Others with access to the database. *)

ForeignTable ==
  /\ table = "absent"
  /\ table' \in {"foreign", "lookalike"}
  /\ UNCHANGED <<ledger, setup>>

NewerRelease ==
  /\ ledger = 0 /\ table = "absent"
  /\ ledger' = NewerVersion
  /\ table' = "owned"
  /\ UNCHANGED setup

SchemaNext ==
  \/ \E o \in Operators : InspectLedger(o)
  \/ \E o \in Operators : CheckTable(o)
  \/ \E o \in Operators : CheckVersion(o)
  \/ \E o \in Operators : RunDDL(o)
  \/ \E o \in Operators : VerifyVersion(o)
  \/ \E o \in Operators : SetupFails(o)
  \/ ForeignTable
  \/ NewerRelease

-----------------------------------------------------------------------------
(* Readiness and properties. *)

\* (mutant: readiness accepts whatever ledger there is)
AnyLedger == ledger # 0

Ready == ledger = SchemaVersion

\* A ledger never stands without a table that has the columns of its index, and
\* a setup that reported success left the ledger of this release, whatever other
\* operators, releases and foreign tables came between the inspection and the
\* DDL.  The exception: the table is this release's own, or somebody else's
\* look-alike that came in just that window, which setup takes over unnoticed.
SetupIsTrue ==
  /\ ledger # 0 => table \in {"owned", "lookalike"}
  /\ \A o \in Operators :
       /\ setup[o] = "done" => ledger = SchemaVersion
       /\ setup[o] = "audit_schema_incompatible" => ledger = NewerVersion

\* setup changes nothing once there is a ledger, of this release or another:
\* repeating it is safe, and running an old one never takes a database back.
ManagedSchemaIsKept == [][ledger # 0 => UNCHANGED <<ledger, table>>]_schemaVars
=============================================================================
