---------------------------- MODULE SettingsStore ----------------------------
(***************************************************************************)
(* The runtime settings: one row with a revision, the API credential with  *)
(* a version, and the audit table both write (app/services/settings.py);   *)
(* the settings page (app/web/routes.py) and the recovery commands of      *)
(* app/manage.py that change them.                                         *)
(*                                                                         *)
(* A step is one statement or one short transaction, READ COMMITTED: what  *)
(* a request read before its UPDATE may be old when the UPDATE runs, and   *)
(* only the WHERE of that UPDATE looks again.  A process that dies before  *)
(* its commit has changed nothing, so its death is the request that never  *)
(* takes its next step.                                                    *)
(***************************************************************************)
EXTENDS Naturals, Sequences, FiniteSets

CONSTANTS
  Field,        \* RUNTIME_FIELDS
  Group,        \* GROUPS
  GroupOf,      \* GroupOf[f]: the group field f is edited in
  Value,        \* values a field may take, as numbers
  Valid,        \* Valid[f]: what RuntimeValues accepts for f
  CsvField,     \* csv_import_max_bytes
  CsvCap,       \* 2 MiB
  Admin,        \* sessions that post the settings page, or `settings set`
  Cli,          \* the process that runs `settings rollback`
  MaxRevision,  \* bound: saves
  MaxVersion    \* bound: tokens issued or disabled

Saver == Admin \cup {Cli}
Values == [Field -> Value]
TokenEvent == {"token_created", "token_replaced", "token_disabled"}

ASSUME FieldsAssumption ==
  /\ GroupOf \in [Field -> Group] /\ Valid \in [Field -> SUBSET Value]
  /\ Value \subseteq Nat /\ Value # {} /\ CsvField \in Field /\ CsvCap \in Nat
ASSUME SaversAssumption ==
  /\ Cli \notin Admin
  /\ "initialization" \notin Group /\ TokenEvent \cap Group = {}
ASSUME BoundsAssumption == MaxRevision \in Nat /\ MaxVersion \in Nat

VARIABLES
  row,         \* the row of app_configuration; revision 0: there is none
  credential,  \* integration_credential; token 0: token_hash is NULL
  audit,       \* app_configuration_audit in the order of its ids
  req,         \* req[p]: the request or command p is in
  undo         \* Cli: the entries to undo, the revision wanted and the first

vars == <<row, credential, audit, req, undo>>

\* A request: the row as it read it, the values it proposes, and the revision
\* and token version of the page it was sent from.
NoValues == [f \in Field |-> CHOOSE v \in Value : TRUE]
Blank == [pc |-> "idle", revision |-> 0, old |-> NoValues, want |-> NoValues,
          version |-> 0, event |-> "token_created"]

Init ==
  /\ row = [revision |-> 0, values |-> NoValues]
  /\ credential = [token |-> 0, version |-> 0]
  /\ audit = <<>>
  /\ req = [p \in Saver |-> Blank]
  /\ undo = [todo |-> {}, target |-> 0, expected |-> 0]

Changes(old, new) == {f \in Field : old[f] # new[f]}

\* An audit entry; `old` and `new` hold the pairs of its changes.
Entry(section, actor, revision, fields, old, new) ==
  [section |-> section, actor |-> actor, revision |-> revision,
   fields |-> fields, old |-> old, new |-> new]

IsSave(e) == e.section \in Group
IsStep(e) == IsSave(e) \/ e.section = "initialization"

\* Mutant: a second migrate imports the environment again.
InitializeAgain(env, token) ==
  /\ row' = [revision |-> IF row.revision = 0 THEN 1 ELSE row.revision, values |-> env]
  /\ credential' = [token |-> token, version |-> 1]
  /\ audit' = IF row.revision = 0
              THEN Append(audit, Entry("initialization", Cli, 1, {}, env, env)) ELSE audit
  /\ UNCHANGED <<req, undo>>

\* app.manage migrate: initialize imports the environment once.
Initialize(env, token) ==
  /\ row.revision = 0
  /\ row' = [revision |-> 1, values |-> env]
  /\ credential' = [token |-> token, version |-> 1]
  /\ audit' = Append(audit, Entry("initialization", Cli, 1, {}, env, env))
  /\ UNCHANGED <<req, undo>>
-----------------------------------------------------------------------------
(* The settings page.                                                      *)

OpenPage(a) ==
  /\ req[a].pc \in {"idle", "form"} /\ row.revision > 0
  /\ req' = [req EXCEPT ![a] = [Blank EXCEPT !.pc = "form",
               !.revision = row.revision, !.version = credential.version]]
  /\ UNCHANGED <<row, credential, audit, undo>>

\* RuntimeValues and the checks beside it.
InRange(values) == \A f \in Field : values[f] \in Valid[f]

\* The checks of save_group on proposed values `want` against the row it read.
Accepts(old, want) ==
  /\ InRange(want)
  /\ CsvField \in Changes(old, want) =>
       want[CsvField] <= CsvCap \/ want[CsvField] <= old[CsvField]

\* save_group up to its UPDATE.  A refused or empty save ends the request.
Submit(a, group, want) ==
  /\ req[a].pc = "form" /\ req[a].revision < MaxRevision
  /\ \A f \in Changes(row.values, want) : GroupOf[f] = group
  /\ LET goes_on == /\ row.revision = req[a].revision
                    /\ Accepts(row.values, want)
                    /\ Changes(row.values, want) # {}
     IN req' = [req EXCEPT ![a] =
          IF goes_on THEN [@ EXCEPT !.pc = "update", !.old = row.values, !.want = want]
          ELSE Blank]
  /\ UNCHANGED <<row, credential, audit, undo>>

\* Mutant: UPDATE ... WHERE id = 1.
SameRevisionDropped(p) == TRUE

\* The revision in the WHERE of the UPDATE.
SameRevision(p) == row.revision = req[p].revision

\* The group that a proposal edits.
Section(p) == GroupOf[CHOOSE f \in Changes(req[p].old, req[p].want) : TRUE]

\* The UPDATE of save_group, its audit entry and their commit.  The UPDATE
\* writes the changed columns only.  pc is where the writer goes next.
Written(p, pc) ==
  LET fields == Changes(req[p].old, req[p].want)
  IN /\ SameRevision(p)
     /\ row' = [revision |-> req[p].revision + 1,
                values |-> [f \in Field |-> IF f \in fields THEN req[p].want[f]
                                                            ELSE row.values[f]]]
     /\ audit' = Append(audit, Entry(Section(p), p, req[p].revision + 1, fields,
                                     req[p].old, req[p].want))
     /\ req' = [req EXCEPT ![p] = [Blank EXCEPT !.pc = pc]]

Save(a) ==
  /\ req[a].pc = "update"
  /\ \/ Written(a, "idle")
     \/ /\ ~SameRevision(a)                       \* RevisionConflict
        /\ req' = [req EXCEPT ![a] = Blank] /\ UNCHANGED <<row, audit>>
  /\ UNCHANGED <<credential, undo>>
-----------------------------------------------------------------------------
(* The token of the REST API, on the same page.                            *)

\* Mutant: the hash the row had is not looked at.
EventNameOfForm(disable) == IF disable THEN "token_disabled" ELSE "token_created"

\* The name of the event, from the row as replace_token reads it.
EventName(disable) ==
  IF disable THEN "token_disabled"
  ELSE IF credential.token # 0 THEN "token_replaced" ELSE "token_created"

\* replace_token up to its UPDATE.
AskToken(a, disable) ==
  /\ req[a].pc = "form" /\ req[a].version < MaxVersion
  /\ req' = [req EXCEPT ![a].pc = "token", ![a].event = EventName(disable)]
  /\ UNCHANGED <<row, credential, audit, undo>>

SameVersion(a) == credential.version = req[a].version

\* A fresh token is named by the version that issues it.
ReplaceToken(a) ==
  /\ req[a].pc = "token"
  /\ IF SameVersion(a)
     THEN LET version == req[a].version + 1
              token == IF req[a].event = "token_disabled" THEN 0 ELSE version
          IN /\ credential' = [token |-> token, version |-> version]
             /\ audit' = Append(audit, Entry(req[a].event, a, version, {},
                                             row.values, row.values))
     ELSE UNCHANGED <<credential, audit>>
  /\ req' = [req EXCEPT ![a] = Blank]
  /\ UNCHANGED <<row, undo>>
-----------------------------------------------------------------------------
(* app.manage settings rollback --revision --expected-revision             *)

Loaded == [Blank EXCEPT !.pc = "undo", !.revision = row.revision, !.old = row.values]

\* The entries between the two revisions; those of the token share the column.
RollbackStart(target) ==
  LET between == {i \in DOMAIN audit : /\ audit[i].revision > target
                                       /\ audit[i].revision <= row.revision}
  IN /\ req[Cli].pc \in {"idle", "done", "failed"}
     /\ row.revision > 0 /\ between # {}
     /\ undo' = [todo |-> {audit[i] : i \in {j \in between : IsSave(audit[j])}},
                 target |-> target, expected |-> row.revision]
     /\ req' = [req EXCEPT ![Cli] = Loaded]
     /\ UNCHANGED <<row, credential, audit>>

\* Mutant: oldest first.
NextToUndoAscending(e) == \A d \in undo.todo : e.revision <= d.revision

\* ORDER BY new_revision DESC
NextToUndo(e) == \A d \in undo.todo : d.revision <= e.revision

\* The loop: the old values of one entry go through save_group, which holds
\* the row this session last read.
UndoNext ==
  /\ req[Cli].pc = "undo" /\ req[Cli].revision < MaxRevision
  /\ \/ /\ undo.todo = {}
        /\ req' = [req EXCEPT ![Cli].pc = "done"] /\ UNCHANGED undo
     \/ \E e \in undo.todo :
          LET old == req[Cli].old
              want == [f \in Field |-> IF f \in e.fields THEN e.old[f] ELSE old[f]]
          IN /\ NextToUndo(e)
             /\ req' = [req EXCEPT ![Cli].pc = IF ~Accepts(old, want) THEN "failed"
                                               ELSE IF old = want THEN "refresh" ELSE "update",
                                   ![Cli].want = want]
             /\ undo' = IF Accepts(old, want) THEN [undo EXCEPT !.todo = @ \ {e}] ELSE undo
  /\ UNCHANGED <<row, credential, audit>>

UndoSave ==
  /\ req[Cli].pc = "update"
  /\ \/ Written(Cli, "refresh")
     \/ /\ ~SameRevision(Cli)                     \* the command stops here
        /\ req' = [req EXCEPT ![Cli].pc = "failed"] /\ UNCHANGED <<row, audit>>
  /\ UNCHANGED <<credential, undo>>

\* db.refresh(row)
UndoRefresh ==
  /\ req[Cli].pc = "refresh"
  /\ req' = [req EXCEPT ![Cli] = Loaded]
  /\ UNCHANGED <<row, credential, audit, undo>>
-----------------------------------------------------------------------------
Next ==
  \/ \E env \in Values, token \in {0, 1} : Initialize(env, token)
  \/ \E a \in Admin :
       \/ OpenPage(a) \/ Save(a) \/ ReplaceToken(a)
       \/ \E g \in Group, want \in Values : Submit(a, g, want)
       \/ \E disable \in BOOLEAN : AskToken(a, disable)
  \/ \E target \in 0..MaxRevision : RollbackStart(target)
  \/ UndoNext \/ UndoSave \/ UndoRefresh

Spec == Init /\ [][Next]_vars
-----------------------------------------------------------------------------
(* Properties.                                                             *)

RowType == [revision : Nat, values : Values]
CredentialType == [token : Nat, version : Nat]
EntryType ==
  [section : Group \cup TokenEvent \cup {"initialization"}, actor : Saver,
   revision : Nat, fields : SUBSET Field, old : Values, new : Values]

\* The types, and no page, form or command holds a revision or a token version
\* that its row has not reached.
TypeOK ==
  /\ row \in RowType
  /\ credential \in CredentialType
  /\ audit \in Seq(EntryType)
  /\ req \in [Saver -> [pc : {"idle", "form", "update", "token", "undo", "refresh",
                              "done", "failed"},
                        revision : Nat, old : Values, want : Values, version : Nat,
                        event : TokenEvent]]
  /\ undo \in [todo : SUBSET EntryType, target : Nat, expected : Nat]
  /\ \A p \in Saver : /\ req[p].revision <= row.revision
                      /\ req[p].version <= credential.version

Steps == {i \in DOMAIN audit : IsStep(audit[i])}

\* The audit table accounts for every revision once, in order, and for none
\* the row has not reached, whoever saves at the same time
\* (save_group: the WHERE on the revision, and the audit row in its commit).
RevisionTrail ==
  /\ \A n \in 1..row.revision : \E i \in Steps : audit[i].revision = n
  /\ \A i, j \in Steps : i < j => audit[i].revision < audit[j].revision
  /\ \A i \in Steps : audit[i].revision \in 1..row.revision

Touches(i, f) == i \in Steps /\ f \in audit[i].fields

\* For each field the changes of the audit table chain: an entry takes the
\* value the entry before it left, and the last one left the value in the row.
\* No save is overwritten unseen, and no import comes after the first.
AuditReplays ==
  \A i \in Steps : \A f \in audit[i].fields :
    \/ /\ \A j \in DOMAIN audit : j > i => ~Touches(j, f)
       /\ row.values[f] = audit[i].new[f]
    \/ \E j \in DOMAIN audit :
         /\ j > i /\ Touches(j, f)
         /\ \A k \in DOMAIN audit : i < k /\ k < j => ~Touches(k, f)
         /\ audit[j].old[f] = audit[i].new[f]

Rotations == {i \in DOMAIN audit : audit[i].section \in TokenEvent}

\* The audit table accounts for every token version once, and names each event
\* by what it did: a token is created where there was none and replaced where
\* there was one, although the name is chosen before the UPDATE.
TokenTrail ==
  /\ \A n \in 2..credential.version : \E i \in Rotations : audit[i].revision = n
  /\ \A i, j \in Rotations :
       i < j => /\ audit[i].revision < audit[j].revision
                /\ audit[j].revision = audit[i].revision + 1 =>
                     audit[j].section #
                       IF audit[i].section = "token_disabled" THEN "token_replaced"
                                                             ELSE "token_created"
  /\ \A i \in Rotations :
       /\ audit[i].revision <= credential.version
       /\ audit[i].revision = credential.version =>
            (audit[i].section = "token_disabled") = (credential.token = 0)

\* The settings of revision n, read back from the row and the audit table.
ValuesAt(n) ==
  [f \in Field |->
     LET later == {i \in Steps : audit[i].revision > n /\ f \in audit[i].fields}
     IN IF later = {} THEN row.values[f]
        ELSE audit[CHOOSE i \in later : \A j \in later : i <= j].old[f]]

UndoneTo ==
  IF undo.todo = {} THEN undo.target
  ELSE (CHOOSE e \in undo.todo : \A d \in undo.todo : d.revision <= e.revision).revision

\* While nobody else saves, a rollback walks back through the revisions: after
\* each of its saves, and wherever it stops, the settings are those of the
\* revision it has got to, and at the end those of the revision asked for.
RollbackOnCourse ==
  (/\ req[Cli].pc \in {"undo", "refresh", "done", "failed"}
   /\ \A i \in Steps : audit[i].revision > undo.expected => audit[i].actor = Cli)
    => row.values = ValuesAt(UndoneTo)
=============================================================================
