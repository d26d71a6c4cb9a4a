-------------------------- MODULE SettingsStoreProofs --------------------------
(***************************************************************************)
(* Proofs about SettingsStore, for any fields, groups and values, any      *)
(* number of administrators and any bounds.                                *)
(***************************************************************************)
EXTENDS SettingsStore, SequenceTheorems, TLAPS, CommonLemmas

\* A proposal on its way to the UPDATE changes something, so it has a section
\* (save_group returns before the UPDATE when nothing changed).
ProposalsChange ==
  \A p \in Saver : req[p].pc = "update" => Changes(req[p].old, req[p].want) # {}

\* What a writer took for the settings of its revision is what they are, as
\* long as the row still has that revision.
OldIsRow ==
  \A p \in Saver :
    req[p].pc \in {"update", "undo"} /\ req[p].revision = row.revision
      => req[p].old = row.values

\* The name a token event was given fits the token, as long as the credential
\* still has the version of the page.
EventFits ==
  \A p \in Saver :
    req[p].pc = "token" /\ req[p].version = credential.version
      => \/ req[p].event = "token_disabled"
         \/ req[p].event = IF credential.token # 0 THEN "token_replaced" ELSE "token_created"

\* Before app.manage migrate nothing has been read or written.
NothingBefore ==
  row.revision = 0 => /\ credential.version = 0 /\ audit = <<>>
                      /\ \A p \in Saver : req[p].pc = "idle"

\* The inductive invariant.
Inv == TypeOK /\ NothingBefore /\ ProposalsChange

(***************************************************************************)
(* Lemmas about the operators.                                             *)
(***************************************************************************)

\* A request that holds nothing is a request.
LEMMA BlankType ==
  /\ NoValues \in Values
  /\ Blank \in [pc : {"idle", "form", "update", "token", "undo", "refresh", "done", "failed"},
                revision : Nat, old : Values, want : Values, version : Nat,
                event : TokenEvent]
<1>1. NoValues \in Values
  BY FieldsAssumption DEF NoValues, Values
<1> QED
  BY <1>1 DEF Blank, TokenEvent

\* db.add(AppConfigurationAudit): the entries before the new one stay.
LEMMA Appended ==
  ASSUME NEW S, NEW s \in Seq(S), NEW e \in S
  PROVE  /\ Append(s, e) \in Seq(S)
         /\ DOMAIN s = 1..Len(s) /\ Len(s) \in Nat
         /\ DOMAIN Append(s, e) = 1..(Len(s) + 1)
         /\ \A i \in DOMAIN s : Append(s, e)[i] = s[i]
         /\ Append(s, e)[Len(s) + 1] = e
  BY AppendProperties, LenProperties

\* The entry that a save appends is an entry, and one of the steps.
NewSave(p) ==
  Entry(Section(p), p, req[p].revision + 1, Changes(req[p].old, req[p].want),
        req[p].old, req[p].want)

\* save_group's audit row is well formed: its section is a group.
LEMMA NewSaveType ==
  ASSUME TypeOK, ProposalsChange, NEW p \in Saver, req[p].pc = "update"
  PROVE  /\ NewSave(p) \in EntryType /\ IsSave(NewSave(p)) /\ IsStep(NewSave(p))
         /\ NewSave(p).section \notin TokenEvent
<1>1. Changes(req[p].old, req[p].want) # {} /\ Changes(req[p].old, req[p].want) \subseteq Field
  BY DEF ProposalsChange, Changes
<1>2. Section(p) \in Group
  BY <1>1, FieldsAssumption DEF Section
<1>3. req[p].old \in Values /\ req[p].want \in Values /\ req[p].revision \in Nat
  BY DEF TypeOK
<1> QED
  BY <1>1, <1>2, <1>3, SaversAssumption DEF NewSave, Entry, EntryType, IsSave, IsStep

(***************************************************************************)
(* Type correctness.                                                       *)
(***************************************************************************)

Requests ==
  [pc : {"idle", "form", "update", "token", "undo", "refresh", "done", "failed"},
   revision : Nat, old : Values, want : Values, version : Nat, event : TokenEvent]

\* A request whose revision and version its rows have reached.
Abreast(r, revision, version) ==
  r \in Requests /\ r.revision <= revision /\ r.version <= version

\* The part of TypeOK about requests rs, for any revision and version reached.
RequestsOK(rs, revision, version) ==
  /\ rs \in [Saver -> Requests]
  /\ \A p \in Saver : rs[p].revision <= revision /\ rs[p].version <= version

\* TypeOK, with its conjunct about requests named.
LEMMA TypeParts ==
  TypeOK <=> /\ row \in RowType
             /\ credential \in CredentialType
             /\ audit \in Seq(EntryType)
             /\ RequestsOK(req, row.revision, credential.version)
             /\ undo \in [todo : SUBSET EntryType, target : Nat, expected : Nat]
  BY DEF TypeOK, RequestsOK, Requests

\* The same of the state after a step.
LEMMA TypePartsNext ==
  TypeOK' <=> /\ row' \in RowType
              /\ credential' \in CredentialType
              /\ audit' \in Seq(EntryType)
              /\ RequestsOK(req', row'.revision, credential'.version)
              /\ undo' \in [todo : SUBSET EntryType, target : Nat, expected : Nat]
  BY DEF TypeOK, RequestsOK, Requests

\* What TypeOK says of the fields of the rows.
LEMMA RowFields ==
  ASSUME TypeOK
  PROVE  /\ row.revision \in Nat /\ row.values \in Values
         /\ credential.token \in Nat /\ credential.version \in Nat
         /\ Blank \in Requests
         /\ \A p \in Saver : Abreast(req[p], row.revision, credential.version)
         /\ \A p \in Saver : Abreast(Blank, row.revision, credential.version)
  BY TypeParts, BlankType DEF RowType, CredentialType, RequestsOK, Abreast, Requests, Blank

\* Rows only move on, so requests abreast of them stay so.
LEMMA RowsMoveOn ==
  ASSUME TypeOK, NEW revision \in Nat, NEW version \in Nat,
         row.revision <= revision, credential.version <= version
  PROVE  RequestsOK(req, revision, version)
<1> SUFFICES ASSUME NEW p \in Saver
             PROVE  req[p].revision <= revision /\ req[p].version <= version
  BY TypeParts DEF RequestsOK
<1>1. /\ req[p].revision \in Nat /\ req[p].version \in Nat
      /\ req[p].revision <= row.revision /\ req[p].version <= credential.version
  BY RowFields DEF Abreast, Requests
<1> QED
  BY <1>1, RowFields

\* One request replaced by one abreast of the rows.
LEMMA OneRequest ==
  ASSUME NEW revision, NEW version, RequestsOK(req, revision, version),
         NEW p \in Saver, NEW r, Abreast(r, revision, version)
  PROVE  RequestsOK([req EXCEPT ![p] = r], revision, version)
  BY DEF RequestsOK, Abreast

\* A step that touches neither row nor the audit table and moves one request to
\* one abreast of the rows keeps the types.
LEMMA RequestStep ==
  ASSUME TypeOK, UNCHANGED <<row, credential, audit>>,
         undo' \in [todo : SUBSET EntryType, target : Nat, expected : Nat],
         NEW p \in Saver, NEW r, Abreast(r, row.revision, credential.version),
         req' = [req EXCEPT ![p] = r]
  PROVE  TypeOK'
<1>1. RequestsOK(req', row.revision, credential.version)
  BY OneRequest, TypeParts, RowFields
<1> QED
  BY <1>1, TypeParts, TypePartsNext

\* The UPDATE of save_group with its audit entry keeps the types of the rows.
LEMMA WrittenType ==
  ASSUME TypeOK, ProposalsChange, NEW p \in Saver, req[p].pc = "update",
         NEW pc \in {"idle", "refresh"}, Written(p, pc), UNCHANGED <<credential, undo>>
  PROVE  TypeOK'
<1>1. /\ NewSave(p) \in EntryType
      /\ audit' = Append(audit, NewSave(p))
  BY NewSaveType DEF Written, NewSave
<1>2. audit' \in Seq(EntryType)
  BY <1>1, Appended, TypeParts
<1>3. req[p].revision = row.revision /\ req[p].want \in Values
  BY RowFields DEF Written, SameRevision, Abreast, Requests
<1>4. row' \in RowType /\ row'.revision = row.revision + 1
  BY <1>3, RowFields DEF Written, RowType, Values
<1>5. RequestsOK(req, row.revision + 1, credential.version)
  BY RowsMoveOn, RowFields
<1>6. Abreast([Blank EXCEPT !.pc = pc], row.revision + 1, credential.version)
  BY RowFields DEF Abreast, Requests, Blank
<1>7. RequestsOK(req', row.revision + 1, credential.version)
  <2>1. RequestsOK([req EXCEPT ![p] = [Blank EXCEPT !.pc = pc]],
                   row.revision + 1, credential.version)
    BY <1>5, <1>6, OneRequest
  <2> QED
    BY <2>1 DEF Written
<1> QED
  BY <1>2, <1>4, <1>7, TypeParts, TypePartsNext

\* The UPDATE of replace_token with its audit entry.
NewRotation(a) ==
  Entry(req[a].event, a, req[a].version + 1, {}, row.values, row.values)

Rotated(a) ==
  /\ req[a].pc = "token" /\ SameVersion(a)
  /\ credential' = [token |-> IF req[a].event = "token_disabled" THEN 0
                              ELSE req[a].version + 1,
                    version |-> req[a].version + 1]
  /\ audit' = Append(audit, NewRotation(a))
  /\ req' = [req EXCEPT ![a] = Blank]
  /\ UNCHANGED <<row, undo>>

\* It writes a well-formed credential and entry, and the entry is no step.
LEMMA RotationType ==
  ASSUME TypeOK, NEW a \in Admin, req[a].pc = "token", SameVersion(a)
  PROVE  /\ NewRotation(a) \in EntryType
         /\ ~IsStep(NewRotation(a)) /\ NewRotation(a).section \in TokenEvent
         /\ req[a].version = credential.version
<1>1. a \in Saver
  BY DEF Saver
<1>2. req[a].event \in TokenEvent /\ req[a].version \in Nat
  BY <1>1, RowFields DEF Abreast, Requests
<1>3. {} \in SUBSET Field
  OBVIOUS
<1> QED
  BY <1>1, <1>2, <1>3, RowFields, SaversAssumption
  DEF NewRotation, Entry, EntryType, IsSave, IsStep, SameVersion, TokenEvent

\* It keeps the types.
LEMMA RotatedType ==
  ASSUME TypeOK, NEW a \in Admin, Rotated(a)
  PROVE  TypeOK'
<1>1. a \in Saver
  BY DEF Saver
<1>2. NewRotation(a) \in EntryType /\ req[a].version = credential.version
  BY RotationType DEF Rotated
<1>3. audit' \in Seq(EntryType)
  BY <1>2, Appended, TypeParts DEF Rotated
<1>4. credential' \in CredentialType /\ credential'.version = credential.version + 1
  BY <1>2, RowFields DEF Rotated, CredentialType
<1>5. RequestsOK(req, row.revision, credential.version + 1)
  BY RowsMoveOn, RowFields
<1>6. Abreast(Blank, row.revision, credential.version + 1)
  BY RowFields DEF Abreast, Requests, Blank
<1>7. RequestsOK(req', row.revision, credential.version + 1)
  <2>1. RequestsOK([req EXCEPT ![a] = Blank], row.revision, credential.version + 1)
    BY <1>1, <1>5, <1>6, OneRequest
  <2> QED
    BY <2>1 DEF Rotated
<1> QED
  BY <1>3, <1>4, <1>7, TypeParts, TypePartsNext DEF Rotated

\* settings.initialize keeps the types.
LEMMA InitializeType ==
  ASSUME TypeOK, NothingBefore, NEW env \in Values, NEW token \in {0, 1},
         Initialize(env, token)
  PROVE  TypeOK'
<1>1. Cli \in Saver /\ {} \in SUBSET Field
  BY DEF Saver
<1>2. Entry("initialization", Cli, 1, {}, env, env) \in EntryType
  BY <1>1 DEF Entry, EntryType
<1>3. audit' \in Seq(EntryType)
  BY <1>2, Appended, TypeParts DEF Initialize
<1>4. /\ row' \in RowType /\ row'.revision = 1
      /\ credential' \in CredentialType /\ credential'.version = 1
  BY DEF Initialize, RowType, CredentialType
<1>5. row.revision <= 1 /\ credential.version <= 1
  BY DEF Initialize, NothingBefore
<1>6. RequestsOK(req', 1, 1)
  BY <1>5, RowsMoveOn DEF Initialize
<1> QED
  BY <1>3, <1>4, <1>6, TypeParts, TypePartsNext DEF Initialize

(***************************************************************************)
(* What a step does to the rows and the audit table.                       *)
(***************************************************************************)

\* The step of one request that reads, decides or fails.
Quiet(p, r) ==
  /\ UNCHANGED <<row, credential, audit>>
  /\ req' = [req EXCEPT ![p] = r]

\* What such a step may make of the request: it is over; or it is a page or a
\* rollback that has just read the row; or a proposal against the row read just
\* now or before; or a token event named by the credential; or a rollback that
\* moves on between its reads.
Proposal(p, r) ==
  /\ r.pc = "update" /\ r.old # r.want
  /\ r.revision = req[p].revision
  /\ \/ r.revision = row.revision /\ r.old = row.values
     \/ req[p].pc = "undo" /\ r.old = req[p].old

TokenAsked(p, r) ==
  /\ r.pc = "token" /\ r.version = req[p].version
  /\ \/ r.event = "token_disabled"
     \/ r.event = IF credential.token # 0 THEN "token_replaced" ELSE "token_created"

Harmless(p, r) ==
  \/ r.pc \notin {"update", "undo", "token"}
  \/ r = Loaded
  \/ Proposal(p, r)
  \/ TokenAsked(p, r)

\* Every step is one of these, whatever action it belongs to.
StepKind ==
  \/ \E env \in Values, token \in {0, 1} : Initialize(env, token)
  \/ \E p \in Saver, pc \in {"idle", "refresh"} :
       req[p].pc = "update" /\ Written(p, pc) /\ UNCHANGED <<credential, undo>>
  \/ \E a \in Admin : Rotated(a)
  \/ /\ row.revision > 0
     /\ undo' \in [todo : SUBSET EntryType, target : Nat, expected : Nat]
     /\ \E p \in Saver, r \in Requests :
          /\ Abreast(r, row.revision, credential.version)
          /\ Quiet(p, r) /\ Harmless(p, r)

\* A request under way means that there is a row.
LEMMA QuietKind ==
  ASSUME TypeOK, NothingBefore, NEW p \in Saver, NEW r \in Requests,
         req[p].pc # "idle" \/ row.revision > 0,
         undo' \in [todo : SUBSET EntryType, target : Nat, expected : Nat],
         Abreast(r, row.revision, credential.version), Quiet(p, r), Harmless(p, r)
  PROVE  StepKind
<1>1. row.revision > 0
  BY RowFields DEF NothingBefore
<1> QED
  BY <1>1 DEF StepKind

\* The settings page reads the row and the version of the credential.
LEMMA OpenPageKind ==
  ASSUME TypeOK, NothingBefore, NEW a \in Admin, OpenPage(a)
  PROVE  StepKind
<1> DEFINE r == [Blank EXCEPT !.pc = "form", !.revision = row.revision,
                              !.version = credential.version]
<1>1. a \in Saver
  BY DEF Saver
<1>2. /\ r.pc = "form" /\ r.revision = row.revision /\ r.version = credential.version
      /\ r \in Requests
  BY RowFields DEF Requests, Blank
<1>3. Abreast(r, row.revision, credential.version)
  BY <1>2, RowFields DEF Abreast
<1>4. Quiet(a, r) /\ row.revision > 0 /\ undo' = undo
  BY DEF OpenPage, Quiet
<1>5. Harmless(a, r)
  BY <1>2 DEF Harmless
<1> HIDE DEF r
<1> QED
  BY <1>1, <1>2, <1>3, <1>4, <1>5, QuietKind, TypeParts

\* save_group up to its UPDATE proposes a change of the row it has just read.
LEMMA SubmitKind ==
  ASSUME TypeOK, NothingBefore, NEW a \in Admin, NEW g \in Group, NEW want \in Values,
         Submit(a, g, want)
  PROVE  StepKind
<1> DEFINE goes_on == /\ row.revision = req[a].revision
                      /\ Accepts(row.values, want)
                      /\ Changes(row.values, want) # {}
           next == [req[a] EXCEPT !.pc = "update", !.old = row.values, !.want = want]
           r == IF goes_on THEN next ELSE Blank
<1>1. a \in Saver
  BY DEF Saver
<1>2. Abreast(req[a], row.revision, credential.version) /\ req[a] \in Requests
  BY <1>1, RowFields DEF Abreast
<1>3. Quiet(a, r) /\ undo' = undo /\ req[a].pc = "form"
  BY <1>1, <1>2 DEF Submit, Quiet, Requests
<1>4. CASE goes_on
  <2>1. /\ next \in Requests /\ next.pc = "update"
        /\ next.revision = req[a].revision /\ next.version = req[a].version
        /\ next.old = row.values /\ next.want = want
    BY <1>2, RowFields DEF Requests
  <2>2. Abreast(next, row.revision, credential.version)
    BY <1>2, <2>1 DEF Abreast
  <2>3. next.old # next.want
    BY <1>4, <2>1 DEF Changes
  <2>4. Harmless(a, next) /\ r = next
    BY <1>4, <2>1, <2>3 DEF Harmless, Proposal
  <2> HIDE DEF next, r
  <2> QED
    BY <1>1, <1>3, <2>1, <2>2, <2>4, QuietKind, TypeParts
<1>5. CASE ~goes_on
  <2>1. r = Blank /\ Harmless(a, Blank)
    BY <1>5 DEF Harmless, Blank
  <2> HIDE DEF r
  <2> QED
    BY <1>1, <1>3, <2>1, QuietKind, TypeParts, RowFields
<1> QED
  BY <1>4, <1>5

\* The UPDATE of save_group, or the conflict that ends the request.
LEMMA SaveKind ==
  ASSUME TypeOK, NothingBefore, NEW a \in Admin, Save(a)
  PROVE  StepKind
<1>1. a \in Saver
  BY DEF Saver
<1>2. CASE Written(a, "idle")
  BY <1>1, <1>2 DEF Save, StepKind
<1>3. CASE ~Written(a, "idle")
  <2>1. Quiet(a, Blank) /\ undo' = undo /\ req[a].pc = "update"
    BY <1>3 DEF Save, Quiet
  <2>2. Harmless(a, Blank)
    BY DEF Harmless, Blank
  <2> QED
    BY <1>1, <2>1, <2>2, QuietKind, TypeParts, RowFields
<1> QED
  BY <1>2, <1>3

\* replace_token names its event by the credential it has just read.
LEMMA AskTokenKind ==
  ASSUME TypeOK, NothingBefore, NEW a \in Admin, NEW disable \in BOOLEAN,
         AskToken(a, disable)
  PROVE  StepKind
<1> DEFINE event == IF disable THEN "token_disabled"
                    ELSE IF credential.token # 0 THEN "token_replaced" ELSE "token_created"
           r == [req[a] EXCEPT !.pc = "token", !.event = event]
<1>1. a \in Saver
  BY DEF Saver
<1>2. Abreast(req[a], row.revision, credential.version) /\ req[a] \in Requests
  BY <1>1, RowFields DEF Abreast
<1>3. Quiet(a, r) /\ undo' = undo /\ req[a].pc = "form"
  BY <1>1, <1>2, TypeParts DEF AskToken, EventName, Quiet, Requests, RequestsOK
<1>4. event \in TokenEvent
  BY DEF TokenEvent
<1>5. /\ r \in Requests /\ r.pc = "token" /\ r.event = event
      /\ r.revision = req[a].revision /\ r.version = req[a].version
  BY <1>2, <1>4 DEF Requests
<1>6. Abreast(r, row.revision, credential.version)
  BY <1>2, <1>5 DEF Abreast
<1>7. Harmless(a, r)
  BY <1>5 DEF Harmless, TokenAsked
<1> HIDE DEF r
<1> QED
  BY <1>1, <1>3, <1>5, <1>6, <1>7, QuietKind, TypeParts

\* The UPDATE of replace_token, or the conflict that ends the request.
LEMMA ReplaceTokenKind ==
  ASSUME TypeOK, NothingBefore, NEW a \in Admin, ReplaceToken(a)
  PROVE  StepKind
<1>1. a \in Saver
  BY DEF Saver
<1>2. CASE SameVersion(a)
  <2>1. Rotated(a)
    BY <1>2 DEF ReplaceToken, Rotated, NewRotation
  <2> QED
    BY <2>1 DEF StepKind
<1>3. CASE ~SameVersion(a)
  <2>1. Quiet(a, Blank) /\ undo' = undo /\ req[a].pc = "token"
    BY <1>3 DEF ReplaceToken, Quiet
  <2>2. Harmless(a, Blank)
    BY DEF Harmless, Blank
  <2> QED
    BY <1>1, <2>1, <2>2, QuietKind, TypeParts, RowFields
<1> QED
  BY <1>2, <1>3

\* What settings rollback holds after it has read the row.
LEMMA LoadedType ==
  ASSUME TypeOK
  PROVE  /\ Loaded \in Requests /\ Abreast(Loaded, row.revision, credential.version)
         /\ \A p \in Saver : Harmless(p, Loaded)
<1>1. /\ Loaded \in Requests /\ Loaded.revision = row.revision
      /\ Loaded.version = 0
  BY RowFields DEF Loaded, Requests, Blank
<1> QED
  BY <1>1, RowFields DEF Abreast, Harmless

\* settings rollback collects the entries to undo.
LEMMA RollbackStartKind ==
  ASSUME TypeOK, NothingBefore, NEW target \in 0..MaxRevision, RollbackStart(target)
  PROVE  StepKind
<1>1. Quiet(Cli, Loaded) /\ row.revision > 0 /\ Cli \in Saver
  BY DEF RollbackStart, Quiet, Saver
<1>2. \A i \in DOMAIN audit : audit[i] \in EntryType
  BY TypeParts
<1>3. undo' \in [todo : SUBSET EntryType, target : Nat, expected : Nat]
  BY <1>2, RowFields, BoundsAssumption DEF RollbackStart
<1> QED
  BY <1>1, <1>3, LoadedType, QuietKind

\* One turn of the rollback's loop.
LEMMA UndoNextKind ==
  ASSUME TypeOK, NothingBefore, UndoNext
  PROVE  StepKind
<1>1. Cli \in Saver
  BY DEF Saver
<1>2. Abreast(req[Cli], row.revision, credential.version) /\ req[Cli] \in Requests
  BY <1>1, RowFields DEF Abreast
<1>3. req[Cli].pc = "undo" /\ UNCHANGED <<row, credential, audit>>
  BY DEF UndoNext
<1>4. CASE undo.todo = {} /\ req' = [req EXCEPT ![Cli].pc = "done"] /\ UNCHANGED undo
  <2> DEFINE r == [req[Cli] EXCEPT !.pc = "done"]
  <2>1. Quiet(Cli, r)
    BY <1>1, <1>2, <1>3, <1>4, TypeParts DEF Quiet, Requests, RequestsOK
  <2>2. r \in Requests /\ r.pc = "done" /\ r.revision = req[Cli].revision
                       /\ r.version = req[Cli].version
    BY <1>2 DEF Requests
  <2>3. Abreast(r, row.revision, credential.version) /\ Harmless(Cli, r)
    BY <1>2, <2>2 DEF Abreast, Harmless
  <2> HIDE DEF r
  <2> QED
    BY <1>1, <1>3, <1>4, <2>1, <2>2, <2>3, QuietKind, TypeParts
<1>5. CASE \E e \in undo.todo :
             LET old == req[Cli].old
                 want == [f \in Field |-> IF f \in e.fields THEN e.old[f] ELSE old[f]]
             IN /\ NextToUndo(e)
                /\ req' = [req EXCEPT ![Cli].pc = IF ~Accepts(old, want) THEN "failed"
                                                  ELSE IF old = want THEN "refresh"
                                                  ELSE "update",
                                      ![Cli].want = want]
                /\ undo' = IF Accepts(old, want) THEN [undo EXCEPT !.todo = @ \ {e}] ELSE undo
  <2> DEFINE old == req[Cli].old
             wanted(e) == [f \in Field |-> IF f \in e.fields THEN e.old[f] ELSE old[f]]
             pc(e) == IF ~Accepts(old, wanted(e)) THEN "failed"
                      ELSE IF old = wanted(e) THEN "refresh" ELSE "update"
             next(e) == [req[Cli] EXCEPT !.pc = pc(e), !.want = wanted(e)]
  <2>1. PICK e \in undo.todo :
          /\ req' = [req EXCEPT ![Cli].pc = pc(e), ![Cli].want = wanted(e)]
          /\ undo' = IF Accepts(old, wanted(e)) THEN [undo EXCEPT !.todo = @ \ {e}] ELSE undo
    BY <1>5
  <2>2. e \in EntryType /\ old \in Values /\ e.old \in Values
    BY <1>2, TypeParts DEF EntryType, Requests
  <2>3. wanted(e) \in Values
    BY <2>2 DEF Values
  <2>4. undo' \in [todo : SUBSET EntryType, target : Nat, expected : Nat]
    BY <2>1, TypeParts
  <2>5. pc(e) \in {"failed", "refresh", "update"} /\ (pc(e) = "update" => old # wanted(e))
    OBVIOUS
  <2> HIDE DEF wanted, pc
  <2>6. Quiet(Cli, next(e))
    BY <1>1, <1>2, <1>3, <2>1, TypeParts DEF Quiet, Requests, RequestsOK
  <2>7. /\ next(e) \in Requests /\ next(e).pc = pc(e) /\ next(e).want = wanted(e)
        /\ next(e).old = old /\ next(e).revision = req[Cli].revision
        /\ next(e).version = req[Cli].version
    BY <1>2, <2>3, <2>5 DEF Requests
  <2>8. Abreast(next(e), row.revision, credential.version)
    BY <1>2, <2>7 DEF Abreast
  <2>9. Harmless(Cli, next(e))
    BY <1>3, <2>5, <2>7 DEF Harmless, Proposal
  <2> HIDE DEF next
  <2> QED
    BY <1>1, <1>3, <2>4, <2>6, <2>7, <2>8, <2>9, QuietKind
<1> QED
  BY <1>4, <1>5 DEF UndoNext

\* The UPDATE of the rollback's save_group, or the conflict that stops it.
LEMMA UndoSaveKind ==
  ASSUME TypeOK, NothingBefore, UndoSave
  PROVE  StepKind
<1>1. Cli \in Saver
  BY DEF Saver
<1>2. CASE Written(Cli, "refresh")
  BY <1>1, <1>2 DEF UndoSave, StepKind
<1>3. CASE ~Written(Cli, "refresh")
  <2> DEFINE r == [req[Cli] EXCEPT !.pc = "failed"]
  <2>1. Abreast(req[Cli], row.revision, credential.version) /\ req[Cli] \in Requests
    BY <1>1, RowFields DEF Abreast
  <2>2. Quiet(Cli, r) /\ undo' = undo /\ req[Cli].pc = "update"
    BY <1>1, <1>3, <2>1, TypeParts DEF UndoSave, Quiet, Requests, RequestsOK
  <2>3. r \in Requests /\ r.pc = "failed" /\ r.revision = req[Cli].revision
                       /\ r.version = req[Cli].version
    BY <2>1 DEF Requests
  <2>4. Abreast(r, row.revision, credential.version) /\ Harmless(Cli, r)
    BY <2>1, <2>3 DEF Abreast, Harmless
  <2> HIDE DEF r
  <2> QED
    BY <1>1, <2>2, <2>3, <2>4, QuietKind, TypeParts
<1> QED
  BY <1>2, <1>3

\* db.refresh(row)
LEMMA UndoRefreshKind ==
  ASSUME TypeOK, NothingBefore, UndoRefresh
  PROVE  StepKind
<1>1. Cli \in Saver /\ Quiet(Cli, Loaded) /\ undo' = undo /\ req[Cli].pc = "refresh"
  BY DEF UndoRefresh, Quiet, Saver
<1> QED
  BY <1>1, LoadedType, QuietKind, TypeParts

\* Every step of the specification is of one of the kinds.
LEMMA EveryStepKind ==
  ASSUME TypeOK, NothingBefore, Next
  PROVE  StepKind
<1>1. CASE \E env \in Values, token \in {0, 1} : Initialize(env, token)
  BY <1>1 DEF StepKind
<1>2. ASSUME NEW a \in Admin, OpenPage(a) \/ Save(a) \/ ReplaceToken(a)
      PROVE  StepKind
  BY <1>2, OpenPageKind, SaveKind, ReplaceTokenKind
<1>3. ASSUME NEW a \in Admin, NEW g \in Group, NEW want \in Values, Submit(a, g, want)
      PROVE  StepKind
  BY <1>3, SubmitKind
<1>4. ASSUME NEW a \in Admin, NEW disable \in BOOLEAN, AskToken(a, disable)
      PROVE  StepKind
  BY <1>4, AskTokenKind
<1>5. ASSUME NEW target \in 0..MaxRevision, RollbackStart(target)
      PROVE  StepKind
  BY <1>5, RollbackStartKind
<1>6. CASE UndoNext \/ UndoSave \/ UndoRefresh
  BY <1>6, UndoNextKind, UndoSaveKind, UndoRefreshKind
<1> QED
  BY <1>1, <1>2, <1>3, <1>4, <1>5, <1>6 DEF Next

(***************************************************************************)
(* Invariants.                                                             *)
(***************************************************************************)

\* The initial state satisfies the inductive invariant.
LEMMA InitInv == Init => Inv
<1> SUFFICES ASSUME Init PROVE Inv
  OBVIOUS
<1>1. /\ row = [revision |-> 0, values |-> NoValues]
      /\ credential = [token |-> 0, version |-> 0]
      /\ audit = <<>> /\ undo = [todo |-> {}, target |-> 0, expected |-> 0]
      /\ req = [p \in Saver |-> Blank]
  BY DEF Init
<1>2. Blank \in Requests /\ Blank.pc = "idle" /\ Blank.revision = 0 /\ Blank.version = 0
  BY BlankType DEF Requests, Blank
<1>3. row \in RowType /\ credential \in CredentialType
  BY <1>1, BlankType DEF RowType, CredentialType
<1>4. RequestsOK(req, row.revision, credential.version)
  BY <1>1, <1>2 DEF RequestsOK
<1>5. audit \in Seq(EntryType)
  BY <1>1
<1>6. undo \in [todo : SUBSET EntryType, target : Nat, expected : Nat]
  BY <1>1
<1>7. TypeOK
  BY <1>3, <1>4, <1>5, <1>6, TypeParts
<1>8. NothingBefore /\ ProposalsChange
  BY <1>1, <1>2 DEF NothingBefore, ProposalsChange
<1> QED
  BY <1>7, <1>8 DEF Inv

\* Every step keeps the types.
LEMMA TypeStep ==
  ASSUME Inv, Next
  PROVE  TypeOK'
<1> USE DEF Inv
<1>1. CASE \E env \in Values, token \in {0, 1} : Initialize(env, token)
  BY <1>1, InitializeType
<1>2. CASE \E p \in Saver, pc \in {"idle", "refresh"} :
             req[p].pc = "update" /\ Written(p, pc) /\ UNCHANGED <<credential, undo>>
  BY <1>2, WrittenType
<1>3. CASE \E a \in Admin : Rotated(a)
  BY <1>3, RotatedType
<1>4. CASE /\ undo' \in [todo : SUBSET EntryType, target : Nat, expected : Nat]
           /\ \E p \in Saver, r \in Requests :
                Abreast(r, row.revision, credential.version) /\ Quiet(p, r)
  BY <1>4, RequestStep DEF Quiet
<1> QED
  BY <1>1, <1>2, <1>3, <1>4, EveryStepKind DEF StepKind

\* What a step leaves of the requests: those it does not touch are the same,
\* and the one it touches is Blank, refreshing, or what a quiet step made of it.
LEMMA RequestAfter ==
  ASSUME TypeOK, NEW p \in Saver, NEW r, req' = [req EXCEPT ![p] = r]
  PROVE  \A q \in Saver : req'[q] = IF q = p THEN r ELSE req[q]
  BY TypeParts DEF RequestsOK

\* After the UPDATE of a save nobody has a proposal of the new revision.
LEMMA WrittenRequests ==
  ASSUME TypeOK, NEW p \in Saver, NEW pc \in {"idle", "refresh"}, Written(p, pc)
  PROVE  \A q \in Saver : req'[q].pc = (IF q = p THEN pc ELSE req[q].pc)
                          /\ (q # p => req'[q] = req[q])
<1>1. req' = [req EXCEPT ![p] = [Blank EXCEPT !.pc = pc]]
  BY DEF Written
<1>2. \A q \in Saver : req'[q] = IF q = p THEN [Blank EXCEPT !.pc = pc] ELSE req[q]
  BY <1>1, RequestAfter
<1>3. [Blank EXCEPT !.pc = pc].pc = pc
  BY DEF Blank
<1> QED
  BY <1>2, <1>3

\* The row's revision after a save or an import.
LEMMA WrittenRow ==
  ASSUME TypeOK, NEW p \in Saver, NEW pc, Written(p, pc)
  PROVE  row'.revision = row.revision + 1 /\ req[p].revision = row.revision
  BY RowFields DEF Written, SameRevision

\* The inductive invariant survives every step.
LEMMA InvStep ==
  ASSUME Inv, Next
  PROVE  Inv'
<1> USE DEF Inv
<1>1. TypeOK'
  BY TypeStep
<1>2. CASE \E env \in Values, token \in {0, 1} : Initialize(env, token)
  BY <1>1, <1>2 DEF Initialize, NothingBefore, ProposalsChange
<1>3. ASSUME NEW p \in Saver, NEW pc \in {"idle", "refresh"},
             req[p].pc = "update", Written(p, pc)
      PROVE  Inv'
  <2>1. row'.revision # 0
    BY <1>3, WrittenRow, RowFields
  <2>2. ProposalsChange'
    BY <1>3, WrittenRequests DEF ProposalsChange, Changes
  <2> QED
    BY <1>1, <2>1, <2>2 DEF NothingBefore
<1>4. ASSUME NEW a \in Admin, Rotated(a)
      PROVE  Inv'
  <2>1. a \in Saver /\ req' = [req EXCEPT ![a] = Blank] /\ req[a].pc = "token" /\ row' = row
    BY <1>4 DEF Rotated, Saver
  <2>2. \A q \in Saver : req'[q] = IF q = a THEN Blank ELSE req[q]
    BY <2>1, RequestAfter
  <2>3. ProposalsChange'
    BY <2>2 DEF ProposalsChange, Changes, Blank
  <2>4. row.revision # 0
    BY <2>1 DEF NothingBefore
  <2> QED
    BY <1>1, <2>1, <2>3, <2>4 DEF NothingBefore
<1>5. ASSUME row.revision > 0, NEW p \in Saver, NEW r \in Requests,
             Quiet(p, r), Harmless(p, r)
      PROVE  Inv'
  <2>1. \A q \in Saver : req'[q] = IF q = p THEN r ELSE req[q]
    BY <1>5, RequestAfter DEF Quiet
  <2>2. r.pc = "update" => r.old # r.want
    BY <1>5, RowFields DEF Harmless, Proposal, TokenAsked, Loaded, Blank
  <2>3. r.pc = "update" => Changes(r.old, r.want) # {}
    BY <2>2 DEF Requests, Values, Changes
  <2>4. ProposalsChange'
    BY <2>1, <2>3 DEF ProposalsChange, Changes
  <2>5. row'.revision # 0
    BY <1>5, RowFields DEF Quiet
  <2> QED
    BY <1>1, <2>4, <2>5 DEF NothingBefore
<1> QED
  BY <1>2, <1>3, <1>4, <1>5, EveryStepKind DEF StepKind

\* A stuttering step keeps it too.
LEMMA InvStutters ==
  ASSUME Inv, UNCHANGED vars
  PROVE  Inv'
  BY DEF Inv, TypeOK, NothingBefore, ProposalsChange, Changes, vars

\* The inductive invariant holds throughout.
LEMMA Invariance == Spec => []Inv
<1>1. Init => Inv
  BY InitInv
<1>2. Inv /\ [Next]_vars => Inv'
  BY InvStep, InvStutters
<1> QED
  BY <1>1, <1>2, PTL DEF Spec

\* The rows, the requests and the audit table keep their types, and no page,
\* form or command is ahead of the rows (app/services/settings.py).
THEOREM SettingsTypeCorrect == Spec => []TypeOK
<1>1. Inv => TypeOK
  BY DEF Inv
<1> QED
  BY <1>1, Invariance, PTL

(***************************************************************************)
(* The audit table accounts for every revision.                            *)
(***************************************************************************)

\* The entry of the next revision continues the trail.
LEMMA TrailGrows ==
  ASSUME TypeOK, RevisionTrail, NEW e \in EntryType, IsStep(e),
         e.revision = row.revision + 1, audit' = Append(audit, e),
         row'.revision = row.revision + 1
  PROVE  RevisionTrail'
<1> DEFINE last == Len(audit) + 1
<1>1. /\ DOMAIN audit = 1..Len(audit) /\ Len(audit) \in Nat
      /\ DOMAIN audit' = 1..last
      /\ \A i \in DOMAIN audit : audit'[i] = audit[i]
      /\ audit'[last] = e
  BY Appended, TypeParts
<1>2. Steps' = Steps \cup {last} /\ Steps \subseteq DOMAIN audit
  BY <1>1 DEF Steps, IsStep, IsSave
<1>3. \A i \in Steps : audit'[i] = audit[i] /\ i < last /\ i \in Nat
                       /\ audit[i].revision \in 1..row.revision
  BY <1>1, <1>2 DEF RevisionTrail
<1>4. row.revision \in Nat
  BY RowFields
<1>5. \A n \in 1..row'.revision : \E i \in Steps' : audit'[i].revision = n
  <2> SUFFICES ASSUME NEW n \in 1..(row.revision + 1)
               PROVE  \E i \in Steps' : audit'[i].revision = n
    OBVIOUS
  <2>1. CASE n \in 1..row.revision
    BY <1>2, <1>3, <2>1 DEF RevisionTrail
  <2>2. CASE n = row.revision + 1
    BY <1>1, <1>2, <2>2
  <2>3. ASSUME NEW m \in Nat
        PROVE  \A k \in 1..(m + 1) : k \in 1..m \/ k = m + 1
    OBVIOUS
  <2> QED
    BY <1>4, <2>1, <2>2, <2>3
<1>6. \A i, j \in Steps' : i < j => audit'[i].revision < audit'[j].revision
  <2> SUFFICES ASSUME NEW i \in Steps', NEW j \in Steps', i < j
               PROVE  audit'[i].revision < audit'[j].revision
    OBVIOUS
  <2>1. i \in Steps
    BY <1>1, <1>2, <1>3
  <2>2. CASE j \in Steps
    BY <1>3, <2>1, <2>2 DEF RevisionTrail
  <2>3. CASE j = last
    <3>1. audit'[i] = audit[i] /\ audit[i].revision \in 1..row.revision
      BY <1>3, <2>1
    <3>2. audit'[j].revision = row.revision + 1
      BY <1>1, <2>3
    <3>3. \A m \in Nat : \A k \in 1..m : k < m + 1
      OBVIOUS
    <3> QED
      BY <1>4, <3>1, <3>2, <3>3
  <2> QED
    BY <1>2, <2>2, <2>3
<1>7. \A i \in Steps' : audit'[i].revision \in 1..row'.revision
  BY <1>1, <1>2, <1>3, <1>4
<1> QED
  BY <1>5, <1>6, <1>7 DEF RevisionTrail

\* An entry that is no step leaves the steps as they are.
LEMMA StepsStay ==
  ASSUME TypeOK, NEW e \in EntryType, ~IsStep(e), audit' = Append(audit, e)
  PROVE  /\ Steps' = Steps /\ Steps \subseteq DOMAIN audit
         /\ \A i \in Steps : audit'[i] = audit[i]
<1>1. /\ DOMAIN audit = 1..Len(audit) /\ Len(audit) \in Nat
      /\ DOMAIN audit' = 1..(Len(audit) + 1)
      /\ \A i \in DOMAIN audit : audit'[i] = audit[i]
      /\ audit'[Len(audit) + 1] = e
  BY Appended, TypeParts
<1> QED
  BY <1>1 DEF Steps, IsStep, IsSave

\* Every step continues the trail or leaves it.
LEMMA TrailStep ==
  ASSUME Inv, RevisionTrail, Next
  PROVE  RevisionTrail'
<1> USE DEF Inv
<1>1. ASSUME NEW env \in Values, NEW token \in {0, 1}, Initialize(env, token)
      PROVE  RevisionTrail'
  <2> DEFINE e == Entry("initialization", Cli, 1, {}, env, env)
  <2>1. e \in EntryType
    BY DEF Entry, EntryType, Saver
  <2>2. IsStep(e) /\ e.revision = 1
    BY DEF Entry, IsStep
  <2>3. row.revision = 0 /\ row'.revision = 1 /\ audit' = Append(audit, e)
    BY <1>1 DEF Initialize
  <2> HIDE DEF e
  <2> QED
    BY <2>1, <2>2, <2>3, TrailGrows
<1>2. ASSUME NEW p \in Saver, NEW pc \in {"idle", "refresh"},
             req[p].pc = "update", Written(p, pc)
      PROVE  RevisionTrail'
  <2>1. row'.revision = row.revision + 1 /\ req[p].revision = row.revision
    BY <1>2, WrittenRow
  <2>2. audit' = Append(audit, NewSave(p)) /\ NewSave(p).revision = row.revision + 1
    BY <1>2, <2>1 DEF Written, NewSave, Entry
  <2> QED
    BY <1>2, <2>1, <2>2, NewSaveType, TrailGrows
<1>3. ASSUME NEW a \in Admin, Rotated(a)
      PROVE  RevisionTrail'
  <2>1. audit' = Append(audit, NewRotation(a)) /\ row' = row
    BY <1>3 DEF Rotated
  <2>2. NewRotation(a) \in EntryType /\ ~IsStep(NewRotation(a))
    BY <1>3, RotationType DEF Rotated
  <2>3. Steps' = Steps /\ \A i \in Steps : audit'[i] = audit[i]
    BY <2>1, <2>2, StepsStay
  <2> QED
    BY <2>1, <2>3 DEF RevisionTrail
<1>4. CASE UNCHANGED <<row, audit>>
  BY <1>4 DEF RevisionTrail, Steps
<1> QED
  BY <1>1, <1>2, <1>3, <1>4, EveryStepKind DEF StepKind, Quiet

\* However many administrators and rollbacks save at the same time, the audit
\* table has one entry for each revision of the row, in the order of the
\* revisions, and none for a revision that never was (save_group).
THEOREM RevisionsAccountedFor == Spec => []RevisionTrail
<1>1. Init => RevisionTrail
  BY DEF Init, RevisionTrail, Steps
<1>2. RevisionTrail /\ UNCHANGED vars => RevisionTrail'
  BY DEF RevisionTrail, Steps, vars
<1>3. Inv /\ RevisionTrail /\ [Next]_vars => RevisionTrail'
  BY <1>2, TrailStep
<1> QED
  BY <1>1, <1>3, Invariance, PTL DEF Spec

(***************************************************************************)
(* No save is overwritten unseen.                                          *)
(***************************************************************************)

\* What a writer holds for the settings of its revision stays what they are:
\* a save moves the row to a revision nobody has read yet.
LEMMA OldStep ==
  ASSUME Inv, OldIsRow, Next
  PROVE  OldIsRow'
<1> USE DEF Inv
<1>1. CASE \E env \in Values, token \in {0, 1} : Initialize(env, token)
  BY <1>1 DEF Initialize, NothingBefore, OldIsRow
<1>2. ASSUME NEW p \in Saver, NEW pc \in {"idle", "refresh"}, Written(p, pc)
      PROVE  OldIsRow'
  <2>1. /\ row'.revision = row.revision + 1
        /\ \A q \in Saver : req'[q].pc = (IF q = p THEN pc ELSE req[q].pc)
                            /\ (q # p => req'[q] = req[q])
    BY <1>2, WrittenRow, WrittenRequests
  <2>2. \A q \in Saver : req[q].revision \in Nat /\ req[q].revision <= row.revision
    BY RowFields DEF Abreast, Requests
  <2>3. \A q \in Saver : req[q].revision # row'.revision
    BY <2>1, <2>2, RowFields
  <2> QED
    BY <2>1, <2>3 DEF OldIsRow
<1>3. ASSUME NEW a \in Admin, Rotated(a)
      PROVE  OldIsRow'
  <2>1. a \in Saver /\ req' = [req EXCEPT ![a] = Blank] /\ row' = row
    BY <1>3 DEF Rotated, Saver
  <2>2. \A q \in Saver : req'[q] = IF q = a THEN Blank ELSE req[q]
    BY <2>1, RequestAfter
  <2> QED
    BY <2>1, <2>2 DEF OldIsRow, Blank
<1>4. ASSUME NEW p \in Saver, NEW r \in Requests, Quiet(p, r), Harmless(p, r)
      PROVE  OldIsRow'
  <2>1. row' = row /\ \A q \in Saver : req'[q] = IF q = p THEN r ELSE req[q]
    BY <1>4, RequestAfter DEF Quiet
  <2>2. r.pc \in {"update", "undo"} /\ r.revision = row.revision => r.old = row.values
    <3>1. CASE r.pc \notin {"update", "undo"}
      BY <3>1
    <3>2. CASE r = Loaded
      BY <3>2 DEF Loaded, Blank
    <3>3. CASE Proposal(p, r)
      BY <3>3 DEF Proposal, OldIsRow
    <3> QED
      BY <1>4, <3>1, <3>2, <3>3 DEF Harmless, TokenAsked
  <2> QED
    BY <2>1, <2>2 DEF OldIsRow
<1> QED
  BY <1>1, <1>2, <1>3, <1>4, EveryStepKind DEF StepKind

\* An entry that starts from the values of the row, and says what they become,
\* continues the chain of each of its fields and leaves the others.
LEMMA ReplaysGrow ==
  ASSUME TypeOK, AuditReplays, NEW e \in EntryType, IsStep(e),
         audit' = Append(audit, e),
         \A f \in e.fields : e.old[f] = row.values[f] /\ row'.values[f] = e.new[f],
         \A f \in Field \ e.fields : row'.values[f] = row.values[f]
  PROVE  AuditReplays'
<1>1. /\ DOMAIN audit = 1..Len(audit) /\ Len(audit) \in Nat
      /\ DOMAIN audit' = 1..(Len(audit) + 1)
      /\ \A i \in DOMAIN audit : audit'[i] = audit[i] /\ audit[i] \in EntryType
      /\ audit'[Len(audit) + 1] = e
  BY Appended, TypeParts
<1>2. PICK last \in Nat : last = Len(audit) + 1
  BY <1>1
<1>3. /\ \A i \in DOMAIN audit : audit'[i] = audit[i] /\ audit[i] \in EntryType
      /\ audit'[last] = e
  BY <1>1, <1>2
<1>4. /\ DOMAIN audit' = DOMAIN audit \cup {last}
      /\ \A i \in DOMAIN audit : i \in Nat /\ i < last /\ ~(last < i)
  BY <1>1, <1>2
<1>5. Steps' = Steps \cup {last} /\ Steps \subseteq DOMAIN audit
  BY <1>3, <1>4 DEF Steps, IsStep, IsSave
<1>6. \A i \in DOMAIN audit, f \in Field : Touches(i, f)' <=> Touches(i, f)
  BY <1>3, <1>4, <1>5 DEF Touches
<1>7. \A f \in Field : Touches(last, f)' <=> f \in e.fields
  BY <1>3, <1>5 DEF Touches
<1> SUFFICES ASSUME NEW i \in Steps', NEW f \in audit'[i].fields
             PROVE  \/ /\ \A j \in DOMAIN audit' : j > i => ~Touches(j, f)'
                       /\ row'.values[f] = audit'[i].new[f]
                    \/ \E j \in DOMAIN audit' :
                         /\ j > i /\ Touches(j, f)'
                         /\ \A k \in DOMAIN audit' : i < k /\ k < j => ~Touches(k, f)'
                         /\ audit'[j].old[f] = audit'[i].new[f]
  BY DEF AuditReplays
<1>8. CASE i = last
  BY <1>3, <1>4, <1>8
<1>9. CASE i \in Steps
  <2>1. i \in DOMAIN audit /\ audit'[i] = audit[i] /\ f \in audit[i].fields /\ f \in Field
    BY <1>3, <1>5, <1>9 DEF EntryType
  <2>2. CASE /\ \A j \in DOMAIN audit : j > i => ~Touches(j, f)
             /\ row.values[f] = audit[i].new[f]
    <3>1. CASE f \in e.fields
      <4>1. last \in DOMAIN audit' /\ last > i /\ Touches(last, f)'
        BY <1>4, <1>7, <2>1, <3>1
      <4>2. \A k \in DOMAIN audit' : i < k /\ k < last => ~Touches(k, f)'
        BY <1>4, <1>6, <2>1, <2>2
      <4>3. audit'[last].old[f] = audit'[i].new[f]
        BY <1>3, <2>1, <2>2, <3>1
      <4> QED
        BY <4>1, <4>2, <4>3
    <3>2. CASE f \notin e.fields
      <4>1. \A j \in DOMAIN audit' : j > i => ~Touches(j, f)'
        BY <1>4, <1>6, <1>7, <2>1, <2>2, <3>2
      <4>2. row'.values[f] = audit'[i].new[f]
        BY <2>1, <2>2, <3>2
      <4> QED
        BY <4>1, <4>2
    <3> QED
      BY <3>1, <3>2
  <2>3. CASE \E j \in DOMAIN audit :
               /\ j > i /\ Touches(j, f)
               /\ \A k \in DOMAIN audit : i < k /\ k < j => ~Touches(k, f)
               /\ audit[j].old[f] = audit[i].new[f]
    <3>1. PICK j \in DOMAIN audit :
               /\ j > i /\ Touches(j, f)
               /\ \A k \in DOMAIN audit : i < k /\ k < j => ~Touches(k, f)
               /\ audit[j].old[f] = audit[i].new[f]
      BY <2>3
    <3>2. j \in DOMAIN audit' /\ Touches(j, f)' /\ audit'[j].old[f] = audit'[i].new[f]
      BY <1>3, <1>4, <1>6, <2>1, <3>1
    <3>3. \A k \in DOMAIN audit' : i < k /\ k < j => ~Touches(k, f)'
      BY <1>4, <1>6, <2>1, <3>1
    <3> QED
      BY <3>1, <3>2, <3>3
  <2> QED
    BY <1>9, <2>1, <2>2, <2>3 DEF AuditReplays
<1> QED
  BY <1>5, <1>8, <1>9

\* Every step continues the chains or leaves them.
LEMMA ReplaysStep ==
  ASSUME Inv, OldIsRow, AuditReplays, Next
  PROVE  AuditReplays'
<1> USE DEF Inv
<1>1. ASSUME NEW env \in Values, NEW token \in {0, 1}, Initialize(env, token)
      PROVE  AuditReplays'
  <2> DEFINE e == Entry("initialization", Cli, 1, {}, env, env)
  <2>1. e \in EntryType /\ e.fields = {}
    BY DEF Entry, EntryType, Saver
  <2>2. audit' = Append(<<>>, e)
    BY <1>1 DEF Initialize, NothingBefore
  <2> HIDE DEF e
  <2>3. DOMAIN audit' = {1} /\ audit'[1].fields = {}
    BY <2>1, <2>2
  <2> QED
    BY <2>3 DEF AuditReplays, Steps
<1>2. ASSUME NEW p \in Saver, NEW pc \in {"idle", "refresh"},
             req[p].pc = "update", Written(p, pc)
      PROVE  AuditReplays'
  <2> DEFINE e == NewSave(p)
  <2>1. req[p].revision = row.revision /\ req[p].old = row.values
    BY <1>2, WrittenRow DEF OldIsRow
  <2>2. /\ e.fields = Changes(req[p].old, req[p].want)
        /\ e.old = req[p].old /\ e.new = req[p].want
    BY DEF NewSave, Entry
  <2>3. \A f \in Field : row'.values[f] = IF f \in e.fields THEN req[p].want[f]
                                          ELSE row.values[f]
    BY <1>2, <2>2 DEF Written
  <2>4. e.fields \subseteq Field
    BY <2>2 DEF Changes
  <2>5. audit' = Append(audit, e) /\ e \in EntryType /\ IsStep(e)
    BY <1>2, NewSaveType DEF Written, NewSave
  <2> HIDE DEF e
  <2>6. \A f \in e.fields : e.old[f] = row.values[f] /\ row'.values[f] = e.new[f]
    BY <2>1, <2>2, <2>3, <2>4
  <2>7. \A f \in Field \ e.fields : row'.values[f] = row.values[f]
    BY <2>3
  <2> QED
    BY <2>5, <2>6, <2>7, ReplaysGrow
<1>3. ASSUME NEW a \in Admin, Rotated(a)
      PROVE  AuditReplays'
  <2>1. audit' = Append(audit, NewRotation(a)) /\ row' = row
    BY <1>3 DEF Rotated
  <2>2. NewRotation(a) \in EntryType /\ ~IsStep(NewRotation(a))
    BY <1>3, RotationType DEF Rotated
  <2>3. /\ Steps' = Steps /\ Steps \subseteq DOMAIN audit
        /\ \A i \in Steps : audit'[i] = audit[i]
    BY <2>1, <2>2, StepsStay
  <2>4. \A j, f : Touches(j, f)' <=> Touches(j, f)
    BY <2>3 DEF Touches
  <2>5. /\ DOMAIN audit \subseteq DOMAIN audit' /\ \A j \in DOMAIN audit : audit'[j] = audit[j]
    BY <2>1, <2>2, Appended, TypeParts
  <2>6. \A j, f : Touches(j, f) => j \in DOMAIN audit
    BY <2>3 DEF Touches
  <2> QED
    BY <2>1, <2>3, <2>4, <2>5, <2>6 DEF AuditReplays
<1>4. CASE UNCHANGED <<row, audit>>
  BY <1>4 DEF AuditReplays, Steps, Touches
<1> QED
  BY <1>1, <1>2, <1>3, <1>4, EveryStepKind DEF StepKind, Quiet

\* For every field the audit table chains: each entry starts from the value the
\* entry before it left, and the last one left the value in the row, although
\* save_group compares with a row it read before its UPDATE.
THEOREM NothingOverwrittenUnseen == Spec => []AuditReplays
<1>1. Init => OldIsRow /\ AuditReplays
  BY DEF Init, OldIsRow, AuditReplays, Steps, Blank
<1>2. OldIsRow /\ AuditReplays /\ UNCHANGED vars => OldIsRow' /\ AuditReplays'
  BY DEF OldIsRow, AuditReplays, Steps, Touches, vars
<1>3. Inv /\ OldIsRow /\ AuditReplays /\ [Next]_vars => OldIsRow' /\ AuditReplays'
  BY <1>2, OldStep, ReplaysStep
<1> QED
  BY <1>1, <1>3, Invariance, PTL DEF Spec

(***************************************************************************)
(* The audit table accounts for every token.                               *)
(***************************************************************************)

\* The name of a token event fits as long as the version of its page is the
\* credential's: a rotation moves it to a version no page has shown.
LEMMA EventStep ==
  ASSUME Inv, EventFits, Next
  PROVE  EventFits'
<1> USE DEF Inv
<1>1. CASE \E env \in Values, token \in {0, 1} : Initialize(env, token)
  BY <1>1 DEF Initialize, NothingBefore, EventFits
<1>2. ASSUME NEW p \in Saver, NEW pc \in {"idle", "refresh"}, Written(p, pc),
             UNCHANGED credential
      PROVE  EventFits'
  <2>1. \A q \in Saver : req'[q].pc = (IF q = p THEN pc ELSE req[q].pc)
                         /\ (q # p => req'[q] = req[q])
    BY <1>2, WrittenRequests
  <2> QED
    BY <1>2, <2>1 DEF EventFits
<1>3. ASSUME NEW a \in Admin, Rotated(a)
      PROVE  EventFits'
  <2>1. /\ a \in Saver /\ req' = [req EXCEPT ![a] = Blank]
        /\ credential'.version = credential.version + 1
    BY <1>3, RotationType DEF Rotated, Saver
  <2>2. \A q \in Saver : req'[q] = IF q = a THEN Blank ELSE req[q]
    BY <2>1, RequestAfter
  <2>3. \A q \in Saver : req[q].version \in Nat /\ req[q].version <= credential.version
    BY RowFields DEF Abreast, Requests
  <2>4. \A q \in Saver : req[q].version # credential'.version
    BY <2>1, <2>3, RowFields
  <2> QED
    BY <2>2, <2>4 DEF EventFits, Blank
<1>4. ASSUME NEW p \in Saver, NEW r \in Requests, Quiet(p, r), Harmless(p, r)
      PROVE  EventFits'
  <2>1. credential' = credential /\ \A q \in Saver : req'[q] = IF q = p THEN r ELSE req[q]
    BY <1>4, RequestAfter DEF Quiet
  <2>2. r.pc = "token" => \/ r.event = "token_disabled"
                          \/ r.event = IF credential.token # 0 THEN "token_replaced"
                                                               ELSE "token_created"
    BY <1>4 DEF Harmless, Proposal, TokenAsked, Loaded, Blank
  <2> QED
    BY <2>1, <2>2 DEF EventFits
<1> QED
  BY <1>1, <1>2, <1>3, <1>4, EveryStepKind DEF StepKind

\* An entry that is no token event leaves the rotations as they are.
LEMMA RotationsStay ==
  ASSUME TypeOK, NEW e \in EntryType, e.section \notin TokenEvent,
         audit' = Append(audit, e)
  PROVE  /\ Rotations' = Rotations /\ Rotations \subseteq DOMAIN audit
         /\ \A i \in Rotations : audit'[i] = audit[i]
<1>1. /\ DOMAIN audit = 1..Len(audit) /\ Len(audit) \in Nat
      /\ DOMAIN audit' = 1..(Len(audit) + 1)
      /\ \A i \in DOMAIN audit : audit'[i] = audit[i]
      /\ audit'[Len(audit) + 1] = e
  BY Appended, TypeParts
<1> QED
  BY <1>1 DEF Rotations

\* A rotation of the version the credential has, named by its token, continues
\* the trail.
LEMMA TokenTrailGrows ==
  ASSUME TypeOK, TokenTrail, EventFits, NEW a \in Admin, Rotated(a)
  PROVE  TokenTrail'
<1> DEFINE e == NewRotation(a)
           before == credential.version
<1>1. a \in Saver /\ req[a].pc = "token" /\ req[a].version = before /\ before \in Nat
  BY RowFields DEF Rotated, SameVersion, Saver
<1>2. /\ e \in EntryType /\ e.section \in TokenEvent /\ audit' = Append(audit, e)
      /\ e.section = req[a].event /\ e.revision = before + 1
  BY <1>1, RotationType DEF Rotated, NewRotation, Entry
<1>3. /\ credential'.version = before + 1
      /\ (e.section = "token_disabled") = (credential'.token = 0)
  BY <1>1, <1>2 DEF Rotated
<1>4. \/ e.section = "token_disabled"
      \/ e.section = IF credential.token # 0 THEN "token_replaced" ELSE "token_created"
  BY <1>1, <1>2 DEF EventFits
<1> HIDE DEF e
<1>5. /\ DOMAIN audit = 1..Len(audit) /\ Len(audit) \in Nat
      /\ DOMAIN audit' = 1..(Len(audit) + 1)
      /\ \A i \in DOMAIN audit : audit'[i] = audit[i] /\ audit[i] \in EntryType
      /\ audit'[Len(audit) + 1] = e
  BY <1>2, Appended, TypeParts
<1>6. PICK last \in Nat : last = Len(audit) + 1
  BY <1>5
<1>7. /\ Rotations' = Rotations \cup {last} /\ audit'[last] = e
      /\ \A i \in Rotations : /\ i \in Nat /\ i < last /\ audit'[i] = audit[i]
                              /\ audit[i].revision \in Nat
  BY <1>2, <1>5, <1>6 DEF Rotations, EntryType
<1>8. \A i \in Rotations : /\ audit[i].revision <= before
                           /\ audit[i].revision = before =>
                                (audit[i].section = "token_disabled") = (credential.token = 0)
  BY DEF TokenTrail
<1>9. \A n \in 2..credential'.version : \E i \in Rotations' : audit'[i].revision = n
  <2> SUFFICES ASSUME NEW n \in 2..(before + 1)
               PROVE  \E i \in Rotations' : audit'[i].revision = n
    BY <1>3
  <2>1. CASE n \in 2..before
    BY <1>7, <2>1 DEF TokenTrail
  <2>2. CASE n = before + 1
    BY <1>2, <1>7, <2>2
  <2>3. \A m \in Nat : \A k \in 2..(m + 1) : k \in 2..m \/ k = m + 1
    OBVIOUS
  <2> QED
    BY <1>1, <2>1, <2>2, <2>3
<1>10. \A i, j \in Rotations' :
         i < j => /\ audit'[i].revision < audit'[j].revision
                  /\ audit'[j].revision = audit'[i].revision + 1 =>
                       audit'[j].section #
                         IF audit'[i].section = "token_disabled" THEN "token_replaced"
                                                                 ELSE "token_created"
  <2> SUFFICES ASSUME NEW i \in Rotations', NEW j \in Rotations', i < j
               PROVE  /\ audit'[i].revision < audit'[j].revision
                      /\ audit'[j].revision = audit'[i].revision + 1 =>
                           audit'[j].section #
                             IF audit'[i].section = "token_disabled" THEN "token_replaced"
                                                                     ELSE "token_created"
    OBVIOUS
  <2>1. i \in Rotations
    BY <1>7
  <2>2. CASE j \in Rotations
    BY <1>7, <2>1, <2>2 DEF TokenTrail
  <2>3. CASE j = last
    <3>1. audit'[j] = e /\ audit'[i] = audit[i] /\ audit[i].revision \in Nat
      BY <1>7, <2>1, <2>3
    <3>2. audit'[i].revision < audit'[j].revision
      BY <1>1, <1>2, <1>8, <2>1, <3>1
    <3>3. ASSUME audit'[j].revision = audit'[i].revision + 1
          PROVE  (audit[i].section = "token_disabled") = (credential.token = 0)
      <4>1. audit[i].revision = before
        BY <1>1, <1>2, <3>1, <3>3
      <4> QED
        BY <1>8, <2>1, <4>1
    <3> QED
      BY <1>4, <3>1, <3>2, <3>3
  <2> QED
    BY <1>7, <2>2, <2>3
<1>11. \A i \in Rotations' :
         /\ audit'[i].revision <= credential'.version
         /\ audit'[i].revision = credential'.version =>
              (audit'[i].section = "token_disabled") = (credential'.token = 0)
  <2> SUFFICES ASSUME NEW i \in Rotations'
               PROVE  /\ audit'[i].revision <= credential'.version
                      /\ audit'[i].revision = credential'.version =>
                           (audit'[i].section = "token_disabled") = (credential'.token = 0)
    OBVIOUS
  <2>1. CASE i \in Rotations
    <3>1. audit'[i].revision \in Nat /\ audit'[i].revision <= before
      BY <1>7, <1>8, <2>1
    <3> QED
      BY <1>1, <1>3, <3>1
  <2>2. CASE i = last
    <3>1. audit'[i] = e
      BY <1>7, <2>2
    <3> QED
      BY <1>1, <1>2, <1>3, <3>1
  <2> QED
    BY <1>7, <2>1, <2>2
<1> QED
  BY <1>9, <1>10, <1>11 DEF TokenTrail

\* Every step continues the trail of the tokens or leaves it.
LEMMA TokenTrailStep ==
  ASSUME Inv, EventFits, TokenTrail, Next
  PROVE  TokenTrail'
<1> USE DEF Inv
<1>1. ASSUME NEW env \in Values, NEW token \in {0, 1}, Initialize(env, token)
      PROVE  TokenTrail'
  <2>1. audit = <<>> /\ credential'.version = 1
    BY <1>1 DEF Initialize, NothingBefore
  <2>2. Entry("initialization", Cli, 1, {}, env, env).section = "initialization"
    BY DEF Entry
  <2>3. DOMAIN audit' = {1} /\ audit'[1].section = "initialization"
    BY <1>1, <2>1, <2>2 DEF Initialize
  <2>4. Rotations' = {}
    BY <2>3 DEF Rotations, TokenEvent
  <2>5. 2..credential'.version = {}
    BY <2>1
  <2> QED
    BY <2>4, <2>5 DEF TokenTrail
<1>2. ASSUME NEW p \in Saver, NEW pc \in {"idle", "refresh"},
             req[p].pc = "update", Written(p, pc), UNCHANGED credential
      PROVE  TokenTrail'
  <2>1. /\ audit' = Append(audit, NewSave(p)) /\ NewSave(p) \in EntryType
        /\ NewSave(p).section \notin TokenEvent
    BY <1>2, NewSaveType DEF Written, NewSave
  <2>2. Rotations' = Rotations /\ \A i \in Rotations : audit'[i] = audit[i]
    BY <2>1, RotationsStay
  <2> QED
    BY <1>2, <2>2 DEF TokenTrail
<1>3. ASSUME NEW a \in Admin, Rotated(a)
      PROVE  TokenTrail'
  BY <1>3, TokenTrailGrows
<1>4. CASE UNCHANGED <<credential, audit>>
  BY <1>4 DEF TokenTrail, Rotations
<1> QED
  BY <1>1, <1>2, <1>3, <1>4, EveryStepKind DEF StepKind, Quiet

\* The audit table has one entry for each version of the API token, and each is
\* named by what it did, although replace_token chooses the name before its
\* UPDATE.
THEOREM TokensAccountedFor == Spec => []TokenTrail
<1>1. Init => EventFits /\ TokenTrail
  BY DEF Init, EventFits, TokenTrail, Rotations, Blank
<1>2. EventFits /\ TokenTrail /\ UNCHANGED vars => EventFits' /\ TokenTrail'
  BY DEF EventFits, TokenTrail, Rotations, vars
<1>3. Inv /\ EventFits /\ TokenTrail /\ [Next]_vars => EventFits' /\ TokenTrail'
  BY <1>2, EventStep, TokenTrailStep
<1> QED
  BY <1>1, <1>3, Invariance, PTL DEF Spec

(***************************************************************************)
(* A rollback that is alone stays on its course.                           *)
(***************************************************************************)

\* Nobody but the rollback has saved since it began.
Alone == \A i \in Steps : audit[i].revision > undo.expected => audit[i].actor = Cli

\* The rollback is of revisions that were reached, and what it has yet to undo
\* are all the saves between the revision it aims at and some later one.
TodoOK ==
  /\ undo.target <= undo.expected /\ undo.expected <= row.revision
  /\ \A e \in undo.todo : /\ undo.target < e.revision /\ e.revision <= undo.expected
                          /\ \E i \in Steps : IsSave(audit[i]) /\ audit[i] = e
  /\ \A e \in undo.todo, i \in Steps :
       IsSave(audit[i]) /\ undo.target < audit[i].revision /\ audit[i].revision <= e.revision
         => audit[i] \in undo.todo

\* The import changes no field.
ImportsChangeNothing ==
  \A i \in Steps : ~ IsSave(audit[i]) => audit[i].fields = {}

\* Where a rollback that is alone has got to.
CourseOK ==
  Alone =>
    /\ req[Cli].pc \in {"undo", "update"} => req[Cli].revision = row.revision
    /\ req[Cli].pc \in {"undo", "refresh", "done", "failed"}
         => row.values = ValuesAt(UndoneTo)
    /\ req[Cli].pc = "update" => req[Cli].want = ValuesAt(UndoneTo)

\* What every step keeps of it.
CourseInv == TodoOK /\ ImportsChangeNothing /\ CourseOK

\* One field of ValuesAt, of any log with steps S and any row.
Later(S, log, n, f) == {i \in S : log[i].revision > n /\ f \in log[i].fields}
ValueAt(S, log, values, n, f) ==
  LET later == Later(S, log, n, f)
  IN IF later = {} THEN values[f]
     ELSE log[CHOOSE i \in later : \A j \in later : i <= j].old[f]

\* ValuesAt is ValueAt of every field, in this state and in the next.
LEMMA ValuesAtFields ==
  /\ \A n : ValuesAt(n) = [f \in Field |-> ValueAt(Steps, audit, row.values, n, f)]
  /\ \A n : ValuesAt(n)' = [f \in Field |-> ValueAt(Steps', audit', row'.values, n, f)]
BY DEF ValuesAt, ValueAt, Later

\* The first later step tells the value, and there is a first one.
LEMMA ValueAtFacts ==
  ASSUME NEW S \in SUBSET Nat, NEW log, NEW values, NEW n, NEW f
  PROVE  /\ Later(S, log, n, f) = {} => ValueAt(S, log, values, n, f) = values[f]
         /\ \A i \in Later(S, log, n, f) : (\A j \in Later(S, log, n, f) : i <= j)
              => ValueAt(S, log, values, n, f) = log[i].old[f]
         /\ Later(S, log, n, f) # {} =>
              \E i \in Later(S, log, n, f) : \A j \in Later(S, log, n, f) : i <= j
<1> DEFINE later == Later(S, log, n, f)
           c == CHOOSE i \in later : \A j \in later : i <= j
<1>1. later \subseteq Nat  BY DEF Later
<1>2. later = {} => ValueAt(S, log, values, n, f) = values[f]  BY DEF ValueAt
<1>3. ASSUME NEW i \in later, \A j \in later : i <= j
      PROVE  ValueAt(S, log, values, n, f) = log[i].old[f]
  <2>1. c \in later /\ \A j \in later : c <= j  BY <1>3
  <2>2. c = i
    <3>1. c \in Nat /\ i \in Nat /\ c <= i /\ i <= c  BY <1>1, <1>3, <2>1
    <3>. QED  BY <3>1
  <2>3. ValueAt(S, log, values, n, f) = log[c].old[f]  BY <1>3 DEF ValueAt
  <2>. QED  BY <2>2, <2>3
<1>4. later # {} => \E i \in later : \A j \in later : i <= j  BY <1>1, LeastNatural
<1>. QED  BY <1>2, <1>3, <1>4

\* An entry at the end, which starts from the row, leaves the past as it was.
Grows(S, log, values, n, f, T, longer, changed, last) ==
  /\ S \in SUBSET Nat /\ T \in SUBSET Nat /\ last \in Nat
  /\ \A i : i \in T <=> i \in S \/ i = last
  /\ \A i \in S : longer[i] = log[i] /\ i < last
  /\ longer[last].revision > n
  /\ f \in longer[last].fields => longer[last].old[f] = values[f]
  /\ f \notin longer[last].fields => changed[f] = values[f]

LEMMA ValueAtGrows ==
  ASSUME NEW S, NEW log, NEW values, NEW n, NEW f, NEW T, NEW longer, NEW changed, NEW last,
         Grows(S, log, values, n, f, T, longer, changed, last)
  PROVE  ValueAt(T, longer, changed, n, f) = ValueAt(S, log, values, n, f)
<1> DEFINE before == Later(S, log, n, f)  after == Later(T, longer, n, f)
<1>1. after = IF f \in longer[last].fields THEN before \cup {last} ELSE before
  BY DEF Grows, Later
<1>2. /\ \A i \in before : i \in Nat /\ i < last /\ longer[i] = log[i]
      /\ S \in SUBSET Nat /\ T \in SUBSET Nat /\ last \in Nat
      /\ f \in longer[last].fields => longer[last].old[f] = values[f]
      /\ f \notin longer[last].fields => changed[f] = values[f]
  BY DEF Grows, Later
<1>3. CASE before # {}
  <2>1. PICK i \in before : \A j \in before : i <= j  BY <1>2, <1>3, ValueAtFacts
  <2>2. i \in after /\ \A j \in after : i <= j
    <3>1. i <= last  BY <1>2, <2>1
    <3>. HIDE DEF before, after
    <3>. QED  BY <1>1, <2>1, <3>1
  <2>3. ValueAt(S, log, values, n, f) = log[i].old[f]  BY <1>2, <2>1, ValueAtFacts
  <2>4. ValueAt(T, longer, changed, n, f) = longer[i].old[f]  BY <1>2, <2>2, ValueAtFacts
  <2>. QED  BY <1>2, <2>1, <2>3, <2>4
<1>4. CASE before = {} /\ f \notin longer[last].fields
  BY <1>1, <1>2, <1>4, ValueAtFacts
<1>5. CASE before = {} /\ f \in longer[last].fields
  <2>1. after = {last}  BY <1>1, <1>5
  <2>2. last \in after /\ \A j \in after : last <= j  BY <1>2, <2>1
  <2>3. ValueAt(T, longer, changed, n, f) = longer[last].old[f]  BY <1>2, <2>2, ValueAtFacts
  <2>. QED  BY <1>2, <1>5, <2>3, ValueAtFacts
<1>. QED  BY <1>3, <1>4, <1>5

\* Only the entries of the steps tell what the past was.
LEMMA ValueAtSame ==
  ASSUME NEW S \in SUBSET Nat, NEW log, NEW values, NEW n, NEW f,
         NEW other, \A i \in S : other[i] = log[i]
  PROVE  ValueAt(S, other, values, n, f) = ValueAt(S, log, values, n, f)
<1>1. Later(S, other, n, f) = Later(S, log, n, f) /\ Later(S, log, n, f) \subseteq S
  BY DEF Later
<1>2. CASE Later(S, log, n, f) = {}
  BY <1>1, <1>2, ValueAtFacts
<1>3. CASE Later(S, log, n, f) # {}
  <2>1. PICK i \in Later(S, log, n, f) : \A j \in Later(S, log, n, f) : i <= j
    BY <1>3, ValueAtFacts
  <2>2. ValueAt(S, log, values, n, f) = log[i].old[f]  BY <2>1, ValueAtFacts
  <2>3. ValueAt(S, other, values, n, f) = other[i].old[f]  BY <1>1, <2>1, ValueAtFacts
  <2>. QED  BY <1>1, <2>1, <2>2, <2>3
<1>. QED  BY <1>2, <1>3

\* The steps are positions of the audit table.
LEMMA StepsType == TypeOK => Steps \in SUBSET Nat /\ Steps \subseteq DOMAIN audit
BY TypeParts, LenProperties DEF Steps

\* What an entry that a save appends leaves of the table.
LEMMA StepsGrow ==
  ASSUME TypeOK, NEW e \in EntryType, IsStep(e), audit' = Append(audit, e)
  PROVE  \E last \in Nat :
           /\ Steps' = Steps \cup {last} /\ audit'[last] = e
           /\ \A i \in Steps : audit'[i] = audit[i] /\ i < last
<1>1. /\ DOMAIN audit = 1..Len(audit) /\ Len(audit) \in Nat
      /\ DOMAIN audit' = 1..(Len(audit) + 1)
      /\ \A i \in DOMAIN audit : audit'[i] = audit[i]
      /\ audit'[Len(audit) + 1] = e
  BY Appended, TypeParts
<1>2. PICK last \in Nat : last = Len(audit) + 1  BY <1>1
<1>. QED  BY <1>1, <1>2 DEF Steps, IsStep, IsSave

\* Nobody's save changes what the settings of an earlier revision are.
LEMMA PastStays ==
  ASSUME TypeOK, NEW n \in Nat, n <= row.revision,
         NEW e \in EntryType, IsStep(e), e.revision = row.revision + 1,
         audit' = Append(audit, e),
         \A f \in e.fields : e.old[f] = row.values[f],
         \A f \in Field \ e.fields : row'.values[f] = row.values[f]
  PROVE  ValuesAt(n)' = ValuesAt(n)
<1>1. PICK last \in Nat :
        /\ Steps' = Steps \cup {last} /\ audit'[last] = e
        /\ \A i \in Steps : audit'[i] = audit[i] /\ i < last
  BY StepsGrow
<1>2. PICK T, longer, changed, S, log, values :
        /\ T = Steps' /\ longer = audit' /\ changed = row'.values
        /\ S = Steps /\ log = audit /\ values = row.values
  OBVIOUS
<1>3. e.revision > n  BY RowFields
<1>4. ASSUME NEW f \in Field
      PROVE  ValueAt(T, longer, changed, n, f) = ValueAt(S, log, values, n, f)
  <2>1. /\ T \in SUBSET Nat /\ S \in SUBSET Nat
        /\ \A i : i \in T <=> i \in S \/ i = last
        /\ \A i \in S : longer[i] = log[i] /\ i < last
    BY <1>1, <1>2, StepsType
  <2>2. /\ longer[last].revision > n
        /\ f \in longer[last].fields => longer[last].old[f] = values[f]
        /\ f \notin longer[last].fields => changed[f] = values[f]
    BY <1>1, <1>2, <1>3
  <2>3. Grows(S, log, values, n, f, T, longer, changed, last)
    BY <2>1, <2>2 DEF Grows
  <2>. QED  BY <2>3, ValueAtGrows
<1>. QED  BY <1>2, <1>4, ValuesAtFields

\* A token event does not either.
LEMMA PastFrame ==
  ASSUME TypeOK, UNCHANGED row, Steps' = Steps, \A i \in Steps : audit'[i] = audit[i]
  PROVE  \A n : ValuesAt(n)' = ValuesAt(n)
<1>1. PICK other \in {audit'} : \A i \in Steps : other[i] = audit[i]  OBVIOUS
<1>2. \A n : \A f \in Field : ValueAt(Steps, other, row.values, n, f)
                                = ValueAt(Steps, audit, row.values, n, f)
  BY <1>1, StepsType, ValueAtSame
<1>. QED  BY <1>1, <1>2, ValuesAtFields

\* Where a rollback that aims at `target` is with `todo` left.
DoneTo(todo, target) ==
  IF todo = {} THEN target
  ELSE (CHOOSE e \in todo : \A d \in todo : d.revision <= e.revision).revision

LEMMA DoneToFacts ==
  /\ UndoneTo = DoneTo(undo.todo, undo.target)
  /\ UndoneTo' = DoneTo(undo'.todo, undo'.target)
BY DEF UndoneTo, DoneTo

\* The newest of the entries left tells where.
LEMMA NewestTells ==
  ASSUME NEW todo \in SUBSET EntryType, NEW target, NEW e \in todo,
         \A d \in todo : d.revision <= e.revision
  PROVE  DoneTo(todo, target) = e.revision
<1> DEFINE c == CHOOSE x \in todo : \A d \in todo : d.revision <= x.revision
<1>1. c \in todo /\ \A d \in todo : d.revision <= c.revision  OBVIOUS
<1>2. c.revision = e.revision
  <2>1. c.revision \in Nat /\ e.revision \in Nat
        /\ c.revision <= e.revision /\ e.revision <= c.revision
    BY <1>1 DEF EntryType
  <2>. HIDE DEF c
  <2>. QED  BY <2>1
<1>3. DoneTo(todo, target) = c.revision  BY DEF DoneTo
<1>. QED  BY <1>2, <1>3

\* There is a newest one.
LEMMA NewestLeft ==
  ASSUME NEW todo \in SUBSET EntryType, todo # {}, NEW top \in Nat,
         \A e \in todo : e.revision <= top
  PROVE  \E e \in todo : \A d \in todo : d.revision <= e.revision
<1> DEFINE gaps == {top - e.revision : e \in todo}
<1>1. \A e \in todo : e.revision \in Nat  BY DEF EntryType
<1>2. gaps \subseteq Nat /\ gaps # {}  BY <1>1
<1>3. PICK x \in gaps : \A y \in gaps : x <= y
  <2>. HIDE DEF gaps
  <2>. QED  BY <1>2, LeastNatural
<1>4. PICK e \in todo : x = top - e.revision  OBVIOUS
<1>5. ASSUME NEW d \in todo PROVE d.revision <= e.revision
  <2>1. top - d.revision \in gaps  OBVIOUS
  <2>2. x <= top - d.revision  BY <1>3, <2>1
  <2>3. d.revision \in Nat /\ e.revision \in Nat  BY <1>1
  <2>. HIDE DEF gaps
  <2>. QED  BY <1>4, <2>2, <2>3
<1>. QED  BY <1>5

\* What is left to undo, and where the rollback is.
LEMMA TodoFacts ==
  ASSUME TypeOK, TodoOK
  PROVE  /\ undo.todo \in SUBSET EntryType /\ undo.target \in Nat /\ undo.expected \in Nat
         /\ \A e \in undo.todo : e.revision \in Nat /\ e.revision <= row.revision
         /\ UndoneTo \in Nat /\ UndoneTo <= row.revision
         /\ undo.todo = {} => UndoneTo = undo.target
         /\ \A e \in undo.todo : NextToUndo(e) => UndoneTo = e.revision
<1>1. /\ undo.todo \in SUBSET EntryType /\ undo.target \in Nat /\ undo.expected \in Nat
      /\ row.revision \in Nat
  BY TypeParts, RowFields
<1>2. \A e \in undo.todo : e.revision \in Nat /\ e.revision <= row.revision
  BY <1>1 DEF TodoOK, EntryType
<1>3. /\ undo.todo = {} => UndoneTo = undo.target
      /\ \A e \in undo.todo : (\A d \in undo.todo : d.revision <= e.revision)
              => UndoneTo = e.revision
      /\ undo.todo # {} => \E e \in undo.todo : \A d \in undo.todo : d.revision <= e.revision
  <2>1. undo.todo = {} => UndoneTo = undo.target  BY DEF UndoneTo
  <2>2. ASSUME NEW e \in undo.todo, \A d \in undo.todo : d.revision <= e.revision
        PROVE  UndoneTo = e.revision
    BY <1>1, <2>2, NewestTells, DoneToFacts
  <2>3. undo.todo # {} => \E e \in undo.todo : \A d \in undo.todo : d.revision <= e.revision
    BY <1>1, <1>2, NewestLeft
  <2>. QED  BY <2>1, <2>2, <2>3
<1>4. UndoneTo \in Nat /\ UndoneTo <= row.revision
  BY <1>1, <1>2, <1>3 DEF TodoOK
<1>. QED  BY <1>1, <1>2, <1>3, <1>4 DEF NextToUndo

\* Of two entries of the table the later has the later revision.
LEMMA OneEntry ==
  ASSUME TypeOK, RevisionTrail, NEW i \in Steps, NEW j \in Steps,
         audit[i].revision = audit[j].revision
  PROVE  i = j
<1>1. i \in Nat /\ j \in Nat  BY StepsType
<1>2. audit[i].revision \in Nat /\ audit[j].revision \in Nat
  BY RowFields DEF RevisionTrail
<1>3. ~ (i < j) /\ ~ (j < i)  BY <1>2 DEF RevisionTrail
<1>. QED  BY <1>1, <1>3

\* One revision back: when e is the only save after revision n up to its own,
\* the settings of n are those of e's revision with what e changed undone.
LEMMA OneBack ==
  ASSUME TypeOK, RevisionTrail, ImportsChangeNothing, NEW k \in Steps,
         NEW n \in Nat, n < audit[k].revision,
         \A i \in Steps : /\ IsSave(audit[i])
                          /\ n < audit[i].revision /\ audit[i].revision <= audit[k].revision
                          => audit[i] = audit[k]
  PROVE  ValuesAt(n) = [f \in Field |-> IF f \in audit[k].fields THEN audit[k].old[f]
                                        ELSE ValuesAt(audit[k].revision)[f]]
<1> DEFINE m == audit[k].revision
<1>1. Steps \in SUBSET Nat /\ m \in Nat /\ \A i \in Steps : audit[i].revision \in Nat
  BY StepsType, RowFields DEF RevisionTrail
<1>2. \A i \in Steps : \A f \in audit[i].fields :
        n < audit[i].revision /\ audit[i].revision <= m => i = k
  BY OneEntry DEF ImportsChangeNothing
<1> SUFFICES ASSUME NEW f \in Field
             PROVE  ValueAt(Steps, audit, row.values, n, f)
                      = IF f \in audit[k].fields THEN audit[k].old[f]
                        ELSE ValueAt(Steps, audit, row.values, m, f)
  BY ValuesAtFields
<1>3. CASE f \in audit[k].fields
  <2>1. k \in Later(Steps, audit, n, f)  BY <1>3 DEF Later
  <2>2. ASSUME NEW j \in Later(Steps, audit, n, f) PROVE k <= j
    <3>1. j \in Steps /\ n < audit[j].revision /\ f \in audit[j].fields  BY <1>1 DEF Later
    <3>2. j < k => audit[j].revision < m  BY <3>1 DEF RevisionTrail
    <3>3. ~ (j < k)  BY <1>1, <1>2, <3>1, <3>2
    <3>4. j \in Nat /\ k \in Nat  BY <1>1, <3>1
    <3>. QED  BY <3>3, <3>4
  <2>. QED  BY <1>1, <1>3, <2>1, <2>2, ValueAtFacts
<1>4. CASE f \notin audit[k].fields
  <2>1. \A j \in Steps : f \in audit[j].fields =>
          (n < audit[j].revision <=> m < audit[j].revision)
    BY <1>1, <1>2, <1>4
  <2>2. Later(Steps, audit, n, f) = Later(Steps, audit, m, f)
    BY <1>1, <2>1 DEF Later
  <2>. QED  BY <1>4, <2>2 DEF ValueAt
<1>. QED  BY <1>3, <1>4

\* One turn of the loop: with its newest entry off the list, a rollback that
\* puts back the values of that entry is at the next revision it undoes to.
LEMMA OneTurn ==
  ASSUME TypeOK, RevisionTrail, ImportsChangeNothing, TodoOK,
         NEW e \in undo.todo, NextToUndo(e)
  PROVE  LET n == DoneTo(undo.todo \ {e}, undo.target)
         IN ValuesAt(n) = [f \in Field |-> IF f \in e.fields THEN e.old[f]
                                           ELSE ValuesAt(UndoneTo)[f]]
<1> DEFINE left == undo.todo \ {e}  n == DoneTo(left, undo.target)
<1>1. PICK k \in Steps : audit[k] = e  BY DEF TodoOK
<1>2. /\ left \in SUBSET EntryType /\ undo.target \in Nat /\ e.revision \in Nat
      /\ \A d \in left : d.revision \in Nat /\ d.revision <= e.revision
      /\ UndoneTo = e.revision
  BY TodoFacts DEF NextToUndo
<1>3. ASSUME NEW d \in left PROVE d.revision < e.revision
  <2>1. PICK i \in Steps : audit[i] = d  BY DEF TodoOK
  <2>2. d.revision # e.revision  BY <1>1, <2>1, OneEntry
  <2>. QED  BY <1>2, <2>2
<1>4. \A i \in Steps : IsSave(audit[i]) /\ undo.target < audit[i].revision
                       /\ audit[i].revision <= e.revision
                       => audit[i] = e \/ audit[i] \in left
  BY DEF TodoOK
<1>5. CASE left = {}
  <2>1. n = undo.target  BY <1>5 DEF DoneTo
  <2>2. n \in Nat /\ n < e.revision  BY <1>2, <2>1 DEF TodoOK
  <2>. QED  BY <1>1, <1>2, <1>4, <1>5, <2>1, <2>2, OneBack
<1>6. CASE left # {}
  <2>1. PICK d \in left : \A x \in left : x.revision <= d.revision
    BY <1>2, <1>6, NewestLeft
  <2>2. n = d.revision  BY <1>2, <2>1, NewestTells
  <2>3. n \in Nat /\ n < e.revision /\ undo.target < n
    BY <1>2, <1>3, <2>1, <2>2 DEF TodoOK
  <2>4. ASSUME NEW i \in Steps, IsSave(audit[i]), n < audit[i].revision,
               audit[i].revision <= e.revision
        PROVE  audit[i] = e
    <3>1. audit[i].revision \in Nat  BY RowFields DEF RevisionTrail
    <3>2. undo.target < audit[i].revision  BY <1>2, <2>3, <2>4, <3>1
    <3>3. ~ (audit[i].revision <= d.revision)  BY <1>2, <2>2, <2>3, <2>4, <3>1
    <3>. QED  BY <1>4, <2>1, <2>4, <3>2, <3>3
  <2>. QED  BY <1>1, <1>2, <2>3, <2>4, OneBack
<1>. QED  BY <1>5, <1>6

\* ValuesAt(UndoneTo), in this state and in the next.
LEMMA CourseValues ==
  ASSUME NEW m
  PROVE  /\ m = UndoneTo => ValuesAt(UndoneTo) = ValuesAt(m)
         /\ m = UndoneTo' => ValuesAt(UndoneTo)' = ValuesAt(m)'
<1>1. ValuesAt(UndoneTo)' = [f \in Field |-> ValueAt(Steps', audit', row'.values, UndoneTo', f)]
  BY DEF ValuesAt, ValueAt, Later
<1>2. m = UndoneTo' => ValuesAt(UndoneTo)' = ValuesAt(m)'
  BY <1>1, ValuesAtFields
<1>3. m = UndoneTo => ValuesAt(UndoneTo) = ValuesAt(m)  BY DEF ValuesAt
<1>. QED  BY <1>2, <1>3

\* A step that saves nothing keeps what the rollback undoes, and the past.
LEMMA TableFrame ==
  ASSUME TypeOK, CourseInv, UNCHANGED <<row, undo>>, Steps' = Steps,
         \A i \in Steps : audit'[i] = audit[i]
  PROVE  /\ TodoOK' /\ ImportsChangeNothing' /\ (Alone' <=> Alone)
         /\ ValuesAt(UndoneTo)' = ValuesAt(UndoneTo)
<1>1. TodoOK'  BY DEF CourseInv, TodoOK
<1>2. ImportsChangeNothing'  BY DEF CourseInv, ImportsChangeNothing
<1>3. Alone' <=> Alone  BY DEF Alone
<1>4. PICK m : m = UndoneTo  OBVIOUS
<1>5. UndoneTo' = m  BY <1>4 DEF UndoneTo
<1>6. ValuesAt(m)' = ValuesAt(m)  BY PastFrame
<1>. QED  BY <1>1, <1>2, <1>3, <1>4, <1>5, <1>6, CourseValues

\* Nothing of the rollback changes.
LEMMA CourseFrame ==
  ASSUME TypeOK, CourseInv, UNCHANGED <<row, undo, req[Cli]>>, Steps' = Steps,
         \A i \in Steps : audit'[i] = audit[i]
  PROVE  CourseInv'
BY TableFrame DEF CourseInv, CourseOK

\* A save by anybody: what the rollback undoes is still in the table.
LEMMA TableGrows ==
  ASSUME TypeOK, RevisionTrail, CourseInv, UNCHANGED undo,
         NEW e \in EntryType, IsSave(e), e.revision = row.revision + 1,
         audit' = Append(audit, e), row'.revision = row.revision + 1
  PROVE  /\ TodoOK' /\ ImportsChangeNothing'
         /\ Alone' => Alone /\ e.actor = Cli
<1>1. PICK last \in Nat :
        /\ Steps' = Steps \cup {last} /\ audit'[last] = e
        /\ \A i \in Steps : audit'[i] = audit[i] /\ i < last
  BY StepsGrow DEF IsStep
<1>2. row.revision \in Nat /\ undo.expected \in Nat /\ undo.expected <= row.revision
      /\ \A d \in undo.todo : d.revision \in Nat /\ d.revision <= row.revision
  BY RowFields, TodoFacts DEF CourseInv, TodoOK
<1>3. TodoOK'
  <2>1. undo'.target <= undo'.expected /\ undo'.expected <= row'.revision
    BY <1>2 DEF CourseInv, TodoOK
  <2>2. \A d \in undo'.todo : /\ undo'.target < d.revision /\ d.revision <= undo'.expected
                              /\ \E i \in Steps' : IsSave(audit'[i]) /\ audit'[i] = d
    BY <1>1 DEF CourseInv, TodoOK
  <2>3. \A d \in undo'.todo, i \in Steps' :
          IsSave(audit'[i]) /\ undo'.target < audit'[i].revision
            /\ audit'[i].revision <= d.revision => audit'[i] \in undo'.todo
    <3> SUFFICES ASSUME NEW d \in undo.todo, NEW i \in Steps', IsSave(audit'[i]),
                        undo.target < audit'[i].revision, audit'[i].revision <= d.revision
                 PROVE  audit'[i] \in undo.todo
      OBVIOUS
    <3>1. CASE i = last
      <4>1. e.revision <= d.revision  BY <1>1, <3>1
      <4>. QED  BY <1>2, <4>1
    <3>2. CASE i \in Steps
      BY <1>1, <3>2 DEF CourseInv, TodoOK, IsSave
    <3>. QED  BY <1>1, <3>1, <3>2
  <2>. QED  BY <2>1, <2>2, <2>3 DEF TodoOK, IsSave
<1>4. ImportsChangeNothing'
  BY <1>1 DEF CourseInv, ImportsChangeNothing, IsSave
<1>5. ASSUME Alone' PROVE Alone /\ e.actor = Cli
  <2>1. \A i \in Steps' : audit'[i].revision > undo.expected => audit'[i].actor = Cli
    BY <1>5 DEF Alone
  <2>2. e.revision > undo.expected  BY <1>2
  <2>3. e.actor = Cli  BY <1>1, <2>1, <2>2
  <2>. QED  BY <1>1, <2>1, <2>3 DEF Alone
<1>. QED  BY <1>3, <1>4, <1>5

\* The saves of others end the claim that the rollback is alone.
LEMMA CourseSaved ==
  ASSUME Inv, RevisionTrail, OldIsRow, CourseInv, NEW p \in Saver,
         NEW pc \in {"idle", "refresh"}, req[p].pc = "update", Written(p, pc),
         UNCHANGED undo, p = Cli => pc = "refresh"
  PROVE  CourseInv'
<1>0. TypeOK /\ ProposalsChange  BY DEF Inv
<1> DEFINE e == NewSave(p)
<1>1. /\ e \in EntryType /\ IsSave(e) /\ IsStep(e) /\ e.revision = row.revision + 1
      /\ e.actor = p /\ audit' = Append(audit, e) /\ row'.revision = row.revision + 1
      /\ e.fields = Changes(req[p].old, req[p].want)
      /\ e.old = req[p].old /\ req[p].old = row.values
  BY <1>0, NewSaveType, WrittenRow DEF Written, NewSave, Entry, OldIsRow
<1>2. row'.values = [f \in Field |-> IF f \in e.fields THEN req[p].want[f]
                                     ELSE row.values[f]]
  BY <1>1 DEF Written
<1> HIDE DEF e
<1>3. TodoOK' /\ ImportsChangeNothing' /\ (Alone' => Alone /\ p = Cli)
  BY <1>0, <1>1, TableGrows
<1>4. ASSUME Alone' PROVE req'[Cli].pc = "refresh" /\ row'.values = ValuesAt(UndoneTo)'
  <2>1. Alone /\ p = Cli /\ pc = "refresh"  BY <1>3, <1>4
  <2>2. req'[Cli].pc = "refresh"  BY <1>0, <2>1, WrittenRequests
  <2>3. req[Cli].want = ValuesAt(UndoneTo) /\ req[Cli].want \in Values
    BY <1>0, <2>1, TypeParts DEF CourseInv, CourseOK, RequestsOK, Requests
  <2>4. row'.values = req[Cli].want
    BY <1>0, <1>1, <1>2, <2>1, <2>3, RowFields DEF Changes, Values
  <2>5. PICK m \in Nat : m = UndoneTo /\ m <= row.revision
    BY <1>0, TodoFacts DEF CourseInv
  <2>6. UndoneTo' = m  BY <2>5 DEF UndoneTo
  <2>7. /\ \A f \in e.fields : e.old[f] = row.values[f]
        /\ \A f \in Field \ e.fields : row'.values[f] = row.values[f]
    BY <1>1, <1>2
  <2>8. ValuesAt(m)' = ValuesAt(m)  BY <1>0, <1>1, <2>5, <2>7, PastStays
  <2>. QED  BY <2>2, <2>3, <2>4, <2>5, <2>6, <2>8, CourseValues
<1>. QED  BY <1>3, <1>4 DEF CourseInv, CourseOK

\* The rollback begins at the revision of the row.
LEMMA CourseStart ==
  ASSUME Inv, RevisionTrail, CourseInv, NEW target \in 0..MaxRevision, RollbackStart(target)
  PROVE  CourseInv'
<1> DEFINE between == {i \in DOMAIN audit : /\ audit[i].revision > target
                                            /\ audit[i].revision <= row.revision}
           saves == {j \in between : IsSave(audit[j])}
<1>0. TypeOK /\ target \in Nat /\ row.revision \in Nat
  BY RowFields, BoundsAssumption DEF Inv
<1>1. /\ undo'.todo = {audit[i] : i \in saves} /\ undo'.target = target
      /\ undo'.expected = row.revision /\ req' = [req EXCEPT ![Cli] = Loaded]
      /\ UNCHANGED <<row, audit>> /\ between # {}
  BY DEF RollbackStart
<1>2. \A i \in DOMAIN audit : audit[i] \in EntryType  BY <1>0, TypeParts
<1>3. /\ \A i \in Steps : audit[i].revision \in Nat /\ audit[i].revision <= row.revision
      /\ Steps = {i \in DOMAIN audit : IsStep(audit[i])}
  BY <1>0 DEF RevisionTrail, Steps
<1>4. target < row.revision
  <2>1. PICK i \in between : TRUE  BY <1>1
  <2>2. audit[i].revision \in Nat  BY <1>2, <2>1 DEF EntryType
  <2>. QED  BY <1>0, <2>1, <2>2
<1>5. saves = {i \in Steps : IsSave(audit[i]) /\ target < audit[i].revision}
  BY <1>0, <1>2, <1>3 DEF IsStep, EntryType
<1>6. TodoOK'
  <2>. HIDE DEF saves, between
  <2>. QED  BY <1>0, <1>1, <1>3, <1>4, <1>5 DEF TodoOK, Steps, IsStep, IsSave
<1>7. ImportsChangeNothing'
  BY <1>1 DEF CourseInv, ImportsChangeNothing, Steps, IsStep, IsSave
<1>8. /\ req'[Cli].pc = "undo" /\ req'[Cli].revision = row.revision
  <2>1. PICK r : r = Loaded  OBVIOUS
  <2>2. r.pc = "undo" /\ r.revision = row.revision  BY <2>1 DEF Loaded, Blank
  <2>3. req' = [req EXCEPT ![Cli] = r] /\ Cli \in Saver  BY <1>1, <2>1 DEF Saver
  <2>4. req'[Cli] = r  BY <1>0, <2>3, TypeParts DEF RequestsOK
  <2>. QED  BY <2>2, <2>4
<1>9. row'.values = ValuesAt(UndoneTo)'
  <2>1. PICK m : m = UndoneTo'  OBVIOUS
  <2>2. ASSUME NEW i \in Steps, IsSave(audit[i]), m < audit[i].revision PROVE FALSE
    <3>1. undo'.todo \in SUBSET EntryType  BY <1>1, <1>2
    <3>2. \A d \in undo'.todo : d.revision <= row.revision  BY <1>1
    <3>3. PICK left, aim : left = undo'.todo /\ aim = undo'.target  OBVIOUS
    <3>4. m = DoneTo(left, aim)  BY <2>1, <3>3, DoneToFacts
    <3>5. CASE left = {}
      <4>1. m = target  BY <1>1, <3>3, <3>4, <3>5 DEF DoneTo
      <4>2. i \in saves  BY <1>5, <2>2, <4>1
      <4>3. audit[i] \in left  BY <1>1, <3>3, <4>2
      <4>. QED  BY <3>5, <4>3
    <3>6. CASE left # {}
      <4>1. PICK d \in left : \A x \in left : x.revision <= d.revision
        BY <1>0, <3>1, <3>2, <3>3, <3>6, NewestLeft
      <4>2. m = d.revision  BY <3>1, <3>3, <3>4, <4>1, NewestTells
      <4>3. d.revision \in Nat /\ target < d.revision
        BY <1>1, <1>3, <1>5, <3>3, <4>1
      <4>4. i \in saves  BY <1>0, <1>3, <1>5, <2>2, <4>2, <4>3
      <4>5. audit[i] \in left  BY <1>1, <3>3, <4>4
      <4>. QED  BY <1>3, <2>2, <4>1, <4>2, <4>3, <4>5
    <3>. QED  BY <3>5, <3>6
  <2>3. \A f \in Field : Later(Steps, audit, m, f) = {}
    BY <1>3, <2>2 DEF CourseInv, ImportsChangeNothing, Later
  <2>4. row.values = [f \in Field |-> row.values[f]]  BY <1>0, RowFields DEF Values
  <2>5. ValuesAt(m) = row.values
    BY <1>0, <2>3, <2>4, StepsType, ValueAtFacts, ValuesAtFields
  <2>6. ValuesAt(m)' = ValuesAt(m)  BY <1>1 DEF ValuesAt, Steps, IsStep, IsSave
  <2>. QED  BY <1>1, <2>1, <2>5, <2>6, CourseValues
<1>. QED  BY <1>1, <1>6, <1>7, <1>8, <1>9 DEF CourseInv, CourseOK

\* What a step of the rollback alone leaves of the table.
LEMMA CourseKept ==
  ASSUME TypeOK, CourseInv, UNCHANGED <<row, audit, undo>>,
         Alone => /\ req'[Cli].pc = "update" => FALSE
                  /\ req'[Cli].pc = "undo" => req'[Cli].revision = row.revision
                  /\ row.values = ValuesAt(UndoneTo)
  PROVE  CourseInv'
<1>1. Steps' = Steps /\ \A i \in Steps : audit'[i] = audit[i]  BY DEF Steps, IsStep, IsSave
<1>2. /\ TodoOK' /\ ImportsChangeNothing' /\ (Alone' <=> Alone)
      /\ ValuesAt(UndoneTo)' = ValuesAt(UndoneTo)
  BY <1>1, TableFrame
<1>. QED  BY <1>2 DEF CourseInv, CourseOK

\* An entry off the list: the others are what is left to undo.
LEMMA OneOff ==
  ASSUME TypeOK, RevisionTrail, CourseInv, UNCHANGED <<row, audit>>,
         NEW e \in undo.todo, NextToUndo(e), undo' = [undo EXCEPT !.todo = @ \ {e}]
  PROVE  /\ TodoOK' /\ ImportsChangeNothing' /\ (Alone' <=> Alone)
         /\ undo'.todo = undo.todo \ {e} /\ undo'.target = undo.target
<1>1. /\ undo'.todo = undo.todo \ {e} /\ undo'.target = undo.target
      /\ undo'.expected = undo.expected
  BY TypeParts
<1>2. Steps' = Steps  BY DEF Steps, IsStep, IsSave
<1>3. TypeOK /\ TodoOK /\ \A d \in undo.todo : d.revision \in Nat /\ d.revision <= e.revision
  BY TodoFacts DEF CourseInv, NextToUndo
<1>4. PICK k \in Steps : audit[k] = e  BY <1>3 DEF TodoOK
<1>5. ASSUME NEW d \in undo.todo \ {e} PROVE ~ (e.revision <= d.revision)
  <2>1. PICK l \in Steps : audit[l] = d  BY <1>3 DEF TodoOK
  <2>2. d.revision # e.revision  BY <1>4, <2>1, <1>5, OneEntry
  <2>. QED  BY <1>3, <2>2
<1>6. \A d \in undo.todo \ {e}, i \in Steps :
        IsSave(audit[i]) /\ undo.target < audit[i].revision /\ audit[i].revision <= d.revision
          => audit[i] \in undo.todo \ {e}
  BY <1>3, <1>5 DEF TodoOK
<1>7. TodoOK'
  <2>1. undo'.target <= undo'.expected /\ undo'.expected <= row'.revision
    BY <1>1, <1>3 DEF TodoOK
  <2>2. \A d \in undo'.todo : /\ undo'.target < d.revision /\ d.revision <= undo'.expected
                              /\ \E i \in Steps' : IsSave(audit'[i]) /\ audit'[i] = d
    BY <1>1, <1>2, <1>3 DEF TodoOK
  <2>3. \A d \in undo'.todo, i \in Steps' :
          IsSave(audit'[i]) /\ undo'.target < audit'[i].revision
            /\ audit'[i].revision <= d.revision => audit'[i] \in undo'.todo
    BY <1>1, <1>2, <1>6
  <2>. QED  BY <2>1, <2>2, <2>3 DEF TodoOK, IsSave
<1>8. ImportsChangeNothing' /\ (Alone' <=> Alone)
  BY <1>1, <1>2 DEF CourseInv, ImportsChangeNothing, Alone, IsSave
<1>. QED  BY <1>1, <1>7, <1>8

\* One turn of the loop proposes the settings of the next revision it goes
\* back to.
LEMMA CourseUndoNext ==
  ASSUME Inv, RevisionTrail, OldIsRow, CourseInv, UndoNext
  PROVE  CourseInv'
<1>1. /\ TypeOK /\ Cli \in Saver /\ req[Cli].pc = "undo" /\ UNCHANGED <<row, audit>>
      /\ req \in [Saver -> Requests]
  BY TypeParts DEF Inv, UndoNext, Saver, RequestsOK
<1>2. Alone => /\ req[Cli].revision = row.revision /\ req[Cli].old = row.values
               /\ row.values = ValuesAt(UndoneTo)
  BY <1>1 DEF CourseInv, CourseOK, OldIsRow
<1>3. CASE req' = [req EXCEPT ![Cli].pc = "done"] /\ UNCHANGED undo
  <2>1. req'[Cli].pc = "done"  BY <1>1, <1>3 DEF Requests
  <2>. QED  BY <1>1, <1>2, <1>3, <2>1, CourseKept
<1>4. ASSUME NEW e \in undo.todo, NEW old, NEW want, old = req[Cli].old,
             want = [f \in Field |-> IF f \in e.fields THEN e.old[f] ELSE old[f]],
             NextToUndo(e),
             req' = [req EXCEPT ![Cli].pc = IF ~Accepts(old, want) THEN "failed"
                                            ELSE IF old = want THEN "refresh" ELSE "update",
                                ![Cli].want = want],
             undo' = IF Accepts(old, want) THEN [undo EXCEPT !.todo = @ \ {e}] ELSE undo
      PROVE  CourseInv'
  <2>1. /\ req'[Cli].pc = IF ~Accepts(old, want) THEN "failed"
                          ELSE IF old = want THEN "refresh" ELSE "update"
        /\ req'[Cli].want = want /\ req'[Cli].revision = req[Cli].revision
    BY <1>1, <1>4 DEF Requests
  <2>2. CASE ~ Accepts(old, want)
    BY <1>1, <1>2, <1>4, <2>1, <2>2, CourseKept
  <2>3. CASE Accepts(old, want)
    <3>1. undo' = [undo EXCEPT !.todo = @ \ {e}]  BY <1>4, <2>3
    <3>2. /\ TodoOK' /\ ImportsChangeNothing' /\ (Alone' <=> Alone)
          /\ undo'.todo = undo.todo \ {e} /\ undo'.target = undo.target
      BY <1>1, <1>4, <3>1, OneOff
    <3>3. ASSUME Alone PROVE want = ValuesAt(UndoneTo)'
      <4>1. PICK m : m = DoneTo(undo.todo \ {e}, undo.target)  OBVIOUS
      <4>2. ValuesAt(m) = [f \in Field |-> IF f \in e.fields THEN e.old[f]
                                           ELSE ValuesAt(UndoneTo)[f]]
        BY <1>1, <1>4, <4>1, OneTurn DEF CourseInv
      <4>3. want = ValuesAt(m)
        BY <1>2, <1>4, <3>3, <4>2
      <4>4. m = UndoneTo'  BY <3>2, <4>1, DoneToFacts
      <4>5. ValuesAt(m)' = ValuesAt(m)
        BY <1>1, PastFrame DEF Steps, IsStep, IsSave
      <4>. QED  BY <4>3, <4>4, <4>5, CourseValues
    <3>. QED  BY <1>1, <1>2, <1>4, <2>1, <2>3, <3>2, <3>3 DEF CourseInv, CourseOK
  <2>. QED  BY <2>2, <2>3
<1>. QED  BY <1>3, <1>4 DEF UndoNext

\* The UPDATE of a rollback that is alone meets its revision.
LEMMA CourseUndoSave ==
  ASSUME Inv, RevisionTrail, OldIsRow, CourseInv, UndoSave
  PROVE  CourseInv'
<1>1. /\ TypeOK /\ Cli \in Saver /\ req[Cli].pc = "update" /\ UNCHANGED undo
      /\ req \in [Saver -> Requests]
  BY TypeParts DEF Inv, UndoSave, Saver, RequestsOK
<1>2. CASE Written(Cli, "refresh")
  BY <1>1, <1>2, CourseSaved
<1>3. CASE ~ SameRevision(Cli) /\ UNCHANGED <<row, audit>>
  <2>1. ~ Alone  BY <1>1, <1>3 DEF CourseInv, CourseOK, SameRevision
  <2>. QED  BY <1>1, <1>3, <2>1, CourseKept
<1>. QED  BY <1>2, <1>3 DEF UndoSave

\* The row is read again.
LEMMA CourseRefresh ==
  ASSUME Inv, CourseInv, UndoRefresh
  PROVE  CourseInv'
<1>1. /\ TypeOK /\ Cli \in Saver /\ req[Cli].pc = "refresh" /\ UNCHANGED <<row, audit, undo>>
      /\ req \in [Saver -> Requests]
  BY TypeParts DEF Inv, UndoRefresh, Saver, RequestsOK
<1>2. PICK r : r = Loaded  OBVIOUS
<1>3. r.pc = "undo" /\ r.revision = row.revision  BY <1>2 DEF Loaded, Blank
<1>4. req'[Cli] = r  BY <1>1, <1>2 DEF UndoRefresh
<1>5. Alone => row.values = ValuesAt(UndoneTo)  BY <1>1 DEF CourseInv, CourseOK
<1>. QED  BY <1>1, <1>3, <1>4, <1>5, CourseKept

\* The import finds nothing to undo.
LEMMA CourseInitialize ==
  ASSUME Inv, CourseInv, NEW env \in Values, NEW token \in {0, 1}, Initialize(env, token)
  PROVE  CourseInv'
<1>1. /\ row.revision = 0 /\ audit = <<>> /\ row'.revision = 1 /\ UNCHANGED <<req, undo>>
      /\ req[Cli].pc = "idle"
      /\ audit' = Append(audit, Entry("initialization", Cli, 1, {}, env, env))
  BY DEF Inv, NothingBefore, Initialize, Saver
<1>2. DOMAIN audit' = {1} /\ audit'[1].fields = {}
  BY <1>1 DEF Entry
<1>3. Steps = {}  BY <1>1 DEF Steps
<1>4. undo.todo = {} /\ undo.target <= undo.expected /\ undo.expected <= row.revision
  BY <1>3 DEF CourseInv, TodoOK
<1>5. undo.expected \in Nat  BY TypeParts DEF Inv
<1>6. TodoOK'  BY <1>1, <1>4, <1>5 DEF TodoOK
<1>7. ImportsChangeNothing'  BY <1>2 DEF ImportsChangeNothing, Steps
<1>. QED  BY <1>1, <1>6, <1>7 DEF CourseInv, CourseOK

\* What an administrator does beside a save leaves the rollback as it is.
LEMMA CourseAdmin ==
  ASSUME Inv, RevisionTrail, OldIsRow, CourseInv, NEW a \in Admin,
         \/ OpenPage(a) \/ Save(a) \/ ReplaceToken(a)
         \/ \E g \in Group, want \in Values : Submit(a, g, want)
         \/ \E disable \in BOOLEAN : AskToken(a, disable)
  PROVE  CourseInv'
<1>1. /\ TypeOK /\ a \in Saver /\ a # Cli /\ Cli \in Saver
      /\ req \in [Saver -> Requests]
  BY SaversAssumption, TypeParts DEF Inv, Saver, RequestsOK
<1>2. CASE Save(a) /\ Written(a, "idle")
  BY <1>1, <1>2, CourseSaved DEF Save
<1>3. CASE UNCHANGED <<row, audit, undo>> /\ req'[Cli] = req[Cli]
  BY <1>1, <1>3, CourseFrame DEF Steps, IsStep, IsSave
<1>4. CASE ReplaceToken(a) /\ SameVersion(a)
  <2>1. Rotated(a)  BY <1>4 DEF ReplaceToken, Rotated, NewRotation
  <2>2. NewRotation(a) \in EntryType /\ ~ IsStep(NewRotation(a))
        /\ audit' = Append(audit, NewRotation(a))
    BY <1>1, <2>1, RotationType DEF Rotated
  <2>3. Steps' = Steps /\ \A i \in Steps : audit'[i] = audit[i]
    BY <1>1, <2>2, StepsStay
  <2>4. req'[Cli] = req[Cli] /\ UNCHANGED <<row, undo>>  BY <1>1, <2>1 DEF Rotated
  <2>. QED  BY <1>1, <2>3, <2>4, CourseFrame
<1>5. CASE \/ OpenPage(a)
           \/ Save(a) /\ ~ Written(a, "idle")
           \/ ReplaceToken(a) /\ ~ SameVersion(a)
           \/ \E g \in Group, want \in Values : Submit(a, g, want)
           \/ \E disable \in BOOLEAN : AskToken(a, disable)
  <2>1. \E r : req' = [req EXCEPT ![a] = r]
    BY <1>5 DEF OpenPage, Save, ReplaceToken, Submit, AskToken
  <2>2. UNCHANGED <<row, audit, undo>>
    BY <1>5 DEF OpenPage, Save, ReplaceToken, Submit, AskToken
  <2>. QED  BY <1>1, <1>3, <2>1, <2>2
<1>. QED  BY <1>2, <1>4, <1>5

\* Every step keeps the rollback on course.
LEMMA CourseStep ==
  ASSUME Inv, RevisionTrail, OldIsRow, CourseInv, [Next]_vars
  PROVE  CourseInv'
<1>1. TypeOK  BY DEF Inv
<1>2. CASE UNCHANGED vars
  BY <1>1, <1>2, CourseFrame DEF vars, Steps, IsStep, IsSave
<1>. QED
  BY <1>2, CourseAdmin, CourseInitialize, CourseStart, CourseUndoNext, CourseUndoSave,
     CourseRefresh DEF Next

\* Nothing was rolled back at the start.
LEMMA InitCourse == Init => CourseInv
BY DEF Init, CourseInv, TodoOK, ImportsChangeNothing, CourseOK, Steps, Blank, Saver

\* While nobody else saves, a rollback walks back through the revisions, one
\* entry of the audit table at a time: wherever it is or stops, the settings
\* are those of the revision it has got to (app/manage.py settings rollback).
THEOREM RollbacksStayOnCourse == Spec => []RollbackOnCourse
<1>1. Init => RevisionTrail /\ OldIsRow
  BY DEF Init, RevisionTrail, OldIsRow, Steps, Blank
<1>2. UNCHANGED vars /\ RevisionTrail /\ OldIsRow => RevisionTrail' /\ OldIsRow'
  BY DEF RevisionTrail, OldIsRow, Steps, vars
<1>3. Inv /\ RevisionTrail /\ OldIsRow /\ [Next]_vars => RevisionTrail' /\ OldIsRow'
  BY <1>2, TrailStep, OldStep
<1>4. Inv /\ RevisionTrail /\ OldIsRow /\ CourseInv /\ [Next]_vars => CourseInv'
  BY CourseStep
<1>5. CourseInv => RollbackOnCourse
  BY DEF CourseInv, CourseOK, Alone, RollbackOnCourse
<1>. QED
  BY <1>1, <1>3, <1>4, <1>5, InitCourse, Invariance, PTL DEF Spec
=============================================================================
