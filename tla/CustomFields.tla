----------------------------- MODULE CustomFields -----------------------------
(***************************************************************************)
(* The addresses of one project: their texts, the values of the project's  *)
(* custom columns, kept in one JSON column per address, and the history of *)
(* edits (app/services/custom_fields.py, inventory.py, history.py, the     *)
(* handlers of app/web/routes.py and app/api/routes.py).                   *)
(*                                                                         *)
(* A step is one statement or one commit, READ COMMITTED; a session        *)
(* flushes when it commits and then writes, of each row it loaded, the     *)
(* columns that differ from what it loaded, the JSON column as a whole.    *)
(* The handlers that take a form run on the event loop of their process,   *)
(* one at a time from their first statement to their last: the form has    *)
(* been read before (require_csrf_token).  The REST API and the handler    *)
(* that adds a column run in threads, beside them.                         *)
(***************************************************************************)
EXTENDS Naturals, SequencesExt

CONSTANTS
  Loop,         \* event loops of web processes
  Thread,       \* threads that serve the API and add_custom_field
  Addr,         \* addresses of the project
  Name,         \* names of columns, already made keys (make_custom_field_key)
  KeyFor(_, _), \* KeyFor(n, i): key of the i-th column whose name makes key n
  Type,         \* CUSTOM_FIELD_TYPES
  Value,        \* texts, "" among them
  Fits,         \* Fits[t]: the texts a column of type t may hold
  MaxFields,    \* MAX_CUSTOM_FIELDS
  MaxId,        \* bound: columns ever created
  MaxHistory    \* bound: no address is loaded for an edit after so many history entries

Handler == Loop \cup Thread
Key == {KeyFor(n, i) : n \in Name, i \in 1..MaxId}
Field == [id : 1..MaxId, key : Key, type : Type]

ASSUME FieldsAssumption ==
  /\ "" \in Value /\ Fits \in [Type -> SUBSET Value] /\ \A t \in Type : "" \in Fits[t]
  /\ Loop \cap Thread = {}
  /\ Addr # {} /\ MaxFields \in Nat /\ MaxId \in Nat /\ MaxHistory \in Nat

\* n, n_2, n_3, ... are different keys; the history calls a column custom.<key>
\* and so tells it from a text.
ASSUME KeysAssumption ==
  /\ \A n \in Name : \A i, j \in 1..MaxId : KeyFor(n, i) = KeyFor(n, j) => i = j
  /\ "text" \notin Key

VARIABLES
  text,     \* text[a]: hostname, os, type and comment of address a
  custom,   \* custom[a]: custom_values of a, keys to values
  fields,   \* rows of custom_fields
  nextId,   \* the next id of custom_fields
  history,  \* rows of ip_address_history, in the order of their ids
  req       \* req[h]: the request handler h serves; pc "off": it serves none

vars == <<text, custom, fields, nextId, history, req>>

\* A cell of the JSON column: the text, and the column it was written for,
\* which the database does not know.
Cell == [value : Value, owner : 1..MaxId]
Dict == UNION {[K -> Cell] : K \in SUBSET Key}

\* row: the address as loaded; new: as it will be; rows: the JSON columns a
\* replacement has loaded; want: the columns it will leave.
Idle == [pc |-> "idle", addr |-> CHOOSE a \in Addr : TRUE, text |-> "", custom |-> <<>>,
         newText |-> "", newCustom |-> <<>>, entries |-> <<>>,
         rows |-> [a \in Addr |-> <<>>], read |-> {}, want |-> {}, id |-> 1]

Init ==
  /\ text \in [Addr -> Value] /\ custom = [a \in Addr |-> <<>>]
  /\ fields = {} /\ nextId = 1 /\ history = <<>>
  /\ \E beside \in BOOLEAN :
       req = [h \in Handler |-> IF h \in Loop \/ beside THEN Idle ELSE [Idle EXCEPT !.pc = "off"]]

Keys(F) == {f.key : f \in F}
Ids(F) == {f.id : f \in F}
Shown(dict, key) == IF key \in DOMAIN dict THEN dict[key].value ELSE ""

\* next_available_key
NextKey(name, taken) ==
  KeyFor(name, CHOOSE i \in 1..MaxId : /\ KeyFor(name, i) \notin taken
                                       /\ \A j \in 1..(i - 1) : KeyFor(name, j) \in taken)
-----------------------------------------------------------------------------
(* One address: the edit form, the clear button, PATCH of the API.         *)

LoadAddress(h, a, what) ==
  /\ req[h].pc = "idle" /\ (what = "patch") = (h \in Thread) /\ Len(history) < MaxHistory
  /\ req' = [req EXCEPT ![h] = [Idle EXCEPT !.pc = what, !.addr = a,
                                !.text = text[a], !.custom = custom[a]]]
  /\ UNCHANGED <<text, custom, fields, nextId, history>>

\* build_field_change of the texts and of the columns of F, as a sequence; column:
\* the id of the column, 0 for a text, which the database does not know either.
ChangesOf(h, newText, F, newCustom) ==
  LET base == IF newText = req[h].text THEN {}
              ELSE {[addr |-> req[h].addr, name |-> "text", column |-> 0,
                     old |-> req[h].text, new |-> newText]}
      cells == {[addr |-> req[h].addr, name |-> f.key, column |-> f.id,
                 old |-> Shown(req[h].custom, f.key), new |-> Shown(newCustom, f.key)] : f \in F}
  IN SetToSeq(base \cup {e \in cells : e.old # e.new})

\* The cells of a form over those loaded; a key without a column stays.
Merged(h, F, form) ==
  [k \in DOMAIN req[h].custom \cup Keys(F) |->
     IF k \in Keys(F)
     THEN [value |-> form[k], owner |-> (CHOOSE f \in F : f.key = k).id]
     ELSE req[h].custom[k]]

Prepare(h, newText, F, newCustom) ==
  /\ req' = [req EXCEPT ![h] = [@ EXCEPT !.pc = "commit", !.newText = newText, !.newCustom = newCustom,
                                !.entries = ChangesOf(h, newText, F, newCustom)]]
  /\ UNCHANGED <<text, custom, fields, nextId, history>>

\* update_ip_address: a form has a value for each column, or none, read as "".
Edit(h) ==
  /\ req[h].pc = "edit"
  /\ \E v \in Value, form \in [Keys(fields) -> Value] :
       Prepare(h, v, fields, Merged(h, fields, form))

\* clear_ip_address
Clear(h) ==
  /\ req[h].pc = "clear"
  /\ Prepare(h, "", fields, Merged(h, fields, [k \in Keys(fields) |-> ""]))

\* update_project_address: only what the payload names; an unknown key is
\* answered with 400 and the session is closed.
Patch(h) ==
  /\ req[h].pc = "patch"
  /\ \/ \E v \in Value, F \in SUBSET fields : \E form \in [Keys(F) -> Value] :
          Prepare(h, v, F, Merged(h, F, form))
     \/ /\ req' = [req EXCEPT ![h] = Idle]
        /\ UNCHANGED <<text, custom, fields, nextId, history>>

\* Mutant: the history is not told of an edit through the API.
EntriesOfForms(h) == IF h \in Thread THEN <<>> ELSE req[h].entries

\* Mutant: of the changes of one edit, only the first is recorded.
EntriesFirst(h) == IF Len(req[h].entries) > 1 THEN <<req[h].entries[1]>> ELSE req[h].entries

\* Mutant: a cell that is emptied is taken for one that was not sent.
EntriesOfCells(h) == SelectSeq(req[h].entries, LAMBDA e : e.new # "" \/ e.name = "text")

\* record_ip_address_history
Entries(h) == req[h].entries

\* The UPDATE of the columns that differ from what was loaded, and the
\* history, in one commit.
AddressCommit(h) ==
  LET a == req[h].addr
  IN /\ req[h].pc = "commit"
     /\ text' = [text EXCEPT ![a] = IF req[h].newText # req[h].text THEN req[h].newText ELSE @]
     /\ custom' = [custom EXCEPT ![a] =
          IF req[h].newCustom # req[h].custom THEN req[h].newCustom ELSE @]
     /\ history' = history \o Entries(h)
     /\ req' = [req EXCEPT ![h] = Idle]
     /\ UNCHANGED <<fields, nextId>>
-----------------------------------------------------------------------------
(* The columns of the project.                                             *)

\* create_custom_field up to its INSERT.
AddField(h, name, type) ==
  /\ req[h].pc = "idle" /\ h \in Thread /\ nextId <= MaxId
  /\ req' = [req EXCEPT ![h] = [Idle EXCEPT !.pc = "add", !.id = nextId,
               !.want = {[id |-> nextId, key |-> NextKey(name, Keys(fields)), type |-> type]}]]
  /\ nextId' = nextId + 1
  /\ UNCHANGED <<text, custom, fields, history>>

\* Mutant: custom_fields has no uq_custom_field_project_key.
AddCommitTwice(h) ==
  /\ req[h].pc = "add"
  /\ fields' = fields \cup req[h].want
  /\ req' = [req EXCEPT ![h] = Idle]
  /\ UNCHANGED <<text, custom, nextId, history>>

\* uq_custom_field_project_key fails the INSERT of a key taken meanwhile.
AddCommit(h) ==
  /\ req[h].pc = "add"
  /\ fields' = IF Keys(req[h].want) \cap Keys(fields) = {} THEN fields \cup req[h].want ELSE fields
  /\ req' = [req EXCEPT ![h] = Idle]
  /\ UNCHANGED <<text, custom, nextId, history>>

\* Mutant: a deleted column's cells stay in the rows.
WithoutNone(dict, K) == dict

\* The cells that are left when the columns with keys K go.
Without(dict, K) == [k \in DOMAIN dict \ K |-> dict[k]]

\* Mutant: the keys given to the form's other new columns are not reserved.
NewKeysApart(names, taken) == [i \in DOMAIN names |-> NextKey(names[i], taken)]

\* The keys of new columns with these names, each reserved before the next.
NewKeys(names, taken) ==
  LET key[i \in DOMAIN names] == NextKey(names[i], taken \cup {key[j] : j \in 1..(i - 1)})
  IN key

\* replace_custom_fields up to its commit.  The form keeps the columns `keep`,
\* with new types, and adds those of `added`, a sequence of names and types.
\* Keys of deleted columns stay reserved.
Replace(h, keep, type, added) ==
  LET kept == {[f EXCEPT !.type = type[f.id]] : f \in {g \in fields : g.id \in keep}}
      Fitting(f) == \A a \in Addr : Shown(custom[a], f.key) \in Fits[f.type]
      key == NewKeys([i \in DOMAIN added |-> added[i].name], Keys(fields))
      new == {[id |-> nextId + i - 1, key |-> key[i], type |-> added[i].type] : i \in DOMAIN added}
  IN /\ req[h].pc = "idle" /\ h \in Loop
     /\ Cardinality(keep) + Len(added) <= MaxFields
     /\ \A f \in kept : f \in fields \/ Fitting(f)
     /\ nextId + Len(added) <= MaxId + 1
     /\ nextId' = nextId + Len(added)
     /\ req' = [req EXCEPT ![h] = [Idle EXCEPT !.pc = "replace", !.rows = custom,
                  !.read = fields, !.want = kept \cup new]]
     /\ UNCHANGED <<text, custom, fields, history>>

\* The columns request h is about to insert.
NewOf(h) == {f \in req[h].want : f.id \notin Ids(req[h].read)}

\* Its commit.  Rows are inserted before others are deleted, so a key still in
\* the table, or two new columns with one key, fail it whole.  `updated` are the
\* columns with a new type, name or position: one that has gone fails it, too.
ReplaceCommit(h) ==
  LET read == req[h].read  want == req[h].want  new == NewOf(h)
      gone == {f \in read : f.id \notin Ids(want)}
      retyped == want \ (read \cup new)
      Swept(a) == Without(req[h].rows[a], Keys(gone))
      taken == \/ Keys(new) \cap Keys(fields) # {}
               \/ \E f, g \in new : f # g /\ f.key = g.key
  IN /\ req[h].pc = "replace"
     /\ \E updated \in SUBSET (want \ new) :
          /\ retyped \subseteq updated
          /\ IF taken \/ ~(Ids(updated) \subseteq Ids(fields)) THEN UNCHANGED <<custom, fields>>
             ELSE /\ fields' = {f \in fields : f.id \notin Ids(gone) \cup Ids(retyped)}
                                 \cup new \cup retyped
                  /\ custom' = [a \in Addr |-> IF Swept(a) # req[h].rows[a] THEN Swept(a)
                                                                           ELSE custom[a]]
     /\ req' = [req EXCEPT ![h] = Idle]
     /\ UNCHANGED <<text, nextId, history>>

Next ==
  \E h \in Handler :
    \/ \E a \in Addr, what \in {"edit", "clear", "patch"} : LoadAddress(h, a, what)
    \/ Edit(h) \/ Clear(h) \/ Patch(h) \/ AddressCommit(h)
    \/ \E n \in Name, t \in Type : AddField(h, n, t)
    \/ AddCommit(h) \/ ReplaceCommit(h)
    \/ \E keep \in SUBSET {f.id : f \in fields} : \E type \in [keep -> Type],
          added \in SeqOf([name : Name, type : Type], MaxFields) :
            Replace(h, keep, type, added)

Spec == Init /\ [][Next]_vars
-----------------------------------------------------------------------------
(* Properties.                                                             *)

HistoryRow ==
  [addr : Addr, name : Key \cup {"text"}, column : 0..MaxId, old : Value, new : Value]

\* The types, and the two unique keys of custom_fields.
TypeOK ==
  /\ text \in [Addr -> Value]
  /\ \A a \in Addr : /\ DOMAIN custom[a] \subseteq Key
                     /\ \A k \in DOMAIN custom[a] : custom[a][k] \in Cell
  /\ fields \subseteq Field /\ nextId \in 1..(MaxId + 1)
  /\ \A f, g \in fields : f # g => f.id # g.id /\ f.key # g.key
  /\ history \in Seq(HistoryRow)

Newest(S) == CHOOSE i \in S : \A j \in S : j <= i
About(a, name) == {i \in DOMAIN history : history[i].addr = a /\ history[i].name = name}

\* The newest history entry of an address shows the text it has, whoever edits
\* at the same time: a commit writes a text exactly when it records one.
TextIsRecorded ==
  \A a \in Addr : About(a, "text") # {} => history[Newest(About(a, "text"))].new = text[a]

\* Nothing but the forms of one process, which follow each other.
FormsOnly == (\A g, h \in Loop : g = h) /\ \A h \in Thread : req[h].pc = "off"

\* With the forms alone, what a custom column shows is what the newest entry about
\* this very column left, and nothing if there is none: no cell changes unrecorded,
\* not even one that is emptied.
CellIsRecorded ==
  FormsOnly => \A a \in Addr : \A f \in fields :
    LET its == {i \in About(a, f.key) : history[i].column = f.id}
    IN Shown(custom[a], f.key) = IF its = {} THEN "" ELSE history[Newest(its)].new

\* The entries about the same name of the same address before the j-th.
Before(j) == {i \in About(history[j].addr, history[j].name) : i < j}

\* With the forms alone, each entry starts from what the entry before it about the
\* same name left; only the first one of a column starts from nothing, of a column
\* made again with the key of a deleted one, too.
HistoryChains ==
  FormsOnly => \A j \in DOMAIN history :
    LET e == history[j]
        d == history[Newest(Before(j))]
    IN IF Before(j) # {} /\ d.column = e.column THEN e.old = d.new
                                               ELSE e.name = "text" \/ e.old = ""

\* With the forms alone, a column shows only what was entered for it, never what
\* a deleted column with the same key left behind.
CellsOfTheirOwn ==
  FormsOnly => \A a \in Addr : \A f \in fields :
    f.key \in DOMAIN custom[a] => custom[a][f.key].owner = f.id

\* With the forms alone, a form that passed its checks is saved: the keys it chose
\* for its new columns are free, also of the columns it deletes itself, and differ
\* from each other, and the columns it keeps are still there.
ReplaceSucceeds ==
  FormsOnly => \A h \in Loop : req[h].pc = "replace" =>
    /\ Keys(NewOf(h)) \cap Keys(fields) = {}
    /\ \A f, g \in NewOf(h) : f.key = g.key => f = g
    /\ Ids(req[h].want \ NewOf(h)) \subseteq Ids(fields)
=============================================================================
