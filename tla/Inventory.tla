------------------------------- MODULE Inventory -------------------------------
(***************************************************************************)
(* The projects of one folder and their addresses: creation from a CIDR or *)
(* from a file, the renumbering every process does when it starts, edits,  *)
(* exports and the pages of the address table (app/services/inventory.py,  *)
(* csv_io.py, app/web/routes.py, app/api/routes.py).                       *)
(*                                                                         *)
(* A step is one statement or one commit, READ COMMITTED.  The projects of *)
(* an older release may number their addresses in any order and have rows  *)
(* for the network and broadcast addresses: the renumbering is there for   *)
(* them.                                                                   *)
(***************************************************************************)
EXTENDS Subnets, SequencesExt

CONSTANTS
  Name,      \* names of projects, as numbers in alphabetical order
  Safe(_),   \* _safe_csv_cell
  FileSize(_),      \* bytes of a file
  MaxImportBytes,   \* csv_import_max_bytes
  Handler,   \* event loops that serve imports
  Starter,   \* processes that start: the web process and the worker
  Web,       \* the web process
  Option,    \* PROJECT_TABLE_PAGE_SIZE_OPTIONS
  Older,     \* bound: networks of the project an older release may have left
  MaxId,     \* bound: projects ever created
  MaxRows,   \* bound: rows of a file
  Written    \* bound: texts that edits and files write

Id == 1..MaxId

ASSUME InventoryAssumption ==
  /\ Name \subseteq Nat /\ Web \in Starter /\ Option \subseteq Nat \ {0} /\ Option # {}
  /\ Older \subseteq Network
  /\ MaxId \in Nat \ {0} /\ MaxRows \in Nat
  /\ \A text \in Text : Safe(text) \in Text \cup TooLong
  /\ "" \in Written /\ Written \subseteq Text \cup TooLong

VARIABLES
  projects,  \* rows of projects: id to name, network and rows of ip_addresses
  nextId,    \* the next id of projects
  start,     \* start[p]: what process p does on its start
  req        \* req[h]: the import handler h serves

vars == <<projects, nextId, start, req>>

NoImport == [pc |-> "idle", name |-> 0, cidr |-> NetworkOf(0, Bits), texts |-> <<>>, id |-> 0]

\* Rows of addresses S, numbered by `ordinal`, all empty.
EmptyRows(S, ordinal) == [a \in S |-> [ordinal |-> ordinal[a], text |-> ""]]
NewRows(net) == EmptyRows(Hosts(net), [a \in Hosts(net) |-> Ordinal(net, a)])

Legacy(net) ==
  {EmptyRows(S, ordinal) : S \in {Members(net), Hosts(net)},
     ordinal \in {o \in [Members(net) -> 1..Size(net.prefix)] :
                    \A a, b \in Members(net) : a # b => o[a] # o[b]}}

Init ==
  /\ \/ projects = <<>> /\ nextId = 1
     \/ /\ \E net \in Older, name \in Name : \E rows \in Legacy(net) :
             projects = <<[name |-> name, cidr |-> net, rows |-> rows]>>
        /\ nextId = 2
  /\ start = [p \in Starter |-> [pc |-> "off", read |-> <<>>]]
  /\ req = [h \in Handler |-> NoImport]

\* Mutant: nothing keeps two projects from having one name.
NamesForgotten == {}

\* The names that are taken, for the handlers and for uq_project_folder_name.
Names == {projects[i].name : i \in DOMAIN projects}
Serving == start[Web].pc = "on"

\* The rows of a project in the order of their ordinals.
InOrder(rows) ==
  LET UpTo(a) == {b \in DOMAIN rows : rows[b].ordinal <= rows[a].ordinal}
  IN [k \in 1..Cardinality(DOMAIN rows) |->
        CHOOSE a \in DOMAIN rows : Cardinality(UpTo(a)) = k]
-----------------------------------------------------------------------------
(* normalize_project_address_rows                                          *)

\* What it reads of a project: not the texts.
Read(project) ==
  [project EXCEPT !.rows = EmptyRows(DOMAIN @, [a \in DOMAIN @ |-> @[a].ordinal])]

\* The SELECTs.
Load(p) ==
  /\ start[p].pc \in {"off", "failed"}
  /\ start' = [start EXCEPT ![p] = [pc |-> "loaded",
                                     read |-> [i \in DOMAIN projects |-> Read(projects[i])]]]
  /\ UNCHANGED <<projects, nextId, req>>

\* Mutant: the reserved addresses are counted.
UsableAll(project) == DOMAIN project.rows

Usable(project) == DOMAIN project.rows \ Reserved(project.cidr)

\* enumerate(ordered_records, start=1)
Place(project, a) == Cardinality({b \in Usable(project) : b <= a})

\* The rows a project loaded has out of place.
Moved(project) ==
  {a \in Usable(project) : project.rows[a].ordinal # Place(project, a)}

\* UPDATEs of the ordinals of S, in the order of their ids: the unique key of
\* ordinals fails the one whose ordinal another row has by then.
Clashes(ordinals, S, new) ==
  \E a \in S : \E b \in DOMAIN ordinals \ {a} :
    new[a] = IF b \in S /\ b < a THEN new[b] ELSE ordinals[b]

Renumbered(ordinals, S, new) ==
  [a \in DOMAIN ordinals |-> IF a \in S THEN new[a] ELSE ordinals[a]]

\* Mutant: the rows are moved to their places in one flush.
FirstPlaceFinal(project, a) == Place(project, a)

\* The ordinal of the first of the two flushes.
FirstPlace(project, a) == 0 - Place(project, a)

\* The DELETEs and the two flushes of one project; the rows as they are.
Normalized(project, rows) ==
  LET kept == DOMAIN rows \ Reserved(project.cidr)
      before == [a \in kept |-> rows[a].ordinal]
      first == [a \in Moved(project) |-> FirstPlace(project, a)]
      last == [a \in Moved(project) |-> Place(project, a)]
      between == Renumbered(before, Moved(project), first)
  IN [fails |-> \/ Clashes(before, Moved(project), first)
                \/ Clashes(between, Moved(project), last),
      rows |-> [a \in kept |->
                  [rows[a] EXCEPT !.ordinal = Renumbered(between, Moved(project), last)[a]]]]

\* The rest of the transaction, which holds the rows it writes.  An UPDATE of a
\* project deleted meanwhile finds no row and fails the start.
Normalize(p) ==
  LET read == start[p].read
      gone == {i \in DOMAIN read : i \notin DOMAIN projects /\ Moved(read[i]) # {}}
      done == [i \in DOMAIN read \cap DOMAIN projects |-> Normalized(read[i], projects[i].rows)]
      fails == gone # {} \/ \E i \in DOMAIN done : done[i].fails
  IN /\ start[p].pc = "loaded"
     /\ projects' = IF fails THEN projects
                    ELSE [i \in DOMAIN projects |->
                            IF i \in DOMAIN done
                            THEN [projects[i] EXCEPT !.rows = done[i].rows] ELSE projects[i]]
     /\ start' = [start EXCEPT ![p] =
          [pc |-> IF ~fails THEN "on" ELSE IF gone # {} THEN "failed" ELSE "clashed",
           read |-> <<>>]]
     /\ UNCHANGED <<nextId, req>>

\* A process ends, or dies; the imports die with the web process.
Stop(p) ==
  /\ start[p].pc # "clashed"
  /\ start' = [start EXCEPT ![p] = [pc |-> "off", read |-> <<>>]]
  /\ req' = IF p = Web THEN [h \in Handler |-> NoImport] ELSE req
  /\ UNCHANGED <<projects, nextId>>
-----------------------------------------------------------------------------
(* Projects from a CIDR or a file; their deletion; edits; exports.         *)

\* render_project_csv: the header, and the rows in the order of their ordinals.
Rendered(project) ==
  LET order == InOrder(project.rows)
  IN <<Header>> \o [k \in DOMAIN order |-> [address |-> order[k],
                                            text |-> Safe(project.rows[order[k]].text)]]

\* create_project_with_addresses up to its commit.
Added(name, net) ==
  projects' = [i \in DOMAIN projects \cup {nextId} |->
                 IF i = nextId THEN [name |-> name, cidr |-> net, rows |-> NewRows(net)]
                 ELSE projects[i]]

CreateProject(name, net) ==
  /\ Serving /\ nextId <= MaxId
  /\ name \notin Names /\ Size(net.prefix) <= MaxProjectAddresses
  /\ Added(name, net) /\ nextId' = nextId + 1
  /\ UNCHANGED <<start, req>>

\* The files import_project_csv takes.
Accepted(file) == FileSize(file) <= MaxImportBytes /\ Importable(Mapped(file))

\* import_project_csv up to create_project_with_addresses; what is not
\* accepted is answered with its error and leaves nothing behind.
Import(h, name, rows) ==
  /\ Serving /\ req[h].pc = "idle" /\ nextId <= MaxId
  /\ name \notin Names /\ Accepted(rows)
  /\ LET result == Parsed(Mapped(rows))
     IN req' = [req EXCEPT ![h] = [NoImport EXCEPT !.pc = "create", !.name = name,
                  !.cidr = result.cidr, !.texts = result.texts]]
  /\ UNCHANGED <<projects, nextId, start>>

\* Its first commit: the project and its addresses, unless the name was taken.
ImportCreate(h) ==
  /\ req[h].pc = "create"
  /\ IF req[h].name \in Names \/ nextId > MaxId
     THEN req' = [req EXCEPT ![h] = NoImport] /\ UNCHANGED <<projects, nextId>>
     ELSE /\ Added(req[h].name, req[h].cidr) /\ nextId' = nextId + 1
          /\ req' = [req EXCEPT ![h].pc = "fill", ![h].id = nextId]
  /\ UNCHANGED start

\* The texts of the file over the addresses, and the second commit.  Without
\* the project it answers with an error.
ImportFill(h) ==
  LET i == req[h].id  texts == req[h].texts
  IN /\ req[h].pc = "fill"
     /\ projects' = IF i \in DOMAIN projects /\ DOMAIN texts \subseteq DOMAIN projects[i].rows
                    THEN [projects EXCEPT ![i].rows = [a \in DOMAIN @ |->
                            IF a \in DOMAIN texts THEN [@[a] EXCEPT !.text = texts[a]] ELSE @[a]]]
                    ELSE projects
     /\ req' = [req EXCEPT ![h] = NoImport]
     /\ UNCHANGED <<nextId, start>>

DeleteProject(i) ==
  /\ Serving
  /\ projects' = [j \in DOMAIN projects \ {i} |-> projects[j]]
  /\ UNCHANGED <<nextId, start, req>>

EditText(i, a, text) ==
  /\ Serving /\ projects' = [projects EXCEPT ![i].rows[a].text = text]
  /\ UNCHANGED <<nextId, start, req>>
-----------------------------------------------------------------------------
WrittenRow == {row \in FileRow : row.text \in Written}

Next ==
  \/ \E p \in Starter : Load(p) \/ Normalize(p) \/ Stop(p)
  \/ \E name \in Name, net \in Network : CreateProject(name, net)
  \/ \E h \in Handler :
       \/ ImportCreate(h) \/ ImportFill(h)
       \/ \E name \in Name, n \in 1..MaxRows : \E rows \in [1..n -> WrittenRow] : Import(h, name, rows)
  \/ \E i \in DOMAIN projects :
       \/ DeleteProject(i)
       \/ \E a \in DOMAIN projects[i].rows, text \in Written \cap Text : EditText(i, a, text)

Spec == Init /\ [][Next]_vars
-----------------------------------------------------------------------------
(* The table of addresses: _pagination_context, and what a page shows.     *)

Smaller(a, b) == IF a <= b THEN a ELSE b
Greater(a, b) == IF a <= b THEN b ELSE a
Distance(a, b) == Greater(a, b) - Smaller(a, b)

\* _normalize_project_page_size of what the address bar says; min takes the
\* first, and the options ascend.
PageSize(value, default) ==
  IF value \in Option THEN value
  ELSE CHOOSE o \in Option : \A q \in Option :
         Distance(o, default) < Distance(q, default) \/ (Distance(o, default) = Distance(q, default) /\ o <= q)

\* _ip_record_filled_condition: the rows of a table that hides the empty ones.
Shown(rows, hideEmpty) == {a \in DOMAIN rows : ~hideEmpty \/ rows[a].text # ""}

\* Those rows, ORDER BY ordinal.
Visible(rows, hideEmpty) == InOrder(Restrict(rows, Shown(rows, hideEmpty)))

TotalPages(total, per) == Greater(1, (total + per - 1) \div per)

\* Mutant: pages are counted from 0 in the offset.
OffsetFromOne(page, per) == page * per

\* (current_page - 1) * per_page
Offset(page, per) == (page - 1) * per

\* project_detail: the page asked for, or the nearest there is.
Page(rows, hideEmpty, asked, per) ==
  LET seen == Visible(rows, hideEmpty)
      current == Smaller(Greater(1, asked), TotalPages(Len(seen), per))
  IN SubSeq(seen, Offset(current, per) + 1,
                  Smaller(Offset(current, per) + per, Len(seen)))

\* list_project_addresses of the API: the page asked for, which may be empty.
ApiPage(rows, hideEmpty, asked, per) ==
  LET seen == Visible(rows, hideEmpty)
  IN SubSeq(seen, Offset(asked, per) + 1, Smaller(Offset(asked, per) + per, Len(seen)))
-----------------------------------------------------------------------------
(* Properties.                                                             *)

\* The types, and the unique keys of projects and ip_addresses.
TypeOK ==
  /\ DOMAIN projects \subseteq 1..(nextId - 1) /\ nextId \in 1..(MaxId + 1)
  /\ \A i, j \in DOMAIN projects : i # j => projects[i].name # projects[j].name
  /\ \A i \in DOMAIN projects :
       /\ projects[i].name \in Name /\ projects[i].cidr \in Network
       /\ \A a \in DOMAIN projects[i].rows :
            /\ a \in Address /\ projects[i].rows[a] \in [ordinal : Int, text : Text]
            /\ \A b \in DOMAIN projects[i].rows \ {a} :
                 projects[i].rows[a].ordinal # projects[i].rows[b].ordinal
  /\ \A p \in Starter : start[p].pc \in {"off", "loaded", "on", "failed", "clashed"}

\* The rows of a project are the hosts of its network, numbered from 1 in the
\* order of the addresses.
Normal(project) ==
  /\ DOMAIN project.rows = Hosts(project.cidr)
  /\ \A a \in Hosts(project.cidr) : project.rows[a].ordinal = Ordinal(project.cidr, a)

\* Once a process is up every project is in order, whatever order its rows had,
\* and although another process renumbers the same rows from an older reading.
UpMeansNormal ==
  (\E p \in Starter : start[p].pc = "on") => \A i \in DOMAIN projects : Normal(projects[i])

\* No UPDATE of the renumbering meets an ordinal that another row still has:
\* the negative ordinals of the first flush keep the two apart.
OrdinalsNeverClash == \A p \in Starter : start[p].pc # "clashed"

\* An import that has committed its project finds a row for every address of
\* its file: the error import.ip_outside_subnet, which would leave an empty
\* project behind, is not reached unless somebody deletes the project.
ImportFindsItsRows ==
  \A h \in Handler : req[h].pc = "fill" /\ req[h].id \in DOMAIN projects =>
    DOMAIN req[h].texts \subseteq DOMAIN projects[req[h].id].rows

\* The network of an import holds every address of the file, and no smaller
\* network does.
CidrIsSmallest ==
  \A h \in Handler : req[h].pc \in {"create", "fill"} =>
    /\ DOMAIN req[h].texts \subseteq Members(req[h].cidr)
    /\ \A net \in Network : DOMAIN req[h].texts \subseteq Members(net) =>
         req[h].cidr.prefix >= net.prefix

\* The CSV file of a project, imported wherever it is served, gives the network,
\* the addresses and the texts of the project, of which those that a spreadsheet
\* would take for formulas have got a quote.  It is refused only when the network
\* is larger than a project may be, the file larger than an upload may be, or a
\* text at its limit has got a quote.
ExportReimports ==
  Serving => \A i \in DOMAIN projects :
    LET project == projects[i]  file == Rendered(project)
        Again(a) == Stripped(Safe(project.rows[a].text))
    IN /\ Accepted(file) <=> /\ Size(project.cidr.prefix) <= MaxProjectAddresses
                             /\ FileSize(file) <= MaxImportBytes
                             /\ \A a \in DOMAIN project.rows : Again(a) \notin TooLong
       /\ Parsed(Mapped(file)) =
            [cidr |-> project.cidr, texts |-> [a \in DOMAIN project.rows |-> Again(a)]]

\* Going through the pages of a table, `per` rows to a page, each row that is
\* shown comes once, none that is hidden, in the order of their ordinals; a page
\* number that is too high shows the last page, which is empty only when there is
\* no other; and the API's pages are those of the table.
Covered(rows, hide, per) ==
  LET total == TotalPages(Len(Visible(rows, hide)), per)
      shown == [n \in 1..(total + 1) |-> Page(rows, hide, n, per)]
      all == FlattenSeq(SubSeq(shown, 1, total))
  IN /\ Range(all) = Shown(rows, hide)
     /\ \A k \in 2..Len(all) : rows[all[k - 1]].ordinal < rows[all[k]].ordinal
     /\ shown[total + 1] = shown[total]
     /\ \A n \in 1..total : ApiPage(rows, hide, n, per) = shown[n]
     /\ total > 1 => shown[total] # <<>>

\* So it is in every project, old rows and new, for every page size that the
\* address bar asks for (0: none of the options) and the settings have.
PagesCover ==
  \A i \in DOMAIN projects, hide \in BOOLEAN,
     per \in {PageSize(value, default) : value \in Option \cup {0}, default \in Option} :
    Covered(projects[i].rows, hide, per)
=============================================================================
