--------------------------- MODULE CustomFieldsProofs ---------------------------
(***************************************************************************)
(* Proofs about CustomFields, for any processes and threads, addresses,    *)
(* names and keys of columns, values and bounds.                           *)
(***************************************************************************)
EXTENDS CustomFields, CommonLemmas

(***************************************************************************)
(* The inductive invariant.                                                *)
(***************************************************************************)

Request ==
  [pc : {"off", "idle", "edit", "clear", "patch", "commit", "add", "replace"},
   addr : Addr, text : Value, custom : Dict, newText : Value, newCustom : Dict,
   entries : Seq(HistoryRow), rows : [Addr -> Dict],
   read : SUBSET Field, want : SUBSET Field, id : Nat]

Types ==
  /\ text \in [Addr -> Value] /\ custom \in [Addr -> Dict]
  /\ fields \subseteq Field /\ nextId \in 1..(MaxId + 1)
  /\ history \in Seq(HistoryRow)
  /\ req \in [Handler -> Request]

\* The ids and keys of the table tell its columns apart.
FieldsOK ==
  /\ \A f \in fields : f.id < nextId
  /\ \A f, g \in fields : f # g => f.id # g.id /\ f.key # g.key

\* A request that changes the columns inserts some whose ids nobody has and whose
\* keys differ, and the key of an id never changes.
ColumnsOK(h) ==
  LET r == req[h]
  IN /\ r.pc \notin {"add", "replace"} => r.want = {} /\ r.read = {}
     /\ r.pc = "add" => r.read = {} /\ h \in Thread
     /\ \A f \in r.read : f.id < nextId
     /\ \A f, g \in r.want : f.id = g.id => f = g
     /\ \A f, g \in NewOf(h) : f.key = g.key => f = g
     /\ \A f \in NewOf(h) : f.id < nextId /\ f.id \notin Ids(fields)
     /\ \A f \in r.want \cup r.read, g \in fields : f.id = g.id => f.key = g.key

NewApart ==
  \A g, h \in Handler : g # h =>
    \A f \in NewOf(h) : f.id \notin Ids(req[g].read) /\ f.id \notin Ids(NewOf(g))

\* The history of an edit on its way: one entry for each text or cell it changes,
\* from what was read to what will be written.
EditOK(h) ==
  LET r == req[h]
  IN r.pc = "commit" =>
       /\ \A i, j \in DOMAIN r.entries : r.entries[i].name = r.entries[j].name => i = j
       /\ r.newText # r.text => \E i \in DOMAIN r.entries : r.entries[i].name = "text"
       /\ \A k \in Key : Shown(r.newCustom, k) # Shown(r.custom, k) =>
            \E i \in DOMAIN r.entries : r.entries[i].name = k
       /\ \A i \in DOMAIN r.entries :
            LET e == r.entries[i]
            IN /\ e.addr = r.addr /\ e.column < nextId
               /\ e.name = "text" => /\ e.old = r.text /\ e.new = r.newText /\ e.old # e.new
                                     /\ e.column = 0
               /\ e.name # "text" => /\ e.old = Shown(r.custom, e.name)
                                     /\ e.new = Shown(r.newCustom, e.name)

\* An entry is about a text or about a column there has been.
EntriesOK ==
  \A i \in DOMAIN history :
    /\ history[i].column < nextId
    /\ history[i].name = "text" => history[i].column = 0

\* i is the newest entry about `name` of address a.
IsNewest(a, name, i) == i \in About(a, name) /\ \A j \in About(a, name) : j <= i

TextRecorded ==
  \A a \in Addr : About(a, "text") = {} \/
    \E i \in About(a, "text") : IsNewest(a, "text", i) /\ history[i].new = text[a]

\* A cell of dict belongs to the column that has its key.
OwnCells(dict) ==
  \A k \in DOMAIN dict : \E f \in fields : f.key = k /\ dict[k].owner = f.id

\* The history has no entry about column f of a, and its cell is empty, or the
\* newest about the key is about this column and shows the cell.
CellRecorded(a, f) ==
  \/ /\ Shown(custom[a], f.key) = ""
     /\ \A i \in About(a, f.key) : history[i].column # f.id
  \/ \E i \in About(a, f.key) : /\ IsNewest(a, f.key, i) /\ history[i].column = f.id
                                /\ history[i].new = Shown(custom[a], f.key)

CellsRecorded == \A a \in Addr : \A f \in fields : CellRecorded(a, f)

\* An entry about a cell is about a column of the table.
OwnEntries(entries) ==
  \A i \in DOMAIN entries : entries[i].name = "text" \/
    \E f \in fields : f.key = entries[i].name /\ f.id = entries[i].column

\* What the one form that is open has read is still so.
FormOK(h) ==
  LET r == req[h]
  IN /\ r.pc \in {"edit", "clear", "patch", "commit"} =>
          r.text = text[r.addr] /\ r.custom = custom[r.addr]
     /\ r.pc = "commit" => OwnCells(r.newCustom) /\ OwnEntries(r.entries)
     /\ r.pc = "replace" => /\ r.rows = custom /\ r.read = fields
                            /\ Keys(NewOf(h)) \cap Keys(fields) = {}
                            /\ \A f \in NewOf(h), i \in DOMAIN history : history[i].column # f.id

\* With the forms of one process alone: cells are their column's and recorded.
Alone ==
  /\ \A h \in Loop : FormOK(h)
  /\ \A a \in Addr : OwnCells(custom[a])
  /\ CellsRecorded

Inv ==
  /\ Types /\ FieldsOK /\ NewApart
  /\ \A h \in Handler : ColumnsOK(h) /\ EditOK(h)
  /\ TextRecorded /\ EntriesOK
  /\ FormsOnly => Alone
  /\ HistoryChains

-----------------------------------------------------------------------------
(***************************************************************************)
(* Dictionaries, keys and the history of an edit.                          *)
(***************************************************************************)

LEMMA IdNat == \A f \in Field : f.id \in Nat
<1>1. \A f \in Field : f.id \in 1..MaxId  BY DEF Field
<1>. QED  BY <1>1

LEMMA MaxIdNat == MaxId \in Nat
BY FieldsAssumption

LEMMA RowNat == \A e \in HistoryRow : e.column \in Nat
<1>1. \A e \in HistoryRow : e.column \in 0..MaxId  BY DEF HistoryRow
<1>. QED  BY <1>1

LEMMA NextIdNat == Types => nextId \in Nat
BY MaxIdNat DEF Types

LEMMA DictFacts ==
  ASSUME NEW d \in Dict
  PROVE  /\ DOMAIN d \subseteq Key
         /\ \A k \in DOMAIN d : d[k].value \in Value /\ d[k].owner \in 1..MaxId
         /\ \A k : Shown(d, k) \in Value
<1>1. PICK K \in SUBSET Key : d \in [K -> Cell]  BY DEF Dict
<1>2. DOMAIN d = K /\ \A k \in K : d[k].value \in Value /\ d[k].owner \in 1..MaxId
  BY <1>1 DEF Cell
<1>. QED  BY <1>1, <1>2, FieldsAssumption DEF Shown

LEMMA EmptyDict == <<>> \in Dict /\ DOMAIN <<>> = {}
<1>1. <<>> \in [{} -> Cell] /\ {} \in SUBSET Key /\ DOMAIN <<>> = {}  OBVIOUS
<1>. QED  BY <1>1 DEF Dict

LEMMA IdleFacts ==
  /\ Idle \in Request /\ Idle.pc = "idle" /\ Idle.want = {} /\ Idle.read = {}
<1>1. (CHOOSE a \in Addr : TRUE) \in Addr /\ "" \in Value  BY FieldsAssumption
<1>2. <<>> \in Seq(HistoryRow)  OBVIOUS
<1>3. [a \in Addr |-> <<>>] \in [Addr -> Dict]  BY EmptyDict
<1>. QED  BY <1>1, <1>2, <1>3, EmptyDict DEF Idle, Request

LEMMA FirstNumbers ==
  ASSUME NEW n \in Nat
  PROVE  IsFiniteSet(1..n) /\ Cardinality(1..n) = n
<1>1. /\ IsFiniteSet(1..n)
      /\ Cardinality(1..n) = IF 1 > n THEN 0 ELSE n - 1 + 1
  BY FS_Interval
<1>. QED  BY <1>1

\* With fewer keys taken than ids, every name has a key that is free.
LEMMA FreeKey ==
  ASSUME NEW n \in Name, NEW taken, IsFiniteSet(taken), Cardinality(taken) < MaxId
  PROVE  NextKey(n, taken) \in Key \ taken
<1>1. MaxId \in Nat  BY MaxIdNat
<1> DEFINE Free == {i \in 1..MaxId : KeyFor(n, i) \notin taken}
<1>2. Free # {}
  <2>1. SUFFICES ASSUME \A i \in 1..MaxId : KeyFor(n, i) \in taken PROVE FALSE
    OBVIOUS
  <2> DEFINE g == [i \in 1..MaxId |-> KeyFor(n, i)]
  <2>2. g \in [1..MaxId -> taken]  BY <2>1
  <2>3. IsFiniteSet(1..MaxId) /\ Cardinality(1..MaxId) = MaxId  BY <1>1, FirstNumbers
  <2>4. \A i \in 1..MaxId : g[i] = KeyFor(n, i)  OBVIOUS
  <2> HIDE DEF g
  <2>5. PICK i, j \in 1..MaxId : i # j /\ g[i] = g[j]
    <3>1. Cardinality(taken) < Cardinality(1..MaxId)  BY <2>3
    <3>. QED  BY <2>2, <2>3, <3>1, FS_PigeonHole
  <2>. QED  BY <2>4, <2>5, KeysAssumption
<1>3. PICK i \in Free : \A j \in Free : i <= j
  <2>1. Free \subseteq Nat  BY <1>1
  <2>. QED  BY <1>2, <2>1, LeastNatural
<1>4. ASSUME NEW j \in 1..(i - 1) PROVE KeyFor(n, j) \in taken
  <2>1. j \in 1..MaxId /\ ~(i <= j)  BY <1>1
  <2>. QED  BY <1>3, <2>1
<1> DEFINE k == CHOOSE m \in 1..MaxId : /\ KeyFor(n, m) \notin taken
                                        /\ \A j \in 1..(m - 1) : KeyFor(n, j) \in taken
<1>5. k \in 1..MaxId /\ KeyFor(n, k) \notin taken  BY <1>3, <1>4
<1>6. NextKey(n, taken) = KeyFor(n, k)  BY DEF NextKey
<1> HIDE DEF k
<1>7. KeyFor(n, k) \in Key  BY <1>5 DEF Key
<1>. QED  BY <1>5, <1>6, <1>7

\* A table takes no more keys than it has had ids.
LEMMA KeysFinite ==
  ASSUME Types, FieldsOK
  PROVE  /\ IsFiniteSet(Keys(fields)) /\ Cardinality(Keys(fields)) \in Nat
         /\ Cardinality(Keys(fields)) < nextId
<1>1. PICK m \in Nat : m = nextId - 1
  <2>1. nextId \in 1..(MaxId + 1) /\ MaxId \in Nat  BY MaxIdNat DEF Types
  <2>. QED  BY <2>1
<1>2. nextId \in Nat /\ m < nextId  BY <1>1, NextIdNat
<1>3. IsFiniteSet(1..m) /\ Cardinality(1..m) = m  BY FirstNumbers
<1> DEFINE g == [f \in fields |-> f.id]
           p == [f \in fields |-> f.key]
<1>4. g \in Injection(fields, 1..m)
  <2>1. \A f \in fields : f.id \in 1..m
    <3>1. \A f \in fields : f.id \in 1..MaxId /\ f.id < nextId  BY DEF Types, Field, FieldsOK
    <3>. QED  BY <1>1, <1>2, <3>1, MaxIdNat
  <2>. QED  BY <2>1 DEF FieldsOK, Injection, IsInjective
<1>5. IsFiniteSet(fields) /\ Cardinality(fields) <= m
  <2>. HIDE DEF g
  <2>. QED  BY <1>3, <1>4, FS_Injection
<1>6. p \in Surjection(fields, Keys(fields))  BY DEF Surjection, Keys
<1>7. /\ IsFiniteSet(Keys(fields)) /\ Cardinality(Keys(fields)) \in Nat
      /\ Cardinality(Keys(fields)) <= Cardinality(fields) /\ Cardinality(fields) \in Nat
  <2>. HIDE DEF p
  <2>. QED  BY <1>5, <1>6, FS_Surjection, FS_CardinalityType
<1>. QED  BY <1>2, <1>5, <1>7

\* The first m keys one form gives to its new columns.
Chosen(key, m, names, taken) ==
  key = [i \in 1..m |-> NextKey(names[i], taken \cup {key[j] : j \in 1..(i - 1)})]

\* The recursion is well defined.
LEMMA NewKeysDefined ==
  ASSUME NEW m \in Nat, NEW names, DOMAIN names = 1..m, NEW taken
  PROVE  \E key : NewKeys(names, taken) = key /\ Chosen(key, m, names, taken)
<1> DEFINE S == {n \in Nat : \E g : Chosen(g, n, names, taken)}
<1>1. 0 \in S
  <2>1. Chosen([i \in 1..0 |-> 0], 0, names, taken)
    <3>1. 1..0 = {}  OBVIOUS
    <3>. QED  BY <3>1 DEF Chosen
  <2>. QED  BY <2>1
<1>2. ASSUME NEW n \in Nat, n \in S PROVE n + 1 \in S
  <2>1. PICK g : Chosen(g, n, names, taken)  BY <1>2
  <2> DEFINE last == NextKey(names[n + 1], taken \cup {g[j] : j \in 1..n})
             k == [i \in 1..(n + 1) |-> IF i = n + 1 THEN last ELSE g[i]]
  <2>2. \A i \in 1..n : k[i] = g[i]  OBVIOUS
  <2>3. ASSUME NEW i \in 1..(n + 1)
        PROVE  {k[j] : j \in 1..(i - 1)} = {g[j] : j \in 1..(i - 1)}
    <3>1. 1..(i - 1) \subseteq 1..n  OBVIOUS
    <3>. HIDE DEF k
    <3>. QED  BY <2>2, <3>1
  <2>4. ASSUME NEW i \in 1..(n + 1)
        PROVE  k[i] = NextKey(names[i], taken \cup {k[j] : j \in 1..(i - 1)})
    <3>1. CASE i = n + 1
      <4>1. k[i] = last /\ i - 1 = n  BY <3>1
      <4>. HIDE DEF k
      <4>. QED  BY <2>3, <3>1, <4>1
    <3>2. CASE i # n + 1
      <4>1. i \in 1..n /\ k[i] = g[i]  BY <2>2, <3>2
      <4>2. g[i] = NextKey(names[i], taken \cup {g[j] : j \in 1..(i - 1)})
        BY <2>1, <4>1 DEF Chosen
      <4>. HIDE DEF k
      <4>. QED  BY <2>3, <4>1, <4>2
    <3>. QED  BY <3>1, <3>2
  <2>5. k = [i \in 1..(n + 1) |-> k[i]]  OBVIOUS
  <2>. HIDE DEF k
  <2>6. Chosen(k, n + 1, names, taken)  BY <2>4, <2>5 DEF Chosen
  <2>7. n + 1 \in Nat  OBVIOUS
  <2>. QED  BY <2>6, <2>7
<1>3. Nat \subseteq S
  <2>. HIDE DEF S
  <2>. QED  BY <1>1, <1>2, SetInduction
<1>4. PICK g : Chosen(g, m, names, taken)  BY <1>3
<1>5. g = [i \in DOMAIN names |-> NextKey(names[i], taken \cup {g[j] : j \in 1..(i - 1)})]
  BY <1>4 DEF Chosen
<1>6. PICK key : /\ NewKeys(names, taken) = key
                 /\ key = [i \in DOMAIN names |->
                      NextKey(names[i], taken \cup {key[j] : j \in 1..(i - 1)})]
  BY <1>5 DEF NewKeys
<1>7. Chosen(key, m, names, taken)  BY <1>6 DEF Chosen
<1>. QED  BY <1>6, <1>7

\* They are free, and differ from each other.
LEMMA NewKeysFacts ==
  ASSUME NEW m \in Nat, NEW names \in [1..m -> Name],
         NEW taken, IsFiniteSet(taken), NEW c \in Nat, Cardinality(taken) = c, c + m <= MaxId
  PROVE  /\ NewKeys(names, taken) \in [1..m -> Key]
         /\ \A i \in 1..m : NewKeys(names, taken)[i] \notin taken
         /\ \A i, j \in 1..m : NewKeys(names, taken)[i] = NewKeys(names, taken)[j] => i = j
<1>1. DOMAIN names = 1..m  OBVIOUS
<1>2. PICK key : NewKeys(names, taken) = key /\ Chosen(key, m, names, taken)
  BY <1>1, NewKeysDefined
<1>3. ASSUME NEW i \in 1..m
      PROVE  key[i] \in Key \ (taken \cup {key[j] : j \in 1..(i - 1)})
  <2>1. PICK n \in Nat : n = i - 1  OBVIOUS
  <2>2. IsFiniteSet(1..n) /\ Cardinality(1..n) = n  BY FirstNumbers
  <2> DEFINE before == {key[j] : j \in 1..(i - 1)}
             g == [j \in 1..(i - 1) |-> key[j]]
  <2>3. g \in Surjection(1..n, before)  BY <2>1 DEF Surjection
  <2>4. IsFiniteSet(before) /\ Cardinality(before) \in Nat /\ Cardinality(before) <= n
    <3>. HIDE DEF g, before
    <3>. QED  BY <2>2, <2>3, FS_Surjection, FS_CardinalityType
  <2>5. key[i] = NextKey(names[i], taken \cup before) /\ names[i] \in Name
    BY <1>2 DEF Chosen
  <2>. HIDE DEF g, before
  <2>6. PICK all : all = taken \cup before  OBVIOUS
  <2>7. IsFiniteSet(all) /\ Cardinality(all) < MaxId
    <3>1. /\ IsFiniteSet(taken \cup before)
          /\ Cardinality(taken \cup before) =
               Cardinality(taken) + Cardinality(before) - Cardinality(taken \cap before)
      BY <2>4, FS_Union
    <3>2. Cardinality(taken \cap before) \in Nat
      <4>1. IsFiniteSet(taken \cap before)  BY FS_Intersection
      <4>. QED  BY <4>1, FS_CardinalityType
    <3>3. i <= m /\ i \in Nat  OBVIOUS
    <3>. QED  BY <2>1, <2>4, <2>6, <3>1, <3>2, <3>3, MaxIdNat
  <2>8. NextKey(names[i], all) \in Key \ all  BY <2>5, <2>7, FreeKey
  <2>. QED  BY <2>5, <2>6, <2>8 DEF before
<1>4. key \in [1..m -> Key] /\ \A i \in 1..m : key[i] \notin taken
  <2>1. DOMAIN key = 1..m /\ key = [i \in 1..m |-> key[i]]  BY <1>2 DEF Chosen
  <2>. QED  BY <1>3, <2>1
<1>5. ASSUME NEW i \in 1..m, NEW j \in 1..m, key[i] = key[j], i < j PROVE FALSE
  <2>1. i \in 1..(j - 1)  BY <1>5
  <2>. QED  BY <1>3, <1>5, <2>1
<1>6. \A i, j \in 1..m : i = j \/ i < j \/ j < i  OBVIOUS
<1>. QED  BY <1>2, <1>4, <1>5, <1>6

LEMMA FieldsFinite ==
  ASSUME Types, FieldsOK
  PROVE  IsFiniteSet(fields)
<1> DEFINE g == [f \in fields |-> f.id]
<1>1. g \in Injection(fields, 1..MaxId)
  BY DEF Types, FieldsOK, Field, Injection, IsInjective
<1>2. IsFiniteSet(1..MaxId)
  <2>1. MaxId \in Nat  BY FieldsAssumption
  <2>. QED  BY <2>1, FS_Interval
<1>. QED  BY <1>1, <1>2, FS_Injection

\* The cells an edit of the columns of F leaves.
LEMMA MergedFacts ==
  ASSUME Types, NEW h \in Handler, NEW F \in SUBSET fields, NEW form \in [Keys(F) -> Value]
  PROVE  LET d == Merged(h, F, form)
         IN  /\ d \in Dict /\ DOMAIN d = DOMAIN req[h].custom \cup Keys(F)
             /\ \A k \in DOMAIN d \ Keys(F) : d[k] = req[h].custom[k]
             /\ \A k \in Keys(F) : \E f \in F : f.key = k /\ d[k].owner = f.id
             /\ \A k : k \notin Keys(F) => Shown(d, k) = Shown(req[h].custom, k)
<1> DEFINE c == req[h].custom
           d == Merged(h, F, form)
<1>1. c \in Dict  BY DEF Types, Request
<1>2. DOMAIN c \subseteq Key /\ \A k \in DOMAIN c : c[k] \in Cell
  BY <1>1 DEF Dict
<1>3. Keys(F) \subseteq Key /\ \A f \in F : f.id \in 1..MaxId  BY DEF Types, Field, Keys
<1> HIDE DEF c
<1>4. d = [k \in DOMAIN c \cup Keys(F) |->
             IF k \in Keys(F)
             THEN [value |-> form[k], owner |-> (CHOOSE f \in F : f.key = k).id]
             ELSE c[k]]
  BY DEF Merged, c
<1> HIDE DEF d
<1>5. ASSUME NEW k \in Keys(F)
      PROVE  d[k] \in Cell /\ \E f \in F : f.key = k /\ d[k].owner = f.id
  <2>1. PICK f \in F : f.key = k /\ f = CHOOSE e \in F : e.key = k  BY DEF Keys
  <2>2. d[k] = [value |-> form[k], owner |-> f.id]  BY <1>4, <2>1
  <2>3. form[k] \in Value /\ f.id \in 1..MaxId  BY <1>3
  <2>4. d[k] \in Cell /\ d[k].owner = f.id  BY <2>2, <2>3 DEF Cell
  <2>. QED  BY <2>1, <2>4
<1>6. \A k \in DOMAIN c \ Keys(F) : d[k] = c[k]  BY <1>4
<1>7. DOMAIN d = DOMAIN c \cup Keys(F)  BY <1>4
<1>8. d \in Dict
  <2>1. d \in [DOMAIN c \cup Keys(F) -> Cell]  BY <1>2, <1>4, <1>5, <1>6
  <2>2. DOMAIN c \cup Keys(F) \in SUBSET Key  BY <1>2, <1>3
  <2>. QED  BY <2>1, <2>2 DEF Dict
<1>9. \A k : k \notin Keys(F) => Shown(d, k) = Shown(c, k)
  BY <1>6, <1>7 DEF Shown
<1>. QED  BY <1>5, <1>6, <1>7, <1>8, <1>9 DEF c, d

\* The entries of an edit that leaves text v, and dictionary d in the columns of F.
LEMMA ChangesFacts ==
  ASSUME Types, FieldsOK, NEW h \in Handler, NEW v \in Value, NEW F \in SUBSET fields,
         NEW d \in Dict
  PROVE  LET s == ChangesOf(h, v, F, d)
             r == req[h]
         IN  /\ s \in Seq(HistoryRow)
             /\ \A i, j \in DOMAIN s : s[i].name = s[j].name => i = j
             /\ v # r.text => \E i \in DOMAIN s : s[i].name = "text"
             /\ \A f \in F : Shown(d, f.key) # Shown(r.custom, f.key) =>
                  \E i \in DOMAIN s : s[i].name = f.key
             /\ \A i \in DOMAIN s :
                  /\ s[i].addr = r.addr /\ s[i].column < nextId
                  /\ s[i].name = "text" => /\ s[i].old = r.text /\ s[i].new = v
                                           /\ s[i].old # s[i].new /\ s[i].column = 0
                  /\ s[i].name # "text" => /\ s[i].old = Shown(r.custom, s[i].name)
                                           /\ s[i].new = Shown(d, s[i].name)
                                           /\ \E f \in F : /\ f.key = s[i].name
                                                           /\ f.id = s[i].column
<1>1. PICK a \in Addr, x \in Value, c \in Dict :
        a = req[h].addr /\ x = req[h].text /\ c = req[h].custom
  BY DEF Types, Request
<1> DEFINE base == IF v = x THEN {} ELSE {[addr |-> a, name |-> "text", column |-> 0, old |-> x, new |-> v]}
           cells == {[addr |-> a, name |-> f.key, column |-> f.id,
                      old |-> Shown(c, f.key), new |-> Shown(d, f.key)] : f \in F}
           S == base \cup {e \in cells : e.old # e.new}
           s == ChangesOf(h, v, F, d)
<1>2. s = SetToSeq(S)  BY <1>1 DEF ChangesOf
<1>3. S \subseteq HistoryRow
  <2>1. base \subseteq HistoryRow
    <3>1. 0 \in 0..MaxId  BY MaxIdNat
    <3>. QED  BY <3>1 DEF HistoryRow
  <2>2. ASSUME NEW f \in F
        PROVE  [addr |-> a, name |-> f.key, column |-> f.id,
                old |-> Shown(c, f.key), new |-> Shown(d, f.key)] \in HistoryRow
    <3>1. f.key \in Key /\ f.id \in 0..MaxId
      <4>1. f.key \in Key /\ f.id \in 1..MaxId  BY DEF Types, Field
      <4>. QED  BY <4>1, MaxIdNat
    <3>. QED  BY <3>1, DictFacts DEF HistoryRow
  <2>. QED  BY <2>1, <2>2
<1>4. IsFiniteSet(S)
  <2>1. IsFiniteSet(F)  BY FieldsFinite, FS_Subset
  <2>2. IsFiniteSet(cells)
    <3> DEFINE g == [f \in F |-> [addr |-> a, name |-> f.key, column |-> f.id,
                                  old |-> Shown(c, f.key), new |-> Shown(d, f.key)]]
    <3>1. g \in Surjection(F, cells)  BY DEF Surjection
    <3>. QED  BY <2>1, <3>1, FS_Surjection
  <2>3. IsFiniteSet({e \in cells : e.old # e.new})  BY <2>2, FS_Subset
  <2>4. IsFiniteSet(base)  BY FS_EmptySet, FS_Singleton
  <2>. QED  BY <2>3, <2>4, FS_Union
<1>5. \A e \in S : /\ e.addr = a
                   /\ e.name = "text" => e.old = x /\ e.new = v /\ v # x /\ e.column = 0
                   /\ e.name # "text" => /\ \E f \in F : f.key = e.name /\ f.id = e.column
                                         /\ e.old = Shown(c, e.name)
                                         /\ e.new = Shown(d, e.name)
  <2>1. \A f \in F : f.key # "text"  BY KeysAssumption DEF Types, Field
  <2>. QED  BY <2>1
<1>6. \A e, g \in S : e.name = g.name => e = g
  <2>1. \A f, g \in F : f.key = g.key => f = g  BY DEF FieldsOK
  <2>2. \A f \in F : f.key # "text"  BY KeysAssumption DEF Types, Field
  <2>. QED  BY <2>1, <2>2
<1>7. v # x => \E e \in S : e.name = "text"
  <2>1. v # x => [addr |-> a, name |-> "text", column |-> 0, old |-> x, new |-> v] \in S  OBVIOUS
  <2>. QED  BY <2>1 DEF S
<1>8. ASSUME NEW f \in F, Shown(d, f.key) # Shown(c, f.key)
      PROVE  \E e \in S : e.name = f.key
  <2> DEFINE e == [addr |-> a, name |-> f.key, column |-> f.id,
                   old |-> Shown(c, f.key), new |-> Shown(d, f.key)]
  <2>1. e \in cells  OBVIOUS
  <2>2. e.old # e.new /\ e.name = f.key  BY <1>8
  <2>. QED  BY <2>1, <2>2
<1> HIDE DEF S, s
<1>9. /\ s \in Seq(S) /\ DOMAIN s = 1..Len(s)
      /\ \A e \in S : \E i \in DOMAIN s : s[i] = e
      /\ \A i, j \in DOMAIN s : s[i] = s[j] => i = j
  <2>1. s \in Seq(S)  BY <1>2, <1>4, SetToSeqFacts
  <2>2. DOMAIN s = 1..Len(s)  BY <2>1
  <2>. QED  BY <1>2, <1>4, <2>1, <2>2, SetToSeqFacts
<1>10. \A i \in DOMAIN s : s[i] \in S  BY <1>9
<1>11. s \in Seq(HistoryRow)  BY <1>3, <1>9
<1>12. \A i, j \in DOMAIN s : s[i].name = s[j].name => i = j  BY <1>6, <1>9, <1>10
<1>13. v # x => \E i \in DOMAIN s : s[i].name = "text"  BY <1>7, <1>9
<1>14. \A f \in F : Shown(d, f.key) # Shown(c, f.key) => \E i \in DOMAIN s : s[i].name = f.key
  BY <1>8, <1>9
<1>15. \A i \in DOMAIN s :
         /\ s[i].addr = a
         /\ s[i].name = "text" => /\ s[i].old = x /\ s[i].new = v /\ s[i].old # s[i].new
                                  /\ s[i].column = 0
         /\ s[i].name # "text" => /\ s[i].old = Shown(c, s[i].name) /\ s[i].new = Shown(d, s[i].name)
                                  /\ \E f \in F : f.key = s[i].name /\ f.id = s[i].column
  BY <1>5, <1>10
<1>16. \A i \in DOMAIN s : s[i].column < nextId
  <2>1. 0 < nextId
    <3>1. nextId \in 1..(MaxId + 1)  BY DEF Types
    <3>. QED  BY <3>1, MaxIdNat
  <2>2. \A f \in F : f.id < nextId  BY DEF FieldsOK
  <2>. QED  BY <1>15, <2>1, <2>2
<1>. QED  BY <1>1, <1>11, <1>12, <1>13, <1>14, <1>15, <1>16 DEF s

-----------------------------------------------------------------------------
(***************************************************************************)
(* Steps of one request that change no row: it reads, prepares or gives up. *)
(***************************************************************************)

LEMMA ReqUpdate ==
  ASSUME Types, NEW h \in Handler, NEW r \in Request, req' = [req EXCEPT ![h] = r]
  PROVE  /\ req' \in [Handler -> Request] /\ req'[h] = r
         /\ \A g \in Handler : g # h => req'[g] = req[g]
BY DEF Types

\* When a form moves alone, it was alone before and there is no other.
LEMMA AloneStep ==
  ASSUME Inv, NEW h \in Handler, NEW r \in Request, r.pc # "off", req[h].pc # "off",
         req' = [req EXCEPT ![h] = r], FormsOnly'
  PROVE  FormsOnly /\ Alone /\ h \in Loop /\ \A g \in Loop : g = h
<1>1. req'[h] = r /\ \A g \in Handler : g # h => req'[g] = req[g]
  BY ReqUpdate DEF Inv
<1>2. h \in Loop  BY <1>1 DEF FormsOnly, Handler
<1>3. \A g \in Loop : g = h  BY <1>2 DEF FormsOnly
<1>4. \A g \in Thread : req[g].pc = "off"
  BY <1>1, <1>2, FieldsAssumption DEF FormsOnly, Handler
<1>5. FormsOnly  BY <1>3, <1>4 DEF FormsOnly
<1>. QED  BY <1>2, <1>3, <1>5 DEF Inv

LEMMA ChainsFrame ==
  ASSUME HistoryChains, history' = history, FormsOnly' => FormsOnly
  PROVE  HistoryChains'
<1>1. \A a, k : About(a, k)' = About(a, k)  BY DEF About
<1>2. \A j : Before(j)' = Before(j)  BY <1>1 DEF Before
<1>. QED  BY <1>2 DEF HistoryChains, Newest

LEMMA ReqFrame ==
  ASSUME Inv, NEW h \in Handler, NEW r \in Request, r.pc # "off", req[h].pc # "off",
         req' = [req EXCEPT ![h] = r], UNCHANGED <<text, custom, fields, history>>,
         nextId' \in 1..(MaxId + 1), nextId <= nextId',
         r.read \subseteq fields,
         \A f \in NewOf(h)' : f.id >= nextId,
         ColumnsOK(h)', EditOK(h)', FormsOnly' => FormOK(h)'
  PROVE  Inv'
<1>1. req' \in [Handler -> Request] /\ req'[h] = r
      /\ \A g \in Handler : g # h => req'[g] = req[g]
  BY ReqUpdate DEF Inv
<1>2. /\ UNCHANGED <<text, custom, fields, history>> /\ nextId \in Nat /\ nextId' \in Nat
      /\ nextId <= nextId'
  <2>1. MaxId \in Nat  BY FieldsAssumption
  <2>. QED  BY <2>1 DEF Inv, Types
<1>3. Types'  BY <1>1, <1>2 DEF Inv, Types
<1>4. \A f \in fields : f.id \in Nat  BY IdNat DEF Inv, Types
<1>5. FieldsOK'
  BY <1>2, <1>4 DEF Inv, FieldsOK
<1>6. \A g \in Handler : g # h => NewOf(g)' = NewOf(g)  BY <1>1 DEF NewOf, Ids
<1>7. \A g \in Handler : /\ \A f \in NewOf(g) \cup req[g].read : f.id \in Nat /\ f.id < nextId
                         /\ \A f \in NewOf(g) : f.id \notin Ids(fields)
  <2>1. \A g \in Handler : req[g].want \subseteq Field /\ req[g].read \subseteq Field
    BY DEF Inv, Types, Request
  <2>. QED  BY <2>1, IdNat DEF Inv, ColumnsOK, NewOf
<1>8. NewApart'
  <2>1. SUFFICES ASSUME NEW g \in Handler, NEW k \in Handler, g # k, NEW f \in NewOf(k)'
                 PROVE  f.id \notin Ids(req'[g].read) /\ f.id \notin Ids(NewOf(g)')
    BY DEF NewApart, Ids
  <2>2. CASE g # h /\ k # h
    <3>1. NewOf(g)' = NewOf(g) /\ NewOf(k)' = NewOf(k) /\ req'[g] = req[g]
      BY <1>1, <1>6, <2>2
    <3>. QED  BY <2>1, <3>1 DEF Inv, NewApart
  <2>3. CASE g = h /\ k # h
    <3>1. NewOf(k)' = NewOf(k) /\ req'[g].read \subseteq fields  BY <1>1, <1>6, <2>3
    <3>2. f.id \notin Ids(fields) /\ f.id < nextId /\ f.id \in Nat  BY <1>7, <2>1, <3>1
    <3>3. f.id \notin Ids(req'[g].read)  BY <3>1, <3>2 DEF Ids
    <3>4. \A e \in NewOf(g)' : e.id >= nextId  BY <2>3
    <3>5. \A e \in NewOf(g)' : e.id # f.id
      <4>1. \A e \in NewOf(g)' : e.id \in Nat
        <5>1. NewOf(g)' \subseteq Field  BY <1>1, <2>3 DEF NewOf, Request
        <5>. QED  BY <5>1, IdNat
      <4>. QED  BY <1>2, <3>2, <3>4, <4>1
    <3>. QED  BY <3>3, <3>5 DEF Ids
  <2>4. CASE g # h /\ k = h
    <3>1. NewOf(g)' = NewOf(g) /\ req'[g] = req[g]  BY <1>1, <1>6, <2>4
    <3>2. f.id >= nextId /\ f.id \in Nat
      <4>1. NewOf(k)' \subseteq Field  BY <1>1, <2>4 DEF NewOf, Request
      <4>. QED  BY <2>1, <2>4, <4>1, IdNat
    <3>3. \A e \in NewOf(g) \cup req[g].read : e.id # f.id  BY <1>2, <1>7, <3>2
    <3>. QED  BY <3>1, <3>3 DEF Ids
  <2>. QED  BY <2>1, <2>2, <2>3, <2>4
<1>9. ASSUME NEW g \in Handler PROVE ColumnsOK(g)' /\ EditOK(g)'
  <2>1. CASE g = h  BY <2>1
  <2>2. CASE g # h
    <3>1. req'[g] = req[g] /\ NewOf(g)' = NewOf(g)  BY <1>1, <1>6, <2>2
    <3>2. ColumnsOK(g) /\ EditOK(g)  BY DEF Inv
    <3>3. EditOK(g)'
      <4>1. \A i \in DOMAIN req[g].entries : req[g].entries[i].column \in Nat
        <5>1. req[g].entries \in Seq(HistoryRow)  BY DEF Inv, Types, Request
        <5>. QED  BY <5>1, RowNat
      <4>2. req[g].pc = "commit" =>
              \A i \in DOMAIN req[g].entries : req[g].entries[i].column < nextId'
        BY <1>2, <3>2, <4>1 DEF EditOK
      <4>. QED  BY <3>1, <3>2, <4>2 DEF EditOK
    <3>4. \A f \in NewOf(g) \cup req[g].read : f.id < nextId'  BY <1>2, <1>7
    <3>5. ColumnsOK(g)'  BY <1>2, <3>1, <3>2, <3>4 DEF ColumnsOK
    <3>. QED  BY <3>3, <3>5
  <2>. QED  BY <2>1, <2>2
<1>10. TextRecorded' /\ EntriesOK' /\ HistoryChains'
  <2>1. TextRecorded'  BY <1>2 DEF Inv, TextRecorded, IsNewest, About
  <2>2. FormsOnly' => FormsOnly  BY AloneStep
  <2>3. HistoryChains'
    <3>1. HistoryChains /\ history' = history  BY <1>2 DEF Inv
    <3>. QED  BY <2>2, <3>1, ChainsFrame
  <2>4. EntriesOK'
    <3>1. \A i \in DOMAIN history : history[i].column \in Nat
      BY RowNat DEF Inv, Types
    <3>2. EntriesOK  BY DEF Inv
    <3>. QED  BY <1>2, <3>1, <3>2 DEF EntriesOK
  <2>. QED  BY <2>1, <2>3, <2>4
<1>11. ASSUME FormsOnly' PROVE Alone'
  <2>1. Alone /\ h \in Loop /\ \A g \in Loop : g = h  BY <1>11, AloneStep
  <2>2. \A g \in Loop : FormOK(g)'  BY <1>11, <2>1
  <2>3. \A a \in Addr : OwnCells(custom[a])'  BY <1>2, <2>1 DEF Alone, OwnCells
  <2>4. CellsRecorded'
    <3>1. custom' = custom /\ history' = history /\ fields' = fields  BY <1>2
    <3>2. CellsRecorded  BY <2>1 DEF Alone
    <3>3. \A a, k : About(a, k)' = About(a, k)  BY <3>1 DEF About
    <3>4. \A a, k, i : IsNewest(a, k, i)' <=> IsNewest(a, k, i)  BY <3>3 DEF IsNewest
    <3>. QED  BY <3>1, <3>2, <3>3, <3>4 DEF CellsRecorded, CellRecorded
  <2>. QED  BY <2>2, <2>3, <2>4 DEF Alone
<1>. QED  BY <1>3, <1>5, <1>8, <1>9, <1>10, <1>11 DEF Inv

LEMMA LoadAddressKeeps ==
  ASSUME Inv, NEW h \in Handler, NEW a \in Addr, NEW what \in {"edit", "clear", "patch"},
         LoadAddress(h, a, what)
  PROVE  Inv'
<1>1. PICK r \in Request : r = [Idle EXCEPT !.pc = what, !.addr = a,
                                            !.text = text[a], !.custom = custom[a]]
  BY IdleFacts DEF Inv, Types, Request
<1>2. /\ req' = [req EXCEPT ![h] = r] /\ UNCHANGED <<text, custom, fields, nextId, history>>
      /\ req[h].pc # "off"
  BY <1>1 DEF LoadAddress
<1>3. /\ r.pc = what /\ r.addr = a /\ r.text = text[a] /\ r.custom = custom[a]
      /\ r.want = {} /\ r.read = {}
  BY <1>1, IdleFacts DEF Request
<1>4. req'[h] = r  BY <1>2, ReqUpdate DEF Inv
<1>5. NewOf(h)' = {}  BY <1>3, <1>4 DEF NewOf
<1>6. ColumnsOK(h)' /\ EditOK(h)'  BY <1>3, <1>4, <1>5 DEF ColumnsOK, EditOK
<1>7. FormOK(h)'  BY <1>2, <1>3, <1>4 DEF FormOK
<1>8. nextId' \in 1..(MaxId + 1) /\ nextId <= nextId'
  BY <1>2, NextIdNat DEF Inv, Types
<1>. QED  BY <1>2, <1>3, <1>5, <1>6, <1>7, <1>8, ReqFrame

\* A request that gives up leaves nothing.
LEMMA GiveUpKeeps ==
  ASSUME Inv, NEW h \in Handler, req[h].pc # "off", req' = [req EXCEPT ![h] = Idle],
         UNCHANGED <<text, custom, fields, nextId, history>>
  PROVE  Inv'
<1>1. req'[h] = Idle  BY IdleFacts, ReqUpdate DEF Inv
<1>2. NewOf(h)' = {}  BY <1>1, IdleFacts DEF NewOf
<1>3. ColumnsOK(h)' /\ EditOK(h)' /\ FormOK(h)'
  BY <1>1, <1>2, IdleFacts DEF ColumnsOK, EditOK, FormOK
<1>4. nextId' \in 1..(MaxId + 1) /\ nextId <= nextId'
  BY NextIdNat DEF Inv, Types
<1>. QED  BY <1>1, <1>2, <1>3, <1>4, IdleFacts, ReqFrame

LEMMA PrepareKeeps ==
  ASSUME Inv, NEW h \in Handler, req[h].pc \in {"edit", "clear", "patch"},
         NEW v \in Value, NEW F \in SUBSET fields, NEW form \in [Keys(F) -> Value],
         Prepare(h, v, F, Merged(h, F, form))
  PROVE  Inv'
<1> DEFINE m == Merged(h, F, form)
<1>0. /\ m \in Dict /\ DOMAIN m = DOMAIN req[h].custom \cup Keys(F)
      /\ \A k \in DOMAIN m \ Keys(F) : m[k] = req[h].custom[k]
      /\ \A k \in Keys(F) : \E f \in F : f.key = k /\ m[k].owner = f.id
      /\ \A k : k \notin Keys(F) => Shown(m, k) = Shown(req[h].custom, k)
  <2>1. Types  BY DEF Inv
  <2>. QED  BY <2>1, MergedFacts
<1> HIDE DEF m
<1>1. PICK d \in Dict : d = m  BY <1>0
<1>2. /\ \A k \in DOMAIN d : \/ k \in DOMAIN req[h].custom /\ d[k] = req[h].custom[k]
                             \/ \E f \in F : f.key = k /\ d[k].owner = f.id
      /\ \A k : k \notin Keys(F) => Shown(d, k) = Shown(req[h].custom, k)
  <2>1. /\ DOMAIN d = DOMAIN req[h].custom \cup Keys(F)
        /\ \A k \in DOMAIN d \ Keys(F) : d[k] = req[h].custom[k]
        /\ \A k \in Keys(F) : \E f \in F : f.key = k /\ d[k].owner = f.id
        /\ \A k : k \notin Keys(F) => Shown(d, k) = Shown(req[h].custom, k)
    BY <1>0, <1>1
  <2>. QED  BY <2>1
<1> DEFINE s == ChangesOf(h, v, F, d)
<1>3. /\ s \in Seq(HistoryRow)
      /\ \A i, j \in DOMAIN s : s[i].name = s[j].name => i = j
      /\ v # req[h].text => \E i \in DOMAIN s : s[i].name = "text"
      /\ \A f \in F : Shown(d, f.key) # Shown(req[h].custom, f.key) =>
           \E i \in DOMAIN s : s[i].name = f.key
      /\ \A i \in DOMAIN s :
           /\ s[i].addr = req[h].addr /\ s[i].column < nextId
           /\ s[i].name = "text" => /\ s[i].old = req[h].text /\ s[i].new = v
                                    /\ s[i].old # s[i].new /\ s[i].column = 0
           /\ s[i].name # "text" => /\ s[i].old = Shown(req[h].custom, s[i].name)
                                    /\ s[i].new = Shown(d, s[i].name)
                                    /\ \E f \in F : f.key = s[i].name /\ f.id = s[i].column
  BY ChangesFacts DEF Inv
<1>4. /\ req' = [req EXCEPT ![h] = [req[h] EXCEPT !.pc = "commit", !.newText = v,
                                                  !.newCustom = d, !.entries = s]]
      /\ UNCHANGED <<text, custom, fields, nextId, history>>
  BY <1>1 DEF Prepare, m
<1> HIDE DEF s
<1>5. req[h] \in Request  BY DEF Inv, Types
<1>6. PICK r \in Request : r = [req[h] EXCEPT !.pc = "commit", !.newText = v,
                                              !.newCustom = d, !.entries = s]
  BY <1>3, <1>5 DEF Request
<1>7. /\ r.pc = "commit" /\ r.newText = v /\ r.newCustom = d /\ r.entries = s
      /\ r.addr = req[h].addr /\ r.text = req[h].text /\ r.custom = req[h].custom
      /\ r.want = req[h].want /\ r.read = req[h].read
  BY <1>5, <1>6 DEF Request
<1>8. req' = [req EXCEPT ![h] = r]  BY <1>4, <1>6
<1>9. req'[h] = r  BY <1>8, ReqUpdate DEF Inv
<1>10. r.want = {} /\ r.read = {}  BY <1>7 DEF Inv, ColumnsOK
<1>11. NewOf(h)' = {}  BY <1>9, <1>10 DEF NewOf
<1>12. ColumnsOK(h)'  BY <1>7, <1>9, <1>10, <1>11 DEF ColumnsOK
<1>13. EditOK(h)'
  <2>1. ASSUME NEW k \in Key, Shown(d, k) # Shown(req[h].custom, k)
        PROVE  \E i \in DOMAIN s : s[i].name = k
    <3>1. k \in Keys(F)  BY <1>2, <2>1
    <3>. QED  BY <1>3, <2>1, <3>1 DEF Keys
  <2>. QED  BY <1>3, <1>4, <1>7, <1>9, <2>1 DEF EditOK
<1>14. ASSUME FormsOnly' PROVE FormOK(h)'
  <2>1. Alone /\ h \in Loop  BY <1>7, <1>8, <1>14, AloneStep
  <2>2. FormOK(h) /\ req[h].addr \in Addr  BY <1>5, <2>1 DEF Alone, Request
  <2>3. r.text = text[r.addr] /\ r.custom = custom[r.addr]  BY <1>7, <2>2 DEF FormOK
  <2>4. OwnCells(custom[r.addr])  BY <1>7, <2>1, <2>2 DEF Alone
  <2>5. OwnCells(d)  BY <1>2, <1>7, <2>3, <2>4 DEF OwnCells
  <2>6. OwnCells(d)'  BY <1>4, <2>5 DEF OwnCells
  <2>7. text' = text /\ custom' = custom  BY <1>4
  <2>8. OwnEntries(r.entries)'
    <3>1. PICK e : e = r.entries  OBVIOUS
    <3>2. fields' = fields  BY <1>4
    <3>3. \A i \in DOMAIN e : e[i].name = "text" \/
            \E f \in fields' : f.key = e[i].name /\ f.id = e[i].column
      BY <1>3, <1>7, <3>1, <3>2
    <3>. QED  BY <3>1, <3>3 DEF OwnEntries
  <2>. QED  BY <1>7, <1>9, <2>3, <2>6, <2>7, <2>8 DEF FormOK
<1>15. nextId' \in 1..(MaxId + 1) /\ nextId <= nextId'
  BY <1>4, NextIdNat DEF Inv, Types
<1>. QED  BY <1>4, <1>7, <1>8, <1>10, <1>11, <1>12, <1>13, <1>14, <1>15, ReqFrame

LEMMA EditKeeps ==
  ASSUME Inv, NEW h \in Handler, Edit(h) \/ Clear(h) \/ Patch(h)
  PROVE  Inv'
<1>1. CASE Edit(h)  BY <1>1, PrepareKeeps DEF Edit
<1>2. CASE Clear(h)
  <2>1. "" \in Value  BY FieldsAssumption
  <2>2. [k \in Keys(fields) |-> ""] \in [Keys(fields) -> Value]  BY <2>1
  <2>. QED  BY <1>2, <2>1, <2>2, PrepareKeeps DEF Clear
<1>3. CASE Patch(h)  BY <1>3, PrepareKeeps, GiveUpKeeps DEF Patch
<1>. QED  BY <1>1, <1>2, <1>3

-----------------------------------------------------------------------------
(***************************************************************************)
(* The columns: what is read for a change of them, and its commit.         *)
(***************************************************************************)

LEMMA AddFieldKeeps ==
  ASSUME Inv, NEW h \in Handler, NEW n \in Name, NEW t \in Type, AddField(h, n, t)
  PROVE  Inv'
<1>1. nextId \in Nat /\ MaxId \in Nat /\ nextId <= MaxId /\ nextId \in 1..MaxId
  <2>1. MaxId \in Nat  BY FieldsAssumption
  <2>2. nextId \in 1..(MaxId + 1) /\ nextId <= MaxId  BY DEF Inv, Types, AddField
  <2>. QED  BY <2>1, <2>2
<1>2. Types /\ FieldsOK  BY DEF Inv
<1>3. PICK k \in Key \ Keys(fields) : k = NextKey(n, Keys(fields))
  <2>1. PICK T : T = Keys(fields)  OBVIOUS
  <2>2. IsFiniteSet(T) /\ Cardinality(T) \in Nat /\ Cardinality(T) < nextId
    BY <1>2, <2>1, KeysFinite
  <2>3. Cardinality(T) < MaxId  BY <1>1, <2>2
  <2>4. NextKey(n, T) \in Key \ T  BY <2>2, <2>3, FreeKey
  <2>. QED  BY <2>1, <2>4
<1>4. PICK new \in Field : new = [id |-> nextId, key |-> k, type |-> t]  BY <1>1 DEF Field
<1>5. PICK r \in Request : r = [Idle EXCEPT !.pc = "add", !.id = nextId, !.want = {new}]
  BY <1>1, IdleFacts DEF Request
<1>6. /\ req' = [req EXCEPT ![h] = r] /\ nextId' = nextId + 1
      /\ UNCHANGED <<text, custom, fields, history>> /\ req[h].pc = "idle" /\ h \in Thread
  BY <1>3, <1>4, <1>5 DEF AddField
<1>7. r.pc = "add" /\ r.want = {new} /\ r.read = {}  BY <1>5, IdleFacts DEF Request
<1>8. req'[h] = r  BY <1>2, <1>6, ReqUpdate
<1>9. new.id = nextId  BY <1>4
<1>10. NewOf(h)' = {new}  BY <1>7, <1>8 DEF NewOf, Ids
<1>11. \A f \in fields : f.id # nextId /\ f.id \in Nat
  BY <1>1, <1>2, IdNat DEF Types, FieldsOK
<1>12. new.id < nextId' /\ new.id \notin Ids(fields')
  BY <1>1, <1>6, <1>9, <1>11 DEF Ids
<1>13. ColumnsOK(h)'
  <2>1. \A f \in r.want \cup r.read : f = new  BY <1>7
  <2>2. \A g \in fields' : g.id # new.id  BY <1>12 DEF Ids
  <2>. QED  BY <1>6, <1>7, <1>8, <1>10, <1>12, <2>1, <2>2 DEF ColumnsOK
<1>14. EditOK(h)' /\ FormOK(h)'  BY <1>7, <1>8 DEF EditOK, FormOK
<1>15. nextId' \in 1..(MaxId + 1) /\ nextId <= nextId'  BY <1>1, <1>6
<1>16. \A f \in NewOf(h)' : f.id >= nextId  BY <1>1, <1>9, <1>10
<1>. QED  BY <1>6, <1>7, <1>13, <1>14, <1>15, <1>16, ReqFrame

LEMMA ReplaceRequest ==
  ASSUME Types, NEW W \in SUBSET Field
  PROVE  \E r \in Request :
           /\ r = [Idle EXCEPT !.pc = "replace", !.rows = custom, !.read = fields, !.want = W]
           /\ r.pc = "replace" /\ r.rows = custom /\ r.read = fields /\ r.want = W
<1>1. custom \in [Addr -> Dict] /\ fields \in SUBSET Field  BY DEF Types
<1> DEFINE r == [Idle EXCEPT !.pc = "replace", !.rows = custom, !.read = fields, !.want = W]
<1>2. r \in Request  BY <1>1, IdleFacts DEF Request
<1>3. r.pc = "replace" /\ r.rows = custom /\ r.read = fields /\ r.want = W
  BY <1>1, IdleFacts DEF Request
<1>. QED  BY <1>2, <1>3

\* A form that leaves columns of the table, perhaps retyped, and new ones.
LEMMA ReplaceReads ==
  ASSUME Inv, NEW h \in Loop, NEW kept, NEW new \in SUBSET Field,
         \A f \in kept : f \in Field /\ \E g \in fields : g.id = f.id /\ g.key = f.key,
         \A f, g \in kept : f.id = g.id => f = g,
         \A f \in new : f.id >= nextId /\ f.id < nextId' /\ f.key \notin Keys(fields),
         \A f, g \in new : f.id = g.id \/ f.key = g.key => f = g,
         nextId' \in 1..(MaxId + 1), nextId <= nextId',
         req' = [req EXCEPT ![h] = [Idle EXCEPT !.pc = "replace", !.rows = custom,
                                    !.read = fields, !.want = kept \cup new]],
         UNCHANGED <<text, custom, fields, history>>, req[h].pc = "idle"
  PROVE  Inv'
<1>1. Types /\ FieldsOK /\ h \in Handler  BY DEF Inv, Handler
<1>2. kept \cup new \in SUBSET Field  OBVIOUS
<1>3. PICK r \in Request :
        /\ r = [Idle EXCEPT !.pc = "replace", !.rows = custom, !.read = fields,
                            !.want = kept \cup new]
        /\ r.pc = "replace" /\ r.rows = custom /\ r.read = fields /\ r.want = kept \cup new
  BY <1>1, <1>2, ReplaceRequest
<1>4. UNCHANGED <<text, custom, fields, history>> /\ req' = [req EXCEPT ![h] = r]  BY <1>3
<1>5. req'[h] = r  BY <1>1, <1>4, ReqUpdate
<1>6. nextId \in Nat /\ nextId' \in Nat
  BY <1>1, NextIdNat, MaxIdNat
<1>7. \A f \in fields : f.id \in Nat /\ f.id < nextId
  BY <1>1, IdNat DEF Types, FieldsOK
<1>8. \A f \in new : f.id \in Nat /\ f.id \notin Ids(fields)
  <2>1. \A f \in new : f.id \in Nat  BY IdNat
  <2>. QED  BY <1>6, <1>7, <2>1 DEF Ids
<1>9. NewOf(h)' = new
  <2>1. \A f \in kept : f.id \in Ids(fields)  BY DEF Ids
  <2>. QED  BY <1>3, <1>5, <1>8, <2>1 DEF NewOf
<1>10. ColumnsOK(h)'
  <2>1. \A f \in fields : f.id < nextId'  BY <1>6, <1>7
  <2>2. \A f \in kept : f.id \in Nat /\ f.id < nextId  BY <1>7
  <2>3. \A f \in kept, g \in new : f.id # g.id  BY <1>6, <1>8, <2>2
  <2>4. \A f, g \in r.want : f.id = g.id => f = g  BY <1>3, <2>3
  <2>5. \A f \in new : f.id \notin Ids(fields')  BY <1>4, <1>8
  <2>6. \A f \in r.want \cup r.read, g \in fields' : f.id = g.id => f.key = g.key
    <3>1. \A f, g \in fields : f.id = g.id => f = g  BY <1>1 DEF FieldsOK
    <3>2. \A f \in kept, g \in fields : f.id = g.id => f.key = g.key  BY <3>1
    <3>3. \A f \in new, g \in fields : f.id # g.id  BY <1>8 DEF Ids
    <3>. QED  BY <1>3, <1>4, <3>1, <3>2, <3>3
  <2>. QED  BY <1>3, <1>5, <1>9, <2>1, <2>4, <2>5, <2>6 DEF ColumnsOK
<1>11. EditOK(h)'  BY <1>3, <1>5 DEF EditOK
<1>12. FormOK(h)'
  <2>1. (Keys(NewOf(h)) \cap Keys(fields))' = {}  BY <1>4, <1>9 DEF Keys
  <2>2. r.rows = custom' /\ r.read = fields'  BY <1>3, <1>4
  <2>3. \A f \in NewOf(h)', i \in DOMAIN history' : history'[i].column # f.id
    <3>1. \A i \in DOMAIN history : history[i].column \in Nat  BY <1>1, RowNat DEF Types
    <3>2. EntriesOK  BY DEF Inv
    <3>3. \A i \in DOMAIN history : history[i].column < nextId  BY <3>2 DEF EntriesOK
    <3>. QED  BY <1>4, <1>6, <1>8, <1>9, <3>1, <3>3
  <2>. QED  BY <1>3, <1>5, <2>1, <2>2, <2>3 DEF FormOK
<1>13. \A f \in NewOf(h)' : f.id >= nextId  BY <1>9
<1>14. r.read \subseteq fields /\ r.pc # "off" /\ req[h].pc # "off"  BY <1>3
<1>. QED  BY <1>1, <1>4, <1>10, <1>11, <1>12, <1>13, <1>14, ReqFrame

\* The columns a form keeps are columns of the table.
LEMMA KeptFacts ==
  ASSUME Types, FieldsOK, NEW keep, NEW type \in [keep -> Type]
  PROVE  LET kept == {[f EXCEPT !.type = type[f.id]] : f \in {g \in fields : g.id \in keep}}
         IN  /\ \A f \in kept : f \in Field /\ \E g \in fields : g.id = f.id /\ g.key = f.key
             /\ \A f, g \in kept : f.id = g.id => f = g
<1> DEFINE kept == {[f EXCEPT !.type = type[f.id]] : f \in {g \in fields : g.id \in keep}}
<1>1. ASSUME NEW f \in kept
      PROVE  \E g \in fields : /\ f = [g EXCEPT !.type = type[g.id]]
                               /\ f \in Field /\ f.id = g.id /\ f.key = g.key
  <2>1. PICK g \in fields : g.id \in keep /\ f = [g EXCEPT !.type = type[g.id]]  OBVIOUS
  <2>2. g \in Field /\ type[g.id] \in Type  BY <2>1 DEF Types
  <2>. QED  BY <2>1, <2>2 DEF Field
<1>2. \A f, g \in fields : f.id = g.id => f = g  BY DEF FieldsOK
<1> HIDE DEF kept
<1>3. \A f, g \in kept : f.id = g.id => f = g  BY <1>1, <1>2
<1>. QED  BY <1>1, <1>3 DEF kept

\* New columns have the next ids and keys of their own.
LEMMA NewFieldsFacts ==
  ASSUME Types, FieldsOK, NEW m \in Nat, nextId + m <= MaxId + 1,
         NEW added \in [1..m -> [name : Name, type : Type]]
  PROVE  LET key == NewKeys([i \in DOMAIN added |-> added[i].name], Keys(fields))
             new == {[id |-> nextId + i - 1, key |-> key[i], type |-> added[i].type] :
                      i \in DOMAIN added}
         IN  /\ new \subseteq Field
             /\ \A f \in new : f.id >= nextId /\ f.id < nextId + m /\ f.key \notin Keys(fields)
             /\ \A f, g \in new : f.id = g.id \/ f.key = g.key => f = g
<1> DEFINE names == [i \in DOMAIN added |-> added[i].name]
           key == NewKeys(names, Keys(fields))
           new == {[id |-> nextId + i - 1, key |-> key[i], type |-> added[i].type] :
                    i \in DOMAIN added}
<1>1. DOMAIN added = 1..m /\ nextId \in Nat /\ nextId >= 1 /\ MaxId \in Nat
  <2>1. nextId \in 1..(MaxId + 1)  BY DEF Types
  <2>. QED  BY <2>1, MaxIdNat, NextIdNat
<1>2. PICK T : T = Keys(fields) /\ IsFiniteSet(T) /\ Cardinality(T) \in Nat /\ Cardinality(T) < nextId
  BY KeysFinite
<1>3. PICK N \in [1..m -> Name] : N = names
  <2>1. names \in [1..m -> Name]  BY <1>1
  <2>. QED  BY <2>1
<1>4. PICK c \in Nat : c = Cardinality(T) /\ c + m <= MaxId  BY <1>1, <1>2
<1>5. /\ key \in [1..m -> Key]
      /\ \A i \in 1..m : key[i] \notin Keys(fields)
      /\ \A i, j \in 1..m : key[i] = key[j] => i = j
  <2>1. /\ NewKeys(N, T) \in [1..m -> Key]
        /\ \A i \in 1..m : NewKeys(N, T)[i] \notin T
        /\ \A i, j \in 1..m : NewKeys(N, T)[i] = NewKeys(N, T)[j] => i = j
    BY <1>2, <1>4, NewKeysFacts
  <2>2. key = NewKeys(N, T)  BY <1>2, <1>3
  <2>. HIDE DEF key
  <2>. QED  BY <1>2, <2>1, <2>2
<1> HIDE DEF names, key
<1>6. ASSUME NEW f \in new
      PROVE  \E i \in 1..m : /\ f = [id |-> nextId + i - 1, key |-> key[i], type |-> added[i].type]
                             /\ f.id = nextId + i - 1 /\ f.key = key[i] /\ f \in Field
                             /\ f.id >= nextId /\ f.id < nextId + m
  <2>1. PICK i \in 1..m : f = [id |-> nextId + i - 1, key |-> key[i], type |-> added[i].type]
    BY <1>1
  <2>2. /\ nextId + i - 1 \in 1..MaxId
        /\ nextId + i - 1 >= nextId /\ nextId + i - 1 < nextId + m
    BY <1>1
  <2>3. added[i].type \in Type /\ key[i] \in Key  BY <1>5
  <2>4. f \in Field  BY <2>1, <2>2, <2>3 DEF Field
  <2>. QED  BY <2>1, <2>2, <2>4
<1>7. ASSUME NEW f \in new, NEW g \in new, f.id = g.id \/ f.key = g.key PROVE f = g
  <2>1. PICK i \in 1..m : /\ f = [id |-> nextId + i - 1, key |-> key[i], type |-> added[i].type]
                          /\ f.id = nextId + i - 1 /\ f.key = key[i]
    BY <1>6
  <2>2. PICK j \in 1..m : /\ g = [id |-> nextId + j - 1, key |-> key[j], type |-> added[j].type]
                          /\ g.id = nextId + j - 1 /\ g.key = key[j]
    BY <1>6
  <2>3. i = j
    <3>1. CASE f.id = g.id  BY <1>1, <2>1, <2>2, <3>1
    <3>2. CASE f.key = g.key  BY <1>5, <2>1, <2>2, <3>2
    <3>. QED  BY <1>7, <3>1, <3>2
  <2>. QED  BY <2>1, <2>2, <2>3
<1> HIDE DEF new
<1>8. \A f \in new : f \in Field /\ f.id >= nextId /\ f.id < nextId + m /\ f.key \notin Keys(fields)
  BY <1>5, <1>6
<1>. QED  BY <1>7, <1>8 DEF names, key, new

LEMMA ReplaceKeeps ==
  ASSUME Inv, NEW h \in Handler, NEW keep, NEW type \in [keep -> Type],
         NEW m \in Nat, NEW added \in [1..m -> [name : Name, type : Type]],
         Replace(h, keep, type, added)
  PROVE  Inv'
<1> DEFINE kept == {[f EXCEPT !.type = type[f.id]] : f \in {g \in fields : g.id \in keep}}
           key == NewKeys([i \in DOMAIN added |-> added[i].name], Keys(fields))
           new == {[id |-> nextId + i - 1, key |-> key[i], type |-> added[i].type] :
                    i \in DOMAIN added}
<1>1. /\ req' = [req EXCEPT ![h] = [Idle EXCEPT !.pc = "replace", !.rows = custom,
                                    !.read = fields, !.want = kept \cup new]]
      /\ UNCHANGED <<text, custom, fields, history>> /\ req[h].pc = "idle" /\ h \in Loop
      /\ nextId' = nextId + Len(added) /\ nextId + Len(added) <= MaxId + 1
  BY DEF Replace
<1>2. Types /\ FieldsOK /\ Len(added) = m  BY DEF Inv
<1>3. /\ \A f \in kept : f \in Field /\ \E g \in fields : g.id = f.id /\ g.key = f.key
      /\ \A f, g \in kept : f.id = g.id => f = g
  BY <1>2, KeptFacts
<1>4. nextId + m <= MaxId + 1 /\ nextId' = nextId + m  BY <1>1, <1>2
<1>5. /\ new \subseteq Field
      /\ \A f \in new : f.id >= nextId /\ f.id < nextId + m /\ f.key \notin Keys(fields)
      /\ \A f, g \in new : f.id = g.id \/ f.key = g.key => f = g
  BY <1>2, <1>4, NewFieldsFacts
<1> HIDE DEF kept, new
<1>6. PICK K, W : K = kept /\ W = new  OBVIOUS
<1>7. /\ W \in SUBSET Field
      /\ \A f \in K : f \in Field /\ \E g \in fields : g.id = f.id /\ g.key = f.key
      /\ \A f, g \in K : f.id = g.id => f = g
      /\ \A f \in W : f.id >= nextId /\ f.id < nextId' /\ f.key \notin Keys(fields)
      /\ \A f, g \in W : f.id = g.id \/ f.key = g.key => f = g
  BY <1>3, <1>4, <1>5, <1>6
<1>8. req' = [req EXCEPT ![h] = [Idle EXCEPT !.pc = "replace", !.rows = custom,
                                 !.read = fields, !.want = K \cup W]]
  BY <1>1, <1>6
<1>9. nextId' \in 1..(MaxId + 1) /\ nextId <= nextId'
  <2>1. nextId \in Nat /\ nextId \in 1..(MaxId + 1)  BY <1>2, NextIdNat DEF Types
  <2>. QED  BY <1>4, <2>1, MaxIdNat
<1>10. UNCHANGED <<text, custom, fields, history>> /\ req[h].pc = "idle" /\ h \in Loop
  BY <1>1
<1>. QED  BY <1>7, <1>8, <1>9, <1>10, ReplaceReads

\* A commit of columns: a column of the table has the id and key of one it had
\* or is a new one of the request, whose key was free.
LEMMA ColumnsCommitted ==
  ASSUME Inv, NEW h \in Handler, req[h].pc # "off", req' = [req EXCEPT ![h] = Idle],
         UNCHANGED <<text, nextId, history>>,
         fields' \subseteq Field, custom' \in [Addr -> Dict],
         \A f \in fields' : \/ \E g \in fields : g.id = f.id /\ g.key = f.key
                            \/ f \in NewOf(h) /\ f.key \notin Keys(fields),
         \A f, g \in fields' : f.id = g.id => f = g,
         FormsOnly' => (\A a \in Addr : OwnCells(custom[a])') /\ CellsRecorded'
  PROVE  Inv'
<1>1. /\ req' \in [Handler -> Request] /\ req'[h] = Idle
      /\ \A g \in Handler : g # h => req'[g] = req[g]
  BY IdleFacts, ReqUpdate DEF Inv
<1>2. Types'  BY <1>1 DEF Inv, Types
<1>3. \A g \in Handler : ColumnsOK(g) /\ EditOK(g)  BY DEF Inv
<1>4. FieldsOK'
  <2>1. \A f \in fields' : f.id < nextId'
    <3>1. \A f \in fields : f.id < nextId  BY DEF Inv, FieldsOK
    <3>2. \A f \in NewOf(h) : f.id < nextId  BY <1>3 DEF ColumnsOK
    <3>. QED  BY <3>1, <3>2
  <2>2. ASSUME NEW f \in fields', NEW g \in fields', f # g
        PROVE  f.id # g.id /\ f.key # g.key
    <3>1. f.id # g.id  BY <2>2
    <3>2. \A x, y \in NewOf(h) : x.key = y.key => x = y  BY <1>3 DEF ColumnsOK
    <3>3. \A x, y \in fields : x # y => x.key # y.key  BY DEF Inv, FieldsOK
    <3>4. CASE f \in NewOf(h) /\ f.key \notin Keys(fields)
      <4>1. g \in NewOf(h) \/ g.key \in Keys(fields)  BY DEF Keys
      <4>. QED  BY <2>2, <3>1, <3>2, <3>4, <4>1
    <3>5. CASE g \in NewOf(h) /\ g.key \notin Keys(fields)
      <4>1. f \in NewOf(h) \/ f.key \in Keys(fields)  BY DEF Keys
      <4>. QED  BY <2>2, <3>1, <3>2, <3>5, <4>1
    <3>6. CASE (\E x \in fields : x.id = f.id /\ x.key = f.key)
               /\ \E y \in fields : y.id = g.id /\ y.key = g.key
      BY <3>1, <3>3, <3>6
    <3>. QED  BY <3>4, <3>5, <3>6
  <2>. QED  BY <2>1, <2>2 DEF FieldsOK
<1>5. \A g \in Handler : g # h => NewOf(g)' = NewOf(g)  BY <1>1 DEF NewOf, Ids
<1>6. NewOf(h)' = {}  BY <1>1, IdleFacts DEF NewOf
<1>7. NewApart'
  <2>1. SUFFICES ASSUME NEW g \in Handler, NEW k \in Handler, g # k, NEW f \in NewOf(k)'
                 PROVE  f.id \notin Ids(req'[g].read) /\ f.id \notin Ids(NewOf(g)')
    BY DEF NewApart, Ids
  <2>2. k # h /\ NewOf(k)' = NewOf(k)  BY <1>5, <1>6, <2>1
  <2>3. CASE g = h  BY <1>1, <1>6, <2>3, IdleFacts DEF Ids
  <2>4. CASE g # h
    <3>1. NewOf(g)' = NewOf(g) /\ req'[g] = req[g]  BY <1>1, <1>5, <2>4
    <3>. QED  BY <2>1, <2>2, <3>1 DEF Inv, NewApart
  <2>. QED  BY <2>3, <2>4
<1>8. ASSUME NEW g \in Handler PROVE ColumnsOK(g)' /\ EditOK(g)'
  <2>1. CASE g = h
    BY <1>1, <1>6, <2>1, IdleFacts DEF ColumnsOK, EditOK
  <2>2. CASE g # h
    <3>1. req'[g] = req[g] /\ NewOf(g)' = NewOf(g)  BY <1>1, <1>5, <2>2
    <3>2. EditOK(g)'  BY <1>3, <3>1 DEF EditOK
    <3>3. \A f \in NewOf(g) : f.id \notin Ids(fields) /\ f.id \notin Ids(NewOf(h))
      <4>1. \A f \in NewOf(g) : f.id \notin Ids(fields)  BY <1>3 DEF ColumnsOK
      <4>2. \A f \in NewOf(g) : f.id \notin Ids(NewOf(h))  BY <2>2 DEF Inv, NewApart
      <4>. QED  BY <4>1, <4>2
    <3>4. \A f \in NewOf(g) : f.id \notin Ids(fields')  BY <3>3 DEF Ids
    <3>5. ASSUME NEW f \in req[g].want \cup req[g].read, NEW e \in fields', f.id = e.id
          PROVE  f.key = e.key
      <4>1. CASE \E x \in fields : x.id = e.id /\ x.key = e.key
        BY <1>3, <3>5, <4>1 DEF ColumnsOK
      <4>2. CASE e \in NewOf(h)
        <5>1. e.id \notin Ids(req[g].read) /\ e.id \notin Ids(NewOf(g))
          BY <2>2, <4>2 DEF Inv, NewApart
        <5>2. f \in NewOf(g)  BY <3>5, <5>1 DEF NewOf, Ids
        <5>. QED  BY <3>5, <5>1, <5>2 DEF Ids
      <4>. QED  BY <4>1, <4>2
    <3>6. ColumnsOK(g)'
      <4>1. nextId' = nextId  OBVIOUS
      <4>. QED  BY <1>3, <3>1, <3>4, <3>5, <4>1 DEF ColumnsOK
    <3>. QED  BY <3>2, <3>6
  <2>. QED  BY <2>1, <2>2
<1>9. TextRecorded' /\ EntriesOK' /\ HistoryChains'
  <2>1. text' = text /\ history' = history /\ nextId' = nextId  OBVIOUS
  <2>2. TextRecorded' /\ EntriesOK'
    BY <2>1 DEF Inv, TextRecorded, EntriesOK, IsNewest, About
  <2>3. FormsOnly' => FormsOnly  BY IdleFacts, AloneStep
  <2>4. HistoryChains'
    <3>1. HistoryChains  BY DEF Inv
    <3>. QED  BY <2>1, <2>3, <3>1, ChainsFrame
  <2>. QED  BY <2>2, <2>4
<1>10. ASSUME FormsOnly' PROVE Alone'
  <2>1. \A g \in Loop : g = h  BY <1>10, IdleFacts, AloneStep
  <2>2. \A g \in Loop : FormOK(g)'  BY <1>1, <2>1, IdleFacts DEF FormOK
  <2>. QED  BY <1>10, <2>2 DEF Alone
<1>. QED  BY <1>2, <1>4, <1>7, <1>8, <1>9, <1>10 DEF Inv

LEMMA AddCommitKeeps ==
  ASSUME Inv, NEW h \in Handler, AddCommit(h)
  PROVE  Inv'
<1>1. req[h].pc = "add" /\ req' = [req EXCEPT ![h] = Idle]
      /\ UNCHANGED <<text, custom, nextId, history>>
  BY DEF AddCommit
<1>2. /\ fields' = fields \cup req[h].want /\ Keys(req[h].want) \cap Keys(fields) = {}
      \/ fields' = fields
  BY DEF AddCommit
<1>3. ColumnsOK(h) /\ Types /\ FieldsOK  BY DEF Inv
<1>4. h \in Thread /\ NewOf(h) = req[h].want /\ req[h].want \subseteq Field
  <2>1. req[h].read = {} /\ h \in Thread  BY <1>1, <1>3 DEF ColumnsOK
  <2>. QED  BY <1>3, <2>1 DEF NewOf, Ids, Types, Request
<1>5. ~FormsOnly'
  <2>1. FormsOnly' => h \in Loop  BY <1>1, IdleFacts, AloneStep
  <2>. QED  BY <1>4, <2>1, FieldsAssumption
<1>6. \A f \in NewOf(h) : f.id \notin Ids(fields)  BY <1>3 DEF ColumnsOK
<1>7. \A f, g \in NewOf(h) : f.id = g.id => f = g  BY <1>3 DEF ColumnsOK, NewOf
<1>8. \A f, g \in fields : f.id = g.id => f = g  BY <1>3 DEF FieldsOK
<1>9. \A f, g \in fields' : f.id = g.id => f = g
  BY <1>2, <1>4, <1>6, <1>7, <1>8 DEF Ids
<1>10. \A f \in fields' : \/ \E g \in fields : g.id = f.id /\ g.key = f.key
                          \/ f \in NewOf(h) /\ f.key \notin Keys(fields)
  BY <1>2, <1>4 DEF Keys
<1>11. fields' \subseteq Field /\ custom' \in [Addr -> Dict]
  BY <1>1, <1>2, <1>3, <1>4 DEF Types
<1>. QED  BY <1>1, <1>5, <1>9, <1>10, <1>11, ColumnsCommitted

LEMMA WithoutFacts ==
  ASSUME NEW d \in Dict, NEW K
  PROVE  /\ Without(d, K) \in Dict /\ DOMAIN Without(d, K) = DOMAIN d \ K
         /\ \A k \in DOMAIN d \ K : Without(d, K)[k] = d[k]
         /\ \A k : k \notin K => Shown(Without(d, K), k) = Shown(d, k)
<1> DEFINE e == Without(d, K)
<1>1. DOMAIN e = DOMAIN d \ K /\ \A k \in DOMAIN d \ K : e[k] = d[k]  BY DEF Without
<1>2. PICK D \in SUBSET Key : d \in [D -> Cell]  BY DEF Dict
<1>3. e \in [D \ K -> Cell] /\ D \ K \in SUBSET Key  BY <1>2 DEF Without
<1>4. e \in Dict  BY <1>3 DEF Dict
<1> HIDE DEF e
<1>5. \A k : k \notin K => Shown(e, k) = Shown(d, k)  BY <1>1 DEF Shown
<1>. QED  BY <1>1, <1>4, <1>5 DEF e

LEMMA ReplaceCommitKeeps ==
  ASSUME Inv, NEW h \in Handler, ReplaceCommit(h)
  PROVE  Inv'
<1> DEFINE read == req[h].read
           want == req[h].want
           new == NewOf(h)
           gone == {f \in read : f.id \notin Ids(want)}
           retyped == want \ (read \cup new)
           Swept(a) == Without(req[h].rows[a], Keys(gone))
           left == {f \in fields : f.id \notin Ids(gone) /\ f.id \notin Ids(retyped)}
           fails == Keys(new) \cap Keys(fields) # {} \/ ~(Ids(retyped) \subseteq Ids(fields))
<1>1. req[h].pc = "replace" /\ req' = [req EXCEPT ![h] = Idle]
      /\ UNCHANGED <<text, nextId, history>>
  BY DEF ReplaceCommit
<1>2. \/ fields' = fields /\ custom' = custom
      \/ /\ ~fails /\ fields' = left \cup new \cup retyped
         /\ custom' = [a \in Addr |-> IF Swept(a) # req[h].rows[a] THEN Swept(a) ELSE custom[a]]
  <2> DEFINE taken == \/ Keys(new) \cap Keys(fields) # {}
                      \/ \E f, g \in new : f # g /\ f.key = g.key
             table == {f \in fields : f.id \notin Ids(gone) \cup Ids(retyped)} \cup new \cup retyped
  <2>1. PICK updated \in SUBSET (want \ new) :
          /\ retyped \subseteq updated
          /\ IF taken \/ ~(Ids(updated) \subseteq Ids(fields)) THEN UNCHANGED <<custom, fields>>
             ELSE /\ fields' = table
                  /\ custom' = [a \in Addr |-> IF Swept(a) # req[h].rows[a] THEN Swept(a)
                                                                           ELSE custom[a]]
    BY DEF ReplaceCommit
  <2>2. Ids(retyped) \subseteq Ids(updated)  BY <2>1 DEF Ids
  <2>3. table = left \cup new \cup retyped  OBVIOUS
  <2> HIDE DEF retyped, new, gone, left, table, Swept
  <2>. QED  BY <2>1, <2>2, <2>3
<1>3. ColumnsOK(h) /\ Types /\ FieldsOK  BY DEF Inv
<1>4. /\ want \subseteq Field /\ read \subseteq Field /\ new \subseteq want
      /\ req[h].rows \in [Addr -> Dict]
  BY <1>3 DEF Types, Request, NewOf
<1>5. /\ \A f, g \in want : f.id = g.id => f = g
      /\ \A f \in new : f.id \notin Ids(fields)
      /\ \A f \in want, g \in fields : f.id = g.id => f.key = g.key
  BY <1>3 DEF ColumnsOK
<1>6. \A f, g \in fields : f.id = g.id => f = g  BY <1>3 DEF FieldsOK
<1>7. \A f \in want : f \in new \/ \E g \in read : g.id = f.id  BY DEF NewOf, Ids
<1>8. \A f \in want : f.id \notin Ids(gone)  BY DEF Ids
<1>9. \A f \in want \ new : f \in retyped \/ f \in read  OBVIOUS
<1> HIDE DEF new, gone, retyped, left, fails
<1>10. \A f, g \in fields' : f.id = g.id => f = g
  <2>1. ASSUME fields' = left \cup new \cup retyped,
               NEW f \in fields', NEW g \in fields', f.id = g.id
        PROVE  f = g
    <3>1. retyped \subseteq want /\ left \subseteq fields  BY DEF retyped, left
    <3>2. \A x \in left, y \in new \cup retyped : x.id # y.id
      BY <1>5, <3>1 DEF left, Ids
    <3>. QED  BY <1>4, <1>5, <1>6, <2>1, <3>1, <3>2
  <2>. QED  BY <1>2, <1>6, <2>1
<1>11. \A f \in fields' : \/ \E g \in fields : g.id = f.id /\ g.key = f.key
                          \/ f \in NewOf(h) /\ f.key \notin Keys(fields)
  <2>1. CASE fields' = fields  BY <2>1
  <2>2. CASE ~fails /\ fields' = left \cup new \cup retyped
    <3>1. \A f \in left : f \in fields  BY DEF left
    <3>2. \A f \in new : f \in NewOf(h) /\ f.key \notin Keys(fields)
      BY <2>2 DEF new, fails, Keys
    <3>3. \A f \in retyped : \E g \in fields : g.id = f.id /\ g.key = f.key
      BY <1>5, <2>2 DEF fails, retyped, Ids
    <3>. QED  BY <2>2, <3>1, <3>2, <3>3
  <2>. QED  BY <1>2, <2>1, <2>2
<1>12. fields' \subseteq Field
  <2>1. fields \subseteq Field  BY <1>3 DEF Types
  <2>. QED  BY <1>2, <1>4, <2>1 DEF left, retyped
<1>13. \A a \in Addr : Swept(a) \in Dict  BY <1>4, WithoutFacts
<1>14. custom' \in [Addr -> Dict]
  <2>1. custom \in [Addr -> Dict]  BY <1>3 DEF Types
  <2> HIDE DEF Swept
  <2>. QED  BY <1>2, <1>13, <2>1
<1>15. ASSUME FormsOnly'
       PROVE  (\A a \in Addr : OwnCells(custom[a])') /\ CellsRecorded'
  <2>1. Alone /\ h \in Loop  BY <1>1, <1>15, IdleFacts, AloneStep
  <2>2. req[h].rows = custom /\ read = fields  BY <1>1, <2>1 DEF Alone, FormOK
  <2>3. \A a \in Addr : OwnCells(custom[a])  BY <2>1 DEF Alone
  <2>4. \A a, k : About(a, k)' = About(a, k)  BY <1>1 DEF About
  <2>5. \A a, k, i : IsNewest(a, k, i)' <=> IsNewest(a, k, i)  BY <2>4 DEF IsNewest
  <2>6. CASE fields' = fields /\ custom' = custom
    <3>1. \A a \in Addr : OwnCells(custom[a])'  BY <2>3, <2>6 DEF OwnCells
    <3>2. CellsRecorded  BY <2>1 DEF Alone
    <3>3. CellsRecorded'
      BY <1>1, <2>4, <2>5, <2>6, <3>2 DEF CellsRecorded, CellRecorded
    <3>. QED  BY <3>1, <3>3
  <2>7. CASE /\ ~fails /\ fields' = left \cup new \cup retyped
             /\ custom' = [a \in Addr |-> IF Swept(a) # req[h].rows[a] THEN Swept(a) ELSE custom[a]]
    <3>1. custom \in [Addr -> Dict]  BY <1>3 DEF Types
    <3>2. \A a \in Addr : custom'[a] = Without(custom[a], Keys(gone))
      BY <2>2, <2>7
    <3>3. ASSUME NEW f \in fields, f \notin gone
          PROVE  \E g \in fields' : g.id = f.id /\ g.key = f.key
      <4>1. PICK w \in want : w.id = f.id  BY <2>2, <3>3 DEF gone, Ids
      <4>2. w \notin new  BY <1>5, <4>1 DEF Ids
      <4>3. CASE w \in retyped
        BY <1>5, <2>7, <4>1, <4>3
      <4>4. CASE w \in read
        <5>1. w = f  BY <1>6, <2>2, <4>1, <4>4
        <5>2. f.id \notin Ids(gone)  BY <1>8, <4>1
        <5>3. f.id \notin Ids(retyped)
          BY <1>5, <2>2, <4>1, <5>1 DEF retyped, Ids
        <5>4. f \in left  BY <5>2, <5>3 DEF left
        <5>. QED  BY <2>7, <5>4
      <4>. QED  BY <1>9, <4>2, <4>3, <4>4
    <3>4. ASSUME NEW a \in Addr PROVE OwnCells(custom[a])'
      <4>1. PICK d \in Dict, K \in {Keys(gone)} : d = custom[a] /\ custom'[a] = Without(d, K)
        BY <3>1, <3>2
      <4>2. /\ DOMAIN custom'[a] = DOMAIN custom[a] \ Keys(gone)
            /\ \A k \in DOMAIN custom'[a] : custom'[a][k] = custom[a][k]
        <5>1. /\ DOMAIN Without(d, K) = DOMAIN d \ K
              /\ \A k \in DOMAIN d \ K : Without(d, K)[k] = d[k]
          BY WithoutFacts
        <5>. QED  BY <4>1, <5>1
      <4>3. ASSUME NEW k \in DOMAIN custom'[a]
            PROVE  \E f \in fields' : f.key = k /\ custom'[a][k].owner = f.id
        <5>1. PICK f \in fields : f.key = k /\ custom[a][k].owner = f.id
          BY <2>3, <4>2 DEF OwnCells
        <5>2. f \notin gone  BY <4>2, <5>1 DEF Keys
        <5>3. PICK g \in fields' : g.id = f.id /\ g.key = f.key  BY <3>3, <5>2
        <5>. QED  BY <4>2, <5>1, <5>3
      <4>. QED  BY <4>3 DEF OwnCells
    <3>5. ASSUME NEW a \in Addr, NEW f \in fields' PROVE CellRecorded(a, f)'
      <4>1. PICK d \in Dict, K \in {Keys(gone)} : d = custom[a] /\ custom'[a] = Without(d, K)
        BY <3>1, <3>2
      <4>2. /\ DOMAIN custom'[a] = DOMAIN custom[a] \ Keys(gone)
            /\ \A k : k \notin Keys(gone) => Shown(custom'[a], k) = Shown(custom[a], k)
        <5>1. /\ DOMAIN Without(d, K) = DOMAIN d \ K
              /\ \A k : k \notin K => Shown(Without(d, K), k) = Shown(d, k)
          BY WithoutFacts
        <5>. QED  BY <4>1, <5>1
      <4>3. CASE f \in NewOf(h) /\ f.key \notin Keys(fields)
        <5>1. f.key \notin DOMAIN custom[a]  BY <2>3, <4>3 DEF OwnCells, Keys
        <5>2. Shown(custom'[a], f.key) = ""  BY <4>2, <5>1 DEF Shown
        <5>3. \A i \in DOMAIN history : history[i].column # f.id
          BY <1>1, <2>1, <4>3 DEF Alone, FormOK
        <5>4. \A i \in About(a, f.key)' : history'[i].column # f.id
          BY <1>1, <2>4, <5>3 DEF About
        <5>. QED  BY <5>2, <5>4 DEF CellRecorded
      <4>4. CASE \E g \in fields : g.id = f.id /\ g.key = f.key
        <5>1. PICK g \in fields : g.id = f.id /\ g.key = f.key  BY <4>4
        <5>2. f.id \notin Ids(gone)
          <6>1. retyped \subseteq want /\ \A e \in left : e.id \notin Ids(gone)
            BY DEF retyped, left
          <6>. QED  BY <1>4, <1>8, <2>7, <6>1
        <5>3. f.key \notin Keys(gone)
          <6>1. \A e \in gone : e \in fields /\ e.id # f.id
            BY <2>2, <5>2 DEF gone, Ids
          <6>2. \A e \in fields : e.key = g.key => e = g  BY <1>3 DEF FieldsOK
          <6>. QED  BY <5>1, <6>1, <6>2 DEF Keys
        <5>4. Shown(custom'[a], f.key) = Shown(custom[a], g.key)  BY <4>2, <5>1, <5>3
        <5>5. CellRecorded(a, g)  BY <2>1 DEF Alone, CellsRecorded
        <5>6. history' = history  BY <1>1
        <5>. QED  BY <2>4, <2>5, <5>1, <5>4, <5>5, <5>6 DEF CellRecorded
      <4>. QED  BY <1>11, <4>3, <4>4
    <3>6. CellsRecorded'  BY <3>5 DEF CellsRecorded
    <3>. QED  BY <3>4, <3>6
  <2>. QED  BY <1>2, <2>6, <2>7
<1>16. req[h].pc # "off"  BY <1>1
<1>. QED  BY <1>1, <1>10, <1>11, <1>12, <1>14, <1>15, <1>16, ColumnsCommitted

-----------------------------------------------------------------------------
(***************************************************************************)
(* The commit of one address: its texts and cells, and the history.        *)
(***************************************************************************)

LEMMA NewestIs ==
  ASSUME NEW S, S \subseteq Nat, NEW i \in S, \A j \in S : j <= i
  PROVE  Newest(S) = i
<1>1. \A j \in S : (\A m \in S : m <= j) => j = i  OBVIOUS
<1>. QED  BY <1>1 DEF Newest

\* Of some entries of the history, one is the newest.
LEMMA NewestIn ==
  ASSUME Types, NEW S, S \subseteq DOMAIN history, S # {}
  PROVE  Newest(S) \in S /\ \A j \in S : j <= Newest(S)
<1>1. PICK n \in Nat : n = Len(history) /\ DOMAIN history = 1..n  BY DEF Types
<1>2. \A x \in S : x \in Nat /\ x <= n  BY <1>1
<1>3. PICK i \in S : \A j \in S : j <= i  BY <1>2, GreatestNatural
<1>. QED  BY <1>3 DEF Newest

\* The entries s about address a follow the n there were.
Grown(a, s, n) ==
  /\ \A i \in DOMAIN history : i \in Nat /\ i \in DOMAIN history' /\ history'[i] = history[i]
  /\ \A i \in DOMAIN history' :
       i \in DOMAIN history \/ \E j \in DOMAIN s : i = n + j /\ history'[i] = s[j]
  /\ \A j \in DOMAIN s : /\ n + j \in DOMAIN history' /\ history'[n + j] = s[j]
                         /\ \A i \in DOMAIN history : i < n + j
                         /\ IsNewest(a, s[j].name, n + j)'
  /\ \A b, k : b # a \/ (\A j \in DOMAIN s : s[j].name # k) =>
       About(b, k)' = About(b, k) /\ \A i : IsNewest(b, k, i)' <=> IsNewest(b, k, i)

LEMMA AppendedHistory ==
  ASSUME history \in Seq(HistoryRow), NEW s \in Seq(HistoryRow), NEW a,
         NEW n \in Nat, n = Len(history), history' = history \o s,
         \A i \in DOMAIN s : s[i].addr = a,
         \A i, j \in DOMAIN s : s[i].name = s[j].name => i = j
  PROVE  Grown(a, s, n)
<1>1. DOMAIN history = 1..n /\ DOMAIN s = 1..Len(s) /\ Len(s) \in Nat
  OBVIOUS
<1>2. /\ DOMAIN history' = 1..(n + Len(s))
      /\ \A i \in 1..n : history'[i] = history[i]
      /\ \A j \in 1..Len(s) : history'[n + j] = s[j]
  OBVIOUS
<1>3. \A i \in DOMAIN history : i \in Nat /\ i \in DOMAIN history' /\ history'[i] = history[i]
  BY <1>1, <1>2
<1>4. ASSUME NEW i \in DOMAIN history', i \notin DOMAIN history
      PROVE  \E j \in DOMAIN s : i = n + j /\ history'[i] = s[j]
  <2>1. i - n \in 1..Len(s) /\ i = n + (i - n)  BY <1>1, <1>2, <1>4
  <2>2. history'[i] = s[i - n]  BY <1>2, <2>1
  <2>. QED  BY <1>1, <2>1, <2>2
<1>5. \A j \in DOMAIN s : /\ n + j \in DOMAIN history' /\ history'[n + j] = s[j]
                          /\ \A i \in DOMAIN history : i < n + j
  BY <1>1, <1>2
<1>6. ASSUME NEW j \in DOMAIN s PROVE IsNewest(a, s[j].name, n + j)'
  <2>1. n + j \in About(a, s[j].name)'  BY <1>5 DEF About
  <2>2. ASSUME NEW i \in About(a, s[j].name)' PROVE i <= n + j
    <3>1. i \in DOMAIN history' /\ history'[i].name = s[j].name  BY <2>2 DEF About
    <3>2. CASE i \in DOMAIN history
      <4>1. i < n + j /\ i \in Nat /\ j \in Nat  BY <1>1, <1>5, <3>2
      <4>. QED  BY <1>1, <4>1
    <3>3. CASE i \notin DOMAIN history
      <4>1. PICK x \in DOMAIN s : i = n + x /\ history'[i] = s[x]  BY <1>4, <3>1, <3>3
      <4>2. x = j  BY <3>1, <4>1
      <4>. QED  BY <1>1, <4>1, <4>2
    <3>. QED  BY <3>2, <3>3
  <2>3. \A i \in About(a, s[j].name)' : i <= n + j  BY <2>2
  <2>. QED  BY <2>1, <2>3 DEF IsNewest
<1>7. ASSUME NEW b, NEW k, b # a \/ \A j \in DOMAIN s : s[j].name # k
      PROVE  About(b, k)' = About(b, k) /\ \A i : IsNewest(b, k, i)' <=> IsNewest(b, k, i)
  <2>1. About(b, k)' = About(b, k)
    <3>1. \A i \in DOMAIN history' : i \notin DOMAIN history =>
            history'[i].addr # b \/ history'[i].name # k
      BY <1>4, <1>7
    <3>. QED  BY <1>3, <3>1 DEF About
  <2>. QED  BY <2>1 DEF IsNewest
<1>. QED  BY <1>3, <1>4, <1>5, <1>6, <1>7 DEF Grown

\* Of the columns one has the key an entry names.
LEMMA OneColumn ==
  ASSUME Inv, NEW s, OwnEntries(s), NEW j \in DOMAIN s, NEW f \in fields,
         s[j].name = f.key, f.key # "text"
  PROVE  s[j].column = f.id
<1>1. PICK g \in fields : g.key = f.key /\ g.id = s[j].column  BY DEF OwnEntries
<1>2. g = f  BY <1>1 DEF Inv, FieldsOK
<1>. QED  BY <1>1, <1>2

LEMMA AddressCommitKeeps ==
  ASSUME Inv, NEW h \in Handler, AddressCommit(h)
  PROVE  Inv'
<1>1. PICK r \in Request : r = req[h]  BY DEF Inv, Types
<1>2. PICK a \in Addr, s \in Seq(HistoryRow), n \in Nat :
        a = r.addr /\ s = r.entries /\ n = Len(history)
  BY DEF Inv, Types, Request
<1>3. /\ r.pc = "commit" /\ req' = [req EXCEPT ![h] = Idle] /\ fields' = fields /\ nextId' = nextId
      /\ text' = [text EXCEPT ![a] = IF r.newText # r.text THEN r.newText ELSE @]
      /\ custom' = [custom EXCEPT ![a] = IF r.newCustom # r.custom THEN r.newCustom ELSE @]
      /\ history' = history \o s
  BY <1>1, <1>2 DEF AddressCommit, Entries
<1>4. /\ text \in [Addr -> Value] /\ custom \in [Addr -> Dict] /\ history \in Seq(HistoryRow)
      /\ fields \subseteq Field /\ nextId \in 1..(MaxId + 1)
  BY DEF Inv, Types
<1>5. /\ req' \in [Handler -> Request] /\ req'[h] = Idle
      /\ \A g \in Handler : g # h => req'[g] = req[g]
  BY <1>3, IdleFacts, ReqUpdate DEF Inv
<1>6. /\ \A i, j \in DOMAIN s : s[i].name = s[j].name => i = j
      /\ r.newText # r.text => \E i \in DOMAIN s : s[i].name = "text"
      /\ \A k \in Key : Shown(r.newCustom, k) # Shown(r.custom, k) =>
           \E i \in DOMAIN s : s[i].name = k
      /\ \A i \in DOMAIN s :
           /\ s[i].addr = a /\ s[i].column < nextId
           /\ s[i].name = "text" => /\ s[i].old = r.text /\ s[i].new = r.newText
                                    /\ s[i].old # s[i].new /\ s[i].column = 0
           /\ s[i].name # "text" => /\ s[i].old = Shown(r.custom, s[i].name)
                                    /\ s[i].new = Shown(r.newCustom, s[i].name)
  BY <1>1, <1>2, <1>3 DEF Inv, EditOK
<1>7. /\ \A i \in DOMAIN history : i \in Nat /\ i \in DOMAIN history' /\ history'[i] = history[i]
      /\ \A i \in DOMAIN history' :
           i \in DOMAIN history \/ \E j \in DOMAIN s : i = n + j /\ history'[i] = s[j]
      /\ \A j \in DOMAIN s : /\ n + j \in DOMAIN history' /\ history'[n + j] = s[j]
                             /\ \A i \in DOMAIN history : i < n + j
                             /\ IsNewest(a, s[j].name, n + j)'
      /\ \A b, k : b # a \/ (\A j \in DOMAIN s : s[j].name # k) =>
           About(b, k)' = About(b, k) /\ \A i : IsNewest(b, k, i)' <=> IsNewest(b, k, i)
  <2>1. history \in Seq(HistoryRow) /\ n = Len(history) /\ history' = history \o s
    BY <1>2, <1>3, <1>4
  <2>2. /\ \A i \in DOMAIN s : s[i].addr = a
        /\ \A i, j \in DOMAIN s : s[i].name = s[j].name => i = j
    BY <1>6
  <2>3. Grown(a, s, n)  BY <2>1, <2>2, AppendedHistory
  <2>. QED  BY <2>3 DEF Grown
<1>8. Types'
  <2>1. text' \in [Addr -> Value]
    <3>1. r.newText \in Value  BY DEF Request
    <3>. QED  BY <1>3, <1>4, <3>1
  <2>2. custom' \in [Addr -> Dict]
    <3>1. r.newCustom \in Dict  BY DEF Request
    <3>. QED  BY <1>3, <1>4, <3>1
  <2>3. history' \in Seq(HistoryRow)  BY <1>3, <1>4
  <2>. QED  BY <1>3, <1>4, <1>5, <2>1, <2>2, <2>3 DEF Types
<1>9. FieldsOK'  BY <1>3 DEF Inv, FieldsOK
<1>10. NewOf(h)' = {} /\ \A g \in Handler : g # h => NewOf(g)' = NewOf(g)
  BY <1>5, IdleFacts DEF NewOf, Ids
<1>11. NewApart'
  <2>1. SUFFICES ASSUME NEW g \in Handler, NEW k \in Handler, g # k, NEW f \in NewOf(k)'
                 PROVE  f.id \notin Ids(req'[g].read) /\ f.id \notin Ids(NewOf(g)')
    BY DEF NewApart, Ids
  <2>2. k # h /\ NewOf(k)' = NewOf(k)  BY <1>10, <2>1
  <2>3. CASE g = h  BY <1>5, <1>10, <2>3, IdleFacts DEF Ids
  <2>4. CASE g # h
    <3>1. NewOf(g)' = NewOf(g) /\ req'[g] = req[g]  BY <1>5, <1>10, <2>4
    <3>. QED  BY <2>1, <2>2, <3>1 DEF Inv, NewApart
  <2>. QED  BY <2>3, <2>4
<1>12. ASSUME NEW g \in Handler PROVE ColumnsOK(g)' /\ EditOK(g)'
  <2>1. CASE g = h  BY <1>5, <1>10, <2>1, IdleFacts DEF ColumnsOK, EditOK
  <2>2. CASE g # h
    <3>1. req'[g] = req[g] /\ NewOf(g)' = NewOf(g)  BY <1>5, <1>10, <2>2
    <3>2. EditOK(g) /\ ColumnsOK(g)  BY DEF Inv
    <3>3. EditOK(g)'
      <4>1. nextId' = nextId  BY <1>3
      <4>. QED  BY <3>1, <3>2, <4>1 DEF EditOK
    <3>4. ColumnsOK(g)'  BY <1>3, <3>1, <3>2 DEF ColumnsOK
    <3>. QED  BY <3>3, <3>4
  <2>. QED  BY <2>1, <2>2
<1>13. ASSUME NEW b \in Addr
       PROVE  About(b, "text")' = {} \/
                \E i \in About(b, "text")' : IsNewest(b, "text", i)' /\ history'[i].new = text'[b]
  <2>1. CASE b = a /\ \E j \in DOMAIN s : s[j].name = "text"
    <3>1. PICK j \in DOMAIN s : s[j].name = "text"  BY <2>1
    <3>2. IsNewest(b, "text", n + j)' /\ history'[n + j].new = r.newText
      BY <1>6, <1>7, <2>1, <3>1
    <3>3. r.newText # r.text  BY <1>6, <3>1
    <3>4. text'[b] = r.newText  BY <1>3, <1>4, <2>1, <3>3
    <3>5. n + j \in About(b, "text")'  BY <3>2 DEF IsNewest
    <3>. QED  BY <3>2, <3>4, <3>5
  <2>2. CASE b # a \/ \A j \in DOMAIN s : s[j].name # "text"
    <3>1. text'[b] = text[b]  BY <1>3, <1>4, <1>6, <2>2
    <3>2. About(b, "text")' = About(b, "text")
          /\ \A i : IsNewest(b, "text", i)' <=> IsNewest(b, "text", i)
      BY <1>7, <2>2
    <3>3. \A i \in About(b, "text") : history'[i] = history[i]  BY <1>7 DEF About
    <3>4. About(b, "text") = {} \/
            \E i \in About(b, "text") : IsNewest(b, "text", i) /\ history[i].new = text[b]
      BY DEF Inv, TextRecorded
    <3>. QED  BY <3>1, <3>2, <3>3, <3>4
  <2>. QED  BY <2>1, <2>2
<1>14. TextRecorded'  BY <1>13 DEF TextRecorded
<1>15. ASSUME FormsOnly'
       PROVE  /\ FormsOnly /\ Alone /\ \A g \in Loop : g = h
              /\ r.text = text[a] /\ r.custom = custom[a] /\ OwnCells(r.newCustom)
              /\ OwnEntries(s)
  <2>1. FormsOnly /\ Alone /\ h \in Loop /\ \A g \in Loop : g = h
    <3>1. req[h].pc # "off"  BY <1>1, <1>3
    <3>. QED  BY <1>3, <1>15, <3>1, IdleFacts, AloneStep
  <2>2. FormOK(h)  BY <2>1 DEF Alone
  <2>3. /\ r.text = text[a] /\ r.custom = custom[a] /\ OwnCells(r.newCustom)
        /\ OwnEntries(s)
    BY <1>1, <1>2, <1>3, <2>2 DEF FormOK
  <2>. QED  BY <2>1, <2>3
<1>16. ASSUME FormsOnly'
       PROVE  /\ custom'[a] = r.newCustom
              /\ \A b \in Addr : b # a => custom'[b] = custom[b]
  BY <1>3, <1>4, <1>15, <1>16
<1>17. ASSUME FormsOnly' PROVE Alone'
  <2>1. \A g \in Loop : FormOK(g)'  BY <1>5, <1>15, <1>17, IdleFacts DEF FormOK
  <2>2. ASSUME NEW b \in Addr PROVE OwnCells(custom[b])'
    <3>1. PICK d : d = custom'[b]  OBVIOUS
    <3>2. OwnCells(d)  BY <1>15, <1>16, <1>17, <3>1 DEF Alone
    <3>3. OwnCells(d)'  BY <1>3, <3>2 DEF OwnCells
    <3>. QED  BY <3>1, <3>3 DEF OwnCells
  <2>3. ASSUME NEW b \in Addr, NEW f \in fields PROVE CellRecorded(b, f)'
    <3>1. PICK k \in Key : k = f.key /\ k # "text"
      <4>1. f.key \in Key  BY <1>4 DEF Field
      <4>. QED  BY <4>1, KeysAssumption
    <3>2. CASE b = a /\ \E j \in DOMAIN s : s[j].name = k
      <4>1. PICK j \in DOMAIN s : s[j].name = k  BY <3>2
      <4>2. IsNewest(b, k, n + j)' /\ history'[n + j] = s[j]  BY <1>7, <3>2, <4>1
      <4>3. n + j \in About(b, k)'  BY <4>2 DEF IsNewest
      <4>4. s[j].new = Shown(custom'[b], k)  BY <1>6, <1>16, <1>17, <3>1, <3>2, <4>1
      <4>5. s[j].column = f.id  BY <1>15, <1>17, <3>1, <4>1, OneColumn
      <4>. QED  BY <3>1, <4>2, <4>3, <4>4, <4>5 DEF CellRecorded
    <3>3. CASE b # a \/ \A j \in DOMAIN s : s[j].name # k
      <4>1. Shown(custom'[b], k) = Shown(custom[b], k)
        <5>1. CASE b # a
          <6>1. custom'[b] = custom[b]  BY <1>16, <1>17, <5>1
          <6>. QED  BY <6>1
        <5>2. CASE b = a /\ \A j \in DOMAIN s : s[j].name # k
          <6>1. Shown(r.newCustom, k) = Shown(r.custom, k)  BY <1>6, <5>2
          <6>2. custom'[b] = r.newCustom /\ custom[b] = r.custom
            BY <1>15, <1>16, <1>17, <5>2
          <6>. QED  BY <6>1, <6>2
        <5>. QED  BY <3>3, <5>1, <5>2
      <4>2. CellRecorded(b, f)  BY <1>15, <1>17 DEF Alone, CellsRecorded
      <4>3. About(b, k)' = About(b, k) /\ \A i : IsNewest(b, k, i)' <=> IsNewest(b, k, i)
        BY <1>7, <3>3
      <4>4. \A i \in About(b, k) : history'[i] = history[i]  BY <1>7 DEF About
      <4>. QED  BY <3>1, <4>1, <4>2, <4>3, <4>4 DEF CellRecorded
    <3>. QED  BY <3>2, <3>3
  <2>4. CellsRecorded'  BY <1>3, <2>3 DEF CellsRecorded
  <2>. QED  BY <2>1, <2>2, <2>4 DEF Alone
<1>18. EntriesOK'
  <2>1. EntriesOK  BY DEF Inv
  <2>2. ASSUME NEW i \in DOMAIN history'
        PROVE  history'[i].column < nextId /\ (history'[i].name = "text" => history'[i].column = 0)
    <3>1. CASE i \in DOMAIN history  BY <1>7, <2>1, <3>1 DEF EntriesOK
    <3>2. CASE i \notin DOMAIN history  BY <1>6, <1>7, <3>2
    <3>. QED  BY <3>1, <3>2
  <2>. QED  BY <1>3, <2>2 DEF EntriesOK
<1>19. ASSUME FormsOnly', NEW j \in DOMAIN history'
       PROVE  \/ /\ Before(j)' # {}
                 /\ history'[Newest(Before(j)')].column = history'[j].column
                 /\ history'[j].old = history'[Newest(Before(j)')].new
              \/ /\ Before(j)' = {} \/
                      history'[Newest(Before(j)')].column # history'[j].column
                 /\ history'[j].name = "text" \/ history'[j].old = ""
  <2>0. PICK e, before : /\ e = history'[j] /\ before = Before(j)'
                         /\ before = {i \in About(e.addr, e.name)' : i < j}
    BY DEF Before
  <2>. SUFFICES IF before # {} /\ history'[Newest(before)].column = e.column
                THEN e.old = history'[Newest(before)].new ELSE e.name = "text" \/ e.old = ""
    BY <2>0
  <2>1. Types /\ \A b, k : About(b, k) \subseteq DOMAIN history  BY DEF Inv, About
  <2>2. CASE j \in DOMAIN history
    <3>1. \A i \in DOMAIN history' : i < j => i \in DOMAIN history
      <4>1. \A m \in DOMAIN s : m \in Nat /\ j < n + m  BY <1>2, <1>7, <2>2
      <4>2. \A m \in DOMAIN s : ~(n + m < j)
        <5>1. j \in Nat  BY <1>7, <2>2
        <5>. QED  BY <4>1, <5>1
      <4>. QED  BY <1>7, <4>2
    <3>2. e = history[j]  BY <1>7, <2>0, <2>2
    <3>3. before = {i \in About(e.addr, e.name) : i < j}
      <4>1. \A i \in DOMAIN history : i \in DOMAIN history' /\ history'[i] = history[i]
        BY <1>7
      <4>. QED  BY <2>0, <3>1, <4>1 DEF About
    <3>4. IF before # {} /\ history[Newest(before)].column = e.column
          THEN e.old = history[Newest(before)].new ELSE e.name = "text" \/ e.old = ""
      <4>1. HistoryChains /\ FormsOnly  BY <1>15, <1>19 DEF Inv
      <4>2. before = Before(j)  BY <3>2, <3>3 DEF Before
      <4>. QED  BY <2>2, <3>2, <4>1, <4>2 DEF HistoryChains
    <3>5. before # {} => history'[Newest(before)] = history[Newest(before)]
      <4>1. before \subseteq DOMAIN history  BY <2>1, <3>3
      <4>2. before # {} => Newest(before) \in before  BY <2>1, <4>1, NewestIn
      <4>. QED  BY <1>7, <4>1, <4>2
    <3>. QED  BY <3>4, <3>5
  <2>3. CASE j \notin DOMAIN history
    <3>1. PICK m \in DOMAIN s : j = n + m /\ e = s[m]  BY <1>7, <2>0, <2>3
    <3>2. PICK k : k = e.name /\ e.addr = a  BY <1>6, <3>1
    <3>3. before = About(a, k)
      <4>1. \A i \in About(a, k) : i \in About(a, k)' /\ i < j  BY <1>7, <3>1 DEF About
      <4>2. ASSUME NEW i \in About(a, k)', i < j PROVE i \in About(a, k)
        <5>1. i \in DOMAIN history' /\ history'[i].addr = a /\ history'[i].name = k
          BY <4>2 DEF About
        <5>2. CASE i \in DOMAIN history  BY <1>7, <5>1, <5>2 DEF About
        <5>3. CASE i \notin DOMAIN history
          <6>1. PICK x \in DOMAIN s : i = n + x /\ history'[i] = s[x]  BY <1>7, <5>1, <5>3
          <6>2. x = m  BY <1>6, <3>1, <3>2, <5>1, <6>1
          <6>3. m \in Nat  BY <1>2
          <6>. QED  BY <3>1, <4>2, <6>1, <6>2, <6>3
        <5>. QED  BY <5>2, <5>3
      <4>. QED  BY <2>0, <3>2, <4>1, <4>2
    <3>4. before # {} => Newest(before) \in before /\ \A i \in before : i <= Newest(before)
      <4>1. before \subseteq DOMAIN history  BY <2>1, <3>3
      <4>. QED  BY <2>1, <4>1, NewestIn
    <3>5. ASSUME before # {}
          PROVE  history'[Newest(before)] = history[Newest(before)]
      <4>1. Newest(before) \in DOMAIN history  BY <2>1, <3>3, <3>4, <3>5
      <4>. QED  BY <1>7, <4>1
    <3>6. ASSUME NEW i \in About(a, k), IsNewest(a, k, i) PROVE Newest(before) = i
      <4>1. before \subseteq Nat /\ i \in before /\ \A x \in before : x <= i
        BY <1>7, <2>1, <3>3, <3>6 DEF IsNewest
      <4>. QED  BY <4>1, NewestIs
    <3>7. CASE k = "text"
      <4>1. e.old = text[a] /\ e.column = 0  BY <1>6, <1>15, <1>19, <3>1, <3>2, <3>7
      <4>2. ASSUME before # {} PROVE e.old = history[Newest(before)].new
        <5>1. PICK i \in About(a, k) : IsNewest(a, k, i) /\ history[i].new = text[a]
          BY <3>3, <3>7, <4>2 DEF Inv, TextRecorded
        <5>. QED  BY <3>6, <4>1, <5>1
      <4>. QED  BY <3>2, <3>5, <3>7, <4>2
    <3>8. CASE k # "text"
      <4>1. e.old = Shown(custom[a], k)  BY <1>6, <1>15, <1>19, <3>1, <3>2, <3>8
      <4>2. PICK f \in fields : f.key = k /\ f.id = e.column
        BY <1>15, <1>19, <3>1, <3>2, <3>8 DEF OwnEntries
      <4>3. CellRecorded(a, f)  BY <1>15, <1>19 DEF Alone, CellsRecorded
      <4>4. CASE /\ Shown(custom[a], f.key) = ""
                 /\ \A i \in About(a, f.key) : history[i].column # f.id
        <5>1. before # {} => history[Newest(before)].column # e.column
          BY <3>3, <3>4, <4>2, <4>4
        <5>2. e.old = ""  BY <4>1, <4>2, <4>4
        <5>. QED  BY <3>5, <5>1, <5>2
      <4>5. CASE \E i \in About(a, f.key) : /\ IsNewest(a, f.key, i) /\ history[i].column = f.id
                                            /\ history[i].new = Shown(custom[a], f.key)
        <5>1. PICK i \in About(a, k) : /\ IsNewest(a, k, i) /\ history[i].column = e.column
                                       /\ history[i].new = e.old
          BY <4>1, <4>2, <4>5
        <5>2. Newest(before) = i /\ before # {}  BY <3>3, <3>6, <5>1
        <5>. QED  BY <3>5, <5>1, <5>2
      <4>. QED  BY <4>3, <4>4, <4>5 DEF CellRecorded
    <3>. QED  BY <3>7, <3>8
  <2>. QED  BY <2>2, <2>3
<1>20. HistoryChains'  BY <1>19 DEF HistoryChains
<1>. QED  BY <1>8, <1>9, <1>11, <1>12, <1>14, <1>17, <1>18, <1>20 DEF Inv

-----------------------------------------------------------------------------
(***************************************************************************)
(* The invariant holds.                                                    *)
(***************************************************************************)

LEMMA InitInv == Init => Inv
<1>. SUFFICES ASSUME Init PROVE Inv  OBVIOUS
<1>1. PICK off \in Request : off = [Idle EXCEPT !.pc = "off"]  BY IdleFacts DEF Request
<1>2. off.want = {} /\ off.read = {} /\ off.pc = "off"  BY <1>1, IdleFacts DEF Request
<1>3. /\ text \in [Addr -> Value] /\ custom = [a \in Addr |-> <<>>]
      /\ fields = {} /\ nextId = 1 /\ history = <<>>
      /\ req \in [Handler -> {Idle, off}]
  BY <1>1 DEF Init
<1>4. ASSUME NEW h \in Handler
      PROVE  /\ req[h] \in Request /\ req[h].want = {} /\ req[h].read = {}
             /\ req[h].pc \in {"idle", "off"}
  BY <1>2, <1>3, IdleFacts
<1>5. Types
  <2>1. custom \in [Addr -> Dict]  BY <1>3, EmptyDict
  <2>2. nextId \in 1..(MaxId + 1)  BY <1>3, MaxIdNat
  <2>3. history \in Seq(HistoryRow)  BY <1>3
  <2>4. req \in [Handler -> Request]  BY <1>3, <1>4
  <2>. QED  BY <1>3, <2>1, <2>2, <2>3, <2>4 DEF Types
<1>6. \A h \in Handler : NewOf(h) = {}  BY <1>4 DEF NewOf
<1>7. FieldsOK /\ NewApart  BY <1>3, <1>6 DEF FieldsOK, NewApart
<1>8. \A h \in Handler : ColumnsOK(h) /\ EditOK(h)
  BY <1>4, <1>6 DEF ColumnsOK, EditOK
<1>9. DOMAIN history = {}  BY <1>3
<1>10. TextRecorded /\ EntriesOK /\ HistoryChains
  BY <1>9 DEF TextRecorded, EntriesOK, About, HistoryChains
<1>11. Alone
  <2>1. \A h \in Loop : FormOK(h)  BY <1>4 DEF FormOK, Handler
  <2>2. \A a \in Addr : DOMAIN custom[a] = {}  BY <1>3, EmptyDict
  <2>3. \A a \in Addr : OwnCells(custom[a])  BY <2>2 DEF OwnCells
  <2>4. CellsRecorded  BY <1>3 DEF CellsRecorded
  <2>. QED  BY <2>1, <2>3, <2>4 DEF Alone
<1>. QED  BY <1>5, <1>7, <1>8, <1>10, <1>11 DEF Inv

LEMMA StutterKeeps ==
  ASSUME Inv, UNCHANGED vars
  PROVE  Inv'
<1>1. /\ text' = text /\ custom' = custom /\ fields' = fields /\ nextId' = nextId
      /\ history' = history /\ req' = req
  BY DEF vars
<1>2. Types' /\ FieldsOK'  BY <1>1 DEF Inv, Types, FieldsOK
<1>3. \A h \in Handler : NewOf(h)' = NewOf(h)  BY <1>1 DEF NewOf, Ids
<1>4. NewApart'  BY <1>1, <1>3 DEF Inv, NewApart, Ids
<1>5. ASSUME NEW h \in Handler PROVE ColumnsOK(h)' /\ EditOK(h)'
  <2>1. ColumnsOK(h) /\ EditOK(h)  BY DEF Inv
  <2>2. ColumnsOK(h)'  BY <1>1, <1>3, <2>1 DEF ColumnsOK, Ids
  <2>3. EditOK(h)'  BY <1>1, <2>1 DEF EditOK
  <2>. QED  BY <2>2, <2>3
<1>6. TextRecorded' /\ EntriesOK'
  BY <1>1 DEF Inv, TextRecorded, EntriesOK, IsNewest, About
<1>7. FormsOnly' => FormsOnly  BY <1>1 DEF FormsOnly
<1>8. HistoryChains'
  <2>1. HistoryChains  BY DEF Inv
  <2>. QED  BY <1>1, <1>7, <2>1, ChainsFrame
<1>9. ASSUME FormsOnly' PROVE Alone'
  <2>1. Alone  BY <1>7, <1>9 DEF Inv
  <2>2. ASSUME NEW h \in Loop PROVE FormOK(h)'
    <3>1. FormOK(h) /\ h \in Handler  BY <2>1 DEF Alone, Handler
    <3>2. /\ OwnCells(req[h].newCustom)' <=> OwnCells(req[h].newCustom)
          /\ OwnEntries(req[h].entries)' <=> OwnEntries(req[h].entries)
      BY <1>1 DEF OwnCells, OwnEntries
    <3>3. (Keys(NewOf(h)) \cap Keys(fields))' = Keys(NewOf(h)) \cap Keys(fields)
      BY <1>1, <1>3, <3>1 DEF Keys
    <3>4. NewOf(h)' = NewOf(h)  BY <1>3, <3>1
    <3>. QED  BY <1>1, <3>1, <3>2, <3>3, <3>4 DEF FormOK
  <2>3. \A a \in Addr : OwnCells(custom[a])'  BY <1>1, <2>1 DEF Alone, OwnCells
  <2>4. CellsRecorded'
    <3>1. \A a, k : About(a, k)' = About(a, k)  BY <1>1 DEF About
    <3>2. \A a, k, i : IsNewest(a, k, i)' <=> IsNewest(a, k, i)  BY <3>1 DEF IsNewest
    <3>. QED  BY <1>1, <2>1, <3>1, <3>2 DEF Alone, CellsRecorded, CellRecorded
  <2>. QED  BY <2>2, <2>3, <2>4 DEF Alone
<1>. QED  BY <1>2, <1>4, <1>5, <1>6, <1>8, <1>9 DEF Inv

LEMMA NextKeeps == Inv /\ [Next]_vars => Inv'
<1>. SUFFICES ASSUME Inv, [Next]_vars PROVE Inv'  OBVIOUS
<1>1. CASE UNCHANGED vars  BY <1>1, StutterKeeps
<1>2. CASE Next
  <2>1. PICK h \in Handler :
          \/ \E a \in Addr, what \in {"edit", "clear", "patch"} : LoadAddress(h, a, what)
          \/ Edit(h) \/ Clear(h) \/ Patch(h) \/ AddressCommit(h)
          \/ \E n \in Name, t \in Type : AddField(h, n, t)
          \/ AddCommit(h) \/ ReplaceCommit(h)
          \/ \E keep \in SUBSET {f.id : f \in fields} : \E type \in [keep -> Type],
                added \in SeqOf([name : Name, type : Type], MaxFields) :
                  Replace(h, keep, type, added)
    BY <1>2 DEF Next
  <2>2. CASE \E a \in Addr, what \in {"edit", "clear", "patch"} : LoadAddress(h, a, what)
    BY <2>2, LoadAddressKeeps
  <2>3. CASE Edit(h) \/ Clear(h) \/ Patch(h)  BY <2>3, EditKeeps
  <2>4. CASE AddressCommit(h)  BY <2>4, AddressCommitKeeps
  <2>5. CASE \E n \in Name, t \in Type : AddField(h, n, t)  BY <2>5, AddFieldKeeps
  <2>6. CASE AddCommit(h)  BY <2>6, AddCommitKeeps
  <2>7. CASE ReplaceCommit(h)  BY <2>7, ReplaceCommitKeeps
  <2>8. ASSUME NEW keep, NEW type \in [keep -> Type],
               NEW added \in SeqOf([name : Name, type : Type], MaxFields),
               Replace(h, keep, type, added)
        PROVE  Inv'
    <3>1. PICK m \in 0..MaxFields : added \in [1..m -> [name : Name, type : Type]]
      BY DEF SeqOf
    <3>2. m \in Nat
      <4>1. MaxFields \in Nat  BY FieldsAssumption
      <4>. QED  BY <4>1
    <3>. QED  BY <2>8, <3>1, <3>2, ReplaceKeeps
  <2>. QED  BY <2>1, <2>2, <2>3, <2>4, <2>5, <2>6, <2>7, <2>8
<1>. QED  BY <1>1, <1>2

THEOREM InvHolds == Spec => []Inv
BY InitInv, NextKeeps, PTL DEF Spec

-----------------------------------------------------------------------------
(***************************************************************************)
(* The theorems.                                                           *)
(***************************************************************************)

\* Whatever forms, API calls and changes of columns run at the same time: the
\* cells stay typed, and no two columns share an id or a key.
THEOREM FieldsTypeCorrect == Spec => []TypeOK
<1>1. Inv => TypeOK
  <2>. SUFFICES ASSUME Inv PROVE TypeOK  OBVIOUS
  <2>1. ASSUME NEW a \in Addr
        PROVE  DOMAIN custom[a] \subseteq Key /\ \A k \in DOMAIN custom[a] : custom[a][k] \in Cell
    <3>1. PICK K \in SUBSET Key : custom[a] \in [K -> Cell]  BY DEF Inv, Types, Dict
    <3>. QED  BY <3>1
  <2>. QED  BY <2>1 DEF Inv, Types, FieldsOK, TypeOK
<1>. QED  BY <1>1, InvHolds, PTL

\* The newest entry of the history about a text shows the text, whoever edits
\* the address at the same time.
THEOREM TextAlwaysRecorded == Spec => []TextIsRecorded
<1>1. Inv => TextIsRecorded
  <2>. SUFFICES ASSUME Inv, NEW a \in Addr, About(a, "text") # {}
                PROVE  history[Newest(About(a, "text"))].new = text[a]
    BY DEF TextIsRecorded
  <2>1. PICK i \in About(a, "text") : IsNewest(a, "text", i) /\ history[i].new = text[a]
    BY DEF Inv, TextRecorded
  <2>2. Newest(About(a, "text")) = i
    <3>1. About(a, "text") \subseteq Nat  BY DEF Inv, Types, About
    <3>. QED  BY <2>1, <3>1, NewestIs DEF IsNewest
  <2>. QED  BY <2>1, <2>2
<1>. QED  BY <1>1, InvHolds, PTL

\* With the forms of one process alone, a cell shows what the newest entry about its
\* column left, and nothing if there is none, whatever columns come and go.
THEOREM CellsAlwaysRecorded == Spec => []CellIsRecorded
<1>1. Inv => CellIsRecorded
  <2>. SUFFICES ASSUME Inv, FormsOnly, NEW a \in Addr, NEW f \in fields,
                       NEW its, its = {i \in About(a, f.key) : history[i].column = f.id}
                PROVE  Shown(custom[a], f.key) =
                         IF its = {} THEN "" ELSE history[Newest(its)].new
    BY DEF CellIsRecorded
  <2>1. CellRecorded(a, f)  BY DEF Inv, Alone, CellsRecorded
  <2>2. CASE /\ Shown(custom[a], f.key) = ""
             /\ \A i \in About(a, f.key) : history[i].column # f.id
    BY <2>2
  <2>3. CASE \E i \in About(a, f.key) : /\ IsNewest(a, f.key, i) /\ history[i].column = f.id
                                        /\ history[i].new = Shown(custom[a], f.key)
    <3>1. PICK i \in its : /\ IsNewest(a, f.key, i)
                           /\ history[i].new = Shown(custom[a], f.key)
      BY <2>3
    <3>2. its \subseteq Nat /\ \A j \in its : j <= i  BY <3>1 DEF Inv, Types, About, IsNewest
    <3>3. Newest(its) = i  BY <3>2, NewestIs
    <3>. QED  BY <3>1, <3>3
  <2>. QED  BY <2>1, <2>2, <2>3 DEF CellRecorded
<1>. QED  BY <1>1, InvHolds, PTL

\* With the forms of one process alone, an entry of the history starts from what
\* the entry before it left, for a column as long as it is the same column.
THEOREM HistoryAlwaysChains == Spec => []HistoryChains
<1>1. Inv => HistoryChains  BY DEF Inv
<1>. QED  BY <1>1, InvHolds, PTL

\* With the forms of one process alone, no column shows what a deleted column
\* with its key left behind.
THEOREM CellsStayWithTheirColumn == Spec => []CellsOfTheirOwn
<1>1. Inv => CellsOfTheirOwn
  <2>. SUFFICES ASSUME Inv, FormsOnly, NEW a \in Addr, NEW f \in fields,
                       f.key \in DOMAIN custom[a]
                PROVE  custom[a][f.key].owner = f.id
    BY DEF CellsOfTheirOwn
  <2>1. PICK g \in fields : g.key = f.key /\ custom[a][f.key].owner = g.id
    BY DEF Inv, Alone, OwnCells
  <2>2. g = f  BY <2>1 DEF Inv, FieldsOK
  <2>. QED  BY <2>1, <2>2
<1>. QED  BY <1>1, InvHolds, PTL

\* With the forms of one process alone, the keys a form chose for its new columns,
\* however many, differ and are still free when it commits, and the columns it
\* keeps are still there.
THEOREM ReplaceAlwaysSucceeds == Spec => []ReplaceSucceeds
<1>1. Inv => ReplaceSucceeds
  <2>. SUFFICES ASSUME Inv, FormsOnly, NEW h \in Loop, req[h].pc = "replace"
                PROVE  /\ Keys(NewOf(h)) \cap Keys(fields) = {}
                       /\ \A f, g \in NewOf(h) : f.key = g.key => f = g
                       /\ Ids(req[h].want \ NewOf(h)) \subseteq Ids(fields)
    BY DEF ReplaceSucceeds
  <2>1. FormOK(h) /\ ColumnsOK(h)  BY DEF Inv, Alone, Handler
  <2>2. req[h].read = fields /\ Keys(NewOf(h)) \cap Keys(fields) = {}  BY <2>1 DEF FormOK
  <2>3. \A f, g \in NewOf(h) : f.key = g.key => f = g  BY <2>1 DEF ColumnsOK
  <2>4. \A f \in req[h].want \ NewOf(h) : f.id \in Ids(fields)  BY <2>2 DEF NewOf
  <2>5. Ids(req[h].want \ NewOf(h)) \subseteq Ids(fields)  BY <2>4 DEF Ids
  <2>. QED  BY <2>2, <2>3, <2>5
<1>. QED  BY <1>1, InvHolds, PTL
=============================================================================
