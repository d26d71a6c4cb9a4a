---------------------------- MODULE InventoryProofs ----------------------------
(***************************************************************************)
(* Proofs about Inventory and the networks of Subnets, for addresses of    *)
(* any number of bits, any names, processes, handlers and bounds.          *)
(***************************************************************************)
EXTENDS Inventory, CommonLemmas

(***************************************************************************)
(* Networks.                                                               *)
(***************************************************************************)

\* The size of a network.
LEMMA Sizes ==
  ASSUME NEW prefix \in 0..Bits
  PROVE  /\ Size(prefix) \in Nat \ {0}
         /\ prefix = Bits => Size(prefix) = 1
         /\ prefix = Bits - 1 => Size(prefix) = 2
         /\ prefix < Bits - 1 => Size(prefix) >= 4
         /\ 2^Bits \in Nat \ {0} /\ 2^prefix \in Nat \ {0}
         /\ 2^Bits = Size(prefix) * 2^prefix
<1>1. Bits \in Nat /\ prefix \in Nat /\ Bits - prefix \in Nat
  <2>1. Bits \in Nat  BY SubnetsAssumption
  <2>2. \A n \in Nat : \A p \in 0..n : p \in Nat /\ n - p \in Nat  OBVIOUS
  <2>. QED  BY <2>1, <2>2
<1>2. PICK k \in Nat : k = Bits - prefix  BY <1>1
<1>3. Size(prefix) = 2^k  BY <1>2 DEF Size
<1>4. /\ \A n \in Nat : 2^n \in Nat \ {0} /\ 2^(n + 1) = 2 * 2^n
      /\ 2^0 = 1
  BY PowerOfTwo
<1>5. 2^1 = 2  BY <1>4
<1>6. k >= 2 => 2^k >= 4
  <2> SUFFICES ASSUME k >= 2 PROVE 2^k >= 4
    OBVIOUS
  <2>1. PICK j \in Nat : k = (j + 1) + 1  BY k >= 2, k - 2 \in Nat
  <2>2. PICK x \in Nat \ {0} : x = 2^j  BY <1>4
  <2>3. 2^(j + 1) = 2 * x /\ 2^k = 2 * 2^(j + 1)  BY <1>4, <2>1, <2>2
  <2>. QED  BY <2>2, <2>3
<1>7. 2^Bits = 2^k * 2^prefix
  <2>1. Bits = k + prefix  BY <1>1, <1>2
  <2>. QED  BY <1>1, <2>1, PowerSum
<1>. QED  BY <1>1, <1>2, <1>3, <1>4, <1>5, <1>6, <1>7

\* A network begins at a multiple of its size and ends within the addresses.
NetworkShape(net) ==
  /\ net.prefix \in 0..Bits /\ net.base \in Nat
  /\ \E q \in Nat : net.base = Size(net.prefix) * q
  /\ net.base + Size(net.prefix) <= 2^Bits

LEMMA NetworkShapes ==
  ASSUME NEW a \in Address, NEW prefix \in 0..Bits
  PROVE  /\ NetworkShape(NetworkOf(a, prefix)) /\ NetworkOf(a, prefix) \in Network
         /\ NetworkOf(a, prefix).prefix = prefix
         /\ NetworkOf(a, prefix).base = Size(prefix) * (a \div Size(prefix))
         /\ a \in Members(NetworkOf(a, prefix))
<1>1. /\ Size(prefix) \in Nat \ {0} /\ 2^Bits \in Nat \ {0} /\ 2^prefix \in Nat \ {0}
      /\ 2^Bits = Size(prefix) * 2^prefix
  BY Sizes
<1>2. PICK m \in Nat \ {0}, n \in Nat \ {0}, all \in Nat \ {0} :
        m = Size(prefix) /\ n = 2^prefix /\ all = 2^Bits
  BY <1>1
<1>3. a \in Nat /\ a < all  BY <1>1, <1>2 DEF Address
<1>4. PICK d \in Nat, r \in Nat : d = a \div m /\ r = a % m
  BY <1>2, <1>3, Division
<1>5. a = m * d + r /\ r < m /\ m * d \in Nat /\ all = m * n
  <2>1. a = m * (a \div m) + (a % m) /\ a % m < m  BY <1>2, <1>3, Division
  <2>. QED  BY <1>1, <1>2, <1>4, <2>1, Product
<1>6. d < n
  <2>1. SUFFICES n <= d => FALSE
    BY <1>2, <1>4
  <2>2. n <= d => m * n <= m * d  BY <1>2, <1>4, Product
  <2>3. m * n \in Nat  BY <1>2, <1>5
  <2>. QED  BY <1>3, <1>5, <2>2, <2>3
<1>7. m * d + m <= all
  <2>1. \A x, y \in Nat : x < y => m * x + m <= m * y  BY <1>2, Product
  <2>. QED  BY <1>2, <1>4, <1>5, <1>6, <2>1
<1> DEFINE net == NetworkOf(a, prefix)
<1>8. net.prefix = prefix /\ net.base = m * d
  BY <1>2, <1>3, <1>4, <1>5 DEF NetworkOf
<1>9. net \in Network  BY DEF Network
<1>10. a \in Members(net)  BY <1>2, <1>3, <1>5, <1>8 DEF Members
<1>11. NetworkShape(net)
  <2>. HIDE DEF net
  <2>. QED  BY <1>2, <1>4, <1>5, <1>7, <1>8 DEF NetworkShape
<1>. QED  BY <1>2, <1>4, <1>8, <1>9, <1>10, <1>11

LEMMA NetworkFacts ==
  ASSUME NEW net \in Network
  PROVE  NetworkShape(net) /\ Size(net.prefix) \in Nat \ {0}
<1>1. PICK a \in Address, prefix \in 0..Bits : net = NetworkOf(a, prefix)
  BY DEF Network
<1>. QED  BY <1>1, NetworkShapes, Sizes DEF NetworkShape

\* The first and the last host of a network.
LowestHost(net) == IF net.prefix >= Bits - 1 THEN net.base ELSE net.base + 1
HighestHost(net) == IF net.prefix >= Bits - 1 THEN net.base + Size(net.prefix) - 1
             ELSE net.base + Size(net.prefix) - 2

\* The hosts of a network are its addresses but the reserved ones.
LEMMA HostFacts ==
  ASSUME NEW net \in Network
  PROVE  /\ Hosts(net) = LowestHost(net)..HighestHost(net)
         /\ LowestHost(net) \in Nat /\ HighestHost(net) \in Nat /\ LowestHost(net) <= HighestHost(net)
         /\ Hosts(net) = Members(net) \ Reserved(net)
         /\ Hosts(net) \subseteq Members(net) /\ Members(net) \subseteq Address
         /\ Address \subseteq Nat
<1>1. /\ net.prefix \in 0..Bits /\ net.base \in Nat /\ Bits \in Nat
      /\ net.base + Size(net.prefix) <= 2^Bits
      /\ Size(net.prefix) \in Nat \ {0}
  BY NetworkFacts, SubnetsAssumption DEF NetworkShape
<1>2. PICK m \in Nat \ {0}, b \in Nat : m = Size(net.prefix) /\ b = net.base  BY <1>1
<1>3. 2^Bits \in Nat  BY <1>1, Sizes
<1>4. Members(net) = b..(b + m - 1)  BY <1>2 DEF Members
<1>5. Members(net) \subseteq Address /\ Address \subseteq Nat
  BY <1>1, <1>2, <1>3, <1>4 DEF Address
<1>6. CASE net.prefix >= Bits - 1
  BY <1>2, <1>4, <1>5, <1>6 DEF Hosts, LowestHost, HighestHost, Reserved
<1>7. CASE ~ (net.prefix >= Bits - 1)
  <2>1. m >= 4
    <3>1. net.prefix < Bits - 1  BY <1>1, <1>7
    <3>. QED  BY <1>1, <1>2, <3>1, Sizes
  <2>2. /\ Hosts(net) = (b + 1)..(b + m - 2) /\ LowestHost(net) = b + 1 /\ HighestHost(net) = b + m - 2
        /\ Reserved(net) = {b, b + m - 1}
    BY <1>2, <1>7 DEF Hosts, LowestHost, HighestHost, Reserved
  <2>3. (b + 1)..(b + m - 2) = (b..(b + m - 1)) \ {b, b + m - 1}
    BY <1>2, <2>1
  <2>. QED  BY <1>2, <1>4, <1>5, <2>1, <2>2, <2>3
<1>. QED  BY <1>6, <1>7

\* The ordinal of a host counts from the first.
LEMMA Ordinals ==
  ASSUME NEW net \in Network, NEW a \in Hosts(net)
  PROVE  /\ Ordinal(net, a) = a - LowestHost(net) + 1
         /\ Ordinal(net, a) \in Nat \ {0}
<1>1. /\ Hosts(net) = LowestHost(net)..HighestHost(net) /\ LowestHost(net) \in Nat /\ HighestHost(net) \in Nat
  BY HostFacts
<1>2. PICK f \in Nat, l \in Nat : f = LowestHost(net) /\ l = HighestHost(net)  BY <1>1
<1>3. a \in Nat /\ f <= a /\ a <= l  BY <1>1, <1>2
<1>4. {x \in f..l : x <= a} = f..a  BY <1>2, <1>3
<1>5. Cardinality(f..a) = a - f + 1  BY <1>2, <1>3, FS_Interval
<1>6. Ordinal(net, a) = Cardinality(f..a)  BY <1>1, <1>2, <1>4 DEF Ordinal
<1>. QED  BY <1>2, <1>3, <1>5, <1>6

\* Different hosts have different ordinals.
LEMMA OrdinalsDiffer ==
  ASSUME NEW net \in Network, NEW a \in Hosts(net), NEW b \in Hosts(net), a # b
  PROVE  Ordinal(net, a) # Ordinal(net, b)
<1>1. a \in Nat /\ b \in Nat /\ LowestHost(net) \in Nat  BY HostFacts
<1>2. Ordinal(net, a) = a - LowestHost(net) + 1 /\ Ordinal(net, b) = b - LowestHost(net) + 1
  BY Ordinals
<1>. QED  BY <1>1, <1>2

(***************************************************************************)
(* The inductive invariant.                                                *)
(***************************************************************************)

RowType == [ordinal : Nat \ {0}, text : Text]
Rows == UNION {[S -> RowType] : S \in SUBSET Address}

\* A project has a row for each host of its network, and maybe some for the
\* reserved addresses.
ProjectType ==
  {project \in [name : Name, cidr : Network, rows : Rows] :
     /\ Hosts(project.cidr) \subseteq DOMAIN project.rows
     /\ DOMAIN project.rows \subseteq Members(project.cidr)}

Table == UNION {[S -> ProjectType] : S \in SUBSET Nat}

\* The unique keys of ip_addresses and of projects.
OrdinalsApart(project) ==
  \A a, b \in DOMAIN project.rows :
    a # b => project.rows[a].ordinal # project.rows[b].ordinal

NamesApart == \A i, j \in DOMAIN projects : i # j => projects[i].name # projects[j].name

ProjectsOK ==
  /\ nextId \in 1..(MaxId + 1)
  /\ projects \in Table /\ DOMAIN projects \subseteq 1..(nextId - 1)
  /\ \A i \in DOMAIN projects : OrdinalsApart(projects[i])
  /\ NamesApart

\* A host has the ordinal it had, or the one of its place.
Placed(old, new) ==
  /\ new.cidr = old.cidr
  /\ \A a \in Hosts(old.cidr) :
       new.rows[a].ordinal \in {old.rows[a].ordinal, Ordinal(old.cidr, a)}

\* What a starting process has read: since then hosts have kept their ordinals
\* or have been put in their places, and projects that came are in order.
ReadOK(read) ==
  /\ DOMAIN read \subseteq 1..(nextId - 1)
  /\ \A i \in DOMAIN projects :
       IF i \in DOMAIN read THEN Placed(read[i], projects[i]) ELSE Normal(projects[i])

StartsOK ==
  /\ start \in [Starter -> [pc : {"off", "loaded", "on", "failed"}, read : Table]]
  /\ \A p \in Starter : start[p].pc = "loaded" => ReadOK(start[p].read)

\* An import under way: the texts of hosts of the smallest network that holds
\* them, and the project it has made.
FileTexts == UNION {[S -> Text] : S \in SUBSET Address}
ImportType ==
  [pc : {"idle", "create", "fill"}, name : Nat, cidr : Network, texts : FileTexts, id : Nat]

RequestOK(r) ==
  /\ r.pc # "idle" =>
       /\ r.name \in Name /\ DOMAIN r.texts \subseteq Hosts(r.cidr)
       /\ \A net \in Network :
            DOMAIN r.texts \subseteq Members(net) => r.cidr.prefix >= net.prefix
  /\ r.pc = "fill" =>
       /\ r.id < nextId
       /\ r.id \in DOMAIN projects => projects[r.id].cidr = r.cidr

RequestsOK ==
  /\ req \in [Handler -> ImportType]
  /\ \A h \in Handler : RequestOK(req[h])

InventoryInv == ProjectsOK /\ StartsOK /\ RequestsOK /\ UpMeansNormal

\* What every step does to the projects: one that comes is in order and has an
\* id of its own, and one that stays is still in order if it was.
Onward ==
  /\ nextId <= nextId'
  /\ \A i \in DOMAIN projects' :
       IF i \in DOMAIN projects
       THEN Placed(projects[i], projects'[i]) /\ (Normal(projects[i]) => Normal(projects'[i]))
       ELSE i >= nextId /\ Normal(projects'[i])

(***************************************************************************)
(* Projects and their rows.                                                *)
(***************************************************************************)

LEMMA ProjectFacts ==
  ASSUME NEW project \in ProjectType
  PROVE  /\ project \in [name : Name, cidr : Network, rows : Rows]
         /\ project.name \in Name /\ project.cidr \in Network
         /\ Hosts(project.cidr) \subseteq DOMAIN project.rows
         /\ DOMAIN project.rows \subseteq Members(project.cidr)
         /\ project.rows \in [DOMAIN project.rows -> RowType]
         /\ DOMAIN project.rows \subseteq Address
         /\ \A a \in DOMAIN project.rows :
              /\ project.rows[a] \in RowType
              /\ project.rows[a].ordinal \in Nat \ {0} /\ project.rows[a].text \in Text
<1>1. project.rows \in Rows  BY DEF ProjectType
<1>2. PICK S \in SUBSET Address : project.rows \in [S -> RowType]  BY <1>1 DEF Rows
<1>. QED  BY <1>2 DEF ProjectType, RowType

LEMMA IsProject ==
  ASSUME NEW project, NEW rows, NEW name \in Name, NEW net \in Network,
         project = [name |-> name, cidr |-> net, rows |-> rows],
         Hosts(net) \subseteq DOMAIN rows, DOMAIN rows \subseteq Members(net),
         rows \in [DOMAIN rows -> RowType]
  PROVE  project \in ProjectType
<1>1. DOMAIN rows \in SUBSET Address  BY HostFacts
<1>2. rows \in Rows  BY <1>1 DEF Rows
<1>. QED  BY <1>2 DEF ProjectType

LEMMA TableFacts ==
  /\ \A t \in Table : /\ t \in [DOMAIN t -> ProjectType] /\ DOMAIN t \subseteq Nat
                      /\ \A i \in DOMAIN t : t[i] \in ProjectType
  /\ \A S \in SUBSET Nat : \A t \in [S -> ProjectType] : t \in Table
BY DEF Table

LEMMA ProjectsFacts ==
  ASSUME ProjectsOK
  PROVE  /\ nextId \in Nat \ {0} /\ nextId <= MaxId + 1 /\ MaxId \in Nat \ {0}
         /\ DOMAIN projects \subseteq Nat /\ \A i \in DOMAIN projects : i < nextId
         /\ projects \in [DOMAIN projects -> ProjectType]
         /\ \A i \in DOMAIN projects : projects[i] \in ProjectType
<1>1. MaxId \in Nat \ {0} /\ nextId \in 1..(MaxId + 1)
      /\ projects \in Table /\ DOMAIN projects \subseteq 1..(nextId - 1)
  BY InventoryAssumption DEF ProjectsOK
<1>2. nextId \in Nat \ {0} /\ nextId <= MaxId + 1  BY <1>1
<1>. QED  BY <1>1, <1>2, TableFacts

\* The rows of a new project are in order.
LEMMA NewRowsFacts ==
  ASSUME NEW name \in Name, NEW net \in Network, NEW project,
         project = [name |-> name, cidr |-> net, rows |-> NewRows(net)]
  PROVE  project \in ProjectType /\ OrdinalsApart(project) /\ Normal(project)
<1> DEFINE rows == NewRows(net)
<1>1. rows = [a \in Hosts(net) |-> [ordinal |-> Ordinal(net, a), text |-> ""]]
  BY DEF NewRows, EmptyRows
<1>. HIDE DEF rows
<1>2. "" \in Text  BY SubnetsAssumption
<1>3. \A a \in Hosts(net) : rows[a] \in RowType  BY <1>1, <1>2, Ordinals DEF RowType
<1>4. DOMAIN rows = Hosts(net) /\ rows \in [Hosts(net) -> RowType]  BY <1>1, <1>3
<1>5. project \in ProjectType
  <2>1. project = [name |-> name, cidr |-> net, rows |-> rows]  BY DEF rows
  <2>2. Hosts(net) \subseteq Members(net)  BY HostFacts
  <2>. QED  BY <1>4, <2>1, <2>2, IsProject
<1>6. \A a \in Hosts(net) : rows[a].ordinal = Ordinal(net, a)  BY <1>1
<1>. QED  BY <1>4, <1>5, <1>6, OrdinalsDiffer DEF OrdinalsApart, Normal, rows

\* So are, but for their order, those of an older release.
LEMMA LegacyFacts ==
  ASSUME NEW name \in Name, NEW net \in Network, NEW rows \in Legacy(net), NEW project,
         project = [name |-> name, cidr |-> net, rows |-> rows]
  PROVE  project \in ProjectType /\ OrdinalsApart(project)
<1>1. PICK S \in {Members(net), Hosts(net)}, ordinal \in [Members(net) -> 1..Size(net.prefix)] :
        /\ \A a, b \in Members(net) : a # b => ordinal[a] # ordinal[b]
        /\ rows = EmptyRows(S, ordinal)
  BY DEF Legacy
<1>2. Size(net.prefix) \in Nat /\ Hosts(net) \subseteq Members(net) /\ "" \in Text
  BY NetworkFacts, HostFacts, SubnetsAssumption
<1>3. S \subseteq Members(net) /\ Hosts(net) \subseteq S  BY <1>2
<1>4. \A a \in S : ordinal[a] \in Nat \ {0}
  <2>1. PICK m \in Nat : m = Size(net.prefix)  BY <1>2
  <2>2. \A a \in S : ordinal[a] \in 1..m  BY <1>1, <1>3, <2>1
  <2>. QED  BY <2>2
<1>5. rows = [a \in S |-> [ordinal |-> ordinal[a], text |-> ""]]  BY <1>1 DEF EmptyRows
<1>6. rows \in [S -> RowType] /\ DOMAIN rows = S /\ \A a \in S : rows[a].ordinal = ordinal[a]
  BY <1>2, <1>4, <1>5 DEF RowType
<1>7. project \in ProjectType  BY <1>3, <1>6, IsProject
<1>. QED  BY <1>1, <1>3, <1>6, <1>7 DEF OrdinalsApart

\* A start works on the hosts: it deletes the rest.
LEMMA Places ==
  ASSUME NEW project \in ProjectType
  PROVE  /\ Usable(project) = Hosts(project.cidr)
         /\ \A a \in Hosts(project.cidr) : Place(project, a) = Ordinal(project.cidr, a)
         /\ Moved(project) = {a \in Hosts(project.cidr) :
                                project.rows[a].ordinal # Ordinal(project.cidr, a)}
<1>1. Usable(project) = Hosts(project.cidr)
  BY ProjectFacts, HostFacts DEF Usable
<1>2. \A a \in Hosts(project.cidr) : Place(project, a) = Ordinal(project.cidr, a)
  BY <1>1 DEF Place, Ordinal
<1>. QED  BY <1>1, <1>2 DEF Moved

\* The two flushes of a start never meet an ordinal that another row has, and
\* leave each host in its place, although rows may have been placed since the
\* start read them.
LEMMA NormalizedFacts ==
  ASSUME NEW read \in ProjectType, NEW project \in ProjectType, Placed(read, project)
  PROVE  LET done == Normalized(read, project.rows)
         IN /\ ~ done.fails
            /\ DOMAIN done.rows = Hosts(project.cidr)
            /\ \A a \in Hosts(project.cidr) :
                 done.rows[a] = [project.rows[a] EXCEPT !.ordinal = Ordinal(project.cidr, a)]
<1> DEFINE rows == project.rows
           net == project.cidr
           kept == DOMAIN rows \ Reserved(read.cidr)
           before == [a \in kept |-> rows[a].ordinal]
           first == [a \in Moved(read) |-> FirstPlace(read, a)]
           last == [a \in Moved(read) |-> Place(read, a)]
           between == Renumbered(before, Moved(read), first)
<1>1. net \in Network /\ read.cidr = net  BY ProjectFacts DEF Placed
<1>2. kept = Hosts(net)  BY <1>1, ProjectFacts, HostFacts
<1>3. Moved(read) \subseteq Hosts(net)  BY <1>1, Places
<1>4. \A a \in Hosts(net) : /\ Ordinal(net, a) \in Nat \ {0}
                            /\ before[a] = rows[a].ordinal /\ before[a] \in Nat \ {0}
  BY <1>1, <1>2, ProjectFacts, Ordinals
<1>5. \A a \in Moved(read) : last[a] = Ordinal(net, a) /\ first[a] = 0 - Ordinal(net, a)
  BY <1>1, <1>3, Places DEF FirstPlace
<1>6. \A a \in Hosts(net) \ Moved(read) : before[a] = Ordinal(net, a)
  BY <1>1, <1>4, Places DEF Placed
<1>7. DOMAIN before = Hosts(net)  BY <1>2
<1>8. /\ DOMAIN between = Hosts(net)
      /\ \A a \in Hosts(net) : between[a] = IF a \in Moved(read) THEN first[a] ELSE before[a]
  BY <1>7 DEF Renumbered
<1>9. \A a, b \in Hosts(net) : a # b => Ordinal(net, a) # Ordinal(net, b)
  BY <1>1, OrdinalsDiffer
<1>. HIDE DEF kept, before, first, last, between
<1>10. ~ Clashes(before, Moved(read), first)
  <2> SUFFICES ASSUME NEW a \in Moved(read), NEW b \in Hosts(net) \ {a},
                      first[a] = IF b \in Moved(read) /\ b < a THEN first[b] ELSE before[b]
               PROVE  FALSE
    BY <1>7 DEF Clashes
  <2>1. first[a] = 0 - Ordinal(net, a) /\ Ordinal(net, a) \in Nat \ {0} /\ a \in Hosts(net)
    BY <1>3, <1>4, <1>5
  <2>2. CASE b \in Moved(read) /\ b < a
    <3>1. first[b] = 0 - Ordinal(net, b) /\ Ordinal(net, b) \in Nat  BY <1>4, <1>5, <2>2
    <3>2. Ordinal(net, a) = Ordinal(net, b)  BY <2>1, <2>2, <3>1
    <3>. QED  BY <1>9, <2>1, <3>2
  <2>3. CASE ~ (b \in Moved(read) /\ b < a)
    BY <1>4, <2>1, <2>3
  <2>. QED  BY <2>2, <2>3
<1>11. ~ Clashes(between, Moved(read), last)
  <2> SUFFICES ASSUME NEW a \in Moved(read), NEW b \in Hosts(net) \ {a},
                      last[a] = IF b \in Moved(read) /\ b < a THEN last[b] ELSE between[b]
               PROVE  FALSE
    BY <1>8 DEF Clashes
  <2>1. last[a] = Ordinal(net, a) /\ Ordinal(net, a) \in Nat \ {0} /\ a \in Hosts(net)
    BY <1>3, <1>4, <1>5
  <2>2. Ordinal(net, b) \in Nat \ {0} /\ Ordinal(net, a) # Ordinal(net, b)
    BY <1>4, <1>9, <2>1
  <2>3. CASE b \in Moved(read) /\ b < a
    BY <1>5, <2>1, <2>2, <2>3
  <2>4. CASE b \in Moved(read) /\ ~ (b < a)
    <3>1. between[b] = 0 - Ordinal(net, b)  BY <1>5, <1>8, <2>4
    <3>. QED  BY <2>1, <2>2, <2>4, <3>1
  <2>5. CASE b \notin Moved(read)
    <3>1. between[b] = Ordinal(net, b)  BY <1>6, <1>8, <2>5
    <3>. QED  BY <2>1, <2>2, <2>5, <3>1
  <2>. QED  BY <2>3, <2>4, <2>5
<1>12. \A a \in Hosts(net) : Renumbered(between, Moved(read), last)[a] = Ordinal(net, a)
  BY <1>5, <1>6, <1>8 DEF Renumbered
<1>13. Normalized(read, project.rows) =
         [fails |-> \/ Clashes(before, Moved(read), first)
                    \/ Clashes(between, Moved(read), last),
          rows |-> [a \in kept |->
            [rows[a] EXCEPT !.ordinal = Renumbered(between, Moved(read), last)[a]]]]
  BY DEF Normalized, kept, before, first, last, between
<1>. QED  BY <1>2, <1>10, <1>11, <1>12, <1>13

(***************************************************************************)
(* What the steps do to the projects.                                      *)
(***************************************************************************)

LEMMA NormalStays == \A project \in ProjectType : Placed(project, project)
BY DEF Placed

\* Nothing happens to the projects.
LEMMA ProjectsStay ==
  ASSUME ProjectsOK, UNCHANGED <<projects, nextId>>
  PROVE  ProjectsOK' /\ Onward
<1>1. ProjectsOK'  BY DEF ProjectsOK, NamesApart
<1>. QED  BY <1>1, ProjectsFacts, NormalStays DEF Onward

\* create_project_with_addresses
LEMMA AddedMoves ==
  ASSUME ProjectsOK, NEW name \in Name, NEW net \in Network, name \notin Names,
         nextId <= MaxId, Added(name, net), nextId' = nextId + 1
  PROVE  /\ ProjectsOK' /\ Onward
         /\ nextId \in DOMAIN projects' /\ projects'[nextId].cidr = net
<1>1. PICK new : new = [name |-> name, cidr |-> net, rows |-> NewRows(net)]  OBVIOUS
<1>2. new \in ProjectType /\ OrdinalsApart(new) /\ Normal(new)
  BY <1>1, NewRowsFacts
<1>3. projects' = [i \in DOMAIN projects \cup {nextId} |->
                     IF i = nextId THEN new ELSE projects[i]]
  BY <1>1 DEF Added
<1>4. /\ nextId \in Nat \ {0} /\ MaxId \in Nat /\ nextId \notin DOMAIN projects
      /\ \A i \in DOMAIN projects : i \in Nat /\ i < nextId /\ projects[i] \in ProjectType
  BY ProjectsFacts
<1>5. /\ DOMAIN projects' = DOMAIN projects \cup {nextId} /\ projects'[nextId] = new
      /\ \A i \in DOMAIN projects : projects'[i] = projects[i]
  BY <1>3, <1>4
<1>6. projects' \in Table
  <2>1. projects' \in [DOMAIN projects' -> ProjectType]  BY <1>2, <1>3, <1>4, <1>5
  <2>2. DOMAIN projects' \in SUBSET Nat  BY <1>4, <1>5
  <2>. QED  BY <2>1, <2>2, TableFacts
<1>7. nextId' \in 1..(MaxId + 1) /\ DOMAIN projects' \subseteq 1..(nextId' - 1)
  <2>1. PICK n \in Nat, m \in Nat : n = nextId /\ m = MaxId  BY <1>4
  <2>2. n <= m /\ n + 1 \in 1..(m + 1) /\ n \in 1..((n + 1) - 1)  BY <1>4, <2>1
  <2>3. DOMAIN projects \subseteq 1..(nextId - 1)  BY DEF ProjectsOK
  <2>4. 1..(n - 1) \subseteq 1..((n + 1) - 1)  BY <2>1
  <2>. QED  BY <1>5, <2>1, <2>2, <2>3, <2>4
<1>8. \A i \in DOMAIN projects' : OrdinalsApart(projects'[i])
  BY <1>2, <1>5 DEF ProjectsOK
<1>9. NamesApart'
  <2>1. \A i \in DOMAIN projects : projects[i].name # new.name
    BY <1>1 DEF Names
  <2>. QED  BY <1>5, <2>1 DEF NamesApart, ProjectsOK
<1>10. Onward  BY <1>2, <1>4, <1>5, NormalStays DEF Onward
<1>11. projects'[nextId].cidr = net  BY <1>1, <1>5
<1>. QED  BY <1>5, <1>6, <1>7, <1>8, <1>9, <1>10, <1>11 DEF ProjectsOK

LEMMA DeleteMoves ==
  ASSUME ProjectsOK, NEW i, projects' = [j \in DOMAIN projects \ {i} |-> projects[j]],
         UNCHANGED nextId
  PROVE  ProjectsOK' /\ Onward
<1>1. /\ DOMAIN projects' = DOMAIN projects \ {i}
      /\ \A j \in DOMAIN projects' : projects'[j] = projects[j]
      /\ \A j \in DOMAIN projects : j \in Nat /\ projects[j] \in ProjectType
      /\ nextId \in Nat
  BY ProjectsFacts
<1>2. projects' \in Table
  <2>1. projects' \in [DOMAIN projects' -> ProjectType]  BY <1>1
  <2>2. DOMAIN projects' \in SUBSET Nat  BY <1>1
  <2>. QED  BY <2>1, <2>2, TableFacts
<1>3. Onward  BY <1>1, NormalStays DEF Onward
<1>. QED  BY <1>1, <1>2, <1>3 DEF ProjectsOK, NamesApart

\* A step that keeps the names and networks, and the addresses and ordinals of
\* each project or else puts all its hosts in their places.
Rewritten(old, new) ==
  /\ new \in ProjectType /\ new.name = old.name /\ new.cidr = old.cidr
  /\ \/ /\ DOMAIN new.rows = DOMAIN old.rows
        /\ \A a \in DOMAIN old.rows : new.rows[a].ordinal = old.rows[a].ordinal
     \/ Normal(new)

LEMMA RewrittenMoves ==
  ASSUME ProjectsOK, UNCHANGED nextId, DOMAIN projects' = DOMAIN projects,
         projects' \in [DOMAIN projects' -> ProjectType],
         \A i \in DOMAIN projects : Rewritten(projects[i], projects'[i])
  PROVE  ProjectsOK' /\ Onward
<1>1. /\ \A i \in DOMAIN projects : projects[i] \in ProjectType
      /\ nextId \in Nat /\ DOMAIN projects' \in SUBSET Nat
  BY ProjectsFacts
<1>2. projects' \in Table  BY <1>1, TableFacts
<1>3. ASSUME NEW i \in DOMAIN projects
      PROVE  /\ OrdinalsApart(projects'[i]) /\ Placed(projects[i], projects'[i])
             /\ Normal(projects[i]) => Normal(projects'[i])
             /\ projects'[i].name = projects[i].name
  <2>1. PICK old \in ProjectType, new \in ProjectType : old = projects[i] /\ new = projects'[i]
    BY <1>1, <1>3 DEF Rewritten
  <2>2. /\ new.name = old.name /\ new.cidr = old.cidr /\ old.cidr \in Network
        /\ Hosts(old.cidr) \subseteq DOMAIN old.rows /\ OrdinalsApart(old)
    BY <1>3, <2>1, ProjectFacts DEF Rewritten, ProjectsOK
  <2>3. CASE /\ DOMAIN new.rows = DOMAIN old.rows
             /\ \A a \in DOMAIN old.rows : new.rows[a].ordinal = old.rows[a].ordinal
    <3>1. OrdinalsApart(new)  BY <2>2, <2>3 DEF OrdinalsApart
    <3>2. Placed(old, new)  BY <2>2, <2>3 DEF Placed
    <3>3. Normal(old) => Normal(new)  BY <2>2, <2>3 DEF Normal
    <3>. QED  BY <2>1, <2>2, <3>1, <3>2, <3>3
  <2>4. CASE Normal(new)
    <3>1. OrdinalsApart(new)  BY <2>2, <2>4, OrdinalsDiffer DEF OrdinalsApart, Normal
    <3>2. Placed(old, new)  BY <2>2, <2>4 DEF Placed, Normal
    <3>. QED  BY <2>1, <2>2, <2>4, <3>1, <3>2
  <2>. QED  BY <1>3, <2>1, <2>3, <2>4 DEF Rewritten
<1>4. ProjectsOK'
  BY <1>2, <1>3 DEF ProjectsOK, NamesApart
<1>. QED  BY <1>1, <1>3, <1>4 DEF Onward

\* New texts on the rows of one project.
LEMMA TextsMove ==
  ASSUME ProjectsOK, UNCHANGED nextId, NEW i \in DOMAIN projects, NEW rows,
         DOMAIN rows = DOMAIN projects[i].rows, rows \in [DOMAIN rows -> RowType],
         \A a \in DOMAIN rows : rows[a].ordinal = projects[i].rows[a].ordinal,
         projects' = [projects EXCEPT ![i] = [@ EXCEPT !.rows = rows]]
  PROVE  ProjectsOK' /\ Onward
<1>1. /\ projects \in [DOMAIN projects -> ProjectType]
      /\ \A j \in DOMAIN projects : projects[j] \in ProjectType
  BY ProjectsFacts
<1>2. PICK old, new :
        old \in ProjectType /\ old = projects[i] /\ new = [old EXCEPT !.rows = rows]
  BY <1>1
<1>3. /\ old \in [name : Name, cidr : Network, rows : Rows]
      /\ old.name \in Name /\ old.cidr \in Network
      /\ Hosts(old.cidr) \subseteq DOMAIN rows /\ DOMAIN rows \subseteq Members(old.cidr)
  BY <1>2, ProjectFacts
<1>4. new = [name |-> old.name, cidr |-> old.cidr, rows |-> rows]  BY <1>2, <1>3
<1>5. new \in ProjectType  BY <1>3, <1>4, IsProject
<1>6. projects' = [projects EXCEPT ![i] = new]  BY <1>2
<1>7. /\ DOMAIN projects' = DOMAIN projects
      /\ \A j \in DOMAIN projects : projects'[j] = IF j = i THEN new ELSE projects[j]
      /\ projects' \in [DOMAIN projects' -> ProjectType]
  BY <1>1, <1>5, <1>6
<1>8. Rewritten(old, new)  BY <1>2, <1>4, <1>5 DEF Rewritten
<1>9. \A j \in DOMAIN projects : Rewritten(projects[j], projects'[j])
  BY <1>1, <1>2, <1>7, <1>8 DEF Rewritten
<1>. QED  BY <1>7, <1>9, RewrittenMoves

\* The transaction of a start.
LEMMA NormalizeMoves ==
  ASSUME ProjectsOK, StartsOK, NEW p \in Starter, Normalize(p)
  PROVE  /\ ProjectsOK' /\ Onward
         /\ \/ /\ start' = [start EXCEPT ![p] = [pc |-> "on", read |-> <<>>]]
               /\ \A i \in DOMAIN projects' : Normal(projects'[i])
            \/ start' = [start EXCEPT ![p] = [pc |-> "failed", read |-> <<>>]]
<1>1. PICK read \in Table : read = start[p].read  BY DEF StartsOK
<1>2. ReadOK(read) /\ start[p].pc = "loaded"  BY <1>1 DEF Normalize, StartsOK
<1> DEFINE gone == {i \in DOMAIN read : i \notin DOMAIN projects /\ Moved(read[i]) # {}}
           both == DOMAIN read \cap DOMAIN projects
           done == [i \in both |-> Normalized(read[i], projects[i].rows)]
           fails == gone # {} \/ \E i \in DOMAIN done : done[i].fails
<1>3. /\ \A i \in both : read[i] \in ProjectType /\ projects[i] \in ProjectType
                         /\ Placed(read[i], projects[i])
      /\ \A i \in DOMAIN projects : projects[i] \in ProjectType
  BY <1>1, <1>2, TableFacts, ProjectsFacts DEF ReadOK
<1>4. ASSUME NEW i \in both
      PROVE  /\ ~ done[i].fails
             /\ DOMAIN done[i].rows = Hosts(projects[i].cidr)
             /\ \A a \in Hosts(projects[i].cidr) :
                  done[i].rows[a] = [projects[i].rows[a] EXCEPT
                                       !.ordinal = Ordinal(projects[i].cidr, a)]
  BY <1>3, NormalizedFacts
<1>5. /\ projects' = IF fails THEN projects
                     ELSE [i \in DOMAIN projects |->
                             IF i \in both
                             THEN [projects[i] EXCEPT !.rows = done[i].rows] ELSE projects[i]]
      /\ start' = [start EXCEPT ![p] =
           [pc |-> IF ~fails THEN "on" ELSE IF gone # {} THEN "failed" ELSE "clashed",
            read |-> <<>>]]
      /\ UNCHANGED nextId
  BY <1>1 DEF Normalize
<1>6. fails <=> gone # {}  BY <1>4
<1>. HIDE DEF done, gone, fails
<1>7. CASE gone # {}
  <2>1. UNCHANGED <<projects, nextId>>  BY <1>5, <1>6, <1>7
  <2>. QED  BY <1>5, <1>6, <1>7, <2>1, ProjectsStay
<1>8. CASE gone = {}
  <2>1. /\ projects' = [i \in DOMAIN projects |->
                          IF i \in both
                          THEN [projects[i] EXCEPT !.rows = done[i].rows] ELSE projects[i]]
        /\ start' = [start EXCEPT ![p] = [pc |-> "on", read |-> <<>>]]
        /\ DOMAIN projects' = DOMAIN projects
    BY <1>5, <1>6, <1>8
  <2>2. ASSUME NEW i \in DOMAIN projects
        PROVE  Rewritten(projects[i], projects'[i]) /\ Normal(projects'[i])
    <3>1. CASE i \in both
      <4>1. PICK old, rows, new :
              /\ old \in ProjectType /\ old = projects[i]
              /\ rows = done[i].rows /\ new = [old EXCEPT !.rows = rows]
        BY <1>3
      <4>2. /\ old \in [name : Name, cidr : Network, rows : Rows]
            /\ old.name \in Name /\ old.cidr \in Network
            /\ Hosts(old.cidr) \subseteq DOMAIN old.rows
            /\ \A a \in DOMAIN old.rows : old.rows[a] \in RowType
        BY <4>1, ProjectFacts
      <4>3. /\ new = [name |-> old.name, cidr |-> old.cidr, rows |-> rows]
            /\ projects'[i] = new
        BY <2>1, <3>1, <4>1, <4>2
      <4>4. /\ DOMAIN rows = Hosts(old.cidr)
            /\ \A a \in Hosts(old.cidr) :
                 rows[a] = [old.rows[a] EXCEPT !.ordinal = Ordinal(old.cidr, a)]
        BY <1>4, <3>1, <4>1
      <4>5. \A a \in Hosts(old.cidr) : rows[a] \in RowType
                                       /\ rows[a].ordinal = Ordinal(old.cidr, a)
        BY <4>2, <4>4, Ordinals DEF RowType
      <4>6. rows \in [DOMAIN rows -> RowType]
        <5>1. rows = [a \in Hosts(old.cidr) |-> rows[a]]
          BY <1>3, <1>4, <3>1, <4>1 DEF done, Normalized
        <5>. QED  BY <4>4, <4>5, <5>1
      <4>7. new \in ProjectType
        <5>1. Hosts(old.cidr) \subseteq Members(old.cidr)  BY <4>2, HostFacts
        <5>. QED  BY <4>2, <4>3, <4>4, <4>6, <5>1, IsProject
      <4>8. Normal(new)  BY <4>3, <4>4, <4>5 DEF Normal
      <4>. QED  BY <4>1, <4>3, <4>7, <4>8 DEF Rewritten
    <3>2. CASE i \notin both
      <4>1. projects'[i] = projects[i] /\ i \notin DOMAIN read  BY <2>1, <3>2
      <4>. QED  BY <1>2, <1>3, <4>1 DEF ReadOK, Rewritten
    <3>. QED  BY <3>1, <3>2
  <2>3. projects' \in [DOMAIN projects' -> ProjectType]
    BY <2>1, <2>2 DEF Rewritten
  <2>. QED  BY <1>5, <2>1, <2>2, <2>3, RewrittenMoves
<1>. QED  BY <1>7, <1>8

(***************************************************************************)
(* The smallest network.                                                   *)
(***************************************************************************)

\* Halving: one bit off.
LEMMA Halves ==
  ASSUME NEW a \in Nat, NEW i \in Nat
  PROVE  /\ a \div 2^i \in Nat /\ a \div 2^(i + 1) \in Nat /\ (a \div 2^i) % 2 \in {0, 1}
         /\ a \div 2^i = 2 * (a \div 2^(i + 1)) + ((a \div 2^i) % 2)
<1>1. 2^i \in Nat \ {0} /\ 2^(i + 1) = 2 * 2^i  BY PowerOfTwo
<1>2. PICK m \in Nat \ {0} : m = 2^i  BY <1>1
<1>3. 2 * m \in Nat \ {0} /\ 2^(i + 1) = 2 * m  BY <1>1, <1>2
<1>4. PICK q \in Nat : q = a \div m  BY <1>2, Division
<1>5. m * q <= a /\ a < m * q + m  BY <1>2, <1>4, Division
<1>6. PICK d \in Nat, r \in {0, 1} : q = 2 * d + r /\ r = q % 2  OBVIOUS
<1>7. (2 * m) * d <= a /\ a < (2 * m) * d + 2 * m
  <2>1. m * q = m * (2 * d) + m * r  BY <1>6, Product
  <2>2. m * (2 * d) = (2 * m) * d /\ (2 * m) * d \in Nat  OBVIOUS
  <2>3. m * r = 0 \/ m * r = m  BY <1>6
  <2>. QED  BY <1>5, <2>1, <2>2, <2>3
<1>8. a \div (2 * m) = d  BY <1>3, <1>7, Division
<1>. QED  BY <1>2, <1>3, <1>4, <1>6, <1>8

\* The bits of a from bit i up.
BitsFrom(a, i) == a \div 2^i

\* Two numbers that agree above bit i agree above every higher one.
LEMMA AgreeAbove ==
  ASSUME NEW a \in Nat, NEW b \in Nat, NEW i \in Nat, BitsFrom(a, i) = BitsFrom(b, i)
  PROVE  \A k \in Nat : BitsFrom(a, i + k) = BitsFrom(b, i + k)
<1> USE DEF BitsFrom
<1> DEFINE S == {k \in Nat : a \div 2^(i + k) = b \div 2^(i + k)}
<1>1. 0 \in S
  <2>1. i + 0 = i  OBVIOUS
  <2>. QED  BY <2>1
<1>2. ASSUME NEW k \in Nat, k \in S PROVE k + 1 \in S
  <2>1. PICK j \in Nat : j = i + k  OBVIOUS
  <2>2. i + (k + 1) = j + 1 /\ a \div 2^j = b \div 2^j  BY <1>2, <2>1
  <2>3. PICK x \in Nat, y \in Nat : x = a \div 2^(j + 1) /\ y = b \div 2^(j + 1)
    BY <2>1, Halves
  <2>4. PICK c : c = a \div 2^j  OBVIOUS
  <2>5. c % 2 \in {0, 1} /\ c = 2 * x + (c % 2) /\ c = 2 * y + (c % 2)
    <3>1. /\ a \div 2^j = 2 * (a \div 2^(j + 1)) + ((a \div 2^j) % 2)
          /\ b \div 2^j = 2 * (b \div 2^(j + 1)) + ((b \div 2^j) % 2)
          /\ (a \div 2^j) % 2 \in {0, 1}
      BY <2>1, Halves
    <3>. QED  BY <2>2, <2>3, <2>4, <3>1
  <2>6. x = y  BY <2>5
  <2>. QED  BY <2>2, <2>3, <2>6
<1>3. Nat \subseteq S
  <2>. HIDE DEF S
  <2>. QED  BY <1>1, <1>2, SetInduction
<1>. QED  BY <1>3

\* Two addresses with the same bits from bit i up agree above it.
LEMMA SameBits ==
  ASSUME NEW a \in Address, NEW b \in Address, NEW i \in 0..Bits,
         \A j \in i..(Bits - 1) : (a \div 2^j) % 2 = (b \div 2^j) % 2
  PROVE  a \div 2^i = b \div 2^i
<1>1. Bits \in Nat /\ 2^Bits \in Nat \ {0}  BY SubnetsAssumption, PowerOfTwo
<1>2. a \in Nat /\ b \in Nat /\ a < 2^Bits /\ b < 2^Bits  BY <1>1 DEF Address
<1> DEFINE S == {k \in Nat : k <= Bits - i => a \div 2^(Bits - k) = b \div 2^(Bits - k)}
<1>3. 0 \in S
  <2>1. PICK m \in Nat \ {0} : m = 2^Bits  BY <1>1
  <2>2. a \div m = 0 /\ b \div m = 0
    <3>1. m * 0 = 0  OBVIOUS
    <3>. QED  BY <1>2, <2>1, <3>1, Division
  <2>3. Bits - 0 = Bits  BY <1>1
  <2>. QED  BY <2>1, <2>2, <2>3
<1>4. ASSUME NEW k \in Nat, k \in S PROVE k + 1 \in S
  <2> SUFFICES ASSUME k + 1 <= Bits - i
               PROVE  a \div 2^(Bits - (k + 1)) = b \div 2^(Bits - (k + 1))
    OBVIOUS
  <2>1. i \in Nat /\ i <= Bits  BY <1>1
  <2>2. PICK j \in Nat : j = Bits - (k + 1)  BY <1>1, <2>1, k + 1 <= Bits - i
  <2>3. j \in i..(Bits - 1) /\ Bits - k = j + 1 /\ k <= Bits - i
    BY <1>1, <2>1, <2>2, k + 1 <= Bits - i
  <2>4. a \div 2^(j + 1) = b \div 2^(j + 1)  BY <1>4, <2>3
  <2>5. (a \div 2^j) % 2 = (b \div 2^j) % 2  BY <2>3
  <2>6. /\ a \div 2^j = 2 * (a \div 2^(j + 1)) + ((a \div 2^j) % 2)
        /\ b \div 2^j = 2 * (b \div 2^(j + 1)) + ((b \div 2^j) % 2)
    BY <1>2, <2>2, Halves
  <2>7. a \div 2^j = b \div 2^j  BY <2>4, <2>5, <2>6
  <2>. QED  BY <2>2, <2>7
<1>5. Nat \subseteq S
  <2>. HIDE DEF S
  <2>. QED  BY <1>3, <1>4, SetInduction
<1>6. PICK k \in Nat : k = Bits - i  BY <1>1
<1>7. k \in S /\ k <= Bits - i /\ Bits - k = i
  <2>. HIDE DEF S
  <2>. QED  BY <1>1, <1>5, <1>6
<1>. QED  BY <1>7

\* Lowest and Highest of a set of addresses.
LEMMA Ends ==
  ASSUME NEW T, T # {}, NEW n \in Nat, \A x \in T : x \in Nat /\ x <= n
  PROVE  /\ Lowest(T) \in T /\ Highest(T) \in T
         /\ \A x \in T : Lowest(T) <= x /\ x <= Highest(T)
<1>1. \E x \in T : \A y \in T : x <= y  BY LeastNatural
<1>2. \E x \in T : \A y \in T : y <= x  BY GreatestNatural
<1>. QED  BY <1>1, <1>2 DEF Lowest, Highest

\* BitLength is the first bit above which two addresses agree.
LEMMA BitLengthFacts ==
  ASSUME NEW a \in Address, NEW b \in Address
  PROVE  /\ BitLength(a, b) \in 0..Bits
         /\ a \div 2^BitLength(a, b) = b \div 2^BitLength(a, b)
         /\ \A k \in 0..Bits : a \div 2^k = b \div 2^k => BitLength(a, b) <= k
<1> DEFINE bits == {i \in 0..(Bits - 1) : (a \div 2^i) % 2 # (b \div 2^i) % 2}
<1>1. Bits \in Nat \ {0} /\ 2^Bits \in Nat  BY SubnetsAssumption, PowerOfTwo
<1>2. a \in Nat /\ b \in Nat  BY <1>1 DEF Address
<1>3. \A i \in bits : i \in Nat /\ i <= Bits - 1  BY <1>1
<1>4. PICK length : length = BitLength(a, b)  OBVIOUS
<1>5. /\ length \in 0..Bits
      /\ \A i \in bits : i < length
      /\ length # 0 => length - 1 \in bits
  <2>1. CASE bits = {}
    <3>1. length = 0  BY <1>4, <2>1 DEF BitLength
    <3>. QED  BY <1>1, <2>1, <3>1
  <2>2. CASE bits # {}
    <3>1. length = Highest(bits) + 1  BY <1>4, <2>2 DEF BitLength
    <3>2. Bits - 1 \in Nat  BY <1>1
    <3>. HIDE DEF bits
    <3>3. Highest(bits) \in bits /\ \A i \in bits : i <= Highest(bits)
      BY <1>3, <2>2, <3>2, Ends
    <3>. QED  BY <1>1, <1>3, <3>1, <3>3
  <2>. QED  BY <2>1, <2>2
<1>6. \A j \in length..(Bits - 1) : (a \div 2^j) % 2 = (b \div 2^j) % 2
  <2> SUFFICES ASSUME NEW j \in length..(Bits - 1), (a \div 2^j) % 2 # (b \div 2^j) % 2
               PROVE  FALSE
    OBVIOUS
  <2>1. length \in Nat /\ j \in Nat /\ length <= j /\ j \in 0..(Bits - 1)  BY <1>1, <1>5
  <2>2. j \in bits  BY <2>1
  <2>. HIDE DEF bits
  <2>. QED  BY <1>5, <2>1, <2>2
<1>7. a \div 2^length = b \div 2^length  BY <1>5, <1>6, SameBits
<1>8. ASSUME NEW k \in 0..Bits, a \div 2^k = b \div 2^k PROVE length <= k
  <2> SUFFICES ASSUME k < length PROVE FALSE
    BY <1>1, <1>5
  <2>1. k \in Nat /\ length \in Nat /\ length # 0  BY <1>1, <1>5
  <2>2. PICK i \in Nat : i = length - 1  BY <2>1
  <2>3. (a \div 2^i) % 2 # (b \div 2^i) % 2  BY <1>5, <2>1, <2>2
  <2>4. PICK n \in Nat : i = k + n  BY <2>1, <2>2, i - k \in Nat, k < length
  <2>5. a \div 2^i = b \div 2^i
    <3>1. \A j \in Nat : a \div 2^(k + j) = b \div 2^(k + j)
      <4>1. BitsFrom(a, k) = BitsFrom(b, k)  BY <1>8 DEF BitsFrom
      <4>2. k \in Nat /\ a \in Nat /\ b \in Nat  BY <1>2, <2>1
      <4>3. \A j \in Nat : BitsFrom(a, k + j) = BitsFrom(b, k + j)
        BY ONLY <4>1, <4>2, AgreeAbove
      <4>. QED  BY <4>3 DEF BitsFrom
    <3>. QED  BY <2>4, <3>1
  <2>. QED  BY <2>3, <2>5
<1>. QED  BY <1>4, <1>5, <1>7, <1>8

\* _smallest_network holds every address, and no smaller network does.
LEMMA SmallestIsSmallest ==
  ASSUME NEW A, A \subseteq Address, A # {}
  PROVE  /\ SmallestNetwork(A) \in Network /\ A \subseteq Members(SmallestNetwork(A))
         /\ \A net \in Network :
              A \subseteq Members(net) => SmallestNetwork(A).prefix >= net.prefix
<1>1. Bits \in Nat \ {0} /\ 2^Bits \in Nat \ {0}  BY SubnetsAssumption, PowerOfTwo
<1>2. PICK top \in Nat : top = 2^Bits - 1  BY <1>1
<1>3. \A x \in A : x \in Nat /\ x <= top  BY <1>1, <1>2 DEF Address
<1>4. PICK lo, hi : lo = Lowest(A) /\ hi = Highest(A)  OBVIOUS
<1>5. lo \in A /\ hi \in A /\ \A x \in A : lo <= x /\ x <= hi
  BY <1>3, <1>4, Ends
<1>6. lo \in Nat /\ hi \in Nat /\ lo \in Address /\ hi \in Address  BY <1>3, <1>5
<1>7. PICK length \in 0..Bits : /\ length = BitLength(lo, hi)
                                /\ lo \div 2^length = hi \div 2^length
                                /\ \A k \in 0..Bits : lo \div 2^k = hi \div 2^k => length <= k
  BY <1>6, BitLengthFacts
<1>8. PICK prefix \in 0..Bits : prefix = Bits - length /\ Bits - prefix = length
  BY <1>1, <1>7
<1>9. SmallestNetwork(A) = NetworkOf(lo, prefix)
  BY <1>4, <1>7, <1>8 DEF SmallestNetwork
<1>10. PICK m \in Nat \ {0}, q \in Nat : m = Size(prefix) /\ m = 2^length /\ q = lo \div m
  BY <1>6, <1>8, Sizes, Division DEF Size
<1>11. PICK net : net = NetworkOf(lo, prefix)  OBVIOUS
<1>12. net \in Network /\ net.prefix = prefix /\ net.base = m * q
  BY <1>6, <1>10, <1>11, NetworkShapes
<1>13. A \subseteq Members(net)
  <2>1. m * q <= lo  BY <1>6, <1>10, Division
  <2>2. hi \div m = q  BY <1>7, <1>10
  <2>3. hi < m * q + m  BY <1>6, <1>10, <2>2, Division
  <2>4. m * q \in Nat  OBVIOUS
  <2>5. Members(net) = (m * q)..(m * q + m - 1)  BY <1>10, <1>12 DEF Members
  <2>6. PICK b \in Nat : b = m * q  BY <2>4
  <2>. QED  BY <1>3, <1>5, <1>6, <2>1, <2>3, <2>5, <2>6
<1>14. ASSUME NEW other \in Network, A \subseteq Members(other)
       PROVE  prefix >= other.prefix
  <2>1. /\ other.prefix \in 0..Bits /\ other.base \in Nat
        /\ Size(other.prefix) \in Nat \ {0}
        /\ \E r \in Nat : other.base = Size(other.prefix) * r
    BY NetworkFacts DEF NetworkShape
  <2>2. PICK k \in 0..Bits : k = Bits - other.prefix  BY <1>1, <2>1
  <2>3. PICK n \in Nat \ {0}, r \in Nat : /\ n = 2^k /\ n = Size(other.prefix)
                                          /\ other.base = n * r
    BY <2>1, <2>2 DEF Size
  <2>4. PICK b \in Nat : b = n * r  BY <2>1, <2>3
  <2>5. lo \in b..(b + n - 1) /\ hi \in b..(b + n - 1)
    BY <1>5, <1>14, <2>3, <2>4 DEF Members
  <2>6. n * r <= lo /\ lo < n * r + n /\ n * r <= hi /\ hi < n * r + n
    BY <1>6, <2>4, <2>5
  <2>7. lo \div n = r /\ hi \div n = r  BY <1>6, <2>6, Division
  <2>8. length <= k  BY <1>7, <2>3, <2>7
  <2>. QED  BY <1>1, <1>7, <1>8, <2>1, <2>2, <2>8
<1>. QED  BY <1>9, <1>11, <1>12, <1>13, <1>14

(***************************************************************************)
(* Imports.                                                                *)
(***************************************************************************)

\* Different numbers for the elements of S.
Numbers(f, S) == (\A i \in S : f[i] \in Nat) /\ \A i, j \in S : i # j => f[i] # f[j]

\* The place of i in S, in the order of the numbers f.
RankBy(f, S, i) == Cardinality({j \in S : f[j] <= f[i]})

\* The elements of a finite set, counted in the order of numbers that tell them apart.
LEMMA RanksBy ==
  ASSUME NEW S, IsFiniteSet(S), NEW f, Numbers(f, S)
  PROVE  /\ Cardinality(S) \in Nat
         /\ \A i \in S : RankBy(f, S, i) \in 1..Cardinality(S)
         /\ \A i, j \in S : f[i] < f[j] => RankBy(f, S, i) < RankBy(f, S, j)
         /\ \A k \in 1..Cardinality(S) : \E i \in S : RankBy(f, S, i) = k
<1> DEFINE below(i) == {j \in S : f[j] <= f[i]}
           rank == [i \in S |-> Cardinality(below(i))]
<1>. USE DEF Numbers
<1>1. PICK n \in Nat : n = Cardinality(S)  BY FS_CardinalityType
<1>2. ASSUME NEW i \in S
      PROVE  IsFiniteSet(below(i)) /\ Cardinality(below(i)) \in 1..n
  <2>1. below(i) \subseteq S /\ i \in below(i)  OBVIOUS
  <2>2. IsFiniteSet(below(i)) /\ Cardinality(below(i)) <= n  BY <1>1, <2>1, FS_Subset
  <2>3. Cardinality(below(i)) \in Nat /\ Cardinality(below(i)) # 0
    BY <2>1, <2>2, FS_CardinalityType, FS_EmptySet
  <2>. QED  BY <2>2, <2>3
<1>3. ASSUME NEW i \in S, NEW j \in S, f[i] < f[j]
      PROVE  Cardinality(below(i)) < Cardinality(below(j))
  <2>1. f[i] \in Nat /\ f[j] \in Nat /\ \A x \in S : f[x] \in Nat  OBVIOUS
  <2>2. below(i) \subseteq below(j) /\ j \in below(j) /\ j \notin below(i)
    <3>1. ~ (f[j] <= f[i]) /\ f[j] <= f[j] /\ \A x \in S : f[x] <= f[i] => f[x] <= f[j]
      BY <1>3, <2>1
    <3>. QED  BY <3>1
  <2>3. PICK A, B : A = below(i) /\ B = below(j)  OBVIOUS
  <2>4. /\ IsFiniteSet(B) /\ Cardinality(A) \in Nat /\ Cardinality(B) \in Nat
        /\ A \subseteq B /\ A # B
    BY <1>1, <1>2, <2>2, <2>3
  <2>5. Cardinality(A) <= Cardinality(B) /\ Cardinality(A) # Cardinality(B)
    BY <2>4, FS_Subset
  <2>. QED  BY <2>3, <2>4, <2>5
<1>4. rank \in Injection(S, 1..n)
  <2>1. rank \in [S -> 1..n]  BY <1>2
  <2>2. ASSUME NEW i \in S, NEW j \in S, i # j PROVE rank[i] # rank[j]
    <3>1. rank[i] = Cardinality(below(i)) /\ rank[j] = Cardinality(below(j))  OBVIOUS
    <3>2. rank[i] \in Nat /\ rank[j] \in Nat  BY <1>2, <3>1
    <3>3. f[i] \in Nat /\ f[j] \in Nat /\ f[i] # f[j]  BY <2>2
    <3>. HIDE DEF rank, below
    <3>. QED  BY <1>3, <3>1, <3>2, <3>3
  <2>. HIDE DEF rank, below
  <2>. QED  BY <2>1, <2>2 DEF Injection, IsInjective
<1>5. rank \in Surjection(S, 1..n)
  <2>1. IsFiniteSet(1..n) /\ Cardinality(1..n) = n  BY <1>1, FS_Interval
  <2>2. PICK r, T : r = rank /\ T = 1..n  OBVIOUS
  <2>. HIDE DEF rank
  <2>. QED  BY <1>1, <1>4, <2>1, FS_Injection
<1>6. \A k \in 1..n : \E i \in S : Cardinality(below(i)) = k
  <2>. HIDE DEF below
  <2>. QED  BY <1>5 DEF Surjection
<1>. QED  BY <1>1, <1>2, <1>3, <1>6 DEF RankBy

\* The elements of a finite set of numbers, counted from the least.
LEMMA Ranks ==
  ASSUME NEW S, S \subseteq Nat, IsFiniteSet(S)
  PROVE  \A k \in 1..Cardinality(S) : \E i \in S : Cardinality({j \in S : j <= i}) = k
<1>1. PICK f : f = [i \in S |-> i]  OBVIOUS
<1>2. \A i \in S : f[i] = i  BY <1>1
<1>3. ASSUME NEW i \in S PROVE {j \in S : f[j] <= f[i]} = {j \in S : j <= i}
  BY <1>2
<1>4. Numbers(f, S)  BY <1>2 DEF Numbers
<1>5. ASSUME NEW k \in 1..Cardinality(S) PROVE \E i \in S : RankBy(f, S, i) = k
  BY ONLY IsFiniteSet(S), k \in 1..Cardinality(S), <1>4, RanksBy
<1>. QED  BY <1>3, <1>5 DEF RankBy

\* The cells of a row without the space around them.
LEMMA CellsFacts ==
  /\ \A row \in FileRow : Cells(row) \in FileRow
  /\ Cells(Header) = Header
  /\ \A row : \A a, t : row = [address |-> a, text |-> t] =>
       Cells(row) = [address |-> a, text |-> Stripped(t)]
<1>1. \A row : \A a, t : row = [address |-> a, text |-> t] =>
        Cells(row) = [address |-> a, text |-> Stripped(t)]
  BY DEF Cells
<1>2. Cells(Header) = Header  BY <1>1, SubnetsAssumption DEF Header
<1>3. ASSUME NEW row \in FileRow PROVE Cells(row) \in FileRow
  <2>1. CASE row = Header  BY <1>2, <2>1, <1>3
  <2>2. CASE row \in [address : Address \cup {NoAddress}, text : Text \cup TooLong]
    <3>1. PICK a \in Address \cup {NoAddress}, t \in Text \cup TooLong :
            row = [address |-> a, text |-> t]
      BY <2>2
    <3>2. Cells(row) = [address |-> a, text |-> Stripped(t)]  BY <1>1, <3>1
    <3>3. Stripped(t) \in Text \cup TooLong  BY SubnetsAssumption
    <3>. QED  BY <3>2, <3>3 DEF FileRow
  <2>. QED  BY <1>3, <2>1, <2>2 DEF FileRow
<1>. QED  BY <1>1, <1>2, <1>3

\* The rows of a file without the blank ones.
LEMMA MappedFacts ==
  ASSUME NEW n \in Nat, NEW file \in [1..n -> FileRow]
  PROVE  Mapped(file) \in Seq(FileRow)
<1> DEFINE kept == {i \in DOMAIN file : Cells(file[i]) # Blank}
           filled == [k \in 1..Cardinality(kept) |->
                        Cells(file[CHOOSE i \in kept : Cardinality({j \in kept : j <= i}) = k])]
<1>1. kept \subseteq Nat /\ IsFiniteSet(kept)
  <2>1. kept \subseteq 1..n /\ IsFiniteSet(1..n)  BY FS_Interval
  <2>. QED  BY <2>1, FS_Subset
<1>2. PICK c \in Nat : c = Cardinality(kept)  BY <1>1, FS_CardinalityType
<1>3. ASSUME NEW k \in 1..c PROVE filled[k] \in FileRow
  <2> DEFINE i == CHOOSE i \in kept : Cardinality({j \in kept : j <= i}) = k
  <2>1. \E x \in kept : Cardinality({j \in kept : j <= x}) = k
    <3>. HIDE DEF kept
    <3>. QED  BY <1>1, <1>2, Ranks
  <2>2. i \in kept  BY <2>1
  <2>3. filled[k] = Cells(file[i])  BY <1>2
  <2>4. file[i] \in FileRow  BY <2>2
  <2>. HIDE DEF kept, filled, i
  <2>. QED  BY <2>3, <2>4, CellsFacts
<1>4. filled \in Seq(FileRow)
  <2>1. filled \in [1..c -> FileRow]  BY <1>2, <1>3
  <2>. HIDE DEF filled
  <2>. QED  BY <2>1
<1>5. Mapped(file) = IF filled # <<>> /\ filled[1] = Header THEN Tail(filled) ELSE filled
  BY DEF Mapped
<1>. HIDE DEF filled
<1>. QED  BY <1>4, <1>5, HeadTailProperties, EmptySeq

\* What an import has read.
LEMMA ParsedFacts ==
  ASSUME NEW rows \in Seq(FileRow), Importable(rows)
  PROVE  LET result == Parsed(rows)
         IN /\ result.cidr \in Network /\ result.texts \in FileTexts
            /\ DOMAIN result.texts \subseteq Hosts(result.cidr)
            /\ \A net \in Network :
                 DOMAIN result.texts \subseteq Members(net) => result.cidr.prefix >= net.prefix
<1> DEFINE A == AddressesOf(rows)
           net == SmallestNetwork(A)
           texts == [a \in A |-> rows[CHOOSE i \in DOMAIN rows : rows[i].address = a].text]
<1>1. A \subseteq Address /\ A \cap Reserved(net) = {} /\ rows # <<>>
  BY DEF Importable, NoReserved
<1>2. A # {}
  <2>1. Len(rows) \in Nat /\ DOMAIN rows = 1..Len(rows) /\ Len(rows) # 0
    BY <1>1, LenProperties, EmptySeq
  <2>2. 1 \in DOMAIN rows  BY <2>1
  <2>. QED  BY <2>2 DEF AddressesOf
<1>3. ASSUME NEW a \in A
      PROVE  rows[CHOOSE i \in DOMAIN rows : rows[i].address = a].text \in Text
  <2>1. \E i \in DOMAIN rows : rows[i].address = a  BY DEF AddressesOf
  <2>2. PICK i \in DOMAIN rows : i = CHOOSE x \in DOMAIN rows : rows[x].address = a
    BY <2>1
  <2>3. rows[i] \in FileRow  BY LenProperties
  <2>4. "" \in Text  BY SubnetsAssumption
  <2>5. \A row \in FileRow : row.text \in Text \cup TooLong
    <3>1. Header.text = ""  BY DEF Header
    <3>. QED  BY <2>4, <3>1 DEF FileRow
  <2>6. rows[i].text \notin TooLong  BY DEF Importable, WithinLimits
  <2>. QED  BY <2>2, <2>3, <2>5, <2>6
<1>4. texts \in [A -> Text] /\ DOMAIN texts = A  BY <1>3
<1>5. Parsed(rows) = [cidr |-> net, texts |-> texts]  BY DEF Parsed
<1>. HIDE DEF A, texts
<1>6. /\ net \in Network /\ A \subseteq Members(net)
      /\ \A other \in Network : A \subseteq Members(other) => net.prefix >= other.prefix
  BY <1>1, <1>2, SmallestIsSmallest
<1>. HIDE DEF net
<1>7. A \subseteq Hosts(net)  BY <1>1, <1>6, HostFacts
<1>8. texts \in FileTexts  BY <1>1, <1>4 DEF FileTexts
<1>. QED  BY <1>4, <1>5, <1>6, <1>7, <1>8

LEMMA NoImportFacts == NoImport \in ImportType /\ RequestOK(NoImport)
<1>1. Bits \in Nat /\ 2^Bits \in Nat \ {0}  BY SubnetsAssumption, PowerOfTwo
<1>2. 0 \in Address /\ Bits \in 0..Bits  BY <1>1 DEF Address
<1>3. NetworkOf(0, Bits) \in Network  BY <1>2, NetworkShapes
<1>4. <<>> \in FileTexts
  <2>1. <<>> \in [{} -> Text]
    <3>1. DOMAIN <<>> = {}  OBVIOUS
    <3>2. <<>> = [x \in {} |-> <<>>[x]]  OBVIOUS
    <3>. QED  BY <3>1, <3>2
  <2>. QED  BY <2>1 DEF FileTexts
<1>. QED  BY <1>3, <1>4 DEF NoImport, ImportType, RequestOK

(***************************************************************************)
(* The invariant holds.                                                    *)
(***************************************************************************)

LEMMA PlacedTwice ==
  ASSUME NEW x, NEW y, NEW z, Placed(x, y), Placed(y, z)
  PROVE  Placed(x, z)
BY DEF Placed

\* What every step keeps of what processes and imports rely on.
LEMMA OnwardKeeps ==
  ASSUME ProjectsOK, ProjectsOK', Onward
  PROVE  /\ \A read : ReadOK(read) => ReadOK(read)'
         /\ \A r \in ImportType : RequestOK(r) => RequestOK(r)'
         /\ (\A i \in DOMAIN projects : Normal(projects[i]))
              => \A i \in DOMAIN projects' : Normal(projects'[i])
<1>1. /\ nextId \in Nat /\ nextId' \in Nat /\ nextId <= nextId'
      /\ \A i \in DOMAIN projects' : i \in Nat
  <2>1. \A m \in Nat : \A n \in 1..(m + 1) : n \in Nat  OBVIOUS
  <2>2. MaxId \in Nat  BY InventoryAssumption
  <2>3. DOMAIN projects' \subseteq Nat  BY TableFacts DEF ProjectsOK
  <2>. QED  BY <2>1, <2>2, <2>3 DEF ProjectsOK, Onward
<1>2. \A i \in DOMAIN projects' :
        IF i \in DOMAIN projects
        THEN Placed(projects[i], projects'[i]) /\ (Normal(projects[i]) => Normal(projects'[i]))
        ELSE i >= nextId /\ Normal(projects'[i])
  BY DEF Onward
<1>3. ASSUME NEW read, ReadOK(read) PROVE ReadOK(read)'
  <2>1. DOMAIN read \subseteq 1..(nextId' - 1)
    <3>1. \A m, n \in Nat : m <= n => 1..(m - 1) \subseteq 1..(n - 1)  OBVIOUS
    <3>2. 1..(nextId - 1) \subseteq 1..(nextId' - 1)  BY <1>1, <3>1
    <3>. QED  BY <1>3, <3>2 DEF ReadOK
  <2>2. ASSUME NEW i \in DOMAIN projects'
        PROVE  IF i \in DOMAIN read THEN Placed(read[i], projects'[i])
                                    ELSE Normal(projects'[i])
    <3>1. i \in DOMAIN read => i < nextId  BY <1>1, <1>3 DEF ReadOK
    <3>2. CASE i \in DOMAIN projects
      BY <1>2, <1>3, <3>2, PlacedTwice DEF ReadOK
    <3>3. CASE i \notin DOMAIN projects
      BY <1>1, <1>2, <3>1, <3>3
    <3>. QED  BY <3>2, <3>3
  <2>. QED  BY <2>1, <2>2 DEF ReadOK
<1>4. ASSUME NEW r \in ImportType, RequestOK(r) PROVE RequestOK(r)'
  <2>1. r.id \in Nat  BY DEF ImportType
  <2>2. r.pc = "fill" => r.id < nextId'
    BY <1>1, <1>4, <2>1 DEF RequestOK
  <2>3. r.pc = "fill" /\ r.id \in DOMAIN projects' => projects'[r.id].cidr = r.cidr
    BY <1>1, <1>2, <1>4, <2>1 DEF RequestOK, Placed
  <2>. QED  BY <1>4, <2>2, <2>3 DEF RequestOK
<1>. QED  BY <1>2, <1>3, <1>4

\* Steps that leave the processes that start alone.
LEMMA StartsFrame ==
  ASSUME InventoryInv, ProjectsOK', Onward, UNCHANGED start
  PROVE  StartsOK' /\ UpMeansNormal'
<1>1. \A p \in Starter : start[p].pc = "loaded" => ReadOK(start[p].read)'
  <2> SUFFICES ASSUME NEW p \in Starter, start[p].pc = "loaded"
               PROVE  ReadOK(start[p].read)'
    OBVIOUS
  <2>1. PICK read : read = start[p].read  OBVIOUS
  <2>2. ReadOK(read)  BY <2>1 DEF InventoryInv, StartsOK
  <2>3. ReadOK(read)'  BY <2>2, OnwardKeeps DEF InventoryInv
  <2>. QED  BY <2>1, <2>3
<1>. QED  BY <1>1, OnwardKeeps DEF InventoryInv, StartsOK, UpMeansNormal

\* Imports that a step leaves alone.
LEMMA RequestsFrame ==
  ASSUME InventoryInv, ProjectsOK', Onward
  PROVE  \A h \in Handler : \A r : r = req[h] => r \in ImportType /\ RequestOK(r)'
<1> SUFFICES ASSUME NEW h \in Handler, NEW r, r = req[h]
             PROVE  r \in ImportType /\ RequestOK(r)'
  OBVIOUS
<1>1. r \in ImportType /\ RequestOK(r)  BY DEF InventoryInv, RequestsOK
<1>2. RequestOK(r)'  BY <1>1, OnwardKeeps DEF InventoryInv
<1>. QED  BY <1>1, <1>2

\* A step of one import.
LEMMA ImportStep ==
  ASSUME InventoryInv, ProjectsOK', Onward, UNCHANGED start, NEW h \in Handler, NEW r,
         req' = [req EXCEPT ![h] = r], r \in ImportType, RequestOK(r)'
  PROVE  InventoryInv'
<1>1. req \in [Handler -> ImportType]  BY DEF InventoryInv, RequestsOK
<1>2. /\ req' \in [Handler -> ImportType]
      /\ \A g \in Handler : req'[g] = IF g = h THEN r ELSE req[g]
  BY <1>1
<1>3. ASSUME NEW g \in Handler PROVE RequestOK(req[g])'
  <2>1. PICK now : now = req'[g]  OBVIOUS
  <2>2. RequestOK(now)'
    <3>1. CASE g = h  BY <1>2, <2>1, <3>1
    <3>2. CASE g # h  BY <1>2, <2>1, <3>2, RequestsFrame
    <3>. QED  BY <3>1, <3>2
  <2>. QED  BY <2>1, <2>2
<1>4. RequestsOK'  BY <1>2, <1>3 DEF RequestsOK
<1>. QED  BY <1>4, StartsFrame DEF InventoryInv

LEMMA RequestsStay ==
  ASSUME InventoryInv, ProjectsOK', Onward, UNCHANGED req
  PROVE  RequestsOK'
<1>1. ASSUME NEW g \in Handler PROVE RequestOK(req[g])'
  <2>1. PICK now : now = req[g]  OBVIOUS
  <2>2. RequestOK(now)'  BY <2>1, RequestsFrame
  <2>. QED  BY <2>1, <2>2
<1>. QED  BY <1>1 DEF InventoryInv, RequestsOK

LEMMA QuietStep ==
  ASSUME InventoryInv, ProjectsOK', Onward, UNCHANGED <<start, req>>
  PROVE  InventoryInv'
BY RequestsStay, StartsFrame DEF InventoryInv

LEMMA EmptyFunction ==
  ASSUME NEW T
  PROVE  <<>> \in [{} -> T] /\ DOMAIN <<>> = {}
<1>1. DOMAIN <<>> = {}  OBVIOUS
<1>2. <<>> = [x \in {} |-> <<>>[x]]  OBVIOUS
<1>. QED  BY <1>1, <1>2

\* A process that ends its start, fails in it or stops.
LEMMA StartChanges ==
  ASSUME InventoryInv, ProjectsOK', Onward, NEW p \in Starter,
         NEW pc \in {"off", "on", "failed"},
         start' = [start EXCEPT ![p] = [pc |-> pc, read |-> <<>>]],
         pc = "on" => \A i \in DOMAIN projects' : Normal(projects'[i])
  PROVE  StartsOK' /\ UpMeansNormal'
<1>1. <<>> \in Table
  <2>1. {} \in SUBSET Nat  OBVIOUS
  <2>. QED  BY <2>1, EmptyFunction, TableFacts
<1>2. start \in [Starter -> [pc : {"off", "loaded", "on", "failed"}, read : Table]]
  BY DEF InventoryInv, StartsOK
<1>3. /\ start' \in [Starter -> [pc : {"off", "loaded", "on", "failed"}, read : Table]]
      /\ \A q \in Starter :
           start'[q] = IF q = p THEN [pc |-> pc, read |-> <<>>] ELSE start[q]
  BY <1>1, <1>2
<1>4. ASSUME NEW q \in Starter, start'[q].pc = "loaded" PROVE ReadOK(start[q].read)'
  <2>1. q # p /\ start'[q] = start[q]  BY <1>3, <1>4
  <2>2. PICK read : read = start[q].read  OBVIOUS
  <2>3. ReadOK(read)  BY <1>4, <2>1, <2>2 DEF InventoryInv, StartsOK
  <2>4. ReadOK(read)'  BY <2>3, OnwardKeeps DEF InventoryInv
  <2>. QED  BY <2>1, <2>2, <2>4
<1>5. StartsOK'  BY <1>3, <1>4 DEF StartsOK
<1>6. UpMeansNormal'
  <2>1. SUFFICES ASSUME NEW q \in Starter, start'[q].pc = "on", pc # "on"
                 PROVE  \A i \in DOMAIN projects' : Normal(projects'[i])
    BY DEF UpMeansNormal
  <2>2. start[q].pc = "on"  BY <1>3, <2>1
  <2>. QED  BY <2>2, OnwardKeeps DEF InventoryInv, UpMeansNormal
<1>. QED  BY <1>5, <1>6

LEMMA InitInv == Init => InventoryInv
<1> SUFFICES ASSUME Init PROVE InventoryInv
  OBVIOUS
<1>1. <<>> \in Table
  <2>1. {} \in SUBSET Nat  OBVIOUS
  <2>. QED  BY <2>1, EmptyFunction, TableFacts
<1>2. ProjectsOK
  <2>1. MaxId \in Nat \ {0}  BY InventoryAssumption
  <2>2. CASE projects = <<>> /\ nextId = 1
    <3>1. DOMAIN projects = {}  BY <2>2, EmptyFunction
    <3>2. nextId \in 1..(MaxId + 1)  BY <2>1, <2>2
    <3>. QED  BY <1>1, <2>2, <3>1, <3>2 DEF ProjectsOK, NamesApart
  <2>3. CASE /\ \E net \in Older, name \in Name : \E rows \in Legacy(net) :
                  projects = <<[name |-> name, cidr |-> net, rows |-> rows]>>
             /\ nextId = 2
    <3>1. PICK net \in Older, name \in Name :
            \E rows \in Legacy(net) :
              projects = <<[name |-> name, cidr |-> net, rows |-> rows]>>
      BY <2>3
    <3>2. PICK rows \in Legacy(net) :
            projects = <<[name |-> name, cidr |-> net, rows |-> rows]>>
      BY <3>1
    <3>3. PICK project : project = [name |-> name, cidr |-> net, rows |-> rows]  OBVIOUS
    <3>4. net \in Network  BY InventoryAssumption
    <3>5. project \in ProjectType /\ OrdinalsApart(project)  BY <3>3, <3>4, LegacyFacts
    <3>6. /\ projects = <<project>> /\ DOMAIN projects = 1..1 /\ 1..1 = {1}
          /\ projects \in [1..1 -> ProjectType]
      BY <3>2, <3>3, <3>5
    <3>7. projects \in Table
      <4>1. 1..1 \in SUBSET Nat  OBVIOUS
      <4>. QED  BY <3>6, <4>1, TableFacts
    <3>8. projects[1] = project /\ \A i \in DOMAIN projects : i = 1  BY <3>6
    <3>9. nextId \in 1..(MaxId + 1) /\ DOMAIN projects \subseteq 1..(nextId - 1)
      BY <2>1, <2>3, <3>6
    <3>. QED  BY <3>5, <3>7, <3>8, <3>9 DEF ProjectsOK, NamesApart
  <2>. QED  BY <2>2, <2>3 DEF Init
<1>3. StartsOK /\ UpMeansNormal  BY <1>1 DEF Init, StartsOK, UpMeansNormal
<1>4. RequestsOK  BY NoImportFacts DEF Init, RequestsOK
<1>. QED  BY <1>2, <1>3, <1>4 DEF InventoryInv

LEMMA NoImportAfter ==
  ASSUME ProjectsOK, ProjectsOK', Onward
  PROVE  NoImport \in ImportType /\ RequestOK(NoImport)'
BY NoImportFacts, OnwardKeeps

\* What a start reads of a project is one in the same places.
LEMMA ReadFacts ==
  ASSUME NEW project \in ProjectType
  PROVE  Read(project) \in ProjectType /\ Placed(Read(project), project)
<1> DEFINE old == project.rows
           name == project.name
           net == project.cidr
<1>1. /\ name \in Name /\ net \in Network
      /\ project = [name |-> name, cidr |-> net, rows |-> old]
  BY ProjectFacts
<1>2. /\ old \in [DOMAIN old -> RowType] /\ Hosts(net) \subseteq DOMAIN old
      /\ DOMAIN old \subseteq Members(net)
      /\ \A a \in DOMAIN old : old[a].ordinal \in Nat \ {0}
  BY <1>1, ProjectFacts
<1>3. PICK rows : rows = EmptyRows(DOMAIN old, [a \in DOMAIN old |-> old[a].ordinal])  OBVIOUS
<1>4. rows = [a \in DOMAIN old |-> [ordinal |-> old[a].ordinal, text |-> ""]]
  BY <1>3 DEF EmptyRows
<1>5. rows \in [DOMAIN rows -> RowType] /\ DOMAIN rows = DOMAIN old
  BY <1>2, <1>4, SubnetsAssumption DEF RowType
<1>6. Read(project) = [name |-> name, cidr |-> net, rows |-> rows]
  BY <1>1, <1>3 DEF Read
<1>7. Read(project) \in ProjectType
  <2>. HIDE DEF old, name, net
  <2>. QED  BY <1>1, <1>2, <1>5, <1>6, IsProject
<1>8. Placed(Read(project), project)
  <2>1. \A a \in Hosts(net) : rows[a].ordinal = old[a].ordinal  BY <1>2, <1>4
  <2>. QED  BY <1>1, <1>6, <2>1 DEF Placed
<1>. QED  BY <1>7, <1>8

\* One lemma for each action.
LEMMA LoadStep ==
  ASSUME InventoryInv, NEW p \in Starter, Load(p)
  PROVE  InventoryInv'
<1> DEFINE seen == [i \in DOMAIN projects |-> Read(projects[i])]
<1>1. /\ start' = [start EXCEPT ![p] = [pc |-> "loaded", read |-> seen]]
      /\ UNCHANGED <<projects, nextId, req>>
  BY DEF Load
<1>2. ProjectsOK' /\ Onward  BY <1>1, ProjectsStay DEF InventoryInv
<1>3. RequestsOK'  BY <1>1, <1>2, RequestsStay
<1>4. ASSUME NEW read, ReadOK(read) PROVE ReadOK(read)'
  BY <1>2, <1>4, OnwardKeeps DEF InventoryInv
<1>5. /\ DOMAIN seen = DOMAIN projects /\ DOMAIN seen \in SUBSET Nat
      /\ \A i \in DOMAIN seen : seen[i] \in ProjectType /\ Placed(seen[i], projects[i])
  <2>1. \A i \in DOMAIN projects : projects[i] \in ProjectType /\ DOMAIN projects \subseteq Nat
    BY ProjectsFacts DEF InventoryInv
  <2>. QED  BY <2>1, ReadFacts
<1> HIDE DEF seen
<1>6. ASSUME NEW read, read = seen PROVE ReadOK(read)'
  <2>1. ReadOK(read)
    BY <1>5, <1>6 DEF InventoryInv, ProjectsOK, ReadOK
  <2>. QED  BY <1>4, <2>1
<1>7. seen \in Table /\ start \in [Starter -> [pc : {"off", "loaded", "on", "failed"}, read : Table]]
  <2>1. seen = [i \in DOMAIN seen |-> seen[i]]  BY DEF seen
  <2>2. seen \in [DOMAIN seen -> ProjectType]  BY <1>5, <2>1
  <2>. QED  BY <1>5, <2>2, TableFacts DEF InventoryInv, StartsOK
<1>8. /\ start' \in [Starter -> [pc : {"off", "loaded", "on", "failed"}, read : Table]]
      /\ \A q \in Starter :
           start'[q] = IF q = p THEN [pc |-> "loaded", read |-> seen] ELSE start[q]
  BY <1>1, <1>7
<1>9. ASSUME NEW q \in Starter, start'[q].pc = "loaded" PROVE ReadOK(start[q].read)'
  <2>1. PICK read : read = start'[q].read  OBVIOUS
  <2>2. CASE q = p  BY <1>1, <1>6, <1>8, <2>1, <2>2
  <2>3. CASE q # p
    <3>1. ReadOK(read)  BY <1>8, <1>9, <2>1, <2>3 DEF InventoryInv, StartsOK
    <3>. QED  BY <1>4, <2>1, <3>1
  <2>. QED  BY <2>2, <2>3
<1>10. StartsOK'  BY <1>8, <1>9 DEF StartsOK
<1>11. UpMeansNormal'
  BY <1>1, <1>8 DEF InventoryInv, UpMeansNormal
<1>. QED  BY <1>2, <1>3, <1>10, <1>11 DEF InventoryInv

LEMMA NormalizeStep ==
  ASSUME InventoryInv, NEW p \in Starter, Normalize(p)
  PROVE  InventoryInv'
<1>1. /\ ProjectsOK' /\ Onward
      /\ \/ /\ start' = [start EXCEPT ![p] = [pc |-> "on", read |-> <<>>]]
            /\ \A i \in DOMAIN projects' : Normal(projects'[i])
         \/ start' = [start EXCEPT ![p] = [pc |-> "failed", read |-> <<>>]]
  BY NormalizeMoves DEF InventoryInv
<1>2. StartsOK' /\ UpMeansNormal'  BY <1>1, StartChanges
<1>3. RequestsOK'  BY <1>1, RequestsStay DEF Normalize
<1>. QED  BY <1>1, <1>2, <1>3 DEF InventoryInv

LEMMA StopStep ==
  ASSUME InventoryInv, NEW p \in Starter, Stop(p)
  PROVE  InventoryInv'
<1>1. /\ start' = [start EXCEPT ![p] = [pc |-> "off", read |-> <<>>]]
      /\ req' = IF p = Web THEN [h \in Handler |-> NoImport] ELSE req
      /\ UNCHANGED <<projects, nextId>>
  BY DEF Stop
<1>2. ProjectsOK' /\ Onward  BY <1>1, ProjectsStay DEF InventoryInv
<1>3. StartsOK' /\ UpMeansNormal'  BY <1>1, <1>2, StartChanges
<1>4. RequestsOK'
  <2>1. CASE req' = req  BY <1>2, <2>1, RequestsStay
  <2>2. CASE req' = [h \in Handler |-> NoImport]
    <3>1. NoImport \in ImportType /\ RequestOK(NoImport)'
      BY <1>2, NoImportAfter DEF InventoryInv
    <3>2. ASSUME NEW g \in Handler PROVE RequestOK(req[g])'
      <4>1. PICK now : now = NoImport  OBVIOUS
      <4>2. req'[g] = now /\ RequestOK(now)'  BY <2>2, <3>1, <4>1 DEF NoImport
      <4>. QED  BY <4>2
    <3>. QED  BY <2>2, <3>1, <3>2 DEF RequestsOK
  <2>. QED  BY <1>1, <2>1, <2>2
<1>. QED  BY <1>2, <1>3, <1>4 DEF InventoryInv

LEMMA CreateProjectStep ==
  ASSUME InventoryInv, NEW name \in Name, NEW net \in Network, CreateProject(name, net)
  PROVE  InventoryInv'
<1>1. ProjectsOK' /\ Onward  BY AddedMoves DEF InventoryInv, CreateProject
<1>. QED  BY <1>1, QuietStep DEF CreateProject

LEMMA DeleteProjectStep ==
  ASSUME InventoryInv, NEW i, DeleteProject(i)
  PROVE  InventoryInv'
<1>1. ProjectsOK' /\ Onward  BY DeleteMoves DEF InventoryInv, DeleteProject
<1>. QED  BY <1>1, QuietStep DEF DeleteProject

LEMMA EditTextStep ==
  ASSUME InventoryInv, NEW i \in DOMAIN projects, NEW a \in DOMAIN projects[i].rows,
         NEW text \in Text, EditText(i, a, text)
  PROVE  InventoryInv'
<1>1. projects[i] \in ProjectType  BY ProjectsFacts DEF InventoryInv
<1>2. PICK old : old = projects[i].rows  OBVIOUS
<1>3. old \in [DOMAIN old -> RowType]  BY <1>1, <1>2, ProjectFacts
<1>4. PICK rows : rows = [old EXCEPT ![a] = [@ EXCEPT !.text = text]]  OBVIOUS
<1>5. /\ DOMAIN rows = DOMAIN old
      /\ \A b \in DOMAIN old :
           rows[b] = IF b = a THEN [old[b] EXCEPT !.text = text] ELSE old[b]
  BY <1>4
<1>6. \A b \in DOMAIN old : rows[b] \in RowType /\ rows[b].ordinal = old[b].ordinal
  BY <1>3, <1>5 DEF RowType
<1>7. rows \in [DOMAIN rows -> RowType]
  <2>1. rows = [b \in DOMAIN old |-> rows[b]]  BY <1>4
  <2>. QED  BY <1>5, <1>6, <2>1
<1>8. /\ projects' = [projects EXCEPT ![i] = [@ EXCEPT !.rows = rows]]
      /\ UNCHANGED <<nextId, start, req>>
  BY <1>2, <1>4 DEF EditText
<1>9. /\ DOMAIN rows = DOMAIN projects[i].rows
      /\ \A b \in DOMAIN rows : rows[b].ordinal = projects[i].rows[b].ordinal
  BY <1>2, <1>5, <1>6
<1>10. ProjectsOK' /\ Onward  BY <1>7, <1>8, <1>9, TextsMove DEF InventoryInv
<1>. QED  BY <1>8, <1>10, QuietStep

\* An import ends.
LEMMA ImportEnds ==
  ASSUME InventoryInv, ProjectsOK', Onward, UNCHANGED start, NEW h \in Handler,
         req' = [req EXCEPT ![h] = NoImport]
  PROVE  InventoryInv'
<1>1. PICK r : r = NoImport  OBVIOUS
<1>2. r \in ImportType /\ RequestOK(r)'  BY <1>1, NoImportAfter DEF InventoryInv, NoImport
<1>. QED  BY <1>1, <1>2, ImportStep

LEMMA ImportFillStep ==
  ASSUME InventoryInv, NEW h \in Handler, ImportFill(h)
  PROVE  InventoryInv'
<1>1. PICK r : r = req[h]  OBVIOUS
<1>2. PICK i, texts : i = r.id /\ texts = r.texts  OBVIOUS
<1>3. /\ projects' = IF i \in DOMAIN projects /\ DOMAIN texts \subseteq DOMAIN projects[i].rows
                     THEN [projects EXCEPT ![i].rows = [a \in DOMAIN @ |->
                             IF a \in DOMAIN texts THEN [@[a] EXCEPT !.text = texts[a]] ELSE @[a]]]
                     ELSE projects
      /\ req' = [req EXCEPT ![h] = NoImport] /\ UNCHANGED <<nextId, start>>
  BY <1>1, <1>2 DEF ImportFill
<1>4. ProjectsOK' /\ Onward
  <2>1. CASE projects' = projects
    BY <1>3, <2>1, ProjectsStay DEF InventoryInv
  <2>2. CASE i \in DOMAIN projects /\ DOMAIN texts \subseteq DOMAIN projects[i].rows
    <3>1. projects[i] \in ProjectType  BY <2>2, ProjectsFacts DEF InventoryInv
    <3>2. PICK old : old = projects[i].rows  OBVIOUS
    <3>3. old \in [DOMAIN old -> RowType]  BY <3>1, <3>2, ProjectFacts
    <3>4. texts \in FileTexts  BY <1>1, <1>2 DEF InventoryInv, RequestsOK, ImportType
    <3>5. \A a \in DOMAIN texts : texts[a] \in Text  BY <3>4 DEF FileTexts
    <3>6. PICK rows : rows = [a \in DOMAIN old |->
            IF a \in DOMAIN texts THEN [old[a] EXCEPT !.text = texts[a]] ELSE old[a]]
      OBVIOUS
    <3>7. \A a \in DOMAIN old : rows[a] \in RowType /\ rows[a].ordinal = old[a].ordinal
      BY <3>3, <3>5, <3>6 DEF RowType
    <3>8. DOMAIN rows = DOMAIN old /\ rows \in [DOMAIN rows -> RowType]
      BY <3>6, <3>7
    <3>9. projects' = [projects EXCEPT ![i] = [@ EXCEPT !.rows = rows]]
      BY <1>3, <2>2, <3>2, <3>6
    <3>. QED  BY <1>3, <2>2, <3>2, <3>7, <3>8, <3>9, TextsMove DEF InventoryInv
  <2>. QED  BY <1>3, <2>1, <2>2
<1>. QED  BY <1>3, <1>4, ImportEnds

LEMMA ImportBegins ==
  ASSUME InventoryInv, NEW h \in Handler, NEW name \in Name, NEW n \in 1..MaxRows,
         NEW rows \in [1..n -> FileRow], Import(h, name, rows)
  PROVE  InventoryInv'
<1>1. n \in Nat
  <2>1. \A m \in Nat : \A k \in 1..m : k \in Nat  OBVIOUS
  <2>. QED  BY <2>1, InventoryAssumption
<1>2. PICK mapped \in Seq(FileRow) : mapped = Mapped(rows)  BY <1>1, MappedFacts
<1>3. PICK result : result = Parsed(mapped)  OBVIOUS
<1>4. /\ result.cidr \in Network /\ result.texts \in FileTexts
      /\ DOMAIN result.texts \subseteq Hosts(result.cidr)
      /\ \A net \in Network :
           DOMAIN result.texts \subseteq Members(net) => result.cidr.prefix >= net.prefix
  BY <1>2, <1>3, ParsedFacts DEF Import, Accepted
<1>5. PICK r : r = [NoImport EXCEPT !.pc = "create", !.name = name,
                    !.cidr = result.cidr, !.texts = result.texts]
  OBVIOUS
<1>6. req' = [req EXCEPT ![h] = r] /\ UNCHANGED <<projects, nextId, start>>
  BY <1>2, <1>3, <1>5 DEF Import
<1>7. r \in ImportType /\ RequestOK(r)
  <2>1. name \in Nat  BY InventoryAssumption
  <2>2. NoImport \in ImportType  BY NoImportFacts
  <2>3. /\ r \in ImportType /\ r.pc = "create" /\ r.name = name
        /\ r.cidr = result.cidr /\ r.texts = result.texts
    BY <1>4, <1>5, <2>1, <2>2 DEF ImportType
  <2>. QED  BY <1>4, <2>3 DEF RequestOK
<1>8. ProjectsOK' /\ Onward  BY <1>6, ProjectsStay DEF InventoryInv
<1>9. RequestOK(r)'  BY <1>7, <1>8, OnwardKeeps DEF InventoryInv
<1>. QED  BY <1>6, <1>7, <1>8, <1>9, ImportStep

LEMMA ImportCreateStep ==
  ASSUME InventoryInv, NEW h \in Handler, ImportCreate(h)
  PROVE  InventoryInv'
<1>1. PICK old : old = req[h]  OBVIOUS
<1>2. /\ old \in ImportType /\ RequestOK(old) /\ old.pc = "create"
      /\ req \in [Handler -> ImportType]
  BY <1>1 DEF InventoryInv, RequestsOK, ImportCreate
<1>3. CASE old.name \in Names \/ nextId > MaxId
  <2>1. req' = [req EXCEPT ![h] = NoImport] /\ UNCHANGED <<projects, nextId, start>>
    BY <1>1, <1>3 DEF ImportCreate
  <2>2. ProjectsOK' /\ Onward  BY <2>1, ProjectsStay DEF InventoryInv
  <2>. QED  BY <2>1, <2>2, ImportEnds
<1>4. CASE ~ (old.name \in Names \/ nextId > MaxId)
  <2>1. /\ Added(old.name, old.cidr) /\ nextId' = nextId + 1 /\ UNCHANGED start
        /\ req' = [req EXCEPT ![h].pc = "fill", ![h].id = nextId]
    BY <1>1, <1>4 DEF ImportCreate
  <2>2. nextId \in Nat /\ nextId <= MaxId
    <3>1. nextId \in Nat /\ MaxId \in Nat  BY ProjectsFacts DEF InventoryInv
    <3>. QED  BY <1>4, <3>1
  <2>3. old.name \in Name /\ old.cidr \in Network  BY <1>2 DEF RequestOK, ImportType
  <2>4. /\ ProjectsOK' /\ Onward
        /\ nextId \in DOMAIN projects' /\ projects'[nextId].cidr = old.cidr
    BY <1>4, <2>1, <2>2, <2>3, AddedMoves DEF InventoryInv
  <2>5. PICK r : r = [old EXCEPT !.pc = "fill", !.id = nextId]  OBVIOUS
  <2>6. /\ r \in ImportType /\ r.pc = "fill" /\ r.id = nextId
        /\ r.name = old.name /\ r.cidr = old.cidr /\ r.texts = old.texts
    BY <1>2, <2>2, <2>5 DEF ImportType
  <2>7. req' = [req EXCEPT ![h] = r]  BY <1>1, <1>2, <2>1, <2>5
  <2>8. RequestOK(r)'
    <3>1. /\ DOMAIN r.texts \subseteq Hosts(r.cidr) /\ r.name \in Name
          /\ \A net \in Network :
               DOMAIN r.texts \subseteq Members(net) => r.cidr.prefix >= net.prefix
      BY <1>2, <2>6 DEF RequestOK
    <3>2. r.id < nextId' /\ projects'[r.id].cidr = r.cidr  BY <2>1, <2>2, <2>4, <2>6
    <3>. QED  BY <3>1, <3>2 DEF RequestOK
  <2>. QED  BY <2>1, <2>4, <2>6, <2>7, <2>8, ImportStep
<1>. QED  BY <1>3, <1>4

LEMMA InvStep == InventoryInv /\ [Next]_vars => InventoryInv'
<1> SUFFICES ASSUME InventoryInv, [Next]_vars PROVE InventoryInv'
  OBVIOUS
<1>1. CASE \E p \in Starter : Load(p) \/ Normalize(p) \/ Stop(p)
  BY <1>1, LoadStep, NormalizeStep, StopStep
<1>2. CASE \E name \in Name, net \in Network : CreateProject(name, net)
  BY <1>2, CreateProjectStep
<1>3. CASE \E h \in Handler : ImportCreate(h) \/ ImportFill(h)
  BY <1>3, ImportCreateStep, ImportFillStep
<1>4. CASE \E h \in Handler : \E name \in Name, n \in 1..MaxRows :
             \E rows \in [1..n -> WrittenRow] : Import(h, name, rows)
  <2>1. PICK h \in Handler, name \in Name, n \in 1..MaxRows :
          \E rows \in [1..n -> WrittenRow] : Import(h, name, rows)
    BY <1>4
  <2>2. PICK rows \in [1..n -> WrittenRow] : Import(h, name, rows)  BY <2>1
  <2>3. rows \in [1..n -> FileRow]  BY DEF WrittenRow
  <2>. QED  BY <2>2, <2>3, ImportBegins
<1>5. CASE \E i \in DOMAIN projects : DeleteProject(i)
  BY <1>5, DeleteProjectStep
<1>6. CASE \E i \in DOMAIN projects : \E a \in DOMAIN projects[i].rows, text \in Written \cap Text :
             EditText(i, a, text)
  BY <1>6, EditTextStep
<1>7. CASE UNCHANGED vars
  <2>1. UNCHANGED <<projects, nextId, start, req>>  BY <1>7 DEF vars
  <2>2. ProjectsOK' /\ Onward  BY <2>1, ProjectsStay DEF InventoryInv
  <2>. QED  BY <2>1, <2>2, QuietStep
<1>. QED  BY <1>1, <1>2, <1>3, <1>4, <1>5, <1>6, <1>7 DEF Next

LEMMA Invariance == Spec => []InventoryInv
BY InitInv, InvStep, PTL DEF Spec

\* The projects, their rows and the starts have their types, and the unique
\* keys of projects and ip_addresses hold, whatever an older release left.
THEOREM InventoryTypeCorrect == Spec => []TypeOK
<1>1. InventoryInv => TypeOK
  <2> SUFFICES ASSUME InventoryInv PROVE TypeOK
    OBVIOUS
  <2>1. /\ DOMAIN projects \subseteq 1..(nextId - 1) /\ nextId \in 1..(MaxId + 1)
        /\ \A i, j \in DOMAIN projects : i # j => projects[i].name # projects[j].name
    BY DEF InventoryInv, ProjectsOK, NamesApart
  <2>2. ASSUME NEW i \in DOMAIN projects
        PROVE  /\ projects[i].name \in Name /\ projects[i].cidr \in Network
               /\ \A a \in DOMAIN projects[i].rows :
                    /\ a \in Address
                    /\ projects[i].rows[a] \in [ordinal : Int, text : Text]
                    /\ \A b \in DOMAIN projects[i].rows \ {a} :
                         projects[i].rows[a].ordinal # projects[i].rows[b].ordinal
    <3>1. PICK project : project = projects[i]  OBVIOUS
    <3>2. project \in ProjectType /\ OrdinalsApart(project)
      BY <3>1, ProjectsFacts DEF InventoryInv, ProjectsOK
    <3>3. \A row \in RowType : row \in [ordinal : Int, text : Text]
      BY DEF RowType
    <3>. QED  BY <3>1, <3>2, <3>3, ProjectFacts DEF OrdinalsApart
  <2>3. \A p \in Starter : start[p].pc \in {"off", "loaded", "on", "failed", "clashed"}
    BY DEF InventoryInv, StartsOK
  <2>. QED  BY <2>1, <2>2, <2>3 DEF TypeOK
<1>. QED  BY <1>1, Invariance, PTL

\* Of any number of processes that start at once, on projects numbered in any
\* order, none meets in its renumbering an ordinal that another row still has.
THEOREM RenumberingNeverClashes == Spec => []OrdinalsNeverClash
<1>1. InventoryInv => OrdinalsNeverClash
  BY DEF InventoryInv, StartsOK, OrdinalsNeverClash
<1>. QED  BY <1>1, Invariance, PTL

\* Once a process is up, and for as long as one is, every project has a row for
\* each host of its network and no other, numbered from 1 in their order,
\* although other processes write from readings they made before.
THEOREM RunningMeansNormal == Spec => []UpMeansNormal
BY Invariance, PTL DEF InventoryInv

\* The second commit of an import finds a row for every address of its file,
\* unless its project has been deleted, whatever starts and edits meanwhile.
THEOREM ImportsFindTheirRows == Spec => []ImportFindsItsRows
<1>1. InventoryInv => ImportFindsItsRows
  <2> SUFFICES ASSUME InventoryInv, NEW h \in Handler, req[h].pc = "fill",
                      req[h].id \in DOMAIN projects
               PROVE  DOMAIN req[h].texts \subseteq DOMAIN projects[req[h].id].rows
    BY DEF ImportFindsItsRows
  <2>1. PICK r, project : r = req[h] /\ project = projects[r.id]  OBVIOUS
  <2>2. project \in ProjectType  BY <2>1, ProjectsFacts DEF InventoryInv
  <2>3. DOMAIN r.texts \subseteq Hosts(r.cidr) /\ project.cidr = r.cidr
    BY <2>1 DEF InventoryInv, RequestsOK, RequestOK
  <2>4. Hosts(project.cidr) \subseteq DOMAIN project.rows  BY <2>2, ProjectFacts
  <2>. QED  BY <2>1, <2>3, <2>4
<1>. QED  BY <1>1, Invariance, PTL

\* An import makes the smallest network that holds the addresses of its file:
\* the bits in which the lowest and the highest of them agree, and no more.
THEOREM ImportedCidrIsSmallest == Spec => []CidrIsSmallest
<1>1. InventoryInv => CidrIsSmallest
  <2> SUFFICES ASSUME InventoryInv, NEW h \in Handler, req[h].pc \in {"create", "fill"}
               PROVE  /\ DOMAIN req[h].texts \subseteq Members(req[h].cidr)
                      /\ \A net \in Network : DOMAIN req[h].texts \subseteq Members(net) =>
                           req[h].cidr.prefix >= net.prefix
    BY DEF CidrIsSmallest
  <2>1. PICK r : r = req[h]  OBVIOUS
  <2>2. r \in ImportType /\ RequestOK(r) /\ r.pc # "idle"
    BY <2>1 DEF InventoryInv, RequestsOK
  <2>3. Hosts(r.cidr) \subseteq Members(r.cidr)  BY <2>2, HostFacts DEF ImportType
  <2>. QED  BY <2>1, <2>2, <2>3 DEF RequestOK
<1>. QED  BY <1>1, Invariance, PTL

(***************************************************************************)
(* Exports.                                                                *)
(***************************************************************************)

\* Networks of one size that share an address are the same.
LEMMA SameNetwork ==
  ASSUME NEW net \in Network, NEW other \in Network, net.prefix = other.prefix,
         NEW a, a \in Members(net), a \in Members(other)
  PROVE  net = other
<1>1. PICK m \in Nat \ {0} : m = Size(net.prefix)  BY NetworkFacts
<1>2. PICK q \in Nat, r \in Nat : net.base = m * q /\ other.base = m * r
  BY <1>1, NetworkFacts DEF NetworkShape
<1>3. PICK b \in Nat, c \in Nat : b = m * q /\ c = m * r  OBVIOUS
<1>4. a \in b..(b + m - 1) /\ a \in c..(c + m - 1)  BY <1>1, <1>2, <1>3 DEF Members
<1>5. a \in Nat /\ b <= a /\ a < b + m /\ c <= a /\ a < c + m  BY <1>4
<1>6. a \div m = q /\ a \div m = r  BY <1>3, <1>5, Division
<1>7. net.base = other.base  BY <1>2, <1>6
<1>8. PICK x \in Address, y \in Address, p \in 0..Bits, p2 \in 0..Bits :
        net = NetworkOf(x, p) /\ other = NetworkOf(y, p2)
  BY DEF Network
<1>. QED  BY <1>7, <1>8 DEF NetworkOf

\* The smallest network of all the hosts of a network is that network.
LEMMA SmallestOfHosts ==
  ASSUME NEW net \in Network
  PROVE  SmallestNetwork(Hosts(net)) = net
<1>1. PICK small : small = SmallestNetwork(Hosts(net))  OBVIOUS
<1>2. PICK lo \in Nat, hi \in Nat :
        /\ lo = LowestHost(net) /\ hi = HighestHost(net) /\ lo <= hi /\ Hosts(net) = lo..hi
  BY HostFacts
<1>3. lo \in Hosts(net) /\ hi \in Hosts(net)  BY <1>2
<1>4. /\ Hosts(net) \subseteq Address /\ Hosts(net) # {} /\ Hosts(net) \subseteq Members(net)
  BY <1>3, HostFacts
<1>5. /\ small \in Network /\ Hosts(net) \subseteq Members(small)
      /\ small.prefix >= net.prefix
  BY <1>1, <1>4, SmallestIsSmallest
<1>6. /\ Bits \in Nat /\ net.prefix \in 0..Bits /\ small.prefix \in 0..Bits
      /\ net.base \in Nat /\ small.base \in Nat
  BY <1>5, NetworkFacts, SubnetsAssumption DEF NetworkShape
<1>7. PICK m \in Nat \ {0}, s \in Nat \ {0} : m = Size(net.prefix) /\ s = Size(small.prefix)
  BY <1>5, NetworkFacts
<1>8. PICK b \in Nat, c \in Nat : b = net.base /\ c = small.base  BY <1>6
<1>9. c <= lo /\ hi <= c + s - 1
  <2>1. lo \in c..(c + s - 1) /\ hi \in c..(c + s - 1)
    BY <1>3, <1>5, <1>7, <1>8 DEF Members
  <2>. QED  BY <2>1
<1>10. small.prefix = net.prefix
  <2> SUFFICES ASSUME small.prefix # net.prefix PROVE FALSE
    OBVIOUS
  <2>1. PICK p \in Nat, d \in Nat :
          p = Bits - small.prefix /\ Bits - net.prefix = p + (d + 1)
    <3>1. PICK x \in Nat, y \in Nat, z \in Nat : x = net.prefix /\ y = small.prefix /\ z = Bits
      BY <1>6
    <3>2. y >= x /\ y # x /\ y <= z  BY <1>5, <1>6, <3>1
    <3>3. z - y \in Nat /\ y - x - 1 \in Nat /\ z - x = (z - y) + ((y - x - 1) + 1)
      BY <3>2
    <3>. QED  BY <3>1, <3>3
  <2>2. PICK e \in Nat \ {0} : e = 2^d  BY PowerOfTwo
  <2>3. m = s * (2 * e)
    <3>1. d + 1 \in Nat /\ 2^(d + 1) = 2 * e  BY <2>2, PowerOfTwo
    <3>2. m = 2^(p + (d + 1)) /\ s = 2^p  BY <1>7, <2>1 DEF Size
    <3>3. 2^(p + (d + 1)) = 2^p * 2^(d + 1)  BY <3>1, PowerSum
    <3>. QED  BY <3>1, <3>2, <3>3
  <2>4. 2 * s <= m
    <3>1. 2 <= 2 * e /\ 2 * e \in Nat  OBVIOUS
    <3>2. s * 2 <= s * (2 * e)  BY <3>1, Product
    <3>. QED  BY <2>3, <3>2
  <2>5. CASE net.prefix >= Bits - 1
    <3>1. lo = b /\ hi = b + m - 1  BY <1>2, <1>7, <1>8, <2>5 DEF LowestHost, HighestHost
    <3>. QED  BY <1>9, <2>4, <3>1
  <2>6. CASE ~ (net.prefix >= Bits - 1)
    <3>1. lo = b + 1 /\ hi = b + m - 2  BY <1>2, <1>7, <1>8, <2>6 DEF LowestHost, HighestHost
    <3>2. m >= 4
      <4>1. net.prefix < Bits - 1  BY <1>6, <2>6
      <4>. QED  BY <1>6, <1>7, <4>1, Sizes
    <3>3. m = 4 /\ s = 2 /\ c = b + 1  BY <1>9, <2>4, <3>1, <3>2
    <3>4. PICK q \in Nat, r \in Nat : b = m * q /\ c = s * r
      BY <1>5, <1>7, <1>8, NetworkFacts DEF NetworkShape
    <3>5. b = 4 * q /\ c = 2 * r  BY <3>3, <3>4
    <3>. QED  BY <3>3, <3>5
  <2>. QED  BY <2>5, <2>6
<1>. QED  BY <1>1, <1>3, <1>4, <1>5, <1>10, SameNetwork

\* How many numbers an interval has.
LEMMA IntervalSize ==
  \A a, b \in Nat : a <= b => Cardinality(a..b) = b - a + 1
<1> SUFFICES ASSUME NEW a \in Nat, NEW b \in Nat, a <= b
             PROVE  Cardinality(a..b) = b - a + 1
  OBVIOUS
<1>. QED  BY a \in Int, b \in Int, FS_Interval

\* The rows of a project in order.
LEMMA InOrderFacts ==
  ASSUME NEW project \in ProjectType, Normal(project)
  PROVE  LET lo == LowestHost(project.cidr)
             n == HighestHost(project.cidr) - lo + 1
         IN /\ n \in Nat \ {0} /\ Hosts(project.cidr) = lo..(lo + n - 1) /\ lo \in Nat
            /\ DOMAIN InOrder(project.rows) = 1..n
            /\ \A k \in 1..n : InOrder(project.rows)[k] = lo + k - 1
<1>1. PICK net \in Network : net = project.cidr  BY ProjectFacts
<1>2. PICK lo \in Nat, hi \in Nat :
        lo = LowestHost(net) /\ hi = HighestHost(net) /\ lo <= hi /\ Hosts(net) = lo..hi
  BY HostFacts
<1>3. PICK n \in Nat \ {0} : n = hi - lo + 1  BY <1>2
<1>4. PICK rows : rows = project.rows  OBVIOUS
<1>5. DOMAIN rows = lo..hi /\ \A a \in lo..hi : rows[a].ordinal = a - lo + 1
  BY <1>1, <1>2, <1>4, Ordinals DEF Normal
<1>6. hi = lo + n - 1 /\ Cardinality(lo..hi) = n
  <2>1. hi = lo + n - 1  BY <1>3
  <2>2. Cardinality(lo..hi) = hi - lo + 1  BY <1>2, IntervalSize
  <2>. QED  BY <1>3, <2>1, <2>2
<1> DEFINE UpTo(a) == {b \in DOMAIN rows : rows[b].ordinal <= rows[a].ordinal}
<1>7. ASSUME NEW a \in lo..hi PROVE Cardinality(UpTo(a)) = a - lo + 1
  <2>1. UpTo(a) = lo..a
    <3>1. \A b \in lo..hi : rows[b].ordinal <= rows[a].ordinal <=> b <= a  BY <1>5
    <3>. QED  BY <1>5, <3>1
  <2>2. a \in Nat /\ lo <= a  OBVIOUS
  <2>3. Cardinality(lo..a) = a - lo + 1  BY <2>2, IntervalSize
  <2>. QED  BY <2>1, <2>3
<1>8. InOrder(rows) = [k \in 1..n |-> CHOOSE a \in DOMAIN rows : Cardinality(UpTo(a)) = k]
  BY <1>5, <1>6 DEF InOrder
<1>. HIDE DEF UpTo
<1>9. ASSUME NEW k \in 1..n PROVE InOrder(rows)[k] = lo + k - 1
  <2>1. lo + k - 1 \in lo..hi /\ (lo + k - 1) - lo + 1 = k  BY <1>6
  <2>2. \A a \in lo..hi : Cardinality(UpTo(a)) = k <=> a = lo + k - 1  BY <1>7
  <2>3. (CHOOSE a \in lo..hi : Cardinality(UpTo(a)) = k) = lo + k - 1  BY <2>1, <2>2
  <2>. QED  BY <1>5, <1>8, <2>3
<1>. QED  BY <1>1, <1>2, <1>3, <1>4, <1>6, <1>8, <1>9

\* A file that begins with its header and has no blank row is read as it is.
LEMMA MappedWhole ==
  ASSUME NEW n \in Nat \ {0}, NEW file, DOMAIN file = 1..(n + 1), file[1] = Header,
         \A i \in 2..(n + 1) : Cells(file[i]) # Blank
  PROVE  Mapped(file) = [k \in 1..n |-> Cells(file[k + 1])]
<1> DEFINE kept == {i \in DOMAIN file : Cells(file[i]) # Blank}
           filled == [k \in 1..Cardinality(kept) |->
                        Cells(file[CHOOSE i \in kept : Cardinality({j \in kept : j <= i}) = k])]
<1>1. kept = 1..(n + 1)
  <2>1. Header # Blank
    <3>1. Header.address = 0 - 2 /\ Blank.address = 0 - 1  BY DEF Header, Blank, NoAddress
    <3>. QED  BY <3>1
  <2>2. \A i \in 1..(n + 1) : i = 1 \/ i \in 2..(n + 1)  OBVIOUS
  <2>. QED  BY <2>1, <2>2, CellsFacts
<1>2. PICK N \in Nat \ {0} : N = n + 1  OBVIOUS
<1>3. Cardinality(kept) = N
  <2>1. Cardinality(1..N) = N  BY IntervalSize
  <2>. HIDE DEF kept
  <2>. QED  BY <1>1, <1>2, <2>1
<1>4. ASSUME NEW k \in 1..N PROVE filled[k] = Cells(file[k])
  <2>1. ASSUME NEW i \in 1..N PROVE Cardinality({j \in kept : j <= i}) = i
    <3>1. {j \in 1..N : j <= i} = 1..i  OBVIOUS
    <3>2. Cardinality(1..i) = i  BY IntervalSize
    <3>3. kept = 1..N  BY <1>1, <1>2
    <3>. HIDE DEF kept
    <3>. QED  BY <3>1, <3>2, <3>3
  <2>2. (CHOOSE i \in 1..N : Cardinality({j \in kept : j <= i}) = k) = k  BY <2>1
  <2>. QED  BY <1>1, <1>2, <1>3, <2>2
<1>5. filled = [k \in 1..N |-> Cells(file[k])]
  <2>1. filled = [k \in 1..N |-> filled[k]]
    <3>. HIDE DEF kept
    <3>. QED  BY <1>3
  <2>. HIDE DEF filled
  <2>. QED  BY <1>4, <2>1
<1>6. Mapped(file) = IF filled # <<>> /\ filled[1] = Header THEN Tail(filled) ELSE filled
  BY DEF Mapped
<1>. HIDE DEF kept, filled
<1>7. filled # <<>> /\ filled[1] = Header /\ Tail(filled) = [k \in 1..n |-> Cells(file[k + 1])]
  <2>1. 1 \in 1..N /\ Cells(file[1]) = Header  BY CellsFacts
  <2>2. PICK S : S = {Cells(file[k]) : k \in 1..N}  OBVIOUS
  <2>3. filled \in Seq(S) /\ Len(filled) = N  BY <1>5, <2>2
  <2>4. filled # <<>>  BY <1>5, <2>1, <2>3
  <2>5. /\ Tail(filled) \in Seq(S) /\ Len(Tail(filled)) = n
        /\ \A k \in 1..n : Tail(filled)[k] = filled[k + 1]
    BY <1>2, <2>3, <2>4, HeadTailProperties
  <2>6. \A k \in 1..n : k + 1 \in 1..N  BY <1>2
  <2>. QED  BY <1>5, <2>1, <2>4, <2>5, <2>6
<1>. QED  BY <1>6, <1>7

\* The file of a project in order: a row for each host, in their order.
LEMMA RenderedFacts ==
  ASSUME NEW project \in ProjectType, Normal(project)
  PROVE  LET lo == LowestHost(project.cidr)
             n == HighestHost(project.cidr) - lo + 1
         IN Mapped(Rendered(project)) =
              [k \in 1..n |-> [address |-> lo + k - 1,
                               text |-> Stripped(Safe(project.rows[lo + k - 1].text))]]
<1>1. PICK lo \in Nat, n \in Nat \ {0} :
        /\ lo = LowestHost(project.cidr) /\ n = HighestHost(project.cidr) - lo + 1
  BY InOrderFacts
<1>2. PICK order : order = InOrder(project.rows)  OBVIOUS
<1>3. DOMAIN order = 1..n /\ \A k \in 1..n : order[k] = lo + k - 1
  BY <1>1, <1>2, InOrderFacts
<1>4. PICK row : row = [k \in 1..n |-> [address |-> lo + k - 1,
                                        text |-> Safe(project.rows[lo + k - 1].text)]]
  OBVIOUS
<1>5. Rendered(project) = <<Header>> \o row
  <2>1. [k \in DOMAIN order |-> [address |-> order[k],
                                 text |-> Safe(project.rows[order[k]].text)]] = row
    BY <1>3, <1>4
  <2>. QED  BY <1>2, <2>1 DEF Rendered
<1>6. PICK file : file = <<Header>> \o row  OBVIOUS
<1>7. DOMAIN file = 1..(n + 1) /\ file[1] = Header /\ \A k \in 1..n : file[k + 1] = row[k]
  <2>1. PICK S : S = {row[k] : k \in 1..n} \cup {Header}  OBVIOUS
  <2>2. row \in Seq(S) /\ Len(row) = n
    <3>1. row = [k \in 1..n |-> row[k]]  BY <1>4
    <3>2. row \in [1..n -> S]  BY <2>1, <3>1
    <3>. QED  BY <3>2
  <2>3. <<Header>> \in Seq(S) /\ Len(<<Header>>) = 1 /\ <<Header>>[1] = Header  BY <2>1
  <2>4. /\ file \in Seq(S) /\ Len(file) = 1 + n
        /\ \A i \in 1..(1 + n) : file[i] = IF i <= 1 THEN <<Header>>[i] ELSE row[i - 1]
    BY <1>6, <2>2, <2>3, ConcatProperties
  <2>. HIDE DEF Header
  <2>5. 1 \in 1..(1 + n) /\ 1 <= 1  OBVIOUS
  <2>6. \A k \in 1..n : k + 1 \in 1..(1 + n) /\ ~ (k + 1 <= 1) /\ (k + 1) - 1 = k  OBVIOUS
  <2>. QED  BY <2>3, <2>4, <2>5, <2>6
<1>8. \A k \in 1..n :
        Cells(row[k]) = [address |-> lo + k - 1,
                         text |-> Stripped(Safe(project.rows[lo + k - 1].text))]
  BY <1>4, CellsFacts
<1>9. \A i \in 2..(n + 1) : Cells(file[i]) # Blank
  <2> SUFFICES ASSUME NEW i \in 2..(n + 1) PROVE Cells(file[i]) # Blank
    OBVIOUS
  <2>1. PICK k \in 1..n : i = k + 1  BY i - 1 \in 1..n
  <2>2. PICK cells : cells = Cells(row[k])  OBVIOUS
  <2>3. cells.address = lo + k - 1 /\ lo + k - 1 \in Nat
    <3>1. cells = [address |-> lo + k - 1,
                   text |-> Stripped(Safe(project.rows[lo + k - 1].text))]
      BY <1>8, <2>2
    <3>2. lo + k - 1 \in Nat  OBVIOUS
    <3>. QED  BY <3>1, <3>2
  <2>4. Blank.address = 0 - 1  BY DEF Blank, NoAddress
  <2>5. PICK x \in Nat : x = cells.address  BY <2>3
  <2>. QED  BY <1>7, <2>1, <2>2, <2>4, <2>5
<1>10. Mapped(file) = [k \in 1..n |-> Cells(file[k + 1])]  BY <1>7, <1>9, MappedWhole
<1>11. Mapped(file) = [k \in 1..n |-> Cells(row[k])]
  <2>1. \A k \in 1..n : Cells(file[k + 1]) = Cells(row[k])  BY <1>7
  <2>. QED  BY <1>10, <2>1
<1>12. Mapped(file) = [k \in 1..n |-> [address |-> lo + k - 1,
                        text |-> Stripped(Safe(project.rows[lo + k - 1].text))]]
  BY <1>8, <1>11
<1>. QED  BY <1>1, <1>5, <1>6, <1>12

\* Such a file gives the network and the addresses back, with their texts, if
\* neither the network nor a text is too large.
LEMMA ReimportFacts ==
  ASSUME NEW project \in ProjectType, Normal(project)
  PROVE  LET rows == Mapped(Rendered(project))
         IN /\ Importable(rows) <=>
                 /\ Size(project.cidr.prefix) <= MaxProjectAddresses
                 /\ \A a \in DOMAIN project.rows :
                      Stripped(Safe(project.rows[a].text)) \notin TooLong
            /\ Parsed(rows) =
                 [cidr |-> project.cidr,
                  texts |-> [a \in DOMAIN project.rows |-> Stripped(Safe(project.rows[a].text))]]
<1>1. PICK net \in Network : net = project.cidr  BY ProjectFacts
<1>2. PICK lo \in Nat, n \in Nat \ {0} :
        /\ lo = LowestHost(net) /\ n = HighestHost(net) - lo + 1
        /\ Hosts(net) = lo..(lo + n - 1)
  BY <1>1, InOrderFacts
<1>3. PICK rows : rows = Mapped(Rendered(project))  OBVIOUS
<1>4. rows = [k \in 1..n |-> [address |-> lo + k - 1,
                              text |-> Stripped(Safe(project.rows[lo + k - 1].text))]]
  BY <1>1, <1>2, <1>3, RenderedFacts
<1>5. /\ DOMAIN rows = 1..n
      /\ \A k \in 1..n : /\ rows[k].address = lo + k - 1
                         /\ rows[k].text = Stripped(Safe(project.rows[lo + k - 1].text))
  BY <1>4
<1>6. \A a \in lo..(lo + n - 1) : \E k \in 1..n : a = lo + k - 1
  <2> SUFFICES ASSUME NEW a \in lo..(lo + n - 1) PROVE \E k \in 1..n : a = lo + k - 1
    OBVIOUS
  <2>1. a - lo + 1 \in 1..n /\ a = lo + (a - lo + 1) - 1  OBVIOUS
  <2>. QED  BY <2>1
<1>7. AddressesOf(rows) = Hosts(net)
  <2>1. \A k \in 1..n : lo + k - 1 \in lo..(lo + n - 1)  OBVIOUS
  <2>2. PICK A : A = AddressesOf(rows)  OBVIOUS
  <2>3. A = {rows[k].address : k \in 1..n}  BY <1>5, <2>2 DEF AddressesOf
  <2>4. \A a \in A : a \in lo..(lo + n - 1)  BY <1>5, <2>1, <2>3
  <2>5. \A a \in lo..(lo + n - 1) : a \in A  BY <1>5, <1>6, <2>3
  <2>. QED  BY <1>2, <2>2, <2>4, <2>5
<1>8. SmallestNetwork(AddressesOf(rows)) = net  BY <1>7, SmallestOfHosts
<1>9. ASSUME NEW a \in Hosts(net)
      PROVE  rows[CHOOSE i \in DOMAIN rows : rows[i].address = a].text
               = Stripped(Safe(project.rows[a].text))
  <2>1. PICK k \in 1..n : a = lo + k - 1  BY <1>2, <1>6
  <2>2. \A i \in 1..n : rows[i].address = a <=> i = k  BY <1>5, <2>1
  <2>3. (CHOOSE i \in 1..n : rows[i].address = a) = k  BY <2>2
  <2>. QED  BY <1>5, <2>1, <2>3
<1>10. Parsed(rows) = [cidr |-> net,
                       texts |-> [a \in Hosts(net) |-> Stripped(Safe(project.rows[a].text))]]
  <2>1. [a \in Hosts(net) |-> rows[CHOOSE i \in DOMAIN rows : rows[i].address = a].text]
          = [a \in Hosts(net) |-> Stripped(Safe(project.rows[a].text))]
    BY <1>9
  <2>. QED  BY <1>7, <1>8, <2>1 DEF Parsed
<1>11. WithinLimits(rows) <=>
         \A a \in Hosts(net) : Stripped(Safe(project.rows[a].text)) \notin TooLong
  <2>1. \A k \in 1..n : lo + k - 1 \in Hosts(net)
    <3>1. \A k \in 1..n : lo + k - 1 \in lo..(lo + n - 1)  OBVIOUS
    <3>. QED  BY <1>2, <3>1
  <2>2. WithinLimits(rows) <=> \A k \in 1..n : rows[k].text \notin TooLong
    BY <1>5 DEF WithinLimits
  <2>3. ASSUME \A k \in 1..n : rows[k].text \notin TooLong, NEW a \in Hosts(net)
        PROVE  Stripped(Safe(project.rows[a].text)) \notin TooLong
    <3>1. PICK k \in 1..n : a = lo + k - 1  BY <1>2, <1>6
    <3>. QED  BY <1>5, <2>3, <3>1
  <2>4. ASSUME \A a \in Hosts(net) : Stripped(Safe(project.rows[a].text)) \notin TooLong,
               NEW k \in 1..n
        PROVE  rows[k].text \notin TooLong
    BY <1>5, <2>1, <2>4
  <2>. QED  BY <2>2, <2>3, <2>4
<1>12. Importable(rows) => Size(net.prefix) <= MaxProjectAddresses /\ WithinLimits(rows)
  BY <1>8 DEF Importable
<1>13. ASSUME Size(net.prefix) <= MaxProjectAddresses, WithinLimits(rows)
       PROVE  Importable(rows)
  <2>1. PICK S : S = {rows[k] : k \in 1..n}  OBVIOUS
  <2>2. rows \in Seq(S) /\ Len(rows) = n /\ rows # <<>>
    <3>1. rows = [k \in 1..n |-> rows[k]]  BY <1>4
    <3>2. rows \in [1..n -> S]  BY <2>1, <3>1
    <3>3. rows \in Seq(S) /\ Len(rows) = n  BY <3>2
    <3>. QED  BY <3>3, EmptySeq
  <2>3. Cardinality(AddressesOf(rows)) = n
    <3>1. Cardinality(lo..(lo + n - 1)) = (lo + n - 1) - lo + 1
      BY lo + n - 1 \in Nat, lo <= lo + n - 1, IntervalSize
    <3>. QED  BY <1>2, <1>7, <3>1
  <2>4. n <= MaxProjectAddresses
    <3>1. PICK m \in Nat, b \in Nat : m = Size(net.prefix) /\ b = net.base
      BY NetworkFacts DEF NetworkShape
    <3>2. n <= m  BY <1>2, <3>1 DEF LowestHost, HighestHost
    <3>3. MaxProjectAddresses \in Nat  BY SubnetsAssumption
    <3>. QED  BY <1>13, <3>1, <3>2, <3>3
  <2>5. AddressesOf(rows) \subseteq Address  BY <1>7, HostFacts
  <2>6. NoReserved(rows)
    <3>1. Hosts(net) \cap Reserved(net) = {}  BY HostFacts
    <3>. QED  BY <1>7, <1>8, <3>1 DEF NoReserved
  <2>. QED  BY <1>8, <1>13, <2>2, <2>3, <2>4, <2>5, <2>6 DEF Importable
<1>14. DOMAIN project.rows = Hosts(net)  BY <1>1 DEF Normal
<1>. QED  BY <1>1, <1>3, <1>10, <1>11, <1>12, <1>13, <1>14

\* While the web process serves, the CSV file of a project can be imported unless
\* the network, the file or a quoted text is larger than an import may have, and
\* gives the same network, the same addresses and their texts, quoted where a
\* spreadsheet would compute.
THEOREM ExportsReimport == Spec => []ExportReimports
<1>1. InventoryInv => ExportReimports
  <2> SUFFICES ASSUME InventoryInv, Serving, NEW i \in DOMAIN projects
               PROVE  LET project == projects[i]  file == Rendered(project)
                          Again(a) == Stripped(Safe(project.rows[a].text))
                      IN /\ Accepted(file) <=>
                              /\ Size(project.cidr.prefix) <= MaxProjectAddresses
                              /\ FileSize(file) <= MaxImportBytes
                              /\ \A a \in DOMAIN project.rows : Again(a) \notin TooLong
                         /\ Parsed(Mapped(file)) =
                              [cidr |-> project.cidr,
                               texts |-> [a \in DOMAIN project.rows |-> Again(a)]]
    BY DEF ExportReimports
  <2>1. PICK project : project = projects[i]  OBVIOUS
  <2>2. project \in ProjectType  BY <2>1, ProjectsFacts DEF InventoryInv
  <2>3. Normal(project)
    <3>1. Web \in Starter  BY InventoryAssumption
    <3>. QED  BY <2>1, <3>1 DEF InventoryInv, UpMeansNormal, Serving
  <2>4. PICK file : file = Rendered(project)  OBVIOUS
  <2>5. Accepted(file) <=> FileSize(file) <= MaxImportBytes /\ Importable(Mapped(file))
    BY DEF Accepted
  <2>. QED  BY <2>1, <2>2, <2>3, <2>4, <2>5, ReimportFacts
<1>. QED  BY <1>1, Invariance, PTL
(***************************************************************************)
(* Pages.                                                                  *)
(***************************************************************************)

\* g[i] is what the first i of the sequences make, one after the other.
EndToEnd(g, pages, total) ==
  \A i \in 1..total : g[i] = IF i = 1 THEN pages[i] ELSE g[i - 1] \o pages[i]

\* Sequences laid end to end, where g[i] is what the first i of them make.
LEMMA Flattened ==
  ASSUME NEW total \in Nat \ {0}, NEW pages, Len(pages) = total,
         NEW T, NEW g \in [1..total -> T],
         EndToEnd(g, pages, total)
  PROVE  FlattenSeq(pages) = g[total]
<1>1. g = [i \in 1..total |-> IF i = 1 THEN pages[i] ELSE g[i - 1] \o pages[i]]
  BY DEF EndToEnd
<1>2. PICK f : /\ f = [i \in 1..total |-> IF i = 1 THEN pages[i] ELSE f[i - 1] \o pages[i]]
               /\ FlattenSeq(pages) = f[total]
  BY <1>1 DEF FlattenSeq
<1> DEFINE A == {n \in Nat : n \in 1..total => f[n] = g[n]}
<1>3. 0 \in A  OBVIOUS
<1>4. ASSUME NEW n \in Nat, n \in A PROVE n + 1 \in A
  <2>1. SUFFICES ASSUME n + 1 \in 1..total PROVE f[n + 1] = g[n + 1]
    OBVIOUS
  <2>2. /\ f[n + 1] = IF n + 1 = 1 THEN pages[n + 1] ELSE f[(n + 1) - 1] \o pages[n + 1]
        /\ g[n + 1] = IF n + 1 = 1 THEN pages[n + 1] ELSE g[(n + 1) - 1] \o pages[n + 1]
    BY <1>2, <2>1 DEF EndToEnd
  <2>3. CASE n = 0
    BY <2>2, <2>3
  <2>4. CASE n # 0
    <3>1. n \in 1..total /\ (n + 1) - 1 = n /\ n + 1 # 1  BY <2>1, <2>4
    <3>2. f[n] = g[n]  BY <1>4, <3>1
    <3>. QED  BY <2>2, <3>1, <3>2
  <2>. QED  BY <2>3, <2>4
<1>5. Nat \subseteq A
  <2>. HIDE DEF A
  <2>. QED  BY <1>3, <1>4, SetInduction
<1>6. total \in 1..total => f[total] = g[total]  BY <1>5
<1>7. total \in 1..total  OBVIOUS
<1>. QED  BY <1>2, <1>6, <1>7

\* Two parts of a sequence that meet.
LEMMA Cuts ==
  ASSUME NEW S, NEW V \in Seq(S), NEW m \in Nat, NEW n \in Nat, m <= n, n <= Len(V)
  PROVE  /\ SubSeq(V, 1, m) \o SubSeq(V, m + 1, n) = SubSeq(V, 1, n)
         /\ SubSeq(V, m + 1, n) \in Seq(S)
OBVIOUS

\* A sequence cut at at[0] = 0, at[1], ..., at[total] = its length.
CutPoints(at, V, total) ==
  /\ at \in [0..total -> 0..Len(V)] /\ at[0] = 0 /\ at[total] = Len(V)
  /\ \A n \in 1..total : at[n - 1] <= at[n]

Parts(at, V, total) == [n \in 1..total |-> SubSeq(V, at[n - 1] + 1, at[n])]

LEMMA PartsMakeTheWhole ==
  ASSUME NEW S, NEW V \in Seq(S), NEW total \in Nat \ {0}, NEW at, CutPoints(at, V, total)
  PROVE  FlattenSeq(Parts(at, V, total)) = V
<1> DEFINE pages == Parts(at, V, total)
<1>. USE DEF CutPoints, Parts
<1> DEFINE g == [n \in 1..total |-> SubSeq(V, 1, at[n])]
<1>1. \A m, n \in Nat : m <= n /\ n <= Len(V) =>
        /\ SubSeq(V, 1, m) \o SubSeq(V, m + 1, n) = SubSeq(V, 1, n)
        /\ SubSeq(V, m + 1, n) \in Seq(S)
  BY Cuts
<1>2. \A n \in 1..total : /\ at[n] \in Nat /\ at[n - 1] \in Nat /\ at[n - 1] <= at[n]
                          /\ at[n] <= Len(V)
  OBVIOUS
<1>3. Len(pages) = total
  OBVIOUS
<1>4. PICK T : T = {g[n] : n \in 1..total}  OBVIOUS
<1>5. EndToEnd(g, pages, total)
  <2>1. \A i \in 1..total :
          g[i] = SubSeq(V, 1, at[i]) /\ pages[i] = SubSeq(V, at[i - 1] + 1, at[i])
    OBVIOUS
  <2>2. ASSUME NEW i \in 1..total, i # 1 PROVE g[i] = g[i - 1] \o pages[i]
    <3>1. i - 1 \in 1..total  BY <2>2
    <3>. QED  BY <1>1, <1>2, <2>1, <3>1
  <2>3. 1 \in 1..total /\ at[1 - 1] + 1 = 1  OBVIOUS
  <2>4. g[1] = pages[1]  BY <2>1, <2>3
  <2>. HIDE DEF g
  <2>. QED  BY <2>2, <2>4 DEF EndToEnd
<1>6. g[total] = V
  <2>1. SubSeq(V, 1, Len(V)) = V  OBVIOUS
  <2>. QED  BY <2>1
<1>7. g \in [1..total -> T]
  BY <1>4
<1>. HIDE DEF g, pages
<1>8. FlattenSeq(pages) = g[total]
  BY ONLY total \in Nat \ {0}, <1>3, <1>5, <1>7, Flattened
<1>. QED  BY ONLY <1>6, <1>8 DEF pages

\* The rows a SELECT orders by their ordinals: each comes once, in their order.
LEMMA RowsOrdered ==
  ASSUME NEW rows, IsFiniteSet(DOMAIN rows), \A a \in DOMAIN rows : rows[a].ordinal \in Nat,
         \A a, b \in DOMAIN rows : a # b => rows[a].ordinal # rows[b].ordinal
  PROVE  /\ InOrder(rows) \in Seq(DOMAIN rows) /\ Range(InOrder(rows)) = DOMAIN rows
         /\ \A k \in 2..Len(InOrder(rows)) :
              rows[InOrder(rows)[k - 1]].ordinal < rows[InOrder(rows)[k]].ordinal
<1>1. PICK S, f : S = DOMAIN rows /\ f = [a \in S |-> rows[a].ordinal]  OBVIOUS
<1> DEFINE rank(i) == RankBy(f, S, i)
<1>2. \A a \in S : f[a] = rows[a].ordinal /\ f[a] \in Nat  BY <1>1
<1>3. Numbers(f, S)  BY <1>1, <1>2 DEF Numbers
<1>4. PICK n \in Nat :
        /\ n = Cardinality(S) /\ \A i \in S : rank(i) \in 1..n
        /\ \A i, j \in S : f[i] < f[j] => rank(i) < rank(j)
        /\ \A k \in 1..n : \E i \in S : rank(i) = k
  <2>1. IsFiniteSet(S)  BY <1>1
  <2>2. /\ Cardinality(S) \in Nat
        /\ \A i \in S : RankBy(f, S, i) \in 1..Cardinality(S)
        /\ \A i, j \in S : f[i] < f[j] => RankBy(f, S, i) < RankBy(f, S, j)
    BY <1>3, <2>1, RanksBy
  <2>3. ASSUME NEW k \in 1..Cardinality(S) PROVE \E i \in S : RankBy(f, S, i) = k
    BY <1>3, <2>1, RanksBy
  <2>. QED  BY <2>2, <2>3
<1>5. PICK order : order = InOrder(rows)  OBVIOUS
<1>6. ASSUME NEW a \in S
      PROVE  Cardinality({b \in DOMAIN rows : rows[b].ordinal <= rows[a].ordinal}) = rank(a)
  <2>1. {b \in DOMAIN rows : rows[b].ordinal <= rows[a].ordinal} = {j \in S : f[j] <= f[a]}
    BY <1>1, <1>2
  <2>. QED  BY <2>1 DEF RankBy
<1>7. DOMAIN order = 1..n /\ \A k \in 1..n : order[k] \in S /\ rank(order[k]) = k
  <2>1. DOMAIN order = 1..n  BY <1>1, <1>4, <1>5 DEF InOrder
  <2>2. ASSUME NEW k \in 1..n PROVE order[k] \in S /\ rank(order[k]) = k
    <3>1. order[k] = CHOOSE a \in S :
                       Cardinality({b \in DOMAIN rows : rows[b].ordinal <= rows[a].ordinal}) = k
      BY <1>1, <1>4, <1>5 DEF InOrder
    <3>2. PICK a \in S : rank(a) = k  BY <1>4
    <3>. HIDE DEF rank
    <3>. QED  BY <1>6, <3>1, <3>2
  <2>. QED  BY <2>1, <2>2
<1>8. order = [k \in 1..n |-> order[k]]
  <2> DEFINE UpTo(a) == {b \in DOMAIN rows : rows[b].ordinal <= rows[a].ordinal}
             place(k) == CHOOSE a \in DOMAIN rows : Cardinality(UpTo(a)) = k
  <2>1. order = [k \in 1..n |-> place(k)]  BY <1>1, <1>4, <1>5 DEF InOrder
  <2>. HIDE DEF place
  <2>. QED  BY <2>1
<1>. HIDE DEF rank
<1>9. \A a, b \in S : rank(a) = rank(b) => a = b
  <2> SUFFICES ASSUME NEW a \in S, NEW b \in S, rank(a) = rank(b), a # b PROVE FALSE
    OBVIOUS
  <2>1. PICK x \in Nat, y \in Nat : x = f[a] /\ y = f[b]  BY <1>2
  <2>2. PICK r \in 1..n : r = rank(a) /\ r = rank(b)  BY <1>4
  <2>3. x < y \/ y < x  BY <1>3, <2>1 DEF Numbers
  <2>4. ~ (r < r)  OBVIOUS
  <2>. QED  BY <1>4, <2>1, <2>2, <2>3, <2>4
<1>10. order \in Seq(S) /\ Len(order) = n
  BY <1>7, <1>8
<1>11. Range(order) = S
  <2>2. ASSUME NEW a \in S PROVE \E k \in 1..n : order[k] = a
    <3>1. rank(a) \in 1..n /\ rank(order[rank(a)]) = rank(a)  BY <1>4, <1>7
    <3>. QED  BY <1>7, <1>9, <3>1
  <2>. QED  BY <1>7, <2>2 DEF Range
<1>12. ASSUME NEW k \in 2..n PROVE f[order[k - 1]] < f[order[k]]
  <2>1. PICK j \in 1..n : j = k - 1  BY k - 1 \in 1..n
  <2>2. k \in 1..n /\ j < k  BY <2>1
  <2>3. PICK a \in S, b \in S : a = order[j] /\ b = order[k] /\ rank(a) = j /\ rank(b) = k
    BY <1>7, <2>2
  <2>4. PICK x \in Nat, y \in Nat : x = f[a] /\ y = f[b]  BY <1>2
  <2>5. x # y  BY <1>3, <2>2, <2>3, <2>4 DEF Numbers
  <2>6. ~ (y < x)
    <3>1. y < x => k < j  BY <1>4, <2>3, <2>4
    <3>. QED  BY <2>2, <3>1
  <2>. QED  BY <2>1, <2>3, <2>4, <2>5, <2>6
<1>13. \A k \in 2..n : order[k] \in S /\ order[k - 1] \in S
  <2>1. \A k \in 2..n : k \in 1..n /\ k - 1 \in 1..n  OBVIOUS
  <2>. QED  BY <1>7, <2>1
<1>. QED  BY <1>1, <1>2, <1>5, <1>10, <1>11, <1>12, <1>13

\* The page size of a table is one of the options.
LEMMA PageSizes ==
  ASSUME NEW value \in Option \cup {0}, NEW default \in Option
  PROVE  PageSize(value, default) \in Nat \ {0}
<1>1. Option \subseteq Nat \ {0}  BY InventoryAssumption
<1>2. CASE value \in Option  BY <1>1, <1>2 DEF PageSize
<1>3. CASE value \notin Option
  <2> DEFINE nearest(o) ==
        \A q \in Option : \/ Distance(o, default) < Distance(q, default)
                          \/ Distance(o, default) = Distance(q, default) /\ o <= q
  <2>1. Distance(default, default) = 0
    BY <1>1 DEF Distance, Greater, Smaller
  <2>2. ASSUME NEW q \in Option, q # default PROVE Distance(q, default) > 0
    <3>1. PICK m \in Nat, n \in Nat : m = q /\ n = default  BY <1>1
    <3>. QED  BY <2>2, <3>1 DEF Distance, Greater, Smaller
  <2>3. nearest(default)
    <3>1. default <= default  BY <1>1
    <3>. QED  BY <2>1, <2>2, <3>1
  <2>4. PICK per : per = CHOOSE o \in Option : nearest(o)  OBVIOUS
  <2>5. PageSize(value, default) = per  BY <1>3, <2>4 DEF PageSize
  <2>6. per \in Option
    <3>. HIDE DEF nearest
    <3>. QED  BY <2>3, <2>4
  <2>. QED  BY <1>1, <2>5, <2>6
<1>. QED  BY <1>2, <1>3

\* The pages of N rows: the last ends at the last row, and begins before it.
LEMMA PagesOf ==
  ASSUME NEW N \in Nat, NEW per \in Nat \ {0}
  PROVE  LET total == TotalPages(N, per)
         IN /\ total \in Nat \ {0} /\ N <= total * per
            /\ \A n \in 1..total : n > 1 => (n - 1) * per < N
<1>1. PICK M \in Nat : M = N + per - 1  OBVIOUS
<1>2. PICK d \in Nat : d = M \div per /\ per * d <= M /\ M < per * d + per
  BY <1>1, Division
<1>3. PICK total : total = TotalPages(N, per)  OBVIOUS
<1>4. total = IF 1 <= d THEN d ELSE 1  BY <1>1, <1>2, <1>3 DEF TotalPages, Greater
<1>5. total \in Nat \ {0} /\ d <= total  BY <1>4
<1>6. N <= total * per
  <2>1. /\ per * d <= per * total /\ per * total = total * per
        /\ per * total \in Nat /\ per * d \in Nat
    BY <1>5, Product
  <2>. QED  BY <1>1, <1>2, <2>1
<1>7. ASSUME NEW n \in 1..total, n > 1 PROVE (n - 1) * per < N
  <2>1. total = d  BY <1>4, <1>7
  <2>2. PICK m \in Nat : m = n - 1 /\ m < d  BY <1>5, <1>7, <2>1
  <2>3. per * m + per <= per * d /\ per * m = m * per /\ m * per \in Nat /\ per * d \in Nat
    BY <2>2, Product
  <2>. QED  BY <1>1, <1>2, <2>2, <2>3
<1>. QED  BY <1>3, <1>5, <1>6, <1>7

\* The pages of a table show its rows, each once and in order.
LEMMA TableCovered ==
  ASSUME NEW rows, NEW hide, NEW per \in Nat \ {0},
         IsFiniteSet(DOMAIN rows), \A a \in DOMAIN rows : rows[a].ordinal \in Nat,
         \A a, b \in DOMAIN rows : a # b => rows[a].ordinal # rows[b].ordinal
  PROVE  Covered(rows, hide, per)
<1>1. PICK S : S = Shown(rows, hide)  OBVIOUS
<1>2. PICK V : V = Visible(rows, hide)  OBVIOUS
<1>3. /\ V \in Seq(S) /\ Range(V) = S
      /\ \A k \in 2..Len(V) : rows[V[k - 1]].ordinal < rows[V[k]].ordinal
  <2>1. S \subseteq DOMAIN rows /\ IsFiniteSet(S)
    <3>1. S \subseteq DOMAIN rows  BY <1>1 DEF Shown
    <3>. QED  BY <3>1, FS_Subset
  <2>2. PICK kept : kept = Restrict(rows, S)  OBVIOUS
  <2>3. DOMAIN kept = S /\ \A a \in S : kept[a] = rows[a]  BY <2>2 DEF Restrict
  <2>4. /\ \A a \in DOMAIN kept : kept[a].ordinal \in Nat
        /\ \A a, b \in DOMAIN kept : a # b => kept[a].ordinal # kept[b].ordinal
    BY <2>1, <2>3
  <2>5. V = InOrder(kept)  BY <1>1, <1>2, <2>2 DEF Visible
  <2>6. /\ V \in Seq(S) /\ Range(V) = S
        /\ \A k \in 2..Len(V) : kept[V[k - 1]].ordinal < kept[V[k]].ordinal
    BY <2>1, <2>3, <2>4, <2>5, RowsOrdered
  <2>7. \A k \in 2..Len(V) : V[k - 1] \in S /\ V[k] \in S
    <3>1. \A k \in 2..Len(V) : k - 1 \in 1..Len(V) /\ k \in 1..Len(V)  OBVIOUS
    <3>. QED  BY <2>6, <3>1
  <2>. QED  BY <2>3, <2>6, <2>7
<1>4. PICK total, shown : /\ total = TotalPages(Len(V), per)
                          /\ shown = [n \in 1..(total + 1) |-> Page(rows, hide, n, per)]
  OBVIOUS
<1>5. PICK N \in Nat : N = Len(V)  BY <1>3
<1>6. /\ total \in Nat \ {0} /\ N <= total * per
      /\ \A n \in 1..total : n > 1 => (n - 1) * per < N
  BY <1>4, <1>5, PagesOf
<1> DEFINE page(n) == SubSeq(V, Offset(n, per) + 1, Smaller(Offset(n, per) + per, N))
           at == [n \in 0..total |-> Smaller(n * per, N)]
<1>7. ASSUME NEW n \in 1..(total + 1)
      PROVE  shown[n] = page(IF n <= total THEN n ELSE total)
  <2>1. Smaller(Greater(1, n), total) = IF n <= total THEN n ELSE total
    BY <1>6 DEF Smaller, Greater
  <2>. QED  BY <1>2, <1>4, <1>5, <2>1 DEF Page
<1>8. \A n \in 1..total : shown[n] = page(n)
  <2>1. \A n \in 1..total : n \in 1..(total + 1) /\ n <= total  BY <1>6
  <2>. QED  BY <1>7, <2>1
<1>9. shown[total + 1] = shown[total]
  <2>1. /\ total + 1 \in 1..(total + 1) /\ ~ (total + 1 <= total) /\ total \in 1..total
    BY <1>6
  <2>. QED  BY <1>7, <1>8, <2>1
<1>10. \A n \in 1..total : ApiPage(rows, hide, n, per) = shown[n]
  BY <1>2, <1>5, <1>8 DEF ApiPage
<1>11. ASSUME NEW n \in Nat
       PROVE  /\ n * per \in Nat /\ Offset(n + 1, per) = n * per
              /\ (n + 1) * per = n * per + per
  <2>1. (n + 1) - 1 = n  OBVIOUS
  <2>2. n * per \in Nat /\ (n + 1) * per = n * per + per  BY Product
  <2>. QED  BY <2>1, <2>2 DEF Offset
<1>12. at \in [0..total -> 0..N]
  <2>1. ASSUME NEW n \in 0..total PROVE Smaller(n * per, N) \in 0..N
    <3>1. n \in Nat  BY <1>6
    <3>2. PICK x \in Nat : x = n * per  BY <1>11, <3>1
    <3>. QED  BY <3>2 DEF Smaller
  <2>. QED  BY <2>1
<1>13. at[0] = 0 /\ at[total] = N
  <2>1. 0 \in 0..total /\ total \in 0..total  BY <1>6
  <2>2. PICK x \in Nat : x = total * per /\ N <= x  BY <1>6, <1>11
  <2>3. 0 * per = 0  BY <1>6
  <2>. QED  BY <1>5, <2>1, <2>2, <2>3 DEF Smaller
<1>14. ASSUME NEW n \in 1..total
       PROVE  at[n - 1] <= at[n] /\ page(n) = SubSeq(V, at[n - 1] + 1, at[n])
  <2>1. PICK m \in Nat : m = n - 1 /\ n = m + 1 /\ m \in 0..total /\ n \in 0..total
    BY <1>6
  <2>2. PICK x \in Nat : /\ x = m * per /\ Offset(n, per) = x /\ n * per = x + per
    <3>1. m * per \in Nat /\ Offset(m + 1, per) = m * per /\ (m + 1) * per = m * per + per
      BY <1>11
    <3>. QED  BY <2>1, <3>1
  <2>3. x <= N
    <3>1. m = 0 => x = 0  BY <2>2
    <3>2. m # 0 => x < N  BY <1>6, <2>1, <2>2
    <3>. QED  BY <3>1, <3>2
  <2>4. at[n - 1] = x /\ at[n] = Smaller(x + per, N)
    <3>1. at[m] = Smaller(x, N) /\ at[n] = Smaller(x + per, N)  BY <2>1, <2>2
    <3>. QED  BY <2>1, <2>3, <3>1 DEF Smaller
  <2>5. x <= Smaller(x + per, N)  BY <2>3 DEF Smaller
  <2>. QED  BY <2>2, <2>4, <2>5
<1>15. FlattenSeq(SubSeq(shown, 1, total)) = V
  <2>1. PICK cuts : cuts = at  OBVIOUS
  <2>2. CutPoints(cuts, V, total)
    BY <1>5, <1>12, <1>13, <1>14, <2>1 DEF CutPoints
  <2>3. SubSeq(shown, 1, total) = Parts(cuts, V, total)
    <3>1. PICK T : T = {shown[n] : n \in 1..(total + 1)}  OBVIOUS
    <3>2. shown \in [1..(total + 1) -> T]  BY <1>4, <3>1
    <3>3. shown \in Seq(T) /\ Len(shown) = total + 1  BY <1>6, <3>2
    <3>4. SubSeq(shown, 1, total) = [n \in 1..total |-> shown[n]]  BY <1>6, <3>3
    <3>5. \A n \in 1..total : shown[n] = SubSeq(V, cuts[n - 1] + 1, cuts[n])
      BY <1>8, <1>14, <2>1
    <3>. HIDE DEF page, at
    <3>. QED  BY ONLY <3>4, <3>5 DEF Parts
  <2>4. FlattenSeq(Parts(cuts, V, total)) = V
    BY ONLY <1>3, <1>6, <2>2, PartsMakeTheWhole
  <2>. QED  BY <2>3, <2>4
<1>16. total > 1 => shown[total] # <<>>
  <2> SUFFICES ASSUME total > 1 PROVE shown[total] # <<>>
    OBVIOUS
  <2>1. PICK m \in Nat : m = total - 1 /\ total = m + 1 /\ total \in 1..total  BY <1>6
  <2>2. PICK x \in Nat : /\ x = m * per /\ Offset(total, per) = x /\ x < N
    BY <1>6, <1>11, <2>1
  <2>3. PICK y \in Nat : y = Smaller(x + per, N) /\ x < y /\ y <= N  BY <2>2 DEF Smaller
  <2>4. shown[total] = SubSeq(V, x + 1, y)  BY <1>8, <2>1, <2>2, <2>3
  <2>5. Len(SubSeq(V, x + 1, y)) = y - x  BY <1>3, <1>5, <2>3
  <2>6. Len(<<>>) = 0  OBVIOUS
  <2>7. y - x # 0  BY <2>3
  <2>. QED  BY ONLY <2>4, <2>5, <2>6, <2>7
<1>. QED
  BY <1>1, <1>2, <1>3, <1>4, <1>9, <1>10, <1>15, <1>16 DEF Covered

\* Whatever a project holds, and whether or not its empty rows are hidden, the
\* pages of its table show each row to be shown once, in order.
THEOREM PagesAlwaysCover == Spec => []PagesCover
<1>1. InventoryInv => PagesCover
  <2> SUFFICES ASSUME InventoryInv, NEW i \in DOMAIN projects, NEW hide \in BOOLEAN,
                      NEW value \in Option \cup {0}, NEW default \in Option
               PROVE  Covered(projects[i].rows, hide, PageSize(value, default))
    BY DEF PagesCover
  <2>1. PICK project : project = projects[i]  OBVIOUS
  <2>2. project \in ProjectType /\ OrdinalsApart(project)
    BY <2>1, ProjectsFacts DEF InventoryInv, ProjectsOK
  <2>3. PICK rows : rows = project.rows  OBVIOUS
  <2>4. IsFiniteSet(DOMAIN rows)
    <3>1. 2^Bits \in Nat  BY SubnetsAssumption, PowerOfTwo
    <3>2. IsFiniteSet(Address)  BY <3>1, FS_Interval DEF Address
    <3>3. DOMAIN rows \subseteq Address  BY <2>2, <2>3, ProjectFacts
    <3>. QED  BY <3>2, <3>3, FS_Subset
  <2>5. /\ \A a \in DOMAIN rows : rows[a].ordinal \in Nat
        /\ \A a, b \in DOMAIN rows : a # b => rows[a].ordinal # rows[b].ordinal
    BY <2>2, <2>3, ProjectFacts DEF OrdinalsApart
  <2>6. PICK per \in Nat \ {0} : per = PageSize(value, default)  BY PageSizes
  <2>. QED  BY <2>1, <2>3, <2>4, <2>5, <2>6, TableCovered
<1>. QED  BY <1>1, Invariance, PTL
=============================================================================
