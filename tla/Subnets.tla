-------------------------------- MODULE Subnets --------------------------------
(***************************************************************************)
(* IPv4 networks, the addresses a project has of one, and the reading of a *)
(* file of addresses (app/services/network.py, csv_io.py).  An address is  *)
(* its number; Bits is 32 in the program.                                  *)
(***************************************************************************)
EXTENDS Integers, Sequences, FiniteSets

CONSTANTS
  Bits,                \* bits of an address
  Text,                \* hostname, os, type and comment of a row, "" among them
  TooLong,             \* the same with a field beyond its limit (FIELD_LIMITS)
  Stripped(_),         \* _cell_text
  MaxProjectAddresses  \* max_project_addresses

ASSUME SubnetsAssumption ==
  /\ Bits \in Nat \ {0} /\ "" \in Text /\ MaxProjectAddresses \in Nat \ {0}
  /\ Text \cap TooLong = {} /\ Stripped("") = ""
  /\ \A text \in Text \cup TooLong : Stripped(text) \in Text \cup TooLong

Address == 0..(2^Bits - 1)
Size(prefix) == 2^(Bits - prefix)

\* ip_network(strict=False): host bits are cleared.
NetworkOf(address, prefix) ==
  [base |-> address - (address % Size(prefix)), prefix |-> prefix]

Network == {NetworkOf(a, p) : a \in Address, p \in 0..Bits}
Members(net) == net.base..(net.base + Size(net.prefix) - 1)

\* Mutant: a /31 and a /32 reserve their ends too.
ReservedAlways(net) == {net.base, net.base + Size(net.prefix) - 1}

\* reserved_project_addresses: none for /31 and /32.
Reserved(net) ==
  IF net.prefix >= Bits - 1 THEN {} ELSE {net.base, net.base + Size(net.prefix) - 1}

\* network.hosts() of the library, whose /31 and /32 have all their addresses.
Hosts(net) ==
  IF net.prefix >= Bits - 1 THEN Members(net)
  ELSE (net.base + 1)..(net.base + Size(net.prefix) - 2)

\* The place of an address among the hosts, from 1 (iter_project_addresses).
Ordinal(net, address) == Cardinality({a \in Hosts(net) : a <= address})

Lowest(S) == CHOOSE a \in S : \A b \in S : a <= b
Highest(S) == CHOOSE a \in S : \A b \in S : b <= a

\* Mutant: the bit that differs is taken for the number of bits.
BitLengthShort(a, b) ==
  LET bits == {i \in 0..(Bits - 1) : (a \div 2^i) % 2 # (b \div 2^i) % 2}
  IN IF bits = {} THEN 0 ELSE Highest(bits)

\* (a ^ b).bit_length()
BitLength(a, b) ==
  LET bits == {i \in 0..(Bits - 1) : (a \div 2^i) % 2 # (b \div 2^i) % 2}
  IN IF bits = {} THEN 0 ELSE Highest(bits) + 1

\* _smallest_network
SmallestNetwork(addresses) ==
  NetworkOf(Lowest(addresses), Bits - BitLength(Lowest(addresses), Highest(addresses)))
-----------------------------------------------------------------------------
(* A file: a sequence of rows [address, text].                             *)

NoAddress == 0 - 1
Blank == [address |-> NoAddress, text |-> ""]
Header == [address |-> 0 - 2, text |-> ""]     \* EXPORT_COLUMNS
FileRow == [address : Address \cup {NoAddress}, text : Text \cup TooLong] \cup {Header}

\* The cells of a row without the space around them.
Cells(row) == [row EXCEPT !.text = Stripped(@)]

\* _mapped_rows: blank rows are passed over, and a header if it comes first.
Mapped(file) ==
  LET kept == {i \in DOMAIN file : Cells(file[i]) # Blank}
      filled == [k \in 1..Cardinality(kept) |->
                   Cells(file[CHOOSE i \in kept : Cardinality({j \in kept : j <= i}) = k])]
  IN IF filled # <<>> /\ filled[1] = Header THEN Tail(filled) ELSE filled

AddressesOf(rows) == {rows[i].address : i \in DOMAIN rows}

\* Mutant: the network and broadcast addresses may be in the file.
NoReservedAny(rows) == TRUE
NoReserved(rows) == AddressesOf(rows) \cap Reserved(SmallestNetwork(AddressesOf(rows))) = {}

\* Mutant: a field is cut to its limit by the database, not checked.
WithinAny(rows) == TRUE

\* FIELD_LIMITS
WithinLimits(rows) == \A i \in DOMAIN rows : rows[i].text \notin TooLong

\* What _parse_import_rows and normalize_cidr let through.
Importable(rows) ==
  /\ rows # <<>> /\ Len(rows) <= MaxProjectAddresses
  /\ AddressesOf(rows) \subseteq Address
  /\ Cardinality(AddressesOf(rows)) = Len(rows)
  /\ WithinLimits(rows)
  /\ Size(SmallestNetwork(AddressesOf(rows)).prefix) <= MaxProjectAddresses
  /\ NoReserved(rows)

\* CSVImportResult: the network, and the text of each address.
Parsed(rows) ==
  [cidr |-> SmallestNetwork(AddressesOf(rows)),
   texts |-> [a \in AddressesOf(rows) |->
                rows[CHOOSE i \in DOMAIN rows : rows[i].address = a].text]]
=============================================================================
