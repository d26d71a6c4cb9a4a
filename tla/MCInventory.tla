------------------------------ MODULE MCInventory ------------------------------
(* Small instances of Inventory for TLC. *)
EXTENDS Inventory

\* Fields of two characters: a formula gets a quote, and a text cut to its limit
\* may end in a space, which the cells of a file lose.
Quoted(text) ==
  CASE text = "=" -> "'=" [] text = "= " -> "'= " [] text = "=x" -> "'=x" [] OTHER -> text

Trimmed(text) == CASE text = "= " -> "=" [] text = "'= " -> "'=" [] OTHER -> text

\* A header and each row of a project are one, a row with text is two.
Bytes(file) == Len(file) + Cardinality({i \in DOMAIN file : file[i].text # ""})

\* What an older release may have left: a network no larger than a project, among
\* the lower half of the addresses.
SmallNetworks ==
  {net \in Network : Size(net.prefix) <= MaxProjectAddresses /\ net.base < Size(1)}

\* Bound: at most two rows have a text at a time.
FewTexts ==
  Cardinality({<<i, a>> \in Id \X Address :
    i \in DOMAIN projects /\ a \in DOMAIN projects[i].rows /\ projects[i].rows[a].text # ""}) <= 2
=============================================================================
