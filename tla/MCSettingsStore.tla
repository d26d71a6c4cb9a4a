--------------------------- MODULE MCSettingsStore ---------------------------
(* Small instances of SettingsStore for TLC. *)
EXTENDS SettingsStore, TLC

CONSTANTS a1, a2, cli

\* One group of each kind: one whose values every save may take, and the one
\* with the import limit, whose largest value lies above the cap.
TwoFields == {"page_size", "csv_import_max_bytes"}
Grouped == [f \in TwoFields |-> IF f = "page_size" THEN "interface" ELSE "limits"]
AllValid == [f \in TwoFields |-> Value]

Administrators == Permutations(Admin)

\* bound: four saves after the first import with one version of the token, or one
\* save with three, so that a rollback can undo two saves and two rotations can
\* follow each other
FewWrites == credential.version <= 1 \/ row.revision <= MaxRevision - 3
=============================================================================
