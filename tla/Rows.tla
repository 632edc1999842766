-------------------------------- MODULE Rows --------------------------------
(***************************************************************************)
(* The data that Table and Storage have in common: the keys and contents   *)
(* of the rows of the planes' file, and how sto_set compares keys.         *)
(***************************************************************************)
EXTENDS Integers, Sequences

CONSTANTS
  Proc,       \* the processes that use the table
  Key,        \* the identifiers of planes
  EmptyKey,   \* an all-zero identifier: sto_set matches it with any row
  Val,        \* the rest of a plane's record
  None        \* no datum

ASSUME KeyAssumption == EmptyKey \notin Key

(***************************************************************************)
(* A row's data is a struct atc_plane.  `down' abstracts its status:       *)
(* crashed or landed.  A plane without identifier is a zeroed record, whose *)
(* status reads as landed.                                                 *)
(***************************************************************************)
Datum == {d \in [key : Key \cup {EmptyKey}, val : Val, down : BOOLEAN] :
            d.key = EmptyKey => d.down}

ASSUME NoneAssumption == None \notin Datum

(* No scan in progress, where a scan's cursor is expected. *)
NoScan == -1

(* Mutant: the comparison the wrong way round, as in _get_by_id. *)
Differs(stored, key) == key # stored

(* strncmp(tmp_key, key, strlen(key)) == 0: the empty key matches any row. *)
Matches(stored, key) == key = stored \/ key = EmptyKey

=============================================================================
