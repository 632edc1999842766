-------------------------------- MODULE Zone --------------------------------
(* The parameters of a shared memory connection (transport/shmem/shmem.c). *)
EXTENDS Integers, Sequences

CONSTANTS
  ZONE_SIZE,   \* how many bytes there are for each direction
  Byte         \* what a byte may be

ASSUME ZoneAssumption == ZONE_SIZE \in Nat \ {0}

=============================================================================
