-------------------------- MODULE MCFlattenReverts --------------------------
(***************************************************************************)
(* FlattenReverts on blocks of any number of checkpoints, flattened after  *)
(* every checkpoint or after every two.                                    *)
(***************************************************************************)
EXTENDS FlattenReverts

CONSTANTS s1, s2, i1, i2

Storage(x, y) == (s1 :> x) @@ (s2 :> y)

\* An account that does not exist yet, one as loaded, and two changed ones.
MCAccount ==
  { [info |-> NoAccount, storage |-> Storage(0, 0), status |-> "LoadedNotExisting"],
    [info |-> i1, storage |-> Storage(0, 0), status |-> "Loaded"],
    [info |-> i1, storage |-> Storage(0, 1), status |-> "Changed"],
    [info |-> i2, storage |-> Storage(1, 0), status |-> "Changed"] }
=============================================================================
