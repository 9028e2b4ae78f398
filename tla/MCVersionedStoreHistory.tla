---------------------- MODULE MCVersionedStoreHistory -----------------------
(***************************************************************************)
(* The instances of MCVersionedStore with the history variables added.     *)
(***************************************************************************)
EXTENDS MCVersionedStore, VersionedStoreHistory

\* The two clients of the new build are alike.
ClientSymmetry == Permutations({a1, a2})
=============================================================================
