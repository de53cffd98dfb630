----------------------------- MODULE MCKeyStore -----------------------------
(***************************************************************************)
(* Instances of KeyStore for TLC.  Keys are random, so they are symmetric.  *)
(***************************************************************************)
EXTENDS KeyStore, TLC

Symmetry == Permutations(Keys) \cup Permutations(Tools)
=============================================================================
