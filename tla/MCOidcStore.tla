----------------------------- MODULE MCOidcStore -----------------------------
(* Instances of OidcStore for TLC. *)
EXTENDS OidcStore, TLC
CONSTANTS u1, app, portal
Interchangeable == Permutations(Reqs) \cup Permutations(Clients)
=============================================================================
