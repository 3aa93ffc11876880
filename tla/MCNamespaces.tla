----------------------------- MODULE MCNamespaces -----------------------------
(***************************************************************************)
(* Namespaces for TLC: two requests at a time, one id and one UUID.      *)
(***************************************************************************)
EXTENDS Namespaces, TLC

CONSTANTS c1, c2, dev, paddedDev, uuid, x, y

MCClients == {c1, c2}
MCTrim == dev :> dev @@ paddedDev :> dev

=============================================================================
