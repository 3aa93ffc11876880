------------------------------ MODULE MCDsRouting ------------------------------
(***************************************************************************)
(* DsRouting for TLC: one request thread; the others act on the registry.  *)
(* hipBase stands for a name like hip_base, which makes the group hip.     *)
(***************************************************************************)
EXTENDS DsRouting

CONSTANTS request, master, hip, hipBase

MCThreads == {request}
MCNames == {master, hip, hipBase}
MCGroup == [n \in MCNames |-> IF n = hipBase THEN hip ELSE NoGroup]

=============================================================================
