----------------------------- MODULE MCDsRegistry -----------------------------
(***************************************************************************)
(* DsRegistry for TLC: two request threads and an administrator.           *)
(***************************************************************************)
EXTENDS DsRegistry

CONSTANTS r1, r2, admin, master, tenant, managed

MCThreads == {r1, r2, admin}
MCAdmins == {admin}
MCNames == {master, tenant, managed}
MCAdminNames == {master, managed}

=============================================================================
