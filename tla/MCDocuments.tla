----------------------------- MODULE MCDocuments -----------------------------
(***************************************************************************)
(* Documents for TLC: classes with an annotated field, whose key is of its *)
(* own or its name in upper case, one whose field has the name of another  *)
(* one's key, and one whose fields differ in case.                         *)
(***************************************************************************)
EXTENDS Documents

CONSTANTS c1, v1, v2

\* Edits make every object reachable, so one client stands for many.
MCClients == {c1}
MCNames == {"id", "ID", "_id", "name"}
MCLower == [n \in MCNames |-> IF n = "ID" THEN "id" ELSE n]
MCValues == {v1, v2}

Plain(name) == [name |-> name, key |-> name]
Stored(name, key) == [name |-> name, key |-> key]

Aliased == << Stored("id", "_id"), Plain("name") >>
Cased == << Stored("id", "ID"), Plain("name") >>
Crossed == << Stored("name", "id"), Plain("id") >>
CaseOnly == << Plain("id"), Plain("ID") >>

MCClasses == {Aliased, Cased, Crossed, CaseOnly}

=============================================================================
