------------------------------ MODULE Namespaces ------------------------------
(***************************************************************************)
(* The namespaces of the Nacos console.                                    *)
(*                                                                         *)
(* Both console APIs work on one table, tenant_info, through the same      *)
(* NamespaceOperationService and without a lock or a transaction; several  *)
(* servers may share the table.  Every statement that reaches the database *)
(* is one action.  Creating a namespace counts first and inserts then: two *)
(* creations of one id may both find nothing, and the unique key of the    *)
(* table has to tell them apart.                                           *)
(***************************************************************************)
EXTENDS Naturals

CONSTANTS
    Clients,   \* console requests that are served at the same time
    Ids,       \* the ids clients send, without blanks around them
    Padded,    \* the same ids with a blank in front
    Trim,      \* String.trim
    Uuids,     \* what UUID.randomUUID makes of a blank id
    Titles,    \* namespace names
    NoRow, NoKey

Keys == Ids \cup Padded \cup Uuids

ASSUME TrimAssumption ==
    /\ Trim \in [Ids \cup Padded -> Ids]
    /\ \A i \in Ids : Trim[i] = i
    /\ Padded \cap Uuids = {}
    /\ NoKey \notin Keys

Apis == {"v1", "v2"}

(* A row, and the client that has inserted it (auxiliary).                 *)
Row == [title: Titles, by: Clients]

(* A creation on its way through createNamespace, and its local variables. *)
Creation == [api: Apis, key: Keys, title: Titles, at: {"count", "insert"}]

(* The last call of a client that has ended: what it was told (the answers *)
(* true and false, the errors of v2, HTTP 500), and whether its statement  *)
(* has changed a row (auxiliary).                                          *)
Ops == {"create", "edit", "remove", "look"}
Call == [op: Ops,
         answer: {"true", "false", "exists", "illegal", "notFound", "error"},
         changed: BOOLEAN]

ASSUME NothingAssumption == NoRow \notin Row \cup Clients

VARIABLES
    table,     \* tenant_info, by tenant_id
    call       \* the creation a client waits for, or its last call

vars == <<table, call>>

TypeOK ==
    /\ table \in [Keys -> Row \cup {NoRow}]
    /\ call \in [Clients -> Creation \cup Call]

Init ==
    /\ table = [k \in Keys |-> NoRow]
    /\ call = [c \in Clients |-> [op |-> "look", answer |-> "false", changed |-> FALSE]]

Exists(k) == table[k] # NoRow
Idle(c) == call[c] \in Call
At(c, step) == ~Idle(c) /\ call[c].at = step

Tell(c, op, answer, changed) ==
    call' = [call EXCEPT ![c] = [op |-> op, answer |-> answer, changed |-> changed]]

-----------------------------------------------------------------------------
(* createNamespace of the controllers.                                     *)

Start(c, a, k, n) ==
    call' = [call EXCEPT ![c] = [api |-> a, key |-> k, title |-> n, at |-> "count"]]

Unused(u) == ~Exists(u) /\ \A c \in Clients : ~Idle(c) => call[c].key # u

(* Mutant: the id is checked after trim(), but the trimmed one is not kept.*)
CreateUntrimmed(c, a, n) ==
    /\ Idle(c)
    /\ \/ \E k \in Ids \cup Padded : Start(c, a, k, n)
       \/ \E u \in Uuids : Unused(u) /\ Start(c, a, u, n)
    /\ UNCHANGED table

(* Mutant: a blank id is not replaced by a UUID.                           *)
CreateKeepsBlank(c, a, n) ==
    /\ Idle(c)
    /\ \/ \E k \in Ids \cup Padded : Start(c, a, Trim[k], n)
       \/ Start(c, a, NoKey, n)
    /\ UNCHANGED table

(* The id is trimmed, or it is blank and becomes a random one.             *)
Create(c, a, n) ==
    /\ Idle(c)
    /\ \/ \E k \in Ids \cup Padded : Start(c, a, Trim[k], n)
       \/ \E u \in Uuids : Unused(u) /\ Start(c, a, u, n)
    /\ UNCHANGED table

(* A NacosException: v1 says false, the exception handler of v2 what it is.*)
Refusal(a, what) == IF a = "v1" THEN "false" ELSE what

(* The id has forbidden characters or is too long.                         *)
CreateIllegal(c, a) ==
    /\ Idle(c)
    /\ Tell(c, "create", Refusal(a, "illegal"), FALSE)
    /\ UNCHANGED table

(* A parameter is missing: NamespaceForm.validate or Spring refuses it; the *)
(* handler of v1 makes an internal error of every exception.               *)
Invalid(c, a, op) ==
    /\ Idle(c)
    /\ Tell(c, op, IF a = "v1" THEN "error" ELSE "illegal", FALSE)
    /\ UNCHANGED table

EndCreation(c, answer, changed) == Tell(c, "create", answer, changed)

(* tenantInfoCountByTenantId.                                              *)
Count(c) ==
    /\ At(c, "count")
    /\ IF Exists(call[c].key)
         THEN EndCreation(c, Refusal(call[c].api, "exists"), FALSE)
         ELSE call' = [call EXCEPT ![c].at = "insert"]
    /\ UNCHANGED table

InsertRow(c) ==
    table' = [table EXCEPT ![call[c].key] = [title |-> call[c].title, by |-> c]]

(* Mutant: the table has no unique key (kp, tenant_id).                    *)
InsertAnyway(c) ==
    /\ At(c, "insert")
    /\ InsertRow(c)
    /\ EndCreation(c, "true", TRUE)

(* insertTenantInfoAtomic: the unique key lets the first one through.      *)
Insert(c) ==
    /\ At(c, "insert")
    /\ IF Exists(call[c].key)
         THEN EndCreation(c, "error", FALSE) /\ UNCHANGED table
         ELSE EndCreation(c, "true", TRUE) /\ InsertRow(c)

(* The connection breaks after the row was committed.                      *)
InsertUnconfirmed(c) ==
    /\ At(c, "insert") /\ ~Exists(call[c].key)
    /\ InsertRow(c)
    /\ EndCreation(c, "error", TRUE)

(* The database cannot be reached, or the server dies.                     *)
Breaks(c) ==
    /\ ~Idle(c)
    /\ EndCreation(c, "error", FALSE)
    /\ UNCHANGED table

-----------------------------------------------------------------------------
(* The operations of one statement.  None of them trims the id.            *)

(* An update or a removal that was done may still be answered by an error. *)
TellDone(c, op, changed) ==
    \E what \in {"true", "error"} : Tell(c, op, what, changed)

Edit(c, k, n) ==
    /\ Idle(c)
    /\ table' = IF Exists(k) THEN [table EXCEPT ![k].title = n] ELSE table
    /\ TellDone(c, "edit", Exists(k))

Remove(c, k) ==
    /\ Idle(c)
    /\ table' = [table EXCEPT ![k] = NoRow]
    /\ TellDone(c, "remove", Exists(k))

CheckNamespaceIdExist(c, k) ==
    /\ Idle(c)
    /\ Tell(c, "look", IF Exists(k) THEN "true" ELSE "false", FALSE)
    /\ UNCHANGED table

(* For v1 the NacosException is an internal error.  A blank id stands for  *)
(* the public namespace, which has no row: it is no key here.              *)
GetNamespace(c, a, k) ==
    /\ Idle(c)
    /\ Tell(c, "look",
            IF Exists(k) THEN "true" ELSE IF a = "v1" THEN "error" ELSE "notFound", FALSE)
    /\ UNCHANGED table

(* The database cannot be reached.                                         *)
StatementFails(c, op) ==
    /\ Idle(c)
    /\ Tell(c, op, "error", FALSE)
    /\ UNCHANGED table

-----------------------------------------------------------------------------

Step(c) == Count(c) \/ Insert(c) \/ InsertUnconfirmed(c) \/ Breaks(c)

Next ==
    \E c \in Clients :
        \/ Step(c)
        \/ \E a \in Apis : CreateIllegal(c, a) \/ \E n \in Titles : Create(c, a, n)
        \/ \E a \in Apis, op \in Ops : Invalid(c, a, op)
        \/ \E op \in {"edit", "remove", "look"} : StatementFails(c, op)
        \/ \E k \in Keys :
             \/ \E n \in Titles : Edit(c, k, n)
             \/ Remove(c, k) \/ CheckNamespaceIdExist(c, k)
             \/ \E a \in Apis : GetNamespace(c, a, k)

Spec == Init /\ [][Next]_vars

-----------------------------------------------------------------------------

(* Only trimmed ids get into the table, whatever the path: an id with a    *)
(* blank is never there to be found, edited or removed.                    *)
OnlyTrimmedIds == \A k \in Padded \ Ids : ~Exists(k)

(* What a client of NamespaceStore sees of the table and of its calls.     *)
Owner == [k \in Keys |-> IF Exists(k) THEN table[k].by ELSE NoRow]

Asking == [c \in Clients |-> IF Idle(c) THEN NoKey ELSE call[c].key]

ToldBy(last) ==
    IF last \notin Call \/ last.op # "create" THEN "nothing"
    ELSE CASE last.answer = "true"                   -> "created"
           [] last.answer = "error"                  -> "failed"
           [] last.answer \notin {"true", "error"}   -> "refused"

Store == INSTANCE NamespaceStore WITH
    NoOwner <- NoRow, owner <- Owner, asking <- Asking,
    told <- [c \in Clients |-> ToldBy(call[c])]

(* Counting first and inserting then, with the unique key of the table,    *)
(* implements a creation that happens at once.                             *)
CreatesAtOnce == Store!Spec

(* It follows that a namespace belongs to the one request that has created *)
(* it: no other creation that found the id free at the same time overwrites*)
(* its row.                                                                *)
RowsHaveOneCreator ==
    [][\A k \in Keys : Exists(k) /\ table'[k] # NoRow =>
          table'[k].by = table[k].by]_vars

(* The answer of a creation is what has happened: true if and only if it   *)
(* has inserted the row.  Only after an error the client has to look.      *)
CreateTellsTheTruth ==
    \A c \in Clients : Idle(c) /\ call[c].op = "create" /\ call[c].answer # "error" =>
        (call[c].answer = "true" <=> call[c].changed)

=============================================================================
