------------------------------- MODULE Records -------------------------------
(***************************************************************************)
(* What MyServiceImpl and the field filling make of a table.               *)
(*                                                                         *)
(* A call becomes a list of statements.  The batches collect them in a     *)
(* session of type BATCH and send them in slices; saveOrUpdate decides by  *)
(* a select which statement to send.  The overrides of MyServiceImpl carry *)
(* no @Transactional, so whether a call has a transaction is the caller's  *)
(* affair: without one every statement is final when it is executed.       *)
(*                                                                         *)
(* The database (external) executes one statement at a time, makes those   *)
(* of a transaction visible at its end, and lets a writer wait for the row *)
(* of another transaction until it gives up.  Reads are read committed.    *)
(* Rows are identified by the id the caller gives: an entity without one   *)
(* is inserted under a new id that nobody else knows.                      *)
(***************************************************************************)
EXTENDS Integers, Sequences

CONSTANTS
    Clients,    \* threads that call a service
    User,       \* the name in their SecurityContext, NoName if there is none
    Keys,       \* ids, of all tables
    Audited,    \* ids of the tables with logical delete and filled fields;
                \* the other tables have neither
    Names, NoName,
    Requests,   \* the calls that are made
    MaxCalls,   \* the number of calls of one client (bound)
    NoRow, Clean, NoAnswer

Singles == {"save", "updateById", "saveOrUpdate", "removeById"}
(* MyBaseMapper offers the same batches as insertBatch, updateBatchById    *)
(* and insertOrUpdateBatch, through Db.                                    *)
Batches == {"saveBatch", "updateBatchById", "saveOrUpdateBatch", "removeByIds"}

(* A call: the ids of its entities in order (none: a null entity or an     *)
(* empty list), the createBy and updateBy set by hand in them, the batch   *)
(* size, and whether the caller has a transaction.                         *)
Request == [op: Singles \cup Batches, list: Seq(Keys),
            manual: Names \cup {NoName}, size: Nat \ {0}, tx: BOOLEAN]

Elements(s) == {s[i] : i \in DOMAIN s}

ASSUME RequestAssumption ==
    /\ User \in [Clients -> Names \cup {NoName}]
    /\ Audited \subseteq Keys
    /\ NoName \notin Names
    /\ Requests \subseteq Request
    /\ \A r \in Requests :
         /\ r.op \in Singles => Len(r.list) \leq 1
         /\ r.list = << >> => r.op \in Batches \cup {"saveOrUpdate"}
         /\ Elements(r.list) \subseteq Audited \/ Elements(r.list) \cap Audited = {}
    /\ MaxCalls \in Nat

(* A row; `inserted` is the client that has inserted it, `by` and `wrote`  *)
(* tell the last statement on it (auxiliary).                              *)
Row == [createBy: Names \cup {NoName}, updateBy: Names \cup {NoName},
        deleted: BOOLEAN, inserted: Clients,
        by: Clients, wrote: {"insert", "update", "remove"}]

Statement == [kind: {"insert", "update", "remove"}, keys: SUBSET Keys,
              createBy: Names \cup {NoName}, updateBy: Names \cup {NoName}]

Errors == {"duplicate", "database"}

ASSUME NothingAssumption ==
    /\ NoRow \notin Row /\ Clean \notin Row \cup {NoRow}
    /\ NoAnswer \notin {"true", "false"} \cup Errors \cup Request

VARIABLES
    table,     \* the rows, uncommitted statements included
    undo,      \* the row a transaction found, for each row it has changed
    request,   \* the call of a client, kept when it has ended
    at,        \* "idle", "accept", "flush" or "end"
    rest,      \* ids not yet accepted
    pending,   \* statements of the session not yet executed
    changed,   \* ids of the rows the statements of the call have found
    error,     \* the exception on its way out
    answer,    \* what the call returned or threw
    calls      \* calls begun (bounded by MaxCalls)

vars == <<table, undo, request, at, rest, pending, changed, error, answer, calls>>

TypeOK ==
    /\ table \in [Keys -> Row \cup {NoRow}]
    /\ undo \in [Clients -> [Keys -> Row \cup {NoRow, Clean}]]
    /\ request \in [Clients -> Requests \cup {NoAnswer}]
    /\ at \in [Clients -> {"idle", "accept", "flush", "end"}]
    /\ rest \in [Clients -> Seq(Keys)]
    /\ pending \in [Clients -> Seq(Statement)]
    /\ changed \in [Clients -> SUBSET Keys]
    /\ error \in [Clients -> Errors \cup {NoAnswer}]
    /\ answer \in [Clients -> {"true", "false", NoAnswer} \cup Errors]
    /\ calls \in [Clients -> 0 .. MaxCalls]

(* What earlier statements may have left; who made them does not matter.   *)
Nameless == {c \in Clients : User[c] = NoName}

Rows(k) ==
    {NoRow} \cup
    {r \in [createBy : {NoName}, updateBy : {NoName}, deleted : BOOLEAN,
            inserted : Nameless, by : Nameless, wrote : {"insert", "remove"}] :
        /\ r.inserted = r.by
        /\ r.deleted => k \in Audited
        /\ r.deleted <=> r.wrote = "remove"}

Init ==
    /\ table \in [Keys -> UNION {Rows(k) : k \in Keys}]
    /\ \A k \in Keys : table[k] \in Rows(k)
    /\ undo = [c \in Clients |-> [k \in Keys |-> Clean]]
    /\ request = [c \in Clients |-> NoAnswer]
    /\ at = [c \in Clients |-> "idle"]
    /\ rest = [c \in Clients |-> << >>]
    /\ pending = [c \in Clients |-> << >>]
    /\ changed = [c \in Clients |-> {}]
    /\ error = [c \in Clients |-> NoAnswer]
    /\ answer = [c \in Clients |-> NoAnswer]
    /\ calls = [c \in Clients |-> 0]

-----------------------------------------------------------------------------
(* MybatisPlusMetaObjectHandler.                                           *)

(* fillValIfNullByName: a value set by hand stays, unless it is covered.   *)
Fill(value, userName, isCover) ==
    IF value # NoName /\ ~isCover THEN value ELSE userName

(* Mutant: the fields get the principal instead of its name.               *)
InsertFillPrincipal(c, k) ==
    [kind |-> "insert", keys |-> {k}, createBy |-> c, updateBy |-> c]

(* Fills run on the tables that ask for them.                              *)
InsertFill(c, k) ==
    LET m == request[c].manual
        name == IF k \in Audited THEN Fill(m, User[c], FALSE) ELSE m
    IN  [kind |-> "insert", keys |-> {k}, createBy |-> name, updateBy |-> name]

(* Mutant: a name set by hand is kept on updates as well.                  *)
UpdateFillKeeps(c, k) ==
    LET m == request[c].manual
    IN  [kind |-> "update", keys |-> {k}, createBy |-> m,
         updateBy |-> IF k \in Audited THEN Fill(m, User[c], FALSE) ELSE m]

UpdateFill(c, k) ==
    LET m == request[c].manual
    IN  [kind |-> "update", keys |-> {k}, createBy |-> m,
         updateBy |-> IF k \in Audited THEN Fill(m, User[c], TRUE) ELSE m]

(* A new instance that has its id and the filled updateBy only: on a table *)
(* with logical delete a removal is an update.                             *)
RemoveFilled(c, k) ==
    [kind |-> "remove", keys |-> {k}, createBy |-> NoName,
     updateBy |-> IF k \in Audited THEN Fill(NoName, User[c], TRUE) ELSE NoName]

-----------------------------------------------------------------------------
(* The database, as the code uses it (external).                           *)

(* What others see of a row.                                               *)
Committed(k) ==
    IF \E c \in Clients : undo[c][k] # Clean
      THEN undo[CHOOSE c \in Clients : undo[c][k] # Clean][k]
      ELSE table[k]

(* What a client sees: its own statements too.  Logically deleted rows are *)
(* left out of every select and update.                                    *)
Sees(c, k) ==
    LET row == IF undo[c][k] # Clean THEN table[k] ELSE Committed(k)
    IN  row # NoRow /\ ~row.deleted

(* A statement finds the row: the number of such rows is what the driver   *)
(* reports.                                                                *)
Hits(s, row) == s.kind = "insert" \/ (row # NoRow /\ ~row.deleted)

(* The row a statement leaves; an update sets the columns that are given.  *)
After(c, s, row) ==
    LET filled == s.keys \subseteq Audited
        set(old, new) == IF new = NoName THEN old ELSE new
    IN  CASE s.kind = "insert" ->
               [createBy |-> s.createBy, updateBy |-> s.updateBy,
                deleted |-> FALSE, inserted |-> c, by |-> c, wrote |-> "insert"]
          [] s.kind = "update" /\ Hits(s, row) ->
               [row EXCEPT !.createBy = set(@, s.createBy),
                           !.updateBy = IF filled THEN s.updateBy
                                                  ELSE set(@, s.updateBy),
                           !.by = c, !.wrote = "update"]
          [] s.kind = "remove" /\ Hits(s, row) ->
               IF filled THEN [row EXCEPT !.deleted = TRUE, !.by = c,
                                 !.updateBy = s.updateBy, !.wrote = "remove"]
                         ELSE NoRow
          [] ~Hits(s, row) -> row

(* No other transaction holds a row of the statement.                      *)
Unlocked(c, s) ==
    \A k \in s.keys, d \in Clients \ {c} : undo[d][k] = Clean

-----------------------------------------------------------------------------

(* removeByIds on a table without logical delete.                          *)
OneStatement(r) == r.op = "removeByIds" /\ Elements(r.list) \cap Audited = {}

(* A call: batches go element by element, and an empty one is answered at  *)
(* once.                                                                   *)
Begin(c) ==
    /\ at[c] = "idle" /\ calls[c] < MaxCalls
    /\ \E r \in Requests :
         LET atOnce == OneStatement(r)
             empty == r.list = << >>
         IN  /\ request' = [request EXCEPT ![c] = r]
             /\ at' = [at EXCEPT ![c] = IF empty THEN "idle"
                                        ELSE IF atOnce THEN "flush" ELSE "accept"]
             /\ answer' = [answer EXCEPT ![c] = IF empty THEN "false" ELSE NoAnswer]
             /\ rest' = [rest EXCEPT ![c] = IF atOnce THEN << >> ELSE r.list]
             /\ pending' = [pending EXCEPT ![c] =
                    IF atOnce /\ ~empty
                      THEN << [kind |-> "remove", keys |-> Elements(r.list),
                               createBy |-> NoName, updateBy |-> NoName] >>
                      ELSE << >>]
    /\ changed' = [changed EXCEPT ![c] = {}]
    /\ error' = [error EXCEPT ![c] = NoAnswer]
    /\ calls' = [calls EXCEPT ![c] = @ + 1]
    /\ UNCHANGED <<table, undo>>

(* Mutant: saveOrUpdate updates whatever has an id.                        *)
AlwaysUpdates(c, k) ==
    CASE request[c].op \in {"save", "saveBatch"} -> InsertFill(c, k)
      [] request[c].op \in {"removeById", "removeByIds"} -> RemoveFilled(c, k)
      [] OTHER -> UpdateFill(c, k)

(* The statement for an entity; saveOrUpdate selects it first.             *)
StatementFor(c, k) ==
    CASE request[c].op \in {"save", "saveBatch"} -> InsertFill(c, k)
      [] request[c].op \in {"updateById", "updateBatchById"} -> UpdateFill(c, k)
      [] request[c].op \in {"removeById", "removeByIds"} -> RemoveFilled(c, k)
      [] request[c].op \in {"saveOrUpdate", "saveOrUpdateBatch"} ->
           IF Sees(c, k) THEN UpdateFill(c, k) ELSE InsertFill(c, k)

(* Mutant: the slices are one longer than batchSize.                       *)
FlushesLate(c) ==
    \/ Len(pending'[c]) > request[c].size
    \/ rest'[c] = << >>
    \/ request[c].op = "saveOrUpdateBatch"

(* executeBatch flushes after every slice and after the last element; the  *)
(* select of saveOrUpdateBatch flushes what came before it.                *)
Flushes(c) ==
    \/ Len(pending'[c]) = request[c].size
    \/ rest'[c] = << >>
    \/ request[c].op = "saveOrUpdateBatch"

Accept(c) ==
    /\ at[c] = "accept" /\ rest[c] # << >>
    /\ pending' = [pending EXCEPT ![c] = Append(@, StatementFor(c, Head(rest[c])))]
    /\ rest' = [rest EXCEPT ![c] = Tail(@)]
    /\ at' = [at EXCEPT ![c] = IF Flushes(c) THEN "flush" ELSE "accept"]
    /\ UNCHANGED <<table, undo, request, changed, error, answer, calls>>

(* After a statement: the slice goes on, then the next one, then the end;  *)
(* an exception leaves the loop.                                           *)
Proceed(c) ==
    CASE pending'[c] # << >> -> "flush"
      [] pending'[c] = << >> /\ (error'[c] # NoAnswer \/ rest[c] = << >>) -> "end"
      [] pending'[c] = << >> /\ error'[c] = NoAnswer /\ rest[c] # << >> -> "accept"

(* A statement is executed.  Without a transaction it is final, with one   *)
(* the rows it found are kept and locked.                                  *)
Execute(c) ==
    /\ at[c] = "flush"
    /\ LET s == Head(pending[c])
           found == {k \in s.keys : Hits(s, table[k])}
       IN  /\ Unlocked(c, s)
           /\ s.kind = "insert" => \A k \in s.keys : table[k] = NoRow
           /\ table' = [k \in Keys |-> IF k \in s.keys THEN After(c, s, table[k])
                                                      ELSE table[k]]
           /\ changed' = [changed EXCEPT ![c] = @ \cup found]
           /\ undo' = [undo EXCEPT ![c] =
                [k \in Keys |-> IF request[c].tx /\ @[k] = Clean /\ k \in found
                                  THEN table[k] ELSE @[k]]]
    /\ pending' = [pending EXCEPT ![c] = Tail(@)]
    /\ error' = error
    /\ at' = [at EXCEPT ![c] = Proceed(c)]
    /\ UNCHANGED <<request, rest, answer, calls>>

(* A statement fails; whether the rest of its slice is still executed is   *)
(* the JDBC driver's choice.                                               *)
Throw(c, e) ==
    /\ error' = [error EXCEPT ![c] = e]
    /\ pending' \in {[pending EXCEPT ![c] = Tail(@)], [pending EXCEPT ![c] = << >>]}
    /\ at' = [at EXCEPT ![c] = Proceed(c)]
    /\ UNCHANGED <<table, undo, request, rest, changed, answer, calls>>

(* The id is taken, by a deleted row perhaps.                              *)
Duplicate(c) ==
    /\ at[c] = "flush"
    /\ LET s == Head(pending[c])
       IN  /\ Unlocked(c, s)
           /\ s.kind = "insert"
           /\ \E k \in s.keys : table[k] # NoRow
    /\ Throw(c, "duplicate")

(* The connection breaks, or the database ends a wait (or a deadlock).     *)
DatabaseFails(c) ==
    /\ at[c] = "flush"
    /\ Throw(c, "database")

(* Mutant: a call is done when nothing was thrown.                         *)
AnswersTrue(c) ==
    IF error[c] # NoAnswer THEN error[c] ELSE "true"

(* Single statements tell whether a row has changed, batches always say    *)
(* true.                                                                   *)
AnswerOf(c) ==
    LET r == request[c]
    IN  CASE error[c] # NoAnswer -> error[c]
          [] error[c] = NoAnswer /\ r.op \in Batches /\ ~OneStatement(r) -> "true"
          [] error[c] = NoAnswer /\ (r.op \in Singles \/ OneStatement(r)) ->
               IF changed[c] # {} THEN "true" ELSE "false"

(* The transaction of the caller is committed, or rolled back by the       *)
(* exception; a call without one has nothing left to do.                   *)
End(c) ==
    /\ at[c] = "end"
    /\ answer' = [answer EXCEPT ![c] = AnswerOf(c)]
    /\ table' = [k \in Keys |-> IF error[c] # NoAnswer /\ undo[c][k] # Clean
                                  THEN undo[c][k] ELSE table[k]]
    /\ undo' = [undo EXCEPT ![c] = [k \in Keys |-> Clean]]
    /\ at' = [at EXCEPT ![c] = "idle"]
    /\ UNCHANGED <<request, rest, pending, changed, error, calls>>

Step(c) ==
    \/ Accept(c) \/ Execute(c) \/ Duplicate(c) \/ DatabaseFails(c)
    \/ End(c)

Next == \E c \in Clients : Begin(c) \/ Step(c)

Spec == Init /\ [][Next]_vars

-----------------------------------------------------------------------------

Over(c, ops) == at[c] = "idle" /\ request[c] # NoAnswer /\ request[c].op \in ops
Ids(c) == Elements(request[c].list)

(* What a save has answered true for is in the table, whatever came between*)
(* the select and the statement: nobody else can have made it disappear    *)
(* from a table with logical delete.                                       *)
SavedRowsExist ==
    \A c \in Clients :
        Over(c, {"save", "saveBatch", "saveOrUpdate", "saveOrUpdateBatch"})
          /\ answer[c] = "true"
        => \A k \in Ids(c) \cap Audited : Committed(k) # NoRow

(* What a single call says is so for good: true, and the row carries an    *)
(* update (is deleted); a duplicate, and there is such a row; false from   *)
(* saveOrUpdate, and someone has deleted the row the select had found.     *)
AnswersExplained ==
    \A c \in Clients : \A k \in Audited :
        Over(c, Singles) /\ request[c].list = <<k>> =>
          LET row == Committed(k) IN
          /\ answer[c] = "duplicate" => row # NoRow
          /\ answer[c] = "true" => row # NoRow
          /\ answer[c] = "true" /\ request[c].op = "updateById" => row.wrote # "insert"
          /\ answer[c] = "true" /\ request[c].op = "removeById" => row.deleted
          /\ answer[c] = "false" /\ request[c].op = "saveOrUpdate" =>
               row # NoRow /\ row.deleted

(* The names entities bring along.                                         *)
ByHand == {r.manual : r \in Requests} \ {NoName}

(* What an audited row says of its users is true: its updater is the user  *)
(* whose statement was the last one, never a name an entity brought along, *)
(* for updateFill covers ("avoid values passed in by hand on updates"); its*)
(* creator is the user who has inserted it.  A name set by hand gets into  *)
(* the updater on insertion only, into the creator with any statement.     *)
AuditIsTrue ==
    \A k \in Audited :
        table[k] # NoRow =>
          /\ \/ table[k].updateBy = User[table[k].by]
             \/ table[k].wrote = "insert" /\ table[k].updateBy \in ByHand
          /\ table[k].createBy \in {User[table[k].inserted]} \cup ByHand

(* saveBatch without a transaction: when it throws, the slices before the  *)
(* failing one are in the table and nothing of the slices after it, so a   *)
(* caller can tell where to resume.                                        *)
FailedBatchKeepsFlushes ==
    \A c \in Clients :
        Over(c, {"saveBatch"}) /\ ~request[c].tx /\ answer[c] \in Errors =>
          LET list == request[c].list
              upTo(n) == {list[i] : i \in {i \in DOMAIN list : i \leq n}}
          IN  \E n \in 0 .. Len(list) :
                /\ n % request[c].size = 0
                /\ upTo(n) \subseteq changed[c]
                /\ changed[c] \subseteq upTo(n + request[c].size)

=============================================================================
