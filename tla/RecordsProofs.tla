---------------------------- MODULE RecordsProofs ----------------------------
(***************************************************************************)
(* Proofs about Records, for any clients, ids, requests and numbers of     *)
(* calls.                                                                  *)
(*                                                                         *)
(* What a row says of its users rests on what the statements on their way  *)
(* say (StatementsAreTrue), and, because a rollback brings old rows back,  *)
(* on the rows kept for it (UndoIsTrue).  That a saved row exists rests on *)
(* the row locks: one transaction at a time has changed a row (OneWriter), *)
(* a row of a table with logical delete only goes by a rollback of its     *)
(* insertion (OnlyInsertionsVanish), and between the select of             *)
(* saveOrUpdate and the answer the row a call relies on is not one whose   *)
(* insertion somebody else may still roll back (SavesAreKept).  An answer  *)
(* stays explained because statements only ever make a row a Later one:    *)
(* rows do not vanish, deleted ones stay deleted, and the row a rollback   *)
(* brings back was never anybody else's to see.                            *)
(*                                                                         *)
(* What a failed batch has left (BatchInv) is told by lengths: up to some  *)
(* slice the ids of the list are all written, and what is written or in the*)
(* session beyond them is of the entities accepted since, a slice at most. *)
(* How the loop and the session stand to each other (FlowInv) also bounds  *)
(* the session and the number of steps.                                    *)
(***************************************************************************)
EXTENDS Records, TLAPS

StageOK ==
    \A c \in Clients :
        /\ at[c] # "idle" => request[c] \in Requests
        /\ at[c] = "flush" => pending[c] # << >>
        /\ at[c] = "end" => pending[c] = << >> /\ (error[c] # NoAnswer \/ rest[c] = << >>)

RowIsTrue(row) ==
    /\ \/ row.updateBy = User[row.by]
       \/ row.wrote = "insert" /\ row.updateBy \in ByHand
    /\ row.createBy \in {User[row.inserted]} \cup ByHand

UndoIsTrue ==
    \A c \in Clients, k \in Audited : undo[c][k] \in Row => RowIsTrue(undo[c][k])

StatementIsTrue(c, s) ==
    s.keys \cap Audited # {} =>
        /\ s.keys \subseteq Audited
        /\ \/ s.updateBy = User[c]
           \/ s.kind = "insert" /\ s.updateBy \in ByHand
        /\ \/ s.createBy \in ByHand
           \/ s.kind = "insert" /\ s.createBy = User[c]
           \/ s.kind # "insert" /\ s.createBy = NoName

StatementsAreTrue ==
    \A c \in Clients : \A s \in Elements(pending[c]) : StatementIsTrue(c, s)

AuditInv == StatementsAreTrue /\ UndoIsTrue /\ AuditIsTrue

OneWriter ==
    \A k \in Keys, c, d \in Clients : c # d /\ undo[c][k] # Clean => undo[d][k] = Clean

OnlyInsertionsVanish ==
    \A c \in Clients, k \in Audited : undo[c][k] \notin {Clean, NoRow} => table[k] # NoRow

Saves == {"save", "saveBatch", "saveOrUpdate", "saveOrUpdateBatch"}

(* The row is there, and no other call can roll its insertion back.        *)
Kept(c, k) == table[k] # NoRow /\ \A d \in Clients \ {c} : undo[d][k] # NoRow

(* The call c still has to insert the row.                                 *)
ToDo(c, k) ==
    \/ k \in Elements(rest[c])
    \/ \E s \in Elements(pending[c]) : s.kind = "insert" /\ k \in s.keys

OwnSavesKept(c) ==
    request[c] \in Requests /\ request[c].op \in Saves =>
        \A k \in Ids(c) \cap Audited :
            /\ at[c] # "idle" /\ error[c] = NoAnswer => ToDo(c, k) \/ Kept(c, k)
            /\ at[c] = "idle" /\ answer[c] = "true" => Kept(c, k) /\ undo[c][k] # NoRow

SavesAreKept == \A c \in Clients : OwnSavesKept(c)

SaveInv == OneWriter /\ OnlyInsertionsVanish /\ SavesAreKept

(* The row as c would find it: with its own statements, without those that *)
(* others may still roll back.                                             *)
Mine(c, k) == IF undo[c][k] # Clean THEN table[k] ELSE Committed(k)

(* What statements make of a row of a table with logical delete.           *)
Later(u, t) ==
    u = NoRow \/ (/\ t # NoRow
                  /\ u.wrote # "insert" => t.wrote # "insert"
                  /\ u.deleted => t.deleted)

UndoIsOlder ==
    \A c \in Clients, k \in Audited : undo[c][k] # Clean => Later(undo[c][k], table[k])

IdleIsClean ==
    \A c \in Clients, k \in Keys : at[c] = "idle" => undo[c][k] = Clean

(* An answer to an operation, and a row that explains it.                  *)
Explains(op, said, row) ==
    /\ said \in {"duplicate", "true"} => row # NoRow
    /\ said = "true" /\ op = "updateById" => row.wrote # "insert"
    /\ said = "true" /\ op = "removeById" => row.deleted
    /\ said = "false" /\ op = "saveOrUpdate" => row # NoRow /\ row.deleted

(* The only statement of a single call, before it is executed.             *)
SingleStatement(c, k, s) ==
    /\ pending[c] = <<s>> /\ s \in Statement /\ s.keys = {k}
    /\ request[c].op = "updateById" => s.kind = "update"
    /\ request[c].op = "removeById" => s.kind = "remove"
    /\ request[c].op = "saveOrUpdate" /\ s.kind # "insert" => Mine(c, k) # NoRow

Untouched(c, k) == error[c] = NoAnswer /\ changed[c] = {} /\ undo[c][k] = Clean

SingleIsExplained(c, k) ==
    /\ at[c] = "accept" => Untouched(c, k) /\ rest[c] = <<k>> /\ pending[c] = << >>
    /\ at[c] = "flush" => /\ Untouched(c, k) /\ rest[c] = << >>
                          /\ \E s \in Statement : SingleStatement(c, k, s)
    /\ at[c] = "end" => /\ Explains(request[c].op, AnswerOf(c), Mine(c, k))
                        /\ error[c] # NoAnswer => undo[c][k] = Clean
    /\ at[c] = "idle" => Explains(request[c].op, answer[c], Mine(c, k))

IsSingle(c, k) ==
    request[c] \in Requests /\ request[c].op \in Singles /\ request[c].list = <<k>>

SinglesAreExplained ==
    \A c \in Clients, k \in Audited : IsSingle(c, k) => SingleIsExplained(c, k)

AnswerInv == UndoIsOlder /\ IdleIsClean /\ SinglesAreExplained

(* The first n ids of a list.                                              *)
Prefix(list, n) == {list[i] : i \in {j \in DOMAIN list : j \leq n}}

(* How many entities have their statement.                                 *)
Accepted(c) == Len(request[c].list) - Len(rest[c])

(* The ids of the statements collected and not executed.                   *)
Collected(c) == UNION {s.keys : s \in Elements(pending[c])}

(* The slices before the n-th entity are in the table, and of the entities *)
(* after them only those of one slice have a statement.                    *)
SliceBegins(c, n) ==
    LET list == request[c].list
        size == request[c].size
        m == Accepted(c)
    IN  /\ n % size = 0 /\ m \leq n + size
        /\ Prefix(list, n) \subseteq changed[c]
        /\ changed[c] \subseteq Prefix(list, m)
        /\ Collected(c) \subseteq Prefix(list, m)
        /\ error[c] = NoAnswer => Prefix(list, m) \subseteq changed[c] \cup Collected(c)
        /\ at[c] = "accept" => /\ error[c] = NoAnswer
                               /\ m = n + Len(pending[c]) /\ m < n + size
        /\ at[c] # "accept" /\ error[c] = NoAnswer => m = n + size \/ rest[c] = << >>

(* The entities of a batch get their statements in order.                  *)
InOrder(c) ==
    /\ Accepted(c) \in 0 .. Len(request[c].list)
    /\ \A i \in 1 .. Len(rest[c]) : rest[c][i] = request[c].list[Accepted(c) + i]
    /\ \A s \in Elements(pending[c]) : s.kind = "insert"

Resumable(c) ==
    \E n \in 0 .. Len(request[c].list) :
        /\ n % request[c].size = 0
        /\ Prefix(request[c].list, n) \subseteq changed[c]
        /\ changed[c] \subseteq Prefix(request[c].list, n + request[c].size)

SlicesInOrder(c) ==
    request[c] \in Requests /\ request[c].op = "saveBatch" =>
        /\ at[c] # "idle" => InOrder(c) /\ \E n \in 0 .. Accepted(c) : SliceBegins(c, n)
        /\ at[c] = "idle" /\ answer[c] \in Errors => Resumable(c)

BatchInv == \A c \in Clients : SlicesInOrder(c)

-----------------------------------------------------------------------------
(* Sequences and rows.                                                     *)

LEMMA HeadAndTail ==
    ASSUME NEW S, NEW s \in Seq(S), s # << >>
    PROVE  /\ Head(s) \in S /\ Tail(s) \in Seq(S)
           /\ Elements(s) = {Head(s)} \cup Elements(Tail(s))
<1>1. /\ Len(s) \in Nat \ {0} /\ Tail(s) \in Seq(S) /\ Head(s) = s[1] /\ s[1] \in S
      /\ Len(Tail(s)) = Len(s) - 1
      /\ \A i \in 1 .. Len(Tail(s)) : Tail(s)[i] = s[i + 1]
  OBVIOUS
<1>2. ASSUME NEW i \in DOMAIN s PROVE s[i] \in {Head(s)} \cup Elements(Tail(s))
  <2>1. CASE i = 1
    BY <1>1, <2>1
  <2>2. CASE i # 1
    <3>1. i \in 2 .. Len(s)
      BY <1>1, <2>2
    <3>2. i - 1 \in DOMAIN Tail(s) /\ Tail(s)[i - 1] = s[i]
      BY <1>1, <3>1
    <3> QED
      BY <3>2 DEF Elements
  <2> QED
    BY <2>1, <2>2
<1>3. ASSUME NEW i \in DOMAIN Tail(s) PROVE Tail(s)[i] \in Elements(s)
  <2>1. i + 1 \in DOMAIN s /\ Tail(s)[i] = s[i + 1]
    BY <1>1
  <2> QED
    BY <2>1 DEF Elements
<1>4. Head(s) \in Elements(s)
  BY <1>1 DEF Elements
<1> QED
  BY <1>1, <1>2, <1>3, <1>4 DEF Elements

LEMMA AppendedElements ==
    ASSUME NEW S, NEW s \in Seq(S), NEW e \in S
    PROVE  /\ Append(s, e) \in Seq(S) /\ Append(s, e) # << >>
           /\ Elements(Append(s, e)) = Elements(s) \cup {e}
<1>1. /\ Append(s, e) \in Seq(S) /\ Len(Append(s, e)) = Len(s) + 1
      /\ Append(s, e)[Len(s) + 1] = e
      /\ \A i \in 1 .. Len(s) : Append(s, e)[i] = s[i]
  OBVIOUS
<1>2. Append(s, e) # << >>
  BY <1>1
<1>3. DOMAIN Append(s, e) = DOMAIN s \cup {Len(s) + 1} /\ DOMAIN s = 1 .. Len(s)
  BY <1>1
<1> QED
  BY <1>1, <1>2, <1>3 DEF Elements

LEMMA ElementsTyped ==
    ASSUME NEW S, NEW s \in Seq(S)
    PROVE  Elements(s) \subseteq S
BY DEF Elements

LEMMA NoElements == Elements(<< >>) = {}
BY DEF Elements

LEMMA OneElement == ASSUME NEW e PROVE Elements(<<e>>) = {e}
BY DEF Elements

LEMMA RowsApart ==
    /\ NoRow \notin Row /\ Clean \notin Row /\ Clean # NoRow
    /\ NoAnswer \notin Requests /\ NoAnswer \notin Errors /\ NoAnswer # "true"
    /\ "true" \notin Errors
BY NothingAssumption, RequestAssumption DEF Errors

(* What a statement makes of a row.                                        *)
LEMMA RowAfter ==
    ASSUME NEW c \in Clients, NEW s \in Statement, NEW k \in s.keys,
           NEW row \in Row \cup {NoRow},
           s.kind = "insert" => row = NoRow
    PROVE  /\ After(c, s, row) \in Row \cup {NoRow}
           /\ k \in Audited /\ StatementIsTrue(c, s) =>
                /\ s.kind = "insert" \/ row # NoRow => After(c, s, row) # NoRow
                /\ (row # NoRow => RowIsTrue(row)) /\ After(c, s, row) # NoRow
                     => RowIsTrue(After(c, s, row))
<1>1. s.kind \in {"insert", "update", "remove"} /\ s.createBy \in Names \cup {NoName}
      /\ s.updateBy \in Names \cup {NoName}
  BY DEF Statement
<1>2. CASE s.kind = "insert"
  <2> DEFINE new == [createBy |-> s.createBy, updateBy |-> s.updateBy,
                     deleted |-> FALSE, inserted |-> c, by |-> c, wrote |-> "insert"]
  <2>1. After(c, s, row) = new
    BY <1>2 DEF After, Hits
  <2>2. /\ new \in Row /\ new.createBy = s.createBy /\ new.updateBy = s.updateBy
        /\ new.inserted = c /\ new.by = c /\ new.wrote = "insert"
    BY <1>1 DEF Row
  <2> HIDE DEF new
  <2> QED
    BY <1>2, <2>1, <2>2, RowsApart DEF RowIsTrue, StatementIsTrue
<1>3. CASE s.kind # "insert" /\ ~(row # NoRow /\ ~row.deleted)
  <2>1. After(c, s, row) = row
    BY <1>3 DEF After, Hits
  <2> QED
    BY <2>1, <1>3
<1>4. CASE s.kind = "update" /\ row # NoRow /\ ~row.deleted
  <2> DEFINE creator == IF s.createBy = NoName THEN row.createBy ELSE s.createBy
             updater == IF s.keys \subseteq Audited THEN s.updateBy
                        ELSE IF s.updateBy = NoName THEN row.updateBy ELSE s.updateBy
             new == [row EXCEPT !.createBy = creator, !.updateBy = updater,
                                !.by = c, !.wrote = "update"]
  <2>1. After(c, s, row) = new
    BY <1>4 DEF After, Hits
  <2>2. row \in Row /\ creator \in Names \cup {NoName} /\ updater \in Names \cup {NoName}
    BY <1>1, <1>4 DEF Row
  <2>3. k \in Audited /\ StatementIsTrue(c, s) =>
          updater = User[c] /\ (creator \in ByHand \/ creator = row.createBy)
    BY <1>4, RequestAssumption DEF StatementIsTrue
  <2> HIDE DEF creator, updater
  <2>4. /\ new \in Row /\ new.createBy = creator /\ new.updateBy = updater
        /\ new.inserted = row.inserted /\ new.by = c
    BY <2>2 DEF Row
  <2> HIDE DEF new
  <2> QED
    BY <1>4, <2>1, <2>3, <2>4, RowsApart DEF RowIsTrue
<1>5. CASE s.kind = "remove" /\ row # NoRow /\ ~row.deleted
  <2> DEFINE new == [row EXCEPT !.deleted = TRUE, !.by = c,
                                !.updateBy = s.updateBy, !.wrote = "remove"]
  <2>1. After(c, s, row) = IF s.keys \subseteq Audited THEN new ELSE NoRow
    BY <1>5 DEF After, Hits
  <2>2. row \in Row
    BY <1>5
  <2>3. /\ new \in Row /\ new.createBy = row.createBy /\ new.updateBy = s.updateBy
        /\ new.inserted = row.inserted /\ new.by = c
    BY <1>1, <2>2 DEF Row
  <2>4. k \in Audited /\ StatementIsTrue(c, s) =>
          s.keys \subseteq Audited /\ s.updateBy = User[c]
    BY <1>5 DEF StatementIsTrue
  <2> HIDE DEF new
  <2> QED
    BY <1>5, <2>1, <2>3, <2>4, RowsApart DEF RowIsTrue
<1> QED
  BY <1>1, <1>2, <1>3, <1>4, <1>5

(* The statement a call sends for an entity.                               *)
LEMMA StatementSent ==
    ASSUME NEW c \in Clients, NEW k \in Keys, request[c] \in Requests
    PROVE  /\ StatementFor(c, k) \in Statement
           /\ StatementFor(c, k).keys = {k}
           /\ StatementIsTrue(c, StatementFor(c, k))
           /\ request[c].op \in Saves /\ StatementFor(c, k).kind # "insert" => Sees(c, k)
<1> DEFINE m == request[c].manual
<1>1. /\ m \in Names \cup {NoName} /\ User[c] \in Names \cup {NoName}
      /\ m # NoName => m \in ByHand
      /\ request[c].op \in Singles \cup Batches
  BY RequestAssumption DEF Request, ByHand
<1> HIDE DEF m
<1>2. /\ InsertFill(c, k) \in Statement /\ StatementIsTrue(c, InsertFill(c, k))
      /\ InsertFill(c, k).keys = {k} /\ InsertFill(c, k).kind = "insert"
  BY <1>1, RequestAssumption DEF InsertFill, Fill, Statement, StatementIsTrue, m
<1>3. /\ UpdateFill(c, k) \in Statement /\ StatementIsTrue(c, UpdateFill(c, k))
      /\ UpdateFill(c, k).keys = {k} /\ UpdateFill(c, k).kind = "update"
  BY <1>1, RequestAssumption DEF UpdateFill, Fill, Statement, StatementIsTrue, m
<1>4. /\ RemoveFilled(c, k) \in Statement /\ StatementIsTrue(c, RemoveFilled(c, k))
      /\ RemoveFilled(c, k).keys = {k}
  BY <1>1, RequestAssumption DEF RemoveFilled, Fill, Statement, StatementIsTrue
<1> HIDE DEF Sees
<1>5. CASE request[c].op \in {"save", "saveBatch"}
  BY <1>2, <1>5 DEF StatementFor
<1>6. CASE request[c].op \in {"updateById", "updateBatchById"}
  BY <1>3, <1>6 DEF StatementFor, Saves
<1>7. CASE request[c].op \in {"removeById", "removeByIds"}
  BY <1>4, <1>7 DEF StatementFor, Saves
<1>8. CASE request[c].op \in {"saveOrUpdate", "saveOrUpdateBatch"}
  BY <1>2, <1>3, <1>8 DEF StatementFor
<1> QED
  BY <1>1, <1>5, <1>6, <1>7, <1>8 DEF Singles, Batches

-----------------------------------------------------------------------------
(* Types, and where a call stands.                                         *)

LEMMA TypeInit == Init => TypeOK /\ StageOK
<1> SUFFICES ASSUME Init PROVE TypeOK /\ StageOK
  OBVIOUS
<1>1. \A k \in Keys : Rows(k) \subseteq Row \cup {NoRow}
  <2> SUFFICES ASSUME NEW k \in Keys, NEW r \in Rows(k), r # NoRow PROVE r \in Row
    OBVIOUS
  <2> QED
    BY DEF Rows, Row, Nameless
<1>2. table \in [Keys -> Row \cup {NoRow}]
  BY <1>1 DEF Init
<1> QED
  BY <1>2, RequestAssumption DEF Init, TypeOK, StageOK

LEMMA ProceedKeeps ==
    ASSUME TypeOK, StageOK, NEW c \in Clients,
           pending' \in [Clients -> Seq(Statement)], error' \in [Clients -> Errors \cup {NoAnswer}],
           at' = [at EXCEPT ![c] = Proceed(c)], UNCHANGED <<request, rest>>,
           \A d \in Clients \ {c} : pending'[d] = pending[d] /\ error'[d] = error[d],
           at[c] = "flush"
    PROVE  at' \in [Clients -> {"idle", "accept", "flush", "end"}] /\ StageOK'
<1>1. /\ Proceed(c) \in {"flush", "end", "accept"}
      /\ Proceed(c) = "flush" => pending'[c] # << >>
      /\ Proceed(c) = "end" => pending'[c] = << >> /\ (error'[c] # NoAnswer \/ rest[c] = << >>)
  BY DEF Proceed
<1> HIDE DEF Proceed
<1>2. at' \in [Clients -> {"idle", "accept", "flush", "end"}]
  BY <1>1 DEF TypeOK
<1>3. ASSUME NEW d \in Clients
      PROVE  /\ at'[d] # "idle" => request'[d] \in Requests
             /\ at'[d] = "flush" => pending'[d] # << >>
             /\ at'[d] = "end" => pending'[d] = << >> /\ (error'[d] # NoAnswer \/ rest'[d] = << >>)
  BY <1>1 DEF TypeOK, StageOK
<1> QED
  BY <1>2, <1>3 DEF StageOK

LEMMA BeginKeepsTypes ==
    ASSUME TypeOK, StageOK, NEW c \in Clients, Begin(c)
    PROVE  TypeOK' /\ StageOK'
<1>1. PICK r \in Requests :
        LET atOnce == OneStatement(r)
            empty == r.list = << >>
        IN  /\ request' = [request EXCEPT ![c] = r]
            /\ at' = [at EXCEPT ![c] = IF empty THEN "idle"
                                       ELSE IF atOnce THEN "flush" ELSE "accept"]
            /\ answer' = [answer EXCEPT ![c] = IF empty THEN "false" ELSE NoAnswer]
            /\ rest' = [rest EXCEPT ![c] = IF atOnce THEN << >> ELSE r.list]
            /\ pending' = [pending EXCEPT ![c] =
                   IF atOnce /\ ~empty
                     THEN << [kind |-> "remove", keys |-> Elements(r.list),
                              createBy |-> NoName, updateBy |-> NoName] >>
                     ELSE << >>]
  BY DEF Begin
<1> DEFINE s == [kind |-> "remove", keys |-> Elements(r.list),
                 createBy |-> NoName, updateBy |-> NoName]
<1>2. r.list \in Seq(Keys) /\ s \in Statement
  BY RequestAssumption, ElementsTyped DEF Request, Statement
<1> HIDE DEF s
<1>3. pending' = [pending EXCEPT ![c] =
          IF OneStatement(r) /\ r.list # << >> THEN <<s>> ELSE << >>]
  BY <1>1 DEF s
<1>4. pending' \in [Clients -> Seq(Statement)]
  BY <1>2, <1>3 DEF TypeOK
<1>5. /\ UNCHANGED <<table, undo>>
      /\ changed' = [changed EXCEPT ![c] = {}]
      /\ error' = [error EXCEPT ![c] = NoAnswer]
      /\ calls' = [calls EXCEPT ![c] = @ + 1] /\ calls[c] < MaxCalls
  BY DEF Begin
<1>6. /\ request' \in [Clients -> Requests \cup {NoAnswer}]
      /\ at' \in [Clients -> {"idle", "accept", "flush", "end"}]
      /\ rest' \in [Clients -> Seq(Keys)]
  BY <1>1, <1>2 DEF TypeOK
<1>7. /\ changed' \in [Clients -> SUBSET Keys]
      /\ error' \in [Clients -> Errors \cup {NoAnswer}]
      /\ answer' \in [Clients -> {"true", "false", NoAnswer} \cup Errors]
      /\ calls' \in [Clients -> 0 .. MaxCalls]
  BY <1>1, <1>5, RequestAssumption DEF TypeOK
<1>8. TypeOK'
  BY <1>4, <1>5, <1>6, <1>7 DEF TypeOK
<1>9. StageOK'
  BY <1>1, <1>3, <1>5 DEF StageOK, TypeOK
<1> QED
  BY <1>8, <1>9

LEMMA AcceptKeepsTypes ==
    ASSUME TypeOK, StageOK, NEW c \in Clients, Accept(c)
    PROVE  TypeOK' /\ StageOK'
<1> DEFINE s == StatementFor(c, Head(rest[c]))
<1>1. request[c] \in Requests /\ rest[c] \in Seq(Keys) /\ rest[c] # << >>
  BY DEF Accept, StageOK, TypeOK
<1>2. Head(rest[c]) \in Keys /\ Tail(rest[c]) \in Seq(Keys)
  BY <1>1, HeadAndTail
<1>3. s \in Statement
  BY <1>1, <1>2, StatementSent
<1>4. pending' = [pending EXCEPT ![c] = Append(@, s)]
  BY DEF Accept
<1> HIDE DEF s
<1>5. /\ pending[c] \in Seq(Statement)
      /\ Append(pending[c], s) \in Seq(Statement) /\ Append(pending[c], s) # << >>
  BY <1>3, AppendedElements DEF TypeOK
<1>6. /\ rest' = [rest EXCEPT ![c] = Tail(@)]
      /\ at' = [at EXCEPT ![c] = IF Flushes(c) THEN "flush" ELSE "accept"]
      /\ UNCHANGED <<table, undo, request, changed, error, answer, calls>>
  BY DEF Accept
<1>7. pending' \in [Clients -> Seq(Statement)] /\ rest' \in [Clients -> Seq(Keys)]
  BY <1>2, <1>4, <1>5, <1>6 DEF TypeOK
<1>8. at' \in [Clients -> {"idle", "accept", "flush", "end"}]
  BY <1>6 DEF TypeOK
<1>9. TypeOK'
  BY <1>6, <1>7, <1>8 DEF TypeOK
<1>10. StageOK'
  BY <1>1, <1>4, <1>5, <1>6 DEF StageOK, TypeOK
<1> QED
  BY <1>9, <1>10

(* What Execute does, by name.                                             *)
Found(s) == {k \in s.keys : Hits(s, table[k])}

NewRows(s, c) == [k \in Keys |-> IF k \in s.keys THEN After(c, s, table[k]) ELSE table[k]]

LEMMA Executed ==
    ASSUME TypeOK, StageOK, NEW c \in Clients, Execute(c)
    PROVE  LET s == Head(pending[c]) IN
           /\ s \in Statement /\ Tail(pending[c]) \in Seq(Statement)
           /\ Elements(pending[c]) = {s} \cup Elements(Tail(pending[c]))
           /\ Unlocked(c, s)
           /\ \A k \in s.keys : s.kind = "insert" => table[k] = NoRow
           /\ table' = NewRows(s, c)
           /\ changed' = [changed EXCEPT ![c] = @ \cup Found(s)]
           /\ undo' = [undo EXCEPT ![c] =
                [k \in Keys |-> IF request[c].tx /\ undo[c][k] = Clean /\ k \in Found(s)
                                  THEN table[k] ELSE undo[c][k]]]
           /\ pending' = [pending EXCEPT ![c] = Tail(@)]
           /\ error' = error
           /\ at' = [at EXCEPT ![c] = Proceed(c)]
           /\ UNCHANGED <<request, rest, answer, calls>>
<1>1. pending[c] \in Seq(Statement) /\ pending[c] # << >>
  BY DEF Execute, StageOK, TypeOK
<1>2. /\ Head(pending[c]) \in Statement /\ Tail(pending[c]) \in Seq(Statement)
      /\ Elements(pending[c]) = {Head(pending[c])} \cup Elements(Tail(pending[c]))
  BY <1>1, HeadAndTail
<1> QED
  BY <1>2, Zenon DEF Execute, NewRows, Found

LEMMA ExecuteKeepsTypes ==
    ASSUME TypeOK, StageOK, NEW c \in Clients, Execute(c)
    PROVE  TypeOK' /\ StageOK'
<1> DEFINE s == Head(pending[c])
<1>1. /\ s \in Statement /\ Tail(pending[c]) \in Seq(Statement)
      /\ \A k \in s.keys : s.kind = "insert" => table[k] = NoRow
      /\ table' = NewRows(s, c)
      /\ changed' = [changed EXCEPT ![c] = @ \cup Found(s)]
      /\ undo' = [undo EXCEPT ![c] =
           [k \in Keys |-> IF request[c].tx /\ undo[c][k] = Clean /\ k \in Found(s)
                             THEN table[k] ELSE undo[c][k]]]
      /\ pending' = [pending EXCEPT ![c] = Tail(@)]
      /\ error' = error
      /\ at' = [at EXCEPT ![c] = Proceed(c)]
      /\ UNCHANGED <<request, rest, answer, calls>>
  BY Executed
<1> HIDE DEF s
<1>2. s.keys \subseteq Keys
  BY <1>1 DEF Statement
<1>3. table' \in [Keys -> Row \cup {NoRow}]
  <2>1. \A k \in s.keys : After(c, s, table[k]) \in Row \cup {NoRow}
    BY <1>1, <1>2, RowAfter DEF TypeOK
  <2> QED
    BY <1>1, <2>1 DEF NewRows, TypeOK
<1>4. changed' \in [Clients -> SUBSET Keys]
  BY <1>1, <1>2 DEF TypeOK, Found
<1>5. undo' \in [Clients -> [Keys -> Row \cup {NoRow, Clean}]]
  <2> DEFINE kept == [k \in Keys |->
                        IF request[c].tx /\ undo[c][k] = Clean /\ k \in Found(s)
                          THEN table[k] ELSE undo[c][k]]
  <2>1. kept \in [Keys -> Row \cup {NoRow, Clean}]
    BY DEF TypeOK
  <2>2. undo' = [undo EXCEPT ![c] = kept]
    BY <1>1
  <2> HIDE DEF kept
  <2> QED
    BY <2>1, <2>2 DEF TypeOK
<1>6. pending' \in [Clients -> Seq(Statement)]
  BY <1>1 DEF TypeOK
<1>7. error' \in [Clients -> Errors \cup {NoAnswer}]
  BY <1>1 DEF TypeOK
<1>8. at' \in [Clients -> {"idle", "accept", "flush", "end"}] /\ StageOK'
  <2>1. \A d \in Clients \ {c} : pending'[d] = pending[d] /\ error'[d] = error[d]
    BY <1>1 DEF TypeOK
  <2>2. at[c] = "flush"
    BY DEF Execute
  <2> QED
    BY <1>1, <1>6, <1>7, <2>1, <2>2, ProceedKeeps
<1>9. TypeOK'
  BY <1>1, <1>3, <1>4, <1>5, <1>6, <1>7, <1>8 DEF TypeOK
<1> QED
  BY <1>8, <1>9

LEMMA Thrown ==
    ASSUME TypeOK, StageOK, NEW c \in Clients, NEW e \in Errors, at[c] = "flush", Throw(c, e)
    PROVE  /\ pending' \in [Clients -> Seq(Statement)]
           /\ Elements(pending'[c]) \subseteq Elements(pending[c])
           /\ \A d \in Clients \ {c} : pending'[d] = pending[d] /\ error'[d] = error[d]
           /\ error' \in [Clients -> Errors \cup {NoAnswer}] /\ error'[c] = e
<1>1. pending[c] \in Seq(Statement) /\ pending[c] # << >>
  BY DEF StageOK, TypeOK
<1>2. /\ Tail(pending[c]) \in Seq(Statement)
      /\ Elements(pending[c]) = {Head(pending[c])} \cup Elements(Tail(pending[c]))
  BY <1>1, HeadAndTail
<1>3. PICK left \in {Tail(pending[c]), << >>} : pending' = [pending EXCEPT ![c] = left]
  BY DEF Throw
<1>4. left \in Seq(Statement) /\ Elements(left) \subseteq Elements(pending[c])
  <2>1. CASE left = Tail(pending[c])
    BY <1>2, <2>1
  <2>2. CASE left = << >>
    <3>1. << >> \in Seq(Statement)
      OBVIOUS
    <3> QED
      BY <2>2, <3>1, NoElements
  <2> QED
    BY <2>1, <2>2
<1> QED
  BY <1>3, <1>4 DEF Throw, TypeOK

LEMMA ThrowKeepsTypes ==
    ASSUME TypeOK, StageOK, NEW c \in Clients, NEW e \in Errors, at[c] = "flush", Throw(c, e)
    PROVE  TypeOK' /\ StageOK'
<1>1. /\ at' = [at EXCEPT ![c] = Proceed(c)]
      /\ UNCHANGED <<table, undo, request, rest, changed, answer, calls>>
  BY DEF Throw
<1>2. /\ pending' \in [Clients -> Seq(Statement)]
      /\ error' \in [Clients -> Errors \cup {NoAnswer}]
      /\ \A d \in Clients \ {c} : pending'[d] = pending[d] /\ error'[d] = error[d]
  BY Thrown
<1>3. at' \in [Clients -> {"idle", "accept", "flush", "end"}] /\ StageOK'
  BY <1>1, <1>2, ProceedKeeps
<1>4. TypeOK'
  BY <1>1, <1>2, <1>3 DEF TypeOK
<1> QED
  BY <1>3, <1>4

LEMMA AnswersTyped ==
    ASSUME TypeOK, NEW c \in Clients, request[c] \in Requests
    PROVE  /\ AnswerOf(c) \in {"true", "false"} \cup Errors
           /\ AnswerOf(c) = "true" => error[c] = NoAnswer
<1>1. request[c].op \in Singles \cup Batches
  BY RequestAssumption DEF Request
<1> QED
  BY <1>1, RowsApart DEF AnswerOf, TypeOK

LEMMA EndKeepsTypes ==
    ASSUME TypeOK, StageOK, NEW c \in Clients, End(c)
    PROVE  TypeOK' /\ StageOK'
<1>1. request[c] \in Requests
  BY DEF End, StageOK
<1>2. AnswerOf(c) \in {"true", "false"} \cup Errors
  BY <1>1, AnswersTyped
<1>3. table' \in [Keys -> Row \cup {NoRow}]
  BY DEF End, TypeOK
<1>4. undo' \in [Clients -> [Keys -> Row \cup {NoRow, Clean}]]
  BY DEF End, TypeOK
<1>5. answer' \in [Clients -> {"true", "false", NoAnswer} \cup Errors]
  BY <1>2 DEF End, TypeOK
<1>6. at' \in [Clients -> {"idle", "accept", "flush", "end"}]
  BY DEF End, TypeOK
<1>7. TypeOK'
  BY <1>3, <1>4, <1>5, <1>6 DEF End, TypeOK
<1>8. StageOK'
  BY DEF End, StageOK, TypeOK
<1> QED
  BY <1>7, <1>8

(* The steps of a call, with both ways to throw taken as one.              *)
LEMMA Steps ==
    ASSUME Next
    PROVE  \E c \in Clients :
               \/ Begin(c) \/ Accept(c) \/ Execute(c) \/ End(c)
               \/ \E e \in Errors : /\ at[c] = "flush" /\ Throw(c, e)
                                    /\ e = "duplicate" => Duplicate(c)
<1>1. ASSUME NEW c \in Clients, Duplicate(c)
      PROVE  \E e \in Errors : /\ at[c] = "flush" /\ Throw(c, e)
                               /\ e = "duplicate" => Duplicate(c)
  <2>1. "duplicate" \in Errors /\ at[c] = "flush" /\ Throw(c, "duplicate")
    BY <1>1 DEF Duplicate, Errors
  <2> QED
    BY <1>1, <2>1
<1>2. ASSUME NEW c \in Clients, DatabaseFails(c)
      PROVE  \E e \in Errors : /\ at[c] = "flush" /\ Throw(c, e)
                               /\ e = "duplicate" => Duplicate(c)
  BY <1>2 DEF DatabaseFails, Errors
<1> QED
  BY <1>1, <1>2, Zenon DEF Next, Step

LEMMA TypeStep == TypeOK /\ StageOK /\ [Next]_vars => TypeOK' /\ StageOK'
<1> SUFFICES ASSUME TypeOK, StageOK, [Next]_vars PROVE TypeOK' /\ StageOK'
  OBVIOUS
<1>1. CASE Next
  <2>1. PICK c \in Clients :
          \/ Begin(c) \/ Accept(c) \/ Execute(c) \/ End(c)
          \/ \E e \in Errors : /\ at[c] = "flush" /\ Throw(c, e)
                               /\ e = "duplicate" => Duplicate(c)
    BY <1>1, Steps
  <2>2. ASSUME NEW e \in Errors, at[c] = "flush", Throw(c, e) PROVE TypeOK' /\ StageOK'
    BY <2>2, ThrowKeepsTypes
  <2>3. CASE Begin(c) \/ Accept(c) \/ Execute(c) \/ End(c)
    BY <2>3, BeginKeepsTypes, AcceptKeepsTypes, ExecuteKeepsTypes, EndKeepsTypes
  <2> QED
    BY <2>1, <2>2, <2>3
<1>2. CASE UNCHANGED vars
  BY <1>2 DEF vars, TypeOK, StageOK
<1> QED
  BY <1>1, <1>2

-----------------------------------------------------------------------------
(* What rows and statements say of their users.                            *)

LEMMA AuditInit == Init => AuditInv
<1> SUFFICES ASSUME Init PROVE AuditInv
  OBVIOUS
<1>1. StatementsAreTrue
  BY NoElements DEF Init, StatementsAreTrue
<1>2. UndoIsTrue
  BY RowsApart, RequestAssumption DEF Init, UndoIsTrue
<1>3. ASSUME NEW k \in Audited, table[k] # NoRow PROVE RowIsTrue(table[k])
  <2>1. table[k] \in Rows(k)
    BY RequestAssumption DEF Init
  <2> QED
    BY <1>3, <2>1 DEF Rows, Nameless, RowIsTrue
<1> QED
  BY <1>1, <1>2, <1>3 DEF AuditInv, AuditIsTrue, RowIsTrue

LEMMA RowsAreTrue ==
    ASSUME AuditInv, NEW k \in Audited, table[k] # NoRow
    PROVE  RowIsTrue(table[k])
BY DEF AuditInv, AuditIsTrue, RowIsTrue

LEMMA BeginKeepsAudit ==
    ASSUME TypeOK, StageOK, AuditInv, NEW c \in Clients, Begin(c)
    PROVE  AuditInv'
<1>1. PICK r \in Requests :
        pending' = [pending EXCEPT ![c] =
            IF OneStatement(r) /\ r.list # << >>
              THEN << [kind |-> "remove", keys |-> Elements(r.list),
                       createBy |-> NoName, updateBy |-> NoName] >>
              ELSE << >>]
  BY DEF Begin
<1> DEFINE s == [kind |-> "remove", keys |-> Elements(r.list),
                 createBy |-> NoName, updateBy |-> NoName]
<1>2. OneStatement(r) => StatementIsTrue(c, s)
  BY DEF OneStatement, StatementIsTrue
<1> HIDE DEF s
<1>3. pending'[c] \in {<<s>>, << >>} /\ (pending'[c] = <<s>> => OneStatement(r))
  BY <1>1 DEF s, TypeOK
<1>4. \A d \in Clients \ {c} : pending'[d] = pending[d]
  BY <1>1 DEF TypeOK
<1>5. \A t \in Elements(pending'[c]) : StatementIsTrue(c, t)
  BY <1>2, <1>3, NoElements, OneElement
<1>6. StatementsAreTrue'
  BY <1>4, <1>5 DEF AuditInv, StatementsAreTrue, StatementIsTrue
<1>7. UNCHANGED <<table, undo>>
  BY DEF Begin
<1> QED
  BY <1>6, <1>7 DEF AuditInv, UndoIsTrue, AuditIsTrue, RowIsTrue

LEMMA AcceptKeepsAudit ==
    ASSUME TypeOK, StageOK, AuditInv, NEW c \in Clients, Accept(c)
    PROVE  AuditInv'
<1> DEFINE s == StatementFor(c, Head(rest[c]))
<1>1. request[c] \in Requests /\ rest[c] \in Seq(Keys) /\ rest[c] # << >>
  BY DEF Accept, StageOK, TypeOK
<1>2. s \in Statement /\ StatementIsTrue(c, s)
  BY <1>1, HeadAndTail, StatementSent
<1>3. pending' = [pending EXCEPT ![c] = Append(@, s)] /\ UNCHANGED <<table, undo>>
  BY DEF Accept
<1> HIDE DEF s
<1>4. /\ Elements(pending'[c]) = Elements(pending[c]) \cup {s}
      /\ \A d \in Clients \ {c} : pending'[d] = pending[d]
  BY <1>2, <1>3, AppendedElements DEF TypeOK
<1>5. StatementsAreTrue'
  BY <1>2, <1>4 DEF AuditInv, StatementsAreTrue, StatementIsTrue
<1> QED
  BY <1>3, <1>5 DEF AuditInv, UndoIsTrue, AuditIsTrue, RowIsTrue

LEMMA ExecuteKeepsAudit ==
    ASSUME TypeOK, StageOK, AuditInv, NEW c \in Clients, Execute(c)
    PROVE  AuditInv'
<1> DEFINE s == Head(pending[c])
<1>1. /\ s \in Statement
      /\ Elements(pending[c]) = {s} \cup Elements(Tail(pending[c]))
      /\ \A k \in s.keys : s.kind = "insert" => table[k] = NoRow
      /\ table' = NewRows(s, c)
      /\ undo' = [undo EXCEPT ![c] =
           [k \in Keys |-> IF request[c].tx /\ undo[c][k] = Clean /\ k \in Found(s)
                             THEN table[k] ELSE undo[c][k]]]
      /\ pending' = [pending EXCEPT ![c] = Tail(@)]
  BY Executed
<1> HIDE DEF s
<1>2. StatementIsTrue(c, s)
  BY <1>1 DEF AuditInv, StatementsAreTrue
<1>3. StatementsAreTrue'
  <2>1. \A d \in Clients : Elements(pending'[d]) \subseteq Elements(pending[d])
    BY <1>1 DEF TypeOK
  <2> QED
    BY <2>1 DEF AuditInv, StatementsAreTrue, StatementIsTrue
<1>4. ASSUME NEW k \in Audited, table'[k] # NoRow PROVE RowIsTrue(table'[k])
  <2>1. k \in Keys /\ table[k] \in Row \cup {NoRow}
    BY RequestAssumption DEF TypeOK
  <2>2. CASE k \in s.keys
    <3>1. table'[k] = After(c, s, table[k])
      BY <1>1, <2>1, <2>2 DEF NewRows
    <3> QED
      BY <1>1, <1>2, <1>4, <2>1, <2>2, <3>1, RowAfter, RowsAreTrue
  <2>3. CASE k \notin s.keys
    <3>1. table'[k] = table[k]
      BY <1>1, <2>1, <2>3 DEF NewRows
    <3> QED
      BY <1>4, <3>1, RowsAreTrue
  <2> QED
    BY <2>2, <2>3
<1>5. ASSUME NEW d \in Clients, NEW k \in Audited, undo'[d][k] \in Row
      PROVE  RowIsTrue(undo'[d][k])
  <2>1. k \in Keys
    BY RequestAssumption
  <2>2. undo'[d][k] \in {undo[d][k], table[k]}
    BY <1>1, <2>1 DEF TypeOK
  <2> QED
    BY <1>5, <2>2, RowsAreTrue, RowsApart DEF AuditInv, UndoIsTrue
<1> QED
  BY <1>3, <1>4, <1>5 DEF AuditInv, UndoIsTrue, AuditIsTrue, RowIsTrue

LEMMA ThrowKeepsAudit ==
    ASSUME TypeOK, StageOK, AuditInv,
           NEW c \in Clients, NEW e \in Errors, at[c] = "flush", Throw(c, e)
    PROVE  AuditInv'
<1>1. \A d \in Clients : Elements(pending'[d]) \subseteq Elements(pending[d])
  BY Thrown
<1>2. UNCHANGED <<table, undo>>
  BY DEF Throw
<1>3. StatementsAreTrue'
  BY <1>1 DEF AuditInv, StatementsAreTrue, StatementIsTrue
<1> QED
  BY <1>2, <1>3 DEF AuditInv, UndoIsTrue, AuditIsTrue, RowIsTrue

LEMMA EndKeepsAudit ==
    ASSUME TypeOK, StageOK, AuditInv, NEW c \in Clients, End(c)
    PROVE  AuditInv'
<1>1. /\ table' = [k \in Keys |-> IF error[c] # NoAnswer /\ undo[c][k] # Clean
                                    THEN undo[c][k] ELSE table[k]]
      /\ undo' = [undo EXCEPT ![c] = [k \in Keys |-> Clean]]
      /\ pending' = pending
  BY DEF End
<1>2. StatementsAreTrue'
  BY <1>1 DEF AuditInv, StatementsAreTrue, StatementIsTrue
<1>3. ASSUME NEW k \in Audited, table'[k] # NoRow PROVE RowIsTrue(table'[k])
  <2>1. k \in Keys
    BY RequestAssumption
  <2>2. CASE table'[k] = table[k]
    BY <1>3, <2>2, RowsAreTrue
  <2>3. CASE table'[k] = undo[c][k] /\ undo[c][k] # Clean
    <3>1. undo[c][k] \in Row
      BY <1>3, <2>1, <2>3 DEF TypeOK
    <3> QED
      BY <2>3, <3>1 DEF AuditInv, UndoIsTrue
  <2> QED
    BY <1>1, <2>1, <2>2, <2>3
<1>4. ASSUME NEW d \in Clients, NEW k \in Audited, undo'[d][k] \in Row
      PROVE  RowIsTrue(undo'[d][k])
  <2>1. undo'[d][k] \in {undo[d][k], Clean}
    BY <1>1, RequestAssumption DEF TypeOK
  <2> QED
    BY <1>4, <2>1, RowsApart DEF AuditInv, UndoIsTrue
<1> QED
  BY <1>2, <1>3, <1>4 DEF AuditInv, UndoIsTrue, AuditIsTrue, RowIsTrue

LEMMA AuditStep ==
    TypeOK /\ StageOK /\ AuditInv /\ [Next]_vars => AuditInv'
<1> SUFFICES ASSUME TypeOK, StageOK, AuditInv, [Next]_vars PROVE AuditInv'
  OBVIOUS
<1>1. CASE Next
  <2>1. PICK c \in Clients :
          \/ Begin(c) \/ Accept(c) \/ Execute(c) \/ End(c)
          \/ \E e \in Errors : /\ at[c] = "flush" /\ Throw(c, e)
                               /\ e = "duplicate" => Duplicate(c)
    BY <1>1, Steps
  <2>2. ASSUME NEW e \in Errors, at[c] = "flush", Throw(c, e) PROVE AuditInv'
    BY <2>2, ThrowKeepsAudit
  <2>3. CASE Begin(c) \/ Accept(c) \/ Execute(c) \/ End(c)
    BY <2>3, BeginKeepsAudit, AcceptKeepsAudit, ExecuteKeepsAudit, EndKeepsAudit
  <2> QED
    BY <2>1, <2>2, <2>3
<1>2. CASE UNCHANGED vars
  BY <1>2 DEF vars, AuditInv, StatementsAreTrue, StatementIsTrue, UndoIsTrue, AuditIsTrue, RowIsTrue
<1> QED
  BY <1>1, <1>2

-----------------------------------------------------------------------------
(* What becomes of the rows a call has saved.                              *)

LEMMA SaveInit == Init => SaveInv
<1> SUFFICES ASSUME Init PROVE SaveInv
  OBVIOUS
<1>1. OneWriter
  BY DEF Init, OneWriter
<1>2. OnlyInsertionsVanish
  BY RequestAssumption DEF Init, OnlyInsertionsVanish
<1>3. SavesAreKept
  BY RowsApart DEF Init, SavesAreKept, OwnSavesKept
<1> QED
  BY <1>1, <1>2, <1>3 DEF SaveInv

(* The select of saveOrUpdate finds a row that stays.                      *)
LEMMA SeenRowsAreKept ==
    ASSUME SaveInv, NEW c \in Clients, NEW k \in Audited, Sees(c, k)
    PROVE  Kept(c, k)
<1> USE RowsApart, RequestAssumption
<1>1. CASE undo[c][k] # Clean
  <2>1. table[k] # NoRow
    BY <1>1 DEF Sees
  <2>2. \A d \in Clients \ {c} : undo[d][k] = Clean
    BY <1>1 DEF SaveInv, OneWriter
  <2> QED
    BY <2>1, <2>2 DEF Kept
<1>2. CASE undo[c][k] = Clean
  <2>1. Committed(k) # NoRow
    BY <1>2 DEF Sees
  <2>2. CASE \A d \in Clients : undo[d][k] = Clean
    <3>1. Committed(k) = table[k]
      BY <2>2 DEF Committed
    <3> QED
      BY <2>1, <2>2, <3>1 DEF Kept
  <2>3. CASE \E d \in Clients : undo[d][k] # Clean
    <3> DEFINE owner == CHOOSE d \in Clients : undo[d][k] # Clean
    <3>1. owner \in Clients /\ undo[owner][k] # Clean
      BY <2>3
    <3>2. Committed(k) = undo[owner][k]
      BY <2>3 DEF Committed
    <3> HIDE DEF owner
    <3>3. table[k] # NoRow
      BY <2>1, <3>1, <3>2 DEF SaveInv, OnlyInsertionsVanish
    <3>4. \A d \in Clients \ {owner} : undo[d][k] = Clean
      BY <3>1 DEF SaveInv, OneWriter
    <3> QED
      BY <2>1, <3>2, <3>3, <3>4 DEF Kept
  <2> QED
    BY <2>2, <2>3
<1> QED
  BY <1>1, <1>2

(* A step that leaves the variables of d alone, and the rows d relies on.  *)
LEMMA OthersUndisturbed ==
    ASSUME NEW d \in Clients, OwnSavesKept(d),
           request'[d] = request[d], at'[d] = at[d], rest'[d] = rest[d],
           pending'[d] = pending[d], error'[d] = error[d], answer'[d] = answer[d],
           \A k \in Audited : /\ Kept(d, k) => Kept(d, k)'
                              /\ undo[d][k] # NoRow => undo'[d][k] # NoRow
    PROVE  OwnSavesKept(d)'
<1> SUFFICES ASSUME request'[d] \in Requests, request'[d].op \in Saves,
                    NEW k \in Elements(request'[d].list) \cap Audited
             PROVE  /\ at'[d] # "idle" /\ error'[d] = NoAnswer => ToDo(d, k)' \/ Kept(d, k)'
                    /\ at'[d] = "idle" /\ answer'[d] = "true" =>
                         Kept(d, k)' /\ undo'[d][k] # NoRow
  BY DEF OwnSavesKept, Ids
<1>1. k \in Ids(d) \cap Audited
  BY DEF Ids
<1>2. ToDo(d, k) => ToDo(d, k)'
  BY DEF ToDo
<1> QED
  BY <1>1, <1>2 DEF OwnSavesKept

LEMMA SameTable ==
    ASSUME UNCHANGED <<table, undo>>
    PROVE  /\ OneWriter => OneWriter'
           /\ OnlyInsertionsVanish => OnlyInsertionsVanish'
           /\ \A d \in Clients, k \in Audited :
                  /\ Kept(d, k) => Kept(d, k)'
                  /\ undo[d][k] # NoRow => undo'[d][k] # NoRow
BY DEF OneWriter, OnlyInsertionsVanish, Kept

LEMMA BeginKeepsSaves ==
    ASSUME TypeOK, StageOK, SaveInv, NEW c \in Clients, Begin(c)
    PROVE  SaveInv'
<1>1. UNCHANGED <<table, undo>>
  BY DEF Begin
<1>2. PICK r \in Requests :
        /\ request' = [request EXCEPT ![c] = r]
        /\ at' = [at EXCEPT ![c] = IF r.list = << >> THEN "idle"
                                   ELSE IF OneStatement(r) THEN "flush" ELSE "accept"]
        /\ answer' = [answer EXCEPT ![c] = IF r.list = << >> THEN "false" ELSE NoAnswer]
        /\ rest' = [rest EXCEPT ![c] = IF OneStatement(r) THEN << >> ELSE r.list]
        /\ \A d \in Clients \ {c} : pending'[d] = pending[d] /\ error'[d] = error[d]
  BY DEF Begin, TypeOK
<1>3. ASSUME NEW d \in Clients \ {c} PROVE OwnSavesKept(d)'
  <2>1. /\ request'[d] = request[d] /\ at'[d] = at[d] /\ rest'[d] = rest[d]
        /\ pending'[d] = pending[d] /\ error'[d] = error[d] /\ answer'[d] = answer[d]
    BY <1>2 DEF TypeOK
  <2>2. OwnSavesKept(d)
    BY DEF SaveInv, SavesAreKept
  <2> QED
    BY <1>1, <2>1, <2>2, SameTable, OthersUndisturbed
<1>4. OwnSavesKept(c)'
  <2>1. r.op \in Saves => ~OneStatement(r)
    BY DEF Saves, OneStatement
  <2>2. /\ request'[c] = r /\ (r.list = << >> => at'[c] = "idle" /\ answer'[c] = "false")
        /\ r.list # << >> => at'[c] # "idle"
        /\ r.op \in Saves => rest'[c] = r.list
    BY <1>2, <2>1 DEF TypeOK
  <2>3. r.op \in Saves => \A k \in Elements(r.list) : at'[c] # "idle" /\ ToDo(c, k)'
    BY <2>2, NoElements DEF ToDo
  <2> QED
    BY <2>2, <2>3 DEF OwnSavesKept, Ids
<1> QED
  BY <1>1, <1>3, <1>4, SameTable DEF SaveInv, SavesAreKept

LEMMA AcceptKeepsSaves ==
    ASSUME TypeOK, StageOK, SaveInv, NEW c \in Clients, Accept(c)
    PROVE  SaveInv'
<1> DEFINE key == Head(rest[c])
           s == StatementFor(c, key)
<1>1. request[c] \in Requests /\ rest[c] \in Seq(Keys) /\ rest[c] # << >> /\ at[c] = "accept"
  BY DEF Accept, StageOK, TypeOK
<1>2. key \in Keys /\ Elements(rest[c]) = {key} \cup Elements(Tail(rest[c]))
  BY <1>1, HeadAndTail
<1>3. /\ s \in Statement /\ s.keys = {key}
      /\ request[c].op \in Saves /\ s.kind # "insert" => Sees(c, key)
  BY <1>1, <1>2, StatementSent
<1>4. /\ pending' = [pending EXCEPT ![c] = Append(@, s)]
      /\ rest' = [rest EXCEPT ![c] = Tail(@)]
      /\ at' = [at EXCEPT ![c] = IF Flushes(c) THEN "flush" ELSE "accept"]
      /\ UNCHANGED <<table, undo, request, changed, error, answer, calls>>
  BY DEF Accept
<1> HIDE DEF key, s
<1>5. ASSUME NEW d \in Clients \ {c} PROVE OwnSavesKept(d)'
  <2>1. /\ request'[d] = request[d] /\ at'[d] = at[d] /\ rest'[d] = rest[d]
        /\ pending'[d] = pending[d] /\ error'[d] = error[d] /\ answer'[d] = answer[d]
    BY <1>4 DEF TypeOK
  <2>2. OwnSavesKept(d)
    BY DEF SaveInv, SavesAreKept
  <2> QED
    BY <1>4, <2>1, <2>2, SameTable, OthersUndisturbed
<1>6. OwnSavesKept(c)'
  <2>1. /\ Elements(pending'[c]) = Elements(pending[c]) \cup {s}
        /\ rest'[c] = Tail(rest[c]) /\ at'[c] # "idle"
        /\ request'[c] = request[c] /\ error'[c] = error[c]
    BY <1>3, <1>4, AppendedElements DEF TypeOK
  <2>2. ASSUME request[c].op \in Saves, error[c] = NoAnswer, NEW k \in Ids(c) \cap Audited
        PROVE  ToDo(c, k)' \/ Kept(c, k)'
    <3>1. ToDo(c, k) \/ Kept(c, k)
      BY <1>1, <2>2 DEF SaveInv, SavesAreKept, OwnSavesKept
    <3>2. Kept(c, k) => Kept(c, k)'
      BY <1>4, SameTable
    <3>3. CASE k \in Elements(Tail(rest[c]))
      BY <2>1, <3>3 DEF ToDo
    <3>4. CASE \E t \in Elements(pending[c]) : t.kind = "insert" /\ k \in t.keys
      BY <2>1, <3>4 DEF ToDo
    <3>5. CASE k = key /\ s.kind = "insert"
      BY <1>3, <2>1, <3>5 DEF ToDo
    <3>6. CASE k = key /\ s.kind # "insert"
      BY <1>3, <2>2, <3>2, <3>6, SeenRowsAreKept
    <3> QED
      BY <1>2, <3>1, <3>2, <3>3, <3>4, <3>5, <3>6 DEF ToDo
  <2> QED
    BY <2>1, <2>2 DEF OwnSavesKept, Ids
<1> QED
  BY <1>4, <1>5, <1>6, SameTable DEF SaveInv, SavesAreKept

LEMMA ExecuteKeepsSaves ==
    ASSUME TypeOK, StageOK, AuditInv, SaveInv, NEW c \in Clients, Execute(c)
    PROVE  SaveInv'
<1> DEFINE s == Head(pending[c])
<1>1. /\ s \in Statement /\ Tail(pending[c]) \in Seq(Statement)
      /\ Elements(pending[c]) = {s} \cup Elements(Tail(pending[c]))
      /\ Unlocked(c, s)
      /\ \A k \in s.keys : s.kind = "insert" => table[k] = NoRow
      /\ table' = NewRows(s, c)
      /\ undo' = [undo EXCEPT ![c] =
           [k \in Keys |-> IF request[c].tx /\ undo[c][k] = Clean /\ k \in Found(s)
                             THEN table[k] ELSE undo[c][k]]]
      /\ pending' = [pending EXCEPT ![c] = Tail(@)]
      /\ error' = error
      /\ at' = [at EXCEPT ![c] = Proceed(c)]
      /\ UNCHANGED <<request, rest, answer, calls>>
  BY Executed
<1> HIDE DEF s
<1>2. StatementIsTrue(c, s)
  BY <1>1 DEF AuditInv, StatementsAreTrue
<1>3. \A k \in Keys \ s.keys : table'[k] = table[k] /\ undo'[c][k] = undo[c][k]
  BY <1>1 DEF NewRows, Found, TypeOK
<1>4. \A k \in s.keys, d \in Clients \ {c} : undo[d][k] = Clean
  BY <1>1 DEF Unlocked
<1>5. /\ \A k \in Keys : undo'[c][k] \in {undo[c][k], table[k]}
      /\ \A d \in Clients \ {c} : undo'[d] = undo[d]
  BY <1>1 DEF TypeOK
<1>6. ASSUME NEW k \in Audited
      PROVE  /\ table[k] # NoRow => table'[k] # NoRow
             /\ k \in s.keys /\ s.kind = "insert" => table'[k] # NoRow
  <2>1. k \in Keys /\ table[k] \in Row \cup {NoRow}
    BY RequestAssumption DEF TypeOK
  <2>2. ASSUME k \in s.keys
        PROVE  s.kind = "insert" \/ table[k] # NoRow => table'[k] # NoRow
    <3>1. table'[k] = After(c, s, table[k])
      BY <1>1, <2>1, <2>2 DEF NewRows
    <3> QED
      BY <1>1, <1>2, <2>1, <2>2, <3>1, RowAfter
  <2> QED
    BY <1>3, <2>1, <2>2
<1>7. OneWriter'
  <2> SUFFICES ASSUME NEW k \in Keys, NEW a \in Clients, NEW b \in Clients,
                      a # b, undo'[a][k] # Clean
               PROVE  undo'[b][k] = Clean
    BY DEF OneWriter
  <2>1. CASE k \in s.keys
    BY <1>4, <1>5, <2>1
  <2>2. CASE k \notin s.keys
    <3>1. undo'[a][k] = undo[a][k] /\ undo'[b][k] = undo[b][k]
      BY <1>3, <1>5, <2>2
    <3> QED
      BY <3>1 DEF SaveInv, OneWriter
  <2> QED
    BY <2>1, <2>2
<1>8. OnlyInsertionsVanish'
  <2> SUFFICES ASSUME NEW d \in Clients, NEW k \in Audited, undo'[d][k] \notin {Clean, NoRow}
               PROVE  table'[k] # NoRow
    BY DEF OnlyInsertionsVanish
  <2>1. undo'[d][k] \in {undo[d][k], table[k]}
    BY <1>5, RequestAssumption
  <2> QED
    BY <1>6, <2>1 DEF SaveInv, OnlyInsertionsVanish
<1>9. ASSUME NEW d \in Clients \ {c} PROVE OwnSavesKept(d)'
  <2>1. /\ request'[d] = request[d] /\ at'[d] = at[d] /\ rest'[d] = rest[d]
        /\ pending'[d] = pending[d] /\ error'[d] = error[d] /\ answer'[d] = answer[d]
    BY <1>1 DEF TypeOK
  <2>2. OwnSavesKept(d)
    BY DEF SaveInv, SavesAreKept
  <2>3. ASSUME NEW k \in Audited, Kept(d, k) PROVE Kept(d, k)'
    <3>1. k \in Keys
      BY RequestAssumption
    <3>2. ASSUME NEW e \in Clients \ {d} PROVE undo'[e][k] # NoRow
      BY <1>5, <2>3, <3>1 DEF Kept
    <3> QED
      BY <1>6, <2>3, <3>2 DEF Kept
  <2> QED
    BY <1>5, <2>1, <2>2, <2>3, OthersUndisturbed
<1>10. OwnSavesKept(c)'
  <2>1. at[c] = "flush" /\ request[c] \in Requests
    BY DEF Execute, StageOK
  <2>2. /\ pending'[c] = Tail(pending[c]) /\ rest'[c] = rest[c] /\ at'[c] # "idle"
        /\ request'[c] = request[c] /\ error'[c] = error[c]
    BY <1>1 DEF TypeOK, Proceed
  <2>3. ASSUME request[c].op \in Saves, error[c] = NoAnswer, NEW k \in Ids(c) \cap Audited
        PROVE  ToDo(c, k)' \/ Kept(c, k)'
    <3>1. ToDo(c, k) \/ Kept(c, k)
      BY <2>1, <2>3 DEF SaveInv, SavesAreKept, OwnSavesKept
    <3>2. CASE Kept(c, k)
      BY <1>5, <1>6, <3>2 DEF Kept
    <3>3. CASE k \in Elements(rest[c])
      BY <2>2, <3>3 DEF ToDo
    <3>4. CASE s.kind = "insert" /\ k \in s.keys
      BY <1>4, <1>5, <1>6, <3>4, RowsApart DEF Kept
    <3>5. CASE \E t \in Elements(Tail(pending[c])) : t.kind = "insert" /\ k \in t.keys
      BY <2>2, <3>5 DEF ToDo
    <3> QED
      BY <1>1, <3>1, <3>2, <3>3, <3>4, <3>5 DEF ToDo
  <2> QED
    BY <2>2, <2>3 DEF OwnSavesKept, Ids
<1> QED
  BY <1>7, <1>8, <1>9, <1>10 DEF SaveInv, SavesAreKept

LEMMA ThrowKeepsSaves ==
    ASSUME TypeOK, StageOK, SaveInv,
           NEW c \in Clients, NEW e \in Errors, at[c] = "flush", Throw(c, e)
    PROVE  SaveInv'
<1>1. /\ at' = [at EXCEPT ![c] = Proceed(c)]
      /\ UNCHANGED <<table, undo, request, rest, changed, answer, calls>>
  BY DEF Throw
<1>2. /\ \A d \in Clients \ {c} : pending'[d] = pending[d] /\ error'[d] = error[d]
      /\ error'[c] = e
  BY Thrown
<1>3. ASSUME NEW d \in Clients \ {c} PROVE OwnSavesKept(d)'
  <2>1. /\ request'[d] = request[d] /\ at'[d] = at[d] /\ rest'[d] = rest[d]
        /\ pending'[d] = pending[d] /\ error'[d] = error[d] /\ answer'[d] = answer[d]
    BY <1>1, <1>2 DEF TypeOK
  <2>2. OwnSavesKept(d)
    BY DEF SaveInv, SavesAreKept
  <2> QED
    BY <1>1, <2>1, <2>2, SameTable, OthersUndisturbed
<1>4. OwnSavesKept(c)'
  <2>1. at'[c] # "idle" /\ error'[c] # NoAnswer
    BY <1>1, <1>2, RowsApart DEF TypeOK, Proceed
  <2> QED
    BY <2>1 DEF OwnSavesKept
<1> QED
  BY <1>1, <1>3, <1>4, SameTable DEF SaveInv, SavesAreKept

LEMMA EndKeepsSaves ==
    ASSUME TypeOK, StageOK, SaveInv, NEW c \in Clients, End(c)
    PROVE  SaveInv'
<1>1. /\ at[c] = "end" /\ at' = [at EXCEPT ![c] = "idle"]
      /\ answer' = [answer EXCEPT ![c] = AnswerOf(c)]
      /\ table' = [k \in Keys |-> IF error[c] # NoAnswer /\ undo[c][k] # Clean
                                    THEN undo[c][k] ELSE table[k]]
      /\ undo' = [undo EXCEPT ![c] = [k \in Keys |-> Clean]]
      /\ UNCHANGED <<request, rest, pending, changed, error, calls>>
  BY DEF End
<1>2. /\ \A k \in Keys : undo'[c][k] = Clean
      /\ \A d \in Clients \ {c} : undo'[d] = undo[d]
      /\ \A k \in Keys : \/ table'[k] = table[k]
                         \/ table'[k] = undo[c][k] /\ undo[c][k] # Clean
  BY <1>1 DEF TypeOK
<1>3. OneWriter'
  BY <1>2 DEF SaveInv, OneWriter
<1>4. OnlyInsertionsVanish'
  <2> SUFFICES ASSUME NEW d \in Clients, NEW k \in Audited, undo'[d][k] \notin {Clean, NoRow}
               PROVE  table'[k] # NoRow
    BY DEF OnlyInsertionsVanish
  <2>1. k \in Keys /\ d # c
    BY <1>2, RequestAssumption
  <2>2. undo'[d][k] = undo[d][k] /\ undo[c][k] = Clean
    BY <1>2, <2>1 DEF SaveInv, OneWriter
  <2>3. table'[k] = table[k]
    BY <1>2, <2>1, <2>2
  <2> QED
    BY <2>2, <2>3 DEF SaveInv, OnlyInsertionsVanish
<1>5. ASSUME NEW d \in Clients \ {c} PROVE OwnSavesKept(d)'
  <2>1. /\ request'[d] = request[d] /\ at'[d] = at[d] /\ rest'[d] = rest[d]
        /\ pending'[d] = pending[d] /\ error'[d] = error[d] /\ answer'[d] = answer[d]
    BY <1>1 DEF TypeOK
  <2>2. OwnSavesKept(d)
    BY DEF SaveInv, SavesAreKept
  <2>3. ASSUME NEW k \in Audited, Kept(d, k) PROVE Kept(d, k)'
    <3>1. k \in Keys
      BY RequestAssumption
    <3>2. table'[k] # NoRow
      BY <1>2, <2>3, <3>1 DEF Kept
    <3>3. ASSUME NEW e \in Clients \ {d} PROVE undo'[e][k] # NoRow
      BY <1>2, <2>3, <3>1, RowsApart DEF Kept
    <3> QED
      BY <3>2, <3>3 DEF Kept
  <2> QED
    BY <1>2, <2>1, <2>2, <2>3, OthersUndisturbed
<1>6. OwnSavesKept(c)'
  <2>1. request[c] \in Requests /\ pending[c] = << >> /\ (error[c] = NoAnswer => rest[c] = << >>)
    BY <1>1 DEF StageOK
  <2>2. at'[c] = "idle" /\ request'[c] = request[c] /\ answer'[c] = AnswerOf(c)
    BY <1>1 DEF TypeOK
  <2>3. ASSUME request[c].op \in Saves, AnswerOf(c) = "true", NEW k \in Ids(c) \cap Audited
        PROVE  Kept(c, k)' /\ undo'[c][k] # NoRow
    <3>1. error[c] = NoAnswer
      BY <2>1, <2>3, AnswersTyped
    <3>2. ~ToDo(c, k)
      BY <2>1, <3>1, NoElements DEF ToDo
    <3>3. Kept(c, k) /\ k \in Keys
      BY <1>1, <2>1, <2>3, <3>1, <3>2, RequestAssumption
      DEF SaveInv, SavesAreKept, OwnSavesKept
    <3>4. table'[k] = table[k]
      BY <1>1, <3>1, <3>3
    <3> QED
      BY <1>2, <3>3, <3>4, RowsApart DEF Kept
  <2> QED
    BY <2>2, <2>3 DEF OwnSavesKept, Ids
<1> QED
  BY <1>3, <1>4, <1>5, <1>6 DEF SaveInv, SavesAreKept

LEMMA SaveStep ==
    TypeOK /\ StageOK /\ AuditInv /\ SaveInv /\ [Next]_vars => SaveInv'
<1> SUFFICES ASSUME TypeOK, StageOK, AuditInv, SaveInv, [Next]_vars PROVE SaveInv'
  OBVIOUS
<1>1. CASE Next
  <2>1. PICK c \in Clients :
          \/ Begin(c) \/ Accept(c) \/ Execute(c) \/ End(c)
          \/ \E e \in Errors : /\ at[c] = "flush" /\ Throw(c, e)
                               /\ e = "duplicate" => Duplicate(c)
    BY <1>1, Steps
  <2>2. ASSUME NEW e \in Errors, at[c] = "flush", Throw(c, e) PROVE SaveInv'
    BY <2>2, ThrowKeepsSaves
  <2>3. CASE Begin(c) \/ Accept(c) \/ Execute(c) \/ End(c)
    BY <2>3, BeginKeepsSaves, AcceptKeepsSaves, ExecuteKeepsSaves, EndKeepsSaves
  <2> QED
    BY <2>1, <2>2, <2>3
<1>2. CASE UNCHANGED vars
  BY <1>2 DEF vars, SaveInv, OneWriter, OnlyInsertionsVanish, SavesAreKept, OwnSavesKept,
              Kept, ToDo, Ids, Elements
<1> QED
  BY <1>1, <1>2

LEMMA KeptRowsAreCommitted ==
    TypeOK /\ SaveInv => SavedRowsExist
<1> SUFFICES ASSUME TypeOK, SaveInv, NEW c \in Clients, Over(c, Saves), answer[c] = "true",
                    NEW k \in Ids(c) \cap Audited
             PROVE  Committed(k) # NoRow
  BY DEF SavedRowsExist, Saves
<1>1. request[c] \in Requests /\ request[c].op \in Saves /\ at[c] = "idle"
  BY DEF Over, TypeOK
<1>2. Kept(c, k) /\ undo[c][k] # NoRow
  BY <1>1 DEF SaveInv, SavesAreKept, OwnSavesKept
<1> QED
  BY <1>2 DEF Kept, Committed

-----------------------------------------------------------------------------
(* What explains the answer of a single call.                              *)

LEMMA LaterIsTransitive ==
    ASSUME NEW u, NEW v, NEW w, Later(u, v), Later(v, w)
    PROVE  Later(u, w)
BY DEF Later

LEMMA LaterAfter ==
    ASSUME NEW c \in Clients, NEW s \in Statement, NEW k \in s.keys, k \in Audited,
           NEW row \in Row \cup {NoRow}, StatementIsTrue(c, s),
           s.kind = "insert" => row = NoRow
    PROVE  /\ Later(row, After(c, s, row))
           /\ Hits(s, row) => /\ After(c, s, row) # NoRow
                              /\ s.kind = "update" => After(c, s, row).wrote # "insert"
                              /\ s.kind = "remove" => After(c, s, row).deleted
           /\ ~Hits(s, row) => /\ s.kind # "insert" /\ After(c, s, row) = row
                               /\ row # NoRow => row.deleted
<1>1. s.kind \in {"insert", "update", "remove"}
  BY DEF Statement
<1>2. s.keys \subseteq Audited
  BY DEF StatementIsTrue
<1>3. Hits(s, row) => After(c, s, row) # NoRow
  BY RowAfter DEF Hits
<1>4. CASE ~Hits(s, row)
  <2>1. After(c, s, row) = row
    BY <1>1, <1>4 DEF After, Hits
  <2> QED
    BY <1>4, <2>1 DEF Later, Hits
<1>5. CASE s.kind = "insert"
  BY <1>3, <1>5 DEF Later, Hits
<1>6. CASE s.kind = "update" /\ Hits(s, row)
  <2> DEFINE creator == IF s.createBy = NoName THEN row.createBy ELSE s.createBy
             new == [row EXCEPT !.createBy = creator, !.updateBy = s.updateBy,
                                !.by = c, !.wrote = "update"]
  <2>1. After(c, s, row) = new
    BY <1>2, <1>6 DEF After
  <2>2. row \in Row /\ row # NoRow /\ ~row.deleted
    BY <1>6 DEF Hits
  <2>3. new.wrote = "update"
    BY <2>2 DEF Row
  <2> HIDE DEF new
  <2> QED
    BY <1>3, <1>6, <2>1, <2>2, <2>3 DEF Later
<1>7. CASE s.kind = "remove" /\ Hits(s, row)
  <2> DEFINE new == [row EXCEPT !.deleted = TRUE, !.by = c,
                                !.updateBy = s.updateBy, !.wrote = "remove"]
  <2>1. After(c, s, row) = new
    BY <1>2, <1>7 DEF After
  <2>2. row \in Row
    BY <1>7 DEF Hits
  <2>3. new.wrote = "remove" /\ new.deleted = TRUE
    BY <2>2 DEF Row
  <2> HIDE DEF new
  <2> QED
    BY <1>3, <1>7, <2>1, <2>3 DEF Later
<1> QED
  BY <1>1, <1>4, <1>5, <1>6, <1>7

(* One transaction at most has an older row.                               *)
LEMMA CommittedIs ==
    ASSUME OneWriter, NEW k \in Keys
    PROVE  /\ \A d \in Clients : undo[d][k] # Clean => Committed(k) = undo[d][k]
           /\ (\A d \in Clients : undo[d][k] = Clean) => Committed(k) = table[k]
<1>1. ASSUME NEW d \in Clients, undo[d][k] # Clean PROVE Committed(k) = undo[d][k]
  <2> DEFINE owner == CHOOSE e \in Clients : undo[e][k] # Clean
  <2>1. owner \in Clients /\ undo[owner][k] # Clean
    BY <1>1
  <2>2. Committed(k) = undo[owner][k]
    BY <1>1 DEF Committed
  <2> HIDE DEF owner
  <2> QED
    BY <1>1, <2>1, <2>2 DEF OneWriter
<1> QED
  BY <1>1 DEF Committed

LEMMA CommittedIsNext ==
    ASSUME OneWriter', NEW k \in Keys
    PROVE  /\ \A d \in Clients : undo'[d][k] # Clean => Committed(k)' = undo'[d][k]
           /\ (\A d \in Clients : undo'[d][k] = Clean) => Committed(k)' = table'[k]
<1>1. ASSUME NEW d \in Clients, undo'[d][k] # Clean PROVE Committed(k)' = undo'[d][k]
  <2> DEFINE owner == CHOOSE e \in Clients : undo'[e][k] # Clean
  <2>1. owner \in Clients /\ undo'[owner][k] # Clean
    BY <1>1
  <2>2. Committed(k)' = undo'[owner][k]
    BY <1>1 DEF Committed
  <2> HIDE DEF owner
  <2> QED
    BY <1>1, <2>1, <2>2 DEF OneWriter
<1> QED
  BY <1>1 DEF Committed

(* Nothing has happened to a row.                                          *)
LEMMA SameRow ==
    ASSUME OneWriter, OneWriter', NEW k \in Keys, table'[k] = table[k],
           \A d \in Clients : undo'[d][k] = undo[d][k]
    PROVE  \A c \in Clients : Mine(c, k)' = Mine(c, k)
<1>1. Committed(k)' = Committed(k)
  <2>1. CASE \E d \in Clients : undo[d][k] # Clean
    BY <2>1, CommittedIs, CommittedIsNext
  <2>2. CASE \A d \in Clients : undo[d][k] = Clean
    BY <2>2, CommittedIs, CommittedIsNext
  <2> QED
    BY <2>1, <2>2
<1> QED
  BY <1>1 DEF Mine

LEMMA SameRows ==
    ASSUME OneWriter, OneWriter', UNCHANGED <<table, undo>>,
           NEW c \in Clients, NEW k \in Audited
    PROVE  Mine(c, k)' = Mine(c, k)
BY SameRow, RequestAssumption

(* What Execute makes of a row and of what the clients see of it.          *)
LEMMA ExecuteGrows ==
    ASSUME TypeOK, StageOK, AuditInv, SaveInv, SaveInv', UndoIsOlder,
           NEW a \in Clients, Execute(a), NEW k \in Audited
    PROVE  /\ Later(table[k], table'[k])
           /\ \A c \in Clients : Later(Mine(c, k), Mine(c, k)')
           /\ \A d \in Clients : undo'[d][k] # Clean => Later(undo'[d][k], table'[k])
           /\ k \in Head(pending[a]).keys /\ undo[a][k] = Clean =>
                Mine(a, k) = table[k] /\ Mine(a, k)' = table'[k]
<1> DEFINE s == Head(pending[a])
<1>1. /\ s \in Statement /\ Unlocked(a, s)
      /\ Elements(pending[a]) = {s} \cup Elements(Tail(pending[a]))
      /\ \A key \in s.keys : s.kind = "insert" => table[key] = NoRow
      /\ table' = NewRows(s, a)
      /\ undo' = [undo EXCEPT ![a] =
           [key \in Keys |-> IF request[a].tx /\ undo[a][key] = Clean /\ key \in Found(s)
                               THEN table[key] ELSE undo[a][key]]]
  BY Executed
<1> HIDE DEF s
<1>2. StatementIsTrue(a, s) /\ k \in Keys /\ table[k] \in Row \cup {NoRow}
  BY <1>1, RequestAssumption DEF AuditInv, StatementsAreTrue, TypeOK
<1>3. \A d \in Clients \ {a} : undo'[d] = undo[d]
  BY <1>1 DEF TypeOK
<1>4. OneWriter /\ OneWriter'
  BY DEF SaveInv
<1>5. CASE k \notin s.keys
  <2>1. table'[k] = table[k] /\ \A d \in Clients : undo'[d][k] = undo[d][k]
    BY <1>1, <1>2, <1>3, <1>5 DEF NewRows, Found, TypeOK
  <2>2. \A c \in Clients : Mine(c, k)' = Mine(c, k)
    BY <1>2, <1>4, <2>1, SameRow
  <2> QED
    BY <1>5, <2>1, <2>2 DEF Later, UndoIsOlder, s
<1>6. CASE k \in s.keys
  <2>1. table'[k] = After(a, s, table[k])
    BY <1>1, <1>2, <1>6 DEF NewRows
  <2>2. Later(table[k], table'[k])
    BY <1>1, <1>2, <1>6, <2>1, LaterAfter
  <2>3. \A d \in Clients \ {a} : undo[d][k] = Clean /\ undo'[d][k] = Clean
    BY <1>1, <1>3, <1>6 DEF Unlocked
  <2>4. CASE undo[a][k] # Clean
    <3>1. undo'[a][k] = undo[a][k]
      BY <1>1, <1>2, <2>4 DEF TypeOK
    <3>2. Committed(k) = undo[a][k] /\ Committed(k)' = undo[a][k]
      BY <1>2, <1>4, <2>4, <3>1, CommittedIs, CommittedIsNext
    <3>3. Later(undo[a][k], table'[k])
      BY <2>2, <2>4, LaterIsTransitive DEF UndoIsOlder
    <3>4. ASSUME NEW c \in Clients PROVE Later(Mine(c, k), Mine(c, k)')
      <4>1. CASE c = a
        BY <2>2, <2>4, <3>1, <4>1 DEF Mine
      <4>2. CASE c # a
        BY <2>3, <3>2, <4>2 DEF Mine, Later
      <4> QED
        BY <4>1, <4>2
    <3> QED
      BY <2>2, <2>3, <2>4, <3>1, <3>3, <3>4
  <2>5. CASE undo[a][k] = Clean
    <3>1. undo'[a][k] \in {Clean, table[k]}
      BY <1>1, <1>2, <2>5 DEF TypeOK
    <3>2. Committed(k) = table[k]
      BY <1>2, <1>4, <2>3, <2>5, CommittedIs
    <3>3. CASE undo'[a][k] = Clean
      <4>1. Committed(k)' = table'[k]
        BY <1>2, <1>4, <2>3, <3>3, CommittedIsNext
      <4>2. \A c \in Clients : Mine(c, k) = table[k] /\ Mine(c, k)' = table'[k]
        BY <2>3, <2>5, <3>2, <3>3, <4>1 DEF Mine
      <4> QED
        BY <2>2, <2>3, <3>3, <4>2
    <3>4. CASE undo'[a][k] # Clean
      <4>1. undo'[a][k] = table[k] /\ Committed(k)' = table[k]
        BY <1>2, <1>4, <3>1, <3>4, CommittedIsNext
      <4>2. /\ \A c \in Clients : Mine(c, k) = table[k]
            /\ \A c \in Clients \ {a} : Mine(c, k)' = table[k]
            /\ Mine(a, k)' = table'[k]
        BY <2>3, <2>5, <3>2, <3>4, <4>1 DEF Mine
      <4>3. Later(table[k], table[k])
        BY DEF Later
      <4> QED
        BY <2>2, <2>3, <4>1, <4>2, <4>3
    <3> QED
      BY <3>3, <3>4
  <2> QED
    BY <2>4, <2>5
<1> QED
  BY <1>5, <1>6

(* The end of a call shows its rows to the others, or brings old ones back.*)
LEMMA EndGrows ==
    ASSUME TypeOK, StageOK, SaveInv, SaveInv', UndoIsOlder,
           NEW a \in Clients, End(a), NEW k \in Audited
    PROVE  /\ \A c \in Clients :
                c # a \/ error[a] = NoAnswer \/ undo[a][k] = Clean
                  => Later(Mine(c, k), Mine(c, k)')
           /\ \A d \in Clients : undo'[d][k] # Clean => Later(undo'[d][k], table'[k])
<1>1. /\ table' = [key \in Keys |-> IF error[a] # NoAnswer /\ undo[a][key] # Clean
                                      THEN undo[a][key] ELSE table[key]]
      /\ undo' = [undo EXCEPT ![a] = [key \in Keys |-> Clean]]
  BY DEF End
<1>2. k \in Keys /\ OneWriter /\ OneWriter'
  BY RequestAssumption DEF SaveInv
<1>3. undo'[a][k] = Clean /\ \A d \in Clients \ {a} : undo'[d] = undo[d]
  BY <1>1, <1>2 DEF TypeOK
<1>4. CASE undo[a][k] = Clean
  <2>1. table'[k] = table[k] /\ \A d \in Clients : undo'[d][k] = undo[d][k]
    BY <1>1, <1>2, <1>3, <1>4 DEF TypeOK
  <2>2. \A c \in Clients : Mine(c, k)' = Mine(c, k)
    BY <1>2, <2>1, SameRow
  <2> QED
    BY <2>1, <2>2 DEF Later, UndoIsOlder
<1>5. CASE undo[a][k] # Clean
  <2>1. \A d \in Clients \ {a} : undo[d][k] = Clean /\ undo'[d][k] = Clean
    BY <1>2, <1>3, <1>5 DEF OneWriter
  <2>2. Committed(k) = undo[a][k] /\ Committed(k)' = table'[k]
    BY <1>2, <1>3, <1>5, <2>1, CommittedIs, CommittedIsNext
  <2>3. /\ Mine(a, k) = table[k] /\ \A c \in Clients \ {a} : Mine(c, k) = undo[a][k]
        /\ \A c \in Clients : Mine(c, k)' = table'[k]
    BY <1>3, <1>5, <2>1, <2>2 DEF Mine
  <2>4. Later(undo[a][k], table[k]) /\ Later(table[k], table[k]) /\ Later(undo[a][k], undo[a][k])
    BY <1>5 DEF UndoIsOlder, Later
  <2>5. IF error[a] # NoAnswer THEN table'[k] = undo[a][k] ELSE table'[k] = table[k]
    BY <1>1, <1>2, <1>5
  <2> QED
    BY <1>3, <1>5, <2>1, <2>3, <2>4, <2>5
<1> QED
  BY <1>4, <1>5

LEMMA LaterExplains ==
    ASSUME NEW op, NEW said, NEW u, NEW t, Explains(op, said, u), Later(u, t)
    PROVE  Explains(op, said, t)
BY DEF Explains, Later

(* A step of another client, after which the row is a later one.           *)
LEMMA SingleUndisturbed ==
    ASSUME NEW c \in Clients, NEW k \in Audited, IsSingle(c, k) => SingleIsExplained(c, k),
           request'[c] = request[c], at'[c] = at[c], rest'[c] = rest[c],
           pending'[c] = pending[c], error'[c] = error[c], answer'[c] = answer[c],
           changed'[c] = changed[c], undo'[c] = undo[c],
           Later(Mine(c, k), Mine(c, k)')
    PROVE  IsSingle(c, k)' => SingleIsExplained(c, k)'
<1> SUFFICES ASSUME IsSingle(c, k)' PROVE SingleIsExplained(c, k)'
  OBVIOUS
<1>1. SingleIsExplained(c, k)
  BY DEF IsSingle
<1>2. Untouched(c, k) => Untouched(c, k)'
  BY DEF Untouched
<1>3. \A s : SingleStatement(c, k, s) => SingleStatement(c, k, s)'
  BY DEF SingleStatement, Later
<1>4. AnswerOf(c)' = AnswerOf(c)
  BY DEF AnswerOf, OneStatement
<1>5. \A op, said : Explains(op, said, Mine(c, k)) => Explains(op, said, Mine(c, k)')
  BY LaterExplains
<1> QED
  BY <1>1, <1>2, <1>3, <1>4, <1>5 DEF SingleIsExplained

LEMMA AnswerInit == Init => AnswerInv
<1> SUFFICES ASSUME Init PROVE AnswerInv
  OBVIOUS
<1>1. UndoIsOlder /\ IdleIsClean
  BY RequestAssumption DEF Init, UndoIsOlder, IdleIsClean
<1>2. \A c \in Clients, k \in Audited : ~IsSingle(c, k)
  BY RowsApart DEF Init, IsSingle
<1> QED
  BY <1>1, <1>2 DEF AnswerInv, SinglesAreExplained

(* Steps that write no row.                                                *)
LEMMA SameTableAnswers ==
    ASSUME AnswerInv, SaveInv, SaveInv', NEW c \in Clients, UNCHANGED <<table, undo>>,
           \A d \in Clients \ {c} :
               /\ request'[d] = request[d] /\ at'[d] = at[d] /\ rest'[d] = rest[d]
               /\ pending'[d] = pending[d] /\ error'[d] = error[d] /\ answer'[d] = answer[d]
               /\ changed'[d] = changed[d],
           at'[c] = "idle" => \A k \in Keys : undo[c][k] = Clean,
           \A k \in Audited : IsSingle(c, k)' => SingleIsExplained(c, k)'
    PROVE  AnswerInv'
<1>1. UndoIsOlder'
  BY DEF AnswerInv, UndoIsOlder
<1>2. IdleIsClean'
  BY DEF AnswerInv, IdleIsClean
<1>3. ASSUME NEW d \in Clients, NEW k \in Audited, d # c
      PROVE  IsSingle(d, k)' => SingleIsExplained(d, k)'
  <2>1. Later(Mine(d, k), Mine(d, k)')
    BY SameRows DEF SaveInv, Later
  <2>2. IsSingle(d, k) => SingleIsExplained(d, k)
    BY DEF AnswerInv, SinglesAreExplained
  <2> QED
    BY <1>3, <2>1, <2>2, SingleUndisturbed
<1> QED
  BY <1>1, <1>2, <1>3 DEF AnswerInv, SinglesAreExplained

LEMMA BeginKeepsAnswers ==
    ASSUME TypeOK, StageOK, SaveInv, SaveInv', AnswerInv, NEW c \in Clients, Begin(c)
    PROVE  AnswerInv'
<1>1. PICK r \in Requests :
        /\ request' = [request EXCEPT ![c] = r]
        /\ at' = [at EXCEPT ![c] = IF r.list = << >> THEN "idle"
                                   ELSE IF OneStatement(r) THEN "flush" ELSE "accept"]
        /\ rest' = [rest EXCEPT ![c] = IF OneStatement(r) THEN << >> ELSE r.list]
        /\ ~OneStatement(r) => pending'[c] = << >>
        /\ \A d \in Clients \ {c} : pending'[d] = pending[d] /\ answer'[d] = answer[d]
  BY DEF Begin, TypeOK
<1>2. /\ at[c] = "idle" /\ UNCHANGED <<table, undo>>
      /\ changed' = [changed EXCEPT ![c] = {}] /\ error' = [error EXCEPT ![c] = NoAnswer]
  BY DEF Begin
<1>3. \A k \in Keys : undo[c][k] = Clean
  BY <1>2 DEF AnswerInv, IdleIsClean
<1>4. ASSUME NEW k \in Audited, IsSingle(c, k)' PROVE SingleIsExplained(c, k)'
  <2>1. r.op \in Singles /\ r.list = <<k>> /\ k \in Keys
    BY <1>1, <1>4, RequestAssumption DEF IsSingle, TypeOK
  <2>2. ~OneStatement(r) /\ r.list # << >>
    BY <2>1 DEF OneStatement, Singles
  <2>3. at'[c] = "accept" /\ rest'[c] = <<k>> /\ pending'[c] = << >>
    BY <1>1, <2>1, <2>2 DEF TypeOK
  <2>4. Untouched(c, k)'
    BY <1>2, <1>3, <2>1 DEF Untouched, TypeOK
  <2> QED
    BY <2>3, <2>4 DEF SingleIsExplained
<1>5. \A d \in Clients \ {c} :
          /\ request'[d] = request[d] /\ at'[d] = at[d] /\ rest'[d] = rest[d]
          /\ pending'[d] = pending[d] /\ error'[d] = error[d] /\ answer'[d] = answer[d]
          /\ changed'[d] = changed[d]
  BY <1>1, <1>2 DEF TypeOK
<1> QED
  BY <1>2, <1>3, <1>4, <1>5, SameTableAnswers

LEMMA AcceptKeepsAnswers ==
    ASSUME TypeOK, StageOK, SaveInv, SaveInv', AnswerInv, NEW c \in Clients, Accept(c)
    PROVE  AnswerInv'
<1>1. /\ at[c] = "accept" /\ pending' = [pending EXCEPT ![c] = Append(@, StatementFor(c, Head(rest[c])))]
      /\ rest' = [rest EXCEPT ![c] = Tail(@)]
      /\ at' = [at EXCEPT ![c] = IF Flushes(c) THEN "flush" ELSE "accept"]
      /\ UNCHANGED <<table, undo, request, changed, error, answer, calls>>
  BY DEF Accept
<1>2. ASSUME NEW k \in Audited, IsSingle(c, k)' PROVE SingleIsExplained(c, k)'
  <2>1. IsSingle(c, k)
    BY <1>1, <1>2 DEF IsSingle
  <2>2. /\ Untouched(c, k) /\ rest[c] = <<k>> /\ pending[c] = << >>
        /\ request[c] \in Requests /\ k \in Keys
    BY <1>1, <2>1, RequestAssumption DEF AnswerInv, SinglesAreExplained, SingleIsExplained, IsSingle
  <2>3. Head(rest[c]) = k /\ Tail(rest[c]) = << >>
    BY <2>2
  <2>4. PICK s \in Statement :
          /\ s = StatementFor(c, k) /\ s.keys = {k}
          /\ request[c].op = "updateById" => s.kind = "update"
          /\ request[c].op = "removeById" => s.kind = "remove"
          /\ request[c].op = "saveOrUpdate" /\ s.kind # "insert" => Sees(c, k)
    <3> DEFINE s == StatementFor(c, k)
    <3>1. s \in Statement /\ s.keys = {k}
      BY <2>2, StatementSent
    <3>2. request[c].op = "updateById" => s.kind = "update"
      BY DEF StatementFor, UpdateFill
    <3>3. request[c].op = "removeById" => s.kind = "remove"
      BY DEF StatementFor, RemoveFilled
    <3>4. request[c].op = "saveOrUpdate" /\ s.kind # "insert" => Sees(c, k)
      BY <2>2, StatementSent DEF Saves
    <3> QED
      BY <3>1, <3>2, <3>3, <3>4
  <2>5. pending'[c] = <<s>> /\ rest'[c] = << >>
    BY <1>1, <2>2, <2>3, <2>4 DEF TypeOK
  <2>6. at'[c] = "flush"
    BY <1>1, <2>5 DEF Flushes, TypeOK
  <2>7. Mine(c, k)' = Mine(c, k)
    BY <1>1, SameRows DEF SaveInv
  <2>8. Sees(c, k) => Mine(c, k) # NoRow
    BY DEF Sees, Mine
  <2>9. SingleStatement(c, k, s)'
    BY <1>1, <2>4, <2>5, <2>7, <2>8 DEF SingleStatement
  <2>10. Untouched(c, k)'
    BY <1>1, <2>2 DEF Untouched
  <2> QED
    BY <2>4, <2>5, <2>6, <2>9, <2>10 DEF SingleIsExplained
<1>3. \A d \in Clients \ {c} :
          /\ request'[d] = request[d] /\ at'[d] = at[d] /\ rest'[d] = rest[d]
          /\ pending'[d] = pending[d] /\ error'[d] = error[d] /\ answer'[d] = answer[d]
          /\ changed'[d] = changed[d]
  BY <1>1 DEF TypeOK
<1>4. at'[c] # "idle"
  BY <1>1 DEF TypeOK
<1> QED
  BY <1>1, <1>2, <1>3, <1>4, SameTableAnswers

LEMMA SingleAnswer ==
    ASSUME NEW c \in Clients, request'[c].op \in Singles
    PROVE  /\ error'[c] # NoAnswer => AnswerOf(c)' = error'[c]
           /\ error'[c] = NoAnswer => AnswerOf(c)' = IF changed'[c] # {} THEN "true" ELSE "false"
BY DEF AnswerOf, Singles, Batches

(* The statement of a single call is executed.                             *)
LEMMA SingleExecuted ==
    ASSUME TypeOK, StageOK, AuditInv, SaveInv, SaveInv', AnswerInv,
           NEW c \in Clients, Execute(c), NEW k \in Audited, IsSingle(c, k)
    PROVE  SingleIsExplained(c, k)'
<1>1. at[c] = "flush"
  BY DEF Execute
<1>2. /\ Untouched(c, k) /\ rest[c] = << >>
      /\ \E s \in Statement : SingleStatement(c, k, s)
  BY <1>1 DEF AnswerInv, SinglesAreExplained, SingleIsExplained
<1>3. PICK s \in Statement : SingleStatement(c, k, s)
  BY <1>2
<1>4. pending[c] = <<s>> /\ s.keys = {k} /\ Head(pending[c]) = s /\ Tail(pending[c]) = << >>
  BY <1>3 DEF SingleStatement
<1>5. /\ table' = NewRows(s, c)
      /\ s.kind = "insert" => table[k] = NoRow
      /\ changed' = [changed EXCEPT ![c] = @ \cup Found(s)]
      /\ pending' = [pending EXCEPT ![c] = Tail(@)]
      /\ error' = error
      /\ at' = [at EXCEPT ![c] = Proceed(c)]
      /\ UNCHANGED <<request, rest, answer, calls>>
      /\ Elements(pending[c]) = {s} \cup Elements(Tail(pending[c]))
  BY <1>4, Executed
<1>6. k \in Keys /\ table[k] \in Row \cup {NoRow} /\ StatementIsTrue(c, s)
  BY <1>5, RequestAssumption DEF TypeOK, AuditInv, StatementsAreTrue
<1>7. Mine(c, k) = table[k] /\ Mine(c, k)' = table'[k]
  BY <1>2, <1>4, ExecuteGrows DEF AnswerInv, Untouched
<1>8. pending'[c] = << >> /\ error'[c] = NoAnswer
  BY <1>2, <1>4, <1>5 DEF Untouched, TypeOK
<1>9. at'[c] = "end"
  BY <1>2, <1>5, <1>8 DEF Proceed, TypeOK
<1>10. changed'[c] = IF Hits(s, table[k]) THEN {k} ELSE {}
  BY <1>2, <1>4, <1>5 DEF Untouched, Found, TypeOK
<1>11. table'[k] = After(c, s, table[k])
  BY <1>4, <1>5, <1>6 DEF NewRows
<1>12. AnswerOf(c)' = IF Hits(s, table[k]) THEN "true" ELSE "false"
  <2>1. request'[c].op \in Singles
    BY <1>5 DEF IsSingle
  <2>2. AnswerOf(c)' = IF changed'[c] # {} THEN "true" ELSE "false"
    BY <1>8, <2>1, SingleAnswer
  <2> QED
    BY <1>10, <2>2
<1>13. Explains(request[c].op, AnswerOf(c)', table'[k])
  <2>1. CASE Hits(s, table[k])
    <3>1. /\ table'[k] # NoRow
          /\ s.kind = "update" => table'[k].wrote # "insert"
          /\ s.kind = "remove" => table'[k].deleted
      BY <1>4, <1>5, <1>6, <1>11, <2>1, LaterAfter
    <3> QED
      BY <1>3, <1>12, <2>1, <3>1 DEF Explains, SingleStatement
  <2>2. CASE ~Hits(s, table[k])
    <3>1. /\ s.kind # "insert" /\ table'[k] = table[k]
          /\ table[k] # NoRow => table[k].deleted
      BY <1>4, <1>5, <1>6, <1>11, <2>2, LaterAfter
    <3> QED
      BY <1>3, <1>7, <1>12, <2>2, <3>1 DEF Explains, SingleStatement
  <2> QED
    BY <2>1, <2>2
<1> QED
  BY <1>5, <1>7, <1>8, <1>9, <1>13 DEF SingleIsExplained

LEMMA ExecuteKeepsAnswers ==
    ASSUME TypeOK, StageOK, AuditInv, SaveInv, SaveInv', AnswerInv,
           NEW c \in Clients, Execute(c)
    PROVE  AnswerInv'
<1>1. /\ changed' = [changed EXCEPT ![c] = @ \cup Found(Head(pending[c]))]
      /\ \A d \in Clients \ {c} : undo'[d] = undo[d]
      /\ pending' = [pending EXCEPT ![c] = Tail(@)]
      /\ error' = error
      /\ at' = [at EXCEPT ![c] = Proceed(c)]
      /\ UNCHANGED <<request, rest, answer, calls>>
  BY Executed DEF TypeOK
<1>2. /\ \A k \in Audited, d \in Clients :
           /\ Later(Mine(d, k), Mine(d, k)')
           /\ undo'[d][k] # Clean => Later(undo'[d][k], table'[k])
  BY ExecuteGrows DEF AnswerInv
<1>3. UndoIsOlder'
  BY <1>2 DEF UndoIsOlder
<1>4. IdleIsClean'
  <2>1. at'[c] # "idle"
    BY <1>1 DEF TypeOK, Proceed
  <2>2. \A d \in Clients \ {c} : at'[d] = at[d]
    BY <1>1 DEF TypeOK
  <2> QED
    BY <1>1, <2>1, <2>2 DEF AnswerInv, IdleIsClean
<1>5. ASSUME NEW d \in Clients, NEW k \in Audited, d # c
      PROVE  IsSingle(d, k)' => SingleIsExplained(d, k)'
  <2>1. /\ request'[d] = request[d] /\ at'[d] = at[d] /\ rest'[d] = rest[d]
        /\ pending'[d] = pending[d] /\ error'[d] = error[d] /\ answer'[d] = answer[d]
        /\ changed'[d] = changed[d] /\ undo'[d] = undo[d]
    BY <1>1, <1>5 DEF TypeOK
  <2>2. IsSingle(d, k) => SingleIsExplained(d, k)
    BY DEF AnswerInv, SinglesAreExplained
  <2> QED
    BY <1>2, <2>1, <2>2, SingleUndisturbed
<1>6. ASSUME NEW k \in Audited, IsSingle(c, k)' PROVE SingleIsExplained(c, k)'
  <2>1. IsSingle(c, k)
    BY <1>1, <1>6 DEF IsSingle
  <2> QED
    BY <2>1, SingleExecuted
<1> QED
  BY <1>3, <1>4, <1>5, <1>6 DEF AnswerInv, SinglesAreExplained

LEMMA ThrowKeepsAnswers ==
    ASSUME TypeOK, StageOK, SaveInv, SaveInv', AnswerInv, NEW c \in Clients,
           NEW e \in Errors, at[c] = "flush", Throw(c, e), e = "duplicate" => Duplicate(c)
    PROVE  AnswerInv'
<1>1. /\ at' = [at EXCEPT ![c] = Proceed(c)]
      /\ error' = [error EXCEPT ![c] = e]
      /\ UNCHANGED <<table, undo, request, rest, changed, answer, calls>>
      /\ pending' \in {[pending EXCEPT ![c] = Tail(@)], [pending EXCEPT ![c] = << >>]}
  BY DEF Throw
<1>2. \A d \in Clients \ {c} :
          /\ request'[d] = request[d] /\ at'[d] = at[d] /\ rest'[d] = rest[d]
          /\ pending'[d] = pending[d] /\ error'[d] = error[d] /\ answer'[d] = answer[d]
          /\ changed'[d] = changed[d]
  BY <1>1 DEF TypeOK
<1>3. at'[c] # "idle"
  BY <1>1 DEF TypeOK, Proceed
<1>4. ASSUME NEW k \in Audited, IsSingle(c, k)' PROVE SingleIsExplained(c, k)'
  <2>1. IsSingle(c, k) /\ k \in Keys
    BY <1>1, <1>4, RequestAssumption DEF IsSingle
  <2>2. Untouched(c, k) /\ rest[c] = << >> /\ \E s \in Statement : SingleStatement(c, k, s)
    BY <2>1 DEF AnswerInv, SinglesAreExplained, SingleIsExplained
  <2>3. PICK s \in Statement : SingleStatement(c, k, s)
    BY <2>2
  <2>4. pending[c] = <<s>> /\ s.keys = {k} /\ Head(pending[c]) = s /\ Tail(pending[c]) = << >>
    BY <2>3 DEF SingleStatement
  <2>5. pending'[c] = << >>
    BY <1>1, <2>4 DEF TypeOK
  <2>6. error'[c] = e /\ error'[c] # NoAnswer
    BY <1>1, RowsApart DEF TypeOK
  <2>7. at'[c] = "end"
    BY <1>1, <2>5, <2>6 DEF Proceed, TypeOK
  <2>8. AnswerOf(c)' = e
    BY <1>4, <2>6, SingleAnswer DEF IsSingle
  <2>9. e = "duplicate" => Mine(c, k) # NoRow
    <3> SUFFICES ASSUME e = "duplicate" PROVE Mine(c, k) # NoRow
      OBVIOUS
    <3>1. Unlocked(c, s) /\ table[k] # NoRow
      BY <2>4 DEF Duplicate
    <3>2. \A d \in Clients : undo[d][k] = Clean
      BY <2>2, <2>4, <3>1 DEF Unlocked, Untouched
    <3>3. Committed(k) = table[k]
      BY <2>1, <3>2, CommittedIs DEF SaveInv
    <3> QED
      BY <3>1, <3>2, <3>3 DEF Mine
  <2>10. Explains(request[c].op, e, Mine(c, k))
    BY <2>9 DEF Explains, Errors
  <2>11. Mine(c, k)' = Mine(c, k)
    BY <1>1, SameRows DEF SaveInv
  <2>12. undo'[c][k] = Clean
    BY <1>1, <2>2 DEF Untouched
  <2> QED
    BY <1>1, <2>7, <2>8, <2>10, <2>11, <2>12 DEF SingleIsExplained
<1> QED
  BY <1>1, <1>2, <1>3, <1>4, SameTableAnswers

LEMMA EndKeepsAnswers ==
    ASSUME TypeOK, StageOK, SaveInv, SaveInv', AnswerInv, NEW c \in Clients, End(c)
    PROVE  AnswerInv'
<1>1. /\ at[c] = "end" /\ at' = [at EXCEPT ![c] = "idle"]
      /\ answer' = [answer EXCEPT ![c] = AnswerOf(c)]
      /\ undo' = [undo EXCEPT ![c] = [k \in Keys |-> Clean]]
      /\ UNCHANGED <<request, rest, pending, changed, error, calls>>
  BY DEF End
<1>2. \A k \in Audited : \A d \in Clients :
          /\ d # c \/ error[c] = NoAnswer \/ undo[c][k] = Clean => Later(Mine(d, k), Mine(d, k)')
          /\ undo'[d][k] # Clean => Later(undo'[d][k], table'[k])
  BY EndGrows DEF AnswerInv
<1>3. UndoIsOlder'
  BY <1>2 DEF UndoIsOlder
<1>4. IdleIsClean'
  BY <1>1 DEF AnswerInv, IdleIsClean, TypeOK
<1>5. ASSUME NEW d \in Clients, NEW k \in Audited, d # c
      PROVE  IsSingle(d, k)' => SingleIsExplained(d, k)'
  <2>1. /\ request'[d] = request[d] /\ at'[d] = at[d] /\ rest'[d] = rest[d]
        /\ pending'[d] = pending[d] /\ error'[d] = error[d] /\ answer'[d] = answer[d]
        /\ changed'[d] = changed[d] /\ undo'[d] = undo[d]
    BY <1>1, <1>5 DEF TypeOK
  <2>2. IsSingle(d, k) => SingleIsExplained(d, k)
    BY DEF AnswerInv, SinglesAreExplained
  <2> QED
    BY <1>2, <1>5, <2>1, <2>2, SingleUndisturbed
<1>6. ASSUME NEW k \in Audited, IsSingle(c, k)' PROVE SingleIsExplained(c, k)'
  <2>1. IsSingle(c, k)
    BY <1>1, <1>6 DEF IsSingle
  <2>2. /\ Explains(request[c].op, AnswerOf(c), Mine(c, k))
        /\ error[c] # NoAnswer => undo[c][k] = Clean
    BY <1>1, <2>1 DEF AnswerInv, SinglesAreExplained, SingleIsExplained
  <2>3. Later(Mine(c, k), Mine(c, k)')
    BY <1>2, <2>2
  <2>4. Explains(request[c].op, AnswerOf(c), Mine(c, k)')
    BY <2>2, <2>3, LaterExplains
  <2>5. at'[c] = "idle" /\ answer'[c] = AnswerOf(c) /\ request'[c] = request[c]
    BY <1>1 DEF TypeOK
  <2> QED
    BY <2>4, <2>5 DEF SingleIsExplained
<1> QED
  BY <1>3, <1>4, <1>5, <1>6 DEF AnswerInv, SinglesAreExplained

LEMMA AnswerStep ==
    TypeOK /\ StageOK /\ AuditInv /\ SaveInv /\ SaveInv' /\ AnswerInv /\ [Next]_vars => AnswerInv'
<1> SUFFICES ASSUME TypeOK, StageOK, AuditInv, SaveInv, SaveInv', AnswerInv, [Next]_vars
             PROVE  AnswerInv'
  OBVIOUS
<1>1. CASE Next
  <2>1. PICK c \in Clients :
          \/ Begin(c) \/ Accept(c) \/ Execute(c) \/ End(c)
          \/ \E e \in Errors : /\ at[c] = "flush" /\ Throw(c, e)
                               /\ e = "duplicate" => Duplicate(c)
    BY <1>1, Steps
  <2>2. ASSUME NEW e \in Errors, at[c] = "flush", Throw(c, e),
               e = "duplicate" => Duplicate(c)
        PROVE  AnswerInv'
    BY <2>2, ThrowKeepsAnswers
  <2>3. CASE Begin(c) \/ Accept(c) \/ Execute(c) \/ End(c)
    BY <2>3, BeginKeepsAnswers, AcceptKeepsAnswers, ExecuteKeepsAnswers, EndKeepsAnswers
  <2> QED
    BY <2>1, <2>2, <2>3
<1>2. CASE UNCHANGED vars
  <2>1. UndoIsOlder' /\ IdleIsClean'
    BY <1>2 DEF vars, AnswerInv, UndoIsOlder, IdleIsClean
  <2>2. ASSUME NEW c \in Clients, NEW k \in Audited
        PROVE  IsSingle(c, k)' => SingleIsExplained(c, k)'
    <3>1. Later(Mine(c, k), Mine(c, k)')
      BY <1>2, SameRows DEF vars, SaveInv, Later
    <3>2. IsSingle(c, k) => SingleIsExplained(c, k)
      BY DEF AnswerInv, SinglesAreExplained
    <3> QED
      BY <1>2, <3>1, <3>2, SingleUndisturbed DEF vars
  <2> QED
    BY <2>1, <2>2 DEF AnswerInv, SinglesAreExplained
<1> QED
  BY <1>1, <1>2

LEMMA ExplainedAnswers ==
    TypeOK /\ AnswerInv => AnswersExplained
<1> SUFFICES ASSUME TypeOK, AnswerInv, NEW c \in Clients, NEW k \in Audited,
                    Over(c, Singles), request[c].list = <<k>>
             PROVE  LET row == Committed(k) IN
                    /\ answer[c] = "duplicate" => row # NoRow
                    /\ answer[c] = "true" => row # NoRow
                    /\ answer[c] = "true" /\ request[c].op = "updateById" => row.wrote # "insert"
                    /\ answer[c] = "true" /\ request[c].op = "removeById" => row.deleted
                    /\ answer[c] = "false" /\ request[c].op = "saveOrUpdate" =>
                         row # NoRow /\ row.deleted
  BY DEF AnswersExplained
<1>1. IsSingle(c, k) /\ at[c] = "idle" /\ k \in Keys
  BY RequestAssumption DEF Over, IsSingle, TypeOK
<1>2. Explains(request[c].op, answer[c], Mine(c, k)) /\ undo[c][k] = Clean
  BY <1>1 DEF AnswerInv, SinglesAreExplained, SingleIsExplained, IdleIsClean
<1> QED
  BY <1>2 DEF Explains, Mine

-----------------------------------------------------------------------------
(* How far a batch without a transaction has come.                         *)

LEMMA NextMultiple ==
    ASSUME NEW n \in Nat, NEW size \in Nat \ {0}, n % size = 0
    PROVE  (n + size) % size = 0
<1>1. PICK q \in Nat : n = q * size
  <2>1. n \div size \in Nat /\ n = (n \div size) * size + (n % size)
    OBVIOUS
  <2> QED
    BY <2>1
<1>2. n + size = (q + 1) * size /\ q + 1 \in Nat
  BY <1>1
<1>3. ((q + 1) * size) % size = 0
  BY <1>2
<1> QED
  BY <1>2, <1>3

LEMMA EmptyPrefix == ASSUME NEW list \in Seq(Keys) PROVE Prefix(list, 0) = {}
BY DEF Prefix

LEMMA LongerPrefix ==
    ASSUME NEW list \in Seq(Keys), NEW m \in Nat, NEW n \in 0 .. m
    PROVE  Prefix(list, n) \subseteq Prefix(list, m)
BY DEF Prefix

LEMMA NextOfPrefix ==
    ASSUME NEW list \in Seq(Keys), NEW n \in 0 .. Len(list) - 1
    PROVE  Prefix(list, n + 1) = Prefix(list, n) \cup {list[n + 1]}
<1>1. n + 1 \in DOMAIN list /\ DOMAIN list \subseteq Nat
  OBVIOUS
<1>2. {j \in DOMAIN list : j \leq n + 1} = {j \in DOMAIN list : j \leq n} \cup {n + 1}
  BY <1>1
<1> QED
  BY <1>2 DEF Prefix

LEMMA KeysOfOneMore ==
    ASSUME NEW S, NEW e
    PROVE  UNION {s.keys : s \in S \cup {e}} = (UNION {s.keys : s \in S}) \cup e.keys
OBVIOUS

LEMMA BatchInit == Init => BatchInv
BY RowsApart DEF Init, BatchInv, SlicesInOrder

LEMMA BatchUndisturbed ==
    ASSUME NEW c \in Clients, SlicesInOrder(c),
           request'[c] = request[c], at'[c] = at[c], rest'[c] = rest[c],
           pending'[c] = pending[c], changed'[c] = changed[c],
           error'[c] = error[c], answer'[c] = answer[c]
    PROVE  SlicesInOrder(c)'
BY DEF SlicesInOrder, InOrder, SliceBegins, Resumable, Accepted, Collected

LEMMA BeginKeepsSlices ==
    ASSUME TypeOK, NEW c \in Clients, SlicesInOrder(c), Begin(c)
    PROVE  SlicesInOrder(c)'
<1> SUFFICES ASSUME request'[c].op = "saveBatch" PROVE SlicesInOrder(c)'
  BY DEF SlicesInOrder
<1>1. /\ request'[c] \in Requests /\ request'[c] \in Request
      /\ changed'[c] = {} /\ error'[c] = NoAnswer
      /\ pending'[c] = << >> /\ rest'[c] = request'[c].list
      /\ IF request'[c].list = << >>
           THEN at'[c] = "idle" /\ answer'[c] = "false"
           ELSE at'[c] = "accept"
  BY RequestAssumption DEF Begin, TypeOK, OneStatement
<1> DEFINE list == request'[c].list
           size == request'[c].size
<1>2. list \in Seq(Keys) /\ size \in Nat \ {0} /\ Len(list) \in Nat /\ 0 % size = 0
  BY <1>1 DEF Request
<1>3. Accepted(c)' = 0 /\ Collected(c)' = {} /\ Prefix(list, 0) = {}
  BY <1>1, <1>2, EmptyPrefix, NoElements DEF Accepted, Collected
<1>4. InOrder(c)'
  BY <1>1, <1>2, <1>3, NoElements DEF InOrder
<1>5. at'[c] = "accept" => SliceBegins(c, 0)'
  BY <1>1, <1>2, <1>3 DEF SliceBegins
<1>6. 0 \in 0 .. Accepted(c)'
  BY <1>3
<1>7. at'[c] = "idle" => answer'[c] \notin Errors
  BY <1>1 DEF Errors
<1> QED
  BY <1>1, <1>4, <1>5, <1>6, <1>7 DEF SlicesInOrder

(* One more entity gets its statement.                                     *)
LEMMA AcceptKeepsSlices ==
    ASSUME TypeOK, StageOK, NEW c \in Clients, SlicesInOrder(c), Accept(c)
    PROVE  SlicesInOrder(c)'
<1> SUFFICES ASSUME request[c] \in Requests, request[c].op = "saveBatch"
             PROVE  SlicesInOrder(c)'
  BY DEF SlicesInOrder, Accept
<1> DEFINE list == request[c].list
           size == request[c].size
           m == Accepted(c)
           s == StatementFor(c, Head(rest[c]))
<1>1. /\ at[c] = "accept" /\ rest[c] # << >>
      /\ pending'[c] = Append(pending[c], s) /\ rest'[c] = Tail(rest[c])
      /\ at'[c] = IF Flushes(c) THEN "flush" ELSE "accept"
      /\ request'[c] = request[c] /\ changed'[c] = changed[c] /\ error'[c] = error[c]
  BY DEF Accept, TypeOK
<1>2. list \in Seq(Keys) /\ size \in Nat \ {0} /\ Len(list) \in Nat
  BY RequestAssumption DEF Request
<1>3. /\ rest[c] \in Seq(Keys) /\ Head(rest[c]) = rest[c][1] /\ Head(rest[c]) \in Keys
      /\ Len(rest[c]) \in Nat \ {0} /\ Len(Tail(rest[c])) = Len(rest[c]) - 1
      /\ \A i \in 1 .. Len(rest[c]) - 1 : Tail(rest[c])[i] = rest[c][i + 1]
  BY <1>1 DEF TypeOK
<1>4. s \in Statement /\ s.keys = {Head(rest[c])} /\ s.kind = "insert"
  <2>1. s \in Statement /\ s.keys = {Head(rest[c])}
    BY <1>3, StatementSent
  <2>2. s = InsertFill(c, Head(rest[c]))
    BY DEF StatementFor
  <2> QED
    BY <2>1, <2>2 DEF InsertFill
<1>5. InOrder(c) /\ \E n \in 0 .. Accepted(c) : SliceBegins(c, n)
  BY <1>1 DEF SlicesInOrder
<1>6. PICK n \in 0 .. m : SliceBegins(c, n)
  BY <1>5
<1>7. /\ m \in 0 .. Len(list) - 1 /\ m + 1 \in 0 .. Len(list)
      /\ rest[c][1] = list[m + 1] /\ Accepted(c)' = m + 1
  <2>1. m = Len(list) - Len(rest[c]) /\ Accepted(c)' = Len(list) - Len(rest'[c])
    BY <1>1 DEF Accepted
  <2>2. m \in 0 .. Len(list) /\ \A i \in 1 .. Len(rest[c]) : rest[c][i] = list[m + i]
    BY <1>5 DEF InOrder
  <2> HIDE DEF m, list
  <2>3. Len(rest'[c]) = Len(rest[c]) - 1
    BY <1>1, <1>3
  <2>4. m \in 0 .. Len(list) - 1 /\ m + 1 \in 0 .. Len(list) /\ Accepted(c)' = m + 1
    BY <1>2, <1>3, <2>1, <2>2, <2>3
  <2>5. rest[c][1] = list[m + 1]
    BY <1>3, <2>2
  <2> QED
    BY <2>1, <2>4, <2>5
<1>8. /\ pending[c] \in Seq(Statement) /\ pending'[c] \in Seq(Statement)
      /\ Elements(pending'[c]) = Elements(pending[c]) \cup {s}
      /\ Len(pending'[c]) = Len(pending[c]) + 1 /\ Len(pending[c]) \in Nat
  <2>1. pending[c] \in Seq(Statement)
    BY DEF TypeOK
  <2> HIDE DEF s
  <2> QED
    BY <1>1, <1>4, <2>1, AppendedElements
<1>9. Collected(c)' = Collected(c) \cup {list[m + 1]}
  <2>1. UNION {x.keys : x \in Elements(pending'[c])}
          = (UNION {x.keys : x \in Elements(pending[c])}) \cup s.keys
    BY <1>8, KeysOfOneMore
  <2>2. s.keys = {list[m + 1]}
    BY <1>3, <1>4, <1>7
  <2> QED
    BY <2>1, <2>2 DEF Collected
<1>10. Prefix(list, m + 1) = Prefix(list, m) \cup {list[m + 1]}
  BY <1>2, <1>7, NextOfPrefix
<1>11. InOrder(c)'
  <2>1. \A i \in 1 .. Len(rest'[c]) : rest'[c][i] = list[m + 1 + i]
    <3> SUFFICES ASSUME NEW i \in 1 .. Len(rest'[c])
                 PROVE  rest'[c][i] = list[m + 1 + i]
      OBVIOUS
    <3>1. i + 1 \in 1 .. Len(rest[c]) /\ rest'[c][i] = rest[c][i + 1]
      BY <1>1, <1>3
    <3>2. rest[c][i + 1] = list[m + (i + 1)]
      BY <1>5, <3>1 DEF InOrder
    <3>3. m \in Int /\ i \in Int
      BY <1>1, <1>2, <1>3, <1>7
    <3>4. m + (i + 1) = m + 1 + i
      BY <3>3
    <3> QED
      BY <3>1, <3>2, <3>4
  <2>2. \A x \in Elements(pending'[c]) : x.kind = "insert"
    BY <1>4, <1>5, <1>8 DEF InOrder
  <2> QED
    BY <1>1, <1>7, <2>1, <2>2 DEF InOrder
<1>12. SliceBegins(c, n)'
  <2>1. /\ n % size = 0 /\ Prefix(list, n) \subseteq changed[c]
        /\ changed[c] \subseteq Prefix(list, m) /\ Collected(c) \subseteq Prefix(list, m)
        /\ error[c] = NoAnswer /\ Prefix(list, m) \subseteq changed[c] \cup Collected(c)
        /\ m = n + Len(pending[c]) /\ m < n + size
    BY <1>1, <1>6 DEF SliceBegins
  <2> HIDE DEF m, list, size, s
  <2>6. m \in Nat /\ n \in Nat
    BY <1>2, <1>7
  <2>2. m + 1 = n + Len(pending'[c]) /\ m + 1 \leq n + size
    <3> DEFINE before == Len(pending[c])
               after == Len(pending'[c])
    <3>1. size \in Nat /\ before \in Nat /\ after = before + 1
      BY <1>2, <1>8
    <3>2. m = n + before /\ m < n + size
      BY <2>1
    <3> HIDE DEF before, after
    <3>3. m + 1 = n + after /\ m + 1 \leq n + size
      BY <2>6, <3>1, <3>2
    <3> QED
      BY <3>3 DEF after
  <2>3. at'[c] # "accept" => m + 1 = n + size \/ rest'[c] = << >>
    <3>1. at'[c] # "accept" => Len(pending'[c]) = size \/ rest'[c] = << >>
      BY <1>1 DEF Flushes, size
    <3> QED
      BY <2>2, <3>1
  <2>4. at'[c] = "accept" => m + 1 < n + size
    <3>1. at'[c] = "accept" => Len(pending'[c]) # size
      BY <1>1 DEF Flushes, size
    <3> QED
      BY <1>2, <1>8, <2>2, <2>6, <3>1
  <2>5. /\ changed'[c] \subseteq Prefix(list, m + 1) /\ Collected(c)' \subseteq Prefix(list, m + 1)
        /\ Prefix(list, m + 1) \subseteq changed'[c] \cup Collected(c)'
    BY <1>1, <1>9, <1>10, <2>1
  <2> QED
    BY <1>1, <1>7, <2>1, <2>2, <2>3, <2>4, <2>5 DEF SliceBegins, list, size
<1>13. n \in 0 .. Accepted(c)'
  BY <1>7
<1> QED
  BY <1>1, <1>11, <1>12, <1>13 DEF SlicesInOrder

LEMMA ProceedSomewhere ==
    ASSUME NEW c \in Clients PROVE Proceed(c) # "idle"
BY DEF Proceed

(* A slice goes on or is over; an exception leaves it as it is.            *)
LEMMA SliceGoesOn ==
    ASSUME TypeOK, NEW c \in Clients, SlicesInOrder(c), at[c] = "flush",
           request[c] \in Requests, request[c].op = "saveBatch",
           at'[c] = Proceed(c), request'[c] = request[c], rest'[c] = rest[c],
           pending'[c] \in Seq(Statement),
           Elements(pending'[c]) \subseteq Elements(pending[c]),
           changed[c] \subseteq changed'[c],
           changed'[c] \subseteq changed[c] \cup Collected(c),
           error'[c] = NoAnswer =>
               /\ error[c] = NoAnswer
               /\ changed[c] \cup Collected(c) \subseteq changed'[c] \cup Collected(c)'
    PROVE  SlicesInOrder(c)'
<1> DEFINE list == request[c].list
           size == request[c].size
           m == Accepted(c)
<1>1. list \in Seq(Keys) /\ size \in Nat \ {0} /\ Len(list) \in Nat
  BY RequestAssumption DEF Request
<1>2. InOrder(c) /\ \E n \in 0 .. m : SliceBegins(c, n)
  BY DEF SlicesInOrder
<1>3. PICK n \in 0 .. m : SliceBegins(c, n)
  BY <1>2
<1>4. Accepted(c)' = m /\ m \in Nat /\ m \in 0 .. Len(list) /\ n \in Nat /\ n \leq m
  <2>1. Accepted(c)' = m
    BY DEF Accepted
  <2>2. m \in 0 .. Len(list)
    BY <1>2 DEF InOrder
  <2> HIDE DEF m, list
  <2> QED
    BY <1>1, <2>1, <2>2
<1>5. InOrder(c)'
  <2>1. \A i \in 1 .. Len(rest'[c]) : rest'[c][i] = request'[c].list[Accepted(c)' + i]
    BY <1>2, <1>4 DEF InOrder
  <2>2. \A s \in Elements(pending'[c]) : s.kind = "insert"
    BY <1>2 DEF InOrder
  <2> QED
    BY <1>4, <2>1, <2>2 DEF InOrder
<1>6. Collected(c)' \subseteq Collected(c)
  BY DEF Collected
<1>7. /\ n % size = 0 /\ m \leq n + size
      /\ Prefix(list, n) \subseteq changed'[c] /\ changed'[c] \subseteq Prefix(list, m)
      /\ Collected(c)' \subseteq Prefix(list, m)
      /\ error'[c] = NoAnswer => /\ Prefix(list, m) \subseteq changed'[c] \cup Collected(c)'
                                 /\ m = n + size \/ rest[c] = << >>
  BY <1>3, <1>6 DEF SliceBegins
<1>8. CASE Proceed(c) # "accept"
  <2>1. SliceBegins(c, n)'
    BY <1>4, <1>7, <1>8 DEF SliceBegins
  <2> QED
    BY <1>4, <1>5, <1>8, <2>1, ProceedSomewhere DEF SlicesInOrder
<1>9. CASE Proceed(c) = "accept"
  <2>1. pending'[c] = << >> /\ error'[c] = NoAnswer /\ rest[c] # << >>
    BY <1>9 DEF Proceed
  <2>2. Collected(c)' = {} /\ Len(pending'[c]) = 0
    BY <2>1, NoElements DEF Collected
  <2>3. PICK k \in Nat : k = m
    BY <1>4
  <2>4. k % size = 0 /\ k \leq k + size /\ k < k + size /\ k = k + 0
    <3>1. (n + size) % size = 0
      BY <1>1, <1>4, <1>7, NextMultiple
    <3>2. k = n + size
      BY <1>7, <2>1, <2>3
    <3>3. k % size = 0
      BY <3>1, <3>2
    <3> HIDE DEF size
    <3> QED
      BY <1>1, <3>3
  <2>5. SliceBegins(c, k)'
    <3>1. Prefix(list, k) \subseteq changed'[c]
      BY <1>7, <2>1, <2>2, <2>3
    <3>2. Accepted(c)' = k
      BY <1>4, <2>3
    <3> QED
      BY <1>7, <1>9, <2>1, <2>2, <2>3, <2>4, <3>1, <3>2 DEF SliceBegins
  <2>6. k \in 0 .. Accepted(c)'
    BY <1>4, <2>3
  <2> QED
    BY <1>5, <1>9, <2>5, <2>6 DEF SlicesInOrder
<1> QED
  BY <1>8, <1>9

LEMMA ExecuteKeepsSlices ==
    ASSUME TypeOK, StageOK, NEW c \in Clients, SlicesInOrder(c), Execute(c)
    PROVE  SlicesInOrder(c)'
<1> DEFINE s == Head(pending[c])
<1>1. /\ s \in Statement /\ Tail(pending[c]) \in Seq(Statement)
      /\ Elements(pending[c]) = {s} \cup Elements(Tail(pending[c]))
      /\ changed' = [changed EXCEPT ![c] = @ \cup Found(s)]
      /\ pending' = [pending EXCEPT ![c] = Tail(@)]
      /\ error' = error /\ at' = [at EXCEPT ![c] = Proceed(c)]
      /\ UNCHANGED <<request, rest>>
  BY Executed
<1> HIDE DEF s
<1>2. /\ changed'[c] = changed[c] \cup Found(s) /\ pending'[c] = Tail(pending[c])
      /\ at'[c] = Proceed(c) /\ at[c] = "flush" /\ request[c] \in Requests
  BY <1>1 DEF TypeOK, StageOK, Execute
<1> SUFFICES ASSUME request[c].op = "saveBatch" PROVE SlicesInOrder(c)'
  BY <1>1 DEF SlicesInOrder
<1>3. s.kind = "insert"
  BY <1>1, <1>2 DEF SlicesInOrder, InOrder
<1>4. Found(s) = s.keys
  BY <1>3 DEF Found, Hits
<1>5. Collected(c) = s.keys \cup Collected(c)'
  <2>1. Elements(pending[c]) = Elements(pending'[c]) \cup {s}
    BY <1>1, <1>2
  <2>2. UNION {x.keys : x \in Elements(pending[c])}
          = (UNION {x.keys : x \in Elements(pending'[c])}) \cup s.keys
    BY <2>1, KeysOfOneMore
  <2> QED
    BY <2>2 DEF Collected
<1>6. /\ changed'[c] = changed[c] \cup s.keys /\ pending'[c] \in Seq(Statement)
      /\ Elements(pending'[c]) \subseteq Elements(pending[c])
      /\ changed[c] \cup Collected(c) \subseteq changed'[c] \cup Collected(c)'
      /\ changed'[c] \subseteq changed[c] \cup Collected(c)
      /\ error'[c] = error[c] /\ request'[c] = request[c] /\ rest'[c] = rest[c]
  BY <1>1, <1>2, <1>4, <1>5
<1> QED
  BY <1>2, <1>6, SliceGoesOn

LEMMA ThrowKeepsSlices ==
    ASSUME TypeOK, StageOK, NEW c \in Clients, SlicesInOrder(c),
           NEW e \in Errors, at[c] = "flush", Throw(c, e)
    PROVE  SlicesInOrder(c)'
<1>1. /\ pending'[c] \in Seq(Statement) /\ error'[c] = e /\ e # NoAnswer
      /\ Elements(pending'[c]) \subseteq Elements(pending[c])
  BY Thrown, RowsApart
<1>2. /\ at'[c] = Proceed(c) /\ request'[c] = request[c] /\ rest'[c] = rest[c]
      /\ changed'[c] = changed[c] /\ request[c] \in Requests
  BY DEF Throw, TypeOK, StageOK
<1> SUFFICES ASSUME request[c].op = "saveBatch" PROVE SlicesInOrder(c)'
  BY <1>2 DEF SlicesInOrder
<1> QED
  BY <1>1, <1>2, SliceGoesOn

(* What the caller sees of a batch that has thrown.                        *)
LEMMA EndKeepsSlices ==
    ASSUME TypeOK, StageOK, NEW c \in Clients, SlicesInOrder(c), End(c)
    PROVE  SlicesInOrder(c)'
<1>1. /\ at[c] = "end" /\ at'[c] = "idle" /\ answer'[c] = AnswerOf(c)
      /\ request'[c] = request[c] /\ changed'[c] = changed[c]
  BY DEF End, TypeOK
<1> SUFFICES ASSUME request[c] \in Requests, request[c].op = "saveBatch", answer'[c] \in Errors
             PROVE  Resumable(c)'
  BY <1>1 DEF SlicesInOrder
<1> DEFINE list == request[c].list
           size == request[c].size
<1>2. list \in Seq(Keys) /\ size \in Nat \ {0} /\ Len(list) \in Nat
  BY RequestAssumption DEF Request
<1>3. InOrder(c) /\ \E n \in 0 .. Accepted(c) : SliceBegins(c, n)
  BY <1>1 DEF SlicesInOrder
<1>4. PICK n \in 0 .. Accepted(c) : SliceBegins(c, n)
  BY <1>3
<1>5. Accepted(c) \in 0 .. Len(list)
  BY <1>3 DEF InOrder
<1>6. n % size = 0 /\ Accepted(c) \leq n + size /\ n \in 0 .. Len(list) /\ n + size \in Nat
      /\ Accepted(c) \in 0 .. n + size
  <2>1. n % size = 0 /\ Accepted(c) \leq n + size
    BY <1>4 DEF SliceBegins
  <2> HIDE DEF list, size
  <2> QED
    BY <1>2, <1>5, <2>1
<1>7. Prefix(list, n) \subseteq changed[c] /\ changed[c] \subseteq Prefix(list, Accepted(c))
  BY <1>4 DEF SliceBegins
<1>8. Prefix(list, Accepted(c)) \subseteq Prefix(list, n + size)
  BY <1>2, <1>6, LongerPrefix
<1> QED
  BY <1>1, <1>6, <1>7, <1>8 DEF Resumable

LEMMA BatchStep == TypeOK /\ StageOK /\ BatchInv /\ [Next]_vars => BatchInv'
<1> SUFFICES ASSUME TypeOK, StageOK, BatchInv, [Next]_vars, NEW d \in Clients
             PROVE  SlicesInOrder(d)'
  BY DEF BatchInv
<1>1. SlicesInOrder(d)
  BY DEF BatchInv
<1>2. CASE Next
  <2>1. PICK c \in Clients :
          \/ Begin(c) \/ Accept(c) \/ Execute(c) \/ End(c)
          \/ \E e \in Errors : /\ at[c] = "flush" /\ Throw(c, e)
                               /\ e = "duplicate" => Duplicate(c)
    BY <1>2, Steps
  <2>2. CASE c # d
    <3>1. ASSUME NEW e \in Errors, at[c] = "flush", Throw(c, e) PROVE SlicesInOrder(d)'
      <4>1. pending'[d] = pending[d] /\ error'[d] = error[d]
        BY <2>2, <3>1, Thrown
      <4> QED
        BY <1>1, <2>2, <3>1, <4>1, BatchUndisturbed DEF Throw, TypeOK
    <3>2. CASE Begin(c)
      BY <1>1, <2>2, <3>2, BatchUndisturbed DEF Begin, TypeOK
    <3>3. CASE Accept(c)
      BY <1>1, <2>2, <3>3, BatchUndisturbed DEF Accept, TypeOK
    <3>4. CASE Execute(c)
      BY <1>1, <2>2, <3>4, BatchUndisturbed, Executed DEF TypeOK
    <3>5. CASE End(c)
      BY <1>1, <2>2, <3>5, BatchUndisturbed DEF End, TypeOK
    <3> QED
      BY <2>1, <3>1, <3>2, <3>3, <3>4, <3>5
  <2>3. CASE c = d
    BY <1>1, <2>1, <2>3, BeginKeepsSlices, AcceptKeepsSlices, ExecuteKeepsSlices,
       ThrowKeepsSlices, EndKeepsSlices
  <2> QED
    BY <2>2, <2>3
<1>3. CASE UNCHANGED vars
  BY <1>1, <1>3, BatchUndisturbed DEF vars
<1> QED
  BY <1>2, <1>3

LEMMA FailedBatches ==
    BatchInv /\ TypeOK => FailedBatchKeepsFlushes
<1> SUFFICES ASSUME BatchInv, TypeOK, NEW c \in Clients,
                    Over(c, {"saveBatch"}), answer[c] \in Errors
             PROVE  \E n \in 0 .. Len(request[c].list) :
                        /\ n % request[c].size = 0
                        /\ Prefix(request[c].list, n) \subseteq changed[c]
                        /\ changed[c] \subseteq Prefix(request[c].list, n + request[c].size)
  BY DEF FailedBatchKeepsFlushes, Prefix
<1> QED
  BY DEF BatchInv, SlicesInOrder, Resumable, Over, TypeOK

-----------------------------------------------------------------------------
(* Slices and steps.                                                       *)

(* Where a call stands there is something for it to do, its session holds  *)
(* a slice at most, and what it keeps it keeps for a transaction.          *)
InFlow(c) ==
    /\ at[c] = "accept" => rest[c] # << >>
    /\ request[c] \in Requests =>
         /\ Len(pending[c]) \leq request[c].size
         /\ at[c] = "accept" => Len(pending[c]) < request[c].size
         /\ at[c] = "accept" /\ request[c].op = "saveOrUpdateBatch" => pending[c] = << >>
    /\ \A k \in Keys : undo[c][k] # Clean => request[c] \in Requests /\ request[c].tx

FlowInv == \A c \in Clients : InFlow(c)

LEMMA FlowInit == Init => FlowInv
<1> SUFFICES ASSUME Init, NEW c \in Clients PROVE InFlow(c)
  BY DEF FlowInv
<1>1. /\ at[c] = "idle" /\ request[c] = NoAnswer
      /\ \A k \in Keys : undo[c][k] = Clean
  BY DEF Init
<1> QED
  BY <1>1, RowsApart DEF InFlow

LEMMA Lengths ==
    ASSUME NEW S, NEW s \in Seq(S)
    PROVE  /\ Len(s) \in Nat
           /\ \A e \in S : Len(Append(s, e)) = Len(s) + 1
           /\ s # << >> => Len(s) > 0 /\ Len(Tail(s)) = Len(s) - 1
OBVIOUS

LEMMA FlowUndisturbed ==
    ASSUME NEW d \in Clients, InFlow(d), UNCHANGED <<at[d], rest[d], pending[d], undo[d]>>,
           request'[d] = request[d]
    PROVE  InFlow(d)'
BY DEF InFlow

LEMMA RequestTyped ==
    ASSUME TypeOK, StageOK, NEW c \in Clients, at[c] # "idle"
    PROVE  /\ request[c] \in Requests /\ request[c].size \in Nat \ {0}
           /\ pending[c] \in Seq(Statement) /\ Len(pending[c]) \in Nat
           /\ rest[c] \in Seq(Keys) /\ Len(rest[c]) \in Nat
BY RequestAssumption DEF StageOK, TypeOK, Request

(* What Begin makes of the lists of a call.                                *)
LEMMA Begun ==
    ASSUME TypeOK, NEW c \in Clients, Begin(c)
    PROVE  \E r \in Requests :
               /\ request'[c] = r /\ r.size \in Nat \ {0} /\ r.list \in Seq(Keys)
               /\ at[c] = "idle"
               /\ \/ /\ r.list = << >> /\ at'[c] = "idle" /\ pending'[c] = << >>
                  \/ /\ r.list # << >> /\ at'[c] = "flush" /\ rest'[c] = << >>
                     /\ Len(pending'[c]) = 1
                  \/ /\ r.list # << >> /\ at'[c] = "accept" /\ rest'[c] = r.list
                     /\ pending'[c] = << >>
<1>1. PICK r \in Requests :
        LET atOnce == OneStatement(r)
            empty == r.list = << >>
        IN  /\ request' = [request EXCEPT ![c] = r]
            /\ at' = [at EXCEPT ![c] = IF empty THEN "idle"
                                       ELSE IF atOnce THEN "flush" ELSE "accept"]
            /\ rest' = [rest EXCEPT ![c] = IF atOnce THEN << >> ELSE r.list]
            /\ pending' = [pending EXCEPT ![c] =
                   IF atOnce /\ ~empty
                     THEN << [kind |-> "remove", keys |-> Elements(r.list),
                              createBy |-> NoName, updateBy |-> NoName] >>
                     ELSE << >>]
  BY DEF Begin
<1>2. r.size \in Nat \ {0} /\ r.list \in Seq(Keys)
  BY RequestAssumption DEF Request
<1>3. at[c] = "idle"
  BY DEF Begin
<1> QED
  BY <1>1, <1>2, <1>3 DEF TypeOK

LEMMA BeginFlows ==
    ASSUME TypeOK, IdleIsClean, NEW c \in Clients, Begin(c)
    PROVE  InFlow(c)'
<1>1. PICK r \in Requests :
         /\ request'[c] = r /\ r.size \in Nat \ {0} /\ r.list \in Seq(Keys)
         /\ at[c] = "idle"
         /\ \/ /\ r.list = << >> /\ at'[c] = "idle" /\ pending'[c] = << >>
            \/ /\ r.list # << >> /\ at'[c] = "flush" /\ rest'[c] = << >>
               /\ Len(pending'[c]) = 1
            \/ /\ r.list # << >> /\ at'[c] = "accept" /\ rest'[c] = r.list
               /\ pending'[c] = << >>
  BY Begun
<1>2. \A k \in Keys : undo'[c][k] = Clean
  BY <1>1 DEF Begin, IdleIsClean
<1>3. Len(pending'[c]) \in {0, 1} /\ (at'[c] = "accept" => Len(pending'[c]) = 0)
  BY <1>1
<1> DEFINE n == Len(pending'[c])
           size == request'[c].size
<1>4. n \leq size /\ (at'[c] = "accept" => n < size)
  <2>1. n \in {0, 1} /\ (at'[c] = "accept" => n = 0) /\ size \in Nat \ {0}
    BY <1>1, <1>3
  <2> HIDE DEF n, size
  <2> QED
    BY <2>1
<1> QED
  BY <1>1, <1>2, <1>4 DEF InFlow

LEMMA AcceptFlows ==
    ASSUME TypeOK, StageOK, NEW c \in Clients, InFlow(c), Accept(c)
    PROVE  InFlow(c)' /\ at'[c] # "idle" /\ Len(rest'[c]) = Len(rest[c]) - 1
             /\ Len(pending'[c]) = Len(pending[c]) + 1
<1> DEFINE s == StatementFor(c, Head(rest[c]))
<1>1. /\ at[c] = "accept" /\ rest[c] # << >>
      /\ pending' = [pending EXCEPT ![c] = Append(@, s)]
      /\ rest' = [rest EXCEPT ![c] = Tail(@)]
      /\ at' = [at EXCEPT ![c] = IF Flushes(c) THEN "flush" ELSE "accept"]
      /\ UNCHANGED <<undo, request>>
  BY DEF Accept
<1> HIDE DEF s
<1>2. /\ request[c] \in Requests /\ request[c].size \in Nat \ {0}
      /\ pending[c] \in Seq(Statement) /\ Len(pending[c]) \in Nat
      /\ rest[c] \in Seq(Keys) /\ Len(rest[c]) \in Nat
  BY <1>1, RequestTyped
<1>3. pending'[c] = Append(pending[c], s) /\ rest'[c] = Tail(rest[c])
  BY <1>1 DEF TypeOK
<1>4. Len(pending'[c]) = Len(pending[c]) + 1 /\ Len(rest'[c]) = Len(rest[c]) - 1
  <2>1. s \in Statement
    BY <1>1, <1>2, HeadAndTail, StatementSent DEF s
  <2>2. Len(Append(pending[c], s)) = Len(pending[c]) + 1
    BY <1>2, <2>1, Lengths
  <2>3. Len(Tail(rest[c])) = Len(rest[c]) - 1
    BY <1>1, <1>2, Lengths
  <2> QED
    BY <1>3, <2>2, <2>3
<1>5. /\ at'[c] \in {"flush", "accept"}
      /\ at'[c] = "accept" =>
           /\ Len(pending'[c]) # request[c].size
           /\ rest'[c] # << >> /\ request[c].op # "saveOrUpdateBatch"
  BY <1>1 DEF TypeOK, Flushes
<1>6. Len(pending[c]) < request[c].size
  BY <1>1, <1>2 DEF InFlow
<1> DEFINE n == Len(pending[c])
           n2 == Len(pending'[c])
           size == request[c].size
<1>7. n \in Nat /\ size \in Nat /\ n2 = n + 1 /\ n < size
  BY <1>2, <1>4, <1>6
<1>8. n2 \leq size /\ (n2 # size => n2 < size)
  <2> HIDE DEF n, n2, size
  <2> QED
    BY <1>7
<1>9. \A k \in Keys : undo'[c][k] # Clean => request'[c] \in Requests /\ request'[c].tx
  BY <1>1 DEF InFlow
<1>10. request'[c] = request[c]
  BY <1>1
<1> QED
  BY <1>2, <1>4, <1>5, <1>8, <1>9, <1>10 DEF InFlow

(* The statement is off the list, and perhaps all others of its slice.     *)
LEMMA SliceShrinks ==
    ASSUME TypeOK, StageOK, NEW c \in Clients, at[c] = "flush",
           pending' \in {[pending EXCEPT ![c] = Tail(@)], [pending EXCEPT ![c] = << >>]},
           at' = [at EXCEPT ![c] = Proceed(c)], UNCHANGED <<request, rest>>,
           Len(pending[c]) \leq request[c].size
    PROVE  /\ Len(pending'[c]) \in Nat /\ Len(pending'[c]) < Len(pending[c])
           /\ Len(pending'[c]) < request[c].size /\ Len(pending'[c]) \leq request[c].size
           /\ at'[c] # "idle" /\ rest'[c] = rest[c]
           /\ at'[c] = "accept" => rest'[c] # << >> /\ pending'[c] = << >>
<1>1. /\ pending[c] \in Seq(Statement) /\ pending[c] # << >>
      /\ request[c].size \in Nat /\ Len(pending[c]) \in Nat
  BY RequestTyped DEF StageOK
<1>2. pending'[c] = Tail(pending[c]) \/ pending'[c] = << >>
  BY DEF TypeOK
<1>3. Len(pending'[c]) \in Nat /\ Len(pending'[c]) < Len(pending[c])
  <2>1. CASE pending'[c] = Tail(pending[c])
    BY <1>1, <2>1
  <2>2. CASE pending'[c] = << >>
    BY <1>1, <2>2
  <2> QED
    BY <1>2, <2>1, <2>2
<1>4. /\ at'[c] = Proceed(c) /\ Proceed(c) # "idle"
      /\ Proceed(c) = "accept" => rest[c] # << >> /\ pending'[c] = << >>
  BY DEF TypeOK, Proceed
<1> DEFINE n == Len(pending[c])
           n2 == Len(pending'[c])
           size == request[c].size
<1>5. n2 < size /\ n2 \leq size
  <2>1. n \in Nat /\ n2 \in Nat /\ size \in Nat /\ n2 < n /\ n \leq size
    BY <1>1, <1>3
  <2> HIDE DEF n, n2, size
  <2> QED
    BY <2>1
<1> QED
  BY <1>3, <1>4, <1>5

LEMMA ExecuteFlows ==
    ASSUME TypeOK, StageOK, NEW c \in Clients, InFlow(c), Execute(c)
    PROVE  InFlow(c)' /\ at'[c] # "idle" /\ rest'[c] = rest[c]
             /\ Len(pending'[c]) \in Nat /\ Len(pending'[c]) < Len(pending[c])
<1> DEFINE s == Head(pending[c])
<1>1. /\ pending' = [pending EXCEPT ![c] = Tail(@)]
      /\ at' = [at EXCEPT ![c] = Proceed(c)]
      /\ UNCHANGED <<request, rest>>
      /\ undo' = [undo EXCEPT ![c] =
           [k \in Keys |-> IF request[c].tx /\ undo[c][k] = Clean /\ k \in Found(s)
                             THEN table[k] ELSE undo[c][k]]]
  BY Executed
<1> HIDE DEF s
<1>2. at[c] = "flush"
  BY DEF Execute
<1>3. request[c] \in Requests /\ Len(pending[c]) \leq request[c].size
  BY <1>2, RequestTyped DEF InFlow
<1>4. /\ Len(pending'[c]) \in Nat /\ Len(pending'[c]) < Len(pending[c])
      /\ Len(pending'[c]) < request[c].size /\ Len(pending'[c]) \leq request[c].size
      /\ at'[c] # "idle" /\ rest'[c] = rest[c]
      /\ at'[c] = "accept" => rest'[c] # << >> /\ pending'[c] = << >>
  BY <1>1, <1>2, <1>3, SliceShrinks
<1>5. \A k \in Keys : undo'[c][k] # Clean => request[c].tx
  BY <1>1 DEF InFlow, TypeOK
<1> QED
  BY <1>1, <1>3, <1>4, <1>5 DEF InFlow

LEMMA ThrowFlows ==
    ASSUME TypeOK, StageOK, NEW c \in Clients, InFlow(c), NEW e \in Errors,
           at[c] = "flush", Throw(c, e)
    PROVE  InFlow(c)' /\ at'[c] # "idle" /\ rest'[c] = rest[c]
             /\ Len(pending'[c]) \in Nat /\ Len(pending'[c]) < Len(pending[c])
<1>1. /\ pending' \in {[pending EXCEPT ![c] = Tail(@)], [pending EXCEPT ![c] = << >>]}
      /\ at' = [at EXCEPT ![c] = Proceed(c)] /\ UNCHANGED <<request, rest, undo>>
  BY DEF Throw
<1>2. request[c] \in Requests /\ Len(pending[c]) \leq request[c].size
  BY RequestTyped DEF InFlow
<1>3. /\ Len(pending'[c]) \in Nat /\ Len(pending'[c]) < Len(pending[c])
      /\ Len(pending'[c]) < request[c].size /\ Len(pending'[c]) \leq request[c].size
      /\ at'[c] # "idle" /\ rest'[c] = rest[c]
      /\ at'[c] = "accept" => rest'[c] # << >> /\ pending'[c] = << >>
  BY <1>1, <1>2, SliceShrinks
<1>4. \A k \in Keys : undo'[c][k] # Clean => request[c].tx
  BY <1>1 DEF InFlow
<1> QED
  BY <1>1, <1>2, <1>3, <1>4 DEF InFlow

LEMMA EndFlows ==
    ASSUME TypeOK, StageOK, NEW c \in Clients, InFlow(c), End(c)
    PROVE  InFlow(c)' /\ at'[c] = "idle"
<1>1. /\ undo' = [undo EXCEPT ![c] = [k \in Keys |-> Clean]]
      /\ at' = [at EXCEPT ![c] = "idle"] /\ UNCHANGED <<request, rest, pending>>
  BY DEF End
<1>2. at'[c] = "idle" /\ \A k \in Keys : undo'[c][k] = Clean
  BY <1>1 DEF TypeOK
<1> QED
  BY <1>1, <1>2 DEF InFlow

(* A step of one call leaves the lists of the others alone.                *)
LEMMA OthersStay ==
    ASSUME TypeOK, StageOK, NEW c \in Clients, NEW d \in Clients \ {c},
           \/ Begin(c) \/ Accept(c) \/ Execute(c) \/ End(c)
           \/ \E e \in Errors : at[c] = "flush" /\ Throw(c, e)
    PROVE  UNCHANGED <<at[d], rest[d], pending[d], request[d], undo[d]>>
<1>1. ASSUME NEW e \in Errors, at[c] = "flush", Throw(c, e)
      PROVE  UNCHANGED <<at[d], rest[d], pending[d], request[d], undo[d]>>
  <2>1. pending'[d] = pending[d]
    BY <1>1, Thrown
  <2> QED
    BY <1>1, <2>1 DEF Throw, TypeOK
<1>2. CASE Begin(c)
  BY <1>2 DEF Begin, TypeOK
<1>3. CASE Accept(c)
  BY <1>3 DEF Accept, TypeOK
<1>4. CASE Execute(c)
  BY <1>4, Executed DEF TypeOK
<1>5. CASE End(c)
  BY <1>5 DEF End, TypeOK
<1> QED
  BY <1>1, <1>2, <1>3, <1>4, <1>5

LEMMA FlowStep == TypeOK /\ StageOK /\ IdleIsClean /\ FlowInv /\ [Next]_vars => FlowInv'
<1> SUFFICES ASSUME TypeOK, StageOK, IdleIsClean, FlowInv, [Next]_vars, NEW d \in Clients
             PROVE  InFlow(d)'
  BY DEF FlowInv
<1>1. InFlow(d)
  BY DEF FlowInv
<1>2. CASE Next
  <2>1. PICK c \in Clients :
          \/ Begin(c) \/ Accept(c) \/ Execute(c) \/ End(c)
          \/ \E e \in Errors : /\ at[c] = "flush" /\ Throw(c, e)
                               /\ e = "duplicate" => Duplicate(c)
    BY <1>2, Steps
  <2>2. CASE c # d
    <3>1. UNCHANGED <<at[d], rest[d], pending[d], request[d], undo[d]>>
      BY <2>1, <2>2, OthersStay
    <3> QED
      BY <1>1, <3>1, FlowUndisturbed
  <2>3. CASE c = d
    BY <1>1, <2>1, <2>3, BeginFlows, AcceptFlows, ExecuteFlows, ThrowFlows, EndFlows
  <2> QED
    BY <2>2, <2>3
<1>3. CASE UNCHANGED vars
  BY <1>1, <1>3, FlowUndisturbed DEF vars
<1> QED
  BY <1>2, <1>3

-----------------------------------------------------------------------------
(* The results.                                                            *)

IInv ==
    /\ TypeOK /\ StageOK /\ FlowInv
    /\ AuditInv /\ SaveInv /\ AnswerInv /\ BatchInv

LEMMA Invariance == Spec => []IInv
<1>1. Init => IInv
  BY TypeInit, FlowInit, AuditInit, SaveInit, AnswerInit, BatchInit DEF IInv
<1>2. IInv /\ [Next]_vars => IInv'
  <2>1. IInv => IdleIsClean
    BY DEF IInv, AnswerInv
  <2> QED
    BY <2>1, TypeStep, FlowStep, AuditStep, SaveStep, AnswerStep, BatchStep DEF IInv
<1> QED
  BY <1>1, <1>2, PTL DEF Spec

(* Type correctness: calls stand where the code can stand, and rows are    *)
(* rows, whatever is written and rolled back in whatever order.            *)
THEOREM TypeCorrect == Spec => []TypeOK
<1>1. IInv => TypeOK
  BY DEF IInv
<1> QED
  BY <1>1, Invariance, PTL

(* Whatever entities bring along, an audited row names the user of the last*)
(* statement as its updater and the user who has inserted it as its        *)
(* creator, but for names set by hand where the fills let them through.    *)
THEOREM AuditHolds == Spec => []AuditIsTrue
<1>1. IInv => AuditIsTrue
  BY DEF IInv, AuditInv
<1> QED
  BY <1>1, Invariance, PTL

(* A save that was answered true has left its rows in the table, whatever  *)
(* the other calls write, remove and roll back between select and answer.  *)
THEOREM SavesLast == Spec => []SavedRowsExist
<1>1. IInv => SavedRowsExist
  BY KeptRowsAreCommitted DEF IInv
<1> QED
  BY <1>1, Invariance, PTL

(* What a single call was told has its explanation in the table for good,  *)
(* whatever runs between its select and its statement and after its answer.*)
THEOREM AnswersHold == Spec => []AnswersExplained
<1>1. IInv => AnswersExplained
  BY ExplainedAnswers DEF IInv
<1> QED
  BY <1>1, Invariance, PTL

(* A saveBatch that has thrown can be resumed: the slices before the one   *)
(* that failed are all in the table and nothing of those after it, for     *)
(* lists and slices of any length, also when an id occurs twice.           *)
THEOREM FailedBatchesResume == Spec => []FailedBatchKeepsFlushes
<1>1. IInv => FailedBatchKeepsFlushes
  BY FailedBatches DEF IInv
<1> QED
  BY <1>1, Invariance, PTL

(* The session of a call holds no more statements than its batch size, and *)
(* the select of saveOrUpdateBatch never finds any.                        *)
SlicesAreBounded ==
    \A c \in Clients : request[c] \in Requests =>
        /\ Len(pending[c]) \leq request[c].size
        /\ at[c] = "accept" /\ request[c].op = "saveOrUpdateBatch" => pending[c] = << >>

(* However long a batch is, what its session holds is bounded by its size. *)
THEOREM SessionsAreSmall == Spec => []SlicesAreBounded
<1>1. IInv => SlicesAreBounded
  BY DEF IInv, FlowInv, InFlow, SlicesAreBounded
<1> QED
  BY <1>1, Invariance, PTL

(* A call that has not ended can go on: it has an entity to accept, a      *)
(* statement to execute or to fail with, or is at its end.                 *)
CallsCanGoOn ==
    \A c \in Clients :
        \/ at[c] \in {"idle", "end"}
        \/ at[c] = "accept" /\ rest[c] # << >>
        \/ at[c] = "flush" /\ pending[c] # << >>

(* No call is left in the middle with nothing to do.                       *)
THEOREM NoCallIsStuck == Spec => []CallsCanGoOn
<1>1. IInv => CallsCanGoOn
  BY DEF IInv, FlowInv, InFlow, StageOK, TypeOK, CallsCanGoOn
<1> QED
  BY <1>1, Invariance, PTL

(* The steps a call has left at most.                                      *)
StepsLeft(c) == IF at[c] = "idle" THEN 0 ELSE 2 * Len(rest[c]) + Len(pending[c]) + 1

(* Whatever fails, each step brings a call nearer to its end: one of n     *)
(* entities takes 2 n + 1 steps at most.                                   *)
CallsRunDown ==
    \A c \in Clients :
        /\ Step(c) => StepsLeft(c)' < StepsLeft(c)
        /\ Begin(c) => StepsLeft(c)' \leq 2 * Len(request'[c].list) + 1

(* What a step takes off the two lists.                                    *)
LEMMA Fewer ==
    ASSUME NEW r \in Nat, NEW p \in Nat, NEW r2 \in Nat, NEW p2 \in Nat,
           \/ r2 = r - 1 /\ p2 = p + 1
           \/ r2 = r /\ p2 < p
    PROVE  2 * r2 + p2 + 1 < 2 * r + p + 1
OBVIOUS

LEMMA StepRunsDown ==
    ASSUME IInv, IInv', NEW c \in Clients, Step(c)
    PROVE  StepsLeft(c)' < StepsLeft(c)
<1>1. TypeOK /\ StageOK /\ InFlow(c)
  BY DEF IInv, FlowInv
<1>2. at[c] # "idle"
  BY DEF Step, Accept, Execute, Duplicate, DatabaseFails, End
<1>3. Len(rest[c]) \in Nat /\ Len(pending[c]) \in Nat
  BY <1>1, <1>2, RequestTyped
<1>4. StepsLeft(c) = 2 * Len(rest[c]) + Len(pending[c]) + 1
  BY <1>2 DEF StepsLeft
<1>5. ASSUME at'[c] # "idle",
             \/ Len(rest'[c]) = Len(rest[c]) - 1 /\ Len(pending'[c]) = Len(pending[c]) + 1
             \/ rest'[c] = rest[c] /\ Len(pending'[c]) < Len(pending[c])
      PROVE  StepsLeft(c)' < StepsLeft(c)
  <2>1. Len(rest'[c]) \in Nat /\ Len(pending'[c]) \in Nat
    BY DEF IInv, TypeOK
  <2>2. StepsLeft(c)' = 2 * Len(rest'[c]) + Len(pending'[c]) + 1
    BY <1>5 DEF StepsLeft
  <2> DEFINE r == Len(rest[c])
             p == Len(pending[c])
             r2 == Len(rest'[c])
             p2 == Len(pending'[c])
  <2>3. /\ r \in Nat /\ p \in Nat /\ r2 \in Nat /\ p2 \in Nat
        /\ (r2 = r - 1 /\ p2 = p + 1) \/ (r2 = r /\ p2 < p)
        /\ StepsLeft(c) = 2 * r + p + 1 /\ StepsLeft(c)' = 2 * r2 + p2 + 1
    BY <1>3, <1>4, <1>5, <2>1, <2>2
  <2> HIDE DEF r, p, r2, p2
  <2> QED
    BY <2>3, Fewer
<1>6. CASE Accept(c)
  BY <1>1, <1>5, <1>6, AcceptFlows
<1>7. CASE Execute(c)
  BY <1>1, <1>5, <1>7, ExecuteFlows
<1>8. ASSUME NEW e \in Errors, at[c] = "flush", Throw(c, e)
      PROVE  StepsLeft(c)' < StepsLeft(c)
  BY <1>1, <1>5, <1>8, ThrowFlows
<1>9. CASE End(c)
  <2>1. StepsLeft(c)' = 0
    BY <1>1, <1>9, EndFlows DEF StepsLeft
  <2> DEFINE r == Len(rest[c])
             p == Len(pending[c])
  <2>2. r \in Nat /\ p \in Nat /\ StepsLeft(c) = 2 * r + p + 1
    BY <1>3, <1>4
  <2> HIDE DEF r, p
  <2> QED
    BY <2>1, <2>2
<1>10. Duplicate(c) \/ DatabaseFails(c) => \E e \in Errors : at[c] = "flush" /\ Throw(c, e)
  BY DEF Duplicate, DatabaseFails, Errors
<1> QED
  BY <1>6, <1>7, <1>8, <1>9, <1>10 DEF Step

LEMMA BeginBounds ==
    ASSUME IInv, NEW c \in Clients, Begin(c)
    PROVE  StepsLeft(c)' \leq 2 * Len(request'[c].list) + 1
<1>1. PICK r \in Requests :
         /\ request'[c] = r /\ r.size \in Nat \ {0} /\ r.list \in Seq(Keys)
         /\ at[c] = "idle"
         /\ \/ /\ r.list = << >> /\ at'[c] = "idle" /\ pending'[c] = << >>
            \/ /\ r.list # << >> /\ at'[c] = "flush" /\ rest'[c] = << >>
               /\ Len(pending'[c]) = 1
            \/ /\ r.list # << >> /\ at'[c] = "accept" /\ rest'[c] = r.list
               /\ pending'[c] = << >>
  BY Begun DEF IInv
<1> DEFINE n == Len(r.list)
<1>2. n \in Nat /\ (r.list # << >> => n > 0) /\ Len(request'[c].list) = n
  BY <1>1
<1>3. CASE at'[c] = "idle"
  <2>1. StepsLeft(c)' = 0
    BY <1>3 DEF StepsLeft
  <2> HIDE DEF n
  <2> QED
    BY <1>2, <2>1
<1>4. CASE at'[c] # "idle" /\ rest'[c] = << >> /\ Len(pending'[c]) = 1
  <2>1. StepsLeft(c)' = 2
    BY <1>4 DEF StepsLeft
  <2>2. n > 0
    BY <1>1, <1>2, <1>4
  <2> HIDE DEF n
  <2> QED
    BY <1>2, <2>1, <2>2
<1>5. CASE at'[c] # "idle" /\ rest'[c] = r.list /\ pending'[c] = << >>
  <2>1. StepsLeft(c)' = 2 * n + 1
    <3>1. Len(rest'[c]) = n /\ Len(pending'[c]) = 0
      BY <1>5
    <3>2. StepsLeft(c)' = 2 * Len(rest'[c]) + Len(pending'[c]) + 1
      BY <1>5 DEF StepsLeft
    <3> HIDE DEF n
    <3> QED
      BY <1>2, <3>1, <3>2
  <2> HIDE DEF n
  <2> QED
    BY <1>2, <2>1
<1> QED
  BY <1>1, <1>3, <1>4, <1>5

(* Every call of MyServiceImpl ends after 2 n + 2 steps at most.           *)
THEOREM CallsTakeFewSteps == Spec => [][CallsRunDown]_vars
<1>1. IInv /\ IInv' /\ [Next]_vars => [CallsRunDown]_vars
  BY StepRunsDown, BeginBounds DEF CallsRunDown
<1> QED
  BY <1>1, Invariance, PTL DEF Spec

(* What the other calls see changes when a statement is executed without a *)
(* transaction, or when a call with one ends without an exception, which   *)
(* shows them the rows as it has left them.  So a call with a transaction  *)
(* that throws has never changed anything for anybody, however many slices *)
(* it had sent: the counterpart of FailedBatchKeepsFlushes.                *)
ChangesAreCommitted ==
    \A k \in Keys : Committed(k)' # Committed(k) =>
        \E c \in Clients :
            \/ Execute(c) /\ ~request[c].tx /\ k \in Found(Head(pending[c]))
            \/ /\ End(c) /\ error[c] = NoAnswer /\ request[c].tx
               /\ undo[c][k] # Clean /\ Committed(k)' = table[k]

LEMMA SameCommitted ==
    ASSUME OneWriter, OneWriter', NEW k \in Keys, table'[k] = table[k],
           \A d \in Clients : undo'[d][k] = undo[d][k]
    PROVE  Committed(k)' = Committed(k)
<1>1. CASE \E d \in Clients : undo[d][k] # Clean
  BY <1>1, CommittedIs, CommittedIsNext
<1>2. CASE \A d \in Clients : undo[d][k] = Clean
  BY <1>2, CommittedIs, CommittedIsNext
<1> QED
  BY <1>1, <1>2

LEMMA ExecuteShows ==
    ASSUME IInv, IInv', NEW c \in Clients, Execute(c), NEW k \in Keys,
           Committed(k)' # Committed(k)
    PROVE  ~request[c].tx /\ k \in Found(Head(pending[c]))
<1>1. TypeOK /\ StageOK /\ OneWriter /\ OneWriter'
  BY DEF IInv, SaveInv
<1> DEFINE s == Head(pending[c])
<1>2. /\ s \in Statement /\ Unlocked(c, s) /\ table' = NewRows(s, c)
      /\ undo' = [undo EXCEPT ![c] =
           [key \in Keys |-> IF request[c].tx /\ undo[c][key] = Clean /\ key \in Found(s)
                               THEN table[key] ELSE undo[c][key]]]
  BY <1>1, Executed
<1> HIDE DEF s
<1>3. \A d \in Clients \ {c} : undo'[d] = undo[d]
  BY <1>1, <1>2 DEF TypeOK
<1>4. CASE k \notin Found(s)
  <2>1. table'[k] = table[k]
    <3>1. CASE k \notin s.keys
      BY <1>2, <3>1 DEF NewRows
    <3>2. CASE k \in s.keys
      <4>1. ~Hits(s, table[k])
        BY <1>4, <3>2 DEF Found
      <4>2. After(c, s, table[k]) = table[k]
        BY <1>2, <4>1 DEF After, Hits, Statement
      <4> QED
        BY <1>2, <3>2, <4>2 DEF NewRows
    <3> QED
      BY <3>1, <3>2
  <2>2. \A d \in Clients : undo'[d][k] = undo[d][k]
    BY <1>1, <1>2, <1>3, <1>4 DEF TypeOK
  <2> QED
    BY <1>1, <2>1, <2>2, SameCommitted
<1>5. CASE k \in Found(s) /\ request[c].tx
  <2>1. \A d \in Clients \ {c} : undo[d][k] = Clean
    BY <1>2, <1>5 DEF Unlocked, Found
  <2>2. CASE undo[c][k] # Clean
    <3>1. undo'[c][k] = undo[c][k]
      BY <1>1, <1>2, <2>2 DEF TypeOK
    <3> QED
      BY <1>1, <2>2, <3>1, CommittedIs, CommittedIsNext
  <2>3. CASE undo[c][k] = Clean
    <3>1. undo'[c][k] = table[k] /\ table[k] # Clean
      BY <1>1, <1>2, <1>5, <2>3, RowsApart DEF TypeOK
    <3>2. Committed(k) = table[k]
      BY <1>1, <2>1, <2>3, CommittedIs
    <3>3. Committed(k)' = table[k]
      BY <1>1, <3>1, CommittedIsNext
    <3> QED
      BY <3>2, <3>3
  <2> QED
    BY <2>2, <2>3
<1> QED
  BY <1>4, <1>5 DEF s

LEMMA EndShows ==
    ASSUME IInv, IInv', NEW c \in Clients, End(c), NEW k \in Keys,
           Committed(k)' # Committed(k)
    PROVE  error[c] = NoAnswer /\ request[c].tx /\ undo[c][k] # Clean /\ Committed(k)' = table[k]
<1>1. TypeOK /\ StageOK /\ OneWriter /\ OneWriter' /\ InFlow(c)
  BY DEF IInv, SaveInv, FlowInv
<1>2. /\ table' = [key \in Keys |-> IF error[c] # NoAnswer /\ undo[c][key] # Clean
                                      THEN undo[c][key] ELSE table[key]]
      /\ undo' = [undo EXCEPT ![c] = [key \in Keys |-> Clean]]
  BY DEF End
<1>3. undo'[c][k] = Clean /\ \A d \in Clients \ {c} : undo'[d] = undo[d]
  BY <1>1, <1>2 DEF TypeOK
<1>4. undo[c][k] # Clean
  <2> SUFFICES ASSUME undo[c][k] = Clean PROVE FALSE
    OBVIOUS
  <2>1. table'[k] = table[k] /\ \A d \in Clients : undo'[d][k] = undo[d][k]
    BY <1>2, <1>3
  <2> QED
    BY <1>1, <2>1, SameCommitted
<1>5. Committed(k) = undo[c][k]
  BY <1>1, <1>4, CommittedIs
<1>6. \A d \in Clients : undo'[d][k] = Clean
  BY <1>1, <1>3, <1>4 DEF OneWriter
<1>7. Committed(k)' = table'[k]
  BY <1>1, <1>6, CommittedIsNext
<1>8. error[c] = NoAnswer
  BY <1>2, <1>4, <1>5, <1>7
<1> QED
  BY <1>1, <1>2, <1>4, <1>7, <1>8 DEF InFlow

(* What others see of a row changes by statements outside of transactions  *)
(* and by commits only; a call that throws inside of one has done nothing. *)
THEOREM FailuresAreUndone == Spec => [][ChangesAreCommitted]_vars
<1>1. ASSUME IInv, IInv', Next, NEW k \in Keys, Committed(k)' # Committed(k)
      PROVE  \E c \in Clients :
                 \/ Execute(c) /\ ~request[c].tx /\ k \in Found(Head(pending[c]))
                 \/ /\ End(c) /\ error[c] = NoAnswer /\ request[c].tx
                    /\ undo[c][k] # Clean /\ Committed(k)' = table[k]
  <2>1. PICK c \in Clients :
          \/ Begin(c) \/ Accept(c) \/ Execute(c) \/ End(c)
          \/ \E e \in Errors : /\ at[c] = "flush" /\ Throw(c, e)
                               /\ e = "duplicate" => Duplicate(c)
    BY <1>1, Steps
  <2>2. CASE Execute(c)
    BY <1>1, <2>2, ExecuteShows
  <2>3. CASE End(c)
    BY <1>1, <2>3, EndShows
  <2>4. ASSUME ~Execute(c), ~End(c) PROVE FALSE
    <3>1. UNCHANGED <<table, undo>>
      BY <2>1, <2>4 DEF Begin, Accept, Throw
    <3> QED
      BY <1>1, <3>1, SameCommitted DEF IInv, SaveInv
  <2> QED
    BY <2>2, <2>3, <2>4
<1>2. IInv /\ IInv' /\ [Next]_vars => [ChangesAreCommitted]_vars
  BY <1>1 DEF ChangesAreCommitted
<1> QED
  BY <1>2, Invariance, PTL DEF Spec

=============================================================================
