--------------------------- MODULE NamespacesProofs ---------------------------
(***************************************************************************)
(* Proofs about Namespaces, for any number of clients, ids and UUIDs.      *)
(*                                                                         *)
(* Each step of the console is a step of NamespaceStore or leaves its      *)
(* variables alone: the creation happens where its row is inserted, and a  *)
(* refusal where the row is found.                                         *)
(***************************************************************************)
EXTENDS Namespaces, TLAPS

(* Creations carry trimmed ids, and the answer of a creation is what has   *)
(* happened.                                                               *)
CallInv(c) ==
    /\ ~Idle(c) => call[c].key \in Ids \cup Uuids
    /\ Idle(c) /\ call[c].op = "create" /\ call[c].answer # "error" =>
           (call[c].answer = "true" <=> call[c].changed)

Inv ==
    /\ TypeOK
    /\ OnlyTrimmedIds
    /\ \A c \in Clients : CallInv(c)

-----------------------------------------------------------------------------

LEMMA CreationsAreNoCalls == \A x : x \in Creation => x \notin Call
BY DEF Creation, Call

LEMMA KeysApart == \A k \in Ids \cup Uuids : k \notin Padded \ Ids
BY TrimAssumption

(* What a step of a client may do to the table.                            *)
Written(k, row) == table' = [table EXCEPT ![k] = row]

(* The client has an answer now, or is on with its creation.               *)
Has(c, last) == call' = [call EXCEPT ![c] = last]

(* The effects of the actions of a client, with the statement they make.   *)
Effects(c) ==
    \/ \E op \in Ops, answer \in {"true", "false", "exists", "illegal", "notFound", "error"},
          changed \in BOOLEAN :
         /\ Idle(c) /\ op # "create"
         /\ Has(c, [op |-> op, answer |-> answer, changed |-> changed])
         /\ \/ UNCHANGED table
            \/ \E k \in Keys : Written(k, NoRow)
            \/ \E k \in Keys, n \in Titles : Exists(k) /\ Written(k, [table[k] EXCEPT !.title = n])
    \/ \E answer \in {"false", "illegal", "error"} :
         /\ Idle(c)
         /\ Has(c, [op |-> "create", answer |-> answer, changed |-> FALSE])
         /\ UNCHANGED table
    \/ \E a \in Apis, k \in Ids \cup Uuids, n \in Titles :
         /\ Idle(c)
         /\ Has(c, [api |-> a, key |-> k, title |-> n, at |-> "count"])
         /\ UNCHANGED table
    \/ /\ ~Idle(c)
       /\ Has(c, [call[c] EXCEPT !.at = "insert"])
       /\ UNCHANGED table
    \/ \E answer \in {"false", "exists"} :
         /\ ~Idle(c) /\ Exists(call[c].key)
         /\ Has(c, [op |-> "create", answer |-> answer, changed |-> FALSE])
         /\ UNCHANGED table
    \/ /\ ~Idle(c)
       /\ Has(c, [op |-> "create", answer |-> "error", changed |-> FALSE])
       /\ UNCHANGED table
    \/ \E answer \in {"true", "error"} :
         /\ ~Idle(c) /\ ~Exists(call[c].key)
         /\ Has(c, [op |-> "create", answer |-> answer, changed |-> TRUE])
         /\ Written(call[c].key, [title |-> call[c].title, by |-> c])

LEMMA StepsHaveEffects ==
    ASSUME TypeOK, Next
    PROVE  \E c \in Clients : Effects(c)
<1> USE DEF Has, Tell, EndCreation, Written
<1>1. PICK c \in Clients :
        \/ Step(c)
        \/ \E a \in Apis : CreateIllegal(c, a) \/ \E n \in Titles : Create(c, a, n)
        \/ \E a \in Apis, op \in Ops : Invalid(c, a, op)
        \/ \E op \in {"edit", "remove", "look"} : StatementFails(c, op)
        \/ \E k \in Keys :
             \/ \E n \in Titles : Edit(c, k, n)
             \/ Remove(c, k) \/ CheckNamespaceIdExist(c, k)
             \/ \E a \in Apis : GetNamespace(c, a, k)
  BY DEF Next
<1> SUFFICES Effects(c)
  OBVIOUS
<1>2. CASE Count(c)
  BY <1>2 DEF Count, At, Refusal, Effects
<1>3. CASE Insert(c)
  BY <1>3 DEF Insert, At, InsertRow, Effects
<1>4. CASE InsertUnconfirmed(c)
  BY <1>4 DEF InsertUnconfirmed, At, InsertRow, Effects
<1>5. CASE Breaks(c)
  BY <1>5 DEF Breaks, Effects
<1>6. ASSUME NEW a \in Apis, CreateIllegal(c, a) PROVE Effects(c)
  BY <1>6 DEF CreateIllegal, Refusal, Effects
<1>7. ASSUME NEW a \in Apis, NEW n \in Titles, Create(c, a, n) PROVE Effects(c)
  <2>1. \A k \in Ids \cup Padded : Trim[k] \in Ids
    BY TrimAssumption
  <2> QED
    BY <1>7, <2>1 DEF Create, Start, Effects
<1>8. ASSUME NEW a \in Apis, NEW op \in Ops, Invalid(c, a, op) PROVE Effects(c)
  BY <1>8 DEF Invalid, Effects, Ops
<1>9. ASSUME NEW op \in {"edit", "remove", "look"}, StatementFails(c, op) PROVE Effects(c)
  BY <1>9 DEF StatementFails, Effects, Ops
<1>10. ASSUME NEW k \in Keys, NEW n \in Titles, Edit(c, k, n) PROVE Effects(c)
  BY <1>10 DEF Edit, TellDone, Effects, Ops, Exists
<1>11. ASSUME NEW k \in Keys, Remove(c, k) PROVE Effects(c)
  BY <1>11 DEF Remove, TellDone, Effects, Ops, Exists
<1>12. ASSUME NEW k \in Keys, CheckNamespaceIdExist(c, k) PROVE Effects(c)
  BY <1>12 DEF CheckNamespaceIdExist, Effects, Ops
<1>13. ASSUME NEW k \in Keys, NEW a \in Apis, GetNamespace(c, a, k) PROVE Effects(c)
  <2>1. PICK answer \in {"true", "error", "notFound"} :
          Has(c, [op |-> "look", answer |-> answer, changed |-> FALSE])
    BY <1>13 DEF GetNamespace
  <2> QED
    BY <1>13, <2>1 DEF GetNamespace, Effects, Ops
<1>14. CASE Step(c)
  BY <1>2, <1>3, <1>4, <1>5, <1>14 DEF Step
<1> QED
  BY <1>1, <1>6, <1>7, <1>8, <1>9, <1>10, <1>11, <1>12, <1>13, <1>14

-----------------------------------------------------------------------------

LEMMA InitInv == Init => Inv
<1> SUFFICES ASSUME Init PROVE Inv
  OBVIOUS
<1>1. \A c \in Clients : call[c] \in Call /\ call[c].op = "look"
  BY DEF Init, Call, Ops
<1>2. TypeOK
  BY <1>1 DEF Init, TypeOK
<1>3. OnlyTrimmedIds
  BY DEF Init, OnlyTrimmedIds, Exists, Keys
<1> QED
  BY <1>1, <1>2, <1>3 DEF Inv, CallInv, Idle

(* The call of a client that is not idle is a creation.                    *)
LEMMA CreationsOfTheBusy ==
    ASSUME TypeOK, NEW c \in Clients
    PROVE  /\ Idle(c) <=> call[c] \in Call
           /\ ~Idle(c) <=> call[c] \in Creation
BY CreationsAreNoCalls DEF TypeOK, Idle

LEMMA EffectsKeepInv ==
    ASSUME Inv, NEW c \in Clients, Effects(c)
    PROVE  Inv'
<1> USE DEF Inv
<1>1. ASSUME NEW last \in Creation \cup Call, Has(c, last),
             last \in Creation => last.key \in Ids \cup Uuids,
             last \in Call /\ last.op = "create" /\ last.answer # "error" =>
                 (last.answer = "true" <=> last.changed)
      PROVE  call' \in [Clients -> Creation \cup Call] /\ \A d \in Clients : CallInv(d)'
  <2>1. call' \in [Clients -> Creation \cup Call]
    BY <1>1 DEF Has, TypeOK
  <2>2. CallInv(c)'
    <3>1. call'[c] = last
      BY <1>1 DEF Has, TypeOK
    <3> QED
      BY <1>1, <3>1, CreationsAreNoCalls DEF CallInv, Idle
  <2>3. \A d \in Clients \ {c} : CallInv(d)'
    BY <1>1 DEF Has, TypeOK, CallInv, Idle
  <2> QED
    BY <2>1, <2>2, <2>3
<1>2. ASSUME NEW k \in Keys, NEW row \in Row \cup {NoRow}, Written(k, row),
             row # NoRow => k \notin Padded \ Ids
      PROVE  table' \in [Keys -> Row \cup {NoRow}] /\ OnlyTrimmedIds'
  BY <1>2 DEF Written, TypeOK, OnlyTrimmedIds, Exists, Keys
<1>3. UNCHANGED table => table' \in [Keys -> Row \cup {NoRow}] /\ OnlyTrimmedIds'
  BY DEF TypeOK, OnlyTrimmedIds, Exists
<1>4. ASSUME NEW op \in Ops, NEW answer \in {"true", "false", "exists", "illegal", "notFound", "error"},
             NEW changed \in BOOLEAN,
             op = "create" /\ answer # "error" => (answer = "true" <=> changed),
             Has(c, [op |-> op, answer |-> answer, changed |-> changed])
      PROVE  call' \in [Clients -> Creation \cup Call] /\ \A d \in Clients : CallInv(d)'
  <2> DEFINE last == [op |-> op, answer |-> answer, changed |-> changed]
  <2>1. last \in Call /\ last.op = op /\ last.answer = answer /\ last.changed = changed
    BY DEF Call
  <2>2. last \notin Creation
    BY <2>1, CreationsAreNoCalls
  <2> HIDE DEF last
  <2> QED
    BY <1>1, <1>4, <2>1, <2>2 DEF last
<1>5. CASE \E op \in Ops, answer \in {"true", "false", "exists", "illegal", "notFound", "error"},
              changed \in BOOLEAN :
             /\ Idle(c) /\ op # "create"
             /\ Has(c, [op |-> op, answer |-> answer, changed |-> changed])
             /\ \/ UNCHANGED table
                \/ \E k \in Keys : Written(k, NoRow)
                \/ \E k \in Keys, n \in Titles : Exists(k) /\ Written(k, [table[k] EXCEPT !.title = n])
  <2>1. call' \in [Clients -> Creation \cup Call] /\ \A d \in Clients : CallInv(d)'
    BY <1>4, <1>5
  <2>2. ASSUME NEW k \in Keys, NEW n \in Titles, Exists(k),
               Written(k, [table[k] EXCEPT !.title = n])
        PROVE  table' \in [Keys -> Row \cup {NoRow}] /\ OnlyTrimmedIds'
    <3>1. [table[k] EXCEPT !.title = n] \in Row
      BY <2>2 DEF TypeOK, Exists, Row
    <3>2. k \notin Padded \ Ids
      BY <2>2 DEF OnlyTrimmedIds
    <3> QED
      BY <1>2, <2>2, <3>1, <3>2
  <2>3. table' \in [Keys -> Row \cup {NoRow}] /\ OnlyTrimmedIds'
    BY <1>2, <1>3, <1>5, <2>2
  <2> QED
    BY <2>1, <2>3 DEF TypeOK
<1>6. CASE \E answer \in {"false", "illegal", "error", "exists"} :
             /\ Has(c, [op |-> "create", answer |-> answer, changed |-> FALSE])
             /\ UNCHANGED table
  BY <1>3, <1>4, <1>6 DEF TypeOK, Ops
<1>7. CASE \E a \in Apis, k \in Ids \cup Uuids, n \in Titles :
             /\ Has(c, [api |-> a, key |-> k, title |-> n, at |-> "count"])
             /\ UNCHANGED table
  <2>1. PICK a \in Apis, k \in Ids \cup Uuids, n \in Titles :
          /\ Has(c, [api |-> a, key |-> k, title |-> n, at |-> "count"])
          /\ UNCHANGED table
    BY <1>7
  <2> DEFINE last == [api |-> a, key |-> k, title |-> n, at |-> "count"]
  <2>2. last \in Creation /\ last.key \in Ids \cup Uuids
    BY DEF Creation, Keys
  <2> HIDE DEF last
  <2> QED
    BY <1>1, <1>3, <2>1, <2>2, CreationsAreNoCalls DEF last, TypeOK
<1>8. CASE ~Idle(c) /\ Has(c, [call[c] EXCEPT !.at = "insert"]) /\ UNCHANGED table
  <2> DEFINE last == [call[c] EXCEPT !.at = "insert"]
  <2>1. call[c] \in Creation /\ call[c].key \in Ids \cup Uuids
    BY <1>8, CreationsOfTheBusy DEF CallInv
  <2>2. last \in Creation /\ last.key = call[c].key
    BY <2>1 DEF Creation
  <2> HIDE DEF last
  <2> QED
    BY <1>1, <1>3, <1>8, <2>1, <2>2, CreationsAreNoCalls DEF last, TypeOK
<1>9. CASE \E answer \in {"true", "error"} :
             /\ ~Idle(c) /\ ~Exists(call[c].key)
             /\ Has(c, [op |-> "create", answer |-> answer, changed |-> TRUE])
             /\ Written(call[c].key, [title |-> call[c].title, by |-> c])
  <2> DEFINE row == [title |-> call[c].title, by |-> c]
  <2>1. call[c] \in Creation /\ call[c].key \in Ids \cup Uuids
    BY <1>9, CreationsOfTheBusy DEF CallInv
  <2>2. row \in Row /\ call[c].key \in Keys /\ call[c].key \notin Padded \ Ids
    BY <2>1, KeysApart DEF Creation, Row
  <2> HIDE DEF row
  <2>3. table' \in [Keys -> Row \cup {NoRow}] /\ OnlyTrimmedIds'
    BY <1>2, <1>9, <2>2 DEF row
  <2> QED
    BY <1>4, <1>9, <2>3 DEF TypeOK, Ops
<1> QED
  BY <1>5, <1>6, <1>7, <1>8, <1>9 DEF Effects

LEMMA Invariance == Spec => []Inv
<1>1. Inv /\ [Next]_vars => Inv'
  <2>1. Inv /\ Next => Inv'
    BY StepsHaveEffects, EffectsKeepInv DEF Inv
  <2>2. Inv /\ UNCHANGED vars => Inv'
    BY DEF vars, Inv, TypeOK, OnlyTrimmedIds, Exists, CallInv, Idle
  <2> QED
    BY <2>1, <2>2
<1> QED
  BY <1>1, InitInv, PTL DEF Spec

(* Type correctness.                                                       *)
THEOREM TypeCorrect == Spec => []TypeOK
<1>1. Inv => TypeOK
  BY DEF Inv
<1> QED
  BY <1>1, Invariance, PTL

(* No interleaving brings an id with blanks into the table.                *)
THEOREM IdsAreTrimmed == Spec => []OnlyTrimmedIds
<1>1. Inv => OnlyTrimmedIds
  BY DEF Inv
<1> QED
  BY <1>1, Invariance, PTL

(* A creation that is answered without an error is answered truly.         *)
THEOREM CreationsAreToldTruly == Spec => []CreateTellsTheTruth
<1>1. Inv => CreateTellsTheTruth
  BY DEF Inv, CallInv, CreateTellsTheTruth
<1> QED
  BY <1>1, Invariance, PTL

-----------------------------------------------------------------------------
(* Refinement.                                                             *)

Told == [c \in Clients |-> ToldBy(call[c])]

LEMMA OwnersAfter ==
    ASSUME TypeOK, NEW k \in Keys
    PROVE  /\ UNCHANGED table => Owner' = Owner
           /\ Written(k, NoRow) => Owner' = [Owner EXCEPT ![k] = NoRow]
           /\ \A n \in Titles : Exists(k) /\ Written(k, [table[k] EXCEPT !.title = n])
                                    => Owner' = Owner
           /\ \A n \in Titles, c \in Clients : Written(k, [title |-> n, by |-> c])
                                    => Owner' = [Owner EXCEPT ![k] = c]
<1>1. UNCHANGED table => Owner' = Owner
  BY DEF Owner, Exists
<1>2. Written(k, NoRow) => Owner' = [Owner EXCEPT ![k] = NoRow]
  BY DEF Written, Owner, Exists, TypeOK
<1>3. ASSUME NEW n \in Titles, Exists(k), Written(k, [table[k] EXCEPT !.title = n])
      PROVE  Owner' = Owner
  <2> DEFINE row == [table[k] EXCEPT !.title = n]
  <2>1. table[k] \in Row
    BY <1>3 DEF Exists, TypeOK
  <2>2. row \in Row /\ row.by = table[k].by /\ row # NoRow
    BY <2>1, NothingAssumption DEF Row
  <2> HIDE DEF row
  <2>3. table' = [table EXCEPT ![k] = row]
    BY <1>3 DEF Written, row
  <2> QED
    BY <1>3, <2>2, <2>3 DEF Owner, Exists, TypeOK
<1>4. ASSUME NEW n \in Titles, NEW c \in Clients, Written(k, [title |-> n, by |-> c])
      PROVE  Owner' = [Owner EXCEPT ![k] = c]
  <2> DEFINE row == [title |-> n, by |-> c]
  <2>1. row \in Row /\ row.by = c /\ row # NoRow
    BY NothingAssumption DEF Row
  <2> HIDE DEF row
  <2>2. table' = [table EXCEPT ![k] = row]
    BY <1>4 DEF Written, row
  <2> QED
    BY <2>1, <2>2 DEF Owner, Exists, TypeOK
<1> QED
  BY <1>1, <1>2, <1>3, <1>4

LEMMA CallsAfter ==
    ASSUME TypeOK, NEW c \in Clients, NEW last \in Creation \cup Call, Has(c, last)
    PROVE  /\ Told' = [Told EXCEPT ![c] = ToldBy(last)]
           /\ Asking' = [Asking EXCEPT ![c] = IF last \in Call THEN NoKey ELSE last.key]
<1>1. call' = [call EXCEPT ![c] = last]
  BY DEF Has
<1>2. Told' = [Told EXCEPT ![c] = ToldBy(last)]
  BY <1>1 DEF Told, TypeOK
<1>3. Asking' = [Asking EXCEPT ![c] = IF last \in Call THEN NoKey ELSE last.key]
  BY <1>1 DEF Asking, Idle, TypeOK
<1> QED
  BY <1>2, <1>3

(* The answer of a call as NamespaceStore has it.                          *)
LEMMA Answers ==
    ASSUME TypeOK, NEW c \in Clients, NEW op \in Ops,
           NEW answer \in {"true", "false", "exists", "illegal", "notFound", "error"},
           NEW changed \in BOOLEAN,
           Has(c, [op |-> op, answer |-> answer, changed |-> changed])
    PROVE  /\ Asking' = [Asking EXCEPT ![c] = NoKey]
           /\ Told' = [Told EXCEPT ![c] =
                  IF op # "create" THEN "nothing"
                  ELSE IF answer = "true" THEN "created"
                  ELSE IF answer = "error" THEN "failed" ELSE "refused"]
<1> DEFINE last == [op |-> op, answer |-> answer, changed |-> changed]
<1>1. last \in Call /\ last.op = op /\ last.answer = answer
  BY DEF Call
<1> HIDE DEF last
<1>2. ToldBy(last) = IF op # "create" THEN "nothing"
                     ELSE IF answer = "true" THEN "created"
                     ELSE IF answer = "error" THEN "failed" ELSE "refused"
  BY <1>1 DEF ToldBy
<1>3. Has(c, last)
  BY DEF last
<1> QED
  BY <1>1, <1>2, <1>3, CallsAfter

LEMMA AskingOf ==
    ASSUME TypeOK, NEW c \in Clients
    PROVE  /\ Idle(c) => Asking[c] = NoKey
           /\ ~Idle(c) => /\ Asking[c] = call[c].key /\ call[c].key \in Keys
                          /\ call[c].title \in Titles /\ Asking[c] # NoKey
           /\ \A k \in Keys : Owner[k] = NoRow <=> ~Exists(k)
<1>1. ~Idle(c) => call[c] \in Creation
  BY CreationsOfTheBusy
<1>2. \A k \in Keys : Exists(k) => table[k].by \in Clients
  BY DEF TypeOK, Exists, Row
<1> QED
  BY <1>1, <1>2, TrimAssumption, NothingAssumption DEF Asking, Owner, Creation

LEMMA InitRefines == Init => Store!Init
<1> SUFFICES ASSUME Init PROVE Store!Init
  OBVIOUS
<1>1. Owner = [k \in Keys |-> NoRow]
  BY DEF Init, Owner, Exists
<1>2. \A c \in Clients : call[c] \in Call /\ call[c].op = "look"
  BY DEF Init, Call, Ops
<1>3. Asking = [c \in Clients |-> NoKey]
  BY <1>2 DEF Asking, Idle
<1>4. [c \in Clients |-> ToldBy(call[c])] = [c \in Clients |-> "nothing"]
  BY <1>2 DEF ToldBy
<1> QED
  BY <1>1, <1>3, <1>4 DEF Store!Init

LEMMA EffectsRefine ==
    ASSUME TypeOK, NEW c \in Clients, Effects(c)
    PROVE  [Store!Next]_(Store!vars)
<1> USE DEF Told
<1>1. CASE \E op \in Ops, answer \in {"true", "false", "exists", "illegal", "notFound", "error"},
              changed \in BOOLEAN :
             /\ Idle(c) /\ op # "create"
             /\ Has(c, [op |-> op, answer |-> answer, changed |-> changed])
             /\ \/ UNCHANGED table
                \/ \E k \in Keys : Written(k, NoRow)
                \/ \E k \in Keys, n \in Titles : Exists(k) /\ Written(k, [table[k] EXCEPT !.title = n])
  <2>1. Asking[c] = NoKey
    BY <1>1, AskingOf
  <2>2. Asking' = [Asking EXCEPT ![c] = NoKey] /\ Told' = [Told EXCEPT ![c] = "nothing"]
    BY <1>1, Answers
  <2>3. Asking' = Asking
    BY <2>1, <2>2 DEF Asking
  <2>4. Owner' \in {Owner} \cup {[Owner EXCEPT ![k] = NoRow] : k \in Keys}
    <3>1. CASE UNCHANGED table
      BY <3>1 DEF Owner, Exists
    <3>2. ASSUME NEW k \in Keys, Written(k, NoRow)
          PROVE  Owner' = [Owner EXCEPT ![k] = NoRow]
      BY <3>2, OwnersAfter
    <3>3. ASSUME NEW k \in Keys, NEW n \in Titles,
                 Exists(k), Written(k, [table[k] EXCEPT !.title = n])
          PROVE  Owner' = Owner
      BY <3>3, OwnersAfter
    <3> QED
      BY <1>1, <3>1, <3>2, <3>3
  <2> QED
    BY <2>1, <2>2, <2>3, <2>4 DEF Store!Next, Store!Other
<1>2. CASE \E answer \in {"false", "illegal", "error"} :
             /\ Idle(c)
             /\ Has(c, [op |-> "create", answer |-> answer, changed |-> FALSE])
             /\ UNCHANGED table
  <2>1. Asking[c] = NoKey
    BY <1>2, AskingOf
  <2>2. /\ Asking' = [Asking EXCEPT ![c] = NoKey]
        /\ \E what \in {"refused", "failed"} : Told' = [Told EXCEPT ![c] = what]
    BY <1>2, Answers DEF Ops
  <2>3. Asking' = Asking
    BY <2>1, <2>2 DEF Asking
  <2>4. Owner' = Owner
    BY <1>2 DEF Owner, Exists
  <2> QED
    BY <2>1, <2>2, <2>3, <2>4 DEF Store!Next, Store!Rejected
<1>3. CASE \E a \in Apis, k \in Ids \cup Uuids, n \in Titles :
             /\ Idle(c)
             /\ Has(c, [api |-> a, key |-> k, title |-> n, at |-> "count"])
             /\ UNCHANGED table
  <2>1. PICK a \in Apis, k \in Ids \cup Uuids, n \in Titles :
          Idle(c) /\ Has(c, [api |-> a, key |-> k, title |-> n, at |-> "count"]) /\ UNCHANGED table
    BY <1>3
  <2> DEFINE last == [api |-> a, key |-> k, title |-> n, at |-> "count"]
  <2>2. last \in Creation /\ last.key = k /\ last \notin Call /\ k \in Keys
    BY CreationsAreNoCalls DEF Creation, Keys
  <2> HIDE DEF last
  <2>3. ToldBy(last) = "nothing"
    BY <2>2 DEF ToldBy
  <2>4. Asking' = [Asking EXCEPT ![c] = k] /\ Told' = [Told EXCEPT ![c] = "nothing"]
    BY <2>1, <2>2, <2>3, CallsAfter DEF last
  <2>5. Asking[c] = NoKey /\ Owner' = Owner
    BY <2>1, AskingOf DEF Owner, Exists
  <2>6. Store!Ask(c, k)
    BY <2>4, <2>5 DEF Store!Ask
  <2> QED
    BY <2>2, <2>6 DEF Store!Next
<1>4. CASE ~Idle(c) /\ Has(c, [call[c] EXCEPT !.at = "insert"]) /\ UNCHANGED table
  <2> DEFINE last == [call[c] EXCEPT !.at = "insert"]
  <2>1. call[c] \in Creation /\ call[c] \notin Call
    BY <1>4, CreationsOfTheBusy
  <2>2. last \in Creation /\ last.key = call[c].key /\ last \notin Call
    BY <2>1, CreationsAreNoCalls DEF Creation
  <2> HIDE DEF last
  <2>3. ToldBy(last) = "nothing" /\ Told[c] = "nothing" /\ Asking[c] = call[c].key
    BY <1>4, <2>1, <2>2, AskingOf DEF ToldBy
  <2>4. Has(c, last)
    BY <1>4 DEF last
  <2>5. Asking' = [Asking EXCEPT ![c] = Asking[c]] /\ Told' = [Told EXCEPT ![c] = Told[c]]
    BY <2>2, <2>3, <2>4, CallsAfter
  <2>6. Asking' = Asking /\ Told' = Told /\ Owner' = Owner
    BY <1>4, <2>5 DEF Asking, Told, Owner, Exists
  <2> QED
    BY <2>6 DEF Store!vars, Told
<1>5. CASE \E answer \in {"false", "exists"} :
             /\ ~Idle(c) /\ Exists(call[c].key)
             /\ Has(c, [op |-> "create", answer |-> answer, changed |-> FALSE])
             /\ UNCHANGED table
  <2>1. Asking[c] # NoKey /\ Owner[Asking[c]] # NoRow
    BY <1>5, AskingOf
  <2>2. Asking' = [Asking EXCEPT ![c] = NoKey] /\ Told' = [Told EXCEPT ![c] = "refused"]
    BY <1>5, Answers DEF Ops
  <2>3. Owner' = Owner
    BY <1>5 DEF Owner, Exists
  <2> QED
    BY <2>1, <2>2, <2>3 DEF Store!Next, Store!Refused, Store!Answer
<1>6. CASE ~Idle(c) /\ Has(c, [op |-> "create", answer |-> "error", changed |-> FALSE])
           /\ UNCHANGED table
  <2>1. Asking[c] # NoKey
    BY <1>6, AskingOf
  <2>2. Asking' = [Asking EXCEPT ![c] = NoKey] /\ Told' = [Told EXCEPT ![c] = "failed"]
    BY <1>6, Answers DEF Ops
  <2>3. Owner' = Owner
    BY <1>6 DEF Owner, Exists
  <2> QED
    BY <2>1, <2>2, <2>3 DEF Store!Next, Store!Failed, Store!Answer
<1>7. CASE \E answer \in {"true", "error"} :
             /\ ~Idle(c) /\ ~Exists(call[c].key)
             /\ Has(c, [op |-> "create", answer |-> answer, changed |-> TRUE])
             /\ Written(call[c].key, [title |-> call[c].title, by |-> c])
  <2>1. /\ Asking[c] = call[c].key /\ Asking[c] \in Keys /\ call[c].title \in Titles
        /\ Asking[c] # NoKey /\ Owner[Asking[c]] = NoRow
    BY <1>7, AskingOf
  <2>2. /\ Asking' = [Asking EXCEPT ![c] = NoKey]
        /\ Told' = [Told EXCEPT ![c] = "created"] \/ Told' = [Told EXCEPT ![c] = "failed"]
    BY <1>7, Answers DEF Ops
  <2>3. Owner' = [Owner EXCEPT ![Asking[c]] = c]
    BY <1>7, <2>1, OwnersAfter
  <2> QED
    BY <2>1, <2>2, <2>3
       DEF Store!Next, Store!Created, Store!Failed, Store!Answer, Store!Creates
<1> QED
  BY <1>1, <1>2, <1>3, <1>4, <1>5, <1>6, <1>7 DEF Effects

(* Counting and inserting, in two statements and with a unique key,        *)
(* implements a creation that happens at once, for any number of requests. *)
THEOREM Refinement == Spec => CreatesAtOnce
<1>1. TypeOK /\ [Next]_vars => [Store!Next]_(Store!vars)
  <2>1. TypeOK /\ Next => [Store!Next]_(Store!vars)
    BY StepsHaveEffects, EffectsRefine
  <2>2. UNCHANGED vars => UNCHANGED Store!vars
    BY DEF vars, Store!vars, Owner, Asking, Exists, Idle
  <2> QED
    BY <2>1, <2>2
<1> QED
  BY <1>1, InitRefines, TypeCorrect, PTL DEF Spec, CreatesAtOnce, Store!Spec

(* No creation overwrites the row of another one.                          *)
THEOREM CreatorsStay == Spec => RowsHaveOneCreator
<1>1. TypeOK /\ [Next]_vars =>
        [\A k \in Keys : Exists(k) /\ table'[k] # NoRow => table'[k].by = table[k].by]_vars
  <2> SUFFICES ASSUME TypeOK, [Next]_vars, NEW k \in Keys, Exists(k), table'[k] # NoRow
               PROVE  table'[k].by = table[k].by
    OBVIOUS
  <2>1. CASE UNCHANGED table
    BY <2>1
  <2>2. ASSUME NEW l \in Keys, Written(l, NoRow) PROVE table'[k].by = table[k].by
    BY <2>2 DEF Written, TypeOK
  <2>3. ASSUME NEW l \in Keys, NEW n \in Titles, Written(l, [table[l] EXCEPT !.title = n]), Exists(l)
        PROVE  table'[k].by = table[k].by
    <3> DEFINE row == [table[l] EXCEPT !.title = n]
    <3>1. row.by = table[l].by
      BY <2>3 DEF TypeOK, Exists, Row
    <3> HIDE DEF row
    <3>2. table' = [table EXCEPT ![l] = row]
      BY <2>3 DEF Written, row
    <3> QED
      BY <3>1, <3>2 DEF TypeOK
  <2>4. ASSUME NEW c \in Clients, ~Exists(call[c].key),
               Written(call[c].key, [title |-> call[c].title, by |-> c])
        PROVE  table'[k].by = table[k].by
    BY <2>4 DEF Written, TypeOK
  <2>5. CASE Next
    <3>1. PICK c \in Clients : Effects(c)
      BY <2>5, StepsHaveEffects
    <3> QED
      BY <2>1, <2>2, <2>3, <2>4, <3>1 DEF Effects
  <2> QED
    BY <2>1, <2>5 DEF vars
<1> QED
  BY <1>1, TypeCorrect, PTL DEF Spec, RowsHaveOneCreator

=============================================================================
