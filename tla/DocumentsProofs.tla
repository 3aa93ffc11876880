---------------------------- MODULE DocumentsProofs ----------------------------
(***************************************************************************)
(* Proofs about Documents, for classes of any number of fields, any names  *)
(* and any number of clients.                                              *)
(*                                                                         *)
(* The typing is inductive, and so is that only nulls are stored under a   *)
(* Java name that is no key.  The other properties follow in every state:  *)
(* where no name or key belongs to two fields, an object and its BSON hold *)
(* the same values, and each builder takes a subset of them; so what a     *)
(* save has chosen is what is read afterwards.                             *)
(***************************************************************************)
EXTENDS Documents, FiniteSetTheorems, WellFoundedInduction, TLAPS

(* A set of indices has a last one: the indices above it are none, for the *)
(* sets of indices above an index are well-founded by inclusion.           *)
LEMMA LastIsLast ==
    ASSUME NEW n \in Nat, NEW S \in SUBSET (1 .. n), S # {}
    PROVE  Last(S) \in S /\ \A j \in S : j <= Last(S)
<1> DEFINE above(i) == {j \in S : i < j}
           T == {above(i) : i \in S}
<1>1. IsFiniteSet(S)
  <2>1. IsFiniteSet(1 .. n)
    BY FS_Interval
  <2> QED
    BY <2>1, FS_Subset
<1>2. T \in SUBSET FiniteSubsetsOf(S) /\ T # {}
  <2>1. \A i \in S : above(i) \in SUBSET S
    OBVIOUS
  <2>2. \A i \in S : IsFiniteSet(above(i))
    BY <1>1, <2>1, FS_Subset
  <2> HIDE DEF above
  <2> QED
    BY <2>1, <2>2 DEF FiniteSubsetsOf
<1>3. PICK x \in T : \A y \in T : ~ (<<y, x>> \in StrictSubsetOrdering(S))
  <2> HIDE DEF T
  <2> QED
    BY <1>2, FS_StrictSubsetOrderingWellFounded, WFMin
<1>4. PICK i \in S : x = above(i)
  OBVIOUS
<1>5. \A j \in S : j <= i
  <2>1. SUFFICES ASSUME NEW j \in S, i < j PROVE FALSE
    OBVIOUS
  <2>2. above(j) \subseteq above(i) /\ j \in above(i) /\ j \notin above(j)
    <3>1. i \in Nat /\ j \in Nat /\ \A k \in S : k \in Nat
      OBVIOUS
    <3>2. \A k \in S : j < k => i < k
      BY <2>1, <3>1
    <3>3. ~ (j < j)
      BY <3>1
    <3> QED
      BY <2>1, <3>2, <3>3
  <2>3. above(j) \in T /\ above(j) \in SUBSET S /\ above(i) \in SUBSET S
    OBVIOUS
  <2>4. <<above(j), above(i)>> \in StrictSubsetOrdering(S)
    <3> HIDE DEF above
    <3> QED
      BY <2>2, <2>3 DEF StrictSubsetOrdering
  <2> QED
    BY <1>3, <1>4, <2>3, <2>4
<1> QED
  BY <1>5 DEF Last

-----------------------------------------------------------------------------
(* Objects and BSONs.                                                      *)

LEMMA FieldsOfClasses ==
    ASSUME NEW cl \in Classes
    PROVE  /\ cl \in Seq(Field)
           /\ DOMAIN cl = 1 .. Len(cl) /\ Len(cl) \in Nat
           /\ \A i \in DOMAIN cl : cl[i].name \in Names /\ cl[i].key \in Names
<1>1. cl \in Seq(Field)
  BY DocumentAssumption
<1>2. DOMAIN cl = 1 .. Len(cl) /\ Len(cl) \in Nat /\ \A i \in DOMAIN cl : cl[i] \in Field
  BY <1>1
<1> QED
  BY <1>1, <1>2 DEF Field

LEMMA PutKeys ==
    ASSUME NEW cl \in Classes, NEW o \in [DOMAIN cl -> Maybe],
           NEW S \in SUBSET DOMAIN cl
    PROVE  /\ Put(cl, o, S) \in Bsons
           /\ DOMAIN Put(cl, o, S) = {cl[i].key : i \in S}
           /\ \A k \in DOMAIN Put(cl, o, S) :
                  \E i \in S : cl[i].key = k /\ Put(cl, o, S)[k] = o[i]
<1> DEFINE keys == {cl[i].key : i \in S}
           of(k) == {i \in S : cl[i].key = k}
<1>1. keys \in SUBSET Names
  BY FieldsOfClasses
<1>2. DOMAIN Put(cl, o, S) = keys
  BY DEF Put
<1>3. ASSUME NEW k \in keys
      PROVE  /\ Last(of(k)) \in S /\ cl[Last(of(k))].key = k
             /\ Put(cl, o, S)[k] = o[Last(of(k))]
  <2>1. of(k) \in SUBSET (1 .. Len(cl)) /\ of(k) # {}
    BY FieldsOfClasses
  <2>2. Last(of(k)) \in of(k)
    BY <2>1, FieldsOfClasses, LastIsLast
  <2>3. Put(cl, o, S)[k] = o[Last(of(k))]
    BY DEF Put
  <2> QED
    BY <2>2, <2>3
<1>4. Put(cl, o, S) \in [keys -> Maybe]
  <2>1. \A k \in keys : Put(cl, o, S)[k] \in Maybe
    BY <1>3
  <2>2. Put(cl, o, S) = [k \in keys |-> Put(cl, o, S)[k]]
    BY DEF Put
  <2> HIDE DEF keys
  <2> QED
    BY <2>1, <2>2
<1> HIDE DEF keys
<1>5. Put(cl, o, S) \in Bsons
  BY <1>1, <1>4 DEF Bsons
<1> QED
  BY <1>2, <1>3, <1>5 DEF keys

LEMMA KeysAreOwn ==
    ASSUME NEW cl \in Classes, Unambiguous(cl),
           NEW i \in DOMAIN cl, NEW j \in DOMAIN cl, i # j
    PROVE  /\ Lower[cl[i].key] # Lower[cl[j].key]
           /\ Lower[cl[i].key] # Lower[cl[j].name]
           /\ Lower[cl[i].name] # Lower[cl[j].name]
BY DEF Unambiguous

(* Where no key belongs to two fields, each field keeps its own value.     *)
LEMMA PutValues ==
    ASSUME NEW cl \in Classes, Unambiguous(cl), NEW o \in [DOMAIN cl -> Maybe],
           NEW S \in SUBSET DOMAIN cl, NEW i \in DOMAIN cl
    PROVE  /\ cl[i].key \in DOMAIN Put(cl, o, S) <=> i \in S
           /\ i \in S => Put(cl, o, S)[cl[i].key] = o[i]
<1>1. \A j \in DOMAIN cl : cl[j].key = cl[i].key => j = i
  BY KeysAreOwn
<1>2. DOMAIN Put(cl, o, S) = {cl[j].key : j \in S}
  BY PutKeys
<1>3. cl[i].key \in DOMAIN Put(cl, o, S) <=> i \in S
  BY <1>1, <1>2
<1>4. ASSUME i \in S PROVE Put(cl, o, S)[cl[i].key] = o[i]
  <2>1. PICK j \in S : cl[j].key = cl[i].key /\ Put(cl, o, S)[cl[i].key] = o[j]
    BY <1>3, <1>4, PutKeys
  <2> QED
    BY <1>1, <2>1
<1> QED
  BY <1>3, <1>4

LEMMA PutGets ==
    ASSUME NEW cl \in Classes, Unambiguous(cl), NEW o \in [DOMAIN cl -> Maybe],
           NEW i \in DOMAIN cl
    PROVE  Get(ToBson(cl, o), cl[i].key) = o[i]
BY PutValues DEF Get, ToBson

LEMMA UpdatesAreBsons ==
    ASSUME NEW cl \in Classes, NEW o \in [DOMAIN cl -> Maybe],
           NEW way \in Ways, NEW mode \in BOOLEAN, NEW names \in SUBSET Names
    PROVE  Updates(cl, o, way, mode, names) \subseteq Bsons
<1>1. ToBson(cl, o) \in Bsons
  BY PutKeys DEF ToBson
<1>2. \A k : Get(ToBson(cl, o), k) \in Maybe
  BY <1>1 DEF Get, Bsons, Maybe
<1>3. UpdateForBsonInclude(ToBson(cl, o), mode, names) \in Bsons
  <2> DEFINE keys == {k \in names : mode \/ Get(ToBson(cl, o), k) # Null}
  <2>1. UpdateForBsonInclude(ToBson(cl, o), mode, names) \in [keys -> Maybe]
    BY <1>2 DEF UpdateForBsonInclude
  <2> HIDE DEF keys
  <2> QED
    BY <2>1 DEF Bsons, keys
<1>4. UpdateForBsonExclude(ToBson(cl, o), mode, names) \in Bsons
  <2> DEFINE bson == ToBson(cl, o)
             keys == {k \in DOMAIN bson : /\ mode \/ bson[k] # Null
                                          /\ \A e \in names : Lower[k] # Lower[e]}
  <2>1. \A k \in keys : bson[k] \in Maybe
    BY <1>1 DEF Bsons
  <2>2. keys \in SUBSET Names
    BY <1>1 DEF Bsons
  <2>3. UpdateForBsonExclude(ToBson(cl, o), mode, names) = [k \in keys |-> bson[k]]
    BY DEF UpdateForBsonExclude
  <2> HIDE DEF keys, bson
  <2> QED
    BY <2>1, <2>2, <2>3 DEF Bsons
<1>5. UpdateForObjectInclude(cl, o, mode, names) \subseteq Bsons
  <2> DEFINE set == {i \in DOMAIN cl : cl[i].name \in names /\ (mode \/ o[i] # Null)}
             keys == {cl[i].key : i \in set}
  <2>1. keys \in SUBSET Names
    BY FieldsOfClasses
  <2>2. UpdateForObjectInclude(cl, o, mode, names) \subseteq [keys -> Maybe]
    BY DEF UpdateForObjectInclude
  <2> HIDE DEF keys
  <2> QED
    BY <2>1, <2>2 DEF Bsons
<1>6. UpdateForObjectExclude(cl, o, mode, names) \in Bsons
  BY PutKeys DEF UpdateForObjectExclude
<1> QED
  BY <1>3, <1>4, <1>5, <1>6 DEF Updates, Ways

LEMMA AppliedIsBson ==
    ASSUME NEW update \in Bsons, NEW bson \in Bsons
    PROVE  Apply(update, bson) \in Bsons
<1> DEFINE keys == DOMAIN update \cup DOMAIN bson
<1>1. keys \in SUBSET Names
  BY DEF Bsons
<1>2. \A k \in keys : (IF k \in DOMAIN update THEN update[k] ELSE bson[k]) \in Maybe
  BY DEF Bsons
<1>3. Apply(update, bson) = [k \in keys |-> IF k \in DOMAIN update THEN update[k] ELSE bson[k]]
  BY DEF Apply
<1> HIDE DEF keys
<1> QED
  BY <1>1, <1>2, <1>3 DEF Bsons

-----------------------------------------------------------------------------

(* Type correctness: whatever services read, set and save.                 *)
THEOREM TypeCorrect == Spec => []TypeOK
<1>1. Init => TypeOK
  <2> SUFFICES ASSUME Init PROVE TypeOK
    OBVIOUS
  <2>1. NoDocument \in Bsons
    <3>1. NoDocument \in [{} -> Maybe]
      BY DEF NoDocument
    <3> QED
      BY <3>1 DEF Bsons
  <2> QED
    BY <2>1 DEF Init, TypeOK, Maybe
<1>2. TypeOK /\ [Next]_vars => TypeOK'
  <2> SUFFICES ASSUME TypeOK, [Next]_vars PROVE TypeOK'
    OBVIOUS
  <2>1. ASSUME NEW c \in Clients, Read(c) PROVE TypeOK'
    BY <2>1 DEF TypeOK, Read, ToObject
  <2>2. ASSUME NEW c \in Clients, Edit(c) PROVE TypeOK'
    BY <2>2 DEF TypeOK, Edit
  <2>3. ASSUME NEW c \in Clients, NEW way \in Ways, NEW mode \in BOOLEAN,
               NEW names \in SUBSET Names, Save(c, way, mode, names)
        PROVE  TypeOK'
    <3>1. \E update \in Updates(class, object[c], way, mode, names) :
              document' = Apply(update, document) /\ UNCHANGED <<class, object>>
      BY <2>3 DEF Save
    <3>2. object[c] \in [DOMAIN class -> Maybe] /\ class \in Classes
      BY DEF TypeOK
    <3>3. PICK update \in Bsons : document' = Apply(update, document)
      BY <3>1, <3>2, UpdatesAreBsons
    <3> QED
      BY <3>1, <3>3, AppliedIsBson DEF TypeOK
  <2>4. CASE UNCHANGED vars
    BY <2>4 DEF vars, TypeOK
  <2> QED
    BY <2>1, <2>2, <2>3, <2>4 DEF Next
<1> QED
  BY <1>1, <1>2, PTL DEF Spec

-----------------------------------------------------------------------------
(* The builders.                                                           *)

LEMMA StateIsTyped ==
    ASSUME TypeOK
    PROVE  /\ class \in Classes
           /\ \A k \in DOMAIN document : document[k] \in Maybe
           /\ \A c \in Clients : object[c] \in [DOMAIN class -> Maybe]
BY DEF TypeOK, Bsons

(* What is excluded is not written.                                        *)
LEMMA NotWritten == TypeOK => ExcludedStays
<1> SUFFICES ASSUME TypeOK, NEW c \in Clients, NEW mode \in BOOLEAN,
                    NEW names \in SUBSET Names, NEW i \in DOMAIN class, NEW e \in names
             PROVE  LET o == object[c]
                        fromBson == UpdateForBsonExclude(ToBson(class, o), mode, names)
                        fromObject == UpdateForObjectExclude(class, o, mode, names)
                    IN  /\ Lower[e] = Lower[class[i].key] =>
                             class[i].key \notin DOMAIN fromBson \cup DOMAIN fromObject
                        /\ Lower[e] = Lower[class[i].name] /\ Unambiguous(class) =>
                             class[i].key \notin DOMAIN fromObject
  BY DEF ExcludedStays
<1> DEFINE o == object[c]
           fromBson == UpdateForBsonExclude(ToBson(class, o), mode, names)
           fromObject == UpdateForObjectExclude(class, o, mode, names)
           set == {j \in DOMAIN class :
                     /\ mode \/ o[j] # Null
                     /\ \A x \in names : Lower[x] \notin {Lower[class[j].name], Lower[class[j].key]}}
<1>1. class \in Classes /\ o \in [DOMAIN class -> Maybe]
  BY StateIsTyped
<1>2. \A k \in DOMAIN fromBson : Lower[k] # Lower[e]
  BY DEF UpdateForBsonExclude
<1>3. DOMAIN fromObject = {class[j].key : j \in set}
  <2>1. fromObject = Put(class, o, set)
    BY DEF UpdateForObjectExclude
  <2>2. set \in SUBSET DOMAIN class
    OBVIOUS
  <2> HIDE DEF fromObject, o, set
  <2> QED
    BY <1>1, <2>1, <2>2, PutKeys
<1> HIDE DEF fromBson, fromObject, o
<1>4. Lower[e] = Lower[class[i].key] => class[i].key \notin DOMAIN fromObject
  BY <1>3
<1>5. ASSUME Lower[e] = Lower[class[i].name], Unambiguous(class)
      PROVE  class[i].key \notin DOMAIN fromObject
  <2>1. i \notin set
    BY <1>5
  <2>2. \A j \in set : class[j].key # class[i].key
    BY <1>1, <1>5, <2>1, KeysAreOwn
  <2> QED
    BY <1>3, <2>2
<1> QED
  BY <1>2, <1>4, <1>5 DEF fromBson, fromObject, o

(* Neither builder of exclude updates writes what is excluded: by the key, *)
(* for any class, or by the Java name, where names are unambiguous.        *)
THEOREM ExcludedIsNotWritten == Spec => []ExcludedStays
BY TypeCorrect, NotWritten, PTL

-----------------------------------------------------------------------------
(* Where no name or key belongs to two fields, each builder puts those of  *)
(* the chosen fields that are written in this mode.                        *)

Written(o, mode, fields) == {i \in fields : mode \/ o[i] # Null}

Left(cl, names) ==
    {i \in DOMAIN cl : \A e \in names :
        Lower[e] \notin {Lower[cl[i].name], Lower[cl[i].key]}}

LEMMA PutIsUnique ==
    ASSUME NEW cl \in Classes, Unambiguous(cl), NEW o \in [DOMAIN cl -> Maybe],
           NEW S \in SUBSET DOMAIN cl, NEW update, NEW keys,
           update = [k \in keys |-> update[k]],
           keys = {cl[i].key : i \in S},
           \A i \in S : update[cl[i].key] = o[i]
    PROVE  update = Put(cl, o, S)
<1> DEFINE put == Put(cl, o, S)
<1>1. DOMAIN put = keys
  BY PutKeys, ZenonT(60)
<1>2. put = [k \in keys |-> put[k]]
  <2>1. put = [k \in DOMAIN put |-> put[k]]
    BY DEF Put
  <2> HIDE DEF put
  <2> QED
    BY <1>1, <2>1
<1>3. \A k \in keys : update[k] = put[k]
  BY PutValues
<1> HIDE DEF put
<1> QED
  BY <1>2, <1>3 DEF put

LEMMA ObjectExclude ==
    ASSUME NEW cl \in Classes, NEW o \in [DOMAIN cl -> Maybe],
           NEW mode \in BOOLEAN, NEW names \in SUBSET Names
    PROVE  UpdateForObjectExclude(cl, o, mode, names) =
               Put(cl, o, Written(o, mode, Left(cl, names)))
<1>1. {i \in DOMAIN cl : /\ mode \/ o[i] # Null
                         /\ \A e \in names : Lower[e] \notin
                                {Lower[cl[i].name], Lower[cl[i].key]}}
        = Written(o, mode, Left(cl, names))
  BY DEF Written, Left
<1> QED
  BY <1>1 DEF UpdateForObjectExclude

LEMMA ObjectInclude ==
    ASSUME NEW cl \in Classes, Unambiguous(cl), NEW o \in [DOMAIN cl -> Maybe],
           NEW mode \in BOOLEAN, NEW names
    PROVE  UpdateForObjectInclude(cl, o, mode, names) =
               {Put(cl, o, Written(o, mode, {i \in DOMAIN cl : cl[i].name \in names}))}
<1> DEFINE S == Written(o, mode, {i \in DOMAIN cl : cl[i].name \in names})
           keys == {cl[i].key : i \in S}
<1>1. S \in SUBSET DOMAIN cl
  BY DEF Written
<1>2. {i \in DOMAIN cl : cl[i].name \in names /\ (mode \/ o[i] # Null)} = S
  BY DEF Written
<1>3. UpdateForObjectInclude(cl, o, mode, names) =
        {update \in [keys -> Maybe] :
            \A k \in DOMAIN update : \E i \in S : cl[i].key = k /\ update[k] = o[i]}
  <2> HIDE DEF S
  <2> QED
    BY <1>2 DEF UpdateForObjectInclude
<1> HIDE DEF S, keys
<1>4. Put(cl, o, S) \in [keys -> Maybe]
  <2>1. Put(cl, o, S) \in Bsons /\ DOMAIN Put(cl, o, S) = keys
    BY <1>1, PutKeys DEF keys
  <2> QED
    BY <2>1 DEF Bsons
<1>5. Put(cl, o, S) \in UpdateForObjectInclude(cl, o, mode, names)
  <2>1. \A k \in DOMAIN Put(cl, o, S) :
            \E i \in S : cl[i].key = k /\ Put(cl, o, S)[k] = o[i]
    BY <1>1, PutKeys
  <2> QED
    BY <1>3, <1>4, <2>1
<1>6. ASSUME NEW update \in UpdateForObjectInclude(cl, o, mode, names)
      PROVE  update = Put(cl, o, S)
  <2>1. update \in [keys -> Maybe]
    BY <1>3
  <2>2. ASSUME NEW i \in S PROVE update[cl[i].key] = o[i]
    <3>1. PICK j \in S : cl[j].key = cl[i].key /\ update[cl[i].key] = o[j]
      BY <1>3, <2>1 DEF keys
    <3>2. j = i
      BY <1>1, <3>1, KeysAreOwn
    <3> QED
      BY <3>1, <3>2
  <2> QED
    BY <1>1, <2>1, <2>2, PutIsUnique DEF keys
<1> QED
  BY <1>5, <1>6 DEF S

LEMMA BsonExclude ==
    ASSUME NEW cl \in Classes, Unambiguous(cl), NEW o \in [DOMAIN cl -> Maybe],
           NEW mode \in BOOLEAN, NEW names \in SUBSET Names
    PROVE  UpdateForBsonExclude(ToBson(cl, o), mode, names) =
               Put(cl, o, Written(o, mode,
                   {i \in DOMAIN cl : \A e \in names : Lower[cl[i].key] # Lower[e]}))
<1> DEFINE bson == ToBson(cl, o)
           S == Written(o, mode,
                    {i \in DOMAIN cl : \A e \in names : Lower[cl[i].key] # Lower[e]})
           keys == {k \in DOMAIN bson : /\ mode \/ bson[k] # Null
                                        /\ \A e \in names : Lower[k] # Lower[e]}
           update == UpdateForBsonExclude(bson, mode, names)
<1>1. S \in SUBSET DOMAIN cl
  BY DEF Written
<1>2. update = [k \in keys |-> bson[k]]
  BY DEF UpdateForBsonExclude
<1>3. DOMAIN bson = {cl[i].key : i \in DOMAIN cl}
  BY PutKeys DEF ToBson
<1>4. \A i \in DOMAIN cl : bson[cl[i].key] = o[i]
  BY PutValues DEF ToBson
<1> HIDE DEF bson
<1>5. keys = {cl[i].key : i \in S}
  BY <1>3, <1>4 DEF Written
<1> HIDE DEF S, keys, update
<1>6. update = [k \in keys |-> update[k]]
  BY <1>2
<1>7. \A i \in S : update[cl[i].key] = o[i]
  BY <1>1, <1>2, <1>4, <1>5
<1>8. update = Put(cl, o, S)
  BY <1>1, <1>5, <1>6, <1>7, PutIsUnique
<1> QED
  BY <1>8 DEF update, bson, S

LEMMA BsonInclude ==
    ASSUME NEW cl \in Classes, Unambiguous(cl), NEW o \in [DOMAIN cl -> Maybe],
           NEW mode \in BOOLEAN, NEW fields \in SUBSET DOMAIN cl
    PROVE  UpdateForBsonInclude(ToBson(cl, o), mode, {cl[i].key : i \in fields}) =
               Put(cl, o, Written(o, mode, fields))
<1> DEFINE bson == ToBson(cl, o)
           S == Written(o, mode, fields)
           names == {cl[i].key : i \in fields}
           keys == {k \in names : mode \/ Get(bson, k) # Null}
           update == UpdateForBsonInclude(bson, mode, names)
<1>1. S \in SUBSET DOMAIN cl
  BY DEF Written
<1>2. update = [k \in keys |-> Get(bson, k)]
  BY DEF UpdateForBsonInclude
<1>3. \A i \in DOMAIN cl : Get(bson, cl[i].key) = o[i]
  BY PutGets
<1> HIDE DEF bson
<1>4. keys = {cl[i].key : i \in S}
  BY <1>3 DEF Written
<1> HIDE DEF S, keys, update
<1>5. update = [k \in keys |-> update[k]]
  BY <1>2
<1>6. \A i \in S : update[cl[i].key] = o[i]
  BY <1>1, <1>2, <1>3, <1>4
<1>7. update = Put(cl, o, S)
  BY <1>1, <1>4, <1>5, <1>6, PutIsUnique
<1> QED
  BY <1>7 DEF update, bson, S, names

-----------------------------------------------------------------------------

LEMMA Agreement == TypeOK => BuildersAgree
<1> SUFFICES ASSUME TypeOK, Unambiguous(class), NEW c \in Clients,
                    NEW mode \in BOOLEAN, NEW names \in SUBSET Names
             PROVE  LET o == object[c]
                        bson == ToBson(class, o)
                        out == {i \in DOMAIN class : \E e \in names :
                                  Lower[e] \in {Lower[class[i].name], Lower[class[i].key]}}
                        kept == DOMAIN class \ out
                        update == UpdateForObjectExclude(class, o, mode, names)
                    IN  /\ {update} = UpdateForObjectInclude(class, o, mode,
                                                             {class[i].name : i \in kept})
                        /\ update = UpdateForBsonExclude(bson, mode, {class[i].key : i \in out})
                        /\ update = UpdateForBsonInclude(bson, mode, {class[i].key : i \in kept})
  BY DEF BuildersAgree
<1> DEFINE o == object[c]
           out == {i \in DOMAIN class : \E e \in names :
                     Lower[e] \in {Lower[class[i].name], Lower[class[i].key]}}
           kept == DOMAIN class \ out
           written == Put(class, o, Written(o, mode, kept))
<1>1. class \in Classes /\ o \in [DOMAIN class -> Maybe]
  BY StateIsTyped
<1>2. out \in SUBSET DOMAIN class /\ kept \in SUBSET DOMAIN class
  OBVIOUS
<1>3. Left(class, names) = kept
  BY DEF Left
<1> HIDE DEF out, o
<1>4. UpdateForObjectExclude(class, o, mode, names) = written
  BY <1>1, <1>3, ObjectExclude
<1>5. UpdateForObjectInclude(class, o, mode, {class[i].name : i \in kept}) = {written}
  <2>1. {i \in DOMAIN class : class[i].name \in {class[j].name : j \in kept}} = kept
    BY <1>1, KeysAreOwn
  <2> HIDE DEF kept
  <2>2. UpdateForObjectInclude(class, o, mode, {class[i].name : i \in kept}) =
          {Put(class, o, Written(o, mode,
              {i \in DOMAIN class : class[i].name \in {class[j].name : j \in kept}}))}
    BY <1>1, ObjectInclude
  <2> QED
    BY <2>1, <2>2 DEF kept
<1>6. UpdateForBsonExclude(ToBson(class, o), mode, {class[i].key : i \in out}) = written
  <2> DEFINE keys == {class[i].key : i \in out}
  <2>1. keys \in SUBSET Names
    BY <1>1, <1>2, FieldsOfClasses
  <2>2. {i \in DOMAIN class : \A e \in keys : Lower[class[i].key] # Lower[e]} = kept
    BY <1>1, <1>2, KeysAreOwn
  <2> HIDE DEF keys
  <2> QED
    BY <1>1, <2>1, <2>2, BsonExclude DEF keys
<1>7. UpdateForBsonInclude(ToBson(class, o), mode, {class[i].key : i \in kept}) = written
  BY <1>1, <1>2, BsonInclude
<1> QED
  BY <1>4, <1>5, <1>6, <1>7 DEF out, o

(* The four builders agree, for classes of any number of fields, where no  *)
(* name or key belongs to two of them.                                     *)
THEOREM BuildersAlwaysAgree == Spec => []BuildersAgree
BY TypeCorrect, Agreement, PTL

-----------------------------------------------------------------------------
(* What an update writes.                                                  *)

(* The fields a call of a builder chooses.                                 *)
Chosen(cl, way, names) ==
    CASE way = "bsonInclude" -> {i \in DOMAIN cl : cl[i].key \in names}
      [] way = "objectInclude" -> {i \in DOMAIN cl : cl[i].name \in names}
      [] way = "bsonExclude" ->
            {i \in DOMAIN cl : \A e \in names : Lower[cl[i].key] # Lower[e]}
      [] way = "objectExclude" -> Left(cl, names)

LEMMA AppliedGets ==
    ASSUME NEW update, NEW bson, NEW k
    PROVE  Get(Apply(update, bson), k) =
               IF k \in DOMAIN update THEN update[k] ELSE Get(bson, k)
BY DEF Apply, Get

LEMMA UpdatedFields ==
    ASSUME NEW cl \in Classes, Unambiguous(cl), NEW o \in [DOMAIN cl -> Maybe],
           NEW way \in Ways, NEW mode \in BOOLEAN, NEW names \in SUBSET Names,
           NEW update \in Updates(cl, o, way, mode, names), NEW i \in DOMAIN cl
    PROVE  /\ cl[i].key \in DOMAIN update <=> i \in Written(o, mode, Chosen(cl, way, names))
           /\ cl[i].key \in DOMAIN update => update[cl[i].key] = o[i]
<1>1. ASSUME NEW fields \in SUBSET DOMAIN cl, fields = Chosen(cl, way, names),
             update = Put(cl, o, Written(o, mode, fields))
      PROVE  /\ cl[i].key \in DOMAIN update
                    <=> i \in Written(o, mode, Chosen(cl, way, names))
             /\ cl[i].key \in DOMAIN update => update[cl[i].key] = o[i]
  <2>1. Written(o, mode, fields) \in SUBSET DOMAIN cl
    BY DEF Written
  <2> QED
    BY <1>1, <2>1, PutValues
<1>2. CASE way = "bsonInclude"
  <2>1. update = UpdateForBsonInclude(ToBson(cl, o), mode, names)
    BY <1>2 DEF Updates
  <2>2. Get(ToBson(cl, o), cl[i].key) = o[i]
    BY PutGets
  <2>3. i \in Written(o, mode, Chosen(cl, way, names))
            <=> cl[i].key \in names /\ (mode \/ o[i] # Null)
    BY <1>2 DEF Written, Chosen
  <2> QED
    BY <2>1, <2>2, <2>3 DEF UpdateForBsonInclude
<1>3. CASE way = "objectInclude"
  <2>1. update \in UpdateForObjectInclude(cl, o, mode, names)
    BY <1>3 DEF Updates
  <2>2. Chosen(cl, way, names) = {j \in DOMAIN cl : cl[j].name \in names}
    BY <1>3 DEF Chosen
  <2>3. Chosen(cl, way, names) \in SUBSET DOMAIN cl
    BY <2>2
  <2>4. update = Put(cl, o, Written(o, mode, Chosen(cl, way, names)))
    BY <2>1, <2>2, ObjectInclude
  <2> QED
    BY <1>1, <2>3, <2>4
<1>4. CASE way = "bsonExclude"
  <2>1. update = UpdateForBsonExclude(ToBson(cl, o), mode, names)
    BY <1>4 DEF Updates
  <2>2. Chosen(cl, way, names) =
            {j \in DOMAIN cl : \A e \in names : Lower[cl[j].key] # Lower[e]}
    BY <1>4 DEF Chosen
  <2>3. Chosen(cl, way, names) \in SUBSET DOMAIN cl
    BY <2>2
  <2>4. update = Put(cl, o, Written(o, mode, Chosen(cl, way, names)))
    BY <2>1, <2>2, BsonExclude
  <2> QED
    BY <1>1, <2>3, <2>4
<1>5. CASE way = "objectExclude"
  <2>1. update = UpdateForObjectExclude(cl, o, mode, names)
    BY <1>5 DEF Updates
  <2>2. Chosen(cl, way, names) = Left(cl, names)
    BY <1>5 DEF Chosen
  <2>3. Chosen(cl, way, names) \in SUBSET DOMAIN cl
    BY <2>2 DEF Left
  <2>4. update = Put(cl, o, Written(o, mode, Chosen(cl, way, names)))
    BY <2>1, <2>2, ObjectExclude
  <2> QED
    BY <1>1, <2>3, <2>4
<1> QED
  BY <1>2, <1>3, <1>4, <1>5 DEF Ways

(* Only updateForBsonInclude writes a key that no field has, and it writes *)
(* null there, in mode TRUE.                                               *)
LEMMA OtherKeys ==
    ASSUME NEW cl \in Classes, Unambiguous(cl), NEW o \in [DOMAIN cl -> Maybe],
           NEW way \in Ways, NEW mode \in BOOLEAN, NEW names \in SUBSET Names,
           NEW update \in Updates(cl, o, way, mode, names), NEW k \in DOMAIN update,
           \A i \in DOMAIN cl : cl[i].key # k
    PROVE  way = "bsonInclude" /\ k \in names /\ mode /\ update[k] = Null
<1>1. ASSUME NEW fields \in SUBSET DOMAIN cl, update = Put(cl, o, fields) PROVE FALSE
  BY <1>1, PutKeys
<1>2. \A fields \in SUBSET DOMAIN cl : Written(o, mode, fields) \in SUBSET DOMAIN cl
  BY DEF Written
<1>3. CASE way = "bsonInclude"
  <2> DEFINE bson == ToBson(cl, o)
  <2>1. update = UpdateForBsonInclude(bson, mode, names)
    BY <1>3 DEF Updates
  <2>2. k \notin DOMAIN bson
    BY PutKeys, DOMAIN cl \in SUBSET DOMAIN cl DEF ToBson
  <2> HIDE DEF bson
  <2>3. Get(bson, k) = Null
    BY <2>2 DEF Get
  <2>4. k \in names /\ (mode \/ Get(bson, k) # Null) /\ update[k] = Get(bson, k)
    BY <2>1 DEF UpdateForBsonInclude
  <2> QED
    BY <1>3, <2>3, <2>4
<1>4. CASE way = "objectInclude"
  <2>1. update \in UpdateForObjectInclude(cl, o, mode, names)
    BY <1>4 DEF Updates
  <2> DEFINE fields == {i \in DOMAIN cl : cl[i].name \in names}
  <2>2. fields \in SUBSET DOMAIN cl
    OBVIOUS
  <2>3. update = Put(cl, o, Written(o, mode, fields))
    BY <2>1, ObjectInclude
  <2> HIDE DEF fields
  <2> QED
    BY <1>1, <1>2, <2>2, <2>3
<1>5. CASE way = "bsonExclude"
  <2>1. update = UpdateForBsonExclude(ToBson(cl, o), mode, names)
    BY <1>5 DEF Updates
  <2> DEFINE fields == {i \in DOMAIN cl : \A e \in names : Lower[cl[i].key] # Lower[e]}
  <2>2. fields \in SUBSET DOMAIN cl
    OBVIOUS
  <2>3. update = Put(cl, o, Written(o, mode, fields))
    BY <2>1, BsonExclude
  <2> HIDE DEF fields
  <2> QED
    BY <1>1, <1>2, <2>2, <2>3
<1>6. CASE way = "objectExclude"
  <2>1. update = UpdateForObjectExclude(cl, o, mode, names)
    BY <1>6 DEF Updates
  <2>2. Left(cl, names) \in SUBSET DOMAIN cl
    BY DEF Left
  <2> QED
    BY <1>1, <1>2, <2>1, <2>2, ObjectExclude
<1> QED
  BY <1>3, <1>4, <1>5, <1>6 DEF Ways

(* A field that is read has the value of its key or of its Java name.      *)
LEMMA FieldsAreRead ==
    ASSUME NEW cl \in Classes, Unambiguous(cl), NEW doc,
           NEW o \in ToObject(cl, doc), NEW i \in DOMAIN cl
    PROVE  \/ /\ cl[i].key \notin DOMAIN doc /\ cl[i].name \notin DOMAIN doc
              /\ o[i] = Null
           \/ \E k \in {cl[i].key, cl[i].name} \cap DOMAIN doc : o[i] = doc[k]
<1> DEFINE map == FieldMap(cl)
           at(k) == {j \in DOMAIN cl : k \in {cl[j].key, cl[j].name}}
           sources == {k \in DOMAIN doc \cap DOMAIN map : map[k] = i}
<1>1. DOMAIN map = UNION {{cl[j].key, cl[j].name} : j \in DOMAIN cl}
  BY DEF FieldMap
<1>2. ASSUME NEW k \in DOMAIN map PROVE map[k] \in at(k)
  <2>1. map[k] = Last(at(k))
    BY DEF FieldMap
  <2>2. at(k) \in SUBSET (1 .. Len(cl)) /\ at(k) # {} /\ Len(cl) \in Nat
    BY <1>1, FieldsOfClasses
  <2> HIDE DEF at, map
  <2> QED
    BY <2>1, <2>2, LastIsLast
<1>3. \A k \in {cl[i].key, cl[i].name} : at(k) = {i}
  BY KeysAreOwn
<1>4. IF sources = {} THEN o[i] = Null ELSE \E k \in sources : o[i] = doc[k]
  BY DEF ToObject
<1> HIDE DEF map
<1>5. sources = {cl[i].key, cl[i].name} \cap DOMAIN doc
  <2>1. \A k \in sources : k \in {cl[i].key, cl[i].name}
    BY <1>2
  <2>2. \A k \in {cl[i].key, cl[i].name} : k \in DOMAIN map /\ map[k] = i
    BY <1>1, <1>2, <1>3
  <2> QED
    BY <2>1, <2>2
<1> HIDE DEF sources
<1> QED
  BY <1>4, <1>5

-----------------------------------------------------------------------------
(* A name that is no key of the document's class holds at most a null.     *)

StraysAreNull ==
    Unambiguous(class) =>
        \A k \in JavaNames \cap DOMAIN document : document[k] = Null

Inv == TypeOK /\ StraysAreNull

LEMMA JavaNamesAreNoKeys ==
    ASSUME class \in Classes, Unambiguous(class), NEW k \in JavaNames, NEW i \in DOMAIN class
    PROVE  class[i].key # k
<1>1. PICK j \in DOMAIN class : class[j].name = k /\ class[j].name # class[j].key
  BY DEF JavaNames
<1> QED
  BY <1>1, KeysAreOwn

(* Nothing but a null is ever stored under a name that is no key.          *)
THEOREM StraysStayNull == Spec => []Inv
<1>1. Init => StraysAreNull
  BY DEF Init, StraysAreNull, NoDocument
<1>2. TypeOK /\ StraysAreNull /\ [Next]_vars => StraysAreNull'
  <2> SUFFICES ASSUME TypeOK, StraysAreNull, [Next]_vars PROVE StraysAreNull'
    OBVIOUS
  <2>1. CASE UNCHANGED <<class, document>>
    BY <2>1 DEF StraysAreNull, Unambiguous, JavaNames
  <2>2. ASSUME NEW c \in Clients, NEW way \in Ways, NEW mode \in BOOLEAN,
               NEW names \in SUBSET Names, Save(c, way, mode, names)
        PROVE  StraysAreNull'
    <3>1. PICK update \in Updates(class, object[c], way, mode, names) :
            document' = Apply(update, document) /\ class' = class
      BY <2>2 DEF Save
    <3>2. SUFFICES ASSUME Unambiguous(class),
                          NEW k \in JavaNames \cap DOMAIN Apply(update, document)
                   PROVE  Apply(update, document)[k] = Null
      BY <3>1 DEF StraysAreNull, Unambiguous, JavaNames
    <3>3. class \in Classes /\ object[c] \in [DOMAIN class -> Maybe]
      BY StateIsTyped
    <3>4. CASE k \in DOMAIN update
      <4>1. \A i \in DOMAIN class : class[i].key # k
        BY <3>2, <3>3, JavaNamesAreNoKeys
      <4>2. update[k] = Null
        BY <3>2, <3>3, <3>4, <4>1, OtherKeys
      <4> QED
        BY <3>4, <4>2 DEF Apply
    <3>5. CASE k \notin DOMAIN update
      BY <3>2, <3>5 DEF Apply, StraysAreNull
    <3> QED
      BY <3>4, <3>5
  <2> QED
    BY <2>1, <2>2 DEF Next, Read, Edit, vars
<1>3. Spec => []StraysAreNull
  BY <1>1, <1>2, TypeCorrect, PTL DEF Spec
<1> QED
  BY <1>3, TypeCorrect, PTL DEF Inv

-----------------------------------------------------------------------------
(* An object that is saved as it was read.                                 *)

LEMMA ReadIsHeld ==
    ASSUME TypeOK, Unambiguous(class), NEW o \in ToObject(class, document),
           NEW i \in DOMAIN class
    PROVE  o[i] \in Held(i, document)
BY StateIsTyped, FieldsAreRead DEF Held

(* An update that writes what was read leaves nothing new for a field,     *)
(* unless it writes to the Java name.                                      *)
LEMMA HeldStays ==
    ASSUME NEW i \in DOMAIN class, NEW update, NEW o, o[i] \in Held(i, document),
           class[i].key \in DOMAIN update => update[class[i].key] = o[i],
           class[i].name # class[i].key => class[i].name \notin DOMAIN update
    PROVE  Held(i, Apply(update, document)) \subseteq Held(i, document)
<1> DEFINE new == Apply(update, document)
           fields == {class[i].key, class[i].name}
<1>1. /\ DOMAIN new = DOMAIN update \cup DOMAIN document
      /\ \A k \in DOMAIN new : new[k] = IF k \in DOMAIN update THEN update[k]
                                                              ELSE document[k]
  BY DEF Apply
<1> HIDE DEF new
<1>2. CASE fields \cap DOMAIN new = {}
  <2>1. fields \cap DOMAIN document = {}
    BY <1>1, <1>2
  <2>2. Held(i, document) = {Null} /\ Held(i, new) = {Null}
    BY <1>2, <2>1 DEF Held
  <2> QED
    BY <2>2 DEF new
<1>3. CASE fields \cap DOMAIN new # {}
  <2>1. SUFFICES ASSUME NEW k \in fields \cap DOMAIN new
                 PROVE  new[k] \in Held(i, document)
    BY <1>3 DEF Held, new
  <2>2. CASE k \in DOMAIN update
    BY <1>1, <2>1, <2>2
  <2>3. CASE k \notin DOMAIN update
    BY <1>1, <2>1, <2>3 DEF Held
  <2> QED
    BY <2>2, <2>3
<1> QED
  BY <1>2, <1>3 DEF new

LEMMA SavingBack == Inv => SavingBackChangesNothing
<1> SUFFICES ASSUME Inv, Unambiguous(class), NEW way \in Ways, NEW names \in SUBSET Names,
                    way = "bsonInclude" => names \cap JavaNames = {},
                    NEW o \in ToObject(class, document), NEW mode \in BOOLEAN,
                    NEW update \in Updates(class, o, way, mode, names)
             PROVE  /\ \A i \in DOMAIN class :
                          Held(i, Apply(update, document)) \subseteq Held(i, document)
                    /\ ~mode => DOMAIN update \subseteq DOMAIN document
  BY DEF SavingBackChangesNothing, SavedBackUnchanged
<1>1. TypeOK /\ class \in Classes /\ o \in [DOMAIN class -> Maybe]
  BY StateIsTyped DEF Inv, ToObject
<1>2. ASSUME NEW i \in DOMAIN class
      PROVE  Held(i, Apply(update, document)) \subseteq Held(i, document)
  <2>1. o[i] \in Held(i, document)
    BY <1>1, ReadIsHeld
  <2>2. class[i].key \in DOMAIN update => update[class[i].key] = o[i]
    BY <1>1, UpdatedFields
  <2>3. ASSUME class[i].name # class[i].key, class[i].name \in DOMAIN update PROVE FALSE
    <3>1. class[i].name \in JavaNames
      BY <2>3 DEF JavaNames
    <3>2. \A j \in DOMAIN class : class[j].key # class[i].name
      BY <1>1, <3>1, JavaNamesAreNoKeys
    <3>3. way = "bsonInclude" /\ class[i].name \in names
      BY <1>1, <2>3, <3>2, OtherKeys
    <3> QED
      BY <3>1, <3>3
  <2> QED
    BY <2>1, <2>2, <2>3, HeldStays
<1>3. ASSUME ~mode, NEW k \in DOMAIN update PROVE k \in DOMAIN document
  <2>1. PICK i \in DOMAIN class : class[i].key = k
    BY <1>1, <1>3, OtherKeys
  <2>2. o[i] # Null
    BY <1>1, <1>3, <2>1, UpdatedFields DEF Written
  <2>3. PICK source \in {class[i].key, class[i].name} \cap DOMAIN document :
          o[i] = document[source]
    BY <1>1, <2>2, FieldsAreRead
  <2>4. source = class[i].key
    BY <2>2, <2>3 DEF Inv, StraysAreNull, JavaNames
  <2> QED
    BY <2>1, <2>3, <2>4
<1> QED
  BY <1>2, <1>3

(* Saving an object as it was read is harmless, whatever the builder, the  *)
(* names and the document, for any class in which no name or key belongs   *)
(* to two fields; updateForBsonInclude is given keys.                      *)
THEOREM SavingBackIsSafe == Spec => []SavingBackChangesNothing
BY StraysStayNull, SavingBack, PTL

-----------------------------------------------------------------------------
(* What is saved is what is read afterwards.                               *)

(* After a save by any of the four builders, whoever reads the document    *)
(* gets the saved value of each chosen field, null only where mode says    *)
(* that nulls are saved, and of every other field the value it had; or he  *)
(* gets null, where a null is stored under the Java name too.              *)
SavedIsRead ==
    \A c \in Clients, way \in Ways, mode \in BOOLEAN, names \in SUBSET Names :
        Save(c, way, mode, names) /\ Unambiguous(class) =>
            \A o \in ToObject(class, document'), i \in DOMAIN class :
                \/ o[i] = IF i \in Written(object[c], mode, Chosen(class, way, names))
                          THEN object[c][i]
                          ELSE Get(document, class[i].key)
                \/ class[i].name \in JavaNames \cap DOMAIN document' /\ o[i] = Null

(* What a save has chosen is what is read back, and nothing else changes,  *)
(* for every class without ambiguous names and every document.             *)
THEOREM SavesAreRead == Spec => [][SavedIsRead]_vars
<1>1. Inv /\ Inv' => SavedIsRead
  <2> SUFFICES ASSUME Inv, Inv', NEW c \in Clients, NEW way \in Ways,
                      NEW mode \in BOOLEAN, NEW names \in SUBSET Names,
                      Save(c, way, mode, names), Unambiguous(class),
                      NEW o \in ToObject(class, document'), NEW i \in DOMAIN class,
                      ~(class[i].name \in JavaNames \cap DOMAIN document' /\ o[i] = Null)
               PROVE  o[i] = IF i \in Written(object[c], mode, Chosen(class, way, names))
                             THEN object[c][i]
                             ELSE Get(document, class[i].key)
    BY DEF SavedIsRead
  <2>1. class \in Classes /\ object[c] \in [DOMAIN class -> Maybe]
    BY StateIsTyped DEF Inv
  <2>2. PICK update \in Updates(class, object[c], way, mode, names) :
            document' = Apply(update, document) /\ class' = class
    BY DEF Save
  <2>3. \A k \in JavaNames \cap DOMAIN document' : document'[k] = Null
    BY <2>2 DEF Inv, StraysAreNull, Unambiguous, JavaNames
  <2>4. o[i] = Get(document', class[i].key)
    <3>1. \/ /\ class[i].key \notin DOMAIN document' /\ o[i] = Null
          \/ \E k \in {class[i].key, class[i].name} \cap DOMAIN document' :
                 o[i] = document'[k]
      BY <2>1, FieldsAreRead
    <3>2. class[i].name # class[i].key => class[i].name \in JavaNames
      BY DEF JavaNames
    <3> QED
      BY <2>3, <3>1, <3>2 DEF Get
  <2>5. o[i] = IF class[i].key \in DOMAIN update THEN update[class[i].key]
                                                ELSE Get(document, class[i].key)
    BY <2>2, <2>4, AppliedGets
  <2>6. /\ class[i].key \in DOMAIN update
               <=> i \in Written(object[c], mode, Chosen(class, way, names))
        /\ class[i].key \in DOMAIN update => update[class[i].key] = object[c][i]
    BY <2>1, UpdatedFields
  <2> QED
    BY <2>5, <2>6
<1> QED
  BY <1>1, StraysStayNull, PTL

=============================================================================
