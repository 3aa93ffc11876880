------------------------------ MODULE Documents ------------------------------
(***************************************************************************)
(* Objects, documents and updates of MongoDB as MongoUtils converts them.  *)
(*                                                                         *)
(* A field has its Java name and the key it is stored under, which differ  *)
(* where it is annotated with @Field.  Services read a document into an    *)
(* object, change the object, and save it with one of four builders of     *)
(* updates: from the object or from a BSON of it, with the fields to       *)
(* include or those to exclude.  Others write to the document in between.  *)
(***************************************************************************)
EXTENDS Naturals, Sequences

CONSTANTS
    Clients,
    Names,     \* names and keys, in upper and in lower case
    Lower,     \* their lower case, for equalsIgnoreCase
    Classes,   \* the classes that are stored: sequences of fields
    Values, Null

Field == [name: Names, key: Names]

(* No name or key belongs to two fields, whatever its case.                *)
Unambiguous(class) ==
    \A i, j \in DOMAIN class :
        i # j => {Lower[class[i].name], Lower[class[i].key]}
                   \cap {Lower[class[j].name], Lower[class[j].key]} = {}

ASSUME DocumentAssumption ==
    /\ Lower \in [Names -> Names]
    /\ Classes \subseteq Seq(Field) \ {<< >>}
    /\ \A class \in Classes : \A i, j \in DOMAIN class :
           class[i].name = class[j].name => i = j
    /\ Null \notin Values

Maybe == Values \cup {Null}
Bsons == UNION {[keys -> Maybe] : keys \in SUBSET Names}
NoDocument == [k \in {} |-> Null]

(* BSONObject.get                                                          *)
Get(bson, k) == IF k \in DOMAIN bson THEN bson[k] ELSE Null

Last(indices) == CHOOSE i \in indices : \A j \in indices : j \leq i

(* The keys of the fields, put one after the other.                        *)
Put(class, o, fields) ==
    [k \in {class[i].key : i \in fields} |->
        o[Last({i \in fields : class[i].key = k})]]

-----------------------------------------------------------------------------
(* An object of a class is the sequence of the values of its fields.       *)

ToBson(class, o) == Put(class, o, DOMAIN class)

(* Mutant: only the Java names are known.                                  *)
FieldMapOfNames(class) ==
    [k \in {class[i].name : i \in DOMAIN class} |->
        CHOOSE i \in DOMAIN class : class[i].name = k]

(* Keys and names lead to a field, to the last one where they meet.        *)
FieldMap(class) ==
    [k \in UNION {{class[i].key, class[i].name} : i \in DOMAIN class} |->
        Last({i \in DOMAIN class : k \in {class[i].key, class[i].name}})]

(* Mutant: the key is set instead of the value.                            *)
ToObjectKeys(class, bson) ==
    {[i \in DOMAIN class |->
        IF class[i].key \in DOMAIN bson THEN class[i].key ELSE Null]}

(* A field with both its key and its name in the document gets the value   *)
(* of whichever comes later in it.                                         *)
ToObject(class, bson) ==
    LET sources(i) == {k \in DOMAIN bson \cap DOMAIN FieldMap(class) :
                         FieldMap(class)[k] = i}
    IN  {o \in [DOMAIN class -> Maybe] : \A i \in DOMAIN class :
            IF sources(i) = {} THEN o[i] = Null
                               ELSE \E k \in sources(i) : o[i] = bson[k]}

(* Mutant: a key that is in the document is updated, null or not.          *)
BsonIncludePresent(bson, mode, includes) ==
    [k \in {k \in includes : mode \/ k \in DOMAIN bson} |-> Get(bson, k)]

UpdateForBsonInclude(bson, mode, includes) ==
    [k \in {k \in includes : mode \/ Get(bson, k) # Null} |-> Get(bson, k)]

(* Mutant: the annotation is not applied.                                  *)
ObjectIncludeUnderName(class, o, mode, includes) ==
    LET set == {i \in DOMAIN class : class[i].name \in includes /\ (mode \/ o[i] # Null)}
    IN  {update \in [{class[i].name : i \in set} -> Maybe] :
            \A k \in DOMAIN update : \E i \in set : class[i].name = k /\ update[k] = o[i]}

(* Includes are Java names, exactly written; others are logged and skipped.*)
(* Their order decides between fields of one key: any of them may be last. *)
UpdateForObjectInclude(class, o, mode, includes) ==
    LET set == {i \in DOMAIN class : class[i].name \in includes /\ (mode \/ o[i] # Null)}
    IN  {update \in [{class[i].key : i \in set} -> Maybe] :
            \A k \in DOMAIN update : \E i \in set : class[i].key = k /\ update[k] = o[i]}

UpdateForBsonExclude(bson, mode, excludes) ==
    [k \in {k \in DOMAIN bson : /\ mode \/ bson[k] # Null
                                /\ \A e \in excludes : Lower[k] # Lower[e]}
        |-> bson[k]]

(* Mutant: excludes are Java names only.                                   *)
ObjectExcludeByName(class, o, mode, excludes) ==
    Put(class, o, {i \in DOMAIN class :
        /\ mode \/ o[i] # Null
        /\ \A e \in excludes : Lower[class[i].name] # Lower[e]})

UpdateForObjectExclude(class, o, mode, excludes) ==
    Put(class, o, {i \in DOMAIN class :
        /\ mode \/ o[i] # Null
        /\ \A e \in excludes : Lower[e] \notin
               {Lower[class[i].name], Lower[class[i].key]}})

(* The document after a $set.                                              *)
Apply(update, bson) ==
    [k \in DOMAIN update \cup DOMAIN bson |->
        IF k \in DOMAIN update THEN update[k] ELSE bson[k]]

-----------------------------------------------------------------------------

Ways == {"bsonInclude", "objectInclude", "bsonExclude", "objectExclude"}

Updates(class, o, way, mode, names) ==
    CASE way = "bsonInclude" -> {UpdateForBsonInclude(ToBson(class, o), mode, names)}
      [] way = "objectInclude" -> UpdateForObjectInclude(class, o, mode, names)
      [] way = "bsonExclude" -> {UpdateForBsonExclude(ToBson(class, o), mode, names)}
      [] way = "objectExclude" -> {UpdateForObjectExclude(class, o, mode, names)}

VARIABLES
    class,     \* the class of the objects
    document,  \* the document in the database
    object     \* the object each client has in hand

vars == <<class, document, object>>

TypeOK ==
    /\ class \in Classes
    /\ document \in Bsons
    /\ object \in [Clients -> [DOMAIN class -> Maybe]]

(* Nothing is stored; objects come from their constructor.                 *)
Init ==
    /\ class \in Classes
    /\ document = NoDocument
    /\ object = [c \in Clients |-> [i \in DOMAIN class |-> Null]]

Read(c) ==
    /\ \E o \in ToObject(class, document) : object' = [object EXCEPT ![c] = o]
    /\ UNCHANGED <<class, document>>

(* A service sets a field.                                                 *)
Edit(c) ==
    /\ \E i \in DOMAIN class, v \in Maybe :
         /\ object[c][i] # v
         /\ object' = [object EXCEPT ![c][i] = v]
    /\ UNCHANGED <<class, document>>

(* A service saves its object one of the four ways; an update of nothing   *)
(* is refused by the driver.                                               *)
Save(c, way, mode, names) ==
    \E update \in Updates(class, object[c], way, mode, names) \ {NoDocument} :
        /\ document' = Apply(update, document)
        /\ UNCHANGED <<class, object>>

Next ==
    \E c \in Clients :
        \/ Read(c) \/ Edit(c)
        \/ \E way \in Ways, mode \in BOOLEAN, names \in SUBSET Names :
              Save(c, way, mode, names)

Spec == Init /\ [][Next]_vars

-----------------------------------------------------------------------------

(* What a document holds for a field, under its key or its Java name: one  *)
(* of these is what a reader gets.                                         *)
Held(i, bson) ==
    LET keys == {class[i].key, class[i].name} \cap DOMAIN bson
    IN  IF keys = {} THEN {Null} ELSE {bson[k] : k \in keys}

(* Whoever saves an object as it was read leaves nothing for a field that  *)
(* was not there before, and with mode FALSE adds no key.                  *)
SavedBackUnchanged(way, names) ==
    \A o \in ToObject(class, document), mode \in BOOLEAN :
      \A update \in Updates(class, o, way, mode, names) :
        /\ \A i \in DOMAIN class :
             Held(i, Apply(update, document)) \subseteq Held(i, document)
        /\ ~mode => DOMAIN update \subseteq DOMAIN document

(* Names of fields that are stored under another key.                      *)
JavaNames ==
    {class[i].name : i \in {i \in DOMAIN class : class[i].name # class[i].key}}

(* Saving back is harmless with whatever builder and names, also to a      *)
(* document that holds a field twice: reading and builders agree on where  *)
(* a field is.  That updateForBsonInclude, which does not look at @Field,  *)
(* is given keys is up to its caller; FieldNamesAreEnough is without it.   *)
SavingBackChangesNothing ==
    Unambiguous(class) =>
      \A way \in Ways, names \in SUBSET Names :
        (way = "bsonInclude" => names \cap JavaNames = {})
            => SavedBackUnchanged(way, names)

(* updateForBsonInclude takes "the names of the fields to update": saving  *)
(* an object back with them leaves the fields as they are.                 *)
FieldNamesAreEnough ==
    Unambiguous(class) =>
      \A names \in SUBSET {class[i].name : i \in DOMAIN class} :
        SavedBackUnchanged("bsonInclude", names)

(* The builders agree: excluding names is including all other fields, and  *)
(* from the object or from its BSON the update is the same once the keys   *)
(* are named ("use the field name, the annotation is applied").            *)
BuildersAgree ==
    Unambiguous(class) =>
      \A c \in Clients, mode \in BOOLEAN, names \in SUBSET Names :
        LET o == object[c]
            bson == ToBson(class, o)
            out == {i \in DOMAIN class : \E e \in names :
                      Lower[e] \in {Lower[class[i].name], Lower[class[i].key]}}
            kept == DOMAIN class \ out
            update == UpdateForObjectExclude(class, o, mode, names)
        IN  /\ {update} = UpdateForObjectInclude(class, o, mode,
                                                 {class[i].name : i \in kept})
            /\ update = UpdateForBsonExclude(bson, mode, {class[i].key : i \in out})
            /\ update = UpdateForBsonInclude(bson, mode, {class[i].key : i \in kept})

(* What is excluded is not written, whatever the case of the letters:      *)
(* neither by the key it is stored under, for any class, nor, from the     *)
(* object, by its Java name.                                               *)
ExcludedStays ==
    \A c \in Clients, mode \in BOOLEAN, names \in SUBSET Names :
      LET o == object[c]
          fromBson == UpdateForBsonExclude(ToBson(class, o), mode, names)
          fromObject == UpdateForObjectExclude(class, o, mode, names)
      IN  \A i \in DOMAIN class, e \in names :
            /\ Lower[e] = Lower[class[i].key] =>
                 class[i].key \notin DOMAIN fromBson \cup DOMAIN fromObject
            /\ Lower[e] = Lower[class[i].name] /\ Unambiguous(class) =>
                 class[i].key \notin DOMAIN fromObject

=============================================================================
