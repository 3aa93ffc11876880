---------------------------- MODULE NamespaceStore ----------------------------
(***************************************************************************)
(* What a client of the console may rely on when it creates a namespace:   *)
(* the creation takes effect at one moment between the request and the     *)
(* answer, for one of those who ask for the same id at the same time; it   *)
(* is refused only if the namespace was there; an error says nothing.      *)
(***************************************************************************)

CONSTANTS
    Clients, Keys,
    NoOwner,      \* "no such namespace"
    NoKey         \* "creates nothing"

VARIABLES
    owner,        \* the client that has created each namespace
    asking,       \* the namespace each client is about to create
    told          \* what the creation of a client was answered, while that
                  \* is the last thing the client has asked for

vars == <<owner, asking, told>>

Init ==
    /\ owner = [k \in Keys |-> NoOwner]
    /\ asking = [c \in Clients |-> NoKey]
    /\ told = [c \in Clients |-> "nothing"]

Ask(c, k) ==
    /\ asking[c] = NoKey
    /\ asking' = [asking EXCEPT ![c] = k]
    /\ told' = [told EXCEPT ![c] = "nothing"]
    /\ UNCHANGED owner

Answer(c, what) ==
    /\ asking[c] # NoKey
    /\ asking' = [asking EXCEPT ![c] = NoKey]
    /\ told' = [told EXCEPT ![c] = what]

Creates(c) ==
    /\ owner[asking[c]] = NoOwner
    /\ owner' = [owner EXCEPT ![asking[c]] = c]

Created(c) == Answer(c, "created") /\ Creates(c)

Refused(c) ==
    /\ Answer(c, "refused")
    /\ owner[asking[c]] # NoOwner
    /\ UNCHANGED owner

Failed(c) == Answer(c, "failed") /\ (Creates(c) \/ UNCHANGED owner)

(* What nobody may call a namespace is turned away without a look.         *)
Rejected(c) ==
    /\ asking[c] = NoKey
    /\ \E what \in {"refused", "failed"} : told' = [told EXCEPT ![c] = what]
    /\ UNCHANGED <<owner, asking>>

(* Anything else a client asks for, a removal for one.                     *)
Other(c) ==
    /\ asking[c] = NoKey
    /\ told' = [told EXCEPT ![c] = "nothing"]
    /\ owner' \in {owner} \cup {[owner EXCEPT ![k] = NoOwner] : k \in Keys}
    /\ UNCHANGED asking

Next == \E c \in Clients :
    \/ \E k \in Keys : Ask(c, k)
    \/ Created(c) \/ Refused(c) \/ Failed(c)
    \/ Rejected(c) \/ Other(c)

Spec == Init /\ [][Next]_vars

=============================================================================
