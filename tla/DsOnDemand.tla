------------------------------ MODULE DsOnDemand ------------------------------
(***************************************************************************)
(* What DsUtil.dynamicCheckDataSource promises its callers: a name that is *)
(* not loaded yet is looked up and initialised once, by one of the callers *)
(* that ask for it, and from then on its pool stays the same.  Locks,      *)
(* queries and the windows between the steps of a load are hidden.         *)
(***************************************************************************)

CONSTANTS
    Callers,     \* the threads that may ask
    Names,       \* the names nobody adds or removes by hand
    Pool,        \* records with a field name
    NoPool,      \* "not loaded"
    Nothing      \* "asks for no name"

VARIABLES
    pools,       \* the pool each name is served by
    asking       \* the name each caller waits for

vars == <<pools, asking>>

Init ==
    /\ pools \in [Names -> Pool \cup {NoPool}]
    /\ asking = [c \in Callers |-> Nothing]

Ask(c, n) ==
    /\ asking[c] = Nothing
    /\ pools[n] = NoPool
    /\ asking' = [asking EXCEPT ![c] = n]
    /\ UNCHANGED pools

Done(c) == asking' = [asking EXCEPT ![c] = Nothing]

(* The caller that loads the name is answered by the same step.            *)
Load(c) ==
    LET n == asking[c] IN
    /\ n # Nothing
    /\ pools[n] = NoPool
    /\ \E p \in Pool :
           /\ p.name = n
           /\ pools' = [pools EXCEPT ![n] = p]
    /\ Done(c)

(* Somebody else has loaded it, or it cannot be loaded.                    *)
Answer(c) ==
    /\ asking[c] # Nothing
    /\ Done(c)
    /\ UNCHANGED pools

Next == \E c \in Callers :
    \/ \E n \in Names : Ask(c, n)
    \/ Load(c)
    \/ Answer(c)

Spec == Init /\ [][Next]_vars

=============================================================================
