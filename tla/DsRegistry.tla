------------------------------ MODULE DsRegistry ------------------------------
(***************************************************************************)
(* The registry of connection pools that DsUtil keeps in the process-wide  *)
(* DynamicRoutingDataSource.                                               *)
(*                                                                         *)
(* Every thread may run dynamicCheckDataSource (double-checked loading     *)
(* under the monitor of the interned name); the threads of Admins may also *)
(* call the public addDataSource and removeDs, for the names of AdminNames *)
(* and with no lock at all.  Each action is one access to shared state, so *)
(* all the windows between two accesses are there.                         *)
(*                                                                         *)
(* The sys_data_source table is external and may change at any time, so a  *)
(* query answers "a row" or "nothing" freely.  Bound: MaxCalls per thread. *)
(***************************************************************************)
EXTENDS Naturals

CONSTANTS
    Threads,      \* threads of the service
    Admins,       \* the threads that call addDataSource or removeDs themselves
    Names,        \* data source names
    Primary,      \* DataSourceProperties.primary
    AdminNames,   \* the names Admins add, replace and remove
    MaxCalls,     \* bound on the calls one thread makes
    Boot,         \* the builder of the pools made at start-up
    NoPool, Free  \* "no entry in the map" and "nobody owns the monitor"

(* One pool: the name it was built for, and the call that built it.        *)
Pool == [name: Names, by: Threads \cup {Boot}, call: 0..MaxCalls]

ASSUME RegistryAssumption ==
    /\ Admins \subseteq Threads
    /\ AdminNames \subseteq Names
    /\ Primary \in Names
    /\ MaxCalls \in Nat
    /\ Boot \notin Threads
    /\ Free \notin Threads \cup Names
    /\ NoPool \notin Pool

VARIABLES
    registry,  \* DynamicRoutingDataSource.dataSourceMap
    open,      \* the pools that were built and not closed
    monitor,   \* the owner of the monitor of dsName.intern()
    pc,        \* where a thread stands in DsUtil
    op,        \* the DsUtil operation it runs
    target,    \* its dsName
    fresh,     \* the pool it built and has not registered yet
    calls      \* calls it has made

vars == <<registry, open, monitor, pc, op, target, fresh, calls>>

Ops == {"check", "add", "remove"}

(* The statements inside synchronized (dsName.intern()).                   *)
Critical == {"recheck", "query", "create", "lookup", "remove", "put"}

Locations == {"idle", "lock"} \cup Critical

(* A thread between createDataSource and addDataSource of the library.     *)
Registering(t) == op[t] # "remove" /\ pc[t] \in {"lookup", "remove", "put"}

(* The variables have their types, and addDataSource never gets past its   *)
(* null check without a pool to register.                                  *)
TypeOK ==
    /\ registry \in [Names -> Pool \cup {NoPool}]
    /\ open \subseteq Pool
    /\ monitor \in [Names -> Threads \cup {Free}]
    /\ pc \in [Threads -> Locations]
    /\ op \in [Threads -> Ops]
    /\ target \in [Threads -> Names]
    /\ fresh \in [Threads -> Pool \cup {NoPool}]
    /\ calls \in [Threads -> 0..MaxCalls]
    /\ \A t \in Threads : Registering(t) => fresh[t] \in Pool

Registered(n) == registry[n] # NoPool

-----------------------------------------------------------------------------
(* Start-up: the provider loads the primary data source and no other.      *)

PrimaryPool == [name |-> Primary, by |-> Boot, call |-> 0]

Init ==
    /\ registry = [n \in Names |-> IF n = Primary THEN PrimaryPool ELSE NoPool]
    /\ open = {PrimaryPool}
    /\ monitor = [n \in Names |-> Free]
    /\ pc = [t \in Threads |-> "idle"]
    /\ op = [t \in Threads |-> "check"]
    /\ target = [t \in Threads |-> Primary]
    /\ fresh = [t \in Threads |-> NoPool]
    /\ calls = [t \in Threads |-> 0]

-----------------------------------------------------------------------------
(* DynamicRoutingDataSource, the library's map: both of its writers are    *)
(* synchronized, and close the pool they take out.                         *)

RemoveDataSource(n) ==
    IF n = Primary
      THEN UNCHANGED <<registry, open>>          \* throws, and removeDs logs it
      ELSE /\ registry' = [registry EXCEPT ![n] = NoPool]
           /\ open' = open \ {registry[n]}

PutDataSource(n, p) ==
    /\ registry' = [registry EXCEPT ![n] = p]
    /\ open' = open \ {registry[n]}

-----------------------------------------------------------------------------
(* Steps of a call.                                                        *)

Goto(t, location) == pc' = [pc EXCEPT ![t] = location]

(* Leaving the call leaves the synchronized block too, by return or throw. *)
Finish(t) ==
    /\ Goto(t, "idle")
    /\ monitor' = IF op[t] = "check"
                    THEN [monitor EXCEPT ![target[t]] = Free]
                    ELSE monitor

Begin(t, o, n, location) ==
    /\ pc[t] = "idle"
    /\ calls[t] < MaxCalls
    /\ calls' = [calls EXCEPT ![t] = @ + 1]
    /\ op' = [op EXCEPT ![t] = o]
    /\ target' = [target EXCEPT ![t] = n]
    /\ Goto(t, location)
    /\ UNCHANGED <<registry, open, monitor, fresh>>

(* dynamicCheckDataSource: the containsKey outside the lock.               *)
BeginCheck(t, n) ==
    Begin(t, "check", n, IF Registered(n) THEN "idle" ELSE "lock")

(* addDataSource and removeDs called by the application, unlocked.         *)
BeginAdd(t, n) ==
    /\ t \in Admins /\ n \in AdminNames
    /\ Begin(t, "add", n, "create")

BeginRemove(t, n) ==
    /\ t \in Admins /\ n \in AdminNames
    /\ Begin(t, "remove", n, "lookup")

(* Mutant: the lock is a new string for every call, intern() is forgotten. *)
EnterOwnMonitor(t) ==
    /\ pc[t] = "lock"
    /\ monitor' = [monitor EXCEPT ![target[t]] = t]
    /\ Goto(t, "recheck")
    /\ UNCHANGED <<registry, open, op, target, fresh, calls>>

EnterMonitor(t) ==
    /\ pc[t] = "lock"
    /\ monitor[target[t]] = Free
    /\ monitor' = [monitor EXCEPT ![target[t]] = t]
    /\ Goto(t, "recheck")
    /\ UNCHANGED <<registry, open, op, target, fresh, calls>>

(* Mutant: no second containsKey inside the lock.                          *)
RecheckForgotten(t) ==
    /\ pc[t] = "recheck"
    /\ Goto(t, "query")
    /\ UNCHANGED <<registry, open, monitor, op, target, fresh, calls>>

(* The containsKey inside the lock.                                        *)
Recheck(t) ==
    /\ pc[t] = "recheck"
    /\ IF Registered(target[t])
         THEN Finish(t)
         ELSE Goto(t, "query") /\ UNCHANGED monitor
    /\ UNCHANGED <<registry, open, op, target, fresh, calls>>

(* queryDataSource: a row; or no row, or an exception it swallows.         *)
Query(t) ==
    /\ pc[t] = "query"
    /\ \/ Goto(t, "create") /\ UNCHANGED monitor
       \/ Finish(t)
    /\ UNCHANGED <<registry, open, op, target, fresh, calls>>

(* createDataSource returns a new pool.                                    *)
Create(t) ==
    /\ pc[t] = "create"
    /\ LET p == [name |-> target[t], by |-> t, call |-> calls[t]]
       IN  /\ fresh' = [fresh EXCEPT ![t] = p]
           /\ open' = open \cup {p}
    /\ Goto(t, "lookup")
    /\ UNCHANGED <<registry, monitor, op, target, calls>>

(* Mutant: an explicit lock, released in no finally block.                 *)
CreateThrowsLocked(t) ==
    /\ pc[t] = "create"
    /\ Goto(t, "idle")
    /\ UNCHANGED <<registry, open, monitor, op, target, fresh, calls>>

(* Mutant: no pool was built, and the test for null is forgotten.          *)
CreateYieldsNull(t) ==
    /\ pc[t] = "create"
    /\ Goto(t, "lookup")
    /\ UNCHANGED <<registry, open, monitor, op, target, fresh, calls>>

(* createDataSource throws (an unknown driver class, a refused property).  *)
CreateThrows(t) ==
    /\ pc[t] = "create"
    /\ Finish(t)
    /\ UNCHANGED <<registry, open, op, target, fresh, calls>>

(* removeDs: what remains of a call once its removal is over.              *)
AfterRemoval(t) ==
    IF op[t] = "remove"
      THEN Finish(t)
      ELSE Goto(t, "put") /\ UNCHANGED monitor

(* Mutant: addDataSource keeps the pool that is there and drops its own.   *)
LookupKeepsOld(t) ==
    /\ pc[t] = "lookup"
    /\ IF ~Registered(target[t])
         THEN AfterRemoval(t) /\ UNCHANGED fresh
         ELSE IF op[t] = "remove"
                THEN Goto(t, "remove") /\ UNCHANGED <<monitor, fresh>>
                ELSE Finish(t) /\ fresh' = [fresh EXCEPT ![t] = NoPool]
    /\ UNCHANGED <<registry, open, op, target, calls>>

(* removeDs: is there a pool to remove?                                    *)
Lookup(t) ==
    /\ pc[t] = "lookup"
    /\ IF Registered(target[t])
         THEN Goto(t, "remove") /\ UNCHANGED monitor
         ELSE AfterRemoval(t)
    /\ UNCHANGED <<registry, open, op, target, fresh, calls>>

(* Mutant: removeDs takes the entry out of the map by itself, whatever     *)
(* name it has.                                                            *)
RemoveFromMap(t) ==
    /\ pc[t] = "remove"
    /\ registry' = [registry EXCEPT ![target[t]] = NoPool]
    /\ open' = open \ {registry[target[t]]}
    /\ AfterRemoval(t)
    /\ UNCHANGED <<op, target, fresh, calls>>

(* removeDs: the removal, which does nothing when somebody was faster.     *)
Remove(t) ==
    /\ pc[t] = "remove"
    /\ RemoveDataSource(target[t])
    /\ AfterRemoval(t)
    /\ UNCHANGED <<op, target, fresh, calls>>

(* addDataSource: the registration that ends an add or a check.            *)
Put(t) ==
    /\ pc[t] = "put"
    /\ PutDataSource(target[t], fresh[t])
    /\ fresh' = [fresh EXCEPT ![t] = NoPool]
    /\ Finish(t)
    /\ UNCHANGED <<op, target, calls>>

-----------------------------------------------------------------------------

Call(t) == \E n \in Names : BeginCheck(t, n) \/ BeginAdd(t, n) \/ BeginRemove(t, n)

Step(t) ==
    \/ EnterMonitor(t) \/ Recheck(t) \/ Query(t)
    \/ Create(t) \/ CreateThrows(t)
    \/ Lookup(t) \/ Remove(t) \/ Put(t)

Next == \E t \in Threads : Call(t) \/ Step(t)

(* A thread inside DsUtil is scheduled again; nobody is obliged to call.   *)
(* Weak fairness is enough for the monitor because calls are finite.       *)
Fairness == \A t \in Threads : WF_vars(Step(t))

Spec == Init /\ [][Next]_vars
FairSpec == Spec /\ Fairness

-----------------------------------------------------------------------------
(* Safety.                                                                 *)

InFlight(t) == fresh[t] # NoPool

(* Every pool that was built and not closed is either registered or in the *)
(* hands of the thread about to register it, and no registered pool is     *)
(* closed: no interleaving of loads, replacements and removals loses a     *)
(* pool with its connections, or leaves a closed one in the map.           *)
PoolsAccountedFor ==
    open = {registry[n] : n \in {m \in Names : Registered(m)}}
             \cup {fresh[t] : t \in {u \in Threads : InFlight(u)}}

(* A monitor is owned exactly while its owner is between the two braces of *)
(* the synchronized block of that name: loads of one name exclude each     *)
(* other and no exit of the block leaves the monitor locked.               *)
MonitorMatchesBlock ==
    \A n \in Names, t \in Threads :
        monitor[n] = t <=> /\ op[t] = "check"
                           /\ target[t] = n
                           /\ pc[t] \in Critical

(* The primary data source, where every lookup of an unknown name ends, is *)
(* registered at all times, even while it is being replaced or removed.    *)
PrimaryRegistered == Registered(Primary)

(* Dynamic loading never disturbs what is loaded: the pool of a name that  *)
(* no administrator touches is never replaced, removed or closed, however  *)
(* many threads find it missing at once.                                   *)
LoadedNamesStay ==
    [][\A n \in Names \ AdminNames :
          Registered(n) => /\ registry'[n] = registry[n]
                           /\ registry[n] \in open']_vars

(* The table is queried "once" for a name: no thread sends the query, or   *)
(* builds a pool, for a name that is already loaded.                       *)
NoQueryWhenLoaded ==
    \A t \in Threads :
        /\ op[t] = "check" /\ target[t] \notin AdminNames
        /\ pc[t] \in Critical \ {"recheck"}
        => ~Registered(target[t])

-----------------------------------------------------------------------------
(* Refinement and liveness.                                                *)

LoadOnDemand == Names \ AdminNames

Asking == [t \in Threads |->
    IF op[t] = "check" /\ pc[t] # "idle" /\ target[t] \in LoadOnDemand
      THEN target[t]
      ELSE Free]

OnDemand == INSTANCE DsOnDemand WITH
    Callers <- Threads, Names <- LoadOnDemand, Nothing <- Free,
    pools <- [n \in LoadOnDemand |-> registry[n]],
    asking <- Asking

(* For the names no administrator touches, the double-checked locking      *)
(* implements the once-only loading that its callers rely on.              *)
LoadsOnDemand == OnDemand!Spec

(* Every call returns or throws: no thread waits for ever for a monitor.   *)
EveryCallEnds == \A t \in Threads : (pc[t] # "idle") ~> (pc[t] = "idle")

=============================================================================
