--------------------------- MODULE DsRegistryProofs ---------------------------
(***************************************************************************)
(* Proofs about DsRegistry, for any number of threads, names and calls.    *)
(*                                                                         *)
(* PoolsAccountedFor is not inductive by itself: closing the pool a thread *)
(* displaces must not close one that somebody else holds.  What rules it   *)
(* out is the identity of a pool, (name, thread, call): a pool in flight   *)
(* belongs to the current call of its thread (FreshIsOwn), a registered    *)
(* one to an earlier call or to one that is over (RegisteredIsOlder).      *)
(*                                                                         *)
(* The invariant also gives the refinement of DsOnDemand, that no threads  *)
(* wait for one another, how many steps a call can take, and that the map  *)
(* changes as DsRouting assumes.                                           *)
(***************************************************************************)
EXTENDS DsRegistry, TLAPS

(* Which operation can stand where.                                        *)
OpFitsLocation ==
    \A t \in Threads :
        /\ pc[t] \in {"lock", "recheck", "query"} => op[t] = "check"
        /\ pc[t] \in {"create", "put"} => op[t] # "remove"
        /\ op[t] # "check" => target[t] \in AdminNames

OwnPool(t) == [name |-> target[t], by |-> t, call |-> calls[t]]

FreshIsOwn ==
    \A t \in Threads :
        fresh[t] = IF Registering(t)
                     THEN OwnPool(t)
                     ELSE NoPool

RegisteredIsOlder ==
    \A n \in Names : Registered(n) =>
        /\ registry[n].name = n
        /\ \A t \in Threads : registry[n].by = t =>
               /\ registry[n].call <= calls[t]
               /\ pc[t] # "idle" => registry[n].call # calls[t]

IInv ==
    /\ TypeOK
    /\ OpFitsLocation
    /\ MonitorMatchesBlock
    /\ FreshIsOwn
    /\ RegisteredIsOlder
    /\ PoolsAccountedFor
    /\ PrimaryRegistered
    /\ NoQueryWhenLoaded

-----------------------------------------------------------------------------

(* The initial states satisfy the inductive invariant.                     *)
LEMMA InitIInv == Init => IInv
<1> SUFFICES ASSUME Init PROVE IInv
  OBVIOUS
<1> USE RegistryAssumption DEF Init, Registered, InFlight
<1>1. PrimaryPool \in Pool /\ PrimaryPool # NoPool
  BY DEF PrimaryPool, Pool
<1>2. TypeOK
  BY <1>1 DEF TypeOK, Locations, Ops, Registering
<1>3. OpFitsLocation /\ MonitorMatchesBlock /\ FreshIsOwn
  BY DEF OpFitsLocation, MonitorMatchesBlock, FreshIsOwn, Registering, Critical
<1>4. RegisteredIsOlder
  BY <1>1 DEF RegisteredIsOlder, PrimaryPool
<1>5. PoolsAccountedFor
  BY <1>1 DEF PoolsAccountedFor
<1>6. PrimaryRegistered /\ NoQueryWhenLoaded
  BY <1>1 DEF PrimaryRegistered, NoQueryWhenLoaded, Critical
<1>7. QED
  BY <1>2, <1>3, <1>4, <1>5, <1>6 DEF IInv

(* Every step keeps the variables in their types.                          *)
LEMMA TypeStep == TypeOK /\ [Next]_vars => TypeOK'
<1> SUFFICES ASSUME TypeOK, [Next]_vars PROVE TypeOK'
  OBVIOUS
<1> USE RegistryAssumption DEF TypeOK, Locations, Critical, Ops, Registering
<1>1. ASSUME NEW t \in Threads, NEW n \in Names, BeginCheck(t, n) PROVE TypeOK'
  BY <1>1 DEF BeginCheck, Begin, Goto
<1>2. ASSUME NEW t \in Threads, NEW n \in Names, BeginAdd(t, n) PROVE TypeOK'
  BY <1>2 DEF BeginAdd, Begin, Goto
<1>3. ASSUME NEW t \in Threads, NEW n \in Names, BeginRemove(t, n) PROVE TypeOK'
  BY <1>3 DEF BeginRemove, Begin, Goto
<1>4. ASSUME NEW t \in Threads, EnterMonitor(t) PROVE TypeOK'
  BY <1>4 DEF EnterMonitor, Goto
<1>5. ASSUME NEW t \in Threads, Recheck(t) PROVE TypeOK'
  BY <1>5 DEF Recheck, Goto, Finish
<1>6. ASSUME NEW t \in Threads, Query(t) PROVE TypeOK'
  <2>1. CASE Goto(t, "create") /\ UNCHANGED monitor
    BY <1>6, <2>1 DEF Query, Goto
  <2>2. CASE Finish(t)
    BY <1>6, <2>2 DEF Query, Goto, Finish
  <2> QED
    BY <1>6, <2>1, <2>2 DEF Query
<1>7. ASSUME NEW t \in Threads, Create(t) PROVE TypeOK'
  <2>1. [name |-> target[t], by |-> t, call |-> calls[t]] \in Pool
    BY DEF Pool
  <2>2. QED
    BY <1>7, <2>1 DEF Create, Goto
<1>8. ASSUME NEW t \in Threads, CreateThrows(t) PROVE TypeOK'
  BY <1>8 DEF CreateThrows, Goto, Finish
<1>9. ASSUME NEW t \in Threads, Lookup(t) PROVE TypeOK'
  BY <1>9 DEF Lookup, AfterRemoval, Goto, Finish
<1>10. ASSUME NEW t \in Threads, Remove(t) PROVE TypeOK'
  <2>1. registry' \in [Names -> Pool \cup {NoPool}] /\ open' \subseteq Pool
    BY <1>10 DEF Remove, RemoveDataSource
  <2>2. QED
    BY <1>10, <2>1 DEF Remove, AfterRemoval, Goto, Finish
<1>11. ASSUME NEW t \in Threads, Put(t) PROVE TypeOK'
  <2>1. registry' \in [Names -> Pool \cup {NoPool}] /\ open' \subseteq Pool
    BY <1>11 DEF Put, PutDataSource
  <2>2. QED
    BY <1>11, <2>1 DEF Put, Goto, Finish
<1>12. CASE UNCHANGED vars
  BY <1>12 DEF vars
<1>13. QED
  BY <1>1, <1>2, <1>3, <1>4, <1>5, <1>6, <1>7, <1>8, <1>9, <1>10, <1>11, <1>12
     DEF Next, Call, Step

(* Operations stay where their code is.                                    *)
LEMMA OpFitsStep ==
    ASSUME TypeOK, OpFitsLocation, [Next]_vars
    PROVE  OpFitsLocation'
<1> USE RegistryAssumption DEF TypeOK, OpFitsLocation, Ops
<1>1. ASSUME NEW t \in Threads, NEW n \in Names, BeginCheck(t, n) PROVE OpFitsLocation'
  BY <1>1 DEF BeginCheck, Begin, Goto
<1>2. ASSUME NEW t \in Threads, NEW n \in Names, BeginAdd(t, n) PROVE OpFitsLocation'
  BY <1>2 DEF BeginAdd, Begin, Goto
<1>3. ASSUME NEW t \in Threads, NEW n \in Names, BeginRemove(t, n) PROVE OpFitsLocation'
  BY <1>3 DEF BeginRemove, Begin, Goto
<1>4. ASSUME NEW t \in Threads, EnterMonitor(t) PROVE OpFitsLocation'
  BY <1>4 DEF EnterMonitor, Goto
<1>5. ASSUME NEW t \in Threads, Recheck(t) PROVE OpFitsLocation'
  BY <1>5 DEF Recheck, Goto, Finish
<1>6. ASSUME NEW t \in Threads, Query(t) PROVE OpFitsLocation'
  BY <1>6 DEF Query, Goto, Finish
<1>7. ASSUME NEW t \in Threads, Create(t) PROVE OpFitsLocation'
  BY <1>7 DEF Create, Goto
<1>8. ASSUME NEW t \in Threads, CreateThrows(t) PROVE OpFitsLocation'
  BY <1>8 DEF CreateThrows, Goto, Finish
<1>9. ASSUME NEW t \in Threads, Lookup(t) PROVE OpFitsLocation'
  BY <1>9 DEF Lookup, AfterRemoval, Goto, Finish
<1>10. ASSUME NEW t \in Threads, Remove(t) PROVE OpFitsLocation'
  BY <1>10 DEF Remove, RemoveDataSource, AfterRemoval, Goto, Finish
<1>11. ASSUME NEW t \in Threads, Put(t) PROVE OpFitsLocation'
  BY <1>11 DEF Put, PutDataSource, Goto, Finish
<1>12. CASE UNCHANGED vars
  BY <1>12 DEF vars
<1>13. QED
  BY <1>1, <1>2, <1>3, <1>4, <1>5, <1>6, <1>7, <1>8, <1>9, <1>10, <1>11, <1>12
     DEF Next, Call, Step

(* The monitor is taken on entry of the block and given back on every exit.*)
LEMMA MonitorStep ==
    ASSUME TypeOK, OpFitsLocation, MonitorMatchesBlock, [Next]_vars
    PROVE  MonitorMatchesBlock'
<1> USE RegistryAssumption DEF TypeOK, OpFitsLocation, MonitorMatchesBlock, Critical, Locations, Ops
<1>1. ASSUME NEW t \in Threads, NEW n \in Names, BeginCheck(t, n) PROVE MonitorMatchesBlock'
  BY <1>1 DEF BeginCheck, Begin, Goto
<1>2. ASSUME NEW t \in Threads, NEW n \in Names, BeginAdd(t, n) PROVE MonitorMatchesBlock'
  BY <1>2 DEF BeginAdd, Begin, Goto
<1>3. ASSUME NEW t \in Threads, NEW n \in Names, BeginRemove(t, n) PROVE MonitorMatchesBlock'
  BY <1>3 DEF BeginRemove, Begin, Goto
<1>4. ASSUME NEW t \in Threads, EnterMonitor(t) PROVE MonitorMatchesBlock'
  BY <1>4 DEF EnterMonitor, Goto
<1>5. ASSUME NEW t \in Threads, Recheck(t) PROVE MonitorMatchesBlock'
  BY <1>5 DEF Recheck, Goto, Finish
<1>6. ASSUME NEW t \in Threads, Query(t) PROVE MonitorMatchesBlock'
  BY <1>6 DEF Query, Goto, Finish
<1>7. ASSUME NEW t \in Threads, Create(t) PROVE MonitorMatchesBlock'
  BY <1>7 DEF Create, Goto
<1>8. ASSUME NEW t \in Threads, CreateThrows(t) PROVE MonitorMatchesBlock'
  BY <1>8 DEF CreateThrows, Goto, Finish
<1>9. ASSUME NEW t \in Threads, Lookup(t) PROVE MonitorMatchesBlock'
  BY <1>9 DEF Lookup, AfterRemoval, Goto, Finish
<1>10. ASSUME NEW t \in Threads, Remove(t) PROVE MonitorMatchesBlock'
  BY <1>10 DEF Remove, RemoveDataSource, AfterRemoval, Goto, Finish
<1>11. ASSUME NEW t \in Threads, Put(t) PROVE MonitorMatchesBlock'
  BY <1>11 DEF Put, PutDataSource, Goto, Finish
<1>12. CASE UNCHANGED vars
  BY <1>12 DEF vars
<1>13. QED
  BY <1>1, <1>2, <1>3, <1>4, <1>5, <1>6, <1>7, <1>8, <1>9, <1>10, <1>11, <1>12
     DEF Next, Call, Step

(* A thread holds a pool from its creation to its registration.            *)
LEMMA FreshStep ==
    ASSUME TypeOK, OpFitsLocation, FreshIsOwn, [Next]_vars
    PROVE  FreshIsOwn'
<1> USE RegistryAssumption DEF TypeOK, OpFitsLocation, FreshIsOwn, Registering, OwnPool, Ops
<1>1. ASSUME NEW t \in Threads, NEW n \in Names, BeginCheck(t, n) PROVE FreshIsOwn'
  BY <1>1 DEF BeginCheck, Begin, Goto
<1>2. ASSUME NEW t \in Threads, NEW n \in Names, BeginAdd(t, n) PROVE FreshIsOwn'
  BY <1>2 DEF BeginAdd, Begin, Goto
<1>3. ASSUME NEW t \in Threads, NEW n \in Names, BeginRemove(t, n) PROVE FreshIsOwn'
  BY <1>3 DEF BeginRemove, Begin, Goto
<1>4. ASSUME NEW t \in Threads, EnterMonitor(t) PROVE FreshIsOwn'
  BY <1>4 DEF EnterMonitor, Goto
<1>5. ASSUME NEW t \in Threads, Recheck(t) PROVE FreshIsOwn'
  BY <1>5 DEF Recheck, Goto, Finish
<1>6. ASSUME NEW t \in Threads, Query(t) PROVE FreshIsOwn'
  BY <1>6 DEF Query, Goto, Finish
<1>7. ASSUME NEW t \in Threads, Create(t) PROVE FreshIsOwn'
  BY <1>7 DEF Create, Goto
<1>8. ASSUME NEW t \in Threads, CreateThrows(t) PROVE FreshIsOwn'
  BY <1>8 DEF CreateThrows, Goto, Finish
<1>9. ASSUME NEW t \in Threads, Lookup(t) PROVE FreshIsOwn'
  BY <1>9 DEF Lookup, AfterRemoval, Goto, Finish
<1>10. ASSUME NEW t \in Threads, Remove(t) PROVE FreshIsOwn'
  BY <1>10 DEF Remove, RemoveDataSource, AfterRemoval, Goto, Finish
<1>11. ASSUME NEW t \in Threads, Put(t) PROVE FreshIsOwn'
  BY <1>11 DEF Put, PutDataSource, Goto, Finish
<1>12. CASE UNCHANGED vars
  BY <1>12 DEF vars
<1>13. QED
  BY <1>1, <1>2, <1>3, <1>4, <1>5, <1>6, <1>7, <1>8, <1>9, <1>10, <1>11, <1>12
     DEF Next, Call, Step


(* A registered pool keeps its name and never belongs to the current call. *)
LEMMA OlderStep ==
    ASSUME TypeOK, OpFitsLocation, FreshIsOwn, RegisteredIsOlder, [Next]_vars
    PROVE  RegisteredIsOlder'
<1> USE RegistryAssumption DEF TypeOK, OpFitsLocation, FreshIsOwn, Registering, RegisteredIsOlder, Registered, OwnPool, Ops, Pool
<1>1. ASSUME NEW t \in Threads, NEW n \in Names, BeginCheck(t, n) PROVE RegisteredIsOlder'
  BY <1>1 DEF BeginCheck, Begin, Goto
<1>2. ASSUME NEW t \in Threads, NEW n \in Names, BeginAdd(t, n) PROVE RegisteredIsOlder'
  BY <1>2 DEF BeginAdd, Begin, Goto
<1>3. ASSUME NEW t \in Threads, NEW n \in Names, BeginRemove(t, n) PROVE RegisteredIsOlder'
  BY <1>3 DEF BeginRemove, Begin, Goto
<1>4. ASSUME NEW t \in Threads, EnterMonitor(t) PROVE RegisteredIsOlder'
  BY <1>4 DEF EnterMonitor, Goto
<1>5. ASSUME NEW t \in Threads, Recheck(t) PROVE RegisteredIsOlder'
  BY <1>5 DEF Recheck, Goto, Finish
<1>6. ASSUME NEW t \in Threads, Query(t) PROVE RegisteredIsOlder'
  BY <1>6 DEF Query, Goto, Finish
<1>7. ASSUME NEW t \in Threads, Create(t) PROVE RegisteredIsOlder'
  BY <1>7 DEF Create, Goto
<1>8. ASSUME NEW t \in Threads, CreateThrows(t) PROVE RegisteredIsOlder'
  BY <1>8 DEF CreateThrows, Goto, Finish
<1>9. ASSUME NEW t \in Threads, Lookup(t) PROVE RegisteredIsOlder'
  BY <1>9 DEF Lookup, AfterRemoval, Goto, Finish
<1>10. ASSUME NEW t \in Threads, Remove(t) PROVE RegisteredIsOlder'
  BY <1>10 DEF Remove, RemoveDataSource, AfterRemoval, Goto, Finish
<1>11. ASSUME NEW t \in Threads, Put(t) PROVE RegisteredIsOlder'
  BY <1>11 DEF Put, PutDataSource, Goto, Finish
<1>12. CASE UNCHANGED vars
  BY <1>12 DEF vars
<1>13. QED
  BY <1>1, <1>2, <1>3, <1>4, <1>5, <1>6, <1>7, <1>8, <1>9, <1>10, <1>11, <1>12
     DEF Next, Call, Step

(* The pool of the current call is a pool, and so not "no pool".           *)
LEMMA OwnPoolIsPool ==
    ASSUME TypeOK, NEW t \in Threads
    PROVE  OwnPool(t) \in Pool /\ OwnPool(t) # NoPool
BY RegistryAssumption DEF TypeOK, OwnPool, Pool

(* No step loses a pool: what leaves the map is closed, and nothing else.  *)
LEMMA AccountStep ==
    ASSUME TypeOK, OpFitsLocation, FreshIsOwn, RegisteredIsOlder,
           PoolsAccountedFor, [Next]_vars
    PROVE  PoolsAccountedFor'
<1> USE RegistryAssumption DEF TypeOK, OpFitsLocation, FreshIsOwn, Registering, RegisteredIsOlder,
                             PoolsAccountedFor, Registered, InFlight, OwnPool, Ops
<1>1. ASSUME NEW t \in Threads, NEW n \in Names, BeginCheck(t, n) PROVE PoolsAccountedFor'
  BY <1>1 DEF BeginCheck, Begin, Goto
<1>2. ASSUME NEW t \in Threads, NEW n \in Names, BeginAdd(t, n) PROVE PoolsAccountedFor'
  BY <1>2 DEF BeginAdd, Begin, Goto
<1>3. ASSUME NEW t \in Threads, NEW n \in Names, BeginRemove(t, n) PROVE PoolsAccountedFor'
  BY <1>3 DEF BeginRemove, Begin, Goto
<1>4. ASSUME NEW t \in Threads, EnterMonitor(t) PROVE PoolsAccountedFor'
  BY <1>4 DEF EnterMonitor, Goto
<1>5. ASSUME NEW t \in Threads, Recheck(t) PROVE PoolsAccountedFor'
  BY <1>5 DEF Recheck, Goto, Finish
<1>6. ASSUME NEW t \in Threads, Query(t) PROVE PoolsAccountedFor'
  BY <1>6 DEF Query, Goto, Finish
<1>7. ASSUME NEW t \in Threads, Create(t) PROVE PoolsAccountedFor'
  BY <1>7, OwnPoolIsPool DEF Create, Goto
<1>8. ASSUME NEW t \in Threads, CreateThrows(t) PROVE PoolsAccountedFor'
  BY <1>8 DEF CreateThrows, Goto, Finish
<1>9. ASSUME NEW t \in Threads, Lookup(t) PROVE PoolsAccountedFor'
  BY <1>9 DEF Lookup, AfterRemoval, Goto, Finish
<1>10. ASSUME NEW t \in Threads, Remove(t) PROVE PoolsAccountedFor'
  BY <1>10 DEF Remove, RemoveDataSource, AfterRemoval, Goto, Finish
<1>11. ASSUME NEW t \in Threads, Put(t) PROVE PoolsAccountedFor'
  BY <1>11 DEF Put, PutDataSource, Goto, Finish
<1>12. CASE UNCHANGED vars
  BY <1>12 DEF vars
<1>13. QED
  BY <1>1, <1>2, <1>3, <1>4, <1>5, <1>6, <1>7, <1>8, <1>9, <1>10, <1>11, <1>12
     DEF Next, Call, Step

(* The primary data source is replaced, never taken out.                   *)
LEMMA PrimaryStep ==
    ASSUME TypeOK, OpFitsLocation, FreshIsOwn, PrimaryRegistered, [Next]_vars
    PROVE  PrimaryRegistered'
<1> USE RegistryAssumption DEF TypeOK, OpFitsLocation, FreshIsOwn, Registering, PrimaryRegistered, Registered, OwnPool, Ops
<1>1. ASSUME NEW t \in Threads, NEW n \in Names, BeginCheck(t, n) PROVE PrimaryRegistered'
  BY <1>1 DEF BeginCheck, Begin, Goto
<1>2. ASSUME NEW t \in Threads, NEW n \in Names, BeginAdd(t, n) PROVE PrimaryRegistered'
  BY <1>2 DEF BeginAdd, Begin, Goto
<1>3. ASSUME NEW t \in Threads, NEW n \in Names, BeginRemove(t, n) PROVE PrimaryRegistered'
  BY <1>3 DEF BeginRemove, Begin, Goto
<1>4. ASSUME NEW t \in Threads, EnterMonitor(t) PROVE PrimaryRegistered'
  BY <1>4 DEF EnterMonitor, Goto
<1>5. ASSUME NEW t \in Threads, Recheck(t) PROVE PrimaryRegistered'
  BY <1>5 DEF Recheck, Goto, Finish
<1>6. ASSUME NEW t \in Threads, Query(t) PROVE PrimaryRegistered'
  BY <1>6 DEF Query, Goto, Finish
<1>7. ASSUME NEW t \in Threads, Create(t) PROVE PrimaryRegistered'
  BY <1>7 DEF Create, Goto
<1>8. ASSUME NEW t \in Threads, CreateThrows(t) PROVE PrimaryRegistered'
  BY <1>8 DEF CreateThrows, Goto, Finish
<1>9. ASSUME NEW t \in Threads, Lookup(t) PROVE PrimaryRegistered'
  BY <1>9 DEF Lookup, AfterRemoval, Goto, Finish
<1>10. ASSUME NEW t \in Threads, Remove(t) PROVE PrimaryRegistered'
  BY <1>10 DEF Remove, RemoveDataSource, AfterRemoval, Goto, Finish
<1>11. ASSUME NEW t \in Threads, Put(t) PROVE PrimaryRegistered'
  BY <1>11, OwnPoolIsPool DEF Put, PutDataSource, Goto, Finish
<1>12. CASE UNCHANGED vars
  BY <1>12 DEF vars
<1>13. QED
  BY <1>1, <1>2, <1>3, <1>4, <1>5, <1>6, <1>7, <1>8, <1>9, <1>10, <1>11, <1>12
     DEF Next, Call, Step

(* While a thread loads a name, nobody else registers it.                  *)
LEMMA NoQueryStep ==
    ASSUME TypeOK, OpFitsLocation, MonitorMatchesBlock,
           NoQueryWhenLoaded, [Next]_vars
    PROVE  NoQueryWhenLoaded'
<1> USE RegistryAssumption DEF TypeOK, OpFitsLocation, MonitorMatchesBlock,
                             NoQueryWhenLoaded, Registered, Critical, Ops
<1>1. ASSUME NEW t \in Threads, NEW n \in Names, BeginCheck(t, n) PROVE NoQueryWhenLoaded'
  BY <1>1 DEF BeginCheck, Begin, Goto
<1>2. ASSUME NEW t \in Threads, NEW n \in Names, BeginAdd(t, n) PROVE NoQueryWhenLoaded'
  BY <1>2 DEF BeginAdd, Begin, Goto
<1>3. ASSUME NEW t \in Threads, NEW n \in Names, BeginRemove(t, n) PROVE NoQueryWhenLoaded'
  BY <1>3 DEF BeginRemove, Begin, Goto
<1>4. ASSUME NEW t \in Threads, EnterMonitor(t) PROVE NoQueryWhenLoaded'
  BY <1>4 DEF EnterMonitor, Goto
<1>5. ASSUME NEW t \in Threads, Recheck(t) PROVE NoQueryWhenLoaded'
  BY <1>5 DEF Recheck, Goto, Finish
<1>6. ASSUME NEW t \in Threads, Query(t) PROVE NoQueryWhenLoaded'
  BY <1>6 DEF Query, Goto, Finish
<1>7. ASSUME NEW t \in Threads, Create(t) PROVE NoQueryWhenLoaded'
  BY <1>7 DEF Create, Goto
<1>8. ASSUME NEW t \in Threads, CreateThrows(t) PROVE NoQueryWhenLoaded'
  BY <1>8 DEF CreateThrows, Goto, Finish
<1>9. ASSUME NEW t \in Threads, Lookup(t) PROVE NoQueryWhenLoaded'
  BY <1>9 DEF Lookup, AfterRemoval, Goto, Finish
<1>10. ASSUME NEW t \in Threads, Remove(t) PROVE NoQueryWhenLoaded'
  BY <1>10 DEF Remove, RemoveDataSource, AfterRemoval, Goto, Finish
<1>11. ASSUME NEW t \in Threads, Put(t) PROVE NoQueryWhenLoaded'
  BY <1>11 DEF Put, PutDataSource, Goto, Finish
<1>12. CASE UNCHANGED vars
  BY <1>12 DEF vars
<1>13. QED
  BY <1>1, <1>2, <1>3, <1>4, <1>5, <1>6, <1>7, <1>8, <1>9, <1>10, <1>11, <1>12
     DEF Next, Call, Step


(* The inductive invariant holds in every reachable state.                 *)
THEOREM Invariance == Spec => []IInv
<1>1. IInv /\ [Next]_vars => IInv'
  BY TypeStep, OpFitsStep, MonitorStep, FreshStep, OlderStep, AccountStep,
     PrimaryStep, NoQueryStep DEF IInv
<1>2. QED
  BY InitIInv, <1>1, PTL DEF Spec

(* The variables of DsUtil and its registry keep their types.              *)
THEOREM TypeCorrect == Spec => []TypeOK
BY Invariance, PTL DEF IInv

(* However many threads load, replace and remove pools at once, no pool is *)
(* lost with its connections and no closed pool stays registered.          *)
THEOREM NoPoolLost == Spec => []PoolsAccountedFor
BY Invariance, PTL DEF IInv

(* A monitor is held exactly by the thread inside its block.               *)
THEOREM MonitorsMatch == Spec => []MonitorMatchesBlock
BY Invariance, PTL DEF IInv

(* The fallback of every lookup is there in every reachable state.         *)
THEOREM PrimaryStays == Spec => []PrimaryRegistered
BY Invariance, PTL DEF IInv

(* No query and no second pool for a name that is loaded already.          *)
THEOREM QueriesAreNeeded == Spec => []NoQueryWhenLoaded
BY Invariance, PTL DEF IInv

-----------------------------------------------------------------------------

(* Only the thread of an unlocked call, or one that loads a missing name,  *)
(* changes the map; so the entry of a loaded name never changes.           *)
LEMMA LoadedEntryStays ==
    ASSUME IInv, [Next]_vars, NEW n \in LoadOnDemand, Registered(n)
    PROVE  registry'[n] = registry[n]
<1> USE RegistryAssumption
    DEF IInv, TypeOK, OpFitsLocation, NoQueryWhenLoaded, LoadOnDemand, Critical
<1>1. ASSUME NEW t \in Threads, pc[t] \in {"remove", "put"}
      PROVE  target[t] # n
  BY <1>1
<1>2. ASSUME NEW t \in Threads, Remove(t) PROVE registry'[n] = registry[n]
  BY <1>1, <1>2 DEF Remove, RemoveDataSource
<1>3. ASSUME NEW t \in Threads, Put(t) PROVE registry'[n] = registry[n]
  BY <1>1, <1>3 DEF Put, PutDataSource
<1>4. CASE UNCHANGED registry
  BY <1>4
<1>5. QED
  BY <1>2, <1>3, <1>4
     DEF Next, Call, Step, vars, BeginCheck, BeginAdd, BeginRemove, Begin,
         EnterMonitor, Recheck, Query, Create, CreateThrows, Lookup

(* Dynamic loading never replaces, removes or closes the pool of a name    *)
(* that is loaded already and that no administrator touches.               *)
THEOREM LoadedStay == Spec => LoadedNamesStay
<1>1. ASSUME IInv, IInv', [Next]_vars
      PROVE  [\A n \in Names \ AdminNames :
                 Registered(n) => /\ registry'[n] = registry[n]
                                  /\ registry[n] \in open']_vars
  <2>1. ASSUME NEW n \in Names \ AdminNames, Registered(n)
        PROVE  registry'[n] = registry[n] /\ registry[n] \in open'
    <3>1. registry'[n] = registry[n]
      BY <1>1, <2>1, LoadedEntryStays DEF LoadOnDemand
    <3>2. registry'[n] \in open'
      BY <1>1, <2>1, <3>1 DEF IInv, PoolsAccountedFor, Registered
    <3>3. QED
      BY <3>1, <3>2
  <2>2. QED
    BY <2>1
<1>2. QED
  BY <1>1, Invariance, PTL DEF Spec, LoadedNamesStay

-----------------------------------------------------------------------------
(* Refinement: each step of DsRegistry is a step of DsOnDemand or leaves   *)
(* its variables alone.                                                    *)

LEMMA InitRefines == Init => OnDemand!Init
BY RegistryAssumption, InitIInv
   DEF Init, IInv, TypeOK, OnDemand!Init, Asking, LoadOnDemand

(* Only the caller whose location changes may start or stop asking.        *)
LEMMA AskingOfOthers ==
    ASSUME TypeOK, NEW t \in Threads,
           pc' \in [Threads -> Locations],
           \A u \in Threads \ {t} : pc'[u] = pc[u] /\ op'[u] = op[u] /\ target'[u] = target[u]
    PROVE  /\ Asking'[t] = Asking[t] => Asking' = Asking
           /\ Asking' = [Asking EXCEPT ![t] = Asking'[t]]
BY DEF Asking, TypeOK

LEMMA StepRefines ==
    ASSUME IInv, IInv', [Next]_vars
    PROVE  [OnDemand!Next]_(OnDemand!vars)
<1> DEFINE pools == [n \in LoadOnDemand |-> registry[n]]
<1> USE RegistryAssumption DEF IInv, TypeOK
<1>1. ASSUME NEW t \in Threads, NEW n \in Names, BeginCheck(t, n)
      PROVE  [OnDemand!Next]_(OnDemand!vars)
  <2>1. /\ Asking'[t] = Asking[t] => Asking' = Asking
        /\ Asking' = [Asking EXCEPT ![t] = Asking'[t]]
    BY <1>1, AskingOfOthers DEF BeginCheck, Begin, Goto
  <2>2. CASE Registered(n) \/ n \in AdminNames
    BY <1>1, <2>1, <2>2
       DEF BeginCheck, Begin, Goto, Asking, LoadOnDemand, OnDemand!vars
  <2>3. CASE ~Registered(n) /\ n \notin AdminNames
    <3>1. OnDemand!Ask(t, n)
      BY <1>1, <2>1, <2>3
         DEF BeginCheck, Begin, Goto, Asking, LoadOnDemand, Registered,
             Locations, OnDemand!Ask
    <3>2. QED
      BY <2>3, <3>1 DEF OnDemand!Next, LoadOnDemand
  <2>4. QED
    BY <2>2, <2>3
<1>2. ASSUME NEW t \in Threads, NEW n \in Names, BeginAdd(t, n) \/ BeginRemove(t, n)
      PROVE  UNCHANGED (OnDemand!vars)
  BY <1>2, AskingOfOthers
     DEF BeginAdd, BeginRemove, Begin, Goto, Asking, LoadOnDemand, OnDemand!vars
<1>3. ASSUME NEW t \in Threads, UNCHANGED <<pools, op, target>>,
             Finish(t), pc[t] # "idle"
      PROVE  [OnDemand!Next]_(OnDemand!vars)
  <2>1. /\ Asking'[t] = Asking[t] => Asking' = Asking
        /\ Asking' = [Asking EXCEPT ![t] = Asking'[t]]
    BY <1>3, AskingOfOthers DEF Finish, Goto
  <2>2. Asking'[t] = Free
    BY <1>3 DEF Finish, Goto, Asking
  <2>3. CASE Asking[t] = Free
    BY <1>3, <2>1, <2>2, <2>3 DEF OnDemand!vars
  <2>4. CASE Asking[t] # Free
    BY <1>3, <2>1, <2>2, <2>4
       DEF OnDemand!Next, OnDemand!Answer, OnDemand!Done
  <2>5. QED
    BY <2>3, <2>4
<1>4. ASSUME NEW t \in Threads, UNCHANGED <<pools, op, target>>,
             NEW location \in Locations \ {"idle"}, Goto(t, location), pc[t] # "idle"
      PROVE  UNCHANGED (OnDemand!vars)
  <2>1. Asking' = Asking
    BY <1>4 DEF Goto, Asking
  <2>2. QED
    BY <1>4, <2>1 DEF OnDemand!vars
<1>5. ASSUME NEW t \in Threads,
             EnterMonitor(t) \/ Recheck(t) \/ Query(t) \/ Create(t)
               \/ CreateThrows(t) \/ Lookup(t)
      PROVE  [OnDemand!Next]_(OnDemand!vars)
  <2>1. UNCHANGED <<pools, op, target>> /\ pc[t] # "idle"
    BY <1>5 DEF EnterMonitor, Recheck, Query, Create, CreateThrows, Lookup
  <2>2. Finish(t) \/ \E location \in Locations \ {"idle"} : Goto(t, location)
    BY <1>5 DEF EnterMonitor, Recheck, Query, Create, CreateThrows, Lookup,
                AfterRemoval, Locations, Critical
  <2>3. QED
    BY <1>3, <1>4, <2>1, <2>2
<1>6. ASSUME NEW t \in Threads, Remove(t)
      PROVE  [OnDemand!Next]_(OnDemand!vars)
  <2>1. \A n \in LoadOnDemand : registry'[n] = registry[n]
    BY <1>6 DEF Remove, RemoveDataSource, LoadOnDemand, OpFitsLocation,
                NoQueryWhenLoaded, Registered, Critical
  <2>2. UNCHANGED <<pools, op, target>> /\ pc[t] # "idle"
    BY <1>6, <2>1 DEF Remove
  <2>3. Finish(t) \/ Goto(t, "put")
    BY <1>6 DEF Remove, AfterRemoval
  <2>4. QED
    BY <1>3, <1>4, <2>2, <2>3 DEF Locations, Critical
<1>7. ASSUME NEW t \in Threads, Put(t)
      PROVE  [OnDemand!Next]_(OnDemand!vars)
  <2>1. CASE target[t] \in AdminNames
    <3>1. UNCHANGED <<pools, op, target>> /\ pc[t] # "idle" /\ Finish(t)
      BY <1>7, <2>1 DEF Put, PutDataSource, LoadOnDemand
    <3>2. QED
      BY <1>3, <3>1
  <2>2. CASE target[t] \notin AdminNames
    <3> DEFINE n == target[t]
    <3>1. op[t] = "check" /\ n \in LoadOnDemand /\ Asking[t] = n
      BY <1>7, <2>2 DEF Put, OpFitsLocation, LoadOnDemand, Asking
    <3>2. pools[n] = NoPool
      BY <1>7, <2>2, <3>1 DEF Put, NoQueryWhenLoaded, Registered, Critical
    <3>3. /\ fresh[t] \in Pool
          /\ fresh[t].name = n
          /\ pools' = [pools EXCEPT ![n] = fresh[t]]
      <4>1. fresh[t] = OwnPool(t)
        BY <1>7, <3>1 DEF Put, FreshIsOwn, Registering
      <4>2. pools' = [pools EXCEPT ![n] = fresh[t]]
        BY <1>7, <3>1 DEF Put, PutDataSource, LoadOnDemand
      <4>3. QED
        BY <4>1, <4>2, OwnPoolIsPool DEF OwnPool
    <3>4. Asking' = [Asking EXCEPT ![t] = Free]
      <4>1. Asking' = [Asking EXCEPT ![t] = Asking'[t]]
        BY <1>7, AskingOfOthers DEF Put, Finish, Goto
      <4>2. Asking'[t] = Free
        BY <1>7 DEF Put, Finish, Goto, Asking
      <4>3. QED
        BY <4>1, <4>2
    <3>5. n # Free
      BY <3>1, <1>7
    <3>6. OnDemand!Load(t)
      BY <3>1, <3>2, <3>3, <3>4, <3>5 DEF OnDemand!Load, OnDemand!Done
    <3>7. QED
      BY <3>6 DEF OnDemand!Next
  <2>3. QED
    BY <2>1, <2>2
<1>8. CASE UNCHANGED vars
  BY <1>8 DEF vars, Asking, OnDemand!vars
<1>9. QED
  BY <1>1, <1>2, <1>5, <1>6, <1>7, <1>8 DEF Next, Call, Step

(* For the names no administrator touches, double-checked locking with all *)
(* its windows implements the loading that happens once and in one step.   *)
THEOREM Refinement == Spec => LoadsOnDemand
<1>1. IInv /\ IInv' /\ [Next]_vars => [OnDemand!Next]_(OnDemand!vars)
  BY StepRefines
<1>2. QED
  BY InitRefines, <1>1, Invariance, PTL DEF Spec, LoadsOnDemand, OnDemand!Spec

-----------------------------------------------------------------------------
(* Progress: EveryCallEnds without fairness.                               *)

(* Who waits for a monitor waits for a thread that is inside the block and *)
(* waits for nobody itself: no threads wait for one another, and when all  *)
(* calls are over no monitor stays locked.                                 *)
WaitersHaveWorkers ==
    /\ \A t \in Threads :
           pc[t] = "lock" /\ monitor[target[t]] # Free =>
               /\ monitor[target[t]] \in Threads \ {t}
               /\ pc[monitor[target[t]]] \in Critical
    /\ (\A t \in Threads : pc[t] = "idle") => \A n \in Names : monitor[n] = Free

(* The loads of DsUtil cannot deadlock.                                    *)
THEOREM NoDeadlock == Spec => []WaitersHaveWorkers
<1>1. ASSUME IInv PROVE WaitersHaveWorkers
  <2>1. \A n \in Names : monitor[n] \in Threads \cup {Free}
    BY <1>1 DEF IInv, TypeOK
  <2>2. ASSUME NEW n \in Names, monitor[n] # Free
        PROVE  monitor[n] \in Threads /\ pc[monitor[n]] \in Critical
    BY <1>1, <2>1, <2>2 DEF IInv, MonitorMatchesBlock
  <2>3. "lock" \notin Critical /\ "idle" \notin Critical
    BY DEF Critical
  <2>4. \A t \in Threads : target[t] \in Names
    BY <1>1 DEF IInv, TypeOK
  <2> QED
    BY <2>2, <2>3, <2>4 DEF WaitersHaveWorkers
<1> QED
  BY <1>1, Invariance, PTL

(* How many statements of DsUtil a call has before it at most.             *)
StepsLeft(t) ==
    CASE pc[t] = "idle"    -> 0
      [] pc[t] = "put"     -> 1
      [] pc[t] = "remove"  -> 2
      [] pc[t] = "lookup"  -> 3
      [] pc[t] = "create"  -> 4
      [] pc[t] = "query"   -> 5
      [] pc[t] = "recheck" -> 6
      [] pc[t] = "lock"    -> 7

(* A call only goes forward, whatever it finds in the map and whatever     *)
(* throws, and nobody else moves it.                                       *)
CallsRunDown ==
    \A t \in Threads :
        /\ pc[t] # "idle" => StepsLeft(t) > 0
        /\ Step(t) => StepsLeft(t)' < StepsLeft(t)
        /\ \A u \in Threads \ {t} : Step(u) \/ Call(u) => StepsLeft(t)' = StepsLeft(t)

(* A call of DsUtil is over after eight steps of its thread at most; only  *)
(* the first of the seven that follow its beginning can have to wait.      *)
THEOREM CallsTakeFewSteps == Spec => [][CallsRunDown]_vars
<1>1. ASSUME IInv PROVE CallsRunDown
  <2>1. TypeOK
    BY <1>1 DEF IInv
  <2>2. ASSUME NEW t \in Threads, pc[t] # "idle" PROVE StepsLeft(t) > 0
    BY <2>1, <2>2 DEF TypeOK, Locations, Critical, StepsLeft
  <2>3. ASSUME NEW t \in Threads, Step(t) PROVE StepsLeft(t)' < StepsLeft(t)
    <3>1. CASE EnterMonitor(t)
      BY <2>1, <3>1 DEF EnterMonitor, Goto, TypeOK, StepsLeft
    <3>2. CASE Recheck(t)
      BY <2>1, <3>2 DEF Recheck, Finish, Goto, TypeOK, StepsLeft
    <3>3. CASE Query(t)
      BY <2>1, <3>3 DEF Query, Finish, Goto, TypeOK, StepsLeft
    <3>4. CASE Create(t) \/ CreateThrows(t)
      BY <2>1, <3>4 DEF Create, CreateThrows, Finish, Goto, TypeOK, StepsLeft
    <3>5. CASE Lookup(t)
      BY <2>1, <3>5 DEF Lookup, AfterRemoval, Finish, Goto, TypeOK, StepsLeft
    <3>6. CASE Remove(t)
      BY <2>1, <3>6 DEF Remove, AfterRemoval, Finish, Goto, TypeOK, StepsLeft
    <3>7. CASE Put(t)
      BY <2>1, <3>7 DEF Put, Finish, Goto, TypeOK, StepsLeft
    <3> QED
      BY <2>3, <3>1, <3>2, <3>3, <3>4, <3>5, <3>6, <3>7 DEF Step
  <2>4. ASSUME NEW t \in Threads, NEW u \in Threads \ {t}, Step(u) \/ Call(u)
        PROVE  StepsLeft(t)' = StepsLeft(t)
    <3>1. pc'[t] = pc[t]
      BY <2>1, <2>4 DEF Step, Call, BeginCheck, BeginAdd, BeginRemove, Begin,
                        EnterMonitor, Recheck, Query, Create, CreateThrows, Lookup,
                        Remove, Put, AfterRemoval, Finish, Goto, TypeOK
    <3> QED
      BY <3>1 DEF StepsLeft
  <2> QED
    BY <2>2, <2>3, <2>4 DEF CallsRunDown
<1> QED
  BY <1>1, Invariance, PTL

-----------------------------------------------------------------------------
(* The registry as DsRouting has it.                                       *)

(* Seen by a thread that is not in DsUtil itself, of which DsRouting knows *)
(* the keys, the names that have a pool are all there is to see.  Which    *)
(* groups the names make is DsRouting's own: here no name has one.         *)
Routing == INSTANCE DsRouting WITH
    registered <- {n \in Names : Registered(n)}, groups <- {},
    Group <- [n \in Names |-> Free], NoGroup <- Free,
    stack <- [t \in Threads |-> << >>], scopes <- [t \in Threads |-> << >>],
    cleared <- [t \in Threads |-> 0], robbed <- [t \in Threads |-> FALSE],
    MaxDepth <- 0

(* What the map of pools goes through, loads and windows between removal   *)
(* and registration included, is what the routing reckons with: one name   *)
(* at a time comes or goes (Elsewhere), and never the primary one.         *)
RoutingReckonsWithIt == Routing!Spec

LEMMA RoutingInit == Init => Routing!Init
BY RegistryAssumption, InitIInv
   DEF Init, IInv, PrimaryRegistered, Registered, Routing!Init, Routing!GroupsOf

LEMMA RoutingStep ==
    ASSUME IInv, IInv', [Next]_vars
    PROVE  [Routing!Next]_(Routing!vars)
<1> DEFINE registered == {n \in Names : Registered(n)}
<1>1. TypeOK /\ TypeOK' /\ Registered(Primary) /\ Registered(Primary)'
  BY DEF IInv, PrimaryRegistered
<1>2. ASSUME registered' = registered PROVE UNCHANGED Routing!vars
  BY <1>2 DEF Routing!vars
<1>3. ASSUME NEW n \in Names, n # Primary,
             registered' = IF n \in registered THEN registered \ {n} ELSE registered \cup {n}
      PROVE  Routing!Next
  <2>1. Routing!Elsewhere(n)
    BY <1>3 DEF Routing!Elsewhere, Routing!Register, Routing!GroupsOf
  <2> QED
    BY <2>1 DEF Routing!Next
<1>4. ASSUME NEW n \in Names, NEW p \in Pool \cup {NoPool},
             registry' = [registry EXCEPT ![n] = p], n = Primary => p # NoPool
      PROVE  [Routing!Next]_(Routing!vars)
  <2>1. registered' = IF p = NoPool THEN registered \ {n} ELSE registered \cup {n}
    BY <1>1, <1>4 DEF TypeOK, Registered
  <2>2. CASE registered' = registered
    BY <1>2, <2>2
  <2>3. CASE registered' # registered
    <3>1. n # Primary
      BY <1>1, <1>4, <2>1, <2>3, RegistryAssumption
    <3>2. registered' = IF n \in registered THEN registered \ {n} ELSE registered \cup {n}
      BY <2>1, <2>3
    <3> QED
      BY <1>3, <3>1, <3>2
  <2> QED
    BY <2>2, <2>3
<1>5. ASSUME NEW t \in Threads, Remove(t) PROVE [Routing!Next]_(Routing!vars)
  <2>1. target[t] \in Names
    BY <1>1 DEF TypeOK
  <2>2. CASE target[t] = Primary
    BY <1>2, <1>5, <2>2 DEF Remove, RemoveDataSource, Registered
  <2>3. CASE target[t] # Primary
    BY <1>4, <1>5, <2>1, <2>3 DEF Remove, RemoveDataSource
  <2> QED
    BY <2>2, <2>3
<1>6. ASSUME NEW t \in Threads, Put(t) PROVE [Routing!Next]_(Routing!vars)
  <2>1. fresh[t] = OwnPool(t)
    BY <1>6 DEF Put, IInv, FreshIsOwn, Registering, OpFitsLocation
  <2>2. fresh[t] \in Pool /\ fresh[t] # NoPool /\ target[t] \in Names
    BY <1>1, <2>1, OwnPoolIsPool DEF TypeOK
  <2> QED
    BY <1>4, <1>6, <2>2 DEF Put, PutDataSource
<1>7. CASE UNCHANGED registry
  BY <1>2, <1>7 DEF Registered
<1> QED
  BY <1>5, <1>6, <1>7
     DEF Next, Call, Step, vars, BeginCheck, BeginAdd, BeginRemove, Begin,
         EnterMonitor, Recheck, Query, Create, CreateThrows, Lookup

(* What DsRouting assumes of the registry, that names come and go one by   *)
(* one and the primary one stays, is what DsRegistry does.                 *)
THEOREM RegistryFitsRouting == Spec => RoutingReckonsWithIt
<1>1. IInv /\ IInv' /\ [Next]_vars => [Routing!Next]_(Routing!vars)
  BY RoutingStep
<1> QED
  BY RoutingInit, <1>1, Invariance, PTL DEF Spec, RoutingReckonsWithIt, Routing!Spec

=============================================================================
