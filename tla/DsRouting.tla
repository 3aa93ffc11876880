------------------------------- MODULE DsRouting -------------------------------
(***************************************************************************)
(* Which data source the SQL of a thread reaches.                          *)
(*                                                                         *)
(* DynamicDataSourceContextHolder keeps a stack of keys per thread; the    *)
(* routing data source takes the top one, which may name a group of data   *)
(* sources as well as a single one.  A scope is a call that pushes a key   *)
(* and takes it off when it returns or throws.  Scopes nest as calls do,   *)
(* and requests follow one another on a pooled thread.  The kinds:         *)
(*   execute    DsUtil.execute(body, name)                                 *)
(*   annotated  @DS("name"): the interceptor pushes, DsCheckAspect checks  *)
(*   resolved   @DS("#header", "#session", "#spel"): the processor checks  *)
(*              before the interceptor pushes; a pair of switchDs and      *)
(*              exitDs() is the same                                       *)
(*   last       @DS("#last"): matching it clears the stack first           *)
(*                                                                         *)
(* The loading of a missing name is one step here: DsRegistry, which has   *)
(* all of its steps, implements that (LoadsOnDemand).  What other threads  *)
(* do to the registry meanwhile is the action Elsewhere.                   *)
(***************************************************************************)
EXTENDS Naturals, Sequences

CONSTANTS
    Threads,
    Names,           \* data source names
    Primary,         \* DataSourceProperties.primary
    Group,           \* what a name has before its first underscore, which
                     \* the library takes for the name of a group
    NoGroup,         \* for the names without an underscore
    MaxDepth         \* bound on the nesting of scopes

ASSUME RoutingAssumption ==
    /\ Primary \in Names
    /\ NoGroup \notin Names
    /\ Group \in [Names -> Names \cup {NoGroup}]
    /\ MaxDepth \in Nat

VARIABLES
    registered,   \* the names with a pool: dataSourceMap
    groups,       \* the groups there are: the keys of groupDataSources
    stack,        \* the keys of DynamicDataSourceContextHolder, the top last
    scopes,       \* the scopes a thread is inside of, the innermost last
    cleared,      \* how many of them lost their keys to a clear (auxiliary)
    robbed        \* one of them lost its key to a switch that failed inside
                  \* of it (auxiliary)

vars == <<registered, groups, stack, scopes, cleared, robbed>>

Kinds == {"execute", "annotated", "resolved", "last"}

(* A scope is at its dynamicCheckDataSource, and then in its body.         *)
Scope == [kind: Kinds, name: Names, at: {"check", "body"}]

(* The groups that the library makes for these names.                      *)
GroupsOf(names) == {Group[n] : n \in names} \ {NoGroup}

(* The variables have their types, no thread has more keys than scopes,    *)
(* and no registered name is without its group.                            *)
TypeOK ==
    /\ registered \subseteq Names
    /\ groups \subseteq Names
    /\ GroupsOf(registered) \subseteq groups
    /\ stack \in [Threads -> Seq(Names)]
    /\ scopes \in [Threads -> Seq(Scope)]
    /\ robbed \in [Threads -> BOOLEAN]
    /\ \A t \in Threads : cleared[t] \in 0..Len(scopes[t])
    /\ \A t \in Threads : Len(stack[t]) <= Len(scopes[t])

Init ==
    /\ registered = {Primary}
    /\ groups = GroupsOf({Primary})
    /\ stack = [t \in Threads |-> <<>>]
    /\ scopes = [t \in Threads |-> <<>>]
    /\ cleared = [t \in Threads |-> 0]
    /\ robbed = [t \in Threads |-> FALSE]

-----------------------------------------------------------------------------
(* DynamicDataSourceContextHolder and the lookup of the library.           *)

Top(s) == s[Len(s)]
Pop(s) == SubSeq(s, 1, Len(s) - 1)
Poll(s) == IF s = <<>> THEN s ELSE Pop(s)

(* DynamicRoutingDataSource.getDataSource, not strict: a group comes before*)
(* a data source of that name, and an unknown key means the primary.       *)
Members(group) == {n \in registered : Group[n] = group}

Lookup(key) ==
    IF key \in groups          THEN Members(key)
    ELSE IF key \in registered THEN {key}
    ELSE {Primary}

(* The data sources the next SQL of a thread may reach.  The strategy takes*)
(* one member of a group, and throws when the last one has been removed:   *)
(* a group stays, and the SQL then reaches nothing.                        *)
Routes(t) == IF stack[t] = <<>> THEN {Primary} ELSE Lookup(Top(stack[t]))

(* addDataSource of the library: a new name may come with a new group;     *)
(* removeDataSource takes the name out of its group and leaves the group.  *)
Register(names) ==
    /\ registered' = names
    /\ groups' = groups \cup GroupsOf(names)

(* Mutant: a scope ends with clearDs() instead of exitDs(dsName).          *)
ExitDsClears(s, name) == <<>>

(* exitDs(dsName): only if the current key is the one to leave.            *)
ExitDs(s, name) == IF s # <<>> /\ Top(s) = name THEN Pop(s) ELSE s

-----------------------------------------------------------------------------

(* The innermost scope is still at its check; or the thread runs a body,   *)
(* which is the code outside of all scopes when there is none.             *)
Checking(t) == scopes[t] # <<>> /\ Top(scopes[t]).at = "check"
InBody(t) == ~Checking(t)

(* The keys of a thread when a scope begins: #last clears them all, the    *)
(* interceptor of a literal key pushes before anything is checked.         *)
KeysOnEntry(kind, name, s) ==
    CASE kind = "last"      -> <<>>
      [] kind = "annotated" -> Append(s, name)
      [] OTHER              -> s

Enter(t, kind, name) ==
    /\ InBody(t)
    /\ Len(scopes[t]) < MaxDepth
    /\ scopes' = [scopes EXCEPT ![t] =
                     Append(@, [kind |-> kind, name |-> name, at |-> "check"])]
    /\ stack' = [stack EXCEPT ![t] = KeysOnEntry(kind, name, @)]
    /\ cleared' = [cleared EXCEPT ![t] =
                     IF kind = "last" THEN Len(scopes[t]) ELSE @]
    /\ robbed' = [robbed EXCEPT ![t] = @ /\ kind # "last"]
    /\ UNCHANGED <<registered, groups>>

(* Mutant: switchDs does not push a key that it could not load.            *)
CheckReturnsPushesLoaded(t) ==
    /\ Checking(t)
    /\ LET scope == Top(scopes[t]) IN
       /\ \E names \in {registered, registered \cup {scope.name}} : Register(names)
       /\ scopes' = [scopes EXCEPT ![t][Len(scopes[t])].at = "body"]
       /\ stack' = IF scope.kind = "annotated" \/ scope.name \notin registered'
                     THEN stack
                     ELSE [stack EXCEPT ![t] = Append(@, scope.name)]
    /\ UNCHANGED <<cleared, robbed>>

(* dynamicCheckDataSource returns: the name is there, it has just been     *)
(* loaded, or nothing was found.  All three go on: switchDs or the         *)
(* interceptor pushes the key, unless it is pushed already.                *)
CheckReturns(t) ==
    /\ Checking(t)
    /\ LET scope == Top(scopes[t]) IN
       /\ \E names \in {registered, registered \cup {scope.name}} : Register(names)
       /\ scopes' = [scopes EXCEPT ![t][Len(scopes[t])].at = "body"]
       /\ stack' = IF scope.kind = "annotated"
                     THEN stack
                     ELSE [stack EXCEPT ![t] = Append(@, scope.name)]
    /\ UNCHANGED <<cleared, robbed>>

(* Mutant: execute has no finally block.                                   *)
KeysOnExitForgotten(scope, s) ==
    IF scope.kind = "execute" THEN s ELSE Poll(s)

(* The finally block a scope leaves through, from whatever statement.      *)
KeysOnExit(scope, s) ==
    IF scope.kind = "execute" THEN ExitDs(s, scope.name) ELSE Poll(s)

(* The innermost scope ends, having taken the key of another one or not;   *)
(* outside of all scopes there is no key to miss.                          *)
DropScope(t, robs) ==
    /\ scopes' = [scopes EXCEPT ![t] = Pop(@)]
    /\ cleared' = [cleared EXCEPT ![t] = IF @ = Len(scopes[t]) THEN @ - 1 ELSE @]
    /\ robbed' = [robbed EXCEPT ![t] = (@ \/ robs) /\ Len(scopes[t]) # 1]

(* exitDs takes off a key although the scope has not pushed its own.       *)
Robs(scope, s) == scope.kind = "execute" /\ ExitDs(s, scope.name) # s

(* Mutant: switchDs pushes the key before it checks the data source.       *)
CheckThrowsAfterPush(t) ==
    /\ Checking(t)
    /\ LET scope == Top(scopes[t]) IN
       /\ scope.name \notin registered
       /\ stack' = [stack EXCEPT ![t] =
                       IF scope.kind \in {"execute", "annotated"}
                         THEN KeysOnExit(scope, @)
                         ELSE Append(@, scope.name)]
       /\ DropScope(t, Robs(scope, stack[t]))
    /\ UNCHANGED <<registered, groups>>

(* dynamicCheckDataSource throws: switchDs is inside the try of execute,   *)
(* a literal key is pushed by then, and the processors run before the try. *)
CheckThrows(t) ==
    /\ Checking(t)
    /\ LET scope == Top(scopes[t]) IN
       /\ scope.name \notin registered
       /\ stack' = [stack EXCEPT ![t] =
                       IF scope.kind \in {"execute", "annotated"}
                         THEN KeysOnExit(scope, @)
                         ELSE @]
       /\ DropScope(t, Robs(scope, stack[t]))
    /\ UNCHANGED <<registered, groups>>

(* The body returns or throws.                                             *)
Exit(t) ==
    /\ scopes[t] # <<>> /\ InBody(t)
    /\ stack' = [stack EXCEPT ![t] = KeysOnExit(Top(scopes[t]), @)]
    /\ DropScope(t, FALSE)
    /\ UNCHANGED <<registered, groups>>

(* clearDs() called from the body of a scope.                              *)
ClearDs(t) ==
    /\ InBody(t)
    /\ stack' = [stack EXCEPT ![t] = <<>>]
    /\ cleared' = [cleared EXCEPT ![t] = Len(scopes[t])]
    /\ robbed' = [robbed EXCEPT ![t] = FALSE]
    /\ UNCHANGED <<registered, groups, scopes>>

(* Another thread registers a name, removes it, or is between the removal  *)
(* and the registration of a replacement.                                  *)
Elsewhere(n) ==
    /\ n # Primary
    /\ Register(IF n \in registered THEN registered \ {n} ELSE registered \cup {n})
    /\ UNCHANGED <<stack, scopes, cleared, robbed>>

Next ==
    \/ \E t \in Threads :
           \/ \E kind \in Kinds, name \in Names : Enter(t, kind, name)
           \/ CheckReturns(t) \/ CheckThrows(t) \/ Exit(t) \/ ClearDs(t)
    \/ \E n \in Names : Elsewhere(n)

Spec == Init /\ [][Next]_vars

-----------------------------------------------------------------------------

(* The scopes that have their key on the stack: all but the cleared ones   *)
(* and the one that is still to push it.                                   *)
Pushed(t) ==
    Len(scopes[t]) - cleared[t]
      - (IF Checking(t) /\ Top(scopes[t]).kind # "annotated" THEN 1 ELSE 0)

(* The stack is the list of the scopes entered since the last clear, in    *)
(* order: entering and leaving scopes of any kinds in any nesting, whatever*)
(* throws, never drops, duplicates or reorders a key.  The one exception   *)
(* is a scope inside of which an execute of the same name has failed.      *)
StackMirrorsScopes ==
    \A t \in Threads : ~robbed[t] =>
        /\ Len(stack[t]) = Pushed(t)
        /\ \A i \in 1..Len(stack[t]) : stack[t][i] = scopes[t][cleared[t] + i].name

(* The data sources a key may mean: the one it names, the members of the   *)
(* group it names, and the primary one.                                    *)
Meant(key) == {key, Primary} \cup {n \in Names : Group[n] = key}

(* SQL in the body of a scope reaches what the name of that scope may mean:*)
(* its data source or a member of its group or, if there is neither or a   *)
(* clear went by, the primary one; never what an enclosing scope means.    *)
OwnOrPrimary ==
    \A t \in Threads : scopes[t] # <<>> /\ InBody(t) /\ ~robbed[t] =>
        Routes(t) \subseteq Meant(Top(scopes[t]).name)

(* A pooled thread takes no key of one request into the next one, whatever *)
(* failed on the way.                                                      *)
NothingLeftBehind ==
    \A t \in Threads : scopes[t] = <<>> => stack[t] = <<>>

(* SQL reaches the primary data source or what the name of a scope of this *)
(* very call stack may mean, whatever failed on the way.                   *)
RoutedByOwnScopes ==
    \A t \in Threads :
        Routes(t) \subseteq
            {Primary} \cup UNION {Meant(scopes[t][i].name) : i \in 1..Len(scopes[t])}

(* exitDs(dsName): "exit this switch of the data source ... a safe exit".  *)
(* A scope that ends before it has pushed its key takes no key away.       *)
ExitsOwnSwitchOnly ==
    [][\A t \in Threads :
          /\ Len(scopes'[t]) < Len(scopes[t])
          /\ Top(scopes[t]).at = "check" /\ Top(scopes[t]).kind # "annotated"
          => stack'[t] = stack[t]]_vars

=============================================================================
