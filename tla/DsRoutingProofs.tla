---------------------------- MODULE DsRoutingProofs ----------------------------
(***************************************************************************)
(* Proofs about DsRouting, for any number of threads, names and any depth. *)
(***************************************************************************)
EXTENDS DsRouting, SequenceTheorems, TLAPS

(* The typing of the variables, without the bound on the keys.             *)
Typed ==
    /\ registered \subseteq Names
    /\ groups \subseteq Names
    /\ GroupsOf(registered) \subseteq groups
    /\ stack \in [Threads -> Seq(Names)]
    /\ scopes \in [Threads -> Seq(Scope)]
    /\ cleared \in [Threads -> Nat]
    /\ robbed \in [Threads -> BOOLEAN]
    /\ \A t \in Threads : cleared[t] <= Len(scopes[t])

-----------------------------------------------------------------------------
(* The operators on sequences, as the provers need them.                   *)

(* What the top of a stack is and what popping it leaves.                  *)
LEMMA PopFacts ==
    ASSUME NEW S, NEW s \in Seq(S), s # <<>>
    PROVE  /\ Len(s) \in Nat \ {0}
           /\ Top(s) \in S
           /\ Pop(s) \in Seq(S)
           /\ Len(Pop(s)) = Len(s) - 1
           /\ \A i \in 1..(Len(s) - 1) : Pop(s)[i] = s[i]
<1>1. Len(s) \in Nat \ {0}
  BY EmptySeq
<1>2. \A i \in 1..Len(s) : s[i] \in S
  BY ElementOfSeq
<1>3. Top(s) \in S
  BY <1>1, <1>2 DEF Top
<1>4. /\ SubSeq(s, 1, Len(s) - 1) \in Seq(S)
      /\ Len(SubSeq(s, 1, Len(s) - 1)) = IF 1 <= Len(s) - 1 THEN Len(s) - 1 - 1 + 1 ELSE 0
      /\ \A i \in 1..(Len(s) - 1 - 1 + 1) : SubSeq(s, 1, Len(s) - 1)[i] = s[1 + i - 1]
  <2>1. \A i \in 1..(Len(s) - 1) : s[i] \in S
    BY <1>1, <1>2
  <2>2. 1 \in Int /\ Len(s) - 1 \in Int
    BY <1>1
  <2>3. QED
    BY <2>1, <2>2, SubSeqProperties
<1>5. Len(Pop(s)) = Len(s) - 1
  <2> DEFINE n == Len(s)
  <2>1. Len(Pop(s)) = IF 1 <= n - 1 THEN n - 1 - 1 + 1 ELSE 0
    BY <1>4 DEF Pop
  <2>2. n \in Nat \ {0}
    BY <1>1
  <2> HIDE DEF n
  <2>3. (IF 1 <= n - 1 THEN n - 1 - 1 + 1 ELSE 0) = n - 1
    BY <2>2
  <2>4. QED
    BY <2>1, <2>3 DEF n
<1>6. \A i \in 1..(Len(s) - 1) : Pop(s)[i] = s[i]
  BY <1>1, <1>4 DEF Pop
<1>7. QED
  BY <1>1, <1>3, <1>4, <1>5, <1>6 DEF Pop

(* A scope takes off one key or none.                                      *)
LEMMA KeysOnExitFacts ==
    ASSUME NEW s \in Seq(Names), NEW scope \in Scope
    PROVE  /\ KeysOnExit(scope, s) \in Seq(Names)
           /\ KeysOnExit(scope, s) = s \/ (s # <<>> /\ KeysOnExit(scope, s) = Pop(s))
BY PopFacts DEF KeysOnExit, ExitDs, Poll

-----------------------------------------------------------------------------
(* Typing.                                                                 *)

(* Registering names keeps the registry and its groups together, and so    *)
(* does leaving both alone.                                                *)
LEMMA RegisterFacts ==
    ASSUME Typed,
           \/ \E names \in SUBSET Names : Register(names)
           \/ UNCHANGED <<registered, groups>>
    PROVE  /\ registered' \subseteq Names
           /\ groups' \subseteq Names
           /\ GroupsOf(registered)' \subseteq groups'
<1>1. CASE UNCHANGED <<registered, groups>>
  BY <1>1 DEF Typed, GroupsOf
<1>2. ASSUME NEW names \in SUBSET Names, Register(names)
      PROVE  /\ registered' \subseteq Names
             /\ groups' \subseteq Names
             /\ GroupsOf(registered)' \subseteq groups'
  <2>1. GroupsOf(names) \subseteq Names
    BY <1>2, RoutingAssumption DEF GroupsOf
  <2>2. groups \subseteq Names
    BY DEF Typed
  <2>3. registered' = names /\ groups' = groups \cup GroupsOf(names)
    BY <1>2 DEF Register
  <2>4. GroupsOf(registered)' = GroupsOf(names)
    BY <2>3 DEF GroupsOf
  <2>5. QED
    BY <1>2, <2>1, <2>2, <2>3, <2>4
<1>3. QED
  BY <1>1, <1>2

LEMMA TypedStep == Typed /\ [Next]_vars => Typed'
<1> SUFFICES ASSUME Typed, [Next]_vars PROVE Typed'
  OBVIOUS
<1> USE RoutingAssumption DEF Typed
<1>0. \A t \in Threads : Len(scopes[t]) \in Nat
  BY LenProperties
<1>1. ASSUME NEW t \in Threads, NEW kind \in Kinds, NEW name \in Names,
             Enter(t, kind, name)
      PROVE  Typed'
  <2> DEFINE scope == [kind |-> kind, name |-> name, at |-> "check"]
  <2>1. scope \in Scope
    BY DEF Scope
  <2>2. /\ Append(scopes[t], scope) \in Seq(Scope)
        /\ Len(Append(scopes[t], scope)) = Len(scopes[t]) + 1
    BY <2>1, AppendProperties
  <2>3. KeysOnEntry(kind, name, stack[t]) \in Seq(Names)
    BY AppendProperties, EmptySeq DEF KeysOnEntry
  <2>4. scopes' \in [Threads -> Seq(Scope)] /\ stack' \in [Threads -> Seq(Names)]
    BY <1>1, <2>2, <2>3 DEF Enter
  <2>5. cleared' \in [Threads -> Nat]
    BY <1>1, <1>0 DEF Enter
  <2>6. ASSUME NEW u \in Threads PROVE cleared'[u] <= Len(scopes'[u])
    BY <1>1, <1>0, <2>2 DEF Enter
  <2>7. robbed' \in [Threads -> BOOLEAN]
    BY <1>1 DEF Enter
  <2>8. QED
    BY <1>1, <2>4, <2>5, <2>6, <2>7, RegisterFacts DEF Enter
<1>2. ASSUME NEW t \in Threads, CheckReturns(t) PROVE Typed'
  <2>1. scopes[t] # <<>> /\ Top(scopes[t]) \in Scope /\ Len(scopes[t]) \in 1..Len(scopes[t])
    BY <1>2, PopFacts DEF CheckReturns, Checking
  <2>2. Top(scopes[t]).name \in Names
    BY <2>1 DEF Scope
  <2> DEFINE body == [Top(scopes[t]) EXCEPT !.at = "body"]
  <2>3. body \in Scope
    BY <2>1 DEF Scope
  <2>4. /\ [scopes[t] EXCEPT ![Len(scopes[t])] = body] \in Seq(Scope)
        /\ Len([scopes[t] EXCEPT ![Len(scopes[t])] = body]) = Len(scopes[t])
    BY <2>1, <2>3, ExceptSeq
  <2>5. scopes' = [scopes EXCEPT ![t] = [scopes[t] EXCEPT ![Len(scopes[t])] = body]]
    BY <1>2 DEF CheckReturns, Top
  <2>6. scopes' \in [Threads -> Seq(Scope)] /\ \A u \in Threads : Len(scopes'[u]) = Len(scopes[u])
    BY <2>4, <2>5
  <2>7. Append(stack[t], Top(scopes[t]).name) \in Seq(Names)
    BY <2>2, AppendProperties
  <2>8. stack' \in [Threads -> Seq(Names)]
    BY <1>2, <2>2, <2>7 DEF CheckReturns
  <2>9. \E names \in SUBSET Names : Register(names)
    BY <1>2, <2>2 DEF CheckReturns
  <2>10. QED
    BY <1>2, <2>6, <2>8, <2>9, RegisterFacts DEF CheckReturns
<1>3. ASSUME NEW t \in Threads, scopes[t] # <<>>,
             NEW robs \in BOOLEAN, DropScope(t, robs)
      PROVE  /\ scopes' \in [Threads -> Seq(Scope)]
             /\ cleared' \in [Threads -> Nat]
             /\ \A u \in Threads : cleared'[u] <= Len(scopes'[u])
             /\ robbed' \in [Threads -> BOOLEAN]
  <2>1. /\ Pop(scopes[t]) \in Seq(Scope)
        /\ Len(Pop(scopes[t])) = Len(scopes[t]) - 1
        /\ Len(scopes[t]) \in Nat \ {0}
    BY <1>3, PopFacts
  <2>2. scopes' \in [Threads -> Seq(Scope)] /\ cleared' \in [Threads -> Nat]
    BY <1>3, <2>1 DEF DropScope
  <2>3. ASSUME NEW u \in Threads PROVE cleared'[u] <= Len(scopes'[u])
    BY <1>0, <1>3, <2>1 DEF DropScope
  <2>4. robbed' \in [Threads -> BOOLEAN]
    BY <1>3 DEF DropScope
  <2>5. QED
    BY <2>2, <2>3, <2>4
<1>4. ASSUME NEW t \in Threads, CheckThrows(t) \/ Exit(t) PROVE Typed'
  <2>1. scopes[t] # <<>>
    BY <1>4 DEF CheckThrows, Exit, Checking
  <2>2. PICK robs \in BOOLEAN : DropScope(t, robs) /\ UNCHANGED <<registered, groups>>
    BY <1>4 DEF CheckThrows, Exit, Robs
  <2>3. Top(scopes[t]) \in Scope
    BY <2>1, PopFacts
  <2>4. stack' \in [Threads -> Seq(Names)]
    <3>1. KeysOnExit(Top(scopes[t]), stack[t]) \in Seq(Names)
      BY <2>3, KeysOnExitFacts
    <3>2. \/ stack' = [stack EXCEPT ![t] = KeysOnExit(Top(scopes[t]), @)]
          \/ stack' = [stack EXCEPT ![t] = @]
      BY <1>4 DEF CheckThrows, Exit
    <3>3. QED
      BY <3>1, <3>2
  <2>5. QED
    BY <1>3, <2>1, <2>2, <2>4, RegisterFacts
<1>5. ASSUME NEW t \in Threads, ClearDs(t) PROVE Typed'
  BY <1>0, <1>5, EmptySeq, RegisterFacts DEF ClearDs
<1>6. ASSUME NEW n \in Names, Elsewhere(n) PROVE Typed'
  <2>1. \E names \in SUBSET Names : Register(names)
    BY <1>6 DEF Elsewhere
  <2>2. QED
    BY <1>6, <2>1, RegisterFacts DEF Elsewhere
<1>7. CASE UNCHANGED vars
  BY <1>7, RegisterFacts DEF vars
<1>8. QED
  BY <1>1, <1>2, <1>4, <1>5, <1>6, <1>7 DEF Next

-----------------------------------------------------------------------------
(* The stack mirrors the scopes of a thread that was not robbed of a key:  *)
(* when loading throws inside execute, exitDs runs for a switch that was   *)
(* never made.                                                             *)

(* What is to be known of one thread: its keys, scopes, cleared scopes.    *)
Waiting(sc) == sc # <<>> /\ Top(sc).at = "check" /\ Top(sc).kind # "annotated"

Mirrors(s, sc, c) ==
    /\ Len(s) = Len(sc) - c - (IF Waiting(sc) THEN 1 ELSE 0)
    /\ \A i \in 1..Len(s) : s[i] = sc[c + i].name
    /\ \A i \in 1..Len(sc) : i # Len(sc) => sc[i].at = "body"

MirrorInv == \A t \in Threads : ~robbed[t] => Mirrors(stack[t], scopes[t], cleared[t])

(* Leaving the innermost scope when its key is pushed, or was cleared.     *)
LEMMA MirrorsExit ==
    ASSUME NEW s \in Seq(Names), NEW sc \in Seq(Scope), NEW c \in Nat,
           c <= Len(sc), sc # <<>>, ~Waiting(sc), Mirrors(s, sc, c)
    PROVE  Mirrors(KeysOnExit(Top(sc), s), Pop(sc), IF c = Len(sc) THEN c - 1 ELSE c)
<1>1. /\ Len(sc) \in Nat \ {0}
      /\ Pop(sc) \in Seq(Scope)
      /\ Len(Pop(sc)) = Len(sc) - 1
      /\ \A i \in 1..(Len(sc) - 1) : Pop(sc)[i] = sc[i]
  BY PopFacts
<1>2. ~Waiting(Pop(sc))
  <2>1. ASSUME Pop(sc) # <<>> PROVE Top(Pop(sc)).at = "body"
    <3>1. Len(Pop(sc)) \in Nat \ {0}
      BY <1>1, <2>1, EmptySeq
    <3>2. Top(Pop(sc)) = sc[Len(sc) - 1]
      BY <1>1, <3>1 DEF Top
    <3>3. Len(sc) - 1 \in 1..Len(sc) /\ Len(sc) - 1 # Len(sc)
      BY <1>1, <3>1
    <3>4. sc[Len(sc) - 1].at = "body"
      BY <3>3 DEF Mirrors
    <3>5. QED
      BY <3>2, <3>4
  <2>2. QED
    BY <2>1 DEF Waiting
<1>3. Len(s) = Len(sc) - c
  BY <1>1 DEF Mirrors
<1>4. \A i \in 1..Len(Pop(sc)) : i # Len(Pop(sc)) => Pop(sc)[i].at = "body"
  BY <1>1 DEF Mirrors
<1>5. CASE c = Len(sc)
  <2>1. s = <<>>
    BY <1>1, <1>3, <1>5, EmptySeq
  <2>2. KeysOnExit(Top(sc), s) = <<>> /\ Len(<<>>) = 0
    BY <2>1, EmptySeq DEF KeysOnExit, ExitDs, Poll
  <2>3. Len(Pop(sc)) - (c - 1) - 0 = 0
    BY <1>1, <1>5
  <2>4. \A i \in 1..Len(<<>>) : <<>>[i] = Pop(sc)[c - 1 + i].name
    BY <2>2
  <2>5. Mirrors(<<>>, Pop(sc), c - 1)
    BY <1>2, <1>4, <2>2, <2>3, <2>4 DEF Mirrors
  <2>6. QED
    BY <1>5, <2>2, <2>5
<1>6. CASE c # Len(sc)
  <2>1. c < Len(sc) /\ Len(s) \in Nat \ {0}
    BY <1>1, <1>3, <1>6
  <2>2. s # <<>>
    BY <2>1, EmptySeq
  <2>3. Top(s) = Top(sc).name
    BY <1>1, <1>3, <2>1 DEF Top, Mirrors
  <2>4. KeysOnExit(Top(sc), s) = Pop(s)
    BY <2>2, <2>3 DEF KeysOnExit, ExitDs, Poll
  <2>5. /\ Len(Pop(s)) = Len(s) - 1
        /\ \A i \in 1..(Len(s) - 1) : Pop(s)[i] = s[i]
    BY <2>2, PopFacts
  <2>6. Len(Pop(s)) = Len(Pop(sc)) - c
    BY <1>1, <1>3, <2>1, <2>5
  <2>7. ASSUME NEW i \in 1..Len(Pop(s)) PROVE Pop(s)[i] = Pop(sc)[c + i].name
    <3>1. i \in 1..(Len(s) - 1) /\ i \in 1..Len(s) /\ c + i \in 1..(Len(sc) - 1)
      BY <1>1, <1>3, <2>1, <2>5, <2>7
    <3>2. QED
      BY <1>1, <2>5, <3>1 DEF Mirrors
  <2>8. QED
    BY <1>2, <1>4, <1>6, <2>4, <2>6, <2>7 DEF Mirrors
<1>7. QED
  BY <1>5, <1>6

(* A scope that has not pushed its key leaves without touching the stack.  *)
LEMMA MirrorsAbandon ==
    ASSUME NEW s \in Seq(Names), NEW sc \in Seq(Scope), NEW c \in Nat,
           c <= Len(sc), Waiting(sc), Mirrors(s, sc, c)
    PROVE  c # Len(sc) /\ Mirrors(s, Pop(sc), c)
<1>1. /\ Len(sc) \in Nat \ {0}
      /\ Pop(sc) \in Seq(Scope)
      /\ Len(Pop(sc)) = Len(sc) - 1
      /\ \A i \in 1..(Len(sc) - 1) : Pop(sc)[i] = sc[i]
  BY PopFacts DEF Waiting
<1>2. Len(s) = Len(sc) - c - 1 /\ Len(s) \in Nat
  BY <1>1, LenProperties DEF Mirrors
<1>3. ~Waiting(Pop(sc))
  <2>1. ASSUME Pop(sc) # <<>> PROVE Top(Pop(sc)).at = "body"
    <3>1. Len(Pop(sc)) \in Nat \ {0}
      BY <1>1, <2>1, EmptySeq
    <3>2. Top(Pop(sc)) = sc[Len(sc) - 1]
      BY <1>1, <3>1 DEF Top
    <3>3. Len(sc) - 1 \in 1..Len(sc) /\ Len(sc) - 1 # Len(sc)
      BY <1>1, <3>1
    <3>4. QED
      BY <3>2, <3>3 DEF Mirrors
  <2>2. QED
    BY <2>1 DEF Waiting
<1>4. Len(s) = Len(Pop(sc)) - c - 0
  BY <1>1, <1>2
<1>5. ASSUME NEW i \in 1..Len(s) PROVE s[i] = Pop(sc)[c + i].name
  <2>1. c + i \in 1..(Len(sc) - 1)
    BY <1>1, <1>2, <1>5
  <2>2. QED
    BY <1>1, <1>5, <2>1 DEF Mirrors
<1>6. ASSUME NEW i \in 1..Len(Pop(sc)) PROVE Pop(sc)[i].at = "body"
  <2>1. i \in 1..(Len(sc) - 1) /\ i \in 1..Len(sc) /\ i # Len(sc)
    BY <1>1, <1>6
  <2>2. QED
    BY <1>1, <2>1 DEF Mirrors
<1>7. c # Len(sc)
  BY <1>1, <1>2
<1>8. QED
  BY <1>3, <1>4, <1>5, <1>6, <1>7 DEF Mirrors

(* A new scope waits for its check, or has pushed its key.                 *)
LEMMA MirrorsEnter ==
    ASSUME NEW s \in Seq(Names), NEW sc \in Seq(Scope), NEW c \in Nat,
           c <= Len(sc), ~(sc # <<>> /\ Top(sc).at = "check"), Mirrors(s, sc, c),
           NEW kind \in Kinds, NEW name \in Names
    PROVE  Mirrors(KeysOnEntry(kind, name, s),
                   Append(sc, [kind |-> kind, name |-> name, at |-> "check"]),
                   IF kind = "last" THEN Len(sc) ELSE c)
<1> DEFINE scope == [kind |-> kind, name |-> name, at |-> "check"]
           more == Append(sc, scope)
<1>1. Len(s) \in Nat /\ Len(sc) \in Nat
  BY LenProperties
<1>2. /\ Len(more) = Len(sc) + 1
      /\ \A i \in 1..Len(sc) : more[i] = sc[i]
      /\ more[Len(sc) + 1] = scope
      /\ more # <<>>
  <2>1. scope \in Scope
    BY DEF Scope
  <2>2. QED
    BY <2>1, AppendProperties
<1>3. Waiting(more) <=> kind # "annotated"
  BY <1>1, <1>2 DEF Waiting, Top
<1>4. \A i \in 1..Len(more) : i # Len(more) => more[i].at = "body"
  <2>1. \A i \in 1..Len(sc) : sc[i].at = "body"
    <3>1. sc # <<>> => Top(sc).at = "body"
      <4>1. sc # <<>> => Top(sc) \in Scope
        BY PopFacts
      <4>2. QED
        BY <4>1 DEF Scope
    <3>2. ASSUME NEW i \in 1..Len(sc) PROVE sc # <<>>
      BY <3>2, EmptySeq
    <3>3. QED
      BY <3>1, <3>2 DEF Mirrors, Top
  <2>2. QED
    BY <1>1, <1>2, <2>1
<1>5. Len(s) = Len(sc) - c
  BY <1>1 DEF Mirrors, Waiting
<1>6. CASE kind = "last"
  <2>1. KeysOnEntry(kind, name, s) = <<>> /\ Len(<<>>) = 0
    BY <1>6, EmptySeq DEF KeysOnEntry
  <2>2. 0 = Len(more) - Len(sc) - 1
    BY <1>1, <1>2
  <2>3. \A i \in 1..Len(<<>>) : <<>>[i] = more[Len(sc) + i].name
    BY <2>1
  <2>4. QED
    BY <1>3, <1>4, <1>6, <2>1, <2>2, <2>3 DEF Mirrors
<1>7. CASE kind = "annotated"
  <2>1. KeysOnEntry(kind, name, s) = Append(s, name)
    BY <1>7 DEF KeysOnEntry
  <2>2. /\ Len(Append(s, name)) = Len(s) + 1
        /\ \A i \in 1..Len(s) : Append(s, name)[i] = s[i]
        /\ Append(s, name)[Len(s) + 1] = name
    BY AppendProperties
  <2>3. Len(Append(s, name)) = Len(more) - c - 0
    BY <1>1, <1>2, <1>5, <2>2
  <2>4. ASSUME NEW i \in 1..Len(Append(s, name))
        PROVE  Append(s, name)[i] = more[c + i].name
    <3>1. CASE i = Len(s) + 1
      <4>1. c + i = Len(sc) + 1
        BY <1>1, <1>5, <3>1
      <4>2. QED
        BY <1>2, <2>2, <3>1, <4>1
    <3>2. CASE i # Len(s) + 1
      <4>1. i \in 1..Len(s) /\ c + i \in 1..Len(sc)
        BY <1>1, <1>5, <2>2, <3>2
      <4>2. s[i] = sc[c + i].name
        BY <4>1 DEF Mirrors
      <4>3. QED
        BY <1>2, <2>2, <4>1, <4>2
    <3>3. QED
      BY <3>1, <3>2
  <2>5. QED
    BY <1>3, <1>4, <1>7, <2>1, <2>3, <2>4 DEF Mirrors
<1>8. CASE kind \in {"execute", "resolved"}
  <2>1. KeysOnEntry(kind, name, s) = s
    BY <1>8 DEF KeysOnEntry
  <2>2. Len(s) = Len(more) - c - 1
    BY <1>1, <1>2, <1>5
  <2>3. ASSUME NEW i \in 1..Len(s) PROVE s[i] = more[c + i].name
    <3>1. c + i \in 1..Len(sc)
      BY <1>1, <1>5, <2>3
    <3>2. QED
      BY <1>2, <2>3, <3>1 DEF Mirrors
  <2>4. QED
    BY <1>3, <1>4, <1>8, <2>1, <2>2, <2>3 DEF Mirrors
<1>9. QED
  BY <1>6, <1>7, <1>8 DEF Kinds

(* The check of the innermost scope returns and its key is pushed.         *)
LEMMA MirrorsPush ==
    ASSUME NEW s \in Seq(Names), NEW sc \in Seq(Scope), NEW c \in Nat,
           c <= Len(sc), sc # <<>>, Top(sc).at = "check", Mirrors(s, sc, c)
    PROVE  Mirrors(IF Top(sc).kind = "annotated" THEN s ELSE Append(s, Top(sc).name),
                   [sc EXCEPT ![Len(sc)].at = "body"], c)
<1> DEFINE body == [sc[Len(sc)] EXCEPT !.at = "body"]
           next == [sc EXCEPT ![Len(sc)] = body]
<1>1. Len(s) \in Nat /\ Len(sc) \in Nat \ {0} /\ Top(sc) \in Scope
  BY LenProperties, PopFacts
<1>2. body \in Scope /\ body.at = "body" /\ body.name = Top(sc).name
  BY <1>1 DEF Scope, Top
<1>3. /\ Len(next) = Len(sc)
      /\ \A j \in 1..Len(sc) : next[j] = IF j = Len(sc) THEN body ELSE sc[j]
  <2>1. Len(sc) \in 1..Len(sc)
    BY <1>1
  <2>2. QED
    BY <1>2, <2>1, ExceptSeq
<1>4. \A i \in 1..Len(sc) : next[i].name = sc[i].name /\ next[i].at = "body"
  BY <1>2, <1>3 DEF Mirrors, Top
<1>5. ~Waiting(next)
  BY <1>1, <1>3, <1>4 DEF Waiting, Top
<1>6. CASE Top(sc).kind = "annotated"
  <2>1. Len(s) = Len(sc) - c
    BY <1>1, <1>6 DEF Mirrors, Waiting
  <2>2. Len(s) = Len(next) - c - 0
    BY <1>1, <1>3, <2>1
  <2>3. ASSUME NEW i \in 1..Len(s) PROVE s[i] = next[c + i].name
    <3>1. c + i \in 1..Len(sc)
      BY <1>1, <2>1, <2>3
    <3>2. QED
      BY <1>4, <2>3, <3>1 DEF Mirrors
  <2>4. QED
    BY <1>3, <1>4, <1>5, <1>6, <2>2, <2>3 DEF Mirrors
<1>7. CASE Top(sc).kind # "annotated"
  <2> DEFINE more == Append(s, Top(sc).name)
  <2>1. Len(s) = Len(sc) - c - 1
    BY <1>1, <1>7 DEF Mirrors, Waiting
  <2>2. /\ Len(more) = Len(s) + 1
        /\ \A i \in 1..Len(s) : more[i] = s[i]
        /\ more[Len(s) + 1] = Top(sc).name
    <3>1. Top(sc).name \in Names
      BY <1>1 DEF Scope
    <3>2. QED
      BY <3>1, AppendProperties
  <2>3. Len(more) = Len(next) - c - 0
    BY <1>1, <1>3, <2>1, <2>2
  <2>4. ASSUME NEW i \in 1..Len(more) PROVE more[i] = next[c + i].name
    <3>1. CASE i = Len(s) + 1
      <4>1. c + i = Len(sc)
        BY <1>1, <2>1, <3>1
      <4>2. QED
        BY <1>1, <1>4, <2>2, <3>1, <4>1 DEF Top
    <3>2. CASE i # Len(s) + 1
      <4>0. i \in 1..(Len(s) + 1)
        BY <2>2, <2>4
      <4>1. i \in 1..Len(s) /\ c + i \in 1..Len(sc)
        BY <1>1, <2>1, <3>2, <4>0
      <4>2. s[i] = sc[c + i].name
        BY <4>1 DEF Mirrors
      <4>3. QED
        BY <1>4, <2>2, <4>1, <4>2
    <3>3. QED
      BY <3>1, <3>2
  <2>5. QED
    BY <1>3, <1>4, <1>5, <1>7, <2>3, <2>4 DEF Mirrors
<1>8. QED
  BY <1>6, <1>7

(* A clear leaves no key, and counts all the scopes as cleared.            *)
LEMMA MirrorsClear ==
    ASSUME NEW sc \in Seq(Scope),
           ~Waiting(sc), \A i \in 1..Len(sc) : i # Len(sc) => sc[i].at = "body"
    PROVE  Mirrors(<<>>, sc, Len(sc))
<1>1. Len(sc) \in Nat /\ Len(<<>>) = 0
  BY LenProperties, EmptySeq
<1>2. PICK n \in Nat : n = Len(sc)
  BY <1>1
<1>3. Len(sc) - n - 0 = 0
  BY <1>1, <1>2
<1>4. \A i \in 1..Len(<<>>) : <<>>[i] = sc[n + i].name
  BY <1>1
<1>5. Mirrors(<<>>, sc, n)
  BY <1>1, <1>3, <1>4 DEF Mirrors
<1>6. QED
  BY <1>2, <1>5

LEMMA InitTyped == Init => Typed
<1>1. <<>> \in Seq(Names) /\ <<>> \in Seq(Scope) /\ Len(<<>>) = 0
  BY EmptySeq
<1>2. ASSUME Init PROVE groups \subseteq Names /\ GroupsOf(registered) \subseteq groups
  BY <1>2, RoutingAssumption DEF Init, GroupsOf
<1>3. ASSUME Init
      PROVE  /\ registered \subseteq Names /\ stack \in [Threads -> Seq(Names)]
             /\ scopes \in [Threads -> Seq(Scope)] /\ cleared \in [Threads -> Nat]
             /\ robbed \in [Threads -> BOOLEAN]
             /\ \A t \in Threads : cleared[t] <= Len(scopes[t])
  BY <1>1, <1>3, RoutingAssumption DEF Init
<1>4. QED
  BY <1>2, <1>3 DEF Typed

(* The types of the keys and the scopes, whatever fails.                   *)
THEOREM TypesHold == Spec => []Typed
<1>1. Typed /\ [Next]_vars => Typed'
  BY TypedStep
<1>2. QED
  BY InitTyped, <1>1, PTL DEF Spec

-----------------------------------------------------------------------------
(* Whatever fails, the keys of a thread are keys of its scopes, in order.  *)
(* A failed execute takes the key of an outer scope with it, so a key is   *)
(* no longer at the place of its scope: what remains is an embedding of    *)
(* the keys s into the first r scopes of sc.                               *)

Embedding(e, s, sc, r) ==
    /\ e \in [1..Len(s) -> 1..r]
    /\ \A i \in 1..Len(s) : i <= e[i] /\ s[i] = sc[e[i]].name
    /\ \A i, j \in 1..Len(s) : i < j => e[i] < e[j]

Embeds(s, sc, r) == \E e : Embedding(e, s, sc, r)

(* The scopes that may have a key: all but one that is waiting to push it. *)
Reach(sc) == Len(sc) - (IF Waiting(sc) THEN 1 ELSE 0)

OwnKeys(s, sc) ==
    /\ Embeds(s, sc, Reach(sc))
    /\ \A i \in 1..Len(sc) : i # Len(sc) => sc[i].at = "body"

EmbedInv == \A t \in Threads : OwnKeys(stack[t], scopes[t])

(* No key at all embeds anywhere.                                          *)
LEMMA EmbedsNothing ==
    ASSUME NEW sc, NEW r
    PROVE  Embeds(<<>>, sc, r)
<1>1. Len(<<>>) = 0
  BY EmptySeq
<1> DEFINE e == [i \in 1..Len(<<>>) |-> r]
<1>2. Embedding(e, <<>>, sc, r)
  BY <1>1 DEF Embedding
<1>3. QED
  BY <1>2, Zenon DEF Embeds

(* There are no more keys than scopes.                                     *)
LEMMA EmbedsLength ==
    ASSUME NEW s \in Seq(Names), NEW sc, NEW r \in Nat, Embeds(s, sc, r)
    PROVE  Len(s) <= r
<1>1. Len(s) \in Nat
  BY LenProperties
<1>2. PICK e : Embedding(e, s, sc, r)
  BY DEF Embeds
<1>3. CASE Len(s) = 0
  BY <1>3
<1>4. CASE Len(s) # 0
  <2>1. Len(s) \in 1..Len(s)
    BY <1>1, <1>4
  <2>2. Len(s) <= e[Len(s)] /\ e[Len(s)] \in 1..r
    BY <1>2, <2>1 DEF Embedding
  <2>3. QED
    BY <1>1, <2>2
<1>5. QED
  BY <1>3, <1>4

(* Taking the last key off frees the last of the scopes.                   *)
LEMMA EmbedsPop ==
    ASSUME NEW s \in Seq(Names), s # <<>>, NEW sc, NEW r \in Nat, Embeds(s, sc, r)
    PROVE  r - 1 \in Nat /\ Embeds(Pop(s), sc, r - 1)
<1>1. PICK e : Embedding(e, s, sc, r)
  BY DEF Embeds
<1>2. /\ Len(s) \in Nat \ {0}
      /\ Len(Pop(s)) = Len(s) - 1
      /\ \A i \in 1..(Len(s) - 1) : Pop(s)[i] = s[i]
  BY PopFacts
<1> DEFINE f == [i \in 1..Len(Pop(s)) |-> e[i]]
<1>3. \A i \in 1..(Len(s) - 1) : i \in 1..Len(s) /\ i < Len(s)
  BY <1>2
<1>4. Len(s) \in 1..Len(s) /\ e[Len(s)] \in 1..r
  BY <1>1, <1>2 DEF Embedding
<1>5. ASSUME NEW i \in 1..(Len(s) - 1) PROVE e[i] \in 1..(r - 1)
  <2>1. e[i] < e[Len(s)] /\ e[i] \in 1..r
    BY <1>1, <1>3, <1>4, <1>5 DEF Embedding
  <2>2. QED
    BY <1>4, <2>1
<1>6. f \in [1..Len(Pop(s)) -> 1..(r - 1)]
  BY <1>2, <1>5
<1>7. Embedding(f, Pop(s), sc, r - 1)
  BY <1>1, <1>2, <1>3, <1>6 DEF Embedding
<1>8. r - 1 \in Nat
  BY <1>4
<1>9. QED
  BY <1>7, <1>8, Zenon DEF Embeds

(* If the last key is not the one of the last scope, that scope is free.   *)
LEMMA EmbedsMiss ==
    ASSUME NEW s \in Seq(Names), NEW sc, NEW r \in Nat \ {0}, Embeds(s, sc, r),
           s # <<>> => Top(s) # sc[r].name
    PROVE  Embeds(s, sc, r - 1)
<1>1. CASE s = <<>>
  BY <1>1, EmbedsNothing
<1>2. CASE s # <<>>
  <2>1. PICK e : Embedding(e, s, sc, r)
    BY DEF Embeds
  <2>2. Len(s) \in Nat \ {0} /\ Len(s) \in 1..Len(s)
    BY <1>2, EmptySeq
  <2>3. e[Len(s)] \in 1..r /\ e[Len(s)] # r
    BY <1>2, <2>1, <2>2 DEF Embedding, Top
  <2>4. ASSUME NEW i \in 1..Len(s) PROVE e[i] \in 1..(r - 1)
    <3>1. CASE i = Len(s)
      BY <2>3, <3>1
    <3>2. CASE i # Len(s)
      <4>1. i < Len(s)
        BY <2>2, <2>4, <3>2
      <4>2. e[i] < e[Len(s)] /\ e[i] \in 1..r
        BY <2>1, <2>2, <2>4, <4>1 DEF Embedding
      <4>3. QED
        BY <2>3, <4>2
    <3>3. QED
      BY <3>1, <3>2
  <2>5. Embedding(e, s, sc, r - 1)
    BY <2>1, <2>4 DEF Embedding
  <2>6. QED
    BY <2>5, Zenon DEF Embeds
<1>3. QED
  BY <1>1, <1>2

(* Pushing the key of the next scope.                                      *)
LEMMA EmbedsPush ==
    ASSUME NEW s \in Seq(Names), NEW sc, NEW r \in Nat, Embeds(s, sc, r),
           NEW name \in Names, sc[r + 1].name = name
    PROVE  Embeds(Append(s, name), sc, r + 1)
<1>1. PICK e : Embedding(e, s, sc, r)
  BY DEF Embeds
<1> DEFINE more == Append(s, name)
<1>2. Len(s) \in Nat /\ Len(s) <= r
  BY LenProperties, EmbedsLength
<1>3. /\ Len(more) = Len(s) + 1
      /\ \A i \in 1..Len(s) : more[i] = s[i]
      /\ more[Len(s) + 1] = name
  BY AppendProperties
<1> DEFINE f == [i \in 1..Len(more) |-> IF i = Len(s) + 1 THEN r + 1 ELSE e[i]]
<1> HIDE DEF more
<1>4. ASSUME NEW i \in 1..(Len(s) + 1), i # Len(s) + 1
      PROVE  i \in 1..Len(s) /\ e[i] \in 1..r
  <2>1. i \in 1..Len(s)
    BY <1>2, <1>4
  <2>2. QED
    BY <1>1, <2>1 DEF Embedding
<1>5. f \in [1..Len(more) -> 1..(r + 1)]
  BY <1>2, <1>3, <1>4
<1>6. ASSUME NEW i \in 1..Len(more)
      PROVE  i <= f[i] /\ more[i] = sc[f[i]].name
  <2>1. CASE i = Len(s) + 1
    BY <1>2, <1>3, <1>6, <2>1
  <2>2. CASE i # Len(s) + 1
    <3>1. i \in 1..Len(s) /\ f[i] = e[i]
      BY <1>3, <1>4, <1>6, <2>2
    <3>2. i <= e[i] /\ s[i] = sc[e[i]].name
      BY <1>1, <3>1 DEF Embedding
    <3>3. QED
      BY <1>3, <3>1, <3>2
  <2>3. QED
    BY <2>1, <2>2
<1>7. ASSUME NEW i \in 1..Len(more), NEW j \in 1..Len(more), i < j
      PROVE  f[i] < f[j]
  <2>1. i \in 1..Len(s) /\ f[i] = e[i] /\ e[i] \in 1..r
    <3>1. i \in 1..(Len(s) + 1) /\ i # Len(s) + 1
      BY <1>2, <1>3, <1>7
    <3>2. QED
      BY <1>4, <1>7, <3>1
  <2>2. CASE j = Len(s) + 1
    BY <1>7, <2>1, <2>2
  <2>3. CASE j # Len(s) + 1
    <3>1. j \in 1..Len(s) /\ f[j] = e[j]
      BY <1>3, <1>4, <1>7, <2>3
    <3>2. QED
      BY <1>1, <1>7, <2>1, <3>1 DEF Embedding
  <2>4. QED
    BY <2>2, <2>3
<1>8. Embedding(f, more, sc, r + 1)
  BY <1>5, <1>6, <1>7 DEF Embedding
<1>9. QED
  BY <1>8, Zenon DEF Embeds, more

(* Only the names of the scopes in reach matter.                           *)
LEMMA EmbedsRenamed ==
    ASSUME NEW s \in Seq(Names), NEW sc, NEW other, NEW r \in Nat, Embeds(s, sc, r),
           \A i \in 1..r : other[i].name = sc[i].name
    PROVE  Embeds(s, other, r)
<1>1. PICK e : Embedding(e, s, sc, r)
  BY DEF Embeds
<1>2. Embedding(e, s, other, r)
  BY <1>1 DEF Embedding
<1>3. QED
  BY <1>2, Zenon DEF Embeds

(* There is room for the keys of fewer scopes among those of more.         *)
LEMMA EmbedsWider ==
    ASSUME NEW s \in Seq(Names), NEW sc, NEW r \in Nat, r - 1 \in Nat,
           Embeds(s, sc, r - 1)
    PROVE  Embeds(s, sc, r)
<1>1. PICK e : Embedding(e, s, sc, r - 1)
  BY DEF Embeds
<1>2. 1..(r - 1) \subseteq 1..r
  OBVIOUS
<1>3. Embedding(e, s, sc, r)
  BY <1>1, <1>2 DEF Embedding
<1>4. QED
  BY <1>3, Zenon DEF Embeds

(* What is left when the innermost scope is dropped.                       *)
LEMMA DropFacts ==
    ASSUME NEW sc \in Seq(Scope), sc # <<>>,
           \A i \in 1..Len(sc) : i # Len(sc) => sc[i].at = "body"
    PROVE  /\ Len(sc) \in Nat \ {0}
           /\ Reach(Pop(sc)) = Len(sc) - 1
           /\ \A i \in 1..(Len(sc) - 1) : Pop(sc)[i] = sc[i]
           /\ \A i \in 1..Len(Pop(sc)) : Pop(sc)[i].at = "body"
<1>1. /\ Len(sc) \in Nat \ {0}
      /\ Pop(sc) \in Seq(Scope)
      /\ Len(Pop(sc)) = Len(sc) - 1
      /\ \A i \in 1..(Len(sc) - 1) : Pop(sc)[i] = sc[i]
  BY PopFacts
<1>2. ASSUME NEW i \in 1..Len(Pop(sc)) PROVE Pop(sc)[i].at = "body"
  <2>1. i \in 1..(Len(sc) - 1) /\ i \in 1..Len(sc) /\ i # Len(sc)
    BY <1>1, <1>2
  <2>2. QED
    BY <1>1, <2>1
<1>3. ~Waiting(Pop(sc))
  <2>1. ASSUME Pop(sc) # <<>> PROVE Top(Pop(sc)).at = "body"
    <3>1. Len(Pop(sc)) \in 1..Len(Pop(sc))
      BY <1>1, <2>1, EmptySeq
    <3>2. QED
      BY <1>2, <3>1 DEF Top
  <2>2. QED
    BY <2>1 DEF Waiting
<1>4. QED
  BY <1>1, <1>2, <1>3 DEF Reach

(* The innermost scope runs its finally block, with or without a key of    *)
(* its own on the stack.                                                   *)
LEMMA OwnKeysExit ==
    ASSUME NEW s \in Seq(Names), NEW sc \in Seq(Scope), sc # <<>>, OwnKeys(s, sc)
    PROVE  OwnKeys(KeysOnExit(Top(sc), s), Pop(sc))
<1> DEFINE left == KeysOnExit(Top(sc), s)
<1>1. /\ Len(sc) \in Nat \ {0}
      /\ Reach(Pop(sc)) = Len(sc) - 1
      /\ \A i \in 1..(Len(sc) - 1) : Pop(sc)[i] = sc[i]
      /\ \A i \in 1..Len(Pop(sc)) : Pop(sc)[i].at = "body"
  BY DropFacts DEF OwnKeys
<1>2. Top(sc) \in Scope
  BY PopFacts
<1>3. left \in Seq(Names) /\ (left = s \/ (s # <<>> /\ left = Pop(s)))
  BY <1>2, KeysOnExitFacts
<1>4. Embeds(left, sc, Len(sc) - 1)
  <2>1. CASE Waiting(sc)
    <3>1. Reach(sc) = Len(sc) - 1 /\ Len(sc) - 1 \in Nat
      BY <1>1, <2>1 DEF Reach
    <3>2. Embeds(s, sc, Len(sc) - 1)
      BY <3>1 DEF OwnKeys
    <3>3. CASE left = s
      BY <3>2, <3>3
    <3>4. CASE s # <<>> /\ left = Pop(s)
      <4>1. Len(sc) - 1 - 1 \in Nat /\ Embeds(Pop(s), sc, Len(sc) - 1 - 1)
        BY <3>1, <3>2, <3>4, EmbedsPop
      <4>2. QED
        BY <1>3, <3>1, <3>4, <4>1, EmbedsWider
    <3>5. QED
      BY <1>3, <3>3, <3>4
  <2>2. CASE ~Waiting(sc)
    <3>1. Reach(sc) = Len(sc)
      BY <1>1, <2>2 DEF Reach
    <3>2. Embeds(s, sc, Len(sc))
      BY <3>1 DEF OwnKeys
    <3>3. CASE s # <<>> /\ left = Pop(s)
      BY <1>1, <3>2, <3>3, EmbedsPop
    <3>4. CASE ~(s # <<>> /\ left = Pop(s))
      <4>1. left = s /\ (s # <<>> => Top(s) # Top(sc).name)
        BY <1>3, <3>4 DEF KeysOnExit, ExitDs, Poll
      <4>2. s # <<>> => Top(s) # sc[Len(sc)].name
        BY <4>1 DEF Top
      <4>3. QED
        BY <1>1, <3>2, <4>1, <4>2, EmbedsMiss
    <3>5. QED
      BY <3>3, <3>4
  <2>3. QED
    BY <2>1, <2>2
<1>5. Embeds(left, Pop(sc), Len(sc) - 1)
  <2>1. Len(sc) - 1 \in Nat
    BY <1>1
  <2>2. QED
    BY <1>1, <1>3, <1>4, <2>1, EmbedsRenamed
<1>6. QED
  BY <1>1, <1>5 DEF OwnKeys

(* A scope that waits leaves without touching the stack.                   *)
LEMMA OwnKeysAbandon ==
    ASSUME NEW s \in Seq(Names), NEW sc \in Seq(Scope), Waiting(sc), OwnKeys(s, sc)
    PROVE  OwnKeys(s, Pop(sc))
<1>1. /\ Len(sc) \in Nat \ {0}
      /\ Reach(Pop(sc)) = Len(sc) - 1
      /\ \A i \in 1..(Len(sc) - 1) : Pop(sc)[i] = sc[i]
      /\ \A i \in 1..Len(Pop(sc)) : Pop(sc)[i].at = "body"
  BY DropFacts DEF OwnKeys, Waiting
<1>2. Reach(sc) = Len(sc) - 1 /\ Len(sc) - 1 \in Nat
  BY <1>1 DEF Reach
<1>3. Embeds(s, Pop(sc), Len(sc) - 1)
  BY <1>1, <1>2, EmbedsRenamed DEF OwnKeys
<1>4. QED
  BY <1>1, <1>3 DEF OwnKeys

(* A new scope waits for its check, or has pushed its key.                 *)
LEMMA OwnKeysEnter ==
    ASSUME NEW s \in Seq(Names), NEW sc \in Seq(Scope),
           ~(sc # <<>> /\ Top(sc).at = "check"), OwnKeys(s, sc),
           NEW kind \in Kinds, NEW name \in Names
    PROVE  OwnKeys(KeysOnEntry(kind, name, s),
                   Append(sc, [kind |-> kind, name |-> name, at |-> "check"]))
<1> DEFINE scope == [kind |-> kind, name |-> name, at |-> "check"]
           more == Append(sc, scope)
<1>1. Len(sc) \in Nat
  BY LenProperties
<1>2. /\ Len(more) = Len(sc) + 1
      /\ \A i \in 1..Len(sc) : more[i] = sc[i]
      /\ more[Len(sc) + 1] = scope
      /\ more # <<>>
  <2>1. scope \in Scope
    BY DEF Scope
  <2>2. QED
    BY <2>1, AppendProperties
<1>3. Waiting(more) <=> kind # "annotated"
  BY <1>1, <1>2 DEF Waiting, Top
<1>4. \A i \in 1..Len(more) : i # Len(more) => more[i].at = "body"
  <2>1. \A i \in 1..Len(sc) : sc[i].at = "body"
    <3>1. sc # <<>> => Top(sc).at = "body"
      <4>1. sc # <<>> => Top(sc) \in Scope
        BY PopFacts
      <4>2. QED
        BY <4>1 DEF Scope
    <3>2. ASSUME NEW i \in 1..Len(sc) PROVE sc # <<>>
      BY <3>2, EmptySeq
    <3>3. QED
      BY <3>1, <3>2 DEF OwnKeys, Top
  <2>2. QED
    BY <1>1, <1>2, <2>1
<1>5. Embeds(s, sc, Len(sc))
  BY <1>1 DEF OwnKeys, Reach, Waiting
<1>6. Embeds(s, more, Len(sc))
  BY <1>1, <1>2, <1>5, EmbedsRenamed
<1>7. CASE kind = "annotated"
  <2>1. Embeds(Append(s, name), more, Len(sc) + 1)
    <3>1. more[Len(sc) + 1].name = name
      BY <1>2
    <3> HIDE DEF more
    <3>2. QED
      BY <1>1, <1>6, <3>1, EmbedsPush
  <2>2. Reach(more) = Len(sc) + 1
    BY <1>1, <1>2, <1>3, <1>7 DEF Reach
  <2>3. QED
    BY <1>4, <1>7, <2>1, <2>2 DEF OwnKeys, KeysOnEntry
<1>8. CASE kind # "annotated"
  <2>1. Reach(more) = Len(sc)
    BY <1>1, <1>2, <1>3, <1>8 DEF Reach
  <2>2. CASE kind = "last"
    <3>1. KeysOnEntry(kind, name, s) = <<>>
      BY <2>2 DEF KeysOnEntry
    <3>2. QED
      BY <1>4, <3>1, EmbedsNothing DEF OwnKeys
  <2>3. CASE kind # "last"
    <3>1. KeysOnEntry(kind, name, s) = s
      BY <1>8, <2>3 DEF KeysOnEntry
    <3>2. QED
      BY <1>4, <1>6, <2>1, <3>1 DEF OwnKeys
  <2>4. QED
    BY <2>2, <2>3
<1>9. QED
  BY <1>7, <1>8

(* The check of the innermost scope returns and its key is pushed.         *)
LEMMA OwnKeysPush ==
    ASSUME NEW s \in Seq(Names), NEW sc \in Seq(Scope),
           sc # <<>>, Top(sc).at = "check", OwnKeys(s, sc)
    PROVE  OwnKeys(IF Top(sc).kind = "annotated" THEN s ELSE Append(s, Top(sc).name),
                   [sc EXCEPT ![Len(sc)].at = "body"])
<1> DEFINE body == [sc[Len(sc)] EXCEPT !.at = "body"]
           next == [sc EXCEPT ![Len(sc)] = body]
<1>1. Len(sc) \in Nat \ {0} /\ Top(sc) \in Scope
  BY PopFacts
<1>2. body \in Scope /\ body.at = "body" /\ body.name = Top(sc).name
  BY <1>1 DEF Scope, Top
<1>3. /\ Len(next) = Len(sc)
      /\ \A j \in 1..Len(sc) : next[j] = IF j = Len(sc) THEN body ELSE sc[j]
  <2>1. Len(sc) \in 1..Len(sc)
    BY <1>1
  <2>2. QED
    BY <1>2, <2>1, ExceptSeq
<1>4. \A i \in 1..Len(sc) : next[i].name = sc[i].name /\ next[i].at = "body"
  BY <1>2, <1>3 DEF OwnKeys, Top
<1>5. ~Waiting(next) /\ Reach(next) = Len(sc)
  <2>1. Top(next).at = "body"
    <3>1. Len(next) \in 1..Len(sc)
      BY <1>1, <1>3
    <3>2. QED
      BY <1>4, <3>1 DEF Top
  <2>2. ~Waiting(next)
    BY <2>1 DEF Waiting
  <2>3. QED
    BY <1>1, <1>3, <2>2 DEF Reach
<1>6. CASE Top(sc).kind = "annotated"
  <2>1. Embeds(s, sc, Len(sc))
    BY <1>1, <1>6 DEF OwnKeys, Reach, Waiting
  <2>2. Embeds(s, next, Len(sc))
    <3>1. \A i \in 1..Len(sc) : next[i].name = sc[i].name
      BY <1>4
    <3> HIDE DEF next
    <3>2. QED
      BY <1>1, <2>1, <3>1, EmbedsRenamed
  <2>3. QED
    BY <1>3, <1>4, <1>5, <1>6, <2>2 DEF OwnKeys
<1>7. CASE Top(sc).kind # "annotated"
  <2>1. PICK r \in Nat : Len(sc) = r + 1
    BY <1>1
  <2>2. Reach(sc) = r
    BY <1>1, <1>7, <2>1 DEF Reach, Waiting
  <2>3. Embeds(s, next, r)
    <3>1. \A i \in 1..r : next[i].name = sc[i].name
      BY <1>4, <2>1
    <3>2. Embeds(s, sc, r)
      BY <2>2 DEF OwnKeys
    <3>3. QED
      BY <2>1, <3>1, <3>2, EmbedsRenamed
  <2>4. Top(sc).name \in Names /\ next[r + 1].name = Top(sc).name
    BY <1>1, <1>2, <1>3, <2>1 DEF Scope
  <2>5. Embeds(Append(s, Top(sc).name), next, r + 1)
    BY <2>1, <2>3, <2>4, EmbedsPush
  <2>6. QED
    BY <1>3, <1>4, <1>5, <1>7, <2>1, <2>5 DEF OwnKeys
<1>8. QED
  BY <1>6, <1>7

(* Every step keeps the keys of every thread among its own scopes.         *)
LEMMA EmbedStep ==
    ASSUME Typed, EmbedInv, [Next]_vars
    PROVE  EmbedInv'
<1> USE DEF Typed, EmbedInv
<1>1. ASSUME NEW t \in Threads, NEW kind \in Kinds, NEW name \in Names,
             Enter(t, kind, name)
      PROVE  EmbedInv'
  <2>1. OwnKeys(stack'[t], scopes'[t])
    BY <1>1, OwnKeysEnter DEF Enter, InBody, Checking
  <2>2. QED
    BY <1>1, <2>1 DEF Enter
<1>2. ASSUME NEW t \in Threads, CheckReturns(t) PROVE EmbedInv'
  <2>1. OwnKeys(stack'[t], scopes'[t])
    BY <1>2, OwnKeysPush DEF CheckReturns, Checking
  <2>2. QED
    BY <1>2, <2>1 DEF CheckReturns
<1>3. ASSUME NEW t \in Threads, CheckThrows(t) PROVE EmbedInv'
  <2>1. OwnKeys(stack'[t], scopes'[t])
    <3>1. scopes[t] # <<>> /\ OwnKeys(stack[t], scopes[t])
      BY <1>3 DEF CheckThrows, Checking
    <3>2. CASE Top(scopes[t]).kind \in {"execute", "annotated"}
      BY <1>3, <3>1, <3>2, OwnKeysExit DEF CheckThrows, DropScope
    <3>3. CASE Top(scopes[t]).kind \notin {"execute", "annotated"}
      <4>1. Waiting(scopes[t])
        BY <1>3, <3>3 DEF CheckThrows, Checking, Waiting
      <4>2. QED
        BY <1>3, <3>1, <3>3, <4>1, OwnKeysAbandon DEF CheckThrows, DropScope
    <3>4. QED
      BY <3>2, <3>3
  <2>2. QED
    BY <1>3, <2>1 DEF CheckThrows, DropScope
<1>4. ASSUME NEW t \in Threads, Exit(t) PROVE EmbedInv'
  <2>1. OwnKeys(stack'[t], scopes'[t])
    BY <1>4, OwnKeysExit DEF Exit, DropScope
  <2>2. QED
    BY <1>4, <2>1 DEF Exit, DropScope
<1>5. ASSUME NEW t \in Threads, ClearDs(t) PROVE EmbedInv'
  <2>1. OwnKeys(<<>>, scopes[t])
    BY <1>5, EmbedsNothing DEF OwnKeys
  <2>2. QED
    BY <1>5, <2>1 DEF ClearDs
<1>6. ASSUME NEW n \in Names, Elsewhere(n) PROVE EmbedInv'
  BY <1>6 DEF Elsewhere
<1>7. CASE UNCHANGED vars
  BY <1>7 DEF vars
<1>8. QED
  BY <1>1, <1>2, <1>3, <1>4, <1>5, <1>6, <1>7 DEF Next

LEMMA EmbedInvariant == Spec => [](Typed /\ EmbedInv)
<1>1. Init => Typed /\ EmbedInv
  <2>1. OwnKeys(<<>>, <<>>)
    BY EmbedsNothing, EmptySeq DEF OwnKeys
  <2>2. QED
    BY <2>1, InitTyped DEF Init, EmbedInv
<1>2. Typed /\ EmbedInv /\ [Next]_vars => (Typed /\ EmbedInv)'
  BY TypedStep, EmbedStep
<1>3. QED
  BY <1>1, <1>2, PTL DEF Spec

(* A scope that waits for its key is one that is there.                    *)
LEMMA ReachFacts ==
    ASSUME NEW sc \in Seq(Scope)
    PROVE  Reach(sc) \in Nat /\ Reach(sc) <= Len(sc)
<1>1. CASE Waiting(sc)
  <2>1. sc # <<>>
    BY <1>1 DEF Waiting
  <2>2. Len(sc) \in Nat \ {0}
    BY <2>1, LenProperties, EmptySeq
  <2>3. Reach(sc) = Len(sc) - 1
    BY <1>1 DEF Reach
  <2>4. QED
    BY <2>2, <2>3
<1>2. CASE ~Waiting(sc)
  BY <1>2, LenProperties DEF Reach
<1>3. QED
  BY <1>1, <1>2

(* What the embedding says of one thread.                                  *)
LEMMA KeysOfThread ==
    ASSUME Typed, EmbedInv, NEW t \in Threads
    PROVE  /\ Len(stack[t]) <= Len(scopes[t])
           /\ \A i \in 1..Len(stack[t]) :
                  \E j \in 1..Len(scopes[t]) : stack[t][i] = scopes[t][j].name
<1>1. scopes[t] \in Seq(Scope) /\ Len(scopes[t]) \in Nat
  BY LenProperties DEF Typed
<1>2. Reach(scopes[t]) \in Nat /\ Reach(scopes[t]) <= Len(scopes[t])
  BY <1>1, ReachFacts
<1>3. stack[t] \in Seq(Names) /\ Embeds(stack[t], scopes[t], Reach(scopes[t]))
  BY DEF Typed, EmbedInv, OwnKeys
<1>4. Len(stack[t]) <= Reach(scopes[t]) /\ Len(stack[t]) \in Nat
  BY <1>2, <1>3, EmbedsLength, LenProperties
<1>5. PICK e : Embedding(e, stack[t], scopes[t], Reach(scopes[t]))
  BY <1>3 DEF Embeds
<1>6. ASSUME NEW i \in 1..Len(stack[t])
      PROVE  \E j \in 1..Len(scopes[t]) : stack[t][i] = scopes[t][j].name
  <2>1. e[i] \in 1..Reach(scopes[t]) /\ stack[t][i] = scopes[t][e[i]].name
    BY <1>5, <1>6 DEF Embedding
  <2>2. e[i] \in 1..Len(scopes[t])
    BY <1>1, <1>2, <2>1
  <2>3. QED
    BY <2>1, <2>2
<1>7. Len(stack[t]) <= Len(scopes[t])
  BY <1>1, <1>2, <1>4
<1>8. QED
  BY <1>6, <1>7

(* The variables keep their types, and no thread has more keys than scopes.*)
THEOREM TypeCorrect == Spec => []TypeOK
<1>1. ASSUME Typed, EmbedInv PROVE TypeOK
  <2>1. \A t \in Threads : Len(scopes[t]) \in Nat
    BY <1>1, LenProperties DEF Typed
  <2>2. \A t \in Threads : cleared[t] \in Nat /\ cleared[t] <= Len(scopes[t])
    BY <1>1 DEF Typed
  <2>3. ASSUME NEW t \in Threads PROVE cleared[t] \in 0..Len(scopes[t])
    BY <2>1, <2>2
  <2>4. ASSUME NEW t \in Threads PROVE Len(stack[t]) <= Len(scopes[t])
    BY <1>1, KeysOfThread
  <2>5. QED
    BY <1>1, <2>3, <2>4 DEF Typed, TypeOK
<1>2. QED
  BY <1>1, EmbedInvariant, PTL

(* A thread that has left all its scopes has left all their keys, whatever *)
(* was thrown on the way: a pooled thread starts the next request clean.   *)
THEOREM ThreadsComeBackClean == Spec => []NothingLeftBehind
<1>1. ASSUME Typed, EmbedInv, NEW t \in Threads, scopes[t] = <<>>
      PROVE  stack[t] = <<>>
  <2>1. Len(stack[t]) <= 0
    BY <1>1, KeysOfThread, EmptySeq
  <2>2. stack[t] \in Seq(Names)
    BY <1>1 DEF Typed
  <2>3. QED
    BY <2>1, <2>2, EmptySeq
<1>2. Typed /\ EmbedInv => NothingLeftBehind
  BY <1>1 DEF NothingLeftBehind
<1>3. QED
  BY <1>2, EmbedInvariant, PTL

-----------------------------------------------------------------------------
(* What the library makes of a key.                                        *)

(* Groups, missing names and removed ones included, a key leads to what it *)
(* may mean.                                                               *)
LEMMA LookupFacts ==
    ASSUME Typed, NEW key \in Names
    PROVE  Lookup(key) \subseteq Meant(key)
BY DEF Typed, Lookup, Members, Meant

(* SQL reaches the primary data source or what the name of a scope of its  *)
(* own call stack may mean, whatever was thrown on the way.                *)
THEOREM RoutedWithinThread == Spec => []RoutedByOwnScopes
<1>1. ASSUME Typed, EmbedInv, NEW t \in Threads
      PROVE  Routes(t) \subseteq
                 {Primary} \cup UNION {Meant(scopes[t][i].name) : i \in 1..Len(scopes[t])}
  <2>1. CASE stack[t] = <<>>
    BY <2>1 DEF Routes
  <2>2. CASE stack[t] # <<>>
    <3>1. Len(stack[t]) \in 1..Len(stack[t]) /\ Top(stack[t]) \in Names
      BY <1>1, <2>2, EmptySeq, PopFacts DEF Typed
    <3>2. \E j \in 1..Len(scopes[t]) : Top(stack[t]) = scopes[t][j].name
      BY <1>1, <3>1, KeysOfThread DEF Top
    <3>3. Routes(t) \subseteq Meant(Top(stack[t]))
      BY <1>1, <2>2, <3>1, LookupFacts DEF Routes
    <3>4. QED
      BY <3>2, <3>3
  <2>3. QED
    BY <2>1, <2>2
<1>2. Typed /\ EmbedInv => RoutedByOwnScopes
  BY <1>1 DEF RoutedByOwnScopes
<1>3. QED
  BY <1>2, EmbedInvariant, PTL

-----------------------------------------------------------------------------
(* The mirror, with the embedding for the threads that were robbed.        *)

(* Outside of all scopes the mirror is empty.                              *)
LEMMA MirrorsNothing ==
    ASSUME NEW s \in Seq(Names), NEW sc, sc = <<>>, NEW c \in Nat, c <= Len(sc),
           OwnKeys(s, sc)
    PROVE  Mirrors(s, sc, c)
<1>1. Len(sc) = 0 /\ c = 0 /\ ~Waiting(sc)
  BY EmptySeq DEF Waiting
<1>2. Reach(sc) = 0
  BY <1>1 DEF Reach
<1>3. Len(s) = 0
  <2>1. Len(s) <= 0
    BY <1>2, EmbedsLength DEF OwnKeys
  <2>2. QED
    BY <2>1, LenProperties
<1>4. QED
  BY <1>1, <1>3 DEF Mirrors

(* Every step keeps the mirror of every thread.                            *)
LEMMA MirrorStep ==
    ASSUME Typed, EmbedInv, MirrorInv, [Next]_vars
    PROVE  MirrorInv'
<1>a. \A t \in Threads : OwnKeys(stack'[t], scopes'[t])
  BY EmbedStep DEF EmbedInv
<1>b. /\ stack' \in [Threads -> Seq(Names)]
      /\ cleared' \in [Threads -> Nat]
      /\ \A t \in Threads : cleared'[t] <= Len(scopes'[t])
  BY TypedStep DEF Typed
<1> USE DEF Typed, MirrorInv
<1>0. ASSUME NEW t \in Threads, NEW robs, DropScope(t, robs), scopes[t] # <<>>,
             Len(scopes[t]) = 1
      PROVE  Mirrors(stack'[t], scopes'[t], cleared'[t])
  <2>1. scopes'[t] = <<>>
    <3>1. scopes'[t] = Pop(scopes[t])
      BY <1>0 DEF DropScope
    <3>2. Pop(scopes[t]) \in Seq(Scope) /\ Len(Pop(scopes[t])) = 0
      <4>1. scopes[t] \in Seq(Scope)
        OBVIOUS
      <4>2. Pop(scopes[t]) \in Seq(Scope) /\ Len(Pop(scopes[t])) = Len(scopes[t]) - 1
        BY <1>0, <4>1, PopFacts
      <4>3. QED
        BY <1>0, <4>2
    <3>3. QED
      BY <3>1, <3>2, EmptySeq
  <2>2. OwnKeys(stack'[t], scopes'[t])
    BY <1>a
  <2>3. QED
    BY <1>b, <2>1, <2>2, MirrorsNothing
<1>1. ASSUME NEW t \in Threads, NEW kind \in Kinds, NEW name \in Names,
             Enter(t, kind, name), ~robbed'[t]
      PROVE  Mirrors(stack'[t], scopes'[t], cleared'[t])
  <2>1. CASE ~robbed[t]
    BY <1>1, <2>1, MirrorsEnter DEF Enter, InBody, Checking
  <2>2. CASE robbed[t]
    <3>1. kind = "last"
      BY <1>1, <2>2 DEF Enter
    <3>2. Mirrors(<<>>, scopes[t], Len(scopes[t]))
      BY <1>1, MirrorsClear DEF Enter, InBody, Checking, Waiting, EmbedInv, OwnKeys
    <3>3. <<>> \in Seq(Names) /\ Len(scopes[t]) \in Nat /\ Len(scopes[t]) <= Len(scopes[t])
      BY EmptySeq, LenProperties
    <3>4. ~(scopes[t] # <<>> /\ Top(scopes[t]).at = "check")
      BY <1>1 DEF Enter, InBody, Checking
    <3>5. Mirrors(KeysOnEntry(kind, name, <<>>),
                  Append(scopes[t], [kind |-> kind, name |-> name, at |-> "check"]),
                  Len(scopes[t]))
      BY <3>1, <3>2, <3>3, <3>4, MirrorsEnter
    <3>6. QED
      BY <1>1, <3>1, <3>5 DEF Enter, KeysOnEntry
  <2>3. QED
    BY <2>1, <2>2
<1>2. ASSUME NEW t \in Threads, CheckReturns(t), ~robbed'[t]
      PROVE  Mirrors(stack'[t], scopes'[t], cleared'[t])
  BY <1>2, MirrorsPush DEF CheckReturns, Checking
<1>3. ASSUME NEW t \in Threads, CheckThrows(t), ~robbed'[t]
      PROVE  Mirrors(stack'[t], scopes'[t], cleared'[t])
  <2> DEFINE scope == Top(scopes[t])
  <2>1. scopes[t] # <<>> /\ scope.at = "check" /\ DropScope(t, Robs(scope, stack[t]))
    BY <1>3 DEF CheckThrows, Checking
  <2>2. CASE Len(scopes[t]) = 1
    BY <1>0, <2>1, <2>2
  <2>3. CASE Len(scopes[t]) # 1
    <3>1. ~robbed[t] /\ ~Robs(scope, stack[t])
      BY <1>3, <2>1, <2>3 DEF DropScope
    <3>2. Mirrors(stack[t], scopes[t], cleared[t])
      BY <3>1
    <3>3. CASE scope.kind = "annotated"
      BY <1>3, <2>1, <3>2, <3>3, MirrorsExit DEF CheckThrows, DropScope, Waiting
    <3>4. CASE scope.kind # "annotated"
      <4>1. stack'[t] = stack[t]
        BY <1>3, <3>1, <3>4 DEF CheckThrows, Robs, KeysOnExit
      <4>2. /\ cleared[t] # Len(scopes[t])
            /\ Mirrors(stack[t], Pop(scopes[t]), cleared[t])
        BY <2>1, <3>2, <3>4, MirrorsAbandon DEF Waiting
      <4>3. QED
        BY <2>1, <4>1, <4>2 DEF DropScope
    <3>5. QED
      BY <3>3, <3>4
  <2>4. QED
    BY <2>2, <2>3
<1>4. ASSUME NEW t \in Threads, Exit(t), ~robbed'[t]
      PROVE  Mirrors(stack'[t], scopes'[t], cleared'[t])
  <2>1. scopes[t] # <<>> /\ DropScope(t, FALSE)
    BY <1>4 DEF Exit
  <2>2. CASE Len(scopes[t]) = 1
    BY <1>0, <2>1, <2>2
  <2>3. CASE Len(scopes[t]) # 1
    <3>1. ~robbed[t]
      BY <1>4, <2>1, <2>3 DEF DropScope
    <3>2. QED
      BY <1>4, <3>1, MirrorsExit DEF Exit, InBody, Checking, DropScope, Waiting
  <2>4. QED
    BY <2>2, <2>3
<1>5. ASSUME NEW t \in Threads, ClearDs(t)
      PROVE  Mirrors(stack'[t], scopes'[t], cleared'[t])
  <2>1. Mirrors(<<>>, scopes[t], Len(scopes[t]))
    BY <1>5, MirrorsClear DEF ClearDs, InBody, Checking, Waiting, EmbedInv, OwnKeys
  <2>2. QED
    BY <1>5, <2>1 DEF ClearDs
<1>6. ASSUME NEW t \in Threads, NEW u \in Threads, u # t,
             \/ \E kind \in Kinds, name \in Names : Enter(t, kind, name)
             \/ CheckReturns(t) \/ CheckThrows(t) \/ Exit(t) \/ ClearDs(t)
      PROVE  /\ stack'[u] = stack[u] /\ scopes'[u] = scopes[u]
             /\ cleared'[u] = cleared[u] /\ robbed'[u] = robbed[u]
  BY <1>6 DEF Enter, CheckReturns, CheckThrows, Exit, ClearDs, DropScope
<1>7. ASSUME NEW u \in Threads, ~robbed'[u]
      PROVE  Mirrors(stack'[u], scopes'[u], cleared'[u])
  <2>1. ASSUME NEW t \in Threads,
               \/ \E kind \in Kinds, name \in Names : Enter(t, kind, name)
               \/ CheckReturns(t) \/ CheckThrows(t) \/ Exit(t) \/ ClearDs(t)
        PROVE  Mirrors(stack'[u], scopes'[u], cleared'[u])
    <3>1. CASE u = t
      BY <1>1, <1>2, <1>3, <1>4, <1>5, <1>7, <2>1, <3>1
    <3>2. CASE u # t
      BY <1>6, <1>7, <2>1, <3>2
    <3>3. QED
      BY <3>1, <3>2
  <2>2. ASSUME NEW n \in Names, Elsewhere(n)
        PROVE  Mirrors(stack'[u], scopes'[u], cleared'[u])
    BY <1>7, <2>2 DEF Elsewhere
  <2>3. CASE UNCHANGED vars
    BY <1>7, <2>3 DEF vars
  <2>4. QED
    BY <2>1, <2>2, <2>3 DEF Next
<1>8. QED
  BY <1>7

LEMMA MirrorInvariant == Spec => [](Typed /\ MirrorInv)
<1>1. Init => Typed /\ EmbedInv /\ MirrorInv
  <2>1. OwnKeys(<<>>, <<>>)
    BY EmbedsNothing, EmptySeq DEF OwnKeys
  <2>2. Mirrors(<<>>, <<>>, 0)
    BY EmptySeq DEF Mirrors, Waiting
  <2>3. QED
    BY <2>1, <2>2, InitTyped DEF Init, EmbedInv, MirrorInv
<1>2. Typed /\ EmbedInv /\ MirrorInv /\ [Next]_vars => (Typed /\ EmbedInv /\ MirrorInv)'
  BY TypedStep, EmbedStep, MirrorStep
<1>3. QED
  BY <1>1, <1>2, PTL DEF Spec

(* Unless it was robbed, the keys of a thread are those of the scopes it   *)
(* entered since the last clear, in order.                                 *)
THEOREM KeysAreScopes == Spec => []StackMirrorsScopes
<1>1. Typed /\ MirrorInv => StackMirrorsScopes
  BY DEF MirrorInv, Mirrors, StackMirrorsScopes, Pushed, Waiting, Checking
<1>2. QED
  BY <1>1, MirrorInvariant, PTL

(* And the SQL of a scope reaches what its name may mean, whatever groups  *)
(* come and go, or the primary data source.                                *)
THEOREM RoutedToOwnOrPrimary == Spec => []OwnOrPrimary
<1>1. ASSUME Typed, MirrorInv, NEW t \in Threads, scopes[t] # <<>>, InBody(t), ~robbed[t]
      PROVE  Routes(t) \subseteq Meant(Top(scopes[t]).name)
  <2>1. Mirrors(stack[t], scopes[t], cleared[t])
    BY <1>1 DEF MirrorInv
  <2>2. Len(stack[t]) \in Nat /\ Len(scopes[t]) \in Nat /\ cleared[t] \in Nat
    BY <1>1, LenProperties DEF Typed
  <2>3. Len(stack[t]) = Len(scopes[t]) - cleared[t]
    BY <1>1, <2>1, <2>2 DEF Mirrors, Waiting, InBody, Checking
  <2>4. CASE stack[t] = <<>>
    BY <2>4 DEF Routes, Meant
  <2>5. CASE stack[t] # <<>>
    <3>1. Len(stack[t]) \in 1..Len(stack[t]) /\ Top(stack[t]) \in Names
      BY <1>1, <2>2, <2>5, EmptySeq, PopFacts DEF Typed
    <3>2. Top(stack[t]) = scopes[t][cleared[t] + Len(stack[t])].name
      BY <2>1, <3>1 DEF Mirrors, Top
    <3>3. cleared[t] + Len(stack[t]) = Len(scopes[t])
      BY <2>2, <2>3
    <3>4. Top(stack[t]) = Top(scopes[t]).name
      BY <3>2, <3>3 DEF Top
    <3>5. QED
      BY <1>1, <2>5, <3>1, <3>4, LookupFacts DEF Routes
  <2>6. QED
    BY <2>4, <2>5
<1>2. Typed /\ MirrorInv => OwnOrPrimary
  BY <1>1 DEF OwnOrPrimary
<1>3. QED
  BY <1>2, MirrorInvariant, PTL

==============================================================================
