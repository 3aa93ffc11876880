-------------------------- MODULE LogPipelineProofs --------------------------
(***************************************************************************)
(* Proofs about LogPipeline, for any threads, any nesting of @Log methods  *)
(* and any size of the pool and its queue.                                 *)
(*                                                                         *)
(* The thread-local slot is only as good as what the methods leave in it:  *)
(* while a thread is inside of @Log methods, a start time in its slot is   *)
(* one of the same request, and the one of the innermost method if no      *)
(* other has begun inside of it (StampsFit).  No event is lost because     *)
(* every published one is in one place (EventsArePlaced) and in no second  *)
(* one (PlacesAreDisjoint), which rests on a method publishing once        *)
(* (FramesAreOpen, PublishedIsTrue).                                       *)
(*                                                                         *)
(* At the end, what EventsAreSaved rests on without fairness: a queue that *)
(* is not empty has all threads of the core to serve it, and each save     *)
(* shortens the backlog, which only a new event makes longer.              *)
(***************************************************************************)
EXTENDS LogPipeline, FiniteSetTheorems, TLAPS

Depth(t) == Len(frames[t])

LEMMA StampsApart ==
    /\ NoStamp \notin Calls /\ Calls \subseteq Nat
    /\ NoEvent \notin Event /\ NotStarted \notin Event /\ NotStarted # NoEvent
BY LogAssumption, EventAssumption DEF Calls

-----------------------------------------------------------------------------
(* The stack of @Log methods of a thread.                                  *)

LEMMA TopIsLast ==
    ASSUME TypeOK, NEW t \in Threads, frames[t] # << >>
    PROVE  /\ Depth(t) \in Nat \ {0} /\ Depth(t) \in 1 .. Depth(t)
           /\ Top(t) = frames[t][Depth(t)] /\ Top(t) \in Frame
           /\ Top(t).method \in Calls /\ Top(t).request \in Calls
<1>1. frames[t] \in Seq(Frame)
  BY DEF TypeOK
<1>2. /\ Depth(t) \in Nat \ {0} /\ Depth(t) \in 1 .. Depth(t)
      /\ Top(t) = frames[t][Depth(t)] /\ Top(t) \in Frame
  BY <1>1 DEF Top, Depth
<1> QED
  BY <1>2 DEF Frame

LEMMA Popped ==
    ASSUME TypeOK, NEW t \in Threads, frames[t] # << >>, Pop(t)
    PROVE  /\ frames' \in [Threads -> Seq(Frame)]
           /\ Len(frames'[t]) = Depth(t) - 1
           /\ \A i \in 1 .. Depth(t) - 1 : frames'[t][i] = frames[t][i]
           /\ \A u \in Threads \ {t} : frames'[u] = frames[u]
<1>1. /\ frames[t] \in Seq(Frame) /\ Depth(t) \in Nat \ {0} /\ Depth(t) = Len(frames[t])
  BY TopIsLast DEF TypeOK, Depth
<1> DEFINE rest == SubSeq(frames[t], 1, Depth(t) - 1)
<1>2. /\ rest \in Seq(Frame) /\ Len(rest) = Depth(t) - 1
      /\ \A i \in 1 .. Depth(t) - 1 : rest[i] = frames[t][i]
  BY <1>1
<1>3. frames' = [frames EXCEPT ![t] = rest]
  BY DEF Pop, Depth
<1> HIDE DEF rest
<1> QED
  BY <1>2, <1>3 DEF TypeOK

LEMMA Pushed ==
    ASSUME TypeOK, NEW t \in Threads, DoBefore(t)
    PROVE  LET c == started + 1 IN
           /\ c \in Calls /\ started \in 0 .. MaxCalls /\ started' = c
           /\ frames' \in [Threads -> Seq(Frame)]
           /\ Len(frames'[t]) = Depth(t) + 1 /\ Depth(t) \in Nat /\ Depth(t) < MaxDepth
           /\ \A i \in 1 .. Depth(t) : frames'[t][i] = [frames[t][i] EXCEPT !.alone = FALSE]
           /\ \E request \in Calls :
                  /\ IF Depth(t) = 0 THEN request = c ELSE request = Top(t).request
                  /\ frames'[t][Depth(t) + 1] =
                         [method |-> c, request |-> request, alone |-> TRUE]
                  /\ requestOf' = [requestOf EXCEPT ![c] = request]
           /\ \A u \in Threads \ {t} : frames'[u] = frames[u]
<1> DEFINE c == started + 1
           request == IF frames[t] = << >> THEN c ELSE Top(t).request
           n == Depth(t)
           outer == [i \in 1 .. n |-> [frames[t][i] EXCEPT !.alone = FALSE]]
           new == [method |-> c, request |-> request, alone |-> TRUE]
<1>1. /\ started < MaxCalls /\ Depth(t) < MaxDepth /\ started' = c
      /\ frames' = [frames EXCEPT ![t] = Append(outer, new)]
      /\ requestOf' = [requestOf EXCEPT ![c] = request]
  BY DEF DoBefore, Depth
<1>2. c \in Calls /\ started \in 0 .. MaxCalls
  BY <1>1, LogAssumption DEF TypeOK, Calls
<1>3. n \in Nat /\ frames[t] \in Seq(Frame) /\ n = Len(frames[t]) /\ (n = 0 <=> frames[t] = << >>)
  BY DEF TypeOK, Depth
<1>4. request \in Calls
  BY <1>2, TopIsLast
<1> HIDE DEF c, request, n
<1>5. ASSUME NEW i \in 1 .. n PROVE [frames[t][i] EXCEPT !.alone = FALSE] \in Frame
  <2>1. frames[t][i] \in Frame
    BY <1>3, <1>5
  <2> QED
    BY <2>1 DEF Frame
<1>6. outer \in Seq(Frame) /\ Len(outer) = n
  BY <1>3, <1>5
<1>7. new \in Frame
  BY <1>2, <1>4 DEF Frame
<1> HIDE DEF outer, new
<1>8. /\ Append(outer, new) \in Seq(Frame) /\ Len(Append(outer, new)) = n + 1
      /\ \A i \in 1 .. n : Append(outer, new)[i] = outer[i]
      /\ Append(outer, new)[n + 1] = new
  BY <1>3, <1>6, <1>7
<1>9. /\ frames' \in [Threads -> Seq(Frame)] /\ frames'[t] = Append(outer, new)
      /\ \A u \in Threads \ {t} : frames'[u] = frames[u]
  BY <1>1, <1>8 DEF TypeOK
<1>10. \A i \in 1 .. n : outer[i] = [frames[t][i] EXCEPT !.alone = FALSE]
  BY DEF outer
<1>11. IF n = 0 THEN request = c ELSE request = Top(t).request
  BY <1>3 DEF request
<1> QED
  BY <1>1, <1>2, <1>3, <1>4, <1>8, <1>9, <1>10, <1>11 DEF c, new, n

-----------------------------------------------------------------------------
(* Types.                                                                  *)

LEMMA TypeInit == Init => TypeOK
BY LogAssumption, StampsApart DEF Init, TypeOK, Calls, Fates

LEMMA QueueTyped ==
    ASSUME NEW S, NEW q \in Seq(S)
    PROVE  /\ \A e \in S : /\ Append(q, e) \in Seq(S) /\ Len(Append(q, e)) = Len(q) + 1
                           /\ Append(q, e)[Len(q) + 1] = e
                           /\ \A i \in 1 .. Len(q) : Append(q, e)[i] = q[i]
           /\ q # << >> => /\ Tail(q) \in Seq(S) /\ Head(q) \in S /\ Head(q) = q[1]
                           /\ Len(q) \in Nat \ {0} /\ Len(Tail(q)) = Len(q) - 1
                           /\ \A i \in 1 .. Len(q) - 1 : Tail(q)[i] = q[i + 1]
OBVIOUS

(* The three places Execute may put an event.                              *)
LEMMA Executed ==
    ASSUME TypeOK, NEW t \in Threads, NEW e \in Event, Execute(t, e)
    PROVE  \/ \E w \in Workers : /\ running[w] = NotStarted
                                 /\ running' = [running EXCEPT ![w] = e]
                                 /\ UNCHANGED <<queue, inline>>
           \/ /\ Len(queue) < QueueSize
              /\ queue' = Append(queue, e)
              /\ UNCHANGED <<running, inline>>
           \/ /\ Alive = Workers /\ ~(Len(queue) < QueueSize)
              /\ inline' = [inline EXCEPT ![t] = e]
              /\ UNCHANGED <<queue, running>>
<1>1. StartWorker(e) => \E w \in Workers : /\ running[w] = NotStarted
                                           /\ running' = [running EXCEPT ![w] = e]
                                           /\ UNCHANGED <<queue, inline>>
  BY DEF StartWorker, Alive
<1> QED
  BY <1>1 DEF Execute

LEMMA ExecuteTyped ==
    ASSUME TypeOK, NEW t \in Threads, NEW e \in Event, Execute(t, e)
    PROVE  /\ queue' \in Seq(Event)
           /\ running' \in [Workers -> Event \cup {NoEvent, NotStarted}]
           /\ inline' \in [Threads -> Event \cup {NoEvent}]
<1>1. Append(queue, e) \in Seq(Event)
  BY DEF TypeOK
<1> QED
  BY <1>1, Executed, ZenonT(60) DEF TypeOK

LEMMA EndsTyped ==
    ASSUME TypeOK, NEW t \in Threads, NEW f \in Fates, Ends(t, f),
           stamp' \in [Threads -> Calls \cup {NoStamp}]
    PROVE  /\ started' \in 0 .. MaxCalls
           /\ frames' \in [Threads -> Seq(Frame)]
           /\ \A u \in Threads : Len(frames'[u]) <= MaxDepth
           /\ fate' \in [Calls -> Fates]
           /\ requestOf' \in [Calls -> Calls]
           /\ alone' \subseteq Calls
           /\ saved' \subseteq Event
           /\ context' \in BOOLEAN /\ up' \in BOOLEAN
<1>1. /\ frames[t] # << >> /\ Pop(t)
      /\ fate' = [fate EXCEPT ![Top(t).method] = f]
      /\ alone' = IF Top(t).alone THEN alone \cup {Top(t).method} ELSE alone
      /\ UNCHANGED <<started, requestOf, saved, context, up>>
  BY DEF Ends
<1>2. Top(t).method \in Calls /\ Depth(t) \in Nat \ {0}
  BY <1>1, TopIsLast
<1>3. frames' \in [Threads -> Seq(Frame)] /\ \A u \in Threads : Len(frames'[u]) <= MaxDepth
  BY <1>1, <1>2, Popped, LogAssumption DEF TypeOK, Depth
<1> QED
  BY <1>1, <1>2, <1>3 DEF TypeOK

(* An event that is published is one.                                      *)
LEMMA EventPublished ==
    ASSUME TypeOK, NEW t \in Threads, frames[t] # << >>, stamp[t] # NoStamp
    PROVE  [method |-> Top(t).method, start |-> stamp[t]] \in Event
BY TopIsLast DEF TypeOK, Event

LEMMA DoBeforeTyped ==
    ASSUME TypeOK, NEW t \in Threads, DoBefore(t)
    PROVE  TypeOK'
<1>1. /\ started + 1 \in Calls /\ started' = started + 1
      /\ frames' \in [Threads -> Seq(Frame)]
      /\ Len(frames'[t]) = Depth(t) + 1 /\ Depth(t) \in Nat /\ Depth(t) < MaxDepth
      /\ \E request \in Calls : requestOf' = [requestOf EXCEPT ![started + 1] = request]
      /\ \A u \in Threads \ {t} : frames'[u] = frames[u]
  BY Pushed
<1>2. /\ stamp' = [stamp EXCEPT ![t] = started + 1]
      /\ UNCHANGED <<fate, alone, published, pool, saved, context, up>>
  BY DEF DoBefore
<1>3. ASSUME NEW u \in Threads PROVE Len(frames'[u]) <= MaxDepth
  <2>1. CASE u = t
    BY <1>1, <2>1, LogAssumption
  <2>2. CASE u # t
    BY <1>1, <2>2 DEF TypeOK
  <2> QED
    BY <2>1, <2>2
<1>4. started' \in 0 .. MaxCalls
  BY <1>1, LogAssumption DEF Calls
<1>5. requestOf' \in [Calls -> Calls] /\ stamp' \in [Threads -> Calls \cup {NoStamp}]
  BY <1>1, <1>2 DEF TypeOK
<1>6. UNCHANGED <<queue, running, inline>>
  BY <1>2 DEF pool
<1> QED
  BY <1>1, <1>2, <1>3, <1>4, <1>5, <1>6 DEF TypeOK

LEMMA PublishTyped ==
    ASSUME TypeOK, NEW t \in Threads, Publish(t)
    PROVE  TypeOK'
<1> DEFINE e == [method |-> Top(t).method, start |-> stamp[t]]
<1>1. /\ frames[t] # << >> /\ stamp[t] # NoStamp
      /\ Ends(t, "logged") /\ published' = published \cup {e} /\ Execute(t, e)
      /\ stamp' = [stamp EXCEPT ![t] = NoStamp]
  BY DEF Publish, Removed
<1>2. e \in Event
  BY <1>1, EventPublished
<1> HIDE DEF e
<1>3. /\ queue' \in Seq(Event)
      /\ running' \in [Workers -> Event \cup {NoEvent, NotStarted}]
      /\ inline' \in [Threads -> Event \cup {NoEvent}]
  BY <1>1, <1>2, ExecuteTyped
<1>4. stamp' \in [Threads -> Calls \cup {NoStamp}] /\ published' \subseteq Event
  BY <1>1, <1>2 DEF TypeOK
<1>5. "logged" \in Fates
  BY DEF Fates
<1> QED
  BY <1>1, <1>3, <1>4, <1>5, EndsTyped DEF TypeOK

(* The ways a method ends without an event.                                *)
Unlogged(t, f) ==
    /\ f \in {"noStamp", "failed", "noContext", "error"}
    /\ Ends(t, f)
    /\ f = "noStamp" => stamp[t] = NoStamp
    /\ f # "noStamp" /\ f # "error" => stamp[t] # NoStamp
    /\ \/ stamp' = [stamp EXCEPT ![t] = NoStamp]
       \/ f = "error" /\ stamp' = stamp
    /\ UNCHANGED <<published, queue, running, inline>>

LEMMA UnloggedTyped ==
    ASSUME TypeOK, NEW t \in Threads, NEW f \in Fates, Unlogged(t, f)
    PROVE  TypeOK'
<1>1. stamp' \in [Threads -> Calls \cup {NoStamp}]
  BY DEF Unlogged, TypeOK
<1> QED
  BY <1>1, EndsTyped DEF Unlogged, TypeOK

(* What the threads of the pool and the callers do with events.            *)
PoolStep ==
    \/ \E w \in Workers : Take(w) \/ SaveSysLog(w) \/ Expire(w)
    \/ \E t \in Threads : SaveInline(t)

LEMMA Steps ==
    ASSUME Next
    PROVE  \/ \E t \in Threads : DoBefore(t) \/ Publish(t)
           \/ \E t \in Threads, f \in Fates : Unlogged(t, f)
           \/ PoolStep
           \/ Close \/ Halt
<1>1. ASSUME NEW t \in Threads,
             NoStartTime(t) \/ HandleLogFails(t) \/ NoContext(t) \/ ThrowError(t)
      PROVE  \E f \in Fates : Unlogged(t, f)
  <2>1. CASE NoStartTime(t)
    <3>1. Unlogged(t, "noStamp")
      BY <2>1 DEF NoStartTime, Unlogged, Removed, pool
    <3> QED
      BY <3>1 DEF Fates
  <2>2. CASE HandleLogFails(t)
    <3>1. Unlogged(t, "failed")
      BY <2>2 DEF HandleLogFails, Unlogged, Removed, pool
    <3> QED
      BY <3>1 DEF Fates
  <2>3. CASE NoContext(t)
    <3>1. Unlogged(t, "noContext")
      BY <2>3 DEF NoContext, Unlogged, Removed, pool
    <3> QED
      BY <3>1 DEF Fates
  <2>4. CASE ThrowError(t)
    <3>1. Unlogged(t, "error")
      BY <2>4 DEF ThrowError, Unlogged, pool
    <3> QED
      BY <3>1 DEF Fates
  <2> QED
    BY <1>1, <2>1, <2>2, <2>3, <2>4
<1> QED
  BY <1>1, Zenon DEF Next, Worker, PoolStep

LEMMA PoolStepTyped ==
    ASSUME TypeOK, PoolStep
    PROVE  TypeOK'
<1>1. ASSUME NEW w \in Workers, Take(w) PROVE TypeOK'
  <2>1. Head(queue) \in Event /\ Tail(queue) \in Seq(Event)
    BY <1>1, QueueTyped DEF Take, TypeOK
  <2>2. running' \in [Workers -> Event \cup {NoEvent, NotStarted}]
    BY <1>1, <2>1 DEF Take, TypeOK
  <2> QED
    BY <1>1, <2>1, <2>2 DEF Take, RequestSide, TypeOK
<1>2. ASSUME NEW w \in Workers, SaveSysLog(w) PROVE TypeOK'
  BY <1>2 DEF SaveSysLog, RequestSide, TypeOK
<1>3. ASSUME NEW w \in Workers, Expire(w) PROVE TypeOK'
  BY <1>3 DEF Expire, RequestSide, TypeOK
<1>4. ASSUME NEW t \in Threads, SaveInline(t) PROVE TypeOK'
  BY <1>4 DEF SaveInline, Busy, RequestSide, TypeOK
<1> QED
  BY <1>1, <1>2, <1>3, <1>4 DEF PoolStep

LEMMA TypeStep == TypeOK /\ [Next]_vars => TypeOK'
<1> SUFFICES ASSUME TypeOK, [Next]_vars PROVE TypeOK'
  OBVIOUS
<1>1. CASE Next
  <2>1. CASE Close \/ Halt
    BY <2>1 DEF Close, Halt, pool, TypeOK
  <2> QED
    BY <1>1, <2>1, Steps, DoBeforeTyped, PublishTyped, UnloggedTyped, PoolStepTyped
<1>2. CASE UNCHANGED vars
  BY <1>2 DEF vars, pool, TypeOK
<1> QED
  BY <1>1, <1>2

-----------------------------------------------------------------------------
(* The inductive invariant of the request threads.                         *)

Request(t) == frames[t][1].request

(* The methods a thread is inside of are all of one request and have no    *)
(* fate yet, and no method is in progress twice.                           *)
FramesAreOpen ==
    /\ \A t \in Threads : \A i \in 1 .. Depth(t) :
           /\ frames[t][i].method <= started
           /\ fate[frames[t][i].method] = "running"
           /\ frames[t][i].request = Request(t)
           /\ requestOf[frames[t][i].method] = Request(t)
           /\ frames[t][i].alone => i = Depth(t)
    /\ \A t, u \in Threads : \A i \in 1 .. Depth(t), j \in 1 .. Depth(u) :
           frames[t][i].method = frames[u][j].method => t = u /\ i = j

(* The slot of a thread that is inside of methods is of their request, and *)
(* of the innermost one as long as that is alone.                          *)
StampsFit ==
    \A t \in Threads :
        /\ stamp[t] # NoStamp => stamp[t] <= started
        /\ frames[t] # << >> /\ stamp[t] # NoStamp => requestOf[stamp[t]] = Request(t)
        /\ frames[t] # << >> /\ Top(t).alone => stamp[t] = Top(t).method

PublishedIsTrue ==
    \A e \in published :
        /\ fate[e.method] = "logged"
        /\ e.method <= started /\ e.start <= started
        /\ requestOf[e.start] = requestOf[e.method]
        /\ e.method \in alone => e.start = e.method

AloneHaveEnded == \A c \in alone : fate[c] \notin {"running", "noStamp"}

CallsToCome == \A c \in Calls : c > started => fate[c] = "running"

RequestInv ==
    /\ FramesAreOpen /\ StampsFit /\ PublishedIsTrue /\ AloneHaveEnded /\ CallsToCome

LEMMA RequestInvInit == Init => RequestInv
BY StampsApart
   DEF Init, RequestInv, FramesAreOpen, StampsFit, PublishedIsTrue, AloneHaveEnded,
       CallsToCome, Depth

(* A method begins.                                                        *)
LEMMA DoBeforeInv ==
    ASSUME TypeOK, RequestInv, NEW t \in Threads, DoBefore(t)
    PROVE  RequestInv'
<1> DEFINE c == started + 1
           n == Depth(t)
<1>1. PICK r \in Calls :
         /\ IF n = 0 THEN r = c ELSE r = Top(t).request
         /\ frames'[t][n + 1] = [method |-> c, request |-> r, alone |-> TRUE]
         /\ requestOf' = [requestOf EXCEPT ![c] = r]
  BY Pushed
<1>2. /\ c \in Calls /\ started \in Nat /\ started' = c /\ c = started + 1
      /\ frames' \in [Threads -> Seq(Frame)]
      /\ Len(frames'[t]) = n + 1 /\ n \in Nat /\ n = Depth(t) /\ n + 1 \in 1 .. n + 1
      /\ \A i \in 1 .. n : frames'[t][i] = [frames[t][i] EXCEPT !.alone = FALSE]
      /\ \A u \in Threads \ {t} : frames'[u] = frames[u]
  BY Pushed
<1>3. /\ stamp' = [stamp EXCEPT ![t] = c]
      /\ UNCHANGED <<fate, alone, published>>
  BY DEF DoBefore
<1> HIDE DEF c, n
<1>4. /\ \A m \in Calls : m # c => requestOf'[m] = requestOf[m]
      /\ requestOf'[c] = r
  BY <1>1, <1>2 DEF TypeOK
<1>5. ASSUME NEW u \in Threads, NEW i \in 1 .. Depth(u)
      PROVE  /\ frames[u][i].method \in Calls /\ frames[u][i].method # c
             /\ frames[u][i].method <= started /\ frames[u][i] \in Frame
  <2>1. frames[u][i] \in Frame
    BY <1>5 DEF TypeOK, Depth
  <2>2. frames[u][i].method <= started
    BY <1>5 DEF RequestInv, FramesAreOpen
  <2> QED
    BY <1>2, <2>1, <2>2 DEF Frame, Calls
<1>6. ASSUME NEW u \in Threads, NEW i \in 1 .. Len(frames'[u])
      PROVE  \/ /\ u = t /\ i = n + 1
                /\ frames'[u][i].method = c /\ frames'[u][i].request = r
             \/ /\ i \in 1 .. Depth(u)
                /\ frames'[u][i].method = frames[u][i].method
                /\ frames'[u][i].request = frames[u][i].request
                /\ frames'[u][i].alone => u # t /\ frames[u][i].alone
  <2>1. CASE u # t
    BY <1>2, <1>6, <2>1 DEF Depth
  <2>2. CASE u = t /\ i = n + 1
    BY <1>1, <2>2
  <2>3. CASE u = t /\ i \in 1 .. n
    <3>1. i \in 1 .. Depth(u) /\ frames'[u][i] = [frames[u][i] EXCEPT !.alone = FALSE]
      BY <1>2, <2>3
    <3>2. frames[u][i] \in Frame
      BY <1>5, <3>1
    <3> QED
      BY <2>3, <3>1, <3>2 DEF Frame
  <2> QED
    BY <1>2, <1>6, <2>1, <2>2, <2>3
<1>7. /\ n # 0 => r = frames[t][1].request /\ 1 \in 1 .. n
      /\ n = 0 <=> frames[t] = << >>
  <2>1. n = 0 <=> frames[t] = << >>
    BY <1>2 DEF TypeOK, Depth
  <2>2. n # 0 => Top(t) = frames[t][n] /\ n \in 1 .. n /\ 1 \in 1 .. n
    BY <1>2, <2>1, TopIsLast
  <2> QED
    BY <1>1, <1>2, <2>1, <2>2 DEF RequestInv, FramesAreOpen, Request
<1>8. frames'[t][1].request = r /\ \A u \in Threads \ {t} : frames'[u][1] = frames[u][1]
  <2>1. CASE n = 0
    BY <1>1, <1>2, <2>1
  <2>2. CASE n # 0
    BY <1>2, <1>5, <1>7, <2>2 DEF Frame
  <2> QED
    BY <1>2, <2>1, <2>2
<1>9. FramesAreOpen'
  <2>1. ASSUME NEW u \in Threads, NEW i \in 1 .. Len(frames'[u])
        PROVE  /\ frames'[u][i].method <= started'
               /\ fate'[frames'[u][i].method] = "running"
               /\ frames'[u][i].request = frames'[u][1].request
               /\ requestOf'[frames'[u][i].method] = frames'[u][1].request
               /\ frames'[u][i].alone => i = Len(frames'[u])
    <3>1. CASE u = t /\ i = n + 1
      BY <1>2, <1>3, <1>4, <1>6, <1>8, <3>1, <1>1 DEF RequestInv, CallsToCome
    <3>2. CASE i \in 1 .. Depth(u) /\ ~(u = t /\ i = n + 1)
      <4>1. /\ frames'[u][i].method = frames[u][i].method
            /\ frames'[u][i].request = frames[u][i].request
            /\ frames'[u][i].alone => u # t /\ frames[u][i].alone
        BY <1>6, <2>1, <3>2
      <4>2. /\ frames[u][i].method <= started /\ fate[frames[u][i].method] = "running"
            /\ frames[u][i].request = Request(u)
            /\ requestOf[frames[u][i].method] = Request(u)
            /\ frames[u][i].alone => i = Depth(u)
        BY <3>2 DEF RequestInv, FramesAreOpen
      <4>3. frames'[u][1].request = Request(u)
        BY <1>7, <1>8, <1>2, <3>2 DEF Request
      <4>4. frames[u][i].method \in Calls /\ frames[u][i].method # c
        BY <1>5, <3>2
      <4>5. frames[u][i].method <= started'
        BY <1>2, <4>2, <4>4 DEF Calls
      <4>6. frames'[u][i].alone => i = Len(frames'[u])
        BY <1>2, <4>1, <4>2 DEF Depth
      <4> QED
        BY <1>3, <1>4, <4>1, <4>2, <4>3, <4>4, <4>5, <4>6
    <3> QED
      BY <1>6, <2>1, <3>1, <3>2
  <2>2. ASSUME NEW u \in Threads, NEW v \in Threads, NEW i \in 1 .. Len(frames'[u]),
               NEW j \in 1 .. Len(frames'[v]), frames'[u][i].method = frames'[v][j].method
        PROVE  u = v /\ i = j
    BY <1>5, <1>6, <2>2, SMTT(30) DEF RequestInv, FramesAreOpen
  <2> QED
    BY <2>1, <2>2 DEF FramesAreOpen, Depth, Request
<1>10. StampsFit'
  <2>1. ASSUME NEW u \in Threads
        PROVE  /\ stamp'[u] # NoStamp => stamp'[u] <= started'
               /\ frames'[u] # << >> /\ stamp'[u] # NoStamp
                      => requestOf'[stamp'[u]] = frames'[u][1].request
               /\ frames'[u] # << >> /\ frames'[u][Len(frames'[u])].alone
                      => stamp'[u] = frames'[u][Len(frames'[u])].method
    <3>1. CASE u = t
      <4>1. stamp'[u] = c
        BY <1>3, <3>1 DEF TypeOK
      <4>2. c <= started'
        BY <1>2
      <4> QED
        BY <1>1, <1>2, <1>4, <1>8, <3>1, <4>1, <4>2
    <3>2. CASE u # t
      <4>1. /\ stamp'[u] = stamp[u] /\ frames'[u] = frames[u]
            /\ stamp[u] # NoStamp => stamp[u] \in Calls
        BY <1>2, <1>3, <3>2 DEF TypeOK
      <4>2. stamp[u] # NoStamp => stamp[u] <= started
        BY DEF RequestInv, StampsFit
      <4>3. stamp[u] # NoStamp => stamp[u] <= started' /\ stamp[u] # c
        BY <1>2, <4>1, <4>2 DEF Calls
      <4> QED
        BY <1>4, <4>1, <4>3 DEF RequestInv, StampsFit, Request, Top
    <3> QED
      BY <3>1, <3>2
  <2> QED
    BY <2>1 DEF StampsFit, Request, Top
<1>11. PublishedIsTrue'
  <2>1. ASSUME NEW e \in published
        PROVE  /\ e.method \in Calls /\ e.method # c /\ e.start \in Calls /\ e.start # c
               /\ e.method <= c /\ e.start <= c
    <3>1. e.method \in Calls /\ e.start \in Calls
      BY DEF TypeOK, Event
    <3>2. e.method <= started /\ e.start <= started
      BY DEF RequestInv, PublishedIsTrue
    <3> QED
      BY <1>2, <3>1, <3>2 DEF Calls
  <2> QED
    BY <1>2, <1>3, <1>4, <2>1 DEF RequestInv, PublishedIsTrue
<1>12. AloneHaveEnded'
  BY <1>3 DEF RequestInv, AloneHaveEnded
<1>13. CallsToCome'
  <2>1. \A m \in Calls : m > started' => m > started
    BY <1>2 DEF Calls
  <2> QED
    BY <1>3, <2>1 DEF RequestInv, CallsToCome
<1> QED
  BY <1>9, <1>10, <1>11, <1>12, <1>13 DEF RequestInv

(* A method ends.                                                          *)
LEMMA EndsInv ==
    ASSUME TypeOK, RequestInv, NEW t \in Threads, NEW f \in Fates \ {"running"},
           Ends(t, f), f = "noStamp" => stamp[t] = NoStamp,
           stamp' = [stamp EXCEPT ![t] = NoStamp] \/ stamp' = stamp
    PROVE  /\ FramesAreOpen' /\ StampsFit' /\ AloneHaveEnded' /\ CallsToCome'
           /\ started' = started /\ requestOf' = requestOf
           /\ Top(t).method \in Calls /\ fate[Top(t).method] = "running"
           /\ fate' = [fate EXCEPT ![Top(t).method] = f]
           /\ requestOf[Top(t).method] = Request(t) /\ Top(t).method <= started
           /\ \A c \in Calls : c \in alone' => c \in alone \/ (Top(t).alone /\ c = Top(t).method)
<1> DEFINE n == Depth(t)
           m == Top(t).method
<1>1. /\ frames[t] # << >> /\ Pop(t)
      /\ fate' = [fate EXCEPT ![m] = f]
      /\ alone' = IF Top(t).alone THEN alone \cup {m} ELSE alone
      /\ started' = started /\ requestOf' = requestOf
  BY DEF Ends
<1>2. /\ n \in Nat \ {0} /\ n \in 1 .. n /\ n = Depth(t)
      /\ Top(t) = frames[t][n] /\ m \in Calls /\ m = frames[t][n].method
  BY <1>1, TopIsLast
<1>3. /\ Len(frames'[t]) = n - 1
      /\ \A i \in 1 .. n - 1 : frames'[t][i] = frames[t][i]
      /\ \A u \in Threads \ {t} : frames'[u] = frames[u]
      /\ frames' \in [Threads -> Seq(Frame)]
  BY <1>1, Popped
<1> HIDE DEF n
<1>4. /\ fate[m] = "running" /\ requestOf[m] = Request(t) /\ m <= started
  BY <1>2 DEF RequestInv, FramesAreOpen
<1>5. \A c \in Calls : fate'[c] = IF c = m THEN f ELSE fate[c]
  BY <1>1 DEF TypeOK
<1>6. ASSUME NEW u \in Threads, NEW i \in 1 .. Len(frames'[u])
      PROVE  /\ i \in 1 .. Depth(u) /\ frames'[u][i] = frames[u][i]
             /\ 1 \in 1 .. Len(frames'[u]) /\ frames'[u][1] = frames[u][1]
             /\ ~(u = t /\ i = n)
             /\ frames[u][i].method \in Calls
  <2>1. CASE u = t
    <3>1. i \in 1 .. n - 1 /\ 1 \in 1 .. n - 1 /\ i \in 1 .. n /\ i # n
      BY <1>2, <1>3, <1>6, <2>1
    <3>2. frames[u][i] \in Frame
      BY <1>2, <2>1, <3>1 DEF TypeOK, Depth
    <3>3. frames[u][i].method \in Calls
      BY <3>2 DEF Frame
    <3> QED
      BY <1>2, <1>3, <2>1, <3>1, <3>3
  <2>2. CASE u # t
    <3>1. frames'[u] = frames[u]
      BY <1>3, <2>2
    <3>2. Len(frames[u]) \in Nat /\ frames[u][i] \in Frame
      BY <1>6, <3>1 DEF TypeOK
    <3> QED
      BY <1>6, <2>2, <3>1, <3>2 DEF Depth, Frame
  <2> QED
    BY <2>1, <2>2
<1>7. ASSUME NEW u \in Threads, NEW i \in 1 .. Len(frames'[u])
      PROVE  /\ frames[u][i].method # m
             /\ frames'[u][i].alone => u # t
  BY <1>2, <1>6 DEF RequestInv, FramesAreOpen
<1>8. FramesAreOpen'
  <2>1. ASSUME NEW u \in Threads, NEW i \in 1 .. Len(frames'[u])
        PROVE  /\ frames'[u][i].method <= started'
               /\ fate'[frames'[u][i].method] = "running"
               /\ frames'[u][i].request = frames'[u][1].request
               /\ requestOf'[frames'[u][i].method] = frames'[u][1].request
               /\ frames'[u][i].alone => i = Len(frames'[u])
    <3>1. /\ i \in 1 .. Depth(u) /\ frames'[u][i] = frames[u][i]
          /\ frames'[u][1] = frames[u][1] /\ frames[u][i].method \in Calls
      BY <1>6, <2>1
    <3>4. frames[u][i].method # m
      BY <1>7, <2>1
    <3>2. /\ frames[u][i].method <= started /\ fate[frames[u][i].method] = "running"
          /\ frames[u][i].request = Request(u)
          /\ requestOf[frames[u][i].method] = Request(u)
          /\ frames[u][i].alone => i = Depth(u)
      BY <3>1 DEF RequestInv, FramesAreOpen
    <3>3. frames'[u][i].alone => i = Len(frames'[u])
      BY <1>2, <1>3, <1>6, <3>1, <3>2 DEF Depth
    <3> QED
      BY <1>1, <1>5, <3>1, <3>2, <3>3, <3>4 DEF Request
  <2>2. ASSUME NEW u \in Threads, NEW v \in Threads, NEW i \in 1 .. Len(frames'[u]),
               NEW j \in 1 .. Len(frames'[v]), frames'[u][i].method = frames'[v][j].method
        PROVE  u = v /\ i = j
    BY <1>6, <2>2, SMTT(30) DEF RequestInv, FramesAreOpen
  <2> QED
    BY <2>1, <2>2 DEF FramesAreOpen, Depth, Request
<1>9. StampsFit'
  <2>1. ASSUME NEW u \in Threads
        PROVE  /\ stamp'[u] # NoStamp => stamp'[u] <= started'
               /\ frames'[u] # << >> /\ stamp'[u] # NoStamp
                      => requestOf'[stamp'[u]] = frames'[u][1].request
               /\ frames'[u] # << >> /\ frames'[u][Len(frames'[u])].alone
                      => stamp'[u] = frames'[u][Len(frames'[u])].method
    <3>1. /\ stamp'[u] # NoStamp => stamp'[u] = stamp[u]
          /\ u # t => stamp'[u] = stamp[u]
      BY DEF TypeOK
    <3>2. /\ stamp[u] # NoStamp => stamp[u] <= started
          /\ frames[u] # << >> /\ stamp[u] # NoStamp => requestOf[stamp[u]] = Request(u)
          /\ frames[u] # << >> /\ Top(u).alone => stamp[u] = Top(u).method
      BY DEF RequestInv, StampsFit
    <3>3. CASE u # t
      BY <1>1, <1>3, <3>1, <3>2, <3>3 DEF Request, Top
    <3>4. CASE u = t /\ frames'[u] # << >>
      <4>1. n - 1 \in 1 .. n - 1 /\ 1 \in 1 .. n - 1
        BY <1>2, <1>3, <3>4
      <4>2. frames'[u][1] = frames[u][1]
        BY <1>3, <3>4, <4>1
      <4>3. n - 1 \in 1 .. Len(frames'[u])
        BY <1>3, <3>4, <4>1
      <4>4. ~frames'[u][n - 1].alone
        BY <1>7, <3>4, <4>3
      <4> QED
        BY <1>1, <1>3, <3>1, <3>2, <3>4, <4>2, <4>4 DEF Request
    <3>5. CASE u = t /\ frames'[u] = << >>
      BY <1>1, <3>1, <3>2, <3>5
    <3> QED
      BY <3>3, <3>4, <3>5
  <2> QED
    BY <2>1 DEF StampsFit, Request, Top
<1>10. AloneHaveEnded'
  <2>1. ASSUME NEW c \in alone' PROVE fate'[c] \notin {"running", "noStamp"}
    <3>1. CASE c = m /\ Top(t).alone
      <4>1. stamp[t] = m
        BY <1>1, <3>1 DEF RequestInv, StampsFit
      <4>2. f # "noStamp"
        BY <1>2, <4>1, StampsApart
      <4> QED
        BY <1>2, <1>5, <3>1, <4>2
    <3>2. CASE c \in alone
      <4>1. c \in Calls /\ fate[c] \notin {"running", "noStamp"}
        BY <3>2 DEF TypeOK, RequestInv, AloneHaveEnded
      <4> QED
        BY <1>4, <1>5, <4>1
    <3> QED
      BY <1>1, <2>1, <3>1, <3>2
  <2> QED
    BY <2>1 DEF AloneHaveEnded
<1>11. CallsToCome'
  BY <1>1, <1>2, <1>4, <1>5 DEF RequestInv, CallsToCome, TypeOK, Calls
<1> QED
  BY <1>1, <1>2, <1>4, <1>8, <1>9, <1>10, <1>11

(* What was published stays true when a method ends.                       *)
LEMMA PublishedStays ==
    ASSUME TypeOK, RequestInv, NEW m \in Calls, NEW f \in Fates,
           fate[m] = "running", fate' = [fate EXCEPT ![m] = f],
           UNCHANGED <<started, requestOf>>,
           \A c \in Calls : c \in alone' => c \in alone \/ c = m
    PROVE  \A e \in published :
               /\ e.method # m /\ fate'[e.method] = "logged"
               /\ e.method <= started' /\ e.start <= started'
               /\ requestOf'[e.start] = requestOf'[e.method]
               /\ e.method \in alone' => e.start = e.method
<1> SUFFICES ASSUME NEW e \in published
             PROVE  /\ e.method # m /\ fate'[e.method] = "logged"
                    /\ e.method <= started' /\ e.start <= started'
                    /\ requestOf'[e.start] = requestOf'[e.method]
                    /\ e.method \in alone' => e.start = e.method
  OBVIOUS
<1>1. e.method \in Calls
  BY DEF TypeOK, Event
<1>2. /\ fate[e.method] = "logged" /\ e.method <= started /\ e.start <= started
      /\ requestOf[e.start] = requestOf[e.method]
      /\ e.method \in alone => e.start = e.method
  BY DEF RequestInv, PublishedIsTrue
<1>3. e.method # m
  BY <1>2
<1> QED
  BY <1>1, <1>2, <1>3 DEF TypeOK

LEMMA PublishInv ==
    ASSUME TypeOK, RequestInv, NEW t \in Threads, Publish(t)
    PROVE  /\ RequestInv'
           /\ [method |-> Top(t).method, start |-> stamp[t]] \notin published
<1> DEFINE e == [method |-> Top(t).method, start |-> stamp[t]]
           m == Top(t).method
<1>1. /\ frames[t] # << >> /\ stamp[t] # NoStamp
      /\ Ends(t, "logged") /\ published' = published \cup {e}
      /\ stamp' = [stamp EXCEPT ![t] = NoStamp]
  BY DEF Publish, Removed
<1>2. "logged" \in Fates \ {"running"}
  BY DEF Fates
<1>3. /\ FramesAreOpen' /\ StampsFit' /\ AloneHaveEnded' /\ CallsToCome'
      /\ started' = started /\ requestOf' = requestOf
      /\ m \in Calls /\ fate[m] = "running"
      /\ fate' = [fate EXCEPT ![m] = "logged"]
      /\ requestOf[m] = Request(t) /\ m <= started
      /\ \A c \in Calls : c \in alone' => c \in alone \/ (Top(t).alone /\ c = m)
  BY <1>1, <1>2, EndsInv
<1>4. e.method = m /\ e.start = stamp[t]
  OBVIOUS
<1> HIDE DEF e, m
<1>5. \A x \in published :
          /\ x.method # m /\ fate'[x.method] = "logged"
          /\ x.method <= started' /\ x.start <= started'
          /\ requestOf'[x.start] = requestOf'[x.method]
          /\ x.method \in alone' => x.start = x.method
  BY <1>2, <1>3, PublishedStays
<1>6. /\ stamp[t] <= started /\ requestOf[stamp[t]] = Request(t)
      /\ Top(t).alone => stamp[t] = m
  BY <1>1 DEF RequestInv, StampsFit, m
<1>7. m \notin alone
  BY <1>3 DEF RequestInv, AloneHaveEnded
<1>8. /\ fate'[e.method] = "logged" /\ e.method <= started' /\ e.start <= started'
      /\ requestOf'[e.start] = requestOf'[e.method]
      /\ e.method \in alone' => e.start = e.method
  BY <1>3, <1>4, <1>6, <1>7 DEF TypeOK
<1>9. PublishedIsTrue'
  BY <1>1, <1>5, <1>8 DEF PublishedIsTrue
<1>10. e \notin published
  BY <1>4, <1>5
<1> QED
  BY <1>3, <1>9, <1>10 DEF RequestInv, e, m

LEMMA UnloggedInv ==
    ASSUME TypeOK, RequestInv, NEW t \in Threads, NEW f \in Fates, Unlogged(t, f)
    PROVE  RequestInv'
<1>1. /\ f \in Fates \ {"running"} /\ Ends(t, f)
      /\ f = "noStamp" => stamp[t] = NoStamp
      /\ stamp' = [stamp EXCEPT ![t] = NoStamp] \/ stamp' = stamp
      /\ published' = published
  BY DEF Unlogged
<1>2. /\ FramesAreOpen' /\ StampsFit' /\ AloneHaveEnded' /\ CallsToCome'
      /\ started' = started /\ requestOf' = requestOf
      /\ Top(t).method \in Calls /\ fate[Top(t).method] = "running"
      /\ fate' = [fate EXCEPT ![Top(t).method] = f]
      /\ \A c \in Calls : c \in alone' => c \in alone \/ c = Top(t).method
  BY <1>1, EndsInv
<1>3. PublishedIsTrue'
  BY <1>1, <1>2, PublishedStays DEF PublishedIsTrue
<1> QED
  BY <1>2, <1>3 DEF RequestInv

LEMMA RequestInvStays ==
    ASSUME RequestInv, UNCHANGED <<started, frames, stamp, fate, requestOf, alone, published>>
    PROVE  RequestInv'
BY DEF RequestInv, FramesAreOpen, StampsFit, PublishedIsTrue, AloneHaveEnded, CallsToCome,
       Depth, Request, Top

(* The slot holds the start of a call no older than any the thread is in.  *)
StampsAreLate ==
    \A t \in Threads : \A i \in 1 .. Depth(t) :
        stamp[t] # NoStamp => stamp[t] >= frames[t][i].method

StartsAreLate == \A e \in published : e.start >= e.method

LateInv == StampsAreLate /\ StartsAreLate

LEMMA LateInit == Init => LateInv
BY DEF Init, LateInv, StampsAreLate, StartsAreLate, Depth

LEMMA LateInvStays ==
    ASSUME LateInv, UNCHANGED <<frames, stamp, published>>
    PROVE  LateInv'
BY DEF LateInv, StampsAreLate, StartsAreLate, Depth

LEMMA DoBeforeLate ==
    ASSUME TypeOK, RequestInv, LateInv, NEW t \in Threads, DoBefore(t)
    PROVE  LateInv'
<1> DEFINE c == started + 1
           n == Depth(t)
<1>1. PICK r \in Calls :
         /\ IF n = 0 THEN r = c ELSE r = Top(t).request
         /\ frames'[t][n + 1] = [method |-> c, request |-> r, alone |-> TRUE]
         /\ requestOf' = [requestOf EXCEPT ![c] = r]
  BY Pushed
<1>2. /\ c \in Calls /\ started \in Nat /\ c = started + 1
      /\ Len(frames'[t]) = n + 1 /\ n \in Nat
      /\ \A i \in 1 .. n : frames'[t][i] = [frames[t][i] EXCEPT !.alone = FALSE]
      /\ \A u \in Threads \ {t} : frames'[u] = frames[u]
  BY Pushed
<1>3. stamp' = [stamp EXCEPT ![t] = c] /\ published' = published
  BY DEF DoBefore
<1> HIDE DEF c
<1>4. ASSUME NEW i \in 1 .. n + 1 PROVE c >= frames'[t][i].method
  <2>1. CASE i = n + 1
    BY <1>1, <1>2, <2>1 DEF Calls
  <2>2. CASE i \in 1 .. n
    <3>1. frames[t][i] \in Frame /\ frames[t][i].method <= started
      <4>1. frames[t][i] \in Frame
        BY <2>2 DEF TypeOK, Depth
      <4>2. frames[t][i].method <= started
        BY <2>2 DEF RequestInv, FramesAreOpen
      <4> QED
        BY <4>1, <4>2
    <3>2. frames'[t][i].method = frames[t][i].method /\ frames[t][i].method \in Nat
      <4>1. frames'[t][i] = [frames[t][i] EXCEPT !.alone = FALSE]
        BY <1>2, <2>2
      <4> QED
        BY <3>1, <4>1, StampsApart DEF Frame
    <3> QED
      BY <1>2, <3>1, <3>2
  <2> QED
    BY <1>2, <1>4, <2>1, <2>2
<1>5. StampsAreLate'
  <2> SUFFICES ASSUME NEW u \in Threads, NEW i \in 1 .. Len(frames'[u]),
                      stamp'[u] # NoStamp
               PROVE  stamp'[u] >= frames'[u][i].method
    BY DEF StampsAreLate, Depth
  <2>1. CASE u = t
    BY <1>2, <1>3, <1>4, <2>1 DEF TypeOK
  <2>2. CASE u # t
    <3>1. stamp'[u] = stamp[u] /\ frames'[u] = frames[u]
      BY <1>2, <1>3, <2>2 DEF TypeOK
    <3> QED
      BY <3>1 DEF LateInv, StampsAreLate, Depth
  <2> QED
    BY <2>1, <2>2
<1> QED
  BY <1>3, <1>5 DEF LateInv, StartsAreLate

(* A method ends, with its log or without: fewer calls are open, and the   *)
(* start that was in the slot is the one of the log.                       *)
LEMMA EndsLate ==
    ASSUME TypeOK, LateInv, NEW t \in Threads, frames[t] # << >>, Pop(t),
           stamp' = [stamp EXCEPT ![t] = NoStamp] \/ stamp' = stamp,
           \/ published' = published
           \/ /\ stamp[t] # NoStamp
              /\ published' = published \cup {[method |-> Top(t).method, start |-> stamp[t]]}
    PROVE  LateInv'
<1>1. /\ Len(frames'[t]) = Depth(t) - 1 /\ Depth(t) \in Nat \ {0}
      /\ \A i \in 1 .. Depth(t) - 1 : frames'[t][i] = frames[t][i]
      /\ \A u \in Threads \ {t} : frames'[u] = frames[u]
  BY Popped, TopIsLast
<1>2. StampsAreLate'
  <2> SUFFICES ASSUME NEW u \in Threads, NEW i \in 1 .. Len(frames'[u]),
                      stamp'[u] # NoStamp
               PROVE  stamp'[u] >= frames'[u][i].method
    BY DEF StampsAreLate, Depth
  <2>1. stamp'[u] = stamp[u]
    BY DEF TypeOK
  <2>2. i \in 1 .. Depth(u) /\ frames'[u][i] = frames[u][i]
    <3>1. CASE u = t
      BY <1>1, <3>1
    <3>2. CASE u # t
      BY <1>1, <3>2 DEF Depth
    <3> QED
      BY <3>1, <3>2
  <2> QED
    BY <2>1, <2>2 DEF LateInv, StampsAreLate
<1>3. stamp[t] # NoStamp => stamp[t] >= Top(t).method
  BY TopIsLast DEF LateInv, StampsAreLate
<1>4. StartsAreLate'
  BY <1>3 DEF LateInv, StartsAreLate
<1> QED
  BY <1>2, <1>4 DEF LateInv

LEMMA LateStep == TypeOK /\ RequestInv /\ LateInv /\ [Next]_vars => LateInv'
<1> SUFFICES ASSUME TypeOK, RequestInv, LateInv, [Next]_vars PROVE LateInv'
  OBVIOUS
<1>1. CASE Next
  <2>1. ASSUME NEW t \in Threads, Publish(t) PROVE LateInv'
    BY <2>1, EndsLate DEF Publish, Ends, Removed
  <2>2. ASSUME NEW t \in Threads, NEW f \in Fates, Unlogged(t, f) PROVE LateInv'
    BY <2>2, EndsLate DEF Unlogged, Ends
  <2>3. CASE PoolStep
    <3>1. UNCHANGED RequestSide
      BY <2>3 DEF PoolStep, Take, SaveSysLog, Expire, SaveInline
    <3> QED
      BY <3>1, LateInvStays DEF RequestSide
  <2>4. CASE Close \/ Halt
    BY <2>4, LateInvStays DEF Close, Halt
  <2> QED
    BY <1>1, <2>1, <2>2, <2>3, <2>4, Steps, DoBeforeLate
<1>2. CASE UNCHANGED vars
  BY <1>2, LateInvStays DEF vars
<1> QED
  BY <1>1, <1>2

LEMMA RequestInvStep == TypeOK /\ RequestInv /\ [Next]_vars => RequestInv'
<1> SUFFICES ASSUME TypeOK, RequestInv, [Next]_vars PROVE RequestInv'
  OBVIOUS
<1>1. CASE Next
  <2>1. CASE Close \/ Halt
    BY <2>1, RequestInvStays DEF Close, Halt
  <2>2. CASE PoolStep
    <3>1. UNCHANGED RequestSide
      BY <2>2 DEF PoolStep, Take, SaveSysLog, Expire, SaveInline
    <3> QED
      BY <3>1, RequestInvStays DEF RequestSide
  <2> QED
    BY <1>1, <2>1, <2>2, Steps, DoBeforeInv, PublishInv, UnloggedInv
<1>2. CASE UNCHANGED vars
  BY <1>2, RequestInvStays DEF vars
<1> QED
  BY <1>1, <1>2

-----------------------------------------------------------------------------
(* The inductive invariant of the pool.                                    *)

Working == {w \in Workers : running[w] \in Event}
HeldUp == {t \in Threads : Busy(t)}
QueuePlaces == 1 .. Len(queue)

(* An event is published if and only if it is saved or somewhere in the    *)
(* pool.                                                                   *)
EventsArePlaced ==
    \A e \in Event :
        e \in published <=> \/ e \in saved
                            \/ \E i \in QueuePlaces : queue[i] = e
                            \/ \E w \in Workers : running[w] = e
                            \/ \E t \in Threads : inline[t] = e

(* No event is in two places.                                              *)
PlacesAreDisjoint ==
    /\ \A i \in QueuePlaces : queue[i] \notin saved
    /\ \A w \in Working : running[w] \notin saved
    /\ \A t \in HeldUp : inline[t] \notin saved
    /\ \A i, j \in QueuePlaces : queue[i] = queue[j] => i = j
    /\ \A w, v \in Working : running[w] = running[v] => w = v
    /\ \A t, u \in HeldUp : inline[t] = inline[u] => t = u
    /\ \A i \in QueuePlaces : \A w \in Workers : queue[i] # running[w]
    /\ \A i \in QueuePlaces : \A t \in Threads : queue[i] # inline[t]
    /\ \A w \in Working : \A t \in Threads : running[w] # inline[t]

CountsAgree ==
    /\ IsFiniteSet(published) /\ IsFiniteSet(saved)
    /\ IsFiniteSet(Working) /\ IsFiniteSet(HeldUp)
    /\ Cardinality(published) =
           Cardinality(saved) + Len(queue) + Cardinality(Working) + Cardinality(HeldUp)

PoolInv ==
    /\ EventsArePlaced /\ PlacesAreDisjoint /\ CountsAgree
    /\ Len(queue) <= QueueSize

LEMMA Apart ==
    ASSUME TypeOK
    PROVE  /\ \A w \in Workers : w \in Working <=> running[w] \notin {NoEvent, NotStarted}
           /\ \A t \in Threads : t \in HeldUp <=> inline[t] # NoEvent
           /\ \A t \in Threads : t \in HeldUp <=> inline[t] \in Event
           /\ Len(queue) \in Nat /\ \A i \in QueuePlaces : queue[i] \in Event
BY StampsApart DEF TypeOK, Working, HeldUp, Busy, QueuePlaces

LEMMA PoolInvInit == Init => PoolInv
<1> SUFFICES ASSUME Init PROVE PoolInv
  OBVIOUS
<1>1. TypeOK
  BY TypeInit
<1>2. /\ published = {} /\ saved = {} /\ queue = << >> /\ Len(queue) = 0 /\ QueuePlaces = {}
      /\ \A w \in Workers : running[w] = NotStarted
      /\ \A t \in Threads : inline[t] = NoEvent
  BY DEF Init, QueuePlaces
<1>3. Working = {} /\ HeldUp = {}
  BY <1>1, <1>2, Apart DEF Working, HeldUp
<1>4. CountsAgree
  BY <1>2, <1>3, FS_EmptySet DEF CountsAgree
<1>5. EventsArePlaced
  BY <1>2, StampsApart DEF EventsArePlaced
<1>6. PlacesAreDisjoint
  BY <1>2, <1>3 DEF PlacesAreDisjoint
<1>7. Len(queue) <= QueueSize
  BY <1>2, LogAssumption
<1> QED
  BY <1>4, <1>5, <1>6, <1>7 DEF PoolInv

(* One element more, one element less.                                     *)
LEMMA OneMore ==
    ASSUME NEW S, IsFiniteSet(S), NEW x, x \notin S
    PROVE  /\ IsFiniteSet(S \cup {x}) /\ Cardinality(S) \in Nat
           /\ Cardinality(S \cup {x}) = Cardinality(S) + 1
BY FS_AddElement, FS_CardinalityType

LEMMA OneLess ==
    ASSUME NEW S, IsFiniteSet(S), NEW x \in S
    PROVE  /\ IsFiniteSet(S \ {x}) /\ Cardinality(S) \in Nat
           /\ Cardinality(S \ {x}) = Cardinality(S) - 1
BY FS_RemoveElement, FS_CardinalityType

(* An event that is published is in no place yet, and takes one.           *)
LEMMA ArrivesAtWorker ==
    ASSUME TypeOK, TypeOK', PoolInv, NEW e \in Event, e \notin published,
           published' = published \cup {e}, saved' = saved,
           NEW w \in Workers, running[w] = NotStarted,
           running' = [running EXCEPT ![w] = e], UNCHANGED <<queue, inline>>
    PROVE  PoolInv'
<1>1. /\ w \notin Working /\ Working' = Working \cup {w} /\ HeldUp' = HeldUp
      /\ QueuePlaces' = QueuePlaces
  BY StampsApart DEF Working, HeldUp, Busy, QueuePlaces, TypeOK
<1>2. /\ running'[w] = e /\ \A v \in Workers \ {w} : running'[v] = running[v]
  BY DEF TypeOK
<1>3. EventsArePlaced'
  BY <1>1, <1>2, StampsApart DEF PoolInv, EventsArePlaced
<1>4. /\ e \notin saved /\ \A i \in QueuePlaces : queue[i] # e
      /\ \A v \in Workers : running[v] # e /\ \A t \in Threads : inline[t] # e
  BY DEF PoolInv, EventsArePlaced
<1>5. PlacesAreDisjoint'
  BY <1>1, <1>2, <1>4 DEF PoolInv, PlacesAreDisjoint, Working, HeldUp
<1>6. CountsAgree'
  <2>1. Cardinality(HeldUp) \in Nat /\ Cardinality(saved) \in Nat /\ Len(queue) \in Nat
    BY Apart, FS_CardinalityType DEF PoolInv, CountsAgree
  <2>2. /\ IsFiniteSet(Working') /\ Cardinality(Working') = Cardinality(Working) + 1
        /\ Cardinality(Working) \in Nat
    BY <1>1, OneMore DEF PoolInv, CountsAgree
  <2>3. IsFiniteSet(published') /\ Cardinality(published') = Cardinality(published) + 1
    BY OneMore DEF PoolInv, CountsAgree
  <2> QED
    BY <1>1, <2>1, <2>2, <2>3 DEF PoolInv, CountsAgree
<1> QED
  BY <1>3, <1>5, <1>6 DEF PoolInv

LEMMA ArrivesInQueue ==
    ASSUME TypeOK, TypeOK', PoolInv, NEW e \in Event, e \notin published,
           published' = published \cup {e}, saved' = saved,
           Len(queue) < QueueSize, UNCHANGED <<running, inline>>,
           Len(queue') = Len(queue) + 1, queue'[Len(queue) + 1] = e,
           \A i \in 1 .. Len(queue) : queue'[i] = queue[i]
    PROVE  PoolInv'
<1>1. /\ Working' = Working /\ HeldUp' = HeldUp
      /\ Len(queue) \in Nat /\ Len(queue') = Len(queue) + 1
      /\ queue'[Len(queue) + 1] = e
      /\ \A i \in QueuePlaces : queue'[i] = queue[i]
  BY DEF Working, HeldUp, Busy, QueuePlaces, TypeOK
<1>2. QueuePlaces' = QueuePlaces \cup {Len(queue) + 1} /\ Len(queue) + 1 \notin QueuePlaces
  BY <1>1 DEF QueuePlaces
<1>3. EventsArePlaced'
  BY <1>1, <1>2 DEF PoolInv, EventsArePlaced
<1>4. /\ e \notin saved /\ \A i \in QueuePlaces : queue[i] # e
      /\ \A v \in Workers : running[v] # e
      /\ \A t \in Threads : inline[t] # e
  BY DEF PoolInv, EventsArePlaced
<1>5. PlacesAreDisjoint'
  <2> DEFINE n == Len(queue) + 1
  <2>1. \A i \in QueuePlaces' : \/ i = n /\ queue'[i] = e
                                \/ i \in QueuePlaces /\ i # n /\ queue'[i] = queue[i]
    BY <1>1, <1>2
  <2> HIDE DEF n
  <2>2. \A i \in QueuePlaces' : queue'[i] \notin saved
    BY <1>4, <2>1 DEF PoolInv, PlacesAreDisjoint
  <2>3. ASSUME NEW i \in QueuePlaces', NEW j \in QueuePlaces', queue'[i] = queue'[j]
        PROVE  i = j
    <3>1. CASE i \in QueuePlaces /\ j \in QueuePlaces
      BY <2>1, <2>3, <3>1, <1>1 DEF PoolInv, PlacesAreDisjoint
    <3>2. CASE i = n \/ j = n
      BY <1>4, <2>1, <2>3, <3>2
    <3> QED
      BY <2>1, <3>1, <3>2
  <2>4. ASSUME NEW i \in QueuePlaces'
        PROVE  /\ \A v \in Workers : queue'[i] # running[v]
               /\ \A t \in Threads : queue'[i] # inline[t]
    <3>1. CASE i \in QueuePlaces
      BY <1>1, <3>1 DEF PoolInv, PlacesAreDisjoint
    <3>2. CASE i = n
      BY <1>4, <2>1, <3>2
    <3> QED
      BY <2>1, <3>1, <3>2
  <2>5. \A i, j \in QueuePlaces' : queue'[i] = queue'[j] => i = j
    BY <2>3
  <2>6. \A w \in Working : \A t \in Threads : running[w] # inline[t]
    BY DEF PoolInv, PlacesAreDisjoint
  <2>7. /\ \A w \in Working : running[w] \notin saved
        /\ \A t \in HeldUp : inline[t] \notin saved
        /\ \A w, v \in Working : running[w] = running[v] => w = v
        /\ \A t, u \in HeldUp : inline[t] = inline[u] => t = u
    BY DEF PoolInv, PlacesAreDisjoint
  <2> QED
    BY <1>1, <2>2, <2>4, <2>5, <2>6, <2>7 DEF PlacesAreDisjoint
<1>6. CountsAgree'
  <2>1. /\ Cardinality(HeldUp) \in Nat /\ Cardinality(saved) \in Nat
        /\ Cardinality(Working) \in Nat
    BY FS_CardinalityType DEF PoolInv, CountsAgree
  <2>2. IsFiniteSet(published') /\ Cardinality(published') = Cardinality(published) + 1
    BY OneMore DEF PoolInv, CountsAgree
  <2> QED
    BY <1>1, <2>1, <2>2 DEF PoolInv, CountsAgree
<1>7. Len(queue') <= QueueSize
  BY <1>1, LogAssumption
<1> QED
  BY <1>3, <1>5, <1>6, <1>7 DEF PoolInv

LEMMA ArrivesAtCaller ==
    ASSUME TypeOK, TypeOK', PoolInv, NEW e \in Event, e \notin published,
           published' = published \cup {e}, saved' = saved,
           NEW t \in Threads, inline[t] = NoEvent,
           inline' = [inline EXCEPT ![t] = e], UNCHANGED <<queue, running>>
    PROVE  PoolInv'
<1>1. /\ t \notin HeldUp /\ HeldUp' = HeldUp \cup {t} /\ Working' = Working
      /\ QueuePlaces' = QueuePlaces
  BY StampsApart DEF Working, HeldUp, Busy, QueuePlaces, TypeOK
<1>2. /\ inline'[t] = e /\ \A u \in Threads \ {t} : inline'[u] = inline[u]
  BY DEF TypeOK
<1>3. EventsArePlaced'
  BY <1>1, <1>2, StampsApart DEF PoolInv, EventsArePlaced
<1>4. /\ e \notin saved /\ \A i \in QueuePlaces : queue[i] # e
      /\ \A v \in Workers : running[v] # e
      /\ \A u \in Threads : inline[u] # e
  BY DEF PoolInv, EventsArePlaced
<1>5. PlacesAreDisjoint'
  BY <1>1, <1>2, <1>4 DEF PoolInv, PlacesAreDisjoint, Working, HeldUp
<1>6. CountsAgree'
  <2>1. Cardinality(Working) \in Nat /\ Cardinality(saved) \in Nat /\ Len(queue) \in Nat
    BY Apart, FS_CardinalityType DEF PoolInv, CountsAgree
  <2>2. /\ IsFiniteSet(HeldUp') /\ Cardinality(HeldUp') = Cardinality(HeldUp) + 1
        /\ Cardinality(HeldUp) \in Nat
    BY <1>1, OneMore DEF PoolInv, CountsAgree
  <2>3. IsFiniteSet(published') /\ Cardinality(published') = Cardinality(published) + 1
    BY OneMore DEF PoolInv, CountsAgree
  <2> QED
    BY <1>1, <2>1, <2>2, <2>3 DEF PoolInv, CountsAgree
<1> QED
  BY <1>3, <1>5, <1>6 DEF PoolInv

LEMMA PublishKeepsPlaces ==
    ASSUME TypeOK, TypeOK', RequestInv, PoolInv, NEW t \in Threads, Publish(t)
    PROVE  PoolInv'
<1> DEFINE e == [method |-> Top(t).method, start |-> stamp[t]]
<1>1. /\ frames[t] # << >> /\ stamp[t] # NoStamp
      /\ published' = published \cup {e} /\ Execute(t, e)
      /\ saved' = saved /\ inline[t] = NoEvent
  BY DEF Publish, Ends, Busy
<1>2. e \in Event /\ e \notin published
  BY <1>1, EventPublished, PublishInv
<1> HIDE DEF e
<1>3. CASE \E w \in Workers : /\ running[w] = NotStarted
                              /\ running' = [running EXCEPT ![w] = e]
                              /\ UNCHANGED <<queue, inline>>
  BY <1>1, <1>2, <1>3, ArrivesAtWorker
<1>4. CASE /\ Len(queue) < QueueSize /\ queue' = Append(queue, e)
           /\ UNCHANGED <<running, inline>>
  <2>1. /\ Len(queue') = Len(queue) + 1 /\ queue'[Len(queue) + 1] = e
        /\ \A i \in 1 .. Len(queue) : queue'[i] = queue[i]
    BY <1>2, <1>4, QueueTyped DEF TypeOK
  <2> QED
    BY <1>1, <1>2, <1>4, <2>1, ArrivesInQueue
<1>5. CASE inline' = [inline EXCEPT ![t] = e] /\ UNCHANGED <<queue, running>>
  BY <1>1, <1>2, <1>5, ArrivesAtCaller
<1> QED
  BY <1>1, <1>2, <1>3, <1>4, <1>5, Executed

(* A thread of the pool takes the event at the head of the queue.          *)
LEMMA TakeKeepsPlaces ==
    ASSUME TypeOK, TypeOK', PoolInv, NEW w \in Workers, Take(w)
    PROVE  PoolInv'
<1> DEFINE e == Head(queue)
<1>1. /\ running[w] = NoEvent /\ running' = [running EXCEPT ![w] = e]
      /\ queue # << >> /\ queue' = Tail(queue)
      /\ UNCHANGED <<published, inline, saved>>
  BY DEF Take, RequestSide
<1>2. /\ e \in Event /\ e = queue[1] /\ Len(queue) \in Nat \ {0}
      /\ Len(queue') = Len(queue) - 1
      /\ \A i \in 1 .. Len(queue) - 1 : queue'[i] = queue[i + 1]
  BY <1>1, QueueTyped DEF TypeOK
<1> HIDE DEF e
<1>3. /\ w \notin Working /\ Working' = Working \cup {w} /\ HeldUp' = HeldUp
  BY <1>1, <1>2, StampsApart DEF Working, HeldUp, Busy, TypeOK
<1>4. /\ running'[w] = e /\ \A v \in Workers \ {w} : running'[v] = running[v]
  BY <1>1 DEF TypeOK
<1>5. /\ 1 \in QueuePlaces
      /\ \A i \in QueuePlaces' : i + 1 \in QueuePlaces /\ i + 1 # 1 /\ queue'[i] = queue[i + 1]
      /\ \A i \in QueuePlaces : i # 1 => i - 1 \in QueuePlaces' /\ queue'[i - 1] = queue[i]
  BY <1>2 DEF QueuePlaces
<1>6. EventsArePlaced'
  <2> SUFFICES ASSUME NEW x \in Event
               PROVE  x \in published <=> \/ x \in saved
                                          \/ \E i \in QueuePlaces' : queue'[i] = x
                                          \/ \E v \in Workers : running'[v] = x
                                          \/ \E t \in Threads : inline[t] = x
    BY <1>1 DEF EventsArePlaced
  <2>1. (\E i \in QueuePlaces : queue[i] = x) <=>
            x = e \/ \E i \in QueuePlaces' : queue'[i] = x
    <3>1. ASSUME NEW i \in QueuePlaces, queue[i] = x
          PROVE  x = e \/ \E j \in QueuePlaces' : queue'[j] = x
      BY <1>2, <1>5, <3>1
    <3>2. ASSUME NEW j \in QueuePlaces', queue'[j] = x
          PROVE  \E i \in QueuePlaces : queue[i] = x
      BY <1>5, <3>2
    <3> QED
      BY <1>2, <1>5, <3>1, <3>2
  <2>2. (\E v \in Workers : running'[v] = x) <=> x = e \/ \E v \in Workers : running[v] = x
    BY <1>1, <1>4, StampsApart
  <2> QED
    BY <2>1, <2>2 DEF PoolInv, EventsArePlaced
<1>7. PlacesAreDisjoint'
  <2>1. /\ e \notin saved /\ \A i \in QueuePlaces' : queue'[i] # e
        /\ \A v \in Workers : running[v] # e /\ \A t \in Threads : inline[t] # e
    BY <1>2, <1>5 DEF PoolInv, PlacesAreDisjoint
  <2>2. /\ \A i \in QueuePlaces' : queue'[i] \notin saved
        /\ \A i \in QueuePlaces' : \A v \in Workers : queue'[i] # running'[v]
        /\ \A i \in QueuePlaces' : \A t \in Threads : queue'[i] # inline[t]
    BY <1>4, <1>5, <2>1 DEF PoolInv, PlacesAreDisjoint
  <2>3. ASSUME NEW i \in QueuePlaces', NEW j \in QueuePlaces', queue'[i] = queue'[j]
        PROVE  i = j
    <3>1. i \in Int /\ j \in Int
      BY DEF QueuePlaces
    <3>2. /\ i + 1 \in QueuePlaces /\ j + 1 \in QueuePlaces
          /\ queue[i + 1] = queue[j + 1]
      BY <1>5, <2>3
    <3>3. i + 1 = j + 1
      BY <3>2 DEF PoolInv, PlacesAreDisjoint
    <3> QED
      BY <3>1, <3>3
  <2>4. /\ \A v \in Working' : running'[v] \notin saved
        /\ \A v, x \in Working' : running'[v] = running'[x] => v = x
        /\ \A v \in Working' : \A t \in Threads : running'[v] # inline[t]
    BY <1>3, <1>4, <2>1 DEF PoolInv, PlacesAreDisjoint, Working
  <2>5. \A i, j \in QueuePlaces' : queue'[i] = queue'[j] => i = j
    BY <2>3
  <2>6. /\ \A t \in HeldUp : inline[t] \notin saved
        /\ \A t, u \in HeldUp : inline[t] = inline[u] => t = u
    BY DEF PoolInv, PlacesAreDisjoint
  <2>7. saved' = saved /\ inline' = inline
    BY <1>1
  <2> QED
    BY <1>3, <2>2, <2>4, <2>5, <2>6, <2>7 DEF PlacesAreDisjoint
<1>8. CountsAgree'
  <2>1. /\ Cardinality(HeldUp) \in Nat /\ Cardinality(saved) \in Nat
        /\ IsFiniteSet(Working') /\ Cardinality(Working') = Cardinality(Working) + 1
        /\ Cardinality(Working) \in Nat
    BY <1>3, OneMore, FS_CardinalityType DEF PoolInv, CountsAgree
  <2> QED
    BY <1>1, <1>2, <1>3, <2>1 DEF PoolInv, CountsAgree
<1>9. Len(queue') <= QueueSize
  BY <1>2, LogAssumption DEF PoolInv
<1> QED
  BY <1>6, <1>7, <1>8, <1>9 DEF PoolInv

(* A listener returns, on a thread of the pool or on the request thread.   *)
LEMMA SaveKeepsPlaces ==
    ASSUME TypeOK, TypeOK', PoolInv, NEW w \in Workers, SaveSysLog(w)
    PROVE  PoolInv'
<1>1. /\ running[w] \in Event /\ saved' = saved \cup {running[w]}
      /\ running' = [running EXCEPT ![w] = NoEvent]
      /\ UNCHANGED <<published, queue, inline>>
  BY DEF SaveSysLog, RequestSide
<1>2. /\ w \in Working /\ Working' = Working \ {w} /\ HeldUp' = HeldUp
      /\ QueuePlaces' = QueuePlaces
  BY <1>1, StampsApart DEF Working, HeldUp, Busy, QueuePlaces, TypeOK
<1>3. /\ running'[w] = NoEvent /\ \A v \in Workers \ {w} : running'[v] = running[v]
  BY <1>1 DEF TypeOK
<1>4. EventsArePlaced'
  BY <1>1, <1>2, <1>3, StampsApart DEF PoolInv, EventsArePlaced
<1>5. PlacesAreDisjoint'
  BY <1>1, <1>2, <1>3, StampsApart, Apart DEF PoolInv, PlacesAreDisjoint, Working, HeldUp
<1>6. CountsAgree'
  <2>1. /\ Cardinality(HeldUp) \in Nat /\ Len(queue) \in Nat
        /\ IsFiniteSet(Working') /\ Cardinality(Working') = Cardinality(Working) - 1
        /\ Cardinality(Working) \in Nat
    BY <1>2, OneLess, FS_CardinalityType, Apart DEF PoolInv, CountsAgree
  <2>2. /\ IsFiniteSet(saved') /\ Cardinality(saved') = Cardinality(saved) + 1
        /\ Cardinality(saved) \in Nat
    BY <1>1, <1>2, OneMore DEF PoolInv, CountsAgree, PlacesAreDisjoint
  <2> QED
    BY <1>1, <1>2, <2>1, <2>2 DEF PoolInv, CountsAgree
<1> QED
  BY <1>1, <1>4, <1>5, <1>6 DEF PoolInv

LEMMA SaveInlineKeepsPlaces ==
    ASSUME TypeOK, TypeOK', PoolInv, NEW t \in Threads, SaveInline(t)
    PROVE  PoolInv'
<1>1. /\ inline[t] \in Event /\ saved' = saved \cup {inline[t]}
      /\ inline' = [inline EXCEPT ![t] = NoEvent]
      /\ UNCHANGED <<published, queue, running>>
  BY DEF SaveInline, RequestSide, Busy, TypeOK
<1>2. /\ t \in HeldUp /\ HeldUp' = HeldUp \ {t} /\ Working' = Working
      /\ QueuePlaces' = QueuePlaces
  BY <1>1, StampsApart DEF Working, HeldUp, Busy, QueuePlaces, TypeOK
<1>3. /\ inline'[t] = NoEvent /\ \A u \in Threads \ {t} : inline'[u] = inline[u]
  BY <1>1 DEF TypeOK
<1>4. EventsArePlaced'
  BY <1>1, <1>2, <1>3, StampsApart DEF PoolInv, EventsArePlaced
<1>5. PlacesAreDisjoint'
  BY <1>1, <1>2, <1>3, StampsApart, Apart DEF PoolInv, PlacesAreDisjoint, Working, HeldUp
<1>6. CountsAgree'
  <2>1. /\ Cardinality(Working) \in Nat /\ Len(queue) \in Nat
        /\ IsFiniteSet(HeldUp') /\ Cardinality(HeldUp') = Cardinality(HeldUp) - 1
        /\ Cardinality(HeldUp) \in Nat
    BY <1>2, OneLess, FS_CardinalityType, Apart DEF PoolInv, CountsAgree
  <2>2. /\ IsFiniteSet(saved') /\ Cardinality(saved') = Cardinality(saved) + 1
        /\ Cardinality(saved) \in Nat
    BY <1>1, <1>2, OneMore DEF PoolInv, CountsAgree, PlacesAreDisjoint
  <2> QED
    BY <1>1, <1>2, <2>1, <2>2 DEF PoolInv, CountsAgree
<1> QED
  BY <1>1, <1>4, <1>5, <1>6 DEF PoolInv

LEMMA PoolInvStays ==
    ASSUME TypeOK, PoolInv, UNCHANGED <<published, saved, queue, inline>>,
           \A w \in Workers : running'[w] = running[w]
                              \/ {running[w], running'[w]} \subseteq {NoEvent, NotStarted}
    PROVE  PoolInv'
<1>1. Working' = Working /\ HeldUp' = HeldUp /\ QueuePlaces' = QueuePlaces
  BY StampsApart DEF Working, HeldUp, Busy, QueuePlaces
<1>2. \A e \in Event, w \in Workers : running'[w] = e <=> running[w] = e
  BY StampsApart
<1>3. EventsArePlaced'
  BY <1>1, <1>2 DEF PoolInv, EventsArePlaced
<1>4. PlacesAreDisjoint'
  BY <1>1, <1>2, Apart DEF PoolInv, PlacesAreDisjoint, Working
<1>5. CountsAgree'
  BY <1>1 DEF PoolInv, CountsAgree
<1> QED
  BY <1>3, <1>4, <1>5 DEF PoolInv

LEMMA PoolInvStep == TypeOK /\ RequestInv /\ PoolInv /\ [Next]_vars => PoolInv'
<1> SUFFICES ASSUME TypeOK, RequestInv, PoolInv, [Next]_vars PROVE PoolInv'
  OBVIOUS
<1>1. TypeOK'
  BY TypeStep
<1>2. CASE Next
  <2>1. ASSUME NEW t \in Threads, DoBefore(t) PROVE PoolInv'
    BY <2>1, PoolInvStays DEF DoBefore, pool
  <2>2. ASSUME NEW t \in Threads, NEW f \in Fates, Unlogged(t, f) PROVE PoolInv'
    BY <2>2, PoolInvStays DEF Unlogged, Ends
  <2>3. CASE Close \/ Halt
    BY <2>3, PoolInvStays DEF Close, Halt, pool
  <2>4. ASSUME NEW w \in Workers, Expire(w) PROVE PoolInv'
    <3>1. \A v \in Workers : running'[v] = running[v]
                             \/ {running[v], running'[v]} \subseteq {NoEvent, NotStarted}
      BY <2>4 DEF Expire, TypeOK
    <3> QED
      BY <2>4, <3>1, PoolInvStays DEF Expire, RequestSide
  <2> QED
    BY <1>1, <1>2, <2>1, <2>2, <2>3, <2>4, Steps, PublishKeepsPlaces, TakeKeepsPlaces,
       SaveKeepsPlaces, SaveInlineKeepsPlaces DEF PoolStep
<1>3. CASE UNCHANGED vars
  BY <1>3, PoolInvStays DEF vars, pool
<1> QED
  BY <1>2, <1>3

-----------------------------------------------------------------------------
(* The theorems.                                                           *)

IInv == TypeOK /\ RequestInv /\ LateInv /\ PoolInv

LEMMA Invariant == Spec => []IInv
<1>1. Init => IInv
  BY TypeInit, RequestInvInit, LateInit, PoolInvInit DEF IInv
<1>2. IInv /\ [Next]_vars => IInv'
  BY TypeStep, RequestInvStep, LateStep, PoolInvStep DEF IInv
<1> QED
  BY <1>1, <1>2, PTL DEF Spec

(* The state is well typed: a stack of methods of bounded depth for every  *)
(* thread, events in the pool.                                             *)
THEOREM TypeCorrect == Spec => []TypeOK
<1>1. IInv => TypeOK
  BY DEF IInv
<1> QED
  BY <1>1, Invariant, PTL

(* Every published event is saved or in exactly one place of the pool,     *)
(* for any number of threads and any size of the queue.                    *)
THEOREM Conservation == Spec => []EventsConserved
<1>1. IInv => EventsConserved
  <2> SUFFICES ASSUME IInv PROVE EventsConserved
    OBVIOUS
  <2>1. published = saved \cup InQueue \cup InWorkers \cup InCallers
    <3>1. published \subseteq Event /\ saved \subseteq Event /\ InQueue \subseteq Event
      BY Apart DEF IInv, TypeOK, InQueue, QueuePlaces
    <3>2. \A e \in Event : e \in published <=>
              e \in saved \cup InQueue \cup InWorkers \cup InCallers
      BY DEF IInv, PoolInv, EventsArePlaced, InQueue, InWorkers, InCallers, QueuePlaces
    <3> QED
      BY <3>1, <3>2 DEF InWorkers, InCallers
  <2>2. /\ Working = {w \in Workers : running[w] \in Event}
        /\ HeldUp = {t \in Threads : Busy(t)}
    BY DEF Working, HeldUp
  <2> QED
    BY <2>1, <2>2 DEF IInv, PoolInv, CountsAgree, EventsConserved
<1> QED
  BY <1>1, Invariant, PTL

(* The start time in a log is one of the request the method belongs to, and*)
(* no earlier than the method: what a log says of the time is at most what *)
(* the method took, whatever Errors and nesting do to the slot.            *)
THEOREM StartsStayInRequest == Spec => []StartOfOwnRequest
<1>1. IInv => StartOfOwnRequest
  BY DEF IInv, RequestInv, PublishedIsTrue, LateInv, StartsAreLate, StartOfOwnRequest
<1> QED
  BY <1>1, Invariant, PTL

(* A method that ran alone has its log with its own start, unless building *)
(* the log failed or the context is gone.                                  *)
THEOREM AloneAreLogged == Spec => []AloneIsLogged
<1>1. IInv => AloneIsLogged
  BY DEF IInv, RequestInv, PublishedIsTrue, AloneHaveEnded, AloneIsLogged
<1> QED
  BY <1>1, Invariant, PTL

(* A request thread runs a listener itself only when all threads of the    *)
(* pool exist and the queue is full.                                       *)
THEOREM CallersRunLast == Spec => CallerRunsLast
<1> DEFINE Held == \A t \in Threads : inline'[t] # NoEvent /\ inline[t] = NoEvent =>
                       Alive = Workers /\ Len(queue) = QueueSize
<1>1. IInv /\ [Next]_vars => [Held]_vars
  <2> SUFFICES ASSUME IInv, Next, NEW u \in Threads, inline'[u] # NoEvent, inline[u] = NoEvent
               PROVE  Alive = Workers /\ Len(queue) = QueueSize
    OBVIOUS
  <2>1. ~ UNCHANGED inline
    OBVIOUS
  <2>2. PICK t \in Threads : Publish(t) \/ SaveInline(t)
    BY <2>1, Steps DEF DoBefore, Unlogged, PoolStep, Take, SaveSysLog, Expire, Close, Halt, pool
  <2>3. Publish(t)
    BY <2>2 DEF SaveInline, IInv, TypeOK
  <2>4. PICK e \in Event : Execute(t, e)
    BY <2>3, EventPublished DEF Publish, IInv
  <2>5. Alive = Workers /\ ~(Len(queue) < QueueSize)
    BY <2>1, <2>4, Executed DEF IInv
  <2>6. Len(queue) \in Nat /\ QueueSize \in Nat /\ Len(queue) <= QueueSize
    BY Apart, LogAssumption DEF IInv, PoolInv
  <2> QED
    BY <2>5, <2>6
<1> QED
  BY <1>1, Invariant, PTL DEF Spec, CallerRunsLast

-----------------------------------------------------------------------------
(* One log per method, and a pool that serves its queue.                   *)

LogsAreSingle ==
    /\ \A c \in Calls : fate[c] = "logged" => \E e \in published : e.method = c
    /\ \A d, e \in published : d.method = e.method => d = e

(* The threads of the core are there before anything is queued, and do not *)
(* end before the queue is empty: no event waits for a thread that nobody  *)
(* starts.                                                                 *)
QueueIsServed == queue # << >> => Cardinality(Alive) >= CpuCore

LEMMA LogsAreSingleStep ==
    ASSUME IInv, LogsAreSingle, [Next]_vars
    PROVE  LogsAreSingle'
<1>1. CASE published' = published /\ \A c \in Calls : fate'[c] = "logged" => fate[c] = "logged"
  BY <1>1 DEF LogsAreSingle
<1>2. ASSUME NEW t \in Threads, Publish(t) PROVE LogsAreSingle'
  <2> DEFINE m == Top(t).method
             e == [method |-> m, start |-> stamp[t]]
  <2>1. frames[t] # << >> /\ published' = published \cup {e}
        /\ fate' = [fate EXCEPT ![m] = "logged"]
    BY <1>2 DEF Publish, Ends
  <2>2. m \in Calls /\ fate[m] = "running"
    BY <2>1, TopIsLast DEF IInv, RequestInv, FramesAreOpen
  <2>3. e.method = m
    OBVIOUS
  <2> HIDE DEF m, e
  <2>4. \A x \in published : x.method # m
    BY <2>2 DEF IInv, RequestInv, PublishedIsTrue
  <2>5. \A c \in Calls : fate'[c] = "logged" => c = m \/ fate[c] = "logged"
    BY <2>1 DEF IInv, TypeOK
  <2> QED
    BY <2>1, <2>3, <2>4, <2>5 DEF LogsAreSingle
<1>3. ASSUME NEW t \in Threads, NEW f \in Fates, Unlogged(t, f) PROVE LogsAreSingle'
  <2>1. published' = published /\ f # "logged" /\ fate' = [fate EXCEPT ![Top(t).method] = f]
    BY <1>3 DEF Unlogged, Ends
  <2>2. \A c \in Calls : fate'[c] = "logged" => fate[c] = "logged"
    BY <2>1 DEF IInv, TypeOK
  <2> QED
    BY <1>1, <2>1, <2>2
<1>4. (PoolStep \/ Close \/ Halt \/ (\E t \in Threads : DoBefore(t)) \/ UNCHANGED vars)
        => UNCHANGED <<published, fate>>
  BY DEF PoolStep, Take, SaveSysLog, Expire, SaveInline, RequestSide, Close, Halt,
         DoBefore, vars
<1> QED
  BY <1>1, <1>2, <1>3, <1>4, Steps

(* The threads of the pool that are alive.                                 *)
LEMMA AliveGrows ==
    ASSUME TypeOK, \A w \in Workers : running[w] # NotStarted => running'[w] # NotStarted
    PROVE  /\ Cardinality(Alive) \in Nat /\ Cardinality(Alive') \in Nat
           /\ Cardinality(Alive) <= Cardinality(Alive')
<1>1. Alive \subseteq Alive' /\ Alive' \subseteq Workers
  BY DEF Alive
<1>2. IsFiniteSet(Alive')
  BY <1>1, FS_Subset, LogAssumption
<1> QED
  BY <1>1, <1>2, FS_Subset, FS_CardinalityType

LEMMA QueueIsServedStep ==
    ASSUME IInv, QueueIsServed, [Next]_vars
    PROVE  QueueIsServed'
<1>1. TypeOK /\ CpuCore \in Nat
  BY LogAssumption DEF IInv
<1>2. ASSUME queue # << >>, \A w \in Workers : running[w] # NotStarted => running'[w] # NotStarted
      PROVE  QueueIsServed'
  BY <1>1, <1>2, AliveGrows DEF QueueIsServed
<1>3. CASE UNCHANGED <<queue, running>>
  BY <1>3 DEF QueueIsServed, Alive
<1>4. ASSUME NEW t \in Threads, Publish(t) PROVE QueueIsServed'
  <2>1. PICK e \in Event : Execute(t, e)
    BY <1>1, <1>4, EventPublished DEF Publish
  <2>2. \A w \in Workers : running[w] # NotStarted => running'[w] # NotStarted
    BY <1>1, <2>1, Executed, StampsApart DEF TypeOK
  <2>3. CASE Cardinality(Alive) < CpuCore
    <3>1. queue' = queue
      BY <2>1, <2>3 DEF Execute, StartWorker
    <3> QED
      BY <1>2, <2>2, <3>1 DEF QueueIsServed
  <2>4. CASE ~(Cardinality(Alive) < CpuCore)
    BY <1>1, <2>2, <2>4, AliveGrows DEF QueueIsServed
  <2> QED
    BY <2>3, <2>4
<1>5. ASSUME NEW w \in Workers, Take(w) PROVE QueueIsServed'
  <2>1. queue # << >> /\ running' = [running EXCEPT ![w] = Head(queue)]
    BY <1>5 DEF Take
  <2>2. Head(queue) \in Event
    BY <1>1, <2>1, QueueTyped DEF TypeOK
  <2> QED
    BY <1>1, <1>2, <2>1, <2>2, StampsApart DEF TypeOK
<1>6. ASSUME NEW w \in Workers, SaveSysLog(w) PROVE QueueIsServed'
  <2>1. queue' = queue /\ running' = [running EXCEPT ![w] = NoEvent]
    BY <1>6 DEF SaveSysLog
  <2>2. \A v \in Workers : running[v] # NotStarted => running'[v] # NotStarted
    BY <1>1, <2>1, StampsApart DEF TypeOK
  <2> QED
    BY <1>2, <2>1, <2>2 DEF QueueIsServed
<1>7. ASSUME NEW w \in Workers, Expire(w) PROVE QueueIsServed'
  BY <1>7 DEF Expire, QueueIsServed
<1>8. (Close \/ Halt \/ (\E t \in Threads : DoBefore(t) \/ SaveInline(t))
         \/ (\E t \in Threads, f \in Fates : Unlogged(t, f)) \/ UNCHANGED vars)
        => UNCHANGED <<queue, running>>
  BY DEF Close, Halt, DoBefore, SaveInline, Unlogged, vars, pool
<1> QED
  BY <1>3, <1>4, <1>5, <1>6, <1>7, <1>8, Steps DEF PoolStep

LEMMA ServiceInvariant == Spec => [](LogsAreSingle /\ QueueIsServed)
<1>1. Init => LogsAreSingle /\ QueueIsServed
  BY DEF Init, LogsAreSingle, QueueIsServed
<1>2. IInv /\ LogsAreSingle /\ QueueIsServed /\ [Next]_vars => (LogsAreSingle /\ QueueIsServed)'
  BY LogsAreSingleStep, QueueIsServedStep
<1> QED
  BY <1>1, <1>2, Invariant, PTL DEF Spec

(* A method has one log if its fate is "logged", and none otherwise, in    *)
(* whatever order the requests and their methods end.                      *)
OneLogPerMethod ==
    \A c \in Calls :
        /\ fate[c] = "logged" <=> \E e \in published : e.method = c
        /\ \A d, e \in published : d.method = c /\ e.method = c => d = e

(* No method is logged twice, and none that is said to be is missing.      *)
THEOREM MethodsHaveOneLog == Spec => []OneLogPerMethod
<1>1. IInv /\ LogsAreSingle => OneLogPerMethod
  BY DEF IInv, RequestInv, PublishedIsTrue, LogsAreSingle, OneLogPerMethod
<1> QED
  BY <1>1, Invariant, ServiceInvariant, PTL

(* Whatever is queued, all threads of the core are alive to take it.       *)
THEOREM NobodyIsStranded == Spec => []QueueIsServed
BY ServiceInvariant, PTL

-----------------------------------------------------------------------------
(* Progress: EventsAreSaved without fairness.                              *)

(* The work of the pool: an event in the queue is to be taken and saved.   *)
Backlog == 2 * Len(queue) + Cardinality(Working) + Cardinality(HeldUp)

(* Every step of a thread with something to run reduces the backlog, saves *)
(* something that was not saved before, and only a new event adds to it;   *)
(* without a backlog every event is saved.                                 *)
BacklogRunsDown ==
    /\ Backlog = 0 => published = saved
    /\ \A w \in Workers :
           /\ Worker(w) => Backlog' < Backlog
           /\ SaveSysLog(w) => running[w] \in published \ saved
    /\ \A t \in Threads :
           /\ SaveInline(t) => Backlog' < Backlog /\ inline[t] \in published \ saved
           /\ Publish(t) => Backlog' <= Backlog + 2
    /\ (Next /\ Backlog' > Backlog) => \E t \in Threads : Publish(t)

(* The counts before and after a step, in numbers.                         *)
LEMMA Numbers ==
    ASSUME IInv
    PROVE  /\ Cardinality(published) \in Nat /\ Cardinality(saved) \in Nat
           /\ Len(queue) \in Nat /\ Cardinality(Working) \in Nat /\ Cardinality(HeldUp) \in Nat
           /\ IsFiniteSet(published) /\ IsFiniteSet(saved)
           /\ Cardinality(published) =
                  Cardinality(saved) + Len(queue) + Cardinality(Working) + Cardinality(HeldUp)
           /\ Backlog = 2 * Len(queue) + Cardinality(Working) + Cardinality(HeldUp)
BY FS_CardinalityType, Apart DEF IInv, PoolInv, CountsAgree, Backlog

LEMMA NumbersAfter ==
    ASSUME IInv'
    PROVE  /\ Cardinality(published') \in Nat /\ Cardinality(saved') \in Nat
           /\ Len(queue') \in Nat /\ Cardinality(Working') \in Nat
           /\ Cardinality(HeldUp') \in Nat
           /\ Cardinality(published') =
                  Cardinality(saved') + Len(queue') + Cardinality(Working')
                    + Cardinality(HeldUp')
           /\ Backlog' = 2 * Len(queue') + Cardinality(Working') + Cardinality(HeldUp')
<1>1. Len(queue') \in Nat
  BY DEF IInv, TypeOK
<1> QED
  BY <1>1, FS_CardinalityType DEF IInv, PoolInv, CountsAgree, Backlog

(* A new event in the queue adds two, and a saved one takes some away.     *)
LEMMA Arithmetic ==
    ASSUME NEW p \in Nat, NEW s \in Nat, NEW q \in Nat, NEW w \in Nat, NEW h \in Nat,
           NEW p2 \in Nat, NEW s2 \in Nat, NEW q2 \in Nat, NEW w2 \in Nat, NEW h2 \in Nat,
           p = s + q + w + h, p2 = s2 + q2 + w2 + h2
    PROVE  /\ p2 = p + 1 /\ s2 = s /\ q2 <= q + 1
                => 2 * q2 + w2 + h2 <= 2 * q + w + h + 2
           /\ p2 = p /\ s2 = s + 1 /\ q2 = q => 2 * q2 + w2 + h2 < 2 * q + w + h
           /\ p2 = p /\ s2 = s /\ q2 = q => 2 * q2 + w2 + h2 = 2 * q + w + h
           /\ p2 = p /\ s2 = s /\ q2 = q - 1 => 2 * q2 + w2 + h2 < 2 * q + w + h
           /\ 2 * q + w + h \in Nat
OBVIOUS

LEMMA BacklogMoves ==
    ASSUME IInv, IInv'
    PROVE  /\ Cardinality(published') = Cardinality(published) + 1 /\ saved' = saved
             /\ Len(queue') <= Len(queue) + 1 => Backlog' <= Backlog + 2
           /\ published' = published /\ Cardinality(saved') = Cardinality(saved) + 1
             /\ queue' = queue => Backlog' < Backlog
           /\ published' = published /\ saved' = saved /\ queue' = queue => Backlog' = Backlog
           /\ published' = published /\ saved' = saved /\ Len(queue') = Len(queue) - 1
                => Backlog' < Backlog
           /\ Backlog \in Nat /\ Backlog' \in Nat
<1> DEFINE p == Cardinality(published)
           s == Cardinality(saved)
           q == Len(queue)
           w == Cardinality(Working)
           h == Cardinality(HeldUp)
           p2 == Cardinality(published')
           s2 == Cardinality(saved')
           q2 == Len(queue')
           w2 == Cardinality(Working')
           h2 == Cardinality(HeldUp')
<1>1. /\ p \in Nat /\ s \in Nat /\ q \in Nat /\ w \in Nat /\ h \in Nat
      /\ p = s + q + w + h /\ Backlog = 2 * q + w + h
  BY Numbers
<1>2. /\ p2 \in Nat /\ s2 \in Nat /\ q2 \in Nat /\ w2 \in Nat /\ h2 \in Nat
      /\ p2 = s2 + q2 + w2 + h2 /\ Backlog' = 2 * q2 + w2 + h2
  BY NumbersAfter
<1>3. /\ published' = published => p2 = p
      /\ saved' = saved => s2 = s
      /\ queue' = queue => q2 = q
  OBVIOUS
<1> HIDE DEF p, s, q, w, h, p2, s2, q2, w2, h2
<1>4. /\ p2 = p + 1 /\ s2 = s /\ q2 <= q + 1 => Backlog' <= Backlog + 2
      /\ p2 = p /\ s2 = s + 1 /\ q2 = q => Backlog' < Backlog
      /\ p2 = p /\ s2 = s /\ q2 = q => Backlog' = Backlog
      /\ p2 = p /\ s2 = s /\ q2 = q - 1 => Backlog' < Backlog
      /\ Backlog \in Nat
  BY <1>1, <1>2, Arithmetic
<1>5. Backlog' \in Nat
  BY <1>2
<1> QED
  BY <1>3, <1>4, <1>5 DEF p, s, q, p2, s2, q2

LEMMA TakeRunsDown ==
    ASSUME IInv, IInv', NEW w \in Workers, Take(w)
    PROVE  Backlog' < Backlog
<1>1. /\ queue # << >> /\ queue' = Tail(queue) /\ UNCHANGED <<published, saved>>
  BY DEF Take, RequestSide
<1>2. Len(queue') = Len(queue) - 1
  BY <1>1, QueueTyped DEF IInv, TypeOK
<1> QED
  BY <1>1, <1>2, BacklogMoves

LEMMA SaveRunsDown ==
    ASSUME IInv, IInv', NEW e \in Event \ saved, saved' = saved \cup {e},
           UNCHANGED <<published, queue>>
    PROVE  Backlog' < Backlog
<1>1. Cardinality(saved') = Cardinality(saved) + 1
  BY Numbers, OneMore
<1> QED
  BY <1>1, BacklogMoves

(* What is about to be saved is published and was not saved before.        *)
LEMMA SavesAreNew ==
    ASSUME IInv
    PROVE  /\ \A w \in Workers : running[w] \in Event => running[w] \in published \ saved
           /\ \A t \in Threads : Busy(t) => inline[t] \in published \ saved
BY Apart DEF IInv, PoolInv, EventsArePlaced, PlacesAreDisjoint, Working, HeldUp

(* The pool works its backlog off, and only a new event adds to it.        *)
THEOREM BacklogIsWorkedOff == Spec => [][BacklogRunsDown]_vars
<1>1. ASSUME IInv, IInv', Next PROVE BacklogRunsDown
  <2>1. ASSUME Backlog = 0 PROVE published = saved
    <3>1. Cardinality(published) = Cardinality(saved)
      BY <1>1, <2>1, Numbers
    <3>2. saved \subseteq published
      BY <1>1 DEF IInv, TypeOK, PoolInv, EventsArePlaced
    <3> QED
      BY <1>1, <3>1, <3>2, Numbers, FS_Subset
  <2>2. ASSUME NEW w \in Workers, SaveSysLog(w)
        PROVE  Backlog' < Backlog /\ running[w] \in published \ saved
    <3>1. running[w] \in Event /\ saved' = saved \cup {running[w]}
          /\ UNCHANGED <<published, queue>>
      BY <2>2 DEF SaveSysLog, RequestSide
    <3> QED
      BY <1>1, <3>1, SavesAreNew, SaveRunsDown
  <2>3. ASSUME NEW t \in Threads, SaveInline(t)
        PROVE  Backlog' < Backlog /\ inline[t] \in published \ saved
    <3>1. Busy(t) /\ saved' = saved \cup {inline[t]} /\ UNCHANGED <<published, queue>>
      BY <2>3 DEF SaveInline, RequestSide
    <3>2. inline[t] \in Event
      BY <1>1, <3>1, Apart DEF IInv, HeldUp
    <3> QED
      BY <1>1, <3>1, <3>2, SavesAreNew, SaveRunsDown
  <2>4. ASSUME NEW t \in Threads, Publish(t) PROVE Backlog' <= Backlog + 2
    <3> DEFINE e == [method |-> Top(t).method, start |-> stamp[t]]
    <3>1. frames[t] # << >> /\ stamp[t] # NoStamp /\ Execute(t, e)
          /\ published' = published \cup {e} /\ saved' = saved
      BY <2>4 DEF Publish, Ends
    <3>2. e \in Event /\ e \notin published
      BY <1>1, <2>4, <3>1, EventPublished, PublishInv DEF IInv
    <3> HIDE DEF e
    <3>3. Cardinality(published') = Cardinality(published) + 1
      BY <1>1, <3>1, <3>2, Numbers, OneMore
    <3>4. Len(queue') <= Len(queue) + 1
      <4>1. queue \in Seq(Event) /\ Len(queue) \in Nat
        BY <1>1 DEF IInv, TypeOK
      <4>2. queue' = queue \/ queue' = Append(queue, e)
        BY <3>1 DEF Execute, StartWorker
      <4>3. Len(Append(queue, e)) = Len(queue) + 1
        BY <3>2, <4>1
      <4> QED
        BY <4>1, <4>2, <4>3
    <3> QED
      BY <1>1, <3>1, <3>3, <3>4, BacklogMoves
  <2>5. ASSUME NEW w \in Workers, Worker(w) PROVE Backlog' < Backlog
    BY <1>1, <2>2, <2>5, TakeRunsDown DEF Worker
  <2>6. ASSUME ~\E t \in Threads : Publish(t) PROVE ~(Backlog' > Backlog)
    <3>1. Backlog \in Nat /\ Backlog' \in Nat
      BY <1>1, BacklogMoves
    <3>2. ASSUME UNCHANGED <<published, queue, saved>> PROVE Backlog' = Backlog
      BY <1>1, <3>2, BacklogMoves
    <3>3. PoolStep => Backlog' <= Backlog
      BY <2>2, <2>3, <2>5, <3>1, <3>2 DEF PoolStep, Worker, Expire, RequestSide
    <3>4. (Close \/ Halt \/ (\E t \in Threads : DoBefore(t))
             \/ (\E t \in Threads, f \in Fates : Unlogged(t, f)))
            => UNCHANGED <<published, queue, saved>>
      BY DEF Close, Halt, DoBefore, Unlogged, Ends, pool
    <3> QED
      BY <1>1, <2>6, <3>1, <3>2, <3>3, <3>4, Steps
  <2> QED
    BY <2>1, <2>2, <2>3, <2>4, <2>5, <2>6 DEF BacklogRunsDown
<1>2. IInv /\ IInv' /\ [Next]_vars => [BacklogRunsDown]_vars
  BY <1>1
<1> QED
  BY <1>2, Invariant, PTL DEF Spec

=============================================================================
