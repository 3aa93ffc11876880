----------------------------- MODULE LogPipeline -----------------------------
(***************************************************************************)
(* The operation log: from a method marked @Log to the asynchronous        *)
(* listener that is to store it.                                           *)
(*                                                                         *)
(* LogAspect keeps the start time of a method in one thread-local slot,    *)
(* whatever the nesting, and publishes a LogEvent when the method returns  *)
(* or throws an Exception (not an Error).  The @Async listener runs on the *)
(* pool of ThreadPoolUtil: core threads, then the queue, then more threads,*)
(* then the caller itself.  A start time is named by the method call that  *)
(* took it.                                                                *)
(***************************************************************************)
EXTENDS Naturals, Sequences, FiniteSets

CONSTANTS
    Threads,    \* request threads
    Workers,    \* the threads the pool may have, maxPoolSize of them
    CpuCore,    \* RuntimeUtil.getCpuCore(): the core pool size
    QueueSize,  \* ThreadPoolUtil.QUEUE_SIZE, 1000 in the code
    MaxCalls,   \* bound on the calls of @Log methods
    MaxDepth,   \* bound on their nesting in one thread
    NoStamp, NoEvent, NotStarted

ASSUME LogAssumption ==
    /\ CpuCore \in Nat \ {0}
    /\ IsFiniteSet(Workers) /\ Cardinality(Workers) = CpuCore * 2
    /\ QueueSize \in Nat
    /\ MaxCalls \in Nat /\ MaxDepth \in Nat
    /\ NoStamp \notin Nat

Calls == 1..MaxCalls

(* A log: the method call it is about, and the one its start time is of.   *)
Event == [method: Calls, start: Calls]

ASSUME EventAssumption == NoEvent \notin Event /\ NotStarted \notin Event \cup {NoEvent}

(* A method call in progress.  Its request is the outermost call around    *)
(* it; it is alone while no other @Log method has begun inside of it.      *)
Frame == [method: Calls, request: Calls, alone: BOOLEAN]

(* How a call ended for its log.                                           *)
Fates == {"running", "logged", "noStamp", "failed", "noContext", "error"}

VARIABLES
    started,    \* calls begun so far
    frames,     \* the @Log methods a thread is inside of, the innermost last
    stamp,      \* LogAspect.THREAD_LOCAL
    fate,       \* what became of the log of each call
    requestOf,  \* the request each call belongs to (auxiliary)
    alone,      \* the calls that ended alone (auxiliary)
    published,  \* the events handed to the pool
    queue,      \* the queue of the pool
    running,    \* what each thread of the pool runs
    inline,     \* what a request thread runs itself (CallerRunsPolicy)
    saved,      \* the events whose listener has returned
    context,    \* SpringContextHolder has its applicationContext
    up          \* the JVM runs

pool == <<queue, running, inline>>
vars == <<started, frames, stamp, fate, requestOf, alone, published, pool,
          saved, context, up>>

TypeOK ==
    /\ started \in 0..MaxCalls
    /\ frames \in [Threads -> Seq(Frame)]
    /\ \A t \in Threads : Len(frames[t]) <= MaxDepth
    /\ stamp \in [Threads -> Calls \cup {NoStamp}]
    /\ fate \in [Calls -> Fates]
    /\ requestOf \in [Calls -> Calls]
    /\ alone \subseteq Calls
    /\ published \subseteq Event
    /\ queue \in Seq(Event)
    /\ running \in [Workers -> Event \cup {NoEvent, NotStarted}]
    /\ inline \in [Threads -> Event \cup {NoEvent}]
    /\ saved \subseteq Event
    /\ context \in BOOLEAN /\ up \in BOOLEAN

Init ==
    /\ started = 0
    /\ frames = [t \in Threads |-> <<>>]
    /\ stamp = [t \in Threads |-> NoStamp]
    /\ fate = [c \in Calls |-> "running"]
    /\ requestOf = [c \in Calls |-> c]
    /\ alone = {}
    /\ published = {}
    /\ queue = <<>>
    /\ running = [w \in Workers |-> NotStarted]
    /\ inline = [t \in Threads |-> NoEvent]
    /\ saved = {}
    /\ context = TRUE
    /\ up = TRUE

-----------------------------------------------------------------------------
(* The pool: ThreadPoolExecutor.execute as createSimpleExecutor sets it up.*)

Alive == {w \in Workers : running[w] # NotStarted}

StartWorker(e) ==
    /\ \E w \in Workers \ Alive : running' = [running EXCEPT ![w] = e]
    /\ UNCHANGED <<queue, inline>>

(* Mutant: DiscardPolicy instead of CallerRunsPolicy.                      *)
ExecuteOrDiscard(t, e) ==
    IF Cardinality(Alive) < CpuCore
      THEN StartWorker(e)
      ELSE IF Len(queue) < QueueSize
             THEN /\ queue' = Append(queue, e)
                  /\ UNCHANGED <<running, inline>>
             ELSE IF Alive # Workers
                    THEN StartWorker(e)
                    ELSE UNCHANGED pool

(* Mutant: the pool prefers the caller to a thread above the core size.    *)
ExecuteInCoreOnly(t, e) ==
    IF Cardinality(Alive) < CpuCore
      THEN StartWorker(e)
      ELSE IF Len(queue) < QueueSize
             THEN /\ queue' = Append(queue, e)
                  /\ UNCHANGED <<running, inline>>
             ELSE /\ inline' = [inline EXCEPT ![t] = e]
                  /\ UNCHANGED <<queue, running>>

Execute(t, e) ==
    IF Cardinality(Alive) < CpuCore
      THEN StartWorker(e)
      ELSE IF Len(queue) < QueueSize
             THEN /\ queue' = Append(queue, e)
                  /\ UNCHANGED <<running, inline>>
             ELSE IF Alive # Workers
                    THEN StartWorker(e)
                    ELSE /\ inline' = [inline EXCEPT ![t] = e]
                         /\ UNCHANGED <<queue, running>>

-----------------------------------------------------------------------------
(* LogAspect, on the request threads.                                      *)

Busy(t) == inline[t] # NoEvent
Top(t) == frames[t][Len(frames[t])]
Pop(t) == frames' = [frames EXCEPT ![t] = SubSeq(@, 1, Len(@) - 1)]

(* Mutant: the slot is only set when it is empty.                          *)
DoBeforeOnce(t) ==
    LET c == started + 1
        request == IF frames[t] = <<>> THEN c ELSE Top(t).request
        outer == [i \in 1..Len(frames[t]) |-> [frames[t][i] EXCEPT !.alone = FALSE]]
    IN
    /\ up /\ ~Busy(t)
    /\ started < MaxCalls /\ Len(frames[t]) < MaxDepth
    /\ started' = c
    /\ frames' = [frames EXCEPT ![t] =
                    Append(outer, [method |-> c, request |-> request, alone |-> TRUE])]
    /\ requestOf' = [requestOf EXCEPT ![c] = request]
    /\ stamp' = [stamp EXCEPT ![t] = IF @ = NoStamp THEN c ELSE @]
    /\ UNCHANGED <<fate, alone, published, pool, saved, context, up>>

(* doBefore: a @Log method begins and its start time takes the slot.       *)
DoBefore(t) ==
    LET c == started + 1
        request == IF frames[t] = <<>> THEN c ELSE Top(t).request
        outer == [i \in 1..Len(frames[t]) |-> [frames[t][i] EXCEPT !.alone = FALSE]]
    IN
    /\ up /\ ~Busy(t)
    /\ started < MaxCalls /\ Len(frames[t]) < MaxDepth
    /\ started' = c
    /\ frames' = [frames EXCEPT ![t] =
                    Append(outer, [method |-> c, request |-> request, alone |-> TRUE])]
    /\ requestOf' = [requestOf EXCEPT ![c] = request]
    /\ stamp' = [stamp EXCEPT ![t] = c]
    /\ UNCHANGED <<fate, alone, published, pool, saved, context, up>>

(* The innermost method of t ends, and this is what becomes of its log.    *)
Ends(t, f) ==
    /\ up /\ ~Busy(t)
    /\ frames[t] # <<>>
    /\ Pop(t)
    /\ fate' = [fate EXCEPT ![Top(t).method] = f]
    /\ alone' = IF Top(t).alone THEN alone \cup {Top(t).method} ELSE alone
    /\ UNCHANGED <<started, requestOf, saved, context, up>>

(* Mutant: set(0L) instead of remove().                                    *)
RemovedByZero(t) == stamp' = [stamp EXCEPT ![t] = 0]

(* The finally block of handleLog, after a return or an Exception.         *)
Removed(t) == stamp' = [stamp EXCEPT ![t] = NoStamp]

(* Everything it asks for is there: the event is published and executed.   *)
Publish(t) ==
    LET e == [method |-> Top(t).method, start |-> stamp[t]] IN
    /\ frames[t] # <<>> /\ stamp[t] # NoStamp /\ context
    /\ Ends(t, "logged")
    /\ published' = published \cup {e}
    /\ Execute(t, e)
    /\ Removed(t)

(* THREAD_LOCAL.get() is null: a NullPointerException, caught and printed. *)
NoStartTime(t) ==
    /\ stamp[t] = NoStamp
    /\ Ends(t, "noStamp")
    /\ Removed(t)
    /\ UNCHANGED <<published, pool>>

(* Another exception on the way to the event: the lookup of the location   *)
(* by HTTP, the conversion of an argument to JSON.                         *)
HandleLogFails(t) ==
    /\ stamp[t] # NoStamp
    /\ Ends(t, "failed")
    /\ Removed(t)
    /\ UNCHANGED <<published, pool>>

(* SpringContextHolder.publishEvent after destroy(): returns silently.     *)
NoContext(t) ==
    /\ stamp[t] # NoStamp /\ ~context
    /\ Ends(t, "noContext")
    /\ Removed(t)
    /\ UNCHANGED <<published, pool>>

(* The method throws an Error: no advice runs, and the slot stays taken.   *)
ThrowError(t) ==
    /\ Ends(t, "error")
    /\ UNCHANGED <<stamp, published, pool>>

-----------------------------------------------------------------------------
(* The listener, on the threads of the pool or on the request thread.      *)

RequestSide == <<started, frames, stamp, fate, requestOf, alone, published, context, up>>

Take(w) ==
    /\ up
    /\ running[w] = NoEvent /\ queue # <<>>
    /\ running' = [running EXCEPT ![w] = Head(queue)]
    /\ queue' = Tail(queue)
    /\ UNCHANGED <<RequestSide, inline, saved>>

SaveSysLog(w) ==
    /\ up
    /\ running[w] \in Event
    /\ saved' = saved \cup {running[w]}
    /\ running' = [running EXCEPT ![w] = NoEvent]
    /\ UNCHANGED <<RequestSide, queue, inline>>

SaveInline(t) ==
    /\ up
    /\ Busy(t)
    /\ saved' = saved \cup {inline[t]}
    /\ inline' = [inline EXCEPT ![t] = NoEvent]
    /\ UNCHANGED <<RequestSide, queue, running>>

(* A thread above the core size ends when it has been idle for long.       *)
Expire(w) ==
    /\ up
    /\ running[w] = NoEvent /\ queue = <<>>
    /\ Cardinality(Alive) > CpuCore
    /\ running' = [running EXCEPT ![w] = NotStarted]
    /\ UNCHANGED <<RequestSide, queue, inline, saved>>

-----------------------------------------------------------------------------
(* Shutdown.  ThreadPoolConfig is an @AutoConfiguration, whose @Bean       *)
(* methods are not proxied: the executor @Async gets from                  *)
(* getAsyncExecutor() is one of its own, not the bean, and nobody waits    *)
(* for it when the context is closed.                                      *)

Close ==
    /\ up /\ context
    /\ context' = FALSE
    /\ UNCHANGED <<started, frames, stamp, fate, requestOf, alone, published,
                   pool, saved, up>>

Halt ==
    /\ up /\ ~context
    /\ up' = FALSE
    /\ UNCHANGED <<started, frames, stamp, fate, requestOf, alone, published,
                   pool, saved, context>>

Worker(w) == Take(w) \/ SaveSysLog(w)

Next ==
    \/ \E t \in Threads :
           \/ DoBefore(t)
           \/ Publish(t) \/ NoStartTime(t) \/ HandleLogFails(t) \/ NoContext(t)
           \/ ThrowError(t)
           \/ SaveInline(t)
    \/ \E w \in Workers : Worker(w) \/ Expire(w)
    \/ Close \/ Halt

(* The threads that have something to run are scheduled.                   *)
Fairness ==
    /\ \A w \in Workers : WF_vars(Worker(w))
    /\ \A t \in Threads : WF_vars(SaveInline(t))

Spec == Init /\ [][Next]_vars
FairSpec == Spec /\ Fairness

-----------------------------------------------------------------------------

InQueue == {queue[i] : i \in 1..Len(queue)}
InWorkers == {running[w] : w \in Workers} \cap Event
InCallers == {inline[t] : t \in Threads} \cap Event

(* Every published event is saved or in exactly one place of the pool: it  *)
(* is neither lost nor stored twice, however full the pool is.             *)
EventsConserved ==
    /\ published = saved \cup InQueue \cup InWorkers \cup InCallers
    /\ Cardinality(published) =
           Cardinality(saved) + Len(queue)
             + Cardinality({w \in Workers : running[w] \in Event})
             + Cardinality({t \in Threads : Busy(t)})

(* The start time of a log is one of the same request: what an Error left  *)
(* in the slot of a pooled thread never gets into the log of a later one.  *)
(* And it was taken when the method began or after, by a call inside of it *)
(* (calls are numbered as they begin): operatorTime may be too short, but  *)
(* no log ever blames a method for more time than it took.                 *)
StartOfOwnRequest ==
    \A e \in published :
        requestOf[e.start] = requestOf[e.method] /\ e.start >= e.method

(* A method that ran alone, without another @Log method inside of it, and  *)
(* did not throw an Error, misses its log only when building it failed or  *)
(* the context is gone; and the log has the start of that very method.     *)
AloneIsLogged ==
    /\ \A c \in alone : fate[c] # "noStamp"
    /\ \A e \in published : e.method \in alone => e.start = e.method

(* A request thread is held up by the listener only when the pool is full: *)
(* it has all its threads and no room in the queue.                        *)
CallerRunsLast ==
    [][\A t \in Threads : inline'[t] # NoEvent /\ inline[t] = NoEvent =>
          Alive = Workers /\ Len(queue) = QueueSize]_vars

(* Every event is saved in the end, unless the JVM ends before.            *)
EventsAreSaved ==
    \A c \in Calls :
        (fate[c] = "logged") ~> ((\E e \in saved : e.method = c) \/ ~up)

-----------------------------------------------------------------------------

(* operatorTime is "the time the method took": every log has the start of  *)
(* its own method.                                                         *)
OperatorTimeIsOwn == \A e \in published : e.start = e.method

=============================================================================
