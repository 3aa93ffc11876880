------------------------------ MODULE FeignRetry ------------------------------
(***************************************************************************)
(* A call of a Feign method marked @FeignRetry, from FeignRetryAspect to   *)
(* the answer or the exception it ends in.                                 *)
(*                                                                         *)
(* The aspect keeps one RetryTemplate per annotation value in RETRY_MAP,   *)
(* filled by whichever thread finds it missing: get, configure and put are *)
(* three steps.  The template (spring-retry) proceeds, and after a failure *)
(* backs off and proceeds again.  On the other side GlobalBizException-    *)
(* Handler turns whatever the handler threw into a Result with HTTP 200,   *)
(* so only a call without a proper answer fails here.                      *)
(***************************************************************************)
EXTENDS Integers, Sequences

CONSTANTS
    Threads,
    Annotations,  \* the values of @FeignRetry in the code, records as below
    NoTemplate,   \* "no entry in RETRY_MAP"
    NoAnswer      \* "the call has not ended"

(* Why a call of the proxy fails: feign.RetryableException (no connection, *)
(* or a timeout), an exception caused by one, or an HTTP error status.     *)
Failures == {"transport", "wrapped", "status"}

(* What the controller method does, and the code of the Result it becomes. *)
Outcomes == {"returns", "BizException", "AccessDeniedException", "Exception"}

SUCCESS == "200"
FAIL == "500"
FORBIDDEN == "403"
BizCode == "biz"
Codes == {SUCCESS, FAIL, FORBIDDEN, BizCode}

(* A factor is a double, which is a fraction.                              *)
Factor == [num: Int, den: Nat \ {0}]

Annotation == [maxAttempt: Nat \ {0}, include: SUBSET {"status"},
               delay: Nat \ {0}, maxDelay: Nat \ {0}, multiplier: Factor]

(* multiplier() == 0, which asks for a fixed period.                       *)
IsFixed(a) == a.multiplier.num = 0

ASSUME AnnotationAssumption ==
    /\ Annotations \subseteq Annotation
    /\ NoAnswer \notin Codes \cup Failures \cup {"interrupted"}

-----------------------------------------------------------------------------
(* The policies of a template.                                             *)

BackOffPolicy == [initial: Nat, max: Nat, multiplier: Factor]
Template == [attempts: Nat, retried: SUBSET Failures, backOff: BackOffPolicy]

One == [num |-> 1, den |-> 1]

(* ExponentialBackOffPolicy.setMultiplier takes nothing below 1.           *)
AtLeastOne(factor) == IF factor.num > factor.den THEN factor ELSE One

(* Mutant: setMaxInterval is forgotten; the library's default is higher.   *)
PrepareWithoutMax(a) ==
    IF IsFixed(a)
      THEN [initial |-> a.delay, max |-> a.delay, multiplier |-> One]
      ELSE [initial |-> a.delay, max |-> 30000, multiplier |-> AtLeastOne(a.multiplier)]

(* A fixed period is an exponential one that does not grow.                *)
PrepareBackOffPolicy(a) ==
    IF IsFixed(a)
      THEN [initial |-> a.delay, max |-> a.delay, multiplier |-> One]
      ELSE [initial |-> a.delay, max |-> a.maxDelay,
            multiplier |-> AtLeastOne(a.multiplier)]

(* Mutant: the policy does not look at the causes of an exception.         *)
PrepareWithoutCauses(a) ==
    [attempts |-> a.maxAttempt, retried |-> {"transport"} \cup a.include,
     backOff |-> PrepareBackOffPolicy(a)]

(* Mutant: maxAttempt is taken for the number of retries.                  *)
PreparedForRetries(a) ==
    [attempts |-> a.maxAttempt + 1, retried |-> {"transport", "wrapped"} \cup a.include,
     backOff |-> PrepareBackOffPolicy(a)]

(* RetryableException and the classes of include(), or caused by one.      *)
Prepared(a) ==
    [attempts |-> a.maxAttempt, retried |-> {"transport", "wrapped"} \cup a.include,
     backOff |-> PrepareBackOffPolicy(a)]

(* A RetryTemplate as its constructor leaves it: three attempts, whatever  *)
(* the exception, one straight after the other.                            *)
NewTemplate ==
    [attempts |-> 3, retried |-> Failures,
     backOff |-> [initial |-> 0, max |-> 0, multiplier |-> One]]

-----------------------------------------------------------------------------

VARIABLES
    cache,       \* RETRY_MAP
    pc,          \* where a thread stands
    annotation,  \* the annotation of the method it calls
    template,    \* its local variable retryTemplate
    failures,    \* RetryContext.getRetryCount(): attempts that failed
    interval,    \* the next sleep of the back-off context
    slept,       \* the sleeps of this call
    executed,    \* how often the server ran the method for this call
    answer       \* the code of the Result, or the exception, the call ended in

vars == <<cache, pc, annotation, template, failures, interval, slept,
          executed, answer>>

Answers == Codes \cup Failures \cup {"interrupted"}

TypeOK ==
    /\ cache \in [Annotations -> Template \cup {NoTemplate}]
    /\ pc \in [Threads -> {"idle", "build", "publish", "attempt", "sleep"}]
    /\ annotation \in [Threads -> Annotations]
    /\ template \in [Threads -> Template]
    /\ failures \in [Threads -> Nat]
    /\ interval \in [Threads -> Nat]
    /\ slept \in [Threads -> Seq(Nat)]
    /\ executed \in [Threads -> Nat]
    /\ answer \in [Threads -> Answers \cup {NoAnswer}]

Init ==
    /\ cache = [a \in Annotations |-> NoTemplate]
    /\ pc = [t \in Threads |-> "idle"]
    /\ annotation \in [Threads -> Annotations]
    /\ template = [t \in Threads |-> NewTemplate]
    /\ failures = [t \in Threads |-> 0]
    /\ interval = [t \in Threads |-> 0]
    /\ slept = [t \in Threads |-> <<>>]
    /\ executed = [t \in Threads |-> 0]
    /\ answer = [t \in Threads |-> NoAnswer]

-----------------------------------------------------------------------------
(* The aspect: RETRY_MAP is read and written without a lock.               *)

Goto(t, location) == pc' = [pc EXCEPT ![t] = location]

(* RetryTemplate.execute opens a RetryContext and a back-off context.      *)
Execute(t, rt) ==
    /\ Goto(t, "attempt")
    /\ template' = [template EXCEPT ![t] = rt]
    /\ interval' = [interval EXCEPT ![t] = rt.backOff.initial]

Begin(t, a) ==
    /\ pc[t] = "idle"
    /\ annotation' = [annotation EXCEPT ![t] = a]
    /\ failures' = [failures EXCEPT ![t] = 0]
    /\ slept' = [slept EXCEPT ![t] = <<>>]
    /\ executed' = [executed EXCEPT ![t] = 0]
    /\ answer' = [answer EXCEPT ![t] = NoAnswer]
    /\ IF cache[a] = NoTemplate
         THEN Goto(t, "build") /\ UNCHANGED <<template, interval>>
         ELSE Execute(t, cache[a])
    /\ UNCHANGED cache

Call == <<annotation, failures, slept, executed, answer>>

(* Mutant: the template is put into the map before it is configured.       *)
BuildInMap(t) ==
    /\ pc[t] = "build"
    /\ cache' = [cache EXCEPT ![annotation[t]] = NewTemplate]
    /\ template' = [template EXCEPT ![t] = Prepared(annotation[t])]
    /\ Goto(t, "publish")
    /\ UNCHANGED <<interval, Call>>

Build(t) ==
    /\ pc[t] = "build"
    /\ template' = [template EXCEPT ![t] = Prepared(annotation[t])]
    /\ Goto(t, "publish")
    /\ UNCHANGED <<cache, interval, Call>>

(* Mutant: putIfAbsent in a loop that never looks at what is there.        *)
PublishIfAbsent(t) ==
    /\ pc[t] = "publish"
    /\ cache[annotation[t]] = NoTemplate
    /\ cache' = [cache EXCEPT ![annotation[t]] = template[t]]
    /\ Execute(t, template[t])
    /\ UNCHANGED Call

(* The put, which replaces the template of a thread that was faster.       *)
Publish(t) ==
    /\ pc[t] = "publish"
    /\ cache' = [cache EXCEPT ![annotation[t]] = template[t]]
    /\ Execute(t, template[t])
    /\ UNCHANGED Call

-----------------------------------------------------------------------------
(* The server: GlobalBizExceptionHandler gives every exception a code.     *)

(* Mutant: the code of a BizException is mistaken for its message.         *)
CodesOrMessage(o) ==
    CASE o = "returns"               -> {SUCCESS}
      [] o = "BizException"          -> {"message"}
      [] o = "AccessDeniedException" -> {FORBIDDEN}
      [] o = "Exception"             -> {FAIL}

(* A BizException brings its own code, which is FAIL unless it is given.   *)
CodesOf(o) ==
    CASE o = "returns"               -> {SUCCESS}
      [] o = "BizException"          -> {BizCode, FAIL}
      [] o = "AccessDeniedException" -> {FORBIDDEN}
      [] o = "Exception"             -> {FAIL}

Serve(t) == executed' = [executed EXCEPT ![t] = @ + 1]

-----------------------------------------------------------------------------
(* The loop of RetryTemplate.                                              *)

CanRetry(rt, f, count) == f \in rt.retried /\ count < rt.attempts

SleepOf(policy, next) == IF next > policy.max THEN policy.max ELSE next

(* A product with a double, cut down to a long.                            *)
Times(millis, factor) == (millis * factor.num) \div factor.den

(* The interval grows until it has passed the maximum.                     *)
Grown(policy, next) ==
    IF next > policy.max THEN next ELSE Times(next, policy.multiplier)

End(t, a) ==
    /\ Goto(t, "idle")
    /\ answer' = [answer EXCEPT ![t] = a]

(* proceed() throws: give up, or ask the back-off policy how long to wait. *)
Fail(t, f) ==
    /\ failures' = [failures EXCEPT ![t] = @ + 1]
    /\ IF CanRetry(template[t], f, failures[t] + 1)
         THEN LET policy == template[t].backOff IN
              /\ slept' = [slept EXCEPT ![t] = Append(@, SleepOf(policy, interval[t]))]
              /\ interval' = [interval EXCEPT ![t] = Grown(policy, @)]
              /\ Goto(t, "sleep")
              /\ UNCHANGED answer
         ELSE /\ End(t, f)
              /\ UNCHANGED <<slept, interval>>

(* proceed() returns: the server has run the method and its Result came    *)
(* back.                                                                   *)
Answered(t) ==
    /\ pc[t] = "attempt"
    /\ Serve(t)
    /\ \E o \in Outcomes : \E code \in CodesOf(o) : End(t, code)
    /\ UNCHANGED <<cache, annotation, template, failures, interval, slept>>

(* The request did not get there.                                          *)
NotServed(t) ==
    /\ pc[t] = "attempt"
    /\ \E f \in Failures : Fail(t, f)
    /\ UNCHANGED <<cache, annotation, template, executed>>

(* The server ran the method, and the answer was lost or late.             *)
AnswerLost(t) ==
    /\ pc[t] = "attempt"
    /\ Serve(t)
    /\ \E f \in Failures : Fail(t, f)
    /\ UNCHANGED <<cache, annotation, template>>

Wake(t) ==
    /\ pc[t] = "sleep"
    /\ Goto(t, "attempt")
    /\ UNCHANGED <<cache, template, interval, Call>>

(* BackOffInterruptedException, when somebody interrupts the thread.       *)
Interrupted(t) ==
    /\ pc[t] = "sleep"
    /\ End(t, "interrupted")
    /\ UNCHANGED <<cache, annotation, template, failures, interval, slept, executed>>

-----------------------------------------------------------------------------

Step(t) ==
    \/ Build(t) \/ Publish(t)
    \/ Answered(t) \/ NotServed(t) \/ AnswerLost(t)
    \/ Wake(t) \/ Interrupted(t)

Next == \E t \in Threads : Step(t) \/ \E a \in Annotations : Begin(t, a)

(* A thread inside the aspect goes on; the sleeps and the timeouts of the  *)
(* HTTP client are finite.  Nobody is obliged to call.                     *)
Fairness == \A t \in Threads : WF_vars(Step(t))

Spec == Init /\ [][Next]_vars
FairSpec == Spec /\ Fairness

-----------------------------------------------------------------------------

(* Whoever won the races for RETRY_MAP, a call runs under the policies of  *)
(* its own annotation, completely configured.                              *)
OwnPolicy ==
    \A t \in Threads : pc[t] \in {"attempt", "sleep"} =>
        template[t] = Prepared(annotation[t])

(* A method that is not idempotent is run maxAttempt times at worst.       *)
BoundedExecutions ==
    \A t \in Threads : executed[t] <= annotation[t].maxAttempt

(* A call that loses an answer, however deep the RetryableException is     *)
(* wrapped, gives up only when all its attempts are used.                  *)
GivesUpLast ==
    \A t \in Threads : answer[t] \in {"transport", "wrapped"} =>
        failures[t] = annotation[t].maxAttempt

(* What a thread is doing, for RetriedCalls: filling RETRY_MAP is part of  *)
(* the first attempt.                                                      *)
Stage(t) ==
    CASE pc[t] = "idle"  -> "idle"
      [] pc[t] = "sleep" -> "waiting"
      [] OTHER           -> "running"

Alone == INSTANCE RetriedCalls WITH stage <- [t \in Threads |-> Stage(t)]

(* From outside, a call runs as if it had a template of its own, set from  *)
(* its annotation: neither the races for RETRY_MAP nor the context that    *)
(* the library keeps between two sleeps shows, whichever threads call      *)
(* whichever methods at the same time.                                     *)
RunsAsIfAlone == Alone!Spec

(* Every call returns or throws.                                           *)
EveryCallEnds == \A t \in Threads : (pc[t] # "idle") ~> (pc[t] = "idle")

(* Backoff.maxDelay is "the maximum sleep": no sleep of a call is longer   *)
(* than the maxDelay of its annotation.                                    *)
SleepsWithinMax ==
    \A t \in Threads : \A i \in 1..Len(slept[t]) :
        slept[t][i] <= annotation[t].maxDelay

=============================================================================
