----------------------------- MODULE RetriedCalls -----------------------------
(***************************************************************************)
(* A call that is retried by a template of its own, set from the values of *)
(* its annotation as spring-retry reads them: which failures are retried,  *)
(* how often, and after which sleeps.  There is no map of templates, no    *)
(* other thread and no state between two sleeps.                           *)
(*                                                                         *)
(* spring-retry does not read the values as their javadoc has it: maxDelay *)
(* ends the growth of the sleeps and is no maximum of a fixed period, and  *)
(* the first attempt counts among the maxAttempt ones.                     *)
(***************************************************************************)
EXTENDS Integers, Sequences

CONSTANTS
    Threads,
    Annotations,  \* records with maxAttempt, include, delay, maxDelay, multiplier
    Codes,        \* what an answered call ends in
    Failures,     \* what an attempt fails with
    NoAnswer      \* "the call has not ended"

VARIABLES
    annotation,   \* the annotation of the method a thread calls
    stage,        \* "idle", or the call is "running" or "waiting" to retry
    failures,     \* the attempts of this call that failed
    slept,        \* its sleeps
    executed,     \* how often the server ran the method for it
    answer        \* what it ended in

vars == <<annotation, stage, failures, slept, executed, answer>>

Init ==
    /\ annotation \in [Threads -> Annotations]
    /\ stage = [t \in Threads |-> "idle"]
    /\ failures = [t \in Threads |-> 0]
    /\ slept = [t \in Threads |-> <<>>]
    /\ executed = [t \in Threads |-> 0]
    /\ answer = [t \in Threads |-> NoAnswer]

Call(t, a) ==
    /\ stage[t] = "idle"
    /\ annotation' = [annotation EXCEPT ![t] = a]
    /\ stage' = [stage EXCEPT ![t] = "running"]
    /\ failures' = [failures EXCEPT ![t] = 0]
    /\ slept' = [slept EXCEPT ![t] = <<>>]
    /\ executed' = [executed EXCEPT ![t] = 0]
    /\ answer' = [answer EXCEPT ![t] = NoAnswer]

End(t, result) ==
    /\ stage' = [stage EXCEPT ![t] = "idle"]
    /\ answer' = [answer EXCEPT ![t] = result]

Return(t) ==
    /\ stage[t] = "running"
    /\ executed' = [executed EXCEPT ![t] = @ + 1]
    /\ \E code \in Codes : End(t, code)
    /\ UNCHANGED <<annotation, failures, slept>>

(* A sleep times a factor, which is not taken below 1.                     *)
Longer(sleep, factor) ==
    IF factor.num > factor.den THEN (sleep * factor.num) \div factor.den ELSE sleep

(* delay first, then multiplier times the sleep before, until maxDelay is  *)
(* reached; always delay when the multiplier is 0.                         *)
Sleep(a, sleeps) ==
    LET wanted == IF sleeps = <<>> THEN a.delay
                                   ELSE Longer(sleeps[Len(sleeps)], a.multiplier)
    IN  IF a.multiplier.num = 0 THEN a.delay
        ELSE IF wanted > a.maxDelay THEN a.maxDelay ELSE wanted

(* A RetryableException, also as the cause of another exception, and what  *)
(* include() adds.                                                         *)
Retried(a) == {"transport", "wrapped"} \cup a.include

(* An attempt fails, before or after the server has run the method.        *)
Fails(t) ==
    /\ stage[t] = "running"
    /\ executed' \in {executed, [executed EXCEPT ![t] = @ + 1]}
    /\ failures' = [failures EXCEPT ![t] = @ + 1]
    /\ UNCHANGED annotation

FailAndRetry(t, f) ==
    /\ Fails(t)
    /\ f \in Retried(annotation[t])
    /\ failures[t] + 1 < annotation[t].maxAttempt
    /\ slept' = [slept EXCEPT ![t] = Append(@, Sleep(annotation[t], @))]
    /\ stage' = [stage EXCEPT ![t] = "waiting"]
    /\ UNCHANGED answer

GiveUp(t, f) ==
    /\ Fails(t)
    /\ f \in Retried(annotation[t]) => failures[t] + 1 = annotation[t].maxAttempt
    /\ End(t, f)
    /\ UNCHANGED slept

Retry(t) ==
    /\ stage[t] = "waiting"
    /\ stage' = [stage EXCEPT ![t] = "running"]
    /\ UNCHANGED <<annotation, failures, slept, executed, answer>>

Interrupt(t) ==
    /\ stage[t] = "waiting"
    /\ End(t, "interrupted")
    /\ UNCHANGED <<annotation, failures, slept, executed>>

Next == \E t \in Threads :
    \/ \E a \in Annotations : Call(t, a)
    \/ Return(t)
    \/ \E f \in Failures : FailAndRetry(t, f) \/ GiveUp(t, f)
    \/ Retry(t) \/ Interrupt(t)

Spec == Init /\ [][Next]_vars

=============================================================================
