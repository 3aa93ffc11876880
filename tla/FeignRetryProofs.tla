--------------------------- MODULE FeignRetryProofs ---------------------------
(***************************************************************************)
(* Proofs about FeignRetry, for any threads and any annotation values.     *)
(*                                                                         *)
(* A template in RETRY_MAP is the one its annotation asks for, so it does  *)
(* not matter whose it is.  A call has run the method at most once per     *)
(* failure, and its next sleep is the one the annotation asks for: the     *)
(* interval of the library may have grown past the maximum, but no sleep   *)
(* shows it.  So what a caller sees is what RetriedCalls says of it, and   *)
(* how often it can go on is a number of its annotation.                   *)
(***************************************************************************)
EXTENDS FeignRetry, SequenceTheorems, TLAPS

(* How far the call of a thread has come.                                  *)
CallInv(t) ==
    /\ pc[t] \in {"publish", "attempt", "sleep"} => template[t] = Prepared(annotation[t])
    /\ pc[t] \in {"build", "publish"} => failures[t] = 0 /\ slept[t] = <<>>
    /\ pc[t] \in {"attempt", "sleep"} => failures[t] < annotation[t].maxAttempt
    /\ pc[t] # "idle" => executed[t] <= failures[t] /\ answer[t] = NoAnswer
    /\ executed[t] <= annotation[t].maxAttempt
    /\ answer[t] \in {"transport", "wrapped"} => failures[t] = annotation[t].maxAttempt

(* The sleeps of an annotation, without the interval of the library: the   *)
(* first is delay, each later one the factor times the one before, and     *)
(* maxDelay ends the growth; a fixed period is delay every time.           *)
SleepAt(a, sleeps, i) ==
    LET wanted == IF i = 1 THEN a.delay
                           ELSE Times(sleeps[i - 1], AtLeastOne(a.multiplier))
    IN  IF IsFixed(a) THEN a.delay
        ELSE IF wanted > a.maxDelay THEN a.maxDelay ELSE wanted

(* What the back-off policy of an annotation wants after these sleeps.     *)
NextSleep(a, sleeps) ==
    LET policy == PrepareBackOffPolicy(a) IN
    SleepOf(policy, IF sleeps = <<>> THEN policy.initial
                                     ELSE Times(sleeps[Len(sleeps)], policy.multiplier))

SleepInv(t) ==
    /\ \A i \in 1..Len(slept[t]) : slept[t][i] = SleepAt(annotation[t], slept[t], i)
    /\ pc[t] \in {"attempt", "sleep"} =>
           SleepOf(PrepareBackOffPolicy(annotation[t]), interval[t]) =
               NextSleep(annotation[t], slept[t])

Inv ==
    /\ TypeOK
    /\ \A a \in Annotations : cache[a] \in {NoTemplate, Prepared(a)}
    /\ \A t \in Threads : CallInv(t) /\ SleepInv(t)

-----------------------------------------------------------------------------
(* Policies.                                                               *)

LEMMA Policies ==
    ASSUME NEW a \in Annotations
    PROVE  /\ a \in Annotation
           /\ PrepareBackOffPolicy(a) \in BackOffPolicy
           /\ PrepareBackOffPolicy(a).multiplier.num >= PrepareBackOffPolicy(a).multiplier.den
           /\ Prepared(a) \in Template
           /\ Prepared(a).attempts = a.maxAttempt
           /\ Prepared(a).backOff = PrepareBackOffPolicy(a)
           /\ {"transport", "wrapped"} \subseteq Prepared(a).retried
<1>1. a \in Annotation
  BY AnnotationAssumption
<1>2. /\ PrepareBackOffPolicy(a) \in BackOffPolicy
      /\ PrepareBackOffPolicy(a).multiplier.num >= PrepareBackOffPolicy(a).multiplier.den
  <2>1. a.multiplier \in Factor /\ a.delay \in Nat /\ a.maxDelay \in Nat
    BY <1>1 DEF Annotation
  <2>2. /\ AtLeastOne(a.multiplier) \in Factor
        /\ AtLeastOne(a.multiplier).num >= AtLeastOne(a.multiplier).den
    BY <2>1 DEF AtLeastOne, One, Factor
  <2>3. One \in Factor /\ One.num >= One.den
    BY DEF One, Factor
  <2> QED
    BY <2>1, <2>2, <2>3 DEF PrepareBackOffPolicy, BackOffPolicy
<1>3. {"transport", "wrapped"} \cup a.include \in SUBSET Failures
  BY <1>1 DEF Annotation, Failures
<1>4. a.maxAttempt \in Nat
  BY <1>1 DEF Annotation
<1> QED
  BY <1>1, <1>2, <1>3, <1>4 DEF Prepared, Template

(* A factor of one or more makes no number smaller, cut down as it is.     *)
LEMMA TimesGrows ==
    ASSUME NEW n \in Nat, NEW factor \in Factor, factor.num >= factor.den
    PROVE  Times(n, factor) \in Nat /\ Times(n, factor) >= n
<1> DEFINE k == factor.num
           d == factor.den
           q == (n * k) \div d
<1>1. k \in Nat /\ d \in Nat \ {0} /\ k >= d
  BY DEF Factor
<1> HIDE DEF k, d
<1>2. n * k \in Nat /\ n * d \in Nat /\ n * k >= n * d
  BY <1>1
<1>3. q \in Int /\ n * k < (q + 1) * d
  BY <1>1, <1>2
<1> HIDE DEF q
<1>4. CASE q < n
  <2>1. (q + 1) * d <= n * d
    BY <1>1, <1>3, <1>4
  <2>2. (q + 1) * d \in Int
    BY <1>1, <1>3
  <2> QED
    BY <1>2, <1>3, <2>1, <2>2
<1>5. CASE q >= n
  BY <1>3, <1>5 DEF Times, q, k, d
<1> QED
  BY <1>3, <1>4, <1>5

(* Times one leaves a number as it is.                                     *)
LEMMA TimesOne == \A n \in Nat : Times(n, One) = n
BY DEF Times, One

(* The library multiplies its interval, RetriedCalls the last sleep:       *)
(* beyond the maximum they differ, and both sleep for the maximum.         *)
LEMMA Growth ==
    ASSUME NEW policy \in BackOffPolicy, NEW next \in Nat,
           policy.multiplier.num >= policy.multiplier.den
    PROVE  /\ SleepOf(policy, next) \in Nat /\ Grown(policy, next) \in Nat
           /\ SleepOf(policy, Grown(policy, next)) =
                  SleepOf(policy, Times(SleepOf(policy, next), policy.multiplier))
<1> DEFINE m == policy.multiplier
           max == policy.max
<1>1. m \in Factor /\ m.num >= m.den /\ max \in Nat
  BY DEF BackOffPolicy
<1>2. SleepOf(policy, next) = IF next > max THEN max ELSE next
  BY DEF SleepOf
<1>3. Grown(policy, next) = IF next > max THEN next ELSE Times(next, m)
  BY DEF Grown
<1> HIDE DEF m, max
<1>4. /\ Times(next, m) \in Nat
      /\ Times(max, m) \in Nat /\ Times(max, m) >= max
  BY <1>1, TimesGrows
<1>5. CASE next > max
  <2>1. SleepOf(policy, next) = max /\ SleepOf(policy, Times(max, m)) = max
    BY <1>1, <1>4, <1>5 DEF SleepOf, max
  <2> QED
    BY <1>1, <1>2, <1>3, <1>5, <2>1 DEF m
<1>6. CASE ~(next > max)
  BY <1>1, <1>2, <1>3, <1>4, <1>6 DEF m
<1> QED
  BY <1>5, <1>6

(* What an annotation asks for and what its policy does are the same.      *)
LEMMA NextSleepIsAsked ==
    ASSUME NEW a \in Annotations, NEW s \in Seq(Nat),
           \A i \in 1..Len(s) : s[i] = SleepAt(a, s, i)
    PROVE  LET more == Append(s, NextSleep(a, s)) IN
           \A i \in 1..Len(more) : more[i] = SleepAt(a, more, i)
<1> DEFINE more == Append(s, NextSleep(a, s))
           n == Len(s)
<1>1. n \in Nat /\ Len(more) = n + 1 /\ more[n + 1] = NextSleep(a, s)
  OBVIOUS
<1>2. \A i \in 1..n : more[i] = s[i]
  OBVIOUS
<1>3. a \in Annotation
  BY Policies
<1> HIDE DEF more
<1>4. ASSUME NEW i \in 1..n PROVE more[i] = SleepAt(a, more, i)
  <2>1. i # 1 => i - 1 \in 1..n /\ more[i - 1] = s[i - 1]
    BY <1>1, <1>2
  <2>2. SleepAt(a, more, i) = SleepAt(a, s, i)
    BY <2>1 DEF SleepAt
  <2> QED
    BY <1>2, <2>2
<1>5. NextSleep(a, s) = SleepAt(a, more, n + 1)
  <2>1. CASE IsFixed(a)
    <3>1. \A i \in 1..n : s[i] = a.delay
      BY <2>1 DEF SleepAt
    <3>2. s # <<>> => s[n] = a.delay
      BY <1>1, <3>1
    <3>3. NextSleep(a, s) = a.delay
      <4>1. a.delay \in Nat /\ Times(a.delay, One) = a.delay
        BY <1>3, TimesOne DEF Annotation
      <4>2. PrepareBackOffPolicy(a) = [initial |-> a.delay, max |-> a.delay, multiplier |-> One]
        BY <2>1 DEF PrepareBackOffPolicy
      <4> QED
        BY <3>2, <4>1, <4>2 DEF NextSleep, SleepOf
    <3> QED
      BY <2>1, <3>3 DEF SleepAt
  <2>2. CASE ~IsFixed(a)
    <3>1. s = <<>> <=> n = 0
      BY <1>1
    <3>2. n # 0 => n \in 1..n /\ more[n] = s[n]
      BY <1>1, <1>2
    <3>3. n + 1 = 1 <=> n = 0
      BY <1>1
    <3>4. (n + 1) - 1 = n
      BY <1>1
    <3> HIDE DEF n
    <3>5. SleepAt(a, more, n + 1) =
            LET wanted == IF s = <<>> THEN a.delay
                                      ELSE Times(s[n], AtLeastOne(a.multiplier))
            IN  IF wanted > a.maxDelay THEN a.maxDelay ELSE wanted
      BY <2>2, <3>1, <3>2, <3>3, <3>4 DEF SleepAt
    <3>6. PrepareBackOffPolicy(a) = [initial |-> a.delay, max |-> a.maxDelay,
                                     multiplier |-> AtLeastOne(a.multiplier)]
      BY <2>2 DEF PrepareBackOffPolicy
    <3> QED
      BY <3>5, <3>6 DEF NextSleep, SleepOf, n
  <2> QED
    BY <2>1, <2>2
<1>6. \A i \in 1..(n + 1) : i \in 1..n \/ i = n + 1
  BY <1>1
<1> QED
  BY <1>1, <1>4, <1>5, <1>6 DEF more

-----------------------------------------------------------------------------

LEMMA NewTemplateIsTyped == NewTemplate \in Template
BY DEF NewTemplate, Template, BackOffPolicy, Failures, One, Factor

LEMMA InitInv == Init => Inv
<1> SUFFICES ASSUME Init PROVE Inv
  OBVIOUS
<1>1. TypeOK
  BY NewTemplateIsTyped DEF Init, TypeOK
<1>2. ASSUME NEW t \in Threads PROVE CallInv(t) /\ SleepInv(t)
  <2>1. annotation[t] \in Annotation
    BY <1>1, Policies DEF TypeOK
  <2>2. pc[t] = "idle" /\ executed[t] = 0 /\ slept[t] = <<>> /\ answer[t] = NoAnswer
    BY DEF Init
  <2>3. answer[t] \notin {"transport", "wrapped"}
    BY <2>2, AnnotationAssumption DEF Failures
  <2>4. CallInv(t)
    BY <2>1, <2>2, <2>3 DEF CallInv, Annotation
  <2>5. SleepInv(t)
    BY <2>2 DEF SleepInv
  <2> QED
    BY <2>4, <2>5
<1>3. \A a \in Annotations : cache[a] \in {NoTemplate, Prepared(a)}
  BY DEF Init
<1> QED
  BY <1>1, <1>2, <1>3 DEF Inv

LEMMA LastOfAppend ==
    \A s \in Seq(Nat), x \in Nat :
        LET more == Append(s, x) IN more # <<>> /\ more[Len(more)] = x
<1> SUFFICES ASSUME NEW s \in Seq(Nat), NEW x \in Nat
             PROVE  LET more == Append(s, x) IN more # <<>> /\ more[Len(more)] = x
  OBVIOUS
<1>1. Len(Append(s, x)) = Len(s) + 1 /\ Append(s, x)[Len(s) + 1] = x
  OBVIOUS
<1>2. Append(s, x) # <<>>
  BY <1>1
<1> QED
  BY <1>1, <1>2

(* A call into attempt, with the template of its annotation.               *)
LEMMA FirstSleep ==
    ASSUME NEW a \in Annotations
    PROVE  SleepOf(PrepareBackOffPolicy(a), Prepared(a).backOff.initial) =
               NextSleep(a, <<>>)
BY Policies DEF NextSleep

LEMMA NextInv == Inv /\ [Next]_vars => Inv'
<1> SUFFICES ASSUME Inv, [Next]_vars PROVE Inv'
  OBVIOUS
<1>1. TypeOK /\ \A a \in Annotations : cache[a] \in {NoTemplate, Prepared(a)}
  BY DEF Inv
<1>2. \A u \in Threads : CallInv(u) /\ SleepInv(u)
  BY DEF Inv
<1>3. \A u \in Threads :
        /\ pc'[u] = pc[u] /\ annotation'[u] = annotation[u] /\ template'[u] = template[u]
        /\ failures'[u] = failures[u] /\ interval'[u] = interval[u] /\ slept'[u] = slept[u]
        /\ executed'[u] = executed[u] /\ answer'[u] = answer[u]
        => CallInv(u)' /\ SleepInv(u)'
  BY <1>2 DEF CallInv, SleepInv
<1>4. ASSUME NEW t \in Threads, NEW a \in Annotations, Begin(t, a) PROVE Inv'
  <2> DEFINE found == cache[a]
  <2>1. /\ pc[t] = "idle" /\ cache' = cache
        /\ annotation' = [annotation EXCEPT ![t] = a]
        /\ failures' = [failures EXCEPT ![t] = 0]
        /\ slept' = [slept EXCEPT ![t] = <<>>]
        /\ executed' = [executed EXCEPT ![t] = 0]
        /\ answer' = [answer EXCEPT ![t] = NoAnswer]
    BY <1>4 DEF Begin
  <2>2. \/ /\ pc' = [pc EXCEPT ![t] = "build"] /\ template' = template /\ interval' = interval
        \/ /\ pc' = [pc EXCEPT ![t] = "attempt"]
           /\ template' = [template EXCEPT ![t] = Prepared(a)]
           /\ interval' = [interval EXCEPT ![t] = Prepared(a).backOff.initial]
    BY <1>1, <1>4 DEF Begin, Goto, Execute
  <2>3. Prepared(a) \in Template /\ Prepared(a).backOff.initial \in Nat /\ a.maxAttempt \in Nat \ {0}
    BY Policies DEF BackOffPolicy, Annotation
  <2>4. TypeOK'
    <3>1. slept' \in [Threads -> Seq(Nat)]
      BY <1>1, <2>1 DEF TypeOK
    <3>2. /\ pc' \in [Threads -> {"idle", "build", "publish", "attempt", "sleep"}]
          /\ template' \in [Threads -> Template] /\ interval' \in [Threads -> Nat]
      <4>1. pc' \in [Threads -> {"idle", "build", "publish", "attempt", "sleep"}]
        BY <1>1, <2>2 DEF TypeOK
      <4>2. template' \in [Threads -> Template]
        BY <1>1, <2>2, <2>3 DEF TypeOK
      <4>3. interval' \in [Threads -> Nat]
        BY <1>1, <2>2, <2>3 DEF TypeOK
      <4> QED
        BY <4>1, <4>2, <4>3
    <3>3. /\ annotation' \in [Threads -> Annotations] /\ failures' \in [Threads -> Nat]
          /\ executed' \in [Threads -> Nat]
          /\ answer' \in [Threads -> Answers \cup {NoAnswer}]
      BY <1>1, <2>1 DEF TypeOK
    <3> QED
      BY <1>1, <2>1, <3>1, <3>2, <3>3 DEF TypeOK
  <2>5. CallInv(t)'
    <3>1. NoAnswer \notin {"transport", "wrapped"}
      BY AnnotationAssumption DEF Failures
    <3>2. /\ annotation'[t] = a /\ failures'[t] = 0 /\ slept'[t] = <<>> /\ executed'[t] = 0
          /\ answer'[t] = NoAnswer
          /\ pc'[t] = "build" \/ (pc'[t] = "attempt" /\ template'[t] = Prepared(a))
      BY <1>1, <2>1, <2>2 DEF TypeOK
    <3> QED
      BY <2>3, <3>1, <3>2 DEF CallInv
  <2>6. SleepInv(t)'
    <3>1. /\ annotation'[t] = a /\ slept'[t] = <<>>
          /\ pc'[t] = "build"
             \/ (pc'[t] = "attempt" /\ interval'[t] = Prepared(a).backOff.initial)
      BY <1>1, <2>1, <2>2 DEF TypeOK
    <3> QED
      BY <3>1, FirstSleep DEF SleepInv
  <2>7. \A u \in Threads \ {t} : CallInv(u)' /\ SleepInv(u)'
    BY <1>1, <1>3, <2>1, <2>2 DEF TypeOK
  <2>8. \A b \in Annotations : cache'[b] \in {NoTemplate, Prepared(b)}
    BY <1>1, <2>1
  <2> QED
    BY <2>4, <2>5, <2>6, <2>7, <2>8 DEF Inv
<1>5. ASSUME NEW t \in Threads, Build(t) PROVE Inv'
  <2>1. annotation[t] \in Annotations /\ Prepared(annotation[t]) \in Template
    BY <1>1, Policies DEF TypeOK
  <2>2. TypeOK'
    BY <1>1, <1>5, <2>1 DEF Build, Goto, Call, TypeOK
  <2>3. CallInv(t)' /\ SleepInv(t)'
    BY <1>1, <1>2, <1>5 DEF Build, Goto, Call, TypeOK, CallInv, SleepInv
  <2>4. \A u \in Threads \ {t} : CallInv(u)' /\ SleepInv(u)'
    BY <1>1, <1>3, <1>5 DEF Build, Goto, Call, TypeOK
  <2>5. cache' = cache
    BY <1>5 DEF Build
  <2> QED
    BY <1>1, <2>2, <2>3, <2>4, <2>5 DEF Inv
<1>6. ASSUME NEW t \in Threads, Publish(t) PROVE Inv'
  <2> DEFINE a == annotation[t]
  <2>1. a \in Annotations /\ template[t] = Prepared(a) /\ slept[t] = <<>>
    BY <1>1, <1>2, <1>6 DEF TypeOK, Publish, CallInv
  <2>2. Prepared(a) \in Template /\ Prepared(a).backOff.initial \in Nat /\ a.maxAttempt \in Nat \ {0}
    BY <2>1, Policies DEF BackOffPolicy, Annotation
  <2>3. /\ pc[t] = "publish" /\ pc' = [pc EXCEPT ![t] = "attempt"]
        /\ cache' = [cache EXCEPT ![a] = Prepared(a)]
        /\ template' = [template EXCEPT ![t] = Prepared(a)]
        /\ interval' = [interval EXCEPT ![t] = Prepared(a).backOff.initial]
        /\ UNCHANGED Call
    BY <1>6, <2>1 DEF Publish, Execute, Goto
  <2> HIDE DEF a
  <2>4. TypeOK'
    BY <1>1, <2>1, <2>2, <2>3 DEF TypeOK, Call
  <2>5. CallInv(t)'
    BY <1>1, <1>2, <2>1, <2>2, <2>3 DEF TypeOK, Call, CallInv, a
  <2>6. SleepInv(t)'
    <3>1. annotation'[t] = a /\ slept'[t] = <<>> /\ interval'[t] = Prepared(a).backOff.initial
      BY <1>1, <2>1, <2>3 DEF TypeOK, Call, a
    <3> QED
      BY <2>1, <3>1, FirstSleep DEF SleepInv
  <2>7. \A u \in Threads \ {t} : CallInv(u)' /\ SleepInv(u)'
    BY <1>1, <1>3, <2>3 DEF TypeOK, Call
  <2>8. \A b \in Annotations : cache'[b] \in {NoTemplate, Prepared(b)}
    BY <1>1, <2>3 DEF TypeOK
  <2> QED
    BY <2>4, <2>5, <2>6, <2>7, <2>8 DEF Inv
<1>7. ASSUME NEW t \in Threads, Answered(t) PROVE Inv'
  <2>1. PICK o \in Outcomes : \E code \in CodesOf(o) : End(t, code)
    BY <1>7 DEF Answered
  <2>2. PICK code \in CodesOf(o) : End(t, code)
    BY <2>1
  <2>3. code \in Codes /\ code \notin {"transport", "wrapped"}
    BY DEF CodesOf, Codes, Outcomes, SUCCESS, FAIL, FORBIDDEN, BizCode
  <2>4. /\ pc[t] = "attempt" /\ pc' = [pc EXCEPT ![t] = "idle"]
        /\ executed' = [executed EXCEPT ![t] = @ + 1]
        /\ answer' = [answer EXCEPT ![t] = code]
        /\ UNCHANGED <<cache, annotation, template, failures, interval, slept>>
    BY <1>7, <2>1, <2>2 DEF Answered, Serve, End, Goto
  <2>5. TypeOK'
    BY <1>1, <2>3, <2>4 DEF TypeOK, Answers
  <2>6. CallInv(t)'
    <3>1. executed[t] + 1 <= annotation[t].maxAttempt
      <4>1. executed[t] <= failures[t] /\ failures[t] < annotation[t].maxAttempt
        BY <1>2, <2>4 DEF CallInv
      <4>2. executed[t] \in Nat /\ failures[t] \in Nat /\ annotation[t].maxAttempt \in Nat
        BY <1>1, Policies DEF TypeOK, Annotation
      <4> QED
        BY <4>1, <4>2
    <3>2. pc'[t] = "idle" /\ executed'[t] = executed[t] + 1 /\ answer'[t] = code
          /\ annotation'[t] = annotation[t]
      BY <1>1, <2>4 DEF TypeOK
    <3> QED
      BY <2>3, <3>1, <3>2 DEF CallInv
  <2>7. SleepInv(t)'
    BY <1>1, <1>2, <2>4 DEF TypeOK, SleepInv
  <2>8. \A u \in Threads \ {t} : CallInv(u)' /\ SleepInv(u)'
    BY <1>1, <1>3, <2>4 DEF TypeOK
  <2> QED
    BY <1>1, <2>4, <2>5, <2>6, <2>7, <2>8 DEF Inv
<1>8. ASSUME NEW t \in Threads, NEW f \in Failures, pc[t] = "attempt", Fail(t, f),
             UNCHANGED <<cache, annotation, template>>,
             UNCHANGED executed \/ Serve(t)
      PROVE  Inv'
  <2> DEFINE a == annotation[t]
             policy == PrepareBackOffPolicy(a)
             sleep == SleepOf(policy, interval[t])
             grown == Grown(policy, interval[t])
  <2>1. a \in Annotations /\ template[t] = Prepared(a) /\ interval[t] \in Nat
    BY <1>1, <1>2, <1>8 DEF TypeOK, CallInv
  <2>2. /\ a.maxAttempt \in Nat /\ template[t].attempts = a.maxAttempt
        /\ template[t].backOff = policy /\ policy \in BackOffPolicy
        /\ policy.multiplier.num >= policy.multiplier.den
        /\ {"transport", "wrapped"} \subseteq template[t].retried
    BY <2>1, Policies DEF Annotation
  <2>3. /\ sleep \in Nat /\ grown \in Nat
        /\ SleepOf(policy, grown) = SleepOf(policy, Times(sleep, policy.multiplier))
    BY <2>1, <2>2, Growth
  <2>4. PICK n \in {executed[t], executed[t] + 1} : executed' = [executed EXCEPT ![t] = n]
    <3>1. CASE UNCHANGED executed
      <4>1. executed' = [executed EXCEPT ![t] = executed[t]]
        BY <1>1, <3>1 DEF TypeOK
      <4> QED
        BY <4>1
    <3>2. CASE Serve(t)
      BY <3>2 DEF Serve
    <3> QED
      BY <1>8, <3>1, <3>2
  <2>5. /\ executed[t] \in Nat /\ failures[t] \in Nat
        /\ executed[t] <= failures[t] /\ failures[t] < a.maxAttempt /\ answer[t] = NoAnswer
    BY <1>1, <1>2, <1>8 DEF TypeOK, CallInv
  <2>6. failures' = [failures EXCEPT ![t] = @ + 1]
    BY <1>8 DEF Fail
  <2>7. CASE CanRetry(template[t], f, failures[t] + 1)
    <3>1. /\ slept' = [slept EXCEPT ![t] = Append(@, sleep)]
          /\ interval' = [interval EXCEPT ![t] = grown]
          /\ pc' = [pc EXCEPT ![t] = "sleep"] /\ answer' = answer
      BY <1>8, <2>2, <2>7 DEF Fail, Goto
    <3>2. failures[t] + 1 < a.maxAttempt
      BY <2>2, <2>7 DEF CanRetry
    <3> HIDE DEF a, policy, sleep, grown
    <3>3. TypeOK'
      <4>1. slept' \in [Threads -> Seq(Nat)]
        BY <1>1, <2>3, <3>1 DEF TypeOK
      <4>2. failures' \in [Threads -> Nat] /\ executed' \in [Threads -> Nat]
        BY <1>1, <2>4, <2>5, <2>6 DEF TypeOK
      <4>3. pc' \in [Threads -> {"idle", "build", "publish", "attempt", "sleep"}]
            /\ interval' \in [Threads -> Nat]
        BY <1>1, <2>3, <3>1 DEF TypeOK
      <4> QED
        BY <1>1, <1>8, <3>1, <4>1, <4>2, <4>3 DEF TypeOK
    <3>4. CallInv(t)'
      <4>1. /\ pc'[t] = "sleep" /\ failures'[t] = failures[t] + 1 /\ answer'[t] = NoAnswer
            /\ annotation'[t] = a /\ template'[t] = Prepared(a)
        BY <1>1, <1>8, <2>1, <2>5, <2>6, <3>1 DEF TypeOK, a
      <4>2. executed'[t] <= failures[t] + 1 /\ executed'[t] <= a.maxAttempt
        <5>1. executed'[t] = n
          BY <1>1, <2>4 DEF TypeOK
        <5> QED
          BY <2>2, <2>4, <2>5, <3>2, <5>1
      <4>3. NoAnswer \notin {"transport", "wrapped"}
        BY AnnotationAssumption DEF Failures
      <4> QED
        BY <3>2, <4>1, <4>2, <4>3 DEF CallInv
    <3>5. SleepInv(t)'
      <4>1. /\ slept[t] \in Seq(Nat) /\ sleep = NextSleep(a, slept[t])
            /\ \A i \in 1..Len(slept[t]) : slept[t][i] = SleepAt(a, slept[t], i)
        BY <1>1, <1>2, <1>8 DEF TypeOK, SleepInv, a, sleep, policy
      <4>2. /\ annotation'[t] = a /\ slept'[t] = Append(slept[t], sleep) /\ interval'[t] = grown
        BY <1>1, <1>8, <3>1 DEF TypeOK, a
      <4>3. \A i \in 1..Len(slept'[t]) : slept'[t][i] = SleepAt(a, slept'[t], i)
        <5>1. LET more == Append(slept[t], NextSleep(a, slept[t])) IN
              \A i \in 1..Len(more) : more[i] = SleepAt(a, more, i)
          BY <2>1, <4>1, NextSleepIsAsked
        <5> QED
          BY <4>1, <4>2, <5>1
      <4>4. NextSleep(a, slept'[t]) = SleepOf(policy, Times(sleep, policy.multiplier))
        <5>1. LET more == Append(slept[t], sleep) IN more # <<>> /\ more[Len(more)] = sleep
          BY <2>3, <4>1, LastOfAppend
        <5>2. slept'[t] # <<>> /\ slept'[t][Len(slept'[t])] = sleep
          BY <4>2, <5>1
        <5> QED
          BY <5>2 DEF NextSleep, policy
      <4> QED
        BY <2>3, <4>2, <4>3, <4>4 DEF SleepInv, policy
    <3>6. \A u \in Threads \ {t} : CallInv(u)' /\ SleepInv(u)'
      BY <1>1, <1>3, <1>8, <2>4, <2>6, <3>1 DEF TypeOK
    <3> QED
      BY <1>1, <1>8, <3>3, <3>4, <3>5, <3>6 DEF Inv
  <2>8. CASE ~CanRetry(template[t], f, failures[t] + 1)
    <3>1. /\ pc' = [pc EXCEPT ![t] = "idle"] /\ answer' = [answer EXCEPT ![t] = f]
          /\ slept' = slept /\ interval' = interval
      BY <1>8, <2>8 DEF Fail, End, Goto
    <3>2. f \in {"transport", "wrapped"} => failures[t] + 1 = a.maxAttempt
      BY <2>2, <2>5, <2>8 DEF CanRetry
    <3> HIDE DEF a, policy, sleep, grown
    <3>3. TypeOK'
      <4>1. failures' \in [Threads -> Nat] /\ executed' \in [Threads -> Nat]
        BY <1>1, <2>4, <2>5, <2>6 DEF TypeOK
      <4>2. pc' \in [Threads -> {"idle", "build", "publish", "attempt", "sleep"}]
            /\ answer' \in [Threads -> Answers \cup {NoAnswer}]
        BY <1>1, <3>1 DEF TypeOK, Answers
      <4> QED
        BY <1>1, <1>8, <3>1, <4>1, <4>2 DEF TypeOK
    <3>4. CallInv(t)'
      <4>1. /\ pc'[t] = "idle" /\ failures'[t] = failures[t] + 1 /\ answer'[t] = f
            /\ annotation'[t] = a
        BY <1>1, <1>8, <2>6, <3>1 DEF TypeOK, a
      <4>2. executed'[t] <= a.maxAttempt
        <5>1. executed'[t] = n
          BY <1>1, <2>4 DEF TypeOK
        <5> QED
          BY <2>2, <2>4, <2>5, <5>1
      <4> QED
        BY <3>2, <4>1, <4>2 DEF CallInv
    <3>5. SleepInv(t)'
      BY <1>1, <1>2, <1>8, <3>1 DEF TypeOK, SleepInv
    <3>6. \A u \in Threads \ {t} : CallInv(u)' /\ SleepInv(u)'
      BY <1>1, <1>3, <1>8, <2>4, <2>6, <3>1 DEF TypeOK
    <3> QED
      BY <1>1, <1>8, <3>3, <3>4, <3>5, <3>6 DEF Inv
  <2> QED
    BY <2>7, <2>8
<1>9. ASSUME NEW t \in Threads, NotServed(t) PROVE Inv'
  BY <1>8, <1>9 DEF NotServed
<1>10. ASSUME NEW t \in Threads, AnswerLost(t) PROVE Inv'
  BY <1>8, <1>10 DEF AnswerLost
<1>11. ASSUME NEW t \in Threads, Wake(t) PROVE Inv'
  <2>1. TypeOK'
    BY <1>1, <1>11 DEF Wake, Goto, Call, TypeOK
  <2>2. CallInv(t)' /\ SleepInv(t)'
    BY <1>1, <1>2, <1>11 DEF Wake, Goto, Call, TypeOK, CallInv, SleepInv
  <2>3. \A u \in Threads \ {t} : CallInv(u)' /\ SleepInv(u)'
    BY <1>1, <1>3, <1>11 DEF Wake, Goto, Call, TypeOK
  <2> QED
    BY <1>1, <1>11, <2>1, <2>2, <2>3 DEF Inv, Wake
<1>12. ASSUME NEW t \in Threads, Interrupted(t) PROVE Inv'
  <2>1. TypeOK'
    BY <1>1, <1>12 DEF Interrupted, End, Goto, TypeOK, Answers
  <2>2. CallInv(t)' /\ SleepInv(t)'
    BY <1>1, <1>2, <1>12 DEF Interrupted, End, Goto, TypeOK, CallInv, SleepInv
  <2>3. \A u \in Threads \ {t} : CallInv(u)' /\ SleepInv(u)'
    BY <1>1, <1>3, <1>12 DEF Interrupted, End, Goto, TypeOK
  <2> QED
    BY <1>1, <1>12, <2>1, <2>2, <2>3 DEF Inv, Interrupted
<1>13. CASE UNCHANGED vars
  BY <1>1, <1>3, <1>13 DEF vars, Inv, TypeOK
<1> QED
  BY <1>4, <1>5, <1>6, <1>7, <1>9, <1>10, <1>11, <1>12, <1>13 DEF Next, Step

LEMMA Invariance == Spec => []Inv
BY InitInv, NextInv, PTL DEF Spec

-----------------------------------------------------------------------------

(* Type correctness.                                                       *)
THEOREM TypeCorrect == Spec => []TypeOK
<1>1. Inv => TypeOK
  BY DEF Inv
<1> QED
  BY <1>1, Invariance, PTL

(* Whichever thread fills RETRY_MAP, each call runs under the policies of  *)
(* its own annotation.                                                     *)
THEOREM PoliciesAreOwn == Spec => []OwnPolicy
<1>1. Inv => OwnPolicy
  BY DEF Inv, CallInv, OwnPolicy
<1> QED
  BY <1>1, Invariance, PTL

(* The server never runs the method more than maxAttempt times for a call. *)
THEOREM ExecutionsAreBounded == Spec => []BoundedExecutions
<1>1. Inv => BoundedExecutions
  BY DEF Inv, CallInv, BoundedExecutions
<1> QED
  BY <1>1, Invariance, PTL

(* A call without an answer used all its attempts.                         *)
THEOREM GivingUpIsLast == Spec => []GivesUpLast
<1>1. Inv => GivesUpLast
  BY DEF Inv, CallInv, GivesUpLast
<1> QED
  BY <1>1, Invariance, PTL

(* With any factor but 0 the sleeps never shrink and never exceed maxDelay,*)
(* and with 0 they are all the delay.                                      *)
GrowingSleeps ==
    \A t \in Threads : \A i \in 1..Len(slept[t]) :
        LET a == annotation[t] IN
        IF IsFixed(a)
          THEN slept[t][i] = a.delay
          ELSE /\ slept[t][i] <= a.maxDelay
               /\ i > 1 => slept[t][i - 1] <= slept[t][i]

(* The maximum that the javadoc promises holds of every back-off that      *)
(* grows, for any delays, factors and numbers of attempts: SleepsWithinMax *)
(* fails with a fixed period only.                                         *)
THEOREM SleepsGrowToMax == Spec => []GrowingSleeps
<1>1. ASSUME Inv, NEW t \in Threads, NEW i \in 1..Len(slept[t])
      PROVE  LET a == annotation[t] IN
             IF IsFixed(a)
               THEN slept[t][i] = a.delay
               ELSE /\ slept[t][i] <= a.maxDelay
                    /\ i > 1 => slept[t][i - 1] <= slept[t][i]
  <2> DEFINE a == annotation[t]
             s == slept[t]
             factor == AtLeastOne(a.multiplier)
  <2>1. /\ a \in Annotation /\ s \in Seq(Nat)
        /\ \A j \in 1..Len(s) : s[j] = SleepAt(a, s, j)
    BY <1>1, Policies DEF Inv, TypeOK, SleepInv
  <2>2. CASE IsFixed(a)
    BY <1>1, <2>1, <2>2 DEF SleepAt
  <2>3. CASE ~IsFixed(a)
    <3>1. a.delay \in Nat /\ a.maxDelay \in Nat /\ a.multiplier \in Factor
      BY <2>1 DEF Annotation
    <3>2. factor \in Factor /\ factor.num >= factor.den
      BY <3>1 DEF AtLeastOne, One, Factor
    <3> HIDE DEF a, s, factor
    <3>3. Len(s) \in Nat /\ i \in 1..Len(s) /\ s[i] \in Nat
      BY <1>1, <2>1 DEF s
    <3>4. ASSUME NEW j \in 1..Len(s) PROVE s[j] <= a.maxDelay
      <4>1. s[j] = SleepAt(a, s, j) /\ s[j] \in Nat
        BY <2>1, <3>3
      <4>2. CASE j = 1
        BY <2>3, <3>1, <4>1, <4>2 DEF SleepAt
      <4>3. CASE j # 1
        <5>1. j - 1 \in 1..Len(s)
          BY <3>3, <4>3
        <5>2. s[j - 1] \in Nat
          BY <2>1, <5>1
        <5>3. Times(s[j - 1], factor) \in Nat
          BY <3>2, <5>2, TimesGrows
        <5> QED
          BY <2>3, <3>1, <4>1, <4>3, <5>3 DEF SleepAt, factor
      <4> QED
        BY <4>2, <4>3
    <3>5. ASSUME i > 1 PROVE s[i - 1] <= s[i]
      <4>1. i - 1 \in 1..Len(s) /\ i # 1
        BY <3>3, <3>5
      <4>2. s[i - 1] \in Nat /\ s[i - 1] <= a.maxDelay
        BY <2>1, <3>4, <4>1
      <4>3. Times(s[i - 1], factor) \in Nat /\ Times(s[i - 1], factor) >= s[i - 1]
        BY <3>2, <4>2, TimesGrows
      <4>4. s[i] = IF Times(s[i - 1], factor) > a.maxDelay
                     THEN a.maxDelay ELSE Times(s[i - 1], factor)
        BY <2>1, <2>3, <3>3, <4>1 DEF SleepAt, factor
      <4> QED
        BY <3>1, <4>2, <4>3, <4>4
    <3> QED
      BY <2>3, <3>3, <3>4, <3>5 DEF a, s
  <2> QED
    BY <2>2, <2>3
<1>2. Inv => GrowingSleeps
  BY <1>1 DEF GrowingSleeps
<1> QED
  BY <1>2, Invariance, PTL

-----------------------------------------------------------------------------
(* Refinement: RetriedCalls shows a call, not how it is organised.         *)

(* The sleeps of RetriedCalls are those of the policy.                     *)
LEMMA SleepAlone ==
    ASSUME NEW a \in Annotations, NEW s \in Seq(Nat),
           \A i \in 1..Len(s) : s[i] = SleepAt(a, s, i)
    PROVE  NextSleep(a, s) = Alone!Sleep(a, s)
<1>1. a \in Annotation /\ a.delay \in Nat
  BY Policies DEF Annotation
<1>2. CASE ~IsFixed(a)
  <2>1. \A n \in Nat : Times(n, AtLeastOne(a.multiplier)) = Alone!Longer(n, a.multiplier)
    BY TimesOne DEF AtLeastOne, Times, Alone!Longer
  <2>2. s # <<>> => s[Len(s)] \in Nat
    OBVIOUS
  <2>3. PrepareBackOffPolicy(a) = [initial |-> a.delay, max |-> a.maxDelay,
                                   multiplier |-> AtLeastOne(a.multiplier)]
    BY <1>2 DEF PrepareBackOffPolicy
  <2> QED
    BY <1>2, <2>1, <2>2, <2>3 DEF NextSleep, SleepOf, IsFixed, Alone!Sleep
<1>3. CASE IsFixed(a)
  <2>1. \A i \in 1..Len(s) : s[i] = a.delay
    BY <1>3 DEF SleepAt
  <2>2. s # <<>> => s[Len(s)] = a.delay
    BY <2>1
  <2>3. PrepareBackOffPolicy(a) = [initial |-> a.delay, max |-> a.delay, multiplier |-> One]
    BY <1>3 DEF PrepareBackOffPolicy
  <2>4. NextSleep(a, s) = a.delay
    BY <1>1, <2>2, <2>3, TimesOne DEF NextSleep, SleepOf
  <2> QED
    BY <1>3, <2>4 DEF IsFixed, Alone!Sleep
<1> QED
  BY <1>2, <1>3

LEMMA InitRefines == Init => Alone!Init
BY DEF Init, Alone!Init, Stage

(* What RetriedCalls sees of a step of one thread.                         *)
LEMMA StageMoves ==
    ASSUME TypeOK, NEW t \in Threads,
           NEW l \in {"idle", "build", "publish", "attempt", "sleep"},
           pc' = [pc EXCEPT ![t] = l]
    PROVE  LET stage == [u \in Threads |-> Stage(u)] IN
           stage' = [stage EXCEPT ![t] = CASE l = "idle"  -> "idle"
                                           [] l = "sleep" -> "waiting"
                                           [] OTHER       -> "running"]
<1>1. pc'[t] = l /\ \A u \in Threads \ {t} : pc'[u] = pc[u]
  BY DEF TypeOK
<1> QED
  BY <1>1 DEF Stage

LEMMA StepRefines == Inv /\ [Next]_vars => [Alone!Next]_(Alone!vars)
<1> SUFFICES ASSUME Inv, [Next]_vars PROVE [Alone!Next]_(Alone!vars)
  OBVIOUS
<1> DEFINE stage == [u \in Threads |-> Stage(u)]
<1>1. TypeOK /\ \A a \in Annotations : cache[a] \in {NoTemplate, Prepared(a)}
  BY DEF Inv
<1>2. \A u \in Threads : CallInv(u) /\ SleepInv(u)
  BY DEF Inv
<1>3. ASSUME NEW t \in Threads, NEW a \in Annotations, Begin(t, a)
      PROVE  [Alone!Next]_(Alone!vars)
  <2>1. PICK l \in {"build", "attempt"} : pc' = [pc EXCEPT ![t] = l]
    BY <1>3 DEF Begin, Goto, Execute
  <2>2. stage' = [stage EXCEPT ![t] = "running"]
    BY <1>1, <2>1, StageMoves
  <2>3. Alone!Call(t, a)
    BY <1>3, <2>2 DEF Begin, Stage, Alone!Call
  <2> QED
    BY <2>3 DEF Alone!Next
<1>4. ASSUME NEW t \in Threads, Build(t) \/ Publish(t)
      PROVE  UNCHANGED (Alone!vars)
  <2>1. /\ pc[t] \in {"build", "publish"} /\ UNCHANGED Call
        /\ \E l \in {"publish", "attempt"} : pc' = [pc EXCEPT ![t] = l]
    BY <1>4 DEF Build, Publish, Goto, Execute, Call
  <2>2. stage' = [stage EXCEPT ![t] = "running"]
    BY <1>1, <2>1, StageMoves
  <2>3. stage[t] = "running"
    BY <2>1 DEF Stage
  <2>4. stage' = stage
    BY <2>2, <2>3
  <2> QED
    BY <2>1, <2>4 DEF Alone!vars, Call
<1>5. ASSUME NEW t \in Threads, Answered(t) PROVE Alone!Next
  <2>1. PICK o \in Outcomes : \E code \in CodesOf(o) : End(t, code)
    BY <1>5 DEF Answered
  <2>2. PICK code \in CodesOf(o) : End(t, code)
    BY <2>1
  <2>3. code \in Codes
    BY DEF CodesOf, Codes, Outcomes, SUCCESS, FAIL, FORBIDDEN, BizCode
  <2>4. pc[t] = "attempt" /\ pc' = [pc EXCEPT ![t] = "idle"]
    BY <1>5, <2>2 DEF Answered, End, Goto
  <2>5. stage[t] = "running" /\ stage' = [stage EXCEPT ![t] = "idle"]
    BY <1>1, <2>4, StageMoves DEF Stage
  <2>6. Alone!End(t, code)
    BY <2>2, <2>5 DEF End, Alone!End
  <2>7. Alone!Return(t)
    BY <1>5, <2>1, <2>3, <2>5, <2>6 DEF Answered, Serve, Alone!Return
  <2> QED
    BY <2>7 DEF Alone!Next
<1>6. ASSUME NEW t \in Threads, NEW f \in Failures, pc[t] = "attempt", Fail(t, f),
             UNCHANGED annotation,
             executed' \in {executed, [executed EXCEPT ![t] = @ + 1]}
      PROVE  Alone!Next
  <2> DEFINE a == annotation[t]
             policy == PrepareBackOffPolicy(a)
  <2>1. a \in Annotations /\ template[t] = Prepared(a)
    BY <1>1, <1>2, <1>6 DEF TypeOK, CallInv
  <2>2. /\ template[t].attempts = a.maxAttempt /\ template[t].backOff = policy
        /\ template[t].retried = Alone!Retried(a)
        /\ a.maxAttempt \in Nat
    BY <2>1, Policies DEF Prepared, Alone!Retried, Annotation
  <2>3. Alone!Fails(t)
    BY <1>6 DEF Fail, Alone!Fails, Stage
  <2>4. CASE CanRetry(template[t], f, failures[t] + 1)
    <3>1. /\ slept' = [slept EXCEPT ![t] = Append(@, SleepOf(policy, interval[t]))]
          /\ pc' = [pc EXCEPT ![t] = "sleep"] /\ UNCHANGED answer
      BY <1>6, <2>2, <2>4 DEF Fail, Goto
    <3>2. SleepOf(policy, interval[t]) = Alone!Sleep(a, slept[t])
      BY <1>1, <1>2, <1>6, <2>1, SleepAlone DEF SleepInv, TypeOK
    <3>3. stage' = [stage EXCEPT ![t] = "waiting"]
      BY <1>1, <3>1, StageMoves
    <3>4. f \in Alone!Retried(a) /\ failures[t] + 1 < a.maxAttempt
      BY <2>2, <2>4 DEF CanRetry
    <3>5. Alone!FailAndRetry(t, f)
      BY <2>3, <3>1, <3>2, <3>3, <3>4 DEF Alone!FailAndRetry
    <3> QED
      BY <3>5 DEF Alone!Next
  <2>5. CASE ~CanRetry(template[t], f, failures[t] + 1)
    <3>1. End(t, f) /\ UNCHANGED slept
      BY <1>6, <2>5 DEF Fail
    <3>2. stage' = [stage EXCEPT ![t] = "idle"]
      BY <1>1, <3>1, StageMoves DEF End, Goto
    <3>3. f \in Alone!Retried(a) => failures[t] + 1 = a.maxAttempt
      <4>1. failures[t] \in Nat /\ failures[t] < a.maxAttempt
        BY <1>1, <1>2, <1>6 DEF TypeOK, CallInv
      <4> QED
        BY <2>2, <2>5, <4>1 DEF CanRetry
    <3>4. Alone!GiveUp(t, f)
      BY <2>3, <3>1, <3>2, <3>3 DEF End, Alone!End, Alone!GiveUp
    <3> QED
      BY <3>4 DEF Alone!Next
  <2> QED
    BY <2>4, <2>5
<1>7. ASSUME NEW t \in Threads, NotServed(t) \/ AnswerLost(t) PROVE Alone!Next
  <2>1. PICK f \in Failures : Fail(t, f)
    BY <1>7 DEF NotServed, AnswerLost
  <2>2. executed' \in {executed, [executed EXCEPT ![t] = @ + 1]}
    BY <1>7 DEF NotServed, AnswerLost, Serve
  <2> QED
    BY <1>6, <1>7, <2>1, <2>2 DEF NotServed, AnswerLost
<1>8. ASSUME NEW t \in Threads, Wake(t) PROVE Alone!Next
  <2>1. stage[t] = "waiting" /\ stage' = [stage EXCEPT ![t] = "running"]
    BY <1>1, <1>8, StageMoves DEF Wake, Goto, Stage
  <2>2. Alone!Retry(t)
    BY <1>8, <2>1 DEF Wake, Call, Alone!Retry
  <2> QED
    BY <2>2 DEF Alone!Next
<1>9. ASSUME NEW t \in Threads, Interrupted(t) PROVE Alone!Next
  <2>1. stage[t] = "waiting" /\ stage' = [stage EXCEPT ![t] = "idle"]
    BY <1>1, <1>9, StageMoves DEF Interrupted, End, Goto, Stage
  <2>2. Alone!Interrupt(t)
    BY <1>9, <2>1 DEF Interrupted, End, Alone!End, Alone!Interrupt
  <2> QED
    BY <2>2 DEF Alone!Next
<1>10. CASE UNCHANGED vars
  BY <1>10 DEF vars, Stage, Alone!vars
<1> QED
  BY <1>3, <1>4, <1>5, <1>7, <1>8, <1>9, <1>10 DEF Next, Step

(* A call of a @FeignRetry method runs as if it had a template of its own: *)
(* the races for RETRY_MAP and the back-off context do not show.           *)
THEOREM Refinement == Spec => RunsAsIfAlone
<1>1. Init => Alone!Init
  BY InitRefines
<1>2. Inv /\ [Next]_vars => [Alone!Next]_(Alone!vars)
  BY StepRefines
<1> QED
  BY <1>1, <1>2, Invariance, PTL DEF Spec, RunsAsIfAlone, Alone!Spec

-----------------------------------------------------------------------------
(* Progress: EveryCallEnds without fairness.                               *)

(* How many steps a call may still take.                                   *)
StepsLeft(t) ==
    LET max == annotation[t].maxAttempt IN
    CASE pc[t] = "idle"    -> 0
      [] pc[t] = "build"   -> 2 * max + 1
      [] pc[t] = "publish" -> 2 * max
      [] pc[t] = "attempt" -> 2 * (max - failures[t]) - 1
      [] pc[t] = "sleep"   -> 2 * (max - failures[t])

(* A step of a call takes it nearer to its end, for whatever reason it is  *)
(* taken, and no other thread can throw it back; a new call begins with    *)
(* two steps per attempt and one.                                          *)
CallsRunDown ==
    \A t \in Threads :
        /\ pc[t] # "idle" => StepsLeft(t) > 0
        /\ Step(t) => StepsLeft(t)' < StepsLeft(t)
        /\ \A a \in Annotations : Begin(t, a) => StepsLeft(t)' <= 2 * a.maxAttempt + 1
        /\ \A u \in Threads \ {t}, a \in Annotations :
               Step(u) \/ Begin(u, a) => StepsLeft(t)' = StepsLeft(t)

(* Every call ends after 2 * maxAttempt + 2 steps of its thread at most.   *)
THEOREM CallsTakeFewSteps == Spec => [][CallsRunDown]_vars
<1>1. ASSUME Inv PROVE CallsRunDown
  <2>1. TypeOK /\ \A u \in Threads : CallInv(u)
    BY <1>1 DEF Inv
  <2>2. ASSUME NEW t \in Threads
        PROVE  /\ annotation[t].maxAttempt \in Nat \ {0} /\ failures[t] \in Nat
               /\ pc[t] \in {"build", "publish"} => failures[t] = 0
               /\ pc[t] \in {"attempt", "sleep"} => failures[t] < annotation[t].maxAttempt
    BY <2>1, Policies DEF TypeOK, CallInv, Annotation
  <2>3. ASSUME NEW t \in Threads, pc[t] # "idle" PROVE StepsLeft(t) > 0
    BY <2>1, <2>2, <2>3 DEF TypeOK, StepsLeft
  <2>4. ASSUME NEW t \in Threads, Step(t) PROVE StepsLeft(t)' < StepsLeft(t)
    <3> DEFINE max == annotation[t].maxAttempt
    <3>1. annotation' = annotation
      BY <2>4 DEF Step, Build, Publish, Answered, NotServed, AnswerLost, Wake, Interrupted, Call
    <3>2. CASE Build(t)
      <4>1. pc[t] = "build" /\ pc'[t] = "publish"
        BY <2>1, <3>2 DEF Build, Goto, TypeOK
      <4> QED
        BY <2>2, <3>1, <4>1 DEF StepsLeft
    <3>3. CASE Publish(t)
      <4>1. pc[t] = "publish" /\ pc'[t] = "attempt" /\ failures'[t] = failures[t]
        BY <2>1, <3>3 DEF Publish, Execute, Goto, Call, TypeOK
      <4> QED
        BY <2>2, <3>1, <4>1 DEF StepsLeft
    <3>4. CASE Wake(t)
      <4>1. pc[t] = "sleep" /\ pc'[t] = "attempt" /\ failures'[t] = failures[t]
        BY <2>1, <3>4 DEF Wake, Goto, Call, TypeOK
      <4> QED
        BY <2>2, <3>1, <4>1 DEF StepsLeft
    <3>5. CASE Answered(t) \/ Interrupted(t)
      <4>1. pc[t] # "idle" /\ pc'[t] = "idle"
        BY <2>1, <3>5 DEF Answered, Interrupted, End, Goto, TypeOK
      <4> QED
        BY <2>3, <4>1 DEF StepsLeft
    <3>6. CASE NotServed(t) \/ AnswerLost(t)
      <4>1. pc[t] = "attempt" /\ \E f \in Failures : Fail(t, f)
        BY <3>6 DEF NotServed, AnswerLost
      <4>2. failures'[t] = failures[t] + 1 /\ pc'[t] \in {"sleep", "idle"}
        BY <2>1, <4>1 DEF Fail, End, Goto, TypeOK
      <4> QED
        BY <2>2, <3>1, <4>1, <4>2 DEF StepsLeft
    <3> QED
      BY <2>4, <3>2, <3>3, <3>4, <3>5, <3>6 DEF Step
  <2>5. ASSUME NEW t \in Threads, NEW a \in Annotations, Begin(t, a)
        PROVE  StepsLeft(t)' <= 2 * a.maxAttempt + 1
    <3>1. annotation'[t] = a /\ failures'[t] = 0 /\ pc'[t] \in {"build", "attempt"}
      BY <2>1, <2>5 DEF Begin, Execute, Goto, TypeOK
    <3>2. a.maxAttempt \in Nat
      BY Policies DEF Annotation
    <3> QED
      BY <3>1, <3>2 DEF StepsLeft
  <2>6. ASSUME NEW t \in Threads, NEW u \in Threads \ {t}, NEW a \in Annotations,
               Step(u) \/ Begin(u, a)
        PROVE  StepsLeft(t)' = StepsLeft(t)
    <3>1. pc'[t] = pc[t] /\ annotation'[t] = annotation[t] /\ failures'[t] = failures[t]
      BY <2>1, <2>6 DEF Step, Build, Publish, Answered, NotServed, AnswerLost, Wake,
                        Interrupted, Begin, Fail, Execute, End, Goto, Call, TypeOK
    <3> QED
      BY <3>1 DEF StepsLeft
  <2> QED
    BY <2>3, <2>4, <2>5, <2>6 DEF CallsRunDown
<1> QED
  BY <1>1, Invariance, PTL

=============================================================================
