----------------------------- MODULE GatewayProofs -----------------------------
(***************************************************************************)
(* Proofs about Gateway, for any requests, services and lengths of paths.  *)
(*                                                                         *)
(* The invariant follows each exchange through the filters: what it has    *)
(* for a URL and an answer is determined by the filters that have run, and *)
(* an exchange that waits for an inner one is at NettyRoutingFilter, with  *)
(* RequestGlobalFilter behind it.  From it also follow the number of steps *)
(* a request can take, and that the bound on exchanges is never felt.      *)
(***************************************************************************)
EXTENDS Gateway, SequenceTheorems, TLAPS

(* Dropped(path, n): the path without its first n segments.                *)
Dropped(path, n) == SubSeq(path, n + 1, Len(path))

(* The exchange is the k-th of a request for this path.                    *)
Fits(path, k, exchange) ==
    LET ran == HasRun("request", exchange) IN
    /\ k <= Len(path) + 1
    /\ exchange.at > 0 => k <= Len(path)
    /\ exchange.path = Dropped(path, k - 1 + (IF ran THEN 1 ELSE 0))
    /\ exchange.at > 0 =>
           exchange.url = [to |-> IF ran THEN Gateway ELSE path[k], path |-> exchange.path]
    /\ exchange.at > 0 /\ ~ran => path[k] \in Services
    /\ exchange.answer # None <=> HasRun("netty", exchange)

Waits(exchange) ==
    /\ exchange.at \in 1..3
    /\ order[exchange.at] = "netty"
    /\ HasRun("request", exchange)

Nested(r) ==
    \A k \in 1..Len(exchanges[r]) :
        /\ Fits(sent[r].path, k, exchanges[r][k])
        /\ k < Len(exchanges[r]) => Waits(exchanges[r][k])

(* What was thrown is in the answer of the client or on its way there.     *)
Told(r) ==
    /\ answers[r] # None => answers[r].body # "whole"
    /\ exchanges[r] # <<>> =>
           Inner(r).answer # None /\ Inner(r).answer.body # "whole"

RequestInv(r) ==
    /\ sent[r] = None =>
           exchanges[r] = <<>> /\ calls[r] = {} /\ answers[r] = None /\ r \notin failed
    /\ exchanges[r] # <<>> => answers[r] = None
    /\ Nested(r)
    /\ r \in failed => Told(r)

Inv == TypeOK /\ \A r \in Requests : RequestInv(r)

-----------------------------------------------------------------------------
(* Paths.                                                                  *)

LEMMA PathsAreSequences ==
    \A path : path \in Paths <=> path \in Seq(Segments) /\ Len(path) <= MaxLength
<1> USE GatewayAssumption
<1>1. ASSUME NEW path \in Paths PROVE path \in Seq(Segments) /\ Len(path) <= MaxLength
  <2>1. PICK n \in 0..MaxLength : path \in [1..n -> Segments]
    BY DEF Paths
  <2>2. path \in Seq(Segments) /\ Len(path) = n
    BY <2>1, SeqDef
  <2>3. QED
    BY <2>1, <2>2
<1>2. ASSUME NEW path \in Seq(Segments), Len(path) <= MaxLength PROVE path \in Paths
  <2>1. Len(path) \in 0..MaxLength /\ path \in [1..Len(path) -> Segments]
    BY <1>2, LenProperties
  <2>2. QED
    BY <2>1 DEF Paths
<1>3. QED
  BY <1>1, <1>2

LEMMA DroppedFacts ==
    ASSUME NEW path \in Paths, NEW n \in Nat, n <= Len(path)
    PROVE  /\ Dropped(path, n) \in Paths
           /\ Len(Dropped(path, n)) = Len(path) - n
           /\ \A i \in 1..(Len(path) - n) : Dropped(path, n)[i] = path[n + i]
<1> DEFINE len == Len(path)
<1>1. path \in Seq(Segments) /\ len \in Nat /\ len <= MaxLength
  BY PathsAreSequences, LenProperties
<1>2. \A i \in (n + 1)..len : path[i] \in Segments
  BY <1>1, ElementOfSeq
<1>3. n + 1 \in Int /\ len \in Int
  BY <1>1
<1>4. /\ SubSeq(path, n + 1, len) \in Seq(Segments)
      /\ Len(SubSeq(path, n + 1, len)) = IF n + 1 <= len THEN len - (n + 1) + 1 ELSE 0
      /\ \A i \in 1..(len - (n + 1) + 1) : SubSeq(path, n + 1, len)[i] = path[n + 1 + i - 1]
  BY <1>2, <1>3, SubSeqProperties
<1> HIDE DEF len
<1>5. (IF n + 1 <= len THEN len - (n + 1) + 1 ELSE 0) = len - n
  BY <1>1 DEF len
<1>6. \A i \in 1..(len - n) : SubSeq(path, n + 1, len)[i] = path[n + i]
  <2>1. ASSUME NEW i \in 1..(len - n)
        PROVE  SubSeq(path, n + 1, len)[i] = path[n + i]
    <3>1. i \in 1..(len - (n + 1) + 1) /\ n + 1 + i - 1 = n + i
      BY <1>1
    <3>2. QED
      BY <1>4, <3>1
  <2>2. QED
    BY <2>1
<1>7. len - n <= MaxLength
  BY <1>1, GatewayAssumption
<1>8. Dropped(path, n) = SubSeq(path, n + 1, len)
  BY DEF len, Dropped
<1>9. Len(Dropped(path, n)) = len - n
  BY <1>4, <1>5, <1>8
<1>10. Dropped(path, n) \in Paths
  BY <1>4, <1>7, <1>8, <1>9, PathsAreSequences
<1>11. QED
  BY <1>6, <1>8, <1>9, <1>10 DEF len

LEMMA StrippedDropped ==
    ASSUME NEW path \in Paths, NEW n \in Nat, n < Len(path)
    PROVE  Stripped(Dropped(path, n)) = Dropped(path, n + 1)
<1> DEFINE rest == Dropped(path, n)
<1>1. Len(path) \in Nat /\ n <= Len(path) /\ n + 1 \in Nat /\ n + 1 <= Len(path)
  <2>1. Len(path) \in Nat
    BY PathsAreSequences, LenProperties
  <2>2. QED
    BY <2>1
<1>2. /\ rest \in Paths /\ Len(rest) = Len(path) - n
      /\ \A i \in 1..(Len(path) - n) : rest[i] = path[n + i]
  BY <1>1, DroppedFacts
<1>3. /\ Dropped(path, n + 1) \in Paths
      /\ Len(Dropped(path, n + 1)) = Len(path) - (n + 1)
      /\ \A i \in 1..(Len(path) - (n + 1)) : Dropped(path, n + 1)[i] = path[n + 1 + i]
  BY <1>1, DroppedFacts
<1>4. /\ Dropped(rest, 1) \in Paths
      /\ Len(Dropped(rest, 1)) = Len(rest) - 1
      /\ \A i \in 1..(Len(rest) - 1) : Dropped(rest, 1)[i] = rest[1 + i]
  <2>1. 1 \in Nat /\ 1 <= Len(rest)
    BY <1>1, <1>2
  <2>2. QED
    BY <1>2, <2>1, DroppedFacts
<1>5. Len(Dropped(rest, 1)) = Len(Dropped(path, n + 1))
  BY <1>1, <1>2, <1>3, <1>4
<1>6. ASSUME NEW i \in 1..Len(Dropped(rest, 1))
      PROVE  Dropped(rest, 1)[i] = Dropped(path, n + 1)[i]
  <2>1. i \in 1..(Len(rest) - 1) /\ i \in 1..(Len(path) - (n + 1)) /\ 1 + i \in 1..(Len(path) - n)
    BY <1>1, <1>2, <1>4
  <2>2. Dropped(rest, 1)[i] = path[n + (1 + i)]
    BY <1>2, <1>4, <2>1
  <2>3. n + (1 + i) = n + 1 + i
    BY <2>1
  <2>4. QED
    BY <1>3, <2>1, <2>2, <2>3
<1>7. Dropped(rest, 1) = Dropped(path, n + 1)
  BY <1>3, <1>4, <1>5, <1>6, PathsAreSequences, SeqEqual
<1>8. Stripped(rest) = Dropped(rest, 1)
  BY DEF Stripped, Dropped
<1>9. QED
  BY <1>7, <1>8

-----------------------------------------------------------------------------
(* The filters: each of the three runs once, in the order of the sorting.  *)

LEMMA RunsOnce ==
    ASSUME order \in Orders, NEW exchange, exchange.at \in 1..3,
           NEW filter, order[exchange.at] = filter
    PROVE  ~HasRun(filter, exchange)
BY DEF HasRun, Orders

LEMMA AllRun ==
    ASSUME order \in Orders, NEW exchange, exchange.at = 4, NEW filter \in Filters
    PROVE  HasRun(filter, exchange)
<1>1. /\ order[1] \in Filters /\ order[2] \in Filters /\ order[3] \in Filters
      /\ order[1] # order[2] /\ order[1] # order[3] /\ order[2] # order[3]
  BY DEF Orders
<1>2. filter \in {order[1], order[2], order[3]}
  BY <1>1 DEF Filters
<1>3. \A i \in {1, 2, 3} : i \in 1..(exchange.at - 1)
  OBVIOUS
<1>4. QED
  BY <1>2, <1>3 DEF HasRun

LEMMA NoneHasRun ==
    ASSUME NEW exchange, exchange.at \in {0, 1}, NEW filter
    PROVE  ~HasRun(filter, exchange)
BY DEF HasRun

LEMMA RunMore ==
    ASSUME NEW exchange, exchange.at \in 1..3, NEW next, next.at = exchange.at + 1,
           NEW filter
    PROVE  HasRun(filter, next) <=> HasRun(filter, exchange) \/ order[exchange.at] = filter
BY DEF HasRun

-----------------------------------------------------------------------------
(* What happens to the exchanges of a request.                             *)

(* What the actions change in an exchange.                                 *)
Same(x, at, url, path, answer) ==
    /\ x \in Exchange
    /\ x.at = at /\ x.url = url /\ x.path = path /\ x.answer = answer

LEMMA SetAt ==
    ASSUME NEW e \in Exchange, NEW at \in 0..4
    PROVE  Same([e EXCEPT !.at = at], at, e.url, e.path, e.answer)
BY DEF Exchange, Same

LEMMA SetUrl ==
    ASSUME NEW e \in Exchange, NEW url \in Url
    PROVE  Same([e EXCEPT !.url = url], e.at, url, e.path, e.answer)
BY DEF Exchange, Same

LEMMA SetPath ==
    ASSUME NEW e \in Exchange, NEW path \in Paths
    PROVE  Same([e EXCEPT !.path = path], e.at, e.url, path, e.answer)
BY DEF Exchange, Same

LEMMA SetAnswer ==
    ASSUME NEW e \in Exchange, NEW answer \in Answer
    PROVE  Same([e EXCEPT !.answer = answer], e.at, e.url, e.path, answer)
BY DEF Exchange, Same

LEMMA SetAnswered ==
    ASSUME NEW e \in Exchange, e.at \in 1..3, NEW answer \in Answer
    PROVE  Same(Answered(e, answer), e.at + 1, e.url, e.path, answer)
<1> DEFINE at == e.at + 1
           x == [e EXCEPT !.at = at]
<1>1. at \in 0..4
  OBVIOUS
<1> HIDE DEF at
<1>2. Same(x, at, e.url, e.path, e.answer)
  BY <1>1, SetAt
<1> HIDE DEF x
<1>3. Same([x EXCEPT !.answer = answer], at, e.url, e.path, answer)
  BY <1>2, SetAnswer DEF Same
<1>4. QED
  BY <1>3 DEF x, at, Answered

LEMMA SetRoute ==
    ASSUME NEW e \in Exchange, NEW at \in 0..4, NEW url \in Url
    PROVE  Same([e EXCEPT !.at = at, !.url = url], at, url, e.path, e.answer)
<1> DEFINE x == [e EXCEPT !.at = at]
<1>1. Same(x, at, e.url, e.path, e.answer)
  BY SetAt
<1> HIDE DEF x
<1>2. QED
  BY <1>1, SetUrl DEF x, Same

LEMMA SetStripped ==
    ASSUME NEW e \in Exchange, NEW at \in 0..4, NEW url \in Url, NEW path \in Paths
    PROVE  Same([e EXCEPT !.at = at, !.path = path, !.url = url], at, url, path, e.answer)
<1> DEFINE x == [e EXCEPT !.at = at]
           y == [x EXCEPT !.path = path]
<1>1. Same(x, at, e.url, e.path, e.answer)
  BY SetAt
<1> HIDE DEF x
<1>2. Same(y, at, e.url, path, e.answer)
  BY <1>1, SetPath DEF Same
<1> HIDE DEF y
<1>3. QED
  BY <1>2, SetUrl DEF x, y, Same

LEMMA InnerFacts ==
    ASSUME TypeOK, NEW r \in Requests, exchanges[r] # <<>>
    PROVE  /\ exchanges[r] \in Seq(Exchange)
           /\ Len(exchanges[r]) \in Nat \ {0}
           /\ Inner(r) \in Exchange
           /\ Inner(r) = exchanges[r][Len(exchanges[r])]
<1>1. exchanges[r] \in Seq(Exchange)
  BY DEF TypeOK
<1>2. Len(exchanges[r]) \in Nat \ {0}
  BY <1>1, EmptySeq, LenProperties
<1>3. Len(exchanges[r]) \in 1..Len(exchanges[r])
  BY <1>2
<1>4. QED
  BY <1>1, <1>2, <1>3, ElementOfSeq DEF Inner

LEMMA SetInnerFacts ==
    ASSUME TypeOK, NEW r \in Requests, exchanges[r] # <<>>,
           NEW exchange \in Exchange, SetInner(r, exchange)
    PROVE  /\ exchanges' \in [Requests -> Seq(Exchange)]
           /\ Len(exchanges'[r]) = Len(exchanges[r])
           /\ exchanges'[r][Len(exchanges[r])] = exchange
           /\ \A k \in 1..(Len(exchanges[r]) - 1) : exchanges'[r][k] = exchanges[r][k]
           /\ \A u \in Requests : u # r => exchanges'[u] = exchanges[u]
<1> DEFINE old == exchanges[r]
           n == Len(old)
           new == [old EXCEPT ![n] = exchange]
<1>1. old \in Seq(Exchange) /\ n \in Nat \ {0} /\ n \in 1..n
  BY InnerFacts
<1>2. new \in Seq(Exchange) /\ Len(new) = n
  BY <1>1, ExceptSeq
<1>3. new[n] = exchange /\ \A k \in 1..(n - 1) : new[k] = old[k]
  <2>1. DOMAIN old = 1..n
    BY <1>1
  <2>2. \A k \in 1..(n - 1) : k # n /\ k \in 1..n
    BY <1>1
  <2>3. QED
    BY <1>1, <2>1, <2>2
<1>4. exchanges \in [Requests -> Seq(Exchange)]
  BY DEF TypeOK
<1>5. exchanges' = [exchanges EXCEPT ![r] = new]
  BY DEF SetInner
<1> HIDE DEF old, n, new
<1>6. exchanges'[r] = new /\ exchanges' \in [Requests -> Seq(Exchange)]
      /\ \A u \in Requests : u # r => exchanges'[u] = exchanges[u]
  BY <1>2, <1>4, <1>5
<1>7. QED
  BY <1>2, <1>3, <1>6 DEF old, n

LEMMA ReplyFacts ==
    ASSUME TypeOK, NEW r \in Requests, exchanges[r] # <<>>, NEW answer \in Answer,
           Reply(r, answer), Len(exchanges[r]) # 1 =>
                                 exchanges[r][Len(exchanges[r]) - 1].at \in 1..3
    PROVE  /\ exchanges' \in [Requests -> Seq(Exchange)]
           /\ answers' \in [Requests -> {None} \cup Answer]
           /\ \A u \in Requests : u # r =>
                  exchanges'[u] = exchanges[u] /\ answers'[u] = answers[u]
           /\ Len(exchanges[r]) = 1 => exchanges'[r] = <<>> /\ answers'[r] = answer
           /\ Len(exchanges[r]) # 1 =>
                  /\ answers' = answers
                  /\ Len(exchanges'[r]) = Len(exchanges[r]) - 1
                  /\ exchanges'[r][Len(exchanges[r]) - 1] =
                         Answered(exchanges[r][Len(exchanges[r]) - 1], answer)
                  /\ \A k \in 1..(Len(exchanges[r]) - 2) : exchanges'[r][k] = exchanges[r][k]
<1> DEFINE old == exchanges[r]
           n == Len(old)
<1>1. old \in Seq(Exchange) /\ n \in Nat \ {0}
  BY InnerFacts
<1>2. exchanges \in [Requests -> Seq(Exchange)] /\ answers \in [Requests -> {None} \cup Answer]
  BY DEF TypeOK
<1>3. CASE n = 1
  <2>1. exchanges' = [exchanges EXCEPT ![r] = <<>>] /\ answers' = [answers EXCEPT ![r] = answer]
    BY <1>3 DEF Reply
  <2>2. <<>> \in Seq(Exchange)
    BY EmptySeq
  <2>3. QED
    BY <1>2, <1>3, <2>1, <2>2
<1>4. CASE n # 1
  <2> DEFINE rest == SubSeq(old, 1, n - 1)
             next == Answered(old[n - 1], answer)
             new == [rest EXCEPT ![n - 1] = next]
  <2>1. n - 1 \in 1..(n - 1) /\ n - 1 \in 1..n /\ n - 1 \in Nat \ {0}
    <3> HIDE DEF n
    <3>1. QED
      BY <1>1, <1>4
  <2>2. \A k \in 1..(n - 1) : old[k] \in Exchange
    BY <1>1, ElementOfSeq
  <2>3. rest \in Seq(Exchange) /\ Len(rest) = n - 1 /\ \A k \in 1..(n - 1) : rest[k] = old[k]
    <3>1. 1 \in Int /\ n - 1 \in Int
      BY <1>1
    <3>2. /\ rest \in Seq(Exchange)
          /\ Len(rest) = IF 1 <= n - 1 THEN n - 1 - 1 + 1 ELSE 0
          /\ \A k \in 1..(n - 1 - 1 + 1) : rest[k] = old[1 + k - 1]
      BY <2>2, <3>1, SubSeqProperties
    <3> HIDE DEF rest, old, n
    <3>3. (IF 1 <= n - 1 THEN n - 1 - 1 + 1 ELSE 0) = n - 1 /\ n - 1 - 1 + 1 = n - 1
      BY <2>1
    <3>4. \A k \in 1..(n - 1) : 1 + k - 1 = k
      OBVIOUS
    <3>5. QED
      BY <3>2, <3>3, <3>4
  <2>4. next \in Exchange
    <3>1. old[n - 1] \in Exchange /\ old[n - 1].at \in 1..3
      BY <1>4, <2>1, <2>2
    <3>2. QED
      BY <3>1, SetAnswered DEF Same
  <2>5. exchanges' = [exchanges EXCEPT ![r] = new] /\ answers' = answers
    BY <1>4 DEF Reply, Outer
  <2> HIDE DEF old, n, rest, next
  <2>6. new \in Seq(Exchange) /\ Len(new) = n - 1
    BY <2>1, <2>3, <2>4, ExceptSeq
  <2>7. new[n - 1] = next /\ \A k \in 1..(n - 2) : new[k] = old[k]
    <3>1. DOMAIN rest = 1..(n - 1)
      BY <2>3
    <3>2. \A k \in 1..(n - 2) : k # n - 1 /\ k \in 1..(n - 1)
      BY <1>1, <2>1
    <3>3. DOMAIN new = 1..(n - 1) /\ new[n - 1] = next
      BY <2>1, <3>1
    <3>4. ASSUME NEW k \in 1..(n - 2) PROVE new[k] = old[k]
      BY <2>3, <3>1, <3>2
    <3>5. QED
      BY <3>3, <3>4
  <2> HIDE DEF new
  <2>8. /\ exchanges' \in [Requests -> Seq(Exchange)] /\ exchanges'[r] = new
        /\ \A u \in Requests : u # r => exchanges'[u] = exchanges[u]
    BY <1>2, <2>5, <2>6
  <2>9. QED
    BY <1>2, <1>4, <2>5, <2>6, <2>7, <2>8 DEF old, n, next
<1>5. QED
  BY <1>3, <1>4

-----------------------------------------------------------------------------
(* The invariant under what the actions are made of.                       *)

(* Nothing happens to a request.                                           *)
LEMMA OthersStay ==
    ASSUME NEW u \in Requests, RequestInv(u), order' = order,
           sent'[u] = sent[u], exchanges'[u] = exchanges[u], answers'[u] = answers[u],
           calls'[u] = calls[u], u \in failed' <=> u \in failed
    PROVE  RequestInv(u)'
BY DEF RequestInv, Nested, Fits, Waits, Told, Inner, HasRun

(* The innermost exchange gets a new value that fits.                      *)
LEMMA Advance ==
    ASSUME Inv, NEW r \in Requests, exchanges[r] # <<>>,
           NEW exchange \in Exchange, SetInner(r, exchange),
           Fits(sent[r].path, Len(exchanges[r]), exchange),
           r \in failed => exchange.answer # None /\ exchange.answer.body # "whole",
           UNCHANGED <<order, sent, answers, failed>>,
           calls' \in [Requests -> SUBSET Url],
           \A u \in Requests : u # r => calls'[u] = calls[u]
    PROVE  Inv'
<1> DEFINE n == Len(exchanges[r])
<1>1. TypeOK /\ RequestInv(r)
  BY DEF Inv
<1>2. exchanges[r] \in Seq(Exchange) /\ n \in Nat \ {0}
  BY <1>1, InnerFacts
<1>3. /\ exchanges' \in [Requests -> Seq(Exchange)] /\ Len(exchanges'[r]) = n
      /\ exchanges'[r][n] = exchange
      /\ \A k \in 1..(n - 1) : exchanges'[r][k] = exchanges[r][k]
      /\ \A u \in Requests : u # r => exchanges'[u] = exchanges[u]
  BY <1>1, SetInnerFacts
<1> HIDE DEF n
<1>4. TypeOK'
  BY <1>1, <1>3 DEF TypeOK
<1>5. Nested(r)'
  <2>1. \A e : (HasRun("request", e) <=> HasRun("request", e)') /\ (HasRun("netty", e) <=> HasRun("netty", e)')
    BY DEF HasRun
  <2>2. ASSUME NEW k \in 1..n
        PROVE  /\ Fits(sent[r].path, k, exchanges'[r][k])
               /\ k < n => Waits(exchanges'[r][k])
    <3>1. CASE k = n
      BY <1>3, <3>1 DEF n
    <3>2. CASE k # n
      <4>1. k \in 1..(n - 1)
        BY <1>2, <3>2
      <4>2. k \in 1..Len(exchanges[r]) /\ k < Len(exchanges[r])
        BY <1>2, <4>1 DEF n
      <4>3. exchanges'[r][k] = exchanges[r][k]
        BY <1>3, <4>1
      <4>4. QED
        BY <1>1, <4>2, <4>3 DEF RequestInv, Nested
    <3>3. QED
      BY <3>1, <3>2
  <2>3. QED
    BY <1>3, <2>2 DEF Nested, Fits, Waits, HasRun
<1>6. exchanges'[r] # <<>> /\ Inner(r)' = exchange
  <2>1. exchanges'[r] # <<>>
    BY <1>2, <1>3
  <2>2. QED
    BY <1>3, <2>1 DEF Inner
<1>7. RequestInv(r)'
  BY <1>1, <1>5, <1>6 DEF RequestInv, Told
<1>8. \A u \in Requests : u # r => RequestInv(u)'
  BY <1>3, OthersStay DEF Inv
<1>9. QED
  BY <1>4, <1>7, <1>8 DEF Inv

(* The innermost exchange ends with an answer.                             *)
LEMMA Ends ==
    ASSUME Inv, NEW r \in Requests, exchanges[r] # <<>>,
           NEW answer \in Answer, Reply(r, answer),
           UNCHANGED <<order, sent, calls>>,
           failed' \in {failed, failed \cup {r}},
           r \in failed' => answer.body # "whole"
    PROVE  Inv'
<1> DEFINE n == Len(exchanges[r])
           waiting == exchanges[r][n - 1]
           next == Answered(waiting, answer)
<1>1. TypeOK /\ RequestInv(r)
  BY DEF Inv
<1>2. exchanges[r] \in Seq(Exchange) /\ n \in Nat \ {0}
  BY <1>1, InnerFacts
<1>3. n # 1 => n - 1 \in 1..n /\ waiting \in Exchange /\ Waits(waiting)
               /\ Fits(sent[r].path, n - 1, waiting)
  <2>1. SUFFICES ASSUME n # 1
                 PROVE  n - 1 \in 1..n /\ waiting \in Exchange /\ Waits(waiting)
                        /\ Fits(sent[r].path, n - 1, waiting)
    OBVIOUS
  <2> HIDE DEF n
  <2>2. n - 1 \in 1..n /\ n - 1 < n
    BY <1>2, <2>1
  <2>3. QED
    BY <1>1, <1>2, <2>2, ElementOfSeq DEF n, RequestInv, Nested
<1>4. n # 1 => waiting.at \in 1..3
  BY <1>3 DEF Waits
<1>5. /\ exchanges' \in [Requests -> Seq(Exchange)]
      /\ answers' \in [Requests -> {None} \cup Answer]
      /\ \A u \in Requests : u # r =>
             exchanges'[u] = exchanges[u] /\ answers'[u] = answers[u]
      /\ n = 1 => exchanges'[r] = <<>> /\ answers'[r] = answer
      /\ n # 1 => /\ answers' = answers
                  /\ Len(exchanges'[r]) = n - 1
                  /\ exchanges'[r][n - 1] = next
                  /\ \A k \in 1..(n - 2) : exchanges'[r][k] = exchanges[r][k]
  BY <1>1, <1>4, ReplyFacts
<1>6. TypeOK'
  BY <1>1, <1>5 DEF TypeOK
<1>7. \A u \in Requests : u # r => RequestInv(u)'
  BY <1>5, OthersStay DEF Inv
<1>8. answers[r] = None /\ sent[r] # None /\ None \notin Answer
  BY <1>1, GatewayAssumption DEF RequestInv
<1>9. CASE n = 1
  <2>1. Nested(r)'
    BY <1>5, <1>9, EmptySeq DEF Nested
  <2>2. QED
    BY <1>1, <1>5, <1>6, <1>7, <1>8, <1>9, <2>1 DEF Inv, RequestInv, Told
<1>10. CASE n # 1
  <2>1. waiting \in Exchange /\ Waits(waiting) /\ Fits(sent[r].path, n - 1, waiting)
    BY <1>3, <1>10
  <2>2. /\ next.at = waiting.at + 1 /\ next.path = waiting.path
        /\ next.url = waiting.url /\ next.answer = answer
    BY <1>4, <1>10, <2>1, SetAnswered DEF Same
  <2>3. Fits(sent[r].path, n - 1, next)
    <3>1. HasRun("request", next) /\ HasRun("request", waiting) /\ HasRun("netty", next)
      <4>1. waiting.at \in 1..3 /\ order[waiting.at] = "netty" /\ HasRun("request", waiting)
        BY <2>1 DEF Waits
      <4>2. next.at = waiting.at + 1
        BY <2>2
      <4> HIDE DEF waiting, next
      <4>3. QED
        BY <4>1, <4>2, RunMore
    <3>2. waiting.at > 0 /\ next.at > 0
      BY <2>1, <2>2 DEF Waits
    <3>3. next.answer # None
      BY <1>8, <2>2
    <3> HIDE DEF n, waiting, next
    <3>4. QED
      BY <2>1, <2>2, <3>1, <3>2, <3>3 DEF Fits
  <2>4. exchanges'[r][n - 1] = next /\ Len(exchanges'[r]) = n - 1
    BY <1>5, <1>10
  <2> HIDE DEF n, waiting, next
  <2>5. ASSUME NEW k \in 1..(n - 1)
        PROVE  /\ Fits(sent[r].path, k, exchanges'[r][k])
               /\ k < n - 1 => Waits(exchanges'[r][k])
    <3>1. CASE k = n - 1
      BY <2>3, <2>4, <3>1
    <3>2. CASE k # n - 1
      <4>1. k \in 1..(n - 2) /\ k \in 1..n /\ k < n
        BY <1>2, <3>2
      <4>2. exchanges'[r][k] = exchanges[r][k]
        BY <1>5, <1>10, <4>1
      <4>3. QED
        BY <1>1, <4>1, <4>2 DEF RequestInv, Nested, n
    <3>3. QED
      BY <3>1, <3>2
  <2>6. Nested(r)'
    BY <2>4, <2>5, SMTT(30) DEF Nested, Fits, Waits, HasRun
  <2>7. exchanges'[r] # <<>> /\ Inner(r)' = next
    <3>1. exchanges'[r] # <<>>
      BY <1>2, <1>10, <2>4
    <3>2. QED
      BY <2>4, <3>1 DEF Inner
  <2>8. RequestInv(r)'
    BY <1>1, <1>5, <1>8, <1>10, <2>2, <2>6, <2>7 DEF RequestInv, Told
  <2>9. QED
    BY <1>6, <1>7, <2>8 DEF Inv
<1>11. QED
  BY <1>9, <1>10

(* The gateway opens an exchange for the request it sends to itself.       *)
LEMMA Nests ==
    ASSUME Inv, NEW r \in Requests, SendToItself(r)
    PROVE  Inv'
<1> DEFINE n == Len(exchanges[r])
           inner == Inner(r)
           opened == Opened(inner.url.path)
<1>1. TypeOK /\ RequestInv(r) /\ exchanges[r] # <<>> /\ Runs(r, "netty")
  BY DEF Inv, SendToItself, Runs
<1>2. exchanges[r] \in Seq(Exchange) /\ n \in Nat \ {0} /\ inner \in Exchange
      /\ inner = exchanges[r][n]
  BY <1>1, InnerFacts
<1>3. Fits(sent[r].path, n, inner) /\ sent[r] # None /\ sent[r] \in Input
  BY <1>1, <1>2 DEF RequestInv, Nested, TypeOK
<1>4. inner.at \in 1..3 /\ order[inner.at] = "netty" /\ inner.url.to = Gateway
  BY <1>1 DEF Runs, SendToItself
<1> HIDE DEF n, inner
<1>5. sent[r].path \in Paths /\ Len(sent[r].path) \in Nat /\ n <= Len(sent[r].path)
  <2>1. sent[r].path \in Paths
    BY <1>3 DEF Input
  <2>2. QED
    BY <1>3, <1>4, <2>1, PathsAreSequences, LenProperties DEF Fits
<1>6. HasRun("request", inner)
  <2>1. SUFFICES ASSUME ~HasRun("request", inner) PROVE FALSE
    OBVIOUS
  <2>2. inner.url = [to |-> sent[r].path[n], path |-> inner.path] /\ sent[r].path[n] \in Services
    BY <1>3, <1>4, <2>1 DEF Fits
  <2>3. QED
    BY <1>4, <2>2, GatewayAssumption
<1>7. Waits(inner)
  BY <1>4, <1>6 DEF Waits
<1>8. inner.url.path = inner.path /\ inner.path = Dropped(sent[r].path, n)
  <2>1. inner.path = Dropped(sent[r].path, n - 1 + 1)
    BY <1>3, <1>6 DEF Fits
  <2>2. n - 1 + 1 = n
    BY <1>2
  <2>3. QED
    BY <1>3, <1>4, <1>6, <2>1, <2>2 DEF Fits
<1>9. opened \in Exchange /\ opened.path = Dropped(sent[r].path, n)
      /\ opened.at = 0 /\ opened.answer = None
  <2>1. inner.path \in Paths
    BY <1>2 DEF Exchange
  <2>2. QED
    BY <1>8, <2>1 DEF Opened, Exchange
<1> HIDE DEF opened
<1>10. Fits(sent[r].path, n + 1, opened)
  <2>1. ~HasRun("request", opened) /\ ~HasRun("netty", opened)
    BY <1>9, NoneHasRun
  <2>2. (n + 1) - 1 + 0 = n /\ n + 1 <= Len(sent[r].path) + 1
    BY <1>2, <1>5
  <2>3. ~(opened.at > 0)
    BY <1>9
  <2>4. opened.path = Dropped(sent[r].path, (n + 1) - 1 + (IF HasRun("request", opened) THEN 1 ELSE 0))
    BY <1>9, <2>1, <2>2
  <2>6. opened.answer # None <=> HasRun("netty", opened)
    BY <1>9, <2>1
  <2>7. n + 1 <= Len(sent[r].path) + 1
    BY <2>2
  <2>8. QED
    BY <2>3, <2>4, <2>6, <2>7 DEF Fits
<1>11. exchanges \in [Requests -> Seq(Exchange)] /\ UNCHANGED <<order, sent, answers, calls, failed>>
       /\ exchanges' = [exchanges EXCEPT ![r] = Append(exchanges[r], opened)]
  BY <1>1 DEF SendToItself, TypeOK, opened, inner
<1>12. /\ Append(exchanges[r], opened) \in Seq(Exchange)
       /\ Len(Append(exchanges[r], opened)) = n + 1
       /\ \A k \in 1..n : Append(exchanges[r], opened)[k] = exchanges[r][k]
       /\ Append(exchanges[r], opened)[n + 1] = opened
  BY <1>2, <1>9, AppendProperties DEF n
<1>13. /\ exchanges' \in [Requests -> Seq(Exchange)]
       /\ exchanges'[r] = Append(exchanges[r], opened)
       /\ \A u \in Requests : u # r => exchanges'[u] = exchanges[u]
  BY <1>11, <1>12
<1>14. TypeOK'
  BY <1>1, <1>11, <1>13 DEF TypeOK
<1>15. \A u \in Requests : u # r => RequestInv(u)'
  BY <1>11, <1>13, OthersStay DEF Inv
<1>16. ASSUME NEW k \in 1..(n + 1)
       PROVE  /\ Fits(sent[r].path, k, exchanges'[r][k])
              /\ k < n + 1 => Waits(exchanges'[r][k])
  <2>1. CASE k = n + 1
    BY <1>10, <1>12, <1>13, <2>1
  <2>2. CASE k # n + 1
    <3>1. k \in 1..n /\ (k = n \/ k < n)
      BY <1>2, <2>2
    <3>2. exchanges'[r][k] = exchanges[r][k]
      BY <1>12, <1>13, <3>1
    <3>3. Fits(sent[r].path, k, exchanges[r][k]) /\ (k < n => Waits(exchanges[r][k]))
      BY <1>1, <3>1 DEF RequestInv, Nested, n
    <3>4. QED
      BY <1>2, <1>7, <3>1, <3>2, <3>3
  <2>3. QED
    BY <2>1, <2>2
<1>17. Nested(r)'
  <2>1. Len(exchanges'[r]) = n + 1
    BY <1>12, <1>13
  <2>2. ASSUME NEW k \in 1..(n + 1)
        PROVE  /\ Fits(sent[r].path, k, exchanges[r][k])'
               /\ k < n + 1 => Waits(exchanges[r][k])'
    <3>1. /\ Fits(sent[r].path, k, exchanges'[r][k])
          /\ k < n + 1 => Waits(exchanges'[r][k])
      BY <1>16
    <3>2. QED
      BY <1>11, <3>1 DEF Fits, Waits, HasRun
  <2>3. QED
    BY <2>1, <2>2 DEF Nested
<1>18. r \notin failed
  <2>1. inner.answer = None
    BY <1>3, <1>4, <1>1, RunsOnce DEF Fits, TypeOK
  <2>2. QED
    BY <1>1, <2>1 DEF RequestInv, Told, inner
<1>19. RequestInv(r)'
  BY <1>1, <1>3, <1>11, <1>17, <1>18 DEF RequestInv
<1>20. QED
  BY <1>14, <1>15, <1>19 DEF Inv

-----------------------------------------------------------------------------
(* The actions.                                                            *)

(* What the invariant says of the innermost exchange.                      *)
LEMMA InnermostFits ==
    ASSUME Inv, NEW r \in Requests, exchanges[r] # <<>>
    PROVE  /\ TypeOK /\ RequestInv(r)
           /\ Inner(r) \in Exchange /\ Len(exchanges[r]) \in Nat \ {0}
           /\ Fits(sent[r].path, Len(exchanges[r]), Inner(r))
           /\ sent[r].path \in Paths /\ Len(sent[r].path) \in Nat
           /\ sent[r] # None
<1>1. TypeOK /\ RequestInv(r)
  BY DEF Inv
<1>2. /\ Inner(r) \in Exchange /\ Len(exchanges[r]) \in Nat \ {0}
      /\ Inner(r) = exchanges[r][Len(exchanges[r])]
  BY <1>1, InnerFacts
<1>3. Len(exchanges[r]) \in 1..Len(exchanges[r])
  BY <1>2
<1>4. Fits(sent[r].path, Len(exchanges[r]), Inner(r))
  BY <1>1, <1>2, <1>3 DEF RequestInv, Nested
<1>5. sent[r] # None /\ sent[r] \in Input
  BY <1>1 DEF RequestInv, TypeOK
<1>6. sent[r].path \in Paths /\ Len(sent[r].path) \in Nat
  BY <1>5, PathsAreSequences, LenProperties DEF Input
<1>7. QED
  BY <1>1, <1>2, <1>4, <1>5, <1>6

(* Before NettyRoutingFilter nothing has been thrown.                      *)
LEMMA NothingThrownBefore ==
    ASSUME Inv, NEW r \in Requests, exchanges[r] # <<>>, ~HasRun("netty", Inner(r))
    PROVE  r \notin failed /\ Inner(r).answer = None
BY InnermostFits DEF Fits, RequestInv, Told

(* Routing: the URL names the service of the first segment.                *)
LEMMA RouteStep ==
    ASSUME Inv, NEW r \in Requests, Route(r)
    PROVE  Inv'
<1> DEFINE n == Len(exchanges[r])
           path == sent[r].path
           inner == Inner(r)
           next == [inner EXCEPT !.at = 1, !.url = [to |-> inner.path[1], path |-> inner.path]]
<1>1. exchanges[r] # <<>> /\ inner.at = 0 /\ SetInner(r, next)
      /\ UNCHANGED <<order, sent, answers, calls, failed>>
      /\ inner.path # <<>> /\ inner.path[1] \in Services
  BY DEF Route, BeforeRouting, HasRoute
<1>2. /\ TypeOK /\ RequestInv(r) /\ inner \in Exchange /\ n \in Nat \ {0}
      /\ Fits(path, n, inner) /\ path \in Paths /\ Len(path) \in Nat
  BY <1>1, InnermostFits
<1>3. \A filter : ~HasRun(filter, inner)
  BY <1>1, NoneHasRun
<1> HIDE DEF n, path, inner
<1>4. inner.path = Dropped(path, n - 1) /\ n <= Len(path) + 1
  <2>1. inner.path = Dropped(path, n - 1 + 0)
    BY <1>2, <1>3 DEF Fits
  <2>2. n - 1 + 0 = n - 1
    BY <1>2
  <2>3. QED
    BY <1>2, <2>1, <2>2 DEF Fits
<1>5. n <= Len(path) /\ inner.path[1] = path[n] /\ inner.path \in Paths
  <2> DEFINE m == n - 1
  <2>1. m \in Nat /\ m <= Len(path) /\ inner.path = Dropped(path, m)
    BY <1>2, <1>4
  <2> HIDE DEF m
  <2>2. /\ inner.path \in Paths /\ Len(inner.path) = Len(path) - m
        /\ \A i \in 1..(Len(path) - m) : inner.path[i] = path[m + i]
    BY <1>2, <2>1, DroppedFacts
  <2>3. Len(inner.path) # 0
    BY <1>1, <2>2, PathsAreSequences, EmptySeq
  <2>4. n <= Len(path) /\ 1 \in 1..(Len(path) - m) /\ m + 1 = n
    BY <1>2, <2>1, <2>2, <2>3 DEF m
  <2>5. QED
    BY <2>2, <2>4
<1>6. /\ next \in Exchange /\ next.at = 1 /\ next.path = inner.path /\ next.answer = inner.answer
      /\ next.url = [to |-> path[n], path |-> inner.path]
  <2>1. [to |-> inner.path[1], path |-> inner.path] \in Url
    BY <1>1, <1>5 DEF Url
  <2>2. 1 \in 0..4
    OBVIOUS
  <2>3. QED
    <3>1. Same(next, 1, [to |-> inner.path[1], path |-> inner.path], inner.path, inner.answer)
      BY <1>2, <1>5, <2>1, <2>2, SetRoute
    <3>2. QED
      BY <1>5, <3>1 DEF Same
<1> HIDE DEF next
<1>7. \A filter : ~HasRun(filter, next)
  BY <1>6, NoneHasRun
<1>8. Fits(path, n, next)
  <2>1. n - 1 + 0 = n - 1 /\ next.at > 0
    BY <1>2, <1>6
  <2>2. next.path = Dropped(path, n - 1 + (IF HasRun("request", next) THEN 1 ELSE 0))
    BY <1>4, <1>6, <1>7, <2>1
  <2>3. next.answer # None <=> HasRun("netty", next)
    BY <1>2, <1>3, <1>6, <1>7 DEF Fits
  <2>4. next.url = [to |-> IF HasRun("request", next) THEN Gateway ELSE path[n],
                    path |-> next.path]
    BY <1>6, <1>7
  <2>5. n <= Len(path) + 1 /\ n <= Len(path) /\ path[n] \in Services
    BY <1>1, <1>4, <1>5
  <2>6. QED
    BY <2>2, <2>3, <2>4, <2>5 DEF Fits
<1>9. r \notin failed
  BY <1>1, <1>3, NothingThrownBefore DEF inner
<1>10. /\ calls' \in [Requests -> SUBSET Url]
       /\ \A u \in Requests : u # r => calls'[u] = calls[u]
  BY <1>1, <1>2 DEF TypeOK, RequestInv, path
<1>11. QED
  BY <1>1, <1>6, <1>8, <1>9, <1>10, Advance DEF n, path, next

(* RequestGlobalFilter: the first segment goes, and the URL is the         *)
(* gateway's own.                                                          *)
LEMMA StripStep ==
    ASSUME Inv, NEW r \in Requests, RequestGlobalFilter(r)
    PROVE  Inv'
<1> DEFINE n == Len(exchanges[r])
           path == sent[r].path
           inner == Inner(r)
           newPath == Stripped(inner.path)
           next == [inner EXCEPT !.at = inner.at + 1, !.path = newPath,
                                 !.url = [to |-> Gateway, path |-> newPath]]
<1>1. exchanges[r] # <<>> /\ inner.at \in 1..3 /\ order[inner.at] = "request"
      /\ SetInner(r, next) /\ UNCHANGED <<order, sent, answers, calls, failed>>
  BY DEF RequestGlobalFilter, Runs
<1>2. /\ TypeOK /\ RequestInv(r) /\ inner \in Exchange /\ n \in Nat \ {0}
      /\ Fits(path, n, inner) /\ path \in Paths /\ Len(path) \in Nat
  BY <1>1, InnermostFits
<1>3. ~HasRun("request", inner)
  BY <1>1, <1>2, RunsOnce DEF TypeOK
<1> HIDE DEF n, path, inner
<1>4. n <= Len(path) /\ n <= Len(path) + 1 /\ n - 1 \in Nat /\ n - 1 < Len(path)
      /\ (n - 1) + 1 = n /\ inner.at > 0 /\ inner.at + 1 \in 1..4
  <2>1. inner.at > 0 /\ inner.at + 1 \in 1..4
    BY <1>1
  <2>2. n <= Len(path)
    BY <1>2, <2>1 DEF Fits
  <2>3. QED
    BY <1>2, <2>1, <2>2
<1>5. newPath = Dropped(path, n) /\ newPath \in Paths
  <2>1. inner.path = Dropped(path, n - 1 + 0)
    BY <1>2, <1>3 DEF Fits
  <2>2. n - 1 + 0 = n - 1
    BY <1>2
  <2>3. inner.path = Dropped(path, n - 1)
    BY <2>1, <2>2
  <2>4. newPath = Dropped(path, (n - 1) + 1)
    BY <1>2, <1>4, <2>3, StrippedDropped
  <2>5. QED
    BY <1>2, <1>4, <2>4, DroppedFacts
<1> HIDE DEF newPath
<1>6. Same(next, inner.at + 1, [to |-> Gateway, path |-> newPath], newPath, inner.answer)
  <2>1. [to |-> Gateway, path |-> newPath] \in Url
    BY <1>5 DEF Url
  <2>2. inner.at + 1 \in 0..4
    BY <1>4
  <2>3. QED
    BY <1>2, <1>5, <2>1, <2>2, SetStripped
<1> HIDE DEF next
<1>7. next.at \in 1..4 /\ next.at = inner.at + 1 /\ next \in Exchange
  BY <1>4, <1>6 DEF Same
<1>8. HasRun("request", next) /\ (HasRun("netty", next) <=> HasRun("netty", inner))
  BY <1>1, <1>7, RunMore
<1>9. Fits(path, n, next)
  <2>1. n - 1 + 1 = n
    BY <1>2
  <2>2. next.path = Dropped(path, n - 1 + (IF HasRun("request", next) THEN 1 ELSE 0))
    BY <1>5, <1>6, <1>8, <2>1 DEF Same
  <2>3. next.answer # None <=> HasRun("netty", next)
    BY <1>2, <1>6, <1>8 DEF Fits, Same
  <2>4. next.url = [to |-> IF HasRun("request", next) THEN Gateway ELSE path[n],
                    path |-> next.path]
    BY <1>6, <1>8 DEF Same
  <2>5. QED
    BY <1>4, <1>8, <2>2, <2>3, <2>4 DEF Fits
<1>10. r \in failed => next.answer # None /\ next.answer.body # "whole"
  BY <1>1, <1>2, <1>6 DEF RequestInv, Told, Same, inner
<1>11. /\ calls' \in [Requests -> SUBSET Url]
       /\ \A u \in Requests : u # r => calls'[u] = calls[u]
  BY <1>1, <1>2 DEF TypeOK, RequestInv, path
<1>12. QED
  BY <1>1, <1>7, <1>9, <1>10, <1>11, Advance DEF n, path

(* SwaggerGatewayFilter goes on with the chain, or answers itself.         *)
LEMMA SwaggerStep ==
    ASSUME Inv, NEW r \in Requests, SwaggerGatewayFilter(r)
    PROVE  Inv'
<1> DEFINE n == Len(exchanges[r])
           path == sent[r].path
           inner == Inner(r)
           next == [inner EXCEPT !.at = inner.at + 1]
<1>1. exchanges[r] # <<>> /\ inner.at \in 1..3 /\ order[inner.at] = "swagger"
      /\ UNCHANGED <<order, sent, calls, failed>>
  BY DEF SwaggerGatewayFilter, Runs
<1>2. CASE MayRead(r)
  <2>1. SetInner(r, next) /\ UNCHANGED answers
    BY <1>2 DEF SwaggerGatewayFilter
  <2>2. /\ TypeOK /\ RequestInv(r) /\ inner \in Exchange /\ Fits(path, n, inner)
    BY <1>1, InnermostFits
  <2> HIDE DEF n, path, inner
  <2>3. Same(next, inner.at + 1, inner.url, inner.path, inner.answer)
    <3>1. inner.at + 1 \in 0..4
      BY <1>1
    <3>2. QED
      BY <2>2, <3>1, SetAt
  <2> HIDE DEF next
  <2>4. next.at = inner.at + 1 /\ next.at > 0 /\ inner.at > 0 /\ next \in Exchange
    BY <1>1, <2>3 DEF Same
  <2>5. /\ HasRun("request", next) <=> HasRun("request", inner)
        /\ HasRun("netty", next) <=> HasRun("netty", inner)
    BY <1>1, <2>4, RunMore
  <2>6. Fits(path, n, next)
    BY <2>2, <2>3, <2>4, <2>5 DEF Fits, Same
  <2>7. r \in failed => next.answer # None /\ next.answer.body # "whole"
    BY <1>1, <2>2, <2>3 DEF RequestInv, Told, Same, inner
  <2>8. /\ calls' \in [Requests -> SUBSET Url]
        /\ \A u \in Requests : u # r => calls'[u] = calls[u]
    BY <1>1, <2>2 DEF TypeOK, RequestInv, path
  <2>9. QED
    BY <1>1, <2>1, <2>4, <2>6, <2>7, <2>8, Advance DEF n, path
<1>3. CASE ~MayRead(r)
  <2>1. Reply(r, [status |-> 401, body |-> "none"])
    BY <1>3 DEF SwaggerGatewayFilter
  <2>2. [status |-> 401, body |-> "none"] \in Answer
    BY DEF Answer
  <2>3. QED
    BY <1>1, <2>1, <2>2, Ends
<1>4. QED
  BY <1>2, <1>3

(* NettyRoutingFilter reaches a service only from the first exchange, in a *)
(* gateway where RequestGlobalFilter comes later.                          *)
LEMMA ServiceStep ==
    ASSUME Inv, NEW r \in Requests, ServiceAnswers(r)
    PROVE  Inv'
<1> DEFINE n == Len(exchanges[r])
           path == sent[r].path
           inner == Inner(r)
<1>1. exchanges[r] # <<>> /\ inner.at \in 1..3 /\ order[inner.at] = "netty"
      /\ inner.url.to # Gateway
      /\ UNCHANGED <<order, sent, answers, failed>>
      /\ calls' = [calls EXCEPT ![r] = @ \cup {inner.url}]
  BY DEF ServiceAnswers, Runs
<1>2. /\ TypeOK /\ RequestInv(r) /\ inner \in Exchange /\ n \in Nat \ {0}
      /\ Fits(path, n, inner) /\ path \in Paths /\ Len(path) \in Nat
      /\ exchanges[r] \in Seq(Exchange)
  BY <1>1, InnermostFits, InnerFacts
<1>3. PICK whole \in Answer : SetInner(r, Answered(inner, whole))
  <2>1. \A status \in {200, 404, 500} : [status |-> status, body |-> "whole"] \in Answer
    BY DEF Answer
  <2>2. QED
    BY <2>1 DEF ServiceAnswers
<1> DEFINE next == Answered(inner, whole)
<1>4. ~HasRun("netty", inner)
  BY <1>1, <1>2, RunsOnce DEF TypeOK
<1>5. r \notin failed
  BY <1>1, <1>4, NothingThrownBefore
<1> HIDE DEF n, path, inner
<1>6. ~HasRun("request", inner)
  <2>1. HasRun("request", inner) => inner.url.to = Gateway
    BY <1>1, <1>2 DEF Fits
  <2>2. QED
    BY <1>1, <2>1
<1>7. n = 1
  <2>1. SUFFICES ASSUME n # 1 PROVE FALSE
    OBVIOUS
  <2>2. 1 \in 1..n /\ 1 < n
    BY <1>2, <2>1
  <2> DEFINE outer == exchanges[r][1]
  <2>3. outer.at \in 1..3 /\ order[outer.at] = "netty" /\ HasRun("request", outer)
    BY <1>2, <2>2 DEF RequestInv, Nested, Waits, n
  <2> HIDE DEF outer
  <2>4. outer.at = inner.at
    BY <1>1, <1>2, <2>3 DEF TypeOK, Orders
  <2>5. QED
    BY <1>6, <2>3, <2>4 DEF HasRun
<1>8. inner.path = path /\ inner.url = [to |-> path[1], path |-> path] /\ inner.url \in Url
  <2>1. inner.path = Dropped(path, n - 1 + 0)
    BY <1>2, <1>6 DEF Fits
  <2>2. n - 1 + 0 = 0 /\ 0 + 1 = 1
    BY <1>7
  <2>3. Dropped(path, 0) = path
    BY <1>2, <2>2, PathsAreSequences, SubSeqFull DEF Dropped
  <2>4. inner.path = path
    BY <2>1, <2>2, <2>3
  <2>5. inner.at > 0
    BY <1>1
  <2>6. inner.url = [to |-> path[1], path |-> path] /\ path[1] \in Services
    BY <1>2, <1>6, <1>7, <2>4, <2>5 DEF Fits
  <2>7. QED
    BY <1>2, <2>4, <2>6 DEF Url
<1>9. whole \in Answer /\ None \notin Answer
  BY <1>3, GatewayAssumption
<1>10. Same(next, inner.at + 1, inner.url, inner.path, whole)
  BY <1>1, <1>2, <1>9, SetAnswered
<1> HIDE DEF next
<1>11. next.at = inner.at + 1 /\ next.at > 0 /\ inner.at > 0 /\ next \in Exchange
  BY <1>1, <1>10 DEF Same
<1>12. ~HasRun("request", next) /\ HasRun("netty", next)
  BY <1>1, <1>6, <1>11, RunMore
<1>13. Fits(path, n, next)
  <2>1. next.answer # None /\ next.path = inner.path /\ next.url = inner.url
    BY <1>9, <1>10 DEF Same
  <2>2. QED
    BY <1>2, <1>6, <1>11, <1>12, <2>1 DEF Fits
<1>14. /\ calls' \in [Requests -> SUBSET Url]
       /\ \A u \in Requests : u # r => calls'[u] = calls[u]
  <2>1. calls \in [Requests -> SUBSET Url]
    BY <1>2 DEF TypeOK
  <2>2. QED
    BY <1>1, <1>8, <2>1
<1>15. SetInner(r, next)
  BY <1>3 DEF next
<1>16. QED
  BY <1>1, <1>5, <1>11, <1>13, <1>14, <1>15, Advance DEF n, path

(* A request arrives.                                                      *)
LEMMA SendStep ==
    ASSUME Inv, NEW r \in Requests, Send(r)
    PROVE  Inv'
<1>1. TypeOK /\ RequestInv(r) /\ sent[r] = None
  BY DEF Inv, Send
<1>2. PICK input \in Input : /\ sent' = [sent EXCEPT ![r] = input]
                             /\ exchanges' = [exchanges EXCEPT ![r] = <<Opened(input.path)>>]
  BY DEF Send
<1>3. UNCHANGED <<order, answers, calls, failed>>
  BY DEF Send
<1> DEFINE opened == Opened(input.path)
<1>4. /\ opened \in Exchange /\ opened.at = 0 /\ opened.answer = None
      /\ opened.path = input.path /\ input.path \in Paths
  BY DEF Opened, Exchange, Input
<1> HIDE DEF opened
<1>5. <<opened>> \in Seq(Exchange) /\ Len(<<opened>>) = 1 /\ <<opened>>[1] = opened
  BY <1>4
<1>6. /\ sent'[r] = input /\ exchanges'[r] = <<opened>>
      /\ exchanges' \in [Requests -> Seq(Exchange)]
      /\ sent' \in [Requests -> {None} \cup Input]
      /\ \A u \in Requests : u # r => sent'[u] = sent[u] /\ exchanges'[u] = exchanges[u]
  BY <1>1, <1>2, <1>5 DEF TypeOK, opened
<1>7. Fits(input.path, 1, opened)
  <2>1. ~HasRun("request", opened) /\ ~HasRun("netty", opened)
    BY <1>4, NoneHasRun
  <2>2. Dropped(input.path, 0) = input.path /\ Len(input.path) \in Nat
    <3>1. input.path \in Seq(Segments) /\ Len(input.path) \in Nat /\ 0 + 1 = 1
      BY <1>4, PathsAreSequences, LenProperties
    <3>2. QED
      BY <3>1, SubSeqFull DEF Dropped
  <2>3. 1 - 1 + 0 = 0 /\ 1 <= Len(input.path) + 1 /\ ~(opened.at > 0)
    BY <1>4, <2>2
  <2>4. opened.path = Dropped(input.path, 1 - 1 + (IF HasRun("request", opened) THEN 1 ELSE 0))
    BY <1>4, <2>1, <2>2, <2>3
  <2>5. QED
    BY <1>4, <2>1, <2>3, <2>4 DEF Fits
<1>8. Nested(r)'
  <2>1. Fits(sent[r].path, 1, exchanges[r][1])'
    BY <1>3, <1>5, <1>6, <1>7 DEF Fits, HasRun
  <2>2. Len(exchanges'[r]) = 1
    BY <1>5, <1>6
  <2>3. \A k \in 1..1 : k = 1 /\ ~(k < 1)
    OBVIOUS
  <2>4. QED
    BY <2>1, <2>2, <2>3 DEF Nested
<1>9. None \notin Input
  BY GatewayAssumption
<1>10. RequestInv(r)'
  BY <1>1, <1>3, <1>6, <1>8, <1>9 DEF RequestInv
<1>11. \A u \in Requests : u # r => RequestInv(u)'
  BY <1>3, <1>6, OthersStay DEF Inv
<1>12. QED
  BY <1>1, <1>3, <1>6, <1>10, <1>11 DEF Inv, TypeOK

(* Exceptions and the writing of responses.                                *)
LEMMA ThrowStep ==
    ASSUME Inv, NEW r \in Requests, exchanges[r] # <<>>,
           NEW answer \in Answer, answer.body # "whole", Throw(r, answer)
    PROVE  Inv'
BY Ends DEF Throw

LEMMA HandleFacts ==
    ASSUME NEW status \in {0, 404, 503, 504}
    PROVE  Handle(status) \in Answer /\ Handle(status).body # "whole"
BY DEF Handle, Answer

LEMMA WriteStep ==
    ASSUME Inv, NEW r \in Requests, Write(r) \/ WriteFails(r)
    PROVE  Inv'
<1>1. exchanges[r] # <<>> /\ Inner(r).at = 4
  BY DEF Write, WriteFails
<1>2. TypeOK /\ RequestInv(r) /\ Inner(r) \in Exchange
      /\ Fits(sent[r].path, Len(exchanges[r]), Inner(r))
  BY <1>1, InnermostFits
<1>3. HasRun("netty", Inner(r))
  BY <1>1, <1>2, AllRun DEF TypeOK, Filters
<1>4. Inner(r).answer \in Answer
  BY <1>2, <1>3 DEF Fits, Exchange
<1>5. CASE Write(r)
  BY <1>1, <1>2, <1>4, <1>5, Ends DEF Write, RequestInv, Told
<1>6. CASE WriteFails(r)
  <2>1. PICK body \in {"error", "cut"} : Throw(r, [Inner(r).answer EXCEPT !.body = body])
    BY <1>6 DEF WriteFails
  <2>2. /\ [Inner(r).answer EXCEPT !.body = body] \in Answer
        /\ [Inner(r).answer EXCEPT !.body = body].body # "whole"
    BY <1>4 DEF Answer
  <2>3. QED
    BY <1>1, <2>1, <2>2, ThrowStep
<1>7. QED
  BY <1>5, <1>6

LEMMA InvInit == Init => Inv
<1> SUFFICES ASSUME Init PROVE Inv
  OBVIOUS
<1>1. TypeOK
  BY EmptySeq DEF Init, TypeOK
<1>2. ASSUME NEW r \in Requests PROVE RequestInv(r)
  BY <1>2 DEF Init, RequestInv, Nested
<1>3. QED
  BY <1>1, <1>2 DEF Inv

LEMMA InvStep == Inv /\ [Next]_vars => Inv'
<1> SUFFICES ASSUME Inv, [Next]_vars PROVE Inv'
  OBVIOUS
<1>1. ASSUME NEW r \in Requests, Send(r) PROVE Inv'
  BY <1>1, SendStep
<1>2. ASSUME NEW r \in Requests, Proceed(r) PROVE Inv'
  <2>1. CASE Route(r)
    BY <2>1, RouteStep
  <2>2. CASE NoRoute(r)
    BY <2>2, HandleFacts, ThrowStep DEF NoRoute, BeforeRouting
  <2>3. CASE RequestGlobalFilter(r)
    BY <2>3, StripStep
  <2>4. CASE SwaggerGatewayFilter(r)
    BY <2>4, SwaggerStep
  <2>5. CASE ServiceAnswers(r)
    BY <2>5, ServiceStep
  <2>6. CASE SendToItself(r)
    BY <2>6, Nests
  <2>7. CASE Write(r)
    BY <2>7, WriteStep
  <2>8. QED
    BY <1>2, <2>1, <2>2, <2>3, <2>4, <2>5, <2>6, <2>7 DEF Proceed
<1>3. ASSUME NEW r \in Requests, NoInstance(r) PROVE Inv'
  BY <1>3, HandleFacts, ThrowStep DEF NoInstance, BeforeRouting
<1>4. ASSUME NEW r \in Requests, SendFails(r) PROVE Inv'
  BY <1>4, HandleFacts, ThrowStep DEF SendFails, Runs
<1>5. ASSUME NEW r \in Requests, WriteFails(r) PROVE Inv'
  BY <1>5, WriteStep
<1>6. CASE UNCHANGED vars
  <2>1. TypeOK'
    BY <1>6 DEF vars, TypeOK, Inv
  <2>2. \A u \in Requests : RequestInv(u)'
    BY <1>6, OthersStay DEF vars, Inv
  <2>3. QED
    BY <2>1, <2>2 DEF Inv
<1>7. QED
  BY <1>1, <1>2, <1>3, <1>4, <1>5, <1>6 DEF Next

LEMMA Invariance == Spec => []Inv
<1>1. QED
  BY InvInit, InvStep, PTL DEF Spec

-----------------------------------------------------------------------------

(* Every variable keeps its type.                                          *)
THEOREM TypeCorrect == Spec => []TypeOK
<1>1. Inv => TypeOK
  BY DEF Inv
<1>2. QED
  BY <1>1, Invariance, PTL

(* However long a path is, the gateway sends a request to itself at most   *)
(* once per segment, each time with one segment less.                      *)
THEOREM HopsAreBounded == Spec => []OneHopPerSegment
<1>1. ASSUME Inv, NEW r \in Requests, NEW k \in 1..Len(exchanges[r])
      PROVE  /\ k <= Len(sent[r].path) + 1
             /\ exchanges[r][k].path =
                    SubSeq(sent[r].path,
                           k - 1 + (IF HasRun("request", exchanges[r][k]) THEN 1 ELSE 0) + 1,
                           Len(sent[r].path))
  BY <1>1 DEF Inv, RequestInv, Nested, Fits, Dropped
<1>2. Inv => OneHopPerSegment
  BY <1>1 DEF OneHopPerSegment
<1>3. QED
  BY <1>2, Invariance, PTL

(* No exception on the way of a request becomes a success.                 *)
THEOREM FailuresReachClients == Spec => []FailuresAreTold
<1>1. Inv => FailuresAreTold
  BY DEF Inv, TypeOK, RequestInv, Told, FailuresAreTold
<1>2. QED
  BY <1>1, Invariance, PTL

-----------------------------------------------------------------------------
(* Progress: EveryRequestEnds without fairness.                            *)

(* The lengths of the path and of the nesting, and where the innermost     *)
(* exchange stands.                                                        *)
LEMMA Depth ==
    ASSUME Inv, NEW r \in Requests, exchanges[r] # <<>>
    PROVE  /\ Len(sent[r].path) \in Nat /\ Len(exchanges[r]) \in Nat \ {0}
           /\ Inner(r).at \in 0..4
           /\ Len(exchanges[r]) <= Len(sent[r].path) + 1
           /\ Inner(r).at > 0 => Len(exchanges[r]) <= Len(sent[r].path)
           /\ Len(sent[r].path) <= MaxLength
BY InnermostFits, PathsAreSequences DEF Fits, Exchange

(* How many steps a request may still take.  Until the innermost exchange  *)
(* has passed NettyRoutingFilter, as many exchanges may be opened as the   *)
(* path has segments left; then each of them has only its way back.        *)
StepsLeft(r) ==
    IF exchanges[r] = <<>> THEN 0
    ELSE LET here == 5 - Inner(r).at
             nested == Len(exchanges[r])
         IN  IF HasRun("netty", Inner(r))
               THEN 5 * nested + here
               ELSE 5 * (2 * (Len(sent[r].path) + 1) - nested) + here

Step(r) == Proceed(r) \/ NoInstance(r) \/ SendFails(r) \/ WriteFails(r)

(* Every step of a request takes it nearer to its answer, failures         *)
(* included, although the gateway may send it to itself, and no other      *)
(* request can throw it back.                                              *)
RequestsRunDown ==
    \A r \in Requests :
        /\ exchanges[r] # <<>> => StepsLeft(r) > 0
        /\ Step(r) => StepsLeft(r)' < StepsLeft(r)
        /\ Send(r) => StepsLeft(r)' = 10 * (Len(sent'[r].path) + 1)
        /\ \A u \in Requests \ {r} : Step(u) \/ Send(u) => StepsLeft(r)' = StepsLeft(r)

LEMMA StepsLeftIsPositive ==
    ASSUME Inv, NEW r \in Requests, exchanges[r] # <<>>
    PROVE  /\ StepsLeft(r) \in Nat
           /\ StepsLeft(r) >= 5 * Len(exchanges[r]) + (5 - Inner(r).at)
           /\ StepsLeft(r) > 0
<1> DEFINE n == Len(exchanges[r])
           len == Len(sent[r].path)
           at == Inner(r).at
<1>1. len \in Nat /\ n \in Nat \ {0} /\ at \in 0..4 /\ n <= len + 1
  BY Depth
<1>2. \/ StepsLeft(r) = 5 * n + (5 - at)
      \/ StepsLeft(r) = 5 * (2 * (len + 1) - n) + (5 - at)
  BY DEF StepsLeft
<1> HIDE DEF n, len, at
<1>3. StepsLeft(r) \in Nat /\ StepsLeft(r) >= 5 * n + (5 - at) /\ StepsLeft(r) > 0
  BY <1>1, <1>2
<1> QED
  BY <1>3 DEF n, at

(* The innermost exchange goes on to its next filter.                      *)
LEMMA AdvanceRunsDown ==
    ASSUME Inv, NEW r \in Requests, exchanges[r] # <<>>, UNCHANGED <<order, sent>>,
           NEW next \in Exchange, SetInner(r, next), next.at = Inner(r).at + 1
    PROVE  StepsLeft(r)' < StepsLeft(r)
<1> DEFINE n == Len(exchanges[r])
           len == Len(sent[r].path)
           at == Inner(r).at
<1>1. /\ len \in Nat /\ n \in Nat \ {0} /\ at \in 0..4 /\ n <= len + 1
      /\ at > 0 => n <= len
  BY Depth
<1>2. Len(exchanges'[r]) = n /\ exchanges'[r][n] = next
  BY SetInnerFacts DEF Inv
<1>3. exchanges'[r] # <<>> /\ Inner(r)' = next /\ next.at \in 0..4
  BY <1>1, <1>2 DEF Inner, Exchange
<1>4. (Inner(r)').at = at + 1 /\ at < 4
  BY <1>1, <1>3
<1>5. HasRun("netty", Inner(r))' <=> HasRun("netty", next)
  BY <1>3 DEF HasRun
<1>6. HasRun("netty", Inner(r)) => HasRun("netty", next)
  BY <1>1, <1>4 DEF HasRun
<1>7. HasRun("netty", next) => n <= len
  <2>1. at = 0 => ~HasRun("netty", next)
    BY NoneHasRun
  <2> QED
    BY <1>1, <2>1
<1>8. sent'[r] = sent[r]
  OBVIOUS
<1>9. StepsLeft(r) = IF HasRun("netty", Inner(r)) THEN 5 * n + (5 - at)
                                                  ELSE 5 * (2 * (len + 1) - n) + (5 - at)
  BY DEF StepsLeft
<1>10. StepsLeft(r)' = IF HasRun("netty", next) THEN 5 * n + (5 - (at + 1))
                                             ELSE 5 * (2 * (len + 1) - n) + (5 - (at + 1))
  BY <1>2, <1>3, <1>4, <1>5, <1>8 DEF StepsLeft
<1> HIDE DEF n, len, at
<1> QED
  BY <1>1, <1>4, <1>6, <1>7, <1>9, <1>10

(* The innermost exchange is over: the one around it has an answer now.    *)
LEMMA ReplyRunsDown ==
    ASSUME Inv, NEW r \in Requests, exchanges[r] # <<>>, UNCHANGED <<order, sent>>,
           NEW answer \in Answer, Reply(r, answer)
    PROVE  StepsLeft(r)' < StepsLeft(r)
<1> DEFINE n == Len(exchanges[r])
           waiting == exchanges[r][n - 1]
<1>1. n \in Nat \ {0} /\ Inner(r).at \in 0..4
  BY Depth
<1>2. StepsLeft(r) \in Nat /\ StepsLeft(r) >= 5 * n + (5 - Inner(r).at) /\ StepsLeft(r) > 0
  BY StepsLeftIsPositive
<1>3. TypeOK /\ RequestInv(r) /\ exchanges[r] \in Seq(Exchange) /\ order \in Orders
  BY DEF Inv, TypeOK
<1>4. n # 1 => waiting \in Exchange /\ Waits(waiting)
  <2>1. n # 1 => n - 1 \in 1..n /\ n - 1 < n
    <3> HIDE DEF n
    <3> QED
      BY <1>1
  <2> QED
    BY <1>3, <2>1, ElementOfSeq DEF RequestInv, Nested
<1>5. /\ n = 1 => exchanges'[r] = <<>>
      /\ n # 1 => /\ Len(exchanges'[r]) = n - 1
                  /\ exchanges'[r][n - 1] = Answered(waiting, answer)
  BY <1>3, <1>4, ReplyFacts DEF Waits
<1>6. CASE n = 1
  BY <1>2, <1>5, <1>6 DEF StepsLeft
<1>7. CASE n # 1
  <2> DEFINE next == Answered(waiting, answer)
  <2>1. next.at = waiting.at + 1 /\ waiting.at \in 1..3 /\ order[waiting.at] = "netty"
    BY <1>4, <1>7, SetAnswered DEF Same, Waits
  <2>2. HasRun("netty", next)
    BY <2>1, RunMore
  <2> HIDE DEF next
  <2>3. exchanges'[r] # <<>> /\ Inner(r)' = next
    <3>1. Len(exchanges'[r]) = n - 1 /\ exchanges'[r][n - 1] = next
      BY <1>5, <1>7 DEF next
    <3>2. n - 1 # 0
      BY <1>7
    <3> HIDE DEF n
    <3> QED
      BY <3>1, <3>2 DEF Inner
  <2>4. HasRun("netty", Inner(r))'
    BY <2>2, <2>3 DEF HasRun
  <2>5. StepsLeft(r)' = 5 * (n - 1) + (5 - (waiting.at + 1))
    BY <1>5, <1>7, <2>1, <2>3, <2>4 DEF StepsLeft
  <2> HIDE DEF n, waiting
  <2> QED
    BY <1>1, <1>2, <2>1, <2>5
<1> QED
  BY <1>6, <1>7

(* A further exchange uses up one that could have been opened.             *)
LEMMA OpenRunsDown ==
    ASSUME Inv, NEW r \in Requests, SendToItself(r)
    PROVE  StepsLeft(r)' < StepsLeft(r)
<1> DEFINE n == Len(exchanges[r])
           len == Len(sent[r].path)
           next == Opened(Inner(r).url.path)
<1>1. /\ exchanges[r] # <<>> /\ Inner(r).at \in 1..3 /\ order[Inner(r).at] = "netty"
      /\ exchanges' = [exchanges EXCEPT ![r] = Append(@, next)] /\ UNCHANGED <<order, sent>>
  BY DEF SendToItself, Runs
<1>2. exchanges[r] \in Seq(Exchange) /\ order \in Orders
      /\ exchanges \in [Requests -> Seq(Exchange)]
  BY DEF Inv, TypeOK
<1>3. len \in Nat /\ n \in Nat \ {0} /\ n <= len
  BY <1>1, Depth
<1>4. ~HasRun("netty", Inner(r))
  BY <1>1, <1>2, RunsOnce
<1>5. Len(exchanges'[r]) = n + 1 /\ exchanges'[r][n + 1] = next
  BY <1>1, <1>2
<1>6. exchanges'[r] # <<>> /\ Inner(r)' = next /\ next.at = 0
  BY <1>3, <1>5 DEF Inner, Opened
<1>7. ~HasRun("netty", Inner(r))'
  BY <1>6 DEF HasRun
<1>8. StepsLeft(r) = 5 * (2 * (len + 1) - n) + (5 - Inner(r).at)
  BY <1>1, <1>4 DEF StepsLeft
<1>9. StepsLeft(r)' = 5 * (2 * (len + 1) - (n + 1)) + (5 - 0)
  <2>1. sent'[r] = sent[r] /\ (Inner(r)').at = 0
    BY <1>1, <1>6
  <2> QED
    BY <1>5, <1>6, <1>7, <2>1 DEF StepsLeft
<1> HIDE DEF n, len
<1> QED
  BY <1>1, <1>3, <1>8, <1>9

LEMMA EveryStepRunsDown ==
    ASSUME Inv, NEW r \in Requests, Step(r)
    PROVE  StepsLeft(r)' < StepsLeft(r)
<1>1. exchanges[r] # <<>> /\ UNCHANGED <<order, sent>>
  BY DEF Step, Proceed, BeforeRouting, Runs, Route, NoRoute, RequestGlobalFilter,
         SwaggerGatewayFilter, ServiceAnswers, SendToItself, Write, NoInstance,
         SendFails, WriteFails, Throw
<1> DEFINE inner == Inner(r)
<1>2. TypeOK /\ inner \in Exchange /\ Fits(sent[r].path, Len(exchanges[r]), inner)
      /\ sent[r].path \in Paths /\ inner.at \in 0..4
  BY <1>1, InnermostFits DEF Exchange
<1>3. inner.path \in Paths
  BY <1>2 DEF Exchange
<1>4. CASE Route(r)
  <2> DEFINE url == [to |-> inner.path[1], path |-> inner.path]
             next == [inner EXCEPT !.at = 1, !.url = url]
  <2>1. SetInner(r, next) /\ inner.at = 0 /\ HasRoute(inner.path)
    BY <1>4 DEF Route, BeforeRouting
  <2>2. url \in Url
    BY <1>3, <2>1 DEF HasRoute, Url
  <2> HIDE DEF url
  <2>3. Same(next, 1, url, inner.path, inner.answer)
    <3>1. 1 \in 0..4
      OBVIOUS
    <3> HIDE DEF inner
    <3> QED
      BY <1>2, <2>2, <3>1, SetRoute
  <2>4. SetInner(r, next)
    BY <2>1
  <2> HIDE DEF next
  <2>5. next \in Exchange /\ next.at = inner.at + 1
    BY <2>1, <2>3 DEF Same
  <2> QED
    BY <1>1, <2>4, <2>5, AdvanceRunsDown
<1>5. CASE RequestGlobalFilter(r)
  <2> DEFINE shorter == Stripped(inner.path)
             url == [to |-> Gateway, path |-> shorter]
             next == [inner EXCEPT !.at = inner.at + 1, !.path = shorter, !.url = url]
  <2>1. SetInner(r, next) /\ inner.at \in 1..3
    BY <1>5 DEF RequestGlobalFilter, Runs
  <2>2. shorter \in Paths
    <3>1. /\ Len(sent[r].path) \in Nat /\ Len(exchanges[r]) \in Nat \ {0}
          /\ Len(exchanges[r]) <= Len(sent[r].path)
      BY <1>1, <2>1, Depth
    <3>2. ~HasRun("request", inner)
      BY <1>2, <1>5, RunsOnce DEF RequestGlobalFilter, Runs, TypeOK
    <3>3. inner.path = Dropped(sent[r].path, Len(exchanges[r]) - 1)
      <4>1. Len(exchanges[r]) - 1 + 0 = Len(exchanges[r]) - 1
        BY <3>1
      <4> QED
        BY <1>2, <3>2, <4>1 DEF Fits
    <3>4. /\ Len(exchanges[r]) - 1 \in Nat /\ Len(exchanges[r]) - 1 < Len(sent[r].path)
          /\ Len(exchanges[r]) - 1 + 1 = Len(exchanges[r])
      BY <3>1
    <3>5. shorter = Dropped(sent[r].path, Len(exchanges[r]))
      BY <1>2, <3>3, <3>4, StrippedDropped
    <3> QED
      BY <1>2, <3>1, <3>5, DroppedFacts
  <2>3. url \in Url
    BY <2>2 DEF Url
  <2>4. inner.at + 1 \in 0..4
    BY <2>1
  <2> HIDE DEF shorter, url
  <2>5. Same(next, inner.at + 1, url, shorter, inner.answer)
    BY <1>2, <2>2, <2>3, <2>4, SetStripped
  <2> HIDE DEF next
  <2>6. next \in Exchange /\ next.at = inner.at + 1
    BY <2>5 DEF Same
  <2>7. SetInner(r, next)
    BY <2>1 DEF next, url, shorter
  <2> QED
    BY <1>1, <2>6, <2>7, AdvanceRunsDown
<1>6. CASE SwaggerGatewayFilter(r)
  <2>1. inner.at \in 1..3
    BY <1>6 DEF SwaggerGatewayFilter, Runs
  <2>2. CASE MayRead(r)
    <3> DEFINE next == [inner EXCEPT !.at = inner.at + 1]
    <3>1. SetInner(r, next)
      BY <1>6, <2>2 DEF SwaggerGatewayFilter
    <3>2. inner.at + 1 \in 0..4
      BY <2>1
    <3>3. next \in Exchange /\ next.at = inner.at + 1
      BY <1>2, <3>2, SetAt DEF Same
    <3> QED
      BY <1>1, <3>1, <3>3, AdvanceRunsDown
  <2>3. CASE ~MayRead(r)
    <3>1. Reply(r, [status |-> 401, body |-> "none"])
      BY <1>6, <2>3 DEF SwaggerGatewayFilter
    <3>2. [status |-> 401, body |-> "none"] \in Answer
      BY DEF Answer
    <3> QED
      BY <1>1, <3>1, <3>2, ReplyRunsDown
  <2> QED
    BY <2>2, <2>3
<1>7. CASE ServiceAnswers(r)
  <2>1. PICK status \in {200, 404, 500} :
          SetInner(r, Answered(inner, [status |-> status, body |-> "whole"]))
    BY <1>7 DEF ServiceAnswers
  <2>2. [status |-> status, body |-> "whole"] \in Answer /\ inner.at \in 1..3
    BY <1>7 DEF ServiceAnswers, Runs, Answer
  <2> DEFINE next == Answered(inner, [status |-> status, body |-> "whole"])
  <2>3. next \in Exchange /\ next.at = inner.at + 1
    BY <1>2, <2>2, SetAnswered DEF Same
  <2> QED
    BY <1>1, <2>1, <2>3, AdvanceRunsDown
<1>8. ASSUME NEW answer \in Answer, Throw(r, answer) PROVE StepsLeft(r)' < StepsLeft(r)
  BY <1>1, <1>8, ReplyRunsDown DEF Throw
<1>9. CASE NoRoute(r) \/ NoInstance(r) \/ SendFails(r)
  BY <1>8, <1>9, HandleFacts DEF NoRoute, NoInstance, SendFails
<1>10. CASE Write(r) \/ WriteFails(r)
  <2>1. HasRun("netty", inner)
    BY <1>2, <1>10, AllRun DEF TypeOK, Filters, Write, WriteFails
  <2>2. inner.answer \in Answer
    BY <1>2, <2>1 DEF Fits, Exchange
  <2>3. \A body \in {"error", "cut"} : [inner.answer EXCEPT !.body = body] \in Answer
    BY <2>2 DEF Answer
  <2> QED
    BY <1>1, <1>8, <1>10, <2>2, <2>3, ReplyRunsDown DEF Write, WriteFails
<1> QED
  BY <1>4, <1>5, <1>6, <1>7, <1>9, <1>10, OpenRunsDown DEF Step, Proceed

(* A request is answered after ten steps per segment of its path and ten   *)
(* more at most, whatever fails on its way.                                *)
THEOREM RequestsTakeFewSteps == Spec => [][RequestsRunDown]_vars
<1>1. ASSUME Inv PROVE RequestsRunDown
  <2>1. TypeOK
    BY <1>1 DEF Inv
  <2>2. ASSUME NEW r \in Requests, Send(r)
        PROVE  StepsLeft(r)' = 10 * (Len(sent'[r].path) + 1)
    <3>1. PICK input \in Input :
            /\ sent' = [sent EXCEPT ![r] = input]
            /\ exchanges' = [exchanges EXCEPT ![r] = <<Opened(input.path)>>]
      BY <2>2 DEF Send
    <3>2. sent'[r] = input /\ exchanges'[r] = <<Opened(input.path)>>
      BY <2>1, <3>1 DEF TypeOK
    <3>3. /\ exchanges'[r] # <<>> /\ Len(exchanges'[r]) = 1
          /\ Inner(r)' = Opened(input.path) /\ Opened(input.path).at = 0
      BY <3>2 DEF Inner, Opened
    <3>4. ~HasRun("netty", Inner(r))'
      BY <3>3 DEF HasRun
    <3>5. Len(input.path) \in Nat
      BY PathsAreSequences, LenProperties DEF Input
    <3>6. StepsLeft(r)' = 5 * (2 * (Len(input.path) + 1) - 1) + (5 - 0)
      BY <3>2, <3>3, <3>4 DEF StepsLeft
    <3> QED
      BY <3>2, <3>5, <3>6
  <2>3. ASSUME NEW r \in Requests, NEW u \in Requests \ {r}, Step(u) \/ Send(u)
        PROVE  StepsLeft(r)' = StepsLeft(r)
    <3>1. /\ order' = order /\ sent'[r] = sent[r]
      BY <2>1, <2>3 DEF Step, Proceed, Route, NoRoute, RequestGlobalFilter,
             SwaggerGatewayFilter, ServiceAnswers, SendToItself, Write, NoInstance,
             SendFails, WriteFails, Throw, Send, TypeOK
    <3>2. exchanges'[r] = exchanges[r]
      BY <2>1, <2>3 DEF Step, Proceed, Route, NoRoute, RequestGlobalFilter,
             SwaggerGatewayFilter, ServiceAnswers, SendToItself, Write, NoInstance,
             SendFails, WriteFails, Throw, Send, TypeOK, SetInner, Reply
    <3> QED
      BY <3>1, <3>2 DEF StepsLeft, Inner, HasRun
  <2> QED
    BY <1>1, <2>2, <2>3, StepsLeftIsPositive, EveryStepRunsDown DEF RequestsRunDown
<1> QED
  BY <1>1, Invariance, PTL

(* MaxHops stops no request: when the gateway sends one to itself, there   *)
(* is always room.                                                         *)
HopsAreFree ==
    \A r \in Requests : Runs(r, "netty") => Len(exchanges[r]) < MaxHops

(* Leaving the bound out of the guard would change nothing.                *)
THEOREM BoundStopsNobody == Spec => []HopsAreFree
<1>1. ASSUME Inv, NEW r \in Requests, Runs(r, "netty") PROVE Len(exchanges[r]) < MaxHops
  BY <1>1, Depth, GatewayAssumption DEF Runs
<1> QED
  <2>1. Inv => HopsAreFree
    BY <1>1 DEF HopsAreFree
  <2> QED
    BY <2>1, Invariance, PTL

-----------------------------------------------------------------------------
(* What the order of the filters decides.                                  *)

(* Together with the invariant of the exchanges it is inductive.           *)
OrderInv == Inv /\ \A r \in Requests : RequestFirst => calls[r] = {}

LEMMA FiltersAreSorted ==
    ASSUME order \in Orders, NEW exchange, exchange.at \in 1..3,
           order[exchange.at] = "netty"
    PROVE  HasRun("request", exchange) <=> RequestFirst
<1>1. \A i, j \in 1..3 : order[i] = order[j] => i = j
  BY DEF Orders
<1>2. \A j \in 1..3 : order[j] = "netty" => j = exchange.at
  BY <1>1
<1> QED
  BY <1>2 DEF HasRun, RequestFirst

(* Whether the gateway reaches services or itself is the same for all      *)
(* requests, for as long as it runs.                                       *)
THEOREM FilterOrderDecides == Spec => []OrderDecides
<1>1. Init => OrderInv
  BY InvInit DEF Init, OrderInv
<1>2. ASSUME OrderInv, [Next]_vars PROVE OrderInv'
  <2>1. Inv /\ Inv'
    BY <1>2, InvStep DEF OrderInv
  <2>2. order' = order
    <3>1. \A r \in Requests : Send(r) \/ Write(r) \/ Route(r) \/ RequestGlobalFilter(r)
                                 \/ SwaggerGatewayFilter(r) => order' = order
      BY DEF Send, Write, Route, RequestGlobalFilter, SwaggerGatewayFilter
    <3>2. \A r \in Requests : ServiceAnswers(r) \/ SendToItself(r) => order' = order
      BY DEF ServiceAnswers, SendToItself
    <3>3. \A r \in Requests : NoRoute(r) \/ NoInstance(r) \/ SendFails(r) \/ WriteFails(r)
                                 => order' = order
      BY DEF NoRoute, NoInstance, SendFails, WriteFails, Throw
    <3> QED
      BY <1>2, <3>1, <3>2, <3>3 DEF Next, Proceed, vars
  <2>3. CASE UNCHANGED calls
    BY <1>2, <2>1, <2>2, <2>3 DEF OrderInv, RequestFirst
  <2>4. ASSUME NEW r \in Requests, ServiceAnswers(r) PROVE ~RequestFirst
    <3>1. /\ exchanges[r] # <<>> /\ Inner(r).at \in 1..3 /\ order[Inner(r).at] = "netty"
          /\ Inner(r).url.to # Gateway
      BY <2>4 DEF ServiceAnswers, Runs
    <3>2. Fits(sent[r].path, Len(exchanges[r]), Inner(r)) /\ order \in Orders
      BY <2>1, <3>1, InnermostFits DEF TypeOK
    <3>3. ~HasRun("request", Inner(r))
      BY <3>1, <3>2 DEF Fits
    <3> QED
      BY <3>1, <3>2, <3>3, FiltersAreSorted
  <2>5. CASE \E r \in Requests : ServiceAnswers(r)
    BY <2>1, <2>2, <2>4, <2>5 DEF OrderInv, RequestFirst
  <2> QED
    BY <1>2, <2>3, <2>5 DEF Next, vars, Proceed, Route, NoRoute, RequestGlobalFilter,
           SwaggerGatewayFilter, SendToItself, Write, NoInstance,
           SendFails, WriteFails, Throw, Send
<1>3. ASSUME OrderInv PROVE OrderDecides
  <2>1. ASSUME NEW r \in Requests, ~(Len(exchanges[r]) <= 1) PROVE RequestFirst
    <3>1. TypeOK /\ RequestInv(r) /\ exchanges[r] \in Seq(Exchange) /\ order \in Orders
      BY <1>3 DEF OrderInv, Inv, TypeOK
    <3>2. Len(exchanges[r]) \in Nat
      BY <3>1, LenProperties
    <3>3. 1 \in 1..Len(exchanges[r]) /\ 1 < Len(exchanges[r])
      BY <2>1, <3>2
    <3>4. Waits(exchanges[r][1])
      BY <3>1, <3>3 DEF RequestInv, Nested
    <3> QED
      BY <3>1, <3>4, FiltersAreSorted DEF Waits
  <2> QED
    BY <1>3, <2>1 DEF OrderInv, OrderDecides
<1> QED
  BY <1>1, <1>2, <1>3, PTL DEF Spec

=============================================================================
