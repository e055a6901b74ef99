----------------------- MODULE ModelCompletionProofs ------------------------
(***************************************************************************)
(* A completion for any histories, conversations, windows, reserves,       *)
(* retries and answers: what succeeds is usable and what gives up has used *)
(* up its retries; and the provider gets the longest end of the            *)
(* conversation that is made of whole tool interactions and fits.          *)
(*                                                                         *)
(* The second takes the lemmas of this module in this order: sums and      *)
(* costs; elements at chosen places, of which the complete conversation is *)
(* made; its ends; its groups; the backward pass, by induction over the    *)
(* places where groups end (TrimIsLongestEnd); the cut by blocks; what a   *)
(* repair message takes from the pass (AppendForgets); the invariant.      *)
(***************************************************************************)
EXTENDS ModelCompletion, SequenceTheorems, WellFoundedInduction, TLAPS

-----------------------------------------------------------------------------
(* The repair loop.                                                        *)

\* current_request is a record; its messages may be anything here.
IsRequest(r) ==
    r = [system |-> r.system, messages |-> r.messages, schema |-> r.schema,
         reserved |-> r.reserved, maxRetries |-> r.maxRetries]

\* What the caller can use of an answer, given its schema.
Usable(cause, sch) ==
    \/ cause \in {"tools", "parsed"}
    \/ sch = "none" /\ cause \in {"null", "unparsed"}

IInv ==
    /\ IsRequest(request)
    /\ request.maxRetries \in Nat
    /\ attempts \in 0..request.maxRetries
    /\ response.success => Usable(response.cause, request.schema)
    /\ result = "success" => Usable(response.cause, request.schema)
    /\ result = "exhausted" => attempts = request.maxRetries
    /\ pc # "done" => result = "none"
    /\ pc \notin {"answered", "done"} => ~response.success
    /\ pc = "idle" => attempts = 0

(* The invariant of the loop holds at first.                               *)
LEMMA InitIInv == ASSUME Init PROVE IInv
<1> USE CompletionAssumption DEF Init, Blank
<1>1. IsRequest(request) /\ request.maxRetries \in Nat
  BY DEF IsRequest
<1>2. attempts \in 0..request.maxRetries
  BY <1>1
<1>3. ~response.success /\ result = "none"
  BY DEF NoResponse
<1> QED  BY <1>1, <1>2, <1>3 DEF IInv

\* The answer decides: a response succeeds only if its content is usable.
LEMMA SuccessIsUsable ==
  ASSUME NEW answer, BuildModelResponse(answer).success
  PROVE  Usable(BuildModelResponse(answer).cause, request.schema)
  BY DEF BuildModelResponse, Usable

\* A request keeps its limits when messages are appended to it.
LEMMA AppendKeepsRequest ==
  ASSUME NEW r, IsRequest(r), NEW m,
         NEW q, q = [r EXCEPT !.messages = Append(@, m)]
  PROVE  IsRequest(q) /\ q.maxRetries = r.maxRetries /\ q.schema = r.schema
  BY DEF IsRequest

(* One step per action.  Only Answer makes a response succeed, only the    *)
(* asks set a schema, and they find no successful response.                *)
LEMMA StepIInv == ASSUME IInv, [Next]_vars PROVE IInv'
<1> USE CompletionAssumption DEF IInv
<1>1. CASE ModelAsk
  <2>1. response' = response /\ ~response.success /\ attempts' = 0 /\ result = "none"
    BY <1>1 DEF ModelAsk
  <2>2. CASE request' = request /\ result' = "overflow" /\ pc' = "done"
    BY <2>1, <2>2
  <2>3. ASSUME NEW sys, NEW q, pc' = "call", result' = result,
               request' = [Blank EXCEPT !.system = sys, !.messages = q]
        PROVE  IInv'
    <3>1. IsRequest(request') /\ request'.maxRetries = DefaultRetries
      BY <2>3 DEF Blank, IsRequest
    <3>2. request'.maxRetries \in Nat /\ attempts' \in 0..request'.maxRetries
      BY <2>1, <3>1
    <3> QED  BY <2>1, <2>3, <3>1, <3>2
  <2> QED  BY <1>1, <2>2, <2>3 DEF ModelAsk
<1>2. CASE CallerAsks
  <2>1. response' = response /\ ~response.success /\ attempts' = 0
        /\ result' = "none" /\ pc' = "call"
    BY <1>2 DEF CallerAsks
  <2>2. IsRequest(request') /\ request'.maxRetries \in Nat
    BY <1>2 DEF CallerAsks, IsRequest
  <2> QED  BY <2>1, <2>2
<1>3. CASE ClientUnavailable
  BY <1>3 DEF ClientUnavailable, Failure
<1>4. CASE TokenLimitExceeded
  BY <1>4 DEF TokenLimitExceeded, Failure
<1>5. CASE Send
  BY <1>5 DEF Send
<1>6. CASE Answer
  <2>1. PICK answer \in Answers \ {"not_a_string"} : response' = BuildModelResponse(answer)
    BY <1>6 DEF Answer
  <2>2. response'.success => Usable(response'.cause, request.schema)
    BY <2>1, SuccessIsUsable
  <2>3. request' = request /\ attempts' = attempts /\ result' = result
        /\ pc = "provider" /\ pc' = "answered"
    BY <1>6 DEF Answer
  <2> QED  BY <2>2, <2>3
<1>7. CASE CallRaises
  BY <1>7 DEF CallRaises
<1>8. CASE ReturnResponse
  BY <1>8 DEF ReturnResponse
<1>9. CASE GiveUp
  BY <1>9 DEF GiveUp
<1>10. CASE Retry
  <2>1. PICK tok \in RepairCosts :
          request' = [request EXCEPT !.messages = Append(@, Repair(tok))]
    BY <1>10 DEF Retry
  <2>2. IsRequest(request') /\ request'.maxRetries = request.maxRetries
        /\ request'.schema = request.schema
    BY <2>1, AppendKeepsRequest
  <2>3. attempts' = attempts + 1 /\ attempts < request.maxRetries
        /\ response' = response /\ ~response.success /\ result' = "none"
        /\ pc' = "call"
    BY <1>10 DEF Retry
  <2>4. attempts' \in 0..request'.maxRetries
    BY <2>2, <2>3
  <2> QED  BY <2>2, <2>3, <2>4
<1>11. CASE RaiseUnrepairable
  BY <1>11 DEF RaiseUnrepairable
<1>12. CASE Return
  <2>1. IsRequest(request') /\ request'.maxRetries \in Nat
    BY <1>12 DEF Return, Blank, IsRequest
  <2>2. ~response'.success /\ result' = "none" /\ attempts' = 0 /\ pc' = "idle"
    BY <1>12 DEF Return, NoResponse
  <2> QED  BY <2>1, <2>2
<1>13. CASE UNCHANGED vars
  BY <1>13 DEF vars
<1> QED
  BY <1>1, <1>2, <1>3, <1>4, <1>5, <1>6, <1>7, <1>8, <1>9, <1>10, <1>11, <1>12, <1>13
  DEF Next, Completion

(* For every history, window, reserve and number of retries, a completion  *)
(* reports success only for an answer its caller can use, and gives up     *)
(* only after max_retries retries (result of ModelRouter.completion).      *)
THEOREM ResultIsAlwaysDeserved == Spec => []ResultIsDeserved
<1>1. IInv => ResultIsDeserved
  BY DEF IInv, ResultIsDeserved, Usable
<1> QED
  BY <1>1, InitIInv, StepIInv, PTL DEF Spec
-----------------------------------------------------------------------------
(* Induction over the numbers.                                             *)

(* A set of numbers that is not empty has a least element.                 *)
LEMMA LeastElement ==
    ASSUME NEW T \in SUBSET Nat, T # {}
    PROVE  \E n \in T : \A m \in T : n <= m
<1>1. PICK R : R = {pair \in Nat \X Nat : pair[1] < pair[2]}
  OBVIOUS
<1>2. IsWellFoundedOn(R, Nat)
  BY <1>1, NatLessThanWellFounded DEF OpToRel
<1>3. PICK n \in T : \A m \in T : ~ (<<m, n>> \in R)
  BY <1>2, WFMin
<1>4. ASSUME NEW m \in T
      PROVE  n <= m
  <2>1. n \in Nat /\ m \in Nat
    OBVIOUS
  <2>2. m < n => <<m, n>> \in R
    BY <1>1, <2>1
  <2> QED
    BY <1>3, <2>1, <2>2
<1> QED
  BY <1>4

(* A set with 0, and with the successor of each of its members, is Nat.    *)
LEMMA Induction ==
    ASSUME NEW T \in SUBSET Nat, 0 \in T, \A n \in T : n + 1 \in T
    PROVE  T = Nat
<1> SUFFICES ASSUME Nat \ T # {} PROVE FALSE
  OBVIOUS
<1>1. PICK n \in Nat \ T : \A m \in Nat \ T : n <= m
  BY LeastElement
<1>2. n - 1 \in Nat /\ ~(n <= n - 1) /\ n = (n - 1) + 1
  BY <1>1
<1> QED
  BY <1>1, <1>2

(* A set of numbers that has a member has a greatest one, if it is bounded. *)
LEMMA GreatestElement ==
    ASSUME NEW N \in Nat, NEW S \in SUBSET (0..N), S # {}
    PROVE  Max(S) \in S /\ \A i \in S : i <= Max(S)
<1>1. PICK T : T = {n \in Nat : N - n \in S}
  OBVIOUS
<1>2. T \in SUBSET Nat /\ T # {}
  <2>1. PICK i \in S : TRUE
    OBVIOUS
  <2>2. i \in 0..N /\ N - i \in Nat /\ N - (N - i) = i
    OBVIOUS
  <2> QED  BY <1>1, <2>1, <2>2
<1>3. PICK t \in T : \A u \in T : t <= u
  BY <1>2, LeastElement
<1>4. PICK m \in S : t = N - m
  <2>1. t \in Nat /\ N - t \in S /\ N - (N - t) = t
    BY <1>1, <1>3
  <2> QED  BY <2>1
<1>5. \A i \in S : i <= m
  <2>1. ASSUME NEW i \in S PROVE i <= m
    <3>1. i \in 0..N /\ m \in 0..N /\ N - i \in Nat /\ N - (N - i) = i
      BY <1>4
    <3>2. N - i \in T
      BY <1>1, <3>1
    <3>3. N - m <= N - i
      BY <1>3, <1>4, <3>2
    <3> QED  BY <3>1, <3>3
  <2> QED  BY <2>1
<1>6. \E x \in S : \A y \in S : x >= y
  <2>1. \A y \in S : m >= y
    BY <1>4, <1>5
  <2> QED  BY <1>4, <2>1
<1>7. Max(S) \in S /\ \A y \in S : Max(S) >= y
  BY <1>6 DEF Max
<1> QED  BY <1>7
-----------------------------------------------------------------------------
(* Sums.                                                                   *)

\* f[n] is the sum of the first n numbers.
IsSum(f, c, n) == f = [i \in 0..n |-> IF i = 0 THEN 0 ELSE f[i - 1] + c[i]]

(* There is such a function, whatever the length.                          *)
LEMMA SumExists ==
    ASSUME NEW c, NEW n \in Nat
    PROVE  \E f : IsSum(f, c, n)
<1>1. PICK T : T = {m \in Nat : \E f : IsSum(f, c, m)}
  OBVIOUS
<1>2. 0 \in T
  <2>1. IsSum([i \in 0..0 |-> 0], c, 0)
    BY DEF IsSum
  <2> QED
    BY <1>1, <2>1
<1>3. ASSUME NEW m \in T
      PROVE  m + 1 \in T
  <2>1. PICK f : IsSum(f, c, m) /\ m \in Nat
    BY <1>1, <1>3
  <2>2. PICK g : g = [i \in 0..m + 1 |-> IF i = m + 1 THEN f[m] + c[i] ELSE f[i]]
    OBVIOUS
  <2>3. ASSUME NEW i \in 0..m + 1
        PROVE  g[i] = IF i = 0 THEN 0 ELSE g[i - 1] + c[i]
    <3>1. CASE i = m + 1
      BY <2>1, <2>2, <3>1 DEF IsSum
    <3>2. CASE i \in 0..m
      BY <2>1, <2>2, <3>2 DEF IsSum
    <3> QED
      BY <2>1, <3>1, <3>2
  <2>4. g = [i \in 0..m + 1 |-> IF i = 0 THEN 0 ELSE g[i - 1] + c[i]]
    BY <2>2, <2>3
  <2>5. IsSum(g, c, m + 1)
    BY <2>4 DEF IsSum
  <2> QED
    BY <1>1, <2>1, <2>5
<1> QED
  BY <1>1, <1>2, <1>3, Induction

(* The sums of a prefix are numbers, grow by the numbers, and do not       *)
(* decrease.                                                               *)
LEMMA SumsGrow ==
    ASSUME NEW c, NEW N \in Nat, \A i \in 1..N : c[i] \in Nat, NEW f, IsSum(f, c, N)
    PROVE  /\ f \in [0..N -> Nat] /\ f[0] = 0
           /\ \A i \in 1..N : f[i] = f[i - 1] + c[i]
           /\ \A i, j \in 0..N : i <= j => f[i] <= f[j]
<1>1. /\ f[0] = 0 /\ DOMAIN f = 0..N /\ f = [i \in 0..N |-> f[i]]
      /\ \A i \in 1..N : f[i] = f[i - 1] + c[i]
  BY DEF IsSum
<1>2. PICK T : T = {n \in Nat : n \in 0..N => f[n] \in Nat}
  OBVIOUS
<1>3. 0 \in T
  BY <1>1, <1>2
<1>4. ASSUME NEW n \in T
      PROVE  n + 1 \in T
  <2>1. CASE n + 1 \in 0..N
    <3>1. n \in 0..N /\ n + 1 \in 1..N /\ (n + 1) - 1 = n
      BY <1>2, <1>4, <2>1
    <3>2. f[n] \in Nat /\ c[n + 1] \in Nat /\ f[n + 1] = f[n] + c[n + 1]
      BY <1>1, <1>2, <1>4, <3>1
    <3> QED
      BY <1>2, <1>4, <3>2
  <2>2. CASE n + 1 \notin 0..N
    BY <1>2, <1>4, <2>2
  <2> QED
    BY <2>1, <2>2
<1>5. T = Nat
  BY <1>2, <1>3, <1>4, Induction
<1>6. f \in [0..N -> Nat]
  BY <1>1, <1>2, <1>5
<1>7. ASSUME NEW i \in 0..N, NEW j \in 0..N, i <= j
      PROVE  f[i] <= f[j]
  <2>1. PICK U : U = {d \in Nat : i + d \in 0..N => f[i] <= f[i + d]}
    OBVIOUS
  <2>2. 0 \in U
    BY <1>6, <2>1
  <2>3. ASSUME NEW d \in U
        PROVE  d + 1 \in U
    <3>1. CASE i + (d + 1) \in 0..N
      <4>1. i + d \in 0..N /\ i + (d + 1) \in 1..N /\ (i + (d + 1)) - 1 = i + d
        BY <2>1, <2>3, <3>1
      <4>2. f[i + (d + 1)] = f[i + d] + c[i + (d + 1)] /\ c[i + (d + 1)] \in Nat
        BY <1>1, <4>1
      <4>3. f[i] <= f[i + d] /\ f[i] \in Nat /\ f[i + d] \in Nat
        BY <1>6, <2>1, <2>3, <4>1
      <4>4. f[i] <= f[i + (d + 1)]
        BY <4>2, <4>3
      <4> QED
        BY <2>1, <2>3, <4>4
    <3>2. CASE i + (d + 1) \notin 0..N
      BY <2>1, <2>3, <3>2
    <3> QED
      BY <3>1, <3>2
  <2>4. U = Nat
    BY <2>1, <2>2, <2>3, Induction
  <2>5. j - i \in Nat /\ i + (j - i) = j
    BY <1>7
  <2>6. j - i \in U
    BY <2>4, <2>5
  <2> QED
    BY <2>1, <2>5, <2>6
<1> QED
  BY <1>1, <1>6, <1>7

(* SumOf is the last value of such a function.                             *)
LEMMA SumOfIsSum ==
    ASSUME NEW c, Len(c) \in Nat
    PROVE  \E f : IsSum(f, c, Len(c)) /\ SumOf(c) = f[Len(c)]
<1>1. PICK f : f = CHOOSE g : IsSum(g, c, Len(c))
  OBVIOUS
<1>2. IsSum(f, c, Len(c))
  BY <1>1, SumExists
<1>3. f = CHOOSE sum : sum = [n \in 0..Len(c) |-> IF n = 0 THEN 0 ELSE sum[n - 1] + c[n]]
  BY <1>1 DEF IsSum
<1>4. SumOf(c) = f[Len(c)]
  BY <1>3 DEF SumOf
<1> QED
  BY <1>2, <1>4

(* The sum of a piece is the difference of two sums.                       *)
LEMMA SumOfPiece ==
    ASSUME NEW c \in Seq(Nat), NEW d \in Seq(Nat), NEW a \in Nat, a + Len(d) <= Len(c),
           \A i \in 1..Len(d) : d[i] = c[a + i], NEW f, IsSum(f, c, Len(c))
    PROVE  f[a + Len(d)] = f[a] + SumOf(d) /\ SumOf(d) \in Nat
<1>1. PICK N \in Nat : N = Len(d)
  BY LenProperties
<1>2. PICK M \in Nat : M = Len(c) /\ a + N <= M
  BY <1>1, LenProperties
<1>3. (\A i \in 1..N : d[i] \in Nat) /\ (\A i \in 1..M : c[i] \in Nat)
  BY <1>1, <1>2, ElementOfSeq
<1>4. PICK g : IsSum(g, d, N) /\ SumOf(d) = g[N]
  BY <1>1, SumOfIsSum
<1>5. g[0] = 0 /\ \A i \in 1..N : g[i] = g[i - 1] + d[i]
  <2>1. \A i \in 1..N : d[i] \in Nat
    BY <1>3
  <2>2. IsSum(g, d, N) /\ N \in Nat
    BY <1>1, <1>4
  <2> QED  BY <2>1, <2>2, SumsGrow
<1>6. f \in [0..M -> Nat] /\ \A i \in 1..M : f[i] = f[i - 1] + c[i]
  BY <1>2, <1>3, SumsGrow
<1>7. f[a] \in Nat
  <2>1. a \in 0..M
    BY <1>1, <1>2
  <2> QED  BY <1>6, <2>1
<1>8. \A i \in 1..N : d[i] \in Nat /\ g[i] = g[i - 1] + d[i] /\ f[a + i] = f[a + i - 1] + d[i]
  <2>1. ASSUME NEW i \in 1..N PROVE f[a + i] = f[a + i - 1] + d[i]
    <3>1. a + i \in 1..M /\ d[i] = c[a + i]
      BY <1>1, <1>2
    <3> QED  BY <1>6, <3>1
  <2> QED  BY <1>3, <1>5, <2>1
<1>9. PICK T : T = {n \in Nat : n \in 0..N => f[a + n] = f[a] + g[n] /\ g[n] \in Nat}
  OBVIOUS
<1>10. 0 \in T
  <2>1. f[a + 0] = f[a] + g[0] /\ g[0] \in Nat
    BY <1>5, <1>7
  <2> QED  BY <1>9, <2>1
<1>11. ASSUME NEW n \in Nat, n \in T PROVE n + 1 \in T
  <2>1. CASE n + 1 \in 0..N
    <3>1. n \in 0..N /\ n + 1 \in 1..N
      BY <1>1, <2>1
    <3>2. (n + 1) - 1 = n /\ a + (n + 1) - 1 = a + n
      BY <1>1
    <3>3. d[n + 1] \in Nat /\ g[n + 1] = g[n] + d[n + 1] /\ f[a + (n + 1)] = f[a + n] + d[n + 1]
      BY <1>8, <3>1, <3>2
    <3>4. f[a + n] = f[a] + g[n] /\ g[n] \in Nat
      BY <1>9, <1>11, <3>1
    <3>5. PICK x \in Nat, y \in Nat, e \in Nat : x = f[a] /\ y = g[n] /\ e = d[n + 1]
      BY <1>7, <3>3, <3>4
    <3>6. f[a + (n + 1)] = (x + y) + e /\ g[n + 1] = y + e
      BY <3>3, <3>4, <3>5
    <3>7. (x + y) + e = x + (y + e) /\ y + e \in Nat
      OBVIOUS
    <3>8. f[a + (n + 1)] = f[a] + g[n + 1] /\ g[n + 1] \in Nat
      BY <3>5, <3>6, <3>7
    <3>9. n + 1 \in Nat
      OBVIOUS
    <3> QED  BY <1>9, <3>8, <3>9
  <2>2. CASE n + 1 \notin 0..N
    BY <1>9, <1>11, <2>2
  <2> QED  BY <2>1, <2>2
<1>12. T = Nat
  <2>1. \A n \in T : n + 1 \in T
    BY <1>9, <1>11
  <2> QED  BY <1>9, <1>10, <2>1, Induction
<1>13. f[a + N] = f[a] + g[N] /\ g[N] \in Nat
  <2>1. N \in T /\ N \in 0..N
    BY <1>1, <1>12
  <2> QED  BY <1>9, <2>1
<1> QED  BY <1>1, <1>4, <1>13

\* f[n] is the cost of the first n messages.
IsCost(f, q) ==
    /\ f \in [0..Len(q) -> Nat] /\ f[0] = 0
    /\ \A i \in 1..Len(q) : f[i] = f[i - 1] + q[i].tok
    /\ \A i, j \in 0..Len(q) : i <= j => f[i] <= f[j]

(* Costs add up, piece by piece.                                           *)
LEMMA Costs ==
    ASSUME NEW S, \A m \in S : m.tok \in Nat, NEW q \in Seq(S)
    PROVE  \E f : /\ IsCost(f, q)
                  /\ \A w \in Seq(S), a \in Nat :
                        a + Len(w) <= Len(q) /\ (\A i \in 1..Len(w) : w[i] = q[a + i])
                        => f[a + Len(w)] = f[a] + Cost(w) /\ Cost(w) \in Nat
<1>1. ASSUME NEW w \in Seq(S)
      PROVE  \E c \in Seq(Nat) : /\ c = [i \in 1..Len(w) |-> w[i].tok]
                                 /\ Len(c) = Len(w)
                                 /\ \A i \in 1..Len(w) : c[i] = w[i].tok
  <2>1. Len(w) \in Nat /\ \A i \in 1..Len(w) : w[i].tok \in Nat
    BY LenProperties, ElementOfSeq
  <2>2. PICK c : c = [i \in 1..Len(w) |-> w[i].tok]
    OBVIOUS
  <2>3. c \in [1..Len(w) -> Nat]
    BY <2>1, <2>2
  <2>4. c \in Seq(Nat) /\ Len(c) = Len(w)
    BY <2>1, <2>3
  <2> QED  BY <2>2, <2>4
<1>2. PICK c \in Seq(Nat) : /\ c = [i \in 1..Len(q) |-> q[i].tok] /\ Len(c) = Len(q)
                            /\ \A i \in 1..Len(q) : c[i] = q[i].tok
  BY <1>1
<1>3. PICK N \in Nat : N = Len(q) /\ N = Len(c)
  BY <1>2, LenProperties
<1>4. PICK f : IsSum(f, c, N)
  BY SumExists
<1>5. \A i \in 1..N : c[i] \in Nat
  BY <1>3, ElementOfSeq
<1>6. /\ f \in [0..N -> Nat] /\ f[0] = 0
      /\ \A i \in 1..N : f[i] = f[i - 1] + c[i]
      /\ \A i, j \in 0..N : i <= j => f[i] <= f[j]
  BY <1>4, <1>5, SumsGrow
<1>7. IsCost(f, q)
  BY <1>2, <1>3, <1>6 DEF IsCost
<1>8. ASSUME NEW w \in Seq(S), NEW a \in Nat,
             a + Len(w) <= Len(q), \A i \in 1..Len(w) : w[i] = q[a + i]
      PROVE  f[a + Len(w)] = f[a] + Cost(w) /\ Cost(w) \in Nat
  <2>1. PICK d \in Seq(Nat) : /\ d = [i \in 1..Len(w) |-> w[i].tok] /\ Len(d) = Len(w)
                              /\ \A i \in 1..Len(w) : d[i] = w[i].tok
    BY <1>1
  <2>2. Len(w) \in Nat
    BY LenProperties
  <2>3. \A i \in 1..Len(d) : d[i] = c[a + i]
    <3>1. ASSUME NEW i \in 1..Len(w) PROVE d[i] = c[a + i]
      <4>1. a + i \in 1..Len(q)
        BY <1>3, <1>8, <2>2
      <4> QED  BY <1>2, <1>8, <2>1, <4>1
    <3> QED  BY <2>1, <3>1
  <2>4. a + Len(d) <= Len(c) /\ IsSum(f, c, Len(c))
    BY <1>2, <1>3, <1>4, <1>8, <2>1
  <2>5. f[a + Len(d)] = f[a] + SumOf(d) /\ SumOf(d) \in Nat
    BY <2>3, <2>4, SumOfPiece
  <2>6. Cost(w) = SumOf(d)
    BY <2>1 DEF Cost
  <2> QED  BY <2>1, <2>5, <2>6
<1> QED  BY <1>7, <1>8

(* The cost of two sequences one after the other.                          *)
LEMMA CostOfConcat ==
    ASSUME NEW S, \A m \in S : m.tok \in Nat, NEW u \in Seq(S), NEW v \in Seq(S)
    PROVE  Cost(u \o v) = Cost(u) + Cost(v) /\ Cost(u) \in Nat /\ Cost(v) \in Nat
<1>1. PICK q : q = u \o v
  OBVIOUS
<1>2. PICK K \in Nat, L \in Nat : K = Len(u) /\ L = Len(v)
  BY LenProperties
<1>3. /\ q \in Seq(S) /\ Len(q) = K + L
      /\ \A i \in 1..K + L : q[i] = IF i <= K THEN u[i] ELSE v[i - K]
  BY <1>1, <1>2, ConcatProperties
<1>4. PICK f : /\ IsCost(f, q)
               /\ \A w \in Seq(S), a \in Nat :
                    a + Len(w) <= Len(q) /\ (\A i \in 1..Len(w) : w[i] = q[a + i])
                    => f[a + Len(w)] = f[a] + Cost(w) /\ Cost(w) \in Nat
  BY <1>3, Costs
<1>5. f[0 + K] = f[0] + Cost(u) /\ Cost(u) \in Nat
  <2>1. \A i \in 1..K : u[i] = q[0 + i]
    BY <1>2, <1>3
  <2>2. 0 + K <= Len(q)
    BY <1>2, <1>3
  <2> QED  BY <1>2, <1>4, <2>1, <2>2
<1>6. f[K + L] = f[K] + Cost(v) /\ Cost(v) \in Nat
  <2>1. \A i \in 1..L : v[i] = q[K + i]
    <3>1. ASSUME NEW i \in 1..L PROVE v[i] = q[K + i]
      <4>1. K + i \in 1..K + L /\ ~(K + i <= K) /\ (K + i) - K = i
        BY <1>2
      <4> QED  BY <1>3, <4>1
    <3> QED  BY <3>1
  <2>2. K + L <= Len(q)
    BY <1>2, <1>3
  <2> QED  BY <1>2, <1>4, <2>1, <2>2
<1>7. f[0 + (K + L)] = f[0] + Cost(q)
  <2>1. \A i \in 1..K + L : q[i] = q[0 + i]
    BY <1>2
  <2>2. 0 + (K + L) <= Len(q)
    BY <1>2, <1>3
  <2> QED  BY <1>3, <1>4, <2>1, <2>2
<1>8. f[0] = 0 /\ 0 + K = K /\ 0 + (K + L) = K + L
  BY <1>2, <1>4 DEF IsCost
<1>9. f[K] = Cost(u) /\ f[K + L] = Cost(q)
  <2>1. f[K] = 0 + Cost(u) /\ f[K + L] = 0 + Cost(q)
    BY <1>5, <1>7, <1>8
  <2>2. Cost(q) \in Nat
    <3>1. \A i \in 1..Len(q) : q[i] = q[0 + i]
      BY <1>2, <1>3
    <3>2. 0 + Len(q) <= Len(q)
      BY <1>2, <1>3
    <3> QED  BY <1>3, <1>4, <3>1, <3>2
  <2> QED  BY <1>5, <2>1, <2>2
<1> QED  BY <1>1, <1>5, <1>6, <1>9
-----------------------------------------------------------------------------
(* Elements at chosen places.                                              *)

\* f[n] are the chosen ones of the first n elements.
IsPicked(f, q, chosen, N) ==
    f = [n \in 0..N |-> IF n = 0 THEN <<>>
                        ELSE IF n \in chosen THEN Append(f[n - 1], q[n]) ELSE f[n - 1]]

(* There is such a function, whatever the length.                          *)
LEMMA PickedExists ==
    ASSUME NEW q, NEW chosen, NEW N \in Nat
    PROVE  \E f : IsPicked(f, q, chosen, N)
<1>1. PICK T : T = {m \in Nat : \E f : IsPicked(f, q, chosen, m)}
  OBVIOUS
<1>2. 0 \in T
  <2>1. IsPicked([i \in 0..0 |-> <<>>], q, chosen, 0)
    BY DEF IsPicked
  <2> QED
    BY <1>1, <2>1
<1>3. ASSUME NEW m \in T
      PROVE  m + 1 \in T
  <2>1. PICK f : IsPicked(f, q, chosen, m) /\ m \in Nat
    BY <1>1, <1>3
  <2>2. PICK g : g = [i \in 0..m + 1 |->
                        IF i = m + 1 THEN IF i \in chosen THEN Append(f[m], q[i]) ELSE f[m]
                        ELSE f[i]]
    OBVIOUS
  <2>3. ASSUME NEW i \in 0..m + 1
        PROVE  g[i] = IF i = 0 THEN <<>>
                      ELSE IF i \in chosen THEN Append(g[i - 1], q[i]) ELSE g[i - 1]
    <3>1. CASE i = m + 1
      <4>1. i - 1 = m /\ i # 0 /\ m \in 0..m + 1 /\ m # m + 1
        BY <2>1, <3>1
      <4>2. g[m] = f[m]
        BY <2>2, <4>1
      <4> QED  BY <2>2, <3>1, <4>1, <4>2
    <3>2. CASE i \in 0..m
      <4>1. g[i] = f[i] /\ (i # 0 => g[i - 1] = f[i - 1])
        BY <2>1, <2>2, <3>2
      <4> QED  BY <2>1, <3>2, <4>1 DEF IsPicked
    <3> QED
      BY <2>1, <3>1, <3>2
  <2>4. g = [i \in 0..m + 1 |-> IF i = 0 THEN <<>>
                      ELSE IF i \in chosen THEN Append(g[i - 1], q[i]) ELSE g[i - 1]]
    BY <2>2, <2>3
  <2>5. IsPicked(g, q, chosen, m + 1)
    BY <2>4 DEF IsPicked
  <2> QED
    BY <1>1, <2>1, <2>5
<1> QED
  BY <1>1, <1>2, <1>3, Induction

(* Picked is the last value of such a function.                            *)
LEMMA PickedIs ==
    ASSUME NEW q, NEW chosen, Len(q) \in Nat
    PROVE  \E f : IsPicked(f, q, chosen, Len(q)) /\ Picked(q, chosen) = f[Len(q)]
<1>1. PICK f : f = CHOOSE g : IsPicked(g, q, chosen, Len(q))
  OBVIOUS
<1>2. IsPicked(f, q, chosen, Len(q))
  BY <1>1, PickedExists
<1>3. f = CHOOSE picked : picked = [n \in 0..Len(q) |->
            IF n = 0 THEN <<>>
            ELSE IF n \in chosen THEN Append(picked[n - 1], q[n]) ELSE picked[n - 1]]
  BY <1>1 DEF IsPicked
<1>4. Picked(q, chosen) = f[Len(q)]
  BY <1>3 DEF Picked
<1> QED
  BY <1>2, <1>4

(* What such a function looks like: every value begins with the ones       *)
(* before it.                                                              *)
LEMMA PickedGrows ==
    ASSUME NEW S, NEW q \in Seq(S), NEW chosen, NEW f, IsPicked(f, q, chosen, Len(q))
    PROVE  /\ \A n \in 0..Len(q) : f[n] \in Seq(S)
           /\ f[0] = <<>>
           /\ \A n \in 1..Len(q) : f[n] = IF n \in chosen THEN Append(f[n - 1], q[n]) ELSE f[n - 1]
           /\ \A m, n \in 0..Len(q) : m <= n =>
                 Len(f[m]) <= Len(f[n]) /\ \A k \in 1..Len(f[m]) : f[n][k] = f[m][k]
<1>1. PICK N \in Nat : N = Len(q)
  BY LenProperties
<1>2. /\ f[0] = <<>>
      /\ \A n \in 1..N : f[n] = IF n \in chosen THEN Append(f[n - 1], q[n]) ELSE f[n - 1]
  <2>1. f = [n \in 0..N |-> IF n = 0 THEN <<>>
                        ELSE IF n \in chosen THEN Append(f[n - 1], q[n]) ELSE f[n - 1]]
    BY <1>1 DEF IsPicked
  <2>2. ASSUME NEW n \in 0..N
        PROVE  f[n] = IF n = 0 THEN <<>>
                      ELSE IF n \in chosen THEN Append(f[n - 1], q[n]) ELSE f[n - 1]
    BY <2>1, Zenon
  <2>3. 0 \in 0..N /\ \A n \in 1..N : n \in 0..N /\ n # 0
    BY <1>1
  <2> QED  BY <2>2, <2>3, Zenon
<1>3. \A n \in 0..N : f[n] \in Seq(S)
  <2>1. PICK T : T = {n \in Nat : n \in 0..N => f[n] \in Seq(S)}
    OBVIOUS
  <2>2. 0 \in T
    BY <1>2, <2>1, EmptySeq
  <2>3. ASSUME NEW n \in T PROVE n + 1 \in T
    <3>1. CASE n + 1 \in 0..N
      <4>1. n \in 0..N /\ n + 1 \in 1..N /\ (n + 1) - 1 = n
        BY <2>1, <2>3, <3>1
      <4>2. f[n] \in Seq(S) /\ q[n + 1] \in S
        BY <1>1, <2>1, <2>3, <4>1, ElementOfSeq
      <4>3. f[n + 1] \in Seq(S)
        <5>1. f[n + 1] = IF n + 1 \in chosen THEN Append(f[n], q[n + 1]) ELSE f[n]
          BY <1>2, <4>1
        <5> QED  BY <4>2, <5>1, AppendProperties
      <4> QED  BY <2>1, <2>3, <4>3
    <3>2. CASE n + 1 \notin 0..N
      BY <2>1, <2>3, <3>2
    <3> QED  BY <3>1, <3>2
  <2>4. T = Nat
    BY <2>1, <2>2, <2>3, Induction
  <2> QED  BY <2>1, <2>4
<1>4. ASSUME NEW m \in 0..N, NEW n \in 0..N, m <= n
      PROVE  Len(f[m]) <= Len(f[n]) /\ \A k \in 1..Len(f[m]) : f[n][k] = f[m][k]
  <2>1. PICK L \in Nat : L = Len(f[m])
    BY <1>3, LenProperties
  <2>2. PICK T : T = {d \in Nat : m + d \in 0..N =>
                        L <= Len(f[m + d]) /\ \A k \in 1..L : f[m + d][k] = f[m][k]}
    OBVIOUS
  <2>3. 0 \in T
    <3>1. m + 0 = m
      OBVIOUS
    <3> QED  BY <2>1, <2>2, <3>1
  <2>4. ASSUME NEW d \in T PROVE d + 1 \in T
    <3>1. CASE m + (d + 1) \in 0..N
      <4>1. PICK i : i = m + d
        OBVIOUS
      <4>2. i \in 0..N /\ i + 1 \in 1..N /\ (i + 1) - 1 = i /\ m + (d + 1) = i + 1
        BY <2>2, <2>4, <3>1, <4>1
      <4>3. f[i] \in Seq(S) /\ q[i + 1] \in S
        BY <1>1, <1>3, <4>2, ElementOfSeq
      <4>4. L <= Len(f[i]) /\ \A k \in 1..L : f[i][k] = f[m][k]
        BY <2>2, <2>4, <4>1, <4>2
      <4>5. PICK K \in Nat : K = Len(f[i])
        BY <4>3, LenProperties
      <4>6. CASE i + 1 \in chosen
        <5>1. f[i + 1] = Append(f[i], q[i + 1])
          BY <1>2, <4>2, <4>6
        <5>2. Len(f[i + 1]) = K + 1 /\ \A k \in 1..K : f[i + 1][k] = f[i][k]
          BY <4>3, <4>5, <5>1, AppendProperties
        <5>3. \A k \in 1..L : k \in 1..K
          BY <2>1, <4>4, <4>5
        <5>4. L <= Len(f[i + 1]) /\ \A k \in 1..L : f[i + 1][k] = f[m][k]
          BY <2>1, <4>4, <4>5, <5>2, <5>3
        <5> QED  BY <2>2, <2>4, <4>2, <5>4
      <4>7. CASE i + 1 \notin chosen
        <5>1. f[i + 1] = f[i]
          BY <1>2, <4>2, <4>7
        <5> QED  BY <2>2, <2>4, <4>2, <4>4, <5>1
      <4> QED  BY <4>6, <4>7
    <3>2. CASE m + (d + 1) \notin 0..N
      BY <2>2, <2>4, <3>2
    <3> QED  BY <3>1, <3>2
  <2>5. T = Nat
    BY <2>2, <2>3, <2>4, Induction
  <2>6. n - m \in Nat /\ m + (n - m) = n
    BY <1>4
  <2>7. n - m \in T
    BY <2>5, <2>6
  <2>8. L <= Len(f[n]) /\ \A k \in 1..L : f[n][k] = f[m][k]
    BY <1>4, <2>2, <2>6, <2>7
  <2> QED  BY <2>1, <2>8
<1> QED  BY <1>1, <1>2, <1>3, <1>4

\* All of the places after a up to b are chosen, or none of them.
AllChosen(chosen, a, b) == \A i \in a + 1..b : i \in chosen
NoneChosen(chosen, a, b) == \A i \in a + 1..b : i \notin chosen

\* From a to b the elements of q are added as they are.
AddsRun(f, q, a, b) ==
    /\ Len(f[b]) = Len(f[a]) + (b - a)
    /\ \A k \in 1..b - a : f[b][Len(f[a]) + k] = q[a + k]

(* Where nothing is chosen nothing is added.                               *)
LEMMA PickedNone ==
    ASSUME NEW S, NEW q \in Seq(S), NEW chosen, NEW f, IsPicked(f, q, chosen, Len(q))
    PROVE  \A a, b \in 0..Len(q) : a <= b /\ NoneChosen(chosen, a, b) => f[b] = f[a]
<1> SUFFICES ASSUME NEW a \in 0..Len(q), NEW b \in 0..Len(q), a <= b,
                    \A i \in a + 1..b : i \notin chosen
             PROVE  f[b] = f[a]
  BY DEF NoneChosen
<1>1. PICK N \in Nat : N = Len(q)
  BY LenProperties
<1>2. \A n \in 1..N : n \notin chosen => f[n] = f[n - 1]
  BY <1>1, PickedGrows
<1>3. PICK T : T = {d \in Nat : a + d <= b => f[a + d] = f[a]}
  OBVIOUS
<1>4. 0 \in T
  <2>1. a + 0 = a
    OBVIOUS
  <2> QED  BY <1>3, <2>1
<1>5. ASSUME NEW d \in T PROVE d + 1 \in T
  <2>1. CASE a + (d + 1) <= b
    <3>1. PICK i : i = a + (d + 1)
      OBVIOUS
    <3>2. d \in Nat /\ a + d <= b /\ i \in 1..N /\ i \in a + 1..b /\ i - 1 = a + d
      BY <1>1, <1>3, <1>5, <2>1, <3>1
    <3>3. f[i] = f[i - 1] /\ f[a + d] = f[a]
      BY <1>2, <1>3, <1>5, <3>2
    <3> QED  BY <1>3, <3>1, <3>2, <3>3
  <2>2. CASE ~(a + (d + 1) <= b)
    BY <1>3, <1>5, <2>2
  <2> QED  BY <2>1, <2>2
<1>6. T = Nat
  BY <1>3, <1>4, <1>5, Induction
<1>7. b - a \in Nat /\ a + (b - a) = b
  BY <1>1
<1>8. b - a \in T /\ b <= b
  BY <1>6, <1>7
<1> QED  BY <1>3, <1>7, <1>8

(* A run of chosen elements is added as it is.                             *)
LEMMA PickedRun ==
    ASSUME NEW S, NEW q \in Seq(S), NEW chosen, NEW f, IsPicked(f, q, chosen, Len(q))
    PROVE  \A a, b \in 0..Len(q) : a <= b /\ AllChosen(chosen, a, b) => AddsRun(f, q, a, b)
<1> SUFFICES ASSUME NEW a \in 0..Len(q), NEW b \in 0..Len(q), a <= b,
                    \A i \in a + 1..b : i \in chosen
             PROVE  /\ Len(f[b]) = Len(f[a]) + (b - a)
                    /\ \A k \in 1..b - a : f[b][Len(f[a]) + k] = q[a + k]
  BY DEF AllChosen, AddsRun
<1>1. PICK N \in Nat : N = Len(q)
  BY LenProperties
<1>2. \A n \in 1..N : n \in chosen => f[n] = Append(f[n - 1], q[n])
  <2>1. \A n \in 1..N : f[n] = IF n \in chosen THEN Append(f[n - 1], q[n]) ELSE f[n - 1]
    BY <1>1, PickedGrows
  <2> QED  BY <2>1
<1>3. \A n \in 0..N : f[n] \in Seq(S)
  BY <1>1, PickedGrows
<1>4. PICK L \in Nat : L = Len(f[a])
  BY <1>1, <1>3, LenProperties
<1>5. PICK T : T = {d \in Nat : a + d <= b =>
                      Len(f[a + d]) = L + d /\ \A k \in 1..d : f[a + d][L + k] = q[a + k]}
  OBVIOUS
<1>6. 0 \in T
  <2>1. a + 0 = a /\ L + 0 = L /\ \A k \in 1..0 : FALSE
    BY <1>4
  <2> QED  BY <1>4, <1>5, <2>1
<1>7. ASSUME NEW d \in Nat, d \in T PROVE d + 1 \in T
  <2>1. CASE a + (d + 1) <= b
    <3>1. PICK i : i = a + (d + 1)
      OBVIOUS
    <3>2. d \in Nat /\ a + d <= b /\ i \in 1..N /\ i \in a + 1..b /\ i - 1 = a + d /\ i - 1 \in 0..N
      BY <1>1, <1>5, <1>7, <2>1, <3>1
    <3>3. PICK p : p = f[i - 1]
      OBVIOUS
    <3>4. /\ p \in Seq(S) /\ q[i] \in S /\ f[i] = Append(p, q[i])
          /\ Len(p) = L + d /\ \A k \in 1..d : p[L + k] = q[a + k]
      BY <1>1, <1>2, <1>3, <1>5, <1>7, <3>2, <3>3, ElementOfSeq
    <3>5. /\ Len(f[i]) = (L + d) + 1 /\ f[i][(L + d) + 1] = q[i]
          /\ \A k \in 1..L + d : f[i][k] = p[k]
      BY <3>4, AppendProperties
    <3>6. ASSUME NEW k \in 1..d + 1 PROVE f[i][L + k] = q[a + k]
      <4>1. CASE k = d + 1
        <5>1. L + k = (L + d) + 1
          BY <4>1
        <5>2. a + k = i
          BY <3>1, <4>1
        <5> QED  BY <3>5, <5>1, <5>2
      <4>2. CASE k # d + 1
        <5>1. k \in 1..d /\ L + k \in 1..L + d
          BY <1>4, <3>2, <4>2
        <5> QED  BY <3>4, <3>5, <5>1
      <4> QED  BY <4>1, <4>2
    <3>7. Len(f[i]) = L + (d + 1)
      <4>1. (L + d) + 1 = L + (d + 1)
        OBVIOUS
      <4> QED  BY <3>5, <4>1
    <3> QED  BY <1>5, <3>1, <3>2, <3>6, <3>7
  <2>2. CASE ~(a + (d + 1) <= b)
    BY <1>5, <1>7, <2>2
  <2> QED  BY <2>1, <2>2
<1>8. T = Nat
  <2>1. \A d \in T : d \in Nat /\ d + 1 \in T
    BY <1>5, <1>7
  <2> QED  BY <1>6, <2>1, Induction
<1>9. PICK d : d = b - a
  OBVIOUS
<1>10. d \in Nat /\ a + d = b /\ b <= b
  BY <1>1, <1>9
<1>11. d \in T
  BY <1>8, <1>10
<1>12. Len(f[b]) = L + d /\ \A k \in 1..d : f[b][L + k] = q[a + k]
  BY <1>5, <1>10, <1>11
<1> QED  BY <1>4, <1>9, <1>12

(* Who picks everything has everything.                                    *)
LEMMA PickedAll ==
    ASSUME NEW S, NEW q \in Seq(S), NEW chosen, \A i \in 1..Len(q) : i \in chosen
    PROVE  Picked(q, chosen) = q
<1>1. PICK N \in Nat : N = Len(q)
  BY LenProperties
<1>2. PICK f : IsPicked(f, q, chosen, Len(q)) /\ Picked(q, chosen) = f[Len(q)]
  BY <1>1, PickedIs
<1>3. f[0] = <<>> /\ f[N] \in Seq(S)
  BY <1>1, <1>2, PickedGrows
<1>4. \A a, b \in 0..Len(q) : a <= b /\ AllChosen(chosen, a, b) => AddsRun(f, q, a, b)
  BY <1>2, PickedRun
<1>5. PICK a \in 0..N, b \in 0..N : a = 0 /\ b = N
  BY <1>1
<1>6. /\ Len(f[b]) = Len(f[a]) + (b - a)
      /\ \A k \in 1..b - a : f[b][Len(f[a]) + k] = q[a + k]
  <2>1. a <= b /\ a \in 0..Len(q) /\ b \in 0..Len(q) /\ \A i \in a + 1..b : i \in chosen
    BY <1>1, <1>5
  <2> QED  BY <1>4, <2>1 DEF AllChosen, AddsRun
<1>7. Len(f[N]) = N /\ \A k \in 1..N : f[N][k] = q[k]
  <2>1. f[b] = f[N] /\ b - a = N /\ Len(f[a]) = 0 /\ a = 0
    BY <1>1, <1>3, <1>5
  <2>2. 0 + N = N /\ \A k \in 1..N : 0 + k = k
    BY <1>1
  <2> QED  BY <1>6, <2>1, <2>2
<1>8. f[N] = q
  BY <1>1, <1>3, <1>7, SeqEqual
<1> QED  BY <1>1, <1>2, <1>8
-----------------------------------------------------------------------------
(* The groups of a conversation.                                           *)

(* A group begins with its only message that is no result, or is the first *)
(* results of the conversation.                                            *)
LEMMA Groups ==
    ASSUME NEW q, NEW i \in Nat \ {0}
    PROVE  /\ GroupStart(q, i) \in 1..i
           /\ \A j \in GroupStart(q, i) + 1..i : q[j].role = "tool"
           /\ q[GroupStart(q, i)].role = "tool" => GroupStart(q, i) = 1
<1>1. PICK before : before = {j \in 1..i : q[j].role # "tool"}
  OBVIOUS
<1>2. GroupStart(q, i) = IF before = {} THEN 1 ELSE Max(before)
  BY <1>1 DEF GroupStart
<1>3. CASE before = {}
  <2>1. \A j \in 1..i : q[j].role = "tool"
    BY <1>1, <1>3
  <2> QED  BY <1>2, <1>3, <2>1
<1>4. CASE before # {}
  <2>1. before \in SUBSET (0..i) /\ i \in Nat
    BY <1>1
  <2>2. PICK m : m = Max(before)
    OBVIOUS
  <2>3. m \in before /\ \A j \in before : j <= m
    BY <1>4, <2>1, <2>2, GreatestElement
  <2>4. m \in 1..i /\ q[m].role # "tool"
    BY <1>1, <2>3
  <2>5. ASSUME NEW j \in m + 1..i PROVE q[j].role = "tool"
    <3>1. j \in 1..i /\ ~(j <= m)
      BY <2>4
    <3> QED  BY <1>1, <2>3, <3>1
  <2> QED  BY <1>2, <1>4, <2>2, <2>4, <2>5
<1> QED  BY <1>3, <1>4

(* Nothing else begins there.                                              *)
LEMMA GroupIs ==
    ASSUME NEW q, NEW i \in Nat \ {0}, NEW s \in 1..i, \A j \in s + 1..i : q[j].role = "tool",
           q[s].role = "tool" => s = 1
    PROVE  GroupStart(q, i) = s
<1>1. PICK g \in 1..i : /\ g = GroupStart(q, i)
                        /\ \A j \in g + 1..i : q[j].role = "tool"
                        /\ q[g].role = "tool" => g = 1
  BY Groups
<1>2. ~(g < s)
  <2> SUFFICES ASSUME g < s PROVE FALSE
    OBVIOUS
  <2>1. s \in g + 1..i /\ s # 1
    BY <1>1
  <2> QED  BY <1>1, <2>1
<1>3. ~(s < g)
  <2> SUFFICES ASSUME s < g PROVE FALSE
    OBVIOUS
  <2>1. g \in s + 1..i /\ g # 1
    BY <1>1
  <2> QED  BY <1>1, <2>1
<1> QED  BY <1>1, <1>2, <1>3

(* The messages of a group have the same beginning.                        *)
LEMMA SameGroup ==
    ASSUME NEW q, NEW i \in Nat \ {0}, NEW j \in GroupStart(q, i)..i
    PROVE  GroupStart(q, j) = GroupStart(q, i)
<1>1. PICK s \in 1..i : /\ s = GroupStart(q, i)
                        /\ \A k \in s + 1..i : q[k].role = "tool"
                        /\ q[s].role = "tool" => s = 1
  BY Groups
<1>2. j \in Nat \ {0} /\ s \in 1..j /\ \A k \in s + 1..j : k \in s + 1..i
  BY <1>1
<1>3. \A k \in s + 1..j : q[k].role = "tool"
  BY <1>1, <1>2
<1>4. GroupStart(q, j) = s
  BY <1>1, <1>2, <1>3, GroupIs
<1> QED  BY <1>1, <1>4

-----------------------------------------------------------------------------
(* The ends of a conversation.                                             *)

\* What comes after the first n messages.
EndAfter(q, n) == SubSeq(q, n + 1, Len(q))

(* The messages of an end.                                                 *)
LEMMA EndElements ==
    ASSUME NEW S, NEW q \in Seq(S), NEW n \in 0..Len(q)
    PROVE  /\ EndAfter(q, n) \in Seq(S) /\ Len(EndAfter(q, n)) = Len(q) - n
           /\ \A i \in 1..Len(q) - n : EndAfter(q, n)[i] = q[n + i]
<1>1. PICK N \in Nat : N = Len(q) /\ n \in 0..N /\ \A i \in 1..N : q[i] \in S
  BY LenProperties, ElementOfSeq
<1>2. \A i \in n + 1..N : q[i] \in S
  BY <1>1
<1>3. PICK w : w = EndAfter(q, n)
  OBVIOUS
<1>4. w = SubSeq(q, n + 1, N)
  BY <1>1, <1>3 DEF EndAfter
<1>5. n + 1 \in Int /\ N \in Int
  BY <1>1
<1>6. /\ w \in Seq(S) /\ Len(w) = (IF n + 1 <= N THEN N - (n + 1) + 1 ELSE 0)
      /\ \A i \in 1..N - (n + 1) + 1 : w[i] = q[(n + 1) + i - 1]
  BY <1>2, <1>4, <1>5, SubSeqProperties
<1>7. Len(w) = N - n
  BY <1>1, <1>6
<1>8. ASSUME NEW i \in 1..N - n PROVE w[i] = q[n + i]
  <2>1. i \in 1..N - (n + 1) + 1 /\ (n + 1) + i - 1 = n + i
    BY <1>1
  <2> QED  BY <1>6, <2>1
<1> QED  BY <1>1, <1>3, <1>6, <1>7, <1>8

(* An end of two sequences one after the other is an end of the second, or *)
(* the second after an end of the first.                                   *)
LEMMA EndOfConcat ==
    ASSUME NEW S, NEW u \in Seq(S), NEW v \in Seq(S)
    PROVE  /\ \A n \in 0..Len(u) : EndAfter(u \o v, n) = EndAfter(u, n) \o v
           /\ \A n \in 0..Len(v) : EndAfter(u \o v, Len(u) + n) = EndAfter(v, n)
<1>1. PICK K \in Nat, L \in Nat : K = Len(u) /\ L = Len(v)
  BY LenProperties
<1>2. PICK q : q = u \o v
  OBVIOUS
<1>3. /\ q \in Seq(S) /\ Len(q) = K + L
      /\ \A i \in 1..K + L : q[i] = IF i <= K THEN u[i] ELSE v[i - K]
  BY <1>1, <1>2, ConcatProperties
<1>4. ASSUME NEW n \in 0..K PROVE EndAfter(q, n) = EndAfter(u, n) \o v
  <2>1. PICK x : x = EndAfter(q, n)
    OBVIOUS
  <2>2. PICK y : y = EndAfter(u, n)
    OBVIOUS
  <2>3. n \in 0..Len(q) /\ n \in 0..Len(u) /\ (K + L) - n = (K - n) + L
    BY <1>1, <1>3
  <2>4. x \in Seq(S) /\ Len(x) = (K - n) + L /\ \A i \in 1..(K - n) + L : x[i] = q[n + i]
    <3>1. x \in Seq(S) /\ Len(x) = Len(q) - n /\ \A i \in 1..Len(q) - n : x[i] = q[n + i]
      BY <1>3, <2>1, <2>3, EndElements
    <3>2. Len(q) - n = (K - n) + L
      BY <1>3, <2>3
    <3> QED  BY <3>1, <3>2
  <2>5. y \in Seq(S) /\ Len(y) = K - n /\ \A i \in 1..K - n : y[i] = u[n + i]
    BY <1>1, <2>2, <2>3, EndElements
  <2>6. PICK z : z = y \o v
    OBVIOUS
  <2>7. /\ z \in Seq(S) /\ Len(z) = (K - n) + L
        /\ \A i \in 1..(K - n) + L : z[i] = IF i <= K - n THEN y[i] ELSE v[i - (K - n)]
    <3>1. /\ z \in Seq(S) /\ Len(z) = Len(y) + Len(v)
          /\ \A i \in 1..Len(y) + Len(v) : z[i] = IF i <= Len(y) THEN y[i] ELSE v[i - Len(y)]
      BY <2>5, <2>6, ConcatProperties
    <3>2. Len(y) = K - n /\ Len(v) = L
      BY <1>1, <2>5
    <3> QED  BY <3>1, <3>2
  <2>8. ASSUME NEW i \in 1..(K - n) + L PROVE x[i] = z[i]
    <3>1. n + i \in 1..K + L /\ x[i] = IF n + i <= K THEN u[n + i] ELSE v[(n + i) - K]
      BY <1>1, <1>3, <2>4
    <3>2. CASE i <= K - n
      <4>1. n + i <= K /\ i \in 1..K - n
        BY <1>1, <3>2
      <4> QED  BY <2>5, <2>7, <3>1, <3>2, <4>1
    <3>3. CASE ~(i <= K - n)
      <4>1. ~(n + i <= K) /\ (n + i) - K = i - (K - n)
        BY <1>1, <3>3
      <4> QED  BY <2>7, <3>1, <3>3, <4>1
    <3> QED  BY <3>2, <3>3
  <2>9. x = z
    BY <2>4, <2>7, <2>8, SeqEqual
  <2> QED  BY <2>1, <2>2, <2>6, <2>9
<1>5. ASSUME NEW n \in 0..L PROVE EndAfter(q, K + n) = EndAfter(v, n)
  <2>1. PICK x : x = EndAfter(q, K + n)
    OBVIOUS
  <2>2. PICK y : y = EndAfter(v, n)
    OBVIOUS
  <2>3. K + n \in 0..Len(q) /\ n \in 0..Len(v) /\ (K + L) - (K + n) = L - n
    BY <1>1, <1>3
  <2>4. x \in Seq(S) /\ Len(x) = L - n /\ \A i \in 1..L - n : x[i] = q[(K + n) + i]
    <3>1. PICK m \in 0..Len(q) : m = K + n
      BY <2>3
    <3>2. x \in Seq(S) /\ Len(x) = Len(q) - m /\ \A i \in 1..Len(q) - m : x[i] = q[m + i]
      BY <1>3, <2>1, <3>1, EndElements
    <3>3. Len(q) - m = L - n
      BY <1>3, <2>3, <3>1
    <3> QED  BY <3>1, <3>2, <3>3
  <2>5. y \in Seq(S) /\ Len(y) = L - n /\ \A i \in 1..L - n : y[i] = v[n + i]
    BY <1>1, <2>2, <2>3, EndElements
  <2>6. ASSUME NEW i \in 1..L - n PROVE x[i] = y[i]
    <3>1. (K + n) + i \in 1..K + L /\ ~((K + n) + i <= K) /\ ((K + n) + i) - K = n + i
      BY <1>1
    <3> QED  BY <1>3, <2>4, <2>5, <3>1
  <2>7. x = y
    BY <2>4, <2>5, <2>6, SeqEqual
  <2> QED  BY <2>1, <2>2, <2>7
<1> QED  BY <1>1, <1>2, <1>4, <1>5

\* A message with the results that follow it, which only an assistant has.
IsGroup(g) ==
    /\ Len(g) > 0
    /\ g[1].role # "tool"
    /\ \A i \in 2..Len(g) : g[i].role = "tool"
    /\ Len(g) > 1 => g[1].role = "assistant"

(* A group lacks nothing, so what precedes it decides.                     *)
LEMMA NoOrphanBefore ==
    ASSUME NEW S, NEW u \in Seq(S), NEW g \in Seq(S), IsGroup(g)
    PROVE  NoOrphan(u \o g) <=> NoOrphan(u)
<1>1. PICK K \in Nat, L \in Nat : K = Len(u) /\ L = Len(g)
  BY LenProperties
<1>2. PICK q : q = u \o g
  OBVIOUS
<1>3. /\ q \in Seq(S) /\ Len(q) = K + L
      /\ \A i \in 1..K + L : q[i] = IF i <= K THEN u[i] ELSE g[i - K]
  BY <1>1, <1>2, ConcatProperties
<1>4. DOMAIN q = 1..K + L /\ DOMAIN u = 1..K
  BY <1>1, <1>3, LenProperties
<1>5. \A i \in 1..K : i \in 1..K + L /\ q[i] = u[i] /\ (i > 1 => i - 1 \in 1..K /\ q[i - 1] = u[i - 1])
  <2>1. ASSUME NEW i \in 1..K PROVE i \in 1..K + L /\ q[i] = u[i]
    BY <1>1, <1>3
  <2>2. ASSUME NEW i \in 1..K, i > 1 PROVE i - 1 \in 1..K
    BY <1>1, <2>2
  <2> QED  BY <2>1, <2>2
<1>6. ASSUME NoOrphan(q) PROVE NoOrphan(u)
  BY <1>4, <1>5, <1>6 DEF NoOrphan
<1>7. ASSUME NoOrphan(u) PROVE NoOrphan(q)
  <2> SUFFICES ASSUME NEW i \in 1..K + L, q[i].role = "tool"
               PROVE  i > 1 /\ q[i - 1].role \in {"assistant", "tool"}
    BY <1>4 DEF NoOrphan
  <2>1. CASE i <= K
    <3>1. i \in 1..K
      BY <1>1, <2>1
    <3> QED  BY <1>4, <1>5, <1>7, <3>1 DEF NoOrphan
  <2>2. CASE ~(i <= K)
    <3>1. PICK j \in 1..L : i = K + j /\ i - K = j
      <4>1. i - K \in 1..L /\ i = K + (i - K)
        BY <1>1, <2>2
      <4> QED  BY <4>1
    <3>2. g[j].role = "tool" /\ j # 1
      BY <1>1, <1>3, <2>2, <3>1 DEF IsGroup
    <3>3. j - 1 \in 1..L /\ i - 1 \in 1..K + L /\ ~(i - 1 <= K) /\ (i - 1) - K = j - 1 /\ L > 1 /\ i > 1
      BY <1>1, <3>1, <3>2
    <3>4. q[i - 1] = g[j - 1]
      BY <1>3, <3>3
    <3>5. CASE j - 1 = 1
      BY <1>1, <3>3, <3>4, <3>5 DEF IsGroup
    <3>6. CASE j - 1 # 1
      <4>1. j - 1 \in 2..L
        BY <3>3, <3>6
      <4> QED  BY <1>1, <3>3, <3>4, <4>1 DEF IsGroup
    <3> QED  BY <3>5, <3>6
  <2> QED  BY <2>1, <2>2
<1> QED  BY <1>2, <1>6, <1>7

(* Nothing costs nothing, and has no orphan.                               *)
LEMMA EmptyIsFree ==
    ASSUME NEW S, \A m \in S : m.tok \in Nat
    PROVE  <<>> \in Seq(S) /\ Cost(<<>>) = 0 /\ NoOrphan(<<>>)
<1>1. <<>> \in Seq(S)
  BY EmptySeq
<1>2. PICK e \in Seq(S) : e = <<>> /\ e \o e = e
  BY <1>1, ConcatEmptySeq
<1>3. Cost(e \o e) = Cost(e) + Cost(e) /\ Cost(e) \in Nat
  BY CostOfConcat
<1>4. Cost(e) = 0
  BY <1>2, <1>3
<1>5. DOMAIN e = {}
  BY <1>2, EmptySeq, LenProperties
<1> QED  BY <1>1, <1>2, <1>4, <1>5 DEF NoOrphan

\* What a model may be shown, beside what is spent already.
MayShow(w, spent, budget) == NoOrphan(w) /\ spent + Cost(w) <= budget

\* w is the longest end of p that a model may be shown.
IsLongestEnd(w, p, spent, budget) ==
    \E n \in 0..Len(p) :
        /\ w = EndAfter(p, n) /\ MayShow(w, spent, budget)
        /\ \A m \in 0..Len(p) : MayShow(EndAfter(p, m), spent, budget) => n <= m

(* A group that fits comes after the longest end of what precedes it.      *)
LEMMA GroupFits ==
    ASSUME NEW S, \A m \in S : m.tok \in Nat, NEW p \in Seq(S), NEW g \in Seq(S), IsGroup(g),
           NEW spent \in Nat, NEW budget \in Nat, NEW w, IsLongestEnd(w, p, spent + Cost(g), budget)
    PROVE  IsLongestEnd(w \o g, p \o g, spent, budget)
<1>1. PICK K \in Nat, L \in Nat : K = Len(p) /\ L = Len(g)
  BY LenProperties
<1>2. PICK q : q = p \o g
  OBVIOUS
<1>3. Len(q) = K + L
  BY <1>1, <1>2, ConcatProperties
<1>4. PICK n \in 0..K :
        /\ w = EndAfter(p, n) /\ MayShow(w, spent + Cost(g), budget)
        /\ \A m \in 0..K : MayShow(EndAfter(p, m), spent + Cost(g), budget) => n <= m
  BY <1>1 DEF IsLongestEnd
<1>5. ASSUME NEW m \in 0..K
      PROVE  /\ EndAfter(q, m) = EndAfter(p, m) \o g
             /\ MayShow(EndAfter(q, m), spent, budget) <=> MayShow(EndAfter(p, m), spent + Cost(g), budget)
  <2>1. PICK x : x = EndAfter(p, m)
    OBVIOUS
  <2>2. x \in Seq(S) /\ EndAfter(q, m) = x \o g
    BY <1>1, <1>2, <2>1, EndElements, EndOfConcat
  <2>3. NoOrphan(x \o g) <=> NoOrphan(x)
    BY <2>2, NoOrphanBefore
  <2>4. Cost(x \o g) = Cost(x) + Cost(g) /\ Cost(x) \in Nat /\ Cost(g) \in Nat
    BY <2>2, CostOfConcat
  <2>5. spent + Cost(x \o g) <= budget <=> (spent + Cost(g)) + Cost(x) <= budget
    BY <2>4
  <2> QED  BY <2>1, <2>2, <2>3, <2>5 DEF MayShow
<1>6. w \o g = EndAfter(q, n) /\ MayShow(w \o g, spent, budget)
  BY <1>4, <1>5
<1>7. ASSUME NEW m \in 0..K + L, MayShow(EndAfter(q, m), spent, budget)
      PROVE  n <= m
  <2>1. CASE m \in 0..K
    BY <1>4, <1>5, <1>7, <2>1
  <2>2. CASE m \notin 0..K
    BY <1>1, <1>4, <2>2
  <2> QED  BY <2>1, <2>2
<1>8. n \in 0..K + L
  BY <1>1, <1>4
<1> QED  BY <1>2, <1>3, <1>6, <1>7, <1>8 DEF IsLongestEnd

(* Before a group that does not fit nothing is shown, and no part of it.   *)
LEMMA GroupDoesNotFit ==
    ASSUME NEW S, \A m \in S : m.tok \in Nat, NEW p \in Seq(S), NEW g \in Seq(S), IsGroup(g),
           NEW budget \in Nat, NEW spent \in 0..budget, spent + Cost(g) > budget
    PROVE  IsLongestEnd(<<>>, p \o g, spent, budget)
<1>1. PICK K \in Nat, L \in Nat : K = Len(p) /\ L = Len(g)
  BY LenProperties
<1>2. PICK q : q = p \o g
  OBVIOUS
<1>3. q \in Seq(S) /\ Len(q) = K + L
  BY <1>1, <1>2, ConcatProperties
<1>4. EndAfter(q, K + L) = <<>>
  <2>1. PICK w : w = EndAfter(q, Len(q))
    OBVIOUS
  <2>2. Len(q) \in 0..Len(q) /\ Len(q) - Len(q) = 0
    BY <1>1, <1>3
  <2>3. w \in Seq(S) /\ Len(w) = 0
    BY <1>3, <2>1, <2>2, EndElements
  <2>4. w = <<>>
    BY <2>3, EmptySeq
  <2> QED  BY <1>3, <2>1, <2>4
<1>5. MayShow(<<>>, spent, budget)
  BY EmptyIsFree DEF MayShow
<1>6. ASSUME NEW m \in 0..K + L, MayShow(EndAfter(q, m), spent, budget)
      PROVE  K + L <= m
  <2>1. CASE m \in 0..K
    <3>1. PICK x : x = EndAfter(p, m)
      OBVIOUS
    <3>2. x \in Seq(S) /\ EndAfter(q, m) = x \o g
      BY <1>1, <1>2, <2>1, <3>1, EndElements, EndOfConcat
    <3>3. Cost(x \o g) = Cost(x) + Cost(g) /\ Cost(x) \in Nat /\ Cost(g) \in Nat
      BY <3>2, CostOfConcat
    <3>4. spent + Cost(x \o g) <= budget
      BY <1>6, <3>2 DEF MayShow
    <3> QED  BY <3>3, <3>4
  <2>2. CASE m \in K + 1..K + L - 1
    <3>1. PICK j \in 1..L - 1 : m = K + j
      <4>1. m - K \in 1..L - 1 /\ m = K + (m - K)
        BY <1>1, <2>2
      <4> QED  BY <4>1
    <3>2. PICK x : x = EndAfter(g, j)
      OBVIOUS
    <3>3. j \in 0..Len(g)
      BY <1>1, <3>1
    <3>4. EndAfter(q, m) = x
      BY <1>1, <1>2, <3>1, <3>2, <3>3, EndOfConcat
    <3>5. x \in Seq(S) /\ Len(x) = Len(g) - j /\ \A i \in 1..Len(g) - j : x[i] = g[j + i]
      BY <3>2, <3>3, EndElements
    <3>6. 1 \in 1..Len(g) - j /\ j + 1 \in 2..Len(g)
      BY <1>1, <3>1
    <3>7. x[1].role = "tool" /\ 1 \in DOMAIN x
      BY <3>5, <3>6, LenProperties DEF IsGroup
    <3>8. NoOrphan(x)
      BY <1>6, <3>4 DEF MayShow
    <3>9. 1 > 1
      BY <3>7, <3>8 DEF NoOrphan
    <3> QED  BY <3>9
  <2>3. CASE m = K + L
    BY <1>1, <2>3
  <2>4. m \in 0..K \/ m \in K + 1..K + L - 1 \/ m = K + L
    <3>1. m \in Nat /\ m <= K + L
      OBVIOUS
    <3>2. m <= K \/ m = K + L \/ (m >= K + 1 /\ m <= K + L - 1)
      BY <3>1
    <3> QED  BY <3>1, <3>2
  <2> QED  BY <2>1, <2>2, <2>3, <2>4
<1>7. K + L \in 0..K + L
  BY <1>1
<1> QED  BY <1>2, <1>3, <1>4, <1>5, <1>6, <1>7 DEF IsLongestEnd

-----------------------------------------------------------------------------
(* The groups of the backward pass, and what is complete.                  *)

\* A message after which no result comes that belongs to it.
EndsGroup(q, e) == e \in 1..Len(q) /\ (e < Len(q) => q[e + 1].role # "tool")

Group(q, e) == SubSeq(q, GroupStart(q, e), e)

\* The places of the complete tool interactions.
Whole(q) ==
    {i \in 1..Len(q) :
        ~ \E t \in DOMAIN q :
            /\ q[t].role = "tool" /\ GroupStart(q, t) = GroupStart(q, i)
            /\ q[GroupStart(q, t)].role # "assistant"}

(* The messages of a group.                                                *)
LEMMA GroupElements ==
    ASSUME NEW S, NEW q \in Seq(S), NEW e \in 1..Len(q), NEW s \in 1..e, s = GroupStart(q, e)
    PROVE  /\ Group(q, e) \in Seq(S) /\ Len(Group(q, e)) = e - s + 1
           /\ \A i \in 1..e - s + 1 : Group(q, e)[i] = q[s + i - 1]
<1>1. PICK N \in Nat : N = Len(q) /\ e \in 1..N /\ \A i \in 1..N : q[i] \in S
  BY LenProperties, ElementOfSeq
<1>2. PICK g : g = Group(q, e)
  OBVIOUS
<1>3. g = SubSeq(q, s, e)
  BY <1>2 DEF Group
<1>4. s \in Int /\ e \in Int /\ s <= e /\ \A i \in s..e : q[i] \in S
  BY <1>1
<1>5. /\ g \in Seq(S) /\ Len(g) = (IF s <= e THEN e - s + 1 ELSE 0)
      /\ \A i \in 1..e - s + 1 : g[i] = q[s + i - 1]
  BY <1>3, <1>4, SubSeqProperties
<1> QED  BY <1>2, <1>4, <1>5

(* A group is left out as a whole or shown as a whole, and before it a     *)
(* group ends.                                                             *)
LEMMA GroupIsWhole ==
    ASSUME NEW S, NEW q \in Seq(S), NEW e, EndsGroup(q, e), NEW s, s = GroupStart(q, e)
    PROVE  /\ s \in 1..e
           /\ s = 1 \/ EndsGroup(q, s - 1)
           /\ Orphaned(Group(q, e)) => NoneChosen(Whole(q), s - 1, e)
           /\ ~Orphaned(Group(q, e)) => AllChosen(Whole(q), s - 1, e) /\ IsGroup(Group(q, e))
<1>1. PICK N \in Nat : N = Len(q) /\ DOMAIN q = 1..N /\ e \in 1..N
  BY LenProperties DEF EndsGroup
<1>2. /\ s \in 1..e
      /\ \A j \in s + 1..e : q[j].role = "tool"
      /\ q[s].role = "tool" => s = 1
  BY <1>1, Groups
<1>3. s = 1 \/ EndsGroup(q, s - 1)
  BY <1>1, <1>2 DEF EndsGroup
<1>4. \A i \in s..e : i \in 1..N /\ GroupStart(q, i) = s
  BY <1>1, <1>2, SameGroup
<1>5. PICK g : g = Group(q, e)
  OBVIOUS
<1>6. PICK L \in Nat : L = e - s + 1 /\ L > 0 /\ s + L - 1 = e
  BY <1>1, <1>2
<1>7. g \in Seq(S) /\ Len(g) = L /\ \A i \in 1..L : g[i] = q[s + i - 1]
  BY <1>1, <1>2, <1>5, <1>6, GroupElements
<1>8. Last(g) = q[e] /\ Head(g) = q[s]
  <2>1. g[1] = q[s] /\ g[L] = q[e]
    <3>1. 1 \in 1..L /\ L \in 1..L /\ s + 1 - 1 = s
      BY <1>2, <1>6
    <3> QED  BY <1>6, <1>7, <3>1
  <2>2. Last(g) = g[L]
    BY <1>7 DEF Last
  <2>3. Head(g) = g[1]
    BY <1>6, <1>7
  <2> QED  BY <2>1, <2>2, <2>3
<1>9. Orphaned(g) <=> q[e].role = "tool" /\ q[s].role # "assistant"
  BY <1>8 DEF Orphaned
<1>10. \A i \in (s - 1) + 1..e : i \in s..e
  BY <1>2
<1>11. ASSUME Orphaned(g)
       PROVE  NoneChosen(Whole(q), s - 1, e)
  <2>1. ASSUME NEW i \in s..e PROVE i \notin Whole(q)
    <3>1. e \in s..e
      BY <1>1, <1>2
    <3>2. /\ e \in DOMAIN q /\ q[e].role = "tool" /\ GroupStart(q, e) = GroupStart(q, i)
          /\ q[GroupStart(q, e)].role # "assistant"
      BY <1>1, <1>4, <1>9, <1>11, <3>1
    <3> QED  BY <3>2 DEF Whole
  <2> QED  BY <1>10, <2>1 DEF NoneChosen
<1>12. ASSUME ~Orphaned(g)
       PROVE  AllChosen(Whole(q), s - 1, e) /\ IsGroup(g)
  <2>1. ASSUME NEW i \in s..e PROVE i \in Whole(q)
    <3>1. i \in 1..Len(q) /\ GroupStart(q, i) = s
      BY <1>1, <1>4
    <3>2. ASSUME NEW t \in 1..N, q[t].role = "tool", GroupStart(q, t) = s, q[s].role # "assistant"
          PROVE  FALSE
      <4>1. q[e].role # "tool"
        BY <1>9, <1>12, <3>2
      <4>2. s = e
        BY <1>1, <1>2, <4>1
      <4>3. s \in 1..t /\ \A j \in s + 1..t : q[j].role = "tool"
        BY <3>2, Groups
      <4>4. e + 1 \in s + 1..t /\ e < N
        BY <1>1, <3>2, <4>1, <4>2, <4>3
      <4> QED  BY <1>1, <4>3, <4>4 DEF EndsGroup
    <3>3. ~ \E t \in DOMAIN q : /\ q[t].role = "tool" /\ GroupStart(q, t) = GroupStart(q, i)
                                /\ q[GroupStart(q, t)].role # "assistant"
      BY <1>1, <3>1, <3>2
    <3> QED  BY <3>1, <3>3 DEF Whole
  <2>2. AllChosen(Whole(q), s - 1, e)
    BY <1>10, <2>1 DEF AllChosen
  <2>3. ASSUME NEW i \in 2..L PROVE g[i].role = "tool"
    <3>1. i \in 1..L /\ s + i - 1 \in s + 1..e
      BY <1>2, <1>6
    <3> QED  BY <1>2, <1>7, <3>1
  <2>4. g[1] = q[s]
    <3>1. 1 \in 1..L /\ s + 1 - 1 = s
      BY <1>2, <1>6
    <3> QED  BY <1>7, <3>1
  <2>5. q[s].role # "tool"
    <3>1. CASE s = e
      BY <1>9, <1>12, <3>1
    <3>2. CASE s # e
      BY <1>1, <1>2, <1>9, <1>12, <3>2
    <3> QED  BY <3>1, <3>2
  <2>6. L > 1 => q[s].role = "assistant"
    <3>1. L > 1 => e \in s + 1..e
      BY <1>1, <1>2, <1>6
    <3> QED  BY <1>2, <1>9, <1>12, <3>1
  <2> QED  BY <1>6, <1>7, <2>2, <2>3, <2>4, <2>5, <2>6 DEF IsGroup
<1> QED  BY <1>2, <1>3, <1>5, <1>11, <1>12

(* The complete part of the conversation grows by whole groups.            *)
LEMMA WholeGrowsByGroups ==
    ASSUME NEW S, NEW q \in Seq(S), NEW f, IsPicked(f, q, Whole(q), Len(q)),
           NEW e, EndsGroup(q, e), NEW s, s = GroupStart(q, e)
    PROVE  /\ f[s - 1] \in Seq(S)
           /\ f[e] = IF Orphaned(Group(q, e)) THEN f[s - 1] ELSE f[s - 1] \o Group(q, e)
<1>1. PICK N \in Nat : N = Len(q) /\ e \in 1..N
  BY LenProperties DEF EndsGroup
<1>2. s \in 1..e
  BY GroupIsWhole
<1>3. PICK a \in 0..N : a = s - 1 /\ a <= e /\ e - a = e - s + 1
  <2>1. s - 1 \in 0..N /\ s - 1 <= e /\ e - (s - 1) = e - s + 1
    BY <1>1, <1>2
  <2> QED  BY <2>1
<1>4. e \in 0..Len(q) /\ a \in 0..Len(q)
  BY <1>1
<1>5. f[a] \in Seq(S) /\ f[e] \in Seq(S)
  BY <1>4, PickedGrows
<1>6. CASE Orphaned(Group(q, e))
  <2>1. NoneChosen(Whole(q), a, e)
    BY <1>3, <1>6, GroupIsWhole
  <2>2. f[e] = f[a]
    BY <1>3, <1>4, <2>1, PickedNone
  <2> QED  BY <1>3, <1>5, <1>6, <2>2
<1>7. CASE ~Orphaned(Group(q, e))
  <2>1. AllChosen(Whole(q), a, e)
    BY <1>3, <1>7, GroupIsWhole
  <2>2. AddsRun(f, q, a, e)
    BY <1>3, <1>4, <2>1, PickedRun
  <2>3. PICK g : g = Group(q, e)
    OBVIOUS
  <2>4. PICK L \in Nat : L = e - s + 1 /\ e - a = L /\ s - 1 = a
    BY <1>1, <1>2, <1>3
  <2>5. g \in Seq(S) /\ Len(g) = L /\ \A i \in 1..L : g[i] = q[s + i - 1]
    BY <1>1, <1>2, <2>3, <2>4, GroupElements
  <2>6. PICK u : u = f[a]
    OBVIOUS
  <2>7. PICK K \in Nat : K = Len(u) /\ u \in Seq(S)
    BY <1>5, <2>6, LenProperties
  <2>8. PICK z : z = u \o g
    OBVIOUS
  <2>9. /\ z \in Seq(S) /\ Len(z) = K + L
        /\ \A i \in 1..K + L : z[i] = IF i <= K THEN u[i] ELSE g[i - K]
    <3>1. /\ z \in Seq(S) /\ Len(z) = Len(u) + Len(g)
          /\ \A i \in 1..Len(u) + Len(g) : z[i] = IF i <= Len(u) THEN u[i] ELSE g[i - Len(u)]
      BY <2>5, <2>7, <2>8, ConcatProperties
    <3> QED  BY <2>5, <2>7, <3>1
  <2>10. PICK v : v = f[e]
    OBVIOUS
  <2>11. /\ Len(v) = K + L
         /\ \A k \in 1..L : v[K + k] = q[a + k]
    BY <2>2, <2>4, <2>6, <2>7, <2>10 DEF AddsRun
  <2>12. \A k \in 1..K : v[k] = u[k]
    <3>1. \A k \in 1..Len(f[a]) : f[e][k] = f[a][k]
      BY <1>3, <1>4, PickedGrows
    <3> QED  BY <2>6, <2>7, <2>10, <3>1
  <2>13. ASSUME NEW i \in 1..K + L PROVE v[i] = z[i]
    <3>1. CASE i <= K
      <4>1. i \in 1..K
        BY <3>1
      <4> QED  BY <2>9, <2>12, <3>1, <4>1
    <3>2. CASE ~(i <= K)
      <4>1. PICK k \in 1..L : i = K + k /\ i - K = k
        <5>1. i - K \in 1..L /\ i = K + (i - K)
          BY <3>2
        <5> QED  BY <5>1
      <4>2. s + k - 1 = a + k
        BY <1>2, <2>4
      <4>3. v[i] = q[a + k] /\ z[i] = g[k] /\ g[k] = q[s + k - 1]
        BY <2>5, <2>9, <2>11, <3>2, <4>1
      <4> QED  BY <4>2, <4>3
    <3> QED  BY <3>1, <3>2
  <2>14. v = z
    BY <1>5, <2>9, <2>10, <2>11, <2>13, SeqEqual
  <2> QED  BY <1>3, <1>5, <1>7, <2>3, <2>6, <2>8, <2>10, <2>14
<1> QED  BY <1>6, <1>7

-----------------------------------------------------------------------------
(* The backward pass.                                                      *)

\* One step of the pass: what it keeps of the first i messages.
Step(kept, q, i, spent, budget) ==
    IF i = 0 THEN <<>>
    ELSE LET start == GroupStart(q, i)
             group == SubSeq(q, start, i)
             cost  == spent + Cost(group)
         IN  IF Orphaned(group) THEN kept[start - 1][spent]
             ELSE IF cost <= budget THEN kept[start - 1][cost] \o group
             ELSE <<>>

IsPass(kept, q, budget, n) ==
    kept = [i \in 0..n |-> [spent \in 0..budget |-> Step(kept, q, i, spent, budget)]]

(* A step looks at earlier places only.                                    *)
LEMMA StepLooksBack ==
    ASSUME NEW q, NEW i \in Nat, NEW kept, NEW other, \A j \in 0..i - 1 : kept[j] = other[j],
           NEW spent, NEW budget
    PROVE  Step(kept, q, i, spent, budget) = Step(other, q, i, spent, budget)
<1>1. CASE i = 0
  BY <1>1 DEF Step
<1>2. CASE i # 0
  <2>1. GroupStart(q, i) \in 1..i
    BY <1>2, Groups
  <2>2. PICK s \in 1..i : s = GroupStart(q, i)
    BY <2>1
  <2>3. kept[s - 1] = other[s - 1]
    <3>1. s - 1 \in 0..i - 1
      OBVIOUS
    <3> QED  BY <3>1
  <2> QED  BY <1>2, <2>2, <2>3 DEF Step
<1> QED  BY <1>1, <1>2

(* There is such a function, whatever the length.                          *)
LEMMA PassExists ==
    ASSUME NEW q, NEW budget, NEW N \in Nat
    PROVE  \E kept : IsPass(kept, q, budget, N)
<1>1. PICK T : T = {m \in Nat : \E kept : IsPass(kept, q, budget, m)}
  OBVIOUS
<1>2. 0 \in T
  <2>1. PICK f : f = [i \in 0..0 |-> [spent \in 0..budget |-> <<>>]]
    OBVIOUS
  <2>2. ASSUME NEW i \in 0..0
        PROVE  f[i] = [spent \in 0..budget |-> Step(f, q, i, spent, budget)]
    BY <2>1 DEF Step
  <2>3. f = [i \in 0..0 |-> [spent \in 0..budget |-> Step(f, q, i, spent, budget)]]
    BY <2>1, <2>2
  <2>4. IsPass(f, q, budget, 0)
    BY <2>3 DEF IsPass
  <2> QED
    BY <1>1, <2>4
<1>3. ASSUME NEW m \in Nat, m \in T
      PROVE  m + 1 \in T
  <2>1. PICK f : IsPass(f, q, budget, m)
    BY <1>1, <1>3
  <2>2. PICK g : g = [i \in 0..m + 1 |->
                        IF i = m + 1 THEN [spent \in 0..budget |-> Step(f, q, i, spent, budget)]
                        ELSE f[i]]
    OBVIOUS
  <2>3. \A j \in 0..m : g[j] = f[j]
    BY <2>2
  <2>4. ASSUME NEW i \in 0..m + 1
        PROVE  \A spent : Step(g, q, i, spent, budget) = Step(f, q, i, spent, budget)
    <3>1. i \in Nat /\ \A j \in 0..i - 1 : g[j] = f[j]
      <4>1. \A j \in 0..i - 1 : j \in 0..m
        OBVIOUS
      <4> QED  BY <2>3, <4>1
    <3> QED  BY <3>1, StepLooksBack
  <2>5. ASSUME NEW i \in 0..m + 1
        PROVE  g[i] = [spent \in 0..budget |-> Step(f, q, i, spent, budget)]
    <3>1. CASE i = m + 1
      BY <2>2, <3>1
    <3>2. CASE i \in 0..m
      <4>1. f[i] = [spent \in 0..budget |-> Step(f, q, i, spent, budget)]
        BY <2>1, <3>2 DEF IsPass
      <4> QED  BY <2>3, <3>2, <4>1
    <3> QED
      BY <3>1, <3>2
  <2>6. ASSUME NEW i \in 0..m + 1
        PROVE  g[i] = [spent \in 0..budget |-> Step(g, q, i, spent, budget)]
    BY <2>4, <2>5, Zenon
  <2>7. g = [i \in 0..m + 1 |-> [spent \in 0..budget |-> Step(g, q, i, spent, budget)]]
    <3>1. g = [i \in 0..m + 1 |-> g[i]]
      BY <2>2
    <3> QED  BY <2>6, <3>1, Zenon
  <2>8. IsPass(g, q, budget, m + 1)
    BY <2>7 DEF IsPass
  <2> QED
    BY <1>1, <2>8
<1>4. T = Nat
  <2>1. \A m \in T : m + 1 \in T
    BY <1>1, <1>3
  <2> QED  BY <1>1, <1>2, <2>1, Induction
<1> QED
  BY <1>1, <1>4

(* TrimMessages is the last value of such a function.                      *)
LEMMA TrimMessagesIs ==
    ASSUME NEW S, NEW q \in Seq(S), NEW system, NEW budget
    PROVE  \E kept : IsPass(kept, q, budget, Len(q)) /\ TrimMessages(system, q, budget) = kept[Len(q)][system]
<1>1. Len(q) \in Nat
  BY LenProperties
<1>2. PICK kept : kept = CHOOSE k : IsPass(k, q, budget, Len(q))
  OBVIOUS
<1>3. IsPass(kept, q, budget, Len(q))
  BY <1>1, <1>2, PassExists
<1>4. TrimMessages(system, q, budget) = kept[Len(q)][system]
  BY <1>2 DEF IsPass, Step, TrimMessages
<1> QED
  BY <1>3, <1>4

(* What the pass keeps is the longest end of what is complete that fits:   *)
(* by induction over the places where groups end.                          *)
LEMMA TrimIsLongestEnd ==
    ASSUME NEW S, \A m \in S : m.tok \in Nat, NEW q \in Seq(S),
           NEW budget \in Nat, NEW system \in 0..budget
    PROVE  IsLongestEnd(TrimMessages(system, q, budget), Complete(q), system, budget)
<1>1. PICK N \in Nat : N = Len(q)
  BY LenProperties
<1>2. PICK kept : IsPass(kept, q, budget, N) /\ TrimMessages(system, q, budget) = kept[N][system]
  BY <1>1, TrimMessagesIs
<1>3. PICK f : IsPicked(f, q, Whole(q), Len(q)) /\ Picked(q, Whole(q)) = f[Len(q)]
  BY <1>1, PickedIs
<1>4. Complete(q) = f[N]
  BY <1>1, <1>3 DEF Complete, Whole
<1>5. f[0] = <<>>
  BY <1>3, PickedGrows
<1>6. \A i \in 0..N, spent \in 0..budget : kept[i][spent] = Step(kept, q, i, spent, budget)
  <2>1. kept = [i \in 0..N |-> [spent \in 0..budget |-> Step(kept, q, i, spent, budget)]]
    BY <1>2 DEF IsPass
  <2>2. ASSUME NEW i \in 0..N
        PROVE  kept[i] = [spent \in 0..budget |-> Step(kept, q, i, spent, budget)]
    BY <2>1, Zenon
  <2>3. ASSUME NEW i \in 0..N, NEW spent \in 0..budget
        PROVE  kept[i][spent] = Step(kept, q, i, spent, budget)
    BY <2>2, Zenon
  <2> QED  BY <2>3
<1>7. PICK Good : Good = {e \in 0..N : \A spent \in 0..budget :
                            IsLongestEnd(kept[e][spent], f[e], spent, budget)}
  OBVIOUS
<1>8. 0 \in Good
  <2>1. ASSUME NEW spent \in 0..budget
        PROVE  IsLongestEnd(kept[0][spent], f[0], spent, budget)
    <3>1. kept[0][spent] = <<>>
      BY <1>6 DEF Step
    <3>2. MayShow(<<>>, spent, budget)
      <4>1. Cost(<<>>) = 0 /\ NoOrphan(<<>>)
        BY EmptyIsFree
      <4>2. spent + 0 <= budget
        OBVIOUS
      <4> QED  BY <4>1, <4>2 DEF MayShow
    <3>3. EndAfter(<<>>, 0) = <<>> /\ Len(<<>>) = 0
      <4>1. PICK z \in Seq(S) : z = <<>> /\ Len(z) = 0
        BY EmptySeq
      <4>2. EndAfter(z, 0) \in Seq(S) /\ Len(EndAfter(z, 0)) = Len(z) - 0
        <5>1. 0 \in 0..Len(z)
          BY <4>1
        <5> QED  BY <5>1, EndElements
      <4>3. EndAfter(z, 0) = <<>>
        BY <4>1, <4>2, EmptySeq
      <4> QED  BY <4>1, <4>3
    <3>4. IsLongestEnd(<<>>, <<>>, spent, budget)
      BY <3>2, <3>3 DEF IsLongestEnd
    <3> QED  BY <1>5, <3>1, <3>4
  <2> QED  BY <1>7, <2>1
<1>9. ASSUME NEW e, EndsGroup(q, e), GroupStart(q, e) - 1 \in Good
      PROVE  e \in Good
  <2>1. PICK s \in 1..e : s = GroupStart(q, e)
    BY <1>9, GroupIsWhole
  <2>2. e \in 1..N
    BY <1>1, <1>9 DEF EndsGroup
  <2>3. PICK g : g = Group(q, e)
    OBVIOUS
  <2>4. g \in Seq(S) /\ g = SubSeq(q, s, e)
    BY <1>1, <2>1, <2>2, <2>3, GroupElements DEF Group
  <2>5. PICK p : p = f[s - 1]
    OBVIOUS
  <2>6. p \in Seq(S) /\ f[e] = IF Orphaned(g) THEN p ELSE p \o g
    BY <1>3, <1>9, <2>1, <2>3, <2>5, WholeGrowsByGroups
  <2>7. \A spent \in 0..budget : IsLongestEnd(kept[s - 1][spent], p, spent, budget)
    BY <1>7, <1>9, <2>1, <2>5
  <2>8. Cost(g) \in Nat
    <3>1. g \in Seq(S) /\ <<>> \in Seq(S)
      BY <2>4, EmptySeq
    <3> QED  BY <3>1, CostOfConcat
  <2>9. ASSUME NEW spent \in 0..budget
        PROVE  IsLongestEnd(kept[e][spent], f[e], spent, budget)
    <3>1. kept[e][spent] = IF Orphaned(g) THEN kept[s - 1][spent]
                           ELSE IF spent + Cost(g) <= budget THEN kept[s - 1][spent + Cost(g)] \o g
                           ELSE <<>>
      <4>1. kept[e][spent] = Step(kept, q, e, spent, budget) /\ e # 0
        BY <1>6, <2>2
      <4> QED  BY <2>1, <2>4, <4>1 DEF Step
    <3>2. CASE Orphaned(g)
      BY <2>6, <2>7, <3>1, <3>2
    <3>3. CASE ~Orphaned(g) /\ spent + Cost(g) <= budget
      <4>1. IsGroup(g)
        BY <1>9, <2>3, <3>3, GroupIsWhole
      <4>2. spent + Cost(g) \in 0..budget
        BY <2>8, <3>3
      <4>3. PICK w : w = kept[s - 1][spent + Cost(g)]
        OBVIOUS
      <4>4. IsLongestEnd(w, p, spent + Cost(g), budget)
        BY <2>7, <4>2, <4>3
      <4>5. IsLongestEnd(w \o g, p \o g, spent, budget)
        <5>1. spent \in Nat
          OBVIOUS
        <5> QED  BY <2>4, <2>6, <4>1, <4>4, <5>1, GroupFits
      <4> QED  BY <2>6, <3>1, <3>3, <4>3, <4>5
    <3>4. CASE ~Orphaned(g) /\ ~(spent + Cost(g) <= budget)
      <4>1. IsGroup(g)
        BY <1>9, <2>3, <3>4, GroupIsWhole
      <4>2. spent + Cost(g) > budget
        BY <2>8, <3>4
      <4>3. IsLongestEnd(<<>>, p \o g, spent, budget)
        BY <2>4, <2>6, <4>1, <4>2, GroupDoesNotFit
      <4> QED  BY <2>6, <3>1, <3>4, <4>3
    <3> QED  BY <3>2, <3>3, <3>4
  <2>10. e \in 0..N
    BY <2>2
  <2> QED  BY <1>7, <2>9, <2>10
<1>10. PICK T : T = {n \in Nat : \A e \in 0..n : e = 0 \/ EndsGroup(q, e) => e \in Good}
  OBVIOUS
<1>11. 0 \in T
  <2>1. \A e \in 0..0 : e = 0
    OBVIOUS
  <2> QED  BY <1>8, <1>10, <2>1
<1>12. ASSUME NEW n \in Nat, n \in T
       PROVE  n + 1 \in T
  <2>1. ASSUME NEW e \in 0..n + 1, EndsGroup(q, e) PROVE e \in Good
    <3>1. CASE e \in 0..n
      BY <1>10, <1>12, <2>1, <3>1
    <3>2. CASE e = n + 1
      <4>1. PICK s \in 1..e : s = GroupStart(q, e) /\ (s = 1 \/ EndsGroup(q, s - 1))
        BY <2>1, GroupIsWhole
      <4>2. s - 1 \in 0..n /\ (s = 1 => s - 1 = 0)
        BY <3>2, <4>1
      <4>3. s - 1 \in Good
        BY <1>10, <1>12, <4>1, <4>2
      <4> QED  BY <1>9, <2>1, <4>1, <4>3
    <3> QED  BY <3>1, <3>2
  <2>2. \A e \in 0..n + 1 : e = 0 \/ EndsGroup(q, e) => e \in Good
    BY <1>8, <2>1
  <2> QED  BY <1>10, <2>2
<1>13. T = Nat
  <2>1. \A n \in T : n + 1 \in T
    BY <1>10, <1>12
  <2> QED  BY <1>10, <1>11, <2>1, Induction
<1>14. N \in Good
  <2>1. N = 0 \/ EndsGroup(q, N)
    BY <1>1 DEF EndsGroup
  <2>2. N \in T /\ N \in 0..N
    BY <1>13
  <2> QED  BY <1>10, <2>1, <2>2
<1> QED  BY <1>2, <1>4, <1>7, <1>14

-----------------------------------------------------------------------------
(* After no message comes everything.                                      *)
LEMMA WholeEnd ==
    ASSUME NEW S, NEW q \in Seq(S)
    PROVE  EndAfter(q, 0) = q
<1>1. PICK w : w = EndAfter(q, 0)
  OBVIOUS
<1>2. PICK N \in Nat : N = Len(q)
  BY LenProperties
<1>3. w \in Seq(S) /\ Len(w) = Len(q) - 0 /\ \A i \in 1..Len(q) - 0 : w[i] = q[0 + i]
  <2>1. 0 \in 0..Len(q)
    BY <1>2
  <2> QED  BY <1>1, <2>1, EndElements
<1>4. Len(w) = Len(q) /\ \A i \in 1..Len(w) : w[i] = q[i]
  <2>1. Len(q) - 0 = Len(q) /\ \A i \in 1..Len(q) : 0 + i = i
    BY <1>2
  <2> QED  BY <1>3, <2>1
<1>5. w = q
  BY <1>3, <1>4, SeqEqual
<1> QED  BY <1>1, <1>5

(* What is complete is a conversation.                                     *)
LEMMA CompleteIsSequence ==
    ASSUME NEW S, NEW q \in Seq(S)
    PROVE  Complete(q) \in Seq(S)
<1>1. PICK N \in Nat : N = Len(q)
  BY LenProperties
<1>2. PICK f : IsPicked(f, q, Whole(q), Len(q)) /\ Picked(q, Whole(q)) = f[Len(q)]
  BY <1>1, PickedIs
<1>3. Complete(q) = f[Len(q)]
  BY <1>2 DEF Complete, Whole
<1>4. Len(q) \in 0..Len(q)
  BY <1>1
<1>5. f[Len(q)] \in Seq(S)
  BY <1>2, <1>4, PickedGrows
<1> QED  BY <1>3, <1>5

(* The reference definition chooses the longest end.                       *)
LEMMA LongestEndIs ==
    ASSUME NEW S, NEW q \in Seq(S), NEW system, NEW budget,
           NEW w, IsLongestEnd(w, Complete(q), system, budget)
    PROVE  w = LongestComplete(system, q, budget)
<1>1. PICK c \in Seq(S) : c = Complete(q)
  BY CompleteIsSequence
<1>2. PICK N \in Nat : N = Len(c)
  BY <1>1, LenProperties
<1>3. PICK n \in 0..N :
        /\ w = EndAfter(c, n) /\ MayShow(w, system, budget)
        /\ \A m \in 0..N : MayShow(EndAfter(c, m), system, budget) => n <= m
  BY <1>1, <1>2 DEF IsLongestEnd
<1>4. \A m \in 0..N : Len(EndAfter(c, m)) = N - m
  BY <1>1, <1>2, EndElements
<1>5. ASSUME NEW v \in Suffixes(c)
      PROVE  \E m \in 0..N : v = EndAfter(c, m)
  <2>1. CASE v = <<>>
    <3>1. PICK x : x = EndAfter(c, N)
      OBVIOUS
    <3>2. N \in 0..N /\ N - N = 0
      BY <1>2
    <3>3. x \in Seq(S) /\ Len(x) = 0
      BY <1>1, <1>2, <1>4, <3>1, <3>2, EndElements
    <3>4. x = <<>>
      BY <3>3, EmptySeq
    <3> QED  BY <2>1, <3>1, <3>2, <3>4
  <2>2. CASE v # <<>>
    <3>1. PICK l \in 1..N : v = SubSeq(c, l, N)
      BY <1>2, <2>2 DEF Suffixes
    <3>2. l - 1 \in 0..N /\ (l - 1) + 1 = l
      BY <1>2, <3>1
    <3>3. v = EndAfter(c, l - 1)
      BY <1>2, <3>1, <3>2 DEF EndAfter
    <3> QED  BY <3>2, <3>3
  <2> QED  BY <2>1, <2>2
<1>6. w \in Suffixes(c)
  <2>1. CASE n = N
    <3>1. n \in 0..Len(c) /\ N - n = 0
      BY <1>2, <1>3, <2>1
    <3>2. w \in Seq(S) /\ Len(w) = 0
      BY <1>1, <1>3, <1>4, <3>1, EndElements
    <3>3. w = <<>>
      BY <3>2, EmptySeq
    <3> QED  BY <3>3 DEF Suffixes
  <2>2. CASE n # N
    <3>1. n + 1 \in 1..N /\ w = SubSeq(c, n + 1, N)
      BY <1>2, <1>3, <2>2 DEF EndAfter
    <3> QED  BY <1>2, <3>1 DEF Suffixes
  <2> QED  BY <2>1, <2>2
<1>7. PICK ends : ends = {v \in Suffixes(c) : NoOrphan(v) /\ system + Cost(v) <= budget}
  OBVIOUS
<1>8. w \in ends
  BY <1>3, <1>6, <1>7 DEF MayShow
<1>9. ASSUME NEW v \in ends
      PROVE  Len(v) <= Len(w) /\ (Len(v) = Len(w) => v = w)
  <2>1. PICK m \in 0..N : v = EndAfter(c, m)
    BY <1>5, <1>7
  <2>2. n <= m
    BY <1>3, <1>7, <2>1 DEF MayShow
  <2>3. Len(v) = N - m /\ Len(w) = N - n
    BY <1>3, <1>4, <2>1
  <2>4. Len(v) <= Len(w)
    BY <2>2, <2>3
  <2>5. Len(v) = Len(w) => m = n
    BY <2>3
  <2> QED  BY <1>3, <2>1, <2>4, <2>5
<1>10. \A v \in ends : (\A x \in ends : Len(x) <= Len(v)) => v = w
  <2> SUFFICES ASSUME NEW v \in ends, \A x \in ends : Len(x) <= Len(v)
               PROVE  v = w
    OBVIOUS
  <2>1. Len(w) <= Len(v) /\ Len(v) <= Len(w)
    BY <1>8, <1>9
  <2>2. Len(w) \in Nat /\ Len(v) \in Nat
    <3>1. \A x \in ends : \E m \in 0..N : Len(x) = N - m
      BY <1>4, <1>5, <1>7
    <3> QED  BY <1>8, <3>1
  <2> QED  BY <1>9, <2>1, <2>2
<1>11. w = CHOOSE x \in ends : \A v \in ends : Len(v) <= Len(x)
  BY <1>8, <1>9, <1>10
<1> QED  BY <1>1, <1>7, <1>11 DEF LongestComplete

(* The pass is the reference definition.                                   *)
LEMMA TrimIsLongestComplete ==
    ASSUME NEW S, \A m \in S : m.tok \in Nat, NEW q \in Seq(S),
           NEW budget \in Nat, NEW system \in 0..budget
    PROVE  /\ TrimMessages(system, q, budget) \in Seq(S)
           /\ TrimMessages(system, q, budget) = LongestComplete(system, q, budget)
           /\ NoOrphan(TrimMessages(system, q, budget))
           /\ system + Cost(TrimMessages(system, q, budget)) <= budget
<1>1. PICK w : w = TrimMessages(system, q, budget)
  OBVIOUS
<1>2. PICK c \in Seq(S) : c = Complete(q)
  BY CompleteIsSequence
<1>3. IsLongestEnd(w, c, system, budget)
  BY <1>1, <1>2, TrimIsLongestEnd
<1>4. w = LongestComplete(system, q, budget)
  BY <1>2, <1>3, LongestEndIs
<1>5. MayShow(w, system, budget) /\ \E n \in 0..Len(c) : w = EndAfter(c, n)
  BY <1>3 DEF IsLongestEnd
<1>6. w \in Seq(S)
  BY <1>2, <1>5, EndElements
<1> QED  BY <1>1, <1>4, <1>5, <1>6 DEF MayShow

(* A conversation without orphans is complete.                             *)
LEMMA NothingIncomplete ==
    ASSUME NEW S, NEW q \in Seq(S), NoOrphan(q)
    PROVE  Complete(q) = q
<1>1. PICK N \in Nat : N = Len(q) /\ DOMAIN q = 1..N
  BY LenProperties
<1>2. ASSUME NEW t \in 1..N, q[t].role = "tool", q[GroupStart(q, t)].role # "assistant"
      PROVE  FALSE
  <2>1. PICK s \in 1..t : /\ s = GroupStart(q, t)
                          /\ \A j \in s + 1..t : q[j].role = "tool"
                          /\ q[s].role = "tool" => s = 1
    <3>1. t \in Nat \ {0}
      OBVIOUS
    <3> QED  BY <3>1, Groups
  <2>2. q[s].role # "tool"
    <3>1. s \in DOMAIN q /\ ~(1 > 1)
      BY <1>1
    <3> QED  BY <2>1, <3>1 DEF NoOrphan
  <2>3. s + 1 \in s + 1..t /\ s + 1 \in 1..N /\ (s + 1) - 1 = s
    BY <1>1, <1>2, <2>1, <2>2
  <2>4. q[s + 1].role = "tool"
    BY <2>1, <2>3
  <2>5. q[s].role \in {"assistant", "tool"}
    BY <1>1, <2>3, <2>4 DEF NoOrphan
  <2> QED  BY <1>2, <2>1, <2>2, <2>5
<1>3. \A i \in 1..Len(q) : i \in Whole(q)
  BY <1>1, <1>2 DEF Whole
<1>4. Picked(q, Whole(q)) = q
  BY <1>3, PickedAll
<1> QED  BY <1>4 DEF Complete, Whole

(* What is complete and fits is sent as it is.                             *)
LEMMA NothingIsCut ==
    ASSUME NEW S, \A m \in S : m.tok \in Nat, NEW q \in Seq(S),
           NEW budget \in Nat, NEW system \in 0..budget,
           NoOrphan(q), system + Cost(q) <= budget
    PROVE  TrimMessages(system, q, budget) = q
<1>1. PICK w : w = TrimMessages(system, q, budget)
  OBVIOUS
<1>2. IsLongestEnd(w, q, system, budget)
  <2>1. Complete(q) = q
    BY NothingIncomplete
  <2> QED  BY <1>1, <2>1, TrimIsLongestEnd
<1>3. MayShow(EndAfter(q, 0), system, budget)
  BY WholeEnd DEF MayShow
<1>4. PICK N \in Nat : N = Len(q)
  BY LenProperties
<1>5. PICK n \in 0..N : /\ w = EndAfter(q, n)
                        /\ \A m \in 0..N : MayShow(EndAfter(q, m), system, budget) => n <= m
  BY <1>2, <1>4 DEF IsLongestEnd
<1>6. n = 0
  <2>1. 0 \in 0..N
    OBVIOUS
  <2> QED  BY <1>3, <1>5, <2>1
<1> QED  BY <1>1, <1>5, <1>6, WholeEnd

-----------------------------------------------------------------------------
(* The cut by blocks.                                                      *)

\* f[n] are the messages of the first n blocks.
IsFlat(f, blocks, N) ==
    f = [n \in 0..N |-> IF n = 0 THEN <<>> ELSE f[n - 1] \o blocks[n].messages]

(* There is such a function, whatever the length.                          *)
LEMMA FlatExists ==
    ASSUME NEW blocks, NEW N \in Nat
    PROVE  \E f : IsFlat(f, blocks, N)
<1>1. PICK T : T = {m \in Nat : \E f : IsFlat(f, blocks, m)}
  OBVIOUS
<1>2. 0 \in T
  <2>1. IsFlat([i \in 0..0 |-> <<>>], blocks, 0)
    BY DEF IsFlat
  <2> QED
    BY <1>1, <2>1
<1>3. ASSUME NEW m \in Nat, m \in T
      PROVE  m + 1 \in T
  <2>1. PICK f : IsFlat(f, blocks, m)
    BY <1>1, <1>3
  <2>2. PICK g : g = [i \in 0..m + 1 |->
                        IF i = m + 1 THEN f[m] \o blocks[i].messages ELSE f[i]]
    OBVIOUS
  <2>3. ASSUME NEW i \in 0..m + 1
        PROVE  g[i] = IF i = 0 THEN <<>> ELSE g[i - 1] \o blocks[i].messages
    <3>1. CASE i = m + 1
      <4>1. i - 1 = m /\ i # 0 /\ m \in 0..m + 1 /\ m # m + 1
        BY <3>1
      <4>2. g[m] = f[m]
        BY <2>2, <4>1
      <4> QED  BY <2>2, <3>1, <4>1, <4>2
    <3>2. CASE i \in 0..m
      <4>1. g[i] = f[i] /\ (i # 0 => g[i - 1] = f[i - 1])
        BY <2>2, <3>2
      <4> QED  BY <2>1, <3>2, <4>1 DEF IsFlat
    <3> QED
      BY <3>1, <3>2
  <2>4. g = [i \in 0..m + 1 |-> IF i = 0 THEN <<>> ELSE g[i - 1] \o blocks[i].messages]
    BY <2>2, <2>3
  <2>5. IsFlat(g, blocks, m + 1)
    BY <2>4 DEF IsFlat
  <2> QED
    BY <1>1, <2>5
<1>4. T = Nat
  <2>1. \A m \in T : m + 1 \in T
    BY <1>1, <1>3
  <2> QED  BY <1>1, <1>2, <2>1, Induction
<1> QED
  BY <1>1, <1>4

(* FlattenBlocks is the last value of such a function.                     *)
LEMMA FlattenIs ==
    ASSUME NEW blocks, Len(blocks) \in Nat
    PROVE  \E f : /\ FlattenBlocks(blocks) = f[Len(blocks)] /\ f[0] = <<>>
                  /\ \A n \in 1..Len(blocks) : f[n] = f[n - 1] \o blocks[n].messages
<1>1. PICK f : f = CHOOSE g : IsFlat(g, blocks, Len(blocks))
  OBVIOUS
<1>2. IsFlat(f, blocks, Len(blocks))
  BY <1>1, FlatExists
<1>3. f = CHOOSE flat : flat = [n \in 0..Len(blocks) |->
            IF n = 0 THEN <<>> ELSE flat[n - 1] \o blocks[n].messages]
  BY <1>1 DEF IsFlat
<1>4. FlattenBlocks(blocks) = f[Len(blocks)]
  BY <1>3 DEF FlattenBlocks
<1>5. f = [n \in 0..Len(blocks) |-> IF n = 0 THEN <<>> ELSE f[n - 1] \o blocks[n].messages]
  BY <1>2 DEF IsFlat
<1>6. ASSUME NEW n \in 0..Len(blocks)
      PROVE  f[n] = IF n = 0 THEN <<>> ELSE f[n - 1] \o blocks[n].messages
  BY <1>5, Zenon
<1>7. 0 \in 0..Len(blocks) /\ \A n \in 1..Len(blocks) : n \in 0..Len(blocks) /\ n # 0
  OBVIOUS
<1>8. f[0] = <<>> /\ \A n \in 1..Len(blocks) : f[n] = f[n - 1] \o blocks[n].messages
  BY <1>6, <1>7, Zenon
<1> QED
  BY <1>4, <1>8

(* The messages of blocks are messages.                                    *)
LEMMA FlattenIsSequence ==
    ASSUME NEW S, NEW blocks, Len(blocks) \in Nat,
           \A i \in 1..Len(blocks) : blocks[i].messages \in Seq(S)
    PROVE  FlattenBlocks(blocks) \in Seq(S)
<1>1. PICK N \in Nat : N = Len(blocks)
  OBVIOUS
<1>2. PICK f : /\ FlattenBlocks(blocks) = f[N] /\ f[0] = <<>>
               /\ \A n \in 1..N : f[n] = f[n - 1] \o blocks[n].messages
  BY <1>1, FlattenIs
<1>3. PICK T : T = {n \in Nat : n <= N => f[n] \in Seq(S)}
  OBVIOUS
<1>4. 0 \in T
  BY <1>2, <1>3, EmptySeq
<1>5. ASSUME NEW n \in Nat, n \in T PROVE n + 1 \in T
  <2>1. CASE n + 1 <= N
    <3>1. n <= N /\ n + 1 \in 1..N /\ (n + 1) - 1 = n
      BY <2>1
    <3>2. f[n] \in Seq(S) /\ blocks[n + 1].messages \in Seq(S)
      BY <1>1, <1>3, <1>5, <3>1
    <3>3. f[n + 1] = f[n] \o blocks[n + 1].messages
      BY <1>2, <3>1
    <3>4. f[n + 1] \in Seq(S)
      BY <3>2, <3>3, ConcatProperties
    <3> QED  BY <1>3, <3>4
  <2>2. CASE ~(n + 1 <= N)
    BY <1>3, <2>2
  <2> QED  BY <2>1, <2>2
<1>6. T = Nat
  <2>1. \A n \in T : n + 1 \in T
    BY <1>3, <1>5
  <2> QED  BY <1>3, <1>4, <2>1, Induction
<1>7. N \in T /\ N <= N
  BY <1>6
<1> QED  BY <1>2, <1>3, <1>7

(* Nothing is an orphan where nothing was one.                             *)
LEMMA NoOrphanConcat ==
    ASSUME NEW S, NEW u \in Seq(S), NEW v \in Seq(S), NoOrphan(u), NoOrphan(v)
    PROVE  NoOrphan(u \o v)
<1>1. PICK K \in Nat, L \in Nat : K = Len(u) /\ L = Len(v) /\ DOMAIN u = 1..K /\ DOMAIN v = 1..L
  BY LenProperties
<1>2. PICK q : q = u \o v
  OBVIOUS
<1>3. /\ q \in Seq(S) /\ Len(q) = K + L
      /\ \A i \in 1..K + L : q[i] = IF i <= K THEN u[i] ELSE v[i - K]
  BY <1>1, <1>2, ConcatProperties
<1>4. DOMAIN q = 1..K + L
  BY <1>3, LenProperties
<1>5. ASSUME NEW i \in 1..K + L, q[i].role = "tool"
      PROVE  i > 1 /\ q[i - 1].role \in {"assistant", "tool"}
  <2>1. CASE i <= K
    <3>1. i \in 1..K /\ q[i] = u[i]
      BY <1>3, <2>1
    <3>2. i > 1 /\ u[i - 1].role \in {"assistant", "tool"}
      BY <1>1, <1>5, <3>1 DEF NoOrphan
    <3>3. i - 1 \in 1..K + L /\ i - 1 <= K
      BY <1>1, <2>1, <3>2
    <3>4. q[i - 1] = u[i - 1]
      BY <1>3, <3>3
    <3> QED  BY <3>2, <3>4
  <2>2. CASE ~(i <= K)
    <3>1. PICK j \in 1..L : i = K + j /\ i - K = j
      <4>1. i - K \in 1..L /\ i = K + (i - K)
        BY <1>1, <2>2
      <4> QED  BY <4>1
    <3>2. q[i] = v[j]
      BY <1>3, <2>2, <3>1
    <3>3. j > 1 /\ v[j - 1].role \in {"assistant", "tool"}
      BY <1>1, <1>5, <3>1, <3>2 DEF NoOrphan
    <3>4. i - 1 \in 1..K + L /\ ~(i - 1 <= K) /\ (i - 1) - K = j - 1 /\ i > 1
      BY <1>1, <3>1, <3>3
    <3>5. q[i - 1] = v[j - 1]
      BY <1>3, <3>4
    <3> QED  BY <3>3, <3>4, <3>5
  <2> QED  BY <2>1, <2>2
<1> QED  BY <1>2, <1>4, <1>5 DEF NoOrphan

(* Blocks that are counted rightly cost what their messages cost.          *)
LEMMA FlattenCosts ==
    ASSUME NEW S, \A m \in S : m.tok \in Nat, NEW blocks, Len(blocks) \in Nat,
           \A i \in 1..Len(blocks) :
               /\ blocks[i].messages \in Seq(S)
               /\ NoOrphan(blocks[i].messages)
               /\ BlockCost(blocks[i]) = Cost(blocks[i].messages)
    PROVE  /\ NoOrphan(FlattenBlocks(blocks))
           /\ Cost(FlattenBlocks(blocks)) = BlocksCost(blocks)
<1>1. PICK N \in Nat : N = Len(blocks)
  OBVIOUS
<1>2. PICK f : /\ FlattenBlocks(blocks) = f[N] /\ f[0] = <<>>
               /\ \A n \in 1..N : f[n] = f[n - 1] \o blocks[n].messages
  BY <1>1, FlattenIs
<1>3. PICK c : c = [i \in 1..N |-> BlockCost(blocks[i])]
  OBVIOUS
<1>4. \A i \in 1..N : c[i] = Cost(blocks[i].messages) /\ c[i] \in Nat
  <2>1. ASSUME NEW i \in 1..N PROVE Cost(blocks[i].messages) \in Nat
    <3>1. blocks[i].messages \in Seq(S) /\ <<>> \in Seq(S)
      BY <1>1, EmptySeq
    <3> QED  BY <3>1, CostOfConcat
  <2> QED  BY <1>1, <1>3, <2>1
<1>5. Len(c) = N
  <2>1. c \in [1..N -> Nat]
    BY <1>3, <1>4
  <2>2. c \in Seq(Nat)
    BY <2>1
  <2> QED  BY <2>1, <2>2
<1>6. PICK g : IsSum(g, c, N) /\ SumOf(c) = g[N]
  BY <1>5, SumOfIsSum
<1>7. g[0] = 0 /\ \A i \in 1..N : g[i] = g[i - 1] + c[i]
  BY <1>4, <1>6, SumsGrow
<1>8. BlocksCost(blocks) = g[N]
  BY <1>1, <1>3, <1>6 DEF BlocksCost
<1>9. PICK T : T = {n \in Nat : n <= N => f[n] \in Seq(S) /\ NoOrphan(f[n]) /\ Cost(f[n]) = g[n]}
  OBVIOUS
<1>10. 0 \in T
  <2>1. <<>> \in Seq(S) /\ NoOrphan(<<>>) /\ Cost(<<>>) = 0
    BY EmptyIsFree
  <2>2. f[0] \in Seq(S) /\ NoOrphan(f[0]) /\ Cost(f[0]) = g[0]
    BY <1>2, <1>7, <2>1
  <2>3. 0 \in Nat
    OBVIOUS
  <2> QED  BY <1>9, <2>2, <2>3, Zenon
<1>11. ASSUME NEW n \in Nat, n \in T PROVE n + 1 \in T
  <2>1. CASE n + 1 <= N
    <3>1. n <= N /\ n + 1 \in 1..N /\ (n + 1) - 1 = n
      BY <2>1
    <3>2. PICK u \in Seq(S) : u = f[n] /\ NoOrphan(u) /\ Cost(u) = g[n]
      BY <1>9, <1>11, <3>1
    <3>3. PICK v \in Seq(S) : v = blocks[n + 1].messages /\ NoOrphan(v) /\ Cost(v) = c[n + 1]
      BY <1>1, <1>4, <3>1
    <3>4. f[n + 1] = u \o v
      BY <1>2, <3>1, <3>2, <3>3
    <3>5. u \o v \in Seq(S) /\ NoOrphan(u \o v)
      BY <3>2, <3>3, ConcatProperties, NoOrphanConcat
    <3>6. Cost(u \o v) = Cost(u) + Cost(v)
      BY CostOfConcat
    <3>7. g[n + 1] = g[n] + c[n + 1]
      BY <1>7, <3>1
    <3>8. Cost(u \o v) = g[n + 1]
      BY <3>2, <3>3, <3>6, <3>7
    <3>9. f[n + 1] \in Seq(S) /\ NoOrphan(f[n + 1]) /\ Cost(f[n + 1]) = g[n + 1]
      BY <3>4, <3>5, <3>8
    <3>10. n + 1 \in Nat
      OBVIOUS
    <3> QED  BY <1>9, <3>9, <3>10, Zenon
  <2>2. CASE ~(n + 1 <= N)
    BY <1>9, <2>2
  <2> QED  BY <2>1, <2>2
<1>12. T = Nat
  <2>1. \A n \in T : n + 1 \in T
    BY <1>9, <1>11
  <2> QED  BY <1>9, <1>10, <2>1, Induction
<1>13. N \in T /\ N <= N
  BY <1>12
<1>14. NoOrphan(f[N]) /\ Cost(f[N]) = g[N]
  BY <1>9, <1>13
<1> QED  BY <1>2, <1>8, <1>14

AreAmong(some, blocks) ==
    \A i \in 1..Len(some) : \E j \in 1..Len(blocks) : some[i] = blocks[j]

(* The newest n blocks are n of the blocks.                                *)
LEMMA NewestBlocksElements ==
    ASSUME NEW B, NEW blocks \in Seq(B), NEW n \in 0..Len(blocks)
    PROVE  /\ Len(NewestBlocks(blocks, n)) = n
           /\ \A i \in 1..n : NewestBlocks(blocks, n)[i] \in B
           /\ AreAmong(NewestBlocks(blocks, n), blocks)
<1>1. PICK N \in Nat : N = Len(blocks) /\ n \in 0..N /\ \A i \in 1..N : blocks[i] \in B
  BY LenProperties, ElementOfSeq
<1>2. PICK a \in Int : a = N - n + 1 /\ a + n - 1 = N /\ N - a + 1 = n
  BY <1>1
<1>3. PICK w : w = NewestBlocks(blocks, n)
  OBVIOUS
<1>4. w = SubSeq(blocks, a, N)
  BY <1>1, <1>2, <1>3 DEF NewestBlocks
<1>5. \A i \in a..N : i \in 1..N /\ blocks[i] \in B
  BY <1>1, <1>2
<1>6. /\ w \in Seq(B) /\ Len(w) = (IF a <= N THEN N - a + 1 ELSE 0)
      /\ \A i \in 1..N - a + 1 : w[i] = blocks[a + i - 1]
  BY <1>4, <1>5, SubSeqProperties
<1>7. Len(w) = n /\ \A i \in 1..n : w[i] = blocks[a + i - 1]
  BY <1>1, <1>2, <1>6
<1>8. \A i \in 1..n : a + i - 1 \in 1..N
  BY <1>1, <1>2
<1>9. AreAmong(w, blocks)
  BY <1>1, <1>7, <1>8 DEF AreAmong
<1> QED  BY <1>1, <1>3, <1>7, <1>8, <1>9

(* What is kept of the blocks fits beside what is mandatory, if that fits. *)
LEMMA KeptBlocksFit ==
    ASSUME NEW B, NEW blocks \in Seq(B), NEW mandatory \in Nat, NEW budget \in Nat,
           mandatory <= budget
    PROVE  \E n \in 0..Len(blocks) :
              /\ TrimContextBlocks(blocks, mandatory, budget) = NewestBlocks(blocks, n)
              /\ mandatory + BlocksCost(NewestBlocks(blocks, n)) <= budget
<1>1. PICK N \in Nat : N = Len(blocks)
  BY LenProperties
<1>2. PICK fitting : fitting = {n \in 0..Len(blocks) :
                                  mandatory + BlocksCost(NewestBlocks(blocks, n)) <= budget}
  OBVIOUS
<1>3. 0 \in fitting
  <2>1. PICK w : w = NewestBlocks(blocks, 0)
    OBVIOUS
  <2>2. 0 \in 0..Len(blocks)
    BY <1>1
  <2>3. Len(w) = 0
    BY <2>1, <2>2, NewestBlocksElements
  <2>4. PICK c : c = [i \in 1..Len(w) |-> BlockCost(w[i])]
    OBVIOUS
  <2>5. c = <<>> /\ Len(c) = 0
    BY <2>3, <2>4
  <2>6. PICK g : IsSum(g, c, 0) /\ SumOf(c) = g[0]
    BY <2>5, SumOfIsSum
  <2>7. SumOf(c) = 0
    BY <2>6 DEF IsSum
  <2>8. BlocksCost(w) = 0
    BY <2>4, <2>7 DEF BlocksCost
  <2> QED  BY <1>2, <2>1, <2>2, <2>8
<1>4. fitting \in SUBSET (0..N) /\ fitting # {}
  BY <1>1, <1>2, <1>3
<1>5. Max(fitting) \in fitting
  BY <1>4, GreatestElement
<1> QED  BY <1>2, <1>5 DEF TrimContextBlocks

-----------------------------------------------------------------------------
(* What a retry forgets.                                                   *)

(* A message more at the end changes nothing of what is kept before it.    *)
LEMMA PassAgrees ==
    ASSUME NEW S, NEW q \in Seq(S), NEW m \in Seq(S), Len(q) <= Len(m),
           \A i \in 1..Len(q) : q[i] = m[i], NEW budget,
           NEW kept, IsPass(kept, q, budget, Len(q)), NEW other, IsPass(other, m, budget, Len(m))
    PROVE  \A i \in 0..Len(q) : kept[i] = other[i]
<1>1. PICK N \in Nat, M \in Nat : N = Len(q) /\ M = Len(m) /\ N <= M
  BY LenProperties
<1>2. ASSUME NEW i \in 0..N PROVE kept[i] = [spent \in 0..budget |-> Step(kept, q, i, spent, budget)]
  <2>1. kept = [j \in 0..N |-> [spent \in 0..budget |-> Step(kept, q, j, spent, budget)]]
    BY <1>1 DEF IsPass
  <2> QED  BY <2>1, Zenon
<1>3. ASSUME NEW i \in 0..M PROVE other[i] = [spent \in 0..budget |-> Step(other, m, i, spent, budget)]
  <2>1. other = [j \in 0..M |-> [spent \in 0..budget |-> Step(other, m, j, spent, budget)]]
    BY <1>1 DEF IsPass
  <2> QED  BY <2>1, Zenon
<1>4. ASSUME NEW i \in 0..N, \A j \in 0..i - 1 : kept[j] = other[j]
      PROVE  kept[i] = other[i]
  <2>1. ASSUME NEW spent
        PROVE  Step(kept, q, i, spent, budget) = Step(other, m, i, spent, budget)
    <3>1. i \in Nat
      OBVIOUS
    <3>2. Step(kept, q, i, spent, budget) = Step(other, q, i, spent, budget)
      BY <1>4, <3>1, StepLooksBack
    <3>3. CASE i = 0
      BY <3>2, <3>3 DEF Step
    <3>4. CASE i # 0
      <4>1. {j \in 1..i : q[j].role # "tool"} = {j \in 1..i : m[j].role # "tool"}
        BY <1>1
      <4>2. GroupStart(q, i) = GroupStart(m, i)
        BY <4>1 DEF GroupStart
      <4>3. PICK s \in 1..i : s = GroupStart(q, i) /\ s = GroupStart(m, i)
        BY <3>4, <4>2, Groups
      <4>4. SubSeq(q, s, i) = SubSeq(m, s, i)
        <5>1. PICK g, h : g = Group(q, i) /\ h = Group(m, i)
          OBVIOUS
        <5>2. i \in 1..Len(q) /\ i \in 1..Len(m)
          BY <1>1, <3>4
        <5>3. g \in Seq(S) /\ Len(g) = i - s + 1 /\ \A j \in 1..i - s + 1 : g[j] = q[s + j - 1]
          BY <4>3, <5>1, <5>2, GroupElements
        <5>4. h \in Seq(S) /\ Len(h) = i - s + 1 /\ \A j \in 1..i - s + 1 : h[j] = m[s + j - 1]
          BY <4>3, <5>1, <5>2, GroupElements
        <5>5. \A j \in 1..i - s + 1 : s + j - 1 \in 1..N
          BY <1>1
        <5>6. \A j \in 1..i - s + 1 : g[j] = h[j]
          BY <1>1, <5>3, <5>4, <5>5
        <5>7. g = h
          BY <5>3, <5>4, <5>6, SeqEqual
        <5> QED  BY <4>3, <5>1, <5>7 DEF Group
      <4>5. Step(other, q, i, spent, budget) = Step(other, m, i, spent, budget)
        BY <3>4, <4>3, <4>4 DEF Step
      <4> QED  BY <3>2, <4>5
    <3> QED  BY <3>3, <3>4
  <2>2. i \in 0..M
    BY <1>1
  <2>3. other[i] = [spent \in 0..budget |-> Step(other, m, i, spent, budget)]
    BY <1>3, <2>2
  <2>4. kept[i] = [spent \in 0..budget |-> Step(kept, q, i, spent, budget)]
    BY <1>2
  <2>5. kept[i] = [spent \in 0..budget |-> Step(other, m, i, spent, budget)]
    BY <2>1, <2>4, Zenon
  <2> QED  BY <2>3, <2>5, Zenon
<1>5. PICK T : T = {n \in Nat : \A i \in 0..n : i <= N => kept[i] = other[i]}
  OBVIOUS
<1>6. 0 \in T
  <2>1. kept[0] = other[0]
    BY <1>4
  <2>2. \A i \in 0..0 : i = 0
    OBVIOUS
  <2> QED  BY <1>5, <2>1, <2>2
<1>7. ASSUME NEW n \in Nat, n \in T PROVE n + 1 \in T
  <2>1. ASSUME NEW i \in 0..n + 1, i <= N PROVE kept[i] = other[i]
    <3>1. CASE i \in 0..n
      BY <1>5, <1>7, <2>1, <3>1
    <3>2. CASE i = n + 1
      <4>1. i \in 0..N /\ \A j \in 0..i - 1 : j \in 0..n /\ j <= N
        BY <1>1, <2>1, <3>2
      <4>2. \A j \in 0..i - 1 : kept[j] = other[j]
        BY <1>5, <1>7, <4>1
      <4> QED  BY <1>4, <4>1, <4>2
    <3> QED  BY <3>1, <3>2
  <2> QED  BY <1>5, <2>1
<1>8. T = Nat
  <2>1. \A n \in T : n + 1 \in T
    BY <1>5, <1>7
  <2> QED  BY <1>5, <1>6, <2>1, Induction
<1>9. N \in T /\ \A i \in 0..N : i <= N
  BY <1>8
<1> QED  BY <1>1, <1>5, <1>9

(* An end of an end.                                                       *)
LEMMA EndSplits ==
    ASSUME NEW S, NEW q \in Seq(S), NEW a \in 0..Len(q), NEW b \in 0..Len(q), a <= b
    PROVE  \E y \in Seq(S) : EndAfter(q, a) = y \o EndAfter(q, b)
<1>1. PICK N \in Nat : N = Len(q) /\ a \in 0..N /\ b \in 0..N /\ \A i \in 1..N : q[i] \in S
  BY LenProperties, ElementOfSeq
<1>2. PICK y : y = SubSeq(q, a + 1, b)
  OBVIOUS
<1>3. y \in Seq(S) /\ Len(y) = b - a /\ \A i \in 1..b - a : y[i] = q[a + i]
  <2>1. a + 1 \in Int /\ b \in Int /\ \A i \in a + 1..b : q[i] \in S
    BY <1>1
  <2>2. /\ y \in Seq(S) /\ Len(y) = (IF a + 1 <= b THEN b - (a + 1) + 1 ELSE 0)
        /\ \A i \in 1..b - (a + 1) + 1 : y[i] = q[(a + 1) + i - 1]
    BY <1>2, <2>1, SubSeqProperties
  <2>3. Len(y) = b - a
    BY <1>1, <2>2
  <2>4. ASSUME NEW i \in 1..b - a PROVE y[i] = q[a + i]
    <3>1. i \in 1..b - (a + 1) + 1 /\ (a + 1) + i - 1 = a + i
      BY <1>1
    <3> QED  BY <2>2, <3>1
  <2> QED  BY <2>2, <2>3, <2>4
<1>4. PICK x : x = EndAfter(q, b)
  OBVIOUS
<1>5. x \in Seq(S) /\ Len(x) = N - b /\ \A i \in 1..N - b : x[i] = q[b + i]
  BY <1>1, <1>4, EndElements
<1>6. PICK w : w = EndAfter(q, a)
  OBVIOUS
<1>7. w \in Seq(S) /\ Len(w) = N - a /\ \A i \in 1..N - a : w[i] = q[a + i]
  BY <1>1, <1>6, EndElements
<1>8. PICK z : z = y \o x
  OBVIOUS
<1>9. /\ z \in Seq(S) /\ Len(z) = (b - a) + (N - b)
      /\ \A i \in 1..(b - a) + (N - b) : z[i] = IF i <= b - a THEN y[i] ELSE x[i - (b - a)]
  <2>1. /\ z \in Seq(S) /\ Len(z) = Len(y) + Len(x)
        /\ \A i \in 1..Len(y) + Len(x) : z[i] = IF i <= Len(y) THEN y[i] ELSE x[i - Len(y)]
    BY <1>3, <1>5, <1>8, ConcatProperties
  <2> QED  BY <1>3, <1>5, <2>1
<1>10. (b - a) + (N - b) = N - a
  BY <1>1
<1>11. ASSUME NEW i \in 1..N - a PROVE w[i] = z[i]
  <2>1. CASE i <= b - a
    <3>1. i \in 1..b - a
      BY <1>1, <2>1
    <3> QED  BY <1>3, <1>7, <1>9, <1>10, <2>1, <3>1
  <2>2. CASE ~(i <= b - a)
    <3>1. i - (b - a) \in 1..N - b /\ b + (i - (b - a)) = a + i
      BY <1>1, <2>2
    <3> QED  BY <1>5, <1>7, <1>9, <1>10, <2>2, <3>1
  <2> QED  BY <2>1, <2>2
<1>12. w = z
  BY <1>7, <1>9, <1>10, <1>11, SeqEqual
<1> QED  BY <1>3, <1>4, <1>6, <1>8, <1>12

\* now is r after an end of what was kept before, or nothing.
KeepsEnd(before, now, r, S) ==
    \/ now = <<>>
    \/ \E x \in Seq(S), y \in Seq(S) : now = x \o <<r>> /\ before = y \o x

(* With a message more, which is no result, less of the rest is kept, and  *)
(* from the old end only.                                                  *)
LEMMA AppendForgets ==
    ASSUME NEW S, \A m \in S : m.tok \in Nat, NEW q \in Seq(S), NEW r \in S, r.role # "tool",
           NEW budget \in Nat, NEW system \in 0..budget
    PROVE  KeepsEnd(TrimMessages(system, q, budget), TrimMessages(system, Append(q, r), budget), r, S)
<1> SUFFICES \/ TrimMessages(system, Append(q, r), budget) = <<>>
             \/ \E x \in Seq(S), y \in Seq(S) :
                   /\ TrimMessages(system, Append(q, r), budget) = x \o <<r>>
                   /\ TrimMessages(system, q, budget) = y \o x
  BY DEF KeepsEnd
<1>1. PICK N \in Nat : N = Len(q)
  BY LenProperties
<1>2. PICK m : m = Append(q, r)
  OBVIOUS
<1>3. m \in Seq(S) /\ Len(m) = N + 1 /\ (\A i \in 1..N : q[i] = m[i]) /\ m[N + 1] = r
  BY <1>1, <1>2, AppendProperties
<1>4. PICK kept : IsPass(kept, q, budget, N) /\ TrimMessages(system, q, budget) = kept[N][system]
  BY <1>1, TrimMessagesIs
<1>5. PICK other : IsPass(other, m, budget, N + 1) /\ TrimMessages(system, m, budget) = other[N + 1][system]
  BY <1>3, TrimMessagesIs
<1>6. ASSUME NEW k, IsPass(k, q, budget, N) PROVE k[N] = other[N]
  <2>1. Len(q) <= Len(m) /\ N \in 0..Len(q)
    BY <1>1, <1>3
  <2>2. \A i \in 0..Len(q) : k[i] = other[i]
    BY <1>1, <1>3, <1>5, <1>6, <2>1, PassAgrees
  <2> QED  BY <2>1, <2>2
<1>7. other[N + 1][system] = Step(other, m, N + 1, system, budget)
  <2>1. other = [i \in 0..N + 1 |-> [spent \in 0..budget |-> Step(other, m, i, spent, budget)]]
    BY <1>5 DEF IsPass
  <2>2. N + 1 \in 0..N + 1
    OBVIOUS
  <2>3. other[N + 1] = [spent \in 0..budget |-> Step(other, m, N + 1, spent, budget)]
    BY <2>1, <2>2, Zenon
  <2> QED  BY <2>3, Zenon
<1>8. GroupStart(m, N + 1) = N + 1
  <2>1. N + 1 \in Nat \ {0} /\ N + 1 \in 1..N + 1 /\ \A j \in (N + 1) + 1..N + 1 : FALSE
    OBVIOUS
  <2>2. m[N + 1].role # "tool"
    BY <1>3
  <2> QED  BY <2>1, <2>2, GroupIs
<1>9. SubSeq(m, N + 1, N + 1) = <<r>>
  <2>1. PICK g : g = SubSeq(m, N + 1, N + 1)
    OBVIOUS
  <2>2. g \in Seq(S) /\ Len(g) = 1 /\ g[1] = r
    <3>1. N + 1 \in Int /\ (\A i \in N + 1..N + 1 : m[i] \in S)
      BY <1>3
    <3>2. /\ g \in Seq(S) /\ Len(g) = (IF N + 1 <= N + 1 THEN (N + 1) - (N + 1) + 1 ELSE 0)
          /\ \A i \in 1..(N + 1) - (N + 1) + 1 : g[i] = m[(N + 1) + i - 1]
      BY <2>1, <3>1, SubSeqProperties
    <3>3. (N + 1) - (N + 1) + 1 = 1 /\ N + 1 <= N + 1 /\ (N + 1) + 1 - 1 = N + 1
      OBVIOUS
    <3> QED  BY <1>3, <3>2, <3>3
  <2>3. g = <<r>>
    BY <2>2
  <2> QED  BY <2>1, <2>3
<1>10. PICK g \in Seq(S) : g = <<r>> /\ Len(g) = 1 /\ g[1] = r
  <2>1. <<r>> \in Seq(S) /\ Len(<<r>>) = 1 /\ <<r>>[1] = r
    OBVIOUS
  <2> QED  BY <2>1
<1>11. ~Orphaned(g)
  BY <1>10 DEF Orphaned, Last
<1>12. Cost(g) \in Nat
  BY <1>10, CostOfConcat
<1>13. other[N + 1][system] = IF system + Cost(g) <= budget
                              THEN other[N][system + Cost(g)] \o g ELSE <<>>
  <2>1. N + 1 # 0 /\ (N + 1) - 1 = N
    OBVIOUS
  <2> QED  BY <1>7, <1>8, <1>9, <1>10, <1>11, <2>1 DEF Step
<1>14. CASE ~(system + Cost(g) <= budget)
  BY <1>2, <1>5, <1>13, <1>14
<1>15. CASE system + Cost(g) <= budget
  <2>1. PICK later \in 0..budget : later = system + Cost(g) /\ system <= later
    <3>1. system + Cost(g) \in 0..budget /\ system <= system + Cost(g)
      BY <1>12, <1>15
    <3> QED  BY <3>1
  <2>2. PICK x : x = TrimMessages(later, q, budget)
    OBVIOUS
  <2>3. PICK w : w = TrimMessages(system, q, budget)
    OBVIOUS
  <2>4. x = kept[N][later]
    <3>1. PICK k : IsPass(k, q, budget, N) /\ TrimMessages(later, q, budget) = k[N][later]
      BY <1>1, TrimMessagesIs
    <3>2. k[N] = other[N] /\ kept[N] = other[N]
      BY <1>4, <1>6, <3>1
    <3> QED  BY <2>2, <3>1, <3>2
  <2>5. TrimMessages(system, m, budget) = x \o g
    BY <1>4, <1>5, <1>6, <1>13, <1>15, <2>1, <2>4
  <2>6. PICK c \in Seq(S) : c = Complete(q)
    BY CompleteIsSequence
  <2>7. PICK a \in 0..Len(c) : /\ w = EndAfter(c, a)
          /\ \A i \in 0..Len(c) : MayShow(EndAfter(c, i), system, budget) => a <= i
    <3>1. IsLongestEnd(w, c, system, budget)
      BY <2>3, <2>6, TrimIsLongestEnd
    <3> QED  BY <3>1 DEF IsLongestEnd
  <2>8. PICK b \in 0..Len(c) : x = EndAfter(c, b) /\ MayShow(x, later, budget)
    <3>1. IsLongestEnd(x, c, later, budget)
      BY <2>2, <2>6, TrimIsLongestEnd
    <3> QED  BY <3>1 DEF IsLongestEnd
  <2>9. x \in Seq(S)
    BY <2>6, <2>8, EndElements
  <2>10. a <= b
    <3>1. <<>> \in Seq(S)
      BY EmptySeq
    <3>2. Cost(x) \in Nat
      BY <2>9, <3>1, CostOfConcat
    <3>3. system + Cost(x) <= budget
      BY <2>1, <2>8, <3>2 DEF MayShow
    <3>4. MayShow(EndAfter(c, b), system, budget)
      BY <2>8, <3>3 DEF MayShow
    <3> QED  BY <2>7, <3>4
  <2>11. PICK y \in Seq(S) : w = y \o x
    BY <2>6, <2>7, <2>8, <2>10, EndSplits
  <2> QED  BY <1>2, <1>10, <2>3, <2>5, <2>9, <2>11
<1> QED  BY <1>14, <1>15

-----------------------------------------------------------------------------
\* The places of what is no repair message.
Original(q) == {i \in 1..Len(q) : q[i].role # "repair"}

(* Picking by role takes two sequences one by one.                         *)
LEMMA UnrepairedConcat ==
    ASSUME NEW S, NEW u \in Seq(S), NEW v \in Seq(S)
    PROVE  /\ Unrepaired(u \o v) = Unrepaired(u) \o Unrepaired(v)
           /\ Unrepaired(u) \in Seq(S) /\ Unrepaired(v) \in Seq(S)
<1>1. PICK K \in Nat, L \in Nat : K = Len(u) /\ L = Len(v)
  BY LenProperties
<1>2. PICK q : q = u \o v
  OBVIOUS
<1>3. /\ q \in Seq(S) /\ Len(q) = K + L
      /\ \A i \in 1..K + L : q[i] = IF i <= K THEN u[i] ELSE v[i - K]
  BY <1>1, <1>2, ConcatProperties
<1>4. PICK f : IsPicked(f, q, Original(q), Len(q)) /\ Picked(q, Original(q)) = f[Len(q)]
  <2>1. Len(q) \in Nat
    BY <1>1, <1>3
  <2> QED  BY <2>1, PickedIs
<1>5. PICK h : IsPicked(h, u, Original(u), Len(u)) /\ Picked(u, Original(u)) = h[Len(u)]
  BY <1>1, PickedIs
<1>6. PICK g : IsPicked(g, v, Original(v), Len(v)) /\ Picked(v, Original(v)) = g[Len(v)]
  BY <1>1, PickedIs
<1>7. Unrepaired(q) = f[K + L] /\ Unrepaired(u) = h[K] /\ Unrepaired(v) = g[L]
  BY <1>1, <1>3, <1>4, <1>5, <1>6 DEF Unrepaired, Original
<1>8. /\ f[0] = <<>>
      /\ \A n \in 1..K + L : f[n] = IF n \in Original(q) THEN Append(f[n - 1], q[n]) ELSE f[n - 1]
  BY <1>3, <1>4, PickedGrows
<1>9. /\ h[0] = <<>> /\ \A n \in 0..K : h[n] \in Seq(S)
      /\ \A n \in 1..K : h[n] = IF n \in Original(u) THEN Append(h[n - 1], u[n]) ELSE h[n - 1]
  BY <1>1, <1>5, PickedGrows
<1>10. /\ g[0] = <<>> /\ \A n \in 0..L : g[n] \in Seq(S)
       /\ \A n \in 1..L : g[n] = IF n \in Original(v) THEN Append(g[n - 1], v[n]) ELSE g[n - 1]
  BY <1>1, <1>6, PickedGrows
<1>11. f[K] = h[K]
  <2>1. PICK T : T = {n \in Nat : n <= K => f[n] = h[n]}
    OBVIOUS
  <2>2. 0 \in T
    BY <1>8, <1>9, <2>1
  <2>3. ASSUME NEW n \in Nat, n \in T PROVE n + 1 \in T
    <3>1. CASE n + 1 <= K
      <4>1. PICK i \in 1..K : i = n + 1 /\ i - 1 = n
        <5>1. n + 1 \in 1..K /\ (n + 1) - 1 = n
          BY <3>1
        <5> QED  BY <5>1
      <4>2. i \in 1..K + L /\ i <= K /\ q[i] = u[i]
        BY <1>3, <4>1
      <4>3. i \in Original(q) <=> i \in Original(u)
        BY <1>1, <1>3, <4>1, <4>2 DEF Original
      <4>4. f[n] = h[n]
        BY <2>1, <2>3, <3>1
      <4>5. f[i] = h[i]
        BY <1>8, <1>9, <4>1, <4>2, <4>3, <4>4
      <4> QED  BY <2>1, <4>1, <4>5
    <3>2. CASE ~(n + 1 <= K)
      BY <2>1, <3>2
    <3> QED  BY <3>1, <3>2
  <2>4. T = Nat
    <3>1. \A n \in T : n + 1 \in T
      BY <2>1, <2>3
    <3> QED  BY <2>1, <2>2, <3>1, Induction
  <2>5. K \in T /\ K <= K
    BY <2>4
  <2> QED  BY <2>1, <2>5
<1>12. PICK p \in Seq(S) : p = h[K]
  BY <1>9
<1>13. f[K + L] = p \o g[L]
  <2>1. PICK T : T = {n \in Nat : n <= L => f[K + n] = p \o g[n]}
    OBVIOUS
  <2>2. 0 \in T
    <3>1. K + 0 = K /\ p \o <<>> = p
      BY ConcatEmptySeq
    <3> QED  BY <1>10, <1>11, <1>12, <2>1, <3>1
  <2>3. ASSUME NEW n \in Nat, n \in T PROVE n + 1 \in T
    <3>1. CASE n + 1 <= L
      <4>1. PICK i \in 1..L : i = n + 1 /\ i - 1 = n
        <5>1. n + 1 \in 1..L /\ (n + 1) - 1 = n
          BY <3>1
        <5> QED  BY <5>1
      <4>2. PICK k \in 1..K + L : k = K + i /\ ~(k <= K) /\ k - K = i /\ k - 1 = K + n
        <5>1. K + i \in 1..K + L /\ ~(K + i <= K) /\ (K + i) - K = i /\ (K + i) - 1 = K + n
          BY <4>1
        <5> QED  BY <5>1
      <4>3. q[k] = v[i]
        BY <1>3, <4>2
      <4>4. k \in Original(q) <=> i \in Original(v)
        BY <1>1, <1>3, <4>2, <4>3 DEF Original
      <4>5. PICK t \in Seq(S), e \in S : t = g[n] /\ e = v[i]
        <5>1. n \in 0..L
          BY <4>1
        <5>2. g[n] \in Seq(S) /\ v[i] \in S
          BY <1>1, <1>10, <5>1, ElementOfSeq
        <5> QED  BY <5>2
      <4>6. f[k - 1] = p \o t
        <5>1. n <= L
          BY <4>1
        <5>2. f[K + n] = p \o g[n]
          BY <2>1, <2>3, <5>1
        <5> QED  BY <4>2, <4>5, <5>2
      <4>7. p \o Append(t, e) = Append(p \o t, e)
        <5>1. <<e>> \in Seq(S)
          OBVIOUS
        <5>2. p \o t \in Seq(S)
          BY ConcatProperties
        <5>3. p \o (t \o <<e>>) = (p \o t) \o <<e>>
          BY <5>1, ConcatAssociative
        <5>4. Append(t, e) = t \o <<e>> /\ Append(p \o t, e) = (p \o t) \o <<e>>
          BY <5>2, AppendIsConcat
        <5> QED  BY <5>3, <5>4
      <4>8. f[k] = IF k \in Original(q) THEN Append(p \o t, e) ELSE p \o t
        BY <1>8, <4>3, <4>5, <4>6
      <4>9. g[i] = IF i \in Original(v) THEN Append(t, e) ELSE t
        BY <1>10, <4>1, <4>5
      <4>10. f[k] = p \o g[i]
        BY <4>4, <4>7, <4>8, <4>9
      <4> QED  BY <2>1, <4>1, <4>2, <4>10
    <3>2. CASE ~(n + 1 <= L)
      BY <2>1, <3>2
    <3> QED  BY <3>1, <3>2
  <2>4. T = Nat
    <3>1. \A n \in T : n + 1 \in T
      BY <2>1, <2>3
    <3> QED  BY <2>1, <2>2, <3>1, Induction
  <2>5. L \in T /\ L <= L
    BY <2>4
  <2> QED  BY <2>1, <2>5
<1>14. h[K] \in Seq(S) /\ g[L] \in Seq(S)
  BY <1>9, <1>10
<1> QED  BY <1>2, <1>7, <1>12, <1>13, <1>14

(* The repair message is not of the conversation.                          *)
LEMMA RepairIsNotOriginal ==
    ASSUME NEW S, NEW r \in S, r.role = "repair"
    PROVE  Unrepaired(<<r>>) = <<>>
<1>1. PICK q \in Seq(S) : q = <<r>> /\ Len(q) = 1 /\ q[1] = r
  <2>1. <<r>> \in Seq(S) /\ Len(<<r>>) = 1 /\ <<r>>[1] = r
    OBVIOUS
  <2> QED  BY <2>1
<1>2. PICK f : IsPicked(f, q, Original(q), Len(q)) /\ Picked(q, Original(q)) = f[Len(q)]
  BY <1>1, PickedIs
<1>3. Len(q) \in 0..Len(q) /\ 0 \in 0..Len(q) /\ 0 <= Len(q)
  BY <1>1
<1>4. NoneChosen(Original(q), 0, Len(q))
  BY <1>1 DEF NoneChosen, Original
<1>5. f[Len(q)] = f[0]
  BY <1>2, <1>3, <1>4, PickedNone
<1>6. f[0] = <<>>
  BY <1>2, PickedGrows
<1> QED  BY <1>1, <1>2, <1>5, <1>6 DEF Unrepaired, Original

(* What comes last is a suffix.                                            *)
LEMMA EndIsSuffix ==
    ASSUME NEW S, NEW u \in Seq(S), NEW v \in Seq(S)
    PROVE  IsSuffix(v, u \o v)
<1>1. PICK K \in Nat, L \in Nat : K = Len(u) /\ L = Len(v)
  BY LenProperties
<1>2. PICK q : q = u \o v
  OBVIOUS
<1>3. /\ q \in Seq(S) /\ Len(q) = K + L
      /\ \A i \in 1..K + L : q[i] = IF i <= K THEN u[i] ELSE v[i - K]
  BY <1>1, <1>2, ConcatProperties
<1>4. PICK x : x = Reverse(v)
  OBVIOUS
<1>5. x = [i \in 1..L |-> v[(L - i) + 1]]
  BY <1>1, <1>4 DEF Reverse
<1>6. PICK y : y = Reverse(q)
  OBVIOUS
<1>7. y = [i \in 1..K + L |-> q[((K + L) - i) + 1]]
  BY <1>3, <1>6 DEF Reverse
<1>8. x \in Seq(S) /\ Len(x) = L
  <2>1. \A i \in 1..L : (L - i) + 1 \in 1..L
    OBVIOUS
  <2>2. \A i \in 1..L : v[(L - i) + 1] \in S
    BY <1>1, <2>1, ElementOfSeq
  <2>3. x \in [1..L -> S]
    BY <1>5, <2>2
  <2> QED  BY <2>3
<1>9. y \in Seq(S) /\ Len(y) = K + L
  <2>1. \A i \in 1..K + L : ((K + L) - i) + 1 \in 1..K + L
    OBVIOUS
  <2>2. \A i \in 1..K + L : q[((K + L) - i) + 1] \in S
    BY <1>3, <2>1, ElementOfSeq
  <2>3. y \in [1..K + L -> S]
    BY <1>7, <2>2
  <2> QED  BY <2>3
<1>10. ASSUME NEW i \in 1..L PROVE x[i] = y[i] /\ x[i] \in S /\ y[i] \in S
  <2>1. i \in 1..K + L /\ ((K + L) - i) + 1 \in 1..K + L /\ ~(((K + L) - i) + 1 <= K)
        /\ (((K + L) - i) + 1) - K = (L - i) + 1
    OBVIOUS
  <2>2. y[i] = v[(L - i) + 1]
    BY <1>3, <1>7, <2>1
  <2>3. x[i] \in S
    BY <1>8, ElementOfSeq
  <2> QED  BY <1>5, <2>2, <2>3
<1>11. SubSeq(x, 1, L) = SubSeq(y, 1, L)
  <2>1. PICK a, b : a = SubSeq(x, 1, L) /\ b = SubSeq(y, 1, L)
    OBVIOUS
  <2>2. /\ a \in Seq(S) /\ Len(a) = (IF 1 <= L THEN L - 1 + 1 ELSE 0)
        /\ \A i \in 1..L - 1 + 1 : a[i] = x[1 + i - 1]
    BY <1>10, <2>1, SubSeqProperties
  <2>3. /\ b \in Seq(S) /\ Len(b) = (IF 1 <= L THEN L - 1 + 1 ELSE 0)
        /\ \A i \in 1..L - 1 + 1 : b[i] = y[1 + i - 1]
    BY <1>10, <2>1, SubSeqProperties
  <2>4. L - 1 + 1 = L /\ (IF 1 <= L THEN L - 1 + 1 ELSE 0) = L /\ \A i \in 1..L : 1 + i - 1 = i
    OBVIOUS
  <2>5. \A i \in 1..L : a[i] = b[i]
    BY <1>10, <2>2, <2>3, <2>4
  <2>6. a = b
    BY <2>2, <2>3, <2>4, <2>5, SeqEqual
  <2> QED  BY <2>1, <2>6
<1>12. IsPrefix(x, y)
  BY <1>8, <1>9, <1>11 DEF IsPrefix
<1> QED  BY <1>2, <1>4, <1>6, <1>12 DEF IsSuffix

(* What a retry sends of the conversation is an end of what was sent       *)
(* before, and its own message is the last.                                *)
LEMMA RetryForgets ==
    ASSUME NEW S, \A m \in S : m.tok \in Nat, NEW q \in Seq(S), NEW r \in S, r.role = "repair",
           NEW budget \in Nat, NEW system \in 0..budget,
           NEW before, before = TrimMessages(system, q, budget),
           NEW now, now = TrimMessages(system, Append(q, r), budget)
    PROVE  /\ now # <<>> => Last(now).role = "repair"
           /\ IsSuffix(Unrepaired(now), Unrepaired(before))
<1>1. now = <<>> \/ \E x \in Seq(S), y \in Seq(S) : now = x \o <<r>> /\ before = y \o x
  <2>1. r.role # "tool"
    OBVIOUS
  <2>2. KeepsEnd(before, now, r, S)
    BY <2>1, AppendForgets
  <2> QED  BY <2>2 DEF KeepsEnd
<1>2. CASE now = <<>>
  <2>1. before \in Seq(S) /\ now \in Seq(S)
    BY <1>2, TrimIsLongestComplete, EmptySeq
  <2>2. Unrepaired(before) \in Seq(S)
    BY <2>1, UnrepairedConcat
  <2>3. PICK f : IsPicked(f, now, Original(now), Len(now)) /\ Picked(now, Original(now)) = f[Len(now)]
    BY <2>1, LenProperties, PickedIs
  <2>4. Unrepaired(now) = <<>>
    <3>1. Len(now) = 0
      BY <1>2, EmptySeq
    <3>2. f[0] = <<>>
      BY <2>1, <2>3, PickedGrows
    <3> QED  BY <2>3, <3>1, <3>2 DEF Unrepaired, Original
  <2>5. <<>> \in Seq(S) /\ Unrepaired(before) \o <<>> = Unrepaired(before)
    BY <2>2, EmptySeq, ConcatEmptySeq
  <2>6. IsSuffix(<<>>, Unrepaired(before) \o <<>>)
    BY <2>2, <2>5, EndIsSuffix
  <2> QED  BY <1>2, <2>4, <2>5, <2>6
<1>3. CASE \E x \in Seq(S), y \in Seq(S) : now = x \o <<r>> /\ before = y \o x
  <2>1. PICK x \in Seq(S), y \in Seq(S) : now = x \o <<r>> /\ before = y \o x
    BY <1>3
  <2>2. PICK g \in Seq(S) : g = <<r>> /\ Len(g) = 1 /\ g[1] = r
    <3>1. <<r>> \in Seq(S) /\ Len(<<r>>) = 1 /\ <<r>>[1] = r
      OBVIOUS
    <3> QED  BY <3>1
  <2>3. PICK K \in Nat : K = Len(x)
    BY LenProperties
  <2>4. Last(now) = r
    <3>1. Len(now) = K + 1 /\ now[K + 1] = IF K + 1 <= K THEN x[K + 1] ELSE g[(K + 1) - K]
      <4>1. K + 1 \in 1..Len(x) + Len(g)
        BY <2>2, <2>3
      <4>2. /\ Len(now) = Len(x) + Len(g)
            /\ now[K + 1] = IF K + 1 <= Len(x) THEN x[K + 1] ELSE g[(K + 1) - Len(x)]
        BY <2>1, <2>2, <4>1, ConcatProperties
      <4> QED  BY <2>2, <2>3, <4>2
    <3>2. ~(K + 1 <= K) /\ (K + 1) - K = 1
      OBVIOUS
    <3> QED  BY <2>2, <3>1, <3>2 DEF Last
  <2>5. Unrepaired(now) = Unrepaired(x)
    <3>1. Unrepaired(x \o g) = Unrepaired(x) \o Unrepaired(g) /\ Unrepaired(x) \in Seq(S)
      BY UnrepairedConcat
    <3>2. Unrepaired(g) = <<>>
      BY <2>2, RepairIsNotOriginal
    <3>3. Unrepaired(x) \o <<>> = Unrepaired(x)
      BY <3>1, ConcatEmptySeq
    <3> QED  BY <2>1, <2>2, <3>1, <3>2, <3>3
  <2>6. /\ Unrepaired(before) = Unrepaired(y) \o Unrepaired(x)
        /\ Unrepaired(y) \in Seq(S) /\ Unrepaired(x) \in Seq(S)
    BY <2>1, UnrepairedConcat
  <2>7. IsSuffix(Unrepaired(x), Unrepaired(y) \o Unrepaired(x))
    BY <2>6, EndIsSuffix
  <2> QED  BY <2>4, <2>5, <2>6, <2>7
<1> QED  BY <1>1, <1>2, <1>3

-----------------------------------------------------------------------------
(* What the provider gets.                                                 *)

(* A budget is a natural number, whatever is reserved of the window.       *)
LEMMA BudgetIsNatural ==
    ASSUME NEW w \in Nat, NEW reserved \in Nat
    PROVE  BuildContextBudget(w, reserved) \in Nat
<1>1. PICK input : input = (3 * w) \div 4 - reserved
  OBVIOUS
<1>2. input \in Int
  BY <1>1
<1> QED  BY <1>1, <1>2 DEF BuildContextBudget

(* Messages have token counts.                                             *)
LEMMA MessagesCost == \A m \in Messages : m.tok \in Nat
  BY DEF Messages

Asked(prompt) == IF prompt = 0 THEN <<>> ELSE <<[role |-> "user", tok |-> prompt]>>

(* A function from 1 to N is a sequence.                                   *)
LEMMA FunctionIsSequence ==
    ASSUME NEW S, NEW N \in Nat, NEW c \in [1..N -> S]
    PROVE  c \in Seq(S) /\ Len(c) = N
  OBVIOUS

(* The prompt costs its tokens and needs nothing before it.                *)
LEMMA AskedCosts ==
    ASSUME NEW prompt \in Nat
    PROVE  Asked(prompt) \in Seq(Messages) /\ NoOrphan(Asked(prompt)) /\ Cost(Asked(prompt)) = prompt
<1>1. CASE prompt = 0
  <2>1. <<>> \in Seq(Messages) /\ Cost(<<>>) = 0 /\ NoOrphan(<<>>)
    BY MessagesCost, EmptyIsFree
  <2> QED  BY <1>1, <2>1 DEF Asked
<1>2. CASE prompt # 0
  <2>1. PICK m : m = [role |-> "user", tok |-> prompt]
    OBVIOUS
  <2>2. m \in Messages /\ m.role = "user" /\ m.tok = prompt
    BY <2>1 DEF Messages, Roles
  <2>3. PICK q \in Seq(Messages) : q = <<m>> /\ Len(q) = 1 /\ q[1] = m
    <3>1. <<m>> \in Seq(Messages) /\ Len(<<m>>) = 1 /\ <<m>>[1] = m
      BY <2>2
    <3> QED  BY <3>1
  <2>4. NoOrphan(q)
    <3>1. DOMAIN q = 1..1
      BY <2>3, LenProperties
    <3>2. \A i \in DOMAIN q : q[i].role # "tool"
      BY <2>2, <2>3, <3>1
    <3> QED  BY <3>2 DEF NoOrphan
  <2>5. Cost(q) = prompt
    <3>1. PICK c : c = [i \in 1..Len(q) |-> q[i].tok]
      OBVIOUS
    <3>2. c = [i \in 1..1 |-> q[i].tok]
      BY <2>3, <3>1
    <3>3. c[1] = prompt /\ c \in [1..1 -> Nat]
      BY <2>2, <2>3, <3>2
    <3>4. c \in Seq(Nat) /\ Len(c) = 1
      BY <3>3, FunctionIsSequence
    <3>5. PICK f : IsSum(f, c, 1) /\ SumOf(c) = f[1]
      <4>1. Len(c) \in Nat
        BY <3>4
      <4>2. \E f : IsSum(f, c, Len(c)) /\ SumOf(c) = f[Len(c)]
        BY <4>1, SumOfIsSum
      <4> QED  BY <3>4, <4>2
    <3>6. f[0] = 0 /\ f[1] = f[0] + c[1]
      <4>1. \A i \in 1..1 : c[i] \in Nat
        BY <3>3
      <4>2. f[0] = 0 /\ \A i \in 1..1 : f[i] = f[i - 1] + c[i]
        BY <3>5, <4>1, SumsGrow
      <4>3. 1 \in 1..1 /\ 1 - 1 = 0
        OBVIOUS
      <4>4. f[1] = f[1 - 1] + c[1]
        BY <4>2, <4>3
      <4> QED  BY <4>2, <4>3, <4>4
    <3>7. SumOf(c) = prompt
      BY <3>3, <3>5, <3>6
    <3> QED  BY <3>1, <3>7 DEF Cost
  <2> QED  BY <1>2, <2>1, <2>3, <2>4, <2>5 DEF Asked
<1> QED  BY <1>1, <1>2

Honestly(blocks) == \A i \in DOMAIN blocks : Honest(blocks[i])

(* What the facade asks is a conversation, and if it was counted rightly,  *)
(* complete and within the budget.                                         *)
LEMMA AskedFits ==
    ASSUME NEW blocks \in Histories, NEW sys \in Nat, NEW prompt \in Nat, NEW budget \in Nat,
           sys + prompt <= budget,
           NEW q, q = FlattenBlocks(TrimContextBlocks(blocks, sys + prompt, budget)) \o Asked(prompt)
    PROVE  /\ q \in Seq(Messages)
           /\ Honestly(blocks) => NoOrphan(q) /\ sys + Cost(q) <= budget
<1>1. PICK Blocks : Blocks = [messages : Seq(Messages), stored : Nat]
  OBVIOUS
<1>2. blocks \in Seq(Blocks)
  BY <1>1, CompletionAssumption
<1>3. PICK n \in 0..Len(blocks) :
        /\ TrimContextBlocks(blocks, sys + prompt, budget) = NewestBlocks(blocks, n)
        /\ (sys + prompt) + BlocksCost(NewestBlocks(blocks, n)) <= budget
  <2>1. sys + prompt \in Nat
    OBVIOUS
  <2> QED  BY <1>2, <2>1, KeptBlocksFit
<1>4. PICK kept : kept = NewestBlocks(blocks, n)
  OBVIOUS
<1>5. /\ Len(kept) = n
      /\ \A i \in 1..n : kept[i] \in Blocks
      /\ \A i \in 1..n : \E j \in 1..Len(blocks) : kept[i] = blocks[j]
  <2>1. PICK known \in Seq(Blocks) : known = blocks
    BY <1>2
  <2>2. n \in 0..Len(known) /\ kept = NewestBlocks(known, n)
    BY <1>4, <2>1
  <2>3. Len(kept) = n /\ \A i \in 1..n : kept[i] \in Blocks
    BY <2>2, NewestBlocksElements
  <2>4. AreAmong(kept, known)
    BY <2>2, NewestBlocksElements
  <2> QED  BY <2>1, <2>3, <2>4 DEF AreAmong
<1>6. n \in Nat
  BY <1>2, LenProperties
<1>7. \A i \in 1..Len(kept) : kept[i].messages \in Seq(Messages) /\ kept[i].stored \in Nat
  BY <1>1, <1>5
<1>8. PICK history : history = FlattenBlocks(kept)
  OBVIOUS
<1>9. history \in Seq(Messages)
  BY <1>5, <1>6, <1>7, <1>8, FlattenIsSequence
<1>10. PICK asked : asked = Asked(prompt)
  OBVIOUS
<1>11. asked \in Seq(Messages) /\ NoOrphan(asked) /\ Cost(asked) = prompt
  BY <1>10, AskedCosts
<1>12. q = history \o asked
  BY <1>3, <1>4, <1>8, <1>10
<1>13. q \in Seq(Messages)
  BY <1>9, <1>11, <1>12, ConcatProperties
<1>14. ASSUME Honestly(blocks) PROVE NoOrphan(q) /\ sys + Cost(q) <= budget
  <2>1. ASSUME NEW i \in 1..Len(kept)
        PROVE  /\ NoOrphan(kept[i].messages)
               /\ BlockCost(kept[i]) = Cost(kept[i].messages)
    <3>1. PICK j \in 1..Len(blocks) : kept[i] = blocks[j]
      BY <1>5
    <3>2. j \in DOMAIN blocks
      BY <1>2, LenProperties
    <3>3. kept[i].stored \in {0, Cost(kept[i].messages)} /\ NoOrphan(kept[i].messages)
      BY <1>14, <3>1, <3>2 DEF Honestly, Honest
    <3>4. BlockCost(kept[i]) = Cost(kept[i].messages)
      BY <1>7, <3>3 DEF BlockCost
    <3> QED  BY <3>3, <3>4
  <2>2. NoOrphan(history) /\ Cost(history) = BlocksCost(kept)
    BY <1>5, <1>6, <1>7, <1>8, <2>1, MessagesCost, FlattenCosts
  <2>3. NoOrphan(history \o asked)
    BY <1>9, <1>11, <2>2, NoOrphanConcat
  <2>4. Cost(history \o asked) = Cost(history) + Cost(asked) /\ Cost(history) \in Nat
    BY <1>9, <1>11, MessagesCost, CostOfConcat
  <2>5. (sys + prompt) + Cost(history) <= budget
    BY <1>3, <1>4, <2>2
  <2>6. sys + (Cost(history) + prompt) <= budget
    BY <2>4, <2>5
  <2> QED  BY <1>11, <1>12, <2>3, <2>4, <2>6
<1> QED  BY <1>13, <1>14

(* At first everything has its type.                                       *)
LEMMA InitTypes == ASSUME Init PROVE TypeOK
<1> USE CompletionAssumption DEF Init, Blank, NoResponse
<1>1. <<>> \in Seq(Messages)
  BY EmptySeq
<1>2. request \in [system : Nat, messages : Seq(Messages), schema : Schemas,
                   reserved : Nat, maxRetries : Nat]
  BY <1>1 DEF Schemas
<1>3. attempts \in 0..request.maxRetries
  BY <1>2
<1> QED  BY <1>1, <1>2, <1>3 DEF TypeOK

(* The request of the facade: either it is in order, or it is not made.    *)
LEMMA ModelAskMakes ==
    ASSUME TypeOK, ModelAsk
    PROVE  \/ pc' = "done" /\ result' = "overflow" /\ UNCHANGED <<request, exact>>
           \/ /\ pc' = "call" /\ UNCHANGED result /\ exact' \in BOOLEAN
              /\ request' \in [system : Nat, messages : Seq(Messages), schema : Schemas,
                               reserved : Nat, maxRetries : Nat]
              /\ request'.reserved = DefaultReserve
              /\ exact' => /\ window = ModelWindow /\ NoOrphan(request'.messages)
                           /\ request'.system + Cost(request'.messages)
                                <= BuildContextBudget(ModelWindow, DefaultReserve)
<1>a. PICK budget : budget = BuildContextBudget(window, DefaultReserve)
  OBVIOUS
<1>b. PICK blocks \in Histories, sys \in SystemCosts, prompt \in PromptCosts :
        IF sys + prompt > budget
        THEN /\ pc' = "done" /\ result' = "overflow"
             /\ UNCHANGED <<request, exact>>
        ELSE /\ pc' = "call"
             /\ request' = [Blank EXCEPT !.system = sys,
                   !.messages = FlattenBlocks(TrimContextBlocks(blocks, sys + prompt, budget))
                                  \o Asked(prompt)]
             /\ exact' = (window = ModelWindow /\ \A i \in DOMAIN blocks : Honest(blocks[i]))
             /\ UNCHANGED result
  BY <1>a DEF ModelAsk, Asked
<1>1. PICK q :
        /\ budget = BuildContextBudget(window, DefaultReserve)
        /\ q = FlattenBlocks(TrimContextBlocks(blocks, sys + prompt, budget)) \o Asked(prompt)
        /\ IF sys + prompt > budget
           THEN /\ pc' = "done" /\ result' = "overflow"
                /\ UNCHANGED <<request, exact>>
           ELSE /\ pc' = "call"
                /\ request' = [Blank EXCEPT !.system = sys, !.messages = q]
                /\ exact' = (window = ModelWindow /\ \A i \in DOMAIN blocks : Honest(blocks[i]))
                /\ UNCHANGED result
  BY <1>a, <1>b
<1>2. sys \in Nat /\ prompt \in Nat /\ budget \in Nat /\ window \in Nat
  <2>1. sys \in Nat /\ prompt \in Nat /\ DefaultReserve \in Nat /\ window \in Nat
    BY CompletionAssumption DEF TypeOK
  <2>2. budget \in Nat
    BY <1>1, <2>1, BudgetIsNatural
  <2> QED  BY <2>1, <2>2
<1>3. CASE sys + prompt > budget
  BY <1>1, <1>3
<1>4. CASE ~(sys + prompt > budget)
  <2>1. sys + prompt <= budget
    BY <1>2, <1>4
  <2>2. q \in Seq(Messages) /\ (Honestly(blocks) => NoOrphan(q) /\ sys + Cost(q) <= budget)
    BY <1>1, <1>2, <2>1, AskedFits
  <2>3. request' = [system |-> sys, messages |-> q, schema |-> "none",
                    reserved |-> DefaultReserve, maxRetries |-> DefaultRetries]
    BY <1>1, <1>4 DEF Blank
  <2>4. /\ request' \in [system : Nat, messages : Seq(Messages), schema : Schemas,
                         reserved : Nat, maxRetries : Nat]
        /\ request'.reserved = DefaultReserve /\ request'.messages = q /\ request'.system = sys
    BY <1>2, <2>2, <2>3, CompletionAssumption DEF Schemas
  <2>5. pc' = "call" /\ UNCHANGED result
    BY <1>1, <1>4
  <2>6. exact' = (window = ModelWindow /\ Honestly(blocks))
    BY <1>1, <1>4 DEF Honestly
  <2>7. exact' \in BOOLEAN
    BY <2>6
  <2>8. exact' => window = ModelWindow /\ NoOrphan(q) /\ sys + Cost(q) <= budget
    BY <2>2, <2>6
  <2>9. exact' => /\ window = ModelWindow /\ NoOrphan(request'.messages)
                  /\ request'.system + Cost(request'.messages)
                       <= BuildContextBudget(ModelWindow, DefaultReserve)
    BY <1>1, <2>4, <2>8
  <2> QED  BY <2>4, <2>5, <2>7, <2>9
<1> QED  BY <1>3, <1>4

-----------------------------------------------------------------------------
\* The budget of the request, in the window the client knows.
Limit == BuildContextBudget(ModelWindow, request.reserved)

(* Send is the only action that writes what is sent.                       *)
LEMMA SendIs ==
    ASSUME TypeOK, Send
    PROVE  /\ window' = ModelWindow /\ request' = request /\ Limit \in Nat
           /\ request.system \in 0..Limit
           /\ sent' = TrimMessages(request.system, request.messages, Limit)
           /\ sent' \in Seq(Messages)
<1>1. /\ window' = ModelWindow /\ request' = request /\ request.system <= Limit
      /\ sent' = TrimMessages(request.system, request.messages, Limit)
  BY DEF Send, Limit
<1>2. request.system \in Nat /\ request.messages \in Seq(Messages) /\ request.reserved \in Nat
  BY DEF TypeOK
<1>3. Limit \in Nat
  BY <1>2, CompletionAssumption, BudgetIsNatural DEF Limit
<1>4. request.system \in 0..Limit
  BY <1>1, <1>2, <1>3
<1>5. sent' \in Seq(Messages)
  BY <1>1, <1>2, <1>3, <1>4, MessagesCost, TrimIsLongestComplete
<1> QED  BY <1>1, <1>3, <1>4, <1>5

Requests == [system : Nat, messages : Seq(Messages), schema : Schemas,
             reserved : Nat, maxRetries : Nat]

Responses == [success : BOOLEAN, repairable : BOOLEAN,
              cause : Answers \cup {"none", "unavailable", "token_limit"}]

Results == {"none", "success", "exhausted", "error", "overflow"}

Places == {"idle", "call", "provider", "answered", "done"}

(* The empty request and the empty response have their types.              *)
LEMMA BlankIsRequest == Blank \in Requests /\ NoResponse \in Responses
<1>1. <<>> \in Seq(Messages)
  BY EmptySeq
<1>2. Blank \in Requests
  BY <1>1, CompletionAssumption DEF Blank, Requests, Schemas
<1>3. NoResponse \in Responses
  BY DEF NoResponse, Responses
<1> QED  BY <1>2, <1>3

(* Every response has its type.                                            *)
LEMMA ResponseTypes ==
    /\ Failure("unavailable") \in Responses /\ Failure("token_limit") \in Responses
    /\ \A answer \in Answers : BuildModelResponse(answer) \in Responses
<1>1. Failure("unavailable") \in Responses /\ Failure("token_limit") \in Responses
  BY DEF Failure, Responses
<1>2. ASSUME NEW answer \in Answers PROVE BuildModelResponse(answer) \in Responses
  <2>1. PICK success \in BOOLEAN, repairable \in BOOLEAN :
          BuildModelResponse(answer) = [success |-> success, repairable |-> repairable, cause |-> answer]
    BY DEF BuildModelResponse
  <2> QED  BY <2>1 DEF Responses
<1> QED  BY <1>1, <1>2

(* A request and the repair message make a request.                        *)
LEMMA RepairTypes ==
    ASSUME request \in Requests, NEW tok \in RepairCosts, NEW r,
           r = [request EXCEPT !.messages = Append(@, Repair(tok))]
    PROVE  /\ r \in Requests /\ r.system = request.system /\ r.reserved = request.reserved
           /\ r.maxRetries = request.maxRetries
           /\ r.messages = Append(request.messages, Repair(tok))
           /\ Repair(tok) \in Messages /\ Repair(tok).role = "repair"
<1>1. Repair(tok) \in Messages /\ Repair(tok).role = "repair"
  BY CompletionAssumption DEF Repair, Messages, Roles
<1>2. PICK m \in Seq(Messages) : m = Append(request.messages, Repair(tok))
  <2>1. request.messages \in Seq(Messages)
    BY DEF Requests
  <2> QED  BY <1>1, <2>1, AppendProperties
<1>3. r = [request EXCEPT !.messages = m]
  BY <1>2 DEF Requests
<1>4. /\ r \in Requests /\ r.system = request.system /\ r.reserved = request.reserved
      /\ r.maxRetries = request.maxRetries /\ r.messages = m
  BY <1>2, <1>3 DEF Requests
<1> QED  BY <1>1, <1>2, <1>4

(* One step per action.                                                    *)
LEMMA StepTypes == ASSUME TypeOK, pc = "idle" => attempts = 0, [Next]_vars PROVE TypeOK'
<1> SUFFICES /\ available' \in BOOLEAN /\ window' \in {DefaultWindow, ModelWindow}
             /\ pc' \in Places /\ request' \in Requests /\ attempts' \in 0..request'.maxRetries
             /\ sent' \in Seq(Messages) /\ response' \in Responses /\ result' \in Results
             /\ exact' \in BOOLEAN
  BY Zenon DEF TypeOK, Places, Requests, Responses, Results
<1>1. /\ available \in BOOLEAN /\ window \in {DefaultWindow, ModelWindow}
      /\ pc \in Places /\ request \in Requests /\ attempts \in 0..request.maxRetries
      /\ sent \in Seq(Messages) /\ response \in Responses /\ result \in Results
      /\ exact \in BOOLEAN
  BY Zenon DEF TypeOK, Places, Requests, Responses, Results
<1>2. CASE ModelAsk
  <2>1. UNCHANGED <<available, window, attempts, sent, response>> /\ attempts = 0
    BY <1>2 DEF ModelAsk
  <2>2. pc' \in Places /\ result' \in Results /\ request' \in Requests /\ exact' \in BOOLEAN
    <3>1. CASE pc' = "done" /\ result' = "overflow" /\ UNCHANGED <<request, exact>>
      BY <1>1, <3>1 DEF Places, Results
    <3>2. CASE pc' = "call" /\ UNCHANGED result /\ exact' \in BOOLEAN /\ request' \in Requests
      BY <1>1, <3>2 DEF Places
    <3> QED  BY <1>2, <3>1, <3>2, ModelAskMakes DEF Requests
  <2>3. 0 \in 0..request'.maxRetries
    BY <2>2 DEF Requests
  <2> QED  BY <1>1, <2>1, <2>2, <2>3
<1>3. CASE CallerAsks
  <2>1. UNCHANGED <<available, window, attempts, sent, response, result, exact>>
        /\ attempts = 0 /\ pc' = "call"
    BY <1>3 DEF CallerAsks
  <2>2. request' \in Requests
    BY <1>3, CompletionAssumption DEF CallerAsks, Requests
  <2>3. 0 \in 0..request'.maxRetries
    BY <2>2 DEF Requests
  <2> QED  BY <1>1, <2>1, <2>2, <2>3 DEF Places
<1>4. CASE ClientUnavailable
  BY <1>1, <1>4, ResponseTypes DEF ClientUnavailable, Places
<1>5. CASE TokenLimitExceeded
  BY <1>1, <1>5, ResponseTypes DEF TokenLimitExceeded, Places
<1>6. CASE Send
  <2>1. sent' \in Seq(Messages) /\ window' = ModelWindow
    BY <1>6, SendIs
  <2>2. UNCHANGED <<available, request, attempts, response, result, exact>> /\ pc' = "provider"
    BY <1>6 DEF Send
  <2> QED  BY <1>1, <2>1, <2>2 DEF Places
<1>7. CASE Answer
  <2>1. response' \in Responses
    BY <1>7, ResponseTypes DEF Answer
  <2>2. UNCHANGED <<available, window, request, attempts, sent, result, exact>> /\ pc' = "answered"
    BY <1>7 DEF Answer
  <2> QED  BY <1>1, <2>1, <2>2 DEF Places
<1>8. CASE CallRaises
  BY <1>1, <1>8 DEF CallRaises, Places, Results
<1>9. CASE ReturnResponse
  BY <1>1, <1>9 DEF ReturnResponse, Places, Results
<1>10. CASE GiveUp
  BY <1>1, <1>10 DEF GiveUp, Places, Results
<1>11. CASE Retry
  <2>1. PICK tok \in RepairCosts :
          request' = [request EXCEPT !.messages = Append(@, Repair(tok))]
    BY <1>11 DEF Retry
  <2>2. request' \in Requests /\ request'.maxRetries = request.maxRetries
    BY <1>1, <2>1, RepairTypes
  <2>3. UNCHANGED <<available, window, sent, response, result, exact>> /\ pc' = "call"
        /\ attempts < request.maxRetries /\ attempts' = attempts + 1
    BY <1>11 DEF Retry
  <2>4. attempts' \in 0..request'.maxRetries
    <3>1. request.maxRetries \in Nat
      BY <1>1 DEF Requests
    <3> QED  BY <1>1, <2>2, <2>3, <3>1
  <2> QED  BY <1>1, <2>2, <2>3, <2>4 DEF Places
<1>12. CASE RaiseUnrepairable
  <2>1. UNCHANGED <<available, window, request, sent, response, exact>>
        /\ pc' = "done" /\ result' = "error"
        /\ attempts < request.maxRetries /\ attempts' = attempts + 1
    BY <1>12 DEF RaiseUnrepairable
  <2>2. attempts' \in 0..request'.maxRetries
    <3>1. request.maxRetries \in Nat
      BY <1>1 DEF Requests
    <3> QED  BY <1>1, <2>1, <3>1
  <2> QED  BY <1>1, <2>1, <2>2 DEF Places, Results
<1>13. CASE Return
  <2>1. /\ request' = Blank /\ attempts' = 0 /\ sent' = <<>> /\ response' = NoResponse
        /\ result' = "none" /\ exact' = FALSE /\ pc' = "idle" /\ UNCHANGED <<available, window>>
    BY <1>13 DEF Return
  <2>2. request' \in Requests /\ response' \in Responses /\ sent' \in Seq(Messages)
    BY <2>1, BlankIsRequest, EmptySeq
  <2>3. 0 \in 0..request'.maxRetries
    BY <2>2 DEF Requests
  <2> QED  BY <1>1, <2>1, <2>2, <2>3 DEF Places, Results
<1>14. CASE UNCHANGED vars
  BY <1>1, <1>14 DEF vars
<1> QED
  BY <1>2, <1>3, <1>4, <1>5, <1>6, <1>7, <1>8, <1>9, <1>10, <1>11, <1>12, <1>13, <1>14
  DEF Next, Completion

\* At the provider is what the cut left of the request.
AtProvider ==
    pc = "provider" =>
        /\ window = ModelWindow /\ request.system <= Limit
        /\ sent = TrimMessages(request.system, request.messages, Limit)

\* A request counted by the facade fits until it is repaired.
CountedRightly ==
    exact /\ attempts = 0 /\ pc \in {"call", "provider"} =>
        /\ window = ModelWindow /\ NoOrphan(request.messages)
        /\ request.system + Cost(request.messages) <= Limit

\* What is sent stays what the cut left of the request, until that grows.
SentStays ==
    pc = "answered" /\ available /\ request.system <= Limit =>
        sent = TrimMessages(request.system, request.messages, Limit)

\* A request that is repaired is the one that was sent and the repair.
SentWasRepaired ==
    pc = "call" /\ attempts > 0 /\ available /\ request.system <= Limit =>
        \E q \in Seq(Messages), tok \in RepairCosts :
            /\ request.messages = Append(q, Repair(tok))
            /\ sent = TrimMessages(request.system, q, Limit)

SentInv ==
    /\ TypeOK
    /\ pc = "idle" => attempts = 0 /\ ~exact
    /\ AtProvider /\ CountedRightly /\ SentStays /\ SentWasRepaired

(* The invariant holds at first.                                           *)
LEMMA InitSentInv == ASSUME Init PROVE SentInv
<1>1. TypeOK
  BY InitTypes
<1>2. pc = "idle" /\ attempts = 0 /\ exact = FALSE
  BY DEF Init
<1> QED  BY <1>1, <1>2 DEF SentInv, AtProvider, CountedRightly, SentStays, SentWasRepaired

(* Every action keeps it.                                                  *)
LEMMA StepSentInv == ASSUME SentInv, [Next]_vars PROVE SentInv'
<1> USE DEF AtProvider, CountedRightly, SentStays, SentWasRepaired
<1>1. TypeOK'
  BY StepTypes DEF SentInv
<1>2. TypeOK /\ (pc = "idle" => attempts = 0 /\ ~exact)
  BY DEF SentInv
<1>3. CASE ModelAsk
  <2>1. pc = "idle" /\ attempts' = attempts
    BY <1>3 DEF ModelAsk
  <2>2. CASE pc' = "done"
    BY <1>1, <2>2 DEF SentInv
  <2>3. CASE /\ pc' = "call" /\ request'.reserved = DefaultReserve
             /\ exact' => /\ window = ModelWindow /\ NoOrphan(request'.messages)
                          /\ request'.system + Cost(request'.messages)
                               <= BuildContextBudget(ModelWindow, DefaultReserve)
    <3>1. window' = window
      BY <1>3 DEF ModelAsk
    <3>2. Limit' = BuildContextBudget(ModelWindow, DefaultReserve)
      BY <2>3 DEF Limit
    <3>3. attempts' = 0
      BY <1>2, <2>1
    <3>4. CountedRightly'
      BY <2>3, <3>1, <3>2
    <3> QED  BY <1>1, <2>3, <3>3, <3>4 DEF SentInv
  <2> QED  BY <1>2, <1>3, <2>2, <2>3, ModelAskMakes
<1>4. CASE CallerAsks
  <2>1. pc = "idle" /\ attempts' = attempts /\ exact' = exact /\ pc' = "call"
    BY <1>4 DEF CallerAsks
  <2>2. attempts' = 0 /\ ~exact'
    BY <1>2, <2>1
  <2> QED  BY <1>1, <2>1, <2>2 DEF SentInv
<1>5. CASE ClientUnavailable
  BY <1>1, <1>5 DEF ClientUnavailable, SentInv
<1>6. CASE TokenLimitExceeded
  <2>1. pc' = "answered" /\ request' = request /\ request.system > Limit
    BY <1>6 DEF TokenLimitExceeded, Limit
  <2>2. Limit' = Limit
    BY <2>1 DEF Limit
  <2>3. ~(request'.system <= Limit')
    <3>1. request.system \in Nat /\ request.reserved \in Nat
      BY <1>2 DEF TypeOK
    <3>2. Limit \in Nat
      BY <3>1, CompletionAssumption, BudgetIsNatural DEF Limit
    <3> QED  BY <2>1, <2>2, <3>1, <3>2
  <2> QED  BY <1>1, <2>1, <2>3 DEF SentInv
<1>7. CASE Send
  <2>1. /\ window' = ModelWindow /\ request' = request /\ request.system \in 0..Limit
        /\ sent' = TrimMessages(request.system, request.messages, Limit)
    BY <1>2, <1>7, SendIs
  <2>2. pc = "call" /\ pc' = "provider" /\ exact' = exact /\ attempts' = attempts
    BY <1>7 DEF Send
  <2>3. Limit' = Limit
    BY <2>1 DEF Limit
  <2>4. AtProvider'
    BY <2>1, <2>3
  <2>5. CountedRightly'
    BY <2>1, <2>2, <2>3 DEF SentInv
  <2> QED  BY <1>1, <2>2, <2>4, <2>5 DEF SentInv
<1>8. CASE Answer
  <2>1. /\ pc = "provider" /\ pc' = "answered" /\ request' = request /\ sent' = sent
    BY <1>8 DEF Answer
  <2>2. Limit' = Limit
    BY <2>1 DEF Limit
  <2>3. SentStays'
    BY <2>1, <2>2 DEF SentInv
  <2> QED  BY <1>1, <2>1, <2>3 DEF SentInv
<1>9. CASE pc' = "done"
  BY <1>1, <1>9 DEF SentInv
<1>10. CASE Retry
  <2>1. PICK tok \in RepairCosts :
          request' = [request EXCEPT !.messages = Append(@, Repair(tok))]
    BY <1>10 DEF Retry
  <2>2. /\ request'.system = request.system /\ request'.reserved = request.reserved
        /\ request'.messages = Append(request.messages, Repair(tok))
    <3>1. request \in Requests
      BY <1>2 DEF TypeOK, Requests
    <3> QED  BY <2>1, <3>1, RepairTypes
  <2>3. /\ pc = "answered" /\ pc' = "call" /\ attempts' = attempts + 1
        /\ available' = available /\ sent' = sent
    BY <1>10 DEF Retry
  <2>4. attempts' > 0
    <3>1. attempts \in Nat
      BY <1>2 DEF TypeOK
    <3> QED  BY <2>3, <3>1
  <2>5. Limit' = Limit
    BY <2>2 DEF Limit
  <2>6. SentWasRepaired'
    <3> SUFFICES ASSUME available, request.system <= Limit
                 PROVE  \E q \in Seq(Messages), t \in RepairCosts :
                           /\ request'.messages = Append(q, Repair(t))
                           /\ sent' = TrimMessages(request'.system, q, Limit')
      BY <2>2, <2>3, <2>5
    <3>1. sent = TrimMessages(request.system, request.messages, Limit)
      BY <2>3 DEF SentInv
    <3>2. request.messages \in Seq(Messages)
      BY <1>2 DEF TypeOK
    <3> QED  BY <2>2, <2>3, <2>5, <3>1, <3>2
  <2> QED  BY <1>1, <2>3, <2>4, <2>6 DEF SentInv
<1>11. CASE Return
  <2>1. pc' = "idle" /\ attempts' = 0 /\ ~exact'
    BY <1>11 DEF Return
  <2> QED  BY <1>1, <2>1 DEF SentInv
<1>12. CASE UNCHANGED vars
  <2>1. Limit' = Limit
    BY <1>12 DEF vars, Limit
  <2> QED  BY <1>1, <1>12, <2>1 DEF SentInv, vars
<1>13. CallRaises \/ ReturnResponse \/ GiveUp \/ RaiseUnrepairable => pc' = "done"
  BY DEF CallRaises, ReturnResponse, GiveUp, RaiseUnrepairable
<1> QED
  BY <1>3, <1>4, <1>5, <1>6, <1>7, <1>8, <1>9, <1>10, <1>11, <1>12, <1>13 DEF Next, Completion

(* For every history, window, reserve and number of retries the provider   *)
(* gets the longest end of the conversation that is made of whole tool     *)
(* interactions and fits, and never a tool result without its call         *)
(* (trim_messages of the client, whatever the facade has cut before).      *)
THEOREM SentIsAlwaysLongestComplete == Spec => []SentIsLongestComplete
<1>1. SentInv => SentIsLongestComplete
  <2> SUFFICES ASSUME SentInv PROVE SentIsLongestComplete
    OBVIOUS
  <2>1. TypeOK
    BY DEF SentInv
  <2>2. ASSUME pc = "provider"
        PROVE  /\ sent = LongestComplete(request.system, request.messages, Budget)
               /\ request.system + Cost(sent) <= Budget
               /\ NoOrphan(sent)
    <3>1. /\ window = ModelWindow /\ request.system <= Limit
          /\ sent = TrimMessages(request.system, request.messages, Limit)
      BY <2>2 DEF SentInv, AtProvider
    <3>2. Budget = Limit
      BY <3>1 DEF Budget, Limit
    <3>3. request.system \in Nat /\ request.messages \in Seq(Messages) /\ request.reserved \in Nat
      BY <2>1 DEF TypeOK
    <3>4. Limit \in Nat
      BY <3>3, CompletionAssumption, BudgetIsNatural DEF Limit
    <3>5. request.system \in 0..Limit
      BY <3>1, <3>3, <3>4
    <3> QED  BY <3>1, <3>2, <3>3, <3>4, <3>5, MessagesCost, TrimIsLongestComplete
  <2> QED  BY <2>1, <2>2 DEF SentIsLongestComplete
<1> QED
  BY <1>1, InitSentInv, StepSentInv, PTL DEF Spec

(* Whatever the facade kept of blocks that were counted rightly, against   *)
(* the window the client uses, the client cuts nothing more of it.         *)
THEOREM KeptBlocksAreAlwaysSent == Spec => []KeptBlocksAreSent
<1>1. SentInv => KeptBlocksAreSent
  <2> SUFFICES ASSUME SentInv, pc = "provider", exact, attempts = 0
               PROVE  sent = request.messages
    BY DEF KeptBlocksAreSent
  <2>1. /\ request.system <= Limit
        /\ sent = TrimMessages(request.system, request.messages, Limit)
        /\ NoOrphan(request.messages)
        /\ request.system + Cost(request.messages) <= Limit
    BY DEF SentInv, AtProvider, CountedRightly
  <2>2. request.system \in Nat /\ request.messages \in Seq(Messages) /\ request.reserved \in Nat
    BY DEF SentInv, TypeOK
  <2>3. Limit \in Nat
    BY <2>2, CompletionAssumption, BudgetIsNatural DEF Limit
  <2>4. request.system \in 0..Limit
    BY <2>1, <2>2, <2>3
  <2> QED  BY <2>1, <2>2, <2>3, <2>4, MessagesCost, NothingIsCut
<1> QED
  BY <1>1, InitSentInv, StepSentInv, PTL DEF Spec

(* A retry shows the repair message last, and of the rest an end of what   *)
(* the call before it had shown, for every conversation and budget.        *)
THEOREM RetriesOnlyForget == Spec => RetryOnlyForgets
<1> DEFINE Forgets ==
      pc' = "provider" /\ attempts > 0 =>
        /\ sent' # <<>> => Last(sent').role = "repair"
        /\ IsSuffix(Unrepaired(sent'), Unrepaired(sent))
<1>1. ASSUME SentInv, [Next]_vars PROVE [Forgets]_vars
  <2> SUFFICES ASSUME Next, pc' = "provider", attempts > 0
               PROVE  /\ sent' # <<>> => Last(sent').role = "repair"
                      /\ IsSuffix(Unrepaired(sent'), Unrepaired(sent))
    BY <1>1
  <2>1. TypeOK
    BY <1>1 DEF SentInv
  <2>2. Send
    <3>1. ~ModelAsk
      BY <2>1, ModelAskMakes
    <3> QED
      BY <3>1 DEF Next, Completion, CallerAsks, ClientUnavailable, TokenLimitExceeded, Answer,
         CallRaises, ReturnResponse, GiveUp, Retry, RaiseUnrepairable, Return
  <2>3. /\ pc = "call" /\ available
    BY <2>2 DEF Send
  <2>4. /\ Limit \in Nat /\ request.system \in 0..Limit
        /\ sent' = TrimMessages(request.system, request.messages, Limit)
    BY <2>1, <2>2, SendIs
  <2>5. PICK q \in Seq(Messages), tok \in RepairCosts :
          /\ request.messages = Append(q, Repair(tok))
          /\ sent = TrimMessages(request.system, q, Limit)
    BY <1>1, <2>3, <2>4 DEF SentInv, SentWasRepaired
  <2>6. Repair(tok) \in Messages /\ Repair(tok).role = "repair"
    <3>1. request \in Requests
      BY <2>1 DEF TypeOK, Requests
    <3> QED  BY <3>1, RepairTypes
  <2>7. PICK r \in Messages : r = Repair(tok) /\ r.role = "repair"
    BY <2>6
  <2>8. PICK now, before : now = sent' /\ before = sent
    OBVIOUS
  <2>9. now = TrimMessages(request.system, Append(q, r), Limit)
    BY <2>4, <2>5, <2>7, <2>8
  <2>10. before = TrimMessages(request.system, q, Limit)
    BY <2>5, <2>8
  <2>11. /\ now # <<>> => Last(now).role = "repair"
         /\ IsSuffix(Unrepaired(now), Unrepaired(before))
    BY <2>4, <2>7, <2>9, <2>10, MessagesCost, RetryForgets
  <2> QED  BY <2>8, <2>11
<1> QED
  BY <1>1, InitSentInv, StepSentInv, PTL DEF Spec, RetryOnlyForgets
=============================================================================
