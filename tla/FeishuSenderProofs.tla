------------------------- MODULE FeishuSenderProofs -------------------------
(***************************************************************************)
(* Theorems about FeishuSender, for any number of callers, chunks and      *)
(* calls, and for any life, margin and timeout that satisfy the module's   *)
(* assumptions: no request arrives with a token that has ended, what       *)
(* arrives of a text is a prefix of it, and the result says how long that  *)
(* prefix is.  The invariant pairs what is on the wire with what each      *)
(* caller believes: a request outlives the call that sent it, so the wire  *)
(* and the inbox are described by calls (WireInv, PrefixInv) and only the  *)
(* current call of a caller by its job (CallInv).                          *)
(***************************************************************************)
EXTENDS FeishuSender, SequenceTheorems, TLAPS

-----------------------------------------------------------------------------
(* The inductive invariant.                                                *)

Requests == [by : Callers, call : Nat, kind : Kinds, chunk : Nat, token : Nat, until : Nat]
Chunks   == [by : Callers, call : Nat, chunk : Nat]

TypeInv == TypeOK /\ wire \subseteq Requests /\ inbox \in Seq(Chunks)

\* A request arrives before its token ends, and the cache gives a token up so
\* early that a request that leaves at the last moment still does.  A grant on
\* its way is not older than the timeout.
TimesInv ==
  /\ \A m \in wire : now <= m.until /\ m.until < granted[m.token]
  /\ cache.token # 0 => cache.expire <= granted[cache.token] + Delay - Margin
  /\ \A c \in Callers : At(c, "granted") =>
       /\ job[c].token \in 1 .. Len(granted)
       /\ now <= job[c].until
       /\ job[c].until + Life <= granted[job[c].token] + Delay

\* No call of the future has left a trace, and no call has two requests on
\* the wire; the chunks before the one a request brings have arrived.
WireInv ==
  /\ \A m \in wire : m.call \in 1 .. calls[m.by]
  /\ \A i \in DOMAIN inbox : inbox[i].call \in 1 .. calls[inbox[i].by]
  /\ \A m1, m2 \in wire : m1.by = m2.by /\ m1.call = m2.call => m1 = m2
  /\ \A m \in wire : m.kind = "message" =>
       m.chunk < MaxSize /\ Arrived(m.by, m.call) = First(m.chunk)

InOrder(c, n) == \A i, j \in Places(c, n) : i < j => inbox[i].chunk < inbox[j].chunk

PrefixInv ==
  \A c \in Callers, n \in Nat :
    (\E k \in 0 .. MaxSize : Arrived(c, n) = First(k)) /\ InOrder(c, n)

\* How far the message of c is, by what has arrived of it.
MessageInv(c) ==
  LET arrived == Arrived(c, calls[c])
      next    == job[c].next
  IN
    /\ job[c].stage \in {"token", "auth", "granted", "sent", "refused"} => arrived = First(next)
    /\ At(c, "accepted") => arrived = First(next + 1)
    /\ At(c, "succeeded") => arrived = First(job[c].size)
    /\ At(c, "failed") => arrived \in {First(next), First(next + 1)}

\* What a caller's job knows of its request on the wire and of the chunks that
\* arrived.
CallInv(c) ==
  /\ ~ At(c, "idle") => calls[c] > 0
  /\ \A m \in wire : m.by = c /\ m.call = calls[c] =>
       /\ job[c].stage \in {"sent", "failed", "idle"}
       /\ ~ At(c, "idle") => m.chunk = job[c].next /\ m.kind = job[c].kind
  /\ job[c].stage \in {"token", "auth", "granted", "sent", "refused", "accepted"} =>
       job[c].next < job[c].size /\ job[c].size <= MaxSize
  /\ job[c].kind = "message" => ~ At(c, "stream") /\ MessageInv(c)
  /\ At(c, "stream") => job[c].next < job[c].size /\ job[c].size <= MaxSize

\* A file has no piece its image has not.  The last to empty it finds what it
\* has saved since, whoever else writes to it.
Before == {"token", "auth", "granted", "sent", "accepted", "refused"}

ImageInv ==
  /\ \A k \in DOMAIN Images : file[k] \subseteq 1 .. Images[k]
  /\ \A c \in Callers : job[c].kind = "image" =>
       /\ job[c].image \in DOMAIN Images /\ job[c].size = Images[job[c].image]
       /\ job[c].stage \in Before => job[c].next = 0
       /\ At(c, "succeeded") => job[c].next = job[c].size
       /\ job[c].stage \in {"stream", "succeeded"} /\ opener[job[c].image] = {c} =>
            1 .. job[c].next \subseteq file[job[c].image]

SenderInv ==
  TypeInv /\ TimesInv /\ WireInv /\ PrefixInv /\ (\A c \in Callers : CallInv(c)) /\ ImageInv

LEMMA ImagesFact ==
  /\ Images \in Seq(1 .. MaxSize) /\ Len(Images) \in Nat /\ MaxSize \in Nat /\ MaxSize > 0
  /\ \A k \in DOMAIN Images : k \in 1 .. Len(Images) /\ Images[k] \in 1 .. MaxSize
BY SenderAssumption, LenProperties, ElementOfSeq

LEMMA SenderInitInv == Init => SenderInv
<1> SUFFICES ASSUME Init PROVE SenderInv
  OBVIOUS
<1>1. Idle \in Job
  BY ImagesFact DEF Idle, Job, Stages, Kinds
<1>2. TypeInv
  BY <1>1, SenderAssumption, EmptySeq DEF Init, TypeInv, TypeOK
<1>3. \A c \in Callers : job[c].stage = "idle"
  BY DEF Init, Idle
<1>4. DOMAIN inbox = {} /\ wire = {}
  BY EmptySeq DEF Init
<1>5. \A c \in Callers, n \in Nat : Arrived(c, n) = {} /\ Places(c, n) = {}
  BY <1>4 DEF Arrived, Places
<1>6. First(0) = {} /\ 0 \in 0 .. MaxSize
  BY SenderAssumption DEF First
<1>7. PrefixInv
  BY <1>5, <1>6 DEF PrefixInv, InOrder
<1>8. TimesInv /\ WireInv
  BY <1>3, <1>4 DEF Init, TimesInv, WireInv, At
<1>9. \A c \in Callers : CallInv(c)
  BY <1>3, <1>4 DEF CallInv, MessageInv, At
<1>10. ImageInv
  BY DEF Init, Idle, ImageInv
<1> QED
  BY <1>2, <1>7, <1>8, <1>9, <1>10 DEF SenderInv
-----------------------------------------------------------------------------
(* What the steps do to the jobs and to the inbox.                         *)

(* A change of stage leaves the rest of the job and the other jobs alone.  *)
LEMMA BecomeStage ==
  ASSUME TypeInv, NEW c \in Callers, NEW st \in Stages, Become(c, st)
  PROVE  /\ job' \in [Callers -> Job]
         /\ job'[c].stage = st
         /\ job'[c].kind = job[c].kind /\ job'[c].size = job[c].size
         /\ job'[c].next = job[c].next /\ job'[c].token = job[c].token
         /\ job'[c].until = job[c].until /\ job'[c].image = job[c].image
         /\ \A d \in Callers : d # c => job'[d] = job[d]
BY DEF TypeInv, TypeOK, Become, Job

(* The jobs have the fields of a job.                                      *)
LEMMA JobFields ==
  ASSUME TypeInv, NEW c \in Callers
  PROVE  /\ job[c] \in Job
         /\ job[c].stage \in Stages /\ job[c].kind \in Kinds
         /\ job[c].size \in 0 .. MaxSize + 1 /\ job[c].next \in 0 .. MaxSize + 1
         /\ job[c].size \in Nat /\ job[c].next \in Nat
         /\ job[c].token \in Nat /\ job[c].until \in Nat
         /\ calls[c] \in Nat
BY SenderAssumption DEF TypeInv, TypeOK, Job

LEMMA BeginsHow ==
  ASSUME NEW c \in Callers, CallText(c) \/ CallCard(c) \/ CallImage(c)
  PROVE  \E kind \in Kinds, image \in 0 .. Len(Images), size \in 0 .. MaxSize :
           Begin(c, kind, image, size)
<1>1. CASE CallText(c) \/ CallCard(c)
  <2>1. 0 \in 0 .. Len(Images) /\ 1 \in 0 .. MaxSize /\ "message" \in Kinds
    BY ImagesFact DEF Kinds
  <2> QED
    BY <1>1, <2>1 DEF CallText, CallCard
<1>2. CASE CallImage(c)
  <2>1. PICK k \in DOMAIN Images : Begin(c, "image", k, Images[k])
    BY <1>2 DEF CallImage
  <2>2. k \in 0 .. Len(Images) /\ Images[k] \in 0 .. MaxSize /\ "image" \in Kinds
    BY ImagesFact DEF Kinds
  <2> QED
    BY <2>1, <2>2
<1> QED
  BY <1>1, <1>2

(* What has arrived changes only with the inbox.                           *)
LEMMA NothingArrives ==
  ASSUME UNCHANGED inbox, NEW c, NEW n
  PROVE  Arrived(c, n)' = Arrived(c, n) /\ Places(c, n)' = Places(c, n)
BY DEF Arrived, Places

(* A chunk that arrives comes last.                                        *)
LEMMA ChunkComesLast ==
  ASSUME NEW e \in Chunks, inbox \in Seq(Chunks), inbox' = Append(inbox, e)
  PROVE  /\ Len(inbox) \in Nat
         /\ DOMAIN inbox = 1 .. Len(inbox) /\ DOMAIN inbox' = 1 .. Len(inbox) + 1
         /\ \A i \in 1 .. Len(inbox) : inbox'[i] = inbox[i]
         /\ inbox'[Len(inbox) + 1] = e
BY AppendProperties, LenProperties

(* A chunk that arrives is one of its call.                                *)
LEMMA ChunkArrives ==
  ASSUME NEW e \in Chunks, inbox \in Seq(Chunks), inbox' = Append(inbox, e), NEW c, NEW n
  PROVE  /\ Arrived(c, n)' = Arrived(c, n) \cup (IF e.by = c /\ e.call = n THEN {e.chunk} ELSE {})
         /\ Places(c, n)' =
              Places(c, n) \cup (IF e.by = c /\ e.call = n THEN {Len(inbox) + 1} ELSE {})
         /\ \A i \in Places(c, n) : i \in 1 .. Len(inbox) /\ inbox'[i] = inbox[i]
<1>1. PICK l \in Nat : l = Len(inbox) /\ DOMAIN inbox = 1 .. l
  BY ChunkComesLast
<1>2. /\ DOMAIN inbox' = 1 .. l + 1
      /\ \A i \in 1 .. l : inbox'[i] = inbox[i]
      /\ inbox'[l + 1] = e
  BY <1>1, ChunkComesLast
<1>3. \A i : i \in 1 .. l + 1 <=> i \in 1 .. l \/ i = l + 1
  BY <1>1
<1>4. Places(c, n)' = Places(c, n) \cup (IF e.by = c /\ e.call = n THEN {l + 1} ELSE {})
  BY <1>1, <1>2, <1>3 DEF Places
<1>5. \A i \in Places(c, n) : i \in 1 .. l /\ inbox'[i] = inbox[i]
  BY <1>1, <1>2 DEF Places
<1>6. Arrived(c, n)' = Arrived(c, n) \cup (IF e.by = c /\ e.call = n THEN {e.chunk} ELSE {})
  <2>1. Arrived(c, n)' = {inbox'[i].chunk : i \in Places(c, n)'}
    BY DEF Arrived
  <2> QED
    BY <1>2, <1>4, <1>5, <2>1 DEF Arrived
<1> QED
  BY <1>1, <1>4, <1>5, <1>6

(* A step of c leaves what the other callers know.                         *)
LEMMA OthersKeep ==
  ASSUME \A d \in Callers : CallInv(d), NEW c \in Callers,
         \A m \in wire' : m.by # c => m \in wire,
         NEW d \in Callers, d # c,
         job'[d] = job[d], calls'[d] = calls[d],
         \A n : Arrived(d, n)' = Arrived(d, n)
  PROVE  CallInv(d)'
<1>1. CallInv(d)
  OBVIOUS
<1>2. MessageInv(d) => MessageInv(d)'
  BY DEF MessageInv, At
<1>3. \A m \in wire' : m.by = d => m \in wire
  OBVIOUS
<1>4. \A st : At(d, st)' <=> At(d, st)
  BY DEF At
<1> QED
  BY <1>1, <1>2, <1>3, <1>4 DEF CallInv
-----------------------------------------------------------------------------
(* The types.                                                              *)

(* A request that leaves has a token Feishu has granted.                   *)
LEMMA RequestType ==
  ASSUME TypeInv, NEW c \in Callers, NEW t \in Nat
  PROVE  /\ Request(c, t) \in Requests
         /\ Request(c, t).by = c /\ Request(c, t).call = calls[c]
         /\ Request(c, t).kind = job[c].kind /\ Request(c, t).chunk = job[c].next
         /\ Request(c, t).token = t /\ Request(c, t).until = now + Delay
<1>1. now + Delay \in Nat
  BY SenderAssumption DEF TypeInv, TypeOK
<1> QED
  BY <1>1, JobFields DEF Request, Requests

LEMMA TypeStep ==
  ASSUME SenderInv, [Next]_vars
  PROVE  TypeInv'
<1>1. TypeInv /\ TypeOK /\ wire \subseteq Requests /\ inbox \in Seq(Chunks)
  BY DEF SenderInv, TypeInv
<1>2. /\ now \in 0 .. MaxTime /\ granted \in Seq(Nat)
      /\ cache \in [token : 0 .. Len(granted), expire : Int]
      /\ job \in [Callers -> Job] /\ calls \in [Callers -> Nat]
      /\ (\A m \in wire : m.token \in 1 .. Len(granted) /\ m.by \in Callers)
      /\ file \in [DOMAIN Images -> SUBSET (1 .. MaxSize)]
      /\ opener \in [DOMAIN Images -> SUBSET Callers]
      /\ Len(granted) \in Nat /\ now \in Nat
  BY <1>1, SenderAssumption, LenProperties DEF TypeOK
<1> DEFINE Same == UNCHANGED <<now, granted, cache, calls, wire, inbox, file, opener>>
<1>3. ASSUME Same, job' \in [Callers -> Job] PROVE TypeInv'
  BY <1>1, <1>2, <1>3 DEF TypeInv, TypeOK
<1>4. ASSUME NEW c \in Callers, NEW kind \in Kinds, NEW image \in 0 .. Len(Images),
             NEW size \in 0 .. MaxSize, Begin(c, kind, image, size)
      PROVE  TypeInv'
  <2>1. PICK st \in Stages : st = IF size = 0 THEN "failed" ELSE "token"
    BY DEF Stages
  <2>2. size \in 0 .. MaxSize + 1 /\ 0 \in 0 .. MaxSize + 1
    BY SenderAssumption
  <2>4. [Idle EXCEPT !.stage = st, !.kind = kind, !.image = image, !.size = size] \in Job
    BY <2>2 DEF Idle, Job
  <2>5. job' \in [Callers -> Job]
    BY <1>2, <1>4, <2>1, <2>4 DEF Begin
  <2>3. calls' \in [Callers -> Nat]
    BY <1>2, <1>4 DEF Begin
  <2> QED
    BY <1>1, <1>2, <1>4, <2>5, <2>3 DEF Begin, TypeInv, TypeOK
<1>5. ASSUME NEW c \in Callers, CallText(c) \/ CallCard(c) \/ CallImage(c)
      PROVE  TypeInv'
  <2>1. PICK kind \in Kinds, image \in 0 .. Len(Images), size \in 0 .. MaxSize :
          Begin(c, kind, image, size)
    BY <1>5, BeginsHow
  <2> QED
    BY <1>4, <2>1
<1>6. ASSUME NEW c \in Callers, NEW t \in 1 .. Len(granted), Become(c, "sent"),
             wire' = wire \cup {Request(c, t)},
             cache' \in [token : 0 .. Len(granted), expire : Int],
             UNCHANGED <<now, granted, calls, inbox, file, opener>>
      PROVE  TypeInv'
  <2>1. job' \in [Callers -> Job]
    BY <1>1, <1>6, BecomeStage DEF Stages
  <2>2. Request(c, t) \in Requests /\ Request(c, t).by = c /\ Request(c, t).token = t
    BY <1>1, <1>2, <1>6, RequestType
  <2> QED
    BY <1>1, <1>2, <1>6, <2>1, <2>2 DEF TypeInv, TypeOK
<1>7. ASSUME NEW c \in Callers, UseToken(c) PROVE TypeInv'
  <2>1. cache.token \in 1 .. Len(granted)
    BY <1>2, <1>7 DEF UseToken
  <2> QED
    BY <1>2, <1>6, <1>7, <2>1 DEF UseToken
<1>8. ASSUME NEW c \in Callers, AskToken(c) \/ Fail(c) PROVE TypeInv'
  <2>1. PICK st \in Stages : Become(c, st)
    BY <1>8 DEF AskToken, Fail, Stages
  <2> QED
    BY <1>1, <1>3, <1>8, <2>1, BecomeStage DEF AskToken, Fail
<1>9. ASSUME NEW c \in Callers, TakeToken(c) PROVE TypeInv'
  <2>1. job[c].token \in 1 .. Len(granted)
    BY <1>9 DEF TakeToken, SenderInv, TimesInv
  <2>2. cache' \in [token : 0 .. Len(granted), expire : Int]
    BY <1>2, <1>9, <2>1, SenderAssumption DEF TakeToken
  <2> QED
    BY <1>6, <1>9, <2>1, <2>2 DEF TakeToken
<1>10. ASSUME NEW c \in Callers, Accepted(c) PROVE TypeInv'
  <2>1. job[c].next + 1 \in 0 .. MaxSize + 1 /\ job[c] \in Job
    <3>1. job[c].next < job[c].size /\ job[c].size <= MaxSize
      BY <1>10 DEF Accepted, At, SenderInv, CallInv
    <3> QED
      BY <1>1, <3>1, JobFields, SenderAssumption
  <2>2. PICK st \in Stages : job' = [job EXCEPT ![c].next = @ + 1, ![c].stage = st]
    BY <1>10 DEF Accepted, Stages
  <2>3. [job[c] EXCEPT !.next = @ + 1, !.stage = st] \in Job
    BY <2>1, <2>2 DEF Job
  <2>4. job' = [job EXCEPT ![c] = [job[c] EXCEPT !.next = @ + 1, !.stage = st]]
    BY <1>2, <2>2
  <2>5. job' \in [Callers -> Job]
    BY <1>2, <2>3, <2>4
  <2> QED
    BY <1>3, <1>10, <2>5 DEF Accepted
<1>11. ASSUME NEW c \in Callers, OpenFile(c) PROVE TypeInv'
  <2>1. job' \in [Callers -> Job]
    BY <1>1, <1>11, BecomeStage DEF OpenFile, Stages
  <2>2. /\ file' \in [DOMAIN Images -> SUBSET (1 .. MaxSize)]
        /\ opener' \in [DOMAIN Images -> SUBSET Callers]
    BY <1>2, <1>11 DEF OpenFile
  <2> QED
    BY <1>1, <1>2, <1>11, <2>1, <2>2 DEF OpenFile, TypeInv, TypeOK
<1>17. ASSUME NEW c \in Callers, SavePiece(c) PROVE TypeInv'
  <2>1. job[c].next < job[c].size /\ job[c].size <= MaxSize
    BY <1>17 DEF SavePiece, SenderInv, CallInv
  <2>2. PICK piece : piece = job[c].next + 1 /\ piece \in 1 .. MaxSize /\ piece \in 0 .. MaxSize + 1
    BY <1>1, <2>1, JobFields, SenderAssumption
  <2>3. PICK st \in Stages : job' = [job EXCEPT ![c].next = piece, ![c].stage = st]
    BY <1>17, <2>2 DEF SavePiece, Stages
  <2>4. [job[c] EXCEPT !.next = piece, !.stage = st] \in Job
    BY <1>1, <2>2, JobFields DEF Job
  <2>5. job' = [job EXCEPT ![c] = [job[c] EXCEPT !.next = piece, !.stage = st]]
    BY <1>2, <2>3
  <2>6. job' \in [Callers -> Job]
    BY <1>2, <2>4, <2>5
  <2>7. file' \in [DOMAIN Images -> SUBSET (1 .. MaxSize)]
    BY <1>2, <1>17, <2>2 DEF SavePiece
  <2> QED
    BY <1>1, <1>2, <1>17, <2>6, <2>7 DEF SavePiece, TypeInv, TypeOK
<1>12. ASSUME NEW c \in Callers, Return(c) PROVE TypeInv'
  <2>1. Idle \in Job
    BY ImagesFact DEF Idle, Job, Stages, Kinds
  <2> QED
    BY <1>2, <1>3, <1>12, <2>1 DEF Return
<1>13. ASSUME NEW c \in Callers, Grant(c) PROVE TypeInv'
  <2>1. [job[c] EXCEPT !.stage = "granted", !.token = Len(granted) + 1, !.until = now + Delay] \in Job
    <3>1. Len(granted) + 1 \in Nat /\ now + Delay \in Nat /\ "granted" \in Stages
      BY <1>2, SenderAssumption DEF Stages
    <3>2. job[c] \in Job
      BY <1>2
    <3> QED
      BY <3>1, <3>2 DEF Job
  <2>2. job' \in [Callers -> Job]
    BY <1>2, <1>13, <2>1 DEF Grant
  <2>3. granted' \in Seq(Nat) /\ Len(granted') = Len(granted) + 1
    <3>1. now + Life \in Nat
      BY <1>2, SenderAssumption
    <3> QED
      BY <1>2, <1>13, <3>1, AppendProperties DEF Grant
  <2>4. 0 .. Len(granted) \subseteq 0 .. Len(granted') /\ 1 .. Len(granted) \subseteq 1 .. Len(granted')
    BY <1>2, <2>3
  <2>5. cache' \in [token : 0 .. Len(granted'), expire : Int]
    BY <1>2, <1>13, <2>4 DEF Grant
  <2> QED
    BY <1>1, <1>2, <1>13, <2>2, <2>3, <2>4, <2>5 DEF Grant, TypeInv, TypeOK
<1>14. ASSUME NEW m \in wire, Deliver(m) \/ Refuse(m) PROVE TypeInv'
  <2>1. m \in Requests /\ m.by \in Callers
    BY <1>1, <1>2
  <2>2. job' \in [Callers -> Job]
    <3>1. CASE UNCHANGED job
      BY <1>2, <3>1
    <3>2. CASE Become(m.by, "accepted") \/ Become(m.by, "refused")
      BY <1>1, <2>1, <3>2, BecomeStage DEF Stages
    <3> QED
      BY <1>14, <3>1, <3>2 DEF Deliver, Refuse
  <2>3. inbox' \in Seq(Chunks)
    <3>1. [by |-> m.by, call |-> m.call, chunk |-> m.chunk] \in Chunks
      BY <2>1 DEF Requests, Chunks
    <3> QED
      BY <1>1, <1>14, <3>1, AppendProperties DEF Deliver, Refuse
  <2> QED
    BY <1>1, <1>2, <1>14, <2>2, <2>3 DEF Deliver, Refuse, TypeInv, TypeOK
<1>15. CASE Tick
  <2>1. now' \in 0 .. MaxTime
    BY <1>2, <1>15, SenderAssumption DEF Tick
  <2> QED
    BY <1>1, <1>2, <1>15, <2>1 DEF Tick, TypeInv, TypeOK
<1>16. CASE Finished \/ UNCHANGED vars
  BY <1>1, <1>2, <1>16 DEF Finished, vars, TypeInv, TypeOK
<1> QED
  BY <1>5, <1>7, <1>8, <1>9, <1>10, <1>11, <1>12, <1>13, <1>14, <1>15, <1>16, <1>17 DEF Next, Step
-----------------------------------------------------------------------------
(* The life of a token.                                                    *)

LEMMA TimesStep ==
  ASSUME SenderInv, [Next]_vars
  PROVE  TimesInv'
<1>1. /\ TypeInv /\ TimesInv
      /\ now \in Nat /\ granted \in Seq(Nat) /\ Len(granted) \in Nat
      /\ cache.token \in 0 .. Len(granted) /\ cache.expire \in Int
      /\ (\A t \in 1 .. Len(granted) : granted[t] \in Nat)
      /\ (\A m \in wire : m.token \in 1 .. Len(granted) /\ m.until \in Nat)
      /\ Life \in Nat /\ Margin \in Nat /\ Delay \in Nat
  BY SenderAssumption, LenProperties, ElementOfSeq DEF SenderInv, TypeInv, TypeOK, Requests
<1>2. ASSUME UNCHANGED <<now, granted, cache>>, wire' \subseteq wire,
             \A c \in Callers : At(c, "granted")' => job'[c] = job[c]
      PROVE  TimesInv'
  BY <1>1, <1>2 DEF TimesInv, At
<1>3. ASSUME NEW c \in Callers, NEW st \in Stages, st # "granted", Become(c, st)
      PROVE  \A d \in Callers : At(d, "granted")' => d # c /\ job'[d] = job[d]
  BY <1>1, <1>3, BecomeStage DEF At
<1>4. ASSUME NEW c \in Callers, CallText(c) \/ CallCard(c) \/ CallImage(c) \/ Return(c) \/ Accepted(c) \/ SavePiece(c)
      PROVE  TimesInv'
  <2>1. /\ UNCHANGED <<now, granted, cache, wire>>
        /\ \A d \in Callers : d # c => job'[d] = job[d]
        /\ job'[c].stage # "granted"
    <3>1. job \in [Callers -> Job]
      BY <1>1 DEF TypeInv, TypeOK
    <3>2. CASE CallText(c) \/ CallCard(c) \/ CallImage(c)
      <4>1. PICK kind, image, size : Begin(c, kind, image, size)
        BY <3>2 DEF CallText, CallCard, CallImage
      <4> QED
        BY <3>1, <4>1 DEF Begin, Idle
    <3>3. CASE Return(c)
      BY <3>1, <3>3 DEF Return, Idle
    <3>4. CASE Accepted(c) \/ SavePiece(c)
      BY <3>1, <3>4 DEF Accepted, SavePiece, Job
    <3> QED
      BY <1>4, <3>2, <3>3, <3>4
  <2> QED
    BY <1>2, <2>1 DEF At
<1>5. ASSUME NEW c \in Callers, AskToken(c) \/ Fail(c) \/ OpenFile(c)
      PROVE  TimesInv'
  <2>1. PICK st \in Stages : st # "granted" /\ Become(c, st)
    BY <1>5 DEF AskToken, Fail, OpenFile, Stages
  <2> QED
    BY <1>2, <1>3, <1>5, <2>1 DEF AskToken, Fail, OpenFile
<1>6. ASSUME NEW c \in Callers, UseToken(c) PROVE TimesInv'
  <2>1. PICK r : r = Request(c, cache.token) /\ wire' = wire \cup {r}
    BY <1>6 DEF UseToken
  <2>2. cache.token \in 1 .. Len(granted) /\ r.token = cache.token /\ r.until = now + Delay
    BY <1>1, <1>6, <2>1, RequestType DEF UseToken
  <2>3. now < cache.expire /\ cache.expire <= granted[cache.token] + Delay - Margin
    BY <1>1, <1>6 DEF UseToken, TimesInv
  <2>4. now <= r.until /\ r.until < granted[r.token]
    BY <1>1, <2>2, <2>3, MarginAssumption
  <2>5. \A d \in Callers : At(d, "granted")' => job'[d] = job[d]
    BY <1>3, <1>6 DEF UseToken, Stages
  <2>6. UNCHANGED <<now, granted, cache>>
    BY <1>6 DEF UseToken
  <2> QED
    BY <1>1, <2>1, <2>4, <2>5, <2>6 DEF TimesInv, At
<1>7. ASSUME NEW c \in Callers, TakeToken(c) PROVE TimesInv'
  <2>1. PICK t, r : /\ t \in 1 .. Len(granted) /\ t \in Nat /\ granted[t] \in Nat
                    /\ t = job[c].token /\ r = Request(c, t) /\ wire' = wire \cup {r}
    BY <1>1, <1>7 DEF TakeToken, TimesInv
  <2>2. r.token = t /\ r.until = now + Delay
    BY <1>1, <2>1, RequestType
  <2>3. PICK g \in Nat, u \in Nat :
          g = granted[t] /\ u = job[c].until /\ now <= u /\ u + Life <= g + Delay
    BY <1>1, <1>7, <2>1, JobFields DEF TakeToken, TimesInv
  <2>9. now <= now + Delay /\ now + Delay < g /\ now + Life - Margin <= g + Delay - Margin
    <3>1. now \in Nat /\ Life \in Nat /\ Margin \in Nat /\ Delay \in Nat
      BY <1>1
    <3> QED
      BY <2>3, <3>1, LifeAssumption
  <2>4. now <= r.until /\ r.until < granted[r.token]
    BY <2>2, <2>3, <2>9
  <2>5. cache'.token = t /\ cache'.expire = now + Life - Margin
    BY <1>7, <2>1 DEF TakeToken
  <2>6. cache'.expire <= granted[t] + Delay - Margin
    BY <2>3, <2>5, <2>9
  <2>7. \A d \in Callers : At(d, "granted")' => job'[d] = job[d]
    BY <1>3, <1>7 DEF TakeToken, Stages
  <2>8. UNCHANGED <<now, granted>>
    BY <1>7 DEF TakeToken
  <2> QED
    BY <1>1, <2>1, <2>4, <2>5, <2>6, <2>7, <2>8 DEF TimesInv, At
<1>8. ASSUME NEW c \in Callers, Grant(c) PROVE TimesInv'
  <2>1. PICK n \in Nat : n = Len(granted)
    BY <1>1
  <2>2. /\ Len(granted') = n + 1 /\ granted'[n + 1] = now + Life
        /\ \A t \in 1 .. n : granted'[t] = granted[t]
    <3>1. now + Life \in Nat
      BY <1>1
    <3> QED
      BY <1>1, <1>8, <2>1, <3>1, AppendProperties DEF Grant
  <2>3. /\ job'[c].token = n + 1 /\ job'[c].until = now + Delay
        /\ \A d \in Callers : d # c => job'[d] = job[d]
    BY <1>1, <1>8, <2>1 DEF Grant, TypeInv, TypeOK, Job
  <2>4. UNCHANGED <<now, cache, wire>>
    BY <1>8 DEF Grant
  <2>5. \A m \in wire' : now' <= m.until /\ m.until < granted'[m.token]
    BY <1>1, <2>1, <2>2, <2>4 DEF TimesInv
  <2>6. cache'.token # 0 => cache'.expire <= granted'[cache'.token] + Delay - Margin
    BY <1>1, <2>1, <2>2, <2>4 DEF TimesInv
  <2>7. ASSUME NEW d \in Callers, At(d, "granted")'
        PROVE  /\ job'[d].token \in 1 .. Len(granted')
               /\ now' <= job'[d].until
               /\ job'[d].until + Life <= granted'[job'[d].token] + Delay
    <3>1. CASE d = c
      BY <1>1, <2>1, <2>2, <2>3, <2>4, <3>1
    <3>2. CASE d # c
      <4>1. PICK t \in 1 .. n : t = job[d].token /\ job'[d] = job[d] /\ granted'[t] = granted[t]
        BY <1>1, <2>1, <2>2, <2>3, <2>7, <3>2 DEF TimesInv, At
      <4>2. now <= job[d].until /\ job[d].until + Life <= granted[t] + Delay
        BY <1>1, <2>7, <4>1 DEF TimesInv, At
      <4>3. t \in 1 .. n + 1
        BY <2>1
      <4> QED
        BY <2>2, <2>4, <4>1, <4>2, <4>3
    <3> QED
      BY <3>1, <3>2
  <2> QED
    BY <2>5, <2>6, <2>7 DEF TimesInv
<1>9. ASSUME NEW m \in wire, Deliver(m) \/ Refuse(m) PROVE TimesInv'
  <2>1. m.by \in Callers
    BY <1>1 DEF TypeInv, TypeOK
  <2>2. CASE UNCHANGED job
    BY <1>2, <1>9, <2>2 DEF Deliver, Refuse
  <2>3. CASE Become(m.by, "accepted") \/ Become(m.by, "refused")
    BY <1>2, <1>3, <1>9, <2>1, <2>3 DEF Deliver, Refuse, Stages
  <2> QED
    BY <1>9, <2>2, <2>3 DEF Deliver, Refuse
<1>10. CASE Tick
  <2>1. /\ now' = now + 1 /\ UNCHANGED <<granted, cache, job, wire>>
        /\ (\A m \in wire : now < m.until)
        /\ (\A c \in Callers : At(c, "granted") => now < job[c].until)
    BY <1>10 DEF Tick
  <2>2. \A m \in wire : now' <= m.until
    BY <1>1, <2>1
  <2>3. \A c \in Callers : At(c, "granted") => now' <= job[c].until
    BY <1>1, <2>1, JobFields
  <2> QED
    BY <1>1, <2>1, <2>2, <2>3 DEF TimesInv, At
<1>11. CASE Finished \/ UNCHANGED vars
  BY <1>2, <1>11 DEF Finished, vars
<1> QED
  BY <1>4, <1>5, <1>6, <1>7, <1>8, <1>9, <1>10, <1>11 DEF Next, Step
-----------------------------------------------------------------------------
(* Chunks, requests and calls.                                             *)

(* One more chunk.                                                         *)
LEMMA FirstGrows ==
  ASSUME NEW k \in Nat
  PROVE  /\ First(k + 1) = First(k) \cup {k}
         /\ \A i \in First(k) : i \in Nat /\ i < k
         /\ First(0) = {}
BY DEF First

(* A step that neither sends nor delivers disturbs at most its own call.   *)
LEMMA QuietStep ==
  ASSUME SenderInv, NEW c \in Callers, UNCHANGED <<inbox, wire, calls>>,
         \A d \in Callers : d # c => job'[d] = job[d],
         CallInv(c)'
  PROVE  WireInv' /\ PrefixInv' /\ \A d \in Callers : CallInv(d)'
<1>1. \A d, n : Arrived(d, n)' = Arrived(d, n) /\ Places(d, n)' = Places(d, n)
  BY NothingArrives
<1>2. WireInv'
  BY <1>1 DEF SenderInv, WireInv
<1>3. PrefixInv'
  BY <1>1 DEF SenderInv, PrefixInv, InOrder
<1>4. ASSUME NEW d \in Callers, d # c PROVE CallInv(d)'
  BY <1>1, <1>4, OthersKeep DEF SenderInv
<1> QED
  BY <1>2, <1>3, <1>4

(* The steps that are quiet for every caller but c.                        *)
LEMMA AskStep ==
  ASSUME SenderInv, NEW c \in Callers, AskToken(c)
  PROVE  WireInv' /\ PrefixInv' /\ \A d \in Callers : CallInv(d)'
<1>1. /\ TypeInv /\ CallInv(c) /\ job[c].stage = "token"
      /\ UNCHANGED <<inbox, wire, calls, file, opener>> /\ Become(c, "auth")
  BY DEF SenderInv, AskToken, At
<1>2. /\ job'[c].stage = "auth" /\ job'[c].kind = job[c].kind /\ job'[c].size = job[c].size
      /\ job'[c].next = job[c].next /\ \A d \in Callers : d # c => job'[d] = job[d]
  BY <1>1, BecomeStage DEF Stages
<1>3. Arrived(c, calls[c])' = Arrived(c, calls[c])
  BY <1>1, NothingArrives
<1>4. CallInv(c)'
  BY <1>1, <1>2, <1>3 DEF CallInv, MessageInv, At
<1> QED
  BY <1>1, <1>2, <1>4, QuietStep

LEMMA FailStep ==
  ASSUME SenderInv, NEW c \in Callers, Fail(c)
  PROVE  WireInv' /\ PrefixInv' /\ \A d \in Callers : CallInv(d)'
<1>1. /\ TypeInv /\ CallInv(c)
      /\ job[c].stage \in {"auth", "granted", "sent", "accepted", "refused", "stream"}
      /\ UNCHANGED <<inbox, wire, calls, file, opener>> /\ Become(c, "failed")
  BY DEF SenderInv, Fail
<1>2. /\ job'[c].stage = "failed" /\ job'[c].kind = job[c].kind /\ job'[c].size = job[c].size
      /\ job'[c].next = job[c].next /\ \A d \in Callers : d # c => job'[d] = job[d]
  BY <1>1, BecomeStage DEF Stages
<1>3. Arrived(c, calls[c])' = Arrived(c, calls[c])
  BY <1>1, NothingArrives
<1>4. CallInv(c)'
  BY <1>1, <1>2, <1>3 DEF CallInv, MessageInv, At
<1> QED
  BY <1>1, <1>2, <1>4, QuietStep

LEMMA AcceptedStep ==
  ASSUME SenderInv, NEW c \in Callers, Accepted(c)
  PROVE  WireInv' /\ PrefixInv' /\ \A d \in Callers : CallInv(d)'
<1>1. /\ TypeInv /\ CallInv(c) /\ job[c].stage = "accepted" /\ job[c].kind = "message"
      /\ UNCHANGED <<inbox, wire, calls, file, opener>> /\ job \in [Callers -> Job]
  BY JobFields DEF SenderInv, Accepted, At, Kinds, TypeInv, TypeOK
<1>2. /\ job'[c].stage = IF job[c].next + 1 = job[c].size THEN "succeeded" ELSE "token"
      /\ job'[c].kind = job[c].kind /\ job'[c].size = job[c].size
      /\ job'[c].next = job[c].next + 1 /\ \A d \in Callers : d # c => job'[d] = job[d]
  BY <1>1 DEF Accepted, Job
<1>3. Arrived(c, calls[c])' = First(job[c].next + 1)
  BY <1>1, NothingArrives DEF CallInv, MessageInv, At
<1>4. job[c].next < job[c].size /\ job[c].size <= MaxSize /\ job[c].next \in Nat /\ job[c].size \in Nat
  BY <1>1, JobFields DEF CallInv
<1>5. \A m \in wire : ~ (m.by = c /\ m.call = calls[c])
  BY <1>1 DEF CallInv
<1>6. CASE job[c].next + 1 = job[c].size
  <2>1. CallInv(c)'
    BY <1>1, <1>2, <1>3, <1>5, <1>6 DEF CallInv, MessageInv, At
  <2> QED
    BY <1>1, <1>2, <2>1, QuietStep
<1>7. CASE job[c].next + 1 # job[c].size
  <2>1. job'[c].next < job'[c].size
    BY <1>2, <1>4, <1>7
  <2>2. CallInv(c)'
    BY <1>1, <1>2, <1>3, <1>4, <1>5, <1>7, <2>1 DEF CallInv, MessageInv, At
  <2> QED
    BY <1>1, <1>2, <2>2, QuietStep
<1> QED
  BY <1>6, <1>7

LEMMA FileStep ==
  ASSUME SenderInv, NEW c \in Callers, OpenFile(c) \/ SavePiece(c)
  PROVE  WireInv' /\ PrefixInv' /\ \A d \in Callers : CallInv(d)'
<1>1. /\ TypeInv /\ CallInv(c) /\ UNCHANGED <<inbox, wire, calls>>
      /\ job[c].stage \in {"accepted", "stream"} /\ job[c].kind = "image"
      /\ job \in [Callers -> Job]
  BY JobFields DEF SenderInv, OpenFile, SavePiece, At, Kinds, CallInv, TypeInv, TypeOK
<1>2. job[c].next < job[c].size /\ job[c].size <= MaxSize
  BY <1>1 DEF CallInv, At
<1>3. /\ job'[c].stage \in {"stream", "succeeded"}
      /\ job'[c].stage = "stream" => job'[c].next < job'[c].size
      /\ job'[c].kind = job[c].kind /\ job'[c].size = job[c].size
      /\ \A d \in Callers : d # c => job'[d] = job[d]
  <2>1. CASE OpenFile(c)
    BY <1>1, <1>2, <2>1, BecomeStage DEF OpenFile, Stages
  <2>2. CASE SavePiece(c)
    <3>1. /\ job'[c].next = job[c].next + 1 /\ job'[c].kind = job[c].kind
          /\ job'[c].size = job[c].size /\ \A d \in Callers : d # c => job'[d] = job[d]
          /\ job'[c].stage = IF job[c].next + 1 = job[c].size THEN "succeeded" ELSE "stream"
      BY <1>1, <2>2 DEF SavePiece, Job
    <3> QED
      BY <1>1, <1>2, <3>1, JobFields
  <2> QED
    BY <2>1, <2>2
<1>4. CallInv(c)'
  BY <1>1, <1>2, <1>3 DEF CallInv, At
<1> QED
  BY <1>1, <1>3, <1>4, QuietStep

LEMMA ReturnStep ==
  ASSUME SenderInv, NEW c \in Callers, Return(c)
  PROVE  WireInv' /\ PrefixInv' /\ \A d \in Callers : CallInv(d)'
<1>1. /\ CallInv(c) /\ UNCHANGED <<inbox, wire, calls, file, opener>>
      /\ job[c].stage \in {"succeeded", "failed"}
      /\ job'[c].stage = "idle" /\ \A d \in Callers : d # c => job'[d] = job[d]
  BY DEF SenderInv, Return, Idle, TypeInv, TypeOK
<1>2. CallInv(c)'
  BY <1>1 DEF CallInv, MessageInv, At
<1> QED
  BY <1>1, <1>2, QuietStep

LEMMA GrantStep ==
  ASSUME SenderInv, NEW c \in Callers, Grant(c)
  PROVE  WireInv' /\ PrefixInv' /\ \A d \in Callers : CallInv(d)'
<1>1. /\ CallInv(c) /\ UNCHANGED <<inbox, wire, calls, file, opener>> /\ job[c].stage = "auth"
      /\ job \in [Callers -> Job]
  BY DEF SenderInv, Grant, At, TypeInv, TypeOK
<1>2. /\ job'[c].stage = "granted" /\ job'[c].kind = job[c].kind /\ job'[c].size = job[c].size
      /\ job'[c].next = job[c].next /\ \A d \in Callers : d # c => job'[d] = job[d]
  BY <1>1 DEF Grant, Job
<1>3. Arrived(c, calls[c])' = Arrived(c, calls[c])
  BY <1>1, NothingArrives
<1>4. CallInv(c)'
  BY <1>1, <1>2, <1>3 DEF CallInv, MessageInv, At
<1> QED
  BY <1>1, <1>2, <1>4, QuietStep

(* A request leaves: its call had none on the wire.                        *)
LEMMA SendStep ==
  ASSUME SenderInv, NEW c \in Callers, UseToken(c) \/ TakeToken(c)
  PROVE  WireInv' /\ PrefixInv' /\ \A d \in Callers : CallInv(d)'
<1>1. /\ TypeInv /\ WireInv /\ PrefixInv /\ CallInv(c)
      /\ job[c].stage \in {"token", "granted"} /\ Become(c, "sent")
      /\ UNCHANGED <<calls, inbox, file, opener>>
  BY DEF SenderInv, UseToken, TakeToken, At
<1>2. PICK r : /\ wire' = wire \cup {r}
               /\ r.by = c /\ r.call = calls[c] /\ r.kind = job[c].kind /\ r.chunk = job[c].next
  <2>1. cache.token \in Nat /\ job[c].token \in Nat
    BY <1>1, JobFields, LenProperties DEF TypeInv, TypeOK
  <2>2. PICK t \in Nat : wire' = wire \cup {Request(c, t)}
    BY <2>1 DEF UseToken, TakeToken
  <2> QED
    BY <1>1, <2>2, RequestType
<1>3. /\ job'[c].stage = "sent" /\ job'[c].kind = job[c].kind /\ job'[c].size = job[c].size
      /\ job'[c].next = job[c].next /\ \A d \in Callers : d # c => job'[d] = job[d]
  BY <1>1, BecomeStage DEF Stages
<1>4. \A d, n : Arrived(d, n)' = Arrived(d, n) /\ Places(d, n)' = Places(d, n)
  BY <1>1, NothingArrives
<1>5. \A m \in wire : ~ (m.by = c /\ m.call = calls[c])
  BY <1>1 DEF CallInv
<1>6. /\ job[c].next < job[c].size /\ job[c].size <= MaxSize
      /\ job[c].kind = "message" => Arrived(c, calls[c]) = First(job[c].next)
  BY <1>1 DEF CallInv, MessageInv
<1>7. job[c].next < MaxSize /\ calls[c] \in 1 .. calls[c]
  <2>1. calls[c] > 0 /\ calls[c] \in Nat
    BY <1>1, JobFields DEF CallInv, At
  <2> QED
    BY <1>1, <1>6, <2>1, JobFields, SenderAssumption
<1>8. WireInv'
  <2>1. \A m \in wire' : m.call \in 1 .. calls'[m.by]
    BY <1>1, <1>2, <1>7 DEF WireInv
  <2>2. \A i \in DOMAIN inbox' : inbox'[i].call \in 1 .. calls'[inbox'[i].by]
    BY <1>1 DEF WireInv
  <2>3. \A m1, m2 \in wire' : m1.by = m2.by /\ m1.call = m2.call => m1 = m2
    BY <1>1, <1>2, <1>5 DEF WireInv
  <2>4. ASSUME NEW m \in wire', m.kind = "message"
        PROVE  m.chunk < MaxSize /\ Arrived(m.by, m.call)' = First(m.chunk)
    <3>1. CASE m \in wire
      BY <1>1, <1>4, <2>4, <3>1 DEF WireInv
    <3>2. CASE m = r
      BY <1>2, <1>4, <1>6, <1>7, <2>4, <3>2
    <3> QED
      BY <1>2, <3>1, <3>2
  <2> QED
    BY <2>1, <2>2, <2>3, <2>4 DEF WireInv
<1>9. PrefixInv'
  BY <1>1, <1>4 DEF PrefixInv, InOrder
<1>10. CallInv(c)'
  BY <1>1, <1>2, <1>3, <1>4, <1>5, <1>6 DEF CallInv, MessageInv, At
<1>11. ASSUME NEW d \in Callers, d # c PROVE CallInv(d)'
  BY <1>1, <1>2, <1>3, <1>4, <1>11, OthersKeep DEF SenderInv
<1> QED
  BY <1>8, <1>9, <1>10, <1>11

(* A request arrives: its caller, if it still waits, knows; if it gave up  *)
(* or has gone on to another call, it does not.                            *)
LEMMA AnswerStep ==
  ASSUME SenderInv, NEW m \in wire, Deliver(m) \/ Refuse(m)
  PROVE  /\ m.by \in Callers /\ UNCHANGED <<calls, file, opener>> /\ wire' = wire \ {m}
         /\ \A d \in Callers : d # m.by => job'[d] = job[d]
         /\ ~ Awaited(m) => job'[m.by] = job[m.by]
         /\ Awaited(m) =>
              /\ job[m.by].stage = "sent" /\ calls[m.by] = m.call
              /\ Deliver(m) => job'[m.by].stage = "accepted"
              /\ ~ Deliver(m) => job'[m.by].stage = "refused"
         /\ job'[m.by].kind = job[m.by].kind /\ job'[m.by].size = job[m.by].size
         /\ job'[m.by].next = job[m.by].next
<1>1. TypeInv /\ m.by \in Callers
  BY DEF SenderInv, TypeInv, TypeOK
<1>2. CASE Deliver(m)
  BY <1>1, <1>2, BecomeStage DEF Deliver, Awaited, At, Stages
<1>3. CASE ~ Deliver(m)
  BY <1>1, <1>3, BecomeStage DEF Refuse, Awaited, At, Stages
<1> QED
  BY <1>2, <1>3

(* A request that brings no chunk: it is refused, or asks for an image.     *)
LEMMA RefuseStep ==
  ASSUME SenderInv, NEW m \in wire, UNCHANGED inbox,
         Refuse(m) \/ Deliver(m), Deliver(m) => m.kind = "image"
  PROVE  WireInv' /\ PrefixInv' /\ \A d \in Callers : CallInv(d)'
<1>1. TypeInv /\ WireInv /\ PrefixInv /\ m.by \in Callers /\ CallInv(m.by)
  BY AnswerStep DEF SenderInv
<1>2. \A d, n : Arrived(d, n)' = Arrived(d, n) /\ Places(d, n)' = Places(d, n)
  BY NothingArrives
<1>3. WireInv'
  BY <1>1, <1>2, AnswerStep DEF WireInv
<1>4. PrefixInv'
  BY <1>1, <1>2 DEF PrefixInv, InOrder
<1>5. ASSUME NEW d \in Callers, d # m.by PROVE CallInv(d)'
  <2>1. job'[d] = job[d] /\ \A o \in wire' : o.by # m.by => o \in wire
    BY <1>5, AnswerStep
  <2> QED
    BY <1>1, <1>2, <1>5, <2>1, AnswerStep, OthersKeep DEF SenderInv
<1>6. CallInv(m.by)'
  <2> DEFINE c == m.by
  <2>1. \A o \in wire' : o \in wire /\ o # m
    BY AnswerStep
  <2>2. CASE ~ Awaited(m)
    <3>1. job'[c] = job[c] /\ calls' = calls /\ file' = file
      BY <2>2, AnswerStep
    <3> QED
      BY <1>1, <1>2, <2>1, <3>1 DEF CallInv, MessageInv, At
  <2>3. CASE Awaited(m)
    <3>1. /\ job[c].stage = "sent" /\ calls[c] = m.call /\ calls' = calls
          /\ job'[c].stage \in {"accepted", "refused"}
          /\ job'[c].stage = "accepted" => m.kind = "image"
          /\ job'[c].kind = job[c].kind /\ job'[c].size = job[c].size /\ job'[c].next = job[c].next
      BY <2>3, AnswerStep
    <3>2. \A o \in wire' : ~ (o.by = c /\ o.call = calls[c])
      BY <1>1, <2>1, <3>1 DEF WireInv
    <3>3. m.kind = job[c].kind
      BY <1>1, <3>1 DEF CallInv, At
    <3>4. job[c].kind = "message" => Arrived(c, calls[c]) = First(job[c].next)
      BY <1>1, <3>1 DEF CallInv, MessageInv
    <3> QED
      BY <1>1, <1>2, <3>1, <3>2, <3>3, <3>4 DEF CallInv, MessageInv, At
  <2> QED
    BY <2>2, <2>3
<1> QED
  BY <1>3, <1>4, <1>5, <1>6

(* A chunk arrives: it is the next one of its call.                        *)
LEMMA DeliverStep ==
  ASSUME SenderInv, NEW m \in wire, Deliver(m), m.kind = "message"
  PROVE  WireInv' /\ PrefixInv' /\ \A d \in Callers : CallInv(d)'
<1> DEFINE c == m.by
           e == [by |-> m.by, call |-> m.call, chunk |-> m.chunk]
<1>1. /\ TypeInv /\ WireInv /\ PrefixInv /\ c \in Callers /\ CallInv(c) /\ m \in Requests
      /\ inbox \in Seq(Chunks) /\ inbox' = Append(inbox, e)
  BY AnswerStep DEF SenderInv, TypeInv, Deliver
<1>2. e \in Chunks /\ m.chunk \in Nat /\ m.call \in Nat
  BY <1>1 DEF Requests, Chunks
<1>3. \A d, n : /\ d = c /\ n = m.call =>
                     /\ Arrived(d, n)' = Arrived(d, n) \cup {m.chunk}
                     /\ Places(d, n)' = Places(d, n) \cup {Len(inbox) + 1}
                /\ ~ (d = c /\ n = m.call) =>
                     Arrived(d, n)' = Arrived(d, n) /\ Places(d, n)' = Places(d, n)
                /\ \A i \in Places(d, n) : i \in 1 .. Len(inbox) /\ inbox'[i] = inbox[i]
  <2> SUFFICES ASSUME NEW d, NEW n
               PROVE  /\ d = c /\ n = m.call =>
                           /\ Arrived(d, n)' = Arrived(d, n) \cup {m.chunk}
                           /\ Places(d, n)' = Places(d, n) \cup {Len(inbox) + 1}
                      /\ ~ (d = c /\ n = m.call) =>
                           Arrived(d, n)' = Arrived(d, n) /\ Places(d, n)' = Places(d, n)
                      /\ \A i \in Places(d, n) : i \in 1 .. Len(inbox) /\ inbox'[i] = inbox[i]
    OBVIOUS
  <2>1. /\ Arrived(d, n)' = Arrived(d, n) \cup (IF e.by = d /\ e.call = n THEN {e.chunk} ELSE {})
        /\ Places(d, n)' =
             Places(d, n) \cup (IF e.by = d /\ e.call = n THEN {Len(inbox) + 1} ELSE {})
        /\ \A i \in Places(d, n) : i \in 1 .. Len(inbox) /\ inbox'[i] = inbox[i]
    <3> HIDE DEF e
    <3> QED
      BY <1>1, <1>2, ChunkArrives
  <2> QED
    BY <2>1
<1>4. /\ inbox'[Len(inbox) + 1] = e /\ Len(inbox) \in Nat
      /\ DOMAIN inbox' = 1 .. Len(inbox) + 1
      /\ \A i \in DOMAIN inbox : i \in 1 .. Len(inbox) /\ inbox'[i] = inbox[i]
      /\ DOMAIN inbox = 1 .. Len(inbox)
  BY <1>1, <1>2, ChunkComesLast
<1>5. /\ m.chunk < MaxSize /\ Arrived(c, m.call) = First(m.chunk)
      /\ Arrived(c, m.call)' = First(m.chunk + 1)
  <2>1. m.chunk < MaxSize /\ Arrived(m.by, m.call) = First(m.chunk)
    BY <1>1 DEF WireInv
  <2>2. Arrived(m.by, m.call)' = Arrived(m.by, m.call) \cup {m.chunk}
    BY <1>3
  <2> QED
    BY <1>2, <2>1, <2>2, FirstGrows
<1>6. WireInv'
  <2>1. \A o \in wire' : o \in wire /\ ~ (o.by = c /\ o.call = m.call)
    BY <1>1, AnswerStep DEF WireInv
  <2>2. \A o \in wire' : o.kind = "message" =>
          o.chunk < MaxSize /\ Arrived(o.by, o.call)' = First(o.chunk)
    BY <1>1, <1>3, <2>1 DEF WireInv
  <2>3. \A i \in DOMAIN inbox' : inbox'[i].call \in 1 .. calls'[inbox'[i].by]
    <3>1. calls' = calls /\ m.call \in 1 .. calls[c]
      BY <1>1, AnswerStep DEF WireInv
    <3>2. ASSUME NEW i \in DOMAIN inbox' PROVE i \in DOMAIN inbox \/ i = Len(inbox) + 1
      BY <1>4, <3>2
    <3> QED
      BY <1>1, <1>4, <3>1, <3>2 DEF WireInv
  <2> QED
    BY <1>1, <2>1, <2>2, <2>3, AnswerStep DEF WireInv
<1>7. PrefixInv'
  <2>1. ASSUME NEW d \in Callers, NEW n \in Nat, ~ (d = c /\ n = m.call)
        PROVE  (\E k \in 0 .. MaxSize : Arrived(d, n)' = First(k)) /\ InOrder(d, n)'
    <3>1. (\E k \in 0 .. MaxSize : Arrived(d, n) = First(k)) /\ InOrder(d, n)
      BY <1>1 DEF PrefixInv
    <3>2. Arrived(d, n)' = Arrived(d, n) /\ Places(d, n)' = Places(d, n)
      BY <1>3, <2>1
    <3>3. \A i \in Places(d, n) : inbox'[i] = inbox[i]
      BY <1>3
    <3> QED
      BY <3>1, <3>2, <3>3 DEF InOrder
  <2>2. m.chunk + 1 \in 0 .. MaxSize
    BY <1>2, <1>5, SenderAssumption
  <2>3. InOrder(c, m.call)'
    <3>1. ASSUME NEW i \in Places(c, m.call)', NEW j \in Places(c, m.call)', i < j
          PROVE  inbox'[i].chunk < inbox'[j].chunk
      <4>1. i \in Places(c, m.call) \/ i = Len(inbox) + 1
        BY <1>3, <3>1
      <4>2. j \in Places(c, m.call) \/ j = Len(inbox) + 1
        BY <1>3, <3>1
      <4>3. i \in Places(c, m.call)
        <5>1. j \in 1 .. Len(inbox) + 1
          BY <1>3, <1>4, <4>2
        <5> QED
          BY <1>4, <3>1, <4>1, <5>1
      <4>4. CASE j \in Places(c, m.call)
        BY <1>1, <1>2, <1>3, <3>1, <4>3, <4>4 DEF PrefixInv, InOrder
      <4>5. CASE j = Len(inbox) + 1
        <5>1. inbox[i].chunk \in First(m.chunk)
          BY <1>5, <4>3 DEF Arrived
        <5> QED
          BY <1>2, <1>3, <1>4, <4>3, <4>5, <5>1, FirstGrows
      <4> QED
        BY <4>2, <4>4, <4>5
    <3> QED
      BY <3>1 DEF InOrder
  <2> QED
    BY <1>5, <2>1, <2>2, <2>3 DEF PrefixInv
<1>8. ASSUME NEW d \in Callers, d # c PROVE CallInv(d)'
  <2>1. job'[d] = job[d] /\ \A o \in wire' : o.by # c => o \in wire
    BY <1>8, AnswerStep
  <2> QED
    BY <1>1, <1>3, <1>8, <2>1, AnswerStep, OthersKeep DEF SenderInv
<1>9. CallInv(c)'
  <2>1. \A o \in wire' : o \in wire /\ ~ (o.by = c /\ o.call = m.call)
    BY <1>1, AnswerStep DEF WireInv
  <2>2. CASE m.call # calls[c]
    <3>1. ~ Awaited(m) /\ job'[c] = job[c] /\ calls' = calls /\ file' = file
      BY <2>2, AnswerStep
    <3>2. Arrived(c, calls[c])' = Arrived(c, calls[c])
      <4>1. PICK n : n = calls[c] /\ n = calls'[c]
        BY <3>1
      <4>2. Arrived(c, n)' = Arrived(c, n)
        BY <1>3, <2>2, <4>1
      <4> QED
        BY <4>1, <4>2
    <3> QED
      BY <1>1, <2>1, <3>1, <3>2 DEF CallInv, MessageInv, At
  <2>3. CASE m.call = calls[c]
    <3>1. /\ job[c].stage \in {"sent", "failed", "idle"}
          /\ ~ At(c, "idle") => m.chunk = job[c].next /\ m.kind = job[c].kind
      BY <1>1, <2>3 DEF CallInv
    <3>2. \A o \in wire' : ~ (o.by = c /\ o.call = calls[c])
      BY <2>1, <2>3
    <3>3. CASE Awaited(m)
      <4>1. /\ job[c].stage = "sent" /\ calls' = calls /\ job'[c].stage = "accepted"
            /\ job'[c].kind = job[c].kind /\ job'[c].size = job[c].size /\ job'[c].next = job[c].next
        BY <3>3, AnswerStep
      <4>2. Arrived(c, calls[c])' = First(job[c].next + 1)
        BY <1>5, <2>3, <3>1, <4>1 DEF At
      <4> QED
        BY <1>1, <3>2, <4>1, <4>2 DEF CallInv, MessageInv, At
    <3>4. CASE ~ Awaited(m)
      <4>1. job'[c] = job[c] /\ calls' = calls /\ file' = file
        BY <3>4, AnswerStep
      <4>2. job[c].stage # "sent"
        BY <2>3, <3>1, <3>4 DEF Awaited, At
      <4>3. At(c, "failed") => Arrived(c, calls[c])' = First(job[c].next + 1)
        BY <1>5, <2>3, <3>1, <4>1 DEF At
      <4> QED
        BY <1>1, <3>1, <3>2, <4>1, <4>2, <4>3 DEF CallInv, MessageInv, At
    <3> QED
      BY <3>3, <3>4
  <2> QED
    BY <2>2, <2>3
<1> QED
  BY <1>6, <1>7, <1>8, <1>9

(* A new call finds no trace of itself.                                    *)
LEMMA BeginStep ==
  ASSUME SenderInv, NEW c \in Callers, NEW kind \in Kinds, NEW image \in 0 .. Len(Images),
         NEW size \in 0 .. MaxSize, Begin(c, kind, image, size)
  PROVE  WireInv' /\ PrefixInv' /\ \A d \in Callers : CallInv(d)'
<1>1. /\ TypeInv /\ WireInv /\ PrefixInv /\ CallInv(c)
      /\ UNCHANGED <<inbox, wire, file>>
      /\ job \in [Callers -> Job] /\ calls \in [Callers -> Nat]
  BY DEF SenderInv, Begin, TypeInv, TypeOK
<1>2. /\ job'[c].stage = IF size = 0 THEN "failed" ELSE "token"
      /\ job'[c].kind = kind /\ job'[c].size = size /\ job'[c].next = 0
      /\ \A d \in Callers : d # c => job'[d] = job[d]
  BY <1>1 DEF Begin, Idle
<1>3. PICK n \in Nat : n = calls[c] /\ calls'[c] = n + 1 /\ \A d \in Callers : d # c => calls'[d] = calls[d]
  BY <1>1 DEF Begin
<1>4. \A d, k : Arrived(d, k)' = Arrived(d, k) /\ Places(d, k)' = Places(d, k)
  BY <1>1, NothingArrives
<1>5. \A d \in Callers : 1 .. calls[d] \subseteq 1 .. calls'[d]
  BY <1>1, <1>3
<1>6. WireInv'
  <2>1. \A m \in wire : m.by \in Callers
    BY <1>1 DEF TypeInv, TypeOK
  <2>2. \A i \in DOMAIN inbox : inbox[i].by \in Callers
    <3>1. inbox \in Seq(Chunks)
      BY <1>1 DEF TypeInv
    <3>2. \A i \in DOMAIN inbox : inbox[i] \in Chunks
      BY <3>1, ElementOfSeq, LenProperties
    <3> QED
      BY <3>2 DEF Chunks
  <2> QED
    BY <1>1, <1>4, <1>5, <2>1, <2>2 DEF WireInv
<1>7. PrefixInv'
  BY <1>1, <1>4 DEF PrefixInv, InOrder
<1>8. Arrived(c, n + 1)' = {}
  <2>1. \A i \in DOMAIN inbox : ~ (inbox[i].by = c /\ inbox[i].call = n + 1)
    BY <1>1, <1>3 DEF WireInv
  <2>2. Places(c, n + 1) = {}
    BY <2>1 DEF Places
  <2>3. Arrived(c, n + 1) = {}
    BY <2>2 DEF Arrived
  <2> QED
    BY <1>4, <2>3
<1>9. \A m \in wire : ~ (m.by = c /\ m.call = n + 1)
  BY <1>1, <1>3 DEF WireInv
<1>10. CallInv(c)'
  <2>1. calls'[c] > 0 /\ First(0) = {}
    BY <1>3, FirstGrows
  <2>2. size # 0 => 0 < size /\ size <= MaxSize
    BY SenderAssumption
  <2>3. MessageInv(c)'
    BY <1>2, <1>3, <1>8, <2>1 DEF MessageInv, At
  <2> QED
    BY <1>1, <1>2, <1>3, <1>9, <2>1, <2>2, <2>3 DEF CallInv, At
<1>11. ASSUME NEW d \in Callers, d # c PROVE CallInv(d)'
  BY <1>1, <1>2, <1>3, <1>4, <1>11, OthersKeep DEF SenderInv
<1> QED
  BY <1>6, <1>7, <1>10, <1>11

LEMMA ChunkStep ==
  ASSUME SenderInv, [Next]_vars
  PROVE  WireInv' /\ PrefixInv' /\ \A d \in Callers : CallInv(d)'
<1>1. ASSUME NEW c \in Callers, CallText(c) \/ CallCard(c) \/ CallImage(c)
      PROVE  WireInv' /\ PrefixInv' /\ \A d \in Callers : CallInv(d)'
  <2>1. PICK kind \in Kinds, image \in 0 .. Len(Images), size \in 0 .. MaxSize :
          Begin(c, kind, image, size)
    BY <1>1, BeginsHow
  <2> QED
    BY <2>1, BeginStep
<1>2. ASSUME NEW c \in Callers, Step(c) \/ Grant(c)
      PROVE  WireInv' /\ PrefixInv' /\ \A d \in Callers : CallInv(d)'
  BY <1>2, SendStep, AskStep, FailStep, AcceptedStep, FileStep, ReturnStep, GrantStep DEF Step
<1>3. ASSUME NEW m \in wire, Deliver(m) \/ Refuse(m)
      PROVE  WireInv' /\ PrefixInv' /\ \A d \in Callers : CallInv(d)'
  <2>1. m.kind \in Kinds
    BY DEF SenderInv, TypeInv, Requests
  <2>2. CASE Deliver(m) /\ m.kind = "message"
    BY <2>2, DeliverStep
  <2>3. CASE Deliver(m) /\ m.kind = "image"
    BY <2>3, RefuseStep DEF Deliver
  <2>4. CASE Refuse(m) /\ ~ Deliver(m)
    BY <2>4, RefuseStep DEF Refuse
  <2> QED
    BY <1>3, <2>1, <2>2, <2>3, <2>4 DEF Kinds
<1>4. ASSUME UNCHANGED <<job, calls, wire, inbox, file, opener>>
      PROVE  WireInv' /\ PrefixInv' /\ \A d \in Callers : CallInv(d)'
  <2>1. \A d, n : Arrived(d, n)' = Arrived(d, n) /\ Places(d, n)' = Places(d, n)
    BY <1>4, NothingArrives
  <2>2. ASSUME NEW d \in Callers PROVE CallInv(d)'
    BY <1>4, <2>1 DEF SenderInv, CallInv, MessageInv, At
  <2> QED
    BY <1>4, <2>1, <2>2 DEF SenderInv, WireInv, PrefixInv, InOrder
<1>5. CASE Tick \/ Finished \/ UNCHANGED vars
  BY <1>4, <1>5 DEF Tick, Finished, vars
<1> QED
  BY <1>1, <1>2, <1>3, <1>5 DEF Next
-----------------------------------------------------------------------------
(* The files.                                                              *)

(* A step that leaves the files alone and begins no download.               *)
LEMMA NoDownload ==
  ASSUME ImageInv, UNCHANGED <<file, opener>>, NEW c \in Callers,
         \A d \in Callers : d # c => job'[d] = job[d],
         \/ job'[c].kind = "message"
         \/ /\ job'[c].kind = job[c].kind /\ job'[c].image = job[c].image
            /\ job'[c].size = job[c].size /\ job'[c].next = job[c].next
            /\ \/ job'[c].stage = job[c].stage
               \/ job'[c].stage = "failed"
               \/ job'[c].stage \in Before /\ job[c].stage \in Before
  PROVE  ImageInv'
<1>1. \A k \in DOMAIN Images : file'[k] \subseteq 1 .. Images[k]
  BY DEF ImageInv
<1>2. ASSUME NEW d \in Callers, job'[d].kind = "image"
      PROVE  /\ job'[d].image \in DOMAIN Images /\ job'[d].size = Images[job'[d].image]
             /\ job'[d].stage \in Before => job'[d].next = 0
             /\ job'[d].stage = "succeeded" => job'[d].next = job'[d].size
             /\ job'[d].stage \in {"stream", "succeeded"} /\ opener'[job'[d].image] = {d} =>
                  1 .. job'[d].next \subseteq file'[job'[d].image]
  <2>1. job'[d].kind = job[d].kind /\ job'[d].image = job[d].image
        /\ job'[d].size = job[d].size /\ job'[d].next = job[d].next
    BY <1>2
  <2>2. \/ job'[d].stage = job[d].stage \/ job'[d].stage = "failed"
        \/ job'[d].stage \in Before /\ job[d].stage \in Before
    BY <1>2
  <2> QED
    BY <1>2, <2>1, <2>2 DEF ImageInv, At, Before
<1> QED
  BY <1>1, <1>2 DEF ImageInv, At

LEMMA OpenImage ==
  ASSUME SenderInv, NEW c \in Callers, OpenFile(c)
  PROVE  ImageInv'
<1>1. /\ TypeInv /\ ImageInv /\ job[c].stage = "accepted" /\ job[c].kind = "image"
      /\ file \in [DOMAIN Images -> SUBSET (1 .. MaxSize)]
      /\ opener \in [DOMAIN Images -> SUBSET Callers]
  BY DEF SenderInv, OpenFile, At, TypeInv, TypeOK
<1>2. PICK k \in DOMAIN Images : k = job[c].image /\ job[c].size = Images[k] /\ job[c].next = 0
  BY <1>1 DEF ImageInv, Before
<1>3. /\ job'[c].stage = "stream" /\ job'[c].kind = "image" /\ job'[c].image = k
      /\ job'[c].size = job[c].size /\ job'[c].next = 0
      /\ \A d \in Callers : d # c => job'[d] = job[d]
  BY <1>1, <1>2, BecomeStage DEF OpenFile, Stages
<1>4. /\ \A l \in DOMAIN Images : file'[l] = IF l = k THEN {} ELSE file[l]
      /\ \A l \in DOMAIN Images : opener'[l] = IF l = k THEN {c} ELSE opener[l]
  BY <1>1, <1>2 DEF OpenFile
<1>5. \A l \in DOMAIN Images : file'[l] \subseteq 1 .. Images[l]
  BY <1>1, <1>4 DEF ImageInv
<1>6. ASSUME NEW d \in Callers, d # c, job'[d].kind = "image",
             job'[d].stage \in {"stream", "succeeded"}, opener'[job'[d].image] = {d}
      PROVE  1 .. job'[d].next \subseteq file'[job'[d].image]
  <2>1. job[d] = job'[d] /\ job[d].image \in DOMAIN Images
    BY <1>1, <1>3, <1>6 DEF ImageInv
  <2>2. job[d].image # k
    BY <1>4, <1>6, <2>1
  <2> QED
    BY <1>1, <1>4, <1>6, <2>1, <2>2 DEF ImageInv
<1>7. 1 .. job'[c].next = {}
  BY <1>3
<1>8. \A d \in Callers : job'[d].kind = "image" =>
        /\ job'[d].image \in DOMAIN Images /\ job'[d].size = Images[job'[d].image]
        /\ job'[d].stage \in Before => job'[d].next = 0
        /\ job'[d].stage = "succeeded" => job'[d].next = job'[d].size
  BY <1>1, <1>2, <1>3 DEF ImageInv, At, Before
<1> QED
  BY <1>5, <1>6, <1>7, <1>8 DEF ImageInv, At

LEMMA SaveImage ==
  ASSUME SenderInv, NEW c \in Callers, SavePiece(c)
  PROVE  ImageInv'
<1>1. /\ TypeInv /\ ImageInv /\ job[c].stage = "stream" /\ job[c].kind = "image"
      /\ job \in [Callers -> Job] /\ file \in [DOMAIN Images -> SUBSET (1 .. MaxSize)]
      /\ opener' = opener
      /\ job[c].next \in Nat /\ job[c].size \in Nat /\ job[c].next < job[c].size
  BY JobFields DEF SenderInv, SavePiece, At, TypeInv, TypeOK, CallInv, Kinds
<1>2. PICK k \in DOMAIN Images : k = job[c].image /\ job[c].size = Images[k]
  BY <1>1 DEF ImageInv
<1>3. PICK piece \in Nat : piece = job[c].next + 1 /\ piece \in 1 .. job[c].size
  BY <1>1
<1>4. /\ job'[c].stage = IF piece = job[c].size THEN "succeeded" ELSE "stream"
      /\ job'[c].kind = "image" /\ job'[c].image = k /\ job'[c].size = job[c].size
      /\ job'[c].next = piece /\ \A d \in Callers : d # c => job'[d] = job[d]
  BY <1>1, <1>2, <1>3 DEF SavePiece, Job
<1>5. \A l \in DOMAIN Images : file'[l] = IF l = k THEN file[k] \cup {piece} ELSE file[l]
  BY <1>1, <1>2, <1>3 DEF SavePiece
<1>6. \A l \in DOMAIN Images : file'[l] \subseteq 1 .. Images[l]
  BY <1>1, <1>2, <1>3, <1>5 DEF ImageInv
<1>7. opener'[k] = {c} => 1 .. piece \subseteq file'[k]
  <2>1. opener[k] = {c} => 1 .. job[c].next \subseteq file[k]
    BY <1>1, <1>2 DEF ImageInv
  <2>2. 1 .. piece = (1 .. job[c].next) \cup {piece}
    BY <1>1, <1>3
  <2> QED
    BY <1>1, <1>5, <2>1, <2>2
<1>8. ASSUME NEW d \in Callers, d # c, job'[d].kind = "image",
             job'[d].stage \in {"stream", "succeeded"}, opener'[job'[d].image] = {d}
      PROVE  1 .. job'[d].next \subseteq file'[job'[d].image]
  <2>1. job[d] = job'[d] /\ job[d].image \in DOMAIN Images
    BY <1>1, <1>4, <1>8 DEF ImageInv
  <2>2. 1 .. job[d].next \subseteq file[job[d].image]
    BY <1>1, <1>8, <2>1 DEF ImageInv
  <2> QED
    BY <1>5, <2>1, <2>2
<1>9. \A d \in Callers : job'[d].kind = "image" =>
        /\ job'[d].image \in DOMAIN Images /\ job'[d].size = Images[job'[d].image]
        /\ job'[d].stage \in Before => job'[d].next = 0
        /\ job'[d].stage = "succeeded" => job'[d].next = job'[d].size
  BY <1>1, <1>2, <1>4 DEF ImageInv, At, Before
<1> QED
  BY <1>4, <1>6, <1>7, <1>8, <1>9 DEF ImageInv, At

LEMMA ImageStep ==
  ASSUME SenderInv, [Next]_vars
  PROVE  ImageInv'
<1>1. TypeInv /\ ImageInv /\ job \in [Callers -> Job]
  BY DEF SenderInv, TypeInv, TypeOK
<1>2. ASSUME NEW c \in Callers, CallText(c) \/ CallCard(c) PROVE ImageInv'
  <2>1. PICK size : Begin(c, "message", 0, size)
    BY <1>2 DEF CallText, CallCard
  <2>2. job'[c].kind = "message" /\ \A d \in Callers : d # c => job'[d] = job[d]
    BY <1>1, <2>1 DEF Begin, Idle
  <2> QED
    BY <1>1, <2>1, <2>2, NoDownload DEF Begin
<1>3. ASSUME NEW c \in Callers, CallImage(c) PROVE ImageInv'
  <2>1. PICK k \in DOMAIN Images : Begin(c, "image", k, Images[k])
    BY <1>3 DEF CallImage
  <2>2. Images[k] # 0
    BY ImagesFact
  <2>3. /\ job'[c].stage = "token" /\ job'[c].image = k /\ job'[c].size = Images[k]
        /\ job'[c].next = 0 /\ \A d \in Callers : d # c => job'[d] = job[d]
        /\ UNCHANGED <<file, opener>>
    BY <1>1, <2>1, <2>2 DEF Begin, Idle
  <2> QED
    BY <1>1, <2>3 DEF ImageInv, At
<1>4. ASSUME NEW c \in Callers, UseToken(c) \/ TakeToken(c) \/ AskToken(c) \/ Fail(c) PROVE ImageInv'
  <2>1. PICK st \in Stages : /\ Become(c, st)
                             /\ st = "failed" \/ (st \in Before /\ job[c].stage \in Before)
    BY <1>4 DEF UseToken, TakeToken, AskToken, Fail, Stages, Before, At
  <2>2. UNCHANGED <<file, opener>>
    BY <1>4 DEF UseToken, TakeToken, AskToken, Fail
  <2> QED
    BY <1>1, <2>1, <2>2, BecomeStage, NoDownload
<1>5. ASSUME NEW c \in Callers, Accepted(c) \/ Return(c) PROVE ImageInv'
  <2>1. job'[c].kind = "message" /\ \A d \in Callers : d # c => job'[d] = job[d]
    BY <1>1, <1>5, JobFields DEF Accepted, Return, Idle, Kinds, Job
  <2> QED
    BY <1>1, <1>5, <2>1, NoDownload DEF Accepted, Return
<1>6. ASSUME NEW c \in Callers, Grant(c) PROVE ImageInv'
  <2>1. /\ job[c].stage = "auth" /\ job'[c].stage = "granted" /\ job'[c].kind = job[c].kind
        /\ job'[c].image = job[c].image /\ job'[c].size = job[c].size
        /\ job'[c].next = job[c].next /\ \A d \in Callers : d # c => job'[d] = job[d]
        /\ UNCHANGED <<file, opener>>
    BY <1>1, <1>6 DEF Grant, At, Job
  <2>2. job[c].stage \in Before /\ job'[c].stage \in Before
    BY <2>1 DEF Before
  <2> QED
    BY <1>1, <2>1, <2>2, NoDownload
<1>7. ASSUME NEW m \in wire, Deliver(m) \/ Refuse(m) PROVE ImageInv'
  <2>1. m.by \in Callers
    BY <1>1 DEF TypeInv, TypeOK
  <2>2. CASE UNCHANGED job
    BY <1>1, <1>7, <2>1, <2>2, NoDownload DEF Deliver, Refuse
  <2>3. CASE Awaited(m) /\ (Become(m.by, "accepted") \/ Become(m.by, "refused"))
    <3>1. PICK st \in Stages : Become(m.by, st) /\ st \in Before /\ job[m.by].stage \in Before
      BY <2>3 DEF Awaited, At, Stages, Before
    <3>2. UNCHANGED <<file, opener>>
      BY <1>7 DEF Deliver, Refuse
    <3> QED
      BY <1>1, <2>1, <3>1, <3>2, BecomeStage, NoDownload
  <2> QED
    BY <1>7, <2>2, <2>3 DEF Deliver, Refuse
<1>8. CASE Tick \/ Finished \/ UNCHANGED vars
  BY <1>1, <1>8 DEF Tick, Finished, vars, ImageInv, At
<1> QED
  BY <1>2, <1>3, <1>4, <1>5, <1>6, <1>7, <1>8, OpenImage, SaveImage DEF Next, Step
-----------------------------------------------------------------------------
(* The results.                                                            *)

\* In every reachable state the wire, the inbox and the files agree with what
\* the callers know of them.
THEOREM SenderInvariant == Spec => []SenderInv
<1>1. SenderInv /\ [Next]_vars => SenderInv'
  BY TypeStep, TimesStep, ChunkStep, ImageStep DEF SenderInv
<1> QED
  BY SenderInitInv, <1>1, PTL DEF Spec

\* _get_tenant_access_token keeps a token Margin short of its life, and that is
\* enough: whoever's refresh answers last, and however long a request that
\* leaves with the cached token travels within the timeout, the token has not
\* ended when it arrives.
THEOREM TokenAlwaysValid == Spec => []TokenValidWhenUsed
<1>1. SenderInv => TokenValidWhenUsed
  <2> SUFFICES ASSUME SenderInv PROVE TokenValidWhenUsed
    OBVIOUS
  <2>1. TypeOK /\ now \in Nat /\ granted \in Seq(Nat)
    BY SenderAssumption DEF SenderInv, TypeInv, TypeOK
  <2>2. ASSUME NEW m \in wire PROVE now < granted[m.token]
    <3>1. now <= m.until /\ m.until < granted[m.token]
      BY DEF SenderInv, TimesInv
    <3>2. m.until \in Nat /\ m.token \in 1 .. Len(granted)
      BY <2>1 DEF SenderInv, TypeInv, TypeOK, Requests
    <3>3. granted[m.token] \in Nat
      BY <2>1, <3>2, ElementOfSeq
    <3> QED
      BY <2>1, <3>1, <3>2, <3>3
  <2> QED
    BY <2>1, <2>2 DEF TokenValidWhenUsed
<1> QED
  BY SenderInvariant, <1>1, PTL

\* send_text_reply awaits the answer to a chunk before it sends the next one,
\* so what arrives of a text has no gap and no repetition, also after a call
\* that gave up while its last chunk still travelled.
THEOREM ArrivedIsAlwaysPrefix == Spec => []ArrivedIsPrefix
<1>1. SenderInv => ArrivedIsPrefix
  <2>1. \A n \in 1 .. MaxCalls : n \in Nat
    BY SenderAssumption
  <2> QED
    BY <2>1 DEF SenderInv, PrefixInv, InOrder, ArrivedIsPrefix
<1> QED
  BY SenderInvariant, <1>1, PTL

\* A SendResult with success means every chunk has arrived; one with a
\* chunk_index means the chunks before it have, and at most that one more.  A
\* returned path is that of a whole image, unless a later download of the same
\* file_key has emptied it meanwhile.
THEOREM ReportIsAlwaysTrue == Spec => []ReportIsTrue
<1>1. SenderInv => ReportIsTrue
  <2> SUFFICES ASSUME SenderInv, NEW c \in Callers
               PROVE  /\ job[c].kind = "message" => MessageInv(c)
                      /\ At(c, "succeeded") /\ job[c].kind = "image" /\ opener[job[c].image] = {c}
                           => file[job[c].image] = 1 .. Images[job[c].image]
    BY DEF SenderInv, CallInv, MessageInv, ReportIsTrue, At
  <2> QED
    BY DEF SenderInv, CallInv, ImageInv, At
<1> QED
  BY SenderInvariant, <1>1, PTL
=============================================================================
