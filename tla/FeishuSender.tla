---------------------------- MODULE FeishuSender ----------------------------
(* FeishuAsyncSender (src/channel_gateway/channels/feishu/sender.py): texts   *)
(* cut into chunks, cards and image downloads, over one cached tenant token. *)
(*                                                                          *)
(* Callers are coroutines that use the one sender of the process; they       *)
(* interleave at every await.  The server of Feishu is external: it grants   *)
(* tokens that live Life units from the moment it grants them, and puts the  *)
(* chunks it accepts in an inbox.  A request is on the wire for at most      *)
(* Delay, and so is a grant on its way back: the timeout of httpx.  A caller *)
(* can give up while its request still travels, and the chunk then arrives   *)
(* after the failure was returned.                                           *)
(*                                                                          *)
(* An image is saved under its file_key: downloads of the same key open the  *)
(* same path, and each writes at its own place in it.                        *)
(***************************************************************************)
EXTENDS Integers, Sequences, FiniteSets, FiniteSetsExt

CONSTANTS Callers,   \* coroutines that send
          MaxSize,   \* chunks of a text, pieces of an image: a bound of the model
          Images,    \* the pieces of the image of each file_key
          MaxCalls,  \* calls of all callers, a bound of the model
          MaxTime,   \* the last instant, a bound of the model
          Life,      \* "expire" of the token answer
          Margin,    \* the 300 seconds taken off it
          Delay      \* the timeout of the HTTP client

ASSUME SenderAssumption ==
  /\ MaxSize \in Nat \ {0} /\ MaxCalls \in Nat /\ MaxTime \in Nat
  /\ Images \in Seq(1 .. MaxSize)
  /\ Life \in Nat /\ Margin \in Nat /\ Delay \in Nat

\* 300 seconds of margin; httpx gives 10 seconds each to a free connection, to
\* connecting, to sending and to an answer.  One that trickles in is left out.
ASSUME MarginAssumption == 2 * Delay <= Margin

\* A token lives longer (two hours, the default of "expire") than its grant
\* and the first request with it may travel.
ASSUME LifeAssumption == 2 * Delay < Life

VARIABLES
  now,      \* time.time()
  granted,  \* the instant each token granted so far ends
  cache,    \* _tenant_access_token (0 for None) and _token_expire_time
  job,      \* the call each caller is in
  calls,    \* calls each caller has made
  wire,     \* requests that are travelling to the server
  inbox,    \* chunks the server has accepted, in the order it did
  file,     \* the pieces in the file of each file_key
  opener    \* who emptied that file last, if anybody did (history)

vars == <<now, granted, cache, job, calls, wire, inbox, file, opener>>

Kinds  == {"message", "image"}
Stages == {"idle", "token", "auth", "granted", "sent", "accepted", "refused",
           "stream", "succeeded", "failed"}
\* next counts the chunks that were accepted, or the pieces that were saved.
Idle   == [stage |-> "idle", kind |-> "message", image |-> 0, size |-> 0, next |-> 0,
           token |-> 0, until |-> 0]
Job    == [stage : Stages, kind : Kinds, image : 0 .. Len(Images), size : 0 .. MaxSize + 1,
           next : 0 .. MaxSize + 1, token : Nat, until : Nat]

TypeOK ==
  /\ now \in 0 .. MaxTime
  /\ granted \in Seq(Nat)
  /\ cache \in [token : 0 .. Len(granted), expire : Int]
  /\ job \in [Callers -> Job]
  /\ calls \in [Callers -> Nat]
  /\ \A m \in wire : m.token \in 1 .. Len(granted) /\ m.by \in Callers
  /\ file \in [DOMAIN Images -> SUBSET (1 .. MaxSize)]
  /\ opener \in [DOMAIN Images -> SUBSET Callers]

Init ==
  /\ now = 0
  /\ granted = << >>
  /\ cache = [token |-> 0, expire |-> 0]
  /\ job = [c \in Callers |-> Idle]
  /\ calls = [c \in Callers |-> 0]
  /\ wire = {}
  /\ inbox = << >>
  /\ file = [k \in DOMAIN Images |-> {}]
  /\ opener = [k \in DOMAIN Images |-> {}]

Made == MapThenSumSet(LAMBDA c : calls[c], Callers)
At(c, stage) == job[c].stage = stage
Become(c, stage) == job' = [job EXCEPT ![c].stage = stage]
\* The request caller c has on the wire, as the server will see it.
Request(c, token) ==
  [by |-> c, call |-> calls[c], kind |-> job[c].kind, chunk |-> job[c].next,
   token |-> token, until |-> now + Delay]
Awaited(m) == At(m.by, "sent") /\ calls[m.by] = m.call /\ job[m.by].next = m.chunk

----------------------------------------------------------------------------
(* send_text_reply, send_feishu_card_reply, download_image.                 *)

Begin(c, kind, image, size) ==
  /\ At(c, "idle") /\ Made < MaxCalls
  /\ calls' = [calls EXCEPT ![c] = @ + 1]
  /\ job' = [job EXCEPT ![c] = [Idle EXCEPT !.stage = IF size = 0 THEN "failed" ELSE "token",
                                            !.kind = kind, !.image = image, !.size = size]]
  /\ UNCHANGED <<now, granted, cache, wire, inbox, file, opener>>

\* A text is cut into chunks; an empty one fails at once.
CallText(c) == \E size \in 0 .. MaxSize : Begin(c, "message", 0, size)

\* A card is one request, answered like a chunk.
CallCard(c) == Begin(c, "message", 0, 1)

CallImage(c) == \E k \in DOMAIN Images : Begin(c, "image", k, Images[k])

\* The cached token is still good: the request leaves with it at once.
UseToken(c) ==
  /\ At(c, "token")
  /\ cache.token # 0 /\ now < cache.expire
  /\ Become(c, "sent")
  /\ wire' = wire \cup {Request(c, cache.token)}
  /\ UNCHANGED <<now, granted, cache, calls, inbox, file, opener>>

\* No token, or one that is about to end: POST to the token endpoint.
AskToken(c) ==
  /\ At(c, "token")
  /\ ~ (cache.token # 0 /\ now < cache.expire)
  /\ Become(c, "auth")
  /\ UNCHANGED <<now, granted, cache, calls, wire, inbox, file, opener>>

\* Variant: the token is kept until the very end of its life.
TakeTokenNoMargin(c) ==
  /\ At(c, "granted")
  /\ cache' = [token |-> job[c].token, expire |-> now + Life]
  /\ Become(c, "sent")
  /\ wire' = wire \cup {Request(c, job[c].token)}
  /\ UNCHANGED <<now, granted, calls, inbox, file, opener>>

\* The answer: token and expiry are stored in one go, and the request leaves.
TakeToken(c) ==
  /\ At(c, "granted")
  /\ cache' = [token |-> job[c].token, expire |-> now + Life - Margin]
  /\ Become(c, "sent")
  /\ wire' = wire \cup {Request(c, job[c].token)}
  /\ UNCHANGED <<now, granted, calls, inbox, file, opener>>

\* Variant: no timeout, only answers end a call.
FailOnAnswer(c) ==
  /\ job[c].stage \in {"granted", "accepted", "refused", "stream"}
  /\ Become(c, "failed")
  /\ UNCHANGED <<now, granted, cache, calls, wire, inbox, file, opener>>

\* Variant: a chunk that failed is passed over and the next one is sent.
FailAndGoOn(c) ==
  /\ job[c].stage \in {"auth", "granted", "sent", "accepted", "refused", "stream"}
  /\ job' = [job EXCEPT ![c].stage = IF @ = "sent" /\ job[c].next + 1 < job[c].size
                                     THEN "token" ELSE "failed",
                        ![c].next = IF job[c].stage = "sent" THEN @ + 1 ELSE @]
  /\ UNCHANGED <<now, granted, cache, calls, wire, inbox, file, opener>>

\* A network error or a timeout at any await, an answer whose code is not 0:
\* the call ends there, whatever has been delivered.
Fail(c) ==
  /\ job[c].stage \in {"auth", "granted", "sent", "accepted", "refused", "stream"}
  /\ Become(c, "failed")
  /\ UNCHANGED <<now, granted, cache, calls, wire, inbox, file, opener>>

\* Variant: the chunk after the last one counts as sent.
AcceptedEarly(c) ==
  /\ At(c, "accepted") /\ job[c].kind # "image"
  /\ job' = [job EXCEPT ![c].next = @ + 1,
                        ![c].stage = IF job[c].next + 2 >= job[c].size THEN "succeeded" ELSE "token"]
  /\ UNCHANGED <<now, granted, cache, calls, wire, inbox, file, opener>>

\* code 0: on to the next chunk, or success after the last one.
Accepted(c) ==
  /\ At(c, "accepted") /\ job[c].kind # "image"
  /\ job' = [job EXCEPT ![c].next = @ + 1,
                        ![c].stage = IF job[c].next + 1 = job[c].size THEN "succeeded" ELSE "token"]
  /\ UNCHANGED <<now, granted, cache, calls, wire, inbox, file, opener>>

\* open(file_path, "wb") empties what is under that name, also what another
\* download of the key is still writing.
OpenFile(c) ==
  /\ At(c, "accepted") /\ job[c].kind = "image"
  /\ file' = [file EXCEPT ![job[c].image] = {}]
  /\ opener' = [opener EXCEPT ![job[c].image] = {c}]
  /\ Become(c, "stream")
  /\ UNCHANGED <<now, granted, cache, calls, wire, inbox>>

\* aiter_bytes: the pieces are written one after another; the path is
\* returned after the last.
SavePiece(c) ==
  /\ At(c, "stream")
  /\ LET piece == job[c].next + 1 IN
       /\ file' = [file EXCEPT ![job[c].image] = @ \cup {piece}]
       /\ job' = [job EXCEPT ![c].next = piece,
                             ![c].stage = IF piece = job[c].size THEN "succeeded" ELSE "stream"]
  /\ UNCHANGED <<now, granted, cache, calls, wire, inbox, opener>>

\* The caller goes on with the result.
Return(c) ==
  /\ job[c].stage \in {"succeeded", "failed"}
  /\ job' = [job EXCEPT ![c] = Idle]
  /\ UNCHANGED <<now, granted, cache, calls, wire, inbox, file, opener>>

----------------------------------------------------------------------------
(* The server and the clock.                                                *)

Grant(c) ==
  /\ At(c, "auth")
  /\ granted' = Append(granted, now + Life)
  /\ job' = [job EXCEPT ![c].stage = "granted", ![c].token = Len(granted) + 1, ![c].until = now + Delay]
  /\ UNCHANGED <<now, cache, calls, wire, inbox, file, opener>>

\* The request arrives and is accepted: a chunk is in the chat from now on.
Deliver(m) ==
  /\ wire' = wire \ {m}
  /\ inbox' = IF m.kind = "image" THEN inbox
              ELSE Append(inbox, [by |-> m.by, call |-> m.call, chunk |-> m.chunk])
  /\ IF Awaited(m) THEN Become(m.by, "accepted") ELSE UNCHANGED job
  /\ UNCHANGED <<now, granted, cache, calls, file, opener>>

\* The request arrives and is refused.
Refuse(m) ==
  /\ wire' = wire \ {m}
  /\ IF Awaited(m) THEN Become(m.by, "refused") ELSE UNCHANGED job
  /\ UNCHANGED <<now, granted, cache, calls, inbox, file, opener>>

\* Time passes when nothing that travels is due.
Tick ==
  /\ now < MaxTime
  /\ \A m \in wire : now < m.until
  /\ \A c \in Callers : At(c, "granted") => now < job[c].until
  /\ now' = now + 1
  /\ UNCHANGED <<granted, cache, job, calls, wire, inbox, file, opener>>

Finished == /\ \A c \in Callers : At(c, "idle")
            /\ Made = MaxCalls /\ now = MaxTime /\ wire = {}
            /\ UNCHANGED vars

Step(c) == \/ UseToken(c) \/ AskToken(c) \/ TakeToken(c) \/ Fail(c)
           \/ Accepted(c) \/ OpenFile(c) \/ SavePiece(c) \/ Return(c)

Next == \/ \E c \in Callers : CallText(c) \/ CallCard(c) \/ CallImage(c) \/ Step(c) \/ Grant(c)
        \/ \E m \in wire : Deliver(m) \/ Refuse(m)
        \/ Tick
        \/ Finished

\* Every await ends, if only with the timeout.
Fairness == \A c \in Callers : WF_vars(Step(c))

Spec == Init /\ [][Next]_vars /\ Fairness
----------------------------------------------------------------------------
\* A token is valid wherever it is used: neither the wait between the check
\* of its age and the arrival of the request, nor a refresh of another caller
\* that answers late, lets a request arrive with a token that has ended.
\* (Types included.)
TokenValidWhenUsed == TypeOK /\ \A m \in wire : now < granted[m.token]

\* Where the inbox has chunks of the n-th call of c, and which chunks it has.
Places(c, n)  == {i \in DOMAIN inbox : inbox[i].by = c /\ inbox[i].call = n}
Arrived(c, n) == {inbox[i].chunk : i \in Places(c, n)}
First(k)      == 0 .. k - 1

\* What arrives of one text is its first chunks in order, without a gap and
\* without a chunk twice, also when an answer was lost or came too late.
ArrivedIsPrefix ==
  \A c \in Callers, n \in 1 .. MaxCalls :
    /\ \E k \in 0 .. MaxSize : Arrived(c, n) = First(k)
    /\ \A i, j \in Places(c, n) : i < j => inbox[i].chunk < inbox[j].chunk

\* The result is true: after success every chunk has arrived; after a failure
\* at chunk_index i the i chunks before it have, and at most that one more.  A
\* path is returned for a file that is whole, whatever an aborted download left
\* under that name and an older one still writes into it, unless a later
\* download of the same key has emptied it in the meantime.
ReportIsTrue ==
  \A c \in Callers :
    LET arrived == Arrived(c, calls[c])
        next    == job[c].next
        image   == job[c].image
    IN
      /\ At(c, "succeeded") /\ job[c].kind = "message" => arrived = First(job[c].size)
      /\ At(c, "failed") /\ job[c].kind = "message" => arrived \in {First(next), First(next + 1)}
      /\ At(c, "succeeded") /\ job[c].kind = "image" /\ opener[image] = {c} =>
           file[image] = 1 .. Images[image]

\* Every call comes back to its caller.
CallEnds == \A c \in Callers : ~ At(c, "idle") ~> At(c, "idle")
=============================================================================
