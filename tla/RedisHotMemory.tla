--------------------------- MODULE RedisHotMemory ---------------------------
(***************************************************************************)
(* RedisHotMemoryStore (src/storage_memory/backends/redis_store.py) for    *)
(* one session.  Every awaited Redis command is a step of its own, so the  *)
(* commands of different clients interleave, and a client may lose its     *)
(* connection (or its process) between two commands of one operation.      *)
(* Keys of different sessions are disjoint, so one session is enough; the  *)
(* runtime state is one SET and is modelled with the in-memory store.      *)
(***************************************************************************)
EXTENDS ContextBlocks

CONSTANTS Clients,      \* coroutines or processes using the session's keys
          Fields,       \* sources of system prompt parts
          AbandonLimit  \* bound on the operations abandoned half-way

ASSUME RedisAssumption == AbandonLimit \in Nat

VARIABLES
    blocks,    \* the LIST hot_memory:logic:session
    fields,    \* the fields of the HASH system_parts:logic:session
    command,   \* the Redis command each client sends next
    keep,      \* keep_start, as each client computed it
    pushed,    \* history: blocks pushed since the list was last deleted
    pushes,    \* history: number of blocks pushed
    raced,     \* history: operations of two clients have overlapped
    abandoned  \* number of operations abandoned

redisVars == <<blocks, fields, command, keep, pushed, pushes, raced, abandoned>>

RedisTypeOK ==
    /\ blocks \in Seq(Blocks)
    /\ fields \subseteq Fields
    /\ command \in [Clients -> {"idle", "lrange", "ltrim", "delete_parts"}]
    /\ keep \in [Clients -> 0..AppendLimit]
    /\ pushed \in Seq(Blocks)
    /\ pushes \in 0..AppendLimit
    /\ raced \in BOOLEAN
    /\ abandoned \in 0..AbandonLimit

RedisInit ==
    /\ blocks = <<>>
    /\ fields = {}
    /\ command = [c \in Clients |-> "idle"]
    /\ keep = [c \in Clients |-> 0]
    /\ pushed = <<>>
    /\ pushes = 0
    /\ raced = FALSE
    /\ abandoned = 0

OthersBusy(c) == \E d \in Clients \ {c} : command[d] # "idle"

\* `items[keep_start:]` after the block count: a limit of 0 keeps nothing here.
BlocksKept(q) ==
    IF MaxBlocks = NoLimit \/ Len(q) <= MaxBlocks THEN Len(q) ELSE MaxBlocks

\* Variant: the token scan is left out.
KeepStartCountOnly(q) == Len(q) - BlocksKept(q)

\* The index of the first block to keep, counted from 0 like LTRIM does.
KeepStart(q) == Len(q) - TokensKept(Newest(q, BlocksKept(q)))

\* Variant: -1 excludes the last element, as in a Python slice.
LtrimExclusive(q, start) == SubSeq(q, start + 1, Len(q) - 1)

\* Variant: the oldest blocks are kept instead of the newest.
LtrimHead(q, start) == SubSeq(q, 1, Len(q) - start)

\* LTRIM key start -1.
Ltrim(q, start) == SubSeq(q, start + 1, Len(q))

Rpush(c, tok) ==
    LET b == [id |-> pushes + 1, tok |-> tok] IN
    /\ command[c] = "idle"
    /\ pushes < AppendLimit
    /\ pushes' = pushes + 1
    /\ blocks' = Append(blocks, b)
    /\ pushed' = Append(pushed, b)
    /\ raced' = (raced \/ OthersBusy(c))
    /\ command' = [command EXCEPT ![c] = "lrange"]
    /\ UNCHANGED <<fields, keep, abandoned>>

Lrange(c) ==
    LET start == KeepStart(blocks) IN
    /\ command[c] = "lrange"
    /\ keep' = [keep EXCEPT ![c] = start]
    /\ command' = [command EXCEPT ![c] = IF start > 0 THEN "ltrim" ELSE "idle"]
    /\ UNCHANGED <<blocks, fields, pushed, pushes, raced, abandoned>>

LtrimList(c) ==
    /\ command[c] = "ltrim"
    /\ blocks' = Ltrim(blocks, keep[c])
    /\ keep' = [keep EXCEPT ![c] = 0]
    /\ command' = [command EXCEPT ![c] = "idle"]
    /\ UNCHANGED <<fields, pushed, pushes, raced, abandoned>>

Hset(c, src) ==
    /\ command[c] = "idle"
    /\ fields' = fields \cup {src}
    /\ UNCHANGED <<blocks, command, keep, pushed, pushes, raced, abandoned>>

DeleteList(c) ==
    /\ command[c] = "idle"
    /\ blocks' = <<>>
    /\ pushed' = <<>>
    /\ raced' = (raced \/ OthersBusy(c))
    /\ command' = [command EXCEPT ![c] = "delete_parts"]
    /\ UNCHANGED <<fields, keep, pushes, abandoned>>

DeleteFields(c) ==
    /\ command[c] = "delete_parts"
    /\ fields' = {}
    /\ command' = [command EXCEPT ![c] = "idle"]
    /\ UNCHANGED <<blocks, keep, pushed, pushes, raced, abandoned>>

\* A command fails and its exception ends the operation: nothing is undone.
Abandon(c) ==
    /\ command[c] # "idle"
    /\ abandoned < AbandonLimit
    /\ abandoned' = abandoned + 1
    /\ keep' = [keep EXCEPT ![c] = 0]
    /\ command' = [command EXCEPT ![c] = "idle"]
    /\ UNCHANGED <<blocks, fields, pushed, pushes, raced>>

RedisNext == \E c \in Clients :
    \/ \E tok \in TokenCounts : Rpush(c, tok)
    \/ Lrange(c)
    \/ LtrimList(c)
    \/ \E src \in Fields : Hset(c, src)
    \/ DeleteList(c)
    \/ DeleteFields(c)
    \/ Abandon(c)

RedisSpec == RedisInit /\ [][RedisNext]_redisVars
-----------------------------------------------------------------------------
AtRest == \A c \in Clients : command[c] = "idle"

(* Whatever the clients interleave and wherever one of them stops, the     *)
(* list is a run of the newest blocks: a stale LTRIM may cut too much, but *)
(* it never leaves a gap and never brings an old block back.               *)
ListIsNewest ==
    /\ Len(blocks) <= Len(pushed)
    /\ blocks = Newest(pushed, Len(blocks))

(* As long as no operation was abandoned, the list is within both limits   *)
(* whenever no operation is under way: the client that reads the list last *)
(* sees every block pushed before and trims for all of them.  As long as   *)
(* operations do not overlap, it is never cut too short either: once its   *)
(* limits are applied it is the longest run that fits.                     *)
ListFitsAtRest ==
    /\ AtRest /\ abandoned = 0 => Fits(blocks)
    /\ ~raced => Trim(blocks) = LongestFitting(pushed)

RedisRecent == INSTANCE RecentHistory
            WITH Sessions <- {"session"}, recent <- [s \in {"session"} |-> Trim(blocks)]

(* Until operations overlap, every append is one step of the promise even  *)
(* though it is three commands: the extra block between RPUSH and LTRIM is *)
(* one that the next trim removes, also when the append is abandoned there.*)
ImplementsUnlessRaced ==
    [][raced' \/ RedisRecent!Next \/ UNCHANGED Trim(blocks)]_redisVars
=============================================================================
