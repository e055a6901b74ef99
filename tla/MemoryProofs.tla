---------------------------- MODULE MemoryProofs ----------------------------
(***************************************************************************)
(* Theorems about the three hot stores (HotMemory, RedisHotMemory and      *)
(* JsonlHotMemory) and about the session memory over one of them, for      *)
(* every pair of limits, token counts, sessions and clients.  Each store   *)
(* is shown in the same order: an inductive invariant, what follows from   *)
(* it about the window or the file, and the step-by-step refinement of     *)
(* RecentHistory.  What trimming returns is in ContextBlocksProofs, and    *)
(* every module cites it from there.                                       *)
(***************************************************************************)
EXTENDS HotMemory, RedisHotMemory, JsonlHotMemory, SessionMemory,
        ContextBlocksProofs

-----------------------------------------------------------------------------
(* The in-memory store: its operations keep the types.                     *)

(* An append stores a sequence of blocks in both the window and the log.   *)
LEMMA AppendType ==
    ASSUME HotTypeOK, NEW s \in Sessions, NEW tok \in TokenCounts,
           AppendContextBlock(s, tok)
    PROVE  HotTypeOK'
<1>1. PICK b : b = [id |-> hotAppended + 1, tok |-> tok]
  OBVIOUS
<1>2. b \in Blocks
  BY <1>1, HotMemoryAssumption, BlocksAssumption DEF HotTypeOK, Blocks, AppendContextBlock
<1>3. hot[s] \in Seq(Blocks) /\ hotLog[s] \in Seq(Blocks)
  BY DEF HotTypeOK
<1>4. PICK q : q = Append(hot[s], b)
  OBVIOUS
<1>5. q \in Seq(Blocks) /\ Append(hotLog[s], b) \in Seq(Blocks)
  BY <1>2, <1>3, <1>4, AppendProperties
<1>6. Trim(q) \in Seq(Blocks)
  BY <1>5, TrimKeepsNewest, NewestElements
<1>7. /\ hot' = [hot EXCEPT ![s] = Trim(q)]
      /\ hotLog' = [hotLog EXCEPT ![s] = Append(hotLog[s], b)]
      /\ UNCHANGED <<sys, runtime>>
      /\ hotAppended' = hotAppended + 1 /\ hotAppended < AppendLimit
  BY <1>1, <1>4 DEF AppendContextBlock
<1> QED
  BY <1>5, <1>6, <1>7, HotMemoryAssumption, BlocksAssumption DEF HotTypeOK

(* The type invariant: every session has a sequence of blocks, a content   *)
(* or none for each prompt source, and a runtime state.                    *)
THEOREM HotTypeCorrect == HotSpec => []HotTypeOK
<1>1. HotInit => HotTypeOK
  BY HotMemoryAssumption, BlocksAssumption DEF HotInit, HotTypeOK, NoParts
<1>2. HotTypeOK /\ [HotNext]_hotVars => HotTypeOK'
  <2> SUFFICES ASSUME HotTypeOK, [HotNext]_hotVars PROVE HotTypeOK'
    OBVIOUS
  <2>1. ASSUME NEW s \in Sessions, NEW tok \in TokenCounts,
               AppendContextBlock(s, tok)
        PROVE  HotTypeOK'
    BY <2>1, AppendType
  <2>2. ASSUME NEW s \in Sessions, NEW src \in Sources, NEW content \in Contents,
               UpsertSystemPart(s, src, content)
        PROVE  HotTypeOK'
    BY <2>2 DEF HotTypeOK, UpsertSystemPart
  <2>3. ASSUME NEW s \in Sessions, DeleteContextHistory(s) PROVE HotTypeOK'
    BY <2>3 DEF HotTypeOK, DeleteContextHistory, NoParts
  <2>4. ASSUME NEW s \in Sessions, NEW rs \in RuntimeStates,
               PersistRuntimeState(s, rs)
        PROVE  HotTypeOK'
    BY <2>4 DEF HotTypeOK, PersistRuntimeState
  <2>5. CASE UNCHANGED hotVars
    BY <2>5 DEF HotTypeOK, hotVars
  <2> QED
    BY <2>1, <2>2, <2>3, <2>4, <2>5 DEF HotNext
<1> QED
  BY <1>1, <1>2, PTL DEF HotSpec
-----------------------------------------------------------------------------
(* The window invariant.                                                   *)

\* The inductive invariant.
WindowInv == HotTypeOK /\ WindowIsNewest /\ WindowBounded

(* An append keeps the window of its session and touches no other.         *)
LEMMA AppendKeepsWindows ==
    ASSUME WindowInv, HotTypeOK', NEW s \in Sessions, NEW tok \in TokenCounts,
           AppendContextBlock(s, tok)
    PROVE  WindowInv'
<1>1. PICK b : b = [id |-> hotAppended + 1, tok |-> tok]
  OBVIOUS
<1>2. b \in Blocks
  BY <1>1, HotMemoryAssumption, BlocksAssumption DEF WindowInv, HotTypeOK, Blocks, AppendContextBlock
<1>3. /\ hot \in [Sessions -> Seq(Blocks)] /\ hotLog \in [Sessions -> Seq(Blocks)]
      /\ hot' = [hot EXCEPT ![s] = Trim(Append(hot[s], b))]
      /\ hotLog' = [hotLog EXCEPT ![s] = Append(hotLog[s], b)]
  BY <1>1 DEF WindowInv, HotTypeOK, AppendContextBlock
<1>4. ASSUME NEW u \in Sessions
      PROVE  /\ Len(hot'[u]) <= Len(hotLog'[u])
             /\ hot'[u] = Newest(hotLog'[u], Len(hot'[u]))
             /\ MaxBlocks \notin {NoLimit, 0} => Len(hot'[u]) <= MaxBlocks
  <2>1. /\ Len(hot[u]) <= Len(hotLog[u])
        /\ hot[u] = Newest(hotLog[u], Len(hot[u]))
        /\ MaxBlocks \notin {NoLimit, 0} => Len(hot[u]) <= MaxBlocks
    BY DEF WindowInv, WindowIsNewest, WindowBounded
  <2>2. CASE u = s
    <3>1. hot'[u] = Trim(Append(hot[u], b)) /\ hotLog'[u] = Append(hotLog[u], b)
      BY <1>3, <2>2
    <3>2. hot[u] \in Seq(Blocks) /\ hotLog[u] \in Seq(Blocks)
      BY <1>3
    <3> QED
      BY <1>2, <2>1, <3>1, <3>2, AppendKeepsWindow
  <2>3. CASE u # s
    <3>1. hot'[u] = hot[u] /\ hotLog'[u] = hotLog[u]
      BY <1>3, <2>3
    <3> QED
      BY <2>1, <3>1
  <2> QED
    BY <2>2, <2>3
<1> QED
  BY <1>4 DEF WindowInv, WindowIsNewest, WindowBounded

(* WindowInv is an invariant of every instance of the store.               *)
THEOREM WindowInvariant == HotSpec => []WindowInv
<1>1. HotInit => WindowInv
  <2> SUFFICES ASSUME HotInit PROVE WindowInv
    OBVIOUS
  <2>1. HotTypeOK
    BY HotMemoryAssumption, BlocksAssumption DEF HotInit, HotTypeOK, NoParts
  <2>2. \A s \in Sessions : hot[s] = <<>> /\ hotLog[s] = <<>>
    BY DEF HotInit
  <2>3. Newest(<<>>, 0) = <<>> /\ Len(<<>>) = 0
    BY EmptySeq, EmptyWindow
  <2>4. WindowIsNewest
    BY <2>2, <2>3 DEF WindowIsNewest
  <2>5. WindowBounded
    BY <2>2, <2>3, LimitsAssumption DEF WindowBounded, NoLimit
  <2> QED
    BY <2>1, <2>4, <2>5 DEF WindowInv
<1>2. HotTypeOK /\ HotTypeOK' /\ WindowInv /\ [HotNext]_hotVars => WindowInv'
  <2> SUFFICES ASSUME HotTypeOK, HotTypeOK', WindowInv, [HotNext]_hotVars
               PROVE  WindowInv'
    OBVIOUS
  <2>1. ASSUME NEW s \in Sessions, NEW tok \in TokenCounts,
               AppendContextBlock(s, tok)
        PROVE  WindowInv'
    BY <2>1, AppendKeepsWindows
  <2>2. ASSUME NEW s \in Sessions, DeleteContextHistory(s) PROVE WindowInv'
    <3>1. ASSUME NEW u \in Sessions
          PROVE  \/ hot'[u] = <<>> /\ hotLog'[u] = <<>>
                 \/ hot'[u] = hot[u] /\ hotLog'[u] = hotLog[u]
      BY <2>2 DEF HotTypeOK, DeleteContextHistory
    <3>2. Newest(<<>>, 0) = <<>> /\ Len(<<>>) = 0
      BY EmptySeq, EmptyWindow
    <3>3. WindowIsNewest'
      BY <3>1, <3>2 DEF WindowInv, WindowIsNewest
    <3>4. WindowBounded'
      BY <3>1, <3>2, LimitsAssumption DEF WindowInv, WindowBounded, NoLimit
    <3> QED
      BY <3>3, <3>4 DEF WindowInv
  <2>3. CASE UNCHANGED <<hot, hotLog>>
    BY <2>3 DEF WindowInv, WindowIsNewest, WindowBounded
  <2> QED
    BY <2>1, <2>2, <2>3
       DEF HotNext, UpsertSystemPart, PersistRuntimeState, hotVars
<1> QED
  BY <1>1, <1>2, HotTypeCorrect, PTL DEF HotSpec

(* The stored window is at any time a gapless run of the newest blocks of  *)
(* its own session, in order.                                              *)
THEOREM WindowIsAlwaysNewest == HotSpec => []WindowIsNewest
BY WindowInvariant, PTL DEF WindowInv

(* A positive max_blocks is never exceeded.                                *)
THEOREM WindowIsAlwaysBounded == HotSpec => []WindowBounded
BY WindowInvariant, PTL DEF WindowInv
-----------------------------------------------------------------------------
(* The window is the longest that fits.                                    *)

\* The inductive invariant.
LongestInv == WindowInv /\ WindowIsLongestFitting

(* The longest window of no blocks is empty.                               *)
LEMMA EmptyIsLongest ==
    ASSUME MaxBlocks # 0
    PROVE  LongestFitting(<<>>) = <<>>
<1>1. <<>> \in Seq(Blocks) /\ Len(<<>>) = 0 /\ \A b \in Blocks : b.tok \in Nat
  BY EmptySeq, HotMemoryAssumption, BlocksAssumption DEF Blocks
<1>2. PICK k \in 0..0 : Trim(<<>>) = Newest(<<>>, k)
  BY <1>1, TrimIsLongest
<1>3. k = 0
  OBVIOUS
<1>4. Newest(<<>>, 0) = <<>>
  BY <1>1, EmptyWindow, Zenon
<1> QED
  BY <1>1, <1>2, <1>3, <1>4, TrimIsLongestFitting

(* Trimming what an append left is trimming the whole history.             *)
LEMMA AppendLeavesLongest ==
    ASSUME MaxBlocks # 0, LongestInv, NEW s \in Sessions, NEW b \in Blocks
    PROVE  /\ Trim(Append(hot[s], b)) = LongestFitting(Append(hotLog[s], b))
           /\ Trim(Append(hot[s], b)) = LongestFitting(Append(hot[s], b))
<1>1. \A c \in Blocks : c.tok \in Nat
  BY HotMemoryAssumption, BlocksAssumption DEF Blocks
<1>2. hot[s] \in Seq(Blocks) /\ hotLog[s] \in Seq(Blocks)
  BY DEF LongestInv, WindowInv, HotTypeOK
<1>3. PICK n : n = Len(hot[s])
  OBVIOUS
<1>4. /\ n \in 0..Len(hotLog[s]) /\ hot[s] = Newest(hotLog[s], n)
      /\ Len(LongestFitting(hotLog[s])) <= n
  <2>1. n \in Nat /\ Len(hotLog[s]) \in Nat
    BY <1>2, <1>3, LenProperties
  <2>2. n <= Len(hotLog[s]) /\ hot[s] = Newest(hotLog[s], n) /\ hot[s] = LongestFitting(hotLog[s])
    BY <1>3 DEF LongestInv, WindowInv, WindowIsNewest, WindowIsLongestFitting
  <2>3. Len(LongestFitting(hotLog[s])) = n
    BY <1>3, <2>2
  <2> QED
    BY <2>1, <2>2, <2>3
<1>5. Trim(Append(hot[s], b)) = LongestFitting(Append(hotLog[s], b))
  BY <1>1, <1>2, <1>4, AppendKeepsLongest
<1>6. Append(hot[s], b) \in Seq(Blocks)
  BY <1>2, AppendProperties
<1>7. Trim(Append(hot[s], b)) = LongestFitting(Append(hot[s], b))
  BY <1>1, <1>6, TrimIsLongestFitting
<1> QED
  BY <1>5, <1>7

(* An append leaves the longest window in its session and touches no       *)
(* other session.                                                          *)
LEMMA AppendStep ==
    ASSUME MaxBlocks # 0, LongestInv, NEW s \in Sessions, NEW tok \in TokenCounts,
           AppendContextBlock(s, tok)
    PROVE  /\ WindowIsLongestFitting'
           /\ \E b \in Blocks : hot' = [hot EXCEPT ![s] = LongestFitting(Append(hot[s], b))]
<1>1. PICK b : b = [id |-> hotAppended + 1, tok |-> tok]
  OBVIOUS
<1>2. b \in Blocks
  BY <1>1, HotMemoryAssumption, BlocksAssumption
     DEF LongestInv, WindowInv, HotTypeOK, Blocks, AppendContextBlock
<1>3. /\ hot \in [Sessions -> Seq(Blocks)] /\ hotLog \in [Sessions -> Seq(Blocks)]
      /\ hot' = [hot EXCEPT ![s] = Trim(Append(hot[s], b))]
      /\ hotLog' = [hotLog EXCEPT ![s] = Append(hotLog[s], b)]
  BY <1>1 DEF LongestInv, WindowInv, HotTypeOK, AppendContextBlock
<1>4. /\ Trim(Append(hot[s], b)) = LongestFitting(Append(hotLog[s], b))
      /\ Trim(Append(hot[s], b)) = LongestFitting(Append(hot[s], b))
  BY <1>2, AppendLeavesLongest
<1>5. ASSUME NEW u \in Sessions
      PROVE  hot'[u] = LongestFitting(hotLog'[u])
  <2>1. CASE u = s
    <3>1. hot'[u] = Trim(Append(hot[s], b)) /\ hotLog'[u] = Append(hotLog[s], b)
      BY <1>3, <2>1
    <3> QED
      BY <1>4, <3>1
  <2>2. CASE u # s
    <3>1. hot'[u] = hot[u] /\ hotLog'[u] = hotLog[u] /\ hot[u] = LongestFitting(hotLog[u])
      BY <1>3, <2>2 DEF LongestInv, WindowIsLongestFitting
    <3> QED
      BY <3>1
  <2> QED
    BY <2>1, <2>2
<1>6. WindowIsLongestFitting'
  BY <1>5 DEF WindowIsLongestFitting
<1> QED
  BY <1>2, <1>3, <1>4, <1>6

(* LongestInv is an invariant of every store whose block limit is not 0.   *)
LEMMA LongestInvariant ==
    ASSUME MaxBlocks # 0
    PROVE  HotSpec => []LongestInv
<1>1. WindowInv /\ HotInit => LongestInv
  BY EmptyIsLongest DEF HotInit, LongestInv, WindowIsLongestFitting
<1>2. WindowInv' /\ LongestInv /\ [HotNext]_hotVars => LongestInv'
  <2> SUFFICES ASSUME WindowInv', LongestInv, [HotNext]_hotVars
               PROVE  WindowIsLongestFitting'
    BY DEF LongestInv
  <2>1. ASSUME NEW s \in Sessions, NEW tok \in TokenCounts, AppendContextBlock(s, tok)
        PROVE  WindowIsLongestFitting'
    BY <2>1, AppendStep
  <2>2. ASSUME NEW s \in Sessions, DeleteContextHistory(s)
        PROVE  WindowIsLongestFitting'
    <3>1. ASSUME NEW u \in Sessions
          PROVE  \/ hot'[u] = <<>> /\ hotLog'[u] = <<>>
                 \/ hot'[u] = hot[u] /\ hotLog'[u] = hotLog[u]
      BY <2>2 DEF LongestInv, WindowInv, HotTypeOK, DeleteContextHistory
    <3>2. ASSUME NEW u \in Sessions
          PROVE  hot'[u] = LongestFitting(hotLog'[u])
      BY <3>1, EmptyIsLongest DEF LongestInv, WindowIsLongestFitting
    <3> QED
      BY <3>2 DEF WindowIsLongestFitting
  <2>3. CASE UNCHANGED <<hot, hotLog>>
    BY <2>3 DEF LongestInv, WindowIsLongestFitting
  <2> QED
    BY <2>1, <2>2, <2>3
       DEF HotNext, UpsertSystemPart, PersistRuntimeState, hotVars
<1> QED
  BY <1>1, <1>2, WindowInvariant, PTL DEF HotSpec

(* Trimming at every append leaves what trimming the whole history of the  *)
(* session once would leave, for every block limit but 0, every token      *)
(* limit and every number of appends and deletions.                        *)
THEOREM WindowIsAlwaysLongest ==
    ASSUME MaxBlocks # 0
    PROVE  HotSpec => []WindowIsLongestFitting
BY LongestInvariant, PTL DEF LongestInv
-----------------------------------------------------------------------------
(* The store implements what HotMemoryProtocol promises.                   *)

(* The promise speaks of the same longest window.                          *)
LEMMA HotSameLongest ==
    ASSUME NEW q
    PROVE  HotRecent!LongestFitting(q) = LongestFitting(q)
<1>1. \A w : HotRecent!Tokens(w) = Tokens(w)
  BY Zenon DEF HotRecent!Tokens, Tokens
<1>2. \A w : HotRecent!Fits(w) <=> Fits(w)
  BY <1>1, Zenon DEF HotRecent!Fits, Fits, HotRecent!NoLimit, NoLimit
<1> QED
  BY <1>2, Zenon DEF HotRecent!LongestFitting, LongestFitting, Suffixes, HotRecent!Suffixes

(* Every step of the store is a step of the promise or changes no window.  *)
LEMMA HotStepImplements ==
    ASSUME MaxBlocks # 0, LongestInv, [HotNext]_hotVars
    PROVE  [HotRecent!Next]_hot
<1>1. ASSUME NEW s \in Sessions, NEW tok \in TokenCounts, AppendContextBlock(s, tok)
      PROVE  HotRecent!Next
  <2>1. PICK b \in Blocks : hot' = [hot EXCEPT ![s] = LongestFitting(Append(hot[s], b))]
    BY <1>1, AppendStep
  <2>2. HotRecent!AppendBlock(s, b)
    BY <2>1, HotSameLongest DEF HotRecent!AppendBlock
  <2> QED
    BY <2>2 DEF HotRecent!Next, HotRecent!Blocks, Blocks
<1>2. ASSUME NEW s \in Sessions, DeleteContextHistory(s)
      PROVE  HotRecent!Next
  BY <1>2 DEF DeleteContextHistory, HotRecent!Next, HotRecent!DeleteHistory
<1>3. CASE UNCHANGED hot
  BY <1>3
<1> QED
  BY <1>1, <1>2, <1>3 DEF HotNext, UpsertSystemPart, PersistRuntimeState, hotVars

(* The in-memory store implements RecentHistory: each of its operations    *)
(* moves the window of one session by one block, empties it, or leaves all *)
(* windows alone.                                                          *)
THEOREM StoreImplementsRecentHistory ==
    ASSUME MaxBlocks # 0
    PROVE  HotSpec => ImplementsRecentHistory
<1>1. HotInit => HotRecent!Init
  BY DEF HotInit, HotRecent!Init
<1>2. LongestInv /\ [HotNext]_hotVars => [HotRecent!Next]_hot
  BY HotStepImplements
<1> QED
  BY <1>1, <1>2, LongestInvariant, PTL
     DEF HotSpec, ImplementsRecentHistory, HotRecent!Spec
-----------------------------------------------------------------------------
(* The Redis store: LTRIM with any index, stale or not, keeps the newest   *)
(* blocks.                                                                 *)
LEMMA LtrimKeepsNewest ==
    ASSUME NEW S, NEW q \in Seq(S), NEW start \in Nat
    PROVE  \E k \in 0..Len(q) : Ltrim(q, start) = Newest(q, k)
<1>1. Len(q) \in Nat
  BY LenProperties
<1>2. CASE start <= Len(q)
  <2>1. Len(q) - start \in 0..Len(q) /\ Len(q) - (Len(q) - start) + 1 = start + 1
    BY <1>1, <1>2
  <2>2. Ltrim(q, start) = Newest(q, Len(q) - start)
    BY <2>1 DEF Ltrim, Newest
  <2> QED
    BY <2>1, <2>2
<1>3. CASE start > Len(q)
  <2>1. Ltrim(q, start) = <<>>
    BY <1>1, <1>3, SubSeqEmpty DEF Ltrim
  <2> QED
    BY <1>1, <2>1, EmptyWindow
<1> QED
  BY <1>1, <1>2, <1>3

(* The index a client computes lies within the list it has read.           *)
LEMMA KeepStartRange ==
    ASSUME NEW S, NEW q \in Seq(S)
    PROVE  KeepStart(q) \in 0..Len(q)
<1>1. Len(q) \in Nat
  BY LenProperties
<1>2. PICK n : n = BlocksKept(q)
  OBVIOUS
<1>3. n \in 0..Len(q)
  BY <1>1, <1>2, LimitsAssumption DEF BlocksKept, NoLimit
<1>4. Newest(q, n) \in Seq(S) /\ Len(Newest(q, n)) = n
  BY <1>3, NewestElements
<1>5. TokensKept(Newest(q, n)) \in 0..n
  BY <1>4, TokensKeptRange
<1> QED
  BY <1>1, <1>2, <1>3, <1>5 DEF KeepStart

\* The inductive invariant: the types, the window, and as many blocks in the
\* history as were pushed at most.
RedisInv == RedisTypeOK /\ ListIsNewest /\ Len(pushed) <= pushes

(* Inv holds of an empty list.                                             *)
LEMMA RedisInitInv == RedisInit => RedisInv
<1> SUFFICES ASSUME RedisInit PROVE RedisInv
  OBVIOUS
<1>1. RedisTypeOK
  <2>1. raced \in BOOLEAN
    BY Zenon DEF RedisInit
  <2> QED
    BY <2>1, RedisAssumption, BlocksAssumption, EmptySeq DEF RedisInit, RedisTypeOK
<1>2. Newest(<<>>, 0) = <<>> /\ Len(<<>>) = 0
  BY EmptySeq, EmptyWindow
<1> QED
  BY <1>1, <1>2 DEF RedisInit, RedisInv, ListIsNewest

(* A push appends the same block to the list and to the log.               *)
LEMMA RpushStep ==
    ASSUME RedisInv, NEW c \in Clients, NEW tok \in TokenCounts, Rpush(c, tok)
    PROVE  RedisInv'
<1>1. PICK b : b = [id |-> pushes + 1, tok |-> tok]
  OBVIOUS
<1>2. b \in Blocks
  BY <1>1, RedisAssumption, BlocksAssumption DEF RedisInv, RedisTypeOK, Blocks, Rpush
<1>3. blocks \in Seq(Blocks) /\ pushed \in Seq(Blocks)
  BY DEF RedisInv, RedisTypeOK
<1>4. blocks' = Append(blocks, b) /\ pushed' = Append(pushed, b)
  BY <1>1 DEF Rpush
<1>5. /\ blocks' \in Seq(Blocks) /\ Len(blocks') = Len(blocks) + 1
      /\ pushed' \in Seq(Blocks) /\ Len(pushed') = Len(pushed) + 1
  BY <1>2, <1>3, <1>4, AppendProperties
<1>6. Len(blocks) \in 0..Len(pushed)
  BY <1>3, LenProperties DEF RedisInv, ListIsNewest
<1>7. ListIsNewest'
  <2>1. Append(Newest(pushed, Len(blocks)), b) = Newest(Append(pushed, b), Len(blocks) + 1)
    BY <1>2, <1>3, <1>6, AppendToNewest
  <2>2. blocks = Newest(pushed, Len(blocks))
    BY DEF RedisInv, ListIsNewest
  <2>3. blocks' = Newest(pushed', Len(blocks'))
    BY <1>4, <1>5, <2>1, <2>2
  <2>4. Len(blocks') <= Len(pushed')
    BY <1>5, <1>6
  <2> QED
    BY <2>3, <2>4 DEF ListIsNewest
<1>8. RedisTypeOK'
  <2>1. raced' \in BOOLEAN
    BY Zenon DEF Rpush
  <2> QED
    BY <1>5, <2>1, RedisAssumption, BlocksAssumption DEF RedisInv, RedisTypeOK, Rpush
<1>9. Len(pushed') <= pushes'
  <2>1. Len(pushed) \in Nat /\ pushes \in Nat /\ pushes' = pushes + 1
    BY <1>3, LenProperties, RedisAssumption, BlocksAssumption DEF RedisInv, RedisTypeOK, Rpush
  <2> QED
    BY <1>5, <2>1 DEF RedisInv
<1> QED
  BY <1>7, <1>8, <1>9 DEF RedisInv

(* Reading the list and computing an index changes no block.               *)
LEMMA LrangeStep ==
    ASSUME RedisInv, NEW c \in Clients, Lrange(c)
    PROVE  RedisInv'
<1>1. KeepStart(blocks) \in 0..Len(blocks)
  BY KeepStartRange DEF RedisInv, RedisTypeOK
<1>2. Len(blocks) <= AppendLimit
  <2>1. Len(blocks) \in Nat /\ Len(pushed) \in Nat
    BY LenProperties DEF RedisInv, RedisTypeOK
  <2> QED
    BY <2>1, RedisAssumption, BlocksAssumption DEF RedisInv, RedisTypeOK, ListIsNewest
<1>3. KeepStart(blocks) \in 0..AppendLimit
  <2>1. Len(blocks) \in Nat
    BY LenProperties DEF RedisInv, RedisTypeOK
  <2> QED
    BY <1>1, <1>2, <2>1, RedisAssumption, BlocksAssumption
<1> QED
  BY <1>3 DEF RedisInv, RedisTypeOK, ListIsNewest, Lrange

(* Trimming, whatever the index, leaves the newest blocks.                 *)
LEMMA LtrimStep ==
    ASSUME RedisInv, NEW c \in Clients, LtrimList(c)
    PROVE  RedisInv'
<1>1. blocks \in Seq(Blocks) /\ pushed \in Seq(Blocks) /\ keep[c] \in Nat
  BY RedisAssumption, BlocksAssumption DEF RedisInv, RedisTypeOK
<1>2. blocks' = Ltrim(blocks, keep[c]) /\ UNCHANGED <<pushed, pushes>>
  BY DEF LtrimList
<1>3. PICK k \in 0..Len(blocks) : blocks' = Newest(blocks, k)
  BY <1>1, <1>2, LtrimKeepsNewest
<1>4. blocks' \in Seq(Blocks) /\ Len(blocks') = k
  BY <1>1, <1>3, NewestElements
<1>5. Len(blocks) \in 0..Len(pushed)
  BY <1>1, LenProperties DEF RedisInv, ListIsNewest
<1>6. Newest(Newest(pushed, Len(blocks)), k) = Newest(pushed, k)
  BY <1>1, <1>3, <1>5, NewestOfNewest
<1>7. ListIsNewest'
  <2>1. blocks' = Newest(pushed', Len(blocks'))
    BY <1>2, <1>3, <1>4, <1>6 DEF RedisInv, ListIsNewest
  <2>2. Len(blocks') <= Len(pushed')
    BY <1>2, <1>3, <1>4, <1>5
  <2> QED
    BY <2>1, <2>2 DEF ListIsNewest
<1>8. RedisTypeOK'
  BY <1>4, RedisAssumption, BlocksAssumption DEF RedisInv, RedisTypeOK, LtrimList
<1> QED
  BY <1>2, <1>7, <1>8 DEF RedisInv

(* Deleting the list empties the window.                                   *)
LEMMA DeleteListStep ==
    ASSUME RedisInv, NEW c \in Clients, DeleteList(c)
    PROVE  RedisInv'
<1>1. Newest(<<>>, 0) = <<>> /\ Len(<<>>) = 0
  BY EmptySeq, EmptyWindow
<1>2. blocks' = <<>> /\ pushed' = <<>> /\ pushes' = pushes
  BY DEF DeleteList
<1>3. RedisTypeOK'
  <2>1. raced' \in BOOLEAN
    BY Zenon DEF DeleteList
  <2> QED
    BY <1>2, <2>1, EmptySeq DEF RedisInv, RedisTypeOK, DeleteList
<1> QED
  BY <1>1, <1>2, <1>3, RedisAssumption, BlocksAssumption DEF RedisInv, RedisTypeOK, ListIsNewest

(* Inv is inductive, with one step per command.                            *)
LEMMA RedisNextKeepsInv == RedisInv /\ [RedisNext]_redisVars => RedisInv'
<1> SUFFICES ASSUME RedisInv, [RedisNext]_redisVars PROVE RedisInv'
  OBVIOUS
<1>1. ASSUME NEW c \in Clients, NEW tok \in TokenCounts, Rpush(c, tok) PROVE RedisInv'
  BY <1>1, RpushStep
<1>2. ASSUME NEW c \in Clients, Lrange(c) PROVE RedisInv'
  BY <1>2, LrangeStep
<1>3. ASSUME NEW c \in Clients, LtrimList(c) PROVE RedisInv'
  BY <1>3, LtrimStep
<1>4. ASSUME NEW c \in Clients, NEW src \in Fields, Hset(c, src) PROVE RedisInv'
  BY <1>4 DEF RedisInv, RedisTypeOK, ListIsNewest, Hset
<1>5. ASSUME NEW c \in Clients, DeleteList(c) PROVE RedisInv'
  BY <1>5, DeleteListStep
<1>6. ASSUME NEW c \in Clients, DeleteFields(c) PROVE RedisInv'
  BY <1>6 DEF RedisInv, RedisTypeOK, ListIsNewest, DeleteFields
<1>7. ASSUME NEW c \in Clients, Abandon(c) PROVE RedisInv'
  BY <1>7, RedisAssumption, BlocksAssumption DEF RedisInv, RedisTypeOK, ListIsNewest, Abandon
<1>8. CASE UNCHANGED redisVars
  BY <1>8 DEF RedisInv, RedisTypeOK, ListIsNewest, redisVars
<1> QED
  BY <1>1, <1>2, <1>3, <1>4, <1>5, <1>6, <1>7, <1>8 DEF RedisNext

(* Inv holds in every reachable state of every instance.                   *)
THEOREM RedisInvariant == RedisSpec => []RedisInv
<1>1. RedisInit => RedisInv
  BY RedisInitInv
<1> QED
  BY <1>1, RedisNextKeepsInv, PTL DEF RedisSpec

(* The types of the list, the hash and the clients' local state.           *)
THEOREM RedisTypeCorrect == RedisSpec => []RedisTypeOK
BY RedisInvariant, PTL DEF RedisInv

(* However many clients interleave, and wherever they stop, the list is a  *)
(* gapless run of the newest blocks.                                       *)
THEOREM ListIsAlwaysNewest == RedisSpec => []ListIsNewest
BY RedisInvariant, PTL DEF RedisInv
-----------------------------------------------------------------------------
(* The limits at rest.                                                     *)

LEMMA BlocksHaveTokens == \A b \in Blocks : b.tok \in Nat
BY RedisAssumption, BlocksAssumption DEF Blocks

(* What an index leaves, as a number of newest blocks.                     *)
LEMMA LtrimCount ==
    ASSUME NEW S, NEW q \in Seq(S), NEW start \in 0..Len(q)
    PROVE  Len(q) - start \in 0..Len(q) /\ Ltrim(q, start) = Newest(q, Len(q) - start)
<1>1. PICK L \in Nat : L = Len(q)
  BY LenProperties
<1>2. L - start \in 0..L /\ L - (L - start) + 1 = start + 1
  BY <1>1
<1> QED
  BY <1>1, <1>2 DEF Ltrim, Newest

(* The blocks from the computed index on are the runs that fit.            *)
LEMMA KeepStartFits ==
    ASSUME NEW q \in Seq(Blocks), NEW n \in 0..Len(q)
    PROVE  Fits(Newest(q, n)) <=> n <= Len(q) - KeepStart(q)
<1>1. PICK L \in Nat : L = Len(q) /\ n \in 0..L
  BY LenProperties
<1>2. PICK c \in 0..L : c = BlocksKept(q)
  BY <1>1, LimitsAssumption DEF BlocksKept, NoLimit
<1>3. (MaxBlocks # NoLimit => n <= MaxBlocks) <=> n <= c
  BY <1>1, <1>2, LimitsAssumption DEF BlocksKept
<1>4. PICK p : p = Newest(q, c)
  OBVIOUS
<1>5. p \in Seq(Blocks) /\ Len(p) = c
  BY <1>1, <1>4, NewestElements
<1>6. PICK k \in 0..c : k = TokensKept(p)
  BY <1>5, TokensKeptRange
<1>7. Len(q) - KeepStart(q) = k
  <2>1. KeepStart(q) = L - k
    BY <1>1, <1>2, <1>4, <1>6 DEF KeepStart
  <2> QED
    BY <1>1, <1>2, <1>6, <2>1
<1>8. Len(Newest(q, n)) = n
  BY <1>1, NewestElements
<1>9. CASE n <= c
  <2>1. n \in 0..c
    BY <1>1, <1>9
  <2>2. (MaxTokens # NoLimit => Tokens(Newest(p, n)) <= MaxTokens) <=> n <= k
    BY <1>5, <1>6, <2>1, TokensKeptFit, BlocksHaveTokens
  <2>3. Newest(p, n) = Newest(q, n)
    BY <1>1, <1>4, <2>1, NewestOfNewest
  <2> QED
    BY <1>3, <1>7, <1>8, <1>9, <2>2, <2>3 DEF Fits
<1>10. CASE ~(n <= c)
  <2>1. ~(n <= k)
    BY <1>1, <1>2, <1>6, <1>10
  <2> QED
    BY <1>3, <1>7, <1>8, <1>10, <2>1 DEF Fits
<1> QED
  BY <1>9, <1>10

(* Trimming at the computed index leaves a list within the limits.         *)
LEMMA KeptFits ==
    ASSUME NEW q \in Seq(Blocks)
    PROVE  Fits(Ltrim(q, KeepStart(q)))
<1>1. KeepStart(q) \in 0..Len(q) /\ Len(q) \in Nat
  BY KeepStartRange, LenProperties
<1>2. /\ Len(q) - KeepStart(q) \in 0..Len(q)
      /\ Ltrim(q, KeepStart(q)) = Newest(q, Len(q) - KeepStart(q))
  BY <1>1, LtrimCount
<1>3. Len(q) - KeepStart(q) <= Len(q) - KeepStart(q)
  BY <1>1
<1> QED
  BY <1>2, <1>3, KeepStartFits

(* A list within the limits stays within them when its head is cut off,    *)
(* and a stale index cuts off at least as much as it did before.           *)
LEMMA CutFits ==
    ASSUME NEW q \in Seq(Blocks), NEW start \in Nat, NEW stale \in Nat
    PROVE  /\ Fits(q) => Fits(Ltrim(q, start))
           /\ Fits(Ltrim(q, stale)) => Fits(Ltrim(Ltrim(q, start), stale))
<1>1. PICK L \in Nat : L = Len(q)
  BY LenProperties
<1>2. PICK k \in 0..L : Ltrim(q, start) = Newest(q, k)
  BY <1>1, LtrimKeepsNewest
<1>3. Ltrim(q, start) \in Seq(Blocks) /\ Len(Ltrim(q, start)) = k
  BY <1>1, <1>2, NewestElements
<1>4. Fits(q) => Fits(Ltrim(q, start))
  <2>1. q = Newest(q, L) /\ L \in 0..L
    BY <1>1 DEF Newest
  <2> QED
    BY <1>1, <1>2, <2>1, ShorterFits, BlocksHaveTokens
<1>5. ASSUME Fits(Ltrim(q, stale))
      PROVE  Fits(Ltrim(Ltrim(q, start), stale))
  <2>1. CASE stale <= k
    <3>1. stale \in 0..L /\ stale \in 0..k /\ L - stale \in 0..L /\ k - stale \in 0..L - stale
          /\ k - stale \in 0..k
      BY <1>1, <1>2, <2>1
    <3>2. Ltrim(q, stale) = Newest(q, L - stale)
      BY <1>1, <3>1, LtrimCount
    <3>3. Ltrim(Ltrim(q, start), stale) = Newest(Ltrim(q, start), k - stale)
      BY <1>3, <3>1, LtrimCount
    <3>4. Newest(Ltrim(q, start), k - stale) = Newest(q, k - stale)
      BY <1>1, <1>2, <3>1, NewestOfNewest
    <3> QED
      BY <1>1, <1>5, <3>1, <3>2, <3>3, <3>4, ShorterFits, BlocksHaveTokens
  <2>2. CASE stale > k
    <3>1. Ltrim(Ltrim(q, start), stale) = <<>>
      BY <1>2, <1>3, <2>2, SubSeqEmpty DEF Ltrim
    <3>2. PICK m \in 0..L : Ltrim(q, stale) = Newest(q, m)
      BY <1>1, LtrimKeepsNewest
    <3>3. 0 \in 0..m /\ Newest(q, 0) = <<>>
      BY <1>1, <3>2, EmptyWindow
    <3> QED
      BY <1>1, <1>5, <3>1, <3>2, <3>3, ShorterFits, BlocksHaveTokens
  <2> QED
    BY <1>2, <2>1, <2>2
<1> QED
  BY <1>4, <1>5

(* The empty list is within every pair of limits.                          *)
LEMMA EmptyFits == Fits(<<>>)
<1>1. <<>> \in Seq(Blocks) /\ Len(<<>>) = 0
  BY EmptySeq
<1>2. PICK e : e = <<>>
  OBVIOUS
<1>3. KeepStart(e) \in 0..0
  BY <1>1, <1>2, KeepStartRange
<1>4. Ltrim(e, 0) = <<>>
  BY <1>1, <1>2, SubSeqEmpty DEF Ltrim
<1>5. KeepStart(e) = 0
  BY <1>3
<1> QED
  BY <1>1, <1>2, <1>4, <1>5, KeptFits

\* Someone will still bring the list within its limits, unless it is: by the
\* list it reads next, or by the index it has computed.
SomeoneTrims ==
    \/ Fits(blocks)
    \/ \E c \in Clients : command[c] = "lrange"
    \/ \E c \in Clients : command[c] = "ltrim" /\ Fits(Ltrim(blocks, keep[c]))

LimitsInv == abandoned = 0 => SomeoneTrims

(* Trimming for itself, a client trims for every client whose index was    *)
(* computed earlier.                                                       *)
LEMMA LtrimKeepsLimits ==
    ASSUME RedisInv, SomeoneTrims, NEW c \in Clients, LtrimList(c)
    PROVE  SomeoneTrims'
<1>1. blocks \in Seq(Blocks) /\ \A d \in Clients : keep[d] \in Nat
  BY RedisAssumption, BlocksAssumption DEF RedisInv, RedisTypeOK
<1>2. command[c] = "ltrim" /\ blocks' = Ltrim(blocks, keep[c])
  BY DEF LtrimList
<1>3. \A d \in Clients \ {c} : command'[d] = command[d] /\ keep'[d] = keep[d]
  BY DEF RedisInv, RedisTypeOK, LtrimList
<1>4. CASE Fits(blocks)
  BY <1>1, <1>2, <1>4, CutFits DEF SomeoneTrims
<1>5. ASSUME NEW d \in Clients, command[d] = "lrange"
      PROVE  SomeoneTrims'
  BY <1>2, <1>3, <1>5 DEF SomeoneTrims
<1>6. ASSUME NEW d \in Clients, command[d] = "ltrim", Fits(Ltrim(blocks, keep[d]))
      PROVE  SomeoneTrims'
  <2>1. CASE d = c
    BY <1>2, <1>6, <2>1 DEF SomeoneTrims
  <2>2. CASE d # c
    <3>1. Fits(Ltrim(Ltrim(blocks, keep[c]), keep[d]))
      BY <1>1, <1>6, CutFits
    <3>2. command'[d] = "ltrim" /\ Fits(Ltrim(blocks', keep'[d]))
      BY <1>2, <1>3, <1>6, <2>2, <3>1
    <3> QED
      BY <3>2 DEF SomeoneTrims
  <2> QED
    BY <2>1, <2>2
<1> QED
  BY <1>4, <1>5, <1>6 DEF SomeoneTrims

(* Every command keeps someone who trims, or is counted as a failure.      *)
LEMMA NextKeepsLimits == RedisInv /\ LimitsInv /\ [RedisNext]_redisVars => LimitsInv'
<1> SUFFICES ASSUME RedisInv, LimitsInv, [RedisNext]_redisVars, abandoned' = 0
             PROVE  SomeoneTrims'
  BY DEF LimitsInv
<1>1. ASSUME NEW c \in Clients, NEW tok \in TokenCounts, Rpush(c, tok)
      PROVE  SomeoneTrims'
  BY <1>1 DEF RedisInv, RedisTypeOK, Rpush, SomeoneTrims
<1>2. ASSUME NEW c \in Clients, Lrange(c)
      PROVE  SomeoneTrims'
  <2>1. blocks' = blocks /\ blocks \in Seq(Blocks)
    BY <1>2 DEF Lrange, RedisInv, RedisTypeOK
  <2>2. PICK start : start = KeepStart(blocks)
    OBVIOUS
  <2>3. /\ keep'[c] = start
        /\ command'[c] = IF start > 0 THEN "ltrim" ELSE "idle"
    BY <1>2, <2>2 DEF Lrange, RedisInv, RedisTypeOK
  <2>4. start \in 0..Len(blocks) /\ Len(blocks) \in Nat
    BY <2>1, <2>2, KeepStartRange, LenProperties
  <2>5. Fits(Ltrim(blocks, start))
    BY <2>1, <2>2, KeptFits
  <2>6. CASE start > 0
    BY <2>1, <2>3, <2>5, <2>6 DEF SomeoneTrims
  <2>7. CASE start = 0
    <3>1. Ltrim(blocks, start) = blocks
      BY <2>1, <2>7 DEF Ltrim
    <3> QED
      BY <2>1, <2>5, <3>1 DEF SomeoneTrims
  <2> QED
    BY <2>4, <2>6, <2>7
<1>3. ASSUME NEW c \in Clients, LtrimList(c)
      PROVE  SomeoneTrims'
  <2>1. SomeoneTrims
    BY <1>3 DEF LtrimList, LimitsInv
  <2> QED
    BY <1>3, <2>1, LtrimKeepsLimits
<1>4. ASSUME NEW c \in Clients, NEW src \in Fields, Hset(c, src)
      PROVE  SomeoneTrims'
  BY <1>4 DEF LimitsInv, SomeoneTrims, Hset
<1>5. ASSUME NEW c \in Clients, DeleteList(c)
      PROVE  SomeoneTrims'
  BY <1>5, EmptyFits DEF SomeoneTrims, DeleteList
<1>6. ASSUME NEW c \in Clients, DeleteFields(c)
      PROVE  SomeoneTrims'
  <2>1. \A d \in Clients : command[d] \in {"lrange", "ltrim"} => command'[d] = command[d]
    BY <1>6 DEF RedisInv, RedisTypeOK, DeleteFields
  <2>2. SomeoneTrims /\ blocks' = blocks /\ keep' = keep
    BY <1>6 DEF LimitsInv, DeleteFields
  <2> QED
    BY <2>1, <2>2 DEF SomeoneTrims
<1>7. ASSUME NEW c \in Clients, Abandon(c)
      PROVE  SomeoneTrims'
  BY <1>7, RedisAssumption, BlocksAssumption DEF RedisInv, RedisTypeOK, Abandon
<1>8. CASE UNCHANGED redisVars
  BY <1>8 DEF redisVars, LimitsInv, SomeoneTrims
<1> QED
  BY <1>1, <1>2, <1>3, <1>4, <1>5, <1>6, <1>7, <1>8 DEF RedisNext

(* While no operation was abandoned, a list at rest is within both limits: *)
(* for every pair of limits, every number of clients and every way their   *)
(* commands interleave.                                                    *)
THEOREM NothingOverflowsAtRest == RedisSpec => [](AtRest /\ abandoned = 0 => Fits(blocks))
<1>1. RedisInit => LimitsInv
  BY EmptyFits DEF RedisInit, LimitsInv, SomeoneTrims
<1>2. LimitsInv => (AtRest /\ abandoned = 0 => Fits(blocks))
  BY DEF LimitsInv, SomeoneTrims, AtRest
<1> QED
  BY <1>1, <1>2, NextKeepsLimits, RedisInvariant, PTL DEF RedisSpec
-----------------------------------------------------------------------------
(* Operations that do not overlap.                                         *)

(* Trimming what was trimmed changes nothing, and trimming an append is    *)
(* trimming the append to what was trimmed.                                *)
LEMMA TrimOnce ==
    ASSUME MaxBlocks # 0, NEW q \in Seq(Blocks)
    PROVE  /\ Trim(q) \in Seq(Blocks)
           /\ Trim(q) = LongestFitting(q)
           /\ Ltrim(q, KeepStart(q)) = Trim(q)
           /\ Trim(Trim(q)) = Trim(q)
           /\ \A b \in Blocks : Trim(Append(q, b)) = LongestFitting(Append(Trim(q), b))
<1>1. PICK L \in Nat : L = Len(q)
  BY LenProperties
<1>2. PICK k \in 0..L : /\ Trim(q) = Newest(q, k)
                        /\ \A n \in 0..L : Fits(Newest(q, n)) <=> n <= k
  BY <1>1, TrimIsLongest, BlocksHaveTokens
<1>3. PICK w : w = Trim(q)
  OBVIOUS
<1>4. w \in Seq(Blocks) /\ Len(w) = k /\ w = Newest(q, k)
  BY <1>1, <1>2, <1>3, NewestElements
<1>5. Ltrim(q, KeepStart(q)) = w
  <2>1. PICK m \in 0..L : m = L - KeepStart(q) /\ Ltrim(q, KeepStart(q)) = Newest(q, m)
    <3>1. KeepStart(q) \in 0..Len(q)
      BY KeepStartRange
    <3> QED
      BY <1>1, <3>1, LtrimCount
  <2>2. \A n \in 0..L : Fits(Newest(q, n)) <=> n <= m
    BY <1>1, <2>1, KeepStartFits
  <2>3. m <= m /\ k <= k
    BY <1>1
  <2>4. m = k
    BY <1>1, <1>2, <2>2, <2>3
  <2> QED
    BY <1>4, <2>1, <2>4
<1>6. Trim(w) = w
  <2>1. PICK m \in 0..k : /\ Trim(w) = Newest(w, m)
                          /\ \A n \in 0..k : Fits(Newest(w, n)) <=> n <= m
    BY <1>4, TrimIsLongest, BlocksHaveTokens
  <2>2. k \in 0..k /\ k <= k
    BY <1>1
  <2>3. Newest(w, k) = w
    BY <1>4, <2>2 DEF Newest
  <2>4. Fits(w)
    BY <1>2, <1>4, <2>2
  <2>5. k <= m
    BY <2>1, <2>2, <2>3, <2>4
  <2>6. m = k
    BY <1>1, <2>1, <2>5
  <2> QED
    BY <2>1, <2>3, <2>6
<1>7. ASSUME NEW b \in Blocks
      PROVE  Trim(Append(q, b)) = LongestFitting(Append(w, b))
  <2>1. k \in 0..Len(q) /\ Len(LongestFitting(q)) <= k
    <3>1. LongestFitting(q) = w
      BY <1>3, TrimIsLongestFitting, BlocksHaveTokens
    <3> QED
      BY <1>1, <1>4, <3>1
  <2>2. Trim(Append(w, b)) = LongestFitting(Append(q, b))
    BY <1>4, <2>1, AppendKeepsLongest, BlocksHaveTokens
  <2>3. Append(q, b) \in Seq(Blocks) /\ Append(w, b) \in Seq(Blocks)
    BY <1>4, AppendProperties
  <2>4. /\ Trim(Append(q, b)) = LongestFitting(Append(q, b))
        /\ Trim(Append(w, b)) = LongestFitting(Append(w, b))
    BY <2>3, TrimIsLongestFitting, BlocksHaveTokens
  <2> QED
    BY <2>2, <2>4
<1>8. w = LongestFitting(q)
  BY <1>3, TrimIsLongestFitting, BlocksHaveTokens
<1> QED
  BY <1>3, <1>4, <1>5, <1>6, <1>7, <1>8

(* The trimmed empty list is the longest window of no blocks.              *)
LEMMA TrimEmpty ==
    ASSUME MaxBlocks # 0
    PROVE  Trim(<<>>) = <<>> /\ LongestFitting(<<>>) = <<>>
<1>1. PICK e : e = <<>>
  OBVIOUS
<1>2. e \in Seq(Blocks) /\ Len(e) = 0
  BY <1>1, EmptySeq
<1>3. PICK k \in 0..0 : Trim(e) = Newest(e, k)
  BY <1>2, TrimIsLongest, BlocksHaveTokens
<1>4. k = 0
  OBVIOUS
<1>5. Newest(e, 0) = <<>>
  BY <1>2, EmptyWindow, Zenon
<1> QED
  BY <1>1, <1>2, <1>3, <1>4, <1>5, TrimIsLongestFitting, BlocksHaveTokens

\* Until operations overlap, at most one client is inside one, the index it
\* has computed is fresh, and the trimmed list is the longest window.
Serial == \A c, d \in Clients : command[c] # "idle" /\ command[d] # "idle" => c = d
IndexFresh == \A c \in Clients : command[c] = "ltrim" => keep[c] = KeepStart(blocks)
SerialInv == ~raced => Serial /\ IndexFresh /\ Trim(blocks) = LongestFitting(pushed)

(* A push by the only client inside an operation.                          *)
LEMMA RpushSerial ==
    ASSUME MaxBlocks # 0, RedisInv, SerialInv, NEW c \in Clients, NEW tok \in TokenCounts,
           Rpush(c, tok)
    PROVE  /\ SerialInv'
           /\ \E b \in Blocks : Trim(blocks)' = LongestFitting(Append(Trim(blocks), b))
<1>1. PICK b : b = [id |-> pushes + 1, tok |-> tok]
  OBVIOUS
<1>2. b \in Blocks
  BY <1>1, RedisAssumption, BlocksAssumption DEF RedisInv, RedisTypeOK, Blocks, Rpush
<1>3. blocks \in Seq(Blocks) /\ pushed \in Seq(Blocks)
  BY DEF RedisInv, RedisTypeOK
<1>4. blocks' = Append(blocks, b) /\ pushed' = Append(pushed, b)
  BY <1>1 DEF Rpush
<1>5. Trim(blocks') = LongestFitting(Append(Trim(blocks), b))
  BY <1>2, <1>3, <1>4, TrimOnce
<1>6. ASSUME ~raced'
      PROVE  Serial' /\ IndexFresh' /\ Trim(blocks') = LongestFitting(pushed')
  <2>1. ~raced /\ \A d \in Clients \ {c} : command[d] = "idle"
    BY <1>6 DEF Rpush, OthersBusy
  <2>2. command'[c] = "lrange" /\ \A d \in Clients \ {c} : command'[d] = "idle"
    BY <2>1 DEF RedisInv, RedisTypeOK, Rpush
  <2>3. Serial' /\ IndexFresh'
    BY <2>2 DEF Serial, IndexFresh
  <2>4. PICK n : n = Len(blocks)
    OBVIOUS
  <2>5. n \in 0..Len(pushed) /\ blocks = Newest(pushed, n)
    BY <1>3, <2>4, LenProperties DEF RedisInv, ListIsNewest
  <2>6. Len(LongestFitting(pushed)) <= n
    <3>1. LongestFitting(pushed) = Trim(blocks)
      BY <2>1 DEF SerialInv
    <3>2. PICK k \in 0..n : Trim(blocks) = Newest(blocks, k)
      BY <1>3, <2>4, TrimKeepsNewest
    <3>3. Len(Newest(blocks, k)) = k
      BY <1>3, <2>4, <3>2, NewestElements
    <3> QED
      BY <1>3, <2>4, <3>1, <3>2, <3>3, LenProperties
  <2>7. Trim(Append(blocks, b)) = LongestFitting(Append(pushed, b))
    BY <1>2, <1>3, <2>5, <2>6, AppendKeepsLongest, BlocksHaveTokens
  <2> QED
    BY <1>4, <2>3, <2>7
<1> QED
  BY <1>2, <1>5, <1>6 DEF SerialInv

(* A trim by the only client inside an operation.                          *)
LEMMA LtrimSerial ==
    ASSUME MaxBlocks # 0, RedisInv, SerialInv, NEW c \in Clients, LtrimList(c), ~raced
    PROVE  SerialInv' /\ Trim(blocks)' = Trim(blocks)
<1>1. blocks \in Seq(Blocks) /\ command[c] = "ltrim" /\ keep[c] = KeepStart(blocks)
  BY DEF RedisInv, RedisTypeOK, LtrimList, SerialInv, IndexFresh
<1>2. blocks' = Trim(blocks) /\ pushed' = pushed
  BY <1>1, TrimOnce DEF LtrimList
<1>3. Trim(blocks') = Trim(blocks)
  BY <1>1, <1>2, TrimOnce
<1>4. \A d \in Clients : command'[d] = "idle"
  BY <1>1 DEF RedisInv, RedisTypeOK, LtrimList, SerialInv, Serial
<1>5. Serial' /\ IndexFresh'
  BY <1>4 DEF Serial, IndexFresh
<1> QED
  BY <1>2, <1>3, <1>5 DEF SerialInv

(* SerialInv is inductive, with one step per command.                      *)
LEMMA NextKeepsSerial ==
    ASSUME MaxBlocks # 0
    PROVE  RedisInv /\ SerialInv /\ [RedisNext]_redisVars => SerialInv'
<1> SUFFICES ASSUME RedisInv, SerialInv, [RedisNext]_redisVars PROVE SerialInv'
  OBVIOUS
<1>1. ASSUME NEW c \in Clients, NEW tok \in TokenCounts, Rpush(c, tok)
      PROVE  SerialInv'
  BY <1>1, RpushSerial
<1>2. ASSUME NEW c \in Clients, Lrange(c), ~raced
      PROVE  SerialInv'
  <2>1. /\ command[c] = "lrange" /\ blocks' = blocks /\ pushed' = pushed
        /\ command'[c] \in {"ltrim", "idle"} /\ keep'[c] = KeepStart(blocks)
        /\ \A d \in Clients \ {c} : command'[d] = command[d]
    BY <1>2 DEF RedisInv, RedisTypeOK, Lrange
  <2>2. \A d \in Clients \ {c} : command'[d] = "idle"
    BY <1>2, <2>1 DEF SerialInv, Serial
  <2>3. Serial' /\ IndexFresh'
    BY <2>1, <2>2 DEF Serial, IndexFresh
  <2> QED
    BY <1>2, <2>1, <2>3 DEF SerialInv
<1>3. ASSUME NEW c \in Clients, LtrimList(c), ~raced
      PROVE  SerialInv'
  BY <1>3, LtrimSerial
<1>4. ASSUME NEW c \in Clients, DeleteList(c)
      PROVE  SerialInv'
  <2> SUFFICES ASSUME ~raced' PROVE SerialInv'
    BY DEF SerialInv
  <2>1. \A d \in Clients \ {c} : command[d] = "idle"
    BY <1>4 DEF DeleteList, OthersBusy
  <2>2. command'[c] = "delete_parts" /\ \A d \in Clients \ {c} : command'[d] = "idle"
    BY <1>4, <2>1 DEF RedisInv, RedisTypeOK, DeleteList
  <2>3. Serial' /\ IndexFresh'
    BY <2>2 DEF Serial, IndexFresh
  <2>4. Trim(blocks') = LongestFitting(pushed')
    BY <1>4, TrimEmpty DEF DeleteList
  <2> QED
    BY <2>3, <2>4 DEF SerialInv
<1>5. ASSUME NEW c \in Clients, DeleteFields(c) \/ Abandon(c), ~raced
      PROVE  SerialInv'
  <2>1. /\ blocks' = blocks /\ pushed' = pushed /\ command'[c] = "idle"
        /\ \A d \in Clients \ {c} : command'[d] = command[d] /\ keep'[d] = keep[d]
    BY <1>5 DEF RedisInv, RedisTypeOK, DeleteFields, Abandon
  <2>2. Serial' /\ IndexFresh'
    BY <1>5, <2>1 DEF SerialInv, Serial, IndexFresh
  <2> QED
    BY <1>5, <2>1, <2>2 DEF SerialInv
<1>6. CASE UNCHANGED <<blocks, pushed, command, keep, raced>>
  BY <1>6 DEF SerialInv, Serial, IndexFresh
<1>7. CASE raced /\ raced' = raced
  BY <1>7 DEF SerialInv
<1> QED
  BY <1>1, <1>2, <1>3, <1>4, <1>5, <1>6, <1>7
     DEF RedisNext, Lrange, LtrimList, DeleteFields, Abandon, Hset, redisVars

(* SerialInv holds in every reachable state.                               *)
LEMMA SerialInvariant ==
    ASSUME MaxBlocks # 0
    PROVE  RedisSpec => []SerialInv
<1>1. RedisInit => SerialInv
  BY TrimEmpty DEF RedisInit, SerialInv, Serial, IndexFresh
<1> QED
  BY <1>1, NextKeepsSerial, RedisInvariant, PTL DEF RedisSpec

(* What a list at rest holds: nothing beyond the limits as long as no      *)
(* operation was abandoned, and all that fits as long as none overlapped.  *)
THEOREM ListAlwaysFitsAtRest ==
    ASSUME MaxBlocks # 0
    PROVE  RedisSpec => []ListFitsAtRest
<1>1. (AtRest /\ abandoned = 0 => Fits(blocks)) /\ SerialInv => ListFitsAtRest
  BY DEF SerialInv, ListFitsAtRest
<1> QED
  BY <1>1, NothingOverflowsAtRest, SerialInvariant, PTL
-----------------------------------------------------------------------------
(* The store implements what HotMemoryProtocol promises until a race.      *)

(* The promise speaks of the same longest window.                          *)
LEMMA RedisSameLongest ==
    ASSUME NEW q
    PROVE  RedisRecent!LongestFitting(q) = LongestFitting(q)
<1>1. \A w : RedisRecent!Tokens(w) = Tokens(w)
  BY Zenon DEF RedisRecent!Tokens, Tokens
<1>2. \A w : RedisRecent!Fits(w) <=> Fits(w)
  BY <1>1, Zenon DEF RedisRecent!Fits, Fits, RedisRecent!NoLimit, NoLimit
<1> QED
  BY <1>2, Zenon DEF RedisRecent!LongestFitting, LongestFitting, Suffixes, RedisRecent!Suffixes

(* Every command of an operation that overlaps no other is a step of the   *)
(* promise or changes no window.                                           *)
LEMMA RedisStepImplements ==
    ASSUME MaxBlocks # 0, RedisInv, SerialInv, [RedisNext]_redisVars
    PROVE  raced' \/ RedisRecent!Next \/ UNCHANGED Trim(blocks)
<1>1. ASSUME NEW c \in Clients, NEW tok \in TokenCounts, Rpush(c, tok)
      PROVE  RedisRecent!Next
  <2>1. PICK b \in Blocks : Trim(blocks)' = LongestFitting(Append(Trim(blocks), b))
    BY <1>1, RpushSerial
  <2>2. RedisRecent!AppendBlock("session", b)
    BY <2>1, RedisSameLongest DEF RedisRecent!AppendBlock
  <2> QED
    BY <2>2 DEF RedisRecent!Next, RedisRecent!Blocks, Blocks
<1>2. ASSUME NEW c \in Clients, DeleteList(c)
      PROVE  RedisRecent!Next
  <2>1. Trim(blocks)' = <<>>
    BY <1>2, TrimEmpty DEF DeleteList
  <2> QED
    BY <2>1 DEF RedisRecent!Next, RedisRecent!DeleteHistory
<1>3. ASSUME NEW c \in Clients, LtrimList(c), ~raced
      PROVE  UNCHANGED Trim(blocks)
  BY <1>3, LtrimSerial
<1>4. CASE raced /\ raced' = raced
  BY <1>4
<1>5. CASE UNCHANGED blocks
  BY <1>5
<1> QED
  BY <1>1, <1>2, <1>3, <1>4, <1>5
     DEF RedisNext, Lrange, LtrimList, DeleteFields, Abandon, Hset, redisVars

(* Until operations overlap, the three commands of an append are one step  *)
(* of RecentHistory, wherever the append is abandoned.                     *)
THEOREM StoreImplementsUnlessRaced ==
    ASSUME MaxBlocks # 0
    PROVE  RedisSpec => ImplementsUnlessRaced
<1>1. RedisInv /\ SerialInv /\ [RedisNext]_redisVars
         => [raced' \/ RedisRecent!Next \/ UNCHANGED Trim(blocks)]_redisVars
  BY RedisStepImplements
<1> QED
  BY <1>1, RedisInvariant, SerialInvariant, PTL DEF RedisSpec, ImplementsUnlessRaced
-----------------------------------------------------------------------------
(* The JSONL store.                                                        *)

\* What an append under way knows: its block is the last one begun, and what
\* it has read is older.
AppendUnderWay ==
    /\ writing \in Blocks /\ writing.id = appends /\ writing \in Range(begun)
    /\ InOrder(before, Range(begun))
    /\ \A i \in DOMAIN before : before[i].id < appends

\* The inductive invariant for the order of the lines.
JsonlInv ==
    /\ JsonlTypeOK
    /\ InOrder(lines, Range(begun))
    /\ \A b \in Range(begun) : b.id <= appends
    /\ turn = "upsert" => writing \in PartContents
    /\ turn \in {"append", "write"} => AppendUnderWay

(* No block is a torn line.                                                *)
LEMMA BlocksAreWhole ==
    /\ \A b \in Blocks : b # Torn /\ b.tok \in Nat /\ b.id \in 1..AppendLimit
    /\ Blocks \subseteq Blocks \cup {Torn}
<1>1. ASSUME NEW b \in Blocks
      PROVE  b # Torn /\ b.tok \in Nat /\ b.id \in 1..AppendLimit
  <2>1. b.id \in 1..AppendLimit /\ b.tok \in TokenCounts
    BY DEF Blocks
  <2>2. Torn.id = 0
    BY DEF Torn, NoBlock
  <2>3. b.id # 0
    BY <2>1, BlocksAssumption
  <2> QED
    BY <2>1, <2>2, <2>3, BlocksAssumption
<1> QED
  BY <1>1

(* A sequence of lines without a torn one is a sequence of blocks.         *)
LEMMA IntactBlocks ==
    ASSUME NEW q \in Seq(Blocks \cup {Torn}), Intact(q)
    PROVE  q \in Seq(Blocks)
<1>1. PICK L \in Nat : L = Len(q) /\ q \in [1..L -> Blocks \cup {Torn}]
  BY LenProperties
<1>2. \A i \in 1..L : q[i] \in Blocks
  BY <1>1 DEF Intact
<1>3. q \in [1..L -> Blocks]
  BY <1>1, <1>2
<1> QED
  BY <1>3, SeqDef

(* Trimming lines with a newer block at the end leaves lines in order.     *)
LEMMA TrimmedInOrder ==
    ASSUME NEW q \in Seq(Blocks), NEW b \in Blocks, NEW A, b \in A, InOrder(q, A),
           \A i \in DOMAIN q : q[i].id < b.id
    PROVE  /\ Trim(Append(q, b)) \in Seq(Blocks)
           /\ InOrder(Trim(Append(q, b)), A)
<1>1. PICK L \in Nat : L = Len(q) /\ DOMAIN q = 1..L
  BY LenProperties
<1>2. PICK r : r = Append(q, b)
  OBVIOUS
<1>3. /\ r \in Seq(Blocks) /\ Len(r) = L + 1 /\ r[L + 1] = b
      /\ \A i \in 1..L : r[i] = q[i] /\ r[i] \in Blocks
  BY <1>1, <1>2, AppendProperties, ElementOfSeq
<1>4. /\ \A i \in 1..L + 1 : r[i] \in A
      /\ \A i, j \in 1..L + 1 : i < j => r[i].id < r[j].id
  <2>0. \A i \in 1..L : q[i] # Torn
    BY <1>1, BlocksAreWhole, ElementOfSeq
  <2>1. \A i \in 1..L : q[i] \in A
    BY <1>1, <2>0 DEF InOrder
  <2>2. \A i, j \in 1..L : i < j => q[i].id < q[j].id
    BY <1>1, <2>0 DEF InOrder
  <2>3. \A i \in 1..L + 1 : i \in 1..L \/ i = L + 1
    OBVIOUS
  <2> QED
    BY <1>1, <1>3, <2>1, <2>2, <2>3
<1>5. PICK k \in 0..L + 1 : Trim(r) = Newest(r, k)
  BY <1>3, TrimKeepsNewest
<1>6. PICK w : w = Trim(r)
  OBVIOUS
<1>7. w \in Seq(Blocks) /\ Len(w) = k /\ \A i \in 1..k : w[i] = r[L + 1 - k + i]
  <2>1. k \in 0..Len(r) /\ w = Newest(r, k)
    BY <1>3, <1>5, <1>6
  <2>2. /\ w \in Seq(Blocks) /\ Len(w) = k
        /\ \A i \in 1..k : w[i] = r[Len(r) - k + i]
    BY <1>3, <2>1, NewestElements
  <2> QED
    BY <1>3, <2>2
<1>8. DOMAIN w = 1..k /\ \A i \in 1..k : w[i] \in A /\ w[i] # Torn
  <2>1. DOMAIN w = 1..k /\ \A i \in 1..k : w[i] \in Blocks
    BY <1>7, LenProperties, ElementOfSeq
  <2>2. \A i \in 1..k : L + 1 - k + i \in 1..L + 1
    BY <1>5
  <2> QED
    BY <1>4, <1>7, <2>1, <2>2, BlocksAreWhole
<1>9. ASSUME NEW i \in 1..k, NEW j \in 1..k, i < j
      PROVE  w[i].id < w[j].id
  <2>1. /\ L + 1 - k + i \in 1..L + 1 /\ L + 1 - k + j \in 1..L + 1
        /\ L + 1 - k + i < L + 1 - k + j
    BY <1>5, <1>9
  <2> QED
    BY <1>4, <1>7, <2>1
<1>10. InOrder(w, A)
  BY <1>8, <1>9 DEF InOrder
<1> QED
  BY <1>2, <1>6, <1>7, <1>10

(* What is left of lines in order when their writing is cut short.         *)
LEMMA CutInOrder ==
    ASSUME NEW q \in Seq(Blocks), NEW A, InOrder(q, A), NEW w \in CutShort(q)
    PROVE  w \in Seq(Blocks \cup {Torn}) /\ InOrder(w, A)
<1>1. PICK L \in Nat : L = Len(q) /\ DOMAIN q = 1..L
  BY LenProperties
<1>2. /\ \A i \in 1..L : q[i] \in Blocks /\ q[i] # Torn /\ q[i] \in A
      /\ \A i, j \in 1..L : i < j => q[i].id < q[j].id
  BY <1>1, ElementOfSeq, BlocksAreWhole DEF InOrder
<1>3. CASE w = <<>>
  BY <1>3, EmptySeq DEF InOrder
<1>4. ASSUME NEW n \in 0..L - 1
      PROVE  /\ SubSeq(q, 1, n) \in Seq(Blocks) /\ Len(SubSeq(q, 1, n)) = n
             /\ \A i \in 1..n : SubSeq(q, 1, n)[i] = q[i] /\ i \in 1..L
  <2>1. \A i \in 1..n : q[i] \in Blocks
    BY <1>2
  <2>2. \A i \in 1..n - 1 + 1 : SubSeq(q, 1, n)[i] = q[1 + i - 1]
    BY <2>1, SubSeqProperties
  <2>3. SubSeq(q, 1, n) \in Seq(Blocks) /\ Len(SubSeq(q, 1, n)) = IF 1 <= n THEN n - 1 + 1 ELSE 0
    BY <2>1, SubSeqProperties
  <2> QED
    BY <1>4, <2>2, <2>3
<1>5. ASSUME NEW n \in 0..L - 1, w = SubSeq(q, 1, n)
      PROVE  w \in Seq(Blocks \cup {Torn}) /\ InOrder(w, A)
  <2>1. w \in Seq(Blocks) /\ Len(w) = n /\ \A i \in 1..n : w[i] = q[i] /\ i \in 1..L
    BY <1>4, <1>5
  <2>2. w \in Seq(Blocks \cup {Torn}) /\ DOMAIN w = 1..n
    BY <2>1, SeqMonotonic, LenProperties, BlocksAreWhole
  <2> QED
    BY <1>2, <2>1, <2>2 DEF InOrder
<1>6. ASSUME NEW n \in 0..L - 1, w = Append(SubSeq(q, 1, n), Torn)
      PROVE  w \in Seq(Blocks \cup {Torn}) /\ InOrder(w, A)
  <2>1. PICK p : p = SubSeq(q, 1, n)
    OBVIOUS
  <2>2. p \in Seq(Blocks) /\ Len(p) = n /\ \A i \in 1..n : p[i] = q[i] /\ i \in 1..L
    BY <1>4, <2>1
  <2>3. p \in Seq(Blocks \cup {Torn})
    BY <2>2, SeqMonotonic, BlocksAreWhole
  <2>4. /\ w \in Seq(Blocks \cup {Torn}) /\ Len(w) = n + 1 /\ w[n + 1] = Torn
        /\ \A i \in 1..n : w[i] = p[i]
    BY <1>6, <2>1, <2>2, <2>3, AppendProperties
  <2>5. DOMAIN w = 1..n + 1
    BY <2>4, LenProperties
  <2>6. \A i \in 1..n + 1 : i = n + 1 \/ i \in 1..n
    OBVIOUS
  <2>7. \A i \in 1..n : w[i] = q[i] /\ i \in 1..L
    BY <2>2, <2>4
  <2>8. ASSUME NEW i \in 1..n + 1
        PROVE  /\ i < n + 1 => w[i] # Torn
               /\ w[i] # Torn => w[i] \in A
               /\ \A j \in 1..n + 1 : i < j /\ w[j] # Torn => w[i].id < w[j].id
    <3>1. CASE i = n + 1
      BY <2>4, <3>1
    <3>2. CASE i \in 1..n
      BY <1>2, <2>4, <2>6, <2>7, <3>2
    <3> QED
      BY <2>6, <3>1, <3>2
  <2> QED
    BY <2>4, <2>5, <2>8 DEF InOrder
<1> QED
  BY <1>1, <1>3, <1>5, <1>6 DEF CutShort

(* A store never used satisfies the invariant.                             *)
LEMMA JsonlInitInv == JsonlInit => JsonlInv
<1> SUFFICES ASSUME JsonlInit PROVE JsonlInv
  OBVIOUS
<1>1. <<>> \in Seq(Blocks) /\ <<>> \in Seq(Blocks \cup {Torn}) /\ DOMAIN <<>> = {}
  BY EmptySeq
<1>2. JsonlTypeOK
  BY <1>1, JsonlAssumption, BlocksAssumption DEF JsonlInit, JsonlTypeOK
<1> QED
  BY <1>1, <1>2 DEF JsonlInit, JsonlInv, InOrder, Range

(* The operations keep the types; that the lines they write are lines is   *)
(* shown with their order.                                                 *)
LEMMA JsonlTypeStep ==
    ASSUME JsonlInv, JsonlNext,
           lines' \in Seq(Blocks \cup {Torn}), before' \in Seq(Blocks), begun' \in Seq(Blocks)
    PROVE  JsonlTypeOK'
<1> USE DEF JsonlInv, JsonlTypeOK, files, jsonlGhosts, Stop
<1>1. CASE LoadRuntimeState
  BY <1>1, JsonlAssumption DEF LoadRuntimeState
<1>2. CASE ReadContextSnapshot
  BY <1>2 DEF ReadContextSnapshot
<1>3. CASE BeginAppend
  <2>1. PICK tok \in TokenCounts : writing' = [id |-> appends + 1, tok |-> tok]
    BY <1>3 DEF BeginAppend
  <2>2. appends + 1 \in 1..AppendLimit /\ appends + 1 \in 0..AppendLimit
    BY <1>3, BlocksAssumption DEF BeginAppend
  <2>3. writing' \in Blocks
    BY <2>1, <2>2 DEF Blocks
  <2> QED
    BY <1>3, <2>2, <2>3 DEF BeginAppend
<1>4. CASE Truncate
  <2>1. stops' \in 0..StopLimit
    BY <1>4, JsonlAssumption DEF Truncate
  <2>2. whole' \in BOOLEAN
    BY <1>4, Zenon DEF Truncate
  <2>3. turn' \in {"write", "handler", "delete"}
    BY <1>4 DEF Truncate
  <2>4. writing' \in {writing, NoBlock}
    BY <1>4 DEF Truncate
  <2> QED
    BY <1>4, <2>1, <2>2, <2>3, <2>4 DEF Truncate
<1>5. CASE WriteLines
  <2>1. stops' \in 0..StopLimit
    BY <1>5, JsonlAssumption DEF WriteLines
  <2>2. whole' \in BOOLEAN
    BY <1>5, Zenon DEF WriteLines
  <2>3. turn' \in {"write", "handler", "delete"}
    BY <1>5 DEF WriteLines
  <2>4. writing' \in {writing, NoBlock}
    BY <1>5 DEF WriteLines
  <2> QED
    BY <1>5, <2>1, <2>2, <2>3, <2>4 DEF WriteLines
<1>6. CASE BeginUpsert
  BY <1>6 DEF BeginUpsert
<1>7. CASE EndUpsert
  BY <1>7, JsonlAssumption DEF EndUpsert
<1>8. CASE DeleteLines
  <2>1. stops' \in 0..StopLimit
    BY <1>8, JsonlAssumption DEF DeleteLines
  <2>2. whole' \in BOOLEAN
    BY <1>8, Zenon DEF DeleteLines
  <2>3. turn' \in {"write", "handler", "delete"}
    BY <1>8 DEF DeleteLines
  <2>4. writing' \in {writing, NoBlock}
    BY <1>8 DEF DeleteLines
  <2> QED
    BY <1>8, <2>1, <2>2, <2>3, <2>4 DEF DeleteLines
<1>9. CASE DeleteParts
  BY <1>9, JsonlAssumption DEF DeleteParts
<1>10. CASE ChangeState
  BY <1>10 DEF ChangeState
<1>11. CASE TurnReturns \/ TurnRaises
  BY <1>11 DEF TurnReturns, TurnRaises
<1>12. CASE TruncateState
  BY <1>12, JsonlAssumption DEF TruncateState
<1>13. CASE DumpState
  BY <1>13, JsonlAssumption DEF DumpState
<1>14. CASE Dies
  BY <1>14, JsonlAssumption DEF Dies
<1>15. CASE Restart
  BY <1>15, JsonlAssumption DEF Restart
<1> QED
  BY <1>1, <1>2, <1>3, <1>4, <1>5, <1>6, <1>7, <1>8, <1>9, <1>10, <1>11, <1>12,
     <1>13, <1>14, <1>15 DEF JsonlNext

(* An append under way writes lines in order.                              *)
LEMMA TargetInOrder ==
    ASSUME JsonlInv, turn \in {"append", "write"}
    PROVE  /\ Trim(Append(before, writing)) \in Seq(Blocks)
           /\ InOrder(Trim(Append(before, writing)), Range(begun))
<1>1. /\ before \in Seq(Blocks) /\ writing \in Blocks /\ writing \in Range(begun)
      /\ InOrder(before, Range(begun)) /\ \A i \in DOMAIN before : before[i].id < writing.id
  BY DEF JsonlInv, JsonlTypeOK, AppendUnderWay
<1> QED
  BY <1>1, TrimmedInOrder

(* Steps that leave lines and history alone, outside of an append.         *)
LEMMA QuietLines ==
    ASSUME JsonlInv, JsonlNext, UNCHANGED <<lines, begun, appends>>, before' \in {before, <<>>},
           turn' \notin {"append", "write"}, turn' = "upsert" => writing' \in PartContents
    PROVE  JsonlInv'
<1>1. lines' \in Seq(Blocks \cup {Torn}) /\ before' \in Seq(Blocks) /\ begun' \in Seq(Blocks)
  BY EmptySeq DEF JsonlInv, JsonlTypeOK
<1>2. JsonlTypeOK'
  BY <1>1, JsonlTypeStep
<1> QED
  BY <1>2 DEF JsonlInv

(* An append that begins has read intact lines, which are older.           *)
LEMMA BeginAppendInOrder ==
    ASSUME JsonlInv, BeginAppend
    PROVE  JsonlInv'
<1>1. PICK tok \in TokenCounts : writing' = [id |-> appends + 1, tok |-> tok]
  BY DEF BeginAppend
<1>2. /\ lines \in Seq(Blocks \cup {Torn}) /\ Intact(lines) /\ begun \in Seq(Blocks)
      /\ appends \in 0..AppendLimit /\ appends < AppendLimit /\ appends' = appends + 1
      /\ lines' = lines /\ before' = lines /\ begun' = Append(begun, writing') /\ turn' = "append"
  BY DEF BeginAppend, JsonlInv, JsonlTypeOK, files
<1>3. PICK b : b = writing'
  OBVIOUS
<1>4. b \in Blocks /\ b.id = appends + 1
  BY <1>1, <1>2, <1>3, BlocksAssumption DEF Blocks
<1>5. lines \in Seq(Blocks)
  BY <1>2, IntactBlocks
<1>6. begun' \in Seq(Blocks) /\ Range(begun') = Range(begun) \cup {b}
  <2>1. PICK L \in Nat : L = Len(begun) /\ DOMAIN begun = 1..L
    BY <1>2, LenProperties
  <2>2. PICK r : r = Append(begun, b)
    OBVIOUS
  <2>3. /\ r \in Seq(Blocks) /\ Len(r) = L + 1 /\ r[L + 1] = b
        /\ \A i \in 1..L : r[i] = begun[i]
    BY <1>2, <1>4, <2>1, <2>2, AppendProperties
  <2>4. DOMAIN r = 1..L + 1
    BY <2>3, LenProperties
  <2>5. 1..L + 1 = 1..L \cup {L + 1}
    OBVIOUS
  <2>6. Range(r) = Range(begun) \cup {b}
    BY <2>1, <2>3, <2>4, <2>5 DEF Range
  <2> QED
    BY <1>2, <1>3, <2>2, <2>3, <2>6
<1>7. InOrder(lines, Range(begun'))
  BY <1>6 DEF JsonlInv, InOrder
<1>8. JsonlTypeOK'
  BY <1>2, <1>5, <1>6, JsonlTypeStep DEF JsonlNext
<1>9. \A c \in Range(begun') : c.id <= appends'
  <2>1. \A c \in Range(begun) : c \in Blocks /\ c.id <= appends
    BY <1>2, LenProperties, ElementOfSeq DEF JsonlInv, Range
  <2> QED
    BY <1>2, <1>4, <1>6, <2>1, BlocksAreWhole
<1>10. \A i \in DOMAIN lines : lines[i].id < appends + 1
  <2>1. \A i \in DOMAIN lines : lines[i] \in Range(begun)
    BY <1>2 DEF JsonlInv, InOrder, Intact
  <2>2. \A c \in Range(begun) : c.id <= appends /\ c.id \in Int
    BY <1>2, LenProperties, ElementOfSeq, BlocksAreWhole DEF JsonlInv, Range
  <2> QED
    BY <1>2, <2>1, <2>2
<1>11. AppendUnderWay'
  BY <1>2, <1>3, <1>4, <1>6, <1>7, <1>10 DEF AppendUnderWay
<1> QED
  BY <1>2, <1>7, <1>8, <1>9, <1>11 DEF JsonlInv

(* JsonlInv is inductive, with one step per operation.                     *)
LEMMA JsonlNextKeepsInv == JsonlInv /\ [JsonlNext]_jsonlVars => JsonlInv'
<1> SUFFICES ASSUME JsonlInv, [JsonlNext]_jsonlVars PROVE JsonlInv'
  OBVIOUS
<1>a. /\ lines \in Seq(Blocks \cup {Torn}) /\ before \in Seq(Blocks) /\ begun \in Seq(Blocks)
      /\ <<>> \in Seq(Blocks) /\ <<>> \in Seq(Blocks \cup {Torn})
      /\ \A A : InOrder(<<>>, A)
  BY EmptySeq DEF JsonlInv, JsonlTypeOK, InOrder
<1>1. CASE BeginAppend
  BY <1>1, BeginAppendInOrder
<1>2. CASE Truncate
  <2>1. turn = "append" /\ AppendUnderWay /\ UNCHANGED <<begun, appends>>
    BY <1>2 DEF Truncate, JsonlInv
  <2>2. CASE lines' = <<>> /\ turn' = "write" /\ UNCHANGED <<before, writing>>
    <3>1. JsonlTypeOK'
      BY <1>a, <1>2, <2>1, <2>2, JsonlTypeStep DEF JsonlNext
    <3>2. AppendUnderWay'
      BY <2>1, <2>2 DEF AppendUnderWay
    <3> QED
      BY <1>a, <2>1, <2>2, <3>1, <3>2 DEF JsonlInv
  <2>3. CASE lines' = lines /\ turn' = "handler" /\ before' = <<>>
    BY <1>2, <2>1, <2>3, QuietLines DEF JsonlNext
  <2> QED
    BY <1>2, <2>2, <2>3 DEF Truncate
<1>3. CASE WriteLines
  <2>1. PICK target : target = Trim(Append(before, writing))
    OBVIOUS
  <2>2. /\ turn = "write" /\ turn' = "handler" /\ before' = <<>> /\ UNCHANGED <<begun, appends>>
        /\ lines' = target \/ lines' \in CutShort(target)
    BY <1>3, <2>1 DEF WriteLines
  <2>3. target \in Seq(Blocks) /\ InOrder(target, Range(begun))
    BY <2>1, <2>2, TargetInOrder
  <2>4. lines' \in Seq(Blocks \cup {Torn}) /\ InOrder(lines', Range(begun))
    BY <2>2, <2>3, CutInOrder, SeqMonotonic, BlocksAreWhole
  <2>5. JsonlTypeOK'
    BY <1>a, <1>3, <2>2, <2>4, JsonlTypeStep DEF JsonlNext
  <2> QED
    BY <2>2, <2>4, <2>5 DEF JsonlInv
<1>4. CASE DeleteLines
  <2>1. turn = "handler" /\ UNCHANGED <<before, appends, writing>> /\ turn' \in {"delete", "handler"}
    BY <1>4 DEF DeleteLines
  <2>2. CASE lines' = <<>> /\ begun' = <<>>
    <3>1. JsonlTypeOK'
      BY <1>a, <1>4, <2>1, <2>2, JsonlTypeStep DEF JsonlNext
    <3>2. Range(<<>>) = {}
      BY DEF Range
    <3> QED
      BY <1>a, <2>1, <2>2, <3>1, <3>2 DEF JsonlInv
  <2>3. CASE UNCHANGED <<lines, begun>>
    BY <1>4, <2>1, <2>3, QuietLines DEF JsonlNext
  <2> QED
    BY <1>4, <2>2, <2>3 DEF DeleteLines
<1>5. CASE Dies
  <2>1. turn' = "down" /\ before' = <<>> /\ UNCHANGED <<begun, appends>>
    BY <1>5 DEF Dies
  <2>2. CASE turn = "write"
    <3>1. PICK target : target = Trim(Append(before, writing))
      OBVIOUS
    <3>2. target \in Seq(Blocks) /\ InOrder(target, Range(begun)) /\ lines' \in CutShort(target)
      BY <1>5, <2>2, <3>1, TargetInOrder DEF Dies
    <3>3. lines' \in Seq(Blocks \cup {Torn}) /\ InOrder(lines', Range(begun))
      BY <3>2, CutInOrder
    <3>4. JsonlTypeOK'
      BY <1>a, <1>5, <2>1, <3>3, JsonlTypeStep DEF JsonlNext
    <3> QED
      BY <2>1, <3>3, <3>4 DEF JsonlInv
  <2>3. CASE turn # "write"
    <3>1. lines' = lines
      BY <1>5, <2>3 DEF Dies
    <3> QED
      BY <1>5, <2>1, <3>1, QuietLines DEF JsonlNext
  <2> QED
    BY <2>2, <2>3
<1>6. CASE LoadRuntimeState \/ ReadContextSnapshot \/ TurnReturns \/ TurnRaises
  BY <1>6, QuietLines
     DEF JsonlNext, LoadRuntimeState, ReadContextSnapshot, TurnReturns, TurnRaises,
         files, jsonlGhosts
<1>7. CASE BeginUpsert \/ EndUpsert \/ DeleteParts \/ ChangeState
  BY <1>7, QuietLines
     DEF JsonlNext, BeginUpsert, EndUpsert, DeleteParts, ChangeState, files, jsonlGhosts
<1>8. CASE TruncateState \/ DumpState
  BY <1>8, QuietLines DEF JsonlNext, TruncateState, DumpState
<1>9. CASE Restart
  <2>1. /\ turn' = "idle" /\ lines' = <<>> /\ begun' = <<>> /\ UNCHANGED <<before, appends>>
        /\ turn = "down"
    BY <1>9 DEF Restart
  <2>2. JsonlTypeOK'
    BY <1>a, <1>9, <2>1, JsonlTypeStep DEF JsonlNext
  <2>3. Range(<<>>) = {}
    BY DEF Range
  <2> QED
    BY <1>a, <2>1, <2>2, <2>3 DEF JsonlInv
<1>10. CASE UNCHANGED jsonlVars
  BY <1>10 DEF jsonlVars, files, jsonlGhosts, JsonlInv, JsonlTypeOK, AppendUnderWay
<1> QED
  BY <1>1, <1>2, <1>3, <1>4, <1>5, <1>6, <1>7, <1>8, <1>9, <1>10 DEF JsonlNext

(* JsonlInv holds in every reachable state, for every pair of limits.      *)
THEOREM JsonlInvariant == JsonlSpec => []JsonlInv
BY JsonlInitInv, JsonlNextKeepsInv, PTL DEF JsonlSpec
-----------------------------------------------------------------------------
(* The window in the file.                                                 *)

\* As long as no append was cut short: the file holds the longest window, or
\* the append under way has read it.
WindowInFile ==
    /\ FileAtRest => lines = LongestFitting(begun)
    /\ ~FileAtRest => \E l \in Seq(Blocks) : begun = Append(l, writing) /\ before = LongestFitting(l)
    /\ turn = "append" => before = lines

JsonlWindowInv == whole => WindowInFile

(* Trimming an append to the longest window leaves the longest window, of  *)
(* the whole history and of what was stored.                               *)
LEMMA AppendToLongest ==
    ASSUME MaxBlocks # 0, NEW l \in Seq(Blocks), NEW b \in Blocks
    PROVE  /\ Trim(Append(LongestFitting(l), b)) = LongestFitting(Append(l, b))
           /\ Trim(Append(LongestFitting(l), b)) = LongestFitting(Append(LongestFitting(l), b))
<1>1. PICK w : w = LongestFitting(l)
  OBVIOUS
<1>2. w \in Seq(Blocks) /\ w = Trim(l) /\ Trim(Append(l, b)) = LongestFitting(Append(w, b))
  BY <1>1, TrimOnce
<1>3. Append(l, b) \in Seq(Blocks) /\ Append(w, b) \in Seq(Blocks)
  BY <1>2, AppendProperties
<1>4. /\ Trim(Append(l, b)) = LongestFitting(Append(l, b))
      /\ Trim(Append(w, b)) = LongestFitting(Append(w, b))
  BY <1>3, TrimOnce
<1> QED
  BY <1>1, <1>2, <1>4

(* Steps outside of an append keep the window.                             *)
LEMMA QuietWindow ==
    ASSUME JsonlWindowInv, FileAtRest, UNCHANGED <<lines, begun>>, whole' => whole,
           turn' \notin {"append", "write"}
    PROVE  JsonlWindowInv'
BY DEF JsonlWindowInv, WindowInFile, FileAtRest

(* A rewrite that gets to its end moves the window by the block.           *)
LEMMA WriteWindow ==
    ASSUME MaxBlocks # 0, JsonlInv, JsonlWindowInv, WriteLines, whole'
    PROVE  /\ lines' = LongestFitting(begun)
           /\ lines' = LongestFitting(Append(before, writing))
<1>1. /\ turn = "write" /\ whole /\ lines' = Trim(Append(before, writing))
      /\ writing \in Blocks
  BY DEF WriteLines, JsonlInv, AppendUnderWay
<1>2. PICK l \in Seq(Blocks) : begun = Append(l, writing) /\ before = LongestFitting(l)
  BY <1>1 DEF JsonlWindowInv, WindowInFile, FileAtRest
<1> QED
  BY <1>1, <1>2, AppendToLongest

(* JsonlWindowInv is inductive, with one step per operation.               *)
LEMMA JsonlNextKeepsWindow ==
    ASSUME MaxBlocks # 0
    PROVE  JsonlInv /\ JsonlWindowInv /\ [JsonlNext]_jsonlVars => JsonlWindowInv'
<1> SUFFICES ASSUME JsonlInv, JsonlWindowInv, [JsonlNext]_jsonlVars PROVE JsonlWindowInv'
  OBVIOUS
<1>1. CASE BeginAppend
  <2>1. /\ turn = "handler" /\ turn' = "append" /\ begun \in Seq(Blocks)
        /\ before' = lines /\ begun' = Append(begun, writing')
        /\ UNCHANGED <<lines, whole>>
    BY <1>1 DEF BeginAppend, files, JsonlInv, JsonlTypeOK
  <2> QED
    BY <2>1 DEF JsonlWindowInv, WindowInFile, FileAtRest
<1>2. CASE Truncate
  BY <1>2 DEF Truncate, JsonlWindowInv, WindowInFile, FileAtRest
<1>3. CASE WriteLines
  <2>1. turn' = "handler" /\ begun' = begun
    BY <1>3 DEF WriteLines
  <2>2. whole' => lines' = LongestFitting(begun)
    BY <1>3, WriteWindow
  <2> QED
    BY <2>1, <2>2 DEF JsonlWindowInv, WindowInFile, FileAtRest
<1>4. CASE DeleteLines
  <2>1. turn = "handler" /\ turn' \in {"delete", "handler"}
    BY <1>4 DEF DeleteLines
  <2>2. CASE lines' = <<>> /\ begun' = <<>>
    BY <2>1, <2>2, TrimEmpty DEF JsonlWindowInv, WindowInFile, FileAtRest
  <2>3. CASE UNCHANGED <<lines, begun, whole>>
    BY <2>1, <2>3, QuietWindow DEF FileAtRest
  <2> QED
    BY <1>4, <2>2, <2>3 DEF DeleteLines
<1>5. CASE Dies
  <2>1. turn' = "down" /\ begun' = begun /\ (whole' => whole /\ turn \notin {"append", "write"})
    BY <1>5 DEF Dies
  <2>2. CASE turn \in {"append", "write"}
    BY <2>1, <2>2 DEF JsonlWindowInv
  <2>3. CASE turn \notin {"append", "write"}
    <3>1. lines' = lines
      BY <1>5, <2>3 DEF Dies
    <3> QED
      BY <2>1, <2>3, <3>1, QuietWindow DEF FileAtRest
  <2> QED
    BY <2>2, <2>3
<1>6. CASE LoadRuntimeState \/ ReadContextSnapshot \/ TurnReturns \/ TurnRaises
  BY <1>6, QuietWindow
     DEF LoadRuntimeState, ReadContextSnapshot, TurnReturns, TurnRaises,
         files, jsonlGhosts, FileAtRest
<1>7. CASE BeginUpsert \/ EndUpsert \/ DeleteParts \/ ChangeState
  BY <1>7, QuietWindow
     DEF BeginUpsert, EndUpsert, DeleteParts, ChangeState, files, jsonlGhosts, FileAtRest
<1>8. CASE TruncateState \/ DumpState
  BY <1>8, QuietWindow DEF TruncateState, DumpState, FileAtRest
<1>9. CASE Restart
  BY <1>9, TrimEmpty DEF Restart, JsonlWindowInv, WindowInFile, FileAtRest
<1>10. CASE UNCHANGED jsonlVars
  BY <1>10 DEF jsonlVars, files, jsonlGhosts, JsonlWindowInv, WindowInFile, FileAtRest
<1> QED
  BY <1>1, <1>2, <1>3, <1>4, <1>5, <1>6, <1>7, <1>8, <1>9, <1>10 DEF JsonlNext

(* JsonlWindowInv holds in every reachable state.                          *)
LEMMA JsonlWindowInvariant ==
    ASSUME MaxBlocks # 0
    PROVE  JsonlSpec => []JsonlWindowInv
<1>1. JsonlInit => JsonlWindowInv
  BY TrimEmpty DEF JsonlInit, JsonlWindowInv, WindowInFile, FileAtRest
<1> QED
  BY <1>1, JsonlNextKeepsWindow, JsonlInvariant, PTL DEF JsonlSpec

(* Whatever write fails and wherever the process dies, the file holds      *)
(* appended blocks in their order with at most its last line torn, and it  *)
(* is the longest window as long as no append was cut short: for every     *)
(* token limit, every block limit but 0, and any number of deaths.         *)
THEOREM LinesAlwaysInOrder ==
    ASSUME MaxBlocks # 0
    PROVE  JsonlSpec => []LinesInOrder
<1>1. JsonlInv /\ JsonlWindowInv => LinesInOrder
  BY DEF JsonlInv, JsonlWindowInv, WindowInFile, LinesInOrder
<1> QED
  BY <1>1, JsonlInvariant, JsonlWindowInvariant, PTL
-----------------------------------------------------------------------------
(* The JSONL store implements the promise until an append is cut short.    *)

(* The promise speaks of the same longest window.                          *)
LEMMA JsonlSameLongest ==
    ASSUME NEW q
    PROVE  JsonlRecent!LongestFitting(q) = LongestFitting(q)
<1>1. \A w : JsonlRecent!Tokens(w) = Tokens(w)
  BY Zenon DEF JsonlRecent!Tokens, Tokens
<1>2. \A w : JsonlRecent!Fits(w) <=> Fits(w)
  BY <1>1, Zenon DEF JsonlRecent!Fits, Fits, JsonlRecent!NoLimit, NoLimit
<1> QED
  BY <1>2, Zenon DEF JsonlRecent!LongestFitting, LongestFitting, Suffixes, JsonlRecent!Suffixes

\* What ImplementsUnlessCutShort says of one step.
MovesAsPromised ==
    \/ WriteLines /\ JsonlRecent!AppendBlock("session", writing)
    \/ DeleteLines /\ JsonlRecent!DeleteHistory("session")
    \/ Restart
    \/ UNCHANGED Window

(* Every step that cuts no append short is a step of the promise or keeps  *)
(* the window.                                                             *)
LEMMA JsonlStepImplements ==
    ASSUME MaxBlocks # 0, JsonlInv, JsonlWindowInv, [JsonlNext]_jsonlVars, whole'
    PROVE  MovesAsPromised
<1>1. CASE WriteLines
  <2>1. Window = before /\ Window' = lines'
    BY <1>1 DEF Window, WriteLines
  <2>2. lines' = LongestFitting(Append(before, writing))
    BY <1>1, WriteWindow
  <2>3. Window' = JsonlRecent!LongestFitting(Append(Window, writing))
    BY <2>1, <2>2, JsonlSameLongest
  <2>4. JsonlRecent!AppendBlock("session", writing)
    BY <2>3 DEF JsonlRecent!AppendBlock
  <2> QED
    BY <1>1, <2>4 DEF MovesAsPromised
<1>2. CASE DeleteLines
  <2>1. turn = "handler" /\ turn' # "write"
    BY <1>2 DEF DeleteLines
  <2>2. CASE lines' = <<>>
    <3>1. Window' = <<>>
      BY <2>1, <2>2 DEF Window
    <3>2. JsonlRecent!DeleteHistory("session")
      BY <3>1 DEF JsonlRecent!DeleteHistory
    <3> QED
      BY <1>2, <3>2 DEF MovesAsPromised
  <2>3. CASE lines' = lines
    BY <2>1, <2>3 DEF Window, MovesAsPromised
  <2> QED
    BY <1>2, <2>2, <2>3 DEF DeleteLines
<1>3. CASE Truncate
  <2>1. turn = "append" /\ turn' = "write" /\ whole /\ before' = before
    BY <1>3 DEF Truncate
  <2>2. before = lines
    BY <2>1 DEF JsonlWindowInv, WindowInFile
  <2> QED
    BY <2>1, <2>2 DEF Window, MovesAsPromised
<1>4. CASE Dies
  <2>1. turn # "write" /\ turn' # "write" /\ lines' = lines
    BY <1>4 DEF Dies
  <2> QED
    BY <2>1 DEF Window, MovesAsPromised
<1>5. CASE BeginAppend \/ LoadRuntimeState \/ ReadContextSnapshot \/ TurnReturns \/ TurnRaises
  BY <1>5
     DEF BeginAppend, LoadRuntimeState, ReadContextSnapshot, TurnReturns, TurnRaises,
         files, Window, MovesAsPromised
<1>6. CASE BeginUpsert \/ EndUpsert \/ DeleteParts \/ ChangeState
  BY <1>6
     DEF BeginUpsert, EndUpsert, DeleteParts, ChangeState, files, Window, MovesAsPromised
<1>7. CASE TruncateState \/ DumpState
  BY <1>7 DEF TruncateState, DumpState, Window, MovesAsPromised
<1>8. CASE Restart \/ UNCHANGED jsonlVars
  BY <1>8 DEF jsonlVars, files, Window, MovesAsPromised
<1> QED
  BY <1>1, <1>2, <1>3, <1>4, <1>5, <1>6, <1>7, <1>8 DEF JsonlNext

(* Until an append is cut short, the window moves by whole appends and     *)
(* deletions only, although the file is empty in the middle of a rewrite.  *)
THEOREM StoreImplementsUnlessCutShort ==
    ASSUME MaxBlocks # 0
    PROVE  JsonlSpec => ImplementsUnlessCutShort
<1>1. JsonlInv /\ JsonlWindowInv /\ [JsonlNext]_jsonlVars => [whole' => MovesAsPromised]_jsonlVars
  BY JsonlStepImplements
<1> QED
  BY <1>1, JsonlInvariant, JsonlWindowInvariant, PTL
     DEF JsonlSpec, ImplementsUnlessCutShort, MovesAsPromised
-----------------------------------------------------------------------------
(* A session that cannot be read.                                          *)

(* A torn line is the last, so the snapshot has it, whatever the limit of  *)
(* blocks it was asked for.                                                *)
LEMMA SnapshotSeesTear ==
    ASSUME JsonlInv, ~Intact(lines)
    PROVE  ~Intact(Snapshot(lines, ReadLimit))
<1>1. PICK L \in Nat : L = Len(lines) /\ DOMAIN lines = 1..L
  BY LenProperties DEF JsonlInv, JsonlTypeOK
<1>2. PICK i \in 1..L : lines[i] = Torn
  BY <1>1 DEF Intact
<1>3. i = L
  BY <1>1, <1>2 DEF JsonlInv, InOrder
<1>4. CASE ReadLimit < L
  <2>1. ReadLimit \in 1..L /\ ReadLimit \in 0..Len(lines)
    BY <1>1, <1>4, JsonlAssumption
  <2>2. lines \in Seq(Blocks \cup {Torn})
    BY DEF JsonlInv, JsonlTypeOK
  <2>3. PICK q : q = Newest(lines, ReadLimit)
    OBVIOUS
  <2>4. /\ q \in Seq(Blocks \cup {Torn}) /\ Len(q) = ReadLimit
        /\ \A n \in 1..ReadLimit : q[n] = lines[Len(lines) - ReadLimit + n]
    BY <2>1, <2>2, <2>3, NewestElements
  <2>5. ReadLimit \in 1..ReadLimit /\ L - ReadLimit + ReadLimit = L
    BY <1>1, <2>1, JsonlAssumption
  <2>6. q[ReadLimit] = Torn /\ ReadLimit \in DOMAIN q
    BY <1>1, <1>2, <1>3, <2>4, <2>5, LenProperties
  <2>7. Snapshot(lines, ReadLimit) = q
    BY <1>1, <1>4, <2>1, <2>3 DEF Snapshot
  <2> QED
    BY <2>6, <2>7 DEF Intact
<1>5. CASE ~(ReadLimit < L)
  BY <1>1, <1>5 DEF Snapshot
<1> QED
  BY <1>4, <1>5

\* The state was read from a file that could be read.
StateWasRead == turn = "read" => stateFile # Broken

LEMMA NextKeepsStateRead == StateWasRead /\ [JsonlNext]_jsonlVars => StateWasRead'
BY DEF StateWasRead, JsonlNext, jsonlVars, files, LoadRuntimeState, ReadContextSnapshot,
       BeginAppend, Truncate, WriteLines, BeginUpsert, EndUpsert, DeleteLines, DeleteParts,
       ChangeState, TurnReturns, TurnRaises, TruncateState, DumpState, Dies, Restart

(* A turn that begins with a file it cannot read ends before its handler.  *)
LEMMA UnreadableStep ==
    ASSUME JsonlInv, StateWasRead, [JsonlNext]_jsonlVars, turn \in {"idle", "read"}, ~Readable
    PROVE  (~Readable' /\ turn' \in {"read", "down"}) \/ UNCHANGED jsonlVars
<1>1. CASE LoadRuntimeState
  BY <1>1 DEF LoadRuntimeState, Readable, files
<1>2. CASE ReadContextSnapshot
  <2>1. turn = "read" /\ UNCHANGED <<lines, partsFile, stateFile>>
    BY <1>2 DEF ReadContextSnapshot, files
  <2>2. ~Intact(lines) \/ partsFile = Broken
    BY <2>1 DEF StateWasRead, Readable
  <2>3. turn' = "down"
    BY <1>2, <2>2, SnapshotSeesTear DEF ReadContextSnapshot
  <2> QED
    BY <2>1, <2>3 DEF Readable
<1>3. CASE Dies
  BY <1>3 DEF Dies, Readable
<1> QED
  BY <1>1, <1>2, <1>3
     DEF JsonlNext, BeginAppend, Truncate, WriteLines, BeginUpsert, EndUpsert, DeleteLines,
         DeleteParts, ChangeState, TurnReturns, TurnRaises, TruncateState, DumpState, Restart

(* UnreadableEndsLoop for every limit of the snapshot, since only the last *)
(* line can be torn: within a process, no handler of the session runs once *)
(* a turn begins with a file that cannot be read.                          *)
THEOREM UnreadableAlwaysEndsLoop == JsonlSpec => UnreadableEndsLoop
<1>1. JsonlInit => StateWasRead
  BY DEF JsonlInit, StateWasRead
<1>2. JsonlInv /\ StateWasRead /\ [JsonlNext]_jsonlVars
        => [~Readable /\ turn \in {"idle", "read"}
              => ~Readable' /\ turn' \in {"read", "down"}]_jsonlVars
  BY UnreadableStep
<1> QED
  BY <1>1, <1>2, NextKeepsStateRead, JsonlInvariant, PTL DEF JsonlSpec, UnreadableEndsLoop
-----------------------------------------------------------------------------
(* Suffixes of a sequence, for the session memory.                         *)

(* A suffix, element by element.                                           *)
LEMMA SuffixElements ==
    ASSUME NEW S, NEW w \in Seq(S), NEW q \in Seq(S)
    PROVE  IsSuffix(w, q) <=>
             /\ Len(w) <= Len(q)
             /\ \A i \in 1..Len(w) : w[i] = q[Len(q) - Len(w) + i]
<1>1. PICK m \in Nat, n \in Nat : m = Len(w) /\ n = Len(q)
  BY LenProperties
<1>2. /\ w \in [1..m -> S] /\ q \in [1..n -> S]
  BY <1>1, LenProperties
<1>3. PICK a, b : a = Reverse(w) /\ b = Reverse(q)
  OBVIOUS
<1>4. a = [i \in 1..m |-> w[m - i + 1]] /\ b = [i \in 1..n |-> q[n - i + 1]]
  BY <1>1, <1>3 DEF Reverse
<1>5. a \in [1..m -> S] /\ b \in [1..n -> S]
  <2>1. \A i \in 1..m : m - i + 1 \in 1..m
    OBVIOUS
  <2>2. \A i \in 1..n : n - i + 1 \in 1..n
    OBVIOUS
  <2> QED
    BY <1>2, <1>4, <2>1, <2>2
<1>6. Len(a) = m /\ Len(b) = n /\ a \in Seq(S) /\ b \in Seq(S)
  BY <1>5, LenProperties, SeqDef
<1>7. SubSeq(a, 1, m) = a
  BY <1>5, <1>6
<1>8. IsSuffix(w, q) <=> m <= n /\ a = SubSeq(b, 1, m)
  BY <1>3, <1>6, <1>7 DEF IsSuffix, IsPrefix
<1>9. ASSUME m <= n
      PROVE  a = SubSeq(b, 1, m) <=> \A i \in 1..m : w[i] = q[n - m + i]
  <2>1. SubSeq(b, 1, m) = [i \in 1..m |-> b[i]]
    BY <1>6, <1>9
  <2>2. a = SubSeq(b, 1, m) <=> \A i \in 1..m : a[i] = b[i]
    BY <1>5, <2>1
  <2>3. \A i \in 1..m : a[i] = w[m - i + 1] /\ b[i] = q[n - i + 1]
    BY <1>4, <1>9
  <2>4. \A i \in 1..m : m - i + 1 \in 1..m /\ m - (m - i + 1) + 1 = i /\ n - (m - i + 1) + 1 = n - m + i
                        /\ n - m + (m - i + 1) = n - i + 1
    BY <1>9
  <2>5. ASSUME \A i \in 1..m : a[i] = b[i], NEW i \in 1..m PROVE w[i] = q[n - m + i]
    <3>1. PICK j \in 1..m : j = m - i + 1 /\ m - j + 1 = i /\ n - j + 1 = n - m + i
      BY <2>4
    <3> QED
      BY <2>3, <2>5, <3>1
  <2>6. ASSUME \A i \in 1..m : w[i] = q[n - m + i], NEW i \in 1..m PROVE a[i] = b[i]
    <3>1. PICK j \in 1..m : j = m - i + 1 /\ n - m + j = n - i + 1
      BY <2>4
    <3> QED
      BY <2>3, <2>6, <3>1
  <2> QED
    BY <2>2, <2>5, <2>6
<1> QED
  BY <1>1, <1>8, <1>9

(* The newest blocks are a suffix.                                         *)
LEMMA NewestIsSuffix ==
    ASSUME NEW S, NEW q \in Seq(S), NEW k \in 0..Len(q)
    PROVE  IsSuffix(Newest(q, k), q)
<1>1. Len(q) \in Nat
  BY LenProperties
<1>2. /\ Newest(q, k) \in Seq(S) /\ Len(Newest(q, k)) = k
      /\ \A i \in 1..k : Newest(q, k)[i] = q[Len(q) - k + i]
  BY NewestElements
<1> QED
  BY <1>1, <1>2, SuffixElements

(* A suffix of a suffix is one, and of two suffixes the shorter is a       *)
(* suffix of the longer.                                                   *)
LEMMA SuffixOfSuffix ==
    ASSUME NEW S, NEW v \in Seq(S), NEW w \in Seq(S), NEW q \in Seq(S), IsSuffix(w, q)
    PROVE  /\ IsSuffix(v, w) => IsSuffix(v, q)
           /\ IsSuffix(v, q) /\ Len(v) <= Len(w) => IsSuffix(v, w)
<1>1. PICK l \in Nat, m \in Nat, n \in Nat : l = Len(v) /\ m = Len(w) /\ n = Len(q)
  BY LenProperties
<1>2. m <= n /\ \A i \in 1..m : w[i] = q[n - m + i]
  BY <1>1, SuffixElements
<1>3. ASSUME l <= m, NEW i \in 1..l
      PROVE  m - l + i \in 1..m /\ w[m - l + i] = q[n - l + i]
  <2>1. PICK j \in 1..m : j = m - l + i /\ n - m + j = n - l + i
    BY <1>3
  <2> QED
    BY <1>2, <2>1
<1>4. ASSUME IsSuffix(v, w) PROVE IsSuffix(v, q)
  <2>1. l <= m /\ \A i \in 1..l : v[i] = w[m - l + i]
    BY <1>1, <1>4, SuffixElements
  <2>2. l <= n /\ \A i \in 1..l : v[i] = q[n - l + i]
    BY <1>2, <1>3, <2>1
  <2> QED
    BY <1>1, <2>2, SuffixElements
<1>5. ASSUME IsSuffix(v, q), l <= m PROVE IsSuffix(v, w)
  <2>1. \A i \in 1..l : v[i] = q[n - l + i]
    BY <1>1, <1>5, SuffixElements
  <2>2. \A i \in 1..l : v[i] = w[m - l + i]
    BY <1>3, <1>5, <2>1
  <2> QED
    BY <1>1, <1>5, <2>2, SuffixElements
<1> QED
  BY <1>1, <1>4, <1>5

(* The same block appended to both keeps a suffix one.                     *)
LEMMA AppendToSuffix ==
    ASSUME NEW S, NEW w \in Seq(S), NEW q \in Seq(S), NEW b \in S, IsSuffix(w, q)
    PROVE  IsSuffix(Append(w, b), Append(q, b))
<1>1. PICK m \in Nat, n \in Nat : m = Len(w) /\ n = Len(q)
  BY LenProperties
<1>2. m <= n /\ \A i \in 1..m : w[i] = q[n - m + i]
  BY <1>1, SuffixElements
<1>3. /\ Append(w, b) \in Seq(S) /\ Len(Append(w, b)) = m + 1
      /\ \A i \in 1..m : Append(w, b)[i] = w[i]
      /\ Append(w, b)[m + 1] = b
  BY <1>1, AppendProperties
<1>4. /\ Append(q, b) \in Seq(S) /\ Len(Append(q, b)) = n + 1
      /\ \A i \in 1..n : Append(q, b)[i] = q[i]
      /\ Append(q, b)[n + 1] = b
  BY <1>1, AppendProperties
<1>5. ASSUME NEW i \in 1..m + 1 PROVE Append(w, b)[i] = Append(q, b)[n - m + i]
  <2>1. CASE i \in 1..m
    <3>1. n - m + i \in 1..n
      BY <1>2, <2>1
    <3> QED
      BY <1>1, <1>2, <1>3, <1>4, <2>1, <3>1
  <2>2. CASE i = m + 1
    <3>1. n - m + i = n + 1
      BY <1>2, <2>2
    <3> QED
      BY <1>3, <1>4, <2>2, <3>1
  <2>3. i \in 1..m \/ i = m + 1
    BY <1>1
  <2> QED
    BY <2>1, <2>2, <2>3
<1>6. PICK u, v : u = Append(w, b) /\ v = Append(q, b)
  OBVIOUS
<1>7. /\ u \in Seq(S) /\ v \in Seq(S) /\ Len(u) = m + 1 /\ Len(v) = n + 1
      /\ \A i \in 1..m + 1 : u[i] = v[n - m + i]
  BY <1>3, <1>4, <1>5, <1>6
<1>8. Len(u) <= Len(v) /\ \A i \in 1..Len(u) : u[i] = v[Len(v) - Len(u) + i]
  BY <1>2, <1>7
<1> QED
  BY <1>6, <1>7, <1>8, SuffixElements

(* What the snapshot and what the trim return is a suffix; a snapshot is   *)
(* the longest that the limit of the request allows.                       *)
LEMMA SnapshotIsSuffix ==
    ASSUME NEW S, NEW q \in Seq(S)
    PROVE  /\ Snapshot(q, HistoryBlockLimit) \in Seq(S)
           /\ IsSuffix(Snapshot(q, HistoryBlockLimit), q)
           /\ Len(Snapshot(q, HistoryBlockLimit)) <= HistoryBlockLimit
           /\ \/ Len(Snapshot(q, HistoryBlockLimit)) = Len(q)
              \/ Len(Snapshot(q, HistoryBlockLimit)) = HistoryBlockLimit
           /\ Trim(q) \in Seq(S) /\ IsSuffix(Trim(q), q)
           /\ IsSuffix(q, q)
<1>1. PICK n \in Nat, l \in Nat \ {0} : n = Len(q) /\ l = HistoryBlockLimit
  BY LenProperties, SessionMemoryAssumption
<1>2. q \in [1..n -> S] /\ Newest(q, n) = q
  <2>1. q = [i \in 1..n |-> q[i]]
    BY <1>1, LenProperties
  <2> QED
    BY <1>1, <2>1, LenProperties DEF Newest
<1>3. PICK k \in 0..n : /\ Snapshot(q, HistoryBlockLimit) = Newest(q, k)
                        /\ k <= l /\ (k = n \/ k = l)
  BY <1>1, <1>2 DEF Snapshot
<1>4. PICK j \in 0..n : Trim(q) = Newest(q, j)
  BY <1>1, TrimKeepsNewest
<1> QED
  BY <1>1, <1>2, <1>3, <1>4, NewestElements, NewestIsSuffix
-----------------------------------------------------------------------------
(* The session memory.                                                     *)

\* Blocks in order of arrival, except those of rep, which were appended again.
Rising(q, rep) == \A i, j \in DOMAIN q : i < j => q[i].id < q[j].id \/ q[j] \in rep

\* The same, and none is newer than the n-th.
RisingTo(q, n, rep) == Rising(q, rep) /\ \A i \in DOMAIN q : q[i].id <= n

\* A block that may be appended to q.
Follows(b, q, rep) == b \in rep \/ \A i \in DOMAIN q : q[i].id < b.id

Holds(q, b) == \E i \in DOMAIN q : q[i] = b

\* What the facade call under way knows: its block is newer than all of the
\* snapshot and the archive or offered again, and not archived yet.
CallUnderWay ==
    /\ pc \in {"archive", "mirror_block"} =>
         /\ pending \in Blocks /\ pending.id <= issued
         /\ Follows(pending, history, repeated)
    /\ pc = "archive" => Follows(pending, cold, repeated) /\ ~Holds(cold, pending) /\ pending \notin failed
    /\ pc = "mirror_prompt" => pending \in Prompts

\* A block whose append raised was not archived: archiving ends the storage
\* calls of an append.
ArchivedOnce ==
    /\ \A i, j \in DOMAIN cold : i < j => cold[i] # cold[j]
    /\ \A b \in failed : b.id <= issued /\ ~Holds(cold, b)

\* Hot store, archive and snapshot are in order of arrival.
SessionOrder ==
    /\ RisingTo(hotBlocks, issued, repeated)
    /\ RisingTo(cold, issued, repeated)
    /\ RisingTo(history, issued, repeated)
    /\ CallUnderWay
    /\ ArchivedOnce

\* What storage and snapshot have in common until something fails, wherever
\* the turn is.
InStep ==
    /\ failed = {}
    /\ IsSuffix(hotBlocks, IF pc = "archive" THEN Append(cold, pending) ELSE cold)
    /\ pc = "handler" => IsSuffix(Snapshot(hotBlocks, HistoryBlockLimit), history)
    /\ pc \in {"archive", "mirror_block"} =>
         /\ IsSuffix(Snapshot(hotBlocks, HistoryBlockLimit), Append(history, pending))
         /\ pending.id > cleared
    /\ pc = "mirror_clear" => hotBlocks = <<>> /\ hotPrompt = NoPrompt
    /\ \A i \in DOMAIN hotBlocks : hotBlocks[i].id > cleared
    /\ pc \in {"handler", "archive", "mirror_block", "mirror_prompt"} =>
         \A i \in DOMAIN history : history[i].id > cleared
    /\ pc = "mirror_prompt" =>
         /\ IsSuffix(Snapshot(hotBlocks, HistoryBlockLimit), history)
         /\ hotPrompt = pending
    /\ pc \in {"handler", "archive", "mirror_block"} => prompt = hotPrompt
    /\ pc = "idle" => stored = state

SessionInv ==
    /\ SessionTypeOK
    /\ SessionOrder
    /\ failures = 0 => InStep

(* What a suffix of blocks in order of arrival has of it.                  *)
LEMMA SuffixRises ==
    ASSUME NEW w \in Seq(Blocks), NEW q \in Seq(Blocks), IsSuffix(w, q), NEW n \in Nat, NEW rep
    PROVE  /\ RisingTo(q, n, rep) => RisingTo(w, n, rep)
           /\ \A i \in DOMAIN w : \E j \in DOMAIN q : w[i] = q[j]
<1>1. PICK m \in Nat, l \in Nat : m = Len(w) /\ l = Len(q) /\ DOMAIN w = 1..m /\ DOMAIN q = 1..l
  BY LenProperties
<1>2. m <= l /\ \A i \in 1..m : w[i] = q[l - m + i]
  BY <1>1, SuffixElements
<1>3. \A i \in 1..m : l - m + i \in 1..l
  BY <1>1, <1>2
<1>4. \A i, j \in 1..m : i < j => l - m + i < l - m + j
  BY <1>1, <1>2
<1>5. ASSUME RisingTo(q, n, rep) PROVE RisingTo(w, n, rep)
  BY <1>1, <1>2, <1>3, <1>4, <1>5 DEF RisingTo, Rising
<1> QED
  BY <1>1, <1>2, <1>3, <1>5

(* A newer block at the end, or one appended again, keeps the order.       *)
LEMMA AppendRises ==
    ASSUME NEW q \in Seq(Blocks), NEW b \in Blocks, NEW n \in Nat, NEW rep,
           b.id <= n, RisingTo(q, n, rep), Follows(b, q, rep)
    PROVE  RisingTo(Append(q, b), n, rep)
<1>1. PICK m \in Nat : m = Len(q) /\ DOMAIN q = 1..m
  BY LenProperties
<1>2. PICK a : a = Append(q, b)
  OBVIOUS
<1>3. /\ DOMAIN a = 1..m + 1
      /\ \A i \in 1..m : a[i] = q[i]
      /\ a[m + 1] = b
  BY <1>1, <1>2, AppendProperties, LenProperties
<1>4. \A i \in 1..m + 1 : i \in 1..m \/ i = m + 1
  BY <1>1
<1>5. \A i \in 1..m : q[i].id <= n
  BY <1>1 DEF RisingTo
<1>6. Rising(a, rep)
  <2> SUFFICES ASSUME NEW i \in 1..m + 1, NEW j \in 1..m + 1, i < j
               PROVE  a[i].id < a[j].id \/ a[j] \in rep
    BY <1>3 DEF Rising
  <2>1. i \in 1..m
    BY <1>1
  <2>2. CASE j \in 1..m
    BY <1>1, <1>3, <2>1, <2>2 DEF RisingTo, Rising
  <2>3. CASE j = m + 1
    BY <1>1, <1>3, <2>1, <2>3 DEF Follows
  <2> QED
    BY <1>4, <2>2, <2>3
<1>7. \A i \in DOMAIN a : a[i].id <= n
  BY <1>3, <1>4, <1>5
<1> QED
  BY <1>2, <1>6, <1>7 DEF RisingTo

(* Issuing a block or appending one again leaves what is in order in order. *)
LEMMA RisesFurther ==
    ASSUME NEW q \in Seq(Blocks), NEW n \in Nat, NEW m \in Nat, n <= m,
           NEW rep, NEW more, rep \subseteq more, RisingTo(q, n, rep)
    PROVE  RisingTo(q, m, more)
<1>1. \A i \in DOMAIN q : q[i] \in Blocks
  BY ElementOfSeq, LenProperties
<1>2. \A i \in DOMAIN q : q[i].id \in Nat
  BY <1>1, BlocksAssumption DEF Blocks
<1>3. \A i \in DOMAIN q : q[i].id <= m
  BY <1>2 DEF RisingTo
<1>4. Rising(q, more)
  BY DEF RisingTo, Rising
<1> QED
  BY <1>3, <1>4 DEF RisingTo

(* A block newer than all that was issued follows any of it, and is not    *)
(* held by any of it.                                                      *)
LEMMA NewerFollows ==
    ASSUME NEW q \in Seq(Blocks), NEW n \in Nat, NEW rep, NEW b \in Blocks,
           RisingTo(q, n, rep), n < b.id
    PROVE  (\A i \in DOMAIN q : q[i].id < b.id) /\ ~Holds(q, b)
<1>1. \A i \in DOMAIN q : q[i] \in Blocks
  BY ElementOfSeq, LenProperties
<1>2. b.id \in Nat /\ \A i \in DOMAIN q : q[i].id \in Nat
  BY <1>1, BlocksAssumption DEF Blocks
<1>3. \A i \in DOMAIN q : q[i].id < b.id
  BY <1>2 DEF RisingTo
<1> QED
  BY <1>2, <1>3 DEF Holds

LEMMA SessionInitInv == SessionInit => SessionInv
<1> SUFFICES ASSUME SessionInit PROVE SessionInv
  OBVIOUS
<1>1. <<>> \in Seq(Blocks) /\ Len(<<>>) = 0 /\ DOMAIN <<>> = {}
  BY EmptySeq
<1>2. SessionTypeOK
  BY <1>1, SessionMemoryAssumption, BlocksAssumption DEF SessionInit, SessionTypeOK
<1>3. RisingTo(<<>>, 0, {})
  BY <1>1 DEF RisingTo, Rising
<1>4. IsSuffix(<<>>, <<>>)
  BY <1>1, SnapshotIsSuffix
<1> QED
  BY <1>1, <1>2, <1>3, <1>4
     DEF SessionInit, SessionInv, SessionOrder, ArchivedOnce, CallUnderWay, InStep
-----------------------------------------------------------------------------
(* The steps keep types and order.                                         *)

(* An append to the hot store offers the next block or one that failed;    *)
(* the store has it, or has it untrimmed or not at all when the call       *)
(* failed.                                                                 *)
LEMMA AppendHotStep ==
    ASSUME SessionInv, AppendHot
    PROVE  \E b \in Blocks :
             /\ \/ b \in failed /\ issued' = issued /\ b \in repeated'
                \/ b.id = issued + 1 /\ issued' = issued + 1
             /\ issued <= issued' /\ issued' \in 0..AppendLimit /\ b.id <= issued'
             /\ repeated \subseteq repeated' /\ repeated' \subseteq Blocks
             /\ hotBlocks' \in Seq(Blocks)
             /\ RisingTo(hotBlocks', issued', repeated')
             /\ \/ /\ pc' = "archive" /\ pending' = b /\ hotBlocks' = Trim(Append(hotBlocks, b))
                   /\ failed' = failed \ {b} /\ UNCHANGED failures
                \/ Fail /\ Raised /\ failed' = failed \cup {b}
<1>1. PICK b \in NewBlocks \cup failed :
        /\ Offered(b)
        /\ \/ /\ hotBlocks' = Trim(Append(hotBlocks, b))
              /\ pending' = b
              /\ pc' = "archive"
              /\ failed' = failed \ {b}
              /\ UNCHANGED failures
           \/ /\ Fail /\ Raised /\ failed' = failed \cup {b}
              /\ \/ UNCHANGED hotBlocks
                 \/ hotBlocks' = Append(hotBlocks, b)
  BY DEF AppendHot
<1>2. /\ issued \in 0..AppendLimit /\ AppendLimit \in Nat /\ hotBlocks \in Seq(Blocks)
      /\ failed \subseteq Blocks /\ repeated \subseteq Blocks
      /\ RisingTo(hotBlocks, issued, repeated) /\ \A c \in failed : c.id <= issued
  BY BlocksAssumption DEF SessionInv, SessionTypeOK, SessionOrder, ArchivedOnce
<1>3. b \notin failed => b \in Blocks /\ b.id = issued + 1 /\ issued + 1 \in 0..AppendLimit
  BY <1>1, <1>2 DEF NewBlocks, Blocks
<1>4. PICK n \in 0..AppendLimit, rep \in SUBSET Blocks :
        /\ n = issued' /\ rep = repeated'
        /\ b \in Blocks /\ b.id <= n /\ issued <= n
        /\ repeated \subseteq rep
        /\ \/ b \in failed /\ n = issued /\ b \in rep
           \/ b \notin failed /\ b.id = issued + 1 /\ n = issued + 1
  <2>1. CASE b \in failed
    <3>1. issued' = issued /\ repeated' = repeated \cup {b}
      BY <1>1, <2>1 DEF Offered
    <3>2. issued <= issued
      BY <1>2
    <3> QED
      BY <1>2, <2>1, <3>1, <3>2
  <2>2. CASE b \notin failed
    <3>1. issued' = b.id /\ repeated' = repeated
      BY <1>1, <2>2 DEF Offered
    <3>2. issued <= issued + 1 /\ issued + 1 <= issued + 1
      BY <1>2
    <3> QED
      BY <1>2, <1>3, <2>2, <3>1, <3>2
  <2> QED
    BY <2>1, <2>2
<1>5. n \in Nat /\ issued \in Nat /\ b.id \in Nat
  BY <1>2, <1>4, BlocksAssumption DEF Blocks
<1>6. RisingTo(hotBlocks, n, rep)
  BY <1>2, <1>4, <1>5, RisesFurther
<1>7. Follows(b, hotBlocks, rep)
  <2>1. CASE b.id = issued + 1
    BY <1>2, <1>4, <1>5, <2>1, NewerFollows DEF Follows
  <2> QED
    BY <1>4, <2>1 DEF Follows
<1>8. PICK q \in Seq(Blocks) : q = Append(hotBlocks, b)
  BY <1>2, <1>4, AppendProperties
<1>9. RisingTo(q, n, rep)
  BY <1>2, <1>4, <1>5, <1>6, <1>7, <1>8, AppendRises
<1>10. Trim(q) \in Seq(Blocks) /\ RisingTo(Trim(q), n, rep)
  <2>1. Trim(q) \in Seq(Blocks) /\ IsSuffix(Trim(q), q)
    BY <1>8, SnapshotIsSuffix
  <2> QED
    BY <1>5, <1>8, <1>9, <2>1, SuffixRises
<1>11. hotBlocks' \in Seq(Blocks) /\ RisingTo(hotBlocks', n, rep)
  BY <1>1, <1>2, <1>6, <1>8, <1>9, <1>10
<1> QED
  BY <1>1, <1>4, <1>11

(* A call that was archived or is mirrored grows archive or snapshot by    *)
(* its block.                                                              *)
LEMMA PendingAppended ==
    ASSUME SessionInv, pc \in {"archive", "mirror_block"}
    PROVE  /\ Append(history, pending) \in Seq(Blocks)
           /\ RisingTo(Append(history, pending), issued, repeated)
           /\ Append(cold, pending) \in Seq(Blocks)
           /\ pc = "archive" => RisingTo(Append(cold, pending), issued, repeated)
<1>1. /\ pending \in Blocks /\ pending.id <= issued
      /\ Follows(pending, history, repeated)
      /\ pc = "archive" => Follows(pending, cold, repeated)
      /\ RisingTo(history, issued, repeated) /\ RisingTo(cold, issued, repeated)
  BY DEF SessionInv, SessionOrder, CallUnderWay
<1>2. history \in Seq(Blocks) /\ cold \in Seq(Blocks) /\ issued \in Nat
  BY BlocksAssumption DEF SessionInv, SessionTypeOK
<1>3. Append(history, pending) \in Seq(Blocks) /\ Append(cold, pending) \in Seq(Blocks)
  BY <1>1, <1>2, AppendProperties
<1>4. RisingTo(Append(history, pending), issued, repeated)
  BY <1>1, <1>2, AppendRises
<1>5. pc = "archive" => RisingTo(Append(cold, pending), issued, repeated)
  BY <1>1, <1>2, AppendRises
<1> QED
  BY <1>3, <1>4, <1>5

(* A block not held yet is archived once.                                  *)
LEMMA ArchiveGrows ==
    ASSUME SessionInv, pc = "archive", cold' = Append(cold, pending), UNCHANGED <<failed, issued>>
    PROVE  ArchivedOnce'
<1>1. /\ pending \in Blocks /\ cold \in Seq(Blocks) /\ ~Holds(cold, pending) /\ ArchivedOnce
      /\ pending \notin failed
  BY DEF SessionInv, SessionTypeOK, SessionOrder, CallUnderWay
<1>2. PICK m \in Nat : m = Len(cold) /\ DOMAIN cold = 1..m
  BY <1>1, LenProperties
<1>3. PICK a : a = Append(cold, pending)
  OBVIOUS
<1>4. /\ DOMAIN a = 1..m + 1
      /\ \A i \in 1..m : a[i] = cold[i]
      /\ a[m + 1] = pending
  BY <1>1, <1>2, <1>3, AppendProperties, LenProperties
<1>5. \A i \in 1..m + 1 : i \in 1..m \/ i = m + 1
  BY <1>2
<1>6. ASSUME NEW i \in 1..m + 1, NEW j \in 1..m + 1, i < j PROVE a[i] # a[j]
  <2>1. i \in 1..m
    BY <1>2, <1>6
  <2>2. CASE j \in 1..m
    BY <1>1, <1>2, <1>4, <1>6, <2>1, <2>2 DEF ArchivedOnce
  <2>3. CASE j = m + 1
    BY <1>1, <1>2, <1>4, <2>1, <2>3 DEF Holds
  <2> QED
    BY <1>5, <2>2, <2>3
<1>7. ASSUME NEW b \in failed PROVE b.id <= issued /\ ~Holds(a, b)
  <2>1. b.id <= issued /\ ~Holds(cold, b) /\ b # pending
    BY <1>1 DEF ArchivedOnce
  <2> QED
    BY <1>2, <1>4, <1>5, <2>1 DEF Holds
<1> QED
  BY <1>3, <1>4, <1>6, <1>7 DEF ArchivedOnce, Holds

LEMMA SessionTypeStep ==
    ASSUME SessionInv, [SessionNext]_sessionVars
    PROVE  SessionTypeOK'
<1>1. /\ hotBlocks \in Seq(Blocks) /\ cold \in Seq(Blocks)
      /\ history \in Seq(Blocks) /\ <<>> \in Seq(Blocks)
      /\ failed \subseteq Blocks /\ repeated \subseteq Blocks
      /\ hotPrompt \in Prompts \cup {NoPrompt} /\ prompt \in Prompts \cup {NoPrompt}
      /\ stored \in States /\ state \in States
      /\ pending \in Blocks \cup {NoBlock} \cup Prompts
      /\ cleared \in 0..issued /\ issued \in 0..AppendLimit
      /\ failures \in 0..FailureLimit
      /\ FailureLimit \in Nat /\ AppendLimit \in Nat
  BY BlocksAssumption, SessionMemoryAssumption, EmptySeq DEF SessionInv, SessionTypeOK
<1>2. Fail => failures' \in 0..FailureLimit
  BY <1>1 DEF Fail
<1>3. CASE LoadState
  BY <1>1, <1>2, <1>3 DEF SessionTypeOK, LoadState, storage, ghosts
<1>4. CASE ReadSnapshot
  <2>1. Snapshot(hotBlocks, HistoryBlockLimit) \in Seq(Blocks)
    BY <1>1, SnapshotIsSuffix
  <2> QED
    BY <1>1, <1>2, <1>4, <2>1 DEF SessionTypeOK, ReadSnapshot, storage, ghosts
<1>5. CASE AppendHot
  <2>1. PICK b \in Blocks :
          /\ issued <= issued' /\ issued' \in 0..AppendLimit
          /\ hotBlocks' \in Seq(Blocks) /\ repeated' \subseteq Blocks
          /\ \/ pc' = "archive" /\ pending' = b /\ failed' = failed \ {b} /\ UNCHANGED failures
             \/ Fail /\ Raised /\ failed' = failed \cup {b}
    BY <1>5, AppendHotStep
  <2>2. cleared' \in 0..issued'
    BY <1>1, <1>5, <2>1 DEF AppendHot
  <2>3. pc' \in {"archive", "handler", "stopped"} /\ pending' \in Blocks \cup {NoBlock}
    BY <2>1 DEF Raised
  <2> QED
    BY <1>1, <1>2, <1>5, <2>1, <2>2, <2>3 DEF SessionTypeOK, AppendHot, context
<1>6. CASE ArchiveCold
  <2>1. Append(cold, pending) \in Seq(Blocks)
    BY <1>6, PendingAppended DEF ArchiveCold
  <2>2. failed \cup {pending} \subseteq Blocks
    BY <1>1, <1>6 DEF ArchiveCold, SessionInv, SessionOrder, CallUnderWay
  <2> QED
    BY <1>1, <1>2, <1>6, <2>1, <2>2 DEF SessionTypeOK, ArchiveCold, Raised, context, ghosts
<1>7. CASE MirrorBlock
  <2>1. Append(history, pending) \in Seq(Blocks)
    BY <1>7, PendingAppended DEF MirrorBlock
  <2> QED
    BY <1>1, <1>7, <2>1 DEF SessionTypeOK, MirrorBlock, storage, ghosts
<1>8. CASE UpsertPrompt
  BY <1>1, <1>2, <1>8 DEF SessionTypeOK, UpsertPrompt, Raised, context, ghosts
<1>9. CASE MirrorPrompt
  <2>1. pending \in Prompts
    BY <1>9 DEF MirrorPrompt, SessionInv, SessionOrder, CallUnderWay
  <2> QED
    BY <1>1, <1>9, <2>1 DEF SessionTypeOK, MirrorPrompt, storage, ghosts
<1>10. CASE DeleteHistory
  BY <1>1, <1>2, <1>10 DEF SessionTypeOK, DeleteHistory, context, ghosts
<1>11. CASE MirrorClear
  BY <1>1, <1>11 DEF SessionTypeOK, MirrorClear, storage
<1>12. CASE SetState \/ Return \/ Raise
  BY <1>1, <1>12
     DEF SessionInv, SessionTypeOK, SetState, Return, Raise, storage, context, ghosts
<1>13. CASE Persist
  BY <1>1, <1>2, <1>13 DEF SessionTypeOK, Persist, context, ghosts
<1>14. CASE Stopped \/ UNCHANGED sessionVars
  BY <1>14 DEF SessionInv, SessionTypeOK, Stopped, sessionVars, storage, context, ghosts
<1> QED
  BY <1>3, <1>4, <1>5, <1>6, <1>7, <1>8, <1>9, <1>10, <1>11, <1>12, <1>13, <1>14 DEF SessionNext

(* The order stays, and a call under way keeps what it knows.              *)
LEMMA SessionOrderStep ==
    ASSUME SessionInv, [SessionNext]_sessionVars
    PROVE  SessionOrder'
<1>1. /\ hotBlocks \in Seq(Blocks) /\ cold \in Seq(Blocks) /\ history \in Seq(Blocks)
      /\ issued \in Nat
      /\ RisingTo(hotBlocks, issued, repeated)
      /\ RisingTo(cold, issued, repeated)
      /\ RisingTo(history, issued, repeated)
      /\ CallUnderWay /\ ArchivedOnce
  BY BlocksAssumption DEF SessionInv, SessionTypeOK, SessionOrder
<1>2. RisingTo(<<>>, issued, repeated)
  BY EmptySeq DEF RisingTo, Rising
<1>3. UNCHANGED <<cold, failed, issued>> => ArchivedOnce'
  BY <1>1 DEF ArchivedOnce
<1>4. CASE LoadState
  BY <1>1, <1>3, <1>4 DEF SessionOrder, CallUnderWay, LoadState, storage, ghosts
<1>5. CASE ReadSnapshot
  <2>1. PICK w \in Seq(Blocks) : w = Snapshot(hotBlocks, HistoryBlockLimit) /\ IsSuffix(w, hotBlocks)
    BY <1>1, SnapshotIsSuffix
  <2>2. RisingTo(w, issued, repeated)
    BY <1>1, <2>1, SuffixRises
  <2> QED
    BY <1>1, <1>3, <1>5, <2>1, <2>2 DEF SessionOrder, CallUnderWay, ReadSnapshot, storage, ghosts
<1>6. CASE AppendHot
  <2>1. PICK b \in Blocks :
          /\ \/ b \in failed /\ issued' = issued /\ b \in repeated'
             \/ b.id = issued + 1 /\ issued' = issued + 1
          /\ issued <= issued' /\ issued' \in 0..AppendLimit /\ b.id <= issued'
          /\ repeated \subseteq repeated'
          /\ RisingTo(hotBlocks', issued', repeated')
          /\ \/ pc' = "archive" /\ pending' = b /\ failed' = failed \ {b}
             \/ Raised /\ failed' = failed \cup {b}
    BY <1>6, AppendHotStep
  <2>2. UNCHANGED <<cold, history>>
    BY <1>6 DEF AppendHot, context
  <2>3. issued' \in Nat
    BY <2>1, BlocksAssumption
  <2>4. RisingTo(cold, issued', repeated') /\ RisingTo(history, issued', repeated')
    BY <1>1, <2>1, <2>3, RisesFurther
  <2>5. /\ Follows(b, history, repeated') /\ Follows(b, cold, repeated')
        /\ ~Holds(cold, b)
    <3>1. CASE b \in failed /\ b \in repeated'
      BY <1>1, <3>1 DEF Follows, ArchivedOnce
    <3>2. CASE b.id = issued + 1
      <4>1. issued < b.id
        BY <1>1, <3>2
      <4> QED
        BY <1>1, <4>1, NewerFollows DEF Follows
    <3> QED
      BY <2>1, <3>1, <3>2
  <2>6. CallUnderWay'
    <3>1. CASE pc' = "archive" /\ pending' = b /\ failed' = failed \ {b}
      BY <2>1, <2>2, <2>5, <3>1 DEF CallUnderWay
    <3>2. CASE Raised
      BY <3>2 DEF CallUnderWay, Raised
    <3> QED
      BY <2>1, <3>1, <3>2
  <2>7. ArchivedOnce'
    <3>1. \A c \in failed : c.id <= issued'
      <4>1. \A c \in failed : c.id \in Nat /\ c.id <= issued
        BY <1>1, BlocksAssumption DEF ArchivedOnce, SessionInv, SessionTypeOK, Blocks
      <4> QED
        BY <1>1, <2>1, <2>3, <4>1
    <3>2. failed' \subseteq failed \cup {b}
      BY <2>1
    <3>3. \A c \in failed' : c.id <= issued' /\ ~Holds(cold, c)
      BY <1>1, <2>1, <2>5, <3>1, <3>2 DEF ArchivedOnce
    <3> QED
      BY <1>1, <2>2, <3>3 DEF ArchivedOnce
  <2> QED
    BY <2>1, <2>2, <2>4, <2>6, <2>7 DEF SessionOrder
<1>7. CASE ArchiveCold
  <2>1. UNCHANGED <<hotBlocks, history, issued, repeated>>
    BY <1>7 DEF ArchiveCold, context
  <2>2. CASE cold' = Append(cold, pending) /\ pc' = "mirror_block" /\ UNCHANGED <<pending, failed>>
    <3>1. RisingTo(cold', issued, repeated)
      BY <1>7, <2>2, PendingAppended DEF ArchiveCold
    <3>2. ArchivedOnce'
      BY <1>7, <2>1, <2>2, ArchiveGrows DEF ArchiveCold
    <3>3. CallUnderWay'
      BY <1>1, <1>7, <2>1, <2>2 DEF CallUnderWay, ArchiveCold
    <3> QED
      BY <1>1, <2>1, <3>1, <3>2, <3>3 DEF SessionOrder
  <2>3. CASE Raised /\ failed' = failed \cup {pending} /\ UNCHANGED cold
    <3>1. pending.id <= issued /\ ~Holds(cold, pending)
      BY <1>1, <1>7 DEF CallUnderWay, ArchiveCold
    <3>2. ArchivedOnce'
      BY <1>1, <2>1, <2>3, <3>1 DEF ArchivedOnce
    <3>3. CallUnderWay'
      BY <2>3 DEF CallUnderWay, Raised
    <3> QED
      BY <1>1, <2>1, <2>3, <3>2, <3>3 DEF SessionOrder
  <2> QED
    BY <1>7, <2>2, <2>3 DEF ArchiveCold
<1>8. CASE MirrorBlock
  <2>1. RisingTo(Append(history, pending), issued, repeated)
    BY <1>8, PendingAppended DEF MirrorBlock
  <2> QED
    BY <1>1, <1>3, <1>8, <2>1 DEF SessionOrder, CallUnderWay, MirrorBlock, storage, ghosts
<1>9. CASE UpsertPrompt
  BY <1>1, <1>3, <1>9 DEF SessionOrder, CallUnderWay, UpsertPrompt, Raised, context, ghosts
<1>10. CASE MirrorPrompt
  BY <1>1, <1>3, <1>10 DEF SessionOrder, CallUnderWay, MirrorPrompt, storage, ghosts
<1>11. CASE DeleteHistory
  BY <1>1, <1>2, <1>3, <1>11 DEF SessionOrder, CallUnderWay, DeleteHistory, context, ghosts
<1>12. CASE MirrorClear
  BY <1>1, <1>2, <1>3, <1>12 DEF SessionOrder, CallUnderWay, MirrorClear, storage
<1>13. CASE SetState \/ Return \/ Raise
  BY <1>1, <1>3, <1>13
     DEF SessionOrder, CallUnderWay, SetState, Return, Raise, storage, context, ghosts
<1>14. CASE Persist
  BY <1>1, <1>3, <1>14 DEF SessionOrder, CallUnderWay, Persist, context, ghosts
<1>15. CASE Stopped \/ UNCHANGED sessionVars
  BY <1>1, <1>3, <1>15
     DEF SessionOrder, CallUnderWay, Stopped, sessionVars, storage, context, ghosts
<1> QED
  BY <1>4, <1>5, <1>6, <1>7, <1>8, <1>9, <1>10, <1>11, <1>12, <1>13, <1>14, <1>15 DEF SessionNext
-----------------------------------------------------------------------------
(* Storage and snapshot stay in step until something fails.                *)

(* A step after which nothing has failed is one that does not fail.        *)
LEMMA NothingFailed ==
    ASSUME SessionInv, failures' = 0, failures' = failures \/ Fail
    PROVE  InStep /\ ~Fail
BY SessionMemoryAssumption DEF SessionInv, SessionTypeOK, Fail

(* The block is the newest of hot store, archive and snapshot to be, and   *)
(* what the trimmed store would show of it the snapshot will have.         *)
LEMMA AppendInStep ==
    ASSUME SessionInv, AppendHot, failures' = 0
    PROVE  InStep'
<1>1. PICK b \in Blocks :
        /\ b \in failed \/ b.id = issued + 1
        /\ \/ /\ pc' = "archive" /\ pending' = b /\ hotBlocks' = Trim(Append(hotBlocks, b))
              /\ failed' = failed \ {b} /\ UNCHANGED failures
           \/ Fail /\ Raised
  BY AppendHotStep
<1>2. InStep /\ ~Fail
  BY <1>1, NothingFailed
<1>3. /\ pc = "handler" /\ pc' = "archive" /\ pending' = b
      /\ hotBlocks' = Trim(Append(hotBlocks, b)) /\ failed' = {} /\ b.id = issued + 1
      /\ UNCHANGED <<cold, hotPrompt, stored, history, prompt, state, cleared>>
  BY <1>1, <1>2 DEF AppendHot, Offered, context, InStep
<1>4. /\ hotBlocks \in Seq(Blocks) /\ cold \in Seq(Blocks) /\ history \in Seq(Blocks)
      /\ cleared \in Nat /\ issued \in Nat /\ cleared <= issued
      /\ IsSuffix(hotBlocks, cold)
      /\ IsSuffix(Snapshot(hotBlocks, HistoryBlockLimit), history)
      /\ \A i \in DOMAIN hotBlocks : hotBlocks[i].id > cleared
      /\ \A i \in DOMAIN history : history[i].id > cleared
      /\ prompt = hotPrompt
  BY <1>2, <1>3, BlocksAssumption DEF InStep, SessionInv, SessionTypeOK
<1>5. PICK q \in Seq(Blocks) : q = Append(hotBlocks, b)
  BY <1>4, AppendProperties
<1>6. PICK w \in Seq(Blocks) : w = Trim(q) /\ IsSuffix(w, q)
  BY <1>5, SnapshotIsSuffix
<1>7. IsSuffix(w, Append(cold, b))
  <2>1. Append(cold, b) \in Seq(Blocks) /\ IsSuffix(q, Append(cold, b))
    BY <1>4, <1>5, AppendToSuffix, AppendProperties
  <2> QED
    BY <1>6, <2>1, SuffixOfSuffix
<1>8. IsSuffix(Snapshot(w, HistoryBlockLimit), Append(history, b))
  <2>1. PICK v \in Seq(Blocks) :
          /\ v = Snapshot(w, HistoryBlockLimit) /\ IsSuffix(v, w)
          /\ Len(v) <= HistoryBlockLimit
    BY SnapshotIsSuffix
  <2>2. PICK u \in Seq(Blocks) :
          /\ u = Snapshot(hotBlocks, HistoryBlockLimit) /\ IsSuffix(u, hotBlocks)
          /\ Len(u) = Len(hotBlocks) \/ Len(u) = HistoryBlockLimit
    BY <1>4, SnapshotIsSuffix
  <2>3. PICK a \in Seq(Blocks) : a = Append(u, b) /\ Len(a) = Len(u) + 1
    BY AppendProperties
  <2>4. IsSuffix(a, q) /\ IsSuffix(a, Append(history, b)) /\ Append(history, b) \in Seq(Blocks)
    BY <1>4, <1>5, <2>2, <2>3, AppendToSuffix, AppendProperties
  <2>5. IsSuffix(v, q)
    BY <1>6, <2>1, SuffixOfSuffix
  <2>6. Len(v) <= Len(a)
    <3>1. Len(q) = Len(hotBlocks) + 1
      BY <1>4, <1>5, AppendProperties
    <3>2. Len(v) <= Len(q)
      BY <2>5, SuffixElements
    <3>3. Len(v) \in Nat /\ Len(u) \in Nat /\ Len(hotBlocks) \in Nat /\ HistoryBlockLimit \in Nat
      BY <1>4, LenProperties, SessionMemoryAssumption
    <3> QED
      BY <2>1, <2>2, <2>3, <3>1, <3>2, <3>3
  <2>7. IsSuffix(v, a)
    BY <2>4, <2>5, <2>6, SuffixOfSuffix
  <2> QED
    BY <2>1, <2>4, <2>7, SuffixOfSuffix
<1>9. \A i \in DOMAIN w : w[i].id > cleared
  <2>1. \A i \in DOMAIN w : \E j \in DOMAIN q : w[i] = q[j]
    BY <1>6, SuffixRises
  <2>2. \A j \in DOMAIN q : q[j].id > cleared
    <3>1. /\ DOMAIN q = 1..Len(hotBlocks) + 1 /\ DOMAIN hotBlocks = 1..Len(hotBlocks)
          /\ \A j \in 1..Len(hotBlocks) : q[j] = hotBlocks[j]
          /\ q[Len(hotBlocks) + 1] = b
      BY <1>4, <1>5, AppendProperties, LenProperties
    <3>2. Len(hotBlocks) \in Nat
      BY <1>4, LenProperties
    <3>3. b.id > cleared
      BY <1>3, <1>4
    <3>4. \A j \in DOMAIN q : j \in DOMAIN hotBlocks \/ j = Len(hotBlocks) + 1
      BY <3>1, <3>2
    <3> QED
      BY <1>4, <3>1, <3>3, <3>4
  <2> QED
    BY <2>1, <2>2
<1>10. b.id > cleared
  BY <1>3, <1>4
<1> QED
  BY <1>3, <1>4, <1>5, <1>6, <1>7, <1>8, <1>9, <1>10 DEF InStep

(* What a turn reads is what the store shows, and nothing from before the  *)
(* last clear.                                                             *)
LEMMA ReadInStep ==
    ASSUME SessionInv, ReadSnapshot, failures' = 0
    PROVE  InStep'
<1>1. InStep /\ ~Fail
  BY NothingFailed DEF ReadSnapshot
<1>2. /\ pc = "read" /\ pc' = "handler" /\ history' = Snapshot(hotBlocks, HistoryBlockLimit)
      /\ prompt' = hotPrompt
      /\ UNCHANGED <<hotBlocks, cold, hotPrompt, pending, cleared, failed>>
  BY <1>1 DEF ReadSnapshot, storage, ghosts
<1>3. hotBlocks \in Seq(Blocks)
  BY DEF SessionInv, SessionTypeOK
<1>4. PICK w \in Seq(Blocks) : w = Snapshot(hotBlocks, HistoryBlockLimit) /\ IsSuffix(w, hotBlocks)
  BY <1>3, SnapshotIsSuffix
<1>5. IsSuffix(w, w) /\ \A i \in DOMAIN w : \E j \in DOMAIN hotBlocks : w[i] = hotBlocks[j]
  BY <1>3, <1>4, SnapshotIsSuffix, SuffixRises
<1>6. \A i \in DOMAIN w : w[i].id > cleared
  BY <1>1, <1>5 DEF InStep
<1>7. /\ IsSuffix(hotBlocks, cold) /\ failed = {}
      /\ \A i \in DOMAIN hotBlocks : hotBlocks[i].id > cleared
  BY <1>1, <1>2 DEF InStep
<1> QED
  BY <1>2, <1>4, <1>5, <1>6, <1>7 DEF InStep

(* An empty store shows nothing and is a suffix of everything.             *)
LEMMA EmptyInStep ==
    ASSUME SessionInv
    PROVE  /\ IsSuffix(<<>>, cold)
           /\ IsSuffix(Snapshot(<<>>, HistoryBlockLimit), <<>>)
           /\ DOMAIN <<>> = {}
<1>1. <<>> \in Seq(Blocks) /\ Len(<<>>) = 0 /\ DOMAIN <<>> = {}
  BY EmptySeq
<1>2. cold \in Seq(Blocks) /\ Len(cold) \in Nat
  BY LenProperties DEF SessionInv, SessionTypeOK
<1>3. IsSuffix(<<>>, cold)
  <2>1. PICK e \in Seq(Blocks) : e = <<>> /\ Len(e) = 0
    BY <1>1
  <2>2. Len(e) <= Len(cold) /\ \A i \in 1..Len(e) : e[i] = cold[Len(cold) - Len(e) + i]
    BY <1>2, <2>1
  <2>3. IsSuffix(e, cold)
    BY <1>2, <2>1, <2>2, SuffixElements
  <2> QED
    BY <2>1, <2>3
<1>4. IsSuffix(Snapshot(<<>>, HistoryBlockLimit), <<>>)
  BY <1>1, SnapshotIsSuffix
<1> QED
  BY <1>1, <1>3, <1>4

LEMMA InStepStep ==
    ASSUME SessionInv, [SessionNext]_sessionVars, failures' = 0
    PROVE  InStep'
<1>1. CASE LoadState
  BY <1>1, NothingFailed DEF InStep, LoadState, storage, ghosts
<1>2. CASE ReadSnapshot
  BY <1>2, ReadInStep
<1>3. CASE AppendHot
  BY <1>3, AppendInStep
<1>4. CASE ArchiveCold
  <2>1. InStep /\ ~Fail
    BY <1>4, NothingFailed DEF ArchiveCold
  <2> QED
    BY <1>4, <2>1 DEF InStep, ArchiveCold, context, ghosts
<1>5. CASE MirrorBlock
  <2>1. InStep /\ ~Fail
    BY <1>5, NothingFailed DEF MirrorBlock
  <2>2. \A i \in DOMAIN Append(history, pending) : Append(history, pending)[i].id > cleared
    <3>1. history \in Seq(Blocks) /\ pending \in Blocks /\ pending.id > cleared
      BY <1>5, <2>1 DEF SessionInv, SessionTypeOK, SessionOrder, CallUnderWay, MirrorBlock, InStep
    <3>2. PICK n \in Nat, a \in Seq(Blocks) : a = Append(history, pending) /\ n = Len(history)
      BY <3>1, LenProperties, AppendProperties
    <3>3. /\ DOMAIN a = 1..n + 1 /\ DOMAIN history = 1..n
          /\ \A i \in 1..n : a[i] = history[i]
          /\ a[n + 1] = pending
      BY <3>1, <3>2, AppendProperties, LenProperties
    <3>4. \A i \in 1..n : history[i].id > cleared
      BY <1>5, <2>1, <3>3 DEF InStep, MirrorBlock
    <3>5. \A i \in DOMAIN a : i \in 1..n \/ i = n + 1
      BY <3>2, <3>3
    <3>6. pending.id > cleared
      BY <3>1
    <3> QED
      BY <3>2, <3>3, <3>4, <3>5, <3>6
  <2> QED
    BY <1>5, <2>1, <2>2 DEF InStep, MirrorBlock, storage, ghosts
<1>6. CASE UpsertPrompt
  <2>1. InStep /\ ~Fail
    BY <1>6, NothingFailed DEF UpsertPrompt
  <2> QED
    BY <1>6, <2>1 DEF InStep, UpsertPrompt, context, ghosts
<1>7. CASE MirrorPrompt
  BY <1>7, NothingFailed DEF InStep, MirrorPrompt, storage, ghosts
<1>8. CASE DeleteHistory
  <2>1. InStep /\ ~Fail
    BY <1>8, NothingFailed DEF DeleteHistory
  <2> QED
    BY <1>8, <2>1, EmptyInStep DEF InStep, DeleteHistory, context, ghosts
<1>9. CASE MirrorClear
  <2>1. InStep
    BY <1>9, NothingFailed DEF MirrorClear
  <2> QED
    BY <1>9, <2>1, EmptyInStep DEF InStep, MirrorClear, storage
<1>10. CASE SetState \/ Return \/ Raise
  BY <1>10, NothingFailed DEF InStep, SetState, Return, Raise, storage, context, ghosts
<1>11. CASE Persist
  <2>1. InStep /\ ~Fail
    BY <1>11, NothingFailed DEF Persist
  <2> QED
    BY <1>11, <2>1 DEF InStep, Persist, context, ghosts
<1>12. CASE Stopped \/ UNCHANGED sessionVars
  BY <1>12, NothingFailed DEF InStep, Stopped, sessionVars, storage, context, ghosts
<1> QED
  BY <1>1, <1>2, <1>3, <1>4, <1>5, <1>6, <1>7, <1>8, <1>9, <1>10, <1>11, <1>12 DEF SessionNext
-----------------------------------------------------------------------------
(* What the runs check of the session memory.                              *)

(* The inductive invariant of a session, for any token counts, limits and  *)
(* storage failures.                                                       *)
THEOREM SessionInvariant == SessionSpec => []SessionInv
<1>1. SessionInv /\ [SessionNext]_sessionVars => SessionInv'
  <2> SUFFICES ASSUME SessionInv, [SessionNext]_sessionVars PROVE SessionInv'
    OBVIOUS
  <2>1. SessionTypeOK' /\ SessionOrder' /\ (failures' = 0 => InStep')
    BY SessionTypeStep, SessionOrderStep, InStepStep
  <2> QED
    BY <2>1 DEF SessionInv
<1> QED
  BY <1>1, SessionInitInv, PTL DEF SessionSpec

(* BlocksInOrder for any handler, any failures of storage and any blocks   *)
(* appended again: snapshot and archive show blocks in order, each once    *)
(* unless it was appended again, and in the archive once even then.        *)
THEOREM BlocksAlwaysInOrder == SessionSpec => []BlocksInOrder
<1>1. SessionInv => BlocksInOrder
  <2> SUFFICES ASSUME SessionInv PROVE BlocksInOrder
    OBVIOUS
  <2>1. SessionTypeOK /\ Rising(history, repeated) /\ Rising(cold, repeated) /\ ArchivedOnce
    BY DEF SessionInv, SessionOrder, RisingTo
  <2>2. DOMAIN history = 1..Len(history) /\ DOMAIN cold = 1..Len(cold)
    BY <2>1, LenProperties DEF SessionTypeOK
  <2> QED
    BY <2>1, <2>2 DEF BlocksInOrder, Rising, ArchivedOnce
<1> QED
  BY <1>1, SessionInvariant, PTL

(* Without its newest block, which an archive lacks, a suffix is one of    *)
(* the archive.                                                            *)
LEMMA FrontOfSuffix ==
    ASSUME NEW S, NEW w \in Seq(S), NEW q \in Seq(S), NEW b \in S,
           IsSuffix(w, Append(q, b)), w # <<>>
    PROVE  IsSuffix(Front(w), q)
<1>1. PICK m \in Nat, n \in Nat : m = Len(w) /\ n = Len(q)
  BY LenProperties
<1>2. m > 0
  BY <1>1, EmptySeq
<1>3. PICK a \in Seq(S), l \in Nat : /\ a = Append(q, b) /\ l = Len(a) /\ l = n + 1
                                     /\ \A i \in 1..n : a[i] = q[i]
  <2>1. /\ Append(q, b) \in Seq(S) /\ Len(Append(q, b)) = n + 1
        /\ \A i \in 1..n : Append(q, b)[i] = q[i]
    BY <1>1, AppendProperties
  <2>2. n + 1 \in Nat
    BY <1>1
  <2> QED
    BY <2>1, <2>2
<1>4. m <= l /\ \A i \in 1..m : w[i] = a[l - m + i]
  <2>1. IsSuffix(w, a)
    BY <1>3
  <2>2. Len(w) <= Len(a) /\ \A i \in 1..Len(w) : w[i] = a[Len(a) - Len(w) + i]
    BY <2>1, SuffixElements
  <2> QED
    BY <1>1, <1>3, <2>2
<1>5. PICK k \in Nat : k = m - 1 /\ k <= n
  <2>1. m - 1 \in Nat /\ m - 1 <= n
    BY <1>2, <1>3, <1>4
  <2> QED
    BY <2>1
<1>6. PICK v : v = Front(w)
  OBVIOUS
<1>7. v \in Seq(S) /\ Len(v) = k /\ \A i \in 1..k : v[i] = w[i]
  <2>1. v = SubSeq(w, 1, k)
    BY <1>1, <1>5, <1>6 DEF Front
  <2>2. k <= m
    BY <1>5
  <2>3. v = [i \in 1..k |-> w[i]]
    BY <1>1, <2>1, <2>2
  <2>4. \A i \in 1..k : w[i] \in S
    BY <1>1, <2>2, ElementOfSeq
  <2>5. v \in [1..k -> S]
    BY <2>3, <2>4
  <2>6. v \in Seq(S)
    BY <2>5, SeqDef
  <2> QED
    BY <2>3, <2>5, <2>6, LenProperties
<1>8. \A i \in 1..k : v[i] = q[n - k + i]
  <2>1. \A i \in 1..k : i \in 1..m /\ l - m + i = n - k + i /\ n - k + i \in 1..n
    BY <1>1, <1>3, <1>5
  <2> QED
    BY <1>3, <1>4, <1>7, <2>1
<1> QED
  <2>1. Len(v) <= Len(q) /\ \A i \in 1..Len(v) : v[i] = q[Len(q) - Len(v) + i]
    BY <1>1, <1>5, <1>7, <1>8
  <2> QED
    BY <1>6, <1>7, <2>1, SuffixElements

(* HotIsArchived for any limits and token counts: until storage fails, the *)
(* archive ends with what the hot store holds.                             *)
THEOREM HotIsAlwaysArchived == SessionSpec => []HotIsArchived
<1>1. SessionInv => HotIsArchived
  <2> SUFFICES ASSUME SessionInv, failures = 0 PROVE HotIsArchived
    BY DEF HotIsArchived
  <2>1. IsSuffix(hotBlocks, IF pc = "archive" THEN Append(cold, pending) ELSE cold)
    BY DEF SessionInv, InStep
  <2>2. hotBlocks \in Seq(Blocks) /\ cold \in Seq(Blocks) /\ (pc = "archive" => pending \in Blocks)
    BY DEF SessionInv, SessionTypeOK, SessionOrder, CallUnderWay
  <2>3. CASE pc = "archive"
    BY <2>1, <2>2, <2>3, FrontOfSuffix DEF HotIsArchived
  <2> QED
    BY <2>1, <2>3 DEF HotIsArchived
<1> QED
  BY <1>1, SessionInvariant, PTL

(* ReloadShowsNothingNew for any limits, token counts and limit of the     *)
(* load request: until storage fails, a reload within a turn would show    *)
(* the newest blocks of what the handler sees, and its prompt.             *)
THEOREM ReloadNeverShowsNew == SessionSpec => []ReloadShowsNothingNew
<1>1. SessionInv => ReloadShowsNothingNew
  <2> SUFFICES ASSUME SessionInv, pc = "handler", failures = 0 PROVE ReloadShowsNothingNew
    BY DEF ReloadShowsNothingNew, InHandler
  <2>1. InStep /\ DOMAIN history = 1..Len(history)
    BY LenProperties DEF SessionInv, SessionTypeOK
  <2> QED
    BY <2>1 DEF ReloadShowsNothingNew, InStep
<1> QED
  BY <1>1, SessionInvariant, PTL

(* StateCarriedOver for any states and handlers: until storage fails, a    *)
(* turn starts from the state in which its predecessor ended.              *)
THEOREM StateAlwaysCarriedOver == SessionSpec => StateCarriedOver
<1>1. SessionInv /\ [SessionNext]_sessionVars
        => [LoadState /\ failures' = 0 => state' = state]_sessionVars
  <2> SUFFICES ASSUME SessionInv, LoadState, failures' = 0 PROVE state' = state
    OBVIOUS
  <2>1. InStep /\ ~Fail
    BY NothingFailed DEF LoadState
  <2> QED
    BY <2>1 DEF InStep, LoadState
<1> QED
  BY <1>1, SessionInvariant, PTL DEF SessionSpec, StateCarriedOver
=============================================================================
