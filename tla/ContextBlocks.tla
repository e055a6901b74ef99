--------------------------- MODULE ContextBlocks ---------------------------
(***************************************************************************)
(* Context blocks and the sliding window the hot memory keeps of them      *)
(* (src/storage_memory/backends).  A block is what trimming can tell apart *)
(* about it: its place in the order of arrival and its token_count; its    *)
(* messages are left out.  The operators here are pure; the three backends *)
(* use them with different interleavings.                                  *)
(***************************************************************************)
EXTENDS Integers, FiniteSets, SequencesExt

CONSTANTS MaxBlocks,   \* max_blocks of the store, or NoLimit for None
          MaxTokens,   \* max_tokens of the store, or NoLimit for None
          TokenCounts, \* token counts a block may carry
          AppendLimit  \* bound on the appends of one behaviour

NoLimit == -1

\* The constructors refuse a store with neither limit.
ASSUME LimitsAssumption ==
    /\ MaxBlocks \in Nat \cup {NoLimit}
    /\ MaxTokens \in Nat \cup {NoLimit}
    /\ MaxBlocks # NoLimit \/ MaxTokens # NoLimit

ASSUME BlocksAssumption == TokenCounts \subseteq Nat /\ AppendLimit \in Nat

\* The id of a block is its place among the appends of a behaviour.
Blocks == [id : 1..AppendLimit, tok : TokenCounts]

\* No block: the value of a variable that holds none.
NoBlock == [id |-> 0, tok |-> 0]

Tokens(q) ==
    LET sum[n \in 0..Len(q)] == IF n = 0 THEN 0 ELSE sum[n - 1] + q[n].tok
    IN  sum[Len(q)]

\* The last n blocks of q, for n \in 0..Len(q).
Newest(q, n) == SubSeq(q, Len(q) - n + 1, Len(q))
-----------------------------------------------------------------------------
(* The trimming the code runs after each append.                           *)

\* How many blocks `queue[-max_blocks:]` keeps.  A slice from -0 is a slice
\* from the start: a limit of 0 keeps the whole list.
CountKept(q) ==
    IF MaxBlocks = NoLimit \/ MaxBlocks = 0 \/ Len(q) <= MaxBlocks
    THEN Len(q) ELSE MaxBlocks

\* Variant: a run that fills the limit exactly is taken for an overflow.
TokensKeptStrict(q) ==
    IF MaxTokens = NoLimit
    THEN Len(q)
    ELSE Cardinality({n \in 1..Len(q) :
                        \A m \in 1..n : Tokens(Newest(q, m)) < MaxTokens})

\* Variant: the block at which the scan stops is kept as well.
TokensKeptInclusive(q) ==
    IF MaxTokens = NoLimit
    THEN Len(q)
    ELSE Cardinality({n \in 1..Len(q) :
                        \A m \in 1..n - 1 : Tokens(Newest(q, m)) <= MaxTokens})

\* How many blocks the token scan keeps.  It runs from the newest block to
\* the oldest and stops at the first block that would overflow, so n blocks
\* are kept only if every shorter run of newest blocks fits as well.
TokensKept(q) ==
    IF MaxTokens = NoLimit
    THEN Len(q)
    ELSE Cardinality({n \in 1..Len(q) :
                        \A m \in 1..n : Tokens(Newest(q, m)) <= MaxTokens})

\* Trimming by block count, then by tokens.
Trim(q) == LET counted == Newest(q, CountKept(q))
           IN  Newest(counted, TokensKept(counted))
-----------------------------------------------------------------------------
(* What the window promises, said without an algorithm.                    *)

Fits(q) == /\ MaxBlocks # NoLimit => Len(q) <= MaxBlocks
           /\ MaxTokens # NoLimit => Tokens(q) <= MaxTokens

LongestFitting(q) ==
    CHOOSE w \in Suffixes(q) :
        /\ Fits(w)
        /\ \A v \in Suffixes(q) : Fits(v) => Len(v) <= Len(w)

\* read_context_snapshot: at most `limit` of the newest blocks, all of them
\* for a limit of 0.
Snapshot(q, limit) ==
    IF limit > 0 /\ limit < Len(q) THEN Newest(q, limit) ELSE q
=============================================================================
