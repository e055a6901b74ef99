----------------------------- MODULE HotMemory -----------------------------
(***************************************************************************)
(* InMemoryHotMemoryStore (src/storage_memory/backends/in_memory.py): the  *)
(* hot memory as three dictionaries.  No method awaits anything, so each   *)
(* is one atomic step of the event loop.                                   *)
(***************************************************************************)
EXTENDS ContextBlocks

CONSTANTS Sessions,       \* the (logic_id, session_id) pairs in use
          Sources,        \* sources of system prompt parts
          Contents,       \* contents of a system prompt part
          RuntimeStates,  \* runtime state dictionaries
          EmptyRuntime,   \* the dictionary load_runtime_state starts from
          NoPart          \* no part is stored for a source

ASSUME HotMemoryAssumption ==
    /\ EmptyRuntime \in RuntimeStates
    /\ NoPart \notin Contents

VARIABLES
    hot,         \* _hot_memory: session -> list of blocks
    sys,         \* _system_parts: session -> source -> content
    runtime,     \* _runtime_states: session -> state
    hotLog,      \* history: blocks appended to a session since its last deletion
    hotAppended  \* history: number of appends so far, the id of the last block

hotVars == <<hot, sys, runtime, hotLog, hotAppended>>

NoParts == [src \in Sources |-> NoPart]

HotTypeOK ==
    /\ hot \in [Sessions -> Seq(Blocks)]
    /\ sys \in [Sessions -> [Sources -> Contents \cup {NoPart}]]
    /\ runtime \in [Sessions -> RuntimeStates]
    /\ hotLog \in [Sessions -> Seq(Blocks)]
    /\ hotAppended \in 0..AppendLimit

HotInit ==
    /\ hot = [s \in Sessions |-> <<>>]
    /\ sys = [s \in Sessions |-> NoParts]
    /\ runtime = [s \in Sessions |-> EmptyRuntime]
    /\ hotLog = [s \in Sessions |-> <<>>]
    /\ hotAppended = 0

\* append_context_block: append to the queue, trim by count, trim by tokens.
AppendContextBlock(s, tok) ==
    LET b == [id |-> hotAppended + 1, tok |-> tok] IN
    /\ hotAppended < AppendLimit
    /\ hotAppended' = hotAppended + 1
    /\ hot' = [hot EXCEPT ![s] = Trim(Append(@, b))]
    /\ hotLog' = [hotLog EXCEPT ![s] = Append(@, b)]
    /\ UNCHANGED <<sys, runtime>>

UpsertSystemPart(s, src, content) ==
    /\ sys' = [sys EXCEPT ![s][src] = content]
    /\ UNCHANGED <<hot, runtime, hotLog, hotAppended>>

\* delete_context_history pops the blocks and the system parts of a session;
\* its runtime state is not history and stays.
DeleteContextHistory(s) ==
    /\ hot' = [hot EXCEPT ![s] = <<>>]
    /\ sys' = [sys EXCEPT ![s] = NoParts]
    /\ hotLog' = [hotLog EXCEPT ![s] = <<>>]
    /\ UNCHANGED <<runtime, hotAppended>>

PersistRuntimeState(s, state) ==
    /\ runtime' = [runtime EXCEPT ![s] = state]
    /\ UNCHANGED <<hot, sys, hotLog, hotAppended>>

HotNext == \E s \in Sessions :
    \/ \E tok \in TokenCounts : AppendContextBlock(s, tok)
    \/ \E src \in Sources, content \in Contents : UpsertSystemPart(s, src, content)
    \/ DeleteContextHistory(s)
    \/ \E state \in RuntimeStates : PersistRuntimeState(s, state)

HotSpec == HotInit /\ [][HotNext]_hotVars
-----------------------------------------------------------------------------
(* The trimming of every append leaves exactly what trimming the whole     *)
(* history once would leave: a window trimmed by an old limit is never     *)
(* shorter, longer or older than the newest blocks allow.                  *)
WindowIsLongestFitting ==
    \A s \in Sessions : hot[s] = LongestFitting(hotLog[s])

(* The window has no gap: it is a run of the newest blocks appended to its *)
(* own session since the last deletion, in the order they arrived.         *)
WindowIsNewest ==
    \A s \in Sessions :
        /\ Len(hot[s]) <= Len(hotLog[s])
        /\ hot[s] = Newest(hotLog[s], Len(hot[s]))

(* A store with a block limit never holds more blocks than that.           *)
WindowBounded ==
    MaxBlocks \notin {NoLimit, 0} =>
        \A s \in Sessions : Len(hot[s]) <= MaxBlocks

HotRecent == INSTANCE RecentHistory WITH recent <- hot

(* Each operation of the store is one step of the protocol's promise.      *)
ImplementsRecentHistory == HotRecent!Spec
=============================================================================
