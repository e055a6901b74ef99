--------------------------- MODULE SessionMemory ---------------------------
(***************************************************************************)
(* The memory of one session as a turn sees it.  A turn (one event of the  *)
(* consumer loop in src/qfaos/qfaos.py) loads a RuntimeContext through     *)
(* StateContextManager, lets the user's handler work on it through         *)
(* DefaultQFASessionContext, and persists the runtime state.  The facade   *)
(* writes through StorageMemoryManager to the hot store and to the cold    *)
(* archive and then mirrors the change in the context's snapshot; each     *)
(* await between two of those places is a step, and storage may fail at    *)
(* any of them.  Turns of a session never overlap: the loop is sequential. *)
(***************************************************************************)
EXTENDS ContextBlocks

CONSTANTS States,             \* runtime state dictionaries
          EmptyState,         \* the state of a session never persisted
          Prompts,            \* contents of the base_prompt part
          NoPrompt,           \* no base_prompt part is stored
          HistoryBlockLimit,  \* history_block_limit of the load request
          FailureLimit        \* bound on the storage failures

ASSUME SessionMemoryAssumption ==
    /\ EmptyState \in States
    /\ NoPrompt \notin Prompts
    /\ HistoryBlockLimit \in Nat \ {0}
    /\ FailureLimit \in Nat

VARIABLES
    hotBlocks,  \* blocks in the hot store
    cold,       \* blocks in the cold archive
    hotPrompt,  \* the base_prompt part in the hot store
    stored,     \* the persisted runtime state
    history,    \* ctx.memory.history_blocks
    prompt,     \* the base_prompt part of ctx.memory.system_parts
    state,      \* ctx.state
    pc,         \* where the turn is
    pending,    \* the block or prompt of the facade call under way
    cleared,    \* history: number of blocks issued when history was last cleared
    issued,     \* history: number of blocks issued
    failed,     \* history: blocks whose last append raised
    repeated,   \* history: blocks appended again after that
    failures    \* history: number of storage failures

storage == <<hotBlocks, cold, hotPrompt, stored>>
context == <<history, prompt, state>>
ghosts  == <<cleared, issued, failed, repeated>>
sessionVars == <<storage, context, pc, pending, ghosts, failures>>

SessionTypeOK ==
    /\ hotBlocks \in Seq(Blocks) /\ cold \in Seq(Blocks)
    /\ history \in Seq(Blocks)
    /\ hotPrompt \in Prompts \cup {NoPrompt} /\ prompt \in Prompts \cup {NoPrompt}
    /\ stored \in States /\ state \in States
    /\ pc \in {"idle", "read", "handler", "archive", "mirror_block",
               "mirror_prompt", "mirror_clear", "persist", "stopped"}
    /\ pending \in Blocks \cup {NoBlock} \cup Prompts
    /\ cleared \in 0..issued /\ issued \in 0..AppendLimit
    /\ failed \subseteq Blocks /\ repeated \subseteq Blocks
    /\ failures \in 0..FailureLimit

SessionInit ==
    /\ hotBlocks = <<>> /\ cold = <<>> /\ hotPrompt = NoPrompt /\ stored = EmptyState
    /\ history = <<>> /\ prompt = NoPrompt /\ state = EmptyState
    /\ pc = "idle" /\ pending = NoBlock
    /\ cleared = 0 /\ issued = 0 /\ failed = {} /\ repeated = {}
    /\ failures = 0

Fail == failures < FailureLimit /\ failures' = failures + 1

\* An exception reached the handler: it catches it and goes on, or lets it
\* escape, which ends the turn and the consumer loop with it.
Raised == pc' \in {"handler", "stopped"} /\ pending' = NoBlock
-----------------------------------------------------------------------------
(* StateContextManager.initialize_context: two awaited reads.              *)

LoadState ==
    /\ pc = "idle"
    /\ \/ state' = stored /\ pc' = "read" /\ UNCHANGED failures
       \/ Fail /\ pc' = "stopped" /\ UNCHANGED state
    /\ UNCHANGED <<storage, history, prompt, pending, ghosts>>

ReadSnapshot ==
    /\ pc = "read"
    /\ \/ /\ history' = Snapshot(hotBlocks, HistoryBlockLimit)
          /\ prompt' = hotPrompt
          /\ pc' = "handler"
          /\ UNCHANGED failures
       \/ Fail /\ pc' = "stopped" /\ UNCHANGED <<history, prompt>>
    /\ UNCHANGED <<storage, state, pending, ghosts>>
-----------------------------------------------------------------------------
(* DefaultQFASessionContext.append_context_block.  The block is the        *)
(* caller's, its block_id included, and nobody compares it with what is    *)
(* stored: a handler that catches the exception of an append may append    *)
(* the same block again, at once or in a later turn.                       *)

NewBlocks == [id : {issued + 1} \cap 1..AppendLimit, tok : TokenCounts]

\* The handler appends b, a new block or one whose append raised.
Offered(b) ==
    /\ pc = "handler"
    /\ issued' = IF b \in failed THEN issued ELSE b.id
    /\ repeated' = IF b \in failed THEN repeated \cup {b} ELSE repeated

\* Variant: the manager does not archive the block.
AppendHotUnarchived ==
    \E b \in NewBlocks \cup failed :
        /\ Offered(b)
        /\ hotBlocks' = Trim(Append(hotBlocks, b))
        /\ pending' = b
        /\ pc' = "mirror_block"
        /\ failed' = failed \ {b}
        /\ UNCHANGED <<cold, hotPrompt, stored, context, cleared, failures>>

AppendHot ==
    \E b \in NewBlocks \cup failed :
        /\ Offered(b)
        /\ \/ /\ hotBlocks' = Trim(Append(hotBlocks, b))
              /\ pending' = b
              /\ pc' = "archive"
              /\ failed' = failed \ {b}
              /\ UNCHANGED failures
           \/ /\ Fail /\ Raised /\ failed' = failed \cup {b}
              /\ \/ UNCHANGED hotBlocks
                 \/ \* Redis: pushed, but not trimmed
                    hotBlocks' = Append(hotBlocks, b)
        /\ UNCHANGED <<cold, hotPrompt, stored, context, cleared>>

ArchiveCold ==
    /\ pc = "archive"
    /\ \/ /\ cold' = Append(cold, pending)
          /\ pc' = "mirror_block"
          /\ UNCHANGED <<pending, failed, failures>>
       \/ Fail /\ Raised /\ failed' = failed \cup {pending} /\ UNCHANGED cold
    /\ UNCHANGED <<hotBlocks, hotPrompt, stored, context, cleared, issued, repeated>>

\* Variant: the snapshot gets the block in front.
MirrorBlockInFront ==
    /\ pc = "mirror_block"
    /\ history' = <<pending>> \o history
    /\ pc' = "handler"
    /\ pending' = NoBlock
    /\ UNCHANGED <<storage, prompt, state, ghosts, failures>>

MirrorBlock ==
    /\ pc = "mirror_block"
    /\ history' = Append(history, pending)
    /\ pc' = "handler"
    /\ pending' = NoBlock
    /\ UNCHANGED <<storage, prompt, state, ghosts, failures>>
-----------------------------------------------------------------------------
(* DefaultQFASessionContext.set_system_prompt.                             *)

UpsertPrompt ==
    /\ pc = "handler"
    /\ \/ /\ \E p \in Prompts : hotPrompt' = p /\ pending' = p
          /\ pc' = "mirror_prompt"
          /\ UNCHANGED failures
       \/ Fail /\ Raised /\ UNCHANGED hotPrompt
    /\ UNCHANGED <<hotBlocks, cold, stored, context, ghosts>>

MirrorPrompt ==
    /\ pc = "mirror_prompt"
    /\ prompt' = pending
    /\ pc' = "handler"
    /\ pending' = NoBlock
    /\ UNCHANGED <<storage, history, state, ghosts, failures>>
-----------------------------------------------------------------------------
(* DefaultQFASessionContext.clear_history.  The manager gathers the two    *)
(* deletions with return_exceptions=True: whatever happens to them, the    *)
(* call succeeds.  SQLiteColdMemory has no delete_history, so the cold one *)
(* is the protocol's NotImplementedError every time.                       *)

DeleteHistory ==
    /\ pc = "handler"
    /\ \/ hotBlocks' = <<>> /\ hotPrompt' = NoPrompt /\ UNCHANGED failures
       \/ Fail /\ UNCHANGED <<hotBlocks, hotPrompt>>
       \/ \* Redis and JSONL: the blocks are gone, the parts are not
          Fail /\ hotBlocks' = <<>> /\ UNCHANGED hotPrompt
    /\ pc' = "mirror_clear"
    /\ UNCHANGED <<cold, stored, context, pending, ghosts>>

\* Variant: the snapshot keeps its system parts.
MirrorClearBlocksOnly ==
    /\ pc = "mirror_clear"
    /\ history' = <<>>
    /\ pc' = "handler"
    /\ cleared' = issued
    /\ UNCHANGED <<storage, prompt, state, pending, issued, failed, repeated, failures>>

MirrorClear ==
    /\ pc = "mirror_clear"
    /\ history' = <<>>
    /\ prompt' = NoPrompt
    /\ pc' = "handler"
    /\ cleared' = issued
    /\ UNCHANGED <<storage, state, pending, issued, failed, repeated, failures>>
-----------------------------------------------------------------------------
(* The handler changes ctx.state, and ends by returning or by raising.     *)

SetState ==
    /\ pc = "handler"
    /\ state' \in States
    /\ UNCHANGED <<storage, history, prompt, pc, pending, ghosts, failures>>

\* Variant: the turn ends without persisting.
ReturnUnpersisted ==
    /\ pc = "handler"
    /\ pc' = "idle"
    /\ UNCHANGED <<storage, context, pending, ghosts, failures>>

Return ==
    /\ pc = "handler"
    /\ pc' = "persist"
    /\ UNCHANGED <<storage, context, pending, ghosts, failures>>

Raise ==
    /\ pc = "handler"
    /\ pc' = "stopped"
    /\ UNCHANGED <<storage, context, pending, ghosts, failures>>

\* persist_context logs a failed write and carries on with the next event.
Persist ==
    /\ pc = "persist"
    /\ \/ stored' = state /\ UNCHANGED failures
       \/ Fail /\ UNCHANGED stored
    /\ pc' = "idle"
    /\ UNCHANGED <<hotBlocks, cold, hotPrompt, context, pending, ghosts>>

\* The consumer loop is over: nothing happens any more.
Stopped == pc = "stopped" /\ UNCHANGED sessionVars

SessionNext ==
    \/ LoadState \/ ReadSnapshot
    \/ AppendHot \/ ArchiveCold \/ MirrorBlock
    \/ UpsertPrompt \/ MirrorPrompt
    \/ DeleteHistory \/ MirrorClear
    \/ SetState \/ Return \/ Raise \/ Persist
    \/ Stopped

SessionSpec == SessionInit /\ [][SessionNext]_sessionVars
-----------------------------------------------------------------------------
InHandler == pc = "handler"

(* Reloading the context in the middle of a turn would show the handler    *)
(* nothing it does not see already: what the store would return is a run   *)
(* of the newest blocks of the snapshot, although the store trims and the  *)
(* snapshot does not, and none from before the last clear, in this turn or *)
(* a later one.  Holds as long as no storage call failed.                  *)
ReloadShowsNothingNew ==
    InHandler /\ failures = 0 =>
        /\ IsSuffix(Snapshot(hotBlocks, HistoryBlockLimit), history)
        /\ \A i \in 1..Len(history) : history[i].id > cleared
        /\ prompt = hotPrompt

(* Whatever fails, and whether or not the handler appends again what did   *)
(* not go through: snapshot and archive show blocks in the order in which  *)
(* they were first offered, each once, except where a block was appended   *)
(* again, and the archive has even such a block only once.  They may lack  *)
(* one whose append failed half-way.  (Types included.)                    *)
BlocksInOrder ==
    /\ SessionTypeOK
    /\ \A q \in {history, cold} :
         \A i, j \in 1..Len(q) : i < j => q[i].id < q[j].id \/ q[j] \in repeated
    /\ \A i, j \in 1..Len(cold) : i < j => cold[i] # cold[j]

(* Every block in the hot store is archived, in the same order, except the *)
(* one whose archiving is under way or failed.                             *)
HotIsArchived ==
    failures = 0 =>
        \/ IsSuffix(hotBlocks, cold)
        \/ /\ pc = "archive"
           /\ hotBlocks # <<>> => IsSuffix(Front(hotBlocks), cold)

(* A turn starts from the state its predecessor left: a step that starts a *)
(* turn loads the state with which the last turn ended, unless writing it  *)
(* failed.                                                                 *)
StateCarriedOver ==
    [][LoadState /\ failures' = 0 => state' = state]_sessionVars
=============================================================================
