--------------------------- MODULE JsonlHotMemory ---------------------------
(***************************************************************************)
(* JSONLHotMemoryStore (src/storage_memory/backends/jsonl_store.py) under  *)
(* the turns of one session: a file of blocks, one JSON object per line,   *)
(* and one JSON file each for the system parts and the runtime state.      *)
(* Every change reads a whole file, truncates it and writes it again, and  *)
(* the process may die, or a write may fail, at any point in between.  A   *)
(* turn is the one of src/orchestration_engine/context: load the state,    *)
(* read the snapshot, run the handler, persist the state; what the loads   *)
(* raise ends the consumer loop.  Operations of a session do not overlap   *)
(* (turns are sequential, and the handler awaits each call).               *)
(***************************************************************************)
EXTENDS ContextBlocks

CONSTANTS PartContents,  \* contents of the base_prompt part
          JsonStates,    \* runtime states json.dump can write
          InitialState,  \* the state of a session never persisted
          NotJson,       \* a state with a value json.dump refuses
          NoFile,        \* the file does not exist
          Broken,        \* a JSON file that json.load refuses
          ReadLimit,     \* history_block_limit of the load request
          StopLimit      \* bound on deaths and failing writes

ASSUME JsonlAssumption ==
    /\ InitialState \in JsonStates /\ NotJson \notin JsonStates
    /\ {NoFile, Broken} \cap (PartContents \cup JsonStates) = {} /\ NoFile # Broken
    /\ ReadLimit \in Nat \ {0}
    /\ StopLimit \in Nat

VARIABLES
    lines,      \* hot_memory file of the session: its lines, <<>> also when it does not exist
    partsFile,  \* system_parts file: NoFile, Broken or a prompt
    stateFile,  \* runtime_state file: NoFile, Broken or a state
    turn,       \* where the turn is
    turnState,  \* ctx.state
    before,     \* the lines an append under way has read
    writing,    \* the block or prompt under way
    begun,      \* history: blocks whose append began since the last deletion
    appends,    \* history: number of appends begun
    whole,      \* history: no append was cut short since the last deletion
    stops       \* history: number of deaths and failing writes

files       == <<lines, partsFile, stateFile>>
jsonlGhosts == <<begun, appends, whole, stops>>
jsonlVars   == <<files, turn, turnState, before, writing, jsonlGhosts>>

\* A line that was not written to its end: json.loads raises on it.
Torn == NoBlock

JsonlTypeOK ==
    /\ lines \in Seq(Blocks \cup {Torn}) /\ before \in Seq(Blocks)
    /\ partsFile \in PartContents \cup {NoFile, Broken}
    /\ stateFile \in JsonStates \cup {NoFile, Broken}
    /\ turn \in {"idle", "read", "handler", "append", "write", "upsert",
                 "delete", "persist", "dump", "down"}
    /\ turnState \in JsonStates \cup {NotJson}
    /\ writing \in Blocks \cup {NoBlock} \cup PartContents
    /\ begun \in Seq(Blocks) /\ appends \in 0..AppendLimit
    /\ whole \in BOOLEAN /\ stops \in 0..StopLimit

JsonlInit ==
    /\ lines = <<>> /\ partsFile = NoFile /\ stateFile = NoFile
    /\ turn = "idle" /\ turnState = InitialState
    /\ before = <<>> /\ writing = NoBlock
    /\ begun = <<>> /\ appends = 0 /\ whole = TRUE /\ stops = 0

Intact(q) == \A i \in DOMAIN q : q[i] # Torn

\* What is in a file that was truncated and then written up to some point.
CutShort(q) ==
    {<<>>} \cup UNION {{SubSeq(q, 1, n), Append(SubSeq(q, 1, n), Torn)} : n \in 0..Len(q) - 1}

Stop == stops < StopLimit /\ stops' = stops + 1
-----------------------------------------------------------------------------
(* A turn begins: initialize_context.                                      *)

LoadRuntimeState ==
    /\ turn = "idle"
    /\ IF stateFile = Broken
       THEN turn' = "down" /\ UNCHANGED turnState
       ELSE turn' = "read" /\ turnState' = IF stateFile = NoFile THEN InitialState ELSE stateFile
    /\ UNCHANGED <<files, before, writing, jsonlGhosts>>

\* Variant: a torn line is skipped.
ReadContextSnapshotLenient ==
    /\ turn = "read"
    /\ turn' = IF partsFile # Broken THEN "handler" ELSE "down"
    /\ UNCHANGED <<files, turnState, before, writing, jsonlGhosts>>

\* Only the lines asked for are parsed; the parts are parsed as a whole.
ReadContextSnapshot ==
    /\ turn = "read"
    /\ turn' = IF Intact(Snapshot(lines, ReadLimit)) /\ partsFile # Broken
               THEN "handler" ELSE "down"
    /\ UNCHANGED <<files, turnState, before, writing, jsonlGhosts>>
-----------------------------------------------------------------------------
(* The handler.  An operation that raises leaves it where it was: it goes  *)
(* on, or ends the turn with TurnRaises.                                   *)

\* Variant: the file is truncated before it is read.
BeginAppendAfterTruncating ==
    /\ turn = "handler"
    /\ appends < AppendLimit
    /\ Intact(lines)
    /\ \E tok \in TokenCounts : writing' = [id |-> appends + 1, tok |-> tok]
    /\ appends' = appends + 1
    /\ begun' = Append(begun, writing')
    /\ before' = <<>>
    /\ turn' = "append"
    /\ UNCHANGED <<files, turnState, whole, stops>>

\* append_context_block reads every line, and raises on a torn one.
BeginAppend ==
    /\ turn = "handler"
    /\ appends < AppendLimit
    /\ Intact(lines)
    /\ \E tok \in TokenCounts : writing' = [id |-> appends + 1, tok |-> tok]
    /\ appends' = appends + 1
    /\ begun' = Append(begun, writing')
    /\ before' = lines
    /\ turn' = "append"
    /\ UNCHANGED <<files, turnState, whole, stops>>

\* open(path, "w"), which may fail and then changes nothing.
Truncate ==
    /\ turn = "append"
    /\ \/ /\ lines' = <<>> /\ turn' = "write"
          /\ UNCHANGED <<before, writing, whole, stops>>
       \/ /\ Stop /\ turn' = "handler" /\ whole' = FALSE
          /\ before' = <<>> /\ writing' = NoBlock
          /\ UNCHANGED lines
    /\ UNCHANGED <<partsFile, stateFile, turnState, begun, appends>>

\* Variant: the new block is written first.
WriteLinesNewestFirst ==
    /\ turn = "write"
    /\ lines' = Trim(<<writing>> \o before)
    /\ turn' = "handler"
    /\ before' = <<>> /\ writing' = NoBlock
    /\ UNCHANGED <<partsFile, stateFile, turnState, jsonlGhosts>>

\* The trimmed lines are written, or the write fails on the way.
WriteLines ==
    LET target == Trim(Append(before, writing)) IN
    /\ turn = "write"
    /\ \/ lines' = target /\ UNCHANGED <<whole, stops>>
       \/ Stop /\ lines' \in CutShort(target) /\ whole' = FALSE
    /\ turn' = "handler"
    /\ before' = <<>> /\ writing' = NoBlock
    /\ UNCHANGED <<partsFile, stateFile, turnState, begun, appends>>

\* upsert_system_part reads the parts, and raises when they are broken; the
\* truncated file is one that json.load refuses.  An open that fails
\* changes nothing and is no step.
BeginUpsert ==
    /\ turn = "handler"
    /\ partsFile # Broken
    /\ writing' \in PartContents
    /\ partsFile' = Broken
    /\ turn' = "upsert"
    /\ UNCHANGED <<lines, stateFile, turnState, before, jsonlGhosts>>

EndUpsert ==
    /\ turn = "upsert"
    /\ \/ partsFile' = writing /\ UNCHANGED stops
       \/ Stop /\ UNCHANGED partsFile
    /\ turn' = "handler"
    /\ writing' = NoBlock
    /\ UNCHANGED <<lines, stateFile, turnState, before, begun, appends, whole>>

\* delete_context_history removes one file, then the other.  The manager
\* swallows the exception of a failing removal.
DeleteLines ==
    /\ turn = "handler"
    /\ \/ /\ lines' = <<>> /\ begun' = <<>> /\ whole' = TRUE
          /\ turn' = "delete"
          /\ UNCHANGED stops
       \/ Stop /\ UNCHANGED <<lines, begun, whole, turn>>
    /\ UNCHANGED <<partsFile, stateFile, turnState, before, writing, appends>>

DeleteParts ==
    /\ turn = "delete"
    /\ \/ partsFile' = NoFile /\ UNCHANGED stops
       \/ Stop /\ UNCHANGED partsFile
    /\ turn' = "handler"
    /\ UNCHANGED <<lines, stateFile, turnState, before, writing, begun, appends, whole>>

ChangeState ==
    /\ turn = "handler"
    /\ turnState' \in JsonStates \cup {NotJson}
    /\ UNCHANGED <<files, turn, before, writing, jsonlGhosts>>
-----------------------------------------------------------------------------
(* The turn ends: persist_context, which logs what persisting raises.      *)

TurnReturns ==
    /\ turn = "handler"
    /\ turn' = "persist"
    /\ UNCHANGED <<files, turnState, before, writing, jsonlGhosts>>

TurnRaises ==
    /\ turn = "handler"
    /\ turn' = "down"
    /\ UNCHANGED <<files, turnState, before, writing, jsonlGhosts>>

\* persist_runtime_state: open(path, "w") comes first, or fails.
TruncateState ==
    /\ turn = "persist"
    /\ \/ stateFile' = Broken /\ turn' = "dump" /\ UNCHANGED stops
       \/ Stop /\ turn' = "idle" /\ UNCHANGED stateFile
    /\ UNCHANGED <<lines, partsFile, turnState, before, writing, begun, appends, whole>>

\* json.dump writes as it goes, up to the value it refuses.
DumpState ==
    /\ turn = "dump"
    /\ \/ turnState # NotJson /\ stateFile' = turnState /\ UNCHANGED stops
       \/ turnState = NotJson /\ UNCHANGED <<stateFile, stops>>
       \/ Stop /\ UNCHANGED stateFile
    /\ turn' = "idle"
    /\ UNCHANGED <<lines, partsFile, turnState, before, writing, begun, appends, whole>>
-----------------------------------------------------------------------------
\* The process dies; what it was writing is in the file up to some point.
Dies ==
    /\ turn # "down"
    /\ Stop
    /\ turn' = "down"
    /\ IF turn = "write"
       THEN lines' \in CutShort(Trim(Append(before, writing)))
       ELSE UNCHANGED lines
    /\ whole' = (whole /\ turn \notin {"append", "write"})
    /\ before' = <<>> /\ writing' = NoBlock
    /\ UNCHANGED <<partsFile, stateFile, turnState, begun, appends>>

\* The operator starts the program again.  The gateway has forgotten which
\* logical id it had given the user and makes a new one, and the session is
\* named by it: the files of the old session stay where they are, unread,
\* and the variables speak of the new session, which has none.
Restart ==
    /\ turn = "down"
    /\ turn' = "idle"
    /\ turnState' = InitialState
    /\ lines' = <<>> /\ partsFile' = NoFile /\ stateFile' = NoFile
    /\ begun' = <<>> /\ whole' = TRUE
    /\ UNCHANGED <<before, writing, appends, stops>>

JsonlNext ==
    \/ LoadRuntimeState \/ ReadContextSnapshot
    \/ BeginAppend \/ Truncate \/ WriteLines
    \/ BeginUpsert \/ EndUpsert \/ DeleteLines \/ DeleteParts
    \/ ChangeState \/ TurnReturns \/ TurnRaises \/ TruncateState \/ DumpState
    \/ Dies \/ Restart

JsonlSpec == JsonlInit /\ [][JsonlNext]_jsonlVars
-----------------------------------------------------------------------------
FileAtRest == turn \notin {"append", "write"}

\* Blocks of `arrived` in their order, none twice; only the last line is torn.
InOrder(q, arrived) ==
    \A i \in DOMAIN q :
        /\ i < Len(q) => q[i] # Torn
        /\ q[i] # Torn => q[i] \in arrived
        /\ \A j \in DOMAIN q : i < j /\ q[j] # Torn => q[i].id < q[j].id

(* Whatever dies or fails, the file shows appended blocks in their order   *)
(* and none twice, and only its last line may be torn: it has gaps where   *)
(* an interrupted rewrite lost the newest blocks (those written before     *)
(* included) and a later append went on, but no mixture of old and new.    *)
(* As long as no append was cut short, however often other operations      *)
(* were, it is the window the limits ask for.  (Types included.)           *)
LinesInOrder ==
    /\ JsonlTypeOK
    /\ FileAtRest /\ whole => lines = LongestFitting(begun)
    /\ InOrder(lines, Range(begun))

\* The window while an append is under way is what it was before.
Window == IF turn = "write" THEN before ELSE lines

JsonlRecent == INSTANCE RecentHistory
            WITH Sessions <- {"session"}, recent <- [s \in {"session"} |-> Window]

(* Until an append is cut short, the window changes only where the promise *)
(* lets it, by the append as a whole or by the deletion: a reader of the   *)
(* old file and of the new one sees nothing in between.  A restart turns   *)
(* to another session.                                                     *)
ImplementsUnlessCutShort ==
    [][whole' => \/ WriteLines /\ JsonlRecent!AppendBlock("session", writing)
                 \/ DeleteLines /\ JsonlRecent!DeleteHistory("session")
                 \/ Restart
                 \/ UNCHANGED Window]_jsonlVars

Readable == Intact(lines) /\ partsFile # Broken /\ stateFile # Broken

(* A turn that begins on a session one of whose files cannot be read never *)
(* reaches the handler, in which alone the file could be repaired: it ends *)
(* the consumer loop, and with it the turns of every user of the process,  *)
(* and it leaves the file as it was.                                       *)
UnreadableEndsLoop ==
    [][~Readable /\ turn \in {"idle", "read"}
         => ~Readable' /\ turn' \in {"read", "down"}]_jsonlVars
=============================================================================
