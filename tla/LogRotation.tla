---------------------------- MODULE LogRotation ----------------------------
(* The structured log: threads of several processes append lines to        *)
(* debug_trace.jsonl and rotate it into numbered backups (JSONLStorageEngine *)
(* of src/observability_hub/jsonl/storage.py), and a terminal follows the    *)
(* file (CLILogTailer of src/observability_hub/cli/tailer.py).               *)
(*                                                                          *)
(* A file is its inode, a number handed out in the order of creation; names  *)
(* 0 (the main file) to LastName (the oldest backup) hold an inode or 0.  A  *)
(* line is its writer and its number, and takes any of LineSizes bytes.  The *)
(* lock of the engine is an object of one process: the parent and the worker *)
(* QFAOS.run starts each have one, for the same directory.  Each look at the *)
(* directory, each os.replace, each open and each write is a step of its own. *)
(***************************************************************************)
EXTENDS Integers, Sequences, FiniteSets

CONSTANTS Threads,     \* threads that record
          Processes,   \* processes that share the log directory
          Homes,       \* the deployments: functions from Threads to Processes
          BackupCount, \* backup_count
          MaxBytes,    \* max_bytes
          LineSizes,   \* the bytes a serialised record may take
          LongestLine, \* the most of them
          MaxRecords,  \* records per thread, a bound of the model
          MaxFaults,   \* kills, failing renames and writes, a bound of the model
          Nobody       \* no thread

ASSUME LogAssumption ==
  /\ BackupCount \in Nat /\ MaxBytes \in Nat /\ MaxRecords \in Nat /\ MaxFaults \in Nat
  /\ LongestLine \in Nat /\ LineSizes \subseteq 1 .. LongestLine
  /\ IsFiniteSet(Processes) /\ Homes \subseteq [Threads -> Processes]
  /\ Nobody \notin Threads

VARIABLES
  home,     \* the process of each thread
  lock,     \* the holder of each process's _lock
  files,    \* the directory: name -> inode, 0 when there is no such file
  lines,    \* the lines of every inode created so far
  size,     \* the bytes of each of them, its st_size
  pc,       \* where each thread is in write_record
  index,    \* i of the loop of _rotate_if_needed
  handle,   \* the file a thread has opened for appending
  written,  \* records each thread is done with
  faults,   \* faults so far
  warned,   \* warnings that a rotation failed
  tailer,   \* the tailer: where it is, the inode it compares, file and position
  shown     \* the lines it has shown

logVars    == <<home, lock, files, lines, size, pc, index, handle, written, faults, warned>>
tailerVars == <<tailer, shown>>
vars       == <<logVars, tailerVars>>

\* backup_count 0 still renames the main file to .1.
LastName == IF BackupCount = 0 THEN 1 ELSE BackupCount
Names    == 0 .. LastName
Line     == [by : Threads, n : Nat]
Kept     == {files[i] : i \in Names} \ {0}

TypeOK ==
  /\ home \in Homes
  /\ lock \in [Processes -> Threads \cup {Nobody}]
  /\ lines \in Seq(Seq(Line))
  /\ size \in Seq(Nat) /\ Len(size) = Len(lines)
  /\ files \in [Names -> 0 .. Len(lines)]
  /\ pc \in [Threads -> {"idle", "check", "shift", "move", "open", "write"}]
  /\ index \in [Threads -> 0 .. LastName]
  /\ handle \in [Threads -> 0 .. Len(lines)]
  /\ written \in [Threads -> Nat]
  /\ faults \in 0 .. MaxFaults
  /\ warned \in Nat
  /\ tailer \in [pc : {"exists", "open", "seek", "read", "compare", "dead"},
                 ino : 0 .. Len(lines), fd : 0 .. Len(lines), pos : Nat]
  /\ shown \in Seq(Line)

Init ==
  /\ home \in Homes
  /\ lock = [p \in Processes |-> Nobody]
  /\ files = [i \in Names |-> 0]
  /\ lines = << >>
  /\ size = << >>
  /\ pc = [t \in Threads |-> "idle"]
  /\ index = [t \in Threads |-> 0]
  /\ handle = [t \in Threads |-> 0]
  /\ written = [t \in Threads |-> 0]
  /\ faults = 0
  /\ warned = 0
  /\ tailer = [pc |-> "exists", ino |-> 0, fd |-> 0, pos |-> 0]
  /\ shown = << >>

----------------------------------------------------------------------------
(* write_record and _rotate_if_needed.                                      *)

\* Variant: the size is checked and the files are renamed without the lock.
BeginUnlocked(t) ==
  /\ pc[t] = "idle" /\ written[t] < MaxRecords
  /\ pc' = [pc EXCEPT ![t] = "check"]
  /\ UNCHANGED <<home, lock, files, lines, size, index, handle, written, faults, warned, tailerVars>>

\* with self._lock
Begin(t) ==
  /\ pc[t] = "idle" /\ written[t] < MaxRecords
  /\ lock[home[t]] = Nobody
  /\ lock' = [lock EXCEPT ![home[t]] = t]
  /\ pc' = [pc EXCEPT ![t] = "check"]
  /\ UNCHANGED <<home, files, lines, size, index, handle, written, faults, warned, tailerVars>>

\* Variant: a file that has just reached max_bytes is not full yet.
CheckSizeStrict(t) ==
  /\ pc[t] = "check"
  /\ LET full == files[0] # 0 /\ size[files[0]] > MaxBytes IN
       /\ pc' = [pc EXCEPT ![t] = IF full THEN "shift" ELSE "open"]
       /\ index' = [index EXCEPT ![t] = LastName - 1]
  /\ UNCHANGED <<home, lock, files, lines, size, handle, written, faults, warned, tailerVars>>

\* A missing main file, or one that is not full, is left where it is.
CheckSize(t) ==
  /\ pc[t] = "check"
  /\ LET full == files[0] # 0 /\ size[files[0]] >= MaxBytes IN
       /\ pc' = [pc EXCEPT ![t] = IF full THEN "shift" ELSE "open"]
       /\ index' = [index EXCEPT ![t] = LastName - 1]
  /\ UNCHANGED <<home, lock, files, lines, size, handle, written, faults, warned, tailerVars>>

\* src.exists(): a missing backup is passed over.
Look(t) ==
  /\ pc[t] = "shift" /\ index[t] > 0
  /\ IF files[index[t]] = 0
       THEN index' = [index EXCEPT ![t] = @ - 1] /\ UNCHANGED pc
       ELSE pc' = [pc EXCEPT ![t] = "move"] /\ UNCHANGED index
  /\ UNCHANGED <<home, lock, files, lines, size, handle, written, faults, warned, tailerVars>>

Renamed(i) == [files EXCEPT ![i] = 0, ![i + 1] = files[i]]

\* os.replace(src, dst); when src has gone the rotation is given up.
Move(t) ==
  /\ pc[t] = "move"
  /\ IF files[index[t]] # 0
       THEN /\ files' = Renamed(index[t])
            /\ index' = [index EXCEPT ![t] = @ - 1]
            /\ pc' = [pc EXCEPT ![t] = "shift"]
            /\ UNCHANGED warned
       ELSE /\ pc' = [pc EXCEPT ![t] = "open"]
            /\ warned' = warned + 1
            /\ UNCHANGED <<files, index>>
  /\ UNCHANGED <<home, lock, lines, size, handle, written, faults, tailerVars>>

\* Variant: the backups stay, and the main file gets the next free number.
MoveMainToFree(t) ==
  /\ pc[t] = "shift"
  /\ LET free == IF files[1] = 0 THEN 1 ELSE LastName IN
       files' = [files EXCEPT ![0] = 0, ![free] = files[0]]
  /\ pc' = [pc EXCEPT ![t] = "open"]
  /\ UNCHANGED <<home, lock, lines, size, index, handle, written, faults, warned, tailerVars>>

\* The main file becomes .1; when it has gone the exception is caught.
MoveMain(t) ==
  /\ pc[t] = "shift" /\ index[t] = 0
  /\ IF files[0] # 0
       THEN files' = Renamed(0) /\ UNCHANGED warned
       ELSE warned' = warned + 1 /\ UNCHANGED files
  /\ pc' = [pc EXCEPT ![t] = "open"]
  /\ UNCHANGED <<home, lock, lines, size, index, handle, written, faults, tailerVars>>

\* An os.replace fails: a warning, and the line goes to the file as it is.
ReplaceFails(t) ==
  /\ pc[t] = "move" \/ (pc[t] = "shift" /\ index[t] = 0)
  /\ faults < MaxFaults
  /\ faults' = faults + 1
  /\ warned' = warned + 1
  /\ pc' = [pc EXCEPT ![t] = "open"]
  /\ UNCHANGED <<home, lock, files, lines, size, index, handle, written, tailerVars>>

\* open(self.log_file, "a") creates the main file when there is none.
Open(t) ==
  /\ pc[t] = "open"
  /\ IF files[0] # 0
       THEN /\ handle' = [handle EXCEPT ![t] = files[0]]
            /\ UNCHANGED <<files, lines, size>>
       ELSE /\ lines' = Append(lines, << >>)
            /\ size' = Append(size, 0)
            /\ files' = [files EXCEPT ![0] = Len(lines) + 1]
            /\ handle' = [handle EXCEPT ![t] = Len(lines) + 1]
  /\ pc' = [pc EXCEPT ![t] = "write"]
  /\ UNCHANGED <<home, lock, index, written, faults, warned, tailerVars>>

\* The line goes to the opened file, whatever its name is by now.
Write(t) ==
  /\ pc[t] = "write"
  /\ lines' = [lines EXCEPT ![handle[t]] = Append(@, [by |-> t, n |-> written[t] + 1])]
  /\ \E b \in LineSizes : size' = [size EXCEPT ![handle[t]] = @ + b]
  /\ written' = [written EXCEPT ![t] = @ + 1]
  /\ handle' = [handle EXCEPT ![t] = 0]
  /\ pc' = [pc EXCEPT ![t] = "idle"]
  /\ lock' = [lock EXCEPT ![home[t]] = Nobody]
  /\ UNCHANGED <<home, files, index, faults, warned, tailerVars>>

\* open or write fails: the error is logged elsewhere and the line is lost.
WriteFails(t) ==
  /\ pc[t] \in {"open", "write"} /\ faults < MaxFaults
  /\ faults' = faults + 1
  /\ written' = [written EXCEPT ![t] = @ + 1]
  /\ handle' = [handle EXCEPT ![t] = 0]
  /\ pc' = [pc EXCEPT ![t] = "idle"]
  /\ lock' = [lock EXCEPT ![home[t]] = Nobody]
  /\ UNCHANGED <<home, files, lines, size, index, warned, tailerVars>>

\* A process ends anywhere and is started again, with a new lock.
Kill(p) ==
  /\ faults < MaxFaults
  /\ faults' = faults + 1
  /\ lock[p] # Nobody
  /\ LET reset(f, v) == [t \in Threads |-> IF home[t] = p THEN v ELSE f[t]] IN
       /\ pc' = reset(pc, "idle")
       /\ handle' = reset(handle, 0)
  /\ lock' = [lock EXCEPT ![p] = Nobody]
  /\ UNCHANGED <<home, files, lines, size, index, written, warned, tailerVars>>

----------------------------------------------------------------------------
(* CLILogTailer.tail.                                                       *)

\* exists and os.stat: the inode to compare with.
TailExists ==
  /\ tailer.pc = "exists" /\ files[0] # 0
  /\ tailer' = [tailer EXCEPT !.pc = "open", !.ino = files[0]]
  /\ UNCHANGED <<logVars, shown>>

\* open raises, and nothing catches it, when the file was renamed just now.
TailOpen ==
  /\ tailer.pc = "open"
  /\ tailer' = [tailer EXCEPT !.pc = IF files[0] # 0 THEN "seek" ELSE "dead", !.fd = files[0]]
  /\ UNCHANGED <<logVars, shown>>

\* Variant: a reopened file is read from its beginning.
TailSeekStart ==
  /\ tailer.pc = "seek"
  /\ tailer' = [tailer EXCEPT !.pc = "read", !.pos = 0]
  /\ UNCHANGED <<logVars, shown>>

\* f.seek(0, 2)
TailSeek ==
  /\ tailer.pc = "seek"
  /\ tailer' = [tailer EXCEPT !.pc = "read", !.pos = Len(lines[tailer.fd])]
  /\ UNCHANGED <<logVars, shown>>

\* readline: a line is shown, an empty string leads to the comparison.
TailRead ==
  /\ tailer.pc = "read"
  /\ IF tailer.pos < Len(lines[tailer.fd])
       THEN /\ shown' = Append(shown, lines[tailer.fd][tailer.pos + 1])
            /\ tailer' = [tailer EXCEPT !.pos = @ + 1]
       ELSE /\ tailer' = [tailer EXCEPT !.pc = "compare"]
            /\ UNCHANGED shown
  /\ UNCHANGED logVars

\* Variant: the inode is never compared again.
TailNeverReopens ==
  /\ tailer.pc = "compare"
  /\ tailer' = [tailer EXCEPT !.pc = "read"]
  /\ UNCHANGED <<logVars, shown>>

\* Another inode under the name: reopen.  No file for the moment: keep reading.
TailCompare ==
  /\ tailer.pc = "compare"
  /\ tailer' = [tailer EXCEPT !.pc = IF files[0] \in {0, tailer.ino} THEN "read" ELSE "exists"]
  /\ UNCHANGED <<logVars, shown>>

Record(t) == Begin(t) \/ CheckSize(t) \/ Look(t) \/ Move(t) \/ MoveMain(t) \/ Open(t) \/ Write(t)
Follow    == TailExists \/ TailOpen \/ TailSeek \/ TailRead \/ TailCompare
\* Everything is recorded; the tailer has died, or waits for a main file.
Finished  == /\ \A t \in Threads : pc[t] = "idle" /\ written[t] = MaxRecords
             /\ tailer.pc = "dead" \/ (tailer.pc = "exists" /\ files[0] = 0)
             /\ UNCHANGED vars

Next == \/ \E t \in Threads : Record(t) \/ ReplaceFails(t) \/ WriteFails(t)
        \/ \E p \in Processes : Kill(p)
        \/ Follow
        \/ Finished

\* Threads run on, and the tailer polls for ever.
Fairness == (\A t \in Threads : WF_vars(Record(t))) /\ WF_vars(Follow)

Spec == Init /\ [][Next]_vars /\ Fairness

----------------------------------------------------------------------------
\* Read from the oldest backup to the main file, the lines of one thread are
\* in the order it wrote them, whichever processes rotate at the same time.
LinesInOrder ==
  \A i, j \in Names : files[i] # 0 /\ files[j] # 0 =>
    \A k \in 1 .. Len(lines[files[i]]), l \in 1 .. Len(lines[files[j]]) :
      LET old == lines[files[i]][k]
          new == lines[files[j]][l] IN
        old.by = new.by /\ (i > j \/ (i = j /\ k < l)) => old.n < new.n

Alone == \A t, u \in Threads : home[t] = home[u]

OldestIsDropped == \A f \in Kept : \A g \in f .. Len(lines) : g \in Kept

\* With one process, whichever of its threads rotates, is killed half-way or
\* fails to rename, what is dropped is always older than all that is kept.
OldestIsDroppedWhenAlone == Alone => OldestIsDropped

Sharers == {home[t] : t \in Threads}

\* The size is compared before the line is written: a file ends less than one
\* line above max_bytes in one process, and every other process that shares the
\* directory, and every warning that a rotation failed, may add one line more,
\* whatever is killed and when.
FilesAreBounded ==
  \A i \in Names : files[i] # 0 =>
    size[files[i]] <= (IF MaxBytes = 0 THEN 0 ELSE MaxBytes - 1)
                      + LongestLine * (warned + Cardinality(Sharers))

\* What the terminal shows of a thread comes in the order it was written, and
\* nothing twice, however often the file is reopened.
ShownInOrder ==
  \A k, l \in 1 .. Len(shown) : k < l /\ shown[k].by = shown[l].by => shown[k].n < shown[l].n

\* A tailer that is alive ends up at the end of the main file, if there is one,
\* however often the file was rotated under it.
TailerCatchesUp ==
  <>[]\/ tailer.pc = "dead" \/ files[0] = 0
      \/ /\ tailer.fd # 0 /\ tailer.fd = files[0]
         /\ tailer.pos = Len(lines[tailer.fd])

----------------------------------------------------------------------------
\* storage.py says of backup_count that the oldest file is the one overwritten
\* and dropped.  Two processes that rotate at once overwrite a younger one.
OnlyOldestIsDropped == OldestIsDropped
=============================================================================
