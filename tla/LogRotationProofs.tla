------------------------- MODULE LogRotationProofs -------------------------
(* Theorems about LogRotation, for any threads, processes, deployments,       *)
(* limits, kills and failures.                                               *)
(*                                                                          *)
(* The invariant says where lines are.  Inodes are numbered in the order of   *)
(* creation, the name of the main file is free or holds the newest inode, and *)
(* a rename moves a file one name up, whoever makes it: so the names stay     *)
(* sorted by age (Sorted), also when two processes rename at once.  A thread   *)
(* that is about to write has opened an inode not older than any that holds    *)
(* its lines (OpenedLast), and so its lines are ordered by inode and place     *)
(* (Ordered).  The tailer only ever moves forward in that order (TailedSoFar). *)
(*                                                                          *)
(* The names are what DirectoryInv adds.  The lock lets one thread of a        *)
(* process rotate (LockHeld), so with one process the name above the one it    *)
(* has come to is free (ShiftedAbove) and a rename drops the oldest file or     *)
(* none.  With several, a file is judged by its lines and by the processes     *)
(* that are about to write to it (Crowd): each was let in while the file was    *)
(* not full, or was warned.                                                    *)
(***************************************************************************)
EXTENDS LogRotation, FiniteSetTheorems, TLAPS

Inodes    == 1 .. Len(lines)
Places(f) == 1 .. Len(lines[f])

Sorted == \A i, j \in Names :
  i > j /\ files[i] # 0 /\ files[j] # 0 => files[i] < files[j]

NewestIsMain == files[0] \in {0, Len(lines)}

Counted == \A f \in Inodes : \A k \in Places(f) : lines[f][k].n <= written[lines[f][k].by]

Ordered == \A f, g \in Inodes : \A k \in Places(f), l \in Places(g) :
  lines[f][k].by = lines[g][l].by /\ (f < g \/ (f = g /\ k < l)) => lines[f][k].n < lines[g][l].n

OpenedLast == \A t \in Threads : pc[t] = "write" =>
  /\ handle[t] # 0
  /\ \A f \in Inodes : \A k \in Places(f) : lines[f][k].by = t => f <= handle[t]

TailerPlace ==
  /\ tailer.pc \in {"seek", "read", "compare"} => tailer.fd # 0
  /\ tailer.pc \in {"read", "compare"} => tailer.pos <= Len(lines[tailer.fd])

\* The place of a line that was shown lies before the one that is read next.
Before(f, k) ==
  /\ tailer.pc \in {"read", "compare"} => f < tailer.fd \/ (f = tailer.fd /\ k <= tailer.pos)
  /\ tailer.pc = "seek" => f <= tailer.fd

TailedSoFar == \A i \in 1 .. Len(shown) :
  \E f \in Inodes : \E k \in Places(f) : lines[f][k] = shown[i] /\ Before(f, k)

\* The loop counts down from backup_count - 1.
Shifting == \A t \in Threads : pc[t] \in {"shift", "move"} =>
  index[t] <= LastName - 1 /\ (pc[t] = "move" => index[t] # 0)

LogInv    == TypeOK /\ Shifting /\ Sorted /\ NewestIsMain /\ Counted /\ Ordered /\ OpenedLast
RotateInv == LogInv /\ TailerPlace /\ TailedSoFar /\ ShownInOrder

LEMMA NamesFact ==
  /\ LastName \in Nat /\ LastName >= 1 /\ 0 \in Names /\ 1 \in Names
  /\ \A i \in Names : i \in Nat
BY LogAssumption DEF LastName, Names

LEMMA RotateInvInit == Init => RotateInv
<1> SUFFICES ASSUME Init PROVE RotateInv
  OBVIOUS
<1>1. lines = << >> /\ Len(lines) = 0 /\ lines \in Seq(Seq(Line)) /\ shown \in Seq(Line)
      /\ shown = << >> /\ Len(shown) = 0 /\ size \in Seq(Nat) /\ Len(size) = 0
  BY DEF Init
<1>2. TypeOK
  BY <1>1, LogAssumption, NamesFact DEF Init, TypeOK
<1>3. Shifting /\ Sorted /\ NewestIsMain /\ OpenedLast
  BY <1>1, NamesFact DEF Init, Shifting, Sorted, NewestIsMain, OpenedLast
<1>4. Counted /\ Ordered
  BY <1>1 DEF Counted, Ordered, Inodes
<1>5. TailerPlace /\ TailedSoFar /\ ShownInOrder
  BY <1>1 DEF Init, TailerPlace, TailedSoFar, ShownInOrder
<1> QED BY <1>2, <1>3, <1>4, <1>5 DEF RotateInv, LogInv

----------------------------------------------------------------------------
(* The types.                                                               *)

(* A line at the end of a file.                                             *)
LEMMA WriteIs ==
  ASSUME TypeOK, NEW t \in Threads, handle[t] # 0, Write(t)
  PROVE  LET h == handle[t]
             x == [by |-> t, n |-> written[t] + 1] IN
         /\ h \in Inodes /\ x \in Line
         /\ lines' \in Seq(Seq(Line)) /\ Len(lines') = Len(lines)
         /\ \A f \in Inodes : lines'[f] = IF f = h THEN Append(lines[h], x) ELSE lines[f]
         /\ \A f \in Inodes : Len(lines'[f]) = IF f = h THEN Len(lines[h]) + 1 ELSE Len(lines[f])
<1>1. PICK h, x : h = handle[t] /\ x = [by |-> t, n |-> written[t] + 1]
  OBVIOUS
<1>2. h \in Inodes /\ x \in Line
  BY <1>1 DEF TypeOK, Inodes, Line
<1>3. lines \in Seq(Seq(Line)) /\ lines[h] \in Seq(Line)
  BY <1>2 DEF TypeOK, Inodes
<1>4. Append(lines[h], x) \in Seq(Line) /\ Len(Append(lines[h], x)) = Len(lines[h]) + 1
  BY <1>2, <1>3
<1>5. lines' = [lines EXCEPT ![h] = Append(lines[h], x)]
  BY <1>1 DEF Write
<1>6. lines' \in Seq(Seq(Line)) /\ Len(lines') = Len(lines)
  BY <1>2, <1>3, <1>4, <1>5 DEF Inodes
<1>7. \A f \in Inodes : lines'[f] = IF f = h THEN Append(lines[h], x) ELSE lines[f]
  BY <1>2, <1>3, <1>5 DEF Inodes
<1> QED BY <1>1, <1>2, <1>4, <1>6, <1>7

(* A new file at the end of the inodes.                                     *)
LEMMA CreateIs ==
  ASSUME TypeOK, lines' = Append(lines, << >>)
  PROVE  /\ lines' \in Seq(Seq(Line)) /\ Len(lines') = Len(lines) + 1
         /\ \A f \in Inodes : lines'[f] = lines[f]
         /\ lines'[Len(lines) + 1] = << >>
<1>1. lines \in Seq(Seq(Line)) /\ << >> \in Seq(Line)
  BY DEF TypeOK
<1>2. PICK e \in Seq(Line) : e = << >> /\ lines' = Append(lines, e)
  BY <1>1
<1> QED BY <1>1, <1>2 DEF Inodes

LEMMA WarnedKeeps ==
  ASSUME warned \in Nat, [Next]_vars
  PROVE  warned' \in Nat
<1>1. ASSUME NEW t \in Threads, Move(t) \/ MoveMain(t) \/ ReplaceFails(t) PROVE warned' \in Nat
  <2>1. warned' = warned \/ warned' = warned + 1
    BY <1>1 DEF Move, MoveMain, ReplaceFails
  <2> QED BY <2>1
<1>2. ASSUME NEW t \in Threads,
             Begin(t) \/ CheckSize(t) \/ Look(t) \/ Open(t) \/ Write(t) \/ WriteFails(t)
      PROVE  warned' \in Nat
  BY <1>2 DEF Begin, CheckSize, Look, Open, Write, WriteFails
<1>3. CASE Follow \/ UNCHANGED vars
  BY <1>3 DEF Follow, TailExists, TailOpen, TailSeek, TailRead, TailCompare, vars, logVars
<1>4. ASSUME NEW p \in Processes, Kill(p) PROVE warned' \in Nat
  BY <1>4 DEF Kill
<1> QED BY <1>1, <1>2, <1>3, <1>4 DEF Next, Record, Finished

(* Every inode has its size: a new one none, and a write adds to one of them. *)
LEMMA WriteSizes ==
  ASSUME TypeOK, NEW t \in Threads, handle[t] # 0, Write(t)
  PROVE  /\ size' \in Seq(Nat) /\ Len(size') = Len(lines')
         /\ \A f \in Inodes : size'[f] \in Nat /\ size'[f] <= size[f]
                                + (IF f = handle[t] THEN LongestLine ELSE 0)
<1>1. PICK b \in LineSizes : size' = [size EXCEPT ![handle[t]] = @ + b]
  BY DEF Write
<1>2. b \in Nat /\ b <= LongestLine /\ LongestLine \in Nat
  BY LogAssumption
<1>3. size \in Seq(Nat) /\ Len(size) = Len(lines) /\ handle[t] \in Inodes
  BY DEF TypeOK, Inodes
<1>4. size' \in Seq(Nat) /\ Len(size') = Len(size)
  BY <1>1, <1>2, <1>3 DEF Inodes
<1>5. \A f \in Inodes : size[f] \in Nat /\ size'[f] = IF f = handle[t] THEN size[f] + b ELSE size[f]
  BY <1>1, <1>3 DEF Inodes
<1>6. Len(lines') = Len(lines)
  BY WriteIs
<1> QED BY <1>2, <1>3, <1>4, <1>5, <1>6

LEMMA CreateSizes ==
  ASSUME TypeOK, lines' = Append(lines, << >>), size' = Append(size, 0)
  PROVE  /\ size' \in Seq(Nat) /\ Len(size') = Len(lines')
         /\ \A f \in Inodes : size'[f] = size[f]
         /\ size'[Len(lines) + 1] = 0
<1>1. Len(lines') = Len(lines) + 1
  BY CreateIs
<1> QED BY <1>1 DEF TypeOK, Inodes

LEMMA SizesKeep ==
  ASSUME TypeOK, OpenedLast, [Next]_vars
  PROVE  size' \in Seq(Nat) /\ Len(size') = Len(lines')
<1>1. ASSUME UNCHANGED <<lines, size>> PROVE size' \in Seq(Nat) /\ Len(size') = Len(lines')
  BY <1>1 DEF TypeOK
<1>2. ASSUME NEW t \in Threads, Open(t) PROVE size' \in Seq(Nat) /\ Len(size') = Len(lines')
  <2>1. CASE files[0] # 0
    BY <1>1, <1>2, <2>1 DEF Open
  <2>2. CASE files[0] = 0
    <3>1. lines' = Append(lines, << >>) /\ size' = Append(size, 0)
      BY <1>2, <2>2 DEF Open
    <3> QED BY <3>1, CreateSizes
  <2> QED BY <2>1, <2>2
<1>3. ASSUME NEW t \in Threads, Write(t) PROVE size' \in Seq(Nat) /\ Len(size') = Len(lines')
  <2>1. handle[t] # 0
    BY <1>3 DEF Write, OpenedLast
  <2> QED BY <1>3, <2>1, WriteSizes
<1>4. ASSUME NEW t \in Threads,
             Begin(t) \/ CheckSize(t) \/ Look(t) \/ Move(t) \/ MoveMain(t) \/ ReplaceFails(t)
             \/ WriteFails(t)
      PROVE  UNCHANGED <<lines, size>>
  BY <1>4 DEF Begin, CheckSize, Look, Move, MoveMain, ReplaceFails, WriteFails
<1>5. ASSUME NEW p \in Processes, Kill(p) PROVE UNCHANGED <<lines, size>>
  BY <1>5 DEF Kill
<1>6. CASE Follow \/ UNCHANGED vars
  BY <1>1, <1>6 DEF Follow, TailExists, TailOpen, TailSeek, TailRead, TailCompare, vars, logVars
<1> QED BY <1>1, <1>2, <1>3, <1>4, <1>5, <1>6 DEF Next, Record, Finished

LEMMA TypesKeep ==
  ASSUME TypeOK, Shifting, OpenedLast, TailerPlace, [Next]_vars
  PROVE  TypeOK' /\ Shifting'
<1>a. /\ LastName \in Nat /\ LastName >= 1 /\ 0 \in Names /\ MaxFaults \in Nat
      /\ Len(lines) \in Nat
  BY NamesFact, LogAssumption DEF TypeOK
<1>b. home \in [Threads -> Processes]
  BY LogAssumption DEF TypeOK
<1>w. warned' \in Nat
  BY WarnedKeeps DEF TypeOK
<1>z. size' \in Seq(Nat) /\ Len(size') = Len(lines')
  BY SizesKeep
<1>s1. /\ pc \in [Threads -> {"idle", "check", "shift", "move", "open", "write"}]
       /\ index \in [Threads -> 0 .. LastName] /\ handle \in [Threads -> 0 .. Len(lines)]
  BY DEF TypeOK
<1>s2. /\ written \in [Threads -> Nat] /\ files \in [Names -> 0 .. Len(lines)]
       /\ lines \in Seq(Seq(Line)) /\ faults \in 0 .. MaxFaults
  BY DEF TypeOK
<1>s3. lock \in [Processes -> Threads \cup {Nobody}]
  BY DEF TypeOK
<1>s. /\ pc \in [Threads -> {"idle", "check", "shift", "move", "open", "write"}]
      /\ index \in [Threads -> 0 .. LastName] /\ handle \in [Threads -> 0 .. Len(lines)]
      /\ written \in [Threads -> Nat] /\ files \in [Names -> 0 .. Len(lines)]
      /\ lines \in Seq(Seq(Line)) /\ faults \in 0 .. MaxFaults
      /\ lock \in [Processes -> Threads \cup {Nobody}]
  BY <1>s1, <1>s2, <1>s3
\* A step of one thread.
<1>1. ASSUME NEW t \in Threads,
             pc' \in [Threads -> {"idle", "check", "shift", "move", "open", "write"}],
             index' \in [Threads -> 0 .. LastName], handle' \in [Threads -> 0 .. Len(lines')],
             written' \in [Threads -> Nat], lock' \in [Processes -> Threads \cup {Nobody}],
             faults' \in 0 .. MaxFaults, lines' \in Seq(Seq(Line)), Len(lines') >= Len(lines),
             files' \in [Names -> 0 .. Len(lines')], UNCHANGED <<home, tailerVars>>,
             \A u \in Threads : u # t => pc'[u] = pc[u] /\ index'[u] = index[u],
             pc'[t] \in {"shift", "move"} =>
               index'[t] <= LastName - 1 /\ (pc'[t] = "move" => index'[t] # 0)
      PROVE  TypeOK' /\ Shifting'
  <2>0. Len(lines') \in Nat
    BY <1>1
  <2>1. \A x \in 0 .. Len(lines) : x \in 0 .. Len(lines')
    BY <1>1, <1>a, <2>0
  <2>2. /\ tailer \in [pc : {"exists", "open", "seek", "read", "compare", "dead"},
                       ino : 0 .. Len(lines), fd : 0 .. Len(lines), pos : Nat]
        /\ home \in Homes /\ shown \in Seq(Line)
    BY DEF TypeOK
  <2>3. tailer' = tailer /\ home' = home /\ shown' = shown
    BY <1>1 DEF tailerVars
  <2>4. tailer' \in [pc : {"exists", "open", "seek", "read", "compare", "dead"},
                     ino : 0 .. Len(lines'), fd : 0 .. Len(lines'), pos : Nat]
    BY <2>1, <2>2, <2>3
  <2>5. TypeOK'
    BY <1>1, <1>w, <1>z, <2>2, <2>3, <2>4 DEF TypeOK
  <2>6. Shifting'
    BY <1>1 DEF TypeOK, Shifting
  <2> QED BY <2>5, <2>6
\* One that leaves the content of the files alone.
<1>2. ASSUME NEW t \in Threads, UNCHANGED <<home, lines, written, tailerVars>>,
             pc' \in [Threads -> {"idle", "check", "shift", "move", "open", "write"}],
             index' \in [Threads -> 0 .. LastName], handle' \in [Threads -> 0 .. Len(lines)],
             lock' \in [Processes -> Threads \cup {Nobody}],
             faults' \in 0 .. MaxFaults, files' \in [Names -> 0 .. Len(lines)],
             \A u \in Threads : u # t => pc'[u] = pc[u] /\ index'[u] = index[u],
             pc'[t] \in {"shift", "move"} =>
               index'[t] <= LastName - 1 /\ (pc'[t] = "move" => index'[t] # 0)
      PROVE  TypeOK' /\ Shifting'
  <2>1. lines' = lines /\ written' = written /\ Len(lines') >= Len(lines)
    BY <1>2, <1>a
  <2> QED BY <1>1, <1>2, <1>s, <2>1
<1>3. ASSUME NEW t \in Threads, Begin(t) PROVE TypeOK' /\ Shifting'
  <2>1. lock' \in [Processes -> Threads \cup {Nobody}]
    BY <1>3, <1>b, <1>s DEF Begin
  <2>2. /\ pc' \in [Threads -> {"idle", "check", "shift", "move", "open", "write"}]
        /\ \A u \in Threads : u # t => pc'[u] = pc[u] /\ index'[u] = index[u]
        /\ pc'[t] = "check"
        /\ UNCHANGED <<home, lines, written, tailerVars, index, handle, faults, files>>
    BY <1>3, <1>s DEF Begin
  <2> QED BY <1>2, <1>s, <2>1, <2>2
<1>4. ASSUME NEW t \in Threads, CheckSize(t) PROVE TypeOK' /\ Shifting'
  <2>1. PICK i : i = LastName - 1
    OBVIOUS
  <2>2. i \in 0 .. LastName /\ i <= LastName - 1 /\ index' = [index EXCEPT ![t] = i]
    BY <1>4, <1>a, <2>1 DEF CheckSize
  <2>3. /\ pc' \in [Threads -> {"idle", "check", "shift", "move", "open", "write"}]
        /\ index' \in [Threads -> 0 .. LastName] /\ index'[t] <= LastName - 1
        /\ \A u \in Threads : u # t => pc'[u] = pc[u] /\ index'[u] = index[u]
        /\ pc'[t] \in {"shift", "open"}
        /\ UNCHANGED <<home, lock, lines, written, tailerVars, handle, faults, files>>
    BY <1>4, <1>s, <2>2 DEF CheckSize
  <2> QED BY <1>2, <1>s, <2>3
<1>5. ASSUME NEW t \in Threads, Look(t) PROVE TypeOK' /\ Shifting'
  <2>1. index[t] > 0 /\ index[t] <= LastName - 1 /\ index[t] \in Nat /\ pc[t] = "shift"
    BY <1>5, <1>s, <1>a DEF Look, Shifting
  <2>2. PICK i : i = index[t] - 1
    OBVIOUS
  <2>3. i \in 0 .. LastName /\ i <= LastName - 1
    BY <2>1, <2>2, <1>a
  <2>4. /\ pc' \in [Threads -> {"idle", "check", "shift", "move", "open", "write"}]
        /\ \A u \in Threads : u # t => pc'[u] = pc[u] /\ index'[u] = index[u]
        /\ \/ pc'[t] = "shift" /\ index' = [index EXCEPT ![t] = i]
           \/ pc'[t] = "move" /\ index' = index
        /\ UNCHANGED <<home, lock, lines, written, tailerVars, handle, faults, files>>
    BY <1>5, <1>s, <2>1, <2>2 DEF Look
  <2>5. /\ index' \in [Threads -> 0 .. LastName] /\ index'[t] <= LastName - 1
        /\ pc'[t] = "move" => index'[t] # 0
    BY <1>s, <2>1, <2>3, <2>4
  <2> QED BY <1>2, <1>s, <2>4, <2>5
<1>6. ASSUME NEW i \in 0 .. LastName - 1 PROVE Renamed(i) \in [Names -> 0 .. Len(lines)]
  BY <1>6, <1>a, <1>s DEF Renamed, Names
<1>7. ASSUME NEW t \in Threads, Move(t) PROVE TypeOK' /\ Shifting'
  <2>1. index[t] # 0 /\ index[t] <= LastName - 1 /\ index[t] \in Nat /\ pc[t] = "move"
    BY <1>7, <1>s, <1>a DEF Move, Shifting
  <2>2. PICK i : i = index[t] - 1
    OBVIOUS
  <2>3. i \in 0 .. LastName /\ i <= LastName - 1 /\ index[t] \in 0 .. LastName - 1
    BY <2>1, <2>2, <1>a
  <2>4. files' \in [Names -> 0 .. Len(lines)]
    BY <1>6, <1>7, <1>s, <2>3 DEF Move
  <2>5. /\ pc' \in [Threads -> {"idle", "check", "shift", "move", "open", "write"}]
        /\ \A u \in Threads : u # t => pc'[u] = pc[u] /\ index'[u] = index[u]
        /\ pc'[t] \in {"shift", "open"}
        /\ index' = [index EXCEPT ![t] = i] \/ index' = index
        /\ UNCHANGED <<home, lock, lines, written, tailerVars, handle, faults>>
    BY <1>7, <1>s, <2>1, <2>2 DEF Move
  <2>6. index' \in [Threads -> 0 .. LastName] /\ index'[t] <= LastName - 1
    BY <1>s, <2>1, <2>3, <2>5
  <2> QED BY <1>2, <1>s, <2>4, <2>5, <2>6
<1>8. ASSUME NEW t \in Threads, MoveMain(t) PROVE TypeOK' /\ Shifting'
  <2>1. 0 \in 0 .. LastName - 1
    BY <1>a
  <2>2. files' \in [Names -> 0 .. Len(lines)]
    BY <1>6, <1>8, <1>s, <2>1 DEF MoveMain
  <2>3. /\ pc' \in [Threads -> {"idle", "check", "shift", "move", "open", "write"}]
        /\ \A u \in Threads : u # t => pc'[u] = pc[u] /\ index'[u] = index[u]
        /\ pc'[t] = "open"
        /\ UNCHANGED <<home, lock, lines, written, tailerVars, index, handle, faults>>
    BY <1>8, <1>s DEF MoveMain
  <2> QED BY <1>2, <1>s, <2>2, <2>3
<1>9. ASSUME NEW t \in Threads, Open(t) PROVE TypeOK' /\ Shifting'
  <2>1. /\ pc' \in [Threads -> {"idle", "check", "shift", "move", "open", "write"}]
        /\ \A u \in Threads : u # t => pc'[u] = pc[u] /\ index'[u] = index[u]
        /\ pc'[t] = "write"
        /\ UNCHANGED <<home, lock, written, tailerVars, index, faults>>
    BY <1>9, <1>s DEF Open
  <2>2. CASE files[0] # 0
    <3>1. files[0] \in 0 .. Len(lines)
      BY <1>a, <1>s
    <3>2. handle' \in [Threads -> 0 .. Len(lines)] /\ UNCHANGED <<files, lines>>
      BY <1>9, <1>s, <2>2, <3>1 DEF Open
    <3> QED BY <1>2, <1>s, <2>1, <3>2
  <2>3. CASE files[0] = 0
    <3>1. lines' \in Seq(Seq(Line)) /\ Len(lines') = Len(lines) + 1
      BY <1>9, <2>3, CreateIs DEF Open
    <3>2. PICK new : new = Len(lines) + 1
      OBVIOUS
    <3>3. files' = [files EXCEPT ![0] = new] /\ handle' = [handle EXCEPT ![t] = new]
      BY <1>9, <2>3, <3>2 DEF Open
    <3>4. /\ new \in 0 .. Len(lines') /\ Len(lines') >= Len(lines)
          /\ \A x \in 0 .. Len(lines) : x \in 0 .. Len(lines')
      BY <1>a, <3>1, <3>2
    <3>5. files' \in [Names -> 0 .. Len(lines')] /\ handle' \in [Threads -> 0 .. Len(lines')]
      BY <1>a, <1>s, <3>3, <3>4
    <3> QED BY <1>1, <1>s, <2>1, <3>1, <3>4, <3>5
  <2> QED BY <2>2, <2>3
<1>10. ASSUME NEW t \in Threads, NEW h \in 0 .. Len(lines), lines' \in Seq(Seq(Line)),
              Len(lines') = Len(lines), handle' = [handle EXCEPT ![t] = h],
              written' = [written EXCEPT ![t] = @ + 1], pc' = [pc EXCEPT ![t] = "idle"],
              lock' = [lock EXCEPT ![home[t]] = Nobody],
              faults' \in 0 .. MaxFaults, UNCHANGED <<home, files, index, tailerVars>>
       PROVE  TypeOK' /\ Shifting'
  <2>1. /\ lock' \in [Processes -> Threads \cup {Nobody}]
        /\ pc' \in [Threads -> {"idle", "check", "shift", "move", "open", "write"}]
        /\ \A u \in Threads : u # t => pc'[u] = pc[u] /\ index'[u] = index[u]
        /\ pc'[t] = "idle"
    BY <1>10, <1>b, <1>s
  <2>2. handle' \in [Threads -> 0 .. Len(lines')] /\ files' \in [Names -> 0 .. Len(lines')]
        /\ Len(lines') >= Len(lines)
    BY <1>10, <1>a, <1>s
  <2>3. written' \in [Threads -> Nat]
    BY <1>10, <1>s
  <2> QED BY <1>1, <1>10, <1>s, <2>1, <2>2, <2>3
<1>11. ASSUME NEW t \in Threads, Write(t) \/ ReplaceFails(t) \/ WriteFails(t)
       PROVE  TypeOK' /\ Shifting'
  <2>0. 0 \in 0 .. Len(lines)
    BY <1>a
  <2>1. CASE Write(t)
    <3>1. handle[t] # 0
      BY <2>1 DEF Write, OpenedLast
    <3>2. lines' \in Seq(Seq(Line)) /\ Len(lines') = Len(lines)
      BY <2>1, <3>1, WriteIs
    <3> QED BY <1>10, <1>s, <2>0, <2>1, <3>2 DEF Write
  <2>2. CASE ReplaceFails(t)
    <3>1. faults' \in 0 .. MaxFaults
      BY <2>2, <1>a, <1>s DEF ReplaceFails
    <3>2. /\ pc' \in [Threads -> {"idle", "check", "shift", "move", "open", "write"}]
          /\ \A u \in Threads : u # t => pc'[u] = pc[u] /\ index'[u] = index[u]
          /\ pc'[t] = "open"
          /\ UNCHANGED <<home, lock, lines, written, tailerVars, index, handle, files>>
      BY <2>2, <1>s DEF ReplaceFails
    <3> QED BY <1>2, <1>s, <3>1, <3>2
  <2>3. CASE WriteFails(t)
    <3>1. faults' \in 0 .. MaxFaults
      BY <2>3, <1>a, <1>s DEF WriteFails
    <3> QED BY <1>10, <1>s, <2>0, <2>3, <3>1 DEF WriteFails
  <2> QED BY <1>11, <2>1, <2>2, <2>3
<1>12. ASSUME NEW p \in Processes, Kill(p) PROVE TypeOK' /\ Shifting'
  <2>1. faults' \in 0 .. MaxFaults /\ lock' \in [Processes -> Threads \cup {Nobody}]
    BY <1>12, <1>a, <1>s DEF Kill
  <2>2. /\ pc' = [u \in Threads |-> IF home[u] = p THEN "idle" ELSE pc[u]]
        /\ handle' = [u \in Threads |-> IF home[u] = p THEN 0 ELSE handle[u]]
        /\ UNCHANGED <<home, files, lines, index, written, tailerVars>>
    BY <1>12 DEF Kill
  <2>3. 0 \in 0 .. Len(lines)
    BY <1>a
  <2>4. /\ pc' \in [Threads -> {"idle", "check", "shift", "move", "open", "write"}]
        /\ handle' \in [Threads -> 0 .. Len(lines)]
    BY <2>2, <2>3, <1>s
  <2>5. TypeOK'
    BY <1>w, <1>z, <2>1, <2>2, <2>4 DEF TypeOK, tailerVars
  <2>6. Shifting'
    BY <2>2 DEF Shifting
  <2> QED BY <2>5, <2>6
<1>13. CASE Follow
  <2>1. UNCHANGED logVars
    BY <1>13 DEF Follow, TailExists, TailOpen, TailSeek, TailRead, TailCompare
  <2>2. files[0] \in 0 .. Len(lines)
    BY <1>a, <1>s
  <2>3. tailer \in [pc : {"exists", "open", "seek", "read", "compare", "dead"},
                    ino : 0 .. Len(lines), fd : 0 .. Len(lines), pos : Nat]
        /\ shown \in Seq(Line)
    BY DEF TypeOK
  <2>4. tailer.pc \in {"seek", "read"} => lines[tailer.fd] \in Seq(Line)
    BY <1>s, <2>3 DEF TailerPlace
  <2>5. /\ tailer' \in [pc : {"exists", "open", "seek", "read", "compare", "dead"},
                         ino : 0 .. Len(lines), fd : 0 .. Len(lines), pos : Nat]
        /\ shown' \in Seq(Line)
    <3>1. CASE TailExists
      BY <2>2, <2>3, <3>1 DEF TailExists
    <3>2. CASE TailOpen
      BY <2>2, <2>3, <3>2 DEF TailOpen
    <3>3. CASE TailSeek
      <4>1. PICK n \in Nat : n = Len(lines[tailer.fd])
        BY <2>4, <3>3 DEF TailSeek
      <4> QED BY <2>3, <3>3, <4>1 DEF TailSeek
    <3>4. CASE TailRead
      <4>1. PICK x : x = lines[tailer.fd][tailer.pos + 1]
        OBVIOUS
      <4>2. tailer.pos < Len(lines[tailer.fd]) => x \in Line
        BY <2>3, <2>4, <3>4, <4>1 DEF TailRead
      <4>3. CASE tailer.pos < Len(lines[tailer.fd])
        <5>1. shown' = Append(shown, x) /\ x \in Line
          BY <3>4, <4>1, <4>2, <4>3 DEF TailRead
        <5>2. shown' \in Seq(Line)
          BY <2>3, <5>1
        <5>3. PICK n : n = tailer.pos + 1
          OBVIOUS
        <5>4. n \in Nat /\ tailer' = [tailer EXCEPT !.pos = n]
          BY <2>3, <3>4, <4>3, <5>3 DEF TailRead
        <5> QED BY <2>3, <5>2, <5>4
      <4>4. CASE ~(tailer.pos < Len(lines[tailer.fd]))
        BY <2>3, <3>4, <4>4 DEF TailRead
      <4> QED BY <4>3, <4>4
    <3>5. CASE TailCompare
      BY <2>3, <3>5 DEF TailCompare
    <3> QED BY <1>13, <3>1, <3>2, <3>3, <3>4, <3>5 DEF Follow
  <2>6. TypeOK'
    BY <1>w, <2>1, <2>5 DEF TypeOK, logVars
  <2>7. Shifting'
    BY <2>1 DEF Shifting, logVars
  <2> QED BY <2>6, <2>7
<1>14. CASE UNCHANGED vars
  BY <1>14 DEF TypeOK, Shifting, vars, logVars, tailerVars
<1> QED BY <1>3, <1>4, <1>5, <1>7, <1>8, <1>9, <1>11, <1>12, <1>13, <1>14
       DEF Next, Record, Finished

----------------------------------------------------------------------------
(* The names stay sorted by age, whoever renames.                           *)

LEMMA RenamedSorted ==
  ASSUME TypeOK, Sorted, NewestIsMain, NEW i \in 0 .. LastName - 1, files[i] # 0,
         files' = Renamed(i), Len(lines') = Len(lines)
  PROVE  Sorted' /\ NewestIsMain'
<1>1. /\ LastName \in Nat /\ i \in Nat /\ i \in Names /\ i + 1 \in Names /\ i + 1 # i /\ i + 1 # 0
      /\ \A a \in Names : a \in Nat
  BY NamesFact DEF Names
<1>2. files \in [Names -> 0 .. Len(lines)] /\ Len(lines) \in Nat
  BY DEF TypeOK
<1>3. \A a \in Names : files'[a] = IF a = i THEN 0 ELSE IF a = i + 1 THEN files[i] ELSE files[a]
  BY <1>1, <1>2 DEF Renamed
<1>4. \A a \in Names : files[a] \in Nat
  BY <1>2
<1>5. ASSUME NEW a \in Names, NEW b \in Names, a > b, files'[a] # 0, files'[b] # 0
      PROVE  files'[a] < files'[b]
  <2>1. a # i /\ b # i /\ a \in Nat /\ b \in Nat
    BY <1>1, <1>3, <1>5
  <2>2. CASE a = i + 1
    <3>1. i > b /\ files'[a] = files[i] /\ files'[b] = files[b]
      BY <1>1, <1>3, <1>5, <2>1, <2>2
    <3> QED BY <1>1, <1>5, <3>1 DEF Sorted
  <2>3. CASE b = i + 1
    <3>1. a > i /\ files'[b] = files[i] /\ files'[a] = files[a]
      BY <1>1, <1>3, <1>5, <2>1, <2>3
    <3> QED BY <1>1, <1>5, <3>1 DEF Sorted
  <2>4. CASE a # i + 1 /\ b # i + 1
    <3>1. files'[b] = files[b] /\ files'[a] = files[a]
      BY <1>3, <2>1, <2>4
    <3> QED BY <1>5, <3>1 DEF Sorted
  <2> QED BY <2>2, <2>3, <2>4
<1>6. Sorted'
  BY <1>5 DEF Sorted
<1>7. files'[0] \in {0, Len(lines)}
  BY <1>1, <1>3, NamesFact DEF NewestIsMain
<1> QED BY <1>6, <1>7 DEF NewestIsMain

LEMMA FilesKeep ==
  ASSUME TypeOK, Shifting, OpenedLast, Sorted, NewestIsMain, [Next]_vars
  PROVE  Sorted' /\ NewestIsMain'
<1>a. /\ LastName \in Nat /\ LastName >= 1 /\ 0 \in Names /\ 0 \in 0 .. LastName - 1
      /\ \A a \in Names : a \in Nat
  BY NamesFact
<1>b. files \in [Names -> 0 .. Len(lines)] /\ Len(lines) \in Nat /\ \A a \in Names : files[a] \in Nat
  BY DEF TypeOK
<1>1. ASSUME files' = files, Len(lines') = Len(lines) PROVE Sorted' /\ NewestIsMain'
  BY <1>1 DEF Sorted, NewestIsMain
<1>2. ASSUME NEW t \in Threads, Move(t) PROVE Sorted' /\ NewestIsMain'
  <2>1. index[t] \in 0 .. LastName - 1 /\ lines' = lines
    <3>1. index[t] \in 0 .. LastName /\ pc[t] = "move" /\ index[t] <= LastName - 1
      BY <1>2 DEF Move, Shifting, TypeOK
    <3> QED BY <1>2, <1>a, <3>1 DEF Move
  <2>2. \/ files' = files
        \/ files[index[t]] # 0 /\ files' = Renamed(index[t])
    BY <1>2 DEF Move
  <2> QED BY <1>1, <2>1, <2>2, RenamedSorted
<1>3. ASSUME NEW t \in Threads, MoveMain(t) PROVE Sorted' /\ NewestIsMain'
  <2>1. lines' = lines /\ (files' = files \/ (files[0] # 0 /\ files' = Renamed(0)))
    BY <1>3 DEF MoveMain
  <2> QED BY <1>1, <1>a, <2>1, RenamedSorted
<1>4. ASSUME NEW t \in Threads, Open(t) PROVE Sorted' /\ NewestIsMain'
  <2>1. CASE files[0] # 0
    BY <1>1, <1>4, <2>1 DEF Open
  <2>2. CASE files[0] = 0
    <3>1. Len(lines') = Len(lines) + 1
      BY <1>4, <2>2, CreateIs DEF Open
    <3>2. PICK new : new = Len(lines) + 1
      OBVIOUS
    <3>3. files' = [files EXCEPT ![0] = new]
      BY <1>4, <2>2, <3>2 DEF Open
    <3>4. files'[0] = new /\ \A a \in Names : a # 0 => files'[a] = files[a]
      BY <1>a, <1>b, <3>3
    <3>5. \A a \in Names : a # 0 => files'[a] < new
      BY <1>b, <3>2, <3>4
    <3>6. ASSUME NEW a \in Names, NEW b \in Names, a > b, files'[a] # 0, files'[b] # 0
          PROVE  files'[a] < files'[b]
      <4>1. a # 0
        BY <1>a, <3>6
      <4>2. CASE b = 0
        BY <3>4, <3>5, <3>6, <4>1, <4>2
      <4>3. CASE b # 0
        BY <3>4, <3>6, <4>1, <4>3 DEF Sorted
      <4> QED BY <4>2, <4>3
    <3>7. Sorted'
      BY <3>6 DEF Sorted
    <3>8. NewestIsMain'
      BY <3>1, <3>2, <3>4 DEF NewestIsMain
    <3> QED BY <3>7, <3>8
  <2> QED BY <2>1, <2>2
<1>5. ASSUME NEW t \in Threads, Write(t) PROVE Sorted' /\ NewestIsMain'
  <2>1. handle[t] # 0
    BY <1>5 DEF Write, OpenedLast
  <2>2. Len(lines') = Len(lines)
    BY <1>5, <2>1, WriteIs
  <2> QED BY <1>1, <1>5, <2>2 DEF Write
<1>6. ASSUME NEW t \in Threads,
             Begin(t) \/ CheckSize(t) \/ Look(t) \/ ReplaceFails(t) \/ WriteFails(t)
      PROVE  Sorted' /\ NewestIsMain'
  BY <1>1, <1>6 DEF Begin, CheckSize, Look, ReplaceFails, WriteFails
<1>7. ASSUME NEW p \in Processes, Kill(p) PROVE Sorted' /\ NewestIsMain'
  BY <1>1, <1>7 DEF Kill
<1>8. CASE Follow
  BY <1>1, <1>8 DEF Follow, TailExists, TailOpen, TailSeek, TailRead, TailCompare, logVars
<1>9. CASE UNCHANGED vars
  BY <1>1, <1>9 DEF vars, logVars
<1> QED BY <1>2, <1>3, <1>4, <1>5, <1>6, <1>7, <1>8, <1>9 DEF Next, Record, Finished

----------------------------------------------------------------------------
(* A thread's lines are ordered by inode and place.                         *)

LEMMA LinesKeep ==
  ASSUME TypeOK, NewestIsMain, Counted, Ordered, OpenedLast, [Next]_vars
  PROVE  Counted' /\ Ordered' /\ OpenedLast'
<1>a. /\ Len(lines) \in Nat /\ lines \in Seq(Seq(Line)) /\ 0 \in Names
      /\ written \in [Threads -> Nat] /\ handle \in [Threads -> 0 .. Len(lines)]
  BY NamesFact DEF TypeOK
<1>p. pc \in [Threads -> {"idle", "check", "shift", "move", "open", "write"}]
  BY DEF TypeOK
<1>l. ASSUME NEW f \in Inodes, NEW k \in Places(f)
      PROVE  lines[f][k] \in Line /\ lines[f][k].by \in Threads /\ lines[f][k].n \in Nat
  <2>1. lines[f] \in Seq(Line)
    BY <1>a, <1>l DEF Inodes
  <2>2. PICK e : e = lines[f][k]
    OBVIOUS
  <2>3. e \in Line
    BY <1>l, <2>1, <2>2 DEF Places
  <2>4. e.by \in Threads /\ e.n \in Nat
    BY <2>3 DEF Line
  <2> QED BY <2>2, <2>3, <2>4
\* Nothing is written; who writes now wrote already, or has opened the newest.
<1>1. ASSUME lines' = lines, \A u \in Threads : written'[u] \in Nat /\ written'[u] >= written[u],
             \A u \in Threads : pc'[u] = "write" =>
               \/ pc[u] = "write" /\ handle'[u] = handle[u]
               \/ handle'[u] = Len(lines) /\ Len(lines) # 0
      PROVE  Counted' /\ Ordered' /\ OpenedLast'
  <2>1. Inodes' = Inodes /\ \A f : Places(f)' = Places(f)
    BY <1>1 DEF Inodes, Places
  <2>2. Ordered'
    BY <1>1, <2>1 DEF Ordered
  <2>3. \A f \in Inodes : \A k \in Places(f) : lines[f][k].n <= written'[lines[f][k].by]
    BY <1>1, <1>a, <1>l DEF Counted
  <2>4. Counted'
    BY <1>1, <2>1, <2>3 DEF Counted
  <2>5. ASSUME NEW t \in Threads, pc'[t] = "write"
        PROVE  /\ handle'[t] # 0
               /\ \A f \in Inodes : \A k \in Places(f) : lines[f][k].by = t => f <= handle'[t]
    BY <1>1, <1>a, <2>5 DEF OpenedLast, Inodes
  <2>6. OpenedLast'
    BY <1>1, <2>1, <2>5 DEF OpenedLast
  <2> QED BY <2>2, <2>4, <2>6
<1>2. ASSUME NEW t \in Threads, Begin(t) \/ CheckSize(t) \/ Look(t) \/ Move(t) \/ MoveMain(t)
                                \/ ReplaceFails(t)
      PROVE  Counted' /\ Ordered' /\ OpenedLast'
  <2>1. UNCHANGED <<lines, written, handle>> /\ pc'[t] # "write"
        /\ \A u \in Threads : u # t => pc'[u] = pc[u]
    BY <1>2, <1>p DEF Begin, CheckSize, Look, Move, MoveMain, ReplaceFails
  <2>2. \A u \in Threads : written'[u] \in Nat /\ written'[u] >= written[u]
    BY <1>a, <2>1
  <2> QED BY <1>1, <2>1, <2>2
<1>3. ASSUME NEW t \in Threads, WriteFails(t) PROVE Counted' /\ Ordered' /\ OpenedLast'
  <2>1. lines' = lines /\ pc'[t] # "write"
        /\ \A u \in Threads : u # t => pc'[u] = pc[u] /\ handle'[u] = handle[u]
    BY <1>3, <1>a, <1>p DEF WriteFails
  <2>2. \A u \in Threads : written'[u] \in Nat /\ written'[u] >= written[u]
    BY <1>3, <1>a DEF WriteFails
  <2> QED BY <1>1, <2>1, <2>2
<1>4. ASSUME NEW p \in Processes, Kill(p) PROVE Counted' /\ Ordered' /\ OpenedLast'
  <2>1. UNCHANGED <<lines, written>>
    BY <1>4 DEF Kill
  <2>2. \A u \in Threads : pc'[u] = "write" => pc[u] = "write" /\ handle'[u] = handle[u]
    BY <1>4 DEF Kill
  <2>3. \A u \in Threads : written'[u] \in Nat /\ written'[u] >= written[u]
    BY <1>a, <2>1
  <2> QED BY <1>1, <2>1, <2>2, <2>3
<1>5. ASSUME UNCHANGED logVars PROVE Counted' /\ Ordered' /\ OpenedLast'
  <2>1. UNCHANGED <<lines, written, pc, handle>>
    BY <1>5 DEF logVars
  <2>2. \A u \in Threads : written'[u] \in Nat /\ written'[u] >= written[u]
    BY <1>a, <2>1
  <2> QED BY <1>1, <2>1, <2>2
<1>6. ASSUME NEW t \in Threads, Open(t) PROVE Counted' /\ Ordered' /\ OpenedLast'
  <2>1. written' = written /\ \A u \in Threads : u # t => pc'[u] = pc[u] /\ handle'[u] = handle[u]
    BY <1>6, <1>a, <1>p DEF Open
  <2>2. \A u \in Threads : written'[u] \in Nat /\ written'[u] >= written[u]
    BY <1>a, <2>1
  <2>3. CASE files[0] # 0
    <3>1. files[0] = Len(lines) /\ lines' = lines /\ handle'[t] = Len(lines)
      BY <1>6, <1>a, <2>3 DEF Open, NewestIsMain
    <3> QED BY <1>1, <2>1, <2>2, <2>3, <3>1
  <2>4. CASE files[0] = 0
    <3>1. lines' = Append(lines, << >>) /\ handle' = [handle EXCEPT ![t] = Len(lines) + 1]
      BY <1>6, <2>4 DEF Open
    <3>2. PICK new : new = Len(lines) + 1
      OBVIOUS
    <3>3. /\ Len(lines') = new /\ lines'[new] = << >> /\ handle'[t] = new
          /\ \A f \in Inodes : lines'[f] = lines[f]
      BY <1>a, <3>1, <3>2, CreateIs
    <3>4. ASSUME NEW f \in Inodes', NEW k \in Places(f)'
          PROVE  f \in Inodes /\ k \in Places(f) /\ lines'[f] = lines[f]
      <4>1. f # new
        BY <3>3, <3>4 DEF Places
      <4>2. f \in Inodes
        BY <1>a, <3>2, <3>3, <3>4, <4>1 DEF Inodes
      <4> QED BY <3>3, <3>4, <4>2 DEF Places
    <3>5. Counted'
      BY <2>1, <3>4 DEF Counted
    <3>6. Ordered'
      BY <3>4 DEF Ordered
    <3>7. ASSUME NEW u \in Threads, pc'[u] = "write"
          PROVE  /\ handle'[u] # 0
                 /\ \A f \in Inodes' : \A k \in Places(f)' : lines'[f][k].by = u => f <= handle'[u]
      <4>1. CASE u = t
        BY <1>a, <3>2, <3>3, <3>4, <4>1 DEF Inodes
      <4>2. CASE u # t
        BY <2>1, <3>4, <3>7, <4>2 DEF OpenedLast
      <4> QED BY <4>1, <4>2
    <3>8. OpenedLast'
      BY <3>7 DEF OpenedLast
    <3> QED BY <3>5, <3>6, <3>8
  <2> QED BY <2>3, <2>4
<1>7. ASSUME NEW t \in Threads, Write(t) PROVE Counted' /\ Ordered' /\ OpenedLast'
  <2>1. PICK h, x : h = handle[t] /\ x = [by |-> t, n |-> written[t] + 1]
    OBVIOUS
  <2>2. /\ h # 0 /\ \A f \in Inodes : \A k \in Places(f) : lines[f][k].by = t => f <= h
    BY <1>7, <2>1 DEF Write, OpenedLast
  <2>3. /\ h \in Inodes /\ x \in Line /\ Len(lines') = Len(lines)
        /\ \A f \in Inodes : lines'[f] = IF f = h THEN Append(lines[h], x) ELSE lines[f]
        /\ \A f \in Inodes : Len(lines'[f]) = IF f = h THEN Len(lines[h]) + 1 ELSE Len(lines[f])
    BY <1>7, <2>1, <2>2, WriteIs
  <2>4. x.by = t /\ x.n = written[t] + 1 /\ written[t] \in Nat
    BY <1>a, <2>1
  <2>5. lines[h] \in Seq(Line) /\ Len(lines[h]) \in Nat
    BY <1>a, <2>3 DEF Inodes
  <2>6. PICK last : last = Len(lines[h]) + 1
    OBVIOUS
  <2>7. Inodes' = Inodes
    BY <2>3 DEF Inodes
  \* What is in a file now was there before, or is the new line.
  <2>8. ASSUME NEW f \in Inodes, NEW k \in Places(f)'
        PROVE  \/ f = h /\ k = last /\ lines'[f][k] = x
               \/ k \in Places(f) /\ lines'[f][k] = lines[f][k] /\ (f = h => k < last)
    <3>1. CASE f # h
      BY <2>3, <2>8, <3>1 DEF Places
    <3>2. CASE f = h
      <4>1. lines'[f] = Append(lines[h], x) /\ k \in 1 .. last
        BY <2>3, <2>6, <2>8, <3>2 DEF Places
      <4> QED BY <2>5, <2>6, <3>2, <4>1 DEF Places
    <3> QED BY <3>1, <3>2
  <2>9. \A u \in Threads : written'[u] = IF u = t THEN written[t] + 1 ELSE written[u]
    BY <1>7, <1>a DEF Write
  <2>10. ASSUME NEW f \in Inodes, NEW k \in Places(f)'
         PROVE  lines'[f][k].n <= written'[lines'[f][k].by]
    <3>1. CASE f = h /\ k = last /\ lines'[f][k] = x
      BY <2>4, <2>9, <3>1
    <3>2. CASE k \in Places(f) /\ lines'[f][k] = lines[f][k]
      <4>1. lines[f][k].n <= written[lines[f][k].by] /\ lines[f][k].by \in Threads
            /\ lines[f][k].n \in Nat
        BY <1>l, <2>10, <3>2 DEF Counted
      <4>2. PICK e, u : e = lines[f][k] /\ u = e.by
        OBVIOUS
      <4>3. e.n <= written[u] /\ u \in Threads /\ e.n \in Nat /\ written[u] \in Nat
        BY <1>a, <4>1, <4>2
      <4>4. written'[u] >= written[u] /\ written'[u] \in Nat
        BY <2>4, <2>9, <4>3
      <4>5. e.n <= written'[u]
        BY <4>3, <4>4
      <4> QED BY <3>2, <4>2, <4>5
    <3> QED BY <2>8, <2>10, <3>1, <3>2
  <2>11. Counted'
    BY <2>7, <2>10 DEF Counted
  <2>12. ASSUME NEW f \in Inodes, NEW g \in Inodes, NEW k \in Places(f)', NEW l \in Places(g)',
                lines'[f][k].by = lines'[g][l].by, f < g \/ (f = g /\ k < l)
         PROVE  lines'[f][k].n < lines'[g][l].n
    <3>1. f \in Nat /\ g \in Nat /\ h \in Nat
      BY <1>a, <2>3 DEF Inodes
    <3>2. CASE f = h /\ k = last /\ lines'[f][k] = x
      <4>1. CASE g = h /\ l = last /\ lines'[g][l] = x
        BY <2>5, <2>6, <2>12, <3>1, <3>2, <4>1
      <4>2. CASE l \in Places(g) /\ lines'[g][l] = lines[g][l] /\ (g = h => l < last)
        <5>1. l \in Nat /\ last \in Nat
          BY <2>5, <2>6, <4>2 DEF Places
        <5>2. g > h
          BY <2>12, <3>1, <3>2, <4>2, <5>1
        <5>3. g <= h
          BY <2>2, <2>4, <2>12, <3>2, <4>2
        <5> QED BY <3>1, <5>2, <5>3
      <4> QED BY <2>8, <2>12, <4>1, <4>2
    <3>3. CASE k \in Places(f) /\ lines'[f][k] = lines[f][k] /\ (f = h => k < last)
      <4>1. CASE g = h /\ l = last /\ lines'[g][l] = x
        <5>1. lines[f][k].by = t /\ lines[f][k].n \in Nat /\ lines[f][k].n <= written[t]
          BY <1>l, <2>4, <2>12, <3>3, <4>1 DEF Counted
        <5> QED BY <2>4, <3>3, <4>1, <5>1
      <4>2. CASE l \in Places(g) /\ lines'[g][l] = lines[g][l]
        BY <2>12, <3>3, <4>2 DEF Ordered
      <4> QED BY <2>8, <2>12, <4>1, <4>2
    <3> QED BY <2>8, <2>12, <3>2, <3>3
  <2>13. Ordered'
    BY <2>7, <2>12 DEF Ordered
  <2>14. /\ pc'[t] # "write"
         /\ \A u \in Threads : u # t => pc'[u] = pc[u] /\ handle'[u] = handle[u]
    BY <1>7, <1>a, <1>p DEF Write
  <2>15. ASSUME NEW u \in Threads, pc'[u] = "write"
         PROVE  /\ handle'[u] # 0
                /\ \A f \in Inodes : \A k \in Places(f)' : lines'[f][k].by = u => f <= handle'[u]
    <3>1. u # t /\ pc[u] = "write" /\ handle'[u] = handle[u]
      BY <2>14, <2>15
    <3>2. \A f \in Inodes : \A k \in Places(f)' : lines'[f][k].by = u =>
            k \in Places(f) /\ lines[f][k].by = u
      BY <2>4, <2>8, <3>1
    <3> QED BY <3>1, <3>2 DEF OpenedLast
  <2>16. OpenedLast'
    BY <2>7, <2>15 DEF OpenedLast
  <2> QED BY <2>11, <2>13, <2>16
<1>8. CASE Follow
  BY <1>5, <1>8 DEF Follow, TailExists, TailOpen, TailSeek, TailRead, TailCompare
<1>9. CASE UNCHANGED vars
  BY <1>5, <1>9 DEF vars
<1> QED BY <1>2, <1>3, <1>4, <1>6, <1>7, <1>8, <1>9 DEF Next, Record, Finished

----------------------------------------------------------------------------
(* The tailer moves forward.                                                *)

\* What the log does under the tailer: files only grow.
LEMMA FilesGrow ==
  ASSUME TypeOK, OpenedLast, [Next]_vars, ~ Follow
  PROVE  /\ UNCHANGED tailerVars
         /\ Len(lines') \in Nat /\ Len(lines) \in Nat /\ Len(lines') >= Len(lines)
         /\ \A f \in Inodes : /\ Len(lines[f]) \in Nat /\ Len(lines'[f]) \in Nat
                              /\ Len(lines'[f]) >= Len(lines[f])
                              /\ \A k \in Places(f) : lines'[f][k] = lines[f][k]
<1>a. lines \in Seq(Seq(Line)) /\ Len(lines) \in Nat
  BY DEF TypeOK
<1>l. ASSUME NEW f \in Inodes PROVE lines[f] \in Seq(Line) /\ Len(lines[f]) \in Nat
  BY <1>a, <1>l DEF Inodes
<1>1. ASSUME NEW t \in Threads, Open(t), files[0] = 0
      PROVE  /\ Len(lines') = Len(lines) + 1
             /\ \A f \in Inodes : lines'[f] = lines[f]
  BY <1>1, CreateIs DEF Open
<1>2. ASSUME NEW t \in Threads, Write(t)
      PROVE  /\ Len(lines') = Len(lines)
             /\ \A f \in Inodes : /\ Len(lines'[f]) \in Nat /\ Len(lines'[f]) >= Len(lines[f])
                                  /\ \A k \in Places(f) : lines'[f][k] = lines[f][k]
  <2>1. PICK h, x : h = handle[t] /\ x = [by |-> t, n |-> written[t] + 1]
    OBVIOUS
  <2>2. h # 0
    BY <1>2, <2>1 DEF Write, OpenedLast
  <2>3. /\ h \in Inodes /\ x \in Line /\ Len(lines') = Len(lines)
        /\ \A f \in Inodes : lines'[f] = IF f = h THEN Append(lines[h], x) ELSE lines[f]
        /\ \A f \in Inodes : Len(lines'[f]) = IF f = h THEN Len(lines[h]) + 1 ELSE Len(lines[f])
    BY <1>2, <2>1, <2>2, WriteIs
  <2>4. ASSUME NEW f \in Inodes
        PROVE  /\ Len(lines'[f]) \in Nat /\ Len(lines'[f]) >= Len(lines[f])
               /\ \A k \in Places(f) : lines'[f][k] = lines[f][k]
    <3>1. lines[h] \in Seq(Line) /\ Len(lines[h]) \in Nat /\ Len(lines[f]) \in Nat
      BY <1>l, <2>3, <2>4
    <3>2. CASE f = h
      <4>1. lines'[f] = Append(lines[h], x) /\ Len(lines'[f]) = Len(lines[h]) + 1
        BY <2>3, <3>2
      <4>2. \A k \in 1 .. Len(lines[h]) : Append(lines[h], x)[k] = lines[h][k]
        BY <2>3, <3>1
      <4> QED BY <3>1, <3>2, <4>1, <4>2 DEF Places
    <3>3. CASE f # h
      BY <2>3, <3>1, <3>3
    <3> QED BY <3>2, <3>3
  <2> QED BY <2>3, <2>4
<1>3. UNCHANGED tailerVars
  BY DEF Next, Record, Begin, CheckSize, Look, Move, MoveMain, Open, Write, ReplaceFails,
         WriteFails, Kill, Finished, vars
<1>4. CASE lines' = lines
  BY <1>a, <1>l, <1>3, <1>4
<1>5. CASE \E t \in Threads : (Open(t) /\ files[0] = 0) \/ Write(t)
  BY <1>a, <1>l, <1>1, <1>2, <1>3, <1>5
<1>6. (\E t \in Threads : (Open(t) /\ files[0] = 0) \/ Write(t)) \/ lines' = lines
  BY DEF Next, Record, Begin, CheckSize, Look, Move, MoveMain, Open, ReplaceFails,
         WriteFails, Kill, Finished, vars, logVars
<1> QED BY <1>4, <1>5, <1>6

LEMMA TailKeep ==
  ASSUME RotateInv, [Next]_vars
  PROVE  TailerPlace' /\ TailedSoFar' /\ ShownInOrder'
<1>a. /\ TypeOK /\ NewestIsMain /\ Ordered /\ OpenedLast
      /\ TailerPlace /\ TailedSoFar /\ ShownInOrder
  BY DEF RotateInv, LogInv
<1>b. /\ Len(lines) \in Nat /\ lines \in Seq(Seq(Line)) /\ 0 \in Names
      /\ shown \in Seq(Line) /\ Len(shown) \in Nat
      /\ tailer \in [pc : {"exists", "open", "seek", "read", "compare", "dead"},
                     ino : 0 .. Len(lines), fd : 0 .. Len(lines), pos : Nat]
  BY <1>a, NamesFact DEF TypeOK
<1>1. CASE ~ Follow
  <2>1. /\ tailer' = tailer /\ shown' = shown /\ Len(lines') >= Len(lines) /\ Len(lines') \in Nat
        /\ \A f \in Inodes : /\ Len(lines[f]) \in Nat /\ Len(lines'[f]) \in Nat
                             /\ Len(lines'[f]) >= Len(lines[f])
                             /\ \A k \in Places(f) : lines'[f][k] = lines[f][k]
    BY <1>1, <1>a, FilesGrow DEF tailerVars
  <2>2. tailer.fd # 0 => tailer.fd \in Inodes
    BY <1>b DEF Inodes
  <2>3. TailerPlace'
    BY <1>a, <1>b, <2>1, <2>2 DEF TailerPlace
  <2>4. \A f, k : Before(f, k) => Before(f, k)'
    BY <2>1 DEF Before
  <2>5. \A f \in Inodes : f \in Inodes' /\ \A k \in Places(f) : k \in Places(f)'
    BY <1>b, <2>1 DEF Inodes, Places
  <2>6. TailedSoFar'
    BY <1>a, <2>1, <2>4, <2>5 DEF TailedSoFar
  <2>7. ShownInOrder'
    BY <1>a, <2>1 DEF ShownInOrder
  <2> QED BY <2>3, <2>6, <2>7
<1>2. CASE Follow
  <2>1. lines' = lines /\ files' = files
    BY <1>2 DEF Follow, TailExists, TailOpen, TailSeek, TailRead, TailCompare, logVars
  <2>2. Inodes' = Inodes /\ \A f : Places(f)' = Places(f)
    BY <2>1 DEF Inodes, Places
  \* Nothing new is shown.
  <2>3. ASSUME shown' = shown,
               \A f \in Inodes : \A k \in Places(f) : Before(f, k) => Before(f, k)'
        PROVE  TailedSoFar' /\ ShownInOrder'
    BY <1>a, <2>1, <2>2, <2>3 DEF TailedSoFar, ShownInOrder
  <2>4. CASE TailExists
    <3>1. tailer'.pc = "open" /\ shown' = shown
      BY <1>b, <2>4 DEF TailExists
    <3> QED BY <2>3, <3>1 DEF TailerPlace, Before
  <2>5. CASE TailOpen
    <3>1. /\ tailer'.pc \in {"seek", "dead"} /\ shown' = shown
          /\ tailer'.pc = "seek" => tailer'.fd = files[0] /\ files[0] # 0
      BY <1>b, <2>5 DEF TailOpen
    <3>2. files[0] # 0 => \A f \in Inodes : f <= files[0]
      BY <1>a, <1>b DEF NewestIsMain, Inodes
    <3> QED BY <2>3, <3>1, <3>2 DEF TailerPlace, Before
  <2>6. CASE TailSeek
    <3>1. PICK end : end = Len(lines[tailer.fd])
      OBVIOUS
    <3>2. tailer.pc = "seek" /\ tailer.fd \in Inodes
      BY <1>a, <1>b, <2>6 DEF TailSeek, TailerPlace, Inodes
    <3>3. end \in Nat
      BY <1>b, <3>1, <3>2 DEF Inodes
    <3>4. tailer'.pc = "read" /\ tailer'.fd = tailer.fd /\ tailer'.pos = end /\ shown' = shown
      BY <1>b, <2>6, <3>1 DEF TailSeek
    <3>5. TailerPlace'
      <4>1. tailer.fd # 0 /\ end <= end
        BY <1>b, <3>2, <3>3 DEF Inodes
      <4> QED BY <2>1, <3>1, <3>4, <4>1 DEF TailerPlace
    <3>6. \A f \in Inodes : \A k \in Places(f) :
            f < tailer.fd \/ (f = tailer.fd /\ k <= end) \/ ~(f <= tailer.fd)
      BY <1>b, <3>1, <3>2, <3>3 DEF Inodes, Places
    <3> QED BY <2>3, <3>2, <3>4, <3>5, <3>6 DEF Before
  <2>7. CASE TailCompare
    <3>1. /\ tailer.pc = "compare" /\ tailer'.pc \in {"read", "exists"} /\ shown' = shown
          /\ tailer'.fd = tailer.fd /\ tailer'.pos = tailer.pos
      BY <1>b, <2>7 DEF TailCompare
    <3>2. TailerPlace'
      BY <1>a, <2>1, <3>1 DEF TailerPlace
    <3> QED BY <2>3, <3>1, <3>2 DEF Before
  <2>8. CASE TailRead /\ ~(tailer.pos < Len(lines[tailer.fd]))
    <3>1. /\ tailer.pc = "read" /\ tailer'.pc = "compare" /\ shown' = shown
          /\ tailer'.fd = tailer.fd /\ tailer'.pos = tailer.pos
      BY <1>b, <2>8 DEF TailRead
    <3>2. TailerPlace'
      BY <1>a, <2>1, <3>1 DEF TailerPlace
    <3> QED BY <2>3, <3>1, <3>2 DEF Before
  <2>9. CASE TailRead /\ tailer.pos < Len(lines[tailer.fd])
    <3>1. PICK fd, next : fd = tailer.fd /\ next = tailer.pos + 1
      OBVIOUS
    <3>2. tailer.pc = "read" /\ fd \in Inodes
      BY <1>a, <1>b, <2>9, <3>1 DEF TailRead, TailerPlace, Inodes
    <3>3. lines[fd] \in Seq(Line) /\ Len(lines[fd]) \in Nat
      BY <1>b, <3>2 DEF Inodes
    <3>4. PICK new : new = lines[fd][next]
      OBVIOUS
    <3>5. next \in Places(fd) /\ new \in Line /\ tailer.pos \in Nat
      BY <1>b, <2>9, <3>1, <3>3, <3>4 DEF Places
    <3>6. /\ tailer'.pc = "read" /\ tailer'.fd = fd /\ tailer'.pos = next
          /\ shown' = Append(shown, new)
      BY <1>b, <2>9, <3>1, <3>4 DEF TailRead
    <3>7. PICK n : n = Len(shown) + 1
      OBVIOUS
    <3>8. /\ Len(shown') = n /\ shown'[n] = new /\ n \in Nat
          /\ \A i \in 1 .. Len(shown) : shown'[i] = shown[i]
      BY <1>b, <3>5, <3>6, <3>7
    <3>9. \A i \in 1 .. n : i # n => i \in 1 .. Len(shown)
      BY <1>b, <3>7
    <3>10. ASSUME NEW i \in 1 .. Len(shown)
           PROVE  \E f \in Inodes : \E k \in Places(f) :
                    lines[f][k] = shown[i] /\ (f < fd \/ (f = fd /\ k < next))
      <4>1. PICK f \in Inodes, k \in Nat : k \in Places(f) /\ lines[f][k] = shown[i] /\ Before(f, k)
        BY <1>a, <3>10 DEF TailedSoFar, Places
      <4>2. f < fd \/ (f = fd /\ k <= tailer.pos)
        BY <3>1, <3>2, <4>1 DEF Before
      <4>3. k <= tailer.pos => k < next
        BY <3>1, <3>3, <3>5, <4>1 DEF Places
      <4> QED BY <4>1, <4>2, <4>3
    <3>11. TailerPlace'
      <4>1. fd # 0 /\ next <= Len(lines[fd])
        BY <1>b, <3>2, <3>3, <3>5 DEF Inodes, Places
      <4> QED BY <2>1, <3>6, <4>1 DEF TailerPlace
    <3>12. ASSUME NEW i \in 1 .. n
           PROVE  \E f \in Inodes : \E k \in Places(f) : lines[f][k] = shown'[i] /\ Before(f, k)'
      <4>1. CASE i = n
        <5>1. next <= next
          BY <3>1, <3>5
        <5>2. Before(fd, next)'
          BY <3>6, <5>1 DEF Before
        <5> QED BY <3>2, <3>4, <3>5, <3>8, <4>1, <5>2
      <4>2. CASE i # n
        <5>1. i \in 1 .. Len(shown) /\ shown'[i] = shown[i]
          BY <3>8, <3>9, <3>12, <4>2
        <5>2. PICK f \in Inodes, k \in Nat : k \in Places(f) /\
                lines[f][k] = shown[i] /\ (f < fd \/ (f = fd /\ k < next))
          BY <3>10, <5>1 DEF Places
        <5>3. k < next => k <= next
          BY <3>1, <3>5, <5>2 DEF Places
        <5>4. Before(f, k)'
          BY <3>6, <5>2, <5>3 DEF Before
        <5> QED BY <5>1, <5>2, <5>4
      <4> QED BY <4>1, <4>2
    <3>13. TailedSoFar'
      BY <2>1, <2>2, <3>8, <3>12 DEF TailedSoFar
    <3>14. ASSUME NEW k \in 1 .. n, NEW l \in 1 .. n, k < l, shown'[k].by = shown'[l].by
           PROVE  shown'[k].n < shown'[l].n
      <4>1. k # n /\ k \in 1 .. Len(shown) /\ shown'[k] = shown[k]
        <5>1. k # n
          BY <3>8, <3>14
        <5> QED BY <3>8, <3>9, <3>14, <5>1
      <4>2. CASE l = n
        <5>1. PICK f \in Inodes, i \in Nat : i \in Places(f) /\
                lines[f][i] = shown[k] /\ (f < fd \/ (f = fd /\ i < next))
          BY <3>10, <4>1 DEF Places
        <5>2. lines[f][i].by = lines[fd][next].by
          BY <3>4, <3>8, <3>14, <4>1, <4>2, <5>1
        <5>3. lines[f][i].n < lines[fd][next].n
          BY <1>a, <3>2, <3>5, <5>1, <5>2 DEF Ordered
        <5> QED BY <3>4, <3>8, <4>1, <4>2, <5>1, <5>3
      <4>3. CASE l # n
        <5>1. l \in 1 .. Len(shown) /\ shown'[l] = shown[l]
          BY <3>8, <3>9, <3>14, <4>3
        <5> QED BY <1>a, <3>14, <4>1, <5>1 DEF ShownInOrder
      <4> QED BY <4>2, <4>3
    <3>15. ShownInOrder'
      BY <3>8, <3>14 DEF ShownInOrder
    <3> QED BY <3>11, <3>13, <3>15
  <2> QED BY <1>2, <2>4, <2>5, <2>6, <2>7, <2>8, <2>9 DEF Follow
<1> QED BY <1>1, <1>2

----------------------------------------------------------------------------
(* The lock of a process, and what one rotation at a time does to the names. *)

LockHeld == \A t \in Threads : pc[t] # "idle" => lock[home[t]] = t

\* The name above the one that is looked at is free, or is the last one.
ShiftedAbove == Alone => \A t \in Threads : pc[t] \in {"shift", "move"} =>
  index[t] = LastName - 1 \/ files[index[t] + 1] = 0

LEMMA OthersIdle ==
  ASSUME LockHeld, NEW t \in Threads, NEW u \in Threads,
         home[t] = home[u], pc[t] # "idle", pc[u] # "idle"
  PROVE  t = u
BY DEF LockHeld

LEMMA LockKeeps ==
  ASSUME TypeOK, LockHeld, [Next]_vars
  PROVE  LockHeld'
<1>a. /\ home \in [Threads -> Processes] /\ lock \in [Processes -> Threads \cup {Nobody}]
      /\ pc \in [Threads -> {"idle", "check", "shift", "move", "open", "write"}]
      /\ Nobody \notin Threads
  BY LogAssumption DEF TypeOK
<1>1. ASSUME NEW t \in Threads, Begin(t) PROVE LockHeld'
  <2>1. \A u \in Threads : home[u] = home[t] => pc[u] = "idle"
    BY <1>1, <1>a DEF Begin, LockHeld
  <2>2. /\ lock' = [lock EXCEPT ![home[t]] = t] /\ pc' = [pc EXCEPT ![t] = "check"]
        /\ home' = home
    BY <1>1 DEF Begin
  <2> QED BY <1>a, <2>1, <2>2 DEF LockHeld
<1>2. ASSUME NEW t \in Threads, pc[t] # "idle", UNCHANGED <<home, lock>>,
             \A u \in Threads : u # t => pc'[u] = pc[u]
      PROVE  LockHeld'
  BY <1>2 DEF LockHeld
<1>3. ASSUME NEW t \in Threads,
             CheckSize(t) \/ Look(t) \/ Move(t) \/ MoveMain(t) \/ Open(t) \/ ReplaceFails(t)
      PROVE  LockHeld'
  <2>1. /\ pc[t] # "idle" /\ UNCHANGED <<home, lock>>
        /\ pc' = pc \/ \E v : pc' = [pc EXCEPT ![t] = v]
    BY <1>3 DEF CheckSize, Look, Move, MoveMain, Open, ReplaceFails
  <2>2. \A u \in Threads : u # t => pc'[u] = pc[u]
    BY <1>a, <2>1
  <2> QED BY <1>2, <2>1, <2>2
<1>4. ASSUME NEW t \in Threads, Write(t) \/ WriteFails(t) PROVE LockHeld'
  <2>1. /\ pc[t] # "idle" /\ home' = home
        /\ lock' = [lock EXCEPT ![home[t]] = Nobody] /\ pc' = [pc EXCEPT ![t] = "idle"]
    BY <1>4 DEF Write, WriteFails
  <2>2. \A u \in Threads : u # t /\ home[u] = home[t] => pc[u] = "idle"
    BY <2>1, OthersIdle
  <2> QED BY <1>a, <2>1, <2>2 DEF LockHeld
<1>5. ASSUME NEW p \in Processes, Kill(p) PROVE LockHeld'
  <2>1. /\ pc' = [u \in Threads |-> IF home[u] = p THEN "idle" ELSE pc[u]]
        /\ lock' = [lock EXCEPT ![p] = Nobody] /\ home' = home
    BY <1>5 DEF Kill
  <2> QED BY <1>a, <2>1 DEF LockHeld
<1>6. CASE Follow \/ UNCHANGED vars
  BY <1>6 DEF Follow, TailExists, TailOpen, TailSeek, TailRead, TailCompare, vars, logVars, LockHeld
<1> QED BY <1>1, <1>3, <1>4, <1>5, <1>6 DEF Next, Record, Finished

(* A rename onto a free name, or onto the last one, drops the oldest at most. *)
LEMMA RenameDropsOldest ==
  ASSUME TypeOK, Sorted, OldestIsDropped, NEW i \in 0 .. LastName - 1, files[i] # 0,
         i = LastName - 1 \/ files[i + 1] = 0, files' = Renamed(i), Len(lines') = Len(lines)
  PROVE  OldestIsDropped'
<1>1. /\ LastName \in Nat /\ i \in Nat /\ i \in Names /\ i + 1 \in Names /\ i + 1 # i
      /\ \A a \in Names : a \in Nat /\ a <= LastName
  BY NamesFact DEF Names
<1>2. files \in [Names -> 0 .. Len(lines)] /\ Len(lines) \in Nat
      /\ \A a \in Names : files[a] \in Nat
  BY DEF TypeOK
<1>3. \A a \in Names : files'[a] = IF a = i THEN 0 ELSE IF a = i + 1 THEN files[i] ELSE files[a]
  BY <1>1, <1>2 DEF Renamed
<1> SUFFICES ASSUME NEW f \in Kept', NEW g \in f .. Len(lines) PROVE g \in Kept'
  BY DEF OldestIsDropped
<1>4. PICK a \in Names : f = files'[a] /\ f # 0
  BY DEF Kept
<1>5. PICK c \in Names : f = files[c] /\ c # i + 1
  BY <1>1, <1>3, <1>4
<1>6. f \in Nat /\ g \in Nat /\ g >= f /\ g # 0
  BY <1>2, <1>4, <1>5
<1>7. PICK b \in Names : g = files[b]
  BY <1>4, <1>5 DEF OldestIsDropped, Kept
<1>8. b # i + 1
  <2> SUFFICES ASSUME b = i + 1 PROVE FALSE
    OBVIOUS
  <2>1. b = LastName /\ b > c
    BY <1>1, <1>5, <1>6, <1>7
  <2>2. files[b] < files[c]
    BY <1>4, <1>5, <1>6, <1>7, <2>1 DEF Sorted
  <2> QED BY <1>2, <1>5, <1>6, <1>7, <2>2
<1>9. CASE b = i
  BY <1>1, <1>3, <1>6, <1>7, <1>9 DEF Kept
<1>10. CASE b # i
  BY <1>3, <1>6, <1>7, <1>8, <1>10 DEF Kept
<1> QED BY <1>9, <1>10

LEMMA OldestKeeps ==
  ASSUME TypeOK, Shifting, OpenedLast, Sorted, NewestIsMain, LockHeld, ShiftedAbove,
         OldestIsDroppedWhenAlone, [Next]_vars
  PROVE  ShiftedAbove' /\ OldestIsDroppedWhenAlone'
<1>1. home' = home
  BY DEF Next, Record, Finished, Begin, CheckSize, Look, Move, MoveMain, Open, Write,
         ReplaceFails, WriteFails, Kill, Follow, TailExists, TailOpen, TailSeek, TailRead,
         TailCompare, vars, logVars
<1>2. CASE ~ Alone
  BY <1>1, <1>2 DEF Alone, ShiftedAbove, OldestIsDroppedWhenAlone
<1> SUFFICES ASSUME Alone PROVE ShiftedAbove' /\ OldestIsDroppedWhenAlone'
  BY <1>2
<1>a. /\ LastName \in Nat /\ LastName >= 1 /\ 0 \in Names /\ 0 \in 0 .. LastName - 1
      /\ \A a \in Names : a \in Nat
  BY NamesFact
<1>b. /\ files \in [Names -> 0 .. Len(lines)] /\ Len(lines) \in Nat
      /\ pc \in [Threads -> {"idle", "check", "shift", "move", "open", "write"}]
      /\ index \in [Threads -> 0 .. LastName]
  BY DEF TypeOK
<1>3. OldestIsDropped
  BY DEF OldestIsDroppedWhenAlone
<1>4. \A t, u \in Threads : pc[t] # "idle" /\ pc[u] # "idle" => t = u
  BY OthersIdle DEF Alone
<1>5. ASSUME files' = files, Len(lines') = Len(lines) PROVE OldestIsDroppedWhenAlone'
  BY <1>3, <1>5 DEF OldestIsDroppedWhenAlone, OldestIsDropped, Kept
\* A step of the thread that holds the lock.
<1>6. ASSUME NEW t \in Threads, pc[t] # "idle", \A u \in Threads : u # t => pc'[u] = pc[u],
             pc'[t] \in {"shift", "move"} => index'[t] = LastName - 1 \/ files'[index'[t] + 1] = 0
      PROVE  ShiftedAbove'
  <2>1. \A u \in Threads : pc'[u] \in {"shift", "move"} => u = t
    BY <1>4, <1>6
  <2> QED BY <1>6, <2>1 DEF ShiftedAbove
<1>7. ASSUME NEW t \in Threads, Begin(t) PROVE ShiftedAbove' /\ OldestIsDroppedWhenAlone'
  <2>1. \A u \in Threads : pc'[u] \in {"shift", "move"} => pc[u] = pc'[u] /\ index'[u] = index[u]
    BY <1>7, <1>b DEF Begin
  <2>2. files' = files /\ lines' = lines
    BY <1>7 DEF Begin
  <2> QED BY <1>5, <2>1, <2>2 DEF ShiftedAbove
<1>8. ASSUME NEW t \in Threads, CheckSize(t) PROVE ShiftedAbove' /\ OldestIsDroppedWhenAlone'
  <2>1. /\ pc[t] # "idle" /\ index'[t] = LastName - 1 /\ files' = files /\ lines' = lines
        /\ \A u \in Threads : u # t => pc'[u] = pc[u]
    BY <1>8, <1>b DEF CheckSize
  <2> QED BY <1>5, <1>6, <2>1
<1>9. ASSUME NEW t \in Threads, Look(t) PROVE ShiftedAbove' /\ OldestIsDroppedWhenAlone'
  <2>1. /\ pc[t] = "shift" /\ files' = files /\ lines' = lines
        /\ \A u \in Threads : u # t => pc'[u] = pc[u]
        /\ \/ files[index[t]] = 0 /\ index'[t] = index[t] - 1
           \/ index'[t] = index[t]
    BY <1>9, <1>b DEF Look
  <2>2. index[t] \in Nat
    BY <1>a, <1>b
  <2>3. index'[t] = LastName - 1 \/ files'[index'[t] + 1] = 0
    BY <2>1, <2>2 DEF ShiftedAbove
  <2> QED BY <1>5, <1>6, <2>1, <2>3
<1>10. ASSUME NEW t \in Threads, Move(t) PROVE ShiftedAbove' /\ OldestIsDroppedWhenAlone'
  <2>1. /\ pc[t] = "move" /\ index[t] \in 0 .. LastName - 1 /\ index[t] \in Names /\ lines' = lines
        /\ \A u \in Threads : u # t => pc'[u] = pc[u]
    BY <1>10, <1>a, <1>b DEF Move, Shifting, Names
  <2>2. CASE files[index[t]] = 0
    BY <1>5, <1>6, <1>10, <1>b, <2>1, <2>2 DEF Move
  <2>3. CASE files[index[t]] # 0
    <3>1. files' = Renamed(index[t]) /\ index'[t] = index[t] - 1
      BY <1>10, <1>b, <2>3 DEF Move
    <3>2. index[t] + 1 # index[t] /\ index'[t] + 1 = index[t]
      BY <2>1, <3>1, <1>a
    <3>3. files'[index[t]] = 0
      BY <1>b, <2>1, <3>1, <3>2 DEF Renamed
    <3>4. ShiftedAbove'
      BY <1>6, <2>1, <3>2, <3>3
    <3>5. index[t] = LastName - 1 \/ files[index[t] + 1] = 0
      BY <2>1 DEF ShiftedAbove
    <3>6. OldestIsDropped'
      BY <1>3, <2>1, <2>3, <3>1, <3>5, RenameDropsOldest
    <3> QED BY <3>4, <3>6 DEF OldestIsDroppedWhenAlone
  <2> QED BY <2>2, <2>3
<1>11. ASSUME NEW t \in Threads, MoveMain(t) PROVE ShiftedAbove' /\ OldestIsDroppedWhenAlone'
  <2>1. /\ pc[t] = "shift" /\ index[t] = 0 /\ lines' = lines /\ pc'[t] = "open"
        /\ \A u \in Threads : u # t => pc'[u] = pc[u]
        /\ files' = files \/ (files[0] # 0 /\ files' = Renamed(0))
    BY <1>11, <1>b DEF MoveMain
  <2>2. ShiftedAbove'
    BY <1>6, <2>1
  <2>3. 0 = LastName - 1 \/ files[0 + 1] = 0
    BY <2>1 DEF ShiftedAbove
  <2>4. ASSUME files[0] # 0, files' = Renamed(0) PROVE OldestIsDropped'
    BY <1>3, <1>a, <2>1, <2>3, <2>4, RenameDropsOldest
  <2> QED BY <1>5, <2>1, <2>2, <2>4 DEF OldestIsDroppedWhenAlone
<1>12. ASSUME NEW t \in Threads, Open(t) PROVE ShiftedAbove' /\ OldestIsDroppedWhenAlone'
  <2>1. /\ pc[t] = "open" /\ pc'[t] = "write" /\ \A u \in Threads : u # t => pc'[u] = pc[u]
    BY <1>12, <1>b DEF Open
  <2>2. ShiftedAbove'
    BY <1>6, <2>1
  <2>3. CASE files[0] # 0
    BY <1>5, <1>12, <2>2, <2>3 DEF Open
  <2>4. CASE files[0] = 0
    <3>1. PICK new : new = Len(lines) + 1
      OBVIOUS
    <3>2. Len(lines') = new /\ files' = [files EXCEPT ![0] = new]
      BY <1>12, <2>4, <3>1, CreateIs DEF Open
    <3>3. \A a \in Names : files'[a] = IF a = 0 THEN new ELSE files[a]
      BY <1>b, <3>2
    <3>4. new # 0 /\ new \in Nat
      BY <1>b, <3>1
    <3>5. ASSUME NEW f \in Kept', NEW g \in f .. new PROVE g \in Kept'
      <4>1. PICK a \in Names : f = files'[a] /\ f # 0
        BY <3>5 DEF Kept
      <4>2. new \in Kept'
        BY <1>a, <3>3, <3>4 DEF Kept
      <4>3. CASE a = 0
        BY <3>3, <3>4, <4>1, <4>2, <4>3
      <4>4. CASE a # 0 /\ g # new
        <5>1. f \in Kept /\ f \in Nat
          BY <1>b, <3>3, <4>1, <4>4 DEF Kept
        <5>2. g \in Int /\ f <= g /\ g <= new
          BY <3>4, <3>5, <5>1
        <5>3. g \in f .. Len(lines)
          BY <1>b, <3>1, <4>4, <5>1, <5>2
        <5>4. g \in Kept
          BY <1>3, <5>1, <5>3 DEF OldestIsDropped
        <5>5. PICK b \in Names : g = files[b] /\ g # 0
          BY <5>4 DEF Kept
        <5> QED BY <2>4, <3>3, <5>5 DEF Kept
      <4> QED BY <4>2, <4>3, <4>4
    <3>6. OldestIsDropped'
      BY <3>2, <3>5 DEF OldestIsDropped
    <3> QED BY <2>2, <3>6 DEF OldestIsDroppedWhenAlone
  <2> QED BY <2>3, <2>4
<1>13. ASSUME NEW t \in Threads, Write(t) \/ WriteFails(t) \/ ReplaceFails(t)
       PROVE  ShiftedAbove' /\ OldestIsDroppedWhenAlone'
  <2>1. /\ pc[t] # "idle" /\ pc'[t] \in {"idle", "open"} /\ files' = files
        /\ \A u \in Threads : u # t => pc'[u] = pc[u]
    BY <1>13, <1>b DEF Write, WriteFails, ReplaceFails
  <2>2. Len(lines') = Len(lines)
    <3>1. CASE Write(t)
      <4>1. handle[t] # 0
        BY <3>1 DEF Write, OpenedLast
      <4> QED BY <3>1, <4>1, WriteIs
    <3>2. CASE WriteFails(t) \/ ReplaceFails(t)
      BY <3>2 DEF WriteFails, ReplaceFails
    <3> QED BY <1>13, <3>1, <3>2
  <2> QED BY <1>5, <1>6, <2>1, <2>2
<1>14. ASSUME NEW p \in Processes, Kill(p) PROVE ShiftedAbove' /\ OldestIsDroppedWhenAlone'
  <2>1. /\ pc' = [u \in Threads |-> IF home[u] = p THEN "idle" ELSE pc[u]]
        /\ UNCHANGED <<index, files, lines>>
    BY <1>14 DEF Kill
  <2> QED BY <1>5, <2>1 DEF ShiftedAbove
<1>15. CASE Follow \/ UNCHANGED vars
  <2>1. UNCHANGED <<pc, index, files, lines>>
    BY <1>15 DEF Follow, TailExists, TailOpen, TailSeek, TailRead, TailCompare, vars, logVars
  <2> QED BY <1>5, <2>1 DEF ShiftedAbove
<1> QED BY <1>7, <1>8, <1>9, <1>10, <1>11, <1>12, <1>13, <1>14, <1>15
       DEF Next, Record, Finished

----------------------------------------------------------------------------
(* How many processes are about to write to a file.                         *)

Writing(t, f) == \/ pc[t] = "write" /\ handle[t] = f
                 \/ pc[t] = "open" /\ files[0] = f
Writers(f)    == {p \in Sharers : \E t \in Threads : home[t] = p /\ Writing(t, f)}
Limit         == IF MaxBytes = 0 THEN 0 ELSE MaxBytes - 1

\* Whoever is about to write to a file is counted before it writes.
Crowd == \A f \in Inodes :
  size[f] + LongestLine * Cardinality(Writers(f))
    <= Limit + LongestLine * (warned + Cardinality(Sharers))

LEMMA SharersFinite ==
  ASSUME TypeOK
  PROVE  IsFiniteSet(Sharers) /\ Cardinality(Sharers) \in Nat
<1>1. Sharers \subseteq Processes
  BY LogAssumption DEF Sharers, TypeOK
<1> QED BY <1>1, LogAssumption, FS_Subset, FS_CardinalityType

(* Of any two sets of sharers, the smaller has no more members, and one more  *)
(* member counts for one.                                                    *)
LEMMA SharersCounted ==
  ASSUME TypeOK, NEW V \in SUBSET Sharers, NEW W \in SUBSET Sharers
  PROVE  /\ Cardinality(V) \in Nat /\ Cardinality(V) <= Cardinality(Sharers)
         /\ V \subseteq W => Cardinality(V) <= Cardinality(W)
         /\ \A p : V \subseteq W \cup {p} => Cardinality(V) <= Cardinality(W) + 1
         /\ \A p \in W : V \subseteq W \ {p} => Cardinality(V) + 1 <= Cardinality(W)
<1>1. IsFiniteSet(V) /\ IsFiniteSet(W) /\ IsFiniteSet(Sharers)
  BY SharersFinite, FS_Subset
<1>2. Cardinality(V) \in Nat /\ Cardinality(W) \in Nat /\ Cardinality(V) <= Cardinality(Sharers)
  BY <1>1, FS_CardinalityType, FS_Subset
<1>3. V \subseteq W => Cardinality(V) <= Cardinality(W)
  BY <1>1, FS_Subset
<1>4. ASSUME NEW p, V \subseteq W \cup {p} PROVE Cardinality(V) <= Cardinality(W) + 1
  <2>1. IsFiniteSet(W \cup {p})
        /\ Cardinality(W \cup {p}) = IF p \in W THEN Cardinality(W) ELSE Cardinality(W) + 1
    BY <1>1, FS_AddElement
  <2>2. Cardinality(V) <= Cardinality(W \cup {p})
    BY <1>4, <2>1, FS_Subset
  <2> QED BY <1>2, <2>1, <2>2
<1>5. ASSUME NEW p \in W, V \subseteq W \ {p} PROVE Cardinality(V) + 1 <= Cardinality(W)
  <2>1. IsFiniteSet(W \ {p}) /\ Cardinality(W \ {p}) = Cardinality(W) - 1
    BY <1>1, FS_RemoveElement
  <2>2. Cardinality(V) <= Cardinality(W \ {p})
    BY <1>5, <2>1, FS_Subset
  <2> QED BY <1>2, <2>1, <2>2
<1> QED BY <1>2, <1>3, <1>4, <1>5

(* The arithmetic of a file: L is the longest line, l the limit, v and w the  *)
(* writers and warnings, x the bytes, m the processes.                       *)
LEMMA RoomLeft ==
  ASSUME NEW L \in Nat, NEW l \in Nat, NEW m \in Nat, NEW v \in Nat, NEW w \in Nat,
         NEW x \in Nat, NEW v2 \in Nat, NEW w2 \in Nat, NEW x2 \in Nat,
         \/ x2 <= l /\ v2 <= m
         \/ /\ x + L * v <= l + L * (w + m)
            /\ \/ x2 = x /\ v2 <= v /\ w2 = w
               \/ x2 = x /\ v2 <= v + 1 /\ w2 = w + 1
               \/ x2 <= x + L /\ v2 + 1 <= v /\ w2 = w
  PROVE  x2 + L * v2 <= l + L * (w2 + m)
<1>1. ASSUME NEW a \in Nat, NEW b \in Nat, a <= b
      PROVE  L * a <= L * b /\ L * a \in Nat /\ L * b \in Nat
  <2>1. PICK d \in Nat : b = a + d
    <3>1. b - a \in Nat /\ b = a + (b - a)
      BY <1>1
    <3> QED BY <3>1
  <2>2. L * b = L * a + L * d /\ L * d \in Nat /\ L * a \in Nat
    BY <2>1
  <2> QED BY <2>2
<1>2. L * (v + 1) = L * v + L /\ L * (v2 + 1) = L * v2 + L /\ L * (w + 1 + m) = L * (w + m) + L
  OBVIOUS
<1>3. CASE x2 <= l /\ v2 <= m
  <2>1. v2 <= w2 + m /\ w2 + m \in Nat
    BY <1>3
  <2>2. L * v2 <= L * (w2 + m) /\ L * v2 \in Nat /\ L * (w2 + m) \in Nat
    BY <1>1, <2>1
  <2> QED BY <1>3, <2>2
<1>4. CASE x + L * v <= l + L * (w + m) /\ x2 = x /\ v2 <= v /\ w2 = w
  <2>1. L * v2 <= L * v /\ L * v2 \in Nat /\ L * v \in Nat
    BY <1>1, <1>4
  <2>2. PICK a, b, c : a = L * v2 /\ b = L * v /\ c = L * (w + m)
    OBVIOUS
  <2>3. L * (w + m) \in Nat
    OBVIOUS
  <2> QED BY <1>4, <2>1, <2>2, <2>3
<1>5. CASE x + L * v <= l + L * (w + m) /\ x2 = x /\ v2 <= v + 1 /\ w2 = w + 1
  <2>1. L * v2 <= L * (v + 1)
    BY <1>1, <1>5
  <2>2. /\ L * v2 \in Nat /\ L * v \in Nat /\ L * (w + m) \in Nat
        /\ L * (w2 + m) = L * (w + m) + L
    BY <1>2, <1>5
  <2> QED BY <1>2, <1>5, <2>1, <2>2
<1>6. CASE x + L * v <= l + L * (w + m) /\ x2 <= x + L /\ v2 + 1 <= v /\ w2 = w
  <2>1. L * (v2 + 1) <= L * v
    BY <1>1, <1>6
  <2>2. L * v2 \in Nat /\ L * v \in Nat /\ L * (w + m) \in Nat
    OBVIOUS
  <2> QED BY <1>2, <1>6, <2>1, <2>2
<1> QED BY <1>3, <1>4, <1>5, <1>6

LEMMA CrowdKeeps ==
  ASSUME TypeOK, Shifting, OpenedLast, LockHeld, Crowd, [Next]_vars
  PROVE  Crowd'
<1>h. home' = home
  BY DEF Next, Record, Finished, Begin, CheckSize, Look, Move, MoveMain, Open, Write,
         ReplaceFails, WriteFails, Kill, Follow, TailExists, TailOpen, TailSeek, TailRead,
         TailCompare, vars, logVars
<1>s. Sharers' = Sharers
  BY <1>h DEF Sharers
<1>a. /\ lines \in Seq(Seq(Line)) /\ Len(lines) \in Nat /\ 0 \in Names
      /\ \A f \in Inodes : size[f] \in Nat
      /\ warned \in Nat /\ MaxBytes \in Nat /\ LongestLine \in Nat
      /\ Cardinality(Sharers) \in Nat
  BY NamesFact, LogAssumption, SharersFinite DEF TypeOK, Inodes
<1>b. /\ files \in [Names -> 0 .. Len(lines)]
      /\ pc \in [Threads -> {"idle", "check", "shift", "move", "open", "write"}]
      /\ handle \in [Threads -> 0 .. Len(lines)]
  BY DEF TypeOK
<1>w. \A f : Writers(f) \in SUBSET Sharers /\ Writers(f)' \in SUBSET Sharers
  BY <1>s DEF Writers
<1>l. Limit \in Nat /\ \A x \in Nat : x < MaxBytes => x <= Limit
  BY <1>a DEF Limit
\* The files as they are, and for each one no more writers than before.
<1>1. ASSUME UNCHANGED <<lines, size, warned>>,
             \A f \in Inodes, u \in Threads : Writing(u, f)' => Writing(u, f)
      PROVE  Crowd'
  <2> SUFFICES ASSUME NEW f \in Inodes
               PROVE  size[f] + LongestLine * Cardinality(Writers(f)')
                      <= Limit + LongestLine * (warned + Cardinality(Sharers))
    BY <1>1, <1>s DEF Crowd, Inodes, Limit
  <2>1. Writers(f)' \subseteq Writers(f)
    BY <1>1, <1>h, <1>s DEF Writers
  <2>2. Cardinality(Writers(f)') <= Cardinality(Writers(f))
        /\ Cardinality(Writers(f)) \in Nat /\ Cardinality(Writers(f)') \in Nat
    BY <1>w, <2>1, SharersCounted
  <2> QED BY <1>a, <1>l, <2>2, RoomLeft DEF Crowd
\* One more writer, and a warning.
<1>2. ASSUME NEW t \in Threads, lines' = lines, size' = size, warned' = warned + 1,
             \A f \in Inodes, u \in Threads : u # t /\ Writing(u, f)' => Writing(u, f)
      PROVE  Crowd'
  <2> SUFFICES ASSUME NEW f \in Inodes
               PROVE  size[f] + LongestLine * Cardinality(Writers(f)')
                      <= Limit + LongestLine * (warned + 1 + Cardinality(Sharers))
    BY <1>2, <1>s DEF Crowd, Inodes, Limit
  <2>1. Writers(f)' \subseteq Writers(f) \cup {home[t]}
    BY <1>2, <1>h, <1>s DEF Writers
  <2>2. Cardinality(Writers(f)') <= Cardinality(Writers(f)) + 1
        /\ Cardinality(Writers(f)) \in Nat /\ Cardinality(Writers(f)') \in Nat
    BY <1>w, <2>1, SharersCounted
  <2>3. PICK w2 \in Nat : w2 = warned + 1
    BY <1>a
  <2>4. size[f] + LongestLine * Cardinality(Writers(f))
        <= Limit + LongestLine * (warned + Cardinality(Sharers))
    BY DEF Crowd
  <2>5. size[f] + LongestLine * Cardinality(Writers(f)')
        <= Limit + LongestLine * (w2 + Cardinality(Sharers))
    BY <1>a, <1>l, <2>2, <2>3, <2>4, RoomLeft
  <2> QED BY <2>3, <2>5
<1>3. ASSUME NEW t \in Threads, Begin(t) \/ Look(t) PROVE Crowd'
  <2>1. /\ UNCHANGED <<lines, size, warned, handle, files>>
        /\ pc'[t] \notin {"write", "open"} /\ \A u \in Threads : u # t => pc'[u] = pc[u]
    BY <1>3, <1>b DEF Begin, Look
  <2>2. \A f \in Inodes, u \in Threads : Writing(u, f)' => Writing(u, f)
    BY <2>1 DEF Writing
  <2> QED BY <1>1, <2>1, <2>2
<1>4. ASSUME NEW t \in Threads, CheckSize(t) PROVE Crowd'
  <2>1. /\ UNCHANGED <<lines, size, warned, handle, files>>
        /\ pc'[t] \notin {"write"} /\ \A u \in Threads : u # t => pc'[u] = pc[u]
        /\ pc'[t] = "open" => files[0] = 0 \/ ~ (size[files[0]] >= MaxBytes)
    BY <1>4, <1>b DEF CheckSize
  <2> SUFFICES ASSUME NEW f \in Inodes
               PROVE  size[f] + LongestLine * Cardinality(Writers(f)')
                      <= Limit + LongestLine * (warned + Cardinality(Sharers))
    BY <1>s, <2>1 DEF Crowd, Inodes, Limit
  <2>2. Cardinality(Writers(f)) \in Nat /\ Cardinality(Writers(f)') \in Nat
        /\ Cardinality(Writers(f)') <= Cardinality(Sharers)
    BY <1>w, SharersCounted
  <2>3. CASE f = files[0] /\ pc'[t] = "open"
    <3>1. size[f] < MaxBytes /\ size[f] \in Nat
      BY <1>a, <2>1, <2>3 DEF Inodes
    <3> QED BY <1>a, <1>l, <2>2, <3>1, RoomLeft
  <2>4. CASE ~ (f = files[0] /\ pc'[t] = "open")
    <3>1. \A u \in Threads : Writing(u, f)' => Writing(u, f)
      BY <2>1, <2>4 DEF Writing
    <3>2. Writers(f)' \subseteq Writers(f)
      BY <3>1, <1>h, <1>s DEF Writers
    <3>3. Cardinality(Writers(f)') <= Cardinality(Writers(f))
      BY <1>w, <3>2, SharersCounted
    <3> QED BY <1>a, <1>l, <2>2, <3>3, RoomLeft DEF Crowd
  <2> QED BY <2>3, <2>4
<1>5. ASSUME NEW t \in Threads, Move(t) PROVE Crowd'
  <2>1. /\ pc[t] = "move" /\ index[t] # 0 /\ index[t] + 1 # 0 /\ UNCHANGED <<lines, size, handle>>
        /\ \A u \in Threads : u # t => pc'[u] = pc[u]
    BY <1>5, <1>b, NamesFact DEF Move, Shifting, TypeOK
  <2>2. CASE files[index[t]] # 0
    <3>1. files' = Renamed(index[t]) /\ pc'[t] = "shift" /\ warned' = warned
      BY <1>5, <1>b, <2>2 DEF Move
    <3>2. files'[0] = files[0]
      BY <1>a, <1>b, <2>1, <3>1 DEF Renamed
    <3>3. \A f \in Inodes, u \in Threads : Writing(u, f)' => Writing(u, f)
      BY <2>1, <3>1, <3>2 DEF Writing
    <3> QED BY <1>1, <2>1, <3>1, <3>3
  <2>3. CASE files[index[t]] = 0
    <3>1. files' = files /\ warned' = warned + 1
      BY <1>5, <2>3 DEF Move
    <3>2. \A f \in Inodes, u \in Threads : u # t /\ Writing(u, f)' => Writing(u, f)
      BY <2>1, <3>1 DEF Writing
    <3> QED BY <1>2, <2>1, <3>1, <3>2
  <2> QED BY <2>2, <2>3
<1>6. ASSUME NEW t \in Threads, MoveMain(t) PROVE Crowd'
  <2>1. /\ UNCHANGED <<lines, size, handle>> /\ pc'[t] = "open"
        /\ \A u \in Threads : u # t => pc'[u] = pc[u]
    BY <1>6, <1>b DEF MoveMain
  <2>2. CASE files[0] # 0
    <3>1. files' = Renamed(0) /\ warned' = warned
      BY <1>6, <2>2 DEF MoveMain
    <3>2. files'[0] = 0
      BY <1>a, <1>b, <3>1 DEF Renamed
    <3>3. \A f \in Inodes, u \in Threads : Writing(u, f)' => Writing(u, f)
      BY <2>1, <3>2 DEF Writing, Inodes
    <3> QED BY <1>1, <2>1, <3>1, <3>3
  <2>3. CASE files[0] = 0
    <3>1. files' = files /\ warned' = warned + 1
      BY <1>6, <2>3 DEF MoveMain
    <3>2. \A f \in Inodes, u \in Threads : u # t /\ Writing(u, f)' => Writing(u, f)
      BY <2>1, <3>1 DEF Writing
    <3> QED BY <1>2, <2>1, <3>1, <3>2
  <2> QED BY <2>2, <2>3
<1>7. ASSUME NEW t \in Threads, ReplaceFails(t) PROVE Crowd'
  <2>1. /\ UNCHANGED <<lines, size, handle, files>> /\ warned' = warned + 1
        /\ \A u \in Threads : u # t => pc'[u] = pc[u]
    BY <1>7, <1>b DEF ReplaceFails
  <2>2. \A f \in Inodes, u \in Threads : u # t /\ Writing(u, f)' => Writing(u, f)
    BY <2>1 DEF Writing
  <2> QED BY <1>2, <2>1, <2>2
<1>8. ASSUME NEW t \in Threads, Open(t) PROVE Crowd'
  <2>1. /\ pc[t] = "open" /\ pc'[t] = "write" /\ warned' = warned
        /\ \A u \in Threads : u # t => pc'[u] = pc[u]
    BY <1>8, <1>b DEF Open
  <2>2. CASE files[0] # 0
    <3>1. UNCHANGED <<files, lines, size>> /\ handle' = [handle EXCEPT ![t] = files[0]]
      BY <1>8, <2>2 DEF Open
    <3>2. \A f \in Inodes, u \in Threads : Writing(u, f)' => Writing(u, f)
      BY <1>b, <2>1, <3>1 DEF Writing
    <3> QED BY <1>1, <2>1, <3>1, <3>2
  <2>3. CASE files[0] = 0
    <3>1. PICK new : new = Len(lines) + 1
      OBVIOUS
    <3>2. /\ files' = [files EXCEPT ![0] = new] /\ handle' = [handle EXCEPT ![t] = new]
          /\ Len(lines') = new /\ size'[new] = 0 /\ \A f \in Inodes : size'[f] = size[f]
      BY <1>8, <2>3, <3>1, CreateIs, CreateSizes DEF Open
    <3>3. files'[0] = new /\ \A u \in Threads : handle'[u] = IF u = t THEN new ELSE handle[u]
      BY <1>a, <1>b, <3>2
    <3>4. new \in Nat /\ new \notin Inodes /\ Inodes' = Inodes \cup {new}
      BY <1>a, <3>1, <3>2 DEF Inodes
    <3>5. ASSUME NEW f \in Inodes
          PROVE  size'[f] + LongestLine * Cardinality(Writers(f)')
                 <= Limit + LongestLine * (warned + Cardinality(Sharers))
      <4>1. \A u \in Threads : Writing(u, f)' => Writing(u, f)
        BY <2>1, <3>3, <3>4 DEF Writing
      <4>2. Writers(f)' \subseteq Writers(f)
        BY <4>1, <1>h, <1>s DEF Writers
      <4>3. Cardinality(Writers(f)') <= Cardinality(Writers(f))
            /\ Cardinality(Writers(f)) \in Nat /\ Cardinality(Writers(f)') \in Nat
        BY <1>w, <4>2, SharersCounted
      <4> QED BY <1>a, <1>l, <3>2, <4>3, RoomLeft DEF Crowd
    <3>6. size'[new] + LongestLine * Cardinality(Writers(new)')
          <= Limit + LongestLine * (warned + Cardinality(Sharers))
      <4>1. Cardinality(Writers(new)') <= Cardinality(Sharers)
            /\ Cardinality(Writers(new)') \in Nat
        BY <1>w, SharersCounted
      <4>2. PICK x2 \in Nat : x2 = size'[new] /\ x2 <= Limit
        BY <1>l, <3>2
      <4> QED BY <1>a, <1>l, <4>1, <4>2, RoomLeft
    <3>7. Limit' = Limit
      BY DEF Limit
    <3> QED BY <1>s, <2>1, <3>4, <3>5, <3>6, <3>7 DEF Crowd
  <2> QED BY <2>2, <2>3
<1>9. ASSUME NEW t \in Threads, Write(t) PROVE Crowd'
  <2>1. handle[t] # 0 /\ pc[t] = "write"
    BY <1>9 DEF Write, OpenedLast
  <2>2. PICK h : h = handle[t]
    OBVIOUS
  <2>3. /\ h \in Inodes /\ Len(lines') = Len(lines)
        /\ \A f \in Inodes : size'[f] \in Nat
                              /\ size'[f] <= size[f] + (IF f = h THEN LongestLine ELSE 0)
        /\ \A f \in Inodes : f # h => size'[f] = size[f]
    <3>1. h \in Inodes /\ Len(lines') = Len(lines)
      BY <1>9, <2>1, <2>2, WriteIs
    <3>2. \A f \in Inodes : f # h => size'[f] = size[f]
      BY <1>9, <2>2 DEF Write, TypeOK, Inodes
    <3> QED BY <1>9, <2>1, <2>2, <3>1, <3>2, WriteSizes
  <2>4. /\ UNCHANGED <<files, warned>> /\ pc'[t] = "idle"
        /\ \A u \in Threads : u # t => pc'[u] = pc[u] /\ handle'[u] = handle[u]
    BY <1>9, <1>b DEF Write
  <2>5. \A f \in Inodes, u \in Threads : Writing(u, f)' => Writing(u, f) /\ u # t
    BY <2>4 DEF Writing
  <2>6. \A f \in Inodes : Writers(f)' \subseteq Writers(f)
    BY <2>5, <1>h, <1>s DEF Writers
  <2>7. home[t] \in Writers(h)
    BY <2>1, <2>2 DEF Writers, Writing, Sharers
  <2>8. home[t] \notin Writers(h)'
    <3> SUFFICES ASSUME NEW u \in Threads, home[u] = home[t], Writing(u, h)' PROVE FALSE
      BY <1>h DEF Writers
    <3>1. u # t /\ Writing(u, h)
      BY <2>3, <2>5
    <3>2. pc[u] # "idle"
      BY <3>1 DEF Writing
    <3> QED BY <2>1, <3>1, <3>2, OthersIdle
  <2>9. Writers(h)' \subseteq Writers(h) \ {home[t]}
    BY <2>3, <2>6, <2>8
  <2>10. ASSUME NEW f \in Inodes
         PROVE  size'[f] + LongestLine * Cardinality(Writers(f)')
                <= Limit + LongestLine * (warned + Cardinality(Sharers))
    <3>1. Cardinality(Writers(f)') <= Cardinality(Writers(f))
          /\ Cardinality(Writers(f)) \in Nat /\ Cardinality(Writers(f)') \in Nat
      BY <1>w, <2>6, SharersCounted
    <3>2. CASE f = h
      <4>1. Cardinality(Writers(f)') + 1 <= Cardinality(Writers(f))
        BY <1>w, <2>7, <2>9, <3>2, SharersCounted
      <4>2. size'[f] \in Nat /\ size'[f] <= size[f] + LongestLine /\ size[f] \in Nat
        BY <1>a, <2>3, <3>2
      <4>3. size[f] + LongestLine * Cardinality(Writers(f)) <= Limit + LongestLine * (warned + Cardinality(Sharers))
        BY DEF Crowd
      <4> QED BY <1>a, <1>l, <3>1, <4>1, <4>2, <4>3, RoomLeft
    <3>3. CASE f # h
      <4>1. size'[f] = size[f]
        BY <2>3, <3>3
      <4> QED BY <1>a, <1>l, <3>1, <4>1, RoomLeft DEF Crowd
    <3> QED BY <3>2, <3>3
  <2> QED BY <1>s, <2>3, <2>4, <2>10 DEF Crowd, Inodes, Limit
<1>10. ASSUME NEW t \in Threads, WriteFails(t) PROVE Crowd'
  <2>1. /\ UNCHANGED <<files, lines, size, warned>> /\ pc'[t] = "idle"
        /\ \A u \in Threads : u # t => pc'[u] = pc[u] /\ handle'[u] = handle[u]
    BY <1>10, <1>b DEF WriteFails
  <2>2. \A f \in Inodes, u \in Threads : Writing(u, f)' => Writing(u, f)
    BY <2>1 DEF Writing
  <2> QED BY <1>1, <2>1, <2>2
<1>11. ASSUME NEW p \in Processes, Kill(p) PROVE Crowd'
  <2>1. /\ pc' = [u \in Threads |-> IF home[u] = p THEN "idle" ELSE pc[u]]
        /\ handle' = [u \in Threads |-> IF home[u] = p THEN 0 ELSE handle[u]]
        /\ UNCHANGED <<files, lines, size, warned>>
    BY <1>11 DEF Kill
  <2>2. \A f \in Inodes, u \in Threads : Writing(u, f)' => Writing(u, f)
    BY <2>1 DEF Writing
  <2> QED BY <1>1, <2>1, <2>2
<1>12. CASE Follow \/ UNCHANGED vars
  <2>1. UNCHANGED <<pc, handle, files, lines, size, warned>>
    BY <1>12 DEF Follow, TailExists, TailOpen, TailSeek, TailRead, TailCompare, vars, logVars
  <2>2. \A f \in Inodes, u \in Threads : Writing(u, f)' => Writing(u, f)
    BY <2>1 DEF Writing
  <2> QED BY <1>1, <2>1, <2>2
<1> QED BY <1>3, <1>4, <1>5, <1>6, <1>7, <1>8, <1>9, <1>10, <1>11, <1>12
       DEF Next, Record, Finished

----------------------------------------------------------------------------
(* The theorems.                                                            *)

DirectoryInv == LockHeld /\ ShiftedAbove /\ OldestIsDroppedWhenAlone /\ Crowd

LEMMA RotateInvAlways == Spec => []RotateInv
<1>1. Init => RotateInv
  BY RotateInvInit
<1>2. RotateInv /\ [Next]_vars => RotateInv'
  <2> SUFFICES ASSUME RotateInv, [Next]_vars PROVE RotateInv'
    OBVIOUS
  <2>1. /\ TypeOK /\ Shifting /\ Sorted /\ NewestIsMain /\ Counted /\ Ordered /\ OpenedLast
        /\ TailerPlace
    BY DEF RotateInv, LogInv
  <2>2. TypeOK' /\ Shifting'
    BY <2>1, TypesKeep
  <2>3. Sorted' /\ NewestIsMain'
    BY <2>1, FilesKeep
  <2>4. Counted' /\ Ordered' /\ OpenedLast'
    BY <2>1, LinesKeep
  <2>5. TailerPlace' /\ TailedSoFar' /\ ShownInOrder'
    BY TailKeep
  <2> QED BY <2>2, <2>3, <2>4, <2>5 DEF RotateInv, LogInv
<1> QED BY <1>1, <1>2, PTL DEF Spec

LEMMA DirectoryInvAlways == Spec => []DirectoryInv
<1>1. Init => DirectoryInv
  <2> SUFFICES ASSUME Init PROVE LockHeld /\ ShiftedAbove /\ OldestIsDroppedWhenAlone /\ Crowd
    BY DEF DirectoryInv
  <2>1. LockHeld /\ ShiftedAbove
    BY DEF Init, LockHeld, ShiftedAbove
  <2>2. Kept = {}
    BY NamesFact DEF Init, Kept
  <2>3. Inodes = {}
    BY DEF Init, Inodes
  <2> QED BY <2>1, <2>2, <2>3 DEF OldestIsDroppedWhenAlone, OldestIsDropped, Crowd
<1>2. RotateInv /\ DirectoryInv /\ [Next]_vars => DirectoryInv'
  <2> SUFFICES ASSUME RotateInv, DirectoryInv, [Next]_vars PROVE DirectoryInv'
    OBVIOUS
  <2>1. TypeOK /\ Shifting /\ Sorted /\ NewestIsMain /\ OpenedLast
    BY DEF RotateInv, LogInv
  <2>2. LockHeld /\ ShiftedAbove /\ OldestIsDroppedWhenAlone /\ Crowd
    BY DEF DirectoryInv
  <2>3. LockHeld'
    BY <2>1, <2>2, LockKeeps
  <2>4. ShiftedAbove' /\ OldestIsDroppedWhenAlone'
    BY <2>1, <2>2, OldestKeeps
  <2>5. Crowd'
    BY <2>1, <2>2, CrowdKeeps
  <2> QED BY <2>3, <2>4, <2>5 DEF DirectoryInv
<1> QED BY <1>1, <1>2, RotateInvAlways, PTL DEF Spec

\* Names, inodes, handles and the places of the threads and of the tailer keep
\* their types.
THEOREM LogTypeCorrect == Spec => []TypeOK
<1>1. RotateInv => TypeOK
  BY DEF RotateInv, LogInv
<1> QED BY <1>1, RotateInvAlways, PTL

\* However many processes rotate the directory at once, are killed or fail to
\* rename, the lines of a thread are in order from the oldest backup to the main
\* file.
THEOREM LogLinesStayInOrder == Spec => []LinesInOrder
<1>1. RotateInv => LinesInOrder
  <2> SUFFICES ASSUME RotateInv, NEW i \in Names, NEW j \in Names,
                      files[i] # 0, files[j] # 0,
                      NEW k \in Places(files[i]), NEW l \in Places(files[j]),
                      lines[files[i]][k].by = lines[files[j]][l].by,
                      i > j \/ (i = j /\ k < l)
               PROVE  lines[files[i]][k].n < lines[files[j]][l].n
    BY DEF LinesInOrder, Places
  <2>1. TypeOK /\ Sorted /\ Ordered
    BY DEF RotateInv, LogInv
  <2>2. files[i] \in Inodes /\ files[j] \in Inodes
    BY <2>1 DEF TypeOK, Inodes
  <2>3. files[i] < files[j] \/ (files[i] = files[j] /\ k < l)
    BY <2>1 DEF Sorted
  <2> QED BY <2>1, <2>2, <2>3 DEF Ordered
<1> QED BY <1>1, RotateInvAlways, PTL

\* However often the file is rotated and reopened, the terminal shows the lines
\* of a thread in order, and none of them twice.
THEOREM TailerShowsInOrder == Spec => []ShownInOrder
<1>1. RotateInv => ShownInOrder
  BY DEF RotateInv
<1> QED BY <1>1, RotateInvAlways, PTL

\* In one process, whichever thread rotates and wherever it is killed or fails
\* to rename, no line is dropped while an older one is kept.
THEOREM OldestDroppedFirst == Spec => []OldestIsDroppedWhenAlone
<1>1. DirectoryInv => OldestIsDroppedWhenAlone
  BY DEF DirectoryInv
<1> QED BY <1>1, DirectoryInvAlways, PTL

\* The size is compared before a line is written, so a file ends less than one
\* line above max_bytes in one process; every other process that shares the
\* directory and every failed rotation that was warned of may add one more.
THEOREM FilesStayBounded == Spec => []FilesAreBounded
<1>1. RotateInv /\ DirectoryInv => FilesAreBounded
  <2> SUFFICES ASSUME RotateInv, DirectoryInv, NEW i \in Names, files[i] # 0
               PROVE  size[files[i]] <= Limit + LongestLine * (warned + Cardinality(Sharers))
    BY DEF FilesAreBounded, Limit
  <2>1. TypeOK /\ Crowd
    BY DEF RotateInv, LogInv, DirectoryInv
  <2>2. files[i] \in Inodes /\ size[files[i]] \in Nat /\ warned \in Nat
    BY <2>1 DEF TypeOK, Inodes
  <2>3. Writers(files[i]) \in SUBSET Sharers /\ Sharers \in SUBSET Sharers
    BY DEF Writers
  <2>4. Cardinality(Writers(files[i])) \in Nat /\ Cardinality(Sharers) \in Nat
    BY <2>1, <2>3, SharersCounted
  <2>5. Limit \in Nat /\ LongestLine \in Nat
    BY LogAssumption DEF Limit
  <2>6. size[files[i]] + LongestLine * Cardinality(Writers(files[i]))
        <= Limit + LongestLine * (warned + Cardinality(Sharers))
    BY <2>1, <2>2 DEF Crowd
  <2>7. /\ LongestLine * Cardinality(Writers(files[i])) \in Nat
        /\ LongestLine * (warned + Cardinality(Sharers)) \in Nat
    BY <2>2, <2>4, <2>5
  <2> QED BY <2>2, <2>5, <2>6, <2>7
<1> QED BY <1>1, RotateInvAlways, DirectoryInvAlways, PTL
=============================================================================
