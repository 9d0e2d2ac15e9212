---------------------------- MODULE LedgerRollup ----------------------------
(***************************************************************************)
(* Packing event files while they are written and read.                    *)
(*                                                                         *)
(* An event file is a live file that writers open by name and append to,   *)
(* and the slices of it that ledger_rollup has packed into segments.  A    *)
(* reader puts the two together (ledger_files._read_bytes).  The rollup    *)
(* publishes a slice by renaming an index, then renames the live file      *)
(* aside, and deletes it in a later run.  Nobody takes a lock that another *)
(* party looks at: the rollup looks for open files in /proc, before and    *)
(* after, and compares what it sees with what it saw.                      *)
(*                                                                         *)
(* A file's content is a sequence of lines; a line is a number, given in   *)
(* the order of the appends.  An inode is what an open file refers to,     *)
(* whatever its name has become.                                           *)
(***************************************************************************)
EXTENDS Naturals, Sequences, FiniteSets, SequencesExt

CONSTANTS
    Names,      \* event files
    Executors,  \* those of the long-lived executor: recreated when packed
    Writers,    \* processes that append
    Reads,      \* the kinds of reads: TRUE compares keys, FALSE does not
    MaxLines,   \* bound: lines appended
    MaxInodes,  \* bound: files created
    MaxSegments, \* bound: segments published; next_segment has 99 a day
    MaxCrashes  \* bound: rollups that die

ASSUME RollupAssumption ==
    /\ Executors \subseteq Names
    /\ Reads \subseteq BOOLEAN
    /\ {MaxLines, MaxInodes, MaxSegments, MaxCrashes} \subseteq Nat

NoInode == 0
Inodes  == 1..MaxInodes
LineIds == 1..MaxLines
MaybeInode == Inodes \cup {NoInode}

VARIABLES
    content,    \* [Inodes -> lines]
    inodes,     \* how many inodes are in use
    live,       \* [Names -> inode in events/, or NoInode]
    pending,    \* [Names -> inode in segments/.pending/, or NoInode]
    segments,   \* how many segments have an index
    slices,     \* [Names -> sequence of published slices, by segment name]
    fd,         \* [Writers -> [name, ino] of its open file, or Closed]
    hist,       \* [Names -> lines in the order they were appended]
    clobbered,  \* inodes another file was renamed over
    rpc,        \* the rollup: where it is
    cur,        \* the name it works on
    sel,        \* its candidates: [ino, size, data, todo] by name
    seen,       \* the open inodes of its last scan
    reader,     \* one read of one file, see ReaderType
    crashes

disk == <<content, inodes, live, pending, segments, slices, clobbered>>
roll == <<rpc, cur, sel, seen>>
vars == <<disk, fd, hist, roll, reader, crashes>>

-----------------------------------------------------------------------------
(* Types *)

NoName == "none"
Closed == [name |-> NoName, ino |-> NoInode]

\* A stage: what is left to do with a candidate.
Stage == {"no", "picked", "valid", "aside"}
Unpicked == [ino |-> NoInode, size |-> 0, data |-> <<>>, todo |-> "no"]

RollupPC == {"off", "clean", "unlink", "uback", "scan", "pick", "vscan", "vcheck",
             "publish", "loop", "rename", "recheck", "back", "recreate"}

IdleReader == [pc |-> "off", name |-> NoName, checked |-> FALSE, before |-> {},
               key |-> <<>>, moved |-> FALSE, members |-> <<>>, data |-> <<>>]

TypeOK ==
    /\ content \in [Inodes -> Seq(LineIds)]
    /\ inodes \in 0..MaxInodes
    /\ live \in [Names -> MaybeInode] /\ pending \in [Names -> MaybeInode]
    /\ slices \in [Names -> Seq(Seq(LineIds))]
    /\ \A w \in Writers : fd[w] = Closed \/ fd[w] \in [name : Names, ino : Inodes]
    /\ segments \in 0..MaxSegments
    /\ hist \in [Names -> Seq(LineIds)]
    /\ clobbered \subseteq Inodes
    /\ rpc \in RollupPC /\ cur \in Names \cup {NoName}
    /\ \A n \in Names : sel[n].todo \in Stage /\ sel[n].ino \in MaybeInode
    /\ seen \subseteq Inodes
    /\ reader.pc \in {"off", "key", "members", "live", "done"}
    /\ crashes \in 0..MaxCrashes

-----------------------------------------------------------------------------
(* What a reader composes: ledger_files._read_bytes *)

Packed(parts) == FlattenSeq(parts)

\* mutant: the copy that is still live is not recognised
ComposeBlindly(parts, there, text) ==
    IF ~there THEN Packed(parts) ELSE Packed(parts) \o text

\* A live file that repeats all that is packed adds only what follows; any
\* other live file continues it.
Compose(parts, there, text) ==
    IF ~there THEN Packed(parts)
    ELSE IF IsPrefix(Packed(parts), text) THEN text
    ELSE Packed(parts) \o text

Text(ino) == IF ino = NoInode THEN <<>> ELSE content[ino]
View(n) == Compose(slices[n], live[n] # NoInode, Text(live[n]))

\* ledger_files.stat_key: the inode, the total size, the slices' times.  Its
\* ctime is kept apart: a rename of the inode changes it, see Touch.
StatKey(n) == <<live[n], Len(Text(live[n])), Len(slices[n])>>

-----------------------------------------------------------------------------
(* Helpers of the rollup *)

Open == {fd[w].ino : w \in Writers} \ {NoInode}      \* open_files, by /proc
NothingOpen == {}                                    \* mutant: no scan

\* unchanged: the same inode with the same size as when it was read.
Unchanged(ino, n) == ino = sel[n].ino /\ Len(Text(ino)) = sel[n].size

\* The next candidate at a stage, in no particular order.
At(stage) == {n \in Names : sel[n].todo = stage}

Settle(n, stage) == sel' = [sel EXCEPT ![n].todo = stage]

Exit ==
    /\ rpc' = "off" /\ cur' = NoName /\ seen' = {}
    /\ sel' = [n \in Names |-> Unpicked]

\* The reader's file is renamed: its ctime is another one now.
Touch(n) == reader' = IF reader.name = n THEN [reader EXCEPT !.moved = TRUE] ELSE reader

Init ==
    /\ content = [i \in Inodes |-> <<>>] /\ inodes = 0
    /\ live = [n \in Names |-> NoInode] /\ pending = [n \in Names |-> NoInode]
    /\ slices = [n \in Names |-> <<>>] /\ segments = 0
    /\ fd = [w \in Writers |-> Closed]
    /\ hist = [n \in Names |-> <<>>] /\ clobbered = {}
    /\ rpc = "off" /\ cur = NoName /\ seen = {}
    /\ sel = [n \in Names |-> Unpicked]
    /\ reader = IdleReader
    /\ crashes = 0

-----------------------------------------------------------------------------
(* Writers *)

\* open(path, "ab"): the live file, created if there is none.
Create(n) ==
    /\ inodes < MaxInodes
    /\ inodes' = inodes + 1
    /\ live' = [live EXCEPT ![n] = inodes + 1]
    /\ UNCHANGED <<content, pending, segments, slices, clobbered>>

OpenLive(w, n) ==
    /\ fd[w] = Closed
    /\ IF live[n] = NoInode
       THEN Create(n) /\ fd' = [fd EXCEPT ![w] = [name |-> n, ino |-> inodes + 1]]
       ELSE UNCHANGED disk /\ fd' = [fd EXCEPT ![w] = [name |-> n, ino |-> live[n]]]
    /\ UNCHANGED <<hist, roll, reader, crashes>>

Lines == UNION {ToSet(hist[n]) : n \in Names}

\* One line, appended to the open inode, wherever its name is by now.
WriteLine(w) ==
    /\ fd[w] # Closed /\ Cardinality(Lines) < MaxLines
    /\ LET line == Cardinality(Lines) + 1
       IN  /\ content' = [content EXCEPT ![fd[w].ino] = Append(@, line)]
           /\ hist' = [hist EXCEPT ![fd[w].name] = Append(@, line)]
    /\ UNCHANGED <<inodes, live, pending, segments, slices, clobbered, fd, roll, reader, crashes>>

Close(w) ==
    /\ fd[w] # Closed
    /\ fd' = [fd EXCEPT ![w] = Closed]
    /\ UNCHANGED <<disk, hist, roll, reader, crashes>>

-----------------------------------------------------------------------------
(* The rollup: run *)

\* The lock is free.  What an earlier run left in .pending comes first; a
\* pending file that no index names is refused (problems).
Start ==
    /\ rpc = "off"
    /\ \A n \in Names : pending[n] # NoInode => slices[n] # <<>>
    /\ rpc' = "clean"
    /\ UNCHANGED <<disk, fd, hist, cur, sel, seen, reader, crashes>>

\* pending_cleanup: a writer that still has the file open ends the run.
CleanScan ==
    /\ rpc = "clean"
    /\ \/ \E n \in Names :
            /\ pending[n] # NoInode
            /\ IF pending[n] \in Open THEN Exit
               ELSE rpc' = "unlink" /\ cur' = n /\ UNCHANGED <<sel, seen>>
       \/ /\ \A n \in Names : pending[n] = NoInode
          /\ rpc' = "scan" /\ UNCHANGED <<cur, sel, seen>>
    /\ UNCHANGED <<disk, fd, hist, reader, crashes>>

\* What may be deleted is equal to all that is packed, or to one slice.
PackedForms(n) == {Packed(slices[n])} \cup ToSet(slices[n])

\* mutant: a late line behind the packed ones is not noticed
PrefixForms(n) == {t \in PackedForms(n) : IsPrefix(t, Text(pending[n]))}
EqualForms(n) == {t \in PackedForms(n) : t = Text(pending[n])}

\* Delete it; an executor's live file is created if a crash left none.
CleanUnlink ==
    /\ rpc = "unlink" /\ EqualForms(cur) # {}
    /\ pending' = [pending EXCEPT ![cur] = NoInode]
    /\ IF cur \in Executors /\ live[cur] = NoInode
       THEN /\ inodes < MaxInodes /\ inodes' = inodes + 1
            /\ live' = [live EXCEPT ![cur] = inodes + 1]
       ELSE UNCHANGED <<inodes, live>>
    /\ rpc' = "clean" /\ cur' = NoName
    /\ UNCHANGED <<content, segments, slices, clobbered, fd, hist, sel, seen, reader, crashes>>

\* A late line: the file becomes live again unless there is a new one.
CleanLate ==
    /\ rpc = "unlink" /\ EqualForms(cur) = {}
    /\ IF /\ \E t \in PackedForms(cur) : IsStrictPrefix(t, Text(pending[cur]))
          /\ live[cur] = NoInode
       THEN rpc' = "uback" /\ UNCHANGED <<cur, sel, seen>>
       ELSE Exit
    /\ UNCHANGED <<disk, fd, hist, reader, crashes>>

\* os.rename replaces whatever has the name by now.
RenameBack(n) ==
    /\ live' = [live EXCEPT ![n] = pending[n]]
    /\ pending' = [pending EXCEPT ![n] = NoInode]
    /\ clobbered' = clobbered \cup ({live[n]} \ {NoInode})
    /\ Touch(n)
    /\ UNCHANGED <<content, inodes, segments, slices>>

CleanBack ==
    /\ rpc = "uback" /\ RenameBack(cur)
    /\ rpc' = "clean" /\ cur' = NoName
    /\ UNCHANGED <<fd, hist, sel, seen, crashes>>

\* candidates: one scan, then every file is read once.
CandidateScan ==
    /\ rpc = "scan" /\ rpc' = "pick" /\ seen' = Open
    /\ UNCHANGED <<disk, fd, hist, cur, sel, reader, crashes>>

\* What is not packed yet.
Payload(n) ==
    LET text == Text(live[n]) packed == Packed(slices[n])
    IN  IF slices[n] # <<>> /\ IsPrefix(packed, text)
        THEN SubSeq(text, Len(packed) + 1, Len(text)) ELSE text

\* Age, a terminal event, the executor's size: any set of files may qualify.
\* A file whose payload is empty goes aside without a segment.
Pick ==
    /\ rpc = "pick"
    /\ \E chosen \in SUBSET {n \in Names : /\ live[n] \notin seen \cup {NoInode}
                                           /\ Text(live[n]) # <<>>} :
          IF chosen = {} THEN Exit
          ELSE /\ sel' = [n \in Names |->
                    IF n \notin chosen THEN Unpicked
                    ELSE [ino |-> live[n], size |-> Len(Text(live[n])),
                          data |-> Payload(n),
                          todo |-> IF Payload(n) = <<>> THEN "aside" ELSE "picked"]]
               /\ rpc' = "loop" /\ UNCHANGED <<cur, seen>>
    /\ UNCHANGED <<disk, fd, hist, reader, crashes>>

NamesWrap == TRUE                       \* mutant: exhaustion is not refused
NamesLeft == segments < MaxSegments

\* publish: the segment is written and verified, nobody sees it yet.  When
\* the names for segments are used up the run ends.
PublishScan ==
    /\ rpc = "vscan"
    /\ IF ~NamesLeft THEN Exit
       ELSE rpc' = "vcheck" /\ seen' = Open /\ UNCHANGED <<cur, sel>>
    /\ UNCHANGED <<disk, fd, hist, reader, crashes>>

PublishCheck ==
    /\ rpc = "vcheck" /\ rpc' = "publish"
    /\ sel' = [n \in Names |->
         IF sel[n].todo # "picked" THEN sel[n]
         ELSE IF sel[n].ino \notin seen /\ Unchanged(live[n], n)
              THEN [sel[n] EXCEPT !.todo = "valid"] ELSE Unpicked]
    /\ UNCHANGED <<disk, fd, hist, cur, seen, reader, crashes>>

\* Segments are read in the order of their names, later ones last.
AddSliceFirst(parts, data) == <<data>> \o parts   \* mutant: numbers wrap around
AddSlice(parts, data) == Append(parts, data)

\* The index gets its name: every valid slice is published at once.
Publish ==
    /\ rpc = "publish" /\ rpc' = "loop" /\ segments' = segments + 1
    /\ slices' = [n \in Names |->
         IF sel[n].todo = "valid" THEN AddSlice(slices[n], sel[n].data) ELSE slices[n]]
    /\ sel' = [n \in Names |->
         IF sel[n].todo = "valid" THEN [sel[n] EXCEPT !.todo = "aside"] ELSE sel[n]]
    /\ UNCHANGED <<content, inodes, live, pending, clobbered, fd, hist, cur, seen,
                   reader, crashes>>

\* set_aside, the first look: a file that has changed or is open stays.
AsideLook ==
    /\ rpc = "loop" /\ At("aside") # {}
    /\ \E n \in At("aside") :
          IF Unchanged(live[n], n) /\ sel[n].ino \notin Open
          THEN rpc' = "rename" /\ cur' = n /\ UNCHANGED <<sel, seen>>
          ELSE Settle(n, "no") /\ UNCHANGED <<rpc, cur, seen>>
    /\ UNCHANGED <<disk, fd, hist, reader, crashes>>

AsideNone ==
    /\ rpc = "loop" /\ At("aside") = {}
    /\ IF At("picked") # {} THEN rpc' = "vscan" /\ UNCHANGED <<cur, sel, seen>> ELSE Exit
    /\ UNCHANGED <<disk, fd, hist, reader, crashes>>

AsideRename ==
    /\ rpc = "rename"
    /\ IF pending[cur] # NoInode THEN Exit /\ UNCHANGED <<disk, reader>>  \* collision
       ELSE /\ pending' = [pending EXCEPT ![cur] = live[cur]]
            /\ live' = [live EXCEPT ![cur] = NoInode]
            /\ rpc' = "recheck" /\ Touch(cur)
            /\ UNCHANGED <<content, inodes, segments, slices, clobbered, cur, sel, seen>>
    /\ UNCHANGED <<fd, hist, crashes>>

\* The second look: a writer that was late makes it go back, unless the name
\* is taken, which ends the run.
AsideRecheck ==
    /\ rpc = "recheck"
    /\ IF Unchanged(pending[cur], cur) /\ sel[cur].ino \notin Open
       THEN /\ Settle(cur, "no") /\ UNCHANGED seen
            /\ IF cur \in Executors THEN rpc' = "recreate" /\ UNCHANGED cur
                                    ELSE rpc' = "loop" /\ cur' = NoName
       ELSE IF live[cur] = NoInode THEN rpc' = "back" /\ UNCHANGED <<cur, sel, seen>>
       ELSE Exit
    /\ UNCHANGED <<disk, fd, hist, reader, crashes>>

AsideBack ==
    /\ rpc = "back" /\ RenameBack(cur)
    /\ Settle(cur, "no") /\ rpc' = "loop" /\ cur' = NoName
    /\ UNCHANGED <<fd, hist, seen, crashes>>

AsideRecreate ==
    /\ rpc = "recreate"
    /\ IF live[cur] = NoInode THEN Create(cur) ELSE UNCHANGED disk
    /\ rpc' = "loop" /\ cur' = NoName
    /\ UNCHANGED <<fd, hist, sel, seen, reader, crashes>>

Crash ==
    /\ rpc # "off" /\ crashes < MaxCrashes
    /\ crashes' = crashes + 1 /\ Exit
    /\ UNCHANGED <<disk, fd, hist, reader>>

Rollup ==
    \/ Start \/ CleanScan \/ CleanUnlink \/ CleanLate \/ CleanBack
    \/ CandidateScan \/ Pick \/ PublishScan \/ PublishCheck \/ Publish
    \/ AsideLook \/ AsideNone \/ AsideRename \/ AsideRecheck \/ AsideBack
    \/ AsideRecreate \/ Crash

-----------------------------------------------------------------------------
(* One reader *)

\* ledger_cache._file takes the file's key first and compares it at the end;
\* fold._read_events_uncached just reads.
ReadBegin(n, checked) ==
    /\ reader.pc = "off" /\ live[n] # NoInode
    /\ reader' = [IdleReader EXCEPT !.pc = "key", !.name = n, !.checked = checked,
                  !.before = ToSet(View(n)), !.key = StatKey(n)]
    /\ UNCHANGED <<disk, fd, hist, roll, crashes>>

\* _members: the slices of this name.
ReadMembers ==
    /\ reader.pc = "key"
    /\ reader' = [reader EXCEPT !.pc = "members", !.members = slices[reader.name]]
    /\ UNCHANGED <<disk, fd, hist, roll, crashes>>

\* The live file; without one and without slices there is nothing to read.
ReadLive ==
    /\ reader.pc = "members"
    /\ LET ino == live[reader.name]
       IN  reader' = IF ino = NoInode /\ reader.members = <<>> THEN IdleReader
                     ELSE [reader EXCEPT !.pc = "live",
                           !.data = Compose(reader.members, ino # NoInode, Text(ino))]
    /\ UNCHANGED <<disk, fd, hist, roll, crashes>>

KeyUnread == TRUE                       \* mutant: the key is not compared
KeyHolds == StatKey(reader.name) = reader.key /\ ~reader.moved

ReadEnd ==
    /\ reader.pc = "live"
    /\ reader' = IF reader.checked => KeyHolds THEN [reader EXCEPT !.pc = "done"]
                 ELSE IdleReader
    /\ UNCHANGED <<disk, fd, hist, roll, crashes>>

ReadDone ==
    /\ reader.pc = "done" /\ reader' = IdleReader
    /\ UNCHANGED <<disk, fd, hist, roll, crashes>>

Read ==
    \/ \E n \in Names, checked \in Reads : ReadBegin(n, checked)
    \/ ReadMembers \/ ReadLive \/ ReadEnd \/ ReadDone

Next ==
    \/ \E w \in Writers : (\E n \in Names : OpenLive(w, n)) \/ WriteLine(w) \/ Close(w)
    \/ Rollup
    \/ Read

Spec == Init /\ [][Next]_vars

-----------------------------------------------------------------------------
(* Properties *)

Clobbered == UNION {ToSet(content[i]) : i \in clobbered}

\* No run, whenever it dies and whoever writes meanwhile, deletes a line that
\* no segment has: every line is read, or waits in .pending, or was in a new
\* live file that a rename back has replaced (pending_cleanup, set_aside).
LinesKept ==
    \A n \in Names :
        LET found == ToSet(View(n)) \cup ToSet(Text(pending[n])) \cup Clobbered
        IN  ToSet(hist[n]) \subseteq found

\* The first time a file is packed no reader sees a line twice, at no step
\* (_read_bytes recognises the copy that is still live).
FirstPackNoDouble == \A n \in Names : Len(slices[n]) <= 1 => IsInjective(View(n))

\* What a reader composes is in the order of the appends.
ViewInOrder ==
    \A n \in Names : LET view == View(n) IN
        IsInjective(view) => \A i, j \in DOMAIN view : i < j => view[i] < view[j]

\* A read that compares keys has every line that was there when it began.
CheckedReadComplete ==
    reader.pc = "done" /\ reader.checked => reader.before \subseteq ToSet(reader.data)

\* Any read has: "Every event in every file" (fold.read_events).
ReadComplete == reader.pc = "done" => reader.before \subseteq ToSet(reader.data)

\* Packing leaves the events as they are: readers agree with what was
\* appended before, during and after it (test_ac3_crash_recovery).
NoDouble == \A n \in Names : IsInjective(View(n))

\* A recreated live file is never replaced (set_aside).
NeverReplaced == clobbered = {}
=============================================================================
