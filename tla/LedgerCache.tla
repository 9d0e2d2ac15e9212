---------------------------- MODULE LedgerCache ----------------------------
(***************************************************************************)
(* The parsed cache of the event files: ledger_cache.read_conditional.     *)
(*                                                                         *)
(* A reader looks at the cache under the shared lock.  If the key of every *)
(* event file is the recorded one it takes the cached events; if not, it   *)
(* refreshes the cache under the exclusive lock and tries again, three     *)
(* times at most.  Writers of the event files know nothing of the lock.    *)
(*                                                                         *)
(* A file is a sequence of tokens: a line's id and, after it, End.  An     *)
(* event line without its End is torn, and may still parse.                *)
(***************************************************************************)
EXTENDS LedgerLock, Sequences, SequencesExt

CONSTANTS
    Files,      \* event files; packed members are in LedgerRollup
    MaxWrites,  \* bound: writes to event files
    MaxDamage,  \* bound: times the cache file is damaged
    MaxCrashes, \* bound: readers that die
    Idle        \* no read: the value of a reader's scan, file or answer

\* A cache of no files could not be told from no cache, see NoDb.
ASSUME CacheAssumption == {MaxWrites, MaxDamage, MaxCrashes} \subseteq Nat /\ Files # {}

VARIABLES
    past,       \* [Files -> every content the file has had]
    writes,     \* how many writes there were
    db,         \* the cache file, see NoDb
    stamps,     \* how many cache files or versions of one there were
    damage, crashes,
    rd          \* [Procs -> its read, see NoRead]

files == <<past, writes>>
cache == <<db, stamps, damage>>
vars == <<lockVars, files, cache, crashes, rd>>

End == 0
Lines == 1..(2 * MaxWrites)

\* What a file holds now; its key stands for inode, size, mtime and ctime,
\* which every write changes.
Version(f) == Len(past[f])
Text(f) == past[f][Version(f)]
Key(f) == [ver |-> Version(f), size |-> Len(Text(f))]

\* The events of some tokens: a torn last line counts if it parses.
Parse(tokens) ==
    LET parsed[i \in 0..Len(tokens)] ==
            IF i = 0 THEN <<>>
            ELSE IF tokens[i] = End THEN parsed[i - 1] ELSE Append(parsed[i - 1], tokens[i])
    IN  parsed[Len(tokens)]

\* The tokens up to the last End.
Complete(tokens) ==
    IF tokens # <<>> /\ Last(tokens) # End THEN Front(tokens) ELSE tokens

\* stamp: inode, size and times of the cache file; ok: its table of rows is as
\* it was written.
NoDb == [stamp |-> 0, ok |-> TRUE, rows |-> [f \in Files |-> Idle]]

NoRead == [
    pc |-> "idle",
    try |-> 0,              \* its attempt
    scan |-> Idle,          \* keys it has seen, by file
    todo |-> {},            \* files it has still to look at
    rows |-> Idle,          \* the rows it is about to commit
    stamp |-> 0,            \* of the cache when it began to load it
    bad |-> 0,              \* stamp of the cache it found damaged
    verified |-> 0,         \* stamp of the cache this process has checked
    answer |-> Idle,        \* events by file, with the key they belong to
    begun |-> Idle,         \* history: versions when the read began
    quiet |-> TRUE]         \* history: nothing has disturbed the read

Init ==
    /\ LockInit
    /\ past = [f \in Files |-> << <<>> >>] /\ writes = 0
    /\ db = NoDb /\ stamps = 0 /\ damage = 0 /\ crashes = 0
    /\ rd = [p \in Procs |-> NoRead]

ReadPC == {"idle", "lock", "scan", "load", "relock", "recheck", "decide",
           "refresh", "file", "verify", "commit", "done", "failed", "timeout"}
Outside == {"idle", "done", "failed", "timeout"}

Keys == [ver : 1..(MaxWrites + 1), size : 0..(2 * MaxWrites)]
Rows == [key : Keys, raw : Seq(Lines \cup {End}), events : Seq(Lines), tail : Seq(Lines),
         bad : BOOLEAN]                 \* its chunks are damaged

TypeOK ==
    /\ LockTypeOK
    /\ \A f \in Files : \A i \in DOMAIN past[f] : past[f][i] \in Seq(Lines \cup {End})
    /\ db.stamp \in 0..stamps /\ damage \in 0..MaxDamage /\ crashes \in 0..MaxCrashes
    /\ \A f \in Files : db.rows[f] = Idle \/ db.rows[f] \in Rows
    /\ \A p \in Procs : /\ rd[p].pc \in ReadPC /\ rd[p].try \in 0..2
                        /\ rd[p].todo \subseteq Files
                        /\ {rd[p].bad, rd[p].stamp, rd[p].verified} \subseteq 0..stamps

-----------------------------------------------------------------------------
(* Outside: writers and the disk *)

Disturb == rd' = [p \in Procs |-> [rd[p] EXCEPT !.quiet = FALSE]]

Write(f, tokens) ==
    /\ past' = [past EXCEPT ![f] = Append(@, tokens)]
    /\ writes' = writes + 1

Torn(f) == Text(f) # <<>> /\ Last(Text(f)) # End
WriteAlways == TRUE                     \* mutant
WritesLeft == writes < MaxWrites
Fresh == 2 * writes + 1

\* A line, its end, a line without one, or a repair of the first line that
\* makes the file grow as well.
WriteFile(f) ==
    /\ WritesLeft
    /\ \/ Torn(f) /\ Write(f, Append(Text(f), End))
       \/ ~Torn(f) /\ Write(f, Text(f) \o <<Fresh, End>>)
       \/ ~Torn(f) /\ Write(f, Append(Text(f), Fresh))
       \/ /\ ~Torn(f) /\ Text(f) # <<>>
          /\ Write(f, <<Fresh>> \o Tail(Text(f)) \o <<Fresh + 1, End>>)
    /\ Disturb
    /\ UNCHANGED <<lockVars, cache, crashes>>

\* Bytes of the cache change under everybody.
Damage ==
    /\ db.stamp # 0 /\ damage < MaxDamage
    /\ damage' = damage + 1 /\ stamps' = stamps + 1
    /\ \/ db' = [db EXCEPT !.ok = FALSE, !.stamp = stamps + 1]
       \/ \E f \in Files : /\ db.rows[f] # Idle
                          /\ db' = [db EXCEPT !.rows[f].bad = TRUE, !.stamp = stamps + 1]
    /\ Disturb
    /\ UNCHANGED <<lockVars, files, crashes>>

-----------------------------------------------------------------------------
(* The shared read *)

At(p, pc) == rd[p].pc = pc
Move(p, to) == rd' = [rd EXCEPT ![p].pc = to]

\* stat_keys looks at the files one by one.
ScanFrom(p, to) ==
    rd' = [rd EXCEPT ![p].pc = to, ![p].todo = Files, ![p].scan = [f \in Files |-> Idle]]

ScanOne(p) ==
    /\ rd[p].pc \in {"scan", "recheck", "refresh"}
    /\ \E f \in rd[p].todo :
          rd' = [rd EXCEPT ![p].scan[f] = Key(f), ![p].todo = @ \ {f}]
    /\ UNCHANGED <<lockVars, files, cache, crashes>>

Scanned(p, pc) == At(p, pc) /\ rd[p].todo = {}

\* _generation: what is recorded is what the scan has seen.
Recorded(p) == \A f \in Files : db.rows[f] # Idle /\ db.rows[f].key = rd[p].scan[f]

BeginRead(p) ==
    /\ rd[p].pc \in Outside /\ Request(p, "SH")
    /\ rd' = [rd EXCEPT ![p] = [NoRead EXCEPT !.pc = "lock",
                  !.verified = rd[p].verified, !.answer = rd[p].answer,
                  !.begun = [f \in Files |-> Version(f)]]]
    /\ UNCHANGED <<files, cache, crashes>>

\* The end of a read; its locals are gone.
Finish(p, pc, checked, events) ==
    rd' = [rd EXCEPT ![p] = [NoRead EXCEPT !.pc = pc, !.verified = checked, !.answer = events,
                                !.begun = rd[p].begun, !.quiet = rd[p].quiet]]

\* The caller forgets its snapshot and reads the files (fold.read_events).
Fail(p) == Finish(p, "failed", rd[p].verified, Idle)

\* Without a cache, or with rows that do not check, there is nothing to scan.
Inside(p) ==
    /\ At(p, "lock") /\ lpc[p] = "in"
    /\ IF db.stamp = 0 \/ ~db.ok
       THEN rd' = [rd EXCEPT ![p].pc = "relock", ![p].bad = db.stamp]
       ELSE ScanFrom(p, "scan")
    /\ UNCHANGED <<lockVars, files, cache, crashes>>

\* The same generation as last time, and a cache file this process has
\* checked: "unchanged", and the caller keeps the events it has.
Unchanged(p) ==
    /\ rd[p].answer # Idle /\ rd[p].verified = db.stamp
    /\ \A f \in Files : rd[p].answer[f].key = rd[p].scan[f]

Compare(p) ==
    /\ Scanned(p, "scan")
    /\ IF Recorded(p) /\ Unchanged(p) THEN Finish(p, "done", rd[p].verified, rd[p].answer) /\ Release(p)
       ELSE /\ rd' = [rd EXCEPT ![p].pc = IF Recorded(p) THEN "load" ELSE "relock",
                                ![p].stamp = db.stamp, ![p].bad = 0,
                                ![p].scan = Idle]
            /\ UNCHANGED lockVars
    /\ UNCHANGED <<files, cache, crashes>>

\* mutant: a process that has checked a cache once trusts every later one
CheckedOnce(p) ==
    /\ rd[p].verified # 0 \/ \A f \in Files : ~db.rows[f].bad
    /\ db.stamp = rd[p].stamp

\* Chunks this process has checked in this very file are not checked again;
\* a file that changed meanwhile is not taken.
ChunksSound(p) ==
    /\ rd[p].verified = rd[p].stamp \/ \A f \in Files : ~db.rows[f].bad
    /\ db.stamp = rd[p].stamp

\* _read: the chunks of every file and its torn tail.
Load(p) ==
    /\ At(p, "load")
    /\ IF ChunksSound(p)
       THEN /\ Finish(p, "done", db.stamp, [f \in Files |->
                  [key |-> db.rows[f].key,
                   events |-> IF db.rows[f].bad THEN <<>>
                              ELSE db.rows[f].events \o db.rows[f].tail]])
            /\ Release(p)
       ELSE /\ rd' = [rd EXCEPT ![p].pc = "relock", ![p].bad = db.stamp]
            /\ UNCHANGED lockVars
    /\ UNCHANGED <<files, cache, crashes>>

\* Out of the shared lock; the third failure is the last.
Unlock(p) ==
    /\ At(p, "relock") /\ lpc[p] = "in" /\ mode[p] = "SH" /\ Release(p)
    /\ IF rd[p].try = 2 THEN Fail(p) ELSE UNCHANGED rd
    /\ UNCHANGED <<files, cache, crashes>>

-----------------------------------------------------------------------------
(* The refresh, under the exclusive lock *)

LockExclusive(p) ==
    /\ At(p, "relock") /\ Request(p, "EX")
    /\ UNCHANGED <<files, cache, crashes, rd>>

\* The cache may have been refreshed meanwhile: look again.
LookAgain(p) ==
    /\ At(p, "relock") /\ lpc[p] = "in" /\ mode[p] = "EX"
    /\ ScanFrom(p, "recheck")
    /\ UNCHANGED <<lockVars, files, cache, crashes>>

\* Current keys say nothing about the chunks.
KeepsDamaged(p) == FALSE                \* mutant
StillDamaged(p) == rd[p].bad # 0 /\ rd[p].bad = db.stamp

\* A current cache is used as it is, unless it is the one found damaged:
\* that one, or one whose rows do not check, is unlinked and built anew.
Decide(p) ==
    /\ Scanned(p, "recheck")
    /\ IF db.ok /\ Recorded(p) /\ ~StillDamaged(p) THEN Move(p, "decide") /\ UNCHANGED db
       ELSE LET old == IF ~db.ok \/ Recorded(p) THEN NoDb ELSE db
            IN  /\ db' = old
                /\ rd' = [rd EXCEPT ![p].pc = "refresh", ![p].rows = old.rows,
                             ![p].todo = Files, ![p].scan = [f \in Files |-> Idle]]
    /\ UNCHANGED <<lockVars, files, stamps, damage, crashes>>

\* _update takes the files whose key is not the recorded one, each with a key
\* of its own (_file).
Changed(p) == {f \in Files : rd[p].rows[f] = Idle \/ rd[p].rows[f].key # rd[p].scan[f]}

TakeFile(p) ==
    /\ Scanned(p, "refresh")
    /\ \/ /\ Changed(p) = {}
          /\ Move(p, IF rd[p].rows = db.rows THEN "decide" ELSE "commit")
       \/ \E f \in Changed(p) :
             rd' = [rd EXCEPT ![p].pc = "file", ![p].todo = {f}, ![p].scan[f] = Key(f)]
    /\ UNCHANGED <<lockVars, files, cache, crashes>>

The(s) == CHOOSE x \in s : TRUE

\* Append only if every old byte is still there; from the old offset, which
\* leaves a torn line out.
Grown(old, text) == old # Idle /\ Len(text) > old.key.size       \* mutant: no digest
Appended(old, text) == old # Idle /\ Len(text) > old.key.size /\ IsPrefix(old.raw, text)

FileRow(old, key, text) ==
    LET done == Complete(text)
        tail == Parse(SubSeq(text, Len(done) + 1, Len(text)))
    IN  IF Appended(old, text)
        THEN [key |-> key, raw |-> text, tail |-> tail, bad |-> old.bad,
              events |-> old.events \o
                         Parse(SubSeq(done, Len(Complete(old.raw)) + 1, Len(done)))]
        ELSE [key |-> key, raw |-> text, tail |-> tail, bad |-> FALSE, events |-> Parse(done)]

\* _file: as many tokens as the key says.
ReadFile(p) ==
    /\ At(p, "file")
    /\ LET f == The(rd[p].todo)
           key == rd[p].scan[f]
       IN  rd' = [rd EXCEPT ![p].pc = "verify",
                     ![p].rows[f] = FileRow(@, key, SubSeq(Text(f), 1, key.size))]
    /\ UNCHANGED <<lockVars, files, cache, crashes>>

\* The key is compared with the file's; if it changed, the read is given up
\* and the transaction rolled back.
NeverMoved(p, f) == TRUE                \* mutant
KeyStands(p, f) == Key(f) = rd[p].scan[f]

VerifyFile(p) ==
    /\ At(p, "verify")
    /\ IF KeyStands(p, The(rd[p].todo))
       THEN rd' = [rd EXCEPT ![p].pc = "refresh", ![p].todo = {}] /\ UNCHANGED lockVars
       ELSE Fail(p) /\ Release(p)
    /\ UNCHANGED <<files, cache, crashes>>

\* One transaction: rows, chunks and tails together.  (Chunks a file keeps
\* stay as damaged as they are, see FileRow.)
Commit(p) ==
    /\ At(p, "commit")
    /\ stamps' = stamps + 1
    /\ db' = [stamp |-> stamps + 1, ok |-> TRUE, rows |-> rd[p].rows]
    /\ Move(p, "decide")
    /\ UNCHANGED <<lockVars, files, damage, crashes>>

EndRefresh(p) ==
    /\ At(p, "decide") /\ Release(p)
    /\ rd' = [rd EXCEPT ![p].pc = "lock", ![p].try = @ + 1, ![p].rows = Idle,
                 ![p].scan = Idle, ![p].todo = {}]
    /\ UNCHANGED <<files, cache, crashes>>

LockAgain(p) ==
    /\ At(p, "lock") /\ Request(p, "SH")
    /\ UNCHANGED <<files, cache, crashes, rd>>

-----------------------------------------------------------------------------

LockSteps(p) ==
    /\ TakeGate(p) \/ PassGate(p) \/ TakeMain(p)
    /\ UNCHANGED <<files, cache, crashes, rd>>

\* LockTimeout is raised to the caller.
GiveUp(p) ==
    /\ TimeOut(p)
    /\ Finish(p, "timeout", rd[p].verified, Idle)
    /\ UNCHANGED <<files, cache, crashes>>

\* A process that dies: its locks are gone, its transaction is rolled back.
Crash(p) ==
    /\ crashes < MaxCrashes /\ crashes' = crashes + 1
    /\ rd[p].pc \notin Outside
    /\ Goto(p, "out") /\ LeaveGate(p)
    /\ shared' = shared \ {p} /\ excl' = IF excl = p THEN Nobody ELSE excl
    /\ rd' = [rd EXCEPT ![p] = NoRead]
    /\ UNCHANGED <<mode, timeouts, files, cache>>

Next ==
    \/ \E f \in Files : WriteFile(f)
    \/ Damage
    \/ \E p \in Procs :
        \/ BeginRead(p) \/ Inside(p) \/ ScanOne(p) \/ Compare(p) \/ Load(p) \/ Unlock(p)
        \/ LockExclusive(p) \/ LookAgain(p) \/ Decide(p) \/ TakeFile(p) \/ ReadFile(p)
        \/ VerifyFile(p) \/ Commit(p) \/ EndRefresh(p) \/ LockAgain(p)
        \/ LockSteps(p) \/ GiveUp(p) \/ Crash(p)

Spec == Init /\ [][Next]_vars

-----------------------------------------------------------------------------
(* Properties *)

\* What a read returns is, file by file, what the file held at some moment
\* since the read began: nothing that was appended before is missing, nothing
\* is there twice, and no repair is half seen.
ReadIsMoment ==
    \A p \in Procs : At(p, "done") =>
        \A f \in Files : \E v \in rd[p].begun[f]..Version(f) :
            rd[p].answer[f].events = Parse(past[f][v])

\* What the cache publishes is what the file held when it had that key,
\* however it was put together.
CacheFaithful ==
    \A f \in Files : LET row == db.rows[f] IN
        row # Idle /\ ~row.bad => row.events \o row.tail = Parse(past[f][row.key.ver])

\* A read that nobody disturbs succeeds, whatever state of the cache it finds
\* and whoever else reads: "unavailable" (OSError) needs a writer.
QuietReadSucceeds == \A p \in Procs : rd[p].quiet => ~At(p, "failed")
=============================================================================
