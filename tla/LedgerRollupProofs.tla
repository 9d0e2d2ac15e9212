------------------------- MODULE LedgerRollupProofs -------------------------
(***************************************************************************)
(* No line of an event file is lost by packing, a first packing shows none *)
(* twice, what is composed is in order, and a read that compares keys is   *)
(* complete: for any files, writers, bounds and crashes.                   *)
(***************************************************************************)
EXTENDS LedgerRollup, SequenceFacts, FiniteSetTheorems, TLAPS

\* Types that the steps rely on, beyond TypeOK.
FileHandle == {Closed} \cup [name : Names, ino : Inodes]
Candidate == [ino : MaybeInode, size : Nat, data : Seq(LineIds), todo : Stage]
ReadState == [pc : {"off", "key", "members", "live", "done"}, name : Names \cup {NoName},
              checked : BOOLEAN, before : SUBSET LineIds,
              key : {<<>>} \cup (MaybeInode \X Nat \X Nat), moved : BOOLEAN,
              members : Seq(Seq(LineIds)), data : Seq(LineIds)]

\* Where the rollup works on one name, and where a segment's name is left.
AtOneName == {"unlink", "uback", "rename", "recheck", "back", "recreate"}

TypeInv ==
    /\ TypeOK
    /\ fd \in [Writers -> FileHandle]
    /\ sel \in [Names -> Candidate]
    /\ reader \in ReadState
    /\ rpc \in AtOneName => cur \in Names
    /\ rpc \in {"vcheck", "publish"} => NamesLeft
    /\ reader.pc # "off" => reader.name \in Names

-----------------------------------------------------------------------------
(* What the operators on files return *)

LEMMA PackedType ==
    ASSUME NEW parts \in Seq(Seq(LineIds))
    PROVE  Packed(parts) \in Seq(LineIds)
BY FlattenParts DEF Packed

LEMMA ComposeType ==
    ASSUME NEW parts \in Seq(Seq(LineIds)), NEW there, NEW text \in Seq(LineIds)
    PROVE  Compose(parts, there, text) \in Seq(LineIds)
BY PackedType, ConcatProperties DEF Compose

LEMMA TextType ==
    ASSUME content \in [Inodes -> Seq(LineIds)], NEW ino \in MaybeInode
    PROVE  Text(ino) \in Seq(LineIds)
BY DEF Text, MaybeInode

LEMMA PayloadType ==
    ASSUME TypeInv, NEW n \in Names
    PROVE  Payload(n) \in Seq(LineIds)
<1>1. Text(live[n]) \in Seq(LineIds) /\ Packed(slices[n]) \in Seq(LineIds)
    BY TextType, PackedType DEF TypeInv, TypeOK
<1>2. \A s \in Seq(LineIds), i \in Nat :
         SubSeq(s, i + 1, Len(s)) \in Seq(LineIds)
    BY SubSeqProperties, LenProperties
<1>3. Len(Packed(slices[n])) \in Nat
    BY <1>1, LenProperties
<1> QED BY <1>1, <1>2, <1>3 DEF Payload

LEMMA LinesType ==
    ASSUME TypeInv
    PROVE  Lines \subseteq LineIds /\ Cardinality(Lines) \in Nat
<1>1. Lines \subseteq LineIds
    BY LenProperties DEF Lines, ToSet, TypeInv, TypeOK
<1>2. IsFiniteSet(LineIds)
    BY FS_Interval, RollupAssumption DEF LineIds
<1> QED BY <1>1, <1>2, FS_Subset, FS_CardinalityType

LEMMA ToSetType ==
    ASSUME NEW s \in Seq(LineIds)
    PROVE  ToSet(s) \subseteq LineIds
BY LenProperties DEF ToSet

-----------------------------------------------------------------------------
(* Types *)

LEMMA TypeInit == Init => TypeInv
<1> SUFFICES ASSUME Init PROVE TypeInv
    OBVIOUS
<1> USE RollupAssumption
<1>1. <<>> \in Seq(LineIds) /\ <<>> \in Seq(Seq(LineIds))
    OBVIOUS
<1>2. TypeOK
    BY <1>1 DEF Init, TypeOK, MaybeInode, RollupPC, Stage, Unpicked, IdleReader
<1>3. fd \in [Writers -> FileHandle] /\ sel \in [Names -> Candidate]
    BY <1>1 DEF Init, FileHandle, Candidate, Unpicked, MaybeInode, Stage
<1>4. reader \in ReadState /\ reader.pc = "off"
    BY <1>1 DEF Init, ReadState, IdleReader
<1> QED BY <1>2, <1>3, <1>4 DEF TypeInv, Init, AtOneName

\* A candidate that is taken one stage further.
LEMMA Restaged ==
    ASSUME NEW todo \in Stage
    PROVE  \A c \in Candidate : [c EXCEPT !.todo = todo] \in Candidate
BY DEF Candidate

\* Steps that leave the files alone keep the rest of the types.
LEMMA TypeWriters ==
    ASSUME TypeInv,
           NEW w \in Writers, (\E n \in Names : OpenLive(w, n)) \/ WriteLine(w) \/ Close(w)
    PROVE  TypeInv'
<1>0. Cardinality(Lines) \in Nat
    BY LinesType
<1> USE RollupAssumption DEF TypeInv, TypeOK
<1>1. ASSUME NEW n \in Names, OpenLive(w, n) PROVE TypeInv'
    <2>1. CASE live[n] = NoInode
        <3>1. inodes + 1 \in Inodes /\ inodes' = inodes + 1 /\ inodes' \in 0..MaxInodes
            BY <1>1, <2>1 DEF OpenLive, Create, Inodes
        <3>2. fd' = [fd EXCEPT ![w] = [name |-> n, ino |-> inodes + 1]]
              /\ live' = [live EXCEPT ![n] = inodes + 1]
            BY <1>1, <2>1 DEF OpenLive, Create
        <3>3. fd' \in [Writers -> FileHandle] /\ live' \in [Names -> MaybeInode]
            BY <3>1, <3>2 DEF FileHandle, MaybeInode
        <3>4. UNCHANGED <<content, pending, segments, slices, clobbered, hist, roll, reader, crashes>>
            BY <1>1, <2>1 DEF OpenLive, Create
        <3> QED BY <3>1, <3>3, <3>4 DEF roll, FileHandle, AtOneName, NamesLeft
    <2>2. CASE live[n] # NoInode
        <3>1. fd' = [fd EXCEPT ![w] = [name |-> n, ino |-> live[n]]] /\ live[n] \in Inodes
            BY <1>1, <2>2 DEF OpenLive, MaybeInode
        <3>2. fd' \in [Writers -> FileHandle]
            BY <3>1 DEF FileHandle
        <3>3. UNCHANGED <<disk, hist, roll, reader, crashes>>
            BY <1>1, <2>2 DEF OpenLive
        <3> QED BY <3>2, <3>3 DEF disk, roll, FileHandle, AtOneName, NamesLeft
    <2> QED BY <2>1, <2>2
<1>2. ASSUME WriteLine(w) PROVE TypeInv'
    <2> DEFINE line == Cardinality(Lines) + 1
    <2>0. Cardinality(Lines) < MaxLines /\ MaxLines \in Nat
        BY <1>2 DEF WriteLine
    <2>1. line \in LineIds
        BY <1>0, <2>0 DEF LineIds
    <2>2. fd[w].ino \in Inodes /\ fd[w].name \in Names
        BY <1>2 DEF WriteLine, FileHandle
    <2>3. /\ content' = [content EXCEPT ![fd[w].ino] = Append(@, line)]
          /\ hist' = [hist EXCEPT ![fd[w].name] = Append(@, line)]
        BY <1>2 DEF WriteLine
    <2> HIDE DEF line
    <2>4. content' \in [Inodes -> Seq(LineIds)] /\ hist' \in [Names -> Seq(LineIds)]
        BY <2>1, <2>2, <2>3, AppendProperties
    <2>5. UNCHANGED <<inodes, live, pending, segments, slices, clobbered, fd, roll, reader, crashes>>
        BY <1>2 DEF WriteLine
    <2> QED BY <2>4, <2>5 DEF roll, AtOneName, NamesLeft
<1>3. ASSUME Close(w) PROVE TypeInv'
    <2>1. fd' \in [Writers -> FileHandle]
        BY <1>3 DEF Close, FileHandle
    <2>2. UNCHANGED <<disk, hist, roll, reader, crashes>>
        BY <1>3 DEF Close
    <2> QED BY <2>1, <2>2 DEF disk, roll, FileHandle, AtOneName, NamesLeft
<1> QED BY <1>1, <1>2, <1>3

\* The end of a run, and a file that gets its name back.
LEMMA ExitTypes ==
    ASSUME Exit
    PROVE  /\ rpc' \in RollupPC /\ rpc' \notin AtOneName \cup {"vcheck", "publish"}
           /\ cur' \in Names \cup {NoName} /\ seen' = {}
           /\ sel' \in [Names -> Candidate]
<1>1. <<>> \in Seq(LineIds)
    OBVIOUS
<1> QED BY <1>1 DEF Exit, RollupPC, AtOneName, Candidate, Unpicked, MaybeInode, Stage

BackTypes ==
    /\ live' \in [Names -> MaybeInode] /\ pending' \in [Names -> MaybeInode]
    /\ clobbered' \subseteq Inodes /\ reader' \in ReadState
    /\ reader'.pc = reader.pc /\ reader'.name = reader.name
    /\ UNCHANGED <<content, inodes, segments, slices>>

LEMMA RenameBackTypes ==
    ASSUME TypeInv, NEW n \in Names, RenameBack(n)
    PROVE  BackTypes
<1> USE DEF TypeInv, TypeOK, MaybeInode
<1>1. live' \in [Names -> MaybeInode] /\ pending' \in [Names -> MaybeInode]
    BY DEF RenameBack
<1>2. clobbered' \subseteq Inodes /\ UNCHANGED <<content, inodes, segments, slices>>
    BY DEF RenameBack
<1>3. reader' \in ReadState /\ reader'.pc = reader.pc /\ reader'.name = reader.name
    BY DEF RenameBack, Touch, ReadState
<1> QED BY <1>1, <1>2, <1>3 DEF BackTypes

\* The rollup's steps, those on the files first.
LEMMA TypeClean ==
    ASSUME TypeInv, Start \/ CleanScan \/ CleanUnlink \/ CleanLate \/ CleanBack
    PROVE  TypeInv'
<1> USE RollupAssumption DEF TypeInv, TypeOK
<1>1. CASE Start
    BY <1>1 DEF Start, disk, RollupPC, AtOneName
<1>2. CASE CleanScan
    <2>1. UNCHANGED <<disk, fd, hist, reader, crashes>>
        BY <1>2 DEF CleanScan
    <2>2. CASE Exit
        BY <2>1, <2>2, ExitTypes DEF disk, Candidate
    <2>3. CASE ~Exit
        BY <1>2, <2>1, <2>3 DEF CleanScan, disk, RollupPC, AtOneName
    <2> QED BY <2>2, <2>3
<1>3. CASE CleanUnlink
    <2>1. cur \in Names
        BY <1>3 DEF CleanUnlink, AtOneName
    <2>2. pending' \in [Names -> MaybeInode]
        BY <1>3, <2>1 DEF CleanUnlink, MaybeInode
    <2>3. live' \in [Names -> MaybeInode] /\ inodes' \in 0..MaxInodes
        <3>1. CASE cur \in Executors /\ live[cur] = NoInode
            <4>1. inodes + 1 \in Inodes /\ inodes' = inodes + 1
                BY <1>3, <3>1 DEF CleanUnlink, Inodes
            <4>2. live' = [live EXCEPT ![cur] = inodes + 1]
                BY <1>3, <3>1 DEF CleanUnlink
            <4> QED BY <2>1, <4>1, <4>2 DEF MaybeInode, Inodes
        <3>2. CASE ~(cur \in Executors /\ live[cur] = NoInode)
            BY <1>3, <3>2 DEF CleanUnlink
        <3> QED BY <3>1, <3>2
    <2> QED BY <1>3, <2>2, <2>3 DEF CleanUnlink, RollupPC, AtOneName
<1>4. CASE CleanLate
    <2>1. UNCHANGED <<disk, fd, hist, reader, crashes>>
        BY <1>4 DEF CleanLate
    <2>2. CASE Exit
        BY <2>1, <2>2, ExitTypes DEF disk, Candidate
    <2>3. CASE ~Exit
        BY <1>4, <2>1, <2>3 DEF CleanLate, disk, RollupPC, AtOneName
    <2> QED BY <2>2, <2>3
<1>5. CASE CleanBack
    <2>1. cur \in Names
        BY <1>5 DEF CleanBack, AtOneName
    <2>2. BackTypes
        BY <1>5, <2>1, RenameBackTypes DEF CleanBack
    <2> QED BY <1>5, <2>2 DEF CleanBack, BackTypes, RollupPC, AtOneName
<1> QED BY <1>1, <1>2, <1>3, <1>4, <1>5

LEMMA TypePick ==
    ASSUME TypeInv, CandidateScan \/ Pick
    PROVE  TypeInv'
<1> USE RollupAssumption DEF TypeInv, TypeOK
<1>1. CASE CandidateScan
    <2>1. seen' \subseteq Inodes
        BY <1>1 DEF CandidateScan, Open, FileHandle, Closed
    <2> QED BY <1>1, <2>1 DEF CandidateScan, disk, RollupPC, AtOneName
<1>2. CASE Pick
    <2>1. UNCHANGED <<disk, fd, hist, reader, crashes>>
        BY <1>2 DEF Pick
    <2>2. CASE Exit
        BY <2>1, <2>2, ExitTypes DEF disk, Candidate
    <2>3. CASE ~Exit
        <3>1. \A n \in Names : Payload(n) \in Seq(LineIds) /\ Len(Text(live[n])) \in Nat
            BY PayloadType, TextType, LenProperties
        <3>2. PICK chosen \in SUBSET Names :
                 sel' = [n \in Names |->
                    IF n \notin chosen THEN Unpicked
                    ELSE [ino |-> live[n], size |-> Len(Text(live[n])), data |-> Payload(n),
                          todo |-> IF Payload(n) = <<>> THEN "aside" ELSE "picked"]]
            BY <1>2, <2>3 DEF Pick
        <3>3. Unpicked \in Candidate
            BY DEF Unpicked, Candidate, MaybeInode, Stage
        <3>4. sel' \in [Names -> Candidate]
            BY <3>1, <3>2, <3>3 DEF Candidate, Stage
        <3>5. rpc' = "loop" /\ UNCHANGED <<cur, seen>>
            BY <1>2, <2>3 DEF Pick
        <3> QED BY <2>1, <3>4, <3>5 DEF disk, RollupPC, AtOneName, Candidate
    <2> QED BY <2>2, <2>3
<1> QED BY <1>1, <1>2

LEMMA TypePublish ==
    ASSUME TypeInv, PublishScan \/ PublishCheck \/ Publish
    PROVE  TypeInv'
<1> USE RollupAssumption DEF TypeInv, TypeOK
<1>1. CASE PublishScan
    <2>1. UNCHANGED <<disk, fd, hist, reader, crashes>>
        BY <1>1 DEF PublishScan
    <2>2. CASE Exit
        BY <2>1, <2>2, ExitTypes DEF disk, Candidate
    <2>3. CASE ~Exit
        <3>1. NamesLeft /\ rpc' = "vcheck" /\ seen' = Open /\ UNCHANGED <<cur, sel>>
            BY <1>1, <2>3 DEF PublishScan
        <3>2. Open \subseteq Inodes
            BY DEF Open, FileHandle, Closed
        <3> QED BY <2>1, <3>1, <3>2 DEF disk, RollupPC, AtOneName, NamesLeft
    <2> QED BY <2>2, <2>3
<1>2. CASE PublishCheck
    <2>1. Unpicked \in Candidate
        BY DEF Unpicked, Candidate, MaybeInode, Stage
    <2>2. \A n \in Names : [sel[n] EXCEPT !.todo = "valid"] \in Candidate
        BY Restaged DEF Stage
    <2>3. sel' \in [Names -> Candidate]
        BY <1>2, <2>1, <2>2 DEF PublishCheck
    <2> QED BY <1>2, <2>3 DEF PublishCheck, disk, RollupPC, AtOneName, NamesLeft, Candidate
<1>3. CASE Publish
    <2>1. \A n \in Names : [sel[n] EXCEPT !.todo = "aside"] \in Candidate
        BY Restaged DEF Stage
    <2>2. sel' \in [Names -> Candidate]
        BY <1>3, <2>1 DEF Publish
    <2>3. \A n \in Names : AddSlice(slices[n], sel[n].data) \in Seq(Seq(LineIds))
        BY AppendProperties DEF AddSlice, Candidate
    <2>4. slices' \in [Names -> Seq(Seq(LineIds))]
        BY <1>3, <2>3 DEF Publish
    <2>5. segments' \in 0..MaxSegments
        BY <1>3 DEF Publish, NamesLeft
    <2> QED BY <1>3, <2>2, <2>4, <2>5 DEF Publish, RollupPC, AtOneName, Candidate
<1> QED BY <1>1, <1>2, <1>3

LEMMA TypeAside ==
    ASSUME TypeInv, AsideLook \/ AsideNone \/ AsideRename \/ AsideRecheck \/ AsideBack
                    \/ AsideRecreate
    PROVE  TypeInv'
<1> USE RollupAssumption DEF TypeInv, TypeOK
<1>0. ASSUME NEW n \in Names
      PROVE  [sel EXCEPT ![n].todo = "no"] \in [Names -> Candidate]
    <2>1. [sel[n] EXCEPT !.todo = "no"] \in Candidate
        BY Restaged DEF Stage
    <2> QED BY <2>1
<1>1. CASE AsideLook
    <2>1. PICK n \in Names :
              \/ rpc' = "rename" /\ cur' = n /\ UNCHANGED <<sel, seen>>
              \/ Settle(n, "no") /\ UNCHANGED <<rpc, cur, seen>>
        BY <1>1 DEF AsideLook, At
    <2>2. sel' \in [Names -> Candidate]
        BY <1>0, <2>1 DEF Settle
    <2> QED BY <1>1, <2>1, <2>2 DEF AsideLook, disk, RollupPC, AtOneName, Candidate
<1>2. CASE AsideNone
    <2>1. UNCHANGED <<disk, fd, hist, reader, crashes>>
        BY <1>2 DEF AsideNone
    <2>2. CASE Exit
        BY <2>1, <2>2, ExitTypes DEF disk, Candidate
    <2>3. CASE ~Exit
        BY <1>2, <2>1, <2>3 DEF AsideNone, disk, RollupPC, AtOneName
    <2> QED BY <2>2, <2>3
<1>3. CASE AsideRename
    <2>0. cur \in Names
        BY <1>3 DEF AsideRename, AtOneName
    <2>1. CASE pending[cur] # NoInode
        BY <1>3, <2>1, ExitTypes DEF AsideRename, disk, Candidate
    <2>2. CASE pending[cur] = NoInode
        <3>1. live' \in [Names -> MaybeInode] /\ pending' \in [Names -> MaybeInode]
            BY <1>3, <2>0, <2>2 DEF AsideRename, MaybeInode
        <3>2. reader' \in ReadState /\ reader'.pc = reader.pc /\ reader'.name = reader.name
            <4>1. Touch(cur)
                BY <1>3, <2>2 DEF AsideRename
            <4> QED BY <4>1 DEF Touch, ReadState
        <3> QED BY <1>3, <2>0, <2>2, <3>1, <3>2 DEF AsideRename, RollupPC, AtOneName, Candidate
    <2> QED BY <2>1, <2>2
<1>4. CASE AsideRecheck
    <2>0. cur \in Names
        BY <1>4 DEF AsideRecheck, AtOneName
    <2>1. UNCHANGED <<disk, fd, hist, reader, crashes>>
        BY <1>4 DEF AsideRecheck
    <2>2. CASE Exit
        BY <2>1, <2>2, ExitTypes DEF disk, Candidate
    <2>3. CASE ~Exit
        <3>1. sel' \in [Names -> Candidate] /\ UNCHANGED seen
            BY <1>0, <1>4, <2>0, <2>3 DEF AsideRecheck, Settle
        <3>2. rpc' \in {"recreate", "loop", "back"} /\ (cur' = cur \/ cur' = NoName)
              /\ (rpc' # "loop" => cur' = cur)
            BY <1>4, <2>3 DEF AsideRecheck
        <3> QED BY <2>0, <2>1, <3>1, <3>2 DEF disk, RollupPC, AtOneName, Candidate
    <2> QED BY <2>2, <2>3
<1>5. CASE AsideBack
    <2>1. cur \in Names
        BY <1>5 DEF AsideBack, AtOneName
    <2>2. BackTypes
        BY <1>5, <2>1, RenameBackTypes DEF AsideBack
    <2>3. sel' \in [Names -> Candidate]
        BY <1>0, <1>5, <2>1 DEF AsideBack, Settle
    <2> QED BY <1>5, <2>2, <2>3 DEF AsideBack, BackTypes, RollupPC, AtOneName, Candidate
<1>6. CASE AsideRecreate
    <2>1. cur \in Names
        BY <1>6 DEF AsideRecreate, AtOneName
    <2>2. live' \in [Names -> MaybeInode] /\ inodes' \in 0..MaxInodes
          /\ UNCHANGED <<content, pending, segments, slices, clobbered>>
        <3>1. CASE live[cur] = NoInode
            <4>1. inodes + 1 \in Inodes /\ inodes' = inodes + 1
                BY <1>6, <3>1 DEF AsideRecreate, Create, Inodes
            <4>2. live' = [live EXCEPT ![cur] = inodes + 1]
                  /\ UNCHANGED <<content, pending, segments, slices, clobbered>>
                BY <1>6, <3>1 DEF AsideRecreate, Create
            <4> QED BY <2>1, <4>1, <4>2 DEF MaybeInode, Inodes
        <3>2. CASE live[cur] # NoInode
            BY <1>6, <3>2 DEF AsideRecreate, disk
        <3> QED BY <3>1, <3>2
    <2> QED BY <1>6, <2>2 DEF AsideRecreate, RollupPC, AtOneName
<1> QED BY <1>1, <1>2, <1>3, <1>4, <1>5, <1>6

LEMMA TypeCrash ==
    ASSUME TypeInv, Crash
    PROVE  TypeInv'
<1>1. crashes' \in 0..MaxCrashes /\ Exit /\ UNCHANGED <<disk, fd, hist, reader>>
    BY RollupAssumption DEF Crash, TypeInv, TypeOK
<1> QED BY <1>1, ExitTypes DEF TypeInv, TypeOK, disk, Candidate

LEMMA TypeRead ==
    ASSUME TypeInv, Read
    PROVE  TypeInv'
<1> USE DEF TypeInv, TypeOK
<1>1. UNCHANGED <<disk, fd, hist, roll, crashes>>
    BY DEF Read, ReadBegin, ReadMembers, ReadLive, ReadEnd, ReadDone
<1>2. reader' \in ReadState /\ (reader'.pc # "off" => reader'.name \in Names)
    <2>1. ASSUME NEW n \in Names, NEW checked \in Reads, ReadBegin(n, checked)
          PROVE  reader' \in ReadState /\ reader'.name \in Names
        <3>1. Text(live[n]) \in Seq(LineIds) /\ View(n) \in Seq(LineIds)
            BY TextType, ComposeType DEF View
        <3>2. ToSet(View(n)) \subseteq LineIds
            BY <3>1, ToSetType
        <3>3. StatKey(n) \in MaybeInode \X Nat \X Nat
            BY <3>1, LenProperties DEF StatKey
        <3>4. checked \in BOOLEAN
            BY RollupAssumption
        <3> HIDE DEF TypeInv, TypeOK
        <3>5. reader' = [IdleReader EXCEPT !.pc = "key", !.name = n, !.checked = checked,
                            !.before = ToSet(View(n)), !.key = StatKey(n)]
            BY <2>1 DEF ReadBegin
        <3>6. reader' = [pc |-> "key", name |-> n, checked |-> checked,
                         before |-> ToSet(View(n)), key |-> StatKey(n), moved |-> FALSE,
                         members |-> <<>>, data |-> <<>>]
            BY <3>5 DEF IdleReader
        <3>7. <<>> \in Seq(LineIds) /\ <<>> \in Seq(Seq(LineIds))
            OBVIOUS
        <3> QED BY <3>2, <3>3, <3>4, <3>6, <3>7 DEF ReadState
    <2>2. IdleReader \in ReadState /\ IdleReader.pc = "off"
        BY DEF IdleReader, ReadState
    <2>3. CASE ReadMembers
        <3>1. slices[reader.name] \in Seq(Seq(LineIds)) /\ reader.name \in Names
            BY <2>3 DEF ReadMembers
        <3> QED BY <2>3, <3>1 DEF ReadMembers, ReadState
    <2>4. CASE ReadLive
        <3>1. reader.name \in Names /\ reader.members \in Seq(Seq(LineIds))
            BY <2>4 DEF ReadLive, ReadState
        <3>2. Compose(reader.members, live[reader.name] # NoInode, Text(live[reader.name]))
                 \in Seq(LineIds)
            BY <3>1, TextType, ComposeType
        <3> QED BY <2>2, <2>4, <3>1, <3>2 DEF ReadLive, ReadState
    <2>5. CASE ReadEnd
        BY <2>2, <2>5 DEF ReadEnd, ReadState
    <2>6. CASE ReadDone
        BY <2>2, <2>6 DEF ReadDone
    <2> QED BY <2>1, <2>3, <2>4, <2>5, <2>6 DEF Read
<1> QED BY <1>1, <1>2 DEF disk, roll, AtOneName, NamesLeft, ReadState

LEMMA TypeStep == TypeInv /\ [Next]_vars => TypeInv'
<1> SUFFICES ASSUME TypeInv, [Next]_vars PROVE TypeInv'
    OBVIOUS
<1>1. CASE UNCHANGED vars
    BY <1>1 DEF vars, disk, roll, TypeInv, TypeOK, AtOneName, NamesLeft
<1>2. CASE Rollup
    BY <1>2, TypeClean, TypePick, TypePublish, TypeAside, TypeCrash DEF Rollup
<1>3. CASE Read
    BY <1>3, TypeRead
<1>4. CASE \E w \in Writers : (\E n \in Names : OpenLive(w, n)) \/ WriteLine(w) \/ Close(w)
    BY <1>4, TypeWriters
<1> QED BY <1>1, <1>2, <1>3, <1>4 DEF Next

LEMMA TypeInvariance == Spec => []TypeInv
BY TypeInit, TypeStep, PTL DEF Spec

\* The types of the disk, the rollup and the reader.
THEOREM RollupTypeCorrect == Spec => []TypeOK
BY TypeInvariance, PTL DEF TypeInv

-----------------------------------------------------------------------------
(* Which inode has which name *)

\* A file has one name, and is a live file or a pending one.
OneNameEach ==
    /\ \A n \in Names : live[n] <= inodes /\ pending[n] <= inodes
    /\ \A n, m \in Names : live[n] # NoInode => live[n] # pending[m]
    /\ \A n, m \in Names : n # m /\ live[n] # NoInode => live[n] # live[m]
    /\ \A n, m \in Names : n # m /\ pending[n] # NoInode => pending[n] # pending[m]

\* What a writer has open is still there: nothing that is open is deleted.
OpenIsThere ==
    \A w \in Writers : fd[w] # Closed =>
        fd[w].ino \in {live[fd[w].name], pending[fd[w].name]} \cup clobbered

\* Nobody can open a pending file, so nobody has the one that is deleted.
UnlinkedIsClosed == rpc = "unlink" => pending[cur] # NoInode /\ pending[cur] \notin Open

FileInv == OneNameEach /\ OpenIsThere /\ UnlinkedIsClosed

\* Every line of a file, in one of the places where it may be.
Places(n) == ToSet(Packed(slices[n])) \cup ToSet(Text(live[n])) \cup ToSet(Text(pending[n]))
                \cup Clobbered
Covered == \A n \in Names : ToSet(hist[n]) \subseteq Places(n)

\* Steps that change no file, writer or line.
Quiet == UNCHANGED <<disk, fd, hist>> /\ (rpc' = "unlink" => UNCHANGED <<rpc, cur>>)

LEMMA QuietSteps ==
    ASSUME Next
    PROVE  \/ Quiet /\ (Read \/ reader' = reader)
           \/ CleanScan \/ CleanUnlink \/ CleanBack \/ Publish \/ AsideRename \/ AsideBack
           \/ AsideRecreate
           \/ \E w \in Writers : (\E n \in Names : OpenLive(w, n)) \/ WriteLine(w) \/ Close(w)
<1>1. CASE Read
    BY <1>1 DEF Read, Quiet, roll, ReadBegin, ReadMembers, ReadLive, ReadEnd, ReadDone
<1>2. CASE Start \/ CleanLate \/ CandidateScan \/ Pick \/ PublishScan
    BY <1>2 DEF Quiet, Start, CleanLate, CandidateScan, Pick, PublishScan, Exit
<1>3. CASE PublishCheck \/ AsideLook \/ AsideNone \/ AsideRecheck \/ Crash
    BY <1>3 DEF Quiet, PublishCheck, AsideLook, AsideNone, AsideRecheck, Crash, Exit
<1> QED BY <1>1, <1>2, <1>3 DEF Next, Rollup

LEMMA QuietFiles ==
    ASSUME Quiet
    PROVE  (FileInv => FileInv') /\ (Covered => Covered')
<1>1. UNCHANGED <<content, inodes, live, pending, slices, clobbered, fd, hist>>
    BY DEF Quiet, disk
<1>2. \A n \in Names : Places(n)' = Places(n)
    BY <1>1 DEF Places, Text, Clobbered
<1>3. Covered => Covered'
    BY <1>1, <1>2 DEF Covered
<1>4. OneNameEach => OneNameEach'
    BY <1>1 DEF OneNameEach
<1>5. OpenIsThere => OpenIsThere'
    BY <1>1 DEF OpenIsThere
<1>6. UnlinkedIsClosed => UnlinkedIsClosed'
    BY <1>1 DEF Quiet, UnlinkedIsClosed, Open
<1> QED BY <1>3, <1>4, <1>5, <1>6 DEF FileInv

LEMMA FileInvInit == Init => FileInv /\ Covered
<1> SUFFICES ASSUME Init PROVE FileInv /\ Covered
    OBVIOUS
<1>1. OneNameEach /\ OpenIsThere /\ UnlinkedIsClosed
    BY DEF Init, OneNameEach, OpenIsThere, UnlinkedIsClosed, NoInode
<1>2. \A n \in Names : ToSet(hist[n]) = {}
    BY DEF Init, ToSet
<1> QED BY <1>1, <1>2 DEF FileInv, Covered

\* A file that nobody has yet gets a name, of a writer or of the rollup.
CreateFor(n) ==
    /\ live[n] = NoInode /\ inodes < MaxInodes
    /\ inodes' = inodes + 1
    /\ live' = [live EXCEPT ![n] = inodes + 1]

LEMMA InodeNumbers ==
    ASSUME TypeInv
    PROVE  /\ inodes \in Nat
           /\ \A m \in Names : live[m] \in Nat /\ pending[m] \in Nat
<1>1. MaybeInode \subseteq Nat
    BY RollupAssumption DEF MaybeInode, Inodes, NoInode
<1>2. 0..MaxInodes \subseteq Nat
    BY RollupAssumption
<1> QED BY <1>1, <1>2 DEF TypeInv, TypeOK

LEMMA CreateKeepsNames ==
    ASSUME TypeInv, OneNameEach, NEW n \in Names, CreateFor(n),
           pending' = pending \/ \E m \in Names : pending' = [pending EXCEPT ![m] = NoInode]
    PROVE  OneNameEach'
<1>0. /\ inodes \in Nat
      /\ \A m \in Names : live[m] \in Nat /\ pending[m] \in Nat
    BY InodeNumbers
<1> USE DEF TypeInv, TypeOK, MaybeInode, Inodes
<1>1. inodes \in Nat /\ inodes' = inodes + 1
    BY <1>0 DEF CreateFor
<1>2. \A m \in Names : live'[m] = IF m = n THEN inodes + 1 ELSE live[m]
    BY DEF CreateFor
<1>3. \A m \in Names : /\ live[m] \in Nat /\ live[m] <= inodes
                       /\ pending[m] \in Nat /\ pending[m] <= inodes
    BY <1>0 DEF OneNameEach
<1>4. \A m \in Names : pending'[m] = pending[m] \/ pending'[m] = NoInode
    OBVIOUS
<1> HIDE DEF TypeInv, TypeOK, MaybeInode, Inodes
<1>5. \A m \in Names : live'[m] <= inodes' /\ pending'[m] <= inodes'
    BY <1>1, <1>2, <1>3, <1>4 DEF NoInode
<1>6. \A k, m \in Names : live'[k] # NoInode => live'[k] # pending'[m]
    BY <1>1, <1>2, <1>3, <1>4 DEF NoInode, OneNameEach
<1>7. \A k, m \in Names : k # m /\ live'[k] # NoInode => live'[k] # live'[m]
    BY <1>1, <1>2, <1>3 DEF NoInode, OneNameEach
<1>8. \A k, m \in Names : k # m /\ pending'[k] # NoInode => pending'[k] # pending'[m]
    BY <1>4 DEF OneNameEach
<1> QED BY <1>5, <1>6, <1>7, <1>8 DEF OneNameEach

\* A file goes from one name to the other.
LEMMA RenameKeepsNames ==
    ASSUME TypeInv, OneNameEach, NEW n \in Names,
           \/ /\ pending[n] = NoInode /\ pending' = [pending EXCEPT ![n] = live[n]]
              /\ live' = [live EXCEPT ![n] = NoInode]
           \/ /\ live' = [live EXCEPT ![n] = pending[n]]
              /\ pending' = [pending EXCEPT ![n] = NoInode],
           inodes' = inodes
    PROVE  OneNameEach'
<1>1. \A m \in Names : /\ live[m] \in Nat /\ pending[m] \in Nat
    BY InodeNumbers
<1>2. inodes \in Nat
    BY InodeNumbers
<1>3. live \in [Names -> MaybeInode] /\ pending \in [Names -> MaybeInode]
    BY DEF TypeInv, TypeOK
<1>4. CASE /\ pending[n] = NoInode /\ pending' = [pending EXCEPT ![n] = live[n]]
           /\ live' = [live EXCEPT ![n] = NoInode]
    <2>1. \A m \in Names : /\ live'[m] = IF m = n THEN NoInode ELSE live[m]
                           /\ pending'[m] = IF m = n THEN live[n] ELSE pending[m]
        BY <1>3, <1>4
    <2> QED BY <1>1, <1>2, <2>1 DEF OneNameEach, NoInode
<1>5. CASE /\ live' = [live EXCEPT ![n] = pending[n]]
           /\ pending' = [pending EXCEPT ![n] = NoInode]
    <2>1. \A m \in Names : /\ live'[m] = IF m = n THEN pending[n] ELSE live[m]
                           /\ pending'[m] = IF m = n THEN NoInode ELSE pending[m]
        BY <1>3, <1>5
    <2> QED BY <1>1, <1>2, <2>1 DEF OneNameEach, NoInode
<1> QED BY <1>4, <1>5

LEMMA FileInvWriters ==
    ASSUME TypeInv, FileInv,
           NEW w \in Writers, (\E n \in Names : OpenLive(w, n)) \/ WriteLine(w) \/ Close(w)
    PROVE  FileInv'
<1> USE DEF FileInv
<1>t. /\ fd \in [Writers -> FileHandle]
      /\ live \in [Names -> MaybeInode] /\ pending \in [Names -> MaybeInode]
      /\ (rpc = "unlink" => cur \in Names)
    BY DEF TypeInv, TypeOK, AtOneName
<1>1. ASSUME NEW n \in Names, OpenLive(w, n) PROVE FileInv'
    <2>1. UNCHANGED <<pending, clobbered, rpc, cur>> /\ fd[w] = Closed
        BY <1>1 DEF OpenLive, Create, disk, roll
    <2>2. fd' = [fd EXCEPT ![w] = [name |-> n, ino |-> live'[n]]]
        BY <1>1, <1>t DEF OpenLive, Create, disk
    <2>3. live'[n] \in Inodes /\ \A m \in Names : m # n => live'[m] = live[m]
        BY <1>1, <1>t, RollupAssumption
           DEF OpenLive, Create, disk, MaybeInode, Inodes, TypeInv, TypeOK
    <2>4. live[n] # NoInode => live'[n] = live[n]
        BY <1>1 DEF OpenLive, disk
    <2>5. OneNameEach'
        <3>1. CASE live[n] = NoInode
            BY <1>1, <3>1, CreateKeepsNames DEF OpenLive, Create, CreateFor
        <3>2. CASE live[n] # NoInode
            BY <1>1, <3>2 DEF OpenLive, disk, OneNameEach
        <3> QED BY <3>1, <3>2
    <2>6. \A v \in Writers : fd'[v] = IF v = w THEN [name |-> n, ino |-> live'[n]] ELSE fd[v]
        BY <1>t, <2>2
    <2>7. OpenIsThere'
        <3> SUFFICES ASSUME NEW v \in Writers, fd'[v] # Closed
                     PROVE  fd'[v].ino \in {live'[fd'[v].name], pending'[fd'[v].name]} \cup clobbered'
            BY DEF OpenIsThere
        <3>1. CASE v = w
            BY <2>6, <3>1
        <3>2. CASE v # w
            <4>1. fd'[v] = fd[v] /\ fd[v].ino \in {live[fd[v].name], pending[fd[v].name]} \cup clobbered
                BY <2>6, <3>2 DEF OpenIsThere
            <4>2. fd[v].name \in Names /\ fd[v].ino # NoInode
                BY <1>t, <2>6, <3>2 DEF FileHandle, NoInode, Inodes
            <4> QED BY <2>1, <2>3, <2>4, <4>1, <4>2
        <3> QED BY <3>1, <3>2
    <2>8. UnlinkedIsClosed'
        <3> SUFFICES ASSUME rpc = "unlink" PROVE pending[cur] # NoInode /\ pending[cur] \notin Open'
            BY <2>1 DEF UnlinkedIsClosed
        <3>1. cur \in Names /\ pending[cur] # NoInode /\ pending[cur] \notin Open
            BY <1>t DEF UnlinkedIsClosed
        <3>2. live'[n] # pending[cur]
            BY <2>1, <2>3, <2>5, <3>1 DEF OneNameEach, NoInode, Inodes
        <3>3. Open' \subseteq Open \cup {live'[n]}
            BY <2>6 DEF Open
        <3> QED BY <3>1, <3>2, <3>3
    <2> QED BY <2>5, <2>7, <2>8
<1>2. ASSUME WriteLine(w) PROVE FileInv'
    <2>1. UNCHANGED <<inodes, live, pending, clobbered, fd, rpc, cur>>
        BY <1>2 DEF WriteLine, roll
    <2> QED BY <2>1 DEF OneNameEach, OpenIsThere, UnlinkedIsClosed, Open
<1>3. ASSUME Close(w) PROVE FileInv'
    <2>1. UNCHANGED <<inodes, live, pending, clobbered, rpc, cur>>
        BY <1>3 DEF Close, disk, roll
    <2>2. \A v \in Writers : fd'[v] = IF v = w THEN Closed ELSE fd[v]
        BY <1>3, <1>t DEF Close
    <2>3. Open' \subseteq Open
        BY <2>2 DEF Open, Closed
    <2> QED BY <2>1, <2>2, <2>3 DEF OneNameEach, OpenIsThere, UnlinkedIsClosed
<1> QED BY <1>1, <1>2, <1>3

\* Renaming n's file keeps what is open in one of its places.
LEMMA OpenAfterRename ==
    ASSUME FileInv, NEW n \in Names, fd \in [Writers -> FileHandle], fd' = fd,
           \A m \in Names : m # n => live'[m] = live[m] /\ pending'[m] = pending[m],
           clobbered \subseteq clobbered',
           {live[n], pending[n]} \subseteq {live'[n], pending'[n], NoInode} \cup clobbered'
    PROVE  OpenIsThere'
<1> SUFFICES ASSUME NEW v \in Writers, fd[v] # Closed
             PROVE  fd[v].ino \in {live'[fd[v].name], pending'[fd[v].name]} \cup clobbered'
    BY DEF OpenIsThere
<1>1. fd[v].ino \in {live[fd[v].name], pending[fd[v].name]} \cup clobbered
    BY DEF FileInv, OpenIsThere
<1>2. fd[v].name \in Names /\ fd[v].ino # NoInode
    BY DEF FileHandle, Inodes, NoInode
<1> QED BY <1>1, <1>2

LEMMA FileInvRollup ==
    ASSUME TypeInv, FileInv,
           CleanScan \/ CleanUnlink \/ CleanBack \/ Publish \/ AsideRename \/ AsideBack
             \/ AsideRecreate
    PROVE  FileInv'
<1>t. /\ fd \in [Writers -> FileHandle]
      /\ live \in [Names -> MaybeInode] /\ pending \in [Names -> MaybeInode]
      /\ (rpc \in AtOneName => cur \in Names)
    BY DEF TypeInv, TypeOK
<1>1. CASE CleanScan
    <2>1. UNCHANGED <<inodes, live, pending, clobbered, fd>>
        BY <1>1 DEF CleanScan, disk
    <2>2. UnlinkedIsClosed'
        BY <1>1, <2>1 DEF CleanScan, UnlinkedIsClosed, Open, Exit
    <2> QED BY <2>1, <2>2 DEF FileInv, OneNameEach, OpenIsThere
<1>2. CASE CleanUnlink
    <2>1. /\ cur \in Names /\ rpc' # "unlink" /\ UNCHANGED <<clobbered, fd>>
          /\ pending' = [pending EXCEPT ![cur] = NoInode]
          /\ pending[cur] # NoInode /\ pending[cur] \notin Open
        BY <1>2, <1>t DEF CleanUnlink, AtOneName, FileInv, UnlinkedIsClosed
    <2>2. CASE CreateFor(cur)
        <3>1. OneNameEach'
            BY <2>1, <2>2, CreateKeepsNames DEF FileInv
        <3>2. OpenIsThere'
            <4> SUFFICES ASSUME NEW v \in Writers, fd[v] # Closed
                         PROVE  fd[v].ino \in {live'[fd[v].name], pending'[fd[v].name]} \cup clobbered
                BY <2>1 DEF OpenIsThere
            <4>1. fd[v].ino \in {live[fd[v].name], pending[fd[v].name]} \cup clobbered
                BY DEF FileInv, OpenIsThere
            <4>2. fd[v].name \in Names /\ fd[v].ino # NoInode /\ fd[v].ino # pending[cur]
                BY <1>t, <2>1 DEF FileHandle, Inodes, NoInode, Open
            <4>3. \A m \in Names : live[m] # NoInode => live'[m] = live[m]
                BY <1>t, <2>2 DEF CreateFor
            <4>4. \A m \in Names : m # cur => pending'[m] = pending[m]
                BY <1>t, <2>1
            <4> QED BY <4>1, <4>2, <4>3, <4>4
        <3> QED BY <2>1, <3>1, <3>2 DEF FileInv, UnlinkedIsClosed
    <2>3. CASE UNCHANGED <<inodes, live>>
        <3>1. \A m \in Names : pending'[m] = IF m = cur THEN NoInode ELSE pending[m]
            BY <1>t, <2>1
        <3>2. OneNameEach'
            <4>1. inodes \in Nat
                BY RollupAssumption DEF TypeInv, TypeOK
            <4> QED BY <2>3, <3>1, <4>1 DEF FileInv, OneNameEach, NoInode
        <3>3. OpenIsThere'
            <4> SUFFICES ASSUME NEW v \in Writers, fd[v] # Closed
                         PROVE  fd[v].ino \in {live[fd[v].name], pending'[fd[v].name]} \cup clobbered
                BY <2>1, <2>3 DEF OpenIsThere
            <4>1. fd[v].ino \in {live[fd[v].name], pending[fd[v].name]} \cup clobbered
                BY DEF FileInv, OpenIsThere
            <4>2. fd[v].name \in Names /\ fd[v].ino # NoInode /\ fd[v].ino # pending[cur]
                BY <1>t, <2>1 DEF FileHandle, Inodes, NoInode, Open
            <4> QED BY <4>1, <4>2, <3>1
        <3> QED BY <2>1, <3>2, <3>3 DEF FileInv, UnlinkedIsClosed
    <2> QED BY <1>2, <2>2, <2>3 DEF CleanUnlink, CreateFor
<1>3. CASE CleanBack \/ AsideBack
    <2>1. cur \in Names /\ RenameBack(cur) /\ rpc' # "unlink" /\ fd' = fd
        BY <1>3, <1>t DEF CleanBack, AsideBack, AtOneName
    <2>2. /\ live' = [live EXCEPT ![cur] = pending[cur]] /\ pending' = [pending EXCEPT ![cur] = NoInode]
          /\ clobbered' = clobbered \cup ({live[cur]} \ {NoInode}) /\ inodes' = inodes
        BY <2>1 DEF RenameBack
    <2>3. OneNameEach'
        BY <2>1, <2>2, RenameKeepsNames DEF FileInv
    <2>4. OpenIsThere'
        <3>1. \A m \in Names : m # cur => live'[m] = live[m] /\ pending'[m] = pending[m]
            BY <1>t, <2>2
        <3>2. {live[cur], pending[cur]} \subseteq {live'[cur], pending'[cur], NoInode} \cup clobbered'
            BY <1>t, <2>1, <2>2
        <3> QED BY <1>t, <2>1, <2>2, <3>1, <3>2, OpenAfterRename
    <2> QED BY <2>1, <2>3, <2>4 DEF FileInv, UnlinkedIsClosed
<1>4. CASE Publish
    <2>1. UNCHANGED <<inodes, live, pending, clobbered, fd>> /\ rpc' # "unlink"
        BY <1>4 DEF Publish
    <2> QED BY <2>1 DEF FileInv, OneNameEach, OpenIsThere, UnlinkedIsClosed
<1>5. CASE AsideRename
    <2>1. cur \in Names /\ rpc' # "unlink" /\ fd' = fd
        BY <1>5, <1>t DEF AsideRename, AtOneName, Exit
    <2>2. CASE pending[cur] # NoInode
        <3>1. UNCHANGED <<inodes, live, pending, clobbered, fd>>
            BY <1>5, <2>2 DEF AsideRename, disk
        <3> QED BY <2>1, <3>1 DEF FileInv, OneNameEach, OpenIsThere, UnlinkedIsClosed
    <2>3. CASE pending[cur] = NoInode
        <3>1. /\ pending' = [pending EXCEPT ![cur] = live[cur]] /\ inodes' = inodes
              /\ live' = [live EXCEPT ![cur] = NoInode] /\ clobbered' = clobbered
            BY <1>5, <2>3 DEF AsideRename
        <3>2. OneNameEach'
            BY <2>1, <2>3, <3>1, RenameKeepsNames DEF FileInv
        <3>3. OpenIsThere'
            <4>1. \A m \in Names : m # cur => live'[m] = live[m] /\ pending'[m] = pending[m]
                BY <1>t, <3>1
            <4>2. {live[cur], pending[cur]} \subseteq {live'[cur], pending'[cur], NoInode} \cup clobbered'
                BY <1>t, <2>1, <2>3, <3>1
            <4> QED BY <1>t, <2>1, <3>1, <4>1, <4>2, OpenAfterRename
        <3> QED BY <2>1, <3>2, <3>3 DEF FileInv, UnlinkedIsClosed
    <2> QED BY <2>2, <2>3
<1>6. CASE AsideRecreate
    <2>1. cur \in Names /\ rpc' # "unlink" /\ UNCHANGED <<fd, pending, clobbered>>
        BY <1>6, <1>t DEF AsideRecreate, AtOneName, Create, disk
    <2>2. CASE live[cur] = NoInode
        <3>1. CreateFor(cur)
            BY <1>6, <2>2 DEF AsideRecreate, Create, CreateFor
        <3>2. OneNameEach'
            BY <2>1, <3>1, CreateKeepsNames DEF FileInv
        <3>3. \A m \in Names : m # cur => live'[m] = live[m] /\ pending'[m] = pending[m]
            BY <1>t, <2>1, <3>1 DEF CreateFor
        <3>4. OpenIsThere'
            BY <1>t, <2>1, <2>2, <3>3, OpenAfterRename
        <3> QED BY <2>1, <3>2, <3>4 DEF FileInv, UnlinkedIsClosed
    <2>3. CASE live[cur] # NoInode
        <3>1. UNCHANGED <<inodes, live>>
            BY <1>6, <2>3 DEF AsideRecreate, disk
        <3> QED BY <2>1, <3>1 DEF FileInv, OneNameEach, OpenIsThere, UnlinkedIsClosed
    <2> QED BY <2>2, <2>3
<1> QED BY <1>1, <1>2, <1>3, <1>4, <1>5, <1>6

-----------------------------------------------------------------------------
(* Where the lines are *)

LEMMA PrefixLines ==
    ASSUME NEW s \in Seq(LineIds), NEW t \in Seq(LineIds), IsPrefix(s, t)
    PROVE  ToSet(s) \subseteq ToSet(t)
<1>1. Len(s) \in Nat /\ Len(t) \in Nat /\ Len(s) <= Len(t) /\ DOMAIN s = 1..Len(s) /\ DOMAIN t = 1..Len(t)
    BY LenProperties DEF IsPrefix
<1>2. \A i \in 1..Len(s) : SubSeq(s, 1, Len(s))[i] = s[i] /\ SubSeq(t, 1, Len(s))[i] = t[i]
    BY <1>1
<1>3. \A i \in 1..Len(s) : s[i] = t[i] /\ i \in 1..Len(t)
    BY <1>1, <1>2 DEF IsPrefix
<1> QED BY <1>1, <1>3 DEF ToSet

\* Whatever way a file is put together, a reader has all lines of its parts.
LEMMA ComposeLines ==
    ASSUME NEW parts \in Seq(Seq(LineIds)), NEW there \in BOOLEAN, NEW text \in Seq(LineIds),
           ~there => text = <<>>
    PROVE  ToSet(Compose(parts, there, text)) = ToSet(Packed(parts)) \cup ToSet(text)
<1>1. Packed(parts) \in Seq(LineIds)
    BY PackedType
<1>2. CASE ~there
    BY <1>2 DEF Compose, ToSet
<1>3. CASE there /\ IsPrefix(Packed(parts), text)
    BY <1>1, <1>3, PrefixLines DEF Compose
<1>4. CASE there /\ ~IsPrefix(Packed(parts), text)
    BY <1>1, <1>4, ToSetConcat DEF Compose
<1> QED BY <1>2, <1>3, <1>4

LEMMA ViewLines ==
    ASSUME TypeInv, NEW n \in Names
    PROVE  ToSet(View(n)) = ToSet(Packed(slices[n])) \cup ToSet(Text(live[n]))
<1>1. slices[n] \in Seq(Seq(LineIds)) /\ Text(live[n]) \in Seq(LineIds)
    BY TextType DEF TypeInv, TypeOK
<1>2. live[n] = NoInode => Text(live[n]) = <<>>
    BY DEF Text
<1> QED BY <1>1, <1>2, ComposeLines DEF View

\* A slice more is no line less.
LEMMA PublishedLines ==
    ASSUME NEW parts \in Seq(Seq(LineIds)), NEW data \in Seq(LineIds)
    PROVE  ToSet(Packed(AddSlice(parts, data))) = ToSet(Packed(parts)) \cup ToSet(data)
<1>1. Packed(AddSlice(parts, data)) = Packed(parts) \o data
    BY FlattenAppend DEF Packed, AddSlice
<1>2. Packed(parts) \in Seq(LineIds)
    BY PackedType
<1> QED BY <1>1, <1>2, ToSetConcat

\* Steps that write no line: a file keeps its places, or what it loses is packed.
LEMMA CoveredMoves ==
    ASSUME Covered, content' = content, hist' = hist, clobbered \subseteq clobbered',
           \A n \in Names :
              /\ ToSet(Packed(slices[n])) \subseteq ToSet(Packed(slices'[n]))
              /\ live[n] \in {live'[n], pending'[n], NoInode} \cup clobbered'
              /\ \/ pending[n] \in {live'[n], pending'[n], NoInode} \cup clobbered'
                 \/ ToSet(Text(pending[n])) \subseteq ToSet(Packed(slices[n]))
    PROVE  Covered'
<1>1. Clobbered \subseteq Clobbered'
      /\ \A j \in clobbered' : j # NoInode => ToSet(Text(j)) \subseteq Clobbered'
    <2>1. \A x : x \in Clobbered <=> \E j \in clobbered : x \in ToSet(content[j])
        BY Zenon DEF Clobbered
    <2>2. \A x : x \in Clobbered' <=> \E j \in clobbered' : x \in ToSet(content[j])
        BY Zenon DEF Clobbered
    <2> QED BY <2>1, <2>2 DEF Text
<1>2. ToSet(Text(NoInode)) = {}
    BY DEF Text, ToSet
<1>3. ASSUME NEW n \in Names PROVE ToSet(hist[n])' \subseteq Places(n)'
    <2>1. Places(n)' = ToSet(Packed(slices'[n])) \cup ToSet(Text(live'[n]))
                         \cup ToSet(Text(pending'[n])) \cup Clobbered'
        BY DEF Places, Text
    <2>2. ToSet(Text(live[n])) \subseteq Places(n)'
        BY <1>1, <1>2, <2>1
    <2>3. ToSet(Text(pending[n])) \subseteq Places(n)'
        BY <1>1, <1>2, <2>1
    <2>4. ToSet(hist[n]) \subseteq Places(n)
        BY DEF Covered
    <2> QED BY <1>1, <2>1, <2>2, <2>3, <2>4 DEF Places
<1> QED BY <1>3 DEF Covered

LEMMA CoveredWrite ==
    ASSUME TypeInv, FileInv, Covered, NEW w \in Writers, WriteLine(w)
    PROVE  Covered'
<1> DEFINE line == Cardinality(Lines) + 1
           i == fd[w].ino
           f == fd[w].name
<1>1. line \in LineIds
    BY LinesType, RollupAssumption DEF WriteLine, LineIds
<1>2. i \in Inodes /\ f \in Names
    BY DEF WriteLine, TypeInv, FileHandle
<1>3. /\ content' = [content EXCEPT ![i] = Append(@, line)]
      /\ hist' = [hist EXCEPT ![f] = Append(@, line)]
      /\ UNCHANGED <<live, pending, slices, clobbered>>
    BY DEF WriteLine
<1>4. content \in [Inodes -> Seq(LineIds)] /\ hist \in [Names -> Seq(LineIds)]
      /\ live \in [Names -> MaybeInode] /\ pending \in [Names -> MaybeInode]
      /\ clobbered \subseteq Inodes
    BY DEF TypeInv, TypeOK
<1>5. i \in {live[f], pending[f]} \cup clobbered
    BY DEF FileInv, OpenIsThere, WriteLine
<1> HIDE DEF line, i, f
<1>6. \A j \in Inodes : ToSet(content'[j]) = ToSet(content[j]) \cup (IF j = i THEN {line} ELSE {})
    BY <1>1, <1>2, <1>3, <1>4, ToSetAppend
<1>7. \A n \in Names : ToSet(hist'[n]) = ToSet(hist[n]) \cup (IF n = f THEN {line} ELSE {})
    BY <1>1, <1>2, <1>3, <1>4, ToSetAppend
<1>9. Clobbered \subseteq Clobbered' /\ (i \in clobbered => line \in Clobbered')
    <2>1. \A x : x \in Clobbered <=> \E j \in clobbered : x \in ToSet(content[j])
        BY Zenon DEF Clobbered
    <2>2. \A x : x \in Clobbered' <=> \E j \in clobbered : x \in ToSet(content'[j])
        BY <1>3, Zenon DEF Clobbered
    <2> QED BY <1>4, <1>6, <2>1, <2>2
<1>10. ASSUME NEW j \in MaybeInode
       PROVE  LET before == IF j = NoInode THEN <<>> ELSE content[j]
                  after == IF j = NoInode THEN <<>> ELSE content'[j]
              IN  ToSet(before) \subseteq ToSet(after) /\ (j = i => line \in ToSet(after))
    <2>1. CASE j = NoInode
        BY <1>2, <2>1 DEF Inodes, NoInode
    <2>2. CASE j # NoInode
        BY <1>6, <2>2 DEF MaybeInode
    <2> QED BY <2>1, <2>2
<1>11. ASSUME NEW n \in Names
       PROVE  Places(n) \subseteq Places(n)' /\ (n = f => line \in Places(n)')
    <2>1. ToSet(Text(live[n])) \subseteq ToSet(Text(live[n]))'
          /\ (live[n] = i => line \in ToSet(Text(live[n]))')
        <3>1. live[n] \in MaybeInode /\ live'[n] = live[n]
            BY <1>3, <1>4
        <3> QED BY <3>1, <1>10 DEF Text
    <2>2. ToSet(Text(pending[n])) \subseteq ToSet(Text(pending[n]))'
          /\ (pending[n] = i => line \in ToSet(Text(pending[n]))')
        <3>1. pending[n] \in MaybeInode /\ pending'[n] = pending[n]
            BY <1>3, <1>4
        <3> QED BY <3>1, <1>10 DEF Text
    <2>3. ToSet(Packed(slices[n]))' = ToSet(Packed(slices[n]))
        BY <1>3
    <2> QED BY <2>1, <2>2, <2>3, <1>5, <1>9 DEF Places
<1>12. ASSUME NEW n \in Names PROVE ToSet(hist[n])' \subseteq Places(n)'
    <2>1. ToSet(hist[n]) \subseteq Places(n)
        BY DEF Covered
    <2>2. ToSet(hist[n])' = ToSet(hist[n]) \cup (IF n = f THEN {line} ELSE {})
        BY <1>7
    <2> QED BY <2>1, <2>2, <1>11
<1> QED BY <1>12 DEF Covered

\* Deleted is only what equals something packed (pending_cleanup).
LEMMA DeletedIsPacked ==
    ASSUME TypeInv, CleanUnlink
    PROVE  ToSet(Text(pending[cur])) \subseteq ToSet(Packed(slices[cur]))
<1>1. cur \in Names /\ slices[cur] \in Seq(Seq(LineIds))
    BY DEF TypeInv, TypeOK, AtOneName, CleanUnlink
<1>2. PICK t \in PackedForms(cur) : t = Text(pending[cur])
    BY DEF CleanUnlink, EqualForms
<1>3. CASE t = Packed(slices[cur])
    BY <1>2, <1>3
<1>4. CASE t \in ToSet(slices[cur])
    <2>1. PICK i \in 1..Len(slices[cur]) : t = slices[cur][i]
        BY <1>1, <1>4, LenProperties DEF ToSet
    <2> QED BY <1>1, <1>2, <2>1, FlattenParts DEF Packed
<1> QED BY <1>2, <1>3, <1>4 DEF PackedForms

LEMMA CoveredStep ==
    ASSUME TypeInv, FileInv, Covered, Next
    PROVE  Covered'
<1>t. /\ live \in [Names -> MaybeInode] /\ pending \in [Names -> MaybeInode]
      /\ slices \in [Names -> Seq(Seq(LineIds))]
      /\ (rpc \in AtOneName => cur \in Names)
    BY DEF TypeInv, TypeOK
<1>1. CASE Quiet \/ CleanScan
    BY <1>1, QuietFiles, CoveredMoves DEF CleanScan, disk
<1>2. CASE CleanUnlink
    <2>1. /\ UNCHANGED <<content, hist, clobbered, slices>>
          /\ pending' = [pending EXCEPT ![cur] = NoInode]
          /\ \A n \in Names : live[n] \in {live'[n], NoInode}
        BY <1>2, <1>t DEF CleanUnlink
    <2>2. \A n \in Names : n # cur => pending'[n] = pending[n]
        BY <1>t, <2>1
    <2>3. ToSet(Text(pending[cur])) \subseteq ToSet(Packed(slices[cur]))
        BY <1>2, DeletedIsPacked
    <2> QED BY <2>1, <2>2, <2>3, CoveredMoves
<1>3. CASE CleanBack \/ AsideBack
    <2>1. cur \in Names /\ RenameBack(cur) /\ hist' = hist
        BY <1>3, <1>t DEF CleanBack, AsideBack, AtOneName
    <2>2. /\ live' = [live EXCEPT ![cur] = pending[cur]] /\ pending' = [pending EXCEPT ![cur] = NoInode]
          /\ clobbered' = clobbered \cup ({live[cur]} \ {NoInode})
          /\ UNCHANGED <<content, slices>>
        BY <2>1 DEF RenameBack
    <2>3. \A n \in Names : IF n = cur THEN live'[n] = pending[n] ELSE live'[n] = live[n] /\ pending'[n] = pending[n]
        BY <1>t, <2>2
    <2> QED BY <2>1, <2>2, <2>3, CoveredMoves
<1>4. CASE Publish
    <2>1. UNCHANGED <<content, hist, clobbered, live, pending>>
        BY <1>4 DEF Publish
    <2>2. ASSUME NEW n \in Names
          PROVE  ToSet(Packed(slices[n])) \subseteq ToSet(Packed(slices'[n]))
        <3>1. sel[n].data \in Seq(LineIds)
            BY DEF TypeInv, Candidate
        <3>2. slices'[n] = AddSlice(slices[n], sel[n].data) \/ slices'[n] = slices[n]
            BY <1>4 DEF Publish
        <3> QED BY <1>t, <3>1, <3>2, PublishedLines
    <2> QED BY <2>1, <2>2, CoveredMoves
<1>5. CASE AsideRename
    <2>1. CASE pending[cur] # NoInode
        BY <1>5, <2>1, CoveredMoves DEF AsideRename, disk
    <2>2. CASE pending[cur] = NoInode
        <3>1. /\ pending' = [pending EXCEPT ![cur] = live[cur]]
              /\ live' = [live EXCEPT ![cur] = NoInode]
              /\ UNCHANGED <<content, hist, clobbered, slices>>
            BY <1>5, <2>2 DEF AsideRename
        <3>2. \A n \in Names : IF n = cur THEN pending'[n] = live[n] /\ pending[n] = NoInode
                               ELSE live'[n] = live[n] /\ pending'[n] = pending[n]
            BY <1>t, <2>2, <3>1
        <3> QED BY <3>1, <3>2, CoveredMoves
    <2> QED BY <2>1, <2>2
<1>6. CASE AsideRecreate
    <2>1. /\ UNCHANGED <<content, hist, clobbered, slices, pending>>
          /\ \A n \in Names : live[n] \in {live'[n], NoInode}
        BY <1>6, <1>t DEF AsideRecreate, Create, disk
    <2> QED BY <2>1, CoveredMoves
<1>7. ASSUME NEW w \in Writers, NEW n \in Names, OpenLive(w, n) PROVE Covered'
    <2>1. /\ UNCHANGED <<content, hist, clobbered, slices, pending>>
          /\ \A m \in Names : live[m] \in {live'[m], NoInode}
        BY <1>7, <1>t DEF OpenLive, Create, disk
    <2> QED BY <2>1, CoveredMoves
<1>8. ASSUME NEW w \in Writers, WriteLine(w) PROVE Covered'
    BY <1>8, CoveredWrite
<1>9. ASSUME NEW w \in Writers, Close(w) PROVE Covered'
    BY <1>9, CoveredMoves DEF Close, disk
<1> QED BY <1>1, <1>2, <1>3, <1>4, <1>5, <1>6, <1>7, <1>8, <1>9, QuietSteps

RollupInv == TypeInv /\ FileInv /\ Covered

LEMMA RollupInvStep == RollupInv /\ [Next]_vars => RollupInv'
<1> SUFFICES ASSUME RollupInv, [Next]_vars PROVE RollupInv'
    OBVIOUS
<1>1. TypeInv'
    BY TypeStep DEF RollupInv
<1>2. CASE UNCHANGED vars
    <2>1. Quiet
        BY <1>2 DEF vars, disk, roll, Quiet
    <2> QED BY <1>1, <2>1, QuietFiles DEF RollupInv
<1>3. CASE Next
    <2>1. FileInv'
        BY <1>3, QuietSteps, QuietFiles, FileInvWriters, FileInvRollup DEF RollupInv
    <2> QED BY <1>1, <1>3, <2>1, CoveredStep DEF RollupInv
<1> QED BY <1>2, <1>3

LEMMA RollupInvariance == Spec => []RollupInv
<1>1. Init => RollupInv
    BY TypeInit, FileInvInit DEF RollupInv
<1> QED BY <1>1, RollupInvStep, PTL DEF Spec

\* No run of the rollup deletes a line that no segment has, whenever it dies
\* and whoever writes meanwhile (pending_cleanup, set_aside).
THEOREM LinesKeptHolds == Spec => []LinesKept
<1>1. RollupInv => LinesKept
    <2> SUFFICES ASSUME RollupInv, NEW n \in Names
                 PROVE  ToSet(hist[n]) \subseteq
                           ToSet(View(n)) \cup ToSet(Text(pending[n])) \cup Clobbered
        BY DEF LinesKept
    <2>1. ToSet(hist[n]) \subseteq Places(n)
        BY DEF RollupInv, Covered
    <2>2. ToSet(View(n)) = ToSet(Packed(slices[n])) \cup ToSet(Text(live[n]))
        BY ViewLines DEF RollupInv
    <2> QED BY <2>1, <2>2 DEF Places
<1> QED BY <1>1, RollupInvariance, PTL

-----------------------------------------------------------------------------
(* What a reader has *)

PackedLines(n) == ToSet(Packed(slices[n]))
LiveLines(n) == ToSet(Text(live[n]))

\* What was there when the read began is still to be read or has been read,
\* unless the file was renamed meanwhile, which ends a checked read.
Snapshot ==
    /\ reader.pc = "key" /\ ~reader.moved =>
          reader.before \subseteq PackedLines(reader.name) \cup LiveLines(reader.name)
    /\ reader.pc = "members" /\ ~reader.moved =>
          reader.before \subseteq ToSet(Packed(reader.members)) \cup LiveLines(reader.name)
    /\ reader.pc = "live" /\ ~reader.moved => reader.before \subseteq ToSet(reader.data)
    /\ CheckedReadComplete

\* Steps of the others: lines stay, or the reader's file is renamed.
Readable(n) == PackedLines(n) \subseteq PackedLines(n)' /\ LiveLines(n) \subseteq LiveLines(n)'
OthersStep ==
    /\ reader' = reader \/ reader' = [reader EXCEPT !.moved = TRUE]
    /\ \A n \in Names : Readable(n) \/ (reader.name = n => reader'.moved)

LEMMA SnapshotOthers ==
    ASSUME TypeInv, Snapshot, OthersStep
    PROVE  Snapshot'
<1>1. /\ reader'.pc = reader.pc /\ reader'.name = reader.name /\ reader'.checked = reader.checked
      /\ reader'.before = reader.before /\ reader'.members = reader.members
      /\ reader'.data = reader.data /\ (reader.moved => reader'.moved)
    BY DEF OthersStep, TypeInv, ReadState
<1>2. CheckedReadComplete'
    BY <1>1 DEF Snapshot, CheckedReadComplete
<1>3. CASE reader.pc \notin {"key", "members"} \/ reader'.moved
    BY <1>1, <1>2, <1>3 DEF Snapshot
<1>4. CASE reader.pc \in {"key", "members"} /\ ~reader'.moved
    <2>1. PICK n \in Names : n = reader.name
        BY <1>4 DEF TypeInv
    <2>2. Readable(n)
        BY <1>4, <2>1 DEF OthersStep
    <2>3. /\ reader.pc = "key" => reader.before \subseteq PackedLines(n) \cup LiveLines(n)
          /\ reader.pc = "members" =>
                reader.before \subseteq ToSet(Packed(reader.members)) \cup LiveLines(n)
        BY <1>1, <1>4, <2>1 DEF Snapshot
    <2> QED BY <1>1, <1>2, <1>4, <2>1, <2>2, <2>3 DEF Snapshot, Readable, PackedLines, LiveLines
<1> QED BY <1>3, <1>4

\* The live file keeps its lines in every step that does not rename it.
LEMMA LiveKept ==
    ASSUME NEW n \in Names, live'[n] = live[n] \/ live[n] = NoInode, content' = content
    PROVE  LiveLines(n) \subseteq LiveLines(n)'
BY DEF LiveLines, Text, ToSet

LEMMA OthersSteps ==
    ASSUME TypeInv, Next
    PROVE  OthersStep \/ (Read /\ Quiet)
<1>t. /\ live \in [Names -> MaybeInode] /\ slices \in [Names -> Seq(Seq(LineIds))]
      /\ (rpc \in AtOneName => cur \in Names)
      /\ reader \in ReadState
    BY DEF TypeInv, TypeOK
<1>1. ASSUME reader' = reader, UNCHANGED <<content, slices>>,
             \A n \in Names : live'[n] = live[n] \/ live[n] = NoInode
      PROVE  OthersStep
    <2>1. \A n \in Names : PackedLines(n)' = PackedLines(n)
        BY <1>1 DEF PackedLines
    <2> QED BY <1>1, <2>1, LiveKept DEF OthersStep, Readable
<1>2. CASE (Quiet /\ reader' = reader) \/ CleanScan \/ \E w \in Writers : Close(w)
    <2>1. reader' = reader /\ UNCHANGED <<content, live, slices>>
        BY <1>2 DEF Close, Quiet, CleanScan, disk
    <2> QED BY <1>1, <2>1
<1>3. CASE CleanUnlink \/ AsideRecreate \/ \E w \in Writers, n \in Names : OpenLive(w, n)
    <2>1. reader' = reader /\ UNCHANGED <<content, slices>>
        BY <1>3 DEF CleanUnlink, AsideRecreate, OpenLive, Create, disk
    <2>2. \A n \in Names : live'[n] = live[n] \/ live[n] = NoInode
        BY <1>t, <1>3 DEF CleanUnlink, AsideRecreate, OpenLive, Create, disk
    <2> QED BY <1>1, <2>1, <2>2
<1>4. CASE CleanBack \/ AsideBack \/ (AsideRename /\ pending[cur] = NoInode)
    <2>1. cur \in Names /\ Touch(cur) /\ UNCHANGED <<content, slices>>
          /\ \A n \in Names : n # cur => live'[n] = live[n]
        BY <1>t, <1>4 DEF CleanBack, AsideBack, AsideRename, RenameBack, AtOneName
    <2>2. reader' = reader \/ reader' = [reader EXCEPT !.moved = TRUE]
        BY <2>1 DEF Touch
    <2>3. \A n \in Names : PackedLines(n)' = PackedLines(n)
        BY <2>1 DEF PackedLines
    <2>4. \A n \in Names : n # cur => Readable(n)
        BY <2>1, <2>3, LiveKept DEF Readable
    <2>5. reader.name = cur => reader'.moved
        BY <1>t, <2>1 DEF Touch, ReadState
    <2> QED BY <2>1, <2>2, <2>4, <2>5 DEF OthersStep
<1>5. CASE AsideRename /\ pending[cur] # NoInode
    BY <1>1, <1>5 DEF AsideRename, disk
<1>6. CASE Publish
    <2>1. reader' = reader /\ UNCHANGED <<content, live>>
        BY <1>6 DEF Publish
    <2>2. ASSUME NEW n \in Names PROVE PackedLines(n) \subseteq PackedLines(n)'
        <3>1. sel[n].data \in Seq(LineIds)
            BY DEF TypeInv, Candidate
        <3>2. slices'[n] = AddSlice(slices[n], sel[n].data) \/ slices'[n] = slices[n]
            BY <1>t, <1>6 DEF Publish
        <3> QED BY <1>t, <3>1, <3>2, PublishedLines DEF PackedLines
    <2> QED BY <2>1, <2>2, LiveKept DEF OthersStep, Readable
<1>7. ASSUME NEW w \in Writers, WriteLine(w) PROVE OthersStep
    <2> DEFINE line == Cardinality(Lines) + 1
    <2>1. line \in LineIds
        BY <1>7, LinesType, RollupAssumption DEF WriteLine, LineIds
    <2>2. /\ content' = [content EXCEPT ![fd[w].ino] = Append(@, line)]
          /\ UNCHANGED <<live, slices, reader>>
        BY <1>7 DEF WriteLine
    <2>3. content \in [Inodes -> Seq(LineIds)]
        BY DEF TypeInv, TypeOK
    <2> HIDE DEF line
    <2>4. \A i \in Inodes : ToSet(content[i]) \subseteq ToSet(content'[i])
        BY <2>1, <2>2, <2>3, ToSetAppend
    <2>5. ASSUME NEW n \in Names PROVE Readable(n)
        <3>1. PackedLines(n)' = PackedLines(n)
            BY <2>2 DEF PackedLines
        <3>2. LiveLines(n) \subseteq LiveLines(n)'
            BY <1>t, <2>2, <2>4 DEF LiveLines, Text, MaybeInode
        <3> QED BY <3>1, <3>2 DEF Readable
    <2> QED BY <2>2, <2>5 DEF OthersStep
<1> QED BY <1>2, <1>3, <1>4, <1>5, <1>6, <1>7, QuietSteps

LEMMA SnapshotRead ==
    ASSUME TypeInv, Snapshot, Read, Quiet
    PROVE  Snapshot'
<1>t. /\ slices \in [Names -> Seq(Seq(LineIds))]
      /\ (reader.pc # "off" => reader.name \in Names)
      /\ reader \in ReadState
    BY DEF TypeInv, TypeOK
<1>0. \A n \in Names : PackedLines(n)' = PackedLines(n) /\ LiveLines(n)' = LiveLines(n)
    BY DEF Quiet, disk, PackedLines, LiveLines, Text
<1>1. ASSUME NEW n \in Names, NEW checked \in Reads, ReadBegin(n, checked)
      PROVE  Snapshot'
    <2>1. /\ reader'.pc = "key" /\ reader'.name = n /\ reader'.before = ToSet(View(n))
        BY <1>1 DEF ReadBegin, IdleReader
    <2>2. ToSet(View(n)) = PackedLines(n) \cup LiveLines(n)
        BY ViewLines DEF PackedLines, LiveLines
    <2> QED BY <1>0, <2>1, <2>2 DEF Snapshot, CheckedReadComplete
<1>2. CASE reader' = IdleReader
    BY <1>2 DEF Snapshot, CheckedReadComplete, IdleReader
<1>3. CASE ReadMembers
    <2>1. /\ reader.pc = "key" /\ reader'.pc = "members" /\ reader'.name = reader.name
          /\ reader'.before = reader.before /\ reader'.moved = reader.moved
          /\ reader'.members = slices[reader.name]
        BY <1>t, <1>3 DEF ReadMembers, ReadState
    <2>2. LiveLines(reader.name)' = LiveLines(reader.name)
        BY <2>1 DEF Quiet, disk, LiveLines, Text
    <2> QED BY <2>1, <2>2 DEF Snapshot, CheckedReadComplete, PackedLines
<1>4. CASE ReadLive /\ reader' # IdleReader
    <2> DEFINE ino == live[reader.name]
    <2>1. /\ reader.pc = "members" /\ reader'.pc = "live" /\ reader'.before = reader.before
          /\ reader'.moved = reader.moved
          /\ reader'.data = Compose(reader.members, ino # NoInode, Text(ino))
        BY <1>t, <1>4 DEF ReadLive, ReadState
    <2>2. /\ Text(ino) \in Seq(LineIds) /\ (ino = NoInode => Text(ino) = <<>>)
          /\ reader.members \in Seq(Seq(LineIds))
        BY <1>t, <2>1, TextType DEF TypeInv, TypeOK, ReadState, Text
    <2>3. ToSet(reader'.data) = ToSet(Packed(reader.members)) \cup LiveLines(reader.name)
        BY <2>1, <2>2, ComposeLines DEF LiveLines
    <2> QED BY <2>1, <2>3 DEF Snapshot, CheckedReadComplete
<1>5. CASE ReadEnd /\ reader' # IdleReader
    <2>1. /\ reader.pc = "live" /\ reader'.pc = "done" /\ reader'.before = reader.before
          /\ reader'.data = reader.data /\ reader'.checked = reader.checked
          /\ (reader.checked => ~reader.moved)
        BY <1>t, <1>5 DEF ReadEnd, KeyHolds, ReadState
    <2> QED BY <2>1 DEF Snapshot, CheckedReadComplete
<1> QED BY <1>1, <1>2, <1>3, <1>4, <1>5 DEF Read, ReadDone

\* A read that compares keys has every line that was there when it began,
\* whatever is packed, renamed, deleted or written meanwhile (ledger_cache._file).
THEOREM CheckedReadCompleteHolds == Spec => []CheckedReadComplete
<1>1. Init => Snapshot
    BY DEF Init, IdleReader, Snapshot, CheckedReadComplete
<1>2. TypeInv /\ Snapshot /\ [Next]_vars => Snapshot'
    <2> SUFFICES ASSUME TypeInv, Snapshot, [Next]_vars PROVE Snapshot'
        OBVIOUS
    <2>1. CASE UNCHANGED vars
        <3>1. OthersStep
            BY <2>1 DEF vars, disk, OthersStep, Readable, PackedLines, LiveLines, Text
        <3> QED BY <3>1, SnapshotOthers
    <2>2. CASE Next
        BY <2>2, OthersSteps, SnapshotOthers, SnapshotRead
    <2> QED BY <2>1, <2>2
<1>3. Snapshot => CheckedReadComplete
    BY DEF Snapshot
<1> QED BY <1>1, <1>2, <1>3, TypeInvariance, PTL DEF Spec

-----------------------------------------------------------------------------
(* The order of the lines *)

\* Lines are numbered as they are appended, each is in one inode, and an inode
\* has its lines in that order.
LineInv ==
    /\ Lines = 1..Cardinality(Lines)
    /\ \A i \in Inodes : /\ Increasing(content[i]) /\ ToSet(content[i]) \subseteq Lines
                         /\ i > inodes => content[i] = <<>>
    /\ \A i, j \in Inodes : i # j => ~Meet(content[i], content[j])
    /\ \A n \in Names : PackedLines(n) \subseteq Lines
    /\ \A i \in clobbered : i <= inodes

\* A live or pending file repeats what is packed, or shares a line with it, or
\* has only later lines.
Follows(n, text) ==
    LET packed == Packed(slices[n])
    IN  IsPrefix(packed, text) \/ Meet(packed, text) \/ Below(packed, text)

\* What is about to be packed is a part of the live file, and continues what
\* is packed or repeats lines of it.
Picked(n) == sel[n].todo \in {"picked", "valid"}
PickedInv ==
    \A n \in Names : Picked(n) =>
        LET packed == Packed(slices[n])
            data == sel[n].data
            text == content[sel[n].ino]
        IN  /\ live[n] = sel[n].ino /\ live[n] # NoInode /\ pending[n] = NoInode
            /\ data # <<>>
            /\ \/ IsPrefix(packed \o data, text)
               \/ IsPrefix(data, text) /\ (Meet(packed, data) \/ Below(packed, data))

FollowInv == \A n \in Names : Follows(n, Text(live[n])) /\ Follows(n, Text(pending[n]))

PackedInv ==
    \A n \in Names :
        /\ IsInjective(Packed(slices[n])) => Increasing(Packed(slices[n]))
        /\ Len(slices[n]) = 1 => \E i \in Inodes : IsPrefix(Packed(slices[n]), content[i])

OrderInv == PickedInv /\ FollowInv /\ PackedInv

\* What the rollup has selected, by where it is.
RollInv ==
    /\ rpc \in {"rename", "recheck", "back"} => sel[cur].todo = "aside"
    /\ rpc \in {"off", "clean", "unlink", "uback", "scan", "pick"} =>
          \A n \in Names : sel[n].todo = "no"
    /\ rpc \in {"scan", "pick"} => \A n \in Names : pending[n] = NoInode

LEMMA RollInvStep ==
    ASSUME TypeInv, RollInv, Next
    PROVE  RollInv'
<1>t. sel \in [Names -> Candidate] /\ (rpc \in AtOneName => cur \in Names) /\ rpc \in RollupPC
    BY DEF TypeInv, TypeOK
<1>0. Exit => RollInv'
    BY DEF Exit, RollInv, Unpicked
<1>1. CASE Read \/ \E w \in Writers : (\E n \in Names : OpenLive(w, n)) \/ WriteLine(w) \/ Close(w)
    <2>1. UNCHANGED <<roll, pending>>
        BY <1>1 DEF Read, ReadBegin, ReadMembers, ReadLive, ReadEnd, ReadDone, OpenLive, Create,
           WriteLine, Close, disk
    <2> QED BY <2>1 DEF RollInv, roll
<1>2. CASE Start \/ CleanScan \/ CleanLate \/ CleanUnlink
    BY <1>0, <1>2 DEF Start, CleanScan, CleanLate, CleanUnlink, RollInv, disk
<1>3. CASE CleanBack \/ CandidateScan
    BY <1>3 DEF CleanBack, CandidateScan, RollInv, disk
<1>4. CASE Pick \/ PublishScan \/ PublishCheck \/ Publish \/ AsideNone
    BY <1>0, <1>4 DEF Pick, PublishScan, PublishCheck, Publish, AsideNone, RollInv
<1>5. CASE AsideLook
    BY <1>t, <1>5 DEF AsideLook, RollInv, At, Settle
<1>6. CASE AsideRename \/ AsideRecheck \/ Crash
    BY <1>0, <1>6 DEF AsideRename, AsideRecheck, Crash, RollInv
<1>7. CASE AsideBack \/ AsideRecreate
    BY <1>7 DEF AsideBack, AsideRecreate, RollInv
<1> QED BY <1>1, <1>2, <1>3, <1>4, <1>5, <1>6, <1>7 DEF Next, Rollup

LEMMA LineNumbers ==
    ASSUME NEW s \in Seq(LineIds)
    PROVE  s \in Seq(Nat)
BY RollupAssumption, SeqMonotonic DEF LineIds

\* A new line is later than every other one.
LEMMA NewLine ==
    ASSUME TypeInv, LineInv, NEW w \in Writers, WriteLine(w)
    PROVE  LET line == Cardinality(Lines) + 1
           IN  /\ line \in LineIds /\ \A x \in Lines : x < line
               /\ Lines' = Lines \cup {line} /\ Lines' = 1..Cardinality(Lines')
<1> DEFINE k == Cardinality(Lines)
           f == fd[w].name
<1>1. k \in Nat /\ k + 1 \in LineIds
    BY LinesType, RollupAssumption DEF WriteLine, LineIds
<1>2. f \in Names /\ hist \in [Names -> Seq(LineIds)] /\ hist' = [hist EXCEPT ![f] = Append(@, k + 1)]
    BY DEF WriteLine, TypeInv, TypeOK, FileHandle
<1>3. \A x \in Lines : x < k + 1
    BY <1>1 DEF LineInv
<1> HIDE DEF f
<1>4. \A n \in Names : ToSet(hist'[n]) = ToSet(hist[n]) \cup (IF n = f THEN {k + 1} ELSE {})
    BY <1>1, <1>2, ToSetAppend
<1>5. \A x : x \in Lines <=> \E n \in Names : x \in ToSet(hist[n])
    BY Zenon DEF Lines
<1>6. \A x : x \in Lines' <=> \E n \in Names : x \in ToSet(hist'[n])
    BY Zenon DEF Lines
<1>7. Lines' = Lines \cup {k + 1}
    BY <1>2, <1>4, <1>5, <1>6
<1>8. Lines' = 1..(k + 1)
    BY <1>1, <1>7 DEF LineInv
<1>9. Cardinality(1..(k + 1)) = k + 1
    BY <1>1, FS_Interval
<1> QED BY <1>1, <1>3, <1>7, <1>8, <1>9

\* Steps that write no line: numbers stay.
LEMMA LineInvKept ==
    ASSUME TypeInv, TypeInv', LineInv, content' = content, hist' = hist, inodes' >= inodes,
           \A n \in Names : PackedLines(n)' \subseteq Lines,
           \A i \in clobbered' : i <= inodes'
    PROVE  LineInv'
<1>1. Lines' = Lines
    BY DEF Lines
<1>2. inodes \in Nat /\ inodes' \in Nat
    BY RollupAssumption DEF TypeInv, TypeOK
<1>3. \A i \in Inodes : i > inodes' => i > inodes
    BY <1>2 DEF Inodes
<1> QED BY <1>1, <1>3 DEF LineInv

LEMMA InodesGrow ==
    ASSUME TypeInv, OneNameEach, LineInv, Next, \A w \in Writers : ~WriteLine(w)
    PROVE  /\ content' = content /\ hist' = hist /\ inodes' >= inodes
           /\ ~Publish => slices' = slices
           /\ \A i \in clobbered' : i <= inodes'
<1>1. inodes \in Nat /\ \A i \in clobbered : i \in Nat /\ i <= inodes
    BY RollupAssumption DEF TypeInv, TypeOK, LineInv, Inodes
<1>2. CASE Quiet \/ CleanScan
    BY <1>1, <1>2 DEF Quiet, CleanScan, disk
<1>3. CASE CleanBack \/ AsideBack
    <2>1. cur \in Names
        BY <1>3 DEF TypeInv, AtOneName, CleanBack, AsideBack
    <2>2. UNCHANGED <<content, inodes, slices, hist>> /\ clobbered' \subseteq clobbered \cup {live[cur]}
        BY <1>3 DEF CleanBack, AsideBack, RenameBack
    <2> QED BY <1>1, <2>1, <2>2 DEF OneNameEach
<1>4. CASE CleanUnlink \/ Publish \/ AsideRename \/ AsideRecreate
    BY <1>1, <1>4 DEF CleanUnlink, Publish, AsideRename, AsideRecreate, Create, disk
<1>5. ASSUME NEW w \in Writers, (\E n \in Names : OpenLive(w, n)) \/ Close(w)
      PROVE  /\ content' = content /\ hist' = hist /\ inodes' >= inodes /\ slices' = slices
             /\ \A i \in clobbered' : i <= inodes'
    BY <1>1, <1>5 DEF OpenLive, Close, Create, disk
<1> QED BY <1>2, <1>3, <1>4, <1>5, QuietSteps

\* What is published has been read from an inode.
LEMMA PickedLines ==
    ASSUME TypeInv, PickedInv, NEW n \in Names, Picked(n)
    PROVE  /\ live[n] \in Inodes /\ live[n] = sel[n].ino /\ sel[n].data \in Seq(LineIds)
           /\ ToSet(sel[n].data) \subseteq ToSet(content[live[n]])
<1> DEFINE packed == Packed(slices[n])
           data == sel[n].data
           text == content[live[n]]
<1>1. /\ live[n] \in Inodes /\ live[n] = sel[n].ino
      /\ IsPrefix(packed \o data, text) \/ IsPrefix(data, text)
    BY DEF PickedInv, TypeInv, TypeOK, MaybeInode
<1>2. packed \in Seq(LineIds) /\ data \in Seq(LineIds) /\ text \in Seq(LineIds)
    BY <1>1, PackedType DEF TypeInv, TypeOK, Candidate
<1> HIDE DEF packed, data, text
<1>3. packed \o data \in Seq(LineIds) /\ ToSet(data) \subseteq ToSet(packed \o data)
    BY <1>2, ConcatProperties, ToSetConcat
<1>4. ToSet(data) \subseteq ToSet(text)
    BY <1>1, <1>2, <1>3, PrefixToSet DEF PrefixMembers
<1> QED BY <1>1, <1>2, <1>4 DEF data, text

LEMMA LineInvWrite ==
    ASSUME TypeInv, LineInv, NEW w \in Writers, WriteLine(w), OneNameEach, OpenIsThere
    PROVE  LineInv'
<1> DEFINE line == Cardinality(Lines) + 1
           i == fd[w].ino
<1>1. line \in LineIds /\ (\A x \in Lines : x < line) /\ line \notin Lines
      /\ Lines' = Lines \cup {line} /\ Lines' = 1..Cardinality(Lines')
    <2>1. line \in LineIds /\ (\A x \in Lines : x < line)
          /\ Lines' = Lines \cup {line} /\ Lines' = 1..Cardinality(Lines')
        BY NewLine
    <2>2. line \in Nat
        BY <2>1, RollupAssumption DEF LineIds
    <2> QED BY <2>1, <2>2
<1>2. i \in Inodes /\ content \in [Inodes -> Seq(LineIds)]
    BY DEF WriteLine, TypeInv, TypeOK, FileHandle
<1>3. /\ content' = [content EXCEPT ![i] = Append(@, line)] /\ UNCHANGED <<slices, inodes, clobbered>>
    BY DEF WriteLine
<1>4. i <= inodes
    BY DEF WriteLine, OneNameEach, OpenIsThere, TypeInv, FileHandle, LineInv
<1> HIDE DEF line, i
<1>5. \A j \in Inodes : ToSet(content'[j]) = ToSet(content[j]) \cup (IF j = i THEN {line} ELSE {})
    BY <1>1, <1>2, <1>3, ToSetAppend
<1>6. ASSUME NEW j \in Inodes PROVE Increasing(content'[j])
    <2>1. CASE j = i
        <3>1. content'[j] = content[j] \o <<line>>
            BY <1>1, <1>2, <1>3, <2>1, AppendIsConcat
        <3>2. content[j] \in Seq(Nat) /\ <<line>> \in Seq(Nat)
            BY <1>1, <1>2, LineNumbers DEF LineIds
        <3>3. Increasing(<<line>>)
            BY DEF Increasing
        <3>4. Below(content[j], <<line>>)
            BY <1>1, <1>2 DEF LineInv, Below, ToSet
        <3> QED BY <3>1, <3>2, <3>3, <3>4, IncreasingConcat DEF LineInv
    <2>2. CASE j # i
        BY <1>2, <1>3, <2>2 DEF LineInv
    <2> QED BY <2>1, <2>2
<1>7. ASSUME NEW j \in Inodes
      PROVE  ToSet(content'[j]) \subseteq Lines' /\ (j > inodes' => content'[j] = <<>>)
    <2>1. ToSet(content'[j]) \subseteq Lines'
        BY <1>1, <1>5 DEF LineInv
    <2>2. j > inodes => j # i
        BY <1>2, <1>4, RollupAssumption DEF Inodes, TypeInv, TypeOK
    <2> QED BY <1>2, <1>3, <2>1, <2>2 DEF LineInv
<1>8. ASSUME NEW j \in Inodes, NEW k \in Inodes, j # k
      PROVE  ~Meet(content'[j], content'[k])
    <2>1. \A x \in ToSet(content[j]) : x # line /\ x \notin ToSet(content[k])
        BY <1>1, <1>8 DEF LineInv, Meet
    <2>2. \A x \in ToSet(content[k]) : x # line
        BY <1>1 DEF LineInv
    <2> QED BY <1>5, <1>8, <2>1, <2>2 DEF Meet
<1>9. \A n \in Names : PackedLines(n)' \subseteq Lines'
    BY <1>1, <1>3 DEF LineInv, PackedLines
<1>10. \A j \in clobbered' : j <= inodes'
    BY <1>3 DEF LineInv
<1> QED BY <1>1, <1>6, <1>7, <1>8, <1>9, <1>10 DEF LineInv

LEMMA LineInvStep ==
    ASSUME TypeInv, TypeInv', FileInv, LineInv, PickedInv, Next
    PROVE  LineInv'
<1>1. ASSUME NEW w \in Writers, WriteLine(w) PROVE LineInv'
    BY <1>1, LineInvWrite DEF FileInv
<1>2. CASE \A w \in Writers : ~WriteLine(w)
    <2>1. /\ content' = content /\ hist' = hist /\ inodes' >= inodes
          /\ ~Publish => slices' = slices
          /\ \A i \in clobbered' : i <= inodes'
        BY <1>2, InodesGrow DEF FileInv
    <2>2. ASSUME NEW n \in Names PROVE PackedLines(n)' \subseteq Lines
        <3>1. PackedLines(n) \subseteq Lines
            BY DEF LineInv
        <3>2. CASE slices'[n] = slices[n]
            BY <3>1, <3>2 DEF PackedLines
        <3>3. CASE slices'[n] # slices[n]
            <4>1. Publish /\ slices \in [Names -> Seq(Seq(LineIds))]
                BY <2>1, <3>3 DEF TypeInv, TypeOK
            <4>2. sel[n].todo = "valid" /\ slices'[n] = AddSlice(slices[n], sel[n].data)
                BY <3>3, <4>1 DEF Publish
            <4>3. /\ live[n] \in Inodes /\ sel[n].data \in Seq(LineIds)
                  /\ ToSet(sel[n].data) \subseteq ToSet(content[live[n]])
                BY <4>2, PickedLines DEF Picked
            <4>4. ToSet(Packed(slices'[n])) = ToSet(Packed(slices[n])) \cup ToSet(sel[n].data)
                BY <4>1, <4>2, <4>3, PublishedLines
            <4> QED BY <3>1, <4>3, <4>4 DEF LineInv, PackedLines
        <3> QED BY <3>2, <3>3
    <2> QED BY <2>1, <2>2, LineInvKept
<1> QED BY <1>1, <1>2

\* Appending to an inode changes nothing of the order: what is appended is
\* later than all that is packed.
LEMMA OrderWrite ==
    ASSUME TypeInv, LineInv, OrderInv, NEW w \in Writers, WriteLine(w)
    PROVE  OrderInv'
<1> DEFINE line == Cardinality(Lines) + 1
           i == fd[w].ino
<1>1. line \in LineIds /\ (\A x \in Lines : x < line)
    BY NewLine
<1>2. /\ i \in Inodes /\ content \in [Inodes -> Seq(LineIds)]
      /\ live \in [Names -> MaybeInode] /\ pending \in [Names -> MaybeInode]
    BY DEF WriteLine, TypeInv, TypeOK, FileHandle
<1>3. /\ content' = [content EXCEPT ![i] = Append(@, line)]
      /\ UNCHANGED <<slices, live, pending, sel>>
    BY DEF WriteLine, roll
<1> HIDE DEF line, i
<1>4. \A j \in Inodes : ToSet(content'[j]) = ToSet(content[j]) \cup (IF j = i THEN {line} ELSE {})
    BY <1>1, <1>2, <1>3, ToSetAppend
<1>5. ASSUME NEW j \in Inodes, NEW s \in Seq(LineIds), IsPrefix(s, content[j])
      PROVE  IsPrefix(s, content'[j])
    BY <1>1, <1>2, <1>3, <1>5, PrefixAppend
<1>6. ASSUME NEW n \in Names, NEW j \in MaybeInode, Follows(n, Text(j))
      PROVE  LET after == IF j = NoInode THEN <<>> ELSE content'[j]
                 packed == Packed(slices[n])
             IN  IsPrefix(packed, after) \/ Meet(packed, after) \/ Below(packed, after)
    <2>1. CASE j = NoInode
        BY <1>6, <2>1 DEF Follows, Text
    <2>2. CASE j # NoInode
        <3>1. j \in Inodes /\ Text(j) = content[j]
            BY <2>2 DEF MaybeInode, Text
        <3>2. Packed(slices[n]) \in Seq(LineIds) /\ \A x \in ToSet(Packed(slices[n])) : x < line
            BY <1>1, PackedType DEF TypeInv, TypeOK, LineInv, PackedLines
        <3>3. CASE IsPrefix(Packed(slices[n]), content[j])
            BY <1>5, <2>2, <3>1, <3>2, <3>3
        <3>4. CASE Meet(Packed(slices[n]), content[j])
            BY <1>4, <2>2, <3>1, <3>4 DEF Meet
        <3>5. CASE Below(Packed(slices[n]), content[j])
            BY <1>4, <2>2, <3>1, <3>2, <3>5 DEF Below
        <3> QED BY <1>6, <3>1, <3>3, <3>4, <3>5 DEF Follows
    <2> QED BY <2>1, <2>2
<1>7. FollowInv'
    <2> SUFFICES ASSUME NEW n \in Names
                 PROVE  Follows(n, Text(live[n]))' /\ Follows(n, Text(pending[n]))'
        BY DEF FollowInv
    <2>1. /\ live[n] \in MaybeInode /\ pending[n] \in MaybeInode
          /\ Follows(n, Text(live[n])) /\ Follows(n, Text(pending[n]))
        BY <1>2 DEF OrderInv, FollowInv
    <2>2. Follows(n, Text(live[n]))'
        BY <1>3, <1>6, <2>1 DEF Follows, Text
    <2>3. Follows(n, Text(pending[n]))'
        BY <1>3, <1>6, <2>1 DEF Follows, Text
    <2> QED BY <2>2, <2>3
<1>8. PickedInv'
    <2> SUFFICES ASSUME NEW n \in Names, Picked(n)'
                 PROVE  LET packed == Packed(slices[n])
                            data == sel[n].data
                            text == content'[sel[n].ino]
                        IN  /\ live[n] = sel[n].ino /\ live[n] # NoInode /\ pending[n] = NoInode
                            /\ data # <<>>
                            /\ \/ IsPrefix(packed \o data, text)
                               \/ IsPrefix(data, text) /\ (Meet(packed, data) \/ Below(packed, data))
        BY <1>3 DEF PickedInv
    <2>1. Picked(n)
        BY <1>3 DEF Picked
    <2>2. live[n] \in Inodes /\ live[n] = sel[n].ino /\ sel[n].data \in Seq(LineIds)
        BY <2>1, PickedLines DEF OrderInv
    <2>3. Packed(slices[n]) \o sel[n].data \in Seq(LineIds)
        BY <2>2, PackedType, ConcatProperties DEF TypeInv, TypeOK
    <2> QED BY <1>5, <2>1, <2>2, <2>3 DEF OrderInv, PickedInv
<1>9. PackedInv'
    <2>1. \A n \in Names : Packed(slices[n]) \in Seq(LineIds)
        BY PackedType DEF TypeInv, TypeOK
    <2> QED BY <1>3, <1>5, <2>1 DEF OrderInv, PackedInv
<1> QED BY <1>7, <1>8, <1>9 DEF OrderInv

\* Files that only change their names keep their order, and what is selected
\* keeps its file.
Moved(n) ==
    /\ live'[n] \in {live[n], pending[n], NoInode} \/ (live'[n] = inodes + 1 /\ inodes + 1 \in Inodes)
    /\ pending'[n] \in {live[n], pending[n], NoInode}
    /\ Picked(n)' => /\ Picked(n) /\ sel'[n].ino = sel[n].ino /\ sel'[n].data = sel[n].data
                     /\ live'[n] = live[n] /\ pending'[n] = pending[n]

LEMMA OrderMoves ==
    ASSUME TypeInv, LineInv, OrderInv, content' = content, slices' = slices,
           \A n \in Names : Moved(n)
    PROVE  OrderInv'
<1>0. ASSUME NEW n \in Names
      PROVE  /\ live'[n] \in {live[n], pending[n], NoInode} \/ (live'[n] = inodes + 1 /\ inodes + 1 \in Inodes)
             /\ pending'[n] \in {live[n], pending[n], NoInode}
             /\ Picked(n)' => /\ Picked(n) /\ sel'[n].ino = sel[n].ino /\ sel'[n].data = sel[n].data
                              /\ live'[n] = live[n] /\ pending'[n] = pending[n]
    BY DEF Moved
<1>1. PackedInv'
    BY DEF OrderInv, PackedInv
<1>2. PickedInv'
    BY <1>0 DEF OrderInv, PickedInv
<1>3. \A n \in Names : \A text : Follows(n, text)' <=> Follows(n, text)
    BY DEF Follows
<1>4. \A j : Text(j)' = Text(j)
    BY DEF Text
<1>5. \A n \in Names : Follows(n, <<>>)
    BY DEF Follows, Below, ToSet
<1>6. inodes + 1 \in Inodes => Text(inodes + 1) = <<>>
    <2>1. inodes \in Nat
        BY RollupAssumption DEF TypeInv, TypeOK
    <2>2. inodes + 1 > inodes /\ inodes + 1 # NoInode
        BY <2>1 DEF NoInode
    <2> QED BY <2>2 DEF LineInv, Text
<1>7. Text(NoInode) = <<>>
    BY DEF Text
<1>8. ASSUME NEW n \in Names
      PROVE  Follows(n, Text(live'[n])) /\ Follows(n, Text(pending'[n]))
    BY <1>0, <1>5, <1>6, <1>7 DEF OrderInv, FollowInv
<1>9. FollowInv'
    BY <1>8 DEF FollowInv, Follows, Text
<1> QED BY <1>1, <1>2, <1>9 DEF OrderInv

\* What is read for packing is the rest of a file whose beginning is packed, or
\* all of a file that is not.
LEMMA OrderPick ==
    ASSUME TypeInv, OrderInv, RollInv, Pick
    PROVE  OrderInv'
<1>1. UNCHANGED <<content, slices, live, pending>>
    BY DEF Pick, disk
<1>2. PackedInv' /\ FollowInv'
    BY <1>1 DEF OrderInv, PackedInv, FollowInv, Follows, Text
<1>3. ASSUME NEW n \in Names, Picked(n)'
      PROVE  LET packed == Packed(slices[n])
                 data == sel'[n].data
                 text == content[sel'[n].ino]
             IN  /\ live[n] = sel'[n].ino /\ live[n] # NoInode /\ pending[n] = NoInode
                 /\ data # <<>>
                 /\ \/ IsPrefix(packed \o data, text)
                    \/ IsPrefix(data, text) /\ (Meet(packed, data) \/ Below(packed, data))
    <2>1. /\ live[n] # NoInode /\ Text(live[n]) # <<>> /\ Payload(n) # <<>>
          /\ sel'[n].ino = live[n] /\ sel'[n].data = Payload(n)
        BY <1>3 DEF Pick, Exit, Unpicked, Picked
    <2>2. pending[n] = NoInode
        BY DEF RollInv, Pick
    <2>3. live[n] \in Inodes /\ Text(live[n]) = content[live[n]]
        BY <2>1 DEF TypeInv, TypeOK, MaybeInode, Text
    <2>4. /\ content[live[n]] \in Seq(LineIds) /\ slices[n] \in Seq(Seq(LineIds))
          /\ Packed(slices[n]) \in Seq(LineIds)
        BY <2>3, PackedType DEF TypeInv, TypeOK
    <2>5. CASE slices[n] = <<>>
        <3>1. Packed(slices[n]) = <<>> /\ Payload(n) = content[live[n]]
            BY <2>3, <2>5, FlattenEmpty DEF Packed, Payload
        <3>2. IsPrefix(Packed(slices[n]) \o Payload(n), content[live[n]])
            BY <2>4, <3>1, PrefixSelf
        <3> QED BY <2>1, <2>2, <3>2
    <2>6. CASE slices[n] # <<>> /\ IsPrefix(Packed(slices[n]), content[live[n]])
        <3>1. Payload(n) = SubSeq(content[live[n]], Len(Packed(slices[n])) + 1, Len(content[live[n]]))
            BY <2>3, <2>6 DEF Payload
        <3>2. Packed(slices[n]) \o Payload(n) = content[live[n]]
            BY <2>4, <2>6, <3>1, PrefixRest
        <3>3. IsPrefix(Packed(slices[n]) \o Payload(n), content[live[n]])
            BY <2>4, <3>2, PrefixSelf
        <3> QED BY <2>1, <2>2, <3>3
    <2>7. CASE slices[n] # <<>> /\ ~IsPrefix(Packed(slices[n]), content[live[n]])
        <3>1. Payload(n) = content[live[n]]
            BY <2>3, <2>7 DEF Payload
        <3>2. IsPrefix(Payload(n), content[live[n]])
            BY <2>4, <3>1, PrefixSelf
        <3>3. Meet(Packed(slices[n]), Payload(n)) \/ Below(Packed(slices[n]), Payload(n))
            BY <2>3, <2>7, <3>1 DEF OrderInv, FollowInv, Follows
        <3> QED BY <2>1, <2>2, <3>2, <3>3
    <2> QED BY <2>5, <2>6, <2>7
<1>4. PickedInv'
    BY <1>1, <1>3 DEF PickedInv
<1> QED BY <1>2, <1>4 DEF OrderInv

\* The new slice: a reader who puts it behind the older ones has the beginning
\* of the live file, or lines in order, or lines twice.
LEMMA PublishedOrder ==
    ASSUME TypeInv, LineInv, OrderInv, Publish, NEW n \in Names, sel[n].todo = "valid"
    PROVE  LET packed == Packed(slices'[n])
               text == content[live[n]]
           IN  /\ live[n] \in Inodes /\ pending[n] = NoInode
               /\ IsPrefix(packed, text) \/ Meet(packed, text)
               /\ IsInjective(packed) => Increasing(packed)
               /\ Len(slices'[n]) = 1 => IsPrefix(packed, text)
<1> DEFINE old == Packed(slices[n])
           data == sel[n].data
           text == content[live[n]]
<1>1. /\ live[n] \in Inodes /\ pending[n] = NoInode /\ data # <<>>
      /\ \/ IsPrefix(old \o data, text)
         \/ IsPrefix(data, text) /\ (Meet(old, data) \/ Below(old, data))
    BY PickedLines DEF OrderInv, PickedInv, Picked
<1>2. /\ slices[n] \in Seq(Seq(LineIds)) /\ data \in Seq(LineIds) /\ text \in Seq(LineIds)
      /\ old \in Seq(LineIds)
    BY <1>1, PackedType DEF TypeInv, TypeOK, Candidate
<1>3. slices'[n] = Append(slices[n], data)
    BY DEF Publish, AddSlice
<1>4. Packed(slices'[n]) = old \o data
    BY <1>2, <1>3, FlattenAppend DEF Packed
<1>5. IsInjective(old) => Increasing(old)
    BY DEF OrderInv, PackedInv
<1>6. Increasing(text)
    BY <1>1 DEF LineInv
<1>7. Len(slices'[n]) = 1 => old = <<>>
    <2>1. Len(slices'[n]) = Len(slices[n]) + 1 /\ Len(slices[n]) \in Nat
        BY <1>2, <1>3, AppendProperties, LenProperties
    <2>2. Len(slices[n]) = 0 => slices[n] = <<>>
        BY <1>2, EmptySeq
    <2>3. Len(slices'[n]) = 1 => Len(slices[n]) = 0
        <3>1. \A k \in Nat : k + 1 = 1 => k = 0
            OBVIOUS
        <3> QED BY <2>1, <3>1, Zenon
    <2> QED BY <2>2, <2>3, FlattenEmpty DEF Packed
<1> HIDE DEF old, data, text
<1>8. old \in Seq(Nat) /\ data \in Seq(Nat) /\ text \in Seq(Nat) /\ old \o data \in Seq(Nat)
    BY <1>2, LineNumbers, ConcatProperties
<1>9. CASE IsPrefix(old \o data, text)
    <2>1. Increasing(old \o data)
        BY <1>6, <1>8, <1>9, IncreasingPrefix
    <2> QED BY <1>1, <1>4, <1>9, <2>1 DEF text
<1>10. CASE IsPrefix(data, text) /\ (Meet(old, data) \/ Below(old, data))
    <2>1. Increasing(data)
        BY <1>6, <1>8, <1>10, IncreasingPrefix
    <2>2. ASSUME IsInjective(old \o data) PROVE Increasing(old \o data)
        <3>1. IsInjective(old) /\ ~Meet(old, data)
            BY <1>8, <2>2, InjectiveConcat
        <3> QED BY <1>5, <1>8, <1>10, <2>1, <3>1, IncreasingConcat
    <2>3. Meet(old \o data, text)
        <3>1. Len(data) \in Nat /\ Len(data) # 0 /\ DOMAIN data = 1..Len(data)
            BY <1>1, <1>2, LenProperties, EmptySeq
        <3>2. data[1] \in ToSet(data)
            BY <3>1 DEF ToSet
        <3>3. ToSet(data) \subseteq ToSet(text)
            BY <1>8, <1>10, PrefixToSet DEF PrefixMembers
        <3>4. ToSet(data) \subseteq ToSet(old \o data)
            BY <1>8, ToSetConcat
        <3> QED BY <3>2, <3>3, <3>4 DEF Meet
    <2>4. Len(slices'[n]) = 1 => IsPrefix(old \o data, text)
        BY <1>7, <1>8, <1>10, PrefixSelf
    <2> QED BY <1>1, <1>4, <2>2, <2>3, <2>4 DEF text
<1> QED BY <1>1, <1>9, <1>10

LEMMA OrderPublish ==
    ASSUME TypeInv, LineInv, OrderInv, Publish
    PROVE  OrderInv'
<1>1. /\ UNCHANGED <<content, live, pending>>
      /\ \A n \in Names : sel[n].todo # "valid" => slices'[n] = slices[n] /\ sel'[n] = sel[n]
      /\ \A n \in Names : sel[n].todo = "valid" => sel'[n].todo = "aside"
    BY DEF Publish, TypeInv, TypeOK, Candidate
<1>2. PickedInv'
    <2>1. \A n \in Names : Picked(n)' => Picked(n) /\ slices'[n] = slices[n] /\ sel'[n] = sel[n]
        BY <1>1 DEF Picked
    <2> QED BY <1>1, <2>1 DEF OrderInv, PickedInv
<1>3. ASSUME NEW n \in Names
      PROVE  /\ IsInjective(Packed(slices'[n])) => Increasing(Packed(slices'[n]))
             /\ Len(slices'[n]) = 1 => \E i \in Inodes : IsPrefix(Packed(slices'[n]), content[i])
             /\ Follows(n, Text(live[n]))' /\ Follows(n, Text(pending[n]))'
    <2>1. CASE sel[n].todo = "valid"
        <3>1. /\ live[n] \in Inodes /\ pending[n] = NoInode
              /\ IsPrefix(Packed(slices'[n]), content[live[n]])
                 \/ Meet(Packed(slices'[n]), content[live[n]])
              /\ IsInjective(Packed(slices'[n])) => Increasing(Packed(slices'[n]))
              /\ Len(slices'[n]) = 1 => IsPrefix(Packed(slices'[n]), content[live[n]])
            BY <2>1, PublishedOrder
        <3>2. Follows(n, Text(live[n]))'
            BY <1>1, <3>1 DEF Follows, Text, Inodes, NoInode
        <3>3. Follows(n, Text(pending[n]))'
            BY <1>1, <3>1 DEF Follows, Text, Below, ToSet
        <3> QED BY <3>1, <3>2, <3>3
    <2>2. CASE sel[n].todo # "valid"
        BY <1>1, <2>2 DEF OrderInv, PackedInv, FollowInv, Follows, Text
    <2> QED BY <2>1, <2>2
<1>4. PackedInv' /\ FollowInv'
    BY <1>1, <1>3 DEF PackedInv, FollowInv
<1> QED BY <1>2, <1>4 DEF OrderInv

LEMMA OrderInvStep ==
    ASSUME TypeInv, LineInv, OrderInv, RollInv, Next
    PROVE  OrderInv'
<1>t. /\ live \in [Names -> MaybeInode] /\ pending \in [Names -> MaybeInode]
      /\ sel \in [Names -> Candidate]
      /\ (rpc \in AtOneName => cur \in Names)
      /\ \A n \in Names : Picked(n) => live[n] # NoInode
    BY DEF TypeInv, TypeOK, OrderInv, PickedInv
<1>0. ASSUME UNCHANGED <<content, slices, live, pending>>,
             \A n \in Names : Picked(n)' => /\ Picked(n) /\ sel'[n].ino = sel[n].ino
                                            /\ sel'[n].data = sel[n].data
      PROVE  OrderInv'
    <2>1. \A n \in Names : Moved(n)
        BY <1>0 DEF Moved, Picked
    <2> QED BY <1>0, <2>1, OrderMoves
<1>1. CASE Exit /\ UNCHANGED disk
    BY <1>0, <1>1 DEF Exit, Unpicked, Picked, disk
<1>2. CASE Start \/ CleanScan \/ CleanLate \/ CandidateScan \/ PublishScan \/ AsideNone \/ Crash
    BY <1>0, <1>1, <1>2 DEF Start, CleanScan, CleanLate, CandidateScan, PublishScan, AsideNone,
       Crash, disk, Picked
<1>3. CASE PublishCheck
    <2>1. \A n \in Names : Picked(n)' => /\ Picked(n) /\ sel'[n].ino = sel[n].ino
                                         /\ sel'[n].data = sel[n].data
        BY <1>t, <1>3 DEF PublishCheck, Picked, Unpicked, Candidate
    <2> QED BY <1>0, <1>3, <2>1 DEF PublishCheck, disk
<1>4. ASSUME NEW m \in Names, Settle(m, "no"), NEW n \in Names, Picked(n)'
      PROVE  n # m /\ sel'[n] = sel[n] /\ Picked(n)
    BY <1>t, <1>4 DEF Settle, Picked, Candidate
<1>5. CASE AsideLook
    <2>1. UNCHANGED disk /\ (sel' = sel \/ \E m \in Names : Settle(m, "no"))
        BY <1>5 DEF AsideLook, At
    <2> QED BY <1>0, <1>4, <2>1 DEF disk, Picked
<1>6. CASE AsideRecheck
    <2>1. UNCHANGED disk /\ (sel' = sel \/ Settle(cur, "no") \/ Exit) /\ cur \in Names
        BY <1>t, <1>6 DEF AsideRecheck, AtOneName
    <2> QED BY <1>0, <1>1, <1>4, <2>1 DEF disk, Picked
<1>7. CASE CleanUnlink
    <2>1. \A n \in Names : sel[n].todo = "no"
        BY <1>7 DEF RollInv, CleanUnlink
    <2>2. /\ UNCHANGED <<content, slices, sel>> /\ pending' = [pending EXCEPT ![cur] = NoInode]
          /\ live' = live \/ /\ live' = [live EXCEPT ![cur] = inodes + 1] /\ inodes < MaxInodes
        BY <1>7 DEF CleanUnlink
    <2>3. inodes < MaxInodes => inodes + 1 \in Inodes
        BY RollupAssumption DEF TypeInv, TypeOK, Inodes
    <2>4. \A n \in Names : ~Picked(n)'
        BY <2>1, <2>2 DEF Picked
    <2>5. \A n \in Names : Moved(n)
        BY <1>t, <2>2, <2>3, <2>4 DEF Moved, Picked
    <2> QED BY <2>2, <2>5, OrderMoves
<1>8. CASE CleanBack \/ AsideBack
    <2>1. cur \in Names /\ RenameBack(cur)
        BY <1>t, <1>8 DEF CleanBack, AsideBack, AtOneName
    <2>2. /\ live' = [live EXCEPT ![cur] = pending[cur]] /\ pending' = [pending EXCEPT ![cur] = NoInode]
          /\ UNCHANGED <<content, slices>>
        BY <2>1 DEF RenameBack
    <2>3. \A n \in Names : n # cur => live'[n] = live[n] /\ pending'[n] = pending[n]
        BY <1>t, <2>2
    <2>4. live'[cur] = pending[cur] /\ pending'[cur] = NoInode
        BY <1>t, <2>1, <2>2
    <2>5. \A n \in Names : Picked(n)' => n # cur /\ Picked(n) /\ sel'[n] = sel[n]
        <3>1. CASE CleanBack
            BY <3>1 DEF RollInv, CleanBack, Picked
        <3>2. CASE AsideBack
            BY <1>4, <2>1, <3>2 DEF AsideBack
        <3> QED BY <1>8, <3>1, <3>2
    <2>6. \A n \in Names : Moved(n)
        BY <2>3, <2>4, <2>5 DEF Moved, Picked
    <2> QED BY <2>2, <2>6, OrderMoves
<1>9. CASE AsideRename
    <2>1. CASE pending[cur] # NoInode
        BY <1>1, <1>9, <2>1 DEF AsideRename
    <2>2. CASE pending[cur] = NoInode
        <3>1. /\ pending' = [pending EXCEPT ![cur] = live[cur]] /\ cur \in Names
              /\ live' = [live EXCEPT ![cur] = NoInode] /\ UNCHANGED <<content, slices, sel>>
            BY <1>t, <1>9, <2>2 DEF AsideRename, AtOneName
        <3>2. sel[cur].todo = "aside"
            BY <1>9 DEF AsideRename, RollInv
        <3>3. \A n \in Names : IF n = cur THEN pending'[n] = live[n] /\ live'[n] = NoInode
                               ELSE live'[n] = live[n] /\ pending'[n] = pending[n]
            BY <1>t, <3>1
        <3>4. \A n \in Names : Picked(n)' => n # cur /\ Picked(n) /\ sel'[n] = sel[n]
            BY <3>1, <3>2 DEF Picked
        <3>5. \A n \in Names : Moved(n)
            BY <2>2, <3>3, <3>4 DEF Moved, Picked
        <3> QED BY <3>1, <3>5, OrderMoves
    <2> QED BY <2>1, <2>2
<1>10. ASSUME NEW m \in Names, CreateFor(m), UNCHANGED <<content, slices, pending, sel>>
       PROVE  OrderInv'
    <2>1. inodes + 1 \in Inodes
        BY <1>10, RollupAssumption DEF CreateFor, TypeInv, TypeOK, Inodes
    <2>2. \A n \in Names : IF n = m THEN live'[n] = inodes + 1 /\ live[n] = NoInode
                           ELSE live'[n] = live[n]
        BY <1>t, <1>10 DEF CreateFor
    <2>3. \A n \in Names : Picked(n)' => n # m /\ Picked(n)
        BY <1>t, <1>10, <2>2 DEF Picked
    <2>4. \A n \in Names : Moved(n)
        BY <1>10, <2>1, <2>2, <2>3 DEF Moved, Picked
    <2> QED BY <1>10, <2>4, OrderMoves
<1>11. CASE AsideRecreate
    <2>1. cur \in Names /\ sel' = sel
        BY <1>t, <1>11 DEF AsideRecreate, AtOneName
    <2>2. CASE live[cur] = NoInode
        BY <1>10, <1>11, <2>1, <2>2 DEF AsideRecreate, Create, CreateFor
    <2>3. CASE live[cur] # NoInode
        BY <1>0, <1>11, <2>1, <2>3 DEF AsideRecreate, disk, Picked
    <2> QED BY <2>2, <2>3
<1>12. ASSUME NEW w \in Writers, NEW n \in Names, OpenLive(w, n) PROVE OrderInv'
    <2>1. CASE live[n] = NoInode
        BY <1>10, <1>12, <2>1 DEF OpenLive, Create, CreateFor, roll
    <2>2. CASE live[n] # NoInode
        BY <1>0, <1>12, <2>2 DEF OpenLive, disk, roll, Picked
    <2> QED BY <2>1, <2>2
<1>13. CASE Read \/ \E w \in Writers : Close(w)
    <2>1. UNCHANGED <<disk, sel>>
        BY <1>13 DEF Read, ReadBegin, ReadMembers, ReadLive, ReadEnd, ReadDone, Close, roll
    <2> QED BY <1>0, <2>1 DEF disk, Picked
<1>14. CASE Pick \/ Publish
    BY <1>14, OrderPick, OrderPublish
<1>15. ASSUME NEW w \in Writers, WriteLine(w) PROVE OrderInv'
    BY <1>15, OrderWrite
<1> QED BY <1>2, <1>3, <1>5, <1>6, <1>7, <1>8, <1>9, <1>11, <1>12, <1>13, <1>14, <1>15
        DEF Next, Rollup

LinesInv == RollupInv /\ LineInv /\ OrderInv /\ RollInv

LEMMA LinesInvInit == Init => LinesInv
<1> SUFFICES ASSUME Init PROVE LinesInv
    OBVIOUS
<1>1. RollupInv
    BY TypeInit, FileInvInit DEF RollupInv
<1>2. \A n \in Names : Packed(slices[n]) = <<>>
    BY FlattenEmpty DEF Init, Packed
<1>3. LineInv
    <2>1. Lines = {}
        <3>1. \A n \in Names : ToSet(hist[n]) = {}
            BY DEF Init, ToSet
        <3>2. \A x : x \in Lines <=> \E n \in Names : x \in ToSet(hist[n])
            BY Zenon DEF Lines
        <3> QED BY <3>1, <3>2
    <2>2. Lines = 1..Cardinality(Lines)
        BY <2>1, FS_EmptySet
    <2>3. \A i \in Inodes : content[i] = <<>>
        BY DEF Init
    <2>4. Increasing(<<>>) /\ ToSet(<<>>) = {} /\ ~Meet(<<>>, <<>>)
        BY DEF Increasing, ToSet, Meet
    <2> QED BY <1>2, <2>1, <2>2, <2>3, <2>4 DEF LineInv, PackedLines, Init
<1>4. OrderInv
    <2>1. PickedInv
        BY DEF Init, PickedInv, Picked, Unpicked
    <2>2. \A n \in Names : Text(live[n]) = <<>> /\ Text(pending[n]) = <<>> /\ Len(slices[n]) = 0
        BY DEF Init, Text
    <2>3. Below(<<>>, <<>>) /\ Increasing(<<>>)
        BY DEF Below, ToSet, Increasing
    <2> QED BY <1>2, <2>1, <2>2, <2>3 DEF OrderInv, FollowInv, Follows, PackedInv
<1>5. RollInv
    BY DEF Init, RollInv, Unpicked
<1> QED BY <1>1, <1>3, <1>4, <1>5 DEF LinesInv

LEMMA LinesInvariance == Spec => []LinesInv
<1>1. LinesInv /\ [Next]_vars => LinesInv'
    <2> SUFFICES ASSUME LinesInv, [Next]_vars PROVE LinesInv'
        OBVIOUS
    <2>1. RollupInv' /\ TypeInv' /\ TypeInv /\ FileInv
        BY RollupInvStep DEF LinesInv, RollupInv
    <2>2. CASE Next
        BY <2>1, <2>2, LineInvStep, OrderInvStep, RollInvStep DEF LinesInv, OrderInv
    <2>3. CASE UNCHANGED vars
        <3>1. LineInv'
            BY <2>3 DEF vars, disk, LinesInv, LineInv, Lines, PackedLines
        <3>2. OrderInv'
            BY <2>3 DEF vars, disk, roll, LinesInv, OrderInv, PickedInv, FollowInv, PackedInv,
               Picked, Follows, Text
        <3>3. RollInv'
            BY <2>3 DEF vars, disk, roll, LinesInv, RollInv
        <3> QED BY <2>1, <3>1, <3>2, <3>3 DEF LinesInv
    <2> QED BY <2>2, <2>3
<1> QED BY <1>1, LinesInvInit, PTL DEF Spec

\* What a reader composes: one of the three cases of _read_bytes.
LEMMA ViewCases ==
    ASSUME LinesInv, NEW n \in Names
    PROVE  LET packed == Packed(slices[n])
               text == Text(live[n])
           IN  /\ packed \in Seq(Nat) /\ text \in Seq(Nat)
               /\ Increasing(text) /\ IsInjective(text)
               /\ \/ View(n) = packed /\ live[n] = NoInode
                  \/ View(n) = text /\ live[n] \in Inodes
                  \/ View(n) = packed \o text /\ live[n] \in Inodes /\ ~IsPrefix(packed, text)
<1>1. /\ Packed(slices[n]) \in Seq(LineIds) /\ Text(live[n]) \in Seq(LineIds)
      /\ live[n] = NoInode \/ live[n] \in Inodes
    BY PackedType, TextType DEF LinesInv, RollupInv, TypeInv, TypeOK, MaybeInode
<1>2. Packed(slices[n]) \in Seq(Nat) /\ Text(live[n]) \in Seq(Nat)
    BY <1>1, LineNumbers
<1>3. Increasing(Text(live[n]))
    BY <1>1 DEF LinesInv, LineInv, Text, Increasing
<1> QED BY <1>1, <1>2, <1>3, IncreasingInjective DEF View, Compose, Inodes, NoInode

\* The first time a file is packed no reader sees a line twice, at no step
\* (_read_bytes recognises the copy that is still live).
THEOREM FirstPackNoDoubleHolds == Spec => []FirstPackNoDouble
<1>1. LinesInv => FirstPackNoDouble
    <2> SUFFICES ASSUME LinesInv, NEW n \in Names, Len(slices[n]) <= 1
                 PROVE  IsInjective(View(n))
        BY DEF FirstPackNoDouble
    <2> DEFINE packed == Packed(slices[n])
               text == Text(live[n])
    <2>1. slices[n] \in Seq(Seq(LineIds)) /\ Len(slices[n]) \in Nat
        BY LenProperties DEF LinesInv, RollupInv, TypeInv, TypeOK
    <2>2. /\ packed \in Seq(Nat) /\ text \in Seq(Nat) /\ IsInjective(text)
          /\ \/ View(n) = packed /\ live[n] = NoInode
             \/ View(n) = text /\ live[n] \in Inodes
             \/ View(n) = packed \o text /\ live[n] \in Inodes /\ ~IsPrefix(packed, text)
        BY ViewCases
    <2>3. CASE Len(slices[n]) = 0
        <3>1. packed = <<>>
            BY <2>1, <2>3, EmptySeq, FlattenEmpty DEF Packed
        <3>2. IsInjective(packed) /\ IsPrefix(packed, text)
            BY <2>2, <3>1, PrefixSelf DEF IsInjective
        <3> QED BY <2>2, <3>2
    <2>4. CASE Len(slices[n]) = 1
        <3>1. PICK i \in Inodes : IsPrefix(packed, content[i])
            BY <2>4 DEF LinesInv, OrderInv, PackedInv
        <3>2. /\ content[i] \in Seq(LineIds) /\ content[i] \in Seq(Nat) /\ Increasing(content[i])
              /\ packed \in Seq(LineIds)
            BY <2>1, LineNumbers, PackedType DEF LinesInv, LineInv, RollupInv, TypeInv, TypeOK
        <3>3. IsInjective(packed)
            BY <2>2, <3>1, <3>2, IncreasingPrefix, IncreasingInjective
        <3>4. ASSUME live[n] \in Inodes, ~IsPrefix(packed, text) PROVE ~Meet(packed, text)
            <4>1. text = content[live[n]] /\ live[n] # i
                BY <3>1, <3>4 DEF Text, Inodes, NoInode
            <4>2. ~Meet(content[i], text)
                BY <3>4, <4>1 DEF LinesInv, LineInv
            <4>3. ToSet(packed) \subseteq ToSet(content[i])
                BY <3>1, <3>2, PrefixToSet DEF PrefixMembers
            <4> QED BY <4>2, <4>3 DEF Meet
        <3>5. live[n] \in Inodes /\ ~IsPrefix(packed, text) => IsInjective(packed \o text)
            BY <2>2, <3>3, <3>4, InjectiveConcat
        <3> QED BY <2>2, <3>3, <3>5
    <2>5. \A k \in Nat : k <= 1 => k = 0 \/ k = 1
        OBVIOUS
    <2> QED BY <2>1, <2>3, <2>4, <2>5, Zenon
<1> QED BY <1>1, LinesInvariance, PTL

\* What a reader composes is in the order of the appends, or has a line twice.
THEOREM ViewInOrderHolds == Spec => []ViewInOrder
<1>1. LinesInv => ViewInOrder
    <2> SUFFICES ASSUME LinesInv, NEW n \in Names, IsInjective(View(n))
                 PROVE  Increasing(View(n))
        BY DEF ViewInOrder, Increasing
    <2> DEFINE packed == Packed(slices[n])
               text == Text(live[n])
    <2>1. /\ packed \in Seq(Nat) /\ text \in Seq(Nat) /\ Increasing(text)
          /\ \/ View(n) = packed /\ live[n] = NoInode
             \/ View(n) = text /\ live[n] \in Inodes
             \/ View(n) = packed \o text /\ live[n] \in Inodes /\ ~IsPrefix(packed, text)
        BY ViewCases
    <2>2. /\ IsInjective(packed) => Increasing(packed)
          /\ IsPrefix(packed, text) \/ Meet(packed, text) \/ Below(packed, text)
        BY DEF LinesInv, OrderInv, PackedInv, FollowInv, Follows
    <2> HIDE DEF packed, text
    <2>3. CASE View(n) = packed \o text /\ ~IsPrefix(packed, text)
        <3>1. IsInjective(packed) /\ ~Meet(packed, text)
            BY <2>1, <2>3, InjectiveConcat
        <3> QED BY <2>1, <2>2, <2>3, <3>1, IncreasingConcat
    <2> QED BY <2>1, <2>2, <2>3
<1> QED BY <1>1, LinesInvariance, PTL
=============================================================================
