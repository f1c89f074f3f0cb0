-------------------------- MODULE HealthFileProofs --------------------------
(***************************************************************************)
(* Theorems about the health file, for any number of runs of the miner,    *)
(* any number of pieces in which a snapshot reaches the disk, and every    *)
(* moment at which a process dies, the disk fills up or somebody reads.    *)
(***************************************************************************)
EXTENDS HealthFile, SequenceTheorems, TLAPS

Piece == [of : Snapshots, part : 1 .. Pieces]

\* A snapshot is not later than another one: of an earlier run, or of the same
\* run with no more counted.
NotLater(s, t) == s.run < t.run \/ (s.run = t.run /\ s.count <= t.count)

\* A run and a number of changes.
Dated == [run : Nat, count : Nat]

\* What the file, the reader and the process know has a date.
LEMMA SnapshotsAreDated ==
    /\ Snapshots \cup {NoSnapshot} \subseteq Dated
    /\ HealthTypeOK => Now \in Dated
<1>1. Snapshots \cup {NoSnapshot} \subseteq Dated
    BY HealthAssumption DEF Snapshots, NoSnapshot, Dated
<1>2. HealthTypeOK => Now \in Dated
    BY HealthAssumption DEF HealthTypeOK, Now, Dated
<1> QED
    BY <1>1, <1>2

\* Dates are ordered.
LEMMA NotLaterIsTransitive ==
    ASSUME NEW s \in Dated, NEW t \in Dated, NEW u \in Dated, NotLater(s, t), NotLater(t, u)
    PROVE  NotLater(s, u)
BY DEF NotLater, Dated

\* All the pieces of a snapshot in their order are its content, and a content
\* tells its snapshot.
LEMMA WholeFile ==
    ASSUME NEW s \in Snapshots, file \in Seq(Piece), Len(file) = Pieces,
           \A i \in 1 .. Len(file) : file[i] = [of |-> s, part |-> i]
    PROVE  Holds(s)
<1>1. DOMAIN file = 1 .. Pieces
    BY LenProperties
<1>2. \A i \in 1 .. Pieces : file[i] = Content(s)[i]
    BY DEF Content
<1>3. file = [i \in 1 .. Pieces |-> file[i]]
    BY <1>1, SeqDef
<1> QED
    BY <1>2, <1>3 DEF Holds, Content

\* A file that holds a snapshot begins with a piece of it.
LEMMA HeldSnapshot ==
    ASSUME NEW s, Holds(s), file \in Seq(Piece)
    PROVE  1 \in 1 .. Len(file) /\ file[1].of = s
<1>1. DOMAIN file = 1 .. Pieces /\ 1 \in 1 .. Pieces
    BY HealthAssumption DEF Holds, Content
<1>2. DOMAIN file = 1 .. Len(file)
    BY LenProperties
<1>3. file[1] = [of |-> s, part |-> 1]
    BY <1>1 DEF Holds, Content
<1>4. file[1].of = s
    BY <1>3
<1> QED
    BY <1>1, <1>2, <1>4

-----------------------------------------------------------------------------
(* The inductive invariant.                                                *)

\* The thread that counts is the one that writes: while a snapshot is written
\* nothing is counted, so what is written is the state of that moment.
WriterInv ==
    /\ phase \in {"session", "open", "write", "over"} => run > 0
    /\ phase \in {"open", "write"} =>
          /\ snapshot = Now
          /\ ~final => emit /\ due = count

\* While a snapshot is written, the file holds what was put of it so far; at
\* other times it is as the last stream on it left it.
FileInv ==
    /\ \A i \in 1 .. Len(file) : file[i].part = i
    /\ phase = "write" =>
          /\ left = "none"
          /\ Len(file) = put
          /\ \A i \in 1 .. Len(file) : file[i].of = snapshot
    /\ phase # "write" =>
          /\ left = "none" => file = <<>>
          /\ left = "whole" => Readable

\* Nothing in the file is earlier than what a reader has seen or later than
\* what has been counted.
SeenInv ==
    /\ NotLater(seen, Now)
    /\ \A i \in 1 .. Len(file) : NotLater(seen, file[i].of) /\ NotLater(file[i].of, Now)

HealthInv == HealthTypeOK /\ WriterInv /\ FileInv /\ SeenInv /\ FileTellsState

\* At the start there is no file and nobody has read one.
LEMMA HealthInvInit == HealthInit => HealthInv
<1> SUFFICES ASSUME HealthInit PROVE HealthInv
    OBVIOUS
<1>1. HealthTypeOK
    <2>1. file \in Seq(Piece) /\ Len(file) = 0
        BY EmptySeq DEF HealthInit
    <2>2. {emit, final, good, warned} \subseteq BOOLEAN
        BY DEF HealthInit
    <2>3. {count, due} \subseteq 0 .. MaxCount /\ run \in 0 .. MaxRuns /\ put \in 0 .. Pieces
        BY HealthAssumption DEF HealthInit
    <2>4. {snapshot, seen} \subseteq Snapshots \cup {NoSnapshot}
        BY DEF HealthInit
    <2>5. phase = "off" /\ left = "none"
        BY DEF HealthInit
    <2> QED
        BY <2>1, <2>2, <2>3, <2>4, <2>5, HealthAssumption DEF HealthTypeOK, Piece
<1>2. WriterInv /\ FileInv /\ FileTellsState
    BY DEF HealthInit, WriterInv, FileInv, FileTellsState
<1>3. SeenInv
    BY DEF HealthInit, SeenInv, NotLater, NoSnapshot, Now
<1> QED
    BY <1>1, <1>2, <1>3 DEF HealthInv

-----------------------------------------------------------------------------
(* The steps.                                                              *)

\* The types; that nothing is appended to a full file needs FileInv.
LEMMA HealthTypeStep ==
    HealthTypeOK /\ WriterInv /\ FileInv /\ [HealthNext]_healthVars => HealthTypeOK'
<1> SUFFICES ASSUME HealthTypeOK, WriterInv, FileInv, [HealthNext]_healthVars
             PROVE  HealthTypeOK'
    OBVIOUS
<1>0. /\ run \in 0 .. MaxRuns /\ count \in 0 .. MaxCount /\ put \in 0 .. Pieces
      /\ file \in Seq(Piece) /\ Pieces \in Nat \ {0} /\ MaxRuns \in Nat /\ MaxCount \in Nat
    BY HealthAssumption DEF HealthTypeOK, Piece
<1> USE DEF settings, progress, stream
<1>1. CASE StartRun
    <2>1. {emit', final', good', warned'} \subseteq BOOLEAN
        BY <1>1 DEF HealthTypeOK, StartRun
    <2> QED
        BY <1>0, <1>1, <2>1 DEF HealthTypeOK, StartRun
<1>2. CASE CountSilently
    BY <1>0, <1>2 DEF HealthTypeOK, CountSilently
<1>3. ASSUME NEW c \in 0 .. MaxCount, run > 0,
             snapshot' = [run |-> run, count |-> c] \/ snapshot' = snapshot
      PROVE  snapshot' \in Snapshots \cup {NoSnapshot}
    BY <1>0, <1>3 DEF HealthTypeOK, Snapshots
<1>4. CASE CountAndEmit
    <2>1. count' \in 0 .. MaxCount /\ due' = count' /\ run > 0
        BY <1>0, <1>4 DEF CountAndEmit, WriterInv
    <2>2. {emit', final', good', warned'} \subseteq BOOLEAN
        BY <1>4 DEF HealthTypeOK, CountAndEmit, BeginWrite
    <2>3. snapshot' \in Snapshots \cup {NoSnapshot}
        BY <1>3, <1>4, <2>1 DEF CountAndEmit, BeginWrite
    <2>4. phase' \in {"session", "open"}
        BY <1>4 DEF CountAndEmit, BeginWrite
    <2> QED
        BY <1>4, <2>1, <2>2, <2>3, <2>4 DEF HealthTypeOK, CountAndEmit
<1>5. CASE ShutDown
    <2>1. snapshot' \in Snapshots \cup {NoSnapshot}
        BY <1>0, <1>3, <1>5 DEF ShutDown, BeginWrite, Now, WriterInv
    <2>2. {emit', final', good', warned'} \subseteq BOOLEAN
        BY <1>5 DEF HealthTypeOK, ShutDown, BeginWrite
    <2> QED
        BY <1>5, <2>1, <2>2 DEF HealthTypeOK, ShutDown, BeginWrite
<1>6. CASE OpenFailed
    <2>1. {emit', final', good', warned'} \subseteq BOOLEAN
        BY <1>6 DEF HealthTypeOK, OpenFailed
    <2> QED
        BY <1>6, <2>1 DEF HealthTypeOK, OpenFailed, WriteReturns
<1>7. CASE Open
    <2>1. {emit', final', good', warned'} \subseteq BOOLEAN
        BY <1>7 DEF HealthTypeOK, Open
    <2>2. file' \in Seq(Piece) /\ Len(file') <= Pieces /\ put' \in 0 .. Pieces
        BY <1>0, <1>7, EmptySeq DEF Open
    <2> QED
        BY <1>7, <2>1, <2>2 DEF HealthTypeOK, Open, Piece
<1>8. CASE WritePiece
    <2>1. put' \in 1 .. Pieces /\ put' = put + 1
        BY <1>0, <1>8 DEF WritePiece
    <2>2. snapshot \in Snapshots
        BY <1>0, <1>8 DEF WritePiece, WriterInv, Now, Snapshots
    <2>3. Content(snapshot)[put'] \in Piece
        BY <2>1, <2>2 DEF Content, Piece
    <2>4. file' \in Seq(Piece) /\ Len(file') = Len(file) + 1
        BY <1>0, <1>8, <2>3, AppendProperties DEF WritePiece
    <2>5. Len(file') <= Pieces
        BY <1>0, <1>8, <2>1, <2>4 DEF WritePiece, FileInv
    <2> QED
        BY <1>8, <2>1, <2>4, <2>5 DEF HealthTypeOK, WritePiece, Piece
<1>9. CASE WriteFailed
    <2>1. {emit', final', good', warned'} \subseteq BOOLEAN
        BY <1>9 DEF HealthTypeOK, WriteFailed
    <2> QED
        BY <1>9, <2>1 DEF HealthTypeOK, WriteFailed
<1>10. CASE CloseFile
    BY <1>10 DEF HealthTypeOK, CloseFile, WriteReturns
<1>11. CASE Crash
    BY <1>11 DEF HealthTypeOK, Crash
<1>12. CASE Read
    BY <1>12 DEF HealthTypeOK, Read
<1>13. CASE UNCHANGED healthVars
    BY <1>13 DEF HealthTypeOK, healthVars
<1> QED
    BY <1>1, <1>2, <1>4, <1>5, <1>6, <1>7, <1>8, <1>9, <1>10, <1>11, <1>12, <1>13
    DEF HealthNext, Write

\* What is being written was true when it was taken.
LEMMA WriterInvStep ==
    HealthTypeOK /\ WriterInv /\ [HealthNext]_healthVars => WriterInv'
<1> SUFFICES ASSUME HealthTypeOK, WriterInv, [HealthNext]_healthVars PROVE WriterInv'
    OBVIOUS
<1>1. run \in Nat
    BY DEF HealthTypeOK
<1> USE <1>1
<1> USE DEF WriterInv, Now, settings, progress, stream
<1>2. CASE StartRun
    BY <1>2 DEF StartRun
<1>3. CASE CountSilently
    BY <1>3 DEF CountSilently
<1>4. CASE CountAndEmit
    BY <1>4 DEF CountAndEmit, BeginWrite
<1>5. CASE ShutDown
    BY <1>5 DEF ShutDown, BeginWrite
<1>6. CASE Write
    BY <1>6 DEF Write, OpenFailed, Open, WritePiece, WriteFailed, CloseFile, WriteReturns
<1>7. CASE Crash \/ Read \/ UNCHANGED healthVars
    BY <1>7 DEF Crash, Read, healthVars
<1> QED
    BY <1>2, <1>3, <1>4, <1>5, <1>6, <1>7 DEF HealthNext

\* Only a crash and a full disk leave pieces that no close completes.
LEMMA FileInvStep ==
    HealthTypeOK /\ WriterInv /\ FileInv /\ [HealthNext]_healthVars => FileInv'
<1> SUFFICES ASSUME HealthTypeOK, WriterInv, FileInv, [HealthNext]_healthVars
             PROVE  FileInv'
    OBVIOUS
<1>1. /\ file \in Seq(Piece) /\ run \in 0 .. MaxRuns /\ count \in 0 .. MaxCount
      /\ put \in 0 .. Pieces /\ Len(file) \in Nat
    BY LenProperties DEF HealthTypeOK, Piece
<1>2. phase \in {"open", "write"} => snapshot \in Snapshots
    BY <1>1, HealthAssumption DEF WriterInv, Now, Snapshots
<1>kept. ASSUME UNCHANGED <<file, left>>, phase # "write", phase' # "write"
         PROVE  FileInv'
    BY <1>kept DEF FileInv, Readable, Holds, Content
<1> USE DEF settings, progress, stream
<1>3. CASE StartRun \/ CountSilently \/ CountAndEmit \/ ShutDown \/ OpenFailed
    BY <1>3, <1>kept
    DEF StartRun, CountSilently, CountAndEmit, ShutDown, BeginWrite, OpenFailed, WriteReturns
<1>4. CASE Open
    BY <1>4 DEF Open, FileInv
<1>5. CASE WritePiece
    <2>1. Content(snapshot)[put'] = [of |-> snapshot, part |-> put'] /\ put' = put + 1
        BY <1>1, <1>5, HealthAssumption DEF WritePiece, Content
    <2>2. [of |-> snapshot, part |-> put'] \in Piece
        BY <1>1, <1>2, <1>5, HealthAssumption DEF WritePiece, Piece
    <2>3. /\ Len(file') = Len(file) + 1
          /\ \A i \in 1 .. Len(file) : file'[i] = file[i]
          /\ file'[Len(file) + 1] = [of |-> snapshot, part |-> put']
        BY <1>1, <1>5, <2>1, <2>2, AppendProperties DEF WritePiece
    <2>4. Len(file) = put /\ Len(file') = put' /\ phase' = "write" /\ left' = "none"
        BY <1>5, <2>1, <2>3 DEF WritePiece, FileInv
    <2>5. ASSUME NEW i \in 1 .. Len(file')
          PROVE  file'[i].part = i /\ file'[i].of = snapshot
        <3>1. CASE i \in 1 .. Len(file)
            BY <1>5, <2>3, <3>1 DEF WritePiece, FileInv
        <3>2. CASE i = Len(file) + 1
            <4>1. file'[i] = [of |-> snapshot, part |-> put'] /\ i = put'
                BY <2>1, <2>3, <2>4, <3>2
            <4> QED
                BY <4>1
        <3> QED
            BY <1>1, <2>3, <3>1, <3>2
    <2>6. snapshot' = snapshot
        BY <1>5 DEF WritePiece
    <2> QED
        BY <2>4, <2>5, <2>6 DEF FileInv
<1>6. CASE WriteFailed
    BY <1>6 DEF WriteFailed, FileInv
<1>7. CASE CloseFile
    <2>1. phase = "write" /\ phase' # "write" /\ file' = file /\ left' \in {"whole", "full"}
        BY <1>7 DEF CloseFile, WriteReturns
    <2>2. CASE good
        <3>1. Len(file) = Pieces
            BY <1>7, <2>2 DEF CloseFile, FileInv
        <3>2. \A i \in 1 .. Len(file) : file[i] \in Piece
            BY <1>1, ElementOfSeq
        <3>3. \A i \in 1 .. Len(file) : file[i] = [of |-> snapshot, part |-> i]
            BY <2>1, <3>2 DEF FileInv, Piece
        <3>4. Holds(snapshot)
            BY <1>1, <1>2, <2>1, <3>1, <3>3, WholeFile
        <3>5. Readable'
            BY <1>2, <2>1, <3>4 DEF Readable, Holds, Content
        <3> QED
            BY <2>1, <3>5 DEF FileInv
    <2>3. CASE ~good
        BY <1>7, <2>1, <2>3 DEF CloseFile, FileInv
    <2> QED
        BY <2>2, <2>3
<1>8. CASE Crash
    <2>1. CASE phase = "write"
        BY <1>8, <2>1 DEF Crash, FileInv
    <2>2. CASE phase # "write"
        BY <1>8, <1>kept, <2>2 DEF Crash
    <2> QED
        BY <2>1, <2>2
<1>9. CASE Read \/ UNCHANGED healthVars
    BY <1>9 DEF Read, healthVars, FileInv, Readable, Holds, Content
<1> QED
    BY <1>3, <1>4, <1>5, <1>6, <1>7, <1>8, <1>9 DEF HealthNext, Write

\* A state is never later than those that follow it.
LEMMA NowAdvances ==
    HealthTypeOK /\ [HealthNext]_healthVars => NotLater(Now, Now')
<1> SUFFICES ASSUME HealthTypeOK, [HealthNext]_healthVars PROVE NotLater(Now, Now')
    OBVIOUS
<1>1. run \in Nat /\ count \in Nat
    BY HealthAssumption DEF HealthTypeOK
<1>2. \/ run' = run + 1
      \/ run' = run /\ count' \in {count, count + 1}
    BY DEF HealthNext, StartRun, CountSilently, CountAndEmit, ShutDown, Write, OpenFailed,
        Open, WritePiece, WriteFailed, CloseFile, Crash, Read, settings, progress, healthVars
<1> QED
    BY <1>1, <1>2 DEF NotLater, Now

\* A reader learns what a run wrote, which was not after this moment.
LEMMA SeenInvStep == HealthInv /\ [HealthNext]_healthVars => SeenInv'
<1> SUFFICES ASSUME HealthInv, [HealthNext]_healthVars PROVE SeenInv'
    OBVIOUS
<1>1. /\ file \in Seq(Piece) /\ Len(file) \in Nat
      /\ seen \in Snapshots \cup {NoSnapshot}
      /\ run \in 0 .. MaxRuns /\ count \in 0 .. MaxCount
    BY LenProperties DEF HealthInv, HealthTypeOK, Piece
<1>2. HealthTypeOK'
    BY HealthTypeStep DEF HealthInv
<1>3. \A i \in 1 .. Len(file) : file[i].of \in Snapshots
    <2>1. \A i \in 1 .. Len(file) : file[i] \in Piece
        BY <1>1, ElementOfSeq
    <2> QED
        BY <2>1 DEF Piece
<1>4. /\ seen \in Dated /\ Now \in Dated /\ Now' \in Dated
      /\ \A i \in 1 .. Len(file) : file[i].of \in Dated
    <2>1. Now' \in Dated
        BY <1>2, HealthAssumption DEF HealthTypeOK, Now, Dated
    <2> QED
        BY <1>1, <1>3, <2>1, SnapshotsAreDated DEF HealthInv
<1>5. NotLater(Now, Now')
    BY NowAdvances DEF HealthInv
<1>6. /\ NotLater(seen, Now')
      /\ \A i \in 1 .. Len(file) : NotLater(file[i].of, Now')
    BY <1>4, <1>5, NotLaterIsTransitive DEF HealthInv, SeenInv
<1>7. CASE UNCHANGED <<file, seen>>
    BY <1>6, <1>7 DEF HealthInv, SeenInv
<1>8. CASE Open
    BY <1>6, <1>8 DEF Open, SeenInv
<1>9. CASE WritePiece
    <2>1. snapshot = Now /\ UNCHANGED <<run, count, seen>> /\ Now' = Now
        BY <1>9 DEF WritePiece, HealthInv, WriterInv, Now, settings, progress
    <2>2. put + 1 \in 1 .. Pieces /\ put' = put + 1
        BY <1>9, HealthAssumption DEF WritePiece, HealthInv, HealthTypeOK
    <2>3. Content(snapshot)[put'] = [of |-> Now, part |-> put']
        BY <2>1, <2>2 DEF Content
    <2>4. Now \in Snapshots
        BY <1>1, <1>9 DEF WritePiece, HealthInv, WriterInv, Now, Snapshots
    <2>5. [of |-> Now, part |-> put'] \in Piece
        BY <2>2, <2>4 DEF Piece
    <2>6. /\ Len(file') = Len(file) + 1
          /\ \A i \in 1 .. Len(file) : file'[i] = file[i]
          /\ file'[Len(file) + 1] = [of |-> Now, part |-> put']
        BY <1>1, <1>9, <2>3, <2>5, AppendProperties DEF WritePiece
    <2>7. NotLater(Now, Now)
        BY <1>4 DEF NotLater, Dated
    <2>8. ASSUME NEW i \in 1 .. Len(file')
          PROVE  NotLater(seen', file'[i].of) /\ NotLater(file'[i].of, Now')
        <3>1. CASE i \in 1 .. Len(file)
            BY <1>6, <2>1, <2>6, <3>1 DEF HealthInv, SeenInv
        <3>2. CASE i = Len(file) + 1
            <4>1. file'[i].of = Now
                BY <2>6, <3>2
            <4> QED
                BY <2>1, <2>7, <4>1 DEF HealthInv, SeenInv
        <3> QED
            BY <1>1, <2>6, <3>1, <3>2
    <2> QED
        BY <1>6, <2>1, <2>8 DEF SeenInv
<1>10. CASE Read
    <2>1. PICK s \in Snapshots : Holds(s) /\ seen' = s
        BY <1>10 DEF Read
    <2>2. file' = file /\ Now' = Now
        BY <1>10 DEF Read, settings, progress, Now
    <2>3. 1 \in 1 .. Len(file) /\ file[1].of = s
        BY <1>1, <2>1, HeldSnapshot
    <2>4. \A i \in 1 .. Len(file) : file[i].of = s
        <3>1. DOMAIN file = 1 .. Pieces /\ DOMAIN file = 1 .. Len(file)
            BY <1>1, <2>1, LenProperties DEF Holds, Content
        <3>2. \A i \in 1 .. Pieces : file[i] = [of |-> s, part |-> i]
            BY <2>1 DEF Holds, Content
        <3>3. ASSUME NEW i \in 1 .. Pieces PROVE file[i].of = s
            <4>1. file[i] = [of |-> s, part |-> i]
                BY <3>2
            <4> QED
                BY <4>1
        <3> QED
            BY <3>1, <3>3
    <2>5. NotLater(s, s)
        BY <2>1, SnapshotsAreDated DEF NotLater, Dated
    <2> QED
        BY <1>6, <2>1, <2>2, <2>3, <2>4, <2>5 DEF SeenInv
<1> QED
    BY <1>7, <1>8, <1>9, <1>10
    DEF HealthNext, StartRun, CountSilently, CountAndEmit, ShutDown, Write, OpenFailed,
        WriteFailed, CloseFile, Crash, healthVars

\* A count that a snapshot follows is told when the stream is closed, unless it
\* could not be opened or went bad.
LEMMA FileTellsStateStep == HealthInv /\ [HealthNext]_healthVars => FileTellsState'
<1> SUFFICES ASSUME HealthInv, [HealthNext]_healthVars PROVE FileTellsState'
    OBVIOUS
<1>1. /\ file \in Seq(Piece) /\ Len(file) \in Nat /\ DOMAIN file = 1 .. Len(file)
      /\ run \in 0 .. MaxRuns /\ count \in 0 .. MaxCount
    BY LenProperties DEF HealthInv, HealthTypeOK, Piece
<1> USE DEF settings, progress, stream
<1>2. CASE StartRun
    <2>1. \A i \in 1 .. Len(file) : file[i].of.run \in Nat
        <3>1. \A i \in 1 .. Len(file) : file[i] \in Piece
            BY <1>1, ElementOfSeq
        <3> QED
            BY <3>1, HealthAssumption DEF Piece, Snapshots
    <2>2. \A i \in 1 .. Len(file) : file[i].of.run < run + 1
        BY <1>1, <2>1 DEF HealthInv, SeenInv, NotLater, Now
    <2> QED
        BY <1>1, <1>2, <2>2 DEF StartRun, FileTellsState
<1>3. CASE CountSilently
    BY <1>3 DEF CountSilently, HealthInv, FileTellsState, Holds, Content
<1>4. CASE CountAndEmit
    BY <1>4 DEF CountAndEmit, BeginWrite, HealthInv, FileTellsState, Holds, Content
<1>5. CASE ShutDown
    BY <1>5 DEF ShutDown, BeginWrite, FileTellsState
<1>6. CASE OpenFailed
    BY <1>6 DEF OpenFailed, FileTellsState
<1>7. CASE Open \/ WritePiece \/ WriteFailed
    BY <1>7 DEF Open, WritePiece, WriteFailed, FileTellsState
<1>8. CASE CloseFile
    <2>1. CASE ~good
        BY <1>8, <2>1 DEF CloseFile, FileTellsState
    <2>2. CASE good
        <3>1. /\ snapshot = Now /\ Now \in Snapshots
              /\ ~final => emit /\ due = count
            BY <1>1, <1>8 DEF CloseFile, HealthInv, WriterInv, Now, Snapshots
        <3>2. Len(file) = Pieces
            BY <1>8, <2>2 DEF CloseFile, HealthInv, FileInv
        <3>3. \A i \in 1 .. Len(file) : file[i] \in Piece
            BY <1>1, ElementOfSeq
        <3>4. \A i \in 1 .. Len(file) : file[i] = [of |-> Now, part |-> i]
            BY <1>8, <3>1, <3>3 DEF CloseFile, HealthInv, FileInv, Piece
        <3>5. Holds(Now)
            BY <1>1, <3>1, <3>2, <3>4, WholeFile
        <3> QED
            BY <1>8, <3>1, <3>5
            DEF CloseFile, WriteReturns, FileTellsState, Holds, Content, Now
    <2> QED
        BY <2>1, <2>2
<1>9. CASE Crash
    BY <1>9 DEF Crash, FileTellsState
<1>10. CASE Read \/ UNCHANGED healthVars
    BY <1>10 DEF Read, healthVars, HealthInv, FileTellsState, Holds, Content, Now
<1> QED
    BY <1>2, <1>3, <1>4, <1>5, <1>6, <1>7, <1>8, <1>9, <1>10 DEF HealthNext, Write

-----------------------------------------------------------------------------
(* The theorems.                                                           *)

\* The invariant the theorems below rest on.
THEOREM HealthInvariant == HealthSpec => []HealthInv
<1>1. HealthInv /\ [HealthNext]_healthVars => HealthInv'
    BY HealthTypeStep, WriterInvStep, FileInvStep, SeenInvStep, FileTellsStateStep
    DEF HealthInv
<1> QED
    BY <1>1, HealthInvInit, PTL DEF HealthSpec

\* Every variable keeps its type, and the file holds at most one snapshot.
THEOREM HealthTypeCorrect == HealthSpec => []HealthTypeOK
<1>1. HealthInv => HealthTypeOK
    BY DEF HealthInv
<1> QED
    BY <1>1, HealthInvariant, PTL

\* An unreadable file that nobody is writing was cut off by a crash or a full
\* disk: no order of cycles, runs and failures to open it leaves one.
THEOREM TornFilesAreInterrupted == HealthSpec => []TornMeansInterrupted
<1>1. HealthInv => TornMeansInterrupted
    BY DEF HealthInv, HealthTypeOK, FileInv, TornMeansInterrupted
<1> QED
    BY <1>1, HealthInvariant, PTL

\* The file tells what the run has counted, unless it could not be written.
THEOREM FileAlwaysTellsState == HealthSpec => []FileTellsState
<1>1. HealthInv => FileTellsState
    BY DEF HealthInv
<1> QED
    BY <1>1, HealthInvariant, PTL

\* No reader sees time go back, over crashes and restarts.
THEOREM ReadersSeeTimeAdvance == HealthSpec => ReadsForward
<1>1. HealthInv /\ HealthInv' /\ [HealthNext]_healthVars =>
          [\/ seen'.run > seen.run
           \/ seen'.run = seen.run /\ seen'.count >= seen.count]_seen
    <2> SUFFICES ASSUME HealthInv, [HealthNext]_healthVars, seen' # seen
                 PROVE  \/ seen'.run > seen.run
                        \/ seen'.run = seen.run /\ seen'.count >= seen.count
        OBVIOUS
    <2>1. Read
        BY DEF HealthNext, StartRun, CountSilently, CountAndEmit, ShutDown, Write, OpenFailed,
            Open, WritePiece, WriteFailed, CloseFile, Crash, healthVars
    <2>2. PICK s \in Snapshots : Holds(s) /\ seen' = s
        BY <2>1 DEF Read
    <2>3. file \in Seq(Piece)
        BY DEF HealthInv, HealthTypeOK, Piece
    <2>4. 1 \in 1 .. Len(file) /\ file[1].of = s
        BY <2>2, <2>3, HeldSnapshot
    <2>5. NotLater(seen, s)
        BY <2>4 DEF HealthInv, SeenInv
    <2>6. seen \in Dated /\ s \in Dated
        BY <2>2, SnapshotsAreDated DEF HealthInv, HealthTypeOK
    <2> QED
        BY <2>2, <2>5, <2>6 DEF NotLater, Dated
<1> QED
    BY <1>1, HealthInvariant, PTL DEF HealthSpec, ReadsForward
=============================================================================
