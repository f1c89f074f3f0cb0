----------------------------- MODULE HealthFile -----------------------------
(***************************************************************************)
(* The health file over several runs of the miner.  write_health_snapshot  *)
(* truncates the file and rewrites it in place; MinerRuntime, where one    *)
(* thread writes it, takes that for one step.  Here it is what it is for   *)
(* everybody else: an open, some writes and a close, between which another *)
(* process may read the file, the disk may fill up and the process may die *)
(* (killed, or by a broken pipe or an uncaught exception).  The runs have  *)
(* health_output set, to the same file.                                    *)
(*                                                                         *)
(* What a run has counted so far is a number that grows with every change  *)
(* of its SessionStats; a snapshot is the run and that number.             *)
(***************************************************************************)
EXTENDS Naturals, Sequences

CONSTANTS
    Pieces,         \* how many pieces the content reaches the file in
    MaxRuns,        \* bound: runs of the program
    MaxCount        \* bound: changes of SessionStats in a run

ASSUME HealthAssumption ==
    Pieces \in Nat \ {0} /\ MaxRuns \in Nat /\ MaxCount \in Nat

VARIABLES
    phase,          \* where the process is, "off" when there is none
    run,            \* which run this is
    emit,           \* cfg.health_emit_each_cycle of this run
    count,          \* what its SessionStats have come to
    due,            \* what they were at the last completed cycle or failed session
    final,          \* the snapshot under way is the one of the shutdown
    snapshot,       \* the snapshot under way
    put,            \* how many pieces the ofstream has written of it
    good,           \* the state of the ofstream
    warned,         \* the last write found that the file cannot be opened
    file,           \* the pieces in the file
    left,           \* how the last stream on it ended
    seen            \* the last snapshot a reader could parse

settings == <<run, emit>>
progress == <<count, due>>
stream == <<final, snapshot, put, good>>
healthVars == <<phase, settings, progress, stream, warned, file, left, seen>>

NoSnapshot == [run |-> 0, count |-> 0]
Now == [run |-> run, count |-> count]

Content(s) == [i \in 1 .. Pieces |-> [of |-> s, part |-> i]]
Snapshots == [run : 1 .. MaxRuns, count : 0 .. MaxCount]
Holds(s) == file = Content(s)
Readable == \E s \in Snapshots : Holds(s)

HealthInit ==
    /\ phase = "off"
    /\ run = 0
    /\ emit = FALSE
    /\ count = 0
    /\ due = 0
    /\ final = FALSE
    /\ snapshot = NoSnapshot
    /\ put = 0
    /\ good = TRUE
    /\ warned = FALSE
    /\ file = <<>>
    /\ left = "none"
    /\ seen = NoSnapshot

-----------------------------------------------------------------------------
(* The run.                                                                *)

\* run_stratum_loop starts; the file is as the last run left it.
StartRun ==
    /\ phase \in {"off", "over"}
    /\ run < MaxRuns
    /\ run' = run + 1
    /\ emit' \in BOOLEAN
    /\ phase' = "session"
    /\ count' = 0
    /\ due' = 0
    /\ warned' = FALSE
    /\ UNCHANGED <<stream, file, left, seen>>

\* A counter changes and no snapshot follows: a job, a share, a failed submit.
CountSilently ==
    /\ phase = "session"
    /\ count < MaxCount
    /\ count' = count + 1
    /\ UNCHANGED <<phase, settings, due, stream, warned, file, left, seen>>

BeginWrite(s, last) ==
    /\ phase' = "open"
    /\ snapshot' = s
    /\ final' = last
    /\ warned' = FALSE

\* A cycle completes or a session fails: maybe_write_health_snapshot_incremental.
CountAndEmit ==
    /\ phase = "session"
    /\ count < MaxCount
    /\ count' = count + 1
    /\ due' = count'
    /\ IF emit
       THEN BeginWrite([run |-> run, count |-> count'], FALSE)
       ELSE UNCHANGED <<phase, snapshot, final, warned>>
    /\ UNCHANGED <<settings, put, good, file, left, seen>>

\* Mutants: the loop's statistics are a copy the sessions do not update; the
\* last snapshot is left out when each cycle wrote its own.
ShutDownWithCopy ==
    /\ phase = "session"
    /\ BeginWrite([run |-> run, count |-> 0], TRUE)
    /\ UNCHANGED <<settings, progress, put, good, file, left, seen>>

ShutDownEmitted ==
    /\ phase = "session"
    /\ IF emit /\ due > 0
       THEN phase' = "over" /\ UNCHANGED <<snapshot, final, warned>>
       ELSE BeginWrite(Now, TRUE)
    /\ UNCHANGED <<settings, progress, put, good, file, left, seen>>

\* The loop ends: the last snapshot is written in either mode.
ShutDown ==
    /\ phase = "session"
    /\ BeginWrite(Now, TRUE)
    /\ UNCHANGED <<settings, progress, put, good, file, left, seen>>

-----------------------------------------------------------------------------
(* write_health_snapshot                                                   *)

WriteReturns == phase' = IF final THEN "over" ELSE "session"

\* The directory or the file cannot be made: a warning, and the file is as it was.
OpenFailed ==
    /\ phase = "open"
    /\ WriteReturns
    /\ warned' = TRUE
    /\ UNCHANGED <<settings, progress, stream, file, left, seen>>

\* Mutant: the file is opened for appending.
OpenToAppend ==
    /\ phase = "open"
    /\ phase' = "write"
    /\ put' = 0
    /\ good' = TRUE
    /\ left' = "none"
    /\ UNCHANGED <<settings, progress, final, snapshot, warned, file, seen>>

Open ==
    /\ phase = "open"
    /\ phase' = "write"
    /\ put' = 0
    /\ good' = TRUE
    /\ file' = <<>>
    /\ left' = "none"
    /\ UNCHANGED <<settings, progress, final, snapshot, warned, seen>>

WritePiece ==
    /\ phase = "write"
    /\ good
    /\ put < Pieces
    /\ put' = put + 1
    /\ file' = Append(file, Content(snapshot)[put'])
    /\ UNCHANGED <<phase, settings, progress, final, snapshot, good, warned, left, seen>>

\* The disk is full: the stream goes bad and drops the rest; nobody looks at it.
WriteFailed ==
    /\ phase = "write"
    /\ good
    /\ put < Pieces
    /\ good' = FALSE
    /\ UNCHANGED <<phase, settings, progress, final, snapshot, put, warned, file, left, seen>>

\* The ofstream is destroyed, and with it the run after the last snapshot.
CloseFile ==
    /\ phase = "write"
    /\ good => put = Pieces
    /\ WriteReturns
    /\ left' = IF good THEN "whole" ELSE "full"
    /\ UNCHANGED <<settings, progress, stream, warned, file, seen>>

-----------------------------------------------------------------------------
(* The others.                                                             *)

Crash ==
    /\ phase \notin {"off", "over"}
    /\ phase' = "off"
    /\ left' = IF phase = "write" THEN "cut" ELSE left
    /\ UNCHANGED <<settings, progress, stream, warned, file, seen>>

\* A reader gets the whole file at once and parses it if it can.
Read ==
    /\ \E s \in Snapshots : Holds(s) /\ seen' = s
    /\ UNCHANGED <<phase, settings, progress, stream, warned, file, left>>

Write == OpenFailed \/ Open \/ WritePiece \/ WriteFailed \/ CloseFile

HealthNext ==
    \/ StartRun
    \/ CountSilently
    \/ CountAndEmit
    \/ ShutDown
    \/ Write
    \/ Crash
    \/ Read

\* Only a write that has begun is certain to go on.
HealthSpec == HealthInit /\ [][HealthNext]_healthVars /\ WF_healthVars(Write)

-----------------------------------------------------------------------------
(* Properties.                                                             *)

\* Every variable holds a value of its type, and the file never holds more
\* than one snapshot's content.
HealthTypeOK ==
    /\ phase \in {"off", "session", "open", "write", "over"}
    /\ run \in 0 .. MaxRuns
    /\ {emit, final, good, warned} \subseteq BOOLEAN
    /\ {count, due} \subseteq 0 .. MaxCount
    /\ put \in 0 .. Pieces
    /\ {snapshot, seen} \subseteq Snapshots \cup {NoSnapshot}
    /\ file \in Seq([of : Snapshots, part : 1 .. Pieces])
    /\ Len(file) <= Pieces
    /\ left \in {"none", "whole", "cut", "full"}

\* Whoever polls the file sees time go forward, across cycles, crashes and
\* restarts: later runs, and in a run never less than was seen before.
ReadsForward ==
    [][\/ seen'.run > seen.run
       \/ seen'.run = seen.run /\ seen'.count >= seen.count]_seen

\* A file that no reader can parse while nobody is writing it, in this run or
\* after any number of later ones, was cut off by the death of the process that
\* wrote it or by a full disk.
TornMeansInterrupted ==
    phase # "write" /\ ~Readable =>
        left \in {"cut", "full"} \/ (left = "none" /\ file = <<>>)

\* What a run has counted is in the file, unless the file could not be opened
\* (a warning) or the disk is full (silently): after each cycle and failed
\* session in the incremental mode, and at the end in both, with whatever was
\* counted since.  In the other mode the file is an earlier run's until then.
FileTellsState ==
    ~warned /\ left # "full" =>
        /\ phase = "over" => Holds(Now)
        /\ phase = "session" /\ emit /\ due > 0 => Holds([run |-> run, count |-> due])
        /\ phase = "session" /\ ~emit => \A i \in DOMAIN file : file[i].of.run < run

\* A write that has begun leaves its snapshot readable, whatever it found in
\* the file, or fails with the warning, fills the disk or dies with the process.
WritesEnd ==
    \A s \in Snapshots :
        phase \in {"open", "write"} /\ snapshot = s
            ~> Holds(s) \/ warned \/ left = "full" \/ phase = "off"
=============================================================================
