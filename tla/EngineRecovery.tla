--------------------------- MODULE EngineRecovery ---------------------------
(***************************************************************************)
(* Journal, snapshots and recovery of one engine (persistence/src/lib.rs   *)
(* and run, take_snapshot, restore_from_persistence and replay_command of  *)
(* engine.rs).  Commands are numbered in the order the engine takes them,  *)
(* and the state of book and accounts is the sequence of commands applied  *)
(* to get there: process is deterministic, so equal sequences are equal    *)
(* states.  The run loop is cut where a crash leaves something different   *)
(* behind.                                                                 *)
(***************************************************************************)
EXTENDS Integers, Sequences, FiniteSets, FiniteSetsExt

CONSTANTS
    MaxCmds,            \* bound: commands taken over the whole behaviour
    MaxCrashes,         \* bound: stops and crashes
    BatchSize,          \* JournalConfig.batch_size
    RotationThreshold,  \* JournalConfig.rotation_threshold, 0 = never
    SnapshotInterval,   \* EngineConfig.snapshot_interval, 0 = never
    TornWrites,         \* TRUE: a write can be cut by a crash or an I/O error
    Events,             \* command -> number of events process emits for it
    ReplayEvents        \* command -> number of events replay_command consumes for it

ASSUME RecoveryAssumption ==
    /\ MaxCmds \in Nat /\ MaxCrashes \in Nat
    /\ BatchSize \in Nat /\ RotationThreshold \in Nat /\ SnapshotInterval \in Nat
    /\ TornWrites \in BOOLEAN
    /\ Events \in [1 .. MaxCmds -> Nat]
    /\ ReplayEvents \in [1 .. MaxCmds -> Nat]

Cmds == 1 .. MaxCmds

\* A frame of the journal file: complete, or cut within its length, payload or checksum.
Frames == [cmd : Cmds, cut : {"no", "len", "payload", "crc"}]
Frame(c) == [cmd |-> c, cut |-> "no"]

KeepSnapshots == 3

VARIABLES
    stage,      \* where the engine thread is; "down" when the process is not running
    applied,    \* engine memory: the commands its book and accounts reflect
    command_seq, server_seq,
    batch,      \* batch_buffer of the journal
    since,      \* commands_since_rotation
    attached,   \* the open journal file is the one at the journal path
    file,       \* disk: frames of the file at the journal path
    snapshots,  \* disk: the snapshot files, at most one per sequence number
    archived,   \* disk: commands in rotated journal files, which nothing reads
    taken,      \* history: number of commands taken so far
    sent,       \* history: the highest server_seq sent to a client
    degraded,   \* history: a restart went on after restore_from_persistence failed
    crashes     \* history: number of stops and crashes

memory == <<applied, command_seq, server_seq, batch, since, attached>>
disk == <<file, snapshots, archived>>
history == <<taken, sent, degraded, crashes>>
vars == <<stage, memory, disk, history>>

Unreadable == <<0>>
SnapshotFiles == [sequence : 1 .. MaxCmds, data : Seq(Cmds) \cup {Unreadable}]

Init ==
    /\ stage = "idle"
    /\ applied = <<>>
    /\ command_seq = 0 /\ server_seq = 1
    /\ batch = <<>> /\ since = 0 /\ attached = TRUE
    /\ file = <<>> /\ snapshots = {} /\ archived = {}
    /\ taken = 0 /\ sent = 0 /\ degraded = FALSE /\ crashes = 0

-----------------------------------------------------------------------------
(* Journal *)

Written(cmds) == [i \in 1 .. Len(cmds) |-> Frame(cmds[i])]

\* What write_frame calls cut short after n complete frames can leave in the file.
CutAfter(n) ==
    {Written(SubSeq(batch, 1, n))}
    \cup IF TornWrites /\ n < Len(batch)
         THEN {Written(SubSeq(batch, 1, n)) \o <<[cmd |-> batch[n + 1], cut |-> c]>>
                  : c \in {"len", "payload", "crc"}}
         ELSE {}

\* read_all gets n commands: those before the first damaged frame.
Reads(n) ==
    /\ \A i \in 1 .. n : file[i].cut = "no"
    /\ n < Len(file) => file[n + 1].cut # "no"

\* How read_all ends there.  Cut at the end of the file: a short length reads as the end of
\* the journal, a short checksum stops with a warning, a short payload is an error.  With
\* frames appended behind it, their bytes complete the damaged frame: its checksum fails and
\* reading stops, unless its length reaches past the end of the file or is nonsense, which is
\* an error.
AtEnd(n) == n + 1 = Len(file)
ReadStops(n) == n < Len(file) => (file[n + 1].cut = "payload" => ~AtEnd(n))
ReadFails(n) ==
    /\ n < Len(file)
    /\ file[n + 1].cut = "payload" \/ (file[n + 1].cut = "len" /\ ~AtEnd(n))

\* The frames go to the open file, which after a rotation that failed half-way is one of the
\* rotated files.
Complete(frames) == {frames[i].cmd : i \in {j \in 1 .. Len(frames) : frames[j].cut = "no"}}
Store(frames) ==
    IF attached THEN file' = file \o frames /\ UNCHANGED archived
                ELSE archived' = archived \cup Complete(frames) /\ UNCHANGED file

ShouldRotate(n) == RotationThreshold > 0 /\ n >= RotationThreshold

-----------------------------------------------------------------------------
(* The run loop *)

\* Where the loop goes after a command was processed, and after a snapshot.
AfterSnapshot == IF ShouldRotate(since) THEN "rotate" ELSE "idle"
AfterProcess(seq) ==
    IF SnapshotInterval > 0 /\ seq % SnapshotInterval = 0 THEN "snapshot" ELSE AfterSnapshot

\* append: the command is buffered; the batch is flushed when it is full or old enough.
FlushLate == Len(batch) + 1 > BatchSize  \* mutant
BatchFull == Len(batch) + 1 >= BatchSize

TakeCommand ==
    /\ stage = "idle"
    /\ taken < MaxCmds
    /\ taken' = taken + 1
    /\ batch' = Append(batch, taken + 1)
    /\ stage' \in IF BatchFull THEN {"flush"} ELSE {"flush", "process"}
    /\ UNCHANGED <<applied, command_seq, server_seq, since, attached, disk, sent, degraded, crashes>>

\* flush drains the batch and writes it.
WriteBatchOnly ==  \* mutant: the batch is written but not drained
    /\ Store(Written(batch))
    /\ since' = since + Len(batch)
    /\ UNCHANGED batch
WriteBatch ==
    /\ Store(Written(batch))
    /\ since' = since + Len(batch)
    /\ batch' = <<>>

\* An I/O error in flush: the batch was drained before it was written.
WriteBatchFails ==
    /\ \E n \in 0 .. (Len(batch) - 1) :
          /\ \E frames \in CutAfter(n) : Store(frames)
          /\ since' = since + n
    /\ batch' = <<>>

Flush ==
    /\ stage = "flush"
    /\ WriteBatch
    /\ stage' = "process"
    /\ UNCHANGED <<applied, command_seq, server_seq, attached, snapshots, history>>

\* run logs the error and goes on to process the command.
FlushFails ==
    /\ stage = "flush"
    /\ TornWrites
    /\ WriteBatchFails
    /\ stage' = "process"
    /\ UNCHANGED <<applied, command_seq, server_seq, attached, snapshots, history>>

\* process, sending its events, and the command count.
Process ==
    /\ stage = "process"
    /\ applied' = Append(applied, taken)
    /\ command_seq' = command_seq + 1
    /\ server_seq' = server_seq + Events[taken]
    /\ sent' = IF Events[taken] = 0 THEN sent ELSE Max({sent, server_seq + Events[taken] - 1})
    /\ stage' = AfterProcess(command_seq + 1)
    /\ UNCHANGED <<batch, since, attached, disk, taken, degraded, crashes>>

\* Snapshot::save replaces the file of this sequence number ...
WithSnapshot(data) ==
    {f \in snapshots : f.sequence # command_seq} \cup {[sequence |-> command_seq, data |-> data]}

\* ... and cleanup_old keeps the latest files.
Newest(files) == {f \in files : Cardinality({g \in files : g.sequence > f.sequence}) < KeepSnapshots}

TakeSnapshot ==
    /\ stage = "snapshot"
    /\ snapshots' = Newest(WithSnapshot(applied))
    /\ stage' = AfterSnapshot
    /\ UNCHANGED <<memory, file, archived, history>>

\* What a save cut short leaves: nothing new, an incomplete file, or a file that lacks only
\* its checksum, which load_from_file accepts.  No cleanup follows.
CutSave == {snapshots, WithSnapshot(Unreadable), WithSnapshot(applied)}

SnapshotFails ==
    /\ stage = "snapshot"
    /\ TornWrites
    /\ snapshots' \in CutSave
    /\ stage' = AfterSnapshot
    /\ UNCHANGED <<memory, file, archived, history>>

\* rotate flushes, renames the file and opens an empty one.
Renamed ==
    /\ attached
    /\ archived' = archived \cup Complete(file) \cup Complete(Written(batch))
    /\ file' = <<>>
    /\ batch' = <<>>

Rotate ==
    /\ stage = "rotate"
    /\ Renamed
    /\ since' = 0
    /\ stage' = "idle"
    /\ UNCHANGED <<applied, command_seq, server_seq, attached, snapshots, history>>

\* An error in its flush, in the rename (which always fails while no file is at the journal
\* path) or in opening the new file, after which the journal writes to the renamed one.
RotateFails ==
    /\ stage = "rotate"
    /\ TornWrites
    /\ \/ WriteBatchFails /\ UNCHANGED attached
       \/ WriteBatch /\ UNCHANGED attached
       \/ Renamed /\ since' = since + Len(batch) /\ attached' = FALSE
    /\ stage' = "idle"
    /\ UNCHANGED <<applied, command_seq, server_seq, snapshots, history>>

\* The gateway disconnects: the command channel closes and run leaves its loop ...
CloseChannel ==
    /\ stage = "idle"
    /\ crashes < MaxCrashes
    /\ stage' = "closing"
    /\ UNCHANGED <<memory, disk, history>>

\* ... to flush the batch, if main does not end the process first (Crash).
FinalFlush ==
    /\ stage = "closing"
    /\ Store(Written(batch))
    /\ stage' = "down"
    /\ crashes' = crashes + 1
    /\ UNCHANGED <<memory, snapshots, taken, sent, degraded>>

\* The process dies.  Engine memory keeps its value until the next start, for comparison.
Crash ==
    /\ stage # "down"
    /\ crashes < MaxCrashes
    /\ crashes' = crashes + 1
    /\ stage' = "down"
    /\ IF stage \in {"flush", "rotate", "closing"}
       THEN \E n \in 0 .. Len(batch) : \E frames \in CutAfter(n) : Store(frames)
       ELSE UNCHANGED <<file, archived>>
    /\ IF stage = "snapshot" /\ TornWrites
       THEN snapshots' \in CutSave
       ELSE UNCHANGED snapshots
    /\ UNCHANGED <<memory, taken, sent, degraded>>

-----------------------------------------------------------------------------
(* restore_from_persistence *)

\* load_latest: the file with the highest sequence number.
IsLatest(f) == \A g \in snapshots : g.sequence <= f.sequence

\* load_from_file and the decoding of its bytes succeed.
AnySnapshot(f) == TRUE  \* mutant
Loads(f) == f.data # Unreadable

\* The sequence numbers that replaying cmds consumes.
Consumed(cmds) == SumFunction([i \in 1 .. Len(cmds) |-> ReplayEvents[cmds[i]]])

Replayed(seq, base, delta) ==
    /\ applied' = base \o delta
    /\ command_seq' = seq + Len(delta)
    /\ server_seq' = seq + 1 + Consumed(delta)
    /\ UNCHANGED degraded
ReplayWholeJournal(n, seq, base) ==  \* mutant: replays what the snapshot already reflects
    Replayed(seq, base, [i \in 1 .. n |-> file[i].cmd])
ReplayUncounted(n, seq, base) ==  \* mutant: replay_command does not count
    /\ applied' = base \o [i \in 1 .. (n - seq) |-> file[seq + i].cmd]
    /\ command_seq' = seq /\ server_seq' = seq + 1
    /\ UNCHANGED degraded
\* The state in memory is base, which reflects seq commands, plus the journal from there on.
ReplayFrom(n, seq, base) == Replayed(seq, base, [i \in 1 .. (n - seq) |-> file[seq + i].cmd])

\* restore_from_persistence failed: main logs the error and runs the engine as it is.
RunWith(seq, base) ==
    /\ applied' = base
    /\ command_seq' = seq
    /\ server_seq' = seq + 1
    /\ degraded' = TRUE

Restart ==
    /\ stage = "down"
    /\ stage' = "idle"
    /\ batch' = <<>>
    /\ since' = 0
    /\ attached' = TRUE
    /\ \E n \in 0 .. Len(file) :
          /\ Reads(n)
          /\ \/ snapshots = {} /\ ReadStops(n) /\ ReplayFrom(n, 0, <<>>)
             \/ snapshots = {} /\ ReadFails(n) /\ RunWith(0, <<>>)
             \/ \E f \in snapshots :
                   /\ IsLatest(f)
                   /\ \/ Loads(f) /\ ReadStops(n) /\ ReplayFrom(n, f.sequence, f.data)
                      \/ Loads(f) /\ ReadFails(n) /\ RunWith(f.sequence, f.data)
                      \/ ~Loads(f) /\ RunWith(0, <<>>)
    /\ UNCHANGED <<disk, taken, sent, crashes>>

-----------------------------------------------------------------------------
Next ==
    \/ TakeCommand \/ Flush \/ FlushFails \/ Process
    \/ TakeSnapshot \/ SnapshotFails \/ Rotate \/ RotateFails
    \/ CloseChannel \/ FinalFlush \/ Crash \/ Restart

Spec == Init /\ [][Next]_vars

-----------------------------------------------------------------------------
(* Properties *)

TypeOK ==
    /\ stage \in {"idle", "flush", "process", "snapshot", "rotate", "closing", "down"}
    /\ applied \in Seq(Cmds)
    /\ command_seq \in Nat /\ server_seq \in Nat
    /\ batch \in Seq(Cmds) /\ since \in Nat /\ attached \in BOOLEAN
    /\ file \in Seq(Frames)
    /\ snapshots \subseteq SnapshotFiles
    /\ archived \subseteq Cmds
    /\ taken \in 0 .. MaxCmds /\ sent \in Nat /\ degraded \in BOOLEAN /\ crashes \in 0 .. MaxCrashes

Journalled == archived \cup Complete(file)

\* Every command that reached a journal file is part of the state the engine restarts with.
RecoversJournal ==
    [][stage = "down" /\ stage' = "idle" =>
          Journalled \subseteq {applied'[i] : i \in 1 .. Len(applied')}]_vars

\* A restart loses only commands that were still in the batch: the recovered state has the
\* state before the crash as a prefix, or is a prefix of it that lacks fewer commands than a
\* full batch has.
LossBounded ==
    [][stage = "down" /\ stage' = "idle" =>
          LET n == IF Len(applied) < Len(applied') THEN Len(applied) ELSE Len(applied')
          IN  /\ SubSeq(applied', 1, n) = SubSeq(applied, 1, n)
              /\ Len(applied) - n < Max({BatchSize, 1})]_vars

\* No command is applied twice and none is applied after a later one, however restarts,
\* snapshots, rotations and writes cut short interleave: a journal that lost frames is shorter
\* than the state a snapshot reflects, so what is behind that index is later than the snapshot.
Ordered(s) == \A i, j \in 1 .. Len(s) : i < j => s[i] < s[j]
ReplayInOrder == ~degraded => Ordered(applied)

\* The same with no exception: an engine that went on after a failed restore counts from a
\* lower number than its journal has frames, and replays what it already did.
ReplayAlwaysInOrder == Ordered(applied)

\* command_seq, and the sequence number of every readable snapshot, is the number of commands
\* the state reflects: what restore_from_persistence takes for an index into the journal.
SequenceCountsCommands ==
    /\ command_seq = Len(applied)
    /\ \A f \in snapshots : f.data # Unreadable => f.sequence = Len(f.data)

\* "server_seq continues from snapshot": no number is sent a second time after a restart.
ServerSeqFresh == stage # "down" => server_seq > sent
=============================================================================
