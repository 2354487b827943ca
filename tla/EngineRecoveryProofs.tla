------------------------ MODULE EngineRecoveryProofs ------------------------
(***************************************************************************)
(* Recovery for every batch size, rotation threshold, snapshot interval    *)
(* and number of crashes: the numbering and the order of recovered         *)
(* commands, the types of memory and disk, and what a restart brings back. *)
(***************************************************************************)
EXTENDS EngineRecovery, SumTheorems, SequenceTheorems, TLAPS

\* The journal as it will be when the batch is written; a dead process has no batch.
Pending == IF stage = "down" THEN <<>> ELSE batch
Journal ==
    [i \in 1 .. (Len(file) + Len(Pending)) |->
        IF i <= Len(file) THEN file[i] ELSE Frame(Pending[i - Len(file)])]

\* One command is taken but not yet applied.
InFlight == IF stage \in {"flush", "process"} THEN 1 ELSE 0

\* The first n frames are undamaged.
Whole(fl, n) == \A k \in 1 .. n : fl[k].cut = "no"

Readable == {f \in snapshots : f.data # Unreadable}

NumberedFrames == [cmd : Nat, cut : {"no", "len", "payload", "crc"}]

\* What the steps assume about the form of memory and disk.
Shape ==
    /\ taken \in Nat
    /\ applied \in Seq(Nat)
    /\ batch \in Seq(Nat)
    /\ file \in Seq(NumberedFrames)
    /\ command_seq \in Nat
    /\ \A f \in snapshots : f.data \in Seq(Nat) /\ f.sequence \in Nat

FramesOrdered(fl) == \A i, j \in 1 .. Len(fl) : i < j => fl[i].cmd < fl[j].cmd
FramesTaken(fl) == \A i \in 1 .. Len(fl) : fl[i].cmd <= taken

\* What the journal has behind the commands of a snapshot is later than all of them.
Later(fl, f) ==
    \A i \in 1 .. Len(fl) :
        Whole(fl, i) /\ f.sequence < i => \A k \in 1 .. Len(f.data) : f.data[k] < fl[i].cmd

\* The readable part of the journal is not longer than what the engine's state reflects.
Fits(fl, n) == \A i \in 1 .. Len(fl) : Whole(fl, i) => i <= n

Order ==
    /\ Ordered(applied)
    /\ \A k \in 1 .. Len(applied) : applied[k] <= taken - InFlight
    /\ FramesOrdered(Journal) /\ FramesTaken(Journal)
    /\ stage # "down" => Fits(Journal, Len(applied) + InFlight)
    /\ \A f \in Readable :
          /\ Ordered(f.data)
          /\ \A k \in 1 .. Len(f.data) : f.data[k] <= taken
          /\ Later(Journal, f)

OrderInv == ~degraded => Order

-----------------------------------------------------------------------------
(* Frames that a write leaves behind *)

\* A write that is cut short leaves the batch's commands in order, the last one perhaps damaged.
LEMMA CutFrames ==
    ASSUME batch \in Seq(Nat), NEW n \in 0 .. Len(batch), NEW frames \in CutAfter(n)
    PROVE  /\ frames \in Seq(NumberedFrames)
           /\ Len(frames) <= Len(batch)
           /\ \A i \in 1 .. Len(frames) : frames[i].cmd = batch[i]
<1> DEFINE w == Written(SubSeq(batch, 1, n))
<1>1. /\ SubSeq(batch, 1, n) \in Seq(Nat)
      /\ Len(SubSeq(batch, 1, n)) = n
      /\ \A i \in 1 .. n : SubSeq(batch, 1, n)[i] = batch[i]
  BY SubSeqProperties
<1>2. /\ w \in Seq(NumberedFrames)
      /\ Len(w) = n
      /\ \A i \in 1 .. n : w[i].cmd = batch[i]
  <2>1. w = [i \in 1 .. n |-> Frame(batch[i])]
    BY <1>1 DEF Written
  <2>2. \A i \in 1 .. n : Frame(batch[i]) \in NumberedFrames
    BY DEF Frame, NumberedFrames
  <2>3. w \in Seq(NumberedFrames) /\ Len(w) = n
    BY <2>1, <2>2, SeqDef
  <2>4. ASSUME NEW i \in 1 .. n PROVE w[i].cmd = batch[i]
    BY <2>1 DEF Frame
  <2> QED BY <2>3, <2>4
<1>3. CASE frames = w
  BY <1>2, <1>3
<1>4. ASSUME frames # w
      PROVE  /\ n < Len(batch)
             /\ \E c \in {"len", "payload", "crc"} :
                   frames = w \o <<[cmd |-> batch[n + 1], cut |-> c]>>
  BY <1>4 DEF CutAfter
<1>5. ASSUME frames # w, NEW c \in {"len", "payload", "crc"},
             frames = w \o <<[cmd |-> batch[n + 1], cut |-> c]>>
      PROVE  /\ frames \in Seq(NumberedFrames)
             /\ Len(frames) <= Len(batch)
             /\ \A i \in 1 .. Len(frames) : frames[i].cmd = batch[i]
  <2> DEFINE last == <<[cmd |-> batch[n + 1], cut |-> c]>>
  <2>1. n < Len(batch)
    BY <1>4, <1>5
  <2>2. last \in Seq(NumberedFrames) /\ Len(last) = 1 /\ last[1].cmd = batch[n + 1]
    BY <2>1 DEF NumberedFrames
  <2>3. /\ frames \in Seq(NumberedFrames)
        /\ Len(frames) = n + 1
        /\ \A i \in 1 .. Len(frames) : frames[i] = IF i <= n THEN w[i] ELSE last[i - n]
    BY <1>2, <1>5, <2>2, ConcatProperties
  <2>4. ASSUME NEW i \in 1 .. Len(frames) PROVE frames[i].cmd = batch[i]
    <3>1. CASE i <= n
      <4>1. frames[i] = w[i] BY <2>3, <3>1
      <4> QED BY <4>1, <1>2, <3>1, <2>3
    <3>2. CASE i = n + 1
      <4>1. frames[i] = last[1] BY <2>3, <3>2
      <4> QED BY <4>1, <2>2, <3>2
    <3> QED BY <3>1, <3>2, <2>3
  <2> QED BY <2>1, <2>3, <2>4
<1> QED BY <1>3, <1>4, <1>5

\* The journal with the batch behind it, frame by frame.
LEMMA JournalFrames ==
    ASSUME Shape
    PROVE  /\ Journal \in Seq(NumberedFrames)
           /\ Len(Journal) = Len(file) + Len(Pending)
           /\ \A i \in 1 .. Len(file) : Journal[i] = file[i]
           /\ \A i \in 1 .. Len(Pending) :
                 /\ Journal[Len(file) + i].cmd = Pending[i]
                 /\ Journal[Len(file) + i].cut = "no"
<1> DEFINE m == Len(file) + Len(Pending)
<1>1. Pending \in Seq(Nat)
  BY DEF Pending, Shape
<1>2. m \in Nat /\ Len(file) \in Nat /\ Len(Pending) \in Nat
  BY <1>1 DEF Shape
<1>3. ASSUME NEW i \in 1 .. m
      PROVE  (IF i <= Len(file) THEN file[i] ELSE Frame(Pending[i - Len(file)])) \in NumberedFrames
  <2>1. CASE i <= Len(file)
    BY <2>1 DEF Shape
  <2>2. CASE ~(i <= Len(file))
    <3>1. Pending[i - Len(file)] \in Nat
      BY <1>1, <1>2, <2>2
    <3> QED BY <2>2, <3>1 DEF Frame, NumberedFrames
  <2> QED BY <2>1, <2>2
<1>4. Journal \in [1 .. m -> NumberedFrames]
  BY <1>3 DEF Journal
<1>5. Journal \in Seq(NumberedFrames) /\ Len(Journal) = m
  BY <1>2, <1>4, SeqDef
<1>6. ASSUME NEW i \in 1 .. Len(file) PROVE Journal[i] = file[i]
  BY <1>2 DEF Journal
<1>7. ASSUME NEW i \in 1 .. Len(Pending)
      PROVE  Journal[Len(file) + i].cmd = Pending[i] /\ Journal[Len(file) + i].cut = "no"
  <2>1. Journal[Len(file) + i] = Frame(Pending[i])
    BY <1>2 DEF Journal
  <2> QED BY <2>1 DEF Frame
<1> QED BY <1>5, <1>6, <1>7

\* The journal with its waiting frames is a sequence of frames.
LEMMA JournalIsSeq == Shape => Journal \in Seq(NumberedFrames)
BY JournalFrames

\* w is v without some frames at its end, and perhaps with damage at places.
Shortened(v, w) ==
    /\ Len(w) <= Len(v)
    /\ \A i \in 1 .. Len(w) : w[i].cmd = v[i].cmd /\ (w[i].cut = "no" => v[i].cut = "no")

\* A journal that lost frames keeps the order of the ones it has left.
LEMMA ShortenedKeeps ==
    ASSUME NEW v \in Seq(NumberedFrames), NEW w \in Seq(NumberedFrames), Shortened(v, w)
    PROVE  /\ FramesOrdered(v) => FramesOrdered(w)
           /\ FramesTaken(v) => FramesTaken(w)
           /\ \A n \in Nat : Fits(v, n) => Fits(w, n)
           /\ \A f \in snapshots : Later(v, f) => Later(w, f)
<1> USE DEF Shortened
<1>1. \A i \in 1 .. Len(w) : i \in 1 .. Len(v) /\ w[i].cmd = v[i].cmd
  OBVIOUS
<1>2. ASSUME NEW i \in 1 .. Len(w), Whole(w, i) PROVE Whole(v, i)
  BY <1>1, <1>2 DEF Whole
<1>3. FramesOrdered(v) => FramesOrdered(w)
  BY <1>1 DEF FramesOrdered
<1>4. FramesTaken(v) => FramesTaken(w)
  BY <1>1 DEF FramesTaken
<1>5. ASSUME NEW n \in Nat, Fits(v, n) PROVE Fits(w, n)
  BY <1>1, <1>2, <1>5 DEF Fits
<1>6. ASSUME NEW f \in snapshots, Later(v, f) PROVE Later(w, f)
  BY <1>1, <1>2, <1>6 DEF Later
<1> QED BY <1>3, <1>4, <1>5, <1>6

\* What Store leaves at the journal path.
LEMMA StoreShortens ==
    ASSUME Shape, stage # "down",
           NEW n \in 0 .. Len(batch), NEW frames \in CutAfter(n), Store(frames)
    PROVE  file' \in Seq(NumberedFrames) /\ Shortened(Journal, file')
<1>1. /\ frames \in Seq(NumberedFrames)
      /\ Len(frames) <= Len(batch)
      /\ \A i \in 1 .. Len(frames) : frames[i].cmd = batch[i]
  BY CutFrames DEF Shape
<1>2. Pending = batch /\ file \in Seq(NumberedFrames) /\ batch \in Seq(Nat)
  BY DEF Pending, Shape
<1>3. /\ Len(Journal) = Len(file) + Len(batch)
      /\ \A i \in 1 .. Len(file) : Journal[i] = file[i]
      /\ \A i \in 1 .. Len(batch) :
            Journal[Len(file) + i].cmd = batch[i] /\ Journal[Len(file) + i].cut = "no"
  BY <1>2, JournalFrames
<1>4. CASE file' = file
  BY <1>2, <1>3, <1>4 DEF Shortened
<1>5. CASE file' = file \o frames
  <2>1. /\ file' \in Seq(NumberedFrames)
        /\ Len(file') = Len(file) + Len(frames)
        /\ \A i \in 1 .. Len(file') :
              file'[i] = IF i <= Len(file) THEN file[i] ELSE frames[i - Len(file)]
    BY <1>1, <1>2, <1>5, ConcatProperties
  <2>2. ASSUME NEW i \in 1 .. Len(file')
        PROVE  file'[i].cmd = Journal[i].cmd /\ (file'[i].cut = "no" => Journal[i].cut = "no")
    <3>1. CASE i <= Len(file)
      <4>1. file'[i] = file[i] /\ Journal[i] = file[i]
        BY <1>2, <1>3, <2>1, <3>1
      <4> QED BY <4>1
    <3>2. CASE ~(i <= Len(file))
      <4> DEFINE k == i - Len(file)
      <4>1. k \in 1 .. Len(frames) /\ k \in 1 .. Len(batch) /\ i = Len(file) + k
        BY <1>1, <1>2, <2>1, <3>2
      <4>2. file'[i] = frames[k]
        BY <2>1, <3>2
      <4>3. Journal[i].cmd = batch[k] /\ Journal[i].cut = "no"
        BY <1>3, <4>1
      <4> QED BY <1>1, <4>1, <4>2, <4>3
    <3> QED BY <3>1, <3>2
  <2> QED BY <1>1, <1>2, <1>3, <2>1, <2>2 DEF Shortened
<1> QED BY <1>4, <1>5 DEF Store

\* A complete write is a write cut after the last frame.
LEMMA WholeBatch ==
    ASSUME batch \in Seq(Nat)
    PROVE  Len(batch) \in 0 .. Len(batch) /\ Written(batch) \in CutAfter(Len(batch))
<1>1. /\ SubSeq(batch, 1, Len(batch)) \in Seq(Nat)
      /\ Len(SubSeq(batch, 1, Len(batch))) = Len(batch)
      /\ \A i \in 1 .. Len(batch) : SubSeq(batch, 1, Len(batch))[i] = batch[i]
  BY SubSeqProperties
<1>2. SubSeq(batch, 1, Len(batch)) = batch
  BY <1>1, SeqEqual
<1>3. Len(batch) \in Nat
  OBVIOUS
<1>4. Written(SubSeq(batch, 1, Len(batch))) \in CutAfter(Len(batch))
  BY DEF CutAfter
<1>5. Written(batch) \in CutAfter(Len(batch))
  BY <1>2, <1>4, Zenon
<1> QED BY <1>3, <1>5

\* The file without the batch, and an empty file, are the journal shortened.
LEMMA FileShortens ==
    ASSUME Shape
    PROVE  Shortened(Journal, file) /\ Shortened(Journal, <<>>)
<1>1. /\ Len(Journal) = Len(file) + Len(Pending)
      /\ \A i \in 1 .. Len(file) : Journal[i] = file[i]
  BY JournalFrames
<1>2. Len(file) \in Nat /\ Len(Pending) \in Nat
  BY DEF Shape, Pending
<1> QED BY <1>1, <1>2 DEF Shortened

Writes == Flush \/ FlushFails \/ Rotate \/ RotateFails \/ FinalFlush \/ Crash

\* Whatever is written, in part or not at all, what is left of the journal is a part of what
\* file and batch were, and the batch is empty or lost.
LEMMA WritesShorten ==
    ASSUME Shape, Writes
    PROVE  /\ file' \in Seq(NumberedFrames) /\ Shortened(Journal, file')
           /\ batch' \in Seq(Nat) /\ (stage' # "down" => batch' = <<>>)
<1>1. /\ batch \in Seq(Nat) /\ file \in Seq(NumberedFrames) /\ <<>> \in Seq(NumberedFrames)
      /\ <<>> \in Seq(Nat)
  BY DEF Shape
<1>2. ASSUME stage # "down", Store(Written(batch))
      PROVE  file' \in Seq(NumberedFrames) /\ Shortened(Journal, file')
  BY <1>1, <1>2, WholeBatch, StoreShortens
<1>3. ASSUME stage # "down", WriteBatch
      PROVE  file' \in Seq(NumberedFrames) /\ Shortened(Journal, file') /\ batch' = <<>>
  BY <1>2, <1>3 DEF WriteBatch
<1>4. ASSUME stage # "down", WriteBatchFails
      PROVE  file' \in Seq(NumberedFrames) /\ Shortened(Journal, file') /\ batch' = <<>>
  <2>1. PICK n \in 0 .. (Len(batch) - 1) : \E frames \in CutAfter(n) : Store(frames)
    BY <1>4 DEF WriteBatchFails
  <2>2. n \in 0 .. Len(batch)
    BY <1>1
  <2>3. batch' = <<>>
    BY <1>4 DEF WriteBatchFails
  <2> QED BY <1>4, <2>1, <2>2, <2>3, StoreShortens
<1>5. ASSUME Renamed
      PROVE  file' \in Seq(NumberedFrames) /\ Shortened(Journal, file') /\ batch' = <<>>
  <2>1. file' = <<>> /\ batch' = <<>>
    BY <1>5 DEF Renamed
  <2> QED BY <1>1, <2>1, FileShortens
<1>6. CASE Flush
  <2>1. stage # "down" /\ WriteBatch
    BY <1>6 DEF Flush
  <2> QED BY <1>1, <1>3, <2>1
<1>7. CASE FlushFails
  <2>1. stage # "down" /\ WriteBatchFails
    BY <1>7 DEF FlushFails
  <2> QED BY <1>1, <1>4, <2>1
<1>8. CASE Rotate
  <2>1. Renamed
    BY <1>8 DEF Rotate
  <2> QED BY <1>1, <1>5, <2>1
<1>9. CASE RotateFails
  <2>1. stage # "down" /\ (WriteBatchFails \/ WriteBatch \/ Renamed)
    BY <1>9 DEF RotateFails
  <2> QED BY <1>1, <1>3, <1>4, <1>5, <2>1
<1>10. CASE FinalFlush
  <2>1. stage # "down" /\ Store(Written(batch)) /\ stage' = "down" /\ batch' = batch
    BY <1>10 DEF FinalFlush, memory
  <2> QED BY <1>1, <1>2, <2>1
<1>11. CASE Crash
  <2>1. stage # "down" /\ stage' = "down" /\ batch' = batch
    BY <1>11 DEF Crash, memory
  <2>2. CASE UNCHANGED <<file, archived>>
    BY <1>1, <2>1, <2>2, FileShortens
  <2>3. CASE \E n \in 0 .. Len(batch) : \E frames \in CutAfter(n) : Store(frames)
    BY <1>1, <2>1, <2>3, StoreShortens
  <2> QED BY <1>11, <2>2, <2>3 DEF Crash
<1> QED BY <1>6, <1>7, <1>8, <1>9, <1>10, <1>11 DEF Writes

-----------------------------------------------------------------------------
(* The numbering *)

CountInv == Shape /\ SequenceCountsCommands

\* A snapshot is one of those there were or the state of the engine under its number.
LEMMA SnapshotsFrom ==
    ASSUME CountInv, NEW data, data = applied \/ data = Unreadable,
           NEW f \in WithSnapshot(data)
    PROVE  /\ f.data \in Seq(Nat) /\ f.sequence \in Nat
           /\ f.data # Unreadable => f.sequence = Len(f.data)
           /\ f \in snapshots \/ (f.sequence = command_seq /\ (f.data = applied \/ f.data = Unreadable))
<1>1. f \in snapshots \/ f = [sequence |-> command_seq, data |-> data]
  BY DEF WithSnapshot
<1>2. Unreadable \in Seq(Nat)
  BY DEF Unreadable
<1>3. CASE f \in snapshots
  BY <1>3 DEF CountInv, Shape, SequenceCountsCommands
<1>4. CASE f = [sequence |-> command_seq, data |-> data]
  BY <1>2, <1>4 DEF CountInv, Shape, SequenceCountsCommands
<1> QED BY <1>1, <1>3, <1>4

\* What restore_from_persistence makes of a snapshot that reflects seq commands, or of none.
LEMMA ReplayCounts ==
    ASSUME CountInv, NEW n \in 0 .. Len(file), NEW seq \in Nat, NEW base \in Seq(Nat),
           seq = Len(base), ReplayFrom(n, seq, base)
    PROVE  /\ applied' \in Seq(Nat) /\ command_seq' = Len(applied')
           /\ Len(applied') = IF n > seq THEN n ELSE seq
           /\ \A i \in 1 .. Len(applied') :
                 applied'[i] = IF i <= seq THEN base[i] ELSE file[i].cmd
<1> DEFINE delta == [i \in 1 .. (n - seq) |-> file[seq + i].cmd]
           d == IF n > seq THEN n - seq ELSE 0
<1>1. /\ d \in Nat /\ 1 .. (n - seq) = 1 .. d
      /\ \A i \in 1 .. d : seq + i \in 1 .. Len(file)
      /\ d = (IF n > seq THEN n - seq ELSE 0)
  BY DEF CountInv, Shape
<1> HIDE DEF d
<1>2. ASSUME NEW i \in 1 .. Len(file) PROVE file[i].cmd \in Nat
  <2>1. file[i] \in NumberedFrames
    BY ElementOfSeq DEF CountInv, Shape
  <2> QED BY <2>1 DEF NumberedFrames
<1>3. delta \in [1 .. d -> Nat] /\ \A i \in 1 .. d : delta[i] = file[seq + i].cmd
  BY <1>1, <1>2
<1>4. applied' = base \o delta /\ command_seq' = seq + Len(delta)
  BY DEF ReplayFrom, Replayed
<1> HIDE DEF delta
<1>5. delta \in Seq(Nat)
  <2>1. d \in Nat /\ delta \in [1 .. d -> Nat]
    BY <1>1, <1>3
  <2> QED BY <2>1, SeqDef
<1>6. Len(delta) = d
  <2>1. DOMAIN delta = 1 .. d /\ d \in Nat
    BY <1>1, <1>3
  <2>2. DOMAIN delta = 1 .. Len(delta) /\ Len(delta) \in Nat
    BY <1>5, LenProperties
  <2> QED BY <2>1, <2>2
<1>7. /\ applied' \in Seq(Nat)
      /\ Len(applied') = seq + d
      /\ \A i \in 1 .. (seq + d) : applied'[i] = IF i <= seq THEN base[i] ELSE delta[i - seq]
  BY <1>4, <1>5, <1>6, ConcatProperties
<1>8. ASSUME NEW i \in 1 .. (seq + d), i > seq PROVE delta[i - seq] = file[i].cmd
  <2>1. i - seq \in 1 .. d /\ seq + (i - seq) = i
    BY <1>1, <1>8
  <2> QED BY <1>3, <2>1
<1>9. Len(applied') = IF n > seq THEN n ELSE seq
  BY <1>1, <1>7 DEF CountInv, Shape
<1>10. ASSUME NEW i \in 1 .. Len(applied')
       PROVE  applied'[i] = IF i <= seq THEN base[i] ELSE file[i].cmd
  <2>1. CASE i <= seq
    BY <1>7, <2>1
  <2>2. CASE i > seq
    BY <1>7, <1>8, <2>2
  <2> QED BY <2>1, <2>2, <1>7
<1> QED BY <1>4, <1>6, <1>7, <1>9, <1>10

\* What a restart brings up, from a snapshot or from nothing.
LEMMA RestartFrom ==
    ASSUME CountInv, Restart
    PROVE  \E n \in 0 .. Len(file), seq \in Nat, base \in Seq(Nat) :
              /\ Reads(n)
              /\ seq = Len(base)
              /\ base = <<>> \/ \E f \in Readable : seq = f.sequence /\ base = f.data
              /\ ReplayFrom(n, seq, base) \/ RunWith(seq, base)
<1>1. <<>> \in Seq(Nat) /\ Len(<<>>) = 0 /\ 0 \in Nat
  OBVIOUS
<1>2. ASSUME NEW f \in snapshots, Loads(f)
      PROVE  /\ f.sequence \in Nat /\ f.data \in Seq(Nat) /\ f.sequence = Len(f.data)
             /\ f \in Readable
  BY <1>2 DEF Loads, Readable, CountInv, Shape, SequenceCountsCommands
<1>3. PICK n \in 0 .. Len(file) :
         /\ Reads(n)
         /\ \/ ReplayFrom(n, 0, <<>>)
            \/ RunWith(0, <<>>)
            \/ \E f \in snapshots :
                  /\ Loads(f)
                  /\ ReplayFrom(n, f.sequence, f.data) \/ RunWith(f.sequence, f.data)
  BY DEF Restart
<1>4. CASE ReplayFrom(n, 0, <<>>) \/ RunWith(0, <<>>)
  BY <1>1, <1>3, <1>4
<1>5. ASSUME NEW f \in snapshots, Loads(f),
             ReplayFrom(n, f.sequence, f.data) \/ RunWith(f.sequence, f.data)
      PROVE  \E seq \in Nat, base \in Seq(Nat) :
                /\ seq = Len(base)
                /\ \E g \in Readable : seq = g.sequence /\ base = g.data
                /\ ReplayFrom(n, seq, base) \/ RunWith(seq, base)
  BY <1>2, <1>5
<1> QED BY <1>3, <1>4, <1>5

\* The first start satisfies the counting invariant.
LEMMA CountInit == Init => CountInv
<1>1. <<>> \in Seq(Nat) /\ <<>> \in Seq(NumberedFrames) /\ Len(<<>>) = 0
  OBVIOUS
<1> QED BY <1>1 DEF Init, CountInv, Shape, SequenceCountsCommands

\* Every step keeps the numbering: run counts what it applies, a snapshot is saved under the
\* count, and a restart counts what it replays.
LEMMA CountStep == CountInv /\ [Next]_vars => CountInv'
<1> SUFFICES ASSUME CountInv, [Next]_vars PROVE CountInv'
  OBVIOUS
<1> USE DEF CountInv
<1>1. CASE TakeCommand
  <2>1. batch' \in Seq(Nat) /\ taken' \in Nat
    BY <1>1 DEF TakeCommand, Shape
  <2> QED BY <1>1, <2>1 DEF TakeCommand, Shape, SequenceCountsCommands, disk
<1>2. CASE Writes /\ UNCHANGED snapshots
  <2>1. file' \in Seq(NumberedFrames) /\ batch' \in Seq(Nat)
    BY <1>2, WritesShorten
  <2>2. UNCHANGED <<applied, command_seq, taken>>
    BY <1>2 DEF Writes, Flush, FlushFails, Rotate, RotateFails, FinalFlush, Crash, memory, history
  <2> QED BY <1>2, <2>1, <2>2 DEF Shape, SequenceCountsCommands
<1>3. CASE Process
  <2>1. applied' \in Seq(Nat) /\ Len(applied') = Len(applied) + 1
    BY <1>3 DEF Process, Shape
  <2> QED BY <1>3, <2>1 DEF Process, Shape, SequenceCountsCommands, disk
<1>4. ASSUME \A f \in snapshots' :
                \/ f \in snapshots
                \/ \E data \in {applied, Unreadable} : f \in WithSnapshot(data),
             UNCHANGED <<applied, command_seq, batch, taken>>,
             file' \in Seq(NumberedFrames)
      PROVE  CountInv'
  <2>1. \A f \in snapshots' : /\ f.data \in Seq(Nat) /\ f.sequence \in Nat
                              /\ f.data # Unreadable => f.sequence = Len(f.data)
    BY <1>4, SnapshotsFrom DEF Shape, SequenceCountsCommands
  <2> QED BY <1>4, <2>1 DEF Shape, SequenceCountsCommands
<1>5. CASE TakeSnapshot
  BY <1>4, <1>5 DEF TakeSnapshot, Newest, memory, history, Shape
<1>6. CASE SnapshotFails
  BY <1>4, <1>6 DEF SnapshotFails, CutSave, memory, history, Shape
<1>7. CASE Crash
  <2>1. file' \in Seq(NumberedFrames)
    BY <1>7, WritesShorten DEF Writes
  <2> QED BY <1>4, <1>7, <2>1 DEF Crash, CutSave, memory
<1>8. CASE CloseChannel
  BY <1>8 DEF CloseChannel, memory, disk, history, Shape, SequenceCountsCommands
<1>9. CASE Restart
  <2>1. PICK n \in 0 .. Len(file), seq \in Nat, base \in Seq(Nat) :
           /\ seq = Len(base)
           /\ ReplayFrom(n, seq, base) \/ RunWith(seq, base)
    BY <1>9, RestartFrom
  <2>2. applied' \in Seq(Nat) /\ command_seq' = Len(applied')
    BY <2>1, ReplayCounts DEF RunWith
  <2>3. command_seq' \in Nat
    BY <2>2
  <2>4. batch' \in Seq(Nat)
    BY <1>9 DEF Restart
  <2> QED BY <1>9, <2>2, <2>3, <2>4 DEF Restart, disk, Shape, SequenceCountsCommands
<1>10. CASE UNCHANGED vars
  BY <1>10 DEF vars, memory, disk, history, Shape, SequenceCountsCommands
<1>11. Flush \/ FlushFails \/ Rotate \/ RotateFails \/ FinalFlush => Writes /\ UNCHANGED snapshots
  BY DEF Writes, Flush, FlushFails, Rotate, RotateFails, FinalFlush
<1> QED BY <1>1, <1>2, <1>3, <1>5, <1>6, <1>7, <1>8, <1>9, <1>10, <1>11 DEF Next

\* In every behaviour command_seq, and the sequence number of every snapshot that can be read,
\* is the number of commands the state reflects, whatever writes fail or are cut short: the
\* index from which restore_from_persistence replays is the right one for the snapshot.
THEOREM SequenceCounts == Spec => []SequenceCountsCommands
<1>1. CountInv => SequenceCountsCommands
  BY DEF CountInv
<1> QED BY CountInit, CountStep, <1>1, PTL DEF Spec

-----------------------------------------------------------------------------
(* The order *)

\* The part of Order about the frames of the journal and one snapshot.
Behind(fl, f) ==
    /\ Ordered(f.data)
    /\ \A k \in 1 .. Len(f.data) : f.data[k] <= taken
    /\ Later(fl, f)

\* Steps that take and apply nothing: the journal gets shorter or stays, and a new snapshot
\* holds the state of an engine with no command in flight.
LEMMA OrderKept ==
    ASSUME CountInv, CountInv', Order, stage # "down", UNCHANGED <<applied, taken>>,
           Shortened(Journal, Journal'),
           InFlight' <= InFlight, stage' # "down" => InFlight' = InFlight,
           \A f \in snapshots' : f.data # Unreadable =>
               \/ f \in snapshots
               \/ f.sequence = Len(applied) /\ f.data = applied /\ InFlight = 0
    PROVE  Order'
<1>1. /\ Journal \in Seq(NumberedFrames) /\ Journal' \in Seq(NumberedFrames)
      /\ Len(applied) \in Nat /\ taken \in Nat /\ InFlight \in {0, 1} /\ InFlight' \in {0, 1}
  <2>1. Shape /\ Shape'
    BY DEF CountInv
  <2>2. Journal \in Seq(NumberedFrames)
    BY <2>1, JournalFrames
  <2>3. (Shape => Journal \in Seq(NumberedFrames))'
    BY JournalIsSeq, PTL
  <2> QED BY <2>1, <2>2, <2>3 DEF Shape, InFlight
<1>2. /\ FramesOrdered(Journal') /\ FramesTaken(Journal')
      /\ Fits(Journal', Len(applied) + InFlight)
      /\ \A f \in snapshots : Later(Journal, f) => Later(Journal', f)
  <2>1. Len(applied) + InFlight \in Nat
    BY <1>1
  <2> QED BY <1>1, <2>1, ShortenedKeeps DEF Order
<1>3. ASSUME NEW f \in Readable' PROVE Behind(Journal', f)
  <2>1. CASE f \in snapshots
    BY <1>2, <1>3, <2>1 DEF Order, Readable, Behind
  <2>2. CASE f.sequence = Len(applied) /\ f.data = applied /\ InFlight = 0
    <3>1. Later(Journal', f)
      BY <1>1, <1>2, <2>2 DEF Fits, Later
    <3> QED BY <1>1, <2>2, <3>1 DEF Order, Behind
  <2> QED BY <1>3, <2>1, <2>2 DEF Readable
<1>4. Ordered(applied) /\ \A k \in 1 .. Len(applied) : applied[k] <= taken - InFlight'
  <2>1. \A k \in 1 .. Len(applied) : applied[k] \in Nat
    BY DEF CountInv, Shape
  <2> QED BY <1>1, <2>1 DEF Order
<1>5. (\A f \in Readable : Behind(Journal, f))'
  BY <1>3 DEF Behind, Later, Ordered
<1> QED
  BY <1>1, <1>2, <1>4, <1>5 DEF Order, Behind, FramesOrdered, FramesTaken, Fits, Ordered

\* With an empty batch the journal is the file.
LEMMA JournalWithoutBatch == Shape /\ Pending = <<>> => Journal = file
<1> SUFFICES ASSUME Shape, Pending = <<>> PROVE Journal = file
  OBVIOUS
<1>1. /\ Journal \in Seq(NumberedFrames)
      /\ Len(Journal) = Len(file) + Len(Pending)
      /\ \A i \in 1 .. Len(file) : Journal[i] = file[i]
  BY JournalFrames
<1>2. Len(Pending) = 0 /\ Len(file) \in Nat /\ file \in Seq(NumberedFrames)
  BY DEF Shape
<1>3. Len(Journal) = Len(file)
  BY <1>1, <1>2
<1> QED BY <1>1, <1>2, <1>3, SeqEqual

\* A step that writes leaves a part of the journal, and the batch no longer adds to it.
LEMMA JournalShortens ==
    ASSUME CountInv, CountInv', Writes
    PROVE  Shortened(Journal, Journal')
<1>1. /\ Shortened(Journal, file')
      /\ stage' # "down" => batch' = <<>>
  BY WritesShorten DEF CountInv
<1>2. (Shape /\ Pending = <<>> => Journal = file)'
  BY JournalWithoutBatch, PTL
<1>3. (Pending = <<>>)'
  BY <1>1 DEF Pending
<1> QED BY <1>1, <1>2, <1>3 DEF CountInv

\* A step that leaves the journal's variables alone leaves the journal.
LEMMA JournalStays ==
    ASSUME CountInv, UNCHANGED <<file, batch>>, stage # "down", stage' # "down"
    PROVE  Journal' = Journal /\ Shortened(Journal, Journal')
<1>1. Journal' = Journal
  BY DEF Journal, Pending
<1>2. Len(Journal) \in Nat
  BY JournalIsSeq DEF CountInv
<1> QED BY <1>1, <1>2 DEF Shortened

\* append puts the new command behind everything there is.
LEMMA JournalGrows ==
    ASSUME CountInv, CountInv', TakeCommand
    PROVE  /\ Journal' \in Seq(NumberedFrames) /\ Len(Journal') = Len(Journal) + 1
           /\ \A i \in 1 .. Len(Journal) :
                 Journal'[i].cmd = Journal[i].cmd /\ Journal'[i].cut = Journal[i].cut
           /\ Journal'[Len(Journal) + 1].cmd = taken + 1
<1> DEFINE L == Len(Journal)
<1>1. /\ stage = "idle" /\ stage' # "down" /\ taken' = taken + 1
      /\ batch' = Append(batch, taken + 1)
      /\ UNCHANGED <<applied, file, snapshots>>
  BY DEF TakeCommand, disk
<1>2. /\ taken \in Nat /\ Len(applied) \in Nat /\ Len(file) \in Nat /\ Len(batch) \in Nat
      /\ Pending = batch /\ Pending' = batch' /\ batch \in Seq(Nat)
      /\ \A k \in 1 .. Len(applied) : applied[k] \in Nat
  BY <1>1 DEF CountInv, Shape, Pending
<1>3. /\ Len(batch') = Len(batch) + 1 /\ batch'[Len(batch) + 1] = taken + 1
      /\ \A i \in 1 .. Len(batch) : batch'[i] = batch[i]
  BY <1>1, <1>2
<1>4. /\ Journal \in Seq(NumberedFrames) /\ L = Len(file) + Len(batch) /\ L \in Nat
      /\ \A i \in 1 .. Len(file) : Journal[i] = file[i]
      /\ \A i \in 1 .. Len(batch) : Journal[Len(file) + i].cmd = batch[i]
                                    /\ Journal[Len(file) + i].cut = "no"
  <2>1. Shape
    BY DEF CountInv
  <2> QED BY <1>2, <2>1, JournalFrames
<1>5. /\ Journal' \in Seq(NumberedFrames) /\ Len(Journal') = L + 1
      /\ \A i \in 1 .. Len(file) : Journal'[i] = file[i]
      /\ \A i \in 1 .. (Len(batch) + 1) : Journal'[Len(file) + i] = Frame(batch'[i])
  <2>1. (Shape => Journal \in Seq(NumberedFrames))'
    BY JournalIsSeq, PTL
  <2>2. Journal' \in Seq(NumberedFrames)
    BY <2>1 DEF CountInv
  <2>3. Journal' = [i \in 1 .. (Len(file) + Len(batch) + 1) |->
                       IF i <= Len(file) THEN file[i] ELSE Frame(batch'[i - Len(file)])]
    BY <1>1, <1>2, <1>3 DEF Journal
  <2>4. Len(Journal') = L + 1
    BY <1>2, <1>4, <2>2, <2>3, LenProperties
  <2> QED BY <1>2, <2>2, <2>3, <2>4
<1>6. /\ \A i \in 1 .. L : Journal'[i].cmd = Journal[i].cmd /\ Journal'[i].cut = Journal[i].cut
      /\ Journal'[L + 1].cmd = taken + 1
  <2>1. ASSUME NEW i \in 1 .. L
        PROVE  Journal'[i].cmd = Journal[i].cmd /\ Journal'[i].cut = Journal[i].cut
    <3>1. CASE i <= Len(file)
      BY <1>2, <1>4, <1>5, <3>1
    <3>2. CASE i > Len(file)
      <4> DEFINE k == i - Len(file)
      <4>1. k \in 1 .. Len(batch) /\ k \in 1 .. (Len(batch) + 1) /\ i = Len(file) + k
        BY <1>2, <1>4, <3>2
      <4>2. Journal'[i] = Frame(batch[k])
        BY <1>3, <1>5, <4>1
      <4> QED BY <1>4, <4>1, <4>2 DEF Frame
    <3> QED BY <3>1, <3>2, <1>2
  <2>2. Journal'[L + 1] = Frame(taken + 1)
    <3>1. Journal'[Len(file) + (Len(batch) + 1)] = Frame(batch'[Len(batch) + 1])
      BY <1>2, <1>5
    <3>2. Len(file) + (Len(batch) + 1) = L + 1
      BY <1>2, <1>4
    <3> QED BY <1>3, <3>1, <3>2
  <2> QED BY <2>1, <2>2 DEF Frame
<1> QED BY <1>5, <1>6

\* The new command is later than everything in the journal.
LEMMA OrderTake ==
    ASSUME CountInv, CountInv', Order, TakeCommand
    PROVE  Order'
<1> DEFINE L == Len(Journal)
<1>1. /\ stage = "idle" /\ stage' # "down" /\ InFlight = 0 /\ InFlight' = 1 /\ taken' = taken + 1
      /\ batch' = Append(batch, taken + 1)
      /\ UNCHANGED <<applied, file, snapshots>>
  BY DEF TakeCommand, InFlight, disk
<1>2. /\ taken \in Nat /\ Len(applied) \in Nat
      /\ \A k \in 1 .. Len(applied) : applied[k] \in Nat
  BY <1>1 DEF CountInv, Shape
<1>4. Journal \in Seq(NumberedFrames) /\ L \in Nat
  BY JournalIsSeq DEF CountInv
<1>5. Journal' \in Seq(NumberedFrames) /\ Len(Journal') = L + 1
  BY JournalGrows
<1>6. /\ \A i \in 1 .. L : Journal'[i].cmd = Journal[i].cmd /\ Journal'[i].cut = Journal[i].cut
      /\ Journal'[L + 1].cmd = taken + 1
  BY JournalGrows
<1>7. \A i \in 1 .. L : Journal[i].cmd \in Nat
  <2>1. \A i \in 1 .. L : Journal[i] \in NumberedFrames
    BY <1>4, ElementOfSeq
  <2> QED BY <2>1 DEF NumberedFrames
<1> HIDE DEF L
<1>8. (FramesOrdered(Journal) /\ FramesTaken(Journal))'
  <2>1. L = Len(Journal)
    BY DEF L
  <2>2. ASSUME NEW i \in 1 .. (L + 1), NEW j \in 1 .. (L + 1), i < j
        PROVE  Journal'[i].cmd < Journal'[j].cmd
    <3>1. i \in 1 .. L
      BY <1>4, <2>2
    <3>2. CASE j \in 1 .. L
      BY <1>6, <2>1, <2>2, <3>1, <3>2 DEF Order, FramesOrdered
    <3>3. CASE j = L + 1
      BY <1>2, <1>6, <1>7, <2>1, <3>1, <3>3 DEF Order, FramesTaken
    <3> QED BY <1>4, <3>2, <3>3
  <2>3. ASSUME NEW i \in 1 .. (L + 1) PROVE Journal'[i].cmd <= taken + 1
    <3>1. CASE i \in 1 .. L
      <4>1. Journal[i].cmd <= taken /\ Journal[i].cmd \in Nat /\ Journal'[i].cmd = Journal[i].cmd
        BY <1>6, <1>7, <2>1, <3>1 DEF Order, FramesTaken
      <4> QED BY <1>2, <4>1
    <3>2. CASE i = L + 1
      BY <1>2, <1>6, <3>2
    <3> QED BY <1>4, <3>1, <3>2
  <2> QED BY <1>1, <1>5, <2>2, <2>3 DEF FramesOrdered, FramesTaken
<1>9. ASSUME NEW i \in 1 .. L, Whole(Journal', i) PROVE Whole(Journal, i)
  BY <1>4, <1>6, <1>9 DEF Whole
<1>10. Fits(Journal', Len(applied) + 1)
  <2>1. Fits(Journal, Len(applied)) /\ L = Len(Journal)
    BY <1>1, <1>2 DEF Order, L
  <2>2. ASSUME NEW i \in 1 .. (L + 1), Whole(Journal', i) PROVE i <= Len(applied) + 1
    <3>1. CASE i \in 1 .. L
      BY <1>2, <1>9, <2>1, <2>2, <3>1 DEF Fits
    <3>2. CASE i = L + 1 /\ L > 0
      <4>1. L \in 1 .. L /\ Whole(Journal', L)
        BY <1>4, <2>2, <3>2 DEF Whole
      <4>2. L <= Len(applied)
        BY <1>9, <2>1, <4>1 DEF Fits
      <4> QED BY <1>2, <1>4, <3>2, <4>2
    <3>3. CASE i = 1 /\ L = 0
      BY <1>2, <3>3
    <3> QED BY <1>4, <3>1, <3>2, <3>3
  <2> QED BY <1>5, <2>2 DEF Fits
<1>11. ASSUME NEW f \in Readable
       PROVE  /\ \A k \in 1 .. Len(f.data) : f.data[k] <= taken + 1
              /\ Later(Journal', f)
  <2>0. f.data \in Seq(Nat)
    BY DEF Readable, CountInv, Shape
  <2>1. /\ Later(Journal, f) /\ L = Len(Journal)
        /\ \A k \in 1 .. Len(f.data) : f.data[k] <= taken /\ f.data[k] \in Nat
    <3>1. \A k \in 1 .. Len(f.data) : f.data[k] \in Nat
      BY <2>0, ElementOfSeq
    <3>2. Later(Journal, f) /\ \A k \in 1 .. Len(f.data) : f.data[k] <= taken
      BY DEF Order
    <3> QED BY <3>1, <3>2 DEF L
  <2>2. ASSUME NEW i \in 1 .. (L + 1), Whole(Journal', i), f.sequence < i,
               NEW k \in 1 .. Len(f.data)
        PROVE  f.data[k] < Journal'[i].cmd
    <3>1. CASE i \in 1 .. L
      BY <1>6, <1>9, <2>1, <2>2, <3>1 DEF Later
    <3>2. CASE i = L + 1
      BY <1>2, <1>6, <2>1, <3>2
    <3> QED BY <1>4, <3>1, <3>2
  <2>3. Later(Journal', f)
    BY <1>5, <2>2 DEF Later
  <2> QED BY <1>2, <2>1, <2>3
<1>12. (\A f \in Readable : Behind(Journal, f))'
  BY <1>1, <1>11 DEF Order, Behind, Later, Ordered, Readable
<1>13. Ordered(applied) /\ \A k \in 1 .. Len(applied) : applied[k] <= taken' - InFlight'
  BY <1>1, <1>2 DEF Order
<1> QED BY <1>1, <1>8, <1>10, <1>12, <1>13 DEF Order, Behind, Fits, Ordered

\* process applies the one command in flight, which is later than all it applied before.
LEMMA OrderProcess ==
    ASSUME CountInv, CountInv', Order, Process
    PROVE  Order'
<1>1. /\ stage = "process" /\ stage' \in {"idle", "snapshot", "rotate"}
      /\ applied' = Append(applied, taken)
      /\ UNCHANGED <<batch, file, snapshots, taken>>
  BY DEF Process, AfterProcess, AfterSnapshot, disk
<1>2. InFlight = 1 /\ InFlight' = 0 /\ stage # "down" /\ stage' # "down"
  BY <1>1 DEF InFlight
<1>3. Journal' = Journal
  BY <1>1, <1>2, JournalStays
<1>4. /\ applied \in Seq(Nat) /\ Len(applied) \in Nat /\ taken \in Nat
      /\ \A k \in 1 .. Len(applied) : applied[k] \in Nat /\ applied[k] <= taken - 1
  <2>1. applied \in Seq(Nat) /\ taken \in Nat
    BY DEF CountInv, Shape
  <2>2. Len(applied) \in Nat /\ \A k \in 1 .. Len(applied) : applied[k] \in Nat
    BY <2>1, ElementOfSeq, LenProperties
  <2>3. \A k \in 1 .. Len(applied) : applied[k] <= taken - 1
    BY <1>2 DEF Order
  <2> QED BY <2>1, <2>2, <2>3
<1>5. /\ Len(applied') = Len(applied) + 1
      /\ applied'[Len(applied) + 1] = taken
      /\ \A k \in 1 .. Len(applied) : applied'[k] = applied[k]
  BY <1>1, <1>4
<1>6. Ordered(applied')
  <2>1. ASSUME NEW i \in 1 .. (Len(applied) + 1), NEW j \in 1 .. (Len(applied) + 1), i < j
        PROVE  applied'[i] < applied'[j]
    <3>1. i \in 1 .. Len(applied)
      BY <1>4, <2>1
    <3>2. CASE j \in 1 .. Len(applied)
      BY <1>5, <2>1, <3>1, <3>2 DEF Order, Ordered
    <3>3. CASE j = Len(applied) + 1
      <4>1. applied'[i] = applied[i] /\ applied'[j] = taken
        BY <1>5, <3>1, <3>3
      <4>2. applied[i] \in Nat /\ applied[i] <= taken - 1
        BY <1>4, <3>1
      <4> QED BY <1>4, <4>1, <4>2
    <3> QED BY <1>4, <3>2, <3>3
  <2> QED BY <1>5, <2>1 DEF Ordered
<1>7. \A k \in 1 .. Len(applied') : applied'[k] <= taken
  <2> SUFFICES ASSUME NEW k \in 1 .. (Len(applied) + 1) PROVE applied'[k] <= taken
    BY <1>5
  <2>1. CASE k \in 1 .. Len(applied)
    <3>1. applied'[k] = applied[k] /\ applied[k] \in Nat /\ applied[k] <= taken - 1
      BY <1>4, <1>5, <2>1
    <3> QED BY <1>4, <3>1
  <2>2. CASE k = Len(applied) + 1
    BY <1>4, <1>5, <2>2
  <2> QED BY <1>4, <2>1, <2>2
<1>8. Fits(Journal, Len(applied') + 0)
  BY <1>2, <1>4, <1>5 DEF Order
<1>9. (\A f \in Readable : Behind(Journal, f))'
  BY <1>1, <1>3 DEF Order, Behind, Later, Ordered, Readable
<1>10. (FramesOrdered(Journal) /\ FramesTaken(Journal))'
  BY <1>1, <1>3 DEF Order, FramesOrdered, FramesTaken
<1>11. taken' - InFlight' = taken /\ Len(applied') + InFlight' = Len(applied') + 0
  BY <1>1, <1>2, <1>4
<1> QED BY <1>1, <1>3, <1>6, <1>7, <1>8, <1>9, <1>10, <1>11 DEF Order, Behind, Fits, Ordered

\* A restart that succeeds: the frames behind the snapshot's commands are in order and later
\* than all of these, and the journal it read is not longer than what it brings up.
LEMMA OrderRestart ==
    ASSUME CountInv, CountInv', Order, Restart, ~degraded'
    PROVE  Order'
<1>1. PICK n \in 0 .. Len(file), seq \in Nat, base \in Seq(Nat) :
         /\ Reads(n)
         /\ seq = Len(base)
         /\ base = <<>> \/ \E f \in Readable : seq = f.sequence /\ base = f.data
         /\ ReplayFrom(n, seq, base) \/ RunWith(seq, base)
  BY RestartFrom
<1>2. ReplayFrom(n, seq, base)
  BY <1>1 DEF RunWith
<1>3. /\ stage = "down" /\ stage' = "idle" /\ batch' = <<>>
      /\ UNCHANGED <<file, snapshots, taken>>
  BY DEF Restart, disk
<1>4. InFlight = 0 /\ InFlight' = 0 /\ Pending = <<>> /\ Pending' = <<>>
  BY <1>3 DEF InFlight, Pending
<1>5. Journal = file
  BY <1>4, JournalWithoutBatch DEF CountInv
<1>6. Journal' = file
  BY <1>3, <1>4, <1>5 DEF Journal
<1>7. /\ Len(file) \in Nat /\ taken \in Nat /\ n \in Nat
      /\ \A i \in 1 .. Len(file) : file[i].cmd \in Nat /\ file[i].cmd <= taken
  <2>1. \A i \in 1 .. Len(file) : file[i] \in NumberedFrames
    BY ElementOfSeq DEF CountInv, Shape
  <2>2. \A i \in 1 .. Len(file) : file[i].cmd \in Nat
    BY <2>1 DEF NumberedFrames
  <2>3. \A i \in 1 .. Len(file) : file[i].cmd <= taken
    BY <1>5 DEF Order, FramesTaken
  <2>4. taken \in Nat /\ file \in Seq(NumberedFrames)
    BY DEF CountInv, Shape
  <2> QED BY <2>2, <2>3, <2>4
<1>8. /\ Ordered(base)
      /\ \A k \in 1 .. seq : base[k] \in Nat /\ base[k] <= taken
      /\ \A i \in 1 .. n, k \in 1 .. seq : seq < i => base[k] < file[i].cmd
  <2>1. CASE base = <<>>
    BY <1>1, <2>1 DEF Ordered
  <2>2. ASSUME NEW f \in Readable, seq = f.sequence, base = f.data
        PROVE  /\ Ordered(base)
               /\ \A k \in 1 .. seq : base[k] \in Nat /\ base[k] <= taken
               /\ \A i \in 1 .. n, k \in 1 .. seq : seq < i => base[k] < file[i].cmd
    <3>1. Ordered(base) /\ (\A k \in 1 .. seq : base[k] <= taken) /\ Later(file, f)
      BY <1>1, <1>5, <2>2 DEF Order
    <3>2. \A i \in 1 .. n : i \in 1 .. Len(file) /\ Whole(file, i)
      BY <1>1, <1>7 DEF Reads, Whole
    <3>3. \A k \in 1 .. seq : base[k] \in Nat
      BY <1>1
    <3> QED BY <1>1, <2>2, <3>1, <3>2, <3>3 DEF Later
  <2> QED BY <1>1, <2>1, <2>2
<1>9. /\ Len(applied') = IF n > seq THEN n ELSE seq
      /\ \A i \in 1 .. Len(applied') : applied'[i] = IF i <= seq THEN base[i] ELSE file[i].cmd
  BY <1>1, <1>2, ReplayCounts
<1>10. Ordered(applied')
  <2>1. ASSUME NEW i \in 1 .. Len(applied'), NEW j \in 1 .. Len(applied'), i < j
        PROVE  applied'[i] < applied'[j]
    <3>1. CASE j <= seq
      BY <1>1, <1>7, <1>8, <1>9, <2>1, <3>1 DEF Ordered
    <3>2. CASE j > seq
      <4>1. j \in 1 .. n /\ j \in 1 .. Len(file) /\ applied'[j] = file[j].cmd
        BY <1>1, <1>7, <1>9, <3>2
      <4>2. CASE i <= seq
        <5>1. i \in 1 .. seq /\ applied'[i] = base[i]
          BY <1>1, <1>9, <4>2
        <5> QED BY <1>8, <3>2, <4>1, <5>1
      <4>3. CASE i > seq
        <5>1. i \in 1 .. Len(file) /\ applied'[i] = file[i].cmd
          BY <1>1, <1>7, <1>9, <2>1, <4>1, <4>3
        <5>2. FramesOrdered(file)
          BY <1>5 DEF Order
        <5> QED BY <2>1, <4>1, <5>1, <5>2 DEF FramesOrdered
      <4> QED BY <4>2, <4>3, <1>1
    <3> QED BY <3>1, <3>2, <1>1, <1>7, <1>9
  <2> QED BY <2>1 DEF Ordered
<1>11. \A k \in 1 .. Len(applied') : applied'[k] <= taken
  <2>1. ASSUME NEW k \in 1 .. Len(applied') PROVE applied'[k] <= taken
    <3>1. CASE k <= seq
      <4>1. k \in 1 .. seq /\ applied'[k] = base[k]
        BY <1>1, <1>9, <3>1
      <4> QED BY <1>8, <4>1
    <3>2. CASE k > seq
      <4>1. k \in 1 .. Len(file) /\ applied'[k] = file[k].cmd
        BY <1>1, <1>7, <1>9, <3>2
      <4> QED BY <1>7, <4>1
    <3> QED BY <3>1, <3>2, <1>1, <1>7, <1>9
  <2> QED BY <2>1
<1>12. Fits(file, Len(applied'))
  <2>1. ASSUME NEW i \in 1 .. Len(file), Whole(file, i) PROVE i <= n
    <3>1. CASE i > n
      <4>1. n + 1 \in 1 .. i /\ n < Len(file)
        BY <1>7, <3>1
      <4> QED BY <1>1, <2>1, <4>1 DEF Reads, Whole
    <3> QED BY <1>7, <3>1
  <2>2. n <= Len(applied')
    BY <1>1, <1>7, <1>9
  <2>3. Len(applied') \in Nat
    BY <1>1, <1>7, <1>9
  <2> QED BY <1>7, <2>1, <2>2, <2>3 DEF Fits
<1>13. (\A f \in Readable : Behind(Journal, f))'
  BY <1>3, <1>5, <1>6 DEF Order, Behind, Later, Ordered, Readable
<1>14. (FramesOrdered(Journal) /\ FramesTaken(Journal))'
  BY <1>3, <1>5, <1>6 DEF Order, FramesOrdered, FramesTaken
<1>15. taken' - InFlight' = taken /\ Len(applied') + InFlight' = Len(applied')
  BY <1>1, <1>3, <1>4, <1>7, <1>9
<1> QED BY <1>6, <1>10, <1>11, <1>12, <1>13, <1>14, <1>15 DEF Order, Behind, Fits, Ordered

\* The first start satisfies the order invariant.
LEMMA OrderInit == Init => OrderInv
<1> SUFFICES ASSUME Init PROVE Order
  BY DEF OrderInv
<1>1. /\ applied = <<>> /\ snapshots = {} /\ file = <<>> /\ batch = <<>> /\ taken = 0
      /\ stage = "idle"
  BY DEF Init
<1>2. Len(applied) = 0 /\ Pending = <<>> /\ InFlight = 0
  BY <1>1 DEF Pending, InFlight
<1>3. Journal = file
  BY CountInit, <1>2, JournalWithoutBatch DEF CountInv
<1>4. Len(Journal) = 0
  BY <1>1, <1>3
<1> QED BY <1>1, <1>2, <1>4
        DEF Order, Ordered, FramesOrdered, FramesTaken, Fits, Readable

\* Every step keeps the order invariant, given that the sequence numbers count commands.
LEMMA OrderStep == CountInv /\ CountInv' /\ OrderInv /\ [Next]_vars => OrderInv'
<1> SUFFICES ASSUME CountInv, CountInv', OrderInv, [Next]_vars, ~degraded' PROVE Order'
  BY DEF OrderInv
<1>1. ~degraded
  BY DEF Next, TakeCommand, Flush, FlushFails, Process, TakeSnapshot, SnapshotFails, Rotate,
         RotateFails, CloseChannel, FinalFlush, Crash, Restart, ReplayFrom, Replayed, RunWith,
         history, vars
<1>2. Order
  BY <1>1 DEF OrderInv
<1>3. command_seq = Len(applied)
  BY DEF CountInv, SequenceCountsCommands
<1>4. ASSUME stage = "snapshot", stage' # "down" => stage' \in {"idle", "rotate"},
             \A f \in snapshots' : f \in snapshots
                 \/ \E data \in {applied, Unreadable} : f \in WithSnapshot(data)
      PROVE  /\ InFlight = 0 /\ InFlight' = 0
             /\ \A f \in snapshots' : f.data # Unreadable =>
                   \/ f \in snapshots
                   \/ f.sequence = Len(applied) /\ f.data = applied /\ InFlight = 0
  <2>1. InFlight = 0 /\ InFlight' = 0
    BY <1>4 DEF InFlight
  <2> QED BY <1>3, <1>4, <2>1, SnapshotsFrom
<1>5. CASE Flush \/ FlushFails \/ Rotate \/ RotateFails \/ FinalFlush
  <2>1. Shortened(Journal, Journal')
    BY <1>5, JournalShortens DEF Writes
  <2>2. UNCHANGED <<applied, taken, snapshots>>
    BY <1>5 DEF Flush, FlushFails, Rotate, RotateFails, FinalFlush, memory, history
  <2>3. stage # "down" /\ InFlight' <= InFlight /\ (stage' # "down" => InFlight' = InFlight)
    BY <1>5 DEF Flush, FlushFails, Rotate, RotateFails, FinalFlush, InFlight
  <2> QED BY <1>2, <2>1, <2>2, <2>3, OrderKept
<1>6. CASE Crash
  <2>1. Shortened(Journal, Journal')
    BY <1>6, JournalShortens DEF Writes
  <2>2. UNCHANGED <<applied, taken>> /\ stage # "down" /\ stage' = "down"
    BY <1>6 DEF Crash, memory
  <2>3. InFlight' <= InFlight
    BY <2>2 DEF InFlight
  <2>4. CASE UNCHANGED snapshots
    BY <1>2, <2>1, <2>2, <2>3, <2>4, OrderKept
  <2>5. CASE stage = "snapshot" /\ snapshots' \in CutSave
    <3>1. \A f \in snapshots' : f \in snapshots
             \/ \E data \in {applied, Unreadable} : f \in WithSnapshot(data)
      BY <2>5 DEF CutSave
    <3> QED BY <1>2, <1>4, <2>1, <2>2, <2>3, <2>5, <3>1, OrderKept
  <2> QED BY <1>6, <2>4, <2>5 DEF Crash
<1>7. CASE TakeSnapshot \/ SnapshotFails
  <2>1. /\ UNCHANGED <<applied, taken, file, batch>> /\ stage = "snapshot"
        /\ stage' \in {"idle", "rotate"}
    BY <1>7 DEF TakeSnapshot, SnapshotFails, AfterSnapshot, memory, history
  <2>2. \A f \in snapshots' : f \in snapshots
           \/ \E data \in {applied, Unreadable} : f \in WithSnapshot(data)
    BY <1>7 DEF TakeSnapshot, SnapshotFails, Newest, CutSave
  <2>3. Shortened(Journal, Journal')
    BY <2>1, JournalStays
  <2> QED BY <1>2, <1>4, <2>1, <2>2, <2>3, OrderKept
<1>8. CASE CloseChannel
  <2>1. /\ UNCHANGED <<applied, taken, file, batch, snapshots>>
        /\ stage = "idle" /\ stage' = "closing"
    BY <1>8 DEF CloseChannel, memory, disk, history
  <2>2. Shortened(Journal, Journal')
    BY <2>1, JournalStays
  <2>3. InFlight = 0 /\ InFlight' = 0
    BY <2>1 DEF InFlight
  <2> QED BY <1>2, <2>1, <2>2, <2>3, OrderKept
<1>9. CASE UNCHANGED vars
  <2>1. Journal' = Journal /\ InFlight' = InFlight /\ Readable' = Readable
    BY <1>9 DEF vars, memory, disk, Journal, Pending, InFlight, Readable
  <2> QED BY <1>2, <1>9, <2>1
          DEF Order, Ordered, FramesOrdered, FramesTaken, Fits, Later, vars, memory, history
<1> QED BY <1>2, <1>5, <1>6, <1>7, <1>8, <1>9, OrderTake, OrderProcess, OrderRestart DEF Next

\* However crashes, torn writes, I/O errors, snapshots and rotations interleave, an engine that
\* never went on after a failed restore has applied its commands in the order they were taken,
\* none of them twice.
THEOREM OrderRecovered == Spec => []ReplayInOrder
<1>1. Init => CountInv /\ OrderInv
  BY CountInit, OrderInit
<1>2. CountInv /\ OrderInv /\ [Next]_vars => CountInv' /\ OrderInv'
  BY CountStep, OrderStep
<1>3. OrderInv => ReplayInOrder
  BY DEF OrderInv, Order, ReplayInOrder
<1> QED BY <1>1, <1>2, <1>3, PTL DEF Spec

-----------------------------------------------------------------------------
(* The types *)

\* Every command is in the journal once at most, so neither the journal nor what the engine
\* replays or applies is longer than the number of commands taken, and a snapshot's number,
\* which is such a length, is not larger.
Bounded ==
    /\ Len(Journal) <= taken
    /\ Len(applied) + InFlight <= taken
    /\ stage = "snapshot" => Len(applied) > 0
    /\ stage = "closing" => crashes < MaxCrashes
    /\ \A f \in snapshots : f.sequence \in 1 .. taken

TypeInv == CountInv /\ Bounded /\ TypeOK

\* The commands in the journal and in its batch are commands that were taken.
LEMMA JournalCmds ==
    ASSUME TypeInv
    PROVE  \A i \in 1 .. Len(Journal) : Journal[i].cmd \in Cmds
<1>1. /\ file \in Seq(Frames) /\ batch \in Seq(Cmds) /\ Shape
      /\ Pending \in Seq(Cmds)
  BY DEF TypeInv, TypeOK, CountInv, Pending
<1>2. /\ Len(Journal) = Len(file) + Len(Pending)
      /\ \A i \in 1 .. Len(file) : Journal[i] = file[i]
      /\ \A i \in 1 .. Len(Pending) : Journal[Len(file) + i].cmd = Pending[i]
  BY <1>1, JournalFrames
<1>3. Len(file) \in Nat /\ Len(Pending) \in Nat
  BY <1>1
<1> SUFFICES ASSUME NEW i \in 1 .. Len(Journal) PROVE Journal[i].cmd \in Cmds
  OBVIOUS
<1>4. CASE i <= Len(file)
  <2>1. i \in 1 .. Len(file) /\ file[i] \in Frames
    BY <1>1, <1>2, <1>3, <1>4, ElementOfSeq
  <2> QED BY <1>2, <2>1 DEF Frames
<1>5. CASE i > Len(file)
  <2>1. PICK k \in 1 .. Len(Pending) : i = Len(file) + k
    <3>1. i - Len(file) \in 1 .. Len(Pending) /\ i = Len(file) + (i - Len(file))
      BY <1>2, <1>3, <1>5
    <3> QED BY <3>1
  <2>2. Pending[k] \in Cmds
    BY <1>1, <2>1, ElementOfSeq
  <2> QED BY <1>2, <2>1, <2>2
<1> QED BY <1>2, <1>3, <1>4, <1>5

\* Frames of taken commands.
LEMMA FramesType ==
    ASSUME NEW fl \in Seq(NumberedFrames), \A i \in 1 .. Len(fl) : fl[i].cmd \in Cmds
    PROVE  fl \in Seq(Frames)
<1>1. ASSUME NEW i \in 1 .. Len(fl) PROVE fl[i] \in Frames
  <2>1. fl[i] \in NumberedFrames
    BY ElementOfSeq
  <2> QED BY <2>1 DEF NumberedFrames, Frames
<1>2. Len(fl) \in Nat /\ DOMAIN fl = 1 .. Len(fl) /\ fl = [i \in 1 .. Len(fl) |-> fl[i]]
  OBVIOUS
<1>3. fl \in [1 .. Len(fl) -> Frames]
  BY <1>1, <1>2
<1> QED BY <1>2, <1>3, SeqDef

\* What is stored in a rotated file are taken commands too.
LEMMA StoreArchives ==
    ASSUME TypeInv, NEW n \in 0 .. Len(batch), NEW frames \in CutAfter(n), Store(frames)
    PROVE  archived' \subseteq Cmds
<1>1. /\ batch \in Seq(Cmds) /\ batch \in Seq(Nat) /\ archived \subseteq Cmds /\ Len(batch) \in Nat
  BY DEF TypeInv, TypeOK, CountInv, Shape
<1>2. /\ Len(frames) \in Nat /\ Len(frames) <= Len(batch)
      /\ \A i \in 1 .. Len(frames) : frames[i].cmd = batch[i]
  BY <1>1, CutFrames
<1>3. Complete(frames) \subseteq Cmds
  <2>1. ASSUME NEW i \in 1 .. Len(frames) PROVE frames[i].cmd \in Cmds
    <3>1. i \in 1 .. Len(batch)
      BY <1>1, <1>2
    <3> QED BY <1>1, <1>2, <3>1, ElementOfSeq
  <2> QED BY <2>1 DEF Complete
<1> QED BY <1>1, <1>3 DEF Store

\* The commands of a whole batch are those that a complete write leaves.
LEMMA CompleteTaken ==
    ASSUME TypeInv
    PROVE  Complete(file) \subseteq Cmds /\ Complete(Written(batch)) \subseteq Cmds
<1>1. file \in Seq(Frames) /\ batch \in Seq(Cmds) /\ batch \in Seq(Nat) /\ Len(batch) \in Nat
  BY DEF TypeInv, TypeOK, CountInv, Shape
<1>2. ASSUME NEW i \in 1 .. Len(file) PROVE file[i].cmd \in Cmds
  <2>1. file[i] \in Frames
    BY <1>1, ElementOfSeq
  <2> QED BY <2>1 DEF Frames
<1>3. /\ Written(batch) \in CutAfter(Len(batch)) /\ Len(batch) \in 0 .. Len(batch)
  BY <1>1, WholeBatch
<1>4. /\ Len(Written(batch)) \in Nat /\ Len(Written(batch)) <= Len(batch)
      /\ \A i \in 1 .. Len(Written(batch)) : Written(batch)[i].cmd = batch[i]
  BY <1>1, <1>3, CutFrames
<1>5. ASSUME NEW i \in 1 .. Len(Written(batch)) PROVE Written(batch)[i].cmd \in Cmds
  <2>1. i \in 1 .. Len(batch)
    BY <1>1, <1>4
  <2> QED BY <1>1, <1>4, <2>1, ElementOfSeq
<1> QED BY <1>2, <1>5 DEF Complete

\* What a step that writes does to the journal's part of the state.
LEMMA WritesType ==
    ASSUME TypeInv, Writes
    PROVE  /\ file' \in Seq(Frames) /\ Len(file') <= Len(Journal)
           /\ archived' \subseteq Cmds
           /\ batch' \in Seq(Cmds) /\ since' \in Nat /\ attached' \in BOOLEAN
<1>1. /\ batch \in Seq(Cmds) /\ batch \in Seq(Nat) /\ since \in Nat /\ attached \in BOOLEAN /\ archived \subseteq Cmds
      /\ Len(batch) \in Nat /\ <<>> \in Seq(Cmds) /\ Shape
  BY DEF TypeInv, TypeOK, CountInv, Shape
<1>2. file' \in Seq(Frames) /\ Len(file') <= Len(Journal)
  <2>1. file' \in Seq(NumberedFrames) /\ Shortened(Journal, file')
    BY <1>1, WritesShorten
  <2>2. Journal \in Seq(NumberedFrames)
    BY <1>1, JournalIsSeq
  <2>3. Len(file') \in Nat /\ Len(Journal) \in Nat /\ Len(file') <= Len(Journal)
    BY <2>1, <2>2 DEF Shortened
  <2>4. \A i \in 1 .. Len(file') : file'[i].cmd \in Cmds
    BY <2>1, <2>3, JournalCmds DEF Shortened
  <2> QED BY <2>1, <2>3, <2>4, FramesType
<1>3. ASSUME Store(Written(batch)) PROVE archived' \subseteq Cmds
  BY <1>1, <1>3, WholeBatch, StoreArchives
<1>4. ASSUME WriteBatch PROVE archived' \subseteq Cmds /\ batch' = <<>> /\ since' \in Nat
  BY <1>1, <1>3, <1>4 DEF WriteBatch
<1>5. ASSUME WriteBatchFails PROVE archived' \subseteq Cmds /\ batch' = <<>> /\ since' \in Nat
  <2>1. PICK n \in 0 .. (Len(batch) - 1) :
           (\E frames \in CutAfter(n) : Store(frames)) /\ since' = since + n
    BY <1>5 DEF WriteBatchFails
  <2>2. n \in 0 .. Len(batch) /\ since' \in Nat
    BY <1>1, <2>1
  <2>3. archived' \subseteq Cmds
    BY <2>1, <2>2, StoreArchives
  <2> QED BY <1>5, <2>2, <2>3 DEF WriteBatchFails
<1>6. ASSUME Renamed PROVE archived' \subseteq Cmds /\ batch' = <<>>
  BY <1>1, <1>6, CompleteTaken DEF Renamed
<1>7. CASE Flush \/ FlushFails
  BY <1>1, <1>2, <1>4, <1>5, <1>7 DEF Flush, FlushFails
<1>8. CASE Rotate
  BY <1>1, <1>2, <1>6, <1>8 DEF Rotate
<1>9. CASE RotateFails
  <2>1. \/ WriteBatchFails /\ attached' = attached
        \/ WriteBatch /\ attached' = attached
        \/ Renamed /\ since' = since + Len(batch) /\ attached' = FALSE
    BY <1>9 DEF RotateFails
  <2>2. attached' \in BOOLEAN
    BY <1>1, <2>1, Zenon
  <2>3. archived' \subseteq Cmds /\ batch' = <<>> /\ since' \in Nat
    BY <1>1, <1>4, <1>5, <1>6, <2>1
  <2> QED BY <1>1, <1>2, <2>2, <2>3
<1>10. CASE FinalFlush
  BY <1>1, <1>2, <1>3, <1>10 DEF FinalFlush, memory
<1>11. CASE Crash
  <2>1. UNCHANGED <<batch, since, attached>>
    BY <1>11 DEF Crash, memory
  <2>2. archived' \subseteq Cmds
    <3>1. CASE UNCHANGED <<file, archived>>
      BY <1>1, <3>1
    <3>2. CASE \E n \in 0 .. Len(batch) : \E frames \in CutAfter(n) : Store(frames)
      BY <3>2, StoreArchives
    <3> QED BY <1>11, <3>1, <3>2 DEF Crash
  <2> QED BY <1>1, <1>2, <2>1, <2>2
<1> QED BY <1>7, <1>8, <1>9, <1>10, <1>11 DEF Writes

\* The larger of two numbers is one of them.
LEMMA MaxOfTwo ==
    ASSUME NEW a \in Int, NEW b \in Int
    PROVE  Max({a, b}) \in {a, b} /\ Max({a, b}) >= a /\ Max({a, b}) >= b
<1>1. \E x \in {a, b} : \A y \in {a, b} : x >= y
  OBVIOUS
<1> QED BY <1>1 DEF Max

\* Replaying taken commands consumes a number of sequence numbers.
LEMMA ConsumedType ==
    ASSUME NEW cmds \in Seq(Cmds)
    PROVE  Consumed(cmds) \in Nat
<1> DEFINE w == [i \in 1 .. Len(cmds) |-> ReplayEvents[cmds[i]]]
<1>1. ReplayEvents \in [Cmds -> Nat] /\ Len(cmds) \in Nat
  BY RecoveryAssumption DEF Cmds
<1>2. ASSUME NEW i \in 1 .. Len(cmds) PROVE ReplayEvents[cmds[i]] \in Nat
  <2>1. cmds[i] \in Cmds
    BY ElementOfSeq
  <2> QED BY <1>1, <2>1
<1>3. w \in [1 .. Len(cmds) -> Nat]
  BY <1>2
<1>4. IsFiniteSet(1 .. Len(cmds))
  BY <1>1, FS_Interval
<1>5. Consumed(cmds) = SumFunction(w)
  BY DEF Consumed
<1> HIDE DEF w
<1> QED BY <1>3, <1>4, <1>5, SumAtLeast

\* A snapshot file holds the engine's state, or nothing readable, under the number of
\* commands the engine applied.
LEMMA SnapshotsType ==
    ASSUME TypeInv, stage = "snapshot", NEW data, data = applied \/ data = Unreadable,
           NEW f \in WithSnapshot(data)
    PROVE  f \in SnapshotFiles /\ f.sequence \in 1 .. taken
<1>1. /\ snapshots \subseteq SnapshotFiles /\ command_seq = Len(applied) /\ applied \in Seq(Cmds)
      /\ taken \in 0 .. MaxCmds /\ MaxCmds \in Nat /\ Len(applied) > 0 /\ Len(applied) <= taken
      /\ \A g \in snapshots : g.sequence \in 1 .. taken
  BY RecoveryAssumption
     DEF TypeInv, TypeOK, Bounded, CountInv, SequenceCountsCommands, InFlight
<1>2. f \in snapshots \/ f = [sequence |-> command_seq, data |-> data]
  BY DEF WithSnapshot
<1>3. CASE f \in snapshots
  BY <1>1, <1>3
<1>4. CASE f = [sequence |-> command_seq, data |-> data]
  <2>1. command_seq \in 1 .. taken /\ command_seq \in 1 .. MaxCmds
    BY <1>1
  <2>2. data \in Seq(Cmds) \cup {Unreadable}
    BY <1>1
  <2> QED BY <1>4, <2>1, <2>2 DEF SnapshotFiles
<1> QED BY <1>2, <1>3, <1>4

\* What a restart brings up is made of taken commands and not longer than their number.
LEMMA RestartType ==
    ASSUME TypeInv, Restart
    PROVE  /\ applied' \in Seq(Cmds) /\ Len(applied') <= taken
           /\ command_seq' \in Nat /\ server_seq' \in Nat /\ degraded' \in BOOLEAN
<1>1. /\ snapshots \subseteq SnapshotFiles /\ file \in Seq(Frames) /\ Len(file) \in Nat
      /\ taken \in Nat /\ degraded \in BOOLEAN /\ CountInv
      /\ \A g \in snapshots : g.sequence \in 1 .. taken
  BY DEF TypeInv, TypeOK, Bounded, CountInv, Shape
<1>2. Len(file) <= taken
  <2>1. stage = "down"
    BY DEF Restart
  <2>2. Pending = <<>>
    BY <2>1 DEF Pending
  <2>3. Journal = file
    BY <1>1, <2>2, JournalWithoutBatch DEF CountInv
  <2> QED BY <2>3 DEF TypeInv, Bounded
<1>3. PICK n \in 0 .. Len(file), seq \in Nat, base \in Seq(Nat) :
         /\ seq = Len(base)
         /\ base = <<>> \/ \E f \in Readable : seq = f.sequence /\ base = f.data
         /\ ReplayFrom(n, seq, base) \/ RunWith(seq, base)
  BY <1>1, RestartFrom
<1>4. base \in Seq(Cmds) /\ seq <= taken
  <2>1. CASE base = <<>>
    BY <1>1, <1>3, <2>1
  <2>2. ASSUME NEW f \in Readable, seq = f.sequence, base = f.data
        PROVE  base \in Seq(Cmds) /\ seq <= taken
    <3>1. f \in SnapshotFiles /\ f.data # Unreadable /\ f.sequence \in 1 .. taken
      BY <1>1 DEF Readable
    <3> QED BY <2>2, <3>1, <1>1 DEF SnapshotFiles
  <2> QED BY <1>3, <2>1, <2>2
<1>5. CASE RunWith(seq, base)
  BY <1>1, <1>3, <1>4, <1>5 DEF RunWith
<1>6. CASE ReplayFrom(n, seq, base)
  <2> DEFINE delta == [i \in 1 .. (n - seq) |-> file[seq + i].cmd]
             d == IF n > seq THEN n - seq ELSE 0
  <2>1. /\ d \in Nat /\ 1 .. (n - seq) = 1 .. d /\ \A i \in 1 .. d : seq + i \in 1 .. Len(file)
    BY <1>1
  <2> HIDE DEF d
  <2>2. ASSUME NEW i \in 1 .. d PROVE file[seq + i].cmd \in Cmds
    <3>1. file[seq + i] \in Frames
      BY <1>1, <2>1, ElementOfSeq
    <3> QED BY <3>1 DEF Frames
  <2>3. delta \in [1 .. d -> Cmds]
    BY <2>1, <2>2
  <2>4. delta \in Seq(Cmds)
    BY <2>1, <2>3, SeqDef
  <2>5. /\ applied' = base \o delta /\ command_seq' = seq + Len(delta)
        /\ server_seq' = seq + 1 + Consumed(delta) /\ degraded' = degraded
    BY <1>6 DEF ReplayFrom, Replayed
  <2> HIDE DEF delta
  <2>6. Consumed(delta) \in Nat /\ Len(delta) \in Nat /\ applied' \in Seq(Cmds)
    BY <1>4, <2>4, <2>5, ConsumedType, ConcatProperties
  <2>7. Len(applied') = IF n > seq THEN n ELSE seq
    BY <1>1, <1>3, <1>6, ReplayCounts
  <2>8. Len(applied') <= taken
    BY <1>1, <1>2, <1>4, <2>7
  <2>9. degraded' \in BOOLEAN
    BY <1>1, <2>5
  <2> QED BY <2>5, <2>6, <2>8, <2>9
<1> QED BY <1>3, <1>5, <1>6

\* The first start satisfies the type invariant.
LEMMA TypesInit == Init => TypeInv
<1> SUFFICES ASSUME Init PROVE TypeInv
  OBVIOUS
<1>1. CountInv
  BY CountInit
<1>2. /\ stage = "idle" /\ applied = <<>> /\ command_seq = 0 /\ server_seq = 1
      /\ batch = <<>> /\ since = 0 /\ attached = TRUE
      /\ file = <<>> /\ snapshots = {} /\ archived = {}
      /\ taken = 0 /\ sent = 0 /\ degraded = FALSE /\ crashes = 0
  BY DEF Init
<1>3. TypeOK
  <2>1. /\ <<>> \in Seq(Cmds) /\ <<>> \in Seq(Frames) /\ MaxCmds \in Nat /\ MaxCrashes \in Nat
        /\ 0 \in 0 .. MaxCmds /\ 0 \in 0 .. MaxCrashes
    BY RecoveryAssumption
  <2>2. attached \in BOOLEAN /\ degraded \in BOOLEAN
    BY <1>2
  <2> QED BY <1>2, <2>1, <2>2 DEF TypeOK
<1>4. InFlight = 0 /\ Pending = <<>>
  BY <1>2 DEF InFlight, Pending
<1>5. Journal = file
  BY <1>1, <1>4, JournalWithoutBatch DEF CountInv
<1>6. Len(Journal) = 0 /\ Len(applied) = 0
  BY <1>2, <1>5
<1>7. Bounded
  BY <1>2, <1>4, <1>6 DEF Bounded
<1> QED BY <1>1, <1>3, <1>7 DEF TypeInv

\* Every step keeps it: a command is put into the batch once and applied once, frames only get
\* lost, and what a restart replays is no longer than the journal or the snapshot.
LEMMA TypesStep == TypeInv /\ [Next]_vars => TypeInv'
<1> SUFFICES ASSUME TypeInv, [Next]_vars PROVE TypeInv'
  OBVIOUS
<1>0. CountInv /\ CountInv'
  BY CountStep DEF TypeInv
<1>1. /\ stage \in {"idle", "flush", "process", "snapshot", "rotate", "closing", "down"}
      /\ applied \in Seq(Cmds) /\ Len(applied) \in Nat
      /\ command_seq \in Nat /\ server_seq \in Nat
      /\ batch \in Seq(Cmds) /\ since \in Nat /\ attached \in BOOLEAN
      /\ file \in Seq(Frames) /\ snapshots \subseteq SnapshotFiles /\ archived \subseteq Cmds
      /\ taken \in 0 .. MaxCmds /\ taken \in Nat /\ MaxCmds \in Nat
      /\ sent \in Nat /\ degraded \in BOOLEAN /\ crashes \in 0 .. MaxCrashes /\ MaxCrashes \in Nat
  BY RecoveryAssumption DEF TypeInv, TypeOK
<1>2. /\ Len(Journal) <= taken /\ Len(Journal) \in Nat
      /\ Len(applied) + InFlight <= taken /\ InFlight \in {0, 1}
      /\ stage = "snapshot" => Len(applied) > 0
      /\ stage = "closing" => crashes < MaxCrashes
      /\ \A f \in snapshots : f.sequence \in 1 .. taken
  BY <1>0, JournalIsSeq DEF TypeInv, Bounded, InFlight, CountInv
<1>3. (Shape /\ Pending = <<>> => Journal = file)'
  BY JournalWithoutBatch, PTL
<1>4. CASE TakeCommand
  <2>1. /\ stage = "idle" /\ stage' \in {"flush", "process"} /\ taken' = taken + 1 /\ taken' <= MaxCmds
        /\ batch' = Append(batch, taken + 1)
        /\ UNCHANGED <<applied, command_seq, server_seq, since, attached, file, snapshots, archived,
                       sent, degraded, crashes>>
    BY <1>1, <1>4 DEF TakeCommand, disk
  <2>2. taken + 1 \in Cmds
    BY <1>1, <2>1 DEF Cmds
  <2>3. batch' \in Seq(Cmds) /\ Len(batch') = Len(batch) + 1 /\ Len(batch) \in Nat
    BY <1>1, <2>1, <2>2
  <2>4. TypeOK'
    BY <1>1, <2>1, <2>3 DEF TypeOK
  <2>5. InFlight = 0 /\ InFlight' = 1 /\ Pending = batch /\ Pending' = batch'
    BY <2>1 DEF InFlight, Pending
  <2>6. Len(Journal) = Len(file) + Len(batch) /\ Len(file) \in Nat
    BY <1>0, <1>1, <2>5, JournalFrames DEF CountInv
  <2>7. Len(Journal') = Len(file) + Len(batch')
    <3>1. (Shape => Journal \in Seq(NumberedFrames))'
      BY JournalIsSeq, PTL
    <3>2. Journal' \in Seq(NumberedFrames)
      BY <1>0, <3>1 DEF CountInv
    <3>3. DOMAIN Journal' = 1 .. (Len(file) + Len(batch'))
      BY <2>1, <2>5 DEF Journal
    <3>4. DOMAIN Journal' = 1 .. Len(Journal') /\ Len(Journal') \in Nat
      BY <3>2, LenProperties
    <3> QED BY <2>3, <2>6, <3>3, <3>4
  <2>8. Bounded'
    <3>1. Len(Journal') <= taken' /\ Len(applied') + InFlight' <= taken'
      BY <1>1, <1>2, <2>1, <2>3, <2>5, <2>6, <2>7
    <3>2. \A f \in snapshots' : f.sequence \in 1 .. taken'
      BY <1>1, <1>2, <2>1
    <3> QED BY <2>1, <3>1, <3>2 DEF Bounded
  <2> QED BY <1>0, <2>4, <2>8 DEF TypeInv
<1>5. ASSUME Writes, snapshots' \subseteq SnapshotFiles, \A f \in snapshots' : f.sequence \in 1 .. taken
      PROVE  TypeInv'
  <2>1. /\ file' \in Seq(Frames) /\ Len(file') <= Len(Journal) /\ archived' \subseteq Cmds
        /\ batch' \in Seq(Cmds) /\ since' \in Nat /\ attached' \in BOOLEAN
    BY <1>5, WritesType
  <2>2. /\ UNCHANGED <<applied, command_seq, server_seq, taken, sent, degraded>>
        /\ stage' \in {"process", "idle", "down"} /\ (stage' = "process" => stage = "flush")
        /\ crashes' \in {crashes, crashes + 1}
    BY <1>5 DEF Writes, Flush, FlushFails, Rotate, RotateFails, FinalFlush, Crash, memory, history
  <2>3. crashes' \in 0 .. MaxCrashes
    <3>1. CASE FinalFlush
      BY <1>1, <1>2, <3>1 DEF FinalFlush
    <3>2. CASE Crash
      BY <1>1, <3>2 DEF Crash
    <3>3. CASE Flush \/ FlushFails \/ Rotate \/ RotateFails
      BY <1>1, <3>3 DEF Flush, FlushFails, Rotate, RotateFails, history
    <3> QED BY <1>5, <3>1, <3>2, <3>3 DEF Writes
  <2>4. TypeOK'
    <3>1. attached' \in BOOLEAN /\ degraded' \in BOOLEAN
      BY <1>1, <2>1, <2>2
    <3> QED BY <1>1, <1>5, <2>1, <2>2, <2>3, <3>1 DEF TypeOK
  <2>5. Journal' = file'
    <3>1. stage' # "down" => batch' = <<>>
      BY <1>0, <1>5, WritesShorten DEF CountInv
    <3>2. (Pending = <<>>)'
      BY <3>1 DEF Pending
    <3> QED BY <1>0, <1>3, <3>2 DEF CountInv
  <2>6. InFlight' <= InFlight /\ InFlight' \in {0, 1}
    BY <2>2 DEF InFlight
  <2>7. Len(Journal') \in Nat
    BY <2>1, <2>5
  <2>8. Bounded'
    BY <1>1, <1>2, <1>5, <2>1, <2>2, <2>5, <2>6, <2>7 DEF Bounded
  <2> QED BY <1>0, <2>4, <2>8 DEF TypeInv
<1>6. CASE Process
  <2>1. /\ stage = "process" /\ stage' \in {"idle", "snapshot", "rotate"}
        /\ applied' = Append(applied, taken) /\ command_seq' = command_seq + 1
        /\ server_seq' = server_seq + Events[taken]
        /\ sent' = IF Events[taken] = 0 THEN sent ELSE Max({sent, server_seq + Events[taken] - 1})
        /\ UNCHANGED <<batch, since, attached, file, snapshots, archived, taken, degraded, crashes>>
    BY <1>6 DEF Process, AfterProcess, AfterSnapshot, disk
  <2>2. InFlight = 1 /\ InFlight' = 0 /\ stage # "down" /\ stage' # "down"
    BY <2>1 DEF InFlight
  <2>3. taken \in Cmds
    BY <1>1, <1>2, <2>2 DEF Cmds
  <2>4. applied' \in Seq(Cmds) /\ Len(applied') = Len(applied) + 1
    BY <1>1, <2>1, <2>3
  <2>5. Events[taken] \in Nat
    BY <2>3, RecoveryAssumption DEF Cmds
  <2>6. server_seq' \in Nat /\ command_seq' \in Nat
    BY <1>1, <2>1, <2>5
  <2>7. sent' \in Nat
    <3>1. CASE Events[taken] = 0
      BY <1>1, <2>1, <3>1
    <3>2. CASE Events[taken] # 0
      <4>1. server_seq + Events[taken] - 1 \in Nat /\ sent \in Int
        BY <1>1, <2>5, <3>2
      <4>2. PICK b \in Nat : b = server_seq + Events[taken] - 1
        BY <4>1
      <4>3. b \in Int /\ sent \in Int
        BY <4>1
      <4>4. Max({sent, b}) \in {sent, b}
        BY <4>3, MaxOfTwo, Zenon
      <4> QED BY <1>1, <2>1, <3>2, <4>2, <4>4
    <3> QED BY <3>1, <3>2
  <2>8. TypeOK'
    <3>1. attached' \in BOOLEAN /\ degraded' \in BOOLEAN
      BY <1>1, <2>1
    <3> QED BY <1>1, <2>1, <2>4, <2>6, <2>7, <3>1 DEF TypeOK
  <2>9. Journal' = Journal
    BY <1>0, <2>1, <2>2, JournalStays
  <2>10. Bounded'
    BY <1>1, <1>2, <2>1, <2>2, <2>4, <2>9 DEF Bounded
  <2> QED BY <1>0, <2>8, <2>10 DEF TypeInv
<1>7. CASE TakeSnapshot \/ SnapshotFails \/ CloseChannel
  <2>1. /\ stage \in {"snapshot", "idle"} /\ stage' \in {"idle", "rotate", "closing"}
        /\ stage' = "closing" => crashes < MaxCrashes
        /\ UNCHANGED <<applied, command_seq, server_seq, batch, since, attached, file, archived,
                       taken, sent, degraded, crashes>>
    BY <1>7 DEF TakeSnapshot, SnapshotFails, CloseChannel, AfterSnapshot, memory, disk, history
  <2>2. snapshots' \subseteq SnapshotFiles /\ \A f \in snapshots' : f.sequence \in 1 .. taken
    <3>1. CASE CloseChannel
      BY <1>1, <1>2, <3>1 DEF CloseChannel, disk
    <3>2. CASE TakeSnapshot
      <4>1. stage = "snapshot" /\ snapshots' \subseteq WithSnapshot(applied)
        BY <3>2 DEF TakeSnapshot, Newest
      <4> QED BY <4>1, SnapshotsType
    <3>3. CASE SnapshotFails
      <4>1. stage = "snapshot" /\ snapshots' \in CutSave
        BY <3>3 DEF SnapshotFails
      <4> QED BY <1>1, <1>2, <4>1, SnapshotsType DEF CutSave
    <3> QED BY <1>7, <3>1, <3>2, <3>3
  <2>3. TypeOK'
    <3>1. attached' \in BOOLEAN /\ degraded' \in BOOLEAN
      BY <1>1, <2>1
    <3> QED BY <1>1, <2>1, <2>2, <3>1 DEF TypeOK
  <2>4. Journal' = Journal
    <3>1. stage # "down" /\ stage' # "down"
      BY <2>1
    <3> QED BY <1>0, <2>1, <3>1, JournalStays
  <2>5. InFlight = 0 /\ InFlight' = 0
    BY <2>1 DEF InFlight
  <2>6. Bounded'
    BY <1>1, <1>2, <2>1, <2>2, <2>4, <2>5 DEF Bounded
  <2> QED BY <1>0, <2>3, <2>6 DEF TypeInv
<1>8. CASE Restart
  <2>1. /\ stage = "down" /\ stage' = "idle" /\ batch' = <<>> /\ since' = 0 /\ attached' = TRUE
        /\ UNCHANGED <<file, snapshots, archived, taken, sent, crashes>>
    BY <1>8 DEF Restart, disk
  <2>2. /\ applied' \in Seq(Cmds) /\ Len(applied') <= taken
        /\ command_seq' \in Nat /\ server_seq' \in Nat /\ degraded' \in BOOLEAN
    BY <1>8, RestartType
  <2>3. TypeOK'
    <3>1. attached' \in BOOLEAN /\ <<>> \in Seq(Cmds)
      BY <2>1
    <3> QED BY <1>1, <2>1, <2>2, <3>1 DEF TypeOK
  <2>4. Pending = <<>> /\ Pending' = <<>> /\ InFlight' = 0
    BY <2>1 DEF Pending, InFlight
  <2>5. Journal = file /\ Journal' = file'
    BY <1>0, <1>3, <2>4, JournalWithoutBatch DEF CountInv
  <2>6. Len(applied') \in Nat
    BY <2>2
  <2>7. Bounded'
    BY <1>1, <1>2, <2>1, <2>2, <2>4, <2>5, <2>6 DEF Bounded
  <2> QED BY <1>0, <2>3, <2>7 DEF TypeInv
<1>9. CASE UNCHANGED vars
  <2>1. Journal' = Journal /\ InFlight' = InFlight
    BY <1>9 DEF vars, memory, disk, Journal, Pending, InFlight
  <2> QED BY <1>0, <1>9, <2>1 DEF TypeInv, Bounded, TypeOK, vars, memory, disk, history
<1>10. CASE Flush \/ FlushFails \/ Rotate \/ RotateFails \/ FinalFlush
  <2>1. Writes /\ snapshots' = snapshots
    BY <1>10 DEF Writes, Flush, FlushFails, Rotate, RotateFails, FinalFlush
  <2> QED BY <1>1, <1>2, <1>5, <2>1
<1>11. CASE Crash
  <2>1. snapshots' = snapshots \/ (stage = "snapshot" /\ snapshots' \in CutSave)
    BY <1>11 DEF Crash
  <2>2. snapshots' \subseteq SnapshotFiles /\ \A f \in snapshots' : f.sequence \in 1 .. taken
    BY <1>1, <1>2, <2>1, SnapshotsType DEF CutSave
  <2> QED BY <1>5, <1>11, <2>2 DEF Writes
<1> QED BY <1>4, <1>6, <1>7, <1>8, <1>9, <1>10, <1>11 DEF Next

\* Whatever is lost, torn or replayed, also after a restore that failed, what memory, journal,
\* snapshots and rotated files hold are commands that were taken, and a snapshot is numbered
\* by a count of commands between one and the number taken.
THEOREM RecoveryTypes == Spec => []TypeOK
<1>1. TypeInv => TypeOK
  BY DEF TypeInv
<1> QED BY <1>1, TypesInit, TypesStep, PTL DEF Spec

-----------------------------------------------------------------------------
(***************************************************************************)
(* What a restart brings back (RecoversJournal, LossBounded).  Both need   *)
(* an engine whose writes are not torn, whose journal is never rotated     *)
(* away, and which takes no snapshot ahead of its journal: it takes none,  *)
(* or writes every command before it applies it.  Without any one of these *)
(* TLC finds a command that was applied and journalled and that a restart  *)
(* loses.                                                                  *)
(***************************************************************************)
Intact ==
    /\ ~TornWrites /\ RotationThreshold = 0
    /\ SnapshotInterval = 0 \/ BatchSize <= 1

FullBatch == Max({BatchSize, 1})

\* Nothing is damaged, renamed or given up.
Undamaged ==
    /\ archived = {} /\ attached = TRUE /\ degraded = FALSE /\ stage # "rotate"
    /\ stage = "snapshot" => SnapshotInterval > 0
    /\ \A i \in 1 .. Len(file) : file[i].cut = "no"

\* A running engine has applied what journal and batch hold, except the command in flight.
InStep ==
    /\ Len(Journal) = Len(applied) + InFlight
    /\ \A i \in 1 .. Len(applied) : applied[i] = Journal[i].cmd
    /\ InFlight = 1 => Journal[Len(applied) + 1].cmd = taken
    /\ Len(batch) < FullBatch + (IF stage = "flush" THEN 1 ELSE 0)

\* A dead one had applied what its file holds, and less than a full batch that it does not hold.
Behindhand ==
    /\ Len(applied) < Len(file) + FullBatch
    /\ \A i \in 1 .. Len(file) : i <= Len(applied) => applied[i] = file[i].cmd

\* A snapshot has the state that the journal had led to.
SnapshotsInFile ==
    \A f \in snapshots :
        /\ f.data # Unreadable /\ f.sequence <= Len(file)
        /\ \A i \in 1 .. f.sequence : f.data[i] = file[i].cmd

KeptInv ==
    /\ Intact /\ TypeInv /\ Undamaged /\ SnapshotsInFile
    /\ IF stage = "down" THEN Behindhand ELSE InStep

\* A full batch has at least one command, and one if BatchSize is at most one.
LEMMA FullBatchSize ==
    /\ FullBatch \in Nat /\ FullBatch >= 1 /\ FullBatch >= BatchSize
    /\ BatchSize <= 1 => FullBatch = 1
<1>1. BatchSize \in Int /\ 1 \in Int
  BY RecoveryAssumption
<1>2. FullBatch \in {BatchSize, 1} /\ FullBatch >= BatchSize /\ FullBatch >= 1
  BY <1>1, MaxOfTwo, Zenon DEF FullBatch
<1> QED BY <1>1, <1>2, RecoveryAssumption

\* With nothing torn a write that is cut short leaves a first part of the batch.
LEMMA StoreWhole ==
    ASSUME Shape, stage # "down", ~TornWrites, attached = TRUE,
           NEW n \in 0 .. Len(batch), NEW frames \in CutAfter(n), Store(frames)
    PROVE  /\ archived' = archived /\ Len(file') = Len(file) + n
           /\ Len(Journal) = Len(file) + Len(batch)
           /\ \A i \in 1 .. Len(file') : file'[i].cmd = Journal[i].cmd
           /\ \A i \in 1 .. Len(file) : file'[i] = file[i]
           /\ \A i \in 1 .. Len(file') : i > Len(file) => file'[i].cut = "no"
<1>1. /\ file' = file \o frames /\ archived' = archived
  BY DEF Store
<1>2. frames = Written(SubSeq(batch, 1, n))
  BY DEF CutAfter
<1>3. /\ batch \in Seq(Nat) /\ Len(batch) \in Nat /\ Pending = batch
      /\ file \in Seq(NumberedFrames) /\ Len(file) \in Nat /\ n \in Nat
  BY DEF Shape, Pending
<1>4. /\ frames \in Seq(NumberedFrames) /\ Len(frames) <= Len(batch)
      /\ \A i \in 1 .. Len(frames) : frames[i].cmd = batch[i]
  BY <1>3, CutFrames
<1>5. Len(frames) = n /\ \A i \in 1 .. n : frames[i].cut = "no"
  <2>1. SubSeq(batch, 1, n) \in Seq(Nat) /\ Len(SubSeq(batch, 1, n)) = n
    BY <1>3, SubSeqProperties
  <2>2. frames = [i \in 1 .. n |-> Frame(SubSeq(batch, 1, n)[i])]
    BY <1>2, <2>1 DEF Written
  <2>3. DOMAIN frames = 1 .. Len(frames) /\ Len(frames) \in Nat
    BY <1>4, LenProperties
  <2>4. Len(frames) = n
    BY <1>3, <2>2, <2>3
  <2>5. ASSUME NEW i \in 1 .. n PROVE frames[i].cut = "no"
    BY <2>2 DEF Frame
  <2> QED BY <2>4, <2>5
<1>6. /\ Len(file') = Len(file) + n
      /\ \A i \in 1 .. Len(file') :
            file'[i] = IF i <= Len(file) THEN file[i] ELSE frames[i - Len(file)]
  <2>1. /\ Len(file \o frames) = Len(file) + Len(frames)
        /\ \A i \in 1 .. (Len(file) + Len(frames)) :
              (file \o frames)[i] = IF i <= Len(file) THEN file[i] ELSE frames[i - Len(file)]
    BY <1>3, <1>4, ConcatProperties
  <2> QED BY <1>1, <1>5, <2>1
<1>7. Len(Journal) = Len(file) + Len(batch)
  BY <1>3, JournalFrames
<1>8. \A i \in 1 .. Len(file') : file'[i].cmd = Journal[i].cmd
  <2>1. Shortened(Journal, file')
    BY StoreShortens
  <2> QED BY <2>1 DEF Shortened
<1>9. ASSUME NEW i \in 1 .. Len(file'), i > Len(file) PROVE file'[i].cut = "no"
  <2>1. PICK k \in 1 .. n : k = i - Len(file)
    BY <1>3, <1>6, <1>9, SMTT(30)
  <2>2. file'[i] = frames[k]
    BY <1>3, <1>6, <1>9, <2>1
  <2> QED BY <1>5, <2>2
<1>10. \A i \in 1 .. Len(file) : file'[i] = file[i]
  BY <1>3, <1>6
<1> QED BY <1>1, <1>6, <1>7, <1>8, <1>9, <1>10

\* What an undamaged restart brings up is exactly the file, with a snapshot or without.
LEMMA RestartWhole ==
    ASSUME KeptInv, Restart
    PROVE  /\ degraded' = FALSE /\ Len(applied') = Len(file)
           /\ \A i \in 1 .. Len(file) : applied'[i] = file[i].cmd
<1>1. /\ CountInv /\ Len(file) \in Nat /\ degraded = FALSE
      /\ \A i \in 1 .. Len(file) : file[i].cut = "no"
      /\ \A f \in snapshots :
            /\ f.data # Unreadable /\ f.sequence <= Len(file)
            /\ f.sequence \in Nat /\ f.data \in Seq(Nat) /\ f.sequence = Len(f.data)
            /\ \A i \in 1 .. f.sequence : f.data[i] = file[i].cmd
  BY DEF KeptInv, TypeInv, CountInv, Shape, SequenceCountsCommands, Undamaged, SnapshotsInFile
<1>2. ASSUME NEW n \in 0 .. Len(file), Reads(n)
      PROVE  n = Len(file) /\ ~ReadFails(n)
  <2>1. n < Len(file) => n + 1 \in 1 .. Len(file)
    BY <1>1
  <2> QED BY <1>1, <1>2, <2>1 DEF Reads, ReadFails
<1>3. PICK n \in 0 .. Len(file) :
         /\ Reads(n)
         /\ \/ ReplayFrom(n, 0, <<>>)
            \/ \E f \in snapshots : ReplayFrom(n, f.sequence, f.data)
  <2>1. PICK n \in 0 .. Len(file) :
           /\ Reads(n)
           /\ \/ snapshots = {} /\ ReadStops(n) /\ ReplayFrom(n, 0, <<>>)
              \/ snapshots = {} /\ ReadFails(n) /\ RunWith(0, <<>>)
              \/ \E f \in snapshots :
                    /\ IsLatest(f)
                    /\ \/ Loads(f) /\ ReadStops(n) /\ ReplayFrom(n, f.sequence, f.data)
                       \/ Loads(f) /\ ReadFails(n) /\ RunWith(f.sequence, f.data)
                       \/ ~Loads(f) /\ RunWith(0, <<>>)
    BY DEF Restart
  <2>2. ~ReadFails(n) /\ \A f \in snapshots : Loads(f)
    BY <1>1, <1>2, <2>1 DEF Loads
  <2> QED BY <2>1, <2>2
<1>4. n = Len(file)
  BY <1>2, <1>3
<1>5. ASSUME NEW seq \in Nat, NEW base \in Seq(Nat), seq = Len(base), seq <= Len(file),
             \A i \in 1 .. seq : base[i] = file[i].cmd, ReplayFrom(n, seq, base)
      PROVE  /\ degraded' = FALSE /\ Len(applied') = Len(file)
             /\ \A i \in 1 .. Len(file) : applied'[i] = file[i].cmd
  <2>1. /\ Len(applied') = IF n > seq THEN n ELSE seq
        /\ \A i \in 1 .. Len(applied') : applied'[i] = IF i <= seq THEN base[i] ELSE file[i].cmd
    BY <1>1, <1>5, ReplayCounts
  <2>2. Len(applied') = Len(file)
    BY <1>1, <1>4, <1>5, <2>1
  <2>3. ASSUME NEW i \in 1 .. Len(file) PROVE applied'[i] = file[i].cmd
    <3>1. CASE i <= seq
      BY <1>1, <1>5, <2>1, <2>2, <3>1
    <3>2. CASE ~(i <= seq)
      BY <1>1, <2>1, <2>2, <3>2
    <3> QED BY <3>1, <3>2
  <2>4. degraded' = FALSE
    BY <1>1, <1>5 DEF ReplayFrom, Replayed
  <2> QED BY <2>2, <2>3, <2>4
<1>6. CASE ReplayFrom(n, 0, <<>>)
  <2>1. <<>> \in Seq(Nat) /\ Len(<<>>) = 0 /\ 0 <= Len(file) /\ 1 .. 0 = {}
    BY <1>1
  <2> QED BY <1>5, <1>6, <2>1
<1>7. ASSUME NEW f \in snapshots, ReplayFrom(n, f.sequence, f.data)
      PROVE  /\ degraded' = FALSE /\ Len(applied') = Len(file)
             /\ \A i \in 1 .. Len(file) : applied'[i] = file[i].cmd
  BY <1>1, <1>5, <1>7
<1> QED BY <1>3, <1>6, <1>7

\* The first start.
LEMMA KeptInit == Intact /\ Init => KeptInv
<1> SUFFICES ASSUME Intact, Init PROVE KeptInv
  OBVIOUS
<1>1. /\ stage = "idle" /\ applied = <<>> /\ batch = <<>> /\ file = <<>> /\ snapshots = {}
      /\ archived = {} /\ attached = TRUE /\ degraded = FALSE
  BY DEF Init
<1>2. TypeInv
  BY TypesInit
<1>3. InFlight = 0 /\ Pending = <<>>
  BY <1>1 DEF InFlight, Pending
<1>4. Journal = file
  BY <1>2, <1>3, JournalWithoutBatch DEF TypeInv, CountInv
<1>5. Len(Journal) = 0 /\ Len(applied) = 0 /\ Len(batch) = 0 /\ Len(file) = 0
  BY <1>1, <1>4
<1>6. Undamaged /\ SnapshotsInFile
  BY <1>1, <1>5 DEF Undamaged, SnapshotsInFile
<1>7. InStep
  BY <1>1, <1>3, <1>5, FullBatchSize DEF InStep
<1> QED BY <1>1, <1>2, <1>6, <1>7 DEF KeptInv

\* Taking, applying and closing leave the file alone.
LEMMA KeptTake ==
    ASSUME KeptInv, TypeInv', TakeCommand
    PROVE  KeptInv'
<1>1. /\ stage = "idle" /\ stage' \in (IF BatchFull THEN {"flush"} ELSE {"flush", "process"})
      /\ taken' = taken + 1 /\ batch' = Append(batch, taken + 1)
      /\ UNCHANGED <<applied, file, snapshots, archived, attached, degraded>>
  BY DEF TakeCommand, disk
<1>2. /\ batch \in Seq(Nat) /\ Len(batch) \in Nat /\ Len(applied) \in Nat /\ taken \in Nat
      /\ BatchSize \in Nat /\ CountInv /\ CountInv'
  BY RecoveryAssumption DEF KeptInv, TypeInv, CountInv, Shape
<1>3. InFlight = 0 /\ InFlight' = 1 /\ stage' \in {"flush", "process"}
  BY <1>1 DEF InFlight
<1>4. /\ Len(Journal') = Len(Journal) + 1
      /\ \A i \in 1 .. Len(Journal) : Journal'[i].cmd = Journal[i].cmd
      /\ Journal'[Len(Journal) + 1].cmd = taken + 1
  BY <1>2, JournalGrows
<1>5. /\ Len(Journal) = Len(applied) /\ Len(batch) < FullBatch
      /\ \A i \in 1 .. Len(applied) : applied[i] = Journal[i].cmd
  BY <1>1, <1>2, <1>3, FullBatchSize DEF KeptInv, InStep
<1>6. Len(batch') = Len(batch) + 1
  BY <1>1, <1>2
<1>7. Len(batch') < FullBatch + (IF stage' = "flush" THEN 1 ELSE 0)
  BY <1>1, <1>2, <1>5, <1>6, FullBatchSize DEF BatchFull
<1>8. InStep'
  BY <1>1, <1>2, <1>3, <1>4, <1>5, <1>7 DEF InStep, FullBatch
<1>9. Undamaged' /\ SnapshotsInFile'
  BY <1>1, <1>3 DEF KeptInv, Undamaged, SnapshotsInFile
<1>10. Intact' /\ stage' # "down"
  BY <1>3 DEF KeptInv, Intact
<1> QED BY <1>8, <1>9, <1>10 DEF KeptInv

\* process applies the command that is last in the journal.
LEMMA KeptProcess ==
    ASSUME KeptInv, TypeInv', Process
    PROVE  KeptInv'
<1>1. /\ stage = "process" /\ applied' = Append(applied, taken)
      /\ UNCHANGED <<batch, file, snapshots, archived, attached, taken, degraded>>
  BY DEF Process, disk
<1>2. /\ applied \in Seq(Nat) /\ Len(applied) \in Nat /\ taken \in Nat /\ CountInv /\ Intact
  BY DEF KeptInv, TypeInv, CountInv, Shape
<1>3. stage' \in {"idle", "snapshot"} /\ (stage' = "snapshot" => SnapshotInterval > 0)
  BY <1>2 DEF Process, AfterProcess, AfterSnapshot, ShouldRotate, Intact
<1>4. InFlight = 1 /\ InFlight' = 0 /\ stage # "down" /\ stage' # "down" /\ stage # "flush"
  BY <1>1, <1>3 DEF InFlight
<1>5. Journal' = Journal
  BY <1>1, <1>2, <1>4, JournalStays
<1>6. /\ Len(Journal) = Len(applied) + 1 /\ Len(batch) < FullBatch + 0
      /\ \A i \in 1 .. Len(applied) : applied[i] = Journal[i].cmd
      /\ Journal[Len(applied) + 1].cmd = taken
  BY <1>4 DEF KeptInv, InStep
<1>7. /\ Len(applied') = Len(applied) + 1 /\ applied'[Len(applied) + 1] = taken
      /\ \A i \in 1 .. Len(applied) : applied'[i] = applied[i]
  BY <1>1, <1>2
<1>8. \A i \in 1 .. Len(applied') : applied'[i] = Journal[i].cmd
  BY <1>2, <1>6, <1>7
<1>9. InStep'
  BY <1>1, <1>2, <1>3, <1>4, <1>5, <1>6, <1>7, <1>8 DEF InStep, FullBatch
<1>10. Undamaged' /\ SnapshotsInFile'
  BY <1>1, <1>3 DEF KeptInv, Undamaged, SnapshotsInFile
<1> QED BY <1>2, <1>4, <1>9, <1>10 DEF KeptInv, Intact

\* A file that grew by whole frames is still undamaged and has what the snapshots have.
LEMMA FileGrows ==
    ASSUME KeptInv, Len(file') \in Nat, Len(file') >= Len(file),
           \A i \in 1 .. Len(file) : file'[i] = file[i],
           \A i \in 1 .. Len(file') : i > Len(file) => file'[i].cut = "no",
           archived' = archived, attached' = attached, degraded' = degraded, snapshots' = snapshots,
           stage' \notin {"rotate", "snapshot"}
    PROVE  Undamaged' /\ SnapshotsInFile'
<1>1. /\ Len(file) \in Nat /\ \A i \in 1 .. Len(file) : file[i].cut = "no"
      /\ archived = {} /\ attached = TRUE /\ degraded = FALSE
      /\ \A f \in snapshots :
            /\ f.data # Unreadable /\ f.sequence <= Len(file) /\ f.sequence \in Nat
            /\ \A i \in 1 .. f.sequence : f.data[i] = file[i].cmd
  BY DEF KeptInv, TypeInv, CountInv, Shape, Undamaged, SnapshotsInFile
<1>2. \A i \in 1 .. Len(file') : file'[i].cut = "no"
  BY <1>1
<1>3. ASSUME NEW f \in snapshots
      PROVE  /\ f.sequence <= Len(file') /\ \A i \in 1 .. f.sequence : f.data[i] = file'[i].cmd
  BY <1>1
<1>4. Undamaged'
  BY <1>1, <1>2 DEF Undamaged
<1>5. SnapshotsInFile'
  BY <1>1, <1>3 DEF SnapshotsInFile
<1> QED BY <1>4, <1>5

\* flush brings the file up to the journal.
LEMMA KeptFlush ==
    ASSUME KeptInv, TypeInv', Flush \/ FinalFlush
    PROVE  KeptInv'
<1>1. /\ stage \in {"flush", "closing"} /\ Store(Written(batch))
      /\ UNCHANGED <<applied, snapshots, attached, taken, degraded>>
      /\ stage' = (IF stage = "flush" THEN "process" ELSE "down")
      /\ stage = "flush" => batch' = <<>>
  BY DEF Flush, FinalFlush, WriteBatch, memory, history
<1>2. /\ batch \in Seq(Nat) /\ Len(batch) \in Nat /\ Len(file) \in Nat /\ Len(applied) \in Nat
      /\ Shape /\ Shape' /\ attached = TRUE /\ ~TornWrites /\ Intact
  BY DEF KeptInv, TypeInv, CountInv, Shape, Undamaged, Intact
<1>3. Len(batch) \in 0 .. Len(batch) /\ Written(batch) \in CutAfter(Len(batch)) /\ stage # "down"
  BY <1>1, <1>2, WholeBatch
<1>4. /\ archived' = archived /\ Len(file') = Len(file) + Len(batch)
      /\ Len(Journal) = Len(file) + Len(batch)
      /\ \A i \in 1 .. Len(file') : file'[i].cmd = Journal[i].cmd
      /\ \A i \in 1 .. Len(file) : file'[i] = file[i]
      /\ \A i \in 1 .. Len(file') : i > Len(file) => file'[i].cut = "no"
  BY <1>1, <1>2, <1>3, StoreWhole
<1>5. Undamaged' /\ SnapshotsInFile'
  <2>1. Len(file') \in Nat /\ Len(file') >= Len(file) /\ stage' \notin {"rotate", "snapshot"}
    BY <1>1, <1>2, <1>4
  <2> QED BY <1>1, <1>4, <2>1, FileGrows
<1>6. /\ Len(Journal) = Len(applied) + InFlight
      /\ \A i \in 1 .. Len(applied) : applied[i] = Journal[i].cmd
      /\ InFlight = 1 => Journal[Len(applied) + 1].cmd = taken
  BY <1>3 DEF KeptInv, InStep
<1>7. CASE stage = "flush"
  <2>1. (Shape /\ Pending = <<>> => Journal = file)'
    BY JournalWithoutBatch, PTL
  <2>2. (Pending = <<>>)' /\ InFlight = 1 /\ InFlight' = 1 /\ stage' = "process" /\ Len(batch') = 0
    BY <1>1, <1>7 DEF Pending, InFlight
  <2>3. Journal' = file'
    BY <1>2, <2>1, <2>2
  <2>4. /\ Len(Journal') = Len(applied) + 1
        /\ \A i \in 1 .. Len(applied) : applied[i] = Journal'[i].cmd
        /\ Journal'[Len(applied) + 1].cmd = taken
    <3>1. Len(file') = Len(applied) + 1
      BY <1>4, <1>6, <2>2
    <3>2. \A i \in 1 .. (Len(applied) + 1) : file'[i].cmd = Journal[i].cmd
      BY <1>4, <3>1
    <3>3. /\ Len(applied) + 1 \in 1 .. (Len(applied) + 1)
          /\ \A i \in 1 .. Len(applied) : i \in 1 .. (Len(applied) + 1)
      BY <1>2
    <3> QED BY <1>6, <2>2, <2>3, <3>1, <3>2, <3>3
  <2>5. InStep'
    BY <1>1, <2>2, <2>4, FullBatchSize DEF InStep, FullBatch
  <2> QED BY <1>2, <1>5, <2>2, <2>5 DEF KeptInv, Intact
<1>8. CASE stage = "closing"
  <2>1. InFlight = 0 /\ stage' = "down"
    BY <1>1, <1>8 DEF InFlight
  <2>2. Behindhand'
    BY <1>1, <1>2, <1>4, <1>6, <2>1, FullBatchSize DEF Behindhand, FullBatch
  <2> QED BY <1>2, <1>5, <2>1, <2>2 DEF KeptInv, Intact
<1> QED BY <1>1, <1>7, <1>8

\* A crash loses what was in the batch and not yet written, of which at most one command, the
\* one in flight, was not applied.
LEMMA KeptCrash ==
    ASSUME KeptInv, TypeInv', Crash
    PROVE  KeptInv'
<1>1. /\ stage # "down" /\ stage' = "down" /\ UNCHANGED <<applied, batch, attached, taken, degraded>>
  BY DEF Crash, memory
<1>2. /\ batch \in Seq(Nat) /\ Len(batch) \in Nat /\ Len(file) \in Nat /\ Len(applied) \in Nat
      /\ Shape /\ attached = TRUE /\ ~TornWrites /\ Intact
  BY DEF KeptInv, TypeInv, CountInv, Shape, Undamaged, Intact
<1>3. snapshots' = snapshots
  BY <1>2 DEF Crash
<1>4. /\ Len(Journal) = Len(applied) + InFlight
      /\ \A i \in 1 .. Len(applied) : applied[i] = Journal[i].cmd
      /\ Len(batch) < FullBatch + (IF stage = "flush" THEN 1 ELSE 0)
  BY <1>1 DEF KeptInv, InStep
<1>5. /\ Len(Journal) = Len(file) + Len(batch)
      /\ \A i \in 1 .. Len(file) : Journal[i] = file[i]
  <2>1. Pending = batch
    BY <1>1 DEF Pending
  <2> QED BY <1>2, <2>1, JournalFrames
<1>6. /\ archived' = archived /\ Len(file') \in Nat
      /\ Len(file') >= Len(file) /\ Len(file') <= Len(Journal)
      /\ \A i \in 1 .. Len(file') : file'[i].cmd = Journal[i].cmd
      /\ \A i \in 1 .. Len(file) : file'[i] = file[i]
      /\ \A i \in 1 .. Len(file') : i > Len(file) => file'[i].cut = "no"
  <2>1. CASE UNCHANGED <<file, archived>>
    BY <1>2, <1>5, <2>1
  <2>2. ASSUME NEW n \in 0 .. Len(batch), NEW frames \in CutAfter(n), Store(frames)
        PROVE  /\ archived' = archived /\ Len(file') \in Nat
               /\ Len(file') >= Len(file) /\ Len(file') <= Len(Journal)
               /\ \A i \in 1 .. Len(file') : file'[i].cmd = Journal[i].cmd
               /\ \A i \in 1 .. Len(file) : file'[i] = file[i]
               /\ \A i \in 1 .. Len(file') : i > Len(file) => file'[i].cut = "no"
    <3>1. /\ archived' = archived /\ Len(file') = Len(file) + n
          /\ \A i \in 1 .. Len(file') : file'[i].cmd = Journal[i].cmd
          /\ \A i \in 1 .. Len(file) : file'[i] = file[i]
          /\ \A i \in 1 .. Len(file') : i > Len(file) => file'[i].cut = "no"
      BY <1>1, <1>2, <2>2, StoreWhole
    <3>2. Len(file') \in Nat /\ Len(file') >= Len(file) /\ Len(file') <= Len(Journal)
      BY <1>2, <1>5, <3>1
    <3> QED BY <3>1, <3>2
  <2>3. \/ UNCHANGED <<file, archived>>
        \/ \E n \in 0 .. Len(batch) : \E frames \in CutAfter(n) : Store(frames)
    BY DEF Crash
  <2> QED BY <2>1, <2>2, <2>3
<1>7. Undamaged' /\ SnapshotsInFile'
  <2>1. stage' \notin {"rotate", "snapshot"}
    BY <1>1
  <2> QED BY <1>1, <1>3, <1>6, <2>1, FileGrows
<1>8. Len(applied) < Len(file) + FullBatch
  <2>1. stage = "flush" => InFlight = 1
    BY DEF InFlight
  <2>2. InFlight \in {0, 1}
    BY DEF InFlight
  <2> QED BY <1>2, <1>4, <1>5, <2>1, <2>2, FullBatchSize
<1>9. Behindhand'
  <2>1. Len(applied') < Len(file') + FullBatch
    BY <1>1, <1>2, <1>6, <1>8, FullBatchSize
  <2>2. \A i \in 1 .. Len(file') : i <= Len(applied') => applied'[i] = file'[i].cmd
    BY <1>1, <1>2, <1>4, <1>6
  <2> QED BY <2>1, <2>2 DEF Behindhand, FullBatch
<1> QED BY <1>1, <1>2, <1>7, <1>9 DEF KeptInv, Intact

\* A snapshot is taken when the file has all that was applied.
LEMMA KeptSnapshot ==
    ASSUME KeptInv, TypeInv', TakeSnapshot \/ CloseChannel
    PROVE  KeptInv'
<1>1. /\ stage \in {"snapshot", "idle"}
      /\ UNCHANGED <<applied, batch, attached, file, archived, taken, degraded>>
  BY DEF TakeSnapshot, CloseChannel, memory, disk, history
<1>2. /\ batch \in Seq(Nat) /\ Len(batch) \in Nat /\ Len(file) \in Nat /\ Len(applied) \in Nat
      /\ Shape /\ CountInv /\ Intact /\ command_seq = Len(applied) /\ applied \in Seq(Cmds)
  <2>1. CountInv /\ Intact /\ TypeOK
    BY DEF KeptInv, TypeInv
  <2>2. Shape /\ SequenceCountsCommands
    BY <2>1 DEF CountInv
  <2>3. batch \in Seq(Nat) /\ file \in Seq(NumberedFrames) /\ applied \in Seq(Nat)
    BY <2>2 DEF Shape
  <2>4. Len(batch) \in Nat /\ Len(file) \in Nat /\ Len(applied) \in Nat
    BY <2>3, LenProperties
  <2>5. command_seq = Len(applied) /\ applied \in Seq(Cmds)
    BY <2>1, <2>2 DEF TypeOK, SequenceCountsCommands
  <2> QED BY <2>1, <2>2, <2>3, <2>4, <2>5
<1>3. stage' \in {"idle", "closing"}
  BY <1>2 DEF TakeSnapshot, CloseChannel, AfterSnapshot, ShouldRotate, Intact
<1>4. InFlight = 0 /\ InFlight' = 0 /\ stage # "down" /\ stage' # "down" /\ stage # "flush"
  BY <1>1, <1>3 DEF InFlight
<1>5. Journal' = Journal
  BY <1>1, <1>2, <1>4, JournalStays
<1>6. /\ Len(Journal) = Len(applied) + 0 /\ Len(batch) < FullBatch + 0
      /\ \A i \in 1 .. Len(applied) : applied[i] = Journal[i].cmd
  BY <1>4 DEF KeptInv, InStep
<1>7. InStep'
  BY <1>1, <1>3, <1>4, <1>5, <1>6 DEF InStep, FullBatch
<1>8. Undamaged'
  BY <1>1, <1>3 DEF KeptInv, Undamaged
<1>9. SnapshotsInFile'
  <2>1. CASE CloseChannel
    BY <2>1 DEF CloseChannel, disk, KeptInv, SnapshotsInFile
  <2>2. CASE TakeSnapshot
    <3>1. stage = "snapshot" /\ snapshots' \subseteq WithSnapshot(applied)
      BY <2>2 DEF TakeSnapshot, Newest
    <3>2. FullBatch = 1
      BY <3>1, FullBatchSize, RecoveryAssumption DEF KeptInv, Undamaged, Intact
    <3>3. Len(batch) = 0 /\ Pending = batch
      BY <1>2, <1>4, <1>6, <3>2 DEF Pending
    <3>4. Pending = <<>>
      BY <1>2, <3>3
    <3>5. Journal = file
      BY <1>2, <3>4, JournalWithoutBatch
    <3>6. applied # Unreadable
      <4>1. Len(Unreadable) = 1 /\ Unreadable[1] = 0
        BY DEF Unreadable
      <4>2. Len(applied) = 1 => applied[1] \in Cmds
        <5>1. Len(applied) = 1 => 1 \in 1 .. Len(applied)
          OBVIOUS
        <5> QED BY <1>2, <5>1, ElementOfSeq
      <4>3. 0 \notin Cmds
        BY DEF Cmds
      <4> QED BY <4>1, <4>2, <4>3
    <3>7. ASSUME NEW f \in WithSnapshot(applied)
          PROVE  /\ f.data # Unreadable /\ f.sequence <= Len(file)
                 /\ \A i \in 1 .. f.sequence : f.data[i] = file[i].cmd
      <4>1. f \in snapshots \/ f = [sequence |-> command_seq, data |-> applied]
        BY DEF WithSnapshot
      <4>2. CASE f \in snapshots
        BY <4>2 DEF KeptInv, SnapshotsInFile
      <4>3. CASE f = [sequence |-> command_seq, data |-> applied]
        BY <1>2, <1>6, <3>5, <3>6, <4>3
      <4> QED BY <4>1, <4>2, <4>3
    <3> QED BY <1>1, <3>1, <3>7 DEF SnapshotsInFile
  <2> QED BY <2>1, <2>2
<1> QED BY <1>2, <1>4, <1>7, <1>8, <1>9 DEF KeptInv, Intact

\* A restart brings up the file, with an empty batch.
LEMMA KeptRestart ==
    ASSUME KeptInv, TypeInv', Restart
    PROVE  KeptInv'
<1>1. /\ stage' = "idle" /\ batch' = <<>> /\ attached' = TRUE
      /\ UNCHANGED <<file, snapshots, archived, taken>>
  BY DEF Restart, disk
<1>2. /\ degraded' = FALSE /\ Len(applied') = Len(file)
      /\ \A i \in 1 .. Len(file) : applied'[i] = file[i].cmd
  BY RestartWhole
<1>3. (Pending = <<>>)' /\ InFlight' = 0 /\ stage' # "down" /\ Len(batch') = 0
  BY <1>1 DEF Pending, InFlight
<1>4. Journal' = file'
  <2>1. (Shape /\ Pending = <<>> => Journal = file)'
    BY JournalWithoutBatch, PTL
  <2> QED BY <1>3, <2>1 DEF TypeInv, CountInv
<1>5. Len(file) \in Nat /\ Intact
  BY DEF KeptInv, TypeInv, CountInv, Shape
<1>6. InStep'
  BY <1>1, <1>2, <1>3, <1>4, <1>5, FullBatchSize DEF InStep, FullBatch
<1>7. Undamaged' /\ SnapshotsInFile'
  BY <1>1, <1>2 DEF KeptInv, Undamaged, SnapshotsInFile
<1> QED BY <1>3, <1>5, <1>6, <1>7 DEF KeptInv, Intact

\* Every step.
LEMMA KeptStep == KeptInv /\ [Next]_vars => KeptInv'
<1> SUFFICES ASSUME KeptInv, [Next]_vars PROVE KeptInv'
  OBVIOUS
<1>1. TypeInv'
  BY TypesStep DEF KeptInv
<1>2. ~(FlushFails \/ SnapshotFails \/ RotateFails \/ Rotate)
  BY DEF KeptInv, Intact, Undamaged, FlushFails, SnapshotFails, RotateFails, Rotate
<1>3. CASE UNCHANGED vars
  <2>1. Journal' = Journal /\ InFlight' = InFlight
    BY <1>3 DEF vars, memory, disk, Journal, Pending, InFlight
  <2>2. UNCHANGED <<stage, applied, batch, attached, file, snapshots, archived, taken, degraded>>
    BY <1>3 DEF vars, memory, disk, history
  <2>3. Undamaged' /\ SnapshotsInFile'
    BY <2>2 DEF KeptInv, Undamaged, SnapshotsInFile
  <2>4. IF stage' = "down" THEN Behindhand' ELSE InStep'
    BY <2>1, <2>2 DEF KeptInv, Behindhand, InStep, FullBatch
  <2> QED BY <1>1, <2>3, <2>4 DEF KeptInv, Intact
<1> QED BY <1>1, <1>2, <1>3, KeptTake, KeptFlush, KeptProcess, KeptSnapshot, KeptCrash, KeptRestart
        DEF Next

\* The only step that brings a dead engine up is a restart.
LEMMA RestartStep ==
    ASSUME [Next]_vars, stage = "down", stage' = "idle"
    PROVE  Restart
BY DEF Next, TakeCommand, Flush, FlushFails, Process, TakeSnapshot, SnapshotFails, Rotate,
       RotateFails, CloseChannel, FinalFlush, Crash, vars

\* With its writes intact, no rotation and no snapshot ahead of the journal, the state an engine
\* restarts with has every command that reached the journal, wherever the crash came.
THEOREM JournalRecovered == Intact /\ Spec => RecoversJournal
<1>1. ASSUME KeptInv, [Next]_vars
      PROVE  [stage = "down" /\ stage' = "idle" =>
                 Journalled \subseteq {applied'[i] : i \in 1 .. Len(applied')}]_vars
  <2> SUFFICES ASSUME stage = "down", stage' = "idle"
               PROVE  Journalled \subseteq {applied'[i] : i \in 1 .. Len(applied')}
    OBVIOUS
  <2>1. Restart
    BY <1>1, RestartStep
  <2>2. Len(applied') = Len(file) /\ \A i \in 1 .. Len(file) : applied'[i] = file[i].cmd
    BY <1>1, <2>1, RestartWhole
  <2>3. Journalled = Complete(file)
    BY <1>1 DEF Journalled, KeptInv, Undamaged
  <2> QED BY <2>2, <2>3 DEF Complete
<1> QED BY <1>1, KeptInit, KeptStep, PTL DEF Spec, RecoversJournal

\* Under the same conditions the recovered state has the one before the crash as a prefix, or is
\* a prefix of it that lacks fewer commands than a full batch has.
THEOREM LossIsBounded == Intact /\ Spec => LossBounded
<1> DEFINE n == IF Len(applied) < Len(applied') THEN Len(applied) ELSE Len(applied')
           A == /\ SubSeq(applied', 1, n) = SubSeq(applied, 1, n)
                /\ Len(applied) - n < Max({BatchSize, 1})
<1>1. ASSUME KeptInv, [Next]_vars
      PROVE  [stage = "down" /\ stage' = "idle" => A]_vars
  <2> SUFFICES ASSUME stage = "down", stage' = "idle" PROVE A
    OBVIOUS
  <2>1. Restart
    BY <1>1, RestartStep
  <2>2. Len(applied') = Len(file) /\ \A i \in 1 .. Len(file) : applied'[i] = file[i].cmd
    BY <1>1, <2>1, RestartWhole
  <2>3. Behindhand /\ TypeInv /\ TypeInv'
    BY <1>1, TypesStep DEF KeptInv
  <2>4. /\ applied \in Seq(Cmds) /\ applied' \in Seq(Cmds) /\ Len(applied) \in Nat
        /\ Len(applied') \in Nat /\ Len(file) \in Nat
    BY <2>3 DEF TypeInv, TypeOK
  <2>5. n \in Nat /\ n <= Len(applied) /\ n <= Len(applied') /\ \A i \in 1 .. n : applied'[i] = applied[i]
    BY <2>2, <2>3, <2>4 DEF Behindhand
  <2>6. Len(applied) - n < FullBatch
    BY <2>2, <2>3, <2>4, FullBatchSize DEF Behindhand
  <2> HIDE DEF n
  <2>7. /\ SubSeq(applied, 1, n) \in Seq(Cmds) /\ Len(SubSeq(applied, 1, n)) = n
        /\ \A i \in 1 .. n : SubSeq(applied, 1, n)[i] = applied[i]
    BY <2>4, <2>5, SubSeqProperties
  <2>8. /\ SubSeq(applied', 1, n) \in Seq(Cmds) /\ Len(SubSeq(applied', 1, n)) = n
        /\ \A i \in 1 .. n : SubSeq(applied', 1, n)[i] = applied'[i]
    BY <2>4, <2>5, SubSeqProperties
  <2>9. SubSeq(applied', 1, n) = SubSeq(applied, 1, n)
    BY <2>5, <2>7, <2>8, SeqEqual
  <2> QED BY <2>6, <2>9 DEF FullBatch
<1> QED BY <1>1, KeptInit, KeptStep, PTL DEF Spec, LossBounded
=============================================================================
