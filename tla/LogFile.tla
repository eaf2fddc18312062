------------------------------- MODULE LogFile -------------------------------
(***************************************************************************)
(* dwater/base/log_file.cc and AppendFile of file_util.cc: a log that goes  *)
(* on in a new file when the current one is large or of another period.    *)
(* A LogFile is a record; files are named by the second they were made in. *)
(* One Append is a chunk, a sequence of lines; a line takes one byte.  A    *)
(* chunk waits whole in the stdio buffer, and is lost when the disk is full *)
(* at the moment the buffer is written: fflush and fclose fail, and nobody  *)
(* looks at what they return.                                              *)
(***************************************************************************)
EXTENDS Integers, Sequences, FiniteSets, Functions, SequencesExt

CONSTANTS
    RollSize,       \* roll_size_
    FlushInterval,  \* flush_interval_, in seconds
    CheckEveryN,    \* check_every_n_
    RollSeconds,    \* kroll_per_seconds_
    StdioSize,      \* the buffer_ of an AppendFile, in lines
    Times           \* bound: the seconds time() may answer

ASSUME LogFileAssumption ==
    /\ RollSize \in Nat /\ FlushInterval \in Nat
    /\ StdioSize \in Nat /\ CheckEveryN \in Nat \ {0} /\ RollSeconds \in Nat \ {0}
    /\ Times \subseteq Nat \ {0}

VARIABLES
    now,            \* time()
    disk_full,      \* write(2) fails
    output          \* the LogFile in use

Period(t) == (t \div RollSeconds) * RollSeconds

(* AppendFile::AppendFile: opened under the name GetLogFileName makes of    *)
(* the time; `flushed` counts the chunks that have left the stdio buffer,   *)
(* `lost` has the lines that never got to the file, `times` tells when each *)
(* Append came                                                              *)
AppendFile(t) ==
    [name |-> t, chunks |-> <<>>, flushed |-> 0, written_bytes_ |-> 0,
     lost |-> {}, times |-> <<>>]

(* the lines in the stdio buffer *)
Buffered(file) == FlattenSeq(SubSeq(file.chunks, file.flushed + 1, Len(file.chunks)))

(* the stdio buffer is written, or dropped when that fails *)
Drain(file) ==
    IF disk_full
      THEN [file EXCEPT !.chunks = SubSeq(@, 1, file.flushed),
                        !.lost = @ \cup Range(Buffered(file))]
      ELSE [file EXCEPT !.flushed = Len(file.chunks)]

Flush(log) == [log EXCEPT !.files[Len(log.files)] = Drain(@)]

(* mutant: rolls more than once a second *)
RollFileSameSecond(log) ==
    IF now >= log.last_roll_
      THEN [log EXCEPT !.last_roll_ = now, !.last_flush_ = now,
                       !.start_of_period_ = Period(now),
                       !.files = Append((IF @ = <<>> THEN log ELSE Flush(log)).files,
                                        AppendFile(now))]
      ELSE log

(* RollFile: the old file is closed, its stdio buffer written *)
RollFile(log) ==
    IF now > log.last_roll_
      THEN [log EXCEPT !.last_roll_ = now, !.last_flush_ = now,
                       !.start_of_period_ = Period(now),
                       !.files = Append((IF @ = <<>> THEN log ELSE Flush(log)).files,
                                        AppendFile(now))]
      ELSE log

NewLogFile ==
    RollFile([files |-> <<>>, count_ |-> 0, start_of_period_ |-> 0,
              last_roll_ |-> 0, last_flush_ |-> 0])

(* AppendFile::Append: a chunk that does not fit has the stdio buffer       *)
(* written first, and one larger than that buffer is written itself.  What  *)
(* is lost is counted all the same.                                         *)
Write(file, chunk) ==
    LET Put(f) == [f EXCEPT !.chunks = Append(@, chunk),
                            !.written_bytes_ = @ + Len(chunk),
                            !.times = Append(@, now)]
    IN  CASE Len(Buffered(file)) + Len(chunk) <= StdioSize -> Put(file)
          [] Len(chunk) > StdioSize -> Drain(Put(Drain(file)))
          [] OTHER -> Put(Drain(file))

(* every CheckEveryN chunks: is it another period, is it time to flush? *)
Check(log) ==
    CASE Period(now) # log.start_of_period_ -> RollFile(log)
      [] Period(now) = log.start_of_period_
           /\ now - log.last_flush_ > FlushInterval
           -> Flush([log EXCEPT !.last_flush_ = now])
      [] OTHER -> log

AppendUnlocked(log, chunk) ==
    LET last == Len(log.files)
        grown == [log EXCEPT !.files[last] = Write(@, chunk)]
    IN  CASE grown.files[last].written_bytes_ > RollSize -> RollFile(grown)
          [] grown.files[last].written_bytes_ <= RollSize /\ log.count_ + 1 < CheckEveryN
               -> [grown EXCEPT !.count_ = @ + 1]
          [] OTHER -> Check([grown EXCEPT !.count_ = 0])

(* the lines in the files, in the order of the files *)
LinesIn(log) ==
    FlattenSeq([i \in 1 .. Len(log.files) |->
        FlattenSeq(log.files[i].chunks)])

(* the lines that the full disk swallowed *)
LinesLost(log) == UNION {log.files[i].lost : i \in 1 .. Len(log.files)}

-----------------------------------------------------------------------------
(* time() goes on, or is set back *)
Tick ==
    /\ \E t \in Times \ {now} : now' = t
    /\ UNCHANGED <<disk_full, output>>

(* the disk fills up, or somebody makes room *)
DiskChanges ==
    /\ disk_full' = ~disk_full
    /\ UNCHANGED <<now, output>>
=============================================================================
