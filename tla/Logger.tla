------------------------------- MODULE Logger -------------------------------
(***************************************************************************)
(* dwater/base/logging.cc: a Logger is made by a LOG_ macro, takes the     *)
(* time, and hands its line to g_output when it is destroyed.  g_output is *)
(* AsyncLogging::Append or, as in tests/log_file_test.cc, LogFile::Append. *)
(* Each thread keeps the second it formatted last, and its text.           *)
(***************************************************************************)
EXTENDS AsyncLogging

CONSTANT Threads        \* the threads that log

VARIABLES
    sink,           \* where g_output leads: "async" or "file"
    t_last_second,  \* per thread, as is ...
    t_time,         \* ... the second this text stands for
    logger,         \* per thread: the Logger that exists, or Null
    g_log_timezone  \* TRUE: SetTimeZone was called

loggerVars == <<sink, t_last_second, t_time, logger, g_log_timezone>>
vars == <<asyncVars, loggerVars>>

Init ==
    /\ AsyncInit
    /\ now \in Times /\ disk_full = FALSE
    /\ sink \in {"async", "file"}
    /\ output = IF sink = "file" THEN NewLogFile ELSE Null
    /\ t_last_second = [w \in Threads |-> 0] /\ t_time = [w \in Threads |-> 0]
    /\ logger = [w \in Threads |-> Null]
    /\ g_log_timezone = FALSE

FormatsAnew(w) == now # t_last_second[w]

(* Impl::Impl and FormatTime.  With a time zone it asserts a length of 8    *)
(* for a text of 9 characters.                                              *)
Construct(w) ==
    /\ logger[w] = Null /\ Len(lines) < MaxLines
    /\ sink = "async" => mpc = "running"
    /\ IF FormatsAnew(w)
         THEN /\ t_last_second' = [t_last_second EXCEPT ![w] = now]
              /\ t_time' = [t_time EXCEPT ![w] = now]
         ELSE UNCHANGED <<t_last_second, t_time>>
    /\ logger' = [logger EXCEPT ![w] = [time_ |-> now, text |-> t_time'[w]]]
    /\ aborted' = IF g_log_timezone THEN "assert" ELSE "no"
    /\ UNCHANGED <<frontVars, backVars, running_, pc, mpc, fileVars, historyVars, sink,
                   g_log_timezone>>

(* lines are told apart by their place in the log *)
Line == Len(lines) + 1

(* LogFile::Append, under its mutex_ *)
AppendToFile ==
    /\ output' = AppendUnlocked(output, <<Line>>)
    /\ lines' = Append(lines, Line)
    /\ UNCHANGED <<frontVars, backVars, running_, pc, mpc, now, disk_full, last_swap, rounds,
                   crowded, overrun, aborted>>

(* ~Logger with a level_ other than FATAL *)
Destroy(w) ==
    /\ logger[w] # Null
    /\ logger' = [logger EXCEPT ![w] = Null]
    /\ \/ sink = "file" /\ AppendToFile
       \/ sink = "async" /\ mpc = "running" /\ AppendLine(Line)
    /\ UNCHANGED <<sink, t_last_second, t_time, g_log_timezone>>

(* ~Logger whose level_ reads as FATAL.  Impl::Impl does not initialize it, *)
(* so any line may be the one.  g_flush is LogFile::Flush or fflush(stdout),*)
(* which does nothing for an AsyncLogging.                                  *)
DestroyFatal(w) ==
    LET written == AppendUnlocked(output, <<Line>>) IN
    /\ logger[w] # Null
    /\ sink = "async" => mpc = "running" /\ curr_buffer_ # Null
    /\ logger' = [logger EXCEPT ![w] = Null]
    /\ lines' = Append(lines, Line)
    /\ IF sink = "file"
         THEN /\ output' = Flush(written)
              /\ UNCHANGED <<curr_buffer_, crowded>>
         ELSE /\ curr_buffer_' = AppendTo(curr_buffer_, Line)
              /\ Crowd
              /\ UNCHANGED output
    /\ overrun' = (overrun \/ Len(curr_buffer_') > BufferSize)
    /\ aborted' = "fatal"
    /\ UNCHANGED <<next_buffer_, buffers_, backVars, running_, pc, mpc, now, disk_full,
                   last_swap, rounds, sink, t_last_second, t_time, g_log_timezone>>

(* as a program does that sets itself up before it logs *)
SetTimeZone ==
    /\ ~g_log_timezone /\ lines = <<>> /\ g_log_timezone' = TRUE
    /\ UNCHANGED <<asyncVars, sink, t_last_second, t_time, logger>>

-----------------------------------------------------------------------------
Environment ==
    /\ Tick \/ DiskChanges
    /\ UNCHANGED <<frontVars, backVars, running_, pc, mpc, historyVars, aborted, loggerVars>>

Background == sink = "async" /\ ThreadFunc /\ UNCHANGED loggerVars

Owner == sink = "async" /\ (Start \/ Stop) /\ UNCHANGED loggerVars

OwnerJoins == Join /\ UNCHANGED loggerVars

Next ==
    /\ aborted = "no"
    /\ \/ \E w \in Threads : Construct(w) \/ Destroy(w) \/ DestroyFatal(w)
       \/ Background \/ Owner \/ OwnerJoins \/ SetTimeZone \/ Environment

Spec == Init /\ [][Next]_vars

(* The background thread runs, its wait times out, and the owner's Join     *)
(* notices the end of the thread.  Nobody has to log, to Stop or to end a   *)
(* Logger.                                                                  *)
Fairness ==
    /\ WF_vars(aborted = "no" /\ Background)
    /\ WF_vars(aborted = "no" /\ OwnerJoins)

FairSpec == Spec /\ Fairness

-----------------------------------------------------------------------------
(* Every variable has its type. *)
TypeOK ==
    /\ pc \in {"none", "open", "loop", "waiting", "write", "recycle", "ended"}
    /\ mpc \in {"new", "running", "joining", "stopped"}
    /\ running_ \in BOOLEAN /\ overrun \in BOOLEAN /\ disk_full \in BOOLEAN
    /\ aborted \in {"no", "assert", "null", "overrun", "fatal"}
    /\ now \in Times /\ last_swap \in 0 .. Len(lines)

(* the lines in a buffer, none if it points nowhere *)
Content(buffer) == IF buffer = Null THEN <<>> ELSE buffer

Logged == IF output = Null THEN <<>> ELSE LinesIn(output)
Lost == IF output = Null THEN {} ELSE LinesLost(output)

Unflushed(log) ==
    {i \in 1 .. Len(log.files) : log.files[i].flushed # Len(log.files[i].chunks)}

(* the lines that are in the files themselves, not in a stdio buffer *)
OnDisk ==
    IF output = Null THEN {}
    ELSE UNION {Range(FlattenSeq(SubSeq(f.chunks, 1, f.flushed))) : f \in Range(output.files)}

(* As long as no more is logged in one interval than a buffer holds, no     *)
(* buffer is overrun, and every line that no full disk swallowed is in one  *)
(* place and in its order, in the files, on its way or with the front end.  *)
(* After a round, and when Stop has returned, what was logged before the    *)
(* last swap has left the stdio buffer; so has every line before an abort   *)
(* of a FATAL one.  The thread survives its first round and stops at the    *)
(* assertion of the second, which finds the buffer freed.  Across clocks    *)
(* set back, a line carries the text of its own second.                     *)
LinesKept ==
    /\ TypeOK
    /\ overrun => crowded
    /\ ~crowded =>
        /\ SelectSeq(lines, LAMBDA l : l \notin Lost)
            = Logged \o (IF pc = "write" THEN FlattenSeq(buffers_to_write) ELSE <<>>)
                     \o FlattenSeq(buffers_) \o Content(curr_buffer_)
        /\ sink = "async" /\ pc \in {"loop", "waiting", "ended"}
            => OnDisk \cup Lost = 1 .. last_swap
        /\ aborted = "assert" => g_log_timezone \/ (rounds = 1 /\ new_buffer1 = Null)
        /\ aborted = "fatal" /\ sink = "file" => Unflushed(output) = {}
    /\ \A w \in Threads : logger[w] # Null => logger[w].text = logger[w].time_

(* Files are made in the order of their names and never reopened; only the  *)
(* file in use may have lines in the stdio buffer.  The file in use is      *)
(* larger than RollSize only if the clock has not passed its name since,    *)
(* and no file takes more than CheckEveryN chunks of later periods in a row,*)
(* whatever the disk swallows of them.                                      *)
FilesRoll ==
    output # Null =>
        LET files == output.files
            last == Len(files)
        IN  /\ \A i \in 1 .. last - 1 : files[i].name < files[i + 1].name
            /\ Unflushed(output) \subseteq {last}
            /\ files[last].written_bytes_ > RollSize
                 => Last(files[last].times) <= files[last].name
            /\ \A i \in 1 .. last :
                 \A j \in 1 .. Len(files[i].times) - CheckEveryN :
                    \E k \in j .. j + CheckEveryN :
                        Period(files[i].times[k]) <= Period(files[i].name)

(* A line logged to an AsyncLogging gets to the disk, unless that is full   *)
(* when the line leaves the stdio buffer, Stop or the assertion of the      *)
(* second round comes before the swap that would take the line, or a front  *)
(* end crashes or fills the buffer first.  The assertion itself is no       *)
(* excuse for the lines of the first round.  Stop returns, also when its    *)
(* Notify came too early, because the wait times out.                       *)
LinesReachFile ==
    /\ \A n \in 1 .. MaxLines :
         sink = "async" /\ n <= Len(lines) ~>
             \/ n \in OnDisk \cup Lost
             \/ n > last_swap /\ (~running_ \/ aborted = "assert")
             \/ aborted \notin {"no", "assert"} \/ g_log_timezone \/ crowded
    /\ mpc = "joining" ~> mpc = "stopped" \/ aborted # "no"
=============================================================================
