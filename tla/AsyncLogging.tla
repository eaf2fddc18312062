---------------------------- MODULE AsyncLogging ----------------------------
(***************************************************************************)
(* dwater/base/async_logging.cc: front-end threads Append lines to a       *)
(* buffer, a background thread swaps the buffers out every flush_interval_ *)
(* seconds and writes them to its LogFile.  A buffer is the sequence of    *)
(* the lines in it; what mutex_ protects is done in one step.              *)
(* As the code stands FixedBuffer::Avail() is the size of the buffer, not  *)
(* what is left of it, and a written buffer is freed (reset()) where it    *)
(* should be emptied; both are modelled as they are.                       *)
(***************************************************************************)
EXTENDS LogFile

CONSTANTS
    BufferSize,     \* lines a buffer has room for
    KeptBuffers,    \* 25: with more buffers than this some are dropped
    MaxLines,       \* bound: lines logged
    Null            \* a BufferPtr that points nowhere

ASSUME LoggingAssumption ==
    BufferSize \in Nat \ {0, 1} /\ KeptBuffers \in Nat /\ MaxLines \in Nat

VARIABLES
    curr_buffer_, next_buffer_, buffers_,
    new_buffer1, new_buffer2, buffers_to_write,     \* ThreadFunc's own
    running_,
    pc,             \* where ThreadFunc is
    mpc,            \* where the owner is: Start, Stop
    lines,          \* history: lines appended, in order
    last_swap,      \* history: how many of them the last swap covered
    rounds,         \* history: rounds of ThreadFunc completed
    crowded,        \* history: an interval had more lines than a buffer holds
    overrun,        \* history: a buffer was written past its end
    aborted         \* an assertion failed or a null buffer was used, or "no"

frontVars == <<curr_buffer_, next_buffer_, buffers_>>
backVars == <<new_buffer1, new_buffer2, buffers_to_write>>
fileVars == <<now, disk_full, output>>
historyVars == <<lines, last_swap, rounds, crowded, overrun>>
asyncVars == <<frontVars, backVars, running_, pc, mpc, fileVars, historyVars, aborted>>

AsyncInit ==
    /\ curr_buffer_ = <<>> /\ next_buffer_ = <<>> /\ buffers_ = <<>>
    /\ new_buffer1 = Null /\ new_buffer2 = Null /\ buffers_to_write = <<>>
    /\ running_ = FALSE /\ pc = "none" /\ mpc = "new"
    /\ lines = <<>> /\ last_swap = 0 /\ rounds = 0 /\ crowded = FALSE /\ overrun = FALSE
    /\ aborted = "no"

-----------------------------------------------------------------------------
(* FixedBuffer *)
Avail(buffer) == BufferSize

(* writes the line if Avail() says that it fits: here, always *)
AppendTo(buffer, line) ==
    IF Avail(buffer) > 1 THEN Append(buffer, line) ELSE buffer

(* more lines since the last swap than a buffer has room for *)
Crowd == crowded' = (crowded \/ Len(lines') - last_swap > BufferSize)

(* AsyncLogging::Append.  Past the end of the buffer anything may happen:   *)
(* here, nothing to be seen or a crash.                                     *)
AppendLine(line) ==
    LET fits == curr_buffer_ # Null /\ Avail(curr_buffer_) > 0
        fresh == IF next_buffer_ # Null THEN next_buffer_ ELSE <<>>
        grown == AppendTo(IF fits THEN curr_buffer_ ELSE fresh, line)
    IN
    /\ IF curr_buffer_ = Null
         THEN aborted' = "null" /\ UNCHANGED <<frontVars, lines, crowded, overrun>>
         ELSE /\ curr_buffer_' = grown
              /\ lines' = Append(lines, line)
              /\ Crowd
              /\ overrun' = (overrun \/ Len(grown) > BufferSize)
              /\ IF fits
                   THEN UNCHANGED <<buffers_, next_buffer_>>
                   ELSE /\ buffers_' = Append(buffers_, curr_buffer_)
                        /\ next_buffer_' = Null
              /\ aborted' \in IF Len(grown) > BufferSize THEN {"no", "overrun"} ELSE {"no"}
    /\ UNCHANGED <<backVars, running_, pc, mpc, fileVars, last_swap, rounds>>

(* Start: latch_ holds it until the thread runs *)
Start ==
    /\ mpc = "new"
    /\ mpc' = "running" /\ running_' = TRUE /\ pc' = "open"
    /\ UNCHANGED <<frontVars, backVars, fileVars, historyVars, aborted>>

(* Stop: its Notify takes no mutex and may come before the wait begins *)
Stop ==
    /\ mpc = "running"
    /\ mpc' = "joining" /\ running_' = FALSE
    /\ UNCHANGED <<frontVars, backVars, pc, fileVars, historyVars, aborted>>

Join ==
    /\ mpc = "joining" /\ pc = "ended"
    /\ mpc' = "stopped"
    /\ UNCHANGED <<frontVars, backVars, running_, pc, fileVars, historyVars, aborted>>

-----------------------------------------------------------------------------
(* ThreadFunc: its LogFile and its two buffers *)
OpenOutput ==
    /\ pc = "open"
    /\ output' = NewLogFile
    /\ new_buffer1' = <<>> /\ new_buffer2' = <<>>
    /\ pc' = "loop"
    /\ UNCHANGED <<frontVars, buffers_to_write, running_, mpc, now, disk_full, historyVars,
                   aborted>>

(* the test of running_ and the three assertions.  Leaving the loop flushes *)
(* the file once more and closes it.                                        *)
TestRunning ==
    /\ pc = "loop"
    /\ IF running_
         THEN /\ pc' = "waiting"
              /\ aborted' = IF new_buffer1 = <<>> /\ new_buffer2 = <<>>
                                /\ buffers_to_write = <<>> THEN "no" ELSE "assert"
              /\ UNCHANGED output
         ELSE /\ pc' = "ended"
              /\ output' = Flush(output)
              /\ UNCHANGED aborted
    /\ UNCHANGED <<frontVars, backVars, running_, mpc, now, disk_full, historyVars>>

(* mutant: the front end keeps the buffer that is written *)
SwapShares ==
    /\ pc = "waiting"
    /\ buffers_to_write' = Append(buffers_, curr_buffer_)
    /\ buffers_' = <<>>
    /\ last_swap' = Len(lines)
    /\ pc' = "write"
    /\ UNCHANGED <<curr_buffer_, next_buffer_, new_buffer1, new_buffer2, running_, mpc,
                   fileVars, lines, rounds, crowded, overrun, aborted>>

(* the wait for flush_interval_ seconds, however it ends, and the swap *)
Swap ==
    /\ pc = "waiting"
    /\ buffers_to_write' = Append(buffers_, curr_buffer_)
    /\ buffers_' = <<>>
    /\ curr_buffer_' = new_buffer1 /\ new_buffer1' = Null
    /\ IF next_buffer_ = Null
         THEN next_buffer_' = new_buffer2 /\ new_buffer2' = Null
         ELSE UNCHANGED <<next_buffer_, new_buffer2>>
    /\ last_swap' = Len(lines)
    /\ pc' = "write"
    /\ UNCHANGED <<running_, mpc, fileVars, lines, rounds, crowded, overrun, aborted>>

(* with too many buffers all but two are dropped, and the file has a notice *)
(* of that, a line of its own, instead                                      *)
TooMany(buffers) == Len(buffers) > KeptBuffers
Kept(buffers) == IF TooMany(buffers) THEN SubSeq(buffers, 1, 2) ELSE buffers
Notice(buffers) == IF TooMany(buffers) THEN << <<"Dropped log messages">> >> ELSE <<>>

WriteBuffers ==
    /\ pc = "write"
    /\ output' = FoldLeft(AppendUnlocked, output,
                          Notice(buffers_to_write) \o Kept(buffers_to_write))
    /\ buffers_to_write' = Kept(buffers_to_write)
    /\ pc' = "recycle"
    /\ UNCHANGED <<frontVars, new_buffer1, new_buffer2, running_, mpc, now, disk_full,
                   historyVars, aborted>>

(* a buffer taken from buffers_to_write and reset(): freed *)
Recycled == Null

(* mutant: no Flush at the end of a round *)
RecycleUnflushed ==
    LET wanted == (IF new_buffer1 = Null THEN 1 ELSE 0)
                + (IF new_buffer2 = Null THEN 1 ELSE 0)
        left == IF Len(buffers_to_write) > 2 THEN 2 ELSE Len(buffers_to_write)
    IN
    /\ pc = "recycle"
    /\ new_buffer1' = IF new_buffer1 = Null THEN Recycled ELSE new_buffer1
    /\ new_buffer2' = IF new_buffer2 = Null THEN Recycled ELSE new_buffer2
    /\ aborted' = IF left < wanted THEN "assert" ELSE "no"
    /\ buffers_to_write' = <<>>
    /\ rounds' = rounds + 1
    /\ pc' = "loop"
    /\ UNCHANGED <<frontVars, running_, mpc, fileVars, lines, last_swap,
                   crowded, overrun>>

(* the rest of the round: the thread's two buffers back, and Flush; it      *)
(* asserts that there are as many buffers as it takes                       *)
Recycle ==
    LET wanted == (IF new_buffer1 = Null THEN 1 ELSE 0)
                + (IF new_buffer2 = Null THEN 1 ELSE 0)
        left == IF Len(buffers_to_write) > 2 THEN 2 ELSE Len(buffers_to_write)
    IN
    /\ pc = "recycle"
    /\ new_buffer1' = IF new_buffer1 = Null THEN Recycled ELSE new_buffer1
    /\ new_buffer2' = IF new_buffer2 = Null THEN Recycled ELSE new_buffer2
    /\ aborted' = IF left < wanted THEN "assert" ELSE "no"
    /\ buffers_to_write' = <<>>
    /\ output' = Flush(output)
    /\ rounds' = rounds + 1
    /\ pc' = "loop"
    /\ UNCHANGED <<frontVars, running_, mpc, now, disk_full, lines, last_swap,
                   crowded, overrun>>

-----------------------------------------------------------------------------
ThreadFunc == OpenOutput \/ TestRunning \/ Swap \/ WriteBuffers \/ Recycle
=============================================================================
