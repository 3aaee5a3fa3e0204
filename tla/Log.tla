-------------------------------- MODULE Log ---------------------------------
(***************************************************************************)
(* The log (src/src/common/log.cpp).  Every thread appends lines to the    *)
(* active one of two buffers under a spin lock; a line that does not fit   *)
(* is counted and dropped.  A flusher thread swaps the buffers, writes the *)
(* full one without the lock and then a notice of the lines dropped.       *)
(* close() joins it and writes what is left; at the end of the process the *)
(* flusher is killed wherever it is and detachDuringProcessExit writes     *)
(* both buffers without a lock.  Every line has a number; its text is left *)
(* out.                                                                    *)
(*                                                                         *)
(* WriteFile is taken to write all of what it is given.  The code does not *)
(* look at its result (log.cpp:301-307): the buffer is cleared either way, *)
(* so what a full disk or a failing device refuses is lost and untold, and *)
(* nothing here is claimed of it.                                          *)
(***************************************************************************)
EXTENDS Naturals, Sequences, SequencesExt

CONSTANTS MaxLines,    \* lines noted in all
          LineSizes,   \* sizes a line may have
          BufferCap,   \* m_bufferCapBytes
          MaxBytes     \* m_maxBytes; 0 for no limit

VARIABLES
    stage,      \* run, stopping, first, second, closed, detached
    buf,        \* the two buffers
    active,     \* the one appended to
    pc,         \* where the flusher, or close() after it, is: top, sleep,
                \*   write, clear, notice, noted
    full,       \* the buffer it writes
    lost,       \* its copy of the drop counter
    log,        \* the lines in the file
    bytes,      \* m_bytesWritten
    capped,     \* m_capped
    dropped,    \* m_dropped
    reported,   \* m_droppedReported
    told,       \* (history) drops the file names
    lines,      \* lines noted so far
    taken,   \* (history) the lines a buffer took
    discarded,  \* (history) the lines the size cap discarded
    before,     \* (history) drops counted when the buffers were swapped
    torn        \* (history) the buffer that was being updated at the end, or 2
vars == <<stage, buf, active, pc, full, lost, log, bytes, capped, dropped,
          reported, told, lines, taken, discarded, before, torn>>
flusher == <<pc, full, lost, log, bytes, capped, reported, told, discarded, before>>

Line == [n : 1 .. MaxLines, size : LineSizes]
Size(b) == FoldSeq(LAMBDA l, sum : sum + l.size, 0, b)

\* open()
Init ==
    /\ stage = "run" /\ buf = [i \in {0, 1} |-> <<>>] /\ active = 0
    /\ pc = "top" /\ full = 0 /\ lost = 0
    /\ log = <<>> /\ bytes = 0 /\ capped = FALSE
    /\ dropped = 0 /\ reported = 0 /\ told = 0
    /\ lines = 0 /\ taken = <<>> /\ discarded = <<>> /\ before = 0 /\ torn = 2

\* note(), on any thread while the log is open: append(), in its lock.
Note ==
    /\ stage = "run" /\ lines < MaxLines
    /\ lines' = lines + 1
    /\ \E s \in LineSizes :
          LET l == [n |-> lines + 1, size |-> s]
          IN  IF Size(buf[active]) + s > BufferCap
              THEN dropped' = dropped + 1 /\ UNCHANGED <<buf, taken>>
              ELSE /\ buf' = [buf EXCEPT ![active] = Append(@, l)]
                   /\ taken' = Append(taken, l)
                   /\ UNCHANGED dropped
    /\ UNCHANGED <<flusher, stage, active, torn>>
-----------------------------------------------------------------------------
\* flusherMain() until it is told to stop; then close() writes both buffers.
Top ==
    /\ pc = "top"
    /\ CASE stage = "run" -> pc' = "sleep" /\ UNCHANGED <<stage, full>>
         [] stage = "stopping" -> pc' = "write" /\ full' = 0 /\ stage' = "first"
         [] stage = "first" -> pc' = "write" /\ full' = 1 /\ stage' = "second"
         [] stage = "second" -> stage' = "closed" /\ UNCHANGED <<pc, full>>
         [] OTHER -> FALSE
    /\ UNCHANGED <<buf, active, lost, log, bytes, capped, dropped, reported, told, lines,
                   taken, discarded, before, torn>>

\* The buffers are swapped in the lock.  The mutant takes the index after the swap.
FullAfterSwap == 1 - active
Full == active
Swap ==
    /\ pc = "sleep" /\ stage # "detached"
    /\ full' = Full /\ active' = 1 - active /\ before' = dropped
    /\ pc' = "write"
    /\ UNCHANGED <<stage, buf, lost, log, bytes, capped, dropped, reported, told, lines,
                   taken, discarded, torn>>

\* writeBuffer(): nothing to do, the size cap, or the write.
Idle == buf[full] = <<>> /\ dropped = reported
AtCap == MaxBytes # 0 /\ bytes >= MaxBytes
Write ==
    /\ pc = "write" /\ stage # "detached"
    /\ \/ Idle /\ pc' = "top" /\ UNCHANGED <<buf, log, bytes, capped, discarded>>
       \/ /\ ~Idle /\ AtCap
          /\ capped' = TRUE /\ discarded' = discarded \o buf[full]
          /\ buf' = [buf EXCEPT ![full] = <<>>]
          /\ pc' = "top" /\ UNCHANGED <<log, bytes>>
       \/ /\ ~Idle /\ ~AtCap
          /\ log' = log \o buf[full] /\ bytes' = bytes + Size(buf[full])
          /\ pc' = IF buf[full] = <<>> THEN "notice" ELSE "clear"
          /\ UNCHANGED <<buf, capped, discarded>>
    /\ UNCHANGED <<stage, active, full, lost, dropped, reported, told, lines, taken,
                   before, torn>>

Clear ==
    /\ pc = "clear" /\ stage # "detached"
    /\ buf' = [buf EXCEPT ![full] = <<>>] /\ pc' = "notice"
    /\ UNCHANGED <<stage, active, full, lost, log, bytes, capped, dropped, reported, told,
                   lines, taken, discarded, before, torn>>

\* The notice, one byte long here, names the drops counted when it was made.
Notice ==
    /\ pc = "notice" /\ stage # "detached"
    /\ lost' = dropped
    /\ IF dropped > reported THEN pc' = "noted" /\ bytes' = bytes + 1 /\ told' = dropped
                             ELSE pc' = "top" /\ UNCHANGED <<bytes, told>>
    /\ UNCHANGED <<stage, buf, active, full, log, capped, dropped, reported, lines,
                   taken, discarded, before, torn>>

Noted ==
    /\ pc = "noted" /\ stage # "detached"
    /\ reported' = lost /\ pc' = "top"
    /\ UNCHANGED <<stage, buf, active, full, lost, log, bytes, capped, dropped, told, lines,
                   taken, discarded, before, torn>>
-----------------------------------------------------------------------------
\* close(): no line is taken any more and the flusher ends after its pass.
Close ==
    /\ stage = "run"
    /\ stage' = "stopping"
    /\ UNCHANGED <<flusher, buf, active, dropped, lines, taken, torn>>

\* detachDuringProcessExit(): the flusher is dead wherever it was.  A thread
\* killed in append() leaves the active buffer, and the flusher killed in the
\* clear its own, in a state that may end the attempt when it is reached.  Once
\* close() has begun the function returns at once and what close() had not
\* written is lost: that end is a behaviour that stops.
Detach ==
    /\ stage = "run"
    /\ stage' = "detached"
    /\ \E t \in {active, 2} \cup (IF pc = "clear" THEN {full} ELSE {}) :
          LET Saved == CASE t = 2 -> buf[0] \o buf[1]
                         [] t = 1 -> buf[0]
                         [] t = 0 -> <<>>
          IN  /\ torn' = t
              /\ log' = log \o Saved
              /\ told' = IF t = 2 THEN dropped ELSE told
    /\ UNCHANGED <<buf, active, pc, full, lost, bytes, capped, dropped, reported, lines,
                   taken, discarded, before>>

Next == Note \/ Top \/ Swap \/ Write \/ Clear \/ Notice \/ Noted \/ Close \/ Detach

Spec == Init /\ [][Next]_vars
-----------------------------------------------------------------------------
\* Until the process ends under it, the file with the buffers holds every line
\* taken, once and in order, but for what the size cap discarded; a closed log
\* holds nothing back (log.cpp:250-313, 350-363, 469-486).
Unwritten ==
    IF pc = "clear" THEN buf[1 - full] ELSE buf[1 - active] \o buf[active]
LinesAreKept ==
    /\ stage # "detached" => log \o discarded \o Unwritten = taken
    /\ stage = "closed" => Unwritten = <<>>
    /\ discarded # <<>> => capped

\* Drops counted before a swap are named in the file before the next one, and
\* all of them before the log is closed, unless the size cap was reached
\* (log.cpp:314-347, 437-452).
DropsAreTold ==
    /\ pc = "sleep" => capped \/ told >= before
    /\ stage = "closed" => capped \/ told = dropped

\* The end of the process loses no line and no drop unless it interrupted an
\* update of the buffers, and repeats a line only when it fell between the write
\* and the clear of its buffer (log.cpp:415-467).
EndIsSaved ==
    stage = "detached" =>
        /\ torn = 2 => /\ ToSet(taken) \subseteq ToSet(log) \cup ToSet(discarded)
                       /\ told = dropped
        /\ pc = "clear" \/ IsInjective(log)

LogContract == LinesAreKept /\ DropsAreTold /\ EndIsSaved
=============================================================================
