------------------------------- MODULE Logger -------------------------------
(***************************************************************************)
(* The log file (core/logger.cpp).  Sizes are counted in units of the      *)
(* header, text is left out, and so are the mutex, as only the main thread *)
(* logs, and the lines below the minimum level, which leave no trace.  The *)
(* card may refuse an open, a rename and any write; a stream that has      *)
(* failed to write writes nothing until it is opened again, and nobody     *)
(* looks.                                                                  *)
(***************************************************************************)
EXTENDS Integers

CONSTANTS
  MaxLogBytes,  \* kMaxLogBytes, 512 KB
  LineBytes,    \* the lengths of lines with their line ends
  SizeModulus   \* size_t counts up to this, 2^32 on both consoles

HeaderBytes == 1

\* The length of no line comes near what size_t can count.
ASSUME LoggerAssumption ==
  /\ MaxLogBytes \in Nat \ {0}
  /\ LineBytes \subseteq Nat \ {0}
  /\ \E longest \in LineBytes : \A n \in LineBytes : n <= longest
  /\ SizeModulus \in Nat
  /\ \A m, n \in LineBytes : MaxLogBytes + HeaderBytes + m + n < SizeModulus

VARIABLE
  log    \* the lengths of the file and of the one before it, gLogReady, gLogBytes,
         \* and whether the stream is good

\* Before initLogFile.
NoLog == [file |-> 0, rotated |-> 0, ready |-> FALSE, bytes |-> 0, good |-> FALSE]

\* openFreshLogLocked: tellp is -1 when the header could not be written, though
\* the log counts as ready; a file that does not open stays as it is.
Fresh(l) ==
  {[l EXCEPT !.file = HeaderBytes, !.ready = TRUE, !.bytes = HeaderBytes, !.good = TRUE],
   [l EXCEPT !.file = 0, !.ready = TRUE, !.bytes = SizeModulus - 1, !.good = FALSE],
   [l EXCEPT !.ready = FALSE, !.bytes = 0, !.good = FALSE]}

\* rotateLocked: without the rename the new log starts over the old one, and the
\* one before that may be gone all the same.
Rotations(l) ==
  Fresh([l EXCEPT !.rotated = l.file, !.file = 0])
    \cup Fresh(l)
    \cup Fresh([l EXCEPT !.rotated = 0])

\* Variant: the length of the line is not looked at.
LimitWasReached(n) == log.bytes > MaxLogBytes

LimitReached(n) == (log.bytes + n) % SizeModulus > MaxLogBytes

\* A line goes to the file as far as the stream and the card take it, and counts
\* in full either way.
Written(l, n) ==
  IF ~l.ready THEN {l}
  ELSE LET counted == [l EXCEPT !.bytes = (@ + n) % SizeModulus]
       IN  IF ~l.good THEN {counted}
           ELSE {[counted EXCEPT !.file = @ + k, !.good = (k = n)] : k \in 0..n}

\* logInternal
LogLine(n) ==
  /\ log.ready
  /\ log' \in UNION {Written(l, n) : l \in IF LimitReached(n) THEN Rotations(log) ELSE {log}}

InitLogFile == log' \in Fresh(log)

ShutdownLogFile == log' = [log EXCEPT !.ready = FALSE, !.bytes = 0, !.good = FALSE]

LongestLine == CHOOSE n \in LineBytes : \A k \in LineBytes : k <= n

FileLimit ==
  IF HeaderBytes + LongestLine > MaxLogBytes THEN HeaderBytes + LongestLine ELSE MaxLogBytes

\* Neither file grows beyond the limit, or beyond the header and one line where a
\* line alone is longer: not by failed writes, failed renames or the count that
\* wraps when the length of a fresh log is unknown.
LogStaysBounded ==
  log.file <= FileLimit /\ log.rotated <= FileLimit
=============================================================================
