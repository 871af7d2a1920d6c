---------------------------- MODULE PosixLogger ----------------------------
(***************************************************************************)
(* Lines of the info log: PosixLogger::Logv of util/posix_logger.h.           *)
(*                                                                           *)
(* The sizes are scaled: a buffer of 12 characters on the stack, a header of  *)
(* four and a thread id of at most three.                                     *)
(***************************************************************************)
EXTENDS Integers, Sequences, SequencesExt, FiniteSetsExt

kStackBufferSize == 12
kLineHeaderSize == 4
kMaxThreadIdSize == 3

NewLine == 1

\* The date, the time and the thread id, cut to its largest size.
LogHeader(thread_size) == [i \in 1..kLineHeaderSize + Min({thread_size, kMaxThreadIdSize}) |-> 0]

\* The second iteration has a buffer of the size the first one measured.  snprintf returns the
\* length of the whole text and writes a terminator behind what fits.
Logv(header, message) ==
    LET all == header \o message
        Fits(size) == Len(all) < size - 1
        size == IF Fits(kStackBufferSize) THEN kStackBufferSize ELSE Len(all) + 2
        offset == IF Fits(size) THEN Len(all) ELSE size - 1
        line == SubSeq(all, 1, offset)
    IN  [buffer_size |-> size,
         line |-> IF line[offset] # NewLine THEN Append(line, NewLine) ELSE line]

\* A message of any length is written whole, on a line of its own, inside the buffer; the
\* second buffer is never found too small.
LogvAgrees(message, thread_size) ==
    LET header == LogHeader(thread_size)
        all == header \o message
        log == Logv(header, message)
    IN  /\ Len(header) < kStackBufferSize
        /\ Len(log.line) <= log.buffer_size /\ Len(all) < log.buffer_size - 1
        /\ log.line = IF Last(all) = NewLine THEN all ELSE Append(all, NewLine)
=============================================================================
