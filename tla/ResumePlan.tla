----------------------------- MODULE ResumePlan -----------------------------
(***************************************************************************)
(* Where a download can go on (core/persistence.cpp): the part files of a  *)
(* ROM, named after the offset of what they hold, and the plan made of     *)
(* them.  A file is [offset, size]; the offset is NotANumber when what     *)
(* follows the prefix in its name is none.  Offset and size of a file on a *)
(* card stay far from 2^64.                                                *)
(***************************************************************************)
EXTENDS Integers, FiniteSets, Sequences, SequencesExt

NotANumber == -1

Part(offset, size) == [offset |-> offset, size |-> size]

Plan(mode, bytes) == [mode |-> mode, bytes |-> bytes]

DetectPartChunks(files) == {f \in files : f.offset # NotANumber}

\* The order of the sort: by offset, of equal ones the longest first.
SortsBefore(a, b) == a.offset < b.offset \/ (a.offset = b.offset /\ a.size > b.size)

\* Position k is that of the chunk that k - 1 others sort before.
Sorted(chunks) ==
  [k \in 1..Cardinality(chunks) |->
     CHOOSE c \in chunks : Cardinality({d \in chunks : SortsBefore(d, c)}) = k - 1]

\* Variant: a chunk within an earlier one moves the end back.
ExtendedByLast(sofar, c) ==
  IF sofar.gap \/ c.offset > sofar.contiguous THEN [sofar EXCEPT !.gap = TRUE]
  ELSE [sofar EXCEPT !.contiguous = c.offset + c.size]

\* One more chunk: it may overlap what there is, not leave a hole.
Extended(sofar, c) ==
  IF sofar.gap \/ c.offset > sofar.contiguous THEN [sofar EXCEPT !.gap = TRUE]
  ELSE IF c.offset + c.size > sofar.contiguous
       THEN [sofar EXCEPT !.contiguous = c.offset + c.size]
       ELSE sofar

PlanResume(expectedBytes, chunks) ==
  LET joined == FoldLeft(Extended, [gap |-> FALSE, contiguous |-> 0], Sorted(chunks))
  IN  IF chunks = {} THEN Plan("StartFresh", 0)
      ELSE IF joined.gap THEN Plan("RestartDueToGap", 0)
      ELSE Plan("ResumeFromPartial",
                IF expectedBytes < joined.contiguous THEN expectedBytes ELSE joined.contiguous)

\* What a plan has to be, byte by byte: the file is taken up behind bytes that
\* are all there, as late as possible, and given up only where some are missing
\* in front of a part.
BytesOf(chunk) == chunk.offset..(chunk.offset + chunk.size - 1)

IsPlanFor(plan, expectedBytes, chunks) ==
  LET there == UNION {BytesOf(c) : c \in chunks}
      hole  == \E c \in chunks : \E b \in 0..(c.offset - 1) : b \notin there
  IN  CASE plan.mode = "StartFresh"        -> chunks = {}
        [] plan.mode = "RestartDueToGap"   -> hole
        [] plan.mode = "ResumeFromPartial" ->
             /\ chunks # {} /\ ~hole
             /\ 0..(plan.bytes - 1) \subseteq there
             /\ plan.bytes < expectedBytes => plan.bytes \notin there
=============================================================================
