-------------------------------- MODULE Wal ---------------------------------
(***************************************************************************)
(* The write-ahead log (crates/l5m-core/src/wal.rs): what an append leaves *)
(* in the file.                                                            *)
(***************************************************************************)
EXTENDS StoreOps

CONSTANT Garbage  \* a line that is read back as no operation

ASSUME GarbageAssumption == Garbage \notin Ops

\* The prefixes of a line an append can leave behind: none of it, a part of
\* it, all but its newline, all of it (then at most the sync is missing).
Prefixes == {"nothing", "torn", "unterminated", "whole"}

\* The file after `prefix` of the line for op has been written to it; `open`
\* says that its last line lacks the newline.  A line that follows such a line
\* runs together with it, and the result parses as no operation.
AppendPrefix(lines, open, op, prefix) ==
    IF prefix = "nothing" THEN <<lines, open>>
    ELSE <<IF open THEN [lines EXCEPT ![Len(lines)] = Garbage]
           ELSE Append(lines, IF prefix = "torn" THEN Garbage ELSE op),
           prefix # "whole">>

=============================================================================
