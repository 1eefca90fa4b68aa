------------------------- MODULE DurableStore_proofs -------------------------
(***************************************************************************)
(* Theorems about DurableStore: what survives crashes, torn writes and     *)
(* interrupted checkpoints, for any ids and contents, any number of        *)
(* crashes, lines and files, and every threshold of the store; and about   *)
(* WalReplay: open_durable's fold of the log, which DurableStore's replay  *)
(* stands for.                                                             *)
(***************************************************************************)
EXTENDS DurableStore, WalReplay, StoreOps_proofs

LogLine == Ops \cup {Garbage}
File == [ok : BOOLEAN, seg : Segment]

Checkpointing == {"ckpt_write", "ckpt_adopt", "ckpt_truncate"}

\* The processes that hold a whole store in memory.
Serving == {"up", "append"} \cup Checkpointing

-----------------------------------------------------------------------------
(* Types, with what a step takes for granted of the step before it. *)

ShapeInv ==
    /\ TypeOK
    /\ open_line => wal # <<>>
    /\ proc = "append" => pending \in Ops
    /\ proc \in Checkpointing => files # <<>>

\* What an append may leave: the old log, a log with a line that parses as
\* nothing, or the old log and the new line.
Outcome(lines, open, op, prefix, new, unterminated) ==
    /\ new \in Seq(LogLine) /\ unterminated \in BOOLEAN
    /\ unterminated => new # <<>>
    /\ lines # <<>> => new # <<>>
    /\ \/ new = lines /\ prefix # "whole"
       \/ \E i \in DOMAIN new : new[i] = Garbage
       \/ new = Append(lines, op)
    /\ ~open /\ prefix = "whole" => new = Append(lines, op) /\ unterminated = FALSE
    /\ prefix = "nothing" => new = lines /\ unterminated = open

LEMMA WriteOutcome ==
    ASSUME NEW lines \in Seq(LogLine), NEW open \in BOOLEAN, NEW op \in LogLine,
           NEW prefix \in Prefixes, open => lines # <<>>
    PROVE  Outcome(lines, open, op, prefix, AppendPrefix(lines, open, op, prefix)[1],
                   AppendPrefix(lines, open, op, prefix)[2])
<1> DEFINE new == AppendPrefix(lines, open, op, prefix)
<1>1. Garbage \in LogLine /\ op \in LogLine
  BY DEF LogLine
<1>2. CASE prefix = "nothing"
  <2>1. new[1] = lines /\ new[2] = open
    BY <1>2 DEF AppendPrefix
  <2> HIDE DEF new
  <2>2. Outcome(lines, open, op, prefix, new[1], new[2])
    BY <1>2, <2>1 DEF Outcome
  <2> QED  BY <2>2 DEF new
<1>3. CASE open /\ prefix # "nothing"
  <2> DEFINE cut == [lines EXCEPT ![Len(lines)] = Garbage]
  <2>1. new[1] = cut /\ new[2] = (prefix # "whole")
    BY <1>3 DEF AppendPrefix
  <2>2. Len(lines) \in 1 .. Len(lines) /\ DOMAIN lines = 1 .. Len(lines)
    BY <1>3
  <2>3. cut \in Seq(LogLine) /\ DOMAIN cut = 1 .. Len(lines) /\ cut[Len(lines)] = Garbage
    BY <1>1, <2>2
  <2>4. cut # <<>>
    BY <2>2, <2>3
  <2>5. \E i \in DOMAIN cut : cut[i] = Garbage
    BY <2>2, <2>3
  <2> HIDE DEF new, cut
  <2>6. Outcome(lines, open, op, prefix, new[1], new[2])
    BY <1>3, <2>1, <2>3, <2>4, <2>5 DEF Outcome
  <2> QED  BY <2>6 DEF new
<1>4. CASE ~open /\ prefix # "nothing"
  <2> DEFINE x == IF prefix = "torn" THEN Garbage ELSE op
             longer == Append(lines, x)
  <2>1. new[1] = longer /\ new[2] = (prefix # "whole")
    BY <1>4 DEF AppendPrefix, Prefixes
  <2>2. x \in LogLine
    BY <1>1
  <2>3. x = Garbage \/ x = op
    OBVIOUS
  <2>4. prefix = "whole" => x = op
    OBVIOUS
  <2> HIDE DEF x
  <2>5. /\ longer \in Seq(LogLine) /\ longer # <<>>
        /\ Len(lines) + 1 \in DOMAIN longer /\ longer[Len(lines) + 1] = x
    BY <2>2
  <2>6. x = Garbage => \E i \in DOMAIN longer : longer[i] = Garbage
    BY <2>5
  <2>7. x = op => longer = Append(lines, op)
    OBVIOUS
  <2> HIDE DEF new, longer
  <2>8. Outcome(lines, open, op, prefix, new[1], new[2])
    BY <1>4, <2>1, <2>3, <2>4, <2>5, <2>6, <2>7 DEF Outcome
  <2> QED  BY <2>8 DEF new
<1> QED  BY <1>2, <1>3, <1>4

LEMMA DiskTypes == TypeOK => wal \in Seq(LogLine) /\ files \in Seq(File)
BY DEF TypeOK, LogLine, File

LEMMA NewestType ==
    ASSUME NEW seq \in Seq(File), seq # <<>>
    PROVE  Len(seq) \in DOMAIN seq /\ seq[Len(seq)] \in File
OBVIOUS

LEMMA BaseType ==
    ASSUME TypeOK
    PROVE  Base \in Seq(Segment)
<1>1. CASE files = <<>>
  BY <1>1, ConfigBaseAssumption DEF Base
<1>2. CASE files # <<>>
  <2>1. files[Len(files)] \in File
    BY <1>2, DiskTypes, NewestType
  <2> QED  BY <1>2, <2>1, ConfigBaseAssumption DEF Base, File
<1> QED  BY <1>1, <1>2

LEMMA NewFileType ==
    ASSUME TypeOK, NEW ok \in BOOLEAN
    PROVE  NewFile(ok) \in File
<1>1. store.next_epoch \in Nat /\ CollectAll(store) \in Tier
  BY CollectType DEF TypeOK, Store
<1> QED  BY <1>1 DEF NewFile, File, Segment

LEMMA ReplaceLastType ==
    ASSUME NEW seq \in Seq(File), seq # <<>>, NEW x \in File
    PROVE  /\ ReplaceLast(seq, x) \in Seq(File) /\ ReplaceLast(seq, x) # <<>>
           /\ Len(ReplaceLast(seq, x)) = Len(seq)
           /\ ReplaceLast(seq, x)[Len(seq)] = x
<1>1. Len(seq) \in 1 .. Len(seq) /\ DOMAIN seq = 1 .. Len(seq)
  OBVIOUS
<1>2. ReplaceLast(seq, x) \in [1 .. Len(seq) -> File]
  BY <1>1 DEF ReplaceLast
<1>3. Len(ReplaceLast(seq, x)) = Len(seq)
  BY <1>1, <1>2 DEF ReplaceLast
<1> QED  BY <1>1, <1>2, <1>3 DEF ReplaceLast

LEMMA AppendFileType ==
    ASSUME NEW seq \in Seq(File), NEW x \in File
    PROVE  /\ Append(seq, x) \in Seq(File) /\ Append(seq, x) # <<>>
           /\ Len(Append(seq, x)) = Len(seq) + 1 /\ Len(seq) \in Nat
           /\ Append(seq, x)[Len(seq) + 1] = x
           /\ \A i \in 1 .. Len(seq) : Append(seq, x)[i] = seq[i]
OBVIOUS

\* A checkpoint that has begun is the last file.
LEMMA BegunFile ==
    ASSUME TypeOK, BeginCheckpoint
    PROVE  files' \in Seq(File) /\ files' # <<>> /\ files'[Len(files')] = NewFile(FALSE)
<1>1. NewFile(FALSE) \in File /\ files \in Seq(File)
  BY NewFileType, DiskTypes
<1>2. CASE files' = Append(files, NewFile(FALSE))
  <2>1. Len(files') = Len(files) + 1 /\ files' # <<>> /\ files' \in Seq(File)
    BY <1>1, <1>2, AppendFileType
  <2>2. files'[Len(files) + 1] = NewFile(FALSE)
    BY <1>1, <1>2, AppendFileType
  <2> QED  BY <2>1, <2>2
<1>3. CASE files # <<>> /\ files' = ReplaceLast(files, NewFile(FALSE))
  BY <1>1, <1>3, ReplaceLastType
<1> QED  BY <1>2, <1>3 DEF BeginCheckpoint

LEMMA OpenEmptyType == OpenSegments(<<>>) \in Store
<1>1. <<>> \in Seq(Segment)
  OBVIOUS
<1> QED  BY <1>1, OpenType

LEMMA ShapeInit == Init => ShapeInv
<1> SUFFICES ASSUME Init  PROVE ShapeInv
  OBVIOUS
<1>1. allowed \in [Ids -> SUBSET (Capsules \cup {NoCapsule})]
  BY ConfigBaseAssumption, HeldType DEF Init
<1>2. wal \in Seq(Ops \cup {Garbage}) /\ files \in Seq([ok : BOOLEAN, seg : Segment])
  BY DEF Init
<1>3. store \in Store
  BY OpenEmptyType DEF Init
<1>4. /\ open_line = FALSE /\ proc = "down" /\ cursor = 1 /\ pending = NoOp
      /\ crashes = 0
  BY DEF Init
<1>7. log_hurt \in BOOLEAN /\ unread \in SUBSET Ids /\ ckpt_hurt \in Harms
  BY DEF Init, Harms
<1>5. open_line \in BOOLEAN /\ ~open_line
  BY <1>4
<1>6. /\ proc \in Procs /\ proc # "append" /\ proc \notin Checkpointing
      /\ cursor \in Nat \ {0} /\ pending \in Ops \cup {NoOp} /\ crashes \in Nat
  BY <1>4 DEF Procs, Checkpointing
<1> QED  BY <1>1, <1>2, <1>3, <1>5, <1>6, <1>7 DEF ShapeInv, TypeOK

\* The line of an operation is the operation or one that is refused.
LEMMA LineType ==
    ASSUME NEW op \in Ops
    PROVE  LineFor(op) \in LogLine /\ (LineFor(op) = op \/ LineFor(op) = Garbage)
BY DEF LineFor, LogLine

\* What a write of the pending operation leaves of the disk's types.
LEMMA WriteShape ==
    ASSUME ShapeInv, proc = "append", NEW prefix \in Prefixes, WriteLine(prefix)
    PROVE  /\ Outcome(wal, open_line, LineFor(pending), prefix, wal', open_line')
           /\ wal' \in Seq(LogLine) /\ open_line' \in BOOLEAN
           /\ open_line' => wal' # <<>>
           /\ log_hurt' \in BOOLEAN
<1>1. /\ wal \in Seq(LogLine) /\ open_line \in BOOLEAN /\ pending \in Ops
      /\ open_line => wal # <<>>
  BY DiskTypes DEF ShapeInv, TypeOK
<1> DEFINE line == LineFor(pending)
<1>2. line \in LogLine
  BY <1>1, LineType
<1>3. /\ wal' = AppendPrefix(wal, open_line, line, prefix)[1]
      /\ open_line' = AppendPrefix(wal, open_line, line, prefix)[2]
  BY DEF WriteLine
<1>4. log_hurt' \in BOOLEAN
  BY DEF WriteLine, ShapeInv, TypeOK
<1> HIDE DEF line
<1>5. Outcome(wal, open_line, line, prefix,
              AppendPrefix(wal, open_line, line, prefix)[1],
              AppendPrefix(wal, open_line, line, prefix)[2])
  BY <1>1, <1>2, WriteOutcome
<1>6. Outcome(wal, open_line, line, prefix, wal', open_line')
  BY <1>3, <1>5
<1>7. wal' \in Seq(LogLine) /\ open_line' \in BOOLEAN /\ (open_line' => wal' # <<>>)
  BY <1>6 DEF Outcome
<1> QED  BY <1>4, <1>6, <1>7 DEF line

\* Widening or settling what an id may read keeps the type of allowed.
LEMMA AllowedType ==
    ASSUME ShapeInv, pending \in Ops
    PROVE  /\ [allowed EXCEPT ![pending.id] = @ \cup {pending.cap}]
                  \in [Ids -> SUBSET (Capsules \cup {NoCapsule})]
           /\ [allowed EXCEPT ![pending.id] = {pending.cap}]
                  \in [Ids -> SUBSET (Capsules \cup {NoCapsule})]
<1>1. pending.id \in Ids /\ {pending.cap} \in SUBSET (Capsules \cup {NoCapsule})
  BY DEF Ops
<1>2. allowed \in [Ids -> SUBSET (Capsules \cup {NoCapsule})]
  BY DEF ShapeInv, TypeOK
<1> QED  BY <1>1, <1>2

LEMMA ShapeStep == ASSUME ShapeInv, [Next]_vars  PROVE ShapeInv'
<1> USE DEF ShapeInv, TypeOK, Procs, Checkpointing, disk, harm, Harms
<1>1. CASE Start
  BY <1>1, BaseType, OpenType DEF Start
<1>2. CASE StartRefused \/ StartAgain
  BY <1>2 DEF StartRefused, StartAgain
<1>3. CASE ReplayLine
  <2>1. wal[cursor] \in Ops
    <3>1. cursor \in 1 .. Len(wal) /\ wal \in Seq(LogLine)
      BY <1>3, DiskTypes DEF ReplayLine
    <3>2. wal[cursor] \in LogLine
      BY <3>1
    <3> QED  BY <1>3, <3>2 DEF ReplayLine, LogLine
  <2>2. store' \in Store
    BY <1>3, <2>1, ReplayOpFields DEF ReplayLine
  <2> QED  BY <1>3, <2>2 DEF ReplayLine
<1>4. CASE ReplayRefused
  BY <1>4, OpenEmptyType DEF ReplayRefused
<1>5. CASE ReplayEnd
  BY <1>5, RebuildType DEF ReplayEnd
<1>6. ASSUME NEW op \in Ops, BeginWrite(op)  PROVE ShapeInv'
  BY <1>6 DEF BeginWrite
<1>7. CASE EndWrite
  <2>1. "whole" \in Prefixes /\ WriteLine("whole") /\ proc = "append" /\ pending \in Ops
    BY <1>7 DEF EndWrite, Prefixes
  <2>2. store' \in Store
    BY <1>7, <2>1, ApplyType DEF EndWrite
  <2>3. /\ wal' \in Seq(LogLine) /\ open_line' \in BOOLEAN /\ (open_line' => wal' # <<>>)
        /\ log_hurt' \in BOOLEAN
    BY <2>1, WriteShape
  <2>4. allowed' \in [Ids -> SUBSET (Capsules \cup {NoCapsule})]
    BY <1>7, <2>1, AllowedType DEF EndWrite
  <2>5. unread' \in SUBSET Ids
    BY <1>7, <2>1 DEF EndWrite, Ops
  <2> QED  BY <1>7, <2>2, <2>3, <2>4, <2>5 DEF EndWrite, LogLine
<1>8. CASE FailWrite
  <2>1. PICK prefix \in WritePrefixes : WriteLine(prefix)
    BY <1>8 DEF FailWrite
  <2>2. prefix \in Prefixes /\ proc = "append" /\ pending \in Ops
    BY <1>8, PrefixesAssumption DEF FailWrite
  <2>3. /\ wal' \in Seq(LogLine) /\ open_line' \in BOOLEAN /\ (open_line' => wal' # <<>>)
        /\ log_hurt' \in BOOLEAN
    BY <2>1, <2>2, WriteShape
  <2>4. allowed' \in [Ids -> SUBSET (Capsules \cup {NoCapsule})]
    BY <1>8, <2>2, AllowedType DEF FailWrite, MayTakeEffect
  <2> QED  BY <1>8, <2>3, <2>4 DEF FailWrite, LogLine
<1>9. CASE MinorCompact
  BY <1>9, CompactDeltaType DEF MinorCompact
<1>10. CASE BeginCheckpoint
  <2>1. files' \in Seq(File) /\ files' # <<>>
    BY <1>10, BegunFile
  <2>2. ckpt_hurt' \in Harms
    BY <1>10 DEF BeginCheckpoint
  <2> QED  BY <1>10, <2>1, <2>2 DEF BeginCheckpoint, File
<1>11. CASE WriteCheckpoint
  <2>1. NewFile(TRUE) \in File /\ files \in Seq(File)
    BY NewFileType, DiskTypes
  <2>2. files' \in Seq(File) /\ files' # <<>>
    BY <1>11, <2>1, ReplaceLastType DEF WriteCheckpoint
  <2> QED  BY <1>11, <2>2 DEF WriteCheckpoint, File
<1>12. CASE FailCheckpoint
  BY <1>12 DEF FailCheckpoint
<1>13. CASE AdoptCheckpoint
  <2>1. files[Len(files)] \in File
    BY <1>13, DiskTypes, NewestType DEF AdoptCheckpoint
  <2>2. files[Len(files)].seg.caps \in Tier
    BY <2>1 DEF File, Segment
  <2>3. store' \in Store
    BY <1>13, <2>2, AdoptBaseType DEF AdoptCheckpoint
  <2> QED  BY <1>13, <2>3 DEF AdoptCheckpoint
<1>14. CASE TruncateWal \/ FailTruncate
  <2>1. wal' \in Seq(Ops \cup {Garbage})
    <3>1. <<>> \in Seq(Ops \cup {Garbage}) /\ wal \in Seq(Ops \cup {Garbage})
      OBVIOUS
    <3>2. wal' = <<>> \/ wal' = wal
      BY <1>14 DEF TruncateWal, FailTruncate
    <3> QED  BY <3>1, <3>2
  <2>2. open_line' => open_line /\ wal' = wal
    BY <1>14 DEF TruncateWal, FailTruncate
  <2>3. open_line' \in BOOLEAN /\ proc' = "up"
    BY <1>14 DEF TruncateWal, FailTruncate
  <2>4. UNCHANGED <<files, cursor, store, pending, allowed, crashes, ckpt_hurt>>
    BY <1>14 DEF TruncateWal, FailTruncate
  <2>5. log_hurt' \in BOOLEAN /\ unread' \in SUBSET Ids
    BY <1>14 DEF TruncateWal, FailTruncate
  <2> QED  BY <2>1, <2>2, <2>3, <2>4, <2>5
<1>15. CASE CrashInAppend
  <2>1. PICK prefix \in WritePrefixes : WriteLine(prefix)
    BY <1>15 DEF CrashInAppend
  <2>2. prefix \in Prefixes /\ proc = "append" /\ pending \in Ops
    BY <1>15, PrefixesAssumption DEF CrashInAppend
  <2>3. /\ wal' \in Seq(LogLine) /\ open_line' \in BOOLEAN /\ (open_line' => wal' # <<>>)
        /\ log_hurt' \in BOOLEAN
    BY <2>1, <2>2, WriteShape
  <2>4. allowed' \in [Ids -> SUBSET (Capsules \cup {NoCapsule})]
    BY <1>15, <2>2, AllowedType DEF CrashInAppend, MayTakeEffect
  <2> QED  BY <1>15, <2>3, <2>4, OpenEmptyType DEF CrashInAppend, Dead, LogLine
<1>16. CASE CrashInCheckpoint \/ Crash
  BY <1>16, OpenEmptyType DEF CrashInCheckpoint, Crash, Dead
<1>17. CASE UNCHANGED vars
  BY <1>17 DEF vars
<1> QED  BY <1>1, <1>2, <1>3, <1>4, <1>5, <1>6, <1>7, <1>8, <1>9, <1>10, <1>11,
            <1>12, <1>13, <1>14, <1>15, <1>16, <1>17 DEF Next

LEMMA ShapeHolds == Spec => []ShapeInv
BY ShapeInit, ShapeStep, PTL DEF Spec

\* Every variable of DurableStore keeps its type.
THEOREM TypeCorrect == Spec => []TypeOK
<1>1. ShapeInv => TypeOK
  BY DEF ShapeInv
<1> QED  BY <1>1, ShapeHolds, PTL

-----------------------------------------------------------------------------
(* What the log says of an id, as far as it is read. *)

\* An id of which the segments named in L5M_SEGMENTS say nothing.
Unconfigured(id) == ~Holds(ConfigBase, id)

Readable(lines, n) == \A i \in 1 .. n : lines[i] # Garbage

\* The i-th line is the last of the first n about id; none of them is.
Latest(lines, i, n, id) ==
    /\ i \in 1 .. n /\ lines[i].id = id
    /\ \A j \in 1 .. n : lines[j].id = id => j <= i

Silent(lines, n, id) == \A j \in 1 .. n : lines[j].id # id

LEMMA LatestOrSilent ==
    ASSUME NEW lines, NEW n \in Nat, NEW id
    PROVE  Silent(lines, n, id) \/ \E i \in 1 .. n : Latest(lines, i, n, id)
<1> DEFINE S == {i \in 1 .. n : lines[i].id = id}
<1>1. CASE S = {}
  BY <1>1 DEF Silent
<1>2. CASE S # {}
  <2>1. PICK m \in S : \A k \in S : k <= m
    <3>1. S \in SUBSET (1 .. n)
      OBVIOUS
    <3> HIDE DEF S
    <3> QED  BY <1>2, <3>1, GreatestIndex
  <2>2. Latest(lines, m, n, id)
    BY <2>1 DEF Latest
  <2> QED  BY <2>2
<1> QED  BY <1>1, <1>2

\* One line more is read: it is the latest about its own id, and changes
\* nothing for the others.
LEMMA NextLine ==
    ASSUME NEW lines, NEW n \in Nat, NEW id, NEW i
    PROVE  /\ Latest(lines, i, n + 1, id) /\ lines[n + 1].id = id => i = n + 1
           /\ Latest(lines, i, n + 1, id) /\ lines[n + 1].id # id => Latest(lines, i, n, id)
           /\ Silent(lines, n + 1, id) => lines[n + 1].id # id /\ Silent(lines, n, id)
<1>1. n + 1 \in 1 .. n + 1 /\ \A j \in 1 .. n : j \in 1 .. n + 1
  OBVIOUS
<1>2. ASSUME Latest(lines, i, n + 1, id)
      PROVE  /\ i \in 1 .. n + 1 /\ lines[i].id = id
             /\ \A j \in 1 .. n + 1 : lines[j].id = id => j <= i
  BY <1>2 DEF Latest
<1>3. ASSUME Latest(lines, i, n + 1, id), lines[n + 1].id = id
      PROVE  i = n + 1
  <2>1. n + 1 <= i
    BY <1>1, <1>2, <1>3
  <2> QED  BY <1>2, <1>3, <2>1
<1>4. ASSUME Latest(lines, i, n + 1, id), lines[n + 1].id # id
      PROVE  Latest(lines, i, n, id)
  <2>1. i # n + 1
    BY <1>2, <1>4
  <2>2. i \in 1 .. n
    BY <1>2, <1>4, <2>1
  <2> QED  BY <1>1, <1>2, <1>4, <2>2 DEF Latest
<1>5. ASSUME Silent(lines, n + 1, id)
      PROVE  lines[n + 1].id # id /\ Silent(lines, n, id)
  BY <1>1, <1>5 DEF Silent
<1> QED  BY <1>3, <1>4, <1>5

\* Appending does not change the lines that are there.
LEMMA SamePrefix ==
    ASSUME NEW lines, NEW more, NEW n \in Nat, \A i \in 1 .. n : more[i] = lines[i],
           NEW id, NEW i
    PROVE  /\ Latest(more, i, n, id) <=> Latest(lines, i, n, id)
           /\ Silent(more, n, id) <=> Silent(lines, n, id)
           /\ Readable(more, n) <=> Readable(lines, n)
BY DEF Latest, Silent, Readable

\* The log agrees with what its ids may read.
Agrees(lines, may) ==
    Readable(lines, Len(lines)) =>
        \A id \in Ids, i \in 1 .. Len(lines) :
            Latest(lines, i, Len(lines), id) => lines[i].cap \in may[id]

LEMMA AppendAgrees ==
    ASSUME NEW lines \in Seq(LogLine), NEW op \in Ops, NEW may, NEW more, Agrees(lines, may),
           op.cap \in more[op.id], \A k \in Ids : k # op.id => more[k] = may[k]
    PROVE  /\ Agrees(Append(lines, op), more)
           /\ Readable(Append(lines, op), Len(lines) + 1) => Readable(lines, Len(lines))
           /\ \A id : Silent(Append(lines, op), Len(lines) + 1, id) =>
                          op.id # id /\ Silent(lines, Len(lines), id)
<1> DEFINE n == Len(lines)
           longer == Append(lines, op)
<1>1. op \in LogLine
  BY DEF LogLine
<1>2. /\ n \in Nat /\ Len(longer) = n + 1 /\ longer[n + 1] = op
      /\ \A i \in 1 .. n : longer[i] = lines[i]
  BY <1>1
<1> HIDE DEF longer, n
<1>3. Readable(longer, n + 1) => Readable(lines, n)
  BY <1>2 DEF Readable
<1>4. ASSUME Readable(longer, n + 1), NEW id \in Ids, NEW i \in 1 .. n + 1,
             Latest(longer, i, n + 1, id)
      PROVE  longer[i].cap \in more[id]
  <2>1. CASE op.id = id
    <3>1. longer[n + 1].id = id
      BY <1>2, <2>1
    <3>2. i = n + 1
      BY <1>2, <1>4, <3>1, NextLine
    <3> QED  BY <1>2, <2>1, <3>2
  <2>2. CASE op.id # id
    <3>1. Latest(longer, i, n, id)
      BY <1>2, <1>4, <2>2, NextLine
    <3>2. Latest(lines, i, n, id) /\ i \in 1 .. n
      BY <1>2, <3>1, SamePrefix DEF Latest
    <3>3. lines[i].cap \in may[id]
      BY <1>3, <1>4, <3>2 DEF Agrees, n
    <3> QED  BY <1>2, <2>2, <3>2, <3>3
  <2> QED  BY <2>1, <2>2
<1>5. Agrees(longer, more)
  BY <1>2, <1>4 DEF Agrees
<1>6. \A id : Silent(longer, n + 1, id) => op.id # id /\ Silent(lines, n, id)
  BY <1>2, NextLine, SamePrefix
<1> QED  BY <1>3, <1>5, <1>6 DEF longer, n

-----------------------------------------------------------------------------
(* What a start makes of the disk. *)

\* Of an unconfigured id the newest checkpoint is the only base that speaks.
LEMMA CheckpointSpeaks ==
    ASSUME NEW seg \in Segment, NEW id \in Ids, Unconfigured(id)
    PROVE  /\ LastHeld(Append(ConfigBase, seg), id) = seg.caps[id]
           /\ FirstHeld(Append(ConfigBase, seg), id) = seg.caps[id]
           /\ LastHeld(ConfigBase, id) = NoCapsule
           /\ FirstHeld(ConfigBase, id) = NoCapsule
<1> DEFINE base == Append(ConfigBase, seg)
           n == Len(ConfigBase)
<1>1. /\ n \in Nat /\ base \in Seq(Segment) /\ ConfigBase \in Seq(Segment)
      /\ DOMAIN ConfigBase = 1 .. n /\ DOMAIN base = 1 .. n + 1
      /\ base[n + 1] = seg /\ \A i \in 1 .. n : base[i] = ConfigBase[i]
  BY ConfigBaseAssumption
<1>2. LastHeld(ConfigBase, id) = NoCapsule /\ FirstHeld(ConfigBase, id) = NoCapsule
  BY <1>1, HeldType DEF Unconfigured
<1>3. \A i \in 1 .. n : ConfigBase[i].caps[id] = NoCapsule
  BY <1>1 DEF Unconfigured, Holds
<1>4. /\ LastHeld(base, id) = IF seg.caps[id] # NoCapsule THEN seg.caps[id]
                             ELSE LastHeld(ConfigBase, id)
      /\ Holds(base, id) <=> seg.caps[id] # NoCapsule \/ Holds(ConfigBase, id)
  BY <1>1, LastHeldAppend
<1> HIDE DEF base, n
<1>5. FirstHeld(base, id) = seg.caps[id]
  <2>1. CASE Holds(base, id)
    <3>1. PICK i \in DOMAIN base : /\ base[i].caps[id] # NoCapsule
                                   /\ FirstHeld(base, id) = base[i].caps[id]
      BY <1>1, <2>1, FirstHeldIndex
    <3>2. i = n + 1
      BY <1>1, <1>3, <3>1
    <3> QED  BY <1>1, <3>1, <3>2
  <2>2. CASE ~Holds(base, id)
    <3>1. FirstHeld(base, id) = NoCapsule
      BY <2>2 DEF FirstHeld
    <3>2. seg.caps[id] = NoCapsule
      BY <1>4, <2>2
    <3> QED  BY <3>1, <3>2
  <2> QED  BY <2>1, <2>2
<1> QED  BY <1>2, <1>4, <1>5 DEF base

\* So base segments never disagree about it.
LEMMA BaseSpeaks ==
    ASSUME TypeOK, NEW id \in Ids, Unconfigured(id)
    PROVE  /\ FirstHeld(Base, id) = LastHeld(Base, id)
           /\ files # <<>> => LastHeld(Base, id) = files[Len(files)].seg.caps[id]
<1>1. CASE files = <<>>
  <2>1. NoSegment \in Segment
    BY NoSegmentType
  <2>2. LastHeld(ConfigBase, id) = NoCapsule /\ FirstHeld(ConfigBase, id) = NoCapsule
    BY <2>1, CheckpointSpeaks
  <2> QED  BY <1>1, <2>2 DEF Base
<1>2. CASE files # <<>>
  <2>1. files[Len(files)] \in File
    BY <1>2, DiskTypes, NewestType
  <2>2. files[Len(files)].seg \in Segment
    BY <2>1 DEF File
  <2>3. Base = Append(ConfigBase, files[Len(files)].seg)
    BY <1>2 DEF Base
  <2> QED  BY <2>2, <2>3, CheckpointSpeaks
<1> QED  BY <1>1, <1>2

\* A store that has just been opened holds its base and nothing else.
LEMMA OpenLive ==
    ASSUME NEW base \in Seq(Segment)
    PROVE  /\ \A id \in Ids : Live(OpenSegments(base))[id] = LastHeld(base, id)
           /\ OpenSegments(base).segments = base
<1> DEFINE s == OpenSegments(base)
<1>1. /\ s.delta = EmptyTier /\ s.tombstones = {}
      /\ s.sealed_deltas = <<>> /\ s.segments = base
  BY DEF OpenSegments
<1> HIDE DEF s
<1>2. ASSUME NEW id \in Ids  PROVE Live(s)[id] = LastHeld(base, id)
  <2>1. s.delta[id] = NoCapsule /\ ~Holds(s.sealed_deltas, id)
    BY <1>1, HeldEmpty DEF EmptyTier
  <2> QED  BY <1>1, <2>1 DEF Live
<1> QED  BY <1>1, <1>2 DEF s

\* collect_live(true) keeps an id on which the base segments agree.
LEMMA CollectKeeps ==
    ASSUME NEW s, NEW id \in Ids, FirstHeld(s.segments, id) = LastHeld(s.segments, id)
    PROVE  CollectAll(s)[id] = Live(s)[id]
BY DEF CollectAll, Live

-----------------------------------------------------------------------------
(* The inductive invariant. *)

\* What a start refuses: a line of the log, or the newest checkpoint file.
Refusable == ~Readable(wal, Len(wal)) \/ ~CanOpenBase

\* The log agrees with what was acknowledged, and so does, where the log is
\* silent, the base that the next start would open.
DiskInv ==
    /\ Agrees(wal, allowed)
    /\ ~Refusable => \A id \in Ids : Unconfigured(id) /\ Silent(wal, Len(wal), id) =>
                         LastHeld(Base, id) \in allowed[id]

\* Replay has done what the lines before the cursor say on top of the base.
ReplayInv ==
    proc = "replay" =>
        /\ CanOpenBase /\ cursor <= Len(wal) + 1 /\ Readable(wal, cursor - 1)
        /\ \A id \in Ids :
              /\ \A i \in 1 .. cursor - 1 :
                     Latest(wal, i, cursor - 1, id) => Live(store)[id] = wal[i].cap
              /\ Silent(wal, cursor - 1, id) => Live(store)[id] = LastHeld(Base, id)

\* A whole store in memory answers what it may and has its index.
ServingInv ==
    proc \in Serving =>
        /\ Indexed(store)
        /\ \A id \in Ids : Unconfigured(id) => Live(store)[id] \in allowed[id]

\* Its base segments do not disagree about an unconfigured id.
AgreedBaseInv ==
    proc \in Serving \cup {"replay"} =>
        \A id \in Ids : Unconfigured(id) =>
            FirstHeld(store.segments, id) = LastHeld(store.segments, id)

\* The file a checkpoint writes does not open before it is written; then it is
\* what the store collects, and once it is adopted, what the store holds.
CheckpointInv ==
    /\ proc = "ckpt_write" => ~files[Len(files)].ok
    /\ proc = "ckpt_adopt" => /\ files[Len(files)].ok
                              /\ files[Len(files)].seg.caps = CollectAll(store)
    /\ proc = "ckpt_truncate" => /\ Opens(files[Len(files)])
                                 /\ files[Len(files)].seg.caps = Live(store)

\* Without harm done to it the log is whole and the newest checkpoint opens.
HarmInv ==
    /\ log_hurt \/ (Readable(wal, Len(wal)) /\ ~open_line)
    /\ ckpt_hurt = "no" => CanOpenBase /\ proc \notin {"ckpt_write", "ckpt_adopt"}
    /\ RefusesOnlyHarmed

DurableInv ==
    ShapeInv /\ DiskInv /\ ReplayInv /\ ServingInv /\ AgreedBaseInv /\ CheckpointInv
    /\ HarmInv

-----------------------------------------------------------------------------
(* The disk. *)

\* A write keeps the disk in order when what its id may read is settled to the
\* new content, or widened by it if the write may not have happened.
LEMMA WriteDisk ==
    ASSUME ShapeInv, DiskInv, proc = "append", UNCHANGED files,
           NEW prefix \in Prefixes, WriteLine(prefix),
           pending.cap \in allowed'[pending.id],
           \A k \in Ids : k # pending.id => allowed'[k] = allowed[k],
           prefix # "whole" => \A k \in Ids : allowed[k] \subseteq allowed'[k]
    PROVE  DiskInv'
<1>1. /\ Outcome(wal, open_line, LineFor(pending), prefix, wal', open_line')
      /\ wal \in Seq(LogLine) /\ wal' \in Seq(LogLine) /\ pending \in Ops
  BY WriteShape, DiskTypes DEF ShapeInv
<1>2. Base' = Base /\ CanOpenBase' = CanOpenBase
  BY DEF Base, CanOpenBase
<1>3. CASE wal' = wal /\ prefix # "whole"
  <2>1. Agrees(wal', allowed')
    BY <1>3 DEF DiskInv, Agrees
  <2>2. ASSUME ~Refusable', NEW id \in Ids, Unconfigured(id), Silent(wal', Len(wal'), id)
        PROVE  LastHeld(Base', id) \in allowed'[id]
    <3>1. ~Refusable
      BY <1>2, <1>3, <2>2 DEF Refusable
    <3>2. LastHeld(Base, id) \in allowed[id]
      BY <1>3, <2>2, <3>1 DEF DiskInv
    <3> QED  BY <1>2, <1>3, <3>2
  <2> QED  BY <2>1, <2>2 DEF DiskInv
<1>4. CASE \E i \in DOMAIN wal' : wal'[i] = Garbage
  <2>2. ~Readable(wal', Len(wal'))
    BY <1>1, <1>4 DEF Readable
  <2>1. Refusable'
    BY <2>2 DEF Refusable
  <2>3. Agrees(wal', allowed')
    BY <2>2 DEF Agrees
  <2> QED  BY <2>1, <2>3 DEF DiskInv
<1>5. CASE wal' = Append(wal, LineFor(pending)) /\ LineFor(pending) = pending
  <2>1. Agrees(wal, allowed)
    BY DEF DiskInv
  <2>2. Len(wal') = Len(wal) + 1
    BY <1>1, <1>5 DEF LogLine
  <2>3. /\ Agrees(wal', allowed')
        /\ Readable(wal', Len(wal')) => Readable(wal, Len(wal))
        /\ \A id : Silent(wal', Len(wal'), id) =>
                       pending.id # id /\ Silent(wal, Len(wal), id)
    <3> DEFINE now == allowed
               next == allowed'
               lines == wal
               op == pending
    <3>1. lines \in Seq(LogLine) /\ op \in Ops /\ Agrees(lines, now)
      BY <1>1, <2>1
    <3>2. op.cap \in next[op.id] /\ \A k \in Ids : k # op.id => next[k] = now[k]
      OBVIOUS
    <3> HIDE DEF now, next, lines, op
    <3>3. /\ Agrees(Append(lines, op), next)
          /\ Readable(Append(lines, op), Len(lines) + 1) => Readable(lines, Len(lines))
          /\ \A id : Silent(Append(lines, op), Len(lines) + 1, id) =>
                         op.id # id /\ Silent(lines, Len(lines), id)
      BY <3>1, <3>2, AppendAgrees
    <3> QED  BY <1>5, <2>2, <3>3 DEF now, next, lines, op
  <2>4. ASSUME ~Refusable', NEW id \in Ids, Unconfigured(id), Silent(wal', Len(wal'), id)
        PROVE  LastHeld(Base', id) \in allowed'[id]
    <3>1. DOMAIN wal' = 1 .. Len(wal') /\ DOMAIN wal = 1 .. Len(wal)
      BY <1>1
    <3>2. Readable(wal', Len(wal'))
      BY <2>4 DEF Refusable
    <3>3. ~Refusable
      <4>1. Readable(wal, Len(wal))
        BY <2>3, <3>2
      <4> QED  BY <1>2, <2>4, <4>1 DEF Refusable
    <3>4. pending.id # id /\ Silent(wal, Len(wal), id)
      BY <2>3, <2>4
    <3>5. LastHeld(Base, id) \in allowed[id]
      BY <2>4, <3>3, <3>4 DEF DiskInv
    <3> QED  BY <1>2, <3>4, <3>5
  <2> QED  BY <2>3, <2>4 DEF DiskInv
<1>6. CASE wal' = Append(wal, LineFor(pending)) /\ LineFor(pending) = Garbage
  <2>1. Len(wal) + 1 \in DOMAIN wal' /\ wal'[Len(wal) + 1] = Garbage
    BY <1>1, <1>6 DEF LogLine
  <2> QED  BY <1>4, <2>1
<1> QED  BY <1>1, <1>3, <1>4, <1>5, <1>6, LineType DEF Outcome

LEMMA DiskStep == ASSUME DurableInv, [Next]_vars  PROVE DiskInv'
<1>0. /\ ShapeInv /\ DiskInv /\ ServingInv /\ AgreedBaseInv /\ CheckpointInv
      /\ allowed \in [Ids -> SUBSET (Capsules \cup {NoCapsule})]
  BY DEF DurableInv, ShapeInv, TypeOK
<1>1. ASSUME UNCHANGED <<wal, files, allowed>>  PROVE DiskInv'
  BY <1>0, <1>1 DEF DiskInv, Refusable, CanOpenBase, Base
<1>2. CASE EndWrite
  <2>1. "whole" \in Prefixes /\ WriteLine("whole") /\ proc = "append" /\ pending \in Ops
        /\ UNCHANGED files
    BY <1>0, <1>2 DEF EndWrite, Prefixes, ShapeInv
  <2>2. allowed' = [allowed EXCEPT ![pending.id] = {pending.cap}] /\ pending.id \in Ids
    BY <1>2, <2>1 DEF EndWrite, Ops
  <2>3. /\ pending.cap \in allowed'[pending.id]
        /\ \A k \in Ids : k # pending.id => allowed'[k] = allowed[k]
    BY <1>0, <2>2
  <2> QED  BY <1>0, <2>1, <2>3, WriteDisk
<1>3. CASE FailWrite \/ CrashInAppend
  <2>1. PICK prefix \in WritePrefixes : WriteLine(prefix)
    BY <1>3 DEF FailWrite, CrashInAppend
  <2>2. prefix \in Prefixes /\ proc = "append" /\ pending \in Ops /\ UNCHANGED files
    BY <1>0, <1>3, PrefixesAssumption DEF FailWrite, CrashInAppend, ShapeInv
  <2>3. /\ allowed' = [allowed EXCEPT ![pending.id] = @ \cup {pending.cap}]
        /\ pending.id \in Ids
    BY <1>3, <2>2 DEF FailWrite, CrashInAppend, MayTakeEffect, Ops
  <2>4. /\ pending.cap \in allowed'[pending.id]
        /\ \A k \in Ids : k # pending.id => allowed'[k] = allowed[k]
        /\ \A k \in Ids : allowed[k] \subseteq allowed'[k]
    BY <1>0, <2>3
  <2> QED  BY <1>0, <2>1, <2>2, <2>4, WriteDisk
<1>4. CASE BeginCheckpoint
  <2>1. UNCHANGED <<wal, allowed>>
    BY <1>4 DEF BeginCheckpoint
  <2>3. files' # <<>> /\ files'[Len(files')] = NewFile(FALSE)
    BY <1>0, <1>4, BegunFile DEF ShapeInv
  <2>4. Refusable'
    BY <2>3 DEF Refusable, CanOpenBase, Opens, NewFile
  <2> QED  BY <1>0, <2>1, <2>4 DEF DiskInv
<1>5. CASE WriteCheckpoint
  <2>1. UNCHANGED <<wal, allowed>> /\ proc \in Serving /\ files # <<>>
    BY <1>0, <1>5 DEF WriteCheckpoint, Serving, Checkpointing, ShapeInv
  <2>2. NewFile(TRUE) \in File /\ files \in Seq(File)
    BY <1>0, NewFileType, DiskTypes DEF ShapeInv
  <2>3. files' # <<>> /\ files'[Len(files')] = NewFile(TRUE)
    BY <1>5, <2>1, <2>2, ReplaceLastType DEF WriteCheckpoint
  <2>4. Base' = Append(ConfigBase, NewFile(TRUE).seg)
    BY <2>3 DEF Base
  <2>5. ASSUME NEW id \in Ids, Unconfigured(id)  PROVE LastHeld(Base', id) \in allowed'[id]
    <3>1. NewFile(TRUE).seg \in Segment
      BY <2>2 DEF File
    <3>2. LastHeld(Base', id) = NewFile(TRUE).seg.caps[id]
      BY <2>4, <2>5, <3>1, CheckpointSpeaks
    <3>3. NewFile(TRUE).seg.caps = CollectAll(store)
      BY DEF NewFile
    <3>4. CollectAll(store)[id] = Live(store)[id]
      BY <1>0, <2>1, <2>5, CollectKeeps DEF AgreedBaseInv
    <3>5. Live(store)[id] \in allowed[id]
      BY <1>0, <2>1, <2>5 DEF ServingInv
    <3> QED  BY <2>1, <3>2, <3>3, <3>4, <3>5
  <2> QED  BY <1>0, <2>1, <2>5 DEF DiskInv
<1>6. CASE TruncateWal
  <2>1. wal' = <<>> /\ UNCHANGED <<files, allowed>> /\ proc = "ckpt_truncate"
    BY <1>6 DEF TruncateWal
  <2>2. Len(wal') = 0
    BY <2>1
  <2>3. Agrees(wal', allowed')
    BY <2>2 DEF Agrees
  <2>4. ASSUME NEW id \in Ids, Unconfigured(id)  PROVE LastHeld(Base', id) \in allowed'[id]
    <3>1. Base' = Base
      BY <2>1 DEF Base
    <3>2. files # <<>> /\ files[Len(files)].seg.caps = Live(store) /\ proc \in Serving
      BY <1>0, <2>1 DEF CheckpointInv, ShapeInv, Serving, Checkpointing
    <3>3. LastHeld(Base, id) = Live(store)[id]
      BY <1>0, <2>4, <3>2, BaseSpeaks DEF ShapeInv
    <3>4. Live(store)[id] \in allowed[id]
      BY <1>0, <2>4, <3>2 DEF ServingInv
    <3> QED  BY <2>1, <3>1, <3>3, <3>4
  <2> QED  BY <2>3, <2>4 DEF DiskInv
<1>7. CASE \/ Start \/ StartRefused \/ StartAgain \/ ReplayLine \/ ReplayRefused \/ ReplayEnd
           \/ (\E op \in Ops : BeginWrite(op)) \/ MinorCompact \/ FailCheckpoint
           \/ AdoptCheckpoint \/ FailTruncate \/ CrashInCheckpoint \/ Crash
           \/ UNCHANGED vars
  <2>1. UNCHANGED <<wal, files, allowed>>
    BY <1>7 DEF Start, StartRefused, StartAgain, ReplayLine, ReplayRefused, ReplayEnd,
                BeginWrite, MinorCompact, FailCheckpoint, AdoptCheckpoint, FailTruncate,
                CrashInCheckpoint, Crash, disk, vars
  <2> QED  BY <1>1, <2>1
<1> QED  BY <1>2, <1>3, <1>4, <1>5, <1>6, <1>7 DEF Next

-----------------------------------------------------------------------------
(* Replay and the store in memory. *)

LEMMA ReplayStep == ASSUME DurableInv, [Next]_vars  PROVE ReplayInv'
<1>0. ShapeInv /\ ReplayInv /\ wal \in Seq(LogLine)
  BY DiskTypes DEF DurableInv, ShapeInv
<1>1. CASE proc' # "replay"
  BY <1>1 DEF ReplayInv
<1>2. CASE Start
  <2>1. /\ CanOpenBase /\ cursor' = 1 /\ UNCHANGED <<wal, files>>
        /\ store' = OpenSegments(Base)
    BY <1>2 DEF Start, disk
  <2>2. CanOpenBase' /\ Base' = Base /\ Len(wal) \in Nat
    BY <1>0, <2>1 DEF CanOpenBase, Base
  <2>3. cursor' - 1 = 0 /\ cursor' <= Len(wal') + 1 /\ 1 .. 0 = {}
    BY <2>1, <2>2
  <2>4. Readable(wal', 0)
    BY <2>3 DEF Readable
  <2>5. \A id \in Ids : Live(store')[id] = LastHeld(Base', id)
    <3>1. Base \in Seq(Segment)
      BY <1>0, BaseType DEF ShapeInv
    <3> QED  BY <2>1, <2>2, <3>1, OpenLive
  <2> QED  BY <2>2, <2>3, <2>4, <2>5 DEF ReplayInv
<1>3. CASE ReplayLine
  <2> DEFINE n == cursor - 1
             op == wal[cursor]
  <2>1. /\ proc = "replay" /\ cursor <= Len(wal) /\ wal[cursor] # Garbage
        /\ store' = ReplayOp(store, wal[cursor]) /\ cursor' = cursor + 1
        /\ UNCHANGED <<wal, files>>
    BY <1>3 DEF ReplayLine, disk
  <2>2. cursor \in Nat \ {0} /\ store \in Store /\ Len(wal) \in Nat
    BY <1>0 DEF ShapeInv, TypeOK
  <2>3. n \in Nat /\ n + 1 = cursor /\ cursor' - 1 = n + 1 /\ cursor' <= Len(wal') + 1
    BY <2>1, <2>2
  <2>4. op \in Ops
    <3>1. cursor \in 1 .. Len(wal)
      BY <2>1, <2>2
    <3>2. wal[cursor] \in LogLine
      BY <1>0, <3>1
    <3> QED  BY <2>1, <3>2 DEF LogLine
  <2>5. /\ CanOpenBase /\ Readable(wal, n)
        /\ \A id \in Ids :
              /\ \A i \in 1 .. n : Latest(wal, i, n, id) => Live(store)[id] = wal[i].cap
              /\ Silent(wal, n, id) => Live(store)[id] = LastHeld(Base, id)
    BY <1>0, <2>1 DEF ReplayInv
  <2>6. Live(store') = [Live(store) EXCEPT ![op.id] = op.cap]
    BY <2>1, <2>2, <2>4, ReplayOpLive
  <2>7. Live(store) \in [Ids -> Capsules \cup {NoCapsule}]
    BY <2>2, LiveType
  <2>8. CanOpenBase' /\ Base' = Base
    BY <2>1, <2>5 DEF CanOpenBase, Base
  <2>9. wal[n + 1] = op /\ op # Garbage
    BY <2>1, <2>3
  <2> HIDE DEF n, op
  <2>10. Readable(wal, n + 1)
    BY <2>3, <2>5, <2>9 DEF Readable
  <2>11. ASSUME NEW id \in Ids, NEW i \in 1 .. n + 1, Latest(wal, i, n + 1, id)
         PROVE  Live(store')[id] = wal[i].cap
    <3>1. CASE op.id = id
      <4>1. i = n + 1
        BY <2>3, <2>9, <2>11, <3>1, NextLine
      <4> QED  BY <2>6, <2>7, <2>9, <3>1, <4>1
    <3>2. CASE op.id # id
      <4>1. Latest(wal, i, n, id)
        BY <2>3, <2>9, <2>11, <3>2, NextLine
      <4>2. i \in 1 .. n
        BY <4>1 DEF Latest
      <4>3. Live(store)[id] = wal[i].cap
        BY <2>5, <4>1, <4>2
      <4> QED  BY <2>6, <2>7, <3>2, <4>3
    <3> QED  BY <3>1, <3>2
  <2>12. ASSUME NEW id \in Ids, Silent(wal, n + 1, id)
         PROVE  Live(store')[id] = LastHeld(Base, id)
    <3>1. op.id # id /\ Silent(wal, n, id)
      BY <2>3, <2>9, <2>12, NextLine
    <3>2. Live(store)[id] = LastHeld(Base, id)
      BY <2>5, <3>1
    <3> QED  BY <2>6, <2>7, <3>1, <3>2
  <2>13. UNCHANGED wal
    BY <2>1
  <2> QED  BY <2>3, <2>8, <2>10, <2>11, <2>12, <2>13 DEF ReplayInv
<1>4. CASE UNCHANGED vars
  BY <1>0, <1>4 DEF ReplayInv, vars, disk, CanOpenBase, Base
<1>5. Start \/ ReplayLine \/ UNCHANGED vars \/ proc' # "replay"
  BY DEF Next, StartRefused, StartAgain, ReplayRefused, ReplayEnd, BeginWrite, EndWrite,
         FailWrite, MinorCompact, BeginCheckpoint, WriteCheckpoint, FailCheckpoint,
         AdoptCheckpoint, TruncateWal, FailTruncate, CrashInAppend, CrashInCheckpoint,
         Crash, Dead
<1> QED  BY <1>1, <1>2, <1>3, <1>4, <1>5

LEMMA ServingStep == ASSUME DurableInv, [Next]_vars  PROVE ServingInv'
<1>0. /\ ShapeInv /\ DiskInv /\ ReplayInv /\ ServingInv /\ AgreedBaseInv /\ CheckpointInv
      /\ allowed \in [Ids -> SUBSET (Capsules \cup {NoCapsule})] /\ store \in Store
  BY DEF DurableInv, ShapeInv, TypeOK
<1>1. CASE proc' \notin Serving
  BY <1>1 DEF ServingInv
<1>2. CASE ReplayEnd
  <2>1. /\ proc = "replay" /\ cursor > Len(wal) /\ UNCHANGED allowed
        /\ store' = RebuildActiveSegment(store)
    BY <1>2 DEF ReplayEnd
  <2>2. wal \in Seq(LogLine) /\ cursor \in Nat /\ cursor <= Len(wal) + 1
    BY <1>0, <2>1, DiskTypes DEF ReplayInv, ShapeInv, TypeOK
  <2>3. cursor - 1 = Len(wal) /\ Len(wal) \in Nat
    BY <2>1, <2>2
  <2>4. /\ CanOpenBase /\ Readable(wal, Len(wal))
        /\ \A id \in Ids :
              /\ \A i \in 1 .. Len(wal) :
                     Latest(wal, i, Len(wal), id) => Live(store)[id] = wal[i].cap
              /\ Silent(wal, Len(wal), id) => Live(store)[id] = LastHeld(Base, id)
    BY <1>0, <2>1, <2>3 DEF ReplayInv
  <2>5. ~Refusable
    BY <2>4 DEF Refusable
  <2>6. Live(store') = Live(store) /\ Indexed(store')
    BY <1>0, <2>1, RebuildLive
  <2>7. ASSUME NEW id \in Ids, Unconfigured(id)  PROVE Live(store)[id] \in allowed[id]
    <3>1. CASE Silent(wal, Len(wal), id)
      BY <1>0, <2>4, <2>5, <2>7, <3>1 DEF DiskInv
    <3>2. CASE \E i \in 1 .. Len(wal) : Latest(wal, i, Len(wal), id)
      BY <1>0, <2>4, <3>2 DEF DiskInv, Agrees
    <3> QED  BY <2>3, <3>1, <3>2, LatestOrSilent
  <2> QED  BY <2>1, <2>6, <2>7 DEF ServingInv
<1>3. CASE EndWrite
  <2>1. /\ proc \in Serving /\ pending \in Ops /\ store' = Apply(store, pending)
        /\ allowed' = [allowed EXCEPT ![pending.id] = {pending.cap}]
    BY <1>0, <1>3 DEF EndWrite, ShapeInv, Serving
  <2>2. /\ Live(store') = [Live(store) EXCEPT ![pending.id] = pending.cap]
        /\ Indexed(store')
    BY <1>0, <2>1, ApplyLive
  <2>3. Live(store) \in [Ids -> Capsules \cup {NoCapsule}]
    BY <1>0, LiveType
  <2>4. \A id \in Ids : Unconfigured(id) => Live(store)[id] \in allowed[id]
    BY <1>0, <2>1 DEF ServingInv
  <2> QED  BY <1>0, <2>1, <2>2, <2>3, <2>4 DEF ServingInv
<1>4. CASE FailWrite
  <2>1. /\ proc \in Serving /\ UNCHANGED store
        /\ allowed' = [allowed EXCEPT ![pending.id] = @ \cup {pending.cap}]
    BY <1>4 DEF FailWrite, MayTakeEffect, Serving
  <2>2. \A id \in Ids : allowed[id] \subseteq allowed'[id]
    BY <1>0, <2>1
  <2> QED  BY <1>0, <2>1, <2>2 DEF ServingInv
<1>5. CASE MinorCompact
  <2>1. proc \in Serving /\ UNCHANGED allowed /\ store' = CompactDelta(store)
    BY <1>5 DEF MinorCompact, Serving
  <2>2. Indexed(store)
    BY <1>0, <2>1 DEF ServingInv
  <2>3. Live(store') = Live(store) /\ Indexed(store')
    BY <1>0, <2>1, <2>2, CompactDeltaLive
  <2> QED  BY <1>0, <2>1, <2>3 DEF ServingInv
<1>6. CASE AdoptCheckpoint
  <2>1. /\ proc = "ckpt_adopt" /\ proc \in Serving /\ UNCHANGED allowed
        /\ store' = AdoptBase(store, files[Len(files)].seg.caps)
    BY <1>6 DEF AdoptCheckpoint, Serving, Checkpointing
  <2>2. files[Len(files)].seg.caps = CollectAll(store) /\ CollectAll(store) \in Tier
    BY <1>0, <2>1, CollectType DEF CheckpointInv
  <2>3. Live(store') = CollectAll(store) /\ Indexed(store')
    BY <1>0, <2>1, <2>2, AdoptBaseLive
  <2>4. \A id \in Ids : Unconfigured(id) => CollectAll(store)[id] = Live(store)[id]
    BY <1>0, <2>1, CollectKeeps DEF AgreedBaseInv
  <2> QED  BY <1>0, <2>1, <2>3, <2>4 DEF ServingInv
<1>7. CASE proc \in Serving /\ UNCHANGED <<store, allowed>>
  BY <1>0, <1>7 DEF ServingInv
<1>8. \/ ReplayEnd \/ EndWrite \/ FailWrite \/ MinorCompact \/ AdoptCheckpoint
      \/ proc' \notin Serving
      \/ proc \in Serving /\ UNCHANGED <<store, allowed>>
  <2>1. CASE \/ Start \/ StartRefused \/ StartAgain \/ ReplayLine \/ ReplayRefused
             \/ CrashInAppend \/ CrashInCheckpoint \/ Crash
    <3>1. proc' \in {"down", "refused", "replay"}
      BY <2>1 DEF Start, StartRefused, StartAgain, ReplayLine, ReplayRefused,
                  CrashInAppend, CrashInCheckpoint, Crash, Dead
    <3> QED  BY <3>1 DEF Serving, Checkpointing
  <2>2. CASE \/ (\E op \in Ops : BeginWrite(op)) \/ BeginCheckpoint \/ WriteCheckpoint
             \/ FailCheckpoint \/ TruncateWal \/ FailTruncate
    BY <2>2 DEF BeginWrite, BeginCheckpoint, WriteCheckpoint, FailCheckpoint,
                TruncateWal, FailTruncate, Serving, Checkpointing
  <2>3. CASE UNCHANGED vars
    BY <2>3 DEF vars
  <2> QED  BY <2>1, <2>2, <2>3 DEF Next
<1> QED  BY <1>1, <1>2, <1>3, <1>4, <1>5, <1>6, <1>7, <1>8

\* No mutation but a compaction of everything touches the base.
LEMMA SameSegments ==
    ASSUME NEW s \in Store
    PROVE  CompactDelta(s).segments = s.segments
           /\ RebuildActiveSegment(s).segments = s.segments
<1>1. RebuildActiveSegment(s).segments = s.segments
  BY DEF RebuildActiveSegment, Store
<1>2. CASE s.sealed_deltas = <<>>
  BY <1>1, <1>2 DEF CompactDelta
<1>3. CASE s.sealed_deltas # <<>>
  BY <1>1, <1>3 DEF CompactDelta, Store
<1> QED  BY <1>2, <1>3

LEMMA AgreedBaseStep == ASSUME DurableInv, [Next]_vars  PROVE AgreedBaseInv'
<1>0. ShapeInv /\ AgreedBaseInv /\ CheckpointInv /\ TypeOK /\ store \in Store
  BY DEF DurableInv, ShapeInv, TypeOK
<1>1. CASE proc' \notin Serving \cup {"replay"}
  BY <1>1 DEF AgreedBaseInv
<1>2. CASE Start
  <2>1. store'.segments = Base
    BY <1>2 DEF Start, OpenSegments
  <2>2. \A id \in Ids : Unconfigured(id) => FirstHeld(Base, id) = LastHeld(Base, id)
    BY <1>0, BaseSpeaks
  <2> QED  BY <2>1, <2>2 DEF AgreedBaseInv
<1>3. CASE AdoptCheckpoint
  <2>1. /\ proc = "ckpt_adopt" /\ store' = AdoptBase(store, files[Len(files)].seg.caps)
    BY <1>3 DEF AdoptCheckpoint
  <2>2. files[Len(files)].seg.caps \in Tier
    BY <1>0, <2>1, CollectType DEF CheckpointInv
  <2>3. Disjoint(store'.segments) /\ store' \in Store
    BY <1>0, <2>1, <2>2, AdoptBaseLive, AdoptBaseType
  <2>4. store'.segments \in Seq(Segment)
    BY <2>3 DEF Store
  <2> QED  BY <2>3, <2>4, DisjointFirstIsLast DEF AgreedBaseInv
<1>4. CASE proc \in Serving \cup {"replay"} /\ store'.segments = store.segments
  BY <1>0, <1>4 DEF AgreedBaseInv
<1>5. CASE ReplayLine
  <2>1. wal[cursor] \in Ops
    <3>1. cursor \in 1 .. Len(wal) /\ wal \in Seq(LogLine) /\ wal[cursor] # Garbage
      BY <1>0, <1>5, DiskTypes DEF ReplayLine, TypeOK
    <3>2. wal[cursor] \in LogLine
      BY <3>1
    <3> QED  BY <3>1, <3>2 DEF LogLine
  <2>2. store'.segments = store.segments
    BY <1>0, <1>5, <2>1, ReplayOpFields DEF ReplayLine
  <2> QED  BY <1>4, <1>5, <2>2 DEF ReplayLine
<1>6. CASE ReplayEnd \/ MinorCompact
  <2>1. store'.segments = store.segments /\ proc \in Serving \cup {"replay"}
    BY <1>0, <1>6, SameSegments DEF ReplayEnd, MinorCompact, Serving
  <2> QED  BY <1>4, <2>1
<1>7. CASE EndWrite
  <2>1. pending \in Ops /\ store' = Apply(store, pending) /\ proc \in Serving
    BY <1>0, <1>7 DEF EndWrite, ShapeInv, Serving
  <2>2. store'.segments = store.segments
    BY <1>0, <2>1, ApplyLive
  <2> QED  BY <1>4, <2>1, <2>2
<1>8. \/ Start \/ AdoptCheckpoint \/ ReplayLine \/ ReplayEnd \/ MinorCompact \/ EndWrite
      \/ proc' \notin Serving \cup {"replay"}
      \/ proc \in Serving \cup {"replay"} /\ UNCHANGED store
  BY DEF Next, StartRefused, StartAgain, ReplayRefused, BeginWrite, FailWrite,
         BeginCheckpoint, WriteCheckpoint, FailCheckpoint, TruncateWal, FailTruncate,
         CrashInAppend, CrashInCheckpoint, Crash, Dead, vars, Serving, Checkpointing
<1>9. UNCHANGED store => store'.segments = store.segments
  OBVIOUS
<1> QED  BY <1>1, <1>2, <1>3, <1>4, <1>5, <1>6, <1>7, <1>8, <1>9

LEMMA CheckpointStep == ASSUME DurableInv, [Next]_vars  PROVE CheckpointInv'
<1>0. ShapeInv /\ CheckpointInv /\ TypeOK /\ store \in Store
  BY DEF DurableInv, ShapeInv, TypeOK
<1>1. CASE proc' \notin Checkpointing
  BY <1>1 DEF CheckpointInv, Checkpointing
<1>2. CASE BeginCheckpoint
  <2>1. proc' = "ckpt_write"
    BY <1>2 DEF BeginCheckpoint
  <2>2. ~files'[Len(files')].ok
    BY <1>0, <1>2, BegunFile DEF NewFile
  <2> QED  BY <2>1, <2>2 DEF CheckpointInv
<1>3. CASE WriteCheckpoint
  <2>1. files # <<>> /\ files \in Seq(File) /\ NewFile(TRUE) \in File
    BY <1>0, <1>3, NewFileType, DiskTypes DEF WriteCheckpoint, ShapeInv, Checkpointing
  <2>2. files'[Len(files')] = NewFile(TRUE)
    BY <1>3, <2>1, ReplaceLastType DEF WriteCheckpoint
  <2>3. NewFile(TRUE).ok /\ NewFile(TRUE).seg.caps = CollectAll(store)
    BY DEF NewFile
  <2> QED  BY <1>3, <2>2, <2>3 DEF WriteCheckpoint, CheckpointInv
<1>4. CASE AdoptCheckpoint
  <2>1. /\ proc = "ckpt_adopt" /\ store' = AdoptBase(store, files[Len(files)].seg.caps)
        /\ UNCHANGED files /\ proc' = "ckpt_truncate" /\ Opens(files[Len(files)])
    BY <1>4 DEF AdoptCheckpoint, disk
  <2>2. files[Len(files)].seg.caps \in Tier
    BY <1>0, <2>1, CollectType DEF CheckpointInv
  <2>3. Live(store') = files[Len(files)].seg.caps
    BY <1>0, <2>1, <2>2, AdoptBaseLive
  <2>4. Opens(files'[Len(files')])
    BY <2>1 DEF Opens
  <2> QED  BY <2>1, <2>3, <2>4 DEF CheckpointInv
<1>5. CASE UNCHANGED vars
  BY <1>0, <1>5 DEF CheckpointInv, vars, disk, Opens
<1>6. \/ BeginCheckpoint \/ WriteCheckpoint \/ AdoptCheckpoint \/ UNCHANGED vars
      \/ proc' \notin Checkpointing
  BY DEF Next, Start, StartRefused, StartAgain, ReplayLine, ReplayRefused, ReplayEnd,
         BeginWrite, EndWrite, FailWrite, MinorCompact, FailCheckpoint,
         TruncateWal, FailTruncate, CrashInAppend, CrashInCheckpoint, Crash, Dead,
         Checkpointing
<1> QED  BY <1>1, <1>2, <1>3, <1>4, <1>5, <1>6

-----------------------------------------------------------------------------
(* Harm. *)

\* A log without a refused line, and with its newline, stays one when a line
\* is appended that does it no harm.
LEMMA HarmlessAppend ==
    ASSUME ShapeInv, HarmInv, proc = "append", NEW prefix \in Prefixes, WriteLine(prefix)
    PROVE  log_hurt' \/ (Readable(wal', Len(wal')) /\ ~open_line')
<1> SUFFICES ASSUME ~log_hurt'  PROVE Readable(wal', Len(wal')) /\ ~open_line'
  OBVIOUS
<1>1. /\ wal \in Seq(LogLine) /\ pending \in Ops
      /\ Outcome(wal, open_line, LineFor(pending), prefix, wal', open_line')
  BY WriteShape, DiskTypes DEF ShapeInv
<1>2. ~log_hurt /\ ~Hurts(prefix)
  BY DEF WriteLine
<1>3. Readable(wal, Len(wal)) /\ ~open_line
  BY <1>2 DEF HarmInv
<1>4. prefix \in {"nothing", "whole"} /\ (prefix = "whole" => LineFor(pending) # Garbage)
  BY <1>2 DEF Hurts, Prefixes
<1>5. CASE prefix = "nothing"
  BY <1>1, <1>3, <1>5 DEF Outcome
<1>6. CASE prefix = "whole"
  <2>1. wal' = Append(wal, LineFor(pending)) /\ ~open_line'
    BY <1>1, <1>3, <1>6 DEF Outcome
  <2>2. /\ Len(wal') = Len(wal) + 1 /\ Len(wal) \in Nat
        /\ wal'[Len(wal) + 1] = LineFor(pending)
        /\ \A i \in 1 .. Len(wal) : wal'[i] = wal[i]
    BY <1>1, <2>1, LineType
  <2> QED  BY <1>3, <1>4, <1>6, <2>1, <2>2 DEF Readable
<1> QED  BY <1>4, <1>5, <1>6

LEMMA HarmStep == ASSUME DurableInv, [Next]_vars  PROVE HarmInv'
<1>0. ShapeInv /\ HarmInv /\ CheckpointInv
  BY DEF DurableInv
<1>1. log_hurt' \/ (Readable(wal', Len(wal')) /\ ~open_line')
  <2>1. CASE UNCHANGED <<wal, open_line, log_hurt>>
    BY <1>0, <2>1 DEF HarmInv
  <2>2. CASE TruncateWal
    <3>1. wal' = <<>> /\ open_line' = FALSE
      BY <2>2 DEF TruncateWal
    <3>2. Len(wal') = 0 /\ 1 .. 0 = {}
      BY <3>1
    <3> QED  BY <3>1, <3>2 DEF Readable
  <2>3. CASE EndWrite \/ FailWrite \/ CrashInAppend
    <3>1. "whole" \in Prefixes
      BY DEF Prefixes
    <3>2. proc = "append" /\ \E prefix \in Prefixes : WriteLine(prefix)
      BY <2>3, <3>1, PrefixesAssumption DEF EndWrite, FailWrite, CrashInAppend
    <3> QED  BY <1>0, <3>2, HarmlessAppend
  <2>4. \/ UNCHANGED <<wal, open_line, log_hurt>> \/ TruncateWal
        \/ EndWrite \/ FailWrite \/ CrashInAppend
    BY DEF Next, Start, StartRefused, StartAgain, ReplayLine, ReplayRefused, ReplayEnd,
           BeginWrite, MinorCompact, BeginCheckpoint, WriteCheckpoint, FailCheckpoint,
           AdoptCheckpoint, FailTruncate, CrashInCheckpoint, Crash, disk, harm, vars
  <2> QED  BY <2>1, <2>2, <2>3, <2>4
<1>2. ckpt_hurt' = "no" => CanOpenBase' /\ proc' \notin {"ckpt_write", "ckpt_adopt"}
  <2>1. CASE BeginCheckpoint
    <3>1. \/ ckpt_hurt' = IF ckpt_hurt = "no" THEN "unfinished" ELSE ckpt_hurt
          \/ /\ files # <<>>
             /\ ckpt_hurt' = IF Opens(files[Len(files)]) THEN "overwritten" ELSE ckpt_hurt
      BY <2>1 DEF BeginCheckpoint
    <3>2. ckpt_hurt = "no" /\ files # <<>> => Opens(files[Len(files)])
      BY <1>0 DEF HarmInv, CanOpenBase
    <3>3. ckpt_hurt' # "no"
      BY <3>1, <3>2
    <3> QED  BY <3>3
  <2>2. CASE WriteCheckpoint
    <3>1. proc = "ckpt_write" /\ ckpt_hurt' = ckpt_hurt
      BY <2>2 DEF WriteCheckpoint, harm
    <3> QED  BY <1>0, <3>1 DEF HarmInv
  <2>3. CASE AdoptCheckpoint
    <3>1. Opens(files[Len(files)]) /\ UNCHANGED files /\ proc' = "ckpt_truncate"
      BY <2>3 DEF AdoptCheckpoint, disk
    <3> QED  BY <3>1 DEF CanOpenBase, Opens
  <2>4. CASE /\ UNCHANGED <<files, ckpt_hurt>>
             /\ proc' \in {"ckpt_write", "ckpt_adopt"} => proc' = proc
    <3>1. CanOpenBase' = CanOpenBase
      BY <2>4 DEF CanOpenBase, Opens
    <3> QED  BY <1>0, <2>4, <3>1 DEF HarmInv
  <2>5. \/ BeginCheckpoint \/ WriteCheckpoint \/ AdoptCheckpoint
        \/ /\ UNCHANGED <<files, ckpt_hurt>>
           /\ proc' \in {"ckpt_write", "ckpt_adopt"} => proc' = proc
    BY DEF Next, Start, StartRefused, StartAgain, ReplayLine, ReplayRefused, ReplayEnd,
           BeginWrite, EndWrite, FailWrite, MinorCompact, FailCheckpoint, TruncateWal,
           FailTruncate, CrashInAppend, CrashInCheckpoint, Crash, Dead, disk, harm, vars
  <2> QED  BY <2>1, <2>2, <2>3, <2>4, <2>5
<1>3. RefusesOnlyHarmed'
  <2>1. CASE proc' # "refused"
    BY <2>1 DEF RefusesOnlyHarmed
  <2>2. CASE StartRefused
    BY <1>0, <2>2 DEF StartRefused, harm, HarmInv, Harmed, RefusesOnlyHarmed
  <2>3. CASE ReplayRefused
    <3>1. /\ cursor \in Nat \ {0} /\ cursor <= Len(wal) /\ wal[cursor] = Garbage
          /\ UNCHANGED log_hurt /\ wal \in Seq(LogLine)
      BY <1>0, <2>3, DiskTypes DEF ReplayRefused, harm, ShapeInv, TypeOK
    <3>2. cursor \in 1 .. Len(wal)
      BY <3>1
    <3>3. ~Readable(wal, Len(wal))
      BY <3>1, <3>2 DEF Readable
    <3> QED  BY <1>0, <3>1, <3>3 DEF HarmInv, Harmed, RefusesOnlyHarmed
  <2>4. CASE UNCHANGED vars
    BY <1>0, <2>4 DEF HarmInv, vars, harm, Harmed, RefusesOnlyHarmed
  <2>5. StartRefused \/ ReplayRefused \/ UNCHANGED vars \/ proc' # "refused"
    BY DEF Next, Start, StartAgain, ReplayLine, ReplayEnd, BeginWrite, EndWrite, FailWrite,
           MinorCompact, BeginCheckpoint, WriteCheckpoint, FailCheckpoint,
           AdoptCheckpoint, TruncateWal, FailTruncate, CrashInAppend, CrashInCheckpoint,
           Crash, Dead
  <2> QED  BY <2>1, <2>2, <2>3, <2>4, <2>5
<1> QED  BY <1>1, <1>2, <1>3 DEF HarmInv

LEMMA DurableInit == Init => DurableInv
<1> SUFFICES ASSUME Init  PROVE DurableInv
  OBVIOUS
<1>1. ShapeInv
  BY ShapeInit
<1>2. /\ wal = <<>> /\ files = <<>> /\ proc = "down"
      /\ allowed = [id \in Ids |-> {LastHeld(ConfigBase, id)}]
  BY DEF Init
<1>3. Len(wal) = 0
  BY <1>2
<1>4. Agrees(wal, allowed)
  BY <1>3 DEF Agrees
<1>5. Base = ConfigBase
  BY <1>2 DEF Base
<1>6. DiskInv
  BY <1>2, <1>4, <1>5 DEF DiskInv
<1>7. HarmInv
  <2>1. ckpt_hurt = "no" /\ open_line = FALSE
    BY DEF Init
  <2>2. Readable(wal, Len(wal))
    BY <1>3 DEF Readable
  <2> QED  BY <1>2, <2>1, <2>2 DEF HarmInv, CanOpenBase, RefusesOnlyHarmed
<1> QED  BY <1>1, <1>2, <1>6, <1>7 DEF DurableInv, ReplayInv, ServingInv, AgreedBaseInv,
            CheckpointInv, Serving, Checkpointing

LEMMA DurableHolds == Spec => []DurableInv
<1>1. DurableInv /\ [Next]_vars => DurableInv'
  <2> SUFFICES ASSUME DurableInv, [Next]_vars  PROVE DurableInv'
    OBVIOUS
  <2>1. ShapeInv'
    BY ShapeStep DEF DurableInv
  <2> QED  BY <2>1, DiskStep, ReplayStep, ServingStep, AgreedBaseStep, CheckpointStep,
              HarmStep DEF DurableInv
<1> QED  BY <1>1, DurableInit, PTL DEF Spec

-----------------------------------------------------------------------------
(* What follows. *)

\* A server refuses to start only where, since the log was last emptied, an
\* append stopped inside its line or took a capsule its line does not give
\* back, or where the last checkpoint to create its file was not adopted:
\* never because of when it died otherwise, and with any configured segments.
THEOREM RefusalMeansHarm == Spec => []RefusesOnlyHarmed
<1>1. DurableInv => RefusesOnlyHarmed
  BY DEF DurableInv, HarmInv
<1> QED  BY <1>1, DurableHolds, PTL

\* With any configured segments: of every id they do not name, a server that
\* serves answers what the last acknowledged operation wrote, or what a later
\* unacknowledged one would have.
THEOREM UnconfiguredWritesSurvive ==
    Spec => [](proc = "up" => /\ Visible(store) = Live(store)
                              /\ \A id \in Ids : Unconfigured(id) =>
                                     Live(store)[id] \in allowed[id])
<1>1. ASSUME DurableInv, proc = "up"
      PROVE  /\ Visible(store) = Live(store)
             /\ \A id \in Ids : Unconfigured(id) => Live(store)[id] \in allowed[id]
  <2>1. proc \in Serving
    BY <1>1 DEF Serving
  <2>2. Indexed(store) /\ \A id \in Ids : Unconfigured(id) => Live(store)[id] \in allowed[id]
    BY <1>1, <2>1 DEF DurableInv, ServingInv
  <2> QED  BY <2>2, IndexedVisible
<1> QED  BY <1>1, DurableHolds, PTL

\* When the configured segments name no id at all, acknowledged writes survive.
THEOREM WritesSurvive ==
    ASSUME \A id \in Ids : Unconfigured(id)
    PROVE  Spec => []AckedWritesSurvive
<1>1. ASSUME DurableInv  PROVE AckedWritesSurvive
  <2> SUFFICES ASSUME proc = "up"
               PROVE  /\ \A id \in Ids : Live(store)[id] \in allowed[id]
                      /\ Visible(store) = Live(store)
    BY DEF AckedWritesSurvive
  <2>1. proc \in Serving
    BY DEF Serving
  <2>2. Indexed(store) /\ \A id \in Ids : Live(store)[id] \in allowed[id]
    BY <1>1, <2>1 DEF DurableInv, ServingInv
  <2> QED  BY <2>2, IndexedVisible
<1> QED  BY <1>1, DurableHolds, PTL

\* The log is emptied only behind a newest checkpoint that opens and holds the
\* whole live state - with any configured segments.
THEOREM DroppedOnlyBehindCheckpoint == Spec => LogDroppedOnlyBehindCheckpoint
<1>1. ASSUME DurableInv, [Next]_vars, wal # <<>>, wal' = <<>>
      PROVE  /\ files' # <<>>
             /\ Opens(files'[Len(files')])
             /\ files'[Len(files')].seg.caps = Live(store)'
  <2>1. CASE TruncateWal
    <3>1. /\ proc = "ckpt_truncate" /\ UNCHANGED <<files, store>>
      BY <2>1 DEF TruncateWal
    <3>2. /\ files # <<>> /\ Opens(files[Len(files)])
          /\ files[Len(files)].seg.caps = Live(store)
      BY <1>1, <3>1 DEF DurableInv, CheckpointInv, ShapeInv, Checkpointing
    <3> QED  BY <3>1, <3>2 DEF Opens
  <2>2. CASE EndWrite \/ FailWrite \/ CrashInAppend
    <3>1. \E prefix \in Prefixes : WriteLine(prefix)
      <4>1. "whole" \in Prefixes
        BY DEF Prefixes
      <4> QED  BY <2>2, <4>1, PrefixesAssumption DEF EndWrite, FailWrite, CrashInAppend
    <3>2. proc = "append" /\ ShapeInv
      BY <1>1, <2>2 DEF EndWrite, FailWrite, CrashInAppend, DurableInv
    <3>3. wal' # <<>>
      BY <1>1, <3>1, <3>2, WriteShape DEF Outcome
    <3> QED  BY <1>1, <3>3
  <2>3. CASE UNCHANGED wal
    BY <1>1, <2>3
  <2>4. TruncateWal \/ EndWrite \/ FailWrite \/ CrashInAppend \/ UNCHANGED wal
    BY <1>1 DEF Next, Start, StartRefused, StartAgain, ReplayLine, ReplayRefused, ReplayEnd,
           BeginWrite, MinorCompact, BeginCheckpoint, WriteCheckpoint, FailCheckpoint,
           AdoptCheckpoint, FailTruncate, CrashInCheckpoint, Crash, disk, vars
  <2> QED  BY <2>1, <2>2, <2>3, <2>4
<1> QED  BY <1>1, DurableHolds, PTL DEF Spec, LogDroppedOnlyBehindCheckpoint

\* From the first step of compact_to to its last no answer changes, when the
\* configured segments name no id.
THEOREM CheckpointKeepsAnswers ==
    ASSUME \A id \in Ids : Unconfigured(id)
    PROVE  Spec => CheckpointInvisible
<1>1. ASSUME DurableInv, [Next]_vars, proc' # "down", proc \in Checkpointing
      PROVE  Visible(store)' = Visible(store) /\ Live(store)' = Live(store)
  <2>1. CASE UNCHANGED store
    BY <2>1 DEF Visible, Live
  <2>2. CASE AdoptCheckpoint
    <3>1. /\ proc = "ckpt_adopt" /\ store' = AdoptBase(store, files[Len(files)].seg.caps)
          /\ store \in Store /\ proc \in Serving
      BY <1>1, <2>2 DEF AdoptCheckpoint, DurableInv, ShapeInv, TypeOK, Serving
    <3>2. files[Len(files)].seg.caps = CollectAll(store) /\ CollectAll(store) \in Tier
      BY <1>1, <3>1, CollectType DEF DurableInv, CheckpointInv
    <3>3. Live(store') = CollectAll(store) /\ Indexed(store') /\ Indexed(store)
      BY <1>1, <3>1, <3>2, AdoptBaseLive DEF DurableInv, ServingInv
    <3>4. \A id \in Ids : CollectAll(store)[id] = Live(store)[id]
      BY <1>1, <3>1, CollectKeeps DEF DurableInv, AgreedBaseInv
    <3>5. CollectAll(store) = Live(store)
      BY <3>4 DEF CollectAll, Live
    <3>6. Visible(store') = Live(store') /\ Visible(store) = Live(store)
      BY <3>3, IndexedVisible
    <3> QED  BY <3>3, <3>5, <3>6
  <2>3. UNCHANGED store \/ AdoptCheckpoint
    BY <1>1 DEF Next, Start, StartRefused, StartAgain, ReplayLine, ReplayRefused, ReplayEnd,
           BeginWrite, EndWrite, FailWrite, MinorCompact, BeginCheckpoint,
           WriteCheckpoint, FailCheckpoint, TruncateWal, FailTruncate,
           CrashInAppend, CrashInCheckpoint, Crash, Dead, vars, Checkpointing
  <2> QED  BY <2>1, <2>2, <2>3
<1> QED  BY <1>1, DurableHolds, PTL DEF Spec, CheckpointInvisible, Checkpointing

-----------------------------------------------------------------------------
(* What the disk holds of the acknowledged writes, under every fault.        *)

\* DurableBase and OnDisk as functions of what is on the disk.
DurableOf(fs) ==
    IF {i \in DOMAIN fs : Opens(fs[i])} = {} THEN ConfigBase
    ELSE Append(ConfigBase,
                fs[CHOOSE i \in {k \in DOMAIN fs : Opens(fs[k])} :
                       \A j \in {k \in DOMAIN fs : Opens(fs[k])} : j <= i].seg)

Found(lines, base, id) ==
    IF Logged(lines, id) = {} THEN LastHeld(base, id)
    ELSE lines[CHOOSE i \in Logged(lines, id) : \A j \in Logged(lines, id) : j <= i].cap

\* The disk gives back what the id may read, or says nothing of it because
\* the file that did is being written again.
Kept(lines, base, may, hurt, id) ==
    \/ Found(lines, base, id) \in may[id]
    \/ hurt = "overwritten" /\ Logged(lines, id) = {}

\* A line without its newline can be lost to the next append, so that the
\* lines before it must do on their own.
OnDiskInv ==
    /\ \A id \in Ids \ unread : Kept(wal, DurableOf(files), allowed, ckpt_hurt, id)
    /\ open_line => \E before \in Seq(LogLine) : \E last \in LogLine :
           /\ wal = Append(before, last)
           /\ \A id \in Ids \ unread :
                  Kept(before, DurableOf(files), allowed, ckpt_hurt, id)

LEMMA OnDiskFound ==
    ASSUME NEW id
    PROVE  OnDisk(wal, id) = Found(wal, DurableOf(files), id)
BY DEF OnDisk, Found, DurableBase, Intact, DurableOf

\* A newest file that opens is the one that counts.
LEMMA NewestOpens ==
    ASSUME NEW fs \in Seq(File), fs # <<>>, Opens(fs[Len(fs)])
    PROVE  DurableOf(fs) = Append(ConfigBase, fs[Len(fs)].seg)
<1> DEFINE S == {i \in DOMAIN fs : Opens(fs[i])}
           newest == CHOOSE i \in S : \A j \in S : j <= i
<1>1. Len(fs) \in S /\ \A j \in S : j \in Nat /\ j <= Len(fs)
  OBVIOUS
<1>2. DurableOf(fs) = Append(ConfigBase, fs[newest].seg)
  BY <1>1 DEF DurableOf
<1> HIDE DEF S
<1>3. newest \in S /\ \A j \in S : j <= newest
  BY <1>1
<1>4. newest = Len(fs)
  <2> HIDE DEF newest
  <2>1. Len(fs) \in Nat /\ newest \in Nat /\ Len(fs) <= newest /\ newest <= Len(fs)
    BY <1>1, <1>3
  <2> QED  BY <2>1
<1> QED  BY <1>2, <1>4

\* Files that do not open do not count.
LEMMA SameOpen ==
    ASSUME NEW fs \in Seq(File), NEW gs \in Seq(File),
           \A i \in DOMAIN fs : Opens(fs[i]) => i \in DOMAIN gs /\ gs[i] = fs[i],
           \A i \in DOMAIN gs : Opens(gs[i]) => i \in DOMAIN fs /\ gs[i] = fs[i]
    PROVE  DurableOf(gs) = DurableOf(fs)
<1> DEFINE S == {i \in DOMAIN fs : Opens(fs[i])}
           T == {i \in DOMAIN gs : Opens(gs[i])}
           newest == CHOOSE i \in S : \A j \in S : j <= i
<1>1. T = S
  OBVIOUS
<1>2. CASE S = {}
  BY <1>1, <1>2 DEF DurableOf
<1>3. CASE S # {}
  <2>1. /\ DurableOf(fs) = Append(ConfigBase, fs[newest].seg)
        /\ DurableOf(gs) = Append(ConfigBase, gs[newest].seg)
    BY <1>1, <1>3 DEF DurableOf
  <2>2. newest \in S
    <3>1. S \in SUBSET (1 .. Len(fs)) /\ Len(fs) \in Nat
      OBVIOUS
    <3> HIDE DEF S
    <3>2. \E i \in S : \A j \in S : j <= i
      BY <1>3, <3>1, GreatestIndex
    <3> QED  BY <3>2
  <2> HIDE DEF newest
  <2> QED  BY <2>1, <2>2
<1> QED  BY <1>2, <1>3

LEMMA ClosedAppend ==
    ASSUME NEW fs \in Seq(File), NEW x \in File, ~Opens(x)
    PROVE  DurableOf(Append(fs, x)) = DurableOf(fs)
<1> DEFINE gs == Append(fs, x)
           n == Len(fs)
<1>1. /\ gs \in Seq(File) /\ n \in Nat
      /\ DOMAIN fs = 1 .. n /\ DOMAIN gs = 1 .. n + 1
      /\ gs[n + 1] = x /\ \A i \in 1 .. n : gs[i] = fs[i]
  OBVIOUS
<1> HIDE DEF gs, n
<1>2. \A i \in DOMAIN fs : i \in DOMAIN gs /\ gs[i] = fs[i]
  BY <1>1
<1>3. ASSUME NEW i \in DOMAIN gs, Opens(gs[i])  PROVE i \in DOMAIN fs /\ gs[i] = fs[i]
  <2>1. i # n + 1
    BY <1>1, <1>3
  <2> QED  BY <1>1, <1>3, <2>1
<1> QED  BY <1>1, <1>2, <1>3, SameOpen DEF gs

LEMMA ClosedReplace ==
    ASSUME NEW fs \in Seq(File), fs # <<>>, ~Opens(fs[Len(fs)]), NEW x \in File, ~Opens(x)
    PROVE  DurableOf(ReplaceLast(fs, x)) = DurableOf(fs)
<1> DEFINE gs == ReplaceLast(fs, x)
           n == Len(fs)
<1>1. gs \in Seq(File) /\ Len(gs) = n /\ gs[n] = x
  BY ReplaceLastType
<1>2. n \in Nat /\ DOMAIN fs = 1 .. n /\ \A i \in 1 .. n : i # n => gs[i] = fs[i]
  BY DEF ReplaceLast
<1>3. DOMAIN gs = 1 .. n /\ ~Opens(fs[n])
  BY <1>1
<1> HIDE DEF gs, n
<1>4. \A i \in DOMAIN fs : Opens(fs[i]) => i \in DOMAIN gs /\ gs[i] = fs[i]
  BY <1>2, <1>3
<1>5. \A i \in DOMAIN gs : Opens(gs[i]) => i \in DOMAIN fs /\ gs[i] = fs[i]
  BY <1>1, <1>2, <1>3
<1> QED  BY <1>1, <1>4, <1>5, SameOpen DEF gs

-----------------------------------------------------------------------------
(* One line more. *)

LEMMA LoggedAppend ==
    ASSUME NEW lines \in Seq(LogLine), NEW x \in LogLine, NEW base, NEW id
    PROVE  /\ x = Garbage \/ x.id # id =>
                  /\ Logged(Append(lines, x), id) = Logged(lines, id)
                  /\ Found(Append(lines, x), base, id) = Found(lines, base, id)
           /\ x # Garbage /\ x.id = id =>
                  /\ Logged(Append(lines, x), id) # {}
                  /\ Found(Append(lines, x), base, id) = x.cap
<1> DEFINE more == Append(lines, x)
           n == Len(lines)
           S == Logged(lines, id)
           T == Logged(more, id)
<1>1. /\ n \in Nat /\ DOMAIN lines = 1 .. n /\ DOMAIN more = 1 .. n + 1
      /\ more[n + 1] = x /\ \A i \in 1 .. n : more[i] = lines[i]
  OBVIOUS
<1> HIDE DEF more, n
<1>2. S = {i \in 1 .. n : lines[i] # Garbage /\ lines[i].id = id}
  BY <1>1 DEF Logged
<1>3. T = {i \in 1 .. n + 1 : more[i] # Garbage /\ more[i].id = id}
  BY <1>1 DEF Logged
<1>4. \A i : i \in 1 .. n + 1 <=> i \in 1 .. n \/ i = n + 1
  BY <1>1
<1>5. CASE x = Garbage \/ x.id # id
  <2>1. T = S
    BY <1>1, <1>2, <1>3, <1>4, <1>5
  <2>2. CASE S = {}
    BY <1>5, <2>1, <2>2 DEF Found, more
  <2>3. CASE S # {}
    <3> DEFINE m == CHOOSE i \in S : \A j \in S : j <= i
    <3>1. m \in S
      <4>1. S \in SUBSET (1 .. n)
        BY <1>2
      <4> HIDE DEF S
      <4>2. \E i \in S : \A j \in S : j <= i
        BY <1>1, <2>3, <4>1, GreatestIndex
      <4> QED  BY <4>2
    <3>2. Found(lines, base, id) = lines[m].cap /\ Found(more, base, id) = more[m].cap
      BY <2>1, <2>3 DEF Found
    <3> HIDE DEF m
    <3>3. more[m] = lines[m]
      BY <1>1, <1>2, <3>1
    <3> QED  BY <1>5, <2>1, <3>2, <3>3 DEF more
  <2> QED  BY <2>2, <2>3
<1>6. CASE x # Garbage /\ x.id = id
  <2> DEFINE m == CHOOSE i \in T : \A j \in T : j <= i
  <2>1. n + 1 \in T /\ \A j \in T : j \in Nat /\ j <= n + 1
    BY <1>1, <1>3, <1>6
  <2>2. Found(more, base, id) = more[m].cap
    BY <2>1 DEF Found
  <2>3. m = n + 1
    <3> HIDE DEF T
    <3>1. m \in T /\ \A j \in T : j <= m
      BY <2>1
    <3> HIDE DEF m
    <3>2. m \in Nat /\ m <= n + 1 /\ n + 1 <= m
      BY <2>1, <3>1
    <3> QED  BY <1>1, <3>2
  <2> QED  BY <1>1, <1>6, <2>1, <2>2, <2>3 DEF more
<1> QED  BY <1>5, <1>6

\* A refused line changes nothing, a line about another id nothing for this
\* one, and a line about this one settles it.
LEMMA KeptAppend ==
    ASSUME NEW lines \in Seq(LogLine), NEW x \in LogLine, NEW base, NEW may, NEW hurt, NEW id,
           IF x # Garbage /\ x.id = id THEN x.cap \in may[id]
           ELSE Kept(lines, base, may, hurt, id)
    PROVE  Kept(Append(lines, x), base, may, hurt, id)
BY LoggedAppend DEF Kept

LEMMA KeptWider ==
    ASSUME NEW lines, NEW base, NEW may, NEW more, NEW hurt, NEW id,
           Kept(lines, base, may, hurt, id), may[id] \subseteq more[id]
    PROVE  Kept(lines, base, more, hurt, id)
BY DEF Kept

\* Another base must hold the id, if the log does not, or be one that is gone.
LEMMA KeptBase ==
    ASSUME NEW lines, NEW base, NEW other, NEW may, NEW hurt, NEW harmed, NEW id,
           Kept(lines, base, may, hurt, id),
           LastHeld(other, id) \in may[id] \/ harmed = "overwritten"
    PROVE  Kept(lines, other, may, harmed, id)
BY DEF Kept, Found

\* What an append leaves in the file, when the last line lacks its newline and
\* when it does not.
LEMMA WriteCases ==
    ASSUME ShapeInv, proc = "append", NEW prefix \in Prefixes, WriteLine(prefix)
    PROVE  \/ prefix = "nothing" /\ UNCHANGED <<wal, open_line>>
           \/ /\ open_line /\ open_line' = (prefix # "whole")
              /\ \A before \in Seq(LogLine), last \in LogLine :
                     wal = Append(before, last) => wal' = Append(before, Garbage)
           \/ /\ ~open_line /\ open_line' = (prefix # "whole")
              /\ \E x \in {pending, Garbage} :
                     /\ wal' = Append(wal, x)
                     /\ prefix = "whole" => x = LineFor(pending)
<1>1. /\ wal \in Seq(LogLine) /\ open_line \in BOOLEAN /\ pending \in Ops
      /\ LineFor(pending) \in {pending, Garbage}
  BY DiskTypes, LineType DEF ShapeInv, TypeOK
<1>2. /\ wal' = AppendPrefix(wal, open_line, LineFor(pending), prefix)[1]
      /\ open_line' = AppendPrefix(wal, open_line, LineFor(pending), prefix)[2]
  BY DEF WriteLine
<1>3. CASE prefix = "nothing"
  BY <1>2, <1>3 DEF AppendPrefix
<1>4. CASE prefix # "nothing" /\ open_line
  <2>1. /\ wal' = [wal EXCEPT ![Len(wal)] = Garbage]
        /\ open_line' = (prefix # "whole")
    BY <1>2, <1>4 DEF AppendPrefix
  <2>2. ASSUME NEW before \in Seq(LogLine), NEW last \in LogLine, wal = Append(before, last)
        PROVE  wal' = Append(before, Garbage)
    <3> DEFINE cut == [wal EXCEPT ![Len(wal)] = Garbage]
               shorter == Append(before, Garbage)
    <3>1. Len(wal) = Len(before) + 1 /\ Len(before) \in Nat /\ Garbage \in LogLine
      BY <2>2 DEF LogLine
    <3>2. /\ cut \in [1 .. Len(before) + 1 -> LogLine]
          /\ \A i \in 1 .. Len(before) : cut[i] = before[i]
          /\ cut[Len(before) + 1] = Garbage
      <4>1. wal \in [1 .. Len(before) + 1 -> LogLine]
        <5>1. wal \in [1 .. Len(wal) -> LogLine]
          BY <1>1
        <5> QED  BY <3>1, <5>1
      <4>2. cut \in [1 .. Len(before) + 1 -> LogLine] /\ cut[Len(before) + 1] = Garbage
        BY <3>1, <4>1
      <4>3. ASSUME NEW i \in 1 .. Len(before)  PROVE cut[i] = before[i]
        <5>1. i # Len(wal) /\ i \in 1 .. Len(before) + 1
          BY <3>1, <4>3
        <5>2. cut[i] = wal[i]
          BY <4>1, <5>1
        <5>3. wal[i] = before[i]
          BY <2>2, <3>1, <4>3
        <5> QED  BY <5>2, <5>3
      <4> HIDE DEF cut
      <4> QED  BY <4>2, <4>3
    <3>3. /\ shorter \in [1 .. Len(before) + 1 -> LogLine]
          /\ \A i \in 1 .. Len(before) : shorter[i] = before[i]
          /\ shorter[Len(before) + 1] = Garbage
      <4>1. shorter \in Seq(LogLine) /\ Len(shorter) = Len(before) + 1
        BY <3>1
      <4>2. \A i \in 1 .. Len(before) : shorter[i] = before[i]
        BY <3>1
      <4>3. shorter[Len(before) + 1] = Garbage
        BY <3>1
      <4> HIDE DEF shorter
      <4>4. shorter \in [1 .. Len(before) + 1 -> LogLine]
        BY <4>1
      <4> QED  BY <4>2, <4>3, <4>4
    <3> HIDE DEF cut, shorter
    <3>4. \A i \in 1 .. Len(before) + 1 : cut[i] = shorter[i]
      BY <3>1, <3>2, <3>3
    <3>5. cut = shorter
      BY <3>2, <3>3, <3>4
    <3> QED  BY <2>1, <3>5 DEF cut, shorter
  <2> QED  BY <1>4, <2>1, <2>2
<1>5. CASE prefix # "nothing" /\ ~open_line
  <2> DEFINE x == IF prefix = "torn" THEN Garbage ELSE LineFor(pending)
  <2>1. wal' = Append(wal, x) /\ open_line' = (prefix # "whole")
    BY <1>2, <1>5 DEF AppendPrefix
  <2>2. x \in {pending, Garbage} /\ (prefix = "whole" => x = LineFor(pending))
    BY <1>1
  <2> HIDE DEF x
  <2> QED  BY <1>5, <2>1, <2>2
<1> QED  BY <1>1, <1>3, <1>4, <1>5

\* An append loses nothing that was acknowledged before it.
LEMMA WriteKeeps ==
    ASSUME ShapeInv, OnDiskInv, proc = "append", UNCHANGED <<files, ckpt_hurt>>,
           NEW prefix \in Prefixes, WriteLine(prefix),
           pending.cap \in allowed'[pending.id],
           \A k \in Ids : k # pending.id => allowed[k] \subseteq allowed'[k],
           \A k \in Ids \ unread' : k # pending.id => k \notin unread,
           \/ UNCHANGED unread /\ \A k \in Ids : allowed[k] \subseteq allowed'[k]
           \/ /\ prefix = "whole"
              /\ open_line \/ LineFor(pending) = Garbage => pending.id \in unread'
    PROVE  OnDiskInv'
<1>1. /\ wal \in Seq(LogLine) /\ pending \in Ops /\ pending \in LogLine
      /\ Garbage \in LogLine /\ pending # Garbage /\ pending.id \in Ids
  BY DiskTypes, GarbageAssumption DEF ShapeInv, LogLine, Ops
<1> DEFINE base == DurableOf(files)
           now(lines, id) == Kept(lines, base, allowed, ckpt_hurt, id)
           next(lines, id) == Kept(lines, base, allowed', ckpt_hurt, id)
<1>2. SUFFICES /\ \A id \in Ids \ unread' : next(wal', id)
               /\ open_line' => \E before \in Seq(LogLine) : \E last \in LogLine :
                      /\ wal' = Append(before, last)
                      /\ \A id \in Ids \ unread' : next(before, id)
  <2>1. DurableOf(files)' = base
    BY DEF DurableOf, Opens
  <2> HIDE DEF base
  <2> QED  BY <2>1 DEF OnDiskInv
<1>3. ASSUME NEW lines, NEW id \in Ids, allowed[id] \subseteq allowed'[id], now(lines, id)
      PROVE  next(lines, id)
  BY <1>3, KeptWider
<1>4. ASSUME NEW lines \in Seq(LogLine), NEW x \in LogLine, NEW id \in Ids,
             x = Garbage \/ x = pending,
             x = Garbage \/ pending.id # id => next(lines, id)
      PROVE  next(Append(lines, x), id)
  BY <1>1, <1>4, KeptAppend
<1>5. /\ \A id \in Ids \ unread : now(wal, id)
      /\ open_line => \E before \in Seq(LogLine) : \E last \in LogLine :
             wal = Append(before, last) /\ \A id \in Ids \ unread : now(before, id)
  BY DEF OnDiskInv
<1> HIDE DEF now, next
<1>6. ASSUME NEW lines, NEW id \in Ids \ unread',
             \A k \in Ids \ unread : now(lines, k),
             id # pending.id \/ (UNCHANGED unread /\ \A k \in Ids : allowed[k] \subseteq allowed'[k])
      PROVE  next(lines, id)
  BY <1>3, <1>6
<1>7. CASE prefix = "nothing" /\ UNCHANGED <<wal, open_line>>
  <2>1. UNCHANGED unread /\ \A k \in Ids : allowed[k] \subseteq allowed'[k]
    BY <1>7
  <2>2. \A id \in Ids \ unread' : next(wal', id)
    BY <1>5, <1>6, <1>7, <2>1
  <2>3. ASSUME open_line'
        PROVE  \E before \in Seq(LogLine) : \E last \in LogLine :
                   wal' = Append(before, last) /\ \A id \in Ids \ unread' : next(before, id)
    <3>1. PICK before \in Seq(LogLine) : \E last \in LogLine :
              wal = Append(before, last) /\ \A id \in Ids \ unread : now(before, id)
      BY <1>5, <1>7, <2>3
    <3>2. \A id \in Ids \ unread' : next(before, id)
      BY <1>6, <2>1, <3>1
    <3> QED  BY <1>7, <3>1, <3>2
  <2> QED  BY <2>2, <2>3
<1>8. CASE /\ open_line /\ open_line' = (prefix # "whole")
           /\ \A before \in Seq(LogLine), last \in LogLine :
                  wal = Append(before, last) => wal' = Append(before, Garbage)
  <2>1. PICK before \in Seq(LogLine) : \E last \in LogLine :
            wal = Append(before, last) /\ \A id \in Ids \ unread : now(before, id)
    <3>1. open_line
      BY <1>8
    <3> QED  BY <1>5, <3>1
  <2>2. wal' = Append(before, Garbage)
    BY <1>8, <2>1
  <2>3. ASSUME NEW id \in Ids \ unread'  PROVE next(before, id)
    BY <1>6, <1>8, <2>1, <2>3
  <2>4. \A id \in Ids \ unread' : next(wal', id)
    BY <1>1, <1>4, <2>2, <2>3
  <2> QED  BY <1>1, <2>2, <2>3, <2>4
<1>9. CASE /\ ~open_line /\ open_line' = (prefix # "whole")
           /\ \E x \in {pending, Garbage} :
                  /\ wal' = Append(wal, x)
                  /\ prefix = "whole" => x = LineFor(pending)
  <2>1. PICK x \in {pending, Garbage} :
            wal' = Append(wal, x) /\ (prefix = "whole" => x = LineFor(pending))
    BY <1>9
  <2>2. ASSUME NEW id \in Ids \ unread', x = Garbage \/ pending.id # id  PROVE next(wal, id)
    <3>1. id # pending.id \/ (UNCHANGED unread /\ \A k \in Ids : allowed[k] \subseteq allowed'[k])
      BY <2>1, <2>2
    <3> QED  BY <1>5, <1>6, <3>1
  <2>3. \A id \in Ids \ unread' : next(wal', id)
    BY <1>1, <1>4, <2>1, <2>2
  <2>4. ASSUME open_line'  PROVE \A id \in Ids \ unread' : next(wal, id)
    <3>1. UNCHANGED unread /\ \A k \in Ids : allowed[k] \subseteq allowed'[k]
      BY <1>9, <2>4
    <3> QED  BY <1>5, <1>6, <3>1
  <2> QED  BY <1>1, <2>1, <2>3, <2>4
<1> QED  BY <1>7, <1>8, <1>9, WriteCases

-----------------------------------------------------------------------------

\* Of a store in memory every id may read what it holds.
LEMMA CollectAllowed ==
    ASSUME \A id \in Ids : Unconfigured(id), ServingInv, AgreedBaseInv, proc \in Serving,
           NEW id \in Ids
    PROVE  /\ CollectAll(store)[id] \in allowed[id]
           /\ Live(store)[id] \in allowed[id]
BY CollectKeeps DEF ServingInv, AgreedBaseInv

\* A base that may take the place of the one there was.
LEMMA NewBase ==
    ASSUME OnDiskInv, UNCHANGED <<wal, open_line, allowed, unread>>,
           \A id \in Ids : \/ LastHeld(DurableOf(files'), id) \in allowed[id]
                           \/ ckpt_hurt' = "overwritten"
    PROVE  OnDiskInv'
<1> DEFINE base == DurableOf(files)
           other == DurableOf(files')
<1>1. DurableOf(files)' = other
  BY DEF DurableOf, Opens
<1> HIDE DEF base, other
<1>2. ASSUME NEW lines, NEW id \in Ids \ unread, Kept(lines, base, allowed, ckpt_hurt, id)
      PROVE  Kept(lines, other, allowed, ckpt_hurt', id)
  BY <1>2, KeptBase DEF other
<1> QED  BY <1>1, <1>2 DEF OnDiskInv, base

LEMMA SameDurable ==
    ASSUME OnDiskInv, UNCHANGED <<wal, open_line, allowed, unread>>,
           DurableOf(files') = DurableOf(files),
           ckpt_hurt = "overwritten" => ckpt_hurt' = "overwritten"
    PROVE  OnDiskInv'
<1>1. DurableOf(files)' = DurableOf(files)
  BY DEF DurableOf, Opens
<1>2. ASSUME NEW lines, NEW id, Kept(lines, DurableOf(files), allowed, ckpt_hurt, id)
      PROVE  Kept(lines, DurableOf(files)', allowed, ckpt_hurt', id)
  BY <1>1, <1>2 DEF Kept
<1> QED  BY <1>2 DEF OnDiskInv

\* What was acknowledged can be lost from the disk by no step but the two.
LEMMA OnDiskStep ==
    ASSUME \A id \in Ids : Unconfigured(id), DurableInv, OnDiskInv, [Next]_vars
    PROVE  OnDiskInv'
<1>0. /\ ShapeInv /\ TypeOK /\ ServingInv /\ AgreedBaseInv /\ CheckpointInv
      /\ allowed \in [Ids -> SUBSET (Capsules \cup {NoCapsule})]
      /\ files \in Seq(File)
  BY DiskTypes DEF DurableInv, ShapeInv, TypeOK
<1>1. CASE EndWrite
  <2>1. /\ "whole" \in Prefixes /\ WriteLine("whole") /\ proc = "append"
        /\ pending \in Ops /\ UNCHANGED <<files, ckpt_hurt>> /\ pending.id \in Ids
    BY <1>0, <1>1 DEF EndWrite, Prefixes, ShapeInv, Ops
  <2>2. /\ allowed' = [allowed EXCEPT ![pending.id] = {pending.cap}]
        /\ unread' = IF open_line \/ LineFor(pending) = Garbage
                     THEN unread \cup {pending.id} ELSE unread \ {pending.id}
    BY <1>1 DEF EndWrite
  <2>3. /\ pending.cap \in allowed'[pending.id]
        /\ \A k \in Ids : k # pending.id => allowed[k] \subseteq allowed'[k]
    BY <1>0, <2>1, <2>2
  <2>4. /\ \A k \in Ids \ unread' : k # pending.id => k \notin unread
        /\ open_line \/ LineFor(pending) = Garbage => pending.id \in unread'
    BY <2>2
  <2> QED  BY <1>0, <2>1, <2>3, <2>4, WriteKeeps
<1>2. CASE FailWrite \/ CrashInAppend
  <2>1. PICK prefix \in WritePrefixes : WriteLine(prefix)
    BY <1>2 DEF FailWrite, CrashInAppend
  <2>2. /\ prefix \in Prefixes /\ proc = "append" /\ pending \in Ops
        /\ UNCHANGED <<files, ckpt_hurt, unread>>
    BY <1>0, <1>2, PrefixesAssumption DEF FailWrite, CrashInAppend, ShapeInv
  <2>3. /\ allowed' = [allowed EXCEPT ![pending.id] = @ \cup {pending.cap}]
        /\ pending.id \in Ids
    BY <1>2, <2>2 DEF FailWrite, CrashInAppend, MayTakeEffect, Ops
  <2>4. /\ pending.cap \in allowed'[pending.id]
        /\ \A k \in Ids : allowed[k] \subseteq allowed'[k]
    BY <1>0, <2>3
  <2> QED  BY <1>0, <2>1, <2>2, <2>4, WriteKeeps
<1>3. CASE BeginCheckpoint
  <2>1. UNCHANGED <<wal, open_line, allowed, unread>>
    BY <1>3 DEF BeginCheckpoint
  <2>2. NewFile(FALSE) \in File /\ ~Opens(NewFile(FALSE))
    BY <1>0, NewFileType DEF NewFile, Opens
  <2>3. CASE /\ files' = Append(files, NewFile(FALSE))
             /\ ckpt_hurt' = IF ckpt_hurt = "no" THEN "unfinished" ELSE ckpt_hurt
    BY <1>0, <2>1, <2>2, <2>3, ClosedAppend, SameDurable
  <2>4. CASE /\ files # <<>> /\ files' = ReplaceLast(files, NewFile(FALSE))
             /\ ~Opens(files[Len(files)]) /\ ckpt_hurt' = ckpt_hurt
    BY <1>0, <2>1, <2>2, <2>4, ClosedReplace, SameDurable
  <2>5. CASE ckpt_hurt' = "overwritten"
    BY <2>1, <2>5, NewBase
  <2> QED  BY <1>3, <2>3, <2>4, <2>5 DEF BeginCheckpoint
<1>4. CASE WriteCheckpoint
  <2>1. /\ UNCHANGED <<wal, open_line, allowed, unread, ckpt_hurt>> /\ proc \in Serving
        /\ files # <<>> /\ files' = ReplaceLast(files, NewFile(TRUE))
        /\ ~files[Len(files)].ok
    BY <1>0, <1>4 DEF WriteCheckpoint, Serving, Checkpointing, ShapeInv, CheckpointInv, harm
  <2>2. NewFile(TRUE) \in File /\ NewFile(TRUE).seg \in Segment
        /\ NewFile(TRUE).seg.caps = CollectAll(store)
    BY <1>0, NewFileType DEF NewFile, File
  <2>3. /\ files' \in Seq(File) /\ files' # <<>>
        /\ files'[Len(files')] = NewFile(TRUE)
    BY <1>0, <2>1, <2>2, ReplaceLastType
  <2>4. CASE Opens(NewFile(TRUE))
    <3>1. DurableOf(files') = Append(ConfigBase, NewFile(TRUE).seg)
      BY <2>3, <2>4, NewestOpens
    <3>2. \A id \in Ids : LastHeld(DurableOf(files'), id) \in allowed[id]
      BY <1>0, <2>1, <2>2, <3>1, CheckpointSpeaks, CollectAllowed
    <3> QED  BY <2>1, <3>2, NewBase
  <2>5. CASE ~Opens(NewFile(TRUE))
    <3>1. ~Opens(files[Len(files)])
      BY <2>1 DEF Opens
    <3> QED  BY <1>0, <2>1, <2>2, <2>5, <3>1, ClosedReplace, SameDurable
  <2> QED  BY <2>4, <2>5
<1>5. CASE AdoptCheckpoint
  <2>1. /\ UNCHANGED <<wal, open_line, files, allowed, unread>> /\ proc = "ckpt_adopt"
        /\ Opens(files[Len(files)])
    BY <1>5 DEF AdoptCheckpoint, disk
  <2>2. /\ files # <<>> /\ files[Len(files)] \in File /\ proc \in Serving
        /\ files[Len(files)].seg.caps = CollectAll(store)
    BY <1>0, <2>1, NewestType DEF ShapeInv, Serving, Checkpointing, CheckpointInv
  <2>3. files[Len(files)].seg \in Segment
    BY <2>2 DEF File
  <2>4. DurableOf(files) = Append(ConfigBase, files[Len(files)].seg)
    BY <1>0, <2>1, <2>2, NewestOpens
  <2>5. \A id \in Ids : LastHeld(DurableOf(files'), id) \in allowed[id]
    BY <1>0, <2>1, <2>2, <2>3, <2>4, CheckpointSpeaks, CollectAllowed
  <2> QED  BY <2>1, <2>5, NewBase
<1>6. CASE TruncateWal
  <2>1. /\ wal' = <<>> /\ open_line' = FALSE /\ UNCHANGED <<files, allowed>>
        /\ proc = "ckpt_truncate"
    BY <1>6 DEF TruncateWal
  <2>2. /\ files # <<>> /\ files[Len(files)] \in File /\ proc \in Serving
        /\ files[Len(files)].seg.caps = Live(store) /\ Opens(files[Len(files)])
    BY <1>0, <2>1, NewestType DEF ShapeInv, Serving, Checkpointing, CheckpointInv
  <2>3. files[Len(files)].seg \in Segment
    BY <2>2 DEF File
  <2>4. DurableOf(files) = Append(ConfigBase, files[Len(files)].seg)
    BY <1>0, <2>2, NewestOpens
  <2>5. \A id \in Ids : LastHeld(DurableOf(files), id) \in allowed[id]
    BY <1>0, <2>2, <2>3, <2>4, CheckpointSpeaks, CollectAllowed
  <2>6. DurableOf(files)' = DurableOf(files)
    BY <2>1 DEF DurableOf, Opens
  <2>7. \A id : Logged(wal', id) = {}
    BY <2>1 DEF Logged
  <2>8. \A id \in Ids : Kept(wal', DurableOf(files)', allowed', ckpt_hurt', id)
    BY <2>1, <2>5, <2>6, <2>7 DEF Kept, Found
  <2> QED  BY <2>1, <2>8 DEF OnDiskInv
<1>7. CASE \/ Start \/ StartRefused \/ StartAgain \/ ReplayLine \/ ReplayRefused \/ ReplayEnd
           \/ (\E op \in Ops : BeginWrite(op)) \/ MinorCompact \/ FailCheckpoint
           \/ FailTruncate \/ CrashInCheckpoint \/ Crash \/ UNCHANGED vars
  <2>1. UNCHANGED <<wal, open_line, files, allowed, unread, ckpt_hurt>>
    BY <1>7 DEF Start, StartRefused, StartAgain, ReplayLine, ReplayRefused, ReplayEnd,
                BeginWrite, MinorCompact, FailCheckpoint, FailTruncate,
                CrashInCheckpoint, Crash, disk, harm, vars
  <2> QED  BY <2>1, SameDurable
<1> QED  BY <1>1, <1>2, <1>3, <1>4, <1>5, <1>6, <1>7 DEF Next

\* Under every fault - appends that stop anywhere, checkpoints that fail, are
\* refused or share a file name, processes that die at any step - readers of
\* the disk who skip what is refused find the outcome of every acknowledged
\* write but the two kinds AckedWritesOnDisk names, provided that the
\* configured segments name no id.
THEOREM WritesOnDisk ==
    ASSUME \A id \in Ids : Unconfigured(id)
    PROVE  Spec => []AckedWritesOnDisk
<1>1. Init => OnDiskInv
  <2> SUFFICES ASSUME Init  PROVE OnDiskInv
    OBVIOUS
  <2>1. /\ wal = <<>> /\ files = <<>> /\ open_line = FALSE
        /\ allowed = [id \in Ids |-> {LastHeld(ConfigBase, id)}]
    BY DEF Init
  <2>2. DOMAIN files = {} /\ \A id : Logged(wal, id) = {}
    BY <2>1 DEF Logged
  <2>3. DurableOf(files) = ConfigBase
    BY <2>2 DEF DurableOf
  <2> QED  BY <2>1, <2>2, <2>3 DEF OnDiskInv, Kept, Found
<1>2. DurableInv /\ OnDiskInv /\ [Next]_vars => OnDiskInv'
  BY OnDiskStep
<1>3. OnDiskInv => AckedWritesOnDisk
  BY OnDiskFound DEF OnDiskInv, Kept, AckedWritesOnDisk
<1> QED  BY <1>1, <1>2, <1>3, DurableHolds, PTL DEF Spec

-----------------------------------------------------------------------------
(* The fold of the log in open_durable, for every log: whatever was        *)
(* inserted, reinserted and deleted, in whatever order, and however the    *)
(* store that wrote it sealed and compacted (module WalReplay).            *)

\* by_id points at a slot of its own id, and the slots it points at are the
\* buffer; the two stores agree on what is live.  The slots that nothing
\* points at are not constrained: they are what the end of the fold drops.
FoldInv ==
    /\ FoldTypeOK
    /\ \A id \in Ids : by_id[id] # 0 =>
           by_id[id] \in DOMAIN slots /\ slots[by_id[id]].id = id
    /\ \A id \in Ids : replayed.delta[id] = IF by_id[id] = 0 THEN NoCapsule
                                            ELSE slots[by_id[id]].cap
    /\ tombstones = replayed.tombstones
    /\ replayed.sealed_deltas = <<>>
    /\ replayed.segments = executed.segments
    /\ Live(replayed) = Live(executed)
    /\ Indexed(executed)

LEMMA InitFold == FoldInit => FoldInv
<1> SUFFICES ASSUME FoldInit  PROVE FoldInv
  OBVIOUS
<1>1. PICK base \in InitialBases :
          executed = OpenSegments(base) /\ replayed = OpenSegments(base)
  BY DEF FoldInit
<1>2. executed \in Store /\ replayed \in Store
  BY <1>1, InitialBasesAssumption, OpenType
<1>3. /\ replayed.delta = EmptyTier /\ replayed.tombstones = {}
      /\ replayed.sealed_deltas = <<>> /\ Indexed(executed)
  BY <1>1 DEF OpenSegments, Indexed, NoSegment
<1>4. slots = <<>> /\ by_id = [id \in Ids |-> 0] /\ tombstones = {}
  BY DEF FoldInit
<1>5. FoldTypeOK
  BY <1>2, <1>4 DEF FoldTypeOK
<1> QED  BY <1>1, <1>3, <1>4, <1>5 DEF FoldInv, EmptyTier

\* The vector, the map and the tombstone set after a line of the log.
LEMMA FoldStep ==
    ASSUME FoldInv, NEW op \in Ops,
           IF op.cap = NoCapsule THEN FoldDelete(op) ELSE FoldInsert(op)
    PROVE  /\ slots' \in Seq([id : Ids, cap : Capsules])
           /\ by_id' \in [Ids -> Nat]
           /\ \A id \in Ids : by_id'[id] # 0 =>
                  by_id'[id] \in DOMAIN slots' /\ slots'[by_id'[id]].id = id
           /\ \A id \in Ids : IF id = op.id
                              THEN IF op.cap = NoCapsule THEN by_id'[id] = 0
                                   ELSE by_id'[id] # 0 /\ slots'[by_id'[id]].cap = op.cap
                              ELSE /\ by_id'[id] = by_id[id]
                                   /\ by_id[id] # 0 =>
                                          slots'[by_id[id]].cap = slots[by_id[id]].cap
           /\ tombstones' = IF op.cap = NoCapsule THEN tombstones \cup {op.id}
                            ELSE tombstones \ {op.id}
<1> DEFINE Slot == [id : Ids, cap : Capsules]
<1>0. /\ op.id \in Ids
      /\ op.cap # NoCapsule => op \in Slot
      /\ slots \in Seq(Slot) /\ by_id \in [Ids -> Nat]
      /\ \A id \in Ids : by_id[id] # 0 =>
             by_id[id] \in DOMAIN slots /\ slots[by_id[id]].id = id
  BY DEF FoldInv, FoldTypeOK, Ops
<1>1. CASE op.cap = NoCapsule
  BY <1>0, <1>1 DEF FoldDelete
<1>2. CASE op.cap # NoCapsule /\ by_id[op.id] # 0
  <2> DEFINE p == by_id[op.id]
  <2>1. /\ slots' = [slots EXCEPT ![p] = op] /\ by_id' = by_id
        /\ tombstones' = tombstones \ {op.id}
    BY <1>2 DEF FoldInsert
  <2>2. p \in DOMAIN slots /\ op \in Slot
    BY <1>0, <1>2
  <2> HIDE DEF Slot
  <2>3. slots' \in Seq(Slot) /\ DOMAIN slots' = DOMAIN slots
    BY <1>0, <2>1, <2>2
  <2>4. \A q \in DOMAIN slots : slots'[q] = IF q = p THEN op ELSE slots[q]
    BY <1>0, <2>1
  <2>5. \A id \in Ids : by_id[id] # 0 => (by_id[id] = p <=> id = op.id)
    BY <1>0, <1>2
  <2> QED  BY <1>0, <1>2, <2>1, <2>2, <2>3, <2>4, <2>5 DEF Slot
<1>3. CASE op.cap # NoCapsule /\ by_id[op.id] = 0
  <2> DEFINE n == Len(slots)
  <2>1. /\ slots' = Append(slots, op)
        /\ by_id' = [by_id EXCEPT ![op.id] = Len(slots')]
        /\ tombstones' = tombstones \ {op.id}
    BY <1>3 DEF FoldInsert
  <2>2. op \in Slot
    BY <1>0, <1>3
  <2> HIDE DEF Slot
  <2>3. /\ slots' \in Seq(Slot)
        /\ n \in Nat /\ Len(slots') = n + 1
        /\ DOMAIN slots = 1 .. n /\ DOMAIN slots' = 1 .. n + 1
        /\ slots'[n + 1] = op
        /\ \A q \in 1 .. n : slots'[q] = slots[q]
    BY <1>0, <2>1, <2>2
  <2> HIDE DEF n
  <2>4. by_id'[op.id] = n + 1 /\ \A id \in Ids : id # op.id => by_id'[id] = by_id[id]
    BY <1>0, <2>1, <2>3
  <2>5. by_id' \in [Ids -> Nat]
    BY <1>0, <2>1, <2>3
  <2>6. \A id \in Ids : id # op.id /\ by_id[id] # 0 =>
            by_id[id] \in 1 .. n /\ slots'[by_id[id]] = slots[by_id[id]]
    BY <1>0, <2>3
  <2>7. n + 1 # 0 /\ n + 1 \in 1 .. n + 1 /\ \A q \in 1 .. n : q \in 1 .. n + 1
    BY <2>3
  <2> QED  BY <1>0, <1>3, <2>1, <2>3, <2>4, <2>5, <2>6, <2>7 DEF Slot
<1> QED  BY <1>1, <1>2, <1>3

LEMMA NextFold == FoldInv /\ [FoldNext]_foldVars => FoldInv'
<1> SUFFICES ASSUME FoldInv, [FoldNext]_foldVars  PROVE FoldInv'
  OBVIOUS
<1>0. executed \in Store /\ replayed \in Store
  BY DEF FoldInv, FoldTypeOK
<1>1. ASSUME NEW op \in Ops, Line(op)  PROVE FoldInv'
  <2>1. /\ executed' = Apply(executed, op) /\ replayed' = ReplayOp(replayed, op)
        /\ IF op.cap = NoCapsule THEN FoldDelete(op) ELSE FoldInsert(op)
    BY <1>1 DEF Line
  <2>2. /\ executed' \in Store /\ replayed' \in Store
        /\ executed'.segments = executed.segments
        /\ replayed'.segments = replayed.segments
        /\ replayed'.sealed_deltas = replayed.sealed_deltas
        /\ replayed'.delta = [replayed.delta EXCEPT ![op.id] = op.cap]
        /\ replayed'.tombstones = IF op.cap = NoCapsule
                                  THEN replayed.tombstones \cup {op.id}
                                  ELSE replayed.tombstones \ {op.id}
    BY <1>0, <2>1, ApplyType, ApplyLive, ReplayOpFields
  <2>3. Live(replayed') = Live(executed') /\ Indexed(executed')
    BY <1>0, <2>1, ApplyLive, ReplayOpLive DEF FoldInv
  <2>4. Live(replayed)' = Live(replayed') /\ Live(executed)' = Live(executed')
        /\ Indexed(executed)' = Indexed(executed')
    BY DEF Live, Indexed
  <2>5. tombstones' = replayed'.tombstones /\ tombstones' \in SUBSET Ids
    BY <2>1, <2>2, FoldStep DEF FoldInv, Store
  <2>6. \A id \in Ids : replayed'.delta[id] = IF by_id'[id] = 0 THEN NoCapsule
                                              ELSE slots'[by_id'[id]].cap
    <3>1. replayed.delta \in [Ids -> Capsules \cup {NoCapsule}]
      BY <1>0 DEF Store, Tier
    <3>2. \A id \in Ids : replayed.delta[id] = IF by_id[id] = 0 THEN NoCapsule
                                               ELSE slots[by_id[id]].cap
      BY DEF FoldInv
    <3>3. \A id \in Ids : replayed'.delta[id] = IF id = op.id THEN op.cap
                                                ELSE replayed.delta[id]
      BY <2>2, <3>1
    <3> QED  BY <2>1, <3>2, <3>3, FoldStep
  <2>7. FoldTypeOK'
    BY <2>1, <2>2, <2>5, FoldStep DEF FoldTypeOK
  <2>8. \A id \in Ids : by_id'[id] # 0 =>
            by_id'[id] \in DOMAIN slots' /\ slots'[by_id'[id]].id = id
    BY <2>1, FoldStep
  <2>9. replayed'.sealed_deltas = <<>> /\ replayed'.segments = executed'.segments
    BY <2>2 DEF FoldInv
  <2> QED  BY <2>3, <2>4, <2>5, <2>6, <2>7, <2>8, <2>9 DEF FoldInv
<1>2. CASE ConsolidateRuns
  <2>1. executed' = CompactDelta(executed)
        /\ UNCHANGED <<slots, by_id, tombstones, replayed>>
    BY <1>2 DEF ConsolidateRuns
  <2>2. executed' \in Store
    BY <1>0, <2>1, CompactDeltaType
  <2>3. Live(executed') = Live(executed) /\ Indexed(executed')
    BY <1>0, <2>1, CompactDeltaLive DEF FoldInv
  <2>4. executed'.segments = executed.segments
    BY <1>0, <2>1 DEF CompactDelta, Store
  <2>5. Live(executed)' = Live(executed') /\ Indexed(executed)' = Indexed(executed')
        /\ Live(replayed)' = Live(replayed)
    BY <2>1 DEF Live, Indexed
  <2> QED  BY <2>1, <2>2, <2>3, <2>4, <2>5 DEF FoldInv, FoldTypeOK
<1>3. CASE UNCHANGED foldVars
  BY <1>3 DEF foldVars, FoldInv, FoldTypeOK, Live, Indexed
<1> QED  BY <1>1, <1>2, <1>3 DEF FoldNext

THEOREM FoldInvariant == FoldSpec => []FoldInv
<1> QED  BY InitFold, NextFold, PTL DEF FoldSpec

\* Both stores and the fold stay well typed.
THEOREM FoldTypeCorrect == FoldSpec => []FoldTypeOK
<1> QED  BY FoldInvariant, PTL DEF FoldInv

-----------------------------------------------------------------------------

LEMMA LiveDeltaIsBuffer ==
    ASSUME FoldInv
    PROVE  LiveDelta = replayed.delta
<1>1. replayed.delta \in [Ids -> Capsules \cup {NoCapsule}]
  BY DEF FoldInv, FoldTypeOK, Store, Tier
<1>2. slots \in Seq([id : Ids, cap : Capsules]) /\ by_id \in [Ids -> Nat]
  BY DEF FoldInv, FoldTypeOK
<1>3. \A p \in DOMAIN slots : p # 0
  BY <1>2
<1>4. ASSUME NEW id \in Ids
      PROVE  LiveDelta[id] = replayed.delta[id]
  <2>1. \A p \in Canonical : slots[p].id = id => p = by_id[id] /\ by_id[id] # 0
    BY <1>3 DEF Canonical
  <2>2. by_id[id] # 0 => by_id[id] \in Canonical /\ slots[by_id[id]].id = id
    BY DEF Canonical, FoldInv
  <2>3. replayed.delta[id] = IF by_id[id] = 0 THEN NoCapsule ELSE slots[by_id[id]].cap
    BY DEF FoldInv
  <2> QED  BY <2>1, <2>2, <2>3 DEF LiveDelta
<1>5. LiveDelta = [id \in Ids |-> LiveDelta[id]]
  BY DEF LiveDelta
<1> QED  BY <1>1, <1>4, <1>5

\* The positional fold of open_durable is last-writer-wins per id, line by
\* line, and never yields an id twice.
THEOREM FoldCorrect == FoldSpec => []FoldIsReplay
<1>1. FoldInv => FoldIsReplay
  BY LiveDeltaIsBuffer DEF FoldIsReplay, FoldInv, Canonical
<1> QED  BY <1>1, FoldInvariant, PTL

\* A store recovered from any log answers as the store that wrote it.
THEOREM RecoveryCorrect == FoldSpec => []RecoveredAnswersAlike
<1>1. FoldInv => RecoveredAnswersAlike
  <2> SUFFICES ASSUME FoldInv  PROVE Visible(Recovered) = Visible(executed)
    BY DEF RecoveredAnswersAlike
  <2>0. executed \in Store /\ replayed \in Store
    BY DEF FoldInv, FoldTypeOK
  <2> DEFINE o == OpenSegments(executed.segments)
             r == [o EXCEPT !.delta = LiveDelta, !.tombstones = tombstones]
  <2>1. o \in Store /\ o.segments = executed.segments /\ o.sealed_deltas = <<>>
    BY <2>0, OpenType DEF OpenSegments, Store
  <2>2. LiveDelta \in Tier /\ tombstones \in SUBSET Ids
    BY <2>0, LiveDeltaIsBuffer DEF FoldInv, Store
  <2> HIDE DEF o
  <2>3. /\ r \in Store /\ r.delta = LiveDelta /\ r.tombstones = tombstones
        /\ r.segments = o.segments /\ r.sealed_deltas = o.sealed_deltas
    BY <2>1, <2>2 DEF Store
  <2>4. Recovered = RebuildActiveSegment(r)
    BY DEF Recovered, o
  <2> HIDE DEF r
  <2>5. Live(r) = Live(replayed)
    <3>1. /\ r.delta = replayed.delta /\ r.tombstones = replayed.tombstones
          /\ r.segments = replayed.segments /\ r.sealed_deltas = replayed.sealed_deltas
      BY <2>1, <2>3, LiveDeltaIsBuffer DEF FoldInv
    <3> QED  BY <3>1, LiveDepends
  <2>6. Recovered \in Store /\ Indexed(Recovered) /\ Live(Recovered) = Live(executed)
    BY <2>3, <2>4, <2>5, RebuildType, RebuildLive DEF FoldInv
  <2> QED  BY <2>0, <2>6, IndexedVisible DEF FoldInv
<1> QED  BY <1>1, FoldInvariant, PTL

=============================================================================
