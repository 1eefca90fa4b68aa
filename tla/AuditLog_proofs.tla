--------------------------- MODULE AuditLog_proofs ---------------------------
(***************************************************************************)
(* Theorems about AuditLog, for any number of requests, any clock and any  *)
(* number of crashes, failed writes and restarts.                          *)
(***************************************************************************)
EXTENDS AuditLog, FiniteSetTheorems, TLAPS

Entry == Record \cup {Garbage}

\* The record a handler writes is the only thing behind the last newline.
Alone(q) == IF phase[q] = "locked" THEN tail = <<>> ELSE Len(tail) = 1

\* A writer holds the mutex, is alive, and its part of the tail is the last.
WriterInv ==
    /\ \A q \in Queries : phase[q] \in Writing <=> holder = q
    /\ \A q \in Queries : phase[q] \in Waiting \cup Writing => process = "up"
    /\ \A q \in Queries : phase[q] \in Writing => pending[q] \in Record
    /\ \A q \in Queries : phase[q] = "part" => tail # <<>>
    /\ \A q \in Queries : phase[q] = "line" =>
           tail # <<>> /\ tail[Len(tail)] = pending[q]

\* The chain as far as the lines parse: the terminated lines verify, a record
\* that is alone behind them continues them, and so does the next one.
ChainInv ==
    Parses(lines) =>
        /\ VerifyChain(lines)
        /\ Len(tail) = 1 /\ tail[1] # Garbage => tail[1].prev = LastRecordHash(lines)
        /\ process = "up" /\ tail = <<>> => prev_hash = LastRecordHash(lines)
        /\ \A q \in Queries : phase[q] \in Writing /\ Alone(q) =>
               pending[q].prev = LastRecordHash(lines)

LogInv == TypeOK /\ WriterInv /\ ChainInv

-----------------------------------------------------------------------------
(* Lines appended to a file. *)

LEMMA AppendParses ==
    ASSUME NEW f \in Seq(Entry), NEW x \in Entry
    PROVE  Parses(Append(f, x)) <=> Parses(f) /\ x # Garbage
<1>1. /\ DOMAIN f = 1..Len(f) /\ DOMAIN Append(f, x) = 1..(Len(f) + 1) /\ Len(f) \in Nat
      /\ Append(f, x)[Len(f) + 1] = x
      /\ \A i \in 1..Len(f) : Append(f, x)[i] = f[i]
  OBVIOUS
<1> QED  BY <1>1 DEF Parses

LEMMA AppendVerifies ==
    ASSUME NEW f \in Seq(Entry), NEW x \in Record, VerifyChain(f),
           x.prev = LastRecordHash(f)
    PROVE  VerifyChain(Append(f, x))
<1> DEFINE g == Append(f, x)
<1>1. /\ DOMAIN f = 1..Len(f) /\ DOMAIN g = 1..(Len(f) + 1) /\ Len(f) \in Nat
      /\ g[Len(f) + 1] = x
      /\ \A i \in 1..Len(f) : g[i] = f[i]
  OBVIOUS
<1>2. Parses(g)
  BY AppendParses, GarbageAssumption DEF VerifyChain, Entry
<1>3. ASSUME NEW i \in 1..(Len(f) + 1)  PROVE g[i].prev = HashBefore(g, i)
  <2>1. CASE i = Len(f) + 1
    <3>1. CASE f = <<>>
      BY <1>1, <2>1, <3>1 DEF LastRecordHash, HashBefore
    <3>2. CASE f # <<>>
      <4>1. Len(f) \in 1..Len(f) /\ i # 1 /\ i - 1 = Len(f)
        BY <2>1, <3>2
      <4> QED  BY <1>1, <2>1, <3>2, <4>1 DEF LastRecordHash, HashBefore
    <3> QED  BY <3>1, <3>2
  <2>2. CASE i \in 1..Len(f)
    <3>1. f[i].prev = HashBefore(f, i)
      BY <1>1, <2>2 DEF VerifyChain
    <3>2. i # 1 => i - 1 \in 1..Len(f)
      BY <2>2
    <3> QED  BY <1>1, <2>2, <3>1, <3>2 DEF HashBefore
  <2> QED  BY <1>1, <2>1, <2>2
<1> QED  BY <1>1, <1>2, <1>3 DEF VerifyChain

LEMMA AppendHash ==
    ASSUME NEW f \in Seq(Entry), NEW x \in Record
    PROVE  LastRecordHash(Append(f, x)) = Hash(x)
<1>1. /\ Append(f, x) # <<>> /\ Len(Append(f, x)) = Len(f) + 1
      /\ Append(f, x)[Len(f) + 1] = x
  OBVIOUS
<1> QED  BY <1>1 DEF LastRecordHash

LEMMA HashType ==
    ASSUME NEW f \in Seq(Entry), Parses(f)
    PROVE  LastRecordHash(f) \in Seq(Body)
<1>1. CASE f = <<>>
  BY <1>1 DEF LastRecordHash, ZeroHash
<1>2. CASE f # <<>>
  <2>1. Len(f) \in DOMAIN f /\ f[Len(f)] \in Entry
    BY <1>2
  <2>2. f[Len(f)] \in Record
    BY <2>1 DEF Parses, Entry
  <2> QED  BY <1>2, <2>2 DEF LastRecordHash, Hash, Record
<1> QED  BY <1>1, <1>2

\* What a reader finds behind the lines, when one more piece has been written.
LEMMA FileType ==
    ASSUME lines \in Seq(Entry), tail \in Seq(Entry)
    PROVE  /\ File \in Seq(Entry) /\ LastLine \in Entry
           /\ tail = <<>> => File = lines
           /\ tail # <<>> => File = Append(lines, LastLine)
           /\ LastLine # Garbage => Len(tail) = 1 /\ LastLine = tail[1]
<1>1. LastLine \in Entry
  BY DEF LastLine, Entry
<1> QED  BY <1>1 DEF File, LastLine

-----------------------------------------------------------------------------
(* Types. *)

LEMMA EntryTypes == TypeOK => lines \in Seq(Entry) /\ tail \in Seq(Entry)
BY DEF TypeOK, Entry

LEMMA TypeStep == ASSUME TypeOK, WriterInv, [Next]_vars  PROVE TypeOK'
<1> USE DEF TypeOK
<1>0. lines \in Seq(Entry) /\ tail \in Seq(Entry)
  BY EntryTypes
<1>1. ASSUME NEW q \in Queries, Answer(q)  PROVE TypeOK'
  BY <1>1 DEF Answer, Goto, file, Phases
<1>2. ASSUME NEW q \in Queries, HangUp(q)  PROVE TypeOK'
  BY <1>2 DEF HangUp, Goto, file, Phases
<1>3. ASSUME NEW q \in Queries, Lock(q)  PROVE TypeOK'
  <2>1. [prev |-> prev_hash, body |-> [query |-> q, timestamp |-> Stamp(q)]] \in Record
    BY DEF Record, Body, Stamp
  <2> QED  BY <1>3, <2>1 DEF Lock, Goto, file, Phases
<1>4. ASSUME NEW q \in Queries, WritePart(q)  PROVE TypeOK'
  BY <1>4 DEF WritePart, Goto, file, Phases
<1>5. ASSUME NEW q \in Queries, WriteRest(q)  PROVE TypeOK'
  <2>1. tail # <<>> /\ pending[q] \in Record
    BY <1>5 DEF WriteRest, WriterInv, Writing
  <2>2. tail' \in Seq(Record \cup {Garbage})
    BY <1>5, <2>1 DEF WriteRest
  <2> QED  BY <1>5, <2>2 DEF WriteRest, Goto, file, Phases
<1>6. ASSUME NEW q \in Queries, Newline(q)  PROVE TypeOK'
  <2>1. pending[q] \in Record
    BY <1>6 DEF Newline, WriterInv, Writing
  <2>2. lines' \in Seq(Record \cup {Garbage})
    BY <1>6, <1>0, FileType DEF Newline, Entry
  <2>3. prev_hash' \in Seq(Body)
    BY <1>6, <2>1 DEF Newline, Hash, Record
  <2> QED  BY <1>6, <2>2, <2>3 DEF Newline, Goto, file, Phases
<1>7. ASSUME NEW q \in Queries, WriteFails(q)  PROVE TypeOK'
  BY <1>7 DEF WriteFails, Goto, file, Phases
<1>8. ASSUME NEW q \in Queries, Reply(q)  PROVE TypeOK'
  BY <1>8 DEF Reply, Goto, file, Phases
<1>9. CASE Tick
  BY <1>9 DEF Tick, file
<1>10. CASE Crash
  BY <1>10 DEF Crash, file, ZeroHash, Phases
<1>11. CASE Open
  <2>1. Parses(File) => LastRecordHash(File) \in Seq(Body)
    BY <1>0, FileType, HashType
  <2> QED  BY <1>11, <2>1 DEF Open, file
<1>12. CASE UNCHANGED vars
  BY <1>12 DEF vars, file
<1> QED  BY <1>1, <1>2, <1>3, <1>4, <1>5, <1>6, <1>7, <1>8, <1>9, <1>10, <1>11, <1>12
         DEF Next, Step

-----------------------------------------------------------------------------
(* The mutex. *)

LEMMA WriterStep == ASSUME LogInv, [Next]_vars  PROVE WriterInv'
<1> USE DEF LogInv, Waiting, Writing, Finished, WriterInv, TypeOK
<1>1. ASSUME NEW q \in Queries, Answer(q)  PROVE WriterInv'
  BY <1>1, NobodyAssumption DEF Answer, Goto, file
<1>2. ASSUME NEW q \in Queries, HangUp(q)  PROVE WriterInv'
  BY <1>2, NobodyAssumption DEF HangUp, Goto, file
<1>3. ASSUME NEW q \in Queries, Lock(q)  PROVE WriterInv'
  <2>1. [prev |-> prev_hash, body |-> [query |-> q, timestamp |-> Stamp(q)]] \in Record
    BY DEF Record, Body, Stamp
  <2> QED  BY <1>3, <2>1, NobodyAssumption DEF Lock, Goto, file
<1>4. ASSUME NEW q \in Queries, WritePart(q)  PROVE WriterInv'
  <2>1. tail' # <<>>
    BY <1>4 DEF WritePart
  <2>2. \A p \in Queries : phase[p] # "line"
    BY <1>4 DEF WritePart
  <2>3. \A p \in Queries : phase'[p] = IF p = q THEN "part" ELSE phase[p]
    BY <1>4 DEF WritePart, Goto
  <2> QED  BY <1>4, <2>1, <2>2, <2>3, NobodyAssumption DEF WritePart, file
<1>5. ASSUME NEW q \in Queries, WriteRest(q)  PROVE WriterInv'
  <2>1. tail' # <<>> /\ Len(tail') = Len(tail) /\ tail'[Len(tail')] = pending[q]
    BY <1>5 DEF WriteRest
  <2> QED  BY <1>5, <2>1, NobodyAssumption DEF WriteRest, Goto, file
<1>6. ASSUME NEW q \in Queries, Newline(q)  PROVE WriterInv'
  BY <1>6, NobodyAssumption DEF Newline, Goto, file
<1>7. ASSUME NEW q \in Queries, WriteFails(q)  PROVE WriterInv'
  BY <1>7, NobodyAssumption DEF WriteFails, Goto, file
<1>8. ASSUME NEW q \in Queries, Reply(q)  PROVE WriterInv'
  BY <1>8, NobodyAssumption DEF Reply, Goto, file
<1>9. CASE Tick
  BY <1>9 DEF Tick, file
<1>10. CASE Crash
  BY <1>10, NobodyAssumption DEF Crash, file
<1>11. CASE Open
  BY <1>11 DEF Open, file
<1>12. CASE UNCHANGED vars
  BY <1>12 DEF vars, file
<1> QED  BY <1>1, <1>2, <1>3, <1>4, <1>5, <1>6, <1>7, <1>8, <1>9, <1>10, <1>11, <1>12
         DEF Next, Step

-----------------------------------------------------------------------------
(* The chain. *)

LEMMA ChainStep == ASSUME LogInv, [Next]_vars  PROVE ChainInv'
<1> SUFFICES ASSUME Parses(lines)'
             PROVE  /\ VerifyChain(lines)'
                    /\ (Len(tail) = 1 /\ tail[1] # Garbage => tail[1].prev = LastRecordHash(lines))'
                    /\ (process = "up" /\ tail = <<>> => prev_hash = LastRecordHash(lines))'
                    /\ (\A q \in Queries : phase[q] \in Writing /\ Alone(q) =>
                            pending[q].prev = LastRecordHash(lines))'
  BY DEF ChainInv
<1> DEFINE Goal == /\ VerifyChain(lines)'
                   /\ (Len(tail) = 1 /\ tail[1] # Garbage => tail[1].prev = LastRecordHash(lines))'
                   /\ (process = "up" /\ tail = <<>> => prev_hash = LastRecordHash(lines))'
                   /\ (\A q \in Queries : phase[q] \in Writing /\ Alone(q) =>
                           pending[q].prev = LastRecordHash(lines))'
<1> SUFFICES Goal
  OBVIOUS
<1>0. /\ lines \in Seq(Entry) /\ tail \in Seq(Entry) /\ phase \in [Queries -> Phases]
      /\ pending \in [Queries -> Record \cup {Garbage}]
  BY EntryTypes DEF LogInv, TypeOK
<1>w. WriterInv
  BY DEF LogInv
<1>c. lines' = lines =>
          /\ VerifyChain(lines)
          /\ Len(tail) = 1 /\ tail[1] # Garbage => tail[1].prev = LastRecordHash(lines)
          /\ process = "up" /\ tail = <<>> => prev_hash = LastRecordHash(lines)
          /\ \A q \in Queries : phase[q] \in Writing /\ Alone(q) =>
                 pending[q].prev = LastRecordHash(lines)
  BY DEF LogInv, ChainInv
<1>1. ASSUME NEW q \in Queries, Answer(q) \/ HangUp(q) \/ Reply(q) \/ WriteFails(q)
      PROVE Goal
  BY <1>0, <1>1, <1>c DEF Answer, HangUp, Reply, WriteFails, Goto, file,
     Alone, Waiting, Writing, Finished
<1>3. ASSUME NEW q \in Queries, Lock(q)  PROVE Goal
  <2>1. process = "up"
    BY <1>3, <1>w DEF Lock, WriterInv
  <2>2. \A p \in Queries : phase[p] \notin Writing
    BY <1>3, <1>w, NobodyAssumption DEF Lock, WriterInv
  <2>3. \A p \in Queries : phase'[p] \in Writing => p = q /\ phase'[p] = "locked"
    BY <1>0, <1>3, <2>2 DEF Lock, Goto
  <2>4. pending'[q].prev = prev_hash
    BY <1>0, <1>3 DEF Lock
  <2> QED  BY <1>3, <1>c, <2>1, <2>3, <2>4 DEF Lock, file, Alone
<1>4. ASSUME NEW q \in Queries, WritePart(q)  PROVE Goal
  <2>1. \A p \in Queries : phase'[p] \in Writing => p = q
    BY <1>0, <1>4, <1>w DEF WritePart, Goto, WriterInv, Writing
  <2>2. /\ tail' # <<>> /\ Len(tail') = Len(tail) + 1 /\ tail'[Len(tail) + 1] = Garbage
        /\ Len(tail) \in Nat /\ (Len(tail) = 0 <=> tail = <<>>)
    BY <1>0, <1>4 DEF WritePart
  <2>3. phase[q] = "locked" /\ phase'[q] = "part"
    BY <1>0, <1>4 DEF WritePart, Goto
  <2> QED  BY <1>4, <1>c, <2>1, <2>2, <2>3 DEF WritePart, Alone, Writing
<1>5. ASSUME NEW q \in Queries, WriteRest(q)  PROVE Goal
  <2>1. \A p \in Queries : phase'[p] \in Writing => p = q
    BY <1>0, <1>5, <1>w DEF WriteRest, Goto, WriterInv, Writing
  <2>2. /\ tail # <<>> /\ tail' # <<>> /\ Len(tail') = Len(tail)
        /\ tail'[Len(tail)] = pending[q]
    BY <1>0, <1>5, <1>w DEF WriteRest, WriterInv
  <2>3. phase[q] = "part" /\ phase'[q] = "line"
    BY <1>0, <1>5 DEF WriteRest, Goto
  <2> QED  BY <1>5, <1>c, <2>1, <2>2, <2>3 DEF WriteRest, Alone, Writing
<1>6. ASSUME NEW q \in Queries, Newline(q)  PROVE Goal
  <2>1. phase[q] = "line" /\ pending[q] \in Record /\ tail # <<>>
        /\ tail[Len(tail)] = pending[q]
    BY <1>6, <1>w DEF Newline, WriterInv, Writing
  <2>2. lines' = Append(lines, LastLine) /\ LastLine \in Entry /\ tail' = <<>>
    BY <1>0, <1>6, <2>1, FileType DEF Newline
  <2>3. Parses(lines) /\ LastLine # Garbage
    BY <1>0, <2>2, AppendParses
  <2>4. Len(tail) = 1 /\ LastLine = pending[q]
    BY <1>0, <2>1, <2>3, FileType
  <2>5. VerifyChain(lines) /\ pending[q].prev = LastRecordHash(lines)
    BY <2>1, <2>3, <2>4 DEF LogInv, ChainInv, Alone, Writing
  <2>6. VerifyChain(lines') /\ LastRecordHash(lines') = Hash(pending[q])
    BY <1>0, <2>1, <2>2, <2>4, <2>5, AppendVerifies, AppendHash
  <2>7. \A p \in Queries : phase'[p] \notin Writing
    BY <1>0, <1>6, <1>w, <2>1 DEF Newline, Goto, WriterInv, Writing
  <2> QED  BY <1>6, <2>2, <2>6, <2>7 DEF Newline
<1>9. CASE Tick \/ UNCHANGED vars
  BY <1>9, <1>c DEF Tick, vars, file, Alone
<1>10. CASE Crash
  BY <1>10, <1>0, <1>c DEF Crash, file, Writing, Waiting, Finished
<1>11. CASE Open
  <2>1. \A p \in Queries : phase'[p] \notin Writing
    BY <1>11, <1>w DEF Open, WriterInv
  <2>2. tail = <<>> => File = lines
    BY <1>0, FileType
  <2> QED  BY <1>11, <1>c, <2>1, <2>2 DEF Open, file
<1> QED  BY <1>1, <1>3, <1>4, <1>5, <1>6, <1>9, <1>10, <1>11 DEF Next, Step

LEMMA LogInvInit == Init => LogInv
BY NobodyAssumption
   DEF Init, LogInv, TypeOK, WriterInv, ChainInv, Phases, Waiting, Writing, ZeroHash,
       Parses, VerifyChain, LastRecordHash

LEMMA LogInvHolds == Spec => []LogInv
<1>1. LogInv /\ [Next]_vars => LogInv'
  BY TypeStep, WriterStep, ChainStep DEF LogInv
<1> QED  BY LogInvInit, <1>1, PTL DEF Spec

-----------------------------------------------------------------------------
(* Theorems. *)

\* The variables keep their types.
THEOREM TypeCorrect == Spec => []TypeOK
<1>1. LogInv => TypeOK
  BY DEF LogInv
<1> QED  BY LogInvHolds, <1>1, PTL

LEMMA VerifiesWhatParses == LogInv => ReadableLogsVerify
<1> SUFFICES ASSUME LogInv, Parses(File)  PROVE VerifyChain(File)
  BY DEF ReadableLogsVerify
<1>0. lines \in Seq(Entry) /\ tail \in Seq(Entry)
  BY EntryTypes DEF LogInv
<1>1. CASE tail = <<>>
  BY <1>0, <1>1, FileType DEF LogInv, ChainInv
<1>2. CASE tail # <<>>
  <2>1. Parses(lines) /\ LastLine # Garbage /\ LastLine \in Record
    BY <1>0, <1>2, FileType, AppendParses DEF Entry
  <2>2. LastLine.prev = LastRecordHash(lines) /\ VerifyChain(lines)
    BY <1>0, <2>1, FileType DEF LogInv, ChainInv
  <2> QED  BY <1>0, <1>2, <2>1, <2>2, FileType, AppendVerifies
<1> QED  BY <1>1, <1>2

\* A log whose lines all parse is one unbroken chain, whatever failed before,
\* whoever died and however often the log was opened again.
THEOREM ChainUnbroken == Spec => []ReadableLogsVerify
BY LogInvHolds, VerifiesWhatParses, PTL

-----------------------------------------------------------------------------
(* Logs without a fault. *)

\* Until a fault, what is behind the last newline is one writer's.
CleanInv ==
    Faulty = {} =>
        /\ Parses(lines)
        /\ tail # <<>> => Len(tail) = 1 /\ \E q \in Queries : phase[q] \in {"part", "line"}

LEMMA CleanStep == ASSUME LogInv, CleanInv, [Next]_vars  PROVE CleanInv'
<1> SUFFICES ASSUME Faulty' = {}
             PROVE  /\ Parses(lines)'
                    /\ tail' # <<>> =>
                           Len(tail') = 1 /\ \E q \in Queries : phase'[q] \in {"part", "line"}
  BY DEF CleanInv
<1> DEFINE Goal == /\ Parses(lines)'
                   /\ tail' # <<>> =>
                          Len(tail') = 1 /\ \E q \in Queries : phase'[q] \in {"part", "line"}
<1> SUFFICES Goal
  OBVIOUS
<1>0. /\ lines \in Seq(Entry) /\ tail \in Seq(Entry) /\ phase \in [Queries -> Phases]
  BY EntryTypes DEF LogInv, TypeOK
<1>w. WriterInv
  BY DEF LogInv
<1>c. Faulty = {} =>
          /\ Parses(lines)
          /\ tail # <<>> => Len(tail) = 1 /\ \E q \in Queries : phase[q] \in {"part", "line"}
  BY DEF CleanInv
<1>m. \A p, q \in Queries : phase[p] \in Writing /\ phase[q] \in Writing => p = q
  BY <1>w DEF WriterInv
<1>1. ASSUME NEW q \in Queries, Answer(q) \/ HangUp(q) \/ Lock(q) \/ Reply(q)  PROVE Goal
  <2>1. \A p \in Queries : p # q => phase'[p] = phase[p]
    BY <1>0, <1>1 DEF Answer, HangUp, Lock, Reply, Goto
  <2>2. phase[q] \notin {"part", "line", "lost"}
    BY <1>1 DEF Answer, HangUp, Lock, Reply, Waiting, Finished
  <2>3. failed' = failed /\ lines' = lines /\ tail' = tail
    BY <1>1 DEF Answer, HangUp, Lock, Reply, file
  <2>4. Faulty = {}
    BY <2>1, <2>2, <2>3 DEF Faulty, Lost
  <2> QED  BY <1>c, <2>1, <2>2, <2>3, <2>4
<1>4. ASSUME NEW q \in Queries, WritePart(q)  PROVE Goal
  <2>1. phase[q] = "locked" /\ phase'[q] = "part" /\ lines' = lines
    BY <1>0, <1>4 DEF WritePart, Goto
  <2>2. Faulty = {}
    BY <1>0, <1>4 DEF WritePart, Goto, Faulty, Lost
  <2>3. tail = <<>>
    BY <1>c, <1>m, <2>1, <2>2 DEF Writing
  <2>4. Len(tail') = 1
    BY <1>0, <1>4, <2>3 DEF WritePart
  <2> QED  BY <1>c, <2>1, <2>2, <2>4
<1>5. ASSUME NEW q \in Queries, WriteRest(q)  PROVE Goal
  <2>1. phase'[q] = "line" /\ lines' = lines
    BY <1>0, <1>5 DEF WriteRest, Goto
  <2>2. Faulty = {}
    BY <1>0, <1>5 DEF WriteRest, Goto, Faulty, Lost
  <2>3. Len(tail') = Len(tail) /\ tail # <<>>
    BY <1>0, <1>5, <1>w DEF WriteRest, WriterInv
  <2> QED  BY <1>c, <2>1, <2>2, <2>3
<1>6. ASSUME NEW q \in Queries, Newline(q)  PROVE Goal
  <2>1. Faulty = {}
    BY <1>0, <1>6 DEF Newline, Goto, Faulty, Lost
  <2>2. tail # <<>> /\ tail[Len(tail)] = pending[q] /\ pending[q] \in Record
    BY <1>6, <1>w DEF Newline, WriterInv, Writing
  <2>3. LastLine = pending[q]
    BY <1>c, <2>1, <2>2 DEF LastLine
  <2>4. lines' = Append(lines, pending[q]) /\ tail' = <<>>
    BY <1>0, <1>6, <2>2, <2>3, FileType DEF Newline
  <2> QED  BY <1>0, <1>c, <2>1, <2>2, <2>4, AppendParses, GarbageAssumption DEF Entry
<1>7. ASSUME NEW q \in Queries, WriteFails(q)  PROVE Goal
  BY <1>7 DEF WriteFails, Faulty, Lost
<1>9. CASE Tick \/ UNCHANGED vars
  BY <1>9, <1>c DEF Tick, vars, file, Faulty, Lost
<1>10. CASE Crash
  <2>1. failed = {} /\ lines' = lines /\ tail' = tail
    BY <1>10 DEF Crash, file, Faulty, Lost
  <2>2. \A q \in Queries : phase[q] \notin Waiting \cup Writing \cup Finished
    BY <1>10 DEF Crash, Faulty, Lost
  <2>3. Faulty = {}
    BY <1>10, <2>1 DEF Crash, Faulty, Lost
  <2> QED  BY <1>c, <2>1, <2>2, <2>3 DEF Writing
<1>11. CASE Open
  BY <1>11, <1>c DEF Open, file, Faulty, Lost
<1> QED  BY <1>1, <1>4, <1>5, <1>6, <1>7, <1>9, <1>10, <1>11 DEF Next, Step

LEMMA CleanVerifies == LogInv /\ CleanInv => VerifyFailsOnlyMidWrite
<1> SUFFICES ASSUME LogInv, CleanInv, Faulty = {}, \A q \in Queries : phase[q] # "part"
             PROVE  VerifyChain(File)
  BY DEF VerifyFailsOnlyMidWrite
<1>0. lines \in Seq(Entry) /\ tail \in Seq(Entry)
  BY EntryTypes DEF LogInv
<1>1. CASE tail = <<>>
  BY <1>0, <1>1, FileType DEF CleanInv, LogInv, ChainInv
<1>2. CASE tail # <<>>
  <2>1. PICK q \in Queries : phase[q] = "line"
    BY <1>2 DEF CleanInv
  <2>2. tail[Len(tail)] = pending[q] /\ pending[q] \in Record /\ Len(tail) = 1
    BY <1>2, <2>1 DEF CleanInv, LogInv, WriterInv, Writing
  <2>3. LastLine # Garbage
    BY <2>2, GarbageAssumption DEF LastLine
  <2>4. Parses(File)
    BY <1>0, <1>2, <2>3, FileType, AppendParses DEF CleanInv
  <2> QED  BY <2>4, VerifiesWhatParses DEF ReadableLogsVerify
<1> QED  BY <1>1, <1>2

\* As long as no write fails and no process dies, a verifier that reads without
\* the mutex can see a broken chain only while a record is half written.
THEOREM NoFalseAlarms == Spec => []VerifyFailsOnlyMidWrite
<1>1. Init => CleanInv
  BY DEF Init, CleanInv, Parses
<1>2. LogInv /\ CleanInv /\ [Next]_vars => CleanInv'
  BY CleanStep
<1> QED  BY LogInvHolds, CleanVerifies, <1>1, <1>2, PTL DEF Spec

-----------------------------------------------------------------------------
(* Times. *)

\* A record's time lies between its query's answer and now.
Dated(b) == /\ phase[b.query] # "idle"
            /\ answered[b.query] <= b.timestamp /\ b.timestamp <= now

\* No record of f is younger than b.
NotBefore(f, b) == \A i \in DOMAIN f : f[i] # Garbage => f[i].body.timestamp <= b.timestamp

Sorted(f) == \A j \in DOMAIN f : f[j] # Garbage =>
                 \A i \in 1..(j - 1) : f[i] # Garbage =>
                     f[i].body.timestamp <= f[j].body.timestamp

\* The records in the file, the one alone behind the lines, and the one being
\* written are dated, and each is no earlier than those before it.
TimeInv ==
    /\ \A q \in Queries : answered[q] <= now
    /\ \A i \in DOMAIN lines : lines[i] # Garbage => Dated(lines[i].body)
    /\ Sorted(lines)
    /\ Len(tail) = 1 /\ tail[1] # Garbage =>
           Dated(tail[1].body) /\ NotBefore(lines, tail[1].body)
    /\ \A q \in Queries : phase[q] \in Writing =>
           Dated(pending[q].body) /\ NotBefore(lines, pending[q].body)

LEMMA AppendSorted ==
    ASSUME NEW f \in Seq(Entry), NEW x \in Entry, Sorted(f),
           x # Garbage => NotBefore(f, x.body)
    PROVE  Sorted(Append(f, x))
<1> DEFINE g == Append(f, x)
<1>1. /\ DOMAIN f = 1..Len(f) /\ DOMAIN g = 1..(Len(f) + 1) /\ Len(f) \in Nat
      /\ g[Len(f) + 1] = x
      /\ \A i \in 1..Len(f) : g[i] = f[i]
  OBVIOUS
<1>2. SUFFICES ASSUME NEW j \in 1..(Len(f) + 1), g[j] # Garbage,
                      NEW i \in 1..(j - 1), g[i] # Garbage
               PROVE  g[i].body.timestamp <= g[j].body.timestamp
  BY <1>1 DEF Sorted
<1>3. i \in 1..Len(f) /\ (j \in 1..Len(f) \/ j = Len(f) + 1)
  BY <1>1
<1> QED  BY <1>1, <1>2, <1>3 DEF Sorted, NotBefore

\* Dated(b) in the next state, for a given content b.
DatedNext(b) == /\ phase'[b.query] # "idle"
                /\ answered'[b.query] <= b.timestamp /\ b.timestamp <= now'

\* A date once right stays right.
LEMMA DatedStep ==
    ASSUME LogInv, TimeInv, [Next]_vars, NEW b \in Body, Dated(b)
    PROVE  DatedNext(b)
<1>1. b.query \in Queries /\ b.timestamp \in Nat
  BY DEF Body
<1>2. now' >= now /\ now' \in Nat /\ now \in Nat
  <2>1. now \in Nat /\ (now' = now \/ now' = now + 1)
    BY DEF LogInv, TypeOK, Next, Step, Answer, HangUp, Lock, WritePart, WriteRest, Newline,
       WriteFails, Reply, Tick, Crash, Open, vars
  <2> QED  BY <2>1
<1>3. answered'[b.query] = answered[b.query] /\ phase'[b.query] # "idle"
  BY <1>1 DEF Dated, LogInv, TypeOK, Next, Step, Answer, HangUp, Lock, WritePart, WriteRest,
     Newline, WriteFails, Reply, Tick, Crash, Open, vars, Goto
<1> QED  BY <1>1, <1>2, <1>3 DEF Dated, DatedNext, LogInv, TypeOK

LEMMA TimeStep == ASSUME LogInv, TimeInv, [Next]_vars  PROVE TimeInv'
<1>0. /\ lines \in Seq(Entry) /\ tail \in Seq(Entry) /\ phase \in [Queries -> Phases]
      /\ pending \in [Queries -> Record \cup {Garbage}] /\ now \in Nat
      /\ answered \in [Queries -> Nat]
  BY EntryTypes DEF LogInv, TypeOK
<1>w. WriterInv
  BY DEF LogInv
<1>r. \A x \in Entry : x # Garbage => x \in Record /\ x.body \in Body
  BY DEF Entry, Record
<1>1. \A q \in Queries : answered'[q] <= now'
  BY <1>0 DEF TimeInv, Next, Step, Answer, HangUp, Lock, WritePart, WriteRest, Newline,
     WriteFails, Reply, Tick, Crash, Open, vars
<1>2. \A i \in DOMAIN lines : lines[i] # Garbage => DatedNext(lines[i].body)
  <2>1. ASSUME NEW i \in DOMAIN lines, lines[i] # Garbage  PROVE DatedNext(lines[i].body)
    <3>1. lines[i].body \in Body /\ Dated(lines[i].body)
      BY <1>0, <1>r, <2>1 DEF TimeInv
    <3> QED  BY <3>1, DatedStep
  <2> QED  BY <2>1
<1>3. Len(tail) = 1 /\ tail[1] # Garbage => DatedNext(tail[1].body)
  <2>1. Len(tail) = 1 /\ tail[1] # Garbage => tail[1].body \in Body /\ Dated(tail[1].body)
    <3>1. ASSUME Len(tail) = 1  PROVE tail[1] \in Entry
      <4>1. tail \in Seq(Entry) /\ 1 \in 1..Len(tail)
        BY <1>0, <3>1
      <4> QED  BY <4>1
    <3> QED  BY <1>r, <3>1 DEF TimeInv
  <2> QED  BY <2>1, DatedStep
<1>4. \A q \in Queries : phase[q] \in Writing => DatedNext(pending[q].body)
  <2>1. ASSUME NEW q \in Queries, phase[q] \in Writing  PROVE DatedNext(pending[q].body)
    <3>1. pending[q].body \in Body /\ Dated(pending[q].body)
      BY <1>w, <2>1 DEF TimeInv, WriterInv, Record
    <3> QED  BY <3>1, DatedStep
  <2> QED  BY <2>1
<1>5. /\ Sorted(lines)
      /\ Len(tail) = 1 /\ tail[1] # Garbage => NotBefore(lines, tail[1].body)
      /\ \A q \in Queries : phase[q] \in Writing => NotBefore(lines, pending[q].body)
  BY DEF TimeInv
<1> DEFINE Goal == /\ \A i \in DOMAIN lines' : lines'[i] # Garbage => DatedNext(lines'[i].body)
                   /\ Sorted(lines')
                   /\ Len(tail') = 1 /\ tail'[1] # Garbage =>
                          DatedNext(tail'[1].body) /\ NotBefore(lines', tail'[1].body)
                   /\ \A q \in Queries : phase'[q] \in Writing =>
                          DatedNext(pending'[q].body) /\ NotBefore(lines', pending'[q].body)
<1> SUFFICES Goal
  BY <1>1 DEF TimeInv, Dated, DatedNext, Sorted, NotBefore
<1>6. ASSUME NEW q \in Queries,
             Answer(q) \/ HangUp(q) \/ WriteFails(q) \/ Reply(q)  PROVE Goal
  <2>1. lines' = lines /\ tail' = tail
    BY <1>6 DEF Answer, HangUp, WriteFails, Reply, file
  <2>2. \A p \in Queries : phase'[p] \in Writing =>
            phase[p] \in Writing /\ pending'[p] = pending[p]
    BY <1>0, <1>6 DEF Answer, HangUp, WriteFails, Reply, Goto, Writing
  <2> HIDE DEF Goal
  <2> QED  BY <1>2, <1>3, <1>4, <1>5, <2>1, <2>2 DEF Goal
<1>7. ASSUME NEW q \in Queries, Lock(q)  PROVE Goal
  <2>1. lines' = lines /\ tail' = tail
    BY <1>7 DEF Lock, file
  <2>2. \A p \in Queries : phase'[p] \in Writing => p = q
    BY <1>0, <1>7, <1>w, NobodyAssumption DEF Lock, Goto, WriterInv
  <2>3. pending'[q].body = [query |-> q, timestamp |-> now]
    BY <1>0, <1>7 DEF Lock, Stamp
  <2>4. DatedNext(pending'[q].body)
    <3>1. phase'[q] # "idle" /\ answered'[q] = answered[q] /\ now' = now
      BY <1>0, <1>7 DEF Lock, Goto
    <3> QED  BY <1>0, <2>3, <3>1 DEF DatedNext, TimeInv
  <2>5. NotBefore(lines, pending'[q].body)
    BY <2>3 DEF NotBefore, TimeInv, Dated
  <2> HIDE DEF Goal
  <2> QED  BY <1>2, <1>3, <1>5, <2>1, <2>2, <2>4, <2>5 DEF Goal
<1>8. ASSUME NEW q \in Queries, WritePart(q)  PROVE Goal
  <2>1. lines' = lines /\ (Len(tail') = 1 => tail'[1] = Garbage)
    BY <1>0, <1>8 DEF WritePart
  <2>2. \A p \in Queries : phase'[p] \in Writing =>
            phase[p] \in Writing /\ pending'[p] = pending[p]
    BY <1>0, <1>8 DEF WritePart, Goto, Writing
  <2> HIDE DEF Goal
  <2> QED  BY <1>2, <1>4, <1>5, <2>1, <2>2 DEF Goal
<1>9. ASSUME NEW q \in Queries, WriteRest(q)  PROVE Goal
  <2>1. lines' = lines /\ (Len(tail') = 1 => tail'[1] = pending[q])
    BY <1>0, <1>9, <1>w DEF WriteRest, WriterInv
  <2>2. \A p \in Queries : phase'[p] \in Writing =>
            phase[p] \in Writing /\ pending'[p] = pending[p]
    BY <1>0, <1>9 DEF WriteRest, Goto, Writing
  <2>3. phase[q] \in Writing
    BY <1>9 DEF WriteRest, Writing
  <2> HIDE DEF Goal
  <2> QED  BY <1>2, <1>4, <1>5, <2>1, <2>2, <2>3 DEF Goal
<1>10. ASSUME NEW q \in Queries, Newline(q)  PROVE Goal
  <2>1. tail # <<>> /\ tail' = <<>> /\ \A p \in Queries : phase'[p] \notin Writing
    BY <1>0, <1>10, <1>w DEF Newline, Goto, WriterInv, Writing
  <2>2. lines' = Append(lines, LastLine) /\ LastLine \in Entry
    BY <1>0, <1>10, <2>1, FileType DEF Newline
  <2>3. LastLine # Garbage => DatedNext(LastLine.body) /\ NotBefore(lines, LastLine.body)
    BY <1>0, <1>3, <1>5, FileType
  <2>4. Sorted(lines')
    BY <1>0, <1>5, <2>2, <2>3, AppendSorted
  <2>5. \A i \in DOMAIN lines' : lines'[i] = LastLine \/ (i \in DOMAIN lines /\ lines'[i] = lines[i])
    BY <1>0, <2>2
  <2> HIDE DEF Goal
  <2> QED  BY <1>2, <2>1, <2>3, <2>4, <2>5 DEF Goal
<1>11. CASE Tick \/ UNCHANGED vars
  <2>1. UNCHANGED <<lines, tail, phase, pending>>
    BY <1>11 DEF Tick, vars, file
  <2> HIDE DEF Goal
  <2> QED  BY <1>2, <1>3, <1>4, <1>5, <2>1 DEF Goal
<1>12. CASE Crash \/ Open
  <2>1. lines' = lines /\ tail' = tail
    BY <1>12 DEF Crash, Open, file
  <2>2. \A p \in Queries : phase'[p] \notin Writing
    BY <1>0, <1>12, <1>w DEF Crash, Open, WriterInv, Writing, Waiting, Finished
  <2> HIDE DEF Goal
  <2> QED  BY <1>2, <1>3, <1>5, <2>1, <2>2 DEF Goal
<1> QED  BY <1>6, <1>7, <1>8, <1>9, <1>10, <1>11, <1>12 DEF Next, Step

LEMMA TimeOrders == LogInv /\ TimeInv => TimesOrdered
<1> SUFFICES ASSUME LogInv, TimeInv  PROVE TimesOrdered
  OBVIOUS
<1>0. lines \in Seq(Entry) /\ tail \in Seq(Entry)
  BY EntryTypes DEF LogInv
<1>1. Sorted(File)
  <2>1. CASE tail = <<>>
    BY <1>0, <2>1, FileType DEF TimeInv
  <2>2. CASE tail # <<>>
    <3>1. LastLine # Garbage => NotBefore(lines, LastLine.body)
      BY <1>0, FileType DEF TimeInv
    <3> QED  BY <1>0, <2>2, <3>1, FileType, AppendSorted DEF TimeInv
  <2> QED  BY <2>1, <2>2
<1>2. \A j \in DOMAIN File : File[j] # Garbage => Dated(File[j].body)
  <2>1. CASE tail = <<>>
    BY <1>0, <2>1, FileType DEF TimeInv
  <2>2. CASE tail # <<>>
    <3>1. LastLine # Garbage => Dated(LastLine.body)
      BY <1>0, FileType DEF TimeInv
    <3>2. \A j \in DOMAIN File : File[j] = LastLine \/ (j \in DOMAIN lines /\ File[j] = lines[j])
      BY <1>0, <2>2, FileType
    <3> QED  BY <3>1, <3>2 DEF TimeInv
  <2> QED  BY <2>1, <2>2
<1>3. \A j \in DOMAIN File : File[j] # Garbage =>
          File[j].body.timestamp \in Nat /\ answered[File[j].body.query] \in Nat
  <2>1. File \in Seq(Entry)
    BY <1>0, FileType
  <2>2. \A j \in DOMAIN File : File[j] \in Entry
    BY <2>1
  <2> QED  BY <2>2 DEF Entry, Record, Body, LogInv, TypeOK
<1> QED  BY <1>1, <1>2, <1>3 DEF TimesOrdered, Sorted, Dated

\* The log's records are in the order of their times, and none is dated before
\* the answer it records, because the time is taken under the mutex.
THEOREM TimesInOrder == Spec => []TimesOrdered
<1>1. Init => TimeInv
  BY DEF Init, TimeInv, Sorted, Writing
<1>2. LogInv /\ TimeInv /\ [Next]_vars => TimeInv'
  BY TimeStep
<1> QED  BY LogInvHolds, TimeOrders, <1>1, <1>2, PTL DEF Spec

-----------------------------------------------------------------------------
(* Cuts. *)

\* No record can take the place of the one before it: what its prev_hash covers
\* is one record longer than what that one's covers.
LEMMA NeighboursDiffer ==
    ASSUME NEW f \in Seq(Entry), VerifyChain(f), NEW i \in 1..(Len(f) - 1),
           NEW g, VerifyChain(g), i \in DOMAIN g, g[i] = f[i + 1],
           i # 1 => g[i - 1] = f[i - 1]
    PROVE  FALSE
<1>1. i \in DOMAIN f /\ i + 1 \in DOMAIN f /\ i + 1 # 1 /\ (i + 1) - 1 = i
  <2>1. DOMAIN f = 1..Len(f) /\ Len(f) \in Nat /\ i \in Nat /\ 1 <= i /\ i <= Len(f) - 1
    OBVIOUS
  <2> QED  BY <2>1
<1>2. f[i] \in Record /\ f[i + 1] \in Record
  <2>1. f[i] \in Entry /\ f[i + 1] \in Entry
    BY <1>1
  <2> QED  BY <1>1, <2>1 DEF VerifyChain, Parses, Entry
<1>3. f[i + 1].prev = Append(f[i].prev, f[i].body)
  BY <1>1 DEF VerifyChain, HashBefore, Hash
<1>4. f[i + 1].prev = HashBefore(g, i)
  BY DEF VerifyChain
<1>5. HashBefore(g, i) = HashBefore(f, i)
  BY DEF HashBefore
<1>6. f[i].prev = HashBefore(f, i)
  BY <1>1 DEF VerifyChain
<1>7. f[i].prev \in Seq(Body) /\ f[i].body \in Body
  BY <1>2 DEF Record
<1>8. Append(f[i].prev, f[i].body) # f[i].prev
  BY <1>7
<1> QED  BY <1>3, <1>4, <1>5, <1>6, <1>8

LEMMA CutNoticed ==
    ASSUME NEW f \in Seq(Entry), VerifyChain(f), NEW i \in 1..(Len(f) - 1)
    PROVE  /\ ~VerifyChain(RemoveAt(f, i))
           /\ ~VerifyChain([f EXCEPT ![i] = f[i + 1], ![i + 1] = f[i]])
<1>1. Len(f) \in Nat /\ DOMAIN f = 1..Len(f) /\ i \in Nat /\ i >= 1 /\ i < Len(f)
  OBVIOUS
<1>2. ~VerifyChain(RemoveAt(f, i))
  <2> DEFINE a == SubSeq(f, 1, i - 1)
             b == SubSeq(f, i + 1, Len(f))
             g == a \o b
  <2>1. a \in Seq(Entry) /\ Len(a) = i - 1 /\ \A j \in 1..(i - 1) : a[j] = f[j]
    BY <1>1
  <2>2. b \in Seq(Entry) /\ Len(b) = Len(f) - i /\ b[1] = f[i + 1]
    BY <1>1
  <2> HIDE DEF a, b
  <2>3. /\ g \in Seq(Entry) /\ Len(g) = Len(a) + Len(b)
        /\ \A j \in 1..Len(a) : g[j] = a[j]
        /\ \A j \in 1..Len(b) : g[Len(a) + j] = b[j]
    <3> SUFFICES ASSUME a \in Seq(Entry), b \in Seq(Entry)
                 PROVE  /\ g \in Seq(Entry) /\ Len(g) = Len(a) + Len(b)
                        /\ \A j \in 1..Len(a) : g[j] = a[j]
                        /\ \A j \in 1..Len(b) : g[Len(a) + j] = b[j]
      BY <2>1, <2>2
    <3>1. g \in Seq(Entry) /\ Len(g) = Len(a) + Len(b)
      OBVIOUS
    <3>2. \A j \in 1..Len(a) : g[j] = a[j]
      OBVIOUS
    <3>3. \A j \in 1..Len(b) : g[Len(a) + j] = b[j]
      OBVIOUS
    <3> QED  BY <3>1, <3>2, <3>3
  <2> HIDE DEF g
  <2>4. i \in DOMAIN g /\ g[i] = f[i + 1] /\ (i # 1 => g[i - 1] = f[i - 1])
    <3>1. DOMAIN g = 1..Len(g) /\ Len(g) = Len(f) - 1
      BY <1>1, <2>1, <2>2, <2>3
    <3>2. 1 \in 1..Len(b) /\ Len(a) + 1 = i
      BY <1>1, <2>1, <2>2
    <3>3. g[i] = f[i + 1]
      BY <2>2, <2>3, <3>2
    <3>4. i # 1 => i - 1 \in 1..(i - 1) /\ i - 1 \in 1..Len(a)
      BY <1>1, <2>1
    <3>5. i # 1 => g[i - 1] = f[i - 1]
      BY <2>1, <2>3, <3>4
    <3> QED  BY <1>1, <3>1, <3>3, <3>5
  <2>5. ~VerifyChain(g)
    BY <2>4, NeighboursDiffer
  <2>6. RemoveAt(f, i) = g
    BY DEF RemoveAt, g, a, b
  <2> QED  BY <2>5, <2>6
<1>3. ~VerifyChain([f EXCEPT ![i] = f[i + 1], ![i + 1] = f[i]])
  <2> DEFINE g == [f EXCEPT ![i] = f[i + 1], ![i + 1] = f[i]]
  <2>1. DOMAIN g = 1..Len(f) /\ g[i] = f[i + 1] /\ (i # 1 => g[i - 1] = f[i - 1])
    BY <1>1
  <2>2. i \in DOMAIN g
    BY <1>1, <2>1
  <2> HIDE DEF g
  <2>3. ~VerifyChain(g)
    BY <2>1, <2>2, NeighboursDiffer
  <2> QED  BY <2>3 DEF g
<1> QED  BY <1>2, <1>3

\* Taking out an entry that has a successor, or exchanging two neighbours, is
\* noticed in every log that verifies, however it came about.
THEOREM EveryCutIsNoticed == Spec => []CutsAreNoticed
<1>1. LogInv => CutsAreNoticed
  <2> SUFFICES ASSUME LogInv  PROVE CutsAreNoticed
    OBVIOUS
  <2>1. File \in Seq(Entry)
    BY EntryTypes, FileType DEF LogInv
  <2> QED  BY <2>1, CutNoticed DEF CutsAreNoticed
<1> QED  BY <1>1, LogInvHolds, PTL

-----------------------------------------------------------------------------
(* Disclosures.  Every torn piece behind the lines has a faulty query of its  *)
(* own, and spoils the line of one query at most.                            *)

Kept(f, q) == \E i \in DOMAIN f : f[i] # Garbage /\ f[i].body.query = q

Unkept == {q \in Queries : /\ phase[q] \in {"recorded", "replied"}
                           /\ q \notin failed /\ ~Kept(lines, q)}

\* What is behind the lines is not the beginning of one live record.
Spoiled == tail # <<>> /\ ~(Len(tail) = 1 /\ \E q \in Queries : phase[q] \in {"part", "line"})

Owed == IF Spoiled THEN 1 ELSE 0

OwnInv ==
    /\ \A q \in Queries : phase[q] \in Writing => pending[q].body.query = q
    /\ \A q \in Queries : q \in failed => phase[q] \in {"unrecorded", "replied", "lost"}
    /\ \A q \in Queries : phase[q] = "unrecorded" => q \in failed

CountInv == OwnInv /\ Cardinality(Unkept) + Owed <= Cardinality(Faulty)

LEMMA OwnStep == ASSUME LogInv, OwnInv, [Next]_vars  PROVE OwnInv'
<1>0. /\ phase \in [Queries -> Phases] /\ pending \in [Queries -> Record \cup {Garbage}]
      /\ failed \in SUBSET Queries
  BY DEF LogInv, TypeOK
<1> USE DEF OwnInv, Waiting, Writing, Finished
<1>1. ASSUME NEW q \in Queries, Answer(q) \/ HangUp(q) \/ WritePart(q) \/ WriteRest(q)
      PROVE  OwnInv'
  BY <1>0, <1>1 DEF Answer, HangUp, WritePart, WriteRest, Goto
<1>2. ASSUME NEW q \in Queries, Lock(q)  PROVE OwnInv'
  BY <1>0, <1>2 DEF Lock, Goto
<1>3. ASSUME NEW q \in Queries, Newline(q)  PROVE OwnInv'
  BY <1>0, <1>3 DEF Newline, Goto
<1>4. ASSUME NEW q \in Queries, WriteFails(q)  PROVE OwnInv'
  BY <1>0, <1>4 DEF WriteFails, Goto
<1>5. ASSUME NEW q \in Queries, Reply(q)  PROVE OwnInv'
  BY <1>0, <1>5 DEF Reply, Goto
<1>6. CASE Tick \/ Open \/ UNCHANGED vars
  BY <1>0, <1>6 DEF Tick, Open, vars
<1>7. CASE Crash
  BY <1>0, <1>7 DEF Crash
<1> QED  BY <1>1, <1>2, <1>3, <1>4, <1>5, <1>6, <1>7 DEF Next, Step

\* What a step may do to the missing (M), the torn piece and the faulty (F).
Balanced(M, M2, F, F2, owed, owed2) ==
    /\ F \subseteq F2
    /\ \/ M2 \subseteq M /\ owed2 <= owed
       \/ M2 \subseteq M /\ \E q \in F2 : q \notin F
       \/ owed = 1 /\ owed2 = 0 /\ \E q : M2 \subseteq M \cup {q}

LEMMA Balance ==
    ASSUME NEW S, IsFiniteSet(S), NEW M \in SUBSET S, NEW M2 \in SUBSET S,
           NEW F \in SUBSET S, NEW F2 \in SUBSET S,
           NEW owed \in {0, 1}, NEW owed2 \in {0, 1},
           Cardinality(M) + owed <= Cardinality(F),
           Balanced(M, M2, F, F2, owed, owed2)
    PROVE  Cardinality(M2) + owed2 <= Cardinality(F2)
<1>1. /\ IsFiniteSet(M) /\ IsFiniteSet(M2) /\ IsFiniteSet(F) /\ IsFiniteSet(F2)
      /\ Cardinality(M) \in Nat /\ Cardinality(M2) \in Nat
      /\ Cardinality(F) \in Nat /\ Cardinality(F2) \in Nat
  BY FS_Subset, FS_CardinalityType
<1>2. F \subseteq F2 /\ Cardinality(F) <= Cardinality(F2)
  BY <1>1, FS_Subset DEF Balanced
<1>3. M2 \subseteq M => Cardinality(M2) <= Cardinality(M)
  BY <1>1, FS_Subset
<1>4. CASE M2 \subseteq M /\ owed2 <= owed
  BY <1>1, <1>2, <1>3, <1>4
<1>5. CASE M2 \subseteq M /\ \E q \in F2 : q \notin F
  <2>1. Cardinality(F) # Cardinality(F2)
    BY <1>1, <1>2, <1>5, FS_Subset
  <2> QED  BY <1>1, <1>2, <1>3, <1>5, <2>1
<1>6. CASE owed = 1 /\ owed2 = 0 /\ \E q : M2 \subseteq M \cup {q}
  <2>1. PICK q : M2 \subseteq M \cup {q}
    BY <1>6
  <2>2. /\ IsFiniteSet(M \cup {q}) /\ Cardinality(M \cup {q}) \in Nat
        /\ Cardinality(M \cup {q}) <= Cardinality(M) + 1
    <3>1. /\ IsFiniteSet(M \cup {q})
          /\ Cardinality(M \cup {q}) = IF q \in M THEN Cardinality(M) ELSE Cardinality(M) + 1
      BY <1>1, FS_AddElement
    <3>2. Cardinality(M \cup {q}) \in Nat
      BY <3>1, FS_CardinalityType
    <3> QED  BY <1>1, <3>1, <3>2
  <2>3. Cardinality(M2) <= Cardinality(M \cup {q})
    BY <2>1, <2>2, FS_Subset
  <2> QED  BY <1>1, <1>2, <1>6, <2>2, <2>3
<1> QED  BY <1>4, <1>5, <1>6 DEF Balanced

\* Lines that are there stay there.
LEMMA KeptAppend ==
    ASSUME NEW f \in Seq(Entry), NEW x \in Entry, NEW q
    PROVE  /\ Kept(f, q) => Kept(Append(f, x), q)
           /\ x # Garbage /\ x.body.query = q => Kept(Append(f, x), q)
<1>1. /\ DOMAIN f = 1..Len(f) /\ DOMAIN Append(f, x) = 1..(Len(f) + 1) /\ Len(f) \in Nat
      /\ Append(f, x)[Len(f) + 1] = x
      /\ \A i \in 1..Len(f) : Append(f, x)[i] = f[i]
  OBVIOUS
<1> QED  BY <1>1 DEF Kept

LEMMA BalanceStep ==
    ASSUME LogInv, OwnInv, [Next]_vars
    PROVE  /\ Faulty \subseteq Faulty'
           /\ \/ Unkept' \subseteq Unkept /\ (Spoiled' => Spoiled)
              \/ Unkept' \subseteq Unkept /\ \E q \in Faulty' : q \notin Faulty
              \/ Spoiled /\ ~Spoiled' /\ \E q : Unkept' \subseteq Unkept \cup {q}
<1> DEFINE Goal == /\ Faulty \subseteq Faulty'
                   /\ \/ Unkept' \subseteq Unkept /\ (Spoiled' => Spoiled)
                      \/ Unkept' \subseteq Unkept /\ \E q \in Faulty' : q \notin Faulty
                      \/ Spoiled /\ ~Spoiled' /\ \E q : Unkept' \subseteq Unkept \cup {q}
<1>0. /\ lines \in Seq(Entry) /\ tail \in Seq(Entry) /\ phase \in [Queries -> Phases]
      /\ failed \in SUBSET Queries
  BY EntryTypes DEF LogInv, TypeOK
<1>w. WriterInv
  BY DEF LogInv
<1>m. \A p, q \in Queries : phase[p] \in Writing /\ phase[q] \in Writing => p = q
  BY <1>w DEF WriterInv
<1>1. ASSUME NEW q \in Queries, Answer(q) \/ HangUp(q) \/ Lock(q) \/ Reply(q)  PROVE Goal
  <2>1. /\ lines' = lines /\ tail' = tail /\ failed' = failed
        /\ \A p \in Queries : p # q => phase'[p] = phase[p]
    BY <1>0, <1>1 DEF Answer, HangUp, Lock, Reply, Goto, file
  <2>2. /\ phase[q] \notin {"part", "line", "lost"} /\ phase'[q] \notin {"part", "line", "lost"}
        /\ phase'[q] \in {"recorded", "replied"} => phase[q] \in {"recorded", "unrecorded"}
    BY <1>0, <1>1 DEF Answer, HangUp, Lock, Reply, Goto, Waiting, Finished
  <2>3. Unkept' \subseteq Unkept
    BY <2>1, <2>2 DEF Unkept, OwnInv
  <2>4. Faulty' = Faulty
    BY <2>1, <2>2 DEF Faulty, Lost
  <2>5. Spoiled' => Spoiled
    BY <2>1, <2>2 DEF Spoiled
  <2> QED  BY <2>3, <2>4, <2>5
<1>2. ASSUME NEW q \in Queries, WritePart(q) \/ WriteRest(q)  PROVE Goal
  <2>1. /\ lines' = lines /\ failed' = failed
        /\ \A p \in Queries : p # q => phase'[p] = phase[p]
        /\ phase'[q] \in {"part", "line"} /\ phase[q] \in {"locked", "part"}
    BY <1>0, <1>2 DEF WritePart, WriteRest, Goto
  <2>2. Unkept' \subseteq Unkept
    BY <2>1 DEF Unkept
  <2>3. Faulty' = Faulty
    BY <2>1 DEF Faulty, Lost
  <2>4. Spoiled' => Spoiled
    <3>1. CASE WritePart(q)
      <4>1. phase[q] = "locked"
        BY <3>1 DEF WritePart
      <4>2. \A p \in Queries : phase[p] \notin {"part", "line"}
        BY <1>m, <4>1 DEF Writing
      <4>3. tail = <<>> => Len(tail') = 1
        BY <1>0, <3>1 DEF WritePart
      <4> QED  BY <2>1, <4>2, <4>3 DEF Spoiled
    <3>2. CASE WriteRest(q)
      <4>1. Len(tail') = Len(tail)
        BY <1>0, <3>2 DEF WriteRest
      <4>2. tail # <<>>
        BY <1>w, <3>2 DEF WriteRest, WriterInv
      <4> QED  BY <2>1, <4>1, <4>2 DEF Spoiled
    <3> QED  BY <1>2, <3>1, <3>2
  <2> QED  BY <2>2, <2>3, <2>4
<1>3. ASSUME NEW q \in Queries, Newline(q)  PROVE Goal
  <2>1. /\ failed' = failed /\ phase[q] = "line" /\ phase'[q] = "recorded"
        /\ \A p \in Queries : p # q => phase'[p] = phase[p]
    BY <1>0, <1>3 DEF Newline, Goto
  <2>2. tail # <<>> /\ tail[Len(tail)] = pending[q] /\ pending[q] \in Record
        /\ pending[q].body.query = q
    BY <1>w, <2>1 DEF WriterInv, Writing, OwnInv
  <2>3. lines' = Append(lines, LastLine) /\ LastLine \in Entry
    BY <1>0, <1>3, <2>2, FileType DEF Newline
  <2>4. \A p \in Queries : Kept(lines, p) => Kept(lines', p)
    BY <1>0, <2>3, KeptAppend
  <2>5. Faulty' = Faulty
    BY <2>1 DEF Faulty, Lost
  <2>6. ~Spoiled'
    <3>1. tail' = <<>>
      BY <1>3 DEF Newline
    <3> QED  BY <3>1 DEF Spoiled
  <2>7. CASE Len(tail) = 1
    <3>1. LastLine = pending[q] /\ LastLine # Garbage
      BY <2>2, <2>7, GarbageAssumption DEF LastLine
    <3>2. Kept(lines', q)
      BY <1>0, <2>2, <2>3, <3>1, KeptAppend
    <3>3. Unkept' \subseteq Unkept
      BY <2>1, <2>4, <3>2 DEF Unkept
    <3> QED  BY <2>5, <2>6, <3>3
  <2>8. CASE Len(tail) # 1
    <3>1. Spoiled
      BY <2>2, <2>8 DEF Spoiled
    <3>2. Unkept' \subseteq Unkept \cup {q}
      BY <2>1, <2>4 DEF Unkept
    <3> QED  BY <2>5, <2>6, <3>1, <3>2
  <2> QED  BY <2>7, <2>8
<1>4. ASSUME NEW q \in Queries, WriteFails(q)  PROVE Goal
  <2>1. /\ failed' = failed \cup {q} /\ phase[q] \in Writing /\ phase'[q] = "unrecorded"
        /\ \A p \in Queries : p # q => phase'[p] = phase[p]
        /\ lines' = lines
    BY <1>0, <1>4 DEF WriteFails, Goto, file
  <2>2. q \notin Faulty
    BY <2>1 DEF Faulty, Lost, OwnInv, Writing
  <2>3. Faulty \subseteq Faulty' /\ q \in Faulty'
    BY <2>1 DEF Faulty, Lost, Writing
  <2>4. Unkept' \subseteq Unkept
    BY <2>1 DEF Unkept
  <2> QED  BY <2>2, <2>3, <2>4
<1>5. CASE Tick \/ Open \/ UNCHANGED vars
  <2>1. UNCHANGED <<lines, tail, phase, failed>>
    BY <1>5 DEF Tick, Open, vars, file
  <2>2. Unkept' = Unkept /\ Faulty' = Faulty /\ Spoiled' = Spoiled
    BY <2>1 DEF Unkept, Faulty, Lost, Spoiled
  <2> QED  BY <2>2
<1>6. CASE Crash
  <2>1. /\ lines' = lines /\ tail' = tail /\ failed' = failed
        /\ \A p \in Queries : phase'[p] =
               IF phase[p] \in Waiting \cup Writing \cup Finished THEN "lost" ELSE phase[p]
    BY <1>6 DEF Crash, file
  <2>2. Unkept' \subseteq Unkept /\ Faulty \subseteq Faulty'
    BY <2>1 DEF Unkept, Faulty, Lost
  <2>3. CASE Spoiled' => Spoiled
    BY <2>2, <2>3
  <2>4. CASE Spoiled' /\ ~Spoiled
    <3>1. PICK q \in Queries : phase[q] \in {"part", "line"}
      BY <2>1, <2>4 DEF Spoiled
    <3>2. q \notin Faulty /\ q \in Faulty'
      BY <2>1, <3>1 DEF Faulty, Lost, OwnInv, Writing
    <3> QED  BY <2>2, <3>2
  <2> QED  BY <2>3, <2>4
<1> QED  BY <1>1, <1>2, <1>3, <1>4, <1>5, <1>6 DEF Next, Step

LEMMA CountStep ==
    ASSUME IsFiniteSet(Queries), LogInv, CountInv, [Next]_vars
    PROVE  CountInv'
<1>1. OwnInv'
  BY OwnStep DEF CountInv
<1>2. /\ Unkept \in SUBSET Queries /\ Unkept' \in SUBSET Queries
      /\ Faulty \in SUBSET Queries /\ Faulty' \in SUBSET Queries
  <2>1. failed \in SUBSET Queries /\ failed' \in SUBSET Queries
    BY TypeStep DEF LogInv, TypeOK
  <2> QED  BY <2>1 DEF Unkept, Faulty, Lost
<1>3. /\ Owed \in {0, 1} /\ Owed' \in {0, 1}
      /\ (Spoiled' => Spoiled) => Owed' <= Owed
      /\ Spoiled /\ ~Spoiled' => Owed = 1 /\ Owed' = 0
  BY DEF Owed
<1>4. Cardinality(Unkept') + Owed' <= Cardinality(Faulty')
  <2> DEFINE M == Unkept
             M2 == Unkept'
             F == Faulty
             F2 == Faulty'
             o == Owed
             o2 == Owed'
  <2>1. /\ M \in SUBSET Queries /\ M2 \in SUBSET Queries
        /\ F \in SUBSET Queries /\ F2 \in SUBSET Queries
        /\ o \in {0, 1} /\ o2 \in {0, 1} /\ Cardinality(M) + o <= Cardinality(F)
    BY <1>2, <1>3 DEF CountInv
  <2>2. Balanced(M, M2, F, F2, o, o2)
    BY <1>3, BalanceStep DEF CountInv, Balanced
  <2> HIDE DEF M, M2, F, F2, o, o2
  <2>3. Cardinality(M2) + o2 <= Cardinality(F2)
    BY <2>1, <2>2, Balance
  <2> QED  BY <2>3 DEF M2, F2, o2
<1> QED  BY <1>1, <1>4 DEF CountInv

LEMMA UnionBound ==
    ASSUME NEW S, NEW T, IsFiniteSet(S), IsFiniteSet(T)
    PROVE  /\ IsFiniteSet(S \cup T)
           /\ Cardinality(S \cup T) <= Cardinality(S) + Cardinality(T)
<1>1. /\ IsFiniteSet(S \cup T)
      /\ Cardinality(S \cup T) = Cardinality(S) + Cardinality(T) - Cardinality(S \cap T)
  BY FS_Union
<1>2. Cardinality(S \cap T) \in Nat
  BY FS_Intersection, FS_CardinalityType
<1>3. Cardinality(S) \in Nat /\ Cardinality(T) \in Nat
  BY FS_CardinalityType
<1> QED  BY <1>1, <1>2, <1>3

LEMMA CountMeansRecorded ==
    ASSUME IsFiniteSet(Queries), LogInv, CountInv
    PROVE  DisclosuresRecorded
<1> DEFINE missing == {q \in Queries : phase[q] = "replied" /\ q \notin failed} \ Recorded
<1>1. lines \in Seq(Entry) /\ tail \in Seq(Entry)
  BY EntryTypes DEF LogInv
<1>2. \A q \in Queries : Kept(lines, q) => q \in Recorded
  <2>1. ASSUME NEW q \in Queries, Kept(lines, q)  PROVE Kept(File, q)
    BY <1>1, <2>1, FileType, KeptAppend
  <2> QED  BY <2>1 DEF Kept, Recorded
<1>3. missing \subseteq Unkept
  BY <1>2 DEF Unkept
<1> HIDE DEF missing
<1>4. Unkept \in SUBSET Queries /\ Faulty \in SUBSET Queries
  BY DEF Unkept, Faulty, Lost, LogInv, TypeOK
<1>5. IsFiniteSet(Unkept) /\ IsFiniteSet(Faulty)
  BY <1>4, FS_Subset
<1>6. /\ Cardinality(Unkept) \in Nat /\ Cardinality(Faulty) \in Nat
      /\ Cardinality(missing) <= Cardinality(Unkept)
  BY <1>3, <1>5, FS_Subset, FS_CardinalityType
<1>7. Cardinality(missing) \in Nat
  BY <1>3, <1>5, FS_Subset, FS_CardinalityType
<1>8. Cardinality(missing) <= Cardinality(Faulty)
  BY <1>6, <1>7 DEF CountInv, Owed
<1> DEFINE unrecorded == {q \in Queries : phase[q] = "replied"} \ Recorded
<1>9. failed \in SUBSET Queries /\ Lost \in SUBSET Queries
  BY DEF LogInv, TypeOK, Lost
<1>10. IsFiniteSet(failed) /\ IsFiniteSet(Lost) /\ IsFiniteSet(missing)
  BY <1>3, <1>5, <1>9, FS_Subset
<1>11. Cardinality(Faulty) <= Cardinality(failed) + Cardinality(Lost)
  BY <1>10, UnionBound DEF Faulty
<1>12. /\ IsFiniteSet(missing \cup failed)
       /\ Cardinality(missing \cup failed) <= Cardinality(missing) + Cardinality(failed)
  BY <1>10, UnionBound
<1>13. unrecorded \subseteq missing \cup failed
  BY DEF missing
<1> HIDE DEF unrecorded
<1>14. /\ Cardinality(unrecorded) <= Cardinality(missing \cup failed)
       /\ Cardinality(unrecorded) \in Nat
  BY <1>12, <1>13, FS_Subset, FS_CardinalityType
<1>15. /\ Cardinality(failed) \in Nat /\ Cardinality(Lost) \in Nat
       /\ Cardinality(missing \cup failed) \in Nat
  BY <1>10, <1>12, FS_CardinalityType
<1>16. Cardinality(unrecorded) <= 2 * Cardinality(failed) + Cardinality(Lost)
  BY <1>6, <1>7, <1>8, <1>11, <1>12, <1>14, <1>15
<1> QED  BY <1>16 DEF DisclosuresRecorded, unrecorded

\* Of the answers that were disclosed, no more lack a record than twice the
\* number of failed writes and the number of queries that died with the process:
\* a write that fails costs its own record and, at most, that of one query whose
\* line runs into the torn one (the handler drops the error of `record').
THEOREM DisclosuresOnRecord ==
    ASSUME IsFiniteSet(Queries)
    PROVE  Spec => []DisclosuresRecorded
<1>1. Init => CountInv
  <2> SUFFICES ASSUME Init  PROVE CountInv
    OBVIOUS
  <2>1. phase = [q \in Queries |-> "idle"] /\ failed = {} /\ tail = <<>>
    BY DEF Init
  <2>2. OwnInv
    BY <2>1 DEF OwnInv, Writing
  <2>3. Unkept = {} /\ Faulty = {} /\ Owed = 0
    BY <2>1 DEF Unkept, Faulty, Lost, Owed, Spoiled
  <2> QED  BY <2>2, <2>3, FS_EmptySet DEF CountInv
<1>2. LogInv /\ CountInv /\ [Next]_vars => CountInv'
  BY CountStep
<1>3. LogInv /\ CountInv => DisclosuresRecorded
  BY CountMeansRecorded
<1> QED  BY LogInvHolds, <1>1, <1>2, <1>3, PTL DEF Spec

=============================================================================
