------------------------------ MODULE AuditLog ------------------------------
(***************************************************************************)
(* The access audit trail (crates/l5m-core/src/audit.rs) under the query   *)
(* handler of l5m-server: concurrent queries take the log's mutex one      *)
(* after another, write a record in two writes, and answer their caller    *)
(* whether or not the record was written; the process dies and resumes the *)
(* hash chain from the file.                                               *)
(*                                                                         *)
(* A hash is modelled by what it covers: a record's own content behind     *)
(* everything its prev_hash covers.  Equal hashes are equal chains.        *)
(***************************************************************************)
EXTENDS Integers, FiniteSets, SequencesExt

CONSTANTS Queries,    \* the requests, each served once
          Nobody,     \* the mutex is free
          Garbage,    \* a line, or a part of one, that is no record
          MaxTime,    \* bound on the clock
          MaxCrashes  \* bound on crashes

ASSUME NobodyAssumption == Nobody \notin Queries
ASSUME BoundsAssumption == MaxTime \in Nat /\ MaxCrashes \in Nat

Body == [query : Queries, timestamp : Nat]

Record == [prev : Seq(Body), body : Body]

ASSUME GarbageAssumption == Garbage \notin Record

VARIABLES
    lines,     \* the terminated lines of the file
    tail,      \* what was written behind the last newline, piece by piece
    prev_hash, \* AuditLog.prev_hash
    holder,    \* who holds the mutex
    phase,     \* how far each handler has come
    pending,   \* the record a handler is writing, Garbage when it is not
    now,       \* the clock, in seconds
    process,   \* up, down, or refused: AuditLog::open has failed
    crashes,   \* bounds Crash
    answered,  \* history: when a query was answered by the store
    failed     \* history: the queries whose record could not be written

vars == <<lines, tail, prev_hash, holder, phase, pending, now, process,
          crashes, answered, failed>>

file == <<lines, tail>>

Phases == {"idle", "answered", "locked", "part", "line", "recorded",
           "unrecorded", "replied", "gone", "lost"}

Waiting == {"answered"}
Writing == {"locked", "part", "line"}
Finished == {"recorded", "unrecorded"}

-----------------------------------------------------------------------------
(* The chain. *)

ZeroHash == <<>>

Hash(r) == Append(r.prev, r.body)

\* What a reader finds behind the last newline: pieces written by more than
\* one record run together and parse as nothing.
LastLine == IF Len(tail) = 1 THEN tail[1] ELSE Garbage

\* The lines a reader of the file gets.
File == IF tail = <<>> THEN lines ELSE Append(lines, LastLine)

Parses(f) == \A i \in DOMAIN f : f[i] # Garbage

HashBefore(f, i) == IF i = 1 THEN ZeroHash ELSE Hash(f[i - 1])

\* Mutant: the records are checked one by one.
VerifyEach(f) == Parses(f)

\* verify_chain; that a record's hash recomputes holds of every record here.
VerifyChain(f) == Parses(f) /\ \A i \in DOMAIN f : f[i].prev = HashBefore(f, i)

\* last_record_hash of a file that parses.
LastRecordHash(f) == IF f = <<>> THEN ZeroHash ELSE Hash(f[Len(f)])

-----------------------------------------------------------------------------
(* Query handlers. *)

Goto(q, p) == phase' = [phase EXCEPT ![q] = p]

\* authorize, the store's read lock, the query: an answer to be disclosed.
Answer(q) ==
    /\ process = "up" /\ phase[q] = "idle"
    /\ Goto(q, "answered")
    /\ answered' = [answered EXCEPT ![q] = now]
    /\ UNCHANGED <<file, prev_hash, holder, pending, now, process, crashes, failed>>

\* The caller hangs up and the handler is dropped where it awaits the mutex.
HangUp(q) ==
    /\ phase[q] \in Waiting
    /\ Goto(q, "gone")
    /\ UNCHANGED <<file, prev_hash, holder, pending, now, process, crashes, answered, failed>>

\* Mutant: the time is taken before the mutex is.
StampOfAnswer(q) == answered[q]

\* now_unix() is an argument of record, evaluated when the mutex is held.
Stamp(q) == now

\* Mutant: record runs without the mutex.
LockFree(q) ==
    /\ phase[q] \in Waiting
    /\ Goto(q, "locked")
    /\ holder' = q
    /\ pending' = [pending EXCEPT ![q] =
           [prev |-> prev_hash, body |-> [query |-> q, timestamp |-> Stamp(q)]]]
    /\ UNCHANGED <<file, prev_hash, now, process, crashes, answered, failed>>

\* log.lock().await, and the record as it will be written.
Lock(q) ==
    /\ phase[q] \in Waiting /\ holder = Nobody
    /\ Goto(q, "locked")
    /\ holder' = q
    /\ pending' = [pending EXCEPT ![q] =
           [prev |-> prev_hash, body |-> [query |-> q, timestamp |-> Stamp(q)]]]
    /\ UNCHANGED <<file, prev_hash, now, process, crashes, answered, failed>>

\* write_all(line), the operating system taking a part of it.
WritePart(q) ==
    /\ phase[q] = "locked"
    /\ Goto(q, "part")
    /\ tail' = Append(tail, Garbage)
    /\ UNCHANGED <<lines, prev_hash, holder, pending, now, process, crashes, answered, failed>>

\* Mutant: the line leaves out prev_hash and record_hash.
WriteUnchained(q) ==
    /\ phase[q] = "part"
    /\ Goto(q, "line")
    /\ tail' = [tail EXCEPT ![Len(tail)] = pending[q].body]
    /\ UNCHANGED <<lines, prev_hash, holder, pending, now, process, crashes, answered, failed>>

\* ... and the rest of it.
WriteRest(q) ==
    /\ phase[q] = "part"
    /\ Goto(q, "line")
    /\ tail' = [tail EXCEPT ![Len(tail)] = pending[q]]
    /\ UNCHANGED <<lines, prev_hash, holder, pending, now, process, crashes, answered, failed>>

\* write_all("\n"), the new prev_hash, the end of the statement that holds
\* the mutex.
Newline(q) ==
    /\ phase[q] = "line"
    /\ Goto(q, "recorded")
    /\ lines' = File /\ tail' = <<>>
    /\ prev_hash' = Hash(pending[q])
    /\ holder' = Nobody
    /\ pending' = [pending EXCEPT ![q] = Garbage]
    /\ UNCHANGED <<now, process, crashes, answered, failed>>

\* Mutant: the error path keeps the mutex.
WriteFailsHoldingMutex(q) ==
    /\ phase[q] \in Writing
    /\ Goto(q, "unrecorded")
    /\ failed' = failed \cup {q}
    /\ UNCHANGED <<file, prev_hash, holder, pending, now, process, crashes, answered>>

\* A write fails where it stands; the handler drops the error (`let _ =`).
WriteFails(q) ==
    /\ phase[q] \in Writing
    /\ Goto(q, "unrecorded")
    /\ holder' = Nobody
    /\ pending' = [pending EXCEPT ![q] = Garbage]
    /\ failed' = failed \cup {q}
    /\ UNCHANGED <<file, prev_hash, now, process, crashes, answered>>

\* Mutant: the answer does not wait for its record.
ReplyAtOnce(q) ==
    /\ phase[q] \in Finished \cup Waiting
    /\ Goto(q, "replied")
    /\ UNCHANGED <<file, prev_hash, holder, pending, now, process, crashes, answered, failed>>

\* Ok(Json(response)).
Reply(q) ==
    /\ phase[q] \in Finished
    /\ Goto(q, "replied")
    /\ UNCHANGED <<file, prev_hash, holder, pending, now, process, crashes, answered, failed>>

-----------------------------------------------------------------------------
(* The process. *)

Tick == /\ now < MaxTime /\ now' = now + 1
        /\ UNCHANGED <<file, prev_hash, holder, phase, pending, process, crashes, answered, failed>>

\* The process dies: the file stays as it is, its memory is gone, requests in
\* flight are lost.
Crash ==
    /\ process = "up" /\ crashes < MaxCrashes
    /\ crashes' = crashes + 1
    /\ process' = "down"
    /\ holder' = Nobody
    /\ phase' = [q \in Queries |->
           IF phase[q] \in Waiting \cup Writing \cup Finished THEN "lost" ELSE phase[q]]
    /\ prev_hash' = ZeroHash
    /\ pending' = [q \in Queries |-> Garbage]
    /\ UNCHANGED <<file, now, answered, failed>>

\* Mutant: the chain is not resumed.
OpenAtZero ==
    /\ process = "down"
    /\ process' = IF Parses(File) THEN "up" ELSE "refused"
    /\ prev_hash' = ZeroHash
    /\ UNCHANGED <<file, holder, phase, pending, now, crashes, answered, failed>>

\* AuditLog::open: resume from the last record, or refuse a file with a line
\* that is no record, at this start and at every later one.
Open ==
    /\ process = "down"
    /\ process' = IF Parses(File) THEN "up" ELSE "refused"
    /\ prev_hash' = IF Parses(File) THEN LastRecordHash(File) ELSE prev_hash
    /\ UNCHANGED <<file, holder, phase, pending, now, crashes, answered, failed>>

Init ==
    /\ lines = <<>> /\ tail = <<>> /\ prev_hash = ZeroHash
    /\ holder = Nobody
    /\ phase = [q \in Queries |-> "idle"]
    /\ pending = [q \in Queries |-> Garbage]
    /\ now = 0 /\ process = "up" /\ crashes = 0
    /\ answered = [q \in Queries |-> 0]
    /\ failed = {}

Step(q) == Lock(q) \/ WritePart(q) \/ WriteRest(q) \/ Newline(q) \/ Reply(q)

Next == \/ Tick \/ Crash \/ Open
        \/ \E q \in Queries : Answer(q) \/ HangUp(q) \/ Step(q) \/ WriteFails(q)

Spec == Init /\ [][Next]_vars

\* A handler that can go on does, and a supervisor restarts the process.  A
\* waiter waits for those ahead of it only, so weak fairness is enough.
FairSpec == Spec /\ WF_vars(Open) /\ \A q \in Queries : WF_vars(Step(q))

-----------------------------------------------------------------------------
(* Properties. *)

\* Every variable keeps its type.
TypeOK ==
    /\ lines \in Seq(Record \cup {Garbage})
    /\ tail \in Seq(Record \cup {Garbage})
    /\ prev_hash \in Seq(Body)
    /\ holder \in Queries \cup {Nobody}
    /\ phase \in [Queries -> Phases]
    /\ pending \in [Queries -> Record \cup {Garbage}]
    /\ now \in Nat /\ crashes \in Nat
    /\ process \in {"up", "down", "refused"}
    /\ answered \in [Queries -> Nat]
    /\ failed \in SUBSET Queries

\* Whatever failed, died or was resumed: a log whose lines all parse is one
\* unbroken chain, so verify_chain only ever reports a line that is no record.
ReadableLogsVerify == Parses(File) => VerifyChain(File)

\* The queries that died with the process.
Lost == {q \in Queries : phase[q] = "lost"}

\* The queries that met a fault.
Faulty == failed \cup Lost

\* GET /v1/audit/verify reads without the mutex.  On a log that met no fault it
\* can report a broken chain only while a record is half written.
VerifyFailsOnlyMidWrite ==
    Faulty = {} /\ ~VerifyChain(File) => \E q \in Queries : phase[q] = "part"

\* The queries that have a record in the file.
Recorded == {q \in Queries : \E i \in DOMAIN File :
                 File[i] # Garbage /\ File[i].body.query = q}

\* Of the answers disclosed, a failed write leaves at most two without a record
\* - its own, and one whose line ran into the torn one - and a query that died
\* with the process at most the latter.
DisclosuresRecorded ==
    LET unrecorded == {q \in Queries : phase[q] = "replied"} \ Recorded
    IN  Cardinality(unrecorded) <= 2 * Cardinality(failed) + Cardinality(Lost)

\* The records are in the order of their times, whatever the order in which
\* the store answered, and none is dated before its answer.
TimesOrdered ==
    \A j \in DOMAIN File : File[j] # Garbage =>
        /\ File[j].body.timestamp >= answered[File[j].body.query]
        /\ \A i \in 1..(j - 1) : File[i] # Garbage =>
               File[i].body.timestamp <= File[j].body.timestamp

\* "deleting, reordering, or editing any entry breaks the chain": in every log
\* that verifies, taking out an entry that has a successor or exchanging two
\* neighbours is noticed.
CutsAreNoticed ==
    VerifyChain(File) =>
        \A i \in 1..(Len(File) - 1) :
            /\ ~VerifyChain(RemoveAt(File, i))
            /\ ~VerifyChain([File EXCEPT ![i] = File[i + 1], ![i + 1] = File[i]])

\* A query the store has answered is answered to its caller, unless the caller
\* leaves or the process dies: no error path keeps the mutex.
AnswersArrive ==
    \A q \in Queries :
        phase[q] = "answered" ~> phase[q] \in {"replied", "gone", "lost"}

=============================================================================
