--------------------------------- MODULE Mcp ----------------------------------
(***************************************************************************)
(* l5m-mcp: a process that answers one JSON-RPC line after the other on    *)
(* behalf of one principal (crates/l5m-mcp/src/lib.rs, main.rs).  The host *)
(* may close a pipe or kill the process at any time and start it again.    *)
(*                                                                         *)
(* The store is the map that MemoryStore implements.  A durable one is     *)
(* read back from its log at every start; an append to the log may fail    *)
(* and leave any prefix of its line (Wal).  No call writes a checkpoint.   *)
(* Every query here is one that every memory matches.  The clock never     *)
(* runs backwards, across starts neither.                                  *)
(***************************************************************************)
EXTENDS Integers, FiniteSetsExt, Functions

CONSTANTS Environments, \* L5M_TENANT, L5M_TRUST_FLOOR, L5M_CONTEXT/POLICY, L5M_DATA_DIR
          Remembers,    \* arguments of remember
          Recalls,      \* arguments of recall
          None,         \* an absent variable or argument
          BadNumber,    \* a text that is no number
          Suffixes,     \* 2^16
          Second,       \* nanoseconds in a second
          MaxTrust,     \* 10
          MaxResults,   \* 25
          MaxI64,
          MaxClock,     \* bound: nanoseconds
          MaxMemories,  \* bound: calls of remember
          MaxStarts     \* bound: starts of the process

ASSUME SuffixesAssumption == Suffixes \in Nat \ {0}
ASSUME SecondAssumption == Second \in Nat \ {0}

VARIABLES clock,     \* SystemTime::now(), in nanoseconds
          process,   \* "down", "refused", "idle", "replying"
          principal, \* the identity every call runs under
          durable,   \* the store has a data directory
          live,      \* the store: id -> memory
          logged,    \* what replaying the log brings back: id -> memory
          log,       \* "clean"; "open": its last line lacks the newline;
                     \* "spoilt": it has a line that parses as no operation
          seq,       \* McpServer.seq
          reply,     \* what handle_line returned
          starts,
          claims,    \* history: the claims so far, which tell memories apart
          made,      \* history: ids generated in this nanosecond
          kept,      \* history: what was acknowledged and not forgotten
          doubtful   \* history: what a remember or a forget that failed may have left

storeVars == <<live, logged, log>>
historyVars == <<claims, made, kept, doubtful>>
vars == <<clock, process, principal, durable, storeVars, seq, reply, starts, historyVars>>

NoReply == [kind |-> "none"]
NoMemories == [id \in {} |-> None]

Now == clock \div Second

-----------------------------------------------------------------------------
(* Starting. *)

\* Principal::from_env; None when main exits on it.
FromEnv(env) ==
    IF env.tenant = BadNumber \/ env.floor = BadNumber THEN None
    ELSE [tenant |-> IF env.tenant = None THEN 1 ELSE env.tenant,
          floor |-> IF env.floor = None THEN 0 ELSE env.floor,
          masks |-> env.masks]

Init ==
    /\ clock = 0
    /\ process = "down"
    /\ principal = None
    /\ durable \in BOOLEAN
    /\ live = NoMemories /\ logged = NoMemories /\ log = "clean"
    /\ seq = 0
    /\ reply = NoReply
    /\ starts = 0
    /\ claims = 0 /\ made = 0 /\ kept = {} /\ doubtful = {}

\* open_durable returns an error on a line that does not parse.
OpenFails == durable /\ log = "spoilt"

\* main and open_durable: seq starts again, and a durable store is what its
\* log says - or main exits.  Starting takes longer than a nanosecond.
Start(env) ==
    /\ process = "down"
    /\ starts < MaxStarts /\ clock < MaxClock
    /\ starts' = starts + 1
    /\ clock' = clock + 1
    /\ principal' = FromEnv(env)
    /\ process' = IF FromEnv(env) = None \/ OpenFails THEN "refused" ELSE "idle"
    /\ live' = IF durable /\ process' = "idle" THEN logged ELSE NoMemories
    /\ seq' = 0
    /\ made' = 0
    /\ UNCHANGED <<durable, logged, log, reply, claims, kept, doubtful>>

\* The host kills the process, closes its pipe, or the reply cannot be written.
\* A process killed inside an append leaves what a failed append leaves.  An
\* ephemeral store goes with it.
Stop ==
    /\ process \in {"idle", "replying", "refused"}
    /\ process' = "down"
    /\ live' = NoMemories
    /\ kept' = IF durable THEN kept ELSE {}
    /\ doubtful' = IF durable THEN doubtful ELSE {}
    /\ principal' = None
    /\ reply' = NoReply
    /\ UNCHANGED <<clock, durable, logged, log, seq, starts, claims, made>>

-----------------------------------------------------------------------------
(* Messages. *)

Respond(answer) ==
    /\ process' = "replying"
    /\ reply' = answer
    /\ UNCHANGED <<clock, principal, durable, starts>>

Failed(code) == [kind |-> "failed", code |-> code]

\* handle_line and handle_message: what is not JSON, an unknown method, and the
\* methods without an effect.  A message without an id is dropped unread.
OtherMessage ==
    /\ process = "idle"
    /\ \E answer \in {Failed(-32700), Failed(-32601), [kind |-> "described"]} : Respond(answer)
    /\ UNCHANGED <<storeVars, seq, historyVars>>

\* What an append that fails may leave of its line (Wal.Prefixes).
Prefixes == {"nothing", "torn", "unterminated", "whole"}

\* wal_append: this much of a line is written after which a replay brings back
\* `memories'.  A line behind one without its newline runs together with it.
WriteLine(prefix, memories) ==
    IF ~durable \/ prefix = "nothing" THEN UNCHANGED <<logged, log>>
    ELSE /\ log' = IF log # "clean" \/ prefix = "torn" THEN "spoilt"
                   ELSE IF prefix = "unterminated" THEN "open" ELSE "clean"
         /\ logged' = IF log' = "spoilt" THEN NoMemories ELSE memories

With(memories, id, memory) ==
    [i \in DOMAIN memories \cup {id} |-> IF i = id THEN memory ELSE memories[i]]

Without(memories, id) == [i \in DOMAIN memories \ {id} |-> memories[i]]

\* Mutant: the time alone makes the id.
TimeAsId(n) == clock * Suffixes

\* generate_id, where seq has become n.
GenerateId(n) == clock * Suffixes + (n % Suffixes)

\* The memory is the principal's whatever the arguments say.
MemoryOf(args) ==
    [claim |-> claims + 1,
     tenant |-> principal.tenant,
     trust |-> IF args.trust = None THEN 5 ELSE Min({args.trust, MaxTrust}),
     from |-> IF args.from = None THEN Now ELSE args.from,
     until |-> args.until]

NoArgument(args) == args.text = None /\ Respond(Failed("argument missing"))

\* The number is drawn before the insert.  When its append fails the memory is
\* not in the store, and may yet be there after the next start.  Fewer memories
\* than there are suffixes come in a nanosecond.
Remember(args) ==
    LET id == GenerateId(seq + 1)
        memory == MemoryOf(args)
        entry == [id |-> id, claim |-> memory.claim]
    IN  /\ process = "idle"
        /\ \/ NoArgument(args) /\ UNCHANGED <<storeVars, seq, historyVars>>
           \/ /\ args.text # None
              /\ claims < MaxMemories
              /\ made < Suffixes
              /\ seq' = seq + 1
              /\ made' = made + 1
              /\ claims' = claims + 1
              /\ \/ /\ WriteLine("whole", With(logged, id, memory))
                    /\ live' = With(live, id, memory)
                    /\ kept' = kept \cup {entry}
                    /\ Respond([kind |-> "stored", id |-> id])
                    /\ UNCHANGED doubtful
                 \/ /\ durable
                    /\ \E prefix \in Prefixes :
                          WriteLine(prefix, With(logged, id, memory))
                    /\ doubtful' = doubtful \cup {entry}
                    /\ Respond(Failed("store failed"))
                    /\ UNCHANGED <<live, kept>>

Valid(memory, instant) ==
    memory.from <= instant /\ (memory.until = None \/ memory.until >= instant)

\* The gates of the query, but for the window.
Permitted(memory) ==
    /\ memory.tenant = principal.tenant
    /\ memory.trust >= principal.floor
    /\ principal.masks = "some"

\* The best of what passes the gates; which are the best is left open.
Recall(args) ==
    LET as_of == IF args.as_of = None THEN MaxI64 ELSE args.as_of
        limit == IF args.max_results = None THEN 5
                 ELSE Max({1, Min({args.max_results, MaxResults})})
        passing == {id \in DOMAIN live : Permitted(live[id]) /\ Valid(live[id], as_of)}
    IN  /\ process = "idle"
        /\ \/ NoArgument(args)
           \/ /\ args.text # None /\ principal.masks = BadNumber
              /\ Respond(Failed("recall failed"))
           \/ /\ args.text # None /\ principal.masks # BadNumber
              /\ \E shown \in kSubset(Min({limit, Cardinality(passing)}), passing) :
                    Respond([kind |-> "recalled", shown |-> shown, as_of |-> args.as_of,
                             limit |-> limit, at |-> Now])
        /\ UNCHANGED <<storeVars, seq, historyVars>>

\* By id, whosever it is.  An id that is no number is refused.  When the append
\* fails the memory is still in the store, and may be gone after the next start.
Forget(id) ==
    /\ process = "idle"
    /\ \/ /\ id = BadNumber
          /\ Respond(Failed("not an id"))
          /\ UNCHANGED <<storeVars, kept, doubtful>>
       \/ /\ id # BadNumber
          /\ WriteLine("whole", Without(logged, id))
          /\ live' = Without(live, id)
          /\ kept' = {k \in kept : k.id # id}
          /\ doubtful' = {k \in doubtful : k.id # id}
          /\ Respond([kind |-> "forgotten"])
       \/ /\ id # BadNumber
          /\ durable
          /\ \E prefix \in Prefixes : WriteLine(prefix, Without(logged, id))
          /\ kept' = {k \in kept : k.id # id}
          /\ doubtful' = doubtful \cup {k \in kept : k.id = id}
          /\ Respond(Failed("forget failed"))
          /\ UNCHANGED live
    /\ UNCHANGED <<seq, claims, made>>

\* The reply is written and flushed; main reads the next line.
WriteReply ==
    /\ process = "replying"
    /\ process' = "idle"
    /\ reply' = NoReply
    /\ UNCHANGED <<clock, principal, durable, storeVars, seq, starts, historyVars>>

Tick ==
    /\ clock < MaxClock
    /\ clock' = clock + 1
    /\ made' = 0
    /\ UNCHANGED <<process, principal, durable, storeVars, seq, reply, starts,
                   claims, kept, doubtful>>

Next ==
    \/ \E env \in Environments : Start(env)
    \/ Stop
    \/ OtherMessage
    \/ \E args \in Remembers : Remember(args)
    \/ \E args \in Recalls : Recall(args)
    \/ \E id \in DOMAIN live \cup DOMAIN logged \cup {0, BadNumber} : Forget(id)
    \/ WriteReply
    \/ Tick

Spec == Init /\ [][Next]_vars

-----------------------------------------------------------------------------
(* Properties. *)

\* While the process serves, every memory that was acknowledged and not
\* forgotten since is in its store as it was remembered, and there is nothing
\* else but what a remember or a forget that reported an error left: no memory
\* takes the id of another, be it stored in the same nanosecond, after a start
\* has set the sequence back, or brought back by a start from the line of a
\* remember that failed (lib.rs:336-343, generate_id).
MemoriesKept ==
    process \in {"idle", "replying"} =>
        /\ \A k \in kept : k.id \in DOMAIN live /\ live[k.id].claim = k.claim
        /\ \A id \in DOMAIN live :
              [id |-> id, claim |-> live[id].claim] \in kept \cup doubtful

\* docs/time-travel.md:55: "Omit `as_of` to query the present (all currently-valid
\* memories)."
RecallSeesThePresent ==
    reply.kind = "recalled" /\ reply.as_of = None =>
        LET valid == {id \in DOMAIN live :
                         Permitted(live[id]) /\ Valid(live[id], reply.at)}
        IN  Cardinality(valid) <= reply.limit => valid \subseteq reply.shown

=============================================================================
