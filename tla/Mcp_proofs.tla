----------------------------- MODULE Mcp_proofs -------------------------------
(***************************************************************************)
(* The memories of the MCP process: for any number of suffixes and of      *)
(* starts, what was acknowledged stays, and no memory in the store or in   *)
(* the log was given the id of another.                                    *)
(***************************************************************************)
EXTENDS Mcp, TLAPS

-----------------------------------------------------------------------------
(* Instants and suffixes. *)

LEMMA SuffixRange ==
    ASSUME NEW n \in Nat
    PROVE  n % Suffixes \in 0 .. Suffixes - 1
BY SuffixesAssumption

LEMMA Division ==
    ASSUME NEW n \in Nat
    PROVE  /\ n \div Suffixes \in Int
           /\ n = (n \div Suffixes) * Suffixes + (n % Suffixes)
<1>1. n \div Suffixes \in Int
  BY SuffixesAssumption
<1>2. n = Suffixes * (n \div Suffixes) + (n % Suffixes)
  BY SuffixesAssumption
<1> QED  BY <1>1, <1>2, SuffixesAssumption

\* An id tells its instant.
LEMMA InstantOfId ==
    ASSUME NEW s \in Nat, NEW t \in Nat, NEW m \in 0 .. Suffixes - 1,
           NEW n \in 0 .. Suffixes - 1, s < t
    PROVE  s * Suffixes + m # t * Suffixes + n
<1>1. PICK d \in Nat : t = s + 1 + d
  <2>1. t - s - 1 \in Nat /\ t = s + 1 + (t - s - 1)
    OBVIOUS
  <2> QED  BY <2>1
<1>2. t * Suffixes = s * Suffixes + Suffixes + d * Suffixes
  BY <1>1, SuffixesAssumption
<1>3. s * Suffixes \in Nat /\ d * Suffixes \in Nat
  BY SuffixesAssumption
<1> QED  BY <1>2, <1>3, SuffixesAssumption

\* Numbers closer together than there are suffixes have different suffixes.
LEMMA SuffixesDiffer ==
    ASSUME NEW n \in Nat, NEW d \in Nat \ {0}, d < Suffixes
    PROVE  (n + d) % Suffixes # n % Suffixes
<1> SUFFICES ASSUME (n + d) % Suffixes = n % Suffixes  PROVE FALSE
  OBVIOUS
<1>1. PICK p \in Int : n = p * Suffixes + (n % Suffixes)
  <2>1. n \div Suffixes \in Int /\ n = (n \div Suffixes) * Suffixes + (n % Suffixes)
    BY Division, Zenon
  <2> QED  BY <2>1, Zenon
<1>2. PICK q \in Int : n + d = q * Suffixes + ((n + d) % Suffixes)
  <2>1. n + d \in Nat
    OBVIOUS
  <2>2. /\ (n + d) \div Suffixes \in Int
        /\ n + d = ((n + d) \div Suffixes) * Suffixes + ((n + d) % Suffixes)
    BY <2>1, Division, Zenon
  <2> QED  BY <2>2, Zenon
<1>3. d = q * Suffixes - p * Suffixes
  BY <1>1, <1>2, SuffixesAssumption
<1>4. CASE q <= p
  <2>1. PICK k \in Nat : p = q + k
    <3>1. p - q \in Nat /\ p = q + (p - q)
      BY <1>1, <1>2, <1>4
    <3> QED  BY <3>1
  <2>2. p * Suffixes = q * Suffixes + k * Suffixes /\ k * Suffixes \in Nat
    BY <2>1, <1>2, SuffixesAssumption
  <2>3. q * Suffixes \in Int
    BY <1>2, SuffixesAssumption
  <2> QED  BY <1>3, <2>2, <2>3
<1>5. CASE q > p
  <2>1. PICK k \in Nat : q = p + 1 + k
    <3>1. q - p - 1 \in Nat /\ q = p + 1 + (q - p - 1)
      BY <1>1, <1>2, <1>5
    <3> QED  BY <3>1
  <2>2. q * Suffixes = p * Suffixes + Suffixes + k * Suffixes /\ k * Suffixes \in Nat
    BY <2>1, <1>1, SuffixesAssumption
  <2>3. p * Suffixes \in Int
    BY <1>1, SuffixesAssumption
  <2> QED  BY <1>3, <2>2, <2>3, SuffixesAssumption
<1> QED  BY <1>1, <1>2, <1>4, <1>5

-----------------------------------------------------------------------------
(* The invariant. *)

\* The id of the n-th memory since a start, if it was made at instant t.
IdAt(t, n) == t * Suffixes + (n % Suffixes)

\* The id was made before this instant, or as one of the last `made' numbers
\* drawn.
Made(id) ==
    \E t \in Nat, n \in Nat :
        /\ id = IdAt(t, n)
        /\ t <= clock
        /\ t = clock => seq - made < n /\ n <= seq

IdInv ==
    /\ clock \in Nat /\ seq \in Nat /\ made \in Nat /\ claims \in Nat
    /\ made <= seq /\ made <= Suffixes
    /\ \A id \in DOMAIN live \cup DOMAIN logged : Made(id)

\* The memories are the acknowledged ones, and others only of failed calls.
Agrees(memories, acknowledged, uncertain) ==
    /\ \A k \in acknowledged : k.id \in DOMAIN memories /\ memories[k.id].claim = k.claim
    /\ \A id \in DOMAIN memories :
          [id |-> id, claim |-> memories[id].claim] \in acknowledged \cup uncertain

Others(entries, id) == {k \in entries : k.id # id}
Those(entries, id) == {k \in entries : k.id = id}

\* A log that is not spoilt agrees as the store does; of an ephemeral store
\* nothing is left when the process is gone.
KeptInv ==
    /\ IdInv
    /\ process \in {"idle", "replying"} => Agrees(live, kept, doubtful)
    /\ durable /\ log # "spoilt" => Agrees(logged, kept, doubtful)
    /\ ~durable /\ process \notin {"idle", "replying"} => kept = {}

\* A number not yet drawn in this nanosecond gives an id no memory has.
LEMMA IdsAreNew ==
    ASSUME IdInv, made < Suffixes
    PROVE  GenerateId(seq + 1) \notin DOMAIN live \cup DOMAIN logged
<1> SUFFICES ASSUME GenerateId(seq + 1) \in DOMAIN live \cup DOMAIN logged  PROVE FALSE
  OBVIOUS
<1>1. PICK t \in Nat, n \in Nat :
          /\ GenerateId(seq + 1) = IdAt(t, n)
          /\ t <= clock
          /\ t = clock => seq - made < n /\ n <= seq
  BY DEF IdInv, Made
<1>2. clock \in Nat /\ seq \in Nat /\ made \in Nat /\ seq + 1 \in Nat
  BY DEF IdInv
<1>3. t * Suffixes + (n % Suffixes) = clock * Suffixes + ((seq + 1) % Suffixes)
  BY <1>1 DEF GenerateId, IdAt
<1>4. n % Suffixes \in 0 .. Suffixes - 1 /\ (seq + 1) % Suffixes \in 0 .. Suffixes - 1
  BY <1>2, SuffixRange
<1>5. t = clock
  <2>1. ~(t < clock)
    BY <1>2, <1>3, <1>4, InstantOfId
  <2> QED  BY <1>1, <1>2, <2>1
<1>6. n % Suffixes = (seq + 1) % Suffixes
  <2> DEFINE a == n % Suffixes
             b == (seq + 1) % Suffixes
             c == clock * Suffixes
  <2>1. c \in Int /\ a \in Int /\ b \in Int
    BY <1>2, <1>4, SuffixesAssumption
  <2>2. c + a = c + b
    BY <1>3, <1>5
  <2> HIDE DEF a, b, c
  <2>3. a = b
    BY <2>1, <2>2
  <2> QED  BY <2>3 DEF a, b
<1>7. PICK d \in Nat \ {0} : d < Suffixes /\ seq + 1 = n + d
  <2>1. /\ seq + 1 - n \in Nat \ {0} /\ seq + 1 - n < Suffixes
        /\ seq + 1 = n + (seq + 1 - n)
    BY <1>1, <1>2, <1>5, SuffixesAssumption
  <2> QED  BY <2>1
<1> QED  BY <1>6, <1>7, SuffixesDiffer

LEMMA KeptStarts == Init => KeptInv
BY SuffixesAssumption
DEF Init, KeptInv, IdInv, Agrees, NoMemories, OpenFails

-----------------------------------------------------------------------------
(* What a write does to memories that agree. *)

LEMMA AgreesWith ==
    ASSUME NEW memories, NEW acknowledged, NEW uncertain, NEW id, NEW memory,
           NEW others,
           Agrees(memories, acknowledged, uncertain),
           uncertain \subseteq others,
           id \notin DOMAIN memories
    PROVE  Agrees(With(memories, id, memory),
                  acknowledged \cup {[id |-> id, claim |-> memory.claim]}, others)
<1> DEFINE new == With(memories, id, memory)
           entry == [id |-> id, claim |-> memory.claim]
<1>1. DOMAIN new = DOMAIN memories \cup {id}
  BY DEF With
<1>2. new[id] = memory
  BY DEF With
<1>3. \A i \in DOMAIN memories : new[i] = memories[i]
  BY DEF With
<1>4. entry.id = id /\ entry.claim = memory.claim
  OBVIOUS
<1> HIDE DEF new
<1>5. ASSUME NEW k \in acknowledged \cup {entry}
      PROVE  k.id \in DOMAIN new /\ new[k.id].claim = k.claim
  BY <1>1, <1>2, <1>3, <1>4 DEF Agrees
<1>6. ASSUME NEW i \in DOMAIN new
      PROVE  [id |-> i, claim |-> new[i].claim] \in (acknowledged \cup {entry}) \cup others
  <2>1. CASE i = id
    BY <2>1, <1>2
  <2>2. CASE i # id
    BY <2>2, <1>1, <1>3 DEF Agrees
  <2> QED  BY <2>1, <2>2
<1> QED  BY <1>5, <1>6 DEF Agrees, new

\* A remember that fails leaves a doubtful memory, or none.
LEMMA AgreesDoubting ==
    ASSUME NEW memories, NEW acknowledged, NEW uncertain, NEW id, NEW memory,
           Agrees(memories, acknowledged, uncertain),
           id \notin DOMAIN memories
    PROVE  LET others == uncertain \cup {[id |-> id, claim |-> memory.claim]}
           IN  /\ Agrees(memories, acknowledged, others)
               /\ Agrees(With(memories, id, memory), acknowledged, others)
<1> DEFINE new == With(memories, id, memory)
           entry == [id |-> id, claim |-> memory.claim]
<1>1. DOMAIN new = DOMAIN memories \cup {id}
  BY DEF With
<1>2. new[id] = memory
  BY DEF With
<1>3. \A i \in DOMAIN memories : new[i] = memories[i]
  BY DEF With
<1> HIDE DEF new
<1>4. Agrees(memories, acknowledged, uncertain \cup {entry})
  BY DEF Agrees
<1>5. ASSUME NEW k \in acknowledged
      PROVE  k.id \in DOMAIN new /\ new[k.id].claim = k.claim
  BY <1>1, <1>3 DEF Agrees
<1>6. ASSUME NEW i \in DOMAIN new
      PROVE  [id |-> i, claim |-> new[i].claim]
                 \in acknowledged \cup (uncertain \cup {entry})
  <2>1. CASE i = id
    BY <2>1, <1>2
  <2>2. CASE i # id
    BY <2>2, <1>1, <1>3 DEF Agrees
  <2> QED  BY <2>1, <2>2
<1> QED  BY <1>4, <1>5, <1>6 DEF Agrees, new

LEMMA AgreesWithout ==
    ASSUME NEW memories, NEW acknowledged, NEW uncertain, NEW id,
           Agrees(memories, acknowledged, uncertain)
    PROVE  Agrees(Without(memories, id), Others(acknowledged, id),
                  Others(uncertain, id))
<1> DEFINE new == Without(memories, id)
<1>1. DOMAIN new = DOMAIN memories \ {id}
  BY DEF Without
<1>2. \A i \in DOMAIN new : new[i] = memories[i]
  BY DEF Without
<1> HIDE DEF new
<1>3. ASSUME NEW k \in acknowledged, k.id # id
      PROVE  k.id \in DOMAIN new /\ new[k.id].claim = k.claim
  BY <1>1, <1>2, <1>3 DEF Agrees, Others
<1>4. ASSUME NEW i \in DOMAIN new
      PROVE  [id |-> i, claim |-> new[i].claim]
                 \in Others(acknowledged, id) \cup Others(uncertain, id)
  <2>1. i # id /\ new[i] = memories[i] /\ i \in DOMAIN memories
    BY <1>1, <1>2
  <2> DEFINE entry == [id |-> i, claim |-> memories[i].claim]
  <2>2. entry \in acknowledged \cup uncertain
    BY <2>1 DEF Agrees
  <2>3. entry.id # id
    BY <2>1
  <2> QED  BY <2>1, <2>2, <2>3 DEF Others
<1>5. \A k \in Others(acknowledged, id) : k.id \in DOMAIN new /\ new[k.id].claim = k.claim
  BY <1>3 DEF Others
<1> QED  BY <1>4, <1>5 DEF Agrees, new

\* A forget that fails makes the memory doubtful, whether it is there or not.
LEMMA AgreesForgetting ==
    ASSUME NEW memories, NEW acknowledged, NEW uncertain, NEW id,
           Agrees(memories, acknowledged, uncertain)
    PROVE  LET left == Others(acknowledged, id)
               others == uncertain \cup Those(acknowledged, id)
           IN  /\ Agrees(memories, left, others)
               /\ Agrees(Without(memories, id), left, others)
<1> DEFINE new == Without(memories, id)
           left == Others(acknowledged, id)
           others == uncertain \cup Those(acknowledged, id)
<1>1. DOMAIN new = DOMAIN memories \ {id}
  BY DEF Without
<1>2. \A i \in DOMAIN new : new[i] = memories[i]
  BY DEF Without
<1>3. acknowledged \cup uncertain \subseteq left \cup others
  BY DEF Others, Those
<1> HIDE DEF new
<1>4. \A k \in left : /\ k.id \in DOMAIN memories /\ memories[k.id].claim = k.claim
                     /\ k.id \in DOMAIN new /\ new[k.id].claim = k.claim
  BY <1>1, <1>2 DEF Agrees, Others
<1>5. \A i \in DOMAIN memories :
          [id |-> i, claim |-> memories[i].claim] \in left \cup others
  BY <1>3 DEF Agrees
<1>6. \A i \in DOMAIN new : [id |-> i, claim |-> new[i].claim] \in left \cup others
  BY <1>1, <1>2, <1>5
<1> QED  BY <1>4, <1>5, <1>6 DEF Agrees, new

LEMMA LineWrittenIds ==
    ASSUME NEW prefix, NEW memories, WriteLine(prefix, memories)
    PROVE  DOMAIN logged' \subseteq DOMAIN logged \cup DOMAIN memories
BY DEF WriteLine, NoMemories

-----------------------------------------------------------------------------
(* The steps. *)

\* Time passes: every id is of an earlier instant.
LEMMA LaterIsFine ==
    ASSUME IdInv, clock' = clock + 1, made' = 0, seq' \in {0, seq},
           DOMAIN live' \subseteq DOMAIN live \cup DOMAIN logged,
           UNCHANGED <<logged, claims>>
    PROVE  IdInv'
<1>1. clock \in Nat /\ seq' \in Nat /\ made' \in Nat /\ made' <= seq' /\ made' <= Suffixes
  BY SuffixesAssumption DEF IdInv
<1>2. ASSUME NEW id \in DOMAIN live \cup DOMAIN logged  PROVE Made(id)'
  <2>1. PICK t \in Nat, n \in Nat : id = IdAt(t, n) /\ t <= clock
    BY DEF IdInv, Made
  <2>2. t <= clock' /\ t # clock'
    BY <1>1, <2>1
  <2> QED  BY <2>1, <2>2 DEF Made, IdAt
<1> QED  BY <1>1, <1>2 DEF IdInv

LEMMA StartKeeps ==
    ASSUME KeptInv, NEW env, Start(env)
    PROVE  KeptInv'
<1>1. /\ process = "down" /\ process' \in {"refused", "idle"}
      /\ UNCHANGED <<durable, logged, log, claims, kept, doubtful>>
      /\ process' = "idle" /\ durable => log # "spoilt" /\ live' = logged
      /\ process' = "idle" /\ ~durable => live' = NoMemories
      /\ live' = logged \/ live' = NoMemories
  BY DEF Start, OpenFails
<1>2. IdInv'
  <2>1. DOMAIN live' \subseteq DOMAIN live \cup DOMAIN logged
    BY <1>1 DEF NoMemories
  <2>2. clock' = clock + 1 /\ made' = 0 /\ seq' \in {0, seq} /\ IdInv
    BY DEF Start, KeptInv
  <2> QED  BY <1>1, <2>1, <2>2, LaterIsFine
<1>3. process' = "idle" => Agrees(live', kept', doubtful')
  <2>1. CASE durable
    BY <1>1, <2>1 DEF KeptInv
  <2>2. CASE ~durable
    <3>1. kept = {}
      BY <1>1, <2>2 DEF KeptInv
    <3>2. Agrees(NoMemories, {}, doubtful)
      BY DEF Agrees, NoMemories
    <3> QED  BY <1>1, <2>2, <3>1, <3>2
  <2> QED  BY <2>1, <2>2
<1>4. Agrees(logged, kept, doubtful) <=> Agrees(logged', kept', doubtful')
  BY <1>1
<1> QED  BY <1>1, <1>2, <1>3, <1>4 DEF KeptInv, Agrees

LEMMA TickKeeps == KeptInv /\ Tick => KeptInv'
<1> SUFFICES ASSUME KeptInv, Tick  PROVE KeptInv'
  OBVIOUS
<1>1. /\ UNCHANGED <<process, durable, live, logged, log, kept, doubtful, claims, seq>>
      /\ clock' = clock + 1 /\ made' = 0
  BY DEF Tick, storeVars
<1>2. IdInv'
  BY <1>1, LaterIsFine DEF KeptInv
<1> QED  BY <1>1, <1>2 DEF KeptInv, Agrees

\* An id drawn by now stays one, as the numbers go on and time does not.
LEMMA MadeStays ==
    ASSUME IdInv, clock' = clock, NEW drawn \in {0, 1},
           seq' = seq + drawn, made' = made + drawn, NEW id, Made(id)
    PROVE  Made(id)'
<1>1. PICK t \in Nat, n \in Nat :
          id = IdAt(t, n) /\ t <= clock /\ (t = clock => seq - made < n /\ n <= seq)
  BY DEF Made
<1>2. t <= clock' /\ (t = clock' => seq' - made' < n /\ n <= seq')
  BY <1>1 DEF IdInv
<1> QED  BY <1>1, <1>2 DEF Made, IdAt

\* A step that stores and logs nothing new.
LEMMA NothingNew ==
    ASSUME IdInv, UNCHANGED <<clock, seq, made, claims>>,
           DOMAIN live' \cup DOMAIN logged' \subseteq DOMAIN live \cup DOMAIN logged
    PROVE  IdInv'
<1>1. ASSUME NEW id \in DOMAIN live' \cup DOMAIN logged'  PROVE Made(id)'
  <2>1. Made(id) /\ seq' = seq + 0 /\ made' = made + 0
    BY <1>1 DEF IdInv
  <2> QED  BY <2>1, MadeStays
<1> QED  BY <1>1 DEF IdInv

LEMMA IdleKeeps ==
    ASSUME KeptInv, process \in {"idle", "replying"}, process' \in {"idle", "replying"},
           UNCHANGED <<clock, durable, storeVars, seq, historyVars>>
    PROVE  KeptInv'
<1>1. UNCHANGED <<clock, durable, live, logged, log, seq, claims, made, kept, doubtful>>
  BY DEF storeVars, historyVars
<1>2. IdInv'
  BY <1>1, NothingNew DEF KeptInv
<1> QED  BY <1>1, <1>2 DEF KeptInv, Agrees

\* The process ends; an ephemeral store goes with it.
LEMMA StopKeeps == KeptInv /\ Stop => KeptInv'
<1> SUFFICES ASSUME KeptInv, Stop  PROVE KeptInv'
  OBVIOUS
<1>1. /\ UNCHANGED <<clock, durable, logged, log, seq, claims, made>>
      /\ process' = "down" /\ DOMAIN live' = {}
      /\ durable => kept' = kept /\ doubtful' = doubtful
      /\ ~durable => kept' = {}
  BY DEF Stop, NoMemories
<1>2. IdInv'
  BY <1>1, NothingNew DEF KeptInv
<1> QED  BY <1>1, <1>2 DEF KeptInv, Agrees

\* A memory is stored under a new id, or the number drawn is lost.
LEMMA RememberKeeps ==
    ASSUME KeptInv, NEW args, Remember(args)
    PROVE  KeptInv'
<1> PICK id, memory : id = GenerateId(seq + 1) /\ memory = MemoryOf(args)
  OBVIOUS
<1> DEFINE entry == [id |-> id, claim |-> memory.claim]
           stored == /\ WriteLine("whole", With(logged, id, memory))
                     /\ live' = With(live, id, memory)
                     /\ kept' = kept \cup {entry}
                     /\ UNCHANGED doubtful
           failed == /\ durable
                     /\ \E prefix \in Prefixes : WriteLine(prefix, With(logged, id, memory))
                     /\ doubtful' = doubtful \cup {entry}
                     /\ UNCHANGED <<live, kept>>
<1>0. process = "idle" /\ process' = "replying" /\ clock' = clock /\ durable' = durable
  BY DEF Remember, NoArgument, Respond
<1>1. \/ UNCHANGED <<clock, durable, storeVars, seq, historyVars>>
      \/ /\ made < Suffixes
         /\ seq' = seq + 1 /\ made' = made + 1 /\ claims' = claims + 1
         /\ stored \/ failed
  BY <1>0 DEF Remember
<1>2. CASE UNCHANGED <<clock, durable, storeVars, seq, historyVars>>
  BY <1>0, <1>2, IdleKeeps
<1>3. ASSUME made < Suffixes, seq' = seq + 1, made' = made + 1, claims' = claims + 1,
             stored \/ failed
      PROVE  KeptInv'
  <2>1. id \notin DOMAIN live /\ id \notin DOMAIN logged
    BY <1>3, IdsAreNew DEF KeptInv
  <2>2. /\ DOMAIN With(logged, id, memory) = DOMAIN logged \cup {id}
        /\ DOMAIN With(live, id, memory) = DOMAIN live \cup {id}
    BY DEF With
  <2>3. PICK prefix : WriteLine(prefix, With(logged, id, memory))
    BY <1>3
  <2>4. DOMAIN logged' \subseteq DOMAIN logged \cup {id}
    BY <2>2, <2>3, LineWrittenIds
  <2>5. DOMAIN live' \subseteq DOMAIN live \cup {id}
    BY <1>3, <2>2
  <2>6. Made(id)'
    <3>1. /\ clock \in Nat /\ seq + 1 \in Nat /\ id = IdAt(clock, seq + 1)
          /\ clock <= clock' /\ seq' - made' < seq + 1 /\ seq + 1 <= seq'
      BY <1>0, <1>3 DEF KeptInv, IdInv, GenerateId, IdAt
    <3> QED  BY <3>1 DEF Made, IdAt
  <2>7. \A i \in DOMAIN live \cup DOMAIN logged : Made(i)'
    BY <1>0, <1>3, MadeStays DEF KeptInv, IdInv
  <2>8. IdInv'
    <3>1. /\ clock' \in Nat /\ seq' \in Nat /\ made' \in Nat /\ claims' \in Nat
          /\ made' <= seq' /\ made' <= Suffixes
      BY <1>0, <1>3, SuffixesAssumption DEF KeptInv, IdInv
    <3> QED  BY <3>1, <2>4, <2>5, <2>6, <2>7 DEF IdInv
  <2>9. Agrees(live, kept, doubtful) /\ (durable /\ log # "spoilt" => Agrees(logged, kept, doubtful))
    BY <1>0 DEF KeptInv
  <2>10. CASE stored
    <3>1. Agrees(live', kept', doubtful')
      BY <2>1, <2>9, <2>10, AgreesWith, Zenon
    <3>2. ASSUME durable, log' # "spoilt"  PROVE Agrees(logged', kept', doubtful')
      <4>1. logged' = With(logged, id, memory) /\ log # "spoilt"
        BY <2>10, <3>2 DEF WriteLine
      <4>2. Agrees(logged, kept, doubtful)
        BY <2>9, <3>2, <4>1
      <4> QED  BY <2>1, <2>10, <4>1, <4>2, AgreesWith, Zenon
    <3> QED  BY <1>0, <2>8, <3>1, <3>2 DEF KeptInv, Agrees
  <2>11. CASE failed
    <3>1. Agrees(live', kept', doubtful')
      BY <2>1, <2>9, <2>11, AgreesDoubting, Zenon
    <3>2. ASSUME durable, log' # "spoilt"  PROVE Agrees(logged', kept', doubtful')
      <4>1. log # "spoilt" /\ (logged' = logged \/ logged' = With(logged, id, memory))
        BY <2>11, <3>2 DEF WriteLine, Prefixes
      <4>2. Agrees(logged, kept, doubtful)
        BY <2>9, <3>2, <4>1
      <4>3. /\ Agrees(logged, kept, doubtful \cup {entry})
            /\ Agrees(With(logged, id, memory), kept, doubtful \cup {entry})
        BY <2>1, <4>2, AgreesDoubting, Zenon
      <4> QED  BY <2>11, <4>1, <4>3
    <3> QED  BY <1>0, <2>8, <3>1, <3>2 DEF KeptInv, Agrees
  <2> QED  BY <1>3, <2>10, <2>11
<1> QED  BY <1>1, <1>2, <1>3

LEMMA ForgetKeeps ==
    ASSUME KeptInv, NEW id, Forget(id)
    PROVE  KeptInv'
<1>0. /\ process = "idle" /\ process' = "replying"
      /\ UNCHANGED <<clock, durable, seq, claims, made>>
  BY DEF Forget, Respond
<1>1. Agrees(live, kept, doubtful) /\ (durable /\ log # "spoilt" => Agrees(logged, kept, doubtful))
  BY <1>0 DEF KeptInv
<1>2. /\ DOMAIN Without(live, id) \subseteq DOMAIN live
      /\ DOMAIN Without(logged, id) \subseteq DOMAIN logged
  BY DEF Without
<1>3. CASE UNCHANGED <<storeVars, kept, doubtful>>
  BY <1>0, <1>3, IdleKeeps DEF historyVars
<1>4. CASE /\ WriteLine("whole", Without(logged, id))
           /\ live' = Without(live, id)
           /\ kept' = Others(kept, id)
           /\ doubtful' = Others(doubtful, id)
  <2>1. IdInv'
    <3>1. DOMAIN logged' \subseteq DOMAIN logged
      BY <1>2, <1>4, LineWrittenIds
    <3> QED  BY <1>0, <1>2, <1>4, <3>1, NothingNew DEF KeptInv
  <2>2. Agrees(live', kept', doubtful')
    <3>1. Agrees(Without(live, id), Others(kept, id), Others(doubtful, id))
      BY <1>1, AgreesWithout, Zenon
    <3> QED  BY <1>4, <3>1, Zenon
  <2>3. ASSUME durable, log' # "spoilt"  PROVE Agrees(logged', kept', doubtful')
    <3>1. logged' = Without(logged, id) /\ log # "spoilt"
      BY <1>4, <2>3 DEF WriteLine
    <3>2. Agrees(logged, kept, doubtful)
      BY <1>1, <2>3, <3>1
    <3>3. Agrees(Without(logged, id), Others(kept, id), Others(doubtful, id))
      BY <3>2, AgreesWithout, Zenon
    <3> QED  BY <1>4, <3>1, <3>3, Zenon
  <2> QED  BY <1>0, <2>1, <2>2, <2>3 DEF KeptInv, Agrees
<1>5. CASE /\ durable
           /\ \E prefix \in Prefixes : WriteLine(prefix, Without(logged, id))
           /\ kept' = Others(kept, id)
           /\ doubtful' = doubtful \cup Those(kept, id)
           /\ UNCHANGED live
  <2>1. IdInv'
    <3>1. DOMAIN logged' \subseteq DOMAIN logged
      BY <1>2, <1>5, LineWrittenIds
    <3> QED  BY <1>0, <1>5, <3>1, NothingNew DEF KeptInv
  <2>2. Agrees(live', kept', doubtful')
    <3>1. Agrees(live, Others(kept, id), doubtful \cup Those(kept, id))
      BY <1>1, AgreesForgetting, Zenon
    <3> QED  BY <1>5, <3>1, Zenon
  <2>3. ASSUME log' # "spoilt"  PROVE Agrees(logged', kept', doubtful')
    <3>1. log # "spoilt" /\ (logged' = logged \/ logged' = Without(logged, id))
      BY <1>5, <2>3 DEF WriteLine, Prefixes
    <3>2. Agrees(logged, kept, doubtful)
      BY <1>1, <1>5, <3>1
    <3>3. /\ Agrees(logged, Others(kept, id), doubtful \cup Those(kept, id))
          /\ Agrees(Without(logged, id), Others(kept, id),
                    doubtful \cup Those(kept, id))
      BY <3>2, AgreesForgetting, Zenon
    <3> QED  BY <1>5, <3>1, <3>3, Zenon
  <2> QED  BY <1>0, <2>1, <2>2, <2>3 DEF KeptInv, Agrees
<1> QED  BY <1>3, <1>4, <1>5 DEF Forget, Others, Those

\* However often the process is stopped and started, and whatever part of its
\* line a failed append leaves, a process that serves has every memory it
\* acknowledged and did not forget, as it was remembered, and besides only what
\* a call that reported an error left: no memory takes the id of another
\* (generate_id, lib.rs:336-343).
THEOREM MemoriesStay == Spec => []MemoriesKept
<1>1. Init => KeptInv
  BY KeptStarts
<1>2. KeptInv /\ [Next]_vars => KeptInv'
  <2> SUFFICES ASSUME KeptInv, [Next]_vars  PROVE KeptInv'
    OBVIOUS
  <2>1. ASSUME NEW env \in Environments, Start(env)  PROVE KeptInv'
    BY <2>1, StartKeeps
  <2>2. CASE Tick
    BY <2>2, TickKeeps
  <2>3. CASE Stop
    BY <2>3, StopKeeps
  <2>4. ASSUME NEW args \in Remembers, Remember(args)  PROVE KeptInv'
    BY <2>4, RememberKeeps
  <2>5. ASSUME NEW id \in DOMAIN live \cup DOMAIN logged \cup {0, BadNumber}, Forget(id)
        PROVE  KeptInv'
    BY <2>5, ForgetKeeps
  <2>6. CASE OtherMessage
    BY <2>6, IdleKeeps DEF OtherMessage, Respond
  <2>7. CASE WriteReply
    BY <2>7, IdleKeeps DEF WriteReply
  <2>8. ASSUME NEW args \in Recalls, Recall(args)  PROVE KeptInv'
    <3>1. /\ process = "idle" /\ process' = "replying"
          /\ UNCHANGED <<clock, durable, storeVars, seq, historyVars>>
      BY <2>8 DEF Recall, NoArgument, Respond
    <3> QED  BY <3>1, IdleKeeps
  <2>9. CASE UNCHANGED vars
    <3>1. /\ UNCHANGED <<process, clock, durable, live, logged, log, seq>>
          /\ UNCHANGED <<claims, made, kept, doubtful>>
      BY <2>9 DEF vars, storeVars, historyVars
    <3>2. IdInv'
      BY <3>1, NothingNew DEF KeptInv
    <3> QED  BY <3>1, <3>2 DEF KeptInv, Agrees
  <2> QED  BY <2>1, <2>2, <2>3, <2>4, <2>5, <2>6, <2>7, <2>8, <2>9 DEF Next
<1>3. KeptInv => MemoriesKept
  BY DEF KeptInv, Agrees, MemoriesKept
<1> QED  BY <1>1, <1>2, <1>3, PTL DEF Spec

=============================================================================
