------------------------------ MODULE Lifecycle ------------------------------
(***************************************************************************)
(* The life of a pod of the backend (main.py, lifespan): what it starts,   *)
(* step by step and whatever fails, the probes that send it traffic        *)
(* (observability/health.py), its shutdown, and what it leaves in          *)
(* PostgreSQL and Qdrant for the pods after it: the tables and the         *)
(* runbooks of the SRE agent (agents/sre/agent.py).                        *)
(***************************************************************************)
EXTENDS Integers, FiniteSets

CONSTANTS
  Pods,
  Files,      \* runbooks/*.md
  Retries,    \* attempts of init_pool to connect
  MaxStarts, MaxFaults, MaxCopies   \* bounds of the model

VARIABLES
  up,          \* services that answer
  phase,       \* where each pod is
  tries,       \* attempts to connect to PostgreSQL
  pool,        \* has a pool of connections
  client,      \* has a client of Redis
  points,      \* files a pod has the embeddings of
  loop,        \* the scheduler of the SRE loop runs
  run,         \* a run of the loop is going on, in a thread of its own
  ready,       \* the last probe was answered with 200
  tables,      \* sets of tables that exist
  collection,  \* sre_runbooks exists
  runbooks,    \* how many points it has of each file
  auto,        \* it has entries the loop has saved
  starts, faults,
  \* history
  disturbed,   \* pods that had a fault or another pod next to them while starting
  partial      \* the collection got its first points from less than all files

process == <<tries, pool, client, points, loop, run>>
stored == <<tables, collection, runbooks, auto, partial>>
bounds == <<starts, faults>>
vars == <<up, phase, process, ready, stored, bounds, disturbed>>

Services == {"postgres", "redis", "qdrant", "ollama"}

Starting == {"pool", "client", "schema", "sre_tables", "list", "create", "count",
             "embed", "upsert", "loop"}

Stopping == {"stop_loop", "close_pool", "ended"}

TypeOK ==
  /\ up \subseteq Services
  /\ phase \in [Pods -> {"down", "serving"} \cup Starting \cup Stopping]
  /\ tries \in [Pods -> 0..Retries]
  /\ pool \in [Pods -> BOOLEAN]
  /\ client \in [Pods -> BOOLEAN]
  /\ points \in [Pods -> SUBSET Files]
  /\ loop \in [Pods -> BOOLEAN]
  /\ run \in [Pods -> BOOLEAN]
  /\ ready \in [Pods -> BOOLEAN]
  /\ tables \subseteq {"schema", "sre"}
  /\ collection \in BOOLEAN
  /\ runbooks \in [Files -> 0..MaxCopies]
  /\ auto \in BOOLEAN
  /\ disturbed \subseteq Pods
  /\ partial \in BOOLEAN

Init ==
  /\ up = Services
  /\ phase = [p \in Pods |-> "down"]
  /\ tries = [p \in Pods |-> 0]
  /\ pool = [p \in Pods |-> FALSE]
  /\ client = [p \in Pods |-> FALSE]
  /\ points = [p \in Pods |-> {}]
  /\ loop = [p \in Pods |-> FALSE]
  /\ run = [p \in Pods |-> FALSE]
  /\ ready = [p \in Pods |-> FALSE]
  /\ tables = {}
  /\ collection = FALSE
  /\ runbooks = [f \in Files |-> 0]
  /\ auto = FALSE
  /\ starts = 0
  /\ faults = 0
  /\ disturbed = {}
  /\ partial = FALSE

-----------------------------------------------------------------------------
Go(p, label) == phase' = [phase EXCEPT ![p] = label]

At(p, label, next) == phase[p] = label /\ Go(p, next)

IsStarting(p) == phase[p] \in Starting

Ended(function, p) == [function EXCEPT ![p] = FALSE]

\* Kubernetes starts a pod, once its init containers have seen PostgreSQL and
\* Redis.
Start(p) ==
  /\ At(p, "down", "pool")
  /\ {"postgres", "redis"} \subseteq up
  /\ starts < MaxStarts
  /\ starts' = starts + 1
  /\ tries' = [tries EXCEPT ![p] = 0]
  /\ LET others == {q \in Pods \ {p} : IsStarting(q) \/ loop[q]} IN
     disturbed' = (disturbed \ {p}) \cup {q \in others : IsStarting(q)}
                    \cup (IF others # {} \/ up # Services THEN {p} ELSE {})
  /\ UNCHANGED <<up, pool, client, points, loop, run, ready, stored, faults>>

\* init_pool: the pool, or the next attempt; after the last one the start goes
\* on without a pool, for good.
InitPool(p) ==
  /\ phase[p] = "pool"
  /\ \/ /\ "postgres" \in up
        /\ pool' = [pool EXCEPT ![p] = TRUE]
        /\ Go(p, "client")
        /\ UNCHANGED tries
     \/ /\ "postgres" \notin up
        /\ tries' = [tries EXCEPT ![p] = @ + 1]
        /\ Go(p, IF tries'[p] = Retries THEN "client" ELSE "pool")
        /\ UNCHANGED pool
  /\ UNCHANGED <<up, client, points, loop, run, ready, stored, bounds, disturbed>>

\* Mutant: the client is kept once it has answered.
InitAnsweringClient(p) ==
  /\ At(p, "client", "schema")
  /\ client' = [client EXCEPT ![p] = "redis" \in up]
  /\ UNCHANGED <<up, tries, pool, points, loop, run, ready, stored, bounds, disturbed>>

\* init_client: the client is kept before it is asked, and whether or not it
\* answers.
InitClient(p) ==
  /\ At(p, "client", "schema")
  /\ client' = [client EXCEPT ![p] = TRUE]
  /\ UNCHANGED <<up, tries, pool, points, loop, run, ready, stored, bounds, disturbed>>

\* Tables, in one transaction.  Two pods that create them at once may fail one
\* another's transaction, of which one is committed.
CreateTables(p, label, next, set) ==
  /\ At(p, label, next)
  /\ tables' = IF pool[p] /\ "postgres" \in up THEN tables \cup {set} ELSE tables
  /\ UNCHANGED <<up, process, ready, collection, runbooks, auto, partial, bounds, disturbed>>

EnsureSchema(p) == CreateTables(p, "schema", "sre_tables", "schema")
InitSreDb(p) == CreateTables(p, "sre_tables", "list", "sre")

-----------------------------------------------------------------------------
\* Mutant: a collection that exists counts as indexed.
ListIndexed(p) ==
  /\ phase[p] = "list"
  /\ Go(p, IF "qdrant" \in up /\ ~collection THEN "create" ELSE "loop")
  /\ UNCHANGED <<up, process, ready, stored, bounds, disturbed>>

\* init_runbooks_qdrant, of which any failure is the end.
ListCollections(p) ==
  /\ phase[p] = "list"
  /\ Go(p, CASE "qdrant" \notin up -> "loop"
             [] "qdrant" \in up /\ collection -> "count"
             [] OTHER -> "create")
  /\ UNCHANGED <<up, process, ready, stored, bounds, disturbed>>

\* An embedding gives the dimension.  Qdrant refuses a collection that another
\* pod has created meanwhile.
CreateCollection(p) ==
  /\ phase[p] = "create"
  /\ IF {"qdrant", "ollama"} \subseteq up /\ ~collection
     THEN collection' = TRUE /\ Go(p, "count")
     ELSE UNCHANGED collection /\ Go(p, "loop")
  /\ UNCHANGED <<up, process, ready, tables, runbooks, auto, partial, bounds, disturbed>>

Empty == ~auto /\ \A f \in Files : runbooks[f] = 0

\* A collection with any point at all is left as it is.
CountPoints(p) ==
  /\ phase[p] = "count"
  /\ Go(p, IF "qdrant" \in up /\ Empty THEN "embed" ELSE "loop")
  /\ UNCHANGED <<up, process, ready, stored, bounds, disturbed>>

\* The embedding of each file; one that fails is left out.
EmbedFiles(p) ==
  /\ At(p, "embed", "upsert")
  /\ \/ /\ "ollama" \in up
        /\ points' = [points EXCEPT ![p] = Files]
        /\ UNCHANGED <<faults, disturbed>>
     \/ /\ "ollama" \notin up
        /\ points' = [points EXCEPT ![p] = {}]
        /\ UNCHANGED <<faults, disturbed>>
     \/ /\ faults < MaxFaults
        /\ faults' = faults + 1
        /\ \E some \in SUBSET Files : points' = [points EXCEPT ![p] = some]
        /\ disturbed' = disturbed \cup {p}
  /\ UNCHANGED <<up, tries, pool, client, loop, run, ready, stored, starts>>

\* The points, all at once, under ids of their own.
UpsertPoints(p) ==
  /\ At(p, "upsert", "loop")
  /\ IF "qdrant" \in up /\ points[p] # {}
     THEN /\ runbooks' = [f \in Files |-> IF f \in points[p] /\ runbooks[f] < MaxCopies
                                          THEN runbooks[f] + 1 ELSE runbooks[f]]
          /\ partial' = (partial \/ points[p] # Files)
     ELSE UNCHANGED <<runbooks, partial>>
  /\ points' = [points EXCEPT ![p] = {}]
  /\ UNCHANGED <<up, tries, pool, client, loop, run, ready, tables, collection, auto, bounds, disturbed>>

\* start_sre_loop, and the rest of the start, which keeps nothing.
StartLoop(p) ==
  /\ At(p, "loop", "serving")
  /\ loop' = [loop EXCEPT ![p] = TRUE]
  /\ UNCHANGED <<up, tries, pool, client, points, run, ready, stored, bounds, disturbed>>

-----------------------------------------------------------------------------
\* The scheduler fires.
BeginRun(p) ==
  /\ loop[p]
  /\ ~run[p]
  /\ run' = [run EXCEPT ![p] = TRUE]
  /\ UNCHANGED <<up, phase, tries, pool, client, points, loop, ready, stored, bounds, disturbed>>

EndRun(p) ==
  /\ run[p]
  /\ run' = [run EXCEPT ![p] = FALSE]
  /\ UNCHANGED <<up, phase, tries, pool, client, points, loop, ready, stored, bounds, disturbed>>

\* maybe_save_runbook_entry: after a restart that succeeded.
SaveRunbookEntry(p) ==
  /\ run[p]
  /\ ~auto
  /\ {"qdrant", "ollama"} \subseteq up
  /\ collection
  /\ auto' = TRUE
  /\ partial' = (partial \/ Empty)
  /\ UNCHANGED <<up, phase, process, ready, tables, collection, runbooks, bounds, disturbed>>

\* How the skills, the tools and the gateway to Kubernetes are, each in time.
Auxiliary == {"ok", "degraded"}

Status(p, auxiliary) ==
  IF up = Services /\ pool[p] /\ client[p] THEN auxiliary ELSE "unavailable"

\* /ready: storage decides; a status that is only degraded is a 200.
Probe(p) ==
  /\ phase[p] = "serving"
  /\ \E auxiliary \in Auxiliary :
       ready' = [ready EXCEPT ![p] = Status(p, auxiliary) \in {"ok", "degraded"}]
  /\ ready'[p] # ready[p]
  /\ UNCHANGED <<up, phase, process, stored, bounds, disturbed>>

-----------------------------------------------------------------------------
\* SIGTERM: five seconds for what is in flight.
Drain(p) ==
  /\ At(p, "serving", "stop_loop")
  /\ ready' = Ended(ready, p)
  /\ UNCHANGED <<up, process, stored, bounds, disturbed>>

\* stop_sre_loop: no further run begins; one that goes on is not waited for.
StopLoop(p) ==
  /\ At(p, "stop_loop", "close_pool")
  /\ loop' = Ended(loop, p)
  /\ UNCHANGED <<up, tries, pool, client, points, run, ready, stored, bounds, disturbed>>

ClosePool(p) ==
  /\ At(p, "close_pool", "ended")
  /\ pool' = Ended(pool, p)
  /\ UNCHANGED <<up, tries, client, points, loop, run, ready, stored, bounds, disturbed>>

\* The process ends, in order or killed, with its threads.
Exit(p) ==
  /\ phase[p] # "down"
  /\ Go(p, "down")
  /\ IF phase[p] = "ended" THEN UNCHANGED faults
     ELSE faults < MaxFaults /\ faults' = faults + 1
  /\ pool' = Ended(pool, p)
  /\ client' = Ended(client, p)
  /\ loop' = Ended(loop, p)
  /\ run' = Ended(run, p)
  /\ ready' = Ended(ready, p)
  /\ points' = [points EXCEPT ![p] = {}]
  /\ UNCHANGED <<up, tries, stored, starts, disturbed>>

ServiceFails ==
  /\ faults < MaxFaults
  /\ faults' = faults + 1
  /\ \E s \in up : up' = up \ {s}
  /\ disturbed' = disturbed \cup {p \in Pods : IsStarting(p)}
  /\ UNCHANGED <<phase, process, ready, stored, starts>>

ServiceReturns ==
  /\ \E s \in Services \ up : up' = up \cup {s}
  /\ UNCHANGED <<phase, process, ready, stored, bounds, disturbed>>

StartupNext(p) ==
  \/ InitPool(p) \/ InitClient(p) \/ EnsureSchema(p) \/ InitSreDb(p)
  \/ ListCollections(p) \/ CreateCollection(p) \/ CountPoints(p)
  \/ EmbedFiles(p) \/ UpsertPoints(p) \/ StartLoop(p)

PodNext(p) ==
  \/ Start(p) \/ StartupNext(p)
  \/ BeginRun(p) \/ EndRun(p) \/ SaveRunbookEntry(p) \/ Probe(p)
  \/ Drain(p) \/ StopLoop(p) \/ ClosePool(p) \/ Exit(p)

Next == (\E p \in Pods : PodNext(p)) \/ ServiceFails \/ ServiceReturns

Spec == Init /\ [][Next]_vars

\* A start does not hang (its calls have timeouts), and Kubernetes goes on probing.
Fairness == \A p \in Pods : WF_vars(StartupNext(p)) /\ WF_vars(Probe(p))

FairSpec == Spec /\ Fairness

-----------------------------------------------------------------------------
\* A pod that came up undisturbed finds or makes every runbook, whatever pods
\* that died in their start have left, unless an earlier pod or an entry of the
\* loop has filled the collection in part.
UndisturbedStartIndexes ==
  \A p \in Pods \ disturbed :
    phase[p] = "serving" => partial \/ \A f \in Files : runbooks[f] > 0

\* While the services answer, a pod that serves becomes ready again, unless it
\* started without a pool: Redis may have been away at the start, PostgreSQL not.
ReadyAgain ==
  \A p \in Pods :
    []<>(ready[p] \/ phase[p] # "serving" \/ up # Services \/ ~pool[p])
==============================================================================
