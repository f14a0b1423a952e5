-------------------------------- MODULE Worker --------------------------------
(***************************************************************************)
(* WorkerService (consumer/worker_service.go): asks a manager at every     *)
(* tick for the shards that are its own and starts, restarts and stops     *)
(* their processors.  To restart and to stop takes goroutines that nobody  *)
(* waits for, so the next tick may come before they are done.              *)
(*                                                                         *)
(* What a manager does to the assignments of this worker is taken from     *)
(* ManagerService.  Of ids only those of one shard are ever compared: all  *)
(* that one request adds have the same here, and they rise (see            *)
(* Cluster!TermsApart).  Beside the shards that are followed here a worker *)
(* may have others, of which only their presence in a response matters.    *)
(***************************************************************************)
EXTENDS ShardProcessor

CONSTANTS
    NoProc,         \* nil
    Width,          \* bits of an int
    MaxId           \* bound: no shard is given once this id was given

ASSUME WorkerAssumption ==
    NoProc \notin Procs /\ Width \in Nat \ {0, 1} /\ MaxId \in Nat
\* What there is to know of the powers of two: their only odd divisor is 1.
ASSUME WidthAssumption ==
    /\ 2^(Width - 1) \in Nat \ {0, 1} /\ 2^Width = 2 * 2^(Width - 1)
    /\ \A n, m \in 1..2^(Width - 1) : n * m = 2^(Width - 1) => m = 1 \/ m % 2 = 0

VARIABLES
    wpc,            \* "tick", "apply" with a response, "stopping", "done"
    managerIndex, maxShards,
    shardProcessors,    \* shard -> object or NoProc
    resp,           \* shard -> [id, from], id 0 when it is not in the response
    others,         \* whether the response lists shards that are not followed
    restarts,       \* goroutines: [old, new, stopped]
    stops,          \* goroutines: the processors that they are to stop
    lastId

workerVars == <<wpc, managerIndex, maxShards, shardProcessors, resp, others>>
goVars == <<restarts, stops>>
vars == <<processorVars, streamVars, mgrVars, workerVars, goVars, lastId>>

NoneAssigned == [s \in Shards |-> 0]
NoAnswer == [s \in Shards |-> [id |-> 0, from |-> 0]]

\* The first manager that is asked leads: another one would only be left by rotation.
Init ==
    /\ InitProcessors /\ leader = 0
    /\ wpc = "tick" /\ managerIndex = 0 /\ maxShards = 1
    /\ shardProcessors = [s \in Shards |-> NoProc]
    /\ resp = NoAnswer /\ others = FALSE /\ restarts = {} /\ stops = {}
    /\ lastId = 0

-----------------------------------------------------------------------------
(* assignOnce *)

rotateManager ==
    /\ managerIndex' = (managerIndex + 1) % UrlCount
    /\ maxShards' = 1

\* handleAssignRequest drops what is closed and adds some of the pool.
Given(new) == [s \in Shards |->
    IF recorded[s] = Closed THEN 0 ELSE IF s \in new THEN lastId + 1 ELSE assigned[s]]
Pool == {s \in Shards : assigned[s] = 0 /\ recorded[s] # Closed}

\* The leader handles the request; its response may be lost, which rotates.
AskLeader(new, more) ==
    /\ wpc = "tick" /\ managerIndex = leader
    /\ new \subseteq Pool /\ Cardinality(new) <= maxShards
    /\ IF new = {} THEN UNCHANGED lastId ELSE lastId < MaxId /\ lastId' = lastId + 1
    /\ assigned' = Given(new)
    /\ requested' = {s \in requested : recorded[s] # Closed}
    /\ \/ /\ wpc' = "apply"
          /\ resp' = [s \in Shards |-> IF Given(new)[s] = 0 THEN NoAnswer[s]
                                       ELSE [id |-> Given(new)[s], from |-> recorded[s]]]
          /\ others' = more
          /\ UNCHANGED <<managerIndex, maxShards, faults>>
       \/ Fault /\ rotateManager /\ UNCHANGED <<wpc, resp, others>>
    /\ UNCHANGED <<leader, phase, stop, procs, recorded, handled, streamVars, shardProcessors,
                   goVars>>

\* Nobody answers, or a manager that is not in service.
AskInVain ==
    /\ wpc = "tick"
    /\ \/ managerIndex # leader /\ UNCHANGED faults
       \/ managerIndex = leader /\ Fault
    /\ rotateManager
    /\ UNCHANGED <<mgrVars, phase, stop, procs, recorded, handled, streamVars, wpc,
                   shardProcessors, resp, others, goVars, lastId>>

Referenced(p) == \/ \E s \in Shards : shardProcessors[s] = p
                 \/ p \in stops \/ \E r \in restarts : p \in {r.old, r.new}
Free == {p \in Procs : phase[p] = "done" /\ ~Referenced(p)}

Distinct(f) == \A s, t \in DOMAIN f : s # t => f[s] # f[t]

\* The variant leaves out the test that follows the multiplication.
Signed(n) == ((n + 2^(Width - 1)) % 2^Width) - 2^(Width - 1)
BadDouble(n) == Signed(n * 2)
Double(n) == IF Signed(n * 2) < 0 THEN 1 ELSE Signed(n * 2)

\* Variants: keeps a processor that it stops in the map; does not stop the one it
\* replaces; and replaces none.
BadKept(s, listed) == TRUE
Kept(s, listed) == s \in listed
BadToStop(old) == {}
ToStop(old) == {old}
BadNewer(s) == FALSE
Newer(s) == procs[shardProcessors[s]].id < resp[s].id

\* A response that lists a shard.  An empty one is ignored.  more: one of the shards
\* that are not followed is started.
Apply(more) ==
    LET listed == {s \in Shards : resp[s].id # 0}
        mapped == {s \in Shards : shardProcessors[s] # NoProc}
        started == listed \ mapped
        renewed == {s \in listed \cap mapped : Newer(s)}
        left == mapped \ listed
        made == started \cup renewed
    IN  /\ wpc = "apply" /\ (listed # {} \/ others) /\ (more => others)
        /\ \E new \in [made -> Free] :
              /\ Distinct(new) /\ new = CHOOSE f \in [made -> Free] : Distinct(f)
              /\ phase' = [p \in Procs |->
                    IF \E s \in started : new[s] = p THEN "subscribe"
                    ELSE IF \E s \in renewed : new[s] = p THEN "new" ELSE phase[p]]
              /\ procs' = [p \in Procs |->
                    IF \E s \in made : new[s] = p
                    THEN LET s == CHOOSE s \in made : new[s] = p
                         IN  NewProcessor(s, resp[s].id, resp[s].from, managerIndex)
                    ELSE procs[p]]
              /\ shardProcessors' = [s \in Shards |->
                    IF s \in made THEN new[s]
                    ELSE IF Kept(s, listed) THEN shardProcessors[s] ELSE NoProc]
              /\ restarts' = restarts \cup
                    {[old |-> shardProcessors[s], new |-> new[s], stopped |-> FALSE] :
                        s \in renewed}
        /\ stops' = stops \cup {shardProcessors[s] : s \in left}
        /\ maxShards' = IF started = {} /\ ~more THEN maxShards ELSE Double(maxShards)
        /\ wpc' = "tick" /\ resp' = NoAnswer /\ others' = FALSE
        /\ UNCHANGED <<mgrVars, stop, recorded, handled, faults, streamVars,
                       managerIndex, lastId>>

IgnoreEmpty ==
    /\ wpc = "apply" /\ resp = NoAnswer /\ ~others
    /\ wpc' = "tick"
    /\ UNCHANGED <<processorVars, streamVars, mgrVars, managerIndex, maxShards,
                   shardProcessors, resp, others, goVars, lastId>>

-----------------------------------------------------------------------------
(* The goroutines and the shutdown *)

StopAll(ps) == stop' = [p \in Procs |-> stop[p] \/ p \in ps]
processorRest == <<phase, procs, recorded, handled, faults>>

RestartStop(r) ==
    /\ r \in restarts /\ ~r.stopped
    /\ StopAll(ToStop(r.old))
    /\ restarts' = (restarts \ {r}) \cup {[r EXCEPT !.stopped = TRUE]}
    /\ UNCHANGED <<mgrVars, streamVars, processorRest, workerVars, stops,
                   lastId>>

\* Done of the old one returns and the new one starts.
RestartStart(r) ==
    /\ r \in restarts /\ r.stopped /\ phase[r.old] = "done"
    /\ Goto(r.new, "subscribe")
    /\ restarts' = restarts \ {r}
    /\ UNCHANGED <<mgrVars, streamVars, stop, procs, recorded, handled, faults,
                   workerVars, stops, lastId>>

StopOne(p) ==
    /\ p \in stops
    /\ StopAll({p}) /\ stops' = stops \ {p}
    /\ UNCHANGED <<mgrVars, streamVars, processorRest, workerVars,
                   restarts, lastId>>

Mapped == {p \in Procs : \E s \in Shards : shardProcessors[s] = p}

\* The context is cancelled, which also ends a request that waits: Stop for every
\* processor in the map, and then Done.
Stopping ==
    /\ wpc = "tick"
    /\ StopAll(Mapped) /\ wpc' = "stopping"
    /\ UNCHANGED <<mgrVars, streamVars, processorRest, managerIndex,
                   maxShards, shardProcessors, resp, others, goVars, lastId>>

Stopped ==
    /\ wpc = "stopping" /\ \A p \in Mapped : phase[p] = "done"
    /\ wpc' = "done"
    /\ UNCHANGED <<processorVars, streamVars, mgrVars, managerIndex, maxShards,
                   shardProcessors, resp, others, goVars, lastId>>

-----------------------------------------------------------------------------
(* The managers and the process *)

\* Another manager enters service, or this one does again; it knows no workers.
Failover(u) ==
    /\ Fault
    /\ leader' = u /\ assigned' = NoneAssigned /\ requested' = {}
    /\ UNCHANGED <<phase, stop, procs, recorded, handled, streamVars, workerVars, goVars, lastId>>

\* The worker is taken for dead.
Expel ==
    /\ Fault
    /\ assigned' = NoneAssigned /\ requested' = {}
    /\ UNCHANGED <<leader, phase, stop, procs, recorded, handled, streamVars, workerVars, goVars,
                   lastId>>

\* Another worker has an offer of the shard, and takes it when that is due.
Want(s) ==
    /\ assigned[s] # 0 /\ requested' = requested \cup {s}
    /\ UNCHANGED <<leader, assigned, processorVars, streamVars, workerVars, goVars,
                   lastId>>
Take(s) ==
    /\ s \in requested
    /\ requested' = requested \ {s} /\ assigned' = [assigned EXCEPT ![s] = 0]
    /\ UNCHANGED <<leader, processorVars, streamVars, workerVars, goVars, lastId>>

Ask == AskInVain \/ \E new \in SUBSET Shards, more \in BOOLEAN : AskLeader(new, more)
Work == Ask \/ IgnoreEmpty \/ \E more \in BOOLEAN : Apply(more)
Goroutines == \/ \E r \in restarts : RestartStop(r) \/ RestartStart(r)
              \/ \E p \in stops : StopOne(p)
Alone(step) == step /\ UNCHANGED <<workerVars, goVars, lastId>>
Managers == \/ Expel \/ \E u \in Urls : Failover(u)
            \/ \E s \in Shards : Want(s) \/ Take(s)

\* When the worker is done the process ends.
Next ==
    /\ wpc # "done"
    /\ \/ Work \/ Stopping \/ Stopped \/ Goroutines
       \/ Alone(Resharding) \/ \E p \in Procs : Alone(ProcessorStep(p))
       \/ Managers

Spec == Init /\ [][Next]_vars

\* The worker keeps ticking and its goroutines run.  Kinesis accepts a subscription,
\* and one lives until a checkpoint is due, sooner or later; checkpoints are answered,
\* fail or hang for good; and when a stop channel is closed no select takes another
\* case for ever.
FairSpec ==
    /\ Spec /\ WF_vars(Work) /\ WF_vars(Stopped) /\ WF_vars(Goroutines)
    /\ \A p \in Procs : /\ WF_vars(Alone(Subscribes(p) \/ Checkpoint(p)))
                        /\ SF_vars(Alone(Events(p, TRUE)))
                        /\ SF_vars(Alone(StopSeen(p) \/ GivesUp(p)))

-----------------------------------------------------------------------------
(* Properties *)

\* Every variable has its type; maxShards stays a number of shards that can be
\* asked for, also when doubling it overflows (worker_service.go:207).
ProcessorTypeOK ==
    /\ phase \in [Procs -> Phases] /\ stop \in [Procs -> BOOLEAN]
    /\ procs \in [Procs -> Processor] /\ leader \in Urls
    /\ assigned \in [Shards -> Nat] /\ requested \in SUBSET Shards
    /\ recorded \in [Shards -> 0..Closed] /\ handled \in [Shards -> Positions]
    /\ tip \in [Shards -> Positions] /\ ended \in SUBSET Shards /\ faults \in Nat
WorkerTypeOK ==
    /\ wpc \in {"tick", "apply", "stopping", "done"} /\ managerIndex \in Urls
    /\ shardProcessors \in [Shards -> Procs \cup {NoProc}]
    /\ resp \in [Shards -> [id : Nat, from : Positions]] /\ others \in BOOLEAN
    /\ restarts \in SUBSET [old : Procs, new : Procs, stopped : BOOLEAN]
    /\ stops \in SUBSET Procs /\ lastId \in Nat
TypeOK == ProcessorTypeOK /\ WorkerTypeOK /\ maxShards \in Nat \ {0}

\* Who is going to close the stop channel of a processor.
Stoppers(p) ==
    {<<"map", s>> : s \in {t \in Shards : /\ shardProcessors[t] = p
                                          /\ wpc \in {"tick", "apply"}}}
    \cup {<<"restart", r>> : r \in {q \in restarts : q.old = p /\ ~q.stopped}}
    \cup {<<"stop", p>> : q \in stops \cap {p}}

\* No stop channel is closed twice, which would panic, however many restarts and
\* stops of a shard are under way when the next response or the shutdown comes.
StoppedOnce ==
    \A p \in Procs : /\ \A a, b \in Stoppers(p) : a = b
                     /\ stop[p] => Stoppers(p) = {}

\* Every processor that runs, or is going to, can still be stopped by somebody.
NoOrphan ==
    \A p \in Procs : phase[p] # "done" => stop[p] \/ Stoppers(p) # {}

\* A processor of the shard waits for the reply to a checkpoint that never comes
\* (shard_processor.go:213).
Hung(s) == \E p \in Procs : phase[p] = "hung" /\ procs[p].shard = s

\* A worker reads, again and again, the shards the leader holds for its own, unless a
\* processor of the shard hangs, for which the next one waits.
Running(p) == phase[p] \in {"subscribe", "reading", "sending", "retry"}
Reads(s) == \E p \in Procs : Running(p) /\ procs[p].shard = s
                               /\ procs[p].id = assigned[s]
AssignedIsRead ==
    \A s \in Shards : []<>(\/ assigned[s] = 0 \/ s \in requested
                           \/ recorded[s] = Closed \/ wpc \in {"stopping", "done"}
                           \/ Hung(s) \/ Reads(s))

\* A worker that has lost a shard stops reading it, although an empty response is
\* ignored (line 147): the managers refuse its checkpoints.
Consumes(s) == \E p \in Procs : procs[p].shard = s
                                 /\ phase[p] \in {"subscribe", "reading"}
LostIsLeft ==
    \A s \in Shards : <>[](assigned[s] = 0) => <>[]~Consumes(s)

\* A worker whose context is cancelled comes to an end, also while the managers fail
\* its checkpoints or refuse them; only one that is neither answered nor fails may keep
\* it, as the stop does not interrupt it.
ShutdownCompletes ==
    wpc = "stopping" ~> \/ wpc = "done"
                        \/ \E s \in Shards : shardProcessors[s] # NoProc /\ Hung(s)
=============================================================================
