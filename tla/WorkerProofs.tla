----------------------------- MODULE WorkerProofs -----------------------------
(***************************************************************************)
(* What is proved of Worker for any number of shards, processors, ids and  *)
(* faults: no stop channel is closed twice and no processor is left behind *)
(* by the goroutines that restart and stop, however many of them there are.*)
(***************************************************************************)
EXTENDS Worker, TLAPS

-----------------------------------------------------------------------------
(* The invariant *)

ControlTypeOK ==
    /\ phase \in [Procs -> Phases] /\ stop \in [Procs -> BOOLEAN]
    /\ shardProcessors \in [Shards -> Procs \cup {NoProc}]
    /\ restarts \in SUBSET [old : Procs, new : Procs, stopped : BOOLEAN]
    /\ stops \in SUBSET Procs

\* An object is in the map once, or is what a restart replaces, or is to be stopped;
\* an object that a restart is to start has not been started.
PlacesInv ==
    /\ \A s, t \in Shards :
          shardProcessors[s] = shardProcessors[t] => s = t \/ shardProcessors[s] = NoProc
    /\ \A r, q \in restarts : r.old = q.old \/ r.new = q.new => r = q
    /\ \A r \in restarts : r.old \notin Mapped \cup stops /\ phase[r.new] = "new"
    /\ stops \cap Mapped = {}

\* Somebody is going to stop the processor: the shutdown, a goroutine that stops it
\* or one that restarts its shard.
HasStopper(p) ==
    \/ wpc \in {"tick", "apply"} /\ p \in Mapped
    \/ p \in stops
    \/ \E r \in restarts : r.old = p /\ ~r.stopped

\* A processor that was started has a stopper until its channel is closed.
StopInv ==
    \A p \in Procs :
        /\ stop[p] => ~HasStopper(p) /\ phase[p] # "done"
        /\ phase[p] # "done" => stop[p] \/ HasStopper(p)
        /\ HasStopper(p) => phase[p] # "done"

OwnerInv == ControlTypeOK /\ PlacesInv /\ StopInv

\* There is no processor yet.
LEMMA InitOwner == Init => OwnerInv
BY WorkerAssumption
   DEF Init, InitProcessors, OwnerInv, ControlTypeOK, PlacesInv, StopInv, HasStopper,
       Mapped, Phases

-----------------------------------------------------------------------------
(* Steps *)

\* The variables the invariant is about that belong to the worker.
controlVars == <<wpc, shardProcessors, restarts, stops>>

\* A processor moves between phases and in the end sees its stop.
LEMMA ProcessorPhase ==
    ASSUME ControlTypeOK, NEW p \in Procs, ProcessorStep(p)
    PROVE  \/ /\ stop' = stop /\ phase[p] \notin {"new", "done"}
              /\ \E label \in Phases \ {"new", "done"} : Goto(p, label)
           \/ /\ stop[p] /\ phase[p] \notin {"new", "done"}
              /\ Goto(p, "done") /\ stop' = [stop EXCEPT ![p] = FALSE]
<1>1. CASE StopSeen(p)
    BY <1>1 DEF StopSeen
<1>2. CASE Subscribes(p) \/ StreamEnds(p) \/ Lost(p) \/ Retry(p) \/ GivesUp(p)
    BY <1>2 DEF Subscribes, Subscribe, StreamEnds, Lost, Retry, GivesUp, GoIdle, Phases
<1>3. CASE Events(p, TRUE) \/ Events(p, FALSE)
    BY <1>3 DEF Events, Event, Phases
<1>4. CASE Checkpoint(p)
    BY <1>4 DEF Checkpoint, Answer, GoIdle, Phases
<1> QED
    BY <1>1, <1>2, <1>3, <1>4 DEF ProcessorStep

\* A processor that ends was stopped; nothing else it does concerns the map.
LEMMA ProcessorOwner ==
    ASSUME OwnerInv, NEW p \in Procs, ProcessorStep(p), UNCHANGED controlVars
    PROVE  OwnerInv'
<1> USE DEF OwnerInv, ControlTypeOK, controlVars
<1>1. \/ /\ stop' = stop /\ phase[p] \notin {"new", "done"}
         /\ \E label \in Phases \ {"new", "done"} : Goto(p, label)
      \/ /\ stop[p] /\ phase[p] \notin {"new", "done"}
         /\ Goto(p, "done") /\ stop' = [stop EXCEPT ![p] = FALSE]
    BY ProcessorPhase
<1>2. ControlTypeOK'
    BY <1>1 DEF Goto, Phases
<1>3. PlacesInv'
    BY <1>1 DEF PlacesInv, Goto, Mapped
<1>4. \A q \in Procs : HasStopper(q)' = HasStopper(q)
    BY DEF HasStopper, Mapped
<1>5. StopInv'
    BY <1>1, <1>4 DEF StopInv, Goto
<1> QED
    BY <1>2, <1>3, <1>5

\* The goroutines.
LEMMA RestartStopOwner ==
    ASSUME OwnerInv, NEW r \in restarts, RestartStop(r)
    PROVE  OwnerInv'
<1> DEFINE q == [r EXCEPT !.stopped = TRUE]
<1>1. /\ ~r.stopped /\ r.old \in Procs /\ r.new \in Procs
      /\ stop' = [p \in Procs |-> stop[p] \/ p = r.old]
      /\ restarts' = (restarts \ {r}) \cup {q}
      /\ UNCHANGED <<phase, wpc, shardProcessors, stops>>
    BY DEF RestartStop, StopAll, ToStop, processorRest, workerVars, OwnerInv,
           ControlTypeOK
<1>2. q \in [old : Procs, new : Procs, stopped : BOOLEAN]
      /\ q.old = r.old /\ q.new = r.new /\ q.stopped
    BY <1>1 DEF OwnerInv, ControlTypeOK
<1>3. ControlTypeOK'
    BY <1>1, <1>2 DEF OwnerInv, ControlTypeOK
<1>4. PlacesInv'
    <2>1. \A x \in restarts' : x = q \/ (x \in restarts /\ x # r)
        BY <1>1
    <2>2. \A x \in restarts : x.old = r.old \/ x.new = r.new => x = r
        BY DEF OwnerInv, PlacesInv
    <2>3. \A x, y \in restarts' : x.old = y.old \/ x.new = y.new => x = y
        <3>1. \A x, y \in restarts : x.old = y.old \/ x.new = y.new => x = y
            BY DEF OwnerInv, PlacesInv
        <3>2. \A x \in restarts : x.old = q.old \/ x.new = q.new => x = r
            BY <1>2, <2>2
        <3> HIDE DEF q
        <3> QED
            BY <2>1, <3>1, <3>2
    <2>4. \A x \in restarts' :
              x.old \notin Mapped' \cup stops' /\ phase'[x.new] = "new"
        BY <1>1, <1>2, <2>1 DEF OwnerInv, PlacesInv, Mapped
    <2> QED
        BY <1>1, <2>3, <2>4 DEF OwnerInv, PlacesInv, Mapped
<1>5. \A p \in Procs : HasStopper(p)' <=> HasStopper(p) /\ p # r.old
    BY <1>1, <1>2 DEF OwnerInv, PlacesInv, HasStopper, Mapped
<1>6. HasStopper(r.old)
    BY <1>1 DEF HasStopper
<1>7. StopInv'
    BY <1>1, <1>5, <1>6 DEF OwnerInv, ControlTypeOK, StopInv
<1> QED
    BY <1>3, <1>4, <1>7 DEF OwnerInv

\* The new processor runs, and the map already has it.
LEMMA RestartStartOwner ==
    ASSUME OwnerInv, NEW r \in restarts, RestartStart(r)
    PROVE  OwnerInv'
<1>1. /\ r.stopped /\ r.old \in Procs /\ r.new \in Procs
      /\ phase' = [phase EXCEPT ![r.new] = "subscribe"]
      /\ restarts' = restarts \ {r}
      /\ UNCHANGED <<stop, wpc, shardProcessors, stops>>
    BY DEF RestartStart, Goto, workerVars, OwnerInv, ControlTypeOK
<1>2. ControlTypeOK'
    BY <1>1 DEF OwnerInv, ControlTypeOK, Phases
<1>3. PlacesInv'
    BY <1>1 DEF OwnerInv, ControlTypeOK, PlacesInv, Mapped
<1>4. \A p \in Procs : HasStopper(p)' <=> HasStopper(p)
    BY <1>1 DEF HasStopper, Mapped
<1>5. phase[r.new] = "new"
    BY DEF OwnerInv, PlacesInv
<1>6. StopInv'
    BY <1>1, <1>4, <1>5 DEF OwnerInv, ControlTypeOK, StopInv
<1> QED
    BY <1>2, <1>3, <1>6 DEF OwnerInv

\* The goroutine closes the channel and is gone.
LEMMA StopOneOwner ==
    ASSUME OwnerInv, NEW p \in stops, StopOne(p)
    PROVE  OwnerInv'
<1>1. /\ p \in Procs
      /\ stop' = [q \in Procs |-> stop[q] \/ q = p]
      /\ stops' = stops \ {p}
      /\ UNCHANGED <<phase, wpc, shardProcessors, restarts>>
    BY DEF StopOne, StopAll, processorRest, workerVars, OwnerInv, ControlTypeOK
<1>2. ControlTypeOK' /\ PlacesInv'
    BY <1>1 DEF OwnerInv, ControlTypeOK, PlacesInv, Mapped
<1>3. \A q \in Procs : HasStopper(q)' <=> HasStopper(q) /\ q # p
    BY <1>1 DEF OwnerInv, PlacesInv, HasStopper, Mapped
<1>4. HasStopper(p)
    BY DEF HasStopper
<1>5. StopInv'
    BY <1>1, <1>3, <1>4 DEF OwnerInv, ControlTypeOK, StopInv
<1> QED
    BY <1>2, <1>5 DEF OwnerInv

\* The shutdown stops what is in the map.
LEMMA StoppingOwner ==
    ASSUME OwnerInv, Stopping
    PROVE  OwnerInv'
<1>1. /\ wpc = "tick" /\ wpc' = "stopping"
      /\ stop' = [p \in Procs |-> stop[p] \/ p \in Mapped]
      /\ UNCHANGED <<phase, shardProcessors, restarts, stops>>
    BY DEF Stopping, StopAll, processorRest, goVars
<1>2. ControlTypeOK' /\ PlacesInv'
    BY <1>1 DEF OwnerInv, ControlTypeOK, PlacesInv, Mapped
<1>3. \A p \in Procs : HasStopper(p)' <=> HasStopper(p) /\ p \notin Mapped
    BY <1>1 DEF OwnerInv, PlacesInv, HasStopper, Mapped
<1>4. \A p \in Mapped : HasStopper(p)
    BY <1>1 DEF HasStopper
<1>5. StopInv'
    BY <1>1, <1>3, <1>4 DEF OwnerInv, ControlTypeOK, StopInv
<1> QED
    BY <1>2, <1>5 DEF OwnerInv

\* A response: the new processors are objects nothing refers to.
LEMMA ApplyOwner ==
    ASSUME OwnerInv, NEW more \in BOOLEAN, Apply(more)
    PROVE  OwnerInv'
<1> DEFINE listed == {s \in Shards : resp[s].id # 0}
           mapped == {s \in Shards : shardProcessors[s] # NoProc}
           started == listed \ mapped
           renewed == {s \in listed \cap mapped : Newer(s)}
           left == mapped \ listed
           made == started \cup renewed
           Restart(s, n) == [old |-> shardProcessors[s], new |-> n, stopped |-> FALSE]
<1>1. PICK new \in [made -> Free] :
        /\ Distinct(new)
        /\ phase' = [p \in Procs |->
              IF \E s \in started : new[s] = p THEN "subscribe"
              ELSE IF \E s \in renewed : new[s] = p THEN "new" ELSE phase[p]]
        /\ shardProcessors' = [s \in Shards |->
              IF s \in made THEN new[s]
              ELSE IF s \in listed THEN shardProcessors[s] ELSE NoProc]
        /\ restarts' = restarts \cup {Restart(s, new[s]) : s \in renewed}
    BY DEF Apply, Kept
<1>2. /\ stops' = stops \cup {shardProcessors[s] : s \in left}
      /\ wpc = "apply" /\ wpc' = "tick" /\ stop' = stop
    BY DEF Apply
<1> HIDE DEF listed
<1>3. /\ listed \subseteq Shards
      /\ \A s \in mapped : shardProcessors[s] \in Mapped /\ shardProcessors[s] \in Procs
    BY DEF listed, Mapped, OwnerInv, ControlTypeOK
<1>4. \A s \in made : /\ new[s] \in Procs /\ phase[new[s]] = "done"
                       /\ new[s] # NoProc /\ new[s] \notin Mapped \cup stops
                       /\ \A r \in restarts : new[s] \notin {r.old, r.new}
    BY <1>1, WorkerAssumption DEF Free, Referenced, Mapped
<1>5. \A s, t \in made : new[s] = new[t] => s = t
    BY <1>1 DEF Distinct
<1>6. ControlTypeOK'
    <2>1. phase' \in [Procs -> Phases]
        BY <1>1 DEF OwnerInv, ControlTypeOK, Phases
    <2>2. shardProcessors' \in [Shards -> Procs \cup {NoProc}]
        BY <1>1, <1>4 DEF OwnerInv, ControlTypeOK
    <2>3. \A s \in renewed :
              Restart(s, new[s]) \in [old : Procs, new : Procs, stopped : BOOLEAN]
        BY <1>3, <1>4
    <2>4. restarts' \in SUBSET [old : Procs, new : Procs, stopped : BOOLEAN]
        BY <1>1, <2>3 DEF OwnerInv, ControlTypeOK
    <2>5. stops' \in SUBSET Procs
        BY <1>2, <1>3 DEF OwnerInv, ControlTypeOK
    <2> QED
        BY <1>2, <2>1, <2>2, <2>4, <2>5 DEF OwnerInv, ControlTypeOK
<1>7. \A r \in restarts' : r \in restarts \/ \E s \in renewed : r = Restart(s, new[s])
    BY <1>1
<1>8. \A p \in Procs : p \in Mapped' <=> \/ \E s \in made : p = new[s]
                                         \/ \E s \in mapped \ (renewed \cup left) :
                                                p = shardProcessors[s]
    <2> TAKE p \in Procs
    <2>1. \A s \in Shards : shardProcessors'[s] = IF s \in made THEN new[s]
              ELSE IF s \in listed THEN shardProcessors[s] ELSE NoProc
        BY <1>1
    <2>2. made \subseteq Shards /\ p # NoProc
        BY <1>3, WorkerAssumption
    <2>3. ASSUME p \in Mapped'
          PROVE  \/ \E s \in made : p = new[s]
                 \/ \E s \in mapped \ (renewed \cup left) : p = shardProcessors[s]
        <3>1. PICK s \in Shards : shardProcessors'[s] = p
            BY <2>3 DEF Mapped
        <3>2. s \notin made => /\ s \in mapped \ (renewed \cup left)
                               /\ p = shardProcessors[s]
            BY <2>1, <2>2, <3>1
        <3> QED
            BY <2>1, <3>1, <3>2
    <2>4. ASSUME NEW s \in made, p = new[s]
          PROVE  p \in Mapped'
        BY <2>1, <2>2, <2>4 DEF Mapped
    <2>5. ASSUME NEW s \in mapped \ (renewed \cup left), p = shardProcessors[s]
          PROVE  p \in Mapped'
        BY <2>1, <2>2, <2>5 DEF Mapped
    <2> QED
        BY <2>3, <2>4, <2>5
<1>9. \A s, t \in mapped : shardProcessors[s] = shardProcessors[t] => s = t
    BY <1>3 DEF OwnerInv, PlacesInv
<1>10. PlacesInv'
    <2>1. \A s, t \in Shards : shardProcessors'[s] = shardProcessors'[t] =>
                                   s = t \/ shardProcessors'[s] = NoProc
        <3> SUFFICES ASSUME NEW s \in Shards, NEW t \in Shards, s # t,
                            shardProcessors'[s] = shardProcessors'[t],
                            shardProcessors'[s] # NoProc
                     PROVE  FALSE
            OBVIOUS
        <3>1. \A x \in Shards : shardProcessors'[x] # NoProc =>
                 \/ x \in made /\ shardProcessors'[x] = new[x]
                 \/ x \in mapped /\ shardProcessors'[x] = shardProcessors[x]
            BY <1>1
        <3> QED
            BY <3>1, <1>3, <1>4, <1>5, <1>9
    <2>2. \A r, q \in restarts' : r.old = q.old \/ r.new = q.new => r = q
        <3> SUFFICES ASSUME NEW r \in restarts', NEW q \in restarts',
                            r.old = q.old \/ r.new = q.new
                     PROVE  r = q
            OBVIOUS
        <3>1. CASE r \in restarts /\ q \in restarts
            BY <3>1 DEF OwnerInv, PlacesInv
        <3>2. \A x \in restarts, s \in renewed :
                  x.old # Restart(s, new[s]).old /\ x.new # Restart(s, new[s]).new
            BY <1>3, <1>4 DEF OwnerInv, PlacesInv
        <3>3. ASSUME NEW s \in renewed, NEW u \in renewed,
                     r = Restart(s, new[s]), q = Restart(u, new[u])
              PROVE  r = q
            BY <3>3, <1>5, <1>9
        <3> QED
            BY <1>7, <3>1, <3>2, <3>3
    <2>3. ASSUME NEW r \in restarts'
          PROVE  r.old \notin Mapped' \cup stops' /\ phase'[r.new] = "new"
        <3>1. CASE r \in restarts
            <4>1. /\ r.old \in Procs /\ r.new \in Procs /\ phase[r.new] = "new"
                  /\ r.old \notin Mapped \cup stops
                BY <3>1 DEF OwnerInv, ControlTypeOK, PlacesInv
            <4>2. r.old \notin Mapped'
                BY <3>1, <4>1, <1>3, <1>4, <1>8
            <4>3. r.old \notin stops'
                BY <4>1, <1>2, <1>3
            <4>4. phase'[r.new] = "new"
                BY <3>1, <4>1, <1>1, <1>4
            <4> QED
                BY <4>2, <4>3, <4>4
        <3>2. ASSUME NEW s \in renewed, r = Restart(s, new[s])
              PROVE  r.old \notin Mapped' \cup stops' /\ phase'[r.new] = "new"
            <4>1. /\ r.old = shardProcessors[s] /\ r.new = new[s]
                  /\ r.old \in Mapped /\ r.old \in Procs
                BY <3>2, <1>3
            <4>2. r.old \notin Mapped'
                BY <4>1, <1>4, <1>8, <1>9
            <4>3. r.old \notin stops'
                BY <4>1, <1>2, <1>9 DEF OwnerInv, PlacesInv
            <4>4. phase'[r.new] = "new"
                BY <4>1, <1>1, <1>4, <1>5
            <4> QED
                BY <4>2, <4>3, <4>4
        <3> QED
            BY <1>7, <3>1, <3>2
    <2>4. stops' \cap Mapped' = {}
        <3> SUFFICES ASSUME NEW p \in stops', p \in Mapped' PROVE FALSE
            OBVIOUS
        <3>1. p \in Procs
            BY DEF Mapped
        <3>2. CASE p \in stops
            BY <3>1, <3>2, <1>3, <1>4, <1>8 DEF OwnerInv, PlacesInv
        <3>3. ASSUME NEW s \in left, p = shardProcessors[s]
              PROVE  FALSE
            BY <3>1, <3>3, <1>3, <1>4, <1>8, <1>9
        <3> QED
            BY <3>2, <3>3, <1>2
    <2> QED
        BY <2>1, <2>2, <2>3, <2>4 DEF PlacesInv
<1>11. \A p \in Procs :
          HasStopper(p)' <=> HasStopper(p) \/ \E s \in made : p = new[s]
    <2> TAKE p \in Procs
    <2>1. HasStopper(p)' => HasStopper(p) \/ \E s \in made : p = new[s]
        BY <1>2, <1>3, <1>7, <1>8 DEF HasStopper
    <2>2. p \in Mapped => \E s \in mapped : p = shardProcessors[s]
        BY WorkerAssumption DEF Mapped
    <2>3. \A r \in restarts : r \in restarts'
        BY <1>1
    <2>4. \A s \in renewed : Restart(s, new[s]) \in restarts'
        BY <1>1
    <2>5. HasStopper(p) => HasStopper(p)'
        <3>1. CASE p \in Mapped
            <4>1. PICK s \in mapped : p = shardProcessors[s]
                BY <2>2, <3>1
            <4>2. CASE s \in renewed
                <5>1. Restart(s, new[s]) \in restarts'
                    BY <2>4, <4>2
                <5>2. Restart(s, new[s]).old = p /\ ~Restart(s, new[s]).stopped
                    BY <4>1
                <5> QED
                    BY <5>1, <5>2 DEF HasStopper
            <4>3. CASE s \in left
                BY <1>2, <4>1, <4>3 DEF HasStopper
            <4>4. CASE s \in mapped \ (renewed \cup left)
                BY <1>2, <1>8, <4>1, <4>4 DEF HasStopper
            <4> QED
                BY <4>2, <4>3, <4>4
        <3>2. CASE p \in stops
            BY <1>2, <3>2 DEF HasStopper
        <3>3. CASE \E r \in restarts : r.old = p /\ ~r.stopped
            BY <2>3, <3>3 DEF HasStopper
        <3> QED
            BY <3>1, <3>2, <3>3 DEF HasStopper
    <2>6. (\E s \in made : p = new[s]) => HasStopper(p)'
        BY <1>2, <1>8 DEF HasStopper
    <2> QED
        BY <2>1, <2>5, <2>6
<1>12. \A p \in Procs : phase'[p] # "done" <=> phase[p] # "done"
                                              \/ \E s \in made : p = new[s]
    BY <1>1
<1>13. StopInv'
    BY <1>2, <1>4, <1>11, <1>12 DEF OwnerInv, StopInv
<1> QED
    BY <1>6, <1>10, <1>13 DEF OwnerInv

-----------------------------------------------------------------------------
(* The theorem *)

\* No other step concerns what the invariant is about.
LEMMA NextOwner == OwnerInv /\ [Next]_vars => OwnerInv'
<1> SUFFICES ASSUME OwnerInv, [Next]_vars PROVE OwnerInv'
    OBVIOUS
<1>1. ASSUME NEW p \in Procs, Alone(ProcessorStep(p))
      PROVE  OwnerInv'
    BY <1>1, ProcessorOwner DEF Alone, controlVars, workerVars, goVars
<1>2. CASE Goroutines
    BY <1>2, RestartStopOwner, RestartStartOwner, StopOneOwner DEF Goroutines
<1>3. ASSUME UNCHANGED <<phase, stop, shardProcessors, restarts, stops>>,
             wpc' = wpc \/ {wpc, wpc'} \subseteq {"tick", "apply"}
      PROVE  OwnerInv'
    BY <1>3 DEF OwnerInv, ControlTypeOK, PlacesInv, StopInv, HasStopper, Mapped
<1>4. CASE Ask \/ IgnoreEmpty
    BY <1>4, <1>3 DEF Ask, AskInVain, AskLeader, IgnoreEmpty, processorVars, goVars
<1>5. CASE Stopped
    <2>1. /\ UNCHANGED <<phase, stop, shardProcessors, restarts, stops>>
          /\ wpc = "stopping" /\ wpc' = "done"
        BY <1>5 DEF Stopped, processorVars, goVars
    <2> QED
        BY <2>1 DEF OwnerInv, ControlTypeOK, PlacesInv, StopInv, HasStopper, Mapped
<1>6. CASE Alone(Resharding)
    BY <1>6, <1>3 DEF Alone, Resharding, Reshard, processorVars, workerVars, goVars
<1>7. CASE Managers
    BY <1>7, <1>3 DEF Managers, Expel, Failover, Want, Take, processorVars, workerVars,
                      goVars
<1>8. CASE UNCHANGED vars
    BY <1>8, <1>3 DEF vars, processorVars, workerVars, goVars
<1> QED
    BY <1>1, <1>2, <1>4, <1>5, <1>6, <1>7, <1>8, ApplyOwner, StoppingOwner
       DEF Next, Work

\* Whoever is to stop a processor is the only one.
LEMMA OwnerCorrect == Spec => []OwnerInv
BY InitOwner, NextOwner, PTL DEF Spec

\* No processor is left without somebody to stop it (worker_service.go:169 to 204).
THEOREM NothingOrphaned == Spec => []NoOrphan
<1>1. ASSUME NEW p \in Procs, HasStopper(p)
      PROVE  Stoppers(p) # {}
    <2>1. CASE wpc \in {"tick", "apply"} /\ p \in Mapped
        <3>1. PICK s \in Shards : shardProcessors[s] = p
            BY <2>1 DEF Mapped
        <3> QED
            BY <2>1, <3>1 DEF Stoppers
    <2>2. CASE p \in stops
        BY <2>2 DEF Stoppers
    <2>3. ASSUME NEW r \in restarts, r.old = p, ~r.stopped
          PROVE  Stoppers(p) # {}
        BY <2>3 DEF Stoppers
    <2> QED
        BY <1>1, <2>1, <2>2, <2>3 DEF HasStopper
<1>2. OwnerInv => NoOrphan
    BY <1>1 DEF OwnerInv, StopInv, NoOrphan
<1> QED
    BY <1>2, OwnerCorrect, PTL

\* No stop channel is closed twice (worker_service.go:74, 191 and 201).
THEOREM ChannelsClosedOnce == Spec => []StoppedOnce
<1>1. ASSUME OwnerInv, NEW p \in Procs
      PROVE  /\ \A a, b \in Stoppers(p) : a = b
             /\ stop[p] => Stoppers(p) = {}
    <2>1. \A s, t \in Shards : shardProcessors[s] = p /\ shardProcessors[t] = p => s = t
        BY <1>1, WorkerAssumption DEF OwnerInv, PlacesInv
    <2>2. \A r, q \in restarts : r.old = p /\ q.old = p => r = q
        BY <1>1 DEF OwnerInv, PlacesInv
    <2>3. /\ p \in Mapped => p \notin stops /\ \A r \in restarts : r.old # p
          /\ p \in stops => \A r \in restarts : r.old # p
        BY <1>1 DEF OwnerInv, PlacesInv
    <2>4. \A s \in Shards : shardProcessors[s] = p => p \in Mapped
        BY DEF Mapped
    <2>5. \A a, b \in Stoppers(p) : a = b
        BY <2>1, <2>2, <2>3, <2>4 DEF Stoppers
    <2>6. Stoppers(p) # {} => HasStopper(p)
        BY <2>4 DEF Stoppers, HasStopper
    <2> QED
        BY <1>1, <2>5, <2>6 DEF OwnerInv, StopInv
<1>2. OwnerInv => StoppedOnce
    BY <1>1 DEF StoppedOnce
<1> QED
    BY <1>2, OwnerCorrect, PTL

-----------------------------------------------------------------------------
(* Types *)

\* maxShards is a power of two below the first number that an int does not hold.
Half == 2^(Width - 1)
Doubles(n) == n \in Nat \ {0} /\ \E m \in 2..Half : n * m = Half
TypeInv == TypeOK /\ Doubles(maxShards)

\* One shard is asked for at first and after the doubling overflowed.
LEMMA OneDoubles == Doubles(1)
BY WidthAssumption DEF Doubles, Half

\* Doubling ends below zero, never at zero, and then starts again with one
\* (worker_service.go:207).
LEMMA DoubleDoubles ==
    ASSUME NEW n, Doubles(n)
    PROVE  Doubles(Double(n))
<1>1. /\ Half \in Nat \ {0, 1} /\ 2^Width = 2 * Half
      /\ \A i, j \in 1..Half : i * j = Half => j = 1 \/ j % 2 = 0
    BY WidthAssumption DEF Half
<1>2. n \in Nat \ {0}
    BY DEF Doubles
<1>3. PICK m \in 2..Half : n * m = Half
    BY DEF Doubles
<1>4. Signed(n * 2) = ((n * 2 + Half) % (2 * Half)) - Half
    BY <1>1 DEF Signed, Half
<1> HIDE DEF Half
<1>5. n \in 1..Half
    BY <1>1, <1>2, <1>3
<1>6. m % 2 = 0 /\ m \in 1..Half /\ m # 1
    <2>1. m \in 1..Half /\ m # 1
        BY <1>1
    <2>2. n * m = Half => m = 1 \/ m % 2 = 0
        BY <1>1, <1>5, <2>1
    <2> QED
        BY <1>3, <2>1, <2>2
<1>7. PICK k \in Nat : m = 2 * k
    BY <1>6
<1>8. n * 2 * k = Half /\ k # 0
    BY <1>2, <1>3, <1>7, <1>6
<1>9. CASE k = 1
    <2>1. n * 2 + Half = 2 * Half
        BY <1>1, <1>2, <1>8, <1>9
    <2>2. (2 * Half) % (2 * Half) = 0
        BY <1>1
    <2>3. Signed(n * 2) < 0
        BY <1>1, <1>4, <2>1, <2>2
    <2> QED
        BY <2>3, OneDoubles DEF Double
<1>10. CASE k # 1
    <2>1. n * 2 < Half /\ k \in 2..Half
        BY <1>1, <1>2, <1>8, <1>10
    <2>2. (n * 2 + Half) % (2 * Half) = n * 2 + Half
        BY <1>1, <1>2, <2>1
    <2>3. Signed(n * 2) = n * 2
        BY <1>1, <1>2, <1>4, <2>2
    <2>4. Double(n) = n * 2
        BY <1>2, <2>3 DEF Double
    <2> QED
        BY <1>2, <1>8, <2>1, <2>4 DEF Doubles
<1> QED
    BY <1>9, <1>10

\* The parts of TypeOK that the model changes together.
ProcsTypeOK == /\ phase \in [Procs -> Phases] /\ stop \in [Procs -> BOOLEAN]
               /\ procs \in [Procs -> Processor]
MgrTypeOK == /\ leader \in Urls /\ assigned \in [Shards -> Nat]
             /\ requested \in SUBSET Shards
StreamTypeOK == /\ recorded \in [Shards -> 0..Closed] /\ handled \in [Shards -> Positions]
                /\ tip \in [Shards -> Positions] /\ ended \in SUBSET Shards
                /\ faults \in Nat

\* TypeOK by parts.
LEMMA ProcessorParts ==
    ProcessorTypeOK <=> ProcsTypeOK /\ MgrTypeOK /\ StreamTypeOK
BY DEF ProcessorTypeOK, ProcsTypeOK, MgrTypeOK, StreamTypeOK

\* An object that is made, and one that is put back, is a processor.
LEMMA NewIsProcessor ==
    ASSUME NEW s \in Shards, NEW id \in Nat, NEW from \in Positions, NEW url \in Urls
    PROVE  NewProcessor(s, id, from, url) \in Processor
<1>1. 0 \in Positions
    BY ProcessorAssumption DEF Positions
<1> QED
    BY <1>1 DEF NewProcessor, Processor

\* What an object is before it is made has the type as well.
LEMMA UnusedIsProcessor == Unused \in Processor
<1>1. 0 \in Positions /\ 0 \in Urls /\ (CHOOSE s \in Shards : TRUE) \in Shards
    BY ProcessorAssumption DEF Positions, Urls
<1> QED
    BY <1>1, NewIsProcessor DEF Unused

\* At the start there are no processors and no assignments.
LEMMA InitTypes == Init => TypeInv
<1> SUFFICES ASSUME Init PROVE TypeInv
    OBVIOUS
<1>1. 0 \in Urls /\ 0 \in Positions /\ 1 \in Positions /\ 0 \in 0..Closed
    BY ProcessorAssumption DEF Urls, Positions, Closed
<1>2. ProcessorTypeOK
    BY <1>1, UnusedIsProcessor DEF Init, InitProcessors, ProcessorTypeOK, Phases
<1>3. resp \in [Shards -> [id : Nat, from : Positions]]
    BY <1>1 DEF Init, NoAnswer
<1>4. WorkerTypeOK
    BY <1>1, <1>3 DEF Init, WorkerTypeOK
<1>5. maxShards = 1
    BY DEF Init
<1> QED
    BY <1>2, <1>4, <1>5, OneDoubles DEF TypeInv, TypeOK, Doubles

\* A step of a processor moves it, its record and the positions of its shard.
LEMMA ProcessorTypes ==
    ASSUME ProcessorTypeOK, NEW p \in Procs, ProcessorStep(p)
    PROVE  ProcessorTypeOK'
<1> USE ProcessorAssumption DEF ProcessorTypeOK
<1> DEFINE s == procs[p].shard
<1>1. /\ s \in Shards /\ procs[p] \in Processor /\ procs[p].sn \in Positions
      /\ procs[p].cursor \in Positions
    BY DEF Processor
<1>2. 0 \in Positions /\ Positions \subseteq Nat /\ Positions \subseteq 0..Closed
      /\ Closed \in 0..Closed /\ \A n, m \in Positions : Above(n, m) \in Positions
    BY DEF Positions, Closed, Above
<1>3. UNCHANGED <<leader, assigned, requested>>
    BY DEF ProcessorStep, Subscribes, Subscribe, StreamEnds, Events, Event, StopSeen,
           Checkpoint, Answer, Lost, Retry, GivesUp, mgrVars
<1>4. ASSUME NEW at \in Positions, Subscribe(p, at) PROVE ProcessorTypeOK'
    <2>1. [procs[p] EXCEPT !.sn = 0, !.cursor = at] \in Processor
        BY <1>1, <1>2 DEF Processor
    <2>2. procs' = [procs EXCEPT ![p] = [procs[p] EXCEPT !.sn = 0, !.cursor = at]]
        BY <1>4 DEF Subscribe
    <2>3. tip' \in [Shards -> Positions] /\ handled' \in [Shards -> Positions]
        BY <1>1, <1>2, <1>4 DEF Subscribe
    <2> QED
        BY <1>3, <1>4, <2>1, <2>2, <2>3 DEF Subscribe, Goto, Phases
<1>5. CASE StreamEnds(p)
    <2>1. procs' \in [Procs -> Processor]
        BY <1>2, <1>5 DEF StreamEnds, Processor
    <2> QED
        BY <1>3, <1>5, <2>1 DEF StreamEnds, Goto, Phases, streamVars
<1>6. ASSUME NEW cursor \in Positions, NEW due \in BOOLEAN, Event(p, cursor, due)
      PROVE  ProcessorTypeOK'
    <2> DEFINE closed == s \in ended /\ cursor = tip[s]
               q == [procs[p] EXCEPT !.cursor = cursor, !.closed = closed,
                                     !.sn = IF closed THEN 0 ELSE cursor,
                                     !.from = IF closed THEN 0 ELSE @]
    <2>1. procs' \in [Procs -> Processor]
        <3>1. procs' = [procs EXCEPT ![p] = q]
            BY <1>6 DEF Event
        <3>2. q \in Processor
            BY <1>1, <1>2 DEF Processor
        <3> QED
            BY <3>1, <3>2
    <2>2. tip' \in [Shards -> Positions] /\ handled' \in [Shards -> Positions]
        BY <1>1, <1>2, <1>6 DEF Event
    <2> QED
        BY <1>3, <1>6, <2>1, <2>2 DEF Event, Goto, Phases
<1>7. CASE StopSeen(p)
    BY <1>3, <1>7, UnusedIsProcessor DEF StopSeen, Goto, Phases, streamVars
<1>8. ASSUME GoIdle(p)
      PROVE  procs' \in [Procs -> Processor] /\ phase' \in [Procs -> Phases]
    <2>1. procs' \in [Procs -> Processor]
        <3> DEFINE q == [procs[p] EXCEPT !.from = 0, !.sn = 0, !.cursor = 0, !.closed = FALSE]
        <3>1. procs' = [procs EXCEPT ![p] = q]
            BY <1>8 DEF GoIdle
        <3>2. q \in Processor
            BY <1>1, <1>2 DEF Processor
        <3> QED
            BY <3>1, <3>2
    <2> QED
        BY <1>8, <2>1 DEF GoIdle, Goto, Phases
<1>9. ASSUME NEW reply, Answer(p, reply) PROVE ProcessorTypeOK'
    <2>1. recorded' \in [Shards -> 0..Closed]
        BY <1>1, <1>2, <1>9 DEF Answer
    <2>2. procs' \in [Procs -> Processor] /\ phase' \in [Procs -> Phases]
        BY <1>8, <1>9 DEF Answer, Goto, Phases
    <2>3. faults' \in Nat
        BY <1>9 DEF Answer, Fault
    <2>4. UNCHANGED <<tip, ended, stop, handled>>
        BY <1>9 DEF Answer, streamVars
    <2> QED
        BY <1>3, <2>1, <2>2, <2>3, <2>4
<1>10. CASE Lost(p) \/ Retry(p)
    BY <1>3, <1>10 DEF Lost, Retry, Fault, Goto, Phases, streamVars
<1>11. CASE GivesUp(p)
    BY <1>3, <1>8, <1>11 DEF GivesUp, streamVars
<1> QED
    BY <1>4, <1>5, <1>6, <1>7, <1>9, <1>10, <1>11
       DEF ProcessorStep, Subscribes, Events, Checkpoint

\* A request changes the assignments, and its response, if it comes, has the positions
\* of the shards that are not closed.
LEMMA AskTypes ==
    ASSUME TypeInv, Ask
    PROVE  TypeInv'
<1> USE ProcessorAssumption DEF TypeInv, TypeOK
<1>1. ASSUME rotateManager
      PROVE  managerIndex' \in Urls /\ maxShards' = 1
    BY <1>1 DEF rotateManager, WorkerTypeOK, Urls
<1>2. Doubles(1) /\ 1 \in Nat \ {0}
    BY OneDoubles
<1>3. CASE AskInVain
    BY <1>1, <1>2, <1>3 DEF AskInVain, mgrVars, streamVars, goVars, Fault, ProcessorTypeOK,
                            WorkerTypeOK
<1>4. ASSUME NEW new \in SUBSET Shards, NEW more \in BOOLEAN, AskLeader(new, more)
      PROVE  TypeInv'
    <2>1. lastId \in Nat /\ lastId' \in Nat /\ Given(new) \in [Shards -> Nat]
        BY <1>4 DEF AskLeader, Given, ProcessorTypeOK, WorkerTypeOK
    <2>2. /\ assigned' \in [Shards -> Nat] /\ requested' \in SUBSET Shards
          /\ UNCHANGED <<leader, phase, stop, procs, recorded, handled, tip, ended>>
          /\ UNCHANGED <<shardProcessors, restarts, stops>>
        BY <2>1, <1>4 DEF AskLeader, ProcessorTypeOK, streamVars, goVars
    <2>3. \A s \in Shards : Given(new)[s] # 0 => recorded[s] \in Positions
        BY DEF Given, Positions, Closed, ProcessorTypeOK
    <2>4. \A s \in Shards : (IF Given(new)[s] = 0 THEN NoAnswer[s]
                             ELSE [id |-> Given(new)[s], from |-> recorded[s]])
                                \in [id : Nat, from : Positions]
        BY <2>1, <2>3 DEF NoAnswer, Positions
    <2>5. /\ resp' \in [Shards -> [id : Nat, from : Positions]] /\ others' \in BOOLEAN
          /\ wpc' \in {"tick", "apply"} /\ managerIndex' \in Urls /\ faults' \in Nat
          /\ maxShards' \in {1, maxShards}
        <3>1. CASE /\ wpc' = "apply" /\ others' = more
                   /\ resp' = [s \in Shards |->
                         IF Given(new)[s] = 0 THEN NoAnswer[s]
                         ELSE [id |-> Given(new)[s], from |-> recorded[s]]]
                   /\ UNCHANGED <<managerIndex, maxShards, faults>>
            BY <3>1, <2>4 DEF WorkerTypeOK, ProcessorTypeOK
        <3>2. CASE Fault /\ rotateManager /\ UNCHANGED <<wpc, resp, others>>
            BY <3>2, <1>1, <1>4 DEF Fault, AskLeader, WorkerTypeOK, ProcessorTypeOK
        <3> QED
            BY <3>1, <3>2, <1>4 DEF AskLeader
    <2> QED
        BY <1>2, <2>1, <2>2, <2>5 DEF ProcessorTypeOK, WorkerTypeOK
<1> QED
    BY <1>3, <1>4 DEF Ask

\* A response makes processors and doubles what is asked for next.
LEMMA ApplyTypes ==
    ASSUME TypeInv, ControlTypeOK', NEW more \in BOOLEAN, Apply(more)
    PROVE  TypeInv'
<1> DEFINE listed == {s \in Shards : resp[s].id # 0}
           mapped == {s \in Shards : shardProcessors[s] # NoProc}
           started == listed \ mapped
           made == started \cup {s \in listed \cap mapped : Newer(s)}
           NewOf(s) == NewProcessor(s, resp[s].id, resp[s].from, managerIndex)
<1>1. PICK new \in [made -> Free] :
          procs' = [p \in Procs |-> IF \E s \in made : new[s] = p
                                    THEN LET s == CHOOSE s \in made : new[s] = p
                                         IN  NewOf(s)
                                    ELSE procs[p]]
    BY DEF Apply
<1>2. /\ maxShards' = IF started = {} /\ ~more THEN maxShards ELSE Double(maxShards)
      /\ wpc' = "tick" /\ resp' = NoAnswer /\ others' = FALSE
      /\ UNCHANGED <<leader, assigned, requested, stop, recorded, handled, faults, tip,
                     ended, managerIndex, lastId>>
    BY DEF Apply, mgrVars, streamVars
<1>3. made \subseteq Shards
    OBVIOUS
<1> HIDE DEF made, started
<1>4. \A s \in Shards : NewOf(s) \in Processor
    BY NewIsProcessor DEF TypeInv, TypeOK, WorkerTypeOK
<1> HIDE DEF NewOf
<1>5. procs' \in [Procs -> Processor]
    <2>1. \A p \in Procs : (\E s \in made : new[s] = p) =>
             NewOf(CHOOSE s \in made : new[s] = p) \in Processor
        BY <1>3, <1>4
    <2>2. \A p \in Procs : procs[p] \in Processor
        BY DEF TypeInv, TypeOK, ProcessorTypeOK
    <2> QED
        BY <1>1, <2>1, <2>2
<1>6. ProcessorTypeOK'
    BY <1>2, <1>5 DEF TypeInv, TypeOK, ProcessorTypeOK, ControlTypeOK
<1>7. resp' \in [Shards -> [id : Nat, from : Positions]]
    BY <1>2, ProcessorAssumption DEF NoAnswer, Positions
<1>8. WorkerTypeOK'
    BY <1>2, <1>7 DEF TypeInv, TypeOK, WorkerTypeOK, ControlTypeOK
<1>9. Doubles(maxShards')
    BY <1>2, DoubleDoubles DEF TypeInv
<1> QED
    BY <1>6, <1>8, <1>9 DEF TypeInv, TypeOK, Doubles

\* The other steps change what ControlTypeOK is about, and little else.
LEMMA OtherTypes ==
    ASSUME TypeInv, ControlTypeOK',
           IgnoreEmpty \/ Stopping \/ Stopped \/ Goroutines \/ Alone(Resharding) \/ Managers
    PROVE  TypeInv'
<1> USE DEF TypeInv, TypeOK, ControlTypeOK
<1>1. CASE IgnoreEmpty
    BY <1>1 DEF IgnoreEmpty, processorVars, streamVars, mgrVars, goVars, ProcessorTypeOK,
                WorkerTypeOK
<1>2. CASE Stopping
    BY <1>2 DEF Stopping, processorRest, streamVars, mgrVars, goVars, ProcessorTypeOK,
                WorkerTypeOK
<1>3. CASE Stopped
    BY <1>3 DEF Stopped, processorVars, streamVars, mgrVars, goVars, ProcessorTypeOK,
                WorkerTypeOK
<1>4. CASE Goroutines
    BY <1>4 DEF Goroutines, RestartStop, RestartStart, StopOne, processorRest, streamVars,
                mgrVars, workerVars, ProcessorTypeOK, WorkerTypeOK
<1>5. CASE Alone(Resharding)
    BY <1>5 DEF Alone, Resharding, Reshard, processorVars, mgrVars, workerVars, goVars,
                ProcessorTypeOK, WorkerTypeOK
<1>6. CASE Managers
    BY <1>6 DEF Managers, Expel, Failover, Want, Take, Fault, NoneAssigned, processorVars,
                streamVars, workerVars, goVars, ProcessorTypeOK, WorkerTypeOK
<1> QED
    BY <1>1, <1>2, <1>3, <1>4, <1>5, <1>6

\* Every step keeps the types and maxShards a power of two.
LEMMA NextTypes == TypeInv /\ OwnerInv' /\ [Next]_vars => TypeInv'
<1> SUFFICES ASSUME TypeInv, OwnerInv', [Next]_vars PROVE TypeInv'
    OBVIOUS
<1>1. ControlTypeOK'
    BY DEF OwnerInv
<1>2. CASE Ask
    BY <1>2, AskTypes
<1>3. ASSUME NEW more \in BOOLEAN, Apply(more) PROVE TypeInv'
    BY <1>1, <1>3, ApplyTypes
<1>4. CASE IgnoreEmpty \/ Stopping \/ Stopped \/ Goroutines \/ Alone(Resharding) \/ Managers
    BY <1>1, <1>4, OtherTypes
<1>5. ASSUME NEW p \in Procs, Alone(ProcessorStep(p)) PROVE TypeInv'
    BY <1>5, ProcessorTypes DEF Alone, TypeInv, TypeOK, WorkerTypeOK, workerVars, goVars
<1>6. CASE UNCHANGED vars
    BY <1>6 DEF vars, processorVars, streamVars, mgrVars, workerVars, goVars, TypeInv,
                TypeOK, ProcessorTypeOK, WorkerTypeOK
<1> QED
    BY <1>2, <1>3, <1>4, <1>5, <1>6 DEF Next, Work

\* Every variable has its type; in particular maxShards is positive however often it is
\* doubled, for an int of any width (worker_service.go:207).
THEOREM WorkerTypeCorrect == Spec => []TypeOK
<1>1. TypeInv => TypeOK
    BY DEF TypeInv
<1>2. OwnerInv /\ [Next]_vars => OwnerInv'
    BY NextOwner
<1> QED
    BY <1>1, <1>2, InitTypes, InitOwner, NextTypes, PTL DEF Spec
=============================================================================
