------------------------------- MODULE Cluster -------------------------------
(***************************************************************************)
(* Leader (consumer/leader.go) on every node of a cluster, with as much of *)
(* ManagerService and PopService as several of them share: who is in       *)
(* service with which term, the ids it gives to the owners of one shard,   *)
(* the fencing token of that shard, and the shutdown of a process, which   *)
(* waits for every component it started.                                   *)
(*                                                                         *)
(* etcd and its client are external.  A session keeps its lease alive as   *)
(* long as its process runs and it is neither lost nor orphaned; a key     *)
(* that is not kept alive expires.  Campaign puts a key, remembers the     *)
(* revision of that put (election.Rev) and waits until no key of a lower   *)
(* revision is left.  It does not look whether its own key still exists.   *)
(***************************************************************************)
EXTENDS Integers, FiniteSets

CONSTANTS
    Nodes,
    MaxFaults,      \* bound: crashes, shutdowns, expiries and errors, together
    MaxGiven,       \* bound: no assignment once this many ids were given
    MaxInflight,    \* bound: checkpoint requests between the mutex and etcd
    MaxRevision     \* bound: no checkpoint once etcd has reached this revision

ASSUME BoundAssumption ==
    /\ MaxFaults \in Nat /\ MaxGiven \in Nat
    /\ MaxInflight \in Nat /\ MaxRevision \in Nat

VARIABLES
    revision,       \* of etcd
    keys,           \* election keys: [node, rev], rev the revision of its creation
    pc,             \* where elect is; "done" after it returned, "down" no process
    session,        \* of each node: "none", "live", "lost" (session.Done is closed)
    rev,            \* election.Rev()
    cancelled,      \* the context of the process is cancelled
    running,        \* of its components those that are not done
    inService, term, nextAssignmentOffset,
    assigned,       \* the id of the assignment of the shard, 0 when there is none
    given,          \* history: the ids given so far, with their terms
    writing,        \* checkpoint requests that passed ensureCheckpointOwnership
    written,        \* the fencing token in etcd and, as history, its term
    faults

nodeVars == <<pc, session, rev>>
mgrVars == <<inService, term, nextAssignmentOffset, assigned>>
storeVars == <<given, writing, written>>
vars == <<revision, keys, nodeVars, cancelled, running, mgrVars, storeVars, faults>>

Components == {"ManagerService", "EtcdServer"}
Key == [node : Nodes, rev : Nat]
Id == [id : Nat, term : Nat]
Up(n) == pc[n] # "down"
Listening(n) == "ManagerService" \in running[n]     \* the HTTP server of the manager
\* Requests of n to etcd are sure to be answered as long as its own server runs.
Answered(n) == "EtcdServer" \in running[n]
Own(n) == [node |-> n, rev |-> rev[n]]
Kept(k) == Up(k.node) /\ session[k.node] = "live" /\ k.rev = rev[k.node]
Fault == faults < MaxFaults /\ faults' = faults + 1
NoFault == UNCHANGED faults
Goto(n, label) == pc' = [pc EXCEPT ![n] = label]

\* etcd deletes a key, which is there or not.
Delete(k) == /\ keys' = keys \ {k}
             /\ revision' = IF k \in keys THEN revision + 1 ELSE revision
Put(n) == /\ revision' = revision + 1
          /\ rev' = [rev EXCEPT ![n] = revision + 1]
          /\ keys' = keys \cup {[node |-> n, rev |-> revision + 1]}

Init ==
    /\ revision = 0 /\ keys = {} /\ faults = 0
    /\ pc = [n \in Nodes |-> "session"]
    /\ session = [n \in Nodes |-> "none"]
    /\ rev = [n \in Nodes |-> 0]
    /\ cancelled = [n \in Nodes |-> FALSE]
    /\ running = [n \in Nodes |-> Components]
    /\ inService = [n \in Nodes |-> FALSE]
    /\ term = [n \in Nodes |-> 0]
    /\ nextAssignmentOffset = [n \in Nodes |-> 0]
    /\ assigned = [n \in Nodes |-> 0]
    /\ given = {} /\ writing = {} /\ written = [id |-> 0, term |-> 0]

-----------------------------------------------------------------------------
(* elect *)

\* The session is not bound to the context of the process.
NewSession(n) ==
    /\ pc[n] = "session"
    /\ session' = [session EXCEPT ![n] = "live"]
    /\ rev' = [rev EXCEPT ![n] = 0]
    /\ Goto(n, "campaign")
    /\ UNCHANGED <<revision, keys, cancelled, running, mgrVars, storeVars, faults>>

Campaign(n) ==
    /\ pc[n] = "campaign" /\ ~cancelled[n]
    /\ Put(n)
    /\ Goto(n, "wait")
    /\ UNCHANGED <<session, cancelled, running, mgrVars, storeVars, faults>>

\* The transaction returns an error, applied or not.  elect returns without closing
\* its session, which goes on keeping the key alive.
CampaignFails(n) ==
    /\ pc[n] = "campaign"
    /\ (cancelled[n] /\ NoFault) \/ Fault
    /\ Put(n) \/ UNCHANGED <<revision, rev, keys>>
    /\ Goto(n, "done")
    /\ UNCHANGED <<session, cancelled, running, mgrVars, storeVars>>

Elected(n) ==
    /\ pc[n] = "wait" /\ ~cancelled[n]
    /\ \A k \in keys : k.rev >= rev[n]
    /\ Goto(n, "load")
    /\ UNCHANGED <<revision, keys, session, rev, cancelled, running, mgrVars,
                   storeVars, faults>>

\* A Campaign that waits returns when its context is cancelled, but resigns first,
\* which is not bound to any context.  The variant goes on waiting.
BadInterrupted(n) == FALSE
Interrupted(n) == cancelled[n]
WaitCancelled(n) ==
    /\ pc[n] = "wait" /\ Interrupted(n)
    /\ Goto(n, "resign")
    /\ UNCHANGED <<revision, keys, session, rev, cancelled, running, mgrVars,
                   storeVars, faults>>

\* A request that is to delete the key of n: it may fail, as a fault, or because the
\* etcd server of the node is closed.
Release(n) ==
    \/ Delete(Own(n)) /\ NoFault
    \/ UNCHANGED <<revision, keys>> /\ (Fault \/ (~Answered(n) /\ NoFault))

Resign(n) ==
    /\ pc[n] = "resign"
    /\ Release(n)
    /\ Goto(n, "done")
    /\ UNCHANGED <<session, rev, cancelled, running, mgrVars, storeVars>>

\* After another error Campaign leaves its key alone.
WaitFails(n) ==
    /\ pc[n] = "wait" /\ ~cancelled[n] /\ Fault
    /\ Goto(n, "done")
    /\ UNCHANGED <<revision, keys, session, rev, cancelled, running, mgrVars, storeVars>>

\* The term of a manager: what elect passes to SetToInService.
\* The variant counts the terms of this process.
BadTermOf(n) == term[n] + 1
TermOf(n) == rev[n]

\* The workers a manager knew in an earlier term are gone.  The variant keeps them.
BadForget(n) == UNCHANGED assigned
Forget(n) == assigned' = [assigned EXCEPT ![n] = 0]

\* SetToInService loads and enters service, whether or not the session still lives.
EnterService(n) ==
    /\ pc[n] = "load"
    /\ inService' = [inService EXCEPT ![n] = TRUE]
    /\ term' = [term EXCEPT ![n] = TermOf(n)]
    /\ Forget(n)
    /\ Goto(n, "lead")
    /\ UNCHANGED <<revision, keys, session, rev, cancelled, running,
                   nextAssignmentOffset, storeVars, faults>>

\* A load that is cancelled leaves the manager as it was.
LoadCancelled(n) ==
    /\ pc[n] = "load" /\ cancelled[n]
    /\ Goto(n, "lead")
    /\ UNCHANGED <<revision, keys, session, rev, cancelled, running, mgrVars,
                   storeVars, faults>>

\* session.Close: the lease is revoked, unless that fails or takes longer than its TTL.
CloseSession(n) == session' = [session EXCEPT ![n] = "none"] /\ Release(n)

\* The variant forgets SetToOutOfService.
BadOutOfService(n) == UNCHANGED inService
OutOfService(n) == inService' = [inService EXCEPT ![n] = FALSE]

\* After a loss elect campaigns again; the variant returns.
BadAfterLoss == "done"
AfterLoss == "session"
LeaveService(n) ==
    /\ pc[n] = "lead" /\ session[n] = "lost"
    /\ OutOfService(n)
    /\ CloseSession(n)
    /\ Goto(n, AfterLoss)
    /\ UNCHANGED <<rev, cancelled, running, term, nextAssignmentOffset, assigned,
                   storeVars>>

\* The manager is not told: its server is closed for the same reason.
StopLeading(n) ==
    /\ pc[n] = "lead" /\ cancelled[n]
    /\ CloseSession(n)
    /\ Goto(n, "done")
    /\ UNCHANGED <<rev, cancelled, running, mgrVars, storeVars>>

Elect(n) ==
    \/ NewSession(n) \/ Campaign(n) \/ CampaignFails(n) \/ Elected(n)
    \/ WaitCancelled(n) \/ Resign(n) \/ WaitFails(n)
    \/ EnterService(n) \/ LoadCancelled(n) \/ LeaveService(n) \/ StopLeading(n)

-----------------------------------------------------------------------------
(* Sessions, servers and processes *)

\* A key that is no longer kept alive expires; so does one whose node is cut off.
Expire(k) ==
    /\ k \in keys
    /\ (~Kept(k) /\ NoFault) \/ (Kept(k) /\ Fault)
    /\ Delete(k)
    /\ UNCHANGED <<nodeVars, cancelled, running, mgrVars, storeVars>>

\* The client finds out that its lease is gone, or believes so.
LoseSession(n) ==
    /\ pc[n] \in {"wait", "load", "lead"} /\ session[n] = "live"
    /\ (Own(n) \notin keys /\ NoFault) \/ (Own(n) \in keys /\ Fault)
    /\ session' = [session EXCEPT ![n] = "lost"]
    /\ UNCHANGED <<revision, keys, pc, rev, cancelled, running, mgrVars, storeVars>>

Cancel(n) ==
    /\ Up(n) /\ ~cancelled[n] /\ Fault
    /\ cancelled' = [cancelled EXCEPT ![n] = TRUE]
    /\ UNCHANGED <<revision, keys, nodeVars, running, mgrVars, storeVars>>

\* A component is done: it sees that the context is cancelled, or ListenAndServe has
\* failed, which nobody notices.
ComponentDone(n, c) ==
    /\ Up(n) /\ c \in running[n]
    /\ \/ cancelled[n] /\ NoFault
       \/ ~cancelled[n] /\ c = "ManagerService" /\ Fault
    /\ running' = [running EXCEPT ![n] = @ \ {c}]
    /\ UNCHANGED <<revision, keys, nodeVars, cancelled, mgrVars, storeVars>>

\* What the process knew is gone; a checkpoint that is on its way to etcd is not.
Vanish(n) ==
    /\ pc' = [pc EXCEPT ![n] = "down"]
    /\ session' = [session EXCEPT ![n] = "none"]
    /\ rev' = [rev EXCEPT ![n] = 0]
    /\ cancelled' = [cancelled EXCEPT ![n] = FALSE]
    /\ running' = [running EXCEPT ![n] = {}]
    /\ inService' = [inService EXCEPT ![n] = FALSE]
    /\ term' = [term EXCEPT ![n] = 0]
    /\ nextAssignmentOffset' = [nextAssignmentOffset EXCEPT ![n] = 0]
    /\ assigned' = [assigned EXCEPT ![n] = 0]
    /\ UNCHANGED <<revision, keys, storeVars>>

\* main returns when PopService.WaitForShutdownCompletion does: every component it
\* started is done.  The last of them is ShardDiscoveryService, as nothing else depends
\* on when its loop sees that the context is cancelled.
Exit(n) ==
    /\ cancelled[n] /\ pc[n] = "done" /\ running[n] = {}
    /\ Vanish(n) /\ NoFault
Crash(n) == Up(n) /\ Fault /\ Vanish(n)

Restart(n) ==
    /\ pc[n] = "down"
    /\ Goto(n, "session")
    /\ running' = [running EXCEPT ![n] = Components]
    /\ UNCHANGED <<revision, keys, session, rev, cancelled, mgrVars, storeVars, faults>>

Process(n) == \/ LoseSession(n) \/ Cancel(n) \/ Exit(n) \/ Crash(n) \/ Restart(n)
              \/ \E c \in Components : ComponentDone(n, c)

-----------------------------------------------------------------------------
(* The manager of each node and one shard *)

Serves(n) == inService[n] /\ Listening(n)

\* getNextAssignmentID; the variant counts down.
BadNextAssignmentID(n) == term[n] - (nextAssignmentOffset[n] + 1)
NextAssignmentID(n) == term[n] + nextAssignmentOffset[n]

\* The shard is given to a worker, whichever it is.
Assign(n) ==
    LET id == NextAssignmentID(n)
    IN  /\ Serves(n) /\ Cardinality(given) < MaxGiven
        /\ assigned' = [assigned EXCEPT ![n] = id]
        /\ given' = given \cup {[id |-> id, term |-> term[n]]}
        /\ nextAssignmentOffset' = [nextAssignmentOffset EXCEPT ![n] = @ + 1]
        /\ UNCHANGED <<revision, keys, nodeVars, cancelled, running, inService,
                       term, writing, written, faults>>

\* A checkpoint of the owner passes ensureCheckpointOwnership.
Accept(n) ==
    /\ Serves(n) /\ assigned[n] # 0
    /\ Cardinality(writing) < MaxInflight /\ revision < MaxRevision
    /\ writing' = writing \cup {[id |-> assigned[n], term |-> term[n]]}
    /\ UNCHANGED <<revision, keys, nodeVars, cancelled, running, mgrVars, given,
                   written, faults>>

\* etcd applies it unless the token is above its id, as in FencedStore.
\* The variant compares nothing.
BadAdmits(w) == TRUE
Admits(w) == written.id <= w.id
Write(w) ==
    /\ w \in writing /\ Admits(w)
    /\ writing' = writing \ {w}
    /\ written' = w
    /\ revision' = revision + 1
    /\ UNCHANGED <<keys, nodeVars, cancelled, running, mgrVars, given, faults>>

\* It is refused, fails or never gets there.
WriteFails(w) ==
    /\ w \in writing
    /\ writing' = writing \ {w}
    /\ UNCHANGED <<revision, keys, nodeVars, cancelled, running, mgrVars, given,
                   written, faults>>

Next ==
    \/ \E n \in Nodes : Elect(n) \/ Process(n) \/ Assign(n) \/ Accept(n)
    \/ \E k \in keys : Expire(k)
    \/ \E w \in writing : Write(w) \/ WriteFails(w)

Spec == Init /\ [][Next]_vars

\* elect waits for etcd in vain: no context bounds NewSession and Resign, and the server
\* of the node, closed by the same cancellation, does not answer any more.
AwaitsEtcd(n) == ~Answered(n) /\ pc[n] \in {"session", "resign"}

\* elect runs on unless it waits like that; expiries and losses are noticed; components
\* see that the context is cancelled; a process whose components are done exits.
\* Nobody has to restart a process.
Stops(n) == Exit(n) \/ \E c \in Components : ComponentDone(n, c) /\ NoFault
FairSpec ==
    /\ Spec
    /\ \A n \in Nodes : /\ WF_vars(Elect(n) /\ ~AwaitsEtcd(n))
                        /\ WF_vars(LoseSession(n) /\ NoFault)
                        /\ WF_vars(Stops(n))
    /\ WF_vars(\E k \in keys : Expire(k) /\ NoFault)

-----------------------------------------------------------------------------
(* Properties *)

\* Every variable has its type.
TypeOK ==
    /\ revision \in Nat /\ keys \in SUBSET Key /\ faults \in Nat
    /\ pc \in [Nodes -> {"session", "campaign", "wait", "resign", "load", "lead",
                         "done", "down"}]
    /\ session \in [Nodes -> {"none", "live", "lost"}]
    /\ rev \in [Nodes -> Nat] /\ term \in [Nodes -> Nat]
    /\ cancelled \in [Nodes -> BOOLEAN] /\ running \in [Nodes -> SUBSET Components]
    /\ inService \in [Nodes -> BOOLEAN]
    /\ nextAssignmentOffset \in [Nodes -> Nat] /\ assigned \in [Nodes -> Nat]
    /\ given \in SUBSET Id /\ writing \in SUBSET Id /\ written \in Id

\* Two managers may be in service at a time, since a lost session is noticed late and
\* a candidate does not look for its own key.  But the one that holds the oldest key
\* has the highest term of all of them (comment at manager_service.go:65).
Holder(n) == inService[n] /\ Own(n) \in keys /\ session[n] = "live"
LeaderIsNewest ==
    \A n, m \in Nodes : Holder(n) /\ inService[m] /\ m # n => term[m] < term[n]

\* The owner that the newest manager appointed is not refused by the fencing token.
Newest(n) == inService[n] /\ \A g \in given : g.term <= term[n]
OwnerAdmitted ==
    \A n \in Nodes : Newest(n) /\ assigned[n] # 0 => written.id <= assigned[n]

\* What the addition of term and offset needs: no manager has given as many ids as
\* there are revisions up to the next term.
TermsApart == \A g, h \in given : g.term < h.term => g.id < h.term

\* As long as the ids of different terms are apart, the owner is admitted.
OwnerAdmittedApart == TermsApart => OwnerAdmitted

\* And as long as they are, no owner of an older term writes its progress over that
\* of a newer one, in whichever order requests of several managers reach etcd.
FencedInTermOrder == [][TermsApart' => written.term <= written'.term]_written

\* A manager that has lost its session leaves service.
LeavesWhenStale(n) == inService[n] /\ session[n] = "lost" ~> ~inService[n]

\* In the end somebody leads and can be reached, unless a node keeps its key alive that
\* gave up campaigning (leader.go:59), has no server or waits for etcd in vain, or
\* nobody is left that campaigns.
Leads(n) == Holder(n) /\ Listening(n)
Blocks(n) == /\ Own(n) \in keys /\ session[n] = "live"
             /\ pc[n] = "done" \/ ~Listening(n) \/ AwaitsEtcd(n)
GaveUp(n) == pc[n] = "done" /\ session[n] = "live"
EventuallyLed ==
    <>[](\/ \E n \in Nodes : Leads(n) \/ Blocks(n)
         \/ \A n \in Nodes : ~Up(n) \/ GaveUp(n) \/ AwaitsEtcd(n))

\* A process that is told to stop comes to an end, all of its components done, wherever
\* its election is: only NewSession (leader.go:44) and the Resign of Campaign may keep
\* it, for the etcd server that the same cancellation closes (etcd_server.go:78).
ShutsDown(n) == cancelled[n] ~> ~Up(n) \/ AwaitsEtcd(n)
=============================================================================
