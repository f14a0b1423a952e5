---------------------------- MODULE ShardProcessor ----------------------------
(***************************************************************************)
(* ShardProcessor (consumer/shard_processor.go): one goroutine per         *)
(* assigned shard that subscribes, hands records to the application and    *)
(* sends checkpoints; with what it sees of Kinesis and of the managers.    *)
(*                                                                         *)
(* Sequence numbers are positions 1, 2, ...; 0 is the empty string, and as *)
(* the position of an assignment LATEST.  A subscription that cannot be    *)
(* made is tried again and changes nothing, so it is no action.            *)
(***************************************************************************)
EXTENDS Integers, FiniteSets

CONSTANTS
    Shards,
    UrlCount,       \* managers, which are 0, 1, ...
    Procs,          \* heap objects of type ShardProcessor
    Closable,       \* shards that come to an end
    MaxTip,         \* bound: records of a shard
    MaxFaults       \* bound: lost or hung requests and replies, and changes of managers

ASSUME ProcessorAssumption ==
    /\ Shards # {} /\ Closable \subseteq Shards /\ UrlCount \in Nat \ {0}
    /\ MaxTip \in Nat \ {0} /\ MaxFaults \in Nat

VARIABLES
    phase, stop,    \* where the goroutine of each object is; its stop channel is closed
    procs,          \* the other fields and local variables of each object
    leader,         \* the manager that is in service
    assigned,       \* shard -> id by which the leader has given it to this worker
    requested,      \* shards the leader wants back (ReassignmentRequest)
    recorded,       \* the checkpoint of each shard in etcd
    tip, ended,     \* the last record of each shard that matters so far; shards that
                    \* were resharded, which get no more
    handled,        \* history: how far the application got all records of a shard
    faults

mgrVars == <<leader, assigned, requested>>
streamVars == <<tip, ended>>
processorVars == <<phase, stop, procs, recorded, handled, faults>>

Urls == 0..(UrlCount - 1)
Closed == MaxTip + 1            \* the sequence number "CLOSED"
Positions == 0..MaxTip
Phases == {"new", "subscribe", "reading", "sending", "hung", "retry", "idle",
           "done"}
Processor == [shard : Shards, id : Nat, url : Urls,
              from : Positions,     \* assignment.SequenceNumber
              sn : Positions,       \* sn of handleSubscription, sequenceNumber of Start
              cursor : Positions,   \* up to where the subscription has delivered
              closed : BOOLEAN]
NewProcessor(s, id, from, url) == [shard |-> s, id |-> id, url |-> url, from |-> from,
                                   sn |-> 0, cursor |-> 0, closed |-> FALSE]
Unused == NewProcessor(CHOOSE s \in Shards : TRUE, 0, 0, 0)

Fault == faults < MaxFaults /\ faults' = faults + 1
Goto(p, label) == phase' = [phase EXCEPT ![p] = label]

\* A processor that does not read any more waits for its stop.
GoIdle(p) ==
    /\ Goto(p, "idle")
    /\ procs' = [procs EXCEPT ![p].from = 0, ![p].sn = 0, ![p].cursor = 0,
                              ![p].closed = FALSE]

InitProcessors ==
    /\ phase = [p \in Procs |-> "done"] /\ stop = [p \in Procs |-> FALSE]
    /\ procs = [p \in Procs |-> Unused]
    /\ assigned = [s \in Shards |-> 0] /\ requested = {}
    /\ recorded = [s \in Shards |-> 0]
    /\ tip = [s \in Shards |-> 1] /\ ended = {}
    /\ handled = tip /\ faults = 0

-----------------------------------------------------------------------------
(* Start and handleSubscription *)

\* After the last event of the subscription before, or as the assignment says; at
\* LATEST any number of records may have come that nobody reads.
Start(p) == IF procs[p].sn # 0 THEN procs[p].sn ELSE procs[p].from
Latest(s) == IF s \in ended THEN {tip[s]} ELSE tip[s]..MaxTip
Above(n, m) == IF n > m THEN n ELSE m

Subscribe(p, at) ==
    LET s == procs[p].shard
    IN  /\ phase[p] = "subscribe" /\ ~stop[p]
        /\ at \in IF Start(p) = 0 THEN Latest(s) ELSE {Start(p)}
        /\ Goto(p, "reading")
        /\ procs' = [procs EXCEPT ![p].sn = 0, ![p].cursor = at]
        /\ tip' = [tip EXCEPT ![s] = Above(@, at)]
        /\ handled' = IF recorded[s] = 0 THEN [handled EXCEPT ![s] = Above(@, at)]
                      ELSE handled
        /\ UNCHANGED <<mgrVars, stop, ended, recorded, faults>>

\* The subscription ends, as each does after some minutes.
StreamEnds(p) ==
    /\ phase[p] = "reading"
    /\ Goto(p, "subscribe")
    /\ procs' = [procs EXCEPT ![p].cursor = 0]
    /\ UNCHANGED <<mgrVars, streamVars, stop, recorded, handled, faults>>

\* An event with a record or none; the last one of a shard that was resharded has no
\* continuation, and its sequence number is not sent.  due: the checkpoint interval
\* is over.
Event(p, cursor, due) ==
    LET s == procs[p].shard
        closed == s \in ended /\ cursor = tip[s]
    IN  /\ phase[p] = "reading"
        /\ cursor \in {procs[p].cursor, procs[p].cursor + 1}
        /\ cursor <= tip[s] \/ s \notin ended
        /\ closed => due
        /\ Goto(p, IF due THEN "sending" ELSE "reading")
        /\ procs' = [procs EXCEPT
              ![p].cursor = cursor, ![p].closed = closed,
              ![p].sn = IF closed THEN 0 ELSE cursor,
              ![p].from = IF closed THEN 0 ELSE @]
        /\ tip' = [tip EXCEPT ![s] = Above(@, cursor)]
        /\ handled' = IF cursor = handled[s] + 1
                      THEN [handled EXCEPT ![s] = cursor] ELSE handled
        /\ UNCHANGED <<mgrVars, stop, ended, recorded, faults>>

\* The select takes the stop, which in Start it also finds before it subscribes.
StopSeen(p) ==
    /\ stop[p] /\ phase[p] \in {"subscribe", "reading", "idle"}
    /\ Goto(p, "done")
    /\ stop' = [stop EXCEPT ![p] = FALSE] /\ procs' = [procs EXCEPT ![p] = Unused]
    /\ UNCHANGED <<mgrVars, streamVars, recorded, handled, faults>>

-----------------------------------------------------------------------------
(* checkpoint *)

\* Whether a reply lets the processor read on.  The variant asks only for the end of
\* the shard.
BadReadsOn(p, reply) == ~procs[p].closed
ReadsOn(p, reply) == reply = "ok" /\ ~procs[p].closed

\* A manager that is not in service says so or is dead.  The leader records the
\* checkpoint of the owner, and refuses the others and an owner that is to hand over;
\* the reply may be lost.  There may also be none: the request has no timeout and does
\* not look at the stop, so that a processor whose manager hangs is stuck.
Answer(p, reply) ==
    LET s == procs[p].shard
        owner == procs[p].url = leader /\ assigned[s] = procs[p].id
    IN  /\ phase[p] = "sending"
        /\ IF procs[p].url # leader
           THEN reply # "ok" /\ IF reply = "none" THEN Fault ELSE UNCHANGED faults
           ELSE IF reply \in {"error", "none"} THEN Fault
           ELSE /\ (reply = "refused") = (~owner \/ s \in requested)
                /\ UNCHANGED faults
        /\ recorded' = IF owner
                       THEN [recorded EXCEPT ![s] = IF procs[p].closed THEN Closed
                                                    ELSE procs[p].sn]
                       ELSE recorded
        /\ \/ reply = "error" /\ Goto(p, "retry") /\ UNCHANGED procs
           \/ reply = "none" /\ Goto(p, "hung") /\ UNCHANGED procs
           \/ /\ reply \in {"ok", "refused"} /\ ReadsOn(p, reply)
              /\ Goto(p, "reading") /\ UNCHANGED procs
           \/ reply \in {"ok", "refused"} /\ ~ReadsOn(p, reply) /\ GoIdle(p)
        /\ UNCHANGED <<mgrVars, streamVars, stop, handled>>

\* The request never reached the leader, which the processor finds out or not.
Lost(p) ==
    /\ phase[p] = "sending" /\ procs[p].url = leader
    /\ Fault
    /\ Goto(p, "retry") \/ Goto(p, "hung")
    /\ UNCHANGED <<mgrVars, streamVars, stop, procs, recorded, handled>>

\* The timer fires.
Retry(p) ==
    /\ phase[p] = "retry"
    /\ Goto(p, "sending")
    /\ UNCHANGED <<mgrVars, streamVars, stop, procs, recorded, handled, faults>>

\* Or the stop ends the attempts; the variant ignores it.
BadStops(p) == FALSE
Stops(p) == stop[p]
GivesUp(p) ==
    /\ phase[p] = "retry" /\ Stops(p)
    /\ GoIdle(p)
    /\ UNCHANGED <<mgrVars, streamVars, stop, recorded, handled, faults>>

Checkpoint(p) == \E reply \in {"ok", "refused", "error", "none"} : Answer(p, reply)
Subscribes(p) == \E at \in Positions : Subscribe(p, at)
Events(p, due) == \E cursor \in Positions : Event(p, cursor, due)
ProcessorStep(p) ==
    \/ Subscribes(p) \/ StreamEnds(p) \/ Events(p, TRUE) \/ Events(p, FALSE)
    \/ StopSeen(p) \/ Checkpoint(p) \/ Lost(p) \/ Retry(p) \/ GivesUp(p)

\* Kinesis: the shard is split or merged; its last record is one nobody may have seen.
Reshard(s, last) ==
    /\ s \in Closable \ ended /\ last \in Latest(s)
    /\ ended' = ended \cup {s} /\ tip' = [tip EXCEPT ![s] = last]
    /\ UNCHANGED <<mgrVars, processorVars>>
Resharding == \E s \in Shards, last \in Positions : Reshard(s, last)

-----------------------------------------------------------------------------
\* What the manager recorded, the application has got: after a failure or a restart,
\* and when a subscription is renewed, reading goes on from the last known position
\* (README.md, Checkpointing).
NothingSkipped ==
    \A p \in Procs : phase[p] = "reading" /\ recorded[procs[p].shard] # 0
        => procs[p].cursor <= handled[procs[p].shard]
=============================================================================
