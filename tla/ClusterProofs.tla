---------------------------- MODULE ClusterProofs ----------------------------
(***************************************************************************)
(* What is proved of Cluster for any number of nodes, faults and ids: the  *)
(* types, that terms order the managers that are in service at a time, and *)
(* what the fencing token guarantees as long as the ids of different terms *)
(* are apart.                                                              *)
(***************************************************************************)
EXTENDS Cluster, TLAPS

-----------------------------------------------------------------------------
(* Types *)

\* Nothing runs yet.
LEMMA InitType == Init => TypeOK
BY DEF Init, TypeOK, Key, Id

\* Every step of elect keeps the types.
LEMMA ElectType ==
    ASSUME TypeOK, NEW n \in Nodes, Elect(n)
    PROVE  TypeOK'
<1> USE DEF TypeOK, Key, Id, Goto, NoFault, Fault, mgrVars, storeVars, nodeVars
<1>1. CASE NewSession(n)
    BY <1>1 DEF NewSession
<1>2. CASE Campaign(n)
    BY <1>2 DEF Campaign, Put
<1>3. CASE CampaignFails(n)
    BY <1>3 DEF CampaignFails, Put
<1>4. CASE Elected(n)
    BY <1>4 DEF Elected
<1>5. CASE WaitFails(n)
    BY <1>5 DEF WaitFails
<1>6. CASE EnterService(n)
    BY <1>6 DEF EnterService, TermOf, Forget
<1>7. CASE LoadCancelled(n)
    BY <1>7 DEF LoadCancelled
<1>8. CASE LeaveService(n)
    <2>1. keys' \in SUBSET Key /\ revision' \in Nat /\ faults' \in Nat
        BY <1>8 DEF LeaveService, CloseSession, Release, Delete
    <2> QED
        BY <1>8, <2>1 DEF LeaveService, OutOfService, CloseSession, AfterLoss
<1>9. CASE StopLeading(n)
    <2>1. keys' \in SUBSET Key /\ revision' \in Nat /\ faults' \in Nat
        BY <1>9 DEF StopLeading, CloseSession, Release, Delete
    <2> QED
        BY <1>9, <2>1 DEF StopLeading, CloseSession
<1>10. CASE WaitCancelled(n)
    BY <1>10 DEF WaitCancelled
<1>11. CASE Resign(n)
    <2>1. keys' \in SUBSET Key /\ revision' \in Nat /\ faults' \in Nat
        BY <1>11 DEF Resign, Release, Delete
    <2> QED
        BY <1>11, <2>1 DEF Resign
<1> QED
    BY <1>1, <1>2, <1>3, <1>4, <1>5, <1>6, <1>7, <1>8, <1>9, <1>10, <1>11 DEF Elect

\* So does every other step.
LEMMA NextType == TypeOK /\ [Next]_vars => TypeOK'
<1> SUFFICES ASSUME TypeOK, [Next]_vars PROVE TypeOK'
    OBVIOUS
<1> USE DEF TypeOK, Key, Id, Goto, NoFault, Fault, mgrVars, storeVars, nodeVars
<1>1. ASSUME NEW n \in Nodes, Process(n)
      PROVE  TypeOK'
    <2>1. CASE LoseSession(n)
        BY <2>1 DEF LoseSession
    <2>2. CASE Cancel(n)
        BY <2>2 DEF Cancel
    <2>4. ASSUME NEW c \in Components, ComponentDone(n, c)
          PROVE  TypeOK'
        BY <2>4 DEF ComponentDone
    <2>5. CASE Restart(n)
        BY <2>5 DEF Restart
    <2>3. CASE Exit(n) \/ Crash(n)
        <3>1. faults' \in Nat /\ Vanish(n)
            BY <2>3 DEF Exit, Crash
        <3>2. /\ pc' \in [Nodes -> {"session", "campaign", "wait", "resign",
                                    "load", "lead", "done", "down"}]
              /\ session' \in [Nodes -> {"none", "live", "lost"}]
              /\ rev' \in [Nodes -> Nat] /\ term' \in [Nodes -> Nat]
            BY <3>1 DEF Vanish
        <3>3. /\ cancelled' \in [Nodes -> BOOLEAN]
              /\ running' \in [Nodes -> SUBSET Components]
              /\ inService' \in [Nodes -> BOOLEAN]
            BY <3>1 DEF Vanish
        <3>4. /\ nextAssignmentOffset' \in [Nodes -> Nat]
              /\ assigned' \in [Nodes -> Nat]
            BY <3>1 DEF Vanish
        <3> QED
            BY <3>1, <3>2, <3>3, <3>4 DEF Vanish
    <2> QED
        BY <1>1, <2>1, <2>2, <2>3, <2>4, <2>5 DEF Process
<1>2. ASSUME NEW n \in Nodes, Assign(n) \/ Accept(n)
      PROVE  TypeOK'
    BY <1>2 DEF Assign, Accept, NextAssignmentID
<1>3. ASSUME NEW k \in keys, Expire(k)
      PROVE  TypeOK'
    BY <1>3 DEF Expire, Delete
<1>4. ASSUME NEW w \in writing, Write(w) \/ WriteFails(w)
      PROVE  TypeOK'
    BY <1>4 DEF Write, WriteFails
<1>5. CASE UNCHANGED vars
    BY <1>5 DEF vars
<1> QED
    BY ElectType, <1>1, <1>2, <1>3, <1>4, <1>5 DEF Next

\* Every variable of Cluster keeps its type.
THEOREM TypeCorrect == Spec => []TypeOK
BY InitType, NextType, PTL DEF Spec

-----------------------------------------------------------------------------
(* The election *)

\* Revisions are handed out once.
RevisionInv ==
    /\ \A k \in keys : k.rev <= revision
    /\ \A n \in Nodes : rev[n] <= revision
    /\ \A n, m \in Nodes : n # m /\ rev[n] = rev[m] => rev[n] = 0

\* A candidate that was elected has no older key before it, and as keys only get
\* younger it never will; the manager takes its term from it.
ElectionInv ==
    \A n \in Nodes :
        /\ pc[n] = "wait" => rev[n] > 0
        /\ pc[n] \in {"load", "lead"} =>
              rev[n] > 0 /\ \A k \in keys : k.rev >= rev[n]
        /\ inService[n] =>
              /\ term[n] = rev[n] /\ rev[n] > 0
              /\ pc[n] = "lead" \/ (pc[n] = "done" /\ session[n] = "none")
              /\ \A k \in keys : k.rev >= term[n]

ElectInv == TypeOK /\ RevisionInv /\ ElectionInv

\* Nobody has campaigned yet.
LEMMA InitElect == Init => ElectInv
BY InitType DEF Init, ElectInv, RevisionInv, ElectionInv

\* A step that gives no node a new revision and adds no key keeps the revisions.
LEMMA KeysShrink ==
    ASSUME TypeOK, RevisionInv, keys' \subseteq keys, revision' \in Nat,
           revision' >= revision,
           \A n \in Nodes : rev'[n] = rev[n] \/ rev'[n] = 0
    PROVE  RevisionInv'
<1>1. \A k \in keys : k.rev \in Nat
    BY DEF TypeOK, Key
<1> QED
    BY <1>1 DEF TypeOK, RevisionInv

\* The steps of elect: a key is put with a revision above all there are, and its node
\* is elected when it is the oldest.
LEMMA ElectStep ==
    ASSUME ElectInv, NEW n \in Nodes, Elect(n)
    PROVE  RevisionInv' /\ ElectionInv'
<1> USE DEF ElectInv, Goto, mgrVars, storeVars
<1>0. \A k \in keys : k.rev \in Nat
    BY DEF TypeOK, Key
<1>1. CASE NewSession(n)
    <2>1. RevisionInv'
        BY <1>1, KeysShrink DEF NewSession, TypeOK
    <2>2. ElectionInv'
        BY <1>1 DEF NewSession, ElectionInv, TypeOK
    <2> QED
        BY <2>1, <2>2
<1>2. ASSUME Put(n), UNCHANGED mgrVars, UNCHANGED session,
             pc[n] = "campaign", pc' = [pc EXCEPT ![n] = "wait"]
                                 \/ pc' = [pc EXCEPT ![n] = "done"]
      PROVE  RevisionInv' /\ ElectionInv'
    <2>1. RevisionInv'
        BY <1>0, <1>2 DEF Put, RevisionInv, TypeOK
    <2>2. ElectionInv'
        BY <1>0, <1>2 DEF Put, RevisionInv, ElectionInv, TypeOK
    <2> QED
        BY <2>1, <2>2
<1>3. CASE Campaign(n)
    BY <1>2, <1>3 DEF Campaign
<1>4. CASE CampaignFails(n)
    <2>1. CASE UNCHANGED <<revision, rev, keys>>
        BY <1>4, <2>1 DEF CampaignFails, RevisionInv, ElectionInv, TypeOK
    <2> QED
        BY <1>2, <1>4, <2>1 DEF CampaignFails
<1>5. CASE Elected(n)
    BY <1>0, <1>5 DEF Elected, RevisionInv, ElectionInv, TypeOK
<1>6. CASE WaitCancelled(n) \/ Resign(n) \/ WaitFails(n)
    <2>1. keys' \subseteq keys /\ revision' \in Nat /\ revision' >= revision
        BY <1>6 DEF WaitCancelled, Resign, Release, WaitFails, Delete, TypeOK
    <2>2. RevisionInv'
        BY <1>6, <2>1, KeysShrink DEF WaitCancelled, Resign, WaitFails
    <2> QED
        BY <1>6, <2>1, <2>2 DEF WaitCancelled, Resign, WaitFails, ElectionInv, TypeOK
<1>7. CASE EnterService(n) \/ LoadCancelled(n)
    BY <1>7 DEF EnterService, LoadCancelled, TermOf, RevisionInv, ElectionInv, TypeOK
<1>8. CASE LeaveService(n) \/ StopLeading(n)
    <2>1. keys' \subseteq keys /\ revision' \in Nat /\ revision' >= revision
        BY <1>8 DEF LeaveService, StopLeading, CloseSession, Release, Delete, TypeOK
    <2>2. RevisionInv'
        BY <1>8, <2>1, KeysShrink DEF LeaveService, StopLeading
    <2>3. ElectionInv'
        BY <1>8, <2>1 DEF LeaveService, StopLeading, CloseSession, OutOfService,
                          AfterLoss, ElectionInv, TypeOK
    <2> QED
        BY <2>2, <2>3
<1> QED
    BY <1>1, <1>3, <1>4, <1>5, <1>6, <1>7, <1>8 DEF Elect

\* No step of a node, a process or etcd disturbs the order of keys and terms.
LEMMA NextElect == ElectInv /\ [Next]_vars => ElectInv'
<1> SUFFICES ASSUME ElectInv, [Next]_vars PROVE RevisionInv' /\ ElectionInv'
    BY NextType DEF ElectInv
<1> USE DEF ElectInv, nodeVars, mgrVars, storeVars
<1>1. ASSUME NEW n \in Nodes, Process(n)
      PROVE  RevisionInv' /\ ElectionInv'
    <2>1. CASE Exit(n) \/ Crash(n)
        <3>1. RevisionInv'
            BY <2>1, KeysShrink DEF Exit, Crash, Vanish, TypeOK
        <3> QED
            BY <2>1, <3>1 DEF Exit, Crash, Vanish, ElectionInv, TypeOK
    <2>2. CASE LoseSession(n)
        BY <2>2 DEF LoseSession, RevisionInv, ElectionInv, TypeOK
    <2>3. CASE Cancel(n) \/ \E c \in Components : ComponentDone(n, c)
        BY <2>3 DEF Cancel, ComponentDone, RevisionInv, ElectionInv
    <2>4. CASE Restart(n)
        BY <2>4 DEF Restart, Goto, RevisionInv, ElectionInv, TypeOK
    <2> QED
        BY <1>1, <2>1, <2>2, <2>3, <2>4 DEF Process
<1>2. ASSUME NEW k \in keys, Expire(k)
      PROVE  RevisionInv' /\ ElectionInv'
    <2>1. keys' \subseteq keys /\ revision' \in Nat /\ revision' >= revision
        BY <1>2 DEF Expire, Delete, TypeOK
    <2>2. RevisionInv'
        BY <1>2, <2>1, KeysShrink DEF Expire
    <2> QED
        BY <1>2, <2>1, <2>2 DEF Expire, ElectionInv
<1>3. ASSUME UNCHANGED <<keys, nodeVars, inService, term>>,
             revision' \in Nat, revision' >= revision
      PROVE  RevisionInv' /\ ElectionInv'
    <2>1. RevisionInv'
        BY <1>3, KeysShrink
    <2> QED
        BY <1>3, <2>1 DEF ElectionInv
<1>4. ASSUME NEW n \in Nodes, Assign(n) \/ Accept(n)
      PROVE  RevisionInv' /\ ElectionInv'
    BY <1>3, <1>4 DEF Assign, Accept, TypeOK
<1>5. ASSUME NEW w \in writing, Write(w) \/ WriteFails(w)
      PROVE  RevisionInv' /\ ElectionInv'
    BY <1>3, <1>5 DEF Write, WriteFails, TypeOK
<1>6. CASE UNCHANGED vars
    BY <1>3, <1>6 DEF vars, TypeOK
<1> QED
    BY ElectStep, <1>1, <1>2, <1>4, <1>5, <1>6 DEF Next

\* The manager that holds the oldest key has the highest term of those in service,
\* however late the others notice that they no longer lead.
THEOREM LeaderHasNewestTerm == Spec => []LeaderIsNewest
<1>1. ElectInv => LeaderIsNewest
    BY DEF ElectInv, RevisionInv, ElectionInv, LeaderIsNewest, Holder, Own, TypeOK
<1> QED
    BY <1>1, InitElect, NextElect, PTL DEF Spec

-----------------------------------------------------------------------------
(* The ids *)

\* Ids are at least their term; those of a manager in service are below its next
\* one and not above the one that counts; a manager that is not in service yet has
\* given none of its next term.
GivenInv ==
    /\ \A g \in given : g.term <= g.id /\ g.term <= revision /\ g.term > 0
    /\ \A n \in Nodes :
          /\ pc[n] \in {"wait", "load"} => \A g \in given : g.term # rev[n]
          /\ inService[n] =>
                /\ \A g \in given : g.term = term[n] => g.id < NextAssignmentID(n)
                /\ assigned[n] # 0 =>
                      /\ [id |-> assigned[n], term |-> term[n]] \in given
                      /\ \A g \in given : g.term = term[n] => g.id <= assigned[n]

\* What reaches etcd was given before.
StoreInv == writing \subseteq given
            /\ (written \in given \/ written = [id |-> 0, term |-> 0])

IdInv == ElectInv /\ GivenInv /\ StoreInv

\* No id was given yet.
LEMMA InitId == Init => IdInv
BY InitElect DEF Init, IdInv, GivenInv, StoreInv

\* Steps that leave the store alone and bring no manager into service.
LEMMA NoIdStep ==
    ASSUME IdInv, UNCHANGED storeVars, revision' \in Nat, revision' >= revision,
           \A n \in Nodes :
              /\ pc'[n] \in {"wait", "load"} =>
                    \/ pc[n] \in {"wait", "load"} /\ rev'[n] = rev[n]
                    \/ rev'[n] > revision
              /\ inService'[n] =>
                    /\ inService[n] /\ term'[n] = term[n]
                    /\ nextAssignmentOffset'[n] = nextAssignmentOffset[n]
                    /\ assigned'[n] = assigned[n]
    PROVE  GivenInv' /\ StoreInv'
<1>1. \A g \in given : g.term \in Nat /\ g.id \in Nat
    BY DEF IdInv, ElectInv, TypeOK, Id
<1>2. given' = given /\ writing' = writing /\ written' = written
    BY DEF storeVars
<1>3. StoreInv'
    BY <1>2 DEF IdInv, StoreInv
<1>4. ASSUME NEW g \in given
      PROVE  g.term <= g.id /\ g.term <= revision' /\ g.term > 0
    BY <1>1 DEF IdInv, GivenInv, ElectInv, TypeOK
<1>5. ASSUME NEW n \in Nodes, pc'[n] \in {"wait", "load"}, NEW g \in given
      PROVE  g.term # rev'[n]
    <2>1. g.term <= revision /\ revision \in Nat
        BY DEF IdInv, GivenInv, ElectInv, TypeOK
    <2>2. CASE rev'[n] > revision
        BY <1>1, <2>1, <2>2
    <2>3. CASE pc[n] \in {"wait", "load"} /\ rev'[n] = rev[n]
        BY <2>3 DEF IdInv, GivenInv
    <2> QED
        BY <1>5, <2>2, <2>3
<1>6. ASSUME NEW n \in Nodes, inService'[n]
      PROVE  /\ \A g \in given : g.term = term'[n] => g.id < NextAssignmentID(n)'
             /\ assigned'[n] # 0 =>
                   /\ [id |-> assigned'[n], term |-> term'[n]] \in given
                   /\ \A g \in given : g.term = term'[n] => g.id <= assigned'[n]
    BY <1>6 DEF IdInv, GivenInv, NextAssignmentID
<1> QED
    BY <1>2, <1>3, <1>4, <1>5, <1>6 DEF GivenInv

\* Ids are given upward within a term, and tokens follow the ids.
LEMMA NextId == IdInv /\ [Next]_vars => IdInv'
<1> SUFFICES ASSUME IdInv, [Next]_vars PROVE GivenInv' /\ StoreInv'
    BY NextElect DEF IdInv
<1> USE DEF nodeVars, mgrVars, Goto
<1>0. TypeOK /\ \A g \in given : g.term \in Nat /\ g.id \in Nat
    BY DEF IdInv, ElectInv, TypeOK, Id
<1>1. ASSUME NEW n \in Nodes, EnterService(n)
      PROVE  GivenInv' /\ StoreInv'
    <2>1. given' = given /\ writing' = writing /\ written' = written
          /\ revision' = revision
        BY <1>1 DEF EnterService, storeVars
    <2>2. StoreInv'
        BY <2>1 DEF IdInv, StoreInv
    <2>3. ASSUME NEW g \in given
          PROVE  g.term # rev[n]
        BY <1>1 DEF EnterService, IdInv, GivenInv
    <2>4. GivenInv'
        BY <1>0, <1>1, <2>1, <2>3 DEF EnterService, TermOf, Forget, IdInv, GivenInv,
                                      NextAssignmentID, TypeOK
    <2> QED
        BY <2>2, <2>4
<1>2. ASSUME NEW n \in Nodes, Elect(n), ~EnterService(n)
      PROVE  GivenInv' /\ StoreInv'
    <2>1. UNCHANGED storeVars /\ revision' \in Nat /\ revision' >= revision
        BY <1>0, <1>2 DEF Elect, NewSession, Campaign, CampaignFails, Elected,
           WaitCancelled, Resign, WaitFails, LoadCancelled, LeaveService, StopLeading,
           CloseSession, Release, Put, Delete, TypeOK
    <2>2. ASSUME NEW m \in Nodes, pc'[m] \in {"wait", "load"}
          PROVE  \/ pc[m] \in {"wait", "load"} /\ rev'[m] = rev[m]
                 \/ rev'[m] > revision
        BY <1>0, <1>2, <2>2 DEF Elect, NewSession, Campaign, CampaignFails, Elected,
           WaitCancelled, Resign, WaitFails, LoadCancelled, LeaveService, StopLeading,
           Put, AfterLoss, TypeOK
    <2>3. ASSUME NEW m \in Nodes, inService'[m]
          PROVE  /\ inService[m] /\ term'[m] = term[m]
                 /\ nextAssignmentOffset'[m] = nextAssignmentOffset[m]
                 /\ assigned'[m] = assigned[m]
        BY <1>0, <1>2, <2>3 DEF Elect, NewSession, Campaign, CampaignFails, Elected,
           WaitCancelled, Resign, WaitFails, LoadCancelled, LeaveService, StopLeading,
           OutOfService, TypeOK
    <2> QED
        BY <2>1, <2>2, <2>3, NoIdStep
<1>3. ASSUME NEW n \in Nodes, Process(n)
      PROVE  GivenInv' /\ StoreInv'
    <2>1. UNCHANGED <<storeVars, revision>>
        BY <1>3 DEF Process, LoseSession, Cancel, ComponentDone, Exit, Crash, Vanish,
                    Restart
    <2>2. \A m \in Nodes : pc'[m] \in {"wait", "load"} =>
                              pc[m] \in {"wait", "load"} /\ rev'[m] = rev[m]
        BY <1>0, <1>3 DEF Process, LoseSession, Cancel, ComponentDone, Exit, Crash,
                          Vanish, Restart, TypeOK
    <2>3. \A m \in Nodes : inService'[m] =>
             /\ inService[m] /\ term'[m] = term[m]
             /\ nextAssignmentOffset'[m] = nextAssignmentOffset[m]
             /\ assigned'[m] = assigned[m]
        BY <1>0, <1>3 DEF Process, LoseSession, Cancel, ComponentDone, Exit, Crash,
                          Vanish, Restart, TypeOK
    <2> QED
        BY <1>0, <2>1, <2>2, <2>3, NoIdStep DEF TypeOK
<1>4. ASSUME NEW n \in Nodes, Assign(n)
      PROVE  GivenInv' /\ StoreInv'
    <2> DEFINE g0 == [id |-> NextAssignmentID(n), term |-> term[n]]
    <2>1. /\ inService[n] /\ given' = given \cup {g0}
          /\ assigned' = [assigned EXCEPT ![n] = g0.id]
          /\ nextAssignmentOffset' = [nextAssignmentOffset EXCEPT ![n] = @ + 1]
          /\ UNCHANGED <<revision, pc, rev, inService, term, writing, written>>
        BY <1>4 DEF Assign, Serves
    <2>2. StoreInv'
        BY <2>1 DEF IdInv, StoreInv
    <2>3. term[n] = rev[n] /\ term[n] > 0 /\ term[n] <= revision /\ term[n] \in Nat
        BY <1>0, <2>1 DEF IdInv, ElectInv, ElectionInv, RevisionInv, TypeOK
    <2>4. \A g \in given' : g.term <= g.id /\ g.term <= revision' /\ g.term > 0
        BY <1>0, <2>1, <2>3 DEF IdInv, GivenInv, NextAssignmentID, TypeOK
    <2>5. ASSUME NEW m \in Nodes, pc'[m] \in {"wait", "load"}, NEW g \in given'
          PROVE  g.term # rev'[m]
        <3>1. pc[m] \in {"wait", "load"} /\ rev'[m] = rev[m]
            BY <2>1, <2>5
        <3>2. m # n
            BY <2>1, <3>1 DEF IdInv, ElectInv, ElectionInv
        <3>3. rev[m] # term[n]
            BY <2>3, <3>2 DEF IdInv, ElectInv, RevisionInv
        <3>4. CASE g \in given
            BY <3>1, <3>4 DEF IdInv, GivenInv
        <3> QED
            BY <2>1, <3>1, <3>3, <3>4
    <2>6. ASSUME NEW m \in Nodes, inService'[m]
          PROVE  /\ \A g \in given' : g.term = term'[m] => g.id < NextAssignmentID(m)'
                 /\ assigned'[m] # 0 =>
                       /\ [id |-> assigned'[m], term |-> term'[m]] \in given'
                       /\ \A g \in given' : g.term = term'[m] => g.id <= assigned'[m]
        <3>1. CASE m = n
            <4>1. /\ assigned'[m] = g0.id /\ term'[m] = term[n] /\ g0 \in given'
                  /\ NextAssignmentID(m)' = g0.id + 1 /\ g0.id \in Nat
                BY <1>0, <2>1, <3>1 DEF NextAssignmentID, TypeOK
            <4>2. \A g \in given : g.term = term[n] => g.id < g0.id
                BY <2>1 DEF IdInv, GivenInv
            <4>3. \A g \in given' : g.term = term[n] => g.id <= g0.id /\ g.id \in Nat
                BY <1>0, <2>1, <4>1, <4>2
            <4> QED
                BY <4>1, <4>3
        <3>2. CASE m # n
            <4>1. term[m] # term[n]
                BY <1>0, <2>1, <2>3, <2>6, <3>2 DEF IdInv, ElectInv, ElectionInv,
                                                    RevisionInv
            <4> QED
                BY <1>0, <2>1, <2>6, <3>2, <4>1 DEF IdInv, GivenInv,
                                                    NextAssignmentID, TypeOK
        <3> QED
            BY <3>1, <3>2
    <2> QED
        BY <2>2, <2>4, <2>5, <2>6 DEF GivenInv
<1>5. ASSUME NEW n \in Nodes, Accept(n)
      PROVE  GivenInv' /\ StoreInv'
    <2>1. [id |-> assigned[n], term |-> term[n]] \in given
        BY <1>5 DEF Accept, Serves, IdInv, GivenInv
    <2>2. UNCHANGED <<revision, nodeVars, mgrVars, given>>
        BY <1>5 DEF Accept
    <2> QED
        BY <1>5, <2>1, <2>2 DEF Accept, IdInv, GivenInv, StoreInv, NextAssignmentID
<1>6. ASSUME NEW w \in writing, Write(w) \/ WriteFails(w)
      PROVE  GivenInv' /\ StoreInv'
    <2>1. /\ UNCHANGED <<nodeVars, mgrVars, given>>
          /\ revision' \in Nat /\ revision' >= revision
        BY <1>0, <1>6 DEF Write, WriteFails, TypeOK
    <2>2. StoreInv'
        BY <1>6, <2>1 DEF Write, WriteFails, IdInv, StoreInv
    <2>3. GivenInv'
        BY <1>0, <2>1 DEF IdInv, GivenInv, NextAssignmentID, TypeOK
    <2> QED
        BY <2>2, <2>3
<1>7. ASSUME NEW k \in keys, Expire(k)
      PROVE  GivenInv' /\ StoreInv'
    <2>1. UNCHANGED <<nodeVars, mgrVars, storeVars>>
          /\ revision' \in Nat /\ revision' >= revision
        BY <1>0, <1>7 DEF Expire, Delete, TypeOK
    <2> QED
        BY <2>1, NoIdStep
<1>8. CASE UNCHANGED vars
    BY <1>0, <1>8, NoIdStep DEF vars, TypeOK
<1> QED
    BY <1>1, <1>2, <1>3, <1>4, <1>5, <1>6, <1>7, <1>8 DEF Next

\* While the ids of different terms are apart, the fencing token admits the owner that
\* the newest manager appointed.
THEOREM NewestOwnerAdmitted == Spec => []OwnerAdmittedApart
<1>1. IdInv => OwnerAdmittedApart
    <2> SUFFICES ASSUME IdInv, TermsApart, NEW n \in Nodes, Newest(n), assigned[n] # 0
                 PROVE  written.id <= assigned[n]
        BY DEF OwnerAdmittedApart, OwnerAdmitted
    <2>1. /\ assigned[n] \in Nat /\ term[n] \in Nat
          /\ \A g \in given : g.term \in Nat /\ g.id \in Nat
        BY DEF IdInv, ElectInv, TypeOK, Id
    <2>2. [id |-> assigned[n], term |-> term[n]] \in given /\ term[n] <= assigned[n]
        BY <2>1 DEF IdInv, GivenInv, Newest
    <2>3. CASE written \in given
        <3>1. written.term <= term[n]
            BY <2>3 DEF Newest
        <3>2. CASE written.term = term[n]
            BY <2>3, <3>2 DEF IdInv, GivenInv, Newest
        <3>3. CASE written.term < term[n]
            BY <2>1, <2>2, <2>3, <3>3 DEF TermsApart
        <3> QED
            BY <2>1, <2>3, <3>1, <3>2, <3>3
    <2> QED
        BY <2>1, <2>3 DEF IdInv, StoreInv
<1> QED
    BY <1>1, InitId, NextId, PTL DEF Spec

\* While they are, progress is never overwritten by the owner of an older term,
\* although a request may be under way for as long as it likes.
THEOREM FenceFollowsTerms == Spec => FencedInTermOrder
<1>1. IdInv /\ [Next]_vars => [TermsApart' => written.term <= written'.term]_written
    <2> SUFFICES ASSUME IdInv, Next, TermsApart', written' # written
                 PROVE  written.term <= written'.term
        BY DEF vars, storeVars
    <2>1. PICK w \in writing : Write(w)
        BY DEF Next, Elect, NewSession, Campaign, CampaignFails, Elected,
           WaitCancelled, Resign, WaitFails, EnterService, LoadCancelled, LeaveService,
           StopLeading, Process, LoseSession, Cancel, ComponentDone, Exit, Crash, Vanish, Restart, Assign,
           Accept, Expire, WriteFails, storeVars
    <2>2. /\ w \in given /\ written' = w /\ given' = given /\ written.id <= w.id
          /\ \A g \in given : g.term \in Nat /\ g.id \in Nat /\ g.term <= g.id
        BY <2>1 DEF Write, Admits, IdInv, StoreInv, GivenInv, ElectInv, TypeOK, Id
    <2>3. CASE written = [id |-> 0, term |-> 0]
        BY <2>2, <2>3
    <2>4. CASE written \in given
        <3>1. ~(w.term < written.term)
            BY <2>2, <2>4 DEF TermsApart
        <3> QED
            BY <2>2, <2>4, <3>1
    <2> QED
        BY <2>3, <2>4 DEF IdInv, StoreInv
<1> QED
    BY <1>1, InitId, NextId, PTL DEF Spec, FencedInTermOrder
=============================================================================
