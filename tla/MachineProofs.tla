---------------------------- MODULE MachineProofs ----------------------------
(***************************************************************************)
(* What holds on the machine for any number of pids, folders and sessions. *)
(***************************************************************************)
EXTENDS Machine, TLAPS

LEMMA LeastOfOne == ASSUME NEW p \in Pids PROVE Least({p}) = p
  BY MachineAssumption DEF Least

LEMMA LeastOfTwo == ASSUME NEW p \in Pids, NEW q \in Pids
                    PROVE  Least({p, q}) \in {p, q}
<1>1. p \in Nat /\ q \in Nat
  BY MachineAssumption
<1>2. \E x \in {p, q} : \A y \in {p, q} : x <= y
  BY <1>1
<1> QED BY <1>2 DEF Least

Histories ==
  /\ unseen \in [Callers -> SUBSET Pids]
  /\ rivals \in [Pids -> SUBSET Pids]
  /\ crossed \in BOOLEAN

(* The functions a step leaves keep their types. *)
LEMMA SpawnType ==
  ASSUME TypeOK, NEW P \in SUBSET Pids, Least(P) \in Pids,
         NEW k \in {"run", "hand", "hidden", "worker", "other"},
         NEW f \in Folders \cup {NoFolder}, Spawn(P, k, f)
  PROVE  /\ kind' \in [Pids -> {"free", "run", "hand", "hidden", "worker", "other"}]
         /\ group' \in [Pids -> Pids]
         /\ folder' \in [Pids -> Folders \cup {NoFolder}]
         /\ \A p \in Pids : kind'[p] = "free" <=> kind[p] = "free" /\ p \notin P
         /\ \A p \in Pids : p \notin P => kind'[p] = kind[p] /\ folder'[p] = folder[p]
         /\ \A p \in P : kind'[p] = k
  BY DEF TypeOK, Spawn

LEMMA VanishType ==
  ASSUME TypeOK, NEW P \in SUBSET Pids, Vanish(P)
  PROVE  /\ kind' \in [Pids -> {"free", "run", "hand", "hidden", "worker", "other"}]
         /\ group' \in [Pids -> Pids]
         /\ folder' \in [Pids -> Folders \cup {NoFolder}]
         /\ asked' \subseteq Pids
         /\ Histories'
         /\ \A p \in P : kind'[p] = "free" /\ folder'[p] = NoFolder /\ p \notin asked'
         /\ \A p \in Pids \ P : kind'[p] = kind[p] /\ folder'[p] = folder[p]
         /\ asked' \subseteq asked
  BY DEF TypeOK, Vanish, Histories

Calls ==
  /\ pc \in [Callers -> {"idle", "ps", "popen", "lock", "clear", "hire", "born",
                         "claim", "fire", "term", "force"}]
  /\ goal \in [Callers -> Folders \cup {NoFolder}]
  /\ hold \in [Callers -> SUBSET Pids]
  /\ \A c \in Callers :
        /\ (pc[c] \in {"ps", "popen", "lock", "clear"}) = (goal[c] \in Folders)
        /\ (pc[c] = "lock") => \E p \in Pids : hold[c] = {p}

LEMMA ResetType ==
  ASSUME TypeOK, NEW P \in SUBSET Callers, Reset(P)
  PROVE  /\ Calls'
         /\ \A c \in P : pc'[c] = "idle"
         /\ \A c \in Callers \ P : pc'[c] = pc[c]
<1>1. /\ pc' \in [Callers -> {"idle", "ps", "popen", "lock", "clear", "hire", "born",
                              "claim", "fire", "term", "force"}]
      /\ goal' \in [Callers -> Folders \cup {NoFolder}]
      /\ hold' \in [Callers -> SUBSET Pids]
  BY DEF TypeOK, Reset
<1>2. \A c \in P : pc'[c] = "idle" /\ goal'[c] = NoFolder
  BY DEF TypeOK, Reset
<1>3. \A c \in Callers \ P : pc'[c] = pc[c] /\ goal'[c] = goal[c] /\ hold'[c] = hold[c]
  BY DEF TypeOK, Reset
<1> QED BY <1>1, <1>2, <1>3, MachineAssumption DEF Calls, TypeOK

Processes ==
  /\ kind \in [Pids -> {"free", "run", "hand", "hidden", "worker", "other"}]
  /\ group \in [Pids -> Pids]
  /\ folder \in [Pids -> Folders \cup {NoFolder}]
  /\ asked \subseteq Pids
  /\ Histories

Locks ==
  /\ runLock \in [Folders -> Pids \cup {NoPid}]
  /\ workerLock \in Pids \cup {NoPid}

OnlyWorkersAct ==
  \A p \in Pids : /\ (kind[p] # "worker") => pc[p] = "idle"
                  /\ (kind[p] = "free") => p \notin asked /\ folder[p] = NoFolder

LEMMA TypeParts == TypeOK <=> Processes /\ Locks /\ Calls /\ OnlyWorkersAct
  BY DEF TypeOK, Processes, Histories, Locks, Calls, OnlyWorkersAct

LEMMA TypePartsNext == TypeOK' <=> Processes' /\ Locks' /\ Calls' /\ OnlyWorkersAct'
  BY DEF TypeOK, Processes, Histories, Locks, Calls, OnlyWorkersAct

LEMMA GroupsType == ASSUME NEW P PROVE Groups(P) \subseteq Pids
  BY DEF Groups

LEMMA SignalledType == ASSUME NEW P PROVE Signalled(P) \subseteq Pids
  BY GroupsType DEF Signalled

(* A call of c moves on inside its own arguments. *)
LEMMA AtType ==
  ASSUME TypeOK, NEW c \in Callers,
         NEW l \in {"idle", "ps", "popen", "lock", "clear", "hire", "born",
                    "claim", "fire", "term", "force"},
         At(c, l)
  PROVE  /\ pc' \in [Callers -> {"idle", "ps", "popen", "lock", "clear", "hire", "born",
                                 "claim", "fire", "term", "force"}]
         /\ pc'[c] = l
         /\ \A b \in Callers : b # c => pc'[b] = pc[b]
  BY DEF At, TypeOK

LEMMA SpawnStep ==
  ASSUME TypeOK, NEW P \in SUBSET Free, Least(P) \in Pids,
         NEW k \in {"run", "hand", "hidden", "worker", "other"},
         NEW f \in Folders \cup {NoFolder}, Spawn(P, k, f),
         UNCHANGED <<locks, asked>>,
         Histories', Calls',
         \A p \in Pids \ P : kind[p] # "worker" => pc'[p] = pc[p],
         k = "worker" \/ \A p \in P : pc'[p] = "idle"
  PROVE  TypeOK'
<1>1. P \in SUBSET Pids
  BY DEF Free
<1>2. Processes' /\ Locks'
  BY <1>1, SpawnType, TypeParts DEF Processes, Locks, locks
<1>3. OnlyWorkersAct'
  BY <1>1, SpawnType, TypeParts DEF OnlyWorkersAct
<1> QED BY <1>2, <1>3, TypePartsNext

LEMMA VanishStep ==
  ASSUME TypeOK, NEW P \in SUBSET Pids, Vanish(P), Locks', Calls',
         \A p \in P : pc'[p] = "idle",
         \A p \in Pids \ P : kind[p] # "worker" => pc'[p] = pc[p]
  PROVE  TypeOK'
<1>1. Processes'
  BY VanishType DEF Processes
<1>2. OnlyWorkersAct'
  BY VanishType, TypeParts DEF OnlyWorkersAct
<1> QED BY <1>1, <1>2, TypePartsNext

LEMMA MachineTypeStep == TypeOK /\ [Next]_vars => TypeOK'
<1> SUFFICES ASSUME TypeOK, [Next]_vars PROVE TypeOK'
  OBVIOUS
<1>0. Processes /\ Locks /\ Calls /\ OnlyWorkersAct
  BY TypeParts
<1>a. Pids \subseteq Callers /\ Sessions \subseteq Callers
  BY DEF Callers
<1>b. \A c \in Callers : c \in Pids /\ kind[c] # "worker" => pc[c] = "idle"
  BY <1>0 DEF OnlyWorkersAct
<1> USE DEF procs, locks, calls, history, Histories
<1>1. ASSUME NEW c \in Callers, NEW f \in Folders, CheckLock(c, f) PROVE TypeOK'
  <2>1. c \in Pids => kind[c] = "worker"
    BY <1>1, MachineAssumption DEF CheckLock, Up
  <2>2. At(c, "ps") /\ goal' = [goal EXCEPT ![c] = f] /\ hold' = hold
    BY <1>1 DEF CheckLock
  <2>3. Calls'
    BY <1>0, <2>2, AtType DEF Calls
  <2>4. Processes' /\ Locks' /\ OnlyWorkersAct'
    BY <1>0, <1>1, <2>1, <2>2, AtType, <1>a
       DEF CheckLock, Processes, Locks, OnlyWorkersAct
  <2> QED BY <2>3, <2>4, TypePartsNext
<1>2. ASSUME NEW c \in Callers, PsClear(c) \/ PsFails(c) PROVE TypeOK'
  <2>1. At(c, "popen") /\ pc[c] = "ps" /\ goal' = goal /\ hold' = hold
    BY <1>2 DEF PsClear, PsFails
  <2>2. Calls'
    BY <1>0, <2>1, AtType DEF Calls
  <2>3. Processes' /\ Locks' /\ OnlyWorkersAct'
    BY <1>0, <1>2, <2>1, <1>b, AtType, <1>a
       DEF PsClear, PsFails, Launched, Processes, Locks, OnlyWorkersAct
  <2> QED BY <2>2, <2>3, TypePartsNext
<1>3. ASSUME NEW c \in Callers, PsRefuses(c) PROVE TypeOK'
  <2>1. Reset({c})
    BY <1>3 DEF PsRefuses, Return
  <2>2. Calls' /\ \A b \in Callers : pc'[b] \in {"idle", pc[b]}
    BY <2>1, ResetType
  <2>3. Processes' /\ Locks' /\ OnlyWorkersAct'
    BY <1>0, <1>3, <2>2, <1>a DEF PsRefuses, Processes, Locks, OnlyWorkersAct
  <2> QED BY <2>2, <2>3, TypePartsNext
<1>4. ASSUME NEW c \in Callers, Popen(c) PROVE TypeOK'
  <2>1. PICK p \in Free : /\ Spawn({p}, "run", goal[c])
                          /\ hold' = [hold EXCEPT ![c] = {p}]
                          /\ rivals' = [rivals EXCEPT ![p] = unseen[c]]
                          /\ unseen' = [b \in Callers |->
                                          IF b # c /\ pc[b] = "popen"
                                          THEN unseen[b] \cup {p} ELSE {}]
    BY <1>4 DEF Popen
  <2>2. p \in Pids /\ kind[p] = "free" /\ Least({p}) = p
    BY LeastOfOne DEF Free
  <2>3. At(c, "lock") /\ pc[c] = "popen" /\ goal' = goal
    BY <1>4 DEF Popen
  <2>4. Calls'
    BY <1>0, <2>1, <2>2, <2>3, AtType DEF Calls
  <2>5. Histories'
    BY <1>0, <1>4, <2>1, <2>2 DEF Processes, Popen
  <2>6. goal[c] \in Folders \cup {NoFolder}
    BY <1>0 DEF Calls
  <2>7. /\ \A q \in Pids \ {p} : kind[q] # "worker" => pc'[q] = pc[q]
        /\ pc'[p] = "idle"
    BY <1>b, <1>a, <2>2, <2>3, AtType
  <2>8. UNCHANGED <<locks, asked>>
    BY <1>4 DEF Popen
  <2> QED BY <2>1, <2>2, <2>4, <2>5, <2>6, <2>7, <2>8, SpawnStep
<1>5. ASSUME NEW c \in Callers, WriteLock(c) PROVE TypeOK'
  <2>1. Reset({c}) /\ pc[c] = "lock"
    BY <1>5 DEF WriteLock, Return
  <2>2. Calls' /\ \A b \in Callers : pc'[b] \in {"idle", pc[b]}
    BY <2>1, ResetType
  <2>3. Least(hold[c]) \in Pids
    BY <1>0, <2>1, LeastOfOne DEF Calls
  <2>4. Locks'
    BY <1>0, <1>5, <2>3 DEF WriteLock, Locks
  <2>5. Processes' /\ OnlyWorkersAct'
    BY <1>0, <1>5, <2>2, <1>a DEF WriteLock, Processes, OnlyWorkersAct
  <2> QED BY <2>2, <2>4, <2>5, TypePartsNext
<1>6. ASSUME NEW f \in Folders, HandRun(f) PROVE TypeOK'
  <2>1. PICK p, q \in Free, k \in {"hand", "hidden"} : Spawn({p, q}, k, f)
    BY <1>6 DEF HandRun
  <2>2. {p, q} \in SUBSET Free /\ {p, q} \in SUBSET Pids
    BY DEF Free
  <2>3. Least({p, q}) \in Pids
    BY <2>2, LeastOfTwo
  <2>4. UNCHANGED <<locks, asked, calls, history>>
    BY <1>6 DEF HandRun
  <2>5. Calls'
    BY <1>0, <2>4 DEF Calls
  <2>6. Histories'
    BY <1>0, <2>4 DEF Processes
  <2>7. /\ \A r \in Pids \ {p, q} : kind[r] # "worker" => pc'[r] = pc[r]
        /\ \A r \in {p, q} : pc'[r] = "idle"
    BY <1>0, <2>2, <2>4 DEF OnlyWorkersAct, Free
  <2>8. UNCHANGED <<locks, asked>>
    BY <2>4
  <2> QED BY <2>1, <2>2, <2>3, <2>5, <2>6, <2>7, <2>8, SpawnStep
<1>7. ASSUME NEW p \in Pids, RunEnds(p) \/ OtherEnds(p) PROVE TypeOK'
  <2>1. PICK P \in SUBSET Pids : Vanish(P) /\ \A q \in P : kind[q] # "worker"
    <3>1. CASE RunEnds(p)
      BY <3>1 DEF RunEnds, Runs
    <3>2. CASE OtherEnds(p)
      BY <3>2 DEF OtherEnds
    <3> QED BY <1>7, <3>1, <3>2
  <2>2. UNCHANGED <<locks, calls>>
    BY <1>7 DEF RunEnds, OtherEnds
  <2>3. Calls' /\ Locks'
    BY <1>0, <2>2 DEF Calls, Locks, Processes
  <2>4. /\ \A q \in P : pc'[q] = "idle"
        /\ \A q \in Pids \ P : kind[q] # "worker" => pc'[q] = pc[q]
    BY <1>0, <2>1, <2>2 DEF OnlyWorkersAct
  <2> QED BY <2>1, <2>3, <2>4, VanishStep
<1>8. ASSUME NEW s \in Sessions, WorkerWanted(s) PROVE TypeOK'
  <2>1. At(s, "hire") /\ pc[s] = "idle" /\ goal' = goal /\ hold' = hold
    BY <1>8 DEF WorkerWanted
  <2>2. s \notin Pids
    BY MachineAssumption
  <2>3. Calls'
    BY <1>0, <1>a, <2>1, AtType DEF Calls
  <2>4. Processes' /\ Locks' /\ OnlyWorkersAct'
    BY <1>0, <1>8, <2>1, <2>2, AtType, <1>a
       DEF WorkerWanted, Processes, Locks, OnlyWorkersAct
  <2> QED BY <2>3, <2>4, TypePartsNext
<1>9. ASSUME NEW s \in Sessions, Hire(s) PROVE TypeOK'
  <2>1. PICK p \in Free : /\ Spawn({p}, "worker", NoFolder)
                          /\ pc' = [pc EXCEPT ![s] = "idle", ![p] = "born"]
    BY <1>9 DEF Hire
  <2>2. p \in Pids /\ kind[p] = "free" /\ Least({p}) = p /\ {p} \in SUBSET Free
    BY LeastOfOne DEF Free
  <2>3. UNCHANGED <<locks, asked, goal, hold, history>> /\ pc[s] = "hire"
    BY <1>9 DEF Hire
  <2>4. pc[p] = "idle" /\ s \notin Pids /\ p \in Callers /\ s \in Callers
    BY <1>0, <1>a, <2>2, MachineAssumption DEF OnlyWorkersAct
  <2>5. Calls'
    BY <1>0, <2>1, <2>3, <2>4 DEF Calls
  <2>6. \A q \in Pids \ {p} : kind[q] # "worker" => pc'[q] = pc[q]
    BY <1>0, <1>a, <2>1, <2>4 DEF Calls
  <2>7. Histories'
    BY <1>0, <2>3 DEF Processes
  <2>8. UNCHANGED <<locks, asked>>
    BY <2>3
  <2> QED BY <2>1, <2>2, <2>5, <2>6, <2>7, <2>8, SpawnStep
<1>10. CASE HandWorker
  <2>1. PICK p \in Free : /\ Spawn({p}, "worker", NoFolder)
                          /\ At(p, "born")
    BY <1>10 DEF HandWorker
  <2>2. p \in Pids /\ kind[p] = "free" /\ Least({p}) = p /\ {p} \in SUBSET Free
    BY LeastOfOne DEF Free
  <2>3. UNCHANGED <<locks, asked, goal, hold, history>>
    BY <1>10 DEF HandWorker
  <2>4. pc[p] = "idle" /\ p \in Callers
    BY <1>0, <1>a, <2>2 DEF OnlyWorkersAct
  <2>5. Calls'
    BY <1>0, <2>1, <2>3, <2>4, AtType DEF Calls
  <2>6. \A q \in Pids \ {p} : kind[q] # "worker" => pc'[q] = pc[q]
    BY <1>a, <2>1, <2>4, AtType
  <2>7. Histories'
    BY <1>0, <2>3 DEF Processes
  <2>8. UNCHANGED <<locks, asked>>
    BY <2>3
  <2> QED BY <2>1, <2>2, <2>5, <2>6, <2>7, <2>8, SpawnStep
<1>11. ASSUME NEW p \in Pids, MayClaim(p) \/ Claim(p) PROVE TypeOK'
  <2>1. PICK l \in {"claim", "idle"} : At(p, l)
    BY <1>11 DEF MayClaim, Claim
  <2>2. /\ UNCHANGED <<procs, asked, goal, hold>> /\ Histories'
        /\ kind[p] = "worker" /\ pc[p] \in {"born", "claim"}
        /\ Locks'
    BY <1>0, <1>11 DEF MayClaim, Claim, Locks, Processes
  <2>3. Calls'
    BY <1>0, <1>a, <2>1, <2>2, AtType DEF Calls
  <2>4. Processes' /\ OnlyWorkersAct'
    BY <1>0, <1>a, <2>1, <2>2, AtType DEF Processes, OnlyWorkersAct
  <2> QED BY <2>2, <2>3, <2>4, TypePartsNext
<1>12. ASSUME NEW p \in Pids, TurnedAway(p) \/ Leave(p) \/ WorkerDies(p) PROVE TypeOK'
  <2>1. /\ Vanish({p}) /\ Reset({p})
        /\ UNCHANGED <<runLock>>
        /\ workerLock' \in {NoPid, workerLock}
    BY <1>12 DEF TurnedAway, Leave, WorkerDies
  <2>2. Locks'
    BY <1>0, <2>1 DEF Locks, Processes
  <2>3. /\ Calls' /\ pc'[p] = "idle"
        /\ \A q \in Pids \ {p} : pc'[q] = pc[q]
    BY <1>a, <2>1, ResetType
  <2> QED BY <2>1, <2>2, <2>3, VanishStep
<1>13. ASSUME NEW s \in Sessions, StopWorker(s) PROVE TypeOK'
  <2>1. At(s, "fire") /\ pc[s] = "idle" /\ hold' = [hold EXCEPT ![s] = {workerLock}]
           /\ UNCHANGED <<procs, locks, asked, goal, history>>
    BY <1>13 DEF StopWorker
  <2>2. s \notin Pids /\ workerLock \in Pids
    BY <1>0, <1>13, MachineAssumption DEF StopWorker, Alive, Locks
  <2>3. Calls'
    BY <1>0, <1>a, <2>1, <2>2, AtType DEF Calls
  <2>4. Processes' /\ Locks' /\ OnlyWorkersAct'
    BY <1>0, <1>a, <2>1, <2>2, AtType DEF Processes, Locks, OnlyWorkersAct
  <2> QED BY <2>3, <2>4, TypePartsNext
<1>14. ASSUME NEW s \in Sessions, Fire(s) PROVE TypeOK'
  <2>1. Reset({s}) /\ UNCHANGED <<procs, locks, history>>
    BY <1>14 DEF Fire, Return
  <2>2. Calls' /\ \A b \in Callers : pc'[b] \in {"idle", pc[b]}
    BY <1>a, <2>1, ResetType
  <2>3. /\ asked' \subseteq Pids
        /\ \A q \in Pids : kind[q] = "free" => q \notin asked'
    BY <1>0, <1>a, <1>14 DEF Fire, Signal, Processes, Calls, OnlyWorkersAct
  <2>4. Processes' /\ Locks' /\ OnlyWorkersAct'
    BY <1>0, <1>a, <2>1, <2>2, <2>3 DEF Processes, Locks, OnlyWorkersAct
  <2> QED BY <2>2, <2>4, TypePartsNext
<1>15. ASSUME NEW s \in Sessions, NEW f \in Folders, StopRun(s, f) PROVE TypeOK'
  <2>1. /\ At(s, "term") /\ pc[s] = "idle"
        /\ hold' = [hold EXCEPT ![s] = {p \in Runs : folder[p] = f}]
        /\ UNCHANGED <<procs, locks, asked, goal, history>>
    BY <1>15 DEF StopRun
  <2>2. s \notin Pids /\ {p \in Runs : folder[p] = f} \subseteq Pids
    BY MachineAssumption DEF Runs
  <2>3. Calls'
    BY <1>0, <1>a, <2>1, <2>2, AtType DEF Calls
  <2>4. Processes' /\ Locks' /\ OnlyWorkersAct'
    BY <1>0, <1>a, <2>1, <2>2, AtType DEF Processes, Locks, OnlyWorkersAct
  <2> QED BY <2>3, <2>4, TypePartsNext
<1>16. ASSUME NEW s \in Sessions, Term(s) PROVE TypeOK'
  <2> DEFINE P == Signalled({p \in hold[s] : Alive(p)})
  <2>1. /\ At(s, "force") /\ pc[s] = "term" /\ Signal(P)
        /\ UNCHANGED <<procs, locks, goal, hold, history>>
    BY <1>16 DEF Term
  <2>2. s \notin Pids /\ P \subseteq Pids
    BY SignalledType, MachineAssumption
  <2>3. Calls'
    BY <1>0, <1>a, <2>1, <2>2, AtType DEF Calls
  <2>4. /\ asked' \subseteq Pids
        /\ \A q \in Pids : kind[q] = "free" => q \notin asked'
    <3> HIDE DEF P
    <3> QED BY <1>0, <2>1, <2>2 DEF Signal, Processes, OnlyWorkersAct
  <2>5. Processes' /\ Locks' /\ OnlyWorkersAct'
    BY <1>0, <1>a, <2>1, <2>2, <2>4, AtType DEF Processes, Locks, OnlyWorkersAct
  <2> QED BY <2>3, <2>5, TypePartsNext
<1>17. ASSUME NEW s \in Sessions, ForceLeftovers(s) PROVE TypeOK'
  <2> DEFINE P == Groups({p \in hold[s] : Alive(p)})
  <2>1. P \in SUBSET Pids
    BY GroupsType
  <2>2. /\ Vanish(P) /\ Reset(P \cup {s})
        /\ UNCHANGED locks
    BY <1>17 DEF ForceLeftovers
  <2> HIDE DEF P
  <2>3. P \cup {s} \in SUBSET Callers /\ s \notin Pids
    BY <1>a, <2>1, MachineAssumption
  <2>4. /\ Calls' /\ \A q \in P : pc'[q] = "idle"
        /\ \A q \in Pids \ P : pc'[q] = pc[q]
    BY <1>a, <2>2, <2>3, ResetType
  <2>5. Locks'
    BY <1>0, <2>1, <2>2 DEF Locks, Processes
  <2> QED BY <2>1, <2>2, <2>4, <2>5, VanishStep
<1>18. ASSUME NEW p \in Pids, OtherStarts(p) PROVE TypeOK'
  <2>1. /\ kind[p] = "free" /\ Spawn({p}, "other", NoFolder)
        /\ UNCHANGED <<locks, asked, calls, history>>
    BY <1>18 DEF OtherStarts
  <2>2. Least({p}) = p /\ {p} \in SUBSET Free /\ pc[p] = "idle"
    BY <1>0, <2>1, LeastOfOne DEF Free, OnlyWorkersAct
  <2>3. Calls' /\ Histories' /\ pc' = pc
           /\ UNCHANGED <<locks, asked>>
    BY <1>0, <2>1 DEF Calls, Processes
  <2> QED BY <2>1, <2>2, <2>3, SpawnStep
<1>19. ASSUME NEW s \in Sessions, NEW f \in Folders, WillClear(s, f) PROVE TypeOK'
  <2>1. /\ At(s, "clear") /\ goal' = [goal EXCEPT ![s] = f] /\ hold' = hold
        /\ UNCHANGED <<procs, locks, asked, history>>
    BY <1>19 DEF WillClear
  <2>2. s \notin Pids
    BY MachineAssumption
  <2>3. Calls'
    BY <1>0, <1>a, <2>1, AtType DEF Calls
  <2>4. Processes' /\ Locks' /\ OnlyWorkersAct'
    BY <1>0, <1>a, <2>1, <2>2, AtType DEF Processes, Locks, OnlyWorkersAct
  <2> QED BY <2>3, <2>4, TypePartsNext
<1>20. ASSUME NEW s \in Sessions, ClearLock(s) PROVE TypeOK'
  <2>1. /\ Reset({s})
        /\ runLock' = [runLock EXCEPT ![goal[s]] = NoPid]
        /\ UNCHANGED <<procs, workerLock, asked, history>>
    BY <1>20 DEF ClearLock, Return
  <2>2. Calls' /\ \A b \in Callers : pc'[b] \in {"idle", pc[b]}
    BY <1>a, <2>1, ResetType
  <2>3. Processes' /\ Locks' /\ OnlyWorkersAct'
    BY <1>0, <1>a, <2>1, <2>2 DEF Processes, Locks, OnlyWorkersAct
  <2> QED BY <2>2, <2>3, TypePartsNext
<1>21. CASE UNCHANGED vars
  BY <1>21 DEF vars, TypeOK
<1> QED BY <1>1, <1>2, <1>3, <1>4, <1>5, <1>6, <1>7, <1>8, <1>9, <1>10, <1>11,
           <1>12, <1>13, <1>14, <1>15, <1>16, <1>17, <1>18, <1>19, <1>20,
           <1>21
        DEF Next

(* Whatever processes come and go and whoever launches or stops what: locks *)
(* name pids, only workers and GUI sessions are ever in a call, and a call  *)
(* to launch knows its folder.                                              *)
THEOREM MachineTypeCorrect == Spec => []TypeOK
<1>1. ASSUME Init PROVE TypeOK
  <2>1. Processes /\ Locks
    BY <1>1 DEF Init, Processes, Histories, Locks
  <2>2. Calls
    BY <1>1, MachineAssumption DEF Init, Calls
  <2>3. OnlyWorkersAct
    BY <1>1 DEF Init, OnlyWorkersAct, Callers
  <2> QED BY <2>1, <2>2, <2>3, TypeParts
<1> QED BY <1>1, MachineTypeStep, PTL DEF Spec
------------------------------------------------------------------------------
(* Most steps bring no launch and no claim nearer: of the runs launched and *)
(* of what is known about them only what ends is forgotten, ...             *)
SameRuns ==
  /\ Launched' \subseteq Launched
  /\ \A c \in Callers :
        pc'[c] = "popen" => /\ pc[c] = "popen"
                            /\ unseen[c] \cap Launched' \subseteq unseen'[c]
  /\ \A p \in Launched' : rivals[p] \cap Launched' \subseteq rivals'[p]

(* ... no worker gets to its claim or past it, and what is known about      *)
(* claims is forgotten with the last worker only.                           *)
SameWorkers ==
  /\ Up' \subseteq Up
  /\ \A p \in Pids : pc'[p] = "claim" => pc[p] = "claim"
  /\ workerLock' = workerLock
  /\ crossed' = crossed \/ \A p \in Pids : kind'[p] # "worker"

LEMMA VanishFrame ==
  ASSUME TypeOK, TypeOK', NEW P \in SUBSET Pids, Vanish(P),
         \A c \in Callers : pc'[c] = pc[c] \/ pc'[c] = "idle",
         \A p \in Pids \ P : pc'[p] = pc[p]
  PROVE  SameRuns /\ (workerLock' = workerLock => SameWorkers)
<1>1. Launched' = Launched \ P
  BY VanishType DEF Launched, TypeOK
<1>2. \A c \in Callers : pc'[c] = "popen" => c \notin P
  BY VanishType DEF TypeOK
<1>3. SameRuns
  <2>1. \A c \in Callers : c \notin P => unseen'[c] = unseen[c] \ P
    BY DEF Vanish
  <2>2. \A p \in Pids \ P : rivals'[p] = rivals[p] \ P
    BY DEF Vanish
  <2> QED BY <1>1, <1>2, <2>1, <2>2 DEF SameRuns, Launched
<1>4. Up' \subseteq Up
  BY VanishType DEF Up
<1>5. \A p \in Pids : pc'[p] = "claim" => pc[p] = "claim"
  BY DEF Callers
<1>6. crossed' = crossed \/ \A p \in Pids : kind'[p] # "worker"
  <2>1. CASE \E p \in Pids \ P : kind[p] = "worker"
    BY <2>1 DEF Vanish, TypeOK
  <2>2. CASE ~ \E p \in Pids \ P : kind[p] = "worker"
    BY <2>2, VanishType
  <2> QED BY <2>1, <2>2
<1> QED BY <1>3, <1>4, <1>5, <1>6 DEF SameWorkers

LEMMA SpawnFrame ==
  ASSUME TypeOK, NEW P \in SUBSET Free, Least(P) \in Pids,
         NEW k \in {"hand", "hidden", "worker", "other"},
         NEW f \in Folders \cup {NoFolder}, Spawn(P, k, f),
         UNCHANGED <<workerLock, history>>,
         \A c \in Callers : pc'[c] \in {"popen", "claim"} => pc'[c] = pc[c],
         \A p \in Pids \ P : pc'[p] = pc[p],
         k = "worker" => \A p \in P : pc'[p] = "born"
  PROVE  SameRuns /\ SameWorkers
<1>1. P \in SUBSET Pids
  BY DEF Free
<1>2. Launched' \subseteq Launched
  BY <1>1, SpawnType DEF Launched
<1>3. Up' \subseteq Up
  BY <1>1, SpawnType DEF Up
<1> QED BY <1>2, <1>3 DEF SameRuns, SameWorkers, history, Callers

LEMMA CallFrame ==
  ASSUME UNCHANGED <<kind, history>>,
         \A c \in Callers : pc'[c] \in {"popen", "claim"} => pc'[c] = pc[c],
         \A p \in Pids : pc[p] \in {"born", "claim"} /\ kind[p] = "worker"
                           => pc'[p] = pc[p]
  PROVE  SameRuns /\ (workerLock' = workerLock => SameWorkers)
<1>1. Launched' = Launched /\ Up' \subseteq Up
  BY DEF Launched, Up
<1> QED BY <1>1 DEF SameRuns, SameWorkers, history, Callers

(* The steps that do more: a look at ps, a launch; a look at the worker's   *)
(* lock, a claim, a release.                                                *)
LaunchStep == \E c \in Callers : PsClear(c) \/ PsFails(c) \/ Popen(c)
ClaimStep == \E p \in Pids : MayClaim(p) \/ Claim(p) \/ Leave(p)

LEMMA FrameStep ==
  TypeOK /\ TypeOK' /\ [Next]_vars
    => (SameRuns \/ LaunchStep) /\ (SameWorkers \/ ClaimStep)
<1> SUFFICES ASSUME TypeOK, TypeOK', [Next]_vars
             PROVE  (SameRuns \/ LaunchStep) /\ (SameWorkers \/ ClaimStep)
  OBVIOUS
<1>0. Calls /\ OnlyWorkersAct /\ Pids \subseteq Callers /\ Sessions \subseteq Callers
      /\ Sessions \cap Pids = {}
  BY TypeParts, MachineAssumption DEF Callers
<1> USE DEF procs, locks, calls
<1>1. ASSUME NEW c \in Callers, NEW l \in {"idle", "ps", "popen", "lock", "clear",
                                          "hire", "fire", "term", "force"},
             pc[c] \notin {"born", "claim"}, At(c, l), kind' = kind, crossed' = crossed,
             workerLock' = workerLock
      PROVE  SameWorkers /\ (history' = history /\ l # "popen" => SameRuns)
  <2>1. pc'[c] = l /\ \A b \in Callers : b # c => pc'[b] = pc[b]
    BY <1>1, AtType
  <2>2. Up' \subseteq Up
    BY <1>0, <1>1, <2>1 DEF Up
  <2>3. SameWorkers
    BY <1>0, <1>1, <2>1, <2>2 DEF SameWorkers
  <2>4. ASSUME history' = history, l # "popen" PROVE SameRuns
    BY <1>0, <1>1, <2>1, <2>4, CallFrame
  <2> QED BY <2>3, <2>4
<1>2. ASSUME NEW c \in Callers, Return(c), UNCHANGED <<kind, history>>,
             pc[c] \notin {"born", "claim"}, workerLock' = workerLock
      PROVE  SameRuns /\ SameWorkers
  <2>1. pc'[c] = "idle" /\ \A b \in Callers \ {c} : pc'[b] = pc[b]
    BY <1>2, ResetType DEF Return
  <2> QED BY <1>0, <1>2, <2>1, CallFrame
<1>3. ASSUME NEW c \in Callers, NEW f \in Folders, CheckLock(c, f)
      PROVE  SameRuns /\ SameWorkers
  BY <1>1, <1>3 DEF CheckLock, history
<1>4. ASSUME NEW c \in Callers, PsClear(c) \/ PsFails(c) PROVE SameWorkers
  BY <1>1, <1>4 DEF PsClear, PsFails
<1>5. ASSUME NEW c \in Callers, PsRefuses(c) \/ WriteLock(c)
      PROVE  SameRuns /\ SameWorkers
  <2>1. pc[c] \in {"ps", "lock"} /\ Return(c)
        /\ UNCHANGED <<kind, workerLock, history>>
    BY <1>5 DEF PsRefuses, WriteLock
  <2> QED BY <1>2, <2>1
<1>6. ASSUME NEW c \in Callers, Popen(c) PROVE SameWorkers
  <2>1. PICK p \in Free : Spawn({p}, "run", goal[c])
    BY <1>6 DEF Popen
  <2>2. p \in Pids /\ {p} \in SUBSET Pids /\ Least({p}) = p
    BY LeastOfOne DEF Free
  <2>3. At(c, "lock") /\ workerLock' = workerLock /\ crossed' = crossed
        /\ pc[c] = "popen"
    BY <1>6 DEF Popen
  <2>4. \A q \in Pids : kind'[q] = "worker" => kind[q] = "worker"
    BY <1>0, <2>1, <2>2, SpawnType DEF Calls
  <2>5. pc'[c] = "lock" /\ \A b \in Callers : b # c => pc'[b] = pc[b]
    BY <2>3, AtType
  <2>6. Up' \subseteq Up
    BY <1>0, <2>3, <2>4, <2>5 DEF Up
  <2> QED BY <1>0, <2>3, <2>5, <2>6 DEF SameWorkers
<1>7. ASSUME NEW s \in Sessions, WorkerWanted(s) \/ StopWorker(s) \/ Term(s)
                        \/ \E f \in Folders : StopRun(s, f) \/ WillClear(s, f)
      PROVE  SameRuns /\ SameWorkers
  <2>1. PICK l \in {"hire", "fire", "force", "term", "clear"} : At(s, l)
    BY <1>7 DEF WorkerWanted, StopWorker, Term, StopRun, WillClear
  <2>2. UNCHANGED <<kind, workerLock, history>> /\ pc[s] \in {"idle", "term"}
    BY <1>7 DEF WorkerWanted, StopWorker, Term, StopRun, WillClear
  <2> QED BY <1>0, <1>1, <2>1, <2>2 DEF history
<1>8. ASSUME NEW s \in Sessions, Fire(s) \/ ClearLock(s)
      PROVE  SameRuns /\ SameWorkers
  <2>1. pc[s] \in {"fire", "clear"} /\ Return(s)
        /\ UNCHANGED <<kind, workerLock, history>>
    BY <1>8 DEF Fire, ClearLock
  <2> QED BY <1>0, <1>2, <2>1
<1>9. ASSUME NEW p \in Free, Spawn({p}, "worker", NoFolder), pc'[p] = "born",
             \A c \in Callers \ {p} : pc'[c] \in {"idle", pc[c]},
             \A q \in Pids \ {p} : pc'[q] = pc[q], UNCHANGED <<workerLock, history>>
      PROVE  SameRuns /\ SameWorkers
  <2>1. {p} \in SUBSET Free /\ Least({p}) \in Pids
    BY LeastOfOne DEF Free
  <2> QED BY <1>9, <2>1, SpawnFrame
<1>10. ASSUME NEW s \in Sessions, Hire(s) PROVE SameRuns /\ SameWorkers
  <2>1. PICK p \in Free : /\ Spawn({p}, "worker", NoFolder)
                          /\ pc' = [pc EXCEPT ![s] = "idle", ![p] = "born"]
    BY <1>10 DEF Hire
  <2>2. UNCHANGED <<workerLock, history>> /\ p \in Pids /\ s \notin Pids
    BY <1>0, <1>10 DEF Hire, Free
  <2>3. /\ pc'[p] = "born" /\ \A c \in Callers \ {p} : pc'[c] \in {"idle", pc[c]}
        /\ \A q \in Pids \ {p} : pc'[q] = pc[q]
    BY <1>0, <2>1, <2>2 DEF Calls
  <2> QED BY <1>9, <2>1, <2>2, <2>3
<1>11. CASE HandWorker
  <2>1. PICK p \in Free : Spawn({p}, "worker", NoFolder) /\ At(p, "born")
    BY <1>11 DEF HandWorker
  <2>2. UNCHANGED <<workerLock, history>> /\ p \in Callers
    BY <1>0, <1>11 DEF HandWorker, Free
  <2>3. pc'[p] = "born" /\ \A c \in Callers : c # p => pc'[c] = pc[c]
    BY <2>1, <2>2, AtType
  <2> QED BY <1>0, <1>9, <2>1, <2>2, <2>3
<1>12. ASSUME NEW f \in Folders, HandRun(f) PROVE SameRuns /\ SameWorkers
  <2>1. PICK p, q \in Free, k \in {"hand", "hidden"} : Spawn({p, q}, k, f)
    BY <1>12 DEF HandRun
  <2>2. {p, q} \in SUBSET Free /\ Least({p, q}) \in Pids
    BY LeastOfTwo DEF Free
  <2>3. UNCHANGED <<workerLock, history, pc>>
    BY <1>12 DEF HandRun
  <2> QED BY <2>1, <2>2, <2>3, SpawnFrame
<1>13. ASSUME NEW p \in Pids, OtherStarts(p) PROVE SameRuns /\ SameWorkers
  <2>1. p \in Free /\ Spawn({p}, "other", NoFolder)
        /\ UNCHANGED <<workerLock, history, pc>>
    BY <1>13 DEF OtherStarts, Free
  <2>2. {p} \in SUBSET Free /\ Least({p}) \in Pids
    BY <2>1, LeastOfOne
  <2> QED BY <2>1, <2>2, SpawnFrame
<1>14. ASSUME NEW p \in Pids, RunEnds(p) \/ OtherEnds(p) PROVE SameRuns /\ SameWorkers
  <2>1. PICK P \in SUBSET Pids : Vanish(P)
    BY <1>14 DEF RunEnds, OtherEnds
  <2>2. UNCHANGED <<workerLock, pc>>
    BY <1>14 DEF RunEnds, OtherEnds
  <2> QED BY <2>1, <2>2, VanishFrame
<1>15. ASSUME NEW p \in Pids, TurnedAway(p) \/ Leave(p) \/ WorkerDies(p)
       PROVE  SameRuns /\ (SameWorkers \/ Leave(p))
  <2>1. Vanish({p}) /\ Reset({p}) /\ {p} \in SUBSET Pids /\ {p} \in SUBSET Callers
    BY <1>0, <1>15 DEF TurnedAway, Leave, WorkerDies
  <2>2. pc'[p] = "idle" /\ \A c \in Callers \ {p} : pc'[c] = pc[c]
    BY <2>1, ResetType
  <2>3. SameRuns /\ (workerLock' = workerLock => SameWorkers)
    BY <1>0, <2>1, <2>2, VanishFrame
  <2> QED BY <1>15, <2>3 DEF TurnedAway, WorkerDies
<1>16. ASSUME NEW s \in Sessions, ForceLeftovers(s) PROVE SameRuns /\ SameWorkers
  <2> DEFINE P == Groups({p \in hold[s] : Alive(p)})
  <2>1. P \in SUBSET Pids
    BY GroupsType
  <2>2. Vanish(P) /\ Reset(P \cup {s}) /\ UNCHANGED locks
    BY <1>16 DEF ForceLeftovers
  <2> HIDE DEF P
  <2>3. P \cup {s} \in SUBSET Callers
    BY <1>0, <2>1
  <2>4. /\ \A c \in Callers : pc'[c] = pc[c] \/ pc'[c] = "idle"
        /\ \A q \in Pids \ P : pc'[q] = pc[q]
    BY <1>0, <2>2, <2>3, ResetType
  <2> QED BY <2>1, <2>2, <2>4, VanishFrame
<1>17. ASSUME NEW p \in Pids, MayClaim(p) \/ Claim(p) PROVE SameRuns
  <2>1. PICK l \in {"claim", "idle"} : At(p, l)
    BY <1>17 DEF MayClaim, Claim
  <2>2. pc'[p] = l /\ \A b \in Callers : b # p => pc'[b] = pc[b]
    BY <1>0, <2>1, AtType
  <2>3. UNCHANGED <<kind, unseen, rivals>>
    BY <1>17 DEF MayClaim, Claim, history
  <2>4. Launched' = Launched
    BY <2>3 DEF Launched
  <2> QED BY <2>1, <2>2, <2>3, <2>4 DEF SameRuns
<1>18. CASE UNCHANGED vars
  <2>1. UNCHANGED <<kind, pc, workerLock, history>>
    BY <1>18 DEF vars
  <2> QED BY <2>1, CallFrame
<1> QED BY <1>0, <1>3, <1>4, <1>5, <1>6, <1>7, <1>8, <1>10, <1>11, <1>12, <1>13,
           <1>14, <1>15, <1>16, <1>17, <1>18
        DEF Next, LaunchStep, ClaimStep
------------------------------------------------------------------------------
(* A caller about to launch has not been shown any launched run there is:   *)
(* its ps listed none, and those that came since are remembered.            *)
Uninformed == \A c \in Callers : pc[c] = "popen" => Launched \subseteq unseen[c]
RivalsInv == Uninformed /\ OnlyUnseenRivals

LEMMA RivalsStep == TypeOK /\ TypeOK' /\ RivalsInv /\ [Next]_vars => RivalsInv'
<1> SUFFICES ASSUME TypeOK, TypeOK', Uninformed, OnlyUnseenRivals, [Next]_vars
             PROVE  RivalsInv'
  BY DEF RivalsInv
<1>0. Calls
  BY TypeParts
<1>1. CASE SameRuns
  <2>1. Uninformed'
    BY <1>1 DEF SameRuns, Uninformed
  <2>2. OnlyUnseenRivals'
    BY <1>1 DEF SameRuns, OnlyUnseenRivals
  <2> QED BY <2>1, <2>2 DEF RivalsInv
<1>2. ASSUME NEW c \in Callers, PsClear(c) \/ PsFails(c) PROVE RivalsInv'
  <2>1. At(c, "popen") /\ UNCHANGED <<kind, rivals>>
    BY <1>2 DEF PsClear, PsFails, procs
  <2>2. Launched \subseteq unseen'[c] /\ \A b \in Callers : b # c => unseen'[b] = unseen[b]
    BY <1>2 DEF PsClear, PsFails, Runs, Launched, TypeOK
  <2>3. Launched' = Launched
    BY <2>1 DEF Launched
  <2>4. Uninformed'
    BY <2>1, <2>2, <2>3, AtType DEF Uninformed
  <2>5. OnlyUnseenRivals'
    BY <2>1, <2>3 DEF OnlyUnseenRivals
  <2> QED BY <2>4, <2>5 DEF RivalsInv
<1>3. ASSUME NEW c \in Callers, Popen(c) PROVE RivalsInv'
  <2>1. PICK p \in Free : /\ Spawn({p}, "run", goal[c])
                          /\ rivals' = [rivals EXCEPT ![p] = unseen[c]]
                          /\ unseen' = [b \in Callers |->
                                          IF b # c /\ pc[b] = "popen"
                                          THEN unseen[b] \cup {p} ELSE {}]
    BY <1>3 DEF Popen
  <2>2. p \in Pids /\ kind[p] = "free" /\ {p} \in SUBSET Pids /\ Least({p}) = p
    BY LeastOfOne DEF Free
  <2>3. Launched' = Launched \cup {p} /\ p \notin Launched
    BY <1>0, <2>1, <2>2, SpawnType DEF Launched, Calls
  <2>4. Launched \subseteq unseen[c] /\ At(c, "lock")
    BY <1>3 DEF Popen, Uninformed
  <2>5. Uninformed'
    BY <2>1, <2>3, <2>4, AtType DEF Uninformed
  <2>6. rivals'[p] = unseen[c] /\ \A q \in Launched : rivals'[q] = rivals[q]
    BY <2>1, <2>2, <2>3 DEF TypeOK, Launched
  <2>7. OnlyUnseenRivals'
    BY <2>3, <2>4, <2>6 DEF OnlyUnseenRivals
  <2> QED BY <2>5, <2>7 DEF RivalsInv
<1> QED BY <1>1, <1>2, <1>3, FrameStep DEF LaunchStep

(* Whoever launches, starts runs by hand, clears locks, kills or is killed, *)
(* and whichever pids are used again: two runs launched by sessions and     *)
(* workers are alive together only if one of the two launches could not     *)
(* know of the other run, because that run came between its ps and its      *)
(* Popen or because its ps had failed.                                      *)
THEOREM RivalsWereUnseen == Spec => []OnlyUnseenRivals
<1>1. Init => RivalsInv
  BY DEF Init, RivalsInv, Uninformed, OnlyUnseenRivals, Launched, Callers
<1>2. RivalsInv => OnlyUnseenRivals
  BY DEF RivalsInv
<1> QED BY <1>1, <1>2, RivalsStep, MachineTypeCorrect, PTL DEF Spec
------------------------------------------------------------------------------
(* Unless claims have crossed: one worker at most is about to write the     *)
(* lock, and then none is past that, because the lock would have named it.  *)
Vacant ==
  ~crossed => \A p \in Pids : pc[p] = "claim"
                => Up = {} /\ \A q \in Pids : pc[q] = "claim" => q = p
NamedInv == Vacant /\ WorkerIsNamed

LEMMA NamedStep == TypeOK /\ TypeOK' /\ NamedInv /\ [Next]_vars => NamedInv'
<1> SUFFICES ASSUME TypeOK, TypeOK', Vacant, WorkerIsNamed, [Next]_vars, ~crossed'
             PROVE  Vacant' /\ WorkerIsNamed'
  BY DEF NamedInv, Vacant, WorkerIsNamed
<1>0. Calls /\ OnlyWorkersAct /\ Pids \subseteq Callers
  BY TypeParts DEF Callers
<1>1. CASE \A p \in Pids : kind'[p] # "worker"
  <2>1. Up' = {} /\ \A p \in Pids : pc'[p] = "idle"
    BY <1>1 DEF Up, TypeOK
  <2> QED BY <2>1 DEF Vacant, WorkerIsNamed
<1>2. CASE SameWorkers /\ \E p \in Pids : kind'[p] = "worker"
  <2>1. ~crossed
    BY <1>2 DEF SameWorkers
  <2> QED BY <1>2, <2>1 DEF SameWorkers, Vacant, WorkerIsNamed
<1>3. ASSUME NEW p \in Pids, MayClaim(p) PROVE Vacant' /\ WorkerIsNamed'
  <2>1. /\ ~Alive(workerLock) /\ At(p, "claim") /\ UNCHANGED <<kind, workerLock>>
        /\ pc[p] = "born"
    BY <1>3 DEF MayClaim, procs, locks
  <2>2. ~crossed /\ \A q \in Pids : pc[q] # "claim"
    BY <1>3 DEF MayClaim, TypeOK
  <2>3. Up = {}
    BY <2>1, <2>2, MachineAssumption DEF Alive, Up, WorkerIsNamed
  <2>4. Up' = {}
    BY <1>0, <2>1, <2>3, AtType DEF Up
  <2>5. \A q \in Pids : pc'[q] = "claim" => q = p
    BY <1>0, <2>1, <2>2, AtType
  <2> QED BY <2>4, <2>5 DEF Vacant, WorkerIsNamed
<1>4. ASSUME NEW p \in Pids, Claim(p) PROVE Vacant' /\ WorkerIsNamed'
  <2>1. At(p, "idle") /\ pc[p] = "claim" /\ kind' = kind /\ workerLock' = p
        /\ crossed' = crossed
    BY <1>4 DEF Claim, procs, history
  <2>2. Up = {} /\ \A q \in Pids : pc[q] = "claim" => q = p
    BY <2>1 DEF Vacant
  <2>3. Up' \subseteq {p} /\ \A q \in Pids : pc'[q] # "claim"
    BY <1>0, <2>1, <2>2, AtType DEF Up
  <2> QED BY <2>1, <2>3 DEF Vacant, WorkerIsNamed
<1>5. ASSUME NEW p \in Pids, Leave(p) PROVE Vacant' /\ WorkerIsNamed'
  <2>1. Vanish({p}) /\ Reset({p}) /\ {p} \in SUBSET Pids /\ {p} \in SUBSET Callers
        /\ p \in Up
    BY <1>0, <1>5 DEF Leave
  <2>2. CASE crossed
    <3>1. \A q \in Pids : kind'[q] # "worker"
      BY <2>1, <2>2, VanishType DEF Vanish
    <3> QED BY <1>1, <3>1
  <2>3. CASE ~crossed
    <3>1. Up = {p} /\ \A q \in Pids : pc[q] # "claim"
      BY <2>1, <2>3 DEF WorkerIsNamed, Vacant
    <3>2. Up' = {} /\ \A q \in Pids : pc'[q] # "claim"
      BY <1>0, <2>1, <3>1, VanishType, ResetType DEF Up
    <3> QED BY <3>2 DEF Vacant, WorkerIsNamed
  <2> QED BY <2>2, <2>3
<1> QED BY <1>1, <1>2, <1>3, <1>4, <1>5, FrameStep DEF ClaimStep

(* However workers are started, stopped and killed, and whichever pids are  *)
(* used again: unless two of the workers there are have looked at the lock  *)
(* before either wrote it, a worker past claim_worker_lock is the one that  *)
(* .worker.lock names.                                                      *)
THEOREM TheLockNamesTheWorker == Spec => []WorkerIsNamed
<1>1. Init => NamedInv
  BY DEF Init, NamedInv, Vacant, Up, WorkerIsNamed, Callers
<1>2. NamedInv => WorkerIsNamed
  BY DEF NamedInv
<1> QED BY <1>1, <1>2, NamedStep, MachineTypeCorrect, PTL DEF Spec

(* ...and so, with the same proviso, only one is past claim_worker_lock.    *)
THEOREM OnlyOneWorker == Spec => []OneWorker
<1>1. WorkerIsNamed => OneWorker
  BY DEF WorkerIsNamed, OneWorker
<1> QED BY <1>1, TheLockNamesTheWorker, PTL
==============================================================================
