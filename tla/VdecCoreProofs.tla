-------------------------- MODULE VdecCoreProofs --------------------------
(***************************************************************************)
(* Proofs about VdecCore for every set of instances, cores and bounds.     *)
(***************************************************************************)
EXTENDS VdecCore, TLAPS

(* A port and the instances it drives: the pair of a port is the port and  *)
(* the slave it may have, and every instance belongs to one port.          *)
LEMMA PairFacts ==
  /\ \A v \in Vdec : Partner(v) \in Vdec \cup {NoVdec} /\ Pair(v) \subseteq Vdec /\ v \in Pair(v)
  /\ \A v \in Vdec : PortOf(v) \in Port /\ v \in Pair(PortOf(v))
  /\ \A p \in Port : p \in Vdec /\ \A v \in Pair(p) : PortOf(v) = p
  /\ \A p \in Port : SlaveOf(p) = Partner(p) /\ Partner(p) # p
<1>1. \A v \in Vdec : SlaveOf(v) \in Vdec \cup {NoVdec}
                      /\ (SlaveOf(v) # NoVdec => MasterOf[SlaveOf(v)] = v)
  BY DEF SlaveOf
<1>2. \A v \in Vdec : MasterOf[v] \in Vdec \cup {NoVdec}
  BY VdecAssumption
<1>3. \A v \in Vdec : Partner(v) \in Vdec \cup {NoVdec} /\ Pair(v) \subseteq Vdec /\ v \in Pair(v)
  BY <1>1, <1>2, VdecAssumption DEF Partner, Pair
<1>4. \A p \in Port : p \in Vdec /\ SlaveOf(p) = Partner(p) /\ Partner(p) # p
  BY <1>1, VdecAssumption DEF Port, Partner
<1>5. ASSUME NEW v \in Vdec PROVE PortOf(v) \in Port /\ v \in Pair(PortOf(v))
  <2>1. CASE MasterOf[v] = NoVdec
    BY <2>1, <1>3 DEF PortOf, Port
  <2>2. CASE MasterOf[v] # NoVdec
    <3>1. MasterOf[v] \in Port /\ v \notin Port
      BY <2>2, VdecAssumption DEF Port
    <3>2. SlaveOf(MasterOf[v]) = v
      BY <3>1, VdecAssumption DEF SlaveOf
    <3>3. Partner(MasterOf[v]) = v
      BY <3>1, <3>2 DEF Partner, Port
    <3> QED
      BY <2>2, <3>1, <3>3, VdecAssumption DEF PortOf, Pair
  <2> QED BY <2>1, <2>2
<1>6. ASSUME NEW p \in Port, NEW v \in Pair(p) PROVE PortOf(v) = p
  <2>1. v = p \/ (v = SlaveOf(p) /\ v # NoVdec)
    BY <1>4 DEF Pair
  <2>2. CASE v = p
    BY <2>2 DEF PortOf, Port
  <2>3. CASE v = SlaveOf(p) /\ v # NoVdec
    BY <2>3, <1>1, <1>4, VdecAssumption DEF PortOf
  <2> QED BY <2>1, <2>2, <2>3
<1> QED
  BY <1>3, <1>4, <1>5, <1>6

(* The pair of either layer is the pair of the port.                       *)
LEMMA PairOfPair ==
  ASSUME NEW p \in Port, NEW w \in Pair(p), NEW v \in Pair(w)
  PROVE  v \in Vdec /\ PortOf(v) = p
<1>1. w \in Vdec /\ PortOf(w) = p /\ p \in Vdec /\ \A x \in Pair(p) : PortOf(x) = p
  BY PairFacts
<1>2. CASE w = p
  BY <1>1, <1>2, PairFacts
<1>3. CASE w # p
  <2>1. MasterOf[w] = p
    BY <1>1, <1>3 DEF PortOf
  <2>2. Partner(w) = p
    BY <2>1, <1>1, VdecAssumption DEF Partner
  <2>3. v = w \/ v = p
    BY <2>2 DEF Pair
  <2> QED
    BY <1>1, <2>3, PairFacts
<1> QED
  BY <1>2, <1>3

-----------------------------------------------------------------------------
LEMMA InitTypeOK == Init => TypeOK
<1> SUFFICES ASSUME Init PROVE TypeOK
  OBVIOUS
<1>1. 0 \in 0..MaxInput /\ MaxRoom \in 0..MaxRoom /\ 0 \in 0..MaxPipe /\ 1 \in 0..MaxSem
  BY BoundAssumption
<1>2. Port \subseteq Vdec
  BY PairFacts
<1> QED
  BY <1>1, <1>2 DEF Init, TypeOK, ThreadPc, UserPc, Status

LEMMA UpType ==
  ASSUME sem \in 0..MaxSem, up
  PROVE  sem' \in 0..MaxSem
  BY BoundAssumption DEF up

(* What the election of a core may pick: cores of the mask it was asked    *)
(* for, all of them free.                                                  *)
LEMMA ElectedFacts ==
  ASSUME TypeOK, NEW c \in Core \ core_sched, NEW v \in Vdec, Elected(c, v)
  PROVE  /\ v \in connected
         /\ ReadyMask(v, ScheduleMask(v, c)) \in SUBSET Core
         /\ ReadyMask(v, ScheduleMask(v, c)) # {}
         /\ ReadyMask(v, ScheduleMask(v, c)) \cap core_sched = {}
<1>1. v \in connected /\ ReadyMask(v, ScheduleMask(v, c)) # {}
  BY DEF Elected, Electable, Asked
<1>2. ScheduleMask(v, c) \subseteq Core /\ ScheduleMask(v, c) \cap core_sched = {}
  BY DEF ScheduleMask, TypeOK
<1>3. ReadyMask(v, ScheduleMask(v, c)) \subseteq ScheduleMask(v, c)
  BY DEF ReadyMask
<1> QED BY <1>1, <1>2, <1>3

LEMMA NextTypeOK ==
  ASSUME TypeOK, ConsumedInv, [Next]_vars
  PROVE  TypeOK'
<1> USE DEF schedVars, flagVars, threadVars, vdecVars, inputVars, driverVars, userVars
<1> USE DEF Status, ThreadPc, UserPc
<1>0. InputCore \subseteq Core /\ Core \subseteq Nat /\ Stream \subseteq Vdec
  BY CoreAssumption, VdecAssumption
<1>1. ASSUME Collect PROVE TypeOK'
  <2>1. input' \in [Vdec -> 0..MaxInput] /\ consumed' \in [Vdec -> BOOLEAN]
    BY <1>1, BoundAssumption DEF Collect, ConsumedInv, TypeOK
  <2>2. sem' \in 0..MaxSem
    BY <1>1, BoundAssumption DEF Collect, TypeOK
  <2>3. buff_flag' \in SUBSET Core /\ stream_buff_flag' \in SUBSET Core
    <3>1. UpdateBuffStatus(input') /\ \A v \in connected : core_mask[v] \subseteq Core
      BY <1>1 DEF Collect, TypeOK
    <3> QED BY <1>0, <3>1 DEF UpdateBuffStatus
  <2>4. core_sched' \in SUBSET Core /\ power_ref' \in SUBSET Core
        /\ sched_mask' \in [Vdec -> SUBSET Core]
    BY <1>1 DEF Collect, TypeOK
  <2>5. last' \in [Core -> Vdec \cup {NoVdec}] /\ active_hw' \in [Core -> Vdec \cup {NoVdec}]
    BY <1>1 DEF Collect, Dropped, TypeOK
  <2>6. connected' \in SUBSET Vdec /\ before' \in SUBSET (Vdec \X Vdec)
        /\ disconnecting' \in SUBSET Vdec /\ idx' \in Nat /\ low' \in SUBSET Vdec
    BY <1>0, <1>1 DEF Collect, ReadLevels, TypeOK
  <2> QED
    BY <1>1, <2>1, <2>2, <2>3, <2>4, <2>5, <2>6 DEF Collect, TypeOK
<1>2. ASSUME NEW v \in Vdec, Elect(v) PROVE TypeOK'
  <2>1. idx \in Core \ core_sched /\ Elected(idx, v)
    BY <1>2 DEF Elect
  <2>2. sel' \in SUBSET Core
    BY <1>2, <2>1, ElectedFacts DEF Elect
  <2>3. run_flag' \in BOOLEAN
    BY <1>2 DEF Elect, LookAt, TypeOK
  <2>4. buff_flag' \in SUBSET Core
    BY <1>2, <2>1 DEF Elect, LookAt, TypeOK
  <2>5. need_more' \in [Vdec -> SUBSET {"RUN", "DIRTY", "MORE"}]
    BY <1>2 DEF Elect, LookAt, TypeOK
  <2> QED
    BY <1>2, <2>2, <2>3, <2>4, <2>5 DEF Elect, TypeOK
<1>3. ASSUME ElectNone PROVE TypeOK'
  <2>1. run_flag' \in BOOLEAN
    BY <1>3 DEF ElectNone, LookAt, TypeOK
  <2>4. buff_flag' \in SUBSET Core
    BY <1>3 DEF ElectNone, LookAt, BackCore, TypeOK
  <2>2. need_more' \in [Vdec -> SUBSET {"RUN", "DIRTY", "MORE"}]
    BY <1>3 DEF ElectNone, LookAt, TypeOK
  <2>3. idx' \in Nat
    BY <1>0, <1>3 DEF ElectNone
  <2>5. low' \in SUBSET Vdec
    BY <1>0, <1>3 DEF ElectNone, ReadLevels
  <2> QED
    BY <1>3, <2>1, <2>2, <2>3, <2>4, <2>5 DEF ElectNone, TypeOK
<1>4. ASSUME Grant PROVE TypeOK'
  BY <1>4 DEF Grant, TypeOK
<1>5. ASSUME LoadSched PROVE TypeOK'
  BY <1>5 DEF LoadSched, TypeOK
<1>6. ASSUME Run PROVE TypeOK'
  BY <1>6, UpType DEF Run, TypeOK
<1>7. ASSUME NEW v \in Vdec, Retire(v) PROVE TypeOK'
  BY <1>7 DEF Retire, TypeOK
<1>8. ASSUME Complete PROVE TypeOK'
  BY <1>8 DEF Complete, TypeOK
<1>9. ASSUME EndPass PROVE TypeOK'
  BY <1>9, UpType DEF EndPass, TypeOK
<1>10. ASSUME NEW v \in Vdec, NEW m \in SUBSET Core, NEW used \in BOOLEAN, NEW switch \in BOOLEAN,
              FinishRun(v, m, used, switch)
       PROVE  TypeOK'
  <2>1. active_mask' \in [Vdec -> SUBSET Core] /\ status' \in [Vdec -> Status]
    BY <1>10 DEF FinishRun, TypeOK
  <2>6. cb' \in [Vdec -> SUBSET Core]
    BY <1>10 DEF FinishRun, Named, TypeOK
  <2>7. sched' \in [Vdec -> BOOLEAN]
    <3>1. sched \in [Vdec -> BOOLEAN] /\ SetNextSched(v, switch) \in [Vdec -> BOOLEAN]
      BY DEF SetNextSched, TypeOK
    <3>2. sched' = sched \/ sched' = SetNextSched(v, switch)
      BY <1>10 DEF FinishRun
    <3> QED BY <3>1, <3>2
  <2>2. pipe' \in [Vdec -> 0..MaxPipe] /\ room' \in [Vdec -> 0..MaxRoom]
    BY SMTT(30), <1>10, BoundAssumption DEF FinishRun, TypeOK
  <2>3. input' \in [Vdec -> 0..MaxInput]
    BY <1>10, BoundAssumption DEF FinishRun, TypeOK
  <2>4. consumed' \in [Vdec -> BOOLEAN]
    <3>1. consumed' = consumed \/ consumed' = [consumed EXCEPT ![v] = TRUE]
      BY <1>10 DEF FinishRun
    <3>2. consumed \in [Vdec -> BOOLEAN]
      BY DEF TypeOK
    <3> QED BY <3>1, <3>2
  <2>5. need_more' \in [Vdec -> SUBSET {"RUN", "DIRTY", "MORE"}]
    BY <1>10 DEF FinishRun, TypeOK
  <2> QED
    BY <1>10, <2>1, <2>2, <2>3, <2>4, <2>5, <2>6, <2>7 DEF FinishRun, TypeOK
<1>11. ASSUME NEW v \in Vdec, Callback(v) PROVE TypeOK'
  BY <1>11, UpType DEF Callback, TypeOK
<1>12. ASSUME NEW v \in Vdec, AddChunk(v) PROVE TypeOK'
  BY <1>12, UpType, BoundAssumption DEF AddChunk, TypeOK
<1>13. ASSUME NEW v \in Vdec, AddStream(v) PROVE TypeOK'
  BY <1>13, UpType, BoundAssumption DEF AddStream, TypeOK
<1>14. ASSUME NEW v \in Vdec, VfPut(v) PROVE TypeOK'
  BY <1>14, UpType, BoundAssumption DEF VfPut, TypeOK
<1>15. ASSUME NEW p \in Port, Open(p) PROVE TypeOK'
  BY <1>15, PairFacts, CoreAssumption DEF Open, TypeOK
<1>16. ASSUME NEW p \in Port, Connect(p) PROVE TypeOK'
  <2>1. sem' \in 0..MaxSem
    BY <1>16, UpType DEF Connect, TypeOK
  <2>2. Pair(p) \subseteq Vdec /\ p \in Vdec
    BY PairFacts
  <2>3. CASE status[p] # "DISCONNECTED"
    BY <1>16, <2>3 DEF Connect, TypeOK
  <2>4. CASE status[p] = "DISCONNECTED"
    <3>1. connected' \in SUBSET Vdec
      BY <1>16, <2>2, <2>4 DEF Connect, TypeOK
    <3>2. before' \in SUBSET (Vdec \X Vdec)
      BY <1>16, <2>2, <2>4 DEF Connect, TypeOK
    <3>3. status' \in [Vdec -> Status] /\ next_status' \in [Vdec -> Status]
      BY <1>16, <2>4 DEF Connect, TypeOK
    <3>4. done' \in [Vdec -> BOOLEAN]
      <4>1. done' = [v \in Vdec |-> IF v \in Pair(p) THEN FALSE ELSE done[v]]
        BY <1>16, <2>4 DEF Connect
      <4>2. done \in [Vdec -> BOOLEAN]
        BY DEF TypeOK
      <4> QED BY <4>1, <4>2
    <3> QED
      BY <1>16, <2>1, <3>1, <3>2, <3>3, <3>4 DEF Connect, TypeOK
  <2> QED
    BY <2>3, <2>4
<1>17. ASSUME NEW p \in Port, NEW why \in {"reset", "release"}, Disconnect(p, why) PROVE TypeOK'
  BY <1>17, UpType DEF Disconnect, TypeOK
<1>18. ASSUME NEW p \in Port, WaitDone(p) PROVE TypeOK'
  BY <1>18 DEF WaitDone, TypeOK
<1>19. ASSUME NEW p \in Port, WaitTimeout(p) PROVE TypeOK'
  BY <1>19 DEF WaitTimeout, TypeOK
<1>20. ASSUME NEW p \in Port, Reset(p) PROVE TypeOK'
  <2>1. p \in Vdec
    BY PairFacts
  <2>2. pipe' \in [Vdec -> 0..MaxPipe] /\ room' \in [Vdec -> 0..MaxRoom]
    BY <1>20, BoundAssumption DEF Reset, TypeOK
  <2>3. input' \in [Vdec -> 0..MaxInput] /\ consumed' \in [Vdec -> BOOLEAN]
    BY <1>20, <2>1, BoundAssumption DEF Reset, TypeOK
  <2> QED
    BY <1>20, <2>2, <2>3 DEF Reset, TypeOK
<1>21. ASSUME NEW p \in Port, DriverRemove(p) PROVE TypeOK'
  BY <1>21 DEF DriverRemove, TypeOK
<1>22. ASSUME NEW p \in Port, ClearLoad(p) PROVE TypeOK'
  <2>1. at' \in [Port -> UserPc]
    BY <1>22 DEF ClearLoad, TypeOK
  <2>2. clear_seen' \in [Port -> SUBSET Core]
    BY <1>22 DEF ClearLoad, TypeOK
  <2>3. UNCHANGED <<sem, schedVars, flagVars, threadVars, vdecVars, inputVars, driverVars, op, who>>
    BY <1>22 DEF ClearLoad
  <2> QED
    BY <2>1, <2>2, <2>3 DEF TypeOK
<1>23. ASSUME NEW p \in Port, ClearStore(p) PROVE TypeOK'
  BY <1>23 DEF ClearStore, Dropped, TypeOK
<1>24. ASSUME NEW p \in Port, Destroy(p) PROVE TypeOK'
  <2>1. who[p] \in Vdec /\ p \in Vdec /\ SlaveOf(p) \in Vdec \cup {NoVdec}
    <3>1. p \in Vdec /\ SlaveOf(p) = Partner(p)
      BY PairFacts
    <3> QED BY <3>1, PairFacts DEF TypeOK
  <2>2. pipe' \in [Vdec -> 0..MaxPipe] /\ room' \in [Vdec -> 0..MaxRoom]
    BY <1>24, <2>1, BoundAssumption DEF Destroy, TypeOK
  <2>3. input' \in [Vdec -> 0..MaxInput] /\ consumed' \in [Vdec -> BOOLEAN]
        /\ need_more' \in [Vdec -> SUBSET {"RUN", "DIRTY", "MORE"}]
    BY <1>24, <2>1, BoundAssumption DEF Destroy, TypeOK
  <2>4. at' \in [Port -> UserPc]
    BY <1>24 DEF Destroy, TypeOK
  <2>6. who \in [Port -> Vdec]
    BY DEF TypeOK
  <2>5. who' \in [Port -> Vdec]
    <3>1. CASE who[p] = p /\ SlaveOf(p) # NoVdec
      BY <1>24, <2>1, <2>6, <3>1 DEF Destroy
    <3>2. CASE ~ (who[p] = p /\ SlaveOf(p) # NoVdec)
      BY <1>24, <2>1, <2>6, <3>2 DEF Destroy
    <3> QED BY <3>1, <3>2
  <2> QED
    BY <1>24, <2>1, <2>2, <2>3, <2>4, <2>5 DEF Destroy, TypeOK
<1>25. CASE UNCHANGED vars
  BY <1>25 DEF vars, TypeOK
<1> QED
  BY <1>1, <1>2, <1>3, <1>4, <1>5, <1>6, <1>7, <1>8, <1>9, <1>10, <1>11, <1>12, <1>13, <1>14,
     <1>15, <1>16, <1>17, <1>18, <1>19, <1>20, <1>21, <1>22, <1>23, <1>24, <1>25
  DEF Next, CoreThread, Driver, Data, User

(* A chunk that is flagged consumed is still queued, so the collection can *)
(* take it out.                                                            *)
LEMMA NextConsumed ==
  ASSUME TypeOK, ConsumedInv, [Next]_vars
  PROVE  ConsumedInv'
<1> USE DEF schedVars, flagVars, threadVars, vdecVars, inputVars, driverVars, userVars
<1>1. ASSUME UNCHANGED <<input, consumed>> PROVE ConsumedInv'
  BY <1>1 DEF ConsumedInv
<1>2. ASSUME Collect PROVE ConsumedInv'
  BY <1>2 DEF Collect, ConsumedInv, TypeOK
<1>3. ASSUME CoreThread, ~ Collect PROVE ConsumedInv'
  BY <1>1, <1>3 DEF CoreThread, Elect, ElectNone, Grant, LoadSched, Run, Retire, Complete, EndPass
<1>4. ASSUME NEW v \in Vdec, NEW m \in SUBSET Core, NEW used \in BOOLEAN, NEW switch \in BOOLEAN,
             FinishRun(v, m, used, switch)
      PROVE  ConsumedInv'
  BY <1>4 DEF FinishRun, ConsumedInv, TypeOK
<1>5. ASSUME NEW v \in Vdec, AddChunk(v) PROVE ConsumedInv'
  BY <1>5 DEF AddChunk, ConsumedInv, TypeOK
<1>6. ASSUME NEW v \in Vdec, AddStream(v) PROVE ConsumedInv'
  BY <1>6 DEF AddStream, ConsumedInv, TypeOK
<1>7. ASSUME NEW v \in Vdec, Callback(v) \/ VfPut(v) PROVE ConsumedInv'
  BY <1>1, <1>7 DEF Callback, VfPut
<1>8. ASSUME NEW p \in Port, Reset(p) PROVE ConsumedInv'
  BY <1>8 DEF Reset, ConsumedInv, TypeOK
<1>9. ASSUME NEW p \in Port, Destroy(p) PROVE ConsumedInv'
  BY <1>9 DEF Destroy, ConsumedInv, TypeOK
<1>10. ASSUME NEW p \in Port, User(p), ~ Reset(p), ~ Destroy(p) PROVE ConsumedInv'
  BY <1>1, <1>10 DEF User, Open, Connect, Disconnect, WaitDone, WaitTimeout, DriverRemove,
                     ClearLoad, ClearStore
<1>11. CASE UNCHANGED vars
  BY <1>1, <1>11 DEF vars
<1> QED
  BY <1>2, <1>3, <1>4, <1>5, <1>6, <1>7, <1>8, <1>9, <1>10, <1>11 DEF Next, Driver, Data

-----------------------------------------------------------------------------
(* Outside open, wait1 and wait2 the core thread holds nothing of the port. *)
LEMMA NotHeld ==
  ASSUME UserInv, NEW p \in Port, at[p] \notin {"open", "wait1", "wait2"}, NEW v \in Pair(p)
  PROVE  v \in Vdec /\ PortOf(v) = p /\ ~ Held(v)
  BY PairFacts DEF UserInv, HeldInv

(* An instance on a list is managed, and only such an instance has cores.  *)
LEMMA NextList ==
  ASSUME ~ DisconnectMayTimeout, IndInv, [Next]_vars
  PROVE  ListInv'
<1> USE DEF schedVars, flagVars, threadVars, vdecVars, inputVars, driverVars, userVars
<1> USE DEF IndInv
<1>1. ASSUME UNCHANGED <<connected, disconnecting, retiree, status, active_mask, sched_mask, done>>,
             pc' = pc \/ (disconnecting = {} /\ pc # "complete" /\ pc' # "complete")
                      \/ ({pc, pc'} \cap {"down", "complete"} = {})
      PROVE  ListInv'
  BY <1>1 DEF ListInv, Managed, Held
<1>2. ASSUME Collect PROVE ListInv'
  BY <1>2 DEF Collect, Leaves, ListInv, Managed, Held, TypeOK
<1>3. ASSUME NEW v \in Vdec, Elect(v) PROVE ListInv'
  BY <1>1, <1>3 DEF Elect
<1>4. ASSUME ElectNone \/ LoadSched \/ Run \/ EndPass PROVE ListInv'
  BY <1>1, <1>4 DEF ElectNone, LoadSched, Run, EndPass
<1>5. ASSUME Grant PROVE ListInv'
  BY <1>5 DEF Grant, ListInv, CoreInv, Managed, Held, TypeOK
<1>6. ASSUME NEW v \in Vdec, Retire(v) PROVE ListInv'
  BY <1>6 DEF Retire, ListInv, Managed, Held, TypeOK
<1>7. ASSUME Complete PROVE ListInv'
  BY <1>7 DEF Complete, ListInv, Managed, Held, TypeOK
<1>8. ASSUME NEW v \in Vdec, NEW m \in SUBSET Core, NEW used \in BOOLEAN, NEW switch \in BOOLEAN,
             FinishRun(v, m, used, switch)
      PROVE  ListInv'
  BY <1>8 DEF FinishRun, ListInv, Managed, Held, TypeOK
<1>9. ASSUME NEW v \in Vdec, Callback(v) \/ Data(v) PROVE ListInv'
  BY <1>1, <1>9 DEF Callback, Data, AddChunk, AddStream, VfPut
<1>10. ASSUME NEW p \in Port, Open(p) PROVE ListInv'
  BY <1>10, NotHeld DEF Open, ListInv, Managed, Held, TypeOK
<1>11. ASSUME NEW p \in Port, Connect(p) PROVE ListInv'
  <2>1. CASE status[p] # "DISCONNECTED"
    BY <1>1, <1>11, <2>1 DEF Connect
  <2>2. CASE status[p] = "DISCONNECTED"
    <3>1. \A v \in Pair(p) : v \in Vdec /\ ~ Held(v) /\ ~ Managed(v)
      BY <1>11, NotHeld DEF Connect, ListInv, Held
    <3>2. /\ connected' = connected \cup Pair(p)
          /\ UNCHANGED <<pc, retiree, disconnecting, active_mask, sched_mask>>
      BY <1>11, <2>2 DEF Connect
    <3>3. \A v \in Vdec : status'[v] = IF v \in Pair(p) THEN "CONNECTED" ELSE status[v]
      BY <1>11, <2>2 DEF Connect
    <3>4. \A v \in Vdec : done'[v] = IF v \in Pair(p) THEN FALSE ELSE done[v]
      BY <1>11, <2>2 DEF Connect
    <3>5. \A v \in Pair(p) : active_mask[v] = {}
      BY <3>1 DEF ListInv, Held, TypeOK
    <3>6. disconnecting' \cap connected' = {} /\ (disconnecting' # {} => pc' # "down")
      BY <3>1, <3>2 DEF ListInv, Held
    <3>7. pc' = "complete" => retiree' \in Vdec \ (connected' \cup disconnecting')
      BY <3>1, <3>2 DEF ListInv, Held
    <3>8. \A v \in Vdec : Managed(v)' <=> v \in connected' \cup disconnecting'
      BY <3>1, <3>2, <3>3 DEF ListInv, Managed
    <3>9. \A v \in Vdec : done'[v] => ~ Held(v)'
      BY <3>2, <3>4 DEF ListInv, Held
    <3> QED
      BY <3>2, <3>3, <3>5, <3>6, <3>7, <3>8, <3>9 DEF ListInv
  <2> QED BY <2>1, <2>2
<1>12. ASSUME NEW p \in Port, WaitDone(p) PROVE ListInv'
  BY <1>12 DEF WaitDone, ListInv, Managed, Held, TypeOK
<1>13. ASSUME NEW p \in Port, DriverRemove(p) PROVE ListInv'
  <2>1. who[p] \in Vdec /\ ~ Held(who[p])
    BY <1>13, NotHeld DEF DriverRemove, UserInv, PortInv
  <2> QED
    BY <1>13, <2>1 DEF DriverRemove, ListInv, Managed, Held, TypeOK
<1>14. ASSUME NEW p \in Port, Destroy(p) PROVE ListInv'
  <2>1. who[p] \in Vdec /\ ~ Held(who[p])
    BY <1>14, NotHeld DEF Destroy, UserInv, PortInv
  <2> QED
    BY <1>14, <2>1 DEF Destroy, ListInv, Managed, Held, TypeOK
<1>15. ASSUME NEW p \in Port, ClearStore(p) PROVE ListInv'
  BY <1>15 DEF ClearStore, UserInv, PortInv
<1>16. ASSUME NEW p \in Port,
              WaitTimeout(p) \/ Reset(p) \/ ClearLoad(p)
                \/ \E why \in {"reset", "release"} : Disconnect(p, why)
       PROVE  ListInv'
  BY <1>1, <1>16 DEF WaitTimeout, Reset, ClearLoad, Disconnect
<1>17. CASE UNCHANGED vars
  BY <1>1, <1>17 DEF vars
<1> QED
  BY <1>2, <1>3, <1>4, <1>5, <1>6, <1>7, <1>8, <1>9, <1>10, <1>11, <1>12, <1>13, <1>14, <1>15,
     <1>16, <1>17 DEF Next, CoreThread, Driver, User

(* The books of the cores: no core is lost, leaked or granted twice.       *)
LEMMA NextCore ==
  ASSUME ~ DisconnectMayTimeout, IndInv, [Next]_vars
  PROVE  CoreInv'
<1> USE DEF schedVars, flagVars, threadVars, vdecVars, inputVars, driverVars, userVars
<1> USE DEF IndInv
<1>1. ASSUME UNCHANGED <<pc, worker, sel, core_sched, loaded, connected, sched_mask, active_mask>>
      PROVE  CoreInv'
  BY <1>1 DEF CoreInv, CoreExclusive
<1>2. ASSUME Collect PROVE CoreInv'
  <2>1. \A v \in Vdec : sched_mask'[v] = sched_mask[v] \cap active_mask[v]
    BY <1>2 DEF Collect, ListInv, TypeOK
  <2>2. core_sched' = core_sched \ UNION {Released(v) : v \in connected}
        /\ pc = "down" /\ pc' = "elect"
    BY <1>2 DEF Collect
  <2>3. ASSUME NEW v \in Vdec, NEW c \in sched_mask'[v] PROVE c \in core_sched'
    <3>1. c \in sched_mask[v] /\ c \in active_mask[v] /\ c \in core_sched
      BY <2>1, <2>2, <2>3 DEF CoreInv
    <3>2. \A w \in Vdec : c \notin Released(w)
      BY <3>1 DEF Released, CoreInv, CoreExclusive
    <3> QED BY <2>2, <3>1, <3>2 DEF TypeOK
  <2>4. ASSUME NEW c \in core_sched' PROVE \E v \in connected' : c \in sched_mask'[v]
    <3>1. PICK v \in connected : c \in sched_mask[v]
      BY <2>2, <2>4 DEF CoreInv
    <3>2. v \in Vdec /\ c \in active_mask[v]
      BY <2>2, <2>4, <3>1 DEF Released, TypeOK
    <3>3. v \in connected'
      BY <1>2, <3>1, <3>2 DEF Collect, Leaves, ListInv
    <3> QED BY <2>1, <3>1, <3>2, <3>3
  <2>5. CoreExclusive'
    BY <2>1 DEF CoreInv, CoreExclusive
  <2> QED
    BY <2>2, <2>3, <2>4, <2>5 DEF CoreInv
<1>3. ASSUME NEW v \in Vdec, Elect(v) PROVE CoreInv'
  <2>1. idx \in Core \ core_sched /\ Elected(idx, v)
    BY <1>3 DEF Elect
  <2>2. v \in connected /\ sel' # {} /\ sel' \cap core_sched = {}
    BY <1>3, <2>1, ElectedFacts DEF Elect
  <2> QED
    BY <1>3, <2>2 DEF Elect, CoreInv, CoreExclusive
<1>4. ASSUME Grant PROVE CoreInv'
  BY <1>4 DEF Grant, ListInv, CoreInv, CoreExclusive, TypeOK
<1>5. ASSUME LoadSched PROVE CoreInv'
  BY <1>5 DEF LoadSched, CoreInv, CoreExclusive
<1>6. ASSUME Run PROVE CoreInv'
  BY <1>6 DEF Run, ListInv, CoreInv, CoreExclusive, TypeOK
<1>7. ASSUME ElectNone \/ Complete \/ EndPass \/ \E v \in Vdec : Retire(v) PROVE CoreInv'
  BY <1>7 DEF ElectNone, Complete, EndPass, Retire, CoreInv, CoreExclusive
<1>8. ASSUME NEW v \in Vdec, NEW m \in SUBSET Core, NEW used \in BOOLEAN, NEW switch \in BOOLEAN,
             FinishRun(v, m, used, switch)
      PROVE  CoreInv'
  <2>1. UNCHANGED <<pc, worker, sel, core_sched, loaded, sched_mask, connected>>
    BY <1>8 DEF FinishRun
  <2>2. active_mask' = [active_mask EXCEPT ![v] = @ \ m] /\ m \subseteq Started(v)
    BY <1>8 DEF FinishRun
  <2>3. ASSUME pc \in {"load", "run"} PROVE sel \subseteq active_mask'[worker]
    <3>1. worker \in Vdec /\ sel \subseteq active_mask[worker]
      BY <2>3 DEF CoreInv, TypeOK
    <3>2. worker = v => m \cap sel = {}
      BY <2>2, <2>3 DEF Started
    <3> QED BY <2>2, <3>1, <3>2 DEF TypeOK
  <2> QED
    BY <2>1, <2>3 DEF CoreInv, CoreExclusive
<1>9. ASSUME NEW v \in Vdec, Callback(v) \/ Data(v) PROVE CoreInv'
  BY <1>1, <1>9 DEF Callback, Data, AddChunk, AddStream, VfPut
<1>10. ASSUME NEW p \in Port, Open(p) PROVE CoreInv'
  <2>1. \A v \in Vdec : v \in Pair(p) => v \notin connected \cup {worker}
    BY <1>10 DEF Open
  <2>2. \A v \in Vdec : sched_mask'[v] = IF v \in Pair(p) THEN {} ELSE sched_mask[v]
    BY <1>10 DEF Open
  <2>3. \A v \in Vdec : active_mask'[v] = IF v \in Pair(p) THEN {} ELSE active_mask[v]
    BY <1>10 DEF Open
  <2>4. UNCHANGED <<pc, worker, sel, core_sched, loaded, connected>>
    BY <1>10 DEF Open
  <2> QED
    BY <2>1, <2>2, <2>3, <2>4 DEF CoreInv, CoreExclusive, TypeOK
<1>11. ASSUME NEW p \in Port, Connect(p) PROVE CoreInv'
  BY <1>11 DEF Connect, CoreInv, CoreExclusive
<1>12. ASSUME NEW p \in Port, Destroy(p) PROVE CoreInv'
  <2>1. who[p] \in Vdec /\ ~ Held(who[p])
    BY <1>12, NotHeld DEF Destroy, UserInv, PortInv
  <2> QED
    BY <1>12, <2>1 DEF Destroy, CoreInv, CoreExclusive, Held, TypeOK
<1>13. ASSUME NEW p \in Port, ClearStore(p) PROVE CoreInv'
  BY <1>13 DEF ClearStore, UserInv, PortInv
<1>14. ASSUME NEW p \in Port,
              WaitDone(p) \/ WaitTimeout(p) \/ Reset(p) \/ DriverRemove(p) \/ ClearLoad(p)
                \/ \E why \in {"reset", "release"} : Disconnect(p, why)
       PROVE  CoreInv'
  BY <1>1, <1>14 DEF WaitDone, WaitTimeout, Reset, DriverRemove, ClearLoad, Disconnect
<1>15. CASE UNCHANGED vars
  BY <1>1, <1>15 DEF vars
<1> QED
  BY <1>2, <1>3, <1>4, <1>5, <1>6, <1>7, <1>8, <1>9, <1>10, <1>11, <1>12, <1>13, <1>14, <1>15
  DEF Next, CoreThread, Driver, User

-----------------------------------------------------------------------------
(* A step of the core thread or of a driver, which moves no user thread,   *)
(* keeps UserInv if it makes nobody held, drops nobody from the list       *)
(* without a request and makes nobody uninitialized.                       *)
LEMMA NextUserOther ==
  ASSUME IndInv, UNCHANGED <<at, op, who, next_status>>, connected' \subseteq connected,
         \A v \in Vdec : Held(v)' => Held(v),
         \A v \in connected \ connected' : next_status[v] = "DISCONNECTED" /\ status[v] = "CONNECTED",
         \A v \in Vdec : status'[v] = status[v] \/ status'[v] # "UNINITIALIZED"
  PROVE  UserInv'
<1> USE DEF IndInv
<1>1. ASSUME NEW v \in Vdec PROVE HeldInv(v)'
  BY DEF HeldInv, UserInv
<1>2. ASSUME NEW p \in Port PROVE PortInv(p)'
  <2>1. p \in Vdec /\ Pair(p) \subseteq Vdec /\ \A v \in Pair(p) : PortOf(v) = p
    BY PairFacts
  <2>2. ASSUME at[p] = "open" PROVE Pair(p) \subseteq connected'
    <3>1. SUFFICES ASSUME NEW v \in Pair(p), v \notin connected' PROVE FALSE
      OBVIOUS
    <3>2. v \in connected /\ next_status[v] = "DISCONNECTED"
      BY <2>2, <3>1 DEF UserInv, PortInv
    <3>3. at[PortOf(v)] \in {"wait1", "wait2"}
      BY <2>1, <3>2 DEF UserInv, HeldInv, Held
    <3> QED BY <2>1, <2>2, <3>3
  <2> QED
    BY <2>1, <2>2 DEF UserInv, PortInv
<1> QED
  BY <1>1, <1>2 DEF UserInv

(* A step of the user thread of port p that does not touch the lists and   *)
(* keeps the other ports as they are: what is left to show is about p.     *)
LEMMA NextUserPort ==
  ASSUME IndInv, NEW p \in Port,
         UNCHANGED <<connected, disconnecting, pc, retiree>>,
         \A q \in Port \ {p} : at'[q] = at[q] /\ op'[q] = op[q] /\ who'[q] = who[q],
         \A v \in Vdec \ Pair(p) : status'[v] = status[v] /\ next_status'[v] = next_status[v],
         \A v \in Pair(p) : HeldInv(v)',
         PortInv(p)'
  PROVE  UserInv'
<1> USE DEF IndInv
<1>1. ASSUME NEW v \in Vdec \ Pair(p) PROVE HeldInv(v)'
  <2>1. PortOf(v) \in Port \ {p} /\ (Held(v)' <=> Held(v))
    BY PairFacts DEF Held
  <2> QED
    BY <2>1 DEF HeldInv, UserInv
<1>2. ASSUME NEW q \in Port \ {p} PROVE PortInv(q)'
  <2>1. q \in Vdec \ Pair(p)
    BY PairFacts
  <2> QED
    BY <2>1 DEF PortInv, UserInv
<1> QED
  BY <1>1, <1>2 DEF UserInv

(* A port is past vdec_disconnect only when the core thread holds none of  *)
(* its instances.                                                          *)
LEMMA NextUser ==
  ASSUME ~ DisconnectMayTimeout, IndInv, [Next]_vars
  PROVE  UserInv'
<1> USE DEF schedVars, flagVars, threadVars, vdecVars, inputVars, driverVars, userVars
<1>1. ASSUME Collect PROVE UserInv'
  <2>1. pc = "down" /\ pc' = "elect" /\ disconnecting' \subseteq connected
    BY <1>1 DEF Collect
  <2> QED
    BY <1>1, <2>1, NextUserOther DEF Collect, Leaves, Held
<1>2. ASSUME NEW v \in Vdec, Elect(v) PROVE UserInv'
  BY <1>2, NextUserOther DEF Elect, Held
<1>3. ASSUME ElectNone \/ LoadSched \/ Run \/ EndPass PROVE UserInv'
  BY <1>3, NextUserOther DEF ElectNone, LoadSched, Run, EndPass, Held
<1>4. ASSUME Grant PROVE UserInv'
  BY <1>4, NextUserOther DEF Grant, Held, IndInv, TypeOK
<1>5. ASSUME NEW v \in Vdec, Retire(v) PROVE UserInv'
  BY <1>5, NextUserOther DEF Retire, Held, IndInv, TypeOK
<1>6. ASSUME Complete PROVE UserInv'
  BY <1>6, NextUserOther DEF Complete, Held
<1>7. ASSUME NEW v \in Vdec, NEW m \in SUBSET Core, NEW used \in BOOLEAN, NEW switch \in BOOLEAN,
             FinishRun(v, m, used, switch)
      PROVE  UserInv'
  BY <1>7, NextUserOther DEF FinishRun, Held, IndInv, TypeOK
<1>8. ASSUME NEW v \in Vdec, Callback(v) \/ Data(v) PROVE UserInv'
  BY <1>8, NextUserOther DEF Callback, Data, AddChunk, AddStream, VfPut, Held
<1>9. ASSUME NEW p \in Port PROVE User(p) => UserInv'
  <2> USE DEF IndInv
  <2>0. p \in Vdec /\ p \in Pair(p) /\ Pair(p) \subseteq Vdec /\ PortInv(p)
        /\ who \in [Port -> Vdec] /\ at \in [Port -> UserPc]
        /\ op \in [Port -> {"none", "reset", "release"}]
        /\ \A v \in Pair(p) : PortOf(v) = p /\ HeldInv(v)
    BY PairFacts DEF UserInv, TypeOK
  <2>1. ASSUME Open(p) PROVE UserInv'
    <3>1. \A v \in Pair(p) : ~ Held(v)'
      BY <2>1, NotHeld DEF Open, Held
    <3>2. \A v \in Pair(p) : HeldInv(v)'
      BY <3>1 DEF HeldInv
    <3>3. PortInv(p)'
      BY <2>0, <2>1 DEF Open, PortInv, TypeOK
    <3> QED
      BY <2>0, <2>1, <3>2, <3>3, NextUserPort DEF Open
  <2>2. ASSUME Connect(p) PROVE UserInv'
    <3>1. at[p] = "ready" /\ who[p] = p
      BY <2>0, <2>2 DEF Connect, PortInv
    <3>2. status[p] = "DISCONNECTED"
      BY <2>0, <3>1, NotHeld DEF PortInv, ListInv, Managed, Held, TypeOK, Status
    <3>3. connected' = connected \cup Pair(p) /\ UNCHANGED <<disconnecting, pc, retiree, who>>
      BY <2>2, <3>2 DEF Connect
    <3>4. \A v \in Vdec : status'[v] = IF v \in Pair(p) THEN "CONNECTED" ELSE status[v]
      BY <2>2, <3>2 DEF Connect
    <3>5. \A v \in Vdec : next_status'[v] = IF v \in Pair(p) THEN "CONNECTED" ELSE next_status[v]
      BY <2>2, <3>2 DEF Connect
    <3>6. at' = [at EXCEPT ![p] = "open"] /\ op' = [op EXCEPT ![p] = "none"]
      BY <2>2 DEF Connect
    <3>7. ASSUME NEW v \in Pair(p) PROVE HeldInv(v)'
      BY <2>0, <3>3, <3>5, <3>6 DEF HeldInv
    <3>8. ASSUME NEW v \in Vdec \ Pair(p) PROVE HeldInv(v)'
      <4>1. PortOf(v) \in Port \ {p} /\ (Held(v)' <=> Held(v)) /\ HeldInv(v)
        BY <3>3, PairFacts DEF Held, UserInv
      <4> QED
        BY <2>0, <3>3, <3>5, <3>6, <4>1 DEF HeldInv
    <3>9. PortInv(p)'
      BY <2>0, <3>1, <3>3, <3>4, <3>6 DEF PortInv
    <3>10. ASSUME NEW q \in Port \ {p} PROVE PortInv(q)'
      <4>1. q \in Vdec \ Pair(p) /\ PortInv(q)
        BY PairFacts DEF UserInv
      <4> QED
        BY <2>0, <3>3, <3>4, <3>6, <4>1 DEF PortInv
    <3> QED
      BY <3>7, <3>8, <3>9, <3>10 DEF UserInv
  <2>3. ASSUME NEW why \in {"reset", "release"}, Disconnect(p, why) PROVE UserInv'
    <3>1. CASE Managed(who[p])
      <4>1. at[p] = "open" /\ who[p] = p
        <5>1. Held(who[p])
          BY <3>1, <2>0 DEF ListInv, Held
        <5> QED
          BY <2>0, <2>3, <5>1, NotHeld DEF Disconnect, PortInv
      <4>2. at'[p] = "wait1" /\ op'[p] = why /\ who'[p] = p
        BY <2>0, <2>3, <3>1, <4>1 DEF Disconnect
      <4>3. \A v \in Pair(p) : HeldInv(v)'
        BY <2>0, <4>2 DEF HeldInv
      <4>4. PortInv(p)'
        BY <2>0, <2>3, <4>1, <4>2 DEF Disconnect, PortInv
      <4>5. \A v \in Vdec \ Pair(p) : next_status'[v] = next_status[v]
        BY <2>3, <3>1, <4>1 DEF Disconnect
      <4> QED
        BY <2>0, <2>3, <4>3, <4>4, <4>5, NextUserPort DEF Disconnect
    <3>2. CASE ~ Managed(who[p])
      <4>1. at[p] \in {"ready", "again"} /\ why = "release"
        BY <2>0, <2>3, <3>2 DEF Disconnect, PortInv, ListInv
      <4>2. at'[p] = "quiet" /\ op'[p] = why /\ who' = who
        BY <2>0, <2>3, <3>2 DEF Disconnect
      <4>3. \A v \in Pair(p) : ~ Held(v)'
        BY <2>3, <4>1, NotHeld DEF Disconnect, Held
      <4>4. \A v \in Pair(p) : HeldInv(v)'
        BY <4>3 DEF HeldInv
      <4>5. PortInv(p)'
        BY <2>0, <2>3, <4>1, <4>2 DEF Disconnect, PortInv
      <4> QED
        BY <2>0, <2>3, <3>2, <4>4, <4>5, NextUserPort DEF Disconnect
    <3> QED BY <3>1, <3>2
  <2>4. ASSUME WaitDone(p) PROVE UserInv'
    <3>1. at[p] \in {"wait1", "wait2"} /\ who[p] = p /\ done[Awaited(p)]
      BY <2>0, <2>4 DEF WaitDone, PortInv
    <3>2. CASE at[p] = "wait1" /\ Partner(p) # NoVdec
      <4>1. ~ Held(p) /\ at'[p] = "wait2"
        BY <2>0, <2>4, <3>1, <3>2 DEF WaitDone, Awaited, ListInv
      <4>2. ASSUME NEW v \in Pair(p) PROVE HeldInv(v)'
        BY <2>0, <2>4, <4>1 DEF WaitDone, HeldInv, Held
      <4>3. PortInv(p)'
        BY <2>0, <2>4, <3>1, <4>1 DEF WaitDone, PortInv
      <4> QED
        BY <2>0, <2>4, <4>2, <4>3, NextUserPort DEF WaitDone
    <3>3. CASE at[p] = "wait2" \/ Partner(p) = NoVdec
      <4>1. ASSUME NEW v \in Pair(p) PROVE ~ Held(v)
        <5>1. v = p \/ (v = Partner(p) /\ v # NoVdec)
          BY DEF Pair
        <5>2. CASE at[p] = "wait2"
          BY <2>0, <3>1, <5>1, <5>2 DEF Awaited, ListInv, HeldInv
        <5>3. CASE at[p] = "wait1"
          BY <2>0, <3>1, <3>3, <5>1, <5>3 DEF Awaited, ListInv
        <5> QED BY <3>1, <5>2, <5>3
      <4>2. at'[p] = "quiet"
        BY <2>0, <2>4, <3>1, <3>3 DEF WaitDone
      <4>3. ASSUME NEW v \in Pair(p) PROVE HeldInv(v)'
        BY <2>4, <4>1 DEF WaitDone, HeldInv, Held
      <4>4. PortInv(p)'
        BY <2>0, <2>4, <3>1, <4>2 DEF WaitDone, PortInv
      <4> QED
        BY <2>0, <2>4, <4>3, <4>4, NextUserPort DEF WaitDone
    <3> QED BY <3>1, <3>2, <3>3
  <2>5. ASSUME WaitTimeout(p) PROVE UserInv'
    BY <2>5 DEF WaitTimeout
  <2>6. ASSUME Reset(p) PROVE UserInv'
    <3>1. \A v \in Pair(p) : ~ Held(v)'
      BY <2>6, NotHeld DEF Reset, Held
    <3>2. \A v \in Pair(p) : HeldInv(v)'
      BY <3>1 DEF HeldInv
    <3>3. PortInv(p)'
      BY <2>0, <2>6 DEF Reset, PortInv
    <3> QED
      BY <2>0, <2>6, <3>2, <3>3, NextUserPort DEF Reset
  <2>7. ASSUME DriverRemove(p) PROVE UserInv'
    <3>1. \A v \in Pair(p) : ~ Held(v)'
      BY <2>7, NotHeld DEF DriverRemove, Held
    <3>2. \A v \in Pair(p) : HeldInv(v)'
      BY <3>1 DEF HeldInv
    <3>3. PortInv(p)'
      BY <2>0, <2>7 DEF DriverRemove, PortInv
    <3> QED
      BY <2>0, <2>7, <3>2, <3>3, NextUserPort DEF DriverRemove, PortInv, TypeOK
  <2>8. ASSUME ClearLoad(p) PROVE UserInv'
    <3>1. \A v \in Pair(p) : ~ Held(v) /\ ~ Held(v)'
      BY <2>8, NotHeld DEF ClearLoad, Held
    <3>2. \A v \in Pair(p) : HeldInv(v)'
      BY <3>1 DEF HeldInv
    <3>3. who[p] \notin connected
      BY <2>0, <3>1 DEF PortInv, Held
    <3>4. PortInv(p)'
      BY <2>0, <2>8, <3>3 DEF ClearLoad, PortInv
    <3> QED
      BY <2>0, <2>8, <3>2, <3>3, <3>4, NextUserPort DEF ClearLoad
  <2>9. ASSUME ClearStore(p) PROVE UserInv'
    BY <2>0, <2>9 DEF ClearStore, PortInv
  <2>10. ASSUME Destroy(p) PROVE UserInv'
    <3>1. \A v \in Pair(p) : ~ Held(v)'
      BY <2>10, NotHeld DEF Destroy, Held
    <3>2. \A v \in Pair(p) : HeldInv(v)'
      BY <3>1 DEF HeldInv
    <3>3. SlaveOf(p) # NoVdec => SlaveOf(p) \in Pair(p) /\ SlaveOf(p) # p
      BY PairFacts DEF Pair
    <3>4. op'[p] = "none" /\ \/ at'[p] = "again" /\ who'[p] \in Pair(p) /\ who'[p] # p
                             \/ at'[p] = "none" /\ who'[p] = p
      BY <2>0, <2>10, <3>3 DEF Destroy
    <3>5. PortInv(p)'
      BY <2>0, <3>4 DEF PortInv
    <3> QED
      BY <2>0, <2>10, <3>2, <3>5, NextUserPort DEF Destroy, PortInv, TypeOK
  <2> QED
    BY <2>1, <2>2, <2>3, <2>4, <2>5, <2>6, <2>7, <2>8, <2>9, <2>10 DEF User
<1>10. CASE UNCHANGED vars
  BY <1>10, NextUserOther DEF vars, Held
<1> QED
  BY <1>1, <1>2, <1>3, <1>4, <1>5, <1>6, <1>7, <1>8, <1>9, <1>10 DEF Next, CoreThread, Driver

(* The scheduler points only at instances on its list.                     *)
LEMMA NextPtr ==
  ASSUME ~ DisconnectMayTimeout, IndInv, [Next]_vars
  PROVE  PtrInv'
<1> USE DEF schedVars, flagVars, threadVars, vdecVars, inputVars, driverVars, userVars
<1> USE DEF IndInv
<1>1. ASSUME UNCHANGED <<connected, alive, at, who>>, worker' = worker \/ worker' = NoVdec,
             pc' \in {"down", "elect"} => worker' = NoVdec,
             \A c \in Core : last'[c] \in {last[c], worker} /\ active_hw'[c] \in {active_hw[c], worker}
      PROVE  PtrInv'
  BY <1>1 DEF PtrInv
<1>2. ASSUME Collect PROVE PtrInv'
  <2>1. \A c \in Core : last'[c] \in connected' \cup {NoVdec}
    BY <1>2 DEF Collect, Dropped, PtrInv
  <2>2. \A c \in Core : active_hw'[c] \in connected' \cup {NoVdec}
    BY <1>2 DEF Collect, Dropped, PtrInv
  <2> QED
    BY <1>2, <2>1, <2>2 DEF Collect, PtrInv
<1>3. ASSUME NEW v \in Vdec, Elect(v) PROVE PtrInv'
  <2>1. v \in connected
    BY <1>3, ElectedFacts DEF Elect
  <2> QED
    BY <1>3, <2>1 DEF Elect, PtrInv
<1>4. ASSUME Grant PROVE PtrInv'
  BY <1>1, <1>4 DEF Grant
<1>5. ASSUME Run PROVE PtrInv'
  BY <1>1, <1>5 DEF Run
<1>6. ASSUME ElectNone \/ LoadSched \/ Complete \/ EndPass \/ \E v \in Vdec : Retire(v) PROVE PtrInv'
  BY <1>1, <1>6 DEF ElectNone, LoadSched, Complete, EndPass, Retire, PtrInv
<1>7. ASSUME NEW v \in Vdec, Driver(v) \/ Data(v) PROVE PtrInv'
  BY <1>1, <1>7 DEF Driver, FinishRun, Callback, Data, AddChunk, AddStream, VfPut, PtrInv
<1>8. ASSUME NEW p \in Port, Open(p) PROVE PtrInv'
  BY <1>8 DEF Open, PtrInv, TypeOK
<1>9. ASSUME NEW p \in Port, Connect(p) PROVE PtrInv'
  <2>1. connected \subseteq connected' /\ UNCHANGED <<pc, worker, last, active_hw, alive, who>>
    BY <1>9 DEF Connect
  <2>2. at[p] = "ready" /\ \A q \in Port : at'[q] \in {"none", "again"} => at'[q] = at[q]
    BY <1>9 DEF Connect, TypeOK
  <2> QED
    BY <2>1, <2>2, <1>9 DEF Connect, PtrInv, TypeOK
<1>10. ASSUME NEW p \in Port, NEW why \in {"reset", "release"}, Disconnect(p, why) PROVE PtrInv'
  BY <1>10 DEF Disconnect, PtrInv, UserInv, PortInv, TypeOK
<1>11. ASSUME NEW p \in Port, WaitDone(p) \/ Reset(p) \/ DriverRemove(p) \/ ClearLoad(p) PROVE PtrInv'
  BY <1>11 DEF WaitDone, Reset, DriverRemove, ClearLoad, PtrInv, TypeOK
<1>12. ASSUME NEW p \in Port, WaitTimeout(p) \/ ClearStore(p) PROVE PtrInv'
  BY <1>12 DEF WaitTimeout, ClearStore, UserInv, PortInv
<1>13. ASSUME NEW p \in Port, Destroy(p) PROVE PtrInv'
  <2>1. UNCHANGED <<connected, pc, worker, last, active_hw>>
    BY <1>13 DEF Destroy
  <2>2. ASSUME NEW q \in Port, at'[q] \notin {"none", "again"}, who'[q] = q
        PROVE  Pair(q) \subseteq alive'
    <3>1. q # p
      BY <1>13, <2>2 DEF Destroy, TypeOK
    <3>2. Pair(q) \subseteq alive
      BY <1>13, <2>2, <3>1 DEF Destroy, PtrInv, TypeOK
    <3>3. who[p] \notin Pair(q)
      BY <3>1, PairFacts DEF UserInv, PortInv
    <3> QED
      BY <1>13, <3>2, <3>3 DEF Destroy
  <2> QED
    BY <2>1, <2>2 DEF PtrInv
<1>14. CASE UNCHANGED vars
  BY <1>14 DEF vars, PtrInv
<1> QED
  BY <1>2, <1>3, <1>4, <1>5, <1>6, <1>7, <1>8, <1>9, <1>10, <1>11, <1>12, <1>13, <1>14
  DEF Next, CoreThread, User

-----------------------------------------------------------------------------
LEMMA InitIndInv == Init => IndInv
<1> SUFFICES ASSUME Init PROVE IndInv
  OBVIOUS
<1>1. TypeOK
  BY InitTypeOK
<1>2. ConsumedInv /\ ListInv /\ CoreInv /\ PtrInv
  BY DEF Init, ConsumedInv, ListInv, CoreInv, CoreExclusive, PtrInv, Managed, Held
<1>3. UserInv
  BY PairFacts DEF Init, UserInv, HeldInv, PortInv, Held
<1> QED
  BY <1>1, <1>2, <1>3 DEF IndInv

(* All variables have their types whatever happens, timeouts of            *)
(* vdec_disconnect included.                                               *)
THEOREM TypeCorrect == Spec => []TypeOK
<1>1. Init => TypeOK /\ ConsumedInv
  BY InitTypeOK DEF Init, ConsumedInv
<1>2. TypeOK /\ ConsumedInv /\ [Next]_vars => (TypeOK /\ ConsumedInv)'
  BY NextTypeOK, NextConsumed
<1> QED
  BY <1>1, <1>2, PTL DEF Spec

(* When no wait of vdec_disconnect expires, the inductive invariant holds. *)
THEOREM Inductive == ASSUME ~ DisconnectMayTimeout PROVE Spec => []IndInv
<1>1. IndInv /\ [Next]_vars => IndInv'
  <2> SUFFICES ASSUME IndInv, [Next]_vars PROVE IndInv'
    OBVIOUS
  <2>1. TypeOK' /\ ConsumedInv'
    BY NextTypeOK, NextConsumed DEF IndInv
  <2>2. ListInv' /\ CoreInv' /\ UserInv' /\ PtrInv'
    BY NextList, NextCore, NextUser, NextPtr
  <2> QED
    BY <2>1, <2>2 DEF IndInv
<1> QED
  BY InitIndInv, <1>1, PTL DEF Spec

(* No core is scheduled for two instances at once, whatever the instances, *)
(* the cores they ask for, the layers and the bounds.                      *)
THEOREM MutualExclusion == ASSUME ~ DisconnectMayTimeout PROVE Spec => []CoreExclusive
<1>1. IndInv => CoreExclusive
  BY DEF IndInv, CoreInv
<1> QED
  BY <1>1, Inductive, PTL

(* No core is lost or leaked: the busy cores are those of the listed       *)
(* instances, except between a grant and the store of core->sched_mask.    *)
THEOREM Accounting == ASSUME ~ DisconnectMayTimeout PROVE Spec => []CoresAccounted
<1>1. IndInv => CoresAccounted
  <2> SUFFICES ASSUME IndInv PROVE CoresAccounted
    OBVIOUS
  <2>1. \A v \in Vdec : active_mask[v] \subseteq sched_mask[v]
    BY DEF IndInv, ListInv
  <2>2. ASSUME pc \in {"down", "elect", "grant", "retire", "complete"}
        PROVE  core_sched = UNION {sched_mask[v] : v \in connected}
    <3>1. connected \subseteq Vdec
      BY DEF IndInv, TypeOK
    <3>2. \A v \in connected : sched_mask[v] \subseteq core_sched
      BY <2>2, <3>1 DEF IndInv, CoreInv
    <3>3. \A c \in core_sched : \E v \in connected : c \in sched_mask[v]
      BY DEF IndInv, CoreInv
    <3> QED BY <3>2, <3>3
  <2> QED
    BY <2>1, <2>2 DEF CoresAccounted
<1> QED
  BY <1>1, Inductive, PTL

(* When vdec_disconnect returns the scheduler has forgotten the instance   *)
(* and its other layer.                                                    *)
THEOREM Quiescence == ASSUME ~ DisconnectMayTimeout PROVE Spec => []DisconnectQuiesces
<1>1. IndInv => DisconnectQuiesces
  <2> SUFFICES ASSUME IndInv, NEW p \in Port,
                      at[p] \in {"quiet", "clear", "clear_store", "destroy"},
                      NEW v \in Pair(who[p])
               PROVE  Forgotten(v)
    BY DEF DisconnectQuiesces
  <2>1. who[p] \in Pair(p) /\ UserInv
    BY DEF IndInv, UserInv, PortInv
  <2>2. v \in Pair(p)
    <3>1. PortOf(who[p]) = p /\ PortOf(v) = p /\ v \in Vdec
      BY <2>1, PairFacts, PairOfPair
    <3> QED
      BY <3>1, PairFacts
  <2>3. v \in Vdec /\ ~ Held(v)
    BY <2>1, <2>2, NotHeld
  <2>4. v \notin connected \cup disconnecting /\ sched_mask[v] = {} /\ active_mask[v] = {}
    BY <2>3 DEF Held, IndInv, ListInv, TypeOK
  <2>5. worker # v /\ \A c \in Core : last[c] # v /\ active_hw[c] # v
    BY <2>3, <2>4, VdecAssumption DEF IndInv, PtrInv
  <2> QED
    BY <2>4, <2>5 DEF Forgotten
<1> QED
  BY <1>1, Inductive, PTL

(* The scheduler never refers to an instance that vdec_destroy has freed.  *)
THEOREM NoDangling == ASSUME ~ DisconnectMayTimeout PROVE Spec => []NoDanglingVdec
<1>1. IndInv => NoDanglingVdec
  <2> SUFFICES ASSUME IndInv PROVE NoDanglingVdec
    OBVIOUS
  <2>1. ASSUME NEW v \in connected \cup disconnecting PROVE v \in alive
    <3>1. v \in Vdec /\ Held(v) /\ PortOf(v) \in Port /\ v \in Pair(PortOf(v))
      BY <2>1, PairFacts DEF Held, IndInv, TypeOK
    <3>2. at[PortOf(v)] \in {"open", "wait1", "wait2"}
      BY <3>1 DEF IndInv, UserInv, HeldInv
    <3>3. who[PortOf(v)] = PortOf(v)
      BY <3>1, <3>2 DEF IndInv, UserInv, PortInv
    <3> QED
      BY <3>1, <3>2, <3>3 DEF IndInv, PtrInv
  <2>2. \A c \in Core : {last[c], active_hw[c]} \subseteq alive \cup {NoVdec}
    BY <2>1 DEF IndInv, PtrInv
  <2>3. pc \in {"grant", "load", "run"} => worker \in alive
    BY <2>1 DEF IndInv, CoreInv
  <2> QED
    BY <2>1, <2>2, <2>3 DEF NoDanglingVdec
<1> QED
  BY <1>1, Inductive, PTL
=============================================================================
