---------------------------- MODULE VdecCoreWork ----------------------------
(***************************************************************************)
(* Proofs about what VdecCore hands out: combined cores stay together, the *)
(* layers of a pair take turns, and the scheduler never sleeps on work.    *)
(***************************************************************************)
EXTENDS VdecCoreProofs

(* The elected instance, from the election to its run.                     *)
Granting(v) == pc \in {"grant", "load", "run"} /\ worker = v

(* All the cores of a combined instance, or none of them.                  *)
WholeInv ==
  \A v \in Combined :
    /\ sched_mask[v] \in {{}, CoreMask[v]}
    /\ active_mask[v] \in {{}, CoreMask[v]}
    /\ core_mask[v] \in {{}, CoreMask[v]}
    /\ Granting(v) => sel = CoreMask[v]

(* An instance only has cores that its driver asked for, and is not given  *)
(* one that it still has.                                                  *)
OwnInv ==
  \A v \in Vdec :
    /\ core_mask[v] \subseteq CoreMask[v]
    /\ active_mask[v] \subseteq sched_mask[v]
    /\ sched_mask[v] \subseteq CoreMask[v]
    /\ Granting(v) => sel \subseteq CoreMask[v]
    /\ pc = "grant" /\ worker = v /\ v \notin Combined => sel \cap sched_mask[v] = {}

(* The turn of a pair: one layer has it while the master exists, and it is *)
(* the layer that decodes its input or is about to.                        *)
TurnOf(p) ==
  /\ at[p] = "none" => Pair(p) \cap alive = {} /\ who[p] = p /\ ~ sched[SlaveOf(p)]
  /\ who[p] # p => p \notin alive
  /\ at[p] # "none" /\ who[p] = p =>
       /\ sched[p] # sched[SlaveOf(p)]
       /\ \A v \in Pair(p) :
            /\ Started(v) \cap InputCore # {} => sched[v]
            /\ Granting(v) /\ sel \cap InputCore # {} => sched[v]
TurnInv ==
  /\ \A p \in Port : who[p] \in Pair(p)
  /\ \A p \in Port : SlaveOf(p) # NoVdec => TurnOf(p)

(* The core thread will make another pass.                                 *)
Awake == sem > 0 \/ \E v \in Vdec : cb[v] # {}

(* The cores of a stream that the parser fills are polled, not woken for.  *)
Polled == Stream \ ExtBuf

(* Core c cannot be given to v before an event that ups core->sem.         *)
Starved(v) ==
  \/ v \notin Stream /\ input[v] = 0
  \/ v \in ExtBuf /\ "MORE" \in need_more[v]
  \/ v \in Polled
Blocked(v, c) ==
  \/ next_status[v] = "DISCONNECTED" \/ ~ Managed(v) \/ NotOnTurn(v)
  \/ /\ c \in BackCore => ~ (FrontBack(v) /\ pipe[v] > 0)
     /\ c \in InputCore => ~ RunReady(v) \/ Starved(v)
Settled(c) ==
  c \in core_sched \/ \A v \in connected : c \in core_mask[v] => Blocked(v, c)

Ended == pc \in {"retire", "complete"}
WakeInv ==
  /\ \A v \in connected : Released(v) # {} \/ Leaves(v) => Awake
  /\ pc = "elect" => Awake \/ \A c \in Core : c > idx => Settled(c)
  /\ Ended /\ worker = NoVdec => Awake \/ \A c \in Core : Settled(c)
  /\ Ended /\ worker # NoVdec => Awake
  /\ pc = "down" => Awake \/ \A c \in Core : Settled(c)
  /\ pc = "elect" \/ (Ended /\ worker = NoVdec) =>
       Awake \/ \A v \in connected \cap Polled : core_mask[v] \subseteq stream_buff_flag
  /\ pc = "down" => Awake \/ \A v \in connected \cap Polled : core_mask[v] \subseteq core_sched
  /\ stream_buff_flag \subseteq power_ref
  /\ pc # "elect" => low = {}
  /\ low \subseteq Stream

-----------------------------------------------------------------------------
(* The election gives an instance cores that its driver asked for; one     *)
(* that does not combine gets only cores that it does not have, one that   *)
(* combines gets all that its driver asked for.                            *)
LEMMA ElectedMask ==
  ASSUME TypeOK, NEW v \in Vdec, NEW c \in Core, Elected(c, v)
  PROVE  /\ ReadyMask(v, ScheduleMask(v, c)) \subseteq core_mask[v]
         /\ v \notin Combined => ReadyMask(v, ScheduleMask(v, c)) \cap sched_mask[v] = {}
         /\ v \in Combined => ReadyMask(v, ScheduleMask(v, c)) = core_mask[v] /\ core_mask[v] # {}
         /\ ~ NotOnTurn(v)
<1>1. ReadyMask(v, ScheduleMask(v, c)) # {}
  BY DEF Elected, Electable, Asked
<1>2. ReadyMask(v, ScheduleMask(v, c)) \subseteq ScheduleMask(v, c) /\ ~ NotOnTurn(v)
  BY <1>1 DEF ReadyMask
<1>3. ScheduleMask(v, c) \subseteq core_mask[v]
  BY DEF ScheduleMask
<1>4. CASE v \notin Combined
  <2>1. ScheduleMask(v, c) \cap sched_mask[v] = {}
    BY <1>4 DEF ScheduleMask
  <2> QED BY <1>2, <1>3, <1>4, <2>1
<1>5. CASE v \in Combined
  <2>1. ~ FrontBack(v)
    BY <1>5 DEF FrontBack
  <2>2. ReadyMask(v, ScheduleMask(v, c)) = ScheduleMask(v, c)
    BY <1>1, <2>1 DEF ReadyMask
  <2>3. ScheduleMask(v, c) = core_mask[v]
    BY <1>1, <1>5, <2>2 DEF ScheduleMask
  <2> QED BY <1>1, <1>2, <1>5, <2>2, <2>3
<1> QED BY <1>4, <1>5

LEMMA NextOwn ==
  ASSUME TypeOK, OwnInv, [Next]_vars
  PROVE  OwnInv'
<1> USE DEF schedVars, flagVars, threadVars, vdecVars, inputVars, driverVars, userVars
<1>1. ASSUME UNCHANGED <<sched_mask, sel, worker>>,
             \A v \in Vdec : core_mask'[v] \subseteq core_mask[v],
             \A v \in Vdec : active_mask'[v] \subseteq active_mask[v],
             pc' = pc \/ pc' \in {"elect", "retire", "complete"} \/ (pc = "load" /\ pc' = "run")
      PROVE  OwnInv'
  BY <1>1 DEF OwnInv, Granting
<1>2. ASSUME Collect PROVE OwnInv'
  BY <1>2 DEF Collect, OwnInv, Granting, TypeOK
<1>3. ASSUME NEW v \in Vdec, Elect(v) PROVE OwnInv'
  <2>1. /\ sel' \subseteq core_mask[v]
        /\ v \notin Combined => sel' \cap sched_mask[v] = {}
    BY <1>3, ElectedMask DEF Elect
  <2> QED
    BY <1>3, <2>1 DEF Elect, OwnInv, Granting
<1>4. ASSUME ElectNone \/ LoadSched \/ Run \/ Complete \/ \E v \in Vdec : Retire(v) PROVE OwnInv'
  BY <1>1, <1>4 DEF ElectNone, LoadSched, Run, Complete, Retire
<1>5. ASSUME EndPass PROVE OwnInv'
  BY <1>5 DEF EndPass, OwnInv, Granting
<1>6. ASSUME Grant PROVE OwnInv'
  <2>1. worker \in Vdec => sel \subseteq CoreMask[worker]
    BY <1>6 DEF Grant, OwnInv, Granting
  <2> QED
    BY <1>6, <2>1 DEF Grant, OwnInv, Granting, TypeOK
<1>7. ASSUME NEW v \in Vdec, NEW m \in SUBSET Core, NEW used \in BOOLEAN, NEW switch \in BOOLEAN,
             FinishRun(v, m, used, switch)
      PROVE  OwnInv'
  <2>1. active_mask' = [active_mask EXCEPT ![v] = @ \ m]
        /\ UNCHANGED <<core_mask, sched_mask, sel, worker, pc>>
    BY <1>7 DEF FinishRun
  <2> QED
    BY <1>1, <2>1 DEF TypeOK
<1>8. ASSUME NEW v \in Vdec, Callback(v) \/ Data(v) PROVE OwnInv'
  BY <1>1, <1>8 DEF Callback, Data, AddChunk, AddStream, VfPut
<1>9. ASSUME NEW p \in Port, Open(p) PROVE OwnInv'
  BY <1>9 DEF Open, OwnInv, Granting
<1>10. ASSUME NEW p \in Port, DriverRemove(p) PROVE OwnInv'
  BY <1>1, <1>10 DEF DriverRemove, TypeOK
<1>11. ASSUME NEW p \in Port, Destroy(p) PROVE OwnInv'
  BY <1>11 DEF Destroy, OwnInv, Granting, TypeOK
<1>12. ASSUME NEW p \in Port,
              Connect(p) \/ WaitDone(p) \/ WaitTimeout(p) \/ Reset(p) \/ ClearLoad(p) \/ ClearStore(p)
                \/ \E why \in {"reset", "release"} : Disconnect(p, why)
       PROVE  OwnInv'
  BY <1>1, <1>12 DEF Connect, WaitDone, WaitTimeout, Reset, ClearLoad, ClearStore, Disconnect
<1>13. CASE UNCHANGED vars
  BY <1>1, <1>13 DEF vars
<1> QED
  BY <1>2, <1>3, <1>4, <1>5, <1>6, <1>7, <1>8, <1>9, <1>10, <1>11, <1>12, <1>13
  DEF Next, CoreThread, Driver, User

LEMMA NextWhole ==
  ASSUME TypeOK, WholeInv, [Next]_vars
  PROVE  WholeInv'
<1> USE DEF schedVars, flagVars, threadVars, vdecVars, inputVars, driverVars, userVars
<1>0. Combined \subseteq Vdec
  BY VdecAssumption DEF Port
<1>1. ASSUME UNCHANGED <<core_mask, active_mask, sched_mask, sel, worker>>,
             pc' = pc \/ pc' \in {"elect", "retire", "complete"} \/ (pc = "load" /\ pc' = "run")
      PROVE  WholeInv'
  BY <1>1 DEF WholeInv, Granting
<1>2. ASSUME Collect PROVE WholeInv'
  <2>1. \A v \in Combined : sched_mask'[v] \in {sched_mask[v], sched_mask[v] \cap active_mask[v]}
    BY <1>0, <1>2 DEF Collect
  <2> QED
    BY <1>2, <2>1 DEF Collect, WholeInv, Granting
<1>3. ASSUME NEW v \in Vdec, Elect(v) PROVE WholeInv'
  <2>1. v \in Combined => sel' = core_mask[v] /\ core_mask[v] # {}
    BY <1>3, ElectedMask DEF Elect
  <2> QED
    BY <1>3, <2>1 DEF Elect, WholeInv, Granting
<1>4. ASSUME ElectNone \/ LoadSched \/ Run \/ Complete \/ \E v \in Vdec : Retire(v) PROVE WholeInv'
  BY <1>1, <1>4 DEF ElectNone, LoadSched, Run, Complete, Retire
<1>5. ASSUME EndPass PROVE WholeInv'
  BY <1>5 DEF EndPass, WholeInv, Granting
<1>6. ASSUME Grant PROVE WholeInv'
  <2>1. worker \in Combined => sel = CoreMask[worker]
    BY <1>6 DEF Grant, WholeInv, Granting
  <2>2. \A v \in Combined \ {worker} : sched_mask'[v] = sched_mask[v] /\ active_mask'[v] = active_mask[v]
    BY <1>0, <1>6 DEF Grant, TypeOK
  <2>3. worker \in Combined =>
          /\ sched_mask'[worker] = sched_mask[worker] \cup CoreMask[worker]
          /\ active_mask'[worker] = active_mask[worker] \cup CoreMask[worker]
    BY <1>0, <1>6, <2>1 DEF Grant, TypeOK
  <2>4. UNCHANGED <<core_mask, sel, worker>> /\ pc = "grant"
    BY <1>6 DEF Grant
  <2> QED
    BY <2>1, <2>2, <2>3, <2>4 DEF WholeInv, Granting
<1>7. ASSUME NEW v \in Vdec, NEW m \in SUBSET Core, NEW used \in BOOLEAN, NEW switch \in BOOLEAN,
             FinishRun(v, m, used, switch)
      PROVE  WholeInv'
  <2>1. active_mask' = [active_mask EXCEPT ![v] = @ \ m]
        /\ UNCHANGED <<core_mask, sched_mask, sel, worker, pc>>
    BY <1>7 DEF FinishRun
  <2>2. v \in Combined => m = CoreMask[v]
    BY <1>7 DEF FinishRun, FinishUnits
  <2> QED
    BY <1>0, <2>1, <2>2 DEF WholeInv, Granting, TypeOK
<1>8. ASSUME NEW v \in Vdec, Callback(v) \/ Data(v) PROVE WholeInv'
  BY <1>1, <1>8 DEF Callback, Data, AddChunk, AddStream, VfPut
<1>9. ASSUME NEW p \in Port, Open(p) PROVE WholeInv'
  BY <1>0, <1>9 DEF Open, WholeInv, Granting
<1>10. ASSUME NEW p \in Port, DriverRemove(p) PROVE WholeInv'
  <2>1. ASSUME NEW w \in Combined PROVE core_mask'[w] \in {core_mask[w], core_mask[w] \ CoreMask[w]}
    <3>1. w # SlaveOf(who[p])
      <4>1. MasterOf[w] = NoVdec /\ w \in Vdec /\ w # NoVdec
        BY VdecAssumption DEF Port
      <4>2. who[p] \in Vdec /\ who[p] # NoVdec
        BY VdecAssumption DEF TypeOK
      <4> QED
        BY <4>1, <4>2 DEF SlaveOf
    <3> QED
      BY <1>0, <1>10, <3>1 DEF DriverRemove
  <2> QED
    BY <1>10, <2>1 DEF DriverRemove, WholeInv, Granting
<1>11. ASSUME NEW p \in Port, Destroy(p) PROVE WholeInv'
  <2>1. \A v \in Vdec :
          /\ core_mask'[v] \in {core_mask[v], {}}
          /\ active_mask'[v] \in {active_mask[v], {}}
          /\ sched_mask'[v] \in {sched_mask[v], {}}
    BY <1>11 DEF Destroy, TypeOK
  <2> QED
    BY <1>0, <1>11, <2>1 DEF Destroy, WholeInv, Granting
<1>12. ASSUME NEW p \in Port,
              Connect(p) \/ WaitDone(p) \/ WaitTimeout(p) \/ Reset(p) \/ ClearLoad(p) \/ ClearStore(p)
                \/ \E why \in {"reset", "release"} : Disconnect(p, why)
       PROVE  WholeInv'
  BY <1>1, <1>12 DEF Connect, WaitDone, WaitTimeout, Reset, ClearLoad, ClearStore, Disconnect
<1>13. CASE UNCHANGED vars
  BY <1>1, <1>13 DEF vars
<1> QED
  BY <1>2, <1>3, <1>4, <1>5, <1>6, <1>7, <1>8, <1>9, <1>10, <1>11, <1>12, <1>13
  DEF Next, CoreThread, Driver, User

(* An instance that combines holds all of its cores or none, whatever      *)
(* competes for them and whether or not waits expire.                      *)
THEOREM StaysTogether == Spec => []CombinedTogether
<1>1. Init => WholeInv
  BY VdecAssumption DEF Init, WholeInv, Granting, Port
<1>2. TypeOK /\ WholeInv /\ [Next]_vars => WholeInv'
  BY NextWhole
<1>3. WholeInv => CombinedTogether
  BY DEF WholeInv, CombinedTogether
<1> QED
  BY <1>1, <1>2, <1>3, TypeCorrect, PTL DEF Spec

-----------------------------------------------------------------------------
(* The two layers of a pair are each other's partner and do not combine.   *)
LEMMA LayerFacts ==
  ASSUME NEW p \in Port, SlaveOf(p) # NoVdec
  PROVE  /\ Pair(p) = {p, SlaveOf(p)} /\ p # SlaveOf(p)
         /\ Partner(p) = SlaveOf(p) /\ Partner(SlaveOf(p)) = p
         /\ Pair(p) \cap Combined = {} /\ Pair(p) \subseteq Vdec /\ NoVdec \notin Pair(p)
<1>1. p \in Vdec /\ SlaveOf(p) = Partner(p) /\ Partner(p) # p /\ p # NoVdec
  BY PairFacts, VdecAssumption
<1>2. Pair(p) = {p, SlaveOf(p)}
  BY <1>1 DEF Pair
<1>3. SlaveOf(p) \in Vdec /\ MasterOf[SlaveOf(p)] = p
  BY DEF SlaveOf
<1>4. Partner(SlaveOf(p)) = p
  BY <1>1, <1>3 DEF Partner
<1>5. p \notin Combined /\ SlaveOf(p) \notin Combined
  BY <1>1, <1>3, VdecAssumption DEF Port
<1> QED BY <1>1, <1>2, <1>3, <1>4, <1>5, VdecAssumption

(* A step that does not touch the turn of p, starts nothing of its layers  *)
(* and elects neither.                                                     *)
LEMMA TurnKept ==
  ASSUME NEW p \in Port, SlaveOf(p) # NoVdec, TurnOf(p),
         at[p] = "none" <=> at'[p] = "none", who'[p] = who[p],
         Pair(p) \cap alive' \subseteq alive,
         \A v \in Pair(p) : sched'[v] = sched[v],
         \A v \in Pair(p) : Started(v)' \subseteq Started(v),
         \A v \in Pair(p) : Granting(v)' => Granting(v) /\ sel' = sel
  PROVE  TurnOf(p)'
<1>1. p \in Pair(p) /\ SlaveOf(p) \in Pair(p)
  BY LayerFacts
<1> QED BY <1>1 DEF TurnOf

(* While an instance decodes its input it is not elected to decode more.   *)
LEMMA OneInputAtATime ==
  ASSUME TypeOK, OwnInv, NEW v \in Vdec \ Combined, NEW d \in Started(v) \cap InputCore
  PROVE  Started(v) \cap InputCore = {d} /\ (Granting(v) => sel \cap InputCore = {})
<1>1. Started(v) \subseteq active_mask[v] /\ active_mask[v] \subseteq sched_mask[v]
      /\ sched_mask[v] \subseteq CoreMask[v]
  BY DEF Started, OwnInv
<1>2. PICK c \in Core : CoreMask[v] \cap InputCore = {c}
  BY OneInputAssumption
<1>3. d = c /\ Started(v) \cap InputCore = {d}
  BY <1>1, <1>2
<1>4. ASSUME Granting(v) PROVE d \notin sel /\ sel \subseteq CoreMask[v]
  BY <1>1, <1>4 DEF Granting, Started, OwnInv
<1> QED BY <1>2, <1>3, <1>4

(* The layers of different ports have nothing in common.                   *)
LEMMA OtherPair ==
  ASSUME NEW p \in Port, NEW q \in Port, p # q
  PROVE  /\ Pair(p) \cap Pair(q) = {}
         /\ \A v \in Pair(q) : v \in Vdec /\ v \notin Pair(p) /\ Partner(v) \notin Pair(p)
<1>1. ASSUME NEW v \in Pair(q) PROVE v \in Vdec /\ v \notin Pair(p) /\ Partner(v) \notin Pair(p)
  <2>1. v \in Vdec /\ PortOf(v) = q
    BY PairFacts
  <2>2. \A w \in Pair(p) : PortOf(w) = p /\ w \in Vdec
    BY PairFacts
  <2>3. ASSUME Partner(v) \in Pair(p) PROVE FALSE
    <3>1. Partner(v) \in Pair(v)
      BY <2>2, <2>3, VdecAssumption DEF Pair
    <3> QED BY <2>2, <2>3, <3>1, PairOfPair
  <2> QED BY <2>1, <2>2, <2>3
<1> QED BY <1>1

(* The end of a run hands the turn over or keeps it.                       *)
LEMMA FinishTurn ==
  ASSUME TypeOK, OwnInv, TurnInv, NEW v \in Vdec, NEW m \in SUBSET Core, NEW used \in BOOLEAN,
         NEW switch \in BOOLEAN, FinishRun(v, m, used, switch)
  PROVE  TurnInv'
<1> USE DEF schedVars, flagVars, threadVars, vdecVars, inputVars, driverVars, userVars
<1>1. /\ active_mask' = [active_mask EXCEPT ![v] = @ \ m] /\ m \subseteq Started(v)
      /\ UNCHANGED <<at, who, alive, pc, worker, sel>>
      /\ Bound(v)
      /\ sched' = IF Partner(v) # NoVdec /\ m \cap InputCore # {} THEN SetNextSched(v, switch)
                  ELSE sched
  BY DEF FinishRun
<1>2. \A w \in Vdec : Started(w)' = IF w = v THEN Started(w) \ m ELSE Started(w)
  BY <1>1 DEF Started, TypeOK
<1>3. ASSUME NEW p \in Port, SlaveOf(p) # NoVdec PROVE TurnOf(p)'
  <2>1. TurnOf(p) /\ Pair(p) \subseteq Vdec
    BY <1>3, LayerFacts DEF TurnInv
  <2>2. CASE v \notin Pair(p)
    <3>1. \A w \in Pair(p) : w # v /\ w # Partner(v)
      <4>1. PortOf(v) \in Port /\ v \in Pair(PortOf(v))
        BY PairFacts
      <4> QED BY <2>2, <4>1, OtherPair
    <3>2. \A w \in Pair(p) : sched'[w] = sched[w]
      BY <1>1, <2>1, <3>1 DEF SetNextSched
    <3> QED
      BY <1>1, <1>2, <1>3, <2>1, <3>1, <3>2, TurnKept DEF Granting
  <2>3. CASE v \in Pair(p) /\ m \cap InputCore = {}
    BY <1>1, <1>2, <1>3, <2>1, <2>3, TurnKept DEF Granting
  <2>4. CASE v \in Pair(p) /\ m \cap InputCore # {}
    <3>1. at[p] # "none"
      BY <1>1, <2>1, <2>4 DEF TurnOf, Bound
    <3>2. CASE who[p] # p
      BY <1>1, <2>1, <3>1, <3>2 DEF TurnOf
    <3>3. CASE who[p] = p
      <4>1. PICK d \in Started(v) \cap InputCore : d \in m
        BY <1>1, <2>4
      <4>2. v \notin Combined
        BY <1>3, <2>4, LayerFacts
      <4>3. Started(v)' \cap InputCore = {} /\ (Granting(v) => sel \cap InputCore = {})
        BY <1>2, <4>1, <4>2, OneInputAtATime
      <4>4. PICK o \in Pair(p) : o # v /\ o = Partner(v) /\ Pair(p) = {v, o}
        BY <1>3, <2>4, LayerFacts
      <4>5. sched[v] /\ ~ sched[o]
        <5>1. sched[v]
          BY <2>1, <2>4, <3>1, <3>3, <4>1 DEF TurnOf
        <5>2. sched[p] # sched[SlaveOf(p)] /\ sched[v] \in BOOLEAN /\ sched[o] \in BOOLEAN
          BY <2>1, <3>1, <3>3, <4>4 DEF TurnOf, TypeOK
        <5>3. {p, SlaveOf(p)} = {v, o}
          BY <1>3, <4>4, LayerFacts
        <5> QED BY <4>4, <5>1, <5>2, <5>3
      <4>6. /\ Started(o)' \cap InputCore = {}
            /\ Granting(o) => sel \cap InputCore = {}
        BY <1>2, <2>1, <3>1, <3>3, <4>4, <4>5 DEF TurnOf
      <4>7. sched'[v] # sched'[o]
        <5>1. o # NoVdec
          BY <1>3, <4>4, LayerFacts
        <5>2. sched' = SetNextSched(v, switch)
          BY <1>1, <2>4, <4>4, <5>1
        <5>3. sched'[v] = ~ switch
          BY <5>2 DEF SetNextSched
        <5>4. sched'[o] = IF switch THEN TRUE ELSE sched[o]
          BY <2>1, <4>4, <5>2 DEF SetNextSched
        <5> QED BY <4>5, <5>3, <5>4
      <4>8. {p, SlaveOf(p)} = {v, o}
        BY <1>3, <4>4, LayerFacts
      <4> QED
        BY <1>1, <3>1, <3>3, <4>3, <4>4, <4>6, <4>7, <4>8 DEF TurnOf, Granting
    <3> QED BY <3>2, <3>3
  <2> QED BY <2>2, <2>3, <2>4
<1> QED
  BY <1>1, <1>3 DEF TurnInv

(* A step that leaves the turns and the ports alone.                       *)
LEMMA TurnsKept ==
  ASSUME TurnInv, UNCHANGED <<who, alive, sched>>,
         \A p \in Port : at[p] = "none" <=> at'[p] = "none",
         \A v \in Vdec : Started(v)' \subseteq Started(v),
         \A v \in Vdec : Granting(v)' => Granting(v) /\ sel' = sel
  PROVE  TurnInv'
<1>1. ASSUME NEW p \in Port, SlaveOf(p) # NoVdec PROVE TurnOf(p)'
  <2>1. TurnOf(p) /\ Pair(p) \subseteq Vdec
    BY <1>1, LayerFacts DEF TurnInv
  <2> QED BY <1>1, <2>1, TurnKept
<1> QED BY <1>1 DEF TurnInv

(* The steps of the core thread.                                           *)
LEMMA CoreThreadTurn ==
  ASSUME TypeOK, TurnInv, CoreThread
  PROVE  TurnInv'
<1> USE DEF schedVars, flagVars, threadVars, vdecVars, inputVars, driverVars, userVars
<1>0. UNCHANGED <<at, who, alive, sched>>
  BY DEF CoreThread, Collect, Elect, ElectNone, Grant, LoadSched, Run, Retire, Complete, EndPass
<1>1. ASSUME Collect \/ ElectNone \/ LoadSched \/ Complete \/ EndPass \/ \E v \in Vdec : Retire(v)
      PROVE  TurnInv'
  <2>1. \A v \in Vdec : Started(v)' \subseteq Started(v)
    BY <1>1 DEF Started, Collect, ElectNone, LoadSched, Complete, EndPass, Retire
  <2>2. \A v \in Vdec : Granting(v)' => Granting(v) /\ sel' = sel
    BY <1>1 DEF Granting, Collect, ElectNone, LoadSched, Complete, EndPass, Retire
  <2> QED BY <1>0, <2>1, <2>2, TurnsKept
<1>2. ASSUME NEW v \in Vdec, Elect(v) PROVE TurnInv'
  <2>1. \A w \in Vdec : Started(w)' = Started(w)
    BY <1>2 DEF Elect, Started
  <2>2. \A w \in Vdec : Granting(w)' => w = v
    BY <1>2 DEF Elect, Granting
  <2>3. Partner(v) # NoVdec => sched[v]
    BY <1>2, ElectedMask DEF Elect, NotOnTurn
  <2>4. ASSUME NEW p \in Port, SlaveOf(p) # NoVdec PROVE TurnOf(p)'
    <3>1. TurnOf(p) /\ Pair(p) \subseteq Vdec /\ \A w \in Pair(p) : Partner(w) # NoVdec
      BY <2>4, LayerFacts, VdecAssumption DEF TurnInv
    <3> QED BY <1>0, <2>1, <2>2, <2>3, <3>1 DEF TurnOf
  <2> QED BY <1>0, <2>4 DEF TurnInv
<1>3. ASSUME Grant PROVE TurnInv'
  <2>1. \A v \in Vdec : Started(v)' \subseteq Started(v)
    BY <1>3 DEF Grant, Started, TypeOK
  <2>2. \A v \in Vdec : Granting(v)' => Granting(v) /\ sel' = sel
    BY <1>3 DEF Grant, Granting
  <2> QED BY <1>0, <2>1, <2>2, TurnsKept
<1>4. ASSUME Run PROVE TurnInv'
  <2>1. \A v \in Vdec : ~ Granting(v)'
    BY <1>4 DEF Run, Granting
  <2>2. \A v \in Vdec : Started(v)' \subseteq Started(v) \cup (IF Granting(v) THEN sel ELSE {})
    BY <1>4 DEF Run, Started, Granting
  <2>3. ASSUME NEW p \in Port, SlaveOf(p) # NoVdec PROVE TurnOf(p)'
    <3>1. TurnOf(p) /\ Pair(p) \subseteq Vdec
      BY <2>3, LayerFacts DEF TurnInv
    <3>2. ASSUME NEW v \in Pair(p), at[p] # "none", who[p] = p, Started(v)' \cap InputCore # {}
          PROVE  sched[v]
      <4>1. Started(v) \cap InputCore # {} \/ (Granting(v) /\ sel \cap InputCore # {})
        BY <2>2, <3>1, <3>2
      <4> QED BY <3>1, <3>2, <4>1 DEF TurnOf
    <3> QED BY <1>0, <2>1, <3>1, <3>2 DEF TurnOf
  <2> QED BY <1>0, <2>3 DEF TurnInv
<1> QED
  BY <1>1, <1>2, <1>3, <1>4 DEF CoreThread

(* The steps of the user threads: a port starts with the turn at the       *)
(* master, and its turn ends with the master.                              *)
LEMMA UserTurn ==
  ASSUME TypeOK, TurnInv, NEW q \in Port, User(q)
  PROVE  TurnInv'
<1> USE DEF schedVars, flagVars, threadVars, vdecVars, inputVars, driverVars, userVars
<1>0. q \in Vdec /\ q \in Pair(q) /\ who[q] \in Pair(q) /\ Pair(q) \subseteq Vdec
  BY PairFacts DEF TurnInv
<1>1. ASSUME Connect(q) \/ WaitDone(q) \/ WaitTimeout(q) \/ Reset(q) \/ DriverRemove(q) \/ ClearLoad(q)
               \/ ClearStore(q) \/ \E why \in {"reset", "release"} : Disconnect(q, why)
      PROVE  TurnInv'
  <2>1. UNCHANGED <<who, alive, sched, active_mask, pc, worker, sel>>
    BY <1>1 DEF Connect, WaitDone, WaitTimeout, Reset, DriverRemove, ClearLoad, ClearStore, Disconnect
  <2>2. \A p \in Port : at[p] = "none" <=> at'[p] = "none"
    <3>1. at \in [Port -> UserPc]
      BY DEF TypeOK
    <3>2. at[q] # "none"
      BY <1>1 DEF Connect, WaitDone, WaitTimeout, Reset, DriverRemove, ClearLoad, ClearStore, Disconnect
    <3>3. at'[q] # "none"
      BY <1>1, <3>1
      DEF Connect, WaitDone, WaitTimeout, Reset, DriverRemove, ClearLoad, ClearStore, Disconnect
    <3>4. \A p \in Port \ {q} : at'[p] = at[p]
      BY <1>1, <3>1
      DEF Connect, WaitDone, WaitTimeout, Reset, DriverRemove, ClearLoad, ClearStore, Disconnect
    <3> QED BY <3>2, <3>3, <3>4
  <2>3. \A v \in Vdec : Started(v)' = Started(v) /\ (Granting(v)' <=> Granting(v))
    BY <2>1 DEF Started, Granting
  <2> QED BY <2>1, <2>2, <2>3, TurnsKept
<1>2. ASSUME Open(q) PROVE TurnInv'
  <2>1. /\ at' = [at EXCEPT ![q] = "ready"] /\ who' = [who EXCEPT ![q] = q]
        /\ sched' = [sched EXCEPT ![q] = Partner(q) # NoVdec]
        /\ alive' = alive \cup Pair(q)
        /\ at[q] = "none" /\ worker \notin Pair(q)
        /\ UNCHANGED <<pc, worker, sel>>
    BY <1>2 DEF Open
  <2>2. \A v \in Vdec : Started(v)' = IF v \in Pair(q) THEN {} ELSE Started(v)
    BY <1>2 DEF Open, Started
  <2>3. \A v \in Vdec : Granting(v)' <=> Granting(v)
    BY <2>1 DEF Granting
  <2>4. ASSUME SlaveOf(q) # NoVdec PROVE TurnOf(q)'
    <3>1. TurnOf(q) /\ q # SlaveOf(q) /\ SlaveOf(q) \in Pair(q) /\ Partner(q) # NoVdec
      BY <2>4, LayerFacts DEF TurnInv
    <3>2. sched'[q] = TRUE /\ sched'[SlaveOf(q)] = sched[SlaveOf(q)] /\ ~ sched[SlaveOf(q)]
      BY <1>0, <2>1, <3>1 DEF TurnOf, TypeOK
    <3>3. \A v \in Pair(q) : Started(v)' = {} /\ ~ Granting(v)'
      BY <1>0, <2>1, <2>2 DEF Granting
    <3>4. at'[q] = "ready" /\ who'[q] = q
      BY <1>0, <2>1 DEF TypeOK
    <3> QED BY <3>2, <3>3, <3>4 DEF TurnOf
  <2>5. ASSUME NEW p \in Port \ {q}, SlaveOf(p) # NoVdec PROVE TurnOf(p)'
    <3>1. TurnOf(p) /\ Pair(p) \subseteq Vdec /\ Pair(p) \cap Pair(q) = {}
      BY <2>5, LayerFacts, OtherPair DEF TurnInv
    <3>2. at'[p] = at[p] /\ who'[p] = who[p] /\ Pair(p) \cap alive' \subseteq alive
      BY <2>1, <3>1 DEF TypeOK
    <3>3. \A v \in Pair(p) : sched'[v] = sched[v] /\ Started(v)' = Started(v)
      BY <1>0, <2>1, <2>2, <3>1 DEF TypeOK
    <3> QED BY <2>1, <2>3, <2>5, <3>1, <3>2, <3>3, TurnKept
  <2>6. \A p \in Port : who'[p] \in Pair(p)
    BY <1>0, <2>1 DEF TurnInv, TypeOK
  <2> QED BY <2>4, <2>5, <2>6 DEF TurnInv
<1>3. ASSUME Destroy(q) PROVE TurnInv'
  <2>1. /\ alive' = alive \ {who[q]} /\ sched' = [sched EXCEPT ![who[q]] = FALSE]
        /\ active_mask' = [active_mask EXCEPT ![who[q]] = {}]
        /\ UNCHANGED <<pc, worker, sel>>
        /\ at[q] # "none"
        /\ IF who[q] = q /\ SlaveOf(q) # NoVdec
           THEN at' = [at EXCEPT ![q] = "again"] /\ who' = [who EXCEPT ![q] = SlaveOf(q)]
           ELSE at' = [at EXCEPT ![q] = "none"] /\ who' = [who EXCEPT ![q] = q]
    BY <1>3 DEF Destroy
  <2>2. \A v \in Vdec : Started(v)' \subseteq Started(v) /\ (Granting(v)' <=> Granting(v))
    BY <2>1 DEF Started, Granting, TypeOK
  <2>3. ASSUME SlaveOf(q) # NoVdec PROVE TurnOf(q)'
    <3>1. TurnOf(q) /\ q # SlaveOf(q) /\ Pair(q) = {q, SlaveOf(q)}
      BY <2>3, LayerFacts DEF TurnInv
    <3>2. CASE who[q] = q
      <4>1. at'[q] = "again" /\ who'[q] = SlaveOf(q) /\ q \notin alive'
        BY <2>1, <2>3, <3>2 DEF TypeOK
      <4> QED BY <3>1, <4>1 DEF TurnOf
    <3>3. CASE who[q] # q
      <4>1. who[q] = SlaveOf(q) /\ q \notin alive
        BY <1>0, <3>1, <3>3 DEF TurnOf
      <4>2. at'[q] = "none" /\ who'[q] = q /\ Pair(q) \cap alive' = {} /\ ~ sched'[SlaveOf(q)]
        BY <1>0, <2>1, <3>1, <3>3, <4>1 DEF TypeOK
      <4> QED BY <4>2 DEF TurnOf
    <3> QED BY <3>2, <3>3
  <2>4. ASSUME NEW p \in Port \ {q}, SlaveOf(p) # NoVdec PROVE TurnOf(p)'
    <3>1. TurnOf(p) /\ Pair(p) \subseteq Vdec /\ who[q] \notin Pair(p)
      BY <1>0, <2>4, LayerFacts, OtherPair DEF TurnInv
    <3>2. at'[p] = at[p] /\ who'[p] = who[p] /\ Pair(p) \cap alive' \subseteq alive
      BY <2>1, <3>1 DEF TypeOK
    <3>3. \A v \in Pair(p) : sched'[v] = sched[v]
      BY <1>0, <2>1, <3>1 DEF TypeOK
    <3> QED BY <2>1, <2>2, <2>4, <3>1, <3>2, <3>3, TurnKept
  <2>5. \A p \in Port : who'[p] \in Pair(p)
    <3>1. SlaveOf(q) # NoVdec => SlaveOf(q) \in Pair(q)
      BY LayerFacts
    <3> QED BY <1>0, <2>1, <3>1 DEF TurnInv, TypeOK
  <2> QED BY <2>3, <2>4, <2>5 DEF TurnInv
<1> QED
  BY <1>1, <1>2, <1>3 DEF User

(* In a dual layer pair exactly one layer has the turn, and a layer never  *)
(* decodes its input on the turn of the other, expired waits included.     *)
THEOREM TakesTurns == Spec => []OneTurn
<1> DEFINE Inv == TypeOK /\ OwnInv /\ TurnInv
<1>1. Init => Inv
  <2> SUFFICES ASSUME Init PROVE Inv
    OBVIOUS
  <2>1. TypeOK
    BY InitTypeOK
  <2>2. OwnInv
    BY DEF Init, OwnInv, Granting
  <2>3. \A p \in Port : p \in Vdec /\ p \in Pair(p) /\ who[p] = p /\ at[p] = "none"
    BY PairFacts DEF Init
  <2>4. ASSUME NEW p \in Port, SlaveOf(p) # NoVdec PROVE ~ sched[SlaveOf(p)] /\ alive = {}
    BY <2>4, LayerFacts DEF Init
  <2> QED
    BY <2>1, <2>2, <2>3, <2>4 DEF TurnInv, TurnOf
<1>2. ASSUME Inv, TypeOK', [Next]_vars PROVE Inv'
  <2>1. OwnInv'
    BY <1>2, NextOwn
  <2>2. ASSUME NEW v \in Vdec, Callback(v) \/ Data(v) PROVE TurnInv'
    BY <1>2, <2>2, TurnsKept
    DEF Callback, Data, AddChunk, AddStream, VfPut, Started, Granting, schedVars, flagVars, threadVars,
        vdecVars, inputVars, driverVars, userVars
  <2>3. ASSUME UNCHANGED vars PROVE TurnInv'
    <3>1. UNCHANGED <<at, who, alive, sched, active_mask, pc, worker, sel>>
      BY <2>3 DEF vars, threadVars, vdecVars, userVars
    <3>2. \A v \in Vdec : Started(v)' = Started(v) /\ (Granting(v)' <=> Granting(v))
      BY <3>1 DEF Started, Granting
    <3>3. TurnInv /\ UNCHANGED <<who, alive, sched, sel>> /\ at' = at
      BY <1>2, <3>1
    <3> QED BY <3>2, <3>3, TurnsKept
  <2>4. TurnInv'
    BY <1>2, <2>2, <2>3, FinishTurn, CoreThreadTurn, UserTurn DEF Next, Driver
  <2> QED BY <1>2, <2>1, <2>4
<1>3. Inv => OneTurn
  BY DEF TurnInv, TurnOf, OneTurn
<1> HIDE DEF Inv
<1> QED
  BY <1>1, <1>2, <1>3, TypeCorrect, PTL DEF Spec

-----------------------------------------------------------------------------
LEMMA UpAwakes ==
  ASSUME TypeOK, up
  PROVE  Awake'
BY BoundAssumption DEF TypeOK, up, Awake

(* When another pass is sure to come, nothing more is promised.            *)
LEMMA WakeAwake ==
  ASSUME WakeInv, Awake', UNCHANGED <<stream_buff_flag, power_ref, low>>,
         pc = "elect" => pc' = "elect"
  PROVE  WakeInv'
BY DEF WakeInv

(* What blocks an instance depends on the instance alone.                  *)
LEMMA BlockedSame ==
  ASSUME NEW v \in Vdec, NEW c \in Core,
         status'[v] = status[v], next_status'[v] = next_status[v], sched'[v] = sched[v],
         pipe'[v] = pipe[v], room'[v] = room[v], input'[v] = input[v],
         "MORE" \in need_more'[v] <=> "MORE" \in need_more[v]
  PROVE  Blocked(v, c)' <=> Blocked(v, c)
BY DEF Blocked, Managed, NotOnTurn, RunReady, WaitBackCore, Starved

(* A step that wakes nobody must not make work.                            *)
LEMMA WakeQuiet ==
  ASSUME WakeInv, TypeOK,
         UNCHANGED <<sem, cb, core_sched, connected, stream_buff_flag, power_ref, idx, low, worker>>,
         pc' = pc \/ (Ended /\ Ended'),
         \A v \in connected : Released(v)' \subseteq Released(v) /\ (Leaves(v)' => Leaves(v)),
         \A v \in connected : core_mask'[v] = core_mask[v],
         \A v \in connected : \A c \in Core : Blocked(v, c) => Blocked(v, c)'
  PROVE  WakeInv'
<1>1. Awake' <=> Awake
  BY DEF Awake
<1>2. \A c \in Core : Settled(c) => Settled(c)'
  BY DEF Settled
<1>3. /\ pc' = "elect" <=> pc = "elect"
      /\ pc' = "down" <=> pc = "down"
      /\ Ended' <=> Ended
  BY DEF Ended
<1> QED
  BY <1>1, <1>2, <1>3 DEF WakeInv

(* The same, when a step touches only instances that are not listed.       *)
LEMMA WakeUnlisted ==
  ASSUME WakeInv, TypeOK,
         UNCHANGED <<sem, cb, core_sched, connected, stream_buff_flag, power_ref, idx, low, worker>>,
         pc' = pc \/ (Ended /\ Ended'),
         \A v \in connected :
           /\ status'[v] = status[v] /\ next_status'[v] = next_status[v] /\ sched'[v] = sched[v]
           /\ pipe'[v] = pipe[v] /\ room'[v] = room[v] /\ input'[v] = input[v]
           /\ need_more'[v] = need_more[v] /\ core_mask'[v] = core_mask[v]
           /\ sched_mask'[v] = sched_mask[v] /\ active_mask'[v] = active_mask[v]
  PROVE  WakeInv'
<1>1. connected \subseteq Vdec
  BY DEF TypeOK
<1>2. \A v \in connected : Released(v)' = Released(v) /\ (Leaves(v)' <=> Leaves(v))
  BY DEF Released, Leaves
<1>3. ASSUME NEW v \in connected, NEW c \in Core PROVE Blocked(v, c) => Blocked(v, c)'
  <2>1. v \in Vdec
    BY <1>1
  <2> QED BY <2>1, BlockedSame
<1> QED
  BY <1>2, <1>3, WakeQuiet

(* The slave of an instance is in the pair of the same port.               *)
LEMMA SlaveInPair ==
  ASSUME NEW p \in Port, NEW w \in Pair(p), SlaveOf(w) # NoVdec
  PROVE  SlaveOf(w) \in Pair(p)
<1>1. SlaveOf(w) \in Vdec /\ MasterOf[SlaveOf(w)] = w
  BY DEF SlaveOf
<1>2. w \in Vdec /\ w # NoVdec /\ PortOf(w) = p
  BY PairFacts, VdecAssumption
<1>3. w \in Port
  BY <1>1, <1>2, VdecAssumption
<1>4. w = p
  BY <1>2, <1>3 DEF PortOf, Port
<1> QED BY <1>1, <1>4, LayerFacts

-----------------------------------------------------------------------------
(* The user thread of a port: it wakes the core thread, or works on        *)
(* instances that the core thread does not know.                           *)
LEMMA UserWake ==
  ASSUME ~ DisconnectMayTimeout, IndInv, WakeInv, NEW p \in Port, User(p)
  PROVE  WakeInv'
<1> USE DEF schedVars, flagVars, threadVars, vdecVars, inputVars, driverVars, userVars
<1>0. /\ TypeOK /\ connected \subseteq Vdec /\ PortInv(p) /\ who[p] \in Pair(p)
      /\ p \in Vdec /\ p \in Pair(p) /\ Pair(p) \subseteq Vdec
  BY PairFacts DEF IndInv, TypeOK, UserInv, PortInv
<1>1. ASSUME at[p] \notin {"open", "wait1", "wait2"} PROVE connected \cap Pair(p) = {}
  BY <1>1, NotHeld DEF IndInv, Held
<1>2. ASSUME Open(p) PROVE WakeInv'
  <2>1. connected \cap Pair(p) = {}
    BY <1>1, <1>2 DEF Open
  <2>2. UNCHANGED <<sem, cb, core_sched, connected, stream_buff_flag, power_ref, idx, low, worker, pc,
                    next_status, pipe, room, input, need_more>>
    BY <1>2 DEF Open
  <2>3. ASSUME NEW v \in connected
        PROVE  /\ status'[v] = status[v] /\ sched'[v] = sched[v] /\ core_mask'[v] = core_mask[v]
               /\ sched_mask'[v] = sched_mask[v] /\ active_mask'[v] = active_mask[v]
    BY <1>0, <1>2, <2>1 DEF Open, TypeOK
  <2> QED BY <1>0, <2>2, <2>3, WakeUnlisted
<1>3. ASSUME Connect(p) PROVE WakeInv'
  <2>1. CASE status[p] = "DISCONNECTED"
    <3>1. Awake'
      BY <1>0, <1>3, <2>1, UpAwakes DEF Connect
    <3> QED BY <1>3, <3>1, WakeAwake DEF Connect
  <2>2. CASE status[p] # "DISCONNECTED"
    BY <1>0, <1>3, <2>2, WakeUnlisted DEF Connect
  <2> QED BY <2>1, <2>2
<1>4. ASSUME NEW why \in {"reset", "release"}, Disconnect(p, why) PROVE WakeInv'
  <2>1. CASE Managed(who[p])
    <3>1. Awake'
      BY <1>0, <1>4, <2>1, UpAwakes DEF Disconnect
    <3> QED BY <1>4, <3>1, WakeAwake DEF Disconnect
  <2>2. CASE ~ Managed(who[p])
    BY <1>0, <1>4, <2>2, WakeUnlisted DEF Disconnect
  <2> QED BY <2>1, <2>2
<1>5. ASSUME WaitDone(p) \/ ClearLoad(p) PROVE WakeInv'
  BY <1>0, <1>5, WakeUnlisted DEF WaitDone, ClearLoad
<1>6. ASSUME WaitTimeout(p) \/ ClearStore(p) PROVE WakeInv'
  BY <1>0, <1>6 DEF WaitTimeout, ClearStore, PortInv
<1>7. ASSUME Reset(p) PROVE WakeInv'
  <2>1. connected \cap Pair(p) = {}
    BY <1>1, <1>7 DEF Reset
  <2>2. UNCHANGED <<sem, cb, core_sched, connected, stream_buff_flag, power_ref, idx, low, worker, pc,
                    status, next_status, sched, need_more, core_mask, sched_mask, active_mask>>
    BY <1>7 DEF Reset
  <2>3. ASSUME NEW v \in connected
        PROVE  pipe'[v] = pipe[v] /\ room'[v] = room[v] /\ input'[v] = input[v]
    BY <1>0, <1>7, <2>1 DEF Reset, TypeOK
  <2> QED BY <1>0, <2>2, <2>3, WakeUnlisted
<1>8. ASSUME DriverRemove(p) PROVE WakeInv'
  <2>1. connected \cap Pair(p) = {}
    BY <1>1, <1>8 DEF DriverRemove
  <2>2. UNCHANGED <<sem, cb, core_sched, connected, stream_buff_flag, power_ref, idx, low, worker, pc,
                    next_status, sched, pipe, room, input, need_more, sched_mask, active_mask>>
    BY <1>8 DEF DriverRemove
  <2>3. ASSUME NEW v \in connected
        PROVE  status'[v] = status[v] /\ core_mask'[v] = core_mask[v]
    <3>1. v # who[p] /\ v # SlaveOf(who[p])
      BY <1>0, <2>1, SlaveInPair, VdecAssumption
    <3> QED BY <1>0, <1>8, <3>1 DEF DriverRemove, TypeOK
  <2> QED BY <1>0, <2>2, <2>3, WakeUnlisted
<1>9. ASSUME Destroy(p) PROVE WakeInv'
  <2>1. connected \cap Pair(p) = {}
    BY <1>1, <1>9 DEF Destroy
  <2>2. UNCHANGED <<sem, cb, core_sched, connected, stream_buff_flag, power_ref, idx, low, worker, pc>>
    BY <1>9 DEF Destroy
  <2>3. ASSUME NEW v \in connected
        PROVE  /\ status'[v] = status[v] /\ next_status'[v] = next_status[v] /\ sched'[v] = sched[v]
               /\ pipe'[v] = pipe[v] /\ room'[v] = room[v] /\ input'[v] = input[v]
               /\ need_more'[v] = need_more[v] /\ core_mask'[v] = core_mask[v]
               /\ sched_mask'[v] = sched_mask[v] /\ active_mask'[v] = active_mask[v]
    <3>1. v # who[p] /\ v \in Vdec
      BY <1>0, <2>1
    <3> QED BY <1>9, <3>1 DEF Destroy, TypeOK
  <2> QED BY <1>0, <2>2, <2>3, WakeUnlisted
<1> QED
  BY <1>2, <1>3, <1>4, <1>5, <1>6, <1>7, <1>8, <1>9 DEF User

(* The drivers and the producers and consumers of data: what makes work    *)
(* wakes the core thread or leaves a callback to come.                     *)
LEMMA DriverWake ==
  ASSUME TypeOK, WakeInv, NEW v \in Vdec, Driver(v) \/ Data(v)
  PROVE  WakeInv'
<1> USE DEF schedVars, flagVars, threadVars, vdecVars, inputVars, driverVars, userVars
<1>0. connected \subseteq Vdec
  BY DEF TypeOK
<1>1. ASSUME NEW m \in SUBSET Core, NEW used \in BOOLEAN, NEW switch \in BOOLEAN,
             FinishRun(v, m, used, switch)
      PROVE  WakeInv'
  <2>1. cb'[v] # {}
    BY <1>1 DEF FinishRun, TypeOK
  <2>2. Awake'
    BY <2>1 DEF Awake
  <2> QED BY <1>1, <2>2, WakeAwake DEF FinishRun
<1>2. ASSUME Callback(v) \/ VfPut(v) PROVE WakeInv'
  <2>1. Awake'
    BY <1>2, UpAwakes DEF Callback, VfPut
  <2> QED BY <1>2, <2>1, WakeAwake DEF Callback, VfPut
<1>3. ASSUME AddChunk(v) PROVE WakeInv'
  <2>1. CASE input[v] = 0
    <3>1. Awake'
      BY <1>3, <2>1, UpAwakes DEF AddChunk
    <3> QED BY <1>3, <3>1, WakeAwake DEF AddChunk
  <2>2. CASE input[v] # 0
    <3>1. ASSUME NEW w \in connected, NEW c \in Core PROVE Blocked(w, c) => Blocked(w, c)'
      <4>1. CASE w = v
        <5>1. ~ Starved(v)
          BY <1>3, <2>2, VdecAssumption DEF AddChunk, Starved, Polled
        <5> QED
          BY <1>3, <4>1, <5>1 DEF AddChunk, Blocked, Managed, NotOnTurn, RunReady, WaitBackCore
      <4>2. CASE w # v
        <5>1. input'[w] = input[w] /\ w \in Vdec
          BY <1>0, <1>3, <4>2 DEF AddChunk, TypeOK
        <5> QED BY <1>3, <5>1, BlockedSame DEF AddChunk
      <4> QED BY <4>1, <4>2
    <3>2. \A w \in connected : Released(w)' = Released(w) /\ (Leaves(w)' <=> Leaves(w))
      BY <1>3 DEF AddChunk, Released, Leaves
    <3> QED BY <1>3, <2>2, <3>1, <3>2, WakeQuiet DEF AddChunk
  <2> QED BY <2>1, <2>2
<1>4. ASSUME AddStream(v) PROVE WakeInv'
  <2>1. CASE v \in ExtBuf /\ "MORE" \in need_more[v]
    <3>1. Awake'
      BY <1>4, <2>1, UpAwakes DEF AddStream
    <3> QED BY <1>4, <3>1, WakeAwake DEF AddStream
  <2>2. CASE ~ (v \in ExtBuf /\ "MORE" \in need_more[v])
    <3>1. ASSUME NEW w \in connected, NEW c \in Core PROVE Blocked(w, c) => Blocked(w, c)'
      <4>1. Starved(w) => Starved(w)'
        <5>1. w \notin Stream => input'[w] = input[w]
          BY <1>0, <1>4 DEF AddStream, TypeOK
        <5> QED BY <1>4, <2>2, <5>1 DEF AddStream, Starved
      <4> QED
        BY <1>4, <2>2, <4>1 DEF AddStream, Blocked, Managed, NotOnTurn, RunReady, WaitBackCore
    <3>2. \A w \in connected : Released(w)' = Released(w) /\ (Leaves(w)' <=> Leaves(w))
      BY <1>4 DEF AddStream, Released, Leaves
    <3> QED BY <1>4, <2>2, <3>1, <3>2, WakeQuiet DEF AddStream
  <2> QED BY <2>1, <2>2
<1> QED
  BY <1>1, <1>2, <1>3, <1>4 DEF Driver, Data

-----------------------------------------------------------------------------
(* An instance that the election of a free core c has passed over cannot   *)
(* use c, now that the look at it has left its mark.                       *)
LEMMA PassedOver ==
  ASSUME Combined = {}, IndInv, low \subseteq Stream, pc = "elect",
         NEW c \in Core \ core_sched, Electable(c) = {}, LookAt(c, Visited(c, NoVdec)),
         UNCHANGED <<status, next_status, sched, pipe, room, input>>,
         NEW v \in connected, c \in core_mask[v]
  PROVE  Blocked(v, c)'
<1>1. v \in Vdec /\ TypeOK /\ InputCore \cap BackCore = {} /\ Core = InputCore \cup BackCore
  BY CoreAssumption DEF IndInv, TypeOK, BackCore
<1>2. c \notin sched_mask[v]
  BY <1>1 DEF IndInv, CoreInv
<1>3. ScheduleMask(v, c) = {c}
  BY <1>2 DEF ScheduleMask
<1>4. v \in Asked(c) /\ ReadyMask(v, {c}) = {}
  <2>1. v \in Asked(c)
    BY <1>3 DEF Asked
  <2> QED BY <1>3, <2>1 DEF Electable
<1>5. CASE next_status[v] = "DISCONNECTED" \/ ~ Managed(v) \/ NotOnTurn(v)
  BY <1>5 DEF Blocked, Managed, NotOnTurn
<1>6. CASE ~ (next_status[v] = "DISCONNECTED" \/ ~ Managed(v) \/ NotOnTurn(v))
  <2>1. v \in Visited(c, NoVdec)
    BY <1>4, <1>6 DEF Visited
  <2>2. c \in BackCore => ~ (FrontBack(v) /\ pipe[v] > 0)
    BY <1>4, <1>6 DEF ReadyMask
  <2>3. c \in InputCore => ~ HasData(v) \/ ~ RunReady(v)
    BY <1>4, <1>6 DEF ReadyMask
  <2>4. ASSUME c \in InputCore, ~ HasData(v), v \in Stream PROVE "MORE" \in need_more'[v]
    BY <1>1, <1>6, <2>1, <2>4 DEF LookAt
  <2>5. c \in InputCore => ~ RunReady(v)' \/ Starved(v)'
    <3>1. SUFFICES ASSUME c \in InputCore, ~ HasData(v) PROVE Starved(v)'
      BY <2>3 DEF RunReady, WaitBackCore
    <3>2. CASE v \in Stream
      BY <2>4, <3>1, <3>2 DEF Starved, Polled
    <3>3. CASE v \notin Stream
      <4>1. input[v] \in Nat /\ ~ (input[v] > 0)
        BY <1>1, <3>1, <3>3, BoundAssumption DEF HasData, TypeOK
      <4> QED BY <3>3, <4>1 DEF Starved
    <3> QED BY <3>2, <3>3
  <2> QED
    BY <2>2, <2>5 DEF Blocked
<1> QED BY <1>5, <1>6

(* The look at the instances for core c unblocks nobody for a core d: a    *)
(* stream whose level has risen has no buffer, or it would be electable.   *)
LEMMA StaysBlocked ==
  ASSUME Combined = {}, IndInv, pc = "elect",
         NEW c \in Nat \ core_sched, Electable(c) = {}, LookAt(c, Visited(c, NoVdec)),
         UNCHANGED <<status, next_status, sched, pipe, room, input>>,
         NEW v \in connected, NEW d \in Core, Blocked(v, d)
  PROVE  Blocked(v, d)'
<1>1. v \in Vdec /\ TypeOK /\ InputCore \subseteq Core
  BY CoreAssumption DEF IndInv, TypeOK
<1>2. CASE "MORE" \in need_more[v] => "MORE" \in need_more'[v]
  BY <1>2 DEF Blocked, Managed, NotOnTurn, RunReady, WaitBackCore, Starved
<1>3. CASE "MORE" \in need_more[v] /\ "MORE" \notin need_more'[v]
  <2>1. /\ v \in Visited(c, NoVdec) /\ ~ NotOnTurn(v) /\ c \in InputCore
        /\ HasData(v)
    BY <1>1, <1>3 DEF LookAt
  <2>2. v \in Asked(c) /\ next_status[v] # "DISCONNECTED" /\ Managed(v)
    BY <2>1 DEF Visited
  <2>3. ScheduleMask(v, c) = {c} /\ ReadyMask(v, {c}) = {}
    <3>1. ScheduleMask(v, c) = {c}
      BY <2>2 DEF Asked, ScheduleMask
    <3> QED BY <2>2, <3>1 DEF Electable
  <2>4. ~ RunReady(v)
    BY <2>1, <2>2, <2>3 DEF ReadyMask
  <2>5. d \in BackCore => ~ (FrontBack(v) /\ pipe[v] > 0)
    BY <2>1, <2>2 DEF Blocked
  <2> QED
    BY <2>4, <2>5 DEF Blocked, RunReady, WaitBackCore
<1> QED BY <1>2, <1>3

LEMMA ElectNoneWake ==
  ASSUME Combined = {}, IndInv, WakeInv, ElectNone
  PROVE  WakeInv'
<1> USE DEF schedVars, flagVars, threadVars, vdecVars, inputVars, driverVars, userVars
<1>1. /\ UNCHANGED <<sem, cb, core_sched, connected, core_mask, sched_mask, active_mask, status,
                     next_status, sched, input, pipe, room, stream_buff_flag, power_ref, worker>>
      /\ pc = "elect" /\ worker = NoVdec
  BY DEF ElectNone, IndInv, PtrInv
<1>2. Awake' <=> Awake
  BY <1>1 DEF Awake
<1>3. \A v \in connected : Released(v)' = Released(v) /\ (Leaves(v)' <=> Leaves(v))
  BY <1>1 DEF Released, Leaves
<1>4. low \subseteq Stream /\ low' \subseteq Stream /\ (pc' # "elect" => low' = {})
  BY DEF ElectNone, ReadLevels, WakeInv
<1>5. \/ pc' = "retire"
      \/ pc' = "elect" /\ \A c \in Core : c > idx' => c >= idx
  <2>1. idx \in Nat /\ Core \subseteq Nat
    BY CoreAssumption DEF IndInv, TypeOK
  <2>2. CASE {d \in Core : d < idx} = {}
    BY <2>2 DEF ElectNone
  <2>3. CASE {d \in Core : d < idx} # {}
    <3>1. pc' = "elect" /\ idx' \in Core /\ \A e \in Core : e < idx => e <= idx'
      BY <2>3 DEF ElectNone
    <3> QED BY <2>1, <3>1
  <2> QED BY <2>2, <2>3
<1>6. pc' = "retire" => \A c \in Core : c >= idx
  <2>1. idx \in Nat /\ Core \subseteq Nat
    BY CoreAssumption DEF IndInv, TypeOK
  <2>2. pc' = "retire" => {d \in Core : d < idx} = {}
    BY DEF ElectNone
  <2> QED BY <2>1, <2>2
<1>7. ASSUME ~ Awake, NEW c \in Core, c >= idx PROVE Settled(c)'
  <2>1. idx \in Nat /\ c \in Nat
    BY CoreAssumption DEF IndInv, TypeOK
  <2>2. CASE c \in core_sched
    BY <1>1, <2>2 DEF Settled
  <2>3. CASE c = idx /\ c \notin core_sched
    <3>1. Electable(c) = {} /\ LookAt(c, Visited(c, NoVdec))
      BY <2>3 DEF ElectNone
    <3> QED BY <1>1, <1>4, <2>3, <3>1, PassedOver DEF Settled
  <2>4. CASE c # idx /\ c \notin core_sched
    <3>1. c > idx
      BY <1>7, <2>1, <2>4
    <3>2. Settled(c)
      BY <1>1, <1>7, <3>1 DEF WakeInv
    <3>3. CASE idx \in core_sched
      <4>1. need_more' = need_more
        BY <3>3 DEF ElectNone
      <4>2. \A v \in connected : Blocked(v, c)' <=> Blocked(v, c)
        <5>1. connected \subseteq Vdec
          BY DEF IndInv, TypeOK
        <5> QED BY <1>1, <4>1, <5>1, BlockedSame
      <4> QED BY <1>1, <3>2, <4>2 DEF Settled
    <3>4. CASE idx \notin core_sched
      <4>1. Electable(idx) = {} /\ LookAt(idx, Visited(idx, NoVdec))
        BY <3>4 DEF ElectNone
      <4>2. \A v \in connected : Blocked(v, c) => Blocked(v, c)'
        BY <1>1, <2>1, <3>4, <4>1, StaysBlocked
      <4> QED BY <1>1, <3>2, <4>2 DEF Settled
    <3> QED BY <3>3, <3>4
  <2> QED BY <2>2, <2>3, <2>4
<1>8. pc' \in {"elect", "retire"} /\ worker' = NoVdec
  BY <1>1, <1>5
<1>9. pc' = "elect" => Awake' \/ \A c \in Core : c > idx' => Settled(c)'
  BY <1>2, <1>5, <1>7
<1>10. pc' = "retire" => Awake' \/ \A c \in Core : Settled(c)'
  BY <1>2, <1>6, <1>7
<1>11. Awake' \/ \A v \in connected' \cap Polled : core_mask'[v] \subseteq stream_buff_flag'
  BY <1>1, <1>2 DEF WakeInv
<1>12. \A v \in connected' : Released(v)' # {} \/ Leaves(v)' => Awake'
  BY <1>1, <1>2, <1>3 DEF WakeInv
<1> QED
  BY <1>1, <1>4, <1>8, <1>9, <1>10, <1>11, <1>12 DEF WakeInv, Ended

(* The collection takes every finished core and every idle leaver, so      *)
(* that the count it took from the semaphore is not missed.                *)
LEMMA CollectWake ==
  ASSUME IndInv, WakeInv, Collect
  PROVE  WakeInv'
<1> USE DEF schedVars, flagVars, threadVars, vdecVars, inputVars, driverVars, userVars
<1>1. /\ connected' = connected \ {v \in connected : Leaves(v)}
      /\ pc' = "elect" /\ UNCHANGED <<worker, status, next_status, core_mask, active_mask>>
      /\ connected \subseteq Vdec
      /\ low' \subseteq Stream
  BY DEF Collect, ReadLevels, IndInv, TypeOK
<1>2. ASSUME NEW v \in connected' PROVE Released(v)' = {} /\ ~ Leaves(v)'
  <2>1. v \in connected /\ ~ Leaves(v) /\ v \in Vdec
    BY <1>1
  <2>2. sched_mask'[v] = sched_mask[v] \cap active_mask[v]
    BY <2>1 DEF Collect
  <2> QED BY <1>1, <2>1, <2>2 DEF Released, Leaves
<1>3. \A c \in Core : ~ (c > idx')
  <2>1. PICK d \in Core : idx' = d /\ \A c \in Core : c <= d
    BY DEF Collect
  <2> QED BY <2>1, CoreAssumption
<1>4. \A v \in connected' \cap Polled : core_mask'[v] \subseteq stream_buff_flag'
  BY <1>1 DEF Collect, UpdateBuffStatus, Polled
<1>5. stream_buff_flag' \subseteq power_ref'
  BY DEF Collect, UpdateBuffStatus
<1> QED
  BY <1>1, <1>2, <1>3, <1>4, <1>5 DEF WakeInv, Ended

(* The thread sleeps again when nothing is left to do: nothing was elected *)
(* and no polled stream waits for a free core.                             *)
LEMMA EndPassWake ==
  ASSUME Combined = {}, IndInv, NoDanglingVdec, WakeInv, EndPass
  PROVE  WakeInv'
<1> USE DEF schedVars, flagVars, threadVars, vdecVars, inputVars, driverVars, userVars
<1>1. /\ UNCHANGED <<cb, core_sched, connected, core_mask, sched_mask, active_mask, status,
                     next_status, sched, input, need_more, pipe, room, stream_buff_flag, power_ref, low>>
      /\ pc = "retire" /\ pc' = "down" /\ worker' = NoVdec
  BY DEF EndPass
<1>2. TypeOK /\ connected \subseteq Vdec
  BY DEF IndInv, TypeOK
<1>3. CASE Awake'
  BY <1>1, <1>3, WakeAwake
<1>4. CASE ~ Awake'
  <2>1. ~ (worker = NoVdec /\ (RePoll \/ run_flag)) /\ sem' = sem
    BY <1>2, <1>4, UpAwakes DEF EndPass
  <2>2. ~ Awake
    BY <1>1, <1>4, <2>1 DEF Awake
  <2>3. worker = NoVdec /\ ~ RePoll
    BY <1>1, <2>1, <2>2 DEF WakeInv, Ended
  <2>4. \A c \in Core : Settled(c)
    BY <1>1, <2>2, <2>3 DEF WakeInv, Ended
  <2>5. \A c \in Core : Settled(c)'
    <3>1. \A v \in connected : \A c \in Core : Blocked(v, c)' <=> Blocked(v, c)
      BY <1>1, <1>2, BlockedSame
    <3> QED BY <1>1, <2>4, <3>1 DEF Settled
  <2>6. ASSUME NEW v \in connected \cap Polled PROVE core_mask[v] \subseteq core_sched
    <3>1. core_mask[v] \subseteq stream_buff_flag /\ stream_buff_flag \subseteq power_ref
      BY <1>1, <2>2, <2>3 DEF WakeInv, Ended
    <3>2. alive # {} /\ ~ CombineFlag
      BY DEF NoDanglingVdec, CombineFlag
    <3>3. stream_buff_flag \cap (power_ref \ core_sched) = {}
      BY <2>3, <3>2 DEF RePoll
    <3> QED BY <3>1, <3>3
  <2>7. \A v \in connected : Released(v)' = {} /\ ~ Leaves(v)'
    BY <1>1, <2>2 DEF WakeInv, Released, Leaves
  <2>8. stream_buff_flag' \subseteq power_ref' /\ low' = {}
    BY <1>1 DEF WakeInv
  <2> QED
    BY <1>1, <2>5, <2>6, <2>7, <2>8 DEF WakeInv, Ended
<1> QED BY <1>3, <1>4

(* The other steps of the core thread.                                     *)
LEMMA ThreadWake ==
  ASSUME Combined = {}, IndInv, NoDanglingVdec, WakeInv, CoreThread
  PROVE  WakeInv'
<1> USE DEF schedVars, flagVars, threadVars, vdecVars, inputVars, driverVars, userVars
<1>0. TypeOK /\ connected \subseteq Vdec
  BY DEF IndInv, TypeOK
<1>1. ASSUME NEW v \in Vdec, Elect(v) PROVE WakeInv'
  <2>1. /\ UNCHANGED <<sem, cb, connected, sched_mask, active_mask, status, next_status,
                       stream_buff_flag, power_ref>>
        /\ pc' = "grant" /\ low' = {}
    BY <1>1 DEF Elect
  <2>2. \A w \in connected : Released(w)' = Released(w) /\ (Leaves(w)' <=> Leaves(w))
    BY <2>1 DEF Released, Leaves
  <2>3. Awake' <=> Awake
    BY <2>1 DEF Awake
  <2> QED BY <2>1, <2>2, <2>3 DEF WakeInv, Ended
<1>2. ASSUME Grant \/ LoadSched PROVE WakeInv'
  <2>1. /\ UNCHANGED <<sem, cb, connected, next_status, stream_buff_flag, power_ref, low>>
        /\ pc \in {"grant", "load"} /\ pc' \in {"load", "run"}
    BY <1>2 DEF Grant, LoadSched
  <2>2. ASSUME NEW w \in connected PROVE Released(w)' \subseteq Released(w) /\ (Leaves(w)' => Leaves(w))
    BY <1>0, <1>2 DEF Grant, LoadSched, Released, Leaves, TypeOK
  <2>3. Awake' <=> Awake
    BY <2>1 DEF Awake
  <2> QED BY <2>1, <2>2, <2>3 DEF WakeInv, Ended
<1>3. ASSUME Run PROVE WakeInv'
  <2>1. Awake'
    <3>1. ~ CombineFlag
      BY DEF CombineFlag
    <3> QED BY <1>0, <1>3, <3>1, UpAwakes DEF Run
  <2> QED BY <1>3, <2>1, WakeAwake DEF Run
<1>4. ASSUME NEW v \in Vdec, Retire(v) PROVE WakeInv'
  <2>1. v \notin connected
    BY <1>4 DEF Retire, IndInv, ListInv
  <2>2. \A w \in connected : status'[w] = status[w]
    BY <1>0, <1>4, <2>1 DEF Retire, TypeOK
  <2> QED BY <1>0, <1>4, <2>2, WakeUnlisted DEF Retire, Ended
<1>5. ASSUME Complete PROVE WakeInv'
  BY <1>0, <1>5, WakeUnlisted DEF Complete, Ended
<1> QED
  BY <1>1, <1>2, <1>3, <1>4, <1>5, CollectWake, ElectNoneWake, EndPassWake DEF CoreThread

(* The scheduler never sleeps on work, when no driver combines cores (the  *)
(* default, parallel_decode = 1) and no wait of vdec_disconnect expires.   *)
THEOREM NeverSleepsOnWork ==
  ASSUME ~ DisconnectMayTimeout, Combined = {}
  PROVE  Spec => []NoLostWakeup
<1>1. Init => WakeInv
  BY DEF Init, WakeInv, Ended, Awake
<1>2. ASSUME IndInv, NoDanglingVdec, WakeInv, [Next]_vars PROVE WakeInv'
  <2>1. TypeOK
    BY <1>2 DEF IndInv
  <2>2. ASSUME UNCHANGED vars PROVE WakeInv'
    BY <1>2, <2>1, <2>2, WakeUnlisted
    DEF vars, schedVars, flagVars, threadVars, vdecVars, inputVars, driverVars, userVars
  <2> QED
    BY <1>2, <2>1, <2>2, ThreadWake, DriverWake, UserWake DEF Next
<1>3. ASSUME IndInv, WakeInv PROVE NoLostWakeup
  <2>1. SUFFICES ASSUME Asleep
                 PROVE  /\ \A c \in Core \ core_sched : \A v \in Electable(c) :
                             v \in ExtBuf /\ "MORE" \in need_more[v]
                        /\ \A v \in connected : Released(v) = {} /\ ~ Leaves(v)
    BY DEF NoLostWakeup
  <2>2. TypeOK /\ ~ Awake /\ pc = "down" /\ low = {}
    BY <1>3, <2>1 DEF Asleep, Awake, WakeInv, IndInv, TypeOK
  <2>3. ASSUME NEW c \in Core \ core_sched, NEW v \in Electable(c)
        PROVE  v \in ExtBuf /\ "MORE" \in need_more[v]
    <3>1. v \in connected /\ v \in Vdec /\ ScheduleMask(v, c) # {}
      BY <2>2, <2>3 DEF Electable, Asked, TypeOK
    <3>2. c \in core_mask[v] /\ ScheduleMask(v, c) = {c} /\ ReadyMask(v, {c}) # {}
      BY <2>3, <3>1 DEF Electable, ScheduleMask
    <3>3. Blocked(v, c)
      BY <1>3, <2>2, <2>3, <3>1, <3>2 DEF WakeInv, Settled
    <3>4. v \notin Polled
      BY <1>3, <2>2, <3>1, <3>2 DEF WakeInv
    <3>5. ~ (c \in BackCore /\ FrontBack(v) /\ pipe[v] > 0)
      BY <3>2, <3>3 DEF Blocked, ReadyMask
    <3>6. c \in InputCore /\ HasData(v) /\ RunReady(v)
      BY <3>2, <3>5, CoreAssumption DEF ReadyMask, BackCore
    <3>7. Starved(v)
      BY <3>2, <3>3, <3>6 DEF Blocked, ReadyMask
    <3>8. input[v] # 0
      BY <3>6 DEF HasData
    <3> QED BY <3>4, <3>7, <3>8 DEF Starved
  <2> QED
    BY <1>3, <2>2, <2>3 DEF WakeInv
<1> QED
  BY <1>1, <1>2, <1>3, Inductive, NoDangling, PTL DEF Spec
=============================================================================
