------------------------- MODULE VdecCoreRefinement -------------------------
(***************************************************************************)
(* VdecCore implements CoreAlloc, for every set of instances and cores,    *)
(* when the waits of vdec_disconnect do not expire.  The owner of a core   *)
(* is the instance whose sched_mask has it: the inductive invariant makes  *)
(* it unique, and every action but five leaves it, the list and the        *)
(* requests to leave alone.                                                *)
(***************************************************************************)
EXTENDS VdecCoreProofs

(* Under CoreExclusive the CHOOSE in Owner has one candidate.              *)
LEMMA OwnerFacts ==
  ASSUME CoreExclusive, NEW c \in Core
  PROVE  /\ \A v \in Vdec : Owner[c] = v <=> c \in sched_mask[v]
         /\ Owner[c] = NoVdec <=> \A v \in Vdec : c \notin sched_mask[v]
         /\ Owner[c] \in Vdec \cup {NoVdec}
BY VdecAssumption DEF Owner, CoreExclusive

LEMMA OwnerUnchanged ==
  ASSUME sched_mask' = sched_mask
  PROVE  Owner' = Owner
BY DEF Owner

(* Two owner functions are equal when the masks of all instances agree on  *)
(* who holds which core.                                                   *)
LEMMA OwnerIs ==
  ASSUME CoreExclusive', NEW f \in [Core -> Vdec \cup {NoVdec}],
         \A c \in Core, v \in Vdec : c \in sched_mask'[v] <=> f[c] = v
  PROVE  Owner' = f
<1>1. ASSUME NEW c \in Core PROVE Owner'[c] = f[c]
  <2>1. CASE f[c] = NoVdec
    BY <2>1, VdecAssumption DEF Owner
  <2>2. CASE f[c] \in Vdec
    <3>1. c \in sched_mask'[f[c]] /\ \A v \in Vdec : c \in sched_mask'[v] => v = f[c]
      BY <2>2
    <3> QED
      BY <2>2, <3>1 DEF Owner
  <2> QED
    BY <2>1, <2>2
<1> QED
  BY <1>1 DEF Owner

(* A step that changes neither masks, list nor next_status is a stutter.   *)
LEMMA Stutters ==
  ASSUME sched_mask' = sched_mask, connected' = connected, next_status' = next_status
  PROVE  UNCHANGED <<Owner, connected, Leaving>>
BY OwnerUnchanged DEF Leaving

-----------------------------------------------------------------------------
(* The collection takes back the finished cores and lets idle leavers go.  *)
LEMMA CollectRefines ==
  ASSUME IndInv, IndInv', Collect
  PROVE  \E cs \in SUBSET Core, S \in SUBSET Vdec : Alloc!TakeBack(cs, S)
<1> DEFINE cs == UNION {Released(v) : v \in connected}
           S == {v \in connected : Leaves(v)}
<1>1. TypeOK /\ CoreExclusive /\ CoreExclusive' /\ ListInv
  BY DEF IndInv, CoreInv
<1>2. cs \in SUBSET Core /\ S \in SUBSET Vdec /\ S \subseteq Leaving
  BY <1>1 DEF TypeOK, Released, Leaves, Leaving
<1>3. connected' = connected \ S /\ next_status' = next_status
  BY DEF Collect
<1>4. \A v \in Vdec : sched_mask'[v] = sched_mask[v] \ cs
  <2> TAKE v \in Vdec
  <2>1. \A w \in connected : w \in Vdec /\ Released(w) \subseteq sched_mask[w]
    BY <1>1 DEF Released, TypeOK
  <2>2. CASE v \in connected
    <3>1. sched_mask'[v] = sched_mask[v] \ Released(v)
      BY <1>1, <2>2 DEF Collect, Released, TypeOK
    <3>2. sched_mask[v] \cap cs = Released(v)
      BY <1>1, <2>1, <2>2 DEF CoreExclusive
    <3> QED BY <3>1, <3>2
  <2>3. CASE v \notin connected
    BY <1>1, <2>3 DEF Collect, ListInv, TypeOK
  <2> QED BY <2>2, <2>3
<1>5. Owner' = [c \in Core |-> IF c \in cs THEN NoVdec ELSE Owner[c]]
  <2> DEFINE f == [c \in Core |-> IF c \in cs THEN NoVdec ELSE Owner[c]]
  <2>1. f \in [Core -> Vdec \cup {NoVdec}]
    BY <1>1, OwnerFacts
  <2>2. \A c \in Core, v \in Vdec : c \in sched_mask'[v] <=> f[c] = v
    BY <1>1, <1>4, OwnerFacts, VdecAssumption
  <2> HIDE DEF f
  <2>3. Owner' = f
    BY <1>1, <2>1, <2>2, OwnerIs
  <2> QED BY <2>3 DEF f
<1>6. \A v \in S, c \in Core : Owner'[c] # v
  <2> TAKE v \in S, c \in Core
  <2>1. v \in Vdec /\ v \in connected /\ active_mask[v] = {}
    BY <1>1 DEF Leaves, ListInv, TypeOK
  <2>2. sched_mask'[v] = {}
    BY <1>1, <2>1 DEF Collect, TypeOK
  <2> QED
    BY <2>1, <2>2, VdecAssumption DEF Owner
<1>7. Leaving' = Leaving \ S
  BY <1>3 DEF Leaving
<1> HIDE DEF cs, S
<1>8. Alloc!TakeBack(cs, S)
  BY <1>2, <1>3, <1>5, <1>6, <1>7 DEF Alloc!TakeBack
<1> QED
  BY <1>2, <1>8

(* The grant hands free cores to a listed instance.                        *)
LEMMA GrantRefines ==
  ASSUME IndInv, IndInv', Grant
  PROVE  \E v \in Vdec, cs \in SUBSET Core : Alloc!HandOut(v, cs)
<1>1. TypeOK /\ CoreExclusive /\ CoreExclusive' /\ CoreInv
  BY DEF IndInv, CoreInv
<1>2. worker \in Vdec /\ worker \in connected /\ sel \in SUBSET Core /\ sel # {}
      /\ sel \cap core_sched = {}
  BY <1>1 DEF Grant, CoreInv, TypeOK
<1>3. \A c \in sel, v \in Vdec : c \notin sched_mask[v]
  BY <1>1, <1>2 DEF Grant, CoreInv
<1>4. \A c \in sel : Owner[c] = NoVdec
  BY <1>1, <1>2, <1>3, OwnerFacts
<1>5. sched_mask' = [sched_mask EXCEPT ![worker] = @ \cup sel]
      /\ connected' = connected /\ next_status' = next_status
  BY DEF Grant, schedVars, vdecVars
<1>6. Owner' = [c \in Core |-> IF c \in sel THEN worker ELSE Owner[c]]
  <2> DEFINE f == [c \in Core |-> IF c \in sel THEN worker ELSE Owner[c]]
  <2>1. f \in [Core -> Vdec \cup {NoVdec}]
    BY <1>1, <1>2, OwnerFacts
  <2>2. \A c \in Core, v \in Vdec : c \in sched_mask'[v] <=> f[c] = v
    BY <1>1, <1>2, <1>3, <1>5, OwnerFacts DEF TypeOK
  <2> HIDE DEF f
  <2>3. Owner' = f
    BY <1>1, <2>1, <2>2, OwnerIs
  <2> QED BY <2>3 DEF f
<1>7. Leaving' = Leaving
  BY <1>5 DEF Leaving
<1>8. Alloc!HandOut(worker, sel)
  BY <1>2, <1>4, <1>5, <1>6, <1>7 DEF Alloc!HandOut
<1> QED
  BY <1>2, <1>8

(* vdec_connect joins a pair that owns nothing, or does nothing.           *)
LEMMA ConnectRefines ==
  ASSUME IndInv, NEW p \in Port, Connect(p)
  PROVE  \/ \E S \in SUBSET Vdec : Alloc!Join(S)
         \/ UNCHANGED <<Owner, connected, Leaving>>
<1>1. TypeOK /\ CoreExclusive /\ ListInv
  BY DEF IndInv, CoreInv
<1>2. sched_mask' = sched_mask
  BY DEF Connect
<1>3. CASE status[p] # "DISCONNECTED"
  BY <1>2, <1>3, Stutters DEF Connect
<1>4. CASE status[p] = "DISCONNECTED"
  <2>1. Pair(p) \in SUBSET Vdec /\ Pair(p) # {} /\ \A v \in Pair(p) : PortOf(v) = p
    BY PairFacts
  <2>2. \A v \in Pair(p) : ~ Held(v)
    BY <2>1 DEF Connect, IndInv, UserInv, HeldInv
  <2>3. Pair(p) \cap connected = {}
    BY <2>2 DEF Held
  <2>4. \A v \in Pair(p) : sched_mask[v] = {}
    BY <1>1, <2>1, <2>3 DEF ListInv
  <2>5. \A v \in Pair(p), c \in Core : Owner[c] # v
    BY <1>1, <2>1, <2>4, OwnerFacts
  <2>6. connected' = connected \cup Pair(p)
        /\ next_status' = [v \in Vdec |-> IF v \in Pair(p) THEN "CONNECTED" ELSE next_status[v]]
    BY <1>4 DEF Connect
  <2>7. Leaving' = Leaving
    BY <1>1, <2>1, <2>3, <2>6 DEF Leaving, TypeOK
  <2>8. Owner' = Owner
    BY <1>2, OwnerUnchanged
  <2>9. Alloc!Join(Pair(p))
    BY <2>1, <2>3, <2>5, <2>6, <2>7, <2>8 DEF Alloc!Join, Alloc!OwnsNothing
  <2> QED
    BY <2>1, <2>9
<1> QED
  BY <1>3, <1>4

(* vdec_disconnect asks for both layers, which are listed.                 *)
LEMMA DisconnectRefines ==
  ASSUME IndInv, NEW p \in Port, NEW why, Disconnect(p, why)
  PROVE  \/ \E S \in SUBSET Vdec : Alloc!AskToLeave(S)
         \/ UNCHANGED <<Owner, connected, Leaving>>
<1>1. TypeOK /\ ListInv
  BY DEF IndInv
<1>2. sched_mask' = sched_mask /\ connected' = connected
  BY DEF Disconnect, schedVars
<1>3. CASE ~ Managed(who[p])
  BY <1>2, <1>3, Stutters DEF Disconnect
<1>4. CASE Managed(who[p])
  <2>1. who[p] \in Pair(p) /\ who[p] \in Vdec /\ PortOf(who[p]) = p
    BY PairFacts DEF IndInv, UserInv, PortInv
  <2>2. Held(who[p])
    BY <1>1, <1>4, <2>1 DEF ListInv, Held
  <2>3. at[p] = "open"
    BY <2>1, <2>2 DEF Disconnect, IndInv, UserInv, HeldInv
  <2>4. who[p] = p /\ Pair(p) \subseteq connected /\ Pair(p) \in SUBSET Vdec
    BY <2>3, PairFacts DEF IndInv, UserInv, PortInv
  <2>5. next_status' = [v \in Vdec |-> IF v \in Pair(p) THEN "DISCONNECTED" ELSE next_status[v]]
    BY <1>4, <2>4 DEF Disconnect
  <2>6. Leaving' = Leaving \cup Pair(p)
    BY <1>1, <1>2, <2>4, <2>5 DEF Leaving, TypeOK
  <2>7. Alloc!AskToLeave(Pair(p))
    BY <1>2, <2>4, <2>6, OwnerUnchanged DEF Alloc!AskToLeave
  <2> QED
    BY <2>4, <2>7
<1> QED
  BY <1>3, <1>4

(* Open resets, and Destroy clears, what the scheduler has forgotten.      *)
LEMMA OpenRefines ==
  ASSUME IndInv, NEW p \in Port, Open(p)
  PROVE  UNCHANGED <<Owner, connected, Leaving>>
<1>1. \A v \in Pair(p) : sched_mask[v] = {}
  BY PairFacts DEF Open, IndInv, ListInv
<1>2. sched_mask' = sched_mask
  BY <1>1 DEF Open, IndInv, TypeOK
<1> QED
  BY <1>2, Stutters DEF Open, schedVars

LEMMA DestroyRefines ==
  ASSUME IndInv, NEW p \in Port, Destroy(p)
  PROVE  UNCHANGED <<Owner, connected, Leaving>>
<1>1. who[p] \in Pair(p) /\ who[p] \in Vdec /\ PortOf(who[p]) = p
  BY PairFacts DEF IndInv, UserInv, PortInv
<1>2. ~ Held(who[p])
  BY <1>1 DEF Destroy, IndInv, UserInv, HeldInv
<1>3. who[p] \notin connected /\ sched_mask[who[p]] = {}
  BY <1>1, <1>2 DEF Held, IndInv, ListInv
<1>4. sched_mask' = sched_mask /\ connected' = connected
  BY <1>1, <1>3 DEF Destroy, schedVars, IndInv, TypeOK
<1>5. Leaving' = Leaving
  BY <1>1, <1>3, <1>4 DEF Destroy, Leaving, IndInv, TypeOK
<1> QED
  BY <1>4, <1>5, OwnerUnchanged

-----------------------------------------------------------------------------
LEMMA StepRefines ==
  ASSUME ~ DisconnectMayTimeout, IndInv, IndInv', [Next]_vars
  PROVE  [Alloc!AllocNext]_<<Owner, connected, Leaving>>
<1> USE DEF schedVars, flagVars, threadVars, vdecVars, inputVars, driverVars, userVars
<1>1. CASE CoreThread
  <2>1. CASE Collect
    BY <2>1, CollectRefines DEF Alloc!AllocNext
  <2>2. CASE Grant
    BY <2>2, GrantRefines DEF Alloc!AllocNext
  <2>3. CASE (\E v \in Vdec : Elect(v)) \/ ElectNone
    BY <2>3, Stutters DEF Elect, ElectNone
  <2>4. CASE LoadSched \/ Run \/ Complete \/ EndPass
    BY <2>4, Stutters DEF LoadSched, Run, Complete, EndPass
  <2>5. CASE \E v \in Vdec : Retire(v)
    BY <2>5, Stutters DEF Retire
  <2> QED
    BY <1>1, <2>1, <2>2, <2>3, <2>4, <2>5 DEF CoreThread
<1>2. CASE \E v \in Vdec : Driver(v) \/ Data(v)
  BY <1>2, Stutters DEF Driver, Data, FinishRun, Callback, AddChunk, AddStream, VfPut
<1>3. ASSUME NEW p \in Port, User(p) PROVE [Alloc!AllocNext]_<<Owner, connected, Leaving>>
  <2>1. CASE Open(p)
    BY <2>1, OpenRefines
  <2>2. CASE Connect(p)
    BY <2>2, ConnectRefines DEF Alloc!AllocNext
  <2>3. CASE \E why \in {"reset", "release"} : Disconnect(p, why)
    BY <2>3, DisconnectRefines DEF Alloc!AllocNext
  <2>4. CASE WaitDone(p) \/ WaitTimeout(p) \/ Reset(p) \/ DriverRemove(p) \/ ClearLoad(p)
    BY <2>4, Stutters DEF WaitDone, WaitTimeout, Reset, DriverRemove, ClearLoad
  <2>5. ~ ClearStore(p)
    BY DEF ClearStore, IndInv, UserInv, PortInv
  <2>6. CASE Destroy(p)
    BY <2>6, DestroyRefines
  <2> QED
    BY <1>3, <2>1, <2>2, <2>3, <2>4, <2>5, <2>6 DEF User
<1>4. CASE UNCHANGED vars
  BY <1>4, Stutters DEF vars
<1> QED
  BY <1>1, <1>2, <1>3, <1>4 DEF Next

LEMMA InitRefines == Init => Alloc!AllocInit
<1> SUFFICES ASSUME Init PROVE Alloc!AllocInit
  OBVIOUS
<1>1. Owner = [c \in Core |-> NoVdec]
  BY DEF Init, Owner
<1> QED
  BY <1>1 DEF Init, Leaving, Alloc!AllocInit

(* The scheduler implements the abstract allocator: cores pass from one    *)
(* instance to another only by way of being free, only members get them,   *)
(* and a member leaves only after it asked to and owns nothing             *)
(* (vdec_core_thread, vdec_connect, vdec_disconnect).                      *)
THEOREM Refinement == ASSUME ~ DisconnectMayTimeout PROVE Spec => ImplementsCoreAlloc
<1>1. Spec => []IndInv
  BY Inductive
<1>2. IndInv /\ IndInv' /\ [Next]_vars => [Alloc!AllocNext]_<<Owner, connected, Leaving>>
  BY StepRefines
<1> QED
  BY <1>1, <1>2, InitRefines, PTL
     DEF Spec, ImplementsCoreAlloc, Alloc!AllocSpec, Alloc!allocVars
=============================================================================
