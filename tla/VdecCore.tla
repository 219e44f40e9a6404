------------------------------ MODULE VdecCore ------------------------------
(***************************************************************************)
(* The multi-instance decoder scheduler, vdec_core_thread and the calls    *)
(* that talk to it                                                         *)
(* (src/drivers/frame_provider/decoder/utils/vdec.c).                      *)
(*                                                                         *)
(* One kernel thread shares the hardware decoder cores among the connected *)
(* decoder instances (struct vdec_s).  It sleeps on core->sem, and at each *)
(* pass collects the cores whose decoders have finished, takes instances   *)
(* that asked to leave off the connected list, elects at most one instance *)
(* and starts it.  It runs against three kinds of other threads: the user  *)
(* thread of each port (create, connect, disconnect, reset, release), the  *)
(* work queue of each codec driver (vdec_core_finish_run, then the         *)
(* callback) and the producers and consumers of data (write a frame, give  *)
(* a display buffer back).                                                 *)
(*                                                                         *)
(* The connected list is kept as the set of linked nodes and the order     *)
(* between them: <<v, w>> \in before when v is nearer to the head.         *)
(*                                                                         *)
(* An operator that no other one uses and that stands in front of its      *)
(* correct form (LeavesAnyStatus before Leaves) is a deliberate mistake:   *)
(* PROJECT.json names the property that notices it.                        *)
(***************************************************************************)
EXTENDS Naturals, FiniteSets

CONSTANTS
  Vdec,        \* decoder instances (struct vdec_s)
  NoVdec,      \* the NULL pointer
  Core,        \* hardware cores: the enum vdec_type_e values that are used
  InputCore,   \* cores_with_input: cores fed from vdec->input (VDEC_1, HEVC)
  CoreMask,    \* cores each codec driver asks for with vdec_core_request
  Combined,    \* instances whose driver adds CORE_MASK_COMBINE
  MasterOf,    \* the master of a slave instance (dual layer), NoVdec otherwise
  Stream,      \* stream based instances; the others are frame based
  ExtBuf,      \* stream based instances that get their data by meta packets
  MaxInput,    \* bound: queued frames, or stream level in prepare_level units
  MaxRoom,     \* display buffers of an instance
  MaxPipe,     \* pictures between the front and the back core (fb drivers)
  MaxSem,      \* bound: core->sem saturates here
  DisconnectMayTimeout  \* the 2 s waits of vdec_disconnect may expire

SlaveOf(v) == IF \E s \in Vdec : MasterOf[s] = v
              THEN CHOOSE s \in Vdec : MasterOf[s] = v
              ELSE NoVdec
Partner(v) == IF MasterOf[v] # NoVdec THEN MasterOf[v] ELSE SlaveOf(v)
Pair(v) == {v, Partner(v)} \ {NoVdec}
Port == {v \in Vdec : MasterOf[v] = NoVdec}  \* a port is named by its master
BackCore == Core \ InputCore

ASSUME VdecAssumption ==
  /\ NoVdec \notin Vdec
  /\ IsFiniteSet(Vdec)
  /\ MasterOf \in [Vdec -> Vdec \cup {NoVdec}]
  /\ \A v \in Vdec : MasterOf[v] # NoVdec => MasterOf[v] \in Port
  /\ \A v, w \in Vdec : MasterOf[v] = MasterOf[w] => v = w \/ v \in Port
  /\ Stream \subseteq Vdec
  /\ ExtBuf \subseteq Stream
  /\ Combined \subseteq Port
  /\ \A v \in Combined : SlaveOf(v) = NoVdec

ASSUME CoreAssumption ==
  /\ Core \subseteq Nat
  /\ IsFiniteSet(Core)
  /\ InputCore \subseteq Core
  /\ CoreMask \in [Vdec -> SUBSET Core]
  /\ \A v \in Vdec : CoreMask[v] \cap InputCore # {}
  /\ \A v \in Vdec : MasterOf[v] # NoVdec => CoreMask[v] = CoreMask[MasterOf[v]]

(* A driver that does not combine decodes its input on one core.           *)
ASSUME OneInputAssumption ==
  \A v \in Vdec \ Combined : \E c \in Core : CoreMask[v] \cap InputCore = {c}

ASSUME BoundAssumption ==
  /\ MaxInput \in Nat \ {0}
  /\ MaxRoom \in Nat \ {0}
  /\ MaxPipe \in Nat \ {0}
  /\ MaxSem \in Nat \ {0}
  /\ DisconnectMayTimeout \in BOOLEAN

VARIABLES
  (* struct vdec_core_s *)
  sem,           \* core->sem
  core_sched,    \* core->sched_mask: cores that are handed out
  connected,     \* nodes linked in connected_vdec_list
  before,        \* their order
  last,          \* last_vdec, last_hevc, last_hevc_back
  active_hw,     \* active_vdec, active_hevc, active_hevc_back
  power_ref,     \* power_ref_mask
  buff_flag, stream_buff_flag, run_flag,
  (* locals of vdec_core_thread *)
  pc,            \* where the thread is
  idx,           \* i: the core being considered
  low,           \* the streams whose level was read below prepare_level
  worker,        \* the elected instance
  sel,           \* sched_mask: the cores elected for it
  loaded,        \* core->sched_mask as read by "core->sched_mask |= mask"
  disconnecting, \* disconnecting_list
  retiree,       \* the node just taken off disconnecting_list
  (* struct vdec_s *)
  alive,         \* instances that are allocated
  status, next_status, core_mask, active_mask, sched_mask,
  sched,         \* whose turn it is in a dual layer pair
  done,          \* inactive_done
  input,         \* queued frames (have_frame_num) or stream level
  consumed,      \* the first chunk is flagged VFRAME_CHUNK_FLAG_CONSUMED
  need_more,     \* need_more_data (of a stream based instance)
  (* codec drivers *)
  room,          \* free display buffers
  pipe,          \* pictures parsed by the front core, not yet by the back core
  cb,            \* works between vdec_core_finish_run and the callback
  (* user threads, one per port *)
  at,            \* where the thread is
  op,            \* why it disconnects: "reset" or "release"
  who,           \* the instance it is working on
  clear_seen     \* core->sched_mask as read by the force clear

schedVars  == <<core_sched, connected, before, last, active_hw>>
flagVars   == <<power_ref, buff_flag, stream_buff_flag, run_flag>>
threadVars == <<pc, idx, low, worker, sel, loaded, disconnecting, retiree>>
vdecVars   == <<alive, status, next_status, core_mask, active_mask,
                sched_mask, sched, done>>
inputVars  == <<input, consumed, need_more>>
driverVars == <<room, pipe, cb>>
userVars   == <<at, op, who, clear_seen>>
vars == <<sem, schedVars, flagVars, threadVars, vdecVars, inputVars,
          driverVars, userVars>>

Status == {"UNINITIALIZED", "DISCONNECTED", "CONNECTED", "ACTIVE"}
ThreadPc == {"down", "elect", "grant", "load", "run", "retire", "complete"}
UserPc == {"none", "ready", "open", "wait1", "wait2", "quiet", "clear",
           "clear_store", "destroy", "again"}

TypeOK ==
  /\ sem \in 0..MaxSem
  /\ core_sched \in SUBSET Core
  /\ connected \in SUBSET Vdec
  /\ before \in SUBSET (Vdec \X Vdec)
  /\ last \in [Core -> Vdec \cup {NoVdec}]
  /\ active_hw \in [Core -> Vdec \cup {NoVdec}]
  /\ power_ref \in SUBSET Core
  /\ buff_flag \in SUBSET Core
  /\ stream_buff_flag \in SUBSET Core
  /\ run_flag \in BOOLEAN
  /\ pc \in ThreadPc
  /\ idx \in Nat
  /\ low \in SUBSET Vdec
  /\ worker \in Vdec \cup {NoVdec}
  /\ sel \in SUBSET Core
  /\ loaded \in SUBSET Core
  /\ disconnecting \in SUBSET Vdec
  /\ retiree \in Vdec \cup {NoVdec}
  /\ alive \in SUBSET Vdec
  /\ status \in [Vdec -> Status]
  /\ next_status \in [Vdec -> Status]
  /\ core_mask \in [Vdec -> SUBSET Core]
  /\ active_mask \in [Vdec -> SUBSET Core]
  /\ sched_mask \in [Vdec -> SUBSET Core]
  /\ sched \in [Vdec -> BOOLEAN]
  /\ done \in [Vdec -> BOOLEAN]
  /\ input \in [Vdec -> 0..MaxInput]
  /\ consumed \in [Vdec -> BOOLEAN]
  /\ need_more \in [Vdec -> SUBSET {"RUN", "DIRTY", "MORE"}]
  /\ room \in [Vdec -> 0..MaxRoom]
  /\ pipe \in [Vdec -> 0..MaxPipe]
  /\ cb \in [Vdec -> SUBSET Core]
  /\ at \in [Port -> UserPc]
  /\ op \in [Port -> {"none", "reset", "release"}]
  /\ who \in [Port -> Vdec]
  /\ clear_seen \in [Port -> SUBSET Core]

Init ==
  /\ sem = 1
  /\ core_sched = {} /\ connected = {} /\ before = {}
  /\ last = [c \in Core |-> NoVdec]
  /\ active_hw = [c \in Core |-> NoVdec]
  /\ power_ref = {} /\ buff_flag = {} /\ stream_buff_flag = {}
  /\ run_flag = FALSE
  /\ pc = "down" /\ idx = 0 /\ low = {} /\ worker = NoVdec /\ sel = {} /\ loaded = {}
  /\ disconnecting = {} /\ retiree = NoVdec
  /\ alive = {}
  /\ status = [v \in Vdec |-> "UNINITIALIZED"]
  /\ next_status = [v \in Vdec |-> "UNINITIALIZED"]
  /\ core_mask = [v \in Vdec |-> {}]
  /\ active_mask = [v \in Vdec |-> {}]
  /\ sched_mask = [v \in Vdec |-> {}]
  /\ sched = [v \in Vdec |-> FALSE]
  /\ done = [v \in Vdec |-> FALSE]
  /\ input = [v \in Vdec |-> 0]
  /\ consumed = [v \in Vdec |-> FALSE]
  /\ need_more = [v \in Vdec |-> {}]
  /\ room = [v \in Vdec |-> MaxRoom]
  /\ pipe = [v \in Vdec |-> 0]
  /\ cb = [v \in Vdec |-> {}]
  /\ at = [p \in Port |-> "none"]
  /\ op = [p \in Port |-> "none"]
  /\ who = [p \in Port |-> p]
  /\ clear_seen = [p \in Port |-> {}]

-----------------------------------------------------------------------------
(* Helpers.                                                                *)

up == sem' = IF sem < MaxSem THEN sem + 1 ELSE sem

PortOf(v) == IF MasterOf[v] = NoVdec THEN v ELSE MasterOf[v]

(* vdec_combine_flag > 0: some bound driver asked for CORE_MASK_COMBINE.   *)
CombineFlag == \E v \in Combined : core_mask[v] # {}

(* Cores of v whose driver has finished but that are not collected yet.    *)
ReleasedAll(v) == sched_mask[v]
Released(v) == sched_mask[v] \ active_mask[v]

(* vdec_schedule_mask, restricted to core c for an instance that takes its *)
(* cores one at a time.                                                    *)
ScheduleMaskApart(v, c) ==
  (core_mask[v] \ (sched_mask[v] \cup core_sched)) \cap (IF v \in Combined THEN Core ELSE {c})
ScheduleMask(v, c) ==
  IF v \in Combined
  THEN IF core_mask[v] \cap core_sched = {} THEN core_mask[v] ELSE {}
  ELSE (core_mask[v] \ (sched_mask[v] \cup core_sched)) \cap {c}

Managed(v) == status[v] \in {"CONNECTED", "ACTIVE"}

(* An idle instance that is asked to leave, and the pointers to instances  *)
(* that are gone.                                                          *)
LeavesAnyStatus(v) == Managed(v) /\ next_status[v] = "DISCONNECTED"
Leaves(v) == status[v] = "CONNECTED" /\ next_status[v] = "DISCONNECTED"
DroppedNever(ptr, gone) == ptr
Dropped(ptr, gone) == [c \in Core |-> IF ptr[c] \in gone THEN NoVdec ELSE ptr[c]]

(* A dual layer instance that is not on turn: VDEC_NOT_READY in run_flag.  *)
AnyTurn(v) == FALSE
NotOnTurn(v) == Partner(v) # NoVdec /\ ~ sched[v]

(* The driver's run_ready: a display buffer (is_new_pic_available), and    *)
(* for a front core a place in the queue to the back core.  Its other      *)
(* tests are left out: an error or the end of the stream, a work of a      *)
(* run that has timed out (VdecRun has it), and two that ask for more of a *)
(* stream (PRE_LEVEL_NOT_ENOUGH, AGAIN_HAS_THRESHOLD).                     *)
FrontBack(v) == v \notin Combined /\ CoreMask[v] \cap BackCore # {}
WaitBackCore(v) == FrontBack(v) /\ pipe[v] = MaxPipe
RunReady(v) == ~ WaitBackCore(v) /\ room[v] > 0

(* A chunk is queued, or the level is high enough; enough records of time  *)
(* stamps, which make up for the level (vdec_check_rec_num_enough), count  *)
(* as level and arrive with the data.  vdec_ready_to_run reads             *)
(* the level before it acts on it: a packet may arrive in between, so what *)
(* counts while the thread elects is the level at the start of the scan.   *)
HasData(v) == input[v] > 0 /\ v \notin low
ReadLevels(in) == low' = {v \in Stream : in[v] = 0}

(* vdec_ready_to_run for the cores m.                                      *)
ReadyMask(v, m) ==
  IF next_status[v] = "DISCONNECTED" \/ ~ Managed(v) \/ NotOnTurn(v) THEN {}
  ELSE (IF FrontBack(v) /\ pipe[v] > 0 THEN m \cap BackCore ELSE {})
       \cup
       (IF m \cap InputCore # {} /\ HasData(v) /\ RunReady(v) THEN m ELSE {})

(* The instances the election of core c asks, and those it could elect.    *)
Asked(c) == {v \in connected : ScheduleMask(v, c) # {}}
Electable(c) == {v \in Asked(c) : ReadyMask(v, ScheduleMask(v, c)) # {}}

(* The scan starts after the instance that had core c last and wraps round *)
(* to it.                                                                  *)
AfterLast(c) == {v \in connected : <<last[c], v>> \in before}
ScanFromHead(c, v, w) == <<v, w>> \in before
ScanBefore(c, v, w) ==
  IF (v \in AfterLast(c)) = (w \in AfterLast(c)) THEN <<v, w>> \in before
  ELSE v \in AfterLast(c)
Elected(c, v) ==
  /\ v \in Electable(c)
  /\ \A w \in Electable(c) : w = v \/ ScanBefore(c, v, w)


(* What the election of core c looked at when it stopped at e (NoVdec: it  *)
(* found nothing).                                                         *)
Visited(c, e) ==
  {v \in Asked(c) : /\ next_status[v] # "DISCONNECTED"
                    /\ Managed(v)
                    /\ e \notin {NoVdec, v} => ScanBefore(c, v, e)}

-----------------------------------------------------------------------------
(* vdec_core_thread.                                                       *)

(* vdec_update_buff_status: which cores have an instance with input; in is *)
(* the input left after the collection.                                    *)
UpdateBuffStatus(in) ==
  /\ buff_flag' = UNION {core_mask[v] : v \in {w \in connected \ Stream : in[w] > 0}}
                  \cap InputCore
  /\ stream_buff_flag' = UNION {core_mask[v] : v \in connected \cap (Stream \ ExtBuf)}

(* down(&core->sem), then the two walks of the list under vdec_mutex: give *)
(* back the cores of finished runs with the chunk they consumed, and move  *)
(* to disconnecting_list the idle instances that are asked to leave.  The  *)
(* mutex keeps vdec_core_finish_run and vdec_disconnect out of the whole   *)
(* block, so it is one step.                                               *)
Collect ==
  /\ pc = "down" /\ sem > 0
  /\ sem' = sem - 1
  /\ LET eaten == {v \in connected : Released(v) \cap InputCore # {} /\ consumed[v]}
         leaving == {v \in connected : Leaves(v)}
     IN /\ input' = [v \in Vdec |-> IF v \in eaten THEN input[v] - 1 ELSE input[v]]
        /\ consumed' = [v \in Vdec |-> consumed[v] /\ v \notin eaten]
        /\ UpdateBuffStatus(input')
        /\ last' = Dropped(last, leaving)
        /\ active_hw' = Dropped(active_hw, leaving)
        /\ connected' = connected \ leaving
        /\ before' = before \cap (connected' \X connected')
        /\ disconnecting' = leaving
  /\ sched_mask' = [v \in Vdec |-> IF v \in connected THEN sched_mask[v] \cap active_mask[v]
                                   ELSE sched_mask[v]]
  /\ core_sched' = core_sched \ UNION {Released(v) : v \in connected}
  /\ power_ref' = power_ref \cup UNION {core_mask[v] : v \in connected}
  /\ run_flag' = FALSE
  /\ pc' = "elect"
  /\ \E c \in Core : idx' = c /\ \A d \in Core : d <= c
  /\ ReadLevels(input')
  /\ UNCHANGED <<worker, sel, loaded, retiree, alive, status, next_status, core_mask,
                 active_mask, sched, done, need_more, driverVars, userVars>>

(* What vdec_ready_to_run leaves behind in the instances it looked at: the *)
(* request for more stream data, buff_flag, and run_flag when an instance  *)
(* has to be asked again.                                                  *)
LookAtQuietly(c, visited) ==
  LET front == {v \in visited : ~ NotOnTurn(v) /\ c \in InputCore}
      full == {v \in front : HasData(v) /\ WaitBackCore(v)}
      back == {v \in visited : ~ NotOnTurn(v) /\ c \in BackCore /\ FrontBack(v) /\ pipe[v] > 0}
  IN /\ run_flag' = (run_flag \/ \E v \in visited : NotOnTurn(v))
     /\ need_more' = [v \in Vdec |->
          IF v \in front \cap Stream
          THEN need_more[v] \ {f \in {"MORE"} : input[v] > 1}
          ELSE need_more[v]]
     /\ buff_flag' = (buff_flag \ {d \in {c} : full # {}}) \cup {d \in {c} : back # {}}
LookAt(c, visited) ==
  LET front == {v \in visited : ~ NotOnTurn(v) /\ c \in InputCore}
      full == {v \in front : HasData(v) /\ WaitBackCore(v)}
      back == {v \in visited : ~ NotOnTurn(v) /\ c \in BackCore /\ FrontBack(v) /\ pipe[v] > 0}
  IN /\ run_flag' = (run_flag \/ \E v \in visited : NotOnTurn(v))
     /\ need_more' = [v \in Vdec |->
          IF v \in front \cap Stream
          THEN (need_more[v] \ {f \in {"MORE"} : input[v] > 1})
               \cup {f \in {"MORE"} : ~ HasData(v)}
          ELSE need_more[v]]
     /\ buff_flag' = (buff_flag \ {d \in {c} : full # {}}) \cup {d \in {c} : back # {}}

(* One turn of "for (i = VDEC_MAX - 1; i >= VDEC_1; i--)" that finds an    *)
(* instance, which ends the loop.                                          *)
Elect(v) ==
  /\ pc = "elect"
  /\ idx \in Core \ core_sched
  /\ Elected(idx, v)
  /\ worker' = v
  /\ sel' = ReadyMask(v, ScheduleMask(v, idx))
  /\ LookAt(idx, Visited(idx, v))
  /\ pc' = "grant" /\ low' = {}
  /\ UNCHANGED <<sem, schedVars, power_ref, stream_buff_flag, idx, loaded, disconnecting,
                 retiree, vdecVars, input, consumed, driverVars, userVars>>

(* A turn of that loop that finds none: the core is busy or nobody is      *)
(* ready for it.                                                           *)
ElectNone ==
  /\ pc = "elect"
  /\ \/ /\ idx \in core_sched
        /\ UNCHANGED <<run_flag, need_more, buff_flag>>
     \/ /\ idx \notin core_sched
        /\ Electable(idx) = {}
        /\ LookAt(idx, Visited(idx, NoVdec))
  /\ LET lower == {d \in Core : d < idx}
     IN IF lower = {}
        THEN pc' = "retire" /\ idx' = 0 /\ low' = {}
        ELSE pc' = "elect" /\ ReadLevels(input) /\ \E d \in lower : idx' = d /\ \A e \in lower : e <= d
  /\ UNCHANGED <<sem, schedVars, power_ref, stream_buff_flag, worker, sel, loaded,
                 disconnecting, retiree, vdecVars, input, consumed, driverVars, userVars>>

(* The elected instance gets the cores, under vdec_mutex.                  *)
Grant ==
  /\ pc = "grant"
  /\ active_mask' = [active_mask EXCEPT ![worker] = @ \cup sel]
  /\ sched_mask' = [sched_mask EXCEPT ![worker] = @ \cup sel]
  /\ last' = [c \in Core |-> IF worker \in Combined \/ c \in sel THEN worker ELSE last[c]]
  /\ status' = [status EXCEPT ![worker] = "ACTIVE"]
  /\ pc' = "load"
  /\ UNCHANGED <<sem, core_sched, connected, before, active_hw, flagVars, idx, low, worker, sel,
                 loaded, disconnecting, retiree, alive, next_status, core_mask, sched, done,
                 inputVars, driverVars, userVars>>

(* "core->sched_mask |= mask" takes no lock: it is a load and a store.     *)
LoadSched ==
  /\ pc = "load"
  /\ loaded' = core_sched
  /\ pc' = "run"
  /\ UNCHANGED <<sem, schedVars, flagVars, idx, low, worker, sel, disconnecting, retiree,
                 vdecVars, inputVars, driverVars, userVars>>

(* The store, vdec_save_active_hw, vdec_prepare_run and vdec->run; the     *)
(* thread asks for another pass unless combined cores are in use.          *)
Run ==
  /\ pc = "run"
  /\ core_sched' = loaded \cup sel
  /\ active_hw' = [c \in Core |-> IF c \in sel THEN worker ELSE active_hw[c]]
  /\ need_more' = IF worker \in Stream /\ sel \cap InputCore # {}
                  THEN [need_more EXCEPT ![worker] =
                          (IF "RUN" \in @ /\ "DIRTY" \notin @ THEN @ \cup {"MORE"} ELSE @ \ {"DIRTY"})
                          \cup {"RUN"}]
                  ELSE need_more
  /\ IF CombineFlag THEN UNCHANGED sem ELSE up
  /\ loaded' = {}
  /\ pc' = "retire"
  /\ UNCHANGED <<connected, before, last, flagVars, idx, low, worker, sel, disconnecting, retiree,
                 vdecVars, input, consumed, driverVars, userVars>>

(* "remove disconnected decoder from active list": unlink the node and set *)
(* its status; the completion is a step of its own.  list_move and the     *)
(* walk fix an order that nothing depends on: any order is allowed.        *)
Retire(v) ==
  /\ pc = "retire"
  /\ v \in disconnecting
  /\ disconnecting' = disconnecting \ {v}
  /\ status' = [status EXCEPT ![v] = "DISCONNECTED"]
  /\ retiree' = v
  /\ pc' = "complete"
  /\ UNCHANGED <<sem, schedVars, flagVars, idx, low, worker, sel, loaded, alive, next_status,
                 core_mask, active_mask, sched_mask, sched, done, inputVars, driverVars, userVars>>

CompleteSilently ==
  /\ pc = "complete"
  /\ retiree' = NoVdec
  /\ pc' = "retire"
  /\ UNCHANGED <<sem, schedVars, flagVars, idx, low, worker, sel, loaded, disconnecting, vdecVars,
                 inputVars, driverVars, userVars>>
Complete ==
  /\ pc = "complete"
  /\ done' = [done EXCEPT ![retiree] = TRUE]
  /\ retiree' = NoVdec
  /\ pc' = "retire"
  /\ UNCHANGED <<sem, schedVars, flagVars, idx, low, worker, sel, loaded, disconnecting, alive,
                 status, next_status, core_mask, active_mask, sched_mask, sched, inputVars,
                 driverVars, userVars>>

(* The end of the pass: when nothing was started, sleep 1 ms and ask for   *)
(* another pass if stream data may have arrived meanwhile, and ask for one *)
(* if an instance was found not ready (check_core_run_flag).               *)
RePollNever == FALSE
RePoll ==
  /\ alive # {}
  /\ IF CombineFlag
     THEN core_sched = {} /\ buff_flag \cup stream_buff_flag # {}
     ELSE stream_buff_flag \cap ((core_sched \ power_ref) \cup (power_ref \ core_sched)) # {}
EndPass ==
  /\ pc = "retire"
  /\ disconnecting = {}
  /\ IF worker = NoVdec /\ (RePoll \/ run_flag) THEN up ELSE UNCHANGED sem
  /\ worker' = NoVdec /\ sel' = {} /\ idx' = 0 /\ pc' = "down"
  /\ UNCHANGED <<schedVars, flagVars, low, loaded, disconnecting, retiree, vdecVars, inputVars,
                 driverVars, userVars>>

CoreThread ==
  \/ Collect \/ (\E v \in Vdec : Elect(v)) \/ ElectNone \/ Grant \/ LoadSched \/ Run
  \/ (\E v \in Vdec : Retire(v)) \/ Complete \/ EndPass


-----------------------------------------------------------------------------
(* The work queue of a codec driver.                                       *)

(* The cores vdec->run has been called for.                                *)
Started(v) == active_mask[v] \ (IF worker = v /\ pc \in {"load", "run"} THEN sel ELSE {})

(* The codec driver of v is bound: probed and not yet removed.             *)
Bound(v) ==
  /\ v \in alive
  /\ ~ (who[PortOf(v)] = v /\ at[PortOf(v)] \in {"clear", "clear_store", "destroy"})

(* What the driver finishes at once: all its cores when they are combined, *)
(* one of them otherwise.  The callback names one core.                    *)
FinishUnits(v) == IF v \in Combined THEN {CoreMask[v]} ELSE {{c} : c \in CoreMask[v]}
Named(m) == CHOOSE c \in m : TRUE

(* vdec_set_next_sched: v gives its turn to the other layer, or keeps it.  *)
(* The work of a back core does not call it.                               *)
SetNextSched(v, switch) ==
  [w \in Vdec |-> IF w = v THEN ~ switch ELSE IF switch /\ w = Partner(v) THEN TRUE ELSE sched[w]]

(* The work of a run: hand the turn to the other layer (with switch),      *)
(* account for the picture (used: the chunk was decoded,                   *)
(* vdec_vframe_dirty), then vdec_core_finish_run.  A driver starts its next *)
(* work on a core only after the callback of the previous one.             *)
FinishRun(v, m, used, switch) ==
  /\ Bound(v)
  /\ m \in FinishUnits(v)
  /\ m # {} /\ m \subseteq Started(v)
  /\ Named(m) \notin cb[v]
  /\ switch => Partner(v) # NoVdec /\ m \cap InputCore # {}
  /\ sched' = IF Partner(v) # NoVdec /\ m \cap InputCore # {} THEN SetNextSched(v, switch) ELSE sched
  /\ IF m \cap InputCore = {}
     THEN /\ pipe[v] > 0 /\ used
          /\ pipe' = [pipe EXCEPT ![v] = @ - 1]
          /\ UNCHANGED <<inputVars, room>>
     ELSE IF ~ used THEN UNCHANGED <<inputVars, room, pipe>>
     ELSE /\ input[v] > 0 /\ room[v] > 0
          /\ room' = [room EXCEPT ![v] = @ - 1]
          /\ IF FrontBack(v)
             THEN pipe[v] < MaxPipe /\ pipe' = [pipe EXCEPT ![v] = @ + 1]
             ELSE UNCHANGED pipe
          /\ IF v \in Stream
             THEN /\ input' = [input EXCEPT ![v] = @ - 1]
                  /\ need_more' = [need_more EXCEPT ![v] = (@ \cup {"DIRTY"}) \ {"MORE"}]
                  /\ UNCHANGED consumed
             ELSE /\ consumed' = [consumed EXCEPT ![v] = TRUE]
                  /\ UNCHANGED <<input, need_more>>
  /\ active_mask' = [active_mask EXCEPT ![v] = @ \ m]
  /\ status' = [status EXCEPT ![v] = IF active_mask[v] = m THEN "CONNECTED" ELSE @]
  /\ cb' = [cb EXCEPT ![v] = @ \cup {Named(m)}]
  /\ UNCHANGED <<sem, schedVars, flagVars, threadVars, alive, next_status, core_mask,
                 sched_mask, done, userVars>>

(* vdec_callback.                                                          *)
CallbackWithoutUp(v) ==
  /\ \E c \in cb[v] : cb' = [cb EXCEPT ![v] = @ \ {c}]
  /\ UNCHANGED <<sem, schedVars, flagVars, threadVars, vdecVars, inputVars, room, pipe, userVars>>
Callback(v) ==
  /\ \E c \in cb[v] : cb' = [cb EXCEPT ![v] = @ \ {c}]
  /\ up
  /\ UNCHANGED <<schedVars, flagVars, threadVars, vdecVars, inputVars, room, pipe, userVars>>

-----------------------------------------------------------------------------
(* Producers and consumers of data.                                        *)

(* vdec_input_add_chunk: the scheduler is woken by the first frame only.   *)
AddChunkWithoutUp(v) ==
  /\ Bound(v) /\ v \notin Stream
  /\ input[v] < MaxInput
  /\ input' = [input EXCEPT ![v] = @ + 1]
  /\ UNCHANGED <<sem, schedVars, flagVars, threadVars, vdecVars, consumed, need_more, driverVars,
                 userVars>>
AddChunk(v) ==
  /\ Bound(v) /\ v \notin Stream
  /\ input[v] < MaxInput
  /\ input' = [input EXCEPT ![v] = @ + 1]
  /\ IF input[v] = 0 THEN up ELSE UNCHANGED sem
  /\ UNCHANGED <<schedVars, flagVars, threadVars, vdecVars, consumed, need_more, driverVars,
                 userVars>>

(* Stream data: the parser just moves the write pointer; a meta packet     *)
(* (stream_buffer_meta_write) wakes the scheduler when it asked for data.  *)
AddStream(v) ==
  /\ Bound(v) /\ v \in Stream
  /\ input[v] < MaxInput
  /\ input' = [input EXCEPT ![v] = @ + 1]
  /\ IF v \in ExtBuf /\ "MORE" \in need_more[v]
     THEN up /\ need_more' = [need_more EXCEPT ![v] = @ \ {"MORE"}]
     ELSE UNCHANGED <<sem, need_more>>
  /\ UNCHANGED <<schedVars, flagVars, threadVars, vdecVars, consumed, driverVars, userVars>>

(* A displayed picture comes back to the driver, which calls vdec_up.      *)
VfPutTwice(v) ==
  /\ Bound(v)
  /\ room[v] + pipe[v] <= MaxRoom
  /\ room' = [room EXCEPT ![v] = @ + 1]
  /\ up
  /\ UNCHANGED <<schedVars, flagVars, threadVars, vdecVars, inputVars, pipe, cb, userVars>>
VfPutWithoutUp(v) ==
  /\ Bound(v)
  /\ room[v] + pipe[v] < MaxRoom
  /\ room' = [room EXCEPT ![v] = @ + 1]
  /\ UNCHANGED <<sem, schedVars, flagVars, threadVars, vdecVars, inputVars, pipe, cb, userVars>>
VfPut(v) ==
  /\ Bound(v)
  /\ room[v] + pipe[v] < MaxRoom
  /\ room' = [room EXCEPT ![v] = @ + 1]
  /\ up
  /\ UNCHANGED <<schedVars, flagVars, threadVars, vdecVars, inputVars, pipe, cb, userVars>>

-----------------------------------------------------------------------------
(* The user thread of a port.                                              *)

(* vdec_create and vdec_init of the instance and its slave; the probe of   *)
(* the codec driver calls vdec_core_request.  After a timeout the scheduler *)
(* may still refer to a freed structure: the memory of the new one differs. *)
Open(p) ==
  /\ at[p] = "none"
  /\ Pair(p) \cap (connected \cup disconnecting \cup {worker, retiree}) = {}
  /\ active_mask' = [v \in Vdec |-> IF v \in Pair(p) THEN {} ELSE active_mask[v]]
  /\ sched_mask' = [v \in Vdec |-> IF v \in Pair(p) THEN {} ELSE sched_mask[v]]
  /\ alive' = alive \cup Pair(p)
  /\ status' = [v \in Vdec |-> IF v \in Pair(p) THEN "DISCONNECTED" ELSE status[v]]
  /\ core_mask' = [v \in Vdec |-> IF v \in Pair(p) THEN CoreMask[v] ELSE core_mask[v]]
  /\ sched' = [sched EXCEPT ![p] = Partner(p) # NoVdec]
  /\ at' = [at EXCEPT ![p] = "ready"]
  /\ who' = [who EXCEPT ![p] = p]
  /\ UNCHANGED <<sem, schedVars, flagVars, threadVars, next_status, done, inputVars, driverVars,
                 op, clear_seen>>

(* vdec_connect, for the master and its slave.                             *)
Connect(p) ==
  /\ at[p] = "ready"
  /\ at' = [at EXCEPT ![p] = "open"]
  /\ IF status[p] # "DISCONNECTED"
     THEN UNCHANGED <<sem, status, next_status, done, connected, before>>
     ELSE LET set(f, x) == [v \in Vdec |-> IF v \in Pair(p) THEN x ELSE f[v]]
          IN /\ status' = set(status, "CONNECTED")
             /\ next_status' = set(next_status, "CONNECTED")
             /\ done' = set(done, FALSE)
             /\ connected' = connected \cup Pair(p)
             /\ before' = before \cup (connected \X Pair(p)) \cup ({p} \X (Pair(p) \ {p}))
             /\ up
  /\ op' = [op EXCEPT ![p] = "none"]
  /\ UNCHANGED <<core_sched, last, active_hw, flagVars, threadVars, alive, core_mask,
                 active_mask, sched_mask, sched, inputVars, driverVars, who, clear_seen>>

(* vdec_disconnect up to its first wait, from vdec_reset (the master only) *)
(* or vdec_release (the master, then "again" for the slave).               *)
Disconnect(p, why) ==
  /\ \/ at[p] = "open" /\ why \in {"reset", "release"}
     \/ at[p] = "ready" /\ op[p] = "none" /\ why = "release"
     \/ at[p] = "again" /\ why = "release"
  /\ op' = [op EXCEPT ![p] = why]
  /\ IF Managed(who[p])
     THEN /\ next_status' = [v \in Vdec |-> IF v \in Pair(who[p]) THEN "DISCONNECTED"
                                            ELSE next_status[v]]
          /\ up
          /\ at' = [at EXCEPT ![p] = "wait1"]
     ELSE /\ at' = [at EXCEPT ![p] = "quiet"]
          /\ UNCHANGED <<sem, next_status>>
  /\ UNCHANGED <<schedVars, flagVars, threadVars, alive, status, core_mask, active_mask,
                 sched_mask, sched, done, inputVars, driverVars, who, clear_seen>>

(* The two wait_for_completion_timeout calls: for the instance, then for   *)
(* the other layer.                                                        *)
Awaited(p) == IF at[p] = "wait1" THEN who[p] ELSE Partner(who[p])
WaitDoneOnce(p) ==
  /\ at[p] \in {"wait1", "wait2"}
  /\ done[Awaited(p)]
  /\ done' = [done EXCEPT ![Awaited(p)] = FALSE]
  /\ at' = [at EXCEPT ![p] = "quiet"]
  /\ UNCHANGED <<sem, schedVars, flagVars, threadVars, alive, status, next_status, core_mask,
                 active_mask, sched_mask, sched, inputVars, driverVars, op, who, clear_seen>>
WaitDone(p) ==
  /\ at[p] \in {"wait1", "wait2"}
  /\ done[Awaited(p)]
  /\ done' = [done EXCEPT ![Awaited(p)] = FALSE]
  /\ at' = [at EXCEPT ![p] = IF @ = "wait1" /\ Partner(who[p]) # NoVdec THEN "wait2" ELSE "quiet"]
  /\ UNCHANGED <<sem, schedVars, flagVars, threadVars, alive, status, next_status, core_mask,
                 active_mask, sched_mask, sched, inputVars, driverVars, op, who, clear_seen>>

WaitAgain(p) ==
  /\ DisconnectMayTimeout
  /\ at[p] \in {"wait1", "wait2"}
  /\ UNCHANGED vars
WaitTimeout(p) ==
  /\ DisconnectMayTimeout
  /\ at[p] \in {"wait1", "wait2"}
  /\ ~ done[Awaited(p)]
  /\ at' = [at EXCEPT ![p] = "quiet"]
  /\ UNCHANGED <<sem, schedVars, flagVars, threadVars, vdecVars, inputVars, driverVars, op,
                 who, clear_seen>>

(* vdec_reset between vdec_disconnect and vdec_connect: both drivers are   *)
(* reset, the input of the master is emptied.                              *)
Reset(p) ==
  /\ at[p] = "quiet" /\ op[p] = "reset"
  /\ room' = [v \in Vdec |-> IF v \in Pair(p) THEN MaxRoom ELSE room[v]]
  /\ pipe' = [v \in Vdec |-> IF v \in Pair(p) THEN 0 ELSE pipe[v]]
  /\ input' = [input EXCEPT ![p] = 0]
  /\ consumed' = [consumed EXCEPT ![p] = FALSE]
  /\ at' = [at EXCEPT ![p] = "ready"]
  /\ UNCHANGED <<sem, schedVars, flagVars, threadVars, vdecVars, need_more, cb, op, who,
                 clear_seen>>

(* platform_device_unregister: the remove of the driver waits for its      *)
(* works, gives its core request back (for the slave too when it is the    *)
(* master's) and sets the status.  Left out: the driver first ends a run   *)
(* that still goes on (FORCE_EXIT) and waits a second for it; FinishRun    *)
(* may come before this step, or never.                                    *)
DriverRemove(p) ==
  LET v == who[p] IN
  /\ at[p] = "quiet" /\ op[p] = "release"
  /\ cb[v] = {}
  /\ core_mask' = [w \in Vdec |-> IF w \in {v, SlaveOf(v)} THEN core_mask[w] \ CoreMask[v]
                                  ELSE core_mask[w]]
  /\ status' = [status EXCEPT ![v] = "DISCONNECTED"]
  /\ at' = [at EXCEPT ![p] = "clear"]
  /\ UNCHANGED <<sem, schedVars, flagVars, threadVars, alive, next_status, active_mask,
                 sched_mask, sched, done, inputVars, driverVars, op, who, clear_seen>>

(* vdec_connect_list_force_clear: an instance that is still on the list is *)
(* taken off, and the cores it is active on are given back.  The update of *)
(* core->sched_mask is a load and a store that core->lock does not protect *)
(* from the core thread.                                                   *)
ClearLoad(p) ==
  LET v == who[p] IN
  /\ at[p] = "clear"
  /\ IF v \in connected /\ status[v] = "DISCONNECTED"
     THEN /\ clear_seen' = [clear_seen EXCEPT ![p] = core_sched]
          /\ at' = [at EXCEPT ![p] = "clear_store"]
     ELSE /\ at' = [at EXCEPT ![p] = "destroy"]
          /\ UNCHANGED clear_seen
  /\ UNCHANGED <<sem, schedVars, flagVars, threadVars, vdecVars, inputVars, driverVars, op, who>>

ClearStore(p) ==
  LET v == who[p] IN
  /\ at[p] = "clear_store"
  /\ core_sched' = IF active_mask[v] # {} THEN clear_seen[p] \ active_mask[v] ELSE core_sched
  /\ active_hw' = Dropped(active_hw, {v})
  /\ last' = Dropped(last, {v})
  /\ connected' = connected \ {v}
  /\ before' = before \cap (connected' \X connected')
  /\ clear_seen' = [clear_seen EXCEPT ![p] = {}]
  /\ at' = [at EXCEPT ![p] = "destroy"]
  /\ UNCHANGED <<sem, flagVars, threadVars, vdecVars, inputVars, driverVars, op, who>>

(* vdec_destroy; the port releases the slave after the master.             *)
Destroy(p) ==
  LET v == who[p] IN
  /\ at[p] = "destroy"
  /\ alive' = alive \ {v}
  /\ status' = [status EXCEPT ![v] = "UNINITIALIZED"]
  /\ next_status' = [next_status EXCEPT ![v] = "UNINITIALIZED"]
  /\ core_mask' = [core_mask EXCEPT ![v] = {}]
  /\ active_mask' = [active_mask EXCEPT ![v] = {}]
  /\ sched_mask' = [sched_mask EXCEPT ![v] = {}]
  /\ sched' = [sched EXCEPT ![v] = FALSE]
  /\ done' = [done EXCEPT ![v] = FALSE]
  /\ input' = [input EXCEPT ![v] = 0]
  /\ consumed' = [consumed EXCEPT ![v] = FALSE]
  /\ need_more' = [need_more EXCEPT ![v] = {}]
  /\ room' = [room EXCEPT ![v] = MaxRoom]
  /\ pipe' = [pipe EXCEPT ![v] = 0]
  /\ op' = [op EXCEPT ![p] = "none"]
  /\ IF v = p /\ SlaveOf(p) # NoVdec
     THEN at' = [at EXCEPT ![p] = "again"] /\ who' = [who EXCEPT ![p] = SlaveOf(p)]
     ELSE at' = [at EXCEPT ![p] = "none"] /\ who' = [who EXCEPT ![p] = p]
  /\ UNCHANGED <<sem, schedVars, flagVars, threadVars, cb, clear_seen>>

User(p) ==
  \/ Open(p) \/ Connect(p) \/ (\E why \in {"reset", "release"} : Disconnect(p, why))
  \/ WaitDone(p) \/ WaitTimeout(p) \/ Reset(p) \/ DriverRemove(p)
  \/ ClearLoad(p) \/ ClearStore(p) \/ Destroy(p)

Driver(v) ==
  \/ \E m \in SUBSET Core, used, switch \in BOOLEAN : FinishRun(v, m, used, switch)
  \/ Callback(v)

Data(v) == AddChunk(v) \/ AddStream(v) \/ VfPut(v)

Next ==
  \/ CoreThread
  \/ \E v \in Vdec : Driver(v) \/ Data(v)
  \/ \E p \in Port : User(p)

Spec == Init /\ [][Next]_vars


-----------------------------------------------------------------------------
(* Fairness: the core thread is a runnable kernel thread; a driver arms a  *)
(* timer at each run, so a run ends and its work reaches the callback; the *)
(* user thread goes on inside a call.  Nobody has to open, reset, release, *)
(* feed or display.                                                        *)
Fairness ==
  /\ WF_vars(CoreThread)
  /\ \A v \in Vdec :
       /\ \A c \in Core :
            WF_vars(\E m \in SUBSET Core, used, switch \in BOOLEAN :
                      c \in m /\ FinishRun(v, m, used, switch))
       /\ WF_vars(Callback(v))
  /\ \A p \in Port :
       WF_vars(Connect(p) \/ WaitDone(p) \/ Reset(p) \/ DriverRemove(p) \/ ClearLoad(p)
               \/ ClearStore(p) \/ Destroy(p) \/ (at[p] = "again" /\ Disconnect(p, "release")))

FairSpec == Spec /\ Fairness

(* Fairness when the hardware may hang: nothing makes a run end, the core  *)
(* thread may be held up; only the user thread, with its timeouts, and the *)
(* works that have already finished their run go on.                       *)
HangSpec ==
  /\ Spec
  /\ \A v \in Vdec : WF_vars(Callback(v))
  /\ \A p \in Port :
       WF_vars(WaitDone(p) \/ WaitTimeout(p) \/ DriverRemove(p) \/ ClearLoad(p)
               \/ ClearStore(p) \/ Destroy(p) \/ (at[p] = "again" /\ Disconnect(p, "release")))

-----------------------------------------------------------------------------
(* Properties.                                                             *)

(* No hardware core is ever scheduled for two decoder instances at once    *)
(* (vdec->sched_mask of the grant in vdec_core_thread).                    *)
CoreExclusive ==
  \A v, w \in Vdec : v # w => sched_mask[v] \cap sched_mask[w] = {}

(* A driver that still runs on a core (active_mask) has not had it         *)
(* collected, and no core is marked busy in core->sched_mask without a     *)
(* listed instance that holds it: the collection, the grant and the leave  *)
(* of an instance together lose no core and leak none.                     *)
CoresAccounted ==
  /\ \A v \in Vdec : active_mask[v] \subseteq sched_mask[v]
  /\ pc \in {"down", "elect", "grant", "retire", "complete"} =>
       core_sched = UNION {sched_mask[v] : v \in connected}

(* When vdec_disconnect has returned, the scheduler has forgotten the      *)
(* instance and its other layer: they are on no list, hold no core, are    *)
(* not about to be run and no core points at them, so vdec_reset may       *)
(* rebuild the input and vdec_release may free the structure.              *)
Forgotten(v) ==
  /\ v \notin connected \cup disconnecting
  /\ sched_mask[v] = {} /\ active_mask[v] = {}
  /\ worker # v
  /\ \A c \in Core : last[c] # v /\ active_hw[c] # v
DisconnectQuiesces ==
  \A p \in Port : at[p] \in {"quiet", "clear", "clear_store", "destroy"} =>
    \A v \in Pair(who[p]) : Forgotten(v)

(* The scheduler holds no pointer to an instance that vdec_destroy freed:  *)
(* not in its lists, not in the last_ and active_ pointers of the cores    *)
(* (which the interrupt handlers dereference), not in the core thread.     *)
NoDanglingVdec ==
  /\ connected \cup disconnecting \subseteq alive
  /\ \A c \in Core : {last[c], active_hw[c]} \subseteq alive \cup {NoVdec}
  /\ pc \in {"grant", "load", "run"} => worker \in alive

(* The scheduler never sleeps on work: with no count in core->sem and no   *)
(* callback on its way, nobody who could be given a free core is waiting,  *)
(* no finished core is left uncollected and no instance that asked to      *)
(* leave is still listed as idle.  Every event that makes work must up the *)
(* semaphore, after it has made it.  The exception is a packet that races  *)
(* with the look at its stream: the flag is set, the next packet wakes the *)
(* scheduler.                                                              *)
Asleep == pc = "down" /\ sem = 0 /\ \A v \in Vdec : cb[v] = {}
NoLostWakeup ==
  Asleep =>
    /\ \A c \in Core \ core_sched : \A v \in Electable(c) :
         v \in ExtBuf /\ "MORE" \in need_more[v]
    /\ \A v \in connected :
         /\ Released(v) = {}
         /\ ~ Leaves(v)

(* Combined cores are granted and given back together: an instance that    *)
(* asked for CORE_MASK_COMBINE holds all of its cores or none, whatever    *)
(* single-core instances compete for them.                                 *)
CombinedTogether ==
  \A v \in Combined :
    \A mask \in {sched_mask[v], active_mask[v]} : mask \in {{}, CoreMask[v]}

(* The turn of a dual layer pair is never lost or doubled from the open of *)
(* the port to the destroy of its master, and a layer decodes its input    *)
(* only on its turn.  (Its back core may still be at work when the turn    *)
(* has passed on.)                                                         *)
OneTurn ==
  \A p \in Port : SlaveOf(p) # NoVdec /\ at[p] # "none" /\ who[p] = p =>
    /\ sched[p] # sched[SlaveOf(p)]
    /\ \A v \in Pair(p) : Started(v) \cap InputCore # {} => sched[v]

(* A call of vdec_disconnect returns: whatever the instance is doing, its  *)
(* run ends, the core thread unlinks it and completes inactive_done.       *)
DisconnectReturns ==
  \A p \in Port : at[p] \in {"wait1", "wait2"} ~> at[p] \notin {"wait1", "wait2"}

(* An instance with data and a display buffer gets a core, whoever else    *)
(* keeps using it: the election starts after the last user of the core.    *)
Waiting(v) ==
  /\ v \in connected /\ next_status[v] = "CONNECTED" /\ active_mask[v] = {}
  /\ input[v] > 0 /\ ~ consumed[v] /\ room[v] > 0
  /\ Partner(v) # NoVdec => sched[v]
ServedInTurn ==
  \A v \in Vdec : Waiting(v) ~> ~ Waiting(v)

(* The scheduler implements the abstract allocator: a core is owned by the *)
(* instance whose sched_mask has it, the members are the listed instances. *)
(* A core never passes from one instance to another without being free in  *)
(* between, and an instance leaves only after it asked and owns nothing.   *)
Owner == [c \in Core |-> IF \E v \in Vdec : c \in sched_mask[v]
                         THEN CHOOSE v \in Vdec : c \in sched_mask[v]
                         ELSE NoVdec]
Leaving == {v \in connected : next_status[v] = "DISCONNECTED"}
Alloc == INSTANCE CoreAlloc WITH owner <- Owner, member <- connected, leaving <- Leaving
ImplementsCoreAlloc == Alloc!AllocSpec

(* vdec_release ends even when the hardware hangs in the middle of a run   *)
(* and the core thread never unlinks the instance.                         *)
ReleaseEnds ==
  \A p \in Port : op[p] = "release" ~> at[p] = "none"

-----------------------------------------------------------------------------
(* The inductive invariant, for waits that do not time out.                *)

(* The core thread still has something to do with v: it is on one of the   *)
(* two lists or waits for its completion.                                  *)
Held(v) == v \in connected \cup disconnecting \/ (pc = "complete" /\ v = retiree)

ConsumedInv == \A v \in Vdec : consumed[v] => input[v] > 0 /\ v \notin Stream

(* An instance on a list is managed, and only such an instance has cores.  *)
ListInv ==
  /\ disconnecting \cap connected = {}
  /\ disconnecting # {} => pc # "down"
  /\ pc = "complete" => retiree \in Vdec \ (connected \cup disconnecting)
  /\ \A v \in Vdec :
       /\ Managed(v) <=> v \in connected \cup disconnecting
       /\ active_mask[v] \subseteq sched_mask[v]
       /\ sched_mask[v] # {} => v \in connected
       /\ status[v] = "CONNECTED" => active_mask[v] = {}
       /\ done[v] => ~ Held(v)

(* The cores in core->sched_mask are those of the instances, except for    *)
(* the cores of a grant that is not written back yet.                      *)
CoreInv ==
  /\ pc \in {"grant", "load", "run"} =>
       worker \in connected /\ sel # {} /\ sel \cap core_sched = {}
  /\ pc \in {"load", "run"} => sel \subseteq active_mask[worker]
  /\ pc = "run" => loaded = core_sched
  /\ \A v \in Vdec : \A c \in sched_mask[v] :
       c \in core_sched \/ (pc \in {"load", "run"} /\ v = worker /\ c \in sel)
  /\ \A c \in core_sched : \E v \in connected : c \in sched_mask[v]
  /\ CoreExclusive

(* Where the user thread of a port is, against what the core thread holds. *)
HeldInv(v) ==
  /\ Held(v) =>
       \/ at[PortOf(v)] \in {"open", "wait1"}
       \/ at[PortOf(v)] = "wait2" /\ v # PortOf(v)
  /\ Held(v) /\ (v \in connected => next_status[v] = "DISCONNECTED") =>
       at[PortOf(v)] \in {"wait1", "wait2"}
PortInv(p) ==
  /\ who[p] \in Pair(p)
  /\ at[p] \in {"none", "ready", "open", "wait1", "wait2"} => who[p] = p
  /\ op[p] = "reset" => who[p] = p
  /\ at[p] = "again" => op[p] = "none" /\ who[p] # p
  /\ at[p] \in {"ready", "open", "wait1", "wait2", "quiet"} /\ who[p] = p =>
       status[p] # "UNINITIALIZED"
  /\ at[p] = "open" => Pair(p) \subseteq connected
  /\ at[p] # "clear_store"
UserInv == (\A v \in Vdec : HeldInv(v)) /\ (\A p \in Port : PortInv(p))

(* The pointers of the scheduler: the elected instance and those of the    *)
(* cores are listed, and the instances of a port in use are allocated.     *)
PtrInv ==
  /\ pc \in {"down", "elect"} => worker = NoVdec
  /\ worker # NoVdec => worker \in connected
  /\ \A c \in Core : last[c] \in connected \cup {NoVdec} /\ active_hw[c] \in connected \cup {NoVdec}
  /\ \A p \in Port : at[p] \notin {"none", "again"} /\ who[p] = p => Pair(p) \subseteq alive

IndInv == TypeOK /\ ConsumedInv /\ ListInv /\ CoreInv /\ UserInv /\ PtrInv

-----------------------------------------------------------------------------
(* What comments of vdec.c say.                                            *)

(* "Remove the vdec after timeout happens both in vdec_disconnect and      *)
(* platform_device_unregister. Then after, we can release the vdec."       *)
(* (vdec_connect_list_force_clear): the core thread no longer refers to it. *)
ReleasableAfterForceClear ==
  \A p \in Port : at[p] = "destroy" =>
    /\ who[p] \notin connected \cup disconnecting
    /\ worker # who[p] \/ pc \in {"elect", "retire", "down"}

=============================================================================
