------------------------------- MODULE VdecRun -------------------------------
(***************************************************************************)
(* One run of a decoder, between the grant of the core and its return: the *)
(* interrupt bridge of decoder/utils/vdec.c and the H.264 driver for V4L2  *)
(* (decoder_v4l/h264_multi/vmh264.c) on the core VDEC_1, which several     *)
(* instances share.                                                        *)
(*                                                                         *)
(* run() starts the hardware.  Its mailbox interrupt is taken by vdec_isr, *)
(* whose second half, vdec_thread_isr, is a thread: it tells the hardware  *)
(* to go on, or decides the result and queues the driver's work.  The work *)
(* ends the run and gives the core back.  A timer watches the hardware and *)
(* queues a work of its own, timeout_work, when the time of the run is up. *)
(* All works share one ordered workqueue.                                  *)
(*                                                                         *)
(* An operator that no other one uses and that stands in front of its      *)
(* correct form is a deliberate mistake that a property notices.           *)
(***************************************************************************)
EXTENDS Integers, Sequences

CONSTANTS
  Vdec,        \* instances of the driver
  NoVdec,      \* NULL
  MaxReports,  \* times the hardware asks the driver to go on in one run
  MayHang,     \* the hardware may hang
  Late,        \* the hardware or the thread may answer when the time is up
  Leaver       \* instances that the user may disconnect and reset

ASSUME RunAssumption ==
  /\ NoVdec \notin Vdec
  /\ MaxReports \in Nat
  /\ Leaver \subseteq Vdec
  /\ {MayHang, Late} \subseteq BOOLEAN

VARIABLES
  (* the scheduler *)
  granted,      \* the instance whose run() is about to be called
  active,       \* instances with active_mask # 0
  active_vdec,  \* vdec_core->active_vdec
  status, next_status,
  lag,          \* irq_cnt - irq_thread_cnt
  (* the hardware *)
  cpu,          \* the processor of the core: off, on (amvdec_start) or hung
  dpb_status,   \* DPB_STATUS_REG
  reports,      \* reports after which it went on
  mbox,         \* the mailbox interrupt: masked, open or raised
  (* the interrupt thread, and the instance it has looked up *)
  thread, served,
  (* the workqueue, and the work that is executed *)
  queue, worker, work,
  (* struct vdec_h264_hw_s *)
  dec_status,   \* dpb.dec_dpb_status
  dec_result,
  timed,        \* start_process_time > 0
  timer,        \* check_timer
  timeout_processing,
  eos,
  user          \* the thread that disconnects and resets the instance

schedVars  == <<granted, active, active_vdec, status, next_status, lag>>
hwVars     == <<cpu, dpb_status, reports, mbox>>
threadVars == <<thread, served>>
queueVars  == <<queue, worker, work>>
driverVars == <<dec_status, dec_result, timed, timer, timeout_processing, eos>>
vars == <<schedVars, hwVars, threadVars, queueVars, driverVars, user>>

Work == [of : Vdec, kind : {"work", "timeout"}]
NoWork == [of |-> NoVdec, kind |-> "work"]
TheWork(v) == [of |-> v, kind |-> "work"]
TimeoutWork(v) == [of |-> v, kind |-> "timeout"]

Report == {"head", "config", "done", "empty"}
Result == {"NONE", "DONE", "AGAIN", "CONFIG_PARAM", "NEED_MORE_BUFFER", "TIMEOUT", "EOS",
           "FORCE_EXIT", "ERROR_DATA"}

TypeOK ==
  /\ granted \in Vdec \cup {NoVdec} /\ active_vdec \in Vdec \cup {NoVdec}
  /\ active \in SUBSET Vdec
  /\ status \in [Vdec -> {"CONNECTED", "ACTIVE", "DISCONNECTED"}]
  /\ next_status \in [Vdec -> {"CONNECTED", "DISCONNECTED"}]
  /\ lag \in [Vdec -> 0..1]
  /\ cpu \in {"off", "on", "hung"}
  /\ dpb_status \in Report \cup {"search", "waits"}
  /\ reports \in 0..MaxReports
  /\ mbox \in {"masked", "open", "raised"}
  /\ thread \in {"idle", "woken", "handle", "queue", "count"}
  /\ served \in Vdec \cup {NoVdec}
  /\ queue \in Seq(Work)
  /\ worker \in {"idle", "act", "mask", "finish", "tail"}
  /\ work \in Work \cup {NoWork}
  /\ dec_status \in [Vdec -> Report \cup {"search", "waits"}]
  /\ dec_result \in [Vdec -> Result]
  /\ timed \in [Vdec -> BOOLEAN]
  /\ timer \in [Vdec -> {"off", "armed", "check", "stop", "recheck"}]
  /\ timeout_processing \in [Vdec -> BOOLEAN] /\ eos \in [Vdec -> BOOLEAN]
  /\ user \in [Vdec -> {"use", "wait", "reset"}]

Init ==
  /\ granted = NoVdec /\ active_vdec = NoVdec /\ active = {}
  /\ status = [v \in Vdec |-> "CONNECTED"] /\ next_status = [v \in Vdec |-> "CONNECTED"]
  /\ lag = [v \in Vdec |-> 0]
  /\ cpu = "off" /\ dpb_status = "waits" /\ reports = 0 /\ mbox = "masked"
  /\ thread = "idle" /\ served = NoVdec
  /\ queue = <<>> /\ worker = "idle" /\ work = NoWork
  /\ dec_status = [v \in Vdec |-> "waits"] /\ dec_result = [v \in Vdec |-> "NONE"]
  /\ timed = [v \in Vdec |-> FALSE] /\ timer = [v \in Vdec |-> "off"]
  /\ timeout_processing = [v \in Vdec |-> FALSE] /\ eos = [v \in Vdec |-> FALSE]
  /\ user = [v \in Vdec |-> "use"]

-----------------------------------------------------------------------------
(* Works.  A work that is queued already is not queued again; it counts as *)
(* pending until its execution begins.                                     *)

Pending(w) == \E i \in 1..Len(queue) : queue[i] = w
Executing(w) == worker # "idle" /\ work = w
Busy(w) == Pending(w) \/ Executing(w)
AnyBusy(v) == Busy(TheWork(v)) \/ Busy(TimeoutWork(v))

(* The function of a work goes on, or returns.                             *)
Proceed(at) == worker' = at /\ UNCHANGED work
Return == worker' = "idle" /\ work' = NoWork

vdec_schedule_work(w) == queue' = IF Pending(w) THEN queue ELSE Append(queue, w)
cancel_work(w) == queue' = IF Pending(w) THEN SelectSeq(queue, LAMBDA x : x # w) ELSE queue

start_process_time(v) == timed' = [timed EXCEPT ![v] = TRUE]
reset_process_time(v) == timed' = [timed EXCEPT ![v] = FALSE]
SetResult(v, r) == dec_result' = [dec_result EXCEPT ![v] = r]
amvdec_stop == cpu' = "off" /\ reports' = 0

-----------------------------------------------------------------------------
(* The scheduler, as far as a run sees it (VdecCore has all of it).        *)

(* vdec_ready_to_run, with run_ready of the driver.                        *)
RunReady(v) == ~ (timeout_processing[v] /\ AnyBusy(v)) /\ ~ eos[v]
ReadyToRun(v) ==
  /\ status[v] = "CONNECTED" /\ next_status[v] # "DISCONNECTED"
  /\ lag[v] <= 0
  /\ RunReady(v)

(* The core thread elects v: vdec_save_active_hw.                          *)
Grant(v) ==
  /\ granted = NoVdec /\ active = {}
  /\ ReadyToRun(v)
  /\ granted' = v /\ active' = {v} /\ active_vdec' = v
  /\ status' = [status EXCEPT ![v] = "ACTIVE"]
  /\ timeout_processing' = [timeout_processing EXCEPT ![v] = FALSE]
  /\ UNCHANGED <<next_status, lag, hwVars, threadVars, queueVars, dec_status, dec_result,
                 timed, timer, eos, user>>

(* run: there is no input or a change of resolution is not settled, the    *)
(* firmware cannot be loaded, or the context cannot be restored.           *)
RunFails(v) ==
  /\ granted = v
  /\ \/ SetResult(v, "AGAIN") /\ UNCHANGED timed
     \/ SetResult(v, "FORCE_EXIT") /\ start_process_time(v)
     \/ SetResult(v, "NONE") /\ start_process_time(v)
  /\ vdec_schedule_work(TheWork(v))
  /\ granted' = NoVdec
  /\ UNCHANGED <<active, active_vdec, status, next_status, lag, hwVars, threadVars, worker, work,
                 dec_status, timer, timeout_processing, eos, user>>

(* run: the mailbox is cleared and opened, the timer armed, the hardware   *)
(* started.                                                                *)
RunStarts(v) ==
  /\ granted = v
  /\ SetResult(v, "NONE")
  /\ start_process_time(v)
  /\ timer' = [timer EXCEPT ![v] = IF @ = "off" THEN "armed" ELSE @]
  /\ cpu' = "on" /\ dpb_status' = "search" /\ mbox' = "open" /\ reports' = 0
  /\ granted' = NoVdec
  /\ UNCHANGED <<active, active_vdec, status, next_status, lag, threadVars, queueVars,
                 dec_status, timeout_processing, eos, user>>

(* An instance that has no run and asked to leave is disconnected; the     *)
(* waiting user is told.                                                   *)
Retire(v) ==
  /\ next_status[v] = "DISCONNECTED" /\ status[v] = "CONNECTED" /\ v \notin active
  /\ status' = [status EXCEPT ![v] = "DISCONNECTED"]
  /\ active_vdec' = IF active_vdec = v THEN NoVdec ELSE active_vdec
  /\ user' = [user EXCEPT ![v] = IF @ = "wait" THEN "reset" ELSE @]
  /\ UNCHANGED <<granted, active, next_status, lag, hwVars, threadVars, queueVars, driverVars>>

-----------------------------------------------------------------------------
(* The hardware and the interrupt.                                         *)

(* The hardware reports and waits for the driver; each "head" and "config" *)
(* is one of at most MaxReports.                                           *)
HwReports(s) ==
  /\ cpu = "on" /\ dpb_status = "search"
  /\ s \in {"head", "config"} => reports < MaxReports
  /\ reports' = IF s \in {"head", "config"} THEN reports + 1 ELSE reports
  /\ dpb_status' = s
  /\ mbox' = IF mbox = "masked" THEN mbox ELSE "raised"
  /\ UNCHANGED <<schedVars, cpu, threadVars, queueVars, driverVars, user>>

HwHangs ==
  /\ MayHang
  /\ cpu = "on" /\ dpb_status = "search"
  /\ cpu' = "hung"
  /\ UNCHANGED <<schedVars, dpb_status, reports, mbox, threadVars, queueVars, driverVars, user>>

(* vdec_isr and vh264_isr; IRQF_ONESHOT keeps the line off while the       *)
(* thread is at work.                                                      *)
vdec_isr ==
  /\ mbox = "raised" /\ thread = "idle"
  /\ active_vdec # NoVdec
  /\ mbox' = "open"
  /\ IF eos[active_vdec]
       THEN UNCHANGED <<dec_status, lag, thread>>
       ELSE /\ dec_status' = [dec_status EXCEPT ![active_vdec] = dpb_status]
            /\ lag' = [lag EXCEPT ![active_vdec] = @ + 1]
            /\ thread' = "woken"
  /\ UNCHANGED <<granted, active, active_vdec, status, next_status, cpu, dpb_status, reports,
                 served, queueVars, dec_result, timed, timer, timeout_processing, eos, user>>

(* vdec_thread_isr looks up the active instance again; without one it is   *)
(* done.                                                                   *)
ThreadStarts ==
  /\ thread = "woken"
  /\ served' = active_vdec
  /\ thread' = IF active_vdec = NoVdec THEN "idle" ELSE "handle"
  /\ UNCHANGED <<schedVars, hwVars, queueVars, driverVars, user>>

GoesOnUncounted(v) ==
  /\ dec_status[v] \in {"head", "search", "waits"}
  /\ IF dec_status[v] = "head"
       THEN start_process_time(v) /\ dpb_status' = "search"
       ELSE UNCHANGED <<timed, dpb_status>>
  /\ thread' = "idle"
  /\ UNCHANGED <<cpu, reports, dec_result>>

(* vh264_isr_thread_fn: the hardware goes on.  "head" stands for every     *)
(* report after which it may, as a picture of a chunk that holds several.  *)
(* A status that asks for nothing is not handled.                          *)
GoesOn(v) ==
  /\ dec_status[v] \in {"head", "search", "waits"}
  /\ IF dec_status[v] = "head"
       THEN start_process_time(v) /\ dpb_status' = "search"
       ELSE UNCHANGED <<timed, dpb_status>>
  /\ thread' = "count"
  /\ UNCHANGED <<cpu, reports, dec_result>>

DecidesAndGoesOn(v) ==
  /\ reset_process_time(v)
  /\ SetResult(v, IF dec_status[v] = "config" THEN "CONFIG_PARAM" ELSE "DONE")
  /\ dpb_status' = "search" /\ UNCHANGED <<cpu, reports>>
  /\ thread' = "queue"

(* vh264_isr_thread_fn: the driver's work is to be queued.  Some errors,   *)
(* the end of the auxiliary data and an empty input (AGAIN) leave the      *)
(* hardware to the work; for the next picture of a chunk without a buffer  *)
(* it waits.                                                               *)
Decides(v) ==
  /\ reset_process_time(v)
  /\ \/ dec_status[v] = "config" /\ SetResult(v, "CONFIG_PARAM")
        /\ dpb_status' = "waits" /\ UNCHANGED <<cpu, reports>>
     \/ dec_status[v] = "head" /\ (SetResult(v, "DONE") \/ SetResult(v, "AGAIN"))
        /\ (amvdec_stop \/ UNCHANGED <<cpu, reports>>) /\ UNCHANGED dpb_status
     \/ dec_status[v] = "head" /\ SetResult(v, "NEED_MORE_BUFFER")
        /\ UNCHANGED <<cpu, reports, dpb_status>>
     \/ dec_status[v] = "done" /\ SetResult(v, "DONE")
        /\ (amvdec_stop \/ UNCHANGED <<cpu, reports>>) /\ UNCHANGED dpb_status
     \/ dec_status[v] = "empty" /\ SetResult(v, "DONE")
        /\ amvdec_stop /\ UNCHANGED dpb_status
     \/ dec_status[v] = "empty" /\ SetResult(v, "AGAIN")
        /\ UNCHANGED <<cpu, reports, dpb_status>>
  /\ thread' = "queue"

ThreadHandles ==
  /\ thread = "handle"
  /\ GoesOn(served) \/ Decides(served)
  /\ UNCHANGED <<schedVars, mbox, served, queueVars, dec_status, timer, timeout_processing, eos, user>>

ThreadQueues ==
  /\ thread = "queue"
  /\ vdec_schedule_work(TheWork(served))
  /\ thread' = "count"
  /\ UNCHANGED <<schedVars, hwVars, served, worker, work, driverVars, user>>

ThreadCountsActive ==
  /\ thread = "count"
  /\ lag' = [lag EXCEPT ![active_vdec] = @ - 1]
  /\ thread' = "idle" /\ served' = NoVdec
  /\ UNCHANGED <<granted, active, active_vdec, status, next_status, hwVars, queueVars, driverVars, user>>

(* The instance looked up at the start is counted, not the active one.     *)
ThreadCounts ==
  /\ thread = "count"
  /\ lag' = [lag EXCEPT ![served] = @ - 1]
  /\ thread' = "idle" /\ served' = NoVdec
  /\ UNCHANGED <<granted, active, active_vdec, status, next_status, hwVars, queueVars, driverVars, user>>

-----------------------------------------------------------------------------
(* The timer, check_timer_func.                                            *)

(* The status counts towards the time-out and the time is up.  Unless Late *)
(* the time is long enough for whatever does not hang: threads and works.  *)
TimerExpires(v) ==
  /\ timer[v] = "armed"
  /\ timed[v] /\ dpb_status \in {"search", "head"}
  /\ Late \/ (cpu = "hung" /\ ~ AnyBusy(v))
  /\ reset_process_time(v)
  /\ timer' = [timer EXCEPT ![v] = "check"]
  /\ UNCHANGED <<schedVars, hwVars, threadVars, queueVars, dec_status, dec_result,
                 timeout_processing, eos, user>>

(* timeout_process in three steps: look for works, stop the hardware and   *)
(* set the result, look again and queue timeout_work.                      *)
TimeoutChecks(v) ==
  /\ timer[v] = "check"
  /\ timer' = [timer EXCEPT ![v] = IF AnyBusy(v) THEN "armed" ELSE "stop"]
  /\ UNCHANGED <<schedVars, hwVars, threadVars, queueVars, dec_status, dec_result, timed,
                 timeout_processing, eos, user>>

TimeoutForgets(v) ==
  /\ timer[v] = "recheck"
  /\ timer' = [timer EXCEPT ![v] = "armed"]
  /\ UNCHANGED <<schedVars, hwVars, threadVars, queueVars, dec_status, dec_result, timed,
                 timeout_processing, eos, user>>

TimeoutStops(v) ==
  /\ timer[v] = "stop"
  /\ amvdec_stop
  /\ SetResult(v, "TIMEOUT")
  /\ timer' = [timer EXCEPT ![v] = "recheck"]
  /\ UNCHANGED <<schedVars, dpb_status, mbox, threadVars, queueVars, dec_status, timed,
                 timeout_processing, eos, user>>

TimeoutQueues(v) ==
  /\ timer[v] = "recheck"
  /\ timer' = [timer EXCEPT ![v] = "armed"]
  /\ IF Pending(TheWork(v)) THEN UNCHANGED queue ELSE vdec_schedule_work(TimeoutWork(v))
  /\ UNCHANGED <<schedVars, hwVars, threadVars, worker, work, dec_status, dec_result, timed,
                 timeout_processing, eos, user>>

-----------------------------------------------------------------------------
(* The works: vh264_work, vh264_timeout_work, vh264_work_implement.        *)

(* timeout_work leaves the end of the run to a work that is pending.       *)
WorkBegins ==
  /\ worker = "idle" /\ queue # <<>>
  /\ queue' = Tail(queue)
  /\ LET w == Head(queue)
     IN  IF w.kind = "timeout" /\ Pending(TheWork(w.of))
           THEN UNCHANGED <<worker, work, timeout_processing>>
           ELSE /\ worker' = "act" /\ work' = w
                /\ timeout_processing' = [timeout_processing EXCEPT ![w.of] = @ \/ w.kind = "timeout"]
  /\ UNCHANGED <<schedVars, hwVars, threadVars, dec_status, dec_result, timed, timer, eos, user>>

RequeueAndGoOn(v, r) ==
  /\ SetResult(v, r)
  /\ vdec_schedule_work(TheWork(v))
  /\ Proceed("mask")
  /\ UNCHANGED <<timed, eos>>

(* The work has the result changed and queues itself again.                *)
Requeue(v, r) ==
  /\ SetResult(v, r)
  /\ vdec_schedule_work(TheWork(v))
  /\ Return
  /\ UNCHANGED <<timed, eos>>

(* CONFIG_PARAM: the parameters are set and the hardware goes on, or they  *)
(* are refused; the first ones end the run, and so does a change of        *)
(* resolution, with the stream (v4l_res_change).                           *)
WorkConfigures(v) ==
  /\ dec_result[v] = "CONFIG_PARAM"
  /\ \/ /\ dpb_status' = "search" /\ start_process_time(v)
        /\ Return /\ UNCHANGED <<cpu, reports, dec_result, eos, queue>>
     \/ Requeue(v, "ERROR_DATA") /\ UNCHANGED <<cpu, reports, dpb_status>>
     \/ /\ amvdec_stop
        /\ eos' = eos \/ eos' = [eos EXCEPT ![v] = TRUE]
        /\ Proceed("mask") /\ UNCHANGED <<dpb_status, dec_result, timed, queue>>

(* NEED_MORE_BUFFER: the work queues itself until there is a buffer, and   *)
(* the hardware goes on, or the instance is to leave.                      *)
WorkWaits(v) ==
  /\ dec_result[v] = "NEED_MORE_BUFFER"
  /\ \/ /\ Requeue(v, IF next_status[v] = "DISCONNECTED" THEN "AGAIN" ELSE "NEED_MORE_BUFFER")
        /\ UNCHANGED <<cpu, reports, dpb_status>>
     \/ /\ dpb_status' = "search" /\ start_process_time(v)
        /\ Return /\ UNCHANGED <<cpu, reports, dec_result, eos, queue>>

(* AGAIN: the input is at its end.                                         *)
WorkRetries(v) ==
  /\ dec_result[v] = "AGAIN"
  /\ next_status[v] # "DISCONNECTED"
  /\ Requeue(v, "EOS")
  /\ UNCHANGED <<cpu, reports, dpb_status>>

WorkStopsLater(v) ==
  /\ dec_result[v] \notin {"CONFIG_PARAM", "NEED_MORE_BUFFER"}
  /\ eos' = IF dec_result[v] = "EOS" THEN [eos EXCEPT ![v] = TRUE] ELSE eos
  /\ Proceed("mask")
  /\ UNCHANGED <<cpu, reports, dpb_status, dec_result, timed, queue>>

(* The other results, and AGAIN with more input: the hardware is stopped,  *)
(* except when the context could not be restored.  FORCE_EXIT waits for    *)
(* the interrupt thread (synchronize_irq in vdec_free_irq).                *)
WorkStops(v) ==
  /\ dec_result[v] \notin {"CONFIG_PARAM", "NEED_MORE_BUFFER"}
  /\ dec_result[v] = "FORCE_EXIT" => thread = "idle"
  /\ IF dec_result[v] = "NONE" THEN UNCHANGED <<cpu, reports>> ELSE amvdec_stop
  /\ eos' = IF dec_result[v] = "EOS" THEN [eos EXCEPT ![v] = TRUE] ELSE eos
  /\ Proceed("mask")
  /\ UNCHANGED <<dpb_status, dec_result, timed, queue>>

WorkActs ==
  /\ worker = "act"
  /\ WorkConfigures(work.of) \/ WorkWaits(work.of) \/ WorkRetries(work.of) \/ WorkStops(work.of)
  /\ UNCHANGED <<schedVars, mbox, threadVars, dec_status, timer,
                 timeout_processing, user>>

(* The mailbox is masked; del_timer_sync waits until the timer function    *)
(* has returned.                                                           *)
WorkMasks ==
  /\ worker = "mask"
  /\ timer[work.of] \in {"off", "armed"}
  /\ mbox' = "masked"
  /\ timer' = [timer EXCEPT ![work.of] = "off"]
  /\ Proceed("finish")
  /\ UNCHANGED <<schedVars, cpu, dpb_status, reports, threadVars, queue,
                 dec_status, dec_result, timed, timeout_processing, eos, user>>

(* A timeout work gives a pending work the chance to end the run; else     *)
(* vdec_core_finish_run.                                                   *)
WorkFinishes ==
  /\ worker = "finish"
  /\ IF work.kind = "timeout" /\ Pending(TheWork(work.of))
       THEN Return /\ UNCHANGED <<active, status>>
       ELSE /\ active' = active \ {work.of}
            /\ status' = [status EXCEPT ![work.of] = "CONNECTED"]
            /\ Proceed("tail")
  /\ UNCHANGED <<granted, active_vdec, next_status, lag, hwVars, threadVars, queue,
                 driverVars, user>>

(* timeout_processing is cleared; vdec_cb wakes the core thread.           *)
WorkReturns ==
  /\ worker = "tail"
  /\ timeout_processing' = [timeout_processing EXCEPT ![work.of] = @ /\ work.kind # "timeout"]
  /\ Return
  /\ UNCHANGED <<schedVars, hwVars, threadVars, queue, dec_status, dec_result, timed, timer,
                 eos, user>>

-----------------------------------------------------------------------------
(* The user.                                                               *)

(* vdec_disconnect, up to the wait.                                        *)
Disconnect(v) ==
  /\ v \in Leaver
  /\ user[v] = "use"
  /\ status[v] \in {"CONNECTED", "ACTIVE"}
  /\ next_status' = [next_status EXCEPT ![v] = "DISCONNECTED"]
  /\ user' = [user EXCEPT ![v] = "wait"]
  /\ UNCHANGED <<granted, active, active_vdec, status, lag, hwVars, threadVars, queueVars, driverVars>>

(* reset of the driver: cancel_work_sync on the work, but not on           *)
(* timeout_work, and del_timer_sync; then vdec_connect, which does nothing *)
(* unless the instance is disconnected.                                    *)
ResetDriver(v) ==
  /\ ~ Executing(TheWork(v))
  /\ timer[v] \in {"off", "armed"}
  /\ cancel_work(TheWork(v))
  /\ timer' = [timer EXCEPT ![v] = "off"]
  /\ reset_process_time(v)
  /\ eos' = [eos EXCEPT ![v] = FALSE]
vdec_connect_half(v) == status' = [status EXCEPT ![v] = "CONNECTED"] /\ UNCHANGED next_status
vdec_connect(v) ==
  IF status[v] # "DISCONNECTED" THEN UNCHANGED <<status, next_status>>
  ELSE /\ status' = [status EXCEPT ![v] = "CONNECTED"]
       /\ next_status' = [next_status EXCEPT ![v] = "CONNECTED"]
Reset(v) ==
  /\ user[v] = "reset"
  /\ ResetDriver(v)
  /\ vdec_connect(v)
  /\ user' = [user EXCEPT ![v] = "use"]
  /\ UNCHANGED <<granted, active, active_vdec, lag, hwVars, threadVars, worker, work,
                 dec_status, dec_result, timeout_processing>>

-----------------------------------------------------------------------------
CoreThread(v) == Grant(v) \/ RunFails(v) \/ RunStarts(v) \/ Retire(v)
Hardware == (\E s \in Report : HwReports(s)) \/ HwHangs
Thread == ThreadStarts \/ ThreadHandles \/ ThreadQueues \/ ThreadCounts
TimerStep(v) == TimeoutChecks(v) \/ TimeoutStops(v) \/ TimeoutQueues(v)
Timer(v) == TimerExpires(v) \/ TimerStep(v)
Worker == WorkBegins \/ WorkActs \/ WorkMasks \/ WorkFinishes \/ WorkReturns

Next ==
  \/ Hardware \/ vdec_isr \/ Thread \/ Worker
  \/ \E v \in Vdec : CoreThread(v) \/ Timer(v) \/ Disconnect(v) \/ Reset(v)

Spec == Init /\ [][Next]_vars

(* Fairness: kernel threads that are runnable run, interrupts and timers   *)
(* come, and hardware that does not hang reports.  Nobody has to           *)
(* disconnect.                                                             *)
Fairness ==
  /\ WF_vars(Hardware) /\ WF_vars(vdec_isr) /\ WF_vars(Thread) /\ WF_vars(Worker)
  /\ \A v \in Vdec :
       /\ WF_vars(CoreThread(v)) /\ WF_vars(Retire(v))
       /\ WF_vars(TimerExpires(v)) /\ WF_vars(TimerStep(v))
       /\ WF_vars(Reset(v))

FairSpec == Spec /\ Fairness

-----------------------------------------------------------------------------
(* Properties.                                                             *)

(* When run() is called nothing is left of the run before: no work of the  *)
(* instance that would end the new run is queued or executed               *)
(* (run_ready; "give it a chance", vh264_work_implement).                  *)
LeftOver(v) ==
  \/ Pending(TheWork(v)) \/ Pending(TimeoutWork(v))
  \/ worker \in {"act", "mask", "finish"} /\ work.of = v
RunStartsClean == granted # NoVdec => ~ LeftOver(granted)

(* The hardware works only in a run of the instance the core believes      *)
(* active: a run that has ended has stopped it (amvdec_stop in             *)
(* vh264_work_implement).                                                  *)
HardwareOwned == cpu # "off" => active_vdec # NoVdec /\ active = {active_vdec}

(* The two interrupt counters of an instance differ exactly while the      *)
(* thread serves an interrupt of it, so that vdec_ready_to_run waits for   *)
(* that thread and for no other ("Wait the matching irq_thread finished"). *)
ServedNow == IF thread = "woken" THEN active_vdec ELSE served
InterruptsMatched ==
  \A v \in Vdec : lag[v] = IF thread # "idle" /\ ServedNow = v THEN 1 ELSE 0

(* The thread handles an interrupt for the run it belongs to: until its    *)
(* work is queued, the run has not ended (vdec_thread_isr).                *)
HandledInItsRun == thread \in {"woken", "handle", "queue"} => active = {ServedNow} /\ granted = NoVdec

(* Every run ends, also when the hardware hangs (check_timer_func), unless *)
(* its work waits for a buffer for ever (DEC_RESULT_NEED_MORE_BUFFER).     *)
WaitsForBuffer(v) == dec_result[v] = "NEED_MORE_BUFFER" /\ Busy(TheWork(v))
RunEnds == \A v \in Vdec : []<>(v \notin active) \/ <>[]WaitsForBuffer(v)

(* A user that disconnects and resets is back in use, scheduled again: the *)
(* late end of a run does not make vdec_connect a no-op, and the wait for  *)
(* a buffer ends with the disconnect.                                      *)
Reconnects == \A v \in Vdec : user[v] = "wait" ~> user[v] = "use" /\ next_status[v] = "CONNECTED"

-----------------------------------------------------------------------------
(* The inductive invariant behind the properties, unless Late lets two     *)
(* parties end a run: at any time one party alone is responsible for it,   *)
(* run(), the hardware, its raised interrupt, the thread, a work, or the   *)
(* timer.                                                                  *)
Quiet == thread \in {"idle", "count"} /\ mbox # "raised"
NoWorkNow == queue = <<>> /\ worker \in {"idle", "tail"}
InRun(v) == granted = NoVdec /\ active_vdec = v /\ active = {v}

OneRun ==
  /\ active # {} => active_vdec # NoVdec /\ active = {active_vdec}
  /\ granted # NoVdec => active = {granted} /\ Quiet /\ NoWorkNow /\ cpu = "off"
  /\ cpu # "off" => active # {} /\ granted = NoVdec
  /\ \A v \in Vdec : /\ (v \in active) <=> (status[v] = "ACTIVE")
                     /\ (user[v] = "reset") => (status[v] = "DISCONNECTED")
InterruptInv ==
  /\ mbox = "raised" => /\ cpu = "on" /\ dpb_status \in Report /\ NoWorkNow
                        /\ thread \in {"idle", "count"}
  /\ thread \in {"woken", "handle"} => /\ cpu = "on" /\ dpb_status \in Report /\ NoWorkNow
                                       /\ ServedNow \in Vdec /\ InRun(ServedNow)
                                       /\ dec_status[ServedNow] = dpb_status
  /\ thread = "queue" => /\ served \in Vdec /\ InRun(served) /\ NoWorkNow
                         /\ dec_result[served] # "NONE"
                         /\ cpu = "off" \/ (cpu = "on" /\ dpb_status # "search")
  /\ thread = "count" => served \in Vdec
  /\ thread \notin {"idle", "count"} => mbox # "raised"
  /\ thread \in {"idle", "woken"} => served = NoVdec
WorkInv ==
  /\ \/ queue = <<>>
     \/ \E k \in {"work", "timeout"} :
          /\ queue = <<[of |-> active_vdec, kind |-> k]>>
          /\ InRun(active_vdec) /\ Quiet /\ worker \in {"idle", "tail"}
          /\ k = "timeout" => dec_result[active_vdec] # "NONE"
  /\ worker = "idle" => work = NoWork
  /\ worker # "idle" => work \in Work
  /\ worker \in {"act", "mask", "finish"} => queue = <<>> /\ InRun(work.of) /\ Quiet
  /\ ~ NoWorkNow => cpu = "off" \/ (cpu = "on" /\ dpb_status # "search")
  /\ ~ NoWorkNow /\ dec_result[active_vdec] = "NONE" => cpu = "off"
  /\ worker \in {"mask", "finish"} => cpu = "off"
TimerInv ==
  /\ \A v \in Vdec :
       /\ timer[v] # "off" => InRun(v)
       /\ worker = "finish" /\ work.of = v => timer[v] = "off"
       /\ timer[v] \in {"check", "stop", "recheck"} =>
            /\ Quiet /\ NoWorkNow /\ ~ Executing(TheWork(v)) /\ ~ Executing(TimeoutWork(v))
            /\ timer[v] = "recheck" => cpu = "off" /\ dec_result[v] = "TIMEOUT"
            /\ timer[v] # "recheck" => cpu = "hung"
  /\ cpu = "hung" => dpb_status = "search" /\ Quiet /\ NoWorkNow
RunInv == TypeOK /\ OneRun /\ InterruptInv /\ WorkInv /\ TimerInv /\ InterruptsMatched

=============================================================================
