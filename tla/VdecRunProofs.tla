---------------------------- MODULE VdecRunProofs ----------------------------
(***************************************************************************)
(* Proofs about VdecRun: RunInv (VdecRun) is inductive when no time-out is *)
(* late, and implies the safety properties of a run.  One lemma per        *)
(* action, with one step per conjunct of RunInv; the theorems are at the   *)
(* end.                                                                    *)
(***************************************************************************)
EXTENDS VdecRun, TLAPS

(* A work that is scheduled on an empty queue is alone on it.              *)
LEMMA Scheduled ==
  ASSUME queue = <<>>, NEW w \in Work, vdec_schedule_work(w)
  PROVE  queue' = <<w>> /\ queue' \in Seq(Work)
BY DEF vdec_schedule_work, Pending

(* The only work of a queue is its head.                                   *)
LEMMA Alone ==
  ASSUME NEW w \in Work, queue = <<w>>
  PROVE  Len(queue) = 1 /\ queue[1] = w /\ Head(queue) = w /\ Tail(queue) = <<>>
OBVIOUS

LEMMA GrantStep ==
  ASSUME RunAssumption, ~ Late, RunInv, NEW v \in Vdec, Grant(v)
  PROVE  RunInv'
<1>1. TypeOK'
  BY DEF RunInv, TypeOK, hwVars, threadVars, queueVars, Grant
<1>2. OneRun'
  <2>1. granted = NoVdec /\ active = {} /\ active' = {v} /\ granted' = v /\ active_vdec' = v
    BY DEF Grant
  <2>2. cpu = "off" /\ Quiet /\ NoWorkNow
    BY <2>1 DEF RunInv, TypeOK, OneRun, InterruptInv, WorkInv, InRun, Quiet, NoWorkNow
  <2>3. cpu' = "off" /\ Quiet' /\ NoWorkNow'
    BY <2>2 DEF Grant, Quiet, NoWorkNow, hwVars, threadVars, queueVars
  <2>4. \A u \in Vdec : status[u] # "ACTIVE" /\ (user[u] = "reset" => status[u] = "DISCONNECTED")
    BY <2>1 DEF RunInv, OneRun
  <2>5. \A u \in Vdec : /\ (u \in active') <=> (status'[u] = "ACTIVE")
                        /\ (user'[u] = "reset") => (status'[u] = "DISCONNECTED")
    <3> TAKE u \in Vdec
    <3>1. status[v] = "CONNECTED" /\ user[v] # "reset"
      BY <2>4 DEF Grant, ReadyToRun
    <3>2. user' = user /\ status' = [status EXCEPT ![v] = "ACTIVE"]
      BY DEF Grant
    <3>3. CASE u = v
      BY <2>1, <3>1, <3>2, <3>3 DEF RunInv, TypeOK
    <3>4. CASE u # v
      <4>1. status'[u] = status[u] /\ user'[u] = user[u] /\ u \notin active'
        BY <2>1, <3>2, <3>4 DEF RunInv, TypeOK
      <4> QED BY <4>1, <2>4
    <3> QED BY <3>3, <3>4
  <2>6. v # NoVdec
    BY DEF RunAssumption
  <2>7. active' = {active_vdec'} /\ active' = {granted'} /\ active_vdec' # NoVdec
    BY <2>1, <2>6
  <2>8. /\ active' # {} => active_vdec' # NoVdec /\ active' = {active_vdec'}
        /\ granted' # NoVdec => active' = {granted'} /\ Quiet' /\ NoWorkNow' /\ cpu' = "off"
        /\ cpu' # "off" => active' # {} /\ granted' = NoVdec
    BY <2>3, <2>7
  <2> QED BY <2>5, <2>8 DEF OneRun
<1>3. InterruptInv'
  BY DEF RunInv, InterruptInv, InRun, NoWorkNow, hwVars, threadVars, queueVars, Grant
<1>4. WorkInv'
  BY DEF RunInv, TypeOK, WorkInv, InRun, NoWorkNow, queueVars, Grant
<1>5. TimerInv'
  BY DEF RunInv, TimerInv, InRun, Quiet, NoWorkNow, hwVars, threadVars, queueVars,
       Grant
<1>6. InterruptsMatched'
  BY DEF RunInv, InterruptInv, InterruptsMatched, InRun, ServedNow, threadVars, Grant
<1> QED BY <1>1, <1>2, <1>3, <1>4, <1>5, <1>6 DEF RunInv

LEMMA RunFailsStep ==
  ASSUME RunAssumption, ~ Late, RunInv, NEW v \in Vdec, RunFails(v)
  PROVE  RunInv'
<1>0. queue' = <<TheWork(v)>> /\ queue' \in Seq(Work)
  <2>1. TheWork(v) \in Work /\ queue = <<>>
    BY DEF RunInv, TypeOK, OneRun, InterruptInv, TimerInv, NoWorkNow, ServedNow, Work,
         TheWork, TimeoutWork, RunFails
  <2>2. vdec_schedule_work(TheWork(v))
    BY <2>1 DEF RunFails, Pending
  <2> QED BY <2>1, <2>2, Scheduled
<1>1. TypeOK'
  <2>1. dec_result' \in [Vdec -> Result] /\ timed' \in [Vdec -> BOOLEAN]
    <3>1. CASE SetResult(v, "AGAIN") /\ UNCHANGED timed
      BY <3>1 DEF RunInv, TypeOK, SetResult, Result
    <3>2. CASE SetResult(v, "FORCE_EXIT") /\ start_process_time(v)
      BY <3>2 DEF RunInv, TypeOK, SetResult, start_process_time, Result
    <3>3. CASE SetResult(v, "NONE") /\ start_process_time(v)
      BY <3>3 DEF RunInv, TypeOK, SetResult, start_process_time, Result
    <3> QED BY <3>1, <3>2, <3>3 DEF RunFails
  <2> QED BY <1>0, <2>1 DEF RunFails, RunInv, TypeOK, hwVars, threadVars
<1>2. OneRun'
  BY DEF RunInv, OneRun, RunFails
<1>3. InterruptInv'
  BY DEF RunInv, OneRun, InterruptInv, Quiet, hwVars, threadVars, RunFails
<1>4. WorkInv'
  BY <1>0 DEF RunInv, TypeOK, OneRun, WorkInv, InRun, Quiet, TheWork, hwVars,
       threadVars, RunFails
<1>5. TimerInv'
  BY DEF RunInv, OneRun, TimerInv, InRun, hwVars, RunFails
<1>6. InterruptsMatched'
  BY DEF RunInv, InterruptsMatched, ServedNow, threadVars, RunFails
<1> QED BY <1>1, <1>2, <1>3, <1>4, <1>5, <1>6 DEF RunInv

LEMMA RunStartsStep ==
  ASSUME RunAssumption, ~ Late, RunInv, NEW v \in Vdec, RunStarts(v)
  PROVE  RunInv'
<1>1. TypeOK'
  BY DEF RunInv, InterruptInv, TypeOK, Result, threadVars, queueVars, RunStarts,
       SetResult, start_process_time
<1>2. OneRun'
  BY DEF RunInv, OneRun, RunStarts
<1>3. InterruptInv'
  BY DEF RunInv, InterruptInv, InRun, threadVars, RunStarts
<1>4. WorkInv'
  BY DEF RunInv, TypeOK, WorkInv, InRun, NoWorkNow, queueVars, RunStarts
<1>5. TimerInv'
  BY DEF RunInv, OneRun, TimerInv, InRun, NoWorkNow, queueVars, RunStarts
<1>6. InterruptsMatched'
  BY DEF RunInv, InterruptsMatched, ServedNow, threadVars, RunStarts
<1> QED BY <1>1, <1>2, <1>3, <1>4, <1>5, <1>6 DEF RunInv

LEMMA RetireStep ==
  ASSUME RunAssumption, ~ Late, RunInv, NEW v \in Vdec, Retire(v)
  PROVE  RunInv'
<1>1. TypeOK'
  BY DEF RunInv, OneRun, TypeOK, hwVars, threadVars, queueVars, driverVars, Retire
<1>2. OneRun'
  BY DEF RunInv, TypeOK, OneRun, Quiet, NoWorkNow, hwVars, threadVars, queueVars,
       Retire
<1>3. InterruptInv'
  <2>1. v \notin active
    BY DEF Retire
  <2>2. CASE thread \in {"woken", "handle", "queue"}
    <3>1. ServedNow # v /\ active_vdec # v /\ InRun(ServedNow)
      BY <2>1, <2>2 DEF RunInv, InterruptInv, InRun, ServedNow
    <3>2. ServedNow' = ServedNow /\ active_vdec' = active_vdec
      BY <3>1 DEF Retire, ServedNow, threadVars
    <3> QED BY <3>1, <3>2, <2>2 DEF RunInv, InterruptInv, Retire, InRun, NoWorkNow, ServedNow,
               hwVars, threadVars, queueVars, driverVars
  <2>3. CASE thread \in {"idle", "count"}
    BY <2>3 DEF RunInv, InterruptInv, Retire, InRun, NoWorkNow, ServedNow,
             hwVars, threadVars, queueVars, driverVars
  <2> QED BY <2>2, <2>3 DEF RunInv, TypeOK
<1>4. WorkInv'
  BY DEF RunInv, OneRun, WorkInv, InRun, Quiet, NoWorkNow, hwVars, threadVars,
       queueVars, driverVars, Retire
<1>5. TimerInv'
  BY DEF RunInv, TimerInv, Executing, InRun, Quiet, NoWorkNow, hwVars, threadVars,
       queueVars, driverVars, Retire
<1>6. InterruptsMatched'
  BY DEF RunInv, InterruptInv, InterruptsMatched, InRun, ServedNow, threadVars, Retire
<1> QED BY <1>1, <1>2, <1>3, <1>4, <1>5, <1>6 DEF RunInv

LEMMA HwReportsStep ==
  ASSUME RunAssumption, ~ Late, RunInv, NEW s \in Report, HwReports(s)
  PROVE  RunInv'
<1>1. TypeOK'
  BY DEF RunInv, TypeOK, schedVars, threadVars, queueVars, driverVars, HwReports
<1>2. OneRun'
  BY DEF RunInv, OneRun, schedVars, HwReports
<1>3. InterruptInv'
  BY DEF RunInv, TypeOK, InterruptInv, WorkInv, NoWorkNow, Report, threadVars,
       queueVars, HwReports
<1>4. WorkInv'
  BY DEF RunInv, WorkInv, NoWorkNow, queueVars, HwReports
<1>5. TimerInv'
  BY DEF RunInv, TimerInv, InRun, schedVars, queueVars, driverVars, HwReports
<1>6. InterruptsMatched'
  BY DEF RunInv, InterruptsMatched, ServedNow, schedVars, threadVars, HwReports
<1> QED BY <1>1, <1>2, <1>3, <1>4, <1>5, <1>6 DEF RunInv

LEMMA HwHangsStep ==
  ASSUME RunAssumption, ~ Late, RunInv, HwHangs
  PROVE  RunInv'
<1>1. TypeOK'
  BY DEF RunInv, TypeOK, schedVars, threadVars, queueVars, driverVars, HwHangs
<1>2. OneRun'
  BY DEF RunInv, OneRun, schedVars, HwHangs
<1>3. InterruptInv'
  BY DEF RunInv, InterruptInv, Report, threadVars, HwHangs
<1>4. WorkInv'
  BY DEF RunInv, WorkInv, NoWorkNow, queueVars, HwHangs
<1>5. TimerInv'
  BY DEF RunInv, TypeOK, InterruptInv, WorkInv, TimerInv, InRun, Quiet, NoWorkNow,
       Report, schedVars, threadVars, queueVars, driverVars, HwHangs
<1>6. InterruptsMatched'
  BY DEF RunInv, InterruptsMatched, ServedNow, schedVars, threadVars, HwHangs
<1> QED BY <1>1, <1>2, <1>3, <1>4, <1>5, <1>6 DEF RunInv

LEMMA vdec_isrStep ==
  ASSUME RunAssumption, ~ Late, RunInv, vdec_isr
  PROVE  RunInv'
<1>1. TypeOK'
  <2>1. lag[active_vdec] = 0 /\ active_vdec \in Vdec
    BY DEF RunInv, TypeOK, InterruptsMatched, vdec_isr
  <2>2. lag' \in [Vdec -> 0..1]
    BY <2>1 DEF RunInv, TypeOK, vdec_isr
  <2> QED BY <2>2 DEF RunInv, OneRun, InterruptInv, WorkInv, NoWorkNow, TypeOK, Work, NoWork,
       Report, queueVars, vdec_isr
<1>2. OneRun'
  BY DEF RunInv, OneRun, Quiet, vdec_isr
<1>3. InterruptInv'
  BY DEF RunInv, TypeOK, OneRun, InterruptInv, InRun, NoWorkNow, ServedNow, queueVars,
       vdec_isr
<1>4. WorkInv'
  BY DEF RunInv, WorkInv, Quiet, NoWorkNow, queueVars, vdec_isr
<1>5. TimerInv'
  BY DEF RunInv, TimerInv, InRun, Quiet, queueVars, vdec_isr
<1>6. InterruptsMatched'
  BY DEF RunInv, TypeOK, InterruptsMatched, ServedNow, vdec_isr
<1> QED BY <1>1, <1>2, <1>3, <1>4, <1>5, <1>6 DEF RunInv

LEMMA ThreadStartsStep ==
  ASSUME RunAssumption, ~ Late, RunInv, ThreadStarts
  PROVE  RunInv'
<1>1. TypeOK'
  BY DEF RunInv, TypeOK, schedVars, hwVars, queueVars, driverVars, ThreadStarts
<1>2. OneRun'
  BY DEF RunInv, OneRun, Quiet, schedVars, hwVars, ThreadStarts
<1>3. InterruptInv'
  BY DEF RunInv, InterruptInv, InRun, NoWorkNow, ServedNow, schedVars, hwVars,
       queueVars, driverVars, ThreadStarts
<1>4. WorkInv'
  BY DEF RunInv, WorkInv, Quiet, NoWorkNow, schedVars, hwVars, queueVars, driverVars,
       ThreadStarts
<1>5. TimerInv'
  BY DEF RunInv, TimerInv, InRun, Quiet, schedVars, hwVars, queueVars, driverVars,
       ThreadStarts
<1>6. InterruptsMatched'
  BY DEF RunInv, InterruptsMatched, ServedNow, schedVars, ThreadStarts
<1> QED BY <1>1, <1>2, <1>3, <1>4, <1>5, <1>6 DEF RunInv

LEMMA ThreadHandlesStep ==
  ASSUME RunAssumption, ~ Late, RunInv, ThreadHandles
  PROVE  RunInv'
<1>1. TypeOK'
  <2>0. served \in Vdec
    BY DEF ThreadHandles, RunInv, InterruptInv, ServedNow
  <2>1. CASE GoesOn(served)
    <3>1. timed' \in [Vdec -> BOOLEAN] /\ dpb_status' \in Report \cup {"search", "waits"}
      <4>1. CASE start_process_time(served) /\ dpb_status' = "search"
        BY <4>1 DEF start_process_time, RunInv, TypeOK
      <4>2. CASE UNCHANGED <<timed, dpb_status>>
        BY <4>2 DEF RunInv, TypeOK
      <4> QED BY <2>1, <4>1, <4>2 DEF GoesOn
    <3>2. thread' = "count" /\ UNCHANGED <<cpu, reports, dec_result>>
      BY <2>1 DEF GoesOn
    <3> QED BY <3>1, <3>2 DEF ThreadHandles, RunInv, TypeOK, schedVars, queueVars
  <2>2. CASE Decides(served)
    <3>1. timed' \in [Vdec -> BOOLEAN]
      BY <2>0, <2>2 DEF Decides, reset_process_time, RunInv, TypeOK
    <3>2. dec_result' \in [Vdec -> Result]
      <4>1. \E r \in {"CONFIG_PARAM", "NEED_MORE_BUFFER", "DONE", "AGAIN"} : SetResult(served, r)
        BY <2>2 DEF Decides
      <4> QED BY <4>1 DEF SetResult, Result, RunInv, TypeOK
    <3>3. cpu' \in {"off", "on", "hung"} /\ reports' \in 0..MaxReports /\ thread' = "queue"
          /\ dpb_status' \in Report \cup {"search", "waits"}
      BY <2>2 DEF Decides, amvdec_stop, RunInv, TypeOK, RunAssumption
    <3> QED BY <3>1, <3>2, <3>3 DEF ThreadHandles, RunInv, TypeOK, schedVars, queueVars
  <2> QED BY <2>1, <2>2 DEF ThreadHandles
<1>2. OneRun'
  BY DEF RunInv, OneRun, Quiet, schedVars, ThreadHandles, GoesOn, Decides, amvdec_stop
<1>3. InterruptInv'
  BY DEF RunInv, TypeOK, InterruptInv, InRun, NoWorkNow, ServedNow, schedVars,
       queueVars, ThreadHandles, GoesOn, Decides, SetResult, amvdec_stop
<1>4. WorkInv'
  BY DEF RunInv, TypeOK, WorkInv, Quiet, NoWorkNow, queueVars, ThreadHandles
<1>5. TimerInv'
  BY DEF RunInv, TimerInv, InRun, Quiet, schedVars, queueVars, ThreadHandles, GoesOn,
       Decides, amvdec_stop
<1>6. InterruptsMatched'
  BY DEF RunInv, InterruptsMatched, ServedNow, schedVars, ThreadHandles, GoesOn,
       Decides
<1> QED BY <1>1, <1>2, <1>3, <1>4, <1>5, <1>6 DEF RunInv

LEMMA ThreadQueuesStep ==
  ASSUME RunAssumption, ~ Late, RunInv, ThreadQueues
  PROVE  RunInv'
<1>0. queue' = <<TheWork(served)>> /\ queue' \in Seq(Work)
  <2>1. TheWork(served) \in Work /\ queue = <<>>
    BY DEF RunInv, TypeOK, OneRun, InterruptInv, TimerInv, NoWorkNow, ServedNow, Work,
         TheWork, TimeoutWork, ThreadQueues
  <2>2. vdec_schedule_work(TheWork(served))
    BY <2>1 DEF ThreadQueues, Pending
  <2> QED BY <2>1, <2>2, Scheduled
<1>1. TypeOK'
  BY <1>0 DEF RunInv, TypeOK, schedVars, hwVars, driverVars, ThreadQueues
<1>2. OneRun'
  BY DEF RunInv, OneRun, Quiet, schedVars, hwVars, ThreadQueues
<1>3. InterruptInv'
  BY DEF RunInv, InterruptInv, hwVars, ThreadQueues
<1>4. WorkInv'
  BY <1>0 DEF RunInv, TypeOK, InterruptInv, WorkInv, InRun, Quiet, TheWork, schedVars,
       hwVars, driverVars, ThreadQueues
<1>5. TimerInv'
  BY DEF RunInv, TimerInv, InRun, Quiet, schedVars, hwVars, driverVars, ThreadQueues
<1>6. InterruptsMatched'
  BY DEF RunInv, InterruptsMatched, ServedNow, schedVars, ThreadQueues
<1> QED BY <1>1, <1>2, <1>3, <1>4, <1>5, <1>6 DEF RunInv

LEMMA ThreadCountsStep ==
  ASSUME RunAssumption, ~ Late, RunInv, ThreadCounts
  PROVE  RunInv'
<1>1. TypeOK'
  <2>1. served \in Vdec /\ lag[served] = 1
    BY DEF RunInv, InterruptInv, InterruptsMatched, ServedNow, ThreadCounts
  <2>2. lag' \in [Vdec -> 0..1]
    BY <2>1 DEF RunInv, TypeOK, ThreadCounts
  <2> QED BY <2>2 DEF RunInv, InterruptInv, TypeOK, hwVars, queueVars, driverVars, ThreadCounts
<1>2. OneRun'
  BY DEF RunInv, OneRun, Quiet, NoWorkNow, hwVars, queueVars, ThreadCounts
<1>3. InterruptInv'
  BY DEF RunInv, InterruptInv, NoWorkNow, hwVars, queueVars, ThreadCounts
<1>4. WorkInv'
  BY DEF RunInv, WorkInv, InRun, Quiet, NoWorkNow, hwVars, queueVars, driverVars,
       ThreadCounts
<1>5. TimerInv'
  BY DEF RunInv, TimerInv, Executing, InRun, Quiet, NoWorkNow, hwVars, queueVars,
       driverVars, ThreadCounts
<1>6. InterruptsMatched'
  BY DEF RunInv, TypeOK, InterruptsMatched, ServedNow, ThreadCounts
<1> QED BY <1>1, <1>2, <1>3, <1>4, <1>5, <1>6 DEF RunInv

LEMMA TimerExpiresStep ==
  ASSUME RunAssumption, ~ Late, RunInv, NEW v \in Vdec, TimerExpires(v)
  PROVE  RunInv'
<1>1. TypeOK'
  BY DEF RunInv, TypeOK, schedVars, hwVars, threadVars, queueVars, TimerExpires,
       reset_process_time
<1>2. OneRun'
  BY DEF RunInv, OneRun, schedVars, TimerExpires
<1>3. InterruptInv'
  BY DEF RunInv, InterruptInv, hwVars, threadVars, TimerExpires
<1>4. WorkInv'
  BY DEF RunInv, WorkInv, NoWorkNow, queueVars, TimerExpires
<1>5. TimerInv'
  BY DEF RunInv, TimerInv, Executing, InRun, Quiet, NoWorkNow, schedVars, hwVars,
       threadVars, queueVars, TimerExpires, AnyBusy, Busy
<1>6. InterruptsMatched'
  BY DEF RunInv, InterruptsMatched, ServedNow, schedVars, threadVars, TimerExpires
<1> QED BY <1>1, <1>2, <1>3, <1>4, <1>5, <1>6 DEF RunInv

LEMMA TimeoutChecksStep ==
  ASSUME RunAssumption, ~ Late, RunInv, NEW v \in Vdec, TimeoutChecks(v)
  PROVE  RunInv'
<1>1. TypeOK'
  BY DEF RunInv, TypeOK, schedVars, hwVars, threadVars, queueVars, TimeoutChecks
<1>2. OneRun'
  BY DEF RunInv, OneRun, TimerInv, schedVars, TimeoutChecks
<1>3. InterruptInv'
  BY DEF RunInv, InterruptInv, TimerInv, hwVars, threadVars, TimeoutChecks
<1>4. WorkInv'
  BY DEF RunInv, WorkInv, TimerInv, NoWorkNow, queueVars, TimeoutChecks
<1>5. TimerInv'
  BY DEF RunInv, TimerInv, Executing, InRun, Quiet, NoWorkNow, schedVars, hwVars,
       threadVars, queueVars, TimeoutChecks
<1>6. InterruptsMatched'
  BY DEF RunInv, InterruptsMatched, ServedNow, schedVars, threadVars, TimeoutChecks
<1> QED BY <1>1, <1>2, <1>3, <1>4, <1>5, <1>6 DEF RunInv

LEMMA TimeoutStopsStep ==
  ASSUME RunAssumption, ~ Late, RunInv, NEW v \in Vdec, TimeoutStops(v)
  PROVE  RunInv'
<1>1. TypeOK'
  BY DEF RunInv, TypeOK, Result, schedVars, threadVars, queueVars, TimeoutStops,
       amvdec_stop, SetResult
<1>2. OneRun'
  BY DEF RunInv, OneRun, TimerInv, schedVars, TimeoutStops
<1>3. InterruptInv'
  BY DEF RunInv, InterruptInv, TimerInv, threadVars, TimeoutStops
<1>4. WorkInv'
  BY DEF RunInv, WorkInv, InRun, Quiet, schedVars, threadVars, queueVars,
       TimeoutStops, amvdec_stop, SetResult
<1>5. TimerInv'
  BY DEF RunInv, TypeOK, TimerInv, Executing, InRun, Quiet, NoWorkNow, schedVars,
       threadVars, queueVars, TimeoutStops, amvdec_stop, SetResult
<1>6. InterruptsMatched'
  BY DEF RunInv, InterruptsMatched, ServedNow, schedVars, threadVars, TimeoutStops
<1> QED BY <1>1, <1>2, <1>3, <1>4, <1>5, <1>6 DEF RunInv

LEMMA TimeoutQueuesStep ==
  ASSUME RunAssumption, ~ Late, RunInv, NEW v \in Vdec, TimeoutQueues(v)
  PROVE  RunInv'
<1>0. queue' = <<TimeoutWork(v)>> /\ queue' \in Seq(Work)
  <2>1. TimeoutWork(v) \in Work /\ queue = <<>>
    BY DEF RunInv, TypeOK, OneRun, InterruptInv, TimerInv, NoWorkNow, ServedNow, Work,
         TheWork, TimeoutWork, TimeoutQueues
  <2>2. vdec_schedule_work(TimeoutWork(v))
    BY <2>1 DEF TimeoutQueues, Pending
  <2> QED BY <2>1, <2>2, Scheduled
<1>1. TypeOK'
  BY <1>0 DEF TimeoutQueues, RunInv, TypeOK, schedVars, hwVars, threadVars
<1>2. OneRun'
  BY DEF RunInv, OneRun, TimerInv, InRun, schedVars, TimeoutQueues
<1>3. InterruptInv'
  BY DEF RunInv, InterruptInv, TimerInv, Quiet, hwVars, threadVars, TimeoutQueues
<1>4. WorkInv'
  BY <1>0 DEF RunInv, TypeOK, WorkInv, TimerInv, Executing, InRun, Quiet, Work,
       TheWork, TimeoutWork, schedVars, hwVars, threadVars, TimeoutQueues
<1>5. TimerInv'
  BY DEF RunInv, TypeOK, TimerInv, InRun, schedVars, hwVars, TimeoutQueues
<1>6. InterruptsMatched'
  BY DEF RunInv, InterruptsMatched, ServedNow, schedVars, threadVars, TimeoutQueues
<1> QED BY <1>1, <1>2, <1>3, <1>4, <1>5, <1>6 DEF RunInv

LEMMA WorkBeginsStep ==
  ASSUME RunAssumption, ~ Late, RunInv, WorkBegins
  PROVE  RunInv'
<1>0. PICK w \in Work : /\ queue = <<w>> /\ Len(queue) = 1 /\ queue[1] = w
                        /\ Head(queue) = w /\ Tail(queue) = <<>> /\ w.of = active_vdec
  <2>1. PICK k \in {"work", "timeout"} : queue = <<[of |-> active_vdec, kind |-> k]>> /\ InRun(active_vdec)
    BY DEF RunInv, WorkInv, WorkBegins
  <2>2. active_vdec \in Vdec
    BY <2>1 DEF RunInv, OneRun, TypeOK, InRun
  <2>3. [of |-> active_vdec, kind |-> k] \in Work
    BY <2>2 DEF Work
  <2> QED BY <2>1, <2>3, Alone
<1>1. TypeOK'
  <2>1. queue' \in Seq(Work)
    BY <1>0 DEF WorkBegins
  <2>2. /\ worker' \in {"idle", "act"} /\ work' \in Work \cup {NoWork}
        /\ timeout_processing' \in [Vdec -> BOOLEAN]
    <3>1. CASE UNCHANGED <<worker, work, timeout_processing>>
      BY <3>1 DEF WorkBegins, RunInv, TypeOK
    <3>2. CASE /\ worker' = "act" /\ work' = w
               /\ timeout_processing' = [timeout_processing EXCEPT ![w.of] = @ \/ w.kind = "timeout"]
      BY <3>2 DEF RunInv, TypeOK
    <3> QED BY <1>0, <3>1, <3>2 DEF WorkBegins
  <2> QED BY <2>1, <2>2 DEF WorkBegins, RunInv, TypeOK, schedVars, hwVars, threadVars
<1>2. OneRun'
  BY DEF RunInv, OneRun, NoWorkNow, schedVars, hwVars, WorkBegins
<1>3. InterruptInv'
  BY DEF RunInv, InterruptInv, NoWorkNow, hwVars, threadVars, WorkBegins
<1>4. WorkInv'
  BY <1>0 DEF RunInv, WorkInv, InRun, Quiet, NoWorkNow, schedVars, hwVars, threadVars,
       WorkBegins
<1>5. TimerInv'
  BY DEF RunInv, TimerInv, InRun, NoWorkNow, schedVars, hwVars, WorkBegins
<1>6. InterruptsMatched'
  BY DEF RunInv, InterruptsMatched, ServedNow, schedVars, threadVars, WorkBegins
<1> QED BY <1>1, <1>2, <1>3, <1>4, <1>5, <1>6 DEF RunInv

LEMMA WorkActsStep ==
  ASSUME RunAssumption, ~ Late, RunInv, WorkActs
  PROVE  RunInv'
<1>1. TypeOK'
  <2>0. work \in Work /\ work.of \in Vdec /\ queue = <<>>
    BY DEF WorkActs, RunInv, TypeOK, WorkInv, Work
  <2> DEFINE v == work.of
  <2>1. /\ cpu' \in {"off", "on", "hung"} /\ reports' \in 0..MaxReports
        /\ dpb_status' \in Report \cup {"search", "waits"}
        /\ worker' \in {"idle", "mask"} /\ work' \in {work, NoWork}
    BY DEF WorkActs, WorkConfigures, WorkWaits, WorkRetries, WorkStops, Requeue, Return, Proceed,
         amvdec_stop,
           RunInv, TypeOK, RunAssumption
  <2>2. dec_result' \in [Vdec -> Result]
    <3>1. dec_result' = dec_result \/ \E r \in {"ERROR_DATA", "EOS", "AGAIN", "NEED_MORE_BUFFER"} : SetResult(v, r)
      BY DEF WorkActs, WorkConfigures, WorkWaits, WorkRetries, WorkStops, Requeue
    <3> QED BY <2>0, <3>1 DEF SetResult, Result, RunInv, TypeOK
  <2>3. timed' \in [Vdec -> BOOLEAN] /\ eos' \in [Vdec -> BOOLEAN]
    BY <2>0 DEF WorkActs, WorkConfigures, WorkWaits, WorkRetries, WorkStops, Requeue,
         start_process_time, RunInv, TypeOK
  <2>4. queue' \in Seq(Work)
    <3>1. TheWork(v) \in Work
      BY <2>0 DEF TheWork, Work
    <3>2. CASE queue' = queue
      BY <3>2 DEF RunInv, TypeOK
    <3>3. CASE vdec_schedule_work(TheWork(v))
      BY <2>0, <3>1, <3>3, Scheduled
    <3> QED BY <3>2, <3>3 DEF WorkActs, WorkConfigures, WorkWaits, WorkRetries, WorkStops, Requeue
  <2> QED BY <2>0, <2>1, <2>2, <2>3, <2>4 DEF WorkActs, RunInv, TypeOK, schedVars, threadVars
<1>2. OneRun'
  BY DEF RunInv, OneRun, NoWorkNow, schedVars, WorkActs, WorkConfigures, WorkWaits, WorkRetries,
       WorkStops, amvdec_stop
<1>3. InterruptInv'
  BY DEF RunInv, InterruptInv, NoWorkNow, threadVars, WorkActs
<1>4. WorkInv'
  BY DEF RunInv, TypeOK, WorkInv, InRun, Quiet, NoWorkNow, TheWork, schedVars,
       threadVars, WorkActs, WorkConfigures, WorkWaits, WorkRetries, WorkStops, Requeue,
       SetResult, vdec_schedule_work, amvdec_stop, Return, Proceed
<1>5. TimerInv'
  BY DEF RunInv, TimerInv, InRun, NoWorkNow, schedVars, WorkActs, WorkConfigures,
       WorkWaits, WorkRetries, WorkStops, Requeue, amvdec_stop, Return, Proceed
<1>6. InterruptsMatched'
  BY DEF RunInv, InterruptsMatched, ServedNow, schedVars, threadVars, WorkActs
<1> QED BY <1>1, <1>2, <1>3, <1>4, <1>5, <1>6 DEF RunInv

LEMMA WorkMasksStep ==
  ASSUME RunAssumption, ~ Late, RunInv, WorkMasks
  PROVE  RunInv'
<1>1. TypeOK'
  BY DEF RunInv, WorkInv, TypeOK, schedVars, threadVars, WorkMasks, Proceed
<1>2. OneRun'
  BY DEF RunInv, OneRun, NoWorkNow, schedVars, WorkMasks
<1>3. InterruptInv'
  BY DEF RunInv, InterruptInv, NoWorkNow, threadVars, WorkMasks
<1>4. WorkInv'
  BY DEF RunInv, WorkInv, InRun, Quiet, schedVars, threadVars, WorkMasks, Proceed
<1>5. TimerInv'
  BY DEF RunInv, TypeOK, TimerInv, InRun, NoWorkNow, schedVars, WorkMasks, Proceed
<1>6. InterruptsMatched'
  BY DEF RunInv, InterruptsMatched, ServedNow, schedVars, threadVars, WorkMasks
<1> QED BY <1>1, <1>2, <1>3, <1>4, <1>5, <1>6 DEF RunInv

LEMMA WorkFinishesStep ==
  ASSUME RunAssumption, ~ Late, RunInv, WorkFinishes
  PROVE  RunInv'
<1>1. TypeOK'
  <2>1. /\ status' \in [Vdec -> {"CONNECTED", "ACTIVE", "DISCONNECTED"}] /\ active' \in SUBSET Vdec
        /\ worker' \in {"idle", "act", "mask", "finish", "tail"} /\ work' \in Work \cup {NoWork}
    <3>1. CASE Return /\ UNCHANGED <<active, status>>
      BY <3>1 DEF RunInv, TypeOK, Return
    <3>2. CASE /\ active' = active \ {work.of}
               /\ status' = [status EXCEPT ![work.of] = "CONNECTED"]
               /\ Proceed("tail")
      BY <3>2 DEF RunInv, TypeOK, Proceed
    <3> QED BY <3>1, <3>2 DEF WorkFinishes
  <2> QED BY <2>1 DEF RunInv, TypeOK, WorkFinishes, hwVars, threadVars, driverVars
<1>2. OneRun'
  BY DEF RunInv, TypeOK, OneRun, InterruptInv, WorkInv, TimerInv, InterruptsMatched,
       InRun, hwVars, WorkFinishes
<1>3. InterruptInv'
  BY DEF RunInv, InterruptInv, NoWorkNow, hwVars, threadVars, WorkFinishes
<1>4. WorkInv'
  BY DEF RunInv, WorkInv, hwVars, WorkFinishes, Return, Proceed
<1>5. TimerInv'
  BY DEF RunInv, TimerInv, InRun, NoWorkNow, hwVars, driverVars, WorkFinishes, Return,
       Proceed
<1>6. InterruptsMatched'
  BY DEF RunInv, InterruptsMatched, ServedNow, threadVars, WorkFinishes
<1> QED BY <1>1, <1>2, <1>3, <1>4, <1>5, <1>6 DEF RunInv

LEMMA WorkReturnsStep ==
  ASSUME RunAssumption, ~ Late, RunInv, WorkReturns
  PROVE  RunInv'
<1>1. TypeOK'
  BY DEF RunInv, WorkInv, TypeOK, Work, schedVars, hwVars, threadVars, WorkReturns,
       Return
<1>2. OneRun'
  BY DEF RunInv, OneRun, Quiet, NoWorkNow, schedVars, hwVars, threadVars, WorkReturns,
       Return
<1>3. InterruptInv'
  BY DEF RunInv, InterruptInv, InRun, NoWorkNow, ServedNow, schedVars, hwVars,
       threadVars, WorkReturns, Return
<1>4. WorkInv'
  BY DEF RunInv, WorkInv, InRun, Quiet, NoWorkNow, schedVars, hwVars, threadVars,
       WorkReturns, Return
<1>5. TimerInv'
  BY DEF RunInv, TimerInv, Executing, InRun, Quiet, NoWorkNow, schedVars, hwVars,
       threadVars, WorkReturns, Return
<1>6. InterruptsMatched'
  BY DEF RunInv, InterruptsMatched, ServedNow, schedVars, threadVars, WorkReturns
<1> QED BY <1>1, <1>2, <1>3, <1>4, <1>5, <1>6 DEF RunInv

LEMMA DisconnectStep ==
  ASSUME RunAssumption, ~ Late, RunInv, NEW v \in Vdec, Disconnect(v)
  PROVE  RunInv'
<1>1. TypeOK'
  BY DEF RunInv, TypeOK, hwVars, threadVars, queueVars, driverVars, Disconnect
<1>2. OneRun'
  BY DEF RunInv, OneRun, Quiet, NoWorkNow, hwVars, threadVars, queueVars, Disconnect
<1>3. InterruptInv'
  BY DEF RunInv, InterruptInv, InRun, NoWorkNow, ServedNow, hwVars, threadVars,
       queueVars, driverVars, Disconnect
<1>4. WorkInv'
  BY DEF RunInv, WorkInv, InRun, Quiet, NoWorkNow, hwVars, threadVars, queueVars,
       driverVars, Disconnect
<1>5. TimerInv'
  BY DEF RunInv, TimerInv, Executing, InRun, Quiet, NoWorkNow, hwVars, threadVars,
       queueVars, driverVars, Disconnect
<1>6. InterruptsMatched'
  BY DEF RunInv, InterruptsMatched, ServedNow, threadVars, Disconnect
<1> QED BY <1>1, <1>2, <1>3, <1>4, <1>5, <1>6 DEF RunInv

LEMMA ResetStep ==
  ASSUME RunAssumption, ~ Late, RunInv, NEW v \in Vdec, Reset(v)
  PROVE  RunInv'
<1>0. queue' = queue
  <2>1. v \notin active
    BY DEF RunInv, OneRun, Reset
  <2>2. ~ Pending(TheWork(v))
    BY <2>1 DEF RunInv, WorkInv, InRun, Pending, TheWork
  <2> QED BY <2>2 DEF Reset, ResetDriver, cancel_work
<1>1. TypeOK'
  <2>1. /\ timer' \in [Vdec -> {"off", "armed", "check", "stop", "recheck"}]
        /\ timed' \in [Vdec -> BOOLEAN] /\ eos' \in [Vdec -> BOOLEAN]
        /\ user' \in [Vdec -> {"use", "wait", "reset"}]
    BY DEF Reset, ResetDriver, reset_process_time, RunInv, TypeOK
  <2>2. /\ status' \in [Vdec -> {"CONNECTED", "ACTIVE", "DISCONNECTED"}]
        /\ next_status' \in [Vdec -> {"CONNECTED", "DISCONNECTED"}]
    BY DEF Reset, vdec_connect, RunInv, TypeOK
  <2> QED BY <1>0, <2>1, <2>2 DEF Reset, RunInv, TypeOK, hwVars, threadVars
<1>2. OneRun'
  BY DEF RunInv, TypeOK, OneRun, Quiet, NoWorkNow, hwVars, threadVars, Reset,
       ResetDriver, vdec_connect, cancel_work, Pending
<1>3. InterruptInv'
  BY DEF RunInv, InterruptInv, InRun, NoWorkNow, ServedNow, hwVars, threadVars, Reset,
       ResetDriver, cancel_work, Pending
<1>4. WorkInv'
  BY <1>0 DEF RunInv, WorkInv, InRun, Quiet, NoWorkNow, hwVars, threadVars, Reset
<1>5. TimerInv'
  <2>1. v \notin active /\ timer[v] = "off"
    BY DEF Reset, RunInv, OneRun, TimerInv, InRun, TypeOK
  <2>2. timer' = timer
    BY <2>1 DEF Reset, ResetDriver, RunInv, TypeOK
  <2> QED BY <1>0, <2>2
          DEF Reset, RunInv, TimerInv, InRun, Quiet, NoWorkNow, Executing, TheWork, TimeoutWork,
             hwVars, threadVars
<1>6. InterruptsMatched'
  BY DEF RunInv, InterruptsMatched, ServedNow, threadVars, Reset
<1> QED BY <1>1, <1>2, <1>3, <1>4, <1>5, <1>6 DEF RunInv

-----------------------------------------------------------------------------
LEMMA RunInit == RunAssumption /\ Init => RunInv
<1> SUFFICES ASSUME RunAssumption, Init PROVE RunInv
  OBVIOUS
<1>1. TypeOK
  BY DEF RunAssumption, Init, TypeOK, NoWork, Result
<1> QED BY <1>1
        DEF RunAssumption, Init, RunInv, OneRun, InterruptInv, WorkInv, TimerInv, InterruptsMatched,
             NoWorkNow, Quiet, ServedNow, InRun

LEMMA RunStep ==
  ASSUME RunAssumption, ~ Late, RunInv, [Next]_vars
  PROVE  RunInv'
<1>1. CASE UNCHANGED vars
  <2> USE <1>1 DEF vars, schedVars, hwVars, threadVars, queueVars, driverVars, RunInv
  <2>1. TypeOK'
    BY DEF TypeOK
  <2>2. OneRun'
    BY DEF OneRun, NoWorkNow, Quiet
  <2>3. InterruptInv'
    BY DEF InterruptInv, NoWorkNow, ServedNow, InRun
  <2>4. WorkInv'
    BY DEF WorkInv, NoWorkNow, Quiet, InRun
  <2>5. TimerInv'
    BY DEF TimerInv, NoWorkNow, Quiet, InRun, Executing, TheWork, TimeoutWork
  <2>6. InterruptsMatched'
    BY DEF InterruptsMatched, ServedNow
  <2> QED BY <2>1, <2>2, <2>3, <2>4, <2>5, <2>6
<1>2. CASE Hardware \/ vdec_isr \/ Thread
  BY <1>2, HwReportsStep, HwHangsStep, vdec_isrStep, ThreadStartsStep, ThreadHandlesStep,
     ThreadQueuesStep, ThreadCountsStep DEF Hardware, Thread
<1>3. CASE Worker
  BY <1>3, WorkBeginsStep, WorkActsStep, WorkMasksStep, WorkFinishesStep, WorkReturnsStep
       DEF Worker
<1>4. ASSUME NEW v \in Vdec, CoreThread(v) \/ Timer(v) \/ Disconnect(v) \/ Reset(v)
      PROVE  RunInv'
  BY <1>4, GrantStep, RunFailsStep, RunStartsStep, RetireStep, TimerExpiresStep,
     TimeoutChecksStep, TimeoutStopsStep, TimeoutQueuesStep, DisconnectStep, ResetStep
     DEF CoreThread, Timer, TimerStep
<1> QED BY <1>1, <1>2, <1>3, <1>4 DEF Next

(* One party at a time is responsible for a run: the inductive invariant   *)
(* holds for every set of instances when no time-out is late.              *)
THEOREM Responsible ==
  ASSUME RunAssumption, ~ Late
  PROVE  Spec => []RunInv
<1>1. Init => RunInv
  BY RunInit
<1>2. RunInv /\ [Next]_vars => RunInv'
  BY RunStep
<1> QED BY <1>1, <1>2, PTL DEF Spec

(* Type correctness of the run of a decoder (vdec.c, vmh264.c).            *)
THEOREM RunTyped ==
  ASSUME RunAssumption, ~ Late
  PROVE  Spec => []TypeOK
<1>1. RunInv => TypeOK
  BY DEF RunInv
<1> QED BY <1>1, Responsible, PTL

(* Nothing is left of the run before when run() is called                  *)
(* (vh264_work_implement, run_ready).                                      *)
THEOREM StartsClean ==
  ASSUME RunAssumption, ~ Late
  PROVE  Spec => []RunStartsClean
<1>1. RunInv => RunStartsClean
  BY DEF RunInv, OneRun, NoWorkNow, RunStartsClean, LeftOver, Pending
<1> QED BY <1>1, Responsible, PTL

(* The hardware works only in a run of the active instance (amvdec_stop in *)
(* vh264_work_implement).                                                  *)
THEOREM Owned ==
  ASSUME RunAssumption, ~ Late
  PROVE  Spec => []HardwareOwned
<1>1. RunInv => HardwareOwned
  BY DEF RunInv, OneRun, HardwareOwned
<1> QED BY <1>1, Responsible, PTL

(* irq_cnt and irq_thread_cnt of an instance differ exactly while its      *)
(* interrupt is served (vdec_isr, vdec_thread_isr).                        *)
THEOREM Matched ==
  ASSUME RunAssumption, ~ Late
  PROVE  Spec => []InterruptsMatched
<1>1. RunInv => InterruptsMatched
  BY DEF RunInv
<1> QED BY <1>1, Responsible, PTL

(* An interrupt is handled in the run it belongs to (vdec_thread_isr).     *)
THEOREM InItsRun ==
  ASSUME RunAssumption, ~ Late
  PROVE  Spec => []HandledInItsRun
<1>1. RunInv => HandledInItsRun
  BY DEF RunInv, InterruptInv, InRun, HandledInItsRun, ServedNow
<1> QED BY <1>1, Responsible, PTL

=============================================================================
