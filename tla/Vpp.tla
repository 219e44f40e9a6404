--------------------------------- MODULE Vpp ---------------------------------
(***************************************************************************)
(* The way of a picture through a V4L2 decoder with post processing, and   *)
(* the end and the new start of the capture stream (a seek, or a change of *)
(* resolution): the capture buffers and their tokens (aml_vcodec_dec.c),   *)
(* the H.264 decoder's use of them                                         *)
(* (decoder_v4l/h264_multi/vmh264.c), the post processing thread and its   *)
(* fifos (aml_vcodec_vpp.c), the hardware post processor "DI" with its two *)
(* callbacks, the capture thread and the user.  Each buffer has a task     *)
(* chain (module TaskChain).                                               *)
(*                                                                         *)
(* Threads: the decoder's (Decoder), the post processor's (Thread), the    *)
(* DI's callbacks (FillDone, Submit, PutCapture; EmptyDone, Recycle), the  *)
(* capture worker (WorkerGet, Post) and the user's (Queue, Stream).  A     *)
(* callback or the worker that has seen the stream on may go on when it    *)
(* has ended.                                                              *)
(*                                                                         *)
(* An input buffer of the post processor is only a place for one picture,  *)
(* so "input" counts the free ones.  An output buffer is known by the      *)
(* capture buffer bound to it (out_buf->aml_buf).                          *)
(*                                                                         *)
(* An interlaced frame may be handed over as two pictures of one capture   *)
(* buffer, its fields, which the decoder counts (vf_ref).                  *)
(***************************************************************************)
EXTENDS TaskChain, Integers, Sequences, FiniteSets

CONSTANTS
  NumBuf,       \* the capture buffers
  DpbSize,      \* ctx->dpb_size = dpb.mDPB.size
  VppNum,       \* aml_v4l2_vpp_get_buf_num
  MinFree,      \* run_ready_min_buf_num
  VfPool,       \* VF_POOL_SIZE
  InSize,       \* VPP_FRAME_SIZE
  OutSize,      \* vpp->buf_size
  DiSize,       \* di_ibuf_num and di_obuf_num
  Times,        \* time stamps are counted modulo this bound
  MaxPermits,   \* bound on the permits of sem_out
  MaxOffs,      \* bound on how often the stream ends
  Modes         \* the modes vpp_needed and v4l_buf_size_decision choose from

Mode == [is_prog : BOOLEAN, alloc : BOOLEAN]

ASSUME VppAssumption ==
  /\ {NumBuf, DpbSize, VppNum, MinFree, VfPool, InSize, OutSize, DiSize, MaxPermits} \subseteq Nat \ {0}
  /\ Times \in Nat \ {0} /\ MaxOffs \in Nat
  /\ Modes \subseteq Mode

(* Buffers are numbered in the order in which the user queues them first.  *)
Buf == 1..NumBuf
NoBuf == 0     \* NULL; also an output buffer that is not bound
Time == 0..(Times - 1)
(* A vframe: v4l_mem_handle, timestamp, and which field of its frame it is *)
(* (i of post_video_frame).                                                *)
Frame == [fb : Buf, ts : Time, nth : 1..2]
ASSUME NoFrameAssumption == NoFrame \notin Frame

VARIABLES
  phase,       \* of the stream: "on", or how far the driver is in ending it;
               \* "broken" after a race that leaves nothing to rely on
  offs,        \* how often it has ended
  mode,        \* vpp->is_prog, and vpp->buffer_mode = BUFFER_MODE_ALLOC_BUF
  clock,       \* the time stamp of the next picture
  (* the capture queue *)
  new,         \* buffers the user has not queued yet: ! que_in_m2m
  ready,       \* the ready list of the m2m context
  token_table,
  pool,        \* cap_pool.seq: who allocated the buffer, m2m if nobody has
  chain,       \* fb->task
  capture,     \* ctx->capture_buffer, each buffer with its fb->vframe
  posting,     \* the one the capture worker is about to show, if any
  user,        \* buffers the user has dequeued, with the picture
  (* the decoder: what it does, its token, and the state of its buffers *)
  dec, dec_token, spec,
  (* the fields of a buffer that are out, the frame whose second field is  *)
  (* still to come, and the free vframes (newframe_q)                      *)
  vf_ref, more, newframe,
  (* the post processor's fifos and semaphores *)
  input, output, frame, in_done_q, out_done_q, sem_in, sem_out,
  (* its thread, and the output buffer it has taken *)
  pc, out_buf, fb_token,
  (* the DI: pictures it reads, outputs it has to fill (in the mode that  *)
  (* allocates buffers: vpp->processing), and where its two callbacks are: *)
  (* the output that is done, the one (if any) on its way to the capture   *)
  (* queue, and the input (if any) that is being given back                *)
  reading, filling, done, putting, emptied,
  held         \* in_num[0] - in_num[1]

queueVars == <<new, ready, token_table, pool>>
fieldVars == <<vf_ref, more, newframe>>
decVars == <<dec, dec_token, spec, fieldVars>>
fifoVars == <<input, output, frame, in_done_q, out_done_q, sem_in, sem_out>>
threadVars == <<pc, out_buf, fb_token>>
diVars == <<reading, filling, done, putting, emptied, held>>
outVars == <<capture, posting, user>>
vars == <<phase, offs, mode, clock, queueVars, chain, decVars, fifoVars, threadVars, diVars, outVars>>

Elements(q) == {q[i] : i \in 1..Len(q)}
Allocated(who) == {b \in Buf : pool[b] = who}
IsFree(b) == spec[b] = "free"

Init ==
  /\ phase = "on" /\ offs = 0 /\ mode \in Modes /\ clock = 0
  /\ new = Buf /\ ready = <<>> /\ token_table = {} /\ pool = [b \in Buf |-> "m2m"]
  /\ chain = [b \in Buf |-> NewChain]
  /\ capture = <<>> /\ posting = <<>> /\ user = {}
  /\ dec = "idle" /\ dec_token = NoBuf /\ spec = [b \in Buf |-> "none"]
  /\ vf_ref = [b \in Buf |-> 0] /\ more = NoBuf /\ newframe = VfPool
  /\ input = InSize /\ output = [i \in 1..OutSize |-> NoBuf] /\ frame = OutSize
  /\ in_done_q = <<>> /\ out_done_q = <<>> /\ sem_in = 0 /\ sem_out = 0
  /\ pc = "wait_in" /\ out_buf = NoBuf /\ fb_token = NoBuf
  /\ reading = <<>> /\ filling = <<>> /\ done = NoBuf /\ putting = <<>> /\ emptied = <<>> /\ held = 0

-----------------------------------------------------------------------------
(* The capture queue.                                                      *)

(* fb_buff_query: the caller's token is good already, or it takes the      *)
(* first ready buffer for one.                                             *)
Query(token) ==
  IF token \in token_table
    THEN [ok |-> TRUE, token |-> token, table |-> token_table, ready |-> ready]
  ELSE IF ready = <<>>
    THEN [ok |-> FALSE, token |-> token, table |-> token_table, ready |-> ready]
  ELSE [ok |-> TRUE, token |-> Head(ready), table |-> token_table \cup {Head(ready)},
        ready |-> Tail(ready)]

(* MUTANT: the stages are attached from the first to the last.             *)
PipelineForward(c, who) ==
  CASE who = "dec" /\ mode.is_prog -> Attach(Attach(Attach(c, "dec"), "vpp"), "sink")
    [] who = "dec" /\ ~ mode.is_prog -> Attach(Attach(c, "dec"), "vpp")
    [] who = "vpp" -> Attach(Attach(c, "vpp"), "sink")

(* fb_buff_from_queue: allocate the buffer of the token, unless there is   *)
(* none or the stream is off, and attach the stages its pictures go        *)
(* through, the last one first: aml_creat_pipeline, and                    *)
(* alloc_one_buf_spec_from_queue for the decoder's own stage.              *)
Pipeline(c, who) ==
  CASE who = "dec" /\ mode.is_prog -> Attach(Attach(Attach(c, "sink"), "vpp"), "dec")
    [] who = "dec" /\ ~ mode.is_prog -> Attach(Attach(c, "vpp"), "dec")
    [] who = "vpp" -> Attach(Attach(c, "sink"), "vpp")
MayAlloc(token) == phase = "on" /\ token # NoBuf
Alloc(token, who) ==
  /\ pool' = [pool EXCEPT ![token] = who]
  /\ token_table' = token_table \ {token}
  /\ chain' = [chain EXCEPT ![token] = Pipeline(@, who)]

-----------------------------------------------------------------------------
(* The decoder.                                                            *)

(* MUTANT: a buffer that may hold a reference counts as free.              *)
HaveFreeCountsKept ==
  LET asks == Cardinality(Allocated("dec")) < DpbSize
      q == Query(dec_token)
      free == (IF asks /\ q.ok THEN Len(q.ready) + 1 ELSE 0)
              + Cardinality({b \in Buf : spec[b] \in {"free", "kept"}})
  IN  /\ dec = "idle" /\ more = NoBuf /\ phase \in {"on", "flagged"}
      /\ dec' = IF free >= MinFree THEN "run" ELSE "idle"
      /\ IF asks THEN /\ dec_token' = q.token /\ token_table' = q.table /\ ready' = q.ready
                 ELSE UNCHANGED <<dec_token, token_table, ready>>
      /\ UNCHANGED <<phase, offs, mode, clock, new, pool, chain, spec, fieldVars, fifoVars, threadVars, diVars,
                     outVars>>

(* have_free_buf_spec: before a picture is decoded.  The frame stores of   *)
(* the decoder (used_size) are not modelled.                               *)
HaveFree ==
  LET asks == Cardinality(Allocated("dec")) < DpbSize
      q == Query(dec_token)
      free == (IF asks /\ q.ok THEN Len(q.ready) + 1 ELSE 0) + Cardinality({b \in Buf : IsFree(b)})
  IN  /\ dec = "idle" /\ more = NoBuf /\ phase \in {"on", "flagged"}
      /\ dec' = IF free >= MinFree THEN "run" ELSE "idle"
      /\ IF asks THEN /\ dec_token' = q.token /\ token_table' = q.table /\ ready' = q.ready
                 ELSE UNCHANGED <<dec_token, token_table, ready>>
      /\ UNCHANGED <<phase, offs, mode, clock, new, pool, chain, spec, fieldVars, fifoVars, threadVars, diVars,
                     outVars>>

(* v4l_get_free_buf_idx: a buffer of its own that is free, or the one of   *)
(* the token, unless the stream is off by then.                            *)
GetFree ==
  /\ dec = "run" /\ more = NoBuf
  /\ \/ \E b \in Buf : /\ IsFree(b)
                       /\ spec' = [spec EXCEPT ![b] = "used"]
                       /\ dec' = "idle"
                       /\ UNCHANGED <<token_table, pool, chain>>
     \/ /\ ~ \E b \in Buf : IsFree(b)
        /\ Allocated("m2m") \ new # {} /\ MayAlloc(dec_token)
        /\ Alloc(dec_token, "dec")
        /\ spec' = [spec EXCEPT ![dec_token] = "used"]
        /\ dec' = "idle"
     \/ /\ ~ \E b \in Buf : IsFree(b)
        /\ Allocated("m2m") \ new = {} \/ ~ MayAlloc(dec_token)
        /\ dec' = "failed"
        /\ UNCHANGED <<spec, token_table, pool, chain>>
  /\ UNCHANGED <<phase, offs, mode, clock, new, ready, dec_token, fieldVars, fifoVars, threadVars, diVars,
                 outVars>>

(* MUTANT: the picture is put in front of those that wait.                 *)
PushVframeInFront(f) ==
  IF input > 0 THEN /\ input' = input - 1 /\ sem_in' = sem_in + 1
                    /\ in_done_q' = <<f>> \o in_done_q
               ELSE UNCHANGED <<input, sem_in, in_done_q>>

(* aml_v4l2_vpp_push_vframe; without a free input buffer the picture is    *)
(* dropped ("can not get free input buffer").                              *)
PushVframe(f) ==
  IF input > 0 THEN /\ input' = input - 1 /\ sem_in' = sem_in + 1
                    /\ in_done_q' = Append(in_done_q, f)
               ELSE UNCHANGED <<input, sem_in, in_done_q>>

(* task_buffer_submit of the decoder's stage.                              *)
HandOver(f) ==
  /\ clock' = (clock + 1) % Times
  /\ chain' = [chain EXCEPT ![f.fb] = Push(@, "dec", f)]
  /\ IF "vpp" \in Follows(chain[f.fb], "dec") THEN PushVframe(f) ELSE UNCHANGED <<input, sem_in, in_done_q>>

(* MUTANT: the buffer is back with the first of its fields.                *)
PutVframeAtFirst(b) ==
  /\ vf_ref' = [vf_ref EXCEPT ![b] = @ - 1]
  /\ spec' = [spec EXCEPT ![b] = "kept"]
  /\ newframe' = newframe + 1

(* vh264_vf_put: with the last of its fields the buffer is the decoder's   *)
(* again (set_frame_output_flag).                                          *)
PutVframe(b) ==
  /\ vf_ref' = [vf_ref EXCEPT ![b] = @ - 1]
  /\ spec' = IF vf_ref[b] <= 1 THEN [spec EXCEPT ![b] = "kept"] ELSE spec
  /\ newframe' = newframe + 1

(* post_video_frame: the picture is handed over, and of an interlaced      *)
(* frame another one is to come (vf_count) ...                             *)
Output(b) ==
  /\ more = NoBuf /\ spec[b] = "used" /\ newframe > 0 /\ phase = "on"
  /\ spec' = [spec EXCEPT ![b] = "out"]
  /\ vf_ref' = [vf_ref EXCEPT ![b] = 1]
  /\ newframe' = newframe - 1
  /\ more' \in IF mode.is_prog THEN {NoBuf} ELSE {NoBuf, b}
  /\ HandOver([fb |-> b, ts |-> clock, nth |-> 1])
  /\ UNCHANGED <<phase, offs, mode, queueVars, dec, dec_token, output, frame, out_done_q, sem_out,
                 threadVars, diVars, outVars>>

(* ... or put back at once, with its other field, if the frame is not to   *)
(* be shown or the stream is off.  Without a vframe the buffer stays where *)
(* it is for good ("no available buffer slot").                            *)
Hide(b) ==
  /\ more = NoBuf /\ spec[b] = "used"
  /\ spec' = [spec EXCEPT ![b] = IF newframe = 0 THEN "out" ELSE "kept"]
  /\ UNCHANGED <<phase, offs, mode, clock, queueVars, chain, dec, dec_token, fieldVars, fifoVars, threadVars,
                 diVars, outVars>>

(* The second field is handed over like the first, unless the stream is    *)
(* off by then, or the first one is back already: set_frame_output_flag    *)
(* has then cleared the frame's show_frame, and the second one is put back *)
(* at once, never shown.  A first one that comes back after the second one *)
(* is counted might as well come back after it is handed over.             *)
SecondField ==
  /\ more # NoBuf /\ more' = NoBuf
  /\ IF spec[more] = "out" /\ newframe > 0 /\ phase = "on"
       THEN /\ vf_ref' = [vf_ref EXCEPT ![more] = @ + 1]
            /\ newframe' = newframe - 1
            /\ HandOver([fb |-> more, ts |-> clock, nth |-> 2])
       ELSE UNCHANGED <<vf_ref, newframe, clock, chain, input, sem_in, in_done_q>>
  /\ UNCHANGED <<phase, offs, mode, queueVars, dec, dec_token, spec, output, frame, out_done_q, sem_out,
                 threadVars, diVars, outVars>>

(* The decoder counts without the lock that vh264_vf_put takes.  Of a      *)
(* vf_ref++ and a vf_ref-- at the same time one may be lost: the buffer    *)
(* never comes back, or comes back under its second field.                 *)
CountRaces ==
  /\ more # NoBuf /\ phase \in {"on", "flagged"}
  /\ \E f \in Elements(emptied) : f.fb = more
  /\ phase' = "broken"
  /\ UNCHANGED <<offs, mode, clock, queueVars, chain, decVars, fifoVars, threadVars, diVars, outVars>>

(* MUTANT: the decoder's stage keeps the picture it has got back.          *)
RecycleToDecKeeps(c, b) ==
  LET f == Top(c[b], "dec")
      linked == "dec" \in Precedes(c[b], "vpp")
  IN  /\ chain' = c
      /\ IF linked /\ f # NoFrame /\ phase \in {"on", "flagged"}
           THEN PutVframe(f.fb) ELSE UNCHANGED <<spec, vf_ref, newframe>>

(* task_buffer_recycle of the stage behind the decoder's: vh264_vf_put of  *)
(* the picture, in vain once the decoder is reset (the vframe's index is   *)
(* gone).                                                                  *)
RecycleToDec(c, b) ==
  LET f == Top(c[b], "dec")
      linked == "dec" \in Precedes(c[b], "vpp")
  IN  /\ chain' = [c EXCEPT ![b] = IF linked THEN Pop(@, "dec") ELSE @]
      /\ IF linked /\ f # NoFrame /\ phase \in {"on", "flagged"}
           THEN PutVframe(f.fb) ELSE UNCHANGED <<spec, vf_ref, newframe>>

(* A buffer that is back may still hold a reference picture.  The decoder  *)
(* lets go of it as it decodes on (release of its frame store).            *)
Unref(b) ==
  /\ more = NoBuf /\ spec[b] = "kept"
  /\ spec' = [spec EXCEPT ![b] = "free"]
  /\ UNCHANGED <<phase, offs, mode, clock, queueVars, chain, dec, dec_token, fieldVars, fifoVars, threadVars,
                 diVars, outVars>>

-----------------------------------------------------------------------------
(* The post processing thread: aml_v4l2_vpp_thread.                        *)

WaitIn ==
  /\ pc = "wait_in" /\ sem_in > 0
  /\ sem_in' = sem_in - 1 /\ pc' = "retry"
  /\ UNCHANGED <<phase, offs, mode, clock, queueVars, chain, decVars, input, output, frame, in_done_q,
                 out_done_q, sem_out, out_buf, fb_token, diVars, outVars>>

(* MUTANT: the thread waits for an input again, not only for an output.    *)
WaitOutForgets ==
  /\ pc = "wait_out" /\ sem_out > 0
  /\ sem_out' = sem_out - 1 /\ pc' = "wait_in"
  /\ UNCHANGED <<phase, offs, mode, clock, queueVars, chain, decVars, input, output, frame, in_done_q,
                 out_done_q, sem_in, out_buf, fb_token, diVars, outVars>>

WaitOut ==
  /\ pc = "wait_out" /\ sem_out > 0
  /\ sem_out' = sem_out - 1 /\ pc' = "retry"
  /\ UNCHANGED <<phase, offs, mode, clock, queueVars, chain, decVars, input, output, frame, in_done_q,
                 out_done_q, sem_in, out_buf, fb_token, diVars, outVars>>

(* Take an output buffer.  The DI's own buffers may be used up.            *)
TakeOut ==
  /\ pc = "retry"
  /\ \/ /\ output = <<>> /\ pc' = "wait_out"
        /\ UNCHANGED <<output, out_buf>>
     \/ /\ output # <<>> /\ (mode.alloc => held <= DiSize)
        /\ output' = Tail(output) /\ out_buf' = Head(output)
        /\ pc' = IF ~ mode.is_prog /\ Head(output) = NoBuf THEN "bind" ELSE "pair"
  /\ UNCHANGED <<phase, offs, mode, clock, queueVars, chain, decVars, input, frame, in_done_q, out_done_q,
                 sem_in, sem_out, fb_token, diVars, outVars>>

(* can_vpp_get_buf_from_m2m, without the end of the stream.                *)
MayTakeBuffer ==
  \/ Cardinality(Allocated("dec")) >= DpbSize - 1
  \/ Cardinality(Allocated("vpp")) < VppNum

(* An output buffer that is not bound needs a capture buffer: it is put    *)
(* back when there is none.                                                *)
AskBuffer ==
  LET q == Query(fb_token)
  IN  /\ pc = "bind"
      /\ IF MayTakeBuffer
           THEN /\ fb_token' = q.token /\ token_table' = q.table /\ ready' = q.ready
           ELSE UNCHANGED <<fb_token, token_table, ready>>
      /\ IF MayTakeBuffer /\ q.ok
           THEN pc' = "alloc" /\ UNCHANGED <<output, out_buf>>
           ELSE pc' = "retry" /\ output' = Append(output, out_buf) /\ out_buf' = NoBuf
      /\ UNCHANGED <<phase, offs, mode, clock, new, pool, chain, decVars, input, frame, in_done_q, out_done_q,
                     sem_in, sem_out, diVars, outVars>>

Bind ==
  /\ pc = "alloc"
  /\ IF MayAlloc(fb_token)
       THEN /\ Alloc(fb_token, "vpp")
            /\ out_buf' = fb_token /\ pc' = "pair" /\ UNCHANGED output
       ELSE /\ output' = Append(output, out_buf) /\ out_buf' = NoBuf /\ pc' = "retry"
            /\ UNCHANGED <<pool, token_table, chain>>
  /\ UNCHANGED <<phase, offs, mode, clock, new, ready, decVars, input, frame, in_done_q, out_done_q, sem_in,
                 sem_out, fb_token, diVars, outVars>>

(* A picture and an output buffer go to the DI.  In progressive modes the  *)
(* output buffer takes over the picture's capture buffer.                  *)
Pair ==
  /\ pc = "pair"
  /\ \/ /\ in_done_q # <<>> /\ frame > 0
        /\ LET f == Head(in_done_q)
               out == IF mode.is_prog THEN f.fb ELSE out_buf
           IN  /\ reading' = IF mode.is_prog THEN reading ELSE Append(reading, f)
               /\ filling' = Append(filling, [f EXCEPT !.fb = out])
        /\ in_done_q' = Tail(in_done_q) /\ frame' = frame - 1
        /\ held' = held + 1
        /\ out_buf' = NoBuf /\ pc' = "wait_in"
     \/ /\ in_done_q = <<>> \/ frame = 0
        /\ pc' = "exit"
        /\ UNCHANGED <<reading, filling, in_done_q, frame, held, out_buf>>
  /\ UNCHANGED <<phase, offs, mode, clock, queueVars, chain, decVars, input, output, out_done_q, sem_in, sem_out,
                 fb_token, done, putting, emptied, outVars>>

Thread == WaitIn \/ WaitOut \/ TakeOut \/ AskBuffer \/ Bind \/ Pair

-----------------------------------------------------------------------------
(* The DI fills the outputs in order and empties the inputs in order.      *)

(* v4l_vpp_fill_output_done, v4l_vpp_fill_output_done_alloc_buffer: the    *)
(* output is done, and dropped when the stream is off ...                  *)
FillDone ==
  /\ filling # <<>> /\ done = NoBuf
  /\ filling' = Tail(filling)
  /\ IF phase = "on"
       THEN /\ out_done_q' = Append(out_done_q, Head(filling))
            /\ input' = IF mode.alloc /\ mode.is_prog THEN input + 1 ELSE input
            /\ done' = Head(filling).fb
       ELSE UNCHANGED <<out_done_q, input, done>>
  /\ UNCHANGED <<phase, offs, mode, clock, queueVars, chain, decVars, output, frame, in_done_q, sem_in,
                 sem_out, threadVars, reading, putting, emptied, held, outVars>>

(* ... and is submitted along the chain of its buffer: vpp_vf_get takes    *)
(* the first picture that is done, and fill_capture_done_cb looks whether  *)
(* the stream is off ...                                                   *)
Submit ==
  LET f == Head(out_done_q)
  IN  /\ done # NoBuf /\ putting = <<>>
      /\ out_done_q' = Tail(out_done_q)
      /\ chain' = [chain EXCEPT ![done] = Push(@, "vpp", f)]
      /\ IF phase = "on" /\ "sink" \in Follows(chain[done], "vpp")
           THEN putting' = <<f>> /\ UNCHANGED <<held, done>>
           ELSE held' = held - 1 /\ done' = NoBuf /\ UNCHANGED putting
      /\ UNCHANGED <<phase, offs, mode, clock, queueVars, decVars, input, output, frame, in_done_q, sem_in,
                     sem_out, threadVars, reading, filling, emptied, outVars>>

(* ... and hands the buffer to the capture thread.                         *)
PutCapture ==
  /\ putting # <<>>
  /\ capture' = capture \o putting
  /\ putting' = <<>> /\ held' = held - 1 /\ done' = NoBuf
  /\ UNCHANGED <<phase, offs, mode, clock, queueVars, chain, decVars, fifoVars, threadVars, reading, filling,
                 emptied, posting, user>>

(* v4l_vpp_empty_input_done: unless the stream is off ...  In progressive  *)
(* modes the callback changes nothing, and is left out.                    *)
EmptyDone ==
  /\ reading # <<>> /\ emptied = <<>>
  /\ reading' = Tail(reading)
  /\ emptied' = IF phase = "on" THEN <<Head(reading)>> ELSE <<>>
  /\ UNCHANGED <<phase, offs, mode, clock, queueVars, chain, decVars, fifoVars, threadVars, filling, done,
                 putting, held, outVars>>

(* ... an interlaced picture goes back to the decoder, and its input       *)
(* buffer is free again.                                                   *)
Recycle ==
  /\ emptied # <<>> /\ emptied' = <<>>
  /\ RecycleToDec(chain, Head(emptied).fb)
  /\ input' = input + 1
  /\ UNCHANGED <<phase, offs, mode, clock, queueVars, dec, dec_token, more, output, frame, in_done_q,
                 out_done_q, sem_in, sem_out, threadVars, reading, filling, done, putting, held, outVars>>

-----------------------------------------------------------------------------
(* aml_thread_capture_worker takes a buffer, and drops it when the stream  *)
(* is off ...                                                              *)
WorkerGet ==
  /\ capture # <<>> /\ posting = <<>>
  /\ capture' = Tail(capture)
  /\ posting' = IF phase = "on" THEN <<Head(capture)>> ELSE <<>>
  /\ UNCHANGED <<phase, offs, mode, clock, queueVars, chain, decVars, fifoVars, threadVars, diVars, user>>

(* ... or shows it: post_frame_to_upper.  It reads fb->vframe, which       *)
(* vb2ops_vdec_stop_streaming may have set to NULL by then.                *)
Post ==
  /\ posting # <<>>
  /\ IF phase = "off" THEN phase' = "broken" /\ UNCHANGED <<posting, user>>
                      ELSE posting' = <<>> /\ user' = user \cup {Head(posting)} /\ UNCHANGED phase
  /\ UNCHANGED <<offs, mode, clock, queueVars, chain, decVars, fifoVars, threadVars, diVars, capture>>

(* vb2ops_vdec_buf_queue of a buffer that is queued for the first time ... *)
QueueNew(b) ==
  /\ phase = "on" /\ b \in new /\ \A c \in new : b <= c
  /\ new' = new \ {b} /\ ready' = Append(ready, b)
  /\ chain' = [chain EXCEPT ![b] = Clean(@)]
  /\ UNCHANGED <<phase, offs, mode, clock, token_table, pool, decVars, fifoVars, threadVars, diVars, outVars>>

(* MUTANT: nobody wakes the thread up (no up(&vpp->sem_out)).              *)
QueueAgainSilently(b) ==
  LET f == Top(chain[b], "vpp")
      c == [chain EXCEPT ![b] = Pop(@, "vpp")]
  IN  /\ phase = "on"
      /\ \E g \in user : g.fb = b /\ user' = user \ {g}
      /\ "vpp" \in Precedes(chain[b], "sink") /\ f # NoFrame
      /\ IF mode.is_prog THEN RecycleToDec(c, f.fb) ELSE chain' = c /\ UNCHANGED <<spec, vf_ref, newframe>>
      /\ frame' = frame + 1
      /\ output' = Append(output, f.fb)
      /\ UNCHANGED <<phase, offs, mode, clock, queueVars, dec, dec_token, more, input, in_done_q,
                     out_done_q, sem_in, sem_out, threadVars, diVars, capture, posting>>

(* ... and of one that comes back: the picture shown is recycled through   *)
(* the chain of its buffer.  vpp_vf_put finds the output buffer by the     *)
(* picture's handle; a progressive picture goes back to the decoder too.   *)
QueueAgain(b) ==
  LET f == Top(chain[b], "vpp")
      c == [chain EXCEPT ![b] = Pop(@, "vpp")]
  IN  /\ phase = "on"
      /\ \E g \in user : g.fb = b /\ user' = user \ {g}
      /\ "vpp" \in Precedes(chain[b], "sink") /\ f # NoFrame
      /\ IF mode.is_prog THEN RecycleToDec(c, f.fb) ELSE chain' = c /\ UNCHANGED <<spec, vf_ref, newframe>>
      /\ frame' = frame + 1
      /\ output' = Append(output, f.fb)
      /\ sem_out' = IF sem_out < MaxPermits THEN sem_out + 1 ELSE sem_out
      /\ UNCHANGED <<phase, offs, mode, clock, queueVars, dec, dec_token, more, input, in_done_q,
                     out_done_q, sem_in, threadVars, diVars, capture, posting>>

-----------------------------------------------------------------------------
(* The capture stream ends: vidioc_decoder_streamoff says so first ...     *)
StreamOff ==
  /\ phase = "on" /\ phase' = "flagged"
  /\ offs < MaxOffs /\ offs' = offs + 1
  /\ UNCHANGED <<mode, clock, queueVars, chain, decVars, fifoVars, threadVars, diVars, outVars>>

(* ... vb2ops_vdec_stop_streaming stops the decoder and forgets its        *)
(* pictures (aml_vdec_reset), but not its token.  There is no input to     *)
(* decode until the next start ...                                         *)
StopDecoder ==
  /\ phase = "flagged" /\ phase' = "stopped"
  /\ dec' = "idle" /\ spec' = [b \in Buf |-> "none"]
  /\ vf_ref' = [b \in Buf |-> 0] /\ more' = NoBuf /\ newframe' = VfPool
  /\ UNCHANGED <<offs, mode, clock, queueVars, chain, dec_token, fifoVars, threadVars, diVars, outVars>>

(* ... and takes back every buffer: those on their way out, the ready ones *)
(* and, with the tables of tokens and of allocated buffers cleared, the    *)
(* rest.                                                                   *)
Drain ==
  /\ phase = "stopped" /\ phase' = "off"
  /\ capture' = <<>> /\ ready' = <<>> /\ new' = Buf /\ user' = {}
  /\ token_table' = {} /\ pool' = [b \in Buf |-> "m2m"]
  /\ UNCHANGED <<offs, mode, clock, chain, decVars, fifoVars, threadVars, diVars, posting>>

(* vidioc_decoder_streamon: aml_v4l2_vpp_reset ends the thread, sets its   *)
(* fifos up again and starts a new one; a post processor of another mode   *)
(* is destroyed and made anew, to the same effect.  Nothing tells the DI:  *)
(* that it has answered all requests by now is assumed of it.  If the      *)
(* capture worker still has a buffer of the last stream, it will show it,  *)
(* now that the stream is on again, without its picture.                   *)
StreamOn ==
  /\ phase = "off"
  /\ phase' = IF capture = <<>> /\ posting = <<>> THEN "on" ELSE "broken"
  /\ reading = <<>> /\ filling = <<>> /\ done = NoBuf /\ emptied = <<>>
  /\ mode' \in Modes /\ clock' = 0
  /\ input' = InSize /\ output' = [i \in 1..OutSize |-> NoBuf] /\ frame' = OutSize
  /\ in_done_q' = <<>> /\ out_done_q' = <<>> /\ sem_in' = 0 /\ sem_out' = 0
  /\ pc' = "wait_in" /\ out_buf' = NoBuf /\ fb_token' = NoBuf /\ held' = 0
  /\ UNCHANGED <<offs, queueVars, chain, decVars, reading, filling, done, putting, emptied, outVars>>

Stream == StreamOff \/ StopDecoder \/ Drain \/ StreamOn

Queue == \E b \in Buf : QueueNew(b) \/ QueueAgain(b)
Decoder == \/ HaveFree \/ GetFree \/ SecondField \/ CountRaces
           \/ \E b \in Buf : Output(b) \/ Hide(b) \/ Unref(b)
Di == FillDone \/ Submit \/ PutCapture \/ EmptyDone \/ Recycle
Worker == WorkerGet \/ Post

(* What follows a lost race is not modelled.                               *)
Running == phase # "broken"
Next == \/ Running /\ (Queue \/ Stream \/ Decoder \/ Thread \/ Di \/ Worker)
        \/ ~ Running /\ UNCHANGED vars

Spec == Init /\ [][Next]_vars

(* The threads run, the DI answers both requests, the user gives buffers   *)
(* (back) to the driver as long as it has some, and the stream goes on; of *)
(* the frames the decoder outputs it does not hide every one.              *)
Fairness ==
  /\ WF_vars(Running /\ Decoder) /\ SF_vars(Running /\ \E b \in Buf : Output(b))
  /\ WF_vars(Running /\ Thread) /\ WF_vars(Running /\ Worker) /\ WF_vars(Running /\ Queue)
  /\ WF_vars(Running /\ (FillDone \/ Submit \/ PutCapture)) /\ WF_vars(Running /\ (EmptyDone \/ Recycle))
  /\ WF_vars(Running /\ (StopDecoder \/ Drain \/ StreamOn))

FairSpec == Spec /\ Fairness

-----------------------------------------------------------------------------
TypeOK ==
  /\ phase \in {"on", "flagged", "stopped", "off", "broken"} /\ offs \in Nat
  /\ mode \in Mode /\ clock \in Time
  /\ new \subseteq Buf /\ ready \in Seq(Buf) /\ token_table \subseteq Buf
  /\ pool \in [Buf -> {"m2m", "dec", "vpp"}]
  /\ chain \in [Buf -> Chain(Frame)]
  /\ capture \in Seq(Frame) /\ posting \in Seq(Frame) /\ user \subseteq Frame
  /\ dec \in {"idle", "run", "failed"} /\ dec_token \in Buf \cup {NoBuf}
  /\ spec \in [Buf -> {"none", "free", "used", "out", "kept"}]
  /\ vf_ref \in [Buf -> 0..2] /\ more \in Buf \cup {NoBuf} /\ newframe \in Nat
  /\ input \in Nat /\ output \in Seq(Buf \cup {NoBuf}) /\ frame \in Nat
  /\ in_done_q \in Seq(Frame) /\ out_done_q \in Seq(Frame) /\ sem_in \in Nat /\ sem_out \in Nat
  /\ pc \in {"wait_in", "retry", "wait_out", "bind", "alloc", "pair", "exit"}
  /\ out_buf \in Buf \cup {NoBuf} /\ fb_token \in Buf \cup {NoBuf}
  /\ reading \in Seq(Frame) /\ filling \in Seq(Frame)
  /\ done \in Buf \cup {NoBuf} /\ putting \in Seq(Frame) /\ emptied \in Seq(Frame) /\ held \in Int

(* How often a capture buffer is in a queue, or in one of the other places *)
(* that own it.  In progressive modes what an idle output buffer was bound *)
(* to last is no owner, and the DI reads and fills the same buffer.  In    *)
(* interlaced modes the fields that are out own a buffer of the decoder.   *)
Often(b, q) == Cardinality({i \in 1..Len(q) : q[i] = b})
Pictures(b, q) == Cardinality({i \in 1..Len(q) : q[i].fb = b})
Here(where) == IF where THEN 1 ELSE 0
Owners(b) ==
  Here(b \in new) + Often(b, ready) + Here(b \in token_table)
  + Here(spec[b] \in {"used", "kept", "free"})
  + Pictures(b, filling) + Here(done = b)
  + Pictures(b, capture) + Pictures(b, posting) + Cardinality({f \in user : f.fb = b})
  + (IF mode.is_prog THEN Pictures(b, in_done_q)
     ELSE Here(vf_ref[b] > 0) + Often(b, output) + Here(out_buf = b))

(* The fields of a buffer on their way from the decoder and back.          *)
Fields(b) == Pictures(b, in_done_q) + Pictures(b, reading) + Pictures(b, emptied)

(* A capture buffer is in exactly one place: with the user, the driver's   *)
(* queue, a token, the decoder, the post processor, the DI or on its way   *)
(* out; and the decoder counts the fields of an interlaced frame that are  *)
(* on their way.  None is lost, none comes back under a field that is      *)
(* still out, and none is used for two pictures at a time                  *)
(* (fb_buff_from_queue, post_video_frame, vh264_vf_put, vpp_vf_put).       *)
OneOwner == phase = "on" =>
  /\ \A b \in Buf : Owners(b) = 1
  /\ ~ mode.is_prog => \A b \in Buf : vf_ref[b] = Fields(b)

(* The stages of a buffer have the picture that is given back: the slots   *)
(* of task_item_vframe_push never run out, nothing stale is popped, and    *)
(* of two fields each gives back itself.  A progressive picture goes back  *)
(* through both stages.                                                    *)
RecycleFindsPicture ==
  /\ \A f \in user :
       LET c == chain[f.fb]
       IN  /\ Top(c, "vpp") = f /\ Cardinality(Held(c, "vpp")) = 1
           /\ "vpp" \in Precedes(c, "sink")
           /\ mode.is_prog => /\ Top(c, "dec") = f /\ Cardinality(Held(c, "dec")) = 1
                              /\ "dec" \in Precedes(c, "vpp")
  /\ phase = "on" => \A f \in Elements(emptied) :
       LET c == chain[f.fb]
       IN  Top(c, "dec") = f /\ Cardinality(Held(c, "dec")) <= 2 /\ "dec" \in Precedes(c, "vpp")

(* The thread never leaves its loop (vpp can not get input / frame), and   *)
(* the decoder finds the buffer have_free_buf_spec has promised            *)
(* (v4l_get_free_buf_idx fail).                                            *)
NeverGivesUp == pc # "exit" /\ (phase = "on" => dec # "failed")

(* The pictures the decoder has handed over and the capture worker has not *)
(* passed on yet, from the oldest to the newest: no picture is lost or     *)
(* overtakes another, whatever thread or callback runs when, and the next  *)
(* one to come follows the last.  Each field of a frame is a picture.      *)
StampsOf(q) == [i \in 1..Len(q) |-> q[i].ts]
Stamps == StampsOf(posting) \o StampsOf(capture) \o StampsOf(putting) \o StampsOf(out_done_q)
          \o StampsOf(filling) \o StampsOf(in_done_q)
Consecutive(s) == \A i \in 1..(Len(s) - 1) : s[i + 1] = (s[i] + 1) % Times
InOrder == phase = "on" => Consecutive(Append(Stamps, clock))

-----------------------------------------------------------------------------
(* Why the thread and the decoder never give up: an inductive invariant.   *)

(* A permit of sem_in for every picture that waits, but the one the thread *)
(* is at work on; a vframe for every output buffer at hand.                *)
Working == pc \in {"retry", "wait_out", "bind", "alloc", "pair"}
Accounts ==
  /\ pc # "exit"
  /\ Len(in_done_q) = sem_in + Here(Working)
  /\ frame = Len(output) + Here(pc \in {"bind", "alloc", "pair"})

(* New buffers, ready ones, tokens and allocated ones are different ones.  *)
ReadyApart ==
  /\ \A i, j \in 1..Len(ready) : ready[i] = ready[j] => i = j
  /\ \A i \in 1..Len(ready) : /\ ready[i] \notin new \cup token_table
                              /\ pool[ready[i]] = "m2m"
TableApart ==
  /\ \A b \in token_table : b \notin new
  /\ \A b \in token_table \cup new : pool[b] = "m2m"
  /\ phase = "off" => ready = <<>> /\ token_table = {} /\ new = Buf

(* The decoder and the post processor never hold the same token, though    *)
(* the decoder's outlives the stream: the post processor asks only when    *)
(* it has a picture, and then the decoder has asked in this stream.        *)
Live == phase \in {"on", "flagged", "stopped"}
TokensApart ==
  /\ dec_token \in token_table => fb_token # dec_token
  /\ Live /\ Allocated("dec") # {} => dec_token \in token_table \cup Allocated("dec")
  /\ Live /\ fb_token # NoBuf => fb_token \in token_table \/ pool[fb_token] # "m2m"
  /\ pc = "alloc" /\ Live => fb_token \in token_table

(* A buffer in use is allocated, by whom its use says; and so is the chain *)
(* of an allocated buffer.                                                 *)
InUse ==
  /\ \A b \in Buf : spec[b] # "none" => pool[b] = "dec"
  /\ Live =>
       /\ \A i \in 1..Len(in_done_q) : pool[in_done_q[i].fb] = "dec"
       /\ \A i \in 1..Len(reading) : pool[reading[i].fb] = "dec"
       /\ \A i \in 1..Len(emptied) : pool[emptied[i].fb] = "dec"
       /\ \A i \in 1..Len(filling) : pool[filling[i].fb] # "m2m"
       /\ \A i \in 1..Len(putting) : pool[putting[i].fb] # "m2m"
       /\ \A i \in 1..Len(capture) : pool[capture[i].fb] # "m2m"
       /\ \A i \in 1..Len(posting) : pool[posting[i].fb] # "m2m"
       /\ \A i \in 1..Len(output) : output[i] # NoBuf => pool[output[i]] # "m2m"
       /\ out_buf # NoBuf => pool[out_buf] # "m2m"
       /\ done # NoBuf => pool[done] # "m2m"
  /\ pc = "pair" /\ ~ mode.is_prog => out_buf # NoBuf
  /\ \A f \in user : pool[f.fb] # "m2m"
  /\ phase = "off" => user = {}
ChainsFit ==
  /\ \A b \in Buf, t \in Task, i \in 1..3 :
       chain[b].vframe[t][i] # NoFrame => chain[b].vframe[t][i].fb = b
  /\ \A b \in Buf : Live /\ b \notin new /\ "dec" \in chain[b].items => pool[b] = "dec"
  /\ IF done = NoBuf THEN out_done_q = <<>> /\ putting = <<>>
     ELSE \E f \in Frame : f.fb = done /\ {out_done_q, putting} = {<<>>, <<f>>}
  /\ Len(emptied) <= 1 /\ Len(posting) <= 1
  /\ mode.is_prog => reading = <<>> /\ emptied = <<>>

(* The decoder counts the fields of a buffer that its stage remembers; the *)
(* vframes that are not free are the counted ones.                         *)
Refs == {r \in Buf \X (1..2) : r[2] <= vf_ref[r[1]]}
FieldsCounted ==
  /\ newframe + Cardinality(Refs) = VfPool
  /\ \A b \in Buf : vf_ref[b] > 0 => spec[b] = "out"
  /\ phase \in {"on", "flagged"} => \A b \in Buf \ new : vf_ref[b] = Cardinality(Held(chain[b], "dec"))
  /\ more # NoBuf => ~ mode.is_prog /\ spec[more] \in {"out", "kept"} /\ vf_ref[more] <= 1

(* have_free_buf_spec keeps its promise.                                   *)
Promise ==
  /\ phase = "on" => dec # "failed"
  /\ phase = "on" /\ dec = "run" => (\E b \in Buf : IsFree(b)) \/ dec_token \in token_table
  /\ phase \in {"stopped", "off"} => dec = "idle" /\ more = NoBuf /\ \A b \in Buf : spec[b] = "none"

VppInv == /\ TypeOK /\ Accounts /\ ReadyApart /\ TableApart /\ TokensApart /\ InUse /\ ChainsFit
          /\ FieldsCounted /\ Promise

-----------------------------------------------------------------------------
(* Why every buffer has one owner and every picture finds its way back,    *)
(* when the post processor has an input buffer for each field and gets     *)
(* them back in every mode, and the decoder a vframe for each: OnInv, with *)
(* VppInv an inductive invariant of the time while the stream is on, and   *)
(* LeftWithUser after it.                                                  *)

(* An input buffer is free, holds a picture that waits, is at the DI or is *)
(* being given back; an output buffer is not bound while the thread looks  *)
(* for a buffer.  There are as many fields out as the decoder has counted. *)
InputsCount ==
  /\ mode.is_prog => mode.alloc /\ pc \notin {"bind", "alloc"}
  /\ ~ mode.is_prog /\ pc # "pair" => out_buf = NoBuf
  /\ InSize = input + Len(in_done_q) + (IF mode.is_prog THEN Len(filling) ELSE Len(reading) + Len(emptied))
  /\ ~ mode.is_prog =>
       Cardinality(Refs) = Len(in_done_q) + Len(reading) + Len(emptied)

(* What is filled and shown was allocated for the last stage, whose chain  *)
(* goes on to the capture thread; the chain of the decoder's buffers goes  *)
(* on to the post processor; and the way back is the same.                 *)
LastStage == IF mode.is_prog THEN "dec" ELSE "vpp"
OnWayOut == Elements(putting) \cup Elements(capture) \cup Elements(posting)
Shown == OnWayOut \cup user
Linked(c, t, u) == u \in Follows(c, t) /\ t \in Precedes(c, u)
ChainsLinked ==
  /\ \A f \in Elements(filling) \cup Shown : pool[f.fb] = LastStage
  /\ done # NoBuf => pool[done] = LastStage
  /\ ~ mode.is_prog => \A b \in Elements(output) \cup {out_buf} : b # NoBuf => pool[b] = "vpp"
  /\ \A b \in Buf : /\ pool[b] = "dec" => Linked(chain[b], "dec", "vpp")
                    /\ pool[b] = LastStage => Linked(chain[b], "vpp", "sink")

(* A stage remembers the picture it has handed on, and no other one, until *)
(* the picture is back.                                                    *)
OnlyHolds(c, t, f) == \E k \in 1..3 : Held(c, t) = {k} /\ c.vframe[t][k] = f
Remembers(t, f) == OnlyHolds(chain[f.fb], t, f)
StagesRemember ==
  /\ mode.is_prog =>
       \A f \in Elements(in_done_q) \cup Elements(filling) \cup Elements(out_done_q) \cup Shown :
          Remembers("dec", f)
  /\ \A f \in Shown : Remembers("vpp", f)
  /\ \A b \in Buf : pool[b] # "m2m" /\ Held(chain[b], "vpp") # {} => \E f \in Shown : f.fb = b

(* The decoder's stage remembers the fields that are out, the first one    *)
(* before the second; they come back in the order in which they went.      *)
Pipe == emptied \o reading \o in_done_q
Slots(b) == chain[b].vframe["dec"]
FieldsRemembered == ~ mode.is_prog =>
  /\ \A f \in Elements(Pipe) : \E k \in 1..3 : Slots(f.fb)[k] = f
  /\ \A b \in Buf \ new, k \in 1..3 : Slots(b)[k] # NoFrame => Slots(b)[k] \in Elements(Pipe)
  /\ \A b \in Buf \ new : \A i, k \in Held(chain[b], "dec") : i < k => Slots(b)[i].nth < Slots(b)[k].nth
  /\ \A i, k \in 1..Len(Pipe) : i < k /\ Pipe[i].fb = Pipe[k].fb => Pipe[i].nth < Pipe[k].nth
  /\ more # NoBuf => \A k \in Held(chain[more], "dec") : k = 1 /\ Slots(more)[k].nth = 1

OnInv == OneOwner /\ (phase = "on" => InputsCount /\ ChainsLinked /\ StagesRemember /\ FieldsRemembered)

(* What the user still has when the stream ends, or is just about to get,  *)
(* stays as it is, until all buffers are taken back.                       *)
Left == user \cup (IF Live THEN Elements(posting) ELSE {})
LeftWithUser ==
  phase # "on" => \A f \in Left :
    /\ done # f.fb
    /\ Remembers("vpp", f) /\ Linked(chain[f.fb], "vpp", "sink")
    /\ mode.is_prog => Remembers("dec", f) /\ Linked(chain[f.fb], "dec", "vpp")

PictureInv == OnInv /\ LeftWithUser

-----------------------------------------------------------------------------
(* While the stream goes on the user gets pictures for ever, unless a race *)
(* is lost: the decoder and the post processor do not starve each other of *)
(* buffers (can_vpp_get_buf_from_m2m) and no one sleeps through his        *)
(* wake-up.                                                                *)
KeepsPlaying == <>(~ Running) \/ []<><<Post>>_vars

=============================================================================
