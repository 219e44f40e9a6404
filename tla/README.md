# TLA+ models of the Amlogic media modules

A verification development for the kernel media modules in `src/`: TLA+ modules,
TLC configurations that check them on small instances, and proofs that TLAPS
checks for every instance. Paths below are relative to `src/drivers/`; `vdec.c`
stands for `frame_provider/decoder/utils/vdec.c`.

Contents: [inventory](#inventory), [plan](#plan), [the scheduler](#the-scheduler-vdeccore),
[its runs](#runs-of-the-scheduler), [the frame based input](#the-frame-based-input-vdecinput),
[fairness](#fairness-of-the-scheduler), [one run of a decoder](#one-run-of-a-decoder-vdecrun),
[the capture buffers](#the-capture-buffers-taskchain-vpp), [proofs](#proofs),
[what is only model-checked](#what-is-only-model-checked), [not modelled](#not-modelled).

## Inventory

The repository is a set of kernel modules for the video hardware of Amlogic
chips: about 545 000 lines of C, most of it codec drivers that program
registers. There is no design document and one test program
(`amvdec_ports/test/vcodec_m2m_test.c`); what the code is meant to do is said
in its comments. The parts, the state they keep and what makes them correct:

**Decoder scheduler** (`vdec.c`, `vdec.h`). One kernel thread,
`vdec_core_thread`, shares the hardware cores (VDEC_1, HEVC, HEVC_BACK, ...)
among the connected decoder instances. State: the connected list, per core the
busy mask and the last and the active instance, per instance two status words,
three core masks, a completion. Called by the user threads of the ports
(`vdec_connect`, `vdec_disconnect`, `vdec_reset`, `vdec_release`), by the work
queues of the codec drivers (`vdec_core_finish_run`, `vdec_callback`), by
whoever brings data or returns a picture (`vdec_up`), and by interrupts
(`vdec_isr`, `vdec_thread_isr`). Correct when a core runs one instance at a
time, no core is lost, an instance that was disconnected is no longer touched,
the thread never sleeps on work, calls return and nobody starves. *Hard*: every
one of the four groups of callers runs concurrently with the thread, under
different locks or none.

**Interrupt bridge** (`vdec_isr`, `vdec_thread_isr`). Routes an interrupt to the
instance that is active on the core, counts interrupts and their threads so
that `vdec_release` can wait. *Hard*: the instance is looked up twice.

**Input** (`vdec_input.c`). A list of blocks, each a ring of compressed frames,
and a list of chunks into them; writer is the user, reader the scheduler and
the driver. Correct when no chunk is overwritten before it is released, the
counters agree with the lists, and a block is only reused when it is empty.

**Codec drivers** (`decoder/*`, `decoder_v4l/*`). Per instance a work, a timer
and an interrupt handler that end a run; buffer pools for pictures; for the
HEVC family a front and a back core with a ring of pictures between them; for
H.264 the decoded picture buffer (`h264_dpb.c`). *Hard*: timer, interrupt and
removal race over one run.

**Stream ports** (`stream_input/amports`). `amstream.c` opens, resets and
releases the decoders of a port; `stream_buffer_base.c`, `streambuf.c` and
`thread_rw.c` move data into ring buffers. **Parsers**
(`stream_input/parser`): `esparser.c` copies data into the ring by DMA with a
search/fetch handshake; `aml_dmx.c` and others drive demultiplexers.

**V4L2 decoder** (`amvdec_ports`): a state machine per context, a chain of
tasks (`aml_task_chain.c`) along which a picture buffer goes from the decoder
through post processing (`aml_vcodec_vpp.c`, `aml_vcodec_ge2d.c`) to the user
and back. Correct when each buffer has one owner.

**Time stamps and synchronisation** (`media_sync`): a server that maps stream
offsets to time stamps with 32 bit wrap; instances with reference counts that
keep audio and video in step.

**Memory, fences, power**: `decoder_mmu_box.c`, `decoder_bmmu_box.c`,
`vdec_sync.c`, `vdec_power_ctrl.c`, `amvdec.c`, `amports_gate.c`.

**Encoders** (`frame_sink/encoder`): request queues of the H.264 and JPEG
encoders, the command buffer lists of the VC8000 driver.

**The rest**: firmware loading, frame rate hints, chip tables, canvas, profiling
and debugging helpers.

`PROJECT.json` lists the same parts with their files and status, and under
`hazards` the places where the code is hard to test.

## Plan

In the order of what matters most to the system:

1. `VdecCore` (written): the scheduler with its users, drivers and data sides;
   `CoreAlloc` (written): what it promises, as a small abstract specification;
   `MCVdecCore`, its instances; `VdecCoreProofs` (who holds which core) and
   `VdecCoreWork` (combined cores, turns, wake-ups), its proofs, and
   `VdecCoreRefinement`, the proof that it implements `CoreAlloc`.
2. `VdecRun` (written): the interrupt bridge and the race of a driver's timeout
   work with its interrupt's work; `VdecRunProofs`, its proofs; `MCVdecRun`, its
   instances.
3. `VdecInput` (written): blocks and chunks; `InputFifo` (written): the queue it
   implements; `MCVdecInput`, its instances; `VdecInputProofs`, its proofs: no
   frame is overwritten before it is released, the books are exact, and it
   implements `InputFifo`.
4. `StreamBuffer`, `EsParser`: levels with wrap, the search/fetch handshake, the
   threaded writer (`thread_rw.c`).
5. `TaskChain` and `Vpp` (written): ownership of picture buffers along the chain,
   from the decoder through post processing to the user and back; `MCVpp`, its
   instances; `VppProofs` (nobody gives up), `VppOwners` (owners and stages) and
   `VppOrder` (the order of pictures), its proofs. To come: `V4lDec`, the states
   of a context.
6. `PtsServer`: check-in and look-up by offset against a reference definition;
   `MediaSync`: reference counts and the start/pause/anchor machine.
7. `H264Dpb`: storage, output order and removal of pictures as functions over
   small buffers.
8. `MmuBox`, `VdecSync`, `Gates`: handles by index, fences, reference counts.
9. `EncQueue`, `Vcmd`: the encoder queues.

Theorems worth proving: the inductive invariant of the scheduler and that it
implements `CoreAlloc`, the one of a run, the one of the frame based input with
its refinement of `InputFifo`, the two of the capture buffers with one owner per
buffer and the order of pictures, and that the scheduler never sleeps on work (all
done: every invariant of a passing run is a theorem, most for every value of the
constants, the others under the hypotheses named in [Proofs](#proofs)).

## The scheduler (`VdecCore`)

### State

The variables carry the names of the fields they stand for. Those of
`struct vdec_core_s`: `sem` (the semaphore), `core_sched`
(`core->sched_mask`), `connected` and `before` (`connected_vdec_list` as a set
and an order), `last` (`last_vdec`, `last_hevc`, `last_hevc_back`), `active_hw`
(`active_vdec`, ...), `power_ref`, `buff_flag`, `stream_buff_flag`, `run_flag`.
Those of `struct vdec_s`: `status`, `next_status`, `core_mask`, `active_mask`,
`sched_mask`, `sched`, `done` (`inactive_done`), `input` (frames queued, or the
level of a stream), `consumed`, `need_more`. Of the drivers: `room` (free
display buffers), `pipe` (pictures between front and back core), `cb`
(works that are between `vdec_core_finish_run` and the callback). Locals of the
thread: `pc`, `idx`, `low`, `worker`, `sel`, `loaded`, `disconnecting`,
`retiree`. Of each port's user thread: `at`, `op`, `who`, `clear_seen`.

A set of cores stands for a bit mask of `enum vdec_type_e`. The active and last
pointers of the code exist for three cores; in the model for every core used.

### Actions

| actions | code |
|---|---|
| `Collect` | `down(&core->sem)`, then the two walks under `vdec_mutex` (release of finished cores and of the consumed chunk, the move to `disconnecting_list`), `vdec_update_buff_status` |
| `Elect`, `ElectNone` | one turn of the loop over cores: `vdec_schedule_mask`, `vdec_ready_to_run` on each instance from the one after the last user of the core |
| `Grant` | masks, last pointers and status of the elected instance |
| `LoadSched`, `Run` | `core->sched_mask \|= mask` as its load and its store, `vdec_prepare_run`, `vdec->run`, the `up` for another pass |
| `Retire`, `Complete` | removal of disconnected decoders: status, then the completion |
| `EndPass` | the re-poll at the end of a pass |
| `FinishRun`, `Callback` | the work of a driver: switch of layer, consumed chunk or stream data, `vdec_core_finish_run`; then `vdec_callback` |
| `AddChunk`, `AddStream`, `VfPut` | `vdec_input_add_chunk`; `stream_buffer_meta_write` or the parser's write pointer; a returned picture |
| `Open`, `Connect`, `Disconnect`, `WaitDone`, `WaitTimeout`, `Reset`, `DriverRemove`, `ClearLoad`, `ClearStore`, `Destroy` | the user thread of a port: create and init, connect, disconnect with its waits, reset, and release with the removal of the driver and `vdec_connect_list_force_clear` |

A step is what one lock, or no lock, makes atomic: `vdec_mutex` keeps
`vdec_core_finish_run` and the status change of `vdec_disconnect` out of the
collection and of the grant, so those are one step each; `core->sched_mask` is
updated without a common lock, so it is read and written in two.

### What the parameters choose

`CoreMask` and `Combined` say what the drivers ask for with
`vdec_core_request`: one core (MPEG-2), a front and a back core taken one at a
time (H.265 with `front_back_mode`), or several together (`CORE_MASK_COMBINE`).
`MasterOf` makes dual layer pairs. `Stream` and `ExtBuf` choose how data comes
in: frames from the user, a stream moved by the parser with no call, or a
stream announced by meta packets. `DisconnectMayTimeout` lets the two-second
waits of `vdec_disconnect` expire.

### Properties

* `CoreExclusive`, `CoresAccounted`: a core is scheduled for one instance; the
  busy mask and the instances' masks agree at every point where the thread
  reads them.
* `DisconnectQuiesces`: once `vdec_disconnect` has returned, the scheduler
  holds nothing of the instance nor of its other layer.
* `NoDanglingVdec`: no list, pointer or local of the scheduler refers to a freed
  instance.
* `NoLostWakeup`: with the semaphore at zero and no callback pending, there is
  no ready instance for a free core, no finished core and no idle leaver. One
  case is excepted, because the code has it: a meta packet that arrives between
  the reading of the level and the setting of the flag
  `VDEC_NEED_MORE_DATA` wakes nobody; the next packet does.
* `CombinedTogether`: an instance holds all of its combined cores or none.
* `OneTurn`: from the open of a dual layer port to the destroy of its master one
  layer has the turn, and only that layer decodes its input. The work of a layer
  hands the turn over with `vdec_set_next_sched` before it ends its run; its back
  core does not, and may still be at work on the other layer's turn.
* `DisconnectReturns`, `ServedInTurn`, `ReleaseEnds`: liveness.
* `ImplementsCoreAlloc`: every step is a step of `CoreAlloc` or a stutter, with
  owner of a core = the instance whose `sched_mask` has it.

### Left out

* Of `run_ready` (`vh265_fb.c` 15097-15247) the model keeps the two conditions
  that other parties change while the thread sleeps: a display buffer and a place
  in the ring to the back core. An instance with an error or at the end of its
  stream (15126-15130) has no more work to forget; the work of a timed-out run
  (15131-15139) is in `VdecRun`; `PRE_LEVEL_NOT_ENOUGH` (15163-15176) and
  `AGAIN_HAS_THRESHOLD` (15178-15192) raise the level at which a stream counts as
  having data. For the first, `vdec_ready_to_run` asks for more data like for a
  low level (4046-4048); the second asks for nothing: its stream is looked
  at again with the next event or poll.
* A level below `prepare_level` is no obstacle if enough records of time stamps
  have been checked in (`vdec_check_rec_num_enough`, `vdec.c` 3874-3897, 3997;
  outside the time stamp server it is so for every VLD input). `input` stands for
  both: a unit of it brings its records along. A record checked in on its own,
  which wakes nobody, is outside the model.
* The driver's removal (`vmh264.c` 11508-11517) first queues a work with
  `FORCE_EXIT` if the run has outlived the waits, and waits up to a second for it.
  In the model that run ends, or not, as any run on hanging hardware.

## Runs of the scheduler

All run `MCVdecCore`. The bounds are `MaxInput` (frames queued), `MaxRoom`
(display buffers), `MaxPipe` (front/back ring) and `MaxSem`, where the
semaphore saturates. The code's semaphore has no bound; a lower one can only
drop wake-ups, so `MaxSem = 1` is the stricter test of `NoLostWakeup` and
`DisconnectReturns`. One frame, buffer and ring place is enough to meet empty
and full, which is all the guards tell apart; two and three where the run says
so, for the states between.

| run | instance | shows |
|---|---|---|
| `frontback` | v1 on HEVC, v2 on HEVC and HEVC_BACK | safety and refinement while both ports open, reset and release freely (0.9 million states) |
| `live` | two on VDEC_1, fair | an instance is served although the other always has work |
| `dual` | a pair on VDEC_1, fair | the inductive invariant, turns, disconnect of both layers, its return |
| `combined` | v1 takes VDEC_1 and HEVC together, v2 a stream of meta packets on HEVC | combined cores are all or none; the need-more-data handshake and the wake-ups with `vdec_combine_flag` (0.8 million states) |
| `hang` | one parser-fed stream on front and back core, all bounds 2, hardware may hang, waits expire | the poll of the thread with a full ring and a busy back core; release ends; the system may stop afterwards, hence no deadlock check (0.3 million states) |

`forceclear` looks for a comment of `vdec.c` that the code does not keep, and
finds the counterexample: after expired waits the forced removal misses an
instance that the thread holds on its own list or has just elected; it is freed
anyway.

While any driver has asked for combined cores, the thread sleeps after a grant
although another free core may have a ready instance (4412; the comment above it
says "keep working until all vdecs are checked"). The next event resumes it, and
`NoLostWakeup` is therefore checked where it can hold: in `combined` the combined
instance takes every core, so a grant leaves none that another could have.

Two more comments are out of date in plain sight: the forced removal takes a
decoder off the list in the user's thread (`vdec.c` 3396; "only performed within
core thread", 4181), and `vdec_core_finish_run` writes the status of a managed
instance from the driver's work (3708; "will only be from vdec_core_thread",
2657), under `vdec_mutex` and so without harm.

## The frame based input (`VdecInput`)

### State and actions

`block_list`, `free_list`, `queue` (`vframe_chunk_list`), `wr_block`, `size`,
`default_size`, `wr_count`, `rd_count`, `no_mem_err` and, of the blocks, `bsize`,
`wp`, `chunk_count` carry the names of their fields, shortened; a chunk is a
record with its address, block, offset, extent (size and padding) and flag.
`secure` is `vdec_secure` of the instance. Locals: `wpc`, `wblk`, `wcnt` of the
user thread, `rpc`, `rchunk`, `rblock` of a releasing thread.

| actions | code |
|---|---|
| `Write`, `Recycle`, `GetFree`, `GetNone`, `Enough`, `Alloc`, `AllocFail`, `ChunkFail`, `Commit` | `vdec_input_add_chunk` and `vdec_input_get_free_block`: a step per lock region, and one where the user thread looks at `wr_block` without the lock; the copy happens while `wpc = "fill"` |
| `WriteSecure`, `GetFreedHandle` | the same for secure frames; `vdec_input_get_freed_handle` |
| `Consume` | `vdec_vframe_dirty` |
| `Peek`, `Check`, `Delete` | the loop of the core thread or of `vdec_clean_input`: `vdec_input_next_chunk`, the flag and the block read without the lock, `vdec_input_release_chunk` |
| `Reset`, `Drain`, `Drained`, `FreeBlocks`, `Prepare` | `vdec_reset` after `vdec_disconnect` has returned: `vdec_input_release`, `vdec_input_init`, `vdec_input_prepare_bufs` |

A reset that gets no block at all leaves the user thread with a freed one:
`vdec_input_init` (308-324) does not name `wr_block`, and `vdec_input_prepare_bufs`
sets it to NULL only after it got a block (341-348). `Prepare(<<>>)` then ends in
`wpc = "stale"` instead of `"idle"`; the next write is `WriteFreed`, which takes
space and write position from freed memory and copies the frame there: nothing is
modelled after it. Another reset instead (`Reset` from `"stale"`) may get blocks and
heal it. `WriterInv` and `NoOverwrite` except these two states by name, and nothing
else: everywhere else `wr_block` is a block in use or NULL.

Memory that has been freed may hold anything: what `Check` reads of a chunk that
is no longer in the queue is any flag and any block. Sizes are scaled (a cache
line is 1, a page 2, a block 4); the formulas are those of the code.

### Properties

* `NoOverwrite`: what the user thread copies without the lock stays inside a
  block that is in use, clear of every frame that waits for the decoder.
* `Accounts`: no block is on two lists or twice on one; `size` is the memory
  held (`Memory`, a set of bytes); `chunk_count` counts the frames of a block.
* `LevelExact`: the level is the number of bytes that wait (`Filled`), across the
  wrap of the totals.
  Secure inputs are excepted: a secure frame adds its size and a cache line to
  `total_wr_count` but its page-aligned size to `total_rd_count`
  (`vdec_input.c` 956, 1000, 1134), so their level falls and falls. It is only
  reported, by ioctl.
* `ImplementsFifo`: `InputFifo` is a queue of frames with bytes of their own, of
  which only the first may be used and only a used one goes.
* `InputInv`: why all this holds, as an inductive invariant (below, Proofs).
* `WriterProgress`: a player that retries goes on getting frames in. The
  exception in it is real. The writer leaves a block that is too full while it
  is still `wr_block`; its last frame is released; the writer moves on to
  another block. Release did not free the block because it was `wr_block`, and
  nobody looks at it again. Blocks so stranded count against the limit on the
  memory of an input until the input is released, and `vdec_input_release` says
  "should never here" of a block it still finds in use (1190).

### Runs

Three blocks, two of them prepared (one in `input_live`; fewer when an
allocation fails), three chunks (two in `input_live`), frames of one and of seven units:
small ones share a block, a large one makes the default size grow beyond its
maximum to an aligned size, and three blocks are more than the memory limit
allows to allocate. The totals wrap at 64 (34 in `input_live`), more than twice the
largest level, as 2^32 is. More than one queued frame counts as "many".

* `input_safe`: all of the invariants and `ImplementsFifo`, for copied and for
  secure frames, with failing allocations and resets (2 million states).
* `input_live`: `WriterProgress` (0.75 million states). Fairness: the player
  retries (`amstream_vframe_write` does, and then its caller), the decoder
  decodes the frame it has, decoded frames are released; the scheduler's own
  liveness is the subject of `VdecCore`.

### Outside these runs

One thread releases: the works of a driver and the core thread take turns.
With two, as a comment in `vdec_input_release_chunk` expects, the test of the
address does not protect a new frame at the address of a freed one, and
`ImplementsFifo` fails. A write to a freed block ends the model (see above). The
comment "ret >= 13: have enough buffer" is met by a test for more than 13 (770), and `MAX_FRAME_DURATION_S`, in
seconds, is compared with microseconds (726). Not modelled: the contents of
frames (the result of the copy is ignored, 149), time stamps (the duration
test is either answer), the circular block type, which nothing selects, the
swap page, and releases while a `vdec_disconnect` has timed out.

## Fairness of the scheduler

`FairSpec` assumes weak fairness of the core thread (a runnable kernel thread),
of each core's run to end (every driver arms a timer when it starts a run, whose
timeout work ends it, `decoder/h264_multi/vmh264.c` 10296-10307), of the callback, and of a user thread inside a call.
Nobody has to open, close, feed or display. Strong fairness is not needed.
`HangSpec` drops the fairness of the core thread and of the runs and lets the
waits expire: what is left is what `vdec_release` itself does.

## One run of a decoder (`VdecRun`)

`VdecCore` takes the run of a driver to be one step, `FinishRun`. `VdecRun` opens
that step: what happens between the grant of a core and its return, when an
interrupt with its thread, two works, a timer and a user who resets the instance
may all touch the run. It follows the H.264 driver for V4L2
(`frame_provider/decoder_v4l/h264_multi/vmh264.c`; bare line numbers in this
section are lines of it), whose shape - run, isr, isr thread, work, timeout work,
timer - the other drivers share, on the core VDEC_1.

### State and actions

`active_vdec`, `status`, `next_status` and `active` (instances with
`active_mask`) are the scheduler as a run sees it; `granted` is the instance
whose `run()` is about to be called, `lag` is `irq_cnt - irq_thread_cnt`. `cpu`,
`dpb_status` (`DPB_STATUS_REG`), `mbox` are the hardware; `thread` and `served`
the interrupt thread and the instance it looked up; `queue`, `worker`, `work` the
ordered workqueue. `dec_status`, `dec_result`, `timed`, `timer`,
`timeout_processing`, `eos` are the driver's.

| actions | code |
|---|---|
| `Grant`, `RunFails`, `RunStarts`, `Retire` | the core thread: `vdec_ready_to_run` with the driver's `run_ready`, `vdec_save_active_hw`, the early exits and the end of `run`, the removal |
| `HwReports`, `HwHangs` | the processor of the core (external) |
| `vdec_isr`, `ThreadStarts`, `ThreadHandles`, `ThreadQueues`, `ThreadCounts` | `vdec_isr`, `vh264_isr`; `vdec_thread_isr` with its second look at `active_vdec`; `vh264_isr_thread_fn`: go on, or decide a result and queue the work |
| `TimerExpires`, `TimeoutChecks`, `TimeoutStops`, `TimeoutQueues` | `check_timer_func` and, in three steps, `timeout_process` |
| `WorkBegins`, `WorkActs`, `WorkMasks`, `WorkFinishes`, `WorkReturns` | `vh264_work`, `vh264_timeout_work` and `vh264_work_implement`: the result (`WorkConfigures`, `WorkWaits`, `WorkRetries`, `WorkStops`), the mailbox and `del_timer_sync`, `vdec_core_finish_run`, the callback |
| `Disconnect`, `Reset` | `vdec_disconnect` up to its wait; `reset` of the driver and `vdec_connect` |

`head` stands for every report after which the hardware goes on within a run;
`config`, `done` and `empty` for those that end in a work. `head` also stands for
the end of one picture in a chunk that holds several: the run goes on with the
next one, unless there is no buffer for it, and then the work queues itself until
there is (`NEED_MORE_BUFFER`, `WorkWaits`). The results of type `GET_DATA` answer
a report, `H264_DATA_REQUEST`, that the code has disabled (185-188) and are left
out.

### What the parameters choose

`MaxReports` bounds the reports of one run. `MayHang` lets the hardware hang.
`Late` lets the time run out although an answer is still on its way; without it
the time-out is long enough for whatever does not hang, threads and works
included. `Leaver` is the set of instances the user resets.

### Properties

* `RunStartsClean`: at `run()` no work of the instance is left that would end the
  new run.
* `HardwareOwned`: the hardware works only in a run of the active instance.
* `InterruptsMatched`: the two counters of an instance differ exactly while the
  thread serves an interrupt of it, so that `vdec_ready_to_run` waits for that
  thread and no other, and never for ever.
* `HandledInItsRun`: the thread handles an interrupt in the run that raised it,
  although it looks the instance up again.
* `RunEnds`: every run ends, a hanging one too, unless its work waits for a buffer
  for ever. `Reconnects`: a user who disconnects and resets gets an instance that
  is scheduled again; in particular the disconnect ends the wait for a buffer.

### Runs

* `run`: two instances, two reports, hanging hardware, resets of one instance at
  any time, fair (0.4 million states). With two reports a run goes on twice: it
  asks for parameters, or starts another picture of a chunk and finds no buffer,
  before it ends; with two instances a leftover of one can hit the run of the
  other.
* `late` finds how two works end runs when something answers as late as the
  time-out: `timeout_process` looks for works, stops the hardware, and then looks
  only for a *pending* work (7248); one that is executing by then is missed, both
  works are executed, and the second ends the next run.

Fairness: runnable threads and works run, interrupts and timers come, hardware
that does not hang reports. Nobody has to disconnect.

### What the model showed besides

The older copy of the driver, `frame_provider/decoder/h264_multi/vmh264.c`, lets
the timer end the run of an instance that is to leave (8207-8217), while the
interrupt thread may still set a result and queue the work. That branch, which
the copy for V4L2 no longer has, is not part of the model; with it added the
second end of the run sets an instance that has been disconnected `CONNECTED`
again, `vdec_connect` then does nothing, `next_status` stays `DISCONNECTED`, and
`Reconnects` fails. `reset()` cancels `work` but not `timeout_work` (10013); that
none is left is part of `RunStartsClean`. A time-out that meets a busy work is
not repeated, because `start_process_time` has been cleared (7475): such a run
ends only by that work.

## The capture buffers (`TaskChain`, `Vpp`)

### The way of a buffer

A capture buffer comes from the user (`QBUF`), waits on the ready list, becomes
the *token* of the decoder or of the post processor, is allocated by one of
them, carries a picture, goes to the user and comes back. Paths here are in
`amvdec_ports/`; the decoder is `decoder_v4l/h264_multi/vmh264.c`.
`TaskChain` is `aml_task_chain.c`: the stages of one buffer, which stage follows
which, and the slots in which a stage remembers the picture it has handed on.
`Vpp` extends it with the threads that move buffers.

| state | code |
|---|---|
| `new`, `ready`, `token_table`, `pool` | buffers not yet queued; the ready list; `token_table`; `cap_pool.seq` (who allocated the buffer) |
| `chain` | `fb->task`, a value of `TaskChain` |
| `capture`, `posting`, `user` | `capture_buffer`, each buffer with its `fb->vframe`; the one the capture worker is about to show; buffers the user has dequeued |
| `dec`, `dec_token`, `spec` | what the decoder does, its token, its buffers (`buffer_spec`: none, free, used, out, kept for reference) |
| `vf_ref`, `more`, `newframe` | how many vframes of a buffer are out; the frame whose second field is still to come (the loop of `post_video_frame`); how many vframes `newframe_q` has |
| `input`, `output`, `frame`, `in_done_q`, `out_done_q`, `sem_in`, `sem_out` | fifos and semaphores of the post processor; an input buffer is only a place, so `input` is their number |
| `pc`, `out_buf`, `fb_token`; `reading`, `filling`; `done`, `putting`, `emptied`; `held` | its thread; the DI's inputs and outputs; where its two callbacks are; `in_num[0] - in_num[1]` |
| `phase`, `offs`, `mode`, `clock` | the stream ("broken" after a lost race), how often it ended, mode of post processing, next time stamp |

| actions | code |
|---|---|
| `HaveFree`, `GetFree`, `Unref` | `have_free_buf_spec` with `fb_buff_query`; `v4l_get_free_buf_idx` with `fb_buff_from_queue`; the release of references |
| `Output`, `SecondField`, `Hide`, `CountRaces` | `post_video_frame`, a step per vframe, each with `task_buffer_submit` and `aml_v4l2_vpp_push_vframe` (`HandOver`) |
| `WaitIn`, `WaitOut`, `TakeOut`, `AskBuffer`, `Bind`, `Pair` | `aml_v4l2_vpp_thread`, a step per lock region or wait |
| `FillDone`, `Submit`, `PutCapture` | the DI's callback for an output, in three steps: `v4l_vpp_fill_output_done` and its variant; `vpp_vf_get` and the look of `fill_capture_done_cb` at the stream; what it does then |
| `EmptyDone`, `Recycle` | the one for an input: the look of `v4l_vpp_empty_input_done` at the stream; what it does then, with `vh264_vf_put` |
| `WorkerGet`, `Post` | `aml_thread_capture_worker`: its look at the stream; `post_frame_to_upper` |
| `QueueNew`, `QueueAgain` | `vb2ops_vdec_buf_queue`, for a used buffer with `task_buffer_recycle`, `vpp_vf_put` and `vh264_vf_put` |
| `StreamOff`, `StopDecoder`, `Drain`, `StreamOn` | `vidioc_decoder_streamoff`, `vb2ops_vdec_stop_streaming`, `vidioc_decoder_streamon` with `aml_v4l2_vpp_reset` |

`mode` is what `vpp_needed` and `v4l_buf_size_decision` choose: interlaced
pictures are written to a buffer of their own, progressive ones back to the
buffer they came in, each with the DI's own memory (`alloc`) or without.

An interlaced frame goes out as two vframes of one capture buffer, its fields
(`vf_count = 2`, vmh264.c 2642-2656), when a post processor is in use; any other
frame (`is_interlace`) as one, which `Output` chooses. Each has its own slot in the decoder's stage, input buffer, permit and
stamp; `vf_ref` counts them, and `vh264_vf_put` gives the buffer back with the
last one (`PutVframe`). The loop may find the stream off before the second one,
or the first one back already, whose return has cleared `show_frame`
(`set_frame_output_flag`): the second one is then put back at once, never shown.
`Hide` is a frame that is put back without being shown at all, or for which
`newframe_q` is empty.

The callbacks and the worker look at `is_stream_off` first and act later: the
stream may end, and even start again, in between. Three races leave nothing to
rely on, and the model ends there, in phase "broken", with every step before it:
`vf_ref++` of the second field, under no lock, while `vh264_vf_put` of the first
one decrements it (`CountRaces`); a worker that reads `fb->vframe` when
`vb2ops_vdec_stop_streaming` has cleared it (`Post`); and a worker that shows a
buffer of the last stream in the next one (`StreamOn`).

### Properties

* `OneOwner`: a capture buffer is in exactly one place - the user, the driver's
  queue, a token, the decoder, the post processor, the DI, on its way out -
  across three threads, two callbacks and the user; and `vf_ref` of an interlaced
  buffer is the number of its fields that wait, are read or are given back, so it
  does not come back under its second field.
* `RecycleFindsPicture`: a picture that is given back is the one its stages hold:
  the slots never run out, nothing stale is popped, and of two fields, which take
  two of the three slots, each gives back itself.
* `NeverGivesUp`: the thread never leaves its loop, and the decoder finds the
  buffer `have_free_buf_spec` has promised.
* `InOrder`: pictures on their way, each field one, are consecutive; none is lost
  or overtaken.
* `KeepsPlaying`: the user gets pictures for ever, unless a race is lost.
* `VppInv`, `PictureInv`: why nobody gives up and nothing is lost, as inductive
  invariants (below, Proofs).

### Runs

* `vpp`: three capture buffers, two for the decoder and one for the post
  processor, two outputs, two input buffers and two vframes for each capture
  buffer, one end of the stream at any point and a new start in either mode,
  interlaced without and progressive with local buffers (0.68 million states).
  With three buffers the decoder and the post processor compete for the second
  one, and two interlaced frames, four fields, can be under way at a time; two
  outputs make the thread wait for them. Time stamps count modulo `Times = 2`,
  which tells a lost, doubled or swapped neighbour. `MaxPermits` saturates
  `sem_out`, which is given once per returned buffer and never taken back when
  the thread finds an output without waiting; a lower bound can only lose wake-ups.
* `vpp_reduced` finds that in the progressive mode without local buffers the post
  processor never gets its input buffers back: after as many pictures as it has
  of them (64 in the code, three here), `aml_v4l2_vpp_push_vframe` drops the next
  one, and its capture buffer is nobody's.

Fairness: the decoder, the thread and the worker run; the DI answers both requests
and its callbacks go on; the user queues every buffer; a stream that has begun to
end ends and starts again (weak, one conjunct for each party). Of `Output` it is
strong: the decoder may hide frames, but not every one. Nobody has to end the
stream, and the model's end in "broken" is excepted by the property itself.

### Assumptions and omissions

The DI is not in this repository: it answers in order, and when `StreamOn` sets
the fifos up again it is assumed to have answered, for nothing tells it to stop
(859). Left out: the marker of the
end of the stream, the S4 mode, the dynamic bypass and the pictures it leaves in
`vpp_bypass`, ge2d, the frame stores of the decoder (`used_size`), reference
counts of items and chains, fences.

## Proofs

`VdecCoreProofs` proves for every set of instances, cores, masks, pairs and
every bound that satisfies the named assumptions of `VdecCore`:

* `TypeCorrect`: `Spec => []TypeOK`, with or without timeouts.
* `Inductive`: `Spec => []IndInv`, if the waits of `vdec_disconnect` do not
  expire (with timeouts the invariant is false: see `forceclear`), and from it
  `MutualExclusion`, `Accounting`, `Quiescence` and `NoDangling`.

`CoreExclusive` is not inductive: that a granted core was free when the grant
is stored depends on who may change `core->sched_mask` meanwhile. `IndInv`
therefore says, part by part: `CoreInv` - what is elected or granted but not
stored is disjoint from the busy mask, and the value the thread has loaded is
current; `ListInv` - being managed means being on one of the two lists, only
listed instances hold cores, and a completion is pending only for an instance
the thread has let go; `UserInv` - where the user thread of a port can be while
the thread still holds an instance (waiting for it, or for its partner);
`PtrInv` - elected instance and core pointers are on the list; `ConsumedInv` -
a consumed chunk exists. The last four together give `Quiescence`: a return of
the wait needs the completion, which needs the instance off both lists, and off
the lists it has no cores and no pointer to it. The proof has one lemma per
conjunct, and under it one step per action that can disturb it. The run
`dual` checks `IndInv` by TLC.

`VdecCoreRefinement` proves from `IndInv` that `Spec` implements `CoreAlloc`
under the refinement mapping of `ImplementsCoreAlloc`, again without timeouts:
a step of the thread that changes the masks is a `HandOut` or a `TakeBack`
(`CoresAccounted` makes a core that the thread believes free one without an
owner), connect and disconnect are `Join` and `AskToLeave`, and every other step
leaves owners, members and leavers as they are.

`VdecCoreWork` proves what is handed out to whom, and that nobody is forgotten:

* `StaysTogether: Spec => []CombinedTogether`, with or without timeouts.
  `WholeInv` adds to it what the driver has asked for and what is elected but not
  yet granted: all of the cores, or none.
* `TakesTurns: Spec => []OneTurn`, with or without timeouts, although an instance
  that left by a timeout may still be granted cores. It uses that a driver which
  does not combine decodes its input on one core (`OneInputAssumption`; the calls
  of `vdec_core_request` name VDEC_1 or HEVC, not both, unless they add
  `CORE_MASK_COMBINE`). `TurnInv` adds the instance between its election and its
  run, and what is left of the turn when the port is closed; `OwnInv`, that an
  instance holds only cores it asked for and is given none that it has, so that
  the layer which hands over its turn has nothing else to decode.
* `NeverSleepsOnWork: Spec => []NoLostWakeup`, if no driver combines cores (the
  default, `parallel_decode = 1`, `vdec.c` 152; with combined ones it is not true,
  see above) and the waits do not expire (the forced removal frees cores without
  waking the thread). `WakeInv` says what the thread may believe at each point of
  a pass: unless another pass is sure to come (`Awake`: a count in the semaphore
  or a callback on its way), the cores it has considered so far are busy or of no
  use to anybody (`Settled`), each listed instance being `Blocked` by something
  whose end ups the semaphore, and the cores of polled streams are marked in
  `stream_buff_flag`. The delicate steps are the look at a stream
  (`PassedOver`, `StaysBlocked`): it withdraws the request for more data of an
  instance that was passed over earlier in the same pass, but only when the level
  has risen, and then a missing display buffer or ring place blocks it; and the
  end of a pass (`EndPassWake`): if the poll finds nothing to do, every polled
  stream has its cores in use.

TLC has checked these invariants on the instances of `dual`, `frontback`,
`combined` and `hang`, and on pairs with expiring waits, before they were proved.

`VdecInputProofs` proves, for every number of blocks and chunks, every set of
frame sizes and every size, limit and wrap that satisfies `InputAssumption`, with
failing allocations, resets, copied and secure frames:
`InputInvariant: Spec => []InputInv`, from it `FramesKept` (`NoOverwrite`),
`BooksExact` (`Accounts`) and `LevelIsExact` (`LevelExact`), and `InputIsFifo`,
that `Spec` implements `InputFifo`. All of them assume one releasing thread, and
need it: with two, the model has the counterexample described above (Outside
these runs). `LevelIsExact` also assumes `2 * size < Wrap`: the level is the
difference of two 32 bit counters read as an `int`, and `size` is an `int` itself.

`NoOverwrite` is not inductive, because the user thread copies without the lock:
that there is room at `wp[wblk]` was found out some steps ago, and a block whose
last frame is released meanwhile goes back to the free list with `wp` at zero.
`InputInv` says, part by part: `ListsInv` - a block is on one list, and free ones
are empty; `FramesInv` - waiting frames lie in blocks in use, below `wp`, apart
from each other, and secure ones alone in their block; `CountsInv` - the counts
are those of the bytes; `WriterInv` - what the user thread remembers of its block
still holds, because release spares `wr_block`, except after a reset that got no
block (`"stale"`, `"freed"`), when no frame and no block is in the input; `ReleaserInv` - the chunk a
releasing thread has looked at is still the first one, which is why its second
look need only compare addresses. The arithmetic lemmas say that a frame which
passes the test of a free block, or for which the default size was raised, fits
with its padding (`NeedFacts`, `GrownFacts`, `AlignUpFacts`); the
lemmas about sets of bytes turn `size += bsize` and `chunk_count--` into
cardinalities. For the refinement, `Commit` is a `Put`, `Consume` a `Use`,
`Delete` and `Drain` a `Take`, `Reset` and `Drained` a `Close` and a `Reopen`; every
other step leaves the queue as it is.

`VdecRunProofs` proves, for every set of instances and any `MaxReports`, with
hanging hardware and resets, if nothing answers as late as the time-out
(`~ Late`; with it `late` is a counterexample):
`Responsible: Spec => []RunInv`, and from it `RunTyped`, `StartsClean`, `Owned`,
`Matched` and `InItsRun`. None of the properties is inductive: that no work is
left at `run()` depends on who may queue one, and when. `RunInv` says that at any
time exactly one party is responsible for a run - `run()`, the hardware, its
raised interrupt, the thread, a work, or the timer: `OneRun` ties the run to the
active instance, `InterruptInv` says that an interrupt or a thread that handles
one excludes works, `WorkInv` that at most one work is queued or executed and
the hardware is then quiet, `TimerInv` that the timer function acts only on hung
hardware, when nobody else does. The proof has one lemma per action and one step
per conjunct.

`VppProofs` proves, for every number of capture buffers, every size of the fifos
and every set of modes that satisfy `VppAssumption`:
`Fits: Spec => []VppInv`, and from it `GoesOn: Spec => []NeverGivesUp`. Whether
the decoder finds its buffer depends on a token it asked for earlier, which the
post processor, the user and the end of the stream all touch; so `VppInv` says
of every buffer what its place implies. `ReadyApart` and `TableApart`: new
buffers, ready ones and tokens are different buffers, and nobody has allocated
them. `InUse`: a buffer in use is allocated, by whom its use says. `TokensApart`:
the decoder's token outlives the stream, whose end clears the table of tokens,
so it may name a buffer that is now somebody else's; but the post processor asks
for a token only when it has a picture, whose buffer the decoder has allocated
in this stream with a token of this stream, hence the two never hold the same
one. `FieldsCounted`: `vf_ref` is the number of slots the decoder's stage has in
use, the vframes that are not free are the counted ones, and a buffer with a
field out is "out", so a field that is given back never takes a free buffer away
from the decoder between the promise and its use (`Promise`). `ChainsFit`: a slot
remembers a picture of its own buffer, and what a callback has in hand is the one
picture that is done. `Accounts`: one permit of `sem_in` per picture that waits,
one frame per output at hand, so the thread never finds a fifo empty. One lemma
per action, one step per conjunct; lemmas about the operators of `TaskChain` come
first.

`VppOwners` and `VppOrder` prove, under the same assumptions and `InputsForAll`:
`PicturesFit: Spec => []PictureInv`, from it `OwnedOnce` (`OneOwner`) and
`FindsItsPicture` (`RecycleFindsPicture`), and `ShownInOrder` (`InOrder`).
`InputsForAll` says two things, and `vpp_reduced` shows what happens without them.
There are two input buffers and two vframes for each capture buffer, one for each
field: the code has 64 of both (`VPP_FRAME_SIZE`, `aml_vcodec_vpp.h:43`;
`VF_POOL_SIZE`, `vmh264.c:409`) and asks the user for at most 32
(`V4L_CAP_BUFF_MAX`, `aml_vcodec_drv.h:75`). And every progressive mode has the
DI's own memory; in the others the input buffers never come back.

`OneOwner` is not inductive: a picture is lost when no input buffer is free, or
when a chain leads it nowhere, and it is given back wrongly when a slot still
holds another one. So `PictureInv` says: `InputsCount` - an input buffer is free,
holds a picture that waits, is at the DI or is being given back, and as many
fields are out as the decoder has counted; `ChainsLinked` - the chain of every
buffer on its way leads on to the next stage and back; `StagesRemember` - a stage
holds exactly the picture that is on its way behind it, and a buffer that is with
no user has nothing in its last stage; `FieldsRemembered` - the decoder's stage
holds the one or two fields that are out and no other ones, the first in a lower
slot, and they come back in the order in which they went (`Pipe`), so the first
slot in use, which `task_item_vframe_pop` takes, is the right one; and, once the
stream has ended, `LeftWithUser` - what the user still has, or the worker is about
to show, keeps its chain and its pictures until everything is taken back, whatever
late callbacks do. That an input buffer is free when the decoder hands a picture
over is a pigeonhole argument. Progressive (`InputLeft`): if none were, the
pictures that wait and are at the DI would be in different buffers, by `OneOwner`,
and the one of the new picture would be one more. Interlaced (`RefsLeft`,
`FieldLeft`): the fields that are out are the counted ones, at most two of a
buffer and fewer of the one at hand. The owners are a sum of counts, ten or twelve
by mode; lemmas about counting in queues say what an `Append` and a `Tail` change,
and each action moves one unit from one count to another. Input and slots are only
kept while the stream is on: `StreamOn` sets them up again, from the emptied
queues `VppInv` promises.
In `VppOrder` a step either moves a picture from the head of one queue to the end
of the next, through `putting` and `posting` too, which leaves the sequence of
stamps as it is, appends the next stamp, or takes the oldest one.

## What is only model-checked

Liveness (`DisconnectReturns`, `ServedInTurn`, `ReleaseEnds`,
`WriterProgress`, `RunEnds`, `Reconnects`, `KeepsPlaying`), which is out of the
prover's reach, and `NoLostWakeup` where the theorem's hypotheses do not hold: with
combined cores (`combined`) and with expiring waits (`hang`).

## Not modelled

Of the scheduler: `DECODER_ON_PROCESS`, the single
decoder mode (`parallel_decode = 0`), `step_mode` and other debugging switches,
the end-of-stream and CRC-error skips of `vdec_ready_to_run`, frame rate hints.
The need-more-data flags are read and written without a lock; the model makes
each update one step and keeps the one gap that matters, between reading the
level and setting the flag. The switch of layer and `vdec_core_finish_run` of
one work are one step: nothing the thread does in between depends on a turn
that has no free core. The removal of a driver is taken to wait for its works,
as `vmh264` does with `cancel_work_sync`. The load and store of the
busy mask in the collection are one step: only a forced removal could come
between.

Of the interrupt bridge: the HEVC and back interrupts, which take the same code
with an active pointer and counters of their own, and the receivers that other
drivers register.

Of the H.264 driver: the decoded picture buffer. Its interleaving is that of
`vh264_vf_put`, which writes to the frame store of a returned picture, with the
loops of `store_picture_in_dpb`; with output order, sliding window and every
conforming sequence of only three pictures that has more than ten million
states, and a smaller instance never fills the buffer.

Of the other parts: everything under 4 and 6 to 9 of the plan, and `V4lDec`. The
325 C files of the drivers have 544 000 lines; the models stand for the control
of less than a hundredth of them. Nearly all of the rest parses bitstreams,
fills and reads registers, tables and firmware of sixteen codecs, most of them
twice (`decoder`, `decoder_v4l`): it has no states and interleavings a model of
this kind would check, and its correctness is agreement with hardware and
standards that are not in the repository. The helpers named last in the
inventory have no behaviour worth a model.
