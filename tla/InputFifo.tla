------------------------------ MODULE InputFifo ------------------------------
(***************************************************************************)
(* What the frame based input promises, without blocks lists, counters,    *)
(* locks or threads: frames are kept, each in bytes of its own, in the     *)
(* order in which they were written; the first one may be used, and only a *)
(* frame that has been used goes, unless the input is being closed.        *)
(* VdecInput implements this (ImplementsFifo there).                       *)
(***************************************************************************)
EXTENDS Integers, Sequences

VARIABLES
  frames,  \* [id, block, from, to, used]: a frame fills the bytes from..to-1 of a block
  closing

fifoVars == <<frames, closing>>

Apart(f, g) == f.block = g.block => f.to <= g.from \/ g.to <= f.from

FifoInit == frames = <<>> /\ closing = FALSE

(* vdec_write_vframe                                                       *)
Put ==
  /\ ~ closing
  /\ Len(frames') > Len(frames)
  /\ LET f == frames'[Len(frames')]
     IN /\ frames' = Append(frames, f)
        /\ ~ f.used
        /\ f.from < f.to
        /\ \A i \in 1..Len(frames) : f.id # frames[i].id /\ Apart(f, frames[i])
  /\ UNCHANGED closing

(* vdec_vframe_dirty                                                       *)
Use ==
  /\ frames # <<>>
  /\ frames' = [frames EXCEPT ![1].used = TRUE]
  /\ UNCHANGED closing

(* vdec_input_release_chunk                                                *)
Take ==
  /\ frames # <<>>
  /\ frames[1].used \/ closing
  /\ frames' = Tail(frames)
  /\ UNCHANGED closing

(* vdec_input_release begins and ends.                                     *)
Close == closing' = TRUE /\ UNCHANGED frames
Reopen == frames = <<>> /\ closing' = FALSE /\ UNCHANGED frames

FifoNext == Put \/ Use \/ Take \/ Close \/ Reopen

FifoSpec == FifoInit /\ [][FifoNext]_fifoVars
=============================================================================
