----------------------------- MODULE VdecInput -----------------------------
(***************************************************************************)
(* The frame based input of a decoder instance                             *)
(* (src/drivers/frame_provider/decoder/utils/vdec_input.c).                *)
(*                                                                         *)
(* Compressed frames are kept in memory blocks.  The user thread appends a *)
(* frame to the block it writes to (wr_block), or goes on to another one:  *)
(* a free block, or a new one unless there are enough.  A frame is a chunk *)
(* on vframe_chunk_list.  The decoder flags the chunk it has decoded as    *)
(* consumed; the core thread or the work of the driver then releases it,   *)
(* and a block whose last chunk is released is freed or becomes a free     *)
(* block.  With a secure decoder each frame comes in a buffer of its own,  *)
(* and the block that stands for it goes when the chunk is released.       *)
(*                                                                         *)
(* input->lock protects the lists, but the user thread chooses its block   *)
(* and fills it without the lock, and a releasing thread looks at the      *)
(* chunk before it takes it.  An operator that no other one uses and that  *)
(* stands in front of its correct form is a deliberate mistake that a      *)
(* property notices.                                                       *)
(***************************************************************************)
EXTENDS Integers, Sequences, FiniteSetsExt

CONSTANTS
  Block,        \* addresses of struct vframe_block_list_s
  Chunk,        \* addresses of struct vframe_chunk_s
  NoBlock,      \* NULL
  Releaser,     \* threads that release chunks
  Count,        \* sizes of the frames the user writes
  CacheLine,    \* L1_CACHE_BYTES, MIN_FRAME_PADDING_SIZE
  PageSize,
  ExtraPad,     \* EXTRA_PADDING_SIZE, HEVC_PADDING_SIZE
  BlockSize,    \* default_block_size after vdec_input_prepare_bufs
  BlockSizeMax, \* VFRAME_BLOCK_SIZE_MAX
  BlockAlign,   \* 128 KB, the alignment of codec_mm
  Prepared,     \* blocks allocated by vdec_input_prepare_bufs
  MinLevel,     \* VFRAME_BLOCK_MIN_LEVEL
  MaxLevel,     \* VFRAME_BLOCK_MAX_LEVEL
  MaxTotal,     \* VFRAME_BLOCK_MAX_TOTAL_SIZE
  MaxFrames,    \* "have_frame_num > 30"
  Wrap,         \* the totals are taken modulo this: 2^32 in the code
  SecureModes,  \* the values of vdec_secure(vdec) to consider
  MayFail,      \* allocations may fail
  MayReset      \* the port may be reset

ASSUME InputAssumption ==
  /\ NoBlock \notin Block
  /\ IsFiniteSet(Chunk)
  /\ Count \subseteq Nat \ {0}
  /\ CacheLine \in Nat \ {0} /\ PageSize \in Nat \ {0} /\ ExtraPad \in Nat
  /\ CacheLine <= ExtraPad
  /\ BlockSize \in Nat \ {0} /\ BlockSizeMax \in Nat /\ BlockSizeMax < 16 * BlockSize
  /\ BlockAlign \in Nat \ {0}
  /\ Prepared \in Nat /\ MaxFrames \in Nat
  /\ MinLevel \in Nat /\ MaxLevel \in Nat /\ MaxTotal \in Nat
  /\ Wrap \in Nat \ {0}
  /\ SecureModes \subseteq BOOLEAN
  /\ {MayFail, MayReset} \subseteq BOOLEAN

VARIABLES
  secure,       \* vdec_secure(vdec), which does not change
  (* struct vdec_input_s *)
  block_list,   \* vframe_block_list, as a set: its order is never used
  free_list,    \* vframe_block_free_list
  queue,        \* vframe_chunk_list, of struct vframe_chunk_s; its length is have_frame_num
  wr_block,
  size,         \* memory of all blocks
  default_size, \* default_block_size
  wr_count, rd_count,  \* total_wr_count, total_rd_count
  no_mem_err,   \* no_mem_err_cnt, only compared with 3: it stays at 4
  (* struct vframe_block_list_s *)
  bsize, wp, chunk_count,
  callback,     \* blocks whose owner gave a free function
  (* the user thread *)
  wpc, wblk, wcnt,
  (* the releasing threads *)
  rpc, rchunk, rblock

listVars  == <<block_list, free_list, queue, wr_block, size>>
countVars == <<default_size, wr_count, rd_count, no_mem_err>>
blockVars == <<bsize, wp, chunk_count, callback>>
userVars  == <<wpc, wblk, wcnt>>
relVars   == <<rpc, rchunk, rblock>>
vars == <<secure, listVars, countVars, blockVars, userVars, relVars>>

Elements(s) == {s[i] : i \in 1..Len(s)}

(* extent: size + padding_size; consumed: VFRAME_CHUNK_FLAG_CONSUMED.      *)
ChunkStruct == [id : Chunk, block : Block, offset : Nat, extent : Nat, consumed : BOOLEAN]
Addresses(s) == {s[i].id : i \in 1..Len(s)}

TypeOK ==
  /\ secure \in BOOLEAN
  /\ block_list \in SUBSET Block
  /\ free_list \in Seq(Block)
  /\ queue \in Seq(ChunkStruct)
  /\ wr_block \in Block \cup {NoBlock}
  /\ size \in Nat /\ default_size \in Nat
  /\ wr_count \in 0..(Wrap - 1) /\ rd_count \in 0..(Wrap - 1)
  /\ no_mem_err \in 0..4
  /\ bsize \in [Block -> Nat] /\ wp \in [Block -> Nat]
  /\ chunk_count \in [Block -> Nat]
  /\ callback \in SUBSET Block
  /\ wpc \in {"idle", "recycle", "get", "enough", "alloc", "fill", "drain", "drained", "prepare",
             "stale", "freed"}
  /\ wblk \in Block \cup {NoBlock}
  /\ wcnt \in Count \cup {0}
  /\ rpc \in [Releaser -> {"idle", "check", "del"}]
  /\ rchunk \in [Releaser -> Chunk \cup {NoBlock}]
  /\ rblock \in [Releaser -> Block \cup {NoBlock}]

(* vdec_input_init; vdec_input_prepare_bufs is the next step.              *)
Init ==
  /\ secure \in SecureModes
  /\ block_list = {} /\ free_list = <<>> /\ queue = <<>> /\ wr_block = NoBlock
  /\ size = 0 /\ default_size = BlockSize
  /\ wr_count = 0 /\ rd_count = 0 /\ no_mem_err = 0
  /\ bsize = [b \in Block |-> 0] /\ wp = [b \in Block |-> 0]
  /\ chunk_count = [b \in Block |-> 0]
  /\ callback = {}
  /\ wpc = "prepare" /\ wblk = NoBlock /\ wcnt = 0
  /\ rpc = [r \in Releaser |-> "idle"]
  /\ rchunk = [r \in Releaser |-> NoBlock]
  /\ rblock = [r \in Releaser |-> NoBlock]

-----------------------------------------------------------------------------
(* Sizes.                                                                  *)

AlignUp(n, a) == n + ((a - (n % a)) % a)
PageAlign(n) == AlignUp(n, PageSize)

(* need_padding_size: frames of less than a page fill whole pages, longer  *)
(* ones whole cache lines, and at least one cache line follows the data.   *)
Padding(n) == IF n < PageSize THEN PageAlign(n + CacheLine) - n
              ELSE CacheLine + (AlignUp(n, CacheLine) - n)
Need(n) == n + Padding(n)

(* vframe_block_space, type VDEC_TYPE_FRAME_BLOCK.                         *)
FitsTight(b, n) == bsize[b] - wp[b] + CacheLine > Need(n)
Fits(b, n) == bsize[b] - wp[b] > Need(n)

(* vdec_input_level: the difference of two counters that wrap, as an int.  *)
Level == LET d == (wr_count - rd_count) % Wrap
         IN IF 2 * d >= Wrap THEN d - Wrap ELSE d

(* vdec_input_have_blocks_enough; long: the time stamps of the queued      *)
(* frames are far enough apart (vdec_input_get_duration_u64).              *)
Score(cond, n) == IF cond THEN n ELSE 0
EnoughScore(long) ==
  Score(Level > MinLevel, 1) + Score(Level >= MaxLevel, 2) + Score(long, 4)
  + (IF Len(queue) > MaxFrames THEN 8 ELSE -8) + Score(size >= MaxTotal, 100)
BlocksEnough(long) == EnoughScore(long) > 13

(* A frame that does not fit twice in a new block doubles the default      *)
(* until it does or the default is above the maximum.                      *)
GrownOnce(n) == IF default_size > 2 * n THEN default_size ELSE 2 * default_size
Grown(n) ==
  LET doubled == {k * default_size : k \in {2, 4, 8, 16}}
      stop == {d \in doubled : d > 2 * n \/ d > BlockSizeMax}
      d == CHOOSE d \in stop : \A e \in stop : d <= e
  IN IF default_size > 2 * n THEN default_size
     ELSE IF d < n THEN AlignUp(n + CacheLine, BlockAlign) ELSE d

Failed(k) == IF no_mem_err + k > 4 THEN 4 ELSE no_mem_err + k

(* Every block of the input is on one of its two lists.                    *)
Held == block_list \cup Elements(free_list)

(* vdec_input_del_block_locked and vframe_block_free_block                 *)
FreeBlockUncounted(b) ==
  /\ bsize' = [bsize EXCEPT ![b] = 0]
  /\ UNCHANGED size
FreeBlock(b) ==
  /\ size' = size - bsize[b]
  /\ bsize' = [bsize EXCEPT ![b] = 0]

(* list_del of the chunk at position i.                                    *)
Without(s, i) == [j \in 1..(Len(s) - 1) |-> IF j < i THEN s[j] ELSE s[j + 1]]

-----------------------------------------------------------------------------
(* The user thread: vdec_input_add_chunk.                                  *)

Return == wpc' = "idle" /\ wblk' = NoBlock /\ wcnt' = 0

(* "block = input->wr_block", without the lock.                            *)
Write(n) ==
  /\ wpc = "idle" /\ ~ secure
  /\ wcnt' = n
  /\ wblk' = wr_block
  /\ wpc' = IF wr_block = NoBlock THEN "get" ELSE IF Fits(wr_block, n) THEN "fill" ELSE "recycle"
  /\ UNCHANGED <<listVars, countVars, blockVars, relVars>>

(* The same when wr_block is the freed block a reset has left behind: the  *)
(* size and the place to write to are read from freed memory, and from     *)
(* here on nothing is modelled.                                            *)
WriteFreed ==
  /\ wpc \in {"stale", "freed"}
  /\ wpc' = "freed"
  /\ UNCHANGED <<listVars, countVars, blockVars, wblk, wcnt, relVars>>

(* "recycle the no enough blocks"                                          *)
RecycleAny ==
  /\ wpc = "recycle"
  /\ wp' = [wp EXCEPT ![wblk] = 0]
  /\ block_list' = block_list \ {wblk}
  /\ free_list' = Append(free_list, wblk)
  /\ wr_block' = NoBlock
  /\ wblk' = NoBlock /\ wpc' = "get"
  /\ UNCHANGED <<queue, size, countVars, bsize, chunk_count, callback, wcnt, relVars>>
Recycle ==
  /\ wpc = "recycle"
  /\ IF wr_block = wblk /\ chunk_count[wblk] = 0
     THEN /\ wp' = [wp EXCEPT ![wblk] = 0]
          /\ block_list' = block_list \ {wblk}
          /\ free_list' = Append(free_list, wblk)
          /\ wr_block' = NoBlock
     ELSE UNCHANGED <<wp, block_list, free_list, wr_block>>
  /\ wblk' = NoBlock /\ wpc' = "get"
  /\ UNCHANGED <<queue, size, countVars, bsize, chunk_count, callback, wcnt, relVars>>

(* vdec_input_get_free_block: the first free block, which is freed if the  *)
(* frame may not fit in it.                                                *)
GetFreeKeep ==
  /\ wpc = "get" /\ free_list # <<>>
  /\ LET b == Head(free_list)
     IN IF bsize[b] < Need(wcnt) + ExtraPad
        THEN wpc' = "enough" /\ UNCHANGED <<block_list, free_list, wr_block, wblk>>
        ELSE /\ block_list' = block_list \cup {b}
             /\ free_list' = Tail(free_list)
             /\ wr_block' = b /\ wblk' = b
             /\ wpc' = "fill"
  /\ UNCHANGED <<queue, size, countVars, bsize, wp, chunk_count, callback, wcnt, relVars>>
GetFree ==
  /\ wpc = "get" /\ free_list # <<>>
  /\ free_list' = Tail(free_list)
  /\ LET b == Head(free_list)
     IN IF bsize[b] < Need(wcnt) + ExtraPad
        THEN /\ FreeBlock(b)
             /\ wpc' = "enough"
             /\ UNCHANGED <<block_list, wr_block, wblk>>
        ELSE /\ block_list' = block_list \cup {b}
             /\ wr_block' = b /\ wblk' = b
             /\ wpc' = "fill"
             /\ UNCHANGED <<size, bsize>>
  /\ UNCHANGED <<queue, countVars, wp, chunk_count, callback, wcnt, relVars>>
GetNone ==
  /\ wpc = "get" /\ free_list = <<>>
  /\ wpc' = "enough"
  /\ UNCHANGED <<listVars, countVars, blockVars, wblk, wcnt, relVars>>

(* -EAGAIN, or go on with a default that holds the frame.                  *)
Enough(long) ==
  /\ wpc = "enough"
  /\ IF BlocksEnough(long) \/ no_mem_err > 3
     THEN Return /\ UNCHANGED default_size
     ELSE /\ wpc' = "alloc" /\ UNCHANGED <<wblk, wcnt>>
          /\ default_size' = Grown(Need(wcnt) + ExtraPad)
  /\ UNCHANGED <<listVars, wr_count, rd_count, no_mem_err, blockVars, relVars>>

(* vdec_input_alloc_new_block: the block becomes the one to write to.      *)
NewBlock(b, bytes) ==
  /\ b \notin Held
  /\ block_list' = block_list \cup {b}
  /\ bsize' = [bsize EXCEPT ![b] = bytes]
  /\ wp' = [wp EXCEPT ![b] = 0]
  /\ chunk_count' = [chunk_count EXCEPT ![b] = 0]
  /\ size' = size + bytes
  /\ wr_block' = b /\ wblk' = b
  /\ wpc' = "fill"
Alloc(b) ==
  /\ wpc = "alloc"
  /\ NewBlock(b, PageAlign(default_size))
  /\ no_mem_err' = 0
  /\ UNCHANGED <<free_list, queue, default_size, wr_count, rd_count, callback, wcnt, relVars>>

(* The structure (counted twice) or its memory cannot be allocated.        *)
AllocFail ==
  /\ wpc = "alloc" /\ MayFail
  /\ no_mem_err' \in {Failed(1), Failed(2)}
  /\ Return
  /\ UNCHANGED <<listVars, default_size, wr_count, rd_count, blockVars, relVars>>

(* A secure frame brings its memory, and perhaps a function to call when   *)
(* it is no longer needed.                                                 *)
WriteSecure(n, b, cb) ==
  /\ wpc = "idle" /\ secure
  /\ wcnt' = n
  /\ NewBlock(b, PageAlign(n + ExtraPad + 1))
  /\ callback' = IF cb THEN callback \cup {b} ELSE callback \ {b}
  /\ UNCHANGED <<free_list, queue, countVars, relVars>>

(* No memory for the chunk.                                                *)
ChunkFail ==
  /\ wpc = "fill" /\ MayFail
  /\ Return
  /\ UNCHANGED <<listVars, countVars, blockVars, relVars>>

(* The frame has been copied to wblk; the rest happens under the lock.     *)
Extent == IF secure THEN PageAlign(wcnt + CacheLine) ELSE Need(wcnt)
CommitUncounted(c) ==
  /\ wpc = "fill"
  /\ c \notin Addresses(queue)
  /\ queue' = Append(queue, [id |-> c, block |-> wblk, offset |-> IF secure THEN 0 ELSE wp[wblk],
                             extent |-> Extent, consumed |-> FALSE])
  /\ wp' = [wp EXCEPT ![wblk] = @ + Extent]
  /\ wr_block' = wblk
  /\ wr_count' = (wr_count + wcnt) % Wrap
  /\ Return
  /\ UNCHANGED <<block_list, free_list, size, default_size, rd_count, no_mem_err, bsize, chunk_count,
                 callback, relVars>>
Commit(c) ==
  /\ wpc = "fill"
  /\ c \notin Addresses(queue)
  /\ queue' = Append(queue, [id |-> c, block |-> wblk, offset |-> IF secure THEN 0 ELSE wp[wblk],
                             extent |-> Extent, consumed |-> FALSE])
  /\ LET end == wp[wblk] + Extent
     IN wp' = [wp EXCEPT ![wblk] = IF end >= bsize[wblk] THEN end - bsize[wblk] ELSE end]
  /\ chunk_count' = [chunk_count EXCEPT ![wblk] = @ + 1]
  /\ wr_block' = wblk
  /\ wr_count' = (wr_count + (IF secure THEN wcnt + CacheLine ELSE Extent)) % Wrap
  /\ Return
  /\ UNCHANGED <<block_list, free_list, size, default_size, rd_count, no_mem_err, bsize, callback,
                 relVars>>

(* vdec_input_get_freed_handle: the oldest released secure buffer goes     *)
(* back to the user.                                                       *)
GetFreedHandle ==
  /\ wpc \in {"idle", "fill"} /\ secure /\ free_list # <<>>
  /\ free_list' = Tail(free_list)
  /\ FreeBlock(Head(free_list))
  /\ UNCHANGED <<block_list, queue, wr_block, countVars, wp, chunk_count, callback, userVars, relVars>>

-----------------------------------------------------------------------------
(* Consumer side.                                                          *)

(* vdec_vframe_dirty: the chunk of the run, the first one, is decoded.     *)
Consume ==
  /\ queue # <<>> /\ wpc \notin {"drain", "drained", "prepare"}
  /\ ~ queue[1].consumed
  /\ queue' = [queue EXCEPT ![1].consumed = TRUE]
  /\ UNCHANGED <<block_list, free_list, wr_block, size, countVars, blockVars, userVars, relVars>>

(* vdec_input_release_chunk under the lock, of the chunk at position i; b  *)
(* is what was read from chunk->block.                                     *)
ReleaseChunk(i, b) ==
  /\ queue' = Without(queue, i)
  /\ rd_count' = (rd_count + queue[i].extent) % Wrap
  /\ chunk_count' = [chunk_count EXCEPT ![b] = @ - 1]
  /\ IF secure \/ (chunk_count[b] = 1 /\ wr_block # b)
     THEN /\ block_list' = block_list \ {b}
          /\ wp' = [wp EXCEPT ![b] = 0]
          /\ IF IF secure THEN b \in callback ELSE bsize[b] < default_size
             THEN FreeBlock(b) /\ UNCHANGED free_list
             ELSE free_list' = Append(free_list, b) /\ UNCHANGED <<size, bsize>>
     ELSE UNCHANGED <<block_list, free_list, size, bsize, wp>>

(* vdec_input_next_chunk                                                   *)
Peek(r) ==
  /\ rpc[r] = "idle" /\ queue # <<>> /\ wpc \notin {"drain", "drained", "prepare"}
  /\ rchunk' = [rchunk EXCEPT ![r] = queue[1].id]
  /\ rpc' = [rpc EXCEPT ![r] = "check"]
  /\ UNCHANGED <<listVars, countVars, blockVars, userVars, rblock>>

(* The flag and the block of the chunk are read without the lock: if the   *)
(* chunk has been freed meanwhile they may be anything.                    *)
CheckNothing(r) ==
  /\ rpc[r] = "check"
  /\ \E b \in Block :
       /\ \A i \in 1..Len(queue) : queue[i].id = rchunk[r] => b = queue[i].block
       /\ rblock' = [rblock EXCEPT ![r] = b]
  /\ rpc' = [rpc EXCEPT ![r] = "del"]
  /\ UNCHANGED <<listVars, countVars, blockVars, userVars, rchunk>>
Check(r) ==
  /\ rpc[r] = "check"
  /\ \/ /\ \E b \in Block :
             /\ \A i \in 1..Len(queue) : queue[i].id = rchunk[r] =>
                  queue[i].consumed /\ b = queue[i].block
             /\ rblock' = [rblock EXCEPT ![r] = b]
        /\ rpc' = [rpc EXCEPT ![r] = "del"]
        /\ UNCHANGED rchunk
     \/ /\ \A i \in 1..Len(queue) : queue[i].id = rchunk[r] => ~ queue[i].consumed
        /\ rpc' = [rpc EXCEPT ![r] = "idle"]
        /\ rchunk' = [rchunk EXCEPT ![r] = NoBlock]
        /\ UNCHANGED rblock
  /\ UNCHANGED <<listVars, countVars, blockVars, userVars>>

(* Under the lock: "2 threads go here, the other done the deletion"        *)
Delete(r) ==
  /\ rpc[r] = "del"
  /\ IF rchunk[r] \in Addresses(queue)
     THEN \E i \in 1..Len(queue) : queue[i].id = rchunk[r] /\ ReleaseChunk(i, rblock[r])
     ELSE UNCHANGED <<queue, rd_count, chunk_count, wp, block_list, free_list, size, bsize>>
  /\ rpc' = [rpc EXCEPT ![r] = "idle"]
  /\ rchunk' = [rchunk EXCEPT ![r] = NoBlock]
  /\ rblock' = [rblock EXCEPT ![r] = NoBlock]
  /\ UNCHANGED <<wr_block, default_size, wr_count, no_mem_err, callback, userVars>>

-----------------------------------------------------------------------------
(* The user thread: vdec_input_release, vdec_input_init and                *)
(* vdec_input_prepare_bufs of vdec_reset.  vdec_disconnect has returned:   *)
(* nobody else uses the input.                                             *)
Reset ==
  /\ wpc \in {"idle", "stale"} /\ MayReset
  /\ \A r \in Releaser : rpc[r] = "idle"
  /\ wpc' = "drain"
  /\ UNCHANGED <<listVars, countVars, blockVars, wblk, wcnt, relVars>>
Drain ==
  /\ wpc = "drain" /\ queue # <<>>
  /\ ReleaseChunk(1, queue[1].block)
  /\ UNCHANGED <<wr_block, default_size, wr_count, no_mem_err, callback, userVars, relVars>>
Drained ==
  /\ wpc = "drain" /\ queue = <<>>
  /\ wpc' = "drained"
  /\ UNCHANGED <<listVars, countVars, blockVars, wblk, wcnt, relVars>>
FreeBlocks ==
  /\ wpc = "drained"
  /\ block_list' = {} /\ free_list' = <<>> /\ size' = 0
  /\ bsize' = [b \in Block |-> 0] /\ wp' = [b \in Block |-> 0]
  /\ default_size' = BlockSize /\ wr_count' = 0 /\ rd_count' = 0
  /\ wpc' = "prepare"
  /\ UNCHANGED <<queue, wr_block, no_mem_err, chunk_count, callback, wblk, wcnt, relVars>>

(* Each block is allocated as the one to write to, then put aside; the     *)
(* first failure ends it.  When there is no block at all, wr_block stays   *)
(* what it was before the reset: a block that vdec_input_release freed.    *)
Stale(s) == ~ secure /\ s = <<>> /\ wr_block # NoBlock
Prepare(s) ==
  /\ wpc = "prepare"
  /\ secure => s = <<>>
  /\ ~ secure /\ ~ MayFail => Len(s) = Prepared
  /\ free_list' = s
  /\ bsize' = [b \in Block |-> IF b \in Elements(s) THEN PageAlign(default_size) ELSE bsize[b]]
  /\ size' = Len(s) * PageAlign(default_size)
  /\ wr_block' = IF s = <<>> THEN wr_block ELSE NoBlock
  /\ no_mem_err' \in (IF Len(s) = Prepared \/ secure THEN {no_mem_err} ELSE {no_mem_err, Failed(1)})
  /\ wpc' = IF Stale(s) THEN "stale" ELSE "idle"
  /\ UNCHANGED <<block_list, queue, default_size, wr_count, rd_count, wp, chunk_count, callback, wblk,
                 wcnt, relVars>>

-----------------------------------------------------------------------------

(* The user thread, which writes again when a frame was refused.           *)
Start ==
  \/ \E n \in Count : Write(n)
  \/ WriteFreed
  \/ \E n \in Count, b \in Block, cb \in BOOLEAN : WriteSecure(n, b, cb)
User ==
  /\ UNCHANGED secure
  /\ \/ Start
     \/ Recycle \/ GetFree \/ GetNone
     \/ \E long \in BOOLEAN : Enough(long)
     \/ \E b \in Block : Alloc(b)
     \/ \E c \in Chunk : Commit(c)
Fail == UNCHANGED secure /\ (AllocFail \/ ChunkFail)
Port ==
  /\ UNCHANGED secure
  /\ \/ Reset \/ Drain \/ Drained \/ FreeBlocks
     \/ \E k \in 0..Prepared : \E s \in [1..k -> Block] :
          /\ \A i, j \in 1..k : i # j => s[i] # s[j]
          /\ Prepare(s)
GetHandle == UNCHANGED secure /\ GetFreedHandle
Decoder == UNCHANGED secure /\ Consume
Release(r) == UNCHANGED secure /\ (Peek(r) \/ Check(r) \/ Delete(r))

Next ==
  \/ User \/ Fail \/ Port
  \/ GetHandle
  \/ Decoder
  \/ \E r \in Releaser : Release(r)

Spec == Init /\ [][Next]_vars

(* The player writes and writes again, a decoder that has a frame decodes  *)
(* it, and decoded frames are released.                                    *)
FairSpec ==
  /\ Spec
  /\ WF_vars(User) /\ WF_vars(Port)
  /\ WF_vars(Decoder)
  /\ \A r \in Releaser : WF_vars(Release(r))

-----------------------------------------------------------------------------
(* Properties.                                                             *)

(* The memory of the input, byte by byte: all of it, and what the frames   *)
(* that wait fill.                                                         *)
Queued == Elements(queue)
Bytes(b, from, to) == {b} \X (from..(to - 1))
FrameBytes(c) == Bytes(c.block, c.offset, c.offset + c.extent)
Memory == UNION {Bytes(b, 0, bsize[b]) : b \in Held}
Filled == UNION {FrameBytes(c) : c \in Queued}
QueuedIn(b) == {c \in Queued : c.block = b}

(* Bytes lo..hi-1 of block b hold no queued frame.                         *)
NoFrameIn(b, lo, hi) ==
  \A c \in QueuedIn(b) : hi <= c.offset \/ c.offset + c.extent <= lo

(* The block of a queued frame is in use, and while the user thread copies *)
(* a frame, without the lock, its block is in use too and the bytes it     *)
(* fills are inside the block and hold no frame that waits for the         *)
(* decoder (vframe_chunk_fill against vdec_input_release_chunk).  Excepted *)
(* is the write after a reset that got no block (wpc = "freed"), which     *)
(* does go to a freed one.                                                 *)
NoOverwrite ==
  /\ \A c \in Queued : c.block \in block_list
  /\ wpc = "fill" =>
       /\ wblk \in block_list
       /\ wp[wblk] + Extent <= bsize[wblk]
       /\ NoFrameIn(wblk, wp[wblk], wp[wblk] + Extent)

(* A block is on one list; size is the memory of the blocks on the lists,  *)
(* which decides when the user is refused; and chunk_count, which decides  *)
(* when a block is released, counts the frames kept in the block.          *)
Accounts ==
  /\ \A b \in Elements(free_list) : b \notin block_list
  /\ \A i, j \in 1..Len(free_list) : i # j => free_list[i] # free_list[j]
  /\ size = Cardinality(Memory)
  /\ \A b \in Block : chunk_count[b] = Cardinality(QueuedIn(b))

(* vdec_input_level is the data that waits, also after the totals have     *)
(* wrapped around.  (A secure frame is counted with another padding when   *)
(* it is written than when it is released.)                                *)
LevelExact == ~ secure => Level = Cardinality(Filled)

(* Frames come out in the order in which they were written, none is lost   *)
(* or released before it is consumed, and no two of them share memory.     *)
Fifo == INSTANCE InputFifo WITH
  frames <- [i \in 1..Len(queue) |->
               [id |-> queue[i].id, block |-> queue[i].block, from |-> queue[i].offset,
                to |-> queue[i].offset + queue[i].extent, used |-> queue[i].consumed]],
  closing <- (wpc = "drain")
ImplementsFifo == Fifo!FifoSpec

-----------------------------------------------------------------------------
(* The inductive invariant, for a single releasing thread.                 *)

(* Free blocks are empty, and a reset starts with no block at all, and     *)
(* stays there if it gets none.                                            *)
ListsInv ==
  /\ IsFiniteSet(Held)
  /\ \A b \in Elements(free_list) : b \notin block_list /\ (secure \/ wp[b] = 0)
  /\ \A i, j \in 1..Len(free_list) : i # j => free_list[i] # free_list[j]
  /\ wpc \in {"prepare", "stale", "freed"} => Held = {} /\ wp = [b \in Block |-> 0]

(* Frames lie in blocks in use, below the place to write to, and apart; a  *)
(* secure frame has a block of its own.                                    *)
Disjoint(c, d) == c.block = d.block => c.offset + c.extent <= d.offset \/ d.offset + d.extent <= c.offset
FramesInv ==
  /\ \A c \in Queued :
       /\ c.block \in block_list
       /\ c.extent > 0 /\ c.offset + c.extent <= bsize[c.block]
       /\ secure \/ c.offset + c.extent <= wp[c.block]
  /\ \A i, j \in 1..Len(queue) : i # j =>
       /\ queue[i].id # queue[j].id
       /\ Disjoint(queue[i], queue[j])
       /\ secure => queue[i].block # queue[j].block
  /\ wpc \in {"drained", "prepare", "stale", "freed"} => queue = <<>>

CountsInv ==
  /\ size = Cardinality(Memory)
  /\ \A b \in Block : chunk_count[b] = Cardinality(QueuedIn(b))
  /\ ~ secure => (wr_count - rd_count - Cardinality(Filled)) % Wrap = 0

(* What the user thread has found out about its block still holds, and     *)
(* unless a reset got no block (or another one follows) wr_block is a      *)
(* block in use or NULL.                                                   *)
WriterInv ==
  /\ default_size >= BlockSize
  /\ ~ secure /\ wpc \notin {"drain", "drained", "prepare", "stale", "freed"} =>
       wr_block \in block_list \cup {NoBlock}
  /\ wpc = "recycle" => wblk = wr_block /\ wblk # NoBlock
  /\ wpc \in {"recycle", "get", "enough", "alloc"} => ~ secure /\ wcnt \in Count
  /\ wpc = "alloc" => default_size > Need(wcnt)
  /\ wpc = "fill" =>
       /\ wblk \in block_list /\ wcnt \in Count
       /\ ~ secure => wr_block = wblk /\ Fits(wblk, wcnt)
       /\ secure => wp[wblk] = 0 /\ Extent <= bsize[wblk] /\ QueuedIn(wblk) = {}

(* The chunk that is being released is still the first one.                *)
ReleaserInv ==
  \A r \in Releaser : rpc[r] \in {"check", "del"} =>
    /\ wpc \notin {"drain", "drained", "prepare"}
    /\ queue # <<>> /\ rchunk[r] = queue[1].id
    /\ rpc[r] = "del" => queue[1].consumed /\ rblock[r] = queue[1].block

InputInv == TypeOK /\ ListsInv /\ FramesInv /\ CountsInv /\ WriterInv /\ ReleaserInv

-----------------------------------------------------------------------------
(* Blocks that nobody writes to and that hold no frame, yet are not free.  *)
Stranded == {b \in block_list : b # wr_block /\ chunk_count[b] = 0}

(* A player that retries goes on getting frames into the input, unless     *)
(* blocks have been stranded up to the limit on the memory of the input.   *)
WriterProgress ==
  \/ []<><<\E c \in Chunk : Commit(c)>>_vars
  \/ <>[](MapThenSumSet(LAMBDA b : bsize[b], Stranded) >= MaxTotal)
=============================================================================
