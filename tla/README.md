# Verification of the Linux 0.01 tree and its companions

This directory holds TLA+ models of the programs in this repository, the TLC
configurations that check them, and TLAPS proofs about them. `src/` below is the
repository; paths without a prefix are relative to
`src/HW01/Linux_0.01-master/`.

## 1. The system

The repository collects the homework of a course. Its core is a complete
Linux 0.01 kernel (HW01, about 6000 lines of C and 1500 of assembler). HW02 is a
linear-list library with sorts, HW05 a peer-to-peer video chat in Python. The
rest (HW00, HW03, HW04, the WordPress container) is scripts, reports and images.

| Component | State it keeps | Operations |
|---|---|---|
| Paged memory (`mm/memory.c`, parts of `fork.c`, `exit.c`, `exec.c`) | `mem_map[]`, page directory and page tables | get/free a frame, share at fork, copy on write, demand-zero, replace at execve, give back at exit |
| Hard-disk driver (`kernel/hd.c`) | `request[]`, `this_request`, `sorting`, `do_hd`, `wait_for_request` | queue a request in disk order, serve it by interrupts, retry, reset |
| Buffer cache (`fs/buffer.c`) | buffer heads, hash table, free list, `buffer_wait` | getblk, bread, brelse, sync |
| Scheduler and wait queues (`kernel/sched.c`) | `current`, state, counter and signal of each task, one pointer per queue | schedule, sleep_on, interruptible_sleep_on, wake_up, timer tick |
| Processes and signals (`fork.c`, `exit.c`, `sys.c`, `system_call.s`) | `task[]`, pid, father, pgrp, exit code, signals | fork, exit, waitpid, kill, alarm |
| In-memory inodes (`fs/inode.c`) | `inode_table[]` with counts, locks, dirty flags | iget, iput, sync_inodes, bmap |
| Bitmaps, truncation (`fs/bitmap.c`, `fs/truncate.c`) | zone and inode bitmaps on disk, zones of a file | new/free block, new/free inode, truncate |
| Names (`fs/namei.c`) | directory blocks | lookup, create, link, unlink, mkdir, rmdir |
| File table (`fs/open.c`, `fs/fcntl.c`) | `file_table[]`, `filp[]`, `f_count` | open, dup, close, inheritance at fork |
| Pipes (`fs/pipe.c`) | ring buffer in one frame, head, tail | read, write |
| Terminals (`kernel/tty_io.c`, `kernel/rs_io.s`) | three queues per terminal | interrupt input, cooking, read, write |
| Console (`kernel/console.c`) | video memory, the window `origin`..`scr_end`, cursor, scrolling region, the sequence being read | con_write: characters, control and escape sequences |
| Start-up (`boot/`, `init/`, `fs/super.c`) | super blocks, the first task | setup, mount_root; runs once, with one process |
| Linear list (`src/HW02`) | a linked or sequential list | insert, delete, get, sorts |
| Video chat (`src/HW05/p2p_video_chat/app.py`) | peers, frame queues, `my_info`, thread flags | discovery, join, switch, leave, frame distribution |
| Chat server (`src/HW05/p2p_video_chat/cli-chat.py`) | clients and their names | connect, broadcast, leave |

### How the parts interact

- The kernel is not preemptive. A task runs in the kernel until it calls
  `schedule()`, directly or through `sleep_on()`. Everything between two sleeps
  is atomic for other tasks, but interrupts are not disabled: the disk handler
  and the timer run between any two instructions. Interrupts wake tasks; they
  never switch away from a task that is in the kernel (`do_timer` with cpl 0).
- The file system calls the buffer cache, the buffer cache calls the driver
  through `ll_rw_block()`, and waits for the driver's interrupt through
  `b_lock` and `b_wait`. The handler writes `b_uptodate`, `b_dirt` and `b_lock`
  of a buffer that a task may be using.
- `fork`, `execve`, `exit` and page faults share `mem_map[]`. Task structures,
  page tables, pipe buffers and argument pages come from the same frames as the
  pages of programs.
- All waiting goes through one-pointer queues: the head is in the queue, the
  rest of the chain in local variables `tmp` of the sleepers.
- Names, descriptors and file contents meet in the inodes: a lookup calls
  `iget()` for each name on a path, `unlink` and the last `close` call `iput()`,
  which calls `truncate()` and `free_inode()`. `new_block()`, `free_block()` and
  the bitmaps go through the buffer cache. Each of these calls may sleep in the
  buffer cache, and a caller that has looked something up goes on with it
  afterwards.
- A pipe is an inode without a device: `i_count` tells its two ends apart,
  `i_zone[0..1]` are head and tail, one wait queue serves both sides.
- A terminal's queues are changed by the process that reads or writes and by the
  interrupts of keyboard and serial line, without a lock; the keyboard's goes
  through a trap gate and can itself be interrupted.
- `con_write()` empties the write queue of the console; the display controller shows
  the part of the video memory that begins at `origin`.
- In the chat, Flask handlers and four threads share dictionaries under several
  locks, and sessions are started and stopped through two flags.

### Which behaviours are hard

Copy-on-write sharing over long sequences of fork, write, exec and exit, with
memory running out in the middle; lists and rings that tasks and an interrupt
handler change together; state read before a sleep and used after it (almost all of
`fs/`); chains of sleepers that depend on one another's local variables; writes
to disk that overtake changes in memory; retries after a failed half of a
transfer. `PROJECT.json` lists them line by line under `hazards`.

## 2. Plan

Written, in this order: Memory with its abstraction PrivateMemory and its
proofs; HdQueue; BufferCache; Sched; Inodes; FileBlocks; Directory; Files; Tty;
VideoChat; Screen and Console, which implements it. The proofs of BufferCache, Files,
VideoChat, Inodes, HdQueue, Sched, Console, Tty, Directory and FileBlocks came next
(section 5). Each module is checked for itself, with the others at their word: what a module
assumes of another one is what that one's properties say (Inodes of the buffer
cache `LatestIsFound`; Directory of Inodes `TableSound` and `AllocatedIsUsed`; HdQueue
of the scheduler `Scheduled`; Files of Memory that a frame has one owner).

Left to be written, most important first:

1. **Process**: process ids across the wrap of `last_pid`, waitpid's choice,
   fathers and orphans, sessions and process groups.
2. **Composition of BufferCache and HdQueue**: the driver implements the transfers
   that BufferCache assumes, stalls and failures included.
3. **Composition of Directory and Inodes**: the counts that Directory keeps are
   those of Inodes.
4. **ChatServer**: the asyncio server of `cli-chat.py`.

Every safety and action property that a run checks is proved, and both refinements. What
is left to TLC, liveness and the absence of deadlock, the prover cannot do (end of
section 5).

## 3. The modules

Each `MC` module gives the constants of one module values for TLC. Definitions
marked `\* faulty:` are variants with a plausible mistake; nothing uses them
except the mutation runs, which show that each property notices one.

### Memory, PrivateMemory, MCMemory

`Memory` has `mem_map`, the page directory entries (`pg_dir[t][d]`) and page
tables (`pte[t][a]`, a frame and the R/W bit) of each task, the contents of
frames, and who holds frames besides: `task[t]`, the local array `page[]` of
`do_execve()` (`args`), pipe buffers.

| Action | Code |
|---|---|
| `Fork`, `ForkFails` | `copy_process`, `copy_mem`, `copy_page_tables`, with and without enough frames |
| `DemandPage`, `DemandPageFails` | `do_no_page`, `put_page` |
| `UnWriteProtect`, `CopyOnWrite`, `CopyOnWriteFails` | `un_wp_page` through `do_wp_page` or `write_verify` |
| `Store` | a program's store, or the kernel's after `verify_area` |
| `ExecArgs`, `ExecReplace` | `copy_strings` and the check of its result; `free_page_tables` and `change_ldt` |
| `ExecDies`, `ExecStray` | `copy_strings` when a page of the program cannot be had; when `p` has wrapped |
| `Exit`, `BecomeZombie`, `ReleaseSelf`, `Wait` | `do_exit`, `release`, `sys_waitpid` |
| `Pipe`, `ClosePipe` | `sys_pipe` and `get_pipe_inode`; `iput` of a pipe |

A system call is one action up to the point where it may sleep. `execve` sleeps
while it reads the file, so its two halves are separate; `exit` sleeps in
`sys_close`, so its end is separate. `get_free_page` takes any free frame, the
code takes the last. `lost` is not in the code: it collects the frames that
`do_no_page`, `change_ldt` and `copy_strings` drop when memory runs out, so that the
books can balance.

`do_execve` has three ways to fail. The last call of `copy_strings` finds no frame:
then all are freed and nothing has changed. A string is on a page that is not there
yet, and `do_no_page` finds no frame for it: the task dies inside `copy_strings`, and
the frames in the local array `page[]` are lost (`ExecDies`). Or the strings need more
than `page[]`, or the call for the environment finds no frame and its result 0 is handed
on to the call for the arguments: the test `p-len < 0` is about unsigned numbers and never
true, and `copy_strings` looks at `page[0xFFFFF]` (`Wraps`). What is there decides: a
panic, a store to some address (`ExecStray`, where the model stops, `stray`), or, as it
is beyond the limit of the kernel's segment, the death of the task again.

An execve without any argument or environment string is left out: it
differs only in taking no argument page.

`PrivateMemory` is what programs are promised: every task has a memory of its
own, a child starts with a copy of its parent's. `Memory` implements it under
the mapping `View` (the contents of the frame an entry points to). The promise
needs one assumption about programs. `sys_pipe` stores two descriptors into user
memory without `verify_area`, and the 386 ignores the R/W bit for the kernel. If
the page is still shared with a relative, the relative sees the store.
`SharedPipeArray = FALSE` says that programs call `pipe` only on a page that is
their own by then; with `TRUE` TLC finds `Isolation` violated.

### HdQueue, MCHdQueue

The steps of a process in `rw_abs_hd` and `add_request` are separate actions,
since the handler can run between them: lock the buffer (`Issue`), find a slot
(`TakeRequest`, `NoRequest`), sleep (`SleepOn`, `WakeFromSleep`), link
(`Link`), clear `sorting` and restart (`Restart`), come back (`Return`). No two
processes are inside at once (`MayRun`): the kernel is not preemptive. The
handlers are `ReadIntr`, `WriteIntr` and `ResetIntr`, all through `do_hd`; each
answers with `BadRwIntr` when the drive reports an error. `drive` is the
controller: the command it executes, for which buffer, at which sector.

Abstractions: one drive; a block is two sectors; a cylinder, head and sector
number is one `Position`; a process has one buffer, since the buffer cache
starts no second transfer on a locked one; the fields of a free slot are reset,
except that one which is answered while `add_request` is at work keeps `bh` and `next`,
which it may still read; an entry is linked in one step (`Link`), but the entry it begins
with was read in an earlier one. The panics of `hd_out` (bad parameters, controller not ready) and the early return of `rw_hd`
are left out. `write_intr` hands sector data to the controller one interrupt
before they are on the disk; since nobody changes them on the way here, the model
takes them at the end. (BufferCache, where they do change, takes them early.)

Nothing keeps interrupts out: they come between any two steps, also while
`sorting = 1` and between the search for a slot and `sleep_on`. Two things go wrong
then, and the model goes on with both. A request that is linked behind the only one
while that one is answered is in no list any more; the ghost `cut` has these, and
`QueueSound` says that the list has all the others. An interrupt that finds `sorting`
set leaves `do_hd` as it was and the drive idle (`Stalled`); `Served` says that every
request in the list is answered unless this happens, and `StallsOnlyBySorting` that
nothing else brings it about. The code's comments promise otherwise (`NothingCut`,
`Restarted`; section 4). `QueueSound` and
`SleepersChained` say "can be reached" by closed sets: a set that has the head of the
list, and with an entry the next one, has every entry. `Faults` says what the drive can do
wrong.

### BufferCache, MCBufferCache

Processes go through `getblk` and `bread` in steps. States in `Running` are
inside the kernel, where no other process runs; states in `Sleeping` are sleeps.
A sleep in `wait_on_buffer` is a state that is left when the condition holds:
the loop around `sleep_on` tests it again. `sleep_on(&buffer_wait)` is modelled
by its wake-ups. `sync_dev` and `sys_sync` go through all buffers in the order of
memory. `sync_inodes`, with which sync() begins, only dirties more buffers,
which `Modify` does at any time.

Of the data only this is kept: a copy of a block is `new` (what was last put in
it) or `old`. `Send` takes the data of a write out of the buffer, `WriteEnds`
puts them on the disk; a change in between is not on the disk. The hash table is
the set of hashed buffers; the free list is kept link by link, as `getblk` walks
it while it changes. `Pinned` buffers are the bitmaps, held for good and changed
by `new_block` and `new_inode` without waiting.

A process may hold up to `MaxKept` buffers while it asks for another one (`kept`), as
`_bmap` does with an indirect block while `new_block` asks for the new one, `unlink` with
the entry's block while `iput` truncates, and `free_dind` while `free_ind` reads. Two
processes that each hold what the other needs could wait for each other on
`buffer_wait`; they do not, as long as there are more buffers than bitmaps and held
buffers together. That is the assumption on `Bitmaps`: a process of this kernel holds at
most three, there are 64 tasks, and the buffers fill the memory up to 640 kB and more.

A write can fail (`WriteFails`): it is tried again, or given up, and then the buffer is
not up to date and still dirty. `dest` has the block a transfer was started for, which is
not always that of the buffer: when another `sync()` writes the buffer once more behind
the back of the `getblk` that has taken it, it is given to its new block while it is
locked. `bread` waits for it in `lock_buffer` (`lockwait`).

`refetched`, `late` and `lost` are ghosts: blocks to which one of three things has
happened, the races in `getblk` (line 175) and `write_intr` (line 284), and a write that
was given up or overtaken (`kernel/hd.c:244`). `LatestIsFound` excludes these blocks; that way it
still says that there is no fourth way to lose what was written. That the two races, and
the write behind `getblk`'s back, cannot happen is what the code's comments say
(`NoneRefetched`, `NoneLate`, `TakenUndisturbed`); section 4 shows that they do.

### Sched

One task is `current`; every action of a task has `current = t` as its guard, and
`schedule()` chooses the next one as the code does (largest counter, then the
highest slot, new slices when all are used up). `pc` says where a task is or will
go on: `user`, `kernel`, `sleep`, `pause`, `leave` (on the way out of a system
call, where signals are delivered). `tmp[t]` is the local variable of
`sleep_on`. `Interrupt` is a `wake_up` by a handler or by the current task.
`interruptible` is chosen once: which queues are used with
`interruptible_sleep_on`. `QueuesSound` says by closed sets, as in HdQueue, that every
sleeper can be reached from its queue, or from a task that has been woken and has
still to wake the one before it. `QueuesSound` and `ZombiesStayDead` speak of the
behaviours in which none is; with one they are false. Alarms, `nice`, `fork`, signal handlers and the
coprocessor are left out; a signal is pending or not.

The modules below, but for Console, all stop in some way when the code has done something that it
cannot take back: a panic, or a step that acts on what is no longer so. A
variable says which (`broken`), or a ghost remembers it (`reused`, `doubled`,
`refused`, `overlap`, `outlived`). Going on would only show the consequences, and
these would bury every other mistake. The properties say what holds until then,
and from which steps alone it can come to that; they do not say that it never
comes to that, because it does (section 4). (Memory stops too, at `stray`.)

### Inodes, MCInodes

The table of inodes under `sys_open`, `sys_creat`, `sys_unlink`, `sys_close`,
writing and `sync()`. Each action goes from one place where a process can sleep
to the next: waiting for the lock of an inode, or reading an inode block.

| Action | Code |
|---|---|
| `Lookup`, `Scan`, `IgetWakes`, `ReadInode` | `iget`, `get_empty_inode`, `read_inode` |
| `Open`, `Unlink`, `Change`, `Close` | what `sys_open`, `sys_unlink`, `file_write` and `sys_close` do with an inode |
| `Create` | `new_inode` |
| `Iput`, `IputLast`, `WriteInode` | `iput`, `write_inode` |
| `SyncInode` | `sync_inodes`, a slot at a time |
| `FreeInode` | the end of `truncate`, `free_inode` |

A slot has `i_num`, `i_count`, `i_dirt`, `i_lock` and of the inode itself the number
of links and a version; `latest` is a ghost, what system calls last made of each
inode. `get_empty_inode` takes any free slot. The ways to end are a full table
(`get_empty_inode` panics), the panic of `free_inode`, an `iget` of a freed number,
and a slot cleared while `sync()` writes it. `reused` has the slots that an `iget`
has taken while the `iput` of the last user slept.

### FileBlocks, MCFileBlocks

Files as trees of blocks. `zone[f]` is `i_zone`, `entries[b]` the pointers of an
indirect block, `zmap` the bitmap; `Depth` says how many levels each slot of `i_zone`
has (0 for the seven direct blocks, 1, 2). `Begin`, `Walk`, `NewBlock`, `Found` and
`Indirect` are `_bmap` with `new_block`, `Data` is the rest of `file_read` and
`file_write`, `Truncate`, `FreeIndirect` and `FreeBlock` are `truncate`, `free_ind`,
`free_dind` and `free_block`. `Orders` is the order in which these go through the slots
or entries in use, the lowest first; `BlocksBelow` is what an indirect block still leads
to. `free_block` gives up on a block whose buffer somebody
holds; `refused` collects these, and what lies below an indirect block that cannot be
read. `doubled` says that two writers have got a block for one place.
The panic of `new_block` on a buffer whose count is not 1 (`fs/bitmap.c:90`) is left out:
there are no buffers here. `overlap` stops the model when a file is written or truncated while it is
truncated. The kernel truncates only files that nobody has open, unless they are
opened with O_TRUNC.

### Directory, MCDirectory

`fs/namei.c` block by block: a search may sleep in front of every block of a
directory, in `iget`, and where `sys_mkdir` asks for a block. `at[p]` has what a
process holds: a directory, an inode, the old inode of `link`.

| Action | Code |
|---|---|
| `Begin`, `FindNext`, `FoundInode`, `Iget`, `Enter` | `get_dir`, `dir_namei`, `namei`, `find_entry` |
| `OpenOld`, `Create`, `Add`, `AddNext`, `AddFails` | `open_namei`, `sys_link`, `sys_mkdir`, `add_entry` |
| `NewDir`, `NoNewDir` | the block of a new directory in `sys_mkdir` |
| `OldName`, `LinkCounted` | the first half of `sys_link`, and its end after `iput(dir)` |
| `Unlink`, `RmdirBegins`, `Rmdir` | `sys_unlink`, `sys_rmdir`, `empty_dir` |
| `Fail` | the error returns of all of them after a search |

`Act` compares what a process does with what is so when it does it, and stops the
model with `broken = "stale"` when they differ. `sys_link` enters the name (`Add`), sleeps in
`iput(dir)` at `"linked"`, and counts the link only then: `Linkers` are the calls that
still have to, and `FileSound` adds them to `i_nlinks`. An `unlink` that finds
`i_nlinks = 0` with the name still there stops the model with `broken = "uncounted"`. `InodesGivenBack` speaks of the
stale states too; it is only the panic of a failed `sys_mkdir` that it leaves out.
Processes belong to the superuser, so `permission` refuses only removed directories.
A path has a last name: the ends of `open_namei`, `sys_rmdir` and their like for a path
that ends in `/` are left out.

### Files, MCFiles

`filp[p][fd]`, `file_table` and the inodes of pipes. `OpenBegin`, `OpenDone` and
`OpenFails` are `sys_open`; `Close` is `sys_close`, `Dup`, `Dup2` and `Dup2Done`
`sys_dup`, `sys_dup2` and `fcntl(F_DUPFD)`, `PipeBegin`, `PipeDone` and `PipeFails`
`sys_pipe`. `ReadSome`, `ReadEnds`, `ReadSleeps` and `WriteAll`, `WriteEnds`, `WriteSleeps`
are `read_pipe` and `write_pipe` from one sleep to the next. `Fork` is the part of
`copy_process`, `CloseNext` the loop of `do_exit`, that is about descriptors. Bytes are
numbered as they are written, so that `BytesInOrder` can tell them apart.
`get_pipe_inode` can fail at any time: the frames belong to Memory.

### Tty, MCTty

One terminal, console or serial line, edited (`ICANON`) and echoed (`ECHO`) or not, with
a reader, a writer and interrupts. `Key` is the interrupt of the
keyboard or the serial line up to `copy_to_cooked`, `CookTests`, `CookOne`, `CookNothing`,
`CookEcho`, `CookDraw`, `CookPut` and `CookEnds` are `copy_to_cooked` cut where another interrupt of the
keyboard can come between (`intr` is the stack of the interrupts in progress), `Transmit`
is `write_char`. `Call` and `Dispatch` are system call and scheduler; `ReadLoop`,
`ReadTake`, `ReadCount` are `tty_read`, `WriteLoop`, `WriteTest`, `WritePut`, `WriteOut`,
`WriteDraw` are `tty_write` with `rs_write` or `con_write`.

Of the write queue only the number of characters is kept. The sizes are
constants: a queue of 1024 bytes wakes its writer when 128 are free
and looks for it from 256 characters down, and the model keeps the order of these
numbers. `broken` tells which end of a queue has been moved past the other:
`overrun` (echo into a full queue, a character put after `FULL` was tested,
or `secondary` filled up by a nested key), `underrun` (a nested key has emptied `read_q`
between the test of the loop and `GETCH`), `drained` (`con_write` counted before it was
interrupted), `swapped` (a nested key has come between), `erased` (a reader is about to
take the character that goes).

On a serial line a character that finds `read_q` full does not call `do_tty_interrupt`
(`Key` has no such step), and nothing else empties `read_q`: the line is dead then
(`KeyReachesReader` does not hold). `SleepersAreWoken` therefore speaks of `secondary` only. A
`VMIN` above 1 is left out.

### Screen, Console, MCConsole

`Screen` is what a terminal of its kind promises: a grid of cells, a cursor, a region of
rows that scrolls. `Console` is `console.c`: an array of words, of which the screen
shows those from `origin` to `scr_end`; `pos` is the address of the cursor, kept beside
its column `x` and row `y`. `Text` is a character outside of a sequence, `Escape`,
`Bracket`, `Short`, `Question`, `Digit`, `Semicolon` the states 0 to 3 of `con_write`,
and `Moves`, `Erases`, `Region`, `Saves`, `Restores`, `Unknown` and `Starts` the ends of
a control sequence; `Round` is one round of the loops in `csi_at`, `csi_P`, `csi_L` and
`csi_M`. The functions of the code that change the window or the cursor are operators
of the same names on the record `scr`. `Slide`, `Rewind` and `ScrollRegion` are the three
cases of `scrup`: the window moves on, the screen is copied back to the start of the
memory, or a part of it scrolls. Parameters are unsigned and wrap at `Word`, and so do
the places that `gotoxy` compares with the size of the screen.

`Grid(scr)` is the refinement mapping, the words in the window row by row. Reading a
parameter is a stutter of Screen. ESC 7 and ESC 8 are recognised by the column of the
cursor, because the code compares `x` where it means `c`; the model does the same.

### VideoChat, MCVideoChat

The routes of `app.py` in steps between two looks at shared data: `MainLooks` ...
`MainForgets` are `main_page`, `SwitchChecks` is `switch_room` before the lock, `Locked` to
`StopClearsQueues` are `join_chat`, `switch_room`, `leave_chat` under the lock with
`stop_background_threads`, `Configure`, `Start`, `StartEnds` the same with
`start_background_threads`. The discovery thread of each start is `DiscoveryBegins` to
`Expires`, the publisher `Publish` and `PublisherEnds`. There is no clock: `join()` has a
timeout, and returns without the end of its thread if that one is in `recvfrom()`, or is a
publisher that has begun and may be in `VideoCapture()` or `read()` (`JoinReturns`); a peer
that was not just heard can be too old. `outlived` says which kinds of threads have
outlived their session; such a publisher still has the port.

## 4. The runs

| Run | Bounds | States, time | Asks |
|---|---|---|---|
| `memory` | 3 tasks, 6 frames, 2 directory entries of 1 page, 2 values | 184 961, 73 s | Are the counts exact and the sharing invisible? |
| `hd_queue` | 4 processes, 4 slots, no faults, fairness | 73 596, 72 s | Is the elevator list kept, and every request answered, up to the two races? |
| `hd_data` | 3 processes, 1 slot, 2 values, 1 retry, failing first sectors, writes not asked for | 2 742 416, 33 s | Do buffers agree with the disk, and are sleepers chained? |
| `buffer` | 2 processes that hold 1 buffer while asking, 4 buffers (1 pinned), 5 blocks, failing reads and writes | 3 945 768, 187 s | Is what was last written found, through eviction and sync; are counts and free list right, and is everybody woken? |
| `sched` | 3 tasks and the idle task, priority 1, 1 queue, fairness | | Is no sleeper lost, and does every runnable task run? |
| `inodes` | 3 processes, 3 slots, 2 inodes | | Is the table consistent while inodes are freed and written? |
| `file_blocks` | 2 processes, 2 files, 3 blocks, a direct and a doubly indirect slot with 1 entry each, read errors | 410 644, 8 s | Does a block get into two files, or nowhere? |
| `directory` | 2 processes, 3 inodes, 1 entry per block, 2 entries, paths a, b, a/b | 1 431 736, 20 s | Is the tree kept, and every inode given back? |
| `files` | 2 processes, 2 descriptors each, 2 entries of the file table, 1 pipe with a ring of 3 | | Are the counts exact, and do pipes deliver and end? |
| `tty` | all eight kinds of terminal (console or serial line, edited or not, echoed or not); queues of 3, 2 nested interrupts | 9 372 378, 72 s | Is the line count right, and is everybody woken? |
| `console` | 3 rows of 2 columns in 8 words, 1 character and blank, 2 digits, 2 parameters | | Is what the window shows what a screen would show? |
| `video_chat` | 2 requests, 2 rooms, 1 other peer, 2 starts, fairness | 1 649 056, 166 s | Is a session clean, the port free, and the lock released? |

These runs end without an error. For every property `PROJECT.json` names a mutant: a
plausible mistake in a definition, under which the run finds the property
violated.

Ten properties say what the repository says of itself, and do not hold. They are stated
in the modules beside the others, each with the line it quotes, but no run lists them: to
see the steps that lead to one, name it in the configuration in place of the properties
there. TLC finds each in seconds.

| Configuration | Property | What is said |
|---|---|---|
| `HdQueue.cfg` | `Restarted` | interrupts that died down while sorting are restarted (`kernel/hd.c:359`) |
| `HdQueue.cfg` | `NothingCut` | the list is not messed up without disabling interrupts (`kernel/hd.c:334`) |
| `HdData.cfg`, `Faults = {"second"}` | `CleanMatchesDisk` | `bread()` returns the block or NULL (`fs/buffer.c:207`) |
| `BufferCache.cfg` | `TakenUndisturbed` | nobody can get to a buffer that `getblk` has taken (`fs/buffer.c:170`) |
| `BufferCache.cfg` | `NoneRefetched` | one can sleep there without fear of races (`fs/buffer.c:171`) |
| `BufferCache.cfg` | `NoneLate` | no interrupt changes a buffer (`fs/buffer.c:2`) |
| `Directory.cfg` | `DeletesWhatExists` | a file without links is nonexistent (`fs/namei.c:606`) |
| `Tty.cfg` | `KeyReachesReader` | consoles and serial lines are alike (`kernel/tty_io.c:2`) |
| `VideoChat.cfg` | `StateCleared` | stopping waits for the threads and clears the state (`app.py:610`) |
| `VideoChat.cfg` | `SwitchesInSession` | a switch is made in a session only (`app.py:735`) |

Why the bounds are enough:

- **memory.** Six frames are a task structure, two page tables and two pages of
  one task plus one: a fork of a fully grown task fails for lack of memory, and
  so do page faults, at every stage. Three tasks give sharing among three, and
  an orphaned grandchild. The proofs remove the bounds.
- **hd_queue.** `add_request` inserts behind the second entry at the earliest:
  four requests are needed for an insertion in the middle. **hd_data** has one
  slot so that two processes sleep on `wait_for_request` in a chain.
- **buffer.** Three free buffers for four other blocks, and for two processes that each hold one and ask for
  another: each can evict what the other has read, wait for it, or be beaten to it; all
  buffers but one are held, and the last one is fought for. The constraint `MCBounds`
  allows one dirty buffer, none while processes hold one and ask, and stops at states in
  which contents have been lost in two ways; after a loss the calls under way are
  finished and no new one begins, but a `sync()`. The properties speak of the blocks that
  have not been lost, and counts and waiting do not depend on contents.
- **sched.** Three tasks are the smallest number in which a chain of sleepers
  has a middle. Priority 1 lets slices run out often.
- **inodes.** One process in the last `iput`, one that looks the inode up, one in
  `sync()`. Two inodes, so that a slot and a number can change hands; a third slot,
  so that an `iget` can keep an empty one while both are in memory. The full table
  is reached too.
- **file_blocks.** The doubly indirect slot takes three blocks, all there are: the
  device fills up at every level, and the other file's direct block competes. One
  entry per indirect block is enough for that, and two processes for every pair of
  calls.
- **directory.** One entry per block, so that a search can be overtaken between any
  two entries; two entries, so that `add_entry` can fail; three inodes, so that
  `new_inode` can fail and a directory in the root can have an entry.
- **files.** Two descriptors and two entries are what `pipe` needs: every `open`,
  `dup` and `pipe` can find the tables full. A ring of three has two bytes; calls of
  one and of three bytes make writers sleep in the middle.
- **tty.** Queues of three places hold two characters, so each of the three fills up;
  two nested interrupts suffice to swap two characters.
- **console.** Three rows, so that a region has a row above or below it; memory for
  four, so that the window slides once, is rewound and slides again. At most two
  cells are not blank (`MCFewGlyphs`): a copy that goes wrong moves or loses one of
  them. `Word` is 4, above the sizes and below what two digits make.
- **video_chat.** Two requests are enough for every unprotected look. Two starts are
  an old session with a thread that outlives it and a new one beside it. The rooms are
  alike, and `MCFirstRoom` uses this: the first session is in `r1`. (A symmetry set would
  not do for `LockReleased`.)

Deadlock is checked where the system should never stop: in `buffer`,
`sched` and `console`. The others say `CHECK_DEADLOCK FALSE`: `memory` ends when
all tasks have exited and released themselves, or `copy_strings` has left `page[]`, and
`files` when a lone process sleeps at a pipe of which it holds both ends; in `hd_queue` and `hd_data` interrupts
arrive in the unprotected windows, and a stalled drive, a request that is in no list, or a lost wake-up can leave nobody able to go on; `inodes`,
`file_blocks`, `directory` and `tty` stop when something is broken for good;
`video_chat` ends when the last start has been used up and all threads have ended.

### Fairness

- **HdQueue.** Strong fairness of the drive: it answers each command and its
  interrupt stays pending until it is taken. Strong fairness of each process's
  next step: `schedule()` runs every runnable process in the end (this is
  `Scheduled` of Sched), but a process in the kernel keeps the others out again
  and again. No fairness for new requests.
- **Sched.** Weak fairness of the timer, of the idle loop, and of kernel code
  that has begun to return. Nothing makes a program call the kernel, and nobody
  has to wake a sleeper.
- **Files.** Weak fairness of the kernel code of each process (`Scheduled` again).
  Nothing makes a program read, write or close.
- **VideoChat.** Weak fairness of each request's steps and of the steps of each
  thread of its own. No fairness of `Request`, `Hears`, `HearsItself` and
  `PublisherEnds`: nobody need be there to be heard and no camera need answer, so a thread may stay in
  `recvfrom()` or `read()` for ever. A lock that two requests want need not come to either.
- The other modules have safety properties only (`con_write` never waits). A system that goes on reading and
  writing blocks gives no fairness to those who wait for a buffer or an inode
  (`sleep_on` promises no order), and `tty_read` can loop for ever.

### What goes wrong, and where the model says so

These places are known to the models, and each property says whether it holds in
spite of them or only where they are kept out. They are what a change of this code
should look at first.

| Place | What happens | Where |
|---|---|---|
| `kernel/hd.c:364` | an interrupt while `sorting = 1` leaves `do_hd` set, and `add_request` does not start the drive: it stalls | `Restarted` fails; `Stalled` in `Served` |
| `kernel/hd.c:345` | `add_request` links behind the only request while the interrupt answers it; the new one is lost | `NothingCut` fails; `cut` in `QueueSound` |
| `kernel/hd.c:239` | a retry after a failed second sector reads the first sector into the second half of the buffer | `CleanMatchesDisk` fails with `"second"` |
| `kernel/hd.c:381` | the last request is answered between the search for a slot and `sleep_on`: the sleeper is not woken | `NoRequest`, `SleepOn` of HdQueue |
| `kernel/hd.c:244` | a write that is given up leaves the buffer dirty and not up to date: its contents are read over | `lost` of BufferCache |
| `fs/buffer.c:175` | a block is read from disk while its dirty buffer, out of the hash table, waits to be written | `NoneRefetched` fails; `refetched` |
| `fs/buffer.c:175` | a buffer is given to its new block while another `sync` writes it again after a failed write | `TakenUndisturbed` fails; `lost` |
| `kernel/hd.c:284` | a change made during a write is marked clean | `NoneLate` fails; `late` |
| `fs/exec.c:188` | the task dies in `copy_strings` and the frames in `page[]` are lost | `ExecDies` of Memory |
| `fs/exec.c:175` | `p` wraps, and `page[0xFFFFF]` is used | `stray` of Memory |
| `kernel/sched.c:148` | `interruptible_sleep_on` forgets a chain of sleepers, and can revive a zombie | premise `interruptible = {}` in Sched |
| `fs/pipe.c:89` | `sys_pipe` stores through a page that is shared after fork | `SharedPipeArray = TRUE` breaks `Isolation` |
| `fs/inode.c:149`, `fs/bitmap.c:110` | an `iget` while the last `iput` sleeps: `free_inode` panics, or what was just opened is cleared | `reused`, `broken` of Inodes |
| `fs/bitmap.c:125` | `free_inode` clears a slot that `sync()` is writing | `broken = "locked slot cleared"` |
| `fs/inode.c:60` | two writers get two blocks for one place; one is lost | `doubled` of FileBlocks |
| `fs/bitmap.c:50` | `free_block` gives up on a block that somebody reads; it is lost | `refused` of FileBlocks |
| `fs/namei.c:347`, `:556` | two entries of one name; another name's entry is cleared; a name in a removed directory | `broken = "stale"` of Directory |
| `fs/namei.c:672` | `sys_link` sleeps before it counts the link: two `unlink`s free a file that is in use | `DeletesWhatExists` fails; `broken = "uncounted"` |
| `fs/namei.c:443` | `sys_mkdir` without room for the entry gives a block back twice: panic | `broken = "free_block"` of Directory |
| `kernel/tty_io.c:133` | a nested key between the test and `GETCH`, or before `PUTCH`: an empty queue is read, a full one written | `broken` of Tty |
| `kernel/rs_io.s:100` | a full `read_q` of a serial line is never emptied again | `KeyReachesReader` fails |
| `kernel/tty_io.c:157`, `:179` | echo into a full queue; a second key inside `copy_to_cooked`; an erased character under the reader | `broken` of Tty |
| `kernel/tty_io.c:221` | with half a line there `tty_read` loops in the kernel and no process runs | `Spins` of Tty |
| `app.py:142` | the timeout is set on the other socket: discovery blocks in `recvfrom()` | no fairness of `Hears` |
| `app.py:626` | the thread that outlives its session goes on in the next one, or keeps the port | `StateCleared` fails; `outlived` |
| `app.py:676` | `main_page` clears `my_info` without the lock | premise `my_info # NoInfo` in `Session` |
| `app.py:736` | `switch_room` looks for a session before it has the lock | `SwitchesInSession` fails |

To see one that needs a changed constant, change it in the configuration and check
the property: TLC shows the steps.

## 5. The proofs

Eight modules prove, for every value of the constants, what the runs check on small
instances. The assumptions are those that each module names (`...Assumption`): that
sets of processes, tasks, buffers and the like are finite where something is counted,
that names of nothing are not names of something, that sizes are positive, that there are
more buffers than can be held at once. A theorem
that needs more says so itself. The invariants that speak of what holds until
something named in section 4 has happened are proved as the runs check them: with that premise.

Each proof has the same form. The property is not inductive; `IInv` (`BlocksIInv`, `DirIInv`, `TtyInv` for the second
component of a module) joins to it what the code relies on when it goes on after a sleep or
an interrupt. One lemma per action shows that it preserves the invariant, conjunct by
conjunct. Three modules prove about two components each, which share no state and no
definition: Memory and FileBlocks, Sched and Directory, Console and Tty.

### MemoryFileBlocks_proofs

The first part proves, for all finite sets of tasks, frames, directory
entries and pages (assumption `MemoryAssumption`; no assumption about their
sizes):

| Theorem | Property |
|---|---|
| `TypeCorrect` | `Spec => []TypeOK` |
| `CountsReferences` | `Spec => []RefCount` |
| `WritersAreAlone` | `Spec => []WritableIsUnshared` |
| `KernelIsAlone` | `Spec => []KernelFramesUnshared` (follows; no run checks it alone) |
| `NeverPanics` | `Spec => []NoPanic` |
| `ExecKeepsItsArguments` | `Spec => ExecKeepsArguments` |
| `MemoryIsPrivate` | `SharedPipeArray = FALSE => (Spec => Isolation)` |

None of these invariants is inductive alone. `WritableIsUnshared` needs
`RefCount`: a page may be made writable when the count is 1 because the count is
the number of references. `RefCount` needs `Shape` (present entries lie in
present tables, free slots have no pages, only a task in the state `exec` has
argument pages): otherwise `execve` and `exit` would forget references. That no
kernel frame is mapped, and that nothing is freed twice, again need `RefCount`.
The invariant `IInv` is the conjunction of `TypeOK`, `Shape`, `RefCount`,
`WritableIsUnshared`, `KernelFramesUnshared` and `NoPanic`.

`RefCount` counts the frames in `lost` like all others, those that `ExecDies` leaves
behind included, and holds until `copy_strings` has looked beyond `page[]` (`stray`).

The proof counts. `References(f)` is a sum of cardinalities of finite sets of
places; for each kind of place one lemma says how the cardinality changes when
an entry is added or removed (`PteChange`, `DirChange` and their like, from
`Exchange`), and `OnlyElement` turns "the count is 1 and this is a reference"
into "this is the only one". One step per action shows that each conjunct of
`IInv` is preserved. The refinement maps every action to one action of
`PrivateMemory` or to a stutter: `Fork` to `Clone`, `DemandPage` to `Touch`,
`Store`, `Wait` and `Pipe` to `Store`, `ExecReplace` to `Replace`, `Exit` and the
failing faults to `Discard`; copying a page on write is a stutter, because the
new frame has the contents of the old.

The second part is about the blocks of files, for any number of processes, files, blocks
and slots, of depth 0 to 2, and finitely many entries (`BlocksAssumption`):

| Theorem | Property |
|---|---|
| `BlocksNotSharedAlways` | `BlocksSpec => []BlocksNotShared` |
| `NoBlockLostAlways` | `BlocksSpec => []NoBlockLost` |

Both speak of trees of blocks, which a step changes in one place and which the code
reaches only from above; a count of references would not do, since it does not exist. The
invariant gives each block that is in use a *label* the code does not have: the place
whose pointer names it (slot of an inode, entry of an indirect block, work of a
`truncate()`), the file, and how many levels there are below it. `BlocksIInv` is
`BlocksTyped` and, until `overlap`, that there are labels with which `BlocksInv` holds; a
lemma per action says how they change. In detail:

- `InodesFit`, `IndirectFit`, `WorkFits`: every pointer that counts agrees with the label
  of its block. Two pointers to one block would both be in its label, so there is one;
  this is `BlocksNotShared`. `WritersFit` says the same of the block a writer has in hand,
  which is why its data cannot get into another file.
- `Owned`: until `doubled`, every block in use is named by a pointer. From the block to
  what names it the depth grows, so after two steps at most one is at an inode or in the
  work of a `truncate()`; this is `NoBlockLost`.
- `HandsSound`: a block from `new_block()` that waits for its buffer is marked and belongs
  to one process. Without it two files could get the same block.
- `Apart`: while a file is truncated, nobody else writes or truncates it. Without it a
  pointer could be stored into an indirect block that has been given back. That is what
  `overlap` ends, and the code does not prevent.

After two writers have got a block for one place (`doubled`) the one that was stored first
keeps its label, and so does what is below it: it is lost, but still in no second file.

### BufferCache_proofs

| Theorem | Property |
|---|---|
| `TypeCorrect` | `Spec => []TypeOK` |
| `NoTwoBuffers` | `Spec => []OneBufferPerBlock` |
| `HolderKeeps` | `Spec => []HolderKeepsBlock` |
| `CountsAreRight` | `Spec => []CountsUsers` |
| `FreeListIsSound` | `Spec => []FreeListSound` |
| `NobodyIsLeft` | `Spec => []SleepersAreWoken` |
| `LatestFound` | `Spec => []LatestIsFound` |

These lean on one another. A buffer may be taken for another block because its count
is 0, and that means that nobody uses it because `CountsUsers` holds; a count is right
because whoever has a buffer keeps it (`HolderKeepsBlock`). `IInv` adds what is known at
each place where `getblk` and `sync_dev` go on: what is about to be evicted is unused
and unlocked (`EvictsUnused`), what has been taken out of the table is hidden from all
others (`TakenIsHidden`) and clean once `sync_dev` is past it (`TakenIsClean`). The free
list is a ring: it has no part that is closed under `next_free` but the whole
(`Ring`); this says without recursion that its links reach everything, and it is
preserved by taking one out of the ring and by putting one in.

`LocksSound` relates a locked buffer to its transfer and to the process that waits for it;
a taken buffer is clean and unlocked unless its write was given up (`Spoilt`), which is
where the premise of the comment in `getblk` would have come in. `KeptSound` says that
the buffers a process holds while it asks for another one keep their blocks. Nobody is
left waiting on `buffer_wait` because somebody can go on (`SomeoneGood`): there are more
buffers than bitmaps and `MaxKept` for each process, so not all are held by those who
wait; a search that finds none has seen a buffer of someone who is still on the way to
`brelse` (`SearchSound`); and processes that wait for the lock of a buffer they want to
evict do not wait for one another in a ring (`NoRing`).

For the contents, `Filled` says that a buffer somebody uses is up to date or its transfer
has failed, `TransfersSound` and `HoldersRead` what a transfer and a holder have,
`OneDirty` that a block has at most one dirty copy, and `LatestSomewhere` that without
one the disk is right, all but for the blocks in `refetched`, `late` and `lost`.

### Files_proofs

| Theorem | Property |
|---|---|
| `DescriptorsCounted` | `Spec => []FilesCounted` |
| `PipeEndsCounted` | `Spec => []EndsCounted` |
| `BytesKeepOrder` | `Spec => []BytesInOrder` |

`FilesCounted` counts pairs of a process and a descriptor, so that `fork` adds
one for each descriptor of the parent at once. `CallsSound` is what `open`, `dup2` and
`pipe` rely on after they have slept: the entries they took are theirs alone, and not
set up yet. `PipesCounted` counts entries instead of ends; the two agree because an
entry with the inode of a pipe is one of its ends (`EntriesSound`).

`BytesKeepOrder` has an invariant of its own, `RingsOrdered`, whose steps rely on the types
in `IInv`: head and tail are slots of the page, and the slots from tail to head hold what
was written and not read, for every size of the page and of the calls. `WrapSum` replaces
the remainder of a sum or a difference by a choice of two linear terms, after which
`ReadKeeps` and `WriteKeeps` are linear. `SlotsDiffer` says that one call never writes a
slot twice; that a writer leaves one slot unused is what keeps a full ring from looking
empty in `WriteKeeps`. The bytes are numbered modulo twice the size of the page, more than a ring can hold, so that
two bytes in it never have one number.

### Inodes_proofs

| Theorem | Property |
|---|---|
| `CountsExact` | `Spec => []TableSound` |
| `LatestIsKept` | `Spec => []LatestInode` |
| `AllocationIsSound` | `Spec => []AllocatedIsUsed` |

`SlotsKept` lists what a process counts on in a slot while others run: the slot it holds
is still the inode it asked for, a slot it reads or writes is locked, an empty slot it
has kept in `iget` is as new. `OneOwner` says that only one process transfers a slot or
gives it up. `InodeSound` relates names, links, the slot and the disk of an inode. All
this holds as long as `broken = "no"`; the counts hold for ever. The proof shows
along the way that `free_inode` can only panic after an `iget` during the last `iput`
(the last conjunct of `IInv`).

### HdQueue_proofs

| Theorem | Property |
|---|---|
| `HeadServed` | `Spec => []HeadIsServed` |
| `LockedWhileAnswered` | `Spec => []LockedUntilAnswered` |
| `NoSleeperLost` | `Spec => []SleepersChained` |
| `CleanBuffers` | `"second" \notin Faults => (Spec => []CleanMatchesDisk)` |
| `QueueIsSound` | `Spec => []QueueSound` |
| `StallsOnly` | `Spec => StallsOnlyBySorting` |

All hold whenever interrupts arrive, and all but `CleanBuffers` whatever the drive does
wrong. The difficulty is an `add_request` that is interrupted while it walks: the entry it
stands on can be answered. `AddSound` says what is left to it then, a set of entries that
is closed under `next`, has no loop and does not have its own request, so that linking
there makes no loop either. `FirstKnown` says that an entry that `add_request` read
as the first one is still the first or has been answered, and that only one answer can
come during one sorting, since the drive is idle then. So an entry can be left out
only by linking behind that one, which is what `cut` has; `QueueWhole` and `NoneLeftOut` are about all
the others (`Kept`). `TransfersSound` adds to this that the half of a buffer that is done has
the contents of its sector. The premise of `CleanBuffers` is needed: section 4 names the
line at which it fails without. `WaitSound` is what makes `SleepersChained` inductive: each
sleeper is known to one other at most, and a woken one to none.

### SchedDirectory_proofs

How tasks sleep and wake:

| Theorem | Property |
|---|---|
| `NoSleeperForgotten` | `Spec => []QueuesSound` |
| `DeadStayDead` | `Spec => ZombiesStayDead` |

With `sleep_on()` alone (`interruptible = {}`). `PlacesSound`: the current task runs,
and a task in a queue is in `sleep_on()`, neither dead nor asleep anywhere else.
`Known`: what a queue or a `tmp` points to sleeps in that queue, and nothing else points
to it. So a wake-up removes the only pointer to the task it wakes; this is why
none is left behind that could wake a task which has died, and what
`interruptible_sleep_on` breaks with its `*p=NULL`. That time slices stay
below twice the priority is in `TypeOK`.

Names and directories, for any finite set of processes, any paths, and any number of
inodes and entries (`DirectoryAssumption`):

| Theorem | Property |
|---|---|
| `InodesGivenBackAlways` | `DirSpec => []InodesGivenBack` |
| `TreeSoundAlways` | `DirSpec => []TreeSound` |

`DirIInv` has two parts with different ends. `Counted` says that `i_count` is the number of
hands an inode is in: directory, inode and old inode of each call. It survives `"stale"`,
since a call that acts on what is no longer so still gives back what it took; only the
panic of `sys_mkdir` ends it. `DirInv` holds as long as `broken = "no"` and adds the tree: the
links of a file are its names, those of a directory its subdirectories and two, and a
directory has one name, or none and is empty (`DirOk`, `FileOk`). `MakerOk` is about an
inode that has been made and has no entry yet, `HolderOk` about what a call has in hand
across a sleep: a directory is still a directory, removed or not. The links are those of
`Settled(inode, at)`, the table as it would be if every `link()` that has entered its name had
counted it too: entering a name and counting it are then one change to that table,
however much happens between the two.

The two need each other. An inode is freed when its count falls to 0 and it has no links;
that no entry points to it then is `Tree`, and that no call goes on with it is `Counted`. A
number that is in a directory belongs to an inode in use, so a new inode (`new_inode`) has
no name yet, and entering one makes exactly one name. Names and subdirectories are
cardinalities of sets of entries; each way to change an entry has one lemma that says by
how much they change.

### ConsoleTty_proofs

The screen:

| Theorem | Property |
|---|---|
| `CursorStays` | `Spec => []CursorInWindow` |
| `ImplementsScreen` | `Spec => ShowsTheScreen` |

For every size of the screen and of the memory, with whole tab stops
(`COLUMNS % TAB = 0`) and memory for one screen at least, as `console.c` has them.
The inductive invariant is `TypeOK` and `CursorInWindow`; the refinement needs no more.
One lemma for each function of the code (`ScrupIs`, `LfIs`, `PutIs`, `EraseIs`, ...) says
of a console `s` what the function makes of it: `After(s, t, g, x, y)`, the window of `t` is
inside the memory and shows the grid `g`, the cursor is at `x` and `y`. An address is a
product and two sums; the solver gets the product as `Line(r)`, of which it knows that it
grows by `COLUMNS` with every row, and all that is left is linear. `RegionUp` and
`RegionDown` show once that a copy of rows followed by a fill is a scroll, wherever the
window is; `SlideIs` and `RewindIs` show that moving the window, or the screen back to the
start of the memory, is the same scroll.

The queues of a terminal, for all kinds of terminal, all sizes of queues and calls, any
depth of nested interrupts and any thresholds at which a writer's wake-up leaves room
(`TtyAssumption`):

| Theorem | Property |
|---|---|
| `DataCountsAlways` | `TtySpec => []DataCounts` |
| `RawIsSafeAlways` | `TtySpec => []RawIsSafe` |
| `SleepersAreWokenAlways` | `TtySpec => []SleepersAreWoken` |

No run checks `RawIsSafe` alone. `TtyInv` joins the three to what is true in the middle of a step of the code.
`CallsSound`: a call of `copy_to_cooked()` on the stack has a character in hand from
`CookOne` to `CookPut`, erases only what is there, and what `con_write()` counted before it
was interrupted is what is left, unless a later call is in `con_write()` too; a serial line
has no nested calls, so what the loop has tested (`TestHolds`) still holds at its `GETCH`. On a console it need not;
`DataCounts` is proved up to the queue that breaks then. `WriterSound`: a console's queue
is empty unless somebody is writing to it, and a serial line's that is not empty is being
sent; this is what lets a writer sleep. `ReaderSound`: the reader takes what is there, and
sleeps only over an empty `secondary` or under a handler that will wake it. That a handler
comes again is not said: with a full `read_q` on a serial line none does. `RawIsSafe` is
about serial lines that are neither edited nor echoed; there the stack has one call at
most. A console of this kind is not safe: a second key inside `copy_to_cooked()` can swap
two characters, read an empty queue or write to a full one.

### VideoChat_proofs

| Theorem | Property |
|---|---|
| `PortNeverTaken` | `Spec => []PortIsFree` |
| `SessionsAreClean` | `Spec => []SessionIsClean` |

The flags `threads_started` and `shutdown_flag` alone do not tell where a start or a stop
is; `LockSound` and `ListSound` say it by the one request that has the lock, and
`main_page`, which looks at the flag without the lock, is covered by what it may
find. `OnePublisher` holds until a publisher has outlived its session, `OneDiscovery`,
`PeersSound` and `QueuesSound` until a discovery thread has: `join()` gives up on either.

### Only model-checked

- All liveness (`Served`, `Scheduled`, `Interrupted`, `HangupNoticed`, `LockReleased`) and
  the absence of deadlock: out of the prover's reach, because both are about `ENABLED`.

## 6. What is not modelled

- **Chat server** (`cli-chat.py`). One asyncio process whose state, two collections,
  changes only between awaits; the kernel has been preferred.
- **Start-up and super blocks** (`boot/`, `init/`, `fs/super.c`). They run once, with one
  process; their results are the initial states. No file system is mounted later.
- **Process ids, waitpid's choice, sessions, alarms, signal handlers.** Planned.
- **Terminal details**: scan codes, `tty_ioctl`, `VTIME`, a `VMIN` above 1, several readers.
- **Console details**: the attributes of characters (`csi_m`), the answer to ESC Z
  (`respond`), the registers of the display controller. The echo of a key comes from an
  interrupt and can enter `con_write()` in the middle of a character; in Console it
  comes between two characters. Tty has the interrupt's effect on the queues.
- **The other threads of the video chat**: subscriber and distributor only move frames
  and drop the oldest; the events for the browser and the page are display.
- **HW02's lists and sorts**: sequential code with unit tests of its own.
- **Data**: what is in a file, a name longer than a letter, modes and owners. The
  system calls that store a single field (`chmod`, `utime`, `chdir`, `lseek`, ...).
- The panics that a correct file system and working hardware never reach, and
  all formatting and reporting; drivers' register sequences, descriptor tables, the
  coprocessor, segment arithmetic (`copy_mem`'s bases are the index `t` of
  `pte[t]`), `calc_mem`.
- Several disks or devices, partitions.

`PROJECT.json` has the status of each part.
