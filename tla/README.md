# TLA+ models and proofs for the MiSTer DVD core

The repository is a DVD player for the MiSTer FPGA platform. The fabric reads an
ISO image sector by sector, navigates it with its own DVD virtual machine,
demultiplexes and decodes it; a Linux-side program, the MiSTer *Main* with the
patches of `main/`, feeds it sectors, drives the optical drive and keeps the save
files. This directory models the parts whose correctness depends on
interleavings, resets, failures and timing, checks them with TLC on small
instances, and proves with TLAPS what matters most for every size.

- [The system](#the-system)
- [Plan](#plan)
- [What is modelled, and how it corresponds to the code](#what-is-modelled)
- [Runs, bounds and fairness](#runs-bounds-and-fairness)
- [Proofs](#proofs)
- [Where the code and its words part](#where-the-code-and-its-words-part)
- [What is not modelled](#what-is-not-modelled)

## The system

    disc, image --> dvd_css / dvd_vcd / dvd_cdda --> dvd_readahead --> user_io poll
                             (HPS, C++)                                    |
                                                                   sd_rd / sd_ack
                                                                           v
    dvd_iso_reader --> ps_demux --> video decoder --> display scheduler --> picture
      ^      |             |
      |      |             +------> audio_ring --> dvd_audio_decode --> sound
      |      +--> nav_pci / nav_dsi --> dvd_vm --> jumps and seeks --+
      +---------------------------- flush_ctl, mode_realign <--------+

On the HPS two threads matter: Main's poll thread, which serves block requests,
polls the drive, takes remote and menu input and reads and writes save files, and
the read-ahead worker, the only reader of the disc. In the fabric every module is
a process clocked by `clk_sys`, `clk_dec` or `clk_mem`; a jump, a seek, a change
of the sound track or a mount resets some modules and not others while data of
the old position is still in flight in the rest.

### Inventory

For each component: its state, its operations, whom it talks to, what is hard,
and what makes it correct.

**Read-ahead ring** (`dvd_readahead.cpp`). State: a ring of 16384 sectors, the run
`[base, base + fill)`, a generation counter, a stop flag, Main's own 8-sector
window. Operations: start and stop with a mount, ready (is this window there?),
read, and the worker's loop of burst, retry and store. It shares the ring with
the worker under one mutex; the worker reads the source with the mutex released.
Hard: a seek during a source read, a failed burst, an unmount that joins a
sleeping worker, a request the core withdraws. Correct when every sector handed
out is the one that was asked for or is declared lost, and when nobody waits for
ever.

**Disc sources** (`dvd_css.cpp`, `dvd_vcd.cpp`, `dvd_cdda.cpp`, `dvd_cue.cpp`).
State: the open handle and where it stands, the key domains with the one selected and
its verdict, a table of bad sectors of IFO/BUP pairs. Operations: open (find the VOBs,
take a key at each key block), read a window, heal a key domain that hands on a
scrambled sector. One caller at a time (the worker). Hard: partial failures, windows
that span two keys or begin before a VOB, keys that fail and come back, a sector that is
bad in one copy. Correct when a returned sector is whole and of its place, nothing is
decrypted with another sector's key, no key is cracked while playing, and no IFO sector is
lost that one of its two copies still gives.

**Optical drive** (`dvd_phys.cpp`). State: whether our disc is mounted, the device,
three latches (an image took the slot, last readiness, not recognised), scan
timers and the time at which a reset is released. Operations: the poll tick,
Eject, notes of mounts made by others. It shares slot 0 and the core's reset bit
with the whole of Main. Hard: everything is sampled once a second; calls block
for seconds; discs, images and buttons come in between. Correct when it never
acts on a slot it has lost, and a disc that was put in plays.

**Launch watchdog, remote control, report, HDMI audio set-up** (`dvd_launch.cpp`,
`dvd_ctl.cpp`, `dvd_ir.cpp`, `dvd_remote.cpp`, `dvd_report.cpp`,
`dvd_hdmi_audio.cpp`). Input translation and I/O; the watchdog gives the input
back when a launch hangs.

**Save states** (`dvd_sstate.cpp`, `dvd_vmsnap.cpp`, `vm_snap.sv`, the snapshot and
restore events of `dvd_vm.sv`). State: the request in flight on the HPS, the press
counters and the 96-word buffer in the fabric with its busy and pending bits, two
request bits in the VM, one file per slot and disc plus an autosave. Operations:
save, load, autosave on a mount or a core switch. Hard: requests outlive mounts,
time-outs and each other; the file may be cut off by a power failure. Correct
when what is restored is a whole snapshot, of this disc, as it was checked.

**Image reader** (`dvd_iso_reader.sv`). State: a sequencer over ISO, IFO and PGC
structures, the cell and sector being read, latched seeks and jumps, the block
request, two watchdogs. Operations: mount, block handshake, walk of the disc,
load of a program chain, seek, jump, still, natural transition at the end of a
cell, the wait for the VM's verdict. Talks to everyone. Hard: requests that arrive
while another one executes; priorities among latches in one clock cycle.

**Navigation VM** (`dvd_vm.sv`, `nav/vm.uasm`; golden models
`tools/dvd_vm_ref.py`, of the DVD virtual machine, and `tools/nav_shell.py`, of the
wrapper). State: in the wrapper one latch per event, the VM's domain, the last
menu, `pre_armed`, a waiting restore, the wait timer; in the microcode's data RAM
the registers, the resume bookmark, the flags of a jump under way (`SKIP_PRE`, the
fallback step, the chain count). Operations: one handler per event (a boot, an
error, a load, a button, a cell command, a PGC's end, a chapter edge, four keys),
the three ways out of a wait, the ends of a block of commands, snapshot and
restore. It jumps through the reader, which loads the program chain and reports
back, or not. Hard: reports and presses arrive while a block runs or a jump is
under way, and refer to what has gone; failures chain through fallbacks whose
own loads fail; the reader waits for verdicts the VM owes it. Correct when each
command does what the golden model does, every activation comes to rest, every
wait is answered, and nothing stale is acted on.

**Integration script** (`main/integration/apply_integration.py`). State: the eleven
files of a stock Main it patches, and the text it holds in memory between a read
and a write. Operations: some sixty steps, each with an anchor and a marker that
says it has been done. Hard: several steps depend on what earlier ones inserted;
it stops at a missing anchor, may be killed anywhere, and is run again on what is
left; the files are written in place. Correct when a run that reports "done" has every
edit in place, once, and in the order the edits need.

**Discontinuity control** (`flush_ctl.sv`, `mode_realign.sv`, the playhead of
`nav_dsi.sv`). State: six flush counters, the re-align arm. Operations: turn
each discontinuity into the right set of resets; re-align playback after a change
of the raster. Hard: all sources of discontinuity may fall on each other within
cycles. Correct when video, audio and clock are always discarded together, no
change is lost, and the re-align goes to where playback is.

**Transport controls** (`stop_ctl.sv`, `scrub_ctrl.sv`, `ab_repeat.sv`,
`dpad_seek.sv`, `seek_time.sv` and the on-screen displays). Small state machines
that turn buttons into seeks. Hard: they sample a playhead that every seek
invalidates, and share one jump port without an acknowledge.

**Audio frame buffer and its flow control** (`audio_ring.sv`, the dispatcher of
`dvd_audio_decode.sv`, the drain watchdog of `emu.sv`). State: a ring of bytes, a
ring of frame descriptors, a speculative frame, the dispatcher's frame, the
watchdog. Operations: write a byte, commit or drop a frame, pop and read one, a
splice, a reset. Hard: five counters change in one cycle; its backpressure stalls
the video. Correct when the decoder is fed whole frames and the picture never
waits for ever.

**Audio decoders, demultiplexer, subpictures, captions, picture path**
(`audio_engine.sv`, `ac3/`, `dts/`, `mp2/`, `ps_demux.sv`, `spu_decode.sv`, ...).
Signal processing and bit-stream parsing with one actor each.

**Presentation** (`disp_sched.sv`, `frame_drop_ctl.sv`, `av_sync.sv`,
`pts_assoc.sv`, `dec_duty.sv`). Counters and queues that pair pictures with time
stamps and pace them. Hard: saturation, debts carried over a flush.

**Memory system** (`mem_shim_burst.sv`, `mem_req_prefetch.sv`, `ddr_arb.sv`).
Credits and caches in front of the one memory port. The arbiter's second master is tied
off (`emu.sv:5125-5128`), so nothing contends. Correct when credits and beats agree.

**MPEG-2 core, MiSTer framework** (`rtl/mpeg2`, `sys/`). Upstream code, used as it
is.

## Plan

In order of importance; the first ten are on disk.

1. `SectorPort`, `ReadAhead`: everything the player shows comes through it, and it
   is the one place with two preemptive threads. Abstract specification, detailed
   one, refinement, all safety proved.
2. `NavShell`: the VM, its event latches and the reader that loads for it. Types and
   the two ordering properties proved; that it settles and answers by TLC.
3. `PhysDisc`: ownership of slot 0 and the core's reset. Safety proved.
4. `Realign`: flushes and the re-align arm. Safety proved.
5. `AudioQueue`, `AudioRing`: the frame buffer and its backpressure. What it loses and
   when, that a splice is never heard, that the reader reads its frame and that the
   ring implements the abstract queue, proved.
6. `SaveState`: snapshot, restore and files, across mounts and power cuts. Safety proved.
7. `VmEval`, `NavVm`: what commands compute and what events, links and jumps do on a
   disc, from the golden model. Safety proved, for every conformant or broken disc.
   `NavShell` composes what `NavVm` leaves out (timing and latches) and leaves out what
   `NavVm` has (data).
8. `Integration`: the script, its failures and its reruns. What a finished script has
   applied, whatever cut short the runs before it, proved.
9. `Transport`: `ab_repeat`, `dpad_seek` and `scrub_ctrl` over one jump port, the
   playhead of `nav_dsi` and the seek latch of the reader. All its safety properties
   proved. `stop_ctl`, the time map and the linear sources would come next.
10. `CssSource`: `css_src_read` with its key domains and the IFO/BUP mirror, which is what
    `ReadAhead` takes for its source. What is decrypted with which key, and what the
    mirror serves, proved.
11. Presentation (not written): the frame-drop debt, the association of time stamps.

The arbiter `ddr_arb.sv` was planned and dropped: its second master, the audio writer, is tied
off (`docs/audio_ddr_path.md:7`), which leaves a pass-through.

Of the safety properties that the prover can reach none is left unproved; what it cannot
reach, or only at a price that a proof would not repay, is listed under Proofs.

## What is modelled

Every action stands for one critical section, one call, or one clock edge, named
after it. The operators with an underscore and a suffix (`LoopBack_Forward`) are
mutated forms of the definition that follows them; no specification uses them.
They exist so that each property can be shown to notice a plausible mistake.

### SectorPort and ReadAhead

`SectorPort` is what the core is promised for `sd_rd`: a request is in the end
answered or withdrawn, and an answer is the block asked for, or zeros for a block
past the end or given up on.

`ReadAhead` is `dvd_readahead.cpp` with the two patches of Main that call it
(integration steps 8, 9, 48 and 49). A sector's content is the LBA it was read
from, `Zero`, or `Junk` (fresh or freed memory).

| Code | Model |
|------|-------|
| `base`, `fill`, `gen`, `stop_req`, `ring` under `mx` | variables of the same names |
| worker: lock, wait or choose a burst, unlock | `WDecide` |
| `src_busy` store, burst | `WClaim`, `WBurst` |
| retry loop, its pause, its reread | `WRetry`, `WResume`, `WReread` |
| relock, drop or append | `WStore` |
| `dvd_readahead_ready` on each poll | `PollCheck` |
| readA, readB (Main's window) | `PollRead`, `Prefetch` |
| `dvd_ra_start`, `dvd_ra_stop`, the join | `Start`, `Stop`, `Joined` |
| the core raises or drops `sd_rd` | `Ask`, `Withdraw` |

The condition variable is real: a parked worker moves only after a broadcast.
The source is a parameter, `MayFail` and `Reads`, restricted by the contract of
`dvd_readahead.h`. The runs use `css_src_read`, whose failures past the first
chunk come back as zero-filled tails; a raw drive (all or nothing) only has fewer
outcomes, and the proofs cover both. `PortSpec` says that every step is a step of
`SectorPort` or a stutter; that a request ends is `RequestServed`. A mount without a ring (out of memory) falls back to
synchronous reads and is not modelled.

### PhysDisc

`dvd_phys.cpp` on the poll thread. A tick is split where it blocks: `TickTop`
up to the readiness ioctl, `ScanEmpty` or `ScanReady`, `Probe`, `Mount`; a disc
may come and go between any two of them. `MountFile`, `Unmount` and `Eject` run
between ticks, because they run on the same thread. `Unmount` empties the slot whoever has
it; `vacated` is an empty slot that the drive had until then. The environment moves on its
own: `InsertDisc`, `RemoveDisc`, the worker's `Read`, the launch, and the clock
`Second`. The three probes are one, because only "one of them claims the disc" is
told apart. Two history variables, `refused` (this disc was seen, and set
aside for a file) and `edgeDue` (a disc went in since the last scan), record what
happened, so that properties can be about it.

### Realign

`flush_ctl.sv`, `mode_realign.sv`, the seek and jump latches of
`dvd_iso_reader.sv` and the playhead register of `nav_dsi.sv`. One step is one
edge of `clk_sys`; every register takes its next value from the values before the
edge, so a one-cycle race is a state of the model and not an interleaving
somebody chose. `place` numbers the relocations of the reader and stands for the
addresses: a playhead is right when it carries the number of the stream it will
land in. `Reader` keeps the order of the last assignment wins: a mount over a
jump over a seek over the latches. The guard `~keep_vbuf` of `AckDone` is
redundant in the arm's states (`KeptInMenu`, proved): no arm survives into a menu.

### AudioQueue and AudioRing

`AudioQueue` is the promise of `audio_ring.sv`'s header: whole frames, in order,
each read exactly. `AudioRing` is the ring with the five counters, the dispatcher
that takes frames from it, and the drain watchdog, the frame-step session and the
backpressure of `emu.sv`. Whether a frame is held back, and whether its codec has
room, is a free input of every cycle (`takes`), and so is a deliberate hold. A
byte is the pair of its frame's number and its place in the frame, which makes
misframing visible. `AudioReset` does in one step what the fabric holds for 64
cycles. The abstract queue is the descriptors that wait: the one at the head of the
prefetch, unless it leaves in this very cycle, and those in the ring (`Waiting`).

### SaveState

`dvd_sstate.cpp`, `dvd_vmsnap.cpp`, `vm_snap.sv` and the snapshot and restore events
of the VM. The poll thread does one thing at a time, so `pc` and `job` say which
call it is in; the VM moves between any two of its steps, also while a bus
transaction is open, and the power may go at any of them.

| Code | Model |
|------|-------|
| `dvd_sstate_tick`: its idle branch, `start_save`, `start_load` | `Request`, `StartSave`, `StartLoad` |
| `poll_save`, `poll_load`, their time-outs | `PollSave`, `PollLoad` |
| the end of a bus transaction: ask, load | `AskEnds`, `LoadEnds` |
| `vm_snap`'s request and load checks | `SnapRequest`, `LoadChecked`, `Verdict` |
| E_SNAP and E_RST in `dvd_vm.sv`, `vm.uasm` | `SnapTake`, `SnapDone`, `RstTake`, `RstDone` |
| fetch, file of a slot (truncate, write) | `FetchEnds`, `SlotWritten` |
| `dvd_sstate_autosave_flush`, its 300 ms of polling | `Flush`, `FlushPoll` |
| autosave: temporary file, rename | `FetchEnds`, `TmpWritten`, `Renamed` |
| what the caller of the flush does | `LeaveForMount`, `LeaveForEject`, `LeaveForCore` |
| the mount reaches the core | `MountDone` |
| the OSD's presses, its Reset row, Disc Menus | `Press`, `OsdReset`, `DiscMenus` |

A snapshot is a record: whose state it is, whether its words are whole, of another
layout, mixed (a stream cut short) or torn (a write cut short), and whether
playback had got anywhere (`lived`: what makes an autosave worth keeping). The two
press counters keep their two bits. The sequence number is kept as "has moved
since the last ask", which is all that is ever compared. The three seconds of a
request, the ten of grace after a mount and the 300 ms of a flush are
nondeterministic choices: a time-out may come at any poll. A core switch starts
Main afresh, so every static of the file is reset with it. The identity of a disc
in the drive is read late (`Pending`). A mount that arrives while the core is held
in reset belongs to `PhysDisc`, and is left out here. `torn` marks the one case the
fabric does not guard: a request that ends while a snapshot is being streamed
resets the write address under it.

### NavShell

One step is one handler of the microcode, one way a block of commands ends, or one
step of the reader. The wrapper's latches, the microcode's flags and the reader are
records `ev`, `wr`, `vm`, `rd`, with the fields of the code.

| Code | Model |
|------|-------|
| event latches of `dvd_vm.sv` (`Shell` in `nav_shell.py`), their order of dispatch | `ev`, `Order`, `Offered`, `Dispatch` |
| what a handler clears besides its own event (the clear masks of the microcode) | `AlsoClears`, `Stale` |
| P_VM_DOM, last menu, `pre_armed` and `pre_done`, `rst_pend` | `wr`, `ArmedAfter`, `AtRest`, `MenuLatched` |
| `E_BOOT` ... `E_RETURN` of `vm.uasm` | `EBoot` ... `EReturn` |
| `E_LOADED`, `SKIP_PRE`, `DEADEND` | `ELoaded`, `LoadTaken`, `DeadEnd` |
| the fallback chain of `E_ERROR` | `EError` |
| `W_LOADED` and its fuse, `W_ERROR`, `W_TIMEOUT` | `WLoaded`, `WError`, `WTimeout` |
| the end of a block, `BLKEND`, `WV_IDLE` | `BlockEnd`, `FellThrough`, `NoVerdict` |
| links within the PGC, to another PGC, jumps and calls | `LinkInside`, `LinkOutside`, `JumpAway` |
| `vm_adv`, `vm_replay`, seek, as the reader takes them | `Told`, `Advanced` |
| restore: taken behind all events, put back | `RestoreTaken`, `RestoreEnd` |
| reader: walk, drain of a natural jump, jump, TT_SRPT, PGC found, `pgc_loaded`, `pgc_error` | `WalkDone`, `DrainEnds`, `JumpGo`, `Resolved`, `Found`, `LoadDone`, `LoadFails`, `LoadUnanswered` |
| a cell has played; the reader's verdict watchdog | `CellEnd`, `Watchdog` |
| keys, the restore request, a mount | `Press`, `RestoreAsked`, `Mount` |

What a command computes is left out, and so is every address: a block ends in any
way the microcode has of ending one, and a load finds a program chain with or
without a PRE, a POST and cells, or fails, or (a title streamed without its tables)
says nothing. VMGM and VTSM are one domain, because only `TT`, `FP` and "a menu" are
told apart by the control. Two history variables: `owed` (the PRE of the last load
has not been dealt with) and `late` (the press that is latched precedes a jump or a
load, or fell into a wait).

Three assumptions about time, each a guard with its reason beside it: the reader's
next step takes at least a sector's read, so an idle VM has taken its event by then
(`Taking`); a block takes at most 41 ms, so it ends before the next cell has played
(`CellEnd`) and before the verdict's watchdog (`Watchdog`); 0.62 s is longer than a
settled reader needs to take up a jump (`WTimeout`). A block of commands may still
overlap one step of the reader. Not in the model: Disc Menus off, the once-a-second
tick, SPRM write-backs, taking a snapshot (which is in `SaveState`).

### VmEval and NavVm

`VmEval` is the evaluator of `tools/dvd_vm_ref.py`: one command on the whole register
file (sixteen GPRMs, twenty-four SPRMs; saturating sums and products, bitwise operations,
the LFSR, counters, conditions) and a block up to its first link, with the fuse on executed
commands. A command is its decoded fields. A block is a function on the points it
can be at (`Standings`: registers, next command, commands spent), each mapped to the one
after it or to the outcome. `NavVm` is the machine around it: loads, PRE and POST, links,
jumps, calls, resume, the Menu key with its guess at the disc's menu, chapter
edges, and `run()`, the driver that plays cell after cell. The Python is a recursion
of functions that return whether they succeeded and whose callers then try
something else; `todo` is the next thing to do and `alts` what the callers would
try, so that every call is a step. Discs are records of program chains (`DiscTypes`: any
lengths, any numbers, whether or not what they name is there); the MC module builds five:
a film with broken links, a dispatcher menu and a dead end; a game whose Root goes round
and whose titles chain to and fro; a disc without First Play or a menu of its own; a
disc that is wrong in places (a menu followed by a PGC that is missing, a way to a First
Play that is missing, a Root that resumes at once); and one whose POST blocks link to
their own end, three times or for ever.

### Integration

The script is the sequence `Script` of its reads, edits and writes in the order of
the code, interpreted by one process. A line of a file is the set of the anchors
and markers that occur in it; where an edit's text goes on behind the line with its
marker, a line of its own (`... body`) stands for the rest, so that a cut can part the two. `Stock` is the pinned tree, and a newer stock may lack
one of the anchors in `Bumps`. `EditText`, `SkipEdit` and `Fail` are the three
outcomes of a step, `Kill` ends the process between two steps, `KillInWrite` within a
write (`open(p, "w")` truncates first) behind any line. A file missing altogether is not modelled.
`WellMade` states what the script's recovery rests on, as facts about `Script` and
`Stock` that TLC evaluates (Proofs).

### Transport

One step is one edge of `clk_sys`, with at most one event of the user and one of the
reader; `Clock` is the conjunction of the modules, each of which reads the registers
as they were before the edge.

| Code | Model |
|------|-------|
| `flush_ctl`: 64 cycles of `load_flush` behind each acknowledge | `fl`, `Flush` |
| `nav_dsi`: sector, tables, commit, as the bytes of a packet come | `at`, `lbn`, `tbl`, `commit`, `Walk` |
| `dsi_fresh` (the same latch in two modules) | `fresh`, `Fresh` |
| `ab_repeat`: mark, clear, compare, lockout | `AbMark`, `AbClear`, `AbDead`, `AbWatch` |
| `dpad_seek`: coalesce, wait, the ladder of table entries, the VOBU links, fire | `DpWindow` ... `DpFire` |
| `dpad_seek`: a cancel, a press, a disturbed resolve | `DpadSeek`, `DpRestart` |
| `scrub_ctrl`: want's edges and the hold, a jump taken, `jump_go` | `ScRise` ... `ScIssue` |
| the jump mux of `emu.sv` | `Jump` |
| the reader: seek latched, seek and VM jump executed, load, streaming | `Asked`, `RdSeek`, `RdJump`, `RdLoad`, `RdStream`, `Latched` |
| the reader's chapter walk: begun by a key, run beside everything else, ending in a seek or in none | `ChapGo`, `Walking`, `WalkEnds`, `Arms`, `ChapterSeek` |

A sector is a number, because the properties are about sums of sectors; a VOBU is its
position in the title, and `tbl` and `dp.src` say whose tables were read. One unit of the
D-pad's ladder is two VOBUs and its fine rung one, so that both rungs, the end of a
table and the VOBU links all occur on a short title; Left and Right stand for all four
directions, which differ in the number of units only. The tags `walk`, `by`, `pby` and `lby`
are histories of who asked. Registers that nothing reads again are put back to their reset
value, which merges states and changes none of the outputs.

Left out: linear sources and audio CDs, Stop, the time map (a release seeks to its
sector, as on a disc without one), Disc Menus, and titles whose cells do not follow
each other on the disc. The walk a chapter key starts takes one cycle or any number (six
at least in the code, over a thousand with a long PTT table), which includes that a jump
overtakes it; what it looks up is one place, the start of the title, and its way into
another program chain is a VM jump that the reader takes as any other. A seek executed in
the midst of a jump's parse takes the branch of a linear source (3493-3530): the model's
reader then streams no title's packets until the VM jumps again. Which of a scrub and a
re-align gets the latch is in `Realign`.

### CssSource

`css_src_read` and everything below it, one drive command to a step: the code before and
after the command goes with it, and between two commands a sector may go bad or come
back (`Wear`). The worker is the only caller, so there is no other process. A sector is
its number and the form in which it is handed on: `plain`, `clear` (decrypted with its own
key), `scrambled`, `noise` (decrypted with another key, or not to be decrypted at all),
`zero`. libdvdcss is modelled from how it is used: `SeekKey`, `Seek` and `Read` say what it
may answer, with a title cache that is exact in the block a key was asked at
(`dvd_css.cpp:1378-1388`).

| Code | Model |
|------|-------|
| `g_vobs`, `resolve_vob_keys`, `vob_index`, `next_vob_start` | `Vobs`, `KeyBlock`, `VobAt`, `Behind` |
| `css_pos`, `cur_key`, `key_ok`, `key`, `heal_tried` | fields `pos`, `cur`, `ok`, `key`, `tried` of `css` |
| `crack_title_keys` at a mount | `Primings`, `Open` |
| `css_read_chunk`: clamp, select, place, read, scan | `Within`, `Select`, `Place`, `Read`, `Scan`, in `VobChunk` and `OtherChunk` |
| `heal_key`, `try_key`, `sibling_key` | `Heal`, `TryKey`, `Siblings`; its outcomes `Proven`, `Verdict` |
| `g_mir`, `mir_add`, `mir_clamp`, `pair_overlap`, `pair_twin` | `mir`, `Note`, `Clamped`, `Overlaps`, `Twin` |
| the loop of `css_src_read`: a window's command, the walk, the tail | `Window`, `Single`, `GiveUp` |
| `pair_sector`: itself, its twin, itself after all | `Own`, `Skip`, `FromTwin`, `TwinDead`, `AfterAll`, `Dead` |

A scrambled sector decrypted with a wrong key is random bytes, so `try_key` counts no
start codes in it and refuses it; with the right key it may still count too few (`seen`).
The 64 sectors a heal looks at are the rest of the extent, which is what they are on a
short one. Extents are disjoint (identical ones are collapsed by `add_vob`; partly
overlapping ones do not occur on a conformant disc), and the parts of a title set share
one key, taken at part 1. `stray`, `again` and `back` are histories: a key was asked for where
none had been taken, or where a heal had given up, and the drive was sent back to a
sector that is remembered as bad.

## Runs, bounds and fairness

Twelve runs: ten that pass and two that TLC refutes. The passing ones have between
7 000 and 1.4 million distinct states, and every run ends in a few minutes.

**ReadAhead** (`css`). A ring of 3 slots over 4 sectors, bursts of
2 (1 after a seek), a window of 2, one sector kept behind, one of slack, one retry,
one bad sector, generations modulo 3, one reset of the core. The source is longer
than the ring, so it wraps; the burst is clipped by the ring and by the end; the
window straddles both; the generation wraps within a mount. Mounts and requests
are unbounded: the state space is finite without a bound on them. `css` checks all
safety, that a request is served or withdrawn, and that the whole implements
`SectorPort`.

**PhysDisc** (`slot`; refuted: `ejectreset`). The periods of the code in seconds (1,
5, backoff to 10), a two-second spin-up, up to two presses of Eject: one to set a
disc aside and one on top of what follows. Discs, images, unmounts and blocking calls are
unbounded. `Prompt = TRUE` and `Unmounts = FALSE` in the refutation: it needs neither a
late tick nor an unmount.

**Realign** (`realign`). A flush of 2 cycles and a watchdog of 3
keep the order of the real 64 and 13.5 million: a flush ends before the watchdog
does, and each lasts longer than the pipeline between acknowledge and flush. Four
events of seven kinds may fall in any cycles, also all in the same one; four are
enough for a raster edge, a relocation before it, one on top of the arm and one on
top of the flush.

**AudioRing** (`ring`). 9 bytes and 2 descriptors with one of each kept free, frames of
up to 3 bytes and up to 5 of them, one splice, reset, pause, step or switch of Audio:
both rings wrap and fill, and frames are dropped in the middle when the bytes run out and
at their end when the descriptors do. Nine bytes, not eight: with eight the byte
headroom always stops the demux before a frame can end without a descriptor, and the
mutant whose `almost_full` forgets the descriptors goes unnoticed. Audio is switched between frames only (`Mutes = FALSE`), for a reason
given below. The run checks safety, the refinement and that the demux is never stopped
for good.

**SaveState** (`save`; refuted: `history`). Two discs, one numbered
slot beside the autosave, three acts of the user of any kind (a press, a mount, an
eject, a reset, Disc Menus, a core switch, a power cut), and freely as many
remounts of the last image at the start of the core. One slot holds a file of an
earlier session: good, cut off, of another layout, or copied from the other disc.
Three acts are enough for a request, one that overtakes it and one that cuts both.
The discs are interchangeable; `save` uses that symmetry, which is sound because it
checks invariants only.

**NavShell** (`shell`). Every key, a restore and mounts; one press or restore (mounts are
unbounded) and chains of loads of any length up to the fuse, which is 1 here and 63 in
the code; the count that outruns it wraps at twice its range as the seven bits do. One
press is enough for the properties: each is about one press or one load among loads,
errors, time-outs and mounts, of which there are as many as the behaviour cares to
have. The run checks safety and liveness. The liveness properties were also found to
hold with chains of three loads, which takes too long to repeat every time; the proofs
cover safety for every bound.

**NavVm** (`nav`). Five discs; the jump fuse is 6 for 64, which the first three can
exhaust and each can also stay under, the command fuse 8 for 4096, all the registers with
their full sixteen bits. The number of events is not bounded.

**Integration** (`apply`). Three runs of the script, kills within the writes of up to two
files, and the stock tree or a tree that lacks one of eight anchors in eight files. Two runs make
a rerun; the third meets what a rerun has done to what a stopped run has left.
`WellMade` was also evaluated with every anchor of the stock tree in `Bumps`.

**Transport** (`jump`). A title of three VOBUs, of one, two and one
sectors: a loop has room before A and behind B, a seek lands on a VOBU's start or inside
it, and both ends of the title are near. A flush of 4 cycles and a resolve's wait of 8:
a flush outlives the three cycles from a jump's fire to the reader's latch, and a wait
outlives a flush, the load behind it and a packet, so a resolve can be disturbed by a
seek and still end in a jump. Up to two units a gesture, no waiting between two presses
or two steps of a scrub, and three events: two marks and a gesture on top of the loop
they start; bytes, seeks, loads and the length of a chapter walk are unbounded.

**CssSource** (`source`). 8 sectors: an IFO and its BUP of two sectors each around a menu
VOB of one and a title in two parts of one and two; windows of 4, so that one begins
before a VOB, spans domains or ends in the middle of one, and spans a copy of the pair and
a VOB. Every VOB has a scrambled sector; the menu and the title share a key or do not, which
makes the title set's other key right or wrong; every block's key may be had, zero or
missing at the mount, and again at each later ask. No sector, one of each copy, all of the
pair or the head of a part is unreadable at the mount; two changes follow under the mounted
disc, in a sector of each copy (`Wears`). The mirror's table has 3 entries for 256, which
the four sectors of the pair overfill. Calls and mounts are unbounded.

Fairness is what the code's scheduling gives and no more. `ReadAhead`: both threads
are scheduled and a source read returns (the driver times out); nothing is assumed
of the core or of the user. `PhysDisc`: the poll loop turns, time passes, a launch
settles, and the tick's scan is not shut out for ever by source reads (strong
fairness: the worker is idle between reads again and again, its retries are
preceded by a pause for this very reason). `Realign`: the clock runs and a scrub
gesture is let go of. `AudioRing`: cycles in which nothing comes in recur, and fairness never
starts a hold; nothing is assumed of the source, the decoder or the user. `Transport`:
cycles without an event of user or reader recur (a byte takes two cycles); nothing of
the packets, the reader or the user, so a resolve ends also when no packet ever comes.

`NavShell`: the microcode and its timer run, and the reader's
parse and drain end; that a cell ends, a watchdog fires or anybody presses anything
is not assumed, so `Answered` holds without the reader's own watchdog. `NavVm`: an
event under way is carried on; no further event is assumed. `EventReturns` has one
exception, the POST that runs itself for ever without a load.

`SaveState`, `Integration` and `CssSource` state no fairness and no liveness: a save's requests
are given up on by time-outs that are choices in the model, a script may be killed, and
that a window ends is `ReadAhead`'s assumption that a source read returns.

Deadlock is checked in the runs of `ReadAhead`, `PhysDisc`, `Realign`, `AudioRing`,
`Transport`, `CssSource` and `NavVm`, which may never stop. It is not in those of `SaveState` (the player sits idle,
or switched off, once the user has done all that the bound allows), `Integration` (the
last run of the script has ended) and `NavShell` (the VM at rest and a reader with
nothing to play wait for a user whose presses are used up).

## Proofs

Everything in the eight `*Proofs` modules is proved from the named assumptions on
the constants only (`SizesAssumption`, `SourceAssumption`, `PeriodsAssumption`,
`CyclesAssumption`, `ShellAssumption`, `SaveStateAssumption`, `RingAssumption`,
`HeadroomAssumption`, `TitleAssumption`, `TimeAssumption`, `DiscAssumption`,
`TruthAssumption`, `PairAssumption`, `BoundAssumption`, `EvalAssumption`,
`JumpAssumption`), which the real sizes satisfy, and
`ScriptAssumption`, which TLC evaluates for the script itself. Where a theorem
has a hypothesis of its own, it is said below.

**ReadAheadProofs.** The inductive invariant is `IInv == Control /\ Data`. `Control` holds the types and what relates the two threads: a
burst in flight is contiguous unless its position moved, it fits, `gen` and the
history count of retargets agree (`SeeksCounted`: within one read the core asks at
most once more than it is reset, hence fewer than `GenMod` retargets, so comparing
a wrapping counter for equality is enough), what the poll thread checked is still
in the ring, at most one read ended late. `Data` says that ring, window and the
worker's buffer hold the right sectors. `Control` is shown first because it does
not need `Data`. Slots are taken modulo `Cap`; `SlotsDistinct` (two sectors of a run
no longer than the ring never share a slot) is where the arithmetic sits, built
from `Euclid` and `SmallMultiple` because the SMT backend does not find it.
`ImplementsSectorPort` maps every step to a step or a stutter of `SectorPort!Next`.

**MainProofs** holds the proofs about the two parts that live in Main, `Integration` and
`PhysDisc`.

*The script.* `DoneIsApplied` (`DoneMeansApplied`) is about this script, and any number of
runs, kills and kills within a write. A marker is what an edit goes by, and a marker alone
does not tell that the edit's lines are there: a kill within a write may keep the line of
an edit that has the marker and lose the next. Mostly the script recovers from that all the
same, because such a file is cut short in front of the place of the edit that closes it, which
then fails, run after run. Where the cut falls into the closing edit itself, or behind it, the
next run skips it and reports done: these are the edits at a file's rear (`AtRear`), which
the theorem claims only of files that no kill has cut (`DoneMeansMade`, next section).
Three facts about the script make this an argument (`WellMade`):

- `BuffersAreKept`: a file is written before it is read again, by the variable that has seen
  every edit of it so far, and once more behind its last edit;
- `EditsKeepApart`: a line that an edit writes over carries nobody's marker and is nobody's
  line, and a marker in an edit's lines is its own or that of an edit before it;
- `FilesAreClosed`: every file has an edit that closes it (`Closing`), behind whose anchor,
  and behind whose marker, come only the lines of the rear.

A text is `Complete` in some edits if with the marker of one it has all its lines, and `Whole`
if it is open (it has neither anchor nor marker of the closing edit) or complete in all that
are not at the rear. `Applying` says that every text is whole, that one of an uncut file is
complete, and that an edit is passed (its marker or its lines are there) in each variable that
has seen it (`LoadedAt`) and, behind a write, on the disk (`StoredAt`). An edit puts a block of
lines in the place of one (`EditPlaced`, from `Spliced`), keeps the text whole (`WholeStays`),
complete (`CompleteStays`) and every edit passed (`PassedStays`); a part of a whole text is
whole (`PartIsWhole`). A run that reports done has passed the closing edit of every file, so
that the file is closed, and of a closed file passed means applied. The lemmas hold for any
sequences; that this script is `WellMade` is not proved but evaluated, by TLC on every run of
`apply`.

*The drive.* `SlotInv` strengthens `Ownership` with `Shut` (while a disc is
set aside, it has been seen, spun up and latched out, and no probe runs) and
`Cleared`. Neither `Ownership` nor `RefusedStaysOut` is inductive alone: a probe that
began before the disc was set aside would break both, and `Shut` says there is
none. `ImageIsSafe` is an action property from the same invariant.
`DiscMountsRunning` (a disc is never mounted into a core in reset)
is about the time until Eject is first pressed, because after it the property fails
(below); its extra invariant `Pulse` ties the reset to its release time and to the
age of the last scan.

**RealignProofs.** Types first, register group by register group; the trio rule;
soft resets only on crossings (with `AckSettled`); an edge without its flush is in
the hands of the arm; and a re-align's target is the current VOBU unless a
relocation is under way in the very cycle of the sample (`PlayheadOk`,
`KeptInMenu`).

**NavProofs** holds the proofs about the virtual machine: the golden model (`NavVm`) and
the machine at work (`NavShell`).

*What a disc's commands do.* Four theorems, for any discs, fuses and sequences of events: of
a disc nothing is assumed but that its tables are tables (`DiscTypes`), not that what they
name is there, that a block ends, or that a menu leads anywhere.

- `VmTyped`: the types, `VmTypes`. Its invariant is `Sound`, the types with `Steady`: what is true
  between two things done. A block is only run, and a link only followed, with a PGC in memory;
  outside a title the machine is where the PGC in memory is; in a menu one has been shown. The
  evaluator's part (`SetOpTypes`, `SystemSetTypes`, `EvalCommandTypes`) says that registers
  never leave sixteen bits, for which `BitwiseWords` and `Quotient` do the arithmetic. A block
  of commands is a recursive function, and that its course stays among the `Standings` is an
  induction on its length: the library's induction rules take an operator and cannot be
  used, its minimum principle for well-founded relations takes a set, and `Iteration` (there is
  such a function) and `CourseStays` (it is the one the definition chooses, and stays in the
  set) argue from a least counterexample.
- `MenusHold` (`BadLinkStaysInMenus`). `Confined`: from a button pressed in a menu to the
  end of its event, as long as no title was asked for, the callers that wait hold nothing
  but the last menu, there is one, and the machine is not in the title domain. An event that has
  nothing left to try has one of the property's excuses.
- `TitleGivenBack` (`ToggleGivesBack`). `Kept`: the bookmark is the position the Menu key
  left, until a call saves another; and from the moment that a resume of it is asked for,
  the machine holds exactly that resume with the registers already put back, or has
  arrived. That the resume finds its PGC is why the position is required to be
  one the machine was at, which `Whole` in `left` says.
- `RootKept` (`GuessCostsNothing`). `Guarded` says where the playing title's own Root is,
  from the press of the Menu key until something is shown: next to be loaded, or among
  the alternatives behind retries of the last menu only (`Held`), or being shown, or no longer
  needed. It needs that while the Root is held the machine is in the menus or failing
  (`Roams`) unless the guess's own commands asked for a title.

`VmTypes`, `Steady`, `Confined`, `Kept` and `Guarded` were checked with TLC on four of the five discs
of `nav` before they were proved. None of the three properties is inductive alone, because
each speaks of an event's end only.

*The wrapper.* Types first (`TypeCorrect`), handler by handler, because every
handler ends in one of a few ways (`Leave`, `Tell`, `Jump`, `RunBlock`) whose lemmas
are then reused. `PreFirst` (`pre_done` never overtakes a PRE): `PreDoneAfterPre` alone
is not inductive, since a step that fires `pre_done` must know that nothing is owed;
`OwedIsPending` says where an owed PRE is, in a load still latched or in the block
that runs. `ButtonsAreCurrent` (no press is run that a jump or a load has
overtaken): `LateIsDoomed` says why such a press never reaches its handler, either
the VM waits and both ways out drop it, or a load is latched that is dispatched
first and clears it; an error latched beside that load comes first but leads to a
wait, unless the fallback chain has given up, which the invariant excludes.

**SaveStateProofs.** Five theorems: the types, the three safety properties of the
`save` run and `FetchesAreWhole` (a reader of a buffer sees whole blobs), for any discs, slots and bounds. The invariant has four parts, each
inductive given the ones before it. `Types`; `Parts` (no file is empty, nothing torn
reaches the core's buffer, and a valid buffer holds something); `Streams`: snapshot
and restore exclude each other, except where a request has cut a stream, which is
what `torn` records. The three properties about buffer readers follow from `Streams`,
and none of them is inductive alone: that a restore is not overwritten needs that no
snapshot is owed while `rbusy` is up, which needs that a request is refused then.
`Flushing` carries `AutosaveKept`: while a flush asks, waits or fetches, the machine
still holds the disc it is for, and a snapshot that has moved since the ask is of
that disc. Without it, a flush could file whatever snapshot the buffer happens
to hold. TLC finds all four parts to hold on the instance of `save` too.

**TransportProofs.** Four theorems, each with an invariant of its own that speaks of no more
registers than it needs; of types they need only that records have their fields and that
sectors are integers. `TitleKept` is about the seeks to a sector, those of a scrub, the
D-pad and a loop: the seek a chapter walk arms passes no gate, and does cross
(`NoSeekCrosses`, below). Between a VM jump and its acknowledge what `scrub_ctrl` holds is
the old title's (`TitleInv`); the acknowledge finds no cell, which ends a hold and closes
both gates, and a pulse that leaves in that very cycle meets a reader in a flush that has
just begun. `LoopToMark`: `base - off` is the mark in the jump port and in `scrub_ctrl`'s
registers alike, and the mark cannot move while the loop runs (`LoopInv`); a hold rewrites
both registers, and the invariant says that it never works on a loop's numbers.
`JumpNotStale`: a seek leaves, in this order, an acknowledge, a flush with sector 0 and no
packet, and a latch that is down an edge later (`FlushInv`); `PacketInv` reads off the byte
that comes next which VOBU the sector and the tables are of; `ResolveInv` says that an
undisturbed resolve keeps its base and its tables. It is `FlushInv` that the latch's
clearing serves: with `Fresh_Kept` it fails. `NoLoopStorm`: a loop-back fires behind B, and
playback goes on behind B, where the lockout holds, until a flush takes it away (`OldPlace`,
`LeavingIt`); then the latch is down until the packet behind the seek, which is what ends
the loop-back (`Left`). `UnderWay` says this of each register the request passes through,
and that it has reached the reader's latch before a flush that began under way is over: the
reader never loads, and trusts a packet again, with the loop-back still on its way. That is
where a flush of more than three cycles is needed.

**AudioRingProofs.** Four theorems. Two are about the writer's side, which need not know
where a byte lies. `LossWhenUnattended`: the watchdog
and the reader's quiet cycles add up to at least its period (`Covered`), so while somebody
reads the demux is stopped at the headroom, `RoomLeft` counts the bytes on their way
into it, and `DescsLeft` the frames they may finish, which is every second byte and one
more if the frame in work can end at the next; a byte without room then has a splice
behind it (`SplicedAhead`), and a frame without a descriptor cannot be (`NoDescriptor`). It
needs `HeadroomAssumption`: what is on its way fits into the headroom of both rings. The
code's three reframers hold six bytes and have three more in their output registers,
against 6144 bytes and 8 descriptors of headroom. `SpliceStaysUnheard`: a
descriptor names a frame of the past, a splice names the present frame and those that
follow (`CleanDescs`, `Counted`); `CutOff` is the case nobody would guess, a splice in the
very cycle of the first frame's first byte, which is not dropped there but at its second.
`FramesAreRead` (`ReadsItsFrame`) and `ImplementsAudioQueue` (`AsQueue`) do need it. Their
invariant `Framing` says of the ring, from its read end on: what is left of the frame being
read, the prefetched frame, each queued frame behind the one before it, the frame in
work. Where the i-th queued frame starts is the sum of the lengths ahead of it, which could
only be computed by recursion; `Laid` says instead that there is a function of starting
places that begins behind what is being read, ends where the committed bytes end,
and grows by each frame's length. Every step shows such a function again (shifted for a
read byte, one shorter for a pop, one longer for a commit). Both theorems have the
hypothesis `Mutes = FALSE`: a mute forgets the descriptor in hand and not its bytes, and
with `Mutes = TRUE` TLC refutes `ReadsItsFrame` (next section).

**CssSourceProofs.** Six theorems, for any disc and any answers of libdvdcss. Three come
from one invariant about the tables behind a window. `NeverNoise` is not inductive alone, because what is
decrypted next depends on where libdvdcss was left: `Selected` says that while `key_ok` is
up it stands on the key cached at `cur_key`, also after a heal that tried others; `Sound`,
that the key cached at the block a domain is keyed at is the domain's own, zero or
missing, and that domains keyed at one block have one key, which a repointed domain keeps
only because `try_key` proves a key before it is believed; missing it can be at the mount's
key blocks only, which is `NoStrayCrack`. `Placed` says that `css_pos` is true, since a wrong
one would label sectors wrongly. `Fits` relates the window to the domains tried so far,
which only grow while it is put together: that is `ScrambledSeen`. One lemma per stage of
a chunk (`SelectSound`, `PlaceMoves`, `ReadVob`, `HealSound`, `AgainSound`, `ScanSound`) and one per
kind of step (`Command`, `Quiet`) carry it.

The other three are the mirror's: `WindowsServed` (`WindowServed`), `MirrorsServe`
(`MirrorServes`) and `NeverSentBack` (`NeverBack`). Their invariant is `Mirrored`. `Memory`:
while the disc does not change under the player, a sector remembered as `twin` is bad and
its other copy is not, one remembered as `dead` is bad in both copies. `Turned`: the
process is on its way to the other copy only at a sector that has one and is not given up.
`Running` and `Stopped` say how far a call has come and how it ended: each sector
fetched, or none because the first cannot be read, or the rest zero from one on that cannot
be. They rest on `PairAssumption`: the pairs of files
that the mirror trusts lie on the disc, and no sector belongs to two of their files. The
code rejects only a pair of unequal length, an empty one, and one of two files at the same
LBA (`Trusted`); of two sets that share a sector `pair_twin` takes the first, and for such a
directory nothing is claimed.
That a sector remembered as bad is not asked for again (`NeverBack`) needs that the
commands for the sectors around it stop short of it, and hence that a command never has
length zero (`Counts \subseteq Nat \ {0}`).

The theorems without a run of their own property (the types of seven modules,
`GenerationsSuffice`, `ReadAHits`, `WindowIsRight` and `OneLateRead` of the ring,
`DiscMountsRunning`, `FetchesAreWhole`, `CrossingsSoftReset`, `OwedEdgesAreArmed`,
`Inductive`) hold for every value of the constants, which a run on one instance adds
nothing to.

Only model-checked:

- everything under fairness (`RequestServed`, `Played`, `NoLostFlush`, `NeverWedged`,
  `Settles`, `Answered`, `ResolveEnds`, `EventReturns`), which the prover does not reach;
- the types of `CssSource`, checked on the instance of `source` but in no run;
- of `Integration`, `Placement` and `SameTree`: they are about what this one script of some
  150 steps computes, and the prover would have to execute it.

## Where the code and its words part

Two are runs that TLC refutes; `PROJECT.json` quotes both sides.

- `ejectreset`: Eject holds the core in reset for a second; a scan in that second
  mounts a new disc into a core that drops the mount.
- `history`: the OSD's Reset row clears the press counters in the core but not the
  baseline Main compares them with, because no poll falls into the pulse; the next
  tick takes the difference for a press and saves to slot 1 (or loads it).

The others have no run of their own; the property that states the claim is in the
module, and TLC refutes it in the setting named.

| Property (module, setting) | What the code does |
|---|---|
| `OnlyExhaustedZeroed` (`ReadAhead`, `css`) | "only a sector that keeps failing is zero-filled" holds for a drive that fails whole commands. `css_src_read` reports a late failure as success with a zeroed tail, so the worker never retries it. |
| `TargetIsCurrent` (`Realign`, `realign`) | The freshness of the playhead is cleared two cycles after a seek begins to execute; a raster change in those cycles sends playback back to the old place, or to the start of the title. |
| `ReadsItsFrame` (`AudioRing`, `Mutes = TRUE`) | Audio Off parks the dispatcher in the middle of a frame and forgets how much of it is left (`dvd_audio_decode.sv:641`, 709-713); after Audio On every frame is read shifted. |
| `SlotIsItsDisc` (`SaveState`, `save`) | A save still in flight is meant to die with its disc, but within ten seconds of the disc's mount the flush returns before it drops the request. The old disc's state is then filed as the new disc's. |
| `Idempotent` (`Integration`, `apply`) | The script's header says that a second run changes nothing (line 4). Step 30 inserts a call with two arguments and looks for one with a single argument (489-491), so each run inserts it once more. |
| `DoneMeansMade` (`Integration`, `apply`) | "already applied, skipping" goes by a marker in the first line of an edit (33-35), and files are truncated and written in place (20-22). A kill within the write of `video.h`, `video.cpp`, `menu.cpp`, `hdmi_cec.cpp`, `input.cpp` or `user_io.cpp` can leave the marker of the last block (253-256, 616-631, 555-564, 674-682, 915-931, 750-763) without the lines behind it: every later run skips the block, and says done. `DoneMeansApplied` leaves these blocks out, of cut files. |
| `Ownership` read without `vacated` (`PhysDisc`, `slot`) | "An unmount. If it is ours, dvd_phys_tick() is the one doing it and has already cleared `mounted`" (`dvd_phys.cpp:366-368`). The user may also unmount the drive's slot from the OSD, and `mounted` stays up: the slot is empty, and no scan mounts the disc again before it has left the drive. |
| `ToggleOnlyAfterMenuKey` (`NavVm`, `nav`) | A resume loads its title without clearing `came_via_menukey` (`dvd_vm_ref.py:890`), which stands for a menu that was reached by pressing Menu in a title (636-638; `docs/dvd_vm.md:531-536`). After Menu twice, a menu the title's own commands call is still taken for one of the key's: Menu leaves it for the title and does not open the Root. |
| `EveryEventReturns` (`NavVm`, `nav`) | "jump-chain fuse (RTL: total 4096 ops)" (`dvd_vm_ref.py:666`). The fuse counts loads. `LinkTailPGC`, and `LinkNextC` or `LinkNextPG` past the end, run the POST block without one (783-785, 790-795, 809-811), so a POST that links to its own end recurses until Python's limit; the 4096 of `FUSE` is each block's own. `EventReturns` has this as its exception. |
| `Measured` (`Transport`, `jump`) | "Any seek math against the playhead must gate on `dsi_fresh`" (`nav_dsi.sv`'s header). `scrub_ctrl` takes the playhead as it is: a Fast Fwd or Rewind that is pressed within a seek's flush, or before its first packet, measures from sector 0. |
| `NotAskedAgain` (`CssSource`, `source`) | A key block that gave no key is not asked again, because each ask re-runs the crack on the thread that feeds the core (`docs/physical_disc.md:486`). It is, once an IFO or another domain has been read in between: selecting those forgets the verdict. |
| `LoopCloses` (`Transport`, `jump`) | "While armed, the playhead reaching B jumps back to A" (`ab_repeat.sv:4-5`). The jump is a pulse without an acknowledge: while a button is held, or when a D-pad jump takes the port a cycle later, it is lost, and the lockout keeps the loop open until playback is before B again. |
| `NoSeekCrosses` (`Transport`, `jump`) | "`jump_go` clears `seek_pending`; a seek cannot be latched during a jump parse (`cell_mode`=0)" (`dvd_iso_reader.sv:1805-1806`). A chapter walk can latch one: a VM jump does not end it (3321-3457 leave `chap_st` alone), and its last state arms the seek without a test of `cell_mode` (3192-3201). With a chapter key a few cycles before a jump the old title's chapter is then sought in the midst of the parse, as in a linear source (3493-3530), and the jump's load is given up; or, if the walk ends as the parse does, it is sought in the next title. `SeekKeepsTitle` leaves these seeks out. |
| `OneVobu` (`Transport`, `jump`) | "`dsi_tbl` + scalars belong to the SAME VOBU" (`dpad_seek.sv:162`) holds at a commit only. The sector of the next packet comes before its tables, and a resolve that begins between the two measures from the new VOBU with the tables of the one before it: `NoStaleJump` is stated with this. |
| `LastMenuIsMenu` (`NavShell`, `shell`) | The last menu, to which a failed link goes back, is latched by the domain the VM has asked for (`dvd_vm.sv:797`). Menu pressed while a first-play or title PGC is still being read, after the VM has given up waiting for it, makes that load the last menu, and the load is taken for the jump's verdict. |

Read in the code while modelling the VM, each a path of `NavShell`: a time-out clears
`SKIP_PRE`, so a resume that takes longer than 0.62 s runs the PRE
(`docs/dvd_vm.md:414` says it does not), whereas an error leaves it set;
`W_TIMEOUT` leaves a chapter edge, a cell command and a PGC end latched; the
`vm_adv` a button's block ends with can release a reader that waits for a cell
command (`docs/dvd_vm.md:621-623`); a restore that waits for rest, and `pre_armed`,
survive a mount, and a mount within the restore loses its end (`dvd_vm.sv:931`).

Where the golden model differs from the microcode, or from its own comments:
`run()` adds one to the cell after a cell command's link within the PGC (1050-1063);
following the guess at the disc's menu can use up the fuse it shares with the title's
own Root (914-916); the menu a failed link goes back to may itself be a dead end; a
title link that fails leaves the title domain with the menu's PGC loaded;
the cells of
`LinkCN` and of a `CallSS` resume are not bounded, `LinkPGCN` 0 loads the first PGC, and
program 0 is taken for the last. The counters tick nowhere: the header says that counter-mode
GPRMs tick "via `Regs.tick()`" (22-23), but that method stands behind the `return` of
`player_regs` and inside it (108), so that `Regs` has no `tick` at all.

The properties of `NavVm` are stated with these as exceptions where they matter. The proofs
found three more, each a disc on which TLC then refuted the older statement. A
failed link goes back to a menu whose cells are none and whose next PGC the disc lacks, or
leads by way of it to a First Play that is not there: the button fails
(`BadLinkStaysInMenus`). A menu's PRE resumes with a button's number: the title comes back
with another button selected than it was left with (`ToggleGivesBack`). The guess's Root resumes at
once: the key seems to do nothing, and the title's own Root is not tried
(`GuessCostsNothing`).

Read in the code while modelling the transport: a disturbed resolve clears its sum but not
the count of units left (`dpad_seek.sv:319-325`; `S_WIN` alone loads it), so a gesture that
is disturbed after its first table entry jumps shorter than it was asked to; buttons that
a title shows during a hold end it (`in_title_menu`, `emu.sv:2630`) as a release does, and
the hold seeks (`scrub_ctrl.sv:378`); the freshness latch is still up in the first cycle of
a flush (`ab_repeat.sv:67-74`), in which a mark would be taken of sector 0.

Other observations are listed as hazards in `PROJECT.json`: a Save and a Load of
different slots pressed while a request is in flight are both served with the
later slot; a disc exchanged between two scans of the drive gives no insertion
edge; readiness stands for insertion, so a disc still spinning up takes the slot
from an image; a request that ends in the middle of a snapshot's stream cuts it
short; a mount within the restore's few microseconds leaves the buffer busy until
a reset of the core. A bad IFO sector costs the drive two failures, the window's command and
the walk's first, not the one of `dvd_css.cpp:593-594`; none after that (`NeverBack`).

## What is not modelled

The ISO, IFO and PGC parser, the demultiplexer, the decoders and the picture path
are sequential transformations of data with one actor; the benches compare them
bit for bit with references, and a state model would repeat them. The same holds of
most of `tools/`: bit-exact models of decoders (AC-3, DTS, MP2, IMDCT), of rasters and
of packet parsers, which are arithmetic over data, and harnesses that do I/O. These
Python files are the larger part of the repository's scripts by lines, so the
definitions of this project map only a small share of them: `dvd_vm_ref.py`,
`nav_shell.py` and `apply_integration.py`, the ones with control of their own. What is
modelled besides is C++, SystemVerilog and microcode.

Left out of the VM: the sequencer's instruction set, the once-a-second tick, the wrapper's
SPRM write-backs, Disc Menus off, the tables that map sound and subpicture streams
(`dvd_vm_ref.py` 547-622), the copy of the player's registers.

Of the transport controls, Stop with its screensaver, the time map, linear sources and the
on-screen displays are left out. Of the disc sources, opening one (finding the drive and
libdvdcss, the walk of the ISO directory, the CSS detection), the CD formats and the fault
injection of the rig. The presentation counters are in the plan above and not written. The MPEG-2 core and
the MiSTer framework are upstream code. Reports, telemetry and EDID handling are
I/O.
