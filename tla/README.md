# PiLoader in TLA+

A verification development of PiLoader: the second stage boot loader that runs
on a Raspberry Pi (`src/raspi`), the PC program `piboot` that uploads programs
to it over a serial line (`src/client`), and the protocol between them
(`src/common`).

## Inventory

| Part | Source | State | Operations |
|---|---|---|---|
| wire protocol | `common/bootproto.h` | – | a 20 byte header (type, address, size, crc32, flags), the payload of a LOAD after it, an 8 byte response |
| loader command loop | `raspi/bootrpi.c`, `minilibc.c` | the header being read, memory, `saved_r0..r2` | `kmain`, `handle_load/zero/exec/reboot/unknown`, `validate_target_addr`, `kread`, `memset32` |
| drivers | `raspi/uart.c`, `wdog.c`, `timer.c`, `okled.c` | receive and transmit FIFO, watchdog | init, getc, putc, drain, waitidle; start, stop; delay; LED |
| start-up | `raspi/start.S`, `link.ld` | memory | move the image to its running address, set the stack, enter `kmain`; a program may come back to `_start` |
| started program | `samplekernel/` as an example | everything | anything; may return to the loader if its magic word is there |
| protocol client | `client/bootproto.c`, `serial.c`, `bootpc.c` | the tty, the place in the session | `setup_serial` (flush), `ping`, `load_buffer`, `zero_section`, `exec_program`, `reboot_pi`, `check_response` |
| file loading | `client/elf.c`, `binary_loader.c` | `e_load`, `e_entry`, parts of a binary | ELF segments or runs of a binary to LOAD and ZERO packets |
| command line | `client/options.c` | option variables | `parse_cmdline`, `parse_addr` |
| output | `client/verbose_print.c`, `monitor.c` | a 256 byte line buffer | print, print on failure; copy the serial line to the terminal |
| checksum | `common/crc32.c` | table | `crc32` |

The two programs share nothing but the line. `piboot` writes a header (and a
payload) and blocks in `fread` for one response; the loader blocks in `kread`
for a header, handles it, and answers. There is no timeout on either side, no
sequence number on anything, no checksum on headers. What makes it hard:

* a lost byte leaves the loader waiting inside a header or a payload, and the
  next thing that is sent completes it;
* sessions are killed by their user and started again, with the loader in any
  state and answers of the last session on the way;
* the board is reset in the middle of a session, by the watchdog or by hand;
* the loader hands the machine to a program and may get it back, with its
  memory whole or not;
* it must not write over itself while it loads to addresses the PC chooses.

What makes each part correct: the loader keeps its own memory; its answers are
the answers to what was sent; a program is started with exactly the memory its
files ask for; the watchdog brings back a board whose program hangs, and leaves
alone one that asked for none; the firmware's registers reach the program; after
a fault, trying again works.

## Modules

| Module | Models | Proofs / runs |
|---|---|---|
| `BootProto` | units on the line, headers and how they decode, `validate_target_addr` and the addresses of a transfer | – |
| `Loader` | the board: start-up, command loop, handlers, UART FIFOs, watchdog, started program, the link with its faults; the loader's properties | `LoaderProofs` |
| `AnyHost` | the loader with an arbitrary PC: any packet at any time | `AnyHostProofs`; `MCAnyHost`, `AnyHost_*.cfg` |
| `PiSystem` | the loader with `piboot` sessions, repeated, killed, retried | `PiSessionProofs`; `MCPiSystem`, `PiSystem_recovery.cfg` |
| `Upload` | abstract: what `piboot` and the loader promise together | – |
| `PiUpload` | the refinement mapping from `PiSystem` to `Upload` | `PiUploadProofs`; `MCPiUpload`, `PiSystem_sessions.cfg` |
| `SplitBinary` | `split_binary` and the upload loop of `load_binary` | `SplitBinaryProofs`; `MCSplitBinary`, `SplitBinary_leading.cfg` |
| `VerbosePrint` | the line buffer of `verbose_print.c`, and what each packet prints | `PiBootProofs` |
| `PiBoot` | a whole run of `piboot`: options, files (ELF, and binaries by `SplitBinary`), packets, output by `VerbosePrint` | `PiBootProofs`; `MCPiBoot`, `PiBoot_*.cfg` |
| `Relocate` | `start.S` with the symbols of `link.ld` | `DriversProofs` |
| `Timer` | the free running counter and `timer_delay` | `DriversProofs` |
| `Registers` | pin functions and levels, watchdog control: `okled.c`, `uart_init`, `wdog.c` | `DriversProofs` |
| `Drivers` | `Relocate`, `Timer` and `Registers` composed in the order of `start.S` and `kmain` | `DriversProofs`; `MCDrivers`, `Drivers_hardware.cfg` |
| `Crc` | `crc32.c` against its polynomial | `CrcProofs`; `MCCrc`, `Crc_table.cfg` |

There are three views of the system, each leaving out what the others have:

* **Protocol** (`BootProto`, `Loader`, and `AnyHost` or `PiSystem` on top).
  `Loader` leaves the PC end open: `LoaderStep` takes units from `line` and puts
  responses into `inbox`. `AnyHost` and `PiSystem` extend it and close that end,
  so both talk about the same board, and lemmas on `LoaderStep` serve both. Here a
  session sends a given list of packets, start-up is one step, the checksum is
  ideal and `timer_delay` takes as long as it says.
* **`piboot`** (`SplitBinary`, `VerbosePrint`, `PiBoot`): where those lists of
  packets come from. Here the board is memory that obeys a packet or refuses it.
* **Below the protocol** (`Relocate`, `Timer`, `Registers`, `Drivers`, `Crc`): what
  the first view takes for granted. `Relocated` is why `Startup` may put all of the
  loader in place, `DelayIsExact` why the delay is one, `DamageIsFound` what there is
  to "ideal".

### How state and actions correspond to the code

**Protocol.** Bytes are grouped into *units*: a header is `HdrLen` units, of which the first
carries `p_type`; one unit of payload fills one address. A unit is
`[pkt, k]`, unit `k` of packet `pkt`; `k = 0` is one that noise has changed.
`Decode` says what `HdrLen` units in a row are as a `struct bp_hdr`: the packet
they came from if they are its header; an unknown type if the first is no first
unit; and if a later unit is not the right one, the right type with arbitrary
address and flags, a size out of `GarbledSizes`, and a checksum that is right or
wrong.

`mode` is the loader's program counter:

| `mode` | Code |
|---|---|
| `boot` | firmware and `_startup` (`Startup` ends it) |
| `enter` | `_start`, `kmain` up to the loop (`KMain`) |
| `hdr` | `kread(&hdr)`: `KReadHdr` per unit; when `buf` is full, the handler of the type, as one step (`HandlePing`, `HandleZero`, `HandleExec`, `HandleReboot`, `Refuse`) or as the first part of one |
| `payload` | `handle_load` after its check: `KReadPayload` writes each unit straight to memory, `CheckCrc` is the rest |
| `delay` | `timer_delay` in `handle_unknown`; `DrainAndReport` ends it |
| `exec` | `uart_waitidle` in `handle_exec`; `StartKernel` ends it |
| `kernel` | the program: `KernelReturn`, `KernelTrash`, `KernelDisarm`, `KernelPrint`, or nothing |
| `hung` | an endless loop or garbage is executed |

`mem` is RAM with the values `zero`, `beef` (the 0xDEADBEEF of `memset32`),
payload data, `ldr` (the loader's own bytes) and `junk`. Once a word of `Region`
(stack page to `run_end`) is no longer `ldr`, the loader executes undefined
behaviour: `Derail` may hang it at any point, or it goes on for the time being.
`saved` and `regs` are the register triples of `kmain` and `start_kernel`.

`cli` is `piboot`'s program counter, `job` the packets the files and options of
this run ask for, `cur` the one it is at. `write` of a LOAD is two steps (header,
payload); a kill may cut the payload anywhere.

**The abstract specification.** `Upload` has no line, no FIFO and no response. A
session makes contact, sends packet `cur` of its `job`, the packet takes effect in
`image` (what memory is *known* to hold for this session), and only then is it
confirmed; a program starts when the EXEC at the end has taken effect, or as a
left-over while no session has the board. Losses take the board or the answer
away from the session. `PiUpload` maps to it: `phase` from `cli` and from whether
an ACK is on its way, `image` from `mem` restricted to what the settled packets
wrote and the one in doubt does not, `running` from `mode`. The ACK, not the place
of `piboot`, tells whether a packet has taken effect: a LOAD without data is
acknowledged before `piboot` has written its (empty) payload. Upload's `lost` is no
function of the state of `PiSystem` and is kept by a history variable of the same
name, which records when the board left its loop, took something else for the
header that was sent, or an ACK was dropped; it constrains nothing.

**Files.** In `SplitBinary` one step is one turn of the loop of `split_binary`, by
what the turn does: the part grows (`Extend`), a part of zeros begins
(`BeginZeros`), is merged back (`MergeZeros`) or kept (`KeepZeros`); `Terminate` adds
the last part. `parts` is the array as far as it has been written and `part_size`
the room in it. `from` of a part is history, for the invariants only.
`UploadPart` is a turn of the loop of `load_binary`.

**piboot.** `at` is where `main` is: `parse`, `serial`, `ping`, `files` (between
two files, or at the action), `elf`, `binary`, `monitor`, `exit`; `end` says why it
ended. `opts` and `files` are what is left of the command line. `Refused` is
`check_response` with anything but an ACK, an end of file included (`HangUp` pulls
the cable out). `Ping` does what `ping` does with an end of file: the response is
uninitialised, so it goes on or fails. `e_hdr` is the global of `elf.c`: `HeaderRead` is the
`fread` of `check_elf`, which leaves it as it is when the file is empty, so that
`OpenFile` goes by the header of the file before; `SegmentsRead`, that of `load_elf`, then
gives a table that nothing was read into, of any program headers out of `Garbage`.
`vm_print_s` and `vm_print_e` map a screen
(`out_buffer`, `out_ptr`, what has been printed) to the next; `Tells` is the text of
a packet and that of its outcome.

**Below the protocol.** `Relocate` counts addresses in bytes, as `start.S` does: a
step of `MoveLoop` is one turn of `_move_loop`. The loader's words are numbered, so
that one in a wrong place shows. `Timer` ticks its counter modulo `CounterRange`
and keeps, for the property only, the time since `prev_cnt` and since the last
reading. In `Registers` a register is the set of its bits that are 1 and a pin's
function a field of three of them, so that `(reg & ~(7<<off)) | value<<off` is what
it says. `at` of `Drivers` is where `kmain` is; a program that returns leaves
everything it can write to in one of the ways of `Left`.

**Checksum.** `Crc` holds the table of the source as it stands there; `Update` is one
turn of the loop of `crc32` and `Loop` all of them. A 32 bit word is the set of its
bits, so that xor is symmetric difference, and a bit is `{}` or `{0}`. `Divide` is the
long division by the polynomial, bit by bit, that the comment in `crc32.c` describes.
`BitsInOrder` is a payload as it passes over the line, lowest bit of each byte first;
`Garbled` changes any bits of it as long as they lie within 32 in a row, which may be
spread over five bytes.

### Abstractions and assumptions

* In the protocol, the checksum is ideal: the `crc` of a header is the payload it was
  computed from. What a 32 bit checksum misses is not in the model; `Crc` shows
  what it finds.
* `Window` is the number of units that can arrive in the 0.1 s of
  `handle_unknown` (about 1150 bytes at 115200 baud).
* A loader that polls keeps up with the line: the FIFO overflows only while the
  loader delays, waits for the transmitter, or a program runs (`Arrive`).
* Both watchdog timeouts are long against the time a response needs to leave the
  UART (`WdogFire` waits for `tx` to empty, unless a program prints).
* RAM outside the loader is not relied upon after a reset (`Startup`).
* Booting takes seconds: a session that has had an answer and goes on through
  a reset has come to wait for the next one before the loader is back
  (`BootIsSlow`). A session that has had none may straddle the boot.
* A person who starts `piboot` again is slower than the line: what the last run
  wrote has arrived and been dealt with as far as it can be (`Quiet`). Without
  this, two sessions killed and restarted within milliseconds leave an RDY and
  an ACK in flight behind the flush, and the third takes the ACK for its own: the
  protocol has nothing to prevent that.
* `Noise` says which parts of a packet noise may change. A header has no
  checksum, so in `PiSystem_sessions` noise is in payloads only: a garbled ZERO
  or EXEC is obeyed and acknowledged. Lost units hit headers and payloads alike
  everywhere, and `AnyHost_board` and `PiSystem_recovery` have noise in both.
* End of file on the tty is in `PiBoot`, not in `PiSystem`.
* `PiBoot` has binaries of whole words only; `valid` sums up what `validate_elf` looks
  at. An ELF file is read completely; of a binary that is shorter than a header but not
  empty, the first byte is not that of `ELFMAG` (otherwise the rest of an old header
  could complete it). What an unread table of segments holds is any choice out of
  `Garbage`, and the data that are sent for such a segment are part of the choice.
  No binary reaches past the end of the address space, where `e_load` would wrap (a
  segment may: `Span`). Reading a file does not fail half way, and `malloc` finds memory.
* `Relocate` assumes what holds for this loader's code: all sections are made of
  words and follow each other without padding, and the image ends below the
  running address (`SectionsAssumption`).
* `timer_delay` is never kept from its loop for more than `MaxGap`: the loader
  runs without interrupts. `TimerAssumption` says that a delay leaves the counter
  room for this.

## Runs

| Run | Shows |
|---|---|
| `AnyHost_board` | `LoaderKeepsItself` for transfers below, into and above the loader and one that wraps, none of which has the loader between its ends; `WatchdogIsForPrograms`: it is on while a program runs that was started with it, and off for the command loop but after a REBOOT; `WatchdogBringsBack`: under fairness, a program started with the watchdog gives the board back unless it disables it (one that returns to a loader it has ruined does so with the watchdog stopped: commands are read again, but what is left of the loader may hang later) |
| `PiSystem_sessions` | `ExecSeesImage`: what is started is what was uploaded, last writer first; `AckIsOwn`: an accepted ACK answers the session's own packet and both ends are in step; `ExecIsAnswered`: a program never starts before the answer has left; `ImplementsUpload`: all of it is a run of `Upload` |
| `PiSystem_recovery` | `AckInStep`: with noise in headers, too, what `piboot` takes for a success leaves both ends in step; `Recovery`: a user who retries gets through after any one fault; sessions are unbounded |
| `PiBoot_runs` | `PartsFit`, `PartsAreFile`, `BigZerosAreCommands`: splitting; `EntryIsAsked`: nothing is started unless the options ask for it, and only where the last ELF file or `-x` says; `StartedIsAsked`: it then has in memory what the files say, if the command line is a `SoundLine`; `NothingWithoutContact`: the unchecked `fread` of `ping` does no harm; `BufferHolds`, `QuietUnlessFailed`, `VerboseSaysOnce`: what is printed; `StepsComeToAnEnd`, `RunEnds`: no file makes a loop endless |
| `Drivers_hardware` | `Relocated`, `StartsRunning`: the move loop; `DelayIsExact`, `DelayEnds`: delays across the wrap of the counter; `PinsAreOurs`, `OtherPinsKept`, `LedShowsWaiting`, `ResetIsFull`: registers after programs that left them anyhow |
| `Crc_table` | `CrcIsRemainder`: each table entry and the loop, against the polynomial; `DamageIsFound`: noise within 32 bits changes the checksum |

The other six runs show where the code departs from what its comments and README
say; each must be violated (see *Findings*).

**Bounds.** Boards for TLC have 6 or 8 addresses, a loader of two (a stack word and a text
word), 2 units per header, FIFOs of 2 (or 1), and payloads of up to 7 units. That
is enough for: a header split or completed by another packet, payload read as
headers and the reverse, a full FIFO, addresses that wrap, and transfers below,
into, over, next to and above the loader. `MaxFaults = 1` allows one loss, noise
or power cycle anywhere; it is a bound on their number, not on where they hit.
`MaxSends` and `MaxSessions` bound the packets of `AnyHost` (2) and the sessions
of `PiSystem` (3; three are what a stale RDY and ACK would need to be mistaken).

`PiBoot_runs` has a board of 16 words, two zeros in a row for a big chunk, and an
array of parts that begins with one element, so that it grows several times in a
small file. Every binary of up to 8 words that begins with data is uploaded on its
own; the other command lines mix ELF files (bss, overlapping segments, segments
without data, one across the end of memory) and binaries in runs of up to ten
packets, which is more text than `out_buffer` (here of its real size) has room for.
All these are sound (`SoundLine`). Nine further lists of files, with five of options each,
are mostly not: an empty file, or two of them, behind an ELF file and
before another, zeros at the start of a binary or inside one with `-b`, and a segment whose
ZERO wraps; a segment that was never read is one of no type that is loaded, one with data
only, or one whose ZERO wraps.
`SplitBinary_leading` has all files of a big chunk of zeros (two words) and up to five
words behind it.

`Drivers_hardware` has a counter of 16, delays up to the longest it can measure,
four builds with sections of zero to three words, an odd and an even number of them,
and programs that leave set and cleared the loader's fields and their neighbours.
`Crc_table` has all first bytes, which use every entry, any noise in them, and up to
four more bytes behind them, so that 32 bits of damage can lie across five bytes. Nothing in these grows with size but the number of repetitions.

Deadlock is checked in `Drivers_hardware`. Elsewhere it is not: a run of `piboot`
and a payload end; both ends of the protocol may wait for each other for ever, by
its design, and in the bounded runs the PC ends its sends.

**Fairness.** The processor runs on, the line and the transmitter deliver, and
the watchdog's counter counts (`LoaderFairness`); `piboot` runs on. The user, the
started program, losses and power cycles owe nothing, except in
`PiSystem_recovery`, whose question is about a user with `Patience`: who ends a run that
is stuck and starts again after one that failed. It allows `Kill` only when the
run is stuck, as an impatient user may prevent success for ever. In `PiBoot`, `piboot`
runs on and the board answers, one way or the other; the cable owes nothing. In
`Drivers`, start-up, the counter and the polling loop run on; commands owe nothing.

## Findings

With a run that shows them:

1. `bootrpi.c:131` tests `saved_r1 != 0` to see whether it is entered for the first
   time; it starts as 0 and is never set, so programs get zeros for the firmware's
   r0–r2, which `README.md:74` says are preserved (`AnyHost_registers`).
2. `validate_target_addr` accepts a range that reaches over the whole loader
   (`AnyHost_overwrite`).
3. `BPF_NOWD`, "Disable watchdog while executing", only leaves the watchdog as it
   is: within 0.1 s after a REBOOT it is armed (`AnyHost_nowd`).
4. `handle_unknown`'s 0.1 s are not enough when the payload of a refused LOAD is
   what is out of step (`AnyHost_unknown`). `Recovery` shows that for short
   payloads trying again helps.
5. A binary that begins with a big chunk of zeros (512 bytes or more), or is nothing but
   zeros however short, is not uploaded at all: its first part stays empty, which ends
   the loop of `load_binary`. `README.md:118-120` promises that big chunks of zeros are
   uploaded by a command of their own (`SplitBinary_leading`). No failure is
   reported; `main` goes on with the next file and the EXEC (`bootpc.c:44-63`, not part of
   that run).
6. `-b` also fills the big chunks of zeros of a plain binary, and zeros at its end, with
   0xDEADBEEF, for `zero_section` (`bootproto.c:119`) does not know what it is called for;
   `README.md:84-85` says "Works only when loading ELF files" (`PiBoot_beef`).

Seen while modelling, without a run of their own:

* `elf.c:64`: an empty file directly behind an ELF file is taken for that ELF file: `e_hdr`
  is a global, and `check_elf` ignores that `fread` read nothing. `load_elf` then uploads
  segments described by memory that `malloc` gave and nothing was read into (`elf.c:77-83`),
  over what was uploaded before, and EXEC follows, while an empty file on its own uploads
  nothing. `HeaderRead` and `SegmentsRead` have it, and `PiBoot_runs` such command lines:
  the entry is still the right one, since the old header has it (`EntryIsAsked`); what is in
  memory is anything, so `StartedIsAsked` excepts it (`OwnHeader`).
* `okled.c:59`: on the Raspberry Pi 2 the LED's pin is 47, but its bit, 15, is written to the
  *first* set register: that is the latch of GPIO15, a pin of the UART (`OkledInit`). It
  shows at the pin only while a program has left that an output and until `uart_init`;
  `okled_switch` uses the right register. No property is about it.
* `validate_target_addr` tests the exclusive end of a range as if it were part of
  it, and refuses a range that ends just where the loader's stack page begins.
* `binary_loader.c:43`: the up to three bytes behind the last whole word of a binary
  are not uploaded.
* `options.c:86`: `-h` still opens the port and pings, and without `-p` fails before
  any help is shown. `options.c:112`: `-r` returns at once, so a `-p` after it is not
  read (`ReturnAtOnce`).
* `bootproto.c:71`: `ping` ignores an end of file; with `-s` and no file `piboot`
  may then end with status 0 and no board.
* `monitor.c:30`: at end of file the monitor prints bytes nobody sent, for ever.
* `elf.c:90`: a segment whose `p_memsz` is below its `p_filesz` is followed by a ZERO of
  nearly all memory (`ZSize`). The ELF standard forbids it, and nothing here says what
  it should be.

## Proofs

For every value of the constants that satisfies the named assumptions:

* `HostTypeCorrect`: the type invariant of `AnyHost!Spec`. One lemma per group of
  actions in `LoaderProofs` (`StartType`, `LinkType`, `HandleType`,
  `CommandsType`, `KernelType`), on lemmas about packets, units and headers
  (`WriteType`, `ValueType`, `DecodeType`).
* `LoaderIsSafe`: `LoaderKeepsItself`, if no transfer that can be read off the line
  `ReachesOver` the loader, that is, is accepted with all of it between its ends
  (`NoneReachesOver`); for every layout with `RunStart < RunAddr < RunEnd < AddrSpace`,
  every packet set, FIFO size, window and fault bound. The heart is
  `ValidateIsSound`: what `validate_target_addr` accepts either reaches over the
  whole of the loader or does not touch it, wrapping included, so the assumption
  leaves out just what the code lets through (run `AnyHost_overwrite`);
  `SmallOnesDoNot` says that transfers no longer than the loader meet it. The check
  happens when the header has been read but the writes happen one unit at a
  time later, so the property is not inductive: `PayloadElsewhere` carries the
  result of the check through `payload` mode.
* `ClientTypeCorrect` and `FilesLeaveLoaderWhole` (`PiSessionProofs`): the same two about `PiSystem!Spec`,
  for every set of jobs, on the same lemmas about one step of the board.
* `PartsAreTheFile`, `ArrayHolds`, `UploadedOrNothing`, about `SplitSpec`: the parts
  are the file, the array has room for each part before it is written, and what is
  in memory at the end is the file, or nothing at all if no word other than zero is
  among its first `MinZeros` (`BeginsWithData`; finding 5). The second half holds for files
  shorter than that, too: the part of size 0 stays first. The
  invariant adds to `PartsAreFile` that no part but the first is ever empty, that a
  part of zeros which is not the last is a big chunk, that the current part matches
  `zero` and, for the upload, that memory holds the parts up to `i` and `e_load` is
  where they end. `Grow` makes room one element early, which is why `PartsFit`
  survives the merge and the terminator.
* `BigZerosAreSent`, about `SplitSpec`: every part of data ends in a word that is
  not zero (`ChunkInv`), so that of the zeros merged behind it none belong to a run
  that began in it, and `MergeZeros` merges fewer than `MinZeros`.
* `LoaderIsMoved`, about `RelocateSpec`: the invariant of the move loop is that the
  image is untouched and that what lies between the running address and r5 is in
  place; that the registers are words and r3 never passes r4 makes the test for
  equality enough.
* `DelayIsRight`, about `TimerSpec`, for every width of the counter: the unsigned
  difference is the time that has passed (`Counted`), as long as that is less than
  the counter's range, which follows from the last look having been too early
  (`StillWaiting`) and `TimerAssumption`.
* `LoaderStaysMoved`, `DelaysAreRight`, about `Drivers!Spec`: each of its steps is a
  step of `Relocate` and of `Timer` or leaves them alone (`Parts`), so both results
  hold of the composition.
* `PinsStayOurs`, `LedIsRight`, `ResetStaysFull`, `OthersKeepTheirPins`,
  `DriversTypeCorrect`, about `Drivers!Spec`, for whatever programs leave in the
  registers: on two lemmas about fields (`FieldIsSet`, `FieldIsKept`) and an
  invariant that says at which point of `kmain` each is set.

**A session** (`PiSessionProofs`, about `PiSystem!Spec`). What is on its way is one
sequence in the order in which it will be read, however it is spread over the
loader's buffer, the FIFO and the line (`Stream`), and so are the answers
(`Answers`). The invariant `SessionInv` has no assumption on noise:

* `AtRest`, `OneHeader`: a partial header is there only while one is read; of the
  first units that are on their way at most one can do more than cause an RDY.
* `ContactInv`: when the RDY that a session waits for is there, everything that
  earlier sessions wrote has been read, and when it sends its first packet no ACK
  is left. This is where the flush of `setup_serial` and `Quiet` come in.
* `PacketInv`: from a header's first unit to its answer, all that is on its way
  belongs to `job[cur]`; the loader is at that packet if at any; an ACK that is on
  its way is the last answer and nothing is left to be read behind it.

From it follow `StartIsHeard` (`ExecIsAnswered`) and `AcksLeaveNothing` (`AckInStep`): also
when noise has changed a header, so that the loader obeyed another address or size than
was sent, the acceptance of an ACK finds the line, both FIFOs and the tty empty. `HeaderInv` adds that what the
loader obeys *is* `job[cur]`, or its payload lacks a unit that will not come, and
`MemInv` what memory holds of the packets up to `cur`, but for the addresses of one
that is being written, until the packet is bound to fail (`Doomed`). From these
follow `AcksAreOwn` and `ImageIsWhole` (`AckIsOwn`, `ExecSeesImage`). They assume
`"header" \notin Noise`: a header has no checksum, so that a garbled ZERO is obeyed
and acknowledged, and both are then wrong of the code (hazard `bootrpi.c:148`). Lost
units, killed sessions, resets, and noise in payloads may hit anywhere, any
number of times.

**The refinement** (`PiUploadProofs`). `SystemImplementsUpload`: every step of
`HistSpec`, which is `PiSystem` with the history variable, is a step of `Upload` or
leaves what that sees alone, under the same assumption. Besides the invariants of a
session this needs `LostInv`: what `lost` records must agree with what is still on
its way. A packet whose loss is recorded will not be acknowledged (`Spent`: a unit
of its header, or of its payload, has gone), and one that is acknowledged was not
lost. `ClientImplements`, `AckImplements`, `DropImplements`, `StartImplements` and
`ImageStays` take one kind of step each.

**A run of piboot** (`PiBootProofs`, about `PiBoot!Spec`, for every set of command
lines that the options, operands and `Binaries` allow and every choice of faults).
`BootInv` puts together the type invariant, that the text buffer holds a packet and
its outcome at most, and the invariant of `SplitBinary`, which begins anew with each
binary (`FileStep`); so `PartsAreEachFile`, `ArrayHoldsInRun` and
`BigZerosAreSentInRun` carry over from one file to a run of many.

* `BufferIsNeverOverrun`: 53 bytes would do (the longest packet, 34, and outcome, 18).
* `NothingUnanswered`: by `ContactInv`, whose point is that an `Acknowledged` packet
  needs a cable, and a cable that was there all the time has answered the ping.
* `SilentUnlessFailed`, `VerboseSaysAll`: each step says nothing, or one packet and
  its outcome, and the run ends there just if that is bad (`Says`).
* `EntryIsWhatWasAsked`: `EntryIsAsked`, whatever the files are and whatever an unread
  table of segments holds. `EntryInv` says that `e_entry` is what the options and files so far
  have asked for, and that the header read last is the one of the last ELF file so far
  whenever it is a header of an ELF file at all, its own or a stale one.
* `StartedIsWhatWasAsked`: `StartedIsAsked`, that is `EntryIsAsked`, and for a `SoundLine` memory
  too. The property looks at the
  whole command line, the code goes through it, so the invariant `AskedInv` says how
  far it has come: the options read so far (`Parsing`), the files done and, of the one
  at hand, the segments or parts written (`ElfWritten`, `BinaryWritten`), each as the
  operator of the property cut off there (`ArgAmong`, `EntryAmong`, `CellAmong`,
  `ElfCell`). One lemma per operator says what one more element adds.

`SoundLine` leaves out just the cases in which the code does something else: it asks
that a segment is as long as its data (`FullSegments`; otherwise `z_size` wraps), that a
binary that has words has one other than zero among its first `MinZeros` (finding 5), that no
empty file comes directly behind an ELF file (`OwnHeader`; `elf.c:64` under *Findings*), and that with
`-b` a binary has no zeros that would be sent as such, neither a big chunk nor any at its end
(`AllData`; finding 6). Besides, a binary fits below the end of the address space. Of the
command lines of `PiBoot_runs`, `SoundLines` satisfy it; `EntryIsWhatWasAsked` does without.

`RunsGetShorter` is termination without fairness: `StepsComeToAnEnd` says that each step
of `piboot` makes `Left` smaller, five numbers in lexicographic order: the part of
`main`, the options, the files, what is being done with the file, and the turns left of
its loop. The upload loop, which stops at an empty part, gets nearer to the
terminator; the two packets of an ELF segment count as two turns. What `RunEnds` adds is
that a step can always be taken and is.

**The watchdog** (`AnyHostProofs`). `WatchdogIsRight` is the safety half of
`WatchdogBringsBack`: a program never runs without the watchdog it was started with
unless it disabled it, and a program that returns with it running is stopped from
resetting the board in the middle of an upload (`wdog_stop` in `kmain`).

**The checksum** (`CrcProofs`, for payloads of any length and any bytes). Two facts about
buffers, `Crc32IsRemainder` and `BurstIsFound`, give the invariants `ChecksumIsRemainder`
and `ChecksumFindsDamage`.

* The library's induction theorems have operators as parameters, so induction is
  stated here over sets: of the numbers at which something fails there would be a first
  (`FirstOf`, from the well-foundedness of `<`), hence `UpTo`. `LoopIs` says from this
  that a function defined by its value at 0 and by a step has that value and that
  step; `Divide` and `Loop` are such functions.
* The difference of two registers behaves as a register does (`DivideApart`: the division
  is linear). So eight steps from a register can be split into eight steps from its low
  byte, which is a table entry (`TableRuns`), and a mere shift by eight of the rest:
  one turn of the loop (`TurnIsEightSteps`).
* Two buffers that differ: the first bit in which they do sets the highest bit of the
  difference of the registers. A bit of it moves one place down in each step, and
  sets the highest one when it falls out, so that noise, which comes in at the lower
  end, can meet it only 32 steps later, when there is none any more
  (`DifferenceStays`, `BurstStays`).

Of the 256 entries it uses `TableAssumption` only: each is what eight steps make of its
index. That is a statement about constants without variables, and TLC evaluates it
in the run `Crc_table`; every other fact is proved.

Model-checked only: that the abstract `Upload` is the right one to have, and all liveness
(`Recovery`, `WatchdogBringsBack`, `RunEnds`, `DelayEnds`, `StartsRunning`), which is out
of the prover's reach, as is `ENABLED`. The properties of the runs that must be violated
are false.

## Not modelled

* Build files. What matters of them, that `.bss` is part of the image, is in
  `LoaderBin` of `Relocate`.
* Baud rate, pull-ups and the addresses of registers: no state depends on them.
* The sample kernel as such: `Loader` lets a program do anything, of which returning
  through the magic word and printing are modelled after the sample.
* `vm_warn`, which nothing calls; `getopt_long`, taken as it is documented.
* What the monitor copies: it is a state that is not left.

## What is open

* What a ZERO, EXEC or LOAD does whose header noise has changed. The protocol promises
  nothing, so only what is left of the properties is stated (`AckInStep`,
  `LoaderKeepsItself`); with a checksum in headers `AckIsOwn` would need no assumption.
* `PiBoot` and `PiSystem` meet in the reader's mind: that the packets which `PiBoot` sends
  are a job of `PiSystem` is by construction of both, not a theorem. What would state it
  is a history of the packets sent, mapped to `job`.
* An end of file on the tty is in the view of `PiBoot` only, where the board is memory.
