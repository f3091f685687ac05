-------------------------------- MODULE PiBoot --------------------------------
(***************************************************************************)
(* One run of piboot on the PC: parse_cmdline (client/options.c), main     *)
(* over its files (client/bootpc.c), ELF files (client/elf.c), plain ones  *)
(* by SplitBinary, what is printed by VerbosePrint, and the packets' effect *)
(* on a board that acknowledges or refuses them.                           *)
(*                                                                         *)
(* A command line is piboot <options> <files>, as usage() prints it.       *)
(***************************************************************************)
EXTENDS SplitBinary, VerbosePrint

CONSTANTS
  CommandLines,   \* what piboot may be called with
  Garbage,        \* program headers, with data, that uninitialised memory may be
  Faults          \* what may go wrong: the port, a response, the cable

\* arg is the address given to -l or -x; "bad" is an option that getopt or
\* parse_addr refuses.
Options == [opt : {"h", "m", "b", "p", "v", "l", "x", "s", "w", "r", "bad"}, arg : Addr]

\* An operand is a binary file, an ELF file, or names no file.  valid: what
\* validate_elf and the test of e_phentsize look at is as they want it.
Segment == [type : {"LOAD", "NOTE"}, paddr : Addr, data : Seq(Nat), memsz : Addr]
Missing == [kind |-> "missing"]
Operands == {Missing} \cup [kind : {"binary"}, binary : Binaries]
            \cup [kind : {"elf"}, valid : BOOLEAN, entry : Addr, segments : Seq(Segment)]

NoFile == [words |-> <<>>, size |-> 0]

\* What piboot looks at of an ELF header; NotElf does not begin with ELFMAG.
Headers == [valid : BOOLEAN, entry : Addr, phnum : Nat]
NotElf  == [valid |-> FALSE, entry |-> -1, phnum |-> 0]

ASSUME PiBootAssumption ==
  /\ CommandLines \subseteq [options : Seq(Options), files : Seq(Operands)]
  /\ NoFile \in Binaries /\ LoadAddr \in Addr
  /\ Garbage \subseteq Segment /\ Garbage # {}
  /\ Faults \subseteq {"port", "response", "hangup"}

VARIABLES
  at,            \* where piboot is
  end,           \* why it ended; only after "ok" is its exit status 0
  cmd,           \* the command line
  opts, files,   \* what is left of it
  loader_action, run_monitor, beef_bss, port, no_watchdog, e_entry,
  e_hdr,         \* the header read last
  ph_ents,       \* the segments of load_elf; none once they are freed
  pi, half,      \* the segment load_elf is at; "load" or "zero"
  tty,           \* "open", or "gone" when the adapter was pulled out
  contact,       \* the board has answered the ping
  started,       \* what an acknowledged EXEC has started
  rebooted       \* a REBOOT was acknowledged

optionVars == <<loader_action, run_monitor, beef_bss, port, no_watchdog>>
elfVars    == <<e_hdr, ph_ents, pi, half>>
seenVars   == <<contact, started, rebooted>>
printVars  == <<verbose_mode, screen>>
vars == <<splitVars, at, end, cmd, opts, files, optionVars, e_entry, elfVars, tty, seenVars, printVars>>

None == [entry |-> -1, nowd |-> FALSE]

Init ==
  /\ cmd \in CommandLines /\ opts = cmd.options /\ files = cmd.files
  /\ at = "parse" /\ end = "none" /\ loader_action = "EXEC"
  /\ run_monitor = FALSE /\ beef_bss = FALSE /\ port = FALSE /\ no_watchdog = FALSE
  /\ e_entry = LoadAddr /\ e_load = LoadAddr /\ mem = [a \in Addr |-> Old]
  /\ Loading(NoFile) /\ tty = "open"
  /\ e_hdr = NotElf /\ ph_ents = <<>> /\ pi = 1 /\ half = "load"
  /\ contact = FALSE /\ started = None /\ rebooted = FALSE
  /\ verbose_mode = FALSE /\ screen = EmptyScreen

-----------------------------------------------------------------------------
(* parse_cmdline *)

Exit(why) == at' = "exit" /\ end' = why

\* The options that only set something.
SetOption ==
  /\ at = "parse" /\ opts # <<>> /\ Head(opts).opt \notin {"h", "r", "bad"}
  /\ LET o == Head(opts)
     IN  /\ run_monitor'  = (run_monitor \/ o.opt = "m")
         /\ beef_bss'     = (beef_bss \/ o.opt = "b")
         /\ port'         = (port \/ o.opt = "p")
         /\ verbose_mode' = (verbose_mode \/ o.opt = "v")
         /\ no_watchdog'  = (no_watchdog \/ o.opt = "w")
         /\ e_load'  = IF o.opt = "l" THEN o.arg ELSE e_load
         /\ e_entry' = IF o.opt = "x" THEN o.arg ELSE e_entry
         /\ loader_action' = IF o.opt = "s" THEN "NONE" ELSE loader_action
  /\ opts' = Tail(opts)
  /\ UNCHANGED <<fileVars, mem, at, end, cmd, files, elfVars, tty, seenVars, screen>>

\* -h and -r return at once, past the test for a port; optind stays behind
\* them, so what follows is taken for files.
ReturnAtOnce ==
  /\ at = "parse" /\ opts # <<>> /\ Head(opts).opt \in {"h", "r"}
  /\ loader_action' = IF Head(opts).opt = "h" THEN "USAGE" ELSE "REBOOT"
  /\ files' = [n \in 1 .. Len(opts) - 1 |-> Missing] \o files
  /\ opts' = <<>> /\ at' = "serial"
  /\ UNCHANGED <<splitVars, end, cmd, run_monitor, beef_bss, port, no_watchdog, e_entry,
                 elfVars, tty, seenVars, printVars>>

\* abort() on an unknown option, vm_fail on "Not a valid address"; at the end of
\* the options, usage() if there is no port.
BadOption ==
  /\ at = "parse" /\ Exit("options")
  /\ IF opts = <<>> THEN ~port ELSE Head(opts).opt = "bad"
  /\ UNCHANGED <<splitVars, cmd, opts, files, optionVars, e_entry, elfVars, tty, seenVars, printVars>>

EndOfOptions ==
  /\ at = "parse" /\ opts = <<>> /\ port /\ at' = "serial"
  /\ UNCHANGED <<splitVars, end, cmd, opts, files, optionVars, e_entry, elfVars, tty, seenVars,
                 printVars>>

-----------------------------------------------------------------------------
(* main *)

\* setup_serial; without a port, open(NULL) fails.
SetupSerial ==
  /\ at = "serial"
  /\ \/ port /\ at' = "ping" /\ UNCHANGED end
     \/ (~port \/ "port" \in Faults) /\ Exit("serial")
  /\ UNCHANGED <<splitVars, cmd, opts, files, optionVars, e_entry, elfVars, tty, seenVars, printVars>>

\* The cable is pulled out: from now on, reads return nothing.
HangUp ==
  /\ "hangup" \in Faults /\ tty = "open" /\ at # "exit" /\ tty' = "gone"
  /\ UNCHANGED <<splitVars, at, end, cmd, opts, files, optionVars, e_entry, elfVars, seenVars,
                 printVars>>

PingUnchecked ==
  /\ at = "ping" /\ at' = "files" /\ Tells("PING", "OK")
  /\ \/ tty = "open" /\ contact' = TRUE
     \/ (tty = "gone" \/ "response" \in Faults) /\ UNCHANGED contact
  /\ UNCHANGED <<splitVars, end, cmd, opts, files, optionVars, e_entry, elfVars, tty, started, rebooted>>

\* ping does not look at what fread returned: with nothing read, rsp is what
\* the stack held.
Ping ==
  /\ at = "ping"
  /\ \/ tty = "open" /\ contact' = TRUE /\ at' = "files" /\ Tells("PING", "OK") /\ UNCHANGED end
     \/ tty = "gone" /\ at' = "files" /\ Tells("PING", "OK") /\ UNCHANGED <<end, contact>>
     \/ /\ tty = "gone" \/ "response" \in Faults
        /\ Exit("ping") /\ Tells("PING", "ERROR") /\ UNCHANGED contact
  /\ UNCHANGED <<splitVars, cmd, opts, files, optionVars, e_entry, elfVars, tty, started, rebooted>>

\* load_binary for the next file.
ReadBinary(b) ==
  /\ stage' = "split" /\ file' = b /\ data_idx' = 0 /\ zero' = FALSE /\ i' = 1
  /\ parts' = <<FirstPart>> /\ part_size' = InitParts

\* The fread of check_elf, whose result is ignored: nothing to read in an empty
\* file leaves the header of the file before.  (Of a file that is shorter than a
\* header but not empty, the first byte is not that of ELFMAG.)
HeaderRead(f) ==
  CASE f.kind = "elf" -> [valid |-> f.valid, entry |-> f.entry, phnum |-> Len(f.segments)]
    [] f.kind = "binary" /\ f.binary.size > 0 -> NotElf
    [] OTHER -> e_hdr

\* The fread of load_elf, ignored too: with an old header and an empty file,
\* ph_ents is what malloc gave, and so are the data of load_section.
SegmentsRead(f) == IF f.kind = "elf" THEN {f.segments} ELSE [1 .. e_hdr.phnum -> Garbage]

\* fopen, check_elf, and load_elf up to its loop.
OpenFile ==
  /\ at = "files" /\ files # <<>>
  /\ LET f == Head(files)
     IN  \/ f.kind = "missing" /\ Exit("file") /\ UNCHANGED <<fileVars, elfVars>>
         \/ /\ f.kind # "missing" /\ e_hdr' = HeaderRead(f)
            /\ \/ e_hdr' = NotElf
                  /\ at' = "binary" /\ ReadBinary(f.binary) /\ UNCHANGED <<end, ph_ents, pi, half>>
               \/ e_hdr' # NotElf /\ ~e_hdr'.valid
                  /\ Exit("file") /\ UNCHANGED <<fileVars, ph_ents, pi, half>>
               \/ e_hdr' # NotElf /\ e_hdr'.valid
                  /\ ph_ents' \in SegmentsRead(f)
                  /\ at' = "elf" /\ pi' = 1 /\ half' = "load" /\ UNCHANGED <<end, fileVars>>
  /\ UNCHANGED <<e_load, mem, cmd, opts, files, optionVars, e_entry, tty, seenVars, printVars>>

CloseFile == files' = Tail(files) /\ at' = "files"

Fill == IF beef_bss THEN Beef ELSE 0
Ph == ph_ents[pi]
InElf == at = "elf" /\ pi <= Len(ph_ents)

\* Whether a packet is due whose response check_response will wait for, and which.
PacketDue ==
  \/ InElf /\ Ph.type = "LOAD"
  \/ at = "binary" /\ stage = "upload" /\ parts[i].size > 0
  \/ at = "files" /\ files = <<>> /\ loader_action \in {"EXEC", "REBOOT"}
NextPacket ==
  IF files = <<>> THEN loader_action
  ELSE IF IF ph_ents # <<>> THEN half = "zero" ELSE parts[i].addr = Null
  THEN "ZERO" ELSE "LOAD"

\* What check_response reports when there is no ACK.
BadOutcomes == (IF tty = "gone" THEN {"Failed"} ELSE {})
               \cup (IF "response" \in Faults THEN {"ERR", "Unknown"} ELSE {})

ReportRefusal ==
  /\ PacketDue /\ (\E why \in BadOutcomes : Tells(NextPacket, why))
  /\ end' = "response" /\ at' = at
  /\ UNCHANGED <<splitVars, cmd, opts, files, optionVars, e_entry, elfVars, tty, seenVars>>

IgnoreRefusal ==
  /\ PacketDue /\ (\E why \in BadOutcomes : Tells(NextPacket, why))
  /\ IF at = "files" THEN Exit("response") /\ files' = files ELSE CloseFile /\ end' = end
  /\ UNCHANGED <<splitVars, cmd, opts, optionVars, e_entry, elfVars, tty, seenVars>>

\* check_response exits on anything but an ACK, end of file included.
Refused ==
  /\ PacketDue /\ (\E why \in BadOutcomes : Tells(NextPacket, why)) /\ Exit("response")
  /\ UNCHANGED <<splitVars, cmd, opts, files, optionVars, e_entry, elfVars, tty, seenVars>>

Acknowledged == tty = "open" /\ Tells(NextPacket, "OK")

\* Upload and the last loop of a binary file.
LoadBinary ==
  /\ at = "binary"
  /\ \/ Split /\ UNCHANGED <<at, files, printVars>>
     \/ Acknowledged /\ UploadPart(Fill) /\ UNCHANGED <<at, files>>
     \/ EndUpload /\ CloseFile /\ UNCHANGED printVars
  /\ UNCHANGED <<end, cmd, opts, optionVars, e_entry, elfVars, tty, seenVars>>

-----------------------------------------------------------------------------
(* load_elf *)

Span(a, n) == {(a + k) % AddrSpace : k \in 0 .. n - 1}

\* uint32_t z_size
ZSize(ph) == (ph.memsz - Len(ph.data) + AddrSpace) % AddrSpace

ZeroTail(ph) == Span(ph.paddr + Len(ph.data), ZSize(ph))

SkipForever ==
  /\ InElf /\ Ph.type # "LOAD" /\ pi' = pi
  /\ UNCHANGED <<splitVars, at, end, cmd, opts, files, optionVars, e_entry, e_hdr, ph_ents, half,
                 tty, seenVars, printVars>>

SkipSegment ==
  /\ InElf /\ Ph.type # "LOAD" /\ pi' = pi + 1
  /\ UNCHANGED <<splitVars, at, end, cmd, opts, files, optionVars, e_entry, e_hdr, ph_ents, half,
                 tty, seenVars, printVars>>

\* load_section, acknowledged; a segment without data sends an empty LOAD.
LoadSection ==
  /\ InElf /\ Ph.type = "LOAD" /\ half = "load" /\ Acknowledged
  /\ mem' = [a \in Addr |->
               LET k == (a - Ph.paddr + AddrSpace) % AddrSpace
               IN  IF k < Len(Ph.data) THEN Ph.data[k + 1] ELSE mem[a]]
  /\ IF ZSize(Ph) > 0 THEN half' = "zero" /\ pi' = pi ELSE half' = half /\ pi' = pi + 1
  /\ UNCHANGED <<fileVars, e_load, at, end, cmd, opts, files, optionVars, e_entry, e_hdr, ph_ents,
                 tty, seenVars>>

ZeroAgain ==
  /\ InElf /\ Ph.type = "LOAD" /\ half = "zero" /\ Acknowledged
  /\ mem' = [a \in Addr |-> IF a \in ZeroTail(Ph) THEN Fill ELSE mem[a]]
  /\ half' = "load" /\ pi' = pi
  /\ UNCHANGED <<fileVars, e_load, at, end, cmd, opts, files, optionVars, e_entry, e_hdr, ph_ents,
                 tty, seenVars>>

\* zero_section, acknowledged.
ZeroSection ==
  /\ InElf /\ Ph.type = "LOAD" /\ half = "zero" /\ Acknowledged
  /\ mem' = [a \in Addr |-> IF a \in ZeroTail(Ph) THEN Fill ELSE mem[a]]
  /\ half' = "load" /\ pi' = pi + 1
  /\ UNCHANGED <<fileVars, e_load, at, end, cmd, opts, files, optionVars, e_entry, e_hdr, ph_ents,
                 tty, seenVars>>

EndElfKeepsX ==
  /\ at = "elf" /\ ~InElf /\ CloseFile
  /\ e_entry' = (IF e_entry = LoadAddr THEN e_hdr.entry ELSE e_entry) /\ ph_ents' = <<>>
  /\ UNCHANGED <<splitVars, end, cmd, opts, optionVars, e_hdr, pi, half, tty, seenVars, printVars>>

EndElf ==
  /\ at = "elf" /\ ~InElf /\ CloseFile
  /\ e_entry' = e_hdr.entry /\ ph_ents' = <<>>
  /\ UNCHANGED <<splitVars, end, cmd, opts, optionVars, e_hdr, pi, half, tty, seenVars, printVars>>

-----------------------------------------------------------------------------
(* The end of main *)

\* The monitor never ends, whatever fgetc returns.
AfterAction == IF run_monitor THEN at' = "monitor" /\ end' = end ELSE Exit("ok")

\* exec_program, reboot_pi, or no packet: usage() or nothing.
TakeAction ==
  /\ at = "files" /\ files = <<>>
  /\ IF PacketDue THEN Acknowledged ELSE UNCHANGED printVars
  /\ started' = IF loader_action = "EXEC" THEN [entry |-> e_entry, nowd |-> no_watchdog] ELSE None
  /\ rebooted' = (loader_action = "REBOOT")
  /\ AfterAction
  /\ UNCHANGED <<splitVars, cmd, opts, files, optionVars, e_entry, elfVars, tty, contact>>

Step == \/ SetOption \/ ReturnAtOnce \/ BadOption \/ EndOfOptions \/ SetupSerial \/ Ping
        \/ OpenFile \/ LoadBinary \/ SkipSegment \/ LoadSection \/ ZeroSection \/ EndElf
        \/ Refused \/ TakeAction

Next == Step \/ HangUp

Spec == Init /\ [][Next]_vars
FairSpec == Spec /\ WF_vars(Step)

-----------------------------------------------------------------------------
(* Properties *)

PiBootTypeOK ==
  /\ at \in {"parse", "serial", "ping", "files", "elf", "binary", "monitor", "exit"}
  /\ end \in {"none", "ok", "options", "serial", "ping", "response", "file"}
  /\ (end = "none") = (at # "exit")
  /\ cmd \in CommandLines /\ opts \in Seq(Options) /\ files \in Seq(Operands)
  /\ loader_action \in {"EXEC", "NONE", "USAGE", "REBOOT"}
  /\ {run_monitor, beef_bss, port, no_watchdog, contact, rebooted, verbose_mode} \subseteq BOOLEAN
  /\ tty \in {"open", "gone"} /\ half \in {"load", "zero"} /\ pi \in Nat \ {0}
  /\ e_hdr \in Headers \cup {NotElf} /\ ph_ents \in Seq(Segment)
  /\ at \in {"elf", "binary"} => files # <<>>
  /\ at = "binary" => Head(files).kind = "binary" /\ e_hdr = NotElf
  /\ at = "elf" => e_hdr # NotElf /\ pi <= Len(ph_ents) + 1
  /\ at \notin {"elf", "exit"} => ph_ents = <<>>
  /\ SplitTypeOK /\ screen \in Screen
  /\ e_entry \in Addr /\ started \in [entry : Addr, nowd : BOOLEAN] \cup {None}

\* What the command line asks for, as usage() and the README explain it.
Given(o)      == \E n \in 1 .. Len(cmd.options) : cmd.options[n].opt = o
LastArg(o)    == LET ns == {n \in 1 .. Len(cmd.options) : cmd.options[n].opt = o}
                 IN  IF ns = {} THEN LoadAddr ELSE cmd.options[Max(ns)].arg
Elfs          == {n \in 1 .. Len(cmd.files) : cmd.files[n].kind = "elf"}
AskedEntry    == IF Elfs = {} THEN LastArg("x") ELSE cmd.files[Max(Elfs)].entry
BinaryWords(f) == IF f.kind = "binary" THEN Len(f.binary.words) ELSE 0
WordsBefore(n) == UNION {{k} \X (1 .. BinaryWords(cmd.files[k])) : k \in 1 .. n - 1}
BaseOf(n)     == LastArg("l") + Cardinality(WordsBefore(n))

\* What file n puts at a; Old if nothing.
InSegment(ph, a) == ph.type = "LOAD" /\ a \in Span(ph.paddr, ph.memsz)
FromFile(n, a) ==
  LET f == cmd.files[n]
  IN  IF f.kind = "binary"
      THEN IF a \in Span(BaseOf(n), Len(f.binary.words)) THEN f.binary.words[a - BaseOf(n) + 1] ELSE Old
      ELSE LET in == {k \in 1 .. Len(f.segments) : InSegment(f.segments[k], a)}
               ph == f.segments[Max(in)]
               k  == (a - ph.paddr + AddrSpace) % AddrSpace
           IN  IF in = {} THEN Old
               ELSE IF k < Len(ph.data) THEN ph.data[k + 1]
               ELSE IF Given("b") THEN Beef ELSE 0
AskedCell(a) ==
  LET writers == {n \in 1 .. Len(cmd.files) : FromFile(n, a) # Old}
  IN  IF writers = {} THEN Old ELSE FromFile(Max(writers), a)

\* A program is started only if nothing asked otherwise, at the entry of the last
\* ELF file, else at -x, else at the default, and with the watchdog as asked: also
\* when an empty file is loaded with the header of the file before, and whatever is
\* then read as its segments.
EntryIsAsked ==
  started # None =>
    /\ started = [entry |-> AskedEntry, nowd |-> Given("w")]
    /\ ~Given("s") /\ ~Given("h") /\ ~Given("r")

\* Command lines for which the code does what its usage and README say.  Not so if a
\* segment has a memsz below its data, for which z_size wraps ...
FullSegments(f) ==
  \A k \in 1 .. Len(f.segments) :
    f.segments[k].type = "LOAD" => Len(f.segments[k].data) <= f.segments[k].memsz

\* ... or a binary does not begin with data, so that nothing of it is uploaded
\* (ZerosAreUploaded), does not fit, or has zeros that are filled with -b (BeefIsForElf) ...
SentAsItIs(n) ==
  LET ws == cmd.files[n].binary.words
  IN  /\ ws = <<>> \/ \E k \in 1 .. MinZeros : k <= Len(ws) /\ ws[k] # 0
      /\ BaseOf(n) + Len(ws) <= AddrSpace
      /\ Given("b") => AllData(ws)

\* ... or an empty file comes directly behind an ELF file, whose header it inherits
\* (check_elf, HeaderRead).
OwnHeader(n) ==
  cmd.files[n].binary.size = 0 =>
    \A m \in 1 .. Len(cmd.files) : m + 1 = n => cmd.files[m].kind # "elf"

SoundLine ==
  \A n \in 1 .. Len(cmd.files) :
    /\ cmd.files[n].kind = "elf" => FullSegments(cmd.files[n])
    /\ cmd.files[n].kind = "binary" => SentAsItIs(n) /\ OwnHeader(n)

MemoryIsAsked == started # None => \A a \in Addr : mem[a] = AskedCell(a)

\* And only if every packet of every file was acknowledged: memory is then what the
\* files say, one after the other (binaries behind one another from -l on), unless the
\* command line is one of those for which the code is known to do something else.
StartedIsAsked == EntryIsAsked /\ (SoundLine => MemoryIsAsked)

\* README, "Supports polluting memory areas which normally should be zeroed, with
\* 0xDEADBEEF": "Works only when loading ELF files."
BeefIsForElf == (\E a \in Addr : mem[a] = Beef) => Elfs # {}

\* ping looks at a response that may never have come (the result of fread is
\* ignored), and goes on if the stack happened to hold an RDY.  That does no harm:
\* a board that has not answered gets nothing acknowledged.
NothingWithoutContact ==
  ~contact => started = None /\ ~rebooted /\ \A a \in Addr : mem[a] = Old

\* Without -v, a run prints nothing of packets that were acknowledged, and of the
\* one that failed which it was and why.  (exec_program ends its line before the
\* answer, so that only the reason is left.)
QuietUnlessFailed ==
  ~verbose_mode =>
    CASE end = "ping"     -> screen.out = <<"PING", "ERROR">>
      [] end = "response" -> \E why \in Reason \ {"OK", "ERROR"} :
           screen.out = IF NextPacket = "EXEC" THEN <<why>> ELSE <<NextPacket, why>>
      [] OTHER            -> screen.out = <<>>

\* "Display what actions are performed" (usage, -v): each packet and its outcome
\* in turn and once, the bad outcome last, and at the end what was done last.
VerboseSaysOnce ==
  verbose_mode =>
    LET out == screen.out
        n   == Len(out)
    IN  /\ n % 2 = 0
        /\ \A k \in 1 .. n : out[k] \in (IF k % 2 = 1 THEN Announce ELSE Reason)
        /\ \A k \in 1 .. n - 1 : out[k] \notin Reason \ {"OK"}
        /\ end \in {"ping", "response"} <=> n > 0 /\ out[n] # "OK"
        /\ started # None <=> n > 0 /\ out[n - 1] = "EXEC" /\ out[n] = "OK"

\* What a run has before it: the parts of main, the options, the files, the parts of
\* what is done with a file, and the turns of the loop it is in.
PartOfMain == CASE at = "parse" -> 4 [] at = "serial" -> 3 [] at = "ping" -> 2
                [] at \in {"files", "elf", "binary"} -> 1 [] OTHER -> 0
PartOfFile == CASE at = "files" -> 3 [] at = "binary" /\ stage = "split" -> 2 [] OTHER -> 1
TurnsLeft ==
  CASE at = "elf" -> 2 * (Len(ph_ents) + 1 - pi) + (IF half = "load" THEN 1 ELSE 0)
    [] at = "binary" /\ stage = "split"  -> Len(file.words) - data_idx
    [] at = "binary" /\ stage = "upload" -> Len(parts) - i
    [] OTHER -> 0

Left == <<PartOfMain, Len(opts), Len(files), PartOfFile, TurnsLeft>>

\* Lexicographic order, which on tuples of numbers is well-founded.
Below(s, t) == \E n \in 1 .. 5 : s[n] < t[n] /\ \A m \in 1 .. n - 1 : s[m] = t[m]

\* Every step that piboot takes brings its end nearer, through all files and loops
\* (parse_cmdline, load_elf, split_binary, load_binary): there are no steps on which
\* it could go on for ever, whatever the board answers and when the cable goes.
StepsComeToAnEnd ==
  [][/\ Left \in [1 .. 5 -> Nat]
     /\ Below(Left', Left) \/ (tty' # tty /\ Left' = Left)]_vars

\* Whoever calls piboot gets an end of it or a monitor, as long as there is a
\* board that answers: no file makes a loop run for ever.
RunEnds == <>(at \in {"exit", "monitor"})

=============================================================================
