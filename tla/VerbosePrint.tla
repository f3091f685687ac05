----------------------------- MODULE VerbosePrint -----------------------------
(***************************************************************************)
(* What piboot says on stderr of its packets (client/verbose_print.c, as   *)
(* client/bootproto.c calls it).  Without -v all is silent until a packet  *)
(* fails; then the text that was held back must still be there, and fit.   *)
(* A text is a kind; what matters of it is where it goes and how long it   *)
(* is.                                                                     *)
(***************************************************************************)
EXTENDS Integers, Sequences, SequencesExt

CONSTANT BufferSize   \* of out_buffer

ASSUME VerbosePrintAssumption == BufferSize \in Nat

Announce == {"PING", "LOAD", "ZERO", "EXEC", "REBOOT"}
Reason   == {"OK", "ERROR", "ERR", "Unknown", "Failed"}
Text     == Announce \cup Reason

\* The longest each format can get, numbers being printed with at most 8 digits.
Length == [PING |-> 30, LOAD |-> 34, ZERO |-> 34, EXEC |-> 20, REBOOT |-> 22,
           OK |-> 3, ERROR |-> 15, ERR |-> 13, Unknown |-> 17, Failed |-> 18]

VARIABLES
  verbose_mode,
  screen        \* buffer: the texts in out_buffer; ptr: how many of them come
                \* before out_ptr; out: what has been printed

Screen      == [buffer : Seq(Text), ptr : Nat, out : Seq(Text)]
EmptyScreen == [buffer |-> <<>>, ptr |-> 0, out |-> <<>>]

\* vsprintf at out_ptr ends what is in out_buffer there.
Held(s, text) == Append(SubSeq(s.buffer, 1, s.ptr), text)

vm_print_s(s, text) ==
  [buffer |-> Held(s, text), ptr |-> s.ptr + 1,
   out    |-> IF verbose_mode THEN Append(s.out, text) ELSE s.out]

KeepPointer(s, force_output, text) ==
  [buffer |-> Held(s, text), ptr |-> s.ptr + 1,
   out    |-> IF verbose_mode THEN Append(s.out, text)
              ELSE IF force_output THEN s.out \o Held(s, text) ELSE s.out]

PrintBuffer(s, force_output, text) ==
  [buffer |-> Held(s, text), ptr |-> 0,
   out    |-> IF verbose_mode \/ force_output THEN s.out \o Held(s, text) ELSE s.out]

vm_print_e(s, force_output, text) ==
  [buffer |-> Held(s, text), ptr |-> 0,
   out    |-> IF verbose_mode THEN Append(s.out, text)
              ELSE IF force_output THEN s.out \o Held(s, text) ELSE s.out]

\* exec_program ends the line of its packet before the answer is there.
Announced(packet) ==
  IF packet = "EXEC" THEN vm_print_e(screen, FALSE, packet) ELSE vm_print_s(screen, packet)

\* A packet is announced, and its outcome told.
Tells(packet, outcome) ==
  /\ screen' = vm_print_e(Announced(packet), outcome # "OK", outcome)
  /\ UNCHANGED verbose_mode

\* However many packets a run sends, no text is written past the end of
\* out_buffer, the 0 behind it included (vm_print_s, vm_print_e).
Chars(texts) == UNION {{k} \X (1 .. Length[texts[k]]) : k \in 1 .. Len(texts)}
BufferHolds  == Cardinality(Chars(screen.buffer)) + 1 <= BufferSize

=============================================================================
