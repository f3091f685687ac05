--------------------------------- MODULE MCCrc ---------------------------------
(* All bytes first, so that all of the table is used, then a few; five bytes *)
(* are what noise of 32 bits can lie across.                                 *)
EXTENDS Crc

MCBytes(n) == IF n = 0 THEN Byte ELSE {{0, 2, 5, 7}}

MCErrors == {{0}, {7}, {1, 2, 4, 6}}

=============================================================================
