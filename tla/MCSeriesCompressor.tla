------------------------- MODULE MCSeriesCompressor -------------------------
(***************************************************************************)
(* Bounded instance of SeriesCompressor: ints of 5 bits, and every series   *)
(* of at most MaxLen samples around 0, none of them -2, which as a first    *)
(* sample is not read.                                                      *)
(***************************************************************************)
EXTENDS SeriesCompressor

MCValues == -3..3 \ {-2}

CounterValues == 0..3
=============================================================================
