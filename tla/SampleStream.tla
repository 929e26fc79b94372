---------------------------- MODULE SampleStream ----------------------------
(***************************************************************************)
(* What a series writer promises, whatever its encoding: the samples a      *)
(* reader decodes from its output are a prefix of the samples written, the  *)
(* output is never taken back, and after Close nothing is missing from it,  *)
(* with the one exception the code makes: a last sample 0 may be.           *)
(***************************************************************************)
EXTENDS Integers, Sequences

CONSTANT Values

VARIABLES
    written,  \* the samples written so far
    flushed,  \* the samples a reader decodes from the output so far
    closed

streamVars == <<written, flushed, closed>>

StreamInit ==
    /\ written = <<>>
    /\ flushed = <<>>
    /\ closed = FALSE

Write(v) ==
    /\ ~closed
    /\ written' = Append(written, v)
    /\ Len(flushed') \in Len(flushed)..Len(written')
    /\ flushed' = SubSeq(written', 1, Len(flushed'))
    /\ UNCHANGED closed

Close ==
    /\ ~closed
    /\ closed' = TRUE
    /\ \/ written = flushed'
       \/ written = Append(flushed', 0)
    /\ UNCHANGED written

StreamNext == (\E v \in Values : Write(v)) \/ Close

StreamSpec == StreamInit /\ [][StreamNext]_streamVars
=============================================================================
