--------------------------- MODULE OrderedStream ---------------------------
(***************************************************************************)
(* What a progress buffer promises to the demuxer behind it: a newsegment  *)
(* event announces where a run of blocks begins, the blocks of the run     *)
(* follow one by one and in order, none twice and none left out, and after *)
(* a flush nothing comes without a new announcement.                       *)
(***************************************************************************)
EXTENDS Naturals

VARIABLES
    expected,   \* the block that comes next
    announced   \* newsegment events since the last flush

osVars == <<expected, announced>>

OSInit == expected = 0 /\ announced = 0

Announce == announced' = announced + 1 /\ expected' \in Nat
Deliver  == announced > 0 /\ expected' = expected + 1 /\ UNCHANGED announced
Flush    == announced' = 0 /\ UNCHANGED expected

OSNext == Announce \/ Deliver \/ Flush

OSSpec == OSInit /\ [][OSNext]_osVars
=============================================================================
