---------------------------- MODULE LatestFrame ----------------------------
(***************************************************************************)
(* What a PixelSource promises to a painter and to a screen: a mailbox for *)
(* one frame.  A new frame replaces one that waits, a frame that is being  *)
(* shown stays as it is until it is released, and the screen never goes    *)
(* back to an older frame.                                                 *)
(***************************************************************************)
EXTENDS Naturals

VARIABLES
    last,     \* the number of the newest published frame
    waiting,  \* the frame in the mailbox, 0 when it is empty
    taken,    \* the frame the consumer works on, 0 when it has none
    screen    \* the frame on the screen

lfVars == <<last, waiting, taken, screen>>

LFInit == last = 0 /\ waiting = 0 /\ taken = 0 /\ screen = 0

Publish == last' = last + 1 /\ waiting' = last + 1 /\ UNCHANGED <<taken, screen>>

Take ==
    /\ taken = 0 /\ waiting # 0
    /\ taken' = waiting /\ waiting' = 0
    /\ UNCHANGED <<last, screen>>

Show    == taken > screen /\ screen' = taken /\ UNCHANGED <<last, waiting, taken>>
Release == taken # 0 /\ taken' = 0 /\ UNCHANGED <<last, waiting, screen>>
Skip    == waiting # 0 /\ taken = 0 /\ waiting' = 0 /\ UNCHANGED <<last, taken, screen>>

LFNext == Publish \/ Take \/ Show \/ Release \/ Skip

LFSpec == LFInit /\ [][LFNext]_lfVars
=============================================================================
