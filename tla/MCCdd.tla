-------------------------------- MODULE MCCdd --------------------------------
(* Cdd for TLC. *)
EXTENDS Cdd

\* Two data tracks and an audio track, with gaps of a block between them.
ThreeTracks == << [first |-> 0, end |-> 1, audio |-> FALSE],
                  [first |-> 2, end |-> 3, audio |-> FALSE],
                  [first |-> 4, end |-> 6, audio |-> TRUE] >>

\* One block of data and one of audio.
TwoBlocks == << [first |-> 0, end |-> 1, audio |-> FALSE],
                [first |-> 1, end |-> 2, audio |-> TRUE] >>
==============================================================================
