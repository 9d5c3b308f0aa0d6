---------------------------- MODULE MCPortfolio ----------------------------
(***************************************************************************)
(* Every placement of the frames of a first bug, within and just beyond    *)
(* the bound nframes + 1.                                                  *)
(***************************************************************************)
EXTENDS Portfolio

BoundFrames == 1 .. nframes + 2
AllCircuits == [Property -> SUBSET BoundFrames]
=============================================================================
