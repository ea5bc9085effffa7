------------------------------ MODULE MCChord -------------------------------
(***************************************************************************)
(* Chord for TLC.  A node is its chordID, so the .cfg files give Node as a *)
(* set of identifiers; NoNode is a model value.  The overlay is not        *)
(* symmetric: the ids are chosen by what they bring about.                 *)
(***************************************************************************)
EXTENDS Chord
=============================================================================
