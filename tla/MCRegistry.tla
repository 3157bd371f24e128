----------------------------- MODULE MCRegistry -----------------------------
(***************************************************************************)
(* Instances of Registry for TLC.                                          *)
(***************************************************************************)
EXTENDS Registry

CONSTANTS d1, d2, d3, d4

\* The config file of the instances: one pair, then a line that is left out
\* because its target is the first line's source.
MCConfig == << <<d1, d2>>, <<d3, d1>> >>

\* What the console may ask to add: two pairs that fit together, and two that
\* meet the first pair crosswise.
MCAddArgs == {<<d1, d2>>, <<d3, d4>>, <<d1, d3>>, <<d4, d1>>}

\* As well, a directory that is to be kept in sync with itself.
MCSelfArgs == {<<d1, d2>>, <<d3, d3>>}
=============================================================================
