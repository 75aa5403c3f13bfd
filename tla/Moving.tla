------------------------------- MODULE Moving -------------------------------
(***************************************************************************)
(* What the components share that are checked one at a time: `part' is the *)
(* one that moves.  It is chosen at the start and stays.                   *)
(***************************************************************************)
CONSTANTS Parts,        \* whose behaviours there are
          None, Agent, FileId, PageSize, MaxFault

VARIABLE part
=============================================================================
