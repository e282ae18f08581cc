----------------------------- MODULE MCMarkPath -----------------------------
(* Small instances of MarkPath.                                            *)
EXTENDS MarkPath

MCOpts(overs, wigs, feeds, slows) ==
  [over : overs, wig : wigs, wigOk : {TRUE}, feed : feeds, slow : slows]

JobsOf(n, opts) ==
  [pts : [1..n -> Travel], lit : [1..n - 1 -> BOOLEAN], opts : opts]

BadWiggle == [over |-> 0, wig |-> 1, wigOk |-> FALSE, feed |-> TRUE, slow |-> FALSE]

(* Calls path() refuses: one point, a flag too few, a wiggle with no pitch.*)
Refused ==
  {[pts |-> <<0>>, lit |-> <<>>, opts |-> [BadWiggle EXCEPT !.wig = 0]],
   [pts |-> <<0, 1, 2>>, lit |-> <<TRUE>>, opts |-> [BadWiggle EXCEPT !.wig = 0]],
   [pts |-> <<0, 1>>, lit |-> <<TRUE>>, opts |-> BadWiggle]}

(* Three segments without a wiggle: a gap and what follows it.             *)
LineJobs == JobsOf(4, MCOpts({0, 2}, {0}, BOOLEAN, {TRUE}))
         \cup JobsOf(3, MCOpts({3}, {0}, BOOLEAN, BOOLEAN))
(* Two wiggled segments: a corner inside a run, or a run and a move.       *)
WiggleJobs == JobsOf(3, MCOpts({1}, {1}, BOOLEAN, {FALSE}))
MCJobs == LineJobs \cup WiggleJobs \cup Refused

MCSegOpts  == MCOpts({0, 1}, {0, 1}, {TRUE}, {FALSE})
MCSegLists == {<<>>, <<<<0, 2>>, <<3, 1>>>>, <<<<1, 2>>, <<2, 2>>>>}
MCDotLists == {<<2, 0, 0>>, <<>>}
=============================================================================
