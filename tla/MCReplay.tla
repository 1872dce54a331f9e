------------------------------- MODULE MCReplay -------------------------------
(* Instances of Replay for TLC. *)
EXTENDS Replay

\* Through the initial stop, through it from below, through the target, one R
\* up, one R touched and back through the entry, through both levels
MCBars == {[open |-> 95,  high |-> 96,  low |-> 90,  close |-> 91],
           [open |-> 88,  high |-> 90,  low |-> 85,  close |-> 89],
           [open |-> 110, high |-> 118, low |-> 109, close |-> 117],
           [open |-> 104, high |-> 112, low |-> 103, close |-> 111],
           [open |-> 104, high |-> 111, low |-> 99,  close |-> 104],
           [open |-> 105, high |-> 118, low |-> 90,  close |-> 100]}
MCEmas == {100, 107}

MCRanges == {[high |-> 99, low |-> 93], [high |-> 99, low |-> 69]}

\* A breakout that engulfs, and a continuation after a correction that held
Quiet == [open |-> 96, high |-> 98, low |-> 95, close |-> 97]
Break == [open |-> 97, high |-> 101, low |-> 93, close |-> 100]
Burst == [open |-> 98, high |-> 106, low |-> 98, close |-> 105]
Pull  == [open |-> 104, high |-> 104, low |-> 100, close |-> 101]
Again == [open |-> 101, high |-> 107, low |-> 101, close |-> 106]
MCPosts == {<<Quiet, Break>>, <<Burst, Pull, Again>>}
===============================================================================
