------------------------------ MODULE MCLogger ------------------------------
(* Two goroutines that log, flush and close as they like; ch holds one entry, *)
(* so that a sender meets a full channel.                                     *)
EXTENDS Logger

CONSTANTS g1, g2

MCCaller == {g1, g2}
=============================================================================
