------------------------------- MODULE MCWeb --------------------------------
(* The daemon, or the simulator, with clients at a terminal or behind the    *)
(* web server.                                                               *)
EXTENDS WebServer, WisundSinks
=============================================================================
