----------------------------- MODULE RadioLink ------------------------------
(* What the router's rules call `ser`, a serial device or a simulator in its *)
(* place (wisund.cpp, #if SIM): the messages that have crossed it.           *)
EXTENDS DeviceBus

VARIABLES received, \* history: the messages handed to the router
          sent      \* history: the messages written to the port
=============================================================================
