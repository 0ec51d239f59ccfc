------------------------------ MODULE MCEventLoop ------------------------------
(* EventLoop on a small instance: three messages, the second of them       *)
(* raising an alert.                                                       *)
EXTENDS EventLoop

MCAlerting == {2}
================================================================================
