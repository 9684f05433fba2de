----------------------------- MODULE MCDccBuild -----------------------------
(* Instances of DccBuild for TLC.                                            *)
EXTENDS DccBuild, TLC

CONSTANTS a, b, c

Apart == 1 :> a @@ 2 :> b @@ 3 :> c
(* dir1/x.cpp and dir2/x.cpp both become x.o. *)
SameName == 1 :> a @@ 2 :> b @@ 3 :> a

AllButStream == FaultKinds \ {"stream"}
StreamOnly == {"stream"}
ToolForkOnly == {"toolfork"}
NoFaults == {}
=============================================================================
