-------------------------------- MODULE MCReset --------------------------------
(* Instances of ResetGate for TLC.                                         *)
EXTENDS ResetGate, TLC

CONSTANTS Cache, Proxy, Origin  \* services

(* Of target 1 two services are restarted and the origin is not; target 2  *)
(* has opted out.                                                          *)
AllButOrigin == [a \in Apps |-> IF a = 1 THEN {Cache, Proxy} ELSE {}]
=============================================================================
