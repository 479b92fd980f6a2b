----------------------------- MODULE MCSonicPool -----------------------------
(* Three ingesting handlers, a query, and pools of one or two connections.  *)
EXTENDS SonicPool

CONSTANTS i1, i2, i3, s1, a1, a2, b1, b2
==============================================================================
