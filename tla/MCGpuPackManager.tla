--------------------------- MODULE MCGpuPackManager ---------------------------
(* Instance of GpuPackManager for TLC: an app `a` and a newer version `b`   *)
(* on one root, which also holds a pack of a third version.                *)
EXTENDS GpuPackManager

CONSTANTS a, b, ka, kb, kc

TwoVersions == [p \in {a, b} |-> IF p = a THEN ka ELSE kb]
===============================================================================
