------------------------------ MODULE MCGpuAsync ------------------------------
(* Two calls in the group and one outside of it. *)
EXTENDS GpuAsync, GpuScriptsChecked

CONSTANTS call1, call2, lone
GroupedCalls == {call1, call2}
AllCalls == {call1, call2, lone}
==============================================================================
