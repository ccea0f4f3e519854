--------------------------- MODULE MCViewerHooks ----------------------------
(***************************************************************************)
(* Instances of StateHooks for TLC: every hook of the application.         *)
(***************************************************************************)
EXTENDS ViewerHooks

HookRecords == AllHooks
=============================================================================
