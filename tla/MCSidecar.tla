----------------------------- MODULE MCSidecar -----------------------------
(***************************************************************************)
(* Instances of Sidecar for TLC.  The constants are set in the cfg files.  *)
(***************************************************************************)
EXTENDS Sidecar

=============================================================================
