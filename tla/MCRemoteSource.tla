--------------------------- MODULE MCRemoteSource ---------------------------
(***************************************************************************)
(* The instance of RemoteSource that TLC checks: two goroutines, an        *)
(* issuer that changes its keys one time, a refresh interval of two ticks  *)
(* and a minimum interval of one.                                          *)
(***************************************************************************)
EXTENDS RemoteSource
=============================================================================
