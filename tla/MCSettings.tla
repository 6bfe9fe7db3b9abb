----------------------------- MODULE MCSettings -----------------------------
(* Explorer, which only reads, the process that has the module loaded, and   *)
(* the settings page.                                                        *)
EXTENDS Settings, TLC

MCDlls    == {"explorer", "module"}
MCModules == {"module"}
=============================================================================
