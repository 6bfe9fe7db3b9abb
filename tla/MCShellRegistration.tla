------------------------ MODULE MCShellRegistration -------------------------
(* A host of an old and a host of a new folder, and four programs, on        *)
(* Windows 11; each folder has its package, of its own version.              *)
EXTENDS ShellRegistration, TLC

MCHome    == ("explorer" :> "old" @@ "window" :> "new")
MCVersion == ("old" :> 1 @@ "new" :> 2)
=============================================================================
