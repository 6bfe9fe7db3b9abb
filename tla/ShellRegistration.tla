-------------------------- MODULE ShellRegistration -------------------------
(***************************************************************************)
(* How the context menu gets into the registry and out of it:              *)
(* EnsureRegistered and Unregister of shell_ext_registration.h, which the  *)
(* module calls when it is loaded, enabled and disabled, and the scripts   *)
(* register.ps1 and unregister.ps1.  Each is a series of operations on     *)
(* single keys; other processes come in between, and any may be ended.     *)
(* Windows 11 has a menu of its own, for which enable() and the scripts    *)
(* deploy a package; it is one more thing to register, with a version.     *)
(*                                                                         *)
(* Explorer shows the entry when a handler key names the class and the     *)
(* class has a server (InprocServer32).  The sentinel value tells          *)
(* EnsureRegistered that there is nothing to do.                           *)
(***************************************************************************)
EXTENDS Naturals, Sequences, FiniteSets

CONSTANTS
    Hosts,          \* processes that register or unregister
    Folders,        \* folders File Locksmith was unpacked to
    Home,           \* Home[p]: the folder p runs from
    Version,        \* Version[f]: what is compared of f's version (not its Build)
    Msix,           \* the folders that hold the package
    Win11,          \* whether this Windows has the menu of packages
    MaxStarts       \* bound: how often anything is run

ASSUME RegistrationAssumption ==
    /\ Home \in [Hosts -> Folders] /\ MaxStarts \in Nat
    /\ Msix \subseteq Folders /\ Win11 \in BOOLEAN
    /\ {"absent", "empty", "set"} \cap Folders = {}

\* The keys of BuildSpec; the sentinel is a value of a key of its own.  The value
\* of the package is the folder it came from.
Handlers == {"AllFileSystemObjects", "Drive"}
Server   == "InprocServer32"
Sentinel == "ContextMenuRegistered"
Package  == "FileLocksmithContextMenu"
Keys     == Handlers \cup {Server, Sentinel, Package}
Modules  == {"EnsureRegistered", "enable", "Unregister"}
Programs == Modules \cup {"register.ps1", "unregister.ps1"}

\* What the ghosts tell apart.
Sort(prog) ==
    CASE prog \in {"EnsureRegistered", "enable"} -> "ensures"
      [] prog \in {"Unregister", "unregister.ps1"} -> "removes"
      [] prog = "register.ps1" -> prog

VARIABLES
    reg,        \* each key: absent, empty (no value yet) or its value
    program,    \* what each process runs, or ran last of all
    todo,       \* the operations it has still to do
    held,       \* the key it holds open, unless that was deleted since
    starts,     \* how many programs were started
    alone,      \* ghost: the running process that no other one overlapped
    overlapped, \* ghost: two have run at the same time
    cutShort,   \* ghost: the sorts of programs that were ended on the way
    refused,    \* ghost: Windows has refused something, and nobody noticed
    last        \* ghost: who ran to its end, alone and with nothing refused, and
                \* nobody started since

hostVars == <<program, todo, held>>
ghosts   == <<alone, overlapped, cutShort, refused, last>>
vars == <<reg, hostVars, starts, ghosts>>

Running == {p \in Hosts : todo[p] # <<>>}

-----------------------------------------------------------------------------
(* The programs, as the operations they do. *)

\* RegCreateKeyExW, then RegSetValueExW through the handle.
Write(k, v) == <<<<"create", k>>, <<"set", k, v>>>>

\* New-Item -Force, which removes what is there, then Set-ItemProperty.
Renew(k, v) == <<<<"delete", k>>, <<"create", k>>, <<"put", k, v>>>>

\* Test-Path, then Remove-Item.
Remove(k) == <<<<"test", k>>, <<"remove", k>>>>

WriteHandlers == Write("AllFileSystemObjects", "set") \o Write("Drive", "set")

\* Mutant: the sentinel is written as soon as the server is.
FirstTimeEarly(folder) == Write(Server, folder) \o Write(Sentinel, "set") \o WriteHandlers

\* What EnsureRegistered writes when the sentinel is not there ...
FirstTime(folder) == Write(Server, folder) \o WriteHandlers \o Write(Sentinel, "set")

\* ... and when it is, but the server is not the one of this folder.
Repair(folder) == Write(Server, folder) \o WriteHandlers

\* Mutant: the class first, then what names it.
UnregisterClassFirst ==
    <<<<"delete", Server>>, <<"delete", "AllFileSystemObjects">>,
      <<"delete", "Drive">>, <<"clear", Sentinel>>>>

Unregister ==
    <<<<"delete", "AllFileSystemObjects">>, <<"delete", "Drive">>,
      <<"delete", Server>>, <<"clear", Sentinel>>>>

\* The class is renewed first, which takes the server with it; the package comes
\* last, if there is none of whatever version.
RegisterScript(folder) ==
    <<<<"delete", Server>>>> \o Renew(Server, folder)
        \o Renew("AllFileSystemObjects", "set") \o Renew("Drive", "set")
        \o Renew(Sentinel, "set") \o <<<<"package?", Package>>, <<"add", Package, folder>>>>

\* Mutant: only the handler keys that are asked for first.
UnregisterScriptShort ==
    Remove("AllFileSystemObjects") \o Remove(Server) \o <<<<"clear", Sentinel>>>>

UnregisterScript ==
    Remove("AllFileSystemObjects") \o Remove("Drive") \o Remove(Server)
        \o <<<<"clear", Sentinel>>>> \o Remove(Package)

\* enable(): the package, if it is not of this version, then as at load.
Enable(folder) ==
    <<<<"version?", Package>>, <<"deploy", Package, folder>>, <<"sentinel?", Sentinel>>>>

Operations(p, prog) ==
    CASE prog = "EnsureRegistered" -> <<<<"sentinel?", Sentinel>>>>
      [] prog = "enable"           -> Enable(Home[p])
      [] prog = "Unregister"       -> Unregister
      [] prog = "register.ps1"     -> RegisterScript(Home[p])
      [] prog = "unregister.ps1"   -> UnregisterScript

-----------------------------------------------------------------------------
(* One operation of a process. *)

Do(p, op) == todo[p] # <<>> /\ Head(todo[p])[1] = op
Key(p)    == Head(todo[p])[2]

\* p goes on with rest; when nothing is left it has run to its end.
GoOn(p, rest) ==
    /\ todo' = [todo EXCEPT ![p] = rest]
    /\ last' = IF rest = <<>> /\ p \in alone THEN {p} ELSE last
    /\ alone' = IF rest = <<>> THEN alone \ {p} ELSE alone
    /\ UNCHANGED <<program, starts, overlapped, cutShort, refused>>

\* p stops before its end.
Stop(p) ==
    /\ todo' = [todo EXCEPT ![p] = <<>>]
    /\ held' = [held EXCEPT ![p] = {}]
    /\ alone' = alone \ {p}
    /\ cutShort' = cutShort \cup {Sort(program[p])}
    /\ program' = [program EXCEPT ![p] = "none"]
    /\ UNCHANGED <<reg, starts, overlapped, refused, last>>

\* A key that is deleted is of no use to those who hold it open.
DeleteKey(k) ==
    /\ reg' = [reg EXCEPT ![k] = "absent"]
    /\ held' = [q \in Hosts |-> held[q] \ {k}]

CheckSentinel(p) ==
    /\ Do(p, "sentinel?")
    /\ GoOn(p, IF reg[Sentinel] = "set" THEN <<<<"server?", Server>>>> ELSE FirstTime(Home[p]))
    /\ UNCHANGED <<reg, held>>

CheckServer(p) ==
    /\ Do(p, "server?")
    /\ GoOn(p, IF reg[Server] = Home[p] THEN <<>> ELSE Repair(Home[p]))
    /\ UNCHANGED <<reg, held>>

CreateKey(p) ==
    /\ Do(p, "create")
    /\ reg' = IF reg[Key(p)] = "absent" THEN [reg EXCEPT ![Key(p)] = "empty"] ELSE reg
    /\ held' = [held EXCEPT ![p] = {Key(p)}]
    /\ GoOn(p, Tail(todo[p]))

\* Mutant: the handle is not closed.
SetValueOpen(p) ==
    /\ Do(p, "set")
    /\ reg' = IF Key(p) \in held[p] THEN [reg EXCEPT ![Key(p)] = Head(todo[p])[3]] ELSE reg
    /\ GoOn(p, Tail(todo[p]))
    /\ UNCHANGED held

\* RegSetValueExW fails when the key was deleted; nobody looks at the result.
SetValue(p) ==
    /\ Do(p, "set")
    /\ reg' = IF Key(p) \in held[p] THEN [reg EXCEPT ![Key(p)] = Head(todo[p])[3]] ELSE reg
    /\ held' = [held EXCEPT ![p] = {}]
    /\ GoOn(p, Tail(todo[p]))

Delete(p) ==
    /\ Do(p, "delete")
    /\ DeleteKey(Key(p))
    /\ GoOn(p, Tail(todo[p]))

\* The sentinel goes, its key stays.
ClearValue(p) ==
    /\ Do(p, "clear")
    /\ reg' = IF reg[Key(p)] = "set" THEN [reg EXCEPT ![Key(p)] = "empty"] ELSE reg
    /\ GoOn(p, Tail(todo[p]))
    /\ UNCHANGED held

\* Set-ItemProperty opens the key by its path and stops the script without it.
PutProperty(p) ==
    /\ Do(p, "put")
    /\ IF reg[Key(p)] = "absent" THEN Stop(p)
       ELSE /\ reg' = [reg EXCEPT ![Key(p)] = Head(todo[p])[3]]
            /\ held' = [held EXCEPT ![p] = {}]
            /\ GoOn(p, Tail(todo[p]))

TestPath(p) ==
    /\ Do(p, "test")
    /\ GoOn(p, IF reg[Key(p)] = "absent" THEN SubSeq(todo[p], 3, Len(todo[p])) ELSE Tail(todo[p]))
    /\ UNCHANGED <<reg, held>>

\* Remove-Item of a key that has gone since Test-Path stops the script.
RemoveItem(p) ==
    /\ Do(p, "remove")
    /\ IF reg[Key(p)] = "absent" THEN Stop(p)
       ELSE DeleteKey(Key(p)) /\ GoOn(p, Tail(todo[p]))

\* A copy of this version from another folder will do.
SameVersion(folder) == reg[Package] \in Folders /\ Version[reg[Package]] = Version[folder]

\* GetRegisteredPackage and Get-AppxPackage; before Windows 11 nobody asks, and
\* the script does not where there is nothing to add.
CheckPackage(p) ==
    /\ \/ /\ Do(p, "version?")
          /\ GoOn(p, IF Win11 /\ ~ SameVersion(Home[p]) THEN Tail(todo[p]) ELSE SubSeq(todo[p], 3, 3))
       \/ /\ Do(p, "package?")
          /\ GoOn(p, IF Win11 /\ Home[p] \in Msix /\ reg[Package] = "absent" THEN Tail(todo[p]) ELSE <<>>)
    /\ UNCHANGED <<reg, held>>

PutPackage(p, folder) ==
    /\ reg' = [reg EXCEPT ![Package] = folder]
    /\ GoOn(p, Tail(todo[p]))
    /\ UNCHANGED held

\* RegisterSparsePackage replaces any version; it fails without the msix, and
\* nobody looks.
Deploy(p) ==
    /\ Do(p, "deploy")
    /\ PutPackage(p, IF Home[p] \in Msix THEN Home[p] ELSE reg[Package])

\* Add-AppxPackage, with VCLibs first where Windows asks for that.  If a package
\* has appeared since, it replaces it, leaves it, or stops the script.
AddPackage(p) ==
    /\ Do(p, "add")
    /\ \/ PutPackage(p, Home[p])
       \/ reg[Package] # "absent" /\ (PutPackage(p, reg[Package]) \/ Stop(p))

\* An operation of the module's fails, as when it has no access; no result is
\* looked at.  (A script stops, as when it is ended.)  BOUND: once.
Refuse(p) ==
    /\ program[p] \in Modules /\ ~refused
    /\ \E op \in {"create", "delete", "clear", "deploy"} : Do(p, op)
    /\ refused' = TRUE
    /\ alone' = alone \ {p}
    /\ todo' = [todo EXCEPT ![p] = Tail(@)]
    /\ held' = [held EXCEPT ![p] = {}]
    /\ UNCHANGED <<reg, program, starts, overlapped, cutShort, last>>

Operation(p) ==
    \/ CheckSentinel(p) \/ CheckServer(p) \/ CheckPackage(p) \/ Deploy(p) \/ AddPackage(p) \/ Refuse(p)
    \/ CreateKey(p) \/ SetValue(p) \/ Delete(p) \/ ClearValue(p)
    \/ PutProperty(p) \/ TestPath(p) \/ RemoveItem(p)

-----------------------------------------------------------------------------
(* Programs start, and are ended. *)

\* UpdateRegistration (load, enable, disable), or the user and a script.
StartProgram(p, prog) ==
    /\ todo[p] = <<>> /\ starts < MaxStarts
    /\ starts' = starts + 1
    /\ program' = [q \in Hosts |-> IF q = p THEN prog ELSE IF q \in Running THEN program[q] ELSE "none"]
    /\ todo' = [todo EXCEPT ![p] = Operations(p, prog)]
    /\ alone' = IF Running = {} THEN {p} ELSE {}
    /\ overlapped' = (overlapped \/ Running # {})
    /\ last' = {}
    /\ UNCHANGED <<reg, held, cutShort, refused>>

\* The process is terminated, the window of the script is closed.
EndProcess(p) == todo[p] # <<>> /\ Stop(p)

Init ==
    /\ reg = [k \in Keys |-> "absent"]
    /\ program = [p \in Hosts |-> "none"]
    /\ todo = [p \in Hosts |-> <<>>]
    /\ held = [p \in Hosts |-> {}]
    /\ starts = 0
    /\ alone = {} /\ overlapped = FALSE /\ cutShort = {} /\ refused = FALSE /\ last = {}

Next == \E p \in Hosts :
    \/ Operation(p)
    \/ EndProcess(p)
    \/ \E prog \in Programs : StartProgram(p, prog)

Spec == Init /\ [][Next]_vars

-----------------------------------------------------------------------------
(* Every variable has its type; a program that is done holds no key open.    *)
RegistrationTypesOK ==
    /\ reg \in [Keys -> {"absent", "empty", "set"} \cup Folders]
    /\ \A h \in Handlers \cup {Sentinel} : reg[h] \notin Folders
    /\ reg[Server] # "set" /\ reg[Package] \in Folders \cup {"absent"}
    /\ program \in [Hosts -> Programs \cup {"none"}]
    /\ held \in [Hosts -> SUBSET Keys]
    /\ \A p \in Hosts \ Running : held[p] = {}
    /\ starts \in 0..MaxStarts
    /\ refused \in BOOLEAN
    /\ alone \subseteq Running /\ cutShort \subseteq {"ensures", "removes", "register.ps1"} /\ last \subseteq Hosts

Registered(folder) ==
    /\ reg[Server] = folder
    /\ \A h \in Handlers : reg[h] = "set"

(* EnsureRegistered that ran to its end, alone, leaves the entry registered  *)
(* with the DLL of its own folder, whatever was there before: another        *)
(* folder's, nothing, or half of it.  It may do nothing at all, for the sake *)
(* of the sentinel; that is right because the sentinel is written last, and  *)
(* as long as nothing but a first EnsureRegistered was ended on the way, and *)
(* nothing was refused.  Programs that overlap may leave a sentinel alone,   *)
(* which is repaired.  enable() leaves a package of its own version, too, on *)
(* a Windows that has the menu and if it has the package to deploy.          *)
EnsuredIsRegistered ==
    \A p \in last : Sort(program[p]) = "ensures" =>
        /\ (~ refused /\ (cutShort = {} \/ (~ overlapped /\ cutShort = {"ensures"})))
               => Registered(Home[p])
        /\ (program[p] = "enable" /\ Win11 /\ Home[p] \in Msix) => SameVersion(Home[p])

(* Unregister that ran to its end, alone, leaves no part of the entry behind, *)
(* whatever had been left half done, or was refused, before.  The package is  *)
(* left by disable(), and removed by the script.                              *)
UnregisteredIsGone ==
    \A p \in last : Sort(program[p]) = "removes" =>
        /\ \A k \in Handlers \cup {Server} : reg[k] = "absent"
        /\ reg[Sentinel] # "set"
        /\ program[p] = "unregister.ps1" => reg[Package] = "absent"

(* A handler never names a class without a server, so that Explorer finds     *)
(* nothing half registered: the code writes the server first and deletes it   *)
(* last, and may be ended anywhere.  register.ps1 removes the server first,   *)
(* and two at a time may undo each other's work.                              *)
NoDanglingHandler ==
    (~ overlapped /\ ~ refused /\ "register.ps1" \notin cutShort
        /\ \A p \in Running : program[p] # "register.ps1") =>
            \A h \in Handlers : reg[h] = "set" => reg[Server] \in Folders
=============================================================================
