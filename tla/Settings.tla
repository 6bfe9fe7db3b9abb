------------------------------ MODULE Settings ------------------------------
(***************************************************************************)
(* The settings: one JSON file, a cache of it in every process that has    *)
(* one of the DLLs loaded, and the settings page, which edits the file     *)
(* itself.  Nobody takes a lock.  A DLL looks at the time of the file to   *)
(* see whether its cache is old; it notes the time at which it has read    *)
(* or written, afterwards.  The page, being .NET, does not share its       *)
(* writing with writers, nor its reading; the DLLs share everything.       *)
(***************************************************************************)
EXTENDS Integers, FiniteSets

CONSTANTS
    Dlls,           \* processes with a FileLocksmithSettings instance
    Modules,        \* those of them with the module interface, set_config
    Absent,         \* there is no file
    Empty,          \* the file has been truncated
    Garbled,        \* the file is not JSON
    NoKey,          \* the object has no such key
    MaxTime,        \* BOUND: the clock
    MaxChanges      \* BOUND: choices, edits and restarts together

ASSUME SettingsAssumption ==
    /\ Modules \subseteq Dlls
    /\ MaxTime \in Nat \ {0} /\ MaxChanges \in Nat
    /\ NoKey \notin BOOLEAN

VARIABLES
    policy,     \* what the registry says: it goes before the file
    file, mtime, now,
    cache,      \* settings, per DLL
    stamp,      \* lastLoadedTime, per DLL
    pc,         \* where the call of the DLL is
    saves,      \* how many Saves the call has still to do: 2 at set_config
    wanted,     \* m_extended_only
    page,       \* where the settings page is
    toggle,     \* ShowInExtendedContextMenu, what the page shows
    json,       \* what it has read, with the choice put in
    changes,    \* counts the bounded events
    blind,      \* ghost: the file was written where the DLL does not see it
    clash,      \* ghost: the last writer of the file was not alone, or ended
    choice,     \* ghost: the last choice of the user
    contested   \* ghost: something else was under way when it was stored

dllVars   == <<cache, stamp, pc, saves, wanted>>
fileVars  == <<file, mtime>>
pageVars  == <<page, toggle, json>>
ghostVars == <<blind, clash, choice, contested>>
vars == <<policy, fileVars, now, dllVars, pageVars, changes, ghostVars>>

Value    == BOOLEAN \cup {NoKey}
Objects  == [enabled : Value, extended : Value]
Settings == [enabled : BOOLEAN, extended : BOOLEAN]
Default  == [enabled |-> TRUE, extended |-> FALSE]

ASSUME FileAssumption ==
    /\ {Absent, Empty, Garbled} \cap Objects = {}
    /\ Absent \notin {Empty, Garbled}

PageStates == {"closed", "idle", "loading", "loaded", "registering", "start",
               "reading", "opening", "writing", "threw"}

Calls == {"new", "idle", "query", "load", "parse", "stamp", "save", "write",
          "saved", "answer", "forced"}

SettingsTypesOK ==
    /\ policy \in {"none", "on", "off"}
    /\ file \in Objects \cup {Absent, Empty, Garbled}
    /\ mtime \in 0..now /\ now \in 1..MaxTime
    /\ cache \in [Dlls -> Settings]
    /\ stamp \in [Dlls -> 0..now]
    /\ pc \in [Dlls -> Calls]
    /\ saves \in [Dlls -> 0..2] /\ wanted \in [Dlls -> BOOLEAN]
    /\ page \in PageStates /\ toggle \in BOOLEAN /\ json \in Objects
    /\ changes \in 0..MaxChanges
    /\ blind \in [Dlls -> BOOLEAN] /\ clash \in BOOLEAN
    /\ choice \in Value /\ contested \in BOOLEAN

SettingsInit ==
    /\ policy = "none"
    /\ file \in Settings \cup {Absent}
    /\ mtime = 0 /\ now = 1
    /\ cache = [d \in Dlls |-> Default] /\ stamp = [d \in Dlls |-> 0]
    /\ pc = [d \in Dlls |-> "new"]
    /\ saves = [d \in Dlls |-> 0] /\ wanted = [d \in Dlls |-> FALSE]
    /\ page = "closed" /\ toggle = FALSE
    /\ json = [enabled |-> NoKey, extended |-> NoKey]
    /\ changes = 0
    /\ blind = [d \in Dlls |-> FALSE] /\ clash = FALSE
    /\ choice = NoKey /\ contested = FALSE

-----------------------------------------------------------------------------
Whole == file \in Objects

\* The stream of to_file is open.
Writing(d) == pc[d] = "write"

\* Mutant: the page lets others write what it writes.
PageReads == page \in {"loading", "reading"}

\* The page has the file open, and lets nobody write it meanwhile.
PageHolds == page \in {"loading", "reading", "writing"}

\* A call that stores a choice, or the defaults, is under way.
Storing ==
    \/ page \in {"start", "reading", "opening", "writing"}
    \/ \E d \in Dlls : saves[d] > 0 \/ pc[d] \in {"save", "write"}

\* The characters a value takes.
Width(v) == CASE v = NoKey -> 0 [] v = TRUE -> 4 [] v = FALSE -> 5

\* What is written from the beginning over what another has written meanwhile,
\* without truncating it, leaves the end of a longer text.
Over(o) ==
    IF Whole /\ Width(file.enabled) + Width(file.extended) > Width(o.enabled) + Width(o.extended)
      THEN Garbled ELSE o

\* The file changes where these do not see it: after they have read or written
\* it and before they note the time, or at the very time they have noted, or
\* while they give an answer.
Blinded(others) ==
    [d \in Dlls |-> blind[d] \/
        (d \in others /\ (pc[d] \in {"stamp", "saved", "answer"} \/ stamp[d] = now))]

-----------------------------------------------------------------------------
Goes(d, to) == pc' = [pc EXCEPT ![d] = to]

\* GetState, Initialize, QueryContextMenu, InvokeCommand: GetEnabled is called,
\* the first time through the constructor of the instance.
Call(d) ==
    /\ pc[d] \in {"new", "idle"}
    /\ Goes(d, IF pc[d] = "new" THEN "load" ELSE "query")
    /\ UNCHANGED <<policy, fileVars, now, cache, stamp, saves, wanted, pageVars, changes, ghostVars>>

\* set_config: the module's own settings page saves, twice.
SetConfig(d, w) ==
    /\ d \in Modules /\ pc[d] = "idle"
    /\ changes < MaxChanges
    /\ changes' = changes + 1
    /\ Goes(d, "query")
    /\ saves' = [saves EXCEPT ![d] = 2]
    /\ wanted' = [wanted EXCEPT ![d] = w]
    /\ choice' = w
    /\ contested' = Storing
    /\ UNCHANGED <<policy, fileVars, now, cache, stamp, pageVars, blind, clash>>

\* GetEnabled with Reload: a policy decides at once; the file is loaded if it
\* is newer than the time that was noted.
Query(d) ==
    /\ pc[d] = "query"
    /\ Goes(d, IF policy # "none" THEN "forced"
               ELSE IF file # Absent /\ mtime > stamp[d] THEN "load" ELSE "answer")
    /\ UNCHANGED <<policy, fileVars, now, cache, stamp, saves, wanted, pageVars, changes, ghostVars>>

\* Load
Load(d) ==
    /\ pc[d] = "load"
    /\ Goes(d, IF file = Absent THEN "save" ELSE "parse")
    /\ UNCHANGED <<policy, fileVars, now, cache, stamp, saves, wanted, pageVars, changes, ghostVars>>

\* Mutant: the keys are taken as they are found.
ParseAsFound(d) ==
    /\ pc[d] = "parse"
    /\ Goes(d, "stamp")
    /\ cache' = [cache EXCEPT ![d] = IF Whole THEN file ELSE @]
    /\ blind' = [blind EXCEPT ![d] = FALSE]
    /\ UNCHANGED <<policy, fileVars, now, stamp, saves, wanted, pageVars, changes, clash, choice, contested>>

\* Mutant: an object that lacks a key is not taken at all.
ParseComplete(d) ==
    /\ pc[d] = "parse"
    /\ Goes(d, "stamp")
    /\ cache' = [cache EXCEPT ![d] = IF Whole /\ file.enabled # NoKey THEN file ELSE @]
    /\ blind' = [blind EXCEPT ![d] = FALSE]
    /\ UNCHANGED <<policy, fileVars, now, stamp, saves, wanted, pageVars, changes, clash, choice, contested>>

\* ParseJson with from_file: what is not JSON changes nothing.
Parse(d) ==
    LET Take(k) == IF Whole /\ file[k] # NoKey THEN file[k] ELSE cache[d][k]
    IN  /\ pc[d] = "parse"
        /\ Goes(d, "stamp")
        /\ cache' = [cache EXCEPT ![d] = [enabled |-> Take("enabled"), extended |-> Take("extended")]]
        /\ blind' = [blind EXCEPT ![d] = FALSE]
        /\ UNCHANGED <<policy, fileVars, now, stamp, saves, wanted, pageVars, changes, clash, choice, contested>>

\* GetSystemTimeAsFileTime(&lastLoadedTime), and what comes after it: GetEnabled
\* itself after the constructor, the second Save of set_config after the first.
Stamp(d) ==
    /\ pc[d] \in {"stamp", "saved"}
    /\ stamp' = [stamp EXCEPT ![d] = now]
    /\ saves' = [saves EXCEPT ![d] = IF pc[d] = "saved" THEN @ - 1 ELSE @]
    /\ Goes(d, CASE pc[d] = "stamp" -> IF stamp[d] = 0 THEN "query" ELSE "answer"
                 [] pc[d] = "saved" -> IF saves[d] = 2 THEN "query" ELSE "idle")
    /\ UNCHANGED <<policy, fileVars, now, cache, wanted, pageVars, changes, ghostVars>>

\* Mutant: set_config saves what it has just loaded.
AnswerUnset(d) ==
    /\ pc[d] \in {"answer", "forced"}
    /\ Goes(d, IF saves[d] > 0 THEN "save" ELSE "idle")
    /\ UNCHANGED <<policy, fileVars, now, cache, stamp, saves, wanted, pageVars, changes, ghostVars>>

\* GetEnabled returns; set_config sets its choice and saves.
Answer(d) ==
    /\ pc[d] \in {"answer", "forced"}
    /\ IF saves[d] > 0
         THEN /\ Goes(d, "save")
              /\ cache' = [cache EXCEPT ![d].extended = wanted[d]]
         ELSE /\ Goes(d, "idle")
              /\ UNCHANGED cache
    /\ UNCHANGED <<policy, fileVars, now, stamp, saves, wanted, pageVars, changes, ghostVars>>

Saved(d) == IF stamp[d] = 0 THEN "stamp" ELSE "saved"

\* Save: to_file opens the file, which truncates it; when the page has it open
\* that fails, and nobody is told.
SaveOpen(d) ==
    /\ pc[d] = "save"
    /\ IF PageHolds
         THEN /\ Goes(d, Saved(d))
              /\ blind' = [blind EXCEPT ![d] = TRUE]
              /\ contested' = TRUE
              /\ UNCHANGED <<fileVars, clash>>
         ELSE /\ Goes(d, "write")
              /\ file' = Empty /\ mtime' = now
              /\ clash' = \E e \in Dlls \ {d} : Writing(e)
              /\ contested' = (contested \/ saves[d] = 0)
              /\ UNCHANGED blind
    /\ UNCHANGED <<policy, now, cache, stamp, saves, wanted, pageVars, changes, choice>>

\* The end of to_file: the stream is flushed and closed.
SaveWrite(d) ==
    /\ pc[d] = "write"
    /\ Goes(d, Saved(d))
    /\ file' = Over(cache[d]) /\ mtime' = now
    /\ blind' = [Blinded(Dlls \ {d}) EXCEPT ![d] = FALSE]
    /\ UNCHANGED <<policy, now, cache, stamp, saves, wanted, pageVars, changes, clash, choice, contested>>

\* The process ends, and another is started, when the shell is.
Restart(d) ==
    /\ pc[d] # "new"
    /\ changes < MaxChanges
    /\ changes' = changes + 1
    /\ Goes(d, "new")
    /\ cache' = [cache EXCEPT ![d] = Default]
    /\ stamp' = [stamp EXCEPT ![d] = 0]
    /\ saves' = [saves EXCEPT ![d] = 0]
    /\ wanted' = [wanted EXCEPT ![d] = FALSE]
    /\ blind' = [blind EXCEPT ![d] = FALSE]
    /\ clash' = (clash \/ Writing(d))
    /\ contested' = (contested \/ saves[d] > 0 \/ pc[d] \in {"save", "write"})
    /\ UNCHANGED <<policy, fileVars, now, pageVars, choice>>

-----------------------------------------------------------------------------
\* InitializeAsync, on a page that has just been opened: File.ReadAllText opens
\* the file, and fails when a DLL has it open for writing.
PageLoad ==
    /\ page \in {"closed", "idle", "threw"}
    /\ IF file = Absent \/ \E d \in Dlls : Writing(d)
         THEN page' = "loaded" /\ toggle' = FALSE
         ELSE page' = "loading" /\ UNCHANGED toggle
    /\ UNCHANGED <<policy, fileVars, now, dllVars, json, changes, ghostVars>>

PageShow ==
    /\ page = "loading"
    /\ toggle' = (Whole /\ file.extended = TRUE)
    /\ page' = "loaded"
    /\ UNCHANGED <<policy, fileVars, now, dllVars, json, changes, ghostVars>>

\* SetContextMenuRegistrationAsync: busy as long as the script runs.
PageRegister ==
    /\ page = "idle"
    /\ page' = "registering"
    /\ UNCHANGED <<policy, fileVars, now, dllVars, toggle, json, changes, ghostVars>>

\* The await at the end of either.
PageFree ==
    /\ page \in {"loaded", "registering"}
    /\ page' = "idle"
    /\ UNCHANGED <<policy, fileVars, now, dllVars, toggle, json, changes, ghostVars>>

\* The user flips the switch.  While the page is busy that is shown, and nothing
\* else comes of it.
Flip ==
    /\ page \notin {"closed", "loading"}
    /\ changes < MaxChanges
    /\ changes' = changes + 1
    /\ toggle' = ~toggle
    /\ choice' = toggle'
    /\ IF page = "idle"
         THEN page' = "start" /\ contested' = Storing
         ELSE contested' = TRUE /\ UNCHANGED page
    /\ UNCHANGED <<policy, fileVars, now, dllVars, json, blind, clash>>

\* SaveExtendedMenuSetting begins, on another thread, with what is shown then.
PageStart ==
    /\ page = "start"
    /\ json' = [enabled |-> NoKey, extended |-> toggle]
    /\ \/ /\ file = Absent
          /\ page' = "opening"
          /\ UNCHANGED contested
       \/ /\ file # Absent /\ ~\E d \in Dlls : Writing(d)
          /\ page' = "reading"
          /\ UNCHANGED contested
       \/ /\ \E d \in Dlls : Writing(d)
          /\ page' = "threw" /\ contested' = TRUE
    /\ UNCHANGED <<policy, fileVars, now, dllVars, toggle, changes, blind, clash, choice>>

\* JsonNode.Parse: all of the object, of which only the choice is replaced.
PageRead ==
    /\ page = "reading"
    /\ IF Whole
         THEN /\ json' = [json EXCEPT !.enabled = file.enabled]
              /\ page' = "opening"
              /\ UNCHANGED contested
         ELSE page' = "threw" /\ contested' = TRUE /\ UNCHANGED json
    /\ UNCHANGED <<policy, fileVars, now, dllVars, toggle, changes, blind, clash, choice>>

\* File.WriteAllText
PageOpen ==
    /\ page = "opening"
    /\ IF \E d \in Dlls : Writing(d)
         THEN page' = "threw" /\ contested' = TRUE /\ UNCHANGED <<fileVars, clash>>
         ELSE /\ page' = "writing"
              /\ file' = Empty /\ mtime' = now
              /\ clash' = FALSE
              /\ UNCHANGED contested
    /\ UNCHANGED <<policy, now, dllVars, toggle, json, changes, blind, choice>>

PageWrite ==
    /\ page = "writing"
    /\ page' = "idle"
    /\ file' = Over(json) /\ mtime' = now
    /\ blind' = Blinded(Dlls)
    /\ UNCHANGED <<policy, now, dllVars, toggle, json, changes, clash, choice, contested>>

\* The window is closed, whatever it is doing.
PageClose ==
    /\ page # "closed"
    /\ changes < MaxChanges
    /\ changes' = changes + 1
    /\ page' = "closed"
    /\ clash' = (clash \/ page = "writing")
    /\ contested' = (contested \/ page \in {"start", "reading", "opening", "writing"})
    /\ UNCHANGED <<policy, fileVars, now, dllVars, toggle, json, blind, choice>>

-----------------------------------------------------------------------------
Tick ==
    /\ now < MaxTime
    /\ now' = now + 1
    /\ UNCHANGED <<policy, fileVars, dllVars, pageVars, changes, ghostVars>>

\* The user edits the file, or an administrator sets the policy.
Edit(v) ==
    /\ Whole /\ ~PageHolds /\ ~\E d \in Dlls : Writing(d)
    /\ changes < MaxChanges
    /\ changes' = changes + 1
    /\ file' = [file EXCEPT !.enabled = v] /\ mtime' = now
    /\ blind' = Blinded(Dlls)
    /\ UNCHANGED <<policy, now, dllVars, pageVars, clash, choice, contested>>

SetPolicy(p) ==
    /\ policy # p
    /\ changes < MaxChanges
    /\ changes' = changes + 1
    /\ policy' = p
    /\ UNCHANGED <<fileVars, now, dllVars, pageVars, ghostVars>>

DllNext(d) ==
    \/ Call(d) \/ Query(d) \/ Load(d) \/ Parse(d) \/ Stamp(d)
    \/ Answer(d) \/ SaveOpen(d) \/ SaveWrite(d) \/ Restart(d)
    \/ \E w \in BOOLEAN : SetConfig(d, w)

PageNext ==
    \/ PageLoad \/ PageShow \/ PageRegister \/ PageFree \/ Flip
    \/ PageStart \/ PageRead \/ PageOpen \/ PageWrite \/ PageClose

SettingsNext ==
    \/ \E d \in Dlls : DllNext(d)
    \/ PageNext
    \/ Tick
    \/ \E v \in BOOLEAN : Edit(v)
    \/ \E p \in {"none", "on", "off"} : SetPolicy(p)

SettingsSpec == SettingsInit /\ [][SettingsNext]_vars

-----------------------------------------------------------------------------
\* GetEnabled answers with what is in the file, and the cache has it, whoever
\* wrote it and whenever, except where a policy is set (GetEnabled returns before
\* Reload then, and both settings stay as they were read last), where the time
\* that is noted covers the change (Blinded), and where a Save failed because the
\* page had the file open.
ChangesSeen ==
    \A d \in Dlls : (pc[d] = "answer" /\ Whole /\ ~blind[d]) =>
        \A k \in {"enabled", "extended"} : file[k] \in {NoKey, cache[d][k]}

\* When nobody is writing the file can be read, although nobody locks it: it
\* takes two DLLs that save at the same time, or one that ends, to spoil it.
FileWhole ==
    (page # "writing" /\ ~clash /\ ~\E d \in Dlls : Writing(d)) =>
        Whole \/ file = Absent

\* The last choice of the user, on the page or by set_config, is in the file
\* once it is stored, unless something else was being stored at the time, the
\* page was busy, or what stored it failed or ended.
ChoiceKept ==
    (choice # NoKey /\ ~contested /\ ~Storing) =>
        Whole /\ file.extended = choice
=============================================================================
