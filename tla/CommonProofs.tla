---------------------------- MODULE CommonProofs ----------------------------
(***************************************************************************)
(* What the programs and the shell extensions have in common.  First the   *)
(* settings, for any number of DLLs, edits, restarts and saves at the same *)
(* time: what GetEnabled answers, when the file can be read, and what      *)
(* becomes of a choice.  Then the event trace, for any number of sessions: *)
(* who may touch the session when.  The caller alone writes it, and while  *)
(* it takes it away or makes it the thread is either not there or about to *)
(* notice.                                                                 *)
(***************************************************************************)
EXTENDS Settings, EtwTrace, TLAPS

\* Where a DLL may be before it has noted a time, and with a Save still to do.
CallInv ==
    \A d \in Dlls :
        /\ pc[d] \in {"idle", "query", "answer", "forced", "saved"} => stamp[d] # 0
        /\ pc[d] = "new" => stamp[d] = 0
        /\ saves[d] > 0 => stamp[d] # 0
        /\ pc[d] \in {"new", "idle"} => saves[d] = 0
        /\ pc[d] = "saved" => saves[d] > 0
        /\ pc[d] \in {"save", "write"} /\ stamp[d] # 0 => saves[d] > 0
        /\ pc[d] = "load" /\ stamp[d] # 0 => file # Absent

\* The page does not share the file with one that writes.
HoldInv == PageHolds => \A d \in Dlls : ~Writing(d)

\* Who writes alone has the file as it was truncated.
AloneInv ==
    ~clash => /\ page = "writing" => file = Empty
              /\ \A d \in Dlls : Writing(d) => file = Empty
              /\ \A d, e \in Dlls : Writing(d) /\ Writing(e) => d = e

Agrees(d) == \A k \in {"enabled", "extended"} : file[k] \in {NoKey, cache[d][k]}

\* A cache that does not agree with the file is known to be old.
Fresh(d) ==
    (Whole /\ ~blind[d]) =>
        /\ pc[d] \in {"stamp", "saved", "answer"} => Agrees(d)
        /\ pc[d] \in {"idle", "query", "forced"} => Agrees(d) \/ mtime > stamp[d]

FreshInv == \A d \in Dlls : Fresh(d)

PageStores == page \in {"start", "reading", "opening", "writing"}

\* A choice that nothing contests is on its way with one who stores it, or is in
\* the file.
OnItsWay ==
    /\ page = "start" => toggle = choice
    /\ page \in {"reading", "opening", "writing"} => json.extended = choice
    /\ \A d \in Dlls : saves[d] > 0 => wanted[d] = choice
    /\ \A d \in Dlls : pc[d] \in {"save", "write"} /\ saves[d] > 0 => cache[d].extended = choice

OneStores ==
    /\ PageStores => \A d \in Dlls : saves[d] = 0
    /\ \A d, e \in Dlls : saves[d] > 0 /\ saves[e] > 0 => d = e
    /\ page = "writing" => file = Empty
    /\ \A d \in Dlls : Writing(d) => saves[d] > 0 /\ file = Empty

Arrived == Whole /\ file.extended = choice

ChoiceInv ==
    (choice # NoKey /\ ~contested) =>
        /\ OnItsWay /\ OneStores
        /\ \A d \in Dlls : pc[d] = "saved" => Arrived
        /\ (~PageStores /\ \A d \in Dlls : saves[d] = 0) => Arrived

SettingsInv ==
    /\ SettingsTypesOK /\ CallInv
    /\ HoldInv /\ AloneInv /\ FileWhole
    /\ FreshInv
    /\ ChoiceInv

\* What a write from the beginning leaves in the file.
LEMMA OverFacts ==
    ASSUME NEW o \in Objects
    PROVE  /\ Over(o) \in {o, Garbled}
           /\ ~Whole => Over(o) = o
  BY DEF Over

\* Who is not blinded by a change has noted another time, and is not about to note one.
LEMMA BlindedFacts ==
    ASSUME SettingsTypesOK, NEW others
    PROVE  /\ Blinded(others) \in [Dlls -> BOOLEAN]
           /\ \A d \in Dlls : ~Blinded(others)[d] =>
                 ~blind[d] /\ (d \in others => stamp[d] # now /\ pc[d] \notin {"stamp", "saved", "answer"})
  BY DEF SettingsTypesOK, Blinded

\* The settings are among the objects the file can hold.
LEMMA SettingsAreObjects == Settings \subseteq Objects
  BY DEF Settings, Objects, Value

-----------------------------------------------------------------------------
(* What an action of a DLL and of the others does to the types.             *)

\* A DLL keeps the types.
LEMMA DllTypes ==
    ASSUME SettingsTypesOK, CallInv, NEW d \in Dlls, DllNext(d)
    PROVE  SettingsTypesOK'
<1> USE DEF SettingsTypesOK, Goes, fileVars, pageVars, ghostVars
<1>1. ASSUME Call(d) \/ Query(d) \/ Load(d) PROVE SettingsTypesOK'
  BY <1>1 DEF Call, Query, Load, Calls
<1>2. ASSUME Parse(d) PROVE SettingsTypesOK'
  <2>1. cache' \in [Dlls -> Settings]
    BY <1>2 DEF Parse, Whole, Settings, Objects, Value
  <2>2. pc' \in [Dlls -> Calls] /\ blind' \in [Dlls -> BOOLEAN]
    BY <1>2 DEF Parse, Calls
  <2> QED
    BY <1>2, <2>1, <2>2 DEF Parse
<1>3. ASSUME Stamp(d) PROVE SettingsTypesOK'
  <2>1. pc[d] = "saved" => saves[d] \in 1..2
    BY DEF CallInv
  <2>2. saves' \in [Dlls -> 0..2]
    BY <1>3, <2>1 DEF Stamp
  <2>3. pc' \in [Dlls -> Calls] /\ stamp' \in [Dlls -> 0..now]
    BY <1>3 DEF Stamp, Calls
  <2> QED
    BY <1>3, <2>2, <2>3 DEF Stamp
<1>4. ASSUME Answer(d) PROVE SettingsTypesOK'
  <2>1. cache' \in [Dlls -> Settings] /\ pc' \in [Dlls -> Calls]
    BY <1>4 DEF Answer, Settings, Calls
  <2> QED
    BY <1>4, <2>1 DEF Answer
<1>5. ASSUME SaveOpen(d) PROVE SettingsTypesOK'
  <2>1. /\ pc' \in [Dlls -> Calls] /\ blind' \in [Dlls -> BOOLEAN]
        /\ file' \in {file, Empty} /\ mtime' \in {mtime, now}
    BY <1>5 DEF SaveOpen, Saved, Calls
  <2>2. clash' \in BOOLEAN /\ contested' \in BOOLEAN
    BY <1>5 DEF SaveOpen
  <2> QED
    BY <1>5, <2>1, <2>2 DEF SaveOpen
<1>6. ASSUME SaveWrite(d) PROVE SettingsTypesOK'
  <2>1. file' \in Objects \cup {Garbled}
    BY <1>6, OverFacts, SettingsAreObjects DEF SaveWrite
  <2>2. blind' \in [Dlls -> BOOLEAN]
    BY <1>6, BlindedFacts DEF SaveWrite
  <2>3. pc' \in [Dlls -> Calls]
    BY <1>6 DEF SaveWrite, Saved, Calls
  <2>4. /\ mtime' = now
        /\ UNCHANGED <<policy, now, cache, stamp, saves, wanted, pageVars, changes, clash, choice, contested>>
    BY <1>6 DEF SaveWrite
  <2> QED
    BY <2>1, <2>2, <2>3, <2>4
<1>7. ASSUME Restart(d) PROVE SettingsTypesOK'
  <2>1. Default \in Settings
    BY DEF Default, Settings
  <2>2. clash' \in BOOLEAN /\ contested' \in BOOLEAN
    BY <1>7 DEF Restart
  <2>3. changes' \in 0..MaxChanges
    BY <1>7, SettingsAssumption DEF Restart
  <2> QED
    BY <1>7, <2>1, <2>2, <2>3 DEF Restart, Calls
<1>8. ASSUME NEW w \in BOOLEAN, SetConfig(d, w) PROVE SettingsTypesOK'
  <2>1. contested' \in BOOLEAN
    BY <1>8 DEF SetConfig, Storing
  <2>2. changes' \in 0..MaxChanges
    BY <1>8, SettingsAssumption DEF SetConfig
  <2> QED
    BY <1>8, <2>1, <2>2 DEF SetConfig, Calls, Value
<1> QED
  BY <1>1, <1>2, <1>3, <1>4, <1>5, <1>6, <1>7, <1>8 DEF DllNext

\* The page keeps the types.
LEMMA PageTypes ==
    ASSUME SettingsTypesOK, PageNext
    PROVE  SettingsTypesOK'
<1> USE DEF SettingsTypesOK, PageStates, dllVars, fileVars, ghostVars
<1>1. ASSUME PageLoad \/ PageRegister \/ PageFree PROVE SettingsTypesOK'
  BY <1>1 DEF PageLoad, PageRegister, PageFree
<1>2. ASSUME PageShow PROVE SettingsTypesOK'
  BY <1>2 DEF PageShow
<1>3. ASSUME Flip PROVE SettingsTypesOK'
  <2>1. contested' \in BOOLEAN /\ page' \in PageStates
    BY <1>3 DEF Flip, Storing
  <2>2. changes' \in 0..MaxChanges
    BY <1>3, SettingsAssumption DEF Flip
  <2> QED
    BY <1>3, <2>1, <2>2 DEF Flip, Value
<1>4. ASSUME PageStart PROVE SettingsTypesOK'
  <2>1. json' \in Objects
    BY <1>4 DEF PageStart, Objects, Value
  <2> QED
    BY <1>4, <2>1 DEF PageStart
<1>5. ASSUME PageRead PROVE SettingsTypesOK'
  <2>1. json' \in Objects
    BY <1>5 DEF PageRead, Whole, Objects
  <2> QED
    BY <1>5, <2>1 DEF PageRead
<1>6. ASSUME PageOpen PROVE SettingsTypesOK'
  <2>1. /\ page' \in PageStates /\ file' \in {file, Empty} /\ mtime' \in {mtime, now}
        /\ clash' \in BOOLEAN /\ contested' \in BOOLEAN
    BY <1>6 DEF PageOpen
  <2>2. UNCHANGED <<policy, now, dllVars, toggle, json, changes, blind, choice>>
    BY <1>6 DEF PageOpen
  <2> QED
    BY <2>1, <2>2
<1>7. ASSUME PageWrite PROVE SettingsTypesOK'
  <2>1. file' \in Objects \cup {Garbled}
    BY <1>7, OverFacts DEF PageWrite
  <2>2. blind' \in [Dlls -> BOOLEAN]
    BY <1>7, BlindedFacts DEF PageWrite
  <2> QED
    BY <1>7, <2>1, <2>2 DEF PageWrite
<1>8. ASSUME PageClose PROVE SettingsTypesOK'
  <2>1. clash' \in BOOLEAN /\ contested' \in BOOLEAN
    BY <1>8 DEF PageClose
  <2>2. changes' \in 0..MaxChanges
    BY <1>8, SettingsAssumption DEF PageClose
  <2> QED
    BY <1>8, <2>1, <2>2 DEF PageClose
<1> QED
  BY <1>1, <1>2, <1>3, <1>4, <1>5, <1>6, <1>7, <1>8 DEF PageNext

\* The clock, the hand of the user and the policy keep the types.
LEMMA WorldTypes ==
    ASSUME SettingsTypesOK,
           Tick \/ (\E v \in BOOLEAN : Edit(v)) \/ \E p \in {"none", "on", "off"} : SetPolicy(p)
    PROVE  SettingsTypesOK'
<1> USE DEF SettingsTypesOK, dllVars, fileVars, pageVars, ghostVars
<1>1. ASSUME Tick PROVE SettingsTypesOK'
  BY <1>1, SettingsAssumption DEF Tick
<1>2. ASSUME NEW v \in BOOLEAN, Edit(v) PROVE SettingsTypesOK'
  <2>1. file' \in Objects
    BY <1>2 DEF Edit, Whole, Objects, Value
  <2>2. blind' \in [Dlls -> BOOLEAN]
    BY <1>2, BlindedFacts DEF Edit
  <2>3. changes' \in 0..MaxChanges
    BY <1>2, SettingsAssumption DEF Edit
  <2> QED
    BY <1>2, <2>1, <2>2, <2>3 DEF Edit
<1>3. ASSUME NEW p \in {"none", "on", "off"}, SetPolicy(p) PROVE SettingsTypesOK'
  <2>1. changes' \in 0..MaxChanges
    BY <1>3, SettingsAssumption DEF SetPolicy
  <2> QED
    BY <1>3, <2>1 DEF SetPolicy
<1> QED
  BY <1>1, <1>2, <1>3

\* Every step keeps the types.
LEMMA TypesKept == SettingsInv /\ SettingsNext => SettingsTypesOK'
  BY DllTypes, PageTypes, WorldTypes DEF SettingsInv, SettingsNext

-----------------------------------------------------------------------------
(* The calls, and who has the file open.                                    *)

\* A time that has been noted is not 0, and the file does not go again.
LEMMA CallKept == SettingsInv /\ SettingsNext => CallInv'
<1> SUFFICES ASSUME SettingsInv, SettingsNext PROVE CallInv'
  OBVIOUS
<1>0. /\ pc \in [Dlls -> Calls] /\ stamp \in [Dlls -> 0..now] /\ saves \in [Dlls -> 0..2]
      /\ now \in 1..MaxTime /\ CallInv
      /\ file \in Objects \cup {Absent, Empty, Garbled} /\ \A d \in Dlls : cache[d] \in Objects
      /\ json \in Objects
  BY SettingsAreObjects DEF SettingsInv, SettingsTypesOK
<1> USE SettingsAssumption, FileAssumption DEF CallInv
<1>1. file' = Absent => file = Absent
  <2> HIDE DEF CallInv
  <2>1. \A d \in Dlls : Over(cache[d]) # Absent
    BY <1>0, OverFacts
  <2>2. Over(json) # Absent
    BY <1>0, OverFacts
  <2>3. ASSUME NEW d \in Dlls, DllNext(d) PROVE file' \in {file, Empty, Over(cache[d])}
    BY <2>3 DEF DllNext, Call, SetConfig, Query, Load, Parse, Stamp, Answer, SaveOpen, SaveWrite,
       Restart, fileVars
  <2>4. ASSUME PageNext PROVE file' \in {file, Empty, Over(json)}
    BY <2>4 DEF PageNext, PageLoad, PageShow, PageRegister, PageFree, Flip, PageStart, PageRead,
       PageOpen, PageWrite, PageClose, fileVars
  <2>5. ASSUME NEW v \in BOOLEAN, Edit(v) PROVE file' \in Objects
    BY <2>5 DEF Edit, Whole, Objects, Value
  <2>6. ASSUME Tick \/ \E p \in {"none", "on", "off"} : SetPolicy(p) PROVE file' = file
    BY <2>6 DEF Tick, SetPolicy, fileVars
  <2> QED
    BY <2>1, <2>2, <2>3, <2>4, <2>5, <2>6 DEF SettingsNext
<1>2. ASSUME UNCHANGED <<pc, stamp, saves>> PROVE CallInv'
  BY <1>0, <1>1, <1>2
<1>3. ASSUME NEW d \in Dlls, Call(d) \/ Query(d) PROVE CallInv'
  BY <1>0, <1>1, <1>3 DEF Call, Query, Goes
<1>4. ASSUME NEW d \in Dlls, Load(d) \/ Parse(d) PROVE CallInv'
  BY <1>0, <1>1, <1>4 DEF Load, Parse, Goes
<1>5. ASSUME NEW d \in Dlls, Stamp(d) PROVE CallInv'
  BY <1>0, <1>1, <1>5 DEF Stamp, Goes
<1>6. ASSUME NEW d \in Dlls, Answer(d) PROVE CallInv'
  BY <1>0, <1>1, <1>6 DEF Answer, Goes
<1>7. ASSUME NEW d \in Dlls, SaveOpen(d) \/ SaveWrite(d) PROVE CallInv'
  BY <1>0, <1>1, <1>7 DEF SaveOpen, SaveWrite, Goes, Saved
<1>8. ASSUME NEW d \in Dlls, Restart(d) PROVE CallInv'
  BY <1>0, <1>1, <1>8 DEF Restart, Goes
<1>9. ASSUME NEW d \in Dlls, NEW w \in BOOLEAN, SetConfig(d, w) PROVE CallInv'
  BY <1>0, <1>1, <1>9 DEF SetConfig, Goes
<1>10. ASSUME PageNext \/ Tick \/ (\E v \in BOOLEAN : Edit(v)) \/ (\E p \in {"none", "on", "off"} : SetPolicy(p))
       PROVE  UNCHANGED <<pc, stamp, saves>>
  BY <1>10 DEF PageNext, PageLoad, PageShow, PageRegister, PageFree, Flip, PageStart, PageRead,
     PageOpen, PageWrite, PageClose, Tick, Edit, SetPolicy, dllVars
<1> QED
  BY <1>2, <1>3, <1>4, <1>5, <1>6, <1>7, <1>8, <1>9, <1>10 DEF SettingsNext, DllNext

FileInv == HoldInv /\ AloneInv /\ FileWhole

\* Steps in which nobody opens, writes or closes the file.
Bystands == UNCHANGED <<file, clash>> /\ (PageHolds' => PageHolds) /\ (page' = "writing" <=> page = "writing")
            /\ \A d \in Dlls : Writing(d)' <=> Writing(d)

\* One that writes alone finds the file empty, so that what it writes is whole.
LEMMA FileKept == SettingsInv /\ SettingsNext => FileInv'
<1> SUFFICES ASSUME SettingsInv, SettingsNext PROVE FileInv'
  OBVIOUS
<1>0. /\ pc \in [Dlls -> Calls] /\ \A d \in Dlls : cache[d] \in Objects
      /\ json \in Objects /\ FileInv
  BY SettingsAreObjects DEF SettingsInv, SettingsTypesOK, FileInv
<1> USE FileAssumption DEF FileInv, HoldInv, AloneInv, FileWhole, Whole
<1>1. ASSUME Bystands PROVE FileInv'
  BY <1>0, <1>1 DEF Bystands, PageHolds
<1>2. ASSUME NEW d \in Dlls, Call(d) \/ Query(d) \/ Load(d) \/ Parse(d) \/ Stamp(d) \/ Answer(d)
      PROVE  Bystands
  BY <1>0, <1>2 DEF Bystands, Call, Query, Load, Parse, Stamp, Answer, Goes, Writing, PageHolds,
     pageVars, fileVars, ghostVars
<1>3. ASSUME NEW d \in Dlls, NEW w \in BOOLEAN, SetConfig(d, w) PROVE Bystands
  BY <1>0, <1>3 DEF Bystands, SetConfig, Goes, Writing, PageHolds, pageVars, fileVars
<1>4. ASSUME PageRegister \/ PageFree \/ Flip \/ Tick \/ (\E p \in {"none", "on", "off"} : SetPolicy(p))
      PROVE  Bystands
  BY <1>4 DEF Bystands, PageRegister, PageFree, Flip, Tick, SetPolicy, Writing, PageHolds, pageVars,
     dllVars, fileVars, ghostVars
<1>5. ASSUME NEW d \in Dlls, SaveOpen(d) PROVE FileInv'
  <2>1. CASE PageHolds
    BY <1>0, <1>5, <2>1 DEF SaveOpen, Goes, Saved, Writing, PageHolds, pageVars, fileVars
  <2>2. CASE ~PageHolds
    <3>1. /\ file' = Empty /\ clash' = \E e \in Dlls \ {d} : Writing(e)
          /\ UNCHANGED page /\ pc' = [pc EXCEPT ![d] = "write"]
      BY <1>5, <2>2 DEF SaveOpen, Goes, pageVars
    <3>2. \A e \in Dlls : Writing(e)' <=> (e = d \/ Writing(e))
      BY <1>0, <3>1 DEF Writing
    <3> QED
      BY <1>0, <2>2, <3>1, <3>2 DEF PageHolds
  <2> QED
    BY <2>1, <2>2
<1>6. ASSUME NEW d \in Dlls, SaveWrite(d) PROVE FileInv'
  <2>1. /\ Writing(d) /\ UNCHANGED <<page, clash>>
        /\ \A e \in Dlls : Writing(e)' <=> (e # d /\ Writing(e))
    BY <1>0, <1>6 DEF SaveWrite, Goes, Saved, Writing, pageVars
  <2>2. ~clash => file' = cache[d]
    BY <1>0, <1>6, <2>1, OverFacts DEF SaveWrite
  <2> QED
    BY <1>0, <2>1, <2>2 DEF PageHolds
<1>7. ASSUME NEW d \in Dlls, Restart(d) PROVE FileInv'
  <2>1. /\ UNCHANGED <<file, page>> /\ clash' = (clash \/ Writing(d))
        /\ \A e \in Dlls : Writing(e)' <=> (e # d /\ Writing(e))
    BY <1>0, <1>7 DEF Restart, Goes, Writing, pageVars, fileVars
  <2> QED
    BY <1>0, <2>1 DEF PageHolds
<1>8. ASSUME PageLoad \/ PageShow \/ PageStart \/ PageRead PROVE FileInv'
  <2>1. /\ UNCHANGED <<file, clash, pc>> /\ page # "writing" /\ page' # "writing"
        /\ PageHolds' => PageHolds \/ \A d \in Dlls : ~Writing(d)
    BY <1>8 DEF PageLoad, PageShow, PageStart, PageRead, PageHolds, dllVars, fileVars, ghostVars
  <2> QED
    BY <1>0, <2>1 DEF Writing
<1>9. ASSUME PageOpen PROVE FileInv'
  <2>1. CASE \E d \in Dlls : Writing(d)
    BY <1>0, <1>9, <2>1 DEF PageOpen, Writing, PageHolds, dllVars, fileVars
  <2>2. CASE ~\E d \in Dlls : Writing(d)
    BY <1>0, <1>9, <2>2 DEF PageOpen, Writing, PageHolds, dllVars
  <2> QED
    BY <2>1, <2>2
<1>10. ASSUME PageWrite PROVE FileInv'
  <2>1. ~clash => file' = json
    BY <1>0, <1>10, OverFacts DEF PageWrite
  <2> QED
    BY <1>0, <1>10, <2>1 DEF PageWrite, Writing, PageHolds, dllVars
<1>11. ASSUME PageClose PROVE FileInv'
  BY <1>0, <1>11 DEF PageClose, Writing, PageHolds, dllVars, fileVars
<1>12. ASSUME NEW v \in BOOLEAN, Edit(v) PROVE FileInv'
  <2>1. file' \in Objects
    BY <1>12 DEF Edit, Objects, Value
  <2> QED
    BY <1>0, <1>12, <2>1 DEF Edit, Writing, PageHolds, dllVars, pageVars
<1> QED
  BY <1>1, <1>2, <1>3, <1>4, <1>5, <1>6, <1>7, <1>8, <1>9, <1>10, <1>11, <1>12
     DEF SettingsNext, DllNext, PageNext

-----------------------------------------------------------------------------
(* The caches.                                                              *)

\* A step that leaves the file, or what a DLL knows of it, alone.
LEMMA FreshUntouched ==
    ASSUME NEW d \in Dlls, Fresh(d), UNCHANGED <<file, mtime, cache[d], stamp[d], pc[d]>>,
           blind[d] => blind'[d]
    PROVE  Fresh(d)'
  BY DEF Fresh, Agrees, Whole

\* Another writes the file: either the time shows it, or the DLL is blind to it.
LEMMA FreshWritten ==
    ASSUME SettingsTypesOK, NEW d \in Dlls, mtime' = now, UNCHANGED <<stamp[d], pc[d]>>,
           ~blind'[d] => stamp[d] # now /\ pc[d] \notin {"stamp", "saved", "answer"}
    PROVE  Fresh(d)'
<1>1. stamp[d] \in 0..now /\ now \in 1..MaxTime
  BY DEF SettingsTypesOK
<1> QED
  BY <1>1, SettingsAssumption DEF Fresh

\* A file that cannot be read makes nobody stale.
LEMMA FreshUnreadable ==
    ASSUME NEW d \in Dlls, file' \notin Objects
    PROVE  Fresh(d)'
  BY DEF Fresh, Whole

\* What a DLL does itself.
LEMMA FreshOwn ==
    ASSUME SettingsInv, NEW d \in Dlls, DllNext(d)
    PROVE  Fresh(d)'
<1>0. /\ pc \in [Dlls -> Calls] /\ stamp \in [Dlls -> 0..now] /\ blind \in [Dlls -> BOOLEAN]
      /\ cache \in [Dlls -> Settings] /\ Fresh(d) /\ CallInv
      /\ mtime \in 0..now /\ now \in 1..MaxTime /\ MaxTime \in Nat
  BY SettingsAssumption DEF SettingsInv, SettingsTypesOK, FreshInv
<1> USE FileAssumption
<1>1. ASSUME Call(d) PROVE Fresh(d)'
  BY <1>0, <1>1 DEF Call, Goes, Fresh, Agrees, Whole, fileVars, ghostVars
<1>2. ASSUME NEW w \in BOOLEAN, SetConfig(d, w) PROVE Fresh(d)'
  BY <1>0, <1>2 DEF SetConfig, Goes, Fresh, Agrees, Whole, fileVars
<1>3. ASSUME Query(d) PROVE Fresh(d)'
  <2>1. pc'[d] = "answer" => file = Absent \/ ~(mtime > stamp[d])
    BY <1>0, <1>3 DEF Query, Goes
  <2>2. pc'[d] \in {"forced", "load", "answer"} /\ pc[d] = "query"
    BY <1>0, <1>3 DEF Query, Goes
  <2> QED
    BY <1>0, <1>3, <2>1, <2>2 DEF Query, Fresh, Agrees, Whole, fileVars, ghostVars
<1>4. ASSUME Load(d) PROVE Fresh(d)'
  BY <1>0, <1>4 DEF Load, Goes, Fresh
<1>5. ASSUME Parse(d) PROVE Fresh(d)'
  <2>1. pc'[d] = "stamp" /\ UNCHANGED file
    BY <1>0, <1>5 DEF Parse, Goes, fileVars
  <2>2. Whole => Agrees(d)'
    BY <1>0, <1>5, <2>1 DEF Parse, Agrees
  <2> QED
    BY <2>1, <2>2 DEF Fresh, Whole
<1>6. ASSUME Stamp(d) PROVE Fresh(d)'
  BY <1>0, <1>6 DEF Stamp, Goes, Fresh, Agrees, Whole, fileVars, ghostVars
<1>7. ASSUME Answer(d) PROVE Fresh(d)'
  BY <1>0, <1>7 DEF Answer, Goes, Fresh, Agrees, Whole, fileVars, ghostVars
<1>8. ASSUME SaveOpen(d) PROVE Fresh(d)'
  <2>1. blind'[d] \/ file' = Empty
    BY <1>0, <1>8 DEF SaveOpen
  <2> QED
    BY <2>1 DEF Fresh, Whole
<1>9. ASSUME SaveWrite(d) PROVE Fresh(d)'
  <2>1. file' \in {cache[d], Garbled} /\ cache' = cache /\ pc'[d] \in {"stamp", "saved"}
    BY <1>0, <1>9, SettingsAreObjects, OverFacts DEF SaveWrite, Goes, Saved
  <2> QED
    BY <2>1 DEF Fresh, Agrees, Whole
<1>10. ASSUME Restart(d) PROVE Fresh(d)'
  BY <1>0, <1>10 DEF Restart, Goes, Fresh
<1> QED
  BY <1>1, <1>2, <1>3, <1>4, <1>5, <1>6, <1>7, <1>8, <1>9, <1>10 DEF DllNext

\* Every step leaves each DLL fresh or blinded.
LEMMA FreshKept == SettingsInv /\ SettingsNext => FreshInv'
<1> SUFFICES ASSUME SettingsInv, SettingsNext, NEW d \in Dlls PROVE Fresh(d)'
  BY DEF FreshInv
<1>0. /\ pc \in [Dlls -> Calls] /\ stamp \in [Dlls -> 0..now] /\ blind \in [Dlls -> BOOLEAN]
      /\ cache \in [Dlls -> Settings] /\ saves \in [Dlls -> 0..2] /\ wanted \in [Dlls -> BOOLEAN]
      /\ SettingsTypesOK /\ Fresh(d)
  BY DEF SettingsInv, SettingsTypesOK, FreshInv
<1>1. ASSUME NEW e \in Dlls, e # d, DllNext(e) PROVE Fresh(d)'
  <2>1. UNCHANGED <<cache[d], stamp[d], pc[d]>>
    BY <1>0, <1>1 DEF DllNext, Call, SetConfig, Query, Load, Parse, Stamp, Answer, SaveOpen, SaveWrite,
       Restart, Goes
  <2>2. CASE SaveWrite(e)
    <3>1. ~blind'[d] => stamp[d] # now /\ pc[d] \notin {"stamp", "saved", "answer"}
      BY <1>0, <1>1, <2>2, BlindedFacts DEF SaveWrite
    <3> QED
      BY <1>0, <2>1, <2>2, <3>1, FreshWritten DEF SaveWrite
  <2>3. CASE SaveOpen(e)
    <3>1. file' = Empty \/ (UNCHANGED fileVars /\ blind'[d] = blind[d])
      BY <1>0, <1>1, <2>3 DEF SaveOpen
    <3> QED
      BY <1>0, <2>1, <3>1, FreshUnreadable, FreshUntouched, FileAssumption DEF fileVars
  <2>4. CASE ~SaveWrite(e) /\ ~SaveOpen(e)
    <3>1. UNCHANGED fileVars /\ blind'[d] = blind[d]
      BY <1>0, <1>1, <2>4 DEF DllNext, Call, SetConfig, Query, Load, Parse, Stamp, Answer, Restart, ghostVars
    <3> QED
      BY <1>0, <2>1, <3>1, FreshUntouched DEF fileVars
  <2> QED
    BY <2>2, <2>3, <2>4
<1>2. ASSUME PageNext \/ Tick \/ \E p \in {"none", "on", "off"} : SetPolicy(p) PROVE Fresh(d)'
  <2>1. UNCHANGED dllVars
    BY <1>2 DEF PageNext, PageLoad, PageShow, PageRegister, PageFree, Flip, PageStart, PageRead,
       PageOpen, PageWrite, PageClose, Tick, SetPolicy
  <2>2. CASE PageWrite
    <3>1. ~blind'[d] => stamp[d] # now /\ pc[d] \notin {"stamp", "saved", "answer"}
      BY <1>0, <2>2, BlindedFacts DEF PageWrite
    <3> QED
      BY <1>0, <2>1, <2>2, <3>1, FreshWritten DEF PageWrite, dllVars
  <2>3. CASE ~PageWrite
    <3>1. UNCHANGED blind /\ (file' = Empty \/ UNCHANGED fileVars)
      BY <1>2, <2>3 DEF PageNext, PageLoad, PageShow, PageRegister, PageFree, Flip, PageStart, PageRead,
         PageOpen, PageClose, Tick, SetPolicy, ghostVars
    <3> QED
      BY <1>0, <2>1, <3>1, FreshUnreadable, FreshUntouched, FileAssumption DEF fileVars, dllVars
  <2> QED
    BY <2>2, <2>3
<1>3. ASSUME NEW v \in BOOLEAN, Edit(v) PROVE Fresh(d)'
  <2>1. ~blind'[d] => stamp[d] # now /\ pc[d] \notin {"stamp", "saved", "answer"}
    BY <1>0, <1>3, BlindedFacts DEF Edit
  <2> QED
    BY <1>0, <1>3, <2>1, FreshWritten DEF Edit, dllVars
<1> QED
  BY <1>1, <1>2, <1>3, FreshOwn DEF SettingsNext

-----------------------------------------------------------------------------
(* The choice.                                                              *)

\* What a step of a DLL keeps: a choice goes through both its saves.
LEMMA ChoiceDll ==
    ASSUME SettingsInv, NEW d \in Dlls, DllNext(d)
    PROVE  ChoiceInv'
<1> SUFFICES ASSUME choice' # NoKey, ~contested'
             PROVE  /\ OnItsWay' /\ OneStores'
                    /\ \A e \in Dlls : pc'[e] = "saved" => Arrived'
                    /\ (~PageStores' /\ \A e \in Dlls : saves'[e] = 0) => Arrived'
  BY DEF ChoiceInv
<1>0. /\ pc \in [Dlls -> Calls] /\ stamp \in [Dlls -> 0..now] /\ saves \in [Dlls -> 0..2]
      /\ wanted \in [Dlls -> BOOLEAN] /\ cache \in [Dlls -> Settings]
      /\ contested \in BOOLEAN
      /\ CallInv /\ ChoiceInv /\ UNCHANGED <<page, toggle, json>>
  BY DEF SettingsInv, SettingsTypesOK, DllNext, Call, SetConfig, Query, Load, Parse, Stamp, Answer,
     SaveOpen, SaveWrite, Restart, pageVars
<1> USE FileAssumption DEF CallInv, OnItsWay, OneStores, Writing, PageStores
<1>1. ASSUME Call(d) \/ Query(d) \/ Load(d) \/ Parse(d) PROVE ChoiceInv'
  <2>1. /\ UNCHANGED <<file, saves, wanted, choice, contested>>
        /\ \A e \in Dlls : e # d => UNCHANGED <<pc[e], cache[e]>>
        /\ pc'[d] \notin {"saved", "write"} /\ (pc'[d] = "save" => saves[d] = 0)
    BY <1>0, <1>1 DEF Call, Query, Load, Parse, Goes, fileVars, ghostVars
  <2> QED
    BY <1>0, <2>1 DEF ChoiceInv, Arrived, Whole
<1>2. ASSUME Stamp(d) PROVE ChoiceInv'
  <2>1. /\ UNCHANGED <<file, wanted, choice, contested, cache>>
        /\ \A e \in Dlls : e # d => UNCHANGED <<pc[e], saves[e]>>
        /\ pc'[d] \notin {"saved", "write", "save"}
        /\ saves'[d] \in 0..2 /\ (saves'[d] > 0 => saves[d] > 0)
        /\ pc[d] = "saved" \/ saves'[d] = saves[d]
    BY <1>0, <1>2 DEF Stamp, Goes, fileVars, ghostVars
  <2> QED
    BY <1>0, <2>1 DEF ChoiceInv, Arrived, Whole
<1>3. ASSUME Answer(d) PROVE ChoiceInv'
  <2>1. /\ UNCHANGED <<file, saves, wanted, choice, contested>>
        /\ \A e \in Dlls : e # d => UNCHANGED <<pc[e], cache[e]>>
        /\ pc'[d] \in {"save", "idle"} /\ (saves[d] > 0 => cache'[d].extended = wanted[d])
    BY <1>0, <1>3 DEF Answer, Goes, fileVars, ghostVars, Settings
  <2> QED
    BY <1>0, <2>1 DEF ChoiceInv, Arrived, Whole
<1>4. ASSUME SaveOpen(d) PROVE ChoiceInv'
  <2>1. /\ file' = Empty /\ pc' = [pc EXCEPT ![d] = "write"] /\ saves[d] > 0
        /\ pc[d] = "save" /\ ~contested
        /\ UNCHANGED <<cache, saves, wanted, choice>>
    <3>1. ~PageHolds
      BY <1>4 DEF SaveOpen
    <3>2. contested' = (contested \/ saves[d] = 0)
      BY <1>4, <3>1 DEF SaveOpen
    <3>3. ~contested /\ saves[d] # 0
      BY <3>2
    <3>4. saves[d] > 0
      BY <1>0, <3>3
    <3> QED
      BY <1>4, <3>1, <3>3, <3>4 DEF SaveOpen, Goes
  <2>2. \A e \in Dlls : saves[e] > 0 => e = d
    BY <1>0, <2>1 DEF ChoiceInv
  <2>3. \A e \in Dlls : pc'[e] \in {"saved", "write"} => e = d
    BY <1>0, <2>1, <2>2 DEF ChoiceInv
  <2> QED
    BY <1>0, <2>1, <2>2, <2>3 DEF ChoiceInv
<1>5. ASSUME SaveWrite(d) PROVE ChoiceInv'
  <2>1. /\ pc[d] = "write" /\ pc' = [pc EXCEPT ![d] = Saved(d)] /\ file' = Over(cache[d])
        /\ UNCHANGED <<cache, saves, wanted, choice, contested>>
    BY <1>0, <1>5 DEF SaveWrite, Goes
  <2>2. saves[d] > 0 /\ file = Empty /\ stamp[d] # 0 /\ cache[d].extended = choice
    BY <1>0, <2>1 DEF ChoiceInv
  <2>3. Arrived'
    BY <1>0, <2>1, <2>2, OverFacts, SettingsAreObjects DEF Arrived, Whole
  <2>4. \A e \in Dlls : pc'[e] = "write" => FALSE
    BY <1>0, <2>1, <2>2 DEF ChoiceInv, Saved
  <2>5. pc'[d] = "saved"
    BY <1>0, <2>1, <2>2 DEF Saved
  <2> QED
    BY <1>0, <2>1, <2>2, <2>3, <2>4, <2>5 DEF ChoiceInv
<1>6. ASSUME Restart(d) PROVE ChoiceInv'
  <2>1. /\ ~contested /\ saves[d] = 0 /\ pc[d] \notin {"save", "write"}
        /\ pc' = [pc EXCEPT ![d] = "new"] /\ saves' = [saves EXCEPT ![d] = 0]
        /\ wanted' = [wanted EXCEPT ![d] = FALSE] /\ cache' = [cache EXCEPT ![d] = Default]
        /\ UNCHANGED <<file, choice>>
    <3>1. contested' = (contested \/ saves[d] > 0 \/ pc[d] \in {"save", "write"})
      BY <1>6 DEF Restart
    <3>2. ~contested /\ ~(saves[d] > 0) /\ pc[d] \notin {"save", "write"}
      BY <3>1
    <3>3. saves[d] = 0
      BY <1>0, <3>2
    <3> QED
      BY <1>6, <3>2, <3>3 DEF Restart, Goes, fileVars
  <2>2. \A e \in Dlls : saves'[e] = saves[e]
    BY <1>0, <2>1
  <2>3. \A e \in Dlls : pc'[e] \in {"save", "write", "saved"} =>
                              e # d /\ pc'[e] = pc[e] /\ cache'[e] = cache[e]
    BY <1>0, <2>1
  <2>4. \A e \in Dlls : saves[e] > 0 => wanted'[e] = wanted[e]
    <3>1. \A e \in Dlls : e # d => wanted'[e] = wanted[e]
      BY <1>0, <2>1
    <3>2. ~(saves[d] > 0)
      BY <2>1
    <3> QED
      BY <3>1, <3>2
  <2>5. ~contested /\ UNCHANGED <<file, choice>>
    BY <2>1
  <2> QED
    BY <1>0, <2>2, <2>3, <2>4, <2>5 DEF ChoiceInv, Arrived, Whole
<1>7. ASSUME NEW w \in BOOLEAN, SetConfig(d, w) PROVE ChoiceInv'
  <2>1. /\ ~Storing /\ choice' = w /\ pc' = [pc EXCEPT ![d] = "query"]
        /\ saves' = [saves EXCEPT ![d] = 2] /\ wanted' = [wanted EXCEPT ![d] = w]
        /\ UNCHANGED <<file, cache>>
    BY <1>7 DEF SetConfig, Goes, fileVars
  <2>2. /\ ~PageStores
        /\ \A e \in Dlls : saves[e] = 0 /\ pc[e] \notin {"save", "write", "saved"}
    BY <1>0, <2>1 DEF Storing
  <2>3. \A e \in Dlls : e # d => saves'[e] = 0 /\ pc'[e] \notin {"save", "write", "saved"}
    BY <1>0, <2>1, <2>2
  <2>4. saves'[d] = 2 /\ wanted'[d] = choice' /\ pc'[d] = "query"
    BY <1>0, <2>1
  <2> QED
    BY <1>0, <2>2, <2>3, <2>4 DEF ChoiceInv
<1> QED
  BY <1>1, <1>2, <1>3, <1>4, <1>5, <1>6, <1>7 DEF DllNext, ChoiceInv

\* What a step of the page keeps.
LEMMA ChoicePage ==
    ASSUME SettingsInv, PageNext
    PROVE  ChoiceInv'
<1> SUFFICES ASSUME choice' # NoKey, ~contested'
             PROVE  /\ OnItsWay' /\ OneStores'
                    /\ \A e \in Dlls : pc'[e] = "saved" => Arrived'
                    /\ (~PageStores' /\ \A e \in Dlls : saves'[e] = 0) => Arrived'
  BY DEF ChoiceInv
<1>0. /\ saves \in [Dlls -> 0..2] /\ toggle \in BOOLEAN /\ json \in Objects
      /\ contested \in BOOLEAN
      /\ \A d \in Dlls : pc[d] = "saved" => saves[d] > 0
      /\ ChoiceInv /\ UNCHANGED <<cache, pc, saves, wanted>>
  BY DEF SettingsInv, SettingsTypesOK, CallInv, PageNext, PageLoad, PageShow, PageRegister, PageFree,
     Flip, PageStart, PageRead, PageOpen, PageWrite, PageClose, dllVars
<1> USE FileAssumption DEF OnItsWay, OneStores, Writing, PageStores
<1>1. ASSUME PageLoad \/ PageShow \/ PageRegister \/ PageFree \/ PageClose PROVE ChoiceInv'
  <2>1. ~PageStores /\ ~PageStores' /\ ~contested /\ UNCHANGED <<file, choice>>
    BY <1>0, <1>1 DEF PageLoad, PageShow, PageRegister, PageFree, PageClose, fileVars, ghostVars
  <2> QED
    BY <1>0, <2>1 DEF ChoiceInv, Arrived, Whole
<1>2. ASSUME Flip PROVE ChoiceInv'
  <2>1. page = "idle" /\ page' = "start" /\ ~Storing /\ choice' = toggle' /\ UNCHANGED file
    BY <1>2 DEF Flip, fileVars
  <2>2. \A e \in Dlls : saves[e] = 0 /\ pc[e] \notin {"save", "write", "saved"}
    BY <1>0, <2>1 DEF Storing
  <2> QED
    BY <1>0, <2>1, <2>2 DEF ChoiceInv
<1>3. ASSUME PageStart PROVE ChoiceInv'
  <2>1. /\ page = "start" /\ page' \in {"opening", "reading"} /\ json'.extended = toggle
        /\ ~contested /\ UNCHANGED <<file, choice>>
    BY <1>3 DEF PageStart, fileVars
  <2> QED
    BY <1>0, <2>1 DEF ChoiceInv, Arrived, Whole
<1>4. ASSUME PageRead PROVE ChoiceInv'
  <2>1. /\ page = "reading" /\ page' = "opening" /\ json' = [json EXCEPT !.enabled = file.enabled]
        /\ ~contested /\ UNCHANGED <<file, choice>>
    BY <1>4 DEF PageRead, fileVars
  <2>2. json'.extended = json.extended
    BY <1>0, <2>1 DEF Objects
  <2> QED
    BY <1>0, <2>1, <2>2 DEF ChoiceInv, Arrived, Whole
<1>5. ASSUME PageOpen PROVE ChoiceInv'
  <2>1. page = "opening" /\ page' = "writing" /\ file' = Empty /\ UNCHANGED <<json, choice, contested>>
    BY <1>5 DEF PageOpen
  <2> QED
    BY <1>0, <2>1 DEF ChoiceInv
<1>6. ASSUME PageWrite PROVE ChoiceInv'
  <2>1. page = "writing" /\ page' = "idle" /\ file' = Over(json) /\ UNCHANGED <<json, choice, contested>>
    BY <1>6 DEF PageWrite
  <2>2. Arrived'
    BY <1>0, <2>1, OverFacts DEF ChoiceInv, Arrived, Whole
  <2> QED
    BY <1>0, <2>1, <2>2 DEF ChoiceInv
<1> QED
  BY <1>1, <1>2, <1>3, <1>4, <1>5, <1>6 DEF PageNext, ChoiceInv

\* Every step leaves a choice on its way or in the file.
LEMMA ChoiceStep == SettingsInv /\ SettingsNext => ChoiceInv'
<1> SUFFICES ASSUME SettingsInv, SettingsNext PROVE ChoiceInv'
  OBVIOUS
<1>0. ChoiceInv
  BY DEF SettingsInv
<1>1. ASSUME Tick \/ \E p \in {"none", "on", "off"} : SetPolicy(p) PROVE ChoiceInv'
  BY <1>0, <1>1 DEF Tick, SetPolicy, ChoiceInv, OnItsWay, OneStores, PageStores, Writing, Arrived, Whole,
     dllVars, fileVars, pageVars, ghostVars
<1>2. ASSUME NEW v \in BOOLEAN, Edit(v) PROVE ChoiceInv'
  <2>1. /\ file \in Objects /\ file' = [file EXCEPT !.enabled = v]
        /\ page # "writing" /\ \A d \in Dlls : ~Writing(d)
        /\ UNCHANGED <<dllVars, pageVars, choice, contested>>
    BY <1>2 DEF Edit, Whole, PageHolds
  <2>2. file' \in Objects /\ file'.extended = file.extended
    BY <2>1 DEF Objects, Value
  <2> QED
    BY <1>0, <2>1, <2>2 DEF ChoiceInv, OnItsWay, OneStores, PageStores, Writing, Arrived, Whole,
       dllVars, pageVars
<1> QED
  BY <1>1, <1>2, ChoiceDll, ChoicePage DEF SettingsNext

-----------------------------------------------------------------------------
\* The invariant holds in every behaviour of the settings.
LEMMA AlwaysSettingsInv == SettingsSpec => []SettingsInv
<1>1. SettingsInit => SettingsInv
  <2> SUFFICES ASSUME SettingsInit PROVE SettingsInv
    OBVIOUS
  <2>1. SettingsTypesOK
    <3>1. Default \in Settings /\ [enabled |-> NoKey, extended |-> NoKey] \in Objects
      BY DEF Default, Settings, Objects, Value
    <3>2. 1 \in 1..MaxTime /\ 0 \in 0..MaxChanges /\ NoKey \in Value
      BY SettingsAssumption DEF Value
    <3>3. file \in Objects \cup {Absent, Empty, Garbled}
      BY SettingsAreObjects DEF SettingsInit
    <3>4. mtime \in 0..now /\ now \in 1..MaxTime /\ stamp \in [Dlls -> 0..now] /\ saves \in [Dlls -> 0..2]
      BY <3>2 DEF SettingsInit
    <3>5. pc \in [Dlls -> Calls] /\ page \in PageStates
      BY DEF SettingsInit, Calls, PageStates
    <3> QED
      BY <3>1, <3>2, <3>3, <3>4, <3>5 DEF SettingsInit, SettingsTypesOK
  <2>2. CallInv /\ HoldInv /\ AloneInv /\ FreshInv /\ ChoiceInv
    BY DEF SettingsInit, CallInv, HoldInv, PageHolds, AloneInv, Writing, FreshInv, Fresh, ChoiceInv
  <2>3. FileWhole
    BY SettingsAreObjects DEF SettingsInit, FileWhole, Whole
  <2> QED
    BY <2>1, <2>2, <2>3 DEF SettingsInv
<1>2. SettingsInv /\ [SettingsNext]_vars => SettingsInv'
  <2>1. ASSUME SettingsInv, UNCHANGED vars PROVE SettingsInv'
    BY <2>1 DEF vars, dllVars, fileVars, pageVars, ghostVars, SettingsInv, SettingsTypesOK, CallInv, HoldInv,
       PageHolds, AloneInv, FileWhole, Writing, Whole, FreshInv, Fresh, Agrees, ChoiceInv, OnItsWay,
       OneStores, PageStores, Arrived
  <2> QED
    BY <2>1, TypesKept, CallKept, FileKept, FreshKept, ChoiceStep DEF SettingsInv, FileInv
<1> QED
  BY <1>1, <1>2, PTL DEF SettingsSpec

\* The variables of the DLLs, the page and the file have the types they should.
THEOREM SettingsTypesCorrect == SettingsSpec => []SettingsTypesOK
<1>1. SettingsInv => SettingsTypesOK
  BY DEF SettingsInv
<1> QED
  BY <1>1, AlwaysSettingsInv, PTL

\* GetEnabled's answer is of what is in the file, unless the DLL could not see
\* that it changed, or its own Save failed.
THEOREM ChangesSeenAlways == SettingsSpec => []ChangesSeen
<1>1. SettingsInv => ChangesSeen
  BY DEF SettingsInv, FreshInv, Fresh, Agrees, ChangesSeen
<1> QED
  BY <1>1, AlwaysSettingsInv, PTL

\* Without a lock the file is whole between two writings, however many DLLs
\* there are, if none wrote beside another or ended while writing.
THEOREM FileWholeAlways == SettingsSpec => []FileWhole
<1>1. SettingsInv => FileWhole
  BY DEF SettingsInv
<1> QED
  BY <1>1, AlwaysSettingsInv, PTL

\* A choice that was stored alone is in the file, until the next one.
THEOREM ChoiceKeptAlways == SettingsSpec => []ChoiceKept
<1>1. SettingsInv => ChoiceKept
  <2> SUFFICES ASSUME SettingsInv, choice # NoKey, ~contested, ~Storing PROVE Arrived
    BY DEF ChoiceKept, Arrived
  <2>1. ~PageStores /\ \A d \in Dlls : saves[d] = 0
    BY DEF SettingsInv, SettingsTypesOK, Storing, PageStores
  <2> QED
    BY <2>1 DEF SettingsInv, ChoiceInv
<1> QED
  BY <1>1, AlwaysSettingsInv, PTL

-----------------------------------------------------------------------------
(* The event trace. *)

(* There is a thread to join exactly while one runs or has returned, and it  *)
(* is told to return before it is joined.                                    *)
ThreadInv ==
    /\ joinable <=> worker # "none"
    /\ joinable => (tracing \/ caller \in {"notify", "join"})
    /\ caller \in {"open", "enable", "begin", "spawn", "destroyed"} => ~joinable

(* m_tracing is set while there is a session, but for the steps that make    *)
(* it and take it away.                                                      *)
SessionInv ==
    /\ caller \in {"open", "enable", "begin"} => ~tracing
    /\ caller \in {"spawn", "flush", "disable", "stop", "reset", "clear"} => tracing
    /\ caller \in {"enable", "begin"} => session \in running
    /\ (tracing /\ caller \notin {"reset", "clear"}) => session \in running

(* As long as nothing was refused, the only session that runs is ours.       *)
LeftInv ==
    ~refused =>
        /\ running \subseteq {session}
        /\ caller \in Stopping => running = {}
        /\ (~tracing /\ caller \in {"idle", "open", "destroyed"}) => running = {}

EtwInv == EtwTypesOK /\ ThreadInv /\ SessionInv /\ LeftInv

(* Nothing is there at the beginning.                                        *)
LEMMA InitEtw == EtwInit => EtwInv
<1> SUFFICES ASSUME EtwInit PROVE EtwInv
  OBVIOUS
<1> USE DEF EtwInit
<1>1. EtwTypesOK
  <2>1. {tracing, joinable, destroying, ended, refused} \subseteq BOOLEAN
    OBVIOUS
  <2>2. caller \in CallerSteps /\ worker \in WorkerSteps
    BY DEF CallerSteps, WorkerSteps
  <2>3. opened \in Nat /\ session \in 0..opened /\ running \subseteq 1..opened
    OBVIOUS
  <2> QED BY <2>1, <2>2, <2>3, Zenon DEF EtwTypesOK
<1>2. ThreadInv
  BY DEF ThreadInv
<1>3. SessionInv /\ LeftInv
  BY DEF SessionInv, LeftInv
<1> QED BY <1>1, <1>2, <1>3 DEF EtwInv

(* A call that throws in Start, Flush or Stop leaves the session as it was.  *)
LEMMA ThrowStep ==
    ASSUME EtwInv, Throw, ~ended, caller \in {"open", "enable", "flush", "disable", "stop"},
           UNCHANGED <<tracing, session, joinable, destroying, worker, running>>,
           opened' \in {opened, opened + 1}
    PROVE  EtwInv'
<1> USE DEF EtwInv
<1>1. EtwTypesOK'
  <2>1. caller' \in CallerSteps /\ ended' \in BOOLEAN /\ refused' \in BOOLEAN
    BY DEF EtwTypesOK, Throw, CallerSteps
  <2>2. opened' \in Nat /\ session' \in 0..opened' /\ running' \subseteq 1..opened'
    BY DEF EtwTypesOK
  <2> QED BY <2>1, <2>2 DEF EtwTypesOK
<1>2. ThreadInv'
  BY DEF EtwTypesOK, ThreadInv, Throw
<1>3. SessionInv'
  BY DEF SessionInv, Throw
<1>4. LeftInv'
  BY DEF LeftInv, Throw
<1> QED BY <1>1, <1>2, <1>3, <1>4

(* Each step of the caller keeps the invariant.                              *)
LEMMA CallerKeeps == ASSUME EtwInv, ~ended, Caller PROVE EtwInv'
<1> USE DEF EtwInv, EtwTypesOK, ThreadInv, SessionInv, LeftInv, callerVars,
            CallerAt, WorkerAt, CallerSteps, WorkerSteps, Stopping
<1>1. CASE Start           BY <1>1 DEF Start
<1>2. CASE OpenSession
  <2>1. CASE Throw /\ UNCHANGED <<session, running>>
    BY <1>2, <2>1, ThrowStep DEF OpenSession
  <2>2. CASE session' = opened + 1 /\ running' = running \cup {opened + 1} /\ caller' = "enable"
               /\ UNCHANGED <<ended, refused>>
    <3>1. ~refused => running = {}
      BY <1>2 DEF OpenSession
    <3>2. opened' = opened + 1 /\ session' \in running' /\ (~refused => running' = {session'})
      BY <1>2, <2>2, <3>1 DEF OpenSession
    <3> QED BY <1>2, <2>2, <3>2 DEF OpenSession
  <2> QED BY <1>2, <2>1, <2>2 DEF OpenSession
<1>3. CASE EnableProvider
  BY <1>3, ThrowStep DEF EnableProvider
<1>4. CASE Begin           BY <1>4 DEF Begin
<1>5. CASE Spawn
  <2>1. ~joinable
    BY <1>5 DEF Spawn
  <2>2. joinable' = TRUE /\ worker' = "test" /\ caller' = "idle"
        /\ UNCHANGED <<tracing, session, destroying, opened, running, ended, refused>>
    BY <1>5, <2>1 DEF Spawn
  <2>3. caller = "spawn"
    BY <1>5 DEF Spawn
  <2>4. EtwTypesOK'
    BY <2>2
  <2>5. ThreadInv' /\ SessionInv' /\ LeftInv'
    BY <2>2, <2>3
  <2> QED BY <2>4, <2>5
<1>6. CASE Flush           BY <1>6 DEF Flush
<1>7. CASE FlushSession
  <2>1. CASE Throw
    BY <1>7, <2>1, ThrowStep DEF FlushSession
  <2>2. CASE ~ Throw
    <3>1. caller' \in {"disable", "idle"} /\ UNCHANGED <<ended, refused>>
      BY <1>7, <2>2 DEF FlushSession
    <3>2. caller = "flush" /\ UNCHANGED <<tracing, callerVars, worker, running>>
      BY <1>7 DEF FlushSession
    <3> QED BY <3>1, <3>2
  <2> QED BY <2>1, <2>2
<1>8. CASE Stop            BY <1>8 DEF Stop
<1>9. CASE DisableProvider
  BY <1>9, ThrowStep DEF DisableProvider
<1>10. CASE StopSession
  BY <1>10, ThrowStep DEF StopSession
<1>11. CASE Reset          BY <1>11 DEF Reset
<1>12. CASE Clear          BY <1>12 DEF Clear
<1>13. CASE Notify         BY <1>13 DEF Notify
<1>14. CASE Join           BY <1>14 DEF Join
<1>15. CASE Destroy        BY <1>15 DEF Destroy
<1> QED
  BY <1>1, <1>2, <1>3, <1>4, <1>5, <1>6, <1>7, <1>8, <1>9, <1>10, <1>11, <1>12, <1>13,
     <1>14, <1>15 DEF Caller

(* The thread changes nothing but its own place, and may end the process.    *)
LEMMA WorkerKeeps == ASSUME EtwInv, ~ended, Worker PROVE EtwInv'
<1>1. /\ worker # "none" /\ worker' \in WorkerSteps \ {"none"}
      /\ UNCHANGED <<tracing, session, joinable, destroying, opened, caller, running>>
      /\ ended' \in BOOLEAN /\ refused' \in BOOLEAN /\ (refused => refused')
  BY DEF EtwInv, EtwTypesOK, Worker, Test, Predicate, Block, TimeOut, WorkerFlush, Control,
         callerVars, WorkerAt, WorkerSteps
<1> QED BY <1>1 DEF EtwInv, EtwTypesOK, ThreadInv, SessionInv, LeftInv

(* The invariant holds in every reachable state.                             *)
LEMMA EtwInvariant == EtwSpec => []EtwInv
<1>1. EtwInv /\ [EtwNext]_traceVars => EtwInv'
  <2> SUFFICES ASSUME EtwInv, [EtwNext]_traceVars PROVE EtwInv'
    OBVIOUS
  <2>1. CASE EtwNext
    BY <2>1, CallerKeeps, WorkerKeeps DEF EtwNext
  <2>2. CASE UNCHANGED traceVars
    BY <2>2 DEF EtwInv, EtwTypesOK, ThreadInv, SessionInv, LeftInv, traceVars, callerVars
  <2> QED BY <2>1, <2>2
<1> QED BY InitEtw, <1>1, PTL DEF EtwSpec

(* EtwTypesOK: a session is always one the system was asked for.             *)
THEOREM EtwTypesCorrect == EtwSpec => []EtwTypesOK
  BY EtwInvariant, PTL DEF EtwInv

(* OneThread: Start finds no thread to overwrite, whatever Stop threw before.*)
THEOREM OneThreadAlways == EtwSpec => []OneThread
<1>1. EtwInv => OneThread
  BY DEF EtwInv, ThreadInv, OneThread, CallerAt
<1> QED BY <1>1, EtwInvariant, PTL

(* FlushHasSession: the thread has the session it flushes, but for Stop.     *)
THEOREM FlushHasSessionAlways == EtwSpec => []FlushHasSession
<1>1. EtwInv => FlushHasSession
  BY DEF EtwInv, ThreadInv, SessionInv, FlushHasSession, CallerAt, WorkerAt, Stopping
<1> QED BY <1>1, EtwInvariant, PTL

(* NoSessionLeft: only a refused call leaves a session behind.               *)
THEOREM NoSessionLeftAlways == EtwSpec => []NoSessionLeft
<1>1. EtwInv => NoSessionLeft
  BY DEF EtwInv, LeftInv, NoSessionLeft
<1> QED BY <1>1, EtwInvariant, PTL

(* EndsInStop: std::terminate is called for a refusal, or in Stop's race.    *)
THEOREM EndsInStopAlways == EtwSpec => EndsInStop
<1>1. EtwInv /\ [EtwNext]_traceVars => [ended' => (refused' \/ caller \in Stopping)]_traceVars
  <2> SUFFICES ASSUME EtwInv, EtwNext, ended' PROVE refused' \/ caller \in Stopping
    OBVIOUS
  <2>1. ~ended
    BY DEF EtwNext
  <2>2. CASE Caller
    BY <2>1, <2>2 DEF EtwInv, ThreadInv, Caller, Start, OpenSession, EnableProvider, Begin, Spawn,
       Flush, FlushSession, Stop, DisableProvider, StopSession, Reset, Clear, Notify, Join, Destroy,
       Throw, CallerAt
  <2>3. CASE Worker
    BY <2>1, <2>3 DEF EtwInv, ThreadInv, SessionInv, Worker, Test, Predicate, Block, TimeOut,
       WorkerFlush, Control, WorkerAt, Stopping
  <2> QED BY <2>2, <2>3 DEF EtwNext
<1> QED BY <1>1, EtwInvariant, PTL DEF EtwSpec, EndsInStop
=============================================================================
