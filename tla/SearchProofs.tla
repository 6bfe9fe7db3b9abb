---------------------------- MODULE SearchProofs ----------------------------
(***************************************************************************)
(* Facts about a search that hold for any processes and any ids, whatever  *)
(* the processes do while it runs.  The lemmas say what one step of the    *)
(* search, or of the processes, keeps; the window and the command line,    *)
(* which take the same steps, cite them.  The end of the module is about   *)
(* the matching of names, of any length, that the search rests on.         *)
(***************************************************************************)
EXTENDS Search, PathMatch, SequenceTheorems, TLAPS

\* An id names one process at a time.
PidsDiffer == \A p, q \in alive : p # q => pidOf[p] # pidOf[q]

EntryOf(p) == [pid |-> pidOf[p], proc |-> p]
UnderWay == phase \notin {"idle", "done"}

\* Whatever the search knows of an id it knows of a process that used the path
\* since it began.
SoundInv ==
    /\ UnderWay => Using \subseteq sometime
    /\ \A pid \in pidFiles : \E p \in sometime : pidOf[p] = pid
    /\ \A e \in found : e.pid \in pidFiles

\* What becomes of a use that lasts and can be seen: a handle is in the table
\* until it is examined, the entry of its process in the list until the modules
\* are read, and from then on the id is in pid_files.
CoveredInv ==
    /\ \A p \in Procs : throughout[p] \subseteq uses[p]
    /\ (~failed /\ phase # "idle") => known
    /\ ~failed => \A p \in Procs : \A u \in throughout[p] \cap Visible(p) :
          /\ (phase = "handles" /\ u # Module) => <<pidOf[p], u>> \in entries \/ pidOf[p] \in pidFiles
          /\ (phase \in {"processes", "modules", "done"} /\ u # Module) => pidOf[p] \in pidFiles
          /\ phase \in {"modules", "done"} => EntryOf(p) \in listed
          /\ (phase = "modules" /\ u = Module) => EntryOf(p) \in unread \/ pidOf[p] \in pidFiles
          /\ phase = "done" => EntryOf(p) \in found

\* The result is empty until it is made of the list, and a listed process has the
\* id it is listed with.
ListedInv ==
    /\ phase # "done" => found = {}
    /\ \A e \in listed : pidOf[e.proc] = e.pid

SearchInv == SearchTypesOK /\ PidsDiffer /\ ListedInv /\ SoundInv /\ CoveredInv

\* What the types say of the sets the search reads.
LEMMA SearchFacts ==
    ASSUME SearchTypesOK
    PROVE  /\ \A p \in alive : p \in Procs /\ pidOf[p] \in Pids /\ pidOf[p] # NoPid
           /\ Using \subseteq alive
           /\ \A p \in Procs : uses[p] \subseteq Uses /\ (uses[p] # {} => p \in alive)
           /\ \A pid : Named(pid) \subseteq alive
           /\ \A e \in listed : e.pid \in Pids /\ e.proc \in Procs
  BY PidAssumption DEF SearchTypesOK, TableTypeOK, SearchTypeOK, Named, Using

\* A pair of the handles us of the processes is of one that runs, and conversely.
LEMMA HandleEntriesAre ==
    ASSUME SearchTypesOK, NEW us
    PROVE  /\ HandleEntries(us) \subseteq Pids \X Values
           /\ \A p \in alive : \A u \in us[p] \cap Values : <<pidOf[p], u>> \in HandleEntries(us)
  BY SearchFacts DEF HandleEntries

-----------------------------------------------------------------------------
(* What a step keeps.                                                       *)

\* A search begins with nobody listed and nothing found.
LEMMA SearchBeginKeeps ==
    ASSUME SearchInv, SearchBegin
    PROVE  SearchInv'
<1> USE DEF SearchInv, SearchBegin, tableVars
<1>1. SearchTypesOK'
  <2>1. TableTypeOK'
    BY DEF SearchTypesOK, TableTypeOK, Using
  <2>2. known' \in BOOLEAN /\ failed' \in BOOLEAN
    OBVIOUS
  <2>3. opened = {}
    BY DEF SearchTypesOK, SearchTypeOK
  <2>4. throughout' \in [Procs -> SUBSET Uses] /\ sometime' \subseteq Procs
    BY DEF SearchTypesOK, TableTypeOK, Using
  <2> QED
    BY <2>1, <2>2, <2>3, <2>4 DEF SearchTypesOK, SearchTypeOK
<1>2. PidsDiffer'
  BY DEF PidsDiffer
<1>3. SoundInv'
  BY DEF SoundInv, UnderWay, Using
<1>4. CoveredInv'
  <2>1. phase' = "table" /\ throughout' = uses /\ uses' = uses
    OBVIOUS
  <2>2. PICK ok \in BOOLEAN : known' = ok /\ failed' = ~ok
    BY SearchAssumption
  <2>3. ~failed' => known'
    BY <2>2
  <2> QED
    BY <2>1, <2>3 DEF CoveredInv, EntryOf
<1>5. ListedInv'
  BY DEF ListedInv
<1> QED
  BY <1>1, <1>2, <1>3, <1>4, <1>5

\* A step of the search keeps the types, and leaves the table alone.
LEMMA SearchStepTypes ==
    ASSUME SearchTypesOK, ListedInv, SearchStep
    PROVE  SearchTypesOK' /\ ListedInv' /\ UNCHANGED tableVars
<1> USE DEF SearchTypesOK, SearchTypeOK, ListedInv, ghostVars
<1>1. UNCHANGED tableVars
  BY DEF SearchStep, TakeHandleTable, HandlesDone, TakeProcessList, SearchEnd, ExamineHandle, ReadModules
<1>2. TableTypeOK'
  BY <1>1 DEF TableTypeOK, tableVars, Using
<1>3. CASE TakeHandleTable
  <2>1. entries' \subseteq Pids \X Values
    BY <1>3, HandleEntriesAre DEF TakeHandleTable
  <2> QED
    BY <1>1, <1>2, <1>3, <2>1 DEF TakeHandleTable, tableVars
<1>4. CASE HandlesDone
  BY <1>1, <1>2, <1>4 DEF HandlesDone, tableVars
<1>5. CASE TakeProcessList
  <2>1. /\ Entries(alive) \subseteq [pid : Pids, proc : Procs]
        /\ \A e \in Entries(alive) : pidOf[e.proc] = e.pid
    BY SearchFacts DEF Entries
  <2>2. phase = "processes" /\ phase' = "modules"
    BY <1>5 DEF TakeProcessList
  <2>3. listed' \subseteq [pid : Pids, proc : Procs] /\ unread' = listed' /\ failed' \in BOOLEAN
    BY <1>5, <2>1 DEF TakeProcessList
  <2>4. found' = {} /\ ListedInv'
    BY <1>1, <1>5, <2>1 DEF TakeProcessList, tableVars
  <2> QED
    BY <1>1, <1>2, <1>5, <2>2, <2>3, <2>4 DEF TakeProcessList
<1>6. CASE SearchEnd
  BY <1>1, <1>2, <1>6 DEF SearchEnd, tableVars
<1>7. ASSUME NEW e \in entries, ExamineHandle(e) PROVE SearchTypeOK' /\ ListedInv'
  <2>1. Named(e[1]) \ Denied \subseteq Procs /\ e[1] \in Pids
    BY SearchFacts DEF Named
  <2> QED
    BY <1>1, <1>7, <2>1 DEF ExamineHandle, tableVars
<1>8. ASSUME NEW e \in listed, ReadModules(e) PROVE SearchTypeOK' /\ ListedInv'
  BY <1>1, <1>8, SearchFacts DEF ReadModules, tableVars
<1> QED
  BY <1>1, <1>2, <1>3, <1>4, <1>5, <1>6, <1>7, <1>8 DEF SearchStep

\* An id that is put into pid_files is that of a process which uses the path now.
LEMMA SearchStepSound ==
    ASSUME SearchInv, SearchStep
    PROVE  SoundInv'
<1> USE DEF SearchInv, SoundInv, UnderWay, Using, tableVars, ghostVars
<1>0. \A p \in alive : uses[p] # {} => p \in Using
  BY SearchFacts
<1>1. CASE TakeHandleTable
  BY <1>1 DEF TakeHandleTable
<1>2. CASE HandlesDone
  BY <1>2 DEF HandlesDone
<1>3. CASE TakeProcessList
  BY <1>3 DEF TakeProcessList
<1>4. CASE SearchEnd
  BY <1>4 DEF SearchEnd
<1>5. ASSUME NEW e \in entries, ExamineHandle(e) PROVE SoundInv'
  <2>1. pidFiles' \subseteq pidFiles \cup {e[1]}
    BY <1>5 DEF ExamineHandle
  <2>2. e[1] \in pidFiles' \ pidFiles => \E p \in sometime : pidOf[p] = e[1]
    BY <1>0, <1>5 DEF ExamineHandle, Named
  <2> QED
    BY <1>5, <2>1, <2>2 DEF ExamineHandle
<1>6. ASSUME NEW e \in listed, ReadModules(e) PROVE SoundInv'
  <2>1. pidFiles' \subseteq pidFiles \cup {e.pid}
    BY <1>6 DEF ReadModules
  <2>2. e.pid \in pidFiles' \ pidFiles => \E p \in sometime : pidOf[p] = e.pid
    BY <1>0, <1>6 DEF ReadModules, Named
  <2> QED
    BY <1>6, <2>1, <2>2 DEF ReadModules
<1> QED
  BY <1>1, <1>2, <1>3, <1>4, <1>5, <1>6 DEF SearchStep

\* The table and the list are taken while the process uses the path, and what is
\* taken out of them has been looked at.
LEMMA SearchStepCovered ==
    ASSUME SearchInv, SearchStep
    PROVE  CoveredInv'
<1> DEFINE Lasting == {p \in Procs : throughout[p] # {}}
           Seen(p) == throughout[p] \cap Visible(p)
<1> USE DEF SearchInv, CoveredInv, EntryOf, tableVars, ghostVars
<1>0. /\ \A p \in Lasting : p \in alive /\ p \in Procs /\ pidOf[p] \in Pids
      /\ \A p \in Procs : \A u \in Seen(p) :
            p \in Lasting /\ u \in uses[p] /\ (u # Module => u \in Values /\ p \notin Denied)
  BY SearchFacts DEF Visible, Uses
<1>1. CASE TakeHandleTable
  <2>1. \A p \in Procs : \A u \in Seen(p) : u # Module => <<pidOf[p], u>> \in HandleEntries(uses)
    BY <1>0, HandleEntriesAre
  <2> QED
    BY <1>1, <2>1 DEF TakeHandleTable
<1>2. CASE HandlesDone
  BY <1>2 DEF HandlesDone
<1>3. CASE TakeProcessList
  <2>1. \A p \in Lasting : EntryOf(p) \in Entries(alive)
    BY <1>0 DEF Entries
  <2> QED
    BY <1>0, <1>3, <2>1 DEF TakeProcessList
<1>4. CASE SearchEnd
  <2>1. \A p : EntryOf(p).pid = pidOf[p]
    OBVIOUS
  <2> QED
    BY <1>4, <2>1 DEF SearchEnd
<1>5. ASSUME NEW e \in entries, ExamineHandle(e) PROVE CoveredInv'
  <2>1. ~failed => \A p \in Procs : \A u \in Seen(p) :
            (e = <<pidOf[p], u>> /\ u # Module) => pidOf[p] \in pidFiles'
    BY <1>0, <1>5 DEF ExamineHandle, Named
  <2>2. pidFiles \subseteq pidFiles' /\ entries' = entries \ {e}
    BY <1>5 DEF ExamineHandle
  <2> QED
    BY <1>5, <2>1, <2>2 DEF ExamineHandle
<1>6. ASSUME NEW e \in listed, ReadModules(e) PROVE CoveredInv'
  <2>1. ~failed => \A p \in Procs : \A u \in Seen(p) :
            (EntryOf(p) = e /\ u = Module) => pidOf[p] \in pidFiles'
    BY <1>0, <1>6 DEF ReadModules, Named
  <2>2. pidFiles \subseteq pidFiles' /\ unread' = unread \ {e}
    BY <1>6 DEF ReadModules
  <2> QED
    BY <1>6, <2>1, <2>2 DEF ReadModules
<1> QED
  BY <1>1, <1>2, <1>3, <1>4, <1>5, <1>6 DEF SearchStep

\* A step of the search keeps the invariant.
LEMMA SearchStepKeeps ==
    ASSUME SearchInv, SearchStep
    PROVE  SearchInv'
<1>1. SearchTypesOK' /\ ListedInv' /\ UNCHANGED tableVars
  BY SearchStepTypes DEF SearchInv
<1>2. PidsDiffer'
  BY <1>1 DEF SearchInv, PidsDiffer, tableVars
<1> QED
  BY <1>1, <1>2, SearchStepSound, SearchStepCovered DEF SearchInv

\* A process that runs keeps its id; one that starts gets an id no other has.
LEMMA MoveTable ==
    ASSUME SearchTypesOK, PidsDiffer, NEW pinned, ProcessesMove(pinned)
    PROVE  /\ TableTypeOK' /\ PidsDiffer'
           /\ \A p \in Procs : pidOf[p] # NoPid => pidOf'[p] = pidOf[p]
<1> USE DEF SearchTypesOK, TableTypeOK, PidsDiffer, Using
<1> DEFINE Stay == \A p \in Procs : pidOf[p] # NoPid => pidOf'[p] = pidOf[p]
<1>1. ASSUME NEW p \in Procs, NEW u \in Uses, Use(p, u) PROVE TableTypeOK' /\ PidsDiffer' /\ Stay
  BY <1>1 DEF Use
<1>2. ASSUME NEW p \in Procs, NEW u \in Uses, Release(p, u) PROVE TableTypeOK' /\ PidsDiffer' /\ Stay
  BY <1>2 DEF Release
<1>3. ASSUME NEW p \in Procs, Exit(p) PROVE TableTypeOK' /\ PidsDiffer' /\ Stay
  BY <1>3 DEF Exit
<1>4. ASSUME NEW p \in Procs, NEW pid \in Pids, Start(p, pid, pinned)
      PROVE  TableTypeOK' /\ PidsDiffer' /\ Stay
  <2>1. \A q \in alive : q \in Procs /\ pidOf[q] # pid /\ q # p
    BY <1>4 DEF Start, Free
  <2>2. \A q \in Procs : pidOf'[q] = IF q = p THEN pid ELSE pidOf[q]
    BY <1>4 DEF Start
  <2>3. pid # NoPid
    BY PidAssumption
  <2> QED
    BY <1>4, <2>1, <2>2, <2>3 DEF Start
<1> QED
  BY <1>1, <1>2, <1>3, <1>4 DEF ProcessesMove

\* Whatever the processes do, and whichever ids are held back.
LEMMA ProcessesMoveKeeps ==
    ASSUME SearchInv, NEW pinned, ProcessesMove(pinned)
    PROVE  SearchInv'
<1> USE DEF SearchInv, ProcessesMove, searchVars
<1>1. /\ TableTypeOK' /\ PidsDiffer'
      /\ \A p \in Procs : pidOf[p] # NoPid => pidOf'[p] = pidOf[p]
  BY MoveTable
<1>2. SearchTypesOK'
  <2>1. throughout' \in [Procs -> SUBSET Uses] /\ sometime' \subseteq Procs
    BY DEF SearchTypesOK, SearchTypeOK, Using
  <2> QED
    BY <1>1, <2>1 DEF SearchTypesOK, SearchTypeOK
<1>3. SoundInv'
  <2>1. \A pid \in pidFiles : \E p \in sometime : pidOf'[p] = pid
    BY <1>1, PidAssumption DEF SoundInv, SearchTypesOK, SearchTypeOK
  <2> QED
    BY <2>1 DEF SoundInv, UnderWay
<1>4. CoveredInv'
  <2>1. \A p \in Procs : throughout'[p] \subseteq throughout[p] /\ throughout'[p] \subseteq uses'[p]
    OBVIOUS
  <2>2. \A p \in Procs : throughout[p] # {} => pidOf'[p] = pidOf[p]
    BY <1>1, SearchFacts DEF CoveredInv
  <2>3. \A p \in Procs : \A u \in throughout'[p] \cap Visible(p) :
            u \in throughout[p] \cap Visible(p) /\ pidOf'[p] = pidOf[p]
    BY <2>1, <2>2
  <2> QED
    BY <2>1, <2>3 DEF CoveredInv, EntryOf
<1>5. ListedInv'
  BY <1>1, SearchFacts, PidAssumption DEF ListedInv
<1> QED
  BY <1>1, <1>2, <1>3, <1>4, <1>5

\* A step that leaves the search and the table alone keeps what is known of them.
LEMMA SearchStands ==
    ASSUME SearchInv, UNCHANGED <<tableVars, searchVars, ghostVars>>
    PROVE  SearchInv'
  BY DEF tableVars, searchVars, ghostVars, SearchInv, SearchTypesOK, TableTypeOK, SearchTypeOK,
     PidsDiffer, ListedInv, SoundInv, CoveredInv, UnderWay, EntryOf, Using

\* A step of a search is one of a search under way.
LEMMA StepUnderWay == SearchStep => UnderWay /\ phase' # "idle"
  BY DEF SearchStep, TakeHandleTable, HandlesDone, TakeProcessList, SearchEnd, ExamineHandle,
     ReadModules, UnderWay

\* The invariant holds at first.
LEMMA InitSearchInv == TableInit /\ SearchInit => SearchInv
<1> SUFFICES ASSUME TableInit, SearchInit PROVE SearchInv
  OBVIOUS
<1>1. TableTypeOK
  BY PidAssumption DEF TableInit, TableTypeOK, Using
<1>2. SearchTypeOK
  BY DEF SearchInit, SearchTypeOK
<1>3. PidsDiffer /\ ListedInv /\ SoundInv /\ CoveredInv
  BY DEF TableInit, SearchInit, PidsDiffer, ListedInv, SoundInv, CoveredInv, UnderWay
<1> QED
  BY <1>1, <1>2, <1>3 DEF SearchInv, SearchTypesOK

-----------------------------------------------------------------------------
\* The invariant holds in every behaviour of the search.
LEMMA AlwaysSearchInv == SearchSpec => []SearchInv
<1>1. SearchesInit => SearchInv
  BY InitSearchInv DEF SearchesInit
<1>2. SearchInv /\ [SearchNext]_<<tableVars, searchVars, ghostVars>> => SearchInv'
  <2> SUFFICES ASSUME SearchInv, [SearchNext]_<<tableVars, searchVars, ghostVars>> PROVE SearchInv'
    OBVIOUS
  <2>1. CASE SearchBegin
    BY <2>1, SearchBeginKeeps
  <2>2. CASE SearchStep
    BY <2>2, SearchStepKeeps
  <2>3. CASE Environment
    <3>1. PICK pins \in SUBSET Procs : pins = opened
      BY DEF SearchInv, SearchTypesOK, SearchTypeOK
    <3>2. ProcessesMove(pins)
      BY <2>3, <3>1 DEF Environment, ProcessesMove, Start, Free
    <3> QED
      BY <3>2, ProcessesMoveKeeps
  <2>4. CASE UNCHANGED <<tableVars, searchVars, ghostVars>>
    BY <2>4, SearchStands
  <2> QED
    BY <2>1, <2>2, <2>3, <2>4 DEF SearchNext
<1> QED
  BY <1>1, <1>2, PTL DEF SearchSpec

\* The table and its searches have the types they should.
THEOREM SearchTypesCorrect == SearchSpec => []SearchTypesOK
<1>1. SearchInv => SearchTypesOK
  BY DEF SearchInv
<1> QED
  BY <1>1, AlwaysSearchInv, PTL

\* Every process that keeps one use, which can be seen, from the beginning of the
\* search to its end is in the result: whatever it and the other processes open
\* and close besides, between the two snapshots, and whoever gets an id again.
THEOREM SearchCompleteAlways == SearchSpec => []SearchComplete
<1>1. SearchInv => SearchComplete
  BY DEF SearchInv, CoveredInv, EntryOf, SearchComplete, Kept
<1> QED
  BY <1>1, AlwaysSearchInv, PTL

\* An id in the result is that of a process which used the path at some time of
\* the search.
THEOREM SearchSoundAlways == SearchSpec => []SearchSoundById
<1>1. SearchInv => SearchSoundById
  BY DEF SearchInv, SoundInv, SearchSoundById
<1> QED
  BY <1>1, AlwaysSearchInv, PTL

-----------------------------------------------------------------------------
(* PathMatch, for names of any length and any set of selected directories. *)

CONSTANT Unit

Name == Seq(Unit)

(* The selected directories have the paths they have in the file system:     *)
(* what lies below another one has that one's path and the rest of its name. *)
Nested(dirs) ==
    \A d, e \in DOMAIN dirs :
        StartsWith(e, d) => dirs[e] = dirs[d] \o SubSeq(e, Len(d) + 1, Len(e))

(* A directory that matches a name begins it.                                *)
LEMMA MatchBegins ==
    ASSUME NEW name \in Name, NEW d \in Name, Sep \in Unit, Matches(name, d)
    PROVE  Len(d) <= Len(name) /\ \A i \in 1..Len(d) : name[i] = d[i]
<1> DEFINE c == Closed(d)
<1>1. c \in Name /\ Len(d) <= Len(c) /\ \A i \in 1..Len(d) : c[i] = d[i]
  BY DEF Closed, Name
<1>2. Len(c) <= Len(name) /\ SubSeq(name, 1, Len(c)) = c
  BY DEF Matches, StartsWith
<1>3. \A i \in 1..Len(c) : SubSeq(name, 1, Len(c))[i] = name[i]
  BY <1>1, <1>2 DEF Name
<1> QED BY <1>1, <1>2, <1>3 DEF Name

(* Which of two selected directories that lie in each other is found first   *)
(* does not matter: the file is shown with one and the same path, once.      *)
(* That is why the code may take the first one of the map (lines 54-60).     *)
THEOREM OneFileOnePath ==
    ASSUME NEW dirs, DOMAIN dirs \subseteq Name, \A d \in DOMAIN dirs : dirs[d] \in Name,
           Nested(dirs), Sep \in Unit,
           NEW name \in Name, NEW d \in DOMAIN dirs, NEW e \in DOMAIN dirs,
           Matches(name, d), Matches(name, e), Len(d) <= Len(e)
    PROVE  Shown(dirs, d, name) = Shown(dirs, e, name)
<1>1. d \in Name /\ e \in Name /\ dirs[d] \in Name /\ dirs[e] \in Name
  OBVIOUS
<1>2. Len(e) <= Len(name) /\ \A i \in 1..Len(e) : name[i] = e[i]
  BY <1>1, MatchBegins
<1>3. \A i \in 1..Len(d) : name[i] = d[i]
  BY <1>1, MatchBegins
<1>4. StartsWith(e, d)
  <2>1. SubSeq(e, 1, Len(d)) \in Name /\ Len(SubSeq(e, 1, Len(d))) = Len(d)
    BY <1>1 DEF Name
  <2>2. \A i \in 1..Len(d) : SubSeq(e, 1, Len(d))[i] = d[i]
    BY <1>1, <1>2, <1>3 DEF Name
  <2> QED BY <1>1, <2>1, <2>2 DEF StartsWith, Name
<1> DEFINE rest == SubSeq(e, Len(d) + 1, Len(e))
           tail == SubSeq(name, Len(e) + 1, Len(name))
           whole == SubSeq(name, Len(d) + 1, Len(name))
<1>5. dirs[e] = dirs[d] \o rest
  BY <1>4 DEF Nested
<1>6. rest \o tail = whole
  <2>1. rest = SubSeq(name, Len(d) + 1, Len(e))
    <3>1. /\ rest \in Name /\ Len(rest) = Len(e) - Len(d)
          /\ \A i \in 1..Len(e) - Len(d) : rest[i] = e[Len(d) + i]
      BY <1>1 DEF Name
    <3>2. /\ SubSeq(name, Len(d) + 1, Len(e)) \in Name
          /\ Len(SubSeq(name, Len(d) + 1, Len(e))) = Len(e) - Len(d)
          /\ \A i \in 1..Len(e) - Len(d) : SubSeq(name, Len(d) + 1, Len(e))[i] = name[Len(d) + i]
      BY <1>1, <1>2 DEF Name
    <3>3. \A i \in 1..Len(e) - Len(d) : name[Len(d) + i] = e[Len(d) + i]
      BY <1>1, <1>2 DEF Name
    <3>4. /\ Len(rest) = Len(SubSeq(name, Len(d) + 1, Len(e)))
          /\ \A i \in 1..Len(rest) : rest[i] = SubSeq(name, Len(d) + 1, Len(e))[i]
      BY <3>1, <3>2, <3>3
    <3> QED BY <3>1, <3>2, <3>4, SeqEqual, Zenon DEF Name
  <2>2. /\ Len(d) + 1 \in 1..Len(name) + 1 /\ Len(e) \in (Len(d) + 1) - 1..Len(name)
        /\ Len(name) \in Len(e)..Len(name)
    BY <1>1, <1>2 DEF Name
  <2>3. SubSeq(name, Len(d) + 1, Len(e)) \o tail = whole
    BY <2>2, ConcatAdjacentSubSeq, Zenon DEF Name
  <2> QED BY <2>1, <2>3
<1>7. (dirs[d] \o rest) \o tail = dirs[d] \o (rest \o tail)
  <2>1. rest \in Name /\ tail \in Name
    BY <1>1, <1>2 DEF Name
  <2>2. dirs[d] \in Seq(Unit) /\ rest \in Seq(Unit) /\ tail \in Seq(Unit)
    BY <1>1, <2>1 DEF Name
  <2> HIDE DEF rest, tail
  <2> QED BY <2>2
<1> QED BY <1>5, <1>6, <1>7 DEF Shown

(* A sibling whose name merely begins with that of the directory does not    *)
(* match it: the separator is part of what is compared (line 56).            *)
THEOREM SiblingsDoNotMatch ==
    ASSUME NEW name \in Name, NEW d \in Name, d # <<>>, d[Len(d)] # Sep, Sep \in Unit,
           Len(name) > Len(d), name[Len(d) + 1] # Sep
    PROVE  ~Matches(name, d)
<1> SUFFICES ASSUME Matches(name, d) PROVE FALSE
  OBVIOUS
<1>1. Closed(d) = Append(d, Sep)
  BY DEF Closed, Name
<1>2. SubSeq(name, 1, Len(d) + 1) = Append(d, Sep)
  BY <1>1 DEF Matches, StartsWith, Name
<1>3. SubSeq(name, 1, Len(d) + 1)[Len(d) + 1] = name[Len(d) + 1]
  BY DEF Name
<1>4. Append(d, Sep)[Len(d) + 1] = Sep
  BY DEF Name
<1> QED BY <1>2, <1>3, <1>4
=============================================================================
