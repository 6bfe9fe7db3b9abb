----------------------------- MODULE LastRunFile ----------------------------
(***************************************************************************)
(* last-run.log, through which the context menu hands the selected paths   *)
(* to the window, and a window to its elevated successor.  There is no     *)
(* lock: the menu (ipc::Writer) truncates the file, launches the window    *)
(* and then writes; the window (ReadPathsFromFile) reads once, when it     *)
(* starts; StartAsElevated writes first and launches then.  The streams    *)
(* are buffered and in text mode.                                          *)
(***************************************************************************)
EXTENDS Naturals, Sequences, SequencesExt

CONSTANTS
    Invocations,    \* uses of the menu entry
    Items,          \* what Explorer shows
    Selections,     \* what may be selected: sequences of items
    Paths,          \* the items that have a file system path
    Size,           \* Size[p]: the length of path p, in units
    CtrlZ,          \* paths in whose UTF-16 text a byte is 1A (U+4E1A, U+041A)
    NoSelection,    \* Explorer passes a null selection
    Buffer          \* the size of a stream buffer, in units

ASSUME FileAssumption ==
    /\ \A s \in Selections \ {NoSelection} : s \in Seq(Items)
    /\ Paths \subseteq Items /\ CtrlZ \subseteq Paths /\ Size \in [Paths -> Nat \ {0}]
    /\ Buffer \in Nat \ {0}

\* A use of the menu writes and launches a window, which may restart itself.
Actors == Invocations \X {"menu", "restart"}
Parent(a) == <<a[1], "menu">>

VARIABLES
    sel,        \* the selection of each invocation
    file,       \* what is on the disk: a sequence of units
    pc,         \* where each writer is
    left,       \* what each writer has yet to write out
    offset,     \* the position of each writer's stream
    ui,         \* the state of the window each writer launches
    view,       \* what that window has read
    pos,        \* the position of its stream
    meant,      \* ghost: the lines each writer means to hand over
    disturbed,  \* ghost: writers since whose opening another one changed the file
    early       \* ghost: writers whose window read before they had closed

writerVars == <<pc, left, offset, meant>>
readerVars == <<ui, view, pos, early>>
vars == <<sel, file, writerVars, readerVars, disturbed>>

\* Units: pieces of a path, line breaks, and what NTFS fills a gap with.
NL  == <<"newline", 0>>
NUL == <<"zero", 0>>
UnitSet == {NL, NUL} \cup UNION {{<<p, k>> : k \in 1..Size[p]} : p \in Paths}

Line(p) == [k \in 1..Size[p] |-> <<p, k>>]
HasCtrlZ(u) == \E p \in CtrlZ : u = <<p, Size[p]>>

\* Mutant: the destructor only closes the file.
OutputOpenEnd(lines) == FlattenSeq([n \in DOMAIN lines |-> Append(lines[n], NL)])

\* What add_path and finish make of the lines.
Output(lines) == FlattenSeq([n \in DOMAIN lines |-> Append(lines[n], NL)]) \o <<NL>>

\* The items that have a path: GetDisplayName fails for the others.
SelectedLines(s) ==
    IF s = NoSelection THEN <<>>
    ELSE LET upTo[n \in 0..Len(s)] ==
               IF n = 0 THEN <<>> ELSE IF s[n] \in Paths THEN Append(upTo[n - 1], Line(s[n])) ELSE upTo[n - 1]
         IN  upTo[Len(s)]

WriteAt(f, off, us) ==
    [n \in 1 .. (IF off + Len(us) > Len(f) THEN off + Len(us) ELSE Len(f)) |->
        IF off < n /\ n <= off + Len(us) THEN us[n - off]
        ELSE IF n <= Len(f) THEN f[n] ELSE NUL]

NothingRead == [line |-> <<>>, lines |-> <<>>, finished |-> FALSE]

TypeOK ==
    /\ sel \in [Invocations -> Selections]
    /\ file \in Seq(UnitSet)
    /\ pc \in [Actors -> {"idle", "constructed", "started", "writing", "closed"}]
    /\ \A a \in Actors : left[a] \in Seq(UnitSet) /\ offset[a] \in Nat
    /\ \A a \in Actors : left[a] # <<>> => pc[a] = "writing"
    /\ ui \in [Actors -> {"none", "reading", "shown", "gone"}]
    /\ \A a \in Actors : pos[a] \in Nat
    /\ disturbed \subseteq Actors /\ early \subseteq Actors

Init ==
    /\ sel \in [Invocations -> Selections]
    /\ file = <<>>
    /\ pc = [a \in Actors |-> "idle"]
    /\ left = [a \in Actors |-> <<>>] /\ offset = [a \in Actors |-> 0]
    /\ meant = [a \in Actors |-> <<>>]
    /\ ui = [a \in Actors |-> "none"]
    /\ view = [a \in Actors |-> NothingRead] /\ pos = [a \in Actors |-> 0]
    /\ disturbed = {} /\ early = {}

-----------------------------------------------------------------------------
Disturb(a) == disturbed' = disturbed \cup {b \in Actors \ {a} : pc[b] # "idle"}

\* Mutant: the file is not truncated before something is written.
OpenStreamLazily(a) ==
    /\ UNCHANGED file
    /\ offset' = [offset EXCEPT ![a] = 0]
    /\ Disturb(a)

\* std::ofstream(path): the file is empty from now on.
OpenStream(a) ==
    /\ file' = <<>>
    /\ offset' = [offset EXCEPT ![a] = 0]
    /\ Disturb(a)

Starts(a) == ui' = [ui EXCEPT ![a] = "reading"]

\* Invoke: the constructor of Writer opens the file.
Construct(a) ==
    /\ a[2] = "menu" /\ pc[a] = "idle"
    /\ OpenStream(a)
    /\ pc' = [pc EXCEPT ![a] = "constructed"]
    /\ UNCHANGED <<sel, left, meant, readerVars>>

\* A null selection: the destructor still ends the list.
ReturnEarly(a) ==
    /\ pc[a] = "constructed"
    /\ sel[a[1]] = NoSelection
    /\ pc' = [pc EXCEPT ![a] = "writing"]
    /\ left' = [left EXCEPT ![a] = Output(<<>>)]
    /\ UNCHANGED <<sel, file, offset, meant, readerVars, disturbed>>

\* writer.start() opens it once more.
StartWriter(a) ==
    /\ pc[a] = "constructed"
    /\ sel[a[1]] # NoSelection
    /\ OpenStream(a)
    /\ pc' = [pc EXCEPT ![a] = "started"]
    /\ UNCHANGED <<sel, left, meant, readerVars>>

\* The window is launched before anything is written; or it is not, and only
\* the end of the list is.
Launch(a) ==
    /\ pc[a] = "started"
    /\ pc' = [pc EXCEPT ![a] = "writing"]
    /\ \/ /\ Starts(a)
          /\ meant' = [meant EXCEPT ![a] = SelectedLines(sel[a[1]])]
          /\ left' = [left EXCEPT ![a] = Output(SelectedLines(sel[a[1]]))]
       \/ /\ left' = [left EXCEPT ![a] = Output(<<>>)]
          /\ UNCHANGED <<ui, meant>>
    /\ UNCHANGED <<sel, file, offset, view, pos, early, disturbed>>

\* add_path fills the buffer of the stream; what a full buffer holds goes out.
Flush(a) ==
    /\ pc[a] = "writing"
    /\ Len(left[a]) > Buffer
    /\ file' = WriteAt(file, offset[a], SubSeq(left[a], 1, Buffer))
    /\ left' = [left EXCEPT ![a] = SubSeq(@, Buffer + 1, Len(@))]
    /\ offset' = [offset EXCEPT ![a] = @ + Buffer]
    /\ Disturb(a)
    /\ UNCHANGED <<sel, pc, meant, readerVars>>

\* Mutant: what the buffer holds stays in it.
CloseUnflushed(a) ==
    /\ pc[a] = "writing"
    /\ Len(left[a]) <= Buffer
    /\ pc' = [pc EXCEPT ![a] = "closed"]
    /\ UNCHANGED <<sel, file, left, offset, meant, readerVars, disturbed>>

\* finish(), stream.close(): the rest goes out.
Close(a) ==
    /\ pc[a] = "writing"
    /\ Len(left[a]) <= Buffer
    /\ file' = WriteAt(file, offset[a], left[a])
    /\ left' = [left EXCEPT ![a] = <<>>]
    /\ pc' = [pc EXCEPT ![a] = "closed"]
    /\ Disturb(a)
    /\ UNCHANGED <<sel, offset, meant, readerVars>>

-----------------------------------------------------------------------------
\* ReadPathsFromFile, one character; text mode ends at a byte 1A.
ReadUnit(v, u) ==
    IF v.finished THEN v
    ELSE IF HasCtrlZ(u) \/ (u = NL /\ v.line = <<>>) THEN [v EXCEPT !.finished = TRUE]
    ELSE IF u = NL THEN [v EXCEPT !.line = <<>>, !.lines = Append(v.lines, v.line)]
    ELSE [v EXCEPT !.line = Append(v.line, u)]

ReadUnits(v, us) ==
    LET after[n \in 0..Len(us)] == IF n = 0 THEN v ELSE ReadUnit(after[n - 1], us[n])
    IN  after[Len(us)]

\* One buffer of the file, as much of it as there is; the loop ends at the end
\* of the file or of the list.
ReadChunk(a) ==
    LET upTo == IF pos[a] + Buffer < Len(file) THEN pos[a] + Buffer ELSE Len(file)
        v    == ReadUnits(view[a], SubSeq(file, pos[a] + 1, upTo))
        last == v.finished \/ upTo <= pos[a]
    IN  /\ ui[a] = "reading"
        /\ view' = [view EXCEPT ![a] = v]
        /\ pos' = [pos EXCEPT ![a] = upTo]
        /\ ui' = [ui EXCEPT ![a] = IF last THEN "shown" ELSE "reading"]
        /\ early' = IF pc[a] # "closed" THEN early \cup {a} ELSE early
        /\ UNCHANGED <<sel, file, writerVars, disturbed>>

\* StartAsElevated(paths) writes what the window has read ...
Restart(a) ==
    /\ a[2] = "restart" /\ pc[a] = "idle"
    /\ ui[Parent(a)] = "shown"
    /\ OpenStream(a)
    /\ pc' = [pc EXCEPT ![a] = "writing"]
    /\ meant' = [meant EXCEPT ![a] = view[Parent(a)].lines]
    /\ left' = [left EXCEPT ![a] = Output(view[Parent(a)].lines)]
    /\ UNCHANGED <<sel, readerVars>>

\* Mutant: the elevated window is launched first, as by the menu.
LaunchElevatedFirst(a) ==
    /\ a[2] = "restart" /\ pc[a] \in {"writing", "closed"}
    /\ ui[a] = "none" /\ ui[Parent(a)] = "shown"
    /\ ui' = [ui EXCEPT ![a] = "reading", ![Parent(a)] = "gone"]
    /\ UNCHANGED <<sel, file, writerVars, view, pos, early, disturbed>>

\* ... and launches when the file is closed; the window then exits.  When the
\* user declines it stays, and could be restarted once more.
LaunchElevated(a) ==
    /\ a[2] = "restart" /\ pc[a] = "closed"
    /\ ui[a] = "none" /\ ui[Parent(a)] = "shown"
    /\ \/ /\ ui' = [ui EXCEPT ![a] = "reading", ![Parent(a)] = "gone"]
          /\ UNCHANGED pc
       \/ /\ pc' = [pc EXCEPT ![a] = "idle"]
          /\ UNCHANGED ui
    /\ UNCHANGED <<sel, file, left, offset, meant, view, pos, early, disturbed>>

Actor(a) ==
    \/ Construct(a) \/ ReturnEarly(a) \/ StartWriter(a) \/ Launch(a)
    \/ Flush(a) \/ Close(a) \/ ReadChunk(a)
    \/ Restart(a) \/ LaunchElevated(a)

Next == \E a \in Actors : Actor(a)

Spec == Init /\ [][Next]_vars

-----------------------------------------------------------------------------
\* Nobody had more to write than one buffer holds, or only one has written.
Calm ==
    \/ \A a \in Actors : Len(Output(meant[a])) <= Buffer
    \/ disturbed = {}

\* Whenever a window reads, and whoever writes at that time, its list begins
\* like the list of one of the writers: no path twice, none cut off, none mixed
\* from two.
ReadsAPrefix ==
    Calm => \A a \in Actors : \E b \in Actors :
               IsPrefix(view[a].lines, meant[b])

\* The elevated window shows what the one it replaces has shown, if nobody else
\* has written meanwhile.
RestartKeepsPaths ==
    \A a \in Actors :
        (a[2] = "restart" /\ ui[a] = "shown" /\ a \notin disturbed) =>
            view[a].lines = view[Parent(a)].lines

\* The menu never makes its window read a list that was there before, however
\* the two are scheduled.
NothingOld ==
    \A a \in Actors :
        (a[2] = "menu" /\ ui[a] # "none" /\ a \notin disturbed) =>
            IsPrefix(view[a].lines, meant[a])

\* "UTF-16, line breaks, an empty line at the end": a list that was closed before
\* it is read, with nobody else writing, is read to that end.
ClosedListReadsBack ==
    \A a \in Actors :
        (ui[a] = "shown" /\ a \notin disturbed \cup early) => view[a].lines = meant[a]
=============================================================================
