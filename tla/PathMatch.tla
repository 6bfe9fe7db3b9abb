------------------------------ MODULE PathMatch -----------------------------
(***************************************************************************)
(* How find_processes_recursive decides that a file is one of those looked *)
(* for: the names the kernel has for the selected paths, in one map for    *)
(* files and one for directories, and kernel_paths_contain, which also     *)
(* makes the path that is shown.  Names and paths are sequences of units;  *)
(* of these only the separator matters.                                    *)
(***************************************************************************)
EXTENDS Naturals, Sequences

CONSTANT Sep    \* the backslash

\* The paths of a kind by their kernel names; a path without one is left out,
\* and the last of two with the same name stays.  KernelName is
\* path_to_kernel_name, kind the paths that are directories, or that are not.
Selected(paths, KernelName, kind) ==
    LET At(k) == {i \in DOMAIN paths : paths[i] \in kind /\ KernelName[paths[i]] = k}
        Last(k) == CHOOSE i \in At(k) : \A j \in At(k) : j <= i
        Keys == {KernelName[paths[i]] : i \in DOMAIN paths} \ {<<>>}
    IN  [k \in {q \in Keys : At(q) # {}} |-> paths[Last(k)]]

StartsWith(whole, part) ==
    Len(whole) >= Len(part) /\ SubSeq(whole, 1, Len(part)) = part

\* The directory's name with one separator behind it.
Closed(dir) == IF Len(dir) > 0 /\ dir[Len(dir)] # Sep THEN Append(dir, Sep) ELSE dir

Matches(name, dir) == StartsWith(name, Closed(dir))

\* dir_path + kernel_name.substr(...)
Shown(dirs, d, name) == dirs[d] \o SubSeq(name, Len(d) + 1, Len(name))

\* The map has its keys in lexicographic order: of the directories that match,
\* which all begin the name, the shortest comes first.
FirstMatch(dirs, name) ==
    LET matching == {d \in DOMAIN dirs : Matches(name, d)}
    IN  CHOOSE d \in matching : \A e \in matching : Len(d) <= Len(e)

\* The path of the file with this name, <<>> if it is not looked for.
KernelPathsContain(files, dirs, name) ==
    IF name \in DOMAIN files THEN files[name]
    ELSE IF name \in DOMAIN dirs THEN dirs[name]
    ELSE IF \E d \in DOMAIN dirs : Matches(name, d)
           THEN Shown(dirs, FirstMatch(dirs, name), name)
    ELSE <<>>
=============================================================================
