------------------------- MODULE HandleEnumeration -------------------------
(***************************************************************************)
(* What a caller of NtdllExtensions::handles() relies on: a list of all    *)
(* the file handles of the system whose queries return, each once and in   *)
(* the order of the system's table, or an empty list when the table itself *)
(* cannot be had ("On failure, returns an empty vector.").  Nothing is     *)
(* said of threads, hanging queries or handles of our own.                 *)
(***************************************************************************)
EXTENDS Integers, Sequences

CONSTANT N
VARIABLES files, reported, done

evars == <<files, reported, done>>

Init == /\ files \in SUBSET (0 .. N-1)
        /\ reported = <<>>
        /\ done = FALSE

Reported == {reported[a] : a \in DOMAIN reported}

\* The next file of the table.
Report(h) ==
    /\ ~done
    /\ h \in files \ Reported
    /\ \A g \in files : g < h => g \in Reported
    /\ reported' = Append(reported, h)
    /\ UNCHANGED <<files, done>>

Return ==
    /\ ~done
    /\ Reported = files
    /\ done' = TRUE
    /\ UNCHANGED <<files, reported>>

\* The table cannot be read: the caller gets the empty list.
Fail ==
    /\ ~done
    /\ reported = <<>>
    /\ done' = TRUE
    /\ UNCHANGED <<files, reported>>

Next == (\E h \in 0 .. N-1 : Report(h)) \/ Return \/ Fail

Spec == Init /\ [][Next]_evars
FairSpec == Spec /\ WF_evars(Next)
=============================================================================
