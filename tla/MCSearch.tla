------------------------------ MODULE MCSearch ------------------------------
(* Three processes: a may use the path by either of two handles and b by a   *)
(* handle or as a module; c, with one handle, cannot be opened.  Of b, the    *)
(* handle can be duplicated but its name cannot be had.  Two process ids.     *)
(* What "uses the path" stands for is checked of PathMatch, over short names. *)
EXTENDS Search, Sequences, TLC

Match == INSTANCE PathMatch WITH Sep <- "sep"

MCProcs  == {"a", "b", "c"}
MCPids   == {1, 2}
MCValues == {"h4", "h8"}
MCModule == "module"
MCWays   == ("a" :> MCValues @@ "b" :> {"h4", "module"} @@ "c" :> {"h4"})
MCDenied == {"c"}
MCHidden == ("a" :> {} @@ "b" :> {"h4"} @@ "c" :> {})

\* Names as the kernel makes them, of at most this many units (BOUND).
NameLength == 6
Names ==
    {n \in UNION {[1..k -> {"sep", "a", "b"}] : k \in 1..NameLength} :
        n[1] = "sep" /\ \A i \in 2..Len(n) : ~(n[i] = "sep" /\ n[i-1] = "sep")}

\* The names of the directories a file lies in, from the inside.
Parent(n) ==
    LET last == CHOOSE i \in 1..Len(n) : n[i] = "sep" /\ \A j \in i+1..Len(n) : n[j] # "sep"
    IN  SubSeq(n, 1, last - 1)

RECURSIVE Above(_)
Above(n) == IF n = <<>> THEN {} ELSE {Parent(n)} \cup Above(Parent(n))

Trim(n) == IF n # <<>> /\ n[Len(n)] = "sep" THEN SubSeq(n, 1, Len(n) - 1) ELSE n

\* A directory matches what lies below it, and nothing else, such as a sibling
\* whose name begins alike.
ASSUME MatchesWhatIsBelow ==
    \A n, d \in Names : Match!Matches(n, d) <=> Trim(d) \in Above(n)

\* Five paths are selected: a file; a directory, under two drives; one in it; and
\* one that has gone.  What is found is shown below the path that was given last.
Given ==
    << <<"A">>, <<"B">>, <<"A", "sep", "a">>, <<"F">>, <<"G">> >>
KernelOf ==
    [q \in {Given[i] : i \in 1..5} |->
        CASE q \in {<<"A">>, <<"B">>} -> <<"sep", "a">>
          [] q = <<"F">> -> <<"sep", "a", "sep", "b">>
          [] q = <<"G">> -> <<>>
          [] OTHER -> <<"sep", "a", "sep", "a">>]

ASSUME ShowsSelectedPath ==
    LET files == Match!Selected(Given, KernelOf, {<<"F">>, <<"G">>})
        dirs  == Match!Selected(Given, KernelOf, {<<"A">>, <<"B">>, <<"A", "sep", "a">>})
    IN  \A n \in Names :
          Match!KernelPathsContain(files, dirs, n) =
            CASE n = <<"sep", "a", "sep", "b">> -> <<"F">>
              [] n = <<"sep", "a", "sep", "a">> -> <<"A", "sep", "a">>
              [] n \notin DOMAIN files \cup {<<"sep", "a", "sep", "a">>}
                   /\ (n = <<"sep", "a">> \/ <<"sep", "a">> \in Above(n)) ->
                   <<"B">> \o SubSeq(n, 3, Len(n))
              [] OTHER -> <<>>
=============================================================================
