---------------------------- MODULE WindowProofs ----------------------------
(***************************************************************************)
(* The scan window, from its beginning.  First the paths it is handed in   *)
(* last-run.log, for any selections, windows and sizes of paths: they are  *)
(* not those of before, and begin like the list of one of the writers.     *)
(* Then the list it shows, for any processes, ids and number of loads:     *)
(* what it shows is watched, rows leave for no other reason than the exit  *)
(* of their process, and End task ends no other process than the one       *)
(* watched.                                                                *)
(***************************************************************************)
EXTENDS LastRunFile, Window, SearchProofs, NatRecursion

(***************************************************************************)
(* last-run.log.  A text that a writer puts out is its lines one after the *)
(* other, each with a line break, and one more line break.                 *)
(***************************************************************************)
Plain(l)  == \A k \in 1..Len(l) : l[k] # NL
Clean(l)   == \A k \in 1..Len(l) : l[k] # NL /\ ~HasCtrlZ(l[k])
PlainLines == {l \in Seq(UnitSet) : l # <<>> /\ Plain(l)}
KeptLines  == {l \in Seq(UnitSet) : l # <<>> /\ Clean(l)}

\* A line (l) and its break are in a text (t) behind position x.
Has(t, x, l) == (\A k \in 1..Len(l) : t[x + k] = l[k]) /\ t[x + Len(l) + 1] = NL

\* ends[j] is where line j of the list (ls) ends in the text (t).
Shape(ls, t, ends) ==
    /\ ends \in [0..Len(ls) -> Nat] /\ ends[0] = 0
    /\ t \in Seq(UnitSet) /\ Len(t) = ends[Len(ls)] + 1 /\ t[ends[Len(ls)] + 1] = NL
    /\ \A j \in 1..Len(ls) :
         /\ ends[j] = ends[j - 1] + Len(ls[j]) + 1 /\ ends[j] <= ends[Len(ls)]
         /\ Has(t, ends[j - 1], ls[j])

EndsOf(ls) == CHOOSE ends : Shape(ls, Output(ls), ends)

\* What a window has read (v) after the first n units of the text of the list (ls).
Reading(v, ls, n) ==
    \/ /\ v.finished /\ IsPrefix(v.lines, ls)
       /\ (\A j \in 1..Len(ls) : Clean(ls[j])) => v.lines = ls
    \/ /\ ~v.finished
       /\ \E j \in 0..Len(ls) :
            /\ v.lines = SubSeq(ls, 1, j) /\ n = EndsOf(ls)[j] + Len(v.line)
            /\ v.line # <<>> => /\ j < Len(ls) /\ Len(v.line) <= Len(ls[j + 1])
                                /\ \A k \in 1..Len(v.line) : v.line[k] = ls[j + 1][k]

Views == {v \in [line : Seq(UnitSet), lines : Seq(KeptLines), finished : BOOLEAN] : Clean(v.line)}

FileTypesInv ==
    /\ sel \in [Invocations -> Selections] /\ file \in Seq(UnitSet)
    /\ pc \in [Actors -> {"idle", "constructed", "started", "writing", "closed"}]
    /\ left \in [Actors -> Seq(UnitSet)] /\ offset \in [Actors -> Nat]
    /\ meant \in [Actors -> Seq(PlainLines)]
    /\ ui \in [Actors -> {"none", "reading", "shown", "gone"}]
    /\ view \in [Actors -> Views] /\ pos \in [Actors -> Nat]
    /\ disturbed \in SUBSET Actors /\ early \in SUBSET Actors

\* A writer of a kind (k), where it is (p), what it has left (l) and means (m),
\* and its window (w), what that has read (v) up to where (n).
ActorOK(k, p, l, m, w, v, n) ==
    /\ l # <<>> => p = "writing"
    /\ w = "none" => v = NothingRead /\ n = 0
    /\ w # "none" => p = "closed" \/ (k = "menu" /\ p = "writing")
    /\ k = "restart" => p \notin {"constructed", "started"}
    /\ k = "menu" /\ p \in {"idle", "constructed", "started"} => m = <<>>

\* What a restart hands over is what the window has read that it replaces.
SuccessorOK(p, m, w, v) ==
    \/ p = "idle" /\ m = <<>>
    \/ m = v.lines /\ w \in {"shown", "gone"}

\* The file (f) is the writer's alone: its stream is at o.
Alone(k, p, l, o, m, w, v, n, f) ==
    /\ p \in {"constructed", "started"} => f = <<>> /\ o = 0
    /\ p \in {"writing", "closed"} => f \o l = Output(m)
    /\ p = "writing" => o = Len(f)
    /\ w # "none" => Reading(v, m, n) /\ n <= Len(f)
    /\ k = "restart" /\ w \in {"shown", "gone"} => v.finished

OwnOK(a)    == ActorOK(a[2], pc[a], left[a], meant[a], ui[a], view[a], pos[a])
HandedOK(a) == a[2] = "restart" => SuccessorOK(pc[a], meant[a], ui[Parent(a)], view[Parent(a)])
AloneOK(a)  == a \notin disturbed /\ pc[a] # "idle" =>
                 Alone(a[2], pc[a], left[a], offset[a], meant[a], ui[a], view[a], pos[a], file)

FileInv == FileTypesInv /\ \A a \in Actors : OwnOK(a) /\ HandedOK(a) /\ AloneOK(a)

\* Units that are no line breaks, and those that are.
LEMMA Breaks ==
    /\ NL \in UnitSet /\ NUL \in UnitSet /\ NL # NUL /\ ~HasCtrlZ(NL)
    /\ \A p \in Paths : \A k \in 1..Size[p] : <<p, k>> \in UnitSet /\ <<p, k>> # NL
<1>1. NL \in UnitSet /\ NUL \in UnitSet
  BY DEF UnitSet
<1>2. \A p \in Paths : \A k \in 1..Size[p] : <<p, k>> \in UnitSet
  BY DEF UnitSet
<1>3. \A p \in Paths, k \in Nat \ {0} : <<p, k>> # NL
  BY DEF NL
<1>4. \A p \in Paths : Size[p] \in Nat \ {0}
  BY FileAssumption
<1>5. \A p \in Paths : \A k \in 1..Size[p] : k \in Nat \ {0}
  BY <1>4
<1>6. ~HasCtrlZ(NL)
  <2> SUFFICES ASSUME NEW p \in CtrlZ, NL = <<p, Size[p]>> PROVE FALSE
    BY DEF HasCtrlZ
  <2>1. p \in Paths
    BY FileAssumption
  <2> QED BY <1>3, <1>4, <2>1
<1>7. NL # NUL
  BY DEF NL, NUL
<1> QED BY <1>1, <1>2, <1>3, <1>5, <1>6, <1>7

Flattens(q, k, f) == f = [i \in 1..k |-> IF i = 1 THEN q[i] ELSE f[i - 1] \o q[i]]

\* The library's function that flattens a sequence has values, of any length.
LEMMA FlattensExist ==
    ASSUME NEW q, NEW k \in Nat
    PROVE  \E f : Flattens(q, k, f)
<1> DEFINE S == {n \in Nat : \E f : Flattens(q, n, f)}
<1>1. 0 \in S
  <2>1. Flattens(q, 0, [i \in 1..0 |-> <<>>])
    BY DEF Flattens
  <2> QED BY <2>1
<1>2. \A n \in S : n + 1 \in S
  <2> TAKE n \in S
  <2>1. PICK f : Flattens(q, n, f)
    OBVIOUS
  <2> DEFINE next == IF n + 1 = 1 THEN q[n + 1] ELSE f[n] \o q[n + 1]
             g == [i \in 1..(n + 1) |-> IF i = n + 1 THEN next ELSE f[i]]
  <2> DEFINE body(i) == IF i = 1 THEN q[i] ELSE g[i - 1] \o q[i]
  <2>2. \A i \in 1..(n + 1) : g[i] = body(i)
    <3> TAKE i \in 1..(n + 1)
    <3>1. CASE i = n + 1
      <4>1. g[i] = next /\ (i # 1 => i - 1 \in 1..(n + 1) /\ i - 1 # n + 1 /\ i - 1 = n)
        BY <3>1
      <4>2. i # 1 => g[i - 1] = f[n]
        BY <4>1
      <4> QED BY <3>1, <4>1, <4>2
    <3>2. CASE i # n + 1
      <4>1. i \in 1..n /\ g[i] = f[i]
        BY <3>2
      <4>2. f[i] = IF i = 1 THEN q[i] ELSE f[i - 1] \o q[i]
        BY <2>1, <4>1 DEF Flattens
      <4>3. i # 1 => i - 1 \in 1..(n + 1) /\ i - 1 # n + 1
        BY <4>1
      <4>4. i # 1 => g[i - 1] = f[i - 1]
        BY <4>3
      <4> QED BY <4>1, <4>2, <4>4
    <3> QED BY <3>1, <3>2
  <2>3. g = [i \in 1..(n + 1) |-> body(i)]
    <3> HIDE DEF body
    <3> QED BY <2>2
  <2>4. Flattens(q, n + 1, g)
    BY <2>3 DEF Flattens
  <2> QED BY <2>4
<1>3. S = Nat
  <2> HIDE DEF S
  <2>1. S \subseteq Nat
    BY DEF S
  <2> QED BY <1>1, <1>2, <2>1, NatInduct
<1> QED BY <1>3

\* It puts them one after the other.
LEMMA FlattenValue ==
    ASSUME NEW U, NEW q \in Seq(Seq(U))
    PROVE  \E g \in [0..Len(q) -> Seq(U)] :
              g[0] = <<>> /\ (\A i \in 1..Len(q) : g[i] = g[i - 1] \o q[i]) /\ FlattenSeq(q) = g[Len(q)]
<1> PICK l \in Nat : l = Len(q)
  OBVIOUS
<1>1. CASE l = 0
  <2>1. q = <<>> /\ FlattenSeq(q) = <<>>
    <3>1. q = <<>>
      BY <1>1, EmptySeq
    <3>2. FlattenSeq(q) = q
      BY <1>1 DEF FlattenSeq
    <3> QED BY <3>1, <3>2
  <2> DEFINE g == [i \in 0..0 |-> <<>>]
  <2>2. g \in [0..Len(q) -> Seq(U)] /\ g[0] = <<>>
    BY <1>1, EmptySeq
  <2>3. \A i \in 1..Len(q) : g[i] = g[i - 1] \o q[i]
    BY <1>1
  <2>4. FlattenSeq(q) = g[Len(q)]
    BY <1>1, <2>1
  <2> HIDE DEF g
  <2> QED BY <2>2, <2>3, <2>4
<1>2. CASE l # 0
  <2> DEFINE f == CHOOSE x : Flattens(q, l, x)
  <2>1. Flattens(q, l, f)
    BY FlattensExist
  <2>2. FlattenSeq(q) = f[l]
    BY <1>2 DEF FlattenSeq, Flattens
  <2> HIDE DEF f
  <2>3. \A i \in 1..l : f[i] = IF i = 1 THEN q[i] ELSE f[i - 1] \o q[i]
    BY <2>1 DEF Flattens
  <2>4. \A i \in 1..l : q[i] \in Seq(U)
    OBVIOUS
  <2> DEFINE S == {n \in Nat : n \in 1..l => f[n] \in Seq(U)}
  <2>5. S = Nat
    <3>1. 0 \in S
      OBVIOUS
    <3>2. \A n \in S : n + 1 \in S
      <4> SUFFICES ASSUME NEW n \in S, n + 1 \in 1..l PROVE f[n + 1] \in Seq(U)
        OBVIOUS
      <4>1. CASE n = 0
        BY <2>3, <2>4, <4>1
      <4>2. CASE n # 0
        <5>1. n \in 1..l /\ (n + 1) - 1 = n /\ n + 1 # 1
          BY <4>2
        <5>2. f[n] \in Seq(U) /\ q[n + 1] \in Seq(U) /\ f[n + 1] = f[n] \o q[n + 1]
          BY <2>3, <2>4, <5>1
        <5> QED BY <5>2, ConcatProperties
      <4> QED BY <4>1, <4>2
    <3> HIDE DEF S
    <3>3. S \subseteq Nat
      BY DEF S
    <3> QED BY <3>1, <3>2, <3>3, NatInduct
  <2>6. \A n \in 1..l : f[n] \in Seq(U)
    <3> TAKE n \in 1..l
    <3>1. n \in S
      BY <2>5
    <3> QED BY <3>1
  <2> HIDE DEF S
  <2> DEFINE g == [i \in 0..l |-> IF i = 0 THEN <<>> ELSE f[i]]
  <2>7. g \in [0..l -> Seq(U)]
    <3>1. <<>> \in Seq(U)
      BY EmptySeq
    <3>2. \A i \in 0..l : i # 0 => i \in 1..l
      OBVIOUS
    <3> QED BY <2>6, <3>1, <3>2
  <2>8. g[0] = <<>>
    OBVIOUS
  <2>9. \A i \in 1..l : g[i] = g[i - 1] \o q[i]
    <3> TAKE i \in 1..l
    <3>1. i \in 0..l /\ i - 1 \in 0..l /\ i # 0 /\ g[i] = f[i]
      OBVIOUS
    <3>2. CASE i = 1
      <4>1. g[i - 1] = <<>> /\ q[i] \in Seq(U) /\ f[i] = q[i]
        BY <2>3, <2>4, <3>2
      <4> QED BY <3>1, <4>1, ConcatEmptySeq
    <3>3. CASE i # 1
      <4>1. i - 1 # 0 /\ i - 1 \in 0..l
        BY <3>3
      <4>2. g[i - 1] = f[i - 1]
        BY <4>1
      <4>3. f[i] = f[i - 1] \o q[i]
        BY <2>3, <3>3
      <4> QED BY <3>1, <4>2, <4>3
    <3> QED BY <3>2, <3>3
  <2>10. FlattenSeq(q) = g[l]
    BY <1>2, <2>2
  <2> HIDE DEF g
  <2> QED BY <2>7, <2>8, <2>9, <2>10
<1> QED BY <1>1, <1>2

\* A text that is continued has its lines where it had them.
LEMMA HasStill ==
    ASSUME NEW U, NEW a \in Seq(U), NEW s \in Seq(U), NEW x \in Nat, NEW l \in Seq(U),
           x + Len(l) + 1 <= Len(a), Has(a, x, l)
    PROVE  Has(a \o s, x, l)
<1> PICK u \in Seq(U) : u = a \o s
  BY ConcatProperties
<1> PICK m \in Nat : m = Len(a)
  OBVIOUS
<1> PICK n \in Nat : n = Len(s)
  OBVIOUS
<1> PICK y \in Nat : y = Len(l)
  OBVIOUS
<1>1. \A k \in 1..(m + n) : u[k] = IF k <= m THEN a[k] ELSE s[k - m]
  BY ConcatProperties
<1>2. \A k \in 1..m : k \in 1..(m + n) /\ k <= m
  OBVIOUS
<1>3. \A k \in 1..m : u[k] = a[k]
  BY <1>1, <1>2
<1>4. \A k \in 1..y : x + k \in 1..m
  OBVIOUS
<1>5. x + y + 1 \in 1..m
  OBVIOUS
<1>6. \A k \in 1..y : u[x + k] = l[k]
  BY <1>3, <1>4 DEF Has
<1>7. u[x + y + 1] = NL
  BY <1>3, <1>5 DEF Has
<1> QED BY <1>6, <1>7 DEF Has

\* A line is added at its end.
LEMMA HasNow ==
    ASSUME NEW a \in Seq(UnitSet), NEW l \in Seq(UnitSet)
    PROVE  Has(a \o Append(l, NL), Len(a), l) /\ Len(a \o Append(l, NL)) = Len(a) + Len(l) + 1
<1> PICK s \in Seq(UnitSet) : s = Append(l, NL)
  BY Breaks, AppendProperties
<1> PICK u \in Seq(UnitSet) : u = a \o s
  BY ConcatProperties
<1> PICK m \in Nat : m = Len(a)
  OBVIOUS
<1> PICK y \in Nat : y = Len(l)
  OBVIOUS
<1>1. Len(s) = y + 1 /\ s[y + 1] = NL /\ \A k \in 1..y : s[k] = l[k]
  BY Breaks, AppendProperties
<1>2. Len(u) = m + (y + 1) /\ \A k \in 1..(m + (y + 1)) : u[k] = IF k <= m THEN a[k] ELSE s[k - m]
  <2>1. Len(u) = Len(a) + Len(s) /\ \A k \in 1..(Len(a) + Len(s)) : u[k] = IF k <= Len(a) THEN a[k] ELSE s[k - Len(a)]
    BY ConcatProperties
  <2>2. Len(a) = m /\ Len(s) = y + 1
    BY <1>1
  <2> QED BY <2>1, <2>2
<1>3. \A k \in 1..(y + 1) : m + k \in 1..(m + (y + 1)) /\ ~(m + k <= m) /\ (m + k) - m = k
  OBVIOUS
<1>4. \A k \in 1..(y + 1) : u[m + k] = s[k]
  BY <1>2, <1>3
<1>5. \A k \in 1..y : k \in 1..(y + 1)
  OBVIOUS
<1>6. \A k \in 1..y : u[m + k] = l[k]
  BY <1>1, <1>4, <1>5
<1>7. y + 1 \in 1..(y + 1) /\ m + (y + 1) = m + y + 1
  OBVIOUS
<1>8. u[m + y + 1] = NL
  BY <1>1, <1>4, <1>7
<1> QED BY <1>2, <1>6, <1>7, <1>8 DEF Has

\* Where the lines are in the first parts of a text (g).
Begins(ls, g, n) == \A j \in 1..n : Len(g[j]) <= Len(g[n]) /\ Has(g[n], Len(g[j - 1]), ls[j])

\* A text has the lines of its list, in order, and ends with an empty one.
LEMMA OutputShape ==
    ASSUME NEW ls \in Seq(PlainLines)
    PROVE  Shape(ls, Output(ls), EndsOf(ls))
<1> PICK l \in Nat : l = Len(ls)
  OBVIOUS
<1>1. \A n \in 1..l : ls[n] \in Seq(UnitSet)
  BY DEF PlainLines
<1>2. \A n \in 1..l : Append(ls[n], NL) \in Seq(UnitSet)
  <2> TAKE n \in 1..l
  <2>1. ls[n] \in Seq(UnitSet) /\ NL \in UnitSet
    BY <1>1, Breaks
  <2> QED BY <2>1, AppendProperties
<1> PICK q : q = [n \in DOMAIN ls |-> Append(ls[n], NL)]
  OBVIOUS
<1>3. q \in Seq(Seq(UnitSet)) /\ Len(q) = l /\ \A n \in 1..l : q[n] = Append(ls[n], NL)
  <2>1. q = [n \in 1..l |-> Append(ls[n], NL)]
    OBVIOUS
  <2>2. q \in [1..l -> Seq(UnitSet)]
    BY <1>2, <2>1
  <2>3. q \in Seq(Seq(UnitSet))
    <3>1. \A w : q \in [1..l -> w] => q \in Seq(w)
      BY SeqDef
    <3> QED BY <2>2, <3>1
  <2>4. Len(q) = l
    BY <2>1, <2>3, LenProperties
  <2> QED BY <2>1, <2>3, <2>4
<1>4. PICK g \in [0..l -> Seq(UnitSet)] :
        g[0] = <<>> /\ (\A i \in 1..l : g[i] = g[i - 1] \o q[i]) /\ FlattenSeq(q) = g[l]
  <2> PICK r \in Seq(Seq(UnitSet)) : r = q
    BY <1>3
  <2>1. PICK g \in [0..Len(r) -> Seq(UnitSet)] :
          g[0] = <<>> /\ (\A i \in 1..Len(r) : g[i] = g[i - 1] \o r[i]) /\ FlattenSeq(r) = g[Len(r)]
    BY FlattenValue
  <2>2. Len(r) = l
    BY <1>3
  <2> QED BY <2>1, <2>2
<1>5. \A n \in 1..l : Has(g[n], Len(g[n - 1]), ls[n]) /\ Len(g[n]) = Len(g[n - 1]) + Len(ls[n]) + 1
  <2> TAKE n \in 1..l
  <2>1. n - 1 \in 0..l
    OBVIOUS
  <2> PICK r \in Seq(UnitSet) : r = g[n - 1]
    BY <1>4, <2>1
  <2> PICK i \in Seq(UnitSet) : i = ls[n]
    BY <1>1
  <2>2. g[n] = r \o Append(i, NL)
    BY <1>3, <1>4
  <2>3. Has(r \o Append(i, NL), Len(r), i) /\ Len(r \o Append(i, NL)) = Len(r) + Len(i) + 1
    BY HasNow
  <2> QED BY <2>2, <2>3
<1>6. \A n \in 0..l : Len(g[n]) \in Nat
  BY <1>4
<1>7. \A x, y \in Nat : x <= x + y + 1
  OBVIOUS
<1> DEFINE S == {n \in Nat : n <= l => Begins(ls, g, n)}
<1>8. \A n \in Nat : n \in S
  <2>1. 0 \in S
    BY DEF Begins
  <2>2. \A n \in S : n + 1 \in S
    <3> SUFFICES ASSUME NEW n \in S, n + 1 <= l PROVE Begins(ls, g, n + 1)
      OBVIOUS
    <3> PICK o \in 1..l : o = n + 1
      OBVIOUS
    <3>1. Begins(ls, g, n) /\ o - 1 = n /\ n \in 0..l /\ o \in 0..l
      OBVIOUS
    <3> PICK a \in Seq(UnitSet) : a = g[n]
      BY <1>4, <3>1
    <3> PICK s \in Seq(UnitSet) : s = q[o]
      BY <1>2, <1>3
    <3>2. g[o] = a \o s
      BY <1>4, <3>1
    <3>3. Len(a) <= Len(g[o])
      <4> PICK i \in Nat : i = Len(ls[o])
        BY <1>1
      <4> PICK w \in Nat : w = Len(a)
        OBVIOUS
      <4>1. Len(g[o]) = w + i + 1
        BY <1>5, <3>1
      <4> QED BY <1>7, <4>1
    <3>4. ASSUME NEW j \in 1..n
          PROVE  Len(g[j]) <= Len(g[o]) /\ Has(g[o], Len(g[j - 1]), ls[j])
      <4>1. j \in 1..l /\ j - 1 \in 0..l /\ j \in 0..l
        BY <3>1
      <4> PICK x \in Nat : x = Len(g[j - 1])
        BY <1>6, <4>1
      <4> PICK z \in Nat : z = Len(g[j])
        BY <1>6, <4>1
      <4> PICK m \in Nat : m = Len(g[o])
        BY <1>6, <3>1
      <4> PICK i \in Seq(UnitSet) : i = ls[j]
        BY <1>1, <4>1
      <4>2. z <= Len(a) /\ Has(a, x, i)
        BY <3>1 DEF Begins
      <4>3. x + Len(i) + 1 = z
        BY <1>5, <4>1
      <4>4. Has(a \o s, x, i)
        BY <4>2, <4>3, HasStill
      <4>5. z <= m
        <5> PICK w \in Nat : w = Len(a)
          OBVIOUS
        <5> QED BY <3>3, <4>2
      <4> QED BY <3>2, <4>4, <4>5
    <3>5. Len(g[o]) <= Len(g[o]) /\ Has(g[o], Len(g[o - 1]), ls[o])
      <4>1. Has(g[o], Len(g[o - 1]), ls[o])
        BY <1>5
      <4> PICK m \in Nat : m = Len(g[o])
        BY <1>6, <3>1
      <4> QED BY <4>1
    <3>6. \A j \in 1..o : j \in 1..n \/ j = o
      OBVIOUS
    <3> QED BY <3>4, <3>5, <3>6 DEF Begins
  <2> HIDE DEF S
  <2>3. S \subseteq Nat
    BY DEF S
  <2> QED BY <2>1, <2>2, <2>3, NatInduct
<1> PICK a \in Seq(UnitSet) : a = g[l]
  BY <1>4
<1> PICK t : t = Output(ls)
  OBVIOUS
<1>9. t = a \o <<NL>> /\ t \in Seq(UnitSet) /\ Len(t) = Len(a) + 1 /\ t[Len(a) + 1] = NL
  <2>1. t = a \o <<NL>>
    BY <1>4 DEF Output
  <2>2. t = Append(a, NL)
    BY <2>1, Breaks, AppendIsConcat
  <2> QED BY <2>1, <2>2, Breaks, AppendProperties
<1> PICK ends : ends = [j \in 0..l |-> Len(g[j])]
  OBVIOUS
<1>10. Shape(ls, t, ends)
  <2>1. ends \in [0..l -> Nat] /\ \A j \in 0..l : ends[j] = Len(g[j])
    BY <1>6
  <2>2. ends[0] = 0
    BY <1>4, <2>1, EmptySeq
  <2>3. Begins(ls, g, l)
    <3>1. l \in S
      BY <1>8
    <3> QED BY <3>1
  <2> HIDE DEF S
  <2>4. ASSUME NEW j \in 1..l
        PROVE  /\ ends[j] = ends[j - 1] + Len(ls[j]) + 1 /\ ends[j] <= ends[l]
               /\ Has(t, ends[j - 1], ls[j])
    <3>1. j \in 0..l /\ j - 1 \in 0..l /\ l \in 0..l
      OBVIOUS
    <3> PICK x \in Nat : x = ends[j - 1]
      BY <2>1, <3>1
    <3> PICK i \in Seq(UnitSet) : i = ls[j]
      BY <1>1
    <3>2. x = Len(g[j - 1]) /\ ends[j] = Len(g[j]) /\ ends[l] = Len(a)
      BY <2>1, <3>1
    <3>3. ends[j] <= Len(a) /\ Has(a, x, i) /\ ends[j] = x + Len(i) + 1
      BY <1>5, <2>3, <3>2 DEF Begins
    <3>4. Has(a \o <<NL>>, x, i)
      <4>1. x + Len(i) + 1 <= Len(a)
        BY <3>3
      <4>2. <<NL>> \in Seq(UnitSet)
        BY Breaks
      <4> QED BY <3>3, <4>1, <4>2, HasStill
    <3> QED BY <1>9, <3>2, <3>3, <3>4
  <2>5. Len(t) = ends[l] + 1 /\ t[ends[l] + 1] = NL
    <3>1. ends[l] = Len(a)
      BY <2>1
    <3> QED BY <1>9, <3>1
  <2> QED BY <1>9, <2>1, <2>2, <2>4, <2>5 DEF Shape
<1> QED BY <1>10 DEF EndsOf

\* One list begins like another.
LEMMA PrefixIs ==
    ASSUME NEW U, NEW s \in Seq(U), NEW t \in Seq(U)
    PROVE  IsPrefix(s, t) <=> Len(s) <= Len(t) /\ \A i \in 1..Len(s) : s[i] = t[i]
<1> PICK m \in Nat : m = Len(s)
  OBVIOUS
<1> PICK n \in Nat : n = Len(t)
  OBVIOUS
<1>1. m > n => ~IsPrefix(s, t)
  BY DEF IsPrefix
<1>2. ASSUME m <= n
      PROVE  SubSeq(s, 1, m) = SubSeq(t, 1, m) <=> \A i \in 1..m : s[i] = t[i]
  <2> PICK x : x = SubSeq(s, 1, m)
    OBVIOUS
  <2> PICK y : y = SubSeq(t, 1, m)
    OBVIOUS
  <2>1. \A i \in 1..m : s[i] \in U /\ t[i] \in U
    BY <1>2
  <2>2. x \in Seq(U) /\ Len(x) = m /\ \A i \in 1..m : x[i] = s[i]
    <3>1. \A i \in 1..m : s[i] \in U
      BY <2>1
    <3>2. /\ x \in Seq(U)
          /\ Len(x) = IF 1 <= m THEN m - 1 + 1 ELSE 0
          /\ \A i \in 1..m - 1 + 1 : x[i] = s[1 + i - 1]
      BY <3>1, SubSeqProperties
    <3>3. (IF 1 <= m THEN m - 1 + 1 ELSE 0) = m /\ m - 1 + 1 = m /\ \A i \in 1..m : 1 + i - 1 = i
      OBVIOUS
    <3> QED BY <3>2, <3>3
  <2>3. y \in Seq(U) /\ Len(y) = m /\ \A i \in 1..m : y[i] = t[i]
    <3>1. \A i \in 1..m : t[i] \in U
      BY <2>1
    <3>2. /\ y \in Seq(U)
          /\ Len(y) = IF 1 <= m THEN m - 1 + 1 ELSE 0
          /\ \A i \in 1..m - 1 + 1 : y[i] = t[1 + i - 1]
      BY <3>1, SubSeqProperties
    <3>3. (IF 1 <= m THEN m - 1 + 1 ELSE 0) = m /\ m - 1 + 1 = m /\ \A i \in 1..m : 1 + i - 1 = i
      OBVIOUS
    <3> QED BY <3>2, <3>3
  <2>4. x = y <=> \A i \in 1..m : x[i] = y[i]
    BY <2>2, <2>3, SeqEqual
  <2> QED BY <2>2, <2>3, <2>4
<1>3. IsPrefix(s, t) <=> m <= n /\ SubSeq(s, 1, m) = SubSeq(t, 1, m)
  BY DEF IsPrefix
<1>4. m <= n \/ m > n
  OBVIOUS
<1> QED BY <1>1, <1>2, <1>3, <1>4

\* The first lines of a list.
LEMMA FirstLines ==
    ASSUME NEW U, NEW ls \in Seq(U), NEW j \in 0..Len(ls)
    PROVE  /\ SubSeq(ls, 1, j) \in Seq(U) /\ Len(SubSeq(ls, 1, j)) = j
           /\ \A i \in 1..j : SubSeq(ls, 1, j)[i] = ls[i]
           /\ IsPrefix(SubSeq(ls, 1, j), ls)
           /\ j = Len(ls) => SubSeq(ls, 1, j) = ls
<1> PICK x : x = SubSeq(ls, 1, j)
  OBVIOUS
<1> PICK n \in Nat : n = Len(ls)
  OBVIOUS
<1>1. \A i \in 1..j : ls[i] \in U /\ i \in 1..n
  OBVIOUS
<1>2. x \in Seq(U) /\ Len(x) = j /\ \A i \in 1..j : x[i] = ls[i]
  <2>2. /\ x \in Seq(U)
        /\ Len(x) = IF 1 <= j THEN j - 1 + 1 ELSE 0
        /\ \A i \in 1..j - 1 + 1 : x[i] = ls[1 + i - 1]
    BY <1>1, SubSeqProperties
  <2>3. (IF 1 <= j THEN j - 1 + 1 ELSE 0) = j /\ j - 1 + 1 = j /\ \A i \in 1..j : 1 + i - 1 = i
    OBVIOUS
  <2> QED BY <2>2, <2>3
<1>3. IsPrefix(x, ls)
  <2>1. Len(x) <= Len(ls)
    BY <1>2
  <2> QED BY <1>2, <2>1, PrefixIs
<1>4. j = Len(ls) => x = ls
  BY <1>2, SeqEqual
<1> QED BY <1>2, <1>3, <1>4

\* One line more.
LEMMA NextLine ==
    ASSUME NEW U, NEW ls \in Seq(U), NEW j \in 0..Len(ls), j < Len(ls)
    PROVE  Append(SubSeq(ls, 1, j), ls[j + 1]) = SubSeq(ls, 1, j + 1)
<1> PICK n \in Nat : n = Len(ls)
  OBVIOUS
<1> PICK o \in 0..n : o = j + 1
  OBVIOUS
<1> PICK x \in Seq(U) : x = SubSeq(ls, 1, j)
  BY FirstLines
<1> PICK y \in Seq(U) : y = SubSeq(ls, 1, o)
  BY FirstLines
<1> PICK e \in U : e = ls[o]
  OBVIOUS
<1> PICK z \in Seq(U) : z = Append(x, e)
  BY AppendProperties
<1>1. Len(x) = j /\ \A i \in 1..j : x[i] = ls[i]
  BY FirstLines
<1>2. Len(y) = o /\ \A i \in 1..o : y[i] = ls[i]
  BY FirstLines
<1>3. Len(z) = o /\ (\A i \in 1..j : z[i] = x[i]) /\ z[o] = e
  BY <1>1, AppendProperties
<1>4. \A i \in 1..o : i \in 1..j \/ i = o
  OBVIOUS
<1>5. \A i \in 1..o : z[i] = y[i]
  BY <1>1, <1>2, <1>3, <1>4
<1>6. z = y
  BY <1>2, <1>3, <1>5, SeqEqual
<1> QED BY <1>6

\* What a window reads next (u) when it has read j lines of a list (ls) and a
\* part (l) of another: a unit of that line, its break, or the end of the list.
Upcoming(ls, j, l, u, n) ==
    \/ j = Len(ls) /\ l = <<>> /\ u = NL
    \/ /\ j < Len(ls) /\ Len(l) < Len(ls[j + 1])
       /\ u = ls[j + 1][Len(l) + 1] /\ u # NL
       /\ \A k \in 1..Len(l) : l[k] = ls[j + 1][k]
    \/ j < Len(ls) /\ l = ls[j + 1] /\ l # <<>> /\ u = NL /\ EndsOf(ls)[j + 1] = n + 1

\* A window that goes on is not at the end of the text.
LEMMA ReadingGoesOn ==
    ASSUME NEW ls \in Seq(PlainLines), NEW v \in Views, NEW n \in Nat, Reading(v, ls, n), ~v.finished
    PROVE  /\ n < Len(Output(ls))
           /\ \E j \in 0..Len(ls) : /\ v.lines = SubSeq(ls, 1, j) /\ n = EndsOf(ls)[j] + Len(v.line)
                                    /\ Upcoming(ls, j, v.line, Output(ls)[n + 1], n)
<1> PICK t : t = Output(ls)
  OBVIOUS
<1> PICK ends : ends = EndsOf(ls)
  OBVIOUS
<1> PICK l \in Nat : l = Len(ls)
  OBVIOUS
<1> PICK line \in Seq(UnitSet) : line = v.line
  BY DEF Views
<1> PICK x \in Nat : x = Len(line)
  OBVIOUS
<1>1. Shape(ls, t, ends)
  BY OutputShape
<1>2. /\ ends \in [0..l -> Nat] /\ ends[0] = 0
      /\ t \in Seq(UnitSet) /\ Len(t) = ends[l] + 1 /\ t[ends[l] + 1] = NL
      /\ \A j \in 1..l :
           /\ ends[j] = ends[j - 1] + Len(ls[j]) + 1 /\ ends[j] <= ends[l]
           /\ Has(t, ends[j - 1], ls[j])
  BY <1>1 DEF Shape
<1>3. PICK j \in 0..l :
         /\ v.lines = SubSeq(ls, 1, j) /\ n = ends[j] + x
         /\ line # <<>> => /\ j < l /\ x <= Len(ls[j + 1])
                           /\ \A k \in 1..x : line[k] = ls[j + 1][k]
  BY DEF Reading
<1> PICK e \in Nat : e = ends[j]
  BY <1>2
<1> PICK last \in Nat : last = ends[l]
  <2>1. l \in 0..l
    OBVIOUS
  <2> QED BY <1>2, <2>1
<1>4. CASE j = l
  <2>1. line = <<>> /\ x = 0
    <3>1. line = <<>>
      BY <1>3, <1>4
    <3> QED BY <3>1
  <2>2. n = last /\ t[n + 1] = NL /\ n < Len(t)
    BY <1>2, <1>3, <1>4, <2>1
  <2>3. Upcoming(ls, j, line, t[n + 1], n)
    BY <1>4, <2>1, <2>2 DEF Upcoming
  <2> QED BY <1>3, <2>2, <2>3
<1>5. CASE j # l
  <2> PICK o \in 1..l : o = j + 1
    BY <1>5
  <2>1. o - 1 = j /\ j < l
    OBVIOUS
  <2> PICK r : r = ls[o]
    OBVIOUS
  <2>2. r \in Seq(UnitSet) /\ r # <<>> /\ Plain(r)
    BY DEF PlainLines
  <2> PICK y \in Nat : y = Len(r)
    BY <2>2
  <2>3. y > 0
    BY <2>2, EmptySeq
  <2>4. ends[o] = e + y + 1 /\ e + y + 1 <= last
    BY <1>2, <2>1
  <2>5. (\A k \in 1..y : t[e + k] = r[k]) /\ t[e + y + 1] = NL
    <3>1. Has(t, ends[o - 1], ls[o])
      BY <1>2
    <3>2. Has(t, e, r)
      BY <2>1, <3>1
    <3> QED BY <3>2 DEF Has
  <2>6. x <= y /\ (\A k \in 1..x : line[k] = r[k]) /\ n = e + x
    <3>1. CASE line = <<>>
      BY <1>3, <3>1
    <3>2. CASE line # <<>>
      BY <1>3, <3>2
    <3> QED BY <3>1, <3>2
  <2>7. n < Len(t)
    <3>1. n <= e + y
      BY <2>6
    <3> QED BY <1>2, <2>4, <3>1
  <2>8. CASE x < y
    <3>1. x + 1 \in 1..y /\ n + 1 = e + (x + 1)
      <4>1. n = e + x
        BY <2>6
      <4>2. \A p, q \in Nat : p < q => p + 1 \in 1..q
        OBVIOUS
      <4>3. \A p, q \in Nat : p + q + 1 = p + (q + 1)
        OBVIOUS
      <4> QED BY <2>8, <4>1, <4>2, <4>3, ZenonT(30)
    <3>2. t[n + 1] = r[x + 1] /\ r[x + 1] # NL
      BY <2>2, <2>5, <3>1 DEF Plain
    <3>3. Upcoming(ls, j, line, t[n + 1], n)
      BY <2>1, <2>6, <2>8, <3>2 DEF Upcoming
    <3> QED BY <1>3, <2>7, <3>3
  <2>9. CASE x = y
    <3>1. line = r
      BY <2>2, <2>6, <2>9, SeqEqual
    <3>2. n + 1 = e + y + 1
      BY <2>6, <2>9
    <3>3. t[n + 1] = NL /\ ends[o] = n + 1
      BY <2>4, <2>5, <3>2
    <3>4. Upcoming(ls, j, line, t[n + 1], n)
      BY <2>1, <2>2, <3>1, <3>3 DEF Upcoming
    <3> QED BY <1>3, <2>7, <3>4
  <2>10. x < y \/ x = y
    BY <2>6
  <2> QED BY <2>8, <2>9, <2>10
<1> QED BY <1>4, <1>5

\* What a window keeps are lines without a break, in which text does not end.
LEMMA ReadUnitKept ==
    ASSUME NEW v \in Views, NEW u \in UnitSet
    PROVE  ReadUnit(v, u) \in Views
<1> PICK line \in Seq(UnitSet) : line = v.line
  BY DEF Views
<1> PICK lines \in Seq(KeptLines) : lines = v.lines
  BY DEF Views
<1>1. v = [line |-> line, lines |-> lines, finished |-> v.finished] /\ Clean(line)
  BY DEF Views
<1>2. CASE v.finished
  BY <1>2 DEF ReadUnit
<1>3. CASE ~v.finished /\ (HasCtrlZ(u) \/ (u = NL /\ line = <<>>))
  <2>1. ReadUnit(v, u) = [v EXCEPT !.finished = TRUE]
    BY <1>3 DEF ReadUnit
  <2>2. ReadUnit(v, u) = [line |-> line, lines |-> lines, finished |-> TRUE]
    BY <1>1, <2>1
  <2> QED BY <1>1, <2>2 DEF Views
<1>4. CASE ~v.finished /\ ~HasCtrlZ(u) /\ u = NL /\ line # <<>>
  <2> PICK more \in Seq(KeptLines) : more = Append(lines, line)
    <3>1. line \in KeptLines
      BY <1>1, <1>4 DEF KeptLines
    <3> QED BY <3>1, AppendProperties
  <2>1. ReadUnit(v, u) = [v EXCEPT !.line = <<>>, !.lines = Append(lines, line)]
    BY <1>4 DEF ReadUnit
  <2>2. ReadUnit(v, u) = [line |-> <<>>, lines |-> more, finished |-> v.finished]
    BY <1>1, <2>1
  <2>3. Clean(<<>>) /\ <<>> \in Seq(UnitSet) /\ v.finished \in BOOLEAN
    BY DEF Clean, Views
  <2> QED BY <2>2, <2>3 DEF Views
<1>5. CASE ~v.finished /\ ~HasCtrlZ(u) /\ u # NL
  <2> PICK longer \in Seq(UnitSet) : longer = Append(line, u)
    BY AppendProperties
  <2>1. ReadUnit(v, u) = [v EXCEPT !.line = Append(line, u)]
    BY <1>5 DEF ReadUnit
  <2>2. ReadUnit(v, u) = [line |-> longer, lines |-> lines, finished |-> v.finished]
    BY <1>1, <2>1
  <2>3. Clean(longer)
    <3> PICK x \in Nat : x = Len(line)
      OBVIOUS
    <3>1. Len(longer) = x + 1 /\ (\A k \in 1..x : longer[k] = line[k]) /\ longer[x + 1] = u
      BY AppendProperties
    <3>2. \A k \in 1..(x + 1) : k \in 1..x \/ k = x + 1
      OBVIOUS
    <3> QED BY <1>1, <1>5, <3>1, <3>2 DEF Clean
  <2>4. [line |-> longer, lines |-> lines, finished |-> v.finished]
           \in [line : Seq(UnitSet), lines : Seq(KeptLines), finished : BOOLEAN]
    BY DEF Views
  <2>5. ReadUnit(v, u).line = longer
    BY <2>2
  <2> QED BY <2>2, <2>3, <2>4, <2>5 DEF Views
<1> QED BY <1>2, <1>3, <1>4, <1>5

\* One unit more of the text.
LEMMA ReadingStep ==
    ASSUME NEW ls \in Seq(PlainLines), NEW v \in Views, NEW n \in Nat, NEW u,
           Reading(v, ls, n), n + 1 <= Len(Output(ls)) => u = Output(ls)[n + 1]
    PROVE  Reading(ReadUnit(v, u), ls, n + 1)
<1> PICK line \in Seq(UnitSet) : line = v.line
  BY DEF Views
<1> PICK lines : lines = v.lines
  OBVIOUS
<1> PICK t \in Seq(UnitSet) : t = Output(ls)
  BY OutputShape DEF Shape
<1>1. /\ v = [line |-> line, lines |-> lines, finished |-> v.finished] /\ Clean(line)
      /\ v.finished \in BOOLEAN
  BY DEF Views
<1>2. CASE v.finished
  <2>1. ReadUnit(v, u) = v
    BY <1>2 DEF ReadUnit
  <2> QED BY <1>2, <2>1 DEF Reading
<1>3. CASE ~v.finished
  <2> PICK j \in 0..Len(ls) :
          /\ n < Len(t) /\ lines = SubSeq(ls, 1, j) /\ n = EndsOf(ls)[j] + Len(line)
          /\ Upcoming(ls, j, line, t[n + 1], n)
    BY <1>3, ReadingGoesOn
  <2>1. n + 1 <= Len(t) /\ n + 1 \in 1..Len(t)
    OBVIOUS
  <2>2. u = t[n + 1] /\ u \in UnitSet
    BY <2>1
  <2>3. IsPrefix(lines, ls)
    BY FirstLines
  <2>4. CASE j = Len(ls) /\ line = <<>> /\ u = NL
    <3>1. ReadUnit(v, u) = [v EXCEPT !.finished = TRUE]
      BY <1>3, <2>4 DEF ReadUnit
    <3>2. ReadUnit(v, u).finished /\ ReadUnit(v, u).lines = lines
      BY <1>1, <3>1
    <3>3. lines = ls
      BY <2>4, FirstLines
    <3> QED BY <2>3, <3>2, <3>3 DEF Reading
  <2>5. CASE /\ j < Len(ls) /\ Len(line) < Len(ls[j + 1])
             /\ u = ls[j + 1][Len(line) + 1] /\ u # NL
             /\ \A k \in 1..Len(line) : line[k] = ls[j + 1][k]
    <3> PICK r \in PlainLines : r = ls[j + 1]
      BY <2>5
    <3>1. r \in Seq(UnitSet)
      BY DEF PlainLines
    <3> PICK x \in Nat : x = Len(line)
      OBVIOUS
    <3> PICK y \in Nat : y = Len(r)
      BY <3>1
    <3>2. x + 1 \in 1..y /\ u = r[x + 1]
      <4>1. \A p, q \in Nat : p < q => p + 1 \in 1..q
        OBVIOUS
      <4>2. x < y /\ u = r[x + 1]
        BY <2>5
      <4> QED BY <4>1, <4>2
    <3>3. CASE HasCtrlZ(u)
      <4>1. ReadUnit(v, u) = [v EXCEPT !.finished = TRUE]
        BY <1>3, <3>3 DEF ReadUnit
      <4>2. ReadUnit(v, u).finished /\ ReadUnit(v, u).lines = lines
        BY <1>1, <4>1
      <4>3. ~Clean(ls[j + 1]) /\ j + 1 \in 1..Len(ls)
        BY <2>5, <3>2, <3>3 DEF Clean
      <4> QED BY <2>3, <4>2, <4>3 DEF Reading
    <3>4. CASE ~HasCtrlZ(u)
      <4> PICK longer \in Seq(UnitSet) : longer = Append(line, u)
        BY <2>2, AppendProperties
      <4>1. ReadUnit(v, u) = [v EXCEPT !.line = Append(v.line, u)]
        BY <1>3, <2>5, <3>4 DEF ReadUnit
      <4> PICK w : w = ReadUnit(v, u)
        OBVIOUS
      <4>2. w.line = longer /\ w.lines = lines /\ w.finished = FALSE
        BY <1>1, <1>3, <4>1
      <4>3. Len(longer) = x + 1 /\ (\A k \in 1..x : longer[k] = line[k]) /\ longer[x + 1] = u
        BY <2>2, AppendProperties
      <4>4. \A k \in 1..(x + 1) : longer[k] = r[k]
        <5>1. \A k \in 1..(x + 1) : k \in 1..x \/ k = x + 1
          OBVIOUS
        <5> QED BY <2>5, <3>2, <4>3, <5>1
      <4>5. n + 1 = EndsOf(ls)[j] + Len(longer)
        <5> PICK e \in Nat : e = EndsOf(ls)[j]
          BY OutputShape DEF Shape
        <5>1. n + 1 = e + (x + 1)
          OBVIOUS
        <5> QED BY <4>3, <5>1
      <4>6. x + 1 <= y
        BY <3>2
      <4>7. w.lines = SubSeq(ls, 1, j) /\ n + 1 = EndsOf(ls)[j] + Len(w.line)
        BY <4>2, <4>5
      <4>8. j < Len(ls) /\ Len(w.line) <= Len(ls[j + 1]) /\ \A k \in 1..Len(w.line) : w.line[k] = ls[j + 1][k]
        BY <2>5, <4>2, <4>3, <4>4, <4>6
      <4>9. Reading(w, ls, n + 1)
        <5> QED BY <4>2, <4>7, <4>8, Zenon DEF Reading
      <4> QED BY <4>9
    <3> QED BY <3>3, <3>4
  <2>6. CASE j < Len(ls) /\ line = ls[j + 1] /\ line # <<>> /\ u = NL /\ EndsOf(ls)[j + 1] = n + 1
    <3>1. ~HasCtrlZ(u)
      BY <2>6, Breaks
    <3>2. ReadUnit(v, u) = [v EXCEPT !.line = <<>>, !.lines = Append(v.lines, v.line)]
      BY <1>3, <2>6, <3>1 DEF ReadUnit
    <3> PICK w : w = ReadUnit(v, u)
      OBVIOUS
    <3>3. w.line = <<>> /\ w.lines = Append(lines, line) /\ w.finished = FALSE
      BY <1>1, <1>3, <3>2
    <3>4. w.lines = SubSeq(ls, 1, j + 1)
      BY <2>6, <3>3, NextLine
    <3>5. j + 1 \in 0..Len(ls)
      BY <2>6
    <3>6. n + 1 = EndsOf(ls)[j + 1] + Len(w.line)
      <4>1. Len(w.line) = 0
        BY <3>3
      <4> PICK p \in Nat : p = n + 1
        OBVIOUS
      <4>2. p = p + 0
        OBVIOUS
      <4> QED BY <2>6, <4>1, <4>2
    <3> QED BY <3>3, <3>4, <3>5, <3>6 DEF Reading
  <2> QED BY <2>2, <2>4, <2>5, <2>6 DEF Upcoming
<1> QED BY <1>2, <1>3

ReadsUnits(v, us, k, f) == f = [n \in 0..k |-> IF n = 0 THEN v ELSE ReadUnit(f[n - 1], us[n])]

\* The function with which a window reads has values, of any length.
LEMMA ReadsUnitsExist ==
    ASSUME NEW v, NEW us, NEW k \in Nat
    PROVE  \E f : ReadsUnits(v, us, k, f)
<1> DEFINE S == {n \in Nat : \E f : ReadsUnits(v, us, n, f)}
<1>1. 0 \in S
  <2>1. ReadsUnits(v, us, 0, [n \in 0..0 |-> v])
    BY DEF ReadsUnits
  <2> QED BY <2>1
<1>2. \A n \in S : n + 1 \in S
  <2> TAKE n \in S
  <2>1. PICK f : ReadsUnits(v, us, n, f)
    OBVIOUS
  <2> DEFINE next == ReadUnit(f[n], us[n + 1])
             g == [i \in 0..(n + 1) |-> IF i = n + 1 THEN next ELSE f[i]]
  <2> DEFINE body(i) == IF i = 0 THEN v ELSE ReadUnit(g[i - 1], us[i])
  <2>2. \A i \in 0..(n + 1) : g[i] = body(i)
    <3> TAKE i \in 0..(n + 1)
    <3>1. CASE i = n + 1
      <4>1. g[i - 1] = f[n] /\ i # 0 /\ g[i] = next
        BY <3>1
      <4> QED BY <3>1, <4>1
    <3>2. CASE i # n + 1
      <4>1. i \in 0..n /\ g[i] = f[i]
        BY <3>2
      <4>2. f[i] = IF i = 0 THEN v ELSE ReadUnit(f[i - 1], us[i])
        BY <2>1, <4>1 DEF ReadsUnits
      <4>3. i # 0 => i - 1 \in 0..(n + 1) /\ i - 1 # n + 1
        BY <4>1
      <4>4. i # 0 => g[i - 1] = f[i - 1]
        BY <4>3
      <4> QED BY <4>1, <4>2, <4>4
    <3> QED BY <3>1, <3>2
  <2>3. g = [i \in 0..(n + 1) |-> body(i)]
    <3> HIDE DEF body
    <3> QED BY <2>2
  <2>4. ReadsUnits(v, us, n + 1, g)
    BY <2>3 DEF ReadsUnits
  <2> QED BY <2>4
<1>3. S = Nat
  <2> HIDE DEF S
  <2>1. S \subseteq Nat
    BY DEF S
  <2> QED BY <1>1, <1>2, <2>1, NatInduct
<1> QED BY <1>3

\* A part of a file (us) that is the text behind position n, as far as it goes.
Continues(ls, n, us) == \A i \in 1..Len(us) : n + i <= Len(Output(ls)) => us[i] = Output(ls)[n + i]

\* What a window reads is of the kind it keeps, and it stays in the list while
\* what it reads is the text of the list.
LEMMA ReadUnitsReads ==
    ASSUME NEW v \in Views, NEW us \in Seq(UnitSet)
    PROVE  /\ ReadUnits(v, us) \in Views
           /\ \A ls \in Seq(PlainLines) : \A n \in Nat :
                Reading(v, ls, n) /\ Continues(ls, n, us) => Reading(ReadUnits(v, us), ls, n + Len(us))
           /\ us = <<>> => ReadUnits(v, us) = v
<1> PICK l \in Nat : l = Len(us)
  OBVIOUS
<1> DEFINE f == CHOOSE x : ReadsUnits(v, us, l, x)
<1>1. ReadsUnits(v, us, l, f)
  BY ReadsUnitsExist
<1>2. ReadUnits(v, us) = f[l]
  BY DEF ReadUnits, ReadsUnits
<1> HIDE DEF f
<1>3. f[0] = v /\ \A n \in 1..l : f[n] = ReadUnit(f[n - 1], us[n])
  BY <1>1 DEF ReadsUnits
<1> DEFINE S == {n \in Nat : n <= l => f[n] \in Views}
<1>4. S = Nat
  <2>1. 0 \in S
    BY <1>3
  <2>2. \A n \in S : n + 1 \in S
    <3> SUFFICES ASSUME NEW n \in S, n + 1 <= l PROVE f[n + 1] \in Views
      OBVIOUS
    <3>1. f[n] \in Views /\ n + 1 \in 1..l /\ (n + 1) - 1 = n
      OBVIOUS
    <3>2. us[n + 1] \in UnitSet /\ f[n + 1] = ReadUnit(f[n], us[n + 1])
      BY <1>3, <3>1
    <3> QED BY <3>1, <3>2, ReadUnitKept
  <2> HIDE DEF S
  <2>3. S \subseteq Nat
    BY DEF S
  <2> QED BY <2>1, <2>2, <2>3, NatInduct
<1>5. \A n \in 0..l : f[n] \in Views
  <2> TAKE n \in 0..l
  <2>1. n \in S /\ n <= l
    BY <1>4
  <2> QED BY <2>1
<1> HIDE DEF S
<1>6. ASSUME NEW ls \in Seq(PlainLines), NEW o \in Nat, Reading(v, ls, o), Continues(ls, o, us)
      PROVE  Reading(f[l], ls, o + l)
  <2> PICK t \in Seq(UnitSet) : t = Output(ls)
    BY OutputShape DEF Shape
  <2> PICK m \in Nat : m = Len(t)
    OBVIOUS
  <2> DEFINE T == {n \in Nat : n <= l => Reading(f[n], ls, o + n)}
  <2>1. 0 \in T
    BY <1>3, <1>6
  <2>2. \A n \in T : n + 1 \in T
    <3> SUFFICES ASSUME NEW n \in T, n + 1 <= l PROVE Reading(f[n + 1], ls, o + (n + 1))
      OBVIOUS
    <3>1. Reading(f[n], ls, o + n) /\ n \in 0..l /\ n + 1 \in 1..l /\ (n + 1) - 1 = n
      OBVIOUS
    <3> PICK w \in Views : w = f[n]
      BY <1>5, <3>1
    <3> PICK u \in UnitSet : u = us[n + 1]
      BY <3>1
    <3> PICK p \in Nat : p = o + n
      OBVIOUS
    <3>2. p + 1 = o + (n + 1)
      OBVIOUS
    <3>3. p + 1 <= m => u = t[p + 1]
      BY <1>6, <3>1, <3>2 DEF Continues
    <3>4. Reading(ReadUnit(w, u), ls, p + 1)
      BY <3>1, <3>3, ReadingStep
    <3>5. f[n + 1] = ReadUnit(w, u)
      BY <1>3, <3>1
    <3> QED BY <3>2, <3>4, <3>5
  <2>3. l \in T
    <3> HIDE DEF T
    <3>1. T \subseteq Nat
      BY DEF T
    <3> QED BY <2>1, <2>2, <3>1, NatInduct
  <2> QED BY <2>3
<1>7. l \in 0..l
  OBVIOUS
<1>8. us = <<>> => f[l] = v
  <2>1. us = <<>> => l = 0
    OBVIOUS
  <2> QED BY <1>3, <2>1
<1> QED BY <1>2, <1>5, <1>6, <1>7, <1>8

\* The path of an item is a line.
LEMMA LineIs ==
    ASSUME NEW p \in Paths
    PROVE  Line(p) \in PlainLines
<1> PICK m \in Nat : m = Size[p] /\ m # 0
  BY FileAssumption
<1> PICK l : l = Line(p)
  OBVIOUS
<1>1. \A k \in 1..m : <<p, k>> \in UnitSet /\ <<p, k>> # NL
  BY Breaks
<1>2. l = [k \in 1..m |-> <<p, k>>]
  BY DEF Line
<1>3. l \in [1..m -> UnitSet]
  BY <1>1, <1>2
<1>4. l \in Seq(UnitSet)
  BY <1>3, SeqDef
<1>5. Len(l) = m
  BY <1>2, <1>4, LenProperties
<1>6. l # <<>>
  BY <1>4, <1>5, EmptySeq
<1>7. Plain(l)
  BY <1>1, <1>2, <1>5 DEF Plain
<1> QED BY <1>4, <1>6, <1>7 DEF PlainLines

Selects(s, k, f) ==
    f = [n \in 0..k |->
           IF n = 0 THEN <<>> ELSE IF s[n] \in Paths THEN Append(f[n - 1], Line(s[n])) ELSE f[n - 1]]

\* The function that finds the items with a path has values, of any length.
LEMMA SelectsExist ==
    ASSUME NEW s, NEW k \in Nat
    PROVE  \E f : Selects(s, k, f)
<1> DEFINE S == {n \in Nat : \E f : Selects(s, n, f)}
<1>1. 0 \in S
  <2>1. Selects(s, 0, [n \in 0..0 |-> <<>>])
    BY DEF Selects
  <2> QED BY <2>1
<1>2. \A n \in S : n + 1 \in S
  <2> TAKE n \in S
  <2>1. PICK f : Selects(s, n, f)
    OBVIOUS
  <2> DEFINE next == IF s[n + 1] \in Paths THEN Append(f[n], Line(s[n + 1])) ELSE f[n]
             g == [i \in 0..(n + 1) |-> IF i = n + 1 THEN next ELSE f[i]]
  <2> DEFINE body(i) == IF i = 0 THEN <<>>
                        ELSE IF s[i] \in Paths THEN Append(g[i - 1], Line(s[i])) ELSE g[i - 1]
  <2>2. \A i \in 0..(n + 1) : g[i] = body(i)
    <3> TAKE i \in 0..(n + 1)
    <3>1. CASE i = n + 1
      <4>1. g[i - 1] = f[n] /\ i # 0 /\ g[i] = next
        BY <3>1
      <4> QED BY <3>1, <4>1
    <3>2. CASE i # n + 1
      <4>1. i \in 0..n /\ g[i] = f[i]
        BY <3>2
      <4>2. f[i] = IF i = 0 THEN <<>>
                   ELSE IF s[i] \in Paths THEN Append(f[i - 1], Line(s[i])) ELSE f[i - 1]
        BY <2>1, <4>1 DEF Selects
      <4>3. i # 0 => i - 1 \in 0..(n + 1) /\ i - 1 # n + 1
        BY <4>1
      <4>4. i # 0 => g[i - 1] = f[i - 1]
        BY <4>3
      <4> QED BY <4>1, <4>2, <4>4
    <3> QED BY <3>1, <3>2
  <2>3. g = [i \in 0..(n + 1) |-> body(i)]
    <3> HIDE DEF body
    <3> QED BY <2>2
  <2>4. Selects(s, n + 1, g)
    BY <2>3 DEF Selects
  <2> QED BY <2>4
<1>3. S = Nat
  <2> HIDE DEF S
  <2>1. S \subseteq Nat
    BY DEF S
  <2> QED BY <1>1, <1>2, <2>1, NatInduct
<1> QED BY <1>3

\* What the menu writes are lines.
LEMMA SelectedIs ==
    ASSUME NEW s \in Selections
    PROVE  SelectedLines(s) \in Seq(PlainLines)
<1>1. CASE s = NoSelection
  BY <1>1 DEF SelectedLines
<1>2. CASE s # NoSelection
  <2>1. s \in Seq(Items)
    BY <1>2, FileAssumption
  <2> PICK l \in Nat : l = Len(s)
    BY <2>1
  <2> DEFINE f == CHOOSE x : Selects(s, l, x)
  <2>2. Selects(s, l, f)
    BY SelectsExist
  <2>3. SelectedLines(s) = f[l]
    BY <1>2 DEF SelectedLines, Selects
  <2> HIDE DEF f
  <2> DEFINE S == {n \in Nat : n <= l => f[n] \in Seq(PlainLines)}
  <2>4. 0 \in S
    BY <2>2 DEF Selects
  <2>5. \A n \in S : n + 1 \in S
    <3> SUFFICES ASSUME NEW n \in S, n + 1 <= l PROVE f[n + 1] \in Seq(PlainLines)
      OBVIOUS
    <3>1. f[n] \in Seq(PlainLines) /\ n + 1 \in 0..l /\ n + 1 # 0 /\ (n + 1) - 1 = n
      OBVIOUS
    <3>2. f[n + 1] = IF s[n + 1] \in Paths THEN Append(f[n], Line(s[n + 1])) ELSE f[n]
      BY <2>2, <3>1 DEF Selects
    <3>3. CASE s[n + 1] \in Paths
      <4> PICK r \in Seq(PlainLines) : r = f[n]
        BY <3>1
      <4> PICK e \in PlainLines : e = Line(s[n + 1])
        BY <3>3, LineIs
      <4> QED BY <3>2, <3>3, AppendProperties
    <3>4. CASE s[n + 1] \notin Paths
      BY <3>1, <3>2, <3>4
    <3> QED BY <3>3, <3>4
  <2>6. l \in S
    <3> HIDE DEF S
    <3>1. S \subseteq Nat
      BY DEF S
    <3> QED BY <2>4, <2>5, <3>1, NatInduct
  <2> QED BY <2>3, <2>6
<1> QED BY <1>1, <1>2

\* A text is units; it is never empty.
LEMMA OutputIs ==
    ASSUME NEW ls \in Seq(PlainLines)
    PROVE  Output(ls) \in Seq(UnitSet) /\ Output(ls) # <<>>
<1> PICK t : t = Output(ls)
  OBVIOUS
<1> PICK e \in Nat : t \in Seq(UnitSet) /\ Len(t) = e + 1
  <2> PICK l \in Nat : l = Len(ls)
    OBVIOUS
  <2>1. l \in 0..l
    OBVIOUS
  <2> PICK e : e = EndsOf(ls)
    OBVIOUS
  <2>2. e \in [0..l -> Nat] /\ t \in Seq(UnitSet) /\ Len(t) = e[l] + 1
    BY OutputShape DEF Shape
  <2> QED BY <2>1, <2>2
<1>1. t # <<>>
  BY EmptySeq
<1> QED BY <1>1

\* What is on the disk after a write.
LEMMA WriteAtIs ==
    ASSUME NEW f \in Seq(UnitSet), NEW o \in Nat, NEW us \in Seq(UnitSet)
    PROVE  /\ WriteAt(f, o, us) \in Seq(UnitSet)
           /\ o = Len(f) => WriteAt(f, o, us) = f \o us
           /\ o = 0 => IsPrefix(us, WriteAt(f, o, us))
<1> PICK m \in Nat : m = Len(f)
  OBVIOUS
<1> PICK k \in Nat : k = Len(us)
  OBVIOUS
<1> PICK top \in Nat : top = IF o + k > m THEN o + k ELSE m
  OBVIOUS
<1> PICK w : w = WriteAt(f, o, us)
  OBVIOUS
<1>1. w = [n \in 1..top |-> IF o < n /\ n <= o + k THEN us[n - o] ELSE IF n <= m THEN f[n] ELSE NUL]
  BY DEF WriteAt
<1>2. \A n \in 1..top :
        /\ o < n /\ n <= o + k => us[n - o] \in UnitSet
        /\ n <= m => f[n] \in UnitSet
  <2> TAKE n \in 1..top
  <2>1. o < n /\ n <= o + k => n - o \in 1..k
    OBVIOUS
  <2>2. n <= m => n \in 1..m
    OBVIOUS
  <2> QED BY <2>1, <2>2
<1>3. w \in [1..top -> UnitSet]
  BY <1>1, <1>2, Breaks
<1>4. w \in Seq(UnitSet)
  BY <1>3, SeqDef, SMTT(30)
<1>5. Len(w) = top
  BY <1>1, <1>4, LenProperties
<1>6. ASSUME o = m
      PROVE  w = f \o us
  <2> PICK x \in Seq(UnitSet) : x = f \o us
    BY ConcatProperties
  <2>1. Len(x) = m + k /\ \A i \in 1..(m + k) : x[i] = IF i <= m THEN f[i] ELSE us[i - m]
    BY ConcatProperties
  <2>2. top = m + k
    BY <1>6
  <2>3. \A i \in 1..top : (o < i /\ i <= o + k) <=> ~(i <= m)
    BY <1>6, <2>2
  <2>4. \A i \in 1..top : w[i] = x[i]
    BY <1>1, <1>6, <2>1, <2>2, <2>3
  <2>5. w = x
    BY <1>4, <1>5, <2>1, <2>2, <2>4, SeqEqual
  <2> QED BY <2>5
<1>7. ASSUME o = 0
      PROVE  IsPrefix(us, w)
  <2>1. k <= top
    BY <1>7
  <2>2. \A i \in 1..k : i \in 1..top /\ o < i /\ i <= o + k /\ i - o = i
    BY <1>7, <2>1
  <2>3. \A i \in 1..k : us[i] = w[i]
    BY <1>1, <2>2
  <2> QED BY <1>4, <1>5, <2>1, <2>3, PrefixIs
<1> QED BY <1>4, <1>6, <1>7

-----------------------------------------------------------------------------
\* A writer and the one whose window it replaces.
LEMMA ActorIs ==
    ASSUME NEW a \in Actors
    PROVE  /\ a[2] \in {"menu", "restart"} /\ a[1] \in Invocations
           /\ Parent(a) \in Actors /\ Parent(a)[2] = "menu"
           /\ a[2] = "restart" => Parent(a) # a
<1>1. \A b \in Actors : b[2] \in {"menu", "restart"} /\ b[1] \in Invocations /\ b = <<b[1], b[2]>>
  BY DEF Actors
<1>2. Parent(a) = <<a[1], "menu">> /\ <<a[1], "menu">> \in Actors
  BY <1>1 DEF Parent, Actors
<1> QED BY <1>1, <1>2

\* Nothing of a writer or its window changes.
Same(b) ==
    /\ pc'[b] = pc[b] /\ left'[b] = left[b] /\ offset'[b] = offset[b] /\ meant'[b] = meant[b]
    /\ ui'[b] = ui[b] /\ view'[b] = view[b] /\ pos'[b] = pos[b]

\* A step of some writers (C) keeps the invariant of the others, when it leaves
\* the file, or says that it has changed it.
LEMMA OthersKeep ==
    ASSUME FileInv, FileTypesInv', NEW C \in SUBSET Actors,
           \A b \in Actors \ C : Same(b),
           file' = file \/ \A b \in Actors \ C : pc[b] # "idle" => b \in disturbed',
           disturbed \subseteq disturbed',
           \A b \in C : OwnOK(b)' /\ HandedOK(b)' /\ AloneOK(b)',
           \A b \in Actors \ C : b[2] = "restart" /\ Parent(b) \in C => HandedOK(b)'
    PROVE  FileInv'
<1> SUFFICES ASSUME NEW b \in Actors \ C PROVE OwnOK(b)' /\ HandedOK(b)' /\ AloneOK(b)'
  BY DEF FileInv
<1>1. Same(b) /\ OwnOK(b) /\ HandedOK(b) /\ AloneOK(b)
  BY DEF FileInv
<1>2. OwnOK(b)'
  BY <1>1, Zenon DEF OwnOK, Same
<1>3. HandedOK(b)'
  <2>1. CASE b[2] = "restart" /\ Parent(b) \in C
    BY <2>1
  <2>2. CASE b[2] = "restart" /\ Parent(b) \notin C
    <3>1. Same(Parent(b))
      BY <2>2, ActorIs
    <3> QED BY <1>1, <3>1, Zenon DEF HandedOK, Same
  <2>3. CASE b[2] # "restart"
    BY <2>3 DEF HandedOK
  <2> QED BY <2>1, <2>2, <2>3
<1>4. AloneOK(b)'
  <2>1. CASE file' = file
    BY <1>1, <2>1, Zenon DEF AloneOK, Same
  <2>2. CASE pc[b] # "idle" => b \in disturbed'
    BY <1>1, <2>2 DEF AloneOK, Same
  <2> QED BY <2>1, <2>2
<1> QED BY <1>2, <1>3, <1>4

\* A step of one of them.
LEMMA OneKeeps ==
    ASSUME FileInv, FileTypesInv', NEW a \in Actors,
           \A b \in Actors \ {a} : Same(b),
           file' = file \/ \A b \in Actors \ {a} : pc[b] # "idle" => b \in disturbed',
           disturbed \subseteq disturbed',
           OwnOK(a)', HandedOK(a)', AloneOK(a)',
           \A b \in Actors \ {a} : b[2] = "restart" /\ Parent(b) = a => HandedOK(b)'
    PROVE  FileInv'
<1> PICK C \in SUBSET Actors : C = {a}
  OBVIOUS
<1>1. \A b \in Actors \ C : Same(b)
  OBVIOUS
<1>2. file' = file \/ \A b \in Actors \ C : pc[b] # "idle" => b \in disturbed'
  OBVIOUS
<1>3. \A b \in C : OwnOK(b)' /\ HandedOK(b)' /\ AloneOK(b)'
  <2> TAKE b \in C
  <2>1. b = a
    OBVIOUS
  <2> QED BY <2>1
<1>4. \A b \in Actors \ C : b[2] = "restart" /\ Parent(b) \in C => HandedOK(b)'
  OBVIOUS
<1> QED BY <1>1, <1>2, <1>3, <1>4, OthersKeep

\* A window that has not begun is at the beginning of every list.
LEMMA NothingIsRead ==
    ASSUME NEW ls \in Seq(PlainLines)
    PROVE  NothingRead \in Views /\ NothingRead.lines = <<>> /\ ~NothingRead.finished /\ Reading(NothingRead, ls, 0)
<1>1. /\ NothingRead = [line |-> <<>>, lines |-> <<>>, finished |-> FALSE]
      /\ NothingRead.line = <<>> /\ NothingRead.lines = <<>> /\ ~NothingRead.finished
  BY DEF NothingRead
<1>2. Clean(<<>>) /\ <<>> \in Seq(UnitSet) /\ <<>> \in Seq(KeptLines)
  BY DEF Clean
<1>3. NothingRead \in Views
  <2>1. [line |-> <<>>, lines |-> <<>>, finished |-> FALSE]
           \in [line : Seq(UnitSet), lines : Seq(KeptLines), finished : BOOLEAN]
    BY <1>2
  <2> QED BY <1>1, <1>2, <2>1 DEF Views
<1>4. Reading(NothingRead, ls, 0)
  <2>1. SubSeq(ls, 1, 0) = <<>>
    BY SubSeqEmpty
  <2>2. EndsOf(ls)[0] = 0
    BY OutputShape DEF Shape
  <2>3. 0 \in 0..Len(ls) /\ Len(<<>>) = 0
    OBVIOUS
  <2>4. NothingRead.lines = SubSeq(ls, 1, 0) /\ 0 = EndsOf(ls)[0] + Len(NothingRead.line)
    BY <1>1, <2>1, <2>2, <2>3
  <2> QED BY <1>1, <2>3, <2>4 DEF Reading
<1> QED BY <1>1, <1>3, <1>4

\* An empty list is a list.
LEMMA EmptyText ==
    <<>> \in Seq(PlainLines) /\ Output(<<>>) \in Seq(UnitSet) /\ Output(<<>>) # <<>>
<1>1. <<>> \in Seq(PlainLines)
  OBVIOUS
<1> QED BY <1>1, OutputIs

\* The constructor of Writer.
LEMMA ConstructKeeps ==
    ASSUME FileInv, NEW a \in Actors, Construct(a)
    PROVE  FileInv'
<1>1. /\ a[2] = "menu" /\ pc[a] = "idle" /\ OwnOK(a) /\ FileTypesInv
      /\ file' = <<>> /\ offset' = [offset EXCEPT ![a] = 0] /\ pc' = [pc EXCEPT ![a] = "constructed"]
      /\ disturbed' = disturbed \cup {b \in Actors \ {a} : pc[b] # "idle"}
      /\ UNCHANGED <<sel, left, meant, ui, view, pos, early>>
  BY DEF Construct, OpenStream, Disturb, readerVars, FileInv
<1>2. FileTypesInv'
  BY <1>1 DEF FileTypesInv
<1>3. \A b \in Actors \ {a} : Same(b)
  BY <1>1 DEF Same, FileTypesInv
<1>4. left[a] = <<>> /\ ui[a] = "none" /\ view[a] = NothingRead /\ pos[a] = 0 /\ meant[a] = <<>>
  BY <1>1 DEF OwnOK, ActorOK
<1>5. pc'[a] = "constructed" /\ offset'[a] = 0 /\ file' = <<>>
  BY <1>1 DEF FileTypesInv
<1>6. OwnOK(a)'
  BY <1>1, <1>4, <1>5 DEF OwnOK, ActorOK
<1>7. HandedOK(a)'
  BY <1>1 DEF HandedOK
<1>8. AloneOK(a)'
  BY <1>1, <1>4, <1>5 DEF AloneOK, Alone
<1>9. \A b \in Actors \ {a} : b[2] = "restart" /\ Parent(b) = a => HandedOK(b)'
  BY <1>1, <1>3 DEF FileInv, HandedOK, Same
<1> QED BY <1>1, <1>2, <1>3, <1>6, <1>7, <1>8, <1>9, OneKeeps

\* A null selection.
LEMMA ReturnEarlyKeeps ==
    ASSUME FileInv, NEW a \in Actors, ReturnEarly(a)
    PROVE  FileInv'
<1>1. /\ pc[a] = "constructed" /\ OwnOK(a) /\ AloneOK(a) /\ FileTypesInv
      /\ pc' = [pc EXCEPT ![a] = "writing"] /\ left' = [left EXCEPT ![a] = Output(<<>>)]
      /\ UNCHANGED <<sel, file, offset, meant, ui, view, pos, early, disturbed>>
  BY DEF ReturnEarly, readerVars, FileInv
<1>2. FileTypesInv'
  BY <1>1, EmptyText DEF FileTypesInv
<1>3. \A b \in Actors \ {a} : Same(b)
  BY <1>1 DEF Same, FileTypesInv
<1>4. /\ a[2] = "menu" /\ ui[a] = "none" /\ view[a] = NothingRead /\ pos[a] = 0 /\ meant[a] = <<>>
  BY <1>1, ActorIs DEF OwnOK, ActorOK
<1>5. pc'[a] = "writing" /\ left'[a] = Output(<<>>)
  BY <1>1 DEF FileTypesInv
<1>6. OwnOK(a)'
  BY <1>1, <1>4, <1>5 DEF OwnOK, ActorOK
<1>7. HandedOK(a)'
  BY <1>4 DEF HandedOK
<1>8. AloneOK(a)'
  <2> SUFFICES ASSUME a \notin disturbed PROVE AloneOK(a)'
    BY <1>1 DEF AloneOK
  <2>1. file = <<>> /\ offset[a] = 0
    BY <1>1 DEF AloneOK, Alone
  <2>2. file' \o left'[a] = Output(meant'[a])
    <3>1. <<>> \o Output(<<>>) = Output(<<>>)
      BY EmptyText, ConcatEmptySeq
    <3> QED BY <1>1, <1>4, <1>5, <2>1, <3>1
  <2>3. offset'[a] = Len(file')
    BY <1>1, <2>1
  <2> QED BY <1>1, <1>4, <1>5, <2>2, <2>3 DEF AloneOK, Alone
<1>9. \A b \in Actors \ {a} : b[2] = "restart" /\ Parent(b) = a => HandedOK(b)'
  BY <1>1, <1>3 DEF FileInv, HandedOK, Same
<1> QED BY <1>1, <1>2, <1>3, <1>6, <1>7, <1>8, <1>9, OneKeeps

\* writer.start().
LEMMA StartWriterKeeps ==
    ASSUME FileInv, NEW a \in Actors, StartWriter(a)
    PROVE  FileInv'
<1>1. /\ pc[a] = "constructed" /\ OwnOK(a) /\ FileTypesInv
      /\ file' = <<>> /\ offset' = [offset EXCEPT ![a] = 0] /\ pc' = [pc EXCEPT ![a] = "started"]
      /\ disturbed' = disturbed \cup {b \in Actors \ {a} : pc[b] # "idle"}
      /\ UNCHANGED <<sel, left, meant, ui, view, pos, early>>
  BY DEF StartWriter, OpenStream, Disturb, readerVars, FileInv
<1>2. FileTypesInv'
  BY <1>1 DEF FileTypesInv
<1>3. \A b \in Actors \ {a} : Same(b)
  BY <1>1 DEF Same, FileTypesInv
<1>4. /\ a[2] = "menu" /\ left[a] = <<>> /\ ui[a] = "none" /\ view[a] = NothingRead /\ pos[a] = 0
      /\ meant[a] = <<>>
  BY <1>1, ActorIs DEF OwnOK, ActorOK
<1>5. pc'[a] = "started" /\ offset'[a] = 0 /\ file' = <<>>
  BY <1>1 DEF FileTypesInv
<1>6. OwnOK(a)'
  BY <1>1, <1>4, <1>5 DEF OwnOK, ActorOK
<1>7. HandedOK(a)'
  BY <1>4 DEF HandedOK
<1>8. AloneOK(a)'
  BY <1>1, <1>4, <1>5 DEF AloneOK, Alone
<1>9. \A b \in Actors \ {a} : b[2] = "restart" /\ Parent(b) = a => HandedOK(b)'
  BY <1>1, <1>3 DEF FileInv, HandedOK, Same
<1> QED BY <1>1, <1>2, <1>3, <1>6, <1>7, <1>8, <1>9, OneKeeps

\* The menu launches the window, or fails to.
LEMMA LaunchKeeps ==
    ASSUME FileInv, NEW a \in Actors, Launch(a)
    PROVE  FileInv'
<1> DEFINE ls == SelectedLines(sel[a[1]])
<1>1. /\ pc[a] = "started" /\ OwnOK(a) /\ AloneOK(a) /\ FileTypesInv
      /\ pc' = [pc EXCEPT ![a] = "writing"]
      /\ UNCHANGED <<sel, file, offset, view, pos, early, disturbed>>
      /\ \/ /\ ui' = [ui EXCEPT ![a] = "reading"] /\ meant' = [meant EXCEPT ![a] = ls]
            /\ left' = [left EXCEPT ![a] = Output(ls)]
         \/ left' = [left EXCEPT ![a] = Output(<<>>)] /\ UNCHANGED <<ui, meant>>
  BY DEF Launch, Starts, FileInv
<1>2. ls \in Seq(PlainLines)
  <2>1. sel[a[1]] \in Selections
    BY <1>1, ActorIs, ZenonT(30) DEF FileTypesInv
  <2> QED BY <2>1, SelectedIs
<1>3. Output(ls) \in Seq(UnitSet)
  BY <1>2, OutputIs
<1> HIDE DEF ls
<1>4. FileTypesInv'
  <2>1. CASE /\ ui' = [ui EXCEPT ![a] = "reading"] /\ meant' = [meant EXCEPT ![a] = ls]
             /\ left' = [left EXCEPT ![a] = Output(ls)]
    <3>1. meant' \in [Actors -> Seq(PlainLines)] /\ left' \in [Actors -> Seq(UnitSet)]
      BY <1>1, <1>2, <1>3, <2>1 DEF FileTypesInv
    <3> QED BY <1>1, <2>1, <3>1 DEF FileTypesInv
  <2>2. CASE left' = [left EXCEPT ![a] = Output(<<>>)] /\ UNCHANGED <<ui, meant>>
    BY <1>1, <2>2, EmptyText DEF FileTypesInv
  <2> QED BY <1>1, <2>1, <2>2
<1>5. \A b \in Actors \ {a} : Same(b)
  BY <1>1 DEF Same, FileTypesInv
<1>6. a[2] = "menu" /\ ui[a] = "none" /\ view[a] = NothingRead /\ pos[a] = 0 /\ meant[a] = <<>>
  BY <1>1, ActorIs DEF OwnOK, ActorOK
<1>7. /\ pc'[a] = "writing" /\ left'[a] = Output(meant'[a]) /\ meant'[a] \in Seq(PlainLines)
      /\ view'[a] = NothingRead /\ pos'[a] = 0 /\ ui'[a] \in {"none", "reading"}
  BY <1>1, <1>2, <1>6, EmptyText DEF FileTypesInv
<1>8. OwnOK(a)'
  BY <1>6, <1>7 DEF OwnOK, ActorOK
<1>9. HandedOK(a)'
  BY <1>6 DEF HandedOK
<1>10. AloneOK(a)'
  <2> SUFFICES ASSUME a \notin disturbed PROVE AloneOK(a)'
    BY <1>1 DEF AloneOK
  <2>1. file = <<>> /\ offset[a] = 0
    BY <1>1 DEF AloneOK, Alone
  <2>2. file' \o left'[a] = Output(meant'[a])
    <3> PICK m \in Seq(PlainLines) : m = meant'[a]
      BY <1>7
    <3>1. <<>> \o Output(m) = Output(m)
      BY OutputIs, ConcatEmptySeq
    <3> QED BY <1>1, <1>7, <2>1, <3>1
  <2>3. offset'[a] = Len(file') /\ pos'[a] <= Len(file')
    BY <1>1, <1>6, <2>1
  <2>4. Reading(view'[a], meant'[a], pos'[a])
    <3> PICK m \in Seq(PlainLines) : m = meant'[a]
      BY <1>7
    <3>1. Reading(NothingRead, m, 0)
      BY NothingIsRead
    <3> QED BY <1>7, <3>1
  <2> QED BY <1>1, <1>6, <1>7, <2>2, <2>3, <2>4 DEF AloneOK, Alone
<1>11. ASSUME NEW b \in Actors \ {a}, b[2] = "restart", Parent(b) = a
       PROVE  HandedOK(b)'
  <2>1. SuccessorOK(pc[b], meant[b], ui[a], view[a])
    BY <1>11 DEF FileInv, HandedOK
  <2>2. pc[b] = "idle" /\ meant[b] = <<>>
    BY <1>6, <2>1 DEF SuccessorOK
  <2>3. pc'[b] = "idle" /\ meant'[b] = <<>>
    BY <1>5, <2>2 DEF Same
  <2> QED BY <2>3 DEF HandedOK, SuccessorOK
<1> QED BY <1>1, <1>4, <1>5, <1>8, <1>9, <1>10, <1>11, OneKeeps

\* A text is cut where a buffer is full.
LEMMA Cut ==
    ASSUME NEW l \in Seq(UnitSet), Len(l) > Buffer
    PROVE  /\ SubSeq(l, 1, Buffer) \in Seq(UnitSet) /\ SubSeq(l, Buffer + 1, Len(l)) \in Seq(UnitSet)
           /\ Len(SubSeq(l, 1, Buffer)) = Buffer
           /\ SubSeq(l, 1, Buffer) \o SubSeq(l, Buffer + 1, Len(l)) = l
<1> PICK n \in Nat : n = Len(l)
  OBVIOUS
<1> PICK k \in Nat : k = Buffer /\ k # 0
  BY FileAssumption
<1>1. k < n /\ 1 \in 1..(n + 1) /\ k \in 0..n /\ n \in k..n /\ k + 1 \in 1..n
  OBVIOUS
<1>2. SubSeq(l, 1, k) \in Seq(UnitSet) /\ Len(SubSeq(l, 1, k)) = k
  BY <1>1, FirstLines
<1>3. SubSeq(l, k + 1, n) \in Seq(UnitSet)
  <2>1. \A i \in (k + 1)..n : l[i] \in UnitSet
    BY <1>1
  <2> QED BY <1>1, <2>1, SubSeqProperties
<1>4. SubSeq(l, 1, k) \o SubSeq(l, k + 1, n) = SubSeq(l, 1, n)
  <2>1. 1 - 1 = 0 /\ k \in (1 - 1)..n
    BY <1>1
  <2> QED BY <1>1, <2>1, ConcatAdjacentSubSeq
<1>5. SubSeq(l, 1, n) = l
  BY SubSeqFull
<1> QED BY <1>2, <1>3, <1>4, <1>5

\* A part (s) of a text is written behind what is in the file (f).
LEMMA WrittenOn ==
    ASSUME NEW f \in Seq(UnitSet), NEW s \in Seq(UnitSet), NEW r \in Seq(UnitSet)
    PROVE  /\ WriteAt(f, Len(f), s) \in Seq(UnitSet)
           /\ WriteAt(f, Len(f), s) \o r = f \o (s \o r)
           /\ Len(WriteAt(f, Len(f), s)) = Len(f) + Len(s)
<1>1. Len(f) \in Nat
  OBVIOUS
<1>2. WriteAt(f, Len(f), s) = f \o s
  BY <1>1, WriteAtIs
<1>3. (f \o s) \o r = f \o (s \o r)
  BY ConcatAssociative
<1>4. f \o s \in Seq(UnitSet) /\ Len(f \o s) = Len(f) + Len(s)
  BY ConcatProperties
<1> QED BY <1>2, <1>3, <1>4, Zenon

\* The file is the writer's still when a part (s) of what it has left goes out.
LEMMA AloneWrites ==
    ASSUME NEW k, NEW s \in Seq(UnitSet), NEW r \in Seq(UnitSet), NEW o \in Nat, NEW m, NEW w, NEW v,
           NEW n \in Nat, NEW f \in Seq(UnitSet), Alone(k, "writing", s \o r, o, m, w, v, n, f)
    PROVE  Alone(k, "writing", r, o + Len(s), m, w, v, n, WriteAt(f, o, s))
<1>1. f \o (s \o r) = Output(m) /\ o = Len(f) /\ (w # "none" => Reading(v, m, n) /\ n <= Len(f))
      /\ (k = "restart" /\ w \in {"shown", "gone"} => v.finished)
  BY DEF Alone
<1> PICK g : g = WriteAt(f, o, s)
  OBVIOUS
<1>2. g \o r = f \o (s \o r) /\ Len(g) = Len(f) + Len(s)
  BY <1>1, WrittenOn
<1>3. n <= Len(f) => n <= Len(g)
  <2> PICK x \in Nat : x = Len(f)
    OBVIOUS
  <2> PICK y \in Nat : y = Len(s)
    OBVIOUS
  <2> QED BY <1>2
<1>4. Len(g) = o + Len(s) /\ g \o r = Output(m)
  BY <1>1, <1>2, Zenon
<1> QED BY <1>1, <1>3, <1>4 DEF Alone

\* A full buffer goes out.
LEMMA FlushKeeps ==
    ASSUME FileInv, NEW a \in Actors, Flush(a)
    PROVE  FileInv'
<1> PICK l \in Seq(UnitSet) : l = left[a]
  BY DEF FileInv, FileTypesInv
<1> PICK o \in Nat : o = offset[a]
  BY DEF FileInv, FileTypesInv
<1> PICK k \in Nat : k = Buffer
  BY FileAssumption
<1>1. /\ pc[a] = "writing" /\ Len(l) > k /\ OwnOK(a) /\ HandedOK(a) /\ AloneOK(a) /\ FileTypesInv
      /\ file' = WriteAt(file, o, SubSeq(l, 1, k))
      /\ left' = [left EXCEPT ![a] = SubSeq(left[a], k + 1, Len(left[a]))]
      /\ offset' = [offset EXCEPT ![a] = offset[a] + k]
      /\ disturbed' = disturbed \cup {b \in Actors \ {a} : pc[b] # "idle"}
      /\ UNCHANGED <<sel, pc, meant, ui, view, pos, early>>
  BY DEF Flush, Disturb, readerVars, FileInv
<1> PICK s \in Seq(UnitSet) : s = SubSeq(l, 1, k)
  BY <1>1, Cut
<1> PICK r \in Seq(UnitSet) : r = SubSeq(l, k + 1, Len(l))
  BY <1>1, Cut
<1>2. left' = [left EXCEPT ![a] = r] /\ left'[a] = r /\ offset'[a] = o + k /\ file' = WriteAt(file, o, s)
  BY <1>1 DEF FileTypesInv
<1>3. file \in Seq(UnitSet) /\ file' \in Seq(UnitSet)
  <2>1. \A f, us \in Seq(UnitSet) : WriteAt(f, o, us) \in Seq(UnitSet)
    BY WriteAtIs
  <2>2. file \in Seq(UnitSet)
    BY <1>1 DEF FileTypesInv
  <2> QED BY <1>2, <2>1, <2>2
<1>4. FileTypesInv'
  BY <1>1, <1>2, <1>3 DEF FileTypesInv
<1>5. \A b \in Actors \ {a} : Same(b)
  BY <1>1 DEF Same, FileTypesInv
<1>6. OwnOK(a)'
  BY <1>1 DEF OwnOK, ActorOK
<1>7. HandedOK(a)'
  BY <1>1 DEF HandedOK
<1>8. AloneOK(a)'
  <2> SUFFICES ASSUME a \notin disturbed PROVE AloneOK(a)'
    BY <1>1 DEF AloneOK
  <2>1. Alone(a[2], pc[a], l, o, meant[a], ui[a], view[a], pos[a], file)
    BY <1>1 DEF AloneOK
  <2>2. Alone(a[2], "writing", r, o + Len(s), meant[a], ui[a], view[a], pos[a], WriteAt(file, o, s))
    <3>1. s \o r = l /\ pos[a] \in Nat /\ file \in Seq(UnitSet)
      BY <1>1, Cut DEF FileTypesInv
    <3>2. Alone(a[2], "writing", s \o r, o, meant[a], ui[a], view[a], pos[a], file)
      BY <1>1, <2>1, <3>1
    <3> QED BY <3>2, <3>1, AloneWrites
  <2>3. Len(s) = k
    BY <1>1, Cut
  <2> QED BY <1>1, <1>2, <2>2, <2>3 DEF AloneOK
<1>9. \A b \in Actors \ {a} : b[2] = "restart" /\ Parent(b) = a => HandedOK(b)'
  BY <1>1, <1>5 DEF FileInv, HandedOK, Same
<1> QED BY <1>1, <1>4, <1>5, <1>6, <1>7, <1>8, <1>9, OneKeeps

\* The rest goes out, and the file is closed.
LEMMA CloseKeeps ==
    ASSUME FileInv, NEW a \in Actors, Close(a)
    PROVE  FileInv'
<1> PICK l \in Seq(UnitSet) : l = left[a]
  BY DEF FileInv, FileTypesInv
<1> PICK o \in Nat : o = offset[a]
  BY DEF FileInv, FileTypesInv
<1>1. /\ pc[a] = "writing" /\ OwnOK(a) /\ HandedOK(a) /\ AloneOK(a) /\ FileTypesInv
      /\ file' = WriteAt(file, o, l)
      /\ left' = [left EXCEPT ![a] = <<>>] /\ pc' = [pc EXCEPT ![a] = "closed"]
      /\ disturbed' = disturbed \cup {b \in Actors \ {a} : pc[b] # "idle"}
      /\ UNCHANGED <<sel, offset, meant, ui, view, pos, early>>
  BY DEF Close, Disturb, readerVars, FileInv
<1>2. left'[a] = <<>> /\ pc'[a] = "closed"
  BY <1>1 DEF FileTypesInv
<1>3. file \in Seq(UnitSet) /\ file' \in Seq(UnitSet)
  BY <1>1, WriteAtIs DEF FileTypesInv
<1>4. FileTypesInv'
  BY <1>1, <1>3 DEF FileTypesInv
<1>5. \A b \in Actors \ {a} : Same(b)
  BY <1>1 DEF Same, FileTypesInv
<1>6. OwnOK(a)'
  BY <1>1, <1>2 DEF OwnOK, ActorOK
<1>7. HandedOK(a)'
  BY <1>1, <1>2 DEF HandedOK, SuccessorOK
<1>8. AloneOK(a)'
  <2> SUFFICES ASSUME a \notin disturbed PROVE AloneOK(a)'
    BY <1>1 DEF AloneOK
  <2>1. Alone(a[2], pc[a], l, o, meant[a], ui[a], view[a], pos[a], file)
    BY <1>1 DEF AloneOK
  <2> PICK f \in Seq(UnitSet) : f = file
    BY <1>3
  <2>2. f \o l = Output(meant[a]) /\ o = Len(f) /\ (ui[a] # "none" => Reading(view[a], meant[a], pos[a]) /\ pos[a] <= Len(f))
        /\ (a[2] = "restart" /\ ui[a] \in {"shown", "gone"} => view[a].finished)
    BY <1>1, <2>1 DEF Alone
  <2> PICK g \in Seq(UnitSet) : g = f \o l
    BY ConcatProperties
  <2>3. file' = g
    BY <1>1, <2>2, WriteAtIs, ZenonT(30)
  <2>4. g \o <<>> = g
    BY ConcatEmptySeq
  <2>5. ui[a] # "none" => pos[a] <= Len(g)
    <3> PICK n \in Nat : n = pos[a]
      BY <1>1 DEF FileTypesInv
    <3> PICK x \in Nat : x = Len(f)
      OBVIOUS
    <3> PICK y \in Nat : y = Len(l)
      OBVIOUS
    <3>1. \A i, j, m \in Nat : i <= j => i <= j + m
      OBVIOUS
    <3>2. Len(g) = x + y
      BY ConcatProperties
    <3> QED BY <2>2, <3>1, <3>2
  <2>6. Alone(a[2], "closed", <<>>, o, meant[a], ui[a], view[a], pos[a], g)
    BY <2>2, <2>4, <2>5 DEF Alone
  <2> QED BY <1>1, <1>2, <2>3, <2>6 DEF AloneOK
<1>9. \A b \in Actors \ {a} : b[2] = "restart" /\ Parent(b) = a => HandedOK(b)'
  BY <1>1, <1>5 DEF FileInv, HandedOK, Same
<1> QED BY <1>1, <1>4, <1>5, <1>6, <1>7, <1>8, <1>9, OneKeeps

\* Where a chunk that begins at position n ends.
ChunkEnd(f, n) == IF n + Buffer < Len(f) THEN n + Buffer ELSE Len(f)

\* What a window has read when it has read the chunk, and whether it goes on.
ChunkView(v, f, n) == ReadUnits(v, SubSeq(f, n + 1, ChunkEnd(f, n)))
ChunkUi(v, f, n)   == IF ChunkView(v, f, n).finished \/ ChunkEnd(f, n) <= n THEN "shown" ELSE "reading"

\* A chunk (us) that is a file's from position n to e.
ChunkOf(f, n, e, us) ==
    n <= Len(f) => n + Len(us) = e /\ \A i \in 1..Len(us) : n + i <= Len(f) /\ us[i] = f[n + i]

\* The chunk is a part of the file; it is empty at the end only.
LEMMA ChunkIs ==
    ASSUME NEW f \in Seq(UnitSet), NEW n \in Nat
    PROVE  /\ ChunkEnd(f, n) \in Nat /\ ChunkEnd(f, n) <= Len(f)
           /\ SubSeq(f, n + 1, ChunkEnd(f, n)) \in Seq(UnitSet)
           /\ ChunkOf(f, n, ChunkEnd(f, n), SubSeq(f, n + 1, ChunkEnd(f, n)))
           /\ n < Len(f) => n < ChunkEnd(f, n)
           /\ n = 0 /\ ChunkEnd(f, n) < Len(f) => ChunkEnd(f, n) = Buffer
<1> PICK k \in Nat : k = Buffer /\ k # 0
  BY FileAssumption
<1> PICK m \in Nat : m = Len(f)
  OBVIOUS
<1> PICK e \in Nat : e = IF n + k < m THEN n + k ELSE m
  OBVIOUS
<1>0. e = ChunkEnd(f, n)
  BY DEF ChunkEnd
<1> PICK us : us = SubSeq(f, n + 1, e)
  OBVIOUS
<1>1. e <= m /\ (n < m => n < e) /\ (n <= m => n <= e) /\ (n = 0 /\ e < m => e = k)
  OBVIOUS
<1>2. \A i \in (n + 1)..e : f[i] \in UnitSet
  BY <1>1
<1>3. /\ us \in Seq(UnitSet)
      /\ Len(us) = IF n + 1 <= e THEN e - (n + 1) + 1 ELSE 0
      /\ \A i \in 1..e - (n + 1) + 1 : us[i] = f[n + 1 + i - 1]
  <2> PICK d \in Int : d = n + 1
    OBVIOUS
  <2> PICK x \in Int : x = e
    OBVIOUS
  <2>1. \A i \in d..x : f[i] \in UnitSet
    BY <1>2
  <2>2. /\ SubSeq(f, d, x) \in Seq(UnitSet)
        /\ Len(SubSeq(f, d, x)) = IF d <= x THEN x - d + 1 ELSE 0
        /\ \A i \in 1..x - d + 1 : SubSeq(f, d, x)[i] = f[d + i - 1]
    BY <2>1, SubSeqProperties
  <2> QED BY <2>2
<1>4. ASSUME n <= m
      PROVE  n + Len(us) = e /\ \A i \in 1..Len(us) : n + i <= m /\ us[i] = f[n + i]
  <2>1. n <= e
    BY <1>1, <1>4
  <2>2. Len(us) = e - n
    BY <1>3, <2>1
  <2>3. n + (e - n) = e /\ e - (n + 1) + 1 = e - n
    OBVIOUS
  <2>4. \A i \in 1..(e - n) : n + i <= e /\ n + i <= m /\ n + 1 + i - 1 = n + i
    BY <1>1
  <2> QED BY <1>3, <2>2, <2>3, <2>4
<1>5. ChunkOf(f, n, e, us)
  BY <1>4 DEF ChunkOf
<1> QED BY <1>0, <1>1, <1>3, <1>5

\* The file is the writer's still when its window reads.
LEMMA AloneReads ==
    ASSUME NEW k, NEW p \in {"writing", "closed"}, NEW l \in Seq(UnitSet), NEW o, NEW m \in Seq(PlainLines),
           NEW v \in Views, NEW n \in Nat, NEW f \in Seq(UnitSet),
           Alone(k, p, l, o, m, "reading", v, n, f),
           k = "restart" => p = "closed", l # <<>> => p = "writing"
    PROVE  Alone(k, p, l, o, m, ChunkUi(v, f, n), ChunkView(v, f, n), ChunkEnd(f, n), f)
<1> PICK e \in Nat : e = ChunkEnd(f, n)
  BY ChunkIs
<1> PICK u : u = ReadUnits(v, SubSeq(f, n + 1, e))
  OBVIOUS
<1> PICK w : w = IF u.finished \/ e <= n THEN "shown" ELSE "reading"
  OBVIOUS
<1>0. u = ChunkView(v, f, n) /\ w = ChunkUi(v, f, n)
  BY DEF ChunkView, ChunkUi
<1>1. f \o l = Output(m) /\ (p = "writing" => o = Len(f)) /\ Reading(v, m, n) /\ n <= Len(f)
  BY DEF Alone
<1> PICK us \in Seq(UnitSet) : us = SubSeq(f, n + 1, e)
  BY ChunkIs
<1> PICK t \in Seq(UnitSet) : t = Output(m)
  BY OutputIs
<1>2. n + Len(us) = e /\ \A i \in 1..Len(us) : n + i <= Len(f) /\ us[i] = f[n + i]
  <2>1. ChunkOf(f, n, ChunkEnd(f, n), SubSeq(f, n + 1, ChunkEnd(f, n)))
    BY ChunkIs
  <2>2. ChunkOf(f, n, e, us)
    BY <2>1, Zenon
  <2> QED BY <1>1, <2>2 DEF ChunkOf
<1>3. Len(t) = Len(f) + Len(l) /\ \A i \in 1..Len(f) : t[i] = f[i]
  <2>1. /\ Len(f \o l) = Len(f) + Len(l)
        /\ \A i \in 1..Len(f) + Len(l) : (f \o l)[i] = IF i <= Len(f) THEN f[i] ELSE l[i - Len(f)]
    BY ConcatProperties
  <2> PICK x \in Nat : x = Len(f)
    OBVIOUS
  <2> PICK y \in Nat : y = Len(l)
    OBVIOUS
  <2>2. \A i \in 1..x : i \in 1..(x + y) /\ i <= x
    OBVIOUS
  <2>3. \A i \in 1..x : (f \o l)[i] = f[i]
    BY <2>1, <2>2
  <2> QED BY <1>1, <2>1, <2>3
<1>4. Continues(m, n, us)
  <2>1. \A i \in 1..Len(us) : us[i] = t[n + i]
    <3> TAKE i \in 1..Len(us)
    <3>1. n + i \in 1..Len(f)
      BY <1>2
    <3> QED BY <1>2, <1>3, <3>1
  <2> QED BY <2>1 DEF Continues
<1>5. u \in Views /\ Reading(u, m, e)
  <2>1. Reading(ReadUnits(v, us), m, n + Len(us))
    BY <1>1, <1>4, ReadUnitsReads
  <2> QED BY <1>2, <2>1, ReadUnitsReads
<1>6. e <= Len(f)
  BY ChunkIs
<1>7. ASSUME k = "restart", w \in {"shown", "gone"}
      PROVE  u.finished
  <2> SUFFICES ASSUME ~u.finished PROVE FALSE
    OBVIOUS
  <2>1. p = "closed" /\ l = <<>>
    BY <1>7
  <2>2. Len(t) = Len(f)
    <3>1. f \o <<>> = f
      BY ConcatEmptySeq
    <3> QED BY <1>1, <2>1, <3>1
  <2>3. e < Len(f)
    BY <1>5, <2>2, ReadingGoesOn
  <2>4. n < Len(f)
    <3> PICK x \in Nat : x = Len(f)
      OBVIOUS
    <3>1. e <= n
      BY <1>7
    <3>2. n = x => e = n
      <4>1. e = x \/ (n + Buffer < x /\ e = n + Buffer)
        BY DEF ChunkEnd
      <4>2. Buffer \in Nat
        BY FileAssumption
      <4> QED BY <4>1, <4>2, <2>3
    <3> QED BY <1>1, <2>3, <3>1, <3>2
  <2>5. n < e
    BY <2>4, ChunkIs
  <2> QED BY <1>7, <2>5
<1>8. Alone(k, p, l, o, m, w, u, e, f)
  BY <1>1, <1>5, <1>6, <1>7 DEF Alone
<1> QED BY <1>0, <1>8, Zenon

\* A chunk is read.
LEMMA ReadChunkKeeps ==
    ASSUME FileInv, NEW a \in Actors, ReadChunk(a)
    PROVE  FileInv'
<1> PICK v \in Views : v = view[a]
  BY DEF FileInv, FileTypesInv
<1> PICK n \in Nat : n = pos[a]
  BY DEF FileInv, FileTypesInv
<1> PICK f \in Seq(UnitSet) : f = file
  BY DEF FileInv, FileTypesInv
<1> PICK e \in Nat : e = ChunkEnd(f, n)
  BY ChunkIs
<1> PICK u : u = ReadUnits(v, SubSeq(f, n + 1, e))
  OBVIOUS
<1> PICK w : w = IF u.finished \/ e <= n THEN "shown" ELSE "reading"
  OBVIOUS
<1>0. u = ChunkView(v, f, n) /\ w = ChunkUi(v, f, n)
  BY DEF ChunkView, ChunkUi
<1>1. /\ ui[a] = "reading" /\ OwnOK(a) /\ HandedOK(a) /\ AloneOK(a) /\ FileTypesInv
      /\ view' = [view EXCEPT ![a] = u] /\ pos' = [pos EXCEPT ![a] = e] /\ ui' = [ui EXCEPT ![a] = w]
      /\ early' = IF pc[a] # "closed" THEN early \cup {a} ELSE early
      /\ UNCHANGED <<sel, file, pc, left, offset, meant, disturbed>>
  BY DEF ReadChunk, writerVars, FileInv, ChunkEnd
<1>2. u \in Views
  <2>1. SubSeq(f, n + 1, e) \in Seq(UnitSet)
    BY ChunkIs
  <2> QED BY <2>1, ReadUnitsReads
<1>3. w \in {"shown", "reading"}
  OBVIOUS
<1>4. FileTypesInv'
  BY <1>1, <1>2, <1>3 DEF FileTypesInv
<1>5. \A b \in Actors \ {a} : Same(b)
  BY <1>1 DEF Same, FileTypesInv
<1>6. view'[a] = u /\ pos'[a] = e /\ ui'[a] = w
  BY <1>1 DEF FileTypesInv
<1>7. pc[a] = "closed" \/ (a[2] = "menu" /\ pc[a] = "writing")
  BY <1>1 DEF OwnOK, ActorOK
<1>8. OwnOK(a)'
  <2>1. left[a] # <<>> => pc[a] = "writing"
    BY <1>1 DEF OwnOK, ActorOK
  <2> QED BY <1>1, <1>3, <1>6, <1>7, <2>1 DEF OwnOK, ActorOK
<1>9. HandedOK(a)'
  <2> SUFFICES ASSUME a[2] = "restart" PROVE HandedOK(a)'
    BY DEF HandedOK
  <2>1. Same(Parent(a))
    BY <1>5, ActorIs
  <2> QED BY <1>1, <2>1 DEF HandedOK, Same
<1>10. AloneOK(a)'
  <2> SUFFICES ASSUME a \notin disturbed PROVE AloneOK(a)'
    BY <1>1 DEF AloneOK
  <2> PICK p \in {"writing", "closed"} : p = pc[a]
    BY <1>7
  <2> PICK l \in Seq(UnitSet) : l = left[a]
    BY <1>1 DEF FileTypesInv
  <2> PICK m \in Seq(PlainLines) : m = meant[a]
    BY <1>1 DEF FileTypesInv
  <2>2. Alone(a[2], p, l, offset[a], m, "reading", v, n, f)
    BY <1>1, <1>7 DEF AloneOK
  <2>3. (a[2] = "restart" => p = "closed") /\ (l # <<>> => p = "writing")
    BY <1>1, <1>7 DEF OwnOK, ActorOK
  <2>4. Alone(a[2], p, l, offset[a], m, ChunkUi(v, f, n), ChunkView(v, f, n), ChunkEnd(f, n), f)
    BY <2>2, <2>3, AloneReads
  <2>5. Alone(a[2], p, left[a], offset[a], meant[a], w, u, e, f)
    BY <1>0, <2>4, Zenon
  <2> QED BY <1>1, <1>6, <2>5 DEF AloneOK
<1>11. ASSUME NEW b \in Actors \ {a}, b[2] = "restart", Parent(b) = a
       PROVE  HandedOK(b)'
  <2>1. SuccessorOK(pc[b], meant[b], ui[a], view[a])
    BY <1>11 DEF FileInv, HandedOK
  <2>2. pc[b] = "idle" /\ meant[b] = <<>>
    BY <1>1, <2>1 DEF SuccessorOK
  <2>3. pc'[b] = "idle" /\ meant'[b] = <<>>
    BY <1>5, <2>2 DEF Same
  <2> QED BY <2>3 DEF HandedOK, SuccessorOK
<1> QED BY <1>1, <1>4, <1>5, <1>8, <1>9, <1>10, <1>11, OneKeeps

\* StartAsElevated writes what the window has read.
LEMMA RestartKeeps ==
    ASSUME FileInv, NEW a \in Actors, Restart(a)
    PROVE  FileInv'
<1> PICK q \in Actors : q = Parent(a) /\ q[2] = "menu"
  BY ActorIs
<1> PICK ls : ls = view[q].lines
  OBVIOUS
<1>1. /\ a[2] = "restart" /\ pc[a] = "idle" /\ ui[q] = "shown" /\ OwnOK(a) /\ FileTypesInv
      /\ file' = <<>> /\ offset' = [offset EXCEPT ![a] = 0] /\ pc' = [pc EXCEPT ![a] = "writing"]
      /\ meant' = [meant EXCEPT ![a] = ls] /\ left' = [left EXCEPT ![a] = Output(ls)]
      /\ disturbed' = disturbed \cup {b \in Actors \ {a} : pc[b] # "idle"}
      /\ UNCHANGED <<sel, ui, view, pos, early>>
  BY DEF Restart, OpenStream, Disturb, readerVars, FileInv
<1>2. ls \in Seq(PlainLines) /\ Output(ls) \in Seq(UnitSet)
  <2>1. ls \in Seq(KeptLines)
    BY <1>1 DEF FileTypesInv, Views
  <2>2. KeptLines \subseteq PlainLines
    BY DEF KeptLines, PlainLines, Clean, Plain
  <2>3. ls \in Seq(PlainLines)
    BY <2>1, <2>2, SeqMonotonic
  <2> QED BY <2>3, OutputIs
<1>3. FileTypesInv'
  <2>1. file' \in Seq(UnitSet) /\ left' \in [Actors -> Seq(UnitSet)] /\ meant' \in [Actors -> Seq(PlainLines)]
    BY <1>1, <1>2 DEF FileTypesInv
  <2>2. offset' \in [Actors -> Nat] /\ disturbed' \in SUBSET Actors
    BY <1>1 DEF FileTypesInv
  <2>3. pc' \in [Actors -> {"idle", "constructed", "started", "writing", "closed"}]
    BY <1>1 DEF FileTypesInv
  <2> QED BY <1>1, <2>1, <2>2, <2>3 DEF FileTypesInv
<1>4. \A b \in Actors \ {a} : Same(b)
  BY <1>1 DEF Same, FileTypesInv
<1>5. ui[a] = "none" /\ view[a] = NothingRead /\ pos[a] = 0
  BY <1>1 DEF OwnOK, ActorOK
<1>6. pc'[a] = "writing" /\ offset'[a] = 0 /\ meant'[a] = ls /\ left'[a] = Output(ls)
  BY <1>1 DEF FileTypesInv
<1>7. OwnOK(a)'
  BY <1>1, <1>5, <1>6 DEF OwnOK, ActorOK
<1>8. HandedOK(a)'
  BY <1>1, <1>6 DEF HandedOK, SuccessorOK
<1>9. AloneOK(a)'
  <2>1. <<>> \o Output(ls) = Output(ls) /\ Len(<<>>) = 0
    BY <1>2, ConcatEmptySeq
  <2>2. file' \o left'[a] = Output(meant'[a]) /\ offset'[a] = Len(file')
    BY <1>1, <1>6, <2>1
  <2> QED BY <1>1, <1>5, <1>6, <2>2 DEF AloneOK, Alone
<1>10. \A b \in Actors \ {a} : b[2] = "restart" /\ Parent(b) = a => HandedOK(b)'
  BY <1>1, ActorIs
<1> QED BY <1>1, <1>3, <1>4, <1>7, <1>8, <1>9, <1>10, OneKeeps

\* The user declines: the window stays.
LEMMA DeclineKeeps ==
    ASSUME FileInv, NEW a \in Actors, a[2] = "restart", pc[a] = "closed", ui[a] = "none",
           pc' = [pc EXCEPT ![a] = "idle"],
           UNCHANGED <<sel, file, left, offset, meant, ui, view, pos, early, disturbed>>
    PROVE  FileInv'
<1>1. FileTypesInv /\ OwnOK(a) /\ HandedOK(a)
  BY DEF FileInv
<1>2. FileTypesInv'
  BY <1>1 DEF FileTypesInv
<1>3. \A b \in Actors \ {a} : Same(b)
  BY <1>1 DEF Same, FileTypesInv
<1>4. pc'[a] = "idle"
  BY <1>1 DEF FileTypesInv
<1>5. OwnOK(a)'
  BY <1>1, <1>4 DEF OwnOK, ActorOK
<1>6. HandedOK(a)'
  BY <1>1, <1>4 DEF HandedOK, SuccessorOK
<1>7. AloneOK(a)'
  BY <1>4 DEF AloneOK
<1>8. \A b \in Actors \ {a} : b[2] = "restart" /\ Parent(b) = a => HandedOK(b)'
  BY <1>3 DEF FileInv, HandedOK, Same
<1> QED BY <1>2, <1>3, <1>5, <1>6, <1>7, <1>8, OneKeeps

\* The elevated window is launched, and its parent exits.
LEMMA LaunchElevatedKeeps ==
    ASSUME FileInv, NEW a \in Actors, LaunchElevated(a)
    PROVE  FileInv'
<1> PICK q \in Actors : q = Parent(a) /\ q[2] = "menu"
  BY ActorIs
<1>1. /\ a[2] = "restart" /\ pc[a] = "closed" /\ ui[a] = "none" /\ ui[q] = "shown"
      /\ FileTypesInv /\ OwnOK(a) /\ HandedOK(a) /\ AloneOK(a) /\ OwnOK(q) /\ AloneOK(q)
      /\ \/ ui' = [ui EXCEPT ![a] = "reading", ![q] = "gone"] /\ UNCHANGED pc
         \/ pc' = [pc EXCEPT ![a] = "idle"] /\ UNCHANGED ui
      /\ UNCHANGED <<sel, file, left, offset, meant, view, pos, early, disturbed>>
  BY DEF LaunchElevated, FileInv
<1>2. CASE pc' = [pc EXCEPT ![a] = "idle"] /\ UNCHANGED ui
  BY <1>1, <1>2, DeclineKeeps
<1>3. CASE ui' = [ui EXCEPT ![a] = "reading", ![q] = "gone"] /\ UNCHANGED pc
  <2>0. q # a
    BY <1>1
  <2>1. FileTypesInv'
    BY <1>1, <1>3 DEF FileTypesInv
  <2>2. ui'[a] = "reading" /\ ui'[q] = "gone" /\ \A b \in Actors \ {a, q} : ui'[b] = ui[b]
    BY <1>1, <1>3, <2>0 DEF FileTypesInv
  <2>3. \A b \in Actors \ {a, q} : Same(b)
    BY <1>1, <1>3, <2>2 DEF Same
  <2>4. view[a] = NothingRead /\ pos[a] = 0 /\ left[a] = <<>>
    BY <1>1 DEF OwnOK, ActorOK
  <2>5. OwnOK(a)' /\ OwnOK(q)'
    BY <1>1, <1>3, <2>2, <2>4 DEF OwnOK, ActorOK
  <2>6. ASSUME NEW b \in Actors, b[2] = "restart", Parent(b) = q
        PROVE  HandedOK(b)'
    <3>1. SuccessorOK(pc[b], meant[b], ui[q], view[q])
      BY <2>6 DEF FileInv, HandedOK
    <3>2. SuccessorOK(pc[b], meant[b], "gone", view[q])
      BY <3>1 DEF SuccessorOK
    <3>3. SuccessorOK(pc'[b], meant'[b], ui'[q], view'[q])
      BY <1>1, <1>3, <2>2, <3>2
    <3> QED BY <2>6, <3>3 DEF HandedOK
  <2>7. HandedOK(a)' /\ HandedOK(q)'
    <3>1. HandedOK(a)'
      BY <1>1, <2>6
    <3>2. q[2] # "restart"
      OBVIOUS
    <3> QED BY <3>1, <3>2 DEF HandedOK
  <2>8. AloneOK(a)'
    <3> SUFFICES ASSUME a \notin disturbed PROVE AloneOK(a)'
      BY <1>1 DEF AloneOK
    <3> PICK m \in Seq(PlainLines) : m = meant[a]
      BY <1>1 DEF FileTypesInv
    <3>1. Alone(a[2], "closed", <<>>, offset[a], m, "none", view[a], pos[a], file)
      BY <1>1, <2>4 DEF AloneOK
    <3>2. Reading(NothingRead, m, 0)
      BY NothingIsRead
    <3>3. 0 <= Len(file)
      BY <1>1 DEF FileTypesInv
    <3>4. Alone(a[2], "closed", <<>>, offset[a], m, "reading", NothingRead, 0, file)
      BY <3>1, <3>2, <3>3 DEF Alone
    <3>5. Alone(a[2], pc'[a], left'[a], offset'[a], meant'[a], ui'[a], view'[a], pos'[a], file')
      BY <1>1, <1>3, <2>2, <2>4, <3>4
    <3> QED BY <3>5 DEF AloneOK
  <2>9. AloneOK(q)'
    <3> SUFFICES ASSUME q \notin disturbed, pc[q] # "idle" PROVE AloneOK(q)'
      BY <1>1, <1>3 DEF AloneOK
    <3>1. Alone(q[2], pc[q], left[q], offset[q], meant[q], "shown", view[q], pos[q], file)
      BY <1>1 DEF AloneOK
    <3>2. Alone(q[2], pc[q], left[q], offset[q], meant[q], "gone", view[q], pos[q], file)
      BY <3>1 DEF Alone
    <3>3. Alone(q[2], pc'[q], left'[q], offset'[q], meant'[q], ui'[q], view'[q], pos'[q], file')
      BY <1>1, <1>3, <2>2, <3>2
    <3> QED BY <3>3 DEF AloneOK
  <2> PICK C \in SUBSET Actors : C = {a, q}
    OBVIOUS
  <2>10. \A b \in C : OwnOK(b)' /\ HandedOK(b)' /\ AloneOK(b)'
    <3> TAKE b \in C
    <3>1. b = a \/ b = q
      OBVIOUS
    <3> QED BY <2>5, <2>7, <2>8, <2>9, <3>1
  <2>11. ASSUME NEW b \in Actors \ C, b[2] = "restart", Parent(b) \in C
         PROVE  HandedOK(b)'
    <3>1. Parent(b) = q
      BY <1>1, <2>11, ActorIs
    <3> QED BY <2>6, <2>11, <3>1
  <2>12. \A b \in Actors \ C : Same(b)
    BY <2>3
  <2>13. file' = file /\ disturbed \subseteq disturbed'
    BY <1>1
  <2> QED BY <2>1, <2>10, <2>11, <2>12, <2>13, OthersKeep
<1> QED BY <1>1, <1>2, <1>3

\* Every step keeps the invariant.
LEMMA FileInvStep ==
    ASSUME FileInv, [Next]_vars
    PROVE  FileInv'
<1>1. ASSUME NEW a \in Actors, Actor(a)
      PROVE  FileInv'
  BY <1>1, ConstructKeeps, ReturnEarlyKeeps, StartWriterKeeps, LaunchKeeps, FlushKeeps, CloseKeeps,
     ReadChunkKeeps, RestartKeeps, LaunchElevatedKeeps DEF Actor
<1>2. CASE UNCHANGED vars
  <2>1. UNCHANGED <<sel, file, pc, left, offset, meant, ui, view, pos, early, disturbed>>
    BY <1>2 DEF vars, writerVars, readerVars
  <2>2. FileTypesInv'
    BY <2>1 DEF FileInv, FileTypesInv
  <2>3. ASSUME NEW a \in Actors
        PROVE  OwnOK(a)' /\ HandedOK(a)' /\ AloneOK(a)'
    BY <2>1 DEF FileInv, OwnOK, HandedOK, AloneOK
  <2> QED BY <2>2, <2>3 DEF FileInv
<1> QED BY <1>1, <1>2 DEF Next

\* At the beginning nobody has written.
LEMMA FileInvInit ==
    ASSUME Init
    PROVE  FileInv
<1>1. FileTypesInv
  <2>1. NothingRead \in Views
    BY EmptyText, NothingIsRead
  <2> QED BY <2>1 DEF Init, FileTypesInv
<1>2. ASSUME NEW a \in Actors
      PROVE  OwnOK(a) /\ HandedOK(a) /\ AloneOK(a)
  BY DEF Init, OwnOK, HandedOK, AloneOK, ActorOK, SuccessorOK
<1> QED BY <1>1, <1>2 DEF FileInv

\* The inductive invariant of the hand-over.
LEMMA FileInvAlways == Spec => []FileInv
<1>1. Init => FileInv
  BY FileInvInit
<1>2. FileInv /\ [Next]_vars => FileInv'
  BY FileInvStep
<1> QED BY <1>1, <1>2, PTL DEF Spec

\* The variables have their types, and only a writer that writes has something left
\* to write out.
THEOREM FileTypesCorrect == Spec => []TypeOK
<1>1. FileInv => TypeOK
  BY DEF FileInv, FileTypesInv, OwnOK, ActorOK, TypeOK
<1> QED BY <1>1, FileInvAlways, PTL

\* The menu never makes its window read a list that was there before, however the
\* two are scheduled, the list and its buffers are sized, and the windows of others
\* behave (ipc::Writer, ReadPathsFromFile).
THEOREM NothingOldAlways == Spec => []NothingOld
<1>1. FileInv => NothingOld
  <2> SUFFICES ASSUME FileInv, NEW a \in Actors, a[2] = "menu", ui[a] # "none", a \notin disturbed
               PROVE  IsPrefix(view[a].lines, meant[a])
    BY DEF NothingOld
  <2>1. OwnOK(a) /\ AloneOK(a) /\ FileTypesInv
    BY DEF FileInv
  <2>2. pc[a] # "idle"
    BY <2>1 DEF OwnOK, ActorOK
  <2>3. Reading(view[a], meant[a], pos[a])
    BY <2>1, <2>2 DEF AloneOK, Alone
  <2> PICK ls \in Seq(PlainLines) : ls = meant[a]
    BY <2>1 DEF FileTypesInv
  <2>4. \A j \in 0..Len(ls) : IsPrefix(SubSeq(ls, 1, j), ls)
    BY FirstLines
  <2> QED BY <2>3, <2>4 DEF Reading
<1> QED BY <1>1, FileInvAlways, PTL

\* The elevated window shows what the one it replaces has shown, if nobody else has
\* written meanwhile (StartAsElevated, ReadPathsFromFile).
THEOREM RestartKeepsPathsAlways == Spec => []RestartKeepsPaths
<1>1. FileInv => RestartKeepsPaths
  <2> SUFFICES ASSUME FileInv, NEW a \in Actors, a[2] = "restart", ui[a] = "shown", a \notin disturbed
               PROVE  view[a].lines = view[Parent(a)].lines
    BY DEF RestartKeepsPaths
  <2>1. OwnOK(a) /\ HandedOK(a) /\ AloneOK(a) /\ FileTypesInv
    BY DEF FileInv
  <2>2. pc[a] # "idle"
    BY <2>1 DEF OwnOK, ActorOK
  <2>3. Reading(view[a], meant[a], pos[a]) /\ view[a].finished
    BY <2>1, <2>2 DEF AloneOK, Alone
  <2>4. meant[a] = view[Parent(a)].lines
    BY <2>1, <2>2 DEF HandedOK, SuccessorOK
  <2>5. view[Parent(a)] \in Views
    BY <2>1, ActorIs DEF FileTypesInv
  <2>6. \A j \in 1..Len(meant[a]) : Clean(meant[a][j])
    BY <2>4, <2>5 DEF Views, KeptLines
  <2> QED BY <2>3, <2>4, <2>6 DEF Reading
<1> QED BY <1>1, FileInvAlways, PTL

-----------------------------------------------------------------------------
\* Nothing is longer than a buffer.  What is in the file then begins with the text
\* of one writer, and every window reads it at once.
OnDisk   == \/ file = <<>>
            \/ \E b \in Actors : /\ pc[b] = "closed" \/ b[2] = "restart"
                                 /\ IsPrefix(Output(meant[b]), file)
Whole(a) == /\ offset[a] = 0
            /\ pc[a] = "writing" => left[a] = Output(meant[a])
            /\ ui[a] = "reading" => view[a] = NothingRead /\ pos[a] = 0
Like(a)  == \E b \in Actors : IsPrefix(view[a].lines, meant[b])

Short    == \A a \in Actors : Len(Output(meant[a])) <= Buffer
ShortInv == OnDisk /\ \A a \in Actors : Whole(a) /\ Like(a)

\* The text of an empty list fits into a buffer.
LEMMA EmptyFits == Len(Output(<<>>)) <= Buffer
<1>1. Len(Output(<<>>)) = 1
  <2> PICK ls \in Seq(PlainLines) : ls = <<>>
    BY EmptyText
  <2> PICK e : e = EndsOf(ls)
    OBVIOUS
  <2>1. Len(ls) = 0
    BY EmptySeq
  <2>2. Len(Output(ls)) = e[Len(ls)] + 1 /\ e[0] = 0
    BY OutputShape DEF Shape
  <2>3. 0 + 1 = 1
    OBVIOUS
  <2> QED BY <2>1, <2>2, <2>3, Zenon
<1>2. \A n : n = 1 => n <= Buffer
  BY FileAssumption
<1> QED BY <1>1, <1>2, Zenon

\* A list that a step adds was meant already, or there was none in its place.
LEMMA ShortBefore ==
    ASSUME FileInv, Next, Short'
    PROVE  Short
<1> SUFFICES ASSUME NEW b \in Actors PROVE Len(Output(meant[b])) <= Buffer
  BY DEF Short
<1>1. Len(Output(meant'[b])) <= Buffer
  BY DEF Short
<1>2. FileTypesInv /\ OwnOK(b) /\ HandedOK(b)
  BY DEF FileInv
<1> PICK a \in Actors : Actor(a)
  BY DEF Next
<1>3. CASE meant'[b] = meant[b]
  BY <1>1, <1>3
<1>4. CASE Launch(a) /\ meant'[b] # meant[b]
  <2>1. b = a /\ pc[a] = "started"
    BY <1>2, <1>4 DEF Launch, FileTypesInv
  <2>2. meant[b] = <<>>
    BY <1>2, <2>1, ActorIs DEF OwnOK, ActorOK
  <2> QED BY <2>2, EmptyFits
<1>5. CASE Restart(a) /\ meant'[b] # meant[b]
  <2>1. /\ b = a /\ a[2] = "restart" /\ pc[a] = "idle"
        /\ meant' = [meant EXCEPT ![a] = view[Parent(a)].lines]
    BY <1>2, <1>5 DEF Restart, FileTypesInv
  <2>2. meant'[a] = view[Parent(a)].lines
    BY <1>2, <2>1 DEF FileTypesInv
  <2>3. meant[b] = <<>>
    BY <1>2, <1>5, <2>1, <2>2 DEF HandedOK, SuccessorOK
  <2> QED BY <2>3, EmptyFits
<1>6. UNCHANGED meant \/ Launch(a) \/ Restart(a)
  BY DEF Actor, Construct, ReturnEarly, StartWriter, Flush, Close, ReadChunk, LaunchElevated, writerVars
<1> QED BY <1>3, <1>4, <1>5, <1>6

\* What a window has read stays like the list of a writer when a writer (a) only
\* changes what it means from nothing.
LEMMA StillLike ==
    ASSUME FileTypesInv, FileTypesInv', ShortInv, NEW a \in Actors,
           \A b \in Actors \ {a} : meant'[b] = meant[b], meant'[a] = meant[a] \/ meant[a] = <<>>,
           NEW b \in Actors, view'[b].lines = view[b].lines
    PROVE  Like(b)'
<1> PICK c \in Actors : IsPrefix(view[b].lines, meant[c])
  BY DEF ShortInv, Like
<1>1. CASE c # a \/ meant'[a] = meant[a]
  <2>1. meant'[c] = meant[c]
    BY <1>1
  <2> QED BY <2>1, Zenon DEF Like
<1>2. CASE c = a /\ meant[a] = <<>>
  <2> PICK x \in Seq(PlainLines) : x = view[b].lines
    <3>1. view[b].lines \in Seq(KeptLines)
      BY DEF FileTypesInv, Views
    <3>2. KeptLines \subseteq PlainLines
      BY DEF KeptLines, PlainLines, Clean, Plain
    <3> QED BY <3>1, <3>2, SeqMonotonic
  <2> PICK e \in Seq(PlainLines) : e = <<>>
    BY EmptyText
  <2> PICK m \in Seq(PlainLines) : m = meant'[a]
    BY DEF FileTypesInv
  <2>1. IsPrefix(x, e) /\ Len(e) = 0
    BY <1>2, EmptySeq
  <2>2. Len(x) = 0
    <3>1. Len(x) <= Len(e)
      BY <2>1 DEF IsPrefix
    <3> PICK y \in Nat : y = Len(x)
      OBVIOUS
    <3> QED BY <2>1, <3>1
  <2>3. IsPrefix(x, m)
    <3> PICK y \in Nat : y = Len(m)
      OBVIOUS
    <3>1. Len(x) <= y /\ \A i \in 1..Len(x) : x[i] = m[i]
      BY <2>2
    <3> QED BY <3>1, PrefixIs
  <2>4. IsPrefix(view'[b].lines, meant'[a])
    BY <2>3
  <2> QED BY <2>4 DEF Like
<1> QED BY <1>1, <1>2

\* The lists and texts of the others are as they were.
LEMMA ShortKeeps ==
    ASSUME FileTypesInv, FileTypesInv', ShortInv, NEW a \in Actors,
           \A b \in Actors \ {a} : Same(b), meant'[a] = meant[a] \/ meant[a] = <<>>,
           OnDisk', Whole(a)', Like(a)'
    PROVE  ShortInv'
<1> SUFFICES ASSUME NEW b \in Actors \ {a} PROVE Whole(b)' /\ Like(b)'
  BY DEF ShortInv
<1>1. Same(b) /\ Whole(b)
  BY DEF ShortInv
<1>2. Whole(b)'
  BY <1>1, Zenon DEF Whole, Same
<1>3. \A c \in Actors \ {a} : meant'[c] = meant[c]
  BY DEF Same
<1>4. view'[b].lines = view[b].lines
  BY <1>1 DEF Same
<1>5. Like(b)'
  BY <1>3, <1>4, StillLike
<1> QED BY <1>2, <1>5

\* What is on the disk is as it was.
LEMMA DiskKeeps ==
    ASSUME OnDisk, NEW a \in Actors, \A b \in Actors \ {a} : Same(b), file' = file,
           (pc[a] = "closed" \/ a[2] = "restart") =>
              (pc'[a] = "closed" \/ a[2] = "restart") /\ meant'[a] = meant[a]
    PROVE  OnDisk'
<1>1. CASE file = <<>>
  BY <1>1 DEF OnDisk
<1>2. CASE file # <<>>
  <2> PICK b \in Actors : (pc[b] = "closed" \/ b[2] = "restart") /\ IsPrefix(Output(meant[b]), file)
    BY <1>2 DEF OnDisk
  <2>1. meant'[b] = meant[b] /\ (pc'[b] = "closed" \/ b[2] = "restart")
    <3>1. CASE b = a
      BY <3>1
    <3>2. CASE b # a
      BY <3>2 DEF Same
    <3> QED BY <3>1, <3>2
  <2> QED BY <2>1, Zenon DEF OnDisk
<1> QED BY <1>1, <1>2

\* At the end of a file nothing is read.
LEMMA NothingMore == ReadUnits(NothingRead, <<>>) = NothingRead
<1>1. <<>> \in Seq(UnitSet)
  BY EmptySeq
<1>2. NothingRead \in Views
  BY EmptyText, NothingIsRead
<1> QED BY <1>1, <1>2, ReadUnitsReads

\* A chunk that begins with a whole text is read to its end.
LEMMA ReadsWhole ==
    ASSUME NEW m \in Seq(PlainLines), NEW f \in Seq(UnitSet), IsPrefix(Output(m), f), Len(Output(m)) <= Buffer
    PROVE  ChunkView(NothingRead, f, 0).finished /\ IsPrefix(ChunkView(NothingRead, f, 0).lines, m)
<1> PICK t \in Seq(UnitSet) : t = Output(m)
  BY OutputIs
<1> PICK z \in Nat : z = 0
  OBVIOUS
<1> PICK e \in Nat : e = ChunkEnd(f, z)
  BY ChunkIs
<1> PICK us \in Seq(UnitSet) : us = SubSeq(f, z + 1, e)
  BY ChunkIs
<1> PICK v \in Views : v = NothingRead
  BY NothingIsRead
<1> PICK u : u = ReadUnits(v, us)
  OBVIOUS
<1>1. Len(t) <= Len(f) /\ \A i \in 1..Len(t) : t[i] = f[i]
  BY PrefixIs
<1>2. ChunkOf(f, z, e, us)
  <2>1. ChunkOf(f, z, ChunkEnd(f, z), SubSeq(f, z + 1, ChunkEnd(f, z)))
    BY ChunkIs
  <2> QED BY <2>1, Zenon
<1>3. Len(us) = e /\ \A i \in 1..Len(us) : us[i] = f[i]
  <2>1. z <= Len(f)
    OBVIOUS
  <2>2. z + Len(us) = e /\ \A i \in 1..Len(us) : us[i] = f[z + i]
    BY <1>2, <2>1 DEF ChunkOf
  <2> PICK n \in Nat : n = Len(us)
    OBVIOUS
  <2>3. z + n = n /\ \A i \in 1..n : z + i = i
    OBVIOUS
  <2> QED BY <2>2, <2>3
<1>4. Continues(m, z, us)
  <2>1. \A i \in 1..Len(us) : z + i <= Len(t) => us[i] = t[z + i]
    <3> SUFFICES ASSUME NEW i \in 1..Len(us), z + i <= Len(t) PROVE us[i] = t[z + i]
      OBVIOUS
    <3>1. z + i = i /\ i \in 1..Len(t)
      OBVIOUS
    <3> QED BY <1>1, <1>3, <3>1
  <2> QED BY <2>1 DEF Continues
<1>5. Reading(v, m, z)
  BY NothingIsRead
<1>6. u \in Views /\ Reading(u, m, e)
  <2>1. Reading(u, m, z + Len(us)) /\ u \in Views
    BY <1>4, <1>5, ReadUnitsReads
  <2>2. z + Len(us) = e
    BY <1>3
  <2> QED BY <2>1, <2>2
<1>7. Len(t) <= e
  <2>1. e < Len(f) => e = Buffer
    BY ChunkIs
  <2>2. e <= Len(f)
    BY ChunkIs
  <2>3. Len(t) <= Buffer
    OBVIOUS
  <2> PICK x \in Nat : x = Len(f)
    OBVIOUS
  <2> PICK y \in Nat : y = Len(t)
    OBVIOUS
  <2> QED BY <1>1, <2>1, <2>2, <2>3
<1>8. u.finished
  <2> SUFFICES ASSUME ~u.finished PROVE FALSE
    OBVIOUS
  <2>1. e < Len(t)
    BY <1>6, ReadingGoesOn
  <2> PICK y \in Nat : y = Len(t)
    OBVIOUS
  <2> QED BY <1>7, <2>1
<1>9. IsPrefix(u.lines, m)
  BY <1>6, <1>8 DEF Reading
<1>10. u = ChunkView(NothingRead, f, 0)
  BY DEF ChunkView
<1> QED BY <1>8, <1>9, <1>10, Zenon

\* A window that reads finds the text of one writer, or nothing.
LEMMA ShortReads ==
    ASSUME FileInv, FileInv', Short, ShortInv, NEW a \in Actors, ReadChunk(a)
    PROVE  ShortInv'
<1> PICK f \in Seq(UnitSet) : f = file
  BY DEF FileInv, FileTypesInv
<1>1. Whole(a) /\ FileTypesInv /\ ui[a] = "reading"
  BY DEF ReadChunk, FileInv, ShortInv
<1>2. view[a] = NothingRead /\ pos[a] = 0
  BY <1>1 DEF Whole
<1> PICK u : u = ChunkView(NothingRead, f, 0)
  OBVIOUS
<1> PICK w : w = ChunkUi(NothingRead, f, 0)
  OBVIOUS
<1>3. /\ view' = [view EXCEPT ![a] = u] /\ ui' = [ui EXCEPT ![a] = w]
      /\ pos' = [pos EXCEPT ![a] = ChunkEnd(f, 0)]
      /\ UNCHANGED <<sel, file, pc, left, offset, meant, disturbed>>
  <2>1. pos' = [pos EXCEPT ![a] = ChunkEnd(file, pos[a])]
    BY DEF ReadChunk, ChunkEnd
  <2>2. view' = [view EXCEPT ![a] = ChunkView(view[a], file, pos[a])]
    BY DEF ReadChunk, ChunkEnd, ChunkView
  <2>3. ui' = [ui EXCEPT ![a] = ChunkUi(view[a], file, pos[a])]
    BY DEF ReadChunk, ChunkEnd, ChunkView, ChunkUi
  <2>4. UNCHANGED <<sel, file, pc, left, offset, meant, disturbed>>
    BY DEF ReadChunk, writerVars
  <2> QED BY <1>2, <2>1, <2>2, <2>3, <2>4, Zenon
<1>4. \A b \in Actors \ {a} : Same(b)
  BY <1>1, <1>3 DEF Same, FileTypesInv
<1>5. view'[a] = u /\ ui'[a] = w
  BY <1>1, <1>3 DEF FileTypesInv
<1>6. w = "shown" /\ \E b \in Actors : IsPrefix(u.lines, meant[b])
  <2>1. CASE f = <<>>
    <3> PICK z \in Nat : z = 0
      OBVIOUS
    <3>1. ChunkEnd(f, z) = 0
      <4>1. Len(f) = 0
        BY <2>1
      <4>2. Buffer \in Nat
        BY FileAssumption
      <4> QED BY <4>1, <4>2 DEF ChunkEnd
    <3>2. w = "shown"
      BY <3>1 DEF ChunkUi
    <3>3. u = NothingRead
      <4>1. SubSeq(f, z + 1, 0) = <<>>
        BY SubSeqEmpty
      <4>2. ReadUnits(NothingRead, <<>>) = NothingRead
        BY NothingMore
      <4>3. u = ReadUnits(NothingRead, SubSeq(f, z + 1, ChunkEnd(f, z)))
        BY DEF ChunkView
      <4> QED BY <3>1, <4>1, <4>2, <4>3
    <3>4. u.lines = view[a].lines
      BY <1>2, <3>3
    <3>5. Like(a)
      BY DEF ShortInv
    <3> QED BY <3>2, <3>4, <3>5 DEF Like
  <2>2. CASE f # <<>>
    <3> PICK b \in Actors : IsPrefix(Output(meant[b]), f)
      BY <2>2 DEF ShortInv, OnDisk
    <3> PICK m \in Seq(PlainLines) : m = meant[b]
      BY <1>1 DEF FileTypesInv
    <3>1. Len(Output(m)) <= Buffer
      BY DEF Short
    <3>2. u.finished /\ IsPrefix(u.lines, m)
      BY <3>1, ReadsWhole
    <3>3. w = "shown"
      BY <3>2 DEF ChunkUi
    <3> QED BY <3>2, <3>3
  <2> QED BY <2>1, <2>2
<1>7. OnDisk'
  BY <1>3, <1>4, DiskKeeps DEF ShortInv
<1>8. Whole(a)'
  BY <1>1, <1>3, <1>5, <1>6 DEF Whole
<1>9. Like(a)'
  BY <1>3, <1>5, <1>6 DEF Like
<1>10. FileTypesInv'
  BY DEF FileInv
<1>11. meant'[a] = meant[a]
  BY <1>3
<1> QED BY <1>1, <1>4, <1>7, <1>8, <1>9, <1>10, <1>11, ShortKeeps

\* The file is opened by the menu.
LEMMA ShortOpens ==
    ASSUME FileInv, FileInv', Short, ShortInv, NEW a \in Actors, Construct(a) \/ StartWriter(a)
    PROVE  ShortInv'
<1>1. /\ FileTypesInv /\ OwnOK(a) /\ HandedOK(a) /\ FileTypesInv' /\ Whole(a)
      /\ pc[a] \in {"idle", "constructed"}
      /\ file' = <<>> /\ offset' = [offset EXCEPT ![a] = 0]
      /\ pc' = [pc EXCEPT ![a] = "constructed"] \/ pc' = [pc EXCEPT ![a] = "started"]
      /\ UNCHANGED <<left, meant, ui, view, pos>>
  BY DEF Construct, StartWriter, OpenStream, readerVars, FileInv, ShortInv
<1>2. \A b \in Actors \ {a} : Same(b)
  BY <1>1 DEF Same, FileTypesInv
<1>3. OnDisk'
  BY <1>1 DEF OnDisk
<1>4. Whole(a)'
  <2>1. offset'[a] = 0 /\ pc'[a] \in {"constructed", "started"}
    BY <1>1 DEF FileTypesInv
  <2> QED BY <1>1, <2>1 DEF Whole
<1>5. meant'[a] = meant[a] /\ view'[a].lines = view[a].lines
  BY <1>1
<1>6. Like(a)'
  BY <1>1, <1>2, <1>5, StillLike DEF Same
<1> QED BY <1>1, <1>2, <1>3, <1>4, <1>5, <1>6, ShortKeeps

\* What the menu has to write is known.
LEMMA ShortBegins ==
    ASSUME FileInv, FileInv', Short, ShortInv, NEW a \in Actors, ReturnEarly(a) \/ Launch(a)
    PROVE  ShortInv'
<1>1. /\ FileTypesInv /\ OwnOK(a) /\ FileTypesInv' /\ Whole(a)
      /\ pc[a] \in {"constructed", "started"}
      /\ pc' = [pc EXCEPT ![a] = "writing"]
      /\ UNCHANGED <<file, offset, view, pos>>
  BY DEF ReturnEarly, Launch, readerVars, FileInv, ShortInv
<1>2. a[2] = "menu" /\ meant[a] = <<>> /\ ui[a] = "none" /\ view[a] = NothingRead /\ pos[a] = 0
  BY <1>1, ActorIs DEF OwnOK, ActorOK
<1>3. left'[a] = Output(meant'[a]) /\ \A b \in Actors \ {a} : Same(b)
  <2>1. CASE ReturnEarly(a)
    <3>1. left' = [left EXCEPT ![a] = Output(<<>>)] /\ UNCHANGED <<meant, ui>>
      BY <2>1 DEF ReturnEarly, readerVars
    <3>2. left'[a] = Output(meant'[a])
      BY <1>1, <1>2, <3>1 DEF FileTypesInv
    <3> QED BY <1>1, <3>1, <3>2 DEF FileTypesInv, Same
  <2>2. CASE Launch(a)
    <3> PICK ls : ls = SelectedLines(sel[a[1]])
      OBVIOUS
    <3>1. CASE /\ ui' = [ui EXCEPT ![a] = "reading"] /\ meant' = [meant EXCEPT ![a] = ls]
               /\ left' = [left EXCEPT ![a] = Output(ls)]
      <4>1. left'[a] = Output(meant'[a])
        BY <1>1, <3>1 DEF FileTypesInv
      <4> QED BY <1>1, <3>1, <4>1 DEF FileTypesInv, Same
    <3>2. CASE left' = [left EXCEPT ![a] = Output(<<>>)] /\ UNCHANGED <<ui, meant>>
      <4>1. left'[a] = Output(meant'[a])
        BY <1>1, <1>2, <3>2 DEF FileTypesInv
      <4> QED BY <1>1, <3>2, <4>1 DEF FileTypesInv, Same
    <3> QED BY <2>2, <3>1, <3>2 DEF Launch, Starts
  <2> QED BY <2>1, <2>2
<1>4. OnDisk'
  <2>1. ~(pc[a] = "closed" \/ a[2] = "restart") /\ file' = file /\ OnDisk
    BY <1>1, <1>2 DEF ShortInv
  <2> QED BY <1>3, <2>1, DiskKeeps
<1>5. Whole(a)'
  BY <1>1, <1>2, <1>3 DEF Whole
<1>6. Like(a)'
  <2>1. view'[a].lines = view[a].lines
    BY <1>1
  <2>2. \A b \in Actors \ {a} : meant'[b] = meant[b]
    BY <1>3 DEF Same
  <2> QED BY <1>1, <1>2, <2>1, <2>2, StillLike
<1> QED BY <1>1, <1>2, <1>3, <1>4, <1>5, <1>6, ShortKeeps

\* A whole text goes out when the file is closed.
LEMMA ShortCloses ==
    ASSUME FileInv, FileInv', Short, ShortInv, NEW a \in Actors, Close(a)
    PROVE  ShortInv'
<1>1. /\ FileTypesInv /\ FileTypesInv' /\ Whole(a) /\ pc[a] = "writing"
      /\ pc' = [pc EXCEPT ![a] = "closed"] /\ left' = [left EXCEPT ![a] = <<>>]
      /\ file' = WriteAt(file, offset[a], left[a])
      /\ UNCHANGED <<offset, meant, ui, view, pos>>
  BY DEF Close, readerVars, FileInv, ShortInv
<1>2. \A b \in Actors \ {a} : Same(b)
  BY <1>1 DEF Same, FileTypesInv
<1> PICK f \in Seq(UnitSet) : f = file
  BY <1>1 DEF FileTypesInv
<1> PICK t \in Seq(UnitSet) : t = Output(meant[a])
  BY <1>1, OutputIs DEF FileTypesInv
<1> PICK z \in Nat : z = 0
  OBVIOUS
<1>3. IsPrefix(t, WriteAt(f, z, t))
  BY WriteAtIs
<1>4. file' = WriteAt(f, z, t) /\ pc'[a] = "closed" /\ meant'[a] = meant[a]
  BY <1>1 DEF Whole, FileTypesInv
<1>5. OnDisk'
  <2>1. IsPrefix(Output(meant'[a]), file')
    BY <1>3, <1>4, Zenon
  <2> QED BY <1>4, <2>1 DEF OnDisk
<1>6. Whole(a)'
  BY <1>1, <1>4 DEF Whole
<1>7. view'[a].lines = view[a].lines
  BY <1>1
<1>8. Like(a)'
  BY <1>1, <1>2, <1>4, <1>7, StillLike DEF Same
<1> QED BY <1>1, <1>2, <1>4, <1>5, <1>6, <1>8, ShortKeeps

\* The file is opened for the elevated window.
LEMMA ShortRestarts ==
    ASSUME FileInv, FileInv', Short, ShortInv, NEW a \in Actors, Restart(a)
    PROVE  ShortInv'
<1> PICK ls : ls = view[Parent(a)].lines
  OBVIOUS
<1>1. /\ FileTypesInv /\ FileTypesInv' /\ OwnOK(a) /\ HandedOK(a) /\ Whole(a)
      /\ a[2] = "restart" /\ pc[a] = "idle" /\ file' = <<>>
      /\ pc' = [pc EXCEPT ![a] = "writing"] /\ offset' = [offset EXCEPT ![a] = 0]
      /\ meant' = [meant EXCEPT ![a] = ls] /\ left' = [left EXCEPT ![a] = Output(ls)]
      /\ UNCHANGED <<ui, view, pos>>
  BY DEF Restart, OpenStream, readerVars, FileInv, ShortInv
<1>2. \A b \in Actors \ {a} : Same(b)
  BY <1>1 DEF Same, FileTypesInv
<1>3. meant'[a] = ls /\ left'[a] = Output(ls) /\ offset'[a] = 0
  BY <1>1 DEF FileTypesInv
<1>4. meant[a] = <<>> \/ meant[a] = ls
  BY <1>1 DEF HandedOK, SuccessorOK
<1>5. OnDisk'
  BY <1>1 DEF OnDisk
<1>6. Whole(a)'
  BY <1>1, <1>3 DEF Whole
<1>7. view'[a].lines = view[a].lines /\ \A b \in Actors \ {a} : meant'[b] = meant[b]
  BY <1>1, <1>2 DEF Same
<1>8. meant'[a] = meant[a] \/ meant[a] = <<>>
  BY <1>3, <1>4
<1>9. Like(a)'
  BY <1>1, <1>7, <1>8, StillLike
<1> QED BY <1>1, <1>2, <1>5, <1>6, <1>8, <1>9, ShortKeeps

\* The elevated window is launched, or the user declines.
LEMMA ShortLaunches ==
    ASSUME FileInv, FileInv', Short, ShortInv, NEW a \in Actors, LaunchElevated(a)
    PROVE  ShortInv'
<1> PICK q \in Actors : q = Parent(a) /\ q[2] = "menu"
  BY ActorIs
<1>1. /\ FileTypesInv /\ FileTypesInv' /\ OwnOK(a)
      /\ a[2] = "restart" /\ pc[a] = "closed" /\ ui[a] = "none"
      /\ \/ ui' = [ui EXCEPT ![a] = "reading", ![q] = "gone"] /\ UNCHANGED pc
         \/ pc' = [pc EXCEPT ![a] = "idle"] /\ UNCHANGED ui
      /\ UNCHANGED <<file, left, offset, meant, view, pos>>
  BY DEF LaunchElevated, FileInv
<1>2. \A b \in Actors : /\ ui'[b] = "reading" => ui[b] = "reading" \/ b = a
                        /\ pc'[b] = "writing" => pc[b] = "writing"
                        /\ pc[b] = "closed" => pc'[b] = "closed" \/ b[2] = "restart"
  <2> TAKE b \in Actors
  <2>1. CASE ui' = [ui EXCEPT ![a] = "reading", ![q] = "gone"] /\ UNCHANGED pc
    BY <1>1, <2>1 DEF FileTypesInv
  <2>2. CASE pc' = [pc EXCEPT ![a] = "idle"] /\ UNCHANGED ui
    BY <1>1, <2>2 DEF FileTypesInv
  <2> QED BY <1>1, <2>1, <2>2
<1>3. OnDisk'
  <2>1. CASE file = <<>>
    BY <1>1, <2>1 DEF OnDisk
  <2>2. CASE file # <<>>
    <3> PICK b \in Actors : (pc[b] = "closed" \/ b[2] = "restart") /\ IsPrefix(Output(meant[b]), file)
      BY <2>2 DEF ShortInv, OnDisk
    <3>1. (pc'[b] = "closed" \/ b[2] = "restart") /\ IsPrefix(Output(meant'[b]), file')
      BY <1>1, <1>2
    <3> QED BY <3>1 DEF OnDisk
  <2> QED BY <2>1, <2>2
<1>4. view[a] = NothingRead /\ pos[a] = 0
  BY <1>1 DEF OwnOK, ActorOK
<1>5. ASSUME NEW b \in Actors
      PROVE  Whole(b)' /\ Like(b)'
  <2>1. Whole(b) /\ Like(b)
    BY DEF ShortInv
  <2>2. Whole(b)'
    BY <1>1, <1>2, <1>4, <2>1 DEF Whole
  <2>3. Like(b)'
    BY <1>1, <2>1 DEF Like
  <2> QED BY <2>2, <2>3
<1> QED BY <1>3, <1>5 DEF ShortInv

\* While no list is longer than a buffer.
ShortOK == Short => ShortInv

\* Every step keeps the invariant of short lists.
LEMMA ShortStep ==
    ASSUME FileInv, FileInv', ShortOK, [Next]_vars
    PROVE  ShortOK'
<1>1. CASE Next
  <2> SUFFICES ASSUME Short' PROVE ShortInv'
    BY DEF ShortOK
  <2>1. Short /\ ShortInv
    BY <1>1, ShortBefore DEF ShortOK
  <2> PICK a \in Actors : Actor(a)
    BY <1>1 DEF Next
  <2>2. ~Flush(a)
    <3> SUFFICES ASSUME Flush(a) PROVE FALSE
      OBVIOUS
    <3>1. pc[a] = "writing" /\ Len(left[a]) > Buffer
      BY DEF Flush
    <3>2. left[a] = Output(meant[a])
      BY <2>1, <3>1 DEF ShortInv, Whole
    <3>3. Len(left[a]) <= Buffer
      BY <2>1, <3>2 DEF Short
    <3>4. Len(left[a]) \in Nat /\ Buffer \in Nat
      BY FileAssumption DEF FileInv, FileTypesInv
    <3> QED BY <3>1, <3>3, <3>4
  <2> QED BY <2>1, <2>2, ShortOpens, ShortBegins, ShortCloses, ShortReads, ShortRestarts, ShortLaunches
          DEF Actor
<1>2. CASE UNCHANGED vars
  <2>1. UNCHANGED <<file, pc, left, offset, meant, ui, view, pos>>
    BY <1>2 DEF vars, writerVars, readerVars
  <2> QED BY <2>1 DEF ShortOK, Short, ShortInv, OnDisk, Whole, Like
<1> QED BY <1>1, <1>2

\* At the beginning the file is empty.
LEMMA ShortInit ==
    ASSUME Init
    PROVE  ShortOK
<1>1. OnDisk
  BY DEF Init, OnDisk
<1>2. ASSUME NEW a \in Actors
      PROVE  Whole(a) /\ Like(a)
  <2>1. Whole(a)
    BY DEF Init, Whole
  <2>2. view[a].lines = <<>> /\ meant[a] = <<>>
    BY DEF Init, NothingRead
  <2> PICK e \in Seq(PlainLines) : e = <<>>
    BY EmptyText
  <2>3. IsPrefix(e, e)
    <3>1. Len(e) <= Len(e)
      OBVIOUS
    <3> QED BY <3>1, PrefixIs
  <2>4. Like(a)
    BY <2>2, <2>3 DEF Like
  <2> QED BY <2>1, <2>4
<1> QED BY <1>1, <1>2 DEF ShortOK, ShortInv

\* Whenever a window reads, and whoever writes at that time, what it shows begins
\* like the list of one of the writers, when no list is longer than a buffer or only
\* one has written (ipc::Writer, ReadPathsFromFile, StartAsElevated).
THEOREM ReadsAPrefixAlways == Spec => []ReadsAPrefix
<1>1. Spec => []ShortOK
  <2>1. Init => ShortOK
    BY ShortInit
  <2>2. ShortOK /\ FileInv /\ FileInv' /\ [Next]_vars => ShortOK'
    BY ShortStep
  <2> QED BY <2>1, <2>2, FileInvAlways, PTL DEF Spec
<1>2. FileInv /\ ShortOK => ReadsAPrefix
  <2> SUFFICES ASSUME FileInv, ShortOK, Calm, NEW a \in Actors
               PROVE  \E b \in Actors : IsPrefix(view[a].lines, meant[b])
    BY DEF ReadsAPrefix
  <2>1. CASE Short
    BY <2>1 DEF ShortOK, ShortInv, Like
  <2>2. CASE disturbed = {}
    <3>1. OwnOK(a) /\ AloneOK(a) /\ FileTypesInv
      BY DEF FileInv
    <3> PICK ls \in Seq(PlainLines) : ls = meant[a]
      BY <3>1 DEF FileTypesInv
    <3>2. \A j \in 0..Len(ls) : IsPrefix(SubSeq(ls, 1, j), ls)
      BY FirstLines
    <3>3. CASE ui[a] = "none"
      <4>1. view[a].lines = <<>>
        BY <3>1, <3>3 DEF OwnOK, ActorOK, NothingRead
      <4> PICK z \in 0..Len(ls) : z = 0
        OBVIOUS
      <4>2. SubSeq(ls, 1, z) = <<>>
        BY SubSeqEmpty
      <4>3. IsPrefix(SubSeq(ls, 1, z), ls)
        BY <3>2
      <4> QED BY <4>1, <4>2, <4>3
    <3>4. CASE ui[a] # "none"
      <4>1. pc[a] # "idle"
        BY <3>1, <3>4 DEF OwnOK, ActorOK
      <4>2. Reading(view[a], meant[a], pos[a])
        BY <2>2, <3>1, <3>4, <4>1 DEF AloneOK, Alone
      <4>3. IsPrefix(view[a].lines, ls)
        BY <3>2, <4>2 DEF Reading
      <4> QED BY <4>3
    <3> QED BY <3>3, <3>4
  <2> QED BY <2>1, <2>2 DEF Calm, Short
<1> QED BY <1>1, <1>2, FileInvAlways, PTL

-----------------------------------------------------------------------------
(* The list of the window. *)

\* The search runs while LoadProcessesAsync awaits it and at no other time.
LoadInv ==
    /\ (load = "idle") => ~UnderWay
    /\ (load = "adding") => phase = "done"
    /\ (load # "idle") => gen # 0

\* A row has the id of the process that was found.
RowNamed(r) == pidOf[r.proc] = r.pid

\* The process a watcher waits for has the id of the row, and keeps it from
\* others, for the watcher has a handle to it.  It is the process that was
\* found, unless that one had exited before the row was shown.
Pinned(w) ==
    /\ RowNamed(w.row)
    /\ pidOf[w.target] = w.row.pid
    /\ \A p \in alive : pidOf[p] = w.row.pid => p = w.target
    /\ w.target # w.row.proc => w.row.proc \notin alive

PinInv ==
    /\ \A r \in rows : RowNamed(r)
    /\ \A w \in watch : Pinned(w)

WindowInv == SearchInv /\ WindowTypesOK /\ LoadInv /\ PinInv /\ RowsWatched
\* What the invariant says of rows, watchers and entries.
LEMMA WindowFacts ==
    ASSUME WindowInv
    PROVE  /\ \A r \in rows : r \in Rows /\ r.pid \in Pids /\ r.proc \in Procs
           /\ \A w \in watch : /\ w \in [row : Rows, target : Procs, cancelled : BOOLEAN]
                               /\ w.row \in Rows /\ w.target \in Procs
                               /\ w.row.pid \in Pids /\ w.row.proc \in Procs
           /\ \A e \in found : /\ e.pid \in Pids /\ e.proc \in Procs
                               /\ pidOf[e.proc] = e.pid /\ e = [pid |-> e.pid, proc |-> e.proc]
  BY DEF WindowInv, WindowTypesOK, SearchInv, SearchTypesOK, SearchTypeOK, ListedInv, Rows

\* At most one process has an id.
LEMMA NamedOne ==
    ASSUME WindowInv, NEW pid, NEW p \in Named(pid)
    PROVE  p \in Procs /\ pidOf[p] = pid /\ \A q \in alive : pidOf[q] = pid => q = p
  BY SearchFacts DEF WindowInv, SearchInv, PidsDiffer, Named

-----------------------------------------------------------------------------
(* One lemma per action.                                                    *)

\* A new load takes all rows away and cancels their watchers.
LEMMA LoadProcessesKeeps ==
    ASSUME WindowInv, LoadProcesses
    PROVE  WindowInv'
<1> USE DEF WindowInv, LoadProcesses
<1>1. SearchInv'
  BY SearchBeginKeeps
<1>2. UNCHANGED tableVars /\ phase' = "table"
  BY DEF SearchBegin, tableVars
<1>3. \A w \in watch' : \E v \in watch : w = [v EXCEPT !.cancelled = TRUE]
  BY DEF Cancel
<1>4. \A w \in watch' : /\ w \in [row : Rows, target : Procs, cancelled : BOOLEAN]
                        /\ \E v \in watch : w.row = v.row /\ w.target = v.target
  <2> SUFFICES ASSUME NEW v \in watch, NEW w, w = [v EXCEPT !.cancelled = TRUE]
               PROVE  /\ w \in [row : Rows, target : Procs, cancelled : BOOLEAN]
                      /\ w.row = v.row /\ w.target = v.target
    BY <1>3
  <2>1. v \in [row : Rows, target : Procs, cancelled : BOOLEAN]
    BY WindowFacts
  <2> HIDE DEF WindowInv, LoadProcesses
  <2> QED
    BY <2>1
<1>5. gen' \in 1..MaxLoads
  BY WindowAssumption DEF WindowTypesOK
<1>6. WindowTypesOK'
  BY <1>1, <1>4, <1>5 DEF WindowTypesOK, SearchInv
<1>7. LoadInv'
  BY <1>2, <1>5 DEF LoadInv, UnderWay
<1>8. PinInv'
  BY <1>2, <1>4 DEF PinInv, Pinned, RowNamed, tableVars
<1>9. RowsWatched'
  BY DEF RowsWatched
<1> QED
  BY <1>1, <1>6, <1>7, <1>8, <1>9

\* Between the search and the end of the load no row changes.
LEMMA FoundOrLoadedKeeps ==
    ASSUME WindowInv, Found \/ Loaded
    PROVE  WindowInv'
<1> USE DEF WindowInv, Found, Loaded
<1>1. SearchInv'
  BY SearchStands
<1>2. WindowTypesOK'
  BY <1>1 DEF WindowTypesOK, SearchInv, searchVars
<1>3. LoadInv'
  BY DEF LoadInv, UnderWay, searchVars
<1>4. PinInv' /\ RowsWatched'
  BY DEF PinInv, Pinned, RowNamed, RowsWatched, tableVars
<1> QED
  BY <1>1, <1>2, <1>3, <1>4

\* A watcher is made for the process that has the id now.
LEMMA ShowRowKeeps ==
    ASSUME WindowInv, NEW e \in unshown, ShowRow(e)
    PROVE  WindowInv'
<1> DEFINE row     == [gen |-> gen, pid |-> e.pid, proc |-> e.proc]
           targets == Named(e.pid) \ Unwatchable
           fresh   == {[row |-> row, target |-> p, cancelled |-> FALSE] : p \in targets}
<1>1. SearchInv'
  BY SearchStands DEF WindowInv, ShowRow
<1>2. /\ rows' = IF targets = {} THEN rows ELSE rows \cup {row}
      /\ watch' = watch \cup fresh
      /\ UNCHANGED <<tableVars, searchVars, load, gen, terminated>>
      /\ load = "adding" /\ unshown' = unshown \ {e}
  BY DEF ShowRow
<1>3. e.pid \in Pids /\ e.proc \in Procs /\ pidOf[e.proc] = e.pid
  BY WindowFacts DEF WindowInv, WindowTypesOK
<1>4. gen \in 1..MaxLoads /\ row \in Rows
  BY <1>2, <1>3, WindowAssumption DEF WindowInv, WindowTypesOK, LoadInv, Rows
<1>5. \A p \in targets : p \in Procs /\ pidOf[p] = e.pid /\ \A q \in alive : pidOf[q] = e.pid => q = p
  BY NamedOne
<1>6. \A w \in fresh : /\ w \in [row : Rows, target : Procs, cancelled : BOOLEAN]
                       /\ w.row = row /\ w.target \in targets /\ ~w.cancelled
  <2> HIDE DEF row, targets
  <2> SUFFICES ASSUME NEW p \in targets, NEW w, w = [row |-> row, target |-> p, cancelled |-> FALSE]
               PROVE  /\ w \in [row : Rows, target : Procs, cancelled : BOOLEAN]
                      /\ w.row = row /\ w.target \in targets /\ ~w.cancelled
    OBVIOUS
  <2> QED
    BY <1>4, <1>5
<1>7. \A w \in fresh : Pinned(w)
  BY <1>3, <1>5, <1>6 DEF Pinned, RowNamed
<1> HIDE DEF row, targets, fresh
<1>8. WindowTypesOK'
  BY <1>1, <1>2, <1>4, <1>6 DEF WindowInv, WindowTypesOK, SearchInv, searchVars
<1>9. LoadInv'
  BY <1>2 DEF WindowInv, LoadInv, UnderWay, searchVars
<1>10. PinInv'
  <2>1. RowNamed(row)
    BY <1>3 DEF RowNamed, row
  <2> QED
    BY <1>2, <1>7, <2>1 DEF WindowInv, PinInv, Pinned, RowNamed, tableVars
<1>11. RowsWatched'
  <2>1. row.gen = gen
    BY DEF row
  <2>2. targets # {} => \E w \in fresh : w.row = row /\ ~w.cancelled
    BY <1>6 DEF fresh
  <2> QED
    BY <1>2, <2>1, <2>2 DEF WindowInv, RowsWatched
<1> QED
  BY <1>1, <1>8, <1>9, <1>10, <1>11 DEF WindowInv

\* A watcher that was not cancelled takes its row with it.
LEMMA ResumeKeeps ==
    ASSUME WindowInv, NEW w \in watch, Resume(w)
    PROVE  WindowInv'
<1> USE DEF WindowInv, Resume
<1>1. SearchInv'
  BY SearchStands
<1>2. WindowTypesOK'
  BY <1>1 DEF WindowTypesOK, SearchInv, searchVars
<1>3. LoadInv'
  BY DEF LoadInv, UnderWay, searchVars
<1>4. PinInv'
  BY DEF PinInv, Pinned, RowNamed, tableVars
<1>5. RowsWatched'
  <2> SUFFICES ASSUME NEW r \in rows' PROVE r.gen = gen' /\ \E v \in watch' : v.row = r /\ ~v.cancelled
    BY DEF RowsWatched
  <2>1. r \in rows /\ r.gen = gen'
    BY DEF RowsWatched
  <2>2. PICK v \in watch : v.row = r /\ ~v.cancelled
    BY <2>1 DEF RowsWatched
  <2>3. v # w
    BY <2>2
  <2> QED
    BY <2>1, <2>2, <2>3
<1> QED
  BY <1>1, <1>2, <1>3, <1>4, <1>5

\* End task terminates who has the id, and leaves the row unless nobody has.
LEMMA EndTaskKeeps ==
    ASSUME WindowInv, NEW row \in rows, EndTask(row)
    PROVE  WindowInv'
<1> USE DEF WindowInv, EndTask
<1>1. SearchInv'
  BY SearchStands
<1>2. WindowTypesOK'
  <2>1. Named(row.pid) \subseteq Procs
    BY SearchFacts DEF SearchInv, Named
  <2>2. terminated' \subseteq Procs \ Protected
    BY <2>1 DEF WindowTypesOK
  <2>3. rows' \subseteq rows
    OBVIOUS
  <2> QED
    BY <1>1, <2>2, <2>3 DEF WindowTypesOK, SearchInv, searchVars
<1>3. LoadInv'
  BY DEF LoadInv, UnderWay, searchVars
<1>4. PinInv' /\ RowsWatched'
  BY DEF PinInv, Pinned, RowNamed, RowsWatched, tableVars
<1> QED
  BY <1>1, <1>2, <1>3, <1>4

\* The search goes on under the window.
LEMMA BackgroundKeeps ==
    ASSUME WindowInv, Background
    PROVE  WindowInv'
<1> USE DEF WindowInv, Background, windowVars
<1>1. SearchInv'
  BY SearchStepKeeps
<1>2. UNCHANGED tableVars
  BY SearchStepTypes DEF SearchInv
<1>3. UnderWay
  BY StepUnderWay
<1>4. load = "searching"
  BY <1>3 DEF LoadInv, UnderWay, WindowTypesOK
<1>5. WindowTypesOK'
  BY <1>1, <1>4 DEF WindowTypesOK, SearchInv
<1>6. LoadInv'
  BY <1>4 DEF LoadInv
<1>7. PinInv' /\ RowsWatched'
  BY <1>2 DEF PinInv, Pinned, RowNamed, RowsWatched, tableVars
<1> QED
  BY <1>1, <1>5, <1>6, <1>7

\* The handle of a watcher keeps the id of its process from others.
LEMMA OthersKeeps ==
    ASSUME WindowInv, Others
    PROVE  WindowInv'
<1> USE DEF WindowInv, Others, windowVars
<1>1. PICK pins \in SUBSET Procs : pins = opened \cup Watched
  BY WindowFacts DEF Watched, SearchInv, SearchTypesOK, SearchTypeOK
<1>2. ProcessesMove(pins)
  BY <1>1 DEF ProcessesMove, Start, Free
<1>3. SearchInv'
  BY <1>2, ProcessesMoveKeeps
<1>4. /\ \A p \in Procs : pidOf[p] # NoPid => pidOf'[p] = pidOf[p]
  BY <1>2, MoveTable DEF SearchInv
<1>5. UNCHANGED searchVars
  BY <1>2 DEF ProcessesMove
<1>6. WindowTypesOK'
  BY <1>3, <1>5 DEF WindowTypesOK, SearchInv, searchVars
<1>7. LoadInv'
  BY <1>5 DEF LoadInv, UnderWay, searchVars
<1>8. PinInv'
  <2>1. \A r \in rows : RowNamed(r)'
    BY <1>4, WindowFacts, PidAssumption DEF PinInv, RowNamed
  <2>2. ASSUME NEW w \in watch PROVE Pinned(w)'
    <3>1. /\ w.row \in Rows /\ w.target \in Procs /\ w.row.pid \in Pids /\ w.row.proc \in Procs
          /\ w.target \in pins /\ Pinned(w)
      BY <1>1, WindowFacts DEF PinInv, Watched
    <3>2. /\ pidOf'[w.target] = w.row.pid /\ pidOf[w.target] = w.row.pid
          /\ pidOf'[w.row.proc] = w.row.pid /\ pidOf[w.row.proc] = w.row.pid
      BY <3>1, <1>4, PidAssumption DEF Pinned, RowNamed
    <3>3. ASSUME NEW p \in alive' \ alive PROVE pidOf'[p] # w.row.pid /\ p # w.row.proc
      <4>1. PICK q \in Procs, pid \in Pids : Start(q, pid, pins)
        BY <1>2, <3>3 DEF ProcessesMove, Use, Release, Exit
      <4>2. p = q /\ pidOf[q] = NoPid /\ Free(pid, pins) /\ pidOf' = [pidOf EXCEPT ![q] = pid]
        BY <3>3, <4>1 DEF Start
      <4>3. pid # w.row.pid
        BY <3>1, <3>2, <4>2 DEF Free
      <4>4. pidOf'[p] = pid
        BY <4>2, SearchFacts DEF SearchInv, SearchTypesOK, TableTypeOK
      <4> QED
        BY <3>1, <3>2, <4>2, <4>3, <4>4, PidAssumption
    <3>4. \A p \in alive : pidOf'[p] = pidOf[p]
      BY <1>4, SearchFacts DEF SearchInv
    <3> QED
      BY <3>1, <3>2, <3>3, <3>4 DEF Pinned, RowNamed
  <2> QED
    BY <2>1, <2>2 DEF PinInv
<1>9. RowsWatched'
  BY DEF RowsWatched
<1> QED
  BY <1>3, <1>6, <1>7, <1>8, <1>9

-----------------------------------------------------------------------------
\* The invariant holds in every behaviour of the window.
LEMMA AlwaysWindowInv == WindowSpec => []WindowInv
<1>1. WindowInit => WindowInv
  BY InitSearchInv, WindowAssumption DEF WindowInit, TableInit, SearchInit, WindowInv, WindowTypesOK, SearchInv, LoadInv,
     UnderWay, PinInv, RowsWatched
<1>2. WindowInv /\ [WindowNext]_allVars => WindowInv'
  <2> SUFFICES ASSUME WindowInv, [WindowNext]_allVars PROVE WindowInv'
    OBVIOUS
  <2>1. CASE Dispatcher
    BY <2>1, FoundOrLoadedKeeps, ShowRowKeeps, ResumeKeeps DEF Dispatcher
  <2>2. CASE Background
    BY <2>2, BackgroundKeeps
  <2>3. CASE User
    BY <2>3, LoadProcessesKeeps, EndTaskKeeps DEF User
  <2>4. CASE Others
    BY <2>4, OthersKeeps
  <2>5. CASE UNCHANGED allVars
    <3>1. SearchInv'
      BY <2>5, SearchStands DEF allVars, WindowInv
    <3> QED
      BY <2>5, <3>1 DEF allVars, tableVars, searchVars, windowVars, WindowInv, WindowTypesOK,
         SearchInv, LoadInv, UnderWay, PinInv, Pinned, RowNamed, RowsWatched
  <2> QED
    BY <2>1, <2>2, <2>3, <2>4, <2>5 DEF WindowNext
<1> QED
  BY <1>1, <1>2, PTL DEF WindowSpec

\* The window and the search under it have the types they should.
THEOREM WindowTypesCorrect == WindowSpec => []WindowTypesOK
<1>1. WindowInv => WindowTypesOK
  BY DEF WindowInv
<1> QED
  BY <1>1, AlwaysWindowInv, PTL

\* Every row that is shown is of the last load and has a watcher that will take
\* it away.
THEOREM RowsWatchedAlways == WindowSpec => []RowsWatched
<1>1. WindowInv => RowsWatched
  BY DEF WindowInv
<1> QED
  BY <1>1, AlwaysWindowInv, PTL

\* A row leaves with its process, or with the next load: neither a watcher of an
\* earlier load nor a process that has got the id takes it away.
THEOREM RowsLeaveWithTheirProcess == WindowSpec => RowLeavesWithProcess
<1> DEFINE Leaves == \A r \in rows \ rows' :
              gen' # gen \/ r.proc \notin alive \/ r.proc \in Unwatchable
<1>1. WindowInv /\ [WindowNext]_allVars => [Leaves]_allVars
  <2> SUFFICES ASSUME WindowInv, WindowNext, NEW r \in rows \ rows'
               PROVE  gen' # gen \/ r.proc \notin alive
    OBVIOUS
  <2>1. CASE LoadProcesses
    BY <2>1 DEF LoadProcesses, WindowInv, WindowTypesOK
  <2>2. ASSUME NEW w \in watch, Resume(w) PROVE r.proc \notin alive
    BY <2>2 DEF Resume, WindowInv, PinInv, Pinned
  <2>3. ASSUME NEW row \in rows, EndTask(row) PROVE r.proc \notin alive
    BY <2>3 DEF EndTask, Named, WindowInv, PinInv, RowNamed
  <2>4. ASSUME NEW e \in unshown, ShowRow(e) PROVE FALSE
    BY <2>4 DEF ShowRow
  <2>5. CASE Found \/ Loaded \/ Background \/ Others
    BY <2>5 DEF Found, Loaded, Background, Others, windowVars
  <2> QED
    BY <2>1, <2>2, <2>3, <2>4, <2>5 DEF WindowNext, Dispatcher, User
<1> QED
  BY <1>1, AlwaysWindowInv, PTL DEF WindowSpec, RowLeavesWithProcess

\* End task terminates no process but the one whose exit the row waits for: the
\* watcher's handle keeps the id from any other.
THEOREM EndTaskEndsTheWatched == WindowSpec => EndsWhatIsWatched
<1> DEFINE Ends == \A r \in rows : EndTask(r) =>
              terminated' \ terminated \subseteq {w.target : w \in {v \in watch : v.row = r}}
<1>1. WindowInv => [Ends]_allVars
  <2> SUFFICES ASSUME WindowInv, NEW r \in rows, EndTask(r), NEW p \in terminated' \ terminated
               PROVE  \E v \in watch : v.row = r /\ v.target = p
    OBVIOUS
  <2>1. PICK v \in watch : v.row = r
    BY DEF WindowInv, RowsWatched
  <2>2. p \in alive /\ pidOf[p] = r.pid
    BY DEF EndTask, Named
  <2>3. p = v.target
    BY <2>1, <2>2 DEF WindowInv, PinInv, Pinned
  <2> QED
    BY <2>1, <2>3
<1> QED
  BY <1>1, AlwaysWindowInv, PTL DEF WindowSpec, EndsWhatIsWatched
=============================================================================
