---------------------- MODULE ShellRegistrationProofs -----------------------
(***************************************************************************)
(* The registration for any number of hosts, folders and starts.  What is  *)
(* known of a running program is the order of what it has still to do, and *)
(* that each thing it is to bring about is there or still to be done.      *)
(***************************************************************************)
EXTENDS ShellRegistration, SequenceTheorems, TLAPS

ClassKeys == Handlers \cup {Server}

\* The value p gives to a key.
Val(p, k) == IF k \in {Server, Package} THEN Home[p] ELSE "set"

OpName == {"sentinel?", "server?", "version?", "package?", "create", "set", "put",
           "delete", "clear", "test", "remove", "deploy", "add"}
Op == (OpName \X Keys) \cup (OpName \X Keys \X (Folders \cup {"set"}))

Is(x, o, k) == x[1] = o /\ x[2] = k
Drops(x, k) == x[1] \in {"delete", "remove"} /\ x[2] = k
Has(s, o, k) == \E i \in 1..Len(s) : Is(s[i], o, k)

\* What enable() leaves of the package.
Supplied(p) == (Win11 /\ Home[p] \in Msix) => SameVersion(Home[p])

-----------------------------------------------------------------------------
(* What a program has still to do, and in which order.                      *)

KnownOp(p, x) ==
    /\ x[1] \in {"set", "put", "deploy", "add"} => x[3] = Val(p, x[2])
    /\ x[1] \in {"create", "set", "put"} => x[2] \in ClassKeys \cup {Sentinel}
    /\ x[1] \in {"sentinel?", "clear"} => x[2] = Sentinel
    /\ x[1] = "server?" => x[2] = Server
    /\ x[1] \in {"version?", "package?", "deploy", "add"} => x[2] = Package

\* A key is created just before it is set, the server before the handlers, and
\* the sentinel last; what is asked comes before all that.
EnsureAt(s, i) ==
    /\ s[i][1] \in {"sentinel?", "server?", "version?", "deploy", "create", "set"}
    /\ s[i][1] \in {"sentinel?", "server?"} => Len(s) = i
    /\ s[i][1] = "deploy" => Len(s) = i + 1 /\ s[i + 1][1] = "sentinel?"
    /\ s[i][1] = "version?" => Len(s) = i + 2 /\ s[i + 1][1] = "deploy" /\ s[i + 2][1] = "sentinel?"
    /\ s[i][1] \in {"create", "set"} => s[Len(s)][1] = "set"
    /\ s[i][1] = "create" => i < Len(s) /\ Is(s[i + 1], "set", s[i][2])
    /\ s[i][1] = "set" /\ i > 1 => Is(s[i - 1], "create", s[i][2])
    /\ Is(s[i], "set", Server) =>
         i \in {1, 2} /\ \A h \in Handlers : \E j \in (i + 1)..Len(s) : Is(s[j], "set", h)
    /\ Is(s[i], "set", Sentinel) => Len(s) = i

EnsureShape(s) == \A i \in 1..Len(s) : EnsureAt(s, i)

\* The handlers go before the server, the sentinel after it, and what is removed
\* has been looked for just before.
RemoveAt(s, i) ==
    /\ s[i][1] \in {"delete", "clear", "test", "remove"}
    /\ s[i][1] = "test" => i < Len(s) /\ Is(s[i + 1], "remove", s[i][2])
    /\ Drops(s[i], Server) => \A h \in Handlers : \A j \in (i + 1)..Len(s) : ~ Drops(s[j], h)
    /\ \A h \in Handlers : Drops(s[i], h) =>
         /\ \E j \in (i + 1)..Len(s) : Drops(s[j], Server)
         /\ \E j \in (i + 1)..Len(s) : Is(s[j], "clear", Sentinel)

RemoveShape(s) == \A i \in 1..Len(s) : RemoveAt(s, i)

\* What is deleted is put again, the server before the handlers; the package is
\* the last thing.
ScriptAt(s, i) ==
    /\ s[i][1] \in {"delete", "create", "put", "package?", "add"}
    /\ s[i][1] = "create" => i < Len(s) /\ Is(s[i + 1], "put", s[i][2])
    /\ s[i][1] = "delete" => \E j \in (i + 1)..Len(s) : Is(s[j], "put", s[i][2])
    /\ Is(s[i], "put", Server) => \A h \in Handlers : \E j \in (i + 1)..Len(s) : Is(s[j], "put", h)
    /\ s[i][1] = "package?" => \A j \in (i + 1)..Len(s) : s[j][1] = "add"

ScriptShape(s) == \A i \in 1..Len(s) : ScriptAt(s, i)

Shape(prog, s) ==
    /\ Sort(prog) = "ensures" => EnsureShape(s)
    /\ Sort(prog) = "removes" => RemoveShape(s)
    /\ Sort(prog) = "register.ps1" => ScriptShape(s)

Plan(p, prog, s) ==
    /\ s \in Seq(Op)
    /\ \A i \in 1..Len(s) : KnownOp(p, s[i])
    /\ Shape(prog, s)

PlanInv ==
    /\ todo \in [Hosts -> Seq(Op)]
    /\ \A p \in Hosts : Plan(p, program[p], todo[p])
    /\ \A p \in Hosts : todo[p] # <<>> => program[p] \in Programs

\* A key is held open from its creation to the next operation.
HeldInv == \A p \in Hosts : held[p] # {} =>
    /\ todo[p] # <<>> /\ todo[p][1][1] \in {"set", "put"}
    /\ held[p] = {todo[p][1][2]}

\* Who runs alone does, and unless two overlapped everyone did.
AloneInv ==
    /\ \A p \in alone : \A q \in Hosts : todo[q] # <<>> => q = p
    /\ (~ overlapped /\ ~ refused) => Running \subseteq alone
    /\ last # {} => Running = {}

BasicInv == RegistrationTypesOK /\ PlanInv /\ HeldInv /\ AloneInv

-----------------------------------------------------------------------------
(* What is still to be done.                                                *)

\* p will set k: it has k open, or is going to create it.
WillSet(p, k) == \E i \in 1..Len(todo[p]) : Is(todo[p][i], "set", k) /\ (i = 1 => k \in held[p])
WillPut(p, k) == Has(todo[p], "put", k)
WillDrop(p, k) == \E i \in 1..Len(todo[p]) : Drops(todo[p][i], k)
WillCheck(p)  == \E i \in 1..Len(todo[p]) : todo[p][i][1] \in {"sentinel?", "server?"}

\* A program has done what it is no longer going to do.
Ensures(p) == Sort(program[p]) = "ensures" =>
    /\ ~ WillCheck(p) => \A k \in ClassKeys : reg[k] = Val(p, k) \/ WillSet(p, k)
    /\ Has(todo[p], "server?", Server) => reg[Sentinel] = "set"
    /\ program[p] = "enable" => Supplied(p) \/ Has(todo[p], "deploy", Package)

Removes(p) == Sort(program[p]) = "removes" =>
    /\ \A k \in ClassKeys : reg[k] = "absent" \/ WillDrop(p, k)
    /\ reg[Sentinel] # "set" \/ Has(todo[p], "clear", Sentinel)
    /\ program[p] = "unregister.ps1" => reg[Package] = "absent" \/ WillDrop(p, Package)

Renews(p) == Sort(program[p]) = "register.ps1" =>
    \A k \in ClassKeys : reg[k] = Val(p, k) \/ WillPut(p, k)

DoneFor(p) == Ensures(p) /\ Removes(p) /\ Renews(p)

\* That is so of a program that runs alone.
DoneInv == \A p \in alone : DoneFor(p)

\* Somebody will see to it that h is set, or else that there is no server.
Promised(h) == \E q \in Hosts : WillSet(q, h) \/ WillPut(q, h) \/ WillDrop(q, Server)

\* However the programs overlap, if all run to their ends: a server is not left
\* without its handlers.
WholeInv == (cutShort = {} /\ ~ refused) =>
    \A h \in Handlers : reg[h] = "set" \/ reg[Server] \notin Folders \/ Promised(h)

\* One at a time, and only those that ensure ended on the way: the sentinel is not
\* left without the handlers.
SentinelInv == (~ overlapped /\ cutShort \subseteq {"ensures"} /\ ~ refused /\ reg[Sentinel] = "set") =>
    \A h \in Handlers : reg[h] = "set" \/ \E q \in Hosts : WillPut(q, h) \/ Has(todo[q], "clear", Sentinel)

EntryInv == WholeInv /\ SentinelInv /\ NoDanglingHandler

RegistrationInv ==
    /\ BasicInv /\ DoneInv /\ EntryInv
    /\ EnsuredIsRegistered /\ UnregisteredIsGone

-----------------------------------------------------------------------------
(* What is left when the first n operations of s are done.                  *)

Suffix(t, s, n) ==
    /\ n \in Nat /\ s \in Seq(Op) /\ t \in Seq(Op)
    /\ Len(s) = Len(t) + n
    /\ \A i \in 1..Len(t) : t[i] = s[i + n]

\* The tail is what is left after one operation ...
LEMMA TailSuffix ==
    ASSUME NEW s \in Seq(Op), s # <<>>
    PROVE  Suffix(Tail(s), s, 1)
  BY DEF Suffix

\* ... and SubSeq(s, 3, Len(s)) what is left after two.
LEMMA SecondSuffix ==
    ASSUME NEW s \in Seq(Op), 2 <= Len(s)
    PROVE  Suffix(SubSeq(s, 3, Len(s)), s, 2)
<1> PICK l \in Nat : l = Len(s)
  OBVIOUS
<1>1. l = 2 \/ l \in Nat \ (0..2)
  OBVIOUS
<1>2. CASE l = 2
  <2>1. SubSeq(s, 3, Len(s)) = <<>>
    BY <1>2, SubSeqEmpty
  <2> QED BY <1>2, <2>1 DEF Suffix
<1>3. CASE l \in Nat \ (0..2)
  <2> DEFINE t == SubSeq(s, 3, l)
  <2>1. \A i \in 3..l : s[i] \in Op
    OBVIOUS
  <2>2. /\ t \in Seq(Op) /\ Len(t) = l - 2
        /\ \A i \in 1..(l - 2) : t[i] = s[i + 2]
    BY <1>3, <2>1, SubSeqProperties
  <2> QED BY <1>3, <2>2 DEF Suffix
<1> QED BY <1>1, <1>2, <1>3

\* Each operation of the rest is one of the whole, and each of the whole is
\* done or left.
LEMMA Left ==
    ASSUME NEW t, NEW s, NEW n, Suffix(t, s, n)
    PROVE  /\ n \in Nat /\ Len(s) \in Nat /\ Len(t) \in Nat /\ Len(s) = Len(t) + n
           /\ \A i \in 1..Len(t) : i + n \in 1..Len(s) /\ t[i] = s[i + n]
           /\ \A i \in 1..Len(s) : i > n => i - n \in 1..Len(t) /\ t[i - n] = s[i]
  BY DEF Suffix

\* What is left has a first operation if the whole was longer.
LEMMA FirstLeft ==
    ASSUME NEW t, NEW s, NEW n, Suffix(t, s, n), n < Len(s)
    PROVE  t # <<>> /\ 1 \in 1..Len(t) /\ t[1] = s[n + 1]
<1>1. n \in Nat /\ Len(s) \in Nat /\ Len(t) \in Nat /\ Len(s) = Len(t) + n
  BY Left
<1>2. 1 \in 1..Len(t)
  BY <1>1
<1>3. t[1] = s[n + 1]
  BY <1>1, <1>2, Left
<1> QED BY <1>2, <1>3, EmptySeq

\* What is left of a program that ensures has the same order.
LEMMA EnsureLeft ==
    ASSUME NEW t, NEW s, NEW n, Suffix(t, s, n), EnsureShape(s)
    PROVE  EnsureShape(t)
<1>1. /\ n \in Nat /\ Len(s) \in Nat /\ Len(t) \in Nat /\ Len(s) = Len(t) + n
      /\ \A i \in 1..Len(t) : i + n \in 1..Len(s) /\ t[i] = s[i + n]
      /\ \A i \in 1..Len(s) : i > n => i - n \in 1..Len(t) /\ t[i - n] = s[i]
  BY Left
<1> SUFFICES ASSUME NEW i \in 1..Len(t)
             PROVE  EnsureAt(t, i)
  BY DEF EnsureShape
<1> DEFINE m == i + n
<1>2. m \in 1..Len(s) /\ EnsureAt(s, m) /\ t[i] = s[m]
  BY <1>1 DEF EnsureShape
<1>8. /\ m \in Int /\ Len(s) = Len(t) + n /\ Len(t) \in Int /\ n >= 0 /\ n \in Int /\ m = i + n
  BY <1>1
<1>9. /\ (m = Len(s) <=> i = Len(t))
      /\ (m + 1 = Len(s) <=> i + 1 = Len(t)) /\ (m + 2 = Len(s) <=> i + 2 = Len(t))
      /\ (m < Len(s) <=> i < Len(t)) /\ (i > 1 => m > 1) /\ (m \in {1, 2} => i \in {1, 2})
  <2>1. /\ (m = Len(s) <=> i = Len(t))
        /\ (m + 1 = Len(s) <=> i + 1 = Len(t)) /\ (m + 2 = Len(s) <=> i + 2 = Len(t))
        /\ (m < Len(s) <=> i < Len(t))
    BY <1>8
  <2>2. (i > 1 => m > 1) /\ (m \in {1, 2} => i \in {1, 2})
    BY <1>8
  <2> QED BY <2>1, <2>2
<1>3. i < Len(t) => t[i + 1] = s[m + 1]
  <2>1. i < Len(t) => i + 1 \in 1..Len(t) /\ (i + 1) + n = m + 1
    BY <1>8
  <2> QED BY <1>1, <2>1
<1>4. i + 2 = Len(t) => t[i + 2] = s[m + 2]
  <2>1. i + 2 = Len(t) => i + 2 \in 1..Len(t) /\ (i + 2) + n = m + 2
    BY <1>8
  <2> QED BY <1>1, <2>1
<1>5. i > 1 => t[i - 1] = s[m - 1]
  <2>1. i > 1 => i - 1 \in 1..Len(t) /\ (i - 1) + n = m - 1
    BY <1>8
  <2> QED BY <1>1, <2>1
<1>6. t[Len(t)] = s[Len(s)]
  BY <1>1
<1>7. \A h : (\E j \in (m + 1)..Len(s) : Is(s[j], "set", h))
                 => \E j \in (i + 1)..Len(t) : Is(t[j], "set", h)
  <2> SUFFICES ASSUME NEW h, NEW j \in (m + 1)..Len(s), Is(s[j], "set", h)
               PROVE  \E l \in (i + 1)..Len(t) : Is(t[l], "set", h)
    OBVIOUS
  <2>1. j - n \in (i + 1)..Len(t) /\ t[j - n] = s[j]
    BY <1>1
  <2> QED BY <2>1
<1> HIDE DEF m
<1>10. /\ t[i][1] \in {"sentinel?", "server?", "version?", "deploy", "create", "set"}
       /\ t[i][1] \in {"sentinel?", "server?"} => Len(t) = i
       /\ Is(t[i], "set", Sentinel) => Len(t) = i
       /\ t[i][1] \in {"create", "set"} => t[Len(t)][1] = "set"
  BY <1>2, <1>9, <1>6 DEF EnsureAt
<1>11. /\ t[i][1] = "deploy" => Len(t) = i + 1 /\ t[i + 1][1] = "sentinel?"
       /\ t[i][1] = "version?" => Len(t) = i + 2 /\ t[i + 1][1] = "deploy" /\ t[i + 2][1] = "sentinel?"
  BY <1>1, <1>2, <1>9, <1>3, <1>4 DEF EnsureAt
<1>12. /\ t[i][1] = "create" => i < Len(t) /\ Is(t[i + 1], "set", t[i][2])
       /\ t[i][1] = "set" /\ i > 1 => Is(t[i - 1], "create", t[i][2])
  BY <1>2, <1>9, <1>3, <1>5 DEF EnsureAt
<1>13. Is(t[i], "set", Server) =>
         i \in {1, 2} /\ \A h \in Handlers : \E j \in (i + 1)..Len(t) : Is(t[j], "set", h)
  BY <1>2, <1>9, <1>7 DEF EnsureAt
<1> QED BY <1>10, <1>11, <1>12, <1>13 DEF EnsureAt

\* The same of one that removes ...
LEMMA RemoveLeft ==
    ASSUME NEW t, NEW s, NEW n, Suffix(t, s, n), RemoveShape(s)
    PROVE  RemoveShape(t)
<1>1. /\ n \in Nat /\ Len(s) \in Nat /\ Len(t) \in Nat /\ Len(s) = Len(t) + n
      /\ \A i \in 1..Len(t) : i + n \in 1..Len(s) /\ t[i] = s[i + n]
      /\ \A i \in 1..Len(s) : i > n => i - n \in 1..Len(t) /\ t[i - n] = s[i]
  BY Left
<1> SUFFICES ASSUME NEW i \in 1..Len(t)
             PROVE  RemoveAt(t, i)
  BY DEF RemoveShape
<1> DEFINE m == i + n
<1>2. m \in 1..Len(s) /\ RemoveAt(s, m) /\ t[i] = s[m]
  BY <1>1 DEF RemoveShape
<1>3. m < Len(s) => i < Len(t) /\ t[i + 1] = s[m + 1]
  BY <1>1
<1>4. \A j \in (m + 1)..Len(s) : j - n \in (i + 1)..Len(t) /\ t[j - n] = s[j]
  BY <1>1
<1>5. \A j \in (i + 1)..Len(t) : j + n \in (m + 1)..Len(s) /\ t[j] = s[j + n]
  BY <1>1
<1> HIDE DEF m
<1>6. /\ t[i][1] \in {"delete", "clear", "test", "remove"}
      /\ t[i][1] = "test" => i < Len(t) /\ Is(t[i + 1], "remove", t[i][2])
  BY <1>2, <1>3 DEF RemoveAt
<1>7. Drops(t[i], Server) => \A h \in Handlers : \A j \in (i + 1)..Len(t) : ~ Drops(t[j], h)
  BY <1>2, <1>5 DEF RemoveAt
<1>8. \A h \in Handlers : Drops(t[i], h) =>
         /\ \E j \in (i + 1)..Len(t) : Drops(t[j], Server)
         /\ \E j \in (i + 1)..Len(t) : Is(t[j], "clear", Sentinel)
  BY <1>2, <1>4 DEF RemoveAt
<1> QED BY <1>6, <1>7, <1>8 DEF RemoveAt

\* ... and of register.ps1.
LEMMA ScriptLeft ==
    ASSUME NEW t, NEW s, NEW n, Suffix(t, s, n), ScriptShape(s)
    PROVE  ScriptShape(t)
<1>1. /\ n \in Nat /\ Len(s) \in Nat /\ Len(t) \in Nat /\ Len(s) = Len(t) + n
      /\ \A i \in 1..Len(t) : i + n \in 1..Len(s) /\ t[i] = s[i + n]
      /\ \A i \in 1..Len(s) : i > n => i - n \in 1..Len(t) /\ t[i - n] = s[i]
  BY Left
<1> SUFFICES ASSUME NEW i \in 1..Len(t)
             PROVE  ScriptAt(t, i)
  BY DEF ScriptShape
<1> DEFINE m == i + n
<1>2. m \in 1..Len(s) /\ ScriptAt(s, m) /\ t[i] = s[m]
  BY <1>1 DEF ScriptShape
<1>3. m < Len(s) => i < Len(t) /\ t[i + 1] = s[m + 1]
  BY <1>1
<1>4. \A j \in (m + 1)..Len(s) : j - n \in (i + 1)..Len(t) /\ t[j - n] = s[j]
  BY <1>1
<1>5. \A j \in (i + 1)..Len(t) : j + n \in (m + 1)..Len(s) /\ t[j] = s[j + n]
  BY <1>1
<1> HIDE DEF m
<1>6. /\ t[i][1] \in {"delete", "create", "put", "package?", "add"}
      /\ t[i][1] = "create" => i < Len(t) /\ Is(t[i + 1], "put", t[i][2])
  BY <1>2, <1>3 DEF ScriptAt
<1>7. t[i][1] = "delete" => \E j \in (i + 1)..Len(t) : Is(t[j], "put", t[i][2])
  BY <1>2, <1>4 DEF ScriptAt
<1>8. Is(t[i], "put", Server) => \A h \in Handlers : \E j \in (i + 1)..Len(t) : Is(t[j], "put", h)
  BY <1>2, <1>4 DEF ScriptAt
<1>9. t[i][1] = "package?" => \A j \in (i + 1)..Len(t) : t[j][1] = "add"
  BY <1>2, <1>5 DEF ScriptAt
<1> QED BY <1>6, <1>7, <1>8, <1>9 DEF ScriptAt

\* What is left of a plan is a plan.
LEMMA PlanLeft ==
    ASSUME NEW p, NEW prog, NEW t, NEW s, NEW n, Suffix(t, s, n), Plan(p, prog, s)
    PROVE  Plan(p, prog, t)
<1>1. t \in Seq(Op) /\ \A i \in 1..Len(t) : KnownOp(p, t[i])
  BY Left DEF Plan, Suffix
<1> QED BY <1>1, EnsureLeft, RemoveLeft, ScriptLeft DEF Plan, Shape

-----------------------------------------------------------------------------
(* The programs have these orders to begin with.                            *)

\* The parts the programs are put together of.
LEMMA PartsTyped ==
    ASSUME NEW k \in Keys, NEW v \in Folders \cup {"set"}
    PROVE  Write(k, v) \in Seq(Op) /\ Renew(k, v) \in Seq(Op) /\ Remove(k) \in Seq(Op)
<1>1. \A o \in OpName : <<o, k>> \in Op /\ <<o, k, v>> \in Op
  BY DEF Op
<1>2. /\ <<"create", k>> \in Op /\ <<"set", k, v>> \in Op /\ <<"delete", k>> \in Op
      /\ <<"put", k, v>> \in Op /\ <<"test", k>> \in Op /\ <<"remove", k>> \in Op
  BY <1>1 DEF OpName
<1> QED BY <1>2 DEF Write, Renew, Remove

\* What EnsureRegistered writes the first time (shell_ext_registration.h:190).
LEMMA FirstTimePlan ==
    ASSUME NEW p \in Hosts, NEW prog, Sort(prog) = "ensures"
    PROVE  LET s == FirstTime(Home[p])
           IN  /\ Plan(p, prog, s) /\ s[1][1] = "create" /\ Len(s) = 8
               /\ \A k \in ClassKeys : \E i \in 2..Len(s) : Is(s[i], "set", k)
               /\ \A i \in 1..Len(s) : s[i][1] \in {"create", "set"}
<1> DEFINE f == Home[p]
           s == FirstTime(f)
<1>1. f \in Folders
  BY RegistrationAssumption
<1>2. Write(Server, f) \in Seq(Op) /\ WriteHandlers \in Seq(Op) /\ Write(Sentinel, "set") \in Seq(Op)
  BY <1>1, PartsTyped, SMTT(30) DEF Keys, Handlers, WriteHandlers
<1>3. s \in Seq(Op)
  BY <1>2 DEF FirstTime
<1>4. Len(s) = 8
  BY DEF FirstTime, WriteHandlers, Write
<1> HIDE DEF f
<1>5. /\ Is(s[1], "create", Server) /\ Is(s[2], "set", Server) /\ s[2][3] = f
      /\ Is(s[3], "create", "AllFileSystemObjects") /\ Is(s[4], "set", "AllFileSystemObjects") /\ s[4][3] = "set"
      /\ Is(s[5], "create", "Drive") /\ Is(s[6], "set", "Drive") /\ s[6][3] = "set"
      /\ Is(s[7], "create", Sentinel) /\ Is(s[8], "set", Sentinel) /\ s[8][3] = "set"
  BY DEF FirstTime, WriteHandlers, Write, Is
<1> HIDE DEF s
<1>6. \A i \in 1..8 : i \in {1, 2, 3, 4, 5, 6, 7, 8}
  OBVIOUS
<1>7. \A i \in 1..Len(s) : KnownOp(p, s[i])
  BY <1>4, <1>5, <1>6 DEF KnownOp, Val, ClassKeys, Handlers, Server, Sentinel, Package, Is, f
<1>8. EnsureShape(s)
  <2> SUFFICES ASSUME NEW i \in 1..8 PROVE EnsureAt(s, i)
    BY <1>4 DEF EnsureShape
  <2>1. \A h \in Handlers : h \in {"AllFileSystemObjects", "Drive"}
    BY DEF Handlers
  <2>2. i = 2 => \A h \in Handlers : \E j \in (i + 1)..8 : Is(s[j], "set", h)
    BY <1>5, <2>1
  <2> QED BY <1>4, <1>5, <1>6, <2>2 DEF EnsureAt, Is, Server, Sentinel
<1>9. \A k \in ClassKeys : \E i \in 2..8 : Is(s[i], "set", k)
  BY <1>5 DEF ClassKeys, Handlers
<1>10. \A i \in 1..8 : s[i][1] \in {"create", "set"}
  BY <1>5, <1>6 DEF Is
<1> QED BY <1>3, <1>4, <1>5, <1>7, <1>8, <1>9, <1>10 DEF Plan, Shape, Is, s, f

\* What it writes when the server is another one (shell_ext_registration.h:177).
LEMMA RepairPlan ==
    ASSUME NEW p \in Hosts, NEW prog, Sort(prog) = "ensures"
    PROVE  LET s == Repair(Home[p])
           IN  /\ Plan(p, prog, s) /\ s[1][1] = "create" /\ Len(s) = 6
               /\ \A k \in ClassKeys : \E i \in 2..Len(s) : Is(s[i], "set", k)
               /\ \A i \in 1..Len(s) : s[i][1] \in {"create", "set"}
<1> DEFINE f == Home[p]
           s == Repair(f)
<1>1. f \in Folders
  BY RegistrationAssumption
<1>2. Write(Server, f) \in Seq(Op) /\ WriteHandlers \in Seq(Op)
  BY <1>1, PartsTyped, SMTT(30) DEF Keys, Handlers, WriteHandlers
<1>3. s \in Seq(Op)
  BY <1>2 DEF Repair
<1>4. Len(s) = 6
  BY DEF Repair, WriteHandlers, Write
<1> HIDE DEF f
<1>5. /\ Is(s[1], "create", Server) /\ Is(s[2], "set", Server) /\ s[2][3] = f
      /\ Is(s[3], "create", "AllFileSystemObjects") /\ Is(s[4], "set", "AllFileSystemObjects") /\ s[4][3] = "set"
      /\ Is(s[5], "create", "Drive") /\ Is(s[6], "set", "Drive") /\ s[6][3] = "set"
  BY DEF Repair, WriteHandlers, Write, Is
<1> HIDE DEF s
<1>6. \A i \in 1..6 : i \in {1, 2, 3, 4, 5, 6}
  OBVIOUS
<1>7. \A i \in 1..Len(s) : KnownOp(p, s[i])
  BY <1>4, <1>5, <1>6 DEF KnownOp, Val, ClassKeys, Handlers, Server, Sentinel, Package, Is, f
<1>8. EnsureShape(s)
  <2> SUFFICES ASSUME NEW i \in 1..6 PROVE EnsureAt(s, i)
    BY <1>4 DEF EnsureShape
  <2>1. \A h \in Handlers : h \in {"AllFileSystemObjects", "Drive"}
    BY DEF Handlers
  <2>2. i = 2 => \A h \in Handlers : \E j \in (i + 1)..6 : Is(s[j], "set", h)
    BY <1>5, <2>1
  <2> QED BY <1>4, <1>5, <1>6, <2>2 DEF EnsureAt, Is, Server, Sentinel
<1>9. \A k \in ClassKeys : \E i \in 2..6 : Is(s[i], "set", k)
  BY <1>5 DEF ClassKeys, Handlers
<1>10. \A i \in 1..6 : s[i][1] \in {"create", "set"}
  BY <1>5, <1>6 DEF Is
<1> QED BY <1>3, <1>4, <1>5, <1>7, <1>8, <1>9, <1>10 DEF Plan, Shape, Is, s, f

\* What EnsureRegistered and enable() ask before they write.
LEMMA AskPlan ==
    ASSUME NEW p \in Hosts, NEW prog, Sort(prog) = "ensures"
    PROVE  /\ Plan(p, prog, <<<<"sentinel?", Sentinel>>>>)
           /\ Plan(p, prog, <<<<"server?", Server>>>>)
           /\ Plan(p, prog, Enable(Home[p]))
<1>1. /\ <<"sentinel?", Sentinel>> \in Op /\ <<"server?", Server>> \in Op
      /\ <<"version?", Package>> \in Op /\ <<"deploy", Package, Home[p]>> \in Op
  BY RegistrationAssumption DEF Op, OpName, Keys
<1>2. ASSUME NEW x \in {<<"sentinel?", Sentinel>>, <<"server?", Server>>}
      PROVE  Plan(p, prog, <<x>>)
  <2>1. <<x>> \in Seq(Op) /\ Len(<<x>>) = 1 /\ <<x>>[1] = x
    BY <1>1
  <2>2. KnownOp(p, x) /\ x[1] \in {"sentinel?", "server?"}
    BY DEF KnownOp
  <2>3. EnsureShape(<<x>>)
    BY <2>1, <2>2 DEF EnsureShape, EnsureAt, Is
  <2> QED BY <2>1, <2>2, <2>3 DEF Plan, Shape
<1>3. Plan(p, prog, Enable(Home[p]))
  <2> DEFINE s == Enable(Home[p])
  <2>1. s \in Seq(Op) /\ Len(s) = 3
    BY <1>1 DEF Enable
  <2>2. s[1] = <<"version?", Package>> /\ s[2] = <<"deploy", Package, Home[p]>> /\ s[3] = <<"sentinel?", Sentinel>>
    BY DEF Enable
  <2> HIDE DEF s
  <2>3. \A i \in 1..3 : i \in {1, 2, 3}
    OBVIOUS
  <2>4. \A i \in 1..Len(s) : KnownOp(p, s[i])
    BY <2>1, <2>2, <2>3 DEF KnownOp, Val, Package
  <2>5. EnsureShape(s)
    BY <2>1, <2>2, <2>3 DEF EnsureShape, EnsureAt, Is
  <2> QED BY <2>1, <2>4, <2>5 DEF Plan, Shape, s
<1> QED BY <1>2, <1>3

\* Unregister drops all of the class and the sentinel (shell_ext_registration.h:225).
LEMMA UnregisterPlan ==
    ASSUME NEW p \in Hosts, NEW prog, Sort(prog) = "removes"
    PROVE  LET s == Unregister
           IN  /\ Plan(p, prog, s) /\ Len(s) = 4
               /\ \A k \in ClassKeys : \E i \in 1..Len(s) : Drops(s[i], k)
               /\ Has(s, "clear", Sentinel)
<1> DEFINE s == Unregister
<1>1. \A k \in Keys : <<"delete", k>> \in Op /\ <<"clear", k>> \in Op
  BY DEF Op, OpName
<1>2. s \in Seq(Op) /\ Len(s) = 4
  BY <1>1 DEF Unregister, Keys, Handlers
<1>3. /\ s[1] = <<"delete", "AllFileSystemObjects">> /\ s[2] = <<"delete", "Drive">>
      /\ s[3] = <<"delete", Server>> /\ s[4] = <<"clear", Sentinel>>
  BY DEF Unregister
<1> HIDE DEF s
<1>4. \A i \in 1..4 : i \in {1, 2, 3, 4}
  OBVIOUS
<1>5. \A i \in 1..Len(s) : KnownOp(p, s[i])
  BY <1>2, <1>3, <1>4 DEF KnownOp
<1>6. RemoveShape(s)
  <2> SUFFICES ASSUME NEW i \in 1..4 PROVE RemoveAt(s, i)
    BY <1>2 DEF RemoveShape
  <2>1. i \in {1, 2} => /\ \E j \in (i + 1)..4 : Drops(s[j], Server)
                        /\ \E j \in (i + 1)..4 : Is(s[j], "clear", Sentinel)
    BY <1>3 DEF Drops, Is
  <2>2. Drops(s[i], Server) => i = 3
    BY <1>3, <1>4 DEF Drops, Server
  <2>3. \A h \in Handlers : Drops(s[i], h) => i \in {1, 2}
    BY <1>3, <1>4 DEF Drops, Server, Handlers
  <2>4. \A h \in Handlers : \A j \in 4..4 : ~ Drops(s[j], h)
    BY <1>3 DEF Drops
  <2>5. s[i][1] \in {"delete", "clear"}
    BY <1>3, <1>4
  <2> QED BY <1>2, <2>1, <2>2, <2>3, <2>4, <2>5 DEF RemoveAt
<1>7. \A k \in ClassKeys : \E i \in 1..4 : Drops(s[i], k)
  BY <1>3 DEF ClassKeys, Handlers, Drops
<1>8. Has(s, "clear", Sentinel)
  BY <1>2, <1>3 DEF Has, Is
<1> QED BY <1>2, <1>5, <1>6, <1>7, <1>8 DEF Plan, Shape, s

\* unregister.ps1 drops the package too.
LEMMA UnregisterScriptPlan ==
    ASSUME NEW p \in Hosts, NEW prog, Sort(prog) = "removes"
    PROVE  LET s == UnregisterScript
           IN  /\ Plan(p, prog, s) /\ Len(s) = 9
               /\ \A k \in ClassKeys \cup {Package} : \E i \in 1..Len(s) : Drops(s[i], k)
               /\ Has(s, "clear", Sentinel)
<1> DEFINE s == UnregisterScript
<1>1. <<"clear", Sentinel>> \in Op
  BY DEF Op, OpName, Keys
<1>2. \A k \in Keys : Remove(k) \in Seq(Op)
  BY PartsTyped
<1>3. s \in Seq(Op)
  BY <1>1, <1>2 DEF UnregisterScript, Keys, Handlers
<1>4. Len(s) = 9
  BY DEF UnregisterScript, Remove
<1>5. /\ Is(s[1], "test", "AllFileSystemObjects") /\ Is(s[2], "remove", "AllFileSystemObjects")
      /\ Is(s[3], "test", "Drive") /\ Is(s[4], "remove", "Drive")
      /\ Is(s[5], "test", Server) /\ Is(s[6], "remove", Server) /\ Is(s[7], "clear", Sentinel)
      /\ Is(s[8], "test", Package) /\ Is(s[9], "remove", Package)
  BY DEF UnregisterScript, Remove, Is
<1> HIDE DEF s
<1>6. \A i \in 1..9 : i \in {1, 2, 3, 4, 5, 6, 7, 8, 9}
  OBVIOUS
<1>7. \A i \in 1..Len(s) : KnownOp(p, s[i])
  BY <1>4, <1>5, <1>6 DEF KnownOp, Is
<1>8. RemoveShape(s)
  <2> SUFFICES ASSUME NEW i \in 1..9 PROVE RemoveAt(s, i)
    BY <1>4 DEF RemoveShape
  <2>1. i \in {2, 4} => /\ \E j \in (i + 1)..9 : Drops(s[j], Server)
                        /\ \E j \in (i + 1)..9 : Is(s[j], "clear", Sentinel)
    BY <1>5 DEF Drops, Is
  <2>2. Drops(s[i], Server) => i = 6
    BY <1>5, <1>6 DEF Drops, Is, Server, Package
  <2>3. \A h \in Handlers : Drops(s[i], h) => i \in {2, 4}
    BY <1>5, <1>6 DEF Drops, Is, Server, Package, Handlers
  <2>4. \A h \in Handlers : \A j \in 7..9 : ~ Drops(s[j], h)
    BY <1>5, <1>6 DEF Drops, Is, Handlers, Package
  <2>5. s[i][1] \in {"clear", "test", "remove"} /\ (s[i][1] = "test" => i < 9 /\ Is(s[i + 1], "remove", s[i][2]))
    BY <1>5, <1>6 DEF Is
  <2> QED BY <1>4, <2>1, <2>2, <2>3, <2>4, <2>5 DEF RemoveAt
<1>9. \A k \in ClassKeys \cup {Package} : \E i \in 1..9 : Drops(s[i], k)
  BY <1>5 DEF ClassKeys, Handlers, Drops, Is
<1>10. Has(s, "clear", Sentinel)
  BY <1>4, <1>5 DEF Has
<1> QED BY <1>3, <1>4, <1>7, <1>8, <1>9, <1>10 DEF Plan, Shape, s

\* register.ps1 puts all of the class.
LEMMA RegisterScriptPlan ==
    ASSUME NEW p \in Hosts, NEW prog, Sort(prog) = "register.ps1"
    PROVE  LET s == RegisterScript(Home[p])
           IN  /\ Plan(p, prog, s) /\ s # <<>>
               /\ \A k \in ClassKeys : Has(s, "put", k)
<1> DEFINE f == Home[p]
           s == RegisterScript(f)
<1>1. f \in Folders
  BY RegistrationAssumption
<1>2. <<"delete", Server>> \in Op /\ <<"package?", Package>> \in Op /\ <<"add", Package, f>> \in Op
  BY <1>1 DEF Op, OpName, Keys
<1>3. /\ Renew(Server, f) \in Seq(Op) /\ Renew("AllFileSystemObjects", "set") \in Seq(Op)
      /\ Renew("Drive", "set") \in Seq(Op) /\ Renew(Sentinel, "set") \in Seq(Op)
  BY <1>1, PartsTyped DEF Keys, Handlers
<1>4. s \in Seq(Op)
  BY <1>2, <1>3 DEF RegisterScript
<1>5. Len(s) = 15
  BY DEF RegisterScript, Renew
<1> HIDE DEF f
<1>6. /\ Is(s[1], "delete", Server)
      /\ Is(s[2], "delete", Server) /\ Is(s[3], "create", Server) /\ Is(s[4], "put", Server) /\ s[4][3] = f
      /\ Is(s[5], "delete", "AllFileSystemObjects") /\ Is(s[6], "create", "AllFileSystemObjects")
      /\ Is(s[7], "put", "AllFileSystemObjects") /\ s[7][3] = "set"
      /\ Is(s[8], "delete", "Drive") /\ Is(s[9], "create", "Drive")
      /\ Is(s[10], "put", "Drive") /\ s[10][3] = "set"
      /\ Is(s[11], "delete", Sentinel) /\ Is(s[12], "create", Sentinel)
      /\ Is(s[13], "put", Sentinel) /\ s[13][3] = "set"
      /\ Is(s[14], "package?", Package) /\ Is(s[15], "add", Package) /\ s[15][3] = f
  BY DEF RegisterScript, Renew, Is
<1> HIDE DEF s
<1>7. \A i \in 1..15 : i \in {1, 2, 3, 4, 5, 6, 7, 8, 9, 10, 11, 12, 13, 14, 15}
  OBVIOUS
<1>11. s # <<>>
  <2> PICK n : n = Len(s) /\ n = 15
    BY <1>5
  <2>1. n # 0
    OBVIOUS
  <2> QED BY <2>1, EmptySeq, Zenon
<1>8. \A i \in 1..Len(s) : KnownOp(p, s[i])
  BY <1>5, <1>6, <1>7 DEF KnownOp, Val, ClassKeys, Handlers, Server, Sentinel, Package, Is, f
<1>9. ScriptShape(s)
  <2> SUFFICES ASSUME NEW i \in 1..15 PROVE ScriptAt(s, i)
    BY <1>5 DEF ScriptShape
  <2>1. s[i][1] = "create" => i < 15 /\ Is(s[i + 1], "put", s[i][2])
    BY <1>6, <1>7 DEF Is
  <2>2. s[i][1] = "delete" => \E j \in (i + 1)..15 : Is(s[j], "put", s[i][2])
    BY <1>6, <1>7 DEF Is
  <2>3. Is(s[i], "put", Server) => i = 4
    BY <1>6, <1>7 DEF Is, Server, Sentinel
  <2>4. \A h \in Handlers : \E j \in 5..15 : Is(s[j], "put", h)
    BY <1>6 DEF Handlers
  <2>5. s[i][1] = "package?" => i = 14
    BY <1>6, <1>7 DEF Is
  <2>6. s[i][1] \in {"delete", "create", "put", "package?", "add"}
    BY <1>6, <1>7 DEF Is
  <2>7. \A j \in 15..15 : s[j][1] = "add"
    BY <1>6 DEF Is
  <2> QED BY <1>5, <2>1, <2>2, <2>3, <2>4, <2>5, <2>6, <2>7 DEF ScriptAt
<1>10. \A k \in ClassKeys : Has(s, "put", k)
  BY <1>5, <1>6 DEF ClassKeys, Handlers, Has
<1> QED BY <1>4, <1>5, <1>8, <1>9, <1>10, <1>11 DEF Plan, Shape, s, f

\* What StartProgram puts down is the whole program, and it is not empty.
LEMMA ProgramPlan ==
    ASSUME NEW p \in Hosts, NEW prog \in Programs
    PROVE  Plan(p, prog, Operations(p, prog)) /\ Operations(p, prog) # <<>>
<1> DEFINE s == Operations(p, prog)
<1>1. CASE prog = "EnsureRegistered"
  <2>1. Sort(prog) = "ensures" /\ s = <<<<"sentinel?", Sentinel>>>>
    BY <1>1 DEF Operations, Sort
  <2> QED BY <2>1, AskPlan
<1>2. CASE prog = "enable"
  <2>1. Sort(prog) = "ensures" /\ s = Enable(Home[p])
    BY <1>2 DEF Operations, Sort
  <2>2. Enable(Home[p]) # <<>>
    BY DEF Enable
  <2> QED BY <2>1, <2>2, AskPlan
<1>3. CASE prog = "Unregister"
  <2>1. Sort(prog) = "removes" /\ s = Unregister
    BY <1>3 DEF Operations, Sort
  <2> QED BY <2>1, UnregisterPlan
<1>4. CASE prog = "register.ps1"
  <2>1. Sort(prog) = "register.ps1" /\ s = RegisterScript(Home[p])
    BY <1>4 DEF Operations, Sort
  <2> QED BY <2>1, RegisterScriptPlan
<1>5. CASE prog = "unregister.ps1"
  <2>1. Sort(prog) = "removes" /\ s = UnregisterScript
    BY <1>5 DEF Operations, Sort
  <2> QED BY <2>1, UnregisterScriptPlan
<1>6. prog \in {"EnsureRegistered", "enable", "Unregister", "register.ps1", "unregister.ps1"}
  BY DEF Programs, Modules
<1> QED BY <1>1, <1>2, <1>3, <1>4, <1>5, <1>6

\* A host that runs nothing has an empty plan.
LEMMA NothingPlanned ==
    ASSUME NEW p, NEW prog
    PROVE  Plan(p, prog, <<>>)
  BY DEF Plan, Shape, EnsureShape, RemoveShape, ScriptShape

-----------------------------------------------------------------------------
(* The first operation, and what is known of it.                            *)

\* The first operation is a known one, on a key.
LEMMA FirstOp ==
    ASSUME BasicInv, NEW p \in Hosts, todo[p] # <<>>
    PROVE  /\ todo[p] \in Seq(Op) /\ Len(todo[p]) \in Nat /\ 1 \in 1..Len(todo[p])
           /\ Head(todo[p]) = todo[p][1] /\ Key(p) = todo[p][1][2] /\ Key(p) \in Keys
           /\ KnownOp(p, todo[p][1])
           /\ program[p] \in Programs /\ Shape(program[p], todo[p])
           /\ Sort(program[p]) \in {"ensures", "removes", "register.ps1"}
<1>1. todo[p] \in Seq(Op) /\ Plan(p, program[p], todo[p]) /\ program[p] \in Programs
  BY DEF BasicInv, PlanInv
<1>2. Len(todo[p]) \in Nat /\ 1 \in 1..Len(todo[p]) /\ Head(todo[p]) = todo[p][1] /\ todo[p][1] \in Op
  BY <1>1
<1>3. todo[p][1][2] \in Keys
  BY <1>2 DEF Op
<1>4. \A prog \in Programs : Sort(prog) \in {"ensures", "removes", "register.ps1"}
  BY DEF Programs, Modules, Sort
<1> QED BY <1>1, <1>2, <1>3, <1>4 DEF Plan, Key

\* No folder is taken for one of the other values.
LEMMA Absents ==
    /\ "absent" \notin Folders /\ "empty" \notin Folders /\ "set" \notin Folders
    /\ \A p \in Hosts : Home[p] \in Folders
  BY RegistrationAssumption

RegOK(r) ==
    /\ r \in [Keys -> {"absent", "empty", "set"} \cup Folders]
    /\ \A h \in Handlers \cup {Sentinel} : r[h] \notin Folders
    /\ r[Server] # "set" /\ r[Package] \in Folders \cup {"absent"}

\* What may be written to a key.
LEMMA Written ==
    ASSUME RegOK(reg), NEW p \in Hosts, NEW k \in Keys
    PROVE  /\ RegOK([reg EXCEPT ![k] = "absent"])
           /\ k # Package => RegOK([reg EXCEPT ![k] = "empty"])
           /\ RegOK([reg EXCEPT ![k] = Val(p, k)])
<1>1. /\ Handlers \subseteq Keys /\ Sentinel \in Keys /\ Server \in Keys /\ Package \in Keys
      /\ Server \notin Handlers /\ Package \notin Handlers
      /\ Server # Sentinel /\ Package # Sentinel /\ Server # Package
  BY DEF Keys, Handlers, Server, Sentinel, Package
<1>2. Val(p, k) \in {"set"} \cup Folders /\ (k \in {Server, Package} <=> Val(p, k) \in Folders)
  BY Absents DEF Val
<1>3. ASSUME NEW v \in {"absent", "empty", "set"} \cup Folders,
             v \in Folders => k \in {Server, Package}, v = "set" => k # Server,
             k = Package => v \in Folders \cup {"absent"}
      PROVE  RegOK([reg EXCEPT ![k] = v])
  BY <1>1, <1>3 DEF RegOK
<1> QED BY <1>2, <1>3, Absents

\* A program that goes on with the rest of a plan keeps its plan and the ghosts.
LEMMA GoesOn ==
    ASSUME BasicInv, NEW p \in Hosts, todo[p] # <<>>, NEW rest, GoOn(p, rest),
           Plan(p, program[p], rest)
    PROVE  /\ PlanInv' /\ AloneInv'
           /\ program' \in [Hosts -> Programs \cup {"none"}] /\ starts' \in 0..MaxStarts
           /\ refused' \in BOOLEAN /\ alone' \subseteq Running' /\ last' \subseteq Hosts
           /\ cutShort' \subseteq {"ensures", "removes", "register.ps1"}
<1>1. /\ todo \in [Hosts -> Seq(Op)] /\ rest \in Seq(Op) /\ todo' = [todo EXCEPT ![p] = rest]
      /\ program' = program /\ starts' = starts /\ refused' = refused /\ cutShort' = cutShort
      /\ overlapped' = overlapped
  BY DEF BasicInv, PlanInv, Plan, GoOn
<1>2. PlanInv'
  <2>1. \A q \in Hosts : Plan(q, program[q], todo'[q])
    BY <1>1 DEF BasicInv, PlanInv
  <2>2. \A q \in Hosts : todo'[q] # <<>> => program[q] \in Programs
    BY <1>1 DEF BasicInv, PlanInv
  <2>3. todo' \in [Hosts -> Seq(Op)]
    BY <1>1
  <2> QED BY <1>1, <2>1, <2>2, <2>3 DEF PlanInv
<1>3. last = {} /\ p \in Running /\ alone \subseteq Running
  BY DEF BasicInv, AloneInv, Running, RegistrationTypesOK
<1>4. /\ rest # <<>> => alone' = alone /\ last' = last /\ Running' = Running
      /\ rest = <<>> => alone' = alone \ {p} /\ Running' = Running \ {p}
                        /\ last' \in {last, {p}} /\ (last' = {p} => p \in alone)
  BY <1>1, <1>3 DEF GoOn, Running
<1>5. AloneInv'
  <2>1. \A q \in alone' : \A r \in Hosts : todo'[r] # <<>> => r = q
    BY <1>1, <1>4 DEF BasicInv, AloneInv
  <2>2. (~ overlapped /\ ~ refused) => Running' \subseteq alone'
    BY <1>4 DEF BasicInv, AloneInv
  <2>3. last' # {} => Running' = {}
    BY <1>3, <1>4 DEF BasicInv, AloneInv, Running
  <2> QED BY <1>1, <2>1, <2>2, <2>3 DEF AloneInv
<1> QED BY <1>1, <1>2, <1>3, <1>4, <1>5 DEF BasicInv, RegistrationTypesOK

\* Nobody but the program that goes on opens a key, and only to set it next.
LEMMA HeldGoesOn ==
    ASSUME BasicInv, NEW p \in Hosts, NEW rest, todo' = [todo EXCEPT ![p] = rest],
           held' \in [Hosts -> SUBSET Keys],
           \A q \in Hosts \ {p} : held'[q] \in {held[q], {}},
           held'[p] # {} => rest # <<>> /\ rest[1][1] \in {"set", "put"} /\ held'[p] = {rest[1][2]}
    PROVE  HeldInv' /\ \A q \in Hosts \ Running' : held'[q] = {}
<1>1. \A q \in Hosts : todo'[q] = IF q = p THEN rest ELSE todo[q]
  BY DEF BasicInv, PlanInv
<1>2. \A q \in Hosts : held'[q] # {} =>
        todo'[q] # <<>> /\ todo'[q][1][1] \in {"set", "put"} /\ held'[q] = {todo'[q][1][2]}
  BY <1>1 DEF BasicInv, HeldInv
<1> QED BY <1>2 DEF HeldInv, Running

\* Both together.
LEMMA BasicGoesOn ==
    ASSUME BasicInv, NEW p \in Hosts, todo[p] # <<>>, NEW rest, GoOn(p, rest),
           Plan(p, program[p], rest), RegOK(reg'), held' \in [Hosts -> SUBSET Keys],
           \A q \in Hosts \ {p} : held'[q] \in {held[q], {}},
           held'[p] # {} => rest # <<>> /\ rest[1][1] \in {"set", "put"} /\ held'[p] = {rest[1][2]}
    PROVE  BasicInv'
<1>1. todo' = [todo EXCEPT ![p] = rest]
  BY DEF GoOn
<1>2. HeldInv' /\ \A q \in Hosts \ Running' : held'[q] = {}
  BY <1>1, HeldGoesOn
<1>3. /\ PlanInv' /\ AloneInv'
      /\ program' \in [Hosts -> Programs \cup {"none"}] /\ starts' \in 0..MaxStarts
      /\ refused' \in BOOLEAN /\ alone' \subseteq Running' /\ last' \subseteq Hosts
      /\ cutShort' \subseteq {"ensures", "removes", "register.ps1"}
  BY GoesOn
<1> QED BY <1>2, <1>3 DEF BasicInv, RegistrationTypesOK, RegOK

\* A program that stops has nothing planned and holds nothing.
LEMMA BasicStop ==
    ASSUME BasicInv, NEW p \in Hosts, todo[p] # <<>>, Stop(p)
    PROVE  BasicInv'
<1>1. /\ todo' = [todo EXCEPT ![p] = <<>>] /\ held' = [held EXCEPT ![p] = {}]
      /\ program' = [program EXCEPT ![p] = "none"] /\ alone' = alone \ {p}
      /\ cutShort' = cutShort \cup {Sort(program[p])}
      /\ UNCHANGED <<reg, starts, overlapped, refused, last>>
  BY DEF Stop
<1>2. /\ todo \in [Hosts -> Seq(Op)] /\ held \in [Hosts -> SUBSET Keys]
      /\ program \in [Hosts -> Programs \cup {"none"}] /\ RegOK(reg)
  BY DEF BasicInv, PlanInv, RegistrationTypesOK, RegOK
<1>3. PlanInv'
  <2>1. todo' \in [Hosts -> Seq(Op)]
    BY <1>1, <1>2
  <2>2. \A q \in Hosts : Plan(q, program'[q], todo'[q])
    BY <1>1, <1>2, NothingPlanned DEF BasicInv, PlanInv
  <2>3. \A q \in Hosts : todo'[q] # <<>> => program'[q] \in Programs
    BY <1>1, <1>2 DEF BasicInv, PlanInv
  <2> QED BY <2>1, <2>2, <2>3 DEF PlanInv
<1>4. HeldInv' /\ \A q \in Hosts \ Running' : held'[q] = {}
  BY <1>1, <1>2, HeldGoesOn
<1>5. Running' = Running \ {p} /\ p \in Running /\ alone \subseteq Running /\ last = {}
  BY <1>1, <1>2 DEF Running, BasicInv, AloneInv, RegistrationTypesOK
<1>6. AloneInv'
  <2>1. \A q \in alone' : \A r \in Hosts : todo'[r] # <<>> => r = q
    BY <1>1, <1>2 DEF BasicInv, AloneInv
  <2>2. (~ overlapped /\ ~ refused) => Running' \subseteq alone'
    BY <1>1, <1>5 DEF BasicInv, AloneInv
  <2> QED BY <1>1, <1>5, <2>1, <2>2 DEF AloneInv
<1>7. Sort(program[p]) \in {"ensures", "removes", "register.ps1"}
  BY FirstOp
<1>8. RegistrationTypesOK'
  BY <1>1, <1>2, <1>4, <1>5, <1>7 DEF BasicInv, RegistrationTypesOK, RegOK
<1> QED BY <1>3, <1>4, <1>6, <1>8 DEF BasicInv

\* A program that is refused an operation goes on with the next.
LEMMA BasicRefuse ==
    ASSUME BasicInv, NEW p \in Hosts, Refuse(p)
    PROVE  BasicInv'
<1> DEFINE rest == Tail(todo[p])
<1>1. /\ todo[p] # <<>> /\ todo' = [todo EXCEPT ![p] = rest] /\ held' = [held EXCEPT ![p] = {}]
      /\ refused' = TRUE /\ alone' = alone \ {p}
      /\ UNCHANGED <<reg, program, starts, overlapped, cutShort, last>>
  BY DEF Refuse, Do
<1>2. /\ todo \in [Hosts -> Seq(Op)] /\ held \in [Hosts -> SUBSET Keys]
  BY DEF BasicInv, PlanInv, RegistrationTypesOK
<1>3. Plan(p, program[p], rest) /\ rest \in Seq(Op)
  BY <1>1, <1>2, TailSuffix, PlanLeft DEF BasicInv, PlanInv, Suffix
<1> HIDE DEF rest
<1>4. PlanInv'
  <2>1. todo' \in [Hosts -> Seq(Op)]
    BY <1>1, <1>2, <1>3
  <2>2. \A q \in Hosts : Plan(q, program[q], todo'[q])
    BY <1>1, <1>2, <1>3 DEF BasicInv, PlanInv
  <2>3. \A q \in Hosts : todo'[q] # <<>> => program[q] \in Programs
    BY <1>1, <1>2 DEF BasicInv, PlanInv
  <2> QED BY <1>1, <2>1, <2>2, <2>3 DEF PlanInv
<1>5. HeldInv' /\ \A q \in Hosts \ Running' : held'[q] = {}
  BY <1>1, <1>2, HeldGoesOn
<1>6. /\ Running \ {p} \subseteq Running' /\ p \in Running /\ alone \subseteq Running /\ last = {}
  BY <1>1, <1>2 DEF Running, BasicInv, AloneInv, RegistrationTypesOK
<1>7. AloneInv'
  <2>1. \A q \in alone' : \A r \in Hosts : todo'[r] # <<>> => r = q
    BY <1>1, <1>2 DEF BasicInv, AloneInv
  <2> QED BY <1>1, <1>6, <2>1 DEF AloneInv
<1>8. RegistrationTypesOK'
  BY <1>1, <1>2, <1>5, <1>6 DEF BasicInv, RegistrationTypesOK
<1> QED BY <1>4, <1>5, <1>7, <1>8 DEF BasicInv

\* A program starts with its whole plan.
LEMMA BasicStart ==
    ASSUME BasicInv, NEW p \in Hosts, NEW prog \in Programs, StartProgram(p, prog)
    PROVE  BasicInv'
<1> DEFINE s == Operations(p, prog)
<1>1. /\ todo[p] = <<>> /\ starts < MaxStarts /\ starts' = starts + 1
      /\ program' = [q \in Hosts |-> IF q = p THEN prog ELSE IF q \in Running THEN program[q] ELSE "none"]
      /\ todo' = [todo EXCEPT ![p] = s] /\ alone' = (IF Running = {} THEN {p} ELSE {}) /\ last' = {}
      /\ UNCHANGED <<reg, held, cutShort, refused>>
  BY DEF StartProgram
<1>0. overlapped' = (overlapped \/ Running # {})
  BY DEF StartProgram
<1>2. /\ todo \in [Hosts -> Seq(Op)] /\ held \in [Hosts -> SUBSET Keys]
      /\ program \in [Hosts -> Programs \cup {"none"}]
  BY DEF BasicInv, PlanInv, RegistrationTypesOK
<1>3. Plan(p, prog, s) /\ s # <<>> /\ s \in Seq(Op)
  BY ProgramPlan DEF Plan
<1> HIDE DEF s
<1>4. PlanInv'
  <2>1. todo' \in [Hosts -> Seq(Op)]
    BY <1>1, <1>2, <1>3
  <2>2. \A q \in Hosts : Plan(q, program'[q], todo'[q])
    BY <1>1, <1>2, <1>3, NothingPlanned DEF BasicInv, PlanInv, Running
  <2>3. \A q \in Hosts : todo'[q] # <<>> => program'[q] \in Programs
    BY <1>1, <1>2 DEF BasicInv, PlanInv, Running
  <2> QED BY <2>1, <2>2, <2>3 DEF PlanInv
<1>5. held[p] = {}
  BY <1>1 DEF BasicInv, HeldInv
<1>6. HeldInv' /\ \A q \in Hosts \ Running' : held'[q] = {}
  BY <1>1, <1>2, <1>5, HeldGoesOn
<1>7. Running' = Running \cup {p}
  BY <1>1, <1>2, <1>3 DEF Running
<1>8. AloneInv'
  <2>1. \A q \in alone' : \A r \in Hosts : todo'[r] # <<>> => r = q
    BY <1>1, <1>2 DEF Running
  <2>2. (~ overlapped' /\ ~ refused') => Running' \subseteq alone'
    BY <1>0, <1>1, <1>7
  <2> QED BY <1>1, <2>1, <2>2 DEF AloneInv
<1>9. starts' \in 0..MaxStarts
  BY <1>1, RegistrationAssumption DEF BasicInv, RegistrationTypesOK
<1>10. program' \in [Hosts -> Programs \cup {"none"}]
  BY <1>1, <1>2
<1>11. RegistrationTypesOK'
  BY <1>1, <1>2, <1>6, <1>7, <1>9, <1>10 DEF BasicInv, RegistrationTypesOK
<1> QED BY <1>4, <1>6, <1>8, <1>11 DEF BasicInv

\* Which programs do what.
LEMMA WhoDoes ==
    ASSUME BasicInv, NEW p \in Hosts, todo[p] # <<>>
    PROVE  LET o == todo[p][1][1]
               sort == Sort(program[p])
           IN  /\ o \in {"sentinel?", "server?", "version?", "deploy", "set"} => sort = "ensures"
               /\ o \in {"clear", "test", "remove"} => sort = "removes"
               /\ o \in {"put", "package?", "add"} => sort = "register.ps1"
               /\ o = "create" => sort \in {"ensures", "register.ps1"}
               /\ o = "delete" => sort \in {"removes", "register.ps1"}
               /\ sort = "ensures" => EnsureShape(todo[p]) /\ EnsureAt(todo[p], 1)
               /\ sort = "removes" => RemoveShape(todo[p]) /\ RemoveAt(todo[p], 1)
               /\ sort = "register.ps1" => ScriptShape(todo[p]) /\ ScriptAt(todo[p], 1)
<1> DEFINE o == todo[p][1][1]
           sort == Sort(program[p])
<1>1. /\ sort \in {"ensures", "removes", "register.ps1"} /\ Shape(program[p], todo[p])
      /\ 1 \in 1..Len(todo[p])
  BY FirstOp
<1>2. /\ sort = "ensures" => EnsureShape(todo[p]) /\ EnsureAt(todo[p], 1)
      /\ sort = "removes" => RemoveShape(todo[p]) /\ RemoveAt(todo[p], 1)
      /\ sort = "register.ps1" => ScriptShape(todo[p]) /\ ScriptAt(todo[p], 1)
  BY <1>1 DEF Shape, EnsureShape, RemoveShape, ScriptShape
<1>3. /\ sort = "ensures" => o \in {"sentinel?", "server?", "version?", "deploy", "create", "set"}
      /\ sort = "removes" => o \in {"delete", "clear", "test", "remove"}
      /\ sort = "register.ps1" => o \in {"delete", "create", "put", "package?", "add"}
  BY <1>2 DEF EnsureAt, RemoveAt, ScriptAt
<1> HIDE DEF o, sort
<1>4. /\ o \in {"sentinel?", "server?", "version?", "deploy", "set"} => sort = "ensures"
      /\ o \in {"clear", "test", "remove"} => sort = "removes"
      /\ o \in {"put", "package?", "add"} => sort = "register.ps1"
      /\ o = "create" => sort \in {"ensures", "register.ps1"}
      /\ o = "delete" => sort \in {"removes", "register.ps1"}
  BY <1>1, <1>3
<1> QED BY <1>2, <1>4 DEF o, sort

\* The rest of a plan is one.
LEMMA TailPlan ==
    ASSUME BasicInv, NEW p \in Hosts, todo[p] # <<>>
    PROVE  Plan(p, program[p], Tail(todo[p])) /\ Suffix(Tail(todo[p]), todo[p], 1)
<1>1. todo[p] \in Seq(Op) /\ Plan(p, program[p], todo[p])
  BY DEF BasicInv, PlanInv
<1>2. Suffix(Tail(todo[p]), todo[p], 1)
  BY <1>1, TailSuffix
<1> QED BY <1>1, <1>2, PlanLeft

\* Test-Path and Remove-Item go together, and so do the two of the package.
LEMMA SecondPlan ==
    ASSUME BasicInv, NEW p \in Hosts, todo[p] # <<>>, todo[p][1][1] \in {"test", "version?"}
    PROVE  LET rest == SubSeq(todo[p], 3, Len(todo[p]))
           IN  Plan(p, program[p], rest) /\ Suffix(rest, todo[p], 2)
<1> DEFINE rest == SubSeq(todo[p], 3, Len(todo[p]))
<1>1. todo[p] \in Seq(Op) /\ Plan(p, program[p], todo[p])
  BY DEF BasicInv, PlanInv
<1>2. RemoveAt(todo[p], 1) \/ EnsureAt(todo[p], 1)
  BY WhoDoes
<1>3. Len(todo[p]) \in Nat /\ (1 < Len(todo[p]) \/ Len(todo[p]) = 1 + 2)
  BY <1>2, FirstOp DEF RemoveAt, EnsureAt
<1>4. 2 <= Len(todo[p])
  BY <1>3
<1>5. Suffix(rest, todo[p], 2)
  BY <1>1, <1>4, SecondSuffix
<1> QED BY <1>1, <1>5, PlanLeft

\* A program that asks or looks holds nothing open, nor one that drops something.
LEMMA HoldsNothing ==
    ASSUME BasicInv, NEW p \in Hosts, todo[p] # <<>>, todo[p][1][1] \notin {"set", "put"}
    PROVE  held[p] = {}
  BY DEF BasicInv, HeldInv

-----------------------------------------------------------------------------
(* The operations, by the first thing there is to do and its key.            *)

AskSentinel(p) ==
    /\ Is(todo[p][1], "sentinel?", Sentinel)
    /\ GoOn(p, IF reg[Sentinel] = "set" THEN <<<<"server?", Server>>>> ELSE FirstTime(Home[p]))
    /\ reg' = reg /\ held' = held

AskServer(p) ==
    /\ Is(todo[p][1], "server?", Server)
    /\ GoOn(p, IF reg[Server] = Home[p] THEN <<>> ELSE Repair(Home[p]))
    /\ reg' = reg /\ held' = held

\* What is found makes the next operation unnecessary, or does not.
Look(p, k) ==
    /\ reg' = reg /\ held' = held
    /\ \/ todo[p][1][1] \in {"version?", "package?", "test"} /\ GoOn(p, Tail(todo[p]))
       \/ /\ \/ Is(todo[p][1], "version?", Package) /\ Supplied(p)
             \/ Is(todo[p][1], "test", k) /\ reg[k] = "absent"
          /\ GoOn(p, SubSeq(todo[p], 3, Len(todo[p])))
       \/ Is(todo[p][1], "package?", Package) /\ GoOn(p, <<>>)

Bring(p) ==
    /\ todo[p][1][1] \in {"deploy", "add"} /\ GoOn(p, Tail(todo[p]))
    /\ \/ reg' = [reg EXCEPT ![Package] = Home[p]]
       \/ reg' = reg /\ (todo[p][1][1] = "deploy" => Home[p] \notin Msix)
    /\ held' = held

Create(p, k) ==
    /\ Is(todo[p][1], "create", k) /\ k \in ClassKeys \cup {Sentinel} /\ GoOn(p, Tail(todo[p]))
    /\ reg' = IF reg[k] = "absent" THEN [reg EXCEPT ![k] = "empty"] ELSE reg
    /\ held' = [held EXCEPT ![p] = {k}]

Set(p, k) ==
    /\ Is(todo[p][1], "set", k) /\ k \in ClassKeys \cup {Sentinel} /\ GoOn(p, Tail(todo[p]))
    /\ reg' = IF k \in held[p] THEN [reg EXCEPT ![k] = Val(p, k)] ELSE reg
    /\ held' = [held EXCEPT ![p] = {}]

Drop(p, k) ==
    /\ Drops(todo[p][1], k) /\ GoOn(p, Tail(todo[p]))
    /\ reg' = [reg EXCEPT ![k] = "absent"]
    /\ held' = [q \in Hosts |-> held[q] \ {k}]

Clear(p) ==
    /\ Is(todo[p][1], "clear", Sentinel) /\ GoOn(p, Tail(todo[p]))
    /\ reg' = IF reg[Sentinel] = "set" THEN [reg EXCEPT ![Sentinel] = "empty"] ELSE reg
    /\ held' = held

Put(p, k) ==
    /\ Is(todo[p][1], "put", k) /\ k \in ClassKeys \cup {Sentinel} /\ GoOn(p, Tail(todo[p]))
    /\ reg' = [reg EXCEPT ![k] = Val(p, k)] /\ held' = [held EXCEPT ![p] = {}]

GoesOnWith(p, k) ==
    \/ AskSentinel(p) \/ AskServer(p) \/ Look(p, k) \/ Bring(p) \/ Create(p, k) \/ Set(p, k)
    \/ Drop(p, k) \/ Clear(p) \/ Put(p, k)

\* Every operation is of one of these kinds, or the program is refused it or stops.
LEMMA Kinds ==
    ASSUME BasicInv, NEW p \in Hosts, Operation(p)
    PROVE  /\ todo[p] # <<>>
           /\ \/ Refuse(p) \/ Stop(p)
              \/ \E k \in Keys : GoesOnWith(p, k)
<1>1. todo[p] # <<>>
  BY DEF Operation, CheckSentinel, CheckServer, CheckPackage, Deploy, AddPackage, Refuse, CreateKey,
         SetValue, Delete, ClearValue, PutProperty, TestPath, RemoveItem, Do
<1> DEFINE k == todo[p][1][2]
<1>2. /\ Head(todo[p]) = todo[p][1] /\ Key(p) = k /\ k \in Keys /\ KnownOp(p, todo[p][1])
  BY <1>1, FirstOp
<1>3. CASE CheckSentinel(p)
  <2>1. AskSentinel(p)
    BY <1>2, <1>3 DEF CheckSentinel, Do, AskSentinel, Is, KnownOp
  <2> QED BY <1>1, <1>2, <2>1 DEF GoesOnWith
<1>4. CASE CheckServer(p)
  <2>1. AskServer(p)
    BY <1>2, <1>4 DEF CheckServer, Do, AskServer, Is, KnownOp
  <2> QED BY <1>1, <1>2, <2>1 DEF GoesOnWith
<1>5. CASE CheckPackage(p)
  <2>1. reg' = reg /\ held' = held
    BY <1>5 DEF CheckPackage
  <2>2. CASE /\ Do(p, "version?")
             /\ GoOn(p, IF Win11 /\ ~ SameVersion(Home[p]) THEN Tail(todo[p]) ELSE SubSeq(todo[p], 3, 3))
    <3>1. Is(todo[p][1], "version?", Package)
      BY <1>2, <2>2 DEF Do, Is, KnownOp
    <3>2. Len(todo[p]) = 3
      BY <1>1, <3>1, WhoDoes DEF EnsureAt, Is
    <3>3. Look(p, k)
      BY <2>1, <2>2, <3>1, <3>2 DEF Look, Is, Supplied
    <3> QED BY <1>1, <1>2, <3>3 DEF GoesOnWith
  <2>3. CASE /\ Do(p, "package?")
             /\ GoOn(p, IF Win11 /\ Home[p] \in Msix /\ reg[Package] = "absent" THEN Tail(todo[p]) ELSE <<>>)
    <3>1. Is(todo[p][1], "package?", Package)
      BY <1>2, <2>3 DEF Do, Is, KnownOp
    <3>2. Look(p, k)
      BY <2>1, <2>3, <3>1 DEF Look, Is
    <3> QED BY <1>1, <1>2, <3>2 DEF GoesOnWith
  <2> QED BY <1>5, <2>2, <2>3 DEF CheckPackage
<1>6. CASE Deploy(p) \/ AddPackage(p)
  <2>1. [reg EXCEPT ![Package] = reg[Package]] = reg
    BY DEF BasicInv, RegistrationTypesOK
  <2>2. CASE Deploy(p)
    <3>1. Bring(p)
      BY <1>2, <2>1, <2>2 DEF Deploy, PutPackage, Do, Bring
    <3> QED BY <1>1, <1>2, <3>1 DEF GoesOnWith
  <2>3. CASE AddPackage(p)
    <3>1. todo[p][1][1] = "add"
      BY <1>2, <2>3 DEF AddPackage, Do
    <3>2. CASE PutPackage(p, Home[p]) \/ PutPackage(p, reg[Package])
      <4>1. Bring(p)
        BY <2>1, <3>1, <3>2 DEF PutPackage, Bring
      <4> QED BY <1>1, <1>2, <4>1 DEF GoesOnWith
    <3> QED BY <1>1, <2>3, <3>2 DEF AddPackage
  <2> QED BY <1>6, <2>2, <2>3
<1>7. CASE CreateKey(p)
  <2>1. Create(p, k)
    BY <1>2, <1>7 DEF CreateKey, Do, Create, Is, KnownOp
  <2> QED BY <1>1, <1>2, <2>1 DEF GoesOnWith
<1>8. CASE SetValue(p)
  <2>1. Set(p, k)
    BY <1>2, <1>8 DEF SetValue, Do, Set, Is, KnownOp
  <2> QED BY <1>1, <1>2, <2>1 DEF GoesOnWith
<1>9. CASE Delete(p)
  <2>1. Drop(p, k)
    BY <1>2, <1>9 DEF Delete, DeleteKey, Do, Drop, Drops
  <2> QED BY <1>1, <1>2, <2>1 DEF GoesOnWith
<1>10. CASE ClearValue(p)
  <2>1. Clear(p)
    BY <1>2, <1>10 DEF ClearValue, Do, Clear, Is, KnownOp
  <2> QED BY <1>1, <1>2, <2>1 DEF GoesOnWith
<1>11. CASE PutProperty(p)
  <2>1. Stop(p) \/ Put(p, k)
    BY <1>2, <1>11 DEF PutProperty, Do, Put, Is, KnownOp
  <2> QED BY <1>1, <1>2, <2>1 DEF GoesOnWith
<1>12. CASE TestPath(p)
  <2>1. Look(p, k)
    BY <1>2, <1>12 DEF TestPath, Do, Look, Is
  <2> QED BY <1>1, <1>2, <2>1 DEF GoesOnWith
<1>13. CASE RemoveItem(p)
  <2>1. Stop(p) \/ Drop(p, k)
    BY <1>2, <1>13 DEF RemoveItem, DeleteKey, Do, Drop, Drops
  <2> QED BY <1>1, <1>2, <2>1 DEF GoesOnWith
<1> QED BY <1>1, <1>3, <1>4, <1>5, <1>6, <1>7, <1>8, <1>9, <1>10, <1>11, <1>12, <1>13
        DEF Operation

\* Whatever is done, it leaves what is left to do in order, and the keys whole.
LEMMA BasicOperation ==
    ASSUME BasicInv, NEW p \in Hosts, Operation(p)
    PROVE  BasicInv'
<1>1. todo[p] # <<>> /\ (Refuse(p) \/ Stop(p) \/ \E k \in Keys : GoesOnWith(p, k))
  BY Kinds
<1>2. /\ RegOK(reg) /\ held \in [Hosts -> SUBSET Keys]
      /\ Sentinel \in Keys /\ Package \in Keys
      /\ Package \notin ClassKeys \cup {Sentinel}
  BY DEF BasicInv, RegistrationTypesOK, RegOK, Keys, ClassKeys, Handlers, Server, Sentinel, Package
<1>3. Plan(p, program[p], Tail(todo[p]))
  BY <1>1, TailPlan
<1>4. ASSUME NEW k \in Keys, GoesOnWith(p, k)
      PROVE  BasicInv'
  <2>1. /\ RegOK([reg EXCEPT ![k] = "absent"])
        /\ k # Package => RegOK([reg EXCEPT ![k] = "empty"])
        /\ RegOK([reg EXCEPT ![k] = Val(p, k)])
    BY <1>2, <1>4, Written
  \* What changes no key that is held.
  <2>2. ASSUME todo[p][1][1] \notin {"set", "put"}, NEW rest, GoOn(p, rest),
               Plan(p, program[p], rest), RegOK(reg'), held' = held
        PROVE  BasicInv'
    BY <1>1, <1>2, <2>2, HoldsNothing, BasicGoesOn
  <2>3. CASE AskSentinel(p)
    <3> DEFINE rest == IF reg[Sentinel] = "set" THEN <<<<"server?", Server>>>> ELSE FirstTime(Home[p])
    <3>1. todo[p][1][1] = "sentinel?" /\ GoOn(p, rest) /\ reg' = reg /\ held' = held
      BY <2>3 DEF AskSentinel, Is
    <3>2. Plan(p, program[p], rest)
      BY <1>1, <3>1, WhoDoes, AskPlan, FirstTimePlan
    <3> QED BY <1>2, <2>2, <3>1, <3>2
  <2>4. CASE AskServer(p)
    <3> DEFINE rest == IF reg[Server] = Home[p] THEN <<>> ELSE Repair(Home[p])
    <3>1. todo[p][1][1] = "server?" /\ GoOn(p, rest) /\ reg' = reg /\ held' = held
      BY <2>4 DEF AskServer, Is
    <3>2. Plan(p, program[p], rest)
      BY <1>1, <3>1, WhoDoes, NothingPlanned, RepairPlan
    <3> QED BY <1>2, <2>2, <3>1, <3>2
  <2>5. CASE Look(p, k)
    <3>1. reg' = reg /\ held' = held /\ todo[p][1][1] \in {"version?", "package?", "test"}
      BY <2>5 DEF Look, Is
    <3>2. PICK rest : GoOn(p, rest) /\ Plan(p, program[p], rest)
      BY <1>1, <1>3, <2>5, SecondPlan, NothingPlanned DEF Look, Is
    <3> QED BY <1>2, <2>2, <3>1, <3>2
  <2>6. CASE Bring(p)
    <3>1. RegOK([reg EXCEPT ![Package] = Home[p]]) /\ RegOK(reg)
      BY <1>2, Written DEF Val
    <3> QED BY <1>3, <2>2, <2>6, <3>1 DEF Bring
  <2>7. CASE Create(p, k)
    <3>1. /\ Is(todo[p][1], "create", k) /\ GoOn(p, Tail(todo[p])) /\ held' = [held EXCEPT ![p] = {k}]
          /\ RegOK(reg')
      BY <1>2, <2>1, <2>7 DEF Create
    <3>2. 1 < Len(todo[p]) /\ todo[p][2][1] \in {"set", "put"} /\ todo[p][2][2] = k
      BY <1>1, <3>1, WhoDoes DEF EnsureAt, ScriptAt, Is
    <3>3. Tail(todo[p]) # <<>> /\ Tail(todo[p])[1] = todo[p][2]
      <4>1. Suffix(Tail(todo[p]), todo[p], 1)
        BY <1>1, TailPlan
      <4> QED BY <3>2, <4>1, FirstLeft
    <3>4. /\ held' \in [Hosts -> SUBSET Keys] /\ held'[p] = {k}
          /\ \A q \in Hosts \ {p} : held'[q] = held[q]
      BY <1>2, <3>1
    <3> QED BY <1>1, <1>3, <3>1, <3>2, <3>3, <3>4, BasicGoesOn
  <2>8. CASE Set(p, k) \/ Put(p, k)
    <3>1. GoOn(p, Tail(todo[p])) /\ held' = [held EXCEPT ![p] = {}] /\ RegOK(reg')
      BY <1>2, <2>1, <2>8 DEF Set, Put
    <3> QED BY <1>1, <1>2, <1>3, <3>1, BasicGoesOn
  <2>9. CASE Drop(p, k)
    <3>1. /\ todo[p][1][1] \in {"delete", "remove"} /\ GoOn(p, Tail(todo[p])) /\ RegOK(reg')
          /\ held' = [q \in Hosts |-> held[q] \ {k}]
      BY <2>1, <2>9 DEF Drop, Drops
    <3>2. held[p] = {} /\ \A q \in Hosts : held'[q] \in {held[q], {}}
      BY <1>1, <1>2, <3>1, HoldsNothing DEF BasicInv, HeldInv
    <3>3. held' \in [Hosts -> SUBSET Keys]
      BY <1>2, <3>1
    <3> QED BY <1>1, <1>3, <3>1, <3>2, <3>3, BasicGoesOn
  <2>10. CASE Clear(p)
    <3>1. RegOK([reg EXCEPT ![Sentinel] = "empty"])
      BY <1>2, Written
    <3>2. todo[p][1][1] = "clear" /\ GoOn(p, Tail(todo[p])) /\ held' = held /\ RegOK(reg')
      BY <1>2, <2>10, <3>1 DEF Clear, Is
    <3> QED BY <1>3, <2>2, <3>2
  <2> QED BY <1>4, <2>3, <2>4, <2>5, <2>6, <2>7, <2>8, <2>9, <2>10 DEF GoesOnWith
<1> QED BY <1>1, <1>4, BasicRefuse, BasicStop

-----------------------------------------------------------------------------
(* What a program that runs alone has done.                                 *)

\* Whatever the first operation is not is still to be done after it.
LEMMA Kept ==
    ASSUME BasicInv, NEW p \in Hosts, todo[p] # <<>>, NEW t, t = Tail(todo[p])
    PROVE  /\ \A i \in 2..Len(todo[p]) : i - 1 \in 1..Len(t) /\ t[i - 1] = todo[p][i]
           /\ \A i \in 1..Len(todo[p]) : i = 1 \/ i \in 2..Len(todo[p])
           /\ \A o, k : Has(todo[p], o, k) => Is(todo[p][1], o, k) \/ Has(t, o, k)
           /\ \A o, k : Has(t, o, k) => Has(todo[p], o, k)
           /\ \A k : WillDrop(p, k) => Drops(todo[p][1], k) \/ \E i \in 1..Len(t) : Drops(t[i], k)
           /\ \A k : (\E i \in 1..Len(t) : Drops(t[i], k)) => WillDrop(p, k)
<1> DEFINE s == todo[p]
<1>1. Suffix(t, s, 1)
  BY TailPlan
<1>2. Len(s) \in Nat /\ Len(t) \in Nat /\ Len(s) = Len(t) + 1
  BY <1>1, Left
<1>3. \A i \in 2..Len(s) : i - 1 \in 1..Len(t) /\ t[i - 1] = s[i]
  BY <1>1, <1>2, Left
<1>4. \A i \in 1..Len(s) : i = 1 \/ i \in 2..Len(s)
  BY <1>2
<1>5. \A i \in 1..Len(t) : i + 1 \in 1..Len(s) /\ t[i] = s[i + 1]
  BY <1>1, Left
<1> HIDE DEF s
<1>6. \A o, k : Has(s, o, k) => Is(s[1], o, k) \/ Has(t, o, k)
  BY <1>3, <1>4 DEF Has
<1>7. \A o, k : Has(t, o, k) => Has(s, o, k)
  BY <1>5 DEF Has
<1>8. \A k : (\E i \in 1..Len(s) : Drops(s[i], k)) => Drops(s[1], k) \/ \E i \in 1..Len(t) : Drops(t[i], k)
  BY <1>3, <1>4
<1>9. \A k : (\E i \in 1..Len(t) : Drops(t[i], k)) => \E i \in 1..Len(s) : Drops(s[i], k)
  BY <1>5
<1> QED BY <1>3, <1>4, <1>6, <1>7, <1>8, <1>9 DEF s, WillDrop

\* A value that p is going to write later it is going to write, key and all.
LEMMA SetsLater ==
    ASSUME BasicInv, NEW p \in Hosts, todo[p] # <<>>, EnsureShape(todo[p]),
           todo' = [todo EXCEPT ![p] = Tail(todo[p])], NEW k,
           NEW i \in 2..Len(todo[p]), Is(todo[p][i], "set", k),
           (i = 2 /\ todo[p][1][1] = "create") => k \in held'[p]
    PROVE  WillSet(p, k)'
<1>1. todo'[p] = Tail(todo[p])
  BY DEF BasicInv, PlanInv
<1>2. i - 1 \in 1..Len(todo'[p]) /\ todo'[p][i - 1] = todo[p][i]
  BY <1>1, Kept, ZenonT(30)
<1>3. Len(todo[p]) \in Nat /\ i \in 1..Len(todo[p]) /\ i > 1
  BY FirstOp
<1>4. Is(todo[p][i - 1], "create", k)
  BY <1>3 DEF EnsureShape, EnsureAt, Is
<1>5. i - 1 = 1 => k \in held'[p]
  BY <1>3, <1>4 DEF Is
<1> QED BY <1>2, <1>5 DEF WillSet

\* A program that has begun to write asks no more.
LEMMA AsksNoMore ==
    ASSUME BasicInv, NEW p \in Hosts, todo[p] # <<>>, EnsureShape(todo[p]),
           todo[p][1][1] \in {"create", "set"}
    PROVE  ~ WillCheck(p)
<1>1. todo[p][Len(todo[p])][1] = "set" /\ 1 \in 1..Len(todo[p])
  BY FirstOp DEF EnsureShape, EnsureAt
<1>2. \A i \in 1..Len(todo[p]) : todo[p][i][1] \in {"sentinel?", "server?"} => Len(todo[p]) = i
  BY DEF EnsureShape, EnsureAt
<1> QED BY <1>1, <1>2 DEF WillCheck

\* The values and the names of the keys are told apart.
LEMMA Names ==
    /\ Sentinel \notin ClassKeys /\ Package \notin ClassKeys /\ Package # Sentinel
    /\ Server \notin Handlers /\ ClassKeys = Handlers \cup {Server}
    /\ ClassKeys \cup {Sentinel, Package} = Keys
    /\ \A p \in Hosts : \A k \in Keys :
         Val(p, k) # "absent" /\ Val(p, k) # "empty" /\ (k \in Handlers \cup {Sentinel} => Val(p, k) = "set")
    /\ \A p \in Hosts : Val(p, Server) = Home[p] /\ Home[p] \in Folders
  BY Absents DEF ClassKeys, Handlers, Server, Sentinel, Package, Keys, Val

\* Nothing is lost of what comes after the two that are passed over.
LEMMA KeptSecond ==
    ASSUME BasicInv, NEW p \in Hosts, todo[p] # <<>>, todo[p][1][1] \in {"test", "version?"},
           NEW t, t = SubSeq(todo[p], 3, Len(todo[p]))
    PROVE  /\ \A i \in 1..Len(todo[p]) : i \in {1, 2} \/ (i - 2 \in 1..Len(t) /\ t[i - 2] = todo[p][i])
           /\ \A i \in 1..Len(t) : i + 2 \in 1..Len(todo[p]) /\ t[i] = todo[p][i + 2]
<1> DEFINE s == todo[p]
<1>1. Suffix(t, s, 2)
  BY SecondPlan
<1>2. Len(s) \in Nat /\ Len(t) \in Nat /\ Len(s) = Len(t) + 2
  BY <1>1, Left
<1>3. \A i \in 1..Len(s) : i > 2 => i - 2 \in 1..Len(t) /\ t[i - 2] = s[i]
  BY <1>1, Left
<1>4. \A i \in 1..Len(s) : i \in {1, 2} \/ i > 2
  BY <1>2
<1>5. \A i \in 1..Len(t) : i + 2 \in 1..Len(s) /\ t[i] = s[i + 2]
  BY <1>1, Left
<1> QED BY <1>3, <1>4, <1>5

\* A program that ensures does what it takes off its list, or finds it done.
LEMMA EnsuresOn ==
    ASSUME BasicInv, NEW p \in Hosts, todo[p] # <<>>, Ensures(p), NEW k \in Keys,
           GoesOnWith(p, k), ~ (AskServer(p) /\ todo'[p] = <<>>)
    PROVE  Ensures(p)'
<1>1. program' = program
  BY DEF GoesOnWith, AskSentinel, AskServer, Look, Bring, Create, Set, Drop, Clear, Put, GoOn
<1> SUFFICES ASSUME Sort(program[p]) = "ensures"
             PROVE  /\ ~ WillCheck(p)' => \A c \in ClassKeys : reg'[c] = Val(p, c) \/ WillSet(p, c)'
                    /\ Has(todo'[p], "server?", Server) => reg'[Sentinel] = "set"
                    /\ program[p] = "enable" => Supplied(p)' \/ Has(todo'[p], "deploy", Package)
  BY <1>1 DEF Ensures
<1>2. EnsureShape(todo[p]) /\ EnsureAt(todo[p], 1) /\ 1 \in 1..Len(todo[p])
  BY WhoDoes, FirstOp
<1>3. todo \in [Hosts -> Seq(Op)] /\ reg \in [Keys -> {"absent", "empty", "set"} \cup Folders]
      /\ held \in [Hosts -> SUBSET Keys]
  BY DEF BasicInv, PlanInv, RegistrationTypesOK
<1>4. /\ ~ WillCheck(p) => \A c \in ClassKeys : reg[c] = Val(p, c) \/ WillSet(p, c)
      /\ Has(todo[p], "server?", Server) => reg[Sentinel] = "set"
      /\ program[p] = "enable" => Supplied(p) \/ Has(todo[p], "deploy", Package)
  BY DEF Ensures
<1>13. reg' = reg => Supplied(p)' = Supplied(p)
  BY DEF Supplied, SameVersion
\* It starts to write.
<1>5. ASSUME NEW t, todo' = [todo EXCEPT ![p] = t], reg' = reg, Len(todo[p]) = 1,
             todo[p][1][1] \in {"sentinel?", "server?"},
             \A c \in ClassKeys : \E i \in 2..Len(t) : Is(t[i], "set", c),
             \A i \in 1..Len(t) : t[i][1] \in {"create", "set"}, Len(t) \in Nat
      PROVE  /\ \A c \in ClassKeys : WillSet(p, c)'
             /\ ~ Has(todo'[p], "server?", Server)
             /\ program[p] = "enable" => Supplied(p)'
  <2>1. todo'[p] = t
    BY <1>3, <1>5
  <2>2. \A c \in ClassKeys : WillSet(p, c)'
    BY <1>5, <2>1 DEF WillSet
  <2>3. ~ Has(t, "server?", Server)
    BY <1>5 DEF Has, Is
  <2>4. ~ Has(todo[p], "deploy", Package)
    BY <1>5 DEF Has, Is
  <2> QED BY <1>4, <1>5, <1>13, <2>1, <2>2, <2>3, <2>4
<1>6. CASE AskSentinel(p)
  <2>1. Len(todo[p]) = 1 /\ todo[p][1][1] = "sentinel?" /\ ~ Has(todo[p], "deploy", Package)
    BY <1>2, <1>6 DEF AskSentinel, EnsureAt, Is, Has
  <2>2. CASE reg[Sentinel] = "set"
    <3>1. todo'[p] = <<<<"server?", Server>>>> /\ reg' = reg
      BY <1>3, <1>6, <2>2 DEF AskSentinel, GoOn
    <3>2. WillCheck(p)'
      BY <3>1 DEF WillCheck
    <3> QED BY <1>4, <1>13, <2>1, <2>2, <3>1, <3>2
  <2>3. CASE reg[Sentinel] # "set"
    <3> DEFINE t == FirstTime(Home[p])
    <3>1. todo' = [todo EXCEPT ![p] = t] /\ reg' = reg
      BY <1>6, <2>3 DEF AskSentinel, GoOn
    <3>2. /\ \A c \in ClassKeys : \E i \in 2..Len(t) : Is(t[i], "set", c)
          /\ \A i \in 1..Len(t) : t[i][1] \in {"create", "set"}
          /\ Len(t) \in Nat
      <4>1. Sort(program[p]) = "ensures"
        OBVIOUS
      <4>2. /\ \A c \in ClassKeys : \E i \in 2..Len(t) : Is(t[i], "set", c)
            /\ \A i \in 1..Len(t) : t[i][1] \in {"create", "set"}
            /\ Len(t) = 8
        BY <4>1, FirstTimePlan, Zenon
      <4> QED BY <4>2
    <3> HIDE DEF t
    <3>3. /\ \A c \in ClassKeys : WillSet(p, c)'
          /\ ~ Has(todo'[p], "server?", Server)
          /\ program[p] = "enable" => Supplied(p)'
      BY <1>5, <2>1, <3>1, <3>2
    <3> QED BY <3>3
  <2> QED BY <2>2, <2>3
<1>7. CASE AskServer(p)
  <2>1. Len(todo[p]) = 1 /\ todo[p][1][1] = "server?"
    BY <1>2, <1>7 DEF AskServer, EnsureAt, Is
  <2> DEFINE t == Repair(Home[p])
  <2>2. todo' = [todo EXCEPT ![p] = t] /\ reg' = reg
    BY <1>3, <1>7 DEF AskServer, GoOn
  <2>3. /\ \A c \in ClassKeys : \E i \in 2..Len(t) : Is(t[i], "set", c)
        /\ \A i \in 1..Len(t) : t[i][1] \in {"create", "set"}
        /\ Len(t) \in Nat
    BY RepairPlan
  <2> HIDE DEF t
  <2>4. /\ \A c \in ClassKeys : WillSet(p, c)'
        /\ ~ Has(todo'[p], "server?", Server)
        /\ program[p] = "enable" => Supplied(p)'
    BY <1>5, <2>1, <2>2, <2>3
  <2> QED BY <2>4
<1>8. CASE Look(p, k)
  <2>1. todo[p][1][1] = "version?" /\ reg' = reg
    BY <1>2, <1>8 DEF Look, EnsureAt, Is
  <2>2. Len(todo[p]) = 3 /\ todo[p][3][1] = "sentinel?"
    BY <1>2, <2>1 DEF EnsureAt
  <2>3. CASE todo' = [todo EXCEPT ![p] = Tail(todo[p])]
    <3>1. todo'[p] = Tail(todo[p])
      BY <1>3, <2>3
    <3>2. WillCheck(p)'
      <4>1. 3 \in 2..Len(todo[p])
        BY <2>2
      <4>2. 3 - 1 \in 1..Len(todo'[p]) /\ todo'[p][3 - 1] = todo[p][3]
        BY <3>1, <4>1, Kept
      <4> QED BY <2>2, <4>2 DEF WillCheck
    <3>3. /\ Has(todo'[p], "server?", Server) => Has(todo[p], "server?", Server)
          /\ Has(todo[p], "deploy", Package) => Has(todo'[p], "deploy", Package)
      BY <2>1, <3>1, Kept DEF Is
    <3> QED BY <1>4, <1>13, <2>1, <3>2, <3>3
  <2>4. CASE todo' = [todo EXCEPT ![p] = SubSeq(todo[p], 3, Len(todo[p]))] /\ Supplied(p)
    <3>1. todo'[p] = SubSeq(todo[p], 3, Len(todo[p]))
      BY <1>3, <2>4
    <3>2. WillCheck(p)'
      <4>1. 3 \in 1..Len(todo[p])
        BY <2>2
      <4>2. 3 - 2 \in 1..Len(todo'[p]) /\ todo'[p][3 - 2] = todo[p][3]
        BY <2>1, <3>1, <4>1, KeptSecond
      <4> QED BY <2>2, <4>2 DEF WillCheck
    <3>3. Has(todo'[p], "server?", Server) => Has(todo[p], "server?", Server)
      BY <2>1, <3>1, KeptSecond DEF Has
    <3> QED BY <1>4, <1>13, <2>1, <2>4, <3>2, <3>3
  <2> QED BY <1>8, <2>1, <2>3, <2>4 DEF Look, GoOn, Is
<1>9. CASE Bring(p)
  <2>1. todo[p][1][1] = "deploy" /\ todo' = [todo EXCEPT ![p] = Tail(todo[p])]
        /\ \/ reg' = [reg EXCEPT ![Package] = Home[p]]
           \/ reg' = reg /\ Home[p] \notin Msix
    BY <1>2, <1>9 DEF Bring, EnsureAt, GoOn
  <2>2. todo'[p] = Tail(todo[p])
    BY <1>3, <2>1
  <2>3. (reg'[Package] = Home[p] \/ Home[p] \notin Msix) /\ reg'[Sentinel] = reg[Sentinel]
    BY <1>3, <2>1, Names
  <2>6. Supplied(p)'
    BY <2>3, RegistrationAssumption DEF Supplied, SameVersion
  <2>4. WillCheck(p)'
    <3>1. Len(todo[p]) = 2 /\ todo[p][2][1] = "sentinel?"
      BY <1>2, <2>1 DEF EnsureAt
    <3>2. 2 - 1 \in 1..Len(todo'[p]) /\ todo'[p][2 - 1] = todo[p][2]
      BY <2>2, <3>1, Kept
    <3> QED BY <3>1, <3>2 DEF WillCheck
  <2>5. Has(todo'[p], "server?", Server) => Has(todo[p], "server?", Server)
    BY <2>2, Kept
  <2> QED BY <1>4, <2>3, <2>4, <2>5, <2>6
<1>10. CASE Create(p, k)
  <2>1. /\ Is(todo[p][1], "create", k) /\ k \in ClassKeys \cup {Sentinel}
        /\ todo' = [todo EXCEPT ![p] = Tail(todo[p])] /\ held'[p] = {k}
        /\ reg' = IF reg[k] = "absent" THEN [reg EXCEPT ![k] = "empty"] ELSE reg
    BY <1>3, <1>10 DEF Create, GoOn
  <2>2. todo'[p] = Tail(todo[p])
    BY <1>3, <2>1
  <2>3. ~ WillCheck(p)
    BY <1>2, <2>1, AsksNoMore DEF Is
  <2>4. ~ Has(todo'[p], "server?", Server)
    BY <2>2, <2>3, Kept DEF WillCheck, Has, Is
  <2>5. ASSUME NEW c \in ClassKeys
        PROVE  reg'[c] = Val(p, c) \/ WillSet(p, c)'
    <3>1. reg[c] = Val(p, c) => reg'[c] = Val(p, c)
      BY <1>3, <2>1, Names
    <3>2. ASSUME WillSet(p, c) PROVE WillSet(p, c)'
      <4>1. PICK i \in 2..Len(todo[p]) : Is(todo[p][i], "set", c)
        BY <2>1, <3>2, Kept DEF WillSet, Is
      <4>2. i = 2 => c = k
        BY <1>2, <2>1, <4>1 DEF EnsureAt, Is
      <4> QED BY <1>2, <2>1, <4>1, <4>2, SetsLater
    <3> QED BY <1>4, <2>3, <3>1, <3>2
  <2>6. Supplied(p)' = Supplied(p)
    <3>1. reg'[Package] = reg[Package]
      BY <1>3, <2>1, Names
    <3> QED BY <3>1 DEF Supplied, SameVersion
  <2>7. Has(todo[p], "deploy", Package) => Has(todo'[p], "deploy", Package)
    BY <2>1, <2>2, Kept DEF Is
  <2> QED BY <1>4, <2>4, <2>5, <2>6, <2>7
<1>11. CASE Set(p, k)
  <2>1. /\ Is(todo[p][1], "set", k) /\ k \in ClassKeys \cup {Sentinel}
        /\ todo' = [todo EXCEPT ![p] = Tail(todo[p])]
        /\ reg' = IF k \in held[p] THEN [reg EXCEPT ![k] = Val(p, k)] ELSE reg
    BY <1>3, <1>11 DEF Set, GoOn
  <2>2. todo'[p] = Tail(todo[p])
    BY <1>3, <2>1
  <2>3. ~ WillCheck(p)
    BY <1>2, <2>1, AsksNoMore DEF Is
  <2>4. ~ Has(todo'[p], "server?", Server)
    BY <2>2, <2>3, Kept DEF WillCheck, Has, Is
  <2>5. ASSUME NEW c \in ClassKeys
        PROVE  reg'[c] = Val(p, c) \/ WillSet(p, c)'
    <3>1. reg[c] = Val(p, c) => reg'[c] = Val(p, c)
      BY <1>3, <2>1, Names
    <3>2. ASSUME WillSet(p, c) PROVE reg'[c] = Val(p, c) \/ WillSet(p, c)'
      <4>1. CASE Is(todo[p][1], "set", c) /\ c \in held[p]
        BY <1>3, <2>1, <4>1, Names DEF Is
      <4>2. CASE \E i \in 2..Len(todo[p]) : Is(todo[p][i], "set", c)
        <5>1. PICK i \in 2..Len(todo[p]) : Is(todo[p][i], "set", c)
          BY <4>2
        <5> QED BY <1>2, <2>1, <5>1, SetsLater DEF Is
      <4> QED BY <3>2, <4>1, <4>2, Kept DEF WillSet
    <3> QED BY <1>4, <2>3, <3>1, <3>2
  <2>6. Supplied(p)' = Supplied(p)
    <3>1. reg'[Package] = reg[Package]
      BY <1>3, <2>1, Names
    <3> QED BY <3>1 DEF Supplied, SameVersion
  <2>7. Has(todo[p], "deploy", Package) => Has(todo'[p], "deploy", Package)
    BY <2>1, <2>2, Kept DEF Is
  <2> QED BY <1>4, <2>4, <2>5, <2>6, <2>7
<1>12. ~ Drop(p, k) /\ ~ Clear(p) /\ ~ Put(p, k)
  BY <1>2 DEF EnsureAt, Drop, Drops, Clear, Put, Is
<1> QED BY <1>6, <1>7, <1>8, <1>9, <1>10, <1>11, <1>12 DEF GoesOnWith

\* So does one that removes ...
LEMMA RemovesOn ==
    ASSUME BasicInv, NEW p \in Hosts, todo[p] # <<>>, Removes(p), NEW k \in Keys, GoesOnWith(p, k)
    PROVE  Removes(p)'
<1>1. program' = program
  BY DEF GoesOnWith, AskSentinel, AskServer, Look, Bring, Create, Set, Drop, Clear, Put, GoOn
<1> SUFFICES ASSUME Sort(program[p]) = "removes"
             PROVE  /\ \A c \in ClassKeys : reg'[c] = "absent" \/ WillDrop(p, c)'
                    /\ reg'[Sentinel] # "set" \/ Has(todo'[p], "clear", Sentinel)
                    /\ program[p] = "unregister.ps1" => reg'[Package] = "absent" \/ WillDrop(p, Package)'
  BY <1>1 DEF Removes
<1>2. RemoveShape(todo[p]) /\ RemoveAt(todo[p], 1) /\ 1 \in 1..Len(todo[p])
  BY WhoDoes, FirstOp
<1>3. todo \in [Hosts -> Seq(Op)] /\ reg \in [Keys -> {"absent", "empty", "set"} \cup Folders]
  BY DEF BasicInv, PlanInv, RegistrationTypesOK
<1>4. /\ \A c \in ClassKeys : reg[c] = "absent" \/ WillDrop(p, c)
      /\ reg[Sentinel] # "set" \/ Has(todo[p], "clear", Sentinel)
      /\ program[p] = "unregister.ps1" => reg[Package] = "absent" \/ WillDrop(p, Package)
  BY DEF Removes
\* What is to be dropped, or cleared, still is unless it comes first.
<1>5. ASSUME todo' = [todo EXCEPT ![p] = Tail(todo[p])]
      PROVE  /\ \A c : WillDrop(p, c) => Drops(todo[p][1], c) \/ WillDrop(p, c)'
             /\ Has(todo[p], "clear", Sentinel) => Is(todo[p][1], "clear", Sentinel) \/ Has(todo'[p], "clear", Sentinel)
  <2>1. todo'[p] = Tail(todo[p])
    BY <1>3, <1>5
  <2> QED BY <2>1, Kept DEF WillDrop
<1>6. CASE Look(p, k)
  <2>1. todo[p][1][1] = "test" /\ reg' = reg
    BY <1>2, <1>6 DEF Look, RemoveAt, Is
  <2>2. CASE todo' = [todo EXCEPT ![p] = Tail(todo[p])]
    BY <1>4, <1>5, <2>1, <2>2 DEF Drops, Is
  <2>3. CASE todo' = [todo EXCEPT ![p] = SubSeq(todo[p], 3, Len(todo[p]))] /\ Is(todo[p][1], "test", k) /\ reg[k] = "absent"
    <3> DEFINE t == SubSeq(todo[p], 3, Len(todo[p]))
    <3>1. todo'[p] = t
      BY <1>3, <2>3
    <3>2. Is(todo[p][2], "remove", k)
      BY <1>2, <2>3 DEF RemoveAt, Is
    <3>3. \A i \in 1..Len(todo[p]) : i \in {1, 2} \/ (i - 2 \in 1..Len(t) /\ t[i - 2] = todo[p][i])
      BY <2>1, KeptSecond
    <3> HIDE DEF t
    <3>4. \A c : WillDrop(p, c) => c = k \/ WillDrop(p, c)'
      BY <2>1, <3>1, <3>2, <3>3 DEF WillDrop, Drops, Is
    <3>5. Has(todo[p], "clear", Sentinel) => Has(t, "clear", Sentinel)
      BY <2>1, <3>2, <3>3 DEF Has, Is
    <3> QED BY <1>4, <2>1, <2>3, <3>1, <3>4, <3>5
  <2> QED BY <1>6, <2>1, <2>2, <2>3 DEF Look, GoOn, Is
<1>7. CASE Drop(p, k)
  <2>1. Drops(todo[p][1], k) /\ todo' = [todo EXCEPT ![p] = Tail(todo[p])]
        /\ reg' = [reg EXCEPT ![k] = "absent"]
    BY <1>7 DEF Drop, GoOn
  <2>2. reg'[k] = "absent" /\ \A c \in Keys : reg'[c] = reg[c] \/ reg'[c] = "absent"
    BY <1>3, <2>1
  <2>3. \A c \in ClassKeys \cup {Package} : reg[c] = "absent" \/ WillDrop(p, c)
                                               => reg'[c] = "absent" \/ WillDrop(p, c)'
    BY <1>5, <2>1, <2>2, Names DEF Drops
  <2>4. reg'[Sentinel] # "set" \/ Has(todo'[p], "clear", Sentinel)
    BY <1>4, <1>5, <2>1, <2>2, Names DEF Drops, Is
  <2> QED BY <1>4, <2>3, <2>4
<1>8. CASE Clear(p)
  <2>1. Is(todo[p][1], "clear", Sentinel) /\ todo' = [todo EXCEPT ![p] = Tail(todo[p])]
        /\ reg' = IF reg[Sentinel] = "set" THEN [reg EXCEPT ![Sentinel] = "empty"] ELSE reg
    BY <1>8 DEF Clear, GoOn
  <2>2. reg'[Sentinel] # "set" /\ \A c \in ClassKeys \cup {Package} : reg'[c] = reg[c]
    BY <1>3, <2>1, Names
  <2>3. \A c : WillDrop(p, c) => WillDrop(p, c)'
    BY <1>5, <2>1 DEF Drops, Is
  <2> QED BY <1>4, <2>2, <2>3
<1>9. /\ ~ AskSentinel(p) /\ ~ AskServer(p) /\ ~ Bring(p) /\ ~ Create(p, k) /\ ~ Set(p, k) /\ ~ Put(p, k)
  BY <1>2 DEF RemoveAt, AskSentinel, AskServer, Bring, Create, Set, Put, Is
<1> QED BY <1>6, <1>7, <1>8, <1>9 DEF GoesOnWith

\* ... and register.ps1.
LEMMA RenewsOn ==
    ASSUME BasicInv, NEW p \in Hosts, todo[p] # <<>>, Renews(p), NEW k \in Keys, GoesOnWith(p, k)
    PROVE  Renews(p)'
<1>1. program' = program
  BY DEF GoesOnWith, AskSentinel, AskServer, Look, Bring, Create, Set, Drop, Clear, Put, GoOn
<1> SUFFICES ASSUME Sort(program[p]) = "register.ps1", NEW c \in ClassKeys
             PROVE  reg'[c] = Val(p, c) \/ WillPut(p, c)'
  BY <1>1 DEF Renews
<1>2. ScriptShape(todo[p]) /\ ScriptAt(todo[p], 1) /\ 1 \in 1..Len(todo[p])
  BY WhoDoes, FirstOp
<1>3. todo \in [Hosts -> Seq(Op)] /\ reg \in [Keys -> {"absent", "empty", "set"} \cup Folders]
  BY DEF BasicInv, PlanInv, RegistrationTypesOK
<1>4. reg[c] = Val(p, c) \/ WillPut(p, c)
  BY DEF Renews
<1>5. ASSUME todo' = [todo EXCEPT ![p] = Tail(todo[p])]
      PROVE  /\ WillPut(p, c) => Is(todo[p][1], "put", c) \/ WillPut(p, c)'
             /\ (\E j \in (1 + 1)..Len(todo[p]) : Is(todo[p][j], "put", c)) => WillPut(p, c)'
  <2>1. todo'[p] = Tail(todo[p])
    BY <1>3, <1>5
  <2>2. WillPut(p, c) => Is(todo[p][1], "put", c) \/ WillPut(p, c)'
    BY <2>1, Kept DEF WillPut
  <2>3. ASSUME NEW j \in 2..Len(todo[p]), Is(todo[p][j], "put", c) PROVE WillPut(p, c)'
    <3>1. j - 1 \in 1..Len(todo'[p]) /\ todo'[p][j - 1] = todo[p][j]
      BY <2>1, Kept
    <3> QED BY <2>3, <3>1 DEF WillPut, Has
  <2> QED BY <2>2, <2>3
<1>6. CASE Look(p, k)
  <2>1. todo[p][1][1] = "package?" /\ reg' = reg
    BY <1>2, <1>6 DEF Look, ScriptAt, Is
  <2>2. CASE todo' = [todo EXCEPT ![p] = Tail(todo[p])]
    BY <1>4, <1>5, <2>1, <2>2 DEF Is
  <2>3. CASE todo' = [todo EXCEPT ![p] = <<>>]
    <3>1. \A j \in (1 + 1)..Len(todo[p]) : todo[p][j][1] = "add"
      BY <1>2, <2>1 DEF ScriptAt
    <3>2. ~ WillPut(p, c)
      BY <2>1, <3>1, Kept DEF WillPut, Has, Is
    <3> QED BY <1>4, <2>1, <3>2
  <2> QED BY <1>6, <2>1, <2>2, <2>3 DEF Look, GoOn, Is
<1>7. CASE Bring(p)
  <2>1. todo[p][1][1] = "add" /\ todo' = [todo EXCEPT ![p] = Tail(todo[p])] /\ reg'[c] = reg[c]
    BY <1>2, <1>3, <1>7, Names DEF Bring, GoOn, ScriptAt
  <2> QED BY <1>4, <1>5, <2>1 DEF Is
<1>8. CASE Create(p, k)
  <2>1. Is(todo[p][1], "create", k) /\ todo' = [todo EXCEPT ![p] = Tail(todo[p])]
    BY <1>8 DEF Create, GoOn
  <2>2. reg[c] = Val(p, c) => reg'[c] = Val(p, c)
    BY <1>3, <1>8, Names DEF Create
  <2> QED BY <1>4, <1>5, <2>1, <2>2 DEF Is
<1>9. CASE Drop(p, k)
  <2>1. Drops(todo[p][1], k) /\ todo' = [todo EXCEPT ![p] = Tail(todo[p])]
        /\ reg' = [reg EXCEPT ![k] = "absent"]
    BY <1>9 DEF Drop, GoOn
  <2>2. c = k => WillPut(p, c)'
    BY <1>2, <1>5, <2>1 DEF ScriptAt, Drops
  <2>3. c # k => reg'[c] = reg[c]
    BY <1>3, <2>1, Names
  <2> QED BY <1>4, <1>5, <2>1, <2>2, <2>3 DEF Is, Drops
<1>10. CASE Put(p, k)
  <2>1. Is(todo[p][1], "put", k) /\ todo' = [todo EXCEPT ![p] = Tail(todo[p])]
        /\ reg' = [reg EXCEPT ![k] = Val(p, k)]
    BY <1>10 DEF Put, GoOn
  <2>2. c = k => reg'[c] = Val(p, c)
    BY <1>3, <2>1
  <2>3. c # k => reg'[c] = reg[c]
    BY <1>3, <2>1, Names
  <2> QED BY <1>4, <1>5, <2>1, <2>2, <2>3 DEF Is
<1>11. /\ ~ AskSentinel(p) /\ ~ AskServer(p) /\ ~ Set(p, k) /\ ~ Clear(p)
  BY <1>2 DEF ScriptAt, AskSentinel, AskServer, Set, Clear, Is
<1> QED BY <1>6, <1>7, <1>8, <1>9, <1>10, <1>11 DEF GoesOnWith

\* What a program is to do when it starts.
LEMMA DoneAtFirst ==
    ASSUME BasicInv, NEW p \in Hosts, NEW prog \in Programs, StartProgram(p, prog)
    PROVE  DoneFor(p)'
<1>1. todo \in [Hosts -> Seq(Op)] /\ program'[p] = prog /\ todo' = [todo EXCEPT ![p] = Operations(p, prog)]
  BY DEF BasicInv, PlanInv, StartProgram
<1>2. todo'[p] = Operations(p, prog)
  BY <1>1
<1>3. CASE prog \in {"EnsureRegistered", "enable"}
  <2>1. Sort(prog) = "ensures"
    BY <1>3 DEF Sort
  <2>2. CASE prog = "EnsureRegistered"
    <3>1. todo'[p] = <<<<"sentinel?", Sentinel>>>>
      BY <1>2, <2>2 DEF Operations
    <3>2. WillCheck(p)' /\ ~ Has(todo'[p], "server?", Server)
      BY <3>1 DEF WillCheck, Has, Is
    <3> QED BY <1>1, <2>1, <2>2, <3>2 DEF DoneFor, Ensures, Removes, Renews
  <2>3. CASE prog = "enable"
    <3>1. todo'[p] = <<<<"version?", Package>>, <<"deploy", Package, Home[p]>>, <<"sentinel?", Sentinel>>>>
      BY <1>2, <2>3 DEF Operations, Enable
    <3>2. WillCheck(p)' /\ ~ Has(todo'[p], "server?", Server) /\ Has(todo'[p], "deploy", Package)
      BY <3>1 DEF WillCheck, Has, Is
    <3> QED BY <1>1, <2>1, <3>2 DEF DoneFor, Ensures, Removes, Renews
  <2> QED BY <1>3, <2>2, <2>3
<1>4. CASE prog = "Unregister"
  <2>1. Sort(prog) = "removes"
    BY <1>4 DEF Sort
  <2>2. todo'[p] = Unregister
    BY <1>2, <1>4 DEF Operations
  <2>3. (\A c \in ClassKeys : WillDrop(p, c)') /\ Has(todo'[p], "clear", Sentinel)
    BY <2>1, <2>2, UnregisterPlan DEF WillDrop
  <2> QED BY <1>1, <1>4, <2>1, <2>3 DEF DoneFor, Ensures, Removes, Renews
<1>5. CASE prog = "unregister.ps1"
  <2>1. Sort(prog) = "removes"
    BY <1>5 DEF Sort
  <2>2. todo'[p] = UnregisterScript
    BY <1>2, <1>5 DEF Operations
  <2>3. (\A c \in ClassKeys \cup {Package} : WillDrop(p, c)') /\ Has(todo'[p], "clear", Sentinel)
    BY <2>1, <2>2, UnregisterScriptPlan DEF WillDrop
  <2> QED BY <1>1, <2>1, <2>3 DEF DoneFor, Ensures, Removes, Renews
<1>6. CASE prog = "register.ps1"
  <2>1. Sort(prog) = "register.ps1"
    BY <1>6 DEF Sort
  <2>2. todo'[p] = RegisterScript(Home[p])
    BY <1>2, <1>6 DEF Operations
  <2>3. \A c \in ClassKeys : WillPut(p, c)'
    BY <2>1, <2>2, RegisterScriptPlan DEF WillPut
  <2> QED BY <1>1, <2>1, <2>3 DEF DoneFor, Ensures, Removes, Renews
<1> QED BY <1>3, <1>4, <1>5, <1>6 DEF Programs, Modules

-----------------------------------------------------------------------------
(* What is promised however the programs overlap.                           *)

Promises(p, h) == WillSet(p, h) \/ WillPut(p, h) \/ WillDrop(p, Server)

\* A step of p takes nothing from the others but a key it drops.
LEMMA OthersPromise ==
    ASSUME BasicInv, NEW p \in Hosts, NEW rest, todo' = [todo EXCEPT ![p] = rest],
           NEW h \in Handlers, NEW q \in Hosts \ {p}, Promises(q, h),
           h \in held[q] => h \in held'[q]
    PROVE  Promises(q, h)'
<1>1. todo'[q] = todo[q]
  BY DEF BasicInv, PlanInv
<1> QED BY <1>1 DEF Promises, WillSet, WillPut, WillDrop, Has

\* It keeps its own, but for the one it comes to.
LEMMA OwnPromise ==
    ASSUME BasicInv, NEW p \in Hosts, todo[p] # <<>>, todo' = [todo EXCEPT ![p] = Tail(todo[p])],
           NEW h \in Handlers, Promises(p, h), todo[p][1][1] = "create" => held'[p] = {todo[p][1][2]}
    PROVE  \/ Promises(p, h)'
           \/ Is(todo[p][1], "set", h) /\ h \in held[p]
           \/ Is(todo[p][1], "put", h) \/ Drops(todo[p][1], Server)
<1>1. todo'[p] = Tail(todo[p])
  BY DEF BasicInv, PlanInv
<1>2. CASE WillSet(p, h)
  <2>1. CASE Is(todo[p][1], "set", h) /\ h \in held[p]
    BY <2>1
  <2>2. CASE \E i \in 2..Len(todo[p]) : Is(todo[p][i], "set", h)
    <3>1. PICK i \in 2..Len(todo[p]) : Is(todo[p][i], "set", h)
      BY <2>2
    <3>2. i \in 1..Len(todo[p]) /\ Shape(program[p], todo[p])
      BY FirstOp
    <3>3. Sort(program[p]) = "ensures"
      <4>1. Sort(program[p]) \in {"ensures", "removes", "register.ps1"}
        BY FirstOp
      <4> QED BY <3>1, <3>2, <4>1 DEF Shape, RemoveShape, RemoveAt, ScriptShape, ScriptAt, Is
    <3>4. EnsureShape(todo[p]) /\ EnsureAt(todo[p], 1)
      BY <3>3, WhoDoes
    <3>5. (i = 2 /\ todo[p][1][1] = "create") => h \in held'[p]
      BY <3>1, <3>4 DEF EnsureAt, Is
    <3>6. WillSet(p, h)'
      BY <3>1, <3>4, <3>5, SetsLater
    <3> QED BY <3>6 DEF Promises
  <2> QED BY <1>2, <2>1, <2>2, Kept DEF WillSet
<1>3. CASE WillPut(p, h)
  <2>1. Is(todo[p][1], "put", h) \/ WillPut(p, h)'
    BY <1>1, <1>3, Kept DEF WillPut
  <2> QED BY <2>1 DEF Promises
<1>4. CASE WillDrop(p, Server)
  <2>1. Drops(todo[p][1], Server) \/ WillDrop(p, Server)'
    BY <1>1, <1>4, Kept DEF WillDrop
  <2> QED BY <2>1 DEF Promises
<1> QED BY <1>2, <1>3, <1>4 DEF Promises

\* Whoever drops a handler drops the server later, and whoever writes the server later
\* the handlers, however they overlap.
LEMMA WholeOn ==
    ASSUME BasicInv, WholeInv, NEW p \in Hosts, todo[p] # <<>>, NEW k \in Keys, GoesOnWith(p, k)
    PROVE  WholeInv'
<1>1. cutShort' = cutShort /\ refused' = refused /\ program' = program
  BY DEF GoesOnWith, AskSentinel, AskServer, Look, Bring, Create, Set, Drop, Clear, Put, GoOn
<1> SUFFICES ASSUME cutShort = {}, ~ refused, NEW h \in Handlers
             PROVE  reg'[h] = "set" \/ reg'[Server] \notin Folders \/ \E q \in Hosts : Promises(q, h)'
  BY <1>1 DEF WholeInv, Promised, Promises
<1>2. reg[h] = "set" \/ reg[Server] \notin Folders \/ \E q \in Hosts : Promises(q, h)
  BY DEF WholeInv, Promised, Promises
<1>3. /\ todo \in [Hosts -> Seq(Op)] /\ reg \in [Keys -> {"absent", "empty", "set"} \cup Folders]
      /\ held \in [Hosts -> SUBSET Keys] /\ h \in Keys /\ Server \in Keys /\ h # Server
  BY Names DEF BasicInv, PlanInv, RegistrationTypesOK
<1>4. Shape(program[p], todo[p]) /\ 1 \in 1..Len(todo[p]) /\ todo[p][1][2] \in Keys
      /\ Sort(program[p]) \in {"ensures", "removes", "register.ps1"}
  BY FirstOp
<1>5. /\ Sort(program[p]) = "ensures" => EnsureShape(todo[p]) /\ EnsureAt(todo[p], 1)
      /\ Sort(program[p]) = "removes" => RemoveShape(todo[p]) /\ RemoveAt(todo[p], 1)
      /\ Sort(program[p]) = "register.ps1" => ScriptShape(todo[p]) /\ ScriptAt(todo[p], 1)
  BY WhoDoes
\* A step that leaves the two keys as they are, and comes to no promise.
<1>6. ASSUME todo' = [todo EXCEPT ![p] = Tail(todo[p])],
             todo[p][1][1] = "create" => held'[p] = {todo[p][1][2]},
             \A q \in Hosts \ {p} : h \in held[q] => h \in held'[q],
             reg[h] = "set" => reg'[h] = "set", reg[Server] \notin Folders => reg'[Server] \notin Folders,
             Is(todo[p][1], "set", h) /\ h \in held[p] => reg'[h] = "set",
             Is(todo[p][1], "put", h) => reg'[h] = "set",
             Drops(todo[p][1], Server) => reg'[Server] \notin Folders
      PROVE  reg'[h] = "set" \/ reg'[Server] \notin Folders \/ \E q \in Hosts : Promises(q, h)'
  <2>1. ASSUME NEW q \in Hosts, Promises(q, h)
        PROVE  reg'[h] = "set" \/ reg'[Server] \notin Folders \/ Promises(q, h)'
    <3>1. CASE q = p
      BY <1>6, <2>1, <3>1, OwnPromise
    <3>2. CASE q # p
      BY <1>6, <2>1, <3>2, OthersPromise
    <3> QED BY <3>1, <3>2
  <2> QED BY <1>2, <1>6, <2>1
\* A step of a program that promises nothing.
<1>7. ASSUME NEW rest, todo' = [todo EXCEPT ![p] = rest], held' = held, reg' = reg, ~ Promises(p, h)
      PROVE  reg'[h] = "set" \/ reg'[Server] \notin Folders \/ \E q \in Hosts : Promises(q, h)'
  <2>1. ASSUME NEW q \in Hosts, Promises(q, h) PROVE Promises(q, h)'
    BY <1>7, <2>1, OthersPromise
  <2> QED BY <1>2, <1>7, <2>1
<1>8. CASE AskSentinel(p) \/ AskServer(p)
  <2>1. todo[p][1][1] \in {"sentinel?", "server?"} /\ reg' = reg /\ held' = held
    BY <1>8 DEF AskSentinel, AskServer, Is
  <2>2. Len(todo[p]) = 1
    BY <1>5, <2>1, WhoDoes DEF EnsureAt
  <2>3. \A i \in 1..Len(todo[p]) : i = 1
    BY <2>2
  <2>4. ~ Promises(p, h)
    BY <2>1, <2>3 DEF Promises, WillSet, WillPut, WillDrop, Has, Is, Drops
  <2>5. \E rest : todo' = [todo EXCEPT ![p] = rest]
    BY <1>8 DEF AskSentinel, AskServer, GoOn
  <2> QED BY <1>7, <2>1, <2>4, <2>5
<1>9. CASE Look(p, k)
  <2>1. reg' = reg /\ held' = held /\ todo[p][1][1] \in {"version?", "package?", "test"}
    BY <1>9 DEF Look, Is
  <2>2. CASE todo' = [todo EXCEPT ![p] = Tail(todo[p])]
    BY <1>2, <1>6, <2>1, <2>2 DEF Is, Drops
  <2>3. CASE todo' = [todo EXCEPT ![p] = SubSeq(todo[p], 3, Len(todo[p]))] /\ todo[p][1][1] = "version?"
    <3>1. Len(todo[p]) = 1 + 2 /\ todo[p][2][1] = "deploy" /\ todo[p][3][1] = "sentinel?"
      BY <1>5, <2>3, WhoDoes DEF EnsureAt
    <3>2. \A i \in 1..Len(todo[p]) : i \in {1, 2, 3}
      BY <3>1
    <3>3. ~ Promises(p, h)
      BY <2>3, <3>1, <3>2 DEF Promises, WillSet, WillPut, WillDrop, Has, Is, Drops
    <3> QED BY <1>7, <2>1, <2>3, <3>3
  <2>4. CASE todo' = [todo EXCEPT ![p] = SubSeq(todo[p], 3, Len(todo[p]))]
             /\ Is(todo[p][1], "test", k) /\ reg[k] = "absent"
    <3> DEFINE t == SubSeq(todo[p], 3, Len(todo[p]))
    <3>1. RemoveShape(todo[p]) /\ Is(todo[p][2], "remove", k)
      BY <1>5, <2>4, WhoDoes DEF RemoveAt, Is
    <3>2. todo'[p] = t /\ \A i \in 1..Len(todo[p]) : i \in {1, 2} \/ (i - 2 \in 1..Len(t) /\ t[i - 2] = todo[p][i])
      BY <1>3, <2>4, KeptSecond DEF Is
    <3> HIDE DEF t
    <3>3. ~ WillSet(p, h) /\ ~ WillPut(p, h)
      BY <3>1 DEF RemoveShape, RemoveAt, WillSet, WillPut, Has, Is
    <3>4. WillDrop(p, Server) => k = Server \/ WillDrop(p, Server)'
      BY <2>4, <3>1, <3>2 DEF WillDrop, Drops, Is
    <3>5. ASSUME NEW q \in Hosts, Promises(q, h) PROVE reg'[Server] \notin Folders \/ Promises(q, h)'
      <4>1. CASE q = p
        BY <2>1, <2>4, <3>3, <3>4, <3>5, <4>1, Absents DEF Promises
      <4>2. CASE q # p
        BY <2>1, <2>4, <3>5, <4>2, OthersPromise
      <4> QED BY <4>1, <4>2
    <3> QED BY <1>2, <2>1, <3>5
  <2>5. CASE todo' = [todo EXCEPT ![p] = <<>>] /\ todo[p][1][1] = "package?"
    <3>1. \A j \in (1 + 1)..Len(todo[p]) : todo[p][j][1] = "add"
      BY <1>5, <2>5, WhoDoes DEF ScriptAt
    <3>2. \A i \in 1..Len(todo[p]) : todo[p][i][1] \in {"package?", "add"}
      BY <2>5, <3>1, Kept
    <3>3. ~ Promises(p, h)
      BY <3>2 DEF Promises, WillSet, WillPut, WillDrop, Has, Is, Drops
    <3> QED BY <1>7, <2>1, <2>5, <3>3
  <2> QED BY <1>9, <2>1, <2>2, <2>3, <2>4, <2>5 DEF Look, GoOn, Is
<1>10. CASE Bring(p)
  <2>1. todo[p][1][1] \in {"deploy", "add"} /\ todo' = [todo EXCEPT ![p] = Tail(todo[p])]
        /\ held' = held /\ reg'[h] = reg[h] /\ reg'[Server] = reg[Server]
    BY <1>3, <1>10, Names DEF Bring, GoOn
  <2> QED BY <1>6, <2>1 DEF Is, Drops
<1>11. CASE Create(p, k)
  <2>1. /\ Is(todo[p][1], "create", k) /\ todo' = [todo EXCEPT ![p] = Tail(todo[p])]
        /\ held' = [held EXCEPT ![p] = {k}]
        /\ reg' = IF reg[k] = "absent" THEN [reg EXCEPT ![k] = "empty"] ELSE reg
    BY <1>11 DEF Create, GoOn
  <2>2. held'[p] = {k} /\ \A q \in Hosts \ {p} : held'[q] = held[q]
    BY <1>3, <2>1
  <2>3. /\ reg[h] = "set" => reg'[h] = "set"
        /\ reg[Server] \notin Folders => reg'[Server] \notin Folders
    BY <1>3, <2>1, Absents
  <2> QED BY <1>6, <2>1, <2>2, <2>3 DEF Is, Drops
<1>12. CASE Set(p, k)
  <2>1. /\ Is(todo[p][1], "set", k) /\ todo' = [todo EXCEPT ![p] = Tail(todo[p])]
        /\ held' = [held EXCEPT ![p] = {}]
        /\ reg' = IF k \in held[p] THEN [reg EXCEPT ![k] = Val(p, k)] ELSE reg
    BY <1>12 DEF Set, GoOn
  <2>2. \A q \in Hosts \ {p} : held'[q] = held[q]
    BY <1>3, <2>1
  <2>3. CASE k = Server
    <3>1. EnsureShape(todo[p]) /\ EnsureAt(todo[p], 1)
      BY <2>1, WhoDoes DEF Is
    <3>2. PICK j \in (1 + 1)..Len(todo[p]) : Is(todo[p][j], "set", h)
      BY <2>1, <2>3, <3>1 DEF EnsureAt
    <3>3. j \in 2..Len(todo[p]) /\ todo[p][1][1] # "create"
      BY <2>1, <3>2 DEF Is
    <3>4. WillSet(p, h)'
      BY <2>1, <3>1, <3>2, <3>3, SetsLater
    <3> QED BY <3>4 DEF Promises
  <2>4. CASE k # Server
    <3>1. /\ reg[h] = "set" => reg'[h] = "set"
          /\ reg'[Server] = reg[Server]
          /\ k = h /\ h \in held[p] => reg'[h] = "set"
      BY <1>3, <2>1, <2>4, Names
    <3> QED BY <1>6, <2>1, <2>2, <3>1 DEF Is, Drops
  <2> QED BY <2>3, <2>4
<1>13. CASE Drop(p, k)
  <2>1. /\ Drops(todo[p][1], k) /\ todo' = [todo EXCEPT ![p] = Tail(todo[p])]
        /\ held' = [q \in Hosts |-> held[q] \ {k}] /\ reg' = [reg EXCEPT ![k] = "absent"]
    BY <1>13 DEF Drop, GoOn
  <2>2. CASE k = Server
    BY <1>3, <2>1, <2>2, Absents
  <2>3. CASE k = h
    <3>1. todo'[p] = Tail(todo[p])
      BY <1>3, <2>1
    <3>2. CASE Sort(program[p]) = "removes"
      <4>1. PICK j \in (1 + 1)..Len(todo[p]) : Drops(todo[p][j], Server)
        BY <1>5, <2>1, <2>3, <3>2 DEF RemoveAt
      <4>2. j - 1 \in 1..Len(todo'[p]) /\ todo'[p][j - 1] = todo[p][j]
        BY <3>1, Kept
      <4> QED BY <4>1, <4>2 DEF Promises, WillDrop
    <3>3. CASE Sort(program[p]) = "register.ps1"
      <4>1. PICK j \in (1 + 1)..Len(todo[p]) : Is(todo[p][j], "put", h)
        BY <1>5, <2>1, <2>3, <3>3 DEF ScriptAt, Drops
      <4>2. j - 1 \in 1..Len(todo'[p]) /\ todo'[p][j - 1] = todo[p][j]
        BY <3>1, Kept
      <4> QED BY <4>1, <4>2 DEF Promises, WillPut, Has
    <3>4. Sort(program[p]) # "ensures"
      BY <1>5, <2>1 DEF EnsureAt, Drops
    <3> QED BY <1>4, <3>2, <3>3, <3>4
  <2>4. CASE k \notin {Server, h}
    <3>1. reg'[h] = reg[h] /\ reg'[Server] = reg[Server] /\ \A q \in Hosts : h \in held[q] => h \in held'[q]
      BY <1>3, <2>1, <2>4
    <3> QED BY <1>6, <2>1, <2>4, <3>1 DEF Is, Drops
  <2> QED BY <2>2, <2>3, <2>4
<1>14. CASE Clear(p)
  <2>1. /\ Is(todo[p][1], "clear", Sentinel) /\ todo' = [todo EXCEPT ![p] = Tail(todo[p])] /\ held' = held
        /\ reg' = IF reg[Sentinel] = "set" THEN [reg EXCEPT ![Sentinel] = "empty"] ELSE reg
    BY <1>14 DEF Clear, GoOn
  <2>2. reg'[h] = reg[h] /\ reg'[Server] = reg[Server]
    BY <1>3, <2>1, Names
  <2> QED BY <1>6, <2>1, <2>2 DEF Is, Drops
<1>15. CASE Put(p, k)
  <2>1. /\ Is(todo[p][1], "put", k) /\ todo' = [todo EXCEPT ![p] = Tail(todo[p])]
        /\ held' = [held EXCEPT ![p] = {}] /\ reg' = [reg EXCEPT ![k] = Val(p, k)]
    BY <1>15 DEF Put, GoOn
  <2>2. \A q \in Hosts \ {p} : held'[q] = held[q]
    BY <1>3, <2>1
  <2>3. CASE k = Server
    <3>1. ScriptAt(todo[p], 1) /\ todo'[p] = Tail(todo[p])
      BY <1>3, <2>1, WhoDoes DEF Is
    <3>2. PICK j \in (1 + 1)..Len(todo[p]) : Is(todo[p][j], "put", h)
      BY <2>1, <2>3, <3>1 DEF ScriptAt
    <3>3. j - 1 \in 1..Len(todo'[p]) /\ todo'[p][j - 1] = todo[p][j]
      BY <3>1, Kept
    <3> QED BY <3>2, <3>3 DEF Promises, WillPut, Has
  <2>4. CASE k # Server
    <3>1. /\ reg[h] = "set" => reg'[h] = "set"
          /\ reg'[Server] = reg[Server]
          /\ k = h => reg'[h] = "set"
      BY <1>3, <2>1, <2>4, Names
    <3> QED BY <1>6, <2>1, <2>2, <3>1 DEF Is, Drops
  <2> QED BY <2>3, <2>4
<1> QED BY <1>8, <1>9, <1>10, <1>11, <1>12, <1>13, <1>14, <1>15 DEF GoesOnWith

-----------------------------------------------------------------------------
(* One at a time: the sentinel, and what Explorer sees.                     *)

\* A host that runs nothing will do nothing.
LEMMA NothingLeft ==
    ASSUME NEW q, todo[q] = <<>>
    PROVE  /\ ~ WillCheck(q) /\ \A c : ~ WillSet(q, c) /\ ~ WillPut(q, c) /\ ~ WillDrop(q, c)
           /\ \A o, c : ~ Has(todo[q], o, c)
  BY DEF WillCheck, WillSet, WillPut, WillDrop, Has

\* As long as none overlapped, the program that runs runs alone.
LEMMA RunsAlone ==
    ASSUME BasicInv, NEW p \in Hosts, todo[p] # <<>>, ~ overlapped, ~ refused
    PROVE  p \in alone /\ Running = {p}
  BY DEF BasicInv, AloneInv, Running

\* The sentinel is set last, and cleared by whoever drops a handler.
LEMMA SentinelOn ==
    ASSUME BasicInv, DoneInv, SentinelInv, NEW p \in Hosts, todo[p] # <<>>, NEW k \in Keys,
           GoesOnWith(p, k)
    PROVE  SentinelInv'
<1>1. cutShort' = cutShort /\ refused' = refused /\ overlapped' = overlapped
  BY DEF GoesOnWith, AskSentinel, AskServer, Look, Bring, Create, Set, Drop, Clear, Put, GoOn
<1> SUFFICES ASSUME ~ overlapped, cutShort \subseteq {"ensures"}, ~ refused, reg'[Sentinel] = "set",
                    NEW h \in Handlers
             PROVE  reg'[h] = "set" \/ WillPut(p, h)' \/ Has(todo'[p], "clear", Sentinel)
  BY <1>1 DEF SentinelInv
<1>2. /\ todo \in [Hosts -> Seq(Op)] /\ reg \in [Keys -> {"absent", "empty", "set"} \cup Folders]
      /\ h \in ClassKeys /\ h \in Keys /\ Sentinel \in Keys /\ h # Sentinel
  BY Names DEF BasicInv, PlanInv, RegistrationTypesOK
<1>3. DoneFor(p) /\ \A q \in Hosts \ {p} : todo[q] = <<>>
  BY RunsAlone DEF DoneInv, Running
<1>4. reg[Sentinel] = "set" => reg[h] = "set" \/ WillPut(p, h) \/ Has(todo[p], "clear", Sentinel)
  <2>1. reg[Sentinel] = "set" =>
          reg[h] = "set" \/ \E q \in Hosts : WillPut(q, h) \/ Has(todo[q], "clear", Sentinel)
    BY DEF SentinelInv
  <2>2. \A q \in Hosts \ {p} : ~ WillPut(q, h) /\ ~ Has(todo[q], "clear", Sentinel)
    BY <1>3, NothingLeft
  <2> QED BY <2>1, <2>2
<1>5. /\ 1 \in 1..Len(todo[p]) /\ Sort(program[p]) \in {"ensures", "removes", "register.ps1"}
      /\ Sort(program[p]) = "ensures" => EnsureShape(todo[p]) /\ EnsureAt(todo[p], 1)
      /\ Sort(program[p]) = "removes" => RemoveShape(todo[p]) /\ RemoveAt(todo[p], 1)
      /\ Sort(program[p]) = "register.ps1" => ScriptShape(todo[p]) /\ ScriptAt(todo[p], 1)
  BY FirstOp, WhoDoes
\* What comes first is neither the clearing nor the putting of h.
<1>6. ASSUME todo' = [todo EXCEPT ![p] = Tail(todo[p])], reg[Sentinel] = "set",
             reg[h] = "set" => reg'[h] = "set",
             ~ Is(todo[p][1], "put", h), ~ Is(todo[p][1], "clear", Sentinel)
      PROVE  reg'[h] = "set" \/ WillPut(p, h)' \/ Has(todo'[p], "clear", Sentinel)
  <2>1. todo'[p] = Tail(todo[p])
    BY <1>2, <1>6
  <2> QED BY <1>4, <1>6, <2>1, Kept DEF WillPut
<1>7. CASE AskSentinel(p) \/ AskServer(p)
  <2>1. todo[p][1][1] \in {"sentinel?", "server?"} /\ reg' = reg
    BY <1>7 DEF AskSentinel, AskServer, Is
  <2>2. Len(todo[p]) = 1
    BY <1>5, <2>1, WhoDoes DEF EnsureAt
  <2>3. ~ WillPut(p, h) /\ ~ Has(todo[p], "clear", Sentinel)
    BY <2>1, <2>2 DEF WillPut, Has, Is
  <2> QED BY <1>4, <2>1, <2>3
<1>8. CASE Look(p, k)
  <2>1. reg' = reg /\ todo[p][1][1] \in {"version?", "package?", "test"}
    BY <1>8 DEF Look, Is
  <2>2. CASE todo' = [todo EXCEPT ![p] = Tail(todo[p])]
    BY <1>6, <2>1, <2>2 DEF Is
  <2>3. CASE todo[p][1][1] = "version?"
    <3>1. Len(todo[p]) = 1 + 2 /\ todo[p][2][1] = "deploy" /\ todo[p][3][1] = "sentinel?"
      BY <1>5, <2>3, WhoDoes DEF EnsureAt
    <3>2. \A i \in 1..Len(todo[p]) : i \in {1, 2, 3}
      BY <3>1
    <3>3. ~ WillPut(p, h) /\ ~ Has(todo[p], "clear", Sentinel)
      BY <2>3, <3>1, <3>2 DEF WillPut, Has, Is
    <3> QED BY <1>4, <2>1, <3>3
  <2>4. CASE todo' = [todo EXCEPT ![p] = SubSeq(todo[p], 3, Len(todo[p]))] /\ todo[p][1][1] = "test"
    <3> DEFINE t == SubSeq(todo[p], 3, Len(todo[p]))
    <3>1. RemoveShape(todo[p]) /\ todo[p][2][1] = "remove"
      BY <1>5, <2>4, WhoDoes DEF RemoveAt, Is
    <3>2. todo'[p] = t /\ \A i \in 1..Len(todo[p]) : i \in {1, 2} \/ (i - 2 \in 1..Len(t) /\ t[i - 2] = todo[p][i])
      BY <1>2, <2>4, KeptSecond
    <3> HIDE DEF t
    <3>3. ~ WillPut(p, h)
      BY <3>1 DEF RemoveShape, RemoveAt, WillPut, Has, Is
    <3>4. Has(todo[p], "clear", Sentinel) => Has(t, "clear", Sentinel)
      BY <2>4, <3>1, <3>2 DEF Has, Is
    <3> QED BY <1>4, <2>1, <3>2, <3>3, <3>4
  <2>5. CASE todo[p][1][1] = "package?"
    <3>1. \A j \in (1 + 1)..Len(todo[p]) : todo[p][j][1] = "add"
      BY <1>5, <2>5, WhoDoes DEF ScriptAt
    <3>2. \A i \in 1..Len(todo[p]) : todo[p][i][1] \in {"package?", "add"}
      BY <2>5, <3>1, Kept
    <3>3. ~ WillPut(p, h) /\ ~ Has(todo[p], "clear", Sentinel)
      BY <3>2 DEF WillPut, Has, Is
    <3> QED BY <1>4, <2>1, <3>3
  <2> QED BY <1>8, <2>1, <2>2, <2>3, <2>4, <2>5 DEF Look, GoOn, Is
<1>9. CASE Bring(p)
  <2>1. todo[p][1][1] \in {"deploy", "add"} /\ todo' = [todo EXCEPT ![p] = Tail(todo[p])]
        /\ reg'[h] = reg[h] /\ reg'[Sentinel] = reg[Sentinel]
    BY <1>2, <1>9, Names DEF Bring, GoOn
  <2> QED BY <1>6, <2>1 DEF Is
<1>10. CASE Create(p, k)
  <2>1. Is(todo[p][1], "create", k) /\ todo' = [todo EXCEPT ![p] = Tail(todo[p])]
        /\ reg' = IF reg[k] = "absent" THEN [reg EXCEPT ![k] = "empty"] ELSE reg
    BY <1>10 DEF Create, GoOn
  <2>2. reg[Sentinel] = "set" /\ (reg[h] = "set" => reg'[h] = "set")
    BY <1>2, <2>1
  <2> QED BY <1>6, <2>1, <2>2 DEF Is
<1>11. CASE Set(p, k)
  <2>1. /\ Is(todo[p][1], "set", k) /\ todo' = [todo EXCEPT ![p] = Tail(todo[p])]
        /\ reg' = IF k \in held[p] THEN [reg EXCEPT ![k] = Val(p, k)] ELSE reg
    BY <1>11 DEF Set, GoOn
  <2>2. Sort(program[p]) = "ensures" /\ EnsureShape(todo[p]) /\ EnsureAt(todo[p], 1)
    BY <1>5, <2>1, WhoDoes DEF Is
  <2>3. CASE k = Sentinel
    <3>1. Len(todo[p]) = 1
      BY <2>1, <2>2, <2>3 DEF EnsureAt
    <3>2. ~ WillCheck(p)
      BY <2>1, <2>2, AsksNoMore DEF Is
    <3>3. reg[h] = Val(p, h) \/ WillSet(p, h)
      BY <1>2, <1>3, <2>2, <3>2 DEF DoneFor, Ensures
    <3>4. ~ WillSet(p, h)
      BY <1>2, <2>1, <2>3, <3>1 DEF WillSet, Is
    <3>5. reg'[h] = reg[h]
      BY <1>2, <2>1, <2>3
    <3> QED BY <1>2, <3>3, <3>4, <3>5, Names
  <2>4. CASE k # Sentinel
    <3>1. reg'[Sentinel] = reg[Sentinel] /\ (reg[h] = "set" => reg'[h] = "set")
      BY <1>2, <2>1, <2>4, Names
    <3> QED BY <1>6, <2>1, <3>1 DEF Is
  <2> QED BY <2>3, <2>4
<1>12. CASE Drop(p, k)
  <2>1. /\ Drops(todo[p][1], k) /\ todo' = [todo EXCEPT ![p] = Tail(todo[p])]
        /\ reg' = [reg EXCEPT ![k] = "absent"]
    BY <1>12 DEF Drop, GoOn
  <2>2. k # Sentinel /\ todo'[p] = Tail(todo[p])
    BY <1>2, <2>1
  <2>3. CASE k = h
    <3>1. CASE Sort(program[p]) = "removes"
      <4>1. PICK j \in (1 + 1)..Len(todo[p]) : Is(todo[p][j], "clear", Sentinel)
        BY <1>5, <2>1, <2>3, <3>1 DEF RemoveAt
      <4>2. j - 1 \in 1..Len(todo'[p]) /\ todo'[p][j - 1] = todo[p][j]
        BY <2>2, Kept
      <4> QED BY <4>1, <4>2 DEF Has
    <3>2. CASE Sort(program[p]) = "register.ps1"
      <4>1. PICK j \in (1 + 1)..Len(todo[p]) : Is(todo[p][j], "put", h)
        BY <1>5, <2>1, <2>3, <3>2 DEF ScriptAt, Drops
      <4>2. j - 1 \in 1..Len(todo'[p]) /\ todo'[p][j - 1] = todo[p][j]
        BY <2>2, Kept
      <4> QED BY <4>1, <4>2 DEF WillPut, Has
    <3>3. Sort(program[p]) # "ensures"
      BY <1>5, <2>1 DEF EnsureAt, Drops
    <3> QED BY <1>5, <3>1, <3>2, <3>3
  <2>4. CASE k # h
    <3>1. reg'[h] = reg[h] /\ reg'[Sentinel] = reg[Sentinel]
      BY <1>2, <2>1, <2>2, <2>4
    <3> QED BY <1>6, <2>1, <3>1 DEF Is, Drops
  <2> QED BY <2>3, <2>4
<1>13. CASE Clear(p)
  BY <1>2, <1>13 DEF Clear
<1>14. CASE Put(p, k)
  <2>1. /\ Is(todo[p][1], "put", k) /\ todo' = [todo EXCEPT ![p] = Tail(todo[p])]
        /\ reg' = [reg EXCEPT ![k] = Val(p, k)]
    BY <1>14 DEF Put, GoOn
  <2>2. CASE k = h
    BY <1>2, <2>1, <2>2, Names
  <2>3. CASE k = Sentinel
    <3>1. reg[h] = Val(p, h) \/ WillPut(p, h)
      BY <1>2, <1>3, <2>1, WhoDoes DEF DoneFor, Renews, Is
    <3>2. reg'[h] = reg[h] /\ Val(p, h) = "set"
      BY <1>2, <2>1, <2>3, Names
    <3>3. WillPut(p, h) => WillPut(p, h)'
      <4>1. todo'[p] = Tail(todo[p])
        BY <1>2, <2>1
      <4> QED BY <1>2, <2>1, <2>3, <4>1, Kept DEF WillPut, Is
    <3> QED BY <3>1, <3>2, <3>3
  <2>4. CASE k \notin {h, Sentinel}
    <3>1. reg'[h] = reg[h] /\ reg'[Sentinel] = reg[Sentinel]
      BY <1>2, <2>1, <2>4
    <3> QED BY <1>6, <2>1, <2>4, <3>1 DEF Is
  <2> QED BY <2>2, <2>3, <2>4
<1> QED BY <1>7, <1>8, <1>9, <1>10, <1>11, <1>12, <1>13, <1>14 DEF GoesOnWith

\* One at a time, the server comes before the handlers and goes after them.
LEMMA DanglingOn ==
    ASSUME BasicInv, DoneInv, NoDanglingHandler, NEW p \in Hosts, todo[p] # <<>>, NEW k \in Keys,
           GoesOnWith(p, k)
    PROVE  NoDanglingHandler'
<1>1. /\ cutShort' = cutShort /\ refused' = refused /\ overlapped' = overlapped /\ program' = program
      /\ \E rest : todo' = [todo EXCEPT ![p] = rest]
  BY DEF GoesOnWith, AskSentinel, AskServer, Look, Bring, Create, Set, Drop, Clear, Put, GoOn
<1> SUFFICES ASSUME ~ overlapped, ~ refused, "register.ps1" \notin cutShort,
                    \A q \in Running' : program[q] # "register.ps1",
                    NEW h \in Handlers, reg'[h] = "set"
             PROVE  reg'[Server] \in Folders
  BY <1>1 DEF NoDanglingHandler
<1>2. /\ todo \in [Hosts -> Seq(Op)] /\ reg \in [Keys -> {"absent", "empty", "set"} \cup Folders]
      /\ h \in ClassKeys /\ h \in Keys /\ Server \in Keys /\ h # Server /\ h # Sentinel /\ h # Package
      /\ Server # Sentinel /\ Server # Package /\ Server \in ClassKeys
  BY Names DEF BasicInv, PlanInv, RegistrationTypesOK
<1>3. DoneFor(p) /\ Running = {p}
  BY RunsAlone DEF DoneInv
<1>4. CASE Sort(program[p]) = "register.ps1"
  <2>1. program[p] = "register.ps1"
    BY <1>4, FirstOp DEF Programs, Modules, Sort
  <2>2. todo'[p] = <<>>
    BY <2>1 DEF Running
  <2>3. Renews(p)'
    BY <1>3, RenewsOn DEF DoneFor
  <2>4. ~ WillPut(p, Server)'
    BY <2>2 DEF WillPut, Has
  <2>5. reg'[Server] = Val(p, Server)
    BY <1>1, <1>2, <1>4, <2>3, <2>4 DEF Renews
  <2> QED BY <2>5, Names
<1>5. CASE Sort(program[p]) # "register.ps1"
  <2>1. program[p] # "register.ps1"
    BY <1>5 DEF Sort, Programs, Modules
  <2>2. reg[h] = "set" => reg[Server] \in Folders
    BY <1>3, <2>1 DEF NoDanglingHandler
  <2>3. 1 \in 1..Len(todo[p]) /\ todo[p][1][1] \notin {"put", "package?", "add"}
    BY <1>5, FirstOp, WhoDoes
  <2>4. CASE AskSentinel(p) \/ AskServer(p) \/ Look(p, k) \/ Bring(p) \/ Clear(p)
    <3>1. reg'[h] = reg[h] /\ reg'[Server] = reg[Server]
      BY <1>2, <2>4 DEF AskSentinel, AskServer, Look, Bring, Clear
    <3> QED BY <2>2, <3>1
  <2>5. CASE Create(p, k)
    BY <1>2, <2>2, <2>5, Absents DEF Create
  <2>6. CASE Set(p, k)
    <3>1. /\ Is(todo[p][1], "set", k)
          /\ reg' = IF k \in held[p] THEN [reg EXCEPT ![k] = Val(p, k)] ELSE reg
      BY <2>6 DEF Set
    <3>2. Sort(program[p]) = "ensures" /\ EnsureShape(todo[p]) /\ EnsureAt(todo[p], 1)
      BY <3>1, WhoDoes DEF Is
    <3>3. CASE k = Server
      BY <1>2, <2>2, <3>1, <3>3, Names
    <3>4. CASE k = h
      <4>1. ~ WillCheck(p)
        BY <3>1, <3>2, AsksNoMore DEF Is
      <4>2. reg[Server] = Val(p, Server) \/ WillSet(p, Server)
        BY <1>2, <1>3, <3>2, <4>1 DEF DoneFor, Ensures
      <4>3. ~ WillSet(p, Server)
        <5>1. ASSUME NEW i \in 1..Len(todo[p]), Is(todo[p][i], "set", Server) PROVE FALSE
          <6>1. EnsureAt(todo[p], i)
            BY <3>2 DEF EnsureShape
          <6>2. i \in {1, 2}
            BY <5>1, <6>1 DEF EnsureAt
          <6>4. i # 1
            BY <1>2, <3>1, <3>4, <5>1 DEF Is
          <6>3. Is(todo[p][1], "create", Server)
            <7>1. i = 2
              BY <6>2, <6>4
            <7>2. Is(todo[p][2 - 1], "create", todo[p][2][2]) /\ todo[p][2][2] = Server
              BY <5>1, <6>1, <7>1 DEF EnsureAt, Is
            <7> QED BY <7>2
          <6> QED BY <3>1, <6>3 DEF Is
        <5> QED BY <5>1 DEF WillSet
      <4>4. reg'[Server] = reg[Server]
        BY <1>2, <3>1, <3>4
      <4> QED BY <4>2, <4>3, <4>4, Names
    <3>5. CASE k \notin {h, Server}
      BY <1>2, <2>2, <3>1, <3>5
    <3> QED BY <3>3, <3>4, <3>5
  <2>7. CASE Drop(p, k)
    <3>1. Drops(todo[p][1], k) /\ reg' = [reg EXCEPT ![k] = "absent"]
      BY <2>7 DEF Drop
    <3>2. Sort(program[p]) = "removes" /\ RemoveShape(todo[p]) /\ RemoveAt(todo[p], 1)
      <4>1. todo[p][1][1] \in {"delete", "remove"}
        BY <3>1 DEF Drops
      <4> QED BY <1>5, <4>1, WhoDoes
    <3>3. CASE k = Server
      <4>1. reg[h] = "absent" \/ WillDrop(p, h)
        BY <1>2, <1>3, <3>2 DEF DoneFor, Removes
      <4>2. ~ WillDrop(p, h)
        <5>1. \A j \in (1 + 1)..Len(todo[p]) : ~ Drops(todo[p][j], h)
          BY <3>1, <3>2, <3>3 DEF RemoveAt
        <5>2. ~ Drops(todo[p][1], h)
          BY <1>2, <3>1, <3>3 DEF Drops
        <5> QED BY <5>1, <5>2, Kept DEF WillDrop
      <4>3. reg'[h] = reg[h]
        BY <1>2, <3>1, <3>3
      <4> QED BY <4>1, <4>2, <4>3
    <3>4. CASE k # Server
      BY <1>2, <2>2, <3>1, <3>4
    <3> QED BY <3>3, <3>4
  <2>8. ~ Put(p, k)
    BY <2>3 DEF Put, Is
  <2> QED BY <2>4, <2>5, <2>6, <2>7, <2>8 DEF GoesOnWith
<1> QED BY <1>4, <1>5

\* What a program that has run to its end, alone, leaves behind.
LEMMA EndsOn ==
    ASSUME BasicInv, DoneInv, WholeInv, SentinelInv, NEW p \in Hosts, todo[p] # <<>>, NEW k \in Keys,
           GoesOnWith(p, k)
    PROVE  EnsuredIsRegistered' /\ UnregisteredIsGone'
<1>1. PICK rest : GoOn(p, rest)
  BY DEF GoesOnWith, AskSentinel, AskServer, Look, Bring, Create, Set, Drop, Clear, Put
<1>2. /\ cutShort' = cutShort /\ refused' = refused /\ overlapped' = overlapped /\ program' = program
      /\ todo' = [todo EXCEPT ![p] = rest] /\ todo \in [Hosts -> Seq(Op)] /\ todo'[p] = rest
      /\ last = {} /\ last' = IF rest = <<>> /\ p \in alone THEN {p} ELSE last
      /\ reg \in [Keys -> {"absent", "empty", "set"} \cup Folders]
  BY <1>1 DEF GoOn, BasicInv, PlanInv, AloneInv, Running, RegistrationTypesOK
<1>3. CASE ~ (todo'[p] = <<>> /\ p \in alone)
  <2>1. last' = {}
    BY <1>2, <1>3
  <2> QED BY <2>1 DEF EnsuredIsRegistered, UnregisteredIsGone
<1>4. CASE todo'[p] = <<>> /\ p \in alone
  <2>1. last' = {p} /\ DoneFor(p)
    BY <1>2, <1>4 DEF DoneInv
  <2>2. /\ ~ WillCheck(p)' /\ \A c : ~ WillSet(p, c)' /\ ~ WillDrop(p, c)'
        /\ \A o, c : ~ Has(todo'[p], o, c)
    BY <1>4 DEF WillCheck, WillSet, WillDrop, Has
  <2>3. UnregisteredIsGone'
    <3>1. Removes(p)'
      BY <2>1, RemovesOn DEF DoneFor
    <3>2. Sort(program[p]) = "removes" =>
            /\ \A c \in ClassKeys : reg'[c] = "absent"
            /\ reg'[Sentinel] # "set"
            /\ program[p] = "unregister.ps1" => reg'[Package] = "absent"
      BY <1>2, <2>2, <3>1 DEF Removes
    <3> QED BY <1>2, <2>1, <3>2, Names DEF UnregisteredIsGone
  <2>4. CASE ~ AskServer(p)
    <3>1. Ensures(p)'
      BY <2>1, <2>4, EnsuresOn DEF DoneFor
    <3>2. Sort(program[p]) = "ensures" =>
            /\ \A c \in ClassKeys : reg'[c] = Val(p, c)
            /\ program[p] = "enable" => Supplied(p)'
      BY <1>2, <2>2, <3>1 DEF Ensures
    <3>3. Sort(program[p]) = "ensures" => reg'[Server] = Home[p] /\ \A h \in Handlers : reg'[h] = "set"
      BY <3>2, Names
    <3>4. EnsuredIsRegistered'
      BY <1>2, <2>1, <3>2, <3>3 DEF EnsuredIsRegistered, Registered, Supplied
    <3> QED BY <2>3, <3>4
  <2>5. CASE AskServer(p)
    <3>1. Is(todo[p][1], "server?", Server) /\ reg' = reg
      BY <2>5 DEF AskServer
    <3>2. Sort(program[p]) = "ensures" /\ EnsureAt(todo[p], 1) /\ 1 \in 1..Len(todo[p])
      BY <3>1, FirstOp, WhoDoes DEF Is
    <3>3. Len(todo[p]) = 1
      BY <3>1, <3>2 DEF EnsureAt, Is
    <3>4. /\ \A h \in Handlers : ~ Promises(p, h)
          /\ \A h \in Handlers : ~ WillPut(p, h) /\ ~ Has(todo[p], "clear", Sentinel)
          /\ ~ Has(todo[p], "deploy", Package)
          /\ Has(todo[p], "server?", Server)
      BY <3>1, <3>3 DEF Promises, WillSet, WillPut, WillDrop, Has, Is, Drops
    <3>5. \A q \in Hosts \ {p} : todo[q] = <<>>
      BY <1>4 DEF BasicInv, AloneInv
    <3>6. \A h \in Handlers : \A q \in Hosts : ~ Promises(q, h) /\ ~ WillPut(q, h) /\ ~ Has(todo[q], "clear", Sentinel)
      BY <3>4, <3>5, NothingLeft DEF Promises
    <3>7. reg[Sentinel] = "set" /\ (program[p] = "enable" => Supplied(p))
      BY <2>1, <3>2, <3>4 DEF DoneFor, Ensures
    <3>8. reg[Server] = Home[p]
      <4>1. CASE reg[Server] # Home[p]
        <5>1. todo'[p] = Repair(Home[p])
          BY <1>2, <2>5, <4>1 DEF AskServer, GoOn
        <5>2. Len(Repair(Home[p])) = 6
          BY <3>2, RepairPlan
        <5>3. Len(<<>>) = 6
          BY <1>4, <5>1, <5>2
        <5> QED BY <5>3, EmptySeq
      <4> QED BY <4>1
    <3>9. (~ refused /\ cutShort = {}) => \A h \in Handlers : reg[h] = "set"
      BY <3>6, <3>8, Names DEF WholeInv, Promised, Promises
    <3>10. (~ refused /\ ~ overlapped /\ cutShort = {"ensures"}) => \A h \in Handlers : reg[h] = "set"
      BY <3>6, <3>7 DEF SentinelInv
    <3>11. EnsuredIsRegistered'
      BY <1>2, <2>1, <3>1, <3>7, <3>8, <3>9, <3>10 DEF EnsuredIsRegistered, Registered, Supplied, SameVersion
    <3> QED BY <2>3, <3>11
  <2> QED BY <2>4, <2>5
<1> QED BY <1>3, <1>4

-----------------------------------------------------------------------------
(* The invariant.                                                           *)

\* The invariant holds at first, and ...
LEMMA InitCase ==
    ASSUME Init
    PROVE  RegistrationInv
<1>1. \A p \in Hosts : todo[p] = <<>> /\ held[p] = {} /\ program[p] = "none"
  BY DEF Init
<1>2. Running = {} /\ alone = {} /\ last = {} /\ \A k \in Keys : reg[k] = "absent"
  BY <1>1 DEF Init, Running
<1>3. RegistrationTypesOK
  <2>1. reg \in [Keys -> {"absent", "empty", "set"} \cup Folders]
    BY DEF Init
  <2>2. "absent" \notin Folders
    BY RegistrationAssumption
  <2>3. /\ \A h \in Handlers \cup {Sentinel} : reg[h] \notin Folders
        /\ reg[Server] # "set" /\ reg[Package] \in Folders \cup {"absent"}
    BY <1>2, <2>2 DEF Keys
  <2>4. /\ program \in [Hosts -> Programs \cup {"none"}] /\ held \in [Hosts -> SUBSET Keys]
        /\ \A p \in Hosts \ Running : held[p] = {}
    BY DEF Init
  <2>5. starts \in 0..MaxStarts
    BY RegistrationAssumption DEF Init
  <2>6. /\ refused \in BOOLEAN /\ alone \subseteq Running /\ last \subseteq Hosts
        /\ cutShort \subseteq {"ensures", "removes", "register.ps1"}
    BY DEF Init
  <2> QED BY <2>1, <2>3, <2>4, <2>5, <2>6 DEF RegistrationTypesOK
<1>4. PlanInv
  <2>1. todo \in [Hosts -> Seq(Op)]
    BY DEF Init
  <2> QED BY <1>1, <2>1, NothingPlanned DEF PlanInv
<1>5. HeldInv /\ AloneInv /\ DoneInv
  BY <1>1, <1>2 DEF HeldInv, AloneInv, DoneInv
<1>6. EntryInv
  BY <1>2, Names, Absents DEF EntryInv, WholeInv, SentinelInv, NoDanglingHandler
<1>7. EnsuredIsRegistered /\ UnregisteredIsGone
  BY <1>2 DEF EnsuredIsRegistered, UnregisteredIsGone
<1> QED BY <1>3, <1>4, <1>5, <1>6, <1>7 DEF RegistrationInv, BasicInv

\* ... when a program stops or is ended, ...
LEMMA StopCase ==
    ASSUME RegistrationInv, NEW p \in Hosts, todo[p] # <<>>, Stop(p)
    PROVE  RegistrationInv'
<1>1. BasicInv /\ BasicInv'
  BY BasicStop DEF RegistrationInv
<1>2. /\ todo' = [todo EXCEPT ![p] = <<>>] /\ held' = [held EXCEPT ![p] = {}]
      /\ program' = [program EXCEPT ![p] = "none"] /\ alone' = alone \ {p}
      /\ cutShort' = cutShort \cup {Sort(program[p])}
      /\ reg' = reg /\ overlapped' = overlapped /\ refused' = refused /\ last' = last
  BY DEF Stop
<1>3. /\ \A q \in Hosts \ {p} : todo'[q] = todo[q] /\ program'[q] = program[q]
      /\ last = {} /\ alone \subseteq {p} /\ Running' = Running \ {p} /\ todo'[p] = <<>>
  BY <1>1, <1>2 DEF BasicInv, PlanInv, AloneInv, Running, RegistrationTypesOK
<1>4. DoneInv' /\ EnsuredIsRegistered' /\ UnregisteredIsGone' /\ WholeInv'
  BY <1>2, <1>3 DEF DoneInv, EnsuredIsRegistered, UnregisteredIsGone, WholeInv
<1>5. SentinelInv'
  <2> SUFFICES ASSUME ~ overlapped, cutShort' \subseteq {"ensures"}, ~ refused, reg[Sentinel] = "set",
                      NEW h \in Handlers
               PROVE  reg[h] = "set" \/ \E q \in Hosts : WillPut(q, h)' \/ Has(todo'[q], "clear", Sentinel)
    BY <1>2 DEF SentinelInv
  <2>1. reg[h] = "set" \/ \E q \in Hosts : WillPut(q, h) \/ Has(todo[q], "clear", Sentinel)
    BY <1>2 DEF RegistrationInv, EntryInv, SentinelInv
  <2>2. EnsureShape(todo[p])
    BY <1>1, <1>2, WhoDoes
  <2>3. ~ WillPut(p, h) /\ ~ Has(todo[p], "clear", Sentinel)
    BY <2>2 DEF EnsureShape, EnsureAt, WillPut, Has, Is
  <2>4. \A q \in Hosts \ {p} : (WillPut(q, h) <=> WillPut(q, h)')
                               /\ (Has(todo[q], "clear", Sentinel) <=> Has(todo'[q], "clear", Sentinel))
    BY <1>3 DEF WillPut
  <2> QED BY <2>1, <2>3, <2>4
<1>6. NoDanglingHandler'
  <2> SUFFICES ASSUME ~ overlapped, ~ refused, "register.ps1" \notin cutShort',
                      \A q \in Running' : program'[q] # "register.ps1"
               PROVE  \A h \in Handlers : reg[h] = "set" => reg[Server] \in Folders
    BY <1>2 DEF NoDanglingHandler
  <2>1. program[p] # "register.ps1"
    BY <1>2 DEF Sort
  <2>2. \A q \in Running : program[q] # "register.ps1"
    BY <1>3, <2>1 DEF Running
  <2> QED BY <1>2, <2>2 DEF RegistrationInv, EntryInv, NoDanglingHandler
<1> QED BY <1>1, <1>4, <1>5, <1>6 DEF RegistrationInv, EntryInv

\* ... when it is refused an operation, ...
LEMMA RefuseCase ==
    ASSUME RegistrationInv, NEW p \in Hosts, Refuse(p)
    PROVE  RegistrationInv'
<1>1. BasicInv /\ BasicInv'
  BY BasicRefuse DEF RegistrationInv
<1>2. todo[p] # <<>> /\ refused' = TRUE /\ alone' = alone \ {p} /\ last' = last
  BY DEF Refuse, Do
<1>3. last = {} /\ alone \subseteq {p}
  BY <1>1, <1>2 DEF BasicInv, AloneInv, Running
<1> QED BY <1>1, <1>2, <1>3 DEF RegistrationInv, DoneInv, EntryInv, WholeInv, SentinelInv,
             NoDanglingHandler, EnsuredIsRegistered, UnregisteredIsGone

\* ... when one starts ...
LEMMA StartCase ==
    ASSUME RegistrationInv, NEW p \in Hosts, NEW prog \in Programs, StartProgram(p, prog)
    PROVE  RegistrationInv'
<1>1. BasicInv /\ BasicInv'
  BY BasicStart DEF RegistrationInv
<1>2. /\ todo[p] = <<>> /\ last' = {} /\ alone' = (IF Running = {} THEN {p} ELSE {})
      /\ program' = [q \in Hosts |-> IF q = p THEN prog ELSE IF q \in Running THEN program[q] ELSE "none"]
      /\ todo' = [todo EXCEPT ![p] = Operations(p, prog)]
      /\ reg' = reg /\ held' = held /\ cutShort' = cutShort /\ refused' = refused
  BY DEF StartProgram
<1>3. overlapped' = (overlapped \/ Running # {})
  BY DEF StartProgram
<1>4. \A q \in Hosts \ {p} : todo'[q] = todo[q]
  BY <1>1, <1>2 DEF BasicInv, PlanInv
<1>5. DoneInv' /\ EnsuredIsRegistered' /\ UnregisteredIsGone'
  BY <1>1, <1>2, DoneAtFirst DEF DoneInv, EnsuredIsRegistered, UnregisteredIsGone
<1>6. \A q \in Hosts, h \in Handlers :
        /\ Promises(q, h) => Promises(q, h)'
        /\ WillPut(q, h) => WillPut(q, h)'
        /\ Has(todo[q], "clear", Sentinel) => Has(todo'[q], "clear", Sentinel)
  <2> SUFFICES ASSUME NEW q \in Hosts, NEW h \in Handlers
               PROVE  /\ Promises(q, h) => Promises(q, h)'
                      /\ WillPut(q, h) => WillPut(q, h)'
                      /\ Has(todo[q], "clear", Sentinel) => Has(todo'[q], "clear", Sentinel)
    OBVIOUS
  <2>1. CASE q = p
    BY <1>2, <2>1, NothingLeft DEF Promises
  <2>2. CASE q # p
    BY <1>2, <1>4, <2>2 DEF Promises, WillSet, WillPut, WillDrop, Has
  <2> QED BY <2>1, <2>2
<1>7. WholeInv'
  BY <1>2, <1>6 DEF RegistrationInv, EntryInv, WholeInv, Promised, Promises
<1>8. SentinelInv'
  BY <1>2, <1>3, <1>6 DEF RegistrationInv, EntryInv, SentinelInv
<1>9. NoDanglingHandler'
  BY <1>2, <1>3 DEF RegistrationInv, EntryInv, NoDanglingHandler
<1> QED BY <1>1, <1>5, <1>7, <1>8, <1>9 DEF RegistrationInv, EntryInv

\* ... and when it does an operation.
LEMMA OperationCase ==
    ASSUME RegistrationInv, NEW p \in Hosts, Operation(p)
    PROVE  RegistrationInv'
<1>1. BasicInv /\ BasicInv' /\ DoneInv /\ WholeInv /\ SentinelInv /\ NoDanglingHandler
  BY BasicOperation DEF RegistrationInv, EntryInv
<1>2. todo[p] # <<>>
  BY <1>1, Kinds
<1>3. CASE \E k \in Keys : GoesOnWith(p, k)
  <2>1. PICK k \in Keys : GoesOnWith(p, k)
    BY <1>3
  <2>2. WholeInv' /\ SentinelInv' /\ NoDanglingHandler' /\ EnsuredIsRegistered' /\ UnregisteredIsGone'
    BY <1>1, <1>2, <2>1, WholeOn, SentinelOn, DanglingOn, EndsOn
  <2>3. DoneInv'
    <3> SUFFICES ASSUME NEW q \in alone' PROVE DoneFor(q)'
      BY DEF DoneInv
    <3>1. PICK rest : GoOn(p, rest)
      BY <2>1 DEF GoesOnWith, AskSentinel, AskServer, Look, Bring, Create, Set, Drop, Clear, Put
    <3>2. /\ alone' = (IF rest = <<>> THEN alone \ {p} ELSE alone) /\ todo'[p] = rest
      BY <1>1, <3>1 DEF GoOn, BasicInv, PlanInv
    <3>3. q = p /\ p \in alone /\ todo'[p] # <<>>
      BY <1>1, <1>2, <3>2 DEF BasicInv, AloneInv
    <3>4. DoneFor(p)
      BY <1>1, <3>3 DEF DoneInv
    <3> QED BY <1>1, <1>2, <2>1, <3>3, <3>4, EnsuresOn, RemovesOn, RenewsOn DEF DoneFor
  <2> QED BY <1>1, <2>2, <2>3 DEF RegistrationInv, EntryInv
<1> QED BY <1>1, <1>2, <1>3, Kinds, RefuseCase, StopCase

\* Every step keeps the invariant.
LEMMA RegistrationInvInductive ==
    ASSUME RegistrationInv, [Next]_vars
    PROVE  RegistrationInv'
<1>1. CASE Next
  <2>1. PICK p \in Hosts : Operation(p) \/ EndProcess(p) \/ \E prog \in Programs : StartProgram(p, prog)
    BY <1>1 DEF Next
  <2>2. EndProcess(p) => todo[p] # <<>> /\ Stop(p)
    BY DEF EndProcess
  <2> QED BY <2>1, <2>2, OperationCase, StopCase, StartCase
<1>2. CASE UNCHANGED vars
  BY <1>2 DEF vars, hostVars, ghosts, RegistrationInv, BasicInv, RegistrationTypesOK, PlanInv, HeldInv,
     AloneInv, DoneInv, DoneFor, Ensures, Removes, Renews, EntryInv, WholeInv, SentinelInv,
     NoDanglingHandler, EnsuredIsRegistered, UnregisteredIsGone, Registered, Promised, Running,
     Supplied, SameVersion, WillCheck, WillSet, WillPut, WillDrop
<1> QED BY <1>1, <1>2

\* The invariant holds in every behaviour of the registration.
THEOREM RegistrationInvAlways == Spec => []RegistrationInv
  BY InitCase, RegistrationInvInductive, PTL DEF Spec

\* Every variable has its type; a program that is done holds no key open.
THEOREM RegistrationTypesCorrect == Spec => []RegistrationTypesOK
<1>1. RegistrationInv => RegistrationTypesOK
  BY DEF RegistrationInv, BasicInv
<1> QED BY <1>1, RegistrationInvAlways, PTL

\* EnsureRegistered (and enable) that ran to its end, alone, leaves the entry
\* registered with the DLL of its own folder, as far as the sentinel can be trusted:
\* nothing was refused, and nothing was ended on the way, or only those that ensure,
\* one at a time (shell_ext_registration.h:165).
THEOREM EnsuredIsRegisteredAlways == Spec => []EnsuredIsRegistered
<1>1. RegistrationInv => EnsuredIsRegistered
  BY DEF RegistrationInv
<1> QED BY <1>1, RegistrationInvAlways, PTL

\* Unregister that ran to its end, alone, leaves no part of the entry behind,
\* whatever was there before (shell_ext_registration.h:225, unregister.ps1).
THEOREM UnregisteredIsGoneAlways == Spec => []UnregisteredIsGone
<1>1. RegistrationInv => UnregisteredIsGone
  BY DEF RegistrationInv
<1> QED BY <1>1, RegistrationInvAlways, PTL

\* One program at a time, and other than register.ps1: a handler never names a class
\* without a server, wherever a program is ended.
THEOREM NoDanglingHandlerAlways == Spec => []NoDanglingHandler
<1>1. RegistrationInv => NoDanglingHandler
  BY DEF RegistrationInv, EntryInv
<1> QED BY <1>1, RegistrationInvAlways, PTL

=============================================================================
