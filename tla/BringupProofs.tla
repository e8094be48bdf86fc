---------------------------- MODULE BringupProofs ----------------------------
(***************************************************************************)
(* Proofs about Bringup, for a board of any size and any number of cores.   *)
(* The first half is about the lists of commands, with no state: what each  *)
(* test has sent before a command (a numbering, a count of the cores, the   *)
(* golden data, BIST).  The second half says what the chips and the handle  *)
(* look like when those commands have been sent, whatever got lost.         *)
(* BringupJobsProofs goes on from there.                                    *)
(***************************************************************************)
EXTENDS Bringup, FiniteSetTheorems, SequenceTheorems, WellFoundedInduction, TLAPS

-----------------------------------------------------------------------------
(* The types of the commands.  A program is a list of them that ends with END. *)

Data     == {"golden", "vector"}
Ranges   == {"golden", "small", "full", "full_to_small"}
Controls == [last : BOOLEAN, oon : BOOLEAN]
Values   == {"golden", "vector", "enable_all", "disable_some", "fixed", "default", "written"}
Registers == {"target", "mask", "io", "revision", "feature"}
Compares == [reg : Registers, value : Values, hard : BOOLEAN]

\* Commands without an argument, all commands, and what each one is sent with.
Plain == {"HW_RESET", "AUTO_ADDRESS", "RESET", "READ_FEATURE", "PLL_FREQ", "SET_PLL", "READ_BIST",
          "RUN_BIST", "PLL_OFF", "RUN_JOB", "CHECK_CHIPS", "CHECK_ID"}
Cmds  == Plain \cup {"SET_DISABLE", "WRITE_CORE_CFG", "WRITE_PARAM", "WRITE_TARGET", "WRITE_NONCE",
                     "SET_CONTROL", "WRITE_IO_CTRL", "DISTRIBUTE", "CHECK_CORES", "COMPARE"}
Args  == {"", "written", "share", "each", "sum"} \cup Masks \cup Data \cup Ranges \cup Controls
         \cup Compares

ArgFits(cmd, arg) ==
  \/ cmd \in Plain /\ arg = ""
  \/ cmd \in {"SET_DISABLE", "WRITE_CORE_CFG"} /\ arg \in Masks
  \/ cmd \in {"WRITE_PARAM", "WRITE_TARGET"} /\ arg \in Data
  \/ cmd = "WRITE_NONCE" /\ arg \in Ranges \cup {"share"}
  \/ cmd = "SET_CONTROL" /\ arg \in Controls
  \/ cmd = "WRITE_IO_CTRL" /\ arg = "written"
  \/ cmd = "DISTRIBUTE" /\ arg \in Ranges
  \/ cmd = "CHECK_CORES" /\ arg \in {"each", "sum"}
  \/ cmd = "COMPARE" /\ arg \in Compares

Steps == {s \in [cmd : Cmds, to : -1 .. MaxChips, need : -1 .. MaxChips + 1, arg : Args,
                 must : BOOLEAN] : ArgFits(s.cmd, s.arg)}

IsEnd(s) == s = Command("END", 0, -1, "mining") \/ s = Command("END", 0, -1, "passed")

IsProgram(p) ==
  /\ p \in Seq(Steps \cup {Command("END", 0, -1, "mining"), Command("END", 0, -1, "passed")})
  /\ Len(p) > 0
  /\ \A k \in 1 .. Len(p) : IF k = Len(p) THEN IsEnd(p[k]) ELSE p[k] \in Steps

\* A command with a fitting argument is one.
LEMMA CommandType ==
  ASSUME NEW cmd, NEW to \in -1 .. MaxChips, NEW need \in -1 .. MaxChips + 1, NEW arg,
         ArgFits(cmd, arg)
  PROVE  /\ Command(cmd, to, need, arg) \in Steps /\ Must(Command(cmd, to, need, arg)) \in Steps
         /\ <<Command(cmd, to, need, arg)>> \in Seq(Steps)
         /\ <<Must(Command(cmd, to, need, arg))>> \in Seq(Steps)
  <1>1. arg \in Args
    BY DEF ArgFits, Args
  <1>2. cmd \in Cmds
    BY DEF ArgFits, Cmds
  <1>3. Command(cmd, to, need, arg) \in Steps
    BY <1>1, <1>2 DEF Command, Steps
  <1>4. Must(Command(cmd, to, need, arg)) \in Steps
    BY <1>1, <1>2 DEF Command, Must, Steps
  <1>5. QED
    BY <1>3, <1>4

LEMMA FunctionSeq ==
  ASSUME NEW S, NEW n \in Nat, NEW f, f = [k \in 1 .. n |-> f[k]], \A k \in 1 .. n : f[k] \in S
  PROVE  f \in Seq(S) /\ Len(f) = n
  <1>1. f \in [1 .. n -> S]
    BY Zenon
  <1>2. QED
    BY <1>1

LEMMA AllType ==
  ASSUME NEW cmd, NEW arg, ArgFits(cmd, arg)
  PROVE  /\ All(cmd, arg) \in Seq(Steps) /\ Host(cmd, arg) \in Seq(Steps)
         /\ MustAll(cmd, arg) \in Seq(Steps)
         /\ Each(cmd, arg) \in Seq(Steps) /\ Len(Each(cmd, arg)) = MaxChips
         /\ \A a \in Addresses : One(a, cmd, arg) \in Seq(Steps)
         /\ \A first \in Addresses \cup {MaxChips + 1} : From(first, cmd, arg) \in Seq(Steps)
  <1> USE BringupAssumption
  <1>1. \A a \in 0 .. MaxChips, need \in -1 .. MaxChips :
          /\ Command(cmd, a, need, arg) \in Steps
          /\ <<Command(cmd, a, need, arg)>> \in Seq(Steps)
          /\ <<Must(Command(cmd, a, need, arg))>> \in Seq(Steps)
    BY CommandType
  <1>2. All(cmd, arg) \in Seq(Steps) /\ Host(cmd, arg) \in Seq(Steps)
          /\ MustAll(cmd, arg) \in Seq(Steps)
    BY <1>1 DEF All, Host, MustAll, Step
  <1>3. \A a \in Addresses : One(a, cmd, arg) \in Seq(Steps)
    BY <1>1 DEF One, Step, Addresses
  <1>4. Each(cmd, arg) \in [1 .. MaxChips -> Steps]
    BY <1>1 DEF Each, Addresses
  <1>5. \A first \in Addresses \cup {MaxChips + 1} : From(first, cmd, arg) \in Seq(Steps)
    <2> TAKE first \in Addresses \cup {MaxChips + 1}
    <2>1. From(first, cmd, arg) \in [1 .. MaxChips + 1 - first -> Steps]
      BY <1>1 DEF From, Addresses
    <2>2. QED
      BY <2>1 DEF Addresses
  <1>6. QED
    BY <1>2, <1>3, <1>4, <1>5

LEMMA Concat ==
  \A s, t \in Seq(Steps) : s \o t \in Seq(Steps)
  OBVIOUS

LEMMA ProgramType ==
  /\ IsProgram(Mine) /\ IsProgram(Passed)
  /\ \A s \in Seq(Steps) : \A p : IsProgram(p) => IsProgram(s \o p)
  <1>1. IsProgram(Mine) /\ IsProgram(Passed)
    BY DEF IsProgram, Mine, Passed, Host, All, Step, IsEnd
  <1>2. ASSUME NEW s \in Seq(Steps), NEW p, IsProgram(p) PROVE IsProgram(s \o p)
    BY <1>2 DEF IsProgram
  <1>3. QED
    BY <1>1, <1>2

-----------------------------------------------------------------------------
(* What a program has sent before command k, and the lists that keep it.    *)

\* The commands that rely on the counts; those after which a chip may have another
\* address; and the ones the programs are recognised by.
Uses == {"DISTRIBUTE", "CHECK_CORES"}
Renumbers(s) == \/ s.cmd \in {"HW_RESET", "AUTO_ADDRESS"}
                \/ s.cmd = "SET_CONTROL" /\ s.arg.last /\ s.to # 1
Readdress       == Command("AUTO_ADDRESS", 0, -1, "")
ReadOf(a)  == Command("READ_BIST", a, a, "")
Rereads(s, a) == s.cmd = "READ_BIST" /\ s.to = a
Golden(c)  == Command(c, 0, -1, "golden")
RunsBist   == Command("RUN_BIST", 0, -1, "")
Moves(s)   == s.cmd \in {"HW_RESET", "AUTO_ADDRESS", "SET_CONTROL"}

\* Before command k, AUTO_ADDRESS was the last that could change an address.
NumberedAt(p, k) ==
  \E i \in 1 .. k - 1 : p[i] = Readdress /\ \A j \in i + 1 .. k - 1 : ~Renumbers(p[j])

\* The cores of address a were read since the last numbering.
CountedAt(p, k, a) ==
  \E i \in 1 .. k - 1 :
     p[i] = ReadOf(a) /\ NumberedAt(p, i) /\ \A j \in i + 1 .. k - 1 : ~Renumbers(p[j])

\* The golden data was the last that c wrote, to the chips still on the chain.
FilledAt(p, k, c) ==
  \E i \in 1 .. k - 1 :
     p[i] = Golden(c) /\ \A j \in i + 1 .. k - 1 : ~Moves(p[j]) /\ p[j].cmd # c

GoldenAt(p, k) ==
  FilledAt(p, k, "WRITE_PARAM") /\ FilledAt(p, k, "WRITE_TARGET") /\ FilledAt(p, k, "WRITE_NONCE")

\* The last BIST ran with the golden data on all of them.
BistAt(p, k) ==
  \E i \in 1 .. k - 1 :
     /\ p[i] = RunsBist /\ GoldenAt(p, i)
     /\ \A j \in i + 1 .. k - 1 : ~Moves(p[j]) /\ p[j].cmd \notin {"RUN_BIST", "WRITE_CORE_CFG"}

\* The cores of address a were last read after such a BIST.
FoundAt(p, k, a) ==
  \E i \in 1 .. k - 1 :
     p[i] = ReadOf(a) /\ BistAt(p, i) /\ \A j \in i + 1 .. k - 1 : p[j].cmd # "AUTO_ADDRESS"
       /\ ~Rereads(p[j], a)

\* A program counts before it uses the counts.
Counted(p) ==
  \A k \in 1 .. Len(p), a \in Addresses :
     /\ p[k].cmd \in Uses => CountedAt(p, k, a)
     /\ p[k].cmd = "DISTRIBUTE" => FoundAt(p, k, a)

\* Commands that use no count, and those that leave addresses and counts as they are.
Quiet == {s \in Steps : s.cmd \notin Uses}
Keep  == {s \in Quiet : ~Renumbers(s) /\ s.cmd # "READ_BIST"}

\* Beginnings of programs: orderly, and ending numbered, counted, with a BIST.
Orderly(s) == s \in Seq(Steps) /\ Counted(s)
Num(s)   == Orderly(s) /\ NumberedAt(s, Len(s) + 1)
Cnt(s)   == Num(s) /\ \A a \in Addresses : CountedAt(s, Len(s) + 1, a)
Bst(s)   == Cnt(s) /\ \A a \in Addresses : FoundAt(s, Len(s) + 1, a)

LEMMA ConcatFacts ==
  ASSUME NEW S, NEW s \in Seq(S), NEW t \in Seq(S)
  PROVE  /\ s \o t \in Seq(S) /\ Len(s \o t) = Len(s) + Len(t)
         /\ Len(s) \in Nat /\ Len(t) \in Nat
         /\ \A k \in 1 .. Len(s) : (s \o t)[k] = s[k]
         /\ \A k \in 1 .. Len(t) : (s \o t)[Len(s) + k] = t[k]
         /\ \A k \in 1 .. Len(s) + Len(t) :
              k \in 1 .. Len(s) \/ (k - Len(s) \in 1 .. Len(t) /\ k = Len(s) + (k - Len(s)))
  OBVIOUS

\* What holds before command k depends on the commands before it only.
LEMMA Before ==
  ASSUME NEW s, NEW u, NEW k \in Nat \ {0}, \A j \in 1 .. k - 1 : u[j] = s[j], NEW a \in Addresses
  PROVE  /\ NumberedAt(s, k) => NumberedAt(u, k)
         /\ CountedAt(s, k, a) => CountedAt(u, k, a)
         /\ FoundAt(s, k, a) => FoundAt(u, k, a)
  <1>1. \A i \in 1 .. k : NumberedAt(s, i) => NumberedAt(u, i)
    BY DEF NumberedAt
  <1>2. CountedAt(s, k, a) => CountedAt(u, k, a)
    BY <1>1 DEF CountedAt
  <1>3. \A c : \A i \in 1 .. k : FilledAt(s, i, c) => FilledAt(u, i, c)
    BY DEF FilledAt
  <1>4. \A i \in 1 .. k : GoldenAt(s, i) => GoldenAt(u, i)
    BY <1>3 DEF GoldenAt
  <1>5. \A i \in 1 .. k : BistAt(s, i) => BistAt(u, i)
    BY <1>4 DEF BistAt
  <1>6. FoundAt(s, k, a) => FoundAt(u, k, a)
    BY <1>5 DEF FoundAt
  <1>7. QED
    BY <1>1, <1>2, <1>6

\* It stays true behind other commands.
LEMMA After ==
  ASSUME NEW t, NEW u, NEW n \in Nat, NEW k \in Nat \ {0}, \A j \in 1 .. k - 1 : u[n + j] = t[j],
         NEW a \in Addresses
  PROVE  /\ NumberedAt(t, k) => NumberedAt(u, n + k)
         /\ FoundAt(t, k, a) => FoundAt(u, n + k, a)
  <1>0. \A x, y : \A i \in 1 .. k : x \in 1 .. i - 1 =>
          /\ n + x \in 1 .. n + i - 1 /\ u[n + x] = t[x]
          /\ y \in n + x + 1 .. n + i - 1 => y - n \in x + 1 .. i - 1 /\ u[y] = t[y - n]
    OBVIOUS
  <1>1. \A i \in 1 .. k : NumberedAt(t, i) => NumberedAt(u, n + i)
    BY <1>0 DEF NumberedAt
  <1>3. \A c : \A i \in 1 .. k : FilledAt(t, i, c) => FilledAt(u, n + i, c)
    BY <1>0 DEF FilledAt
  <1>4. \A i \in 1 .. k : GoldenAt(t, i) => GoldenAt(u, n + i)
    BY <1>3 DEF GoldenAt
  <1>5. \A i \in 1 .. k : BistAt(t, i) => BistAt(u, n + i)
    BY <1>4, <1>0 DEF BistAt
  <1>6. FoundAt(t, k, a) => FoundAt(u, n + k, a)
    BY <1>5, <1>0 DEF FoundAt
  <1>7. QED
    BY <1>1, <1>6

\* Commands that use no count keep a beginning orderly.
LEMMA QuietConcat ==
  ASSUME NEW s, Orderly(s), NEW t \in Seq(Quiet)
  PROVE  /\ Orderly(s \o t)
         /\ NumberedAt(t, Len(t) + 1) => Num(s \o t)
  <1>1. t \in Seq(Steps) /\ s \in Seq(Steps) /\ \A k \in 1 .. Len(t) : t[k].cmd \notin Uses
    BY DEF Orderly, Quiet
  <1> DEFINE u == s \o t
  <1>2. /\ u \in Seq(Steps) /\ Len(u) = Len(s) + Len(t) /\ Len(s) \in Nat /\ Len(t) \in Nat
        /\ \A k \in 1 .. Len(s) : u[k] = s[k]
        /\ \A k \in 1 .. Len(t) : u[Len(s) + k] = t[k]
        /\ \A k \in 1 .. Len(u) : k \in 1 .. Len(s)
             \/ (k - Len(s) \in 1 .. Len(t) /\ k = Len(s) + (k - Len(s)))
    BY <1>1, ConcatFacts
  <1> HIDE DEF u
  <1>3. Counted(u)
    <2> SUFFICES ASSUME NEW k \in 1 .. Len(u), NEW a \in Addresses, u[k].cmd \in Uses
                 PROVE  CountedAt(u, k, a) /\ (u[k].cmd = "DISTRIBUTE" => FoundAt(u, k, a))
      BY DEF Counted, Uses
    <2>1. k \in 1 .. Len(s)
      <3>1. CASE k - Len(s) \in 1 .. Len(t) /\ k = Len(s) + (k - Len(s))
        BY <1>1, <1>2, <3>1
      <3>2. QED
        BY <1>2, <3>1
    <2>2. u[k] = s[k] /\ k \in Nat \ {0} /\ \A j \in 1 .. k - 1 : u[j] = s[j]
      BY <1>2, <2>1
    <2>3. CountedAt(s, k, a) /\ (s[k].cmd = "DISTRIBUTE" => FoundAt(s, k, a))
      BY <2>1, <2>2 DEF Orderly, Counted
    <2>4. QED
      BY <2>2, <2>3, Before
  <1>4. ASSUME NumberedAt(t, Len(t) + 1) PROVE NumberedAt(u, Len(u) + 1)
    <2>1. PICK a \in Addresses : TRUE
      BY BringupAssumption DEF Addresses
    <2>2. Len(t) + 1 \in Nat \ {0} /\ \A j \in 1 .. (Len(t) + 1) - 1 : u[Len(s) + j] = t[j]
      BY <1>2
    <2>4. NumberedAt(u, Len(s) + (Len(t) + 1))
      BY <1>2, <1>4, <2>2, After
    <2>3. QED
      BY <1>2, <2>4
  <1>5. QED
    BY <1>2, <1>3, <1>4 DEF u, Orderly, Num

\* Commands that move no address keep it numbered, and their reads count.
LEMMA KeepsNumbers ==
  ASSUME NEW s, Num(s), NEW t \in Seq(Quiet), \A k \in 1 .. Len(t) : ~Renumbers(t[k])
  PROVE  /\ Num(s \o t)
         /\ \A a \in Addresses : (\E i \in 1 .. Len(t) : t[i] = ReadOf(a))
              => CountedAt(s \o t, Len(s \o t) + 1, a)
         /\ \A a \in Addresses : CountedAt(s, Len(s) + 1, a)
              => CountedAt(s \o t, Len(s \o t) + 1, a)
         /\ \A a \in Addresses : FoundAt(t, Len(t) + 1, a) => FoundAt(s \o t, Len(s \o t) + 1, a)
         /\ \A a \in Addresses : FoundAt(s, Len(s) + 1, a) /\ t \in Seq(Keep)
              => FoundAt(s \o t, Len(s \o t) + 1, a)
  <1>1. t \in Seq(Steps) /\ s \in Seq(Steps) /\ Orderly(s) /\ NumberedAt(s, Len(s) + 1)
    BY DEF Num, Orderly, Quiet
  <1> DEFINE u == s \o t
  <1>2. /\ u \in Seq(Steps) /\ Len(u) = Len(s) + Len(t) /\ Len(s) \in Nat /\ Len(t) \in Nat
        /\ \A k \in 1 .. Len(s) : u[k] = s[k]
        /\ \A k \in 1 .. Len(t) : u[Len(s) + k] = t[k]
        /\ \A k \in 1 .. Len(u) : k \in 1 .. Len(s)
             \/ (k - Len(s) \in 1 .. Len(t) /\ k = Len(s) + (k - Len(s)))
    BY <1>1, ConcatFacts
  <1>3. Orderly(u)
    BY <1>1, QuietConcat
  <1> HIDE DEF u
  <1>4. \A j \in Len(s) + 1 .. Len(u) : ~Renumbers(u[j])
    <2> TAKE j \in Len(s) + 1 .. Len(u)
    <2>1. j - Len(s) \in 1 .. Len(t) /\ u[j] = t[j - Len(s)]
      BY <1>2
    <2>2. QED
      BY <2>1
  <1>5. \A a \in Addresses :
          /\ NumberedAt(u, Len(s) + 1)
          /\ CountedAt(s, Len(s) + 1, a) => CountedAt(u, Len(s) + 1, a)
          /\ FoundAt(s, Len(s) + 1, a) => FoundAt(u, Len(s) + 1, a)
    <2>1. Len(s) + 1 \in Nat \ {0} /\ \A j \in 1 .. (Len(s) + 1) - 1 : u[j] = s[j]
      BY <1>2
    <2>2. QED
      BY <1>1, <2>1, Before
  <1>6. \A k \in Len(s) + 1 .. Len(u) + 1 : NumberedAt(u, k)
    <2>0. NumberedAt(u, Len(s) + 1)
      BY <1>5, BringupAssumption DEF Addresses
    <2>1. PICK i \in 1 .. Len(s) : u[i] = Readdress /\ \A j \in i + 1 .. Len(s) : ~Renumbers(u[j])
      BY <2>0, <1>2 DEF NumberedAt
    <2>2. \A j \in i + 1 .. Len(u) : ~Renumbers(u[j])
      BY <1>2, <1>4, <2>1
    <2>3. \A k \in Len(s) + 1 .. Len(u) + 1 : i \in 1 .. k - 1
            /\ \A j \in i + 1 .. k - 1 : j \in i + 1 .. Len(u)
      BY <1>2
    <2>4. QED
      BY <2>1, <2>2, <2>3 DEF NumberedAt
  <1>7. ASSUME NEW a \in Addresses, NEW i \in 1 .. Len(t), t[i] = ReadOf(a)
        PROVE  CountedAt(u, Len(u) + 1, a)
    <2>1. Len(s) + i \in 1 .. Len(u) /\ u[Len(s) + i] = ReadOf(a) /\ NumberedAt(u, Len(s) + i)
      BY <1>2, <1>6, <1>7
    <2>2. QED
      BY <2>1, <1>2, <1>4 DEF CountedAt
  <1>8. ASSUME NEW a \in Addresses, CountedAt(s, Len(s) + 1, a)
        PROVE  CountedAt(u, Len(u) + 1, a)
    <2>1. PICK i \in 1 .. Len(s) : /\ u[i] = ReadOf(a) /\ NumberedAt(u, i)
                                   /\ \A j \in i + 1 .. Len(s) : ~Renumbers(u[j])
      BY SMTT(30), <1>2, <1>5, <1>8 DEF CountedAt
    <2>2. \A j \in i + 1 .. Len(u) : ~Renumbers(u[j])
      BY <1>2, <1>4, <2>1
    <2>3. QED
      BY <1>2, <2>1, <2>2 DEF CountedAt
  <1>9. ASSUME NEW a \in Addresses, FoundAt(t, Len(t) + 1, a)
        PROVE  FoundAt(u, Len(u) + 1, a)
    <2>1. Len(t) + 1 \in Nat \ {0} /\ \A j \in 1 .. (Len(t) + 1) - 1 : u[Len(s) + j] = t[j]
      BY <1>2
    <2>2. FoundAt(u, Len(s) + (Len(t) + 1), a)
      BY <1>2, <1>9, <2>1, After
    <2>3. QED
      BY <1>2, <2>2
  <1>10. ASSUME NEW a \in Addresses, FoundAt(s, Len(s) + 1, a), t \in Seq(Keep)
         PROVE  FoundAt(u, Len(u) + 1, a)
    <2>1. PICK i \in 1 .. Len(s) : /\ u[i] = ReadOf(a) /\ BistAt(u, i)
                                   /\ \A j \in i + 1 .. Len(s) : u[j].cmd # "AUTO_ADDRESS"
                                        /\ ~Rereads(u[j], a)
      BY <1>2, <1>5, <1>10 DEF FoundAt
    <2>2. \A j \in Len(s) + 1 .. Len(u) : u[j].cmd # "AUTO_ADDRESS" /\ ~Rereads(u[j], a)
      <3> TAKE j \in Len(s) + 1 .. Len(u)
      <3>1. j - Len(s) \in 1 .. Len(t) /\ u[j] = t[j - Len(s)]
        BY <1>2
      <3>2. t[j - Len(s)] \in Keep
        BY <1>10, <3>1
      <3>3. t[j - Len(s)].cmd # "AUTO_ADDRESS" /\ t[j - Len(s)].cmd # "READ_BIST"
        BY <3>2 DEF Keep, Renumbers
      <3>4. QED
        BY <3>1, <3>3 DEF Rereads
    <2>3. \A j \in i + 1 .. Len(u) : u[j].cmd # "AUTO_ADDRESS" /\ ~Rereads(u[j], a)
      BY <1>2, <2>1, <2>2
    <2>4. QED
      BY <1>2, <2>1, <2>3 DEF FoundAt
  <1>11. Num(u)
    BY <1>2, <1>3, <1>6 DEF Num
  <1>12. QED
    BY <1>7, <1>8, <1>9, <1>10, <1>11 DEF u

\* A whole program.
Done(p) == IsProgram(p) /\ Counted(p)

LEMMA KeepQuiet ==
  \A t \in Seq(Keep) : t \in Seq(Quiet) /\ \A k \in 1 .. Len(t) : t[k] \in Keep /\ ~Renumbers(t[k])
  BY DEF Keep

LEMMA KeepConcat ==
  ASSUME NEW s, NEW t \in Seq(Keep)
  PROVE  /\ Num(s) => Num(s \o t)
         /\ Cnt(s) => Cnt(s \o t)
         /\ Bst(s) => Bst(s \o t)
  BY KeepQuiet, KeepsNumbers DEF Cnt, Bst

LEMMA UseConcat ==
  ASSUME NEW s, Cnt(s), NEW x \in Steps, x.cmd \in Uses, x.cmd = "DISTRIBUTE" => Bst(s)
  PROVE  Cnt(s \o <<x>>) /\ (Bst(s) => Bst(s \o <<x>>))
  <1>1. s \in Seq(Steps) /\ Orderly(s) /\ NumberedAt(s, Len(s) + 1) /\ <<x>> \in Seq(Steps)
    BY DEF Cnt, Num, Orderly
  <1> DEFINE u == s \o <<x>>
  <1>2. /\ u \in Seq(Steps) /\ Len(u) = Len(s) + 1 /\ Len(s) \in Nat
        /\ \A k \in 1 .. Len(s) : u[k] = s[k]
        /\ u[Len(s) + 1] = x
    BY <1>1
  <1> HIDE DEF u
  <1>3. \A a \in Addresses, k \in 1 .. Len(s) + 1 :
          /\ NumberedAt(s, k) => NumberedAt(u, k)
          /\ CountedAt(s, k, a) => CountedAt(u, k, a)
          /\ FoundAt(s, k, a) => FoundAt(u, k, a)
    <2> TAKE a \in Addresses, k \in 1 .. Len(s) + 1
    <2>1. k \in Nat \ {0} /\ \A j \in 1 .. k - 1 : u[j] = s[j]
      BY <1>2
    <2>2. QED
      BY <2>1, Before
  <1>4. /\ NumberedAt(u, Len(s) + 1)
        /\ \A a \in Addresses : CountedAt(u, Len(s) + 1, a) /\ (Bst(s) => FoundAt(u, Len(s) + 1, a))
    <2>1. PICK a \in Addresses : TRUE
      BY BringupAssumption DEF Addresses
    <2>2. Len(s) + 1 \in 1 .. Len(s) + 1
      BY <1>2
    <2>3. QED
      BY <1>1, <1>3 DEF Cnt, Bst
  <1>5. ~Renumbers(x) /\ x.cmd # "AUTO_ADDRESS" /\ \A a : ~Rereads(x, a)
    BY DEF Uses, Renumbers, Rereads
  <1>6. \A a \in Addresses :
          /\ CountedAt(u, Len(u) + 1, a)
          /\ Bst(s) => FoundAt(u, Len(u) + 1, a)
    <2> TAKE a \in Addresses
    <2>1. \A i, j : i \in 1 .. Len(s) /\ j \in i + 1 .. Len(u) => j \in i + 1 .. Len(s) \/ u[j] = x
      BY <1>2
    <2>2. CountedAt(u, Len(u) + 1, a)
      <3>1. PICK i \in 1 .. Len(s) : /\ u[i] = ReadOf(a) /\ NumberedAt(u, i)
                                     /\ \A j \in i + 1 .. Len(s) : ~Renumbers(u[j])
        BY <1>2, <1>4 DEF CountedAt
      <3>2. QED
        BY <1>2, <1>5, <3>1 DEF CountedAt
    <2>3. ASSUME Bst(s) PROVE FoundAt(u, Len(u) + 1, a)
      <3>1. PICK i \in 1 .. Len(s) : /\ u[i] = ReadOf(a) /\ BistAt(u, i)
                                     /\ \A j \in i + 1 .. Len(s) : u[j].cmd # "AUTO_ADDRESS"
                                          /\ ~Rereads(u[j], a)
        BY <1>2, <1>4, <2>3 DEF FoundAt
      <3>2. QED
        BY <1>2, <1>5, <2>1, <3>1 DEF FoundAt
    <2>4. QED
      BY <2>2, <2>3
  <1>7. NumberedAt(u, Len(u) + 1)
    <2>1. PICK i \in 1 .. Len(s) : u[i] = Readdress /\ \A j \in i + 1 .. Len(s) : ~Renumbers(u[j])
      BY <1>2, <1>4 DEF NumberedAt
    <2>2. \A j \in i + 1 .. Len(u) : j \in i + 1 .. Len(s) \/ u[j] = x
      BY <1>2
    <2>3. QED
      BY <1>2, <1>5, <2>1, <2>2 DEF NumberedAt
  <1>8. Counted(u)
    <2> SUFFICES ASSUME NEW k \in 1 .. Len(u), NEW a \in Addresses, u[k].cmd \in Uses
                 PROVE  CountedAt(u, k, a) /\ (u[k].cmd = "DISTRIBUTE" => FoundAt(u, k, a))
      BY DEF Counted, Uses
    <2>1. CASE k \in 1 .. Len(s)
      <3>1. u[k] = s[k] /\ k \in 1 .. Len(s) + 1
        BY <1>2, <2>1
      <3>2. CountedAt(s, k, a) /\ (s[k].cmd = "DISTRIBUTE" => FoundAt(s, k, a))
        BY <1>1, <2>1, <3>1 DEF Orderly, Counted
      <3>3. QED
        BY <1>3, <3>1, <3>2
    <2>2. CASE k = Len(s) + 1
      BY <1>2, <1>4, <2>2
    <2>3. QED
      BY <1>2, <2>1, <2>2
  <1>9. QED
    BY <1>6, <1>7, <1>8 DEF u, Cnt, Bst, Num, Orderly

\* An orderly beginning with an end is a program.
LEMMA Ending ==
  ASSUME NEW s, Orderly(s)
  PROVE  Done(s \o Mine) /\ Done(s \o Passed)
  <1>1. s \in Seq(Steps) /\ Counted(s)
    BY DEF Orderly
  <1>2. IsProgram(s \o Mine) /\ IsProgram(s \o Passed)
    BY <1>1, ProgramType
  <1>3. ASSUME NEW e, e.cmd = "END" PROVE Counted(s \o <<e>>)
    <2> DEFINE u == s \o <<e>>
    <2>1. /\ Len(u) = Len(s) + 1 /\ Len(s) \in Nat
          /\ \A k \in 1 .. Len(s) : u[k] = s[k]
          /\ u[Len(s) + 1] = e
      BY <1>1
    <2> HIDE DEF u
    <2> SUFFICES ASSUME NEW k \in 1 .. Len(u), NEW a \in Addresses, u[k].cmd \in Uses
                 PROVE  CountedAt(u, k, a) /\ (u[k].cmd = "DISTRIBUTE" => FoundAt(u, k, a))
      BY DEF Counted, Uses, u
    <2>2. k \in 1 .. Len(s) /\ k \in Nat \ {0} /\ u[k] = s[k] /\ \A j \in 1 .. k - 1 : u[j] = s[j]
      BY <2>1, <1>3 DEF Uses
    <2>3. CountedAt(s, k, a) /\ (s[k].cmd = "DISTRIBUTE" => FoundAt(s, k, a))
      BY <1>1, <2>2 DEF Counted
    <2>4. QED
      BY <2>2, <2>3, Before
  <1>4. Mine = <<Command("END", 0, -1, "mining")>> /\ Passed = <<Command("END", 0, -1, "passed")>>
    BY DEF Mine, Passed, Host, All, Step
  <1>5. \A arg : Command("END", 0, -1, arg).cmd = "END"
    BY DEF Command
  <1>6. QED
    BY <1>2, <1>3, <1>4, <1>5 DEF Done

\* The commands that make up Keep.
KeepFits(cmd, arg) ==
  /\ ArgFits(cmd, arg) /\ cmd \notin Uses \cup {"HW_RESET", "AUTO_ADDRESS", "READ_BIST"}
  /\ cmd = "SET_CONTROL" => arg = OON

LEMMA KeepPiece ==
  ASSUME NEW cmd, NEW arg, KeepFits(cmd, arg)
  PROVE  /\ All(cmd, arg) \in Seq(Keep) /\ Host(cmd, arg) \in Seq(Keep)
         /\ Each(cmd, arg) \in Seq(Keep) /\ MustAll(cmd, arg) \in Seq(Keep)
         /\ \A a \in Addresses : One(a, cmd, arg) \in Seq(Keep)
         /\ \A first \in Addresses \cup {MaxChips + 1} : From(first, cmd, arg) \in Seq(Keep)
  <1> USE BringupAssumption
  <1>1. \A a \in 0 .. MaxChips, need \in -1 .. MaxChips :
          Command(cmd, a, need, arg) \in Keep /\ Must(Command(cmd, a, need, arg)) \in Keep
    <2> TAKE a \in 0 .. MaxChips, need \in -1 .. MaxChips
    <2>1. Command(cmd, a, need, arg) \in Steps /\ Must(Command(cmd, a, need, arg)) \in Steps
      BY CommandType DEF KeepFits
    <2>2. /\ Command(cmd, a, need, arg).cmd = cmd /\ Command(cmd, a, need, arg).arg = arg
          /\ Must(Command(cmd, a, need, arg)).cmd = cmd
          /\ Must(Command(cmd, a, need, arg)).arg = arg
      BY DEF Command, Must
    <2>3. ~OON.last
      BY DEF OON
    <2>4. ~Renumbers(Command(cmd, a, need, arg)) /\ ~Renumbers(Must(Command(cmd, a, need, arg)))
      BY <2>2, <2>3 DEF Renumbers, KeepFits
    <2>5. QED
      BY <2>1, <2>2, <2>4 DEF Keep, Quiet, KeepFits
  <1>2. All(cmd, arg) \in Seq(Keep) /\ Host(cmd, arg) \in Seq(Keep)
          /\ MustAll(cmd, arg) \in Seq(Keep)
    BY <1>1 DEF All, Host, MustAll, Step
  <1>3. \A a \in Addresses : One(a, cmd, arg) \in Seq(Keep)
    BY <1>1 DEF One, Step, Addresses
  <1>4. Each(cmd, arg) \in [1 .. MaxChips -> Keep]
    BY <1>1 DEF Each, Addresses
  <1>5. \A first \in Addresses \cup {MaxChips + 1} : From(first, cmd, arg) \in Seq(Keep)
    <2> TAKE first \in Addresses \cup {MaxChips + 1}
    <2>1. From(first, cmd, arg) \in [1 .. MaxChips + 1 - first -> Keep]
      BY <1>1 DEF From, Addresses
    <2>2. QED
      BY <2>1 DEF Addresses
  <1>6. QED
    BY <1>2, <1>3, <1>4, <1>5

LEMMA Bounds ==
  /\ MaxChips \in Nat \ {0} /\ 1 \in Addresses
  /\ -1 \in -1 .. MaxChips /\ 0 \in -1 .. MaxChips /\ 1 \in -1 .. MaxChips
  /\ -1 \in -1 .. MaxChips + 1
  /\ \A a \in 0 .. MaxChips : a \in -1 .. MaxChips /\ a \in -1 .. MaxChips + 1
  /\ \A a \in -1 .. MaxChips : a \in -1 .. MaxChips + 1
  /\ \A a \in Addresses : a \in 0 .. MaxChips
  /\ 0 \in 0 .. MaxChips
  BY BringupAssumption DEF Addresses

LEMMA KeepPieces ==
  /\ \A mask \in Masks : /\ All("SET_DISABLE", mask) \in Seq(Keep)
                         /\ Each("SET_DISABLE", mask) \in Seq(Keep)
                         /\ Each("WRITE_CORE_CFG", mask) \in Seq(Keep)
  /\ All("SET_CONTROL", OON) \in Seq(Keep)
  /\ \A first \in Addresses \cup {MaxChips + 1} : From(first, "SET_CONTROL", OON) \in Seq(Keep)
  /\ All("RESET", "") \in Seq(Keep) /\ BoardType \in Seq(Keep)
  /\ SetPllFreq \in Seq(Keep) /\ SetPll \in Seq(Keep)
  /\ \A v \in Data : /\ All("WRITE_PARAM", v) \in Seq(Keep) /\ All("WRITE_TARGET", v) \in Seq(Keep)
                     /\ Vector(v) \in Seq(Keep)
  /\ \A v \in Ranges \cup {"share"} : All("WRITE_NONCE", v) \in Seq(Keep)
       /\ Each("WRITE_NONCE", v) \in Seq(Keep)
  /\ \A v \in Ranges : One(1, "WRITE_NONCE", v) \in Seq(Keep)
  /\ All("RUN_BIST", "") \in Seq(Keep) /\ Each("RUN_BIST", "") \in Seq(Keep)
  /\ One(1, "PLL_OFF", "") \in Seq(Keep)
  /\ CheckChips \in Seq(Keep) /\ SetWork \in Seq(Keep) /\ RandomJob \in Seq(Keep)
  /\ AddGoldenJob \in Seq(Keep) /\ GoldenNonce \in Seq(Keep)
  /\ One(1, "SET_CONTROL", LAST_OON) \in Seq(Keep)
  /\ MustAll("WRITE_IO_CTRL", "written") \in Seq(Keep)
  /\ \A v \in Data : MustAll("WRITE_TARGET", v) \in Seq(Keep)
  /\ \A v \in Masks : MustAll("SET_DISABLE", v) \in Seq(Keep)
  /\ \A n \in Nat : Jobs(n) \in Seq(Keep)
  <1> USE BringupAssumption
  <1>1. \A s, t \in Seq(Keep) : s \o t \in Seq(Keep)
    OBVIOUS
  <1>2. \A mask \in Masks : /\ KeepFits("SET_DISABLE", mask) /\ KeepFits("WRITE_CORE_CFG", mask)
    BY DEF KeepFits, ArgFits, Uses
  <1>3. KeepFits("SET_CONTROL", OON)
    BY DEF KeepFits, ArgFits, Uses, OON, Controls
  <1>4. \A cmd \in Plain \ {"HW_RESET", "AUTO_ADDRESS", "READ_BIST"} : KeepFits(cmd, "")
    BY DEF KeepFits, ArgFits, Uses, Plain
  <1>5. \A v \in Data : KeepFits("WRITE_PARAM", v) /\ KeepFits("WRITE_TARGET", v)
    BY DEF KeepFits, ArgFits, Uses
  <1>6. \A v \in Ranges \cup {"share"} : KeepFits("WRITE_NONCE", v)
    BY DEF KeepFits, ArgFits, Uses
  <1>7. KeepFits("WRITE_IO_CTRL", "written")
    BY DEF KeepFits, ArgFits, Uses
  <1>8. \A mask \in Masks : /\ All("SET_DISABLE", mask) \in Seq(Keep)
                            /\ Each("SET_DISABLE", mask) \in Seq(Keep)
                            /\ Each("WRITE_CORE_CFG", mask) \in Seq(Keep)
                            /\ MustAll("SET_DISABLE", mask) \in Seq(Keep)
    BY <1>2, KeepPiece
  <1>9. /\ All("SET_CONTROL", OON) \in Seq(Keep)
        /\ \A first \in Addresses \cup {MaxChips + 1} :
             From(first, "SET_CONTROL", OON) \in Seq(Keep)
    BY <1>3, KeepPiece
  <1>10. \A cmd \in Plain \ {"HW_RESET", "AUTO_ADDRESS", "READ_BIST"} :
           /\ All(cmd, "") \in Seq(Keep) /\ Host(cmd, "") \in Seq(Keep)
           /\ Each(cmd, "") \in Seq(Keep)
           /\ \A a \in Addresses : One(a, cmd, "") \in Seq(Keep)
    BY <1>4, KeepPiece
  <1>11. /\ All("RESET", "") \in Seq(Keep) /\ All("READ_FEATURE", "") \in Seq(Keep)
         /\ Host("PLL_FREQ", "") \in Seq(Keep) /\ Each("SET_PLL", "") \in Seq(Keep)
         /\ All("RUN_BIST", "") \in Seq(Keep) /\ Each("RUN_BIST", "") \in Seq(Keep)
         /\ One(1, "PLL_OFF", "") \in Seq(Keep) /\ All("RUN_JOB", "") \in Seq(Keep)
         /\ Host("CHECK_CHIPS", "") \in Seq(Keep) /\ Each("CHECK_ID", "") \in Seq(Keep)
    <2>1. 1 \in Addresses
      BY DEF Addresses
    <2>2. QED
      BY <1>10, <2>1 DEF Plain
  <1>12. \A v \in Data : /\ All("WRITE_PARAM", v) \in Seq(Keep)
                         /\ All("WRITE_TARGET", v) \in Seq(Keep)
                         /\ MustAll("WRITE_TARGET", v) \in Seq(Keep)
    BY <1>5, KeepPiece
  <1>13. /\ \A v \in Ranges \cup {"share"} : All("WRITE_NONCE", v) \in Seq(Keep)
              /\ Each("WRITE_NONCE", v) \in Seq(Keep)
         /\ \A v \in Ranges : One(1, "WRITE_NONCE", v) \in Seq(Keep)
    BY <1>6, KeepPiece DEF Addresses
  <1>14. \A v \in Data : Vector(v) \in Seq(Keep)
    BY <1>1, <1>12 DEF Vector
  <1>15. MustAll("WRITE_IO_CTRL", "written") \in Seq(Keep)
    BY <1>7, KeepPiece
  <1>16. BoardType \in Seq(Keep) /\ SetPllFreq \in Seq(Keep) /\ SetPll \in Seq(Keep)
           /\ CheckChips \in Seq(Keep)
    BY <1>1, <1>11 DEF BoardType, SetPllFreq, SetPll, CheckChips
  <1>17. "golden" \in Data /\ "vector" \in Data /\ "golden" \in Ranges
    BY DEF Data, Ranges
  <1>18. SetWork \in Seq(Keep) /\ RandomJob \in Seq(Keep) /\ AddGoldenJob \in Seq(Keep)
           /\ GoldenNonce \in Seq(Keep)
    BY <1>1, <1>11, <1>12, <1>13, <1>14, <1>17 DEF SetWork, RandomJob, AddGoldenJob, GoldenNonce
  <1>19. One(1, "SET_CONTROL", LAST_OON) \in Seq(Keep)
    <2>1. LAST_OON \in Controls
      BY DEF LAST_OON, Controls
    <2>5. ArgFits("SET_CONTROL", LAST_OON)
      BY <2>1 DEF ArgFits
    <2>2. Command("SET_CONTROL", 1, -1, LAST_OON) \in Steps
      BY <2>5, CommandType, Bounds
    <2>3. Command("SET_CONTROL", 1, -1, LAST_OON) \in Keep
      BY <2>2 DEF Keep, Quiet, Renumbers, Command, Uses
    <2>4. QED
      BY <2>3 DEF One, Step
  <1>20. \A n \in Nat : Jobs(n) \in Seq(Keep)
    <2>1. Command("RUN_JOB", 0, -1, "") \in Keep
      <3>1. Command("RUN_JOB", 0, -1, "") \in Steps
        <4>1. ArgFits("RUN_JOB", "")
          BY DEF ArgFits, Plain
        <4>2. QED
          BY <4>1, CommandType, Bounds
      <3>2. QED
        BY <3>1 DEF Keep, Quiet, Renumbers, Command, Uses
    <2>2. \A n \in Nat : Jobs(n) \in [1 .. n -> Keep]
      BY <2>1 DEF Jobs
    <2>3. QED
      BY <2>2
  <1>21. QED
    BY <1>8, <1>9, <1>11, <1>12, <1>13, <1>14, <1>15, <1>16, <1>18, <1>19, <1>20

LEMMA StepTypes ==
  /\ \A arg : \A to \in -1 .. MaxChips, need \in -1 .. MaxChips + 1, cmd \in Cmds :
       ArgFits(cmd, arg) => Command(cmd, to, need, arg) \in Steps
  /\ Readdress \in Quiet /\ Command("HW_RESET", 0, -1, "") \in Quiet
  /\ \A a \in Addresses : ReadOf(a) \in Quiet /\ ~Renumbers(ReadOf(a))
  <1> USE BringupAssumption
  <1>1. \A arg : \A to \in -1 .. MaxChips, need \in -1 .. MaxChips + 1, cmd \in Cmds :
       ArgFits(cmd, arg) => Command(cmd, to, need, arg) \in Steps
    BY CommandType
  <1>2. \A cmd \in Plain : ArgFits(cmd, "") /\ cmd \in Cmds
    BY DEF ArgFits, Cmds
  <1>3. \A to \in 0 .. MaxChips, need \in -1 .. MaxChips, cmd \in Plain :
          Command(cmd, to, need, "") \in Quiet
    <2> TAKE to \in 0 .. MaxChips, need \in -1 .. MaxChips, cmd \in Plain
    <2>1. Command(cmd, to, need, "") \in Steps
      BY <1>1, <1>2, Bounds
    <2>2. Command(cmd, to, need, "").cmd = cmd
      BY DEF Command
    <2>3. QED
      BY <2>1, <2>2 DEF Quiet, Uses, Plain
  <1>4. Readdress \in Quiet /\ Command("HW_RESET", 0, -1, "") \in Quiet
    <2>1. "AUTO_ADDRESS" \in Plain /\ "HW_RESET" \in Plain
      BY DEF Plain
    <2>2. QED
      BY <1>3, <2>1, Bounds DEF Readdress
  <1>5. \A a \in Addresses : ReadOf(a) \in Quiet /\ ~Renumbers(ReadOf(a))
    <2> TAKE a \in Addresses
    <2>1. ReadOf(a) \in Quiet
      <3>1. "READ_BIST" \in Plain
        BY DEF Plain
      <3>2. QED
        BY <1>3, <3>1, Bounds DEF ReadOf
    <2>2. ReadOf(a).cmd = "READ_BIST"
      BY DEF ReadOf, Command
    <2>3. QED
      BY <2>1, <2>2 DEF Renumbers
  <1>6. QED
    BY <1>1, <1>4, <1>5

LEMMA Pair == \A S : \A x, y \in S : <<x>> \o <<y>> = <<x, y>>
  <1> TAKE S
  <1> TAKE x, y \in S
  <1>1. <<x>> \in Seq(S) /\ <<y>> \in Seq(S) /\ <<x, y>> \in Seq(S)
    OBVIOUS
  <1> DEFINE u == <<x>> \o <<y>>
  <1>2. u \in Seq(S) /\ Len(u) = 2 /\ u[1] = x /\ u[2] = y
    BY <1>1
  <1> HIDE DEF u
  <1>3. u = <<x, y>>
    BY <1>1, <1>2, SeqEqual
  <1>4. QED
    BY <1>3 DEF u

LEMMA Three == \A S : \A x, y, z \in S : <<x, y>> \o <<z>> = <<x, y, z>>
  <1> TAKE S
  <1> TAKE x, y, z \in S
  <1>1. <<x, y>> \in Seq(S) /\ <<z>> \in Seq(S) /\ <<x, y, z>> \in Seq(S)
    OBVIOUS
  <1> DEFINE u == <<x, y>> \o <<z>>
  <1>2. u \in Seq(S) /\ Len(u) = 3 /\ u[1] = x /\ u[2] = y /\ u[3] = z
    BY <1>1
  <1> HIDE DEF u
  <1>3. u = <<x, y, z>>
    BY <1>1, <1>2, SeqEqual
  <1>4. QED
    BY <1>3 DEF u

LEMMA Four == \A S : \A x, y, z, w \in S : <<x, y, z>> \o <<w>> = <<x, y, z, w>>
  <1> TAKE S
  <1> TAKE x, y, z, w \in S
  <1>1. <<x, y, z>> \in Seq(S) /\ <<w>> \in Seq(S) /\ <<x, y, z, w>> \in Seq(S)
    OBVIOUS
  <1> DEFINE u == <<x, y, z>> \o <<w>>
  <1>2. u \in Seq(S) /\ Len(u) = 4 /\ u[1] = x /\ u[2] = y /\ u[3] = z /\ u[4] = w
    BY <1>1
  <1> HIDE DEF u
  <1>3. u = <<x, y, z, w>>
    BY <1>1, <1>2, SeqEqual
  <1>4. QED
    BY <1>3 DEF u

\* A reset or SET_CONTROL with the numbering after it.
LEMMA Starting ==
  /\ Num(Start)
  /\ \A s : Orderly(s) => Num(s \o Host("AUTO_ADDRESS", ""))
  /\ \A s : Orderly(s) => \A a \in -1 .. MaxChips, control \in Controls :
       Num(s \o SetLast(a, control))
  /\ \A s : Orderly(s) => \A t \in Seq(Quiet) : Orderly(s \o t)
  <1> USE BringupAssumption
  <1>1. \A s : Orderly(s) => \A t \in Seq(Quiet) : Orderly(s \o t)
          /\ (NumberedAt(t, Len(t) + 1) => Num(s \o t))
    BY QuietConcat
  <1>2. \A x : NumberedAt(<<x, Readdress>>, 3) /\ NumberedAt(<<Readdress>>, 2)
    BY DEF NumberedAt
  <1>3. \A x \in Quiet : /\ <<x>> \o Host("AUTO_ADDRESS", "") = <<x, Readdress>>
                         /\ <<x, Readdress>> \in Seq(Quiet) /\ Len(<<x, Readdress>>) + 1 = 3
                         /\ Host("AUTO_ADDRESS", "") = <<Readdress>> /\ <<Readdress>> \in Seq(Quiet)
                         /\ Len(<<Readdress>>) + 1 = 2
    <2>1. Host("AUTO_ADDRESS", "") = <<Readdress>> /\ Readdress \in Quiet
      BY StepTypes DEF Host, All, Step, Readdress
    <2>2. \A x, y \in Quiet : <<x>> \o <<y>> = <<x, y>>
      BY Pair
    <2>3. \A x, y \in Quiet : <<x, y>> \in Seq(Quiet) /\ Len(<<x, y>>) + 1 = 3
      OBVIOUS
    <2>4. \A y \in Quiet : <<y>> \in Seq(Quiet) /\ Len(<<y>>) + 1 = 2
      OBVIOUS
    <2>5. QED
      BY <2>1, <2>2, <2>3, <2>4
  <1>4. \A x \in Quiet : \A s : Orderly(s) => Num(s \o (<<x>> \o Host("AUTO_ADDRESS", "")))
    BY <1>1, <1>2, <1>3
  <1>5. \A a \in -1 .. MaxChips, control \in Controls :
          Command("SET_CONTROL", a, -1, control) \in Quiet
    <2> TAKE a \in -1 .. MaxChips, control \in Controls
    <2>1. ArgFits("SET_CONTROL", control)
      BY DEF ArgFits
    <2>2. Command("SET_CONTROL", a, -1, control) \in Steps
      BY <2>1, CommandType, Bounds
    <2>3. QED
      BY <2>2 DEF Quiet, Command, Uses
  <1>6. \A s : Orderly(s) => \A a \in -1 .. MaxChips, control \in Controls :
          Num(s \o SetLast(a, control))
    BY <1>4, <1>5 DEF SetLast, One, Step
  <1>7. \A s : Orderly(s) => Num(s \o Host("AUTO_ADDRESS", ""))
    BY <1>1, <1>2, <1>3, StepTypes
  <1>8. Num(Start)
    <2>1. <<>> \in Seq(Steps) /\ Len(<<>>) = 0
      OBVIOUS
    <2>2. Orderly(<<>>)
      BY <2>1 DEF Orderly, Counted
    <2>3. Start \in Seq(Quiet) /\ <<>> \o Start = Start
            /\ Start = <<Command("HW_RESET", 0, -1, "")>> \o Host("AUTO_ADDRESS", "")
      <3> DEFINE h == Command("HW_RESET", 0, -1, "")
      <3>1. Start = <<h>> \o Host("AUTO_ADDRESS", "")
        BY DEF Start, Host, All, Step
      <3>2. h \in Quiet
        BY StepTypes
      <3> HIDE DEF h
      <3>3. Start = <<h, Readdress>> /\ Start \in Seq(Quiet)
        BY <1>3, <3>1, <3>2
      <3>4. <<>> \o Start = Start
        BY <3>3
      <3>5. QED
        BY <3>1, <3>3, <3>4 DEF h
    <2>4. QED
      BY <1>4, <2>2, <2>3, StepTypes
  <1>9. QED
    BY <1>1, <1>6, <1>7, <1>8

LEMMA ReadBistFacts ==
  /\ ReadBist \in Seq(Quiet) /\ Len(ReadBist) = MaxChips
  /\ \A k \in 1 .. Len(ReadBist) : ReadBist[k] = ReadOf(k) /\ ~Renumbers(ReadBist[k])
  <1>1. ReadBist = [a \in 1 .. MaxChips |-> ReadOf(a)]
    BY DEF ReadBist, Each, Addresses, ReadOf
  <1>2. ReadBist \in [1 .. MaxChips -> Quiet]
    BY <1>1, StepTypes DEF Addresses
  <1>3. ReadBist \in Seq(Quiet) /\ Len(ReadBist) = MaxChips
    BY <1>2, Bounds
  <1>4. QED
    BY <1>1, <1>3, StepTypes DEF Addresses

\* RunBist fills, runs BIST and reads all addresses.
LEMMA RunBistFacts ==
  /\ RunBist \in Seq(Quiet)
  /\ \A k \in 1 .. Len(RunBist) : ~Renumbers(RunBist[k])
  /\ \A a \in Addresses : \E k \in 1 .. Len(RunBist) : RunBist[k] = ReadOf(a)
  /\ \A a \in Addresses : FoundAt(RunBist, Len(RunBist) + 1, a)
  <1> DEFINE w == <<Golden("WRITE_PARAM"), Golden("WRITE_TARGET"), Golden("WRITE_NONCE"), RunsBist>>
  <1>1. w \in Seq(Keep) /\ RunBist = w \o ReadBist
    <2>1. /\ "golden" \in Data /\ "golden" \in Ranges
          /\ <<Golden("WRITE_PARAM")>> = All("WRITE_PARAM", "golden")
          /\ <<Golden("WRITE_TARGET")>> = All("WRITE_TARGET", "golden")
          /\ <<Golden("WRITE_NONCE")>> = All("WRITE_NONCE", "golden")
          /\ <<RunsBist>> = All("RUN_BIST", "")
      BY DEF Golden, RunsBist, All, Step, Data, Ranges
    <2>2. /\ <<Golden("WRITE_PARAM")>> \in Seq(Keep) /\ <<Golden("WRITE_TARGET")>> \in Seq(Keep)
          /\ <<Golden("WRITE_NONCE")>> \in Seq(Keep) /\ <<RunsBist>> \in Seq(Keep)
      BY <2>1, KeepPieces
    <2>3. /\ Golden("WRITE_PARAM") \in Keep /\ Golden("WRITE_TARGET") \in Keep
          /\ Golden("WRITE_NONCE") \in Keep /\ RunsBist \in Keep
      BY <2>2
    <2>4. w \in Seq(Keep)
      BY <2>3
    <2>5. RunBist = ((<<Golden("WRITE_PARAM")>> \o <<Golden("WRITE_TARGET")>>)
            \o <<Golden("WRITE_NONCE")>>)
                     \o <<RunsBist>> \o ReadBist
      BY <2>1 DEF RunBist, Vector
    <2>6. ((<<Golden("WRITE_PARAM")>> \o <<Golden("WRITE_TARGET")>>) \o <<Golden("WRITE_NONCE")>>)
                     \o <<RunsBist>> = w
      <3>1. <<Golden("WRITE_PARAM")>> \o <<Golden("WRITE_TARGET")>> = <<Golden("WRITE_PARAM"),
              Golden("WRITE_TARGET")>>
        BY <2>3, Pair
      <3>2. <<Golden("WRITE_PARAM"), Golden("WRITE_TARGET")>> \o <<Golden("WRITE_NONCE")>>
              = <<Golden("WRITE_PARAM"), Golden("WRITE_TARGET"), Golden("WRITE_NONCE")>>
        BY <2>3, Three
      <3>3. QED
        BY ZenonT(40), <2>3, <3>1, <3>2, Four
    <2>7. QED
      BY <2>4, <2>5, <2>6
  <1>2. /\ Len(w) = 4 /\ w[1] = Golden("WRITE_PARAM") /\ w[2] = Golden("WRITE_TARGET")
        /\ w[3] = Golden("WRITE_NONCE") /\ w[4] = RunsBist
    OBVIOUS
  <1> HIDE DEF w
  <1> DEFINE u == RunBist
  <1>3. w \in Seq(Quiet) /\ ReadBist \in Seq(Quiet) /\ \A k \in 1 .. Len(w) : ~Renumbers(w[k])
    BY <1>1, ReadBistFacts, KeepQuiet
  <1>4. /\ u \in Seq(Quiet) /\ Len(u) = 4 + MaxChips
        /\ u[1] = Golden("WRITE_PARAM") /\ u[2] = Golden("WRITE_TARGET")
        /\ u[3] = Golden("WRITE_NONCE") /\ u[4] = RunsBist
        /\ \A a \in Addresses : 4 + a \in 1 .. Len(u) /\ u[4 + a] = ReadOf(a)
        /\ \A k \in 5 .. Len(u) : k - 4 \in Addresses /\ u[k] = ReadOf(k - 4)
        /\ \A k \in 1 .. Len(u) : ~Renumbers(u[k])
    <2>1. /\ u \in Seq(Quiet) /\ Len(u) = 4 + MaxChips
          /\ \A k \in 1 .. 4 : u[k] = w[k]
          /\ \A k \in 1 .. MaxChips : u[4 + k] = ReadBist[k]
          /\ \A k \in 1 .. Len(u) : k \in 1 .. 4 \/ (k - 4 \in 1 .. MaxChips /\ k = 4 + (k - 4))
      <3>1. Len(w) = 4 /\ Len(ReadBist) = MaxChips /\ u = w \o ReadBist /\ MaxChips \in Nat
        BY <1>1, <1>2, ReadBistFacts, Bounds
      <3>2. w \in Seq(Quiet) /\ ReadBist \in Seq(Quiet) /\ w \o ReadBist = u
        BY <1>3, <3>1
      <3> HIDE DEF u
      <3>5. \A k \in 1 .. Len(w) : u[k] = w[k]
        BY <3>2, ConcatFacts
      <3>6. u \in Seq(Quiet) /\ Len(u) = Len(w) + Len(ReadBist)
        BY <3>2, ConcatFacts
      <3>7. \A k \in 1 .. Len(ReadBist) : u[Len(w) + k] = ReadBist[k]
        BY <3>2, ConcatFacts
      <3>4. QED
        BY <3>1, <3>5, <3>6, <3>7
    <2>2. \A k \in 5 .. Len(u) : k - 4 \in Addresses /\ u[k] = ReadOf(k - 4)
      BY <2>1, ReadBistFacts DEF Addresses
    <2>3. \A a \in Addresses : 4 + a \in 1 .. Len(u) /\ u[4 + a] = ReadOf(a)
      BY <2>1, ReadBistFacts, Bounds DEF Addresses
    <2>4. \A k \in 1 .. Len(u) : ~Renumbers(u[k])
      <3> TAKE k \in 1 .. Len(u)
      <3>1. CASE k \in 1 .. 4
        BY <1>2, <1>3, <2>1, <3>1
      <3>2. CASE k - 4 \in 1 .. MaxChips /\ k = 4 + (k - 4)
        BY <2>1, <3>2, ReadBistFacts
      <3>3. QED
        BY <2>1, <3>1, <3>2
    <2>5. QED
      BY <1>2, <2>1, <2>2, <2>3, <2>4
  <1> HIDE DEF u
  <1>5. /\ Golden("WRITE_PARAM").cmd = "WRITE_PARAM" /\ Golden("WRITE_TARGET").cmd = "WRITE_TARGET"
        /\ Golden("WRITE_NONCE").cmd = "WRITE_NONCE" /\ RunsBist.cmd = "RUN_BIST"
        /\ \A a : ReadOf(a).cmd = "READ_BIST" /\ ReadOf(a).to = a
    BY DEF Golden, RunsBist, ReadOf, Command
  <1>6. GoldenAt(u, 4)
    <2>1. FilledAt(u, 4, "WRITE_PARAM")
      BY <1>4, <1>5 DEF FilledAt, Moves
    <2>2. FilledAt(u, 4, "WRITE_TARGET")
      BY <1>4, <1>5 DEF FilledAt, Moves
    <2>3. FilledAt(u, 4, "WRITE_NONCE")
      BY <1>4, <1>5 DEF FilledAt, Moves
    <2>4. QED
      BY <2>1, <2>2, <2>3 DEF GoldenAt
  <1>7. ASSUME NEW a \in Addresses PROVE FoundAt(u, Len(u) + 1, a)
    <2>1. a \in Nat \ {0} /\ Len(u) \in Nat /\ 4 + a \in 1 .. Len(u) /\ u[4 + a] = ReadOf(a)
      BY <1>4, Bounds DEF Addresses
    <2>2. \A j \in 5 .. 4 + a - 1 : ~Moves(u[j]) /\ u[j].cmd \notin {"RUN_BIST", "WRITE_CORE_CFG"}
      <3> TAKE j \in 5 .. 4 + a - 1
      <3>1. u[j] = ReadOf(j - 4)
        BY <1>4, <2>1
      <3>2. QED
        BY <1>5, <3>1 DEF Moves
    <2>3. BistAt(u, 4 + a)
      BY <1>4, <1>6, <2>1, <2>2 DEF BistAt
    <2>4. \A j \in 4 + a + 1 .. Len(u) : u[j].cmd # "AUTO_ADDRESS" /\ ~Rereads(u[j], a)
      <3> TAKE j \in 4 + a + 1 .. Len(u)
      <3>1. u[j] = ReadOf(j - 4) /\ j - 4 # a
        BY <1>4, <2>1
      <3>2. QED
        BY <1>5, <3>1 DEF Rereads
    <2>5. QED
      BY <2>1, <2>3, <2>4 DEF FoundAt
  <1>8. QED
    BY <1>4, <1>7 DEF u

\* How the beginnings grow.
LEMMA Counting ==
  /\ \A s : Num(s) => Cnt(s \o ReadBist) /\ Bst(s \o RunBist)
  /\ \A s : Num(s) => \A t \in Seq(Keep) : Num(s \o t)
  /\ \A s : Cnt(s) => \A t \in Seq(Keep) : Cnt(s \o t)
  /\ \A s : Bst(s) => \A t \in Seq(Keep) : Bst(s \o t)
  /\ \A s : Cnt(s) => \A x \in {"each", "sum"} : Cnt(s \o Host("CHECK_CORES", x))
  /\ \A s : Bst(s) => \A x \in {"each", "sum"} : Bst(s \o Host("CHECK_CORES", x))
  /\ \A s : Bst(s) => \A x \in Ranges : Bst(s \o Host("DISTRIBUTE", x)) /\ Bst(s \o Shares(x))
  /\ \A s : (Bst(s) => Cnt(s)) /\ (Cnt(s) => Num(s)) /\ (Num(s) => Orderly(s))
  <1>1. \A s : Num(s) => Cnt(s \o ReadBist)
    BY ReadBistFacts, KeepsNumbers DEF Cnt, Addresses
  <1>2. \A s : Num(s) => Bst(s \o RunBist)
    BY RunBistFacts, KeepsNumbers DEF Cnt, Bst
  <1>3. /\ \A s : Num(s) => \A t \in Seq(Keep) : Num(s \o t)
        /\ \A s : Cnt(s) => \A t \in Seq(Keep) : Cnt(s \o t)
        /\ \A s : Bst(s) => \A t \in Seq(Keep) : Bst(s \o t)
    BY KeepConcat DEF Cnt, Bst
  <1>4. /\ \A x \in {"each", "sum"} : Command("CHECK_CORES", 0, -1, x) \in Steps
        /\ \A x \in Ranges : Command("DISTRIBUTE", 0, -1, x) \in Steps
    <2>1. /\ \A x \in {"each", "sum"} : ArgFits("CHECK_CORES", x)
          /\ \A x \in Ranges : ArgFits("DISTRIBUTE", x)
      BY DEF ArgFits
    <2>2. QED
      BY <2>1, CommandType, Bounds
  <1>5. \A x : Command("CHECK_CORES", 0, -1, x).cmd = "CHECK_CORES"
          /\ Command("DISTRIBUTE", 0, -1, x).cmd = "DISTRIBUTE"
    BY DEF Command
  <1>6. \A s : Cnt(s) => \A x \in {"each", "sum"} : Cnt(s \o Host("CHECK_CORES", x))
    BY <1>4, <1>5, UseConcat DEF Host, All, Step, Uses
  <1>60. \A s : Bst(s) => \A x \in {"each", "sum"} : Bst(s \o Host("CHECK_CORES", x))
    BY <1>4, <1>5, UseConcat DEF Host, All, Step, Uses, Bst
  <1>7. \A s : Bst(s) => \A x \in Ranges : Bst(s \o Host("DISTRIBUTE", x))
    BY <1>4, <1>5, UseConcat DEF Host, All, Step, Uses, Bst
  <1>8. ASSUME NEW s, Bst(s), NEW x \in Ranges PROVE Bst(s \o Shares(x))
    <2>1. s \in Seq(Steps) /\ Host("DISTRIBUTE", x) \in Seq(Steps)
            /\ Each("WRITE_NONCE", "share") \in Seq(Keep)
      <3>1. s \in Seq(Steps)
        BY <1>8 DEF Bst, Cnt, Num, Orderly
      <3>2. Host("DISTRIBUTE", x) = <<Command("DISTRIBUTE", 0, -1, x)>>
        BY DEF Host, All, Step
      <3>3. Each("WRITE_NONCE", "share") \in Seq(Keep)
        BY KeepPieces
      <3>5. Command("DISTRIBUTE", 0, -1, x) \in Steps
        BY <1>4
      <3>6. Host("DISTRIBUTE", x) \in Seq(Steps)
        <4>1. \A y \in Steps : <<y>> \in Seq(Steps)
          OBVIOUS
        <4>2. QED
          BY <3>2, <3>5, <4>1
      <3>4. QED
        BY <3>1, <3>6, <3>3
    <2>2. Each("WRITE_NONCE", "share") \in Seq(Steps)
      BY <2>1 DEF Keep, Quiet
    <2>3. s \o Shares(x) = (s \o Host("DISTRIBUTE", x)) \o Each("WRITE_NONCE", "share")
      <3>1. \A t, u, v \in Seq(Steps) : t \o (u \o v) = (t \o u) \o v
        BY ConcatAssociative, SMTT(30)
      <3>2. QED
        BY Zenon, <2>1, <2>2, <3>1 DEF Shares
    <2>4. QED
      BY <1>3, <1>7, <1>8, <2>1, <2>3
  <1>9. QED
    BY <1>1, <1>2, <1>3, <1>6, <1>60, <1>7, <1>8 DEF Bst, Cnt, Num

-----------------------------------------------------------------------------
(* The calls, and the tests they are calls of.                              *)

\* The calls, as a set of records.
TestNames ==
  {"TestWork", "TestWorkLoop", "TestInfiniteWorkLoop", "TestWorkLoopRandomVector", "HWReset",
   "ResetAutoAddress", "TestReadBist", "TestSetPll", "TestLastChip", "TestDisableCore",
   "TestMiningWithoutBist", "TestBist", "TestXCore", "TestAsic", "TestWorkLoopFreq", "Mining",
   "ChipSortingBIST"} \cup RegisterTests

Calls == [test : TestNames, by : {"command", "menu", "BistWithDisable", "EnableOneCorePosition",
                                  "AutoTestMining", "DebugPowerBIST"},
          last : 0 .. MaxChips, fault : 0 .. MaxChips, mask : Masks, full : BOOLEAN,
          same : BOOLEAN, known : BOOLEAN]

\* What the callers make sure of.
Proper(r) ==
  /\ r \in Calls
  /\ r.fault > 0 => /\ r.test \in {"TestLastChip", "TestDisableCore", "TestMiningWithoutBist"}
                    /\ r.by = "command"
  /\ r.test \in {"TestWork", "TestAsic"} => r.last > 0
  /\ r.test \in RegisterTests => r.by = "command"

\* Every invocation is a proper call.
LEMMA CallTypes ==
  \A r \in Invocations : Proper(r)
  <1>1. \A name \in TestNames : Test(name) \in Calls
    BY Bounds DEF Test, Default, Calls, Masks
  <1>2. \A name \in TestNames :
          /\ Test(name).test = name /\ Test(name).by = "command" /\ Test(name).last = 0
          /\ Test(name).fault = 0 /\ Test(name).mask = "enable_all" /\ Test(name) \in Calls
    BY <1>1 DEF Test, Default
  <1>4. \A r \in SimpleWorkLoop : Proper(r)
    <2>1. \A r \in WithLast("TestWork", 1 .. MaxChips) : Proper(r)
      BY <1>2 DEF WithLast, TestNames, Calls, Proper
    <2>2. \A r \in WithLast("TestWorkLoop", 0 .. MaxChips) : Proper(r)
      BY <1>2 DEF WithLast, TestNames, Calls, Proper
    <2>3. Proper(Test("TestInfiniteWorkLoop")) /\ Proper(Test("TestWorkLoopRandomVector"))
      BY <1>2 DEF TestNames, Proper
    <2>4. QED
      BY <2>1, <2>2, <2>3 DEF SimpleWorkLoop
  <1>5. \A name \in TestNames \ (RegisterTests \cup {"TestWork", "TestAsic"}) :
          \A r \in WithMasks(name) :
          Proper(r) /\ r.test = name /\ r.by = "command" /\ r.fault = 0
    BY <1>2 DEF WithMasks, Calls, Proper
  <1>6. \A name \in {"TestLastChip", "TestDisableCore", "TestMiningWithoutBist"} :
          \A r \in WithFaults(name) :
          Proper(r) /\ r.test = name
    <2> TAKE name \in {"TestLastChip", "TestDisableCore", "TestMiningWithoutBist"}
    <2>1. \A r \in WithMasks(name) : Proper(r) /\ r.test = name /\ r.by = "command" /\ r.fault = 0
      BY <1>5 DEF TestNames, RegisterTests
    <2>2. \A r \in Short(WithMasks(name)) : Proper(r) /\ r.test = name /\ r.by = "command"
      BY <2>1 DEF Short, Proper, Calls
    <2>3. \A r \in Short(WithMasks(name)), f \in 0 .. MaxChips :
            Proper([r EXCEPT !.fault = f]) /\ [r EXCEPT !.fault = f].test = name
      BY <2>2 DEF Proper, Calls, RegisterTests
    <2>4. ASSUME NEW q \in WithFaults(name) PROVE Proper(q) /\ q.test = name
      <3>1. PICK r \in Short(WithMasks(name)), f \in 0 .. MaxChips : q = [r EXCEPT !.fault = f]
        BY DEF WithFaults
      <3>2. QED
        BY <2>3, <3>1
    <2>5. QED
      BY <2>4
  <1>7. \A r \in SingleCommandLoop : Proper(r)
    <2>1. \A name \in RegisterTests : Proper(Test(name))
      BY <1>2 DEF TestNames, Proper, RegisterTests
    <2>2. \A r \in Short(WithMasks("TestXCore")) : Proper(r)
      <3>1. \A r \in WithMasks("TestXCore") : Proper(r)
        BY <1>5 DEF TestNames, RegisterTests
      <3>2. QED
        BY <3>1 DEF Short, Proper, Calls
    <2>3. \A r \in WithMasks("TestBist") : Proper(r)
      BY <1>5 DEF TestNames, RegisterTests
    <2>4. \A name \in {"HWReset", "ResetAutoAddress", "TestSetPll", "TestReadBist"} :
            Proper([Test(name) EXCEPT !.by = "menu"])
      BY <1>2 DEF TestNames, Calls, Proper, RegisterTests
    <2>5. QED
      BY <1>6, <2>1, <2>2, <2>3, <2>4 DEF SingleCommandLoop
  <1>8. \A r \in ModeOfMain : Proper(r)
    <2>1. \A r \in WithLast("TestAsic", 1 .. MaxChips) : Proper(r)
      BY <1>2 DEF WithLast, TestNames, Calls, Proper
    <2> DEFINE Alike(q, r) == /\ q \in Calls /\ q.test = r.test /\ q.by = r.by
                              /\ q.last = r.last /\ q.fault = r.fault
    <2>a. \A q, r : Alike(q, r) /\ Proper(r) => Proper(q)
      BY DEF Proper
    <2>b. \A r \in Calls, m \in Masks, b \in BOOLEAN : Alike([r EXCEPT !.mask = m, !.full = b], r)
      BY ZenonT(40) DEF Calls
    <2>c. \A r \in Calls, s \in BOOLEAN, b \in BOOLEAN : Alike([r EXCEPT !.same = s, !.full = b], r)
      BY ZenonT(40) DEF Calls
    <2>d. \A r : Proper(r) => r \in Calls
      BY DEF Proper
    <2> HIDE DEF Alike
    <2>2. \A r \in WithLast("TestAsic", 1 .. MaxChips), m \in Masks, b \in BOOLEAN :
            Proper([r EXCEPT !.mask = m, !.full = b])
      BY <2>1, <2>a, <2>b, <2>d
    <2>3. \A r \in WithMasks("TestWorkLoopFreq") : Proper(r)
      BY <1>5 DEF TestNames, RegisterTests
    <2>4. \A r \in WithMasks("TestWorkLoopFreq"), s \in BOOLEAN, b \in BOOLEAN :
            Proper([r EXCEPT !.same = s, !.full = b])
      BY <2>3, <2>a, <2>c, <2>d
    <2> DEFINE F(r, m, b) == [r EXCEPT !.mask = m, !.full = b]
               G(r, s, b) == [r EXCEPT !.same = s, !.full = b]
    <2>5. ModeOfMain = {F(r, m, b) :
            r \in WithLast("TestAsic", 1 .. MaxChips), m \in Masks, b \in BOOLEAN}
                       \cup {G(r, s, b) : r \in WithMasks("TestWorkLoopFreq"), s \in BOOLEAN,
                         b \in BOOLEAN}
      BY DEF ModeOfMain
    <2>6. /\ \A r \in WithLast("TestAsic", 1 .. MaxChips), m \in Masks, b \in BOOLEAN :
               Proper(F(r, m, b))
          /\ \A r \in WithMasks("TestWorkLoopFreq"), s \in BOOLEAN, b \in BOOLEAN :
               Proper(G(r, s, b))
      BY <2>2, <2>4
    <2> HIDE DEF F, G
    <2>7. QED
      BY <2>5, <2>6
  <1>9. \A r \in ScenarioTestLoop : Proper(r)
    <2>1. \A r \in WithMasks("Mining") : Proper(r)
      BY <1>5 DEF TestNames, RegisterTests
    <2>2. \A b \in BOOLEAN : Proper([Test("ChipSortingBIST") EXCEPT !.full = b])
      BY <1>2 DEF TestNames, Calls, Proper
    <2>3. QED
      BY <2>1, <2>2 DEF ScenarioTestLoop
  <1>10. \A r \in AutoTests : Proper(r)
    <2>1. \A r \in WithMasks("TestBist") : Proper(r) /\ r.test = "TestBist" /\ r.fault = 0
      BY <1>5 DEF TestNames, RegisterTests
    <2>2. \A r \in WithMasks("TestDisableCore") : Proper(r) /\ r.test = "TestDisableCore"
            /\ r.fault = 0
      BY <1>5 DEF TestNames, RegisterTests
    <2>3. \A r \in BistWithDisable : Proper(r)
      BY <2>1 DEF BistWithDisable, Proper, Calls, RegisterTests
    <2>4. \A r \in AutoTestMining : Proper(r)
      <3>1. \A r \in Short(WithMasks("TestDisableCore")) :
              Proper(r) /\ r.test = "TestDisableCore" /\ r.fault = 0
        BY ZenonT(40), <2>2 DEF Short, Proper, Calls
      <3>2. \A r \in Short(WithMasks("TestDisableCore")) :
              Proper([r EXCEPT !.by = "AutoTestMining"])
        BY <3>1 DEF Proper, Calls, RegisterTests
      <3>3. QED
        BY <3>2 DEF AutoTestMining
    <2>5. \A r \in EnableOneCorePosition : Proper(r)
      <3>1. Test("TestDisableCore") \in Calls /\ Test("TestDisableCore").fault = 0
              /\ Test("TestDisableCore").test = "TestDisableCore"
        BY <1>2 DEF TestNames
      <3>2. Proper([Test("TestDisableCore") EXCEPT !.by = "EnableOneCorePosition",
                      !.mask = "disable_some", !.full = FALSE])
        <4> DEFINE q == [Test("TestDisableCore") EXCEPT !.by = "EnableOneCorePosition",
                           !.mask = "disable_some", !.full = FALSE]
        <4>1. q \in Calls /\ q.test = "TestDisableCore" /\ q.fault = 0
          BY <3>1 DEF Calls, Masks
        <4> HIDE DEF q
        <4>2. Proper(q)
          BY <4>1 DEF Proper, RegisterTests
        <4>3. QED
          BY <4>2 DEF q
      <3>3. QED
        BY <3>2 DEF EnableOneCorePosition
    <2>6. \A r \in DebugPowerBIST : Proper(r)
      BY <1>2 DEF DebugPowerBIST, TestNames, Calls, Proper, RegisterTests
    <2>7. QED
      BY <2>3, <2>4, <2>5, <2>6 DEF AutoTests
  <1>11. \A r : Proper(r) => Proper([r EXCEPT !.known = FALSE])
    BY DEF Proper, Calls
  <1>12. QED
    BY <1>4, <1>7, <1>8, <1>9, <1>10, <1>11 DEF Invocations

-----------------------------------------------------------------------------
(* The pieces the programs are put together from.                           *)

LEMMA SeqFacts ==
  /\ \A S : \A x \in S : <<x>> \in Seq(S)
  /\ \A S : \A s, t \in Seq(S) : s \o t \in Seq(S)
  <1>1. \A S : \A x \in S : <<x>> \in Seq(S)
    OBVIOUS
  <1>2. \A S : \A s, t \in Seq(S) : s \o t \in Seq(S)
    BY ConcatProperties
  <1>3. QED
    BY <1>1, <1>2

LEMMA RoundsType ==
  ASSUME NEW S, NEW n \in Nat, NEW m \in {2, 3, 6}, NEW body,
         \A k \in 1 .. n : \A i \in 1 .. m : body[k][i] \in S
  PROVE  Rounds(n, m, body) \in Seq(S)
  <1>1. \A k \in 1 .. n * m : ((k - 1) \div m) + 1 \in 1 .. n /\ ((k - 1) % m) + 1 \in 1 .. m
    <2>1. CASE m = 2
      BY <2>1
    <2>2. CASE m = 3
      BY <2>2
    <2>3. CASE m = 6
      BY <2>3
    <2>4. QED
      BY <2>1, <2>2, <2>3
  <1>2. n * m \in Nat
    OBVIOUS
  <1>3. Rounds(n, m, body) \in [1 .. n * m -> S]
    BY <1>1 DEF Rounds
  <1>4. QED
    BY <1>2, <1>3

LEMMA ComparePieces ==
  ASSUME NEW reg \in Registers, NEW value \in Values, NEW hard \in BOOLEAN
  PROVE  /\ \A a \in Addresses : Compare(a, reg, value, hard) \in Keep
         /\ CompareAll(reg, value, hard) \in Seq(Keep)
         /\ MustCompareAll(reg, value, hard) \in Seq(Keep)
  <1>1. ArgFits("COMPARE", [reg |-> reg, value |-> value, hard |-> hard])
    BY DEF ArgFits, Compares
  <1>2. \A a \in Addresses : Compare(a, reg, value, hard) \in Steps
          /\ Must(Compare(a, reg, value, hard)) \in Steps
    BY <1>1, CommandType, Bounds DEF Compare
  <1>3. \A a \in Addresses : Compare(a, reg, value, hard) \in Keep
          /\ Must(Compare(a, reg, value, hard)) \in Keep
    <2> TAKE a \in Addresses
    <2>1. Compare(a, reg, value, hard).cmd = "COMPARE"
            /\ Must(Compare(a, reg, value, hard)).cmd = "COMPARE"
      BY DEF Compare, Must, Command
    <2>2. QED
      BY <1>2, <2>1 DEF Keep, Quiet, Uses, Renumbers
  <1>4. CompareAll(reg, value, hard) \in [1 .. MaxChips -> Keep]
    BY <1>3 DEF CompareAll, Addresses
  <1>5. MustCompareAll(reg, value, hard) \in [1 .. MaxChips -> Keep]
    BY <1>3 DEF MustCompareAll, Addresses
  <1>6. QED
    BY <1>3, <1>4, <1>5, Bounds

LEMMA CutPieces ==
  ASSUME NEW r \in Calls
  PROVE  /\ CutFaultChips(r) \in Seq(Quiet)
         /\ r.fault < 2 => CutFaultChips(r) \in Seq(Keep)
  <1>1. r.fault \in 0 .. MaxChips /\ r.fault \in Nat
    BY Bounds DEF Calls
  <1>2. CASE r.fault = 0
    <2>1. CutFaultChips(r) = <<>>
      BY <1>2 DEF CutFaultChips
    <2>2. QED
      BY <2>1
  <1>3. CASE r.fault > 0
    <2>1. r.fault - 1 \in Nat /\ r.fault # 0
      BY <1>1, <1>3
    <2> DEFINE cuts == Rounds(r.fault - 1, 2, [k \in 1 .. r.fault - 1 |-> SetLast(2, LAST_OON)])
    <2>0. CutFaultChips(r) = cuts \o One(1, "PLL_OFF", "")
      BY <2>1, Zenon DEF CutFaultChips
    <2>2. One(1, "PLL_OFF", "") \in Seq(Keep)
      BY KeepPieces
    <2>3. \A k \in 1 .. r.fault - 1 : \A i \in 1 .. 2 :
            [x \in 1 .. r.fault - 1 |-> SetLast(2, LAST_OON)][k][i] \in Quiet
      <3>1. CASE 1 < r.fault
        <4>1. ArgFits("SET_CONTROL", LAST_OON) /\ 2 \in -1 .. MaxChips
          <5>1. LAST_OON \in Controls
            BY DEF LAST_OON, Controls
          <5>2. ArgFits("SET_CONTROL", LAST_OON)
            BY <5>1 DEF ArgFits
          <5>3. QED
            BY <1>1, <3>1, <5>2, Bounds
        <4>2. Command("SET_CONTROL", 2, -1, LAST_OON) \in Steps
          BY <4>1, CommandType, Bounds
        <4>3. Command("SET_CONTROL", 2, -1, LAST_OON) \in Quiet
          BY <4>2 DEF Quiet, Uses, Command
        <4>4. SetLast(2, LAST_OON) = <<Command("SET_CONTROL", 2, -1, LAST_OON), Readdress>>
          BY <4>3, Pair, StepTypes DEF SetLast, One, Host, All, Step, Readdress
        <4>5. \A i \in 1 .. 2 : SetLast(2, LAST_OON)[i] \in Quiet
          <5>1. \A x, y \in Quiet : \A i \in 1 .. 2 : <<x, y>>[i] \in Quiet
            OBVIOUS
          <5>2. QED
            BY <4>3, <4>4, <5>1, StepTypes
        <4>6. QED
          BY <4>5
      <3>2. CASE ~(1 < r.fault)
        BY <1>1, <3>2
      <3>3. QED
        BY <3>1, <3>2
    <2>4. cuts \in Seq(Quiet)
      BY <2>1, <2>3, RoundsType
    <2>5. CutFaultChips(r) \in Seq(Quiet)
      <3>1. One(1, "PLL_OFF", "") \in Seq(Quiet)
        BY <2>2, KeepQuiet
      <3> HIDE DEF cuts
      <3>2. QED
        BY <2>0, <2>4, <3>1, SeqFacts
    <2>6. ASSUME r.fault < 2 PROVE CutFaultChips(r) \in Seq(Keep)
      <3>1. \A k \in 1 .. r.fault - 1 : FALSE
        BY <1>1, <2>6
      <3>2. cuts \in Seq(Keep)
        BY <2>1, <3>1, RoundsType
      <3> HIDE DEF cuts
      <3>3. QED
        BY <2>0, <2>2, <3>2, SeqFacts
    <2>7. QED
      BY <2>5, <2>6
  <1>4. QED
    BY <1>1, <1>2, <1>3

LEMMA OtherPieces ==
  /\ Step("SET_CONTROL", 1, 1, LAST_OON) \in Seq(Quiet)
  /\ Step("AUTO_ADDRESS", 0, 1, "") \in Seq(Quiet)
  /\ Host("HW_RESET", "") \in Seq(Quiet) /\ ReadBist \in Seq(Quiet) /\ RunBist \in Seq(Quiet)
  /\ \A mask \in Masks : /\ Step("SET_DISABLE", 0, 1, mask) \in Seq(Keep)
                         /\ [a \in Addresses |-> Command("SET_DISABLE", a, a + 1, mask)]
                              \in Seq(Keep)
  <1>1. LAST_OON \in Controls
    BY DEF LAST_OON, Controls
  <1>2. ArgFits("SET_CONTROL", LAST_OON) /\ ArgFits("AUTO_ADDRESS", "")
    BY <1>1 DEF ArgFits, Plain
  <1>3. Command("SET_CONTROL", 1, 1, LAST_OON) \in Steps
          /\ Command("AUTO_ADDRESS", 0, 1, "") \in Steps
    BY <1>2, CommandType, Bounds
  <1>4. Command("SET_CONTROL", 1, 1, LAST_OON) \in Quiet
          /\ Command("AUTO_ADDRESS", 0, 1, "") \in Quiet
    BY <1>3 DEF Quiet, Uses, Command
  <1>5. Step("SET_CONTROL", 1, 1, LAST_OON) \in Seq(Quiet)
          /\ Step("AUTO_ADDRESS", 0, 1, "") \in Seq(Quiet)
    BY <1>4, SeqFacts DEF Step
  <1>6. Host("HW_RESET", "") \in Seq(Quiet)
    BY StepTypes, SeqFacts DEF Host, All, Step
  <1>7. ASSUME NEW mask \in Masks, NEW a \in 0 .. MaxChips
        PROVE  Command("SET_DISABLE", a, a + 1, mask) \in Keep
    <2>1. ArgFits("SET_DISABLE", mask)
      BY DEF ArgFits
    <2>2. Command("SET_DISABLE", a, a + 1, mask) \in Steps
      BY <2>1, CommandType, Bounds
    <2>3. Command("SET_DISABLE", a, a + 1, mask).cmd = "SET_DISABLE"
      BY DEF Command
    <2>4. QED
      BY <2>2, <2>3 DEF Keep, Quiet, Uses, Renumbers
  <1>8. ASSUME NEW mask \in Masks
        PROVE  /\ Step("SET_DISABLE", 0, 1, mask) \in Seq(Keep)
               /\ [a \in Addresses |-> Command("SET_DISABLE", a, a + 1, mask)] \in Seq(Keep)
    <2>1. Command("SET_DISABLE", 0, 0 + 1, mask) \in Keep
      BY <1>7, Bounds
    <2>2. Step("SET_DISABLE", 0, 1, mask) \in Seq(Keep)
      BY <2>1 DEF Step
    <2>3. [a \in Addresses |-> Command("SET_DISABLE", a, a + 1, mask)] \in [1 .. MaxChips -> Keep]
      BY <1>7, Bounds DEF Addresses
    <2>4. QED
      BY <2>2, <2>3, Bounds
  <1>9. QED
    BY <1>5, <1>6, <1>8, ReadBistFacts, RunBistFacts

-----------------------------------------------------------------------------
(* Program by program: every count is read after the last numbering.        *)

LEMMA Pieces ==
  /\ All("SET_DISABLE", "enable_all") \in Seq(Keep) /\ Vector("vector") \in Seq(Keep)
  /\ Vector("golden") \in Seq(Keep) /\ All("WRITE_TARGET", "vector") \in Seq(Keep)
  /\ All("WRITE_TARGET", "golden") \in Seq(Keep) /\ All("WRITE_NONCE", "golden") \in Seq(Keep)
  /\ All("WRITE_PARAM", "golden") \in Seq(Keep)
  /\ Each("WRITE_NONCE", "share") \in Seq(Keep) /\ One(1, "WRITE_NONCE", "small") \in Seq(Keep)
  /\ Jobs(1) \in Seq(Keep) /\ Jobs(FifoDepth) \in Seq(Keep)
  /\ LAST \in Controls /\ LAST_OON \in Controls /\ "full" \in Ranges
  /\ \A r \in Calls : /\ All("SET_DISABLE", r.mask) \in Seq(Keep)
                      /\ Each("SET_DISABLE", r.mask) \in Seq(Keep)
                      /\ Each("WRITE_CORE_CFG", r.mask) \in Seq(Keep)
                      /\ Length(r) \in Ranges /\ Each("WRITE_NONCE", Length(r)) \in Seq(Keep)
                      /\ r.last \in -1 .. MaxChips /\ r.fault \in 0 .. MaxChips
                      /\ Step("SET_DISABLE", 0, 1, r.mask) \in Seq(Keep)
                      /\ [a \in Addresses |-> Command("SET_DISABLE", a, a + 1, r.mask)]
                           \in Seq(Keep)
  <1>1. "enable_all" \in Masks /\ "vector" \in Data /\ "golden" \in Data /\ "golden" \in Ranges
        /\ "small" \in Ranges /\ "full" \in Ranges /\ FifoDepth \in Nat /\ 1 \in Nat
    BY DEF Masks, Data, Ranges, FifoDepth
  <1>2. LAST \in Controls /\ LAST_OON \in Controls
    BY DEF LAST, LAST_OON, Controls
  <1>3. ASSUME NEW r \in Calls
        PROVE  /\ r.mask \in Masks /\ Length(r) \in Ranges
               /\ r.last \in -1 .. MaxChips /\ r.fault \in 0 .. MaxChips
    BY Bounds DEF Calls, Length, Ranges
  <1>4. QED
    BY <1>1, <1>2, <1>3, KeepPieces, OtherPieces

LEMMA SimpleWorkPrograms ==
  ASSUME NEW r \in Calls
  PROVE  /\ Done(TestWork(r)) /\ Done(TestWorkLoop(r))
         /\ Done(TestInfiniteWorkLoop(r)) /\ Done(TestWorkLoopRandomVector(r))
  <1>1. Done(TestWork(r))
    BY Pieces, KeepPieces, Starting, Counting, Ending DEF TestWork
  <1>2. Done(TestWorkLoop(r))
    <2>1. <<>> \in Seq(Keep)
      OBVIOUS
    <2>2. Num(Start \o All("RESET", "") \o (IF r.last # 0 THEN SetLast(r.last, LAST) ELSE <<>>))
      BY <2>1, Pieces, KeepPieces, Starting, Counting
    <2>3. QED
      BY <2>2, Pieces, KeepPieces, Starting, Counting, Ending DEF TestWorkLoop
  <1>3. Done(TestInfiniteWorkLoop(r))
    BY Pieces, KeepPieces, Starting, Counting, Ending DEF TestInfiniteWorkLoop
  <1>4. Done(TestWorkLoopRandomVector(r))
    BY Pieces, KeepPieces, Starting, Counting, Ending DEF TestWorkLoopRandomVector
  <1>5. QED
    BY <1>1, <1>2, <1>3, <1>4

LEMMA QuietStart ==
  \A t \in Seq(Quiet) : Orderly(t)
  <1>1. Orderly(<<>>)
    BY DEF Orderly, Counted
  <1>2. \A t \in Seq(Quiet) : <<>> \o t = t
    OBVIOUS
  <1>3. QED
    BY <1>1, <1>2, Starting

\* The end of most tests of SingleCommand.c.
LEMMA RunJobEnds ==
  ASSUME NEW r \in Calls, NEW s, Orderly(s)
  PROVE  Done(s \o RunJob(r)) /\ Done(s \o Run1Job(r))
  <1> DEFINE jobs == Vector("golden") \o Each("WRITE_NONCE", Length(r)) \o Jobs(FifoDepth)
             job  == All("WRITE_TARGET", "golden") \o One(1, "WRITE_NONCE", "small") \o Jobs(1)
             S    == Steps \cup {Command("END", 0, -1, "mining")}
  <1>1. jobs \in Seq(Keep) /\ job \in Seq(Keep)
    BY Pieces, SeqFacts
  <1>2. RunJob(r) = jobs \o Mine /\ Run1Job(r) = job \o Mine
    BY DEF RunJob, Run1Job
  <1>3. Orderly(s \o jobs) /\ Orderly(s \o job)
    BY <1>1, KeepQuiet, Starting
  <1>4. s \in Seq(S) /\ jobs \in Seq(S) /\ job \in Seq(S) /\ Mine \in Seq(S)
    <2>1. s \in Seq(Steps) /\ jobs \in Seq(Steps) /\ job \in Seq(Steps)
      BY <1>1 DEF Orderly, Keep, Quiet
    <2>2. Mine \in Seq(S)
      BY DEF Mine, Host, All, Step
    <2>3. \A t \in Seq(Steps) : t \in Seq(S)
      OBVIOUS
    <2>4. QED
      BY <2>1, <2>2, <2>3
  <1> HIDE DEF jobs, job, S
  <1>5. s \o RunJob(r) = (s \o jobs) \o Mine /\ s \o Run1Job(r) = (s \o job) \o Mine
    <2>1. \A t, x, y \in Seq(S) : t \o (x \o y) = (t \o x) \o y
      BY SMTT(30), ConcatAssociative
    <2>2. s \o (jobs \o Mine) = (s \o jobs) \o Mine
      BY Zenon, <1>4, <2>1
    <2>3. s \o (job \o Mine) = (s \o job) \o Mine
      BY Zenon, <1>4, <2>1
    <2>4. QED
      BY Zenon, <1>2, <2>2, <2>3
  <1>6. QED
    BY <1>3, <1>5, Ending

LEMMA SingleCommandPrograms ==
  ASSUME NEW r \in Calls
  PROVE  /\ Done(HWReset(r)) /\ Done(ResetAutoAddress(r)) /\ Done(TestReadBist(r))
         /\ Done(TestSetPll(r))
         /\ Done(TestLastChip(r)) /\ Done(TestMiningWithoutBist(r)) /\ Done(TestBist(r))
         /\ r.fault < 2 => Done(TestDisableCore(r))
         /\ IsProgram(TestDisableCore(r))
  <1>1. Done(HWReset(r)) /\ Done(ResetAutoAddress(r)) /\ Done(TestReadBist(r))
          /\ Done(TestSetPll(r))
    <2>1. Orderly(Host("HW_RESET", "")) /\ Orderly(Start) /\ Orderly(ReadBist)
      BY OtherPieces, QuietStart, Starting, Counting
    <2>2. Orderly(Host("AUTO_ADDRESS", "") \o SetPll)
      <3>1. Host("AUTO_ADDRESS", "") \in Seq(Quiet)
        BY StepTypes, SeqFacts DEF Host, All, Step, Readdress
      <3>2. SetPll \in Seq(Quiet)
        BY KeepPieces, KeepQuiet
      <3>3. QED
        BY <3>1, <3>2, QuietStart, Starting
    <2>3. QED
      BY <2>1, <2>2, Ending DEF HWReset, ResetAutoAddress, TestReadBist, TestSetPll
  <1>2. Done(TestBist(r))
    BY Pieces, KeepPieces, Starting, Counting, Ending DEF TestBist
  <1>3. Done(TestMiningWithoutBist(r))
    <2>1. Orderly(Start \o SetPll \o Each("SET_DISABLE", r.mask) \o Each("WRITE_CORE_CFG", r.mask)
                \o All("SET_CONTROL", OON))
      BY Pieces, KeepPieces, Starting, Counting
    <2>2. /\ CutFaultChips(r) \in Seq(Quiet) /\ One(1, "SET_CONTROL", LAST_OON) \in Seq(Quiet)
          /\ Each("SET_DISABLE", r.mask) \in Seq(Quiet)
      BY CutPieces, KeepPieces, KeepQuiet, Pieces
    <2>3. QED
      BY <2>1, <2>2, Starting, RunJobEnds DEF TestMiningWithoutBist
  <1>4. Done(TestLastChip(r))
    <2>1. Cnt(Start \o SetPll \o GoldenNonce \o All("SET_DISABLE", "enable_all")
            \o All("RUN_BIST", "") \o ReadBist)
      BY Pieces, KeepPieces, Starting, Counting
    <2>2. /\ CutFaultChips(r) \in Seq(Quiet) /\ Step("SET_CONTROL", 1, 1, LAST_OON) \in Seq(Quiet)
          /\ Step("AUTO_ADDRESS", 0, 1, "") \in Seq(Quiet) /\ ReadBist \in Seq(Quiet)
          /\ All("RUN_BIST", "") \in Seq(Quiet)
      BY CutPieces, OtherPieces, KeepPieces, KeepQuiet
    <2>3. From(2, "SET_CONTROL", OON) \in Seq(Quiet)
      <3>1. 2 \in Addresses \cup {MaxChips + 1}
        BY Bounds DEF Addresses
      <3>2. QED
        BY <3>1, KeepPieces, KeepQuiet
    <2>4. QED
      BY <2>1, <2>2, <2>3, Starting, Counting, RunJobEnds DEF TestLastChip
  <1> DEFINE d == Start \o SetPll \o GoldenNonce \o Each("SET_DISABLE", r.mask)
        \o All("RUN_BIST", "") \o ReadBist
                  \o All("SET_CONTROL", OON)
  <1>5. Cnt(d)
    BY Pieces, KeepPieces, Starting, Counting
  <1>6. TestDisableCore(r) = d \o CutFaultChips(r) \o One(1, "SET_CONTROL", LAST_OON)
                               \o Host("CHECK_CORES", "each") \o RunJob(r)
    BY DEF TestDisableCore
  <1> HIDE DEF d
  <1>7. ASSUME r.fault < 2 PROVE Done(TestDisableCore(r))
    <2>1. CutFaultChips(r) \in Seq(Keep)
      BY <1>7, CutPieces
    <2>2. QED
      BY <1>5, <1>6, <2>1, KeepPieces, Counting, RunJobEnds
  <1>8. IsProgram(TestDisableCore(r))
    <2>1. d \in Seq(Steps) /\ CutFaultChips(r) \in Seq(Steps)
            /\ One(1, "SET_CONTROL", LAST_OON) \in Seq(Steps)
      <3>1. d \in Seq(Steps)
        BY <1>5 DEF Cnt, Num, Orderly
      <3>2. CutFaultChips(r) \in Seq(Quiet) /\ One(1, "SET_CONTROL", LAST_OON) \in Seq(Quiet)
        BY CutPieces, KeepPieces, KeepQuiet
      <3>3. \A t \in Seq(Quiet) : t \in Seq(Steps)
        BY DEF Quiet
      <3>4. QED
        BY <3>1, <3>2, <3>3
    <2>2. Host("CHECK_CORES", "each") \in Seq(Steps)
      <3>1. ArgFits("CHECK_CORES", "each")
        BY DEF ArgFits
      <3>2. QED
        BY <3>1, AllType
    <2>3. IsProgram(RunJob(r))
      <3>1. <<>> \o RunJob(r) = RunJob(r)
        <4>1. Vector("golden") \o Each("WRITE_NONCE", Length(r)) \o Jobs(FifoDepth) \in Seq(Keep)
          BY Pieces, SeqFacts
        <4>2. RunJob(r) \in Seq(Keep \cup {Command("END", 0, -1, "mining")})
          <5>1. \A t \in Seq(Keep) : t \in Seq(Keep \cup {Command("END", 0, -1, "mining")})
            OBVIOUS
          <5>2. Mine \in Seq(Keep \cup {Command("END", 0, -1, "mining")})
            BY DEF Mine, Host, All, Step
          <5>3. QED
            BY <4>1, <5>2 DEF RunJob
        <4>3. QED
          BY <4>2, ConcatEmptySeq
      <3>2. QED
        <4>1. <<>> \in Seq(Quiet)
          OBVIOUS
        <4>2. Done(<<>> \o RunJob(r))
          BY <4>1, QuietStart, RunJobEnds
        <4>3. QED
          BY <3>1, <4>2 DEF Done
    <2>4. QED
      BY <1>6, <2>1, <2>2, <2>3, ProgramType, SeqFacts
  <1>9. QED
    BY <1>1, <1>2, <1>3, <1>4, <1>7, <1>8

LEMMA OtherPrograms ==
  ASSUME NEW r, Proper(r)
  PROVE  /\ Done(TestXCore(r)) /\ (r.test = "TestAsic" => Done(TestAsic(r)))
              /\ Done(TestWorkLoopFreq(r))
         /\ Done(Mining(r)) /\ Done(ChipSortingBIST(r))
  <1> r \in Calls
    BY DEF Proper
  <1>0. 2 \in Addresses \cup {MaxChips + 1}
    BY Bounds DEF Addresses
  <1>1. Done(TestXCore(r))
    <2> DEFINE w == Rounds(MaxChips, 3,
          [a \in Addresses |-> <<Command("WRITE_PARAM", a, a, "golden"),
                                 Command("WRITE_NONCE", a, a, "golden"),
                                 Command("WRITE_TARGET", a, a, "golden")>>])
    <2>1. w \in Seq(Keep)
      <3>1. \A a \in Addresses : /\ Command("WRITE_PARAM", a, a, "golden") \in Keep
                                 /\ Command("WRITE_NONCE", a, a, "golden") \in Keep
                                 /\ Command("WRITE_TARGET", a, a, "golden") \in Keep
        <4>1. \A cmd \in {"WRITE_PARAM", "WRITE_NONCE", "WRITE_TARGET"} : ArgFits(cmd, "golden")
          BY DEF ArgFits, Data, Ranges
        <4>2. \A a \in Addresses, cmd \in {"WRITE_PARAM", "WRITE_NONCE", "WRITE_TARGET"} :
                Command(cmd, a, a, "golden") \in Steps /\ Command(cmd, a, a, "golden").cmd = cmd
          BY <4>1, CommandType, Bounds DEF Command
        <4>3. QED
          BY <4>2 DEF Keep, Quiet, Uses, Renumbers
      <3>2. \A x, y, z \in Keep : \A i \in 1 .. 3 : <<x, y, z>>[i] \in Keep
        OBVIOUS
      <3>3. \A k \in 1 .. MaxChips : \A i \in 1 .. 3 :
              [a \in Addresses |-> <<Command("WRITE_PARAM", a, a, "golden"),
                                     Command("WRITE_NONCE", a, a, "golden"),
                                     Command("WRITE_TARGET", a, a, "golden")>>][k][i] \in Keep
        BY <3>1, <3>2 DEF Addresses
      <3>4. QED
        BY <3>3, RoundsType, Bounds
    <2>2. TestXCore(r) = Start \o SetPll \o All("SET_CONTROL", OON) \o w
            \o Each("SET_DISABLE", r.mask)
                         \o Each("RUN_BIST", "") \o ReadBist \o All("SET_CONTROL", OON)
                           \o Run1Job(r)
      BY Zenon DEF TestXCore
    <2> HIDE DEF w
    <2>3. QED
      BY <2>1, <2>2, Pieces, KeepPieces, Starting, Counting, RunJobEnds
  <1>2. ASSUME r.test = "TestAsic" PROVE Done(TestAsic(r))
    <2>1. r.last + 1 \in Addresses \cup {MaxChips + 1} /\ LastOrTop \in -1 .. MaxChips
      BY Bounds DEF Calls, Addresses, LastOrTop
    <2>2. From(r.last + 1, "SET_CONTROL", OON) \in Seq(Keep)
      BY <2>1, KeepPieces
    <2>3. QED
      BY <2>1, <2>2, Pieces, KeepPieces, Starting, Counting, Ending DEF TestAsic
  <1>3. Done(TestWorkLoopFreq(r))
    <2> DEFINE x == IF r.same THEN Each("WRITE_NONCE", IF r.full THEN "full" ELSE "full_to_small")
                    ELSE Shares(Length(r))
    <2>1. \A s : Bst(s) => Bst(s \o x)
      <3>1. (IF r.full THEN "full" ELSE "full_to_small") \in Ranges
        BY DEF Ranges
      <3>2. QED
        BY <3>1, Pieces, KeepPieces, Counting
    <2>2. TestWorkLoopFreq(r) =
            Start \o All("RESET", "") \o SetLast(1, LAST_OON) \o Each("SET_DISABLE", r.mask)
              \o SetPll
            \o RunBist \o Host("CHECK_CORES", "sum") \o From(2, "SET_CONTROL", OON)
              \o Vector("vector")
            \o x \o Jobs(FifoDepth) \o Mine
      BY DEF TestWorkLoopFreq
    <2> HIDE DEF x
    <2>3. From(2, "SET_CONTROL", OON) \in Seq(Keep)
      BY <1>0, KeepPieces
    <2>4. Bst(Start \o All("RESET", "") \o SetLast(1, LAST_OON) \o Each("SET_DISABLE", r.mask)
            \o SetPll
            \o RunBist)
      BY Pieces, KeepPieces, Starting, Counting, Bounds
    <2>5. \A s : Bst(s) => Bst(s \o Host("CHECK_CORES", "sum"))
      BY Counting
    <2>6. QED
      BY <2>1, <2>2, <2>3, <2>4, <2>5, Pieces, KeepPieces, Counting, Ending
  <1>4. Done(Mining(r))
    <2>1. Bst(InitializeMiningkLoop(r))
      BY Pieces, KeepPieces, Starting, Counting DEF InitializeMiningkLoop
    <2>2. QED
      BY <2>1, Pieces, KeepPieces, Counting, Ending DEF Mining
  <1>5. Done(ChipSortingBIST(r))
    <2>1. Orderly(Host("HW_RESET", "") \o BoardType)
      BY OtherPieces, KeepPieces, KeepQuiet, QuietStart, Starting
    <2>2. Orderly(Host("HW_RESET", "") \o BoardType \o Host("AUTO_ADDRESS", "") \o CheckChips
                \o All("SET_DISABLE", "enable_all") \o SetPllFreq \o RunBist)
      BY <2>1, Pieces, KeepPieces, Starting, Counting
    <2>3. (IF r.full THEN SetPllFreq \o RunBist ELSE <<>>) \in Seq(Quiet)
      <3>1. <<>> \in Seq(Quiet)
        OBVIOUS
      <3>2. SetPllFreq \in Seq(Quiet) /\ RunBist \in Seq(Quiet)
        BY KeepPieces, KeepQuiet, OtherPieces
      <3>3. SetPllFreq \o RunBist \in Seq(Quiet)
        BY <3>2, SeqFacts
      <3>4. QED
        BY <3>1, <3>3
    <2>4. QED
      BY <2>2, <2>3, Starting, Ending DEF ChipSortingBIST
  <1>6. QED
    BY <1>1, <1>2, <1>3, <1>4, <1>5

-----------------------------------------------------------------------------
(* The register tests: reset, numbering, then a comparison for every chip.  *)

\* Commands that move no chip, and the comparison that fails a test of chip a.
Calm == {s \in Quiet : ~Moves(s)}
Hard(s, a) == /\ s.cmd = "COMPARE" /\ s.to = a /\ s.need = a
              /\ s.arg.hard /\ s.arg.value \in Values

Restart    == Command("HW_RESET", 0, -1, "")

\* A register test begins with a reset and a numbering, and moves no chip after.
Calmly(s) ==
  /\ s \in Seq(Quiet) /\ Len(s) >= 2 /\ s[1] = Restart /\ s[2] = Readdress
  /\ \A k \in 3 .. Len(s) : ~Moves(s[k])
Has(s, must) ==
  \A a \in Addresses : \E k \in 1 .. Len(s) : Hard(s[k], a) /\ (must => s[k].must)

\* The register tests that look at the result of every read.
MustTests == {"TestReadRevision", "TestReadFeature", "TestIOCtrl"}

Judges(p, must) ==
  /\ p[1] = Restart /\ p[2] = Readdress /\ Len(p) > 2
  /\ \A k \in 3 .. Len(p) : ~Moves(p[k])
  /\ Has(p, must) /\ p[Len(p)] = Command("END", 0, -1, "passed")

\* A register test grows by calm commands, and a comparison stays in it.
LEMMA CalmChain ==
  /\ Calmly(Start)
  /\ \A s : Calmly(s) => \A t \in Seq(Calm) :
       /\ Calmly(s \o t)
       /\ \A must \in BOOLEAN : Has(s, must) \/ Has(t, must) => Has(s \o t, must)
  /\ \A s, must : Calmly(s) /\ Has(s, must) => Done(s \o Passed) /\ Judges(s \o Passed, must)
  <1>1. Calmly(Start)
    <2>1. Start = <<Restart, Readdress>>
      BY Pair, StepTypes DEF Start, Host, All, Step, Readdress, Restart
    <2>2. Restart \in Quiet /\ Readdress \in Quiet
      BY StepTypes DEF Restart
    <2>3. \A x, y \in Quiet : /\ <<x, y>> \in Seq(Quiet) /\ Len(<<x, y>>) = 2
                              /\ <<x, y>>[1] = x /\ <<x, y>>[2] = y
      OBVIOUS
    <2>4. Start \in Seq(Quiet) /\ Len(Start) = 2 /\ Start[1] = Restart /\ Start[2] = Readdress
      BY <2>1, <2>2, <2>3
    <2>5. QED
      BY <2>4 DEF Calmly
  <1>2. ASSUME NEW s, Calmly(s), NEW t \in Seq(Calm)
        PROVE  /\ Calmly(s \o t)
               /\ \A must \in BOOLEAN : Has(s, must) \/ Has(t, must) => Has(s \o t, must)
    <2>0. /\ s \in Seq(Quiet) /\ Len(s) >= 2 /\ s[1] = Restart /\ s[2] = Readdress
          /\ \A k \in 3 .. Len(s) : ~Moves(s[k])
      BY <1>2 DEF Calmly
    <2>7. t \in Seq(Quiet)
      BY DEF Calm
    <2>8. \A k \in 1 .. Len(t) : t[k] \in Calm
      OBVIOUS
    <2>1. s \in Seq(Quiet) /\ t \in Seq(Quiet) /\ \A k \in 1 .. Len(t) : ~Moves(t[k])
      BY <2>0, <2>7, <2>8 DEF Calm
    <2> DEFINE u == s \o t
    <2>2. /\ u \in Seq(Quiet) /\ Len(u) = Len(s) + Len(t) /\ Len(s) \in Nat /\ Len(t) \in Nat
          /\ \A k \in 1 .. Len(s) : u[k] = s[k]
          /\ \A k \in 1 .. Len(t) : u[Len(s) + k] = t[k]
          /\ \A k \in 1 .. Len(u) : k \in 1 .. Len(s)
               \/ (k - Len(s) \in 1 .. Len(t) /\ k = Len(s) + (k - Len(s)))
      BY <2>1, ConcatFacts
    <2> HIDE DEF u
    <2>3. \A k \in 3 .. Len(u) : ~Moves(u[k])
      <3> TAKE k \in 3 .. Len(u)
      <3>1. CASE k \in 1 .. Len(s)
        BY <2>0, <2>2, <3>1
      <3>2. CASE k - Len(s) \in 1 .. Len(t) /\ k = Len(s) + (k - Len(s))
        BY <2>1, <2>2, <3>2
      <3>3. QED
        BY <2>2, <3>1, <3>2
    <2>4. Calmly(u)
      <3>1. Len(u) >= 2 /\ u[1] = Restart /\ u[2] = Readdress
        BY <2>0, <2>2
      <3>2. QED
        BY <2>2, <2>3, <3>1 DEF Calmly
    <2>5. ASSUME NEW must \in BOOLEAN, NEW a \in Addresses,
                 \/ \E k \in 1 .. Len(s) : Hard(s[k], a) /\ (must => s[k].must)
                 \/ \E k \in 1 .. Len(t) : Hard(t[k], a) /\ (must => t[k].must)
          PROVE  \E k \in 1 .. Len(u) : Hard(u[k], a) /\ (must => u[k].must)
      <3>1. CASE \E k \in 1 .. Len(s) : Hard(s[k], a) /\ (must => s[k].must)
        <4>1. PICK k \in 1 .. Len(s) : Hard(s[k], a) /\ (must => s[k].must)
          BY <3>1
        <4>2. k \in 1 .. Len(u) /\ u[k] = s[k]
          BY <2>2
        <4>3. QED
          BY <4>1, <4>2
      <3>2. CASE \E k \in 1 .. Len(t) : Hard(t[k], a) /\ (must => t[k].must)
        <4>1. PICK k \in 1 .. Len(t) : Hard(t[k], a) /\ (must => t[k].must)
          BY <3>2
        <4>2. Len(s) + k \in 1 .. Len(u) /\ u[Len(s) + k] = t[k]
          BY <2>2
        <4>3. QED
          BY <4>1, <4>2
      <3>3. QED
        BY <2>5, <3>1, <3>2
    <2>6. QED
      BY <2>4, <2>5 DEF u, Has
  <1>3. ASSUME NEW s, NEW must, Calmly(s), Has(s, must)
  PROVE Done(s \o Passed) /\ Judges(s \o Passed, must)
    <2>0. /\ s \in Seq(Quiet) /\ Len(s) >= 2 /\ s[1] = Restart /\ s[2] = Readdress
          /\ \A k \in 3 .. Len(s) : ~Moves(s[k])
      BY <1>3 DEF Calmly
    <2>1. s \in Seq(Quiet) /\ Done(s \o Passed)
      BY <1>3, QuietStart, Ending DEF Calmly
    <2> DEFINE e == Command("END", 0, -1, "passed")
               u == s \o <<e>>
    <2>2. s \o Passed = u
      BY DEF Passed, Host, All, Step
    <2>3. /\ Len(u) = Len(s) + 1 /\ Len(s) \in Nat
          /\ \A k \in 1 .. Len(s) : u[k] = s[k]
          /\ u[Len(s) + 1] = e
      BY <2>1
    <2>4. ~Moves(e)
      BY DEF Moves, Command
    <2> HIDE DEF u, e
    <2>5. \A k \in 3 .. Len(u) : ~Moves(u[k])
      BY <2>0, <2>3, <2>4
    <2>6. Has(u, must)
      <3> SUFFICES ASSUME NEW a \in Addresses
                   PROVE  \E k \in 1 .. Len(u) : Hard(u[k], a) /\ (must => u[k].must)
        BY DEF Has
      <3>1. PICK k \in 1 .. Len(s) : Hard(s[k], a) /\ (must => s[k].must)
        BY <1>3 DEF Has
      <3>2. k \in 1 .. Len(u) /\ u[k] = s[k]
        BY <2>3
      <3>3. QED
        BY <3>1, <3>2
    <2>7. u[1] = Restart /\ u[2] = Readdress /\ Len(u) > 2
      BY <2>0, <2>3
    <2>8. u[Len(u)] = Command("END", 0, -1, "passed")
      BY <2>3 DEF e
    <2>9. QED
      BY <2>1, <2>2, <2>5, <2>6, <2>7, <2>8 DEF Judges
  <1>4. QED
    BY <1>1, <1>2, <1>3

LEMMA CalmPiece ==
  ASSUME NEW cmd, NEW arg, KeepFits(cmd, arg), cmd # "SET_CONTROL"
  PROVE  /\ \A a \in 0 .. MaxChips, need \in -1 .. MaxChips :
              Command(cmd, a, need, arg) \in Calm /\ Must(Command(cmd, a, need, arg)) \in Calm
         /\ All(cmd, arg) \in Seq(Calm) /\ MustAll(cmd, arg) \in Seq(Calm)
  <1>1. \A a \in 0 .. MaxChips, need \in -1 .. MaxChips :
          Command(cmd, a, need, arg) \in Calm /\ Must(Command(cmd, a, need, arg)) \in Calm
    <2> TAKE a \in 0 .. MaxChips, need \in -1 .. MaxChips
    <2>1. Command(cmd, a, need, arg) \in Steps /\ Must(Command(cmd, a, need, arg)) \in Steps
      BY CommandType, Bounds DEF KeepFits
    <2>2. Command(cmd, a, need, arg).cmd = cmd /\ Must(Command(cmd, a, need, arg)).cmd = cmd
      BY DEF Command, Must
    <2>3. QED
      BY <2>1, <2>2 DEF Calm, Quiet, Moves, KeepFits
  <1>2. Command(cmd, 0, -1, arg) \in Calm /\ Must(Command(cmd, 0, -1, arg)) \in Calm
    BY <1>1, Bounds
  <1>3. QED
    BY <1>1, <1>2 DEF All, MustAll, Step

LEMMA CalmCompares ==
  ASSUME NEW reg \in Registers, NEW value \in Values, NEW hard \in BOOLEAN
  PROVE  /\ \A a \in Addresses : Compare(a, reg, value, hard) \in Calm
         /\ CompareAll(reg, value, hard) \in Seq(Calm)
         /\ MustCompareAll(reg, value, hard) \in Seq(Calm)
         /\ hard => Has(CompareAll(reg, value, hard), FALSE)
         /\ hard => Has(MustCompareAll(reg, value, hard), TRUE)
              /\ Has(MustCompareAll(reg, value, hard), FALSE)
  <1>1. ArgFits("COMPARE", [reg |-> reg, value |-> value, hard |-> hard])
    BY DEF ArgFits, Compares
  <1>2. \A a \in Addresses : Compare(a, reg, value, hard) \in Calm
          /\ Must(Compare(a, reg, value, hard)) \in Calm
    <2> TAKE a \in Addresses
    <2>1. Compare(a, reg, value, hard) \in Steps /\ Must(Compare(a, reg, value, hard)) \in Steps
      BY <1>1, CommandType, Bounds DEF Compare
    <2>2. Compare(a, reg, value, hard).cmd = "COMPARE"
            /\ Must(Compare(a, reg, value, hard)).cmd = "COMPARE"
      BY DEF Compare, Must, Command
    <2>3. QED
      BY <2>1, <2>2 DEF Calm, Quiet, Moves, Uses
  <1>3. CompareAll(reg, value, hard) = [a \in 1 .. MaxChips |-> Compare(a, reg, value, hard)]
    BY DEF CompareAll, Addresses
  <1>4. MustCompareAll(reg, value, hard)
          = [a \in 1 .. MaxChips |-> Must(Compare(a, reg, value, hard))]
    BY DEF MustCompareAll, Addresses
  <1>5. CompareAll(reg, value, hard) \in [1 .. MaxChips -> Calm]
    BY <1>2, <1>3 DEF Addresses
  <1>6. MustCompareAll(reg, value, hard) \in [1 .. MaxChips -> Calm]
    BY <1>2, <1>4 DEF Addresses
  <1>7. /\ CompareAll(reg, value, hard) \in Seq(Calm)
        /\ MustCompareAll(reg, value, hard) \in Seq(Calm)
        /\ Len(CompareAll(reg, value, hard)) = MaxChips
        /\ Len(MustCompareAll(reg, value, hard)) = MaxChips
    BY <1>5, <1>6, Bounds
  <1>8. ASSUME hard, NEW a \in Addresses
        PROVE  Hard(Compare(a, reg, value, hard), a) /\ Hard(Must(Compare(a, reg, value, hard)), a)
               /\ Must(Compare(a, reg, value, hard)).must
    BY <1>8 DEF Hard, Compare, Must, Command
  <1>9. ASSUME hard PROVE Has(CompareAll(reg, value, hard), FALSE)
    BY <1>3, <1>7, <1>8, <1>9 DEF Has, Addresses
  <1>10. ASSUME hard PROVE Has(MustCompareAll(reg, value, hard), TRUE)
                  /\ Has(MustCompareAll(reg, value, hard), FALSE)
    BY <1>4, <1>7, <1>8, <1>10 DEF Has, Addresses
  <1>11. QED
    BY <1>2, <1>7, <1>9, <1>10

LEMMA CalmPieces ==
  /\ All("RESET", "") \in Seq(Calm) /\ ReadBist \in Seq(Calm)
  /\ MustAll("WRITE_TARGET", "golden") \in Seq(Calm)
  /\ MustAll("SET_DISABLE", "enable_all") \in Seq(Calm)
  /\ MustAll("WRITE_IO_CTRL", "written") \in Seq(Calm)
  /\ \A a \in Addresses : /\ Must(Command("WRITE_TARGET", a, a, "golden")) \in Calm
                          /\ Must(Command("SET_DISABLE", a, a, "disable_some")) \in Calm
  /\ \A a \in Addresses \cup {-1} : BistFor(a) \in Seq(Calm) /\ Len(BistFor(a)) = 4
  <1>1. /\ KeepFits("RESET", "") /\ KeepFits("WRITE_TARGET", "golden")
        /\ KeepFits("SET_DISABLE", "enable_all")
        /\ KeepFits("SET_DISABLE", "disable_some") /\ KeepFits("WRITE_IO_CTRL", "written")
        /\ KeepFits("WRITE_PARAM", "golden") /\ KeepFits("WRITE_NONCE", "golden")
        /\ KeepFits("RUN_BIST", "")
    BY DEF KeepFits, ArgFits, Uses, Plain, Masks, Data, Ranges
  <1>2. /\ All("RESET", "") \in Seq(Calm)
        /\ MustAll("WRITE_TARGET", "golden") \in Seq(Calm)
        /\ MustAll("SET_DISABLE", "enable_all") \in Seq(Calm)
        /\ MustAll("WRITE_IO_CTRL", "written") \in Seq(Calm)
    BY <1>1, CalmPiece
  <1>3. \A a \in Addresses : a \in 0 .. MaxChips /\ a \in -1 .. MaxChips
    BY Bounds
  <1>4. \A a \in Addresses : /\ Must(Command("WRITE_TARGET", a, a, "golden")) \in Calm
                             /\ Must(Command("SET_DISABLE", a, a, "disable_some")) \in Calm
    BY <1>1, <1>3, CalmPiece
  <1>5. ASSUME NEW a \in Addresses \cup {-1} PROVE BistFor(a) \in Seq(Calm) /\ Len(BistFor(a)) = 4
    <2>1. a \in -1 .. MaxChips
      BY Bounds
    <2>2. /\ Command("WRITE_PARAM", 0, a, "golden") \in Calm
          /\ Command("WRITE_TARGET", 0, a, "golden") \in Calm
          /\ Command("WRITE_NONCE", 0, a, "golden") \in Calm
          /\ Command("RUN_BIST", 0, a, "") \in Calm
      BY <1>1, <2>1, CalmPiece, Bounds
    <2>3. \A x, y, z, w \in Calm : <<x, y, z, w>> \in Seq(Calm) /\ Len(<<x, y, z, w>>) = 4
      OBVIOUS
    <2>4. QED
      BY <2>2, <2>3 DEF BistFor
  <1>6. ReadBist \in Seq(Calm)
    <2>1. \A a \in Addresses : ReadOf(a) \in Calm
      <3>1. \A a \in Addresses : ReadOf(a).cmd = "READ_BIST"
        BY DEF ReadOf, Command
      <3>2. QED
        BY <3>1, StepTypes DEF Calm, Moves
    <2>2. ReadBist = [a \in 1 .. MaxChips |-> ReadOf(a)]
      BY DEF ReadBist, Each, Addresses, ReadOf
    <2>3. ReadBist \in [1 .. MaxChips -> Calm]
      BY <2>1, <2>2 DEF Addresses
    <2>4. QED
      BY <2>3, Bounds
  <1>7. QED
    BY <1>2, <1>4, <1>5, <1>6

LEMMA RegisterPrograms ==
  ASSUME NEW r
  PROVE  /\ Done(TestWRTarget(r)) /\ Judges(TestWRTarget(r), FALSE)
         /\ Done(TestWRDisable(r)) /\ Judges(TestWRDisable(r), FALSE)
         /\ Done(TestReadRevision(r)) /\ Judges(TestReadRevision(r), TRUE)
         /\ Done(TestReadFeature(r)) /\ Judges(TestReadFeature(r), TRUE)
         /\ Done(TestIOCtrl(r)) /\ Judges(TestIOCtrl(r), TRUE)
  <1>1. /\ \A reg \in {"revision", "feature"} : MustCompareAll(reg, "fixed", TRUE) \in Seq(Calm)
                                                /\ Has(MustCompareAll(reg, "fixed", TRUE), TRUE)
        /\ \A v \in {"default", "written"} : MustCompareAll("io", v, TRUE) \in Seq(Calm)
                                              /\ Has(MustCompareAll("io", v, TRUE), TRUE)
        /\ CompareAll("target", "golden", TRUE) \in Seq(Calm)
        /\ Has(CompareAll("target", "golden", TRUE), FALSE)
        /\ CompareAll("mask", "disable_some", FALSE) \in Seq(Calm)
        /\ CompareAll("mask", "enable_all", TRUE) \in Seq(Calm)
        /\ Has(CompareAll("mask", "enable_all", TRUE), FALSE)
    BY CalmCompares DEF Registers, Values
  <1>2. Done(TestReadRevision(r)) /\ Judges(TestReadRevision(r), TRUE)
    BY <1>1, CalmChain DEF TestReadRevision
  <1>3. Done(TestReadFeature(r)) /\ Judges(TestReadFeature(r), TRUE)
    BY <1>1, CalmChain DEF TestReadFeature
  <1>4. Done(TestIOCtrl(r)) /\ Judges(TestIOCtrl(r), TRUE)
    BY <1>1, CalmPieces, CalmChain DEF TestIOCtrl
  <1>5. Done(TestWRTarget(r)) /\ Judges(TestWRTarget(r), FALSE)
    <2> DEFINE w == Rounds(MaxChips, 2,
          [a \in Addresses |-> <<Must(Command("WRITE_TARGET", a, a, "golden")),
                                 Compare(a, "target", "golden", FALSE)>>])
    <2>1. w \in Seq(Calm)
      <3>1. \A a \in Addresses : /\ Must(Command("WRITE_TARGET", a, a, "golden")) \in Calm
                                 /\ Compare(a, "target", "golden", FALSE) \in Calm
        BY CalmPieces, CalmCompares DEF Registers, Values
      <3>2. \A x, y \in Calm : \A i \in 1 .. 2 : <<x, y>>[i] \in Calm
        OBVIOUS
      <3>3. \A k \in 1 .. MaxChips : \A i \in 1 .. 2 :
              [a \in Addresses |-> <<Must(Command("WRITE_TARGET", a, a, "golden")),
                                     Compare(a, "target", "golden", FALSE)>>][k][i] \in Calm
        BY <3>1, <3>2 DEF Addresses
      <3>4. QED
        BY <3>3, RoundsType, Bounds
    <2>2. TestWRTarget(r) = Start \o w \o MustAll("WRITE_TARGET", "golden")
                            \o CompareAll("target", "golden", TRUE) \o Passed
      BY Zenon DEF TestWRTarget
    <2> HIDE DEF w
    <2>3. QED
      BY <1>1, <2>1, <2>2, CalmPieces, CalmChain
  <1>6. Done(TestWRDisable(r)) /\ Judges(TestWRDisable(r), FALSE)
    <2> DEFINE w == Rounds(MaxChips, 6, [a \in Addresses |->
                      <<Must(Command("SET_DISABLE", a, a, "disable_some"))>> \o BistFor(a)
                      \o <<Compare(a, "mask", "disable_some", TRUE)>>])
    <2>1. w \in Seq(Calm)
      <3>1. \A a \in Addresses : /\ Must(Command("SET_DISABLE", a, a, "disable_some")) \in Calm
                                 /\ Compare(a, "mask", "disable_some", TRUE) \in Calm
                                 /\ BistFor(a) \in Seq(Calm) /\ Len(BistFor(a)) = 4
        BY CalmPieces, CalmCompares DEF Registers, Values
      <3>2. \A x, y \in Calm : \A t \in Seq(Calm) : Len(t) = 4
              => \A i \in 1 .. 6 : (<<x>> \o t \o <<y>>)[i] \in Calm
        <4> TAKE x, y \in Calm
        <4> TAKE t \in Seq(Calm)
        <4> HAVE Len(t) = 4
        <4>0. <<x>> \in Seq(Calm) /\ Len(<<x>>) = 1
          OBVIOUS
        <4> DEFINE q == <<x>>
        <4>5. q \in Seq(Calm) /\ Len(q) = 1
          BY <4>0
        <4> HIDE DEF q
        <4>6. q \o t \in Seq(Calm)
          BY <4>5
        <4>8. Len(q \o t) = Len(q) + Len(t)
          BY <4>5, ConcatProperties
        <4>7. Len(q \o t) = 5
          BY <4>5, <4>8
        <4>1. <<x>> \o t \in Seq(Calm) /\ Len(<<x>> \o t) = 5
          BY <4>6, <4>7 DEF q
        <4>2. (<<x>> \o t) \o <<y>> \in Seq(Calm) /\ Len((<<x>> \o t) \o <<y>>) = 6
          BY <4>1
        <4>3. QED
          BY <4>2
      <3>3. \A k \in 1 .. MaxChips : \A i \in 1 .. 6 :
              [a \in Addresses |->
                 <<Must(Command("SET_DISABLE", a, a, "disable_some"))>> \o BistFor(a)
                 \o <<Compare(a, "mask", "disable_some", TRUE)>>][k][i] \in Calm
        BY <3>1, <3>2 DEF Addresses
      <3>4. QED
        BY <3>3, RoundsType, Bounds
    <2>2. TestWRDisable(r) = Start \o All("RESET", "")
            \o CompareAll("mask", "disable_some", FALSE) \o w
                             \o ReadBist \o MustAll("SET_DISABLE", "enable_all") \o BistFor(-1)
                             \o CompareAll("mask", "enable_all", TRUE) \o ReadBist \o Passed
      BY Zenon DEF TestWRDisable
    <2> HIDE DEF w
    <2>3. QED
      BY <1>1, <2>1, <2>2, CalmPieces, CalmChain
  <1>7. QED
    BY <1>2, <1>3, <1>4, <1>5, <1>6

\* Every test the program can be asked for ends, reads the cores of all addresses after its
\* last numbering (SimpleWork.c:276), with BIST on golden data before DistributionNonce
\* divides by them (Btc08.c:1265), and a register test compares every chip.  TestDisableCore
\* with a fault chip above 1 renumbers in between (SingleCommand.c:729).
THEOREM ProgramFacts ==
  \A r \in Invocations :
    /\ Proper(r) /\ IsProgram(Programs[r])
    /\ ~(r.test = "TestDisableCore" /\ r.fault > 1) => Counted(Programs[r])
    /\ r.test \in RegisterTests => Judges(Programs[r], r.test \in MustTests)
  <1> SUFFICES ASSUME NEW r \in Invocations
               PROVE  /\ Proper(r) /\ IsProgram(Programs[r])
                      /\ ~(r.test = "TestDisableCore" /\ r.fault > 1) => Counted(Programs[r])
                      /\ r.test \in RegisterTests => Judges(Programs[r], r.test \in MustTests)
    OBVIOUS
  <1>1. Proper(r) /\ r \in Calls /\ r.test \in TestNames /\ r.fault \in Nat
    BY CallTypes, Bounds DEF Proper, Calls
  <1>2. Programs[r] = StepsOf(r)
    BY DEF Programs
  <1>3. \A p : Done(p) => IsProgram(p) /\ Counted(p)
    BY DEF Done
  <1>4. CASE r.test \in {"TestWork", "TestWorkLoop", "TestInfiniteWorkLoop",
          "TestWorkLoopRandomVector"}
    <2>1. Done(Programs[r])
      BY <1>1, <1>2, <1>4, SimpleWorkPrograms DEF StepsOf
    <2>2. QED
      BY <1>1, <1>3, <1>4, <2>1 DEF RegisterTests
  <1>5. CASE r.test \in {"HWReset", "ResetAutoAddress", "TestReadBist", "TestSetPll",
          "TestLastChip",
                         "TestMiningWithoutBist", "TestBist"}
    <2>1. Done(Programs[r])
      BY <1>1, <1>2, <1>5, SingleCommandPrograms DEF StepsOf
    <2>2. QED
      BY <1>1, <1>3, <1>5, <2>1 DEF RegisterTests
  <1>6. CASE r.test = "TestDisableCore"
    <2>1. Programs[r] = TestDisableCore(r)
      BY <1>2, <1>6 DEF StepsOf
    <2>2. QED
      BY <1>1, <1>3, <1>6, <2>1, SingleCommandPrograms DEF RegisterTests
  <1>7. CASE r.test \in {"TestXCore", "TestAsic", "TestWorkLoopFreq", "Mining", "ChipSortingBIST"}
    <2>1. Done(Programs[r])
      BY <1>1, <1>2, <1>7, OtherPrograms DEF StepsOf
    <2>2. QED
      BY <1>1, <1>3, <1>7, <2>1 DEF RegisterTests
  <1>8. CASE r.test \in RegisterTests
    <2>1. CASE r.test = "TestReadRevision"
      <3>1. Programs[r] = TestReadRevision(r) /\ (r.test \in MustTests) = TRUE
        BY <1>2, <2>1 DEF StepsOf, MustTests
      <3>2. QED
        BY <1>1, <1>3, <3>1, RegisterPrograms
    <2>2. CASE r.test = "TestReadFeature"
      <3>1. Programs[r] = TestReadFeature(r) /\ (r.test \in MustTests) = TRUE
        BY <1>2, <2>2 DEF StepsOf, MustTests
      <3>2. QED
        BY <1>1, <1>3, <3>1, RegisterPrograms
    <2>3. CASE r.test = "TestIOCtrl"
      <3>1. Programs[r] = TestIOCtrl(r) /\ (r.test \in MustTests) = TRUE
        BY <1>2, <2>3 DEF StepsOf, MustTests
      <3>2. QED
        BY <1>1, <1>3, <3>1, RegisterPrograms
    <2>4. CASE r.test = "TestWRTarget"
      <3>1. Programs[r] = TestWRTarget(r) /\ (r.test \in MustTests) = FALSE
        BY <1>2, <2>4 DEF StepsOf, MustTests
      <3>2. QED
        BY <1>1, <1>3, <3>1, RegisterPrograms
    <2>5. CASE r.test = "TestWRDisable"
      <3>1. Programs[r] = TestWRDisable(r) /\ (r.test \in MustTests) = FALSE
        BY <1>2, <2>5 DEF StepsOf, MustTests
      <3>2. QED
        BY <1>1, <1>3, <3>1, RegisterPrograms
    <2>6. QED
      BY <1>8, <2>1, <2>2, <2>3, <2>4, <2>5 DEF RegisterTests
  <1>9. QED
    BY <1>1, <1>4, <1>5, <1>6, <1>7, <1>8 DEF TestNames

-----------------------------------------------------------------------------
(* The board: the chain of chips and their addresses.                       *)

\* Every set of numbers has a least one, and a bounded one a largest.
LEMMA Less == IsWellFoundedOn({ss \in Nat \X Nat : ss[1] < ss[2]}, Nat)
  BY NatLessThanWellFounded DEF OpToRel

LEMMA MaxFacts ==
  ASSUME NEW n \in Nat, NEW S, S \subseteq 0 .. n, S # {}
  PROVE  Max(S) \in S /\ \A x \in S : x <= Max(S)
  <1> DEFINE R == {ss \in Nat \X Nat : ss[1] < ss[2]}
             T == {n - x : x \in S}
  <1>1. T \subseteq Nat /\ T # {}
    <2>1. \A x \in S : x \in 0 .. n
      OBVIOUS
    <2>2. \A x \in 0 .. n : n - x \in Nat
      OBVIOUS
    <2>3. \A x \in S : n - x \in Nat
      BY <2>1, <2>2
    <2>4. QED
      BY <2>3
  <1>2. PICK x \in T : \A y \in T : ~ (<<y, x>> \in R)
    <2> HIDE DEF T
    <2>1. QED
    BY <1>1, Less, WFMin, Zenon
  <1>3. PICK m \in S : x = n - m
    BY <1>2
  <1>4. \A y \in S : m >= y
    <2> TAKE y \in S
    <2>1. n - y \in T /\ n - y \in Nat /\ x \in Nat
      BY <1>1, <1>2
    <2>2. ~ (n - y < x)
      BY <2>1, <1>2
    <2>3. QED
      BY <2>2, <1>3
  <1>5. QED
    BY <1>4 DEF Max

LEMMA MinPair ==
  ASSUME NEW a \in Int, NEW b \in Int
  PROVE  Min({a, b}) = IF a <= b THEN a ELSE b
  <1>1. \E x \in {a, b} : \A y \in {a, b} : x <= y
    OBVIOUS
  <1>2. Min({a, b}) \in {a, b} /\ \A y \in {a, b} : Min({a, b}) <= y
    BY <1>1 DEF Min
  <1>3. QED
    BY <1>2

\* The board and its chips.
Size   == Cardinality(Chips)
Nonces == [range : Ranges \cup {"none"}, part : -1 .. MaxChips, of : -1 .. MaxChips]

ChipStates ==
  [addr : 0 .. MaxChips, last : BOOLEAN, oon : BOOLEAN, clock : {"power_on", "set", "off"},
   mask : Masks, found : 0 .. Cores, param : Data \cup {"none"}, target : Data \cup {"none"},
   nonce : Nonces, io : {"default", "written"}, jobs : 0 .. FifoDepth]

Chain ==
  /\ Size \in 1 .. MaxChips
  /\ health \in [1 .. Size -> 0 .. Cores] /\ chip \in [1 .. Size -> ChipStates]
  /\ \A p \in 1 .. Size : chip[p].addr <= Size

\* The chips still on the chain are those from LastChip to its end.
LEMMA Geometry ==
  ASSUME Chain
  PROVE  /\ Chips = 1 .. Size /\ LastChip \in 1 .. Size
         /\ \A p \in 1 .. Size : chip[p].last => p <= LastChip
         /\ LastChip = 1 \/ chip[LastChip].last
         /\ Reach = LastChip .. Size /\ Cardinality(Reach) = Size - LastChip + 1
         /\ \A a : Hit(a) \subseteq 1 .. Size /\ ChipAt(a) \in 0 .. Size
  <1> DEFINE S == {1} \cup {p \in Chips : chip[p].last}
  <1>0. Size \in Nat /\ Size >= 1 /\ MaxChips \in Nat /\ Chips = 1 .. Size
    BY Bounds DEF Chain, Chips
  <1>1. S \subseteq 0 .. Size /\ S # {}
    BY <1>0
  <1>2. Max(S) \in S /\ \A x \in S : x <= Max(S)
    <2> HIDE DEF S
    <2>1. QED
      BY <1>0, <1>1, MaxFacts
  <1>3. LastChip = Max(S)
    BY DEF LastChip
  <1>4. LastChip \in 1 .. Size /\ (LastChip = 1 \/ chip[LastChip].last)
    BY <1>0, <1>2, <1>3
  <1>5. \A p \in 1 .. Size : chip[p].last => p <= LastChip
    BY <1>0, <1>2, <1>3
  <1>6. Reach = LastChip .. Size
    BY DEF Reach, Size
  <1>7. Cardinality(Reach) = Size - LastChip + 1
    BY <1>0, <1>4, <1>6, FS_Interval
  <1>8. ASSUME NEW a PROVE Hit(a) \subseteq 1 .. Size /\ ChipAt(a) \in 0 .. Size
    <2>1. Hit(a) \subseteq 1 .. Size
      BY <1>0, <1>4, <1>6 DEF Hit
    <2>2. CASE Hit(a) = {}
      BY <1>0, <2>1, <2>2 DEF ChipAt
    <2>3. CASE Hit(a) # {}
      <3>1. Hit(a) \subseteq 0 .. Size
        BY <2>1
      <3>2. Max(Hit(a)) \in Hit(a)
        BY <1>0, <2>3, <3>1, MaxFacts
      <3>3. QED
        BY <2>1, <2>3, <3>2 DEF ChipAt
    <2>4. QED
      BY <2>2, <2>3
  <1>9. QED
    BY <1>0, <1>4, <1>5, <1>6, <1>7, <1>8

\* The chips from First to the end of the chain have the addresses 1 .. numChips.
First == Size - numChips + 1

Numbered ==
  /\ numChips <= Size
  /\ \A p \in First .. Size : chip[p].addr = p - First + 1
  /\ \A p \in 1 .. Size : chip[p].last => p <= First

\* After a numbering, address a is that of the chip First + a - 1.
LEMMA Addressed ==
  ASSUME Chain, numChips \in -1 .. MaxChips, Numbered, NEW a \in Addresses, Address(a)
  PROVE  /\ ChipAt(a) = First + a - 1 /\ First + a - 1 \in 1 .. Size
         /\ \A p \in Hit(1) : p <= First
  <1>0. /\ Size \in Nat /\ Size >= 1 /\ numChips \in Nat /\ numChips >= 1 /\ numChips <= Size
        /\ a \in 1 .. numChips /\ First \in 1 .. Size /\ First + a - 1 \in First .. Size
    BY DEF Chain, Numbered, Address, First
  <1>1. LastChip \in 1 .. First /\ Reach = LastChip .. Size
    BY <1>0, Geometry DEF Numbered
  <1>2. First + a - 1 \in Hit(a)
    BY <1>0, <1>1 DEF Hit, Numbered
  <1>3. \A p \in Hit(a) : p <= First + a - 1
    BY <1>0, <1>1 DEF Hit, Numbered
  <1>4. \A p \in Hit(1) : p <= First
    BY <1>0, <1>1 DEF Hit, Numbered
  <1>5. Max(Hit(a)) = First + a - 1
    <2>1. Hit(a) \subseteq 0 .. Size /\ Hit(a) # {}
      BY <1>0, <1>2, Geometry
    <2>2. Max(Hit(a)) \in Hit(a) /\ \A x \in Hit(a) : x <= Max(Hit(a))
      BY <1>0, <2>1, MaxFacts
    <2>3. Max(Hit(a)) \in 0 .. Size
      BY <2>1, <2>2
    <2>4. QED
      BY <1>0, <1>2, <1>3, <2>2, <2>3
  <1>6. QED
    BY <1>0, <1>2, <1>4, <1>5 DEF ChipAt

-----------------------------------------------------------------------------
(* The types of the state, and what a step may change.                      *)

\* The types of the variables, stronger than TypeOK where a proof needs it.
TypeInv ==
  /\ run \in Invocations /\ pc \in 1 .. Len(Programs[run]) /\ rounds \in 1 .. MaxRounds
  /\ result \in {"running", "mining", "passed", "failed", "crashed"}
  /\ fault \in {"none"} \cup Faults
  /\ board \in {"ASIC", "FPGA"} /\ type \in {"ASIC", "FPGA"} /\ Chain
  /\ numChips \in -1 .. MaxChips
  /\ numCores \in [1 .. MaxChips -> [cores : 0 .. Cores, chip : 0 .. MaxChips]]
  /\ dist \in Nonces

LEMMA NowFacts ==
  ASSUME TypeInv
  PROVE  /\ IsProgram(Programs[run]) /\ Now = Programs[run][pc]
         /\ Now \in Steps => pc + 1 \in 1 .. Len(Programs[run])
         /\ Now \in Steps \/ (IsEnd(Now) /\ pc = Len(Programs[run]))
         /\ Now.cmd = "END" => IsEnd(Now) /\ Now.arg \in {"mining", "passed"}
         /\ Now.cmd # "END" => Now \in Steps
         /\ Now.need \in -1 .. MaxChips + 1
  <1>1. IsProgram(Programs[run]) /\ pc \in 1 .. Len(Programs[run])
    BY ProgramFacts DEF TypeInv
  <1>2. Len(Programs[run]) \in Nat
    BY <1>1 DEF IsProgram
  <1>3. Now = Programs[run][pc]
    BY DEF Now
  <1>4. \A s : IsEnd(s) => s.cmd = "END" /\ s.arg \in {"mining", "passed"} /\ s.need = -1
    BY DEF IsEnd, Command
  <1>5. \A s \in Steps : s.cmd # "END" /\ s.need \in -1 .. MaxChips + 1
    BY DEF Steps, Cmds, Plain
  <1>6. IF pc = Len(Programs[run]) THEN IsEnd(Now) ELSE Now \in Steps
    BY <1>1, <1>3 DEF IsProgram
  <1>7. -1 \in -1 .. MaxChips + 1
    BY Bounds
  <1>8. QED
    BY <1>1, <1>3, <1>4, <1>5, <1>6, <1>7

LEMMA ArgFacts ==
  ASSUME NEW s \in Steps
  PROVE  /\ s.cmd \in {"SET_DISABLE", "WRITE_CORE_CFG"} => s.arg \in Masks
         /\ s.cmd \in {"WRITE_PARAM", "WRITE_TARGET"} => s.arg \in Data
         /\ s.cmd = "WRITE_NONCE" => s.arg \in Ranges \cup {"share"}
         /\ s.cmd = "SET_CONTROL" => s.arg \in Controls
         /\ s.cmd = "WRITE_IO_CTRL" => s.arg = "written"
         /\ s.cmd = "DISTRIBUTE" => s.arg \in Ranges
         /\ s.cmd = "COMPARE" => s.arg \in Compares
         /\ s.to \in -1 .. MaxChips /\ s.must \in BOOLEAN
  BY DEF Steps, ArgFits, Plain

LEMMA BistFindsType ==
  ASSUME NEW c \in ChipStates, NEW n \in 0 .. Cores
  PROVE  BistFinds(c, n) \in 0 .. Cores
  <1>1. Cores \in Nat /\ Cores > 1
    BY BringupAssumption
  <1>2. Disabled(c.mask) \in {0, 1}
    BY DEF Disabled
  <1>3. Cores - Disabled(c.mask) \in 0 .. Cores
    BY <1>1, <1>2
  <1>4. Min({n, Cores - Disabled(c.mask)}) \in 0 .. Cores
    BY <1>1, <1>3, MinPair
  <1>5. c.found \in 0 .. Cores
    BY DEF ChipStates
  <1>6. QED
    BY <1>1, <1>4, <1>5 DEF BistFinds

LEMMA EffectType ==
  ASSUME NEW c \in ChipStates, NEW n \in 0 .. Cores, NEW s \in Steps, dist \in Nonces
  PROVE  /\ Effect(c, n, s) \in ChipStates /\ Effect(c, n, s).addr = c.addr
         /\ Effect(c, n, s).last = IF s.cmd = "SET_CONTROL" THEN s.arg.last ELSE c.last
  <1> DEFINE e == Effect(c, n, s)
  <1>1. Cores \in Nat /\ Cores > 1
    BY BringupAssumption
  <1>2. e.addr = c.addr /\ e.addr \in 0 .. MaxChips
    BY DEF Effect, ChipStates
  <1>3. e.clock \in {"power_on", "set", "off"}
    BY DEF Effect, ChipStates
  <1>4. e.last \in BOOLEAN /\ e.last = IF s.cmd = "SET_CONTROL" THEN s.arg.last ELSE c.last
    BY ArgFacts DEF Effect, ChipStates, Controls
  <1>5. e.oon \in BOOLEAN
    BY ArgFacts DEF Effect, ChipStates, Controls
  <1>6. e.mask \in Masks
    BY ArgFacts DEF Effect, ChipStates
  <1>7. e.param \in Data \cup {"none"} /\ e.target \in Data \cup {"none"}
    BY ArgFacts DEF Effect, ChipStates
  <1>8. e.nonce \in Nonces
    <2>1. c.nonce \in Nonces
      BY DEF ChipStates
    <2>2. [dist EXCEPT !.part = s.to] \in Nonces
      BY ArgFacts DEF Nonces
    <2>3. \A name \in Ranges : Whole(name) \in Nonces
      BY Bounds DEF Whole, Nonces
    <2>4. QED
      BY <2>1, <2>2, <2>3, ArgFacts DEF Effect
  <1>9. e.io \in {"default", "written"}
    BY ArgFacts DEF Effect, ChipStates
  <1>10. e.found \in 0 .. Cores
    <2>1. BistFinds(c, n) \in 0 .. Cores
      BY BistFindsType
    <2>2. Cores - Disabled(s.arg) \in 0 .. Cores
      BY <1>1 DEF Disabled
    <2>3. c.found \in 0 .. Cores
      BY DEF ChipStates
    <2>4. QED
      BY <2>1, <2>2, <2>3 DEF Effect
  <1>11. e.jobs \in 0 .. FifoDepth
    <2>1. c.jobs \in 0 .. FifoDepth /\ FifoDepth = 4
      BY DEF ChipStates, FifoDepth
    <2>2. Min({c.jobs + 1, FifoDepth}) \in 0 .. FifoDepth
      BY <2>1, MinPair
    <2>3. QED
      BY <2>1, <2>2 DEF Effect
  <1>12. e \in ChipStates
    <2>1. e = [addr |-> e.addr, last |-> e.last, oon |-> e.oon, clock |-> e.clock, mask |-> e.mask,
               found |-> e.found, param |-> e.param, target |-> e.target, nonce |-> e.nonce,
               io |-> e.io, jobs |-> e.jobs]
      BY Zenon DEF Effect
    <2> HIDE DEF e
    <2>2. QED
      BY <1>2, <1>3, <1>4, <1>5, <1>6, <1>7, <1>8, <1>9, <1>10, <1>11, <2>1 DEF ChipStates
  <1>13. QED
    BY <1>2, <1>4, <1>12

LEMMA ResetType == Reset \in ChipStates /\ Reset.last = FALSE /\ Reset.addr = 0
  <1>1. NoRange \in Nonces
    BY Bounds DEF NoRange, Whole, Nonces
  <1>2. 0 \in 0 .. MaxChips /\ 0 \in 0 .. Cores /\ 0 \in 0 .. FifoDepth
    BY BringupAssumption DEF FifoDepth
  <1>3. QED
    BY <1>1, <1>2 DEF Reset, ChipStates, Masks

\* A step within a test, and the two ways it goes on.
SameTest == run' = run /\ rounds' = rounds /\ board' = board /\ health' = health
GoesOn   == pc' = pc + 1 /\ result' = "running"
Stops    == pc' = pc /\ result' # "running"

\* What a step changes, by the actions that change it.
LEMMA Frame ==
  ASSUME TypeInv, Next
  PROVE  \/ Again
         \/ /\ SameTest /\ result = "running" /\ (GoesOn \/ Stops)
            /\ GoesOn => Now \in Steps
            /\ result' \in {"running", "mining", "passed", "failed", "crashed"}
            /\ result' = "passed" => Now.cmd = "END"
            /\ fault' = fault \/ (fault = "none" /\ fault' \in Faults)
            /\ \/ numChips' = numChips
               \/ AutoAddress
            /\ \/ chip' = chip
               \/ HWResetStep \/ AutoAddress \/ Write \/ SetPllConfigByIdx
            /\ \/ numCores' = numCores
               \/ ReadBistStep
            /\ \/ dist' = dist
               \/ DistributionNonce
            /\ \/ type' = type
               \/ GetBoardType
  <1> USE NowFacts DEF At, SameTest, GoesOn, Stops, Advance, Finish, Fine, GoWrong, NextTest,
        world, handle
  <1>1. CASE HWResetStep
    BY <1>1 DEF HWResetStep
  <1>2. CASE AutoAddress
    BY <1>2 DEF AutoAddress
  <1>3. CASE Write
    BY <1>3 DEF Write, Writes
  <1>4. CASE GetBoardType
    BY <1>4 DEF GetBoardType
  <1>5. CASE GetPllFreq2Idx
    BY <1>5 DEF GetPllFreq2Idx
  <1>6. CASE SetPllConfigByIdx
    BY <1>6 DEF SetPllConfigByIdx
  <1>7. CASE ReadBistStep
    BY <1>7 DEF ReadBistStep
  <1>8. CASE DistributionNonce
    BY <1>8 DEF DistributionNonce
  <1>9. CASE CheckCores
    BY <1>9 DEF CheckCores
  <1>10. CASE CheckNumChips
    BY <1>10 DEF CheckNumChips
  <1>11. CASE CheckId
    BY <1>11 DEF CheckId
  <1>12. CASE ReadAndCompare
    BY <1>12 DEF ReadAndCompare
  <1>13. CASE LoopEnds
    <2>1. Now.need > numChips
      BY <1>13 DEF LoopEnds
    <2>2. Now.cmd # "END"
      <3>1. \A s : IsEnd(s) => s.need = -1
        BY DEF IsEnd, Command
      <3>2. numChips >= -1
        BY Bounds DEF TypeInv
      <3>3. QED
        BY SMTT(30), <2>1, <3>1, <3>2, Bounds DEF TypeInv
    <2>3. QED
      BY <1>13, <2>2 DEF LoopEnds
  <1>14. CASE End
    BY <1>14 DEF End
  <1>15. QED
    BY <1>1, <1>2, <1>3, <1>4, <1>5, <1>6, <1>7, <1>8, <1>9, <1>10, <1>11, <1>12, <1>13, <1>14 DEF
       Next

-----------------------------------------------------------------------------
(* Type correctness.                                                        *)

LEMMA SomeCommand == \A r \in Invocations : 1 \in 1 .. Len(Programs[r])
  <1> TAKE r \in Invocations
  <1>1. Len(Programs[r]) \in Nat /\ Len(Programs[r]) > 0
    BY ProgramFacts DEF IsProgram
  <1>2. QED
    BY <1>1

LEMMA FreshChain ==
  ASSUME NEW n \in 1 .. MaxChips
  PROVE  /\ [p \in 1 .. n |-> Reset] \in [1 .. n -> ChipStates]
         /\ \A p \in 1 .. n : [q \in 1 .. n |-> Reset][p] = Reset
         /\ Cardinality(1 .. n) = n
  <1>1. n \in Nat /\ n >= 1
    BY Bounds
  <1>2. Cardinality(1 .. n) = n
    BY <1>1, FS_Interval
  <1>3. QED
    BY <1>2, ResetType

LEMMA TypeInit == Init => TypeInv
  <1> SUFFICES ASSUME Init PROVE TypeInv
    OBVIOUS
  <1>1. PICK n \in 1 .. MaxChips : health \in [1 .. n -> 0 .. Cores]
               /\ chip = [p \in 1 .. n |-> Reset]
    BY DEF Init
  <1>2. Chips = 1 .. n
    BY <1>1 DEF Chips
  <1>3. Size = n
    BY <1>2, FreshChain DEF Size
  <1>4. \A p \in 1 .. n : chip[p].addr <= n
    <2>1. \A p \in 1 .. n : chip[p] = Reset
      BY <1>1
    <2>2. QED
      BY <2>1, ResetType, Bounds
  <1>5. chip \in [1 .. n -> ChipStates]
    BY <1>1, FreshChain
  <1>6. Chain
    BY <1>1, <1>3, <1>4, <1>5 DEF Chain
  <1>7. run \in Invocations /\ pc \in 1 .. Len(Programs[run])
    BY SomeCommand DEF Init
  <1>8. rounds \in 1 .. MaxRounds
    BY BringupAssumption DEF Init
  <1>9. /\ result \in {"running", "mining", "passed", "failed", "crashed"}
        /\ fault \in {"none"} \cup Faults
        /\ board \in {"ASIC", "FPGA"} /\ type \in {"ASIC", "FPGA"}
    BY DEF Init
  <1>10. numChips \in -1 .. MaxChips
    BY Bounds DEF Init
  <1>11. numCores \in [1 .. MaxChips -> [cores : 0 .. Cores, chip : 0 .. MaxChips]]
    <2>1. 0 \in 0 .. Cores /\ 0 \in 0 .. MaxChips
      BY BringupAssumption
    <2>2. [cores |-> 0, chip |-> 0] \in [cores : 0 .. Cores, chip : 0 .. MaxChips]
      BY <2>1
    <2>3. QED
      BY <2>2 DEF Init
  <1>12. dist \in Nonces
    BY Bounds DEF Init, NoRange, Whole, Nonces
  <1>13. QED
    BY <1>6, <1>7, <1>8, <1>9, <1>10, <1>11, <1>12 DEF TypeInv

LEMMA ChainStep ==
  ASSUME TypeInv, Next
  PROVE  Chain' /\ Size' = Size /\ Chips' = Chips /\ health' = health
  <1>1. health' = health
    BY Frame DEF Again, SameTest, world
  <1>2. Chips' = Chips /\ Size' = Size
    BY <1>1 DEF Chips, Size
  <1>3. Chain /\ Chips = 1 .. Size /\ Size \in 1 .. MaxChips
    BY Geometry DEF TypeInv, Chain
  <1>4. chip' \in [1 .. Size -> ChipStates] /\ \A p \in 1 .. Size : chip'[p].addr <= Size
    <2>1. CASE chip' = chip
      BY <1>3, <2>1 DEF Chain
    <2>2. CASE chip' = [p \in Chips |-> Reset]
      <3>1. \A p \in 1 .. Size : chip'[p] = Reset
        BY <1>3, <2>2
      <3>2. chip' \in [1 .. Size -> ChipStates]
        BY <1>3, <2>2, ResetType
      <3>3. QED
        BY <1>3, <3>1, <3>2, ResetType
    <2>3. CASE AutoAddress /\ chip' # chip
      <3>1. chip' = [p \in Chips |-> IF p \in Reach THEN [chip[p] EXCEPT !.addr = p - LastChip + 1]
                                                     ELSE chip[p]]
        BY <2>3 DEF AutoAddress
      <3>2. \A p \in 1 .. Size : /\ chip'[p] \in ChipStates /\ chip'[p].addr <= Size
        <4> TAKE p \in 1 .. Size
        <4>1. chip[p] \in ChipStates /\ chip[p].addr <= Size
          BY <1>3 DEF Chain
        <4>2. CASE p \in Reach
          <5>1. p - LastChip + 1 \in 0 .. Size /\ p - LastChip + 1 \in 0 .. MaxChips
            BY <1>3, <4>2, Geometry, Bounds
          <5>2. chip'[p] = [chip[p] EXCEPT !.addr = p - LastChip + 1]
            BY <1>3, <3>1, <4>2
          <5>3. QED
            BY <4>1, <5>1, <5>2 DEF ChipStates
        <4>3. CASE p \notin Reach
          BY <1>3, <3>1, <4>1, <4>3
        <4>4. QED
          BY <4>2, <4>3
      <3>3. chip' = [p \in 1 .. Size |-> chip'[p]]
        BY <1>3, <3>1, Zenon
      <3>4. QED
        BY <3>2, <3>3
    <2>4. CASE Write /\ chip' # chip
      <3>1. chip' = [p \in Chips |-> IF p \in Hit(To) THEN Effect(chip[p], health[p],
              Now) ELSE chip[p]]
        BY <2>4 DEF Write
      <3>2. Now \in Steps
        BY <2>4, NowFacts DEF Write, At, Writes
      <3>3. \A p \in 1 .. Size : chip'[p] \in ChipStates /\ chip'[p].addr <= Size
        <4> TAKE p \in 1 .. Size
        <4>1. chip[p] \in ChipStates /\ chip[p].addr <= Size /\ health[p] \in 0 .. Cores
                /\ dist \in Nonces
          BY <1>3 DEF Chain, TypeInv
        <4>2. /\ Effect(chip[p], health[p], Now) \in ChipStates
              /\ Effect(chip[p], health[p], Now).addr = chip[p].addr
          BY <3>2, <4>1, EffectType
        <4>3. chip'[p] = Effect(chip[p], health[p], Now) \/ chip'[p] = chip[p]
          BY <1>3, <3>1
        <4>4. QED
          BY <4>1, <4>2, <4>3
      <3>4. chip' = [p \in 1 .. Size |-> chip'[p]]
        BY <1>3, <3>1, Zenon
      <3>5. QED
        BY <3>3, <3>4
    <2>5. CASE SetPllConfigByIdx /\ chip' # chip
      <3>1. PICK clock \in {"power_on", "set", "off"} :
              chip' = [p \in Chips |->
                IF type = "ASIC" /\ p \in Hit(Now.to)
                  /\ ~(clock = "power_on" /\ chip[p].clock = "set")
                  THEN [chip[p] EXCEPT !.clock = clock] ELSE chip[p]]
        BY <2>5 DEF SetPllConfigByIdx
      <3>2. \A p \in 1 .. Size : chip'[p] \in ChipStates /\ chip'[p].addr <= Size
        <4> TAKE p \in 1 .. Size
        <4>1. chip[p] \in ChipStates /\ chip[p].addr <= Size
          BY <1>3 DEF Chain
        <4>2. chip'[p] = [chip[p] EXCEPT !.clock = clock] \/ chip'[p] = chip[p]
          BY <1>3, <3>1
        <4>3. QED
          BY <4>1, <4>2 DEF ChipStates
      <3>3. chip' = [p \in 1 .. Size |-> chip'[p]]
        BY <1>3, <3>1, Zenon
      <3>4. QED
        BY <3>2, <3>3
    <2>6. QED
      BY <2>1, <2>2, <2>3, <2>4, <2>5, Frame DEF Again, HWResetStep
  <1>5. QED
    BY <1>1, <1>2, <1>3, <1>4 DEF Chain

LEMMA TypeNext == TypeInv /\ [Next]_vars => TypeInv'
  <1> SUFFICES ASSUME TypeInv, [Next]_vars PROVE TypeInv'
    OBVIOUS
  <1>1. CASE UNCHANGED vars
    BY <1>1 DEF vars, world, handle, TypeInv, Chain, Size, Chips
  <1>2. ASSUME Next PROVE TypeInv'
    <2>0. Chain' /\ Size' = Size
      BY <1>2, ChainStep
    <2>10. Chain /\ Size \in 1 .. MaxChips
      BY DEF TypeInv, Chain
    <2>1. run' \in Invocations /\ pc' \in 1 .. Len(Programs[run']) /\ rounds' \in 1 .. MaxRounds
      <3>1. CASE Again
        BY <3>1, SomeCommand, BringupAssumption DEF Again, TypeInv
      <3>2. CASE SameTest /\ (GoesOn \/ Stops) /\ (GoesOn => Now \in Steps)
        BY <3>2, NowFacts DEF SameTest, GoesOn, Stops, TypeInv
      <3>3. QED
        BY <1>2, <3>1, <3>2, Frame
    <2>2. result' \in {"running", "mining", "passed", "failed", "crashed"}
      BY <1>2, Frame DEF Again
    <2>3. fault' \in {"none"} \cup Faults
      BY <1>2, Frame DEF Again, TypeInv
    <2>4. board' \in {"ASIC", "FPGA"}
      BY <1>2, Frame DEF Again, SameTest, world, TypeInv
    <2>5. type' \in {"ASIC", "FPGA"}
      BY <1>2, Frame DEF Again, TypeInv, GetBoardType
    <2>6. numChips' \in -1 .. MaxChips
      <3>1. CASE AutoAddress
        <4>1. numChips' = NumberOfChips \/ numChips' = -1
          BY <3>1 DEF AutoAddress
        <4>2. NumberOfChips \in 1 .. MaxChips
          BY <2>10, Geometry, Bounds DEF NumberOfChips
        <4>3. QED
          BY <4>1, <4>2, Bounds
      <3>2. QED
        BY <1>2, <3>1, Frame DEF Again, TypeInv
    <2>7. numCores' \in [1 .. MaxChips -> [cores : 0 .. Cores, chip : 0 .. MaxChips]]
      <3>1. CASE ReadBistStep
        <4>1. CASE numCores' = numCores
          BY <4>1 DEF TypeInv
        <4>2. CASE numCores' # numCores
          <5>1. PICK n \in 0 .. Cores :
                  numCores' = [numCores EXCEPT ![Now.to] = [cores |-> n, chip |-> ChipAt(Now.to)]]
            BY <3>1, <4>2 DEF ReadBistStep
          <5>2. ChipAt(Now.to) \in 0 .. MaxChips
            BY <2>10, Geometry, Bounds
          <5>3. [cores |-> n, chip |-> ChipAt(Now.to)] \in [cores : 0 .. Cores, chip :
                  0 .. MaxChips]
            BY <5>2
          <5>4. QED
            BY <5>1, <5>3 DEF TypeInv
        <4>3. QED
          BY <4>1, <4>2
      <3>2. QED
        BY <1>2, <3>1, Frame DEF Again, TypeInv
    <2>8. dist' \in Nonces
      <3>1. CASE DistributionNonce
        <4>1. Now \in Steps /\ Now.cmd = "DISTRIBUTE"
          BY <3>1, NowFacts DEF DistributionNonce, At
        <4>2. [range |-> Now.arg, part |-> 0, of |-> numChips] \in Nonces
          BY <4>1, ArgFacts, Bounds DEF Nonces, TypeInv
        <4>3. QED
          BY <3>1, <4>2 DEF DistributionNonce, TypeInv
      <3>2. QED
        BY <1>2, <3>1, Frame DEF Again, TypeInv
    <2>9. QED
      BY <2>0, <2>1, <2>2, <2>3, <2>4, <2>5, <2>6, <2>7, <2>8 DEF TypeInv
  <1>3. QED
    BY <1>1, <1>2

LEMMA TypeImplied == TypeInv => TypeOK
  <1> SUFFICES ASSUME TypeInv PROVE TypeOK
    OBVIOUS
  <1>1. \A p \in Chips : /\ chip[p].addr \in 0 .. Cardinality(Chips)
                         /\ chip[p].jobs \in 0 .. FifoDepth
                         /\ chip[p].found \in 0 .. Cores /\ chip[p].mask \in Masks
    <2> TAKE p \in Chips
    <2>0. Chain
      BY DEF TypeInv
    <2>1. p \in 1 .. Size /\ Size \in Nat
      <3>1. Size \in Nat
        BY <2>0, Bounds DEF Chain
      <3>2. QED
        BY <2>0, <3>1, Geometry
    <2>2. chip[p] \in ChipStates /\ chip[p].addr <= Size
      BY <2>1 DEF TypeInv, Chain
    <2>3. QED
      BY <2>1, <2>2 DEF ChipStates, Size
  <1>2. QED
    BY <1>1 DEF TypeInv, TypeOK

\* The types of Bringup: every test runs within the bounds of the board and the handle.
THEOREM TypeCorrect == Spec => []TypeOK
  <1>1. QED
    BY TypeInit, TypeNext, TypeImplied, PTL DEF Spec

-----------------------------------------------------------------------------
(* The addresses are those of the last numbering, the counts are of their chips. *)

\* After a numbering the chips have their addresses.
NumInv == NumberedAt(Programs[run], pc) /\ numChips >= 1 => Numbered

\* A count belongs to the chip that has the address.
CountInv ==
  \A a \in Addresses :
    CountedAt(Programs[run], pc, a) /\ Address(a) => numCores[a].chip = First + a - 1

LEMMA ReadOfFacts ==
  \A a : /\ ~Renumbers(ReadOf(a)) /\ ReadOf(a).to = a /\ ReadOf(a).need = a
         /\ ReadOf(a).cmd = "READ_BIST"
  <1> TAKE a
  <1>1. ReadOf(a).to = a /\ ReadOf(a).need = a /\ ReadOf(a).cmd = "READ_BIST"
    BY DEF ReadOf, Command
  <1>2. QED
    BY <1>1 DEF Renumbers

\* One command further.
LEMMA OneMore ==
  ASSUME NEW p, NEW k \in Nat \ {0}
  PROVE  /\ ~NumberedAt(p, 1) /\ \A a \in Addresses : ~CountedAt(p, 1, a)
         /\ NumberedAt(p, k + 1) => p[k] = Readdress \/ (NumberedAt(p, k) /\ ~Renumbers(p[k]))
         /\ \A a \in Addresses :
              /\ CountedAt(p, k + 1, a) => \/ p[k] = ReadOf(a) /\ NumberedAt(p, k)
                                           \/ CountedAt(p, k, a) /\ ~Renumbers(p[k])
              /\ CountedAt(p, k, a) => NumberedAt(p, k)
  <1>1. ~NumberedAt(p, 1) /\ \A a \in Addresses : ~CountedAt(p, 1, a)
    BY DEF NumberedAt, CountedAt
  <1>2. NumberedAt(p, k + 1) => p[k] = Readdress \/ (NumberedAt(p, k) /\ ~Renumbers(p[k]))
    BY DEF NumberedAt
  <1>3. ASSUME NEW a \in Addresses, CountedAt(p, k + 1, a)
        PROVE  (p[k] = ReadOf(a) /\ NumberedAt(p, k)) \/ (CountedAt(p, k, a) /\ ~Renumbers(p[k]))
    <2>1. PICK i \in 1 .. (k + 1) - 1 :
            p[i] = ReadOf(a) /\ NumberedAt(p, i) /\ \A j \in i + 1 .. (k + 1) - 1 : ~Renumbers(p[j])
      BY <1>3 DEF CountedAt
    <2>2. CASE i = k
      BY <2>1, <2>2
    <2>3. CASE i # k
      <3>1. i \in 1 .. k - 1 /\ k \in i + 1 .. (k + 1) - 1
        BY <2>3
      <3>2. QED
        BY <2>1, <3>1 DEF CountedAt
    <2>4. QED
      BY <2>2, <2>3
  <1>4. ASSUME NEW a \in Addresses, CountedAt(p, k, a) PROVE NumberedAt(p, k)
    <2>1. PICK i \in 1 .. k - 1 :
            p[i] = ReadOf(a) /\ NumberedAt(p, i) /\ \A j \in i + 1 .. k - 1 : ~Renumbers(p[j])
      BY <1>4 DEF CountedAt
    <2>2. PICK h \in 1 .. i - 1 : p[h] = Readdress /\ \A j \in h + 1 .. i - 1 : ~Renumbers(p[j])
      BY <2>1 DEF NumberedAt
    <2>3. ~Renumbers(p[i])
      BY <2>1, ReadOfFacts
    <2>4. h \in 1 .. k - 1 /\ \A j \in h + 1 .. k - 1 : ~Renumbers(p[j])
      BY <2>1, <2>2, <2>3
    <2>5. QED
      BY <2>2, <2>4 DEF NumberedAt
  <1>5. QED
    BY <1>1, <1>2, <1>3, <1>4

\* The step that ends a test changes no chip and no count.
LEMMA Stopping ==
  ASSUME TypeInv, Next, Stops
  PROVE  chip' = chip /\ numChips' = numChips /\ numCores' = numCores
  <1>1. result' # "running" /\ pc' = pc /\ pc \in Nat
    <2>1. Len(Programs[run]) \in Nat
      BY NowFacts DEF IsProgram
    <2>2. QED
      BY <2>1 DEF Stops, TypeInv
  <1>2. ~Again /\ ~HWResetStep /\ ~AutoAddress /\ ~SetPllConfigByIdx
    BY <1>1 DEF Again, HWResetStep, AutoAddress, SetPllConfigByIdx, Advance
  <1>3. Write => chip' = chip
    BY <1>1 DEF Write, Advance
  <1>4. ReadBistStep => numCores' = numCores
    BY <1>1 DEF ReadBistStep, Advance
  <1>5. QED
    BY <1>2, <1>3, <1>4, Frame

LEMMA NumberedKept ==
  ASSUME TypeInv, Next, Numbered, numChips >= 1, numChips' = numChips, ~Renumbers(Now), ~Again
  PROVE  Numbered'
  <1>1. Chain /\ Size \in 1 .. MaxChips /\ Size \in Nat /\ numChips \in 1 .. Size
          /\ numChips \in Nat
    BY Bounds DEF TypeInv, Chain, Numbered
  <1>2. Size' = Size /\ First' = First /\ First \in 1 .. Size /\ Chips = 1 .. Size
    BY <1>1, ChainStep, Geometry DEF First
  <1>3. ASSUME NEW p \in 1 .. Size
        PROVE  chip'[p].addr = chip[p].addr /\ (chip'[p].last => chip[p].last \/ p <= First)
    <2>1. CASE chip' = chip
      BY <2>1
    <2>2. CASE Write /\ chip' # chip
      <3>1. chip' = [q \in Chips |-> IF q \in Hit(To) THEN Effect(chip[q], health[q],
              Now) ELSE chip[q]]
        BY <2>2 DEF Write
      <3>2. Now \in Steps
        BY <2>2, NowFacts DEF Write, At, Writes
      <3>3. chip[p] \in ChipStates /\ health[p] \in 0 .. Cores /\ dist \in Nonces
        BY DEF Chain, TypeInv
      <3>4. /\ Effect(chip[p], health[p], Now).addr = chip[p].addr
            /\ Effect(chip[p], health[p], Now).last = IF Now.cmd
                 = "SET_CONTROL" THEN Now.arg.last ELSE chip[p].last
        BY <3>2, <3>3, EffectType
      <3>5. CASE p \notin Hit(To)
        BY <1>2, <3>1, <3>5
      <3>6. CASE p \in Hit(To)
        <4>1. chip'[p] = Effect(chip[p], health[p], Now)
          BY <1>2, <3>1, <3>6
        <4>2. Now.cmd = "SET_CONTROL" /\ Now.arg.last => p <= First
          <5>1. SUFFICES ASSUME Now.cmd = "SET_CONTROL", Now.arg.last PROVE p <= First
            OBVIOUS
          <5>2. Now.to = 1
            BY <5>1 DEF Renumbers
          <5>3. To = 1
            BY <5>2 DEF To, LastOrTop
          <5>4. 1 \in Addresses /\ Address(1)
            BY <1>1, Bounds DEF Addresses, Address
          <5>5. numChips \in -1 .. MaxChips
            BY DEF TypeInv
          <5>6. QED
            BY <1>1, <3>6, <5>3, <5>4, <5>5, Addressed
        <4>3. QED
          BY <3>4, <4>1, <4>2
      <3>7. QED
        BY <3>5, <3>6
    <2>3. CASE SetPllConfigByIdx /\ chip' # chip
      <3>1. PICK clock \in {"power_on", "set", "off"} :
              chip' = [q \in Chips |->
                IF type = "ASIC" /\ q \in Hit(Now.to)
                  /\ ~(clock = "power_on" /\ chip[q].clock = "set")
                  THEN [chip[q] EXCEPT !.clock = clock] ELSE chip[q]]
        BY <2>3 DEF SetPllConfigByIdx
      <3>2. chip'[p] = [chip[p] EXCEPT !.clock = clock] \/ chip'[p] = chip[p]
        BY <1>2, <3>1
      <3>3. chip[p] \in ChipStates
        BY <1>1 DEF Chain
      <3>4. QED
        BY <3>2, <3>3 DEF ChipStates
    <2>4. ~HWResetStep /\ ~AutoAddress
      BY DEF HWResetStep, AutoAddress, At, Renumbers
    <2>5. QED
      BY <2>2, <2>3, <2>4, Frame
  <1>4. \A p \in First .. Size : p \in 1 .. Size
    BY <1>1, <1>2
  <1>5. QED
    BY <1>2, <1>3 DEF Numbered

LEMMA NumStep ==
  ASSUME TypeInv, NumInv, Next
  PROVE  NumInv'
  <1>0. pc \in Nat \ {0} /\ Now = Programs[run][pc]
    <2>1. Len(Programs[run]) \in Nat
      BY NowFacts DEF IsProgram
    <2>2. QED
      BY <2>1 DEF TypeInv, Now
  <1> SUFFICES ASSUME NumberedAt(Programs[run'], pc'), numChips' >= 1 PROVE Numbered'
    BY DEF NumInv
  <1>1. ~Again
    BY OneMore DEF Again
  <1>2. run' = run
    BY SMTT(30), <1>1, Frame DEF SameTest
  <1>3. CASE Stops
    <2>1. chip' = chip /\ numChips' = numChips /\ pc' = pc
      BY <1>3, Stopping DEF Stops
    <2>2. Size' = Size /\ First' = First
      BY <2>1, ChainStep DEF First
    <2>3. Numbered
      BY <1>2, <2>1 DEF NumInv
    <2>4. QED
      BY <2>1, <2>2, <2>3 DEF Numbered
  <1>4. CASE GoesOn /\ Now = Readdress
    <2>1. Now.cmd = "AUTO_ADDRESS" /\ Now.need = -1
      BY <1>4 DEF Readdress, Command
    <2>2. AutoAddress
      <3>1. ~(Now.need > numChips)
        BY <2>1, Bounds DEF TypeInv
      <3>2. ~LoopEnds
        BY <3>1 DEF LoopEnds
      <3>3. QED
        BY <1>1, <2>1, <3>2 DEF Next, HWResetStep, Write, Writes, GetBoardType, GetPllFreq2Idx,
           SetPllConfigByIdx, ReadBistStep, DistributionNonce, CheckCores, CheckNumChips, CheckId,
           ReadAndCompare, End, At
    <2>3. /\ numChips' = NumberOfChips
          /\ chip' = [p \in Chips |-> IF p \in Reach THEN [chip[p] EXCEPT !.addr = p - LastChip + 1]
                                                     ELSE chip[p]]
      BY <2>2 DEF AutoAddress
    <2>4. /\ Chain /\ Chips = 1 .. Size /\ LastChip \in 1 .. Size /\ Reach = LastChip .. Size
          /\ Size \in Nat
          /\ Cardinality(Reach) = Size - LastChip + 1
          /\ \A p \in 1 .. Size : chip[p].last => p <= LastChip
      <3>1. Chain /\ Size \in Nat
        BY Bounds DEF TypeInv, Chain
      <3>2. QED
        BY <3>1, Geometry
    <2>5. numChips' = Size - LastChip + 1 /\ Size' = Size /\ First' = LastChip
      BY <2>3, <2>4, ChainStep DEF NumberOfChips, First
    <2>6. ASSUME NEW p \in 1 .. Size
          PROVE  /\ chip'[p].last = chip[p].last
                 /\ p \in LastChip .. Size => chip'[p].addr = p - LastChip + 1
      <3>1. chip[p] \in ChipStates
        BY <2>4 DEF Chain
      <3>2. chip'[p] = IF p \in Reach THEN [chip[p] EXCEPT !.addr = p - LastChip + 1] ELSE chip[p]
        BY <2>3, <2>4
      <3>3. QED
        BY <2>4, <3>1, <3>2 DEF ChipStates
    <2>7. \A p \in LastChip .. Size : p \in 1 .. Size
      BY <2>4
    <2>8. QED
      BY SMTT(30), <2>4, <2>5, <2>6, <2>7 DEF Numbered
  <1>5. CASE GoesOn /\ NumberedAt(Programs[run], pc) /\ ~Renumbers(Now)
    <2>1. ~AutoAddress
      BY <1>5 DEF AutoAddress, At, Renumbers
    <2>2. numChips' = numChips
      BY <1>1, <2>1, Frame
    <2>3. Numbered
      BY <1>5, <2>2 DEF NumInv
    <2>4. QED
      BY <1>1, <1>5, <2>2, <2>3, NumberedKept
  <1>6. QED
    <2>1. GoesOn \/ Stops
      BY <1>1, Frame
    <2>2. GoesOn => \/ Programs[run][pc] = Readdress
                    \/ NumberedAt(Programs[run], pc) /\ ~Renumbers(Programs[run][pc])
      BY <1>0, <1>2, OneMore DEF GoesOn
    <2>3. QED
      BY <1>0, <1>3, <1>4, <1>5, <2>1, <2>2

\* A step that does not go on to the next test.
LEMMA SameRun ==
  ASSUME TypeInv, Next, ~Again
  PROVE  run' = run /\ Size' = Size
  <1>1. run' = run
    BY SMTT(30), Frame DEF SameTest
  <1>2. QED
    BY <1>1, ChainStep

LEMMA CountStep ==
  ASSUME TypeInv, NumInv, CountInv, Next
  PROVE  CountInv'
  <1>0. pc \in Nat \ {0} /\ Now = Programs[run][pc]
    <2>1. Len(Programs[run]) \in Nat
      BY NowFacts DEF IsProgram
    <2>2. QED
      BY <2>1 DEF TypeInv, Now
  <1> SUFFICES ASSUME NEW a \in Addresses, CountedAt(Programs[run'], pc', a), Address(a)'
               PROVE  numCores'[a].chip = First' + a - 1
    BY DEF CountInv
  <1>1. ~Again
    BY SMTT(30), OneMore DEF Again
  <1>2. run' = run /\ Size' = Size
    BY <1>1, SameRun
  <1>3. CASE Stops
    <2>1. chip' = chip /\ numChips' = numChips /\ numCores' = numCores /\ pc' = pc
      BY <1>3, Stopping DEF Stops
    <2>2. Address(a) /\ First' = First /\ CountedAt(Programs[run], pc, a)
      BY <1>2, <2>1 DEF Address, First
    <2>3. QED
      BY <2>1, <2>2 DEF CountInv
  <1>4. CASE GoesOn
    <2>1. \/ Now = ReadOf(a) /\ NumberedAt(Programs[run], pc)
          \/ CountedAt(Programs[run], pc, a) /\ ~Renumbers(Now)
      BY <1>0, <1>2, <1>4, OneMore DEF GoesOn
    <2>2. NumberedAt(Programs[run], pc) /\ ~Renumbers(Now)
      BY <1>0, <2>1, OneMore, ReadOfFacts
    <2>3. numChips' = numChips
      BY <1>1, <2>2, Frame DEF AutoAddress, At, Renumbers
    <2>4. Address(a) /\ First' = First /\ numChips >= 1
      BY <1>2, <2>3 DEF Address, First, TypeInv
    <2>5. Numbered
      BY <2>2, <2>4 DEF NumInv
    <2>6. ChipAt(a) = First + a - 1
      BY <2>4, <2>5, Addressed DEF TypeInv
    <2>7. CASE ~ReadBistStep
      <3>1. ASSUME Now = ReadOf(a) PROVE FALSE
        <4>1. Now.cmd = "READ_BIST" /\ Now.need = a
          BY <3>1, ReadOfFacts
        <4>2. a <= numChips /\ a \in Int /\ numChips \in Int
          BY <2>4 DEF Address, TypeInv
        <4>3. ~LoopEnds
          BY <4>1, <4>2 DEF LoopEnds
        <4>4. QED
          BY <1>1, <2>7, <4>1, <4>3 DEF Next, HWResetStep, AutoAddress, Write, Writes,
             GetBoardType, GetPllFreq2Idx, SetPllConfigByIdx, DistributionNonce, CheckCores,
             CheckNumChips, CheckId, ReadAndCompare, End, At
      <3>2. numCores' = numCores
        BY <1>1, <2>7, Frame
      <3>3. QED
        BY <2>1, <2>4, <3>1, <3>2 DEF CountInv
    <2>8. CASE ReadBistStep
      <3>1. PICK n \in 0 .. Cores :
              numCores' = [numCores EXCEPT ![Now.to] = [cores |-> n, chip |-> ChipAt(Now.to)]]
        BY <1>4, <2>8 DEF ReadBistStep, GoesOn, Finish
      <3>2. a \in 1 .. MaxChips /\ a \in DOMAIN numCores
        BY DEF TypeInv, Addresses
      <3>3. CASE Now.to = a
        BY <2>4, <2>6, <3>1, <3>2, <3>3
      <3>4. CASE Now.to # a
        <4>1. numCores'[a] = numCores[a]
          BY <3>1, <3>2, <3>4
        <4>2. Now # ReadOf(a)
          BY <3>4, ReadOfFacts
        <4>3. QED
          BY <2>1, <2>4, <4>1, <4>2 DEF CountInv
      <3>5. QED
        BY <3>3, <3>4
    <2>9. QED
      BY <1>1, <2>7, <2>8, Frame
  <1>5. QED
    BY <1>1, <1>3, <1>4, Frame

-----------------------------------------------------------------------------
(* A register test that goes on has compared a register of every chip.      *)

\* A comparison that fails the test of a broken chip p is still to come.
Uncompared(p) ==
  \E k \in pc .. Len(Programs[run]) :
    Hard(Programs[run][k], p) /\ (run.test \in MustTests => Programs[run][k].must)

\* A register test leaves no chip cut off, so its numbering reaches all of them.
NoLast   == pc >= 2 => \A p \in Chips : ~chip[p].last
AllChips == pc >= 3 /\ numChips >= 1 => numChips = Size

\* A broken chip has its comparison still ahead.
Judged ==
  /\ pc >= 3 /\ numChips >= 1 /\ result \in {"running", "passed"}
  /\ fault = "none" \/ run.test \in MustTests
  => \A p \in Chips : health[p] > 0 \/ Uncompared(p)

JudgeInv ==
  run.test \in RegisterTests =>
    NoLast /\ AllChips /\ Judged /\ (result = "passed" => pc = Len(Programs[run]))

LEMMA PassedLast ==
  ASSUME TypeInv, Next
  PROVE  ~Again /\ result' = "passed" => pc' = Len(Programs[run'])
  <1> SUFFICES ASSUME ~Again, result' = "passed" PROVE pc' = Len(Programs[run'])
    OBVIOUS
  <1>1. run' = run /\ pc' = pc /\ Now.cmd = "END"
    BY SMTT(30), Frame DEF SameTest, Stops, GoesOn
  <1>2. \A s \in Steps : s.cmd # "END"
    BY DEF Steps, Cmds, Plain
  <1>3. pc = Len(Programs[run])
    BY <1>1, <1>2, NowFacts
  <1>4. QED
    BY <1>1, <1>3

LEMMA LastKept ==
  ASSUME TypeInv, Next, ~Moves(Now), ~Again, NEW p \in Chips
  PROVE  chip'[p].last = chip[p].last
  <1>1. Chain /\ Chips = 1 .. Size
    BY Geometry DEF TypeInv
  <1>2. p \in 1 .. Size /\ chip[p] \in ChipStates
    BY <1>1 DEF Chain
  <1>3. CASE Write /\ chip' # chip
    <2>1. chip' = [q \in Chips |-> IF q \in Hit(To) THEN Effect(chip[q], health[q],
            Now) ELSE chip[q]]
      BY <1>3 DEF Write
    <2>2. Now \in Steps /\ Now.cmd # "SET_CONTROL"
      BY <1>3, NowFacts DEF Write, At, Writes, Moves
    <2>3. health[p] \in 0 .. Cores /\ dist \in Nonces
      BY <1>1, <1>2 DEF Chain, TypeInv
    <2>4. Effect(chip[p], health[p], Now).last = chip[p].last
      BY <1>2, <2>2, <2>3, EffectType
    <2>5. QED
      BY <2>1, <2>4
  <1>4. CASE SetPllConfigByIdx /\ chip' # chip
    <2>1. PICK clock \in {"power_on", "set", "off"} :
            chip' = [q \in Chips |->
              IF type = "ASIC" /\ q \in Hit(Now.to)
                /\ ~(clock = "power_on" /\ chip[q].clock = "set")
                THEN [chip[q] EXCEPT !.clock = clock] ELSE chip[q]]
      BY <1>4 DEF SetPllConfigByIdx
    <2>2. chip'[p] = [chip[p] EXCEPT !.clock = clock] \/ chip'[p] = chip[p]
      BY <2>1
    <2>3. QED
      BY <1>2, <2>2 DEF ChipStates
  <1>5. ~HWResetStep /\ ~AutoAddress
    BY DEF HWResetStep, AutoAddress, At, Moves
  <1>6. QED
    BY <1>3, <1>4, <1>5, Frame

\* A comparison that a test survives is with a working chip.
LEMMA Compared ==
  ASSUME TypeInv, NumInv, Next, ~Again, GoesOn, NEW p \in Chips, Hard(Now, p),
         NumberedAt(Programs[run], pc), numChips = Size,
         fault' = "none" \/ Now.must
  PROVE  health[p] > 0
  <1>1. Chain /\ Size \in 1 .. MaxChips /\ Size \in Nat
    BY Bounds DEF TypeInv, Chain
  <1>2. p \in 1 .. Size /\ p \in Addresses /\ Address(p) /\ numChips >= 1
          /\ numChips \in -1 .. MaxChips
    BY <1>1, Geometry, Bounds DEF Addresses, Address
  <1>3. Numbered /\ First = 1
    BY <1>1, <1>2 DEF NumInv, First
  <1>4. ChipAt(p) = p
    BY <1>1, <1>2, <1>3, Addressed
  <1>5. /\ Now.cmd = "COMPARE" /\ Now.to = p /\ Now.need = p /\ Now.arg.hard
        /\ Now.arg.value \in Values
    BY DEF Hard
  <1>6. ReadAndCompare
    <2>1. ~LoopEnds
      BY <1>1, <1>2, <1>5 DEF LoopEnds
    <2>2. QED
      BY <1>5, <2>1 DEF Next, HWResetStep, AutoAddress, Write, Writes, GetBoardType,
         GetPllFreq2Idx, SetPllConfigByIdx, ReadBistStep, DistributionNonce, CheckCores,
         CheckNumChips, CheckId, End, At
  <1>7. res' = Now.arg.value /\ ~(Now.must /\ fault' # fault)
    BY <1>5, <1>6 DEF ReadAndCompare, Finish, GoesOn
  <1>8. CASE res' = Register(ChipAt(Now.to), Now.arg.reg)
    <2>1. Register(p, Now.arg.reg) # "garbage"
      BY <1>4, <1>5, <1>7, <1>8 DEF Values
    <2>2. health[p] # 0
      BY <2>1 DEF Register
    <2>3. health[p] \in 0 .. Cores /\ Cores \in Nat
      BY <1>1, <1>2, BringupAssumption DEF Chain
    <2>4. QED
      BY <2>2, <2>3
  <1>9. CASE GoWrong("lost")
    <2>1. fault = "none" /\ fault' = "lost"
      BY <1>9 DEF GoWrong
    <2>2. QED
      BY <1>7, <2>1
  <1>10. QED
    BY <1>6, <1>8, <1>9 DEF ReadAndCompare

LEMMA JudgeStep ==
  ASSUME TypeInv, NumInv, JudgeInv, Next
  PROVE  JudgeInv'
  <1>0. pc \in Nat \ {0} /\ Now = Programs[run][pc] /\ pc \in 1 .. Len(Programs[run])
        /\ Len(Programs[run]) \in Nat
    <2>1. Len(Programs[run]) \in Nat
      BY NowFacts DEF IsProgram
    <2>2. QED
      BY <2>1 DEF TypeInv, Now
  <1>a. Chain /\ Chips = 1 .. Size /\ Size \in 1 .. MaxChips /\ Size \in Nat
    <2>1. Chain /\ Size \in 1 .. MaxChips /\ Size \in Nat
      BY Bounds DEF TypeInv, Chain
    <2>2. QED
      BY <2>1, Geometry
  <1>b. Chips' = Chips /\ Size' = Size /\ health' = health /\ TypeInv'
    BY ChainStep, TypeNext
  <1> SUFFICES ASSUME run'.test \in RegisterTests
               PROVE  NoLast' /\ AllChips' /\ Judged'
                        /\ (result' = "passed" => pc' = Len(Programs[run']))
    BY DEF JudgeInv
  <1>1. CASE Again
    BY <1>1 DEF Again, NoLast, AllChips, Judged
  <1>2. CASE ~Again
    <2>0. run' = run /\ (GoesOn \/ Stops) /\ result = "running"
      BY SMTT(30), <1>2, Frame DEF SameTest
    <2>1. /\ run.test \in RegisterTests /\ Judges(Programs[run], run.test \in MustTests)
          /\ NoLast /\ AllChips /\ Judged
      BY <2>0, ProgramFacts DEF JudgeInv, TypeInv
    <2> DEFINE P == Programs[run]
               must == run.test \in MustTests
    <2>2. /\ P[1] = Restart /\ P[2] = Readdress /\ \A k \in 3 .. Len(P) : ~Moves(P[k])
          /\ \A a \in Addresses : \E k \in 1 .. Len(P) : Hard(P[k], a) /\ (must => P[k].must)
      BY <2>1 DEF Judges, Has
    <2>3. /\ Restart.cmd = "HW_RESET" /\ Restart.need = -1 /\ Readdress.cmd = "AUTO_ADDRESS"
          /\ Readdress.need = -1 /\ numChips \in -1 .. MaxChips
      BY DEF Restart, Readdress, Command, TypeInv
    <2>4. ASSUME Now.need = -1 PROVE ~LoopEnds
      <3>1. ~(Now.need > numChips)
        BY <2>3, <2>4, Bounds
      <3>2. QED
        BY <3>1 DEF LoopEnds
    <2>5. fault' = "none" => fault = "none"
      BY <1>2, Frame, BringupAssumption
    <2>6. result' = "passed" => pc' = Len(Programs[run'])
      BY <1>2, PassedLast
    <2>7. CASE Stops
      <3>1. chip' = chip /\ numChips' = numChips /\ pc' = pc
        BY <2>7, Stopping DEF Stops
      <3>2. NoLast' /\ AllChips'
        BY <1>b, <2>1, <3>1 DEF NoLast, AllChips
      <3>3. Judged'
        <4>1. SUFFICES ASSUME pc >= 3, numChips >= 1, fault = "none" \/ must, NEW p \in Chips
                       PROVE  health[p] > 0 \/ Uncompared(p)'
          BY <1>b, <2>0, <2>5, <3>1 DEF Judged
        <4>2. health[p] > 0 \/ Uncompared(p)
          BY <2>0, <2>1, <4>1 DEF Judged
        <4>3. QED
          BY <2>0, <3>1, <4>2 DEF Uncompared
      <3>4. QED
        BY <2>6, <3>2, <3>3
    <2>8. CASE GoesOn /\ pc = 1
      <3>1. Now = Restart
        BY <1>0, <2>2, <2>8
      <3>2. HWResetStep
        BY <1>2, <2>3, <2>4, <3>1 DEF Next, AutoAddress, Write, Writes, GetBoardType,
           GetPllFreq2Idx, SetPllConfigByIdx, ReadBistStep, DistributionNonce, CheckCores,
           CheckNumChips, CheckId, ReadAndCompare, End, At
      <3>3. \A p \in Chips : chip'[p] = Reset
        BY <3>2 DEF HWResetStep
      <3>4. pc' = 2
        BY <2>8 DEF GoesOn
      <3>5. NoLast'
        BY <1>b, <3>3, ResetType DEF NoLast
      <3>6. AllChips' /\ Judged'
        BY <3>4 DEF AllChips, Judged
      <3>7. QED
        BY <2>6, <3>5, <3>6
    <2>9. CASE GoesOn /\ pc = 2
      <3>1. Now = Readdress
        BY <1>0, <2>2, <2>9
      <3>2. AutoAddress
        BY <1>2, <2>3, <2>4, <3>1 DEF Next, HWResetStep, Write, Writes, GetBoardType,
           GetPllFreq2Idx, SetPllConfigByIdx, ReadBistStep, DistributionNonce, CheckCores,
           CheckNumChips, CheckId, ReadAndCompare, End, At
      <3>3. LastChip = 1 /\ Cardinality(Reach) = Size
        <4>1. /\ LastChip \in 1 .. Size /\ Cardinality(Reach) = Size - LastChip + 1
              /\ LastChip = 1 \/ chip[LastChip].last
          BY <1>a, Geometry
        <4>2. ~chip[LastChip].last
          BY <1>a, <2>1, <2>9, <4>1 DEF NoLast
        <4>3. QED
          BY <1>a, <4>1, <4>2
      <3>4. numChips' = Size \/ numChips' = -1
        BY <3>2, <3>3 DEF AutoAddress, NumberOfChips
      <3>5. \A p \in Chips : chip'[p].last = chip[p].last
        <4> TAKE p \in Chips
        <4>1. chip[p] \in ChipStates
          BY <1>a DEF Chain
        <4>2. chip'[p] = chip[p] \/ chip'[p] = [chip[p] EXCEPT !.addr = p - LastChip + 1]
          BY <3>2 DEF AutoAddress
        <4>3. QED
          BY <4>1, <4>2 DEF ChipStates
      <3>6. NoLast' /\ AllChips'
        BY <1>b, <2>1, <2>9, <3>4, <3>5 DEF NoLast, AllChips
      <3>7. Judged'
        <4>1. SUFFICES ASSUME NEW p \in Chips PROVE Uncompared(p)'
          BY <1>b DEF Judged
        <4>2. p \in Addresses
          BY <1>a, Bounds DEF Addresses
        <4>3. PICK k \in 1 .. Len(P) : Hard(P[k], p) /\ (must => P[k].must)
          BY <2>2, <4>2
        <4>4. k # 1 /\ k # 2
          BY <2>2, <2>3, <4>3 DEF Hard
        <4>5. pc' = 3 /\ k \in 3 .. Len(P)
          BY <1>0, <2>9, <4>4 DEF GoesOn
        <4>6. QED
          BY <2>0, <4>3, <4>5 DEF Uncompared
      <3>8. QED
        BY <2>6, <3>6, <3>7
    <2>10. CASE GoesOn /\ pc >= 3
      <3>1. ~Moves(Now) /\ pc \in 3 .. Len(P) /\ pc' = pc + 1
        BY <1>0, <2>2, <2>10 DEF GoesOn
      <3>2. \A p \in Chips : chip'[p].last = chip[p].last
        BY <1>2, <3>1, LastKept
      <3>3. numChips' = numChips
        BY <1>2, <3>1, Frame DEF AutoAddress, At, Moves
      <3>4. NoLast' /\ AllChips'
        BY <1>b, <2>1, <3>1, <3>2, <3>3 DEF NoLast, AllChips
      <3>5. NumberedAt(P, pc)
        <4>1. \A s : ~Moves(s) => ~Renumbers(s)
          BY DEF Moves, Renumbers
        <4>2. 2 \in 1 .. pc - 1 /\ \A j \in 2 + 1 .. pc - 1 : ~Renumbers(P[j])
          BY <1>0, <2>2, <2>10, <4>1
        <4>3. QED
          BY <2>2, <4>2 DEF NumberedAt
      <3>6. Judged'
        <4>1. SUFFICES ASSUME numChips' >= 1, fault' = "none" \/ must, NEW p \in Chips
                       PROVE  health[p] > 0 \/ Uncompared(p)'
          BY <1>b, <2>0 DEF Judged
        <4>2. numChips = Size /\ (health[p] > 0 \/ Uncompared(p))
          BY <2>0, <2>1, <2>5, <2>10, <3>3, <4>1 DEF Judged, AllChips
        <4>3. CASE health[p] > 0
          BY <4>3
        <4>4. CASE Uncompared(p)
          <5>1. PICK k \in pc .. Len(P) : Hard(P[k], p) /\ (must => P[k].must)
            BY <4>4 DEF Uncompared
          <5>2. CASE k = pc
            <6>1. Hard(Now, p) /\ (fault' = "none" \/ Now.must)
              BY <1>0, <4>1, <5>1, <5>2
            <6>2. health[p] > 0
              BY <1>2, <2>10, <3>5, <4>2, <6>1, Compared
            <6>3. QED
              BY <6>2
          <5>3. CASE k # pc
            <6>1. k \in pc' .. Len(P)
              BY <1>0, <3>1, <5>1, <5>3
            <6>2. QED
              BY <2>0, <5>1, <6>1 DEF Uncompared
          <5>4. QED
            BY <5>2, <5>3
        <4>5. QED
          BY <4>2, <4>3, <4>4
      <3>7. QED
        BY <2>6, <3>4, <3>6
    <2>11. QED
      BY <1>0, <2>0, <2>7, <2>8, <2>9, <2>10
  <1>3. QED
    BY <1>1, <1>2

-----------------------------------------------------------------------------
(* Which programs switch a PLL off, and which distribute nonces.            *)

\* Programs without a command x.
Ends       == {Command("END", 0, -1, "mining"), Command("END", 0, -1, "passed")}
Lacking(x) == {s \in Steps \cup Ends : s.cmd # x}
Rare       == {"PLL_OFF", "DISTRIBUTE"}

LEMMA LackingPiece ==
  ASSUME NEW x, NEW cmd, NEW arg, cmd # x, ArgFits(cmd, arg)
  PROVE  /\ \A a \in -1 .. MaxChips, need \in -1 .. MaxChips + 1 :
              /\ Command(cmd, a, need, arg) \in Lacking(x)
              /\ Must(Command(cmd, a, need, arg)) \in Lacking(x)
         /\ All(cmd, arg) \in Seq(Lacking(x)) /\ Host(cmd, arg) \in Seq(Lacking(x))
         /\ MustAll(cmd, arg) \in Seq(Lacking(x)) /\ Each(cmd, arg) \in Seq(Lacking(x))
         /\ \A a \in Addresses \cup {-1} : One(a, cmd, arg) \in Seq(Lacking(x))
         /\ \A first \in Addresses \cup {MaxChips + 1} : From(first, cmd, arg) \in Seq(Lacking(x))
  <1>1. \A a \in -1 .. MaxChips, need \in -1 .. MaxChips + 1 :
          /\ Command(cmd, a, need, arg) \in Lacking(x)
          /\ Must(Command(cmd, a, need, arg)) \in Lacking(x)
    <2> TAKE a \in -1 .. MaxChips, need \in -1 .. MaxChips + 1
    <2>1. Command(cmd, a, need, arg) \in Steps /\ Must(Command(cmd, a, need, arg)) \in Steps
      BY CommandType
    <2>2. Command(cmd, a, need, arg).cmd = cmd /\ Must(Command(cmd, a, need, arg)).cmd = cmd
      BY DEF Command, Must
    <2>3. QED
      BY <2>1, <2>2 DEF Lacking
  <1>2. Command(cmd, 0, -1, arg) \in Lacking(x) /\ Must(Command(cmd, 0, -1, arg)) \in Lacking(x)
    BY <1>1, Bounds
  <1>3. /\ All(cmd, arg) \in Seq(Lacking(x)) /\ Host(cmd, arg) \in Seq(Lacking(x))
        /\ MustAll(cmd, arg) \in Seq(Lacking(x))
    BY <1>2 DEF All, Host, MustAll, Step
  <1>4. \A a \in Addresses \cup {-1} : One(a, cmd, arg) \in Seq(Lacking(x))
    <2> TAKE a \in Addresses \cup {-1}
    <2>1. Command(cmd, a, -1, arg) \in Lacking(x)
      BY <1>1, Bounds
    <2>2. QED
      BY <2>1, SeqFacts DEF One, Step
  <1>5. Each(cmd, arg) \in Seq(Lacking(x))
    <2>1. Each(cmd, arg) \in [1 .. MaxChips -> Lacking(x)]
      BY <1>1, Bounds DEF Each, Addresses
    <2>2. QED
      BY <2>1, Bounds
  <1>6. \A first \in Addresses \cup {MaxChips + 1} : From(first, cmd, arg) \in Seq(Lacking(x))
    <2> TAKE first \in Addresses \cup {MaxChips + 1}
    <2>1. \A k \in 1 .. MaxChips + 1 - first : k + first - 1 \in -1 .. MaxChips
            /\ k + first - 1 \in -1 .. MaxChips + 1
      BY Bounds DEF Addresses
    <2>2. From(first, cmd, arg) \in [1 .. MaxChips + 1 - first -> Lacking(x)]
      BY <1>1, <2>1 DEF From
    <2>3. MaxChips + 1 - first \in Nat
      BY Bounds DEF Addresses
    <2>4. QED
      BY <2>2, <2>3
  <1>7. QED
    BY <1>1, <1>3, <1>4, <1>5, <1>6

LEMMA LackingPieces ==
  ASSUME NEW x \in Rare
  PROVE  /\ Start \in Seq(Lacking(x)) /\ BoardType \in Seq(Lacking(x))
         /\ SetPllFreq \in Seq(Lacking(x))
         /\ SetPll \in Seq(Lacking(x)) /\ RunBist \in Seq(Lacking(x))
         /\ ReadBist \in Seq(Lacking(x))
         /\ GoldenNonce \in Seq(Lacking(x)) /\ CheckChips \in Seq(Lacking(x))
         /\ AddGoldenJob \in Seq(Lacking(x)) /\ RandomJob \in Seq(Lacking(x))
         /\ SetWork \in Seq(Lacking(x))
         /\ \A v \in Data : Vector(v) \in Seq(Lacking(x))
              /\ All("WRITE_TARGET", v) \in Seq(Lacking(x))
         /\ \A cmd \in {"HW_RESET", "AUTO_ADDRESS", "RESET", "RUN_BIST"} :
              All(cmd, "") \in Seq(Lacking(x)) /\ Host(cmd, "") \in Seq(Lacking(x))
         /\ Each("RUN_BIST", "") \in Seq(Lacking(x))
         /\ Each("WRITE_NONCE", "share") \in Seq(Lacking(x))
         /\ \A mask \in Masks : All("SET_DISABLE", mask) \in Seq(Lacking(x))
              /\ Each("SET_DISABLE", mask) \in Seq(Lacking(x))
                                /\ Each("WRITE_CORE_CFG", mask) \in Seq(Lacking(x))
                                /\ MustAll("SET_DISABLE", mask) \in Seq(Lacking(x))
                                /\ (\A a \in 0 .. MaxChips : Step("SET_DISABLE", a, a + 1, mask)
                                     \in Seq(Lacking(x)))
                                /\ [a \in Addresses |-> Command("SET_DISABLE", a, a + 1, mask)]
                                     \in Seq(Lacking(x))
         /\ \A range \in Ranges : Each("WRITE_NONCE", range) \in Seq(Lacking(x))
              /\ All("WRITE_NONCE", range) \in Seq(Lacking(x))
                                  /\ One(1, "WRITE_NONCE", range) \in Seq(Lacking(x))
         /\ \A c \in Controls : /\ All("SET_CONTROL", c) \in Seq(Lacking(x))
                                /\ One(1, "SET_CONTROL", c) \in Seq(Lacking(x))
                                /\ Step("SET_CONTROL", 1, 1, c) \in Seq(Lacking(x))
                                /\ \A a \in Addresses \cup {-1} : SetLast(a, c) \in Seq(Lacking(x))
                                /\ \A a \in Addresses \cup {MaxChips + 1} :
                                     From(a, "SET_CONTROL", c) \in Seq(Lacking(x))
         /\ Step("AUTO_ADDRESS", 0, 1, "") \in Seq(Lacking(x))
         /\ Host("CHECK_CORES", "each") \in Seq(Lacking(x))
         /\ Host("CHECK_CORES", "sum") \in Seq(Lacking(x))
         /\ Jobs(1) \in Seq(Lacking(x)) /\ Jobs(FifoDepth) \in Seq(Lacking(x))
         /\ Mine \in Seq(Lacking(x)) /\ Passed \in Seq(Lacking(x))
  <1> DEFINE L == Lacking(x)
  <1>1. /\ \A cmd \in Plain \ Rare : cmd # x /\ ArgFits(cmd, "")
        /\ \A m \in Masks : \A cmd \in {"SET_DISABLE", "WRITE_CORE_CFG"} : cmd # x
             /\ ArgFits(cmd, m)
        /\ \A v \in Data : \A cmd \in {"WRITE_PARAM", "WRITE_TARGET"} : cmd # x /\ ArgFits(cmd, v)
        /\ \A range \in Ranges \cup {"share"} : "WRITE_NONCE" # x /\ ArgFits("WRITE_NONCE", range)
        /\ \A c \in Controls : "SET_CONTROL" # x /\ ArgFits("SET_CONTROL", c)
        /\ \A m \in {"each", "sum"} : "CHECK_CORES" # x /\ ArgFits("CHECK_CORES", m)
    BY DEF Rare, ArgFits
  <1>2. "golden" \in Data /\ "vector" \in Data /\ "golden" \in Ranges
          /\ "share" \in Ranges \cup {"share"}
    BY DEF Data, Ranges
  <1>3. {"HW_RESET", "AUTO_ADDRESS", "RESET", "READ_FEATURE", "PLL_FREQ", "SET_PLL", "READ_BIST",
          "RUN_BIST", "RUN_JOB", "CHECK_CHIPS", "CHECK_ID"} \subseteq Plain \ Rare
    BY DEF Plain, Rare
  <1>4. \A cmd \in Plain \ Rare : /\ All(cmd, "") \in Seq(L) /\ Host(cmd, "") \in Seq(L)
                                  /\ Each(cmd, "") \in Seq(L)
    BY <1>1, LackingPiece
  <1>5. \A v \in Data : All("WRITE_PARAM", v) \in Seq(L) /\ All("WRITE_TARGET", v) \in Seq(L)
    BY <1>1, LackingPiece
  <1>6. \A range \in Ranges \cup {"share"} :
          /\ Each("WRITE_NONCE", range) \in Seq(L) /\ All("WRITE_NONCE", range) \in Seq(L)
          /\ One(1, "WRITE_NONCE", range) \in Seq(L)
    BY <1>1, LackingPiece, Bounds
  <1>7. \A u, v \in Seq(L) : u \o v \in Seq(L)
    BY SeqFacts
  <1>8. \A s \in L : <<s>> \in Seq(L)
    BY SeqFacts
  <1> HIDE DEF L
  <1>9. \A v \in Data : Vector(v) \in Seq(L)
    BY <1>5, <1>7 DEF Vector
  <1>10. /\ Start \in Seq(L) /\ BoardType \in Seq(L) /\ SetPllFreq \in Seq(L) /\ ReadBist \in Seq(L)
         /\ CheckChips \in Seq(L) /\ Each("RUN_BIST", "") \in Seq(L)
    BY <1>3, <1>4, <1>7 DEF Start, BoardType, SetPllFreq, ReadBist, CheckChips
  <1>11. SetPll \in Seq(L)
    BY <1>7, <1>10 DEF SetPll
  <1>12. RunBist \in Seq(L)
    BY <1>2, <1>3, <1>4, <1>6, <1>7, <1>9, <1>10 DEF RunBist
  <1>13. GoldenNonce \in Seq(L)
    BY <1>2, <1>5, <1>6 DEF GoldenNonce
  <1>14. AddGoldenJob \in Seq(L) /\ RandomJob \in Seq(L) /\ SetWork \in Seq(L)
    BY <1>2, <1>3, <1>4, <1>5, <1>6, <1>7, <1>9 DEF AddGoldenJob, RandomJob, SetWork
  <1>15. \A mask \in Masks :
           /\ All("SET_DISABLE", mask) \in Seq(L) /\ Each("SET_DISABLE", mask) \in Seq(L)
           /\ Each("WRITE_CORE_CFG", mask) \in Seq(L) /\ MustAll("SET_DISABLE", mask) \in Seq(L)
           /\ \A a \in 0 .. MaxChips : Command("SET_DISABLE", a, a + 1, mask) \in L
    <2> TAKE mask \in Masks
    <2>1. \A a \in 0 .. MaxChips : a \in -1 .. MaxChips /\ a + 1 \in -1 .. MaxChips + 1
      BY Bounds
    <2>2. QED
      BY <1>1, <2>1, LackingPiece DEF L
  <1>16. \A mask \in Masks : /\ \A a \in 0 .. MaxChips :
                                  Step("SET_DISABLE", a, a + 1, mask) \in Seq(L)
                             /\ [a \in Addresses |-> Command("SET_DISABLE", a, a + 1, mask)]
                                  \in Seq(L)
    <2> TAKE mask \in Masks
    <2>1. \A a \in 0 .. MaxChips : Step("SET_DISABLE", a, a + 1, mask) \in Seq(L)
      BY <1>8, <1>15 DEF Step
    <2>2. [a \in Addresses |-> Command("SET_DISABLE", a, a + 1, mask)] \in [1 .. MaxChips -> L]
      BY <1>15, Bounds DEF Addresses
    <2>3. QED
      BY <2>1, <2>2, Bounds
  <1>17. \A c \in Controls : /\ All("SET_CONTROL", c) \in Seq(L)
                             /\ One(1, "SET_CONTROL", c) \in Seq(L)
                             /\ \A a \in Addresses \cup {-1} : One(a, "SET_CONTROL", c) \in Seq(L)
                             /\ Command("SET_CONTROL", 1, 1, c) \in L
                             /\ \A a \in Addresses \cup {MaxChips + 1} :
                                  From(a, "SET_CONTROL", c) \in Seq(L)
    BY <1>1, LackingPiece, Bounds DEF L
  <1>18. \A c \in Controls : /\ Step("SET_CONTROL", 1, 1, c) \in Seq(L)
                             /\ \A a \in Addresses \cup {-1} : SetLast(a, c) \in Seq(L)
    BY <1>3, <1>4, <1>7, <1>8, <1>17 DEF Step, SetLast
  <1>19. Step("AUTO_ADDRESS", 0, 1, "") \in Seq(L)
    <2>1. Command("AUTO_ADDRESS", 0, 1, "") \in L
      BY <1>1, <1>3, LackingPiece, Bounds DEF L
    <2>2. QED
      BY <1>8, <2>1 DEF Step
  <1>20. Host("CHECK_CORES", "each") \in Seq(L) /\ Host("CHECK_CORES", "sum") \in Seq(L)
    BY <1>1, LackingPiece DEF L
  <1>21. Jobs(1) \in Seq(L) /\ Jobs(FifoDepth) \in Seq(L)
    <2>1. Command("RUN_JOB", 0, -1, "") \in L
      BY <1>1, <1>3, LackingPiece, Bounds DEF L
    <2>2. \A n \in Nat : Jobs(n) \in [1 .. n -> L]
      BY <2>1 DEF Jobs
    <2>3. \A n \in Nat : Jobs(n) \in Seq(L)
      BY <2>2
    <2>4. QED
      BY <2>3 DEF FifoDepth
  <1>22. Mine \in Seq(L) /\ Passed \in Seq(L)
    <2>1. Command("END", 0, -1, "mining") \in L /\ Command("END", 0, -1, "passed") \in L
      BY DEF L, Lacking, Ends, Rare, Command
    <2>2. QED
      BY <2>1 DEF Mine, Passed, Host, All, Step
  <1>23. QED
    BY <1>3, <1>4, <1>5, <1>6, <1>9, <1>10, <1>11, <1>12, <1>13, <1>14, <1>15, <1>16, <1>17, <1>18,
       <1>19, <1>20, <1>21, <1>22 DEF L

LEMMA CutLacks ==
  ASSUME NEW r \in Calls, NEW x \in Rare, r.fault = 0 \/ x = "DISTRIBUTE"
  PROVE  CutFaultChips(r) \in Seq(Lacking(x))
  <1>1. r.fault \in 0 .. MaxChips /\ r.fault \in Nat
    BY Bounds DEF Calls
  <1>2. CASE r.fault = 0
    <2>1. CutFaultChips(r) = <<>>
      BY <1>2 DEF CutFaultChips
    <2>2. QED
      BY <2>1
  <1>3. CASE r.fault # 0 /\ x = "DISTRIBUTE"
    <2>1. r.fault - 1 \in Nat
      BY <1>1, <1>3
    <2> DEFINE cuts == Rounds(r.fault - 1, 2, [k \in 1 .. r.fault - 1 |-> SetLast(2, LAST_OON)])
    <2>2. CutFaultChips(r) = cuts \o One(1, "PLL_OFF", "")
      BY <1>3, Zenon DEF CutFaultChips
    <2>3. One(1, "PLL_OFF", "") \in Seq(Lacking(x))
      <3>1. ArgFits("PLL_OFF", "") /\ "PLL_OFF" # x
        BY <1>3 DEF ArgFits, Plain
      <3>2. QED
        BY <3>1, LackingPiece, Bounds
    <2>4. \A k \in 1 .. r.fault - 1 : \A i \in 1 .. 2 :
            [h \in 1 .. r.fault - 1 |-> SetLast(2, LAST_OON)][k][i] \in Lacking(x)
      <3>1. CASE 1 < r.fault
        <4>1. LAST_OON \in Controls /\ 2 \in Addresses
          <5>1. LAST_OON \in Controls
            BY DEF LAST_OON, Controls
          <5>2. 2 \in Addresses
            BY <1>1, <3>1, Bounds DEF Addresses
          <5>3. QED
            BY <5>1, <5>2
        <4>2. SetLast(2, LAST_OON) \in Seq(Lacking(x))
          BY <4>1, LackingPieces
        <4>3. SetLast(2, LAST_OON) = <<Command("SET_CONTROL", 2, -1, LAST_OON), Readdress>>
          <5>1. ArgFits("SET_CONTROL", LAST_OON) /\ "SET_CONTROL" # x /\ ArgFits("AUTO_ADDRESS", "")
                /\ "AUTO_ADDRESS" # x
            BY <4>1 DEF ArgFits, Rare, Plain
          <5>2. Command("SET_CONTROL", 2, -1, LAST_OON) \in Lacking(x) /\ Readdress \in Lacking(x)
            BY <4>1, <5>1, LackingPiece, Bounds DEF Readdress
          <5>3. QED
            BY <5>2, Pair DEF SetLast, One, Host, All, Step, Readdress
        <4>4. Len(SetLast(2, LAST_OON)) = 2
          BY <4>3
        <4>5. QED
          BY <4>2, <4>4
      <3>2. CASE ~(1 < r.fault)
        BY <1>1, <3>2
      <3>3. QED
        BY <3>1, <3>2
    <2>5. cuts \in Seq(Lacking(x))
      BY <2>1, <2>4, RoundsType
    <2> HIDE DEF cuts
    <2>6. QED
      BY <2>2, <2>3, <2>5, SeqFacts
  <1>4. QED
    BY <1>2, <1>3

LEMMA CallPieces ==
  /\ LAST \in Controls /\ OON \in Controls /\ LAST_OON \in Controls
  /\ "golden" \in Data /\ "vector" \in Data /\ "enable_all" \in Masks /\ "disable_some" \in Masks
  /\ \A range \in {"golden", "small", "full", "full_to_small"} : range \in Ranges
  /\ \A r \in Calls : /\ r.mask \in Masks /\ Length(r) \in Ranges /\ r.last \in 0 .. MaxChips
                      /\ r.last # 0 => r.last \in Addresses
                      /\ r.last + 1 \in Addresses \cup {MaxChips + 1}
  /\ 1 \in Addresses /\ 2 \in Addresses \cup {MaxChips + 1} /\ 0 \in 0 .. MaxChips
  <1>1. /\ LAST \in Controls /\ OON \in Controls /\ LAST_OON \in Controls
        /\ "golden" \in Data /\ "vector" \in Data /\ "enable_all" \in Masks
        /\ "disable_some" \in Masks
        /\ \A range \in {"golden", "small", "full", "full_to_small"} : range \in Ranges
    BY DEF LAST, OON, LAST_OON, Controls, Data, Masks, Ranges
  <1>2. ASSUME NEW r \in Calls
        PROVE  /\ r.mask \in Masks /\ Length(r) \in Ranges /\ r.last \in 0 .. MaxChips
               /\ r.last # 0 => r.last \in Addresses
               /\ r.last + 1 \in Addresses \cup {MaxChips + 1}
    BY Bounds DEF Calls, Length, Ranges, Addresses
  <1>3. 1 \in Addresses /\ 2 \in Addresses \cup {MaxChips + 1} /\ 0 \in 0 .. MaxChips
    BY Bounds DEF Addresses
  <1>4. QED
    BY <1>1, <1>2, <1>3

LEMMA JobPrograms ==
  ASSUME NEW r \in Calls, NEW x \in Rare
  PROVE  RunJob(r) \in Seq(Lacking(x)) /\ Run1Job(r) \in Seq(Lacking(x))
  BY CallPieces, LackingPieces, SeqFacts DEF RunJob, Run1Job

LEMMA FaultPrograms ==
  ASSUME NEW r \in Calls, NEW x \in Rare, r.fault = 0 \/ x = "DISTRIBUTE"
  PROVE  /\ TestLastChip(r) \in Seq(Lacking(x)) /\ TestDisableCore(r) \in Seq(Lacking(x))
         /\ TestMiningWithoutBist(r) \in Seq(Lacking(x))
  <1>1. TestLastChip(r) \in Seq(Lacking(x))
    BY CallPieces, LackingPieces, JobPrograms, CutLacks, SeqFacts DEF TestLastChip
  <1>2. TestDisableCore(r) \in Seq(Lacking(x))
    BY CallPieces, LackingPieces, JobPrograms, CutLacks, SeqFacts DEF TestDisableCore
  <1>3. TestMiningWithoutBist(r) \in Seq(Lacking(x))
    BY CallPieces, LackingPieces, JobPrograms, CutLacks, SeqFacts DEF TestMiningWithoutBist
  <1>4. QED
    BY <1>1, <1>2, <1>3

LEMMA LitPieces ==
  LET L == Lacking("PLL_OFF") IN
  /\ \A range \in Ranges : Host("DISTRIBUTE", range) \in Seq(L) /\ Shares(range) \in Seq(L)
  /\ \A reg \in Registers, value \in Values, hard \in BOOLEAN :
       /\ \A a \in Addresses : Compare(a, reg, value, hard) \in L
       /\ CompareAll(reg, value, hard) \in Seq(L) /\ MustCompareAll(reg, value, hard) \in Seq(L)
  /\ MustAll("WRITE_TARGET", "golden") \in Seq(L) /\ MustAll("SET_DISABLE", "enable_all") \in Seq(L)
  /\ MustAll("WRITE_IO_CTRL", "written") \in Seq(L)
  /\ \A a \in Addresses :
       /\ Must(Command("WRITE_TARGET", a, a, "golden")) \in L
       /\ Must(Command("SET_DISABLE", a, a, "disable_some")) \in L
       /\ Command("WRITE_PARAM", a, a, "golden") \in L
       /\ Command("WRITE_NONCE", a, a, "golden") \in L
       /\ Command("WRITE_TARGET", a, a, "golden") \in L
  /\ \A a \in Addresses \cup {-1} : BistFor(a) \in Seq(L) /\ Len(BistFor(a)) = 4
  <1> DEFINE L == Lacking("PLL_OFF")
  <1>1. "PLL_OFF" \in Rare
    BY DEF Rare
  <1>2. ASSUME NEW range \in Ranges
  PROVE Host("DISTRIBUTE", range) \in Seq(L) /\ Shares(range) \in Seq(L)
    <2>1. ArgFits("DISTRIBUTE", range)
      BY DEF ArgFits
    <2>2. Host("DISTRIBUTE", range) \in Seq(L)
      BY <2>1, LackingPiece
    <2>3. Each("WRITE_NONCE", "share") \in Seq(L)
      BY <1>1, LackingPieces
    <2>4. QED
      BY <2>2, <2>3, SeqFacts DEF Shares
  <1>3. ASSUME NEW reg \in Registers, NEW value \in Values, NEW hard \in BOOLEAN
        PROVE  /\ \A a \in Addresses : Compare(a, reg, value, hard) \in L
               /\ CompareAll(reg, value, hard) \in Seq(L)
               /\ MustCompareAll(reg, value, hard) \in Seq(L)
    <2>1. ArgFits("COMPARE", [reg |-> reg, value |-> value, hard |-> hard])
      BY DEF ArgFits, Compares
    <2>2. \A a \in Addresses : a \in -1 .. MaxChips /\ a \in -1 .. MaxChips + 1
      BY Bounds
    <2>3. \A a \in Addresses : Compare(a, reg, value, hard) \in L
            /\ Must(Compare(a, reg, value, hard)) \in L
      BY <2>1, <2>2, LackingPiece DEF Compare
    <2>4. CompareAll(reg, value, hard) \in [1 .. MaxChips -> L]
      BY <2>3 DEF CompareAll, Addresses
    <2>5. MustCompareAll(reg, value, hard) \in [1 .. MaxChips -> L]
      BY <2>3 DEF MustCompareAll, Addresses
    <2>6. QED
      BY <2>3, <2>4, <2>5, Bounds
  <1>4. /\ ArgFits("WRITE_TARGET", "golden") /\ ArgFits("WRITE_PARAM", "golden")
        /\ ArgFits("WRITE_NONCE", "golden")
        /\ ArgFits("SET_DISABLE", "enable_all") /\ ArgFits("SET_DISABLE", "disable_some")
        /\ ArgFits("WRITE_IO_CTRL", "written") /\ ArgFits("RUN_BIST", "")
    BY DEF ArgFits, Data, Masks, Ranges, Plain
  <1>5. /\ MustAll("WRITE_TARGET", "golden") \in Seq(L)
        /\ MustAll("SET_DISABLE", "enable_all") \in Seq(L)
        /\ MustAll("WRITE_IO_CTRL", "written") \in Seq(L)
    BY <1>4, LackingPiece
  <1>6. ASSUME NEW a \in Addresses
        PROVE  /\ Must(Command("WRITE_TARGET", a, a, "golden")) \in L
               /\ Must(Command("SET_DISABLE", a, a, "disable_some")) \in L
               /\ Command("WRITE_PARAM", a, a, "golden") \in L
               /\ Command("WRITE_NONCE", a, a, "golden") \in L
               /\ Command("WRITE_TARGET", a, a, "golden") \in L
    <2>1. a \in -1 .. MaxChips /\ a \in -1 .. MaxChips + 1
      BY Bounds
    <2>2. QED
      BY <1>4, <2>1, LackingPiece
  <1>7. ASSUME NEW a \in Addresses \cup {-1} PROVE BistFor(a) \in Seq(L) /\ Len(BistFor(a)) = 4
    <2>1. a \in -1 .. MaxChips + 1 /\ 0 \in -1 .. MaxChips
      BY Bounds
    <2>2. /\ Command("WRITE_PARAM", 0, a, "golden") \in L
          /\ Command("WRITE_TARGET", 0, a, "golden") \in L
          /\ Command("WRITE_NONCE", 0, a, "golden") \in L /\ Command("RUN_BIST", 0, a, "") \in L
      BY <1>4, <2>1, LackingPiece
    <2>3. \A s, t, u, v \in L : <<s, t, u, v>> \in Seq(L) /\ Len(<<s, t, u, v>>) = 4
      OBVIOUS
    <2> HIDE DEF L
    <2>4. QED
      BY <2>2, <2>3 DEF BistFor
  <1>8. QED
    BY <1>2, <1>3, <1>5, <1>6, <1>7

LEMMA LitPrograms ==
  ASSUME NEW r \in Invocations, r.fault = 0
  PROVE  Programs[r] \in Seq(Lacking("PLL_OFF"))
  <1> DEFINE L == Lacking("PLL_OFF")
  <1>0. Proper(r) /\ r \in Calls /\ r.test \in TestNames /\ Programs[r] = StepsOf(r)
    BY CallTypes DEF Proper, Calls, Programs
  <1>1. "PLL_OFF" \in Rare
    BY DEF Rare
  <1>2. CASE r.test \in {"TestWork", "TestWorkLoop", "TestInfiniteWorkLoop",
          "TestWorkLoopRandomVector"}
    <2>1. CASE r.test = "TestWork"
      <3>1. r.last \in Addresses
        BY <1>0, <2>1, CallPieces DEF Proper
      <3>2. TestWork(r) \in Seq(L)
        BY <1>0, <1>1, <3>1, CallPieces, LackingPieces, LitPieces, SeqFacts DEF TestWork
      <3>3. QED
        BY <1>0, <2>1, <3>2 DEF StepsOf
    <2>2. CASE r.test = "TestWorkLoop"
      <3>1. (IF r.last # 0 THEN SetLast(r.last, LAST) ELSE <<>>) \in Seq(L)
        <4>1. <<>> \in Seq(L)
          OBVIOUS
        <4>2. r.last # 0 => SetLast(r.last, LAST) \in Seq(L)
          BY <1>0, <1>1, CallPieces, LackingPieces
        <4>3. QED
          BY <4>1, <4>2
      <3>2. TestWorkLoop(r) \in Seq(L)
        BY <1>0, <1>1, <3>1, CallPieces, LackingPieces, LitPieces, SeqFacts DEF TestWorkLoop
      <3>3. QED
        BY <1>0, <2>2, <3>2 DEF StepsOf
    <2>3. TestInfiniteWorkLoop(r) \in Seq(L)
      BY <1>0, <1>1, CallPieces, LackingPieces, LitPieces, SeqFacts DEF TestInfiniteWorkLoop
    <2>4. TestWorkLoopRandomVector(r) \in Seq(L)
      BY <1>0, <1>1, CallPieces, LackingPieces, LitPieces, SeqFacts DEF TestWorkLoopRandomVector
    <2>5. QED
      BY <1>0, <1>2, <2>1, <2>2, <2>3, <2>4 DEF StepsOf
  <1>3. CASE r.test \in {"HWReset", "ResetAutoAddress", "TestReadBist", "TestSetPll", "TestBist"}
    <2>1. /\ HWReset(r) \in Seq(L) /\ ResetAutoAddress(r) \in Seq(L) /\ TestReadBist(r) \in Seq(L)
          /\ TestSetPll(r) \in Seq(L)
      BY <1>1, LackingPieces, SeqFacts DEF HWReset, ResetAutoAddress, TestReadBist, TestSetPll
    <2>2. TestBist(r) \in Seq(L)
      BY <1>0, <1>1, CallPieces, LackingPieces, SeqFacts DEF TestBist
    <2>3. QED
      BY <1>0, <1>3, <2>1, <2>2 DEF StepsOf
  <1>4. CASE r.test \in {"TestLastChip", "TestDisableCore", "TestMiningWithoutBist"}
    BY <1>0, <1>1, <1>4, FaultPrograms DEF StepsOf
  <1>5. CASE r.test = "TestXCore"
    <2> DEFINE w == Rounds(MaxChips, 3,
          [a \in Addresses |-> <<Command("WRITE_PARAM", a, a, "golden"),
                                 Command("WRITE_NONCE", a, a, "golden"),
                                 Command("WRITE_TARGET", a, a, "golden")>>])
    <2>1. w \in Seq(L)
      <3>1. \A s, t, u \in L : \A i \in 1 .. 3 : <<s, t, u>>[i] \in L
        OBVIOUS
      <3>2. \A k \in 1 .. MaxChips : \A i \in 1 .. 3 :
              [a \in Addresses |-> <<Command("WRITE_PARAM", a, a, "golden"),
                                     Command("WRITE_NONCE", a, a, "golden"),
                                     Command("WRITE_TARGET", a, a, "golden")>>][k][i] \in L
        BY <3>1, LitPieces DEF Addresses
      <3>3. QED
        BY <3>2, RoundsType, Bounds
    <2>2. TestXCore(r) = Start \o SetPll \o All("SET_CONTROL", OON) \o w
            \o Each("SET_DISABLE", r.mask)
                         \o Each("RUN_BIST", "") \o ReadBist \o All("SET_CONTROL", OON)
                           \o Run1Job(r)
      BY Zenon DEF TestXCore
    <2> HIDE DEF w
    <2>5. /\ Start \in Seq(L) /\ SetPll \in Seq(L) /\ Each("RUN_BIST", "") \in Seq(L)
          /\ ReadBist \in Seq(L)
      BY <1>1, LackingPieces
    <2>6. All("SET_CONTROL", OON) \in Seq(L) /\ Each("SET_DISABLE", r.mask) \in Seq(L)
      BY <1>0, <1>1, CallPieces, LackingPieces
    <2>7. Run1Job(r) \in Seq(L)
      BY <1>0, <1>1, JobPrograms
    <2>3. TestXCore(r) \in Seq(L)
      <3>1. \A u, v \in Seq(L) : u \o v \in Seq(L)
        BY SeqFacts
      <3> HIDE DEF L
      <3>2. Start \o SetPll \o All("SET_CONTROL", OON) \o w \o Each("SET_DISABLE", r.mask)
            \o Each("RUN_BIST", "") \o ReadBist \o All("SET_CONTROL", OON) \o Run1Job(r) \in Seq(L)
        BY <2>1, <2>5, <2>6, <2>7, <3>1
      <3>3. QED
        BY <2>2, <3>2
    <2>4. QED
      BY <1>0, <1>5, <2>3 DEF StepsOf
  <1>6. CASE r.test \in {"TestAsic", "TestWorkLoopFreq"}
    <2>1. CASE r.test = "TestAsic"
      <3>1. TestAsic(r) \in Seq(L)
        BY <1>0, <1>1, CallPieces, LackingPieces, LitPieces, SeqFacts DEF TestAsic, LastOrTop
      <3>2. QED
        BY <1>0, <2>1, <3>1 DEF StepsOf
    <2>2. CASE r.test = "TestWorkLoopFreq"
      <3>1. (IF r.same THEN Each("WRITE_NONCE", IF r.full THEN "full" ELSE "full_to_small")
                       ELSE Shares(Length(r))) \in Seq(L)
        <4>1. (IF r.full THEN "full" ELSE "full_to_small") \in Ranges
          BY DEF Ranges
        <4>2. QED
          BY <1>0, <1>1, <4>1, CallPieces, LackingPieces, LitPieces
      <3>2. TestWorkLoopFreq(r) \in Seq(L)
        BY ZenonT(40), <1>0, <1>1, <3>1, CallPieces, LackingPieces, LitPieces, SeqFacts
           DEF TestWorkLoopFreq
      <3>3. QED
        BY <1>0, <2>2, <3>2 DEF StepsOf
    <2>3. QED
      BY <1>6, <2>1, <2>2
  <1>7. CASE r.test \in {"Mining", "ChipSortingBIST"}
    <2>1. InitializeMiningkLoop(r) \in Seq(L)
      <3>1. Step("SET_DISABLE", 0, 1, r.mask) \in Seq(L)
        <4>1. Step("SET_DISABLE", 0, 0 + 1, r.mask) \in Seq(L)
          BY <1>0, <1>1, CallPieces, LackingPieces
        <4>2. QED
          BY <4>1
      <3>2. QED
        BY ZenonT(40), <1>0, <1>1, <3>1, CallPieces, LackingPieces, LitPieces, SeqFacts DEF
           InitializeMiningkLoop
    <2>2. Mining(r) \in Seq(L)
      BY <1>1, <2>1, LackingPieces, SeqFacts DEF Mining
    <2>3. ChipSortingBIST(r) \in Seq(L)
      <3>1. (IF r.full THEN SetPllFreq \o RunBist ELSE <<>>) \in Seq(L)
        <4>1. <<>> \in Seq(L)
          OBVIOUS
        <4>2. SetPllFreq \o RunBist \in Seq(L)
          BY <1>1, LackingPieces, SeqFacts
        <4>3. QED
          BY <4>1, <4>2
      <3>2. QED
        BY <1>0, <1>1, <3>1, CallPieces, LackingPieces, SeqFacts DEF ChipSortingBIST
    <2>4. QED
      BY <1>0, <1>7, <2>2, <2>3 DEF StepsOf
  <1>8. CASE r.test \in RegisterTests
    <2>1. /\ \A reg \in {"revision", "feature", "target", "mask", "io"} : reg \in Registers
          /\ \A v \in {"fixed", "default", "written", "golden", "disable_some", "enable_all"} :
               v \in Values
      BY DEF Registers, Values
    <2>2. TestReadRevision(r) \in Seq(L) /\ TestReadFeature(r) \in Seq(L)
      BY <1>1, <2>1, LackingPieces, LitPieces, SeqFacts DEF TestReadRevision, TestReadFeature
    <2>3. TestIOCtrl(r) \in Seq(L)
      BY <1>1, <2>1, LackingPieces, LitPieces, SeqFacts DEF TestIOCtrl
    <2>4. TestWRTarget(r) \in Seq(L)
      <3> DEFINE w == Rounds(MaxChips, 2,
          [a \in Addresses |-> <<Must(Command("WRITE_TARGET", a, a, "golden")),
                                 Compare(a, "target", "golden", FALSE)>>])
      <3>1. w \in Seq(L)
        <4>1. \A s, t \in L : \A i \in 1 .. 2 : <<s, t>>[i] \in L
          OBVIOUS
        <4>2. \A k \in 1 .. MaxChips : \A i \in 1 .. 2 :
                [a \in Addresses |-> <<Must(Command("WRITE_TARGET", a, a, "golden")),
                                       Compare(a, "target", "golden", FALSE)>>][k][i] \in L
          BY <2>1, <4>1, LitPieces DEF Addresses
        <4>3. QED
          BY <4>2, RoundsType, Bounds
      <3>2. TestWRTarget(r) = Start \o w \o MustAll("WRITE_TARGET", "golden")
                              \o CompareAll("target", "golden", TRUE) \o Passed
        BY Zenon DEF TestWRTarget
      <3> HIDE DEF w
      <3>3. Start \in Seq(L) /\ Passed \in Seq(L)
        BY <1>1, LackingPieces
      <3>4. MustAll("WRITE_TARGET", "golden") \in Seq(L)
              /\ CompareAll("target", "golden", TRUE) \in Seq(L)
        BY <2>1, LitPieces
      <3>5. \A u, v \in Seq(L) : u \o v \in Seq(L)
        BY SeqFacts
      <3> HIDE DEF L
      <3>6. Start \o w \o MustAll("WRITE_TARGET", "golden") \o CompareAll("target", "golden", TRUE)
            \o Passed \in Seq(L)
        BY <3>1, <3>3, <3>4, <3>5
      <3>7. QED
        BY <3>2, <3>6
    <2>5. TestWRDisable(r) \in Seq(L)
      <3> DEFINE b(a) == <<Must(Command("SET_DISABLE", a, a, "disable_some"))>> \o BistFor(a)
                         \o <<Compare(a, "mask", "disable_some", TRUE)>>
                 w == Rounds(MaxChips, 6, [a \in Addresses |-> b(a)])
      <3>1. w \in Seq(L)
        <4>1. ASSUME NEW a \in Addresses, NEW i \in 1 .. 6 PROVE b(a)[i] \in L
          <5> DEFINE s == <<Must(Command("SET_DISABLE", a, a, "disable_some"))>>
                     t == BistFor(a)
                     u == <<Compare(a, "mask", "disable_some", TRUE)>>
          <5>1. s \in Seq(L) /\ Len(s) = 1 /\ u \in Seq(L) /\ Len(u) = 1
            <6>1. /\ Must(Command("SET_DISABLE", a, a, "disable_some")) \in L
                  /\ Compare(a, "mask", "disable_some", TRUE) \in L
              BY <2>1, LitPieces
            <6>2. \A e \in L : <<e>> \in Seq(L) /\ Len(<<e>>) = 1
              OBVIOUS
            <6> HIDE DEF L
            <6>3. QED
              BY <6>1, <6>2
          <5>2. t \in Seq(L) /\ Len(t) = 4
            BY LitPieces
          <5>3. b(a) = (s \o t) \o u
            OBVIOUS
          <5> HIDE DEF s, t, u, b
          <5>4. s \o t \in Seq(L) /\ Len(s \o t) = Len(s) + Len(t)
            BY <5>1, <5>2, ConcatProperties
          <5>5. b(a) \in Seq(L) /\ Len(b(a)) = Len(s \o t) + Len(u)
            BY <5>1, <5>3, <5>4, ConcatProperties
          <5>6. Len(b(a)) = 6
            BY <5>1, <5>2, <5>4, <5>5
          <5>7. \A q \in Seq(L) : \A j \in 1 .. Len(q) : q[j] \in L
            OBVIOUS
          <5>8. i \in 1 .. Len(b(a))
            BY <5>6
          <5>9. QED
            BY <5>5, <5>7, <5>8
        <4> HIDE DEF b
        <4>2. \A k \in 1 .. MaxChips : \A i \in 1 .. 6 : [a \in Addresses |-> b(a)][k][i] \in L
          BY <4>1 DEF Addresses
        <4>3. QED
          BY <4>2, RoundsType, Bounds
      <3>2. TestWRDisable(r) = Start \o All("RESET", "")
              \o CompareAll("mask", "disable_some", FALSE) \o w
                               \o ReadBist \o MustAll("SET_DISABLE", "enable_all") \o BistFor(-1)
                               \o CompareAll("mask", "enable_all", TRUE) \o ReadBist \o Passed
        BY Zenon DEF TestWRDisable
      <3> HIDE DEF w
      <3>3. BistFor(-1) \in Seq(L)
        BY LitPieces
      <3>4. /\ Start \in Seq(L) /\ Passed \in Seq(L) /\ All("RESET", "") \in Seq(L)
            /\ ReadBist \in Seq(L)
        BY <1>1, LackingPieces
      <3>5. /\ MustAll("SET_DISABLE", "enable_all") \in Seq(L)
            /\ CompareAll("mask", "disable_some", FALSE) \in Seq(L)
            /\ CompareAll("mask", "enable_all", TRUE) \in Seq(L)
        BY <2>1, LitPieces
      <3>6. \A u, v \in Seq(L) : u \o v \in Seq(L)
        BY SeqFacts
      <3> HIDE DEF L
      <3>7. Start \o All("RESET", "") \o CompareAll("mask", "disable_some", FALSE) \o w
            \o ReadBist \o MustAll("SET_DISABLE", "enable_all") \o BistFor(-1)
            \o CompareAll("mask", "enable_all", TRUE) \o ReadBist \o Passed \in Seq(L)
        BY <3>1, <3>3, <3>4, <3>5, <3>6
      <3>8. QED
        BY <3>2, <3>7
    <2>6. QED
      BY <1>0, <1>8, <2>2, <2>3, <2>4, <2>5 DEF StepsOf, RegisterTests
  <1>9. QED
    BY <1>0, <1>2, <1>3, <1>4, <1>5, <1>6, <1>7, <1>8 DEF TestNames

\* A PLL is switched off only in a test with a fault chip, which shares no nonces.
LEMMA NoCut ==
  ASSUME NEW r \in Invocations, NEW k \in 1 .. Len(Programs[r])
  PROVE  /\ Programs[r][k].cmd = "PLL_OFF" => r.fault > 0 /\ r.by = "command"
         /\ Programs[r][k].cmd = "DISTRIBUTE" => r.fault = 0
  <1>1. Proper(r) /\ r \in Calls /\ r.fault \in Nat
    BY CallTypes, Bounds DEF Proper, Calls
  <1>2. CASE r.fault = 0
    <2>1. Programs[r] \in Seq(Lacking("PLL_OFF"))
      BY <1>2, LitPrograms
    <2>2. Programs[r][k] \in Lacking("PLL_OFF")
      BY <2>1
    <2>3. QED
      BY <1>2, <2>2 DEF Lacking
  <1>3. CASE r.fault > 0
    <2>1. r.test \in {"TestLastChip", "TestDisableCore", "TestMiningWithoutBist"}
            /\ r.by = "command"
      BY <1>1, <1>3 DEF Proper
    <2>2. "DISTRIBUTE" \in Rare /\ Programs[r] = StepsOf(r)
      BY DEF Rare, Programs
    <2>3. Programs[r] \in Seq(Lacking("DISTRIBUTE"))
      BY <1>1, <2>1, <2>2, FaultPrograms DEF StepsOf
    <2>4. Programs[r][k] \in Lacking("DISTRIBUTE")
      BY <2>3
    <2>5. QED
      BY <1>3, <2>1, <2>4 DEF Lacking
  <1>4. QED
    BY <1>1, <1>2, <1>3

-----------------------------------------------------------------------------
(* The golden data on the chips, and what BIST finds with it.               *)

\* Without a fault, and in a test that cuts off none, every chip has a clock.
Lit == fault = "none" /\ run.fault = 0 => \A p \in Chips : chip[p].clock # "off"

\* The golden data of the last BIST is on every chip that it reaches.
Filled(c) == FilledAt(Programs[run], pc, c)

FillInv ==
  fault = "none" =>
    /\ Filled("WRITE_PARAM") => \A p \in Reach : chip[p].param = "golden"
    /\ Filled("WRITE_TARGET") => \A p \in Reach : chip[p].target = "golden"
    /\ Filled("WRITE_NONCE") => \A p \in Reach : chip[p].nonce = Whole("golden")

\* Then BIST finds no core on a chip only if none works.
BistInv ==
  fault = "none" /\ run.fault = 0 /\ BistAt(Programs[run], pc) =>
    \A p \in Reach : chip[p].found = 0 => health[p] = 0

\* A count of 0 is the count of a broken chip.
Dead(a) == numCores[a].chip # 0 /\ numCores[a].cores = 0 => health[numCores[a].chip] = 0

FoundInv ==
  fault = "none" /\ run.fault = 0 =>
    \A a \in Addresses : FoundAt(Programs[run], pc, a) /\ Address(a) => Dead(a)

\* The same for the data and BIST.
LEMMA OneMoreBist ==
  ASSUME NEW p, NEW k \in Nat \ {0}
  PROVE  /\ \A c : ~FilledAt(p, 1, c)
         /\ ~BistAt(p, 1) /\ \A a : ~FoundAt(p, 1, a)
         /\ \A c : FilledAt(p, k + 1, c) =>
              p[k] = Golden(c) \/ (FilledAt(p, k, c) /\ ~Moves(p[k]) /\ p[k].cmd # c)
         /\ BistAt(p, k + 1) =>
              \/ p[k] = RunsBist /\ GoldenAt(p, k)
              \/ BistAt(p, k) /\ ~Moves(p[k]) /\ p[k].cmd \notin {"RUN_BIST", "WRITE_CORE_CFG"}
         /\ \A a : FoundAt(p, k + 1, a) =>
              \/ p[k] = ReadOf(a) /\ BistAt(p, k)
              \/ FoundAt(p, k, a) /\ p[k].cmd # "AUTO_ADDRESS" /\ ~Rereads(p[k], a)
  <1>1. /\ \A c : ~FilledAt(p, 1, c)
        /\ ~BistAt(p, 1) /\ \A a : ~FoundAt(p, 1, a)
    BY DEF FilledAt, BistAt, FoundAt
  <1>0. \A i \in 1 .. (k + 1) - 1 : i = k \/ (i \in 1 .. k - 1 /\ k \in i + 1 .. (k + 1) - 1)
    OBVIOUS
  <1>2. ASSUME NEW c, FilledAt(p, k + 1, c)
        PROVE  p[k] = Golden(c) \/ (FilledAt(p, k, c) /\ ~Moves(p[k]) /\ p[k].cmd # c)
    <2>1. PICK i \in 1 .. (k + 1) - 1 :
            p[i] = Golden(c) /\ \A j \in i + 1 .. (k + 1) - 1 : ~Moves(p[j]) /\ p[j].cmd # c
      BY <1>2 DEF FilledAt
    <2>2. CASE i = k
      BY <2>1, <2>2
    <2>3. CASE i \in 1 .. k - 1 /\ k \in i + 1 .. (k + 1) - 1
      BY <2>1, <2>3 DEF FilledAt
    <2>4. QED
      BY <1>0, <2>2, <2>3
  <1>3. ASSUME BistAt(p, k + 1)
        PROVE  \/ p[k] = RunsBist /\ GoldenAt(p, k)
               \/ BistAt(p, k) /\ ~Moves(p[k]) /\ p[k].cmd \notin {"RUN_BIST", "WRITE_CORE_CFG"}
    <2>1. PICK i \in 1 .. (k + 1) - 1 :
            /\ p[i] = RunsBist /\ GoldenAt(p, i)
            /\ \A j \in i + 1 .. (k + 1) - 1 : ~Moves(p[j])
                 /\ p[j].cmd \notin {"RUN_BIST", "WRITE_CORE_CFG"}
      BY <1>3 DEF BistAt
    <2>2. CASE i = k
      BY <2>1, <2>2
    <2>3. CASE i \in 1 .. k - 1 /\ k \in i + 1 .. (k + 1) - 1
      BY <2>1, <2>3 DEF BistAt
    <2>4. QED
      BY <1>0, <2>2, <2>3
  <1>4. ASSUME NEW a, FoundAt(p, k + 1, a)
        PROVE  \/ p[k] = ReadOf(a) /\ BistAt(p, k)
               \/ FoundAt(p, k, a) /\ p[k].cmd # "AUTO_ADDRESS" /\ ~Rereads(p[k], a)
    <2>1. PICK i \in 1 .. (k + 1) - 1 :
            /\ p[i] = ReadOf(a) /\ BistAt(p, i)
            /\ \A j \in i + 1 .. (k + 1) - 1 : p[j].cmd # "AUTO_ADDRESS" /\ ~Rereads(p[j], a)
      BY <1>4 DEF FoundAt
    <2>2. CASE i = k
      BY <2>1, <2>2
    <2>3. CASE i \in 1 .. k - 1 /\ k \in i + 1 .. (k + 1) - 1
      BY <2>1, <2>3 DEF FoundAt
    <2>4. QED
      BY <1>0, <2>2, <2>3
  <1>5. QED
    BY <1>1, <1>2, <1>3, <1>4

LEMMA ReachKept ==
  ASSUME TypeInv, Next, ~Moves(Now), ~Again
  PROVE  Reach' = Reach
  <1>1. Chips' = Chips /\ \A p \in Chips : chip'[p].last = chip[p].last
    BY ChainStep, LastKept
  <1>2. {p \in Chips : chip[p].last}' = {p \in Chips : chip[p].last}
    BY <1>1
  <1>3. LastChip' = LastChip
    BY <1>2 DEF LastChip
  <1>4. QED
    BY <1>1, <1>3 DEF Reach

LEMMA FieldsKept ==
  ASSUME TypeInv, Next, ~Moves(Now), ~Again, NEW p \in Chips
  PROVE  /\ Now.cmd # "WRITE_PARAM" => chip'[p].param = chip[p].param
         /\ Now.cmd # "WRITE_TARGET" => chip'[p].target = chip[p].target
         /\ Now.cmd # "WRITE_NONCE" => chip'[p].nonce = chip[p].nonce
         /\ Now.cmd \notin {"RUN_BIST", "WRITE_CORE_CFG"} => chip'[p].found = chip[p].found
  <1>1. Chain /\ Chips = 1 .. Size
    BY Geometry DEF TypeInv
  <1>2. p \in 1 .. Size /\ chip[p] \in ChipStates
    BY <1>1 DEF Chain
  <1>3. CASE Write /\ chip' # chip
    <2>1. chip' = [q \in Chips |-> IF q \in Hit(To) THEN Effect(chip[q], health[q],
            Now) ELSE chip[q]]
      BY <1>3 DEF Write
    <2>2. chip'[p] = Effect(chip[p], health[p], Now) \/ chip'[p] = chip[p]
      BY <2>1
    <2>3. QED
      BY <2>2 DEF Effect
  <1>4. CASE SetPllConfigByIdx /\ chip' # chip
    <2>1. PICK clock \in {"power_on", "set", "off"} :
            chip' = [q \in Chips |->
              IF type = "ASIC" /\ q \in Hit(Now.to)
                /\ ~(clock = "power_on" /\ chip[q].clock = "set")
                THEN [chip[q] EXCEPT !.clock = clock] ELSE chip[q]]
      BY <1>4 DEF SetPllConfigByIdx
    <2>2. chip'[p] = [chip[p] EXCEPT !.clock = clock] \/ chip'[p] = chip[p]
      BY <2>1
    <2>3. QED
      BY <1>2, <2>2 DEF ChipStates
  <1>5. ~HWResetStep /\ ~AutoAddress
    BY DEF HWResetStep, AutoAddress, At, Moves
  <1>6. QED
    BY <1>3, <1>4, <1>5, Frame

\* A broadcast that is not lost reaches every chip on the chain.
LEMMA Broadcast ==
  ASSUME TypeInv, Next, ~Again, GoesOn, fault' = "none", Now.cmd \in Writes, Now.to = 0,
           Now.need = -1
  PROVE  \A p \in Reach : p \in Chips /\ chip'[p] = Effect(chip[p], health[p], Now)
  <1>1. ~LoopEnds
    <2>1. numChips \in -1 .. MaxChips
      BY DEF TypeInv
    <2>2. ~(Now.need > numChips)
      BY <2>1, Bounds
    <2>3. QED
      BY <2>2 DEF LoopEnds
  <1>2. Write
    BY <1>1 DEF Next, Writes, HWResetStep, AutoAddress, GetBoardType, GetPllFreq2Idx,
       SetPllConfigByIdx, ReadBistStep, DistributionNonce, CheckCores, CheckNumChips, CheckId,
       ReadAndCompare, End, At
  <1>3. chip' = [p \in Chips |-> IF p \in Hit(To) THEN Effect(chip[p], health[p], Now) ELSE chip[p]]
    BY <1>2, BringupAssumption DEF Write, GoWrong
  <1>4. To = 0
    BY DEF To, LastOrTop
  <1>5. Hit(To) = Reach /\ Hit(To) \subseteq Chips
    BY <1>4, Geometry DEF Hit, TypeInv
  <1>6. QED
    BY <1>3, <1>5

LEMMA Stepping ==
  ASSUME TypeInv, Next
  PROVE  /\ pc \in Nat \ {0} /\ Now = Programs[run][pc] /\ pc \in 1 .. Len(Programs[run])
         /\ fault' = "none" => fault = "none"
         /\ ~Again => run' = run /\ health' = health /\ result = "running" /\ (GoesOn \/ Stops)
         /\ Again => pc' = 1
         /\ Chips' = Chips
  <1>1. Len(Programs[run]) \in Nat
    BY NowFacts DEF IsProgram
  <1>2. pc \in Nat \ {0} /\ Now = Programs[run][pc] /\ pc \in 1 .. Len(Programs[run])
    BY <1>1 DEF TypeInv, Now
  <1>3. fault' = "none" => fault = "none"
    BY Frame, BringupAssumption DEF Again
  <1>4. QED
    BY SMTT(30), <1>2, Frame, ChainStep DEF SameTest, Again

LEMMA LitStep ==
  ASSUME TypeInv, Lit, Next
  PROVE  Lit'
  <1>1. Chain /\ Chips = 1 .. Size
    BY Geometry DEF TypeInv
  <1> SUFFICES ASSUME fault' = "none", run'.fault = 0, NEW p \in Chips PROVE chip'[p].clock # "off"
    BY Stepping DEF Lit
  <1>2. chip[p] \in ChipStates /\ fault = "none"
    BY <1>1, Stepping DEF Chain
  <1>3. CASE Again
    <2>1. CASE chip' = [q \in Chips |-> Reset]
      BY <2>1 DEF Reset
    <2>2. CASE chip' = chip /\ run.by \in {"menu", "DebugPowerBIST"}
      <3>1. run.fault = 0
        <4>1. Proper(run) /\ run.fault \in Nat
          BY CallTypes DEF TypeInv, Proper, Calls
        <4>2. QED
          BY <2>2, <4>1 DEF Proper
      <3>2. QED
        BY <1>2, <2>2, <3>1 DEF Lit
    <2>3. QED
      BY <1>3, <2>1, <2>2 DEF Again
  <1>4. CASE ~Again
    <2>0. chip[p].clock # "off" /\ run' = run
      BY <1>2, <1>4, Stepping DEF Lit
    <2>1. CASE chip' = chip
      BY <2>0, <2>1
    <2>2. CASE HWResetStep
      BY <2>2 DEF HWResetStep, Reset
    <2>3. CASE AutoAddress /\ chip' # chip
      <3>1. chip'[p] = chip[p] \/ chip'[p] = [chip[p] EXCEPT !.addr = p - LastChip + 1]
        BY <2>3 DEF AutoAddress
      <3>2. QED
        BY <1>2, <2>0, <3>1 DEF ChipStates
    <2>4. CASE Write /\ chip' # chip
      <3>1. chip' = [q \in Chips |-> IF q \in Hit(To) THEN Effect(chip[q], health[q],
              Now) ELSE chip[q]]
        BY <2>4 DEF Write
      <3>2. chip'[p] = Effect(chip[p], health[p], Now) \/ chip'[p] = chip[p]
        BY <3>1
      <3>3. Now.cmd # "PLL_OFF"
        <4>1. run \in Invocations /\ run.fault = 0
          BY <2>0 DEF TypeInv
        <4>2. QED
          BY <4>1, NoCut, Stepping
      <3>4. Effect(chip[p], health[p], Now).clock = chip[p].clock
        BY <3>3 DEF Effect
      <3>5. QED
        BY <2>0, <3>2, <3>4
    <2>5. CASE SetPllConfigByIdx /\ chip' # chip
      <3>1. PICK clock \in {"power_on", "set", "off"} :
              /\ IF type = "FPGA" \/ clock = "set" THEN Fine ELSE GoWrong("lost")
              /\ type = "FPGA" => clock = "set"
              /\ chip' = [q \in Chips |->
                   IF type = "ASIC" /\ q \in Hit(Now.to)
                     /\ ~(clock = "power_on" /\ chip[q].clock = "set")
                     THEN [chip[q] EXCEPT !.clock = clock] ELSE chip[q]]
        BY <2>5 DEF SetPllConfigByIdx
      <3>2. clock # "off"
        BY <3>1 DEF GoWrong
      <3>3. chip'[p] = [chip[p] EXCEPT !.clock = clock] \/ chip'[p] = chip[p]
        BY <3>1
      <3>4. QED
        BY <1>2, <2>0, <3>2, <3>3 DEF ChipStates
    <2>6. QED
      BY <1>4, <2>1, <2>2, <2>3, <2>4, <2>5, Frame
  <1>5. QED
    BY <1>3, <1>4

LEMMA WritesCmd ==
  /\ \A c \in {"WRITE_PARAM", "WRITE_TARGET", "WRITE_NONCE"} :
       Golden(c).cmd = c /\ Golden(c).to = 0 /\ Golden(c).need = -1 /\ Golden(c).arg = "golden"
       /\ c \in Writes /\ ~Moves(Golden(c))
  /\ RunsBist.cmd = "RUN_BIST" /\ RunsBist.to = 0 /\ RunsBist.need = -1 /\ "RUN_BIST" \in Writes
  /\ ~Moves(RunsBist)
  BY DEF Golden, RunsBist, Command, Writes, Moves

LEMMA NothingYet ==
  ASSUME NEW p
  PROVE  (\A c : ~FilledAt(p, 1, c)) /\ ~BistAt(p, 1) /\ (\A a : ~FoundAt(p, 1, a))
  BY DEF FilledAt, BistAt, FoundAt

LEMMA FirstCommand ==
  ASSUME TypeInv, Next, Again
  PROVE  (\A c : ~Filled(c)') /\ ~BistAt(Programs[run'], pc')
           /\ (\A a : ~FoundAt(Programs[run'], pc', a))
  <1>1. pc' = 1
    BY Stepping
  <1> DEFINE p == Programs[run']
  <1>2. (\A c : ~FilledAt(p, 1, c)) /\ ~BistAt(p, 1) /\ (\A a : ~FoundAt(p, 1, a))
    <2> HIDE DEF p
    <2>1. QED
      BY NothingYet
  <1>3. QED
    BY <1>1, <1>2 DEF Filled

LEMMA FillStep ==
  ASSUME TypeInv, FillInv, Next
  PROVE  FillInv'
  <1> SUFFICES ASSUME fault' = "none"
               PROVE  /\ Filled("WRITE_PARAM")' => \A p \in Reach' : chip'[p].param = "golden"
                      /\ Filled("WRITE_TARGET")' => \A p \in Reach' : chip'[p].target = "golden"
                      /\ Filled("WRITE_NONCE")' => \A p \in Reach' :
                           chip'[p].nonce = Whole("golden")
    BY DEF FillInv
  <1>1. CASE Again
    BY <1>1, FirstCommand
  <1>2. CASE ~Again /\ Stops
    <2>1. chip' = chip /\ pc' = pc /\ run' = run /\ Chips' = Chips /\ fault = "none"
      BY <1>2, Stopping, Stepping DEF Stops
    <2>2. Reach' = Reach
      BY <2>1 DEF Reach, LastChip
    <2>3. QED
      BY <2>1, <2>2 DEF FillInv, Filled
  <1>3. CASE ~Again /\ GoesOn
    <2>0. run' = run /\ pc' = pc + 1 /\ fault = "none" /\ pc \in Nat \ {0}
            /\ Now = Programs[run][pc]
      BY <1>3, Stepping DEF GoesOn
    <2>1. \A c \in {"WRITE_PARAM", "WRITE_TARGET", "WRITE_NONCE"} : Filled(c)' =>
            /\ ~Moves(Now)
            /\ Now = Golden(c) \/ (Filled(c) /\ Now.cmd # c)
      BY <2>0, OneMoreBist, WritesCmd DEF Filled
    <2>2. ~Moves(Now) => Reach' = Reach /\ \A p \in Reach : p \in Chips
      BY <1>3, ReachKept, Geometry DEF TypeInv
    <2>3. ASSUME NEW c \in {"WRITE_PARAM", "WRITE_TARGET", "WRITE_NONCE"}, Now = Golden(c)
          PROVE  /\ Now.cmd = c /\ Now.arg = "golden"
                 /\ \A p \in Reach : chip'[p] = Effect(chip[p], health[p], Now)
      <3>1. Now.cmd = c /\ Now.to = 0 /\ Now.need = -1 /\ Now.arg = "golden" /\ Now.cmd \in Writes
        BY <2>3, WritesCmd
      <3>2. QED
        BY <1>3, <3>1, Broadcast
    <2>4. ASSUME Filled("WRITE_PARAM")', NEW p \in Reach' PROVE chip'[p].param = "golden"
      <3>0. ~Moves(Now) /\ p \in Reach /\ p \in Chips
        BY <2>1, <2>2, <2>4
      <3>1. CASE Now = Golden("WRITE_PARAM")
        <4>1. /\ Now.cmd = "WRITE_PARAM" /\ Now.arg = "golden"
              /\ chip'[p] = Effect(chip[p], health[p], Now)
          BY <2>3, <3>0, <3>1
        <4>2. Effect(chip[p], health[p], Now).param = "golden"
          BY <4>1 DEF Effect
        <4>3. QED
          BY <4>1, <4>2
      <3>2. CASE Filled("WRITE_PARAM") /\ Now.cmd # "WRITE_PARAM"
        BY <1>3, <2>0, <3>0, <3>2, FieldsKept DEF FillInv
      <3>3. QED
        BY <2>1, <2>4, <3>1, <3>2
    <2>5. ASSUME Filled("WRITE_TARGET")', NEW p \in Reach' PROVE chip'[p].target = "golden"
      <3>0. ~Moves(Now) /\ p \in Reach /\ p \in Chips
        BY <2>1, <2>2, <2>5
      <3>1. CASE Now = Golden("WRITE_TARGET")
        <4>1. /\ Now.cmd = "WRITE_TARGET" /\ Now.arg = "golden"
              /\ chip'[p] = Effect(chip[p], health[p], Now)
          BY <2>3, <3>0, <3>1
        <4>2. Effect(chip[p], health[p], Now).target = "golden"
          BY <4>1 DEF Effect
        <4>3. QED
          BY <4>1, <4>2
      <3>2. CASE Filled("WRITE_TARGET") /\ Now.cmd # "WRITE_TARGET"
        BY <1>3, <2>0, <3>0, <3>2, FieldsKept DEF FillInv
      <3>3. QED
        BY <2>1, <2>5, <3>1, <3>2
    <2>6. ASSUME Filled("WRITE_NONCE")', NEW p \in Reach' PROVE chip'[p].nonce = Whole("golden")
      <3>0. ~Moves(Now) /\ p \in Reach /\ p \in Chips
        BY <2>1, <2>2, <2>6
      <3>1. CASE Now = Golden("WRITE_NONCE")
        <4>1. /\ Now.cmd = "WRITE_NONCE" /\ Now.arg = "golden"
              /\ chip'[p] = Effect(chip[p], health[p], Now)
          BY <2>3, <3>0, <3>1
        <4>2. Effect(chip[p], health[p], Now).nonce = Whole("golden")
          BY <4>1 DEF Effect
        <4>3. QED
          BY <4>1, <4>2
      <3>2. CASE Filled("WRITE_NONCE") /\ Now.cmd # "WRITE_NONCE"
        BY <1>3, <2>0, <3>0, <3>2, FieldsKept DEF FillInv
      <3>3. QED
        BY <2>1, <2>6, <3>1, <3>2
    <2>7. QED
      BY <2>4, <2>5, <2>6
  <1>4. QED
    BY <1>1, <1>2, <1>3, Stepping

\* With a clock and the golden data, BIST finds a core if one works.
LEMMA BistFindsNone ==
  ASSUME NEW c \in ChipStates, NEW n \in 0 .. Cores, c.clock # "off",
         c.param = "golden", c.target = "golden", c.nonce = Whole("golden"), BistFinds(c, n) = 0
  PROVE  n = 0
  <1>1. Cores \in Nat /\ Cores > 1
    BY BringupAssumption
  <1>2. Cores - Disabled(c.mask) \in 1 .. Cores
    BY <1>1 DEF Disabled
  <1>3. BistFinds(c, n) = Min({n, Cores - Disabled(c.mask)})
    BY DEF BistFinds
  <1>4. n \in Int /\ Cores - Disabled(c.mask) \in Int
    BY <1>1, <1>2
  <1>5. Min({n, Cores - Disabled(c.mask)})
          = IF n <= Cores - Disabled(c.mask) THEN n ELSE Cores - Disabled(c.mask)
    BY <1>4, MinPair
  <1>6. QED
    BY <1>1, <1>2, <1>3, <1>5

LEMMA BistStep ==
  ASSUME TypeInv, FillInv, BistInv, Lit, Next
  PROVE  BistInv'
  <1> SUFFICES ASSUME fault' = "none", run'.fault = 0, BistAt(Programs[run'], pc'),
                      NEW p \in Reach', chip'[p].found = 0
               PROVE  health'[p] = 0
    BY DEF BistInv
  <1>1. ~Again
    BY FirstCommand
  <1>2. run' = run /\ health' = health /\ fault = "none" /\ Chips' = Chips
        /\ pc \in Nat \ {0} /\ Now = Programs[run][pc]
    BY <1>1, Stepping
  <1>3. CASE Stops
    <2>1. chip' = chip /\ pc' = pc
      BY <1>3, Stopping DEF Stops
    <2>2. Reach' = Reach
      BY <1>2, <2>1 DEF Reach, LastChip
    <2>3. QED
      BY <1>2, <2>1, <2>2 DEF BistInv
  <1>4. CASE GoesOn
    <2>1. \/ Now = RunsBist /\ GoldenAt(Programs[run], pc)
          \/ BistAt(Programs[run], pc) /\ ~Moves(Now)
               /\ Now.cmd \notin {"RUN_BIST", "WRITE_CORE_CFG"}
      BY <1>2, <1>4, OneMoreBist DEF GoesOn
    <2>2. ~Moves(Now)
      BY <2>1, WritesCmd
    <2>3. Reach' = Reach /\ p \in Reach /\ p \in Chips
      <3>1. Reach' = Reach
        BY <1>1, <2>2, ReachKept
      <3>2. Chain
        BY DEF TypeInv
      <3>3. Reach \subseteq Chips
        BY <3>2, Geometry
      <3>4. QED
        BY <3>1, <3>3
    <2>4. CASE Now = RunsBist /\ GoldenAt(Programs[run], pc)
      <3>1. /\ Now.cmd = "RUN_BIST" /\ Now.to = 0 /\ Now.need = -1 /\ Now.cmd \in Writes
        BY <2>4, WritesCmd
      <3>2. chip'[p] = Effect(chip[p], health[p], Now)
        BY <1>1, <1>4, <2>3, <3>1, Broadcast
      <3>3. chip'[p].found = BistFinds(chip[p], health[p])
        BY <3>1, <3>2 DEF Effect
      <3>4. chip[p] \in ChipStates /\ health[p] \in 0 .. Cores
        BY <2>3, Geometry DEF TypeInv, Chain
      <3>5. chip[p].param = "golden" /\ chip[p].target = "golden" /\ chip[p].nonce = Whole("golden")
        BY <1>2, <2>3, <2>4 DEF FillInv, Filled, GoldenAt
      <3>6. chip[p].clock # "off"
        BY <1>2, <2>3 DEF Lit
      <3>7. QED
        BY <1>2, <3>3, <3>4, <3>5, <3>6, BistFindsNone
    <2>5. CASE BistAt(Programs[run], pc) /\ Now.cmd \notin {"RUN_BIST", "WRITE_CORE_CFG"}
      <3>1. chip'[p].found = chip[p].found
        BY <1>1, <2>2, <2>3, <2>5, FieldsKept
      <3>2. QED
        BY <1>2, <2>3, <2>5, <3>1 DEF BistInv
    <2>6. QED
      BY <2>1, <2>4, <2>5
  <1>5. QED
    BY <1>1, <1>3, <1>4, Stepping

LEMMA FoundStep ==
  ASSUME TypeInv, BistInv, Lit, FoundInv, Next
  PROVE  FoundInv'
  <1> SUFFICES ASSUME fault' = "none", run'.fault = 0, NEW a \in Addresses,
                      FoundAt(Programs[run'], pc', a), Address(a)'
               PROVE  Dead(a)'
    BY DEF FoundInv
  <1>1. ~Again
    BY FirstCommand
  <1>2. run' = run /\ health' = health /\ fault = "none"
        /\ pc \in Nat \ {0} /\ Now = Programs[run][pc]
    BY <1>1, Stepping
  <1>3. CASE Stops
    <2>1. numChips' = numChips /\ numCores' = numCores /\ pc' = pc
      BY <1>3, Stopping DEF Stops
    <2>2. QED
      BY <1>2, <2>1 DEF FoundInv, Dead, Address
  <1>4. CASE GoesOn
    <2>1. \/ Now = ReadOf(a) /\ BistAt(Programs[run], pc)
          \/ FoundAt(Programs[run], pc, a) /\ Now.cmd # "AUTO_ADDRESS" /\ ~Rereads(Now, a)
      BY <1>2, <1>4, OneMoreBist DEF GoesOn
    <2>2. Now.cmd # "AUTO_ADDRESS"
      BY <2>1, ReadOfFacts
    <2>3. numChips' = numChips
      BY <1>1, <2>2, Frame DEF AutoAddress, At
    <2>4. Address(a)
      BY <2>3 DEF Address
    <2>5. CASE Now = ReadOf(a) /\ BistAt(Programs[run], pc)
      <3>1. Now.cmd = "READ_BIST" /\ Now.need = a /\ Now.to = a
        BY <2>5, ReadOfFacts
      <3>2. ~LoopEnds
        <4>1. a <= numChips /\ a \in Int /\ numChips \in Int
          BY <2>4 DEF Address, TypeInv
        <4>2. QED
          BY <3>1, <4>1 DEF LoopEnds
      <3>3. ReadBistStep
        BY <1>1, <3>1, <3>2 DEF Next, HWResetStep, AutoAddress, Write, Writes, GetBoardType,
           GetPllFreq2Idx, SetPllConfigByIdx, DistributionNonce, CheckCores, CheckNumChips, CheckId,
           ReadAndCompare, End, At
      <3>4. PICK n \in 0 .. Cores :
              /\ numCores' = [numCores EXCEPT ![a] = [cores |-> n, chip |-> ChipAt(a)]]
              /\ ChipAt(a) # 0 /\ chip[ChipAt(a)].clock # "off" => n = chip[ChipAt(a)].found
        BY <3>1, <3>3 DEF ReadBistStep, GoWrong
      <3>5. a \in DOMAIN numCores
        BY DEF TypeInv, Addresses
      <3>6. numCores'[a].chip = ChipAt(a) /\ numCores'[a].cores = n
        BY <3>4, <3>5
      <3>7. CASE ChipAt(a) = 0
        BY <3>6, <3>7 DEF Dead
      <3>8. CASE ChipAt(a) # 0
        <4>1. ChipAt(a) \in Reach /\ ChipAt(a) \in Chips
          <5>1. Hit(a) # {} /\ ChipAt(a) = Max(Hit(a))
            BY <3>8 DEF ChipAt
          <5>2. Hit(a) \subseteq 0 .. Size /\ Size \in Nat /\ Chips = 1 .. Size
                  /\ Hit(a) \subseteq 1 .. Size
            <6>1. Chain /\ Size \in Nat
              BY Bounds DEF TypeInv, Chain
            <6>2. Hit(a) \subseteq 1 .. Size /\ Chips = 1 .. Size
              BY <6>1, Geometry
            <6>3. QED
              BY <6>1, <6>2
          <5>3. Max(Hit(a)) \in Hit(a)
            BY <5>1, <5>2, MaxFacts
          <5>4. QED
            BY <5>1, <5>2, <5>3 DEF Hit
        <4>2. chip[ChipAt(a)].clock # "off"
          BY <1>2, <4>1 DEF Lit
        <4>3. chip[ChipAt(a)].found = 0 => health[ChipAt(a)] = 0
          BY <1>2, <2>5, <4>1 DEF BistInv
        <4>4. QED
          BY <1>2, <3>4, <3>6, <4>2, <4>3 DEF Dead
      <3>9. QED
        BY <3>7, <3>8
    <2>6. CASE FoundAt(Programs[run], pc, a) /\ ~Rereads(Now, a)
      <3>1. numCores'[a] = numCores[a]
        <4>1. CASE ReadBistStep
          <5>1. Now.to # a
            BY <2>6, <4>1 DEF Rereads, ReadBistStep, At
          <5>2. PICK n \in 0 .. Cores :
                  numCores' = [numCores EXCEPT ![Now.to] = [cores |-> n, chip |-> ChipAt(Now.to)]]
            BY <1>4, <4>1 DEF ReadBistStep, GoesOn, Finish
          <5>3. a \in DOMAIN numCores
            BY DEF TypeInv, Addresses
          <5>4. QED
            BY <5>1, <5>2, <5>3
        <4>2. QED
          BY <1>1, <4>1, Frame
      <3>2. Dead(a)
        BY <1>2, <2>4, <2>6 DEF FoundInv
      <3>3. QED
        BY <1>2, <3>1, <3>2 DEF Dead
    <2>7. QED
      BY <2>1, <2>5, <2>6
  <1>5. QED
    BY <1>1, <1>3, <1>4, Stepping

\* The program divides by zero only if every count is zero.
LEMMA CrashStep ==
  ASSUME TypeInv, FoundInv, NoCrash, Next
  PROVE  NoCrash'
  <1> SUFFICES ASSUME result' = "crashed", fault' = "none", NEW a \in 1 .. MaxChips,
                      Address(a)', numCores'[a].chip # 0
               PROVE  health'[numCores'[a].chip] = 0
    BY DEF NoCrash
  <1>1. ~Again
    BY DEF Again
  <1>2. run' = run /\ health' = health /\ fault = "none" /\ result = "running" /\ Stops
        /\ pc \in 1 .. Len(Programs[run]) /\ Now = Programs[run][pc]
    BY <1>1, Stepping DEF GoesOn
  <1>3. numChips' = numChips /\ numCores' = numCores
    BY <1>2, Stopping
  <1>4. DistributionNonce /\ SumOfCores = 0
    <2>1. Now.cmd = "END" => Now.arg # "crashed"
      BY NowFacts
    <2>2. DistributionNonce
      BY <1>1, <2>1 DEF Next, HWResetStep, AutoAddress, Write, GetBoardType, GetPllFreq2Idx,
         SetPllConfigByIdx, ReadBistStep, CheckCores, CheckNumChips, CheckId, ReadAndCompare,
         LoopEnds, End, At, Advance, Finish, GoWrong
    <2>3. QED
      BY <1>2, <2>2 DEF DistributionNonce, Advance
  <1>5. Now.cmd = "DISTRIBUTE"
    BY <1>4 DEF DistributionNonce, At
  <1>6. run.fault = 0 /\ FoundAt(Programs[run], pc, a) /\ a \in Addresses
    <2>1. run \in Invocations /\ a \in Addresses
      BY DEF TypeInv, Addresses
    <2>2. run.fault = 0
      BY <1>2, <1>5, <2>1, NoCut
    <2>3. Counted(Programs[run])
      BY <2>1, <2>2, ProgramFacts
    <2>4. QED
      BY <1>2, <1>5, <2>1, <2>2, <2>3 DEF Counted
  <1>7. Address(a)
    BY <1>3 DEF Address
  <1>8. numCores[a].cores = 0
    <2> DEFINE S == {c \in Addresses \X (1 .. Cores) : Address(c[1])
          /\ c[2] <= numCores[c[1]].cores}
    <2>1. IsFiniteSet(Addresses \X (1 .. Cores))
      <3>1. IsFiniteSet(Addresses) /\ IsFiniteSet(1 .. Cores)
        BY FS_Interval, BringupAssumption DEF Addresses
      <3>2. QED
        BY <3>1, FS_Product
    <2>2. IsFiniteSet(S)
      BY <2>1, FS_Subset
    <2>3. S = {}
      BY <1>4, <2>2, FS_EmptySet DEF SumOfCores
    <2>4. <<a, 1>> \notin S
      BY <2>3
    <2>5. numCores[a].cores \in 0 .. Cores /\ Cores \in Nat /\ 1 \in 1 .. Cores
      BY BringupAssumption DEF TypeInv
    <2>6. QED
      BY <1>6, <1>7, <2>4, <2>5
  <1>9. QED
    BY <1>2, <1>3, <1>6, <1>7, <1>8 DEF FoundInv, Dead

-----------------------------------------------------------------------------
(* The invariant, and what follows from it.                                 *)

\* The inductive invariant.
IInv ==
  /\ TypeInv /\ NumInv /\ CountInv /\ JudgeInv
  /\ Lit /\ FillInv /\ BistInv /\ FoundInv /\ NoCrash

LEMMA InvInit == Init => IInv
  <1> SUFFICES ASSUME Init PROVE IInv
    OBVIOUS
  <1>1. TypeInv
    BY TypeInit
  <1>2. pc = 1 /\ result = "running"
    BY DEF Init
  <1>3. ~NumberedAt(Programs[run], pc) /\ \A a \in Addresses : ~CountedAt(Programs[run], pc, a)
    <2> DEFINE p == Programs[run]
    <2>1. ~NumberedAt(p, 1) /\ \A a \in Addresses : ~CountedAt(p, 1, a)
      <3> HIDE DEF p
      <3>1. 1 \in Nat \ {0}
        OBVIOUS
      <3>2. QED
        BY <3>1, OneMore
    <2>2. QED
      BY <1>2, <2>1
  <1>4. NumInv /\ CountInv
    BY <1>3 DEF NumInv, CountInv
  <1>5. JudgeInv
    BY <1>2 DEF JudgeInv, NoLast, AllChips, Judged
  <1>6. Lit
    <2>1. PICK n \in 1 .. MaxChips : health \in [1 .. n -> 0 .. Cores]
                 /\ chip = [p \in 1 .. n |-> Reset]
      BY DEF Init
    <2>2. Chips = 1 .. n
      BY <2>1 DEF Chips
    <2>3. Reset.clock # "off"
      BY DEF Reset
    <2>4. QED
      BY <2>1, <2>2, <2>3 DEF Lit
  <1>7. (\A c : ~Filled(c)) /\ ~BistAt(Programs[run], pc) /\ (\A a : ~FoundAt(Programs[run], pc, a))
    <2> DEFINE p == Programs[run]
    <2>1. (\A c : ~FilledAt(p, 1, c)) /\ ~BistAt(p, 1) /\ (\A a : ~FoundAt(p, 1, a))
      <3> HIDE DEF p
      <3>1. QED
        BY NothingYet
    <2>2. QED
      BY <1>2, <2>1 DEF Filled
  <1>8. FillInv /\ BistInv /\ FoundInv
    BY <1>7 DEF FillInv, BistInv, FoundInv
  <1>9. NoCrash
    BY <1>2 DEF NoCrash
  <1>10. QED
    BY <1>1, <1>4, <1>5, <1>6, <1>8, <1>9 DEF IInv

LEMMA InvNext == IInv /\ [Next]_vars => IInv'
  <1> SUFFICES ASSUME IInv, [Next]_vars PROVE IInv'
    OBVIOUS
  <1>1. CASE Next
    BY <1>1, TypeNext, NumStep, CountStep, JudgeStep, LitStep, FillStep, BistStep, FoundStep,
       CrashStep DEF IInv
  <1>2. CASE UNCHANGED vars
    <2>0. /\ run' = run /\ pc' = pc /\ result' = result /\ fault' = fault /\ health' = health
          /\ chip' = chip /\ numChips' = numChips /\ numCores' = numCores
      BY <1>2 DEF vars, world, handle
    <2>1. Chips' = Chips /\ Size' = Size /\ LastChip' = LastChip /\ Reach' = Reach
      BY <2>0 DEF Chips, Size, LastChip, Reach
    <2>2. TypeInv'
      BY <1>2, TypeNext DEF IInv
    <2>3. NumInv'
      BY <2>0, <2>1 DEF IInv, NumInv, Numbered, First
    <2>4. CountInv'
      BY <2>0, <2>1 DEF IInv, CountInv, First, Address
    <2>5. JudgeInv'
      BY <2>0, <2>1 DEF IInv, JudgeInv, NoLast, AllChips, Judged, Uncompared
    <2>6. Lit' /\ FillInv' /\ BistInv'
      BY <2>0, <2>1 DEF IInv, Lit, FillInv, Filled, BistInv
    <2>7. FoundInv' /\ NoCrash'
      BY <2>0 DEF IInv, FoundInv, Dead, Address, NoCrash
    <2>8. QED
      BY <2>2, <2>3, <2>4, <2>5, <2>6, <2>7 DEF IInv
  <1>3. QED
    BY <1>1, <1>2

LEMMA InvCores == IInv => CoresMatch
  <1> SUFFICES ASSUME IInv, Now.cmd \in {"DISTRIBUTE", "CHECK_CORES"},
                      ~(run.test = "TestDisableCore" /\ run.fault > 1),
                      NEW a \in 1 .. MaxChips, Address(a)
               PROVE  numCores[a].chip = ChipAt(a) /\ ChipAt(a) # 0
    BY DEF CoresMatch
  <1>1. TypeInv /\ NumInv /\ CountInv /\ a \in Addresses
    BY DEF IInv, Addresses
  <1>2. pc \in 1 .. Len(Programs[run]) /\ pc \in Nat \ {0} /\ Now = Programs[run][pc]
          /\ run \in Invocations
    <2>1. Len(Programs[run]) \in Nat
      BY <1>1, NowFacts DEF IsProgram
    <2>2. QED
      BY <1>1, <2>1 DEF TypeInv, Now
  <1>3. Counted(Programs[run])
    BY <1>2, ProgramFacts
  <1>4. CountedAt(Programs[run], pc, a)
    BY <1>1, <1>2, <1>3 DEF Counted, Uses
  <1>5. NumberedAt(Programs[run], pc)
    <2> DEFINE p == Programs[run]
    <2>1. CountedAt(p, pc, a) => NumberedAt(p, pc)
      <3> HIDE DEF p
      <3>1. QED
        BY <1>1, <1>2, OneMore
    <2>2. QED
      BY <1>4, <2>1
  <1>6. numChips >= 1 /\ numChips \in -1 .. MaxChips /\ Chain
    BY <1>1, Bounds DEF Address, TypeInv
  <1>7. Numbered
    BY <1>1, <1>5, <1>6 DEF NumInv
  <1>8. ChipAt(a) = First + a - 1 /\ First + a - 1 \in 1 .. Size
    BY <1>1, <1>6, <1>7, Addressed
  <1>9. numCores[a].chip = First + a - 1
    BY <1>1, <1>4 DEF CountInv
  <1>10. Size \in Nat
    BY <1>6, Bounds DEF Chain
  <1>11. QED
    BY <1>8, <1>9, <1>10

LEMMA InvVerdict == IInv => VerdictSound
  <1> SUFFICES ASSUME IInv, result = "passed", run.test \in RegisterTests, numChips >= 1,
                      fault = "none" \/ run.test \in MustTests, NEW p \in Reach
               PROVE  health[p] > 0
    BY DEF VerdictSound, MustTests
  <1>1. TypeInv /\ Judged /\ pc = Len(Programs[run])
    BY DEF IInv, JudgeInv
  <1>2. run \in Invocations
    BY <1>1 DEF TypeInv
  <1>3. IsProgram(Programs[run]) /\ Judges(Programs[run], run.test \in MustTests)
    BY <1>2, ProgramFacts
  <1>4. pc \in Nat /\ pc >= 3
    BY <1>1, <1>3 DEF IsProgram, Judges
  <1>5. p \in Chips
    <2>1. Chain
      BY <1>1 DEF TypeInv
    <2>2. Size \in Nat
      BY <2>1, Bounds DEF Chain
    <2>3. Reach = LastChip .. Size /\ LastChip \in 1 .. Size /\ Chips = 1 .. Size
      BY <2>1, Geometry
    <2>4. QED
      BY <2>2, <2>3
  <1>6. health[p] > 0 \/ Uncompared(p)
    BY <1>1, <1>4, <1>5 DEF Judged
  <1>7. ~Uncompared(p)
    <2>1. \A k \in pc .. Len(Programs[run]) : k = pc
      BY <1>1, <1>4
    <2>2. Programs[run][pc].cmd = "END"
      BY <1>1, <1>3 DEF IsProgram, IsEnd, Command
    <2>3. QED
      BY <2>1, <2>2 DEF Uncompared, Hard
  <1>8. QED
    BY <1>6, <1>7

\* The inductive invariant holds.
THEOREM Invariant == Spec => []IInv
  <1>1. QED
    BY InvInit, InvNext, PTL DEF Spec

\* The counts by which the nonces are distributed (SimpleWork.c:276) and the boards judged
\* (SingleCommand.c:729) are of the chips that have the addresses now, whatever is lost, except in
\* TestDisableCore with a fault chip above 1.
THEOREM CountsAreCurrent == Spec => []CoresMatch
  <1>1. QED
    BY Invariant, InvCores, PTL

\* A register test passes no broken chip while transfers get through, and three of them do
\* not even when one fails (SingleCommand.c).
THEOREM VerdictIsSound == Spec => []VerdictSound
  <1>1. QED
    BY Invariant, InvVerdict, PTL

\* DistributionNonce divides by zero (Btc08.c:1265) only on a board without a working core,
\* as long as nothing goes wrong.
THEOREM NoDivisionByZero == Spec => []NoCrash
  <1>1. IInv => NoCrash
    BY DEF IInv
  <1>2. QED
    BY <1>1, Invariant, PTL

=============================================================================
