-------------------------- MODULE BringupJobsProofs --------------------------
(***************************************************************************)
(* What the tests of Bringup have made sure of when they mine, for a board  *)
(* of any size and any number of cores.  The state at that point is the     *)
(* work of many commands far apart, so an account is kept of all that is    *)
(* known at each command of a program.  The first half shows that what is   *)
(* known is true; the second half goes through the programs, piece by       *)
(* piece, and finds what is known at their end.                             *)
(***************************************************************************)
EXTENDS BringupProofs

-----------------------------------------------------------------------------
(* What is known at each command of a program.  A fact is about the handle, about *)
(* the board, or about a register of the chips with an address (all of them for   *)
(* address 0); a program is annotated with the facts that follow, command by       *)
(* command, from those before.                                                    *)

Fact(is, at, arg) == [is |-> is, at |-> at, arg |-> arg]

WHOLE    == Fact("whole", 0, "")
NUMBERED == Fact("numbered", 0, "")
ANSWERED == Fact("answered", 0, "")
ON       == Fact("on", 0, "")
SANE     == Fact("sane", 0, "")
TOP      == Fact("top", 0, "")
Dist(range)   == Fact("dist", 0, range)
Checked(what) == Fact("checked", 0, what)
Fresh(a)      == Fact("fresh", a, "")
Job(n)        == Fact("RUN_JOB", 0, n)
Bist(a, mask) == Fact("RUN_BIST", a, mask)
Oon(a)        == Fact("SET_CONTROL", a, "")
Clock(a)      == Fact("SET_PLL", a, "")
Unclocked     == Fact("PLL_OFF", 0, "")
Share(a)      == Fact("WRITE_NONCE", a, "share")

\* The facts about registers, by the command that writes them.
Plainly == {"WRITE_PARAM", "WRITE_TARGET", "SET_DISABLE", "WRITE_NONCE"}
PerChip == Plainly \cup {"SET_CONTROL", "SET_PLL", "PLL_OFF", "RUN_BIST", "WRITE_CORE_CFG",
                         "RUN_JOB"}

\* Chip q is as f says.
OfChip(q, f) ==
  /\ f.is = "WRITE_PARAM" => chip[q].param = f.arg
  /\ f.is = "WRITE_TARGET" => chip[q].target = f.arg
  /\ f.is = "SET_DISABLE" => chip[q].mask = f.arg
  /\ f.is = "WRITE_NONCE" =>
       chip[q].nonce = IF f.arg = "share" THEN [dist EXCEPT !.part = chip[q].addr] ELSE Whole(f.arg)
  /\ f.is = "SET_CONTROL" => chip[q].oon
  /\ f.is = "SET_PLL" => (board = "ASIC" => chip[q].clock = "set")
  /\ f.is = "PLL_OFF" => (board = "ASIC" => chip[q].clock = "set" \/ chip[q].addr = 1)
  /\ f.is = "RUN_BIST" => chip[q].found = Min({health[q], Cores - Disabled(f.arg)})
  /\ f.is = "WRITE_CORE_CFG" => chip[q].found = Cores - Disabled(f.arg)
  /\ f.is = "RUN_JOB" => chip[q].jobs = f.arg

Expected == Cores - Disabled(run.mask)

\* The fact f is true.
Holds(f) ==
  /\ f.is = "whole" => \A q \in Chips : (chip[q].last => q = 1) /\ chip[q].addr \in {0, q}
  /\ f.is = "numbered" => (numChips >= 1 => Numbered /\ LastChip = First)
  /\ f.is = "answered" => numChips >= 1
  /\ f.is = "on" => \A q \in Chips : chip[q].clock # "off"
  /\ f.is = "sane" => \A q \in Chips : chip[q].found <= health[q]
  /\ f.is = "top" => chip[LastChip].oon
  /\ f.is = "dist" => dist = [range |-> f.arg, part |-> 0, of |-> numChips]
  /\ f.is = "checked" => IF f.arg = "each" THEN AllCores(Expected)
                                           ELSE SumOfCores = numChips * Expected
  /\ f.is = "fresh" =>
       (f.at \in Chips /\ Address(f.at) /\ chip[f.at].clock # "off" =>
          numCores[f.at].cores = chip[f.at].found)
  /\ f.is \in PerChip => \A q \in Reach : f.at \in {0, chip[q].addr} => OfChip(q, f)

\* Where a lost transfer or a BIST that is late makes no difference.
Robust == {"whole", "numbered", "sane", "fresh", "checked"}

\* A register that all addresses have, all chips have; and the other way round.
Full(G) ==
  G \cup {f \in {Fact(g.is, 0, g.arg) : g \in G} :
            NUMBERED \in G /\ ANSWERED \in G /\ f.is \in PerChip
            /\ \A a \in Addresses : Fact(f.is, a, f.arg) \in G}
    \cup {Fact(g.is, a, g.arg) : g \in {h \in G : h = Fact(h.is, 0, h.arg) /\ h.is \in PerChip},
                                 a \in Addresses}

\* Command s is not left out; it goes to the chips at address a, all chips for address 0.
Sure(s, G) == s.need = -1 \/ (s.need = 1 /\ ANSWERED \in G)

SentTo(s, G, a) ==
  \/ s.to = 0 /\ Sure(s, G)
  \/ a >= 1 /\ s.to = a /\ s.need <= a /\ NUMBERED \in G /\ ANSWERED \in G

\* It does not go there.
Elsewhere(s, f) == s.to >= 1 /\ f.at >= 1 /\ s.to # f.at

\* SET_CONTROL brings no chip back on the chain.
NoneBack(s, G) ==
  \/ s.arg.last \/ WHOLE \in G
  \/ s.to >= 2 /\ NUMBERED \in G /\ ANSWERED \in G

GoldenFor(G, a, mask) ==
  /\ Fact("WRITE_PARAM", a, "golden") \in G /\ Fact("WRITE_TARGET", a, "golden") \in G
  /\ Fact("WRITE_NONCE", a, "golden") \in G /\ Fact("SET_DISABLE", a, mask) \in G

\* What command s makes true where the facts G are.
Gains(s, G, f) ==
  /\ f.is \in {"whole", "on", "sane"} => s.cmd = "HW_RESET" /\ s.need = -1
  /\ f.is \in {"numbered", "answered"} => s.cmd = "AUTO_ADDRESS" /\ s.need = -1
  /\ f.is = "top" =>
       /\ s.cmd = "SET_CONTROL" /\ s.arg.oon /\ s.arg.last /\ s.to = LastOrTop /\ s.need = -1
       /\ NUMBERED \in G /\ ANSWERED \in G
  /\ f.is = "dist" => s.cmd = "DISTRIBUTE" /\ s.need = -1 /\ f.arg = s.arg
  /\ f.is = "checked" => s.cmd = "CHECK_CORES" /\ s.need = -1 /\ f.arg = s.arg
  /\ f.is = "fresh" =>
       s.cmd = "READ_BIST" /\ s.to = f.at /\ s.need = s.to /\ WHOLE \in G /\ NUMBERED \in G
  /\ f.is \in Plainly \cup {"WRITE_CORE_CFG"} =>
       s.cmd = f.is /\ s.arg = f.arg /\ SentTo(s, G, f.at) /\ (s.arg = "share" => s.to >= 1)
  /\ f.is = "SET_CONTROL" =>
       \/ s.cmd = "SET_CONTROL" /\ s.arg.oon /\ SentTo(s, G, f.at) /\ NoneBack(s, G)
       \/ s.cmd = "AUTO_ADDRESS" /\ s.need = -1 /\ f.at = 1 /\ TOP \in G
  /\ f.is = "SET_PLL" => s.cmd = "SET_PLL" /\ SentTo(s, G, f.at)
  /\ f.is = "PLL_OFF" => s.cmd = "PLL_OFF" /\ s.to = 1 /\ Clock(0) \in G
  /\ f.is = "RUN_BIST" =>
       /\ s.cmd = "RUN_BIST" /\ SentTo(s, G, f.at) /\ GoldenFor(G, f.at, f.arg)
       /\ ON \in G \/ f \in G
  /\ f.is = "RUN_JOB" =>
       \/ s.cmd = "HW_RESET" /\ s.need = -1 /\ f.arg = 0
       \/ /\ s.cmd = "RUN_JOB" /\ s.to = 0 /\ s.need = -1
          /\ f.arg \in 1 .. FifoDepth /\ Job(f.arg - 1) \in G

IsShare(f) == f.is = "WRITE_NONCE" /\ f.arg = "share"

\* The facts that it keeps.
KeepsChip(s, G, f) ==
  /\ s.cmd # "HW_RESET"
  /\ s.cmd = "AUTO_ADDRESS" =>
       \/ NUMBERED \in G /\ ANSWERED \in G
       \/ f.at = 0 /\ f.is # "PLL_OFF" /\ ~IsShare(f)
  /\ s.cmd = "SET_CONTROL" => NoneBack(s, G) /\ (f.is = "SET_CONTROL" => s.arg.oon)
  /\ s.cmd = f.is /\ s.cmd \in Plainly \cup {"WRITE_CORE_CFG"} =>
       Elsewhere(s, f) \/ (s.arg = f.arg /\ s.arg # "share")
  /\ s.cmd = "DISTRIBUTE" => ~IsShare(f)
  /\ s.cmd = "PLL_OFF" => f.is \notin {"SET_PLL", "PLL_OFF"}
  /\ s.cmd = "RUN_BIST" => f.is # "WRITE_CORE_CFG" /\ (f.is = "RUN_BIST" => Elsewhere(s, f))
  /\ s.cmd = "WRITE_CORE_CFG" => (f.is = "RUN_BIST" => Elsewhere(s, f))
  /\ s.cmd = "RUN_JOB" => f.is # "RUN_JOB"
  /\ s.cmd = "RESET" => (f.is = "RUN_JOB" => f.arg = 0)

Keeps(s, G, f) ==
  /\ f.is = "whole" => (s.cmd = "SET_CONTROL" /\ s.arg.last => s.to = 1)
  /\ f.is = "numbered" =>
       /\ s.cmd # "HW_RESET"
       /\ s.cmd = "SET_CONTROL" => IF s.arg.last THEN s.to = 1 ELSE WHOLE \in G \/ s.to >= 2
  /\ f.is = "on" => s.cmd # "PLL_OFF"
  /\ f.is = "sane" => s.cmd # "WRITE_CORE_CFG"
  /\ f.is # "top"
  /\ f.is = "dist" => s.cmd \notin {"DISTRIBUTE", "AUTO_ADDRESS"}
  /\ f.is = "checked" => s.cmd \notin {"READ_BIST", "AUTO_ADDRESS"}
  /\ f.is = "fresh" =>
       /\ s.cmd \notin {"HW_RESET", "AUTO_ADDRESS", "RUN_BIST", "WRITE_CORE_CFG", "SET_PLL"}
       /\ ~Rereads(s, f.at)
  /\ f.is \in PerChip => KeepsChip(s, G, f)

Follows(s, G, f) == Gains(s, Full(G), f) \/ (f \in Full(G) /\ Keeps(s, Full(G), f))

\* K annotates the first n commands of p.
Annotates(K, p, n) ==
  K[1] = {} /\ \A k \in 1 .. n : \A f \in K[k + 1] : Follows(p[k], K[k], f)

Knows(p, k, f) == \E K : Annotates(K, p, k - 1) /\ f \in K[k]

-----------------------------------------------------------------------------
(* The facts known are true: each command makes true what it is said to.    *)

\* Without a fault a board of ASICs is taken for one.
Recognised == fault = "none" /\ board = "ASIC" => type = "ASIC"

\* A fact that nothing that went wrong concerns.
Trusted(f) == fault = "none" \/ (f.is \in Robust /\ fault # "late")

KnowInv == \A f : Knows(Programs[run], pc, f) /\ Trusted(f) => Holds(f)

\* The facts by their kinds.
LEMMA FactKinds ==
  /\ Holds(WHOLE) <=> \A q \in Chips : (chip[q].last => q = 1) /\ chip[q].addr \in {0, q}
  /\ Holds(NUMBERED) <=> (numChips >= 1 => Numbered /\ LastChip = First)
  /\ Holds(ANSWERED) <=> numChips >= 1
  /\ Holds(ON) <=> \A q \in Chips : chip[q].clock # "off"
  /\ Holds(SANE) <=> \A q \in Chips : chip[q].found <= health[q]
  /\ Holds(TOP) <=> chip[LastChip].oon
  /\ WHOLE.is \in Robust /\ NUMBERED.is \in Robust
  /\ \A is \in PerChip : \A at, arg :
       Holds(Fact(is, at, arg)) <=>
         \A q \in Reach : at \in {0, chip[q].addr} => OfChip(q, Fact(is, at, arg))
  <1> USE DEF Holds, Fact, PerChip, Plainly
  <1>1. /\ Holds(WHOLE) <=> \A q \in Chips : (chip[q].last => q = 1) /\ chip[q].addr \in {0, q}
        /\ Holds(NUMBERED) <=> (numChips >= 1 => Numbered /\ LastChip = First)
        /\ Holds(ANSWERED) <=> numChips >= 1
    BY DEF WHOLE, NUMBERED, ANSWERED
  <1>2. /\ Holds(ON) <=> \A q \in Chips : chip[q].clock # "off"
        /\ Holds(SANE) <=> \A q \in Chips : chip[q].found <= health[q]
        /\ Holds(TOP) <=> chip[LastChip].oon
    BY DEF ON, SANE, TOP
  <1>3. WHOLE.is \in Robust /\ NUMBERED.is \in Robust
    BY DEF WHOLE, NUMBERED, Robust
  <1>4. ASSUME NEW is \in PerChip, NEW at, NEW arg
        PROVE  Holds(Fact(is, at, arg)) <=>
                 \A q \in Reach : at \in {0, chip[q].addr} => OfChip(q, Fact(is, at, arg))
    <2> DEFINE f == Fact(is, at, arg)
    <2>1. f.is = is /\ f.at = at
      OBVIOUS
    <2> HIDE DEF f
    <2>2. Holds(f) <=> \A q \in Reach : f.at \in {0, chip[q].addr} => OfChip(q, f)
      BY <2>1 DEF PerChip, Plainly
    <2>3. QED
      BY <2>1, <2>2 DEF f
  <1>5. QED
    BY <1>1, <1>2, <1>3, <1>4

\* A fact about all addresses is one about all chips.
LEMMA OfChipAt ==
  ASSUME NEW q, NEW f, NEW g, f.is = g.is, f.arg = g.arg, OfChip(q, g)
  PROVE  OfChip(q, f)
  BY DEF OfChip

\* Facts about every address are facts about every chip, and the other way round.
LEMMA Closure ==
  ASSUME TypeInv, NEW G, \A g \in G : Trusted(g) => Holds(g), NEW f \in Full(G), Trusted(f)
  PROVE  Holds(f)
  <1>1. CASE f \in G
    BY <1>1
  <1>2. ASSUME NEW g \in G, f = Fact(g.is, 0, g.arg), NUMBERED \in G, ANSWERED \in G,
               f.is \in PerChip, \A a \in Addresses : Fact(f.is, a, f.arg) \in G
        PROVE  Holds(f)
    <2>1. fault = "none"
      BY <1>2 DEF Trusted, Robust, PerChip, Plainly
    <2>2. Holds(NUMBERED) /\ Holds(ANSWERED) /\ \A a \in Addresses : Holds(Fact(f.is, a, f.arg))
      BY <1>2, <2>1 DEF Trusted
    <2>3. Numbered /\ LastChip = First /\ numChips >= 1
      BY <2>2, FactKinds
    <2>4. Chain /\ Size \in Nat /\ numChips \in Nat /\ numChips <= Size /\ Size <= MaxChips
          /\ MaxChips \in Nat
      BY <2>3, Bounds DEF TypeInv, Chain, Numbered
    <2>5. Reach = First .. Size
      BY <2>3, <2>4, Geometry
    <2>6. ASSUME NEW q \in Reach PROVE OfChip(q, f)
      <3>1. chip[q].addr = q - First + 1
        BY <2>3, <2>5 DEF Numbered
      <3>2. chip[q].addr \in Addresses
        BY <2>3, <2>4, <2>5, <3>1 DEF First, Addresses
      <3>3. OfChip(q, Fact(f.is, chip[q].addr, f.arg))
        BY <1>2, <2>2, <3>2, FactKinds
      <3>4. QED
        BY <3>3, OfChipAt DEF Fact
    <2>7. Holds(Fact(f.is, 0, f.arg))
      BY <1>2, <2>6, FactKinds DEF Fact
    <2>8. QED
      BY <1>2, <2>7 DEF Fact
  <1>3. ASSUME NEW g \in G, NEW a \in Addresses, f = Fact(g.is, a, g.arg),
               g = Fact(g.is, 0, g.arg), g.is \in PerChip
        PROVE  Holds(f)
    <2>1. fault = "none"
      BY <1>3 DEF Trusted, Robust, PerChip, Plainly, Fact
    <2>2. Holds(g)
      BY <1>3, <2>1 DEF Trusted
    <2>3. \A q \in Reach : OfChip(q, g)
      <3>1. g.at = 0
        BY <1>3 DEF Fact
      <3>2. QED
        BY <1>3, <2>2, <3>1 DEF Holds
    <2>4. \A q \in Reach : OfChip(q, f)
      BY <1>3, <2>3, OfChipAt DEF Fact
    <2>5. QED
      BY <1>3, <2>4, FactKinds
  <1>4. QED
    BY <1>1, <1>2, <1>3 DEF Full

\* What a step that goes on does, by its command.
LEMMA Doing ==
  ASSUME TypeInv, Next, ~Again, GoesOn
  PROVE  /\ run' = run /\ board' = board /\ health' = health /\ Now \in Steps
         /\ LoopEnds => Now.need > numChips /\ chip' = chip /\ numChips' = numChips
                        /\ numCores' = numCores /\ dist' = dist /\ fault' = fault
         /\ ~LoopEnds =>
              /\ Now.need <= numChips
              /\ Now.cmd = "HW_RESET" => HWResetStep
              /\ Now.cmd = "AUTO_ADDRESS" => AutoAddress
              /\ Now.cmd \in Writes => Write
              /\ Now.cmd = "SET_PLL" => SetPllConfigByIdx
              /\ Now.cmd = "READ_BIST" => ReadBistStep
              /\ Now.cmd = "DISTRIBUTE" => DistributionNonce
              /\ Now.cmd = "CHECK_CORES" => CheckCores
         /\ Now.need = -1 => ~LoopEnds
         /\ Now.need \in Int /\ numChips \in Int
         /\ Now.cmd \notin {"HW_RESET", "AUTO_ADDRESS", "SET_PLL"} \cup Writes => chip' = chip
         /\ Now.cmd # "AUTO_ADDRESS" => numChips' = numChips
         /\ Now.cmd # "READ_BIST" => numCores' = numCores
         /\ Now.cmd # "DISTRIBUTE" => dist' = dist
  <1>1. run' = run /\ board' = board /\ health' = health /\ Now \in Steps
    BY Frame DEF SameTest
  <1>2. LoopEnds => Now.need > numChips /\ chip' = chip /\ numChips' = numChips
                      /\ numCores' = numCores /\ dist' = dist /\ fault' = fault
    BY DEF LoopEnds, handle, Fine
  <1>3. Now.need \in -1 .. MaxChips + 1 /\ numChips \in -1 .. MaxChips
    BY NowFacts DEF TypeInv
  <1>4. Now.need \in Int /\ numChips \in Int /\ (Now.need = -1 => ~LoopEnds)
    BY <1>3, Bounds DEF LoopEnds
  <1>5. ASSUME ~LoopEnds
        PROVE  /\ Now.need <= numChips
               /\ Now.cmd = "HW_RESET" => HWResetStep
               /\ Now.cmd = "AUTO_ADDRESS" => AutoAddress
               /\ Now.cmd \in Writes => Write
               /\ Now.cmd = "SET_PLL" => SetPllConfigByIdx
               /\ Now.cmd = "READ_BIST" => ReadBistStep
               /\ Now.cmd = "DISTRIBUTE" => DistributionNonce
               /\ Now.cmd = "CHECK_CORES" => CheckCores
    BY <1>4, <1>5 DEF Next, HWResetStep, AutoAddress, Write, Writes, GetBoardType, GetPllFreq2Idx,
       SetPllConfigByIdx, ReadBistStep, DistributionNonce, CheckCores, CheckNumChips, CheckId,
       ReadAndCompare, End, At
  <1>6. /\ Now.cmd \notin {"HW_RESET", "AUTO_ADDRESS", "SET_PLL"} \cup Writes => chip' = chip
        /\ Now.cmd # "AUTO_ADDRESS" => numChips' = numChips
        /\ Now.cmd # "READ_BIST" => numCores' = numCores
        /\ Now.cmd # "DISTRIBUTE" => dist' = dist
    BY Frame DEF HWResetStep, AutoAddress, Write, SetPllConfigByIdx, ReadBistStep,
       DistributionNonce, At
  <1>7. QED
    BY <1>1, <1>2, <1>4, <1>5, <1>6

\* What a step does to the registers of a chip, by its command.
LEMMA ChipStep ==
  ASSUME TypeInv, Next, ~Again, GoesOn, NEW q \in Chips
  PROVE  /\ Now.cmd \notin {"HW_RESET", "AUTO_ADDRESS"} => chip'[q].addr = chip[q].addr
         /\ Now.cmd \notin {"HW_RESET", "SET_CONTROL"} => chip'[q].last = chip[q].last
         /\ Now.cmd \notin {"HW_RESET", "SET_PLL", "PLL_OFF"} => chip'[q].clock = chip[q].clock
         /\ Now.cmd \notin {"HW_RESET", "RUN_BIST", "WRITE_CORE_CFG"}
              => chip'[q].found = chip[q].found
         /\ \/ chip'[q] = chip[q]
            \/ Now.cmd = "HW_RESET" /\ chip'[q] = Reset
            \/ Now.cmd = "AUTO_ADDRESS" /\ q \in Reach
                 /\ chip'[q] = [chip[q] EXCEPT !.addr = q - LastChip + 1]
            \/ Now.cmd \in Writes /\ q \in Hit(To) /\ chip'[q] = Effect(chip[q], health[q], Now)
            \/ Now.cmd = "SET_PLL" /\ q \in Hit(Now.to)
                 /\ \E clock \in {"power_on", "set", "off"} :
                      /\ chip'[q] = [chip[q] EXCEPT !.clock = clock]
                      /\ fault' = "none" => clock = "set"
  <1>1. Chain /\ Chips = 1 .. Size
    BY Geometry DEF TypeInv
  <1>2. q \in 1 .. Size /\ chip[q] \in ChipStates
    BY <1>1 DEF Chain
  <1>3. \/ chip'[q] = chip[q]
        \/ Now.cmd = "HW_RESET" /\ chip'[q] = Reset
        \/ Now.cmd = "AUTO_ADDRESS" /\ q \in Reach
             /\ chip'[q] = [chip[q] EXCEPT !.addr = q - LastChip + 1]
        \/ Now.cmd \in Writes /\ q \in Hit(To) /\ chip'[q] = Effect(chip[q], health[q], Now)
        \/ Now.cmd = "SET_PLL" /\ q \in Hit(Now.to)
             /\ \E clock \in {"power_on", "set", "off"} :
                  /\ chip'[q] = [chip[q] EXCEPT !.clock = clock]
                  /\ fault' = "none" => clock = "set"
    <2>1. CASE HWResetStep
      BY <2>1 DEF HWResetStep, At
    <2>2. CASE AutoAddress
      BY <2>2 DEF AutoAddress, At
    <2>3. CASE Write
      BY <2>3 DEF Write, At
    <2>4. CASE SetPllConfigByIdx
      <3>1. PICK clock \in {"power_on", "set", "off"} :
              /\ IF type = "FPGA" \/ clock = "set" THEN Fine ELSE GoWrong("lost")
              /\ type = "FPGA" => clock = "set"
              /\ chip' = [p \in Chips |->
                   IF type = "ASIC" /\ p \in Hit(Now.to)
                     /\ ~(clock = "power_on" /\ chip[p].clock = "set")
                     THEN [chip[p] EXCEPT !.clock = clock] ELSE chip[p]]
        BY <2>4 DEF SetPllConfigByIdx
      <3>2. Now.cmd = "SET_PLL"
        BY <2>4 DEF SetPllConfigByIdx, At
      <3>3. fault' = "none" => clock = "set"
        BY <3>1 DEF GoWrong
      <3>4. chip'[q] = chip[q] \/ (q \in Hit(Now.to) /\ chip'[q] = [chip[q] EXCEPT !.clock = clock])
        BY <3>1
      <3>5. QED
        BY <3>2, <3>3, <3>4
    <2>5. QED
      BY <2>1, <2>2, <2>3, <2>4, Frame
  <1>4. \A e : e = Effect(chip[q], health[q], Now) =>
          /\ e.addr = chip[q].addr
          /\ Now.cmd # "SET_CONTROL" => e.last = chip[q].last
          /\ Now.cmd # "PLL_OFF" => e.clock = chip[q].clock
          /\ Now.cmd \notin {"RUN_BIST", "WRITE_CORE_CFG"} => e.found = chip[q].found
    BY DEF Effect
  <1>5. \A a : \A e : e = [chip[q] EXCEPT !.addr = a] =>
          e.last = chip[q].last /\ e.clock = chip[q].clock /\ e.found = chip[q].found
    BY <1>2 DEF ChipStates
  <1>6. \A a : \A e : e = [chip[q] EXCEPT !.clock = a] =>
          e.last = chip[q].last /\ e.addr = chip[q].addr /\ e.found = chip[q].found
    BY <1>2 DEF ChipStates
  <1>7. /\ Now.cmd \notin {"HW_RESET", "AUTO_ADDRESS"} => chip'[q].addr = chip[q].addr
        /\ Now.cmd \notin {"HW_RESET", "SET_CONTROL"} => chip'[q].last = chip[q].last
        /\ Now.cmd \notin {"HW_RESET", "SET_PLL", "PLL_OFF"} => chip'[q].clock = chip[q].clock
        /\ Now.cmd \notin {"HW_RESET", "RUN_BIST", "WRITE_CORE_CFG"}
             => chip'[q].found = chip[q].found
    BY <1>3, <1>4, <1>5, <1>6
  <1>8. QED
    BY <1>3, <1>7

\* The command of a write that is sent, and without a fault reaches its chips.
LEMMA Sent ==
  ASSUME TypeInv, Next, ~Again, GoesOn, fault' = "none", ~LoopEnds, NEW q \in Chips
  PROVE  /\ Now.cmd \in Writes /\ q \in Hit(To) => chip'[q] = Effect(chip[q], health[q], Now)
         /\ Now.cmd = "SET_PLL" /\ q \in Hit(Now.to) /\ type = "ASIC" =>
              chip'[q] = [chip[q] EXCEPT !.clock = "set"]
         /\ Now.cmd = "AUTO_ADDRESS" =>
              /\ numChips' = NumberOfChips
              /\ chip'[q] = IF q \in Reach THEN [chip[q] EXCEPT !.addr = q - LastChip + 1]
                                           ELSE chip[q]
         /\ Now.cmd = "HW_RESET" => chip'[q] = Reset
  <1>1. ASSUME Now.cmd \in Writes, q \in Hit(To) PROVE chip'[q] = Effect(chip[q], health[q], Now)
    <2>1. Write
      BY <1>1, Doing
    <2>2. QED
      BY <1>1, <2>1, BringupAssumption DEF Write, GoWrong
  <1>2. ASSUME Now.cmd = "SET_PLL", q \in Hit(Now.to), type = "ASIC"
        PROVE  chip'[q] = [chip[q] EXCEPT !.clock = "set"]
    <2>1. SetPllConfigByIdx
      BY <1>2, Doing
    <2>2. PICK clock \in {"power_on", "set", "off"} :
              /\ IF type = "FPGA" \/ clock = "set" THEN Fine ELSE GoWrong("lost")
              /\ chip' = [p \in Chips |->
                   IF type = "ASIC" /\ p \in Hit(Now.to)
                     /\ ~(clock = "power_on" /\ chip[p].clock = "set")
                     THEN [chip[p] EXCEPT !.clock = clock] ELSE chip[p]]
      BY <2>1 DEF SetPllConfigByIdx
    <2>3. clock = "set"
      BY <1>2, <2>2 DEF GoWrong
    <2>4. QED
      BY <1>2, <2>2, <2>3
  <1>3. ASSUME Now.cmd = "AUTO_ADDRESS"
        PROVE  /\ numChips' = NumberOfChips
               /\ chip'[q] = IF q \in Reach THEN [chip[q] EXCEPT !.addr = q - LastChip + 1]
                                            ELSE chip[q]
    <2>1. AutoAddress
      BY <1>3, Doing
    <2>2. QED
      BY <2>1, BringupAssumption DEF AutoAddress, GoWrong
  <1>4. ASSUME Now.cmd = "HW_RESET" PROVE chip'[q] = Reset
    <2>1. HWResetStep
      BY <1>4, Doing
    <2>2. QED
      BY <2>1 DEF HWResetStep
  <1>5. QED
    BY <1>1, <1>2, <1>3, <1>4

\* The board, and the chips that are still on the chain.
OnChain ==
  /\ Chain /\ Chips = 1 .. Size /\ Size \in Nat /\ Size \in 1 .. MaxChips
  /\ LastChip \in 1 .. Size /\ Reach = LastChip .. Size /\ Reach \subseteq Chips
  /\ LastChip = 1 \/ chip[LastChip].last
  /\ \A q \in Chips : chip[q] \in ChipStates /\ (chip[q].last => q <= LastChip)
  /\ Cardinality(Reach) = Size - LastChip + 1

\* The chain of chips in one conclusion.
LEMMA OnBoardAlways == TypeInv => OnChain
  <1> SUFFICES ASSUME TypeInv PROVE OnChain
    OBVIOUS
  <1>1. Chain /\ Size \in Nat /\ Size \in 1 .. MaxChips
    BY Bounds DEF TypeInv, Chain
  <1>2. /\ Chips = 1 .. Size /\ LastChip \in 1 .. Size /\ Reach = LastChip .. Size
        /\ LastChip = 1 \/ chip[LastChip].last
        /\ \A q \in 1 .. Size : chip[q].last => q <= LastChip
        /\ Cardinality(Reach) = Size - LastChip + 1
    BY <1>1, Geometry
  <1>3. \A q \in 1 .. Size : chip[q] \in ChipStates
    BY <1>1 DEF Chain
  <1>4. QED
    BY <1>1, <1>2, <1>3 DEF OnChain

\* The same with its parts.
LEMMA OnBoard ==
  ASSUME TypeInv
  PROVE  /\ Chain /\ Chips = 1 .. Size /\ Size \in Nat /\ Size \in 1 .. MaxChips
         /\ LastChip \in 1 .. Size /\ Reach = LastChip .. Size /\ Reach \subseteq Chips
         /\ LastChip = 1 \/ chip[LastChip].last
         /\ \A q \in Chips : chip[q] \in ChipStates /\ (chip[q].last => q <= LastChip)
         /\ Cardinality(Reach) = Size - LastChip + 1
  BY OnBoardAlways DEF OnChain

\* The same of the next state.
LEMMA OnBoardNext == TypeInv' => OnChain'
  BY OnBoardAlways, PTL

\* A numbered board: chip q has address q - LastChip + 1.
LEMMA OnNumbered ==
  ASSUME TypeInv, numChips >= 1, Numbered, LastChip = First
  PROVE  /\ numChips = Size - LastChip + 1 /\ numChips \in Nat
         /\ \A q \in Reach : chip[q].addr = q - LastChip + 1 /\ chip[q].addr \in 1 .. numChips
  <1>1. numChips \in Int /\ Size \in Nat
    BY OnBoard DEF TypeInv
  <1>2. numChips = Size - LastChip + 1 /\ numChips \in Nat
    BY <1>1, OnBoard DEF First
  <1>3. \A q \in Reach : chip[q].addr = q - LastChip + 1
    BY OnBoard DEF Numbered
  <1>4. QED
    BY <1>1, <1>2, <1>3, OnBoard

\* Only HW_RESET lets the commands reach more chips.
LEMMA ReachShrinks ==
  ASSUME TypeInv, Next, ~Again, GoesOn, Now.cmd # "HW_RESET",
         NEW F, Holds(WHOLE) \/ WHOLE \notin F, Holds(NUMBERED) \/ NUMBERED \notin F,
         Holds(ANSWERED) \/ ANSWERED \notin F,
         Now.cmd = "SET_CONTROL" => NoneBack(Now, F)
  PROVE  Reach' \subseteq Reach /\ Reach \subseteq Chips /\ Reach' \subseteq Chips
         /\ LastChip <= LastChip'
  <1>1. TypeInv' /\ Size' = Size /\ Chips' = Chips
    BY TypeNext, ChainStep
  <1>2. LastChip' \in 1 .. Size /\ Reach' = LastChip' .. Size
        /\ \A q \in Chips : chip'[q].last => q <= LastChip'
    <2>1. /\ LastChip' \in 1 .. Size' /\ Reach' = LastChip' .. Size'
          /\ \A q \in Chips' : chip'[q].last => q <= LastChip'
      BY <1>1, OnBoardNext DEF OnChain
    <2>2. QED
      BY <1>1, <2>1
  <1>3. LastChip \in 1 .. Size /\ Reach = LastChip .. Size /\ Size \in Nat /\ Chips = 1 .. Size
    BY OnBoard
  <1>4. LastChip <= LastChip'
    <2>1. CASE LastChip = 1
      BY <1>2, <1>3, <2>1
    <2>2. CASE LastChip # 1 /\ Now.cmd # "SET_CONTROL"
      <3>1. chip[LastChip].last /\ LastChip \in Chips
        BY <1>3, <2>2, OnBoard
      <3>2. chip'[LastChip].last = chip[LastChip].last
        BY <2>2, <3>1, ChipStep
      <3>3. QED
        BY <1>2, <3>1, <3>2
    <2>3. CASE LastChip # 1 /\ Now.cmd = "SET_CONTROL"
      <3>1. chip[LastChip].last /\ LastChip \in Chips
        BY <1>3, <2>3, OnBoard
      <3>2. WHOLE \notin F
        BY <2>3, <3>1, FactKinds
      <3>3. CASE Now.arg.last
        <4>1. chip'[LastChip] = chip[LastChip]
                \/ chip'[LastChip] = Effect(chip[LastChip], health[LastChip], Now)
          BY <2>3, <3>1, ChipStep
        <4>2. Effect(chip[LastChip], health[LastChip], Now).last = Now.arg.last
          BY <2>3 DEF Effect
        <4>3. chip'[LastChip].last
          BY <3>1, <3>3, <4>1, <4>2
        <4>4. QED
          BY <1>2, <3>1, <4>3
      <3>4. CASE ~Now.arg.last
        <4>1. Now.to >= 2 /\ Numbered /\ LastChip = First /\ numChips >= 1
          BY <2>3, <3>2, <3>4, FactKinds DEF NoneBack
        <4>2. chip[LastChip].addr = 1
          BY <1>3, <4>1, OnNumbered
        <4>3. To = Now.to
          BY <4>1 DEF To, LastOrTop
        <4>4. LastChip \notin Hit(To)
          BY <4>1, <4>2, <4>3 DEF Hit
        <4>5. chip'[LastChip] = chip[LastChip]
          BY <2>3, <3>1, <4>4, ChipStep
        <4>6. QED
          BY <1>2, <3>1, <4>5
      <3>5. QED
        BY <3>3, <3>4
    <2>4. QED
      BY <2>1, <2>2, <2>3
  <1>5. QED
    BY <1>2, <1>3, <1>4

\* A command that is sent to address a reaches the chips there.
LEMMA Reached ==
  ASSUME TypeInv, Next, ~Again, GoesOn,
         NEW F, Holds(NUMBERED) \/ NUMBERED \notin F, Holds(ANSWERED) \/ ANSWERED \notin F,
         NEW a, SentTo(Now, F, a), NEW q \in Reach, a \in {0, chip[q].addr}
  PROVE  ~LoopEnds /\ q \in Hit(To) /\ q \in Hit(Now.to)
  <1>1. Now.need \in Int /\ numChips \in Int
    BY Doing
  <1>2. CASE Now.to = 0 /\ Sure(Now, F)
    <2>1. To = 0
      BY <1>2 DEF To, LastOrTop
    <2>2. q \in Hit(0)
      BY DEF Hit
    <2>3. CASE Now.need = -1
      BY <1>2, <2>1, <2>2, <2>3, Doing
    <2>4. CASE Now.need = 1 /\ ANSWERED \in F
      <3>1. numChips >= 1
        BY <2>4, FactKinds
      <3>2. ~LoopEnds
        BY <1>1, <2>4, <3>1 DEF LoopEnds
      <3>3. QED
        BY <1>2, <2>1, <2>2, <3>2
    <2>5. QED
      BY <1>2, <2>3, <2>4 DEF Sure
  <1>3. CASE a >= 1 /\ Now.to = a /\ Now.need <= a /\ NUMBERED \in F /\ ANSWERED \in F
    <2>1. Numbered /\ LastChip = First /\ numChips >= 1
      BY <1>3, FactKinds
    <2>2. chip[q].addr \in 1 .. numChips
      BY <2>1, OnNumbered
    <2>3. a = chip[q].addr
      BY <1>3
    <2>4. Now.need <= numChips
      BY <1>1, <1>3, <2>2, <2>3
    <2>5. To = Now.to
      BY <1>3 DEF To, LastOrTop
    <2>6. q \in Hit(Now.to)
      BY <1>3, <2>3 DEF Hit
    <2>7. ~LoopEnds
      BY <1>1, <2>4 DEF LoopEnds
    <2>8. QED
      BY <2>5, <2>6, <2>7
  <1>4. QED
    BY <1>2, <1>3 DEF SentTo

\* A write keeps what it does not touch.
LEMMA EffectKeeps ==
  ASSUME NEW F, NEW f, NEW q, KeepsChip(Now, F, f), ~Elsewhere(Now, f), OfChip(q, f),
         Now.cmd \in Writes, chip'[q] = Effect(chip[q], health[q], Now),
         board' = board, health' = health, dist' = dist
  PROVE  OfChip(q, f)'
  <1> DEFINE e == Effect(chip[q], health[q], Now)
  <1>1. /\ e.addr = chip[q].addr
        /\ f.is = "WRITE_PARAM" => e.param = f.arg
        /\ f.is = "WRITE_TARGET" => e.target = f.arg
        /\ f.is = "SET_DISABLE" => e.mask = f.arg
    BY DEF KeepsChip, OfChip, Effect, Plainly
  <1>2. f.is = "WRITE_NONCE" =>
         e.nonce = chip[q].nonce \/ (e.nonce = Whole(f.arg) /\ f.arg # "share")
    BY DEF KeepsChip, Effect, Plainly
  <1>3. f.is = "SET_CONTROL" => e.oon
    BY DEF KeepsChip, OfChip, Effect
  <1>4. /\ f.is = "SET_PLL" => e.clock = chip[q].clock
        /\ f.is = "PLL_OFF" => e.clock = chip[q].clock
    BY DEF KeepsChip, Effect
  <1>5. /\ f.is = "RUN_BIST" => e.found = chip[q].found
        /\ f.is = "WRITE_CORE_CFG" => e.found = Cores - Disabled(f.arg)
    BY DEF KeepsChip, OfChip, Effect, Plainly
  <1>6. f.is = "RUN_JOB" => e.jobs = f.arg
    BY DEF KeepsChip, OfChip, Effect
  <1>7. QED
    <2> HIDE DEF e
    <2>1. chip'[q] = e
      BY DEF e
    <2>2. QED
      BY <1>1, <1>2, <1>3, <1>4, <1>5, <1>6, <2>1 DEF OfChip

\* Nothing that went wrong comes right again.
LEMMA FaultStays ==
  ASSUME Next, ~Again
  PROVE  /\ fault' = "none" => fault = "none"
         /\ fault' # "late" => fault # "late"
         /\ fault' = fault \/ fault = "none"
  BY Frame DEF GoWrong, Fine, HWResetStep, AutoAddress, Write, GetBoardType, GetPllFreq2Idx,
     SetPllConfigByIdx, ReadBistStep, DistributionNonce, CheckCores, CheckNumChips, CheckId,
     ReadAndCompare, LoopEnds, End, Next, At

\* A register of the chips keeps what it is known to hold.
LEMMA ChipKept ==
  ASSUME TypeInv, Next, ~Again, GoesOn, fault' = "none",
         NEW F, \A g \in F : Holds(g), NEW f \in F, f.is \in PerChip, KeepsChip(Now, F, f)
  PROVE  Holds(f)'
  <1>1. Now.cmd # "HW_RESET" /\ (Now.cmd = "SET_CONTROL" => NoneBack(Now, F))
    BY DEF KeepsChip
  <1>2. Reach' \subseteq Reach /\ Reach \subseteq Chips
    BY <1>1, ReachShrinks
  <1>3. board' = board /\ health' = health /\ (Now.cmd # "DISTRIBUTE" => dist' = dist)
    BY Doing
  <1>4. \A q \in Reach : f.at \in {0, chip[q].addr} => OfChip(q, f)
    BY DEF Holds
  <1>5. ASSUME NEW q \in Reach', f.at \in {0, chip'[q].addr} PROVE OfChip(q, f)'
    <2>1. q \in Reach /\ q \in Chips /\ chip[q] \in ChipStates
      BY <1>2, OnBoard
    <2>2. /\ Now.cmd # "AUTO_ADDRESS" => chip'[q].addr = chip[q].addr
          /\ \/ chip'[q] = chip[q]
             \/ Now.cmd = "AUTO_ADDRESS" /\ chip'[q] = [chip[q] EXCEPT !.addr = q - LastChip + 1]
             \/ Now.cmd \in Writes /\ q \in Hit(To) /\ chip'[q] = Effect(chip[q], health[q], Now)
             \/ Now.cmd = "SET_PLL" /\ \E clock \in {"power_on", "set", "off"} :
                  /\ chip'[q] = [chip[q] EXCEPT !.clock = clock]
                  /\ fault' = "none" => clock = "set"
      BY <1>1, <2>1, ChipStep
    <2>3. CASE chip'[q] = chip[q]
      <3>1. OfChip(q, f)
        BY <1>4, <1>5, <2>1, <2>3
      <3>2. CASE dist' = dist
        BY <1>3, <2>3, <3>1, <3>2 DEF OfChip
      <3>3. CASE Now.cmd = "DISTRIBUTE"
        <4>1. ~(f.is = "WRITE_NONCE" /\ f.arg = "share")
          BY <3>3 DEF KeepsChip, IsShare
        <4>2. QED
          BY <1>3, <2>3, <3>1, <4>1 DEF OfChip
      <3>4. QED
        BY <1>3, <3>2, <3>3
    <2>4. CASE Now.cmd = "AUTO_ADDRESS" /\ chip'[q] = [chip[q] EXCEPT !.addr = q - LastChip + 1]
      <3>1. /\ chip'[q].param = chip[q].param /\ chip'[q].target = chip[q].target
            /\ chip'[q].mask = chip[q].mask /\ chip'[q].nonce = chip[q].nonce
            /\ chip'[q].oon = chip[q].oon /\ chip'[q].clock = chip[q].clock
            /\ chip'[q].found = chip[q].found /\ chip'[q].jobs = chip[q].jobs
            /\ chip'[q].addr = q - LastChip + 1
        BY <2>1, <2>4 DEF ChipStates
      <3>2. CASE NUMBERED \in F /\ ANSWERED \in F
        <4>1. chip[q].addr = q - LastChip + 1
          BY <2>1, <3>2, FactKinds, OnNumbered
        <4>2. OfChip(q, f)
          BY <1>4, <1>5, <2>1, <3>1, <4>1
        <4>3. chip'[q].addr = chip[q].addr
          BY <3>1, <4>1
        <4>4. QED
          BY <1>3, <2>4, <3>1, <4>2, <4>3 DEF OfChip
      <3>3. CASE f.at = 0 /\ f.is # "PLL_OFF" /\ ~IsShare(f)
        <4>1. OfChip(q, f)
          BY <1>4, <2>1, <3>3
        <4>2. QED
          BY <1>3, <2>4, <3>1, <3>3, <4>1 DEF OfChip, IsShare
      <3>4. QED
        BY <2>4, <3>2, <3>3 DEF KeepsChip
    <2>5. CASE Now.cmd \in Writes /\ q \in Hit(To) /\ chip'[q] = Effect(chip[q], health[q], Now)
      <3>1. Now.cmd # "AUTO_ADDRESS" /\ Now.cmd # "DISTRIBUTE"
        BY <2>5 DEF Writes
      <3>2. OfChip(q, f)
        BY <1>4, <1>5, <2>1, <2>2, <3>1
      <3>3. ~Elsewhere(Now, f)
        <4>1. SUFFICES ASSUME Now.to >= 1, f.at >= 1, Now.to # f.at PROVE FALSE
          BY DEF Elsewhere
        <4>2. To = Now.to
          BY <4>1 DEF To, LastOrTop
        <4>3. chip[q].addr = Now.to
          BY <2>5, <4>1, <4>2 DEF Hit
        <4>4. QED
          BY <1>5, <2>2, <3>1, <4>1, <4>3
      <3>4. QED
        BY <1>3, <2>5, <3>1, <3>2, <3>3, EffectKeeps
    <2>6. CASE Now.cmd = "SET_PLL" /\ \E clock \in {"power_on", "set", "off"} :
                  /\ chip'[q] = [chip[q] EXCEPT !.clock = clock]
                  /\ fault' = "none" => clock = "set"
      <3>1. chip'[q] = [chip[q] EXCEPT !.clock = "set"]
        BY <2>6
      <3>2. /\ chip'[q].param = chip[q].param /\ chip'[q].target = chip[q].target
            /\ chip'[q].mask = chip[q].mask /\ chip'[q].nonce = chip[q].nonce
            /\ chip'[q].oon = chip[q].oon /\ chip'[q].clock = "set"
            /\ chip'[q].found = chip[q].found /\ chip'[q].jobs = chip[q].jobs
            /\ chip'[q].addr = chip[q].addr
        BY <2>1, <3>1 DEF ChipStates
      <3>3. OfChip(q, f)
        BY <1>4, <1>5, <2>1, <3>2
      <3>4. QED
        BY <1>3, <2>6, <3>2, <3>3 DEF OfChip
    <2>7. QED
      BY <2>2, <2>3, <2>4, <2>5, <2>6
  <1>6. QED
    BY <1>5 DEF Holds, PerChip, Plainly

\* A command makes true what it is said to about the chips that it reaches.
LEMMA WriteGained ==
  ASSUME TypeInv, Next, ~Again, GoesOn, fault' = "none",
         NEW F, \A g \in F : Holds(g), NEW a, SentTo(Now, F, a), Now.cmd \in Writes,
         Now.cmd = "SET_CONTROL" => NoneBack(Now, F),
         NEW q \in Reach', a \in {0, chip'[q].addr}
  PROVE  /\ q \in Reach /\ q \in Chips /\ chip[q].addr = chip'[q].addr
         /\ q \in Hit(To) /\ chip'[q] = Effect(chip[q], health[q], Now)
         /\ dist' = dist
  <1>1. Now.cmd # "HW_RESET" /\ Now.cmd # "AUTO_ADDRESS" /\ Now.cmd # "DISTRIBUTE"
    BY DEF Writes
  <1>2. q \in Reach /\ q \in Chips
    BY <1>1, ReachShrinks
  <1>3. chip[q].addr = chip'[q].addr
    BY <1>1, <1>2, ChipStep
  <1>4. ~LoopEnds /\ q \in Hit(To)
    BY <1>2, <1>3, Reached
  <1>5. chip'[q] = Effect(chip[q], health[q], Now)
    BY <1>2, <1>4, Sent
  <1>6. QED
    BY <1>1, <1>2, <1>3, <1>4, <1>5, Doing

\* A register that the command writes holds what it was written with.
LEMMA PlainGained ==
  ASSUME TypeInv, Next, ~Again, GoesOn, fault' = "none",
         NEW F, \A g \in F : Holds(g), NEW f, f.is \in Plainly \cup {"WRITE_CORE_CFG"},
         Gains(Now, F, f), NEW q \in Reach', f.at \in {0, chip'[q].addr}
  PROVE  OfChip(q, f)'
  <1>1. Now.cmd = f.is /\ Now.arg = f.arg /\ SentTo(Now, F, f.at)
        /\ (Now.arg = "share" => Now.to >= 1)
    BY DEF Gains
  <1>2. Now.cmd \in Writes /\ Now.cmd # "SET_CONTROL"
    BY <1>1 DEF Plainly, Writes
  <1>3. /\ chip[q].addr = chip'[q].addr /\ q \in Hit(To)
        /\ chip'[q] = Effect(chip[q], health[q], Now) /\ dist' = dist
    BY <1>1, <1>2, WriteGained
  <1>4. Now.arg = "share" => To = chip[q].addr
    <2>1. Now.arg = "share" => To = Now.to /\ To >= 1
      BY <1>1 DEF To, LastOrTop
    <2>2. QED
      BY <1>3, <2>1 DEF Hit
  <1>5. Now.arg = "share" => To = Now.to
    BY <1>1 DEF To, LastOrTop
  <1> DEFINE e == Effect(chip[q], health[q], Now)
  <1>6. /\ f.is = "WRITE_PARAM" => e.param = f.arg
        /\ f.is = "WRITE_TARGET" => e.target = f.arg
        /\ f.is = "SET_DISABLE" => e.mask = f.arg
        /\ f.is = "WRITE_CORE_CFG" => e.found = Cores - Disabled(f.arg)
    BY <1>1 DEF Effect
  <1>7. f.is = "WRITE_NONCE" =>
          e.nonce = IF f.arg = "share" THEN [dist EXCEPT !.part = Now.to] ELSE Whole(f.arg)
    BY <1>1 DEF Effect
  <1>8. f.is = "WRITE_NONCE" =>
          e.nonce = IF f.arg = "share" THEN [dist EXCEPT !.part = chip[q].addr] ELSE Whole(f.arg)
    BY <1>1, <1>4, <1>5, <1>7
  <1>9. QED
    <2> HIDE DEF e
    <2>1. chip'[q] = e
      BY <1>3 DEF e
    <2>2. e.addr = chip[q].addr
      BY <1>3, <2>1
    <2>3. f.is \notin {"SET_CONTROL", "SET_PLL", "PLL_OFF", "RUN_BIST", "RUN_JOB"}
      BY DEF Plainly
    <2>4. QED
      BY <1>3, <1>6, <1>8, <2>1, <2>2, <2>3 DEF OfChip

\* A command that turns the OON interrupt on leaves it on.
LEMMA OonGained ==
  ASSUME TypeInv, Next, ~Again, GoesOn, fault' = "none",
         NEW F, \A g \in F : Holds(g), NEW f, f.is = "SET_CONTROL",
         Gains(Now, F, f), NEW q \in Reach', f.at \in {0, chip'[q].addr}
  PROVE  chip'[q].oon
  <1>1. CASE Now.cmd = "SET_CONTROL" /\ Now.arg.oon /\ SentTo(Now, F, f.at) /\ NoneBack(Now, F)
    <2>1. chip'[q] = Effect(chip[q], health[q], Now)
      BY <1>1, WriteGained DEF Writes
    <2>2. Effect(chip[q], health[q], Now).oon = Now.arg.oon
      BY <1>1 DEF Effect
    <2>3. QED
      BY <1>1, <2>1, <2>2
  <1>2. CASE Now.cmd = "AUTO_ADDRESS" /\ Now.need = -1 /\ f.at = 1 /\ TOP \in F
    <2>1. q \in Reach /\ q \in Chips /\ chip[q] \in ChipStates
      BY <1>2, ReachShrinks, OnBoard
    <2>2. chip'[q] = [chip[q] EXCEPT !.addr = q - LastChip + 1]
      BY <1>2, <2>1, Doing, Sent
    <2>3. chip'[q].addr = q - LastChip + 1 /\ chip'[q].oon = chip[q].oon
      BY <2>1, <2>2 DEF ChipStates
    <2>4. q \in Int /\ LastChip \in Int
      BY <2>1, OnBoard
    <2>5. q = LastChip
      BY <1>2, <2>3, <2>4
    <2>6. chip[LastChip].oon
      BY <1>2, FactKinds
    <2>7. QED
      BY <2>3, <2>5, <2>6
  <1>3. QED
    BY <1>1, <1>2 DEF Gains

\* SET_PLL leaves the clock of the chip on; PLL_OFF spares the chips that are not addressed.
LEMMA ClockGained ==
  ASSUME TypeInv, Next, ~Again, GoesOn, fault' = "none", Recognised,
         NEW F, \A g \in F : Holds(g), NEW f, f.is \in {"SET_PLL", "PLL_OFF"},
         Gains(Now, F, f), NEW q \in Reach', f.at \in {0, chip'[q].addr}, board = "ASIC"
  PROVE  /\ f.is = "SET_PLL" => chip'[q].clock = "set"
         /\ f.is = "PLL_OFF" => chip'[q].clock = "set" \/ chip'[q].addr = 1
  <1>1. Now.cmd = f.is
    BY DEF Gains
  <1>2. q \in Reach /\ q \in Chips /\ chip[q] \in ChipStates /\ chip'[q].addr = chip[q].addr
    BY <1>1, ReachShrinks, OnBoard, ChipStep
  <1>3. CASE f.is = "SET_PLL"
    <2>1. SentTo(Now, F, f.at)
      BY <1>3 DEF Gains
    <2>2. ~LoopEnds /\ q \in Hit(Now.to)
      BY <1>2, <2>1, Reached
    <2>3. type = "ASIC"
      BY FaultStays DEF Recognised
    <2>4. chip'[q] = [chip[q] EXCEPT !.clock = "set"]
      BY <1>1, <1>2, <1>3, <2>2, <2>3, Sent
    <2>5. QED
      BY <1>2, <1>3, <2>4 DEF ChipStates
  <1>4. CASE f.is = "PLL_OFF"
    <2>1. Now.to = 1 /\ Clock(0) \in F
      BY <1>4 DEF Gains
    <2>2. chip[q].clock = "set"
      <3>1. OfChip(q, Clock(0))
        BY <1>2, <2>1, FactKinds DEF Clock, PerChip
      <3>2. Clock(0).is = "SET_PLL"
        BY DEF Clock, Fact
      <3>3. QED
        BY <3>1, <3>2 DEF OfChip
    <2>3. chip'[q] = chip[q] \/ q \in Hit(To)
      BY <1>1, <1>2, <1>4, ChipStep DEF Writes
    <2>4. To = 1
      BY <2>1 DEF To, LastOrTop
    <2>5. QED
      BY <1>2, <1>4, <2>2, <2>3, <2>4 DEF Hit
  <1>5. QED
    BY <1>3, <1>4

\* BIST finds the good cores of a chip that has the golden data, a clock and the mask.
LEMMA BistGained ==
  ASSUME TypeInv, Next, ~Again, GoesOn, fault' = "none",
         NEW F, \A g \in F : Holds(g), NEW f, f.is = "RUN_BIST",
         Gains(Now, F, f), NEW q \in Reach', f.at \in {0, chip'[q].addr}
  PROVE  chip'[q].found = Min({health[q], Cores - Disabled(f.arg)})
  <1>1. /\ Now.cmd = "RUN_BIST" /\ SentTo(Now, F, f.at) /\ GoldenFor(F, f.at, f.arg)
        /\ ON \in F \/ f \in F
    BY DEF Gains
  <1>2. /\ q \in Reach /\ q \in Chips /\ chip[q].addr = chip'[q].addr
        /\ chip'[q] = Effect(chip[q], health[q], Now)
    BY <1>1, WriteGained DEF Writes
  <1>3. /\ OfChip(q, Fact("WRITE_PARAM", f.at, "golden"))
        /\ OfChip(q, Fact("WRITE_TARGET", f.at, "golden"))
        /\ OfChip(q, Fact("WRITE_NONCE", f.at, "golden"))
        /\ OfChip(q, Fact("SET_DISABLE", f.at, f.arg))
    BY <1>1, <1>2, FactKinds DEF GoldenFor, PerChip, Plainly
  <1>4. /\ chip[q].param = "golden" /\ chip[q].target = "golden"
        /\ chip[q].nonce = Whole("golden") /\ chip[q].mask = f.arg
    BY <1>3 DEF OfChip, Fact
  <1>5. chip'[q].found = BistFinds(chip[q], health[q])
    BY <1>1, <1>2 DEF Effect
  <1>6. CASE chip[q].clock # "off"
    BY <1>4, <1>5, <1>6 DEF BistFinds
  <1>7. CASE chip[q].clock = "off"
    <2>1. f \in F
      BY <1>1, <1>2, <1>7, FactKinds
    <2>2. OfChip(q, f)
      BY <1>2, <2>1 DEF Holds, PerChip
    <2>3. QED
      BY <1>5, <1>7, <2>2 DEF BistFinds, OfChip
  <1>8. QED
    BY <1>6, <1>7

\* RUN_JOB adds one job to the FIFO of each chip it reaches.
LEMMA JobGained ==
  ASSUME TypeInv, Next, ~Again, GoesOn, fault' = "none",
         NEW F, \A g \in F : Holds(g), NEW f, f.is = "RUN_JOB",
         Gains(Now, F, f), NEW q \in Reach', f.at \in {0, chip'[q].addr}
  PROVE  chip'[q].jobs = f.arg
  <1>1. CASE Now.cmd = "HW_RESET" /\ Now.need = -1 /\ f.arg = 0
    <2>1. TypeInv' /\ Chips' = Chips
      BY TypeNext, ChainStep
    <2>2. q \in Chips
      BY <2>1, OnBoardNext DEF OnChain
    <2>3. chip'[q] = Reset
      BY <1>1, <2>2, Doing, Sent
    <2>4. QED
      BY <1>1, <2>3 DEF Reset
  <1>2. CASE /\ Now.cmd = "RUN_JOB" /\ Now.to = 0 /\ Now.need = -1
             /\ f.arg \in 1 .. FifoDepth /\ Job(f.arg - 1) \in F
    <2>1. SentTo(Now, F, 0)
      BY <1>2 DEF SentTo, Sure
    <2>2. /\ q \in Reach /\ q \in Chips /\ chip'[q] = Effect(chip[q], health[q], Now)
      BY <1>2, <2>1, WriteGained DEF Writes
    <2>3. OfChip(q, Job(f.arg - 1))
      BY <1>2, <2>2, FactKinds DEF Job, PerChip
    <2>4. chip[q].jobs = f.arg - 1
      BY <2>3 DEF OfChip, Job, Fact
    <2>5. chip'[q].jobs = Min({chip[q].jobs + 1, FifoDepth})
      BY <1>2, <2>2 DEF Effect
    <2>6. f.arg \in Int /\ f.arg <= FifoDepth /\ FifoDepth \in Int
      BY <1>2 DEF FifoDepth
    <2>7. chip'[q].jobs = Min({f.arg, FifoDepth})
      <3>1. chip[q].jobs + 1 = f.arg
        BY <2>4, <2>6
      <3>2. QED
        BY <2>5, <3>1, Zenon
    <2>8. QED
      BY <2>6, <2>7, MinPair
  <1>3. QED
    BY <1>1, <1>2 DEF Gains

\* The facts about the chips that a command makes true are true after it.
LEMMA ChipGained ==
  ASSUME TypeInv, Next, ~Again, GoesOn, fault' = "none", Recognised,
         NEW F, \A g \in F : Holds(g), NEW f, f.is \in PerChip, Gains(Now, F, f)
  PROVE  Holds(f)'
  <1>1. board' = board /\ health' = health
    BY Doing
  <1>2. ASSUME NEW q \in Reach', f.at \in {0, chip'[q].addr} PROVE OfChip(q, f)'
    <2>1. CASE f.is \in Plainly \cup {"WRITE_CORE_CFG"}
      BY <1>2, <2>1, PlainGained
    <2>2. CASE f.is = "SET_CONTROL"
      BY <1>2, <2>2, OonGained DEF OfChip
    <2>3. CASE f.is \in {"SET_PLL", "PLL_OFF"}
      <3>1. board' = "ASIC" => /\ f.is = "SET_PLL" => chip'[q].clock = "set"
                               /\ f.is = "PLL_OFF" => chip'[q].clock = "set" \/ chip'[q].addr = 1
        BY <1>1, <1>2, <2>3, ClockGained
      <3>2. QED
        BY <2>3, <3>1 DEF OfChip
    <2>4. CASE f.is = "RUN_BIST"
      <3>1. chip'[q].found = Min({health'[q], Cores - Disabled(f.arg)})
        BY <1>1, <1>2, <2>4, BistGained
      <3>2. QED
        BY <2>4, <3>1 DEF OfChip
    <2>5. CASE f.is = "RUN_JOB"
      BY <1>2, <2>5, JobGained DEF OfChip
    <2>6. QED
      BY <2>1, <2>2, <2>3, <2>4, <2>5 DEF PerChip
  <1>3. QED
    BY <1>2 DEF Holds, PerChip, Plainly

\* What AUTO_ADDRESS finds, and the board after it.
LEMMA AutoNumbers ==
  ASSUME TypeInv, Next, ~Again, GoesOn, ~LoopEnds, Now.cmd = "AUTO_ADDRESS"
  PROVE  /\ Holds(NUMBERED)'
         /\ fault' = "none" => numChips' >= 1
         /\ \A q \in Chips : chip'[q].addr \in {chip[q].addr, q - LastChip + 1}
                             /\ chip'[q].last = chip[q].last
  <1>1. AutoAddress
    BY Doing
  <1>2. TypeInv' /\ Size' = Size /\ Chips' = Chips /\ Size \in Nat /\ Chips = 1 .. Size
        /\ LastChip \in 1 .. Size /\ Reach = LastChip .. Size
    BY TypeNext, ChainStep, OnBoard
  <1>3. \A q \in Chips : chip'[q].last = chip[q].last
    BY ChipStep
  <1>4. LastChip' = LastChip
    <2>1. {q \in Chips : chip[q].last}' = {q \in Chips : chip[q].last}
      BY <1>2, <1>3
    <2>2. QED
      BY <2>1 DEF LastChip
  <1>5. ASSUME numChips' # -1
        PROVE  /\ numChips' = Size - LastChip + 1
               /\ \A q \in Chips : chip'[q] = IF q \in Reach
                    THEN [chip[q] EXCEPT !.addr = q - LastChip + 1] ELSE chip[q]
    BY <1>1, <1>5, OnBoard DEF AutoAddress, NumberOfChips
  <1>6. \A q \in Chips : chip[q] \in ChipStates
    BY OnBoard
  <1>7. ASSUME numChips' # -1 PROVE Numbered' /\ LastChip' = First' /\ numChips' >= 1
    <2>1. First' = LastChip
      BY <1>2, <1>5, <1>7 DEF First
    <2>2. ASSUME NEW q \in LastChip .. Size PROVE chip'[q].addr = q - LastChip + 1
      <3>1. q \in Chips /\ q \in Reach
        BY <1>2
      <3>2. chip'[q] = [chip[q] EXCEPT !.addr = q - LastChip + 1] /\ chip[q] \in ChipStates
        BY <1>5, <1>6, <1>7, <3>1
      <3>3. QED
        BY <3>2 DEF ChipStates
    <2>3. \A q \in 1 .. Size : chip'[q].last => q <= LastChip
      BY <1>2, <1>3, OnBoard
    <2>4. numChips' <= Size /\ numChips' >= 1
      BY <1>2, <1>5, <1>7
    <2>5. QED
      BY <1>2, <1>4, <2>1, <2>2, <2>3, <2>4 DEF Numbered
  <1>8. Holds(NUMBERED)'
    <2>1. numChips' >= 1 => Numbered' /\ LastChip' = First'
      BY <1>7
    <2>2. NUMBERED.is = "numbered"
      BY DEF NUMBERED, Fact
    <2>3. QED
      BY <2>1, <2>2 DEF Holds, PerChip, Plainly
  <1>9. \A q \in Chips : chip'[q].addr \in {chip[q].addr, q - LastChip + 1}
    BY <1>1, <1>6 DEF AutoAddress, ChipStates
  <1>10. ASSUME fault' = "none" PROVE numChips' >= 1
    <2>1. numChips' = NumberOfChips
      BY <1>1, <1>10, BringupAssumption DEF AutoAddress, GoWrong
    <2>2. numChips' = Size - LastChip + 1
      BY <2>1, OnBoard DEF NumberOfChips
    <2>3. QED
      BY <1>2, <2>2
  <1>11. QED
    BY <1>3, <1>8, <1>9, <1>10

\* What keeps the chain whole: nobody but chip 1 is made the last one.
LEMMA WholeStep ==
  ASSUME TypeInv, Next, ~Again, GoesOn, NEW F,
         \/ Now.cmd = "HW_RESET" /\ Now.need = -1
         \/ Holds(WHOLE) /\ (Now.cmd = "SET_CONTROL" /\ Now.arg.last => Now.to = 1)
  PROVE  \A q \in Chips' : (chip'[q].last => q = 1) /\ chip'[q].addr \in {0, q}
  <1>1. Chips' = Chips /\ Chips = 1 .. Size /\ Size \in Nat
    BY ChainStep, OnBoard
  <1>2. CASE Now.cmd = "HW_RESET" /\ Now.need = -1
    <2>1. HWResetStep
      BY <1>2, Doing
    <2>2. QED
      BY <1>1, <2>1 DEF HWResetStep, Reset
  <1>3. CASE Holds(WHOLE) /\ (Now.cmd = "SET_CONTROL" /\ Now.arg.last => Now.to = 1)
    <2>1. \A q \in Chips : (chip[q].last => q = 1) /\ chip[q].addr \in {0, q}
      BY <1>3, FactKinds
    <2>2. LastChip = 1
      BY <1>1, <2>1, OnBoard
    <2>3. ASSUME NEW q \in Chips PROVE (chip'[q].last => q = 1) /\ chip'[q].addr \in {0, q}
      <3>1. CASE chip'[q] = chip[q]
        BY <2>1, <3>1
      <3>2. CASE chip'[q] = Reset
        BY <3>2 DEF Reset
      <3>3. CASE Now.cmd = "AUTO_ADDRESS" /\ chip'[q] = [chip[q] EXCEPT !.addr = q - LastChip + 1]
        <4>1. q - LastChip + 1 = q
          BY <1>1, <2>2
        <4>2. chip[q] \in ChipStates
          BY OnBoard
        <4>3. chip'[q].addr = q /\ chip'[q].last = chip[q].last
          BY <3>3, <4>1, <4>2 DEF ChipStates
        <4>4. QED
          BY <2>1, <4>3
      <3>4. CASE q \in Hit(To) /\ Now.cmd \in Writes /\ chip'[q] = Effect(chip[q], health[q], Now)
        <4>1. chip'[q].addr = chip[q].addr
          BY <3>4 DEF Effect
        <4>2. CASE Now.cmd # "SET_CONTROL"
          BY <2>1, <3>4, <4>1, <4>2, ChipStep DEF Writes
        <4>3. CASE Now.cmd = "SET_CONTROL" /\ Now.arg.last
          <5>1. To = 1
            BY <1>3, <4>3 DEF To, LastOrTop
          <5>2. chip[q].addr = 1
            BY <3>4, <5>1 DEF Hit
          <5>3. QED
            BY <2>1, <4>1, <5>2
        <4>4. CASE Now.cmd = "SET_CONTROL" /\ ~Now.arg.last
          <5>1. chip'[q].last = Now.arg.last
            BY <3>4, <4>4 DEF Effect
          <5>2. QED
            BY <2>1, <4>1, <4>4, <5>1
        <4>5. QED
          BY <4>2, <4>3, <4>4
      <3>5. CASE Now.cmd = "SET_PLL"
        BY <2>1, <3>5, ChipStep
      <3>6. QED
        BY <3>1, <3>2, <3>3, <3>4, <3>5, ChipStep
    <2>4. QED
      BY <1>1, <2>3
  <1>4. QED
    BY <1>2, <1>3

\* What keeps the addresses those of the last numbering.
LEMMA NumberedStep ==
  ASSUME TypeInv, Next, ~Again, GoesOn, NEW F, Holds(WHOLE) \/ WHOLE \notin F,
         \/ Now.cmd = "AUTO_ADDRESS" /\ Now.need = -1
         \/ /\ Holds(NUMBERED) /\ Now.cmd # "HW_RESET"
            /\ Now.cmd = "SET_CONTROL" =>
                 IF Now.arg.last THEN Now.to = 1 ELSE WHOLE \in F \/ Now.to >= 2
  PROVE  Holds(NUMBERED)'
  <1>0. NUMBERED.is = "numbered"
    BY DEF NUMBERED, Fact
  <1>1. SUFFICES numChips' >= 1 => Numbered' /\ LastChip' = First'
    BY <1>0 DEF Holds, PerChip, Plainly
  <1>2. CASE Now.cmd = "AUTO_ADDRESS" /\ ~LoopEnds
    <2>1. Holds(NUMBERED)'
      BY <1>2, AutoNumbers
    <2>2. QED
      BY <1>0, <2>1 DEF Holds
  <1>3. CASE ~(Now.cmd = "AUTO_ADDRESS" /\ ~LoopEnds)
    <2>1. /\ Holds(NUMBERED) /\ Now.cmd # "HW_RESET"
          /\ Now.cmd = "SET_CONTROL" =>
               IF Now.arg.last THEN Now.to = 1 ELSE WHOLE \in F \/ Now.to >= 2
      BY <1>3, Doing
    <2>2. SUFFICES ASSUME numChips' >= 1 PROVE Numbered' /\ LastChip' = First'
      OBVIOUS
    <2>3. numChips' = numChips /\ (Now.cmd = "AUTO_ADDRESS" => chip' = chip)
      BY <1>3, Doing
    <2>4. Numbered /\ LastChip = First /\ numChips >= 1
      BY <2>1, <2>2, <2>3, FactKinds
    <2>5. /\ Size' = Size /\ Chips' = Chips /\ Size \in Nat /\ Chips = 1 .. Size
          /\ LastChip \in 1 .. Size /\ Reach = LastChip .. Size
      BY ChainStep, OnBoard
    <2>6. First' = First
      BY <2>3, <2>5 DEF First
    <2>7. \A q \in Chips : chip'[q].addr = chip[q].addr
      BY <2>1, <2>3, ChipStep
    <2>8. ASSUME NEW q \in Chips
          PROVE  /\ chip'[q].last => q <= LastChip
                 /\ q = LastChip /\ LastChip # 1 => chip'[q].last
      <3>0. (chip[q].last => q <= LastChip) /\ (q = LastChip /\ LastChip # 1 => chip[q].last)
        BY OnBoard
      <3>1. CASE Now.cmd # "SET_CONTROL" \/ chip'[q] = chip[q]
        <4>1. chip'[q].last = chip[q].last
          BY <2>1, <3>1, ChipStep
        <4>2. QED
          BY <3>0, <4>1
      <3>2. CASE Now.cmd = "SET_CONTROL" /\ q \in Hit(To)
                 /\ chip'[q] = Effect(chip[q], health[q], Now)
        <4>1. chip'[q].last = Now.arg.last
          BY <3>2 DEF Effect
        <4>2. q \in Reach /\ (To # 0 => chip[q].addr = To) /\ chip[q].addr = q - LastChip + 1
          BY <2>4, <3>2, OnNumbered DEF Hit
        <4>3. CASE Now.arg.last
          <5>1. To = 1
            BY <2>1, <3>2, <4>3 DEF To, LastOrTop
          <5>2. q = LastChip
            BY <2>5, <4>2, <5>1
          <5>3. QED
            BY <2>5, <4>1, <4>3, <5>2
        <4>4. CASE ~Now.arg.last
          <5>1. CASE WHOLE \in F
            <6>1. LastChip = 1
              BY <2>5, <5>1, FactKinds, OnBoard
            <6>2. QED
              BY <4>1, <4>4, <6>1
          <5>2. CASE Now.to >= 2
            <6>1. To = Now.to
              BY <5>2 DEF To, LastOrTop
            <6>2. q # LastChip
              BY <2>5, <4>2, <5>2, <6>1
            <6>3. QED
              BY <4>1, <4>4, <6>2
          <5>3. QED
            BY <2>1, <3>2, <4>4, <5>1, <5>2
        <4>5. QED
          BY <4>3, <4>4
      <3>3. QED
        BY <2>1, <3>1, <3>2, ChipStep
    <2>9. LastChip' = LastChip
      <3>1. /\ LastChip' \in 1 .. Size
            /\ LastChip' = 1 \/ chip'[LastChip'].last
            /\ \A q \in Chips : chip'[q].last => q <= LastChip'
        BY <2>5, TypeNext, OnBoardNext DEF OnChain
      <3>2. LastChip' <= LastChip
        BY <2>5, <2>8, <3>1
      <3>3. LastChip <= LastChip'
        BY <2>5, <2>8, <3>1
      <3>4. QED
        BY <2>5, <3>1, <3>2, <3>3
    <2>10. Numbered'
      <3>1. numChips' <= Size
        BY <2>3, <2>4 DEF Numbered
      <3>2. \A q \in First .. Size : q \in Chips /\ chip'[q].addr = q - First + 1
        BY <2>4, <2>5, <2>7 DEF Numbered
      <3>3. QED
        BY <2>4, <2>5, <2>6, <2>8, <3>1, <3>2 DEF Numbered
    <2>11. QED
      BY <2>4, <2>6, <2>9, <2>10
  <1>4. QED
    BY <1>2, <1>3

\* What keeps the clocks on.
LEMMA OnStep ==
  ASSUME TypeInv, Next, ~Again, GoesOn, fault' = "none",
         \/ Now.cmd = "HW_RESET" /\ Now.need = -1
         \/ Holds(ON) /\ Now.cmd # "PLL_OFF"
  PROVE  \A q \in Chips' : chip'[q].clock # "off"
  <1>1. Chips' = Chips
    BY ChainStep
  <1>2. ASSUME NEW q \in Chips PROVE chip'[q].clock # "off"
    <2>1. CASE Now.cmd = "HW_RESET" /\ Now.need = -1
      BY <2>1, Doing, Sent DEF Reset
    <2>2. CASE Holds(ON) /\ Now.cmd # "PLL_OFF"
      <3>1. chip[q].clock # "off" /\ chip[q] \in ChipStates
        BY <2>2, FactKinds, OnBoard
      <3>2. CASE Now.cmd \notin {"HW_RESET", "SET_PLL"} \/ chip'[q] = chip[q]
        BY <2>2, <3>1, <3>2, ChipStep
      <3>3. CASE chip'[q] = Reset
        BY <3>3 DEF Reset
      <3>4. CASE chip'[q] = [chip[q] EXCEPT !.clock = "set"]
        BY <3>1, <3>4 DEF ChipStates
      <3>5. QED
        BY <3>2, <3>3, <3>4, ChipStep DEF Writes
    <2>3. QED
      BY <2>1, <2>2
  <1>3. QED
    BY <1>1, <1>2

\* What keeps the cores found within the cores that work.
LEMMA SaneStep ==
  ASSUME TypeInv, Next, ~Again, GoesOn,
         \/ Now.cmd = "HW_RESET" /\ Now.need = -1
         \/ Holds(SANE) /\ Now.cmd # "WRITE_CORE_CFG"
  PROVE  \A q \in Chips' : chip'[q].found <= health'[q]
  <1>1. Chips' = Chips /\ health' = health
    BY ChainStep, Doing
  <1>2. ASSUME NEW q \in Chips PROVE chip'[q].found <= health[q]
    <2>0. health[q] \in 0 .. Cores /\ Cores \in Nat
      BY OnBoard, BringupAssumption DEF Chain
    <2>1. CASE chip'[q] = Reset
      BY <2>0, <2>1 DEF Reset
    <2>2. CASE Now.cmd = "HW_RESET" /\ Now.need = -1
      <3>1. HWResetStep
        BY <2>2, Doing
      <3>2. QED
        BY <2>1, <3>1 DEF HWResetStep
    <2>3. CASE Holds(SANE) /\ Now.cmd # "WRITE_CORE_CFG" /\ chip'[q] # Reset
      <3>1. chip[q].found <= health[q] /\ chip[q] \in ChipStates
        BY <2>3, FactKinds, OnBoard
      <3>2. CASE Now.cmd \notin {"HW_RESET", "RUN_BIST"} \/ chip'[q] = chip[q]
        BY <2>3, <3>1, <3>2, ChipStep
      <3>3. CASE Now.cmd = "RUN_BIST" /\ chip'[q] = Effect(chip[q], health[q], Now)
        <4>1. chip'[q].found = BistFinds(chip[q], health[q])
          BY <3>3 DEF Effect
        <4>2. Cores - Disabled(chip[q].mask) \in Int /\ health[q] \in Int
          BY <2>0 DEF Disabled
        <4>3. Min({health[q], Cores - Disabled(chip[q].mask)}) <= health[q]
          BY <4>2, MinPair
        <4>4. QED
          BY <2>0, <3>1, <4>1, <4>3 DEF BistFinds
      <3>4. QED
        BY <2>3, <3>2, <3>3, ChipStep DEF Writes
    <2>4. QED
      BY <2>1, <2>2, <2>3
  <1>3. QED
    BY <1>1, <1>2

\* SET_CONTROL with LAST_CHIP cuts the chips behind the one it is sent to off.
LEMMA TopStep ==
  ASSUME TypeInv, Next, ~Again, GoesOn, fault' = "none",
         Holds(NUMBERED), Holds(ANSWERED), run.last \in 0 .. MaxChips,
         Now.cmd = "SET_CONTROL", Now.arg.oon, Now.arg.last, Now.to = LastOrTop, Now.need = -1
  PROVE  (chip[LastChip].oon)'
  <1>1. Numbered /\ LastChip = First /\ numChips >= 1
    BY FactKinds
  <1>2. /\ numChips = Size - LastChip + 1 /\ numChips \in Nat
        /\ \A q \in Reach : chip[q].addr = q - LastChip + 1
    BY <1>1, OnNumbered
  <1>3. /\ Chips' = Chips /\ Size' = Size /\ Size \in Nat /\ Chips = 1 .. Size
        /\ LastChip \in 1 .. Size /\ Reach = LastChip .. Size
        /\ \A q \in Chips : chip[q].last => q <= LastChip
    BY ChainStep, OnBoard
  <1>4. /\ LastChip' \in 1 .. Size
        /\ LastChip' = 1 \/ chip'[LastChip'].last
        /\ \A q \in Chips : chip'[q].last => q <= LastChip'
    BY <1>3, TypeNext, OnBoardNext DEF OnChain
  <1>5. To \in 0 .. numChips
    <2>1. To = Min({run.last, numChips})
      BY DEF To
    <2>2. run.last \in Int /\ numChips \in Int
      BY <1>2
    <2>3. To = IF run.last <= numChips THEN run.last ELSE numChips
      BY <2>1, <2>2, MinPair
    <2>4. QED
      BY <1>2, <2>3
  <1> DEFINE top == IF To = 0 THEN Size ELSE LastChip + To - 1
  <1>6. top \in LastChip .. Size /\ (To # 0 => top - LastChip + 1 = To)
    BY <1>2, <1>3, <1>5
  <1> HIDE DEF top
  <1>7. ASSUME NEW q \in Hit(To) PROVE chip'[q].last /\ chip'[q].oon
    <2>1. q \in Chips
      BY <1>3, <1>7 DEF Hit
    <2>2. chip'[q] = Effect(chip[q], health[q], Now)
      BY <1>7, <2>1, Doing, Sent DEF Writes
    <2>3. QED
      BY <2>2 DEF Effect
  <1>8. top \in Hit(To)
    BY <1>2, <1>3, <1>6 DEF Hit
  <1>9. LastChip' = top
    <2>1. top <= LastChip'
      BY <1>3, <1>4, <1>6, <1>7, <1>8
    <2>2. ASSUME LastChip' > top PROVE FALSE
      <3>1. LastChip' \in Reach /\ LastChip' \in Chips /\ chip'[LastChip'].last
        BY <1>3, <1>4, <1>6, <2>2
      <3>2. To # 0
        BY <1>3, <1>4, <2>2 DEF top
      <3>3. LastChip' \notin Hit(To)
        <4>1. chip[LastChip'].addr = LastChip' - LastChip + 1
          BY <1>2, <3>1
        <4>2. chip[LastChip'].addr # To
          <5>1. LastChip' \in Int /\ top \in Int /\ LastChip \in Int
            BY <1>3, <1>4, <1>6
          <5>2. LastChip' - LastChip + 1 # top - LastChip + 1
            <6>1. \A x, y, z \in Int : x > y => x - z + 1 # y - z + 1
              OBVIOUS
            <6>2. QED
              BY <2>2, <5>1, <6>1
          <5>3. QED
            BY <1>6, <3>2, <4>1, <5>2
        <4>3. QED
          BY <3>2, <4>2 DEF Hit
      <3>4. chip'[LastChip'] = chip[LastChip']
        BY <3>1, <3>3, ChipStep
      <3>5. QED
        BY <1>3, <1>4, <1>6, <2>2, <3>1, <3>4
    <2>3. QED
      BY <1>3, <1>4, <1>6, <2>1, <2>2
  <1>10. QED
    BY <1>7, <1>8, <1>9

\* What keeps the shares those of the range and of the number of chips.
LEMMA DistStep ==
  ASSUME TypeInv, Next, ~Again, GoesOn, NEW f, f.is = "dist",
         \/ Now.cmd = "DISTRIBUTE" /\ Now.need = -1 /\ f.arg = Now.arg
         \/ Holds(f) /\ Now.cmd \notin {"DISTRIBUTE", "AUTO_ADDRESS"}
  PROVE  dist' = [range |-> f.arg, part |-> 0, of |-> numChips']
  <1>1. CASE Now.cmd = "DISTRIBUTE" /\ Now.need = -1 /\ f.arg = Now.arg
    <2>1. DistributionNonce /\ numChips' = numChips
      BY <1>1, Doing
    <2>2. QED
      BY <1>1, <2>1 DEF DistributionNonce, Finish, GoesOn
  <1>2. CASE Holds(f) /\ Now.cmd \notin {"DISTRIBUTE", "AUTO_ADDRESS"}
    BY <1>2, Doing DEF Holds
  <1>3. QED
    BY <1>1, <1>2

\* What keeps a check of the number of cores true.
LEMMA CheckedStep ==
  ASSUME TypeInv, Next, ~Again, GoesOn, NEW f, f.is = "checked",
         \/ Now.cmd = "CHECK_CORES" /\ Now.need = -1 /\ f.arg = Now.arg
         \/ Holds(f) /\ Now.cmd \notin {"READ_BIST", "AUTO_ADDRESS"}
  PROVE  (IF f.arg = "each" THEN AllCores(Expected) ELSE SumOfCores = numChips * Expected)'
  <1>1. numChips' = numChips /\ numCores' = numCores /\ run' = run
    BY Doing
  <1>2. IF f.arg = "each" THEN AllCores(Expected) ELSE SumOfCores = numChips * Expected
    <2>1. CASE Now.cmd = "CHECK_CORES" /\ Now.need = -1 /\ f.arg = Now.arg
      <3>1. CheckCores
        BY <2>1, Doing
      <3>2. QED
        BY <2>1, <3>1 DEF CheckCores, Finish, GoesOn, Expected
    <2>2. CASE Holds(f) /\ Now.cmd \notin {"READ_BIST", "AUTO_ADDRESS"}
      BY <2>2 DEF Holds
    <2>3. QED
      BY <2>1, <2>2
  <1>3. Expected' = Expected /\ (AllCores(Expected))' = AllCores(Expected)
        /\ SumOfCores' = SumOfCores
    BY <1>1 DEF Expected, AllCores, SumOfCores, Address
  <1>4. QED
    BY <1>1, <1>2, <1>3

\* What keeps the count of the handle that of the chip.
LEMMA FreshStep ==
  ASSUME TypeInv, Next, ~Again, GoesOn, fault' # "late", NEW f, f.is = "fresh",
         \/ /\ Now.cmd = "READ_BIST" /\ Now.to = f.at /\ Now.need = Now.to
            /\ Holds(WHOLE) /\ Holds(NUMBERED)
         \/ /\ Holds(f) /\ ~Rereads(Now, f.at)
            /\ Now.cmd \notin {"HW_RESET", "AUTO_ADDRESS", "RUN_BIST", "WRITE_CORE_CFG", "SET_PLL"},
         (f.at \in Chips)', (Address(f.at))', chip'[f.at].clock # "off"
  PROVE  numCores'[f.at].cores = chip'[f.at].found
  <1>1. /\ numChips' = numChips /\ Chips' = Chips /\ f.at \in Chips /\ Address(f.at)
        /\ chip'[f.at].found = chip[f.at].found
    BY ChainStep, Doing, ChipStep DEF Address
  <1>2. CASE /\ Now.cmd = "READ_BIST" /\ Now.to = f.at /\ Now.need = Now.to
             /\ Holds(WHOLE) /\ Holds(NUMBERED)
    <2>1. /\ numChips \in Int /\ Size \in Nat /\ Chips = 1 .. Size /\ f.at \in 1 .. numChips
          /\ LastChip = 1 \/ chip[LastChip].last
          /\ LastChip \in 1 .. Size /\ Size \in 1 .. MaxChips
      BY <1>1, OnBoard, Doing DEF Address
    <2>2. numChips >= 1 /\ numChips \in Nat
      BY <2>1
    <2>3. Numbered /\ LastChip = First /\ LastChip = 1
      <3>1. Numbered /\ LastChip = First
        BY <1>2, <2>2, FactKinds
      <3>2. LastChip = 1
        <4>1. \A q \in Chips : chip[q].last => q = 1
          BY <1>2, FactKinds
        <4>2. QED
          BY <2>1, <4>1
      <3>3. QED
        BY <3>1, <3>2
    <2>4. ChipAt(f.at) = f.at
      <3>1. Chain /\ numChips \in -1 .. MaxChips /\ f.at \in Addresses
        BY <2>1, Bounds DEF TypeInv, Addresses
      <3>2. ChipAt(f.at) = First + f.at - 1
        BY <1>1, <2>3, <3>1, Addressed
      <3>3. QED
        <4>1. First = 1 /\ f.at \in Int
          BY <2>1, <2>3
        <4>2. QED
          BY <3>2, <4>1
    <2>5. ~LoopEnds
      BY <1>2, <2>1 DEF LoopEnds
    <2>6. ReadBistStep
      BY <1>2, <2>5, Doing
    <2>7. \E n \in 0 .. Cores :
             /\ numCores' = [numCores EXCEPT ![f.at] = [cores |-> n, chip |-> f.at]]
             /\ chip[f.at].clock # "off" => n = chip[f.at].found
      <3>1. result' = "running" /\ f.at # 0
        BY <2>1 DEF GoesOn
      <3>2. \E n \in 0 .. Cores :
             /\ numCores' = [numCores EXCEPT ![Now.to] = [cores |-> n, chip |-> ChipAt(Now.to)]]
             /\ \/ IF ChipAt(Now.to) = 0 THEN TRUE
                   ELSE chip[ChipAt(Now.to)].clock # "off" => n = chip[ChipAt(Now.to)].found
                \/ fault' = "late"
        BY <2>6, <3>1 DEF ReadBistStep, GoWrong, Finish
      <3>3. QED
        BY <1>2, <2>4, <3>1, <3>2
    <2>8. chip' = chip
      BY <2>6 DEF ReadBistStep
    <2>9. /\ numCores \in [1 .. MaxChips -> [cores : 0 .. Cores, chip : 0 .. MaxChips]]
          /\ f.at \in 1 .. MaxChips
      <3>1. numCores \in [1 .. MaxChips -> [cores : 0 .. Cores, chip : 0 .. MaxChips]]
        BY DEF TypeInv
      <3>2. QED
        BY <1>1, <2>1, <3>1, Bounds
    <2>10. QED
      BY <2>7, <2>8, <2>9
  <1>3. CASE /\ Holds(f) /\ ~Rereads(Now, f.at)
             /\ Now.cmd \notin {"HW_RESET", "AUTO_ADDRESS", "RUN_BIST", "WRITE_CORE_CFG", "SET_PLL"}
    <2>1. chip[f.at].clock # "off"
      <3>1. CASE Now.cmd # "PLL_OFF" \/ chip'[f.at] = chip[f.at]
        BY <1>1, <1>3, <3>1, ChipStep
      <3>2. CASE Now.cmd = "PLL_OFF" /\ chip'[f.at] = Effect(chip[f.at], health[f.at], Now)
        BY <3>2 DEF Effect
      <3>3. QED
        BY <1>1, <1>3, <3>1, <3>2, ChipStep
    <2>2. numCores[f.at].cores = chip[f.at].found
      BY <1>1, <1>3, <2>1 DEF Holds
    <2>3. numCores'[f.at].cores = numCores[f.at].cores
      <3>1. CASE Now.cmd # "READ_BIST"
        BY <3>1, Doing
      <3>2. CASE Now.cmd = "READ_BIST" /\ ~LoopEnds
        <4>1. ReadBistStep /\ Now.to # f.at
          BY <1>3, <3>2, Doing DEF Rereads
        <4>2. \E r : numCores' = [numCores EXCEPT ![Now.to] = r]
          BY <4>1 DEF ReadBistStep, Finish, GoesOn
        <4>3. /\ numCores \in [1 .. MaxChips -> [cores : 0 .. Cores, chip : 0 .. MaxChips]]
              /\ f.at \in 1 .. MaxChips
          <5>1. numCores \in [1 .. MaxChips -> [cores : 0 .. Cores, chip : 0 .. MaxChips]]
            BY DEF TypeInv
          <5>2. f.at \in 1 .. Size /\ Size \in 1 .. MaxChips /\ MaxChips \in Int
            BY <1>1, OnBoard, Bounds
          <5>3. QED
            BY <5>1, <5>2
        <4>4. QED
          BY <4>1, <4>2, <4>3
      <3>3. CASE LoopEnds
        BY <3>3, Doing
      <3>4. QED
        BY <3>1, <3>2, <3>3
    <2>4. QED
      BY <1>1, <2>2, <2>3
  <1>4. QED
    BY <1>2, <1>3

\* The facts that are not about one register of the chips, together.
LEMMA GlobalStep ==
  ASSUME TypeInv, Next, ~Again, GoesOn, run.last \in 0 .. MaxChips,
         NEW F, \A g \in F : Trusted(g) => Holds(g), NEW f, Trusted(f)', f.is \notin PerChip,
         Gains(Now, F, f) \/ (f \in F /\ Keeps(Now, F, f))
  PROVE  Holds(f)'
  <1>1. fault' # "late" /\ fault # "late" /\ (f.is \notin Robust => fault' = "none")
    <2>1. fault' # "late" /\ (f.is \notin Robust => fault' = "none")
      BY DEF Trusted
    <2>2. QED
      BY <2>1, FaultStays
  <1>2. (f \in F => Holds(f)) /\ (WHOLE \in F => Holds(WHOLE))
        /\ (NUMBERED \in F => Holds(NUMBERED))
    <2>1. f.is \notin Robust => fault = "none"
      BY <1>1, FaultStays
    <2>2. WHOLE.is \in Robust /\ NUMBERED.is \in Robust
      BY FactKinds
    <2>3. QED
      BY <1>1, <2>1, <2>2 DEF Trusted
  <1>3. CASE f.is = "whole"
    <2>1. f \in F => Holds(WHOLE)
      BY <1>2, <1>3, FactKinds DEF Holds
    <2>2. \A q \in Chips' : (chip'[q].last => q = 1) /\ chip'[q].addr \in {0, q}
      BY <1>3, <2>1, WholeStep DEF Gains, Keeps
    <2>3. QED
      BY <1>3, <2>2 DEF Holds, PerChip, Plainly
  <1>4. CASE f.is = "numbered"
    <2>1. f \in F => Holds(NUMBERED)
      BY <1>2, <1>4, FactKinds DEF Holds
    <2>2. Holds(NUMBERED)'
      BY <1>2, <1>4, <2>1, NumberedStep DEF Gains, Keeps
    <2>3. NUMBERED.is = "numbered"
      BY DEF NUMBERED, Fact
    <2>4. QED
      BY <1>4, <2>2, <2>3 DEF Holds, PerChip, Plainly
  <1>5. CASE f.is = "answered"
    <2>1. fault' = "none"
      BY <1>1, <1>5 DEF Robust
    <2>2. numChips' >= 1
      <3>1. CASE Now.cmd = "AUTO_ADDRESS" /\ ~LoopEnds
        BY <2>1, <3>1, AutoNumbers
      <3>2. CASE ~(Now.cmd = "AUTO_ADDRESS" /\ ~LoopEnds)
        <4>1. f \in F
          BY <1>5, <3>2, Doing DEF Gains
        <4>2. numChips >= 1
          BY <1>2, <1>5, <4>1 DEF Holds
        <4>3. QED
          BY <3>2, <4>2, Doing
      <3>3. QED
        BY <3>1, <3>2
    <2>3. QED
      BY <1>5, <2>2 DEF Holds, PerChip, Plainly
  <1>6. CASE f.is = "on"
    <2>1. fault' = "none"
      BY <1>1, <1>6 DEF Robust
    <2>2. f \in F => Holds(ON)
      BY <1>2, <1>6, FactKinds DEF Holds
    <2>3. \A q \in Chips' : chip'[q].clock # "off"
      BY <1>6, <2>1, <2>2, OnStep DEF Gains, Keeps
    <2>4. QED
      BY <1>6, <2>3 DEF Holds, PerChip, Plainly
  <1>7. CASE f.is = "sane"
    <2>1. f \in F => Holds(SANE)
      BY <1>2, <1>7, FactKinds DEF Holds
    <2>2. \A q \in Chips' : chip'[q].found <= health'[q]
      BY <1>7, <2>1, SaneStep DEF Gains, Keeps
    <2>3. QED
      BY <1>7, <2>2 DEF Holds, PerChip, Plainly
  <1>8. CASE f.is = "top"
    <2>1. fault' = "none" /\ fault = "none"
      BY <1>1, <1>8, FaultStays DEF Robust
    <2>2. /\ Now.cmd = "SET_CONTROL" /\ Now.arg.oon /\ Now.arg.last /\ Now.to = LastOrTop
          /\ Now.need = -1 /\ NUMBERED \in F /\ ANSWERED \in F
      BY <1>8 DEF Gains, Keeps
    <2>3. Holds(NUMBERED) /\ Holds(ANSWERED)
      BY <2>1, <2>2 DEF Trusted
    <2>4. (chip[LastChip].oon)'
      BY <2>1, <2>2, <2>3, TopStep
    <2>5. QED
      BY <1>8, <2>4 DEF Holds, PerChip, Plainly
  <1>9. CASE f.is = "dist"
    <2>1. dist' = [range |-> f.arg, part |-> 0, of |-> numChips']
      BY <1>2, <1>9, DistStep DEF Gains, Keeps
    <2>2. QED
      BY <1>9, <2>1 DEF Holds, PerChip, Plainly
  <1>10. CASE f.is = "checked"
    <2>1. (IF f.arg = "each" THEN AllCores(Expected) ELSE SumOfCores = numChips * Expected)'
      BY <1>2, <1>10, CheckedStep DEF Gains, Keeps
    <2>2. QED
      BY <1>10, <2>1 DEF Holds, PerChip, Plainly
  <1>11. CASE f.is = "fresh"
    <2>1. \/ /\ Now.cmd = "READ_BIST" /\ Now.to = f.at /\ Now.need = Now.to
             /\ Holds(WHOLE) /\ Holds(NUMBERED)
          \/ /\ Holds(f) /\ ~Rereads(Now, f.at)
             /\ Now.cmd \notin {"HW_RESET", "AUTO_ADDRESS", "RUN_BIST", "WRITE_CORE_CFG", "SET_PLL"}
      BY <1>2, <1>11 DEF Gains, Keeps
    <2>2. (f.at \in Chips)' /\ (Address(f.at))' /\ chip'[f.at].clock # "off" =>
             numCores'[f.at].cores = chip'[f.at].found
      BY <1>1, <1>11, <2>1, FreshStep
    <2>3. QED
      BY <1>11, <2>2 DEF Holds, PerChip, Plainly
  <1>12. CASE f.is \notin {"whole", "numbered", "answered", "on", "sane", "top", "dist",
                           "checked", "fresh"}
    BY <1>12 DEF Holds
  <1>13. QED
    BY <1>3, <1>4, <1>5, <1>6, <1>7, <1>8, <1>9, <1>10, <1>11, <1>12

\* A step of the tests keeps the facts known at each command true.
LEMMA KnowGoesOn ==
  ASSUME TypeInv, Next, KnowInv, Recognised, ~Again, GoesOn
  PROVE  KnowInv'
  <1>1. run' = run /\ pc' = pc + 1 /\ pc \in Nat \ {0} /\ Now = Programs[run][pc]
        /\ run.last \in 0 .. MaxChips
    <2>1. Len(Programs[run]) \in Nat /\ run \in Invocations
      BY NowFacts DEF IsProgram, TypeInv
    <2>2. pc \in Nat \ {0}
      BY <2>1 DEF TypeInv
    <2>3. run.last \in 0 .. MaxChips
      BY <2>1, CallTypes DEF Proper, Calls
    <2>4. QED
      BY <2>2, <2>3, Doing DEF GoesOn, Now
  <1>2. SUFFICES ASSUME NEW f, Knows(Programs[run], pc + 1, f), Trusted(f)' PROVE Holds(f)'
    BY <1>1 DEF KnowInv
  <1>3. PICK K : Annotates(K, Programs[run], pc) /\ f \in K[pc + 1]
    <2> DEFINE n == pc + 1
    <2>1. n - 1 = pc /\ n = pc + 1
      BY <1>1
    <2> HIDE DEF n
    <2>2. Knows(Programs[run], n, f)
      BY <1>2 DEF n
    <2>3. \E K : Annotates(K, Programs[run], n - 1) /\ f \in K[n]
      BY <2>2 DEF Knows
    <2>4. QED
      BY <2>1, <2>3
  <1>4. Follows(Now, K[pc], f) /\ Annotates(K, Programs[run], pc - 1)
    <2>1. K[1] = {} /\ \A k \in 1 .. pc : \A g \in K[k + 1] : Follows(Programs[run][k], K[k], g)
      BY <1>1, <1>3 DEF Annotates
    <2>2. pc \in 1 .. pc /\ \A k \in 1 .. pc - 1 : k \in 1 .. pc
      BY <1>1
    <2>3. QED
      BY <1>1, <1>3, <2>1, <2>2 DEF Annotates
  <1>5. \A g \in K[pc] : Trusted(g) => Holds(g)
    BY <1>4 DEF KnowInv, Knows
  <1> DEFINE F == Full(K[pc])
  <1>6. \A g \in F : Trusted(g) => Holds(g)
    BY <1>5, Closure
  <1>7. Gains(Now, F, f) \/ (f \in F /\ Keeps(Now, F, f))
    BY <1>4 DEF Follows
  <1> HIDE DEF F
  <1>8. CASE f.is \in PerChip
    <2>1. fault' = "none" /\ fault = "none"
      BY <1>2, <1>8, FaultStays DEF Trusted, Robust, PerChip, Plainly
    <2>2. \A g \in F : Holds(g)
      BY <1>6, <2>1 DEF Trusted
    <2>3. f \in F /\ Keeps(Now, F, f) => KeepsChip(Now, F, f)
      BY <1>8 DEF Keeps
    <2>4. CASE Gains(Now, F, f)
      BY <1>8, <2>1, <2>2, <2>4, ChipGained
    <2>5. CASE f \in F /\ KeepsChip(Now, F, f)
      BY <1>8, <2>1, <2>2, <2>5, ChipKept
    <2>6. QED
      BY <1>7, <2>3, <2>4, <2>5
  <1>9. CASE f.is \notin PerChip
    BY <1>1, <1>2, <1>6, <1>7, <1>9, GlobalStep
  <1>10. QED
    BY <1>8, <1>9

\* Only facts, and none of them at the first command.
LEMMA KnowNext ==
  ASSUME TypeInv, Next, KnowInv, Recognised
  PROVE  KnowInv'
  <1>1. CASE Again
    <2>1. pc' = 1
      BY <1>1 DEF Again
    <2>2. \A f : ~Knows(Programs[run'], 1, f)
      BY DEF Knows, Annotates
    <2>3. QED
      BY <2>1, <2>2 DEF KnowInv
  <1>2. CASE ~Again /\ GoesOn
    BY <1>2, KnowGoesOn
  <1>3. CASE ~Again /\ Stops
    <2>1. /\ chip' = chip /\ numChips' = numChips /\ numCores' = numCores /\ pc' = pc
          /\ run' = run /\ board' = board /\ health' = health
      BY <1>3, Stopping, Frame DEF SameTest, Stops
    <2>2. dist' = dist
      <3>1. pc \in Nat
        <4>1. Len(Programs[run]) \in Nat
          BY NowFacts DEF IsProgram
        <4>2. QED
          BY <4>1 DEF TypeInv
      <3>2. DistributionNonce => dist' = dist
        BY <1>3, <3>1 DEF DistributionNonce, Advance, Stops
      <3>3. QED
        BY <1>3, <3>2, Frame
    <2>3. ASSUME NEW f, Trusted(f)' PROVE Trusted(f)
      BY <1>3, <2>3, FaultStays DEF Trusted
    <2>4. ASSUME NEW f, Holds(f) PROVE Holds(f)'
      <3>1. /\ Chips' = Chips /\ Reach' = Reach /\ LastChip' = LastChip /\ First' = First
            /\ Size' = Size
        BY <2>1 DEF Chips, Reach, LastChip, First, Size
      <3>2. Numbered' <=> Numbered
        BY <2>1, <3>1 DEF Numbered
      <3>3. /\ Expected' = Expected /\ SumOfCores' = SumOfCores
            /\ (AllCores(Expected))' <=> AllCores(Expected)
            /\ (Address(f.at))' <=> Address(f.at)
        BY <2>1 DEF Expected, AllCores, SumOfCores, Address
      <3>4. \A q : OfChip(q, f)' <=> OfChip(q, f)
        BY <2>1, <2>2 DEF OfChip
      <3>5. QED
        BY <2>1, <2>2, <2>4, <3>1, <3>2, <3>3, <3>4 DEF Holds
    <2>5. QED
      BY <2>1, <2>3, <2>4 DEF KnowInv
  <1>4. QED
    BY <1>1, <1>2, <1>3, Frame

\* The type that the service reads from the chips is that of the board.
LEMMA RecognisedNext ==
  ASSUME TypeInv, Next, Recognised
  PROVE  Recognised'
  <1>1. CASE Again
    BY <1>1 DEF Again, Recognised, world
  <1>2. CASE ~Again
    <2>1. (fault' = "none" => fault = "none") /\ board' = board
      BY <1>2, FaultStays, Frame DEF SameTest
    <2>2. CASE type' = type
      BY <2>1, <2>2 DEF Recognised
    <2>3. CASE GetBoardType
      BY <2>1, <2>3, BringupAssumption DEF GetBoardType, Recognised, GoWrong
    <2>4. QED
      BY <1>2, <2>2, <2>3, Frame
  <1>3. QED
    BY <1>1, <1>2

\* Mining is what the last command of a program says.
MineInv ==
  result = "mining" => Now = Command("END", 0, -1, "mining") /\ pc = Len(Programs[run])

\* A run mines at the END of its program only.
LEMMA MineNext ==
  ASSUME TypeInv, Next, MineInv
  PROVE  MineInv'
  <1>1. SUFFICES ASSUME result' = "mining"
                 PROVE  (Now = Command("END", 0, -1, "mining") /\ pc = Len(Programs[run]))'
    BY SMTT(30) DEF MineInv
  <1>2. End /\ Now.arg = "mining"
    BY <1>1, Frame DEF Next, End, HWResetStep, AutoAddress, Write, GetBoardType, GetPllFreq2Idx,
       SetPllConfigByIdx, ReadBistStep, DistributionNonce, CheckCores, CheckNumChips, CheckId,
       ReadAndCompare, LoopEnds, Again, Advance, Finish, At
  <1>3. Now.cmd = "END" /\ run' = run /\ pc' = pc
    BY <1>2 DEF End, At, NextTest, Finish
  <1>4. Now = Command("END", 0, -1, "mining") /\ pc = Len(Programs[run])
    <2>1. IsEnd(Now) /\ Now \notin Steps
      BY <1>3, NowFacts DEF Steps, Plain, ArgFits
    <2>2. pc = Len(Programs[run])
      BY <2>1, NowFacts
    <2>3. Command("END", 0, -1, "passed").arg = "passed"
      BY DEF Command
    <2>4. QED
      BY <1>2, <2>1, <2>2, <2>3 DEF IsEnd
  <1>5. QED
    BY <1>3, <1>4 DEF Now

\* Nothing is known of a board that was just switched on.
LEMMA KnowInit ==
  ASSUME Init
  PROVE  KnowInv /\ Recognised /\ MineInv
  <1>1. pc = 1 /\ result = "running" /\ type = "ASIC"
    BY DEF Init
  <1>2. \A f : ~Knows(Programs[run], 1, f)
    BY DEF Knows, Annotates
  <1>3. QED
    BY <1>1, <1>2 DEF KnowInv, Recognised, MineInv

-----------------------------------------------------------------------------
(* What is known after the commands of a program, block by block.           *)

JobsIn(s) == Cardinality({k \in 1 .. Len(s) : s[k].cmd = "RUN_JOB"})

\* After the commands s all of G is known, and the jobs in it are those of s.
Known(s, G) ==
  /\ s \in Seq(Steps)
  /\ \E K : Annotates(K, s, Len(s)) /\ G \subseteq Full(K[Len(s) + 1])
  /\ \A f \in G : f.is = "RUN_JOB" => f.arg = JobsIn(s)

\* The more is known the more follows.
LEMMA More ==
  ASSUME NEW A, NEW B, A \subseteq B, NEW s, NEW f
  PROVE  /\ Gains(s, A, f) => Gains(s, B, f)
         /\ Keeps(s, A, f) => Keeps(s, B, f)
  <1>1. /\ SentTo(s, A, f.at) => SentTo(s, B, f.at)
        /\ GoldenFor(A, f.at, f.arg) => GoldenFor(B, f.at, f.arg)
    BY DEF Sure, SentTo, GoldenFor
  <1>2. NoneBack(s, A) => NoneBack(s, B)
    BY DEF NoneBack
  <1>3. Gains(s, A, f) => Gains(s, B, f)
    BY <1>1, <1>2 DEF Gains
  <1>4. KeepsChip(s, A, f) => KeepsChip(s, B, f)
    BY <1>2 DEF KeepsChip
  <1>5. Keeps(s, A, f) => Keeps(s, B, f)
    BY <1>4 DEF Keeps
  <1>6. QED
    BY <1>3, <1>5

\* More facts before a command keep and make no fewer after it.
LEMMA Monotone ==
  ASSUME NEW G, NEW H, G \subseteq H, NEW s, NEW f
  PROVE  /\ G \subseteq Full(G) /\ Full(G) \subseteq Full(H)
         /\ Gains(s, Full(G), f) => Gains(s, Full(H), f)
         /\ Keeps(s, Full(G), f) => Keeps(s, Full(H), f)
  <1>1. G \subseteq Full(G) /\ Full(G) \subseteq Full(H)
    BY DEF Full
  <1>2. QED
    BY <1>1, More

\* So a fact that follows from some facts follows from more of them.
LEMMA StillFollows ==
  ASSUME NEW s, NEW G, NEW H, Full(G) \subseteq Full(H), NEW f, Follows(s, G, f)
  PROVE  Follows(s, H, f)
  <1>1. /\ Gains(s, Full(G), f) => Gains(s, Full(H), f)
        /\ Keeps(s, Full(G), f) => Keeps(s, Full(H), f)
    BY More
  <1>2. QED
    BY <1>1 DEF Follows

\* There is nothing more to know about all chips, or about each.
LEMMA FullFull ==
  ASSUME NEW G
  PROVE  Full(Full(G)) \subseteq Full(G)
  <1> DEFINE F == Full(G)
  <1>1. 1 \in Addresses /\ \A a \in Addresses : a # 0
    BY BringupAssumption DEF Addresses
  <1>2. \A f \in F : f \in G \/ f.is \in PerChip
    BY DEF Full, Fact
  <1>3. NUMBERED.is \notin PerChip /\ ANSWERED.is \notin PerChip
    BY DEF NUMBERED, ANSWERED, Fact, PerChip, Plainly
  <1>4. \A is, at, arg : Fact(is, at, arg).is = is /\ Fact(is, at, arg).at = at
                        /\ Fact(is, at, arg).arg = arg
    BY DEF Fact
  <1>5. ASSUME NEW is \in PerChip, NEW arg, NUMBERED \in G, ANSWERED \in G,
               \A a \in Addresses : Fact(is, a, arg) \in G
        PROVE  Fact(is, 0, arg) \in F
    <2>1. Fact(is, 1, arg) \in G
      BY <1>1, <1>5
    <2> DEFINE f == Fact(is, 0, arg)
    <2>2. f.is = is /\ f.arg = arg /\ f \in {Fact(g.is, 0, g.arg) : g \in G}
      BY <1>4, <2>1
    <2> HIDE DEF f
    <2>3. f \in F
      BY <1>5, <2>2 DEF Full
    <2>4. QED
      BY <2>3 DEF f
  <1>6. ASSUME NEW is \in PerChip, NEW arg, Fact(is, 0, arg) \in G, NEW a \in Addresses
        PROVE  Fact(is, a, arg) \in F
    <2>1. Fact(is, 0, arg).is = is /\ Fact(is, 0, arg).arg = arg
      BY <1>4
    <2>2. QED
      BY <1>6, <2>1 DEF Full
  <1>7. ASSUME NEW f \in F, f \notin G
        PROVE  /\ f.is \in PerChip
               /\ \/ f = Fact(f.is, 0, f.arg) /\ \A a \in Addresses : Fact(f.is, a, f.arg) \in G
                  \/ f.at \in Addresses /\ Fact(f.is, 0, f.arg) \in G
    <2>1. CASE \E g \in G : f = Fact(g.is, 0, g.arg) /\ f.is \in PerChip
                           /\ \A a \in Addresses : Fact(f.is, a, f.arg) \in G
      BY <1>4, <2>1
    <2>2. CASE \E g \in G, a \in Addresses :
                 g = Fact(g.is, 0, g.arg) /\ g.is \in PerChip /\ f = Fact(g.is, a, g.arg)
      BY <1>4, <2>2
    <2>3. QED
      BY <1>7, <2>1, <2>2 DEF Full
  <1> HIDE DEF F
  <1>8. SUFFICES ASSUME NEW f \in Full(F) PROVE f \in F
    BY DEF F
  <1>9. CASE \E g \in F : /\ f = Fact(g.is, 0, g.arg) /\ NUMBERED \in F /\ ANSWERED \in F
                         /\ f.is \in PerChip /\ \A a \in Addresses : Fact(f.is, a, f.arg) \in F
    <2>1. f = Fact(f.is, 0, f.arg) /\ NUMBERED \in G /\ ANSWERED \in G
      BY <1>2, <1>3, <1>4, <1>9
    <2>2. CASE \A a \in Addresses : Fact(f.is, a, f.arg) \in G
      BY <1>5, <1>9, <2>1, <2>2
    <2>3. ASSUME NEW a \in Addresses, Fact(f.is, a, f.arg) \notin G PROVE f \in G
      <3> DEFINE h == Fact(f.is, a, f.arg)
      <3>1. h \in F /\ h \notin G /\ h.at = a /\ h.is = f.is /\ h.arg = f.arg /\ a # 0
        BY <1>1, <1>4, <1>9, <2>3
      <3> HIDE DEF h
      <3>2. h # Fact(h.is, 0, h.arg)
        BY <1>4, <3>1
      <3>3. Fact(h.is, 0, h.arg) \in G
        BY <1>7, <3>1, <3>2
      <3>4. QED
        BY <2>1, <3>1, <3>3
    <2>4. \A g \in G : g \in F
      BY DEF F, Full
    <2>5. QED
      BY <2>2, <2>3, <2>4
  <1>10. CASE \E g \in F, a \in Addresses :
                g = Fact(g.is, 0, g.arg) /\ g.is \in PerChip /\ f = Fact(g.is, a, g.arg)
    <2>1. PICK g \in F, a \in Addresses :
            g = Fact(g.is, 0, g.arg) /\ g.is \in PerChip /\ f = Fact(g.is, a, g.arg)
      BY <1>10
    <2>2. CASE g \in G
      BY <1>6, <2>1, <2>2
    <2>3. CASE g \notin G
      <3>1. g.at = 0 /\ g.at \notin Addresses
        BY <1>1, <1>4, <2>1
      <3>2. Fact(g.is, a, g.arg) \in G
        BY <1>7, <2>1, <2>3, <3>1
      <3>3. QED
        BY <2>1, <3>2 DEF F, Full
    <2>4. QED
      BY <2>2, <2>3
  <1>11. QED
    BY <1>8, <1>9, <1>10 DEF Full

\* Commands after which what is known goes on step by step.
LEMMA GoOn ==
  ASSUME NEW s, NEW G, Known(s, G), NEW t \in Seq(Steps), NEW J, J[1] \subseteq G,
         \A k \in 1 .. Len(t) : \A f \in J[k + 1] : Follows(t[k], J[k], f),
         \A f \in J[Len(t) + 1] : f.is = "RUN_JOB" => f.arg = JobsIn(s \o t)
  PROVE  Known(s \o t, J[Len(t) + 1])
  <1>1. s \in Seq(Steps) /\ Len(s) \in Nat /\ Len(t) \in Nat
    BY DEF Known
  <1>2. PICK K : Annotates(K, s, Len(s)) /\ G \subseteq Full(K[Len(s) + 1])
    BY DEF Known
  <1> DEFINE u == s \o t
             L == [k \in 1 .. Len(s) + Len(t) + 1 |->
                     IF k <= Len(s) + 1 THEN K[k] ELSE J[k - Len(s)]]
  <1>3. /\ u \in Seq(Steps) /\ Len(u) = Len(s) + Len(t)
        /\ \A k \in 1 .. Len(s) : u[k] = s[k]
        /\ \A k \in 1 .. Len(t) : u[Len(s) + k] = t[k]
    BY <1>1, ConcatFacts
  <1>4. /\ \A k \in 1 .. Len(s) + 1 : L[k] = K[k]
        /\ \A k \in 2 .. Len(t) + 1 : L[Len(s) + k] = J[k]
    <2>1. \A k \in 1 .. Len(s) + 1 : k \in 1 .. Len(s) + Len(t) + 1 /\ k <= Len(s) + 1
      BY <1>1
    <2>2. \A k \in 2 .. Len(t) + 1 :
            /\ Len(s) + k \in 1 .. Len(s) + Len(t) + 1 /\ ~(Len(s) + k <= Len(s) + 1)
            /\ Len(s) + k - Len(s) = k
      BY <1>1
    <2>3. QED
      BY <2>1, <2>2
  <1> HIDE DEF u, L
  <1>5. L[1] = {}
    <2>1. 1 \in 1 .. Len(s) + 1
      BY <1>1
    <2>2. QED
      BY <1>2, <1>4, <2>1 DEF Annotates
  <1>6. ASSUME NEW k \in 1 .. Len(s) + Len(t), NEW f \in L[k + 1] PROVE Follows(u[k], L[k], f)
    <2>1. CASE k <= Len(s)
      <3>1. k + 1 \in 1 .. Len(s) + 1 /\ k \in 1 .. Len(s) + 1 /\ k \in 1 .. Len(s)
        BY <1>1, <2>1
      <3>2. L[k + 1] = K[k + 1] /\ L[k] = K[k] /\ u[k] = s[k]
        BY <1>3, <1>4, <3>1
      <3>3. QED
        BY <1>2, <1>6, <3>1, <3>2 DEF Annotates
    <2>2. CASE k > Len(s)
      <3> DEFINE i == k - Len(s)
      <3>1. i \in 1 .. Len(t) /\ i + 1 \in 2 .. Len(t) + 1
            /\ k = Len(s) + i /\ k + 1 = Len(s) + (i + 1)
        BY <1>1, <2>2
      <3> HIDE DEF i
      <3>2. L[k + 1] = J[i + 1] /\ u[k] = t[i]
        BY <1>3, <1>4, <3>1
      <3>3. Follows(u[k], J[i], f)
        BY <1>6, <3>1, <3>2
      <3>4. Full(J[i]) \subseteq Full(L[k])
        <4>1. CASE i = 1
          <5>1. k = Len(s) + 1 /\ k \in 1 .. Len(s) + 1
            BY <1>1, <3>1, <4>1
          <5>2. J[i] \subseteq Full(L[k])
            BY <1>2, <1>4, <4>1, <5>1
          <5>3. Full(J[i]) \subseteq Full(Full(L[k]))
            BY <5>2, Monotone
          <5>4. QED
            BY <5>3, FullFull
        <4>2. CASE i # 1
          <5>1. i \in 2 .. Len(t) + 1
            BY <1>1, <3>1, <4>2
          <5>2. L[k] = J[i]
            BY <1>4, <3>1, <5>1
          <5>3. QED
            BY <5>2
        <4>3. QED
          BY <4>1, <4>2
      <3>5. QED
        BY <3>3, <3>4, StillFollows
    <2>3. QED
      BY <1>1, <2>1, <2>2
  <1>7. Annotates(L, u, Len(u))
    BY <1>3, <1>5, <1>6 DEF Annotates
  <1>8. J[Len(t) + 1] \subseteq Full(L[Len(u) + 1])
    <2>1. CASE Len(t) = 0
      <3>1. Len(u) + 1 = Len(s) + 1 /\ Len(u) + 1 \in 1 .. Len(s) + 1 /\ Len(t) + 1 = 1
        BY <1>1, <1>3, <2>1
      <3>2. QED
        BY <1>2, <1>4, <3>1
    <2>2. CASE Len(t) # 0
      <3>1. Len(t) + 1 \in 2 .. Len(t) + 1 /\ Len(u) + 1 = Len(s) + (Len(t) + 1)
        BY <1>1, <1>3, <2>2
      <3>2. J[Len(t) + 1] = L[Len(u) + 1]
        BY <1>4, <3>1
      <3>3. QED
        BY <3>2 DEF Full
    <2>3. QED
      BY <2>1, <2>2
  <1>9. QED
    BY <1>3, <1>7, <1>8 DEF Known, u

\* Commands other than RUN_JOB leave the number of jobs alone.
LEMMA JobsSame ==
  ASSUME NEW s \in Seq(Steps), NEW t \in Seq(Steps), \A k \in 1 .. Len(t) : t[k].cmd # "RUN_JOB"
  PROVE  JobsIn(s \o t) = JobsIn(s)
  <1> DEFINE u == s \o t
  <1>0. Len(s) \in Nat /\ Len(t) \in Nat
    OBVIOUS
  <1>a. /\ Len(u) = Len(s) + Len(t)
        /\ \A k \in 1 .. Len(s) : u[k] = s[k]
        /\ \A k \in 1 .. Len(t) : u[Len(s) + k] = t[k]
    BY <1>0, ConcatFacts
  <1> HIDE DEF u
  <1>1. /\ Len(u) = Len(s) + Len(t) /\ Len(s) \in Nat /\ Len(t) \in Nat
        /\ \A k \in 1 .. Len(s) : u[k] = s[k]
        /\ \A k \in 1 .. Len(t) : u[Len(s) + k] = t[k]
        /\ \A k \in 1 .. Len(s) + Len(t) :
             k \in 1 .. Len(s) \/ (k - Len(s) \in 1 .. Len(t) /\ k = Len(s) + (k - Len(s)))
    BY <1>0, <1>a
  <1>2. \A k \in 1 .. Len(s) : k \in 1 .. Len(u)
    BY <1>1
  <1>3. ASSUME NEW k \in 1 .. Len(u), u[k].cmd = "RUN_JOB" PROVE k \in 1 .. Len(s)
    <2>1. SUFFICES ASSUME k \notin 1 .. Len(s) PROVE FALSE
      OBVIOUS
    <2> DEFINE i == k - Len(s)
    <2>2. i \in 1 .. Len(t) /\ k = Len(s) + i
      BY <1>1, <2>1
    <2> HIDE DEF i
    <2>3. QED
      BY <1>1, <1>3, <2>2
  <1>4. {k \in 1 .. Len(u) : u[k].cmd = "RUN_JOB"} = {k \in 1 .. Len(s) : s[k].cmd = "RUN_JOB"}
    <2>1. \A k \in 1 .. Len(u) : u[k].cmd = "RUN_JOB" => s[k].cmd = "RUN_JOB" /\ k \in 1 .. Len(s)
      BY <1>1, <1>3
    <2>2. \A k \in 1 .. Len(s) : s[k].cmd = "RUN_JOB" => u[k].cmd = "RUN_JOB" /\ k \in 1 .. Len(u)
      BY <1>1, <1>2
    <2>3. QED
      BY <2>1, <2>2, Zenon
  <1>5. QED
    BY <1>4 DEF JobsIn, u

\* RUN_JOB adds one.
LEMMA JobsMore ==
  ASSUME NEW s \in Seq(Steps), NEW c \in Steps, c.cmd = "RUN_JOB"
  PROVE  JobsIn(s \o <<c>>) = JobsIn(s) + 1
  <1> DEFINE u == s \o <<c>>
             S == {k \in 1 .. Len(s) : s[k].cmd = "RUN_JOB"}
  <1>1. <<c>> \in Seq(Steps) /\ Len(<<c>>) = 1 /\ <<c>>[1] = c
    OBVIOUS
  <1>2. /\ Len(u) = Len(s) + 1 /\ Len(s) \in Nat
        /\ \A k \in 1 .. Len(s) : u[k] = s[k]
        /\ u[Len(s) + 1] = c
    <2>1. /\ Len(u) = Len(s) + Len(<<c>>) /\ Len(s) \in Nat
          /\ \A k \in 1 .. Len(s) : u[k] = s[k]
          /\ \A k \in 1 .. Len(<<c>>) : u[Len(s) + k] = <<c>>[k]
      BY <1>1, ConcatFacts
    <2>2. QED
      BY <1>1, <2>1
  <1> HIDE DEF u
  <1>3. {k \in 1 .. Len(u) : u[k].cmd = "RUN_JOB"} = S \cup {Len(s) + 1}
    <2>1. 1 .. Len(u) = (1 .. Len(s)) \cup {Len(s) + 1}
      BY <1>2
    <2>2. QED
      BY <1>2, <2>1
  <1>4. Len(s) + 1 \notin S /\ S \subseteq 1 .. Len(s)
    BY <1>2
  <1>5. IsFiniteSet(S)
    <2>1. IsFiniteSet(1 .. Len(s))
      <3>1. 1 \in Int /\ Len(s) \in Int
        BY <1>2
      <3>2. QED
        BY <3>1, FS_Interval
    <2>2. QED
      BY <1>4, <2>1, FS_Subset
  <1> HIDE DEF S
  <1>6. Cardinality(S \cup {Len(s) + 1}) = Cardinality(S) + 1
    BY <1>4, <1>5, FS_AddElement
  <1>7. JobsIn(u) = JobsIn(s) + 1
    <2>1. JobsIn(u) = Cardinality(S \cup {Len(s) + 1})
      BY <1>3, Zenon DEF JobsIn
    <2>2. JobsIn(s) = Cardinality(S)
      BY Zenon DEF JobsIn, S
    <2>3. QED
      BY <1>6, <2>1, <2>2
  <1>8. QED
    BY <1>7 DEF u

\* One command.
LEMMA OneCommand ==
  ASSUME NEW s, NEW G, Known(s, G), NEW c \in Steps, NEW H, \A f \in H : Follows(c, G, f),
         \A f \in H : f.is = "RUN_JOB" => f.arg = JobsIn(s \o <<c>>)
  PROVE  Known(s \o <<c>>, H)
  <1> DEFINE J == [k \in {1, 2} |-> IF k = 1 THEN G ELSE H]
  <1>1. <<c>> \in Seq(Steps) /\ Len(<<c>>) = 1 /\ <<c>>[1] = c
    OBVIOUS
  <1>2. J[1] = G /\ J[2] = H /\ 1 + 1 = 2
    OBVIOUS
  <1> HIDE DEF J
  <1>3. J[Len(<<c>>) + 1] = H
    BY <1>1, <1>2
  <1>4. \A k \in 1 .. Len(<<c>>) : \A f \in J[k + 1] : Follows(<<c>>[k], J[k], f)
    <2>1. \A k \in 1 .. Len(<<c>>) : k = 1 /\ k + 1 = 2
      BY <1>1
    <2>2. QED
      BY <1>1, <1>2, <2>1
  <1>5. Known(s \o <<c>>, J[Len(<<c>>) + 1])
    BY <1>1, <1>2, <1>3, <1>4, GoOn
  <1>6. QED
    BY <1>3, <1>5

\* A block of commands that keeps P and gains N.
LEMMA Block ==
  ASSUME NEW s, NEW G, Known(s, G), NEW t \in Seq(Steps), NEW P, P \subseteq G,
         \A k \in 1 .. Len(t) : \A f \in P : Keeps(t[k], Full(P), f),
         NEW N, \A f \in N : /\ f.is # "RUN_JOB"
                             /\ \E k \in 1 .. Len(t) :
                                  /\ Gains(t[k], Full(P), f)
                                  /\ \A j \in k + 1 .. Len(t) : Keeps(t[j], Full(P), f)
  PROVE  Known(s \o t, P \cup N)
  <1> DEFINE Early(k) == {f \in N : \E i \in 1 .. k - 1 :
                                      /\ Gains(t[i], Full(P), f)
                                      /\ \A j \in i + 1 .. Len(t) : Keeps(t[j], Full(P), f)}
             J == [k \in 1 .. Len(t) + 1 |-> P \cup Early(k)]
  <1>1. Len(t) \in Nat /\ s \in Seq(Steps)
    BY DEF Known
  <1>2. J[1] = P
    <2>1. Early(1) = {}
      OBVIOUS
    <2>2. 1 \in 1 .. Len(t) + 1
      BY <1>1
    <2>3. QED
      BY <2>1, <2>2
  <1>3. J[Len(t) + 1] = P \cup N
    <2>1. Early(Len(t) + 1) = N
      <3>1. Len(t) + 1 - 1 = Len(t)
        BY <1>1
      <3>2. QED
        BY <3>1
    <2>2. Len(t) + 1 \in 1 .. Len(t) + 1
      BY <1>1
    <2>3. QED
      BY <2>1, <2>2
  <1>4. ASSUME NEW k \in 1 .. Len(t), NEW f \in J[k + 1] PROVE Follows(t[k], J[k], f)
    <2>1. J[k] = P \cup Early(k) /\ J[k + 1] = P \cup Early(k + 1) /\ k + 1 - 1 = k
      <3>1. k \in 1 .. Len(t) + 1 /\ k + 1 \in 1 .. Len(t) + 1 /\ k + 1 - 1 = k
        BY <1>1
      <3>2. \A i \in 1 .. Len(t) + 1 : J[i] = P \cup Early(i)
        BY Zenon
      <3>3. QED
        BY <3>1, <3>2, Zenon
    <2>a. P \subseteq J[k]
      BY <2>1
    <2>2. Full(P) \subseteq Full(J[k]) /\ J[k] \subseteq Full(J[k])
          /\ (Gains(t[k], Full(P), f) => Gains(t[k], Full(J[k]), f))
          /\ (Keeps(t[k], Full(P), f) => Keeps(t[k], Full(J[k]), f))
      <3> HIDE DEF J, Early
      <3>1. \A A, B, c : A \subseteq B =>
              /\ B \subseteq Full(B) /\ Full(A) \subseteq Full(B)
              /\ Gains(c, Full(A), f) => Gains(c, Full(B), f)
              /\ Keeps(c, Full(A), f) => Keeps(c, Full(B), f)
        <4> TAKE A, B, c
        <4> HAVE A \subseteq B
        <4>1. B \subseteq Full(B)
          BY Monotone
        <4>2. QED
          BY <4>1, Monotone
      <3>2. QED
        BY <2>a, <3>1, Zenon
    <2>3. CASE f \in P
      BY <2>1, <2>2, <2>3 DEF Follows
    <2>4. CASE f \in Early(k)
      <3>1. PICK i \in 1 .. k - 1 : \A j \in i + 1 .. Len(t) : Keeps(t[j], Full(P), f)
        BY <2>4
      <3>2. k \in i + 1 .. Len(t)
        BY <1>1, <3>1
      <3>3. QED
        BY <2>1, <2>2, <2>4, <3>1, <3>2 DEF Follows
    <2>5. CASE f \in Early(k + 1) /\ f \notin Early(k)
      <3>1. f \in N
        BY <2>5
      <3>2. PICK i \in 1 .. k : /\ Gains(t[i], Full(P), f)
                                /\ \A j \in i + 1 .. Len(t) : Keeps(t[j], Full(P), f)
        BY <2>1, <2>5
      <3>3. i = k
        <4>1. i \notin 1 .. k - 1
          BY <2>5, <3>1, <3>2
        <4>2. QED
          BY <1>1, <4>1
      <3>4. QED
        BY <2>2, <3>2, <3>3 DEF Follows
    <2>6. QED
      BY <1>4, <2>1, <2>3, <2>4, <2>5
  <1> HIDE DEF J
  <1>5. ASSUME NEW f \in P \cup N, f.is = "RUN_JOB" PROVE f.arg = JobsIn(s \o t)
    <2>1. f \in P
      BY <1>5
    <2>2. \A k \in 1 .. Len(t) : t[k].cmd # "RUN_JOB"
      BY <1>5, <2>1 DEF Keeps, KeepsChip, PerChip
    <2>3. JobsIn(s \o t) = JobsIn(s)
      BY <1>1, <2>2, JobsSame
    <2>4. f.arg = JobsIn(s)
      BY <1>5, <2>1 DEF Known
    <2>5. QED
      BY <2>3, <2>4
  <1>6. Known(s \o t, J[Len(t) + 1])
    BY <1>2, <1>3, <1>4, <1>5, GoOn
  <1>7. QED
    BY <1>3, <1>6

\* What is known of all chips is known of each, and the other way round.
LEMMA Closed ==
  ASSUME NEW s, NEW G, Known(s, G)
  PROVE  Known(s, Full(G))
  <1>1. PICK K : Annotates(K, s, Len(s)) /\ G \subseteq Full(K[Len(s) + 1])
    BY DEF Known
  <1> DEFINE F == K[Len(s) + 1]
  <1>2. Full(G) \subseteq Full(F)
    <2> HIDE DEF F
    <2>1. G \subseteq Full(F)
      BY <1>1 DEF F
    <2>2. Full(G) \subseteq Full(Full(F))
      BY <2>1, Monotone
    <2>3. QED
      BY <2>2, FullFull
  <1>3. ASSUME NEW f \in Full(G), f.is = "RUN_JOB" PROVE f.arg = JobsIn(s)
    <2>1. \E g \in G : g.is = f.is /\ g.arg = f.arg
      BY <1>3 DEF Full, Fact
    <2>2. QED
      BY <1>3, <2>1 DEF Known
  <1>4. QED
    BY <1>1, <1>2, <1>3 DEF Known

\* What is known may be forgotten.
LEMMA KnownPart ==
  ASSUME NEW s, NEW G, Known(s, G), NEW H, H \subseteq G
  PROVE  Known(s, H)
  BY DEF Known

-----------------------------------------------------------------------------
(* What the pieces of the programs keep of what is known, and what they add. *)

\* The kinds of facts that command s may spoil.
Spoils(s, is) ==
  \/ is = s.cmd /\ s.cmd \in Plainly \cup {"WRITE_CORE_CFG", "RUN_BIST"}
  \/ s.cmd = "DISTRIBUTE" /\ is \in {"dist", "WRITE_NONCE"}
  \/ s.cmd = "PLL_OFF" /\ is \in {"on", "SET_PLL", "PLL_OFF"}
  \/ s.cmd = "RUN_BIST" /\ is \in {"WRITE_CORE_CFG", "fresh"}
  \/ s.cmd = "WRITE_CORE_CFG" /\ is \in {"RUN_BIST", "sane", "fresh"}
  \/ s.cmd = "READ_BIST" /\ is \in {"checked", "fresh"}
  \/ s.cmd = "SET_PLL" /\ is = "fresh"

Special == {"HW_RESET", "AUTO_ADDRESS", "SET_CONTROL", "RESET", "RUN_JOB"}

\* H has what G has but the kinds X.
Kept(G, H, X) == \A f \in G : f.is \notin X \cup {"top"} => f \in H

\* A command keeps the facts it does not spoil.
LEMMA KeepsPlain ==
  ASSUME NEW s, s.cmd \notin Special, NEW F, NEW f, f.is # "top", ~Spoils(s, f.is)
  PROVE  Keeps(s, F, f)
  <1>1. s.cmd \notin {"HW_RESET", "AUTO_ADDRESS", "SET_CONTROL", "RESET", "RUN_JOB"}
    BY DEF Special
  <1>2. ~Rereads(s, f.at) \/ f.is # "fresh"
    BY DEF Rereads, Spoils
  <1>3. KeepsChip(s, F, f)
    BY <1>1 DEF KeepsChip, Spoils, IsShare, Plainly
  <1>4. QED
    BY <1>1, <1>2, <1>3 DEF Keeps, Spoils

\* One command.
LEMMA Single ==
  ASSUME NEW s, NEW G, Known(s, G), NEW c \in Steps, c.cmd \notin Special,
         NEW N, \A f \in N : f.is # "RUN_JOB" /\ Gains(c, Full(G), f)
  PROVE  Known(s \o <<c>>, {f \in G : f.is # "top" /\ ~Spoils(c, f.is)} \cup N)
  <1> DEFINE H == {f \in G : f.is # "top" /\ ~Spoils(c, f.is)} \cup N
  <1>1. \A f \in H : Follows(c, G, f)
    <2>1. \A f \in G : f \in Full(G)
      BY DEF Full
    <2>2. QED
      BY <2>1, KeepsPlain DEF Follows
  <1>2. ASSUME NEW f \in H, f.is = "RUN_JOB" PROVE f.arg = JobsIn(s \o <<c>>)
    <2>1. f \in G
      BY <1>2
    <2>2. f.arg = JobsIn(s) /\ s \in Seq(Steps)
      BY <1>2, <2>1 DEF Known
    <2>3. JobsIn(s \o <<c>>) = JobsIn(s)
      <3>1. <<c>> \in Seq(Steps) /\ \A k \in 1 .. Len(<<c>>) : <<c>>[k].cmd # "RUN_JOB"
        BY DEF Special
      <3>2. QED
        BY <2>2, <3>1, JobsSame
    <2>4. QED
      BY <2>2, <2>3
  <1> HIDE DEF H
  <1>3. Known(s \o <<c>>, H)
    BY <1>1, <1>2, OneCommand
  <1>4. QED
    BY <1>3 DEF H

\* One command to each chip, which leaves the facts about the others alone.
Rowed == {"SET_DISABLE", "WRITE_NONCE", "WRITE_CORE_CFG", "SET_PLL", "READ_BIST", "RUN_BIST",
          "CHECK_ID"}

\* The commands of a loop over the chips.
LEMMA EachAt ==
  ASSUME NEW cmd, NEW arg
  PROVE  \A a \in Addresses : /\ Each(cmd, arg)[a] = Command(cmd, a, a, arg)
                              /\ Each(cmd, arg)[a].cmd = cmd /\ Each(cmd, arg)[a].arg = arg
                              /\ Each(cmd, arg)[a].to = a /\ Each(cmd, arg)[a].need = a
  BY DEF Each, Command

\* A loop over the chips that adds a fact about each address.
LEMMA Row ==
  ASSUME NEW s, NEW G, Known(s, G), NEW cmd \in Rowed, NEW arg, ArgFits(cmd, arg),
         NEW P, P = {f \in G : f.is # "top" /\ ~Spoils(Command(cmd, 1, 1, arg), f.is)},
         NEW N, \A f \in N :
           /\ f.is = cmd \/ (f.is = "fresh" /\ cmd = "READ_BIST")
           /\ f.at \in Addresses /\ Gains(Command(cmd, f.at, f.at, arg), Full(P), f)
  PROVE  Known(s \o Each(cmd, arg), Full(P \cup N))
  <1> DEFINE t == Each(cmd, arg)
  <1>1. t \in Seq(Steps) /\ Len(t) = MaxChips
    BY AllType
  <1>2. 1 .. Len(t) = Addresses
    BY <1>1 DEF Addresses
  <1>3. \A k \in 1 .. Len(t) : /\ t[k] = Command(cmd, k, k, arg)
                               /\ t[k].cmd = cmd /\ t[k].to = k
    BY <1>2, EachAt
  <1> HIDE DEF t
  <1>4. ASSUME NEW k \in 1 .. Len(t), NEW f \in P PROVE Keeps(t[k], Full(P), f)
    <2>1. t[k].cmd = cmd /\ Command(cmd, 1, 1, arg).cmd = cmd /\ cmd \notin Special
      BY <1>3 DEF Command, Rowed, Special
    <2>2. ~Spoils(t[k], f.is) /\ f.is # "top"
      BY <1>4, <2>1 DEF Spoils
    <2>3. QED
      BY <2>1, <2>2, KeepsPlain
  <1>5. ASSUME NEW f \in N
        PROVE  /\ f.is # "RUN_JOB"
               /\ \E k \in 1 .. Len(t) : /\ Gains(t[k], Full(P), f)
                                         /\ \A j \in k + 1 .. Len(t) : Keeps(t[j], Full(P), f)
    <2>1. f.at \in 1 .. Len(t) /\ Gains(t[f.at], Full(P), f) /\ f.is # "RUN_JOB" /\ f.is # "top"
      BY <1>2, <1>3 DEF Rowed
    <2>2. ASSUME NEW j \in f.at + 1 .. Len(t) PROVE Keeps(t[j], Full(P), f)
      <3>1. j \in 1 .. Len(t) /\ j # f.at /\ j >= 1 /\ f.at >= 1
        BY <1>1, <2>1, <2>2, BringupAssumption
      <3>2. t[j].cmd = cmd /\ t[j].to = j /\ Elsewhere(t[j], f) /\ ~Rereads(t[j], f.at)
        BY <1>3, <3>1 DEF Elsewhere, Rereads
      <3>3. CASE f.is = cmd
        <4>1. KeepsChip(t[j], Full(P), f)
          BY <3>2, <3>3 DEF KeepsChip, Rowed, Plainly
        <4>2. f.is \notin {"whole", "numbered", "on", "sane", "top", "dist", "checked", "fresh"}
          BY <3>3 DEF Rowed
        <4>3. QED
          BY <4>1, <4>2 DEF Keeps
      <3>4. CASE f.is = "fresh" /\ cmd = "READ_BIST"
        BY <3>2, <3>4 DEF Keeps, PerChip, Plainly
      <3>5. QED
        BY <3>3, <3>4
    <2>3. QED
      BY <2>1, <2>2
  <1>6. P \subseteq G
    OBVIOUS
  <1>7. Known(s \o t, P \cup N)
    BY <1>1, <1>4, <1>5, <1>6, Block
  <1>8. QED
    BY <1>7, Closed DEF t

\* A fact about each address is one about all chips.
LEMMA ForAll ==
  ASSUME NEW G, NUMBERED \in G, ANSWERED \in G, NEW is \in PerChip, NEW arg,
         \A a \in Addresses : Fact(is, a, arg) \in G
  PROVE  Fact(is, 0, arg) \in Full(G)
  <1>1. Fact(is, 1, arg) \in G
    BY BringupAssumption DEF Addresses
  <1> DEFINE f == Fact(is, 0, arg)
  <1>2. f.is = is /\ f.arg = arg /\ f \in {Fact(g.is, 0, g.arg) : g \in G}
    <2>1. Fact(is, 1, arg).is = is /\ Fact(is, 1, arg).arg = arg /\ f.is = is /\ f.arg = arg
      BY DEF Fact
    <2>2. QED
      BY <1>1, <2>1
  <1> HIDE DEF f
  <1>3. f \in Full(G)
    BY <1>2 DEF Full
  <1>4. QED
    BY <1>3 DEF f

\* The fields of the facts.
LEMMA Kinds ==
  /\ WHOLE.is = "whole" /\ NUMBERED.is = "numbered" /\ ANSWERED.is = "answered" /\ ON.is = "on"
  /\ SANE.is = "sane"
  /\ \A x : /\ Dist(x).is = "dist" /\ Checked(x).is = "checked" /\ Fresh(x).is = "fresh"
            /\ Job(x).is = "RUN_JOB" /\ Oon(x).is = "SET_CONTROL" /\ Clock(x).is = "SET_PLL"
  /\ \A x, y : Bist(x, y).is = "RUN_BIST"
  /\ Unclocked.is = "PLL_OFF"
  /\ \A is, at, arg : Fact(is, at, arg).is = is /\ Fact(is, at, arg).at = at
                      /\ Fact(is, at, arg).arg = arg
  BY DEF WHOLE, NUMBERED, ANSWERED, ON, SANE, Dist, Checked, Fresh, Job, Oon, Clock, Bist,
     Unclocked, Fact

\* Command c, which spoils the kinds X and adds the facts N.
Adds(c, G, X, N) ==
  /\ c \in Steps /\ c.cmd \notin Special
  /\ \A is : Spoils(c, is) => is \in X
  /\ \A f \in N : f.is # "RUN_JOB" /\ Gains(c, Full(G), f)

\* After the commands t the facts G but the kinds X are known, and the facts N.
Goes(s, t, G, X, N) == \E H : Known(s \o t, H) /\ Kept(G, H, X) /\ N \subseteq H

\* One command is a list of commands.
LEMMA Sole ==
  ASSUME NEW s, NEW G, NEW c, NEW X, NEW N, Known(s, G), Adds(c, G, X, N)
  PROVE  Goes(s, <<c>>, G, X, N)
  <1> DEFINE H == {f \in G : f.is # "top" /\ ~Spoils(c, f.is)} \cup N
  <1>1. Known(s \o <<c>>, H)
    BY Single DEF Adds
  <1>2. Kept(G, H, X)
    BY DEF Kept, Adds
  <1>3. N \subseteq H
    OBVIOUS
  <1>4. QED
    BY <1>1, <1>2, <1>3 DEF Goes

\* Command c to all chips.
LEMMA ToAll ==
  ASSUME NEW cmd, NEW arg, ArgFits(cmd, arg)
  PROVE  LET c == Command(cmd, 0, -1, arg)
         IN  /\ c \in Steps /\ c.cmd = cmd /\ c.arg = arg /\ c.to = 0 /\ c.need = -1
             /\ All(cmd, arg) = <<c>> /\ Host(cmd, arg) = <<c>>
             /\ \A G, a : SentTo(c, G, a)
  <1>1. Command(cmd, 0, -1, arg) \in Steps
    BY CommandType, BringupAssumption
  <1>2. QED
    BY <1>1 DEF Command, All, Host, Step, SentTo, Sure

\* A register that is written with a broadcast.
LEMMA AllWrite ==
  ASSUME NEW s, NEW G, Known(s, G), NEW cmd \in Plainly, NEW arg, ArgFits(cmd, arg), arg # "share"
  PROVE  Goes(s, All(cmd, arg), G, {cmd}, {Fact(cmd, 0, arg)})
  <1> DEFINE c == Command(cmd, 0, -1, arg)
             f == Fact(cmd, 0, arg)
  <1>1. /\ c \in Steps /\ c.cmd = cmd /\ c.arg = arg /\ c.to = 0 /\ c.need = -1
        /\ All(cmd, arg) = <<c>> /\ SentTo(c, Full(G), 0)
    BY ToAll
  <1>2. f.is = cmd /\ f.at = 0 /\ f.arg = arg
    BY Kinds
  <1> HIDE DEF c, f
  <1>3. Gains(c, Full(G), f) /\ f.is # "RUN_JOB"
    BY <1>1, <1>2 DEF Gains, Plainly
  <1> DEFINE X == {cmd}
             N == {f}
  <1>4. Adds(c, G, X, N)
    BY <1>1, <1>3 DEF Adds, Special, Spoils, Plainly
  <1> HIDE DEF X, N
  <1>5. Goes(s, <<c>>, G, X, N)
    BY <1>4, Sole, Zenon
  <1>6. QED
    BY <1>1, <1>5, Zenon DEF f, X, N

\* Commands that change no register and answer no question.
LEMMA AllIdle ==
  ASSUME NEW s, NEW G, Known(s, G), NEW cmd \in {"READ_FEATURE", "PLL_FREQ", "CHECK_CHIPS"}
  PROVE  Goes(s, All(cmd, ""), G, {}, {})
  <1> DEFINE c == Command(cmd, 0, -1, "")
  <1>0. ArgFits(cmd, "")
    BY DEF ArgFits, Plain
  <1>1. c \in Steps /\ c.cmd = cmd /\ All(cmd, "") = <<c>>
    BY <1>0, ToAll
  <1> HIDE DEF c
  <1> DEFINE X == {}
             N == {}
  <1>2. Adds(c, G, X, N)
    BY <1>1 DEF Adds, Special, Spoils, Plainly
  <1> HIDE DEF X, N
  <1>3. Goes(s, <<c>>, G, X, N)
    BY <1>2, Sole, Zenon
  <1>4. QED
    BY <1>1, <1>3, Zenon DEF X, N

\* DistributionNonce replaces the shares and makes the old WRITE_NONCE stale.
LEMMA Distributes ==
  ASSUME NEW s, NEW G, Known(s, G), NEW range \in Ranges
  PROVE  Goes(s, Host("DISTRIBUTE", range), G, {"dist", "WRITE_NONCE"}, {Dist(range)})
  <1> DEFINE c == Command("DISTRIBUTE", 0, -1, range)
             f == Dist(range)
  <1>0. ArgFits("DISTRIBUTE", range)
    BY DEF ArgFits
  <1>1. /\ c \in Steps /\ c.cmd = "DISTRIBUTE" /\ c.arg = range /\ c.need = -1
        /\ Host("DISTRIBUTE", range) = <<c>>
    BY <1>0, ToAll
  <1>2. f.is = "dist" /\ f.arg = range
    BY DEF Dist, Fact
  <1> HIDE DEF c, f
  <1>3. Gains(c, Full(G), f) /\ f.is # "RUN_JOB"
    BY <1>1, <1>2 DEF Gains, Plainly
  <1> DEFINE X == {"dist", "WRITE_NONCE"}
             N == {f}
  <1>4. Adds(c, G, X, N)
    BY <1>1, <1>3 DEF Adds, Special, Spoils, Plainly
  <1> HIDE DEF X, N
  <1>5. Goes(s, <<c>>, G, X, N)
    BY <1>4, Sole, Zenon
  <1>6. QED
    BY <1>1, <1>5, Zenon DEF f, X, N

\* The number of cores, checked.
LEMMA ChecksCores ==
  ASSUME NEW s, NEW G, Known(s, G), NEW what \in {"each", "sum"}
  PROVE  Goes(s, Host("CHECK_CORES", what), G, {}, {Checked(what)})
  <1> DEFINE c == Command("CHECK_CORES", 0, -1, what)
             f == Checked(what)
  <1>0. ArgFits("CHECK_CORES", what)
    BY DEF ArgFits
  <1>1. /\ c \in Steps /\ c.cmd = "CHECK_CORES" /\ c.arg = what /\ c.need = -1
        /\ Host("CHECK_CORES", what) = <<c>>
    BY <1>0, ToAll
  <1>2. f.is = "checked" /\ f.arg = what
    BY DEF Checked, Fact
  <1> HIDE DEF c, f
  <1>3. Gains(c, Full(G), f) /\ f.is # "RUN_JOB"
    BY <1>1, <1>2 DEF Gains, Plainly
  <1> DEFINE X == {}
             N == {f}
  <1>4. Adds(c, G, X, N)
    BY <1>1, <1>3 DEF Adds, Special, Spoils, Plainly
  <1> HIDE DEF X, N
  <1>5. Goes(s, <<c>>, G, X, N)
    BY <1>4, Sole, Zenon
  <1>6. QED
    BY <1>1, <1>5, Zenon DEF f, X, N

\* BIST with the golden data in all chips.
GoldenIn(G, a) ==
  /\ Fact("WRITE_PARAM", a, "golden") \in G /\ Fact("WRITE_TARGET", a, "golden") \in G
  /\ Fact("WRITE_NONCE", a, "golden") \in G

\* BIST with a broadcast, after the golden data and the mask.
LEMMA AllBist ==
  ASSUME NEW s, NEW G, Known(s, G), NEW mask, GoldenIn(G, 0), Fact("SET_DISABLE", 0, mask) \in G,
         ON \in G \/ Bist(0, mask) \in G
  PROVE  Goes(s, All("RUN_BIST", ""), G, {"RUN_BIST", "WRITE_CORE_CFG", "fresh"}, {Bist(0, mask)})
  <1> DEFINE c == Command("RUN_BIST", 0, -1, "")
             f == Bist(0, mask)
  <1>0. ArgFits("RUN_BIST", "")
    BY DEF ArgFits, Plain
  <1>1. /\ c \in Steps /\ c.cmd = "RUN_BIST" /\ All("RUN_BIST", "") = <<c>>
        /\ SentTo(c, Full(G), 0)
    BY <1>0, ToAll
  <1>2. f.is = "RUN_BIST" /\ f.at = 0 /\ f.arg = mask
    BY DEF Bist, Fact
  <1>a. GoldenFor(Full(G), 0, mask) /\ (ON \in Full(G) \/ f \in Full(G))
    <2>1. G \subseteq Full(G)
      BY DEF Full
    <2> HIDE DEF f
    <2>2. ON \in G \/ f \in G
      BY DEF f
    <2>3. QED
      BY <2>1, <2>2 DEF GoldenFor, GoldenIn
  <1> HIDE DEF c, f
  <1>3. Gains(c, Full(G), f) /\ f.is # "RUN_JOB"
    BY <1>1, <1>2, <1>a DEF Gains, Plainly
  <1> DEFINE X == {"RUN_BIST", "WRITE_CORE_CFG", "fresh"}
             N == {f}
  <1>4. Adds(c, G, X, N)
    BY <1>1, <1>3 DEF Adds, Special, Spoils, Plainly
  <1> HIDE DEF X, N
  <1>5. Goes(s, <<c>>, G, X, N)
    BY <1>4, Sole, Zenon
  <1>6. QED
    BY <1>1, <1>5, Zenon DEF f, X, N

\* RUN_JOB is a broadcast that nothing guards.
LEMMA JobCommand ==
  LET c == Command("RUN_JOB", 0, -1, "")
  IN  /\ c \in Steps /\ c.cmd = "RUN_JOB" /\ All("RUN_JOB", "") = <<c>>
      /\ c.to = 0 /\ c.need = -1
  <1>1. ArgFits("RUN_JOB", "")
    BY DEF ArgFits, Plain
  <1>2. Command("RUN_JOB", 0, -1, "") \in Steps
    <2>1. \A cmd, arg : ArgFits(cmd, arg) => Command(cmd, 0, -1, arg) \in Steps
      <3> TAKE cmd, arg
      <3> HAVE ArgFits(cmd, arg)
      <3>1. QED
        BY ToAll
    <2>2. QED
      BY <1>1, <2>1
  <1>3. QED
    BY <1>2 DEF Command, All, Step

\* One more job.
LEMMA OneJob ==
  ASSUME NEW s, NEW G, Known(s, G), NEW n \in 0 .. FifoDepth - 1, Job(n) \in G
  PROVE  Goes(s, All("RUN_JOB", ""), G, {"RUN_JOB"}, {Job(n + 1)})
  <1> DEFINE c == Command("RUN_JOB", 0, -1, "")
  <1>1. /\ c \in Steps /\ c.cmd = "RUN_JOB" /\ All("RUN_JOB", "") = <<c>>
        /\ c.to = 0 /\ c.need = -1
    BY JobCommand
  <1> HIDE DEF c
  <1> DEFINE H == {f \in G : f.is \notin {"RUN_JOB", "top"}} \cup {Job(n + 1)}
  <1>2. ASSUME NEW f \in H PROVE Follows(c, G, f)
    <2>1. f \in G => f \in Full(G)
      BY DEF Full
    <2>2. Job(n) \in Full(G)
      BY DEF Full
    <2>3. CASE f \in G /\ f.is \notin {"RUN_JOB", "top"}
      <3>1. KeepsChip(c, Full(G), f)
        BY <1>1, <2>3 DEF KeepsChip, Plainly
      <3>2. Keeps(c, Full(G), f)
        BY <1>1, <2>3, <3>1 DEF Keeps, Rereads
      <3>3. QED
        BY <2>1, <2>3, <3>2 DEF Follows
    <2>4. CASE f = Job(n + 1)
      <3>1. f.is = "RUN_JOB" /\ f.arg = n + 1
        BY <2>4 DEF Job, Fact
      <3>2. n + 1 \in 1 .. FifoDepth /\ (n + 1) - 1 = n
        BY DEF FifoDepth
      <3>3. Job(f.arg - 1) \in Full(G) /\ f.arg \in 1 .. FifoDepth
        BY <2>2, <3>1, <3>2
      <3>4. Gains(c, Full(G), f)
        BY <1>1, <3>1, <3>3 DEF Gains, Plainly
      <3>5. QED
        BY <3>4 DEF Follows
    <2>5. QED
      BY <2>3, <2>4
  <1>3. ASSUME NEW f \in H, f.is = "RUN_JOB" PROVE f.arg = JobsIn(s \o <<c>>)
    <2>1. f.arg = n + 1
      BY <1>3 DEF Job, Fact
    <2>2. s \in Seq(Steps) /\ n = JobsIn(s)
      BY DEF Known, Job, Fact
    <2>3. JobsIn(s \o <<c>>) = JobsIn(s) + 1
      BY <1>1, <2>2, JobsMore
    <2>4. QED
      BY <2>1, <2>2, <2>3
  <1>4. Kept(G, H, {"RUN_JOB"}) /\ Job(n + 1) \in H
    BY DEF Kept
  <1> HIDE DEF H
  <1>5. Known(s \o <<c>>, H)
    BY <1>1, <1>2, <1>3, OneCommand
  <1>6. QED
    BY <1>1, <1>4, <1>5 DEF Goes

\* A command to each chip that adds a fact about each, and so about all.
Rows(cmd, arg, x, G, X) ==
  /\ cmd \in Rowed \ {"READ_BIST", "CHECK_ID"} /\ ArgFits(cmd, arg)
  /\ NUMBERED \in G /\ ANSWERED \in G
  /\ \A is : Spoils(Command(cmd, 1, 1, arg), is) => is \in X
  /\ \A P : {f \in G : f.is # "top" /\ ~Spoils(Command(cmd, 1, 1, arg), f.is)} \subseteq P =>
       \A a \in Addresses : Gains(Command(cmd, a, a, arg), P, Fact(cmd, a, x))

\* A loop over the chips that writes one register adds the fact for all of them.
LEMMA RowGoes ==
  ASSUME NEW s, NEW G, NEW cmd, NEW arg, NEW x, NEW X, Known(s, G), Rows(cmd, arg, x, G, X)
  PROVE  Goes(s, Each(cmd, arg), G, X, {Fact(cmd, 0, x)})
  <1> DEFINE c == Command(cmd, 1, 1, arg)
             P == {f \in G : f.is # "top" /\ ~Spoils(c, f.is)}
             N == {Fact(cmd, a, x) : a \in Addresses}
             H == Full(P \cup N)
  <1>1. cmd \in Rowed /\ cmd \in PerChip /\ ArgFits(cmd, arg)
    BY DEF Rows, Rowed, PerChip, Plainly
  <1>2. NUMBERED \in P /\ ANSWERED \in P
    <2>1. c.cmd \in {"SET_DISABLE", "WRITE_NONCE", "WRITE_CORE_CFG", "SET_PLL", "RUN_BIST"}
      BY DEF Rows, Rowed, Command
    <2> HIDE DEF c
    <2>2. ~Spoils(c, "numbered") /\ ~Spoils(c, "answered")
      BY <2>1 DEF Spoils
    <2>3. QED
      BY <2>2, Kinds DEF Rows
  <1>3. ASSUME NEW f \in N
        PROVE  /\ f.is = cmd /\ f.at \in Addresses
               /\ Gains(Command(cmd, f.at, f.at, arg), Full(P), f)
    <2>1. PICK a \in Addresses : f = Fact(cmd, a, x)
      BY <1>3
    <2>2. f.is = cmd /\ f.at = a
      BY <2>1, Kinds
    <2>3. P \subseteq Full(P)
      BY DEF Full
    <2>4. Gains(Command(cmd, a, a, arg), Full(P), Fact(cmd, a, x))
      <3> HIDE DEF N, H
      <3>1. QED
        BY <2>3, Zenon DEF Rows
    <2>5. QED
      BY <2>1, <2>2, <2>4
  <1>4. Known(s \o Each(cmd, arg), H)
    <2> HIDE DEF N
    <2>1. P = {f \in G : f.is # "top" /\ ~Spoils(Command(cmd, 1, 1, arg), f.is)}
      OBVIOUS
    <2> HIDE DEF P, c
    <2>2. QED
      BY <1>1, <1>3, <2>1, Row
  <1>5. P \cup N \subseteq H
    <2> HIDE DEF P, N
    <2>1. QED
      BY DEF Full
  <1>6. Fact(cmd, 0, x) \in H
    <2>1. \A a \in Addresses : Fact(cmd, a, x) \in P \cup N
      OBVIOUS
    <2>2. NUMBERED \in P \cup N /\ ANSWERED \in P \cup N
      BY <1>2
    <2> HIDE DEF P, N
    <2> DEFINE Q == P \cup N
    <2> HIDE DEF Q
    <2>3. Fact(cmd, 0, x) \in Full(Q)
      BY <1>1, <2>1, <2>2, ForAll DEF Q
    <2>4. QED
      BY <2>3 DEF Q
  <1>7. Kept(G, H, X)
    <2>1. \A f \in G : f.is \notin X \cup {"top"} => f \in P
      BY DEF Rows
    <2> HIDE DEF P, N, H
    <2>2. QED
      BY <1>5, <2>1 DEF Kept
  <1> HIDE DEF H
  <1>8. QED
    BY <1>4, <1>6, <1>7 DEF Goes

\* A mask or a range, chip by chip.
LEMMA EachWrite ==
  ASSUME NEW s, NEW G, Known(s, G), NUMBERED \in G, ANSWERED \in G,
         NEW cmd \in {"SET_DISABLE", "WRITE_NONCE"}, NEW arg, ArgFits(cmd, arg)
  PROVE  Goes(s, Each(cmd, arg), G, {cmd}, {Fact(cmd, 0, arg)})
  <1>1. Command(cmd, 1, 1, arg).cmd = cmd
    BY DEF Command
  <1>2. \A is : Spoils(Command(cmd, 1, 1, arg), is) => is \in {cmd}
    BY <1>1 DEF Spoils
  <1>3. ASSUME NEW P, NUMBERED \in P, ANSWERED \in P, NEW a \in Addresses
        PROVE  Gains(Command(cmd, a, a, arg), P, Fact(cmd, a, arg))
    <2> DEFINE c == Command(cmd, a, a, arg)
               f == Fact(cmd, a, arg)
    <2>1. c.cmd = cmd /\ c.to = a /\ c.need = a /\ c.arg = arg /\ f.is = cmd /\ f.at = a
          /\ f.arg = arg
      BY DEF Command, Fact
    <2>2. a >= 1 /\ a <= a
      BY BringupAssumption DEF Addresses
    <2> HIDE DEF c, f
    <2>3. SentTo(c, P, a)
      BY <1>3, <2>1, <2>2 DEF SentTo
    <2>4. Gains(c, P, f)
      BY <2>1, <2>2, <2>3 DEF Gains, Plainly
    <2>5. QED
      BY <2>4 DEF c, f
  <1>4. NUMBERED.is # "top" /\ ANSWERED.is # "top"
        /\ NUMBERED.is \notin {cmd} /\ ANSWERED.is \notin {cmd}
    BY Kinds
  <1>5. Rows(cmd, arg, arg, G, {cmd})
    BY <1>2, <1>3, <1>4 DEF Rows, Rowed
  <1>6. QED
    BY <1>5, RowGoes, Zenon

\* The number of cores written chip by chip, in place of BIST.
LEMMA EachCfg ==
  ASSUME NEW s, NEW G, Known(s, G), NUMBERED \in G, ANSWERED \in G, NEW mask \in Masks
  PROVE  Goes(s, Each("WRITE_CORE_CFG", mask), G,
              {"WRITE_CORE_CFG", "RUN_BIST", "sane", "fresh"}, {Fact("WRITE_CORE_CFG", 0, mask)})
  <1> DEFINE X == {"WRITE_CORE_CFG", "RUN_BIST", "sane", "fresh"}
             cmd == "WRITE_CORE_CFG"
             arg == mask
  <1>1. Command(cmd, 1, 1, arg).cmd = cmd
    BY DEF Command
  <1>2. \A is : Spoils(Command(cmd, 1, 1, arg), is) => is \in X
    BY <1>1 DEF Spoils
  <1>3. ASSUME NEW P, NUMBERED \in P, ANSWERED \in P, NEW a \in Addresses
        PROVE  Gains(Command(cmd, a, a, arg), P, Fact(cmd, a, arg))
    <2> DEFINE c == Command(cmd, a, a, arg)
               f == Fact(cmd, a, arg)
    <2>1. c.cmd = cmd /\ c.to = a /\ c.need = a /\ c.arg = arg /\ f.is = cmd /\ f.at = a
          /\ f.arg = arg
      BY DEF Command, Fact
    <2>2. a >= 1 /\ a <= a
      BY BringupAssumption DEF Addresses
    <2> HIDE DEF c, f
    <2>3. SentTo(c, P, a)
      BY <1>3, <2>1, <2>2 DEF SentTo
    <2>4. Gains(c, P, f)
      BY <2>1, <2>2, <2>3 DEF Gains, Plainly
    <2>5. QED
      BY <2>4 DEF c, f
  <1>4. NUMBERED.is # "top" /\ ANSWERED.is # "top" /\ NUMBERED.is \notin X /\ ANSWERED.is \notin X
    BY Kinds
  <1>5. ArgFits(cmd, arg) /\ cmd \in Rowed \ {"READ_BIST", "CHECK_ID"}
    BY DEF ArgFits, Rowed
  <1>6. Rows(cmd, arg, arg, G, X)
    <2> HIDE DEF X, cmd
    <2>1. QED
      BY <1>2, <1>3, <1>4, <1>5 DEF Rows
  <1>7. QED
    BY <1>6, RowGoes, Zenon

\* The PLLs, chip by chip.
LEMMA EachPll ==
  ASSUME NEW s, NEW G, Known(s, G), NUMBERED \in G, ANSWERED \in G
  PROVE  Goes(s, Each("SET_PLL", ""), G, {"fresh"}, {Clock(0)})
  <1> DEFINE X == {"fresh"}
             cmd == "SET_PLL"
             arg == ""
  <1>1. Command(cmd, 1, 1, arg).cmd = cmd
    BY DEF Command
  <1>2. \A is : Spoils(Command(cmd, 1, 1, arg), is) => is \in X
    BY <1>1 DEF Spoils, Plainly
  <1>3. ASSUME NEW P, NUMBERED \in P, ANSWERED \in P, NEW a \in Addresses
        PROVE  Gains(Command(cmd, a, a, arg), P, Fact(cmd, a, arg))
    <2> DEFINE c == Command(cmd, a, a, arg)
               f == Fact(cmd, a, arg)
    <2>1. c.cmd = cmd /\ c.to = a /\ c.need = a /\ c.arg = arg /\ f.is = cmd /\ f.at = a
          /\ f.arg = arg
      BY DEF Command, Fact
    <2>2. a >= 1 /\ a <= a
      BY BringupAssumption DEF Addresses
    <2> HIDE DEF c, f
    <2>3. SentTo(c, P, a)
      BY <1>3, <2>1, <2>2 DEF SentTo
    <2>4. Gains(c, P, f)
      BY <2>1, <2>2, <2>3 DEF Gains, Plainly
    <2>5. QED
      BY <2>4 DEF c, f
  <1>4. NUMBERED.is # "top" /\ ANSWERED.is # "top" /\ NUMBERED.is \notin X /\ ANSWERED.is \notin X
    BY Kinds
  <1>5. ArgFits(cmd, arg) /\ cmd \in Rowed \ {"READ_BIST", "CHECK_ID"}
    BY DEF ArgFits, Rowed, Plain
  <1>6. Rows(cmd, arg, arg, G, X)
    <2> HIDE DEF X, cmd, arg
    <2>1. QED
      BY <1>2, <1>3, <1>4, <1>5 DEF Rows
  <1>7. Clock(0) = Fact(cmd, 0, arg)
    BY DEF Clock
  <1>8. QED
    BY <1>6, <1>7, RowGoes, Zenon

\* BIST chip by chip.
LEMMA EachBist ==
  ASSUME NEW s, NEW G, Known(s, G), NUMBERED \in G, ANSWERED \in G, NEW mask, ON \in G,
         GoldenIn(G, 0), Fact("SET_DISABLE", 0, mask) \in G
  PROVE  Goes(s, Each("RUN_BIST", ""), G, {"RUN_BIST", "WRITE_CORE_CFG", "fresh"},
              {Bist(0, mask)})
  <1> DEFINE X == {"RUN_BIST", "WRITE_CORE_CFG", "fresh"}
             cmd == "RUN_BIST"
             arg == ""
             F == Full(G)
  <1>a. Known(s, F) /\ G \subseteq F
    <2>1. G \subseteq F
      BY DEF Full
    <2> HIDE DEF F
    <2>2. QED
      BY <2>1, Closed DEF F
  <1>b. \A a \in Addresses : GoldenFor(F, a, mask)
    <2>1. \A is \in PerChip : \A x : \A a \in Addresses :
            Fact(is, 0, x) \in G => Fact(is, a, x) \in F
      <3> TAKE is \in PerChip
      <3> TAKE x
      <3> TAKE a \in Addresses
      <3> HAVE Fact(is, 0, x) \in G
      <3>1. Fact(is, 0, x).is = is /\ Fact(is, 0, x).arg = x
        BY Kinds
      <3>2. QED
        BY <3>1 DEF Full
    <2> HIDE DEF F
    <2>2. QED
      BY <2>1 DEF GoldenFor, GoldenIn, PerChip, Plainly
  <1> HIDE DEF F
  <1>1. Command(cmd, 1, 1, arg).cmd = cmd
    BY DEF Command
  <1>2. \A is : Spoils(Command(cmd, 1, 1, arg), is) => is \in X
    BY <1>1 DEF Spoils, Plainly
  <1>3. ASSUME NEW P, NUMBERED \in P, ANSWERED \in P, ON \in P, NEW a \in Addresses,
               GoldenFor(P, a, mask)
        PROVE  Gains(Command(cmd, a, a, arg), P, Fact(cmd, a, mask))
    <2> DEFINE c == Command(cmd, a, a, arg)
               f == Fact(cmd, a, mask)
    <2>1. c.cmd = cmd /\ c.to = a /\ c.need = a /\ c.arg = arg /\ f.is = cmd /\ f.at = a
          /\ f.arg = mask
      BY DEF Command, Fact
    <2>2. a >= 1 /\ a <= a
      BY BringupAssumption DEF Addresses
    <2> HIDE DEF c, f
    <2>3. SentTo(c, P, a)
      BY <1>3, <2>1, <2>2 DEF SentTo
    <2>4. Gains(c, P, f)
      BY <1>3, <2>1, <2>2, <2>3 DEF Gains, Plainly
    <2>5. QED
      BY <2>4 DEF c, f
  <1>4. /\ NUMBERED.is # "top" /\ ANSWERED.is # "top" /\ NUMBERED.is \notin X
        /\ ANSWERED.is \notin X /\ ON.is # "top" /\ ON.is \notin X
        /\ \A is \in Plainly : is \notin X /\ is # "top"
    BY Kinds DEF Plainly
  <1>5. ArgFits(cmd, arg) /\ cmd \in Rowed \ {"READ_BIST", "CHECK_ID"}
    BY DEF ArgFits, Rowed, Plain
  <1>6. ASSUME NEW P,
               {f \in F : f.is # "top" /\ ~Spoils(Command(cmd, 1, 1, arg), f.is)} \subseteq P,
               NEW a \in Addresses
        PROVE  Gains(Command(cmd, a, a, arg), P, Fact(cmd, a, mask))
    <2>1. \A f \in F : f.is # "top" /\ f.is \notin X => f \in P
      BY <1>2, <1>6
    <2>2. NUMBERED \in P /\ ANSWERED \in P /\ ON \in P
      BY <1>a, <1>4, <2>1
    <2>3. GoldenFor(P, a, mask)
      <3>1. GoldenFor(F, a, mask)
        BY <1>b, <1>6
      <3> HIDE DEF X
      <3>2. \A is \in Plainly : \A x : Fact(is, a, x) \in F => Fact(is, a, x) \in P
        BY <1>4, <2>1, Kinds
      <3>3. QED
        BY <3>1, <3>2 DEF GoldenFor, Plainly
    <2>4. QED
      BY <1>3, <1>6, <2>2, <2>3
  <1>7. Rows(cmd, arg, mask, F, X)
    <2> HIDE DEF X, cmd, arg
    <2>1. QED
      BY <1>a, <1>2, <1>5, <1>6 DEF Rows
  <1>8. Goes(s, Each(cmd, arg), F, X, {Bist(0, mask)})
    <2>1. Bist(0, mask) = Fact(cmd, 0, mask)
      BY DEF Bist
    <2>2. QED
      BY <1>a, <1>7, <2>1, RowGoes, Zenon
  <1>9. QED
    <2>1. \A H : Kept(F, H, X) => Kept(G, H, X)
      BY <1>a DEF Kept
    <2> HIDE DEF X
    <2>2. Goes(s, Each(cmd, arg), G, X, {Bist(0, mask)})
      BY <1>8, <2>1 DEF Goes
    <2>3. QED
      BY <2>2 DEF X

\* A loop of reads.
LEMMA ReadsBist ==
  ASSUME NEW s, NEW G, Known(s, G), NEW W, W \subseteq Addresses,
         W # {} => WHOLE \in G /\ NUMBERED \in G
  PROVE  Goes(s, ReadBist, G, {"checked", "fresh"}, {Fresh(a) : a \in W})
  <1> DEFINE cmd == "READ_BIST"
             X == {"checked", "fresh"}
             P == {f \in G : f.is # "top" /\ ~Spoils(Command(cmd, 1, 1, ""), f.is)}
             N == {Fresh(a) : a \in W}
             H == Full(P \cup N)
  <1>1. cmd \in Rowed /\ ArgFits(cmd, "")
    BY DEF Rowed, ArgFits, Plain
  <1>2. ASSUME NEW f \in G, f.is \notin X \cup {"top"} PROVE f \in P
    <2>1. Command(cmd, 1, 1, "").cmd = cmd
      BY DEF Command
    <2>2. ~Spoils(Command(cmd, 1, 1, ""), f.is)
      BY <1>2, <2>1 DEF Spoils, Plainly
    <2>3. QED
      BY <1>2, <2>2
  <1>3. ASSUME NEW f \in N
        PROVE  /\ f.is = "fresh" /\ f.at \in Addresses
               /\ Gains(Command(cmd, f.at, f.at, ""), Full(P), f)
    <2>1. PICK a \in W : f = Fresh(a)
      BY <1>3
    <2>2. f.is = "fresh" /\ f.at = a
      BY <2>1 DEF Fresh, Fact
    <2>3. WHOLE \in P /\ NUMBERED \in P
      <3>1. WHOLE.is \notin X \cup {"top"} /\ NUMBERED.is \notin X \cup {"top"}
        BY Kinds
      <3>2. WHOLE \in G /\ NUMBERED \in G
        OBVIOUS
      <3>3. QED
        BY <1>2, <3>1, <3>2
    <2> HIDE DEF P, N, H
    <2>4. WHOLE \in Full(P) /\ NUMBERED \in Full(P)
      BY <2>3 DEF Full
    <2> DEFINE c == Command(cmd, a, a, "")
    <2>5. c.cmd = "READ_BIST" /\ c.to = a /\ c.need = a
      BY DEF Command
    <2> HIDE DEF c
    <2>6. Gains(c, Full(P), f)
      BY <2>2, <2>4, <2>5 DEF Gains, Plainly
    <2>7. QED
      BY <2>2, <2>6 DEF c
  <1>4. Known(s \o Each(cmd, ""), H)
    <2> HIDE DEF N
    <2>1. P = {f \in G : f.is # "top" /\ ~Spoils(Command(cmd, 1, 1, ""), f.is)}
      OBVIOUS
    <2> HIDE DEF P
    <2>2. QED
      BY <1>1, <1>3, <2>1, Row
  <1>5. P \cup N \subseteq H
    <2> HIDE DEF P, N
    <2>1. QED
      BY DEF Full
  <1> HIDE DEF P, N, H
  <1>6. Kept(G, H, X)
    BY <1>2, <1>5 DEF Kept
  <1>7. N \subseteq H
    BY <1>5
  <1>8. QED
    BY <1>4, <1>6, <1>7 DEF Goes, ReadBist, N

\* Reading the ids changes nothing.
LEMMA ChecksIds ==
  ASSUME NEW s, NEW G, Known(s, G)
  PROVE  Goes(s, Each("CHECK_ID", ""), G, {}, {})
  <1> DEFINE cmd == "CHECK_ID"
             P == {f \in G : f.is # "top" /\ ~Spoils(Command(cmd, 1, 1, ""), f.is)}
             N == {}
             H == Full(P \cup N)
  <1>1. cmd \in Rowed /\ ArgFits(cmd, "")
    BY DEF Rowed, ArgFits, Plain
  <1>2. ASSUME NEW f \in G, f.is # "top" PROVE f \in P
    <2>1. Command(cmd, 1, 1, "").cmd = cmd
      BY DEF Command
    <2>2. ~Spoils(Command(cmd, 1, 1, ""), f.is)
      BY <2>1 DEF Spoils, Plainly
    <2>3. QED
      BY <1>2, <2>2
  <1>4. Known(s \o Each(cmd, ""), H)
    <2>1. P = {f \in G : f.is # "top" /\ ~Spoils(Command(cmd, 1, 1, ""), f.is)}
      OBVIOUS
    <2>2. \A f \in N : FALSE
      OBVIOUS
    <2> HIDE DEF P, N
    <2>3. QED
      BY <1>1, <2>1, <2>2, Row
  <1>5. P \subseteq H
    <2> HIDE DEF P
    <2>1. QED
      BY DEF Full
  <1> HIDE DEF P, H
  <1>6. Kept(G, H, {})
    BY <1>2, <1>5 DEF Kept
  <1>7. QED
    BY <1>4, <1>6 DEF Goes

-----------------------------------------------------------------------------
(* SET_CONTROL, and the commands that number the chips.                     *)

\* A command that keeps some facts and adds others.
LEMMA Turn ==
  ASSUME NEW s, NEW G, Known(s, G), NEW c \in Steps, c.cmd # "RUN_JOB",
         NEW H, \A f \in H : \/ f \in G /\ Keeps(c, Full(G), f)
                             \/ Gains(c, Full(G), f) /\ (f.is = "RUN_JOB" => f.arg = JobsIn(s))
  PROVE  Known(s \o <<c>>, H)
  <1>1. \A f \in H : Follows(c, G, f)
    <2>1. \A f \in G : f \in Full(G)
      BY DEF Full
    <2>2. QED
      BY <2>1 DEF Follows
  <1>2. ASSUME NEW f \in H, f.is = "RUN_JOB" PROVE f.arg = JobsIn(s \o <<c>>)
    <2>1. f.arg = JobsIn(s) /\ s \in Seq(Steps)
      BY <1>2 DEF Known
    <2>2. JobsIn(s \o <<c>>) = JobsIn(s)
      <3>1. <<c>> \in Seq(Steps) /\ \A k \in 1 .. Len(<<c>>) : <<c>>[k].cmd # "RUN_JOB"
        OBVIOUS
      <3>2. QED
        BY <2>1, <3>1, JobsSame
    <2>3. QED
      BY <2>1, <2>2
  <1>3. QED
    BY <1>1, <1>2, OneCommand

\* The OON interrupt of all chips, without a last chip.
LEMMA AllOon ==
  ASSUME NEW s, NEW G, Known(s, G), WHOLE \in G
  PROVE  Goes(s, All("SET_CONTROL", OON), G, {}, {Oon(0)})
  <1> DEFINE c == Command("SET_CONTROL", 0, -1, OON)
             H == {f \in G : f.is # "top"} \cup {Oon(0)}
  <1>1. /\ c \in Steps /\ c.cmd = "SET_CONTROL" /\ ~c.arg.last /\ c.arg.oon
        /\ c.to = 0 /\ c.need = -1 /\ All("SET_CONTROL", OON) = <<c>>
    <2>1. ArgFits("SET_CONTROL", OON) /\ ~OON.last /\ OON.oon
      BY DEF ArgFits, Controls, OON
    <2>2. \A cmd, arg : ArgFits(cmd, arg) => Command(cmd, 0, -1, arg) \in Steps
      BY CommandType, BringupAssumption
    <2>3. c \in Steps
      BY <2>1, <2>2
    <2>4. QED
      BY <2>1, <2>3 DEF Command, All, Step
  <1> HIDE DEF c
  <1>2. WHOLE \in Full(G)
    BY DEF Full
  <1>3. ASSUME NEW f \in G, f.is # "top" PROVE Keeps(c, Full(G), f)
    <2>1. KeepsChip(c, Full(G), f)
      BY <1>1, <1>2 DEF KeepsChip, NoneBack, Plainly
    <2>2. QED
      BY <1>1, <1>2, <1>3, <2>1 DEF Keeps, Rereads
  <1>4. Gains(c, Full(G), Oon(0)) /\ Oon(0).is = "SET_CONTROL"
    <2> DEFINE f == Oon(0)
    <2>1. f.is = "SET_CONTROL" /\ f.at = 0
      BY DEF Oon, Fact
    <2> HIDE DEF f
    <2>2. Gains(c, Full(G), f)
      BY <1>1, <1>2, <2>1 DEF Gains, Plainly, SentTo, Sure, NoneBack
    <2>3. QED
      BY <2>1, <2>2 DEF f
  <1>5. Known(s \o <<c>>, H)
    <2>1. \A f \in H : \/ f \in G /\ Keeps(c, Full(G), f)
                       \/ Gains(c, Full(G), f) /\ (f.is = "RUN_JOB" => f.arg = JobsIn(s))
      BY <1>3, <1>4
    <2> HIDE DEF H
    <2>2. QED
      BY <1>1, <2>1, Turn
  <1>6. Kept(G, H, {}) /\ {Oon(0)} \subseteq H
    BY DEF Kept
  <1> HIDE DEF H
  <1>7. QED
    BY <1>1, <1>5, <1>6 DEF Goes

\* The arguments of SET_CONTROL that make a chip the last one.
LEMMA LastControls ==
  /\ \A control \in {LAST, LAST_OON} : ArgFits("SET_CONTROL", control) /\ control.last
  /\ LAST_OON.oon
  <1>1. LAST \in Controls /\ LAST.last /\ LAST_OON \in Controls /\ LAST_OON.last /\ LAST_OON.oon
    BY DEF Controls, LAST, LAST_OON
  <1>2. QED
    BY <1>1 DEF ArgFits

\* SET_CONTROL to chip 1 alone.
LEMMA FirstLast ==
  ASSUME NEW s, NEW G, Known(s, G), NUMBERED \in G, ANSWERED \in G, NEW need \in {-1, 1},
         NEW control \in {LAST, LAST_OON}, NEW N,
         \A f \in N : f = Oon(1) /\ control = LAST_OON
  PROVE  Goes(s, Step("SET_CONTROL", 1, need, control), G,
              IF control = LAST_OON THEN {} ELSE {"SET_CONTROL"}, N)
  <1> DEFINE c == Command("SET_CONTROL", 1, need, control)
             X == IF control = LAST_OON THEN {} ELSE {"SET_CONTROL"}
             H == {f \in G : f.is \notin X \cup {"top"}} \cup N
  <1>1. /\ c \in Steps /\ c.cmd = "SET_CONTROL" /\ c.arg.last /\ c.arg = control
        /\ c.to = 1 /\ c.need = need /\ Step("SET_CONTROL", 1, need, control) = <<c>>
    <2>1. ArgFits("SET_CONTROL", control) /\ control.last
      BY LastControls
    <2>2. \A cmd, arg : ArgFits(cmd, arg) => Command(cmd, 1, need, arg) \in Steps
      <3>1. 1 \in -1 .. MaxChips /\ need \in -1 .. MaxChips + 1
        BY BringupAssumption
      <3>2. QED
        BY <3>1, CommandType
    <2>3. c \in Steps
      BY <2>1, <2>2
    <2>4. QED
      BY <2>1, <2>3 DEF Command, Step
  <1> HIDE DEF c
  <1>2. /\ NUMBERED \in Full(G) /\ ANSWERED \in Full(G)
        /\ "SET_CONTROL" \notin X => control.oon
    BY LastControls DEF Full
  <1>3. ASSUME NEW f \in G, f.is \notin X \cup {"top"} PROVE Keeps(c, Full(G), f)
    <2>1. f.is = "SET_CONTROL" => c.arg.oon
      BY <1>1, <1>2, <1>3
    <2>2. KeepsChip(c, Full(G), f)
      BY <1>1, <2>1 DEF KeepsChip, NoneBack, Plainly
    <2>3. QED
      BY <1>1, <1>3, <2>2 DEF Keeps, Rereads
  <1>4. ASSUME NEW f \in N PROVE Gains(c, Full(G), f) /\ f.is = "SET_CONTROL"
    <2>1. f.is = "SET_CONTROL" /\ f.at = 1 /\ control.oon
      <3>1. Oon(1).is = "SET_CONTROL" /\ Oon(1).at = 1
        BY DEF Oon, Fact
      <3>2. QED
        BY <1>4, <3>1, LastControls
    <2>2. SentTo(c, Full(G), 1) /\ NoneBack(c, Full(G))
      BY <1>1, <1>2 DEF SentTo, NoneBack
    <2>3. QED
      BY <1>1, <2>1, <2>2 DEF Gains, Plainly
  <1>5. Known(s \o <<c>>, H)
    <2>1. \A f \in H : \/ f \in G /\ Keeps(c, Full(G), f)
                       \/ Gains(c, Full(G), f) /\ (f.is = "RUN_JOB" => f.arg = JobsIn(s))
      BY <1>3, <1>4
    <2> HIDE DEF H
    <2>2. QED
      BY <1>1, <2>1, Turn
  <1>6. Kept(G, H, X) /\ N \subseteq H
    BY DEF Kept
  <1> HIDE DEF H
  <1>7. QED
    BY <1>1, <1>5, <1>6 DEF Goes

\* AUTO_ADDRESS where the chips have their numbers already.
LEMMA SameNumbers ==
  ASSUME NEW s, NEW G, Known(s, G), NUMBERED \in G, ANSWERED \in G, NEW need \in {-1, 1}
  PROVE  Goes(s, Step("AUTO_ADDRESS", 0, need, ""), G, {"dist", "checked", "fresh"}, {})
  <1> DEFINE c == Command("AUTO_ADDRESS", 0, need, "")
             X == {"dist", "checked", "fresh"}
             H == {f \in G : f.is \notin X \cup {"top"}}
  <1>1. /\ c \in Steps /\ c.cmd = "AUTO_ADDRESS" /\ Step("AUTO_ADDRESS", 0, need, "") = <<c>>
    <2>1. ArgFits("AUTO_ADDRESS", "")
      BY DEF ArgFits, Plain
    <2>2. \A cmd, arg : ArgFits(cmd, arg) => Command(cmd, 0, need, arg) \in Steps
      <3>1. 0 \in -1 .. MaxChips /\ need \in -1 .. MaxChips + 1
        BY BringupAssumption
      <3>2. QED
        BY <3>1, CommandType
    <2>3. c \in Steps
      BY <2>1, <2>2
    <2>4. QED
      BY <2>1, <2>3 DEF Command, Step
  <1> HIDE DEF c
  <1>2. NUMBERED \in Full(G) /\ ANSWERED \in Full(G)
    BY DEF Full
  <1>3. ASSUME NEW f \in G, f.is \notin X \cup {"top"} PROVE Keeps(c, Full(G), f)
    <2>1. KeepsChip(c, Full(G), f)
      BY <1>1, <1>2 DEF KeepsChip, NoneBack, Plainly
    <2>2. QED
      BY <1>1, <1>3, <2>1 DEF Keeps, Rereads
  <1>4. Known(s \o <<c>>, H)
    <2>1. \A f \in H : f \in G /\ Keeps(c, Full(G), f)
      BY <1>3
    <2> HIDE DEF H
    <2>2. QED
      BY <1>1, <2>1, Turn
  <1>5. Kept(G, H, X)
    BY DEF Kept
  <1> HIDE DEF H
  <1>6. QED
    BY <1>1, <1>4, <1>5 DEF Goes

\* The facts after the chips are reset and numbered.
Begun == {WHOLE, NUMBERED, ANSWERED, ON, SANE, Job(0)}

\* Before the first command nothing is known and no job is sent.
LEMMA Nothing == Known(<<>>, {}) /\ JobsIn(<<>>) = 0
  <1> DEFINE K == [k \in {1} |-> {}]
  <1>1. <<>> \in Seq(Steps) /\ Len(<<>>) = 0
    OBVIOUS
  <1>2. K[1] = {}
    OBVIOUS
  <1> HIDE DEF K
  <1>3. Annotates(K, <<>>, Len(<<>>))
    BY <1>1, <1>2 DEF Annotates
  <1>4. JobsIn(<<>>) = 0
    <2>1. {k \in 1 .. Len(<<>>) : <<>>[k].cmd = "RUN_JOB"} = {}
      BY <1>1
    <2>2. QED
      BY <2>1, FS_EmptySet DEF JobsIn
  <1>5. QED
    BY <1>1, <1>3, <1>4 DEF Known

\* After HW_RESET the chain is whole, the clocks are on and there is no job.
LEMMA Resetting ==
  /\ Known(Host("HW_RESET", ""), {WHOLE, ON, SANE, Job(0)})
  /\ Host("HW_RESET", "") \in Seq(Steps)
  <1> DEFINE c == Command("HW_RESET", 0, -1, "")
             H == {WHOLE, ON, SANE, Job(0)}
  <1>1. c \in Steps /\ c.cmd = "HW_RESET" /\ c.need = -1 /\ Host("HW_RESET", "") = <<c>>
    <2>1. ArgFits("HW_RESET", "")
      BY DEF ArgFits, Plain
    <2>2. \A cmd, arg : ArgFits(cmd, arg) => Command(cmd, 0, -1, arg) \in Steps
      BY CommandType, BringupAssumption
    <2>3. c \in Steps
      BY <2>1, <2>2
    <2>4. QED
      BY <2>3 DEF Command, Host, All, Step
  <1> HIDE DEF c
  <1>2. ASSUME NEW f, f.is \in {"whole", "on", "sane"} \/ (f.is = "RUN_JOB" /\ f.arg = 0)
        PROVE  Gains(c, Full({}), f)
    BY <1>1, <1>2 DEF Gains, Plainly
  <1>3. \A f \in H : f.is \in {"whole", "on", "sane"} \/ (f.is = "RUN_JOB" /\ f.arg = 0)
    <2>1. Job(0).is = "RUN_JOB" /\ Job(0).arg = 0
      BY DEF Job, Fact
    <2>2. QED
      BY <2>1, Kinds
  <1> HIDE DEF H
  <1>4. <<c>> \in Seq(Steps) /\ <<>> \o <<c>> = <<c>>
    <2>0. c \in Steps
      BY <1>1
    <2>1. <<c>> \in Seq(Steps)
      BY <2>0
    <2> DEFINE u == <<c>>
    <2> HIDE DEF u
    <2>2. u \in Seq(Steps)
      BY <2>1 DEF u
    <2>3. <<>> \o u = u
      BY <2>2, ConcatEmptySeq
    <2>4. QED
      BY <2>2, <2>3 DEF u
  <1>5. Known(<<>> \o <<c>>, H)
    <2>1. \A f \in H : \/ f \in {} /\ Keeps(c, Full({}), f)
                       \/ Gains(c, Full({}), f) /\ (f.is = "RUN_JOB" => f.arg = JobsIn(<<>>))
      BY <1>2, <1>3, Nothing
    <2>2. QED
      BY <1>1, <2>1, Nothing, Turn
  <1>6. Known(Host("HW_RESET", ""), H) /\ Host("HW_RESET", "") \in Seq(Steps)
    BY <1>1, <1>4, <1>5
  <1>7. QED
    BY <1>6 DEF H

\* AUTO_ADDRESS is a command that nothing guards.
LEMMA AutoType ==
  Readdress \in Steps /\ Readdress.cmd = "AUTO_ADDRESS" /\ Readdress.need = -1
    /\ Host("AUTO_ADDRESS", "") = <<Readdress>>
  <1>1. ArgFits("AUTO_ADDRESS", "")
    BY DEF ArgFits, Plain
  <1>2. \A cmd, arg : ArgFits(cmd, arg) => Command(cmd, 0, -1, arg) \in Steps
    BY CommandType, BringupAssumption
  <1>3. Readdress \in Steps
    BY <1>1, <1>2 DEF Readdress
  <1>4. QED
    BY <1>3 DEF Readdress, Command, Host, All, Step

\* The facts that do not depend on the numbers.
Unnumbered(G) ==
  {f \in G : f.at = 0 /\ f.is \notin {"dist", "checked", "fresh", "top", "PLL_OFF"} /\ ~IsShare(f)}

\* A numbering: what does not depend on addresses stays, the chips are numbered and answer.
LEMMA Numbers ==
  ASSUME NEW s, NEW G, Known(s, G), NEW N, \A f \in N : f = Oon(1) /\ TOP \in G
  PROVE  Known(s \o Host("AUTO_ADDRESS", ""), Unnumbered(G) \cup {NUMBERED, ANSWERED} \cup N)
  <1> DEFINE H == Unnumbered(G) \cup {NUMBERED, ANSWERED} \cup N
  <1>1. ASSUME NEW f \in G, f \in Unnumbered(G) PROVE Keeps(Readdress, Full(G), f)
    <2>1. KeepsChip(Readdress, Full(G), f)
      BY <1>1, AutoType DEF KeepsChip, Unnumbered, Plainly
    <2>2. QED
      BY <1>1, <2>1, AutoType DEF Keeps, Rereads, Unnumbered
  <1>2. ASSUME NEW f, f.is \in {"numbered", "answered"} PROVE Gains(Readdress, Full(G), f)
    BY <1>2, AutoType DEF Gains, Plainly
  <1>3. ASSUME NEW f \in N PROVE Gains(Readdress, Full(G), f) /\ f.is = "SET_CONTROL"
    <2>1. f.is = "SET_CONTROL" /\ f.at = 1
      <3>1. Oon(1).is = "SET_CONTROL" /\ Oon(1).at = 1
        BY DEF Oon, Fact
      <3>2. QED
        BY <1>3, <3>1
    <2>2. TOP \in Full(G)
      BY <1>3 DEF Full
    <2>3. QED
      BY <2>1, <2>2, AutoType DEF Gains, Plainly
  <1>4. \A f \in Unnumbered(G) : f \in G
    BY DEF Unnumbered
  <1>5. \A f \in H : \/ f \in G /\ Keeps(Readdress, Full(G), f)
                     \/ Gains(Readdress, Full(G), f) /\ (f.is = "RUN_JOB" => f.arg = JobsIn(s))
    <2>1. NUMBERED.is = "numbered" /\ ANSWERED.is = "answered"
      BY Kinds
    <2>2. QED
      BY <1>1, <1>2, <1>3, <1>4, <2>1
  <1> HIDE DEF H
  <1>6. Known(s \o <<Readdress>>, H)
    BY <1>5, AutoType, Turn
  <1>7. QED
    BY <1>6, AutoType DEF H

\* The start of the tests, and the RESET that some of them send.
LEMMA Starts ==
  /\ Start \in Seq(Steps) /\ Known(Start, Begun)
  /\ \E H : Known(Start \o All("RESET", ""), H) /\ Begun \subseteq H
  /\ Start \o All("RESET", "") \in Seq(Steps)
  <1> DEFINE G == {WHOLE, ON, SANE, Job(0)}
  <1>1. Host("AUTO_ADDRESS", "") \in Seq(Steps) /\ All("RESET", "") \in Seq(Steps)
    <2>1. ArgFits("AUTO_ADDRESS", "") /\ ArgFits("RESET", "")
      BY DEF ArgFits, Plain
    <2>2. QED
      BY <2>1, AllType
  <1>2. Start \in Seq(Steps)
    BY <1>1, Resetting, Concat, Zenon DEF Start
  <1>3. Known(Start, Unnumbered(G) \cup {NUMBERED, ANSWERED} \cup {})
    <2> HIDE DEF G
    <2>1. Known(Host("HW_RESET", ""), G)
      BY Resetting DEF G
    <2>2. QED
      BY <2>1, Numbers DEF Start
  <1>4. Begun \subseteq Unnumbered(G) \cup {NUMBERED, ANSWERED} \cup {}
    <2>1. /\ WHOLE.at = 0 /\ ON.at = 0 /\ SANE.at = 0 /\ Job(0).at = 0
          /\ WHOLE.is = "whole" /\ ON.is = "on" /\ SANE.is = "sane" /\ Job(0).is = "RUN_JOB"
      BY DEF WHOLE, ON, SANE, Job, Fact
    <2>2. /\ WHOLE \in Unnumbered(G) /\ ON \in Unnumbered(G) /\ SANE \in Unnumbered(G)
          /\ Job(0) \in Unnumbered(G)
      BY <2>1 DEF Unnumbered, IsShare
    <2>3. QED
      BY <2>2 DEF Begun
  <1> HIDE DEF G
  <1>5. Known(Start, Begun)
    BY <1>3, <1>4, KnownPart
  <1>6. Known(Start \o All("RESET", ""), Begun)
    <2> DEFINE c == Command("RESET", 0, -1, "")
    <2>1. c \in Steps /\ c.cmd = "RESET" /\ All("RESET", "") = <<c>>
      <3>1. ArgFits("RESET", "")
        BY DEF ArgFits, Plain
      <3>2. \A cmd, arg : ArgFits(cmd, arg) => Command(cmd, 0, -1, arg) \in Steps
        BY CommandType, BringupAssumption
      <3>3. c \in Steps
        BY <3>1, <3>2
      <3>4. QED
        BY <3>3 DEF Command, All, Step
    <2> HIDE DEF c
    <2>2. ASSUME NEW f, f.is \in {"whole", "numbered", "answered", "on", "sane"}
                        \/ (f.is = "RUN_JOB" /\ f.arg = 0)
          PROVE  Keeps(c, Full(Begun), f)
      <3>1. f.is = "RUN_JOB" => KeepsChip(c, Full(Begun), f)
        BY <2>1, <2>2 DEF KeepsChip, Plainly
      <3>2. QED
        BY <2>1, <2>2, <3>1 DEF Keeps, PerChip, Plainly
    <2>3. \A f \in Begun : f.is \in {"whole", "numbered", "answered", "on", "sane"}
                           \/ (f.is = "RUN_JOB" /\ f.arg = 0)
      <3>1. Job(0).is = "RUN_JOB" /\ Job(0).arg = 0
        BY DEF Job, Fact
      <3>2. QED
        BY <3>1, Kinds DEF Begun
    <2>4. QED
      BY <1>5, <2>1, <2>2, <2>3, Turn
  <1>7. Start \o All("RESET", "") \in Seq(Steps)
    BY <1>1, <1>2, Concat, Zenon
  <1>8. QED
    BY <1>2, <1>5, <1>6, <1>7

\* Pieces of several commands.
LEMMA Assoc == \A s, t, u \in Seq(Steps) : s \o (t \o u) = (s \o t) \o u
  BY SMTT(30), ConcatAssociative

Joined(s, t, u) == t \o u \in Seq(Steps) /\ s \o (t \o u) = s \o t \o u

\* A list that is appended in two parts.
LEMMA Join ==
  ASSUME NEW s \in Seq(Steps), NEW t \in Seq(Steps), NEW u \in Seq(Steps)
  PROVE  Joined(s, t, u)
  <1>1. t \o u \in Seq(Steps)
    BY Concat, Zenon
  <1>2. s \o (t \o u) = s \o t \o u
    BY Assoc, Zenon
  <1>3. QED
    BY <1>1, <1>2, Zenon DEF Joined

Grouped(s, t, u, v) ==
  /\ t \o u \in Seq(Steps) /\ t \o u \o v \in Seq(Steps) /\ t \o (u \o v) \in Seq(Steps)
  /\ s \o (t \o u) = s \o t \o u
  /\ s \o (t \o u \o v) = s \o t \o u \o v
  /\ s \o (t \o (u \o v)) = s \o t \o u \o v

\* A list that is appended in three parts.
LEMMA Regroup ==
  ASSUME NEW s \in Seq(Steps), NEW t \in Seq(Steps), NEW u \in Seq(Steps), NEW v \in Seq(Steps)
  PROVE  Grouped(s, t, u, v)
  <1> DEFINE a == s \o t
             b == t \o u
             c == u \o v
  <1>1. a \in Seq(Steps)
    BY Concat, Zenon
  <1>b. b \in Seq(Steps)
    BY Concat, Zenon
  <1>c. c \in Seq(Steps)
    BY Concat, Zenon
  <1>2. s \o b = a \o u
    BY Assoc
  <1> HIDE DEF a, b, c
  <1>3. s \o (b \o v) = (s \o b) \o v
    BY <1>b, Assoc, ZenonT(40)
  <1>4. a \o (u \o v) = (a \o u) \o v
    BY <1>1, Assoc, Zenon
  <1>5. s \o (t \o c) = (s \o t) \o c
    BY <1>c, Assoc, ZenonT(40)
  <1>6. b \o v \in Seq(Steps) /\ t \o c = b \o v
    <2>1. t \o c = b \o v
      BY Assoc, Zenon DEF b, c
    <2>2. QED
      BY <1>b, <2>1, Concat, Zenon
  <1>7. QED
    BY <1>b, <1>2, <1>3, <1>4, <1>5, <1>6, Zenon DEF a, b, c, Grouped

\* What two lists of commands keep.
LEMMA KeptOn ==
  ASSUME NEW G, NEW H, NEW I, NEW X, NEW Y, Kept(G, H, X), Kept(H, I, Y)
  PROVE  Kept(G, I, X \cup Y)
  BY DEF Kept

\* The lists that the programs are built from are lists of commands.
LEMMA SeqTypes ==
  /\ \A cmd \in Plainly : \A arg : ArgFits(cmd, arg) => All(cmd, arg) \in Seq(Steps)
  /\ \A cmd \in {"READ_FEATURE", "PLL_FREQ", "CHECK_CHIPS", "RUN_BIST", "RUN_JOB", "RESET"} :
       All(cmd, "") \in Seq(Steps) /\ Host(cmd, "") \in Seq(Steps)
  /\ \A cmd, arg : ArgFits(cmd, arg) => Each(cmd, arg) \in Seq(Steps)
  /\ \A v \in Data : ArgFits("WRITE_PARAM", v) /\ ArgFits("WRITE_TARGET", v)
  /\ \A r \in Ranges \cup {"share"} : ArgFits("WRITE_NONCE", r)
  /\ \A m \in Masks : ArgFits("SET_DISABLE", m)
  /\ \A r \in Ranges : Host("DISTRIBUTE", r) \in Seq(Steps)
  /\ ReadBist \in Seq(Steps) /\ Each("SET_PLL", "") \in Seq(Steps)
  /\ Each("CHECK_ID", "") \in Seq(Steps)
  <1>1. \A cmd \in {"READ_FEATURE", "PLL_FREQ", "CHECK_CHIPS", "RUN_BIST", "RUN_JOB", "RESET",
                    "SET_PLL", "CHECK_ID", "READ_BIST"} : ArgFits(cmd, "")
    BY DEF ArgFits, Plain
  <1>2. /\ \A v \in Data : ArgFits("WRITE_PARAM", v) /\ ArgFits("WRITE_TARGET", v)
        /\ \A r \in Ranges \cup {"share"} : ArgFits("WRITE_NONCE", r)
        /\ \A m \in Masks : ArgFits("SET_DISABLE", m)
        /\ \A r \in Ranges : ArgFits("DISTRIBUTE", r)
    BY DEF ArgFits
  <1>3. \A cmd, arg : ArgFits(cmd, arg) => All(cmd, arg) \in Seq(Steps)
                                           /\ Host(cmd, arg) \in Seq(Steps)
                                           /\ Each(cmd, arg) \in Seq(Steps)
    BY AllType
  <1>4. QED
    BY <1>1, <1>2, <1>3 DEF ReadBist

\* The data of a test vector: its midstate and its target.
LEMMA VectorGoes ==
  ASSUME NEW s, NEW G, Known(s, G), NEW v \in Data
  PROVE  /\ Vector(v) \in Seq(Steps)
         /\ Goes(s, Vector(v), G, {"WRITE_PARAM", "WRITE_TARGET"},
                 {Fact("WRITE_PARAM", 0, v), Fact("WRITE_TARGET", 0, v)})
  <1> DEFINE t == All("WRITE_PARAM", v)
             u == All("WRITE_TARGET", v)
  <1>1. /\ ArgFits("WRITE_PARAM", v) /\ ArgFits("WRITE_TARGET", v) /\ v # "share"
        /\ "WRITE_PARAM" \in Plainly /\ "WRITE_TARGET" \in Plainly
    BY SeqTypes DEF Data, Plainly
  <1>2. s \in Seq(Steps) /\ t \in Seq(Steps) /\ u \in Seq(Steps)
    BY <1>1, SeqTypes DEF Known
  <1>3. Goes(s, t, G, {"WRITE_PARAM"}, {Fact("WRITE_PARAM", 0, v)})
    BY <1>1, AllWrite
  <1>4. PICK H : Known(s \o t, H) /\ Kept(G, H, {"WRITE_PARAM"}) /\ Fact("WRITE_PARAM", 0, v) \in H
    BY <1>3 DEF Goes
  <1>5. Goes(s \o t, u, H, {"WRITE_TARGET"}, {Fact("WRITE_TARGET", 0, v)})
    BY <1>1, <1>4, AllWrite
  <1>6. PICK I : /\ Known(s \o t \o u, I) /\ Kept(H, I, {"WRITE_TARGET"})
                 /\ Fact("WRITE_TARGET", 0, v) \in I
    BY <1>5 DEF Goes
  <1> HIDE DEF t, u
  <1>7. s \o (t \o u) = s \o t \o u /\ t \o u \in Seq(Steps)
    BY <1>2, Assoc, Concat, ZenonT(40)
  <1>8. Fact("WRITE_PARAM", 0, v) \in I
    BY <1>4, <1>6, Kinds DEF Kept
  <1>9. Kept(G, I, {"WRITE_PARAM", "WRITE_TARGET"})
    BY <1>4, <1>6 DEF Kept
  <1>10. QED
    BY <1>6, <1>7, <1>8, <1>9 DEF Goes, Vector, t, u

\* The type of the board is read, and the PLL of each chip is set.
LEMMA SetPllGoes ==
  ASSUME NEW s, NEW G, Known(s, G), NUMBERED \in G, ANSWERED \in G
  PROVE  SetPll \in Seq(Steps) /\ Goes(s, SetPll, G, {"fresh"}, {Clock(0)})
  <1> DEFINE t == All("READ_FEATURE", "")
             u == Host("PLL_FREQ", "")
             v == Each("SET_PLL", "")
  <1>1. s \in Seq(Steps) /\ t \in Seq(Steps) /\ u \in Seq(Steps) /\ v \in Seq(Steps)
    BY SeqTypes DEF Known
  <1>2. Goes(s, t, G, {}, {})
    BY AllIdle
  <1>3. PICK H : Known(s \o t, H) /\ Kept(G, H, {})
    BY <1>2 DEF Goes
  <1>4. Goes(s \o t, u, H, {}, {})
    BY <1>3, AllIdle DEF Host
  <1>5. PICK I : Known(s \o t \o u, I) /\ Kept(H, I, {})
    BY <1>4 DEF Goes
  <1>6. NUMBERED \in I /\ ANSWERED \in I
    BY <1>3, <1>5, Kinds DEF Kept
  <1>7. Goes(s \o t \o u, v, I, {"fresh"}, {Clock(0)})
    BY <1>5, <1>6, EachPll
  <1>8. PICK J : Known(s \o t \o u \o v, J) /\ Kept(I, J, {"fresh"}) /\ Clock(0) \in J
    BY <1>7 DEF Goes
  <1> HIDE DEF t, u, v
  <1>9. /\ s \o (t \o (u \o v)) = s \o t \o u \o v
        /\ t \o (u \o v) \in Seq(Steps)
    <2>1. Grouped(s, t, u, v)
      BY <1>1, Regroup
    <2>2. QED
      BY <2>1, Zenon DEF Grouped
  <1>10. Kept(G, J, {"fresh"})
    BY <1>3, <1>5, <1>8 DEF Kept
  <1>11. QED
    BY <1>8, <1>9, <1>10 DEF Goes, SetPll, SetPllFreq, BoardType, t, u, v

\* The nonces shared out: DistributionNonce and a WRITE_NONCE to each chip.
LEMMA SharesGoes ==
  ASSUME NEW s, NEW G, Known(s, G), NUMBERED \in G, ANSWERED \in G, NEW range \in Ranges
  PROVE  /\ Shares(range) \in Seq(Steps)
         /\ Goes(s, Shares(range), G, {"dist", "WRITE_NONCE"}, {Dist(range), Share(0)})
  <1> DEFINE t == Host("DISTRIBUTE", range)
             u == Each("WRITE_NONCE", "share")
  <1>1. s \in Seq(Steps) /\ t \in Seq(Steps) /\ u \in Seq(Steps) /\ ArgFits("WRITE_NONCE", "share")
    BY SeqTypes DEF Known
  <1>2. Goes(s, t, G, {"dist", "WRITE_NONCE"}, {Dist(range)})
    BY Distributes
  <1>3. PICK H : /\ Known(s \o t, H) /\ Kept(G, H, {"dist", "WRITE_NONCE"}) /\ Dist(range) \in H
    BY <1>2 DEF Goes
  <1>4. NUMBERED \in H /\ ANSWERED \in H
    BY <1>3, Kinds DEF Kept
  <1>5. Goes(s \o t, u, H, {"WRITE_NONCE"}, {Share(0)})
    BY <1>1, <1>3, <1>4, EachWrite DEF Share
  <1>6. PICK I : Known(s \o t \o u, I) /\ Kept(H, I, {"WRITE_NONCE"}) /\ Share(0) \in I
    BY <1>5 DEF Goes
  <1> HIDE DEF t, u
  <1>7. s \o (t \o u) = s \o t \o u /\ t \o u \in Seq(Steps)
    BY <1>1, Assoc, Concat, ZenonT(40)
  <1>8. Dist(range) \in I
    BY <1>3, <1>6, Kinds DEF Kept
  <1>9. Kept(G, I, {"dist", "WRITE_NONCE"})
    BY <1>3, <1>6 DEF Kept
  <1>10. QED
    BY <1>6, <1>7, <1>8, <1>9 DEF Goes, Shares, t, u

BistKinds == {"WRITE_PARAM", "WRITE_TARGET", "WRITE_NONCE", "RUN_BIST", "WRITE_CORE_CFG",
              "checked", "fresh"}

\* BIST and the counts, once the golden data is in the chips.
LEMMA BistGoes ==
  ASSUME NEW s, NEW G, Known(s, G), NEW mask, GoldenIn(G, 0), Fact("SET_DISABLE", 0, mask) \in G,
         ON \in G \/ Bist(0, mask) \in G,
         NEW W, W \subseteq Addresses, W # {} => WHOLE \in G /\ NUMBERED \in G
  PROVE  \E H : /\ Known(s \o All("RUN_BIST", "") \o ReadBist, H)
                /\ Kept(G, H, {"RUN_BIST", "WRITE_CORE_CFG", "checked", "fresh"})
                /\ Bist(0, mask) \in H /\ \A a \in W : Fresh(a) \in H
  <1> DEFINE t == All("RUN_BIST", "")
             X == {"RUN_BIST", "WRITE_CORE_CFG", "fresh"}
  <1>1. Goes(s, t, G, X, {Bist(0, mask)})
    BY AllBist
  <1>2. PICK H : Known(s \o t, H) /\ Kept(G, H, X) /\ Bist(0, mask) \in H
    BY <1>1 DEF Goes
  <1>3. W # {} => WHOLE \in H /\ NUMBERED \in H
    BY <1>2, Kinds DEF Kept
  <1>4. Goes(s \o t, ReadBist, H, {"checked", "fresh"}, {Fresh(a) : a \in W})
    BY <1>2, <1>3, ReadsBist
  <1>5. PICK I : /\ Known(s \o t \o ReadBist, I) /\ Kept(H, I, {"checked", "fresh"})
                 /\ \A a \in W : Fresh(a) \in I
    BY <1>4 DEF Goes
  <1>6. Bist(0, mask) \in I
    BY <1>2, <1>5, Kinds DEF Kept
  <1>7. Kept(G, I, {"RUN_BIST", "WRITE_CORE_CFG", "checked", "fresh"})
    BY <1>2, <1>5 DEF Kept
  <1>8. QED
    BY <1>5, <1>6, <1>7

\* RunBist: golden data, BIST and a count that the handle has from each chip.
LEMMA RunBistGoes ==
  ASSUME NEW s, NEW G, Known(s, G), NEW mask, ON \in G, Fact("SET_DISABLE", 0, mask) \in G,
         NEW W, W \subseteq Addresses, W # {} => WHOLE \in G /\ NUMBERED \in G
  PROVE  /\ RunBist \in Seq(Steps)
         /\ \E H : /\ Known(s \o RunBist, H) /\ Kept(G, H, BistKinds) /\ Bist(0, mask) \in H
                   /\ \A a \in W : Fresh(a) \in H
  <1> DEFINE t == Vector("golden")
             u == All("WRITE_NONCE", "golden")
             v == All("RUN_BIST", "")
             X == {"WRITE_PARAM", "WRITE_TARGET"}
  <1>1. /\ "golden" \in Data /\ "golden" \in Ranges /\ ArgFits("WRITE_NONCE", "golden")
        /\ "WRITE_NONCE" \in Plainly
    BY SeqTypes DEF Data, Ranges, Plainly
  <1>2. /\ s \in Seq(Steps) /\ t \in Seq(Steps) /\ u \in Seq(Steps) /\ v \in Seq(Steps)
        /\ ReadBist \in Seq(Steps)
    <2>1. s \in Seq(Steps)
      BY DEF Known
    <2>2. t \in Seq(Steps)
      BY <1>1, VectorGoes
    <2>3. u \in Seq(Steps) /\ v \in Seq(Steps) /\ ReadBist \in Seq(Steps)
      <3> HIDE DEF t, X
      <3>1. QED
        BY <1>1, SeqTypes
    <2>4. QED
      BY <2>1, <2>2, <2>3
  <1>3. Goes(s, t, G, X, {Fact("WRITE_PARAM", 0, "golden"), Fact("WRITE_TARGET", 0, "golden")})
    BY <1>1, VectorGoes
  <1>4. PICK H : /\ Known(s \o t, H) /\ Kept(G, H, X)
                 /\ Fact("WRITE_PARAM", 0, "golden") \in H
                 /\ Fact("WRITE_TARGET", 0, "golden") \in H
    BY <1>3 DEF Goes
  <1>5. Goes(s \o t, u, H, {"WRITE_NONCE"}, {Fact("WRITE_NONCE", 0, "golden")})
    BY <1>1, <1>4, AllWrite
  <1>6. PICK I : /\ Known(s \o t \o u, I) /\ Kept(H, I, {"WRITE_NONCE"})
                 /\ Fact("WRITE_NONCE", 0, "golden") \in I
    BY <1>5 DEF Goes
  <1>7. GoldenIn(I, 0)
    BY <1>4, <1>6, Kinds DEF Kept, GoldenIn
  <1>8. /\ Fact("SET_DISABLE", 0, mask) \in I /\ ON \in I
        /\ W # {} => WHOLE \in I /\ NUMBERED \in I
    BY <1>4, <1>6, Kinds DEF Kept
  <1> DEFINE Y == {"RUN_BIST", "WRITE_CORE_CFG", "checked", "fresh"}
  <1>9. PICK J : /\ Known(s \o t \o u \o v \o ReadBist, J) /\ Kept(I, J, Y)
                 /\ Bist(0, mask) \in J /\ \A a \in W : Fresh(a) \in J
    <2> HIDE DEF t, u, X
    <2>1. QED
      BY <1>6, <1>7, <1>8, BistGoes
  <1> HIDE DEF t, u, v
  <1>10. /\ s \o (t \o u \o v \o ReadBist) = s \o t \o u \o v \o ReadBist
         /\ t \o u \o v \o ReadBist \in Seq(Steps)
    <2>1. Grouped(s, t, u, v)
      BY <1>2, Regroup
    <2> DEFINE w == t \o u \o v
    <2>2. w \in Seq(Steps) /\ s \o w = s \o t \o u \o v
      BY <2>1, Zenon DEF Grouped
    <2> HIDE DEF w
    <2>3. Joined(s, w, ReadBist)
      BY <1>2, <2>2, Join
    <2>4. QED
      BY <2>2, <2>3, Zenon DEF w, Joined
  <1>11. Kept(G, J, BistKinds)
    BY <1>4, <1>6, <1>9 DEF Kept, BistKinds
  <1>12. QED
    BY <1>9, <1>10, <1>11 DEF RunBist, t, u, v

\* The chain ends at chip 1 from now on, or still.
LEMMA EndsFirst ==
  ASSUME NEW s, NEW G, Known(s, G), NUMBERED \in G, ANSWERED \in G,
         NEW control \in {LAST, LAST_OON}
  PROVE  /\ SetLast(1, control) \in Seq(Steps)
         /\ \E H : /\ Known(s \o SetLast(1, control), H)
                   /\ Kept(G, H, {"SET_CONTROL", "dist", "checked", "fresh"})
                   /\ control = LAST_OON => Oon(1) \in H
  <1> DEFINE t == Step("SET_CONTROL", 1, -1, control)
             u == Step("AUTO_ADDRESS", 0, -1, "")
             N == IF control = LAST_OON THEN {Oon(1)} ELSE {}
             X == IF control = LAST_OON THEN {} ELSE {"SET_CONTROL"}
             Y == {"dist", "checked", "fresh"}
  <1>1. \A f \in N : f = Oon(1) /\ control = LAST_OON
    OBVIOUS
  <1>2. s \in Seq(Steps) /\ t \in Seq(Steps) /\ u \in Seq(Steps)
    <2>1. ArgFits("SET_CONTROL", control) /\ ArgFits("AUTO_ADDRESS", "")
      BY LastControls DEF ArgFits, Plain
    <2>2. \A arg : /\ ArgFits("SET_CONTROL", arg) => Step("SET_CONTROL", 1, -1, arg) \in Seq(Steps)
                   /\ ArgFits("AUTO_ADDRESS", arg)
                        => Step("AUTO_ADDRESS", 0, -1, arg) \in Seq(Steps)
      <3>1. -1 \in -1 .. MaxChips + 1 /\ 0 \in -1 .. MaxChips /\ 1 \in -1 .. MaxChips
        BY BringupAssumption
      <3>2. QED
        BY <3>1, CommandType DEF Step
    <2>3. s \in Seq(Steps)
      BY DEF Known
    <2>4. QED
      BY <2>1, <2>2, <2>3
  <1> HIDE DEF N
  <1>3. Goes(s, t, G, X, N)
    BY <1>1, FirstLast
  <1> HIDE DEF t, u
  <1>4. PICK H : Known(s \o t, H) /\ Kept(G, H, X) /\ N \subseteq H
    BY <1>3, Zenon DEF Goes
  <1>5. NUMBERED \in H /\ ANSWERED \in H
    BY <1>4, Kinds DEF Kept
  <1>6. Goes(s \o t, u, H, Y, {})
    BY <1>4, <1>5, SameNumbers DEF u
  <1>7. PICK I : Known(s \o t \o u, I) /\ Kept(H, I, Y)
    BY <1>6 DEF Goes
  <1>8. Joined(s, t, u)
    BY <1>2, Join
  <1>9. Kept(G, I, {"SET_CONTROL", "dist", "checked", "fresh"})
    BY <1>4, <1>7 DEF Kept
  <1>10. control = LAST_OON => Oon(1) \in I
    <2>1. \A f \in N : f.is \notin Y \cup {"top"} => f \in I
      BY <1>4, <1>7 DEF Kept
    <2>2. QED
      BY <2>1, Kinds DEF N
  <1>11. SetLast(1, control) = t \o u
    BY DEF SetLast, One, Host, All, t, u
  <1>12. QED
    BY <1>7, <1>8, <1>9, <1>10, <1>11 DEF Joined

\* The last chip, or the last there is, gets LAST_CHIP with its interrupt on.
LEMMA EndsAtTop ==
  ASSUME NEW s, NEW G, Known(s, G), Begun \subseteq G
  PROVE  /\ SetLast(LastOrTop, LAST_OON) \in Seq(Steps)
         /\ \E H : /\ Known(s \o SetLast(LastOrTop, LAST_OON), H)
                   /\ {NUMBERED, ANSWERED, ON, SANE, Job(0), Oon(1)} \subseteq H
  <1> DEFINE c == Command("SET_CONTROL", LastOrTop, -1, LAST_OON)
             H == {ANSWERED, ON, SANE, Job(0), TOP}
             u == Host("AUTO_ADDRESS", "")
  <1>1. /\ c \in Steps /\ c.cmd = "SET_CONTROL" /\ c.arg.last /\ c.arg.oon
        /\ c.to = LastOrTop /\ c.need = -1
    <2>1. ArgFits("SET_CONTROL", LAST_OON) /\ LAST_OON.last /\ LAST_OON.oon
      BY LastControls
    <2>2. \A cmd, arg : ArgFits(cmd, arg) => Command(cmd, LastOrTop, -1, arg) \in Steps
      <3>1. LastOrTop \in -1 .. MaxChips /\ -1 \in -1 .. MaxChips + 1
        BY BringupAssumption DEF LastOrTop
      <3>2. QED
        BY <3>1, CommandType
    <2>3. c \in Steps
      BY <2>1, <2>2
    <2>4. QED
      BY <2>1, <2>3 DEF Command
  <1>2. One(LastOrTop, "SET_CONTROL", LAST_OON) = <<c>>
    BY DEF One, Step
  <1> HIDE DEF c, H, u
  <1>3. NUMBERED \in Full(G) /\ ANSWERED \in Full(G)
    BY DEF Begun, Full
  <1>4. \A f : f.is \in {"answered", "on", "sane", "RUN_JOB"} => Keeps(c, Full(G), f)
    <2> TAKE f
    <2> HAVE f.is \in {"answered", "on", "sane", "RUN_JOB"}
    <2>1. KeepsChip(c, Full(G), f)
      BY <1>1 DEF KeepsChip, NoneBack, Plainly
    <2>2. QED
      BY <1>1, <2>1 DEF Keeps
  <1>5. Gains(c, Full(G), TOP) /\ TOP.is = "top"
    <2>1. \A f : f.is = "top" => Gains(c, Full(G), f)
      BY <1>1, <1>3 DEF Gains, Plainly
    <2>2. TOP.is = "top"
      BY DEF TOP, Fact
    <2>3. QED
      BY <2>1, <2>2
  <1>6. \A f \in H : \/ f \in G /\ Keeps(c, Full(G), f)
                     \/ Gains(c, Full(G), f) /\ (f.is = "RUN_JOB" => f.arg = JobsIn(s))
    BY <1>4, <1>5, Kinds DEF H, Begun
  <1>7. Known(s \o <<c>>, H)
    BY <1>1, <1>6, Turn
  <1> DEFINE I == Unnumbered(H) \cup {NUMBERED, ANSWERED} \cup {Oon(1)}
  <1>8. Known(s \o <<c>> \o u, I)
    <2>1. TOP \in H
      BY DEF H
    <2>2. \A f \in {Oon(1)} : f = Oon(1) /\ TOP \in H
      BY <2>1
    <2>3. QED
      BY <1>7, <2>2, Numbers DEF u
  <1>9. {NUMBERED, ANSWERED, ON, SANE, Job(0), Oon(1)} \subseteq I
    <2>1. /\ ON.at = 0 /\ SANE.at = 0 /\ Job(0).at = 0
          /\ ON.is = "on" /\ SANE.is = "sane" /\ Job(0).is = "RUN_JOB"
      BY DEF ON, SANE, Job, Fact
    <2>2. ON \in Unnumbered(H) /\ SANE \in Unnumbered(H) /\ Job(0) \in Unnumbered(H)
      BY <2>1 DEF Unnumbered, IsShare, H
    <2>3. QED
      BY <2>2
  <1> HIDE DEF I
  <1>10. Joined(s, <<c>>, u)
    <2>1. s \in Seq(Steps) /\ u \in Seq(Steps)
      <3>1. Readdress \in Steps /\ u = <<Readdress>>
        BY AutoType DEF u
      <3>2. <<Readdress>> \in Seq(Steps)
        BY <3>1
      <3>3. s \in Seq(Steps)
        BY DEF Known
      <3>4. QED
        BY <3>1, <3>2, <3>3, Zenon
    <2>2. c \in Steps
      BY <1>1
    <2>3. <<c>> \in Seq(Steps)
      BY <2>2
    <2>4. QED
      BY <2>1, <2>3, Join
  <1>11. SetLast(LastOrTop, LAST_OON) = <<c>> \o u
    BY <1>2 DEF SetLast, u
  <1>12. QED
    BY <1>8, <1>9, <1>10, <1>11 DEF Joined

\* The interrupts of the chips from "first" on.
LEMMA FromOon ==
  ASSUME NEW s, NEW G, Known(s, G), NUMBERED \in G, ANSWERED \in G, NEW first \in 2 .. MaxChips + 1
  PROVE  /\ From(first, "SET_CONTROL", OON) \in Seq(Steps)
         /\ Goes(s, From(first, "SET_CONTROL", OON), G, {}, {Oon(a) : a \in first .. MaxChips})
  <1> DEFINE t == From(first, "SET_CONTROL", OON)
             P == {f \in G : f.is # "top"}
             N == {Oon(a) : a \in first .. MaxChips}
  <1>1. OON \in Controls /\ ~OON.last /\ OON.oon /\ ArgFits("SET_CONTROL", OON)
    BY DEF OON, Controls, ArgFits
  <1>2. t \in Seq(Steps)
    <2>1. first \in Addresses \cup {MaxChips + 1}
      BY BringupAssumption DEF Addresses
    <2>2. QED
      BY <1>1, <2>1, AllType
  <1>3. /\ Len(t) = MaxChips + 1 - first /\ Len(t) \in Nat
        /\ \A k \in 1 .. Len(t) : t[k] = Command("SET_CONTROL", k + first - 1, k + first - 1, OON)
    <2>1. MaxChips + 1 - first \in Nat
      BY BringupAssumption
    <2>2. QED
      BY <2>1 DEF From
  <1> HIDE DEF t
  <1>4. \A k \in 1 .. Len(t) : /\ t[k].cmd = "SET_CONTROL" /\ t[k].arg = OON
                               /\ t[k].to = k + first - 1 /\ t[k].need = k + first - 1
                               /\ t[k].to >= 2 /\ t[k].to >= 1 /\ t[k].need <= t[k].to
    <2>1. \A k \in 1 .. Len(t) : /\ t[k].cmd = "SET_CONTROL" /\ t[k].arg = OON
                                 /\ t[k].to = k + first - 1 /\ t[k].need = k + first - 1
      <3>1. \A a, b : LET c == Command("SET_CONTROL", a, b, OON)
                      IN  c.cmd = "SET_CONTROL" /\ c.arg = OON /\ c.to = a /\ c.need = b
        BY DEF Command
      <3>2. QED
        BY <1>3, <3>1
    <2>2. QED
      BY <1>3, <2>1
  <1>5. NUMBERED \in Full(P) /\ ANSWERED \in Full(P)
    <2>1. NUMBERED \in P /\ ANSWERED \in P
      BY Kinds
    <2>2. QED
      BY <2>1 DEF Full
  <1>6. ASSUME NEW k \in 1 .. Len(t), NEW f, f.is # "top" PROVE Keeps(t[k], Full(P), f)
    <2> DEFINE c == t[k]
    <2>1. c.cmd = "SET_CONTROL" /\ c.arg = OON /\ c.to >= 2 /\ ~c.arg.last /\ c.arg.oon
      BY <1>1, <1>4
    <2> HIDE DEF c, P
    <2>2. KeepsChip(c, Full(P), f)
      BY <1>5, <2>1 DEF KeepsChip, NoneBack, Plainly
    <2>3. Keeps(c, Full(P), f)
      BY <1>6, <2>1, <2>2 DEF Keeps, Rereads
    <2>4. QED
      BY <2>3 DEF c
  <1>7. ASSUME NEW f \in N
        PROVE  /\ f.is # "RUN_JOB"
               /\ \E k \in 1 .. Len(t) : /\ Gains(t[k], Full(P), f)
                                         /\ \A j \in k + 1 .. Len(t) : Keeps(t[j], Full(P), f)
    <2>1. PICK a \in first .. MaxChips : f = Oon(a)
      BY <1>7
    <2>2. f.is = "SET_CONTROL" /\ f.at = a
      BY <2>1 DEF Oon, Fact
    <2> DEFINE k == a - first + 1
               c == t[k]
    <2>3. k \in 1 .. Len(t) /\ k + first - 1 = a
      BY <1>3, BringupAssumption
    <2> HIDE DEF k
    <2>4. /\ c.cmd = "SET_CONTROL" /\ c.arg = OON /\ c.to = a /\ c.to >= 2 /\ c.to >= 1
          /\ c.need <= a /\ c.arg.oon
      BY <1>1, <1>4, <2>3
    <2> HIDE DEF c
    <2>5. Gains(c, Full(P), f)
      <3>1. a >= 1
        BY <2>4
      <3>2. SentTo(c, Full(P), a) /\ NoneBack(c, Full(P))
        BY <1>5, <2>4, <3>1 DEF SentTo, NoneBack
      <3>3. QED
        BY <2>2, <2>4, <3>2 DEF Gains, Plainly
    <2>6. \A j \in k + 1 .. Len(t) : j \in 1 .. Len(t)
      BY <2>3
    <2>7. \A j \in k + 1 .. Len(t) : Keeps(t[j], Full(P), f)
      BY <1>6, <2>2, <2>6
    <2>8. QED
      BY <2>2, <2>3, <2>5, <2>7 DEF c
  <1>8. \A k \in 1 .. Len(t) : \A f \in P : Keeps(t[k], Full(P), f)
    BY <1>6
  <1>9. P \subseteq G /\ Kept(G, P \cup N, {}) /\ N \subseteq P \cup N
    BY DEF Kept
  <1> HIDE DEF P, N
  <1>10. Known(s \o t, P \cup N)
    BY <1>2, <1>7, <1>8, <1>9, Block
  <1>11. Goes(s, t, G, {}, N)
    BY <1>9, <1>10 DEF Goes
  <1>12. QED
    BY <1>2, <1>11 DEF t, N

\* The facts L are among those that G, without the kinds X, and N leave.
Leaves(G, X, N, L) == \A f \in L : f \in N \/ (f \in G /\ f.is \notin X \cup {"top"})

\* What is known after more commands, written out.
LEMMA Then ==
  ASSUME NEW s, NEW t, NEW G, NEW X, NEW N, NEW L, Goes(s, t, G, X, N), Leaves(G, X, N, L)
  PROVE  Known(s \o t, L)
  <1>1. PICK H : Known(s \o t, H) /\ Kept(G, H, X) /\ N \subseteq H
    BY DEF Goes
  <1>2. L \subseteq H
    BY <1>1 DEF Kept, Leaves
  <1>3. QED
    BY <1>1, <1>2, KnownPart

\* Two pieces, one after the other.
LEMMA Onward ==
  ASSUME NEW s, NEW t, NEW u, NEW G, NEW H, NEW X, NEW Y, NEW N, NEW M,
         s \in Seq(Steps), t \in Seq(Steps), u \in Seq(Steps),
         Kept(G, H, X), N \subseteq H, \A f \in N : f.is \notin Y \cup {"top"},
         Goes(s \o t, u, H, Y, M)
  PROVE  Goes(s, t \o u, G, X \cup Y, N \cup M)
  <1>1. PICK I : Known(s \o t \o u, I) /\ Kept(H, I, Y) /\ M \subseteq I
    BY DEF Goes
  <1>2. Joined(s, t, u)
    BY Join
  <1>3. Known(s \o (t \o u), I)
    BY <1>1, <1>2, Zenon DEF Joined
  <1>4. Kept(G, I, X \cup Y)
    BY <1>1 DEF Kept
  <1>5. N \cup M \subseteq I
    BY <1>1 DEF Kept
  <1>6. QED
    BY <1>3, <1>4, <1>5 DEF Goes

\* The cores that all chips leave out, sent to all and then again to each but the last.
MiningMask(mask) == [a \in Addresses |-> Command("SET_DISABLE", a, a + 1, mask)]

\* The mask of the mining service, which is sent if a chip answered.
LEMMA MiningMaskGoes ==
  ASSUME NEW s, NEW G, Known(s, G), ANSWERED \in G, NEW mask \in Masks
  PROVE  /\ Step("SET_DISABLE", 0, 1, mask) \in Seq(Steps)
         /\ Goes(s, Step("SET_DISABLE", 0, 1, mask), G, {"SET_DISABLE"},
                 {Fact("SET_DISABLE", 0, mask)})
  <1> DEFINE c == Command("SET_DISABLE", 0, 1, mask)
             f == Fact("SET_DISABLE", 0, mask)
  <1>1. c \in Steps /\ Step("SET_DISABLE", 0, 1, mask) = <<c>>
    <2>1. ArgFits("SET_DISABLE", mask)
      BY SeqTypes
    <2>2. 0 \in -1 .. MaxChips /\ 1 \in -1 .. MaxChips + 1
      BY BringupAssumption
    <2>3. \A arg : ArgFits("SET_DISABLE", arg) => Command("SET_DISABLE", 0, 1, arg) \in Steps
      BY <2>2, CommandType
    <2>4. QED
      BY <2>1, <2>3 DEF Step
  <1>2. c.cmd = "SET_DISABLE" /\ c.arg = mask /\ c.to = 0 /\ c.need = 1 /\ mask # "share"
    BY DEF Command, Masks
  <1>3. f.is = "SET_DISABLE" /\ f.arg = mask /\ f.at = 0
    BY DEF Fact
  <1> HIDE DEF c, f
  <1>4. SentTo(c, Full(G), 0)
    BY <1>2 DEF SentTo, Sure, Full
  <1>5. Gains(c, Full(G), f)
    BY <1>2, <1>3, <1>4 DEF Gains, Plainly
  <1> DEFINE X == {"SET_DISABLE"}
             N == {f}
  <1>6. Adds(c, G, X, N)
    BY <1>1, <1>2, <1>3, <1>5 DEF Adds, Special, Spoils, Plainly
  <1> HIDE DEF X, N
  <1>7. Goes(s, <<c>>, G, X, N)
    BY <1>6, Sole, Zenon
  <1>8. <<c>> \in Seq(Steps)
    <2>1. c \in Steps
      BY <1>1
    <2>2. QED
      BY <2>1
  <1>9. QED
    BY <1>1, <1>7, <1>8 DEF X, N, f

\* The loop of the service over the chips, which sends the mask again.
LEMMA AgainEach ==
  ASSUME NEW s, NEW G, Known(s, G), NEW mask \in Masks, Fact("SET_DISABLE", 0, mask) \in G
  PROVE  /\ MiningMask(mask) \in Seq(Steps)
         /\ Goes(s, MiningMask(mask), G, {"SET_DISABLE"}, {Fact("SET_DISABLE", 0, mask)})
  <1> DEFINE t == MiningMask(mask)
             P == {f \in G : f.is # "top" /\ (f.is = "SET_DISABLE" => f.arg = mask)}
  <1>1. \A a \in Addresses : /\ t[a] = Command("SET_DISABLE", a, a + 1, mask)
                             /\ t[a].cmd = "SET_DISABLE" /\ t[a].arg = mask
    BY DEF MiningMask, Command
  <1>2. t \in Seq(Steps) /\ Len(t) = MaxChips
    <2>1. ArgFits("SET_DISABLE", mask)
      BY SeqTypes
    <2>2. \A a \in Addresses : a \in -1 .. MaxChips /\ a + 1 \in -1 .. MaxChips + 1
      BY BringupAssumption DEF Addresses
    <2>3. \A arg : \A a \in Addresses : ArgFits("SET_DISABLE", arg) =>
            Command("SET_DISABLE", a, a + 1, arg) \in Steps
      BY <2>2, CommandType
    <2>4. \A a \in Addresses : t[a] \in Steps
      BY <1>1, <2>1, <2>3
    <2>5. t = [a \in 1 .. MaxChips |-> t[a]] /\ MaxChips \in Nat
      BY BringupAssumption DEF MiningMask, Addresses
    <2> HIDE DEF t
    <2>6. QED
      BY <2>4, <2>5, FunctionSeq DEF Addresses
  <1> HIDE DEF t
  <1>3. ASSUME NEW k \in 1 .. Len(t), NEW f \in P PROVE Keeps(t[k], Full(P), f)
    <2> DEFINE c == t[k]
    <2>1. k \in Addresses /\ c.cmd = "SET_DISABLE" /\ c.arg = mask /\ mask # "share"
      BY <1>1, <1>2 DEF Addresses, Masks
    <2>2. f.is # "top" /\ (f.is = "SET_DISABLE" => f.arg = mask)
      OBVIOUS
    <2> HIDE DEF c, P
    <2>3. KeepsChip(c, Full(P), f)
      BY <2>1, <2>2 DEF KeepsChip, Plainly
    <2>4. Keeps(c, Full(P), f)
      BY <2>1, <2>2, <2>3 DEF Keeps, Rereads
    <2>5. QED
      BY <2>4 DEF c
  <1>4. P \subseteq G /\ Kept(G, P \cup {}, {"SET_DISABLE"})
    BY DEF Kept
  <1>5. Fact("SET_DISABLE", 0, mask) \in P
    BY Kinds
  <1> HIDE DEF P
  <1>6. Known(s \o t, P \cup {})
    BY <1>2, <1>3, <1>4, Block
  <1>7. QED
    BY <1>2, <1>4, <1>5, <1>6 DEF Goes, t

\* The first job, and the four of a full FIFO.
LEMMA SameSeq ==
  ASSUME NEW c
  PROVE  [k \in 1 .. 1 |-> c] = <<c>> /\ [k \in 1 .. 4 |-> c] = <<c, c, c, c>>
  <1>1. [k \in 1 .. 1 |-> c] = <<c>>
    <2>1. DOMAIN <<c>> = 1 .. 1 /\ \A k \in 1 .. 1 : <<c>>[k] = c
      OBVIOUS
    <2>2. QED
      BY <2>1
  <1>2. [k \in 1 .. 4 |-> c] = <<c, c, c, c>>
    <2> DEFINE t == [k \in 1 .. 4 |-> c]
               u == <<c, c, c, c>>
    <2>1. t \in Seq({c}) /\ Len(t) = 4 /\ \A k \in 1 .. 4 : t[k] = c
      <3>1. t = [k \in 1 .. 4 |-> t[k]] /\ \A k \in 1 .. 4 : t[k] \in {c}
        OBVIOUS
      <3> HIDE DEF t
      <3>2. QED
        BY <3>1, FunctionSeq
    <2>2. u \in Seq({c}) /\ Len(u) = 4 /\ \A k \in 1 .. 4 : u[k] = c
      OBVIOUS
    <2> HIDE DEF t, u
    <2>3. t = u
      BY <2>1, <2>2, SeqEqual
    <2>4. QED
      BY <2>3 DEF t, u
  <1>3. QED
    BY <1>1, <1>2

\* One job.
LEMMA FirstJob ==
  ASSUME NEW s, NEW G, Known(s, G), Job(0) \in G
  PROVE  Jobs(1) \in Seq(Steps) /\ Goes(s, Jobs(1), G, {"RUN_JOB"}, {Job(1)})
  <1> DEFINE c == Command("RUN_JOB", 0, -1, "")
  <1>0. Jobs(1) = [k \in 1 .. 1 |-> c] /\ All("RUN_JOB", "") = <<c>>
    BY JobCommand DEF Jobs
  <1> HIDE DEF c
  <1>1. Jobs(1) = All("RUN_JOB", "")
    <2>1. [k \in 1 .. 1 |-> c] = <<c>>
      BY SameSeq
    <2>2. QED
      BY <1>0, <2>1
  <1>2. 0 \in 0 .. FifoDepth - 1 /\ 0 + 1 = 1
    BY DEF FifoDepth
  <1>3. Goes(s, All("RUN_JOB", ""), G, {"RUN_JOB"}, {Job(0 + 1)})
    BY <1>2, OneJob
  <1>4. QED
    BY <1>1, <1>2, <1>3, SeqTypes

\* As many jobs as the FIFO holds.
LEMMA FourOf == Jobs(FifoDepth) =
  All("RUN_JOB", "") \o All("RUN_JOB", "") \o All("RUN_JOB", "") \o All("RUN_JOB", "")
  <1> DEFINE c == Command("RUN_JOB", 0, -1, "")
  <1>1. Jobs(4) = [k \in 1 .. 4 |-> c]
    BY DEF Jobs
  <1>2. All("RUN_JOB", "") = <<c>> /\ c \in Steps
    BY JobCommand
  <1> HIDE DEF c
  <1>3. [k \in 1 .. 4 |-> c] = <<c, c, c, c>>
    BY SameSeq
  <1>4. <<c>> \o <<c>> \o <<c>> \o <<c>> = <<c, c, c, c>>
    <2>1. <<c>> \o <<c>> = <<c, c>>
      BY <1>2, Pair, Zenon
    <2>2. <<c, c>> \o <<c>> = <<c, c, c>>
      BY <1>2, Three, Zenon
    <2>3. <<c, c, c>> \o <<c>> = <<c, c, c, c>>
      BY <1>2, Four, Zenon
    <2>4. QED
      BY <2>1, <2>2, <2>3, Zenon
  <1>5. QED
    BY <1>1, <1>2, <1>3, <1>4 DEF FifoDepth

\* The FIFO of each chip filled.
LEMMA JobsGoes ==
  ASSUME NEW s, NEW G, Known(s, G), Job(0) \in G
  PROVE  Jobs(FifoDepth) \in Seq(Steps) /\ Goes(s, Jobs(FifoDepth), G, {"RUN_JOB"}, {Job(4)})
  <1> DEFINE j == All("RUN_JOB", "")
             X == {"RUN_JOB"}
  <1>1. j \in Seq(Steps) /\ s \in Seq(Steps)
    BY SeqTypes DEF Known
  <1>2. \A n \in 0 .. 3 : n \in 0 .. FifoDepth - 1
    BY DEF FifoDepth
  <1>3. \A u, H : \A n \in 0 .. 3 : Known(u, H) /\ Job(n) \in H => Goes(u, j, H, X, {Job(n + 1)})
    BY <1>2, OneJob
  <1>4. 0 \in 0 .. 3 /\ 1 \in 0 .. 3 /\ 2 \in 0 .. 3 /\ 3 \in 0 .. 3
        /\ 0 + 1 = 1 /\ 1 + 1 = 2 /\ 2 + 1 = 3 /\ 3 + 1 = 4
    OBVIOUS
  <1> HIDE DEF j
  <1>5. \A u, H : /\ Known(u, H) /\ Job(0) \in H => Goes(u, j, H, X, {Job(1)})
                  /\ Known(u, H) /\ Job(1) \in H => Goes(u, j, H, X, {Job(2)})
                  /\ Known(u, H) /\ Job(2) \in H => Goes(u, j, H, X, {Job(3)})
                  /\ Known(u, H) /\ Job(3) \in H => Goes(u, j, H, X, {Job(4)})
    BY <1>3, <1>4
  <1>6. PICK H : Known(s \o j, H) /\ Kept(G, H, X) /\ Job(1) \in H
    BY <1>5 DEF Goes
  <1>7. PICK I : Known(s \o j \o j, I) /\ Kept(H, I, X) /\ Job(2) \in I
    BY <1>5, <1>6 DEF Goes
  <1>8. PICK J : Known(s \o j \o j \o j, J) /\ Kept(I, J, X) /\ Job(3) \in J
    BY <1>5, <1>7 DEF Goes
  <1>9. PICK K : Known(s \o j \o j \o j \o j, K) /\ Kept(J, K, X) /\ Job(4) \in K
    BY <1>5, <1>8 DEF Goes
  <1>10. Kept(G, K, X)
    BY <1>6, <1>7, <1>8, <1>9 DEF Kept
  <1> DEFINE j3 == j \o j \o j
             s3 == s \o j \o j \o j
  <1>11. s \o j3 = s3 /\ j3 \in Seq(Steps)
    <2>1. Grouped(s, j, j, j)
      BY <1>1, Regroup
    <2>2. QED
      BY <2>1, Zenon DEF Grouped
  <1>12. s3 \o j = s \o j \o j \o j \o j /\ j3 \o j = j \o j \o j \o j
    OBVIOUS
  <1> HIDE DEF j3, s3
  <1>13. Joined(s, j3, j)
    BY <1>1, <1>11, Join
  <1>14. j3 \o j \in Seq(Steps) /\ s \o (j3 \o j) = s3 \o j
    BY <1>11, <1>13, Zenon DEF Joined
  <1>15. Jobs(FifoDepth) = j3 \o j
    BY <1>12, FourOf, Zenon DEF j
  <1>16. Known(s \o Jobs(FifoDepth), K)
    BY <1>9, <1>12, <1>14, <1>15, Zenon
  <1>17. QED
    BY <1>9, <1>10, <1>14, <1>15, <1>16 DEF Goes

\* The golden data for BIST without a reset before it.
GoldenKinds == {"WRITE_PARAM", "WRITE_NONCE", "WRITE_TARGET"}
GoldenFacts == {Fact("WRITE_PARAM", 0, "golden"), Fact("WRITE_NONCE", 0, "golden"),
                Fact("WRITE_TARGET", 0, "golden")}

\* The golden data and its range.
LEMMA GoldenNonceGoes ==
  ASSUME NEW s, NEW G, Known(s, G)
  PROVE  GoldenNonce \in Seq(Steps) /\ Goes(s, GoldenNonce, G, GoldenKinds, GoldenFacts)
  <1> DEFINE t == All("WRITE_PARAM", "golden")
             u == All("WRITE_NONCE", "golden")
             v == All("WRITE_TARGET", "golden")
             P == Fact("WRITE_PARAM", 0, "golden")
             N == Fact("WRITE_NONCE", 0, "golden")
             T == Fact("WRITE_TARGET", 0, "golden")
  <1>1. /\ ArgFits("WRITE_PARAM", "golden") /\ ArgFits("WRITE_NONCE", "golden")
        /\ ArgFits("WRITE_TARGET", "golden") /\ "golden" # "share"
        /\ "WRITE_PARAM" \in Plainly /\ "WRITE_TARGET" \in Plainly /\ "WRITE_NONCE" \in Plainly
    BY SeqTypes DEF Data, Ranges, Plainly
  <1>2. s \in Seq(Steps) /\ t \in Seq(Steps) /\ u \in Seq(Steps) /\ v \in Seq(Steps)
    BY <1>1, SeqTypes DEF Known
  <1>3. P.is = "WRITE_PARAM" /\ N.is = "WRITE_NONCE" /\ T.is = "WRITE_TARGET"
    BY Kinds
  <1>4. \A w, H : Known(w, H) => /\ Goes(w, t, H, {"WRITE_PARAM"}, {P})
                                 /\ Goes(w, u, H, {"WRITE_NONCE"}, {N})
                                 /\ Goes(w, v, H, {"WRITE_TARGET"}, {T})
    BY <1>1, AllWrite
  <1>5. GoldenFacts = {P, N, T} /\ GoldenNonce = t \o u \o v
    BY DEF GoldenFacts, GoldenNonce
  <1> HIDE DEF t, u, v, P, N, T
  <1>6. PICK H : Known(s \o t, H) /\ Kept(G, H, {"WRITE_PARAM"}) /\ P \in H
    BY <1>4 DEF Goes
  <1>7. PICK I : Known(s \o t \o u, I) /\ Kept(H, I, {"WRITE_NONCE"}) /\ N \in I
    BY <1>4, <1>6 DEF Goes
  <1>8. PICK J : Known(s \o t \o u \o v, J) /\ Kept(I, J, {"WRITE_TARGET"}) /\ T \in J
    BY <1>4, <1>7 DEF Goes
  <1>9. P \in J /\ N \in J /\ T \in J
    BY <1>3, <1>6, <1>7, <1>8 DEF Kept
  <1>10. Kept(G, J, GoldenKinds)
    BY <1>6, <1>7, <1>8 DEF Kept, GoldenKinds
  <1>11. s \o (t \o u \o v) = s \o t \o u \o v /\ t \o u \o v \in Seq(Steps)
    <2>1. Grouped(s, t, u, v)
      BY <1>2, Regroup
    <2>2. QED
      BY <2>1, Zenon DEF Grouped
  <1>12. Known(s \o GoldenNonce, J) /\ GoldenNonce \in Seq(Steps)
    BY <1>5, <1>8, <1>11, Zenon
  <1>13. GoldenFacts \subseteq J
    BY <1>5, <1>9
  <1>14. QED
    BY <1>10, <1>12, <1>13 DEF Goes

\* The number of chips and their ids are checked, which changes nothing.
LEMMA CheckChipsGoes ==
  ASSUME NEW s, NEW G, Known(s, G)
  PROVE  CheckChips \in Seq(Steps) /\ Goes(s, CheckChips, G, {}, {})
  <1> DEFINE t == Host("CHECK_CHIPS", "")
             u == Each("CHECK_ID", "")
  <1>1. s \in Seq(Steps) /\ t \in Seq(Steps) /\ u \in Seq(Steps)
    BY SeqTypes DEF Known
  <1>2. Goes(s, t, G, {}, {})
    BY AllIdle DEF Host
  <1>3. PICK H : Known(s \o t, H) /\ Kept(G, H, {})
    BY <1>2 DEF Goes
  <1>4. Goes(s \o t, u, H, {}, {})
    BY <1>3, ChecksIds
  <1>5. PICK I : Known(s \o t \o u, I) /\ Kept(H, I, {})
    BY <1>4 DEF Goes
  <1> HIDE DEF t, u
  <1>6. Joined(s, t, u)
    BY <1>1, Join
  <1>7. Kept(G, I, {})
    BY <1>3, <1>5 DEF Kept
  <1>8. CheckChips = t \o u
    BY DEF CheckChips, t, u
  <1>9. Known(s \o CheckChips, I) /\ CheckChips \in Seq(Steps)
    BY <1>5, <1>6, <1>8, Zenon DEF Joined
  <1>10. QED
    BY <1>7, <1>9 DEF Goes

\* Data for a job, and the job.
JobKinds == {"WRITE_PARAM", "WRITE_TARGET", "RUN_JOB"}

\* A new work: other data and one job more.
LEMMA SetWorkGoes ==
  ASSUME NEW s, NEW G, NEW n, Known(s, G), n \in 0 .. FifoDepth - 1, Job(n) \in G
  PROVE  /\ SetWork \in Seq(Steps)
         /\ Goes(s, SetWork, G, JobKinds, {Fact("WRITE_PARAM", 0, "vector"),
                                           Fact("WRITE_TARGET", 0, "vector"), Job(n + 1)})
  <1> DEFINE t == Vector("vector")
             u == All("RUN_JOB", "")
             P == Fact("WRITE_PARAM", 0, "vector")
             T == Fact("WRITE_TARGET", 0, "vector")
  <1>1. P.is = "WRITE_PARAM" /\ T.is = "WRITE_TARGET" /\ Job(n).is = "RUN_JOB"
    BY Kinds
  <1>2. t \in Seq(Steps) /\ Goes(s, t, G, {"WRITE_PARAM", "WRITE_TARGET"}, {P, T})
    BY VectorGoes DEF Data
  <1>3. s \in Seq(Steps) /\ u \in Seq(Steps)
    BY SeqTypes DEF Known
  <1>4. \A w, H : Known(w, H) /\ Job(n) \in H => Goes(w, u, H, {"RUN_JOB"}, {Job(n + 1)})
    BY OneJob
  <1>5. SetWork = t \o u
    BY DEF SetWork
  <1> HIDE DEF t, u, P, T
  <1>6. PICK H : Known(s \o t, H) /\ Kept(G, H, {"WRITE_PARAM", "WRITE_TARGET"}) /\ P \in H
               /\ T \in H
    BY <1>2 DEF Goes
  <1>7. Job(n) \in H
    BY <1>1, <1>6 DEF Kept
  <1>8. PICK I : Known(s \o t \o u, I) /\ Kept(H, I, {"RUN_JOB"}) /\ Job(n + 1) \in I
    BY <1>4, <1>6, <1>7 DEF Goes
  <1>9. P \in I /\ T \in I
    BY <1>1, <1>6, <1>8 DEF Kept
  <1>10. Kept(G, I, JobKinds)
    BY <1>6, <1>8 DEF Kept, JobKinds
  <1>11. Joined(s, t, u)
    BY <1>2, <1>3, Join
  <1>12. Known(s \o SetWork, I) /\ SetWork \in Seq(Steps)
    BY <1>5, <1>8, <1>11, Zenon DEF Joined
  <1>13. QED
    BY <1>8, <1>9, <1>10, <1>12 DEF Goes, P, T

\* A job with random data: another midstate and one job more.
LEMMA RandomJobGoes ==
  ASSUME NEW s, NEW G, NEW n, Known(s, G), n \in 0 .. FifoDepth - 1, Job(n) \in G
  PROVE  /\ RandomJob \in Seq(Steps)
         /\ Goes(s, RandomJob, G, {"WRITE_PARAM", "RUN_JOB"},
                 {Fact("WRITE_PARAM", 0, "vector"), Job(n + 1)})
  <1> DEFINE t == All("WRITE_PARAM", "vector")
             u == All("RUN_JOB", "")
             P == Fact("WRITE_PARAM", 0, "vector")
  <1>1. P.is = "WRITE_PARAM" /\ Job(n).is = "RUN_JOB"
    BY Kinds
  <1>2. ArgFits("WRITE_PARAM", "vector") /\ "vector" # "share" /\ "WRITE_PARAM" \in Plainly
    BY SeqTypes DEF Data, Plainly
  <1>3. t \in Seq(Steps) /\ Goes(s, t, G, {"WRITE_PARAM"}, {P})
    BY <1>2, AllWrite, SeqTypes
  <1>4. s \in Seq(Steps) /\ u \in Seq(Steps)
    BY SeqTypes DEF Known
  <1>5. \A w, H : Known(w, H) /\ Job(n) \in H => Goes(w, u, H, {"RUN_JOB"}, {Job(n + 1)})
    BY OneJob
  <1>6. RandomJob = t \o u
    BY DEF RandomJob
  <1> HIDE DEF t, u, P
  <1>7. PICK H : Known(s \o t, H) /\ Kept(G, H, {"WRITE_PARAM"}) /\ P \in H
    BY <1>3 DEF Goes
  <1>8. Job(n) \in H
    BY <1>1, <1>7 DEF Kept
  <1>9. PICK I : Known(s \o t \o u, I) /\ Kept(H, I, {"RUN_JOB"}) /\ Job(n + 1) \in I
    BY <1>5, <1>7, <1>8 DEF Goes
  <1>10. P \in I
    BY <1>1, <1>7, <1>9 DEF Kept
  <1>11. Kept(G, I, {"WRITE_PARAM", "RUN_JOB"})
    BY <1>7, <1>9 DEF Kept
  <1>12. Joined(s, t, u)
    BY <1>3, <1>4, Join
  <1>13. Known(s \o RandomJob, I) /\ RandomJob \in Seq(Steps)
    BY <1>6, <1>9, <1>12, Zenon DEF Joined
  <1>14. QED
    BY <1>9, <1>10, <1>11, <1>13 DEF Goes, P

\* AddGoldenJob of the service: new data, the shares again and one job more.
LEMMA GoldenJobGoes ==
  ASSUME NEW s, NEW G, NEW n, Known(s, G), n \in 0 .. FifoDepth - 1, Job(n) \in G,
         NUMBERED \in G, ANSWERED \in G
  PROVE  /\ AddGoldenJob \in Seq(Steps)
         /\ Goes(s, AddGoldenJob, G, JobKinds \cup {"WRITE_NONCE"},
                 {Fact("WRITE_PARAM", 0, "vector"), Fact("WRITE_TARGET", 0, "vector"),
                  Share(0), Job(n + 1)})
  <1> DEFINE t == Vector("vector")
             u == Each("WRITE_NONCE", "share")
             v == All("RUN_JOB", "")
             P == Fact("WRITE_PARAM", 0, "vector")
             T == Fact("WRITE_TARGET", 0, "vector")
  <1>1. /\ P.is = "WRITE_PARAM" /\ T.is = "WRITE_TARGET" /\ Job(n).is = "RUN_JOB"
        /\ Share(0).is = "WRITE_NONCE" /\ Share(0) = Fact("WRITE_NONCE", 0, "share")
    BY Kinds DEF Share
  <1>2. t \in Seq(Steps) /\ Goes(s, t, G, {"WRITE_PARAM", "WRITE_TARGET"}, {P, T})
    BY VectorGoes DEF Data
  <1>3. s \in Seq(Steps) /\ u \in Seq(Steps) /\ v \in Seq(Steps)
    BY SeqTypes DEF Known
  <1>4. \A w, H : Known(w, H) /\ Job(n) \in H => Goes(w, v, H, {"RUN_JOB"}, {Job(n + 1)})
    BY OneJob
  <1>5. \A w, H : Known(w, H) /\ NUMBERED \in H /\ ANSWERED \in H =>
          Goes(w, u, H, {"WRITE_NONCE"}, {Share(0)})
    <2>1. ArgFits("WRITE_NONCE", "share")
      BY SeqTypes
    <2>2. QED
      BY <1>1, <2>1, EachWrite
  <1>6. AddGoldenJob = t \o u \o v
    BY DEF AddGoldenJob
  <1> HIDE DEF t, u, v, P, T
  <1>7. PICK H : Known(s \o t, H) /\ Kept(G, H, {"WRITE_PARAM", "WRITE_TARGET"}) /\ P \in H
               /\ T \in H
    BY <1>2 DEF Goes
  <1>8. Job(n) \in H /\ NUMBERED \in H /\ ANSWERED \in H
    BY <1>1, <1>7, Kinds DEF Kept
  <1>9. PICK I : Known(s \o t \o u, I) /\ Kept(H, I, {"WRITE_NONCE"}) /\ Share(0) \in I
    BY <1>5, <1>7, <1>8 DEF Goes
  <1>10. Job(n) \in I /\ P \in I /\ T \in I
    BY <1>1, <1>7, <1>8, <1>9 DEF Kept
  <1>11. PICK J : Known(s \o t \o u \o v, J) /\ Kept(I, J, {"RUN_JOB"}) /\ Job(n + 1) \in J
    BY <1>4, <1>9, <1>10 DEF Goes
  <1>12. P \in J /\ T \in J /\ Share(0) \in J
    BY <1>1, <1>9, <1>10, <1>11 DEF Kept
  <1>13. Kept(G, J, JobKinds \cup {"WRITE_NONCE"})
    BY <1>7, <1>9, <1>11 DEF Kept, JobKinds
  <1>14. s \o (t \o u \o v) = s \o t \o u \o v /\ t \o u \o v \in Seq(Steps)
    <2>1. Grouped(s, t, u, v)
      BY <1>2, <1>3, Regroup
    <2>2. QED
      BY <2>1, Zenon DEF Grouped
  <1>15. Known(s \o AddGoldenJob, J) /\ AddGoldenJob \in Seq(Steps)
    BY <1>6, <1>11, <1>14, Zenon
  <1>16. QED
    BY <1>11, <1>12, <1>13, <1>15 DEF Goes, P, T

\* What is left of the facts when chips are cut off and the others numbered again.
Remains(f) ==
  /\ f.at = 0 /\ ~IsShare(f)
  /\ f.is \notin {"whole", "numbered", "dist", "checked", "fresh", "top", "on", "SET_PLL",
                   "PLL_OFF"}

CUT == Command("SET_CONTROL", 2, -1, LAST_OON)

\* Making a chip the last one, and numbering again, keeps what remains.
LEMMA RemainsKept ==
  ASSUME NEW F, NEW f, Remains(f) \/ (f.is \in {"on", "SET_PLL"} /\ f.at = 0)
  PROVE  Keeps(CUT, F, f) /\ Keeps(Readdress, F, f)
  <1>1. /\ CUT.cmd = "SET_CONTROL" /\ CUT.arg.last /\ CUT.arg.oon /\ CUT.to = 2
        /\ Readdress.cmd = "AUTO_ADDRESS"
    <2>1. \A c : c = LAST_OON => c.last /\ c.oon
      BY DEF LAST_OON
    <2>2. CUT.cmd = "SET_CONTROL" /\ CUT.arg = LAST_OON /\ CUT.to = 2
      BY DEF CUT, Command
    <2>3. QED
      BY <2>1, <2>2, AutoType
  <1>2. /\ f.at = 0 /\ ~IsShare(f)
        /\ f.is \notin {"whole", "numbered", "dist", "checked", "fresh", "top", "PLL_OFF"}
    BY DEF Remains, IsShare
  <1>3. KeepsChip(CUT, F, f) /\ Keeps(CUT, F, f)
    <2>1. KeepsChip(CUT, F, f)
      BY <1>1, <1>2 DEF KeepsChip, NoneBack, Plainly
    <2>2. QED
      BY <1>1, <1>2, <2>1 DEF Keeps, Rereads
  <1>4. KeepsChip(Readdress, F, f) /\ Keeps(Readdress, F, f)
    <2>1. KeepsChip(Readdress, F, f)
      BY <1>1, <1>2 DEF KeepsChip, Plainly
    <2>2. QED
      BY <1>1, <1>2, <2>1 DEF Keeps, Rereads
  <1>5. QED
    BY <1>3, <1>4

\* The rounds of the loop that cuts chips off, one chip less each.
Cuts(n) == Rounds(n, 2, [k \in 1 .. n |-> SetLast(2, LAST_OON)])

\* One round of CutFaultChips: chip 2 becomes the last one, the others are numbered again.
LEMMA CutTypes ==
  ASSUME MaxChips >= 2
  PROVE  CUT \in Steps /\ CUT.cmd # "RUN_JOB" /\ SetLast(2, LAST_OON) = <<CUT, Readdress>>
  <1>1. CUT.cmd = "SET_CONTROL"
    BY DEF CUT, Command
  <1>2. CUT \in Steps
    <2>1. ArgFits("SET_CONTROL", LAST_OON)
      BY LastControls
    <2>2. -1 \in -1 .. MaxChips + 1 /\ 2 \in -1 .. MaxChips
      BY BringupAssumption
    <2>3. \A arg : ArgFits("SET_CONTROL", arg) => Command("SET_CONTROL", 2, -1, arg) \in Steps
      BY <2>2, CommandType
    <2>4. QED
      BY <2>1, <2>3 DEF CUT
  <1>3. SetLast(2, LAST_OON) = <<CUT, Readdress>>
    <2>1. SetLast(2, LAST_OON) = <<CUT>> \o <<Readdress>>
      BY AutoType DEF SetLast, One, Step, CUT
    <2>2. <<CUT>> \o <<Readdress>> = <<CUT, Readdress>>
      BY <1>2, AutoType, Pair, Zenon
    <2>3. QED
      BY <2>1, <2>2
  <1>4. QED
    BY <1>1, <1>2, <1>3

\* The rounds of CutFaultChips, command by command.
LEMMA CutsAt ==
  ASSUME NEW n \in Nat, n > 0 => MaxChips >= 2
  PROVE  /\ Cuts(n) \in Seq(Steps) /\ Len(Cuts(n)) = 2 * n
         /\ \A k \in 1 .. 2 * n : Cuts(n)[k] = IF k % 2 = 1 THEN CUT ELSE Readdress
  <1> DEFINE body == [k \in 1 .. n |-> SetLast(2, LAST_OON)]
             t == Rounds(n, 2, body)
  <1>1. \A k \in 1 .. n * 2 : t[k] = body[((k - 1) \div 2) + 1][((k - 1) % 2) + 1]
    BY DEF Rounds
  <1>2. t = [k \in 1 .. n * 2 |-> t[k]] /\ n * 2 = 2 * n /\ 2 * n \in Nat
    BY DEF Rounds
  <1>3. \A k \in 1 .. n * 2 : /\ ((k - 1) \div 2) + 1 \in 1 .. n
                              /\ k % 2 = 1 => ((k - 1) % 2) + 1 = 1
                              /\ k % 2 # 1 => ((k - 1) % 2) + 1 = 2
    OBVIOUS
  <1>4. \A k \in 1 .. n : body[k] = SetLast(2, LAST_OON)
    OBVIOUS
  <1>5. \A x, y : <<x, y>>[1] = x /\ <<x, y>>[2] = y
    OBVIOUS
  <1>6. Cuts(n) = t
    BY DEF Cuts
  <1> HIDE DEF body, t
  <1>7. ASSUME NEW k \in 1 .. n * 2
        PROVE  t[k] = (IF k % 2 = 1 THEN CUT ELSE Readdress) /\ t[k] \in Steps
    <2>1. n > 0
      BY <1>7
    <2>2. CUT \in Steps /\ Readdress \in Steps /\ SetLast(2, LAST_OON) = <<CUT, Readdress>>
      BY <2>1, CutTypes, AutoType
    <2>3. t[k] = <<CUT, Readdress>>[((k - 1) % 2) + 1]
      BY <1>1, <1>3, <1>4, <2>2
    <2>4. QED
      BY <1>3, <1>5, <2>2, <2>3
  <1>8. t \in Seq(Steps) /\ Len(t) = n * 2
    BY <1>2, <1>7, FunctionSeq
  <1>9. QED
    BY <1>2, <1>6, <1>7, <1>8

\* Round after round the chips that are left have the remaining facts and new numbers.
LEMMA CutsGo ==
  ASSUME NEW s, NEW G, Known(s, G), NUMBERED \in G, ANSWERED \in G,
         NEW n \in Nat, n > 0 => MaxChips >= 2,
         NEW R, R \subseteq G, \A f \in R : Remains(f) \/ (f.is \in {"on", "SET_PLL"} /\ f.at = 0)
  PROVE  Known(s \o Cuts(n), R \cup {NUMBERED, ANSWERED})
  <1> DEFINE t == Cuts(n)
             A == R \cup {NUMBERED, ANSWERED}
             J == [k \in 1 .. 2 * n + 1 |-> IF k % 2 = 1 THEN A ELSE R]
  <1>1. /\ t \in Seq(Steps) /\ Len(t) = 2 * n
        /\ \A k \in 1 .. 2 * n : t[k] = IF k % 2 = 1 THEN CUT ELSE Readdress
    BY CutsAt
  <1>2. \A k \in 1 .. 2 * n + 1 : J[k] = IF k % 2 = 1 THEN A ELSE R
    OBVIOUS
  <1>3. R \subseteq A /\ A \subseteq G /\ NUMBERED.is = "numbered" /\ ANSWERED.is = "answered"
    BY Kinds
  <1>4. \A f \in A : f \in R \/ f = NUMBERED \/ f = ANSWERED
    OBVIOUS
  <1> HIDE DEF t, A, J
  <1>5. ASSUME NEW k \in 1 .. 2 * n, NEW f \in J[k + 1] PROVE Follows(t[k], J[k], f)
    <2>1. f \in R => f \in J[k] /\ f \in Full(J[k])
      BY <1>2, <1>3 DEF Full
    <2>2. f \in R => Follows(t[k], J[k], f)
      <3>1. \A F : f \in R => Keeps(CUT, F, f) /\ Keeps(Readdress, F, f)
        BY RemainsKept
      <3>2. t[k] = CUT \/ t[k] = Readdress
        BY <1>1
      <3>3. QED
        BY <2>1, <3>1, <3>2 DEF Follows
    <2>3. f \notin R => t[k] = Readdress /\ f.is \in {"numbered", "answered"}
      <3>1. f \notin R => (k + 1) % 2 = 1
        BY <1>2, <1>3
      <3>2. (k + 1) % 2 = 1 => k % 2 # 1
        OBVIOUS
      <3>3. f \in A
        BY <1>2, <1>3
      <3>4. QED
        BY <1>1, <1>3, <1>4, <3>1, <3>2, <3>3
    <2>4. f.is \in {"numbered", "answered"} => Gains(Readdress, Full(J[k]), f)
      BY AutoType DEF Gains, Plainly
    <2>5. QED
      BY <2>2, <2>3, <2>4 DEF Follows
  <1>6. J[2 * n + 1] = A /\ J[1] = A
    BY <1>2
  <1>7. JobsIn(s \o t) = JobsIn(s)
    <2>1. \A k \in 1 .. Len(t) : t[k].cmd # "RUN_JOB"
      <3>1. CUT.cmd # "RUN_JOB" /\ Readdress.cmd # "RUN_JOB"
        BY AutoType DEF CUT, Command
      <3>2. QED
        BY <1>1, <3>1
    <2>2. s \in Seq(Steps)
      BY DEF Known
    <2>3. QED
      BY <1>1, <2>1, <2>2, JobsSame
  <1>8. \A f \in A : f.is = "RUN_JOB" => f.arg = JobsIn(s \o t)
    BY <1>3, <1>7 DEF Known
  <1>9. Known(s \o t, J[Len(t) + 1])
    <2>1. J[1] \subseteq G
      BY <1>3, <1>6
    <2>2. \A k \in 1 .. Len(t) : \A f \in J[k + 1] : Follows(t[k], J[k], f)
      BY <1>1, <1>5
    <2>3. \A f \in J[Len(t) + 1] : f.is = "RUN_JOB" => f.arg = JobsIn(s \o t)
      BY <1>1, <1>6, <1>8
    <2>4. QED
      BY <1>1, <2>1, <2>2, <2>3, GoOn
  <1>10. QED
    BY <1>1, <1>6, <1>9 DEF t, A

\* The chip that is last in the end is left without a clock.
LEMMA PllOffGoes ==
  ASSUME NEW s, NEW G, Known(s, G), NEW N, \A f \in N : f = Unclocked /\ Clock(0) \in G
  PROVE  /\ One(1, "PLL_OFF", "") \in Seq(Steps)
         /\ Goes(s, One(1, "PLL_OFF", ""), G, {"on", "SET_PLL", "PLL_OFF"}, N)
  <1> DEFINE c == Command("PLL_OFF", 1, -1, "")
             X == {"on", "SET_PLL", "PLL_OFF"}
  <1>1. c \in Steps /\ One(1, "PLL_OFF", "") = <<c>>
    <2>1. ArgFits("PLL_OFF", "")
      BY DEF ArgFits, Plain
    <2>2. 1 \in -1 .. MaxChips /\ -1 \in -1 .. MaxChips + 1
      BY BringupAssumption
    <2>3. \A cmd, arg : ArgFits(cmd, arg) => Command(cmd, 1, -1, arg) \in Steps
      BY <2>2, CommandType
    <2>4. QED
      BY <2>1, <2>3 DEF One, Step
  <1>2. c.cmd = "PLL_OFF" /\ c.to = 1
    BY DEF Command
  <1> HIDE DEF c
  <1>3. \A f \in N : f.is # "RUN_JOB" /\ Gains(c, Full(G), f)
    <2> TAKE f \in N
    <2>1. f.is = "PLL_OFF" /\ Clock(0) \in Full(G)
      BY Kinds DEF Full
    <2>2. QED
      BY <1>2, <2>1 DEF Gains, Plainly
  <1>4. Adds(c, G, X, N)
    BY <1>1, <1>2, <1>3 DEF Adds, Special, Spoils, Plainly
  <1> HIDE DEF X
  <1>5. Goes(s, <<c>>, G, X, N)
    BY <1>4, Sole, Zenon
  <1>6. <<c>> \in Seq(Steps)
    <2>1. c \in Steps
      BY <1>1
    <2>2. QED
      BY <2>1
  <1>7. QED
    BY <1>1, <1>5, <1>6 DEF X

\* What is left after the commands t cut chips off: a chip may have lost its clock.
AfterCut(s, t, G, R) ==
  \E H : /\ Known(s \o t, H) /\ R \cup {NUMBERED, ANSWERED} \subseteq H
         /\ Clock(0) \in G => Unclocked \in H

\* "Last chip test" with a fault chip, or without one.
LEMMA FaultsCut ==
  ASSUME NEW s, NEW G, Known(s, G), NUMBERED \in G, ANSWERED \in G, NEW r \in Calls,
         NEW R, R \subseteq G, \A f \in R : Remains(f)
  PROVE  /\ CutFaultChips(r) \in Seq(Steps)
         /\ r.fault = 0 => s \o CutFaultChips(r) = s
         /\ r.fault > 0 => AfterCut(s, CutFaultChips(r), G, R)
  <1>1. r.fault \in 0 .. MaxChips /\ r.fault \in Nat
    BY Bounds DEF Calls
  <1>2. s \in Seq(Steps)
    BY DEF Known
  <1>3. CASE r.fault = 0
    <2>1. CutFaultChips(r) = <<>>
      BY <1>3 DEF CutFaultChips
    <2>2. s \o <<>> = s /\ <<>> \in Seq(Steps)
      BY <1>2
    <2>3. QED
      BY <1>3, <2>1, <2>2
  <1>4. CASE r.fault > 0
    <2> DEFINE n == r.fault - 1
               t == Cuts(n)
               u == One(1, "PLL_OFF", "")
               C == IF Clock(0) \in G THEN {Clock(0)} ELSE {}
               N == IF Clock(0) \in G THEN {Unclocked} ELSE {}
    <2>0. r.fault - 1 \in Nat /\ (r.fault - 1 > 0 => MaxChips >= 2) /\ r.fault # 0
      BY <1>1, <1>4, BringupAssumption
    <2>1. n \in Nat /\ (n > 0 => MaxChips >= 2) /\ r.fault # 0
      BY <2>0
    <2>2. CutFaultChips(r) = t \o u
      BY <2>1 DEF CutFaultChips, Cuts
    <2> HIDE DEF n
    <2>3. t \in Seq(Steps)
      BY <2>1, CutsAt
    <2>4. R \cup C \subseteq G
      OBVIOUS
    <2>5. \A f \in R \cup C : Remains(f) \/ (f.is \in {"on", "SET_PLL"} /\ f.at = 0)
      <3>1. Clock(0).is = "SET_PLL" /\ Clock(0).at = 0
        BY DEF Clock, Fact
      <3>2. QED
        BY <3>1
    <2>6. \A f \in N : f = Unclocked /\ Clock(0) \in C
      OBVIOUS
    <2>7. N = {} => Clock(0) \notin G
      OBVIOUS
    <2>n. \A f : Clock(0) \in G => Unclocked \in N
      OBVIOUS
    <2> HIDE DEF C, N
    <2> DEFINE RC == R \cup C
    <2>8. RC \subseteq G /\ \A f \in RC : Remains(f) \/ (f.is \in {"on", "SET_PLL"} /\ f.at = 0)
      BY <2>4, <2>5
    <2>9. R \subseteq RC /\ C \subseteq RC
      OBVIOUS
    <2> HIDE DEF RC
    <2>10. Known(s \o t, RC \cup {NUMBERED, ANSWERED})
      BY <2>1, <2>8, CutsGo
    <2> DEFINE A == RC \cup {NUMBERED, ANSWERED}
    <2>11. Known(s \o t, A) /\ \A f \in N : f = Unclocked /\ Clock(0) \in A
      BY <2>6, <2>9, <2>10
    <2>12. \A f \in R \cup {NUMBERED, ANSWERED} :
             f \in A /\ f.is \notin {"on", "SET_PLL", "PLL_OFF", "top"}
      BY <2>9, Kinds DEF Remains
    <2> HIDE DEF A, t
    <2>13. u \in Seq(Steps) /\ Goes(s \o t, u, A, {"on", "SET_PLL", "PLL_OFF"}, N)
      BY <2>11, PllOffGoes
    <2> HIDE DEF u
    <2>14. PICK H : /\ Known(s \o t \o u, H) /\ Kept(A, H, {"on", "SET_PLL", "PLL_OFF"})
                    /\ N \subseteq H
      BY <2>13 DEF Goes
    <2>15. Joined(s, t, u)
      BY <1>2, <2>3, <2>13, Join
    <2>16. Known(s \o CutFaultChips(r), H) /\ CutFaultChips(r) \in Seq(Steps)
      BY <2>2, <2>14, <2>15, Zenon DEF Joined
    <2>17. R \cup {NUMBERED, ANSWERED} \subseteq H
      BY <2>12, <2>14 DEF Kept
    <2>18. Clock(0) \in G => Unclocked \in H
      BY <2>n, <2>14
    <2>19. QED
      BY <1>4, <2>16, <2>17, <2>18 DEF AfterCut
  <1>5. QED
    BY <1>1, <1>3, <1>4

\* The rounds of TestXCore that write the golden data to one chip after the other.
XCoreBody == [a \in Addresses |-> <<Command("WRITE_PARAM", a, a, "golden"),
                                    Command("WRITE_NONCE", a, a, "golden"),
                                    Command("WRITE_TARGET", a, a, "golden")>>]

\* Rounds of three steps, counted.
LEMMA ByThrees ==
  ASSUME NEW n \in Nat
  PROVE  /\ \A k \in 1 .. n * 3 : ((k - 1) \div 3) + 1 \in 1 .. n /\ ((k - 1) % 3) + 1 \in {1, 2, 3}
         /\ \A a \in 1 .. n : \A i \in {1, 2, 3} :
              /\ (a - 1) * 3 + i \in 1 .. n * 3
              /\ (((a - 1) * 3 + i - 1) \div 3) + 1 = a /\ (((a - 1) * 3 + i - 1) % 3) + 1 = i
  <1>1. \A k \in 1 .. n * 3 : ((k - 1) \div 3) + 1 \in 1 .. n
    OBVIOUS
  <1>2. \A k \in 1 .. n * 3 : ((k - 1) % 3) + 1 \in {1, 2, 3}
    OBVIOUS
  <1>3. ASSUME NEW a \in 1 .. n, NEW i \in {1, 2, 3}
        PROVE  /\ (a - 1) * 3 + i \in 1 .. n * 3
               /\ (((a - 1) * 3 + i - 1) \div 3) + 1 = a /\ (((a - 1) * 3 + i - 1) % 3) + 1 = i
    <2>1. a \in Int /\ a >= 1 /\ a <= n
      OBVIOUS
    <2>2. CASE i = 1
      BY <2>1, <2>2
    <2>3. CASE i = 2
      BY <2>1, <2>3
    <2>4. CASE i = 3
      BY <2>1, <2>4
    <2>5. QED
      BY <2>2, <2>3, <2>4
  <1>4. QED
    BY <1>1, <1>2, <1>3

\* The rounds of TestXCore write the golden data to each chip.
LEMMA XCoreAt ==
  /\ Rounds(MaxChips, 3, XCoreBody) \in Seq(Steps)
  /\ Len(Rounds(MaxChips, 3, XCoreBody)) = MaxChips * 3
  /\ \A k \in 1 .. MaxChips * 3 :
       LET c == Rounds(MaxChips, 3, XCoreBody)[k]
       IN  c.cmd \in GoldenKinds /\ c.arg = "golden"
  /\ \A a \in Addresses : \A cmd \in GoldenKinds : \E k \in 1 .. MaxChips * 3 :
       Rounds(MaxChips, 3, XCoreBody)[k] = Command(cmd, a, a, "golden")
  <1> DEFINE t == Rounds(MaxChips, 3, XCoreBody)
             body(a) == <<Command("WRITE_PARAM", a, a, "golden"),
                          Command("WRITE_NONCE", a, a, "golden"),
                          Command("WRITE_TARGET", a, a, "golden")>>
  <1>1. \A k \in 1 .. MaxChips * 3 : t[k] = XCoreBody[((k - 1) \div 3) + 1][((k - 1) % 3) + 1]
    BY DEF Rounds
  <1>2. t = [k \in 1 .. MaxChips * 3 |-> t[k]] /\ MaxChips * 3 \in Nat /\ MaxChips \in Nat
    BY BringupAssumption DEF Rounds
  <1>3. \A k \in 1 .. MaxChips * 3 : /\ ((k - 1) \div 3) + 1 \in 1 .. MaxChips
                                     /\ ((k - 1) % 3) + 1 \in {1, 2, 3}
    BY <1>2, ByThrees
  <1>4. \A a \in Addresses : XCoreBody[a] = body(a)
    BY DEF XCoreBody
  <1>5. \A x, y, z : <<x, y, z>>[1] = x /\ <<x, y, z>>[2] = y /\ <<x, y, z>>[3] = z
    OBVIOUS
  <1>6. \A a : /\ body(a)[1] = Command("WRITE_PARAM", a, a, "golden")
               /\ body(a)[2] = Command("WRITE_NONCE", a, a, "golden")
               /\ body(a)[3] = Command("WRITE_TARGET", a, a, "golden")
    BY <1>5
  <1>7. \A a \in Addresses : \A cmd \in GoldenKinds : Command(cmd, a, a, "golden") \in Steps
    <2>1. \A cmd \in GoldenKinds : ArgFits(cmd, "golden")
      BY DEF GoldenKinds, ArgFits, Data, Ranges
    <2>2. \A a \in Addresses : a \in -1 .. MaxChips /\ a \in -1 .. MaxChips + 1
      BY Bounds
    <2>3. QED
      BY <2>1, <2>2, CommandType
  <1> HIDE DEF t, body
  <1>8. ASSUME NEW k \in 1 .. MaxChips * 3
        PROVE  t[k] \in Steps /\ t[k].cmd \in GoldenKinds /\ t[k].arg = "golden"
    <2> DEFINE a == ((k - 1) \div 3) + 1
               i == ((k - 1) % 3) + 1
    <2>1. a \in Addresses /\ i \in {1, 2, 3}
      BY <1>3 DEF Addresses
    <2>2. t[k] = body(a)[i]
      BY <1>1, <1>4, <2>1
    <2> HIDE DEF a, i
    <2>3. \E cmd \in GoldenKinds : t[k] = Command(cmd, a, a, "golden")
      BY <1>6, <2>1, <2>2 DEF GoldenKinds
    <2>4. \A cmd : Command(cmd, a, a, "golden").cmd = cmd
                   /\ Command(cmd, a, a, "golden").arg = "golden"
      BY DEF Command
    <2>5. QED
      BY <1>7, <2>1, <2>3, <2>4
  <1>9. t \in Seq(Steps) /\ Len(t) = MaxChips * 3
    BY <1>2, <1>8, FunctionSeq
  <1>10. ASSUME NEW a \in Addresses, NEW cmd \in GoldenKinds
         PROVE  \E k \in 1 .. MaxChips * 3 : t[k] = Command(cmd, a, a, "golden")
    <2>1. ASSUME NEW i \in {1, 2, 3}
          PROVE  \E k \in 1 .. MaxChips * 3 : t[k] = body(a)[i]
      <3> DEFINE k == (a - 1) * 3 + i
      <3>1. /\ k \in 1 .. MaxChips * 3
            /\ ((k - 1) \div 3) + 1 = a /\ ((k - 1) % 3) + 1 = i
        <4>1. \A b \in 1 .. MaxChips : \A j \in {1, 2, 3} :
                /\ (b - 1) * 3 + j \in 1 .. MaxChips * 3
                /\ (((b - 1) * 3 + j - 1) \div 3) + 1 = b /\ (((b - 1) * 3 + j - 1) % 3) + 1 = j
          BY <1>2, ByThrees
        <4>2. a \in 1 .. MaxChips
          BY DEF Addresses
        <4>3. k = (a - 1) * 3 + i
          OBVIOUS
        <4> HIDE DEF k
        <4>4. QED
          BY <4>1, <4>2, <4>3
      <3> HIDE DEF k
      <3>2. t[k] = body(a)[i]
        BY <1>1, <1>4, <3>1
      <3>3. QED
        BY <3>1, <3>2
    <2>2. \E i \in {1, 2, 3} : body(a)[i] = Command(cmd, a, a, "golden")
      BY <1>6 DEF GoldenKinds
    <2>3. QED
      BY <2>1, <2>2
  <1>11. QED
    BY <1>8, <1>9, <1>10 DEF t

\* After them all chips have the golden data.
LEMMA XCoreGoes ==
  ASSUME NEW s, NEW G, Known(s, G), NUMBERED \in G, ANSWERED \in G
  PROVE  /\ Rounds(MaxChips, 3, XCoreBody) \in Seq(Steps)
         /\ Goes(s, Rounds(MaxChips, 3, XCoreBody), G, GoldenKinds, GoldenFacts)
  <1> DEFINE t == Rounds(MaxChips, 3, XCoreBody)
             P == {f \in G : f.is \notin GoldenKinds \cup {"top"}}
             N == {Fact(cmd, a, "golden") : cmd \in GoldenKinds, a \in Addresses}
  <1>1. /\ t \in Seq(Steps) /\ Len(t) = MaxChips * 3
        /\ \A k \in 1 .. Len(t) : t[k].cmd \in GoldenKinds /\ t[k].arg = "golden"
        /\ \A a \in Addresses : \A cmd \in GoldenKinds : \E k \in 1 .. Len(t) :
             t[k] = Command(cmd, a, a, "golden")
    BY XCoreAt
  <1> HIDE DEF t
  <1>2. NUMBERED \in P /\ ANSWERED \in P
    BY Kinds DEF GoldenKinds
  <1>3. NUMBERED \in Full(P) /\ ANSWERED \in Full(P)
    BY <1>2 DEF Full
  <1>4. ASSUME NEW k \in 1 .. Len(t), NEW f, f.is # "top", f.is \in GoldenKinds => f.arg = "golden"
        PROVE  Keeps(t[k], Full(P), f)
    <2> DEFINE c == t[k]
    <2>1. c.cmd \in {"WRITE_PARAM", "WRITE_NONCE", "WRITE_TARGET"} /\ c.arg = "golden"
      BY <1>1 DEF GoldenKinds
    <2>2. f.is \in {"WRITE_PARAM", "WRITE_NONCE", "WRITE_TARGET"} => f.arg = "golden"
      BY <1>4 DEF GoldenKinds
    <2> HIDE DEF c, P
    <2>3. KeepsChip(c, Full(P), f)
      BY <2>1, <2>2 DEF KeepsChip, Plainly
    <2>4. Keeps(c, Full(P), f)
      BY <1>4, <2>1, <2>3 DEF Keeps, Rereads
    <2>5. QED
      BY <2>4 DEF c
  <1>5. \A f \in P : f.is # "top" /\ (f.is \in GoldenKinds => f.arg = "golden")
    OBVIOUS
  <1>6. \A f \in N : f.is # "top" /\ (f.is \in GoldenKinds => f.arg = "golden") /\ f.is # "RUN_JOB"
    BY Kinds DEF GoldenKinds
  <1>7. ASSUME NEW f \in N
        PROVE  /\ f.is # "RUN_JOB"
               /\ \E k \in 1 .. Len(t) : /\ Gains(t[k], Full(P), f)
                                         /\ \A j \in k + 1 .. Len(t) : Keeps(t[j], Full(P), f)
    <2>1. PICK cmd \in GoldenKinds, a \in Addresses : f = Fact(cmd, a, "golden")
      BY <1>7
    <2>2. PICK k \in 1 .. Len(t) : t[k] = Command(cmd, a, a, "golden")
      BY <1>1
    <2> DEFINE c == t[k]
    <2>3. /\ c.cmd = cmd /\ c.to = a /\ c.need = a /\ c.arg = "golden"
          /\ f.is = cmd /\ f.at = a /\ f.arg = "golden" /\ a >= 1
          /\ cmd \in {"WRITE_PARAM", "WRITE_NONCE", "WRITE_TARGET"}
      BY <2>1, <2>2 DEF Command, Fact, GoldenKinds, Addresses
    <2> HIDE DEF c, P
    <2>4. SentTo(c, Full(P), a)
      BY <1>3, <2>3 DEF SentTo, Addresses
    <2>5. Gains(c, Full(P), f)
      BY <2>3, <2>4 DEF Gains, Plainly
    <2>6. \A j \in k + 1 .. Len(t) : j \in 1 .. Len(t)
      BY <1>1, BringupAssumption
    <2>7. \A j \in k + 1 .. Len(t) : Keeps(t[j], Full(P), f)
      BY <1>4, <1>6, <2>6
    <2>8. QED
      BY <1>6, <2>5, <2>7 DEF c
  <1>8. \A k \in 1 .. Len(t) : \A f \in P : Keeps(t[k], Full(P), f)
    BY <1>4, <1>5
  <1>9. P \subseteq G /\ Kept(G, P \cup N, GoldenKinds) /\ NUMBERED \in P \cup N
        /\ ANSWERED \in P \cup N /\ N \subseteq P \cup N
    BY <1>2 DEF Kept
  <1>10. \A cmd \in GoldenKinds : \A a \in Addresses : Fact(cmd, a, "golden") \in P \cup N
    OBVIOUS
  <1> HIDE DEF P, N
  <1>11. Known(s \o t, P \cup N)
    BY <1>1, <1>7, <1>8, <1>9, Block
  <1> DEFINE A == P \cup N
  <1>12. \A cmd \in GoldenKinds : Fact(cmd, 0, "golden") \in Full(A)
    <2> HIDE DEF A
    <2>1. NUMBERED \in A /\ ANSWERED \in A
          /\ \A cmd \in GoldenKinds : \A a \in Addresses : Fact(cmd, a, "golden") \in A
      BY <1>9, <1>10 DEF A
    <2>2. \A cmd \in GoldenKinds : cmd \in PerChip
      BY DEF GoldenKinds, PerChip, Plainly
    <2>3. QED
      BY <2>1, <2>2, ForAll
  <1>13. GoldenFacts \subseteq Full(A)
    BY <1>12 DEF GoldenFacts, GoldenKinds
  <1>14. Known(s \o t, Full(A))
    BY <1>11, Closed
  <1>15. Kept(G, Full(A), GoldenKinds)
    BY <1>9 DEF Kept, Full
  <1>16. QED
    BY <1>1, <1>13, <1>14, <1>15 DEF Goes, t

-----------------------------------------------------------------------------
(* What is known when a test starts to mine.                                 *)

\* The program of call r ends with mining, and all of G is known by then.
Concludes(r, G) == \E s : Programs[r] = s \o Mine /\ Known(s, G)

\* All of G is true, and its jobs are those of the program.
Told(G) ==
  /\ \A f \in Full(G) : Trusted(f) => Holds(f)
  /\ \A n : Job(n) \in G => n = JobSteps

\* A program that mines ends with END.
LEMMA MineAt ==
  ASSUME NEW s \in Seq(Steps), NEW p, p = s \o Mine
  PROVE  /\ Len(p) = Len(s) + 1 /\ Len(s) \in Nat /\ DOMAIN p = 1 .. Len(s) + 1
         /\ \A k \in 1 .. Len(s) : p[k] = s[k]
         /\ p[Len(s) + 1].cmd = "END"
  <1> DEFINE e == Command("END", 0, -1, "mining")
  <1>1. Mine = <<e>> /\ e.cmd = "END"
    BY DEF Mine, Host, All, Step, Command
  <1> HIDE DEF e
  <1>2. s \in Seq(Steps \cup {e}) /\ <<e>> \in Seq(Steps \cup {e})
    OBVIOUS
  <1>3. Len(<<e>>) = 1 /\ <<e>>[1] = e
    OBVIOUS
  <1>4. /\ p \in Seq(Steps \cup {e}) /\ Len(p) = Len(s) + 1 /\ Len(s) \in Nat
        /\ \A k \in 1 .. Len(s) : p[k] = s[k]
        /\ p[Len(s) + 1] = e
    <2>1. p = s \o <<e>>
      BY <1>1
    <2>2. /\ p \in Seq(Steps \cup {e}) /\ Len(p) = Len(s) + Len(<<e>>) /\ Len(s) \in Nat
          /\ \A k \in 1 .. Len(s) : p[k] = s[k]
          /\ \A k \in 1 .. Len(<<e>>) : p[Len(s) + k] = <<e>>[k]
      BY <1>2, <2>1, ConcatFacts
    <2>3. QED
      BY <1>3, <2>2
  <1>5. DOMAIN p = 1 .. Len(p)
    BY <1>4
  <1>6. QED
    BY <1>1, <1>4, <1>5

\* What is known at the END of the program is true when the test mines.
LEMMA AtEnd ==
  ASSUME TypeInv, KnowInv, MineInv, result = "mining", NEW G, Concludes(run, G)
  PROVE  Told(G)
  <1> DEFINE p == Programs[run]
  <1>1. PICK s : p = s \o Mine /\ Known(s, G)
    BY DEF Concludes
  <1>2. s \in Seq(Steps)
    BY <1>1 DEF Known
  <1>3. /\ Len(p) = Len(s) + 1 /\ Len(s) \in Nat /\ DOMAIN p = 1 .. Len(s) + 1
        /\ \A k \in 1 .. Len(s) : p[k] = s[k]
        /\ p[Len(s) + 1].cmd = "END"
    BY <1>1, <1>2, MineAt
  <1>4. pc = Len(s) + 1 /\ pc - 1 = Len(s)
    BY <1>3 DEF MineInv
  <1>5. PICK K : Annotates(K, s, Len(s)) /\ G \subseteq Full(K[Len(s) + 1])
    BY <1>1 DEF Known
  <1>6. \A f \in K[pc] : Trusted(f) => Holds(f)
    <2>1. Annotates(K, p, pc - 1)
      BY <1>3, <1>4, <1>5 DEF Annotates
    <2>2. \A f \in K[pc] : Knows(p, pc, f)
      BY <2>1 DEF Knows
    <2>3. QED
      BY <2>2 DEF KnowInv
  <1>7. \A f \in Full(G) : Trusted(f) => Holds(f)
    <2>1. Full(G) \subseteq Full(Full(K[pc]))
      BY <1>4, <1>5, Monotone
    <2>2. Full(G) \subseteq Full(K[pc])
      BY <2>1, FullFull
    <2>3. QED
      BY <1>6, <2>2, Closure
  <1>8. JobSteps = JobsIn(s)
    <2> DEFINE A == {k \in DOMAIN p : p[k].cmd = "RUN_JOB"}
               B == {k \in 1 .. Len(s) : s[k].cmd = "RUN_JOB"}
    <2>1. \A k : k \in A <=> k \in B
      <3>1. \A k : k \in 1 .. Len(s) + 1 <=> k \in 1 .. Len(s) \/ k = Len(s) + 1
        BY <1>3
      <3> HIDE DEF p
      <3>2. QED
        BY <1>3, <3>1
    <2>2. A = B
      BY <2>1
    <2>3. QED
      BY <2>2 DEF JobSteps, JobsIn
  <1>9. \A n : Job(n) \in G => n = JobsIn(s)
    <2>1. \A n : Job(n).is = "RUN_JOB" /\ Job(n).arg = n
      BY DEF Job, Fact
    <2>2. QED
      BY <1>1, <2>1 DEF Known
  <1>10. QED
    BY <1>7, <1>8, <1>9 DEF Told

\* What is known of all chips, or of those at address a.
InAt(G, is, a, arg) == Fact(is, 0, arg) \in G \/ Fact(is, a, arg) \in G

\* A fact about all addresses, or about that of a chip, is one about the chip.
LEMMA TellsOf ==
  ASSUME NEW G, Told(G), fault = "none", NEW is \in PerChip, NEW a, NEW arg, InAt(G, is, a, arg),
         NEW q \in Reach, a \in {0, chip[q].addr}
  PROVE  OfChip(q, Fact(is, 0, arg))
  <1>1. PICK b \in {0, a} : Fact(is, b, arg) \in G
    BY DEF InAt
  <1> DEFINE f == Fact(is, b, arg)
             g == Fact(is, 0, arg)
  <1>2. f.is = is /\ f.at = b /\ f.arg = arg /\ g.is = is /\ g.arg = arg
    BY DEF Fact
  <1> HIDE DEF f, g
  <1>3. f \in Full(G) /\ Trusted(f)
    BY <1>1 DEF f, Full, Trusted
  <1>4. Holds(f)
    BY <1>3 DEF Told
  <1>5. OfChip(q, f)
    <2>1. f.is \in PerChip /\ f.at \in {0, chip[q].addr}
      BY <1>2
    <2>2. QED
      BY <1>4, <2>1 DEF Holds
  <1>6. OfChip(q, g)
    BY <1>2, <1>5, OfChipAt
  <1>7. QED
    BY <1>6 DEF g

\* All that a chip with address a needs to be ready for mining, in the facts G.
DataOf(r) ==
  IF r.test \in {"TestLastChip", "TestDisableCore", "TestMiningWithoutBist", "TestXCore"}
    THEN "golden" ELSE "vector"

Ranged(r, G, a) ==
  \/ InAt(G, "WRITE_NONCE", a, Length(r))
  \/ Share(0) \in G /\ Dist(Length(r)) \in G
  \/ r.test = "TestWorkLoopFreq" /\ r.same

Clocked(r, G) ==
  \/ Clock(0) \in G
  \/ r.test = "TestWorkLoopRandomVector"
  \/ r.fault > 0 /\ Unclocked \in G

Cored(r, G) ==
  IF r.test = "TestMiningWithoutBist" THEN Fact("WRITE_CORE_CFG", 0, r.mask) \in G
                                      ELSE Bist(0, r.mask) \in G

Made(r, G, a) ==
  /\ InAt(G, "WRITE_PARAM", a, DataOf(r)) /\ InAt(G, "WRITE_TARGET", a, DataOf(r))
  /\ Ranged(r, G, a) /\ InAt(G, "SET_CONTROL", a, "") /\ Clocked(r, G) /\ Cored(r, G)
  /\ Fact("SET_DISABLE", 0, r.mask) \in G /\ \E n : Job(n) \in G

\* A chip whose registers are known to be written is ready.
LEMMA MadeReady ==
  ASSUME TypeInv, NEW G, Told(G), fault = "none", NEW a, Made(run, G, a),
         NEW q \in Reach, a \in {0, chip[q].addr}
  PROVE  Ready(q)
  <1>1. Asked = [data |-> DataOf(run), range |-> Length(run)]
    BY DEF Asked, DataOf
  <1>2. Asked.data = DataOf(run) /\ Asked.range = Length(run)
    BY <1>1
  <1>3. \A is \in PerChip : \A arg : InAt(G, is, a, arg) => OfChip(q, Fact(is, 0, arg))
    BY TellsOf
  <1>4. \A is, arg : Fact(is, 0, arg) \in G => InAt(G, is, a, arg)
    BY DEF InAt
  <1>5. \A is, arg : Fact(is, 0, arg).is = is /\ Fact(is, 0, arg).arg = arg
    BY DEF Fact
  <1>6. \A arg :
          /\ InAt(G, "WRITE_PARAM", a, arg) => chip[q].param = arg
          /\ InAt(G, "WRITE_TARGET", a, arg) => chip[q].target = arg
          /\ Fact("SET_DISABLE", 0, arg) \in G => chip[q].mask = arg
          /\ InAt(G, "SET_CONTROL", a, arg) => chip[q].oon
    <2> TAKE arg
    <2>1. /\ OfChip(q, Fact("WRITE_PARAM", 0, arg)) => chip[q].param = arg
          /\ OfChip(q, Fact("WRITE_TARGET", 0, arg)) => chip[q].target = arg
          /\ OfChip(q, Fact("SET_DISABLE", 0, arg)) => chip[q].mask = arg
          /\ OfChip(q, Fact("SET_CONTROL", 0, arg)) => chip[q].oon
      BY <1>5 DEF OfChip
    <2>2. {"WRITE_PARAM", "WRITE_TARGET", "SET_DISABLE", "SET_CONTROL"} \subseteq PerChip
      BY DEF PerChip, Plainly
    <2>3. QED
      BY <1>3, <1>4, <2>1, <2>2
  <1>7. /\ chip[q].param = Asked.data /\ chip[q].target = Asked.data
        /\ chip[q].oon /\ chip[q].mask = run.mask
    BY <1>2, <1>6 DEF Made
  <1>8. chip[q].nonce.range = Asked.range \/ (run.test = "TestWorkLoopFreq" /\ run.same)
    <2>1. CASE InAt(G, "WRITE_NONCE", a, Length(run))
      <3>1. OfChip(q, Fact("WRITE_NONCE", 0, Length(run)))
        BY <1>3, <2>1 DEF PerChip, Plainly
      <3>2. Length(run) # "share"
        BY DEF Length
      <3>3. chip[q].nonce = Whole(Length(run))
        BY <1>5, <3>1, <3>2 DEF OfChip
      <3>4. \A x : Whole(x).range = x
        BY DEF Whole
      <3>5. QED
        BY <1>2, <3>3, <3>4
    <2>2. CASE Share(0) \in G /\ Dist(Length(run)) \in G
      <3>1. InAt(G, "WRITE_NONCE", a, "share")
        BY <2>2 DEF InAt, Share
      <3>2. OfChip(q, Fact("WRITE_NONCE", 0, "share"))
        BY <1>3, <3>1 DEF PerChip, Plainly
      <3>3. chip[q].nonce = [dist EXCEPT !.part = chip[q].addr]
        BY <1>5, <3>2 DEF OfChip
      <3>4. Holds(Dist(Length(run)))
        <4>1. Dist(Length(run)) \in Full(G) /\ Trusted(Dist(Length(run)))
          BY <2>2 DEF Full, Trusted
        <4>2. QED
          BY <4>1 DEF Told
      <3>5. dist = [range |-> Length(run), part |-> 0, of |-> numChips]
        <4>1. \A x : Dist(x).is = "dist" /\ Dist(x).arg = x
          BY DEF Dist, Fact
        <4>2. QED
          BY <3>4, <4>1 DEF Holds
      <3>6. chip[q].nonce.range = Length(run)
        BY <3>3, <3>5
      <3>7. QED
        BY <1>2, <3>6
    <2>3. QED
      BY <2>1, <2>2 DEF Made, Ranged
  <1>9. board = "ASIC" => \/ chip[q].clock = "set"
                          \/ run.test = "TestWorkLoopRandomVector"
                          \/ run.fault > 0 /\ chip[q].addr = 1
    <2>1. Clock(0) \in G => OfChip(q, Fact("SET_PLL", 0, ""))
      BY <1>3, <1>4 DEF Clock, PerChip
    <2>2. Unclocked \in G => OfChip(q, Fact("PLL_OFF", 0, ""))
      BY <1>3, <1>4 DEF Unclocked, PerChip
    <2>3. board = "ASIC" =>
            /\ OfChip(q, Fact("SET_PLL", 0, "")) => chip[q].clock = "set"
            /\ OfChip(q, Fact("PLL_OFF", 0, "")) => chip[q].clock = "set" \/ chip[q].addr = 1
      BY <1>5 DEF OfChip
    <2>4. QED
      BY <2>1, <2>2, <2>3 DEF Made, Clocked
  <1>10. chip[q].found = IF run.test = "TestMiningWithoutBist" THEN Cores - Disabled(run.mask)
                         ELSE Min({health[q], Cores - Disabled(chip[q].mask)})
    <2>1. Bist(0, run.mask) \in G => OfChip(q, Fact("RUN_BIST", 0, run.mask))
      BY <1>3, <1>4 DEF Bist, PerChip
    <2>2. Fact("WRITE_CORE_CFG", 0, run.mask) \in G
            => OfChip(q, Fact("WRITE_CORE_CFG", 0, run.mask))
      BY <1>3, <1>4 DEF PerChip
    <2>3. /\ OfChip(q, Fact("RUN_BIST", 0, run.mask)) =>
               chip[q].found = Min({health[q], Cores - Disabled(run.mask)})
          /\ OfChip(q, Fact("WRITE_CORE_CFG", 0, run.mask)) =>
               chip[q].found = Cores - Disabled(run.mask)
      <3>1. \A f : OfChip(q, f) =>
              /\ f.is = "RUN_BIST" => chip[q].found = Min({health[q], Cores - Disabled(f.arg)})
              /\ f.is = "WRITE_CORE_CFG" => chip[q].found = Cores - Disabled(f.arg)
        BY Zenon DEF OfChip
      <3>2. \A is, arg : OfChip(q, Fact(is, 0, arg)) =>
              /\ is = "RUN_BIST" => chip[q].found = Min({health[q], Cores - Disabled(arg)})
              /\ is = "WRITE_CORE_CFG" => chip[q].found = Cores - Disabled(arg)
        <4> TAKE is, arg
        <4> DEFINE f == Fact(is, 0, arg)
        <4>1. f.is = is /\ f.arg = arg
          BY <1>5
        <4> HIDE DEF f
        <4>2. OfChip(q, f) =>
                /\ is = "RUN_BIST" => chip[q].found = Min({health[q], Cores - Disabled(arg)})
                /\ is = "WRITE_CORE_CFG" => chip[q].found = Cores - Disabled(arg)
          BY <3>1, <4>1, Zenon
        <4>3. QED
          BY <4>2 DEF f
      <3>3. QED
        BY <3>2, Zenon
    <2>4. CASE run.test = "TestMiningWithoutBist"
      BY <2>2, <2>3, <2>4 DEF Made, Cored
    <2>5. CASE run.test # "TestMiningWithoutBist"
      <3>1. Bist(0, run.mask) \in G
        BY <2>5 DEF Made, Cored
      <3>2. chip[q].found = Min({health[q], Cores - Disabled(run.mask)})
        BY <2>1, <2>3, <3>1
      <3>3. QED
        BY <1>7, <2>5, <3>2
    <2>6. QED
      BY <2>4, <2>5
  <1>11. chip[q].jobs = JobSteps
    <2>1. PICK n : Job(n) \in G
      BY DEF Made
    <2>2. n = JobSteps
      BY <2>1 DEF Told
    <2>3. OfChip(q, Fact("RUN_JOB", 0, n))
      BY <1>3, <1>4, <2>1 DEF Job, PerChip
    <2>4. chip[q].jobs = n
      BY <1>5, <2>3 DEF OfChip
    <2>5. QED
      BY <2>2, <2>4
  <1>12. QED
    BY <1>7, <1>8, <1>9, <1>10, <1>11 DEF Ready

-----------------------------------------------------------------------------
(* What the tests that mine have made sure of by then.                       *)

\* Facts that the pieces up to BIST leave alone.
Basic(B) ==
  /\ NUMBERED \in B /\ ANSWERED \in B /\ ON \in B
  /\ \A f \in B : f.is \notin BistKinds \cup {"SET_DISABLE", "SET_PLL", "top"}

Masked(mask) == Fact("SET_DISABLE", 0, mask)

\* What is known after BIST, with the counts of the addresses W.
Tried(B, mask, W) == B \cup {Masked(mask), Clock(0), Bist(0, mask)} \cup {Fresh(a) : a \in W}

\* What is known after the start of the tests.
LEMMA Begins ==
  /\ Known(Start \o All("RESET", ""), Begun) /\ Known(Start, Begun)
  /\ Basic(Begun)
  <1>1. Known(Start \o All("RESET", ""), Begun)
    BY Starts, KnownPart
  <1>2. Basic(Begun)
    BY Kinds DEF Begun, Basic, BistKinds
  <1>3. QED
    BY <1>1, <1>2, Starts

\* A mask, sent to all or to each, after a start with more known.
LEMMA MaskingMore ==
  ASSUME NEW s, NEW B, Known(s, B), NUMBERED \in B, ANSWERED \in B, NEW mask \in Masks,
         \A f \in B : f.is \notin {"SET_DISABLE", "top"}
  PROVE  /\ Known(s \o All("SET_DISABLE", mask), B \cup {Masked(mask)})
         /\ Known(s \o Each("SET_DISABLE", mask), B \cup {Masked(mask)})
  <1> DEFINE N == {Masked(mask)}
             X == {"SET_DISABLE"}
  <1>1. ArgFits("SET_DISABLE", mask) /\ mask # "share"
    BY SeqTypes DEF Masks
  <1>2. "SET_DISABLE" \in Plainly
    BY DEF Plainly
  <1>3. Goes(s, All("SET_DISABLE", mask), B, X, N)
    BY <1>1, <1>2, AllWrite DEF Masked
  <1>4. Goes(s, Each("SET_DISABLE", mask), B, X, N)
    BY <1>1, <1>2, EachWrite DEF Masked
  <1>5. Leaves(B, X, N, B \cup N)
    BY DEF Leaves
  <1> HIDE DEF N, X
  <1>6. Known(s \o All("SET_DISABLE", mask), B \cup N)
    BY <1>3, <1>5, Then
  <1>7. Known(s \o Each("SET_DISABLE", mask), B \cup N)
    BY <1>4, <1>5, Then
  <1>8. QED
    BY <1>6, <1>7 DEF N

\* A mask, sent to all or to each.
LEMMA Masking ==
  ASSUME NEW s, NEW B, Known(s, B), Basic(B), NEW mask \in Masks
  PROVE  /\ Known(s \o All("SET_DISABLE", mask), B \cup {Masked(mask)})
         /\ Known(s \o Each("SET_DISABLE", mask), B \cup {Masked(mask)})
  <1>1. /\ NUMBERED \in B /\ ANSWERED \in B
        /\ \A f \in B : f.is \notin {"SET_DISABLE", "top"}
    BY DEF Basic
  <1>2. QED
    BY <1>1, MaskingMore

\* SetPll and RunBist after a mask.
LEMMA Trying ==
  ASSUME NEW s, NEW B, NEW mask, Known(s, B \cup {Masked(mask)}), Basic(B),
         NEW W, W \subseteq Addresses, W # {} => WHOLE \in B
  PROVE  Known(s \o SetPll \o RunBist, Tried(B, mask, W))
  <1> DEFINE G == B \cup {Masked(mask)}
             H == G \cup {Clock(0)}
             C == {Clock(0)}
             X == {"fresh"}
  <1>0. NUMBERED \in G /\ ANSWERED \in G /\ Known(s, G)
    BY DEF Basic
  <1>1. Goes(s, SetPll, G, X, C)
    <2> HIDE DEF G, X, C
    <2>1. Goes(s, SetPll, G, {"fresh"}, {Clock(0)})
      BY <1>0, SetPllGoes
    <2>2. QED
      BY <2>1 DEF X, C
  <1>2. Masked(mask).is = "SET_DISABLE"
    BY Kinds DEF Masked
  <1>3. Leaves(G, X, C, H)
    BY <1>2 DEF Leaves, Basic, BistKinds
  <1>4. Known(s \o SetPll, H)
    <2> HIDE DEF G, X, C, H
    <2>1. QED
      BY <1>1, <1>3, Then
  <1>5. ON \in H /\ Fact("SET_DISABLE", 0, mask) \in H
        /\ (W # {} => WHOLE \in H /\ NUMBERED \in H)
    BY DEF Basic, Masked
  <1>6. Clock(0).is = "SET_PLL"
    BY Kinds
  <1>7. \A f \in H : f.is \notin BistKinds \cup {"top"}
    BY <1>2, <1>6 DEF Basic, BistKinds
  <1> HIDE DEF G, X, C
  <1>8. PICK I : /\ Known(s \o SetPll \o RunBist, I) /\ Kept(H, I, BistKinds)
                 /\ Bist(0, mask) \in I /\ \A a \in W : Fresh(a) \in I
    <2> HIDE DEF H
    <2> DEFINE u == s \o SetPll
    <2>1. Known(u, H)
      BY <1>4
    <2> HIDE DEF u
    <2>2. \E I : /\ Known(u \o RunBist, I) /\ Kept(H, I, BistKinds)
                 /\ Bist(0, mask) \in I /\ \A a \in W : Fresh(a) \in I
      BY <1>5, <2>1, RunBistGoes
    <2>3. QED
      BY <2>2 DEF u
  <1>9. H \subseteq I
    BY <1>7, <1>8 DEF Kept
  <1>10. Tried(B, mask, W) \subseteq I
    BY <1>8, <1>9 DEF Tried, G
  <1>11. QED
    BY <1>8, <1>10, KnownPart

\* The data and the shares for a job, and the job.
ShareKinds == {"WRITE_PARAM", "WRITE_TARGET", "WRITE_NONCE", "dist"}
ShareFacts(range) == {Fact("WRITE_PARAM", 0, "vector"), Fact("WRITE_TARGET", 0, "vector"),
                      Dist(range), Share(0)}

\* A vector and its nonces shared out.
LEMMA SharedOut ==
  ASSUME NEW s, NEW G, Known(s, G), NUMBERED \in G, ANSWERED \in G, NEW range \in Ranges,
         NEW L, Leaves(G, ShareKinds, ShareFacts(range), L)
  PROVE  Known(s \o Vector("vector") \o Shares(range), L)
  <1> DEFINE X == {"WRITE_PARAM", "WRITE_TARGET"}
             N == {Fact("WRITE_PARAM", 0, "vector"), Fact("WRITE_TARGET", 0, "vector")}
             Y == {"dist", "WRITE_NONCE"}
             M == {Dist(range), Share(0)}
             H == {f \in G : f.is \notin X \cup {"top"}} \cup N
  <1>1. Goes(s, Vector("vector"), G, X, N)
    BY VectorGoes DEF Data
  <1>2. Leaves(G, X, N, H)
    BY DEF Leaves
  <1>3. NUMBERED \in H /\ ANSWERED \in H
    BY Kinds
  <1>4. \A f \in N : f.is \in X
    BY Kinds
  <1>5. Leaves(H, Y, M, L)
    <2>1. ASSUME NEW f \in L PROVE f \in M \/ (f \in H /\ f.is \notin Y \cup {"top"})
      <3>1. f \in ShareFacts(range) \/ (f \in G /\ f.is \notin ShareKinds \cup {"top"})
        BY DEF Leaves
      <3>2. f \in ShareFacts(range) => f \in N \/ f \in M
        BY DEF ShareFacts
      <3>3. f \in G /\ f.is \notin ShareKinds \cup {"top"} =>
              f \in H /\ f.is \notin Y \cup {"top"}
        BY DEF ShareKinds
      <3>4. f \in N => f \in H /\ f.is \notin Y \cup {"top"}
        BY <1>4
      <3>5. QED
        BY <3>1, <3>2, <3>3, <3>4
    <2>2. QED
      BY <2>1 DEF Leaves
  <1> HIDE DEF X, N, H
  <1>6. Known(s \o Vector("vector"), H)
    BY <1>1, <1>2, Then
  <1> DEFINE u == s \o Vector("vector")
  <1>7. Known(u, H)
    BY <1>6
  <1> HIDE DEF u
  <1>8. Goes(u, Shares(range), H, Y, M)
    BY <1>3, <1>7, SharesGoes
  <1> HIDE DEF Y, M
  <1>9. Known(u \o Shares(range), L)
    BY <1>5, <1>8, Then
  <1>10. QED
    BY <1>9 DEF u

\* The interrupts of all chips.
LEMMA AllListening ==
  ASSUME NEW s, NEW G, Known(s, G), WHOLE \in G, NEW L, Leaves(G, {}, {Oon(0)}, L)
  PROVE  Known(s \o All("SET_CONTROL", OON), L)
  <1>1. Goes(s, All("SET_CONTROL", OON), G, {}, {Oon(0)})
    BY AllOon
  <1>2. QED
    BY <1>1, Then

\* The commands p end with mining, and all of G is known by then.
Ended(p, G) == \E s : p = s \o Mine /\ Known(s, G)

Sharing == {"TestWork", "TestWorkLoop", "TestInfiniteWorkLoop", "TestWorkLoopRandomVector",
            "TestAsic", "TestWorkLoopFreq", "Mining"}

\* The counts were checked and are still those of the chips.
Judging(G, what) ==
  /\ WHOLE \in G /\ NUMBERED \in G /\ SANE \in G /\ Checked(what) \in G
  /\ \A a \in Addresses : Fresh(a) \in G

\* The facts that test r has made sure of.
Promised(r, G) ==
  /\ NUMBERED \in G /\ ANSWERED \in G
  /\ \A a \in Addresses : \/ Made(r, G, a)
                          \/ r.test = "TestXCore" /\ a > 1
                          \/ r.test = "TestAsic" /\ a \in 2 .. r.last
  /\ r.test \in Sharing /\ ~r.same => Share(0) \in G /\ Dist(Length(r)) \in G
  /\ r.test = "TestDisableCore" /\ r.fault = 0 => Judging(G, "each")
  /\ r.test = "TestWorkLoopFreq" => Judging(G, "sum")

\* A test with its data and range on all chips, and the interrupt of the chip at address a on.
LEMMA MadeAt ==
  ASSUME NEW r, NEW G, Fact("WRITE_PARAM", 0, DataOf(r)) \in G,
         Fact("WRITE_TARGET", 0, DataOf(r)) \in G, Ranged(r, G, 0), Clocked(r, G),
         Cored(r, G), Masked(r.mask) \in G, NEW n, Job(n) \in G
  PROVE  \A a : Oon(0) \in G \/ Oon(a) \in G => Made(r, G, a)
  <1> SUFFICES ASSUME NEW a, Oon(0) \in G \/ Oon(a) \in G PROVE Made(r, G, a)
    OBVIOUS
  <1>1. Ranged(r, G, a)
    BY DEF Ranged, InAt
  <1>2. QED
    BY <1>1 DEF Made, InAt, Oon, Masked

\* The tests of SimpleWork.c.
WorkFacts(mask, range, n) ==
  {NUMBERED, ANSWERED, Oon(0), Masked(mask), Clock(0), Bist(0, mask), Job(n)} \cup ShareFacts(range)

\* The kinds of the facts about shares and masks.
LEMMA WorkKinds ==
  /\ \A range : \A f \in ShareFacts(range) : f.is \in ShareKinds
  /\ \A mask : Masked(mask).is = "SET_DISABLE"
  /\ Share(0).is = "WRITE_NONCE"
  <1>1. \A range : \A f \in ShareFacts(range) : f.is \in ShareKinds
    BY Kinds DEF ShareFacts, ShareKinds, Share
  <1>2. QED
    BY <1>1, Kinds DEF Masked, Share

\* What TestWork and TestWorkLoop have sent before they mine.
LEMMA Working ==
  ASSUME NEW s, Known(s, Begun)
  PROVE  Known(s \o All("SET_DISABLE", "enable_all") \o SetPll \o RunBist \o All("SET_CONTROL", OON)
                 \o Vector("vector") \o Shares("full") \o Jobs(1),
               WorkFacts("enable_all", "full", 1))
  <1> DEFINE m == "enable_all"
             u1 == s \o All("SET_DISABLE", "enable_all")
             u2 == u1 \o SetPll \o RunBist
             u3 == u2 \o All("SET_CONTROL", OON)
             u4 == u3 \o Vector("vector") \o Shares("full")
             u5 == u4 \o Jobs(1)
             L2 == Tried(Begun, m, {})
             L3 == L2 \cup {Oon(0)}
             L4 == {NUMBERED, ANSWERED, Oon(0), Masked(m), Clock(0), Bist(0, m), Job(0)}
                   \cup ShareFacts("full")
  <1>0. Basic(Begun) /\ m \in Masks /\ "full" \in Ranges
    BY Begins DEF Masks, Ranges
  <1>1. Known(u1, Begun \cup {Masked(m)})
    BY <1>0, Masking
  <1> HIDE DEF u1
  <1>2. Known(u2, L2)
    BY <1>0, <1>1, Trying
  <1>3. WHOLE \in L2 /\ NUMBERED \in L2 /\ ANSWERED \in L2
    BY DEF Tried, Begun
  <1>4. Leaves(L2, {}, {Oon(0)}, L3)
    BY Kinds, WorkKinds DEF Leaves, Tried, Begun
  <1> HIDE DEF u2
  <1>5. Known(u3, L3)
    BY <1>2, <1>3, <1>4, AllListening
  <1>6. NUMBERED \in L3 /\ ANSWERED \in L3
    BY <1>3
  <1>7. Leaves(L3, ShareKinds, ShareFacts("full"), L4)
    BY Kinds, WorkKinds DEF Leaves, Tried, Begun, ShareKinds
  <1> HIDE DEF u3, L3
  <1>8. Known(u4, L4)
    BY <1>0, <1>5, <1>6, <1>7, SharedOut
  <1>9. Leaves(L4, {"RUN_JOB"}, {Job(1)}, WorkFacts(m, "full", 1))
    BY Kinds, WorkKinds DEF Leaves, WorkFacts, ShareKinds
  <1>10. Job(0) \in L4
    OBVIOUS
  <1> HIDE DEF u4, L4
  <1>11. Goes(u4, Jobs(1), L4, {"RUN_JOB"}, {Job(1)})
    BY <1>8, <1>10, FirstJob
  <1>12. Known(u5, WorkFacts(m, "full", 1))
    BY <1>9, <1>11, Then
  <1>13. QED
    BY <1>12 DEF u1, u2, u3, u4

\* That is enough for the tests of SimpleWork.c and for the mining service.
LEMMA PromisedWork ==
  ASSUME NEW r, NEW n,
         r.test \in {"TestWork", "TestWorkLoop", "TestInfiniteWorkLoop", "Mining"}
  PROVE  Promised(r, WorkFacts(r.mask, Length(r), n))
  <1> DEFINE G == WorkFacts(r.mask, Length(r), n)
  <1>1. DataOf(r) = "vector"
    BY DEF DataOf
  <1>2. /\ NUMBERED \in G /\ ANSWERED \in G /\ Oon(0) \in G /\ Masked(r.mask) \in G
        /\ Clock(0) \in G /\ Bist(0, r.mask) \in G /\ Job(n) \in G
        /\ Fact("WRITE_PARAM", 0, "vector") \in G /\ Fact("WRITE_TARGET", 0, "vector") \in G
        /\ Dist(Length(r)) \in G /\ Share(0) \in G
    BY DEF WorkFacts, ShareFacts
  <1> HIDE DEF G
  <1>3. Ranged(r, G, 0) /\ Clocked(r, G) /\ Cored(r, G)
    BY <1>2 DEF Ranged, Clocked, Cored
  <1>4. \A a : Made(r, G, a)
    BY <1>1, <1>2, <1>3, MadeAt
  <1>5. Promised(r, G)
    BY <1>2, <1>4 DEF Promised
  <1>6. QED
    BY <1>5 DEF G

\* TestWork and TestWorkLoop mine with one job.
LEMMA TestWorkMines ==
  ASSUME NEW r, r.last \in {0, 1}
  PROVE  /\ r.last = 1 => Ended(TestWork(r), WorkFacts("enable_all", "full", 1))
         /\ Ended(TestWorkLoop(r), WorkFacts("enable_all", "full", 1))
  <1> DEFINE s0 == Start \o All("RESET", "")
             s1 == s0 \o SetLast(1, LAST)
             G  == WorkFacts("enable_all", "full", 1)
             rest(s) == s \o All("SET_DISABLE", "enable_all") \o SetPll \o RunBist
                          \o All("SET_CONTROL", OON) \o Vector("vector") \o Shares("full")
                          \o Jobs(1)
  <1>1. Known(s0, Begun) /\ s0 \in Seq(Steps)
    BY Begins, Starts
  <1>2. Known(s1, Begun)
    <2>1. NUMBERED \in Begun /\ ANSWERED \in Begun /\ LAST \in {LAST, LAST_OON}
      BY DEF Begun
    <2> HIDE DEF s0
    <2>2. PICK H : /\ Known(s1, H) /\ Kept(Begun, H, {"SET_CONTROL", "dist", "checked", "fresh"})
      BY <1>1, <2>1, EndsFirst
    <2>3. \A f \in Begun : f.is \notin {"SET_CONTROL", "dist", "checked", "fresh", "top"}
      BY Kinds DEF Begun
    <2>4. Begun \subseteq H
      BY <2>2, <2>3 DEF Kept
    <2>5. QED
      BY <2>2, <2>4, KnownPart
  <1> HIDE DEF s0
  <1>3. \A s : Known(s, Begun) => Known(rest(s), G)
    BY Working
  <1>4. s0 \o <<>> = s0
    BY <1>1
  <1> DEFINE ends == IF r.last # 0 THEN SetLast(r.last, LAST) ELSE <<>>
  <1>5. TestWorkLoop(r) = rest(s0 \o ends) \o Mine
    BY Zenon DEF TestWorkLoop, s0
  <1>6. ends = IF r.last = 1 THEN SetLast(1, LAST) ELSE <<>>
    OBVIOUS
  <1>8. r.last = 1 => TestWork(r) = rest(s1) \o Mine
    BY Zenon DEF TestWork, s0
  <1> HIDE DEF ends
  <1>9. Known(s0 \o ends, Begun)
    <2>1. CASE r.last = 1
      BY <1>2, <1>6, <2>1
    <2>2. CASE r.last # 1
      BY <1>1, <1>4, <1>6, <2>2
    <2>3. QED
      BY <2>1, <2>2
  <1> HIDE DEF rest, s1
  <1>7. QED
    BY <1>2, <1>3, <1>5, <1>8, <1>9 DEF Ended

\* After BIST and with the interrupts on.
Listening(mask) == {WHOLE, NUMBERED, ANSWERED, Oon(0), Masked(mask), Clock(0), Bist(0, mask),
                    Job(0)}

\* What TestInfiniteWorkLoop and the mining service have sent before the data.
LEMMA Listens ==
  ASSUME NEW s, NEW mask \in Masks, Known(s, Begun \cup {Masked(mask)})
  PROVE  Known(s \o SetPll \o RunBist \o All("SET_CONTROL", OON), Listening(mask))
  <1> DEFINE u == s \o SetPll \o RunBist
             L == Tried(Begun, mask, {})
  <1>1. Known(u, L)
    BY Begins, Trying
  <1>2. WHOLE \in L
    BY DEF Tried, Begun
  <1>3. Leaves(L, {}, {Oon(0)}, Listening(mask))
    BY Kinds, WorkKinds DEF Leaves, Tried, Begun, Listening
  <1> HIDE DEF u, L
  <1>4. Known(u \o All("SET_CONTROL", OON), Listening(mask))
    BY <1>1, <1>2, <1>3, AllListening
  <1>5. QED
    BY <1>4 DEF u

\* One job more.
LEMMA NextWork ==
  ASSUME NEW s, NEW mask, NEW range, NEW n \in 1 .. 3, Known(s, WorkFacts(mask, range, n))
  PROVE  /\ Known(s \o SetWork, WorkFacts(mask, range, n + 1))
         /\ Known(s \o AddGoldenJob, WorkFacts(mask, range, n + 1))
  <1> DEFINE G == WorkFacts(mask, range, n)
             L == WorkFacts(mask, range, n + 1)
             N == {Fact("WRITE_PARAM", 0, "vector"), Fact("WRITE_TARGET", 0, "vector"), Job(n + 1)}
             M == {Fact("WRITE_PARAM", 0, "vector"), Fact("WRITE_TARGET", 0, "vector"), Share(0),
                   Job(n + 1)}
  <1>1. n \in 0 .. FifoDepth - 1
    BY DEF FifoDepth
  <1>2. Job(n) \in G /\ NUMBERED \in G /\ ANSWERED \in G
    BY DEF WorkFacts
  <1>3. Leaves(G, JobKinds, N, L)
    BY Kinds, WorkKinds DEF Leaves, WorkFacts, ShareFacts, JobKinds
  <1>4. Leaves(G, JobKinds \cup {"WRITE_NONCE"}, M, L)
    BY Kinds, WorkKinds DEF Leaves, WorkFacts, ShareFacts, JobKinds
  <1> HIDE DEF G, L
  <1>5. Goes(s, SetWork, G, JobKinds, N)
    BY <1>1, <1>2, SetWorkGoes DEF G
  <1>6. Goes(s, AddGoldenJob, G, JobKinds \cup {"WRITE_NONCE"}, M)
    BY <1>1, <1>2, GoldenJobGoes DEF G
  <1> HIDE DEF N, M
  <1>7. Known(s \o SetWork, L)
    BY <1>3, <1>5, Then
  <1>8. Known(s \o AddGoldenJob, L)
    BY <1>4, <1>6, Then
  <1>9. QED
    BY <1>7, <1>8 DEF L

\* TestInfiniteWorkLoop mines with a full FIFO.
LEMMA TestInfiniteMines ==
  ASSUME NEW r
  PROVE  Ended(TestInfiniteWorkLoop(r), WorkFacts("enable_all", "full", 4))
  <1> DEFINE m  == "enable_all"
             W(n) == WorkFacts(m, "full", n)
             s0 == Start \o All("RESET", "")
             s1 == s0 \o All("SET_DISABLE", m)
             s2 == s1 \o SetPll \o RunBist \o All("SET_CONTROL", OON)
             s3 == s2 \o Shares("full")
             s4 == s3 \o SetWork
             s5 == s4 \o SetWork
             s6 == s5 \o SetWork
             s7 == s6 \o SetWork
             L3 == Listening(m) \cup {Dist("full"), Share(0)}
  <1>1. m \in Masks /\ "full" \in Ranges /\ 0 \in 0 .. FifoDepth - 1
    BY DEF Masks, Ranges, FifoDepth
  <1>2. Known(s1, Begun \cup {Masked(m)})
    BY <1>1, Begins, Masking
  <1> HIDE DEF s1
  <1>3. Known(s2, Listening(m))
    BY <1>1, <1>2, Listens
  <1>4. NUMBERED \in Listening(m) /\ ANSWERED \in Listening(m)
    BY DEF Listening
  <1> HIDE DEF s2
  <1>5. Goes(s2, Shares("full"), Listening(m), {"dist", "WRITE_NONCE"}, {Dist("full"), Share(0)})
    BY <1>1, <1>3, <1>4, SharesGoes
  <1>6. Leaves(Listening(m), {"dist", "WRITE_NONCE"}, {Dist("full"), Share(0)}, L3)
    BY Kinds, WorkKinds DEF Leaves, Listening
  <1>7. Known(s3, L3)
    BY <1>5, <1>6, Then
  <1>8. Job(0) \in L3
    BY DEF Listening
  <1> DEFINE N == {Fact("WRITE_PARAM", 0, "vector"), Fact("WRITE_TARGET", 0, "vector"), Job(0 + 1)}
  <1>9. Leaves(L3, JobKinds, N, W(1))
    BY Kinds, WorkKinds DEF Leaves, Listening, WorkFacts, ShareFacts, JobKinds
  <1> HIDE DEF s3, L3
  <1>10. Goes(s3, SetWork, L3, JobKinds, N)
    BY <1>1, <1>7, <1>8, SetWorkGoes
  <1> HIDE DEF N
  <1>11. Known(s4, W(1))
    BY <1>9, <1>10, Then
  <1> HIDE DEF s4
  <1>12. Known(s5, W(2))
    <2>1. Known(s5, W(1 + 1))
      BY <1>11, NextWork
    <2>2. QED
      BY <2>1
  <1> HIDE DEF s5
  <1>13. Known(s6, W(3))
    <2>1. Known(s6, W(2 + 1))
      BY <1>12, NextWork
    <2>2. QED
      BY <2>1
  <1> HIDE DEF s6
  <1>14. Known(s7, W(4))
    <2>1. Known(s7, W(3 + 1))
      BY <1>13, NextWork
    <2>2. QED
      BY <2>1
  <1>15. TestInfiniteWorkLoop(r) = s7 \o Mine
    BY Zenon DEF TestInfiniteWorkLoop, s1, s2, s3, s4, s5, s6
  <1>16. QED
    BY <1>14, <1>15 DEF Ended

\* The mining service mines with a full FIFO.
LEMMA MiningMines ==
  ASSUME NEW r, r.mask \in Masks
  PROVE  Ended(Mining(r), WorkFacts(r.mask, "full", 4))
  <1> DEFINE m  == r.mask
             W(n) == WorkFacts(m, "full", n)
             s0 == Start \o All("RESET", "")
             s1 == s0 \o Step("SET_DISABLE", 0, 1, m) \o MiningMask(m)
             s2 == s1 \o SetPll \o RunBist \o All("SET_CONTROL", OON)
             s3 == s2 \o Host("DISTRIBUTE", "full")
             s8 == s3 \o CheckChips
             s4 == s8 \o AddGoldenJob
             s5 == s4 \o AddGoldenJob
             s6 == s5 \o AddGoldenJob
             s7 == s6 \o AddGoldenJob
             L3 == Listening(m) \cup {Dist("full")}
  <1>1. m \in Masks /\ "full" \in Ranges /\ 0 \in 0 .. FifoDepth - 1
    BY DEF Ranges, FifoDepth
  <1>2. Known(s1, Begun \cup {Masked(m)})
    <2> DEFINE u == s0 \o Step("SET_DISABLE", 0, 1, m)
               B == Begun \cup {Masked(m)}
    <2>1. Known(s0, Begun) /\ ANSWERED \in Begun
      BY Begins DEF Begun
    <2>2. Leaves(Begun, {"SET_DISABLE"}, {Masked(m)}, B)
      BY Kinds DEF Leaves, Begun
    <2>3. Leaves(B, {"SET_DISABLE"}, {Masked(m)}, B)
      BY Kinds DEF Leaves, Begun
    <2>4. Masked(m) \in B
      OBVIOUS
    <2> HIDE DEF s0, m, B
    <2>5. Goes(s0, Step("SET_DISABLE", 0, 1, m), Begun, {"SET_DISABLE"}, {Masked(m)})
      BY <1>1, <2>1, MiningMaskGoes DEF Masked
    <2>6. Known(u, B)
      BY <2>2, <2>5, Then
    <2> HIDE DEF u
    <2>7. Goes(u, MiningMask(m), B, {"SET_DISABLE"}, {Masked(m)})
      BY <1>1, <2>4, <2>6, AgainEach DEF Masked
    <2>8. Known(u \o MiningMask(m), B)
      BY <2>3, <2>7, Then
    <2>9. QED
      BY <2>8 DEF u, B
  <1> HIDE DEF s1, m
  <1>3. Known(s2, Listening(m))
    BY <1>1, <1>2, Listens
  <1> HIDE DEF s2
  <1>5. Goes(s2, Host("DISTRIBUTE", "full"), Listening(m), {"dist", "WRITE_NONCE"}, {Dist("full")})
    BY <1>1, <1>3, Distributes
  <1>6. Leaves(Listening(m), {"dist", "WRITE_NONCE"}, {Dist("full")}, L3)
    BY Kinds, WorkKinds DEF Leaves, Listening
  <1>7. Known(s3, L3)
    BY <1>5, <1>6, Then
  <1>8. Job(0) \in L3 /\ NUMBERED \in L3 /\ ANSWERED \in L3
    BY DEF Listening
  <1> DEFINE N == {Fact("WRITE_PARAM", 0, "vector"), Fact("WRITE_TARGET", 0, "vector"), Share(0),
                   Job(0 + 1)}
             X == JobKinds \cup {"WRITE_NONCE"}
  <1>9. Leaves(L3, X, N, W(1))
    BY Kinds, WorkKinds DEF Leaves, Listening, WorkFacts, ShareFacts, JobKinds
  <1>a. Leaves(L3, {}, {}, L3)
    BY Kinds, WorkKinds DEF Leaves, Listening
  <1> HIDE DEF s3, L3
  <1>b. Goes(s3, CheckChips, L3, {}, {})
    BY <1>7, CheckChipsGoes
  <1>c. Known(s8, L3)
    BY <1>a, <1>b, Then
  <1> HIDE DEF s8
  <1>10. Goes(s8, AddGoldenJob, L3, X, N)
    BY <1>1, <1>c, <1>8, GoldenJobGoes
  <1> HIDE DEF N, X
  <1>11. Known(s4, W(1))
    BY <1>9, <1>10, Then
  <1> HIDE DEF s4
  <1>12. Known(s5, W(2))
    <2>1. Known(s5, W(1 + 1))
      BY <1>11, NextWork
    <2>2. QED
      BY <2>1
  <1> HIDE DEF s5
  <1>13. Known(s6, W(3))
    <2>1. Known(s6, W(2 + 1))
      BY <1>12, NextWork
    <2>2. QED
      BY <2>1
  <1> HIDE DEF s6
  <1>14. Known(s7, W(4))
    <2>1. Known(s7, W(3 + 1))
      BY <1>13, NextWork
    <2>2. QED
      BY <2>1
  <1>15. Mining(r) = s7 \o Mine
    BY Zenon DEF Mining, InitializeMiningkLoop, MiningMask, s1, s2, s3, s4, s5, s6, s8, m
  <1>16. QED
    BY <1>14, <1>15 DEF Ended, m

\* TestWorkLoopRandomVector sets no PLL.
RandomFacts(n) ==
  {NUMBERED, ANSWERED, Oon(0), Masked("enable_all"), Bist(0, "enable_all"), Job(n), Dist("full"),
   Share(0), Fact("WRITE_PARAM", 0, "vector"), Fact("WRITE_TARGET", 0, "vector")}

\* One more job with random data.
LEMMA NextRandom ==
  ASSUME NEW s, NEW n \in 0 .. 3, NEW G, Known(s, G), Job(n) \in G,
         RandomFacts(n) \ {Fact("WRITE_PARAM", 0, "vector")} \subseteq G
  PROVE  Known(s \o RandomJob, RandomFacts(n + 1))
  <1> DEFINE N == {Fact("WRITE_PARAM", 0, "vector"), Job(n + 1)}
             X == {"WRITE_PARAM", "RUN_JOB"}
             L == RandomFacts(n + 1)
  <1>1. n \in 0 .. FifoDepth - 1
    BY DEF FifoDepth
  <1>2. Leaves(G, X, N, L)
    <2>1. \A f \in L : f \in N \/ (f \in RandomFacts(n) /\ f.is \notin X \cup {"top"})
      BY Kinds, WorkKinds DEF RandomFacts
    <2>2. Fact("WRITE_PARAM", 0, "vector").is \in X
      BY Kinds
    <2>3. QED
      BY <2>1, <2>2 DEF Leaves
  <1> HIDE DEF L
  <1>3. Goes(s, RandomJob, G, X, N)
    BY <1>1, RandomJobGoes
  <1> HIDE DEF N, X
  <1>4. Known(s \o RandomJob, L)
    BY <1>2, <1>3, Then
  <1>5. QED
    BY <1>4 DEF L

\* TestWorkLoop_RandomVector mines with a full FIFO.
LEMMA TestRandomMines ==
  ASSUME NEW r
  PROVE  Ended(TestWorkLoopRandomVector(r), RandomFacts(4))
  <1> DEFINE m  == "enable_all"
             V  == Fact("WRITE_TARGET", 0, "vector")
             s0 == Start \o All("RESET", "")
             s1 == s0 \o All("SET_DISABLE", m)
             s2 == s1 \o RunBist
             s3 == s2 \o Host("DISTRIBUTE", "full")
             s4 == s3 \o All("SET_CONTROL", OON)
             s5 == s4 \o All("WRITE_TARGET", "vector")
             s6 == s5 \o Each("WRITE_NONCE", "share")
             s7 == s6 \o RandomJob
             s8 == s7 \o RandomJob
             s9 == s8 \o RandomJob
             s10 == s9 \o RandomJob
             L1 == Begun \cup {Masked(m)}
             L2 == {WHOLE, NUMBERED, ANSWERED, Masked(m), Bist(0, m), Job(0)}
             L3 == L2 \cup {Dist("full")}
             L4 == L3 \cup {Oon(0)}
             L5 == L4 \cup {V}
             L6 == L5 \cup {Share(0)}
  <1>0. m \in Masks /\ "full" \in Ranges /\ 0 \in 0 .. 3 /\ "vector" \in Data
    BY DEF Masks, Ranges, Data
  <1>1. Known(s1, L1)
    BY <1>0, Begins, Masking
  <1>2. Known(s2, L2)
    <2>1. ON \in L1 /\ Fact("SET_DISABLE", 0, m) \in L1
      BY DEF Begun, Masked
    <2>2. L2 \ {Bist(0, m)} \subseteq L1
      BY DEF Begun
    <2>3. \A f \in L2 : f = Bist(0, m) \/ f.is \notin BistKinds \cup {"top"}
      BY Kinds, WorkKinds DEF BistKinds
    <2> HIDE DEF s1, L1, L2
    <2>4. PICK H : Known(s2, H) /\ Kept(L1, H, BistKinds) /\ Bist(0, m) \in H
      <3>1. {} \subseteq Addresses
        OBVIOUS
      <3>2. \E H : /\ Known(s1 \o RunBist, H) /\ Kept(L1, H, BistKinds) /\ Bist(0, m) \in H
                   /\ \A a \in {} : Fresh(a) \in H
        BY <1>1, <2>1, <3>1, RunBistGoes
      <3>3. QED
        BY <3>2
    <2>5. L2 \subseteq H
      BY <2>2, <2>3, <2>4 DEF Kept
    <2>6. QED
      BY <2>4, <2>5, KnownPart
  <1> HIDE DEF s2
  <1>3. Known(s3, L3)
    <2>1. Goes(s2, Host("DISTRIBUTE", "full"), L2, {"dist", "WRITE_NONCE"}, {Dist("full")})
      BY <1>0, <1>2, Distributes
    <2>2. Leaves(L2, {"dist", "WRITE_NONCE"}, {Dist("full")}, L3)
      BY Kinds, WorkKinds DEF Leaves
    <2>3. QED
      BY <2>1, <2>2, Then
  <1>4. Known(s4, L4)
    <2>1. WHOLE \in L3
      OBVIOUS
    <2>2. Leaves(L3, {}, {Oon(0)}, L4)
      BY Kinds, WorkKinds DEF Leaves
    <2> HIDE DEF L3, L4, s3
    <2>3. QED
      BY <1>3, <2>1, <2>2, AllListening
  <1> HIDE DEF s4
  <1>5. Known(s5, L5)
    <2>1. Goes(s4, All("WRITE_TARGET", "vector"), L4, {"WRITE_TARGET"}, {V})
      <3>1. "WRITE_TARGET" \in Plainly /\ ArgFits("WRITE_TARGET", "vector")
        BY <1>0, SeqTypes DEF Plainly
      <3> HIDE DEF L4
      <3>2. QED
        BY <1>4, <3>1, AllWrite
    <2>2. Leaves(L4, {"WRITE_TARGET"}, {V}, L5)
      BY Kinds, WorkKinds DEF Leaves
    <2> HIDE DEF L4, L5, V
    <2>3. QED
      BY <2>1, <2>2, Then
  <1> HIDE DEF s5
  <1>6. Known(s6, L6)
    <2>1. NUMBERED \in L5 /\ ANSWERED \in L5
      OBVIOUS
    <2>2. Leaves(L5, {"WRITE_NONCE"}, {Share(0)}, L6)
      BY Kinds, WorkKinds DEF Leaves
    <2> HIDE DEF L5, L6
    <2>3. Goes(s5, Each("WRITE_NONCE", "share"), L5, {"WRITE_NONCE"}, {Share(0)})
      <3>1. ArgFits("WRITE_NONCE", "share")
        BY SeqTypes
      <3>2. QED
        BY <1>5, <2>1, <3>1, EachWrite DEF Share
    <2>4. QED
      BY <2>2, <2>3, Then
  <1> HIDE DEF s6
  <1>7. Known(s7, RandomFacts(1))
    <2>1. RandomFacts(0) \ {Fact("WRITE_PARAM", 0, "vector")} \subseteq L6 /\ Job(0) \in L6
      BY DEF RandomFacts
    <2> HIDE DEF L6
    <2>2. Known(s7, RandomFacts(0 + 1))
      BY <1>0, <1>6, <2>1, NextRandom
    <2>3. QED
      BY <2>2
  <1> HIDE DEF s7
  <1>8. \A n : Job(n) \in RandomFacts(n)
    BY DEF RandomFacts
  <1>9. Known(s8, RandomFacts(2))
    <2>1. Known(s8, RandomFacts(1 + 1))
      BY <1>7, <1>8, NextRandom
    <2>2. QED
      BY <2>1
  <1> HIDE DEF s8
  <1>10. Known(s9, RandomFacts(3))
    <2>1. Known(s9, RandomFacts(2 + 1))
      BY <1>8, <1>9, NextRandom
    <2>2. QED
      BY <2>1
  <1> HIDE DEF s9
  <1>11. Known(s10, RandomFacts(4))
    <2>1. Known(s10, RandomFacts(3 + 1))
      BY <1>8, <1>10, NextRandom
    <2>2. QED
      BY <2>1
  <1>12. TestWorkLoopRandomVector(r) = s10 \o Mine
    BY Zenon DEF TestWorkLoopRandomVector, s1, s2, s3, s4, s5, s6, s7, s8, s9
  <1>13. QED
    BY <1>11, <1>12 DEF Ended

\* That is enough for TestWorkLoop_RandomVector.
LEMMA PromisedRandom ==
  ASSUME NEW r, r.test = "TestWorkLoopRandomVector", r.full, r.mask = "enable_all"
  PROVE  Promised(r, RandomFacts(4))
  <1> DEFINE G == RandomFacts(4)
  <1>1. DataOf(r) = "vector" /\ Length(r) = "full"
    BY DEF DataOf, Length
  <1>2. /\ NUMBERED \in G /\ ANSWERED \in G /\ Oon(0) \in G /\ Masked(r.mask) \in G
        /\ Bist(0, r.mask) \in G /\ Job(4) \in G
        /\ Fact("WRITE_PARAM", 0, "vector") \in G /\ Fact("WRITE_TARGET", 0, "vector") \in G
        /\ Dist("full") \in G /\ Share(0) \in G
    BY DEF RandomFacts
  <1> HIDE DEF G
  <1>3. Ranged(r, G, 0) /\ Clocked(r, G) /\ Cored(r, G)
    BY <1>1, <1>2 DEF Ranged, Clocked, Cored
  <1>4. \A a : Made(r, G, a)
    BY <1>1, <1>2, <1>3, MadeAt
  <1>5. Promised(r, G)
    BY <1>1, <1>2, <1>4 DEF Promised
  <1>6. QED
    BY <1>5 DEF G

\* TestAsic enables the interrupts from the address after its last chip on.
AsicBase == {NUMBERED, ANSWERED, ON, SANE, Job(0), Oon(1)}
Later(r) == {Oon(a) : a \in r.last + 1 .. MaxChips}
AsicFacts(r, n) ==
  {NUMBERED, ANSWERED, Oon(1), Masked(r.mask), Clock(0), Bist(0, r.mask), Job(n)} \cup Later(r)

\* TestAsic mines; the interrupt of the chips above the last one asked for is on.
LEMMA TestAsicMines ==
  ASSUME NEW r \in Calls, r.last > 0
  PROVE  Ended(TestAsic(r), AsicFacts(r, 1) \cup ShareFacts(Length(r)))
  <1> DEFINE m  == r.mask
             N  == Later(r)
             F  == ShareFacts(Length(r))
             s0 == Start \o All("RESET", "")
             s1 == s0 \o SetLast(LastOrTop, LAST_OON)
             s2 == s1 \o Each("SET_DISABLE", m)
             s3 == s2 \o SetPll \o RunBist
             s4 == s3 \o From(r.last + 1, "SET_CONTROL", OON)
             s5 == s4 \o Vector("vector") \o Shares(Length(r))
             s6 == s5 \o Jobs(1)
             L3 == Tried(AsicBase, m, {})
             L4 == AsicFacts(r, 0)
             L5 == AsicFacts(r, 0) \cup F
             L6 == AsicFacts(r, 1) \cup F
  <1>0. m \in Masks /\ Length(r) \in Ranges /\ r.last + 1 \in 2 .. MaxChips + 1
    <2>1. r.last \in 0 .. MaxChips /\ MaxChips \in Nat
      BY Bounds DEF Calls
    <2>2. r.last + 1 \in 2 .. MaxChips + 1
      BY <2>1
    <2>3. QED
      BY <2>2, CallPieces
  <1>1. Known(s1, AsicBase)
    <2> HIDE DEF s0
    <2>1. Known(s0, Begun) /\ Begun \subseteq Begun
      BY Begins DEF s0
    <2>2. PICK H : Known(s1, H) /\ {NUMBERED, ANSWERED, ON, SANE, Job(0), Oon(1)} \subseteq H
      BY <2>1, EndsAtTop
    <2>3. AsicBase \subseteq H
      BY <2>2 DEF AsicBase
    <2>4. QED
      BY <2>2, <2>3, KnownPart
  <1> HIDE DEF s1
  <1>2. Basic(AsicBase)
    BY Kinds DEF AsicBase, Basic, BistKinds
  <1>3. Known(s2, AsicBase \cup {Masked(m)})
    BY <1>0, <1>1, <1>2, Masking
  <1> HIDE DEF s2, m
  <1>4. Known(s3, L3)
    BY <1>2, <1>3, Trying
  <1>5. NUMBERED \in L3 /\ ANSWERED \in L3
    BY DEF Tried, AsicBase
  <1>n. \A f \in N : f.is = "SET_CONTROL"
    BY Kinds DEF Later
  <1>f. \A f \in F : f.is \in ShareKinds
    BY WorkKinds
  <1>6. Leaves(L3, {}, N, L4)
    BY Kinds, WorkKinds DEF Leaves, Tried, AsicBase, AsicFacts, m
  <1>7. \A f \in L4 : f.is \notin ShareKinds \cup {"top"}
    BY <1>n, Kinds, WorkKinds DEF AsicFacts, ShareKinds
  <1>8. Leaves(L4, ShareKinds, F, L5)
    BY <1>7 DEF Leaves
  <1>9. Leaves(L5, {"RUN_JOB"}, {Job(1)}, L6)
    BY <1>n, <1>f, Kinds, WorkKinds DEF Leaves, AsicFacts, ShareKinds
  <1>10. NUMBERED \in L4 /\ ANSWERED \in L4 /\ Job(0) \in L5
    BY DEF AsicFacts
  <1> HIDE DEF s3, L3, L4, N
  <1>11. Goes(s3, From(r.last + 1, "SET_CONTROL", OON), L3, {}, N)
    BY <1>0, <1>4, <1>5, FromOon DEF N, Later
  <1>12. Known(s4, L4)
    BY <1>6, <1>11, Then
  <1> HIDE DEF s4, L5
  <1>13. Known(s5, L5)
    BY <1>0, <1>8, <1>10, <1>12, SharedOut
  <1> HIDE DEF s5, L6
  <1>14. Goes(s5, Jobs(1), L5, {"RUN_JOB"}, {Job(1)})
    BY <1>10, <1>13, FirstJob
  <1>15. Known(s6, L6)
    BY <1>9, <1>14, Then
  <1>16. TestAsic(r) = s6 \o Mine
    BY Zenon DEF TestAsic, s1, s2, s3, s4, s5, m
  <1>17. QED
    BY <1>15, <1>16 DEF Ended, L6

\* That is enough for TestAsic.
LEMMA PromisedAsic ==
  ASSUME NEW r \in Calls, r.test = "TestAsic"
  PROVE  Promised(r, AsicFacts(r, 1) \cup ShareFacts(Length(r)))
  <1> DEFINE G == AsicFacts(r, 1) \cup ShareFacts(Length(r))
  <1>1. DataOf(r) = "vector"
    BY DEF DataOf
  <1>2. /\ NUMBERED \in G /\ ANSWERED \in G /\ Oon(1) \in G /\ Masked(r.mask) \in G
        /\ Clock(0) \in G /\ Bist(0, r.mask) \in G /\ Job(1) \in G
        /\ Fact("WRITE_PARAM", 0, "vector") \in G /\ Fact("WRITE_TARGET", 0, "vector") \in G
        /\ Dist(Length(r)) \in G /\ Share(0) \in G
    BY DEF AsicFacts, ShareFacts
  <1>3. \A a \in r.last + 1 .. MaxChips : Oon(a) \in G
    BY DEF AsicFacts, Later
  <1> HIDE DEF G
  <1>4. Ranged(r, G, 0) /\ Clocked(r, G) /\ Cored(r, G)
    BY <1>1, <1>2 DEF Ranged, Clocked, Cored
  <1>5. \A a : Oon(a) \in G => Made(r, G, a)
    BY <1>1, <1>2, <1>4, MadeAt
  <1>6. ASSUME NEW a \in Addresses PROVE Oon(a) \in G \/ a \in 2 .. r.last
    <2>1. r.last \in Int /\ MaxChips \in Int /\ a \in 1 .. MaxChips
      BY Bounds DEF Calls, Addresses
    <2>2. a = 1 \/ a \in r.last + 1 .. MaxChips \/ a \in 2 .. r.last
      BY <2>1
    <2>3. QED
      BY <1>2, <1>3, <2>2
  <1>7. Promised(r, G)
    BY <1>2, <1>5, <1>6 DEF Promised
  <1>8. QED
    BY <1>7 DEF G

\* The Frequency Test, whose counts are judged and still those of the chips.
FreqBase == Begun \cup {Oon(1)}
Counts == {Fresh(a) : a \in Addresses}
FreqFacts(r, n) ==
  {WHOLE, NUMBERED, ANSWERED, SANE, Checked("sum"), Masked(r.mask), Clock(0), Bist(0, r.mask),
   Job(n)} \cup {Oon(a) : a \in Addresses} \cup Counts
FreqData(r) ==
  {Fact("WRITE_PARAM", 0, "vector"), Fact("WRITE_TARGET", 0, "vector")}
  \cup IF r.same THEN {} ELSE {Dist(Length(r)), Share(0)}

\* TestWorkLoop_Freq mines with a full FIFO.
LEMMA TestFreqMines ==
  ASSUME NEW r \in Calls
  PROVE  Ended(TestWorkLoopFreq(r), FreqFacts(r, 4) \cup FreqData(r))
  <1> DEFINE m  == r.mask
             N  == {Oon(a) : a \in 2 .. MaxChips}
             V  == {Fact("WRITE_PARAM", 0, "vector"), Fact("WRITE_TARGET", 0, "vector")}
             F  == FreqData(r)
             x  == IF r.full THEN "full" ELSE "full_to_small"
             s0 == Start \o All("RESET", "")
             s1 == s0 \o SetLast(1, LAST_OON)
             s2 == s1 \o Each("SET_DISABLE", m)
             s3 == s2 \o SetPll \o RunBist
             s4 == s3 \o Host("CHECK_CORES", "sum")
             s5 == s4 \o From(2, "SET_CONTROL", OON)
             d  == IF r.same THEN Each("WRITE_NONCE", x) ELSE Shares(Length(r))
             s6 == s5 \o Vector("vector") \o d
             s7 == s6 \o Jobs(FifoDepth)
             L3 == Tried(FreqBase, m, Addresses)
             L4 == L3 \cup {Checked("sum")}
             L5 == FreqFacts(r, 0)
             L6 == FreqFacts(r, 0) \cup F
             L7 == FreqFacts(r, 4) \cup F
  <1>0. m \in Masks /\ Length(r) \in Ranges /\ 2 \in 2 .. MaxChips + 1 /\ x \in Ranges
    BY CallPieces, Bounds DEF Ranges
  <1>1. Known(s1, FreqBase)
    <2>1. Known(s0, Begun) /\ NUMBERED \in Begun /\ ANSWERED \in Begun
      BY Begins DEF Begun
    <2>2. LAST_OON \in {LAST, LAST_OON}
      OBVIOUS
    <2> HIDE DEF s0
    <2>3. PICK H : /\ Known(s1, H) /\ Kept(Begun, H, {"SET_CONTROL", "dist", "checked", "fresh"})
                   /\ Oon(1) \in H
      <3>1. \A control \in {LAST, LAST_OON} :
              \E H : /\ Known(s0 \o SetLast(1, control), H)
                     /\ Kept(Begun, H, {"SET_CONTROL", "dist", "checked", "fresh"})
                     /\ control = LAST_OON => Oon(1) \in H
        BY <2>1, EndsFirst
      <3>2. QED
        BY <2>2, <3>1
    <2>4. \A f \in Begun : f.is \notin {"SET_CONTROL", "dist", "checked", "fresh", "top"}
      BY Kinds DEF Begun
    <2>5. FreqBase \subseteq H
      BY <2>3, <2>4 DEF Kept, FreqBase
    <2>6. QED
      BY <2>3, <2>5, KnownPart
  <1> HIDE DEF s1
  <1>2. Basic(FreqBase) /\ WHOLE \in FreqBase
    BY Kinds DEF FreqBase, Begun, Basic, BistKinds
  <1>3. Known(s2, FreqBase \cup {Masked(m)})
    BY <1>0, <1>1, <1>2, Masking
  <1> HIDE DEF s2, m
  <1>4. Known(s3, L3)
    BY <1>2, <1>3, Trying
  <1> HIDE DEF s3
  <1>c. \A f \in Counts : f.is = "fresh"
    BY Kinds DEF Counts
  <1>5. Known(s4, L4)
    <2>1. Goes(s3, Host("CHECK_CORES", "sum"), L3, {}, {Checked("sum")})
      <3> HIDE DEF L3
      <3>1. QED
        BY <1>4, ChecksCores
    <2>2. Leaves(L3, {}, {Checked("sum")}, L4)
      BY Kinds, WorkKinds DEF Leaves, Tried, FreqBase, Begun
    <2> HIDE DEF L3, L4
    <2>3. QED
      BY <2>1, <2>2, Then
  <1> HIDE DEF s4
  <1>n. \A f \in N : f.is = "SET_CONTROL"
    BY Kinds
  <1>6. Known(s5, L5)
    <2>1. NUMBERED \in L4 /\ ANSWERED \in L4
      BY DEF Tried, FreqBase, Begun
    <2>2. \A a \in Addresses : Oon(a) \in N \/ a = 1
      <3>1. MaxChips \in Nat
        BY Bounds
      <3>2. \A a \in Addresses : a \in 2 .. MaxChips \/ a = 1
        BY <3>1 DEF Addresses
      <3>3. QED
        BY <3>2
    <2>3. \A f \in L4 : f.is # "top"
      BY <1>c, Kinds, WorkKinds DEF Tried, FreqBase, Begun
    <2>4. L5 \subseteq L4 \cup N
      BY <2>2 DEF FreqFacts, Tried, FreqBase, Begun, Counts, m
    <2>5. Leaves(L4, {}, N, L5)
      BY <2>3, <2>4 DEF Leaves
    <2> HIDE DEF L4, L5, N
    <2>6. Goes(s4, From(2, "SET_CONTROL", OON), L4, {}, N)
      BY <1>0, <1>5, <2>1, FromOon DEF N
    <2>7. QED
      BY <2>5, <2>6, Then
  <1> HIDE DEF s5, N
  <1>7. \A n : \A f \in FreqFacts(r, n) : f.is \notin ShareKinds \cup {"top"}
    BY <1>c, Kinds, WorkKinds DEF FreqFacts, ShareKinds
  <1>f. \A f \in F : f.is \in ShareKinds
    BY Kinds, WorkKinds DEF FreqData, ShareKinds
  <1>8. NUMBERED \in L5 /\ ANSWERED \in L5
    BY DEF FreqFacts
  <1>9. Known(s6, L6)
    <2>1. CASE r.same
      <3> DEFINE X == {"WRITE_PARAM", "WRITE_TARGET"}
                 Y == {"WRITE_NONCE"}
                 M == {Fact("WRITE_NONCE", 0, x)}
                 u == s5 \o Vector("vector")
      <3>1. d = Each("WRITE_NONCE", x) /\ F = V
        BY <2>1 DEF FreqData
      <3>2. \A f \in V : f.is \in X
        BY Kinds
      <3>3. Leaves(L5, X, V, L6)
        BY <1>7, <3>1 DEF Leaves, ShareKinds
      <3>4. Leaves(L6, Y, M, L6)
        BY <1>7, <3>1, <3>2 DEF Leaves, ShareKinds
      <3>5. NUMBERED \in L6 /\ ANSWERED \in L6 /\ ArgFits("WRITE_NONCE", x) /\ "vector" \in Data
        BY <1>0, <1>8, SeqTypes DEF Data
      <3> HIDE DEF L5, L6, d, x
      <3>6. Goes(s5, Vector("vector"), L5, X, V)
        BY <1>6, <3>5, VectorGoes
      <3> HIDE DEF V, X
      <3>7. Known(u, L6)
        BY <3>3, <3>6, Then
      <3> HIDE DEF u
      <3>8. Goes(u, Each("WRITE_NONCE", x), L6, Y, M)
        BY <3>5, <3>7, EachWrite
      <3> HIDE DEF Y, M
      <3>9. Known(u \o Each("WRITE_NONCE", x), L6)
        BY <3>4, <3>8, Then
      <3>10. QED
        BY <3>1, <3>9 DEF u
    <2>2. CASE ~r.same
      <3>1. d = Shares(Length(r)) /\ F = ShareFacts(Length(r))
        BY <2>2 DEF FreqData, ShareFacts
      <3>2. Leaves(L5, ShareKinds, ShareFacts(Length(r)), L6)
        BY <1>7, <3>1 DEF Leaves
      <3> HIDE DEF L5, L6, d
      <3>3. Known(s5 \o Vector("vector") \o Shares(Length(r)), L6)
        BY <1>0, <1>6, <1>8, <3>2, SharedOut
      <3>4. QED
        BY <3>1, <3>3
    <2>3. QED
      BY <2>1, <2>2
  <1> HIDE DEF s6, d, V
  <1>10. Leaves(L6, {"RUN_JOB"}, {Job(4)}, L7)
    <2>1. \A f \in FreqFacts(r, 4) : f = Job(4) \/ (f \in FreqFacts(r, 0) /\ f.is # "RUN_JOB")
      BY <1>c, Kinds, WorkKinds DEF FreqFacts
    <2>2. QED
      BY <1>7, <1>f, <2>1 DEF Leaves, ShareKinds
  <1>11. Job(0) \in L6
    BY DEF FreqFacts
  <1> HIDE DEF L6, L7
  <1>12. Goes(s6, Jobs(FifoDepth), L6, {"RUN_JOB"}, {Job(4)})
    BY <1>9, <1>11, JobsGoes
  <1>13. Known(s7, L7)
    BY <1>10, <1>12, Then
  <1>14. TestWorkLoopFreq(r) = s7 \o Mine
    BY Zenon DEF TestWorkLoopFreq, s1, s2, s3, s4, s5, s6, m, d
  <1>15. QED
    BY <1>13, <1>14 DEF Ended, L7

\* That is enough for TestWorkLoop_Freq.
LEMMA PromisedFreq ==
  ASSUME NEW r \in Calls, r.test = "TestWorkLoopFreq"
  PROVE  Promised(r, FreqFacts(r, 4) \cup FreqData(r))
  <1> DEFINE G == FreqFacts(r, 4) \cup FreqData(r)
  <1>1. DataOf(r) = "vector"
    BY DEF DataOf
  <1>2. /\ NUMBERED \in G /\ ANSWERED \in G /\ Masked(r.mask) \in G
        /\ Clock(0) \in G /\ Bist(0, r.mask) \in G /\ Job(4) \in G
        /\ Fact("WRITE_PARAM", 0, "vector") \in G /\ Fact("WRITE_TARGET", 0, "vector") \in G
        /\ ~r.same => Dist(Length(r)) \in G /\ Share(0) \in G
        /\ WHOLE \in G /\ SANE \in G /\ Checked("sum") \in G
    BY DEF FreqFacts, FreqData
  <1>3. \A a \in Addresses : Oon(a) \in G /\ Fresh(a) \in G
    BY DEF FreqFacts, Counts
  <1> HIDE DEF G
  <1>4. Ranged(r, G, 0) /\ Clocked(r, G) /\ Cored(r, G)
    BY <1>1, <1>2 DEF Ranged, Clocked, Cored
  <1>5. \A a : Oon(a) \in G => Made(r, G, a)
    BY <1>1, <1>2, <1>4, MadeAt
  <1>6. Judging(G, "sum")
    BY <1>2, <1>3 DEF Judging
  <1>7. Promised(r, G)
    BY <1>2, <1>3, <1>5, <1>6 DEF Promised
  <1>8. QED
    BY <1>7 DEF G

\* The jobs that the tests of SingleCommand.c end with.
RunKinds == {"WRITE_PARAM", "WRITE_TARGET", "WRITE_NONCE", "RUN_JOB"}
GoldenData == {Fact("WRITE_PARAM", 0, "golden"), Fact("WRITE_TARGET", 0, "golden")}
RunFacts(r) == GoldenData \cup {Fact("WRITE_NONCE", 0, Length(r)), Job(4)}

\* A program in three parts, the last of them END.
LEMMA EndedAfter ==
  ASSUME NEW s, NEW t \in Seq(Steps), NEW L, s \in Seq(Steps), Known(s \o t, L)
  PROVE  Ended(s \o (t \o Mine), L)
  <1> DEFINE S == Steps \cup {Command("END", 0, -1, "mining")}
  <1>1. s \in Seq(S) /\ t \in Seq(S) /\ Mine \in Seq(S)
    <2>1. Mine \in Seq(S)
      BY DEF Mine, Host, All, Step
    <2>2. \A v \in Seq(Steps) : v \in Seq(S)
      OBVIOUS
    <2>3. QED
      BY <2>1, <2>2
  <1> HIDE DEF S
  <1>2. \A x, y, z \in Seq(S) : x \o (y \o z) = (x \o y) \o z
    BY SMTT(30), ConcatAssociative
  <1>3. s \o (t \o Mine) = (s \o t) \o Mine
    BY Zenon, <1>1, <1>2
  <1>4. QED
    BY <1>3 DEF Ended

\* RunJob of SingleCommand.c, which fills the FIFO of each chip.
LEMMA RunsJob ==
  ASSUME NEW s, NEW G, Known(s, G), NUMBERED \in G, ANSWERED \in G, Job(0) \in G,
         NEW r \in Calls, NEW L, Leaves(G, RunKinds, RunFacts(r), L)
  PROVE  Ended(s \o RunJob(r), L)
  <1> DEFINE X1 == {"WRITE_PARAM", "WRITE_TARGET"}
             N1 == GoldenData
             H1 == {f \in G : f.is \notin X1 \cup {"top"}} \cup N1
             X2 == {"WRITE_NONCE"}
             N2 == {Fact("WRITE_NONCE", 0, Length(r))}
             H2 == {f \in H1 : f.is \notin X2 \cup {"top"}} \cup N2
             X3 == {"RUN_JOB"}
             N3 == {Job(4)}
             v == Vector("golden")
             e == Each("WRITE_NONCE", Length(r))
             j == Jobs(FifoDepth)
  <1>0. /\ "golden" \in Data /\ Length(r) \in Ranges /\ ArgFits("WRITE_NONCE", Length(r))
        /\ s \in Seq(Steps)
    BY CallPieces, SeqTypes DEF Known
  <1>1. v \in Seq(Steps) /\ Goes(s, v, G, X1, N1)
    BY <1>0, VectorGoes DEF GoldenData
  <1>2. Leaves(G, X1, N1, H1)
    BY DEF Leaves
  <1>3. \A f \in N1 : f.is \in X1
    BY Kinds DEF GoldenData
  <1>4. NUMBERED \in H1 /\ ANSWERED \in H1 /\ Job(0) \in H1
    BY Kinds
  <1>5. Leaves(H1, X2, N2, H2)
    BY DEF Leaves
  <1>6. Job(0) \in H2
    BY <1>4, Kinds
  <1>7. Leaves(H2, X3, N3, L)
    <2>1. ASSUME NEW f \in L PROVE f \in N3 \/ (f \in H2 /\ f.is \notin X3 \cup {"top"})
      <3>1. f \in RunFacts(r) \/ (f \in G /\ f.is \notin RunKinds \cup {"top"})
        BY DEF Leaves
      <3>2. f \in RunFacts(r) => f \in N1 \/ f \in N2 \/ f \in N3
        BY DEF RunFacts
      <3>3. f \in G /\ f.is \notin RunKinds \cup {"top"} => f \in H2 /\ f.is \notin X3 \cup {"top"}
        BY DEF RunKinds
      <3>4. f \in N1 => f \in H2 /\ f.is \notin X3 \cup {"top"}
        BY <1>3
      <3>5. f \in N2 => f \in H2 /\ f.is \notin X3 \cup {"top"}
        BY Kinds
      <3>6. QED
        BY <3>1, <3>2, <3>3, <3>4, <3>5
    <2>2. QED
      BY <2>1 DEF Leaves
  <1> HIDE DEF X1, N1, H1, v
  <1>8. Known(s \o v, H1)
    BY <1>1, <1>2, Then
  <1> DEFINE u == s \o v
  <1>9. Known(u, H1)
    BY <1>8
  <1> HIDE DEF u
  <1>10. e \in Seq(Steps) /\ Goes(u, e, H1, X2, N2)
    BY <1>0, <1>4, <1>9, EachWrite, SeqTypes
  <1> HIDE DEF X2, N2, H2, e
  <1>11. Known(u \o e, H2)
    BY <1>5, <1>10, Then
  <1> DEFINE w == u \o e
  <1>12. Known(w, H2)
    BY <1>11
  <1> HIDE DEF w
  <1>13. j \in Seq(Steps) /\ Goes(w, j, H2, X3, N3)
    BY <1>6, <1>12, JobsGoes
  <1> HIDE DEF X3, N3, j
  <1>14. Known(w \o j, L)
    BY <1>7, <1>13, Then
  <1>15. Known(s \o v \o e \o j, L)
    BY <1>14 DEF w, u
  <1>16. Grouped(s, v, e, j)
    BY <1>0, <1>1, <1>10, <1>13, Regroup
  <1>17. v \o e \o j \in Seq(Steps) /\ Known(s \o (v \o e \o j), L)
    BY <1>15, <1>16, Zenon DEF Grouped
  <1>18. Ended(s \o ((v \o e \o j) \o Mine), L)
    BY <1>0, <1>17, EndedAfter
  <1>19. RunJob(r) = (v \o e \o j) \o Mine
    BY Zenon DEF RunJob, v, e, j
  <1>20. QED
    BY <1>18, <1>19, Zenon

\* Facts about registers of all chips, which is what remains when chips are cut off.
LEMMA Remaining ==
  /\ Remains(Oon(0)) /\ Remains(Job(0)) /\ \A mask : Remains(Masked(mask)) /\ Remains(Bist(0, mask))
  /\ \A mask : Remains(Fact("WRITE_CORE_CFG", 0, mask))
  /\ \A f \in GoldenFacts : Remains(f)
  <1> DEFINE K == {"SET_CONTROL", "RUN_JOB", "SET_DISABLE", "RUN_BIST", "WRITE_CORE_CFG"}
  <1>1. \A is \in K : \A arg : Remains(Fact(is, 0, arg))
    BY Kinds DEF Remains, IsShare
  <1>2. \A f \in GoldenFacts : Remains(f)
    BY Kinds DEF Remains, IsShare, GoldenFacts
  <1>3. QED
    BY <1>1, <1>2 DEF Oon, Job, Masked, Bist

\* Fault chips are cut off, if there are any, and the chain ends at chip 1 from then on.
LEMMA CutAndLast ==
  ASSUME NEW s, NEW G, Known(s, G), NUMBERED \in G, ANSWERED \in G, NEW r \in Calls,
         NEW R, R \subseteq G, \A f \in R : Remains(f), Clock(0) \in G,
         NEW D, r.fault = 0 => D \subseteq G, r.fault > 0 => D \subseteq {Unclocked},
         \A f \in D : f.is # "top"
  PROVE  Known(s \o CutFaultChips(r), R \cup {NUMBERED, ANSWERED} \cup D)
         /\ Known(s \o CutFaultChips(r) \o One(1, "SET_CONTROL", LAST_OON),
                  R \cup {NUMBERED, ANSWERED} \cup D)
  <1> DEFINE L == R \cup {NUMBERED, ANSWERED} \cup D
             u == s \o CutFaultChips(r)
  <1>1. r.fault = 0 \/ r.fault > 0
    BY Bounds DEF Calls
  <1>2. /\ r.fault = 0 => u = s
        /\ r.fault > 0 => AfterCut(s, CutFaultChips(r), G, R)
    BY FaultsCut
  <1> HIDE DEF u
  <1>3. Known(u, L)
    <2>1. CASE r.fault = 0
      <3>1. L \subseteq G
        BY <2>1
      <3>2. QED
        BY <1>2, <2>1, <3>1, KnownPart
    <2>2. CASE r.fault > 0
      <3>1. PICK H : /\ Known(u, H) /\ R \cup {NUMBERED, ANSWERED} \subseteq H
                     /\ Unclocked \in H
        BY <1>2, <2>2 DEF AfterCut, u
      <3>2. L \subseteq H
        BY <2>2, <3>1
      <3>3. QED
        BY <3>1, <3>2, KnownPart
    <2>3. QED
      BY <1>1, <2>1, <2>2
  <1>4. NUMBERED \in L /\ ANSWERED \in L
    OBVIOUS
  <1>5. \A f \in L : f.is # "top"
    BY Kinds DEF Remains
  <1> HIDE DEF L
  <1> DEFINE t == Step("SET_CONTROL", 1, -1, LAST_OON)
             X == IF LAST_OON = LAST_OON THEN {} ELSE {"SET_CONTROL"}
  <1>6. Goes(u, t, L, X, {})
    <2>1. \A need \in {-1, 1}, control \in {LAST, LAST_OON} :
            Goes(u, Step("SET_CONTROL", 1, need, control), L,
                 IF control = LAST_OON THEN {} ELSE {"SET_CONTROL"}, {})
      BY <1>3, <1>4, FirstLast
    <2>2. -1 \in {-1, 1} /\ LAST_OON \in {LAST, LAST_OON}
      OBVIOUS
    <2>3. QED
      BY <2>1, <2>2
  <1>7. Leaves(L, X, {}, L)
    BY <1>5 DEF Leaves
  <1> HIDE DEF X, t
  <1>8. Known(u \o t, L)
    BY <1>6, <1>7, Then
  <1>9. One(1, "SET_CONTROL", LAST_OON) = t
    BY DEF One, t
  <1>10. QED
    BY <1>3, <1>8, <1>9 DEF u, L

\* BIST as the tests of SingleCommand.c run it.
GoldenBase(mask) == Begun \cup {Clock(0), Masked(mask), Bist(0, mask)} \cup GoldenFacts \cup Counts

\* The start and the clocks of the tests of SingleCommand.c.
LEMMA StartPll ==
  Known(Start \o SetPll, Begun \cup {Clock(0)})
  <1> DEFINE N == {Clock(0)}
             L == Begun \cup N
  <1>1. Known(Start, Begun) /\ NUMBERED \in Begun /\ ANSWERED \in Begun
    BY Begins DEF Begun
  <1>2. Leaves(Begun, {"fresh"}, N, L)
    BY Kinds DEF Leaves, Begun
  <1> HIDE DEF L
  <1>3. Goes(Start, SetPll, Begun, {"fresh"}, N)
    BY <1>1, SetPllGoes
  <1>4. Known(Start \o SetPll, L)
    BY <1>2, <1>3, Then
  <1>5. QED
    BY <1>4 DEF L

\* BIST with the golden data and a mask, as the tests of SingleCommand.c run it.
LEMMA GoldenBist ==
  ASSUME NEW mask \in Masks, NEW d \in {All("SET_DISABLE", mask), Each("SET_DISABLE", mask)}
  PROVE  Known(Start \o SetPll \o GoldenNonce \o d \o All("RUN_BIST", "") \o ReadBist,
               GoldenBase(mask))
  <1> DEFINE s1 == Start \o SetPll
             s2 == s1 \o GoldenNonce
             s3 == s2 \o d
             L1 == Begun \cup {Clock(0)}
             L2 == L1 \cup GoldenFacts
             L3 == L2 \cup {Masked(mask)}
             X == {"RUN_BIST", "WRITE_CORE_CFG", "checked", "fresh"}
  <1>1. Known(s1, L1)
    BY StartPll
  <1> HIDE DEF s1
  <1>2. \A f \in L1 : f.is \notin GoldenKinds \cup {"SET_DISABLE", "top"} \cup X
    BY Kinds DEF Begun, GoldenKinds
  <1>3. \A f \in GoldenFacts : f.is \in GoldenKinds
    BY Kinds DEF GoldenKinds, GoldenFacts
  <1>4. Leaves(L1, GoldenKinds, GoldenFacts, L2)
    BY <1>2 DEF Leaves
  <1>5. Known(s2, L2)
    <2> HIDE DEF L1, L2
    <2>1. Goes(s1, GoldenNonce, L1, GoldenKinds, GoldenFacts)
      BY <1>1, GoldenNonceGoes
    <2>2. QED
      BY <1>4, <2>1, Then
  <1> HIDE DEF s2
  <1>6. \A f \in L2 : f.is \notin {"SET_DISABLE", "top"} \cup X
    BY <1>2, <1>3 DEF GoldenKinds
  <1>7. /\ NUMBERED \in L2 /\ ANSWERED \in L2 /\ ON \in L3
        /\ WHOLE \in L3 /\ NUMBERED \in L3
        /\ GoldenIn(L3, 0) /\ Fact("SET_DISABLE", 0, mask) \in L3
    BY DEF Begun, GoldenIn, GoldenFacts, Masked
  <1>8. Known(s3, L3)
    <2> HIDE DEF L2
    <2>1. \A f \in L2 : f.is \notin {"SET_DISABLE", "top"}
      BY <1>6
    <2>2. /\ Known(s2 \o All("SET_DISABLE", mask), L3)
          /\ Known(s2 \o Each("SET_DISABLE", mask), L3)
      BY <1>5, <1>7, <2>1, MaskingMore
    <2>3. QED
      BY <2>2
  <1>9. \A f \in L3 : f.is \notin X \cup {"top"}
    BY <1>6, WorkKinds
  <1> HIDE DEF s3
  <1>10. PICK H : /\ Known(s3 \o All("RUN_BIST", "") \o ReadBist, H) /\ Kept(L3, H, X)
                  /\ Bist(0, mask) \in H /\ \A a \in Addresses : Fresh(a) \in H
    <2> HIDE DEF L3
    <2>1. \A W : W \subseteq Addresses =>
             \E H : /\ Known(s3 \o All("RUN_BIST", "") \o ReadBist, H) /\ Kept(L3, H, X)
                    /\ Bist(0, mask) \in H /\ \A a \in W : Fresh(a) \in H
      BY <1>7, <1>8, BistGoes
    <2>2. QED
      BY <2>1
  <1>11. L3 \subseteq H
    <2> HIDE DEF L3, X
    <2>1. QED
      BY <1>9, <1>10 DEF Kept
  <1>12. GoldenBase(mask) \subseteq H
    BY <1>10, <1>11 DEF GoldenBase, Counts
  <1>13. Known(s3 \o All("RUN_BIST", "") \o ReadBist, GoldenBase(mask))
    BY <1>10, <1>12, KnownPart
  <1>14. QED
    BY <1>13 DEF s3, s2, s1

\* What the fault chips leave of it.
Spared(r) == IF r.fault = 0 THEN {WHOLE, SANE, Clock(0)} \cup Counts ELSE {Unclocked}
DisableFacts(r) ==
  {NUMBERED, ANSWERED, Oon(0), Masked(r.mask), Bist(0, r.mask), Checked("each")} \cup Spared(r)

\* TestDisableCore mines with the mask it was given.
LEMMA TestDisableMines ==
  ASSUME NEW r \in Calls
  PROVE  Ended(TestDisableCore(r), DisableFacts(r) \cup RunFacts(r))
  <1> DEFINE m  == r.mask
             s3 == Start \o SetPll \o GoldenNonce \o Each("SET_DISABLE", m) \o All("RUN_BIST", "")
                   \o ReadBist
             s4 == s3 \o All("SET_CONTROL", OON)
             s5 == s4 \o CutFaultChips(r) \o One(1, "SET_CONTROL", LAST_OON)
             s6 == s5 \o Host("CHECK_CORES", "each")
             L4 == GoldenBase(m) \cup {Oon(0)}
             R  == {Oon(0), Masked(m), Bist(0, m), Job(0)}
             D  == Spared(r)
             L5 == R \cup {NUMBERED, ANSWERED} \cup D
             L6 == L5 \cup {Checked("each")}
             L  == DisableFacts(r) \cup RunFacts(r)
  <1>0. m \in Masks /\ WHOLE \in GoldenBase(m)
    BY CallPieces DEF GoldenBase, Begun
  <1>1. Known(s3, GoldenBase(m))
    BY <1>0, GoldenBist
  <1> HIDE DEF s3, m
  <1>c. \A f \in Counts : f.is = "fresh"
    BY Kinds DEF Counts
  <1>2. Leaves(GoldenBase(m), {}, {Oon(0)}, L4)
    BY <1>c, Kinds, WorkKinds DEF Leaves, GoldenBase, Begun, GoldenFacts
  <1>3. /\ NUMBERED \in L4 /\ ANSWERED \in L4 /\ R \subseteq L4 /\ Clock(0) \in L4
        /\ r.fault = 0 => D \subseteq L4
    BY DEF GoldenBase, Begun, Spared, Counts
  <1>4. r.fault > 0 => D \subseteq {Unclocked}
    BY DEF Spared
  <1>5. /\ \A f \in R : Remains(f)
        /\ \A f \in D : f.is \notin {"top", "RUN_JOB", "SET_CONTROL", "checked"} \cup RunKinds
    <2>1. \A f \in R : Remains(f)
      BY Remaining
    <2>2. \A f \in D : f.is \notin {"top", "RUN_JOB", "SET_CONTROL", "checked"} \cup RunKinds
      BY <1>c, Kinds DEF Spared, RunKinds
    <2>3. QED
      BY <2>1, <2>2
  <1>6. Leaves(L5, {}, {Checked("each")}, L6)
    BY <1>5, Kinds, WorkKinds DEF Leaves, RunKinds
  <1>7. NUMBERED \in L6 /\ ANSWERED \in L6 /\ Job(0) \in L6
    OBVIOUS
  <1>8. Leaves(L6, RunKinds, RunFacts(r), L)
    BY <1>5, Kinds, WorkKinds DEF Leaves, DisableFacts, m, RunKinds
  <1>9. Known(s4, L4)
    <2> HIDE DEF L4
    <2>1. QED
      BY <1>0, <1>1, <1>2, AllListening
  <1> HIDE DEF s4, L4, R, D
  <1>10. Known(s5, L5)
    <2>1. \A f \in D : f.is # "top"
      BY <1>5
    <2>2. QED
      BY <1>3, <1>4, <1>5, <1>9, <2>1, CutAndLast
  <1> HIDE DEF s5, L5
  <1>11. Known(s6, L6)
    <2>1. Goes(s5, Host("CHECK_CORES", "each"), L5, {}, {Checked("each")})
      BY <1>10, ChecksCores
    <2> HIDE DEF L6
    <2>2. QED
      BY <1>6, <2>1, Then
  <1> HIDE DEF s6, L6, L
  <1>12. Ended(s6 \o RunJob(r), L)
    BY <1>7, <1>8, <1>11, RunsJob
  <1>13. TestDisableCore(r) = s6 \o RunJob(r)
    BY Zenon DEF TestDisableCore, s3, s4, s5, s6, m
  <1>14. QED
    BY <1>12, <1>13, Zenon DEF L

\* RunJob has written what a chip needs, given its mask, its clock and its cores.
LEMMA RunFactsIn ==
  ASSUME NEW r, r.test \in {"TestLastChip", "TestDisableCore", "TestMiningWithoutBist"},
         NEW G, RunFacts(r) \subseteq G, Oon(0) \in G, Masked(r.mask) \in G, Clocked(r, G),
         Cored(r, G)
  PROVE  \A a : Made(r, G, a)
  <1>1. DataOf(r) = "golden"
    BY DEF DataOf
  <1>2. /\ Fact("WRITE_PARAM", 0, "golden") \in G /\ Fact("WRITE_TARGET", 0, "golden") \in G
        /\ Fact("WRITE_NONCE", 0, Length(r)) \in G /\ Job(4) \in G
    BY DEF RunFacts, GoldenData
  <1>3. Ranged(r, G, 0)
    BY <1>2 DEF Ranged, InAt
  <1>4. QED
    BY <1>1, <1>2, <1>3, MadeAt

\* That is enough for TestDisableCore.
LEMMA PromisedDisable ==
  ASSUME NEW r \in Calls, r.test = "TestDisableCore"
  PROVE  Promised(r, DisableFacts(r) \cup RunFacts(r))
  <1> DEFINE G == DisableFacts(r) \cup RunFacts(r)
  <1>1. /\ NUMBERED \in G /\ ANSWERED \in G /\ Oon(0) \in G /\ Masked(r.mask) \in G
        /\ Bist(0, r.mask) \in G /\ Checked("each") \in G /\ RunFacts(r) \subseteq G
        /\ Spared(r) \subseteq G
    BY DEF DisableFacts
  <1> HIDE DEF G
  <1>2. r.fault = 0 \/ r.fault > 0
    BY Bounds DEF Calls
  <1>3. Clocked(r, G) /\ Cored(r, G)
    BY <1>1, <1>2 DEF Clocked, Cored, Spared
  <1>4. \A a : Made(r, G, a)
    BY <1>1, <1>3, RunFactsIn
  <1>5. r.fault = 0 => Judging(G, "each")
    BY <1>1 DEF Judging, Spared, Counts
  <1>6. Promised(r, G)
    BY <1>1, <1>4, <1>5 DEF Promised, Sharing
  <1>7. QED
    BY <1>6 DEF G

\* The test that tells the chips their cores instead of BIST.
CfgSpared(r) == IF r.fault = 0 THEN {Clock(0)} ELSE {Unclocked}
CfgFacts(r) ==
  {NUMBERED, ANSWERED, Oon(0), Masked(r.mask), Fact("WRITE_CORE_CFG", 0, r.mask)}
  \cup CfgSpared(r)

\* TestMiningWithoutBist mines with the cores it wrote itself.
LEMMA TestMiningMines ==
  ASSUME NEW r \in Calls
  PROVE  Ended(TestMiningWithoutBist(r), CfgFacts(r) \cup RunFacts(r))
  <1> DEFINE m  == r.mask
             C  == Fact("WRITE_CORE_CFG", 0, m)
             s1 == Start \o SetPll
             s2 == s1 \o Each("SET_DISABLE", m)
             s3 == s2 \o Each("WRITE_CORE_CFG", m)
             s4 == s3 \o All("SET_CONTROL", OON)
             s5 == s4 \o CutFaultChips(r) \o One(1, "SET_CONTROL", LAST_OON)
             s6 == s5 \o Each("SET_DISABLE", m)
             X  == {"WRITE_CORE_CFG", "RUN_BIST", "sane", "fresh"}
             L1 == Begun \cup {Clock(0)}
             L2 == L1 \cup {Masked(m)}
             L3 == {WHOLE, NUMBERED, ANSWERED, Job(0), Clock(0), Masked(m), C}
             L4 == L3 \cup {Oon(0)}
             R  == {Oon(0), Masked(m), C, Job(0)}
             D  == CfgSpared(r)
             L5 == R \cup {NUMBERED, ANSWERED} \cup D
             L  == CfgFacts(r) \cup RunFacts(r)
  <1>0. m \in Masks /\ ArgFits("SET_DISABLE", m)
    BY CallPieces, SeqTypes
  <1>1. Known(s1, L1)
    BY StartPll
  <1> HIDE DEF s1, m
  <1>2. /\ NUMBERED \in L1 /\ ANSWERED \in L1
        /\ \A f \in L1 : f.is \notin {"SET_DISABLE", "top"}
    BY Kinds DEF Begun
  <1>3. Known(s2, L2)
    <2> HIDE DEF L1
    <2>1. QED
      BY <1>0, <1>1, <1>2, MaskingMore
  <1> HIDE DEF s2
  <1>4. C.is = "WRITE_CORE_CFG"
    BY Kinds
  <1>5. Leaves(L2, X, {C}, L3)
    BY <1>4, Kinds, WorkKinds DEF Leaves, Begun
  <1>6. Leaves(L3, {}, {Oon(0)}, L4)
    BY <1>4, Kinds, WorkKinds DEF Leaves
  <1>7. WHOLE \in L3 /\ NUMBERED \in L2 /\ ANSWERED \in L2
    BY <1>2
  <1>8. /\ NUMBERED \in L4 /\ ANSWERED \in L4 /\ R \subseteq L4 /\ Clock(0) \in L4
        /\ r.fault = 0 => D \subseteq L4
    BY DEF CfgSpared
  <1>9. r.fault > 0 => D \subseteq {Unclocked}
    BY DEF CfgSpared
  <1>10. /\ \A f \in R : Remains(f)
         /\ \A f \in D : f.is \in {"SET_PLL", "PLL_OFF"}
    <2>1. \A f \in D : f.is \in {"SET_PLL", "PLL_OFF"}
      BY Kinds DEF CfgSpared
    <2>2. QED
      BY <2>1, Remaining
  <1>11. Leaves(L5, {"SET_DISABLE"}, {Masked(m)}, L5)
    BY <1>4, <1>10, Kinds, WorkKinds DEF Leaves
  <1>12. NUMBERED \in L5 /\ ANSWERED \in L5 /\ Job(0) \in L5
    OBVIOUS
  <1>13. Leaves(L5, RunKinds, RunFacts(r), L)
    BY <1>4, <1>10, Kinds, WorkKinds DEF Leaves, CfgFacts, m, RunKinds
  <1> HIDE DEF L2, L3, L4
  <1>14. Known(s3, L3)
    <2>1. Goes(s2, Each("WRITE_CORE_CFG", m), L2, X, {C})
      BY <1>0, <1>3, <1>7, EachCfg
    <2> HIDE DEF X, C
    <2>2. QED
      BY <1>5, <2>1, Then
  <1> HIDE DEF s3
  <1>15. Known(s4, L4)
    BY <1>6, <1>7, <1>14, AllListening
  <1> HIDE DEF s4, R, D
  <1>16. Known(s5, L5)
    <2>1. \A f \in D : f.is # "top"
      BY <1>10
    <2>2. QED
      BY <1>8, <1>9, <1>10, <1>15, <2>1, CutAndLast
  <1> HIDE DEF s5, L5
  <1>17. Known(s6, L5)
    <2>1. Goes(s5, Each("SET_DISABLE", m), L5, {"SET_DISABLE"}, {Masked(m)})
      BY <1>0, <1>12, <1>16, EachWrite DEF Masked
    <2>2. QED
      BY <1>11, <2>1, Then
  <1> HIDE DEF s6, L
  <1>18. Ended(s6 \o RunJob(r), L)
    BY <1>12, <1>13, <1>17, RunsJob
  <1>19. TestMiningWithoutBist(r) = s6 \o RunJob(r)
    BY Zenon DEF TestMiningWithoutBist, s1, s2, s3, s4, s5, s6, m
  <1>20. QED
    BY <1>18, <1>19, Zenon DEF L

\* That is enough for TestMiningWithoutBist.
LEMMA PromisedMining ==
  ASSUME NEW r \in Calls, r.test = "TestMiningWithoutBist"
  PROVE  Promised(r, CfgFacts(r) \cup RunFacts(r))
  <1> DEFINE G == CfgFacts(r) \cup RunFacts(r)
  <1>1. /\ NUMBERED \in G /\ ANSWERED \in G /\ Oon(0) \in G /\ Masked(r.mask) \in G
        /\ Fact("WRITE_CORE_CFG", 0, r.mask) \in G /\ RunFacts(r) \subseteq G
        /\ CfgSpared(r) \subseteq G
    BY DEF CfgFacts
  <1> HIDE DEF G
  <1>2. r.fault = 0 \/ r.fault > 0
    BY Bounds DEF Calls
  <1>3. Clocked(r, G) /\ Cored(r, G)
    BY <1>1, <1>2 DEF Clocked, Cored, CfgSpared
  <1>4. \A a : Made(r, G, a)
    BY <1>1, <1>3, RunFactsIn
  <1>5. Promised(r, G)
    BY <1>1, <1>4 DEF Promised, Sharing
  <1>6. QED
    BY <1>5 DEF G

\* "Last chip test", which runs BIST once more after the cut.
LastFacts(r) ==
  {NUMBERED, ANSWERED, Oon(0), Masked("enable_all"), Bist(0, "enable_all")} \cup CfgSpared(r)

\* The interrupt of chip 1 and those of the others.
LEMMA AllAddresses ==
  ASSUME NEW s, NEW L, Known(s, L \cup {Oon(1)} \cup {Oon(a) : a \in 2 .. MaxChips}),
         NUMBERED \in L, ANSWERED \in L
  PROVE  Known(s, L \cup {Oon(0)})
  <1> DEFINE G == L \cup {Oon(1)} \cup {Oon(a) : a \in 2 .. MaxChips}
  <1>1. \A a \in Addresses : Fact("SET_CONTROL", a, "") \in G
    <2>1. MaxChips \in Nat
      BY Bounds
    <2>2. \A a \in Addresses : a \in 2 .. MaxChips \/ a = 1
      BY <2>1 DEF Addresses
    <2>3. \A a \in Addresses : Oon(a) \in G
      BY <2>2
    <2> HIDE DEF G
    <2>4. QED
      BY <2>3 DEF Oon
  <1>2. NUMBERED \in G /\ ANSWERED \in G /\ L \subseteq G /\ Known(s, G)
    OBVIOUS
  <1> HIDE DEF G
  <1>3. Oon(0) \in Full(G)
    <2>1. "SET_CONTROL" \in PerChip
      BY DEF PerChip
    <2>2. QED
      BY <1>1, <1>2, <2>1, ForAll DEF Oon
  <1>4. L \cup {Oon(0)} \subseteq Full(G)
    BY <1>2, <1>3 DEF Full
  <1>5. Known(s, Full(G))
    BY <1>2, Closed
  <1>6. QED
    BY <1>4, <1>5, KnownPart

\* TestLastChip mines with the chips that were not cut off.
LEMMA TestLastMines ==
  ASSUME NEW r \in Calls
  PROVE  Ended(TestLastChip(r), LastFacts(r) \cup RunFacts(r))
  <1> DEFINE m  == "enable_all"
             s3 == Start \o SetPll \o GoldenNonce \o All("SET_DISABLE", m) \o All("RUN_BIST", "")
                   \o ReadBist
             s4 == s3 \o Step("SET_CONTROL", 1, 1, LAST_OON)
             s5 == s4 \o Step("AUTO_ADDRESS", 0, 1, "")
             s6 == s5 \o From(2, "SET_CONTROL", OON)
             s7 == s6 \o CutFaultChips(r)
             s8 == s7 \o All("RUN_BIST", "") \o ReadBist
             N  == {Oon(a) : a \in 2 .. MaxChips}
             X  == {"dist", "checked", "fresh"}
             Y  == {"RUN_BIST", "WRITE_CORE_CFG", "checked", "fresh"}
             L3 == GoldenBase(m)
             L4 == L3 \cup {Oon(1)}
             B5 == {NUMBERED, ANSWERED, Clock(0), Masked(m), Bist(0, m), Job(0)} \cup GoldenFacts
             L5 == B5 \cup {Oon(1)}
             L6 == L5 \cup N
             R  == {Oon(0), Masked(m), Bist(0, m), Job(0)} \cup GoldenFacts
             D  == CfgSpared(r)
             L7 == R \cup {NUMBERED, ANSWERED} \cup D
             L8 == {NUMBERED, ANSWERED, Oon(0), Masked(m), Bist(0, m), Job(0)} \cup D
             L  == LastFacts(r) \cup RunFacts(r)
  <1>0. m \in Masks /\ 2 \in 2 .. MaxChips + 1
    BY CallPieces, Bounds
  <1>1. Known(s3, L3)
    BY <1>0, GoldenBist
  <1> HIDE DEF s3
  <1>c. \A f \in Counts : f.is = "fresh"
    BY Kinds DEF Counts
  <1>g. \A f \in GoldenFacts : f.is \in GoldenKinds
    BY Kinds DEF GoldenFacts, GoldenKinds
  <1>n. \A f \in N : f.is = "SET_CONTROL"
    BY Kinds
  <1>d. \A f \in D : f.is \in {"SET_PLL", "PLL_OFF"}
    BY Kinds DEF CfgSpared
  <1>2. Known(s4, L4)
    <2>1. NUMBERED \in L3 /\ ANSWERED \in L3
      BY DEF GoldenBase, Begun
    <2>2. Leaves(L3, {}, {Oon(1)}, L4)
      BY <1>c, <1>g, Kinds, WorkKinds DEF Leaves, GoldenBase, Begun, GoldenKinds
    <2> HIDE DEF L3, L4
    <2>3. Goes(s3, Step("SET_CONTROL", 1, 1, LAST_OON), L3, {}, {Oon(1)})
      <3>1. \A need \in {-1, 1}, control \in {LAST, LAST_OON} : control = LAST_OON =>
              Goes(s3, Step("SET_CONTROL", 1, need, control), L3,
                   IF control = LAST_OON THEN {} ELSE {"SET_CONTROL"}, {Oon(1)})
        BY <1>1, <2>1, FirstLast
      <3>2. 1 \in {-1, 1} /\ LAST_OON \in {LAST, LAST_OON}
        OBVIOUS
      <3>3. QED
        BY <3>1, <3>2
    <2>4. QED
      BY <2>2, <2>3, Then
  <1> HIDE DEF s4
  <1>3. Known(s5, L5)
    <2>1. NUMBERED \in L4 /\ ANSWERED \in L4
      BY DEF GoldenBase, Begun
    <2>2. Leaves(L4, X, {}, L5)
      BY <1>c, <1>g, Kinds, WorkKinds DEF Leaves, GoldenBase, Begun, GoldenKinds
    <2> HIDE DEF L4, L5
    <2>3. Goes(s4, Step("AUTO_ADDRESS", 0, 1, ""), L4, X, {})
      BY <1>2, <2>1, SameNumbers
    <2>4. QED
      BY <2>2, <2>3, Then
  <1> HIDE DEF s5
  <1>4. Known(s6, L6)
    <2>1. NUMBERED \in L5 /\ ANSWERED \in L5
      OBVIOUS
    <2>2. Leaves(L5, {}, N, L6)
      BY <1>g, Kinds, WorkKinds DEF Leaves, GoldenKinds
    <2> HIDE DEF L5, L6, N
    <2>3. Goes(s5, From(2, "SET_CONTROL", OON), L5, {}, N)
      BY <1>0, <1>3, <2>1, FromOon DEF N
    <2>4. QED
      BY <2>2, <2>3, Then
  <1> HIDE DEF s6
  <1>5. Known(s6, B5 \cup {Oon(0)})
    <2>1. NUMBERED \in B5 /\ ANSWERED \in B5 /\ Known(s6, B5 \cup {Oon(1)} \cup N)
      BY <1>4
    <2> HIDE DEF B5
    <2>2. QED
      BY <2>1, AllAddresses
  <1>6. Known(s7, L7)
    <2> DEFINE G == B5 \cup {Oon(0)}
    <2>1. NUMBERED \in G /\ ANSWERED \in G /\ R \subseteq G /\ Clock(0) \in G
          /\ (r.fault = 0 => D \subseteq G) /\ (r.fault > 0 => D \subseteq {Unclocked})
      BY DEF CfgSpared
    <2>2. (\A f \in R : Remains(f)) /\ \A f \in D : f.is # "top"
      BY <1>d, Remaining
    <2> HIDE DEF G, R, D
    <2>3. QED
      BY <1>5, <2>1, <2>2, CutAndLast DEF G
  <1> HIDE DEF s7
  <1>7. Known(s8, L8)
    <2>1. GoldenIn(L7, 0) /\ Fact("SET_DISABLE", 0, m) \in L7 /\ Bist(0, m) \in L7
      BY DEF GoldenIn, GoldenFacts, Masked
    <2>2. L8 \subseteq L7 /\ \A f \in L8 : f = Bist(0, m) \/ f.is \notin Y \cup {"top"}
      <3> HIDE DEF D, m
      <3>1. L8 \subseteq L7
        OBVIOUS
      <3>2. \A f \in L8 : f = Bist(0, m) \/ f.is \notin Y \cup {"top"}
        BY <1>d, Kinds, WorkKinds
      <3>3. QED
        BY <3>1, <3>2
    <2> HIDE DEF L7, L8
    <2>3. PICK H : Known(s8, H) /\ Kept(L7, H, Y) /\ Bist(0, m) \in H
      <3>1. \A W : W \subseteq Addresses /\ W = {} =>
              \E H : /\ Known(s7 \o All("RUN_BIST", "") \o ReadBist, H) /\ Kept(L7, H, Y)
                     /\ Bist(0, m) \in H /\ \A a \in W : Fresh(a) \in H
        BY <1>6, <2>1, BistGoes
      <3>2. \A W : W = {} => W \subseteq Addresses
        OBVIOUS
      <3>3. QED
        BY <3>1, <3>2
    <2>4. L8 \subseteq H
      BY <2>2, <2>3 DEF Kept
    <2>5. QED
      BY <2>3, <2>4, KnownPart
  <1>8. NUMBERED \in L8 /\ ANSWERED \in L8 /\ Job(0) \in L8
    OBVIOUS
  <1>9. Leaves(L8, RunKinds, RunFacts(r), L)
    BY <1>d, Kinds, WorkKinds DEF Leaves, LastFacts, RunKinds
  <1> HIDE DEF s8, L8, L
  <1>10. Ended(s8 \o RunJob(r), L)
    BY <1>7, <1>8, <1>9, RunsJob
  <1>11. TestLastChip(r) = s8 \o RunJob(r)
    BY Zenon DEF TestLastChip, s3, s4, s5, s6, s7, s8
  <1>12. QED
    BY <1>10, <1>11, Zenon DEF L

\* That is enough for TestLastChip.
LEMMA PromisedLast ==
  ASSUME NEW r \in Calls, r.test = "TestLastChip", r.mask = "enable_all"
  PROVE  Promised(r, LastFacts(r) \cup RunFacts(r))
  <1> DEFINE G == LastFacts(r) \cup RunFacts(r)
  <1>1. /\ NUMBERED \in G /\ ANSWERED \in G /\ Oon(0) \in G /\ Masked(r.mask) \in G
        /\ Bist(0, r.mask) \in G /\ RunFacts(r) \subseteq G /\ CfgSpared(r) \subseteq G
    BY DEF LastFacts
  <1> HIDE DEF G
  <1>2. r.fault = 0 \/ r.fault > 0
    BY Bounds DEF Calls
  <1>3. Clocked(r, G) /\ Cored(r, G)
    BY <1>1, <1>2 DEF Clocked, Cored, CfgSpared
  <1>4. \A a : Made(r, G, a)
    BY <1>1, <1>3, RunFactsIn
  <1>5. Promised(r, G)
    BY <1>1, <1>4 DEF Promised, Sharing
  <1>6. QED
    BY <1>5 DEF G

\* TestXCore gives the range of the nonces to chip 1 only.
XFacts(mask) ==
  {NUMBERED, ANSWERED, Oon(0), Masked(mask), Clock(0), Bist(0, mask), Job(1),
   Fact("WRITE_NONCE", 1, "small")} \cup GoldenData

\* A range for the chip with address 1 alone.
LEMMA OneNonce ==
  ASSUME NEW s, NEW G, Known(s, G), NUMBERED \in G, ANSWERED \in G
  PROVE  /\ One(1, "WRITE_NONCE", "small") \in Seq(Steps)
         /\ Goes(s, One(1, "WRITE_NONCE", "small"), G, {"WRITE_NONCE"},
                 {Fact("WRITE_NONCE", 1, "small")})
  <1> DEFINE c == Command("WRITE_NONCE", 1, -1, "small")
             f == Fact("WRITE_NONCE", 1, "small")
  <1>1. c \in Steps /\ One(1, "WRITE_NONCE", "small") = <<c>>
    <2>1. ArgFits("WRITE_NONCE", "small")
      BY DEF ArgFits, Ranges
    <2>2. 1 \in -1 .. MaxChips /\ -1 \in -1 .. MaxChips + 1
      BY Bounds
    <2>3. \A arg : ArgFits("WRITE_NONCE", arg) => Command("WRITE_NONCE", 1, -1, arg) \in Steps
      BY <2>2, CommandType
    <2>4. QED
      BY <2>1, <2>3 DEF One, Step
  <1>2. c.cmd = "WRITE_NONCE" /\ c.arg = "small" /\ c.to = 1 /\ c.need = -1
    BY DEF Command
  <1>3. f.is = "WRITE_NONCE" /\ f.arg = "small" /\ f.at = 1
    BY DEF Fact
  <1> HIDE DEF c, f
  <1>4. SentTo(c, Full(G), 1)
    BY <1>2 DEF SentTo, Full
  <1>5. Gains(c, Full(G), f)
    BY <1>2, <1>3, <1>4 DEF Gains, Plainly
  <1> DEFINE X == {"WRITE_NONCE"}
             N == {f}
  <1>6. Adds(c, G, X, N)
    BY <1>1, <1>2, <1>3, <1>5 DEF Adds, Special, Spoils, Plainly
  <1> HIDE DEF X, N
  <1>7. Goes(s, <<c>>, G, X, N)
    BY <1>6, Sole, Zenon
  <1>8. <<c>> \in Seq(Steps)
    <2>1. c \in Steps
      BY <1>1
    <2>2. QED
      BY <2>1
  <1>9. QED
    BY <1>1, <1>7, <1>8 DEF X, N, f

\* The job of chip 1, which the others get without a range.
LEMMA RunsOne ==
  ASSUME NEW s, NEW mask, NEW r,
         Known(s, {NUMBERED, ANSWERED, Job(0), Oon(0), Masked(mask), Clock(0), Bist(0, mask)}
                  \cup GoldenFacts)
  PROVE  Ended(s \o Run1Job(r), XFacts(mask))
  <1> DEFINE t == All("WRITE_TARGET", "golden")
             u == One(1, "WRITE_NONCE", "small")
             j == Jobs(1)
             f == Fact("WRITE_NONCE", 1, "small")
             s1 == s \o t
             s2 == s1 \o u
             s3 == s2 \o j
             B == {NUMBERED, ANSWERED, Oon(0), Masked(mask), Clock(0), Bist(0, mask)}
                     \cup GoldenData
             L0 == {NUMBERED, ANSWERED, Job(0), Oon(0), Masked(mask), Clock(0), Bist(0, mask)}
                   \cup GoldenFacts
             L1 == B \cup {Job(0)}
             L2 == L1 \cup {f}
             L3 == B \cup {f} \cup {Job(1)}
             T == Fact("WRITE_TARGET", 0, "golden")
  <1>0. ArgFits("WRITE_TARGET", "golden") /\ t \in Seq(Steps)
    BY SeqTypes DEF Data, Plainly
  <1>1. /\ \A g \in B : g.is \notin {"WRITE_NONCE", "RUN_JOB", "top"}
        /\ f.is = "WRITE_NONCE"
    BY Kinds, WorkKinds DEF GoldenData
  <1>2. Leaves(L0, {"WRITE_TARGET"}, {T}, L1)
    BY Kinds, WorkKinds DEF Leaves, GoldenData, GoldenFacts
  <1>3. Leaves(L1, {"WRITE_NONCE"}, {f}, L2)
    BY <1>1, Kinds DEF Leaves
  <1>4. Leaves(L2, {"RUN_JOB"}, {Job(1)}, L3)
    BY <1>1 DEF Leaves
  <1>5. NUMBERED \in L1 /\ ANSWERED \in L1 /\ Job(0) \in L2 /\ L3 = XFacts(mask)
    BY DEF XFacts
  <1>6. Known(s, L0)
    OBVIOUS
  <1> HIDE DEF B, L0, L1, L2, L3, f, T, t, u, j
  <1>7. Known(s1, L1)
    <2>1. Goes(s, t, L0, {"WRITE_TARGET"}, {T})
      BY <1>0, <1>6, AllWrite DEF t, T, Plainly
    <2>2. QED
      BY <1>2, <2>1, Then
  <1> HIDE DEF s1
  <1>8. u \in Seq(Steps) /\ Known(s2, L2)
    <2>1. u \in Seq(Steps) /\ Goes(s1, u, L1, {"WRITE_NONCE"}, {f})
      BY <1>5, <1>7, OneNonce DEF u, f
    <2>2. QED
      BY <1>3, <2>1, Then
  <1> HIDE DEF s2
  <1>9. j \in Seq(Steps) /\ Known(s3, L3)
    <2>1. j \in Seq(Steps) /\ Goes(s2, j, L2, {"RUN_JOB"}, {Job(1)})
      BY <1>5, <1>8, FirstJob DEF j
    <2>2. QED
      BY <1>4, <2>1, Then
  <1>10. s \in Seq(Steps) /\ Grouped(s, t, u, j)
    BY <1>0, <1>6, <1>8, <1>9, Regroup DEF Known
  <1>11. t \o u \o j \in Seq(Steps) /\ s3 = s \o (t \o u \o j)
    BY <1>10, Zenon DEF Grouped, s1, s2, s3
  <1>12. Known(s \o (t \o u \o j), L3)
    BY <1>9, <1>11
  <1>13. Ended(s \o ((t \o u \o j) \o Mine), L3)
    BY <1>10, <1>11, <1>12, EndedAfter
  <1>14. Run1Job(r) = (t \o u \o j) \o Mine
    BY Zenon DEF Run1Job, t, u, j
  <1>15. QED
    BY <1>5, <1>13, <1>14

\* TestXCore mines with a range for chip 1 alone.
LEMMA TestXCoreMines ==
  ASSUME NEW r \in Calls
  PROVE  Ended(TestXCore(r), XFacts(r.mask))
  <1> DEFINE m  == r.mask
             s1 == Start \o SetPll
             s2 == s1 \o All("SET_CONTROL", OON)
             s3 == s2 \o Rounds(MaxChips, 3, XCoreBody)
             s4 == s3 \o Each("SET_DISABLE", m)
             s5 == s4 \o Each("RUN_BIST", "")
             s6 == s5 \o ReadBist
             s7 == s6 \o All("SET_CONTROL", OON)
             X  == {"RUN_BIST", "WRITE_CORE_CFG", "fresh"}
             Y  == {"checked", "fresh"}
             L1 == Begun \cup {Clock(0)}
             L2 == L1 \cup {Oon(0)}
             L3 == L2 \cup GoldenFacts
             L4 == L3 \cup {Masked(m)}
             L5 == {WHOLE, NUMBERED, ANSWERED, Job(0), Oon(0), Masked(m), Clock(0), Bist(0, m)}
                   \cup GoldenFacts
             L7 == {NUMBERED, ANSWERED, Job(0), Oon(0), Masked(m), Clock(0), Bist(0, m)}
                   \cup GoldenFacts
  <1>0. m \in Masks
    BY CallPieces
  <1> HIDE DEF m
  <1>1. Known(s1, L1)
    BY StartPll
  <1> HIDE DEF s1
  <1>g. \A f \in GoldenFacts : f.is \in GoldenKinds
    BY Kinds DEF GoldenFacts, GoldenKinds
  <1>2. Leaves(L1, {}, {Oon(0)}, L2) /\ WHOLE \in L1
    BY Kinds DEF Leaves, Begun
  <1>3. Leaves(L2, GoldenKinds, GoldenFacts, L3) /\ NUMBERED \in L2 /\ ANSWERED \in L2
    BY Kinds DEF Leaves, Begun, GoldenKinds
  <1>4. /\ \A f \in L3 : f.is \notin {"SET_DISABLE", "top"}
        /\ NUMBERED \in L3 /\ ANSWERED \in L3
    BY <1>g, Kinds DEF Begun, GoldenKinds
  <1>5. Leaves(L4, X, {Bist(0, m)}, L5)
    BY <1>g, Kinds, WorkKinds DEF Leaves, Begun, GoldenKinds
  <1>6. /\ NUMBERED \in L4 /\ ANSWERED \in L4 /\ ON \in L4 /\ GoldenIn(L4, 0)
        /\ Fact("SET_DISABLE", 0, m) \in L4
    BY DEF Begun, GoldenIn, GoldenFacts, Masked
  <1>7. \A N : Leaves(L5, Y, N, L5) /\ Leaves(L5, {}, N, L7)
    BY <1>g, Kinds, WorkKinds DEF Leaves, GoldenKinds
  <1>8. WHOLE \in L5 /\ Oon(0) \in L5
    OBVIOUS
  <1> HIDE DEF L1, L2, L3, L5, X, Y
  <1>9. Known(s2, L2)
    BY <1>1, <1>2, AllListening
  <1> HIDE DEF s2
  <1>10. Known(s3, L3)
    <2>1. Goes(s2, Rounds(MaxChips, 3, XCoreBody), L2, GoldenKinds, GoldenFacts)
      BY <1>3, <1>9, XCoreGoes
    <2>2. QED
      BY <1>3, <2>1, Then
  <1> HIDE DEF s3
  <1>11. Known(s4, L4)
    BY <1>0, <1>4, <1>10, MaskingMore
  <1> HIDE DEF s4, L4
  <1>12. Known(s5, L5)
    <2>1. Goes(s4, Each("RUN_BIST", ""), L4, X, {Bist(0, m)})
      BY <1>6, <1>11, EachBist DEF X
    <2>2. QED
      BY <1>5, <2>1, Then
  <1> HIDE DEF s5
  <1>13. Known(s6, L5)
    <2>1. ASSUME NEW W, W = {} PROVE Goes(s5, ReadBist, L5, Y, {Fresh(a) : a \in W})
      <3>1. W \subseteq Addresses
        BY <2>1
      <3>2. QED
        BY <1>12, <2>1, <3>1, ReadsBist DEF Y
    <2>2. PICK N : Goes(s5, ReadBist, L5, Y, N)
      BY <2>1
    <2>3. QED
      BY <1>7, <2>2, Then
  <1> HIDE DEF s6
  <1>14. Known(s7, L7)
    BY <1>7, <1>8, <1>13, AllListening
  <1> HIDE DEF s7
  <1>15. Ended(s7 \o Run1Job(r), XFacts(m))
    BY <1>14, RunsOne
  <1>16. TestXCore(r) = s7 \o Run1Job(r)
    BY Zenon DEF TestXCore, XCoreBody, s1, s2, s3, s4, s5, s6, s7, m
  <1>17. QED
    BY <1>15, <1>16, Zenon DEF m

\* That is enough for TestXCore, whose other chips are not promised a range.
LEMMA PromisedXCore ==
  ASSUME NEW r \in Calls, r.test = "TestXCore", ~r.full
  PROVE  Promised(r, XFacts(r.mask))
  <1> DEFINE G == XFacts(r.mask)
  <1>1. /\ NUMBERED \in G /\ ANSWERED \in G /\ Oon(0) \in G /\ Masked(r.mask) \in G
        /\ Clock(0) \in G /\ Bist(0, r.mask) \in G /\ Job(1) \in G
        /\ Fact("WRITE_NONCE", 1, "small") \in G
        /\ Fact("WRITE_PARAM", 0, "golden") \in G /\ Fact("WRITE_TARGET", 0, "golden") \in G
    BY DEF XFacts, GoldenData
  <1> HIDE DEF G
  <1>2. DataOf(r) = "golden" /\ Length(r) = "small"
    BY DEF DataOf, Length
  <1>3. Made(r, G, 1)
    BY <1>1, <1>2 DEF Made, Ranged, Clocked, Cored, InAt, Masked, Oon
  <1>4. \A a \in Addresses : a = 1 \/ a > 1
    BY Bounds DEF Addresses
  <1>5. Promised(r, G)
    BY <1>1, <1>3, <1>4 DEF Promised, Sharing
  <1>6. QED
    BY <1>5 DEF G

-----------------------------------------------------------------------------
(* What the facts say of the board that mines.                               *)

\* Each chip has a share of its own, and there are no others.
LEMMA SharesFrom ==
  ASSUME TypeInv, NEW G, Told(G), fault = "none", NEW x, NUMBERED \in G, ANSWERED \in G,
         Share(0) \in G, Dist(x) \in G
  PROVE  {chip[p].nonce.part : p \in Reach} = 1 .. dist.of /\ Cardinality(Reach) = dist.of
  <1>1. Holds(NUMBERED) /\ Holds(ANSWERED) /\ Holds(Dist(x))
    BY DEF Told, Trusted, Full
  <1>2. numChips >= 1 /\ Numbered /\ LastChip = First
    BY <1>1, FactKinds
  <1>3. dist = [range |-> x, part |-> 0, of |-> numChips]
    BY <1>1 DEF Holds, Dist, Fact
  <1>4. /\ numChips = Size - LastChip + 1
        /\ \A q \in Reach : chip[q].addr = q - LastChip + 1
    BY <1>2, OnNumbered
  <1>5. /\ Reach = LastChip .. Size /\ Cardinality(Reach) = Size - LastChip + 1
        /\ LastChip \in 1 .. Size /\ Size \in Nat
    BY OnBoard
  <1>6. ASSUME NEW q \in Reach PROVE chip[q].nonce.part = q - LastChip + 1
    <2>1. "WRITE_NONCE" \in PerChip /\ InAt(G, "WRITE_NONCE", 0, "share")
      BY DEF PerChip, Plainly, InAt, Share
    <2>2. OfChip(q, Fact("WRITE_NONCE", 0, "share"))
      BY <2>1, TellsOf
    <2>3. chip[q].nonce = [dist EXCEPT !.part = chip[q].addr]
      BY <2>2 DEF OfChip, Fact
    <2>4. QED
      BY <1>3, <1>4, <2>3
  <1>7. dist.of = numChips
    BY <1>3
  <1>8. \A n \in 1 .. numChips : \E q \in Reach : n = q - LastChip + 1
    <2>1. TAKE n \in 1 .. numChips
    <2>2. n + LastChip - 1 \in Reach
      BY <1>4, <1>5
    <2>3. n = (n + LastChip - 1) - LastChip + 1
      BY <1>5
    <2>4. QED
      BY <2>2, <2>3
  <1>9. \A q \in Reach : q - LastChip + 1 \in 1 .. numChips
    BY <1>4, <1>5
  <1>10. {chip[p].nonce.part : p \in Reach} = 1 .. numChips
    BY <1>6, <1>8, <1>9
  <1>11. QED
    BY <1>4, <1>5, <1>7, <1>10

\* The cores that BIST has found, as the counts that were checked say.
FoundEach == \A p \in Reach : chip[p].found = Expected /\ Expected <= health[p]
FoundSum ==
  /\ Cardinality({c \in Reach \X (1 .. Cores) : c[2] <= chip[c[1]].found})
       = Cardinality(Reach) * Expected
  /\ \A p \in Reach : chip[p].found <= health[p]

\* The cores that a check found in the handle are those of the chips.
LEMMA CoresFrom ==
  ASSUME TypeInv, NEW G, Told(G), fault # "late", numChips >= 1,
         \A p \in Reach : chip[p].clock # "off", NEW what \in {"each", "sum"}, Judging(G, what)
  PROVE  IF what = "each" THEN FoundEach ELSE FoundSum
  <1>1. /\ WHOLE.is \in Robust /\ NUMBERED.is \in Robust /\ SANE.is \in Robust
        /\ Checked(what).is \in Robust /\ \A a : Fresh(a).is \in Robust
    BY Kinds DEF Robust
  <1>2. /\ Holds(WHOLE) /\ Holds(NUMBERED) /\ Holds(SANE) /\ Holds(Checked(what))
        /\ \A a \in Addresses : Holds(Fresh(a))
    BY <1>1 DEF Told, Trusted, Full, Judging
  <1>3. Numbered /\ LastChip = First /\ \A q \in Chips : chip[q].last => q = 1
    BY <1>2, FactKinds
  <1>4. /\ Reach = LastChip .. Size /\ Cardinality(Reach) = Size - LastChip + 1
        /\ LastChip \in 1 .. Size /\ Size \in 1 .. MaxChips /\ Chips = 1 .. Size
        /\ LastChip = 1 \/ chip[LastChip].last
    BY OnBoard
  <1>5. LastChip = 1
    BY <1>3, <1>4
  <1>6. /\ Reach = 1 .. Size /\ Reach \subseteq Addresses /\ Reach \subseteq Chips
        /\ Cardinality(Reach) = Size /\ numChips = Size
    <2>1. numChips = Size - LastChip + 1
      BY <1>3, OnNumbered
    <2>2. MaxChips \in Nat
      BY Bounds
    <2>3. QED
      BY <1>4, <1>5, <2>1, <2>2 DEF Addresses
  <1>7. \A a \in Reach : Address(a) /\ numCores[a].cores = chip[a].found
    <2>1. \A a \in Reach : Address(a)
      BY <1>6 DEF Address
    <2>2. \A a : Holds(Fresh(a)) => (a \in Chips /\ Address(a) /\ chip[a].clock # "off" =>
                                       numCores[a].cores = chip[a].found)
      BY DEF Holds, Fresh, Fact
    <2>3. QED
      BY <1>2, <1>6, <2>1, <2>2
  <1>8. \A q \in Reach : chip[q].found <= health[q]
    BY <1>2, <1>6, FactKinds
  <1>9. IF what = "each" THEN AllCores(Expected) ELSE SumOfCores = numChips * Expected
    BY <1>2 DEF Holds, Checked, Fact
  <1>10. CASE what = "each"
    <2>1. \A a \in Reach : chip[a].found = Expected
      BY <1>6, <1>7, <1>9, <1>10 DEF AllCores, Addresses
    <2>2. FoundEach
      BY <1>8, <2>1 DEF FoundEach
    <2>3. QED
      BY <1>10, <2>2
  <1>11. CASE what = "sum"
    <2> DEFINE A == {c \in Addresses \X (1 .. Cores) :
                       Address(c[1]) /\ c[2] <= numCores[c[1]].cores}
               B == {c \in Reach \X (1 .. Cores) : c[2] <= chip[c[1]].found}
    <2>1. \A a \in Addresses : Address(a) <=> a \in Reach
      BY <1>6 DEF Address
    <2>2. A = B
      BY <1>6, <1>7, <2>1
    <2>3. Cardinality(B) = Size * Expected
      BY <1>6, <1>9, <1>11, <2>2 DEF SumOfCores
    <2>4. FoundSum
      BY <1>6, <1>8, <2>3 DEF FoundSum
    <2>5. QED
      BY <1>11, <2>4
  <1>12. QED
    BY <1>10, <1>11

\* TestXCore distributes no nonces.
LEMMA XCoreLacks ==
  ASSUME NEW r \in Calls
  PROVE  TestXCore(r) \in Seq(Lacking("DISTRIBUTE"))
  <1> DEFINE L == Lacking("DISTRIBUTE")
             w == Rounds(MaxChips, 3, XCoreBody)
  <1>0. "DISTRIBUTE" \in Rare
    BY DEF Rare
  <1>1. w \in Seq(L)
    <2>1. w \in Seq(Steps) /\ Len(w) = MaxChips * 3
          /\ \A k \in 1 .. MaxChips * 3 : w[k].cmd # "DISTRIBUTE"
      BY XCoreAt DEF GoldenKinds
    <2> HIDE DEF w
    <2>2. \A k \in 1 .. Len(w) : w[k] \in L
      BY <2>1 DEF Lacking
    <2> HIDE DEF L
    <2>3. QED
      BY <2>1, <2>2
  <1>2. TestXCore(r) = Start \o SetPll \o All("SET_CONTROL", OON) \o w
          \o Each("SET_DISABLE", r.mask)
                       \o Each("RUN_BIST", "") \o ReadBist \o All("SET_CONTROL", OON) \o Run1Job(r)
    BY Zenon DEF TestXCore, XCoreBody
  <1>3. /\ Start \in Seq(L) /\ SetPll \in Seq(L) /\ Each("RUN_BIST", "") \in Seq(L)
        /\ ReadBist \in Seq(L)
    BY <1>0, LackingPieces
  <1>4. All("SET_CONTROL", OON) \in Seq(L) /\ Each("SET_DISABLE", r.mask) \in Seq(L)
    BY <1>0, CallPieces, LackingPieces
  <1>5. Run1Job(r) \in Seq(L)
    BY <1>0, JobPrograms
  <1> HIDE DEF w, L
  <1>6. \A u, v \in Seq(L) : u \o v \in Seq(L)
    BY SeqFacts
  <1> DEFINE s1 == Start \o SetPll
             s2 == s1 \o All("SET_CONTROL", OON)
             s3 == s2 \o w
             s4 == s3 \o Each("SET_DISABLE", r.mask)
             s5 == s4 \o Each("RUN_BIST", "")
             s6 == s5 \o ReadBist
             s7 == s6 \o All("SET_CONTROL", OON)
  <1>7. s1 \in Seq(L)
    BY <1>3, <1>6
  <1>8. s2 \in Seq(L)
    BY <1>4, <1>6, <1>7, Zenon
  <1>9. s3 \in Seq(L)
    BY <1>1, <1>6, <1>8, Zenon
  <1>10. s4 \in Seq(L)
    BY <1>4, <1>6, <1>9, Zenon
  <1>11. s5 \in Seq(L)
    BY <1>3, <1>6, <1>10, Zenon
  <1>12. s6 \in Seq(L)
    BY <1>3, <1>6, <1>11, Zenon
  <1>13. s7 \in Seq(L)
    BY <1>4, <1>6, <1>12, Zenon
  <1>14. s7 \o Run1Job(r) \in Seq(L)
    BY <1>5, <1>6, <1>13, Zenon
  <1>15. TestXCore(r) = s7 \o Run1Job(r)
    BY <1>2, Zenon
  <1>16. QED
    BY <1>14, <1>15 DEF L

\* The tests that leave the range of the handle alone.
Unshared == {"TestLastChip", "TestDisableCore", "TestMiningWithoutBist", "TestXCore"}

\* These tests never call DistributionNonce.
LEMMA UnsharedPrograms ==
  ASSUME NEW r \in Invocations, r.test \in Unshared, NEW k \in 1 .. Len(Programs[r])
  PROVE  Programs[r][k].cmd # "DISTRIBUTE"
  <1>1. r \in Calls /\ Programs[r] = StepsOf(r) /\ "DISTRIBUTE" \in Rare
    BY CallTypes DEF Proper, Programs, Rare
  <1>2. Programs[r] \in Seq(Lacking("DISTRIBUTE"))
    BY <1>1, FaultPrograms, XCoreLacks DEF StepsOf, Unshared
  <1>3. Programs[r][k] \in Lacking("DISTRIBUTE")
    BY <1>2
  <1>4. QED
    BY <1>3 DEF Lacking

\* In the first test of a run the handle has a range only after DISTRIBUTE.
DistInv ==
  rounds = 1 /\ dist.of > 0 => \E k \in 1 .. pc - 1 : Programs[run][k].cmd = "DISTRIBUTE"

\* No test has started, nothing is shared.
LEMMA DistInit ==
  ASSUME Init
  PROVE  DistInv
  <1>1. dist.of = 0
    BY DEF Init, NoRange, Whole
  <1>2. QED
    BY <1>1 DEF DistInv

\* A step keeps the shares empty in the tests that do not share.
LEMMA DistNext ==
  ASSUME TypeInv, Next, DistInv
  PROVE  DistInv'
  <1>1. rounds \in Nat \ {0} /\ pc \in Nat
    BY Stepping, BringupAssumption DEF TypeInv
  <1>2. CASE Again
    BY <1>1, <1>2 DEF Again, DistInv
  <1>3. CASE ~Again
    <2>1. rounds' = rounds /\ run' = run /\ (pc' = pc + 1 \/ pc' = pc)
      BY <1>3, Frame DEF SameTest, GoesOn, Stops
    <2>2. CASE dist' = dist
      <3>1. \A k \in 1 .. pc - 1 : k \in 1 .. pc' - 1
        BY <1>1, <2>1
      <3>2. QED
        BY <2>1, <2>2, <3>1 DEF DistInv
    <2>3. CASE DistributionNonce
      <3>1. Now.cmd = "DISTRIBUTE" /\ (dist' = dist \/ pc' = pc + 1)
        BY <2>3 DEF DistributionNonce, At, Advance
      <3>2. CASE pc' = pc + 1
        <4>1. pc \in 1 .. pc' - 1
          BY <1>1, <3>2, Stepping
        <4>2. Programs[run'][pc].cmd = "DISTRIBUTE"
          BY <2>1, <3>1 DEF Now
        <4>3. QED
          BY <4>1, <4>2 DEF DistInv
      <3>3. QED
        BY <2>2, <3>1, <3>2
    <2>4. QED
      BY <1>3, <2>2, <2>3, Frame
  <1>4. QED
    BY <1>2, <1>3

\* What the callers fill in.
Fields(r) ==
  /\ r.test \in {"TestWork", "TestWorkLoop", "TestInfiniteWorkLoop", "TestWorkLoopRandomVector"} =>
       r.mask = "enable_all" /\ r.full
  /\ r.test = "TestLastChip" => r.mask = "enable_all"
  /\ r.test = "Mining" => r.full
  /\ r.test = "TestXCore" => ~r.full

\* The arguments that each test is called with.
LEMMA CallFields ==
  \A r \in Invocations : Fields(r)
  <1> DEFINE Some == {"TestWork", "TestWorkLoop", "TestInfiniteWorkLoop",
                      "TestWorkLoopRandomVector",
                      "TestLastChip", "Mining", "TestXCore"}
             Simple == {"TestWork", "TestWorkLoop", "TestInfiniteWorkLoop",
                        "TestWorkLoopRandomVector", "Mining"}
             As(q, name) == q \in Calls /\ q.test = name
  <1>1. \A name \in TestNames : /\ As(Test(name), name)
                                /\ Test(name).mask = "enable_all" /\ Test(name).full
    BY Bounds DEF Test, Default, Calls, Masks
  <1>2. \A q, name : As(q, name) /\ name \notin Some => Fields(q)
    BY DEF Fields
  <1>3. \A q, name : As(q, name) /\ name \in Simple /\ q.mask = "enable_all" /\ q.full => Fields(q)
    BY DEF Fields
  <1>4. \A name \in TestNames : \A q \in WithLast(name, 0 .. MaxChips) :
          As(q, name) /\ q.mask = "enable_all" /\ q.full
    BY <1>1 DEF WithLast, Calls
  <1>5. \A name \in TestNames : \A q \in WithMasks(name) : As(q, name) /\ q.full
    BY <1>1 DEF WithMasks, Calls
  <1>6. \A name \in TestNames : \A q \in Short(WithMasks(name)) : As(q, name) /\ ~q.full
    <2> TAKE name \in TestNames
    <2>1. \A q \in WithMasks(name) : As(q, name)
      BY <1>5
    <2>2. QED
      BY <2>1, Zenon DEF Short, Calls
  <1>7. \A name \in TestNames : \A q \in WithFaults(name) : As(q, name)
    <2> TAKE name \in TestNames
    <2>1. \A q \in Short(WithMasks(name)) : As(q, name)
      BY <1>6
    <2> DEFINE F(q, f) == [q EXCEPT !.fault = f]
    <2>2. \A q \in Short(WithMasks(name)), f \in 0 .. MaxChips : As(F(q, f), name)
      BY <2>1 DEF Calls
    <2>3. WithFaults(name) = {F(q, f) : q \in Short(WithMasks(name)), f \in 0 .. MaxChips}
      BY DEF WithFaults
    <2> HIDE DEF F
    <2>4. QED
      BY <2>2, <2>3
  <1>8. /\ Simple \subseteq TestNames /\ Some \subseteq TestNames
        /\ {"TestBist", "TestDisableCore", "TestMiningWithoutBist", "TestAsic",
            "TestWorkLoopFreq", "ChipSortingBIST", "HWReset", "ResetAutoAddress", "TestSetPll",
            "TestReadBist"} \subseteq TestNames \ Some
        /\ RegisterTests \subseteq TestNames \ Some
    BY DEF TestNames, RegisterTests
  <1> HIDE DEF As, Some
  <1>9. \A q \in SimpleWorkLoop : Fields(q)
    <2>1. \A q : q \in SimpleWorkLoop =>
            \/ q \in WithLast("TestWork", 0 .. MaxChips)
            \/ q \in WithLast("TestWorkLoop", 0 .. MaxChips)
            \/ q = Test("TestInfiniteWorkLoop") \/ q = Test("TestWorkLoopRandomVector")
      <3>1. WithLast("TestWork", 1 .. MaxChips) \subseteq WithLast("TestWork", 0 .. MaxChips)
        BY DEF WithLast
      <3>2. QED
        BY <3>1 DEF SimpleWorkLoop
    <2>2. \A q : q \in SimpleWorkLoop =>
            \E name \in Simple : As(q, name) /\ q.mask = "enable_all" /\ q.full
      BY <1>1, <1>4, <1>8, <2>1
    <2>3. QED
      BY <1>3, <2>2
  <1>10. \A q \in SingleCommandLoop : Fields(q)
    <2> DEFINE Menu == {[Test(name) EXCEPT !.by = "menu"] :
                          name \in {"HWReset", "ResetAutoAddress", "TestSetPll", "TestReadBist"}}
    <2>1. \A name \in RegisterTests : Fields(Test(name))
      BY <1>1, <1>2, <1>8
    <2>2. \A q \in WithMasks("TestBist") : Fields(q)
      BY <1>2, <1>5, <1>8
    <2>3. \A q \in WithFaults("TestLastChip") : q.mask = "enable_all" => Fields(q)
      BY <1>7, <1>8 DEF As, Some, Fields
    <2>4. \A q \in WithFaults("TestDisableCore") \cup WithFaults("TestMiningWithoutBist") :
            Fields(q)
      BY <1>2, <1>7, <1>8
    <2>5. \A q \in Short(WithMasks("TestXCore")) : Fields(q)
      BY <1>6, <1>8 DEF As, Some, Fields
    <2>6. \A q \in Menu : Fields(q)
      <3>1. \A name \in {"HWReset", "ResetAutoAddress", "TestSetPll", "TestReadBist"} :
              As([Test(name) EXCEPT !.by = "menu"], name)
        BY <1>1, <1>8 DEF As, Calls
      <3>2. QED
        BY <1>2, <1>8, <3>1
    <2>7. QED
      BY <2>1, <2>2, <2>3, <2>4, <2>5, <2>6 DEF SingleCommandLoop
  <1>11. \A q \in ModeOfMain : Fields(q)
    <2> DEFINE F(r, m, b) == [r EXCEPT !.mask = m, !.full = b]
               G(r, s, b) == [r EXCEPT !.same = s, !.full = b]
    <2>1. \A r \in WithLast("TestAsic", 1 .. MaxChips) : As(r, "TestAsic")
      <3>1. WithLast("TestAsic", 1 .. MaxChips) \subseteq WithLast("TestAsic", 0 .. MaxChips)
        BY DEF WithLast
      <3>2. QED
        BY <1>4, <1>8, <3>1
    <2>2. \A r \in WithMasks("TestWorkLoopFreq") : As(r, "TestWorkLoopFreq")
      BY <1>5, <1>8
    <2>3. \A r, name : As(r, name) => \A m \in Masks, b \in BOOLEAN : As(F(r, m, b), name)
      BY ZenonT(40) DEF Calls, As
    <2>4. \A r, name : As(r, name) => \A s \in BOOLEAN, b \in BOOLEAN : As(G(r, s, b), name)
      BY ZenonT(40) DEF Calls, As
    <2>5. ModeOfMain = {F(r, m, b) :
            r \in WithLast("TestAsic", 1 .. MaxChips), m \in Masks, b \in BOOLEAN}
                       \cup {G(r, s, b) : r \in WithMasks("TestWorkLoopFreq"), s \in BOOLEAN,
                         b \in BOOLEAN}
      BY DEF ModeOfMain
    <2> HIDE DEF F, G
    <2>6. QED
      BY <1>2, <1>8, <2>1, <2>2, <2>3, <2>4, <2>5
  <1>12. \A q \in ScenarioTestLoop : Fields(q)
    <2>1. \A q \in WithMasks("Mining") : Fields(q)
      BY <1>5, <1>8 DEF As, Some, Fields
    <2>2. \A b \in BOOLEAN : As([Test("ChipSortingBIST") EXCEPT !.full = b], "ChipSortingBIST")
      BY <1>1, <1>8 DEF As, Calls
    <2>3. QED
      BY <1>2, <1>8, <2>1, <2>2 DEF ScenarioTestLoop
  <1>13. \A q \in AutoTests : Fields(q)
    <2> DEFINE B(r, by) == [r EXCEPT !.by = by]
    <2>1. \A r, name : As(r, name) =>
            \A by \in {"BistWithDisable", "AutoTestMining", "DebugPowerBIST"} : As(B(r, by), name)
      BY ZenonT(40) DEF Calls, As
    <2>2. /\ \A r \in WithMasks("TestBist") : As(r, "TestBist")
          /\ \A r \in Short(WithMasks("TestDisableCore")) : As(r, "TestDisableCore")
          /\ As(Test("TestBist"), "TestBist")
      BY <1>1, <1>5, <1>6, <1>8
    <2>3. /\ BistWithDisable = {B(r, "BistWithDisable") : r \in WithMasks("TestBist")}
          /\ AutoTestMining = {B(r, "AutoTestMining") : r \in Short(WithMasks("TestDisableCore"))}
          /\ DebugPowerBIST = {B(Test("TestBist"), "DebugPowerBIST")}
      BY DEF BistWithDisable, AutoTestMining, DebugPowerBIST
    <2> HIDE DEF B
    <2>4. \A q \in BistWithDisable \cup AutoTestMining \cup DebugPowerBIST : Fields(q)
      BY <1>2, <1>8, <2>1, <2>2, <2>3
    <2>5. \A q \in EnableOneCorePosition : Fields(q)
      <3>1. As([Test("TestDisableCore") EXCEPT !.by = "EnableOneCorePosition",
                  !.mask = "disable_some", !.full = FALSE], "TestDisableCore")
        <4>1. Test("TestDisableCore") \in Calls /\ Test("TestDisableCore").test = "TestDisableCore"
          BY <1>1, <1>8 DEF As
        <4>2. \A r \in Calls, by \in {"EnableOneCorePosition"}, m \in Masks, b \in BOOLEAN :
                As([r EXCEPT !.by = by, !.mask = m, !.full = b], r.test)
          BY ZenonT(40) DEF Calls, As
        <4>3. "disable_some" \in Masks
          BY DEF Masks
        <4>4. QED
          BY <4>1, <4>2, <4>3
      <3>2. QED
        BY <1>2, <1>8, <3>1 DEF EnableOneCorePosition
    <2>6. QED
      BY <2>4, <2>5 DEF AutoTests
  <1>14. \A q \in Calls : Fields(q) => Fields([q EXCEPT !.known = FALSE])
    <2>1. \A q \in Calls : /\ [q EXCEPT !.known = FALSE].test = q.test
                           /\ [q EXCEPT !.known = FALSE].mask = q.mask
                           /\ [q EXCEPT !.known = FALSE].full = q.full
      BY DEF Calls
    <2>2. QED
      BY <2>1 DEF Fields
  <1>15. QED
    <2> DEFINE known == SimpleWorkLoop \cup SingleCommandLoop \cup ModeOfMain \cup ScenarioTestLoop
                        \cup AutoTests
    <2>1. \A q \in known : q \in Invocations /\ Fields(q)
      BY <1>9, <1>10, <1>11, <1>12, <1>13 DEF Invocations
    <2>2. \A q \in known : q \in Calls
      BY <2>1, CallTypes DEF Proper
    <2>3. \A r \in Invocations : r \in known \/ \E q \in known : r = [q EXCEPT !.known = FALSE]
      BY DEF Invocations
    <2> HIDE DEF known
    <2>4. QED
      BY <1>14, <2>1, <2>2, <2>3

-----------------------------------------------------------------------------
(* All calls.                                                                *)

\* The last command of the program says "passed".
Passes(p) == p[Len(p)] = Command("END", 0, -1, "passed")

\* A list that ends with "passed" passes.
LEMMA PassesAt ==
  \A S : \A s \in Seq(S) : Passes(s \o Passed)
  <1> SUFFICES ASSUME NEW S, NEW s \in Seq(S) PROVE Passes(s \o Passed)
    OBVIOUS
  <1> DEFINE e == Command("END", 0, -1, "passed")
  <1>1. Passed = <<e>>
    BY DEF Passed, Host, All, Step
  <1> HIDE DEF e
  <1>2. Len(s \o <<e>>) = Len(s) + 1 /\ (s \o <<e>>)[Len(s) + 1] = e
    OBVIOUS
  <1>3. QED
    BY <1>1, <1>2 DEF Passes, e

\* The tests that do not mine.
PassingTests ==
  {"HWReset", "ResetAutoAddress", "TestReadBist", "TestSetPll", "TestBist", "ChipSortingBIST"}
  \cup RegisterTests

\* The programs of the tests that only judge end with "passed".
LEMMA PassingPrograms ==
  ASSUME NEW r \in Invocations, r.test \in PassingTests
  PROVE  Passes(Programs[r])
  <1> DEFINE L == Lacking("PLL_OFF")
  <1>0. Proper(r) /\ r \in Calls /\ Programs[r] = StepsOf(r)
    BY CallTypes DEF Proper, Calls, Programs
  <1>1. "PLL_OFF" \in Rare
    BY DEF Rare
  <1>2. CASE r.test \in RegisterTests
    BY <1>2, ProgramFacts DEF Judges, Passes
  <1>3. /\ Host("HW_RESET", "") \in Seq(L) /\ Start \in Seq(L) /\ ReadBist \in Seq(L)
        /\ Host("AUTO_ADDRESS", "") \o SetPll \in Seq(L)
    BY <1>1, LackingPieces, SeqFacts
  <1>4. /\ Passes(HWReset(r)) /\ Passes(ResetAutoAddress(r)) /\ Passes(TestReadBist(r))
        /\ Passes(TestSetPll(r))
    BY <1>3, PassesAt DEF HWReset, ResetAutoAddress, TestReadBist, TestSetPll
  <1>5. Passes(TestBist(r))
    <2> DEFINE s == Start \o All("RESET", "") \o All("SET_DISABLE", r.mask) \o SetPll
                    \o Vector("golden") \o All("WRITE_NONCE", "golden") \o All("RUN_BIST", "")
                    \o ReadBist
    <2>1. s \in Seq(L)
      BY <1>0, <1>1, CallPieces, LackingPieces, SeqFacts
    <2>2. TestBist(r) = s \o Passed
      BY Zenon DEF TestBist
    <2>3. QED
      BY <2>1, <2>2, PassesAt
  <1>6. Passes(ChipSortingBIST(r))
    <2> DEFINE x == IF r.full THEN SetPllFreq \o RunBist ELSE <<>>
               s == Host("HW_RESET", "") \o BoardType \o Host("AUTO_ADDRESS", "") \o CheckChips
                    \o All("SET_DISABLE", "enable_all") \o SetPllFreq \o RunBist \o x
    <2>1. x \in Seq(L)
      <3>1. <<>> \in Seq(L)
        OBVIOUS
      <3>2. SetPllFreq \o RunBist \in Seq(L)
        BY <1>1, LackingPieces, SeqFacts
      <3>3. QED
        BY <3>1, <3>2
    <2>2. ChipSortingBIST(r) = s \o Passed
      BY Zenon DEF ChipSortingBIST
    <2> HIDE DEF x
    <2>3. s \in Seq(L)
      BY <1>1, <2>1, CallPieces, LackingPieces, SeqFacts
    <2>4. QED
      BY <2>2, <2>3, PassesAt
  <1>7. QED
    BY <1>0, <1>2, <1>4, <1>5, <1>6 DEF StepsOf, PassingTests

\* The calls that cut chips off and bring them back with LAST_CHIP taken from them.
Uncuts(r) == r.test \in {"TestWork", "TestWorkLoop"} /\ r.last > 1

\* Every other test has made sure of what it needs by the time it mines.
LEMMA AllPromised ==
  ASSUME NEW r \in Invocations, r.test \notin PassingTests, ~Uncuts(r)
  PROVE  \E G : Concludes(r, G) /\ Promised(r, G)
  <1>0. /\ Proper(r) /\ r \in Calls /\ r.test \in TestNames /\ Programs[r] = StepsOf(r)
        /\ r.last \in 0 .. MaxChips /\ r.mask \in Masks
    BY CallTypes DEF Proper, Calls, Programs
  <1>1. Fields(r)
    BY CallFields
  <1>2. \A G : Ended(StepsOf(r), G) => Concludes(r, G)
    BY <1>0 DEF Ended, Concludes
  <1>3. CASE r.test \in {"TestWork", "TestWorkLoop"}
    <2>1. r.last \in {0, 1} /\ (r.test = "TestWork" => r.last = 1)
      BY <1>0, <1>3, Bounds DEF Uncuts, Proper
    <2>2. r.mask = "enable_all" /\ Length(r) = "full"
      BY <1>1, <1>3 DEF Fields, Length
    <2>3. Ended(StepsOf(r), WorkFacts(r.mask, Length(r), 1))
      BY <1>3, <2>1, <2>2, TestWorkMines DEF StepsOf
    <2>4. Promised(r, WorkFacts(r.mask, Length(r), 1))
      BY <1>3, PromisedWork
    <2>5. QED
      BY <1>2, <2>3, <2>4
  <1>4. CASE r.test \in {"TestInfiniteWorkLoop", "Mining"}
    <2>1. (r.test = "TestInfiniteWorkLoop" => r.mask = "enable_all") /\ Length(r) = "full"
      BY <1>1, <1>4 DEF Fields, Length
    <2>2. Ended(StepsOf(r), WorkFacts(r.mask, Length(r), 4))
      BY <1>0, <1>4, <2>1, TestInfiniteMines, MiningMines DEF StepsOf
    <2>3. Promised(r, WorkFacts(r.mask, Length(r), 4))
      BY <1>4, PromisedWork
    <2>4. QED
      BY <1>2, <2>2, <2>3
  <1>5. CASE r.test = "TestWorkLoopRandomVector"
    <2>1. Ended(StepsOf(r), RandomFacts(4))
      BY <1>5, TestRandomMines DEF StepsOf
    <2>2. Promised(r, RandomFacts(4))
      BY <1>1, <1>5, PromisedRandom DEF Fields
    <2>3. QED
      BY <1>2, <2>1, <2>2
  <1>6. CASE r.test = "TestAsic"
    <2>1. r.last > 0
      BY <1>0, <1>6 DEF Proper
    <2>2. Ended(StepsOf(r), AsicFacts(r, 1) \cup ShareFacts(Length(r)))
      BY <1>0, <1>6, <2>1, TestAsicMines DEF StepsOf
    <2>3. Promised(r, AsicFacts(r, 1) \cup ShareFacts(Length(r)))
      BY <1>0, <1>6, PromisedAsic
    <2>4. QED
      BY <1>2, <2>2, <2>3
  <1>7. CASE r.test = "TestWorkLoopFreq"
    <2>1. Ended(StepsOf(r), FreqFacts(r, 4) \cup FreqData(r))
      BY <1>0, <1>7, TestFreqMines DEF StepsOf
    <2>2. Promised(r, FreqFacts(r, 4) \cup FreqData(r))
      BY <1>0, <1>7, PromisedFreq
    <2>3. QED
      BY <1>2, <2>1, <2>2
  <1>8. CASE r.test = "TestDisableCore"
    <2>1. Ended(StepsOf(r), DisableFacts(r) \cup RunFacts(r))
      BY <1>0, <1>8, TestDisableMines DEF StepsOf
    <2>2. Promised(r, DisableFacts(r) \cup RunFacts(r))
      BY <1>0, <1>8, PromisedDisable
    <2>3. QED
      BY <1>2, <2>1, <2>2
  <1>9. CASE r.test = "TestMiningWithoutBist"
    <2>1. Ended(StepsOf(r), CfgFacts(r) \cup RunFacts(r))
      BY <1>0, <1>9, TestMiningMines DEF StepsOf
    <2>2. Promised(r, CfgFacts(r) \cup RunFacts(r))
      BY <1>0, <1>9, PromisedMining
    <2>3. QED
      BY <1>2, <2>1, <2>2
  <1>10. CASE r.test = "TestLastChip"
    <2>1. Ended(StepsOf(r), LastFacts(r) \cup RunFacts(r))
      BY <1>0, <1>10, TestLastMines DEF StepsOf
    <2>2. Promised(r, LastFacts(r) \cup RunFacts(r))
      BY <1>0, <1>1, <1>10, PromisedLast DEF Fields
    <2>3. QED
      BY <1>2, <2>1, <2>2
  <1>11. CASE r.test = "TestXCore"
    <2>1. Ended(StepsOf(r), XFacts(r.mask))
      BY <1>0, <1>11, TestXCoreMines DEF StepsOf
    <2>2. Promised(r, XFacts(r.mask))
      BY <1>0, <1>1, <1>11, PromisedXCore DEF Fields
    <2>3. QED
      BY <1>2, <2>1, <2>2
  <1>12. QED
    <2>1. r.test \in {"TestWork", "TestWorkLoop", "TestInfiniteWorkLoop", "Mining",
            "TestWorkLoopRandomVector", "TestAsic", "TestWorkLoopFreq", "TestDisableCore",
            "TestMiningWithoutBist", "TestLastChip", "TestXCore"}
      BY <1>0 DEF TestNames, PassingTests
    <2>2. QED
      BY <2>1, <1>3, <1>4, <1>5, <1>6, <1>7, <1>8, <1>9, <1>10, <1>11

\* A test that mines has made sure of what it needs.
LEMMA MinesPromised ==
  ASSUME TypeInv, KnowInv, MineInv, result = "mining", ~Uncut
  PROVE  \E G : Told(G) /\ Promised(run, G)
  <1>1. run \in Invocations
    BY DEF TypeInv
  <1>2. run.test \notin PassingTests
    <2>1. Programs[run][Len(Programs[run])] = Command("END", 0, -1, "mining")
      BY DEF MineInv, Now
    <2>2. Command("END", 0, -1, "mining").arg = "mining"
          /\ Command("END", 0, -1, "passed").arg = "passed"
      BY DEF Command
    <2>3. ~Passes(Programs[run])
      BY <2>1, <2>2 DEF Passes
    <2>4. QED
      BY <1>1, <2>3, PassingPrograms
  <1>3. ~Uncuts(run)
    BY DEF Uncut, Uncuts
  <1>4. PICK G : Concludes(run, G) /\ Promised(run, G)
    BY <1>1, <1>2, <1>3, AllPromised
  <1>5. Told(G)
    BY <1>4, AtEnd
  <1>6. QED
    BY <1>4, <1>5

\* The inductive invariant of the jobs: the facts known at each command are true.
JobsInv == IInv /\ Recognised /\ KnowInv /\ MineInv /\ DistInv

\* It holds at the start,
LEMMA JobsInit == Init => JobsInv
  BY InvInit, KnowInit, DistInit DEF JobsInv

\* every step keeps it,
LEMMA JobsNext == JobsInv /\ [Next]_vars => JobsInv'
  <1> SUFFICES ASSUME JobsInv, [Next]_vars PROVE JobsInv'
    OBVIOUS
  <1>1. IInv' /\ TypeInv
    BY InvNext DEF JobsInv, IInv
  <1>2. CASE Next
    BY <1>1, <1>2, KnowNext, RecognisedNext, MineNext, DistNext DEF JobsInv
  <1>3. CASE UNCHANGED vars
    <2>1. /\ run' = run /\ pc' = pc /\ result' = result /\ rounds' = rounds /\ fault' = fault
          /\ board' = board /\ health' = health /\ chip' = chip /\ numChips' = numChips
          /\ numCores' = numCores /\ dist' = dist /\ type' = type
      BY <1>3 DEF vars, world, handle
    <2>2. Recognised' /\ MineInv' /\ DistInv'
      BY <2>1 DEF JobsInv, Recognised, MineInv, DistInv, Now
    <2>3. KnowInv'
      <3> SUFFICES ASSUME NEW f, Knows(Programs[run], pc, f)', Trusted(f)' PROVE Holds(f)'
        BY DEF KnowInv
      <3>1. Knows(Programs[run], pc, f) /\ Trusted(f)
        BY <2>1 DEF Trusted, Knows, Annotates, Follows, Programs
      <3>2. Holds(f)
        BY <3>1 DEF JobsInv, KnowInv
      <3>3. Chips' = Chips /\ numChips' = numChips /\ Expected' = Expected
        BY <2>1 DEF Chips, Expected
      <3>4. LastChip' = LastChip /\ Reach' = Reach
        BY <2>1, <3>3 DEF LastChip, Reach
      <3>5. Numbered' = Numbered /\ First' = First
        BY <2>1, <3>3 DEF Numbered, First, Size
      <3>6. AllCores(Expected)' = AllCores(Expected) /\ SumOfCores' = SumOfCores
        BY <2>1, <3>3 DEF AllCores, SumOfCores, Address
      <3>7. ASSUME NEW q PROVE OfChip(q, f)' = OfChip(q, f)
        BY <2>1 DEF OfChip
      <3>8. Address(f.at)' = Address(f.at)
        BY <2>1 DEF Address
      <3>9. Holds(f)' = Holds(f)
        BY <2>1, <3>3, <3>4, <3>5, <3>6, <3>7, <3>8 DEF Holds
      <3>10. QED
        BY <3>2, <3>9
    <2>4. QED
      BY <1>1, <2>2, <2>3 DEF JobsInv
  <1>4. QED
    BY <1>2, <1>3

\* it makes the chips ready for the jobs,
LEMMA InvJobs == JobsInv => JobsReady
  <1> SUFFICES ASSUME JobsInv, Mines, NEW p \in Reach
               PROVE  \/ Ready(p)
                      \/ run.test = "TestXCore" /\ chip[p].addr > 1
                      \/ run.test = "TestAsic" /\ run.last > 1 /\ chip[p].addr \in 2 .. run.last
    BY DEF JobsReady
  <1>1. /\ TypeInv /\ KnowInv /\ MineInv /\ result = "mining" /\ fault = "none" /\ ~Uncut
    BY DEF JobsInv, IInv, Mines
  <1>2. PICK G : Told(G) /\ Promised(run, G)
    BY <1>1, MinesPromised
  <1> DEFINE a == chip[p].addr
  <1>3. a \in Addresses
    <2>1. Holds(NUMBERED) /\ Holds(ANSWERED)
      BY <1>1, <1>2 DEF Told, Trusted, Full, Promised
    <2>2. numChips >= 1 /\ Numbered /\ LastChip = First
      BY <2>1, FactKinds
    <2>3. a \in 1 .. numChips
      BY <1>1, <2>2, OnNumbered
    <2>4. numChips \in -1 .. MaxChips
      BY <1>1 DEF TypeInv
    <2>5. QED
      BY <2>3, <2>4, Bounds DEF Addresses
  <1>4. \/ Made(run, G, a)
        \/ run.test = "TestXCore" /\ a > 1
        \/ run.test = "TestAsic" /\ a \in 2 .. run.last
    BY <1>2, <1>3 DEF Promised
  <1>5. Made(run, G, a) => Ready(p)
    BY <1>1, <1>2, MadeReady
  <1>6. a \in 2 .. run.last => run.last > 1
    <2>1. run.last \in Int
      BY <1>1, CallTypes, Bounds DEF TypeInv, Proper, Calls
    <2> HIDE DEF a
    <2>2. QED
      BY <2>1
  <1>7. QED
    BY <1>4, <1>5, <1>6

\* it makes the ranges of the chips the shares of one distribution,
LEMMA InvShares == JobsInv => SharesPartition
  <1> SUFFICES ASSUME JobsInv, Mines, dist.of > 0, rounds = 1, ~run.same
               PROVE  {chip[p].nonce.part : p \in Reach} = 1 .. dist.of
                      /\ Cardinality(Reach) = dist.of
    BY DEF SharesPartition
  <1>1. /\ TypeInv /\ KnowInv /\ MineInv /\ result = "mining" /\ fault = "none" /\ ~Uncut
        /\ DistInv /\ run \in Invocations
    BY DEF JobsInv, IInv, Mines, TypeInv
  <1>2. PICK G : Told(G) /\ Promised(run, G)
    BY <1>1, MinesPromised
  <1>3. run.test \notin Unshared
    <2>1. PICK k \in 1 .. pc - 1 : Programs[run][k].cmd = "DISTRIBUTE"
      BY <1>1 DEF DistInv
    <2>2. k \in 1 .. Len(Programs[run])
      <3>1. pc \in 1 .. Len(Programs[run]) /\ Len(Programs[run]) \in Nat
        BY <1>1, NowFacts DEF TypeInv, IsProgram
      <3>2. QED
        BY <3>1
    <2>3. QED
      BY <1>1, <2>1, <2>2, UnsharedPrograms
  <1>4. run.test \in Sharing
    <2>1. run.test \in TestNames
      BY <1>1, CallTypes DEF Proper, Calls
    <2>2. run.test \notin PassingTests
      <3>1. Programs[run][Len(Programs[run])] = Command("END", 0, -1, "mining")
        BY <1>1 DEF MineInv, Now
      <3>2. Command("END", 0, -1, "mining").arg = "mining"
            /\ Command("END", 0, -1, "passed").arg = "passed"
        BY DEF Command
      <3>3. QED
        BY <1>1, <3>1, <3>2, PassingPrograms DEF Passes
    <2>3. QED
      BY <1>3, <2>1, <2>2 DEF TestNames, PassingTests, Sharing, Unshared
  <1>5. /\ NUMBERED \in G /\ ANSWERED \in G /\ Share(0) \in G /\ Dist(Length(run)) \in G
    BY <1>2, <1>4 DEF Promised
  <1>6. QED
    BY <1>1, <1>2, <1>5, SharesFrom

\* and it makes a test pass or mine with the cores it expects only.
LEMMA InvChecked == JobsInv => CheckedCores
  <1> SUFFICES ASSUME JobsInv, result = "mining", fault # "late", numChips >= 1,
                      \A p \in Reach : chip[p].clock # "off"
               PROVE  /\ run.test = "TestDisableCore" /\ run.fault = 0 => FoundEach
                      /\ run.test = "TestWorkLoopFreq" => FoundSum
    BY DEF CheckedCores, FoundEach, FoundSum, Expected
  <1>1. TypeInv /\ KnowInv /\ MineInv
    BY DEF JobsInv, IInv
  <1>2. ASSUME run.test \in {"TestDisableCore", "TestWorkLoopFreq"}
        PROVE  \E G : Told(G) /\ Promised(run, G)
    BY <1>1, <1>2, MinesPromised DEF Uncut
  <1>3. ASSUME run.test = "TestDisableCore", run.fault = 0 PROVE FoundEach
    <2>1. PICK G : Told(G) /\ Promised(run, G)
      BY <1>2, <1>3
    <2>2. Judging(G, "each")
      BY <1>3, <2>1 DEF Promised
    <2>3. QED
      BY <1>1, <2>1, <2>2, CoresFrom
  <1>4. ASSUME run.test = "TestWorkLoopFreq" PROVE FoundSum
    <2>1. PICK G : Told(G) /\ Promised(run, G)
      BY <1>2, <1>4
    <2>2. Judging(G, "sum")
      BY <1>4, <2>1 DEF Promised
    <2>3. QED
      BY <1>1, <2>1, <2>2, CoresFrom
  <1>5. QED
    BY <1>3, <1>4

\* The invariant of the jobs holds.
THEOREM JobsInvariant == Spec => []JobsInv
  <1>1. Init => JobsInv
    BY JobsInit
  <1>2. JobsInv /\ [Next]_vars => JobsInv'
    BY JobsNext
  <1>3. QED
    BY <1>1, <1>2, PTL DEF Spec

\* When no transfer fails, every chip on the chain enters the mining loop of any test with the
\* test's data, range and jobs, its interrupt on, its PLL set and the cores BIST found
\* (SimpleWork.c:279, SingleCommand.c:1706), except where TestXCore (SingleCommand.c:444) and
\* TestAsic with a last chip above 1 leave a chip out.
THEOREM JobsAreReady == Spec => []JobsReady
  <1>1. JobsInv => JobsReady
    BY InvJobs
  <1>2. QED
    BY <1>1, JobsInvariant, PTL

\* When no transfer fails, the chips of a test that distributes the nonces search each a share
\* of their own and together all of the range (SimpleWork.c:279, Btc08.c:1241).
THEOREM SharesArePartition == Spec => []SharesPartition
  <1>1. JobsInv => SharesPartition
    BY InvShares
  <1>2. QED
    BY <1>1, JobsInvariant, PTL

\* The count of cores is a sound gate: whatever transfer fails, TestDisableCore mines on chips
\* that have found as many working cores as it asked for (SingleCommand.c:729), the Frequency
\* Test on a board that has.
THEOREM CoresAreChecked == Spec => []CheckedCores
  <1>1. JobsInv => CheckedCores
    BY InvChecked
  <1>2. QED
    BY <1>1, JobsInvariant, PTL

=============================================================================
