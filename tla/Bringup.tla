-------------------------------- MODULE Bringup --------------------------------
(***************************************************************************)
(* What every test of the program does with the hashboard before its loop:  *)
(* reset, AUTO_ADDRESS, last chip, cores, PLL, BIST, interrupts, data, nonce *)
(* ranges and the first jobs, and the tests that are no more than that.     *)
(* The functions of SimpleWork.c, SingleCommand.c, ScenarioTest.c and       *)
(* AutoTest.c are lists of the driver commands they send, in their order,   *)
(* and each command is an action on the chips and on the handle.            *)
(*                                                                          *)
(* A transfer may fail: nothing is sent and the driver returns -1, which    *)
(* most callers drop.  Left out: READ_ID, READ_DISABLE and the broadcast    *)
(* reads whose answers are only logged, the UART divider, the loops that    *)
(* follow the first jobs (modules JobLoops, InfiniteWorkLoop,               *)
(* FrequencyTest, EnableChip).                                              *)
(***************************************************************************)
EXTENDS Integers, Sequences, FiniteSetsExt

CONSTANTS
  MaxChips,  \* bound on the chips of a board
  Cores,     \* BTC08_NUM_CORES
  Faults,    \* what may go wrong, once: "lost" transfer, "late" BIST
  MaxRounds  \* bound on the tests of one run of AutoTest.c or of the menu

FifoDepth == 4      \* MAX_JOB_FIFO_NUM
Masks == {"enable_all", "disable_some"}
Disabled(mask) == IF mask = "enable_all" THEN 0 ELSE 1

ASSUME BringupAssumption ==
  /\ MaxChips \in 1 .. 255 /\ Cores \in Nat \ {0, 1} /\ MaxRounds \in Nat \ {0}
  /\ Faults \subseteq {"lost", "late"}

VARIABLES
  run,     \* the test and its arguments
  pc,      \* its next command
  result,  \* "running", "mining", "passed", "failed" or "crashed"
  rounds,  \* tests started
  fault,   \* what went wrong
  board,   \* "ASIC" or "FPGA"
  health,  \* working cores of each chip; a chip without any is broken
  chip,    \* registers of each chip, chip 1 farthest from the host
  numChips, numCores,  \* of the handle
  dist,    \* of the handle: the range that startNonce and endNonce share out
  type,    \* BOARD_TYPE of get_board_type
  res      \* buffer the test reads registers into

handle == <<numChips, numCores, dist, type, res>>
world  == <<board, health>>
vars   == <<run, pc, result, rounds, fault, world, chip, handle>>

Chips == DOMAIN health
Whole(name)   == [range |-> name, part |-> 0, of |-> 0]
NoRange       == Whole("none")
Reset         == [addr |-> 0, last |-> FALSE, oon |-> FALSE, clock |-> "power_on",
                  mask |-> "enable_all", found |-> 0, param |-> "none", target |-> "none",
                  nonce |-> NoRange, io |-> "default", jobs |-> 0]

\* A chip with LAST_CHIP ends the chain: the chips behind it are cut off.
LastChip == Max({1} \cup {p \in Chips : chip[p].last})
Reach    == LastChip .. Cardinality(Chips)
Hit(to)  == {p \in Reach : to = 0 \/ chip[p].addr = to}

-----------------------------------------------------------------------------
(* The commands of the tests.  "to" is the address, 0 for a broadcast; a    *)
(* step of a loop over the chips is taken if numChips is at least "need";   *)
(* "must" marks the steps whose result the caller looks at.                 *)

Command(cmd, to, need, arg) == [cmd |-> cmd, to |-> to, need |-> need, arg |-> arg, must |-> FALSE]
Must(s)               == [s EXCEPT !.must = TRUE]
Step(cmd, to, need, arg) == <<Command(cmd, to, need, arg)>>
All(cmd, arg)         == Step(cmd, 0, -1, arg)
One(a, cmd, arg)      == Step(cmd, a, -1, arg)
Host(cmd, arg)        == All(cmd, arg)
Addresses             == 1 .. MaxChips
Each(cmd, arg)        == [a \in Addresses |-> Command(cmd, a, a, arg)]
From(first, cmd, arg) == [k \in 1 .. MaxChips + 1 - first |->
                            Command(cmd, k + first - 1, k + first - 1, arg)]

\* The loops with more than one step: n rounds of m steps.
Rounds(n, m, body) == [k \in 1 .. n * m |-> body[((k - 1) \div m) + 1][((k - 1) % m) + 1]]

LastOrTop == -1  \* the address asked for, or the highest there is

LAST     == [last |-> TRUE,  oon |-> FALSE]
OON      == [last |-> FALSE, oon |-> TRUE]
LAST_OON == [last |-> TRUE,  oon |-> TRUE]

Start       == Host("HW_RESET", "") \o Host("AUTO_ADDRESS", "")

\* Plausible slips, used to test the properties below, are apart: ...NumberedFirst,
\* ...Untargeted, ...OffByOne, ...Unchecked.
SetLastNumberedFirst(a, control) == Host("AUTO_ADDRESS", "") \o One(a, "SET_CONTROL", control)

SetLast(a, control) == One(a, "SET_CONTROL", control) \o Host("AUTO_ADDRESS", "")

BoardType   == All("READ_FEATURE", "")
SetPllFreq  == Host("PLL_FREQ", "") \o Each("SET_PLL", "")
SetPll      == BoardType \o SetPllFreq
Vector(v)   == All("WRITE_PARAM", v) \o All("WRITE_TARGET", v)
ReadBist    == Each("READ_BIST", "")

RunBistUntargeted ==
  All("WRITE_PARAM", "golden") \o All("WRITE_NONCE", "golden") \o All("RUN_BIST", "") \o ReadBist

RunBist ==
  Vector("golden") \o All("WRITE_NONCE", "golden") \o All("RUN_BIST", "") \o ReadBist

SharesOffByOne(range) ==
  Host("DISTRIBUTE", range) \o [a \in Addresses |-> Command("WRITE_NONCE", a - 1, a, "share")]

Shares(range) == Host("DISTRIBUTE", range) \o Each("WRITE_NONCE", "share")

Jobs(n)       == [k \in 1 .. n |-> Command("RUN_JOB", 0, -1, "")]
Mine          == Host("END", "mining")
Passed        == Host("END", "passed")
Length(r)     == IF r.full THEN "full" ELSE "small"

(* SimpleWork.c *)

TestWork(r) ==
  Start \o All("RESET", "") \o SetLast(r.last, LAST) \o All("SET_DISABLE", "enable_all") \o SetPll
  \o RunBist \o All("SET_CONTROL", OON) \o Vector("vector") \o Shares("full") \o Jobs(1) \o Mine

TestWorkLoop(r) ==
  Start \o All("RESET", "") \o (IF r.last # 0 THEN SetLast(r.last, LAST) ELSE <<>>)
  \o All("SET_DISABLE", "enable_all") \o SetPll
  \o RunBist \o All("SET_CONTROL", OON) \o Vector("vector") \o Shares("full") \o Jobs(1) \o Mine

RandomJob == All("WRITE_PARAM", "vector") \o All("RUN_JOB", "")

SetWork == Vector("vector") \o All("RUN_JOB", "")

TestInfiniteWorkLoop(r) ==
  Start \o All("RESET", "") \o All("SET_DISABLE", "enable_all") \o SetPll
  \o RunBist \o All("SET_CONTROL", OON) \o Shares("full")
  \o SetWork \o SetWork \o SetWork \o SetWork \o Mine

TestWorkLoopRandomVector(r) ==
  Start \o All("RESET", "") \o All("SET_DISABLE", "enable_all") \o RunBist
  \o Host("DISTRIBUTE", "full") \o All("SET_CONTROL", OON) \o All("WRITE_TARGET", "vector")
  \o Each("WRITE_NONCE", "share")
  \o RandomJob \o RandomJob \o RandomJob \o RandomJob \o Mine

(* SingleCommand.c *)

RunJobUntargeted(r) ==
  All("WRITE_PARAM", "golden") \o Each("WRITE_NONCE", Length(r)) \o Jobs(FifoDepth) \o Mine

RunJob(r) == Vector("golden") \o Each("WRITE_NONCE", Length(r)) \o Jobs(FifoDepth) \o Mine

Run1Job(r) ==
  All("WRITE_TARGET", "golden") \o One(1, "WRITE_NONCE", "small") \o Jobs(1) \o Mine

HWReset(r)          == Host("HW_RESET", "") \o Passed
ResetAutoAddress(r) == Start \o Passed
TestReadBist(r)     == ReadBist \o Passed
TestSetPll(r)       == Host("AUTO_ADDRESS", "") \o SetPll \o Passed

GoldenNonce ==
  All("WRITE_PARAM", "golden") \o All("WRITE_NONCE", "golden") \o All("WRITE_TARGET", "golden")

\* "Last chip test": chips are cut off one by one, the last one is left without a clock.
CutFaultChips(r) ==
  IF r.fault = 0 THEN <<>>
  ELSE Rounds(r.fault - 1, 2, [k \in 1 .. r.fault - 1 |-> SetLast(2, LAST_OON)])
       \o One(1, "PLL_OFF", "")

TestLastChip(r) ==
  Start \o SetPll \o GoldenNonce \o All("SET_DISABLE", "enable_all")
  \o All("RUN_BIST", "") \o ReadBist
  \o Step("SET_CONTROL", 1, 1, LAST_OON) \o Step("AUTO_ADDRESS", 0, 1, "")
  \o From(2, "SET_CONTROL", OON) \o CutFaultChips(r) \o All("RUN_BIST", "") \o ReadBist
  \o RunJob(r)

TestDisableCore(r) ==
  Start \o SetPll \o GoldenNonce \o Each("SET_DISABLE", r.mask) \o All("RUN_BIST", "") \o ReadBist
  \o All("SET_CONTROL", OON) \o CutFaultChips(r) \o One(1, "SET_CONTROL", LAST_OON)
  \o Host("CHECK_CORES", "each") \o RunJob(r)

TestMiningWithoutBist(r) ==
  Start \o SetPll \o Each("SET_DISABLE", r.mask) \o Each("WRITE_CORE_CFG", r.mask)
  \o All("SET_CONTROL", OON) \o CutFaultChips(r) \o One(1, "SET_CONTROL", LAST_OON)
  \o Each("SET_DISABLE", r.mask) \o RunJob(r)

TestBist(r) ==
  Start \o All("RESET", "") \o All("SET_DISABLE", r.mask) \o SetPll \o Vector("golden")
  \o All("WRITE_NONCE", "golden") \o All("RUN_BIST", "") \o ReadBist \o Passed

\* A difference found in the first loop is only printed, as "debug" is 0.
Compare(a, reg, value, hard) ==
  Command("COMPARE", a, a, [reg |-> reg, value |-> value, hard |-> hard])
CompareAll(reg, value, hard) == [a \in Addresses |-> Compare(a, reg, value, hard)]
MustCompareAll(reg, value, hard) == [a \in Addresses |-> Must(Compare(a, reg, value, hard))]
MustAll(cmd, arg) == <<Must(Command(cmd, 0, -1, arg))>>

TestWRTarget(r) ==
  Start
  \o Rounds(MaxChips, 2, [a \in Addresses |-> <<Must(Command("WRITE_TARGET", a, a, "golden")),
                                                Compare(a, "target", "golden", FALSE)>>])
  \o MustAll("WRITE_TARGET", "golden") \o CompareAll("target", "golden", TRUE) \o Passed

BistFor(a) ==
  <<Command("WRITE_PARAM", 0, a, "golden"), Command("WRITE_TARGET", 0, a, "golden"),
    Command("WRITE_NONCE", 0, a, "golden"), Command("RUN_BIST", 0, a, "")>>

\* Address a is written and compared with entry a - 1 of test_data1, which has three
\* (SingleCommand.c:1080, 1103, 1113).  From the fourth chip on that is whatever lies behind
\* the array: the program may end there, and if it does not both take the same value,
\* here again disable_some.
TestWRDisable(r) ==
  Start \o All("RESET", "")
  \o CompareAll("mask", "disable_some", FALSE)
  \o Rounds(MaxChips, 6, [a \in Addresses |->
       <<Must(Command("SET_DISABLE", a, a, "disable_some"))>> \o BistFor(a)
       \o <<Compare(a, "mask", "disable_some", TRUE)>>])
  \o ReadBist \o MustAll("SET_DISABLE", "enable_all") \o BistFor(-1)
  \o CompareAll("mask", "enable_all", TRUE) \o ReadBist \o Passed

TestReadRevision(r) ==
  Start \o MustCompareAll("revision", "fixed", TRUE) \o Passed

TestReadFeature(r) ==
  Start \o MustCompareAll("feature", "fixed", TRUE) \o Passed

TestIOCtrlUnchecked(r) ==
  Start \o MustCompareAll("io", "default", FALSE) \o MustAll("WRITE_IO_CTRL", "written") \o Passed

TestIOCtrl(r) ==
  Start \o MustCompareAll("io", "default", TRUE) \o MustAll("WRITE_IO_CTRL", "written")
  \o MustCompareAll("io", "written", TRUE) \o Passed

\* SET_CONTROL 24 and 17 have OON_IRQ_EN and not LAST_CHIP.
TestXCore(r) ==
  Start \o SetPll \o All("SET_CONTROL", OON)
  \o Rounds(MaxChips, 3, [a \in Addresses |-> <<Command("WRITE_PARAM", a, a, "golden"),
                                                Command("WRITE_NONCE", a, a, "golden"),
                                                Command("WRITE_TARGET", a, a, "golden")>>])
  \o Each("SET_DISABLE", r.mask) \o Each("RUN_BIST", "") \o ReadBist
  \o All("SET_CONTROL", OON) \o Run1Job(r)

TestAsic(r) ==
  Start \o All("RESET", "") \o SetLast(LastOrTop, LAST_OON) \o Each("SET_DISABLE", r.mask)
  \o SetPll
  \o RunBist \o From(r.last + 1, "SET_CONTROL", OON) \o Vector("vector") \o Shares(Length(r))
  \o Jobs(1) \o Mine

TestWorkLoopFreq(r) ==
  Start \o All("RESET", "") \o SetLast(1, LAST_OON) \o Each("SET_DISABLE", r.mask) \o SetPll
  \o RunBist \o Host("CHECK_CORES", "sum") \o From(2, "SET_CONTROL", OON) \o Vector("vector")
  \o (IF r.same THEN Each("WRITE_NONCE", IF r.full THEN "full" ELSE "full_to_small")
                ELSE Shares(Length(r)))
  \o Jobs(FifoDepth) \o Mine

(* ScenarioTest.c *)

CheckChips == Host("CHECK_CHIPS", "") \o Each("CHECK_ID", "")

\* The loop over the cores runs from 0: a broadcast, then all chips but the last.
InitializeMiningkLoop(r) ==
  Start \o All("RESET", "") \o Step("SET_DISABLE", 0, 1, r.mask)
  \o [a \in Addresses |-> Command("SET_DISABLE", a, a + 1, r.mask)] \o SetPll \o RunBist
  \o All("SET_CONTROL", OON) \o Host("DISTRIBUTE", "full")

AddGoldenJob == Vector("vector") \o Each("WRITE_NONCE", "share") \o All("RUN_JOB", "")

Mining(r) ==
  InitializeMiningkLoop(r) \o CheckChips
  \o AddGoldenJob \o AddGoldenJob \o AddGoldenJob \o AddGoldenJob \o Mine

\* With frequency 0 the whole PLL table is gone through, here two entries of it.
ChipSortingBIST(r) ==
  Host("HW_RESET", "") \o BoardType \o Host("AUTO_ADDRESS", "") \o CheckChips
  \o All("SET_DISABLE", "enable_all") \o SetPllFreq \o RunBist
  \o (IF r.full THEN SetPllFreq \o RunBist ELSE <<>>) \o Passed

-----------------------------------------------------------------------------
(* Who calls them: "by" is the menu, or the loop of AutoTest.c.             *)

Default == [test |-> "none", by |-> "command", last |-> 0, fault |-> 0, mask |-> "enable_all",
            full |-> TRUE, same |-> FALSE, known |-> TRUE]
Test(name) == [Default EXCEPT !.test = name]

WithLast(name, lasts)  == {[Test(name) EXCEPT !.last = l] : l \in lasts}
WithMasks(name)        == {[Test(name) EXCEPT !.mask = m] : m \in Masks}
Short(calls)           == {[r EXCEPT !.full = FALSE] : r \in calls}
WithFaults(name)       == {[r EXCEPT !.fault = f] :
                              r \in Short(WithMasks(name)), f \in 0 .. MaxChips}
RegisterTests ==
  {"TestWRTarget", "TestWRDisable", "TestReadRevision", "TestReadFeature", "TestIOCtrl"}

\* The user names the last chip by an id, and ids start at 1.  Left out: a last chip 0,
\* which the menu takes for TestWork (SimpleWork.c:1160) and main for TestAsic (-L 0,
\* main.c:181).  Its SET_CONTROL is a broadcast: every chip becomes a last one and
\* the board is down to the chip nearest to the host.  TestWorkLoop tests for 0 first
\* (447).
SimpleWorkLoop ==
  WithLast("TestWork", 1 .. MaxChips) \cup WithLast("TestWorkLoop", 0 .. MaxChips)
  \cup {Test("TestInfiniteWorkLoop"), Test("TestWorkLoopRandomVector")}

SingleCommandLoop ==
  {Test(name) : name \in RegisterTests} \cup WithMasks("TestBist")
  \cup {r \in WithFaults("TestLastChip") : r.mask = "enable_all"}
  \cup WithFaults("TestDisableCore")
  \cup WithFaults("TestMiningWithoutBist") \cup Short(WithMasks("TestXCore"))
  \cup {[Test(name) EXCEPT !.by = "menu"] :
           name \in {"HWReset", "ResetAutoAddress", "TestSetPll", "TestReadBist"}}

\* TestAsic without -L 0, as above.
ModeOfMain ==
  {[r EXCEPT !.mask = m, !.full = b] :
     r \in WithLast("TestAsic", 1 .. MaxChips), m \in Masks, b \in BOOLEAN}
  \cup {[r EXCEPT !.same = s, !.full = b] :
           r \in WithMasks("TestWorkLoopFreq"), s \in BOOLEAN, b \in BOOLEAN}

ScenarioTestLoop ==
  WithMasks("Mining") \cup {[Test("ChipSortingBIST") EXCEPT !.full = b] : b \in BOOLEAN}

BistWithDisable       == {[r EXCEPT !.by = "BistWithDisable"] : r \in WithMasks("TestBist")}
EnableOneCorePosition == {[Test("TestDisableCore") EXCEPT !.by = "EnableOneCorePosition",
                             !.mask = "disable_some", !.full = FALSE]}
AutoTestMining        == {[r EXCEPT !.by = "AutoTestMining"] :
                             r \in Short(WithMasks("TestDisableCore"))}
DebugPowerBIST        == {[Test("TestBist") EXCEPT !.by = "DebugPowerBIST"]}
AutoTests == BistWithDisable \cup EnableOneCorePosition \cup AutoTestMining \cup DebugPowerBIST

Invocations ==
  LET known == SimpleWorkLoop \cup SingleCommandLoop \cup ModeOfMain \cup ScenarioTestLoop
               \cup AutoTests
  IN  known \cup {[r EXCEPT !.known = FALSE] : r \in {s \in known : s.mask = "enable_all"
                                                       /\ s.fault = 0 /\ s.last < 2
                                                       /\ s.test # "TestXCore"}}

StepsOf(r) ==
  [TestWork |-> TestWork(r), TestWorkLoop |-> TestWorkLoop(r),
   TestInfiniteWorkLoop |-> TestInfiniteWorkLoop(r),
   TestWorkLoopRandomVector |-> TestWorkLoopRandomVector(r), HWReset |-> HWReset(r),
   ResetAutoAddress |-> ResetAutoAddress(r), TestReadBist |-> TestReadBist(r),
   TestSetPll |-> TestSetPll(r), TestLastChip |-> TestLastChip(r),
   TestDisableCore |-> TestDisableCore(r), TestMiningWithoutBist |-> TestMiningWithoutBist(r),
   TestBist |-> TestBist(r), TestWRTarget |-> TestWRTarget(r),
   TestWRDisable |-> TestWRDisable(r), TestReadRevision |-> TestReadRevision(r),
   TestReadFeature |-> TestReadFeature(r), TestIOCtrl |-> TestIOCtrl(r),
   TestXCore |-> TestXCore(r), TestAsic |-> TestAsic(r),
   TestWorkLoopFreq |-> TestWorkLoopFreq(r), Mining |-> Mining(r),
   ChipSortingBIST |-> ChipSortingBIST(r)][r.test]

Programs == [r \in Invocations |-> StepsOf(r)]
Now == Programs[run][pc]
To  == IF Now.to = LastOrTop THEN Min({run.last, numChips}) ELSE Now.to

-----------------------------------------------------------------------------
Init ==
  /\ run \in Invocations /\ pc = 1 /\ result = "running" /\ rounds = 1 /\ fault = "none"
  /\ board \in {"ASIC", "FPGA"}
  /\ \E n \in 1 .. MaxChips :
       /\ health \in [1 .. n -> 0 .. Cores]
       /\ Cardinality({p \in 1 .. n : health[p] < Cores}) <= 1
       /\ chip = [p \in 1 .. n |-> Reset]
  /\ numChips = 0 /\ numCores = [a \in 1 .. MaxChips |-> [cores |-> 0, chip |-> 0]]
  /\ dist = NoRange /\ type = "ASIC" /\ res = "zero"

Address(a) == a \in 1 .. numChips
ChipAt(a)  == IF Hit(a) = {} THEN 0 ELSE Max(Hit(a))

\* The sum of numCores over the chips, each of its cores counted as a pair.
SumOfCores ==
  Cardinality({c \in Addresses \X (1 .. Cores) : Address(c[1]) /\ c[2] <= numCores[c[1]].cores})

At(cmds) == result = "running" /\ Now.cmd \in cmds /\ Now.need <= numChips
Advance  == pc' = pc + 1 /\ UNCHANGED result
Finish(r) == result' = r /\ UNCHANGED pc
Fine     == UNCHANGED fault
GoWrong(kind) == kind \in Faults /\ fault = "none" /\ fault' = kind
NextTest == <<run, rounds>>

HWResetStep ==
  /\ At({"HW_RESET"}) /\ chip' = [p \in Chips |-> Reset] /\ Advance /\ Fine
  /\ UNCHANGED <<NextTest, world, handle>>

\* The answer of AUTO_ADDRESS, and a slip in it.
NumberOfChipsAndHost == Cardinality(Reach) + 1

NumberOfChips == Cardinality(Reach)

\* Btc08AutoAddress numbers the chips on the chain from its end.
AutoAddress ==
  /\ At({"AUTO_ADDRESS"}) /\ Advance
  /\ \/ /\ Fine /\ numChips' = NumberOfChips
        /\ chip' = [p \in Chips |-> IF p \in Reach THEN [chip[p] EXCEPT !.addr = p - LastChip + 1]
                                                   ELSE chip[p]]
     \/ GoWrong("lost") /\ numChips' = -1 /\ UNCHANGED chip
  /\ UNCHANGED <<NextTest, world, numCores, dist, type, res>>

\* BIST compares what each enabled core finds for the golden nonce.
BistFinds(c, cores) ==
  IF c.clock = "off" THEN c.found
  ELSE IF c.param = "golden" /\ c.target = "golden" /\ c.nonce = Whole("golden")
    THEN Min({cores, Cores - Disabled(c.mask)})
    ELSE 0

\* What a chip does with the command it gets.
Effect(c, cores, s) ==
  [addr |-> c.addr, clock |-> IF s.cmd = "PLL_OFF" /\ board = "ASIC" THEN "off" ELSE c.clock,
   last   |-> IF s.cmd = "SET_CONTROL" THEN s.arg.last ELSE c.last,
   oon    |-> IF s.cmd = "SET_CONTROL" THEN s.arg.oon ELSE c.oon,
   mask   |-> IF s.cmd = "SET_DISABLE" THEN s.arg ELSE c.mask,
   param  |-> IF s.cmd = "WRITE_PARAM" THEN s.arg ELSE c.param,
   target |-> IF s.cmd = "WRITE_TARGET" THEN s.arg ELSE c.target,
   nonce  |-> IF s.cmd # "WRITE_NONCE" THEN c.nonce
              ELSE IF s.arg = "share" THEN [dist EXCEPT !.part = s.to] ELSE Whole(s.arg),
   io     |-> IF s.cmd = "WRITE_IO_CTRL" THEN s.arg ELSE c.io,
   found  |-> IF s.cmd = "RUN_BIST" THEN BistFinds(c, cores)
              ELSE IF s.cmd = "WRITE_CORE_CFG" THEN Cores - Disabled(s.arg) ELSE c.found,
   jobs   |-> IF s.cmd = "RESET" THEN 0
              ELSE IF s.cmd = "RUN_JOB" THEN Min({c.jobs + 1, FifoDepth}) ELSE c.jobs]

Writes == {"RESET", "SET_CONTROL", "SET_DISABLE", "WRITE_PARAM", "WRITE_TARGET", "WRITE_NONCE",
           "WRITE_CORE_CFG", "WRITE_IO_CTRL", "RUN_BIST", "PLL_OFF", "RUN_JOB"}

Write ==
  /\ At(Writes)
  /\ \/ /\ Fine /\ Advance
        /\ chip' = [p \in Chips |->
             IF p \in Hit(To) THEN Effect(chip[p], health[p], Now) ELSE chip[p]]
     \/ /\ GoWrong("lost") /\ UNCHANGED chip
        /\ IF Now.must THEN Finish("failed") ELSE Advance
  /\ UNCHANGED <<NextTest, world, handle>>

\* get_board_type: anything but the feature of an ASIC is an FPGA, no answer too.
GetBoardType ==
  /\ At({"READ_FEATURE"}) /\ Advance
  /\ \/ Fine /\ type' = board
     \/ GoWrong("lost") /\ type' = "FPGA"
  /\ UNCHANGED <<NextTest, world, chip, numChips, numCores, dist, res>>

GetPllFreq2Idx ==
  /\ At({"PLL_FREQ"}) /\ Fine
  /\ IF type = "ASIC" /\ ~run.known THEN Finish("failed") ELSE Advance
  /\ UNCHANGED <<NextTest, world, chip, handle>>

\* Five commands: with one of them lost the PLL may keep its frequency or its output off.
SetPllConfigByIdx ==
  /\ At({"SET_PLL"}) /\ Advance
  /\ \E clock \in {"power_on", "set", "off"} :
       /\ IF type = "FPGA" \/ clock = "set" THEN Fine ELSE GoWrong("lost")
       /\ type = "FPGA" => clock = "set"
       /\ chip' = [p \in Chips |->
            IF type = "ASIC" /\ p \in Hit(Now.to) /\ ~(clock = "power_on" /\ chip[p].clock = "set")
              THEN [chip[p] EXCEPT !.clock = clock] ELSE chip[p]]
  /\ UNCHANGED <<NextTest, world, handle>>

\* Ten polls, then the count is taken as it is; a lost answer is a NULL pointer.
ReadBistStep ==
  /\ At({"READ_BIST"}) /\ UNCHANGED chip
  /\ \/ /\ Advance
        /\ LET p == ChipAt(Now.to) IN \E n \in 0 .. Cores :
             /\ numCores' = [numCores EXCEPT ![Now.to] = [cores |-> n, chip |-> p]]
             /\ \/ Fine /\ (IF p = 0 THEN TRUE ELSE chip[p].clock # "off" => n = chip[p].found)
                \/ GoWrong("late")
     \/ GoWrong("lost") /\ Finish("crashed") /\ UNCHANGED numCores
  /\ UNCHANGED <<NextTest, world, numChips, dist, type, res>>

\* DistributionNonce divides by the number of cores.
DistributionNonce ==
  /\ At({"DISTRIBUTE"}) /\ Fine
  /\ IF SumOfCores = 0
       THEN Finish("crashed") /\ UNCHANGED dist
       ELSE Advance /\ dist' = [range |-> Now.arg, part |-> 0, of |-> numChips]
  /\ UNCHANGED <<NextTest, world, chip, numChips, numCores, type, res>>

\* The check of TestDisableCore, and a slip in it.
AnyCores(expected) == \E a \in 1 .. MaxChips : Address(a) /\ numCores[a].cores = expected

AllCores(expected) == \A a \in 1 .. MaxChips : Address(a) => numCores[a].cores = expected

CheckCores ==
  LET expected == Cores - Disabled(run.mask)
  IN  /\ At({"CHECK_CORES"}) /\ Fine
      /\ IF Now.arg = "each" THEN IF AllCores(expected) THEN Advance ELSE Finish("failed")
         ELSE IF SumOfCores = numChips * expected THEN Advance ELSE Finish("failed")
      /\ UNCHANGED <<NextTest, world, chip, handle>>

CheckNumChips ==
  /\ At({"CHECK_CHIPS"}) /\ Fine
  /\ IF numChips < 1 THEN Finish("failed") ELSE Advance
  /\ UNCHANGED <<NextTest, world, chip, handle>>

\* A lost READ_ID leaves the id of the chip before in the buffer.
CheckId ==
  /\ At({"CHECK_ID"})
  /\ \/ Fine /\ (IF ChipAt(Now.to) # 0 THEN Advance ELSE Finish("failed"))
     \/ GoWrong("lost") /\ Finish("failed")
  /\ UNCHANGED <<NextTest, world, chip, handle>>

Register(p, reg) ==
  IF p = 0 \/ health[p] = 0 THEN "garbage"
  ELSE [target |-> chip[p].target, mask |-> chip[p].mask, io |-> chip[p].io,
        revision |-> "fixed", feature |-> "fixed"][reg]

ReadAndCompare ==
  /\ At({"COMPARE"})
  /\ \/ Fine /\ res' = Register(ChipAt(Now.to), Now.arg.reg)
     \/ GoWrong("lost") /\ UNCHANGED res
  /\ IF (Now.arg.hard /\ res' # Now.arg.value) \/ (Now.must /\ fault' # fault)
       THEN Finish("failed") ELSE Advance
  /\ UNCHANGED <<NextTest, world, chip, numChips, numCores, dist, type>>

LoopEnds ==
  /\ result = "running" /\ Now.need > numChips /\ Advance /\ Fine
  /\ UNCHANGED <<NextTest, world, chip, handle>>

End ==
  /\ At({"END"}) /\ Finish(Now.arg) /\ Fine
  /\ UNCHANGED <<NextTest, world, chip, handle>>

\* AutoTest.c goes on with the same handle and holds the board in reset between two
\* tests, DebugPowerBIST and the menu leave it as it is.
Again ==
  /\ result \in {"mining", "passed", "failed"} /\ run.by # "command" /\ rounds < MaxRounds
  /\ \E r \in Invocations : r.by = run.by /\ r.known = run.known /\ run' = r
  /\ pc' = 1 /\ result' = "running" /\ rounds' = rounds + 1 /\ res' = "zero"
  /\ chip' = IF run.by \in {"menu", "DebugPowerBIST"} THEN chip ELSE [p \in Chips |-> Reset]
  /\ UNCHANGED <<fault, world, numChips, numCores, dist, type>>

Next ==
  \/ HWResetStep \/ AutoAddress \/ Write \/ GetBoardType \/ GetPllFreq2Idx \/ SetPllConfigByIdx
  \/ ReadBistStep \/ DistributionNonce \/ CheckCores \/ CheckNumChips \/ CheckId \/ ReadAndCompare
  \/ LoopEnds \/ End \/ Again

Spec == Init /\ [][Next]_vars

-----------------------------------------------------------------------------
TypeOK ==
  /\ run \in Invocations /\ pc \in 1 .. Len(Programs[run]) /\ rounds \in 1 .. MaxRounds
  /\ result \in {"running", "mining", "passed", "failed", "crashed"}
  /\ fault \in {"none"} \cup Faults
  /\ numChips \in -1 .. MaxChips
  /\ numCores \in [1 .. MaxChips -> [cores : 0 .. Cores, chip : 0 .. MaxChips]]
  /\ \A p \in Chips :
       /\ chip[p].addr \in 0 .. Cardinality(Chips) /\ chip[p].jobs \in 0 .. FifoDepth
       /\ chip[p].found \in 0 .. Cores /\ chip[p].mask \in Masks

\* What TestWork and TestWorkLoop do with a last chip other than 1: the broadcast of
\* SET_CONTROL after BIST takes LAST_CHIP back and the chips cut off are there again.
Uncut == run.test \in {"TestWork", "TestWorkLoop"} /\ run.last > 1

Mines == result = "mining" /\ fault = "none" /\ ~Uncut

Asked ==
  IF run.test \in {"TestLastChip", "TestDisableCore", "TestMiningWithoutBist", "TestXCore"}
    THEN [data |-> "golden", range |-> Length(run)]
    ELSE [data |-> "vector", range |-> Length(run)]

JobSteps == Cardinality({k \in DOMAIN Programs[run] : Programs[run][k].cmd = "RUN_JOB"})

Ready(p) ==
  /\ chip[p].param = Asked.data /\ chip[p].target = Asked.data
  /\ \/ chip[p].nonce.range = Asked.range
     \/ run.test = "TestWorkLoopFreq" /\ run.same
  /\ chip[p].oon
  /\ board = "ASIC" => \/ chip[p].clock = "set"
                       \/ run.test = "TestWorkLoopRandomVector"
                       \/ run.fault > 0 /\ chip[p].addr = 1
  /\ chip[p].found = IF run.test = "TestMiningWithoutBist" THEN Cores - Disabled(run.mask)
                     ELSE Min({health[p], Cores - Disabled(chip[p].mask)})
  /\ chip[p].mask = run.mask
  /\ chip[p].jobs = JobSteps

\* When no transfer fails, every chip on the chain enters the mining loop with the jobs
\* of the test, the data and the range they are for, its interrupt enabled, its PLL set
\* and the cores BIST found good.  Not so for two calls: TestXCore writes a nonce range
\* to chip 1 only (SingleCommand.c:444), TestAsic with a last chip above 1 enables the
\* interrupt from last_chipId + 1 on although the chips were numbered again
\* (SingleCommand.c:1706).
JobsReady ==
  Mines => \A p \in Reach :
    \/ Ready(p)
    \/ run.test = "TestXCore" /\ chip[p].addr > 1
    \/ run.test = "TestAsic" /\ run.last > 1 /\ chip[p].addr \in 2 .. run.last

\* When no transfer fails, the chips of a test that distributes the nonces search each a
\* share of their own and together all of the range (SimpleWork.c:279, Btc08.c:1241).
SharesPartition ==
  Mines /\ dist.of > 0 /\ rounds = 1 /\ ~run.same =>
    {chip[p].nonce.part : p \in Reach} = 1 .. dist.of /\ Cardinality(Reach) = dist.of

\* The counts of cores that the nonces are distributed by and that a test is judged by
\* were read from the chips that have these addresses now: no renumbering comes between
\* READ_BIST and their use, whatever transfer fails.  TestDisableCore with a fault chip
\* above 1 does renumber in between (SingleCommand.c:729).
CoresMatch ==
  /\ result = "running" /\ Now.cmd \in {"DISTRIBUTE", "CHECK_CORES"}
  /\ ~(run.test = "TestDisableCore" /\ run.fault > 1)
  => \A a \in 1 .. MaxChips : Address(a) => numCores[a].chip = ChipAt(a) /\ ChipAt(a) # 0

\* A board with a good core never makes the program divide by zero, as long as
\* every transfer gets through and BIST ends in time (Btc08.c:1265).
NoCrash ==
  result = "crashed" /\ fault = "none" =>
    \A a \in 1 .. MaxChips :
      Address(a) /\ numCores[a].chip # 0 => health[numCores[a].chip] = 0

\* A register test passes no broken chip, and the tests that look at the result of every
\* read not even when a transfer fails.  The other two then compare with what the buffer
\* still holds.  A lost AUTO_ADDRESS leaves no chip to look at and every test passes.
VerdictSound ==
  /\ result = "passed" /\ run.test \in RegisterTests /\ numChips >= 1
  /\ fault = "none" \/ run.test \in {"TestReadRevision", "TestReadFeature", "TestIOCtrl"}
  => \A p \in Reach : health[p] > 0

\* The count of cores is a sound gate: whatever transfer fails, TestDisableCore mines on
\* chips that have found as many working cores as it asked for, the Frequency Test on
\* a board that has.  Which cores is another matter: a lost SET_DISABLE goes unnoticed
\* on a chip with broken cores, and the sum lets one chip make up for another.  BIST has
\* to end in time, which it never does on a chip whose PLL was left off.
CheckedCores ==
  LET expected == Cores - Disabled(run.mask)
      Found    == Cardinality({c \in Reach \X (1 .. Cores) : c[2] <= chip[c[1]].found})
  IN  /\ result = "mining" /\ fault # "late" /\ numChips >= 1
      /\ \A p \in Reach : chip[p].clock # "off"
      => /\ run.test = "TestDisableCore" /\ run.fault = 0 =>
              \A p \in Reach : chip[p].found = expected /\ expected <= health[p]
         /\ run.test = "TestWorkLoopFreq" =>
              Found = Cardinality(Reach) * expected /\ \A p \in Reach : chip[p].found <= health[p]

\* A test asked for the short range searches no more than that: main.c:119 and the log
\* of SingleCommand.c:1988 say so.
ShortRange ==
  result = "mining" /\ fault = "none" /\ ~run.full =>
    \A p \in Reach : chip[p].nonce.range \in {"small", "golden"}
=============================================================================
