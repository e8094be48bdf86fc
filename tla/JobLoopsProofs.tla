---------------------------- MODULE JobLoopsProofs ----------------------------
(***************************************************************************)
(* Proofs about JobLoops, for any number of chips, any FIFO depth, any works *)
(* and any range of job ids.  Two accounts carry them: TestWorkLoop sends a  *)
(* job for every one that the last chip ended, and one too many for every    *)
(* command that was lost; RunJob counts nonces, and those it has counted are *)
(* as many different pairs of a chip and the number of a nonce of that chip. *)
(***************************************************************************)
EXTENDS JobLoops, FiniteSetTheorems, SequenceTheorems, TLAPS

Names == OneWork \cup {"TestWorkLoop", "RunJob", "RunJobInfinite", "TestWorkLoop_RandomVector"}

Labels == {"GN", "GN_READ", "RESULT", "OON", "OON_READ", "FIFO", "SEND", "END"}

\* The types, by who owns the variables.
HostTyped ==
  /\ test \in Tests /\ pc \in Labels /\ chip \in Chips
  /\ series \in Seq({"CLEAR_OON", "RUN_JOB"}) /\ (pc = "SEND" <=> series # <<>>)
  /\ jobId \in Ids /\ oon_job_id \in Ids
  /\ jobcnt \in Nat /\ oon_cnt \in Nat /\ gn_cnt \in Nat
  /\ hashdone_chip \subseteq Chips /\ ishashdone \in BOOLEAN

ResTyped ==
  /\ res \in [gn : BOOLEAN, oon : BOOLEAN, id : Ids, chip : 0 .. NumChips]
  /\ res.gn \/ res.oon => res.chip \in Chips
  /\ pc = "RESULT" => res.gn

ChainTyped ==
  /\ jobs \in [Chips -> Seq(Ids)] /\ \A c \in Chips : Len(jobs[c]) <= FifoDepth
  /\ oon \in [Chips -> BOOLEAN] /\ oonId \in [Chips -> Ids]
  /\ gn \in [Chips -> {"none", "right", "wrong"}] /\ found \in [Chips -> BOOLEAN]
  /\ worked \in [Chips -> Nat] /\ nonces \in [Chips -> Nat]

HistoryTyped ==
  /\ faults \in 0 .. MaxFaults /\ lost \subseteq Commands
  /\ mismatch \in BOOLEAN /\ dropped \in BOOLEAN

Typed == HostTyped /\ ResTyped /\ ChainTyped /\ HistoryTyped

\* The chips of a test that relies on the order run out of jobs in that order.
InOrder ==
  Is({"TestWork", "TestWorkLoop"}) =>
    \A c, d \in Chips : c <= d => Len(jobs[c]) <= Len(jobs[d])

\* Most tests send one command at a time.
OneAtATime ==
  Is(OneWork \cup {"TestWorkLoop"}) => series \in {<<>>, <<"CLEAR_OON">>, <<"RUN_JOB">>}

\* While TestWork or TestWorkLoop answers an OON.
Answers == pc = "FIFO" \/ series = <<"CLEAR_OON">>

\* TestWorkLoop sends one job for every one that the last chip ended, and one more for
\* every command that was lost.
Due  == IF oon[NumChips] \/ Answers THEN 1 ELSE 0
Sent == IF series = <<"RUN_JOB">> THEN 1 ELSE 0
Account ==
  Is({"TestWorkLoop"}) =>
    /\ Len(jobs[NumChips]) + Due + Sent <= 1 + faults
    /\ dropped => faults >= FifoDepth

\* RunJob sends as many jobs as a FIFO takes, and counts the nonces it has read.
ToSend == IF pc = "SEND" /\ Head(series) = "RUN_JOB" THEN Len(series) ELSE 0
Jobs ==
  Is({"RunJob"}) =>
    /\ Len(series) <= 1 \/ \A k \in 1 .. Len(series) : series[k] = "RUN_JOB"
    /\ \A c \in Chips :
         /\ worked[c] + Len(jobs[c]) + ToSend <= FifoDepth
         /\ nonces[c] <= worked[c] + (IF found[c] THEN 1 ELSE 0)
         /\ found[c] => jobs[c] # <<>>
         /\ gn[c] = "right" => nonces[c] > 0

\* A nonce of chip c is read once: the n-th one is pair <<c, n>>.
Read(c)   == nonces[c] - (IF gn[c] = "right" THEN 1 ELSE 0)
AllRead   == {p \in Chips \X (1 .. FifoDepth) : p[2] <= Read(p[1])}
Verdict ==
  Is({"RunJob"}) =>
    /\ mismatch \/ ishashdone => pc = "END"
    /\ pc # "END" \/ mismatch => oon_cnt < test.works
    /\ ~mismatch => gn_cnt = Cardinality(AllRead)

\* What the host knows of an OON is so: a chip has ended a job.
Ended ==
  ~Endless =>
    /\ \A c \in Chips : oon[c] => worked[c] > 0
    /\ res.oon => worked[res.chip] > 0
    /\ \A c \in hashdone_chip : worked[c] > 0

\* TestWork and TestWorkLoop answer the last chip, whose OON they have read.
Asks ==
  /\ Is({"TestWork", "TestWorkLoop"}) /\ Answers =>
       res.oon /\ res.chip = NumChips /\ oon_job_id = res.id
  /\ Is({"TestWork", "TestWorkLoop"}) /\ ishashdone => mismatch \/ pc = "END"
  /\ Is({"TestAsic"}) /\ ishashdone => hashdone_chip = Chips

\* A broadcast RUN_JOB gives all chips the same jobs.
Together ==
  Is({"TestWork", "TestWorkLoop"}) /\ ~dropped =>
    \A c, d \in Chips : Len(jobs[c]) + worked[c] = Len(jobs[d]) + worked[d]

\* The k-th job of TestWorkLoop has id k, as long as the ids do not wrap.
Numbered ==
  Is({"TestWorkLoop"}) /\ test.works \in 1 .. IdRange - 1 /\ ~dropped /\ "RUN_JOB" \notin lost =>
    /\ jobcnt <= test.works
    /\ jobcnt < test.works => jobId = jobcnt + 1
    /\ series = <<"RUN_JOB">> => jobcnt < test.works
    /\ \A c \in Chips :
         /\ worked[c] + Len(jobs[c]) = jobcnt
         /\ \A k \in 1 .. Len(jobs[c]) : jobs[c][k] = worked[c] + k
         /\ oonId[c] = worked[c]
    /\ res.oon => res.id <= worked[res.chip]

\* What the host has seen of the chips when it says that the test is over.
AtEnd ==
  pc = "END" /\ ~mismatch /\ ~dropped /\ "RUN_JOB" \notin lost =>
    /\ Is({"TestWork", "TestWorkLoop"}) => worked[NumChips] >= test.works
    /\ Is({"TestAsic"}) => hashdone_chip = Chips

IInv == /\ Typed /\ InOrder /\ OneAtATime /\ Account /\ Jobs /\ Verdict
        /\ Ended /\ Asks /\ Together /\ Numbered /\ AtEnd

-----------------------------------------------------------------------------
(* The parts that several steps share.                                      *)

LEMMA TestType ==
  ASSUME test \in Tests
  PROVE  /\ test.name \in Names /\ test.works \in Nat /\ test.bad \subseteq Chips
         /\ Is(OneWork) => test.works = 1
         /\ Is({"RunJob"}) => test.works = FifoDepth
  <1>1. NumChips \in Chips
    BY JobLoopsAssumption DEF Chips
  <1>2. /\ test.name \in OneWork \cup {"TestWorkLoop", "RunJob", "RunJobInfinite",
                                       "TestWorkLoop_RandomVector"}
        /\ test.works \in {1} \cup Works \cup {FifoDepth} /\ test.bad \in {{}, {NumChips}}
        /\ test.name \in OneWork => test.works = 1
        /\ test.name = "RunJob" => test.works = FifoDepth
    BY DEF Tests, OneWork
  <1>3. test.name \in Names
    BY <1>2 DEF Names
  <1>4. test.works \in Nat
    <2>1. Works \subseteq Nat /\ FifoDepth \in Nat
      BY JobLoopsAssumption
    <2>2. CASE test.works = 1
      BY <2>2
    <2>3. CASE test.works \in Works
      BY <2>1, <2>3
    <2>4. CASE test.works = FifoDepth
      BY <2>1, <2>4
    <2>5. QED
      BY <1>2, <2>2, <2>3, <2>4
  <1>5. test.bad \subseteq Chips
    BY <1>1, <1>2
  <1>6. QED
    BY <1>2, <1>3, <1>4, <1>5 DEF Is

LEMMA OutcomeType ==
  ASSUME NEW cmd, NEW ok \in Outcome(cmd)
  PROVE  ok \in BOOLEAN /\ (~ok => faults < MaxFaults)
  BY DEF Outcome

LEMMA CountType ==
  ASSUME HistoryTyped, NEW failed \in SUBSET Commands, Count(failed),
         failed # {} => faults < MaxFaults
  PROVE  /\ faults' \in 0 .. MaxFaults /\ lost' \subseteq Commands /\ lost \subseteq lost'
         /\ faults' = (IF failed = {} THEN faults ELSE faults + 1)
         /\ failed \subseteq lost'
  BY JobLoopsAssumption DEF HistoryTyped, Count

LEMMA CountOne ==
  ASSUME HistoryTyped, NEW cmd \in Commands, NEW ok \in Outcome(cmd),
         Count(IF ok THEN {} ELSE {cmd})
  PROVE  /\ ok \in BOOLEAN
         /\ faults' \in 0 .. MaxFaults /\ lost' \subseteq Commands /\ lost \subseteq lost'
         /\ faults' = (IF ok THEN faults ELSE faults + 1)
         /\ ~ok => cmd \in lost'
  <1>1. ok \in BOOLEAN /\ (~ok => faults < MaxFaults)
    BY OutcomeType
  <1>2. CASE ok
    <2>1. Count({})
      BY <1>2
    <2>2. QED
      BY <1>1, <1>2, <2>1, CountType
  <1>3. CASE ~ok
    <2>1. Count({cmd})
      BY <1>3
    <2>2. QED
      BY <1>1, <1>3, <2>1, CountType
  <1>4. QED
    BY <1>2, <1>3

\* What the host has read is what a chip answered, or what it had read before.
LEMMA ReadJobIdType ==
  ASSUME ResTyped, ChainTyped, HistoryTyped, NEW asked \in SUBSET Chips, ReadJobId(asked)
  PROVE  /\ faults' \in 0 .. MaxFaults /\ lost' \subseteq Commands /\ lost \subseteq lost'
         /\ res' \in [gn : BOOLEAN, oon : BOOLEAN, id : Ids, chip : 0 .. NumChips]
         /\ res'.gn \/ res'.oon => res'.chip \in Chips
         /\ \/ res' = res /\ faults' = faults + 1
            \/ /\ faults' = faults /\ res'.chip \in asked
               /\ res'.oon = oon[res'.chip] /\ res'.id = oonId[res'.chip]
  <1>1. PICK ok \in Outcome("READ_JOB_ID") :
          /\ Count(IF ok THEN {} ELSE {"READ_JOB_ID"})
          /\ IF ok THEN \E c \in asked : res' = [gn |-> gn[c] # "none", oon |-> oon[c],
                                                 id |-> oonId[c], chip |-> c]
                   ELSE res' = res
    BY DEF ReadJobId
  <1>2. /\ ok \in BOOLEAN
        /\ faults' \in 0 .. MaxFaults /\ lost' \subseteq Commands /\ lost \subseteq lost'
        /\ faults' = (IF ok THEN faults ELSE faults + 1)
    BY <1>1, CountOne DEF Commands
  <1>3. CASE ok
    <2>1. PICK c \in asked : res' = [gn |-> gn[c] # "none", oon |-> oon[c],
                                     id |-> oonId[c], chip |-> c]
      BY <1>1, <1>3
    <2>2. /\ (gn[c] # "none") \in BOOLEAN /\ oon[c] \in BOOLEAN
          /\ oonId[c] \in Ids /\ c \in Chips /\ c \in 0 .. NumChips
      BY JobLoopsAssumption DEF ChainTyped, Chips
    <2>3. res' \in [gn : BOOLEAN, oon : BOOLEAN, id : Ids, chip : 0 .. NumChips]
      BY <2>1, <2>2
    <2>4. QED
      BY <1>2, <1>3, <2>1, <2>3
  <1>4. CASE ~ok
    BY <1>1, <1>2, <1>4 DEF ResTyped
  <1>5. QED
    BY <1>2, <1>3, <1>4

LEMMA NextIdType ==
  ASSUME NEW id \in Ids
  PROVE  /\ NextId(id) \in Ids
         /\ ~Endless /\ id + 1 < IdRange => NextId(id) = id + 1
  BY JobLoopsAssumption DEF NextId, Ids

LEMMA EndOfPassType == \A done \in BOOLEAN : EndOfPass(done) \in {"END", "GN"}
  BY DEF EndOfPass

\* The next chip of a scan, and the part after the last one.
LEMMA ScanType ==
  ASSUME chip \in Chips, ishashdone \in BOOLEAN
  PROVE  /\ NextOfScan => chip' \in Chips /\ pc' \in {"GN_READ", "OON"}
         /\ NextChip => chip' \in Chips /\ pc' \in {"OON_READ", "GN", "END"}
                        /\ (pc' = "END" => ishashdone)
  BY JobLoopsAssumption DEF NextOfScan, NextChip, EndOfPass, Chips

LEMMA AfterOONType ==
  ASSUME HostTyped, NEW ok, AfterOON(ok)
  PROVE  /\ series' \in {<<>>, <<"RUN_JOB">>}
         /\ pc' \in Labels /\ (pc' = "SEND" <=> series' # <<>>)
         /\ pc' \notin {"RESULT", "FIFO"}
         /\ chip' \in Chips /\ ishashdone' \in BOOLEAN /\ oon_cnt' \in Nat
  <1>1. test.name \in Names
    BY TestType DEF HostTyped
  <1>2. series' \in {<<>>, <<"RUN_JOB">>}
    BY DEF AfterOON
  <1>3. CASE pc' = "SEND" /\ series' # <<>> /\ UNCHANGED <<chip, ishashdone, oon_cnt>>
    BY <1>2, <1>3 DEF HostTyped, Labels
  <1>4. CASE series' = <<>> /\ ~ Is({"TestAsic"})
    <2>1. pc' \in {"END", "GN"} /\ chip' = chip
      BY <1>4, EndOfPassType DEF AfterOON, Is
    <2>2. ishashdone' \in BOOLEAN
      BY <1>4 DEF AfterOON, HostTyped, Is
    <2>3. oon_cnt' \in Nat
      BY <1>4 DEF AfterOON, HostTyped, Is
    <2>4. QED
      BY <1>4, <2>1, <2>2, <2>3 DEF HostTyped, Labels
  <1>5. CASE Is({"TestAsic"}) /\ series' = <<>>
    BY <1>5, ScanType DEF AfterOON, HostTyped, Labels, Is
  <1>6. QED
    BY <1>3, <1>4, <1>5 DEF AfterOON, Is

-----------------------------------------------------------------------------
(* Types.                                                                   *)

LEMMA FirstJobsType ==
  /\ FirstJobs \in Seq({"CLEAR_OON", "RUN_JOB"}) /\ FirstJobs # <<>>
  /\ Len(FirstJobs) = (IF Is(OneWork \cup {"TestWorkLoop"}) THEN 1 ELSE FifoDepth)
  /\ \A k \in 1 .. Len(FirstJobs) : FirstJobs[k] = "RUN_JOB"
  <1>1. ASSUME NEW n \in Nat \ {0}
        PROVE  /\ Times(n, "RUN_JOB") \in Seq({"CLEAR_OON", "RUN_JOB"})
               /\ Times(n, "RUN_JOB") # <<>>
               /\ Len(Times(n, "RUN_JOB")) = n
               /\ \A k \in 1 .. n : Times(n, "RUN_JOB")[k] = "RUN_JOB"
    <2> DEFINE t == [k \in 1 .. n |-> "RUN_JOB"]
    <2>1. t \in [1 .. n -> {"CLEAR_OON", "RUN_JOB"}]
      OBVIOUS
    <2>2. t \in Seq({"CLEAR_OON", "RUN_JOB"}) /\ Len(t) = n
      BY <2>1
    <2>3. \A k \in 1 .. n : t[k] = "RUN_JOB"
      OBVIOUS
    <2>4. t # <<>>
      BY <2>2
    <2>5. QED
      BY <2>2, <2>3, <2>4 DEF Times
  <1>2. CASE Is(OneWork \cup {"TestWorkLoop"})
    <2>1. FirstJobs = Times(1, "RUN_JOB")
      BY <1>2 DEF FirstJobs
    <2>2. /\ FirstJobs \in Seq({"CLEAR_OON", "RUN_JOB"}) /\ FirstJobs # <<>> /\ Len(FirstJobs) = 1
          /\ \A k \in 1 .. 1 : FirstJobs[k] = "RUN_JOB"
      <3>1. 1 \in Nat \ {0}
        OBVIOUS
      <3>2. QED
        BY <1>1, <2>1, <3>1, Zenon
    <2>3. QED
      BY <1>2, <2>2
  <1>3. CASE ~Is(OneWork \cup {"TestWorkLoop"})
    <2>1. FirstJobs = Times(FifoDepth, "RUN_JOB")
      BY <1>3 DEF FirstJobs
    <2>2. QED
      BY <1>1, <1>3, <2>1, JobLoopsAssumption
  <1>4. QED
    BY <1>2, <1>3

LEMMA TypedInit == Init => Typed
  <1> SUFFICES ASSUME Init PROVE Typed
    OBVIOUS
  <1>1. 0 \in Ids /\ 1 \in Ids /\ 1 \in Chips
    BY JobLoopsAssumption DEF Ids, Chips
  <1>2. HostTyped
    BY <1>1, FirstJobsType DEF Init, HostTyped, Labels
  <1>3. ResTyped
    BY <1>1, JobLoopsAssumption DEF Init, ResTyped
  <1>4. ChainTyped
    <2>1. <<>> \in Seq(Ids) /\ Len(<<>>) <= FifoDepth
      BY JobLoopsAssumption
    <2>2. QED
      BY <1>1, <2>1 DEF Init, ChainTyped
  <1>5. HistoryTyped
    <2>1. faults = 0 /\ lost = {} /\ mismatch = FALSE /\ dropped = FALSE
      BY DEF Init
    <2>2. 0 \in 0 .. MaxFaults
      BY JobLoopsAssumption
    <2>3. QED
      BY <2>1, <2>2 DEF HistoryTyped
  <1>6. QED
    BY <1>2, <1>3, <1>4, <1>5 DEF Typed

\* What an answer is made of.
LEMMA AnswerType ==
  /\ Answer \in Seq({"CLEAR_OON", "RUN_JOB"}) /\ Answer # <<>>
  /\ Is(OneWork \cup {"TestWorkLoop", "RunJob"}) => Answer = <<"CLEAR_OON">>
  <1>1. /\ <<"CLEAR_OON">> \in Seq({"CLEAR_OON", "RUN_JOB"})
        /\ <<"CLEAR_OON", "RUN_JOB">> \in Seq({"CLEAR_OON", "RUN_JOB"})
        /\ <<"CLEAR_OON", "RUN_JOB", "RUN_JOB">> \in Seq({"CLEAR_OON", "RUN_JOB"})
    OBVIOUS
  <1>2. Is(OneWork \cup {"TestWorkLoop", "RunJob"}) =>
          ~Is({"RunJobInfinite"}) /\ ~Is({"TestWorkLoop_RandomVector"})
    BY DEF Is, OneWork
  <1>3. QED
    BY <1>1, <1>2 DEF Answer

\* The chips the host may ask.
LEMMA AskedType ==
  ASSUME chip \in Chips
  PROVE  /\ (IF ScansGN THEN {chip} ELSE {c \in Chips : gn[c] # "none"}) \in SUBSET Chips
         /\ Asked \in SUBSET Chips
         /\ Is({"TestWork", "TestWorkLoop"}) => Asked = {NumChips}
  BY JobLoopsAssumption DEF Asked, Chips

LEMMA ShortSeries ==
  \A s \in {<<>>, <<"RUN_JOB">>} : s \in Seq({"CLEAR_OON", "RUN_JOB"})
  <1>1. <<>> \in Seq({"CLEAR_OON", "RUN_JOB"})
    OBVIOUS
  <1>2. <<"RUN_JOB">> \in Seq({"CLEAR_OON", "RUN_JOB"})
    OBVIOUS
  <1>3. QED
    BY <1>1, <1>2, Zenon

LEMMA TailType ==
  ASSUME NEW S, NEW s \in Seq(S), s # <<>>
  PROVE  /\ Tail(s) \in Seq(S) /\ Len(Tail(s)) = Len(s) - 1 /\ Len(s) > 0
         /\ Tail(s) # <<>> <=> Len(s) > 1
         /\ \A k \in 1 .. Len(s) - 1 : Tail(s)[k] = s[k + 1]
         /\ Head(s) = s[1] /\ Head(s) \in S
  <1>1. Len(s) > 0
    BY EmptySeq
  <1>2. /\ Tail(s) \in Seq(S) /\ Len(Tail(s)) = Len(s) - 1
        /\ \A k \in 1 .. Len(s) - 1 : Tail(s)[k] = s[k + 1]
        /\ Head(s) = s[1] /\ Head(s) \in S
    BY <1>1
  <1>3. Tail(s) # <<>> <=> Len(Tail(s)) > 0
    <2>1. Len(Tail(s)) = 0 <=> Tail(s) = <<>>
      BY <1>2, EmptySeq
    <2>2. Len(Tail(s)) \in Nat
      BY <1>2
    <2>3. \A n \in Nat : n = 0 <=> ~(n > 0)
      OBVIOUS
    <2>4. QED
      BY <2>1, <2>2, <2>3, Zenon
  <1>4. QED
    BY <1>1, <1>2, <1>3

LEMMA TypedStep == Typed /\ [Next]_vars => Typed'
  <1> SUFFICES ASSUME HostTyped, ResTyped, ChainTyped, HistoryTyped, [Next]_vars
               PROVE  Typed'
    BY DEF Typed
  <1>1. CASE CheckGN
    <2>1. HostTyped' /\ pc' # "RESULT"
      BY <1>1, JobLoopsAssumption DEF CheckGN, HostTyped, Labels, Chips, locals
    <2>2. QED
      BY <1>1, <2>1 DEF CheckGN, ResTyped, ChainTyped, HistoryTyped, Typed, chain, history
  <1>2. CASE ReadGN
    <2> DEFINE asked == IF ScansGN THEN {chip} ELSE {c \in Chips : gn[c] # "none"}
    <2>1. asked \in SUBSET Chips /\ ReadJobId(asked)
      BY <1>2, AskedType DEF ReadGN, HostTyped
    <2> HIDE DEF asked
    <2>2. /\ faults' \in 0 .. MaxFaults /\ lost' \subseteq Commands
          /\ res' \in [gn : BOOLEAN, oon : BOOLEAN, id : Ids, chip : 0 .. NumChips]
          /\ res'.gn \/ res'.oon => res'.chip \in Chips
      BY <2>1, ReadJobIdType
    <2>3. /\ pc' \in {"RESULT", "GN_READ", "OON"} /\ (pc' = "RESULT" => res'.gn)
          /\ chip' \in Chips
      BY <1>2, ScanType DEF ReadGN, HostTyped
    <2>4. HostTyped'
      BY <1>2, <2>3 DEF ReadGN, HostTyped, Labels, locals
    <2>5. QED
      BY <1>2, <2>2, <2>3, <2>4 DEF ReadGN, ResTyped, ChainTyped, HistoryTyped, Typed, chain
  <1>3. CASE HandleGN
    <2>1. PICK okHash \in Outcome("READ_HASH"), okResult \in Outcome("READ_RESULT") :
            LET ok == Matches(res.chip, okHash, okResult) IN
            /\ gn' = IF okResult THEN [gn EXCEPT ![res.chip] = "none"] ELSE gn
            /\ Count({cmd \in {"READ_HASH"} : ~okHash} \cup {cmd \in {"READ_RESULT"} : ~okResult})
            /\ mismatch' = (mismatch \/ ~(ok \/ Is({"TestWorkLoop_RandomVector"})))
            /\ IF ok \/ Is({"TestWorkLoop_RandomVector"})
                 THEN NextOfScan /\ UNCHANGED ishashdone
                 ELSE /\ ishashdone' = ScansGN
                      /\ pc' = IF ScansGN THEN "OON" ELSE "END"
                      /\ chip' = 1
      BY <1>3 DEF HandleGN
    <2>2. /\ okHash \in BOOLEAN /\ okResult \in BOOLEAN
          /\ ~okHash \/ ~okResult => faults < MaxFaults
      BY OutcomeType
    <2>3. faults' \in 0 .. MaxFaults /\ lost' \subseteq Commands
      <3> DEFINE failed == {cmd \in {"READ_HASH"} : ~okHash}
                             \cup {cmd \in {"READ_RESULT"} : ~okResult}
      <3>1. failed \in SUBSET Commands /\ (failed # {} => faults < MaxFaults) /\ Count(failed)
        BY <2>1, <2>2 DEF Commands
      <3> HIDE DEF failed
      <3>2. QED
        BY <3>1, CountType
    <2>4. mismatch' \in BOOLEAN
      BY <2>1
    <2>5. gn' \in [Chips -> {"none", "right", "wrong"}]
      BY <2>1 DEF ChainTyped
    <2>6. /\ pc' \in {"GN_READ", "OON", "END"} /\ chip' \in Chips
      BY <2>1, ScanType, JobLoopsAssumption DEF HostTyped, Chips
    <2>7. ishashdone' \in BOOLEAN
      <3>1. ishashdone' = ishashdone \/ ishashdone' = ScansGN
        BY <2>1
      <3>2. ScansGN \in BOOLEAN
        BY DEF ScansGN, Is
      <3>3. QED
        BY <3>1, <3>2 DEF HostTyped
    <2>8. gn_cnt' \in Nat
      BY <1>3 DEF HandleGN, HostTyped
    <2>9. /\ pc = "RESULT"
          /\ UNCHANGED <<test, series, res, jobId, jobcnt, oon_job_id, oon_cnt, hashdone_chip,
                 jobs, oon, oonId, found, worked, nonces, dropped>>
      BY <1>3 DEF HandleGN
    <2>10. HostTyped'
      BY <2>6, <2>7, <2>8, <2>9 DEF HostTyped, Labels
    <2>11. QED
      BY <2>3, <2>4, <2>5, <2>9, <2>10 DEF ResTyped, ChainTyped, HistoryTyped, Typed
  <1>4. CASE CheckOON
    <2>1. HostTyped' /\ pc' # "RESULT"
      BY <1>4, AnswerType, EndOfPassType DEF CheckOON, HostTyped, Labels, locals
    <2>2. QED
      BY <1>4, <2>1 DEF CheckOON, ResTyped, ChainTyped, HistoryTyped, Typed, chain, history
  <1>5. CASE ReadOON
    <2>1. Asked \in SUBSET Chips /\ ReadJobId(Asked)
      BY <1>5, AskedType DEF ReadOON, HostTyped
    <2>2. /\ faults' \in 0 .. MaxFaults /\ lost' \subseteq Commands
          /\ res' \in [gn : BOOLEAN, oon : BOOLEAN, id : Ids, chip : 0 .. NumChips]
          /\ res'.gn \/ res'.oon => res'.chip \in Chips
      BY <2>1, ReadJobIdType
    <2>3. /\ pc' \in Labels /\ (pc' = "SEND" <=> series' # <<>>) /\ pc' # "RESULT"
          /\ chip' \in Chips /\ series' \in Seq({"CLEAR_OON", "RUN_JOB"})
      BY <1>5, AnswerType, ScanType DEF ReadOON, HostTyped, Labels
    <2>4. hashdone_chip' \subseteq Chips
      BY <1>5, <2>2 DEF ReadOON, HostTyped
    <2>5. HostTyped'
      BY <1>5, <2>2, <2>3 DEF ReadOON, HostTyped
    <2>6. QED
      BY <1>5, <2>2, <2>3, <2>5 DEF ReadOON, ResTyped, ChainTyped, HistoryTyped, Typed, chain
  <1>6. CASE CheckFifo
    <2>1. PICK ok \in Outcome("READ_ID") :
            /\ Count(IF ok THEN {} ELSE {"READ_ID"})
            /\ IF ok /\ Len(jobs[1]) < FifoDepth
                 THEN pc' = "SEND" /\ series' = Answer /\ UNCHANGED <<chip, ishashdone, oon_cnt>>
                 ELSE AfterOON(~ok)
      BY <1>6 DEF CheckFifo
    <2>2. ok \in BOOLEAN /\ faults' \in 0 .. MaxFaults /\ lost' \subseteq Commands
      BY <2>1, CountOne DEF Commands
    <2>3. /\ pc' \in Labels /\ (pc' = "SEND" <=> series' # <<>>) /\ pc' # "RESULT"
          /\ chip' \in Chips /\ series' \in Seq({"CLEAR_OON", "RUN_JOB"})
          /\ ishashdone' \in BOOLEAN /\ oon_cnt' \in Nat
      <3>1. CASE ok /\ Len(jobs[1]) < FifoDepth
        BY <2>1, <3>1, AnswerType DEF HostTyped, Labels
      <3>2. CASE ~(ok /\ Len(jobs[1]) < FifoDepth)
        <4>1. AfterOON(~ok)
          BY <2>1, <3>2
        <4>2. /\ series' \in {<<>>, <<"RUN_JOB">>}
              /\ pc' \in Labels /\ (pc' = "SEND" <=> series' # <<>>) /\ pc' # "RESULT"
              /\ chip' \in Chips /\ ishashdone' \in BOOLEAN /\ oon_cnt' \in Nat
          BY <4>1, AfterOONType, Zenon
        <4>3. series' \in Seq({"CLEAR_OON", "RUN_JOB"})
          BY <4>2, ShortSeries
        <4>4. QED
          BY <4>2, <4>3
      <3>3. QED
        BY <3>1, <3>2
    <2>4. HostTyped'
      BY <1>6, <2>3 DEF CheckFifo, HostTyped
    <2>5. QED
      BY <1>6, <2>2, <2>3, <2>4 DEF CheckFifo, ResTyped, ChainTyped, HistoryTyped, Typed, chain
  <1>7. CASE ClearOON
    <2>1. PICK ok \in Outcome("CLEAR_OON") :
            /\ Count(IF ok THEN {} ELSE {"CLEAR_OON"})
            /\ oon' = IF ~ok THEN oon
                      ELSE IF Is({"TestAsic"}) THEN [oon EXCEPT ![chip] = FALSE]
                      ELSE [c \in Chips |-> FALSE]
      BY <1>7 DEF ClearOON
    <2>2. ok \in BOOLEAN /\ faults' \in 0 .. MaxFaults /\ lost' \subseteq Commands
      BY <2>1, CountOne DEF Commands
    <2>3. oon' \in [Chips -> BOOLEAN]
      BY <2>1 DEF ChainTyped
    <2>4. /\ pc' \in Labels /\ (pc' = "SEND" <=> series' # <<>>) /\ pc' # "RESULT"
          /\ chip' \in Chips /\ series' \in Seq({"CLEAR_OON", "RUN_JOB"})
          /\ ishashdone' \in BOOLEAN /\ oon_cnt' \in Nat
      <3>1. CASE Len(series) > 1
        <4>1. Tail(series) \in Seq({"CLEAR_OON", "RUN_JOB"}) /\ Tail(series) # <<>>
          BY <3>1, TailType DEF HostTyped
        <4>2. QED
          BY <1>7, <3>1 DEF ClearOON, HostTyped
      <3>2. CASE ~(Len(series) > 1)
        <4>1. AfterOON(TRUE)
          BY <1>7, <3>2 DEF ClearOON
        <4>2. /\ series' \in {<<>>, <<"RUN_JOB">>}
              /\ pc' \in Labels /\ (pc' = "SEND" <=> series' # <<>>) /\ pc' # "RESULT"
              /\ chip' \in Chips /\ ishashdone' \in BOOLEAN /\ oon_cnt' \in Nat
          BY <4>1, AfterOONType, Zenon
        <4>3. series' \in Seq({"CLEAR_OON", "RUN_JOB"})
          BY <4>2, ShortSeries
        <4>4. QED
          BY <4>2, <4>3
      <3>3. QED
        BY <3>1, <3>2
    <2>5. HostTyped'
      BY <1>7, <2>4 DEF ClearOON, HostTyped
    <2>6. QED
      BY <1>7, <2>2, <2>4, <2>5 DEF ClearOON, ResTyped, ChainTyped, HistoryTyped, Typed
  <1>8. CASE RunJob
    <2>1. PICK ok \in Outcome("RUN_JOB") :
            /\ Count(IF ok THEN {} ELSE {"RUN_JOB"})
            /\ jobs' = [c \in Chips |-> IF ok /\ Len(jobs[c]) < FifoDepth
                                          THEN Append(jobs[c], jobId) ELSE jobs[c]]
            /\ dropped' = (dropped \/ (ok /\ \E c \in Chips : Len(jobs[c]) = FifoDepth))
      BY <1>8 DEF RunJob
    <2>2. ok \in BOOLEAN /\ faults' \in 0 .. MaxFaults /\ lost' \subseteq Commands
      BY <2>1, CountOne DEF Commands
    <2>3. dropped' \in BOOLEAN
      BY <2>1
    <2>4. jobs' \in [Chips -> Seq(Ids)] /\ \A c \in Chips : Len(jobs'[c]) <= FifoDepth
      <3>1. ASSUME NEW c \in Chips PROVE jobs'[c] \in Seq(Ids) /\ Len(jobs'[c]) <= FifoDepth
        BY <2>1, JobLoopsAssumption DEF ChainTyped, HostTyped
      <3>2. jobs' = [c \in Chips |-> jobs'[c]]
        BY <2>1
      <3>3. QED
        BY <3>1, <3>2
    <2>5. /\ pc' \in Labels /\ (pc' = "SEND" <=> series' # <<>>) /\ pc' # "RESULT"
          /\ series' \in Seq({"CLEAR_OON", "RUN_JOB"})
      <3>1. series \in Seq({"CLEAR_OON", "RUN_JOB"}) /\ series # <<>> /\ series' = Tail(series)
        BY <1>8 DEF RunJob, HostTyped
      <3>2. series' \in Seq({"CLEAR_OON", "RUN_JOB"}) /\ (Len(series) > 1 <=> series' # <<>>)
        BY <3>1, TailType
      <3>3. pc' = IF Len(series) > 1 THEN "SEND" ELSE EndOfPass(ishashdone)
        BY <1>8 DEF RunJob
      <3>4. EndOfPass(ishashdone) \in {"END", "GN"}
        BY DEF EndOfPass
      <3>5. QED
        BY <3>2, <3>3, <3>4 DEF Labels
    <2>6. jobId' \in Ids /\ jobcnt' \in Nat
      BY <1>8, NextIdType DEF RunJob, HostTyped
    <2>7. HostTyped'
      BY <1>8, <2>5, <2>6 DEF RunJob, HostTyped
    <2>8. QED
      BY <1>8, <2>2, <2>4, <2>5, <2>7 DEF RunJob, ResTyped, ChainTyped, HistoryTyped, Typed
  <1>9. ASSUME NEW c \in Chips, Exhaust(c) PROVE Typed'
    <2>1. jobs[c] \in Seq(Ids) /\ jobs[c] # <<>> /\ Len(jobs[c]) <= FifoDepth
      BY <1>9 DEF Exhaust, ChainTyped
    <2>2. Tail(jobs[c]) \in Seq(Ids) /\ Len(Tail(jobs[c])) <= FifoDepth /\ Head(jobs[c]) \in Ids
      BY <2>1, JobLoopsAssumption
    <2>3. jobs' \in [Chips -> Seq(Ids)] /\ \A d \in Chips : Len(jobs'[d]) <= FifoDepth
      BY <1>9, <2>2 DEF Exhaust, ChainTyped
    <2>4. oon' \in [Chips -> BOOLEAN] /\ found' \in [Chips -> BOOLEAN] /\ oonId' \in [Chips -> Ids]
      BY <1>9, <2>2 DEF Exhaust, ChainTyped
    <2>5. worked' \in [Chips -> Nat]
      BY <1>9 DEF Exhaust, ChainTyped
    <2>6. HostTyped'
      BY <1>9 DEF Exhaust, HostTyped, locals
    <2>7. QED
      BY <1>9, <2>3, <2>4, <2>6 DEF Exhaust, ResTyped, ChainTyped, HistoryTyped, Typed, history
  <1>10. ASSUME NEW c \in Chips, FindNonce(c) PROVE Typed'
    <2>1. gn' \in [Chips -> {"none", "right", "wrong"}] /\ found' \in [Chips -> BOOLEAN]
      BY <1>10 DEF FindNonce, ChainTyped
    <2>2. nonces' \in [Chips -> Nat]
      BY <1>10 DEF FindNonce, ChainTyped
    <2>3. HostTyped'
      BY <1>10 DEF FindNonce, HostTyped, locals
    <2>4. QED
      BY <1>10, <2>3 DEF FindNonce, ResTyped, ChainTyped, HistoryTyped, Typed, history
  <1>11. CASE UNCHANGED vars
    BY <1>11 DEF HostTyped, ResTyped, ChainTyped, HistoryTyped, Typed, vars, locals, chain, history
  <1>12. QED
    BY <1>1, <1>2, <1>3, <1>4, <1>5, <1>6, <1>7, <1>8, <1>9, <1>10, <1>11 DEF Next, Host

-----------------------------------------------------------------------------
(* What the steps do to the FIFOs, and to what has gone wrong so far.       *)

LEMMA ExhaustStep ==
  ASSUME Typed, NEW c \in Chips, Exhaust(c)
  PROVE  /\ UNCHANGED <<test, pc, series, chip, res, locals, gn, nonces, history>>
         /\ Len(jobs[c]) > 0 /\ oon' = [oon EXCEPT ![c] = TRUE]
         /\ \A d \in Chips : Len(jobs'[d]) = (IF d = c THEN Len(jobs[d]) - 1 ELSE Len(jobs[d]))
         /\ \A d \in Chips : jobs[d] \in Seq(Ids) /\ Len(jobs[d]) \in Nat /\ Len(jobs'[d]) \in Nat
  <1>1. \A d \in Chips : jobs[d] \in Seq(Ids) /\ Len(jobs[d]) \in Nat
    BY DEF Typed, ChainTyped
  <1>2. /\ jobs[c] # <<>> /\ jobs' = [jobs EXCEPT ![c] = Tail(jobs[c])]
        /\ oon' = [oon EXCEPT ![c] = TRUE]
    BY DEF Exhaust
  <1>3. Len(jobs[c]) > 0 /\ Len(Tail(jobs[c])) = Len(jobs[c]) - 1
    BY <1>1, <1>2, TailType
  <1>4. \A d \in Chips : jobs'[d] = (IF d = c THEN Tail(jobs[d]) ELSE jobs[d])
    BY <1>2 DEF Typed, ChainTyped
  <1>5. UNCHANGED <<test, pc, series, chip, res, locals, gn, nonces, history>>
    BY DEF Exhaust
  <1>6. \A d \in Chips : Len(jobs'[d]) = (IF d = c THEN Len(jobs[d]) - 1 ELSE Len(jobs[d]))
    BY <1>3, <1>4
  <1>7. \A d \in Chips : Len(jobs'[d]) \in Nat
    BY <1>1, <1>3, <1>6
  <1>8. QED
    BY <1>1, <1>2, <1>5, <1>6

LEMMA RunJobStep ==
  ASSUME Typed, RunJob
  PROVE  \E ok \in BOOLEAN :
           /\ \A c \in Chips : jobs'[c] = (IF ok /\ Len(jobs[c]) < FifoDepth
                                             THEN Append(jobs[c], jobId) ELSE jobs[c])
           /\ \A c \in Chips : Len(jobs'[c]) = (IF ok /\ Len(jobs[c]) < FifoDepth
                                                  THEN Len(jobs[c]) + 1 ELSE Len(jobs[c]))
           /\ dropped' = (dropped \/ (ok /\ \E c \in Chips : Len(jobs[c]) = FifoDepth))
           /\ faults' >= faults /\ lost \subseteq lost'
           /\ ok \/ "RUN_JOB" \in lost'
  <1>1. PICK ok \in Outcome("RUN_JOB") :
          /\ Count(IF ok THEN {} ELSE {"RUN_JOB"})
          /\ jobs' = [c \in Chips |-> IF ok /\ Len(jobs[c]) < FifoDepth
                                        THEN Append(jobs[c], jobId) ELSE jobs[c]]
          /\ dropped' = (dropped \/ (ok /\ \E c \in Chips : Len(jobs[c]) = FifoDepth))
    BY DEF RunJob
  <1>2. /\ ok \in BOOLEAN /\ lost \subseteq lost' /\ (~ok => "RUN_JOB" \in lost')
        /\ faults' = (IF ok THEN faults ELSE faults + 1)
    BY <1>1, CountOne DEF Typed, Commands
  <1>3. faults' >= faults
    BY <1>2 DEF Typed, HistoryTyped
  <1>4. \A c \in Chips : jobs'[c] = (IF ok /\ Len(jobs[c]) < FifoDepth
                                       THEN Append(jobs[c], jobId) ELSE jobs[c])
    BY <1>1
  <1>5. \A c \in Chips : Len(Append(jobs[c], jobId)) = Len(jobs[c]) + 1
    BY DEF Typed, HostTyped, ChainTyped
  <1>6. \A c \in Chips : Len(jobs'[c]) = (IF ok /\ Len(jobs[c]) < FifoDepth
                                            THEN Len(jobs[c]) + 1 ELSE Len(jobs[c]))
    BY <1>4, <1>5
  <1>7. QED
    BY <1>1, <1>2, <1>3

\* What went wrong stays on record.
LEMMA HistoryStep ==
  Typed /\ [Next]_vars =>
    /\ test' = test /\ faults' >= faults /\ lost \subseteq lost'
    /\ mismatch => mismatch'
    /\ dropped => dropped'
  <1> DEFINE Kept == /\ test' = test /\ faults' >= faults /\ lost \subseteq lost'
                     /\ mismatch => mismatch'
                     /\ dropped => dropped'
  <1> SUFFICES ASSUME Typed, [Next]_vars PROVE Kept
    OBVIOUS
  <1>1. faults \in Nat
    BY JobLoopsAssumption DEF Typed, HistoryTyped
  <1>2. ASSUME NEW failed, Count(failed) PROVE faults' >= faults /\ lost \subseteq lost'
    BY <1>1, <1>2 DEF Count
  <1>3. CASE CheckGN \/ CheckOON \/ (\E c \in Chips : Exhaust(c) \/ FindNonce(c)) \/ UNCHANGED vars
    BY <1>1, <1>3 DEF CheckGN, CheckOON, Exhaust, FindNonce, vars, history
  <1>4. CASE ReadGN
    BY <1>2, <1>4 DEF ReadGN, ReadJobId
  <1>5. CASE ReadOON
    BY <1>2, <1>5 DEF ReadOON, ReadJobId
  <1>6. CASE HandleGN
    BY <1>2, <1>6 DEF HandleGN
  <1>7. CASE CheckFifo
    BY <1>2, <1>7 DEF CheckFifo
  <1>8. CASE ClearOON
    BY <1>2, <1>8 DEF ClearOON
  <1>9. CASE RunJob
    BY <1>9, RunJobStep DEF RunJob
  <1>10. QED
    BY <1>3, <1>4, <1>5, <1>6, <1>7, <1>8, <1>9 DEF Next, Host

LEMMA OneAtATimeInit == Init => OneAtATime
  <1> SUFFICES ASSUME Init, Is(OneWork \cup {"TestWorkLoop"}) PROVE series = <<"RUN_JOB">>
    BY DEF OneAtATime
  <1>1. series \in Seq({"CLEAR_OON", "RUN_JOB"}) /\ Len(series) = 1 /\ series[1] = "RUN_JOB"
    BY FirstJobsType DEF Init
  <1>2. QED
    BY <1>1

LEMMA OneAtATimeStep == Typed /\ OneAtATime /\ [Next]_vars => OneAtATime'
  <1> SUFFICES ASSUME Typed, OneAtATime, [Next]_vars, Is(OneWork \cup {"TestWorkLoop"})
               PROVE  series' \in {<<>>, <<"CLEAR_OON">>, <<"RUN_JOB">>}
    BY HistoryStep DEF OneAtATime, Is
  <1>1. series \in {<<>>, <<"CLEAR_OON">>, <<"RUN_JOB">>} /\ Answer = <<"CLEAR_OON">>
        /\ ~Is({"RunJobInfinite"}) /\ HostTyped
    BY AnswerType DEF OneAtATime, Is, OneWork, Typed
  <1>2. CASE series' = series
    BY <1>1, <1>2
  <1>3. CASE CheckOON
    BY <1>1, <1>3 DEF CheckOON
  <1>4. CASE ReadOON
    BY <1>1, <1>4 DEF ReadOON
  <1>5. CASE CheckFifo
    BY <1>1, <1>5, AfterOONType DEF CheckFifo
  <1>6. CASE ClearOON
    <2>1. ~(Len(series) > 1)
      <3>1. CASE series = <<>>
        BY <3>1
      <3>2. CASE series = <<"CLEAR_OON">>
        BY <3>2
      <3>3. CASE series = <<"RUN_JOB">>
        BY <3>3
      <3>4. QED
        BY <1>1, <3>1, <3>2, <3>3
    <2>2. AfterOON(TRUE)
      BY <1>6, <2>1 DEF ClearOON
    <2>3. series' \in {<<>>, <<"RUN_JOB">>}
      BY <1>1, <2>2, AfterOONType, Zenon
    <2>4. QED
      BY <2>3
  <1>7. CASE RunJob
    <2>1. series # <<>> /\ series' = Tail(series)
      BY <1>7 DEF RunJob, Typed, HostTyped
    <2>2. QED
      BY <1>1, <2>1
  <1>8. QED
    BY <1>2, <1>3, <1>4, <1>5, <1>6, <1>7
       DEF Next, Host, CheckGN, ReadGN, HandleGN, Exhaust, FindNonce, vars

LEMMA InOrderStep == Typed /\ InOrder /\ [Next]_vars => InOrder'
  <1> SUFFICES ASSUME Typed, InOrder, [Next]_vars, Is({"TestWork", "TestWorkLoop"})
               PROVE  \A c, d \in Chips : c <= d => Len(jobs'[c]) <= Len(jobs'[d])
    BY HistoryStep DEF InOrder, Is
  <1>1. /\ \A c, d \in Chips : c <= d => Len(jobs[c]) <= Len(jobs[d])
        /\ \A c \in Chips : Len(jobs[c]) \in Nat
    BY DEF InOrder, Typed, ChainTyped
  <1>2. CASE jobs' = jobs
    BY <1>1, <1>2
  <1>3. ASSUME NEW e \in Chips, Exhaust(e)
        PROVE  \A c, d \in Chips : c <= d => Len(jobs'[c]) <= Len(jobs'[d])
    <2>1. \A d \in Chips : Len(jobs'[d]) = (IF d = e THEN Len(jobs[d]) - 1 ELSE Len(jobs[d]))
      BY <1>3, ExhaustStep
    <2>2. e > 1 => Len(jobs[e - 1]) < Len(jobs[e])
      BY <1>3 DEF Exhaust
    <2>3. \A c \in Chips : c <= e /\ c # e => e > 1 /\ e - 1 \in Chips /\ c <= e - 1
      BY JobLoopsAssumption DEF Chips
    <2>4. \A c \in Chips : c <= e /\ c # e => Len(jobs[c]) <= Len(jobs[e]) - 1
      BY <1>1, <2>2, <2>3
    <2>5. QED
      BY <1>1, <2>1, <2>4
  <1>4. CASE RunJob
    <2>1. PICK ok \in BOOLEAN :
            \A c \in Chips : Len(jobs'[c]) = (IF ok /\ Len(jobs[c]) < FifoDepth
                                                THEN Len(jobs[c]) + 1 ELSE Len(jobs[c]))
      BY <1>4, RunJobStep
    <2>2. FifoDepth \in Nat
      BY JobLoopsAssumption
    <2>3. QED
      BY <1>1, <2>1, <2>2
  <1>5. QED
    BY <1>2, <1>3, <1>4 DEF Next, Host, CheckGN, ReadGN, HandleGN, CheckOON, ReadOON, CheckFifo,
       ClearOON, FindNonce, chain, vars

LEMMA InOrderInit == Init => InOrder
  <1> SUFFICES ASSUME Init PROVE \A c \in Chips : Len(jobs[c]) = 0
    BY DEF InOrder
  <1>1. QED
    BY DEF Init

LEMMA AccountInit == Init => Account
  <1> SUFFICES ASSUME Init, Is({"TestWorkLoop"})
               PROVE  Len(jobs[NumChips]) + Due + Sent <= 1 + faults /\ ~dropped
    BY DEF Account
  <1>1. NumChips \in Chips
    BY JobLoopsAssumption DEF Chips
  <1>2. Len(jobs[NumChips]) = 0 /\ ~oon[NumChips] /\ pc = "SEND" /\ faults = 0 /\ ~dropped
    BY <1>1 DEF Init
  <1>3. /\ series \in {<<>>, <<"CLEAR_OON">>, <<"RUN_JOB">>}
        /\ series[1] = "RUN_JOB" /\ Len(series) = 1
    <2>1. series \in {<<>>, <<"CLEAR_OON">>, <<"RUN_JOB">>}
      BY OneAtATimeInit DEF OneAtATime, Is
    <2>2. QED
      BY <2>1, FirstJobsType DEF Init, Is
  <1>4. ~Answers
    BY <1>2, <1>3 DEF Answers
  <1>5. Due = 0 /\ Sent \in {0, 1}
    BY <1>2, <1>4 DEF Due, Sent
  <1>6. QED
    BY <1>2, <1>5

LEMMA AccountStep == Typed /\ InOrder /\ OneAtATime /\ Account /\ [Next]_vars => Account'
  <1> DEFINE L == Len(jobs[NumChips])
             Few == L + Due + Sent <= 1 + faults
  <1> SUFFICES ASSUME Typed, InOrder, OneAtATime, Account, [Next]_vars, Is({"TestWorkLoop"})
               PROVE  Few' /\ (dropped' => faults' >= FifoDepth)
    BY HistoryStep DEF Account, Is
  <1>1. /\ Few /\ (dropped => faults >= FifoDepth) /\ NumChips \in Chips
        /\ L \in Nat /\ faults \in Nat /\ FifoDepth \in Nat
        /\ Due \in {0, 1} /\ Sent \in {0, 1}
    <2>1. Few /\ (dropped => faults >= FifoDepth)
      BY DEF Account
    <2>2. NumChips \in Chips /\ faults \in Nat /\ FifoDepth \in Nat
      BY JobLoopsAssumption DEF Typed, HistoryTyped, Chips
    <2>3. L \in Nat
      BY <2>2 DEF Typed, ChainTyped
    <2>4. Due \in {0, 1} /\ Sent \in {0, 1}
      BY DEF Due, Sent
    <2>5. QED
      BY <2>1, <2>2, <2>3, <2>4
  <1>2. /\ series \in {<<>>, <<"CLEAR_OON">>, <<"RUN_JOB">>}
        /\ series' \in {<<>>, <<"CLEAR_OON">>, <<"RUN_JOB">>}
        /\ Answer = <<"CLEAR_OON">> /\ ~Is({"RunJobInfinite"}) /\ ~Is({"TestAsic"}) /\ SimpleWork
    BY OneAtATimeStep, HistoryStep, AnswerType DEF OneAtATime, Is, SimpleWork
  <1>3. Typed' /\ faults' \in Nat /\ faults' >= faults
    BY TypedStep, HistoryStep DEF Typed, HistoryTyped
  <1>4. Due' \in {0, 1} /\ Sent' \in {0, 1}
    BY DEF Due, Sent
  <1>5. CASE UNCHANGED <<jobs, dropped, oon, series>> /\ pc' # "FIFO"
    <2>1. Due' <= Due /\ Sent' = Sent /\ L' = L
      BY <1>5 DEF Due, Sent, Answers
    <2>2. QED
      BY <1>1, <1>3, <1>4, <1>5, <2>1
  <1>6. ASSUME NEW c \in Chips, Exhaust(c) PROVE Few' /\ (dropped' => faults' >= FifoDepth)
    <2>1. L' = (IF c = NumChips THEN L - 1 ELSE L) /\ UNCHANGED <<faults, dropped>>
      BY <1>1, <1>6, ExhaustStep DEF history
    <2>2. Sent' = Sent /\ (c # NumChips => Due' = Due)
      BY <1>6 DEF Exhaust, Due, Sent, Answers
    <2>3. QED
      BY <1>1, <1>4, <2>1, <2>2
  <1>7. ASSUME NEW c \in Chips, FindNonce(c) PROVE Few' /\ (dropped' => faults' >= FifoDepth)
    <2>1. UNCHANGED <<jobs, dropped, faults, oon, series, pc>>
      BY <1>7 DEF FindNonce, history
    <2>2. QED
      BY <1>1, <2>1 DEF Due, Sent, Answers
  <1>8. CASE ReadOON
    <2>1. /\ UNCHANGED <<jobs, dropped, oon>> /\ ReadJobId(Asked)
          /\ Asked = {NumChips} /\ pc = "OON_READ"
      BY <1>8, AskedType DEF ReadOON, chain, Typed, HostTyped, Is
    <2>2. \/ faults' = faults + 1
          \/ faults' = faults /\ res'.chip = NumChips /\ res'.oon = oon[NumChips]
      <3>1. Asked \in SUBSET Chips
        BY <1>1, <2>1
      <3>2. \/ res' = res /\ faults' = faults + 1
            \/ /\ faults' = faults /\ res'.chip \in Asked
               /\ res'.oon = oon[res'.chip] /\ res'.id = oonId[res'.chip]
        BY <2>1, <3>1, ReadJobIdType DEF Typed
      <3>3. QED
        BY <2>1, <3>2
    <2>3. series' = <<>> /\ (pc' = "FIFO" => res'.oon)
      BY <1>2, <1>8 DEF ReadOON, NextChip, EndOfPass, Typed, HostTyped
    <2>4. Sent' = 0
      BY <2>3 DEF Sent
    <2>5. CASE faults' = faults + 1
      BY <1>1, <1>4, <2>1, <2>4, <2>5
    <2>6. CASE faults' = faults /\ res'.oon = oon[NumChips]
      <3>1. Due' <= Due
        BY <2>1, <2>3, <2>6 DEF Due, Answers
      <3>2. QED
        BY <1>1, <1>4, <2>1, <2>4, <2>6, <3>1
    <2>7. QED
      BY <2>2, <2>5, <2>6
  <1>9. CASE CheckFifo
    <2>1. PICK ok \in Outcome("READ_ID") :
            /\ Count(IF ok THEN {} ELSE {"READ_ID"})
            /\ IF ok /\ Len(jobs[1]) < FifoDepth
                 THEN pc' = "SEND" /\ series' = Answer /\ UNCHANGED <<chip, ishashdone, oon_cnt>>
                 ELSE AfterOON(~ok)
      BY <1>9 DEF CheckFifo
    <2>2. ok \in BOOLEAN /\ faults' = (IF ok THEN faults ELSE faults + 1)
      BY <2>1, CountOne DEF Typed, Commands
    <2>3. Due = 1 /\ UNCHANGED <<jobs, dropped, oon>>
      BY <1>9 DEF CheckFifo, Due, Answers, chain
    <2>4. ok => Sent' = 0
      <3>1. CASE ok /\ Len(jobs[1]) < FifoDepth
        BY <1>2, <2>1, <3>1 DEF Sent
      <3>2. CASE ok /\ ~(Len(jobs[1]) < FifoDepth)
        <4>1. AfterOON(~ok)
          BY <2>1, <3>2
        <4>2. series' = <<>>
          BY <3>2, <4>1 DEF AfterOON, Is
        <4>3. QED
          BY <4>2 DEF Sent
      <3>3. QED
        BY <3>1, <3>2
    <2>5. QED
      BY <1>1, <1>4, <2>2, <2>3, <2>4
  <1>10. CASE ClearOON
    <2>1. PICK ok \in Outcome("CLEAR_OON") :
            /\ Count(IF ok THEN {} ELSE {"CLEAR_OON"})
            /\ oon' = IF ~ok THEN oon
                      ELSE IF Is({"TestAsic"}) THEN [oon EXCEPT ![chip] = FALSE]
                      ELSE [c \in Chips |-> FALSE]
      BY <1>10 DEF ClearOON
    <2>2. ok \in BOOLEAN /\ faults' = (IF ok THEN faults ELSE faults + 1)
      BY <2>1, CountOne DEF Typed, Commands
    <2>3. series = <<"CLEAR_OON">> /\ UNCHANGED <<jobs, dropped>>
      BY <1>2, <1>10 DEF ClearOON, Typed, HostTyped
    <2>4. Due = 1 /\ Sent = 0
      BY <2>3 DEF Due, Answers, Sent
    <2>5. ok => Due' = 0
      <3>1. ~(Len(series) > 1)
        BY <2>3
      <3>2. AfterOON(TRUE)
        BY <1>10, <3>1 DEF ClearOON
      <3>3. series' \in {<<>>, <<"RUN_JOB">>} /\ pc' \notin {"RESULT", "FIFO"}
        BY <3>2, AfterOONType, Zenon DEF Typed
      <3>4. ~Answers'
        BY <3>3 DEF Answers
      <3>5. ok => ~oon'[NumChips]
        BY <1>1, <1>2, <2>1
      <3>6. QED
        BY <3>4, <3>5 DEF Due
    <2>6. QED
      BY <1>1, <1>4, <2>2, <2>3, <2>4, <2>5
  <1>11. CASE RunJob
    <2>1. series = <<"RUN_JOB">>
      BY <1>2, <1>11 DEF RunJob, Typed, HostTyped
    <2>2. series' = <<>> /\ pc' # "FIFO" /\ oon' = oon
      BY <1>11, <2>1 DEF RunJob, EndOfPass
    <2>3. Sent = 1 /\ Sent' = 0 /\ Due' <= Due
      BY <2>1, <2>2 DEF Sent, Due, Answers
    <2>4. PICK ok \in BOOLEAN :
            /\ \A c \in Chips : Len(jobs'[c]) = (IF ok /\ Len(jobs[c]) < FifoDepth
                                                  THEN Len(jobs[c]) + 1 ELSE Len(jobs[c]))
            /\ dropped' = (dropped \/ (ok /\ \E c \in Chips : Len(jobs[c]) = FifoDepth))
      BY <1>11, RunJobStep
    <2>5. L' <= L + 1 /\ L' \in Nat
      BY <1>1, <2>4
    <2>6. dropped' => dropped \/ L >= FifoDepth
      <3>1. \A c \in Chips : Len(jobs[c]) <= L
        BY JobLoopsAssumption DEF InOrder, Is, Chips
      <3>2. QED
        BY <1>1, <2>4, <3>1
    <2>7. QED
      BY <1>1, <1>3, <1>4, <2>3, <2>5, <2>6
  <1>12. CASE CheckGN \/ ReadGN \/ HandleGN \/ CheckOON
    <2>1. UNCHANGED <<jobs, dropped, oon, series>> /\ pc' # "FIFO"
      BY <1>2, <1>12, ScanType
         DEF CheckGN, ReadGN, HandleGN, CheckOON, EndOfPass, chain, history, Typed, HostTyped
    <2>2. QED
      BY <1>5, <2>1
  <1>13. CASE UNCHANGED vars
    BY <1>1, <1>13 DEF vars, chain, history, Due, Sent, Answers
  <1>14. QED
    BY <1>6, <1>7, <1>8, <1>9, <1>10, <1>11, <1>12, <1>13 DEF Next, Host

\* What RunJob has still to send shrinks with every job it sends.
LEMMA SeriesStep ==
  ASSUME Typed, Jobs, Is({"RunJob"}), [Next]_vars
  PROVE  /\ Len(series') <= 1 \/ \A k \in 1 .. Len(series') : series'[k] = "RUN_JOB"
         /\ ToSend \in Nat /\ ToSend' \in Nat /\ ToSend' <= ToSend
         /\ RunJob => ToSend' <= ToSend - 1
  <1> DEFINE One(s) == Len(s) <= 1 \/ \A k \in 1 .. Len(s) : s[k] = "RUN_JOB"
  <1>1. /\ One(series) /\ series \in Seq({"CLEAR_OON", "RUN_JOB"})
        /\ series' \in Seq({"CLEAR_OON", "RUN_JOB"})
        /\ (pc = "SEND" <=> series # <<>>) /\ (pc' = "SEND" <=> series' # <<>>)
    BY TypedStep DEF Jobs, Typed, HostTyped
  <1>2. Len(series) \in Nat /\ Len(series') \in Nat /\ ToSend \in Nat /\ ToSend' \in Nat
    BY <1>1 DEF ToSend
  <1>3. Answer = <<"CLEAR_OON">> /\ ~SimpleWork /\ ~Is({"RunJobInfinite"})
    BY AnswerType DEF SimpleWork, Is
  <1>4. ASSUME NEW ok, AfterOON(ok) PROVE series' = <<>>
    BY <1>4 DEF AfterOON, Is
  <1>5. CASE series' = <<>>
    <2>1. One(series')
      BY <1>5
    <2>2. ToSend' = 0
      BY <1>1, <1>5 DEF ToSend
    <2>3. RunJob => ToSend > 0
      <3>1. ASSUME RunJob PROVE pc = "SEND" /\ Head(series) = "RUN_JOB"
        BY <3>1 DEF RunJob
      <3>2. ASSUME pc = "SEND" PROVE Len(series) > 0
        BY <1>1, <3>2, EmptySeq
      <3>3. QED
        BY <3>1, <3>2 DEF ToSend
    <2>4. QED
      BY <1>2, <2>1, <2>2, <2>3
  <1>6. CASE series' = <<"CLEAR_OON">> /\ ~RunJob
    <2>1. One(series')
      BY <1>6
    <2>2. Head(series') # "RUN_JOB"
      BY <1>6
    <2>3. ToSend' = 0
      BY <2>2 DEF ToSend
    <2>4. QED
      BY <1>2, <1>6, <2>1, <2>3
  <1>7. CASE series' = series /\ (pc' = "SEND" => pc = "SEND") /\ ~RunJob
    <2>1. ToSend' <= ToSend
      BY <1>2, <1>7 DEF ToSend
    <2>2. QED
      BY <1>1, <1>2, <1>7, <2>1
  <1>8. CASE RunJob
    <2>1. pc = "SEND" /\ Head(series) = "RUN_JOB" /\ series' = Tail(series) /\ series # <<>>
      BY <1>1, <1>8 DEF RunJob
    <2>2. /\ Len(series') = Len(series) - 1 /\ Len(series) > 0
          /\ \A k \in 1 .. Len(series) - 1 : series'[k] = series[k + 1]
      BY <1>1, <2>1, TailType
    <2>3. ToSend = Len(series) /\ (ToSend' = 0 \/ ToSend' = Len(series'))
      BY <2>1 DEF ToSend
    <2>4. One(series')
      <3>1. CASE Len(series) <= 1
        BY <1>2, <2>2, <3>1
      <3>2. CASE \A k \in 1 .. Len(series) : series[k] = "RUN_JOB"
        BY <1>2, <2>2, <3>2
      <3>3. QED
        BY <1>1, <3>1, <3>2
    <2>5. QED
      BY <1>2, <2>2, <2>3, <2>4
  <1>9. CASE CheckGN \/ ReadGN \/ HandleGN \/ CheckOON
    <2>1. series' = series /\ pc' # "SEND" /\ ~RunJob
      BY <1>3, <1>9 DEF CheckGN, ReadGN, HandleGN, CheckOON, NextOfScan, EndOfPass, RunJob
    <2>2. QED
      BY <1>7, <2>1
  <1>10. CASE ReadOON
    <2>1. ~RunJob
      BY <1>10 DEF ReadOON, RunJob
    <2>2. \/ series' = Answer
          \/ series' = series /\ pc' # "SEND"
      BY <1>3, <1>10 DEF ReadOON, NextChip, EndOfPass
    <2>3. QED
      BY <1>3, <1>6, <1>7, <2>1, <2>2
  <1>11. CASE CheckFifo
    <2>1. ~RunJob
      BY <1>11 DEF CheckFifo, RunJob
    <2>2. series' = Answer \/ \E ok : AfterOON(ok)
      BY <1>11 DEF CheckFifo
    <2>3. QED
      BY <1>3, <1>4, <1>5, <1>6, <2>1, <2>2
  <1>12. CASE ClearOON
    <2>1. pc = "SEND" /\ Head(series) = "CLEAR_OON" /\ series # <<>>
      BY <1>1, <1>12 DEF ClearOON
    <2>2. ~(Len(series) > 1)
      <3>1. Len(series) > 0 /\ Head(series) = series[1]
        BY <1>1, <2>1, TailType
      <3>2. QED
        BY <1>1, <1>2, <2>1, <3>1
    <2>3. AfterOON(TRUE)
      BY <1>12, <2>2 DEF ClearOON
    <2>4. QED
      BY <1>4, <1>5, <2>3
  <1>13. CASE (\E c \in Chips : Exhaust(c) \/ FindNonce(c)) \/ UNCHANGED vars
    <2>1. series' = series /\ pc' = pc
      BY <1>13 DEF Exhaust, FindNonce, vars
    <2>2. CASE RunJob
      BY <1>8, <2>2
    <2>3. QED
      BY <1>7, <2>1, <2>2
  <1>14. QED
    BY <1>8, <1>9, <1>10, <1>11, <1>12, <1>13 DEF Next, Host

LEMMA JobsStep == Typed /\ Jobs /\ [Next]_vars => Jobs'
  <1> DEFINE Chip(c) == /\ worked[c] + Len(jobs[c]) + ToSend <= FifoDepth
                        /\ nonces[c] <= worked[c] + (IF found[c] THEN 1 ELSE 0)
                        /\ found[c] => jobs[c] # <<>>
                        /\ gn[c] = "right" => nonces[c] > 0
  <1> SUFFICES ASSUME Typed, Jobs, [Next]_vars, Is({"RunJob"}), NEW d \in Chips
               PROVE  Chip(d)'
    BY HistoryStep, SeriesStep DEF Jobs, Is
  <1>1. /\ Chip(d) /\ worked[d] \in Nat /\ nonces[d] \in Nat /\ FifoDepth \in Nat
        /\ jobs[d] \in Seq(Ids) /\ Len(jobs[d]) \in Nat
    BY JobLoopsAssumption DEF Jobs, Typed, ChainTyped
  <1>2. ToSend \in Nat /\ ToSend' \in Nat /\ ToSend' <= ToSend /\ (RunJob => ToSend' <= ToSend - 1)
    BY SeriesStep
  <1>3. worked[d] + Len(jobs[d]) + ToSend' <= FifoDepth
    <2>1. /\ worked[d] + Len(jobs[d]) + ToSend <= FifoDepth
          /\ worked[d] \in Nat /\ Len(jobs[d]) \in Nat /\ FifoDepth \in Nat
      BY <1>1
    <2>2. QED
      BY <1>2, <2>1
  <1>4. CASE /\ UNCHANGED <<worked, jobs, nonces, found>> /\ (gn'[d] = "right" => gn[d] = "right")
    <2>1. worked'[d] + Len(jobs'[d]) + ToSend' <= FifoDepth
      BY <1>1, <1>2, <1>4
    <2>2. QED
      BY <1>1, <1>4, <2>1
  <1>5. ASSUME NEW c \in Chips, Exhaust(c) PROVE Chip(d)'
    <2>1. CASE c # d
      <3>1. /\ jobs'[d] = jobs[d] /\ worked'[d] = worked[d]
            /\ found'[d] = found[d] /\ UNCHANGED <<nonces, gn>>
        BY <1>5, <2>1 DEF Exhaust, Typed, ChainTyped
      <3>2. worked'[d] + Len(jobs'[d]) + ToSend' <= FifoDepth
        BY <1>1, <1>2, <3>1
      <3>3. QED
        BY <1>1, <3>1, <3>2
    <2>2. CASE c = d
      <3>1. /\ Len(jobs'[d]) = Len(jobs[d]) - 1 /\ UNCHANGED <<nonces, gn>>
        BY <1>5, <2>2, ExhaustStep
      <3>2. worked'[d] = worked[d] + 1 /\ ~found'[d]
        BY <1>5, <2>2 DEF Exhaust, Typed, ChainTyped, Endless, Is
      <3>3. worked'[d] + Len(jobs'[d]) + ToSend' <= FifoDepth
        <4>1. (worked[d] + 1) + (Len(jobs[d]) - 1) = worked[d] + Len(jobs[d])
          BY <1>1
        <4>2. worked'[d] + Len(jobs'[d]) = worked[d] + Len(jobs[d])
          BY <3>1, <3>2, <4>1
        <4>3. QED
          BY <1>3, <4>2
      <3>4. nonces'[d] <= worked'[d]
        <4>1. (IF found[d] THEN 1 ELSE 0) \in {0, 1}
          OBVIOUS
        <4>2. QED
          BY <1>1, <3>1, <3>2, <4>1
      <3>5. nonces'[d] <= worked'[d] + (IF found'[d] THEN 1 ELSE 0)
        BY <1>1, <3>2, <3>4
      <3>6. QED
        BY <1>1, <3>1, <3>2, <3>3, <3>5
    <2>3. QED
      BY <2>1, <2>2
  <1>6. ASSUME NEW c \in Chips, FindNonce(c) PROVE Chip(d)'
    <2>1. UNCHANGED <<jobs, worked>>
      BY <1>6 DEF FindNonce
    <2>2. worked'[d] + Len(jobs'[d]) + ToSend' <= FifoDepth
      BY <1>1, <1>2, <2>1
    <2>3. CASE c # d
      <3>1. nonces'[d] = nonces[d] /\ found'[d] = found[d] /\ gn'[d] = gn[d]
        BY <1>6, <2>3 DEF FindNonce, Typed, ChainTyped
      <3>2. QED
        BY <1>1, <2>1, <2>2, <3>1
    <2>4. CASE c = d
      <3>1. ~found[d] /\ jobs[d] # <<>> /\ found'[d]
        BY <1>6, <2>4 DEF FindNonce, Typed, ChainTyped
      <3>2. \/ nonces'[d] = nonces[d] /\ gn'[d] # "right"
            \/ nonces'[d] = nonces[d] + 1
        BY <1>6, <2>4 DEF FindNonce, Typed, ChainTyped, Endless, Is
      <3>3. nonces[d] <= worked[d]
        BY <1>1, <3>1
      <3>4. nonces'[d] <= worked'[d] + 1 /\ (gn'[d] = "right" => nonces'[d] > 0)
        BY <1>1, <2>1, <3>2, <3>3
      <3>5. QED
        BY <2>1, <2>2, <3>1, <3>4
    <2>5. QED
      BY <2>3, <2>4
  <1>7. CASE HandleGN
    <2>1. UNCHANGED <<worked, jobs, nonces, found>>
      BY <1>7 DEF HandleGN
    <2>2. gn'[d] = "right" => gn[d] = "right"
      BY <1>7 DEF HandleGN, Typed, ChainTyped
    <2>3. QED
      BY <1>4, <2>1, <2>2
  <1>8. CASE RunJob
    <2>1. UNCHANGED <<worked, nonces, found, gn>>
      BY <1>8 DEF RunJob
    <2>2. /\ Len(jobs'[d]) <= Len(jobs[d]) + 1 /\ Len(jobs'[d]) \in Nat
          /\ Len(jobs'[d]) >= Len(jobs[d])
      BY <1>1, <1>8, RunJobStep
    <2>3. worked'[d] + Len(jobs'[d]) + ToSend' <= FifoDepth
      <3>1. worked[d] + Len(jobs[d]) + ToSend <= FifoDepth
        BY <1>1
      <3>2. worked'[d] = worked[d] /\ ToSend' <= ToSend - 1
        BY <1>2, <1>8, <2>1
      <3>3. worked[d] \in Nat /\ Len(jobs[d]) \in Nat /\ FifoDepth \in Nat
        BY <1>1
      <3>4. worked[d] + Len(jobs'[d]) + ToSend' <= FifoDepth
        <4>1. ToSend \in Nat /\ ToSend' \in Nat
          BY <1>2
        <4>2. \A w, l, m, t, u, n \in Nat :
                m <= l + 1 /\ u <= t - 1 /\ w + l + t <= n => w + m + u <= n
          OBVIOUS
        <4>3. QED
          BY <2>2, <3>1, <3>2, <3>3, <4>1, <4>2, Zenon
      <3>5. QED
        BY <3>2, <3>4
    <2>4. found'[d] => jobs'[d] # <<>>
      <3>1. jobs[d] # <<>> => Len(jobs[d]) > 0
        BY <1>1, EmptySeq
      <3>2. jobs'[d] = <<>> => Len(jobs'[d]) = 0
        OBVIOUS
      <3>3. QED
        BY <1>1, <2>1, <2>2
    <2>5. QED
      BY <1>1, <2>1, <2>3, <2>4
  <1>9. CASE CheckGN \/ ReadGN \/ CheckOON \/ ReadOON \/ CheckFifo \/ ClearOON \/ UNCHANGED vars
    <2>1. UNCHANGED <<worked, jobs, nonces, found, gn>>
      BY <1>9 DEF CheckGN, ReadGN, CheckOON, ReadOON, CheckFifo, ClearOON, chain, vars
    <2>2. QED
      BY <1>4, <2>1
  <1>10. QED
    BY <1>5, <1>6, <1>7, <1>8, <1>9 DEF Next, Host

LEMMA JobsInit == Init => Jobs
  <1> SUFFICES ASSUME Init, Is({"RunJob"})
               PROVE  /\ Len(series) <= 1 \/ \A k \in 1 .. Len(series) : series[k] = "RUN_JOB"
                      /\ \A c \in Chips :
                           /\ worked[c] + Len(jobs[c]) + ToSend <= FifoDepth
                           /\ nonces[c] <= worked[c] + (IF found[c] THEN 1 ELSE 0)
                           /\ found[c] => jobs[c] # <<>>
                           /\ gn[c] = "right" => nonces[c] > 0
    BY DEF Jobs
  <1>1. Len(series) = FifoDepth /\ \A k \in 1 .. Len(series) : series[k] = "RUN_JOB"
    BY FirstJobsType DEF Init, Is, OneWork
  <1>2. ToSend \in 0 .. FifoDepth
    BY <1>1, JobLoopsAssumption DEF ToSend
  <1>3. \A c \in Chips : /\ worked[c] = 0 /\ Len(jobs[c]) = 0 /\ nonces[c] = 0
                         /\ ~found[c] /\ gn[c] = "none"
    BY DEF Init
  <1>4. QED
    BY <1>1, <1>2, <1>3, JobLoopsAssumption

\* The nonces that RunJob may read are finite in number.
LEMMA AllReadType ==
  /\ IsFiniteSet(Chips \X (1 .. FifoDepth))
  /\ Cardinality(Chips \X (1 .. FifoDepth)) = FifoDepth * NumChips
  /\ IsFiniteSet(AllRead) /\ AllRead \subseteq Chips \X (1 .. FifoDepth)
  <1>1. FifoDepth \in Nat \ {0} /\ NumChips \in Nat \ {0}
    BY JobLoopsAssumption
  <1>2. /\ IsFiniteSet(1 .. FifoDepth) /\ Cardinality(1 .. FifoDepth) = FifoDepth
        /\ IsFiniteSet(Chips) /\ Cardinality(Chips) = NumChips
    BY <1>1, FS_Interval DEF Chips
  <1>3. /\ IsFiniteSet(Chips \X (1 .. FifoDepth))
        /\ Cardinality(Chips \X (1 .. FifoDepth)) = NumChips * FifoDepth
    BY <1>2, FS_Product
  <1>4. AllRead \subseteq Chips \X (1 .. FifoDepth)
    BY DEF AllRead
  <1>5. IsFiniteSet(AllRead)
    BY <1>3, <1>4, FS_Subset
  <1>6. QED
    BY <1>1, <1>3, <1>4, <1>5

LEMMA VerdictInit == Init => Verdict
  <1> SUFFICES ASSUME Init, Is({"RunJob"})
               PROVE  /\ mismatch \/ ishashdone => pc = "END"
                      /\ pc # "END" \/ mismatch => oon_cnt < test.works
                      /\ ~mismatch => gn_cnt = Cardinality(AllRead)
    BY DEF Verdict
  <1>1. test.works = FifoDepth
    BY TestType DEF Init
  <1>2. \A c \in Chips : nonces[c] = 0 /\ gn[c] = "none"
    BY DEF Init
  <1>3. \A c \in Chips : Read(c) = 0
    BY <1>2 DEF Read
  <1>4. AllRead = {}
    BY <1>3 DEF AllRead
  <1>5. gn_cnt = Cardinality(AllRead)
    BY <1>4, FS_EmptySet DEF Init
  <1>6. QED
    BY <1>1, <1>5, JobLoopsAssumption DEF Init

LEMMA VerdictStep == Typed /\ Jobs /\ Verdict /\ [Next]_vars => Verdict'
  <1> DEFINE Going == /\ mismatch \/ ishashdone => pc = "END"
                      /\ pc # "END" \/ mismatch => oon_cnt < test.works
             Kept  == ~mismatch => gn_cnt = Cardinality(AllRead)
  <1> SUFFICES ASSUME Typed, Jobs, Verdict, [Next]_vars, Is({"RunJob"})
               PROVE  Going' /\ Kept'
    BY HistoryStep DEF Verdict, Is
  <1>1. Going /\ Kept /\ test' = test /\ test.works \in Nat /\ oon_cnt \in Nat
    BY HistoryStep, TestType DEF Verdict, Typed, HostTyped
  <1>2. ~SimpleWork /\ ~ScansGN /\ ~Is({"RunJobInfinite"}) /\ ~Endless
    BY DEF SimpleWork, ScansGN, Endless, Is
  <1>3. ASSUME \A c \in Chips : Read(c)' = Read(c) PROVE AllRead' = AllRead
    BY <1>3 DEF AllRead
  <1>4. ASSUME UNCHANGED <<mismatch, gn_cnt, gn, nonces>> PROVE Kept'
    <2>1. AllRead' = AllRead
      BY <1>3, <1>4 DEF Read
    <2>2. QED
      BY <1>1, <1>4, <2>1
  <1>6. ASSUME NEW ok, AfterOON(ok), pc # "END", mismatch' = mismatch PROVE Going'
    <2>1. ~ishashdone /\ ~mismatch /\ oon_cnt < test.works
      BY <1>1, <1>6
    <2>2. oon_cnt' = oon_cnt + 1 /\ (ishashdone' <=> oon_cnt' = test.works)
          /\ pc' = EndOfPass(ishashdone')
      BY <1>6, <2>1 DEF AfterOON, Is
    <2>3. QED
      BY <1>1, <1>6, <2>2 DEF EndOfPass
  <1>7. ASSUME NEW c \in Chips, Exhaust(c) PROVE Going' /\ Kept'
    <2>1. UNCHANGED <<mismatch, gn_cnt, gn, nonces, ishashdone, oon_cnt, pc>>
      BY <1>7 DEF Exhaust, locals, history
    <2>2. QED
      BY <1>1, <1>4, <2>1
  <1>8. ASSUME NEW c \in Chips, FindNonce(c) PROVE Going' /\ Kept'
    <2>1. UNCHANGED <<mismatch, gn_cnt, ishashdone, oon_cnt, pc>>
      BY <1>8 DEF FindNonce, locals, history
    <2>2. ASSUME NEW d \in Chips PROVE Read(d)' = Read(d)
      <3>1. nonces[d] \in Nat
        BY DEF Typed, ChainTyped
      <3>2. CASE d # c
        BY <1>8, <3>2 DEF FindNonce, Read
      <3>3. CASE d = c
        <4>1. gn[d] = "none" /\ gn'[d] = (IF d \in test.bad THEN "wrong" ELSE "right")
          BY <1>8, <3>3 DEF FindNonce, Typed, ChainTyped
        <4>2. nonces'[d] = (IF d \in test.bad THEN nonces[d] ELSE nonces[d] + 1)
          BY <1>2, <1>8, <3>3 DEF FindNonce, Typed, ChainTyped
        <4>3. QED
          BY <3>1, <4>1, <4>2 DEF Read
      <3>4. QED
        BY <3>2, <3>3
    <2>3. AllRead' = AllRead
      BY <1>3, <2>2
    <2>4. QED
      BY <1>1, <2>1, <2>3
  <1>9. CASE HandleGN
    <2>1. PICK okHash \in Outcome("READ_HASH"), okResult \in Outcome("READ_RESULT") :
            LET ok == Matches(res.chip, okHash, okResult) IN
            /\ gn' = IF okResult THEN [gn EXCEPT ![res.chip] = "none"] ELSE gn
            /\ mismatch' = (mismatch \/ ~(ok \/ Is({"TestWorkLoop_RandomVector"})))
            /\ IF ok \/ Is({"TestWorkLoop_RandomVector"})
                 THEN NextOfScan /\ UNCHANGED ishashdone
                 ELSE /\ ishashdone' = ScansGN
                      /\ pc' = IF ScansGN THEN "OON" ELSE "END"
                      /\ chip' = 1
      BY <1>9 DEF HandleGN
    <2>2. /\ pc = "RESULT" /\ res.chip \in Chips
          /\ gn_cnt' = gn_cnt + 1 /\ UNCHANGED <<oon_cnt, nonces>>
      BY <1>9 DEF HandleGN, Typed, ResTyped
    <2>3. ~mismatch /\ ~ishashdone /\ oon_cnt < test.works
      BY <1>1, <2>2
    <2>4. CASE ~Matches(res.chip, okHash, okResult)
      <3>1. mismatch' /\ pc' = "END"
        BY <1>2, <2>1, <2>4 DEF Is
      <3>2. QED
        BY <1>1, <2>2, <2>3, <3>1
    <2>5. CASE Matches(res.chip, okHash, okResult)
      <3>0. PICK c \in Chips : c = res.chip
        BY <2>2
      <3>1. mismatch' = FALSE /\ ishashdone' = ishashdone /\ pc' = "OON"
        BY <1>2, <2>1, <2>3, <2>5 DEF NextOfScan
      <3>2. gn[c] = "right" /\ gn' = [gn EXCEPT ![c] = "none"]
        BY <3>0, <2>1, <2>5 DEF Matches
      <3>3. /\ nonces[c] \in Nat /\ nonces[c] > 0 /\ nonces[c] <= FifoDepth
        <4>1. /\ nonces[c] \in Nat /\ worked[c] \in Nat
              /\ jobs[c] \in Seq(Ids) /\ Len(jobs[c]) \in Nat
              /\ nonces[c] <= worked[c] + (IF found[c] THEN 1 ELSE 0)
              /\ found[c] => jobs[c] # <<>>
              /\ worked[c] + Len(jobs[c]) + ToSend <= FifoDepth
              /\ nonces[c] > 0 /\ ToSend \in Nat /\ FifoDepth \in Nat
          BY <3>2, SeriesStep, JobLoopsAssumption DEF Jobs, Typed, ChainTyped
        <4>2. found[c] => Len(jobs[c]) > 0
          BY <4>1, EmptySeq
        <4>3. QED
          BY <4>1, <4>2
      <3>4. Read(c) = nonces[c] - 1 /\ Read(c)' = nonces[c]
        <4>1. gn'[c] = "none" /\ nonces'[c] = nonces[c]
          BY <2>2, <3>2 DEF Typed, ChainTyped
        <4>2. QED
          BY <3>2, <3>3, <4>1 DEF Read
      <3>5. \A d \in Chips : d # c => Read(d)' = Read(d)
        BY <2>2, <3>2 DEF Read
      <3>6. AllRead' = AllRead \cup {<<c, nonces[c]>>} /\ <<c, nonces[c]>> \notin AllRead
        <4>1. ASSUME NEW d \in Chips, NEW k \in 1 .. FifoDepth
              PROVE  (k <= Read(d)') <=> (k <= Read(d) \/ <<d, k>> = <<c, nonces[c]>>)
          <5>1. CASE d = c
            <6>1. Read(d)' = nonces[c] /\ Read(d) = nonces[c] - 1
              BY <3>4, <5>1
            <6>2. <<d, k>> = <<c, nonces[c]>> <=> k = nonces[c]
              BY <5>1
            <6>3. QED
              BY <3>3, <6>1, <6>2
          <5>2. CASE d # c
            BY <3>5, <5>2
          <5>3. QED
            BY <5>1, <5>2
        <4>2. <<c, nonces[c]>> \in Chips \X (1 .. FifoDepth)
          BY <2>2, <3>3, JobLoopsAssumption
        <4>3. ~(nonces[c] <= Read(c))
          BY <3>3, <3>4
        <4>4. QED
          BY <4>1, <4>2, <4>3 DEF AllRead
      <3>7. gn_cnt' = Cardinality(AllRead')
        BY <1>1, <2>2, <2>3, <3>6, AllReadType, FS_AddElement
      <3>8. QED
        BY <1>1, <2>2, <3>1, <3>7
    <2>6. QED
      BY <2>4, <2>5
  <1>10. CASE CheckFifo
    <2>1. pc = "FIFO" /\ UNCHANGED <<mismatch, gn_cnt, gn, nonces>>
      BY <1>10 DEF CheckFifo, chain
    <2>2. \/ pc' = "SEND" /\ UNCHANGED <<chip, ishashdone, oon_cnt>>
          \/ \E ok : AfterOON(ok)
      BY <1>10 DEF CheckFifo
    <2>3. Going'
      <3>1. CASE pc' = "SEND" /\ UNCHANGED <<chip, ishashdone, oon_cnt>>
        BY <1>1, <2>1, <3>1
      <3>2. CASE \E ok : AfterOON(ok)
        BY <1>6, <2>1, <3>2
      <3>3. QED
        BY <2>2, <3>1, <3>2
    <2>4. QED
      BY <1>4, <2>1, <2>3
  <1>11. CASE ClearOON
    <2>1. pc = "SEND" /\ UNCHANGED <<mismatch, gn_cnt, gn, nonces>>
      BY <1>11 DEF ClearOON
    <2>2. \/ UNCHANGED <<pc, chip, ishashdone, oon_cnt>>
          \/ AfterOON(TRUE)
      BY <1>11 DEF ClearOON
    <2>3. Going'
      <3>1. CASE UNCHANGED <<pc, chip, ishashdone, oon_cnt>>
        BY <1>1, <2>1, <3>1
      <3>2. CASE AfterOON(TRUE)
        BY <1>6, <2>1, <3>2
      <3>3. QED
        BY <2>2, <3>1, <3>2
    <2>4. QED
      BY <1>4, <2>1, <2>3
  <1>12. CASE CheckGN \/ ReadGN \/ CheckOON \/ ReadOON \/ RunJob
    <2>1. UNCHANGED <<mismatch, gn_cnt, gn, nonces, ishashdone, oon_cnt>> /\ pc # "END"
      BY <1>12 DEF CheckGN, ReadGN, CheckOON, ReadOON, RunJob, chain, locals, history
    <2>2. ~ishashdone
      BY <1>1, <2>1
    <2>3. pc' # "END"
      BY <1>12, <2>2 DEF CheckGN, ReadGN, CheckOON, ReadOON, RunJob, NextOfScan, NextChip,
         EndOfPass
    <2>4. QED
      BY <1>1, <1>4, <2>1
  <1>13. CASE UNCHANGED vars
    <2>1. UNCHANGED <<mismatch, gn_cnt, gn, nonces, ishashdone, oon_cnt, pc>>
      BY <1>13 DEF vars, locals, chain, history
    <2>2. QED
      BY <1>1, <1>4, <2>1
  <1>14. QED
    BY <1>7, <1>8, <1>9, <1>10, <1>11, <1>12, <1>13 DEF Next, Host

-----------------------------------------------------------------------------
(* Who has ended a job.                                                     *)

LEMMA WorkedStep ==
  ASSUME Typed, [Next]_vars
  PROVE  \A c \in Chips : worked[c] \in Nat /\ worked'[c] \in Nat /\ worked'[c] >= worked[c]
  <1> SUFFICES ASSUME NEW c \in Chips PROVE worked'[c] >= worked[c]
    BY TypedStep DEF Typed, ChainTyped
  <1>1. worked[c] \in Nat
    BY DEF Typed, ChainTyped
  <1>2. ASSUME NEW d \in Chips, Exhaust(d) PROVE worked'[c] >= worked[c]
    BY <1>1, <1>2 DEF Exhaust
  <1>3. CASE worked' = worked
    BY <1>1, <1>3
  <1>4. QED
    BY <1>2, <1>3
       DEF Next, Host, CheckGN, ReadGN, HandleGN, CheckOON, ReadOON, CheckFifo, ClearOON, RunJob,
           FindNonce, chain, vars

\* A test that answers one OON at a time clears it with its last command.
LEMMA ClearsLast ==
  ASSUME Typed, OneAtATime, Is(OneWork \cup {"TestWorkLoop"}), ClearOON
  PROVE  series = <<"CLEAR_OON">> /\ AfterOON(TRUE)
  <1>1. series = <<"CLEAR_OON">>
    <2>1. series # <<>> /\ Head(series) = "CLEAR_OON"
      BY DEF ClearOON, Typed, HostTyped
    <2>2. series # <<"RUN_JOB">>
      BY <2>1
    <2>3. QED
      BY <2>1, <2>2 DEF OneAtATime
  <1>2. ~(Len(series) > 1)
    BY <1>1
  <1>3. QED
    BY <1>1, <1>2 DEF ClearOON

LEMMA EndedInit == Init => Ended
  <1> SUFFICES ASSUME Init
               PROVE  (\A c \in Chips : ~oon[c]) /\ ~res.oon /\ hashdone_chip = {}
    BY DEF Ended
  <1>1. QED
    BY DEF Init

LEMMA EndedStep == Typed /\ Ended /\ [Next]_vars => Ended'
  <1> DEFINE Worked(c) == worked[c] > 0
             Good == /\ \A c \in Chips : oon[c] => Worked(c)
                     /\ res.oon => Worked(res.chip)
                     /\ \A c \in hashdone_chip : Worked(c)
  <1> SUFFICES ASSUME Typed, Ended, [Next]_vars, ~Endless PROVE Good'
    BY HistoryStep DEF Ended, Endless, Is
  <1>1. Good /\ (res.oon => res.chip \in Chips) /\ hashdone_chip \subseteq Chips
    BY DEF Ended, Typed, ResTyped, HostTyped
  <1>2. \A c \in Chips : Worked(c) => worked'[c] > 0
    BY WorkedStep
  <1>3. ASSUME \A c \in Chips : oon'[c] => oon[c]
        PROVE  \A c \in Chips : oon'[c] => worked'[c] > 0
    BY <1>1, <1>2, <1>3
  <1>4. ASSUME res' = res PROVE res'.oon => worked'[res'.chip] > 0
    BY <1>1, <1>2, <1>4
  <1>5. ASSUME hashdone_chip' = hashdone_chip PROVE \A c \in hashdone_chip' : worked'[c] > 0
    BY <1>1, <1>2, <1>5
  <1>6. ASSUME NEW asked \in SUBSET Chips, ReadJobId(asked), worked' = worked
        PROVE  res'.oon => worked'[res'.chip] > 0
    <2>1. \/ res' = res
          \/ res'.chip \in asked /\ res'.oon = oon[res'.chip]
      BY <1>6, ReadJobIdType DEF Typed
    <2>2. QED
      BY <1>1, <1>6, <2>1
  <1>7. ASSUME NEW d \in Chips, Exhaust(d) PROVE Good'
    <2>1. UNCHANGED <<res, hashdone_chip>>
      BY <1>7 DEF Exhaust, locals
    <2>2. worked'[d] > 0 /\ \A c \in Chips : c # d => oon'[c] = oon[c]
      BY <1>7 DEF Exhaust, Typed, ChainTyped
    <2>3. \A c \in Chips : oon'[c] => worked'[c] > 0
      BY <1>1, <1>2, <2>2
    <2>4. QED
      BY <1>4, <1>5, <2>1, <2>3
  <1>8. CASE ReadGN
    <2> DEFINE asked == IF ScansGN THEN {chip} ELSE {c \in Chips : gn[c] # "none"}
    <2>1. asked \in SUBSET Chips /\ ReadJobId(asked)
      BY <1>8 DEF ReadGN, Typed, HostTyped
    <2>2. UNCHANGED <<oon, worked, hashdone_chip>>
      BY <1>8 DEF ReadGN, chain, locals
    <2> HIDE DEF asked
    <2>3. QED
      BY <1>3, <1>5, <1>6, <2>1, <2>2
  <1>9. CASE ReadOON
    <2>1. Asked \in SUBSET Chips /\ ReadJobId(Asked) /\ UNCHANGED <<oon, worked>>
      BY <1>9, AskedType DEF ReadOON, Typed, HostTyped, chain
    <2>2. res'.oon => worked'[res'.chip] > 0
      BY <1>6, <2>1
    <2>3. \/ hashdone_chip' = hashdone_chip
          \/ hashdone_chip' = hashdone_chip \cup {res'.chip} /\ res'.oon
      BY <1>9 DEF ReadOON
    <2>4. \A c \in hashdone_chip' : worked'[c] > 0
      BY <1>1, <2>1, <2>2, <2>3
    <2>5. QED
      BY <1>3, <2>1, <2>2, <2>4
  <1>10. CASE ClearOON
    <2>1. UNCHANGED <<res, hashdone_chip>> /\ \A c \in Chips : oon'[c] => oon[c]
      BY <1>10 DEF ClearOON, Typed, ChainTyped
    <2>2. QED
      BY <1>3, <1>4, <1>5, <2>1
  <1>11. CASE \/ CheckGN \/ HandleGN \/ CheckOON \/ CheckFifo \/ RunJob
              \/ \E c \in Chips : FindNonce(c)
            \/ UNCHANGED vars
    <2>1. UNCHANGED <<oon, res, hashdone_chip>>
      BY <1>11 DEF CheckGN, HandleGN, CheckOON, CheckFifo, RunJob, FindNonce, chain, locals, vars
    <2>2. QED
      BY <1>3, <1>4, <1>5, <2>1
  <1>12. QED
    BY <1>7, <1>8, <1>9, <1>10, <1>11 DEF Next, Host

LEMMA TogetherInit == Init => Together
  <1> SUFFICES ASSUME Init PROVE \A c \in Chips : Len(jobs[c]) = 0 /\ worked[c] = 0
    BY DEF Together
  <1>1. QED
    BY DEF Init

LEMMA TogetherStep == Typed /\ Together /\ [Next]_vars => Together'
  <1> DEFINE Had(c) == Len(jobs[c]) + worked[c]
  <1> SUFFICES ASSUME Typed, Together, [Next]_vars, Is({"TestWork", "TestWorkLoop"}), ~dropped',
                      NEW c \in Chips, NEW d \in Chips
               PROVE  Len(jobs'[c]) + worked'[c] = Len(jobs'[d]) + worked'[d]
    BY HistoryStep DEF Together, Is
  <1>1. /\ ~dropped /\ Had(c) = Had(d)
        /\ \A e \in Chips : Len(jobs[e]) \in Nat /\ worked[e] \in Nat
    BY HistoryStep DEF Together, Typed, ChainTyped
  <1>2. ASSUME NEW e \in Chips, Exhaust(e)
        PROVE  Len(jobs'[c]) + worked'[c] = Len(jobs'[d]) + worked'[d]
    <2>1. \A f \in Chips : Len(jobs'[f]) = (IF f = e THEN Len(jobs[f]) - 1 ELSE Len(jobs[f]))
      BY <1>2, ExhaustStep
    <2>2. \A f \in Chips : worked'[f] = (IF f = e THEN worked[f] + 1 ELSE worked[f])
      BY <1>2 DEF Exhaust, Endless, Is, Typed, ChainTyped
    <2>3. ASSUME NEW f \in Chips PROVE Len(jobs'[f]) + worked'[f] = Had(f)
      <3>1. CASE f = e
        <4>1. Len(jobs'[f]) = Len(jobs[f]) - 1 /\ worked'[f] = worked[f] + 1
          BY <2>1, <2>2, <3>1
        <4>2. Len(jobs[f]) \in Nat /\ worked[f] \in Nat
          BY <1>1
        <4>3. (Len(jobs[f]) - 1) + (worked[f] + 1) = Len(jobs[f]) + worked[f]
          BY <4>2
        <4>4. QED
          BY <4>1, <4>3
      <3>2. CASE f # e
        BY <1>1, <2>1, <2>2, <3>2
      <3>3. QED
        BY <3>1, <3>2
    <2>4. QED
      BY <1>1, <2>3
  <1>3. CASE RunJob
    <2>1. PICK ok \in BOOLEAN :
           /\ \A f \in Chips : Len(jobs'[f]) = (IF ok /\ Len(jobs[f]) < FifoDepth
                                                  THEN Len(jobs[f]) + 1 ELSE Len(jobs[f]))
           /\ dropped' = (dropped \/ (ok /\ \E f \in Chips : Len(jobs[f]) = FifoDepth))
      BY <1>3, RunJobStep
    <2>2. worked' = worked
      BY <1>3 DEF RunJob
    <2>3. CASE ok
      <3>1. \A f \in Chips : Len(jobs[f]) # FifoDepth
        BY <2>1, <2>3
      <3>2. \A f \in Chips : Len(jobs[f]) < FifoDepth
        BY <3>1, JobLoopsAssumption DEF Typed, ChainTyped
      <3>3. \A f \in Chips : Len(jobs'[f]) = Len(jobs[f]) + 1
        BY <2>1, <2>3, <3>2
      <3>4. ASSUME NEW f \in Chips PROVE Len(jobs'[f]) + worked'[f] = Had(f) + 1
        <4>1. Len(jobs'[f]) = Len(jobs[f]) + 1 /\ worked'[f] = worked[f]
          BY <2>2, <3>3
        <4>2. Len(jobs[f]) \in Nat /\ worked[f] \in Nat
          BY <1>1
        <4>3. QED
          BY <4>1, <4>2
      <3>5. QED
        BY <1>1, <3>4
    <2>4. CASE ~ok
      <3>1. \A f \in Chips : Len(jobs'[f]) = Len(jobs[f])
        BY <2>1, <2>4
      <3>2. QED
        BY <1>1, <2>2, <3>1
    <2>5. QED
      BY <2>3, <2>4
  <1>4. CASE UNCHANGED <<jobs, worked>>
    BY <1>1, <1>4
  <1>5. QED
    BY <1>2, <1>3, <1>4
       DEF Next, Host, CheckGN, ReadGN, HandleGN, CheckOON, ReadOON, CheckFifo, ClearOON,
           FindNonce, chain, vars

-----------------------------------------------------------------------------
(* What a loop knows when it answers, and when it says that it is done.     *)

LEMMA AsksInit == Init => Asks
  <1> SUFFICES ASSUME Init PROVE ~ishashdone /\ (Is({"TestWork", "TestWorkLoop"}) => ~Answers)
    BY DEF Asks
  <1>1. ~ishashdone /\ pc = "SEND"
    BY DEF Init
  <1>2. ASSUME Is({"TestWork", "TestWorkLoop"}) PROVE ~Answers
    <2>1. series[1] = "RUN_JOB"
      BY FirstJobsType DEF Init
    <2>2. QED
      BY <1>1, <2>1 DEF Answers
  <1>3. QED
    BY <1>1, <1>2

\* The loops of SimpleWork.c answer an OON that the last chip reported.
LEMMA AnswersStep ==
  ASSUME Typed, OneAtATime, Asks, [Next]_vars, Is({"TestWork", "TestWorkLoop"}), Answers'
  PROVE  res'.oon /\ res'.chip = NumChips /\ oon_job_id' = res'.id
  <1>1. /\ Answer = <<"CLEAR_OON">> /\ SimpleWork /\ ~Is({"RunJobInfinite"})
        /\ (pc = "SEND" <=> series # <<>>)
    BY AnswerType DEF Is, OneWork, SimpleWork, Typed, HostTyped
  <1>2. CASE Answers /\ UNCHANGED <<res, oon_job_id>>
    BY <1>2 DEF Asks
  <1>3. CASE ReadOON
    <2>1. /\ oon_job_id' = res'.id /\ pc = "OON_READ" /\ Asked = {NumChips}
          /\ IF res'.oon /\ res'.chip \in Asked
               THEN pc' = "FIFO" /\ series' = <<>>
               ELSE NextChip /\ UNCHANGED series
      BY <1>1, <1>3, AskedType DEF ReadOON, Typed, HostTyped
    <2>2. CASE res'.oon /\ res'.chip \in Asked
      BY <2>1, <2>2
    <2>3. CASE ~(res'.oon /\ res'.chip \in Asked)
      <3>1. pc' # "FIFO" /\ series' = <<>>
        BY <1>1, <2>1, <2>3 DEF NextChip, EndOfPass
      <3>2. QED
        BY <3>1 DEF Answers
    <2>4. QED
      BY <2>2, <2>3
  <1>4. CASE CheckFifo
    <2>1. pc = "FIFO" /\ UNCHANGED <<res, oon_job_id>>
      BY <1>4 DEF CheckFifo
    <2>2. QED
      BY <1>2, <2>1 DEF Answers
  <1>5. CASE ClearOON
    <2>1. series = <<"CLEAR_OON">>
      BY <1>5, ClearsLast DEF Is, OneWork
    <2>2. UNCHANGED <<res, oon_job_id>>
      BY <1>5 DEF ClearOON
    <2>3. QED
      BY <1>2, <2>1, <2>2 DEF Answers
  <1>6. CASE RunJob
    <2>1. series # <<>> /\ Head(series) = "RUN_JOB" /\ series' = Tail(series) /\ pc' # "FIFO"
      BY <1>1, <1>6 DEF RunJob, EndOfPass
    <2>2. series = <<"RUN_JOB">>
      <3>1. series # <<"CLEAR_OON">>
        BY <2>1
      <3>2. QED
        BY <2>1 DEF OneAtATime, Is, OneWork
    <2>3. series' = <<>>
      BY <2>1, <2>2
    <2>4. QED
      BY <2>1, <2>3 DEF Answers
  <1>7. CASE CheckGN \/ ReadGN \/ HandleGN \/ CheckOON
    <2>1. series = <<>> /\ series' = series /\ pc' # "FIFO"
      BY <1>1, <1>7 DEF CheckGN, ReadGN, HandleGN, CheckOON, NextOfScan, EndOfPass
    <2>2. QED
      BY <2>1 DEF Answers
  <1>8. CASE (\E c \in Chips : Exhaust(c) \/ FindNonce(c)) \/ UNCHANGED vars
    <2>1. UNCHANGED <<pc, series, res, oon_job_id>>
      BY <1>8 DEF Exhaust, FindNonce, locals, vars
    <2>2. Answers
      BY <2>1 DEF Answers
    <2>3. QED
      BY <1>2, <2>1, <2>2
  <1>9. QED
    BY <1>3, <1>4, <1>5, <1>6, <1>7, <1>8 DEF Next, Host

LEMMA AsksStep == Typed /\ OneAtATime /\ Asks /\ [Next]_vars => Asks'
  <1> DEFINE Work == Is({"TestWork", "TestWorkLoop"}) /\ ishashdone => mismatch \/ pc = "END"
             Asic == Is({"TestAsic"}) /\ ishashdone => hashdone_chip = Chips
  <1> SUFFICES ASSUME Typed, OneAtATime, Asks, [Next]_vars PROVE Work' /\ Asic'
    BY AnswersStep, HistoryStep DEF Asks, Is
  <1>1. Work /\ Asic /\ test' = test /\ (mismatch => mismatch')
    BY HistoryStep DEF Asks
  <1>2. CASE UNCHANGED <<ishashdone, hashdone_chip>> /\ (pc = "END" => pc' = "END")
    BY <1>1, <1>2 DEF Is
  <1>3. CASE HandleGN
    <2>1. pc = "RESULT" /\ UNCHANGED <<test, hashdone_chip>>
      BY <1>3 DEF HandleGN
    <2>2. \/ ishashdone' = ishashdone
          \/ ishashdone' = ScansGN /\ mismatch'
      BY <1>3 DEF HandleGN
    <2>3. ScansGN => ~Is({"TestAsic"})
      BY DEF ScansGN, Is
    <2>4. QED
      BY <1>1, <2>1, <2>2, <2>3 DEF Is
  <1>4. CASE ReadOON
    <2>1. pc = "OON_READ" /\ ishashdone' = ishashdone
          /\ (hashdone_chip' = hashdone_chip \/ hashdone_chip' = hashdone_chip \cup {res'.chip})
      BY <1>4 DEF ReadOON
    <2>2. hashdone_chip' \subseteq Chips
      BY TypedStep DEF Typed, HostTyped
    <2>3. QED
      BY <1>1, <2>1, <2>2 DEF Is
  <1>5. ASSUME NEW ok, AfterOON(ok), pc # "END", hashdone_chip' = hashdone_chip PROVE Work' /\ Asic'
    <2>1. Asic'
      BY <1>1, <1>5 DEF AfterOON, Is
    <2>2. Work'
      BY <1>1, <1>5 DEF AfterOON, Is
    <2>3. QED
      BY <2>1, <2>2
  <1>6. CASE CheckFifo
    <2>1. pc = "FIFO" /\ hashdone_chip' = hashdone_chip
      BY <1>6 DEF CheckFifo
    <2>2. UNCHANGED <<chip, ishashdone, oon_cnt>> \/ \E ok : AfterOON(ok)
      BY <1>6 DEF CheckFifo
    <2>3. QED
      BY <1>2, <1>5, <2>1, <2>2
  <1>7. CASE ClearOON
    <2>1. pc = "SEND" /\ hashdone_chip' = hashdone_chip
      BY <1>7 DEF ClearOON
    <2>2. UNCHANGED <<pc, chip, ishashdone, oon_cnt>> \/ AfterOON(TRUE)
      BY <1>7 DEF ClearOON
    <2>3. QED
      BY <1>2, <1>5, <2>1, <2>2
  <1>8. CASE CheckGN \/ ReadGN \/ CheckOON \/ RunJob
    <2>1. UNCHANGED <<ishashdone, hashdone_chip>> /\ pc # "END"
      BY <1>8 DEF CheckGN, ReadGN, CheckOON, RunJob, locals
    <2>2. QED
      BY <1>2, <2>1
  <1>9. CASE (\E c \in Chips : Exhaust(c) \/ FindNonce(c)) \/ UNCHANGED vars
    <2>1. UNCHANGED <<ishashdone, hashdone_chip, pc>>
      BY <1>9 DEF Exhaust, FindNonce, locals, vars
    <2>2. QED
      BY <1>2, <2>1
  <1>10. QED
    BY <1>3, <1>4, <1>6, <1>7, <1>8, <1>9 DEF Next, Host

-----------------------------------------------------------------------------
(* The ids of the jobs of TestWorkLoop.                                     *)

\* The jobs a chip has are those that follow the ones it has ended.
Follow(c) == /\ worked[c] + Len(jobs[c]) = jobcnt
             /\ \A k \in 1 .. Len(jobs[c]) : jobs[c][k] = worked[c] + k
             /\ oonId[c] = worked[c]

LEMMA NumberedInit == Init => Numbered
  <1> SUFFICES ASSUME Init, Is({"TestWorkLoop"}), test.works \in 1 .. IdRange - 1
               PROVE  /\ jobcnt = 0 /\ jobId = 1 /\ ~res.oon
                      /\ \A c \in Chips : worked[c] = 0 /\ Len(jobs[c]) = 0 /\ oonId[c] = 0
    BY JobLoopsAssumption DEF Numbered
  <1>1. QED
    BY DEF Init

\* A job that is done is the one that the chip reports.
LEMMA FollowExhaust ==
  ASSUME Typed, NEW d \in Chips, Exhaust(d), Is({"TestWorkLoop"}), NEW c \in Chips, Follow(c)
  PROVE  Follow(c)'
  <1>1. /\ jobs[c] \in Seq(Ids) /\ Len(jobs[c]) \in Nat /\ worked[c] \in Nat
        /\ jobcnt' = jobcnt /\ jobcnt \in Nat
    BY ExhaustStep DEF Typed, ChainTyped, HostTyped, locals
  <1>2. CASE c # d
    <2>1. jobs'[c] = jobs[c] /\ worked'[c] = worked[c] /\ oonId'[c] = oonId[c]
      BY <1>2 DEF Exhaust, Typed, ChainTyped
    <2>2. QED
      BY <1>1, <2>1 DEF Follow
  <1>3. CASE c = d
    <2>1. /\ jobs'[c] = Tail(jobs[c]) /\ worked'[c] = worked[c] + 1 /\ oonId'[c] = Head(jobs[c])
          /\ jobs[c] # <<>>
      BY <1>3 DEF Exhaust, Endless, Is, Typed, ChainTyped
    <2>2. /\ Len(jobs[c]) > 0 /\ Len(Tail(jobs[c])) = Len(jobs[c]) - 1 /\ Head(jobs[c]) = jobs[c][1]
          /\ \A k \in 1 .. Len(jobs[c]) - 1 : Tail(jobs[c])[k] = jobs[c][k + 1]
      BY <1>1, <2>1, TailType
    <2>3. worked'[c] + Len(jobs'[c]) = jobcnt'
      <3>1. worked[c] + Len(jobs[c]) = jobcnt
        BY DEF Follow
      <3>2. Len(jobs'[c]) = Len(jobs[c]) - 1
        BY <2>1, <2>2
      <3>3. QED
        BY <1>1, <2>1, <3>1, <3>2
    <2>4. ASSUME NEW k \in 1 .. Len(jobs'[c]) PROVE jobs'[c][k] = worked'[c] + k
      <3>1. k \in 1 .. Len(jobs[c]) - 1 /\ k + 1 \in 1 .. Len(jobs[c])
        BY <1>1, <2>1, <2>2
      <3>2. jobs'[c][k] = jobs[c][k + 1]
        BY <2>1, <2>2, <3>1
      <3>3. jobs[c][k + 1] = worked[c] + (k + 1)
        BY <3>1 DEF Follow
      <3>4. QED
        BY <1>1, <2>1, <3>3
    <2>5. oonId'[c] = worked'[c]
      <3>1. 1 \in 1 .. Len(jobs[c])
        BY <1>1, <2>2
      <3>2. jobs[c][1] = worked[c] + 1
        BY <3>1 DEF Follow
      <3>3. QED
        BY <2>1, <2>2, <3>2
    <2>6. QED
      BY <2>3, <2>4, <2>5 DEF Follow
  <1>4. QED
    BY <1>2, <1>3

\* A job that is sent gets the next id.
LEMMA FollowRunJob ==
  ASSUME Typed, RunJob, Is({"TestWorkLoop"}), ~dropped', "RUN_JOB" \notin lost',
         jobId = jobcnt + 1, NEW c \in Chips, Follow(c)
  PROVE  Follow(c)'
  <1>1. PICK ok \in BOOLEAN :
           /\ \A d \in Chips : jobs'[d] = (IF ok /\ Len(jobs[d]) < FifoDepth
                                             THEN Append(jobs[d], jobId) ELSE jobs[d])
           /\ dropped' = (dropped \/ (ok /\ \E d \in Chips : Len(jobs[d]) = FifoDepth))
           /\ ok \/ "RUN_JOB" \in lost'
    BY RunJobStep
  <1>2. /\ jobs[c] \in Seq(Ids) /\ Len(jobs[c]) \in Nat /\ worked[c] \in Nat
        /\ jobId \in Ids /\ jobcnt \in Nat
      /\ Len(jobs[c]) <= FifoDepth
    BY DEF Typed, ChainTyped, HostTyped
  <1>3. Len(jobs[c]) < FifoDepth
    <2>1. Len(jobs[c]) # FifoDepth
      BY <1>1
    <2>2. QED
      BY <1>2, <2>1, JobLoopsAssumption
  <1>4. jobs'[c] = Append(jobs[c], jobId)
    BY <1>1, <1>3
  <1>5. /\ Len(jobs'[c]) = Len(jobs[c]) + 1 /\ jobs'[c][Len(jobs[c]) + 1] = jobId
        /\ \A k \in 1 .. Len(jobs[c]) : jobs'[c][k] = jobs[c][k]
    BY <1>2, <1>4
  <1>6. UNCHANGED <<worked, oonId>> /\ jobcnt' = jobcnt + 1
    BY DEF RunJob
  <1>7. worked[c] + Len(jobs[c]) = jobcnt /\ oonId[c] = worked[c]
    BY DEF Follow
  <1>8. worked'[c] + Len(jobs'[c]) = jobcnt'
    BY <1>2, <1>5, <1>6, <1>7
  <1>9. ASSUME NEW k \in 1 .. Len(jobs'[c]) PROVE jobs'[c][k] = worked'[c] + k
    <2>1. CASE k \in 1 .. Len(jobs[c])
      BY <1>5, <1>6, <2>1 DEF Follow
    <2>2. CASE k = Len(jobs[c]) + 1
      <3>1. jobs'[c][k] = jobcnt + 1 /\ worked'[c] = worked[c]
        BY <1>5, <1>6, <2>2
      <3>2. worked[c] + k = jobcnt + 1
        <4>1. worked[c] + (Len(jobs[c]) + 1) = (worked[c] + Len(jobs[c])) + 1
          BY <1>2
        <4>2. QED
          BY <1>7, <2>2, <4>1
      <3>3. QED
        BY <3>1, <3>2
    <2>3. QED
      BY <1>2, <1>5, <2>1, <2>2
  <1>10. QED
    BY <1>6, <1>8, <1>9 DEF Follow

LEMMA NumberedStep == Typed /\ OneAtATime /\ Numbered /\ [Next]_vars => Numbered'
  <1> DEFINE Counted == /\ jobcnt <= test.works
                        /\ jobcnt < test.works => jobId = jobcnt + 1
                        /\ series = <<"RUN_JOB">> => jobcnt < test.works
             Report  == res.oon => res.id <= worked[res.chip]
  <1> SUFFICES ASSUME Typed, OneAtATime, Numbered, [Next]_vars, Is({"TestWorkLoop"}),
                      test.works \in 1 .. IdRange - 1, ~dropped', "RUN_JOB" \notin lost'
               PROVE  Counted' /\ (\A c \in Chips : Follow(c)') /\ Report'
    BY HistoryStep DEF Numbered, Follow, Is
  <1>1. /\ Counted /\ Report /\ test' = test /\ jobcnt \in Nat
        /\ jobId \in Ids /\ test.works \in Nat
        /\ (res.oon => res.chip \in Chips) /\ (pc = "SEND" <=> series # <<>>)
    BY HistoryStep DEF Numbered, Typed, HostTyped, ResTyped
  <1>2. \A c \in Chips : Follow(c)
    BY HistoryStep DEF Numbered, Follow
  <1>3. ASSUME UNCHANGED <<jobcnt, jobId>>,
               series' = <<"RUN_JOB">> => series = <<"RUN_JOB">> \/ jobcnt < test.works
        PROVE  Counted'
    BY <1>1, <1>3
  <1>4. ASSUME UNCHANGED <<jobs, worked, oonId, jobcnt>> PROVE \A c \in Chips : Follow(c)'
    BY <1>2, <1>4 DEF Follow
  <1>5. ASSUME res' = res PROVE Report'
    <2>1. SUFFICES ASSUME res.oon PROVE res.id <= worked'[res.chip]
      BY <1>5
    <2>2. res.chip \in Chips /\ res.id <= worked[res.chip] /\ res.id \in Ids
      BY <1>1, <2>1 DEF Typed, ResTyped
    <2>3. /\ worked[res.chip] \in Nat /\ worked'[res.chip] \in Nat
          /\ worked'[res.chip] >= worked[res.chip]
      BY <2>2, WorkedStep
    <2>4. QED
      BY <2>2, <2>3 DEF Ids
  <1>6. ASSUME NEW asked \in SUBSET Chips, ReadJobId(asked), worked' = worked PROVE Report'
    <2>1. \/ res' = res
          \/ res'.chip \in asked /\ res'.id = oonId[res'.chip]
      BY <1>6, ReadJobIdType DEF Typed
    <2>2. CASE res'.chip \in asked /\ res'.id = oonId[res'.chip]
      <3>1. res'.id = worked[res'.chip] /\ worked[res'.chip] \in Nat
        BY <1>2, <2>2 DEF Follow, Typed, ChainTyped
      <3>2. QED
        BY <1>6, <3>1
    <2>3. QED
      BY <1>5, <2>1, <2>2
  <1>7. ASSUME NEW d \in Chips, Exhaust(d)
        PROVE  Counted' /\ (\A c \in Chips : Follow(c)') /\ Report'
  
    <2>1. UNCHANGED <<jobcnt, jobId, series, res>>
      BY <1>7 DEF Exhaust, locals
    <2>2. \A c \in Chips : Follow(c)'
      BY <1>2, <1>7, FollowExhaust
    <2>3. QED
      BY <1>3, <1>5, <2>1, <2>2
  <1>8. CASE ReadGN
    <2> DEFINE asked == IF ScansGN THEN {chip} ELSE {c \in Chips : gn[c] # "none"}
    <2>1. asked \in SUBSET Chips /\ ReadJobId(asked)
      BY <1>8 DEF ReadGN, Typed, HostTyped
    <2>2. UNCHANGED <<jobs, worked, oonId, jobcnt, jobId, series>>
      BY <1>8 DEF ReadGN, chain, locals
    <2> HIDE DEF asked
    <2>3. QED
      BY <1>3, <1>4, <1>6, <2>1, <2>2
  <1>9. CASE ReadOON
    <2>1. /\ Asked \in SUBSET Chips /\ ReadJobId(Asked)
          /\ UNCHANGED <<jobs, worked, oonId, jobcnt, jobId>>
      BY <1>9, AskedType DEF ReadOON, Typed, HostTyped, chain
    <2>2. series' = <<>> \/ series' = series
      BY <1>9 DEF ReadOON, SimpleWork, Is
    <2>3. Counted'
      <3>1. CASE series' = <<>>
        <4>1. series' # <<"RUN_JOB">>
          BY <3>1
        <4>2. QED
          BY <1>3, <2>1, <4>1
      <3>2. CASE series' = series
        BY <1>3, <2>1, <3>2
      <3>3. QED
        BY <2>2, <3>1, <3>2
    <2>4. QED
      BY <1>4, <1>6, <2>1, <2>3
  <1>10. ASSUME NEW ok, AfterOON(ok) PROVE series' = <<"RUN_JOB">> => jobcnt < test.works
    BY <1>10 DEF AfterOON, MoreWorks, Is
  <1>11. CASE CheckFifo
    <2>1. UNCHANGED <<jobs, worked, oonId, jobcnt, jobId, res>>
      BY <1>11 DEF CheckFifo, chain
    <2>2. series' = <<"CLEAR_OON">> \/ \E ok : AfterOON(ok)
      BY <1>11, AnswerType DEF CheckFifo, Is
    <2>3. series' = <<"RUN_JOB">> => jobcnt < test.works
      <3>1. CASE series' = <<"CLEAR_OON">>
        BY <3>1
      <3>2. CASE \E ok : AfterOON(ok)
        BY <1>10, <3>2
      <3>3. QED
        BY <2>2, <3>1, <3>2
    <2>4. QED
      BY <1>3, <1>4, <1>5, <2>1, <2>3
  <1>12. CASE ClearOON
    <2>1. UNCHANGED <<jobs, worked, oonId, jobcnt, jobId, res>>
      BY <1>12 DEF ClearOON
    <2>2. AfterOON(TRUE)
      BY <1>12, ClearsLast DEF Is
    <2>3. QED
      BY <1>3, <1>4, <1>5, <1>10, <2>1, <2>2
  <1>13. CASE RunJob
    <2>1. series # <<>> /\ Head(series) = "RUN_JOB" /\ series' = Tail(series)
      BY <1>1, <1>13 DEF RunJob
    <2>2. series = <<"RUN_JOB">>
      <3>1. series # <<"CLEAR_OON">>
        BY <2>1
      <3>2. QED
        BY <2>1, <3>1 DEF OneAtATime, Is
    <2>3. series' = <<>> /\ jobcnt < test.works /\ jobId = jobcnt + 1
      BY <1>1, <2>1, <2>2
    <2>4. UNCHANGED <<res, worked>> /\ jobId' = NextId(jobId) /\ jobcnt' = jobcnt + 1
      BY <1>13 DEF RunJob
    <2>5. \A c \in Chips : Follow(c)'
      BY <1>2, <1>13, <2>3, FollowRunJob
    <2>6. Counted'
      <3>1. series' # <<"RUN_JOB">>
        BY <2>3
      <3>2. jobcnt' <= test.works
        BY <1>1, <2>3, <2>4
      <3>3. jobcnt' < test.works => jobId' = jobcnt' + 1
        <4>1. ~Endless
          BY DEF Endless, Is
        <4>2. jobcnt' < test.works => jobId + 1 < IdRange
          BY <1>1, <2>3, <2>4, JobLoopsAssumption
        <4>3. QED
          BY <1>1, <2>4, <4>1, <4>2, NextIdType
      <3>4. QED
        BY <1>1, <3>1, <3>2, <3>3
    <2>7. QED
      BY <1>5, <2>4, <2>5, <2>6
  <1>14. CASE CheckGN \/ HandleGN \/ CheckOON \/ (\E c \in Chips : FindNonce(c)) \/ UNCHANGED vars
    <2>1. UNCHANGED <<jobs, worked, oonId, jobcnt, jobId, res, series>>
      BY <1>14 DEF CheckGN, HandleGN, CheckOON, FindNonce, chain, locals, vars, Is
    <2>2. QED
      BY <1>3, <1>4, <1>5, <2>1
  <1>15. QED
    BY <1>7, <1>8, <1>9, <1>11, <1>12, <1>13, <1>14 DEF Next, Host

LEMMA AtEndInit == Init => AtEnd
  BY DEF Init, AtEnd

LEMMA AtEndStep ==
  Typed /\ OneAtATime /\ Ended /\ Asks /\ Numbered /\ AtEnd /\ [Next]_vars => AtEnd'
  <1> DEFINE Good == /\ Is({"TestWork", "TestWorkLoop"}) => worked[NumChips] >= test.works
                     /\ Is({"TestAsic"}) => hashdone_chip = Chips
  <1> SUFFICES ASSUME Typed, OneAtATime, Ended, Asks, Numbered, AtEnd, [Next]_vars,
                      pc' = "END", ~mismatch', ~dropped', "RUN_JOB" \notin lost'
               PROVE  Good'
    BY DEF AtEnd
  <1>1. /\ ~mismatch /\ ~dropped /\ "RUN_JOB" \notin lost /\ test' = test
        /\ NumChips \in Chips /\ worked[NumChips] \in Nat
    BY HistoryStep, JobLoopsAssumption DEF Chips, Typed, ChainTyped
  <1>2. CASE pc = "END" /\ UNCHANGED <<worked, hashdone_chip>>
    BY <1>1, <1>2 DEF AtEnd, Is
  <1>3. ASSUME pc # "END", ishashdone, hashdone_chip' = hashdone_chip PROVE Good'
    <2>1. ~Is({"TestWork", "TestWorkLoop"}) /\ (Is({"TestAsic"}) => hashdone_chip = Chips)
      BY <1>1, <1>3 DEF Asks
    <2>2. QED
      BY <1>1, <1>3, <2>1 DEF Is
  <1>4. ASSUME NEW ok, AfterOON(ok), pc # "END", UNCHANGED <<worked, hashdone_chip>>,
               Is({"TestWork", "TestWorkLoop"}) => Answers
        PROVE  Good'
    <2>1. CASE Is({"TestWork"})
      <3>1. res.oon /\ res.chip = NumChips /\ test.works = 1
        BY <1>4, <2>1, TestType DEF Asks, Is, OneWork, Typed, HostTyped
      <3>2. worked[NumChips] > 0
        BY <2>1, <3>1 DEF Ended, Endless, Is
      <3>3. QED
        BY <1>1, <1>4, <2>1, <3>1, <3>2 DEF Is
    <2>2. CASE Is({"TestWorkLoop"})
      <3>1. ~ishashdone
        BY <1>1, <1>4, <2>2 DEF Asks, Is
      <3>2. oon_job_id = test.works
        BY <1>4, <2>2, <3>1 DEF AfterOON, EndOfPass, Is
      <3>3. res.oon /\ res.chip = NumChips /\ test.works = res.id /\ res.id \in Ids
        BY <1>4, <2>2, <3>2 DEF Asks, Is, Typed, ResTyped
      <3>4. worked[NumChips] >= test.works
        <4>1. CASE test.works \in 1 .. IdRange - 1
          BY <1>1, <2>2, <3>3, <4>1 DEF Numbered
        <4>2. CASE test.works = 0
          BY <1>1, <4>2
        <4>3. test.works = 0 \/ test.works \in 1 .. IdRange - 1
          BY <3>3, JobLoopsAssumption DEF Ids
        <4>4. QED
          BY <4>1, <4>2, <4>3
      <3>5. QED
        BY <1>1, <1>4, <2>2, <3>4 DEF Is
    <2>3. CASE Is({"TestAsic"})
      <3>1. ishashdone' => hashdone_chip = Chips
        BY <1>4, <2>3 DEF AfterOON, Is
      <3>2. ishashdone' \/ ishashdone
        BY <1>4, <2>3 DEF AfterOON, NextChip, EndOfPass, Is
      <3>3. QED
        BY <1>1, <1>3, <1>4, <2>3, <3>1, <3>2 DEF Is
    <2>4. CASE ~Is({"TestWork", "TestWorkLoop", "TestAsic"})
      BY <1>1, <2>4 DEF Is
    <2>5. QED
      BY <2>1, <2>2, <2>3, <2>4 DEF Is
  <1>5. CASE (\E c \in Chips : Exhaust(c) \/ FindNonce(c))
    BY <1>5 DEF Exhaust, FindNonce
  <1>6. CASE UNCHANGED vars
    BY <1>2, <1>6 DEF vars, chain, locals
  <1>7. CASE CheckGN \/ ReadGN
    BY <1>7 DEF CheckGN, ReadGN, NextOfScan
  <1>8. CASE HandleGN
    <2>1. Is({"TestWorkLoop_RandomVector"})
      <3>1. pc' = "END" => mismatch' \/ Is({"TestWorkLoop_RandomVector"})
        BY <1>8 DEF HandleGN, NextOfScan
      <3>2. QED
        BY <3>1
    <2>2. QED
      BY <1>1, <2>1 DEF Is
  <1>9. CASE CheckOON \/ ReadOON \/ RunJob
    <2>1. pc # "END"
      BY <1>9 DEF CheckOON, ReadOON, RunJob
    <2>2. ishashdone /\ hashdone_chip' = hashdone_chip
      BY <1>9 DEF CheckOON, ReadOON, RunJob, NextChip, EndOfPass, locals
    <2>3. QED
      BY <1>3, <2>1, <2>2
  <1>10. CASE CheckFifo
    <2>1. pc = "FIFO" /\ UNCHANGED <<worked, hashdone_chip>> /\ \E ok : AfterOON(ok)
      BY <1>10 DEF CheckFifo, chain
    <2>2. Answers
      BY <2>1 DEF Answers
    <2>3. QED
      BY <1>4, <2>1, <2>2
  <1>11. CASE ClearOON
    <2>1. pc = "SEND" /\ UNCHANGED <<worked, hashdone_chip>> /\ AfterOON(TRUE)
      BY <1>11 DEF ClearOON
    <2>2. ASSUME Is({"TestWork", "TestWorkLoop"}) PROVE Answers
      BY <1>11, <2>2, ClearsLast DEF Answers, Is, OneWork
    <2>3. QED
      BY <1>4, <2>1, <2>2
  <1>12. QED
    BY <1>5, <1>6, <1>7, <1>8, <1>9, <1>10, <1>11 DEF Next, Host

-----------------------------------------------------------------------------
(* The theorems.                                                            *)

\* The invariant holds at all times.
THEOREM Inductive == Spec => []IInv
  <1>1. Init => IInv
    BY TypedInit, InOrderInit, OneAtATimeInit, AccountInit, JobsInit, VerdictInit, EndedInit,
       AsksInit, TogetherInit, NumberedInit, AtEndInit
       DEF IInv
  <1>2. IInv /\ [Next]_vars => IInv'
    BY TypedStep, InOrderStep, OneAtATimeStep, AccountStep, JobsStep, VerdictStep, EndedStep,
       AsksStep, TogetherStep, NumberedStep, AtEndStep, Zenon
       DEF IInv
  <1>3. QED
    BY <1>1, <1>2, PTL DEF Spec

\* Every variable keeps to its type, the FIFOs to their depth, and the host is in SEND
\* just as long as it has commands to send.
THEOREM TypeCorrect == Spec => []TypeOK
  <1>1. IInv => TypeOK
    BY DEF IInv, Typed, HostTyped, ResTyped, ChainTyped, HistoryTyped, TypeOK, Labels
  <1>2. QED
    BY <1>1, Inductive, PTL

\* TestWorkLoop never sends a job to a full FIFO, unless as many commands were lost as the
\* FIFO takes jobs.
THEOREM NoJobIsDropped == Spec => []NoJobDropped
  <1>1. IInv => NoJobDropped
    BY DEF IInv, Account, NoJobDropped
  <1>2. QED
    BY <1>1, Inductive, PTL

\* A test whose nonces match ends when every chip has done all of its jobs.
THEOREM EveryChipIsDone == Spec => []AllDone
  <1>1. IInv => AllDone
    <2> SUFFICES ASSUME IInv, pc = "END", ~mismatch, ~dropped, "RUN_JOB" \notin lost,
                        Is({"TestWork", "TestWorkLoop", "TestAsic"}), NEW c \in Chips
                 PROVE  worked[c] >= test.works
      BY DEF AllDone
    <2>1. /\ NumChips \in Chips /\ c <= NumChips
          /\ \A d \in Chips : worked[d] \in Nat /\ Len(jobs[d]) \in Nat
      BY JobLoopsAssumption DEF IInv, Typed, ChainTyped, Chips
    <2>2. test.works \in Nat /\ (Is({"TestAsic"}) => test.works = 1)
      BY TestType DEF IInv, Typed, HostTyped, Is, OneWork
    <2>3. CASE Is({"TestWork", "TestWorkLoop"})
      <3>1. worked[NumChips] >= test.works
        BY <2>3 DEF IInv, AtEnd
      <3>2. Len(jobs[c]) <= Len(jobs[NumChips])
        BY <2>1, <2>3 DEF IInv, InOrder
      <3>3. Len(jobs[c]) + worked[c] = Len(jobs[NumChips]) + worked[NumChips]
        BY <2>1, <2>3 DEF IInv, Together
      <3>4. /\ worked[c] \in Nat /\ worked[NumChips] \in Nat
            /\ Len(jobs[c]) \in Nat /\ Len(jobs[NumChips]) \in Nat
        BY <2>1
      <3>5. QED
        BY <2>2, <3>1, <3>2, <3>3, <3>4
    <2>4. CASE Is({"TestAsic"})
      <3>1. hashdone_chip = Chips
        BY <2>4 DEF IInv, AtEnd
      <3>2. worked[c] > 0
        BY <3>1 DEF IInv, Ended, Endless, Is
      <3>3. QED
        BY <2>1, <2>2, <2>4, <3>2
    <2>5. QED
      BY <2>3, <2>4 DEF Is
  <1>2. QED
    BY <1>1, Inductive, PTL

\* When RunJob says that it succeeded every chip has found the golden nonce of every job:
\* the nonces it has counted are different ones, and there are no more than that.
THEOREM SuccessIsEarned == Spec => []VerdictSound
  <1>1. IInv => VerdictSound
    <2> SUFFICES ASSUME IInv, Is({"RunJob"}), Succeeds
                 PROVE  ~mismatch /\ \A c \in Chips : nonces[c] = test.works
      BY DEF VerdictSound
    <2>1. /\ oon_cnt = test.works /\ gn_cnt = test.works * NumChips
          /\ test.works = FifoDepth /\ FifoDepth \in Nat \ {0}
      BY TestType, JobLoopsAssumption DEF Succeeds, IInv, Typed, HostTyped, Is
    <2>2. ~mismatch
      BY <2>1 DEF IInv, Verdict
    <2>3. AllRead = Chips \X (1 .. FifoDepth)
      <3>1. Cardinality(AllRead) = FifoDepth * NumChips
        BY <2>1, <2>2 DEF IInv, Verdict
      <3>2. QED
        BY <3>1, AllReadType, FS_Subset
    <2>4. ASSUME NEW c \in Chips PROVE nonces[c] = test.works
      <3>1. /\ nonces[c] \in Nat /\ worked[c] \in Nat
            /\ jobs[c] \in Seq(Ids) /\ Len(jobs[c]) \in Nat
            /\ series \in Seq({"CLEAR_OON", "RUN_JOB"})
        BY DEF IInv, Typed, HostTyped, ChainTyped
      <3>2. /\ worked[c] + Len(jobs[c]) + ToSend <= FifoDepth
            /\ nonces[c] <= worked[c] + (IF found[c] THEN 1 ELSE 0)
            /\ found[c] => Len(jobs[c]) > 0
            /\ ToSend \in Nat
        BY DEF IInv, Jobs, ToSend
      <3>3. nonces[c] <= FifoDepth
        BY <2>1, <3>1, <3>2
      <3>4. <<c, FifoDepth>> \in AllRead
        BY <2>1, <2>3
      <3>5. FifoDepth <= Read(c)
        BY <3>4 DEF AllRead
      <3>6. Read(c) <= nonces[c]
        BY <3>1 DEF Read
      <3>7. Read(c) \in Int
        BY <3>1 DEF Read
      <3>8. QED
        BY <2>1, <3>1, <3>3, <3>5, <3>6, <3>7
    <2>5. QED
      BY <2>2, <2>4
  <1>2. QED
    BY <1>1, Inductive, PTL
=============================================================================
