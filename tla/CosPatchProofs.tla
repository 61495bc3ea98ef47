---------------------------- MODULE CosPatchProofs ----------------------------
(***************************************************************************)
(* Proofs about CosPatch, for any scripts, limits and number of deaths and *)
(* power failures: a patch download implements ChipUpdate, the thread never      *)
(* outlives what it works on, the limits on downloads are kept, and a      *)
(* recovery that reports success has left a complete COS.                  *)
(*                                                                         *)
(* What a script does to the chip is left open, but for the last theorem:  *)
(* the proof rests on the version alone, which is read before and after,   *)
(* and on who may write *pResStatus when.                                  *)
(***************************************************************************)
EXTENDS CosPatch, DataLemmas

\* The COS is complete and that of the patch.
Good == cos.whole /\ (file = NoFile \/ cos.patch = wanted)

WorldOK ==
  /\ {"whole", "patch"} \subseteq DOMAIN cos
  /\ file \in PatchFiles /\ wanted = GetCosVerFromVtp(file, Chip, HeadLines)
  /\ file = NoFile => cos.whole

\* The caller: during a call there is a thread, and one is left behind only by a
\* wait that returned by itself; the result is the first thing written to
\* *pResStatus, and what it was before is a failure.
CallerOK ==
  /\ up \in {"idle", "created", "waiting", "woken", "joining"}
  /\ pc = "none" => up = "idle"
  /\ up # "idle" => memory /\ resStatus # "none"
  /\ up \in {"created", "waiting", "joining"} => ~spurious
  /\ up = "woken" => pc = "ended" \/ spurious
  /\ up = "idle" /\ pc # "none" => spurious /\ pc # "ended" /\ result # "none"
  /\ pc \notin {"none", "signal", "ended"} => resStatus = "FAILED" /\ result \in {"none", "FAILED"}
  /\ pc # "none" /\ "SUCCESS" \in {resStatus, result} => Good

Steps == {"limit", "write", "start", "exec", "reopen", "check", "recovered"}

\* The thread: what it knows of the versions, and that it says SUCCESS only of
\* a chip that is as it should be.
ThreadOK ==
  /\ pc = "compare" /\ chipVer # InvalidVer => chipVer \in Reported
  /\ pc \in Steps => file # NoFile /\ vtpVer = wanted /\ wanted # InvalidVer
  /\ pc = "close" /\ status = "SUCCESS" => Good
  /\ status # "none"

PatchInv == WorldOK /\ CallerOK /\ ThreadOK

-----------------------------------------------------------------------------
LEMMA PatchInit == Init => PatchInv
BY DEF Init, PatchInv, WorldOK, CallerOK, ThreadOK, Steps

\* A complete COS shows its patch, an incomplete one none of the patches.
LEMMA ReportedIsGood ==
  ASSUME WorldOK, NEW v \in Reported, v # InvalidVer, file = NoFile \/ v = wanted
  PROVE  Good
<1>1. CASE cos.whole
  BY <1>1 DEF Reported, Good
<1>2. CASE ~cos.whole
  BY <1>2, PatchAssumption DEF Reported, WorldOK
<1> QED
  BY <1>1, <1>2

LEMMA ReadsWhatIsReported ==
  ASSUME NEW vr \in VersionsRead
  PROVE  vr[1] = InvalidVer \/ vr[1] \in Reported
BY DEF VersionsRead

\* What a step of the caller, the clock or the power supply leaves of the
\* chip and of the file.
LEMMA WorldKept ==
  ASSUME WorldOK, UNCHANGED <<cos, installed>>
  PROVE  WorldOK' /\ (Good' <=> Good) /\ Reported' = Reported
BY DEF WorldOK, Good, Reported, installed

LEMMA CallerKeeps ==
  PatchInv /\ (StartThread \/ Caller \/ SpuriousWake \/ Tick \/ Writeback) => PatchInv'
<1> SUFFICES ASSUME PatchInv, StartThread \/ Caller \/ SpuriousWake \/ Tick \/ Writeback
             PROVE PatchInv'
  OBVIOUS
<1>1. UNCHANGED <<cos, installed>>
  BY DEF StartThread, Caller, SpuriousWake, TimedWait, TimedOut, Joined, Woken, Finish, Tick,
         Writeback
<1>2. WorldOK' /\ (Good' <=> Good) /\ Reported' = Reported
  BY <1>1, WorldKept DEF PatchInv
<1> USE <1>1, <1>2 DEF PatchInv, CallerOK, ThreadOK, Steps, installed, ghosts
<1>3. CASE StartThread
  BY <1>3 DEF StartThread
<1>4. CASE TimedWait
  BY <1>4 DEF TimedWait, thread
<1>5. CASE TimedOut
  BY <1>5 DEF TimedOut, thread
<1>6. CASE Joined
  BY <1>6 DEF Joined, Finish
<1>7. CASE Woken
  BY <1>7 DEF Woken, Finish
<1>8. CASE SpuriousWake
  BY <1>8 DEF SpuriousWake, thread
<1>9. CASE Tick \/ Writeback
  BY <1>9 DEF Tick, Writeback, caller, thread
<1> QED
  BY <1>3, <1>4, <1>5, <1>6, <1>7, <1>8, <1>9 DEF Caller

\* With the process the call is gone, and the chip keeps what it has.
LEMMA DeathLeaves ==
  ASSUME WorldOK, ProcessDies \/ PowerFails
  PROVE  /\ cos'.whole = cos.whole /\ cos'.patch = cos.patch /\ DOMAIN cos' = DOMAIN cos
         /\ \E d \in {stored, dataFile, NoData} : Dies(d) /\ stored' \in {stored, d}
BY DEF ProcessDies, PowerFails, WorldOK

LEMMA DeathKeeps == PatchInv /\ (ProcessDies \/ PowerFails) => PatchInv'
<1> SUFFICES ASSUME PatchInv, ProcessDies \/ PowerFails PROVE PatchInv'
  OBVIOUS
<1>1. cos'.whole = cos.whole /\ cos'.patch = cos.patch /\ DOMAIN cos' = DOMAIN cos
  BY DeathLeaves DEF PatchInv
<1>2. PICK d : Dies(d)
  BY DeathLeaves DEF PatchInv
<1>3. WorldOK'
  BY <1>1, <1>2 DEF Dies, PatchInv, WorldOK, installed
<1> QED
  BY <1>2, <1>3 DEF Dies, PatchInv, CallerOK, ThreadOK, Steps

-----------------------------------------------------------------------------
\* The thread leaves the caller alone until it has a result.
LEMMA ThreadKeepsCaller ==
  ASSUME PatchInv, UNCHANGED <<caller, spurious>>, Good' <=> Good, pc \notin {"none", "signal", "ended"},
         pc' \notin {"none", "signal", "ended"}
  PROVE  CallerOK'
BY DEF PatchInv, CallerOK, caller

LEMMA ThreadBegins ==
  PatchInv /\ (SetThreadRunning \/ OpenBasicChannel \/ GetSeCosVerFromChip \/ CompareVersions) => PatchInv'
<1> SUFFICES ASSUME PatchInv,
                    SetThreadRunning \/ OpenBasicChannel \/ GetSeCosVerFromChip \/ CompareVersions
             PROVE PatchInv'
  OBVIOUS
<1>1. UNCHANGED <<cos, installed, caller, spurious>>
  BY DEF SetThreadRunning, OpenBasicChannel, GetSeCosVerFromChip, CompareVersions, ghosts
<1>2. WorldOK' /\ (Good' <=> Good) /\ Reported' = Reported
  BY <1>1, WorldKept DEF PatchInv
<1>3. CallerOK'
  BY <1>1, <1>2, ThreadKeepsCaller
     DEF SetThreadRunning, OpenBasicChannel, GetSeCosVerFromChip, CompareVersions, Goto
<1>4. ThreadOK'
  <2>1. CASE SetThreadRunning \/ OpenBasicChannel
    BY <2>1 DEF SetThreadRunning, OpenBasicChannel, Goto, PatchInv, ThreadOK, Steps
  <2>2. CASE GetSeCosVerFromChip
    <3>1. PICK vr \in VersionsRead : chipVer' = vr[1]
      BY <2>2 DEF GetSeCosVerFromChip
    <3>2. pc' = "compare" /\ status' # "none"
      BY <2>2 DEF GetSeCosVerFromChip, Goto, PatchInv, ThreadOK
    <3> QED
      BY <1>2, <3>1, <3>2, ReadsWhatIsReported DEF ThreadOK, Steps
  <2>3. CASE CompareVersions
    <3>0. status' # "none"
      BY <2>3 DEF CompareVersions, PatchInv, ThreadOK
    <3>1. vtpVer' = IF file = NoFile THEN InvalidVer ELSE wanted
      BY <2>3 DEF CompareVersions, PatchInv, WorldOK
    <3>2. CASE pc' = "limit"
      <4>1. vtpVer' # InvalidVer
        BY <2>3, <3>1, <3>2 DEF CompareVersions, Differs, PatchInv, WorldOK
      <4> QED
        BY <1>1, <3>0, <3>1, <3>2, <4>1 DEF ThreadOK, Steps, installed
    <3>3. CASE pc' = "close" /\ status' = "SUCCESS"
      <4>1. chipVer # InvalidVer /\ (file = NoFile \/ chipVer = wanted) /\ pc = "compare"
        BY <2>3, <3>3 DEF CompareVersions, PatchInv, WorldOK
      <4>2. Good
        BY <4>1, ReportedIsGood DEF PatchInv, ThreadOK
      <4> QED
        BY <1>2, <3>0, <3>3, <4>2 DEF ThreadOK, Steps
    <3>4. CASE pc' = "close" /\ status' # "SUCCESS"
      BY <3>0, <3>4 DEF ThreadOK, Steps
    <3> QED
      BY <2>3, <3>2, <3>3, <3>4 DEF CompareVersions
  <2> QED
    BY <2>1, <2>2, <2>3
<1> QED
  BY <1>2, <1>3, <1>4 DEF PatchInv

\* Between the comparison and the result, versions are not touched.
LEMMA ThreadWorks ==
  ASSUME PatchInv, UNCHANGED <<caller, vtpVer, installed, spurious>>, WorldOK', pc \in Steps,
         pc' \in Steps \cup {"close"}, status' # "none",
         pc' = "close" /\ status' = "SUCCESS" => Good'
  PROVE  PatchInv'
<1>1. resStatus = "FAILED" /\ result \in {"none", "FAILED"}
  BY DEF PatchInv, CallerOK, Steps
<1>2. CallerOK'
  BY <1>1 DEF PatchInv, CallerOK, caller, Steps
<1>3. ThreadOK'
  BY DEF PatchInv, ThreadOK, Steps, installed
<1> QED
  BY <1>2, <1>3 DEF PatchInv

\* Scripts run only where a patch is installed, and may leave the chip in any
\* state.
LEMMA ScriptKeepsWorld ==
  ASSUME PatchInv, pc \in Steps, UNCHANGED installed, DOMAIN cos' = DOMAIN cos
  PROVE  WorldOK'
BY DEF PatchInv, WorldOK, ThreadOK, installed

\* A refused NCI command is a failure.
LEMMA RefusedFails == \A after \in RefusedNci : after.status \in {"FAILED", "INVALID_PARAMETER"}
<1>1. CASE g_threadRunning
  BY <1>1 DEF RefusedNci
<1>2. CASE ~g_threadRunning
  BY <1>2 DEF RefusedNci
<1> QED
  BY <1>1, <1>2

LEMMA ThreadRunsScript ==
  PatchInv /\ (CheckLimit \/ WriteDataFile \/ VtpDownload \/ ScriptEnds
               \/ ExecApdu \/ ExecOther \/ Reopen) => PatchInv'
<1> SUFFICES ASSUME PatchInv,
                    CheckLimit \/ WriteDataFile \/ VtpDownload \/ ScriptEnds
                    \/ ExecApdu \/ ExecOther \/ Reopen
             PROVE PatchInv'
  OBVIOUS
<1>0. status # "none"
  BY DEF PatchInv, ThreadOK
<1> USE <1>0, ThreadWorks, ScriptKeepsWorld DEF Steps, ghosts
<1>1. CASE CheckLimit
  BY <1>1 DEF CheckLimit, AfterScript
<1>2. CASE WriteDataFile
  BY <1>2 DEF WriteDataFile, Goto
<1>3. CASE VtpDownload
  BY <1>3 DEF VtpDownload, AfterScript
<1>4. CASE ScriptEnds
  BY <1>4 DEF ScriptEnds, AfterScript
<1>5. CASE ExecApdu
  <2>1. PICK r \in {Sw9000, "6504", "6A80", "none"} : Apdu(r)
    BY <1>5 DEF ExecApdu
  <2>2. pc = "exec" /\ pc' = pc /\ UNCHANGED <<caller, vtpVer, installed, spurious>>
    BY <2>1 DEF Apdu, Running, Tried
  <2>3. DOMAIN cos' = DOMAIN cos
    BY <2>1 DEF Apdu, Executed
  <2>4. status' # "none"
    BY <2>1 DEF Apdu, Running, Tried, AfterApdu
  <2> QED
    BY <2>2, <2>3, <2>4
<1>6. CASE ExecOther
  <2>1. /\ pc = "exec" /\ pc' = pc /\ UNCHANGED <<caller, vtpVer, installed, spurious>>
        /\ DOMAIN cos' = DOMAIN cos
    BY <1>6 DEF ExecOther, Running, Tried
  <2>2. status' # "none"
    BY <1>6, RefusedFails DEF ExecOther, Tried, AfterAssert, AfterNothing
  <2> QED
    BY <2>1, <2>2
<1>7. CASE Reopen
  BY <1>7 DEF Reopen, Goto
<1> QED
  BY <1>1, <1>2, <1>3, <1>4, <1>5, <1>6, <1>7

\* Success is what the second look at the version says, and after a recovery
\* it has another name.
LEMMA ThreadLooksAgain == PatchInv /\ (ChkRes \/ Recovered) => PatchInv'
<1> SUFFICES ASSUME PatchInv, ChkRes \/ Recovered PROVE PatchInv'
  OBVIOUS
<1>0. status # "none"
  BY DEF PatchInv, ThreadOK
<1> USE <1>0 DEF Steps
<1>1. CASE ChkRes
  <2>1. pc = "check" /\ UNCHANGED <<caller, status, vtpVer, installed, cos, spurious>>
    BY <1>1 DEF ChkRes, ghosts
  <2>2. WorldOK' /\ (Good' <=> Good)
    BY <2>1, WorldKept DEF PatchInv
  <2>3. CASE pc' = "limit"
    BY <2>1, <2>2, <2>3, ThreadWorks
  <2>4. CASE pc' = "close" /\ status = "SUCCESS"
    <3>1. PICK vr \in VersionsRead : IsPatched(vr[1]) \/ pc' = "limit"
      BY <1>1, <2>4 DEF ChkRes
    <3>2. vr[1] = wanted /\ wanted # InvalidVer
      BY <2>1, <2>4, <3>1 DEF IsPatched, PatchInv, ThreadOK
    <3>3. Good
      BY <3>2, ReadsWhatIsReported, ReportedIsGood DEF PatchInv
    <3> QED
      BY <2>1, <2>2, <2>4, <3>3, ThreadWorks
  <2>5. CASE pc' = "close" /\ status # "SUCCESS"
    BY <2>1, <2>2, <2>5, ThreadWorks
  <2> QED
    BY <1>1, <2>3, <2>4, <2>5 DEF ChkRes
<1>2. CASE Recovered
  <2>1. WorldOK'
    BY <1>2, WorldKept DEF Recovered, PatchInv
  <2> QED
    BY <1>2, <2>1, ThreadWorks DEF Recovered, Goto, ghosts
<1> QED
  BY <1>1, <1>2

LEMMA ThreadEnds == PatchInv /\ (EndThread \/ CondSignal) => PatchInv'
<1> SUFFICES ASSUME PatchInv, EndThread \/ CondSignal PROVE PatchInv'
  OBVIOUS
<1>1. UNCHANGED <<cos, installed>>
  BY DEF EndThread, CondSignal
<1>2. WorldOK' /\ (Good' <=> Good)
  BY <1>1, WorldKept DEF PatchInv
<1> USE <1>1, <1>2 DEF PatchInv, CallerOK, ThreadOK, Steps, Goto, ghosts
<1>3. CASE EndThread
  BY <1>3 DEF EndThread
<1>4. CASE CondSignal
  BY <1>4 DEF CondSignal
<1> QED
  BY <1>3, <1>4

LEMMA PatchStep == PatchInv /\ [Next]_vars => PatchInv'
<1> SUFFICES ASSUME PatchInv, [Next]_vars PROVE PatchInv'
  OBVIOUS
<1>1. CASE UNCHANGED vars
  <2>1. UNCHANGED <<cos, installed>>
    BY <1>1 DEF vars
  <2> QED
    BY <1>1, <2>1, WorldKept
       DEF vars, caller, thread, installed, ghosts, PatchInv, CallerOK, ThreadOK, Steps
<1>2. CASE Thread
  BY <1>2, ThreadBegins, ThreadRunsScript, ThreadLooksAgain, ThreadEnds DEF Thread
<1> QED
  BY <1>1, <1>2, CallerKeeps, DeathKeeps DEF Next

LEMMA PatchAlways == Spec => []PatchInv
BY PatchInit, PatchStep, PTL DEF Spec

-----------------------------------------------------------------------------
\* The thread's operands and its condition are there as long as it works, in
\* every order of signal, timeout and join, if the wait did not return by itself:
\* that is the one way in which they can be lost.
THEOREM OperandsAlwaysOutlive == Spec => []OperandsOutliveThread
<1>1. PatchInv => OperandsOutliveThread
  BY DEF PatchInv, CallerOK, OperandsOutliveThread
<1> QED
  BY <1>1, PatchAlways, PTL

-----------------------------------------------------------------------------
\* What each step is for ChipUpdate.
LEMMA UpdateBegins == PatchInv /\ StartThread => Update!Begin
BY DEF StartThread, installed, Over, Claim, Update!Begin

LEMMA UpdateWorks ==
  ASSUME pc # "none", pc' # "none"
  PROVE  Update!Work
<1>1. ~Over /\ ~Over'
  BY DEF Over
<1>2. Claim = "none" /\ Claim' = "none"
  BY DEF Claim, Over
<1> QED
  BY <1>1, <1>2 DEF Update!Work

\* What a call has returned is a result, and if a good one the chip is good.
LEMMA UpdateEnds ==
  ASSUME pc # "none", pc' = "none", up' = "idle", UNCHANGED <<cos, installed>>,
         result' # "none", result' = "SUCCESS" => Good
  PROVE  Update!End
<1>1. UNCHANGED Good
  BY DEF Good, installed
<1> QED
  BY <1>1 DEF Update!End, Good, Over, Claim

LEMMA CallEnds == PatchInv /\ (Joined \/ Woken) => Update!End \/ Update!Work
<1> SUFFICES ASSUME PatchInv, Joined \/ Woken PROVE Update!End \/ Update!Work
  OBVIOUS
<1>1. /\ up # "idle" /\ pc # "none" /\ up' = "idle" /\ result' = resStatus
      /\ UNCHANGED <<cos, installed>> /\ pc' \in {"none", pc}
  BY DEF Joined, Woken, Finish, PatchInv, CallerOK
<1>2. resStatus # "none" /\ (resStatus = "SUCCESS" => Good)
  BY <1>1 DEF PatchInv, CallerOK
<1> QED
  BY <1>1, <1>2, UpdateEnds, UpdateWorks

LEMMA UpdateDies == PatchInv /\ (ProcessDies \/ PowerFails) => Update!Die
<1> SUFFICES ASSUME PatchInv, ProcessDies \/ PowerFails PROVE Update!Die
  OBVIOUS
<1>1. cos'.whole = cos.whole /\ cos'.patch = cos.patch
  BY DeathLeaves DEF PatchInv
<1>2. PICK d : Dies(d)
  BY DeathLeaves DEF PatchInv
<1> QED
  BY <1>1, <1>2 DEF Dies, installed, Over, Claim, Update!Die

\* A thread that was left behind ends the update with its own end.
LEMMA ThreadIsWork ==
  PatchInv /\ (Thread \/ TimedWait \/ TimedOut \/ SpuriousWake) => Update!Work \/ Update!End
<1> SUFFICES ASSUME PatchInv, Thread \/ TimedWait \/ TimedOut \/ SpuriousWake
             PROVE  Update!Work \/ Update!End
  OBVIOUS
<1>1. pc # "none"
  BY DEF PatchInv, CallerOK, TimedWait, TimedOut, SpuriousWake, Thread, SetThreadRunning,
         OpenBasicChannel, GetSeCosVerFromChip, CompareVersions, CheckLimit, WriteDataFile,
         VtpDownload, ExecApdu, Apdu, ExecOther, Running, ScriptEnds, Reopen, ChkRes, Recovered,
         EndThread, CondSignal, Goto
<1>2. CASE CondSignal /\ up = "idle"
  BY <1>1, <1>2, UpdateEnds DEF CondSignal, PatchInv, CallerOK
<1>3. CASE ~(CondSignal /\ up = "idle")
  <2>1. CASE ExecApdu
    <3>1. PICK r \in {Sw9000, "6504", "6A80", "none"} : Apdu(r)
      BY <2>1 DEF ExecApdu
    <3>2. UNCHANGED pc
      BY <3>1 DEF Apdu, Tried
    <3> QED
      BY <1>1, <3>2, UpdateWorks
  <2>2. CASE ~ExecApdu
    <3>1. pc' # "none"
      BY <1>1, <1>3, <2>2
         DEF TimedWait, TimedOut, SpuriousWake, Thread, SetThreadRunning, OpenBasicChannel,
             GetSeCosVerFromChip, CompareVersions, CheckLimit, WriteDataFile, VtpDownload,
             ExecOther, Tried, ScriptEnds, Reopen, ChkRes, Recovered, EndThread, CondSignal,
             AfterScript, Goto, thread
    <3> QED
      BY <1>1, <3>1, UpdateWorks
  <2> QED
    BY <2>1, <2>2
<1> QED
  BY <1>2, <1>3

\* A patch download is an update of the chip as ChipUpdate promises it: whatever
\* the scripts say, whatever is lost, whenever the wait returns and whenever the
\* process dies or the power fails, a call that returns SUCCESS has left a complete COS of the installed version.
THEOREM PatchIsUpdate == Spec => PatchUpdate
<1>1. Init => Update!Init
  BY DEF Init, Over, Claim, Update!Init
<1>2. PatchInv /\ [Next]_vars => [Update!Next]_Update!vars
  <2> SUFFICES ASSUME PatchInv, [Next]_vars PROVE [Update!Next]_Update!vars
    OBVIOUS
  <2>1. CASE UNCHANGED vars \/ Tick \/ Writeback
    BY <2>1 DEF vars, Tick, Writeback, caller, thread, installed, Over, Claim, Update!vars
  <2> QED
    BY <2>1, UpdateBegins, ThreadIsWork, CallEnds, UpdateDies DEF Next, Caller, Update!Next
<1> QED
  BY <1>1, <1>2, PatchAlways, PTL DEF Spec, PatchUpdate, Update!Spec
-----------------------------------------------------------------------------
(***************************************************************************)
(* The limits.  The runs of a period are those since its start, and it     *)
(* counts them before they are made; the run that opened it is one of them.*)
(* A period that has ended has no run after its end.  So what a stretch    *)
(* has of the runs before the start of a period depends on the period      *)
(* before, of which it can miss the start.                                 *)
(***************************************************************************)
\* The runs from time a to time b, and those since s.
Span(r, a, b) == [u \in Times |-> IF a <= u /\ u <= b THEN r[u] ELSE 0]
Ran(r, a, b) == Sum(Span(r, a, b), Times)
Since(r, s) == Ran(r, s, MaxTime)

\* At time n: a period of length len that started at s with c runs counted, of
\* which p are still to be made, and up to before runs in a stretch of that
\* length that ends where it starts.
Period(r, n, s, c, len, lim, before, p) ==
  /\ s <= n /\ c <= lim
  /\ c = 0 => s = 0
  /\ Since(r, s) + p <= c
  /\ c > 0 => Since(r, s + 1) + (IF n > s THEN p ELSE 0) <= c - 1
  /\ \A u \in Times : u > s + len => r[u] = 0
  /\ p = 1 => n <= s + len
  /\ \A t \in Times : t + len >= s => Ran(r, t, s - 1) <= before

\* A short period that began with a long one may have cut off another.
BeforeShort(d) == IF d.startShort = d.startLong THEN 2 * ShortCount - 1 ELSE ShortCount - 1

Account(r, n, d, p) ==
  /\ Period(r, n, d.startLong, d.long, LongTime, LongCount, LongCount - 1, p)
  /\ Period(r, n, d.startShort, d.short, ShortTime, ShortCount, BeforeShort(d), p)

Data == [startLong : Nat, startShort : Nat, short : Nat, long : Nat]

\* The run that is counted and not made yet.
Pending == IF pc \in {"write", "start"} THEN 1 ELSE 0

\* What the counters the next run will be added to say of the runs; and the file,
\* in the cache or in the storage, for the case that they are lost.
Accounted ==
  /\ pc \in {"write", "start"} => dataRead
  /\ Account(runs, now, Recorded, Pending)
  /\ Account(NoRuns, now, dataFile, 0) /\ Account(NoRuns, now, stored, 0)

Windows(r) ==
  \A t \in Times : /\ Ran(r, t, t + ShortTime) <= 3 * ShortCount - 1
                   /\ Ran(r, t, t + LongTime) <= 2 * LongCount - 1

LimitTypeOK ==
  /\ runs \in [Times -> Nat] /\ now \in Times
  /\ dlData \in Data /\ dataFile \in Data /\ stored \in Data

LimitInv ==
  LimitTypeOK /\ (ErasureProtection => Windows(runs) /\ Accounted)

-----------------------------------------------------------------------------
LEMMA TimesOK == IsFiniteSet(Times) /\ \A u \in Times : u \in Nat /\ u > LongTime /\ u <= MaxTime
BY FS_Interval, CosPatchAssumption DEF Times

LEMMA SpanOK ==
  ASSUME NEW r \in [Times -> Nat], NEW a \in Int, NEW b \in Int
  PROVE  \A u \in Times : /\ u \in Nat /\ Span(r, a, b)[u] \in Nat
                          /\ Span(r, a, b)[u] = IF a <= u /\ u <= b THEN r[u] ELSE 0
BY TimesOK DEF Span

LEMMA RanNat ==
  ASSUME NEW r \in [Times -> Nat], NEW a \in Int, NEW b \in Int
  PROVE  Ran(r, a, b) \in Nat
<1> DEFINE f == Span(r, a, b)
<1>1. \A u \in Times : f[u] \in Nat
  BY SpanOK
<1> HIDE DEF f
<1>2. \A u \in Times : f[u] \in Nat /\ f[u] <= f[u] + f[u]
  BY <1>1
<1>3. Sum(f, Times) \in Nat
  BY <1>2, TimesOK, SumBound
<1> QED
  BY <1>3 DEF Ran, f

\* Where nothing ran.
LEMMA RanNone ==
  ASSUME NEW r \in [Times -> Nat], NEW a \in Int, NEW b \in Int,
         \A u \in Times : a <= u /\ u <= b => r[u] = 0
  PROVE  Ran(r, a, b) = 0
<1>1. \A u \in Times : Span(r, a, b)[u] = 0
  BY SpanOK
<1> QED
  BY <1>1, TimesOK, SumOfZeros DEF Ran

\* A stretch is covered by two others.
LEMMA RanCovered ==
  ASSUME NEW r \in [Times -> Nat],
         NEW a \in Int, NEW b \in Int, NEW a1 \in Int, NEW b1 \in Int, NEW a2 \in Int, NEW b2 \in Int,
         \A u \in Times : a <= u /\ u <= b => (a1 <= u /\ u <= b1) \/ (a2 <= u /\ u <= b2)
  PROVE  Ran(r, a, b) <= Ran(r, a1, b1) + Ran(r, a2, b2)
<1> DEFINE f == Span(r, a, b)
           f1 == Span(r, a1, b1)
           f2 == Span(r, a2, b2)
<1>1. ASSUME NEW u \in Times
      PROVE  f[u] \in Nat /\ f1[u] \in Nat /\ f2[u] \in Nat /\ f[u] <= f1[u] + f2[u]
  <2>1. r[u] \in Nat
    OBVIOUS
  <2>2. /\ f[u] = IF a <= u /\ u <= b THEN r[u] ELSE 0
        /\ f1[u] = IF a1 <= u /\ u <= b1 THEN r[u] ELSE 0
        /\ f2[u] = IF a2 <= u /\ u <= b2 THEN r[u] ELSE 0
    BY DEF Span
  <2> HIDE DEF f, f1, f2
  <2> QED
    BY <2>1, <2>2
<1> HIDE DEF f, f1, f2
<1>2. Sum(f, Times) <= Sum(f1, Times) + Sum(f2, Times)
  BY <1>1, TimesOK, SumBound
<1> QED
  BY <1>2 DEF Ran, f, f1, f2

LEMMA RanSplit ==
  ASSUME NEW r \in [Times -> Nat], NEW a \in Int, NEW b \in Int, NEW s \in Int
  PROVE  Ran(r, a, b) <= Ran(r, a, s - 1) + Since(r, s)
<1>1. MaxTime \in Int /\ s - 1 \in Int
  BY CosPatchAssumption
<1>2. \A u \in Times : a <= u /\ u <= b => (a <= u /\ u <= s - 1) \/ (s <= u /\ u <= MaxTime)
  BY TimesOK
<1> QED
  BY <1>1, <1>2, RanCovered DEF Since

LEMMA RanLate ==
  ASSUME NEW r \in [Times -> Nat], NEW a \in Int, NEW b \in Int, NEW s \in Int, s <= a
  PROVE  Ran(r, a, b) <= Since(r, s)
<1>1. MaxTime \in Int
  BY CosPatchAssumption
<1>2. \A u \in Times : a <= u /\ u <= b => (s <= u /\ u <= MaxTime) \/ (1 <= u /\ u <= 0)
  BY TimesOK
<1>3. Ran(r, a, b) <= Since(r, s) + Ran(r, 1, 0)
  BY <1>1, <1>2, RanCovered DEF Since
<1>4. Ran(r, 1, 0) = 0
  BY RanNone, TimesOK
<1>5. Since(r, s) \in Nat
  BY <1>1, RanNat DEF Since
<1> QED
  BY <1>3, <1>4, <1>5

\* A stretch in which two histories are the same.
LEMMA RanSame ==
  ASSUME NEW r \in [Times -> Nat], NEW q \in [Times -> Nat], NEW a \in Int, NEW b \in Int,
         \A u \in Times : a <= u /\ u <= b => q[u] = r[u]
  PROVE  Ran(q, a, b) = Ran(r, a, b)
<1>1. Span(q, a, b) = Span(r, a, b)
  BY DEF Span
<1> QED
  BY <1>1 DEF Ran

\* One run more.
LEMMA RanRun ==
  ASSUME NEW r \in [Times -> Nat], NEW a \in Int, NEW b \in Int, NEW n \in Times, NEW q,
         q = [r EXCEPT ![n] = @ + 1]
  PROVE  Ran(q, a, b) <= Ran(r, a, b) + 1
<1> DEFINE z == [u \in Times |-> 0]
           e == [z EXCEPT ![n] = 1]
           f == Span(q, a, b)
           f1 == Span(r, a, b)
<1>1. Sum(e, Times) = 1
  <2>1. z \in [Times -> Int] /\ 1 \in Int /\ z[n] = 0
    OBVIOUS
  <2>2. \A u \in Times : z[u] = 0
    OBVIOUS
  <2> HIDE DEF z
  <2>3. Sum(z, Times) = 0
    BY <2>2, TimesOK, SumOfZeros
  <2>4. Sum(e, Times) = Sum(z, Times) + 1 - z[n]
    BY <2>1, TimesOK, SumChange
  <2> QED
    BY <2>1, <2>3, <2>4
<1>2. ASSUME NEW u \in Times
      PROVE  f[u] \in Nat /\ f1[u] \in Nat /\ e[u] \in Nat /\ f[u] <= f1[u] + e[u]
  <2>1. r[u] \in Nat /\ q[u] = IF u = n THEN r[u] + 1 ELSE r[u]
    OBVIOUS
  <2>2. e[u] = IF u = n THEN 1 ELSE 0
    OBVIOUS
  <2>3. /\ f[u] = IF a <= u /\ u <= b THEN q[u] ELSE 0
        /\ f1[u] = IF a <= u /\ u <= b THEN r[u] ELSE 0
    BY DEF Span
  <2> HIDE DEF f, f1, e
  <2> QED
    BY <2>1, <2>2, <2>3
<1> HIDE DEF f, f1, e
<1>3. Sum(f, Times) <= Sum(f1, Times) + Sum(e, Times)
  BY <1>2, TimesOK, SumBound
<1> QED
  BY <1>1, <1>3 DEF Ran, f, f1

-----------------------------------------------------------------------------
\* A period of the constants, whichever it is.
PeriodOf(len, lim) ==
  len \in Nat /\ len <= LongTime /\ lim \in Nat \ {0}

LEMMA Terms ==
  ASSUME NEW r \in [Times -> Nat], NEW s \in Nat
  PROVE  /\ Since(r, s) \in Nat /\ Since(r, s + 1) \in Nat
         /\ \A t \in Times : t \in Nat /\ Ran(r, t, s - 1) \in Nat
<1>1. MaxTime \in Int /\ s \in Int /\ s + 1 \in Int /\ s - 1 \in Int
  BY CosPatchAssumption
<1>2. Since(r, s) \in Nat
  BY <1>1, RanNat DEF Since
<1>3. Since(r, s + 1) \in Nat
  BY <1>1, RanNat DEF Since
<1>4. ASSUME NEW t \in Times PROVE t \in Nat /\ Ran(r, t, s - 1) \in Nat
  BY <1>1, TimesOK, RanNat
<1> QED
  BY <1>2, <1>3, <1>4

\* The run that was counted is made, and the period has it.
LEMMA PeriodRun ==
  ASSUME NEW r \in [Times -> Nat], NEW n \in Times, NEW s \in Nat, NEW c \in Nat, NEW len, NEW lim,
         NEW before \in Nat, PeriodOf(len, lim), Period(r, n, s, c, len, lim, before, 1),
         NEW q, q = [r EXCEPT ![n] = @ + 1]
  PROVE  Period(q, n, s, c, len, lim, before, 0)
<1>0. /\ q \in [Times -> Nat] /\ n \in Nat /\ n <= MaxTime /\ MaxTime \in Nat
      /\ len \in Nat /\ lim \in Nat \ {0}
  BY TimesOK, CosPatchAssumption DEF PeriodOf
<1>1. s <= n /\ c <= lim /\ (c = 0 => s = 0) /\ n <= s + len
  BY DEF Period
<1>8. /\ Since(r, s) \in Nat /\ Since(r, s + 1) \in Nat
      /\ Since(q, s) \in Nat /\ Since(q, s + 1) \in Nat
  BY <1>0, Terms
<1>9. s \in Int /\ s + 1 \in Int /\ MaxTime \in Int
  BY <1>0
<1>2. Since(q, s) + 0 <= c
  <2>1. Since(q, s) <= Since(r, s) + 1
    BY <1>9, RanRun DEF Since
  <2>2. Since(r, s) + 1 <= c
    BY DEF Period
  <2> QED
    BY <1>0, <1>8, <2>1, <2>2
<1>3. c > 0 => Since(q, s + 1) + 0 <= c - 1
  <2>1. Since(q, s + 1) <= Since(r, s + 1) + IF n > s THEN 1 ELSE 0
    <3>1. s + 1 \in Int
      OBVIOUS
    <3>2. Since(q, s + 1) <= Since(r, s + 1) + 1
      BY <1>9, RanRun DEF Since
    <3>3. ~(n > s) => Since(q, s + 1) = Since(r, s + 1)
      <4>1. ASSUME ~(n > s) PROVE \A u \in Times : s + 1 <= u /\ u <= MaxTime => q[u] = r[u]
        BY <1>0, <4>1, TimesOK
      <4> QED
        <5>1. r \in [Times -> Nat] /\ q \in [Times -> Nat] /\ s + 1 \in Int /\ MaxTime \in Int
          BY <1>0, <1>9
        <5> QED
          BY ONLY <4>1, <5>1, RanSame DEF Since
    <3> QED
      BY <1>0, <1>8, <3>2, <3>3
  <2>2. c > 0 => Since(r, s + 1) + (IF n > s THEN 1 ELSE 0) <= c - 1
    BY DEF Period
  <2> QED
    BY <1>0, <1>8, <2>1, <2>2
<1>4. \A u \in Times : u > s + len => q[u] = 0
  <2> SUFFICES ASSUME NEW u \in Times, u > s + len PROVE q[u] = 0
    OBVIOUS
  <2>1. u # n
    BY <1>0, <1>1, TimesOK
  <2>2. r[u] = 0
    BY DEF Period
  <2> QED
    BY <2>1, <2>2
<1>5. \A t \in Times : t + len >= s => Ran(q, t, s - 1) <= before
  <2> SUFFICES ASSUME NEW t \in Times, t + len >= s PROVE Ran(q, t, s - 1) <= before
    OBVIOUS
  <2>1. n > s - 1 /\ t \in Int /\ s - 1 \in Int
    BY <1>0, <1>1, TimesOK
  <2>2. \A u \in Times : t <= u /\ u <= s - 1 => q[u] = r[u]
    BY <1>0, <2>1, TimesOK
  <2>3. Ran(q, t, s - 1) = Ran(r, t, s - 1)
    <3>1. r \in [Times -> Nat] /\ q \in [Times -> Nat] /\ t \in Int /\ s - 1 \in Int
      BY <1>0, <2>1
    <3> QED
      BY ONLY <2>2, <3>1, RanSame
  <2> QED
    BY <2>3 DEF Period
<1> QED
  BY <1>1, <1>2, <1>3, <1>4, <1>5 DEF Period

\* Then no stretch of its length that the run is in has more than the period and
\* what comes before.
LEMMA WindowRun ==
  ASSUME NEW q \in [Times -> Nat], NEW n \in Times, NEW s \in Nat, NEW c \in Nat, NEW len, NEW lim,
         NEW before \in Nat, PeriodOf(len, lim), Period(q, n, s, c, len, lim, before, 0),
         NEW t \in Times, t <= n, n <= t + len
  PROVE  Ran(q, t, t + len) <= before + lim
<1>0. n \in Nat /\ len \in Nat /\ lim \in Nat /\ t \in Int /\ t + len \in Int /\ s \in Int
  BY TimesOK DEF PeriodOf
<1>1. s <= n /\ c <= lim /\ Since(q, s) + 0 <= c
  BY DEF Period
<1>2. Ran(q, t, t + len) <= Ran(q, t, s - 1) + Since(q, s)
  BY <1>0, RanSplit
<1>3. t + len >= s
  BY <1>0, <1>1
<1>4. Ran(q, t, s - 1) <= before
  BY <1>3 DEF Period
<1>5. Since(q, s) \in Nat /\ Ran(q, t, s - 1) \in Nat
  BY <1>0, Terms
<1>6. Ran(q, t, t + len) \in Nat
  BY <1>0, RanNat
<1> QED
  BY <1>0, <1>1, <1>2, <1>4, <1>5, <1>6

\* The clock moves, or what was counted is forgotten.
LEMMA PeriodLater ==
  ASSUME NEW r \in [Times -> Nat], NEW n \in Nat, NEW m \in Nat, n <= m,
         NEW s \in Nat, NEW c \in Nat, NEW len, NEW lim, NEW before, NEW p \in {0, 1},
         Period(r, n, s, c, len, lim, before, p)
  PROVE  Period(r, m, s, c, len, lim, before, 0)
<1>0. Since(r, s) \in Nat /\ Since(r, s + 1) \in Nat
  BY Terms
<1>1. Since(r, s) + 0 <= c /\ (c > 0 => Since(r, s + 1) + 0 <= c - 1)
  BY <1>0 DEF Period
<1> QED
  BY <1>1 DEF Period

\* A run is counted in a period that is not over and not full.
LEMMA PeriodCounts ==
  ASSUME NEW r \in [Times -> Nat], NEW n \in Times, NEW s \in Nat, NEW c \in Nat, NEW len, NEW lim,
         NEW before, PeriodOf(len, lim), Period(r, n, s, c, len, lim, before, 0),
         ~(n - s > len), c < lim
  PROVE  Period(r, n, s, c + 1, len, lim, before, 1)
<1>0. n \in Nat /\ n > LongTime /\ LongTime \in Nat /\ len \in Nat /\ len <= LongTime /\ lim \in Nat
  BY TimesOK, CosPatchAssumption DEF PeriodOf
<1>1. n <= s + len /\ s # 0
  BY <1>0
<1>2. c # 0
  BY <1>1 DEF Period
<1>3. Since(r, s) + 0 <= c /\ Since(r, s + 1) + 0 <= c - 1
  BY <1>2 DEF Period
<1>4. Since(r, s) + 1 <= c + 1 /\ Since(r, s + 1) + (IF n > s THEN 1 ELSE 0) <= (c + 1) - 1
  <2>1. Since(r, s) \in Nat /\ Since(r, s + 1) \in Nat
    BY Terms
  <2> QED
    BY <1>0, <1>3, <2>1
<1>5. c + 1 <= lim /\ c + 1 # 0
  BY <1>0
<1> QED
  BY <1>1, <1>4, <1>5 DEF Period

\* A period that begins now has its own runs only, and any number before it.
LEMMA PeriodBegins ==
  ASSUME NEW r \in [Times -> Nat], NEW n \in Times, NEW len, NEW lim, NEW before,
         PeriodOf(len, lim), \A u \in Times : u >= n => r[u] = 0,
         \A t \in Times : t + len >= n => Ran(r, t, n - 1) <= before
  PROVE  Period(r, n, n, 1, len, lim, before, 1)
<1>0. n \in Nat /\ len \in Nat /\ lim \in Nat \ {0} /\ MaxTime \in Int
  BY TimesOK, CosPatchAssumption DEF PeriodOf
<1>1. Since(r, n) = 0
  <2>1. \A u \in Times : n <= u /\ u <= MaxTime => r[u] = 0
    BY <1>0, TimesOK
  <2> QED
    BY <1>0, <2>1, RanNone DEF Since
<1>2. Since(r, n + 1) = 0
  <2>1. \A u \in Times : n + 1 <= u /\ u <= MaxTime => r[u] = 0
    BY <1>0, TimesOK
  <2>2. n + 1 \in Int
    BY <1>0
  <2> QED
    BY <1>0, <2>1, <2>2, RanNone DEF Since
<1>3. \A u \in Times : u > n + len => r[u] = 0
  BY <1>0, TimesOK
<1> QED
  BY <1>0, <1>1, <1>2, <1>3 DEF Period

\* A period that is over leaves a stretch that ends after it all its runs but
\* the first.
LEMMA PeriodOver ==
  ASSUME NEW r \in [Times -> Nat], NEW n \in Times, NEW s \in Nat, NEW c \in Nat, NEW len, NEW lim,
         NEW before, PeriodOf(len, lim), Period(r, n, s, c, len, lim, before, 0), n - s > len
  PROVE  /\ \A u \in Times : u >= n => r[u] = 0
         /\ \A t \in Times : t + len >= n => Ran(r, t, n - 1) <= lim - 1
<1>0. n \in Nat /\ len \in Nat /\ lim \in Nat \ {0} /\ n - 1 \in Int
  BY TimesOK, CosPatchAssumption DEF PeriodOf
<1>1. ASSUME NEW u \in Times, u >= n PROVE r[u] = 0
  <2>1. u > s + len
    BY <1>0, <1>1, TimesOK
  <2> QED
    BY <2>1 DEF Period
<1>2. ASSUME NEW t \in Times, t + len >= n PROVE Ran(r, t, n - 1) <= lim - 1
  <2>0. t \in Int /\ s <= t /\ s + 1 <= t /\ s \in Int /\ s + 1 \in Int
    BY <1>0, <1>2, TimesOK
  <2>1. Ran(r, t, n - 1) <= Since(r, s) /\ Ran(r, t, n - 1) <= Since(r, s + 1)
    BY <1>0, <2>0, RanLate
  <2>2. Ran(r, t, n - 1) \in Nat /\ Since(r, s) \in Nat /\ Since(r, s + 1) \in Nat
    BY <1>0, <2>0, RanNat, Terms
  <2>3. c <= lim /\ Since(r, s) + 0 <= c /\ (c > 0 => Since(r, s + 1) + 0 <= c - 1)
    BY DEF Period
  <2> QED
    BY <1>0, <2>1, <2>2, <2>3
<1> QED
  BY <1>1, <1>2

\* One that is cut off may leave it all of them, and what came before.
LEMMA PeriodCut ==
  ASSUME NEW r \in [Times -> Nat], NEW n \in Times, NEW s \in Nat, NEW c \in Nat, NEW len, NEW lim,
         NEW before \in Nat, PeriodOf(len, lim), Period(r, n, s, c, len, lim, before, 0)
  PROVE  \A t \in Times : t + len >= n => Ran(r, t, n - 1) <= before + lim
<1>0. n \in Nat /\ len \in Nat /\ lim \in Nat \ {0} /\ n - 1 \in Int
  BY TimesOK, CosPatchAssumption DEF PeriodOf
<1> SUFFICES ASSUME NEW t \in Times, t + len >= n PROVE Ran(r, t, n - 1) <= before + lim
  OBVIOUS
<1>1. Ran(r, t, n - 1) <= Ran(r, t, s - 1) + Since(r, s)
  BY <1>0, TimesOK, RanSplit
<1>2. t + len >= s /\ Since(r, s) + 0 <= c /\ c <= lim
  BY <1>0, TimesOK DEF Period
<1>3. Ran(r, t, s - 1) <= before
  BY <1>2 DEF Period
<1>4. Ran(r, t, n - 1) \in Nat /\ Ran(r, t, s - 1) \in Nat /\ Since(r, s) \in Nat
  BY <1>0, TimesOK, RanNat, Terms
<1> QED
  BY <1>0, <1>1, <1>2, <1>3, <1>4

-----------------------------------------------------------------------------
LEMMA Limits ==
  /\ PeriodOf(LongTime, LongCount) /\ PeriodOf(ShortTime, ShortCount)
  /\ LongTime \in Nat /\ ShortTime \in Nat /\ ShortTime < LongTime
  /\ LongCount \in Nat /\ ShortCount \in Nat /\ LongCount - 1 \in Nat /\ ShortCount - 1 \in Nat
BY CosPatchAssumption DEF PeriodOf

LEMMA DataFields ==
  ASSUME NEW d \in Data
  PROVE  /\ d.startLong \in Nat /\ d.startShort \in Nat /\ d.short \in Nat /\ d.long \in Nat
         /\ BeforeShort(d) \in Nat
         /\ BeforeShort(d) = ShortCount - 1 \/ BeforeShort(d) = 2 * ShortCount - 1
BY Limits DEF Data, BeforeShort

\* The counted run is made.
LEMMA AccountRun ==
  ASSUME NEW r \in [Times -> Nat], NEW n \in Times, NEW d \in Data, Account(r, n, d, 1), Windows(r),
         NEW q, q = [r EXCEPT ![n] = @ + 1]
  PROVE  Account(q, n, d, 0) /\ Windows(q)
<1>0. /\ d.startLong \in Nat /\ d.startShort \in Nat /\ d.short \in Nat /\ d.long \in Nat
      /\ BeforeShort(d) \in Nat /\ LongCount - 1 \in Nat
      /\ PeriodOf(LongTime, LongCount) /\ PeriodOf(ShortTime, ShortCount)
      /\ Period(r, n, d.startLong, d.long, LongTime, LongCount, LongCount - 1, 1)
      /\ Period(r, n, d.startShort, d.short, ShortTime, ShortCount, BeforeShort(d), 1)
      /\ r \in [Times -> Nat] /\ n \in Times /\ q = [r EXCEPT ![n] = @ + 1]
  BY Limits, DataFields DEF Account
<1>1. Period(q, n, d.startLong, d.long, LongTime, LongCount, LongCount - 1, 0)
  BY ONLY <1>0, PeriodRun
<1>2. Period(q, n, d.startShort, d.short, ShortTime, ShortCount, BeforeShort(d), 0)
  BY ONLY <1>0, PeriodRun
<1>3. q \in [Times -> Nat]
  BY <1>0
<1>4. ASSUME NEW t \in Times PROVE Ran(q, t, t + LongTime) <= 2 * LongCount - 1
  <2>1. CASE t <= n /\ n <= t + LongTime
    <3>1. Ran(q, t, t + LongTime) <= LongCount - 1 + LongCount
      BY <1>0, <1>1, <1>3, <2>1, WindowRun
    <3> QED
      BY <3>1, Limits
  <2>2. CASE ~(t <= n /\ n <= t + LongTime)
    <3>1. \A u \in Times : t <= u /\ u <= t + LongTime => q[u] = r[u]
      BY <1>0, <2>2
    <3>2. r \in [Times -> Nat] /\ t \in Int /\ t + LongTime \in Int
      BY <1>0, TimesOK, Limits
    <3>3. Ran(q, t, t + LongTime) = Ran(r, t, t + LongTime)
      BY ONLY <1>3, <3>1, <3>2, RanSame
    <3> QED
      BY <3>3 DEF Windows
  <2> QED
    BY <2>1, <2>2
<1>5. ASSUME NEW t \in Times PROVE Ran(q, t, t + ShortTime) <= 3 * ShortCount - 1
  <2>1. CASE t <= n /\ n <= t + ShortTime
    <3>1. Ran(q, t, t + ShortTime) <= BeforeShort(d) + ShortCount
      BY <1>0, <1>2, <1>3, <2>1, WindowRun
    <3>2. Ran(q, t, t + ShortTime) \in Nat
      <4>1. t \in Int /\ t + ShortTime \in Int
        BY TimesOK, Limits
      <4> QED
        BY ONLY <1>3, <4>1, RanNat
    <3> QED
      BY <1>0, <3>1, <3>2, Limits, DataFields
  <2>2. CASE ~(t <= n /\ n <= t + ShortTime)
    <3>1. \A u \in Times : t <= u /\ u <= t + ShortTime => q[u] = r[u]
      BY <1>0, <2>2
    <3>2. r \in [Times -> Nat] /\ t \in Int /\ t + ShortTime \in Int
      BY <1>0, TimesOK, Limits
    <3>3. Ran(q, t, t + ShortTime) = Ran(r, t, t + ShortTime)
      BY ONLY <1>3, <3>1, <3>2, RanSame
    <3> QED
      BY <3>3 DEF Windows
  <2> QED
    BY <2>1, <2>2
<1> QED
  BY <1>1, <1>2, <1>4, <1>5 DEF Account, Windows

\* It is not made, or time passes.
LEMMA AccountLater ==
  ASSUME NEW r \in [Times -> Nat], NEW n \in Times, NEW m \in Times, n <= m, NEW d \in Data,
         NEW p \in {0, 1}, Account(r, n, d, p)
  PROVE  Account(r, m, d, 0)
<1>1. n \in Nat /\ m \in Nat
  BY TimesOK
<1>2. Period(r, m, d.startLong, d.long, LongTime, LongCount, LongCount - 1, 0)
  BY <1>1, DataFields, PeriodLater DEF Account
<1>3. Period(r, m, d.startShort, d.short, ShortTime, ShortCount, BeforeShort(d), 0)
  BY <1>1, DataFields, PeriodLater DEF Account
<1> QED
  BY <1>2, <1>3 DEF Account

\* A run that is not refused is counted in the periods that are not over, and
\* begins the others.
LEMMA AccountCounted ==
  ASSUME NEW r \in [Times -> Nat], now \in Times, NEW d \in Data, Account(r, now, d, 0),
         ~IsVtpDownloadExcess(d)
  PROVE  Counted(d) \in Data /\ Account(r, now, Counted(d), 1)
<1> DEFINE e == Counted(d)
<1>0. /\ d.startLong \in Nat /\ d.startShort \in Nat /\ d.short \in Nat /\ d.long \in Nat
      /\ now \in Nat
  BY DataFields, TimesOK
<1>1. /\ Period(r, now, d.startLong, d.long, LongTime, LongCount, LongCount - 1, 0)
      /\ Period(r, now, d.startShort, d.short, ShortTime, ShortCount, BeforeShort(d), 0)
  BY DEF Account
<1>2. ASSUME LongOver(d)
      PROVE  /\ Period(r, now, now, 1, LongTime, LongCount, LongCount - 1, 1)
             /\ Period(r, now, now, 1, ShortTime, ShortCount, 2 * ShortCount - 1, 1)
  <2>1. /\ \A u \in Times : u >= now => r[u] = 0
        /\ \A t \in Times : t + LongTime >= now => Ran(r, t, now - 1) <= LongCount - 1
    BY <1>0, <1>1, <1>2, Limits, PeriodOver DEF LongOver
  <2>2. ASSUME NEW t \in Times, t + ShortTime >= now
        PROVE  Ran(r, t, now - 1) <= 2 * ShortCount - 1
    <3>0. Ran(r, t, now - 1) \in Nat
      BY <1>0, TimesOK, RanNat
    <3>1. CASE ShortOver(d)
      <4>1. Ran(r, t, now - 1) <= ShortCount - 1
        BY <1>0, <1>1, <2>2, <3>1, Limits, PeriodOver DEF ShortOver
      <4> QED
        BY <3>0, <4>1, Limits
    <3>2. CASE ~ShortOver(d)
      <4>1. d.startShort # d.startLong
        BY <1>0, <1>2, <3>2, Limits DEF ShortOver, LongOver
      <4>2. BeforeShort(d) = ShortCount - 1 /\ BeforeShort(d) \in Nat
        BY <4>1, Limits DEF BeforeShort
      <4>3. Ran(r, t, now - 1) <= BeforeShort(d) + ShortCount
        BY <1>0, <1>1, <2>2, <4>2, Limits, PeriodCut
      <4> QED
        BY <3>0, <4>2, <4>3, Limits
    <3> QED
      BY <3>1, <3>2
  <2>3. Period(r, now, now, 1, LongTime, LongCount, LongCount - 1, 1)
    BY <2>1, Limits, PeriodBegins
  <2>4. Period(r, now, now, 1, ShortTime, ShortCount, 2 * ShortCount - 1, 1)
    BY <2>1, <2>2, Limits, PeriodBegins
  <2> QED
    BY <2>3, <2>4
<1>3. ASSUME ~LongOver(d)
      PROVE  Period(r, now, d.startLong, d.long + 1, LongTime, LongCount, LongCount - 1, 1)
  <2>1. d.long < LongCount /\ ~(now - d.startLong > LongTime)
    BY <1>0, <1>3, Limits DEF IsVtpDownloadExcess, LongOver
  <2> QED
    BY <1>0, <1>1, <2>1, Limits, PeriodCounts
<1>4. ASSUME ~LongOver(d), ShortOver(d), NEW before \in {ShortCount - 1, 2 * ShortCount - 1}
      PROVE  Period(r, now, now, 1, ShortTime, ShortCount, before, 1)
  <2>1. /\ \A u \in Times : u >= now => r[u] = 0
        /\ \A t \in Times : t + ShortTime >= now => Ran(r, t, now - 1) <= ShortCount - 1
    BY <1>0, <1>1, <1>4, Limits, PeriodOver DEF ShortOver
  <2>2. ASSUME NEW t \in Times, t + ShortTime >= now PROVE Ran(r, t, now - 1) <= before
    <3>1. Ran(r, t, now - 1) \in Nat
      BY <1>0, TimesOK, RanNat
    <3>2. Ran(r, t, now - 1) <= ShortCount - 1
      BY <2>1, <2>2
    <3> QED
      BY <3>1, <3>2, Limits
  <2> QED
    BY <2>1, <2>2, Limits, PeriodBegins
<1>5. ASSUME ~LongOver(d), ~ShortOver(d)
      PROVE  Period(r, now, d.startShort, d.short + 1, ShortTime, ShortCount, BeforeShort(d), 1)
  <2>1. d.short < ShortCount /\ ~(now - d.startShort > ShortTime)
    BY <1>0, <1>5, Limits DEF IsVtpDownloadExcess, LongOver, ShortOver
  <2> QED
    BY <1>0, <1>1, <2>1, Limits, PeriodCounts
<1>6. CASE LongOver(d)
  <2>1. e = [startLong |-> now, startShort |-> now, short |-> 1, long |-> 1]
    BY <1>6 DEF Counted
  <2>2. e \in Data /\ BeforeShort(e) = 2 * ShortCount - 1
    BY <1>0, <2>1 DEF Data, BeforeShort
  <2> QED
    BY <1>2, <1>6, <2>1, <2>2 DEF Account
<1>7. CASE ~LongOver(d) /\ ShortOver(d)
  <2>1. e = [d EXCEPT !.startShort = now, !.short = 1, !.long = d.long + 1]
    BY <1>7 DEF Counted
  <2>2. e \in Data
    <3>1. d.long + 1 \in Nat /\ 1 \in Nat /\ now \in Nat
      BY <1>0
    <3> QED
      BY ONLY <2>1, <3>1, d \in Data DEF Data
  <2>3. e.startLong = d.startLong /\ e.startShort = now /\ e.short = 1 /\ e.long = d.long + 1
    BY <2>1 DEF Data
  <2>4. BeforeShort(e) \in {ShortCount - 1, 2 * ShortCount - 1}
    BY DEF BeforeShort
  <2> QED
    BY <1>3, <1>4, <1>7, <2>2, <2>3, <2>4 DEF Account
<1>8. CASE ~LongOver(d) /\ ~ShortOver(d)
  <2>1. e = [d EXCEPT !.short = d.short + 1, !.long = d.long + 1]
    BY <1>8 DEF Counted
  <2>2. e \in Data
    <3>1. d.long + 1 \in Nat /\ d.short + 1 \in Nat
      BY <1>0
    <3> QED
      BY ONLY <2>1, <3>1, d \in Data DEF Data
  <2>3. /\ e.startLong = d.startLong /\ e.startShort = d.startShort
        /\ e.short = d.short + 1 /\ e.long = d.long + 1
    BY <2>1 DEF Data
  <2>4. BeforeShort(e) = BeforeShort(d)
    BY <2>3 DEF BeforeShort
  <2> QED
    BY <1>3, <1>5, <1>8, <2>2, <2>3, <2>4 DEF Account
<1> QED
  BY <1>6, <1>7, <1>8

-----------------------------------------------------------------------------
\* Counters that are zero account for no runs.
LEMMA NoRunsOK ==
  /\ NoRuns \in [Times -> Nat] /\ NoData \in Data /\ Windows(NoRuns)
  /\ \A a, b \in Int : Ran(NoRuns, a, b) = 0
  /\ \A u \in Times : NoRuns[u] = 0
<1>1. NoRuns \in [Times -> Nat] /\ NoData \in Data /\ \A u \in Times : NoRuns[u] = 0
  BY DEF NoRuns, NoData, Data
<1>2. \A a, b \in Int : Ran(NoRuns, a, b) = 0
  <2> SUFFICES ASSUME NEW a \in Int, NEW b \in Int PROVE Ran(NoRuns, a, b) = 0
    OBVIOUS
  <2> QED
    BY <1>1, RanNone
<1>3. Windows(NoRuns)
  <2> SUFFICES ASSUME NEW t \in Times
               PROVE  /\ Ran(NoRuns, t, t + ShortTime) <= 3 * ShortCount - 1
                      /\ Ran(NoRuns, t, t + LongTime) <= 2 * LongCount - 1
    BY DEF Windows
  <2>1. t \in Int /\ t + ShortTime \in Int /\ t + LongTime \in Int
    BY TimesOK, Limits
  <2>2. Ran(NoRuns, t, t + ShortTime) = 0 /\ Ran(NoRuns, t, t + LongTime) = 0
    BY <1>2, <2>1
  <2>3. 0 <= 3 * ShortCount - 1 /\ 0 <= 2 * LongCount - 1
    BY Limits
  <2> QED
    BY <2>2, <2>3
<1> QED
  BY <1>1, <1>2, <1>3

LEMMA PeriodOfNoRuns ==
  ASSUME NEW n \in Nat, NEW s \in Nat, NEW c \in Nat, NEW len \in Nat, NEW lim \in Nat,
         NEW before \in Nat, s <= n, c <= lim, c = 0 => s = 0
  PROVE  Period(NoRuns, n, s, c, len, lim, before, 0)
<1>1. MaxTime \in Int /\ s - 1 \in Int /\ s + 1 \in Int
  BY CosPatchAssumption
<1>2. Since(NoRuns, s) = 0 /\ Since(NoRuns, s + 1) = 0
  BY <1>1, NoRunsOK DEF Since
<1>3. \A t \in Times : Ran(NoRuns, t, s - 1) = 0
  BY <1>1, NoRunsOK, TimesOK
<1> QED
  BY <1>2, <1>3, NoRunsOK DEF Period

LEMMA AccountZero ==
  ASSUME NEW n \in Times
  PROVE  Account(NoRuns, n, NoData, 0)
<1>1. n \in Nat /\ 0 <= n
  BY TimesOK
<1>2. NoData.startLong = 0 /\ NoData.startShort = 0 /\ NoData.short = 0 /\ NoData.long = 0
  BY DEF NoData
<1>3. BeforeShort(NoData) \in Nat
  BY NoRunsOK, DataFields
<1>4. Period(NoRuns, n, 0, 0, LongTime, LongCount, LongCount - 1, 0)
  BY <1>1, Limits, PeriodOfNoRuns
<1>5. Period(NoRuns, n, 0, 0, ShortTime, ShortCount, BeforeShort(NoData), 0)
  BY <1>1, <1>3, Limits, PeriodOfNoRuns
<1> QED
  BY <1>2, <1>4, <1>5 DEF Account

\* Counters that account for some runs account for none.
LEMMA AccountForgets ==
  ASSUME NEW r, NEW n \in Times, NEW d \in Data, NEW p, Account(r, n, d, p)
  PROVE  Account(NoRuns, n, d, 0)
<1>1. n \in Nat /\ LongTime \in Nat /\ ShortTime \in Nat /\ LongCount \in Nat /\ ShortCount \in Nat
      /\ LongCount - 1 \in Nat
  BY TimesOK, Limits
<1>2. /\ d.startLong \in Nat /\ d.startShort \in Nat /\ d.short \in Nat /\ d.long \in Nat
      /\ BeforeShort(d) \in Nat
  BY DataFields
<1>3. /\ d.startLong <= n /\ d.long <= LongCount /\ (d.long = 0 => d.startLong = 0)
      /\ d.startShort <= n /\ d.short <= ShortCount /\ (d.short = 0 => d.startShort = 0)
  BY DEF Account, Period
<1>4. Period(NoRuns, n, d.startLong, d.long, LongTime, LongCount, LongCount - 1, 0)
  BY <1>1, <1>2, <1>3, PeriodOfNoRuns
<1>5. Period(NoRuns, n, d.startShort, d.short, ShortTime, ShortCount, BeforeShort(d), 0)
  BY <1>1, <1>2, <1>3, PeriodOfNoRuns
<1> QED
  BY <1>4, <1>5 DEF Account

-----------------------------------------------------------------------------
LEMMA LimitInit == Init => LimitInv
<1> SUFFICES ASSUME Init PROVE LimitInv
  OBVIOUS
<1>1. /\ runs = NoRuns /\ now = LongTime + 1 /\ pc = "none"
      /\ dlData = NoData /\ dataFile = NoData /\ stored = NoData /\ dataRead = FALSE
  BY DEF Init
<1>2. now \in Times
  BY <1>1, CosPatchAssumption DEF Times
<1>3. Account(NoRuns, now, NoData, 0)
  BY <1>2, AccountZero
<1> QED
  BY <1>1, <1>2, <1>3, NoRunsOK DEF LimitInv, LimitTypeOK, Accounted, Recorded, Pending

\* Steps that have nothing to do with the counters.
LEMMA LimitKept ==
  ASSUME LimitInv, UNCHANGED <<limits, runs>>,
         pc' = pc \/ {pc, pc'} \cap {"write", "start"} = {}
  PROVE  LimitInv'
<1>1. UNCHANGED <<Recorded, Pending>>
  BY DEF Recorded, Pending, limits
<1> QED
  BY <1>1 DEF LimitInv, LimitTypeOK, limits, Accounted

\* The counters account for the runs, or are others and a loss.
LEMMA Known ==
  ASSUME LimitInv, NEW d \in {Recorded, dataFile, stored, NoData}
  PROVE  /\ d \in Data /\ KnownTo(d) \in [Times -> Nat]
         /\ ErasureProtection => Windows(KnownTo(d)) /\ Account(KnownTo(d), now, d, 0)
<1>1. runs \in [Times -> Nat] /\ now \in Times /\ Recorded \in Data /\ d \in Data
  BY NoRunsOK DEF Recorded, LimitInv, LimitTypeOK
<1>2. KnownTo(d) \in [Times -> Nat]
  BY <1>1, NoRunsOK DEF KnownTo
<1>3. ASSUME ErasureProtection PROVE Windows(KnownTo(d)) /\ Account(KnownTo(d), now, d, 0)
  <2>1. CASE d = Recorded
    <3>1. Account(runs, now, d, Pending) /\ Windows(runs)
      BY <1>3, <2>1 DEF LimitInv, Accounted
    <3>2. now <= now /\ Pending \in {0, 1}
      BY <1>1, TimesOK DEF Pending
    <3>3. Account(runs, now, d, 0)
      BY <1>1, <3>1, <3>2, AccountLater
    <3> QED
      BY <2>1, <3>1, <3>3 DEF KnownTo
  <2>2. CASE d # Recorded
    <3>1. KnownTo(d) = NoRuns
      BY <2>2 DEF KnownTo
    <3>2. Account(NoRuns, now, d, 0)
      BY <1>1, <1>3, <2>2, AccountZero DEF LimitInv, Accounted
    <3> QED
      BY <3>1, <3>2, NoRunsOK
  <2> QED
    BY <2>1, <2>2
<1> QED
  BY <1>1, <1>2, <1>3

LEMMA CountedIsData ==
  ASSUME NEW d \in Data, now \in Times
  PROVE  Counted(d) \in Data
<1>1. d.short + 1 \in Nat /\ d.long + 1 \in Nat /\ now \in Nat /\ 1 \in Nat
  BY DataFields, TimesOK
<1>2. CASE LongOver(d)
  BY <1>1, <1>2 DEF Counted, Data
<1>3. CASE ~LongOver(d) /\ ShortOver(d)
  <2>1. Counted(d) = [d EXCEPT !.startShort = now, !.short = 1, !.long = d.long + 1]
    BY <1>3 DEF Counted
  <2> QED
    BY ONLY d \in Data, <1>1, <2>1 DEF Data
<1>4. CASE ~LongOver(d) /\ ~ShortOver(d)
  <2>1. Counted(d) = [d EXCEPT !.short = d.short + 1, !.long = d.long + 1]
    BY <1>4 DEF Counted
  <2> QED
    BY ONLY d \in Data, <1>1, <2>1 DEF Data
<1> QED
  BY <1>2, <1>3, <1>4

LEMMA LimitCheck == LimitInv /\ CheckLimit => LimitInv'
<1> SUFFICES ASSUME LimitInv, CheckLimit PROVE LimitInv'
  OBVIOUS
<1>1. pc = "limit" /\ UNCHANGED <<stored, now>>
  BY DEF CheckLimit
<1>2. CASE ~ErasureProtection
  BY <1>1, <1>2 DEF CheckLimit, LimitInv, LimitTypeOK
<1>3. CASE ErasureProtection
  <2>1. PICK d \in {Recorded} \cup IF dataRead THEN {} ELSE {NoData} :
          /\ dataRead' = TRUE /\ runs' = KnownTo(d)
          /\ IF IsVtpDownloadExcess(d)
               THEN /\ pc' = AfterScript /\ dlData' = d /\ UNCHANGED dataFile
               ELSE /\ dlData' = Counted(d)
                    /\ \/ pc' = "write" /\ dataFile' = NoData
                       \/ pc' = "start" /\ UNCHANGED dataFile
    BY <1>3 DEF CheckLimit
  <2>2. d \in {Recorded, NoData}
    BY <2>1
  <2>3. d \in Data /\ runs' \in [Times -> Nat] /\ Windows(runs') /\ Account(runs', now, d, 0)
    BY <1>3, <2>1, <2>2, Known
  <2>4. now \in Times /\ dataFile \in Data /\ stored \in Data
    BY DEF LimitInv, LimitTypeOK
  <2>5. Account(NoRuns, now, dataFile', 0) /\ dataFile' \in Data
    <3>1. dataFile' \in {dataFile, NoData}
      BY <2>1
    <3> QED
      BY <1>3, <2>4, <3>1, AccountZero, NoRunsOK DEF LimitInv, Accounted
  <2>6. Account(NoRuns, now, stored, 0)
    BY <1>3 DEF LimitInv, Accounted
  <2>7. CASE IsVtpDownloadExcess(d)
    <3>1. pc' \in {"recovered", "reopen"} /\ Recorded' = d
      BY <2>1, <2>7 DEF AfterScript, Recorded
    <3>2. Pending' = 0
      BY <3>1 DEF Pending
    <3> QED
      BY <1>1, <2>1, <2>3, <2>4, <2>5, <2>6, <2>7, <3>1, <3>2 DEF LimitInv, LimitTypeOK, Accounted
  <2>8. CASE ~IsVtpDownloadExcess(d)
    <3>1. pc' \in {"write", "start"} /\ Recorded' = Counted(d) /\ dlData' = Counted(d)
      BY <2>1, <2>8 DEF Recorded
    <3>2. Pending' = 1
      BY <3>1 DEF Pending
    <3>3. Account(runs', now, Counted(d), 1)
      BY <2>3, <2>4, <2>8, AccountCounted
    <3>4. Counted(d) \in Data
      BY <2>3, <2>4, CountedIsData
    <3> QED
      BY <1>1, <2>1, <2>3, <2>4, <2>5, <2>6, <3>1, <3>2, <3>3, <3>4
         DEF LimitInv, LimitTypeOK, Accounted
  <2> QED
    BY <2>7, <2>8
<1> QED
  BY <1>2, <1>3

\* The file may get what the memory has, and the storage what the file has.
LEMMA LimitFile == LimitInv /\ (WriteDataFile \/ Writeback) => LimitInv'
<1> SUFFICES ASSUME LimitInv, WriteDataFile \/ Writeback PROVE LimitInv'
  OBVIOUS
<1>1. now \in Times /\ dlData \in Data /\ dataFile \in Data /\ stored \in Data
  BY DEF LimitInv, LimitTypeOK
<1>2. CASE WriteDataFile
  <2>1. /\ pc = "write" /\ pc' = "start" /\ dataFile' \in {dlData, dataFile}
        /\ UNCHANGED <<dlData, dataRead, stored, now, runs>>
    BY <1>2 DEF WriteDataFile, Goto, ghosts
  <2>2. ASSUME ErasureProtection PROVE Accounted'
    <3>1. /\ dataRead /\ Account(runs, now, dlData, 1)
          /\ Account(NoRuns, now, dataFile, 0) /\ Account(NoRuns, now, stored, 0)
      BY <2>1, <2>2 DEF LimitInv, Accounted, Recorded, Pending
    <3>2. Account(NoRuns, now, dlData, 0)
      BY <1>1, <3>1, AccountForgets
    <3>3. Recorded' = dlData /\ Pending' = 1
      BY <2>1, <3>1 DEF Recorded, Pending
    <3> QED
      BY <2>1, <3>1, <3>2, <3>3 DEF Accounted
  <2> QED
    BY <1>1, <2>1, <2>2 DEF LimitInv, LimitTypeOK
<1>3. CASE Writeback
  <2>1. UNCHANGED <<pc, dlData, dataRead, dataFile, now, runs>> /\ stored' = dataFile
    BY <1>3 DEF Writeback, thread, ghosts
  <2>2. UNCHANGED <<Recorded, Pending>>
    BY <2>1 DEF Recorded, Pending
  <2> QED
    BY <2>1, <2>2 DEF LimitInv, LimitTypeOK, Accounted
<1> QED
  BY <1>2, <1>3

LEMMA LimitRun == LimitInv /\ VtpDownload => LimitInv'
<1> SUFFICES ASSUME LimitInv, VtpDownload PROVE LimitInv'
  OBVIOUS
<1>1. /\ pc = "start" /\ UNCHANGED limits
      /\ pc' \in {"recovered", "reopen", "exec"}
      /\ runs' = runs \/ runs' = [runs EXCEPT ![now] = @ + 1]
  BY DEF VtpDownload, AfterScript
<1>2. runs \in [Times -> Nat] /\ now \in Times /\ Recorded \in Data
  BY DEF LimitInv, LimitTypeOK, Recorded
<1>3. LimitTypeOK'
  BY <1>1, <1>2 DEF LimitInv, LimitTypeOK, limits
<1>4. ASSUME ErasureProtection
      PROVE  Windows(runs') /\ Account(runs', now, Recorded, 0)
  <2>1. Account(runs, now, Recorded, 1) /\ Windows(runs)
    BY <1>1, <1>4 DEF LimitInv, Accounted, Pending
  <2>2. CASE runs' = runs
    <3>1. now <= now /\ 1 \in {0, 1}
      BY <1>2, TimesOK
    <3>2. Account(runs, now, Recorded, 0)
      BY <1>2, <2>1, <3>1, AccountLater
    <3> QED
      BY <2>1, <2>2, <3>2
  <2>3. CASE runs' = [runs EXCEPT ![now] = @ + 1]
    BY <1>2, <2>1, <2>3, AccountRun
  <2> QED
    BY <1>1, <2>2, <2>3
<1>5. UNCHANGED Recorded /\ Pending' = 0
  BY <1>1 DEF Recorded, Pending, limits
<1> QED
  BY <1>1, <1>3, <1>4, <1>5 DEF LimitInv, Accounted, limits

LEMMA LimitTick == LimitInv /\ Tick => LimitInv'
<1> SUFFICES ASSUME LimitInv, Tick PROVE LimitInv'
  OBVIOUS
<1>1. /\ pc = "none" /\ pc' = "none" /\ now' = now + 1 /\ now < MaxTime
      /\ UNCHANGED <<runs, dlData, dataRead, dataFile, stored>>
  BY DEF Tick, thread, ghosts
<1>2. /\ runs \in [Times -> Nat] /\ now \in Times /\ dataFile \in Data /\ stored \in Data
      /\ Recorded \in Data
  BY DEF LimitInv, LimitTypeOK, Recorded
<1>3. now' \in Times /\ now <= now'
  BY <1>1, <1>2, CosPatchAssumption DEF Times
<1>4. UNCHANGED Recorded /\ Pending = 0 /\ Pending' = 0
  BY <1>1 DEF Recorded, Pending
<1>5. ASSUME ErasureProtection
      PROVE  /\ Account(runs, now', Recorded, 0)
             /\ Account(NoRuns, now', dataFile, 0) /\ Account(NoRuns, now', stored, 0)
  <2>1. /\ Account(runs, now, Recorded, 0)
        /\ Account(NoRuns, now, dataFile, 0) /\ Account(NoRuns, now, stored, 0)
    BY <1>4, <1>5 DEF LimitInv, Accounted
  <2>2. 0 \in {0, 1}
    OBVIOUS
  <2> QED
    BY <1>2, <1>3, <2>1, <2>2, NoRunsOK, AccountLater
<1> QED
  BY <1>1, <1>3, <1>4, <1>5 DEF LimitInv, LimitTypeOK, Accounted

\* What the next process reads is what it will count on.
LEMMA LimitDeath == PatchInv /\ LimitInv /\ (ProcessDies \/ PowerFails) => LimitInv'
<1> SUFFICES ASSUME PatchInv, LimitInv, ProcessDies \/ PowerFails PROVE LimitInv'
  OBVIOUS
<1>1. PICK d \in {stored, dataFile, NoData} : Dies(d) /\ stored' \in {stored, d}
  BY DeathLeaves DEF PatchInv
<1>2. /\ pc' = "none" /\ dlData' = NoData /\ ~dataRead' /\ dataFile' = d
      /\ now' = now /\ runs' = KnownTo(d)
  BY <1>1 DEF Dies
<1>3. /\ d \in Data /\ KnownTo(d) \in [Times -> Nat] /\ now \in Times /\ stored \in Data
      /\ ErasureProtection => Windows(KnownTo(d)) /\ Account(KnownTo(d), now, d, 0)
  BY Known DEF LimitInv, LimitTypeOK
<1>4. LimitTypeOK'
  BY <1>1, <1>2, <1>3, NoRunsOK DEF LimitTypeOK
<1>5. ErasureProtection => Account(NoRuns, now, d, 0) /\ Account(NoRuns, now, stored, 0)
  BY <1>3, AccountForgets DEF LimitInv, Accounted
<1>6. Recorded' = d /\ Pending' = 0
  BY <1>2 DEF Recorded, Pending
<1> QED
  BY <1>1, <1>2, <1>3, <1>4, <1>5, <1>6 DEF LimitInv, Accounted

LEMMA LimitStep == PatchInv /\ LimitInv /\ [Next]_vars => LimitInv'
<1> SUFFICES ASSUME PatchInv, LimitInv, [Next]_vars PROVE LimitInv'
  OBVIOUS
<1>1. CASE UNCHANGED vars
  BY <1>1, LimitKept DEF vars, thread, ghosts
<1>2. CASE StartThread
  BY <1>2, LimitKept DEF StartThread
<1>3. CASE TimedWait \/ TimedOut \/ SpuriousWake
  BY <1>3, LimitKept DEF TimedWait, TimedOut, SpuriousWake, thread, ghosts
<1>4. CASE Joined
  BY <1>4, LimitKept DEF Joined, Finish, ghosts
<1>5. CASE Woken
  <2>1. pc' = pc \/ (pc = "ended" /\ pc' = "none")
    BY <1>5 DEF Woken
  <2> QED
    BY <1>5, <2>1, LimitKept DEF Woken, Finish, ghosts
<1>6. CASE SetThreadRunning \/ OpenBasicChannel \/ GetSeCosVerFromChip
  BY <1>6, LimitKept DEF SetThreadRunning, OpenBasicChannel, GetSeCosVerFromChip, Goto, ghosts
<1>7. CASE CompareVersions
  BY <1>7, LimitKept DEF CompareVersions, ghosts
<1>8. CASE ExecApdu
  <2>1. PICK r \in {Sw9000, "6504", "6A80", "none"} : Apdu(r)
    BY <1>8 DEF ExecApdu
  <2>2. UNCHANGED <<limits, ghosts>> /\ pc' = pc
    BY <2>1 DEF Apdu, Tried
  <2> QED
    BY <2>2, LimitKept DEF ghosts
<1>9. CASE ExecOther
  BY <1>9, LimitKept DEF ExecOther, Tried, ghosts
<1>10. CASE ScriptEnds
  BY <1>10, LimitKept DEF ScriptEnds, AfterScript, ghosts
<1>11. CASE Reopen \/ Recovered \/ EndThread \/ CondSignal
  BY <1>11, LimitKept DEF Reopen, Recovered, EndThread, CondSignal, Goto, ghosts
<1>12. CASE ChkRes
  BY <1>12, LimitKept DEF ChkRes, ghosts
<1> QED
  BY <1>1, <1>2, <1>3, <1>4, <1>5, <1>6, <1>7, <1>8, <1>9, <1>10, <1>11, <1>12,
     LimitCheck, LimitFile, LimitRun, LimitTick, LimitDeath DEF Next, Caller, Thread

-----------------------------------------------------------------------------
\* However the runs fall and whenever the process dies or the power fails, since
\* the counters were last lost: no short period of time has more than three times the short
\* limit less one, and no long one more than twice the long limit less one.
THEOREM DownloadsStayWithinLimit == Spec => []WithinLimit
<1>1. PatchInv /\ LimitInv /\ [Next]_vars => (PatchInv /\ LimitInv)'
  BY PatchStep, LimitStep
<1>2. LimitInv => WithinLimit
  <2>1. \A t \in Times : /\ RunsFrom(t, ShortTime) = Ran(runs, t, t + ShortTime)
                         /\ RunsFrom(t, LongTime) = Ran(runs, t, t + LongTime)
    BY DEF RunsFrom, Ran, Span, Sum
  <2> QED
    BY <2>1 DEF LimitInv, WithinLimit, Windows
<1> QED
  BY PatchInit, LimitInit, <1>1, <1>2, PTL DEF Spec
-----------------------------------------------------------------------------
(***************************************************************************)
(* The recovery.  Nobody looks at the chip after it: that it is whole is   *)
(* what the script says of itself.  A script says it if it looks at the    *)
(* answer to the APDU that completes the COS, and sends nothing after it.  *)
(***************************************************************************)
Recovery == Commands(RcvFile, Chip)

\* Command k completes the COS, and j is the ASSERT that looks at its answer.
Completes(k, j) ==
  /\ k < j
  /\ Recovery[k].t = "APDU"
  /\ Recovery[k].a[2] # 1 /\ Recovery[k].a[2] = Recovery[k].a[3]
  /\ Recovery[j].t = "ASSERT" /\ Recovery[j].a = Sw9000
  /\ \A i \in 1..Len(Recovery) :
       i > k => Recovery[i].t # "APDU" /\ (i < j => Recovery[i].t # "ASSERT")

RecoveryAsserted ==
  RcvFile = NoFile \/ \E k, j \in 1..Len(Recovery) : Completes(k, j)

\* From the completing APDU to its ASSERT: either the COS is complete or the
\* ASSERT will see that it is not.
CompletedOrSeen(k, j) ==
  pos > k => cos.whole \/ (pos <= j /\ doChk /\ rsp # Sw9000)

ExecOK ==
  pc = "exec" /\ rcv =>
    /\ RcvFile # NoFile /\ script = Recovery
    /\ status = "SUCCESS" /\ ~lateKill =>
         \A k, j \in 1..Len(Recovery) : Completes(k, j) => CompletedOrSeen(k, j)

\* A thread that is not to stop goes on until it has given its result.
KillOK ==
  /\ up \in {"created", "waiting"} => ~lateKill
  /\ pc \in {"open", "version", "compare", "close"} \cup Steps /\ ~lateKill => g_threadRunning

SaysRecovered ==
  \/ pc = "recovered" /\ status = "SUCCESS"
  \/ "COS_RCV_SUCCESS" \in {status, resStatus, result}

RecoveryInv ==
  /\ pos \in Nat \ {0}
  /\ up # "idle" => result = "none"
  /\ pc \in {"none", "begin", "ended"} => status = "FAILED"
  /\ pc \in {"open", "version", "compare", "limit", "write", "start", "exec",
             "reopen", "check", "recovered"} => status # "COS_RCV_SUCCESS"
  /\ pc = "recovered" => rcv
  /\ KillOK /\ ExecOK
  /\ SaysRecovered /\ ~lateKill => cos.whole

LEMMA RecoveryInit == Init => RecoveryInv
BY DEF Init, RecoveryInv, KillOK, ExecOK, SaysRecovered, Steps

\* The caller can only stop the thread, and hand on what it said.
LEMMA CallerKeepsRecovery ==
  PatchInv /\ RecoveryInv /\ (StartThread \/ Caller \/ SpuriousWake \/ Tick \/ Writeback)
  => RecoveryInv'
<1> SUFFICES ASSUME PatchInv, RecoveryInv,
                    StartThread \/ Caller \/ SpuriousWake \/ Tick \/ Writeback
             PROVE RecoveryInv'
  OBVIOUS
<1> USE DEF PatchInv, CallerOK, RecoveryInv, KillOK, ExecOK, SaysRecovered, CompletedOrSeen,
            Steps, exec, thread, ghosts
<1>1. CASE StartThread
  BY <1>1 DEF StartThread
<1>2. CASE TimedWait
  BY <1>2 DEF TimedWait
<1>3. CASE TimedOut
  BY <1>3 DEF TimedOut
<1>4. CASE Joined
  BY <1>4 DEF Joined, Finish
<1>5. CASE Woken
  BY <1>5 DEF Woken, Finish
<1>6. CASE Tick \/ Writeback
  BY <1>6 DEF Tick, Writeback, caller
<1>7. CASE SpuriousWake
  BY <1>7 DEF SpuriousWake
<1> QED
  BY <1>1, <1>2, <1>3, <1>4, <1>5, <1>6, <1>7 DEF Caller

LEMMA DeathKeepsRecovery == PatchInv /\ (ProcessDies \/ PowerFails) => RecoveryInv'
<1> SUFFICES ASSUME PatchInv, ProcessDies \/ PowerFails PROVE RecoveryInv'
  OBVIOUS
<1>1. PICK d : Dies(d)
  BY DeathLeaves DEF PatchInv
<1> QED
  BY <1>1 DEF Dies, FromTheStart, RecoveryInv, KillOK, ExecOK, SaysRecovered, Steps

\* Before and between the scripts the thread says nothing.
LEMMA ThreadPrepares ==
  PatchInv /\ RecoveryInv /\ (SetThreadRunning \/ OpenBasicChannel \/ GetSeCosVerFromChip
     \/ CompareVersions \/ CheckLimit \/ WriteDataFile \/ Reopen \/ ChkRes)
  => RecoveryInv'
<1> SUFFICES ASSUME PatchInv, RecoveryInv,
                    SetThreadRunning \/ OpenBasicChannel \/ GetSeCosVerFromChip
                      \/ CompareVersions \/ CheckLimit \/ WriteDataFile
                      \/ Reopen \/ ChkRes
             PROVE RecoveryInv'
  OBVIOUS
<1> USE DEF PatchInv, CallerOK, RecoveryInv, KillOK, ExecOK, SaysRecovered, Steps, Goto, exec,
            caller, ghosts
<1>1. CASE SetThreadRunning
  BY <1>1 DEF SetThreadRunning
<1>2. CASE OpenBasicChannel
  BY <1>2 DEF OpenBasicChannel
<1>3. CASE GetSeCosVerFromChip
  BY <1>3 DEF GetSeCosVerFromChip
<1>4. CASE CompareVersions
  BY <1>4 DEF CompareVersions
<1>5. CASE CheckLimit
  BY <1>5 DEF CheckLimit, AfterScript
<1>6. CASE WriteDataFile
  BY <1>6 DEF WriteDataFile
<1>7. CASE Reopen
  BY <1>7 DEF Reopen
<1>8. CASE ChkRes
  BY <1>8 DEF ChkRes
<1> QED
  BY <1>1, <1>2, <1>3, <1>4, <1>5, <1>6, <1>7, <1>8

LEMMA ScriptBegins == PatchInv /\ RecoveryInv /\ VtpDownload => RecoveryInv'
<1> SUFFICES ASSUME PatchInv, RecoveryInv, VtpDownload PROVE RecoveryInv'
  OBVIOUS
<1> USE DEF VtpDownload, PatchInv, CallerOK, RecoveryInv, KillOK, SaysRecovered, Steps, caller
<1>1. CASE Script = NoFile
  BY <1>1 DEF AfterScript, ExecOK, exec
<1>2. CASE Script # NoFile
  <2>1. pos' = 1 /\ pc' = "exec" /\ status' = "SUCCESS" /\ UNCHANGED rcv
    BY <1>2 DEF FromTheStart
  <2>2. rcv => RcvFile # NoFile /\ script' = Recovery
    BY <1>2 DEF Script, Recovery
  <2>3. ExecOK'
    BY <2>1, <2>2 DEF ExecOK, CompletedOrSeen
  <2> QED
    BY <2>1, <2>3
<1> QED
  BY <1>1, <1>2

\* A command leaves the thread in its script, and nothing has been said yet.
LEMMA CommandKeeps ==
  ASSUME PatchInv, RecoveryInv, pc = "exec",
         UNCHANGED <<caller, pc, g_threadRunning, rcv, script, ghosts>>,
         pos' \in {pos, pos + 1}, status' # "COS_RCV_SUCCESS",
         \A k, j \in 1..Len(Recovery) :
           rcv /\ script = Recovery /\ status' = "SUCCESS" /\ ~lateKill /\ Completes(k, j)
           => CompletedOrSeen(k, j)'
  PROVE  RecoveryInv'
<1>1. resStatus = "FAILED" /\ result \in {"none", "FAILED"}
  BY DEF PatchInv, CallerOK, RecoveryInv
<1>2. pos' \in Nat \ {0} /\ KillOK'
  BY DEF RecoveryInv, KillOK, Steps, caller, ghosts
<1>3. ExecOK'
  BY DEF RecoveryInv, ExecOK, ghosts
<1>4. ~SaysRecovered'
  BY <1>1 DEF SaysRecovered, caller
<1> QED
  BY <1>1, <1>2, <1>3, <1>4 DEF RecoveryInv, caller

LEMMA ApduKeepsRecovery == PatchInv /\ RecoveryInv /\ ExecApdu => RecoveryInv'
<1> SUFFICES ASSUME PatchInv, RecoveryInv, ExecApdu PROVE RecoveryInv'
  OBVIOUS
<1>1. PICK r \in {Sw9000, "6504", "6A80", "none"} : Apdu(r)
  BY DEF ExecApdu
<1>2. pc = "exec" /\ status = "SUCCESS" /\ pos \in 1..Len(script) /\ script[pos].t = "APDU"
  BY <1>1 DEF Apdu, Running, RecoveryInv
<1>3. /\ UNCHANGED <<caller, pc, g_threadRunning, rcv, script, ghosts>>
      /\ pos' \in {pos, pos + 1} /\ status' # "COS_RCV_SUCCESS"
  BY <1>1, <1>2 DEF Apdu, Tried, AfterApdu
<1>4. ASSUME NEW k \in 1..Len(Recovery), NEW j \in 1..Len(Recovery),
             rcv, script = Recovery, ~lateKill, Completes(k, j), pos' > k
      PROVE  cos'.whole \/ (pos' <= j /\ doChk' /\ rsp' # Sw9000)
  <2>1. pos <= k /\ k < j /\ k \in Nat /\ j \in Nat /\ pos \in Nat
    BY <1>2, <1>4 DEF Completes, RecoveryInv
  <2>2. pos = k /\ pos' = pos + 1 /\ pos' <= j
    BY <1>3, <1>4, <2>1
  <2>3. g_threadRunning
    BY <1>2, <1>4 DEF RecoveryInv, KillOK, Steps
  <2>4. CASE r = Sw9000 /\ cos' = Executed(script[pos].a)
    <3>1. script[pos].a[2] # 1 /\ script[pos].a[2] = script[pos].a[3]
      BY <1>4, <2>2 DEF Completes
    <3>2. "whole" \in DOMAIN cos
      BY DEF PatchInv, WorldOK
    <3>3. cos'.whole = (script[pos].a[2] = script[pos].a[3])
      BY <2>4, <3>1, <3>2 DEF Executed
    <3> QED
      BY <3>1, <3>3
  <2>5. CASE r # Sw9000 /\ Tried(AfterApdu("FAILED", r, doChk))
    BY <2>2, <2>5 DEF Tried, AfterApdu
  <2> QED
    BY <1>1, <2>1, <2>2, <2>3, <2>4, <2>5 DEF Apdu, Sw9000
<1> QED
  BY <1>2, <1>3, <1>4, CommandKeeps DEF CompletedOrSeen

LEMMA OtherKeepsRecovery == PatchInv /\ RecoveryInv /\ ExecOther => RecoveryInv'
<1> SUFFICES ASSUME PatchInv, RecoveryInv, ExecOther PROVE RecoveryInv'
  OBVIOUS
<1>1. pc = "exec" /\ status = "SUCCESS" /\ pos \in 1..Len(script) /\ script[pos].t # "APDU"
  BY DEF ExecOther, Running, RecoveryInv
<1>2. /\ UNCHANGED <<caller, pc, g_threadRunning, rcv, script, ghosts, cos>>
      /\ pos' = pos + 1 /\ status' # "COS_RCV_SUCCESS"
  BY <1>1, RefusedFails DEF ExecOther, Tried, AfterAssert, AfterNothing
<1>3. ASSUME NEW k \in 1..Len(Recovery), NEW j \in 1..Len(Recovery),
             rcv, script = Recovery, ~lateKill, Completes(k, j), pos' > k,
             status' = "SUCCESS"
      PROVE  cos'.whole \/ (pos' <= j /\ doChk' /\ rsp' # Sw9000)
  <2>1. pos # k /\ pos > k /\ k < j /\ k \in Nat /\ j \in Nat /\ pos \in Nat
    BY <1>1, <1>2, <1>3 DEF Completes, RecoveryInv
  <2>2. cos.whole \/ (pos <= j /\ doChk /\ rsp # Sw9000)
    BY <1>1, <1>3, <2>1 DEF RecoveryInv, ExecOK, CompletedOrSeen
  <2>3. CASE pos < j
    <3>1. script[pos].t # "ASSERT"
      BY <1>1, <1>3, <2>1, <2>3 DEF Completes
    <3>2. rsp' = rsp /\ doChk' = doChk
      <4>1. \/ \E after \in RefusedNci : Tried(after)
            \/ Tried(AfterNothing(rsp, doChk))
        BY <3>1 DEF ExecOther
      <4>2. \A after \in RefusedNci : ~Tried(after)
        BY <1>3, RefusedFails DEF Tried
      <4> QED
        BY <4>1, <4>2 DEF Tried, AfterNothing
    <3> QED
      BY <1>2, <2>1, <2>2, <2>3, <3>2
  <2>4. CASE pos = j
    <3>1. script[pos].t = "ASSERT" /\ script[pos].a = Sw9000
      BY <1>3, <2>4 DEF Completes
    <3>2. Tried(AfterAssert(Sw9000, rsp, doChk))
      BY <3>1 DEF ExecOther, NciExecuted
    <3>3. ~(doChk /\ rsp # Sw9000)
      BY <1>3, <3>2 DEF Tried, AfterAssert, AssertHolds, Sw9000
    <3> QED
      BY <1>2, <2>2, <3>3
  <2>5. CASE pos > j
    BY <1>2, <2>2, <2>5, <2>1
  <2> QED
    BY <2>1, <2>3, <2>4, <2>5
<1> QED
  BY <1>1, <1>2, <1>3, CommandKeeps DEF CompletedOrSeen

\* A script that ends in success has passed its last ASSERT.
LEMMA EndKeepsRecovery ==
  RecoveryAsserted /\ PatchInv /\ RecoveryInv /\ ScriptEnds => RecoveryInv'
<1> SUFFICES ASSUME RecoveryAsserted, PatchInv, RecoveryInv, ScriptEnds PROVE RecoveryInv'
  OBVIOUS
<1>1. /\ pc = "exec" /\ ~Running
      /\ UNCHANGED <<caller, g_threadRunning, rcv, script, ghosts, cos>>
  BY DEF ScriptEnds, exec
<1>2. resStatus = "FAILED" /\ result \in {"none", "FAILED"}
  BY <1>1 DEF PatchInv, CallerOK, RecoveryInv
<1>3. CASE OtherKey
  <2>1. pos' = 1 /\ pc' = "exec" /\ status' = "SUCCESS"
    BY <1>1, <1>3 DEF ScriptEnds, FromTheStart
  <2>2. ExecOK'
    BY <1>1, <2>1 DEF RecoveryInv, ExecOK, CompletedOrSeen
  <2>3. KillOK'
    BY <1>1, <2>1 DEF RecoveryInv, KillOK, Steps, caller, ghosts
  <2>4. ~SaysRecovered'
    BY <1>1, <1>2, <2>1 DEF SaysRecovered, caller
  <2> QED
    BY <1>1, <1>2, <2>1, <2>2, <2>3, <2>4 DEF RecoveryInv, caller
<1>4. CASE ~OtherKey
  <2>1. pc' = AfterScript /\ UNCHANGED <<status, pos>>
    BY <1>4 DEF ScriptEnds, exec
  <2>2. rcv /\ status = "SUCCESS" /\ ~lateKill => cos.whole
    <3> SUFFICES ASSUME rcv, status = "SUCCESS", ~lateKill PROVE cos.whole
      OBVIOUS
    <3>1. RcvFile # NoFile /\ script = Recovery
      BY <1>1 DEF RecoveryInv, ExecOK
    <3>2. PICK k, j \in 1..Len(Recovery) : Completes(k, j)
      BY <3>1 DEF RecoveryAsserted
    <3>3. pos > Len(Recovery)
      <4>1. ~(pos <= Len(Recovery))
        BY <1>1, <3>1 DEF Running
      <4> QED
        BY <3>2, <4>1 DEF RecoveryInv
    <3>4. CompletedOrSeen(k, j)
      BY <1>1, <3>2 DEF RecoveryInv, ExecOK
    <3> QED
      BY <3>2, <3>3, <3>4 DEF CompletedOrSeen, RecoveryInv
  <2>3. status # "COS_RCV_SUCCESS"
    BY <1>1 DEF RecoveryInv
  <2>4. KillOK'
    BY <1>1, <2>1 DEF AfterScript, RecoveryInv, KillOK, Steps, caller, ghosts
  <2>5. SaysRecovered' /\ ~lateKill' => cos'.whole
    BY <1>1, <1>2, <2>1, <2>2, <2>3 DEF SaysRecovered, AfterScript, caller, ghosts
  <2> QED
    BY <1>1, <1>2, <2>1, <2>3, <2>4, <2>5 DEF AfterScript, RecoveryInv, ExecOK, caller
<1> QED
  BY <1>3, <1>4

LEMMA ThreadSays ==
  PatchInv /\ RecoveryInv /\ (Recovered \/ EndThread \/ CondSignal) => RecoveryInv'
<1> SUFFICES ASSUME PatchInv, RecoveryInv, Recovered \/ EndThread \/ CondSignal
             PROVE RecoveryInv'
  OBVIOUS
<1> USE DEF PatchInv, CallerOK, RecoveryInv, KillOK, ExecOK, SaysRecovered, Steps, Goto, exec,
            caller, ghosts
<1>1. CASE Recovered
  BY <1>1 DEF Recovered
<1>2. CASE EndThread
  BY <1>2 DEF EndThread, FromTheStart
<1>3. CASE CondSignal
  BY <1>3 DEF CondSignal
<1> QED
  BY <1>1, <1>2, <1>3

LEMMA RecoveryStep ==
  RecoveryAsserted /\ PatchInv /\ RecoveryInv /\ [Next]_vars => RecoveryInv'
<1> SUFFICES ASSUME RecoveryAsserted, PatchInv, RecoveryInv, [Next]_vars PROVE RecoveryInv'
  OBVIOUS
<1>1. CASE UNCHANGED vars
  BY <1>1 DEF vars, caller, thread, exec, ghosts, RecoveryInv, KillOK, ExecOK, SaysRecovered,
              CompletedOrSeen
<1>2. CASE Thread
  BY <1>2, ThreadPrepares, ScriptBegins, ApduKeepsRecovery, OtherKeepsRecovery,
     EndKeepsRecovery, ThreadSays DEF Thread
<1> QED
  BY <1>1, <1>2, CallerKeepsRecovery, DeathKeepsRecovery DEF Next

\* If the recovery script looks at the answer to the APDU that completes the
\* COS, a recovery that reports success in time has left a complete COS:
\* whatever was lost, refused or tried again with the other key, whenever the
\* wait returned and whenever the process died or the power failed.
THEOREM RecoveredIsWhole == RecoveryAsserted => (Spec => []RecoveredInTimeIsWhole)
<1> SUFFICES ASSUME RecoveryAsserted PROVE Spec => []RecoveredInTimeIsWhole
  OBVIOUS
<1>1. PatchInv /\ RecoveryInv /\ [Next]_vars => RecoveryInv'
  BY RecoveryStep
<1>2. RecoveryInv => RecoveredInTimeIsWhole
  BY DEF RecoveryInv, SaysRecovered, RecoveredInTimeIsWhole
<1> QED
  BY <1>1, <1>2, RecoveryInit, PatchAlways, PTL DEF Spec

===============================================================================
