------------------------------- MODULE CosPatch -------------------------------
(***************************************************************************)
(* The patch download for the COS of the secure element                    *)
(* (tms-cos-dl-common/tmsCosPthDl.cpp, tmsDlCommonUtils.cpp).              *)
(*                                                                         *)
(* The caller of eseCosDlPth starts a download thread and waits for its    *)
(* signal, at most 60 seconds; then it sends SIGINT, whose handler clears  *)
(* g_threadRunning in the thread and makes its read return, and joins it.  *)
(* The thread compares versions, runs the script of the patch, looks at    *)
(* the version again and, if that is not what it should be, runs the       *)
(* recovery script.  Every run of a script is counted in a file, and too   *)
(* many in a period are refused.                                           *)
(*                                                                         *)
(* The process may die and the power fail at any point: the memory of the  *)
(* process is gone, the chip keeps what it has.  The file is as the        *)
(* process left it, or, after a power failure, as far as the kernel had    *)
(* written it.  Of the file all is read and written, or nothing.           *)
(*                                                                         *)
(* The wait for the signal may return by itself, with the thread running.  *)
(* Until that thread has ended no other call is made here.                 *)
(***************************************************************************)
EXTENDS DlScript, TLC

CONSTANTS
  PatchFiles,         \* what may be installed: [bin, lines] of the patch
  RcvFile,            \* and its recovery script
  ChipBase, BaseVer,  \* the base COS of the chip, as a block and as a version
  HeadLines,          \* lines in the first 2000 bytes of a script
  VerChkDiff,         \* COS_PTH_VER_CHK_DIFF: any other patch, not only a newer one
  ErasureProtection,  \* TMS_NFCC_ERASURE_PROTECTION
  ShortTime, LongTime, ShortCount, LongCount,  \* COS_PTH_DL_*_LIMIT
  MaxTime,            \* bound: the clock
  MaxCrashes          \* bound: deaths of the process and power failures

ASSUME CosPatchAssumption ==
  /\ VerChkDiff \in BOOLEAN /\ ErasureProtection \in BOOLEAN
  /\ ShortTime \in Nat \ {0} /\ LongTime \in Nat /\ LongTime > ShortTime
  /\ ShortCount \in Nat \ {0} /\ LongCount \in Nat /\ LongCount >= ShortCount
  /\ MaxTime \in Nat /\ MaxTime > LongTime /\ MaxCrashes \in Nat

VARIABLES
  \* the caller
  up,            \* where eseCosDlPth is
  memory,        \* cond, mutex, rsp and pResStatus exist
  resStatus,     \* *pResStatus
  result,        \* what the last call returned
  property,      \* PROP_KEY_SECOS_DL_STATE
  \* the download thread
  pc, g_threadRunning,
  channel,       \* openBasicChannel succeeded
  status, chipVer, vtpVer,
  rcv,           \* it is the recovery script that runs
  script,        \* the commands being executed, and how far
  pos, count, doChk, preAuth, toggled,
  rsp,           \* the response buffer (see DlScript)
  \* the counters
  dlData,        \* g_cosPthDLData
  dataRead,      \* g_seDlDataRead
  dataFile,      \* VTP_DL_SE_DATA_STORAGE_FILE
  stored,        \* what of it has reached the storage
  now,
  \* installed files and the chip
  file, cos,
  \* ghosts
  wanted,        \* the version the patch has for this chip
  lateKill,      \* the thread was told to stop during this call
  spurious,      \* the wait of this call returned by itself
  runs,          \* scripts run at each time, since the counters were last lost
  crashes

caller  == <<up, memory, resStatus, result, property>>
thread  == <<pc, channel, status, chipVer, vtpVer>>
exec    == <<rcv, script, pos, count, doChk, preAuth, toggled>>
limits  == <<dlData, dataRead, dataFile, stored, now>>
ghosts  == <<lateKill, spurious, runs, crashes>>
installed == <<file, wanted>>
vars    == <<caller, thread, g_threadRunning, exec, rsp, limits, installed, cos, ghosts>>

NoData == [startLong |-> 0, startShort |-> 0, short |-> 0, long |-> 0]
NoFile == [bin |-> TRUE, lines |-> <<>>]
Times  == (LongTime + 1)..MaxTime
NoRuns == [t \in Times |-> 0]
Chip   == [base |-> ChipBase, key |-> "T", kind |-> "EC1"]

\* A patch has a version of its own: an incomplete COS cannot show it.
ASSUME PatchAssumption ==
  \A f \in PatchFiles : f # NoFile => GetCosVerFromVtp(f, Chip, HeadLines) # BaseVer

(***************************************************************************)
(* The chip (external): it executes the commands of a script in order.  An *)
(* APDU is <<script, number, last>>; the first one authenticates, the      *)
(* second makes the COS incomplete, the last one completes it, and one     *)
(* that comes out of order is refused.                                     *)
(***************************************************************************)
Accepts(a) == a[2] = 1 \/ (cos.script = a[1] /\ cos.next = a[2])

Executed(a) ==
  [cos EXCEPT !.script = a[1], !.next = a[2] + 1,
              !.whole  = IF a[2] = 1 THEN @ ELSE a[2] = a[3],
              !.patch  = IF a[2] > 1 /\ a[2] = a[3] THEN a[1] ELSE @]

\* An incomplete COS shows the base version or none at all.
Reported == IF cos.whole THEN {cos.patch} ELSE {BaseVer, InvalidVer}

\* A version is base * 10 + patch.
Master(v) == v \div 10

(***************************************************************************)
(* Initial state.                                                          *)
(***************************************************************************)
Init ==
  /\ up = "idle" /\ memory = FALSE /\ resStatus = "FAILED"
  /\ result = "none" /\ property = "none"
  /\ pc = "none" /\ g_threadRunning = FALSE /\ channel = FALSE
  /\ status = "FAILED" /\ chipVer = InvalidVer /\ vtpVer = InvalidVer
  /\ rcv = FALSE /\ script = <<>> /\ pos = 1 /\ count = 0 /\ doChk = FALSE
  /\ preAuth = FALSE /\ toggled = FALSE /\ rsp = "none"
  /\ dlData = NoData /\ dataRead = FALSE /\ dataFile = NoData /\ stored = NoData
  /\ now = LongTime + 1
  /\ file \in PatchFiles /\ wanted = GetCosVerFromVtp(file, Chip, HeadLines)
  /\ cos = [patch |-> BaseVer, whole |-> TRUE, script |-> 0, next |-> 0]
  /\ lateKill = FALSE /\ spurious = FALSE /\ runs = NoRuns /\ crashes = 0

(***************************************************************************)
(* The caller: eseCosDlPth and startThread.                                *)
(***************************************************************************)
StartThread ==
  /\ up = "idle" /\ pc = "none"
  /\ up' = "created" /\ memory' = TRUE
  /\ resStatus' = "FAILED" /\ result' = "none" /\ property' = "downloading"
  /\ pc' = "begin" /\ rsp' = "none" /\ lateKill' = FALSE /\ spurious' = FALSE
  /\ UNCHANGED <<g_threadRunning, channel, status, chipVer, vtpVer, exec, limits,
                 installed, cos, runs, crashes>>

\* The mutex is taken and the condition waited for after the thread has
\* been created, and without a predicate: a signal sent before is lost.
TimedWait ==
  /\ up = "created"
  /\ up' = "waiting"
  /\ UNCHANGED <<memory, resStatus, result, property, thread, g_threadRunning,
                 exec, rsp, limits, installed, cos, ghosts>>

\* The wait may also return with neither signal nor timeout.
SpuriousWake ==
  /\ up = "waiting"
  /\ up' = "woken" /\ spurious' = TRUE
  /\ UNCHANGED <<memory, resStatus, result, property, thread, g_threadRunning, exec, rsp,
                 limits, installed, cos, lateKill, runs, crashes>>

\* Mutant of TimedOut: when the thread cannot be killed any more, the wait
\* for its signal goes on.
TimedOutWaitsOn ==
  /\ up = "waiting" /\ pc # "begin"
  /\ up' = IF pc = "ended" THEN "waiting" ELSE "joining"
  /\ g_threadRunning' = FALSE
  /\ lateKill' = (pc # "ended")
  /\ UNCHANGED <<memory, resStatus, result, property, thread, exec, rsp, limits,
                 installed, cos, spurious, runs, crashes>>

\* 60 seconds are over: pthread_kill.  ThreadExitHandler runs in the
\* thread, unless it has ended.
TimedOut ==
  /\ up = "waiting" /\ pc # "begin"
  /\ up' = "joining"
  /\ g_threadRunning' = FALSE
  /\ lateKill' = (pc # "ended")
  /\ UNCHANGED <<memory, resStatus, result, property, thread, exec, rsp, limits,
                 installed, cos, spurious, runs, crashes>>

\* startThread returned ret; the result is taken and everything given back.
Finish(ret) ==
  LET dlRes == ret /\ resStatus = "SUCCESS" /\ rsp = Sw9000 IN
  /\ up' = "idle" /\ memory' = FALSE
  /\ result' = resStatus
  /\ property' = IF dlRes THEN "success" ELSE "failure"
  /\ UNCHANGED <<resStatus, channel, status, chipVer, vtpVer, g_threadRunning,
                 exec, rsp, limits, installed, cos, ghosts>>

\* Mutant of Joined: the result is taken without waiting.
JoinedAtOnce == up = "joining" /\ UNCHANGED pc /\ Finish(FALSE)

\* pthread_join: the thread has ended.
Joined ==
  /\ up = "joining" /\ pc = "ended"
  /\ pc' = "none"
  /\ Finish(FALSE)

\* The thread is detached.  After its signal it has nothing more to do than to
\* unlock the mutex; before, it goes on without its operands.
Woken ==
  /\ up = "woken"
  /\ pc' = IF pc = "ended" THEN "none" ELSE pc
  /\ Finish(TRUE)

(***************************************************************************)
(* The download thread: VtpDownloadPthThread and vtpDlPatch.               *)
(***************************************************************************)
Goto(here, there) == pc = here /\ pc' = there

SetThreadRunning ==
  /\ Goto("begin", "open")
  /\ g_threadRunning' = TRUE
  /\ UNCHANGED <<caller, channel, status, chipVer, vtpVer, exec, rsp, limits, installed, cos, ghosts>>

OpenBasicChannel ==
  /\ pc = "open"
  /\ status' = "FAILED"
  /\ \/ channel' = TRUE /\ pc' = "version"
     \/ channel' = FALSE /\ pc' = "close"
  /\ UNCHANGED <<caller, chipVer, vtpVer, g_threadRunning, exec, rsp, limits, installed, cos, ghosts>>

\* GetSeCosVerFromChip: three APDUs; what it reads and what it leaves in
\* the response buffer.  A thread told to stop sends nothing.
VersionsRead ==
  IF g_threadRunning
    THEN {<<InvalidVer, r>> : r \in {"none", "6A80", Sw9000}} \cup
         {<<v, Sw9000>> : v \in IF channel THEN Reported ELSE {}}
    ELSE {<<InvalidVer, rsp>>}

GetSeCosVerFromChip ==
  \E vr \in VersionsRead :
    /\ Goto("version", "compare")
    /\ chipVer' = vr[1] /\ rsp' = vr[2]
    /\ UNCHANGED <<caller, channel, status, vtpVer, g_threadRunning, exec, limits, installed, cos, ghosts>>

Differs(vtp, chip) ==
  /\ vtp # InvalidVer /\ Master(vtp) = Master(chip)
  /\ vtp > chip \/ (vtp # chip /\ VerChkDiff)

CompareVersions ==
  LET vtp == IF file = NoFile THEN InvalidVer ELSE GetCosVerFromVtp(file, Chip, HeadLines)
      upToDate == chipVer # InvalidVer /\ (file = NoFile \/ vtp = chipVer) IN
  /\ pc = "compare"
  /\ vtpVer' = vtp
  /\ IF chipVer # InvalidVer /\ Differs(vtp, chipVer)
       THEN pc' = "limit" /\ UNCHANGED status
       ELSE pc' = "close" /\ status' = IF upToDate THEN "SUCCESS" ELSE "FAILED"
  /\ UNCHANGED <<caller, channel, chipVer, g_threadRunning, exec, rsp, limits, installed, cos, ghosts>>

(***************************************************************************)
(* vtpDownload: the limit first.                                           *)
(***************************************************************************)
\* ReadVtpDownloadData: once in the life of the process.
Recorded == IF dataRead THEN dlData ELSE dataFile

\* Counters other than these are a loss.
KnownTo(d) == IF d = Recorded THEN runs ELSE NoRuns

LongOver(d)  == now - d.startLong > LongTime
ShortOver(d) == now - d.startShort > ShortTime
IsVtpDownloadExcess(d) ==
  /\ ~LongOver(d)
  /\ d.long >= LongCount \/ (~ShortOver(d) /\ d.short >= ShortCount)

\* Mutant of Counted: only what opens a period is counted.
CountedOnOpening(d) ==
  CASE LongOver(d)  -> [startLong |-> now, startShort |-> now, short |-> 1, long |-> 1]
    [] ~LongOver(d) /\ ShortOver(d) ->
         [d EXCEPT !.startShort = now, !.short = 1, !.long = @ + 1]
    [] OTHER -> d

Counted(d) ==
  CASE LongOver(d)  -> [startLong |-> now, startShort |-> now, short |-> 1, long |-> 1]
    [] ~LongOver(d) /\ ShortOver(d) ->
         [d EXCEPT !.startShort = now, !.short = 1, !.long = @ + 1]
    [] OTHER -> [d EXCEPT !.short = @ + 1, !.long = @ + 1]

AfterScript == IF rcv THEN "recovered" ELSE "reopen"

\* The counters are taken from the file, or are zero if it cannot be read, and
\* counted on; UpdateVtpDownloadData opens the file with O_TRUNC and then
\* writes it, and goes on whether or not it could.
CheckLimit ==
  /\ pc = "limit"
  /\ IF ~ErasureProtection
       THEN pc' = "start" /\ UNCHANGED <<status, dlData, dataRead, dataFile, runs>>
       ELSE \E d \in {Recorded} \cup IF dataRead THEN {} ELSE {NoData} :
              /\ dataRead' = TRUE /\ runs' = KnownTo(d)
              /\ IF IsVtpDownloadExcess(d)
                   THEN /\ pc' = AfterScript /\ status' = "DOWNLOAD_EXCESS" /\ dlData' = d
                        /\ UNCHANGED dataFile
                   ELSE /\ dlData' = Counted(d) /\ UNCHANGED status
                        /\ \/ pc' = "write" /\ dataFile' = NoData
                           \/ pc' = "start" /\ UNCHANGED dataFile
  /\ UNCHANGED <<caller, channel, chipVer, vtpVer, g_threadRunning, exec, rsp,
                 stored, now, installed, cos, lateKill, spurious, crashes>>

WriteDataFile ==
  /\ Goto("write", "start")
  /\ dataFile' \in {dlData, dataFile}
  /\ UNCHANGED <<caller, channel, status, chipVer, vtpVer, g_threadRunning, exec, rsp,
                 dlData, dataRead, stored, now, installed, cos, ghosts>>

(***************************************************************************)
(* Then the script: vtpBinDownload, vtpTxtDownload, execBinCmds.           *)
(***************************************************************************)
Script == IF rcv THEN RcvFile ELSE file

FromTheStart == pos' = 1 /\ count' = 0 /\ doChk' = FALSE /\ preAuth' = FALSE

VtpDownload ==
  /\ pc = "start"
  /\ IF Script = NoFile
       THEN pc' = AfterScript /\ status' = "FAILED" /\ UNCHANGED <<exec, runs>>
       ELSE /\ pc' = "exec" /\ status' = "SUCCESS"
            /\ script' = Commands(Script, Chip)
            /\ FromTheStart /\ toggled' = FALSE /\ UNCHANGED rcv
            /\ runs' = [runs EXCEPT ![now] = @ + 1]
  /\ UNCHANGED <<caller, channel, chipVer, vtpVer, g_threadRunning, rsp, limits, installed, cos,
                 lateKill, spurious, crashes>>

Running == pc = "exec" /\ status = "SUCCESS" /\ pos <= Len(script)

\* What tryExecCmd made of a command (see DlScript).
Tried(after) ==
  /\ status' = after.status /\ rsp' = after.rsp /\ doChk' = after.doChk
  /\ pos' = pos + 1 /\ count' = 0
  /\ preAuth' = IF script[pos].t = "ASSERT" THEN preAuth
                ELSE script[pos].t = "APDU" /\ script[pos].a[2] = 1
  /\ UNCHANGED <<pc, rcv, script, toggled>>

\* One turn of execApduCmdChkRes.
Apdu(r) ==
  /\ Running /\ script[pos].t = "APDU"
  /\ LET a == script[pos].a IN
       \* told to stop: before the first try it is an error, after a try the
       \* status of that try; the buffer keeps what it has
     \/ /\ ~g_threadRunning /\ r = rsp
        /\ Tried(AfterApdu(IF count = 0 THEN "INVALID_PARAMETER" ELSE "SUCCESS", rsp, doChk))
        /\ UNCHANGED cos
     \/ /\ g_threadRunning /\ r = Sw9000 /\ channel
        /\ Accepts(a) /\ cos' = Executed(a)
        /\ Tried(AfterApdu("SUCCESS", r, doChk))
     \/ /\ g_threadRunning /\ r = "6504" /\ channel /\ count < 2
        /\ count' = count + 1
        /\ UNCHANGED <<pc, status, rsp, rcv, script, pos, doChk, preAuth, toggled, cos>>
     \/ /\ g_threadRunning /\ r \in {"6504", "6A80"} /\ channel
        /\ r = "6504" => count = 2
        /\ Tried(AfterApdu("FAILED", r, doChk)) /\ UNCHANGED cos
       \* no answer: the chip may have executed it
     \/ /\ g_threadRunning /\ r = "none"
        /\ Tried(AfterApdu("FAILED", r, doChk))
        /\ cos' \in {cos} \cup IF channel /\ Accepts(a) THEN {Executed(a)} ELSE {}
  /\ UNCHANGED <<caller, channel, chipVer, vtpVer, g_threadRunning, limits, installed, ghosts>>

ExecApdu == \E r \in {Sw9000, "6504", "6A80", "none"} : Apdu(r)

\* The COS knows no NCI command.
RefusedNci ==
  IF g_threadRunning
    THEN {[status |-> "FAILED", rsp |-> r, doChk |-> doChk] :
            r \in {"none"} \cup IF channel THEN {"6A80"} ELSE {}}
    ELSE {[status |-> "INVALID_PARAMETER", rsp |-> rsp, doChk |-> doChk]}

ExecOther ==
  /\ Running /\ script[pos].t # "APDU"
  /\ \/ script[pos].t = "ASSERT" /\ Tried(AfterAssert(script[pos].a, rsp, doChk))
     \/ NciExecuted(script[pos]) /\ \E after \in RefusedNci : Tried(after)
     \/ /\ script[pos].t # "ASSERT" /\ ~NciExecuted(script[pos])
        /\ Tried(AfterNothing(rsp, doChk))
  /\ UNCHANGED <<caller, channel, chipVer, vtpVer, g_threadRunning, limits, installed, cos, ghosts>>

\* A binary script that failed before its last command, after an AUTH, is
\* run once more with the other key.
OtherKey == Script.bin /\ pos <= Len(script) /\ preAuth /\ ~toggled

ScriptEnds ==
  /\ pc = "exec" /\ ~Running
  /\ IF OtherKey
       THEN status' = "SUCCESS" /\ toggled' = TRUE /\ FromTheStart /\ UNCHANGED <<pc, rcv, script>>
       ELSE pc' = AfterScript /\ UNCHANGED <<status, exec>>
  /\ UNCHANGED <<caller, channel, chipVer, vtpVer, g_threadRunning, rsp, limits, installed, cos, ghosts>>

(***************************************************************************)
(* What came of it: chkResAndTryRcv.                                       *)
(***************************************************************************)
\* closeChannel and openBasicChannel, whose result nobody looks at.
Reopen ==
  /\ Goto("reopen", "check")
  /\ channel' \in BOOLEAN
  /\ UNCHANGED <<caller, status, chipVer, vtpVer, g_threadRunning, exec, rsp, limits, installed, cos, ghosts>>

\* Mutant of IsPatched: the status of the script is believed.
IsPatchedIfItSaysSo(v) == status = "SUCCESS"

\* The version is read only after a script that reported success.
IsPatched(v) == status = "SUCCESS" /\ v = vtpVer

ChkRes ==
  /\ pc = "check"
  /\ \E vr \in IF status = "SUCCESS" THEN VersionsRead ELSE {<<InvalidVer, rsp>>} :
       /\ rsp' = vr[2]
       /\ IF IsPatched(vr[1]) THEN pc' = "close" /\ UNCHANGED rcv
                              ELSE pc' = "limit" /\ rcv' = TRUE
  /\ UNCHANGED <<caller, channel, status, chipVer, vtpVer, g_threadRunning, script, pos, count,
                 doChk, preAuth, toggled, limits, installed, cos, ghosts>>

Recovered ==
  /\ Goto("recovered", "close")
  /\ status' = IF status = "SUCCESS" THEN "COS_RCV_SUCCESS" ELSE "COS_RCV_FAILED"
  /\ UNCHANGED <<caller, channel, chipVer, vtpVer, g_threadRunning, exec, rsp, limits, installed, cos, ghosts>>

\* closeChannel, the result, SetThreadRunning(false); the locals are gone.
EndThread ==
  /\ Goto("close", "signal")
  /\ channel' = FALSE /\ resStatus' = status /\ g_threadRunning' = FALSE
  /\ chipVer' = InvalidVer /\ vtpVer' = InvalidVer
  /\ rcv' = FALSE /\ script' = <<>> /\ FromTheStart /\ toggled' = FALSE
  /\ UNCHANGED <<up, memory, result, property, status, rsp, limits, installed, cos, ghosts>>

\* A thread whose caller has gone is detached and ends here.
CondSignal ==
  /\ pc = "signal" /\ pc' = IF up = "idle" THEN "none" ELSE "ended"
  /\ up' = IF up = "waiting" THEN "woken" ELSE up
  /\ status' = "FAILED"
  /\ UNCHANGED <<memory, resStatus, result, property, channel, chipVer, vtpVer,
                 g_threadRunning, exec, rsp, limits, installed, cos, ghosts>>

(***************************************************************************)
(* The rest of the world.                                                  *)
(***************************************************************************)
\* The periods of the limit are minutes and days: the clock moves between
\* calls.
Tick ==
  /\ up = "idle" /\ pc = "none" /\ now < MaxTime
  /\ now' = now + 1
  /\ UNCHANGED <<caller, thread, g_threadRunning, exec, rsp, dlData, dataRead, dataFile, stored,
                 installed, cos, ghosts>>

\* Nobody calls fsync: the kernel writes the file when it likes to.
Writeback ==
  /\ stored # dataFile /\ stored' = dataFile
  /\ UNCHANGED <<caller, thread, g_threadRunning, exec, rsp, dlData, dataRead, dataFile, now,
                 installed, cos, ghosts>>

\* The process dies with its memory; what the next one will read is d.
Dies(d) ==
  /\ crashes < MaxCrashes
  /\ crashes' = crashes + 1 /\ dataFile' = d /\ runs' = KnownTo(d)
  /\ up' = "idle" /\ memory' = FALSE /\ resStatus' = "FAILED"
  /\ result' = "none" /\ property' = "none"
  /\ pc' = "none" /\ g_threadRunning' = FALSE /\ channel' = FALSE
  /\ status' = "FAILED" /\ chipVer' = InvalidVer /\ vtpVer' = InvalidVer
  /\ rcv' = FALSE /\ script' = <<>> /\ FromTheStart /\ toggled' = FALSE /\ rsp' = "none"
  /\ dlData' = NoData /\ dataRead' = FALSE /\ lateKill' = FALSE /\ spurious' = FALSE
  /\ UNCHANGED <<now, installed>>

\* Alone: a thread whose operands are gone may take it down, for one.
ProcessDies == Dies(dataFile) /\ UNCHANGED <<stored, cos>>

\* The storage has the file as it was, as it is, or truncated only.
PowerFails ==
  /\ \E d \in {stored, dataFile} \cup IF stored = dataFile THEN {} ELSE {NoData} :
       Dies(d) /\ stored' = d
  /\ cos' = [cos EXCEPT !.script = 0, !.next = 0]

Caller == TimedWait \/ TimedOut \/ Joined \/ Woken
Thread ==
  \/ SetThreadRunning \/ OpenBasicChannel \/ GetSeCosVerFromChip \/ CompareVersions
  \/ CheckLimit \/ WriteDataFile \/ VtpDownload
  \/ ExecApdu \/ ExecOther \/ ScriptEnds
  \/ Reopen \/ ChkRes \/ Recovered \/ EndThread \/ CondSignal

Next ==
  \/ StartThread \/ Caller \/ Thread \/ SpuriousWake
  \/ Tick \/ Writeback \/ ProcessDies \/ PowerFails

\* One of the two threads runs as long as one can: the wait is limited, and
\* every exchange with the chip ends, one way or another (T1Silent).
Spec == Init /\ [][Next]_vars /\ WF_vars(Caller \/ Thread)

(***************************************************************************)
(* Properties.                                                             *)
(***************************************************************************)
\* A call is over when its thread has ended too.
Over == up = "idle" /\ pc = "none"

Claim ==
  IF ~Over \/ result = "none" THEN "none"
  ELSE IF result = "SUCCESS" THEN "success" ELSE "failure"

Update == INSTANCE ChipUpdate
  WITH busy  <- ~Over,
       good  <- cos.whole /\ (file = NoFile \/ cos.patch = wanted),
       claim <- Claim

\* eseCosDlPth is an update of the chip as ChipUpdate promises it: the COS
\* changes only until its thread has ended, and a call that returns SUCCESS has left a
\* complete COS of the installed version, whatever was lost, retried, ignored
\* or stopped in between.  Scripts cannot be trusted to notice failures
\* (tryExecCmd turns every failed APDU into SUCCESS), the second look at the
\* version must (chkResAndTryRcv).
PatchUpdate == Update!Spec

\* "COS DL is failed, but recovery is successfull" (tmsCommon.h:56), for
\* calls that did not run into their timeout: the chip has a complete COS.
RecoveredInTimeIsWhole == result = "COS_RCV_SUCCESS" /\ ~lateKill => cos.whole

\* However the periods of the limit fall, a stretch of the length of one is
\* touched by two of them, and the run that opened the first lies before it.
\* Of the short ones a third can touch it: the end of a long period ends the
\* short one with it (tmsDlCommonUtils.cpp:1400-1405).  Restarts forget nothing
\* that the storage or the page cache has.  What they have lost, because the file
\* could not be opened, written or read or did not reach the storage
\* (tmsDlCommonUtils.cpp:1325-1336), the code cannot count: runs begins anew then.
RunsFrom(t, period) ==
  LET within == [u \in Times |-> IF t <= u /\ u <= t + period THEN runs[u] ELSE 0]
  IN FoldSet(LAMBDA u, sum : sum + within[u], 0, Times)

WithinLimit ==
  ErasureProtection =>
    \A t \in Times : RunsFrom(t, ShortTime) <= 3 * ShortCount - 1
                    /\ RunsFrom(t, LongTime) <= 2 * LongCount - 1

\* The thread works on operands of its caller's frame and with a condition
\* the caller deletes: they are there as long as the thread is, in every order
\* of signal, timeout, SIGINT and join.  Not so when the wait, which has no
\* predicate (tmsDlCommonUtils.cpp:1725), returned by itself.
OperandsOutliveThread == pc \notin {"none", "ended"} /\ ~spurious => memory

\* Every call ends: a thread that ends before it is waited for, one that is
\* told to stop, one that finishes in time.
CallReturns == up # "idle" ~> up = "idle"
===============================================================================
