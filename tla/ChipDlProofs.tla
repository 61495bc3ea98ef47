----------------------------- MODULE ChipDlProofs -----------------------------
(***************************************************************************)
(* Proofs about ChipDl, for any installed files, chips and number of       *)
(* refusals of the drivers, with both processes and their deaths: what a   *)
(* routine took of the T=1 library it has given back, a firmware download  *)
(* implements ChipUpdate, and the chip runs its firmware again.            *)
(***************************************************************************)
EXTENDS ChipDl, TLAPS

(***************************************************************************)
(* References.  The routines give back what they took on different ways    *)
(* out: each program counter has a limit, the same for every way there.    *)
(***************************************************************************)
NfcLimit ==
  IF nfc.pc \in {"idle", "open", "report"} THEN 0
  ELSE IF nfc.pc \in {"blInfo", "version", "deinit"} THEN 2
  ELSE IF nfc.pc = "script" /\ nfc.job # "bl" THEN 2
  ELSE IF nfc.pc = "choose" /\ nfc.isBl THEN 2
  ELSE 1

EseLimit ==
  IF ese.pc \in {"idle", "reset", "report"} THEN 0
  ELSE IF ese.pc \in {"version", "script", "jump", "close"} THEN 2
  ELSE IF ese.pc = "open" /\ ~ese.force THEN 0
  ELSE 1

NfcOK ==
  /\ DOMAIN nfc = DOMAIN Idle
  /\ nfc.job = "none" <=> nfc.pc = "idle"
  /\ nfc.pc \in {"open", "flush", "info"} => ~nfc.isBl
  /\ nfc.job = "fw" /\ nfc.pc \in {"init", "blInfo"} => nfc.isBl

EseOK == DOMAIN ese = DOMAIN EseIdle /\ (ese.pc = "hard" => ese.force)

RefsOK ==
  /\ refs \in [Processes -> Nat]
  /\ refs["nfc"] <= NfcLimit
  /\ refs["ese"] <= EseLimit

RefsInv == NfcOK /\ EseOK /\ RefsOK

\* What a step does to the references of one process, and nothing to those of
\* the other.
Counts(p, n) ==
  /\ refs' \in [Processes -> Nat] /\ refs'[p] = n
  /\ \A q \in Processes \ {p} : refs'[q] = refs[q]

LEMMA LibraryCounts ==
  ASSUME refs \in [Processes -> Nat], NEW p \in Processes, NEW ok \in BOOLEAN
  PROVE  /\ OpenT1(p, ok) => Counts(p, IF ok THEN refs[p] + 1 ELSE refs[p])
         /\ InitT1(p, ok) /\ ok => Counts(p, refs[p] + 1)
         /\ InitT1(p, ok) /\ ~ok => Counts(p, 0)
         /\ CloseT1(p) \/ DeInitT1(p) => Counts(p, IF refs[p] > 0 THEN refs[p] - 1 ELSE 0)
         /\ UNCHANGED refs => Counts(p, refs[p])
BY DEF OpenT1, InitT1, CloseT1, DeInitT1, Counts

\* Where the routine of the NFC HAL goes.
To(pc, isBl) ==
  nfc'.pc = pc /\ nfc'.job = nfc.job /\ nfc'.isBl = isBl /\ DOMAIN nfc' = DOMAIN Idle

LEMMA NfcMoves ==
  ASSUME NfcOK, NEW pc, NEW status, Goto(pc) \/ GotoWith(pc, status) \/ Leave(pc)
  PROVE  To(pc, nfc.isBl)
BY DEF NfcOK, Goto, GotoWith, Leave, Idle, To

LEMMA NfcForces ==
  ASSUME NfcOK, NEW job, NEW pc, ForceOnce(job, pc)
  PROVE  To("reset", nfc.isBl) \/ To(pc, nfc.isBl)
<1>1. CASE nfc.force
  BY <1>1 DEF NfcOK, ForceOnce, Idle, To
<1>2. CASE ~nfc.force
  BY <1>2 DEF NfcOK, ForceOnce, Idle, To
<1> QED
  BY <1>1, <1>2

\* The routine keeps within the limits when it does so where it goes.
LEMMA WithinLimits ==
  ASSUME RefsInv, UNCHANGED ese, NfcOK', NEW n \in Nat, Counts("nfc", n), n <= NfcLimit'
  PROVE  RefsInv'
BY DEF RefsInv, RefsOK, EseOK, EseLimit, Counts, Processes

LEMMA FwKeepsRefs == RefsInv /\ FwSteps /\ UNCHANGED ese => RefsInv'
<1> SUFFICES ASSUME RefsInv, FwSteps, UNCHANGED ese PROVE RefsInv'
  OBVIOUS
<1>0. /\ refs \in [Processes -> Nat] /\ NfcOK /\ DOMAIN nfc = DOMAIN Idle
      /\ refs["nfc"] \in Nat /\ refs["nfc"] <= NfcLimit
      /\ Counts("nfc", refs["nfc"]) \/ refs' # refs
  BY DEF RefsInv, RefsOK, NfcOK, Processes, Counts
<1>1. CASE FwOpen
  <2>1. nfc.pc = "open" /\ nfc.job = "fw" /\ refs["nfc"] = 0 /\ ~nfc.isBl
    BY <1>0, <1>1 DEF FwOpen, At, NfcLimit, NfcOK
  <2>2. \/ To("report", nfc.isBl) /\ Counts("nfc", 0)
        \/ To("flush", nfc.isBl) /\ Counts("nfc", 1)
    BY <1>0, <1>1, <2>1, NfcMoves, LibraryCounts DEF FwOpen, Processes
  <2> QED
    BY <2>1, <2>2, WithinLimits DEF To, NfcOK, NfcLimit
<1>2. CASE FwFlush \/ FwPinOn \/ FwPinOff \/ FwHardReset
  <2>1. nfc.job = "fw" /\ UNCHANGED refs /\ refs["nfc"] <= 1
    BY <1>0, <1>2 DEF FwFlush, FwPinOn, FwPinOff, FwHardReset, At, NfcLimit, chipKept
  <2>2. \E pc \in {"info", "close", "reset", "hard1", "hard2"} :
          To(pc, nfc.isBl) /\ (pc = "info" => nfc.pc = "flush")
    BY <1>0, <1>2, NfcMoves DEF FwFlush, FwPinOn, FwPinOff, FwHardReset, At
  <2> QED
    BY <1>0, <2>1, <2>2, WithinLimits DEF To, NfcOK, NfcLimit
<1>3. CASE FwChipInfo
  <2>1. nfc.job = "fw" /\ UNCHANGED refs /\ refs["nfc"] <= 1 /\ To("choose", nfc.isBl)
    BY <1>0, <1>3 DEF FwChipInfo, At, NfcLimit, world, To, Idle
  <2> QED
    BY <1>0, <2>1, WithinLimits DEF To, NfcOK, NfcLimit
<1>4. CASE FwChoose
  <2>1. nfc.job = "fw" /\ UNCHANGED refs /\ refs["nfc"] <= (IF nfc.isBl THEN 2 ELSE 1)
    BY <1>0, <1>4 DEF FwChoose, At, NfcLimit, world
  <2>2. \/ ~nfc.isBl /\ (To("pinOn", nfc.isBl) \/ To("close", nfc.isBl))
        \/ nfc.isBl /\ (To("deinit", nfc.isBl) \/ To("script", nfc.isBl))
    <3>1. CASE nfc.info.bl = InvalidVer
      BY <1>0, <1>4, <3>1, NfcMoves DEF FwChoose
    <3>2. CASE nfc.info.bl # InvalidVer
      BY <1>0, <1>4, <3>2 DEF FwChoose, To, Idle
    <3> QED
      BY <3>1, <3>2
  <2> QED
    BY <1>0, <2>1, <2>2, WithinLimits DEF To, NfcOK, NfcLimit
<1>5. CASE FwReopen
  <2>1. nfc.job = "fw" /\ refs["nfc"] = 0
    BY <1>0, <1>5 DEF FwReopen, At, SeIsOpened
  <2>2. \/ To("reset", nfc.isBl) /\ Counts("nfc", 1)
        \/ To("pinOff", nfc.isBl) /\ Counts("nfc", 0)
    BY <1>0, <1>5, <2>1, NfcMoves, LibraryCounts DEF FwReopen, Processes
  <2> QED
    BY <1>0, <2>1, <2>2, WithinLimits DEF To, NfcOK, NfcLimit
<1>6. CASE FwReset
  <2>1. nfc.job = "fw" /\ UNCHANGED refs /\ refs["nfc"] <= 1
    BY <1>0, <1>6 DEF FwReset, At, NfcLimit
  <2>2. To("init", TRUE) \/ To("reset", nfc.isBl) \/ To("pinOff", nfc.isBl)
    BY <1>0, <1>6 DEF FwReset, ForceOnce, To, Idle
  <2> QED
    BY <1>0, <2>1, <2>2, WithinLimits DEF To, NfcOK, NfcLimit
<1>7. CASE FwInit
  <2>1. nfc.job = "fw" /\ refs["nfc"] <= 1 /\ nfc.isBl
    BY <1>0, <1>7 DEF FwInit, At, NfcLimit, NfcOK
  <2>2. PICK ok \in BOOLEAN :
          /\ InitT1("nfc", ok)
          /\ IF ok THEN GotoWith(IF nfc.info.bl = InvalidVer THEN "blInfo" ELSE "script", "SUCCESS")
             ELSE ForceOnce("init", "pinOff")
    BY <1>7 DEF FwInit
  <2>3. CASE ok
    <3>1. To("blInfo", nfc.isBl) \/ To("script", nfc.isBl)
      BY <1>0, <2>2, <2>3 DEF GotoWith, To, Idle
    <3>2. Counts("nfc", refs["nfc"] + 1)
      BY <1>0, <2>2, <2>3, LibraryCounts DEF Processes
    <3>3. refs["nfc"] + 1 \in Nat /\ refs["nfc"] + 1 <= 2
      BY <1>0, <2>1
    <3> QED
      BY <2>1, <3>1, <3>2, <3>3, WithinLimits DEF To, NfcOK, NfcLimit
  <2>4. CASE ~ok
    <3>1. To("reset", nfc.isBl) \/ To("pinOff", nfc.isBl)
      BY <1>0, <2>2, <2>4, NfcForces
    <3>2. Counts("nfc", 0)
      BY <1>0, <2>2, <2>4, LibraryCounts DEF Processes
    <3>3. nfc'.job = "fw" /\ nfc'.pc \in {"reset", "pinOff"} /\ DOMAIN nfc' = DOMAIN Idle
      BY <2>1, <3>1 DEF To
    <3>4. NfcOK' /\ 0 <= NfcLimit'
      BY <3>3 DEF NfcOK, NfcLimit
    <3> QED
      BY <3>2, <3>4, WithinLimits
  <2> QED
    BY <2>3, <2>4
<1>8. CASE FwBlInfo
  <2>1. nfc.job = "fw" /\ UNCHANGED refs /\ refs["nfc"] <= 2 /\ nfc.isBl /\ To("choose", nfc.isBl)
    BY <1>0, <1>8 DEF FwBlInfo, At, NfcLimit, NfcOK, world, To, Idle
  <2> QED
    BY <1>0, <2>1, WithinLimits DEF To, NfcOK, NfcLimit
<1>9. CASE FwNothing \/ FwErase \/ FwWritten \/ FwScriptFails
  <2>1. nfc.job = "fw" /\ UNCHANGED refs /\ refs["nfc"] <= 2
    BY <1>0, <1>9 DEF FwNothing, FwErase, FwWritten, FwScriptFails, At, NfcLimit
  <2>2. To("deinit", nfc'.isBl) \/ To("script", nfc'.isBl)
    BY <1>0, <1>9 DEF FwNothing, FwErase, FwWritten, FwScriptFails, At, To, Idle
  <2> QED
    BY <1>0, <2>1, <2>2, WithinLimits DEF To, NfcOK, NfcLimit
<1>10. CASE FwDeinit
  <2>1. nfc.job = "fw" /\ refs["nfc"] <= 2
    BY <1>0, <1>10 DEF FwDeinit, At, NfcLimit
  <2>2. To("pinOff", nfc.isBl) /\ Counts("nfc", IF refs["nfc"] > 0 THEN refs["nfc"] - 1 ELSE 0)
    BY <1>0, <1>10, NfcMoves, LibraryCounts DEF FwDeinit, Processes
  <2>3. (IF refs["nfc"] > 0 THEN refs["nfc"] - 1 ELSE 0) \in {0, 1}
    BY <1>0, <2>1
  <2> QED
    BY <2>1, <2>2, <2>3, WithinLimits DEF To, NfcOK, NfcLimit
<1>11. CASE FwClose
  <2>1. nfc.job = "fw" /\ refs["nfc"] <= 1
    BY <1>0, <1>11 DEF FwClose, At, NfcLimit
  <2>2. To("report", nfc.isBl) /\ Counts("nfc", IF refs["nfc"] > 0 THEN refs["nfc"] - 1 ELSE 0)
    BY <1>0, <1>11, NfcMoves, LibraryCounts DEF FwClose, Processes
  <2>3. (IF refs["nfc"] > 0 THEN refs["nfc"] - 1 ELSE 0) = 0
    BY <1>0, <2>1
  <2> QED
    BY <1>0, <2>1, <2>2, <2>3, WithinLimits DEF To, NfcOK, NfcLimit
<1>12. CASE FwReport
  BY <1>0, <1>12 DEF FwReport, At, world, RefsInv, NfcOK, EseOK, RefsOK, NfcLimit, EseLimit, Idle
<1> QED
  BY <1>1, <1>2, <1>3, <1>4, <1>5, <1>6, <1>7, <1>8, <1>9, <1>10, <1>11, <1>12 DEF FwSteps

LEMMA CosKeepsRefs == RefsInv /\ CosSteps => RefsInv'
<1> SUFFICES ASSUME RefsInv, CosSteps PROVE RefsInv'
  OBVIOUS
<1>0. /\ refs \in [Processes -> Nat] /\ NfcOK /\ DOMAIN nfc = DOMAIN Idle
      /\ refs["nfc"] \in Nat /\ refs["nfc"] <= NfcLimit
      /\ Counts("nfc", refs["nfc"]) \/ refs' # refs
  BY DEF RefsInv, RefsOK, NfcOK, Processes, Counts
<1>a. UNCHANGED ese
  BY DEF CosSteps, CosOpen, CosFlush, CosPinOn, CosReopen, CosReset, CosInit, CosVersion, CosErase,
         CosWritten, CosScriptFails, CosDeinit, CosPinOff, CosHardReset, CosClose, CosReport, cosKept
<1>1. CASE CosOpen
  <2>1. nfc.pc = "open" /\ nfc.job = "cos" /\ refs["nfc"] = 0 /\ ~nfc.isBl
    BY <1>0, <1>1 DEF CosOpen, At, NfcLimit, NfcOK
  <2>2. \/ (To("report", nfc.isBl) \/ To("pinOff", nfc.isBl)) /\ Counts("nfc", 0)
        \/ To("flush", nfc.isBl) /\ Counts("nfc", 1)
    BY <1>0, <1>1, <2>1, NfcMoves, LibraryCounts DEF CosOpen, Processes
  <2> QED
    BY <1>a, <2>1, <2>2, WithinLimits DEF To, NfcOK, NfcLimit
<1>2. CASE CosFlush \/ CosPinOn \/ CosPinOff \/ CosHardReset
  <2>1. nfc.job = "cos" /\ UNCHANGED refs /\ refs["nfc"] <= 1
    BY <1>0, <1>2 DEF CosFlush, CosPinOn, CosPinOff, CosHardReset, At, NfcLimit, chipKept
  <2>2. \E pc \in {"pinOn", "pinOff", "reset", "hard", "close"} : To(pc, nfc.isBl)
    BY <1>0, <1>2, NfcMoves DEF CosFlush, CosPinOn, CosPinOff, CosHardReset, At
  <2> QED
    BY <1>0, <1>a, <2>1, <2>2, WithinLimits DEF To, NfcOK, NfcLimit
<1>3. CASE CosReopen
  <2>1. nfc.job = "cos" /\ refs["nfc"] = 0
    BY <1>0, <1>3 DEF CosReopen, At, SeIsOpened
  <2>2. \/ To("reset", nfc.isBl) /\ Counts("nfc", 1)
        \/ To("pinOff", nfc.isBl) /\ Counts("nfc", 0)
    BY <1>0, <1>3, <2>1, NfcMoves, LibraryCounts DEF CosReopen, Processes
  <2> QED
    BY <1>0, <1>a, <2>1, <2>2, WithinLimits DEF To, NfcOK, NfcLimit
<1>4. CASE CosReset
  <2>1. nfc.job = "cos" /\ UNCHANGED refs /\ refs["nfc"] <= 1
    BY <1>0, <1>4 DEF CosReset, At, NfcLimit
  <2>2. To("init", nfc.isBl) \/ To("reset", nfc.isBl) \/ To("pinOff", nfc.isBl)
    BY <1>0, <1>4, NfcMoves DEF CosReset, ForceOnce, To, Idle
  <2> QED
    BY <1>0, <1>a, <2>1, <2>2, WithinLimits DEF To, NfcOK, NfcLimit
<1>5. CASE CosInit
  <2>1. nfc.job = "cos" /\ refs["nfc"] <= 1
    BY <1>0, <1>5 DEF CosInit, At, NfcLimit
  <2>2. PICK ok \in BOOLEAN :
          /\ InitT1("nfc", ok)
          /\ IF ok THEN GotoWith("version", "SUCCESS") ELSE ForceOnce("init", "pinOff")
    BY <1>5 DEF CosInit
  <2>3. CASE ok
    <3>1. To("version", nfc.isBl)
      BY <1>0, <2>2, <2>3, NfcMoves
    <3>2. Counts("nfc", refs["nfc"] + 1)
      BY <1>0, <2>2, <2>3, LibraryCounts DEF Processes
    <3>3. refs["nfc"] + 1 \in Nat /\ refs["nfc"] + 1 <= 2
      BY <1>0, <2>1
    <3> QED
      BY <1>a, <2>1, <3>1, <3>2, <3>3, WithinLimits DEF To, NfcOK, NfcLimit
  <2>4. CASE ~ok
    <3>1. To("reset", nfc.isBl) \/ To("pinOff", nfc.isBl)
      BY <1>0, <2>2, <2>4, NfcForces
    <3>2. Counts("nfc", 0)
      BY <1>0, <2>2, <2>4, LibraryCounts DEF Processes
    <3> QED
      BY <1>a, <2>1, <3>1, <3>2, WithinLimits DEF To, NfcOK, NfcLimit
  <2> QED
    BY <2>3, <2>4
<1>6. CASE CosVersion \/ CosErase \/ CosWritten \/ CosScriptFails
  <2>1. nfc.job = "cos" /\ UNCHANGED refs /\ refs["nfc"] <= 2
    BY <1>0, <1>6 DEF CosVersion, CosErase, CosWritten, CosScriptFails, At, NfcLimit
  <2>2. To("deinit", nfc.isBl) \/ To("script", nfc.isBl)
    <3>1. CASE CosVersion
      BY <1>0, <3>1, NfcMoves DEF CosVersion
    <3>2. CASE CosErase
      BY <1>0, <3>2 DEF CosErase, At, To, Idle
    <3>3. CASE CosWritten
      BY <1>0, <3>3, NfcMoves DEF CosWritten, At, To
    <3>4. CASE CosScriptFails
      BY <1>0, <3>4 DEF CosScriptFails, To, Idle
    <3> QED
      BY <1>6, <3>1, <3>2, <3>3, <3>4
  <2> QED
    BY <1>0, <1>a, <2>1, <2>2, WithinLimits DEF To, NfcOK, NfcLimit
<1>7. CASE CosDeinit \/ CosClose
  <2>1. nfc.job = "cos" /\ (CosDeinit => refs["nfc"] <= 2) /\ (CosClose => refs["nfc"] <= 1)
    BY <1>0, <1>7 DEF CosDeinit, CosClose, At, NfcLimit
  <2>2. /\ CosDeinit => To("reset", nfc.isBl) \/ To("pinOff", nfc.isBl)
        /\ CosClose => To("report", nfc.isBl)
    BY <1>0, NfcMoves DEF CosDeinit, CosClose, To, Idle
  <2>3. Counts("nfc", IF refs["nfc"] > 0 THEN refs["nfc"] - 1 ELSE 0)
    BY <1>0, <1>7, LibraryCounts DEF CosDeinit, CosClose, Processes
  <2>4. /\ (IF refs["nfc"] > 0 THEN refs["nfc"] - 1 ELSE 0) \in {0, 1}
        /\ CosClose => (IF refs["nfc"] > 0 THEN refs["nfc"] - 1 ELSE 0) = 0
    BY <1>0, <1>7, <2>1
  <2> QED
    BY <1>7, <1>a, <2>1, <2>2, <2>3, <2>4, WithinLimits DEF To, NfcOK, NfcLimit
<1>8. CASE CosReport
  BY <1>0, <1>8 DEF CosReport, At, world, cosKept, RefsInv, NfcOK, EseOK, RefsOK, NfcLimit, EseLimit, Idle
<1> QED
  BY <1>1, <1>2, <1>3, <1>4, <1>5, <1>6, <1>7, <1>8 DEF CosSteps

LEMMA BlKeepsRefs == RefsInv /\ BlSteps /\ UNCHANGED ese => RefsInv'
<1> SUFFICES ASSUME RefsInv, BlSteps, UNCHANGED ese PROVE RefsInv'
  OBVIOUS
<1>0. /\ refs \in [Processes -> Nat] /\ NfcOK /\ DOMAIN nfc = DOMAIN Idle
      /\ refs["nfc"] \in Nat /\ refs["nfc"] <= NfcLimit
      /\ Counts("nfc", refs["nfc"]) \/ refs' # refs
  BY DEF RefsInv, RefsOK, NfcOK, Processes, Counts
<1>1. CASE BlOpen
  <2>1. nfc.pc = "open" /\ nfc.job = "bl" /\ refs["nfc"] = 0 /\ ~nfc.isBl
    BY <1>0, <1>1 DEF BlOpen, At, NfcLimit, NfcOK
  <2>2. \/ To("report", nfc.isBl) /\ Counts("nfc", 0)
        \/ To("flush", nfc.isBl) /\ Counts("nfc", 1)
    BY <1>0, <1>1, <2>1, NfcMoves, LibraryCounts DEF BlOpen, Processes
  <2> QED
    BY <2>1, <2>2, WithinLimits DEF To, NfcOK, NfcLimit
<1>2. CASE BlFlush \/ BlCompare \/ BlScript
  <2>1. nfc.job = "bl" /\ UNCHANGED refs /\ refs["nfc"] <= 1
    BY <1>0, <1>2 DEF BlFlush, BlCompare, BlScript, At, NfcLimit, chipKept, world
  <2>2. (To("info", nfc.isBl) /\ nfc.pc = "flush") \/ To("script", nfc.isBl) \/ To("close", nfc.isBl)
    <3>1. CASE BlCompare
      BY <1>0, <3>1 DEF BlCompare, To, Idle
    <3> QED
      BY <1>0, <1>2, <3>1, NfcMoves DEF BlFlush, BlScript, At
  <2> QED
    BY <1>0, <2>1, <2>2, WithinLimits DEF To, NfcOK, NfcLimit
<1>3. CASE BlClose
  <2>1. nfc.job = "bl" /\ refs["nfc"] <= 1
    BY <1>0, <1>3 DEF BlClose, At, NfcLimit
  <2>2. To("report", nfc.isBl) /\ Counts("nfc", IF refs["nfc"] > 0 THEN refs["nfc"] - 1 ELSE 0)
    BY <1>0, <1>3, NfcMoves, LibraryCounts DEF BlClose, Processes
  <2>3. (IF refs["nfc"] > 0 THEN refs["nfc"] - 1 ELSE 0) = 0
    BY <1>0, <2>1
  <2> QED
    BY <1>0, <2>1, <2>2, <2>3, WithinLimits DEF To, NfcOK, NfcLimit
<1>4. CASE BlReport
  BY <1>0, <1>4 DEF BlReport, At, world, RefsInv, NfcOK, EseOK, RefsOK, NfcLimit, EseLimit, Idle
<1> QED
  BY <1>1, <1>2, <1>3, <1>4 DEF BlSteps

-----------------------------------------------------------------------------
\* The same for the secure element HAL.
EseTo(pc, force) ==
  ese'.pc = pc /\ ese'.force = force /\ DOMAIN ese' = DOMAIN EseIdle

LEMMA EseMoves ==
  ASSUME EseOK, NEW pc, NEW status, EseGoto(pc) \/ EseGotoWith(pc, status)
  PROVE  EseTo(pc, ese.force)
BY DEF EseOK, EseGoto, EseGotoWith, EseIdle, EseTo

LEMMA EseWithinLimits ==
  ASSUME RefsInv, UNCHANGED nfc, EseOK', NEW n \in Nat, Counts("ese", n), n <= EseLimit'
  PROVE  RefsInv'
BY DEF RefsInv, RefsOK, NfcOK, NfcLimit, Counts, Processes

LEMMA EseKeepsRefs == RefsInv /\ EseSteps => RefsInv'
<1> SUFFICES ASSUME RefsInv, EseSteps PROVE RefsInv'
  OBVIOUS
<1>0. /\ refs \in [Processes -> Nat] /\ EseOK /\ DOMAIN ese = DOMAIN EseIdle
      /\ refs["ese"] \in Nat /\ refs["ese"] <= EseLimit
      /\ Counts("ese", refs["ese"]) \/ refs' # refs
  BY DEF RefsInv, RefsOK, EseOK, Processes, Counts
<1>a. UNCHANGED nfc
  BY DEF EseSteps, EseSoft, EseForceOpen, EseHardReset, EseAbandon, EseOpen, EseInitT1, EseVersion,
         EseErase, EseWritten, EseScriptFails, EseJump, EseClose, EseReport, nfcKept
<1>1. CASE EseSoft
  <2>1. UNCHANGED refs /\ refs["ese"] = 0
    BY <1>0, <1>1 DEF EseSoft, EseAt, EseLimit
  <2>2. EseTo("open", FALSE) \/ EseTo("reset", TRUE)
    BY <1>0, <1>1 DEF EseSoft, EseTo, EseIdle
  <2>3. EseOK' /\ 0 <= EseLimit'
    BY <2>2 DEF EseTo, EseOK, EseLimit
  <2> QED
    BY <1>0, <1>a, <2>1, <2>3, EseWithinLimits
<1>2. CASE EseForceOpen
  <2>1. refs["ese"] = 0 /\ ese.force
    BY <1>0, <1>2 DEF EseForceOpen, EseAt, EseLimit
  <2>2. PICK ok \in BOOLEAN :
          /\ OpenT1("ese", ok)
          /\ ese' = [ese EXCEPT !.pc = IF ok THEN "hard" ELSE "report", !.status = Result(ok)]
    BY <1>2 DEF EseForceOpen
  <2>3. EseTo(IF ok THEN "hard" ELSE "report", ese.force)
    BY <1>0, <2>2 DEF EseTo, EseIdle
  <2>4. Counts("ese", IF ok THEN 1 ELSE 0)
    BY <1>0, <2>1, <2>2, LibraryCounts DEF Processes
  <2>5. EseOK' /\ (IF ok THEN 1 ELSE 0) <= EseLimit'
    BY <2>1, <2>3 DEF EseTo, EseOK, EseLimit
  <2> QED
    BY <1>a, <2>4, <2>5, EseWithinLimits
<1>3. CASE EseHardReset
  <2>1. UNCHANGED refs /\ refs["ese"] <= 1 /\ ese.force
    BY <1>0, <1>3 DEF EseHardReset, EseAt, EseLimit, EseOK
  <2>2. EseTo("open", ese.force) \/ EseTo("abandon", ese.force)
    BY <1>0, <1>3, EseMoves DEF EseHardReset
  <2> QED
    BY <1>0, <1>a, <2>1, <2>2, EseWithinLimits DEF EseTo, EseOK, EseLimit
<1>4. CASE EseAbandon
  <2>1. refs["ese"] <= 1 /\ EseTo("report", ese.force)
    BY <1>0, <1>4, EseMoves DEF EseAbandon, EseAt, EseLimit
  <2>2. Counts("ese", IF refs["ese"] > 0 THEN refs["ese"] - 1 ELSE 0)
    BY <1>0, <1>4, LibraryCounts DEF EseAbandon, Processes
  <2>3. (IF refs["ese"] > 0 THEN refs["ese"] - 1 ELSE 0) = 0
    BY <1>0, <2>1
  <2> QED
    BY <1>a, <2>1, <2>2, <2>3, EseWithinLimits DEF EseTo, EseOK, EseLimit
<1>5. CASE EseOpen
  <2>1. refs["ese"] <= IF ese.force THEN 1 ELSE 0
    BY <1>0, <1>5 DEF EseOpen, EseAt, EseLimit
  <2>2. CASE ese.force
    <3>1. UNCHANGED refs /\ EseTo("init", ese.force)
      BY <1>0, <1>5, <2>2, EseMoves DEF EseOpen
    <3> QED
      BY <1>0, <1>a, <2>1, <2>2, <3>1, EseWithinLimits DEF EseTo, EseOK, EseLimit
  <2>3. CASE ~ese.force
    <3>1. \/ EseTo("init", ese.force) /\ Counts("ese", 1)
          \/ EseTo("report", ese.force) /\ Counts("ese", 0)
      BY <1>0, <1>5, <2>1, <2>3, EseMoves, LibraryCounts DEF EseOpen, Processes
    <3> QED
      BY <1>a, <3>1, EseWithinLimits DEF EseTo, EseOK, EseLimit
  <2> QED
    BY <2>2, <2>3
<1>6. CASE EseInitT1
  <2>1. refs["ese"] <= 1
    BY <1>0, <1>6 DEF EseInitT1, EseAt, EseLimit
  <2>2. PICK ok \in BOOLEAN :
          /\ InitT1("ese", ok)
          /\ ese' = [ese EXCEPT !.status = Result(ok), !.jump = @ \/ ok, !.force = @ \/ ~ok,
                 !.pc = CASE ok -> "version" [] ~ok /\ ~ese.force -> "reset" [] OTHER -> "report"]
    BY <1>6 DEF EseInitT1
  <2>3. CASE ok
    <3>1. ese'.pc = "version" /\ DOMAIN ese' = DOMAIN EseIdle
      BY <1>0, <2>2, <2>3 DEF EseIdle
    <3>2. Counts("ese", refs["ese"] + 1)
      BY <1>0, <2>2, <2>3, LibraryCounts DEF Processes
    <3>3. refs["ese"] + 1 \in Nat /\ refs["ese"] + 1 <= 2
      BY <1>0, <2>1
    <3> QED
      BY <1>a, <3>1, <3>2, <3>3, EseWithinLimits DEF EseOK, EseLimit
  <2>4. CASE ~ok
    <3>1. ese'.pc \in {"reset", "report"} /\ DOMAIN ese' = DOMAIN EseIdle
      BY <1>0, <2>2, <2>4 DEF EseIdle
    <3>2. Counts("ese", 0)
      BY <1>0, <2>2, <2>4, LibraryCounts DEF Processes
    <3> QED
      BY <1>a, <3>1, <3>2, EseWithinLimits DEF EseOK, EseLimit
  <2> QED
    BY <2>3, <2>4
<1>7. CASE EseVersion \/ EseErase \/ EseWritten \/ EseScriptFails \/ EseJump
  <2>1. UNCHANGED refs /\ refs["ese"] <= 2
    BY <1>0, <1>7 DEF EseVersion, EseErase, EseWritten, EseScriptFails, EseJump, EseAt, EseLimit, world
  <2>2. ese'.pc \in {"jump", "script", "close"} /\ DOMAIN ese' = DOMAIN EseIdle
    <3>1. CASE EseVersion \/ EseJump
      BY <1>0, <3>1, EseMoves DEF EseVersion, EseJump, EseTo
    <3>2. CASE EseErase \/ EseWritten \/ EseScriptFails
      BY <1>0, <3>2 DEF EseErase, EseWritten, EseScriptFails, EseAt, EseIdle
    <3> QED
      BY <1>7, <3>1, <3>2
  <2> QED
    BY <1>0, <1>a, <2>1, <2>2, EseWithinLimits DEF EseOK, EseLimit
<1>8. CASE EseClose
  <2>1. refs["ese"] <= 2
    BY <1>0, <1>8 DEF EseClose, EseAt, EseLimit
  <2>2. Counts("ese", 0)
    BY <1>0, <1>8, <2>1 DEF EseClose, Counts, Processes
  <2>3. ese'.pc \in {"reset", "report"} /\ DOMAIN ese' = DOMAIN EseIdle
    BY <1>0, <1>8 DEF EseClose, EseIdle
  <2> QED
    BY <1>a, <2>2, <2>3, EseWithinLimits DEF EseOK, EseLimit
<1>9. CASE EseReport
  <2>1. UNCHANGED refs /\ refs["ese"] = 0 /\ ese' = EseIdle
    BY <1>0, <1>9 DEF EseReport, EseAt, EseLimit, world
  <2> QED
    BY <1>0, <1>a, <2>1, EseWithinLimits DEF EseOK, EseLimit, EseIdle
<1> QED
  BY <1>1, <1>2, <1>3, <1>4, <1>5, <1>6, <1>7, <1>8, <1>9 DEF EseSteps

-----------------------------------------------------------------------------
LEMMA BeginKeepsRefs ==
  ASSUME NEW job, job # "none"
  PROVE  RefsInv /\ Begin(job) /\ UNCHANGED ese => RefsInv'
<1> SUFFICES ASSUME RefsInv, Begin(job), UNCHANGED ese PROVE RefsInv'
  OBVIOUS
<1>1. UNCHANGED refs /\ refs["nfc"] = 0 /\ refs \in [Processes -> Nat]
  BY DEF Begin, RefsInv, RefsOK, NfcOK, NfcLimit, Processes
<1>2. nfc'.job = job /\ nfc'.pc = "open" /\ ~nfc'.isBl /\ DOMAIN nfc' = DOMAIN Idle
  BY DEF Begin, Idle
<1>3. NfcOK' /\ 0 <= NfcLimit'
  BY <1>2 DEF NfcOK, NfcLimit
<1>4. Counts("nfc", 0)
  BY <1>1 DEF Counts
<1> QED
  BY <1>3, <1>4, WithinLimits

LEMMA DeathKeepsRefs == RefsInv /\ (NfcHalDies \/ SeHalDies) => RefsInv'
<1> SUFFICES ASSUME RefsInv, NfcHalDies \/ SeHalDies PROVE RefsInv'
  OBVIOUS
<1>1. CASE NfcHalDies
  <2>1. Counts("nfc", 0) /\ UNCHANGED ese /\ nfc' = Idle
    BY <1>1 DEF NfcHalDies, Died, Counts, RefsInv, RefsOK, Processes
  <2> QED
    BY <2>1, WithinLimits DEF NfcOK, NfcLimit, Idle
<1>2. CASE SeHalDies
  <2>1. Counts("ese", 0) /\ UNCHANGED nfc /\ ese' = EseIdle
    BY <1>2 DEF SeHalDies, Died, Counts, RefsInv, RefsOK, Processes
  <2> QED
    BY <2>1, EseWithinLimits DEF EseOK, EseLimit, EseIdle
<1> QED
  BY <1>1, <1>2

LEMMA RefsStep == RefsInv /\ [Next]_vars => RefsInv'
<1> SUFFICES ASSUME RefsInv, [Next]_vars PROVE RefsInv'
  OBVIOUS
<1>1. ASSUME UNCHANGED <<refs, nfc, ese>> PROVE RefsInv'
  BY <1>1 DEF RefsInv, NfcOK, EseOK, RefsOK, NfcLimit, EseLimit
<1>2. CASE UNCHANGED vars \/ Open \/ Close \/ MinOpenAnswered \/ MinOpenStandby
           \/ MinOpenPowerCycle \/ MinOpenEnds
  BY <1>1, <1>2 DEF vars, Open, Close, MinOpenAnswered, MinOpenStandby, MinOpenPowerCycle,
                    MinOpenEnds, world, dlKept
<1>3. CASE MinOpenDownload \/ ServiceDownload
  BY <1>3, BeginKeepsRefs DEF MinOpenDownload, ServiceDownload, FwBegin, CosBegin, BlBegin, cosKept
<1>4. CASE NfcSteps
  BY <1>4, FwKeepsRefs, BlKeepsRefs, CosKeepsRefs DEF NfcSteps
<1>5. CASE EseBegin
  <2>1. /\ UNCHANGED <<refs, nfc>> /\ refs["ese"] = 0 /\ refs \in [Processes -> Nat]
        /\ EseOK /\ EseGoto("reset")
    BY <1>5 DEF EseBegin, EseAt, world, nfcKept, RefsInv, RefsOK, EseLimit, Processes
  <2>2. EseTo("reset", ese.force) /\ Counts("ese", 0)
    BY <2>1, EseMoves DEF Counts
  <2> QED
    BY <2>1, <2>2, EseWithinLimits DEF EseTo, EseOK, EseLimit
<1>6. CASE EseHalSteps
  BY <1>6, EseKeepsRefs DEF EseHalSteps
<1> QED
  BY <1>2, <1>3, <1>4, <1>5, <1>6, DeathKeepsRefs DEF Next, MinOpenSteps

\* Whatever way a routine goes, however often it forces the chip and whatever
\* dies, it returns with no reference on the library left.
THEOREM NothingIsKept == Spec => []NothingKept
<1>1. Init => RefsInv
  BY DEF Init, ChipInit, NfcInit, EseInit, Idle, EseIdle, RefsInv, NfcOK, EseOK, RefsOK, NfcLimit,
         EseLimit, Processes
<1>2. RefsInv => NothingKept
  BY DEF RefsInv, NfcOK, RefsOK, NfcLimit, EseLimit, NothingKept, Processes
<1> QED
  BY <1>1, <1>2, RefsStep, PTL DEF Spec

-----------------------------------------------------------------------------
(***************************************************************************)
(* A firmware download implements ChipUpdate: for any chip and any files   *)
(* that keep the keys apart (ScenesAssumption), any number of refusals,    *)
(* with the other routines, the other process and the deaths of both.      *)
(***************************************************************************)

ChipOK ==
  /\ DOMAIN nfcc = {"mode", "fw", "bl", "key"} /\ nfcc.key \in {"T", "R"}
  /\ nfcc.bl = OldBl => nfcc.key = "T"
  /\ DOMAIN installed = {"fw", "plain", "bl", "cos"}
  /\ nfcc.key = "T" /\ installed.fw # NoFile /\ installed.fw["R"] # InvalidVer =>
       installed.fw["R"] \notin {nfcc.fw, installed.fw["T"]}

\* What is known of the chip is true, but for the key that may be guessed.
InfoOK(info) ==
  /\ DOMAIN info = {"fw", "bl", "key"}
  /\ info.fw \in {InvalidVer, nfcc.fw} /\ info.bl \in {InvalidVer, nfcc.bl}
  /\ info.key \in {"T", "R"} /\ info.key \in {"R", nfcc.key}

Early == {"choose", "pinOn", "reset", "init", "blInfo"}

FwOK ==
  nfc.job = "fw" =>
    /\ nfc.pc \notin {"open", "report"} => installed.fw # NoFile
    /\ nfc.pc \in Early \cup {"open", "flush", "info"} => ~nfc.erased
    /\ nfc.pc \in Early => nfc.bak \in {InvalidVer, nfcc.fw} /\ InfoOK(nfc.info)
    /\ nfc.pc \in {"info", "choose"} /\ ~nfc.isBl => nfc.status = "FAILED"
    /\ nfc.pc = "script" /\ nfc.erased => Block # InvalidVer
    /\ /\ nfc.pc \in {"pinOn", "deinit", "pinOff", "hard1", "hard2", "close", "report"}
       /\ nfc.status = "SUCCESS" /\ ~unsure
       => Current

BlOK == nfc.job = "bl" /\ nfc.pc = "script" /\ nfcc.key = "R" => installed.bl["R"] # OldBl

FwInv == RefsInv /\ ChipOK /\ FwOK /\ BlOK

-----------------------------------------------------------------------------
\* Most steps leave the flash of the chip and the files as they are.
SameFlash ==
  /\ DOMAIN nfcc' = DOMAIN nfcc
  /\ nfcc'.fw = nfcc.fw /\ nfcc'.bl = nfcc.bl /\ nfcc'.key = nfcc.key
  /\ DOMAIN installed' = DOMAIN installed
  /\ installed'.fw = installed.fw /\ installed'.bl = installed.bl

LEMMA SameFlashKeeps ==
  ASSUME ChipOK, SameFlash
  PROVE  ChipOK' /\ (Current' <=> Current)
BY DEF ChipOK, SameFlash, Current

LEMMA ResetsKeepFlash ==
  ASSUME ChipOK, UNCHANGED installed, NEW p, NEW off, NEW on, NEW ok,
         PowerCycled \/ ChipHardReset(p, off, on) \/ NfccSoftReset(ok)
  PROVE  SameFlash
BY DEF ChipOK, SameFlash, PowerCycled, ChipHardReset, NfccSoftReset

LEMMA InfoIsTrue ==
  ASSUME ChipOK, NEW info \in GetNfccChipInfoFromFW \cup GetNfccChipInfoFromBL("nfc")
  PROVE  InfoOK(info)
<1>1. ASSUME NEW fw \in {InvalidVer, nfcc.fw}, NEW bl \in {InvalidVer, nfcc.bl}
      PROVE  InfoOK(ComputeNfccChipInfo(fw, bl))
  <2>1. CASE bl = OldBl
    BY <1>1, <2>1 DEF ComputeNfccChipInfo, InfoOK, ChipOK, OldBl, InvalidVer
  <2>2. CASE bl # OldBl
    BY <1>1, <2>2 DEF ComputeNfccChipInfo, InfoOK, ChipOK
  <2> QED
    BY <2>1, <2>2
<1>2. CASE info \in GetNfccChipInfoFromFW
  BY <1>1, <1>2 DEF GetNfccChipInfoFromFW
<1>3. CASE info \in GetNfccChipInfoFromBL("nfc")
  BY <1>1, <1>3 DEF GetNfccChipInfoFromBL, NoInfo, InfoOK, ChipOK
<1> QED
  BY <1>2, <1>3

\* Nothing but a routine of the NFC HAL disturbs what is known.
LEMMA OthersKeep ==
  ASSUME FwInv, RefsInv', SameFlash, UNCHANGED <<nfc, unsure>>
  PROVE  FwInv'
<1>1. ChipOK' /\ (Current' <=> Current)
  BY SameFlashKeeps DEF FwInv
<1>2. Block' = Block /\ (InfoOK(nfc.info))' = InfoOK(nfc.info)
  BY DEF Block, VtpVersion, SameFlash, InfoOK
<1>3. FwOK' /\ BlOK'
  BY <1>1, <1>2 DEF FwInv, FwOK, BlOK, SameFlash
<1> QED
  BY <1>1, <1>3 DEF FwInv

-----------------------------------------------------------------------------
LEMMA FwFinds ==
  FwInv /\ (FwOpen \/ FwFlush \/ FwChipInfo \/ FwBlInfo \/ FwChoose) => SameFlash /\ FwOK'
<1> SUFFICES ASSUME FwInv, FwOpen \/ FwFlush \/ FwChipInfo \/ FwBlInfo \/ FwChoose
             PROVE  SameFlash /\ FwOK'
  OBVIOUS
<1>0. /\ ChipOK /\ FwOK /\ nfc.job = "fw" /\ DOMAIN nfc = DOMAIN Idle
      /\ nfc.pc \in {"open", "flush", "info"} => ~nfc.isBl
      /\ nfc.pc = "blInfo" => nfc.isBl
  BY DEF FwInv, RefsInv, NfcOK, At, FwOpen, FwFlush, FwChipInfo, FwBlInfo, FwChoose
<1>1. UNCHANGED <<nfcc, installed>>
  BY DEF FwOpen, FwFlush, FwChipInfo, FwBlInfo, FwChoose, world, chipKept
<1>2. SameFlash /\ (Current' <=> Current)
  BY <1>0, <1>1, SameFlashKeeps DEF SameFlash
<1>3. \A info : InfoOK(info)' <=> InfoOK(info)
  BY <1>1 DEF InfoOK
<1>4. CASE FwOpen
  <2>1. nfc.pc = "open" /\ DOMAIN nfc' = DOMAIN Idle /\ nfc'.job = "fw" /\ nfc'.erased = nfc.erased
    BY <1>0, <1>4 DEF FwOpen, At, GotoWith, Idle
  <2>2. CASE installed.fw = NoFile
    <3>1. nfc'.pc = "report"
      BY <1>0, <1>4, <2>2 DEF FwOpen, GotoWith, Idle
    <3> QED
      BY <1>1, <1>2, <2>1, <2>2, <3>1 DEF FwOK, Early, Current
  <2>3. CASE installed.fw # NoFile
    <3>1. nfc'.pc = "flush" \/ (nfc'.pc = "report" /\ nfc'.status = "FAILED")
      BY <1>0, <1>4, <2>3 DEF FwOpen, GotoWith, Idle, Result
    <3> QED
      BY <1>0, <1>1, <1>2, <2>1, <2>3, <3>1 DEF FwOK, Early
  <2> QED
    BY <2>2, <2>3
<1>5. CASE FwFlush
  BY <1>0, <1>1, <1>2, <1>5 DEF FwFlush, At, GotoWith, Idle, Result, FwOK, Early
<1>6. CASE FwChipInfo
  <2>1. PICK info \in GetNfccChipInfoFromFW :
          nfc' = [nfc EXCEPT !.pc = "choose", !.info = info, !.bak = info.fw]
    BY <1>6 DEF FwChipInfo
  <2>2. InfoOK(info)
    BY <1>0, InfoIsTrue
  <2>3. nfc.pc = "info" /\ installed.fw # NoFile /\ nfc.status = "FAILED" /\ ~nfc.erased
    BY <1>0, <1>6 DEF FwChipInfo, At, FwOK
  <2>4. /\ nfc'.pc = "choose" /\ nfc'.info = info /\ nfc'.bak = info.fw
        /\ nfc'.status = nfc.status /\ nfc'.job = "fw" /\ nfc'.erased = nfc.erased
    BY <1>0, <2>1 DEF Idle
  <2> QED
    BY <1>1, <1>2, <1>3, <2>2, <2>3, <2>4 DEF FwOK, Early, InfoOK
<1>7. CASE FwBlInfo
  <2>1. PICK info \in ChipInfos : nfc' = [nfc EXCEPT !.pc = "choose", !.info = info]
    BY <1>7 DEF FwBlInfo
  <2>2. InfoOK(info)
    BY <1>0, InfoIsTrue DEF ChipInfos
  <2>3. nfc.pc = "blInfo" /\ installed.fw # NoFile /\ nfc.bak \in {InvalidVer, nfcc.fw} /\ ~nfc.erased
    BY <1>0, <1>7 DEF FwBlInfo, At, FwOK, Early
  <2>4. /\ nfc'.pc = "choose" /\ nfc'.info = info /\ nfc'.bak = nfc.bak
        /\ nfc'.job = "fw" /\ nfc'.isBl /\ nfc'.erased = nfc.erased
    BY <1>0, <2>1, <2>3 DEF Idle
  <2> QED
    BY <1>1, <1>2, <1>3, <2>2, <2>3, <2>4 DEF FwOK, Early
<1>8. CASE FwChoose
  <2>1. /\ nfc.pc = "choose" /\ installed.fw # NoFile /\ nfc.bak \in {InvalidVer, nfcc.fw}
        /\ InfoOK(nfc.info) /\ (~nfc.isBl => nfc.status = "FAILED")
    BY <1>0, <1>8 DEF FwChoose, At, FwOK, Early
  <2>2. FwVersion \in {InvalidVer, nfcc.fw}
    BY <2>1 DEF FwVersion, InfoOK
  <2>3. VtpVersion # InvalidVer /\ VtpVersion = FwVersion => Current
    BY <1>0, <2>1, <2>2 DEF VtpVersion, Current, InfoOK, ChipOK
  <2>4. CASE nfc.info.bl = InvalidVer
    BY <1>0, <1>1, <1>2, <1>3, <1>8, <2>1, <2>4 DEF FwChoose, GotoWith, Goto, Idle, FwOK, Early
  <2>5. CASE nfc.info.bl # InvalidVer
    <3>1. /\ DOMAIN nfc'.info = DOMAIN nfc.info /\ nfc'.info.fw = FwVersion
          /\ nfc'.info.bl = nfc.info.bl /\ nfc'.info.key = nfc.info.key
          /\ nfc'.bak = nfc.bak /\ nfc'.job = "fw" /\ nfc'.erased = nfc.erased
          /\ nfc'.status = IF VtpVersion # InvalidVer /\ VtpVersion = FwVersion THEN "SUCCESS"
                           ELSE nfc.status
          /\ nfc'.pc = IF ~isNeedDownload /\ ChkVer THEN IF nfc.isBl THEN "deinit" ELSE "close"
                       ELSE IF nfc.isBl THEN "script" ELSE "pinOn"
      <4>1. DOMAIN nfc.info = {"fw", "bl", "key"} /\ {"info", "force", "status", "pc", "bak", "job", "erased"} \subseteq DOMAIN nfc
        BY <1>0, <2>1 DEF InfoOK, Idle
      <4>2. nfc'.info = [nfc.info EXCEPT !.fw = FwVersion]
        BY <1>8, <2>5, <4>1 DEF FwChoose
      <4> QED
        BY <1>0, <1>8, <2>5, <4>1, <4>2 DEF FwChoose
    <3>2. unsure' = (unsure \/ (VtpVersion = InvalidVer /\ nfc.isBl))
      BY <1>8, <2>5 DEF FwChoose
    <3>3. InfoOK(nfc'.info)
      BY <2>1, <2>2, <3>1 DEF InfoOK
    <3>4. nfc'.pc \in {"deinit", "close", "script", "pinOn"}
          /\ (nfc'.pc = "deinit" => nfc.isBl /\ ~isNeedDownload)
          /\ (nfc'.pc = "script" => nfc.isBl)
          /\ (nfc'.pc \in {"close", "pinOn"} => ~nfc.isBl)
      BY <3>1
    <3>5. nfc'.pc # "script" /\ nfc'.status = "SUCCESS" /\ ~unsure' => Current
      BY <2>1, <2>3, <3>1, <3>2, <3>4 DEF isNeedDownload
    <3>6. ~nfc.erased
      BY <1>0, <2>1 DEF FwOK, Early
    <3> QED
      BY <1>1, <1>2, <1>3, <2>1, <3>1, <3>3, <3>4, <3>5, <3>6 DEF FwOK, Early
  <2> QED
    BY <2>4, <2>5
<1> QED
  BY <1>2, <1>4, <1>5, <1>6, <1>7, <1>8

\* Where the routine goes, with what it knows.
FwTo(pc, status) ==
  /\ nfc'.job = nfc.job /\ nfc'.info = nfc.info /\ nfc'.bak = nfc.bak /\ nfc'.erased = nfc.erased
  /\ nfc'.pc = pc /\ nfc'.status = status

LEMMA FwMoves ==
  ASSUME DOMAIN nfc = DOMAIN Idle, NEW pc, NEW status
  PROVE  /\ Goto(pc) => FwTo(pc, nfc.status)
         /\ GotoWith(pc, status) => FwTo(pc, status)
BY DEF Goto, GotoWith, Idle, FwTo

LEMMA FwForces ==
  ASSUME DOMAIN nfc = DOMAIN Idle, nfc.job = "fw", NEW job, NEW pc, ForceOnce(job, pc)
  PROVE  \/ \E status : FwTo("reset", status)
         \/ nfc.force /\ FwTo(pc, IF job = "init" THEN "FAILED" ELSE nfc.status)
<1>1. CASE nfc.force
  BY <1>1 DEF ForceOnce, Idle, FwTo
<1>2. CASE ~nfc.force
  BY <1>2 DEF ForceOnce, Idle, FwTo
<1> QED
  BY <1>1, <1>2

LEMMA FwReaches ==
  FwInv /\ (FwPinOn \/ FwReopen \/ FwReset \/ FwInit) => SameFlash /\ FwOK'
<1> SUFFICES ASSUME FwInv, FwPinOn \/ FwReopen \/ FwReset \/ FwInit
             PROVE  SameFlash /\ FwOK'
  OBVIOUS
<1>0. ChipOK /\ FwOK /\ nfc.job = "fw" /\ DOMAIN nfc = DOMAIN Idle
  BY DEF FwInv, RefsInv, NfcOK, At, FwPinOn, FwReopen, FwReset, FwInit
<1>1. /\ nfc.pc \in {"pinOn", "reset", "init"} /\ installed.fw # NoFile /\ ~nfc.erased
      /\ nfc.bak \in {InvalidVer, nfcc.fw} /\ InfoOK(nfc.info) /\ UNCHANGED installed
      /\ nfc.pc = "pinOn" => UNCHANGED unsure
      /\ nfc.pc = "pinOn" /\ nfc.status = "SUCCESS" /\ ~unsure => Current
  BY <1>0 DEF FwPinOn, FwReopen, FwReset, FwInit, At, FwOK, Early, chipKept, ghostsKept
<1>2. SameFlash
  <2>1. CASE FwReset
    BY <1>0, <2>1, ResetsKeepFlash DEF FwReset, SoftOrHard
  <2>2. CASE ~FwReset
    BY <2>2 DEF FwPinOn, FwReopen, FwInit, chipKept, SameFlash
  <2> QED
    BY <2>1, <2>2
<1>3. (Current' <=> Current) /\ \A info : InfoOK(info)' <=> InfoOK(info)
  BY <1>0, <1>2, SameFlashKeeps DEF SameFlash, InfoOK
<1>4. \/ \E pc \in {"reset", "init", "blInfo", "script"} : \E status : FwTo(pc, status)
      \/ \E status : FwTo("pinOff", status) /\ (status # "SUCCESS" \/ unsure')
      \/ nfc.pc = "pinOn" /\ FwTo("close", nfc.status)
  <2>1. CASE FwPinOn
    BY <1>0, <2>1, FwMoves DEF FwPinOn, At
  <2>2. CASE FwReopen
    BY <1>0, <2>2, FwMoves DEF FwReopen, Result
  <2>3. CASE FwReset
    <3>1. CASE nfc' = [nfc EXCEPT !.pc = "init", !.isBl = TRUE]
      BY <1>0, <3>1 DEF FwTo, Idle
    <3>2. CASE ForceOnce("reset", "pinOff") /\ unsure' = (unsure \/ (nfc.force /\ nfc.status = "SUCCESS"))
      <4>1. (\E status : FwTo("reset", status)) \/ (nfc.force /\ FwTo("pinOff", nfc.status))
        BY <1>0, <3>2, FwForces
      <4> QED
        BY <3>2, <4>1
    <3> QED
      BY <2>3, <3>1, <3>2 DEF FwReset
  <2>4. CASE FwInit
    <3>1. CASE GotoWith(IF nfc.info.bl = InvalidVer THEN "blInfo" ELSE "script", "SUCCESS")
      <4>1. FwTo(IF nfc.info.bl = InvalidVer THEN "blInfo" ELSE "script", "SUCCESS")
        BY <1>0, <3>1, FwMoves
      <4> QED
        BY <4>1
    <3> QED
      BY <1>0, <2>4, <3>1, FwForces DEF FwInit
  <2> QED
    BY <2>1, <2>2, <2>3, <2>4
<1>5. FwOK'
  BY <1>0, <1>1, <1>2, <1>3, <1>4 DEF FwOK, Early, SameFlash, FwTo
<1> QED
  BY <1>2, <1>5

LEMMA FwScript ==
  FwInv /\ (FwNothing \/ FwErase \/ FwWritten \/ FwScriptFails) => ChipOK' /\ FwOK'
<1> SUFFICES ASSUME FwInv, FwNothing \/ FwErase \/ FwWritten \/ FwScriptFails
             PROVE  ChipOK' /\ FwOK'
  OBVIOUS
<1>0. /\ ChipOK /\ FwOK /\ nfc.job = "fw" /\ nfc.pc = "script" /\ DOMAIN nfc = DOMAIN Idle
      /\ installed.fw # NoFile /\ UNCHANGED installed
      /\ nfc.erased => Block # InvalidVer
  BY DEF FwInv, RefsInv, NfcOK, At, FwOK, FwNothing, FwErase, FwWritten, FwScriptFails
<1>1. CASE FwNothing \/ FwScriptFails
  <2>1. UNCHANGED nfcc /\ nfc'.job = "fw" /\ nfc'.pc = "deinit"
        /\ (unsure' \/ nfc'.status = "FAILED")
    BY <1>0, <1>1 DEF FwNothing, FwScriptFails, Idle, Result
  <2>2. ChipOK'
    BY <1>0, <2>1, SameFlashKeeps DEF SameFlash
  <2> QED
    BY <1>0, <2>1, <2>2 DEF FwOK, Early
<1>2. CASE FwErase
  <2>1. /\ nfc'.job = "fw" /\ nfc'.pc = "script" /\ nfc'.info = nfc.info /\ Block # InvalidVer
        /\ nfcc' = [nfcc EXCEPT !.fw = InvalidVer]
    BY <1>0, <1>2 DEF FwErase, Idle
  <2>2. ChipOK'
    BY <1>0, <2>1 DEF ChipOK
  <2>3. Block' = Block
    BY <1>0, <2>1 DEF Block, VtpVersion, ChipOK
  <2> QED
    BY <1>0, <2>1, <2>2, <2>3 DEF FwOK, Early
<1>3. CASE FwWritten
  <2>1. /\ nfc.erased /\ nfcc' = [nfcc EXCEPT !.fw = Block, !.mode = "FW"]
        /\ nfc' = nfc \/ nfc' = [nfc EXCEPT !.pc = "deinit", !.status = "SUCCESS", !.isBl = FALSE]
    BY <1>3 DEF FwWritten
  <2>2. Block = installed.fw[nfcc.key] /\ nfcc'.key = nfcc.key /\ nfcc'.fw = Block
    BY <1>0, <2>1 DEF Block, ChipOK
  <2>3. ChipOK' /\ Current'
    BY <1>0, <2>1, <2>2 DEF ChipOK, Current
  <2>4. CASE nfc' = nfc
    <3>1. Block' = Block
      BY <1>0, <2>2, <2>4 DEF Block, VtpVersion
    <3> QED
      BY <1>0, <2>3, <2>4, <3>1 DEF FwOK, Early
  <2>5. CASE nfc' = [nfc EXCEPT !.pc = "deinit", !.status = "SUCCESS", !.isBl = FALSE]
    <3>1. nfc'.pc = "deinit"
      BY <1>0, <2>5 DEF Idle
    <3> QED
      BY <1>0, <2>3, <3>1 DEF FwOK, Early
  <2> QED
    BY <2>1, <2>3, <2>4, <2>5
<1> QED
  BY <1>1, <1>2, <1>3

LEMMA FwLeaves ==
  FwInv /\ (FwDeinit \/ FwPinOff \/ FwHardReset \/ FwClose) => SameFlash /\ FwOK'
<1> SUFFICES ASSUME FwInv, FwDeinit \/ FwPinOff \/ FwHardReset \/ FwClose
             PROVE  SameFlash /\ FwOK'
  OBVIOUS
<1>0. /\ ChipOK /\ FwOK /\ nfc.job = "fw" /\ DOMAIN nfc = DOMAIN Idle
      /\ nfc.pc \in {"deinit", "pinOff", "hard1", "hard2", "close"}
      /\ UNCHANGED <<installed, unsure>>
  BY DEF FwInv, RefsInv, NfcOK, At, FwDeinit, FwPinOff, FwHardReset, FwClose, chipKept, ghostsKept
<1>1. installed.fw # NoFile /\ (nfc.status = "SUCCESS" /\ ~unsure => Current)
  BY <1>0 DEF FwOK
<1>2. SameFlash
  <2>1. CASE FwHardReset
    BY <1>0, <2>1, ResetsKeepFlash DEF FwHardReset
  <2>2. CASE ~FwHardReset
    BY <2>2 DEF FwDeinit, FwPinOff, FwClose, chipKept, SameFlash
  <2> QED
    BY <2>1, <2>2
<1>3. Current' <=> Current
  BY <1>0, <1>2, SameFlashKeeps
<1>4. /\ nfc'.job = "fw" /\ nfc'.status = nfc.status
      /\ nfc'.pc \in {"pinOff", "hard1", "hard2", "close", "report"}
  BY <1>0 DEF FwDeinit, FwPinOff, FwHardReset, FwClose, Goto, Leave, Idle
<1>5. FwOK'
  BY <1>0, <1>1, <1>3, <1>4 DEF FwOK, Early
<1> QED
  BY <1>2, <1>5

\* A step of the routine is one of the routine.
LEMMA FwStaysFw ==
  ASSUME RefsInv, FwSteps
  PROVE  nfc.job = "fw" /\ (FwReport \/ nfc'.job = "fw")
<1>0. DOMAIN nfc = DOMAIN Idle
  BY DEF RefsInv, NfcOK
<1>1. CASE FwOpen \/ FwFlush \/ FwPinOn \/ FwReopen \/ FwHardReset \/ FwDeinit \/ FwPinOff \/ FwClose
  BY <1>0, <1>1 DEF FwOpen, FwFlush, FwPinOn, FwReopen, FwHardReset, FwDeinit, FwPinOff, FwClose,
                    At, Goto, GotoWith, Leave, Idle
<1>2. CASE FwChipInfo \/ FwBlInfo \/ FwNothing \/ FwErase \/ FwWritten \/ FwScriptFails
  BY <1>0, <1>2 DEF FwChipInfo, FwBlInfo, FwNothing, FwErase, FwWritten, FwScriptFails, At, Idle
<1>3. CASE FwChoose
  BY <1>0, <1>3 DEF FwChoose, At, Goto, GotoWith, Idle
<1>4. CASE FwReset \/ FwInit
  <2>1. ForceOnce("reset", "pinOff") \/ ForceOnce("init", "pinOff") \/ nfc'.job = nfc.job
    BY <1>0, <1>4 DEF FwReset, FwInit, GotoWith, Idle
  <2> QED
    BY <1>0, <1>4, <2>1, FwForces DEF FwReset, FwInit, At, FwTo
<1> QED
  BY <1>1, <1>2, <1>3, <1>4 DEF FwSteps, FwReport, At

LEMMA FwKeeps == FwInv /\ FwSteps /\ RefsInv' => FwInv'
<1> SUFFICES ASSUME FwInv, FwSteps, RefsInv' PROVE FwInv'
  OBVIOUS
<1>1. nfc'.job # "bl"
  BY FwStaysFw DEF FwInv, FwReport, Idle
<1>2. BlOK'
  BY <1>1 DEF BlOK
<1>3. ASSUME SameFlash, FwOK' PROVE FwInv'
  BY <1>2, <1>3, SameFlashKeeps DEF FwInv
<1>4. CASE FwReport
  <2>1. UNCHANGED <<nfcc, installed>> /\ nfc'.job = "none"
    BY <1>4 DEF FwReport, world, Idle
  <2> QED
    BY <1>3, <2>1 DEF SameFlash, FwOK
<1> QED
  BY <1>2, <1>3, <1>4, FwFinds, FwReaches, FwScript, FwLeaves DEF FwSteps, FwInv

-----------------------------------------------------------------------------
LEMMA BlKeeps ==
  ASSUME FwInv, BlSteps, RefsInv'
  PROVE  FwInv' /\ (Current' <=> Current) /\ UNCHANGED claim /\ nfc.job # "fw" /\ nfc'.job # "fw"
<1>0. ChipOK /\ nfc.job = "bl" /\ DOMAIN nfc = DOMAIN Idle /\ UNCHANGED installed
  BY DEF FwInv, RefsInv, NfcOK, BlSteps, BlOpen, BlFlush, BlCompare, BlScript, BlClose, BlReport, At,
         chipKept, world
<1>1. nfc'.job # "fw" /\ (nfc'.pc = "script" => BlCompare)
  <2>1. CASE BlCompare
    BY <1>0, <2>1 DEF BlCompare, Idle
  <2>2. CASE BlReport
    BY <2>2 DEF BlReport, Idle
  <2>3. CASE BlOpen \/ BlFlush \/ BlScript \/ BlClose
    BY <1>0, <2>3, NfcMoves DEF BlOpen, BlFlush, BlScript, BlClose, To, FwInv, RefsInv
  <2> QED
    BY <2>1, <2>2, <2>3 DEF BlSteps
<1>2. FwOK' /\ UNCHANGED claim
  BY <1>1 DEF FwOK, BlSteps, BlOpen, BlFlush, BlCompare, BlScript, BlClose, BlReport, ghostsKept
<1>3. CASE BlScript
  <2>1. nfc'.pc # "script"
    BY <1>0, <1>3, NfcMoves DEF BlScript, To, FwInv, RefsInv
  <2>2. nfc.pc = "script" /\ (nfcc' = nfcc \/ nfcc' = [nfcc EXCEPT !.bl = installed.bl[nfcc.key]])
    BY <1>3 DEF BlScript, At
  <2>3. nfcc.key = "R" => installed.bl["R"] # OldBl
    BY <1>0, <2>2 DEF FwInv, BlOK
  <2>4. ChipOK' /\ (Current' <=> Current)
    BY <1>0, <2>2, <2>3 DEF ChipOK, Current
  <2> QED
    BY <1>0, <1>1, <1>2, <2>1, <2>4 DEF FwInv, BlOK
<1>4. CASE ~BlScript
  <2>1. UNCHANGED nfcc
    BY <1>4 DEF BlSteps, BlOpen, BlFlush, BlCompare, BlClose, BlReport, chipKept, world
  <2>2. ChipOK' /\ (Current' <=> Current)
    BY <1>0, <2>1, SameFlashKeeps DEF SameFlash
  <2>3. BlOK'
    <3>1. CASE BlCompare
      <4>1. PICK info \in ChipInfos :
              nfc' = [nfc EXCEPT !.info = info,
                       !.status = Result(info.bl # InvalidVer /\ installed.bl[info.key] # InvalidVer),
                       !.pc = IF info.bl # InvalidVer /\ installed.bl[info.key] # InvalidVer
                                 /\ installed.bl[info.key] # info.bl
                                 /\ info.bl # OldBl /\ installed.bl[info.key] # OldBl
                                THEN "script" ELSE "close"]
        BY <3>1 DEF BlCompare
      <4>2. InfoOK(info)
        BY <1>0, InfoIsTrue DEF ChipInfos
      <4>3. nfc'.pc = "script" => installed.bl[info.key] # OldBl
        BY <1>0, <4>1 DEF Idle
      <4> QED
        BY <1>0, <2>1, <4>2, <4>3 DEF BlOK, InfoOK
    <3>2. CASE ~BlCompare
      BY <1>1, <3>2 DEF BlOK
    <3> QED
      BY <3>1, <3>2
  <2> QED
    BY <1>0, <1>1, <1>2, <2>2, <2>3 DEF FwInv
<1> QED
  BY <1>3, <1>4

LEMMA CosKeeps ==
  ASSUME FwInv, CosSteps, RefsInv'
  PROVE  FwInv' /\ (Current' <=> Current) /\ UNCHANGED claim /\ nfc.job # "fw" /\ nfc'.job # "fw"
<1>0. ChipOK /\ nfc.job = "cos" /\ NfcOK
  BY DEF FwInv, RefsInv, CosSteps, CosOpen, CosFlush, CosPinOn, CosReopen, CosReset, CosInit,
         CosVersion, CosErase, CosWritten, CosScriptFails, CosDeinit, CosPinOff, CosHardReset,
         CosClose, CosReport, At
<1>1. SameFlash
  <2>1. CASE CosReset \/ CosHardReset
    BY <1>0, <2>1, ResetsKeepFlash DEF CosReset, CosHardReset, SoftOrHard
  <2>2. CASE ~(CosReset \/ CosHardReset)
    BY <1>0, <2>2 DEF CosSteps, CosOpen, CosFlush, CosPinOn, CosReopen, CosInit, CosVersion, CosErase,
       CosWritten, CosScriptFails, CosDeinit, CosPinOff, CosClose, CosReport, chipKept, world,
       RenamedIf, SameFlash, ChipOK
  <2> QED
    BY <2>1, <2>2
<1>2. nfc'.job \notin {"fw", "bl"}
  <2>1. CASE CosReset \/ CosInit
    <3>1. \/ Goto("init") \/ GotoWith("version", "SUCCESS")
          \/ ForceOnce("reset", "pinOff") \/ ForceOnce("init", "pinOff")
      BY <2>1 DEF CosReset, CosInit
    <3> QED
      BY <1>0, <3>1, NfcForces, NfcMoves DEF To
  <2>2. CASE CosErase \/ CosWritten \/ CosScriptFails \/ CosReport
    <3>1. CASE CosWritten
      BY <1>0, <3>1, NfcMoves DEF CosWritten, To
    <3> QED
      <4>1. CASE CosErase
        BY <1>0, <4>1 DEF CosErase, Idle, NfcOK
      <4>2. CASE CosScriptFails
        BY <1>0, <4>2 DEF CosScriptFails, Idle, NfcOK
      <4>3. CASE CosReport
        BY <4>3 DEF CosReport, Idle
      <4> QED
        BY <2>2, <3>1, <4>1, <4>2, <4>3
  <2>3. CASE CosDeinit
    BY <1>0, <2>3, NfcMoves DEF CosDeinit, To, Idle, NfcOK
  <2>4. CASE CosOpen \/ CosFlush \/ CosPinOn \/ CosReopen \/ CosVersion \/ CosPinOff \/ CosHardReset \/ CosClose
    BY <1>0, <2>4, NfcMoves DEF CosOpen, CosFlush, CosPinOn, CosReopen, CosVersion, CosPinOff,
       CosHardReset, CosClose, To
  <2> QED
    BY <2>1, <2>2, <2>3, <2>4 DEF CosSteps
<1>3. FwOK' /\ BlOK' /\ UNCHANGED claim
  BY <1>2 DEF FwOK, BlOK, CosSteps, CosOpen, CosFlush, CosPinOn, CosReopen, CosReset, CosInit,
         CosVersion, CosErase, CosWritten, CosScriptFails, CosDeinit, CosPinOff, CosHardReset,
         CosClose, CosReport, cosKept, ghostsKept
<1> QED
  BY <1>0, <1>2, <1>1, <1>3, SameFlashKeeps DEF FwInv

LEMMA EseKeepsFlash == ChipOK /\ EseSteps => SameFlash /\ UNCHANGED <<nfc, claim, unsure>>
<1> SUFFICES ASSUME ChipOK, EseSteps PROVE SameFlash /\ UNCHANGED <<nfc, claim, unsure>>
  OBVIOUS
<1>1. UNCHANGED <<nfc, claim, unsure>>
  BY DEF EseSteps, EseSoft, EseForceOpen, EseHardReset, EseAbandon, EseOpen, EseInitT1, EseVersion,
         EseErase, EseWritten, EseScriptFails, EseJump, EseClose, EseReport, nfcKept, ghostsKept
<1>2. CASE EseHardReset
  BY <1>1, <1>2, ResetsKeepFlash DEF EseHardReset
<1>3. CASE ~EseHardReset
  BY <1>1, <1>3 DEF EseSteps, EseSoft, EseForceOpen, EseAbandon, EseOpen, EseInitT1, EseVersion,
         EseErase, EseWritten, EseScriptFails, EseJump, EseClose, EseReport, chipKept, world, SameFlash
<1> QED
  BY <1>2, <1>3

LEMMA BeginKeeps ==
  ASSUME NEW job, FwInv, Begin(job), RefsInv'
  PROVE  FwInv' /\ (Current' <=> Current)
<1>1. ChipOK' /\ (Current' <=> Current)
  BY SameFlashKeeps DEF Begin, SameFlash, FwInv
<1>2. nfc'.pc = "open" /\ ~nfc'.erased
  BY DEF Begin, Idle
<1> QED
  BY <1>1, <1>2 DEF FwInv, FwOK, BlOK, Early

LEMMA RestKeeps ==
  ASSUME FwInv, RefsInv',
         UNCHANGED vars \/ Open \/ Close \/ MinOpenAnswered \/ MinOpenStandby
         \/ MinOpenPowerCycle \/ MinOpenEnds \/ (EseBegin /\ UNCHANGED hal) \/ EseHalSteps \/ SeHalDies
  PROVE  FwInv' /\ (Current' <=> Current) /\ UNCHANGED <<nfc, claim>>
<1>1. UNCHANGED <<nfc, claim, unsure>> /\ SameFlash
  <2>1. CASE EseHalSteps
    BY <2>1, EseKeepsFlash DEF EseHalSteps, FwInv
  <2>2. CASE MinOpenPowerCycle
    BY <2>2, ResetsKeepFlash DEF MinOpenPowerCycle, dlKept, FwInv, SameFlash
  <2>3. CASE SeHalDies
    BY <2>3 DEF SeHalDies, Died, SameFlash
  <2> QED
    BY <2>1, <2>2, <2>3 DEF vars, Open, Close, MinOpenAnswered, MinOpenStandby, MinOpenEnds, EseBegin,
       world, dlKept, nfcKept, ghostsKept, SameFlash
<1> QED
  BY <1>1, OthersKeep, SameFlashKeeps DEF FwInv

LEMMA NfcHalDiesKeeps == FwInv /\ NfcHalDies /\ RefsInv' => FwInv' /\ (Current' <=> Current)
<1> SUFFICES ASSUME FwInv, NfcHalDies, RefsInv' PROVE FwInv' /\ (Current' <=> Current)
  OBVIOUS
<1>1. ChipOK' /\ (Current' <=> Current)
  BY SameFlashKeeps DEF NfcHalDies, Died, SameFlash, FwInv
<1>2. nfc'.job = "none"
  BY DEF NfcHalDies, Idle
<1> QED
  BY <1>1, <1>2 DEF FwInv, FwOK, BlOK

-----------------------------------------------------------------------------
LEMMA FwStarts == Init => FwInv
<1> SUFFICES ASSUME Init PROVE FwInv
  OBVIOUS
<1>1. RefsInv
  BY DEF Init, ChipInit, NfcInit, EseInit, Idle, EseIdle, RefsInv, NfcOK, EseOK, RefsOK, NfcLimit,
         EseLimit, Processes
<1>2. PICK s \in Scenes :
        /\ nfcc = [mode |-> IF s.chip.fw = InvalidVer THEN "BL" ELSE "FW",
                   fw |-> s.chip.fw, bl |-> s.chip.bl, key |-> s.chip.key]
        /\ installed = s.files
  BY DEF Init, ChipInit
<1>3. ChipOK
  BY <1>2, ScenesAssumption DEF ChipOK
<1>4. nfc.job = "none"
  BY DEF Init, NfcInit, Idle
<1> QED
  BY <1>1, <1>3, <1>4 DEF FwInv, FwOK, BlOK

\* What a step of a firmware download is for ChipUpdate.
LEMMA FwIsWork == FwInv /\ FwSteps /\ ~FwReport => Update!Work
<1> SUFFICES ASSUME FwInv, FwSteps, ~FwReport PROVE Update!Work
  OBVIOUS
<1>1. nfc.job = "fw" /\ nfc'.job = "fw"
  BY FwStaysFw DEF FwInv
<1>2. UNCHANGED claim
  BY DEF FwSteps, FwOpen, FwFlush, FwChipInfo, FwChoose, FwPinOn, FwReopen, FwReset, FwInit, FwBlInfo,
         FwNothing, FwErase, FwWritten, FwScriptFails, FwDeinit, FwPinOff, FwHardReset, FwClose, ghostsKept
<1> QED
  BY <1>1, <1>2 DEF Update!Work, Current

LEMMA FwReportIsEnd == FwInv /\ FwReport => Update!End
<1> SUFFICES ASSUME FwInv, FwReport PROVE Update!End
  OBVIOUS
<1>1. nfc.job = "fw" /\ nfc.pc = "report" /\ nfc'.job # "fw" /\ UNCHANGED <<nfcc, installed>>
  BY DEF FwReport, At, Idle, world
<1>2. nfc.status = "SUCCESS" /\ ~unsure => Current
  BY <1>1 DEF FwInv, FwOK
<1>3. claim' \in {"success", "failure", "unsure"} /\ (claim' = "success" => nfc.status = "SUCCESS" /\ ~unsure)
  BY DEF FwReport
<1> QED
  BY <1>1, <1>2, <1>3 DEF Update!End, Current

LEMMA FwStep ==
  FwInv /\ RefsInv' /\ [Next]_vars => FwInv' /\ [Update!Next]_Update!vars
<1> SUFFICES ASSUME FwInv, RefsInv', [Next]_vars PROVE FwInv' /\ [Update!Next]_Update!vars
  OBVIOUS
<1>1. CASE FwBegin
  <2>1. FwInv'
    BY <1>1, BeginKeeps DEF FwBegin
  <2>2. Update!Begin
    BY <1>1 DEF FwBegin, Begin, Idle, Update!Begin, Current
  <2> QED
    BY <2>1, <2>2 DEF Update!Next
<1>2. CASE FwSteps
  BY <1>2, FwKeeps, FwIsWork, FwReportIsEnd DEF Update!Next
<1>3. CASE NfcHalDies
  <2>1. Update!Die
    BY <1>3, NfcHalDiesKeeps DEF NfcHalDies, Idle, Update!Die, Current
  <2> QED
    BY <1>3, <2>1, NfcHalDiesKeeps DEF Update!Next
<1>4. ASSUME FwInv', Current' <=> Current, UNCHANGED claim, nfc.job # "fw", nfc'.job # "fw"
      PROVE  FwInv' /\ [Update!Next]_Update!vars
  BY <1>4 DEF Update!vars, Current
<1>5. CASE BlBegin \/ CosBegin
  <2>1. /\ nfc.job # "fw" /\ nfc'.job # "fw" /\ UNCHANGED claim
    BY <1>5 DEF BlBegin, CosBegin, Begin, Idle, cosKept, ghostsKept
  <2>2. FwInv' /\ (Current' <=> Current)
    BY <1>5, BeginKeeps DEF BlBegin, CosBegin
  <2> QED
    BY <1>4, <2>1, <2>2
<1>6. CASE BlSteps \/ CosSteps
  BY <1>4, <1>6, BlKeeps, CosKeeps
<1>7. ASSUME FwInv', Current' <=> Current, UNCHANGED <<nfc, claim>>
      PROVE  FwInv' /\ [Update!Next]_Update!vars
  BY <1>7 DEF Update!vars, Current
<1>8. CASE UNCHANGED vars \/ Open \/ Close \/ MinOpenAnswered \/ MinOpenStandby
           \/ MinOpenPowerCycle \/ MinOpenEnds \/ (EseBegin /\ UNCHANGED hal) \/ EseHalSteps \/ SeHalDies
  BY <1>7, <1>8, RestKeeps
<1> QED
  BY <1>1, <1>2, <1>3, <1>5, <1>6, <1>8
     DEF Next, MinOpenSteps, MinOpenDownload, ServiceDownload, NfcSteps

\* NfccFwDownload does what ChipUpdate promises: SUCCESS means that the firmware
\* is the one of the script for the key of this chip, although the key may have
\* been guessed, the versions read in between may be lost, and the chip may be
\* reset under it; nothing else writes the firmware.  The reports that `unsure`
\* marks are left out: SUCCESS then is the status of an open, of a script with
\* no block for the chip, or of a thread told to stop, and may be false.
THEOREM FwIsUpdate == Spec => FwUpdate
<1>1. Init => Update!Init
  BY DEF Init, NfcInit, Idle, Update!Init, Current
<1>2. RefsInv /\ [Next]_vars => RefsInv'
  BY RefsStep
<1>3. FwInv => RefsInv
  BY DEF FwInv
<1>4. FwInv /\ [Next]_vars => FwInv' /\ [Update!Next]_Update!vars
  BY <1>2, <1>3, FwStep
<1> QED
  BY <1>1, <1>4, FwStarts, PTL DEF Spec, FwUpdate, Update!Spec

-----------------------------------------------------------------------------
(***************************************************************************)
(* The pin.  The ways back are many and none of them knows how far the     *)
(* routine got: what saves the chip is that a routine which skips the hard *)
(* reset has just been told by a firmware that runs, and that the pin goes *)
(* down before the power does.                                             *)
(***************************************************************************)
\* The chip runs its firmware, if it has one.
Runs == nfcc.fw # InvalidVer => nfcc.mode = "FW"
Released == ~dlPin /\ Runs

\* Where a routine has not touched the chip yet, or has undone what it did.
Untouched ==
  \/ nfc.job \in {"none", "bl"}
  \/ nfc.pc \in {"open", "flush", "info", "pinOn", "close", "report"}
  \/ nfc.pc = "choose" /\ ~nfc.isBl

\* What a routine knows of the chip on its way back: when it skips the hard
\* reset the new firmware runs already, and the hard reset comes after the pin
\* is down.
PinOK ==
  /\ Untouched => Released
  /\ nfc.job = "fw" /\ nfc.pc = "deinit" /\ ~nfc.isBl => Runs
  /\ nfc.job = "fw" /\ nfc.pc = "pinOff" /\ ~NeedsReset => Runs
  /\ nfc.pc \in {"hard1", "hard"} => ~dlPin
  /\ nfc.pc # "hard2"

PinInv == VenToggle /\ ~hit => PinOK

-----------------------------------------------------------------------------
LEMMA PowerRuns ==
  ASSUME ChipOK, PowerCycled, ~dlPin
  PROVE  Runs'
BY DEF ChipOK, PowerCycled, Booted, Runs, InvalidVer

\* A hard reset that nobody refuses starts what is there.
LEMMA HardResetRuns ==
  ASSUME ChipOK, VenToggle, ~hit', NEW p, NEW off \in BOOLEAN, NEW on \in BOOLEAN,
         ChipHardReset(p, off, on)
  PROVE  /\ ~hit /\ on /\ (~dlPin => Runs')
         /\ p = "ese" => ~dlPin
<1>1. ~hit /\ off /\ on /\ (p = "ese" => ~dlPin)
  BY DEF ChipHardReset
<1>2. PowerCycled
  BY <1>1 DEF ChipHardReset
<1> QED
  BY <1>1, <1>2, PowerRuns

LEMMA FwKeepsPin == FwInv /\ PinInv /\ FwSteps => PinInv'
<1> SUFFICES ASSUME FwInv, PinInv, FwSteps, VenToggle, ~hit' PROVE PinOK'
  BY DEF PinInv, FwSteps, FwOpen, FwFlush, FwChipInfo, FwChoose, FwPinOn, FwReopen, FwReset
<1>0. NfcOK /\ ChipOK /\ nfc.job = "fw" /\ nfc.job # "none" /\ nfc.job # "bl" /\ DOMAIN nfc = DOMAIN Idle
  BY DEF FwInv, RefsInv, NfcOK, At, FwSteps, FwOpen, FwFlush, FwChipInfo, FwChoose, FwPinOn, FwReopen,
         FwReset, FwInit, FwBlInfo, FwNothing, FwErase, FwWritten, FwScriptFails, FwDeinit, FwPinOff,
         FwHardReset, FwClose, FwReport
<1>1. CASE FwOpen \/ FwFlush \/ FwChipInfo
  <2>1. ~hit /\ UNCHANGED <<dlPin, nfcc>> /\ nfc.pc \in {"open", "flush", "info"} /\ ~nfc.isBl
    <3>1. UNCHANGED <<dlPin, nfcc, hit>> /\ nfc.pc \in {"open", "flush", "info"}
      BY <1>1 DEF FwOpen, FwFlush, FwChipInfo, At, chipKept, world
    <3> QED
      BY <1>0, <3>1 DEF NfcOK
  <2>2. Released'
    BY <2>1 DEF PinInv, PinOK, Untouched, Released, Runs
  <2>3. nfc'.pc \in {"report", "flush", "info", "close", "choose"} /\ ~nfc'.isBl
    <3>1. CASE FwChipInfo
      BY <1>0, <2>1, <3>1 DEF FwChipInfo, Idle
    <3> QED
      BY <1>0, <1>1, <2>1, <3>1, NfcMoves DEF FwOpen, FwFlush, To
  <2> QED
    BY <2>2, <2>3 DEF PinOK
<1>2. CASE FwChoose
  <2>1. ~hit /\ UNCHANGED <<dlPin, nfcc>> /\ nfc.pc = "choose" /\ (~nfc.isBl => Released)
    BY <1>2 DEF FwChoose, At, world, PinInv, PinOK, Untouched
  <2>2. \/ nfc.isBl /\ nfc'.isBl /\ nfc'.pc \in {"deinit", "script"}
        \/ ~nfc.isBl /\ ~nfc'.isBl /\ nfc'.pc \in {"pinOn", "close"}
    <3>1. CASE nfc.info.bl = InvalidVer
      BY <1>0, <1>2, <3>1, NfcMoves DEF FwChoose, To
    <3>2. CASE nfc.info.bl # InvalidVer
      BY <1>0, <1>2, <3>2 DEF FwChoose, Idle
    <3> QED
      BY <3>1, <3>2
  <2>3. nfc'.job = "fw"
    BY <1>0, <1>2, NfcMoves DEF FwChoose, To, Idle
  <2> QED
    BY <2>1, <2>2, <2>3 DEF PinOK, Untouched, Released, Runs
<1>3. CASE FwPinOn
  <2>1. PICK ok \in BOOLEAN : dlPin' = (dlPin \/ ok) /\ Goto(IF ok THEN "reset" ELSE "close")
    BY <1>3 DEF FwPinOn
  <2>2. ~hit /\ UNCHANGED nfcc /\ nfc.pc = "pinOn" /\ Released
    BY <1>3 DEF FwPinOn, At, PinInv, PinOK, Untouched
  <2>3. nfc'.pc = (IF ok THEN "reset" ELSE "close") /\ nfc'.job = "fw"
    BY <1>0, <2>1, NfcMoves DEF To
  <2> QED
    BY <2>1, <2>2, <2>3 DEF PinOK, Untouched, Released, Runs
<1>4. CASE FwReopen \/ FwReset \/ FwInit \/ FwBlInfo
  <2>1. nfc'.job = "fw" /\ nfc'.pc \in {"reset", "init", "blInfo", "script", "choose", "pinOff"}
    <3>1. CASE FwReopen
      BY <1>0, <3>1, NfcMoves DEF FwReopen, To
    <3>2. CASE FwReset
      BY <1>0, <3>2, NfcForces DEF FwReset, To, Idle
    <3>3. CASE FwInit
      <4>1. GotoWith("blInfo", "SUCCESS") \/ GotoWith("script", "SUCCESS") \/ ForceOnce("init", "pinOff")
        BY <3>3 DEF FwInit
      <4> QED
        BY <1>0, <4>1, NfcMoves, NfcForces DEF To
    <3>4. CASE FwBlInfo
      BY <1>0, <3>4 DEF FwBlInfo, Idle
    <3> QED
      BY <1>4, <3>1, <3>2, <3>3, <3>4
  <2>2. nfc'.pc = "pinOff" => nfc'.status # "SUCCESS"
    <3>1. CASE FwReopen
      <4>1. PICK ok \in BOOLEAN : GotoWith(IF ok THEN "reset" ELSE "pinOff", Result(ok))
        BY <3>1 DEF FwReopen
      <4>2. nfc'.pc = (IF ok THEN "reset" ELSE "pinOff") /\ nfc'.status = Result(ok)
        BY <1>0, <4>1, FwMoves DEF FwTo
      <4> QED
        BY <4>1, <4>2 DEF Result
    <3>2. CASE FwReset
      <4>1. nfc' = [nfc EXCEPT !.pc = "init", !.isBl = TRUE] \/ ForceOnce("reset", "pinOff")
        BY <3>2 DEF FwReset
      <4>2. CASE nfc' = [nfc EXCEPT !.pc = "init", !.isBl = TRUE]
        BY <1>0, <4>2 DEF Idle
      <4>3. CASE ForceOnce("reset", "pinOff") /\ ~nfc.force
        BY <1>0, <4>3 DEF ForceOnce, Idle
      <4>4. CASE nfc.force
        <5>1. PICK ok \in BOOLEAN :
                /\ \E off \in BOOLEAN : ChipHardReset("nfc", off, ok)
                /\ ok => nfc' = [nfc EXCEPT !.pc = "init", !.isBl = TRUE]
          BY <3>2, <4>4 DEF FwReset, SoftOrHard
        <5>2. ok
          BY <1>0, <5>1, HardResetRuns
        <5> QED
          BY <4>2, <5>1, <5>2
      <4> QED
        BY <4>1, <4>2, <4>3, <4>4
    <3>3. CASE FwInit
      <4>1. GotoWith("blInfo", "SUCCESS") \/ GotoWith("script", "SUCCESS") \/ ForceOnce("init", "pinOff")
        BY <3>3 DEF FwInit
      <4> QED
        BY <1>0, <4>1, FwMoves, FwForces DEF FwTo
    <3>4. CASE FwBlInfo
      BY <1>0, <3>4 DEF FwBlInfo, Idle
    <3> QED
      BY <1>4, <3>1, <3>2, <3>3, <3>4
  <2>3. nfc'.pc = "choose" => nfc'.isBl
    <3>1. CASE FwBlInfo
      <4>1. nfc.pc = "blInfo" /\ nfc.isBl
        BY <1>0, <3>1 DEF FwBlInfo, At, NfcOK
      <4> QED
        BY <1>0, <3>1, <4>1 DEF FwBlInfo, Idle
    <3>2. CASE ~FwBlInfo
      <4>1. CASE FwReopen
        BY <1>0, <4>1, NfcMoves DEF FwReopen, To
      <4>2. CASE FwReset
        <5>1. nfc' = [nfc EXCEPT !.pc = "init", !.isBl = TRUE] \/ ForceOnce("reset", "pinOff")
          BY <4>2 DEF FwReset
        <5>2. CASE ForceOnce("reset", "pinOff")
          BY <1>0, <5>2, NfcForces DEF To
        <5>3. CASE nfc' = [nfc EXCEPT !.pc = "init", !.isBl = TRUE]
          BY <1>0, <5>3 DEF Idle
        <5> QED
          BY <5>1, <5>2, <5>3
      <4>3. CASE FwInit
        <5>1. GotoWith("blInfo", "SUCCESS") \/ GotoWith("script", "SUCCESS") \/ ForceOnce("init", "pinOff")
          BY <4>3 DEF FwInit
        <5> QED
          BY <1>0, <5>1, NfcMoves, NfcForces DEF To
      <4> QED
        BY <1>4, <3>2, <4>1, <4>2, <4>3
    <3> QED
      BY <3>1, <3>2
  <2> QED
    BY <2>1, <2>2, <2>3 DEF PinOK, Untouched, NeedsReset
<1>5. CASE FwNothing \/ FwErase \/ FwScriptFails
  <2>1. nfc'.job = "fw" /\ nfc'.pc \in {"deinit", "script"} /\ (nfc'.pc = "deinit" => nfc'.isBl)
    <3>1. ~FwNothing
      BY DEF FwNothing
    <3>2. CASE FwErase
      BY <1>0, <3>2 DEF FwErase, At, Idle
    <3>3. CASE FwScriptFails
      BY <1>0, <3>3 DEF FwScriptFails, Idle
    <3> QED
      BY <1>5, <3>1, <3>2, <3>3
  <2> QED
    BY <2>1 DEF PinOK, Untouched
<1>6. CASE FwWritten
  <2>1. nfc'.job = "fw" /\ nfc'.pc \in {"deinit", "script"}
    BY <1>0, <1>6 DEF FwWritten, At, Idle
  <2>2. Runs'
    BY <1>0, <1>6 DEF FwWritten, ChipOK, Runs
  <2> QED
    BY <2>1, <2>2 DEF PinOK, Untouched
<1>7. CASE FwDeinit
  <2>1. /\ nfc'.job = "fw" /\ nfc'.pc = "pinOff" /\ nfc'.isBl = nfc.isBl
        /\ ~hit /\ nfc.pc = "deinit" /\ UNCHANGED nfcc
    BY <1>0, <1>7, NfcMoves DEF FwDeinit, At, To, chipKept
  <2>2. ~nfc.isBl => Runs
    BY <1>0, <2>1 DEF PinInv, PinOK
  <2> QED
    BY <2>1, <2>2 DEF PinOK, Untouched, NeedsReset, Runs
<1>8. CASE FwPinOff
  <2>1. ~dlPin' /\ ~hit /\ nfc.pc = "pinOff" /\ UNCHANGED nfcc
    BY <1>8 DEF FwPinOff, At
  <2>2. nfc'.job = "fw" /\ nfc'.pc = IF NeedsReset THEN "hard1" ELSE "close"
    BY <1>0, <1>8, NfcMoves DEF FwPinOff, To
  <2>3. ~NeedsReset => Runs
    BY <1>0, <2>1 DEF PinInv, PinOK
  <2> QED
    BY <2>1, <2>2, <2>3 DEF PinOK, Untouched, Released, Runs
<1>9. CASE FwHardReset
  <2>1. PICK off \in BOOLEAN, on \in BOOLEAN :
          /\ ChipHardReset("nfc", off, on)
          /\ Goto(IF on \/ nfc.pc = "hard2" THEN "close" ELSE "hard2")
    BY <1>9 DEF FwHardReset
  <2>2. ~hit /\ on /\ (~dlPin => Runs')
    BY <1>0, <2>1, HardResetRuns
  <2>3. ~dlPin /\ UNCHANGED dlPin
    BY <1>9, <2>2 DEF FwHardReset, At, PinInv, PinOK
  <2>4. nfc'.job = "fw" /\ nfc'.pc = "close"
    BY <1>0, <2>1, <2>2, NfcMoves DEF To
  <2> QED
    BY <2>2, <2>3, <2>4 DEF PinOK, Released
<1>10. CASE FwClose \/ FwReport
  <2>1. ~hit /\ UNCHANGED <<dlPin, nfcc>> /\ nfc.pc \in {"close", "report"}
    BY <1>10 DEF FwClose, FwReport, At, chipKept, world
  <2>2. Released'
    BY <2>1 DEF PinInv, PinOK, Untouched, Released, Runs
  <2>3. nfc'.pc \in {"report", "idle"}
    BY <1>0, <1>10, NfcMoves DEF FwClose, FwReport, To, Idle
  <2> QED
    BY <2>2, <2>3 DEF PinOK
<1> QED
  BY <1>1, <1>2, <1>3, <1>4, <1>5, <1>6, <1>7, <1>8, <1>9, <1>10 DEF FwSteps

LEMMA CosKeepsPin == FwInv /\ PinInv /\ CosSteps => PinInv'
<1> SUFFICES ASSUME FwInv, PinInv, CosSteps, VenToggle, ~hit' PROVE PinOK'
  BY DEF PinInv
<1>0. NfcOK /\ ChipOK /\ nfc.job = "cos" /\ nfc.job # "none" /\ nfc.job # "bl" /\ DOMAIN nfc = DOMAIN Idle
  BY DEF FwInv, RefsInv, NfcOK, CosSteps, CosOpen, CosFlush, CosPinOn, CosReopen, CosReset, CosInit,
         CosVersion, CosErase, CosWritten, CosScriptFails, CosDeinit, CosPinOff, CosHardReset,
         CosClose, CosReport, At
<1>1. CASE CosOpen \/ CosFlush
  <2>1. UNCHANGED <<dlPin, nfcc, hit>> /\ nfc.pc \in {"open", "flush"}
    BY <1>1 DEF CosOpen, CosFlush, At, chipKept
  <2>2. Released'
    BY <2>1 DEF PinInv, PinOK, Untouched, Released, Runs
  <2>3. nfc'.job = "cos" /\ nfc'.pc \in {"report", "flush", "pinOn", "pinOff"}
    BY <1>0, <1>1, NfcMoves DEF CosOpen, CosFlush, To
  <2> QED
    BY <2>2, <2>3 DEF PinOK
<1>2. CASE CosPinOn \/ CosReopen \/ CosReset \/ CosInit
  <2>1. nfc'.job = "cos" /\ nfc'.pc \in {"reset", "init", "version", "pinOff"}
    <3>1. CASE CosPinOn \/ CosReopen
      BY <1>0, <3>1, NfcMoves DEF CosPinOn, CosReopen, To
    <3>2. CASE CosReset \/ CosInit
      <4>1. \/ Goto("init") \/ GotoWith("version", "SUCCESS")
            \/ ForceOnce("reset", "pinOff") \/ ForceOnce("init", "pinOff")
        BY <3>2 DEF CosReset, CosInit
      <4> QED
        BY <1>0, <4>1, NfcForces, NfcMoves DEF To
    <3> QED
      BY <1>2, <3>1, <3>2
  <2> QED
    BY <2>1 DEF PinOK, Untouched
<1>3. CASE CosVersion \/ CosErase \/ CosWritten \/ CosScriptFails \/ CosDeinit
  <2>1. nfc'.job = "cos" /\ nfc'.pc \in {"script", "deinit", "reset", "pinOff"}
    <3>1. CASE CosVersion
      BY <1>0, <3>1, NfcMoves DEF CosVersion, To
    <3>2. CASE CosErase
      BY <1>0, <3>2 DEF CosErase, At, Idle
    <3>3. CASE CosWritten
      BY <1>0, <3>3, NfcMoves DEF CosWritten, At, To
    <3>4. CASE CosScriptFails
      BY <1>0, <3>4 DEF CosScriptFails, Idle
    <3>5. CASE CosDeinit
      BY <1>0, <3>5, NfcMoves DEF CosDeinit, To, Idle
    <3> QED
      BY <1>3, <3>1, <3>2, <3>3, <3>4, <3>5
  <2> QED
    BY <2>1 DEF PinOK, Untouched
<1>4. CASE CosPinOff
  <2>1. ~dlPin'
    BY <1>4 DEF CosPinOff
  <2>2. nfc'.job = "cos" /\ nfc'.pc = "hard"
    BY <1>0, <1>4, NfcMoves DEF CosPinOff, To
  <2> QED
    BY <2>1, <2>2 DEF PinOK, Untouched
<1>5. CASE CosHardReset
  <2>1. PICK off \in BOOLEAN, on \in BOOLEAN : ChipHardReset("nfc", off, on) /\ Goto("close")
    BY <1>5 DEF CosHardReset
  <2>2. ~hit /\ (~dlPin => Runs')
    BY <1>0, <2>1, HardResetRuns
  <2>3. ~dlPin /\ UNCHANGED dlPin
    BY <1>5, <2>2 DEF CosHardReset, At, PinInv, PinOK
  <2>4. nfc'.pc = "close"
    BY <1>0, <2>1, NfcMoves DEF To
  <2> QED
    BY <2>2, <2>3, <2>4 DEF PinOK, Released
<1>6. CASE CosClose \/ CosReport
  <2>1. UNCHANGED <<dlPin, nfcc, hit>> /\ nfc.pc \in {"close", "report"}
    BY <1>6 DEF CosClose, CosReport, At, chipKept, world
  <2>2. Released'
    BY <2>1 DEF PinInv, PinOK, Untouched, Released, Runs
  <2>3. nfc'.pc \in {"report", "idle"}
    BY <1>0, <1>6, NfcMoves DEF CosClose, CosReport, To, Idle
  <2> QED
    BY <2>2, <2>3 DEF PinOK
<1> QED
  BY <1>1, <1>2, <1>3, <1>4, <1>5, <1>6 DEF CosSteps

\* A boot loader is replaced without the pin, and without a reset.
LEMMA BlKeepsPin == FwInv /\ PinInv /\ BlSteps => PinInv'
<1> SUFFICES ASSUME FwInv, PinInv, BlSteps, VenToggle, ~hit' PROVE PinOK'
  BY DEF PinInv
<1>1. nfc.job = "bl" /\ NfcOK /\ DOMAIN nfc = DOMAIN Idle
  BY DEF FwInv, RefsInv, NfcOK, BlSteps, BlOpen, BlFlush, BlCompare, BlScript, BlClose, BlReport, At
<1>2. UNCHANGED <<dlPin, hit>> /\ nfcc'.fw = nfcc.fw /\ nfcc'.mode = nfcc.mode
  BY DEF FwInv, ChipOK, BlSteps, BlOpen, BlFlush, BlCompare, BlScript, BlClose, BlReport, chipKept, world
<1>3. Released'
  BY <1>1, <1>2 DEF PinInv, PinOK, Untouched, Released, Runs
<1>4. nfc'.job # "fw" /\ nfc'.pc \notin {"hard1", "hard2", "hard"}
  <2>1. CASE BlCompare
    BY <1>1, <2>1 DEF BlCompare, Idle
  <2>2. CASE BlReport
    BY <2>2 DEF BlReport, Idle
  <2> QED
    BY <1>1, <2>1, <2>2, NfcMoves DEF BlSteps, BlOpen, BlFlush, BlScript, BlClose, To
<1> QED
  BY <1>3, <1>4 DEF PinOK

\* The other process resets the chip, a service asks for a download, or
\* something dies.
LEMMA OthersKeepPin ==
  FwInv /\ PinInv /\ [Next]_vars /\ ~NfcSteps => PinInv'
<1> SUFFICES ASSUME FwInv, PinInv, [Next]_vars, ~NfcSteps, VenToggle, ~hit' PROVE PinOK'
  BY DEF PinInv
<1>0. ChipOK /\ NfcOK
  BY DEF FwInv, RefsInv
<1>1. ASSUME ~hit, UNCHANGED <<nfc, dlPin>>, UNCHANGED nfcc \/ Runs'
      PROVE  PinOK'
  <2>1. PinOK
    BY <1>1 DEF PinInv
  <2>2. Untouched' = Untouched /\ NeedsReset' = NeedsReset
    BY <1>1 DEF Untouched, NeedsReset
  <2>3. Released => Released'
    BY <1>1 DEF Released, Runs
  <2>4. CASE UNCHANGED nfcc
    BY <1>1, <2>1, <2>2, <2>3, <2>4 DEF PinOK, Runs
  <2>5. CASE Runs'
    BY <1>1, <2>1, <2>2, <2>3, <2>5 DEF PinOK
  <2> QED
    BY <1>1, <2>4, <2>5
<1>2. CASE UNCHANGED vars \/ Open \/ Close \/ MinOpenAnswered \/ MinOpenStandby \/ MinOpenEnds
           \/ EseBegin \/ SeHalDies
  BY <1>1, <1>2 DEF vars, Open, Close, MinOpenAnswered, MinOpenStandby, MinOpenEnds, EseBegin,
                    SeHalDies, Died, world, dlKept, nfcKept
<1>3. CASE MinOpenPowerCycle
  <2>1. ~hit /\ ~dlPin /\ UNCHANGED <<nfc, dlPin>>
    BY <1>3 DEF MinOpenPowerCycle, dlKept
  <2>2. UNCHANGED nfcc \/ PowerCycled
    BY <1>3 DEF MinOpenPowerCycle
  <2> QED
    BY <1>0, <1>1, <2>1, <2>2, PowerRuns
<1>4. CASE EseHalSteps
  <2>1. UNCHANGED nfc
    BY <1>0, <1>4, EseKeepsFlash DEF EseHalSteps
  <2>2. CASE EseHardReset
    <3>1. PICK off \in BOOLEAN, on \in BOOLEAN : ChipHardReset("ese", off, on) /\ UNCHANGED dlPin
      BY <2>2 DEF EseHardReset
    <3>2. ~hit /\ Runs'
      BY <1>0, <3>1, HardResetRuns
    <3> QED
      BY <1>1, <2>1, <3>1, <3>2
  <2>3. CASE ~EseHardReset
    BY <1>1, <1>4, <2>1, <2>3 DEF EseHalSteps, EseSteps, EseSoft, EseForceOpen, EseAbandon, EseOpen,
       EseInitT1, EseVersion, EseErase, EseWritten, EseScriptFails, EseJump, EseClose, EseReport,
       chipKept, world
  <2> QED
    BY <2>2, <2>3
<1>5. CASE NfcHalDies
  <2>1. ~hit /\ nfc.job = "none" /\ UNCHANGED <<dlPin, nfcc>> /\ nfc'.pc = "idle" /\ nfc'.job = "none"
    BY <1>5 DEF NfcHalDies, Died, Idle
  <2> QED
    BY <2>1 DEF PinInv, PinOK, Untouched, Released, Runs
<1>6. CASE MinOpenDownload \/ ServiceDownload
  <2>1. \E job : Begin(job)
    BY <1>6 DEF MinOpenDownload, ServiceDownload, FwBegin, CosBegin, BlBegin
  <2>2. /\ nfc.job = "none" /\ nfc'.pc = "open" /\ UNCHANGED <<dlPin, nfcc>>
        /\ ~hit \/ (~dlPin /\ nfcc.mode = "FW")
    BY <2>1 DEF Begin, Idle
  <2>3. Released'
    BY <2>2 DEF PinInv, PinOK, Untouched, Released, Runs
  <2> QED
    BY <2>2, <2>3 DEF PinOK
<1> QED
  BY <1>2, <1>3, <1>4, <1>5, <1>6 DEF Next, MinOpenSteps

\* Whatever is installed and however often a routine forces the chip: when it
\* returned the pin is down and the chip runs its firmware, but for what no
\* routine can repair (hit, see PinReleased).
THEOREM PinIsReleased == Spec => []PinReleased
<1>1. Init => PinInv
  <2> SUFFICES ASSUME Init PROVE PinOK
    BY DEF PinInv
  <2>1. ~dlPin /\ Runs
    BY DEF Init, ChipInit, Runs
  <2>2. nfc.job = "none" /\ nfc.pc = "idle"
    BY DEF Init, NfcInit, Idle
  <2> QED
    BY <2>1, <2>2 DEF PinOK, Released
<1>2. RefsInv /\ [Next]_vars => RefsInv'
  BY RefsStep
<1>3. FwInv => RefsInv
  BY DEF FwInv
<1>4. FwInv /\ [Next]_vars => FwInv'
  BY <1>2, <1>3, FwStep
<1>5. FwInv /\ PinInv /\ [Next]_vars => PinInv'
  BY OthersKeepPin, FwKeepsPin, CosKeepsPin, BlKeepsPin DEF NfcSteps
<1>6. PinInv => PinReleased
  BY DEF PinInv, PinOK, Untouched, Released, Runs, PinReleased
<1> QED
  BY <1>1, <1>4, <1>5, <1>6, FwStarts, PTL DEF Spec

===============================================================================
