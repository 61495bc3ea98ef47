--------------------------------- MODULE CosDl ---------------------------------
(***************************************************************************)
(* The two ways a new COS reaches the secure element.                      *)
(*                                                                         *)
(* eseCosDownloadI2C (tmsCosI2cDl.cpp) runs in the NFC HAL: the controller *)
(* is brought into its boot loader, which passes the commands on.          *)
(* eseCosReeDl (tmsCosReeSpiDl.cpp) runs in the secure element HAL, over   *)
(* SPI, and has the NFC HAL reset the secure element first.                *)
(***************************************************************************)
EXTENDS NfccDl

VARIABLE ese    \* the locals of eseCosReeDl

EseIdle == [pc |-> "idle", status |-> "FAILED", force |-> FALSE, soft |-> TRUE,
            jump |-> FALSE, erased |-> FALSE]

EseInit == ese = EseIdle

\* The boot loader that answered decides between the two COS scripts.
OwnScript(p) == "own" \in installed.cos[p]

(***************************************************************************)
(* eseCosDownloadI2C.                                                      *)
(***************************************************************************)
cosKept == <<ghostsKept, ese>>

CosBegin == Begin("cos") /\ UNCHANGED cosKept

CosOpen ==
  \E ok \in BOOLEAN :
    /\ At("cos", "open")
    /\ IF installed.cos["nfc"] = {}
         THEN ok /\ GotoWith("report", "SUCCESS") /\ UNCHANGED <<refs, session>>
         ELSE OpenT1("nfc", ok) /\ GotoWith(IF ok THEN "flush" ELSE "pinOff", Result(ok))
    /\ UNCHANGED <<chipKept, faults, cosKept>>

CosFlush ==
  \E ok \in BOOLEAN :
    /\ At("cos", "flush") /\ IoctlNfc("nfc", ok)
    /\ Goto(IF ok THEN "pinOn" ELSE "pinOff")
    /\ UNCHANGED <<chipKept, refs, session, cosKept>>

CosPinOn ==
  \E ok \in BOOLEAN :
    /\ At("cos", "pinOn") /\ IoctlNfc("nfc", ok)
    /\ dlPin' = (dlPin \/ ok)
    /\ Goto(IF ok THEN "reset" ELSE "pinOff")
    /\ UNCHANGED <<nfcc, se, refs, session, installed, callers, hit, cosKept>>

CosReopen ==
  \E ok \in BOOLEAN :
    /\ At("cos", "reset") /\ ~SeIsOpened("nfc") /\ OpenT1("nfc", ok)
    /\ GotoWith(IF ok THEN "reset" ELSE "pinOff", Result(ok))
    /\ UNCHANGED <<chipKept, faults, cosKept>>

CosReset ==
  \E ok \in BOOLEAN :
    /\ At("cos", "reset") /\ SeIsOpened("nfc") /\ SoftOrHard(ok)
    /\ IF ok THEN Goto("init") ELSE ForceOnce("reset", "pinOff")
    /\ UNCHANGED <<dlPin, refs, installed, callers, cosKept>>

CosInit ==
  \E ok \in BOOLEAN :
    /\ At("cos", "init") /\ (ok => nfcc.mode = "BL") /\ InitT1("nfc", ok)
    /\ IF ok THEN GotoWith("version", "SUCCESS") ELSE ForceOnce("init", "pinOff")
    /\ UNCHANGED <<chipKept, faults, cosKept>>

\* getSeBlVerFromChip: the pass-through command, and then the question, stop
\* the secure element in its boot loader.
SeBlVer(known, reaches) ==
  /\ known => reaches
  /\ se' = IF known THEN [se EXCEPT !.mode = "BL"] ELSE se

CosVersion ==
  \E known \in BOOLEAN :
    /\ At("cos", "version") /\ SeBlVer(known, Reaches)
    /\ \/ ~known /\ GotoWith("deinit", "FATAL_ERROR")
       \/ known /\ OwnScript("nfc") /\ Goto("script")
       \/ known /\ ~OwnScript("nfc") /\ GotoWith("deinit", "SUCCESS")
    /\ UNCHANGED <<dlPin, nfcc, refs, session, installed, callers, faults, hit, cosKept>>

CosErase ==
  /\ At("cos", "script") /\ ~nfc.erased /\ Reaches /\ se.mode = "BL"
  /\ nfc' = [nfc EXCEPT !.erased = TRUE]
  /\ se' = [se EXCEPT !.whole = FALSE]
  /\ UNCHANGED <<dlPin, nfcc, refs, session, installed, callers, faults, hit, cosKept>>

\* After a success the script is renamed: it would outlast the watchdog of
\* the NFC service each time.
RenamedIf(ok) ==
  installed' = IF ok THEN [installed EXCEPT !.cos["nfc"] = @ \ {"own"}] ELSE installed

CosWritten ==
  \E ok \in BOOLEAN :
    /\ At("cos", "script") /\ nfc.erased /\ Reaches /\ se.mode = "BL"
    /\ se' = [se EXCEPT !.whole = TRUE]
    /\ RenamedIf(ok)
    /\ IF ok THEN GotoWith("deinit", "SUCCESS") ELSE UNCHANGED nfc
    /\ UNCHANGED <<dlPin, nfcc, refs, session, callers, faults, hit, cosKept>>

\* chkEseSoftReset looks at the last response when the script failed in
\* time; one that was told to stop may say success.
CosScriptFails ==
  \E late, refused \in BOOLEAN :
    /\ At("cos", "script") /\ ~(late /\ refused)
    /\ RenamedIf(late)
    /\ nfc' = [nfc EXCEPT !.pc = "deinit", !.status = Result(late), !.soft = ~refused]
    /\ UNCHANGED <<dlPin, nfcc, se, refs, session, callers, faults, hit, cosKept>>

CosDeinit ==
  /\ At("cos", "deinit") /\ DeInitT1("nfc")
  /\ IF ~nfc.soft /\ ~nfc.force
       THEN nfc' = [nfc EXCEPT !.pc = "reset", !.force = TRUE, !.soft = TRUE, !.erased = FALSE]
       ELSE Leave("pinOff")
  /\ UNCHANGED <<chipKept, faults, cosKept>>

CosPinOff ==
  \E ok \in BOOLEAN :
    /\ At("cos", "pinOff") /\ IoctlNfc("nfc", ok)
    /\ dlPin' = (dlPin /\ ~ok) /\ hit' = (hit \/ ~ok)
    /\ Leave("hard")
    /\ UNCHANGED <<nfcc, se, refs, session, installed, callers, cosKept>>

CosHardReset ==
  \E off, on \in BOOLEAN :
    /\ At("cos", "hard") /\ ChipHardReset("nfc", off, on)
    /\ Goto("close")
    /\ UNCHANGED <<dlPin, refs, installed, callers, cosKept>>

CosClose ==
  /\ At("cos", "close") /\ CloseT1("nfc")
  /\ Goto("report")
  /\ UNCHANGED <<chipKept, faults, cosKept>>

CosReport ==
  /\ At("cos", "report")
  /\ nfc' = Idle
  /\ UNCHANGED <<world, cosKept>>

CosSteps ==
  \/ CosOpen \/ CosFlush \/ CosPinOn \/ CosReopen \/ CosReset \/ CosInit \/ CosVersion
  \/ CosErase \/ CosWritten \/ CosScriptFails
  \/ CosDeinit \/ CosPinOff \/ CosHardReset \/ CosClose \/ CosReport

(***************************************************************************)
(* eseCosReeDl.                                                            *)
(***************************************************************************)
EseAt(pc) == ese.pc = pc
EseGoto(pc) == ese' = [ese EXCEPT !.pc = pc]
EseGotoWith(pc, status) == ese' = [ese EXCEPT !.pc = pc, !.status = status]

nfcKept == <<nfc, ghostsKept>>

EseBegin == EseAt("idle") /\ "ese" \in callers /\ EseGoto("reset") /\ UNCHANGED <<world, nfcKept>>

\* The call to the NFC HAL waits for the mutex of its downloads.
NfcHalServes(ok) == nfc.job = "none" /\ EseSoftReset(ok)

EseSoft ==
  \E ok \in BOOLEAN :
    /\ EseAt("reset") /\ ~ese.force /\ NfcHalServes(ok)
    /\ ese' = [ese EXCEPT !.pc = IF ok THEN "open" ELSE "reset", !.force = ~ok]
    /\ UNCHANGED <<dlPin, nfcc, refs, installed, callers, faults, hit, nfcKept>>

EseForceOpen ==
  \E ok \in BOOLEAN :
    /\ EseAt("reset") /\ ese.force /\ OpenT1("ese", ok)
    /\ ese' = [ese EXCEPT !.pc = IF ok THEN "hard" ELSE "report", !.status = Result(ok)]
    /\ UNCHANGED <<chipKept, faults, nfcKept>>

EseHardReset ==
  \E off, on \in BOOLEAN :
    /\ EseAt("hard") /\ ChipHardReset("ese", off, on)
    /\ IF on THEN EseGoto("open") ELSE EseGotoWith("abandon", "FAILED")
    /\ UNCHANGED <<dlPin, refs, installed, callers, nfcKept>>

\* Mutant of EseAbandon: the device stays open.
EseAbandonOpened ==
  /\ EseAt("abandon") /\ EseGoto("report")
  /\ UNCHANGED <<world, nfcKept>>

EseAbandon ==
  /\ EseAt("abandon") /\ CloseT1("ese")
  /\ EseGoto("report")
  /\ UNCHANGED <<chipKept, faults, nfcKept>>

\* EseForceOpen has opened it.
EseOpen ==
  \E ok \in BOOLEAN :
    /\ EseAt("open")
    /\ IF ese.force THEN ok /\ EseGoto("init") /\ UNCHANGED <<refs, session>>
       ELSE OpenT1("ese", ok) /\ EseGotoWith(IF ok THEN "init" ELSE "report", Result(ok))
    /\ UNCHANGED <<chipKept, faults, nfcKept>>

EseInitT1 ==
  \E ok \in BOOLEAN :
    /\ EseAt("init") /\ InitT1("ese", ok)
    /\ ese' = [ese EXCEPT !.status = Result(ok), !.jump = @ \/ ok, !.force = @ \/ ~ok,
                 !.pc = CASE ok -> "version" [] ~ok /\ ~ese.force -> "reset" [] OTHER -> "report"]
    /\ UNCHANGED <<chipKept, faults, nfcKept>>

\* A reset by the other process ends the session (PowerCycled).
EseVersion ==
  \E known \in BOOLEAN :
    /\ EseAt("version") /\ SeBlVer(known, session["ese"])
    /\ \/ ~known /\ EseGotoWith("jump", "FATAL_ERROR")
       \/ known /\ OwnScript("ese") /\ EseGoto("script")
       \/ known /\ ~OwnScript("ese") /\ EseGotoWith("jump", "SUCCESS")
    /\ UNCHANGED <<dlPin, nfcc, refs, session, installed, callers, faults, hit, nfcKept>>

EseReaches == session["ese"] /\ se.mode = "BL"

EseErase ==
  /\ EseAt("script") /\ ~ese.erased /\ EseReaches
  /\ ese' = [ese EXCEPT !.erased = TRUE]
  /\ se' = [se EXCEPT !.whole = FALSE]
  /\ UNCHANGED <<dlPin, nfcc, refs, session, installed, callers, faults, hit, nfcKept>>

\* The last command starts the new COS; its answer may be lost.
EseWritten ==
  \E ok \in BOOLEAN :
    /\ EseAt("script") /\ ese.erased /\ EseReaches
    /\ se' = [mode |-> "COS", whole |-> TRUE]
    /\ ese' = IF ok THEN [ese EXCEPT !.pc = "jump", !.status = "SUCCESS", !.jump = FALSE] ELSE ese
    /\ UNCHANGED <<dlPin, nfcc, refs, session, installed, callers, faults, hit, nfcKept>>

EseScriptFails ==
  \E late, refused \in BOOLEAN :
    /\ EseAt("script")
    /\ ese' = [ese EXCEPT !.pc = "jump", !.status = Result(late), !.soft = late \/ ~refused,
                 !.jump = IF refused /\ ~late THEN @ ELSE refused]
    /\ UNCHANGED <<world, nfcKept>>

\* A COS that is whole starts.
TryJumpToCos(answered) ==
  /\ answered => EseReaches
  /\ se' = IF answered /\ se.whole THEN [se EXCEPT !.mode = "COS"] ELSE se

\* Part of the clean-up, its result is not looked at.
EseJump ==
  \E answered \in BOOLEAN :
    /\ EseAt("jump") /\ TryJumpToCos(answered)
    /\ answered => ese.status # "SUCCESS" \/ ese.jump
    /\ EseGoto("close")
    /\ UNCHANGED <<dlPin, nfcc, refs, session, installed, callers, faults, hit, nfcKept>>

\* deInitT1 and CloseT1 give back both references.
EseClose ==
  /\ EseAt("close")
  /\ refs' = [refs EXCEPT !["ese"] = IF @ > 2 THEN @ - 2 ELSE 0]
  /\ session' = [session EXCEPT !["ese"] = FALSE]
  /\ ese' = IF ~ese.soft /\ ~ese.force
               THEN [ese EXCEPT !.pc = "reset", !.force = TRUE, !.soft = TRUE, !.erased = FALSE]
               ELSE [EseIdle EXCEPT !.pc = "report", !.status = ese.status]
  /\ UNCHANGED <<chipKept, faults, nfcKept>>

EseReport ==
  /\ EseAt("report")
  /\ ese' = EseIdle
  /\ UNCHANGED <<world, nfcKept>>

EseSteps ==
  \/ EseSoft \/ EseForceOpen \/ EseHardReset \/ EseAbandon \/ EseOpen \/ EseInitT1
  \/ EseVersion \/ EseErase \/ EseWritten \/ EseScriptFails \/ EseJump \/ EseClose
  \/ EseReport
===============================================================================
