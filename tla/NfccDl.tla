-------------------------------- MODULE NfccDl --------------------------------
(***************************************************************************)
(* The downloads of the NFC HAL: firmware and boot loader of the NFC       *)
(* controller (tms-cos-dl-ree/tmsNfccDl.cpp) and, over the same I2C line,  *)
(* the COS of the secure element (tmsCosI2cDl.cpp).  One mutex of the      *)
(* process lets one of them run at a time; each opens the device, brings   *)
(* the chip into its boot loader, runs a script and undoes all that.       *)
(***************************************************************************)
EXTENDS DlChip

CONSTANT ChkVer   \* FW_DL_CHK_VER: download only what differs

ASSUME NfccDlAssumption == ChkVer \in BOOLEAN

VARIABLES
  nfc,      \* the routine that runs, and its locals
  claim,    \* what the last firmware download reported
  unsure    \* ghost: ... without knowing: the flush or the forced reset was
            \* refused with the status of the open, no script fits, or the
            \* thread was told to stop

\* installed.fw: the version of the firmware script for each key, or NoFile;
\* installed.plain: that of the other firmware file, which only
\* CheckFlashRequired looks at; installed.bl: that of the boot loader;
\* installed.cos: the COS scripts each process finds, for this chip's boot
\* loader ("own") or for "other" ones.
NoFile == [k \in {} |-> InvalidVer]

\* A boot loader with the old key has the key "T".  The version of a firmware
\* tells which key it is for (TryComputeNfccChipInfo): what is for "R" has no
\* version that the firmware of another chip may have.
ASSUME ScenesAssumption ==
  \A s \in Scenes :
    /\ DOMAIN s.files = {"fw", "plain", "bl", "cos"} /\ s.chip.key \in {"T", "R"}
    /\ s.chip.bl = OldBl => s.chip.key = "T"
    /\ s.chip.key = "T" /\ s.files.fw # NoFile =>
         s.files.fw["R"] = InvalidVer \/ s.files.fw["R"] \notin {s.chip.fw, s.files.fw["T"]}

Idle == [job |-> "none", pc |-> "idle", status |-> "FAILED", force |-> FALSE,
         isBl |-> FALSE, soft |-> TRUE, info |-> NoInfo, bak |-> InvalidVer, erased |-> FALSE]

NfcInit == nfc = Idle /\ claim = "none" /\ unsure = FALSE

Begin(job) ==
  /\ nfc.job = "none"
  /\ nfc' = [Idle EXCEPT !.job = job, !.pc = "open"]
  /\ hit' = (hit /\ (dlPin \/ nfcc.mode # "FW"))
  /\ UNCHANGED <<dlPin, nfcc, se, refs, session, installed, callers, faults>>

At(job, pc) == nfc.job = job /\ nfc.pc = pc
Goto(pc) == nfc' = [nfc EXCEPT !.pc = pc]
GotoWith(pc, status) == nfc' = [nfc EXCEPT !.pc = pc, !.status = status]
\* The other locals are not read any more.
Leave(pc) == nfc' = [Idle EXCEPT !.job = nfc.job, !.pc = pc, !.status = nfc.status, !.isBl = nfc.isBl]
Result(ok) == IF ok THEN "SUCCESS" ELSE "FAILED"

chipKept == <<dlPin, nfcc, se, installed, callers, hit>>
ghostsKept == <<claim, unsure>>

(***************************************************************************)
(* NfccFwDownload.                                                         *)
(***************************************************************************)
FwBegin ==
  /\ Begin("fw")
  /\ claim' = "none" /\ unsure' = FALSE

FwOpen ==
  \E ok \in BOOLEAN :
    /\ At("fw", "open")
    /\ IF installed.fw = NoFile
         THEN ok /\ GotoWith("report", "SUCCESS") /\ UNCHANGED <<refs, session>>
         ELSE OpenT1("nfc", ok) /\ GotoWith(IF ok THEN "flush" ELSE "report", Result(ok))
    /\ UNCHANGED <<chipKept, faults, ghostsKept>>

\* The status is that of the open when the driver refuses to flush.
FwFlush ==
  \E ok \in BOOLEAN :
    /\ At("fw", "flush") /\ IoctlNfc("nfc", ok)
    /\ GotoWith(IF ok THEN "info" ELSE "close", Result(~ok))
    /\ unsure' = ~ok
    /\ UNCHANGED <<chipKept, refs, session, claim>>

\* Mutant of FwChipInfo: the version is asked for with the status still
\* that of the open.
FwChipInfoKeepsStatus ==
  \E info \in GetNfccChipInfoFromFW :
    /\ At("fw", "info")
    /\ nfc' = [nfc EXCEPT !.pc = "choose", !.info = info, !.bak = info.fw, !.status = "SUCCESS"]
    /\ UNCHANGED <<world, ghostsKept>>

FwChipInfo ==
  \E info \in GetNfccChipInfoFromFW :
    /\ At("fw", "info")
    /\ nfc' = [nfc EXCEPT !.pc = "choose", !.info = info, !.bak = info.fw]
    /\ UNCHANGED <<world, ghostsKept>>

FwVersion == IF nfc.info.fw = InvalidVer THEN nfc.bak ELSE nfc.info.fw
VtpVersion == installed.fw[nfc.info.key]

isNeedDownload == VtpVersion # InvalidVer /\ VtpVersion # FwVersion

\* VTP_FILE_BY_BL_VER: which block of the script fits is known only with
\* the version of the boot loader.
FwChoose ==
  /\ At("fw", "choose")
  /\ IF nfc.info.bl = InvalidVer
       THEN IF nfc.isBl THEN GotoWith("deinit", "FATAL_ERROR") ELSE Goto("pinOn")
       ELSE nfc' = [nfc EXCEPT
              !.info   = [@ EXCEPT !.fw = FwVersion],
              !.force  = @ \/ (VtpVersion # InvalidVer /\ FwVersion = InvalidVer),
              !.status = IF VtpVersion # InvalidVer /\ VtpVersion = FwVersion THEN "SUCCESS" ELSE @,
              !.pc     = IF ~isNeedDownload /\ ChkVer THEN IF nfc.isBl THEN "deinit" ELSE "close"
                           ELSE IF nfc.isBl THEN "script" ELSE "pinOn"]
  /\ unsure' = (unsure \/ (nfc.info.bl # InvalidVer /\ VtpVersion = InvalidVer /\ nfc.isBl))
  /\ UNCHANGED <<world, claim>>

FwPinOn ==
  \E ok \in BOOLEAN :
    /\ At("fw", "pinOn") /\ IoctlNfc("nfc", ok)
    /\ dlPin' = (dlPin \/ ok)
    /\ Goto(IF ok THEN "reset" ELSE "close")
    /\ UNCHANGED <<nfcc, se, refs, session, installed, callers, hit, ghostsKept>>

\* initT1 closed the device when it failed.
FwReopen ==
  \E ok \in BOOLEAN :
    /\ At("fw", "reset") /\ ~SeIsOpened("nfc") /\ OpenT1("nfc", ok)
    /\ GotoWith(IF ok THEN "reset" ELSE "pinOff", Result(ok))
    /\ UNCHANGED <<chipKept, faults, ghostsKept>>

\* Mutant of ForceOnce: a forced attempt that fails is forced again.
ForceAgain(job, otherwise) == nfc' = [nfc EXCEPT !.pc = "reset", !.force = TRUE, !.status = "FAILED"]

\* What failed without force is tried once more with it.  A reset that is
\* refused leaves the status of NfccFwDownload as it is: SUCCESS when the
\* device was just opened again.  Only eseCosDownloadI2C sets it.
ForceOnce(job, otherwise) ==
  nfc' = [nfc EXCEPT !.pc = IF nfc.force THEN otherwise ELSE "reset", !.force = TRUE,
                     !.status = IF job = "init" \/ nfc.job = "cos" THEN "FAILED" ELSE @]

SoftOrHard(on) ==
  IF nfc.force THEN \E off \in BOOLEAN : ChipHardReset("nfc", off, on)
  ELSE NfccSoftReset(on) /\ UNCHANGED <<se, session, faults, hit>>

FwReset ==
  \E ok \in BOOLEAN :
    /\ At("fw", "reset") /\ SeIsOpened("nfc") /\ SoftOrHard(ok)
    /\ IF ok THEN nfc' = [nfc EXCEPT !.pc = "init", !.isBl = TRUE] ELSE ForceOnce("reset", "pinOff")
    /\ unsure' = (unsure \/ (~ok /\ nfc.force /\ nfc.status = "SUCCESS"))
    /\ UNCHANGED <<dlPin, refs, installed, callers, claim>>

FwInit ==
  \E ok \in BOOLEAN :
    /\ At("fw", "init") /\ (ok => nfcc.mode = "BL") /\ InitT1("nfc", ok)
    /\ IF ok THEN GotoWith(IF nfc.info.bl = InvalidVer THEN "blInfo" ELSE "script", "SUCCESS")
       ELSE ForceOnce("init", "pinOff")
    /\ UNCHANGED <<chipKept, faults, ghostsKept>>

\* GetNfccChipInfoFromBLThread asks whatever runs.
ChipInfos == IF nfc.isBl THEN GetNfccChipInfoFromBL("nfc") ELSE GetNfccChipInfoFromFW

FwBlInfo ==
  \E info \in ChipInfos :
    /\ At("fw", "blInfo")
    /\ nfc' = [nfc EXCEPT !.pc = "choose", !.info = info]
    /\ UNCHANGED <<world, ghostsKept>>

(***************************************************************************)
(* The script of the firmware.  The chip refuses one for the other key,    *)
(* and the one for its own is then tried (vtpBinDownload, see CosPatch).   *)
(***************************************************************************)
\* The block of a script that is there for the key that was guessed, and
\* then for that of the chip.
Block == IF VtpVersion = InvalidVer THEN InvalidVer ELSE installed.fw[nfcc.key]

Reaches == nfcc.mode = "BL" /\ session["nfc"]

\* A script without a block for the chip executes nothing, successfully.
FwNothing ==
  /\ At("fw", "script") /\ ~nfc.erased /\ Block = InvalidVer
  /\ nfc' = [nfc EXCEPT !.pc = "deinit", !.status = "SUCCESS", !.isBl = FALSE]
  /\ unsure' = TRUE /\ hit' = TRUE
  /\ UNCHANGED <<dlPin, nfcc, se, refs, session, installed, callers, faults, claim>>

FwErase ==
  /\ At("fw", "script") /\ ~nfc.erased /\ Block # InvalidVer /\ Reaches
  /\ nfc' = [nfc EXCEPT !.erased = TRUE]
  /\ nfcc' = [nfcc EXCEPT !.fw = InvalidVer]
  /\ UNCHANGED <<dlPin, se, refs, session, installed, callers, faults, hit, ghostsKept>>

\* After its last command the chip starts the new firmware by itself; the
\* answer may be lost.
FwWritten ==
  \E ok \in BOOLEAN :
    /\ At("fw", "script") /\ nfc.erased /\ Reaches
    /\ nfcc' = [nfcc EXCEPT !.fw = Block, !.mode = "FW"]
    /\ nfc' = IF ok THEN [nfc EXCEPT !.pc = "deinit", !.status = "SUCCESS", !.isBl = FALSE] ELSE nfc
    /\ UNCHANGED <<dlPin, se, refs, session, installed, callers, faults, hit, ghostsKept>>

\* An ASSERT of the script notices, unless the thread was told to stop (see
\* AfterApdu in DlScript).  Too many downloads are refused at once.
FwScriptFails ==
  \E late \in BOOLEAN :
    /\ At("fw", "script") /\ Block # InvalidVer
    /\ nfc' = [nfc EXCEPT !.pc = "deinit", !.status = Result(late), !.isBl = ~late]
    /\ unsure' = (unsure \/ late) /\ hit' = (hit \/ late)
    /\ UNCHANGED <<dlPin, nfcc, se, refs, session, installed, callers, faults, claim>>

FwDeinit ==
  /\ At("fw", "deinit") /\ DeInitT1("nfc")
  /\ Leave("pinOff")
  /\ UNCHANGED <<chipKept, faults, ghostsKept>>

\* Mutant of NeedsReset: only a failure needs it.
NeedsResetIfFailed == nfc.status # "SUCCESS"

NeedsReset == nfc.status # "SUCCESS" \/ nfc.isBl

FwPinOff ==
  \E ok \in BOOLEAN :
    /\ At("fw", "pinOff") /\ IoctlNfc("nfc", ok)
    /\ dlPin' = (dlPin /\ ~ok) /\ hit' = (hit \/ ~ok)
    /\ Leave(IF NeedsReset THEN "hard1" ELSE "close")
    /\ UNCHANGED <<nfcc, se, refs, session, installed, callers, ghostsKept>>

FwHardReset ==
  \E off, on \in BOOLEAN :
    /\ At("fw", "hard1") \/ At("fw", "hard2")
    /\ ChipHardReset("nfc", off, on)
    /\ Goto(IF on \/ nfc.pc = "hard2" THEN "close" ELSE "hard2")
    /\ UNCHANGED <<dlPin, refs, installed, callers, ghostsKept>>

FwClose ==
  /\ At("fw", "close") /\ CloseT1("nfc")
  /\ Leave("report")
  /\ UNCHANGED <<chipKept, faults, ghostsKept>>

FwReport ==
  /\ At("fw", "report")
  /\ nfc' = Idle
  /\ claim' = CASE unsure -> "unsure"
                [] ~unsure /\ nfc.status = "SUCCESS" -> "success"
                [] OTHER -> "failure"
  /\ UNCHANGED <<world, unsure>>

(***************************************************************************)
(* NfccBlDownload: the firmware itself takes the new boot loader, over NCI. *)
(***************************************************************************)
BlBegin == Begin("bl") /\ UNCHANGED ghostsKept

BlOpen ==
  \E ok \in BOOLEAN :
    /\ At("bl", "open")
    /\ IF installed.bl = NoFile
         THEN ok /\ GotoWith("report", "FAILED") /\ UNCHANGED <<refs, session>>
         ELSE OpenT1("nfc", ok) /\ GotoWith(IF ok THEN "flush" ELSE "report", Result(ok))
    /\ UNCHANGED <<chipKept, faults, ghostsKept>>

BlFlush ==
  \E ok \in BOOLEAN :
    /\ At("bl", "flush") /\ IoctlNfc("nfc", ok)
    /\ Goto(IF ok THEN "info" ELSE "close")
    /\ UNCHANGED <<chipKept, refs, session, ghostsKept>>

\* Both boot loaders must be of the kind that can be replaced; otherwise the
\* status is that of the open.
BlCompare ==
  \E info \in ChipInfos :
    LET vtp == installed.bl[info.key] IN
    /\ At("bl", "info")
    /\ nfc' = [nfc EXCEPT !.info = info,
              !.status = Result(info.bl # InvalidVer /\ vtp # InvalidVer),
              !.pc = IF info.bl # InvalidVer /\ vtp # InvalidVer /\ vtp # info.bl
                        /\ info.bl # OldBl /\ vtp # OldBl THEN "script" ELSE "close"]
    /\ UNCHANGED <<world, ghostsKept>>

\* All its commands are answered alike, and a thread told to stop may say what
\* the last read did: an answer to an earlier one, sent again, is as good.
execNciCmdChkRes(ok, written) == ok => written \/ nfcc.mode = "FW"

\* The boot loader is replaced by the last command, whose answer may be lost.
BlScript ==
  \E ok, written \in BOOLEAN :
    LET vtp == installed.bl[nfcc.key] IN
    /\ At("bl", "script")
    /\ written => nfcc.mode = "FW" /\ vtp # InvalidVer
    /\ vtp = InvalidVer \/ execNciCmdChkRes(ok, written)
    /\ nfcc' = IF written THEN [nfcc EXCEPT !.bl = vtp] ELSE nfcc
    /\ GotoWith("close", Result(ok))
    /\ UNCHANGED <<dlPin, se, refs, session, installed, callers, faults, hit, ghostsKept>>

BlClose ==
  /\ At("bl", "close") /\ CloseT1("nfc")
  /\ Leave("report")
  /\ UNCHANGED <<chipKept, faults, ghostsKept>>

BlReport ==
  /\ At("bl", "report")
  /\ nfc' = Idle
  /\ UNCHANGED <<world, ghostsKept>>

BlSteps == BlOpen \/ BlFlush \/ BlCompare \/ BlScript \/ BlClose \/ BlReport

FwSteps ==
  \/ FwOpen \/ FwFlush \/ FwChipInfo \/ FwChoose \/ FwPinOn \/ FwReopen \/ FwReset \/ FwInit
  \/ FwBlInfo \/ FwNothing \/ FwErase \/ FwWritten \/ FwScriptFails
  \/ FwDeinit \/ FwPinOff \/ FwHardReset \/ FwClose \/ FwReport
===============================================================================
