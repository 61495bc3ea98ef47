-------------------------------- MODULE ChipDl --------------------------------
(***************************************************************************)
(* The downloads as the device runs them: the NFC HAL, which downloads     *)
(* what is needed when it is opened (tmsNciHalMinOpen) and whatever a      *)
(* service asks for; the secure element HAL; and the death of either       *)
(* process at any step, which the watchdog of the downloads and a close    *)
(* the chip does not answer bring about on purpose.                        *)
(***************************************************************************)
EXTENDS CosDl

VARIABLE hal    \* [at, failed, mine]: what tmsNciHalMinOpen does next, its
                \* configStatus, and whether the download is its own

vars == <<dlPin, nfcc, se, refs, session, installed, callers, faults, hit, nfc, claim, unsure, ese, hal>>

Closed == [at |-> "CLOSE", failed |-> FALSE, mine |-> FALSE]

Init == ChipInit /\ NfcInit /\ EseInit /\ hal = Closed

(***************************************************************************)
(* tmsNciHalOpen and tmsNciHalMinOpen, from the NCI reset on; the threads   *)
(* they start are those of TmlNfc.                                         *)
(***************************************************************************)
dlKept == <<nfc, claim, unsure, ese>>

Open ==
  /\ hal.at = "CLOSE" /\ "open" \in callers
  /\ hal' = [hal EXCEPT !.at = "ask"]
  /\ UNCHANGED <<world, dlKept>>

\* The key is read off the version of the firmware.
TryComputeNfccChipInfo(fw) == [NoInfo EXCEPT !.fw = fw, !.key = nfcc.key]

\* The file that decides need not be the one NfccFwDownload takes.
CheckFlashRequired ==
  LET info == TryComputeNfccChipInfo(nfcc.fw)
      vtp  == IF installed.plain # NoFile THEN installed.plain ELSE installed.fw IN
  \/ /\ vtp # NoFile /\ vtp[info.key] # InvalidVer
     /\ vtp[info.key] # info.fw \/ ~ChkVer
  \/ installed.cos["nfc"] # {}
  \/ installed.bl # NoFile

MinOpenAnswered ==
  /\ hal.at = "ask" /\ nfcc.mode = "FW"
  /\ hal' = [hal EXCEPT !.at = IF CheckFlashRequired THEN "fw" ELSE "OPEN"]
  /\ UNCHANGED <<world, dlKept>>

\* The NFCC does not come out of standby.
MinOpenStandby ==
  /\ hal.at = "ask"
  /\ hal' = [hal EXCEPT !.at = "fw", !.failed = TRUE]
  /\ UNCHANGED <<world, dlKept>>

\* It answers nonsense, and its power is switched off and on.
MinOpenPowerCycle ==
  \E ok \in BOOLEAN :
    /\ hal.at = "ask"
    /\ hal' = [hal EXCEPT !.at = "fw"]
    /\ IF ok THEN PowerCycled ELSE UNCHANGED <<nfcc, se, session>>
    /\ hit' = (hit \/ dlPin)
    /\ UNCHANGED <<dlPin, refs, installed, callers, faults, dlKept>>

\* force_download: the three routines, one after the other.
MinOpenDownload ==
  \/ FwBegin /\ UNCHANGED ese /\ hal.at = "fw" /\ hal' = [hal EXCEPT !.at = "cos", !.mine = TRUE]
  \/ CosBegin /\ hal.at = "cos" /\ hal' = [hal EXCEPT !.at = "bl", !.mine = TRUE]
  \/ BlBegin /\ UNCHANGED ese /\ hal.at = "bl" /\ hal' = [hal EXCEPT !.at = "done", !.mine = TRUE]

\* MinOpenComplete and OpenComplete, or clean_and_return.
MinOpenEnds ==
  /\ hal.at = "done" /\ ~hal.mine
  /\ hal' = IF hal.failed THEN Closed ELSE [Closed EXCEPT !.at = "OPEN"]
  /\ UNCHANGED <<world, dlKept>>

\* tmsNciHalClose resets the chip, and aborts when it does not answer.
Close ==
  /\ hal.at = "OPEN" /\ nfcc.mode = "FW"
  /\ hal' = Closed
  /\ UNCHANGED <<world, dlKept>>

\* A routine returns to tmsNciHalMinOpen.
Returned ==
  hal' = IF nfc.pc # "report" THEN hal
         ELSE [hal EXCEPT !.mine = FALSE,
                 !.failed = @ /\ ~(hal.mine /\ nfc.job = "fw" /\ nfc.status = "SUCCESS")]

(***************************************************************************)
(* The death of a process.                                                 *)
(***************************************************************************)
Died(p) ==
  /\ refs' = [refs EXCEPT ![p] = 0]
  /\ session' = [session EXCEPT ![p] = FALSE]
  /\ UNCHANGED <<dlPin, nfcc, se, installed, callers, faults>>

NfcHalDies ==
  /\ Died("nfc")
  /\ nfc' = Idle /\ hal' = Closed /\ claim' = "none" /\ unsure' = FALSE
  /\ hit' = (hit \/ nfc.job # "none")
  /\ UNCHANGED ese

SeHalDies ==
  /\ Died("ese")
  /\ ese' = EseIdle
  /\ UNCHANGED <<hit, nfc, claim, unsure, hal>>

(***************************************************************************)
(* The whole.                                                              *)
(***************************************************************************)
NfcSteps == (((FwSteps \/ BlSteps) /\ UNCHANGED ese) \/ CosSteps) /\ Returned

\* phTmsNciHalNfccFwDownload, doEseCosDownloadI2C and doNfccBlDownload.
ServiceDownload ==
  /\ "service" \in callers
  /\ ((FwBegin \/ BlBegin) /\ UNCHANGED ese) \/ CosBegin
  /\ UNCHANGED hal

MinOpenSteps ==
  MinOpenAnswered \/ MinOpenStandby \/ MinOpenPowerCycle \/ MinOpenDownload \/ MinOpenEnds

EseHalSteps == EseSteps /\ UNCHANGED hal

Next ==
  \/ Open \/ MinOpenSteps \/ Close \/ ServiceDownload \/ NfcSteps
  \/ (EseBegin /\ UNCHANGED hal) \/ EseHalSteps
  \/ NfcHalDies \/ SeHalDies

\* A routine that runs goes on; nobody has to start one, and nothing has to
\* die.
Fairness == WF_vars(NfcSteps) /\ WF_vars(EseHalSteps)

Spec == Init /\ [][Next]_vars /\ Fairness

(***************************************************************************)
(* Properties.                                                             *)
(***************************************************************************)
\* The firmware is that of the script for the key of the chip.
Current == installed.fw = NoFile \/ nfcc.fw = installed.fw[nfcc.key]

Update == INSTANCE ChipUpdate
  WITH busy  <- nfc.job = "fw",
       good  <- Current,
       claim <- claim

\* NfccFwDownload is an update of the chip as ChipUpdate promises it: the
\* firmware changes in no other routine, and a SUCCESS means that the firmware
\* is that of the script, whatever was lost or reset by the other process on
\* the way (tmsNfccDl.cpp:95-406).  Not so in the cases of `unsure`, where the
\* code says SUCCESS without knowing: after a refused flush the status is that
\* of the open (:145-156), and when initT1 has failed after a soft reset and the
\* driver refuses the reset by force it is that of the second open (:232,
\* 251-254), with the firmware as it was; and with a script that fits no block or
\* shows no version, or a thread told to stop.
FwUpdate == Update!Spec

\* What a routine did to reach the boot loader is undone before it returns,
\* whichever way it goes: the pin is down again, and a chip with a firmware
\* runs it.  Not claimed when the driver refused one of the calls that undo
\* it, the process died, the script fitted no block or was cut short, or
\* somebody else switched the power while the pin was up (hit).
PinReleased ==
  VenToggle /\ nfc.job = "none" /\ ~hit =>
    /\ ~dlPin
    /\ nfcc.fw # InvalidVer => nfcc.mode = "FW"

\* A routine that returned holds no reference on the library: the device is
\* closed, and the next open configures it anew (openT1 to CloseT1 of all
\* four routines, and what initT1 gives back when it fails).
NothingKept ==
  /\ nfc.job = "none" => refs["nfc"] = 0
  /\ ese.pc = "idle" => refs["ese"] = 0

\* Every routine returns, its retries by force included; the one of the
\* secure element HAL waits for those of the NFC HAL, which serves its reset.
DownloadsEnd ==
  /\ nfc.job # "none" ~> nfc.job = "none"
  /\ ese.pc # "idle" ~> (ese.pc = "idle" \/ nfc.job # "none")
===============================================================================
