-------------------------------- MODULE DlChip --------------------------------
(***************************************************************************)
(* What the downloads of tms-cos-dl-ree share: the two chips, the drivers  *)
(* that switch their pins, the references a process holds on the T=1       *)
(* library (SEApi), and the sessions, scripts and resets that run in a     *)
(* thread of their own (startThread, see CosPatch).                        *)
(*                                                                         *)
(* Two processes use the chips and no lock is between them: "nfc", the NFC *)
(* HAL, and "ese", the secure element HAL.                                 *)
(***************************************************************************)
EXTENDS Integers, FiniteSets

CONSTANTS
  Scenes,     \* where a behaviour starts: [chip: the key, bl and fw of the
              \* NFC controller, files: what is installed, see NfccDl,
              \* callers: who asks for downloads, see ChipDl]
  VenToggle,  \* ENABLE_VEN_TOGGLE: ChipHardReset does something
  MaxFaults   \* bound: how often a driver refuses

ASSUME DlChipAssumption == VenToggle \in BOOLEAN /\ MaxFaults \in Nat

InvalidVer == -1           \* INVALID_FW_VER
OldBl      == 0            \* boot loaders up to B2.06: their key is "T"
Processes  == {"nfc", "ese"}

VARIABLES
  dlPin,    \* the DL pin of the NFCC is up
  nfcc,     \* [mode, fw, bl, key]: what runs on the NFCC ("off", "BL", "FW"),
            \* the firmware and boot loader in its flash, and its key
  se,       \* [mode, whole]: what runs on the secure element, and its COS
  refs,     \* references of a process on the library (gSEOpenedCnt)
  session,  \* the T=1 session of a process with its chip is alive
  installed,  \* the update files
  callers,  \* who asks for downloads in this behaviour
  faults,
  hit       \* ghost: the NFC controller was left behind by something no
            \* download can repair (see PinReleased)

world == <<dlPin, nfcc, se, refs, session, installed, callers, faults, hit>>

ChipInit ==
  /\ dlPin = FALSE /\ hit = FALSE /\ faults = 0
  /\ \E s \in Scenes :
       /\ nfcc = [mode |-> IF s.chip.fw = InvalidVer THEN "BL" ELSE "FW",
                  fw |-> s.chip.fw, bl |-> s.chip.bl, key |-> s.chip.key]
       /\ installed = s.files /\ callers = s.callers
  /\ se = [mode |-> "COS", whole |-> TRUE]
  /\ refs = [p \in Processes |-> 0]
  /\ session = [p \in Processes |-> FALSE]

(***************************************************************************)
(* The library: seOpen, seInit, seDeInit and seClose count references, and *)
(* the device is closed with the last one.                                 *)
(***************************************************************************)
SeIsOpened(p) == refs[p] > 0

OpenT1(p, ok) ==
  /\ refs' = [refs EXCEPT ![p] = IF ok THEN @ + 1 ELSE @]
  /\ UNCHANGED session

CloseT1(p) ==
  /\ refs' = [refs EXCEPT ![p] = IF @ > 0 THEN @ - 1 ELSE 0]
  /\ session' = [session EXCEPT ![p] = @ /\ refs[p] > 1]

\* The reference of seInit; the session is over.
DeInitT1(p) ==
  /\ refs' = [refs EXCEPT ![p] = IF @ > 0 THEN @ - 1 ELSE 0]
  /\ session' = [session EXCEPT ![p] = FALSE]

\* seInit counts for itself; when it fails, that reference, the one of
\* openT1 and one more are given back.
InitT1(p, ok) ==
  /\ refs' = [refs EXCEPT ![p] = IF ok THEN @ + 1 ELSE 0]
  /\ session' = [session EXCEPT ![p] = ok]

(***************************************************************************)
(* The drivers.  A process that has closed the device cannot reach its     *)
(* driver any more (Ioctl, IoctlNfc).                                      *)
(***************************************************************************)
IoctlNfc(p, ok) ==
  /\ ok => SeIsOpened(p)
  /\ ~ok /\ SeIsOpened(p) => faults < MaxFaults
  /\ faults' = faults + (IF ~ok /\ SeIsOpened(p) THEN 1 ELSE 0)

\* What starts when power comes back (external).
Booted == IF dlPin \/ nfcc.fw = InvalidVer THEN "BL" ELSE "FW"

PowerCycled ==
  /\ nfcc' = [nfcc EXCEPT !.mode = Booted]
  /\ se' = [se EXCEPT !.mode = IF se.whole THEN "COS" ELSE "BL"]
  /\ session' = [q \in Processes |-> FALSE]

\* VEN_OFF, whose result nobody looks at, and VEN_ON, whose result is that
\* of the reset.  Both chips lose their power in between; when only the
\* second is refused they are left without.
ChipHardReset(p, off, on) ==
  IF ~VenToggle
    THEN off /\ on /\ UNCHANGED <<nfcc, se, session, faults, hit>>
    ELSE /\ IoctlNfc(p, off /\ on)
         /\ (off \/ on) => SeIsOpened(p)
         /\ hit' = (hit \/ ~off \/ ~on \/ (p = "ese" /\ dlPin))
         /\ \/ on /\ (off \/ nfcc.mode = "off") /\ PowerCycled
            \/ off /\ ~on /\ nfcc' = [nfcc EXCEPT !.mode = "off"]
               /\ session' = [q \in Processes |-> FALSE] /\ UNCHANGED se
            \/ ~off /\ (~on \/ nfcc.mode # "off") /\ UNCHANGED <<nfcc, se, session>>

\* NCI CORE_RESET with the vendor's mode 80, answered by the firmware, and
\* then the boot loader runs; the answer may be lost.
NfccSoftReset(ok) ==
  /\ ok => nfcc.mode = "FW"
  /\ nfcc' \in (IF ok THEN {} ELSE {nfcc}) \cup
               (IF nfcc.mode = "FW" THEN {[nfcc EXCEPT !.mode = "BL"]} ELSE {})

\* NCI reset, init and NFCEE_MODE_SET by the other process, for the secure
\* element HAL: it restarts in its boot loader.
EseSoftReset(ok) ==
  /\ ok => nfcc.mode = "FW"
  /\ se' \in (IF ok THEN {} ELSE {se}) \cup
             (IF nfcc.mode = "FW" THEN {[se EXCEPT !.mode = "BL"]} ELSE {})
  /\ session' = [session EXCEPT !["ese"] = FALSE]

(***************************************************************************)
(* The versions of the NFC controller.  info = [fw, bl, key]: each may be  *)
(* unknown, because the chip is in the wrong mode or an answer was lost.   *)
(***************************************************************************)
NoInfo == [fw |-> InvalidVer, bl |-> InvalidVer, key |-> "R"]

\* Without the OTP the key follows from the versions, or is guessed.
ComputeNfccChipInfo(fw, bl) ==
  [fw |-> fw, bl |-> bl,
   key |-> CASE bl = OldBl -> "T"
             [] bl # OldBl /\ fw # InvalidVer -> nfcc.key
             [] OTHER -> "R"]

GetNfccChipInfoFromFW ==
  {ComputeNfccChipInfo(fw, bl) :
     fw \in {InvalidVer} \cup (IF nfcc.mode = "FW" THEN {nfcc.fw} ELSE {}),
     bl \in {InvalidVer} \cup (IF nfcc.mode = "FW" THEN {nfcc.bl} ELSE {})}

\* GetOTP and GetBlVer, over T=1.
GetNfccChipInfoFromBL(p) ==
  IF nfcc.mode = "BL" /\ session[p]
    THEN {ComputeNfccChipInfo(InvalidVer, bl) : bl \in {InvalidVer, nfcc.bl}} \cup
         {[fw |-> InvalidVer, bl |-> bl, key |-> nfcc.key] : bl \in {InvalidVer, nfcc.bl}}
    ELSE {NoInfo}
===============================================================================
