--------------------------------- MODULE SEApi --------------------------------
(***************************************************************************)
(* The access library to the secure element (7816/SEApi.c): one open       *)
(* device shared by every client in the process and counted by             *)
(* gSEOpenedCnt.  One mutex protects it, but seInit and seDeInit take the  *)
(* mutex several times; every action here is one locked section, and the   *)
(* sections of different threads interleave.                               *)
(*                                                                         *)
(* The clients are the threads of the secure element service:              *)
(*   Visitors  run getAtr (SecureElement.cpp, TmsEse.cpp): initialise the  *)
(*             library unless somebody else has, use it, and undo what     *)
(*             they did;                                                   *)
(*   Holders   run sInit, any number of transmit and sReset, sDeinit       *)
(*             (TmsEse.cpp);                                               *)
(*   Loaders   run the patch download's openChannel and closeChannel       *)
(*             (TmsRee.cpp).                                               *)
(* What the T=1 exchange of a section achieves is the subject of T1: here  *)
(* it succeeds or fails, and it fails when the device is not open.         *)
(***************************************************************************)
EXTENDS Integers, FiniteSets, FiniteSetsExt

CONSTANTS
  Visitors, Holders, Loaders,
  OpenMayFail,    \* open() of the device node can fail
  MemoryMayFail,  \* calloc can fail
  MaxOpened       \* bound: references counted, and those a thread has taken

Normal == Visitors \cup Holders
Threads == Normal \cup Loaders

ASSUME SEApiAssumption ==
  /\ Visitors \cap Holders = {} /\ Normal \cap Loaders = {}
  /\ OpenMayFail \in BOOLEAN /\ MemoryMayFail \in BOOLEAN
  /\ MaxOpened \in 1..255 /\ IsFiniteSet(Threads)

VARIABLES
  EseLibStatus,  \* gEseCtx.EseLibStatus; "ZERO" as the loader leaves it
  gSEOpenedCnt, gIsInitlized, gInitMode,
  device,        \* g_gsDeviceFd is an open descriptor
  gpDataRx,      \* the receive buffer is allocated
  pc,            \* the locked section a thread runs next
  status,        \* the local of the call a thread is in
  mode,          \* the initMode a thread asks for
  isInited,      \* the local of getAtr
  refs           \* ghost: references a thread took and has not given back,
                 \* or Overdrawn once it gave back one it did not have

lib   == <<EseLibStatus, gSEOpenedCnt, gIsInitlized, gInitMode, device, gpDataRx>>
local == <<pc, status, mode, isInited>>
vars  == <<lib, local, refs>>

Modes == {"NORMAL", "ESE_PTH_DL"}

Init ==
  /\ EseLibStatus = "ZERO" /\ gSEOpenedCnt = 0 /\ gIsInitlized = FALSE
  /\ gInitMode = "NORMAL" /\ device = FALSE /\ gpDataRx = FALSE
  /\ pc = [t \in Threads |-> "idle"]
  /\ status = [t \in Threads |-> "SUCCESS"]
  /\ mode = [t \in Threads |-> IF t \in Loaders THEN "ESE_PTH_DL" ELSE "NORMAL"]
  /\ isInited = [t \in Threads |-> FALSE]
  /\ refs = [t \in Threads |-> 0]

Goto(t, section) == pc' = [pc EXCEPT ![t] = section]
Return(t, s) == status' = [status EXCEPT ![t] = s]

Overdrawn == -1
Took(t) ==
  /\ refs[t] < MaxOpened
  /\ refs' = [refs EXCEPT ![t] = IF @ = Overdrawn THEN Overdrawn ELSE @ + 1]

-----------------------------------------------------------------------------
\* The locked section of seOpen.
Conflict(initMode) == (initMode = "NORMAL") # (gInitMode = "NORMAL")

SeOpenRefused(t) ==
  /\ EseLibStatus = "OPENED" /\ Conflict(mode[t])
  /\ Return(t, "BUSY")
  /\ UNCHANGED <<lib, refs>>

\* Mutant: a second user is not counted.
SeOpenAgainUncounted(t) ==
  /\ EseLibStatus = "OPENED" /\ ~Conflict(mode[t])
  /\ Return(t, "SUCCESS") /\ Took(t)
  /\ UNCHANGED lib

SeOpenAgain(t) ==
  /\ EseLibStatus = "OPENED" /\ ~Conflict(mode[t])
  /\ gSEOpenedCnt < MaxOpened
  /\ gSEOpenedCnt' = (gSEOpenedCnt + 1) % 256
  /\ Return(t, "SUCCESS") /\ Took(t)
  /\ UNCHANGED <<EseLibStatus, gIsInitlized, gInitMode, device, gpDataRx>>

SeOpenDevice(t) ==
  /\ EseLibStatus # "OPENED"
  /\ gInitMode' = mode[t]
  /\ \/ /\ EseLibStatus' = "OPENED" /\ device' = TRUE
        /\ gSEOpenedCnt' = (gSEOpenedCnt + 1) % 256
        /\ Return(t, "SUCCESS") /\ Took(t)
     \/ /\ OpenMayFail
        /\ EseLibStatus' = "ZERO" /\ device' = FALSE
        /\ Return(t, "FAILED")
        /\ UNCHANGED <<gSEOpenedCnt, refs>>
  /\ UNCHANGED <<gIsInitlized, gpDataRx>>

SeOpen(t) == SeOpenRefused(t) \/ SeOpenAgain(t) \/ SeOpenDevice(t)

-----------------------------------------------------------------------------
\* The second section of seInit.  Its cleanup closes the library whenever it
\* is not initialised, whether or not this call opened it.
Succeeds(t) == Return(t, "SUCCESS") /\ UNCHANGED <<gSEOpenedCnt, EseLibStatus,
                                                  gInitMode, device>>
Fails(t, s) == Return(t, s) /\ UNCHANGED <<gIsInitlized, gSEOpenedCnt,
                                          EseLibStatus, gInitMode, device>>

\* A client that was refused, or finds the library initialised, has nothing
\* to do.
SeInitNothing(t) ==
  /\ status[t] # "SUCCESS" \/ gIsInitlized
  /\ UNCHANGED <<lib, status>>

SeInitT1(t) ==
  /\ status[t] = "SUCCESS" /\ ~gIsInitlized
  /\ \/ /\ device
        /\ gIsInitlized' = TRUE /\ gpDataRx' = TRUE
        /\ Succeeds(t)
     \/ gpDataRx' = TRUE /\ Fails(t, "FAILED")
     \/ MemoryMayFail /\ ~gpDataRx /\ Fails(t, "MEM_EXCEPTION") /\ UNCHANGED gpDataRx

\* The larger buffer agreed on with the card does not fit: the library stays
\* initialised, without a buffer, and the caller is told it failed.
SeInitNoBuffer(t) ==
  /\ MemoryMayFail
  /\ status[t] = "SUCCESS" /\ ~gIsInitlized /\ device
  /\ gIsInitlized' = TRUE /\ gpDataRx' = FALSE
  /\ Return(t, "MEM_EXCEPTION")
  /\ UNCHANGED <<gSEOpenedCnt, EseLibStatus, gInitMode, device>>

SeInit(t) ==
  /\ SeInitNothing(t) \/ SeInitT1(t) \/ SeInitNoBuffer(t)
  /\ UNCHANGED refs

-----------------------------------------------------------------------------
\* The first section of seDeInit: the end-of-session exchange changes
\* nothing here, and the last user makes the library uninitialised.
\* Mutant: every user does.
SeDeInitForAll ==
  /\ gIsInitlized' = FALSE
  /\ UNCHANGED <<gSEOpenedCnt, EseLibStatus, gInitMode, device, gpDataRx>>

SeDeInit ==
  /\ gIsInitlized' = (gIsInitlized /\ gSEOpenedCnt > 1)
  /\ UNCHANGED <<gSEOpenedCnt, EseLibStatus, gInitMode, device, gpDataRx>>

\* seClose.
Decremented == IF gSEOpenedCnt > 0 THEN gSEOpenedCnt - 1 ELSE 0

\* Mutant: the last user leaves the count alone.
SeCloseUncounted ==
  CASE EseLibStatus = "CLOSED" -> UNCHANGED lib
    [] EseLibStatus # "CLOSED" /\ gSEOpenedCnt = 1 ->
         /\ EseLibStatus' = "CLOSED" /\ device' = FALSE
         /\ gIsInitlized' = FALSE /\ gpDataRx' = FALSE
         /\ UNCHANGED <<gInitMode, gSEOpenedCnt>>
    [] OTHER -> /\ gSEOpenedCnt' = Decremented
                /\ UNCHANGED <<EseLibStatus, gIsInitlized, gInitMode, device,
                               gpDataRx>>

SeClose ==
  CASE EseLibStatus = "CLOSED" -> UNCHANGED lib
    [] EseLibStatus # "CLOSED" /\ gSEOpenedCnt = 1 ->
         /\ EseLibStatus' = "CLOSED" /\ device' = FALSE
         /\ gIsInitlized' = FALSE /\ gpDataRx' = FALSE
         /\ gSEOpenedCnt' = Decremented
         /\ UNCHANGED gInitMode
    [] OTHER -> /\ gSEOpenedCnt' = Decremented
                /\ UNCHANGED <<EseLibStatus, gIsInitlized, gInitMode, device,
                               gpDataRx>>

\* Closing a closed library gives nothing back.  A deinitialisation is not
\* yet a close, and overdraws all the same.
GivesBack(t) ==
  refs' = [refs EXCEPT ![t] = IF @ = 0 /\ gSEOpenedCnt > 0 THEN Overdrawn ELSE @]
GaveBack(t) ==
  refs' = [refs EXCEPT ![t] = IF @ = Overdrawn \/ (@ = 0 /\ gSEOpenedCnt = 0)
                              THEN @ ELSE @ - 1]

-----------------------------------------------------------------------------
\* seGetATR does not ask whether the library is open; the ATR exchange
\* changes nothing here.
SeGetATR == UNCHANGED lib

\* seTransceive and seReset; a transceive on a closed library also clears
\* gIsInitlized.
SeUse ==
  /\ gIsInitlized' = (gIsInitlized /\ EseLibStatus # "CLOSED")
  /\ UNCHANGED <<gSEOpenedCnt, EseLibStatus, gInitMode, device, gpDataRx>>

-----------------------------------------------------------------------------
(***************************************************************************)
(* The clients.                                                            *)
(***************************************************************************)
\* getAtr: SeIsInitialized, and seInit unless it says yes.
VisitorChecks(t) ==
  /\ t \in Visitors /\ pc[t] = "idle"
  /\ isInited' = [isInited EXCEPT ![t] = FALSE]
  /\ Goto(t, IF gIsInitlized THEN "use" ELSE "open")
  /\ UNCHANGED <<lib, status, mode, refs>>

VisitorUses(t) ==
  /\ t \in Visitors /\ pc[t] = "use"
  /\ SeGetATR
  /\ Goto(t, IF isInited[t] THEN "deinit" ELSE "idle")
  /\ UNCHANGED <<status, mode, isInited, refs>>

OthersBegin(t) ==
  /\ t \in Holders \cup Loaders /\ pc[t] = "idle"
  /\ Goto(t, IF t \in Holders THEN "open" ELSE "openT1")
  /\ mode' = [mode EXCEPT ![t] = IF t \in Loaders THEN "ESE_PTH_DL" ELSE "NORMAL"]
  /\ UNCHANGED <<lib, status, isInited, refs>>

HolderUses(t) ==
  /\ t \in Holders \cup Loaders /\ pc[t] = "hold"
  /\ SeUse
  /\ UNCHANGED <<local, refs>>

HolderEnds(t) ==
  /\ t \in Holders \cup Loaders /\ pc[t] = "hold"
  /\ Goto(t, "deinit")
  /\ UNCHANGED <<lib, status, mode, isInited, refs>>

\* openT1; when it fails, openChannel closes the library all the same.
LoaderOpens(t) ==
  /\ pc[t] = "openT1"
  /\ SeOpen(t)
  /\ Goto(t, IF status'[t] = "SUCCESS" THEN "initT1" ELSE "lastClose")
  /\ UNCHANGED <<mode, isInited>>

\* initT1 initialises in the mode the library is in, read without its mutex.
LoaderReadsMode(t) ==
  /\ pc[t] = "initT1"
  /\ mode' = [mode EXCEPT ![t] = gInitMode]
  /\ Goto(t, "open")
  /\ UNCHANGED <<lib, status, isInited, refs>>

\* seInit, first section.
Opens(t) ==
  /\ pc[t] = "open"
  /\ SeOpen(t)
  /\ Goto(t, "init")
  /\ UNCHANGED <<mode, isInited>>

\* What follows a seInit.  initT1 answers a failure with seDeInit and seClose,
\* and openChannel with one more seClose.
AfterInit(t, s) ==
  IF s = "SUCCESS" THEN IF t \in Visitors THEN "use" ELSE "hold"
  ELSE IF t \in Loaders THEN "deinit" ELSE "idle"

Inits(t) ==
  /\ pc[t] = "init"
  /\ SeInit(t)
  /\ Goto(t, IF gIsInitlized' THEN AfterInit(t, status'[t]) ELSE "initClose")
  /\ isInited' = [isInited EXCEPT ![t] = gIsInitlized' /\ status'[t] = "SUCCESS"]
  /\ UNCHANGED mode

InitCloses(t) ==
  /\ pc[t] = "initClose"
  /\ SeClose /\ GaveBack(t)
  /\ Goto(t, AfterInit(t, status[t]))
  /\ UNCHANGED <<status, mode, isInited>>

DeInits(t) ==
  /\ pc[t] = "deinit"
  /\ SeDeInit /\ GivesBack(t)
  /\ Goto(t, "deinitClose")
  /\ UNCHANGED <<status, mode, isInited>>

DeInitCloses(t) ==
  /\ pc[t] = "deinitClose"
  /\ SeClose /\ GaveBack(t)
  /\ Goto(t, IF t \in Loaders THEN "close" ELSE "idle")
  /\ UNCHANGED <<status, mode, isInited>>

\* CloseT1: once after a success, twice after initT1 failed.
LoaderCloses(t) ==
  /\ pc[t] = "close"
  /\ SeClose /\ GaveBack(t)
  /\ Goto(t, IF status[t] = "SUCCESS" THEN "idle" ELSE "lastClose")
  /\ UNCHANGED <<status, mode, isInited>>

LoaderGivesUp(t) ==
  /\ pc[t] = "lastClose"
  /\ SeClose /\ GaveBack(t)
  /\ Goto(t, "idle")
  /\ UNCHANGED <<status, mode, isInited>>

Step(t) ==
  \/ VisitorChecks(t) \/ VisitorUses(t)
  \/ OthersBegin(t) \/ HolderUses(t) \/ HolderEnds(t)
  \/ LoaderOpens(t) \/ LoaderReadsMode(t) \/ Opens(t) \/ Inits(t) \/ InitCloses(t)
  \/ DeInits(t) \/ DeInitCloses(t) \/ LoaderCloses(t) \/ LoaderGivesUp(t)

Next == \E t \in Threads : Step(t)

Spec == Init /\ [][Next]_vars

-----------------------------------------------------------------------------
\* The device is open exactly while the library counts a user, and only an
\* open library counts as initialised: whatever the clients do, no
\* descriptor leaks and none is closed twice (SEApi.c:402-447).
OpenIffReferenced ==
  /\ device <=> EseLibStatus = "OPENED"
  /\ device <=> gSEOpenedCnt > 0
  /\ gIsInitlized => device

\* Every reference a client gives back is one it took.
OwnReferenceGivenBack == \A t \in Threads : refs[t] # Overdrawn

\* A client that was told its initialisation succeeded keeps an open and
\* initialised library until it ends its own use of it, whatever fails and
\* whatever the other clients start, abandon and end meanwhile, as long as
\* they give back only what they took: the locked sections of seInit and
\* seDeInit need not be one.
HolderKeepsLibrary ==
  OwnReferenceGivenBack =>
    \A t \in Threads :
      pc[t] = "hold" \/ (pc[t] = "use" /\ isInited[t]) => device /\ gIsInitlized

\* And then the library counts what its clients hold.
CountIsReferences ==
  OwnReferenceGivenBack =>
    gSEOpenedCnt = FoldSet(LAMBDA t, n : n + refs[t], 0, Threads)
=============================================================================
