# Verification of the THN31 vendor code (NFC and embedded secure element)

This directory specifies the control logic of `src/vnd/opensource/halimpl` in
TLA+, checks it with TLC on small instances and proves the most important
properties for every value of the constants with TLAPS. File names below are
relative to that directory.

## 1. The system

| Component | Code | State it keeps | Operations | Hard behaviour |
|---|---|---|---|---|
| T=1 block protocol | `tms_extns/7816-3-T1/T1.c`, `ph-driver/phDriver.c` | the `T1Params` of one exchange, sequence numbers and IFSC in `gEseCtx`, the receive list at `gHead` | `t1TransceiveApdu`, `t1CIPReq`, `t1ATRReq`, `t1IFSDeviceReq`, `t1PropEndApduReq` | blocks lost, garbled, late or out of sequence in any order; retries, resynchronisation, reset; commands and responses in pieces |
| Secure element access library | `tms_extns/7816-3-T1/SEApi.c` | `gSEOpenedCnt`, `gIsInitlized`, `gInitMode`, the device, the receive buffer | `seOpen`, `seInit`, `seTransceive`, `seReset`, `seGetAtr`, `seDeInit`, `seClose`, `DoReadTerminate` | one device shared by several clients and threads, taken and given back in several locked sections, each of which may fail |
| Secure element service | `secure_element/aidl` | open channels and their count, two "open in progress" flags, the callback, the retry thread | `init`, `getAtr`, `transmit`, `openLogicalChannel`, `openBasicChannel`, `closeChannel`, `reset`, death of the client | a detached retry thread beside the binder calls; clean-up when one of several steps fails |
| ITmsEse extension | `nfc/aidl/extns/.../TmsEse.cpp` | none of its own | `sInit`, `sDeinit`, `sReset`, `transmit`, `sGetAtr`, `doAction` | a second client of the access library; `doAction` starts patches and COS downloads |
| Chip update | `tms_extns/tms-cos-dl` | the script and the place in it, versions, the counter file of the patches, the script that is installed | `eseCosDlPth`, `NfccFwDownload`, `NfccBlDownload`, `eseCosDownloadI2C`, `eseCosDlSpi`, and the reset of the secure element over NCI | one status through many calls that may be refused; retries by force; threads that are told to stop; power cuts and aborts between steps; two processes at one chip without a lock |
| NFC transport | `nfc/THN31/halimpl/tml`, `Dal4Nfc_messageQueueLib.cc`, `OsalNfc_Timer.cc` | queues, semaphores, one read and one write request, timers | reader and writer threads, message loop | several threads, late answers, retransmission, shutdown |
| NFC control | `nfc/THN31/halimpl/hal` | HAL status, the control structure `gTmsNciHalCtrl`, callbacks | open, write, core initialisation, close, power cycle, ioctl | sequences of NCI commands with timeouts and recovery |
| NFC services | `nfc/1.1`, `nfc/1.2`, `nfc/aidl` | the callback | binder entry points | death of the client |
| Configuration, logging, thread wrappers | `utils/TmsConfig.cc`, `tms-utils`, `log`, `adaptation` | parsed values | reading files | none: sequential |

How the parts interact:

* The **T=1 exchange** is a leaf: `SEApi.c` calls it under its mutex, and it
  talks to the device node through `phDriver.c`. Nothing else calls it.
* The **access library** is used by three kinds of client in one process: the
  secure element service (`isSeInitialized`, `seInit`, `seTransceive`,
  `seReset`, `seDeInit`), the clients of `ITmsEse`, and the patch download
  (`openT1`, `initT1`, `CloseT1`). They share one reference count, one
  "initialised" flag, one mode and one receive buffer.
* The **service** adds the channels of its client to that, and a detached thread
  that keeps trying to initialise the secure element.
* The **NFC control** calls the transport (`tmlNfcRead`, `tmlNfcWrite`) and is
  called back by its client thread, which takes messages from the queue that the
  reader thread, the writer thread and the timers post to. Commands of the stack
  and of the HAL itself share one window, one command buffer, one receive buffer.
* The **chip update** is a client of both sides. The secure element HAL patches
  and replaces the COS over SPI; the NFC HAL replaces the firmware and the boot
  loader of the NFC controller, and the COS, over I2C, when it is opened and on
  request. Each process has its own copy of the access library; the chip, the
  download pin and the power are shared. To reset the secure element the
  secure element HAL asks the NFC HAL, whose reader is paused for it.

What makes each part correct:

* *T=1*: the command reaches the card whole and is executed once; the caller gets
  the response to its own command; recovery is bounded and escalates in order;
  every exchange ends.
* *Access library*: the device is open exactly while somebody uses it; a client
  keeps what it was given; nobody gives back what he did not take.
* *Service*: the library is initialised while a channel is open and released when
  the last one closes; the two records of open channels agree; calls return.
* *ITmsEse*: an initialisation that succeeded lasts until `sDeinit`.
* *Chip update*: an update that reports success has left the chip as the installed
  file wants it, whatever was refused or interrupted on the way; what it took (the
  library, the pin, the memory of its thread) it has given back; the number of
  patches is limited across restarts; an answer over NCI is to the command it is
  taken for, and the reader is awake again afterwards.
* *Transport*: no read request and no packet is lost, repeated or overwritten;
  shutdown waits for the threads before it frees what they use, and ends.
* *NFC control*: one unanswered command at the controller; every packet goes to
  the side it belongs to; the window comes back; calls return.

## 2. Modules

| Module | Models | State and actions |
|---|---|---|
| `T1` | the exchange loop of `T1.c` and the part of `phDriver.c` and `seTransceive` around it | `call`, `pc`, `tx` stand for where `transceiveProcess` is and the block it sends; `part`, `txDataOffset`, `isDeviceChaining` for the command; the four counters, the sequence numbers and `isResyncRecoveryFlag` by their names; `rxList` for the list at `gHead`. One action per send, per way a read can end, and per case of `t1DecodeFrame` and its recovery. The card may send any block at any read. |
| `T1Silent` | `T1` with a card that falls silent for good | adds `silent` |
| `T1Link` | `T1` composed with an ISO 7816-3 card (outside the repository) and a half-duplex line that loses and garbles blocks | the card's sequence numbers, what it has assembled and sent; histories for the properties |
| `SEApi` | `SEApi.c` and its clients: `getAtr`, `sInit`...`sDeinit`, the download's open and close | one action per locked section; `pc[t]` says which one thread `t` runs next; `refs` is a history of who took what |
| `SecureElement` | the AIDL service, EXTENDS `SEApi` | every binder call is a list `todo` of sections; the retry thread is a second worker; `held` is a history of what the client was given; with `AnswerMayBeLost` the card executes a MANAGE CHANNEL whose answer never comes |
| `TmlNfc` | reader, writer, client and HAL threads of the transport | one step per access to shared state: the two semaphores, the request records, the message queue, which `msgQueue` says is open, posted without a message, or freed; open, download during open, write, power cycle, close and failed open of the HAL thread. The client thread sleeps in `dal4NfcMsgRcv` (`ClientFetch`) and needs a message or the post of `dal4NfcMsgRelease` to leave; if the queue or the context was freed before it is back it is done, stuck or crashed (`ClientLost`, `ClientRead`, `ClientWrite`) |
| `NciHal` | `tmsNciHalWrite`, `tmsNciHalSendExtCmd` and the callbacks that route what comes back | window `win`, ext semaphore and flags, the two shared buffers, the timer, the message queue, the transport as `TmlNfc` shows it to be, a controller that answers, forgets and notifies. What `tmsNciHalProcessExtRsp` returns decides whether a packet goes up to the stack (`ExtSuccess`): those of kind `error` do not |
| `DlScript` | what a script says: its lines, sections, versions and commands (`tmsDlCommonUtils.cpp`) | operators only: `GetCosVerFromVtp`, `Commands`, and what one command leaves behind (`AfterApdu`, `AfterAssert`) |
| `CosPatch` | `eseCosDlPth`, its thread and `EseCosDlPthImpl`, EXTENDS `DlScript` | `up` is where the caller is, `pc` where the thread is, `rsp` and `doChk` what an ASSERT looks at, `dlData`, `dataFile` and `stored` the counters in memory, in the file and on the storage, `cos` how far the COS is written. The wait may return by itself (`SpuriousWake`); the file is truncated, written or neither (`CheckLimit`, `WriteDataFile`), and reaches the storage when the kernel likes (`Writeback`); `ProcessDies` takes the memory, `PowerFails` also what of the file was not stored |
| `DlChip` | what the downloads share: the chip, the pin, the power, the library of each process, the installed files | `nfcc`, `se`, `dlPin`, `refs`, `session`; one operator per call (`OpenT1`, `InitT1`, `ChipHardReset`, `NfccSoftReset`, `DlOn`, ...), with and without success |
| `NfccDl` | `NfccFwDownload` and `NfccBlDownload`, EXTENDS `DlChip` | `nfc.pc` is the label or call reached, `nfc` has the locals the code carries on; `claim` is what was reported, `unsure` that the code reported it without knowing; `installed.plain` is the other firmware file, which only `CheckFlashRequire` looks at |
| `CosDl` | `eseCosDownloadI2C` and `eseCosDlSpi`, EXTENDS `NfccDl` | the former runs in the NFC HAL in place of the other two; the latter (`ese`) in the secure element HAL, beside them |
| `ChipDl` | the whole: the downloads of `tmsNciHalMinOpen`, those of the extension service, the secure element HAL, the death of either process | `hal` is where the open is |
| `ChipUpdate` | the abstract specification: what every update promises | `busy`, `good`, `claim` |
| `EseReset` | `phTmsNciHalEseSoftReset`: three NCI commands past the stack, with the reader of `TmlNfc` paused | caller, thread, reader, client thread and controller; `wire` has the packets nobody has read |
| `T1Proofs`, `SEApiProofs`, `EseResetProofs`, `CosPatchProofs`, `ChipDlProofs`, `NciHalProofs`, `TmlNfcProofs` | theorems; `T1Proofs` has those of `T1Link`, `SEApiProofs` those of `SecureElement` | |
| `DataLemmas` | lemmas: induction over numbers and finite sets, sums over a finite set | |
| `MC_T1Link`, `MC_SEApi`, `MC_CosPatch`, `MC_ChipDl` | instances for TLC | `MC_T1Link` gives card blocks their contents, `MC_CosPatch` has its scripts line by line, `MC_ChipDl` nine scenes: a chip, the files installed and who calls |

`SecureElement` composes with `SEApi` by using its sections as they are, so that
another client's sections come in between. `T1Link` and `T1Silent` extend `T1`:
their card replaces the arbitrary one, its own actions stay. `NciHal` rests on
what `TmlNfc` shows of the transport (one read pending, packets in order, one
write at a time) instead of repeating its threads. `CosPatch` and `ChipDl` rest on
what `T1Silent` shows of the exchange (it ends, and may fail). `ChipDl` takes the
reset of the secure element as one step that works or does not; `EseReset` is
that step in full. `CosPatch` and `ChipDl` both implement `ChipUpdate`, by a
refinement mapping (`PatchUpdate`, `FwUpdate`):

| `ChipUpdate` | `CosPatch` | `ChipDl` |
|---|---|---|
| `busy` | the call of `eseCosDlPth` has not returned, or the thread it left behind has not ended (`~Over`) | `NfccFwDownload` has not returned |
| `good` | the COS is complete and of a version that is acceptable with the installed patch | no file is installed, or the firmware is that of the block for the key of the chip |
| `claim` | what the call returned, once both are over (`Claim`) | what the routine returned; `unsure` in the cases of section 5 |

Definitions preceded by "Mutant:" are wrong on purpose: each is a plausible bug
that one of the properties rules out, and no specification uses it.

## 3. What is checked

TLC runs (`tlc -config X.cfg M`), their question, and their bounds.

| Run | Instance | Shows | Bounds |
|---|---|---|---|
| `t1_silent` | `T1Silent`, `T1Silent_polls` | against any card, which may fall silent for good: types, retry limits, command blocks only in commands, the kept piece, order of escalation; recovery ends; no retry is given back | commands of 1 and 2 pieces, limits of 1: every counter reaches its limit, the list its capacity, and a reset happens between two retries |
| `t1_link` | `MC_T1Link`, `MC_T1Link_all` | own response, executed once, command intact, one fault masked, exchanges end | 5 exchanges, 3 pieces, responses of 3 blocks, 2 retries, 6 line faults, 1 host fault: more faults than the retries of one exchange mask, and exchanges enough for both ways in which one goes wrong by the fault of an earlier one (section 5) |
| `t1_stale` | `MC_T1Link`, `MC_T1Link_stale` | **violated**: response with blocks of an earlier command | 4 exchanges, responses of 2 blocks, 6 line faults |
| `seapi_clients` | `MC_SEApi`, `MC_SEApi_all` | the device is open iff it is counted; the count is that of the references taken | one client of each kind, every failure, 4 references: with three threads the cleanup of each can meet the open of each other |
| `se_careful` | `SecureElement`, `SecureElement_careful` | channels and their count; a close gives the library back when no channel is open and not before; calls return | all 4 channels, 2 tries, every exchange and initialisation may fail, the client may die |
| `se_shared` | `SecureElement`, `SecureElement_shared` | another client of the library keeps it beside the service | 2 channels, client closes anything, dies and registers again, answers lost |
| `tml_threads` | `TmlNfc`, `TmlNfc_all` | no lost request, packets in order, order of clean-up, returns (the failed open unless the client thread was caught in what it freed), arrival | 2 packets, 1 write, 1 power cycle, a download in the open: the race on each semaphore needs one token and one late one |
| `nci_calls` | `NciHal`, `NciHal_calls` | one command at the controller, routing, window, own answer, returns | 3 calls of any of five kinds, 1 packet of the controller's own, handed up or held back, 1 write retry: the effect of a call on the next two |
| `cos_patch` | `MC_CosPatch`, `CosPatch_all` | a patch is an update of `ChipUpdate`; a recovery that is reported in time has run whole; the thread does not outlive its operands unless the wait returned by itself; calls return | scripts of 2 and 3 blocks, for two keys and for one, or text, with and without an NCI command the COS refuses; 1 death of the process or power failure at any step; the wait of any call may return by itself; any exchange may fail; limits of 2 in 1 and 3 in 2 units of time |
| `cos_limit` | `MC_CosPatch`, `CosPatch_limit` | the limits hold across restarts, whatever becomes of the file | scripts of one command; the same limits, 6 units of time: each window ends and is reached, and a long one ends while a short one runs (in 5 units it could not, and a wrong bound of `2 * ShortCount - 1` held); 1 death or power failure, opening, writing and reading of the file may fail, the storage may be any number of writes behind |
| `downloads` | `MC_ChipDl`, `ChipDl_all` | a firmware download is an update of `ChipUpdate`; the pin comes down; no reference is kept; routines end | nine scenes: a chip that is behind, cut short, with the old boot loader or up to date, with files for its key, the other key or another chip; one refused call of a driver, any failed exchange, the death of either process at any step |
| `ese_reset` | `EseReset`, `EseReset_all` | an answer is to the reset it is taken for; the reader is not left asleep | 3 resets, 1 command sent again, 1 packet of the controller's own: late answers of the first are met by the second and third |

`CHECK_DEADLOCK FALSE` stands where the bounded system really stops: when the
bounded calls are used up, or the process has ended.

### Assumptions of the runs

* `ResetAfterFailure` (`T1Link`): after a failed exchange the caller resets the
  card before the next command. The secure element service does
  (`seHalResetSe`); without it the card and the device disagree about sequence
  numbers, and `transmit` of `ITmsEse` has no such rule.
* `Careful` and `Patient` (`SecureElement`): the client closes only channels it
  holds, opens the basic channel once, and waits for the retry thread. The
  Android framework does the first two; nothing in the code enforces any.
  `se_shared` drops `Careful`; without it `ClosesWithoutChannels` fails, and without
  `Patient`, `HeldChannelIsServed`, `ClosesWithoutChannels` and `CallReturns` do
  (section 5).
* `AnswerMayBeLost` (`SecureElement`): in `se_careful` a failed exchange was not
  executed by the card. With lost answers `CountIsChannels` fails (section 4);
  `ClosesWithoutChannels` holds, as section 4 proves for any number of them, and
  `se_shared` has lost answers too.
* `PatchAssumption` (`CosPatch`): no patch has the version of the base COS. An
  incomplete COS answers as the base, and would pass for such a patch.
* `ScenesAssumption` (`NfccDl`): a firmware's version shows its key
  (`tmsNfccDl.cpp:595-600`), so no block for the one key has the version of a chip
  or a block of the other, and the old boot loader takes the key `"T"`.
* A patch or a download may be cut off between any two steps, not within one: a boot
  loader is replaced as a whole, and of the few bytes of the counter file all are
  read, written or stored, or none.
* `spurious` (`OperandsOutliveThread`): calls whose wait returned by itself are left
  out, since there the code frees what its thread works on (section 5). Until such a
  thread has ended the model makes no other call; it goes on as if it had its
  operands, or the process dies. `PatchUpdate` and `CallReturns` hold of these calls
  too. The other routines that wait in `startThread` (`tmsCosReeSpiDl.cpp`,
  `tmsDlNciUtils.cpp`, `tmsNfccDl.cpp`) are modelled without such a return.
* Losses of the counters (`WithinLimit`): the account of what was run begins anew when
  the code goes on with counters other than the last ones, which happens when the file
  could not be opened, written or read, or had not reached the storage at a power
  failure.
* `given < 2` (`OwnAnswer` of `EseReset`): at most one reset before this one was
  given up; section 5 says what happens otherwise.
* `Overlap = FALSE` (`NciHal`): a command that the HAL answers itself
  (`tmsNciHalWriteExt`) writes the answer to `rspData` before any lock is taken,
  although the reader may be filling that buffer or the client thread using it.
  The run keeps the two apart; with `Overlap = TRUE`, `StackSeesItsPackets` fails:
  a packet is handed over twice or never.
* *In time or never* (`NciHal`): a timer expires under a waiting call only when
  the answer is not on its way any more. The code cannot tell a late answer from
  that to the next command, so without this assumption a response after the one
  second of `HAL_EXTNS_WRITE_RSP_TIMEOUT` satisfies the next command.
* `Losses = {"rsp"}` (`NciHal`): the controller may never send a response.
  With `"ntf"` as well, the timeout after a response that did come posts the
  window a second time and two commands pass (`OneCommandAtNfcc` fails).
* One thread calls the HAL and one binder call at a time enters the service, as
  the Android framework does it; the services would allow two.

### Fairness

`T1Silent`, `T1Link`: the calling thread runs (WF), and a read ends because its
polls and its time are limited (`T1.c:836`). Nothing is assumed of the card in
`T1Silent`; in `T1Link` a line that keeps losing blocks is allowed up to its
bound, and the card, which is part of `Exchange`, goes on answering. `SecureElement`: threads inside a call run; nobody is made
to call. `TmlNfc`: the scheduler runs every thread; `SF(ReaderTake)` says that
`i2cRead`, which is tried again after every two-second timeout, does not fail for
ever while a packet is there. Only `EveryPacketArrives` needs it: the return
of the HAL's calls does not depend on packets. `NciHal`: every thread runs, a timer
that may expire does, and the controller answers or is given up. `CosPatch`: the
caller and the thread run; the wait is limited (`tmsDlCommonUtils.cpp:1729`) and need
not return by itself, and an exchange ends, as `T1Silent` shows. `ChipDl`: a routine that runs goes on in either
process; nobody has to start one, and no process has to die. `EseReset` has
safety properties only.

## 4. What is proved

Seven modules of theorems and one of lemmas, for every value of the constants that
satisfies the named assumptions (`T1Assumption`, `SEApiAssumption`: limits are bytes,
sets are disjoint, threads finitely many; `T1LinkAssumption`: a response has a block; `EseResetAssumption`: bounds are numbers; `CosPatchAssumption`,
`PatchAssumption`, `ScenesAssumption` as above; `HalAssumption`: the kinds of call
are among the six there are, with `InTime`, the hypothesis of the theorems of
`NciHal`: `~Overlap` and no lost notification, as in its runs; `ResetAfterFailure` is
that of the theorems of `T1Link`, but not of the refinement; `RecoveryAsserted` that
of `RecoveredIsWhole`; `Alone` that of
`ClosesWithoutOpenChannels`, `HeldChannelServed` and `CountOfChannels`). The bounds of the runs are
constants too: the theorems hold for any number of resets, refusals, power
failures and calls.

| Theorem | States | Argument |
|---|---|---|
| `TypeCorrect` | `Spec => []TypeOK` of `T1` | one lemma per action; `TypeOK` is inductive because it also ties `pc`, `call` and the waiting blocks together |
| `RetriesStayBounded` | every counter of recovery stays within its limit | inductive with `TypeOK`; one lemma for the host, one for what is received |
| `CommandBlocksOnlyHolds` | a control exchange never turns to an I-block | inductive with `TypeOK`: the recovery of a control exchange always goes back to an S- or R-block |
| `KeptPieceStaysConsistent` | kept piece, offset and chaining bit agree | not inductive by itself: `CuttingInv` adds that the offset never passes the length and that nothing is kept between calls; `ReceiveLeavesCommand` shows that what is received either leaves the command alone, drops the piece, or starts it over |
| `EscalationTheorem` | resynchronisation and reset are last resorts, in order | action property from `TypeOK` and `RetriesBounded` |
| `LinkImplementsT1` | `LinkSpec => Spec`: the exchange with the ISO card is one of `T1` | step by step; what the card puts on the line is in `CardBlocks` (`LinkTyped`). So the five theorems above hold on the link too |
| `SilentImplementsT1`, `NoRetryIsRefundedHolds` | `SilentSpec => Spec`; `NoRetryIsRefunded` of `T1Silent` | a card that falls silent is one of the cards of `T1`, so `TypeOK` and the limits hold there; then one lemma for what the library does by itself, which leaves the counters alone within a call, and one for a read without data, which never lowers them. With the limits this is why recovery is finite; that the call does end is liveness |
| `ExecutedOnceHolds`, `CommandIntactHolds`, `OwnResponseHolds` | `ExecutedOnce`, `CommandIntact`, `OwnResponseIfClean` of `T1Link`, for commands and responses of any length, any retry limits, any number of exchanges and faults | one inductive invariant, `LinkInv`, of what each end knows of the other. Between commands they are `InTouch`. A command is `Open` until the card has taken the piece that is out, `Taken` until the device knows, `Executed` until the device has the last block; the sequence numbers tell which, so an R-block never has a piece taken twice. In `Executed`, the list holds the blocks of this response up to the one the card sent last or the one before (`Answering`). What is on the line is what the card says in that state (`IAnswer`, `RAnswer`, `SAnswer`); one lemma per step of the card and per case of the decoding. Two ways in which an exchange spoils a later one had to be named to make it inductive: `misled` and `adrift` (section 5) |
| `OneFaultIsMaskedHolds` | `OneFaultIsMasked` of `T1Link` under `ResetAfterFailure` and `MaxWait <= MaxWTXCnt`, for any length, any response and any retry limits, zero included | action property, from `LinkInv` and `OneInv`, which says what an exchange looks like while at most one block was lost or garbled and the host has not failed: the ends never lose touch (`CleanOK`); the answer is not the one the protocol has next (`Hit`) only from the fault until the device has gone on or asked to resynchronise, and then the fault is spent and no resynchronisation was asked for yet (`HitOK`), so the recovery never comes to its warm reset; every waiting time granted but one was asked for by the card (`WaitOK`); and a command fails only if it is longer than one block (`OneApduOK`). One lemma per step (`...StaysFew`), the sequence numbers of the phases ruling out the answers that would end the exchange. The second hypothesis is needed: a request for time repeated after a fault is counted twice, and with `MaxWait` one larger TLC finds the command given up |
| `DeviceIsOpenIffReferenced` | `OpenIffReferenced` of `SEApi` for any number of clients | `LibInv` adds the ranges of the library's own variables; one lemma per locked section; the clients' program counters do not matter, which is the point: no order of the sections breaks it |
| `CountOfReferences` | `CountIsReferences` of `SEApi`, for any finite set of clients | the sum over the clients changes by one with the client that moves (`SumChange`); `DataLemmas` has the induction over finite sets that this needs |
| `HolderAlwaysKeepsLibrary` | `HolderKeepsLibrary` among clients of `SEApi` that give back only what they took | a holder has a reference, the count is at least the sum of all references (`SumCovers`), so another's release never takes the last one |
| `DeviceIsOpenInService` | `OpenIffReferenced` beside the secure element service, with no condition on client, service, retry thread or anybody else | the locked sections of the service are those of `SEApi`; whatever order its programs run them in, `LibInv` stays |
| `ClosesWithoutOpenChannels` | `ClosesWithoutChannels` of `SecureElement` under `Alone`: `Careful`, `Patient`, and no client of `ITmsEse`. Exchanges, initialisations, opens of the device and answers may fail or be lost, for any number of retries. None of the three conditions is enforced by the code (section 5) | `ServedInv`. What a thread still has to run is a program: sections after which nothing follows end it, and the four stretches that move a channel stand alone (`ProgramOK`), so the sections that are left say where a call is (`Due`). What is held is marked, the marks are at most the count (`CountCovers`), and nothing is held wherever the library may go down, because the call that may take it down found it down (`HeldOK`) or because the count is zero. While the retry thread runs nothing is held |
| conditional results of `SEApiProofs`, not in the list of theorems | `HeldChannelServed`: `HeldChannelIsServed` (a channel the client holds has the library initialised; no run checks it) under `Alone`, from the same invariant; `HolderKeepsLibraryInService`: `HolderKeepsLibrary` beside the service, which has the references given back in its antecedent; `CountOfChannels`: `CountIsChannels` under `Alone` and `~AnswerMayBeLost` | they say that the bookkeeping is right for a client that behaves, and no more: each condition excludes a hazard the code has (section 5). `Alone` is needed also because a call takes no reference on a library it finds initialised, so beside a client of `ITmsEse` the service may depend on a reference that is not its own. `CountOfChannels` adds `MarkedInv`: a marked channel is open in the card and the library is up (`InCard`), but for the moment between the card's change and the section that takes the mark away (`MarksOK`); the channel of a MANAGE CHANNEL is not marked yet when it is counted (`FreshOK`), and what is left of a call at the death of the client (`DeathPrograms`) clears marks and count. Without `~AnswerMayBeLost` it fails: TLC shows a MANAGE CHANNEL handing out again the number of a channel whose close was executed but not answered, which is counted twice and marked once |
| `StackAlwaysHears` | `StackHears` of `EseReset` | not inductive: a token wakes the reader only to a request that is enabled. `HearsInv` adds `RequestKept` (once `nfccHalRestartThread` has enabled the request it stays so unless a packet is on its way to the client thread) and `PacketAnswered` (that packet is not dropped with the request disabled) |
| `OwnAnswerHolds` | `OwnAnswer` of `EseReset`, for any number of resets, retries and packets on the wire | the answers carry no number, so the invariant is about their order. In what the NFCC has sent and will send, `OwnInv` keeps a CORE_INIT of another call from standing before a switch of the mode (`NotBefore`), at each stage of a call: nothing that is lost, answered or taken by the reader on the way changes the order of the rest (`Kept`). After no reset that was given up there is no CORE_INIT left (`None`); the first one given up may leave one, but no switch behind it; a second one can put its switch behind the first one's CORE_INIT, and there the property ends |
| `PatchIsUpdate` | `CosPatch` implements `ChipUpdate` (`PatchUpdate`) | invariant with the step mapping: SUCCESS is only set where the version was read from the chip after the last write; what a script reports plays no part, which is why an APDU that never fails does no harm here; `PatchAssumption` tells a complete COS from the base |
| `OperandsAlwaysOutlive` | `OperandsOutliveThread` of `CosPatch`: calls whose wait did not return by itself | the caller frees only after the join or the signal; the thread is gone by then in every order of signal, timeout and SIGINT, wherever the process dies. What a wait that returned by itself does is in the model and in the invariant (`CallerOK`), and excluded by name in the property |
| `DownloadsStayWithinLimit` | `WithinLimit` of `CosPatch`, for any limits and periods, any number of deaths of the process and power failures, any scripts, since the counters were last lost | `LimitInv`: what each period has counted covers the runs since its start, the one that is counted and not yet run included, and after its end there are none (`Period`); what a stretch can hold from before a short period is bounded by `BeforeShort`, one limit less one, or two when the period began with a long one. This holds of the counters the code would go on with; when those of the file or of the storage are others the account is empty (`KnownTo`), so it holds of them too. Sums over stretches by `SumBound` of `DataLemmas` |
| `RecoveredIsWhole` | `RecoveredInTimeIsWhole` of `CosPatch` under `RecoveryAsserted`, for any other content of the scripts | `RecoveryInv`: from the APDU that completes the COS to the ASSERT on its answer, either the COS is complete or the flag and the buffer will make that ASSERT fail (`CompletedOrSeen`); a thread that is not to stop keeps running until it has given its result (`KillOK`), so the answer in the buffer is that of the APDU; and nobody says COS_RCV_SUCCESS but after the end of the script (`SaysRecovered`). `RecoveryAsserted` is about the recovery script, a file of the vendor: it has such an APDU and such an ASSERT and sends nothing after it, as the scripts of the run do. Without it nothing in the code looks at the chip again |
| `NothingIsKept` | `NothingKept` of `ChipDl` | the references of each process have a limit for every program counter (`NfcLimit`, `EseLimit`), the same for every way there; the clean-up that starts at a counter gives back that many |
| `FwIsUpdate` | `ChipDl` implements `ChipUpdate` (`FwUpdate`) | `FwInv`: what was read of the chip is true but for the key, which may be guessed (`InfoOK`); nothing is erased before the script (`FwOK`); SUCCESS means that the firmware is current, but for the reports marked `unsure`: those with the status of an open, with a script that fits no block or whose version cannot be read, and of a thread told to stop (section 5). With `ScenesAssumption` a wrong guess of the key cannot say "nothing to do". Half of the work is that no other routine, and no step of the other process, touches the firmware |
| `PinIsReleased` | `PinReleased` of `ChipDl` | `PinInv` (with `FwInv`): where a routine has not touched the chip yet, or has undone what it did (`Untouched`), the pin is down and the chip runs its firmware; on the way back, a routine that skips the hard reset has a chip that runs (`~NeedsReset`), and one that does it has put the pin down before, so power comes back to the firmware (`HardResetRuns`). Nothing has to be known of the way there. What no routine can repair is in `hit` |
| `OneCommandHolds`, `ExtOwnAnswerHolds`, `WindowComesBackHolds` | `OneCommandAtNfcc`, `ExtOwnAnswer` and, without presence checks, `WindowComesBack` of `NciHal`, for any number of calls, notifications and retries of a write, and any lost responses | `WindowInv` follows the right to have a command at the controller as a token: in the window, with the caller, with the command, with its response on the wire and in the buffer, or with the message of the timer, never in two of these places (`OneToken`). What a caller is woken by needs the rest: the notification after a reset is announced by the response before it (`Announced`, `OneNtf`), whatever is on its way belongs to the command that is out (`Own`), and the semaphore of the caller is posted once for each (`Awakening`). That the token is nowhere only while a response is lost (`Kept`) fails exactly for the presence check, whose response is rewritten (section 5) |
| `StackSeesItsPacketsHolds` | `StackSeesItsPackets` of `NciHal`, without presence checks, for any number of calls and notifications: the packets that answer no command of the HAL and whose status the extension reports as success | `RouteInv` on top of `WindowInv`: the stack has the first of the packets it is owed, the next is in the receive buffer and the others follow on the wire (`HandedUp`, by the rank of each). A packet wakes the HAL, or is held back by its status, exactly when it is not for the stack (`PacketRouted`): a response to the HAL finds its call asleep (`Answers`) with the flag up, what arrives while the flag is up belongs to that call (`Own`), and the notification of a reset was announced |
| `CloseFreesLastHolds` | `CloseFreesLast` of `TmlNfc` | `GoneInv`: past the joins the threads are gone and stay gone; on a close the client thread, on a failed open the flag that stops it and the post that wakes it, come before the end of the queue (`Releasing`) |
| `EnabledReadIsServedHolds` | `EnabledReadIsServed` of `TmlNfc` | `ServedInv`: an enabled request has a token, a reader on its way to look at it, or a caller on its way to the semaphore; once the threads have been woken to stop nobody sleeps on an empty semaphore |
| `PacketsOnceInOrderHolds` | `PacketsOnceInOrder` of `TmlNfc`, for any number of packets and writes | `FlowInv`: a request is in one place at a time (`OneRequest`), so the one buffer holds the packet that is to be delivered next and those on the wire follow it (`InOrder`). A power cycle or a download breaks `OneRequest`, which is why the property stops there; a failed open comes only after a download |

Every invariant and action property that a passing run checks is proved. Only
model-checked is liveness, which with its fairness is beyond the prover
(`CallEndsWhenSilent`, `ExchangeEnds`, `CallReturns`, `LastCloseReleases`,
`HalCallsReturn`, `EveryPacketArrives`, `CallsReturn`, `DownloadsEnd`). The induction
theorems of the library take an operator, which the prover cannot instantiate;
`DataLemmas` states induction with sets instead (`NaturalsByOne`,
`SubsetInduction`), which is how the sums over the clients and over the times of downloads are proved.

## 5. What the code does that its comments do not say

One property is violated, stating what a comment of the code promises;
`PROJECT.json` quotes the line.

* `t1_stale`: blocks of a failed exchange stay in the receive list and are
  returned in front of the response to the next command (`T1.c:2035`).

Five more steps do other than the comment beside them says. The models have them;
the properties named leave them out, by a condition or by a constant, and fail
without it:

* `NciHal`: the response to a presence check is rewritten to a notification
  (`TmsNciHal_ext.cc:288`) before `tmsNciHalReadComplete` looks whether the packet is a
  response (`TmsNciHal.cc:1050`, "Unblock next Write Command Window"), and the command
  window is not given back. With `"presence"` among the `Kinds`, `WindowComesBack` fails.
* `TmlNfc`: a failed open frees the context (`TmsNciHal.cc:624`) and then kills the
  client thread "safely" (`TmsNciHal.cc:338`, `373`); a message of the reader that this
  thread has still to handle looks up the context, which is NULL by then
  (`TmlNfc.cc:1045`). `CloseFreesLast` and `HalCallsReturn` leave this out.
* `SecureElement`: a close of channel 0 is counted whether or not the channel was open
  (`SecureElement.cpp:481`); at zero, "if there are no channels remaining" (`:491`), the
  library is given back under a logical channel that is open. With `Careful = FALSE`,
  `ClosesWithoutChannels` fails.
* `NfccDl`: a firmware download whose flush the driver refuses reports the SUCCESS of
  the open before it (`tmsNfccDl.cpp:145-156`), with the old firmware;
  `tmsNfccDl.cpp:91` says that SUCCESS is a download or the latest version. The
  report is `unsure`, which `FwUpdate` leaves out.
* `NfccDl`: an `initT1` that fails after a soft reset closes the device; the routine
  opens it again to try by force, the driver refuses that reset, and the routine reports
  the SUCCESS of the second open (`tmsNfccDl.cpp:232`, `251-254`; `tmsCosI2cDl.cpp:160`
  sets FAILED in the same place). `unsure` as well.

Seen while modelling, in the models where noted, and not the subject of a run:

* `T1`: a read ended by `DoReadTerminate` (called at `TmsRee.cpp:113`) leaves
  the SOF loop (`T1.c:846`) with SUCCESS and no data; no counter changes, and the
  block is sent again for as long as the flag stays set. `CallEndsWhenSilent`
  excludes it.
* `T1Link`: an exchange that ends with R(ack) and its retries used up is a success
  to `doT1RecoveryAtDecodeRFrame`. With blocks of an earlier exchange in the receive
  list it returns those as its response, although the card has half of the command
  and appends the next one to it (`misled`).
* `T1Link`: a control exchange that ends with an S(RESYNC response) succeeds, and
  `doT1RecoveryAtDecodeSFrame`, whose status nobody looks at (`T1.c:1064`), leaves
  the device's sequence numbers as they were although the card's are 0 again
  (`T1.c:1654`). The next command is recovered, but a response can lose its first
  block (`adrift`).
* `T1`: an S(IFS response) carries the PCB of a request (`T1.c:257`); `Pcb` models
  it.
* `T1`: `ResetForResyncRsp` forgets the kept piece without freeing it, against the
  comment at `T1.c:470-473`. A resynchronisation can be requested again in an
  exchange after any decoded block (`common.h:54-56`).
* `SEApi`: when the larger receive buffer cannot be allocated, the library stays
  initialised with a null buffer (`SeInitNoBuffer`), and the caller is told it
  failed. `transmit` of the service does not ask for the mode and may exchange
  blocks during a patch download. A download that is refused because the library
  is in use closes it with a reference it never took (`TmsRee.cpp:52`);
  `CountIsReferences` and `HolderKeepsLibrary` are stated without it.
* `SecureElement`: the retry thread calls `seHalDeInit` whenever it finds the
  library initialised (`SecureElement.cpp:611`), also when a channel that the client
  opened meanwhile depends on it. `openBasicChannel` returns early for an open basic channel
  (`SecureElement.cpp:339`) and leaves `OpenBasicChannelProcessing` set, after
  which no close releases the library; `LastCloseReleases` excludes that flag.
  A lost answer to a close makes the count drift upwards. `trySeInit` returns with
  `mMutex` locked when the thread is running (`SecureElement.cpp:627`), and `mTrySeInitCnt` is
  not reset when the thread gives up. A service that finds the library
  initialised by another client takes no reference, and its last close gives
  back the other's: `HolderKeepsLibrary` is stated for clients that give back
  only what they took.
* `TmlNfc`: `tmlNfcReadAbort` clears two flags and does not end the read
  (`TmlNfc.cc:860`); the reader may take an answer meant for the download, and the
  open may fail because the reader's message is still queued. A failed open wakes the
  client thread by the post in `dal4NfcMsgRelease` (`TmsNciHal.cc:374`), which frees the
  queue three milliseconds later and before the join: a thread that is not back by then
  finds its semaphore gone (`ClientLost`), and the open waits for it. `HalCallsReturn`
  excludes that and the freed context.
* `NciHal`: a packet for which `tmsNciHalProcessExtRsp` returns FAILED (60 07 01 E5, 60 07
  01 60, 61 21 00, a malformed 61 05) is not handed up (`TmsNciHal.cc:1043`):
  `StackSeesItsPackets` is about the others. The CORE_RESET_NTF of a power-on is held
  back too; it comes with an open or a power cycle, which `NciHal` does not have.
* `NciHal`: the status of a response is read from the shared buffer after the
  caller has been woken (`TmsNciHal_ext.cc:560`); a notification read in between
  hides a failure. A command that cannot get the window releases it all the same
  (`TmsNciHal.cc:940`), as if it held it.
* `EseReset`: over two resets that were given up, not necessarily in a row, late
  answers can line up so that a later one reports SUCCESS without having reset
  anything. One silent read takes the two seconds of the whole thread, so its
  retries hardly matter. The client thread clears `bThreadBusy` after a packet it
  had when the reader was paused (`TmlNfc.cc:423`), so the reader may be enabled again
  and take an answer. A write that is pending when the threads are paused is
  dropped, and its caller waits for the callback for ever; a refused flush leaves
  the threads paused.
* `CosPatch`: a patch that runs into its 60 seconds ends in SIGINT; the APDUs that
  remain are refused, which `tryExecCmd` turns into SUCCESS
  (`tmsCosPthDl.cpp:209`), and an ASSERT compares with an old 9000: a recovery may
  report `COS_RCV_SUCCESS` with the chip half written
  (`RecoveredInTimeIsWhole` excludes it; the next call sees it by the version). The
  signal of the thread may come before the wait for it, which has no predicate
  (`tmsDlCommonUtils.cpp:1725`) and then takes its whole time. For the same reason the
  wait may return by itself: the thread is detached while it runs, and
  `eseCosDlPth` frees the response, the result, the condition and the mutex it works
  with (`tmsCosPthDl.cpp:117-138`); `OperandsOutliveThread` excludes it (`spurious`).
  The counter file is truncated, written and closed without `fsync`, and the script
  runs whether or not that worked (`tmsDlCommonUtils.cpp:1325-1336`): a file that cannot
  be opened or written, or a power failure before the kernel has stored it, loses the
  counters, and the limits are counted anew. The end of
  a long period ends the short one with it (`tmsDlCommonUtils.cpp:1400-1405`), so
  three short periods can touch one stretch: up to `3 * ShortCount - 1` scripts run
  in the length of a short period, 29 with the 10 that the code allows.
* `ChipDl`, reports (`unsure`): besides the two above, a download that found nothing it
  could do (version of the file unreadable in the boot loader, boot loader not
  supported, script without a block for this key) reports success, against the comment
  at `tmsNfccDl.cpp:91-93`; one that is told to stop late may report success with half
  a firmware and without the reset that would show it.
* `ChipDl`, ways out: an `initT1` by force that fails closes the device, so the pin
  cannot be lowered over it any more. An `openT1` that fails in
  `eseCosDownloadI2C` gives back a reference it did not take. A failed script of the
  boot loader with an ASSERT compares with a response that was not filled. There is
  no lock between the processes, nor between a power cycle of `tmsNciHalMinOpen` and a
  download: power switched off just after a script ran leaves the chip in its boot
  loader although SUCCESS is reported; the next open finds it there. A COS
  download over I2C may take longer than the watchdog lets it live; the script is
  renamed only on success, so the next open starts it again.
* `tmsNciHalMinOpen`: when the retries of CORE_RESET or CORE_INIT end in a forced
  download, `configStatus` is still SUCCESS, and the open succeeds even if that
  download failed. When the answers time out instead, it is FAILED
  (`TmsNciHal.cc:522`), and if that download fails the open returns FAILED with
  `halStatus` OPEN and the threads running, without any clean-up. `clean_and_return`
  of `tmsNciHalOpen` unlocks a lock that is not held.

## 6. What is not modelled

* LRC and CRC, header lengths and the bytes of a frame: a block is usable or not.
* The HIDL services 1.0 to 1.2 of the secure element: their build file is
  disabled.
* `tms-cos-dl-tee`: a thin client of a vendor library that is not here.
* Configuration and logging: sequential; the values they yield are the constants.
* Thread wrappers: POSIX primitives; the models have the threads, semaphores and
  locks themselves.
* Retransmission in the transport, which every caller switches off
  (`TmlNfc.cc:175`), and the I2C framing of a packet.
* The bytes of versions, frames and scripts: a version is a number, a line of a
  script a header word and an argument. Of the counter file, a part of it read,
  written or stored.
* Of the NFC control: core initialisation, the retries of the close, OMAPI (whose
  answers go to a caller of their own), DTA and ioctls; of the open, what is not the decision to download (`ChipDl`) or the
  threads (`TmlNfc`).
* Binder, death notification as such, and `nfc/*`: glue, planned with the HAL's
  life cycle.

## 7. Plan

Done: the exchange (`T1`, `T1Silent`, `T1Link`), the access to the secure element
(`SEApi`, `SecureElement`), the transport and the commands of the NFC controller
(`TmlNfc`, `NciHal`), the updates (`DlScript`, `CosPatch`, `DlChip`, `NfccDl`, `CosDl`,
`ChipDl`, `EseReset`) and their abstract specification (`ChipUpdate`).

Left, most important first:

1. `NciLifeCycle`: `tmsNciHalMinOpen` in full (reset, init, retries),
   `tmsNciHalCoreInitialized`, `tmsNciHalClose` (reset retried, then abort),
   power cycle, emergency recovery and the `Nfc.cpp` services with the death of
   the client, over one abstract command per `tmsNciHalSendExtCmd`. Properties:
   states of the HAL and callbacks agree, an open or close ends in one of its
   documented states, a recovery does not repeat what was done.
2. Abstract specifications: `ApduExchange` (a command is executed at most once
   per attempt and answered by its own response or an error), implemented by
   `T1Link` up to the receive list; `Window` (a binary semaphore with an owner),
   implemented by `NciHal` (`OneToken` of `NciHalProofs` is its core).
3. Two binder threads in the HAL and in the service, with the copies made before
   the locks.
4. Theorems: that `T1Link` and `NciHal` implement the specifications of item 2, from
   `LinkInv` and the invariant of `StackSeesItsPackets`; and that the counters of
   recovery bound the blocks of one exchange, the safety half of `ExchangeEnds`.
