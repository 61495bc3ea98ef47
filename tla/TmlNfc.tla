-------------------------------- MODULE TmlNfc --------------------------------
(***************************************************************************)
(* The transport layer of the NFC HAL (tml/TmlNfc.cc) with the message     *)
(* queue and the client thread that runs its callbacks.  A reader thread,  *)
(* a writer thread, the client thread and the HAL's own thread share two   *)
(* counting semaphores, two request records and one receive buffer,        *)
(* without a lock.                                                         *)
(*                                                                         *)
(* Retransmission is switched off by every caller (TmlNfc.cc:175), so the  *)
(* branches it guards are left out.  So is postMsgSemaphore: the queue has *)
(* a mutex of its own.  What a failed write leads to is NciHal's.  The     *)
(* opens that fail before the client thread exists are left out.           *)
(***************************************************************************)
EXTENDS Naturals, Sequences

CONSTANTS
  MaxPackets,  \* bound: packets the NFCC sends
  MaxWrites,   \* bound: packets the HAL writes
  MaxResets,   \* bound: power cycles of the NFCC
  Downloads    \* whether MinOpen may find that it has to download firmware

ASSUME TmlAssumption ==
  /\ {MaxPackets, MaxWrites, MaxResets} \subseteq Nat
  /\ Downloads \in BOOLEAN

VARIABLES
  rx, tx,       \* rxSemaphore, txSemaphore
  readInfo, writeInfo,  \* [enable : bEnable, busy : bThreadBusy]
  rspData,      \* the packet in the HAL's only receive buffer
  context,      \* gpTmlNfcContext: "up", "shut" (bThreadDone = 0) or "freed"
  device,       \* pDevHandle is not NULL
  queue,        \* messages for the client thread, oldest first
  msgQueue,     \* their queue: "open", "posted" (no message, but a wake-up) or "freed"
  threadRunning, \* of the client thread
  cbData,       \* the writing HAL thread's semaphore
  reader, writer, client, hal,  \* where each thread is
  reading,      \* where each caller is inside tmlNfcRead
  wire,         \* packets of the NFCC that nobody has read
  delivered,    \* packets handed to tmsNciHalReadComplete
  direct,       \* a download has used the device behind the back of TML
  sent, writes, resets  \* the bounded counts

link    == <<wire, sent, direct>>
tml     == <<rx, tx, readInfo, writeInfo, rspData, context, device>>
halVars == <<hal, cbData, writes, resets, threadRunning>>
tmlVars == <<tml, halVars, queue, msgQueue, reader, writer, client, reading,
             link, delivered>>

Callers == {"hal", "client"}

TmlInit ==
  /\ rx = 0 /\ tx = 0 /\ rspData = 0
  /\ readInfo = [enable |-> FALSE, busy |-> FALSE]
  /\ writeInfo = [enable |-> FALSE, busy |-> FALSE]
  /\ context = "up" /\ device = TRUE
  /\ queue = <<>> /\ msgQueue = "open" /\ threadRunning = TRUE /\ cbData = "none"
  /\ reader = "loop" /\ writer = "loop" /\ client = "loop" /\ hal = "opening"
  /\ reading = [c \in Callers |-> "out"]
  /\ wire = <<>> /\ delivered = <<>> /\ direct = FALSE
  /\ sent = 0 /\ writes = 0 /\ resets = 0

-----------------------------------------------------------------------------
\* The NFCC sends a packet.
NfccSend ==
  /\ device /\ sent < MaxPackets
  /\ sent' = sent + 1 /\ wire' = Append(wire, sent + 1)
  /\ UNCHANGED <<tml, halVars, queue, msgQueue, reader, writer, client, reading,
                 direct, delivered>>

-----------------------------------------------------------------------------
(***************************************************************************)
(* tmlNfcRead.  The request is enabled before the semaphore is looked at,  *)
(* and the semaphore is posted only when it is 0.  The context is looked   *)
(* up at every access: once it is freed, the pointer is NULL.              *)
(***************************************************************************)
ReadAccepted == context # "freed" /\ device /\ ~readInfo.busy

TmlReadStart(c) ==
  /\ readInfo' = [readInfo EXCEPT !.busy = TRUE]
  /\ reading' = [reading EXCEPT ![c] = "enable"]

ReadEnable(c) ==
  /\ reading[c] = "enable"
  /\ readInfo' = [readInfo EXCEPT !.enable = TRUE]
  /\ reading' = [reading EXCEPT ![c] = "value"]
  /\ UNCHANGED <<rx>>

ReadGetValue(c) ==
  /\ reading[c] = "value"
  /\ reading' = [reading EXCEPT ![c] = IF rx = 0 THEN "post" ELSE "out"]
  /\ UNCHANGED <<rx, readInfo>>

ReadPost(c) ==
  /\ reading[c] = "post"
  /\ rx' = rx + 1
  /\ reading' = [reading EXCEPT ![c] = "out"]
  /\ UNCHANGED readInfo

\* Mutant: tmlNfcRead looks at the semaphore before it enables the request.
ReadStepLateEnable(c) ==
  /\ \/ /\ reading[c] = "enable"
        /\ reading' = [reading EXCEPT ![c] = IF rx = 0 THEN "post" ELSE "value"]
        /\ UNCHANGED <<rx, readInfo>>
     \/ /\ reading[c] \in {"value", "post"}
        /\ readInfo' = [readInfo EXCEPT !.enable = TRUE]
        /\ rx' = IF reading[c] = "post" THEN rx + 1 ELSE rx
        /\ reading' = [reading EXCEPT ![c] = "out"]
  /\ UNCHANGED <<tx, writeInfo, rspData, context, device, halVars, queue,
                 msgQueue, reader, writer, client, link, delivered>>

ReadStep(c) ==
  /\ ReadEnable(c) \/ ReadGetValue(c) \/ ReadPost(c)
  /\ client' = IF context = "freed" THEN "crashed" ELSE client
  /\ UNCHANGED <<tx, writeInfo, rspData, context, device, halVars,
                 queue, msgQueue, reader, writer, link, delivered>>

-----------------------------------------------------------------------------
\* tmlNfcTmlThread, one step per access to what it shares.
ReaderKeeps == UNCHANGED <<tx, writeInfo, context, device, halVars, msgQueue,
                           writer, client, reading, sent, direct, delivered>>

ReaderLoop ==
  /\ reader = "loop"
  /\ reader' = IF context = "up" THEN "wait" ELSE "done"
  /\ ReaderKeeps
  /\ UNCHANGED <<rx, readInfo, rspData, queue, wire>>

ReaderWait ==
  /\ reader = "wait" /\ rx > 0
  /\ rx' = rx - 1 /\ reader' = "check"
  /\ ReaderKeeps
  /\ UNCHANGED <<readInfo, rspData, queue, wire>>

ReaderCheck ==
  /\ reader = "check"
  /\ reader' = IF readInfo.enable /\ device THEN "read" ELSE "loop"
  /\ ReaderKeeps
  /\ UNCHANGED <<rx, readInfo, rspData, queue, wire>>

\* Mutant: a failed read does not wake the reader again.
ReaderErrorForgets ==
  /\ reader = "read"
  /\ reader' = "loop"
  /\ ReaderKeeps
  /\ UNCHANGED <<rx, readInfo, rspData, queue, wire>>

\* i2cRead fails or sees nothing for two seconds: try again.
ReaderError ==
  /\ reader = "read"
  /\ rx' = rx + 1 /\ reader' = "loop"
  /\ ReaderKeeps
  /\ UNCHANGED <<readInfo, rspData, queue, wire>>

ReaderTake ==
  /\ reader = "read" /\ device /\ wire # <<>>
  /\ rspData' = Head(wire) /\ wire' = Tail(wire)
  /\ reader' = "post"
  /\ ReaderKeeps
  /\ UNCHANGED <<rx, readInfo, queue>>

\* Mutant: the reader reads on without waiting for the next tmlNfcRead.
ReaderPostReadsOn ==
  /\ reader = "post"
  /\ queue' = Append(queue, "read")
  /\ rx' = rx + 1
  /\ reader' = "loop"
  /\ ReaderKeeps
  /\ UNCHANGED <<readInfo, rspData, wire>>

\* The request is done; tmlNfcDeferredCall posts a message that points at the
\* static transactionInfo, which points at the buffer.
ReaderPost ==
  /\ reader = "post"
  /\ readInfo' = [readInfo EXCEPT !.enable = FALSE]
  /\ queue' = Append(queue, "read")
  /\ reader' = "loop"
  /\ ReaderKeeps
  /\ UNCHANGED <<rx, rspData, wire>>

Reader == \/ ReaderLoop \/ ReaderWait \/ ReaderCheck \/ ReaderError
          \/ ReaderTake \/ ReaderPost

-----------------------------------------------------------------------------
\* tmlNfcTmlWriterThread.
WriterKeeps == UNCHANGED <<rx, readInfo, rspData, context, device, halVars,
                           msgQueue, reader, client, reading, link, delivered>>

WriterLoop ==
  /\ writer = "loop"
  /\ writer' = IF context = "up" THEN "wait" ELSE "done"
  /\ WriterKeeps /\ UNCHANGED <<tx, writeInfo, queue>>

WriterWait ==
  /\ writer = "wait" /\ tx > 0
  /\ tx' = tx - 1
  /\ IF writeInfo.enable /\ device
       THEN writer' = "write" /\ writeInfo' = [writeInfo EXCEPT !.enable = FALSE]
       ELSE writer' = "loop" /\ UNCHANGED writeInfo
  /\ WriterKeeps /\ UNCHANGED queue

WriterWrite ==
  /\ writer = "write"
  /\ queue' = Append(queue, "write")
  /\ writer' = "loop"
  /\ WriterKeeps /\ UNCHANGED <<tx, writeInfo>>

Writer == WriterLoop \/ WriterWait \/ WriterWrite

-----------------------------------------------------------------------------
(***************************************************************************)
(* pTmsNciHalClientThread with the three messages the transport's life     *)
(* depends on.  tmsNciHalReadComplete uses the buffer, then reads again,   *)
(* unless the HAL is closing and this is the last answer.                  *)
(***************************************************************************)
ClientKeeps == UNCHANGED <<rx, tx, rspData, context, device, hal,
                           writes, resets, reader, writer, link>>

HalIsClosing == hal \in {"closing", "abort", "shutdown", "wake", "unplug",
                         "join", "joinClient", "closed"}

ClientLoop ==
  /\ client = "loop" /\ reading["client"] = "out"
  /\ client' = IF threadRunning THEN "fetch" ELSE "done"
  /\ ClientKeeps
  /\ UNCHANGED <<queue, msgQueue, readInfo, writeInfo, threadRunning, cbData,
                 reading, delivered>>

\* dal4NfcMsgRcv sleeps until somebody posts; then the thread looks whether it
\* is to run on before it looks at the message.
ClientFetch ==
  /\ client = "fetch" /\ msgQueue # "freed"
  /\ \/ /\ queue # <<>>
        /\ client' = IF threadRunning THEN Head(queue) ELSE "done"
        /\ queue' = Tail(queue)
     \/ /\ queue = <<>> /\ msgQueue = "posted"
        /\ client' = "done" /\ UNCHANGED queue
  /\ ClientKeeps
  /\ UNCHANGED <<msgQueue, readInfo, writeInfo, threadRunning, cbData, reading,
                 delivered>>

\* The queue was freed before the thread was back from dal4NfcMsgRcv: it finds
\* its way out in what was freed, sleeps on, or the process dies.
ClientLost ==
  /\ client = "fetch" /\ msgQueue = "freed"
  /\ client' \in {"done", "stuck", "crashed"}
  /\ ClientKeeps
  /\ UNCHANGED <<queue, msgQueue, readInfo, writeInfo, threadRunning, cbData,
                 reading, delivered>>

ClientRead ==
  /\ client = "read"
  /\ readInfo' = [readInfo EXCEPT !.busy = FALSE]
  /\ client' = IF context = "freed" THEN "crashed" ELSE "deliver"
  /\ ClientKeeps
  /\ UNCHANGED <<queue, msgQueue, writeInfo, threadRunning, cbData, reading,
                 delivered>>

ClientDeliver ==
  /\ client = "deliver"
  /\ delivered' = Append(delivered, rspData)
  /\ client' = "loop"
  /\ \/ ReadAccepted /\ TmlReadStart("client")
     \/ /\ ~ReadAccepted \/ HalIsClosing
        /\ UNCHANGED <<readInfo, reading>>
  /\ ClientKeeps
  /\ UNCHANGED <<queue, msgQueue, writeInfo, threadRunning, cbData>>

ClientWrite ==
  /\ client = "write"
  /\ writeInfo' = [writeInfo EXCEPT !.busy = FALSE]
  /\ cbData' = "posted"
  /\ client' = IF context = "freed" THEN "crashed" ELSE "loop"
  /\ ClientKeeps
  /\ UNCHANGED <<queue, msgQueue, readInfo, threadRunning, reading, delivered>>

\* tmsNciHalKillClientThread, on NCI_HAL_CLOSE_CPLT_MSG.
ClientClose ==
  /\ client = "close"
  /\ threadRunning' = FALSE /\ client' = "loop"
  /\ ClientKeeps
  /\ UNCHANGED <<queue, msgQueue, readInfo, writeInfo, cbData, reading, delivered>>

Client == \/ ClientLoop \/ ClientFetch \/ ClientLost
          \/ ClientRead \/ ClientDeliver \/ ClientWrite \/ ClientClose

-----------------------------------------------------------------------------
(***************************************************************************)
(* The HAL thread: tmsNciHalMinOpen, with the download it may decide on,   *)
(* then writes and power cycles, one at a time, then tmsNciHalClose.       *)
(***************************************************************************)
HalKeeps == UNCHANGED <<rspData, threadRunning, msgQueue, reader, writer,
                        client, sent, delivered>>
HalAt(from, to) == hal = from /\ hal' = to /\ reading["hal"] = "out"

HalFirstRead ==
  /\ HalAt("opening", "init")
  /\ ReadAccepted /\ TmlReadStart("hal")
  /\ HalKeeps
  /\ UNCHANGED <<rx, tx, writeInfo, context, device, queue, cbData, writes,
                 resets, wire, direct>>

HalOpened ==
  /\ HalAt("init", "open")
  /\ HalKeeps
  /\ UNCHANGED <<tml, queue, reading, cbData, writes, resets, wire, direct>>

\* force_download: tmlNfcReadAbort, then the downloads use the device.
Aborted == [enable |-> FALSE, busy |-> FALSE]
HalDownload ==
  /\ Downloads /\ HalAt("init", "download")
  /\ readInfo' = Aborted /\ direct' = TRUE
  /\ HalKeeps
  /\ UNCHANGED <<rx, tx, writeInfo, context, device, queue, reading, cbData,
                 writes, resets, wire>>

HalDownloadRead ==
  /\ hal = "download" /\ wire # <<>>
  /\ wire' = Tail(wire)
  /\ HalKeeps
  /\ UNCHANGED <<tml, hal, queue, reading, cbData, writes, resets, direct>>

\* The read is pended again; if TML is busy, the whole open fails.
HalReadAgain ==
  /\ \/ HalAt("download", "open") /\ ReadAccepted /\ TmlReadStart("hal")
     \/ HalAt("download", "failing") /\ ~ReadAccepted
        /\ UNCHANGED <<readInfo, reading>>
  /\ HalKeeps
  /\ UNCHANGED <<rx, tx, writeInfo, context, device, queue, cbData, writes,
                 resets, wire, direct>>

\* tmlNfcWrite, and the wait for its callback in tmsNciHalWriteUnlocked.
HalWrite ==
  /\ HalAt("open", "writing")
  /\ writes < MaxWrites /\ ~writeInfo.busy
  /\ writes' = writes + 1
  /\ writeInfo' = [enable |-> TRUE, busy |-> TRUE]
  /\ tx' = tx + 1 /\ cbData' = "waiting"
  /\ HalKeeps
  /\ UNCHANGED <<rx, readInfo, context, device, queue, reading, resets, wire,
                 direct>>

HalWritten ==
  /\ HalAt("writing", "open") /\ cbData # "waiting"
  /\ cbData' = "none"
  /\ HalKeeps
  /\ UNCHANGED <<tml, queue, reading, writes, resets, wire, direct>>

\* tmlNfcIoCtl(TMLNFC_POWER_RESET): readFlag is taken before the reset and
\* compared with the request after it.
HalPowerCycle ==
  /\ HalAt("open", IF readInfo.enable THEN "resetRead" ELSE "reset")
  /\ resets < MaxResets
  /\ resets' = resets + 1
  /\ HalKeeps
  /\ UNCHANGED <<tml, queue, reading, cbData, writes, wire, direct>>

HalPowered ==
  /\ HalAt("resetRead", "open") \/ HalAt("reset", "open")
  /\ IF hal = "resetRead" /\ ~readInfo.enable
       THEN readInfo' = [readInfo EXCEPT !.enable = TRUE] /\ rx' = rx + 1
       ELSE UNCHANGED <<readInfo, rx>>
  /\ HalKeeps
  /\ UNCHANGED <<tx, writeInfo, context, device, queue, reading, cbData,
                 writes, resets, wire, direct>>

HalClose ==
  /\ HalAt("open", "closing")
  /\ HalKeeps
  /\ UNCHANGED <<tml, queue, reading, cbData, writes, resets, wire, direct>>

HalCloseComplete ==
  /\ HalAt("closing", "abort")
  /\ queue' = Append(queue, "close")
  /\ HalKeeps
  /\ UNCHANGED <<tml, reading, cbData, writes, resets, wire, direct>>

\* tmlNfcReadAbort, tmlNfcWriteAbort.
HalAbort ==
  /\ HalAt("abort", "shutdown")
  /\ readInfo' = Aborted /\ writeInfo' = Aborted
  /\ HalKeeps
  /\ UNCHANGED <<rx, tx, context, device, queue, reading, cbData, writes,
                 resets, wire, direct>>

\* tmlNfcShutdown: stop the threads, wake them, close the device, join them.
HalStop ==
  /\ HalAt("shutdown", "wake") \/ HalAt("failing", "wakeF")
  /\ context' = "shut"
  /\ HalKeeps
  /\ UNCHANGED <<rx, tx, readInfo, writeInfo, device, queue, reading, cbData,
                 writes, resets, wire, direct>>

\* Mutant: tmlNfcShutdown wakes the writer only.
HalWakeWriter ==
  /\ HalAt("wake", "unplug") \/ HalAt("wakeF", "unplugF")
  /\ tx' = tx + 1
  /\ HalKeeps
  /\ UNCHANGED <<rx, readInfo, writeInfo, context, device, queue, reading,
                 cbData, writes, resets, wire, direct>>

HalWake ==
  /\ HalAt("wake", "unplug") \/ HalAt("wakeF", "unplugF")
  /\ rx' = rx + 1 /\ tx' = tx + 1
  /\ HalKeeps
  /\ UNCHANGED <<readInfo, writeInfo, context, device, queue, reading, cbData,
                 writes, resets, wire, direct>>

HalUnplug ==
  /\ HalAt("unplug", "join") \/ HalAt("unplugF", "joinF")
  /\ device' = FALSE
  /\ HalKeeps
  /\ UNCHANGED <<rx, tx, readInfo, writeInfo, context, queue, reading, cbData,
                 writes, resets, wire, direct>>

HalJoin ==
  /\ HalAt("join", "joinClient") \/ HalAt("joinF", "cleanUpF")
  /\ reader = "done" /\ writer = "done"
  /\ HalKeeps
  /\ UNCHANGED <<tml, queue, reading, cbData, writes, resets, wire, direct>>

\* Mutant: the context is freed before the client thread is joined.
HalCleanUpEarly ==
  /\ HalAt("joinClient", "closed")
  /\ context' = "freed" /\ queue' = <<>> /\ msgQueue' = "freed"
  /\ UNCHANGED <<rx, tx, readInfo, writeInfo, rspData, device, threadRunning,
                 reader, writer, client, reading, cbData, writes, resets, link,
                 delivered>>

\* pthread_join(clientThread), tmlNfcCleanUp, dal4NfcMsgRelease.
HalCleanUp ==
  /\ HalAt("joinClient", "closed")
  /\ client = "done"
  /\ context' = "freed" /\ queue' = <<>> /\ msgQueue' = "freed"
  /\ UNCHANGED <<rx, tx, readInfo, writeInfo, rspData, device, threadRunning,
                 reader, writer, client, reading, cbData, writes, resets, link,
                 delivered>>

(***************************************************************************)
(* A failed open (tmsNciHalMinOpenClean) works the other way round: the    *)
(* context goes first; then the client thread is told to stop and woken,   *)
(* its queue is freed three milliseconds later, and only then it is joined.*)
(***************************************************************************)
FailedCleanUp ==
  /\ HalAt("cleanUpF", "killF")
  /\ context' = "freed"
  /\ HalKeeps
  /\ UNCHANGED <<rx, tx, readInfo, writeInfo, device, queue, reading, cbData,
                 writes, resets, wire, direct>>

FailedKill ==
  /\ HalAt("killF", "postF")
  /\ threadRunning' = FALSE
  /\ UNCHANGED <<tml, queue, msgQueue, reader, writer, client, reading, cbData,
                 writes, resets, link, delivered>>

\* dal4NfcMsgRelease: the post, and after the sleep the end of the queue.
FailedPost ==
  /\ HalAt("postF", "freeF")
  /\ msgQueue' = "posted"
  /\ UNCHANGED <<tml, queue, threadRunning, reader, writer, client, reading,
                 cbData, writes, resets, link, delivered>>

FailedFree ==
  /\ HalAt("freeF", "joinClientF")
  /\ msgQueue' = "freed" /\ queue' = <<>>
  /\ UNCHANGED <<tml, threadRunning, reader, writer, client, reading, cbData,
                 writes, resets, link, delivered>>

FailedJoin ==
  /\ HalAt("joinClientF", "closed")
  /\ client = "done"
  /\ HalKeeps
  /\ UNCHANGED <<tml, queue, reading, cbData, writes, resets, wire, direct>>

Closing == \/ HalCloseComplete \/ HalAbort \/ HalStop \/ HalWake \/ HalUnplug
           \/ HalJoin \/ HalCleanUp
           \/ FailedCleanUp \/ FailedKill \/ FailedPost \/ FailedFree
           \/ FailedJoin

Hal == \/ HalFirstRead \/ HalOpened \/ HalDownload \/ HalDownloadRead
       \/ HalReadAgain \/ HalWrite \/ HalWritten \/ HalPowerCycle \/ HalPowered
       \/ HalClose \/ Closing

-----------------------------------------------------------------------------
\* The threads are those of one process.
Alive == client # "crashed"

TmlNext ==
  /\ Alive
  /\ \/ NfccSend \/ Reader \/ Writer \/ Client \/ Hal
     \/ \E c \in Callers : ReadStep(c)

(***************************************************************************)
(* The scheduler runs every thread; i2cRead returns after two seconds, and *)
(* does not fail for ever while a packet is there; a call of the HAL, once *)
(* made, goes on.  Whether the NFCC sends, and whether the HAL writes,     *)
(* power cycles or closes, is left open.                                   *)
(***************************************************************************)
TmlFairness ==
  /\ WF_tmlVars(Alive /\ Reader) /\ SF_tmlVars(Alive /\ ReaderTake)
  /\ WF_tmlVars(Alive /\ Writer)
  /\ WF_tmlVars(Alive /\ (Client \/ ReadStep("client")))
  /\ WF_tmlVars(Alive /\ (\/ HalFirstRead \/ HalReadAgain \/ HalWritten \/ HalPowered
                          \/ Closing \/ ReadStep("hal")))

TmlSpec == TmlInit /\ [][TmlNext]_tmlVars /\ TmlFairness

-----------------------------------------------------------------------------
(***************************************************************************)
(* A read request cannot be lost: while one is enabled and its caller is   *)
(* out of tmlNfcRead, the reader is not asleep on an empty semaphore.  The *)
(* post that tmlNfcRead skips when the semaphore is not 0 (TmlNfc.cc:823)  *)
(* would lose it if the reader could take that token too early.            *)
(***************************************************************************)
EnabledReadIsServed ==
  (readInfo.enable /\ \A c \in Callers : reading[c] = "out")
    => ~(reader = "wait" /\ rx = 0)

(***************************************************************************)
(* One buffer and one static record carry every packet from the reader to  *)
(* the client, yet, as long as nobody resets the NFCC or aborts the read   *)
(* for a download, each packet is delivered once, in order, unchanged.     *)
(***************************************************************************)
PacketsOnceInOrder ==
  (resets = 0 /\ ~direct) =>
    \A i \in 1..Len(delivered) : delivered[i] = i

(***************************************************************************)
(* tmsNciHalClose never frees the context or the queue under a thread that *)
(* uses it: it joins the reader, the writer and the client first.  The     *)
(* reader and the writer are safe from a failed open too.                  *)
(***************************************************************************)
HalHasFailed == hal \in {"failing", "wakeF", "unplugF", "joinF", "cleanUpF",
                         "killF", "postF", "freeF", "joinClientF"}

CloseFreesLast ==
  context = "freed" =>
    /\ reader = "done" /\ writer = "done"
    /\ ~HalHasFailed => client = "done" /\ reading["client"] = "out"

(***************************************************************************)
(* A write and a close return, whatever the threads were doing: no join    *)
(* waits on a thread that nobody wakes.  A failed open returns as well,    *)
(* unless the client thread was caught in the queue or the context that    *)
(* the open freed under it.                                                *)
(***************************************************************************)
HalCallsReturn ==
  /\ hal = "writing" ~> hal # "writing"
  /\ hal = "closing" ~> hal = "closed"
  /\ hal = "failing" ~> hal = "closed" \/ client \in {"stuck", "crashed"}

(***************************************************************************)
(* Every packet the NFCC sends reaches the HAL if it stays open: the read  *)
(* is always armed again, whatever was reset meanwhile.                    *)
(***************************************************************************)
EveryPacketArrives == wire # <<>> ~> (wire = <<>> \/ HalIsClosing \/ HalHasFailed)

=============================================================================
