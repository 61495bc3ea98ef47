---------------------------------- MODULE T1 ----------------------------------
(***************************************************************************)
(* The device side of the ISO 7816-3 T=1 block protocol (7816/T1.c) that   *)
(* carries APDUs between the secure element HAL and the embedded secure    *)
(* element ("the card").  One exchange at a time: the loop                 *)
(* transceiveProcess sends a block (pc = "send"), reads the card's answer  *)
(* (pc = "read"), and the answer or its absence decides the next block.    *)
(* The card is arbitrary here: at every read it may send any block of      *)
(* CardBlocks, send garbage, or stay silent.  T1Link puts an ISO card and  *)
(* a faulty line in its place.                                             *)
(*                                                                         *)
(* txFrameType and the two sub-type fields are one variable, tx, because   *)
(* the code reads a sub-type only under the frame type it belongs to;      *)
(* nextT1State is only ever compared with STATE_IDEL, which is             *)
(* pc = "done".                                                            *)
(***************************************************************************)
EXTENDS Integers, Sequences

CONSTANTS
  Inf,            \* contents of a card I-block
  IFSCs,          \* information field sizes a card may announce
  MaxLen,         \* longest command, in the unit of IFSCs
  MaxRecoveryCnt, \* gEseCtx.maxRecoveryCnt
  MaxBlkRetryCnt, \* gEseCtx.maxBlkRetryCnt
  MaxWTXCnt,      \* gEseCtx.maxWTXCnt
  RxCapacity,     \* bound: blocks the heap holds before calloc fails
  TimeoutFirst    \* readTimeout can elapse before maxReadRetryCnt reads

\* The counters are bytes; a WTX limit of 255 would let wtxCnt wrap.
ASSUME T1Assumption ==
  /\ IFSCs \subseteq Nat
  /\ MaxLen \in Nat \ {0}
  /\ MaxRecoveryCnt \in Nat /\ MaxRecoveryCnt <= 255
  /\ MaxBlkRetryCnt \in Nat /\ MaxBlkRetryCnt <= 255
  /\ MaxWTXCnt \in Nat /\ MaxWTXCnt < 255
  /\ RxCapacity \in Nat
  /\ TimeoutFirst \in BOOLEAN

VARIABLES
  call,                 \* what initiated the exchange; "none" between calls
  pc,                   \* where transceiveProcess is
  tx,                   \* the block it sends next, or sent last
  txLen, txDataOffset,  \* command length, and how much of it was cut so far
  part,                 \* pDataTxPart: the piece kept for retransmission
  isDeviceChaining, isCardChaining,
  recoveryCnt, cipRecoveryCnt, blkRetryCnt, wtxCnt,
  seqNumDevice, seqNumCard, isSeqNumDR, isResyncRecoveryFlag,
  maxIFSC, isT1ExtHdrLen, isReadDone,
  gIsInitlized,         \* a CIP of seInit has succeeded since the open
  rxList,               \* the list at gHead
  status,               \* what transceiveProcess returns
  rsp                   \* what the last seTransceive handed to its caller

command  == <<txLen, txDataOffset, part, isDeviceChaining>>
retries  == <<recoveryCnt, cipRecoveryCnt, wtxCnt>>
seqs     == <<seqNumDevice, seqNumCard, isSeqNumDR>>
received == <<isCardChaining, rxList>>
cardInfo == <<maxIFSC, isT1ExtHdrLen>>
session  == <<call, isReadDone, gIsInitlized, rsp, blkRetryCnt>>
vars == <<command, retries, seqs, received, cardInfo, session,
          pc, tx, status, isResyncRecoveryFlag>>

-----------------------------------------------------------------------------
SBlocks == {"RESYNC_REQ", "IFS_REQ", "IFS_RSP", "WTX_RSP", "CIP_REQ",
            "END_REQ", "ATR_REQ"}
RBlocks == {"R_ACK", "R_PARITY", "R_OTHER"}
TxBlocks == {"I"} \cup RBlocks \cup SBlocks

\* The exchanges that are not commands and the S-block each starts with.
\* INIT is the warm reset of seInit, CIP that of seReset and of seDeInit.
FirstBlock == [INIT |-> "CIP_REQ", CIP |-> "CIP_REQ", ATR |-> "ATR_REQ",
               IFSD |-> "IFS_REQ", END |-> "END_REQ"]
ControlCalls == DOMAIN FirstBlock

CardBlocks ==
       [type : {"I"}, seq : {0, 1}, more : BOOLEAN, inf : Inf]
  \cup [type : {"R"}, seq : {0, 1}, err : {"ack", "parity", "other", "unknown"}]
  \cup [type : {"S"}, sub : {"RESYNC_RSP", "IFS_RSP", "ABORT", "WTX_REQ",
                             "END_RSP", "HARD_RESET_RSP", "undefined"}]
  \cup [type : {"S"}, sub : {"IFS_REQ"}, ifsc : IFSCs]
  \cup [type : {"S"}, sub : {"CIP_RSP", "ATR_RSP"}, valid : BOOLEAN,
        ifsc : IFSCs, ext : BOOLEAN]

NoPart == [held |-> FALSE, from |-> 0, to |-> 0]
NoRsp == [ok |-> FALSE, data |-> <<>>]
NoWire == [kind |-> "none", seq |-> 0, more |-> FALSE, from |-> 0, to |-> 0]

\* pDataTx is set for the whole of a command and only then.
IsApdu == call = "APDU"

\* t1SendSFrame, case IFS_RSP, builds its PCB from IFS_REQ.
Pcb(kind) == IF kind = "IFS_RSP" THEN "IFS_REQ" ELSE kind

\* The block the card has before it while the device reads.  I-blocks carry
\* N(S), R-blocks N(R).  An I-block without a piece was never written.
Wire ==
  IF pc # "read" \/ (tx = "I" /\ ~part.held) THEN NoWire
  ELSE [kind |-> Pcb(tx),
        seq  |-> IF tx = "I" THEN seqNumDevice
                 ELSE IF tx \in RBlocks THEN seqNumCard ELSE 0,
        more |-> tx = "I" /\ isDeviceChaining,
        from |-> IF tx = "I" THEN part.from ELSE 0,
        to   |-> IF tx = "I" THEN part.to ELSE 0]

Goto(kind) == pc' = "send" /\ tx' = kind /\ UNCHANGED status
Finish(s) == pc' = "done" /\ status' = s /\ UNCHANGED tx
FreeTxPartMem == part' = NoPart

-----------------------------------------------------------------------------
Init ==
  /\ call = "none" /\ pc = "idle" /\ tx = "I" /\ status = "SUCCESS"
  /\ txLen = 0 /\ txDataOffset = 0 /\ part = NoPart
  /\ isDeviceChaining = FALSE /\ isCardChaining = FALSE
  /\ recoveryCnt = 0 /\ cipRecoveryCnt = 0 /\ blkRetryCnt = 0 /\ wtxCnt = 0
  /\ seqNumDevice = 0 /\ seqNumCard = 0 /\ isSeqNumDR = FALSE
  /\ isResyncRecoveryFlag = FALSE
  /\ maxIFSC = 0 /\ isT1ExtHdrLen = FALSE /\ isReadDone = FALSE
  /\ gIsInitlized = FALSE
  /\ rxList = <<>> /\ rsp = NoRsp

\* A fresh T1Params (zeroed by FreeT1Params), and transceiveProcess clears
\* isReadDone.
NewT1Params(kind, first, len) ==
  /\ pc = "idle"
  /\ call' = kind /\ pc' = "send" /\ tx' = first
  /\ txLen' = len /\ isDeviceChaining' = (len > maxIFSC)
  /\ isReadDone' = FALSE /\ rsp' = NoRsp
  /\ UNCHANGED <<txDataOffset, part, retries, blkRetryCnt, seqs, cardInfo,
                 received, status, isResyncRecoveryFlag, gIsInitlized>>

\* The end of an exchange frees its T1Params; status is cleared with it.
FreeT1Params ==
  /\ call' = "none" /\ pc' = "idle" /\ tx' = "I" /\ status' = "SUCCESS"
  /\ txLen' = 0 /\ txDataOffset' = 0 /\ part' = NoPart
  /\ isDeviceChaining' = FALSE /\ isCardChaining' = FALSE
  /\ recoveryCnt' = 0 /\ cipRecoveryCnt' = 0 /\ blkRetryCnt' = 0 /\ wtxCnt' = 0
  /\ UNCHANGED <<seqs, cardInfo, isReadDone, isResyncRecoveryFlag>>

\* t1TransceiveApdu, from seTransceive.
BeginApdu(len) ==
  /\ gIsInitlized
  /\ NewT1Params("APDU", "I", len)

\* t1CIPReq, t1ATRReq, t1IFSDeviceReq and t1PropEndApduReq.
BeginControl(kind) ==
  /\ kind = "INIT" => ~gIsInitlized
  /\ kind = "IFSD" => gIsInitlized /\ isT1ExtHdrLen
  /\ NewT1Params(kind, FirstBlock[kind], 0)

\* seClose by the last user, then seOpen: the context is zeroed and read
\* again from the configuration.  The receive list is not part of it.
Reopen ==
  /\ pc = "idle"
  /\ seqNumDevice' = 0 /\ seqNumCard' = 0 /\ isSeqNumDR' = FALSE
  /\ isResyncRecoveryFlag' = FALSE /\ isReadDone' = FALSE
  /\ maxIFSC' = 0 /\ isT1ExtHdrLen' = FALSE /\ gIsInitlized' = FALSE
  /\ UNCHANGED <<command, retries, received, call, pc, tx, status, rsp,
                 blkRetryCnt>>

\* The tail of t1TransceiveApdu and seTransceive: only a successful exchange
\* collects and destroys the receive list (t1RecvDataGet).
ReturnApdu ==
  /\ pc = "done" /\ IsApdu
  /\ FreeT1Params
  /\ IF status = "SUCCESS"
     THEN /\ rsp' = [ok |-> rxList # <<>>, data |-> rxList]
          /\ rxList' = <<>>
     ELSE UNCHANGED <<rsp, rxList>>
  /\ UNCHANGED gIsInitlized

ReturnControl ==
  /\ pc = "done" /\ ~IsApdu
  /\ FreeT1Params
  /\ rsp' = [ok |-> status = "SUCCESS", data |-> <<>>]
  /\ gIsInitlized' = (gIsInitlized \/ (call = "INIT" /\ status = "SUCCESS"))
  /\ UNCHANGED rxList

\* DoReadTerminate, from another thread and without the library's mutex.
DoReadTerminate ==
  /\ pc # "idle"
  /\ isReadDone' = TRUE
  /\ UNCHANGED <<command, retries, seqs, received, cardInfo, call, rsp,
                 gIsInitlized, blkRetryCnt, pc, tx, status, isResyncRecoveryFlag>>

-----------------------------------------------------------------------------
\* t1SendIFrame cuts the next piece of the command unless one is kept.
CutChains == txLen - txDataOffset > maxIFSC
CutTo == IF CutChains THEN txDataOffset + maxIFSC ELSE txLen
NextPart == IF part.held THEN part
            ELSE [held |-> TRUE, from |-> txDataOffset, to |-> CutTo]
NextChaining == IF part.held THEN isDeviceChaining ELSE CutChains

KeepPart ==
  IF tx = "I"
  THEN /\ part' = NextPart
       /\ txDataOffset' = IF part.held THEN txDataOffset ELSE CutTo
       /\ isDeviceChaining' = NextChaining
       /\ UNCHANGED txLen
  ELSE UNCHANGED command

\* CIP_REQ drops the extended header for itself and its answer.
HeaderAfterSend ==
  isT1ExtHdrLen' = (isT1ExtHdrLen /\ tx # "CIP_REQ")

SendUnchanged ==
  UNCHANGED <<retries, seqs, received, maxIFSC, call, isReadDone, gIsInitlized,
              rsp, tx, isResyncRecoveryFlag>>

Send ==
  /\ pc = "send"
  /\ KeepPart /\ HeaderAfterSend
  /\ pc' = "read" /\ blkRetryCnt' = 0
  /\ SendUnchanged /\ UNCHANGED status

\* PhWrite gives up, or an S- or R-block finds no memory, in which case
\* CIP_REQ has not dropped the extended header yet: bounded retries.
SendFails ==
  /\ pc = "send"
  /\ KeepPart
  /\ HeaderAfterSend \/ (tx # "I" /\ UNCHANGED isT1ExtHdrLen)
  /\ IF blkRetryCnt >= MaxBlkRetryCnt
     THEN pc' = "done" /\ status' = "FAILED" /\ UNCHANGED blkRetryCnt
     ELSE blkRetryCnt' = blkRetryCnt + 1 /\ UNCHANGED <<pc, status>>
  /\ SendUnchanged

\* An I-block that finds no memory is reported as sent: nothing is on the
\* wire, and the read that follows waits for an answer to nothing.
SendIFrameNoMemory ==
  /\ pc = "send" /\ tx = "I" /\ ~part.held
  /\ isDeviceChaining' = CutChains
  /\ pc' = "read" /\ blkRetryCnt' = 0
  /\ SendUnchanged
  /\ UNCHANGED <<status, txLen, txDataOffset, part, isT1ExtHdrLen>>

-----------------------------------------------------------------------------
\* doT1RecoveryAtUndecode: nothing usable was received.
AwaitsSResponse == tx \in SBlocks \ {"WTX_RSP"}

\* Mutant: warm resets of one exchange are not counted.
RecoverUncountedReset ==
  IF recoveryCnt < MaxRecoveryCnt
  THEN /\ recoveryCnt' = recoveryCnt + 1
       /\ Goto(IF AwaitsSResponse THEN tx ELSE "R_PARITY")
       /\ UNCHANGED <<cipRecoveryCnt, isResyncRecoveryFlag>>
  ELSE /\ Goto(IF isResyncRecoveryFlag THEN "CIP_REQ" ELSE "RESYNC_REQ")
       /\ isResyncRecoveryFlag' = TRUE
       /\ UNCHANGED <<recoveryCnt, cipRecoveryCnt>>

\* Mutant: the retries start again with the resynchronisation.
RecoverRefunded ==
  IF recoveryCnt < MaxRecoveryCnt
  THEN /\ recoveryCnt' = recoveryCnt + 1
       /\ Goto(IF AwaitsSResponse THEN tx ELSE "R_PARITY")
       /\ UNCHANGED <<cipRecoveryCnt, isResyncRecoveryFlag>>
  ELSE /\ recoveryCnt' = 0 /\ isResyncRecoveryFlag' = TRUE
       /\ UNCHANGED cipRecoveryCnt
       /\ IF isResyncRecoveryFlag THEN Finish("FAILED") ELSE Goto("RESYNC_REQ")

RecoverUndecoded ==
  IF recoveryCnt < MaxRecoveryCnt
  THEN /\ recoveryCnt' = recoveryCnt + 1
       /\ Goto(IF AwaitsSResponse THEN tx ELSE "R_PARITY")
       /\ UNCHANGED <<cipRecoveryCnt, isResyncRecoveryFlag>>
  ELSE /\ UNCHANGED recoveryCnt
       /\ \/ /\ ~AwaitsSResponse /\ ~isResyncRecoveryFlag
             /\ isResyncRecoveryFlag' = TRUE
             /\ Goto("RESYNC_REQ")
             /\ UNCHANGED cipRecoveryCnt
          \/ /\ isResyncRecoveryFlag /\ cipRecoveryCnt < MaxRecoveryCnt
             /\ Goto("CIP_REQ")
             /\ cipRecoveryCnt' = cipRecoveryCnt + 1
             /\ UNCHANGED isResyncRecoveryFlag
          \/ /\ IF isResyncRecoveryFlag THEN cipRecoveryCnt >= MaxRecoveryCnt
                ELSE AwaitsSResponse
             /\ IF tx = "CIP_REQ" THEN Finish("FAILED") ELSE Goto("CIP_REQ")
             /\ UNCHANGED <<cipRecoveryCnt, isResyncRecoveryFlag>>

\* The read gave up on errors, or the block read has a wrong LRC or CRC.
ReadFails ==
  /\ pc = "read"
  /\ RecoverUndecoded
  /\ UNCHANGED <<command, wtxCnt, seqs, received, cardInfo, session>>

\* The read loop stops with an empty buffer and reports success: the frame
\* is refused for its length and nothing else changes.
ReadNothing ==
  /\ pc = "read"
  /\ isReadDone \/ TimeoutFirst
  /\ pc' = "send"
  /\ UNCHANGED <<command, retries, seqs, received, cardInfo, session, tx,
                 status, isResyncRecoveryFlag>>

\* A signal interrupted the header read (errno = 4).
ReadInterrupted ==
  /\ pc = "read"
  /\ Finish("FAILED")
  /\ UNCHANGED <<command, retries, seqs, received, cardInfo, session,
                 isResyncRecoveryFlag>>

-----------------------------------------------------------------------------
\* t1RecvDataStoreInList; it fails without memory or on a wrong length.
Store(b, stored) ==
  IF stored THEN Len(rxList) < RxCapacity /\ rxList' = Append(rxList, b.inf)
  ELSE UNCHANGED rxList

\* The expected N(S), corrected once after seqNumDevice was recovered.
ExpectedSeq(b) == IF isSeqNumDR THEN b.seq ELSE seqNumCard

RecvChainedI(b, stored) ==
  /\ b.seq = ExpectedSeq(b) /\ b.more
  /\ recoveryCnt' = 0 /\ isResyncRecoveryFlag' = FALSE
  /\ isCardChaining' = TRUE /\ seqNumCard' = 1 - ExpectedSeq(b)
  /\ Store(b, stored)
  /\ IF stored THEN Goto("R_ACK") /\ UNCHANGED part
     ELSE Finish("FAILED") /\ FreeTxPartMem
  /\ UNCHANGED <<seqNumDevice, cipRecoveryCnt>>

\* Mutant: seqNumDevice counts instead of alternating.
RecvLastICounting(b, stored) ==
  /\ b.seq = ExpectedSeq(b) /\ ~b.more
  /\ recoveryCnt' = 0 /\ isResyncRecoveryFlag' = FALSE
  /\ isCardChaining' = FALSE
  /\ seqNumDevice' = seqNumDevice + 1 /\ seqNumCard' = 1 - ExpectedSeq(b)
  /\ Store(b, stored)
  /\ Finish(IF stored THEN "SUCCESS" ELSE "FAILED")
  /\ FreeTxPartMem
  /\ UNCHANGED cipRecoveryCnt

RecvLastI(b, stored) ==
  /\ b.seq = ExpectedSeq(b) /\ ~b.more
  /\ recoveryCnt' = 0 /\ isResyncRecoveryFlag' = FALSE
  /\ isCardChaining' = FALSE
  /\ seqNumDevice' = 1 - seqNumDevice /\ seqNumCard' = 1 - ExpectedSeq(b)
  /\ Store(b, stored)
  /\ Finish(IF stored THEN "SUCCESS" ELSE "FAILED")
  /\ FreeTxPartMem
  /\ UNCHANGED cipRecoveryCnt

\* Mutant: one retry too many.
RecvWrongIOnceMore(b) ==
  /\ b.seq # ExpectedSeq(b)
  /\ IF recoveryCnt <= MaxRecoveryCnt
     THEN /\ recoveryCnt' = recoveryCnt + 1 /\ Goto("R_OTHER")
          /\ UNCHANGED isResyncRecoveryFlag
     ELSE /\ isResyncRecoveryFlag' = TRUE /\ Goto("RESYNC_REQ")
          /\ UNCHANGED recoveryCnt
  /\ UNCHANGED <<part, seqNumDevice, seqNumCard, received, cipRecoveryCnt>>

\* Mutant: resynchronise at the first wrong N(S).
RecvWrongIHasty(b) ==
  /\ b.seq # ExpectedSeq(b)
  /\ isResyncRecoveryFlag' = TRUE /\ Goto("RESYNC_REQ")
  /\ UNCHANGED <<recoveryCnt, part, seqNumDevice, seqNumCard, received,
                 cipRecoveryCnt>>

\* doT1RecoveryAtDecodeIFrame: an I-block with the wrong N(S).
RecvWrongI(b) ==
  /\ b.seq # ExpectedSeq(b)
  /\ IF recoveryCnt < MaxRecoveryCnt
     THEN /\ recoveryCnt' = recoveryCnt + 1 /\ Goto("R_OTHER")
          /\ UNCHANGED isResyncRecoveryFlag
     ELSE /\ isResyncRecoveryFlag' = TRUE /\ Goto("RESYNC_REQ")
          /\ UNCHANGED recoveryCnt
  /\ UNCHANGED <<part, seqNumDevice, seqNumCard, received, cipRecoveryCnt>>

RecvI(b, stored) ==
  /\ pc = "read" /\ b.type = "I"
  /\ wtxCnt' = 0 /\ isSeqNumDR' = FALSE
  /\ RecvChainedI(b, stored) \/ RecvLastI(b, stored) \/ RecvWrongI(b)
  /\ UNCHANGED <<txLen, txDataOffset, isDeviceChaining, cardInfo,
                 session>>

-----------------------------------------------------------------------------
\* Mutant: every parity NAK resends the I-block, whichever block it asks for.
AnswerRBlindly(b) ==
  CASE b.err = "ack"     -> Goto("R_OTHER") /\ UNCHANGED seqs
    [] b.err = "parity"  -> Goto("I") /\ UNCHANGED seqs
    [] b.err = "other"   -> /\ Goto("I")
                            /\ seqNumDevice' = 1 - seqNumDevice
                            /\ isSeqNumDR' = TRUE /\ UNCHANGED seqNumCard
    [] b.err = "unknown" -> Finish("FAILED") /\ UNCHANGED seqs

\* Mutant: a parity NAK for the own block ends the exchange.
AnswerRByGivingUp(b) ==
  CASE b.err = "ack"     -> Goto("R_OTHER") /\ UNCHANGED seqs
    [] b.err = "other"   -> /\ Goto("I")
                            /\ seqNumDevice' = 1 - seqNumDevice
                            /\ isSeqNumDR' = TRUE /\ UNCHANGED seqNumCard
    [] OTHER -> Finish("FAILED") /\ UNCHANGED seqs

\* doT1RecoveryAtDecodeRFrame while retries remain.  A NAK for another
\* reason than parity makes the device believe its own N(S) is wrong.
AnswerR(b) ==
  CASE b.err = "ack"     -> Goto("R_OTHER") /\ UNCHANGED seqs
    [] b.err = "parity"  -> /\ Goto(IF b.seq # seqNumDevice THEN "R_PARITY" ELSE "I")
                            /\ UNCHANGED seqs
    [] b.err = "other"   -> /\ Goto("I")
                            /\ seqNumDevice' = 1 - seqNumDevice
                            /\ isSeqNumDR' = TRUE /\ UNCHANGED seqNumCard
    [] b.err = "unknown" -> Finish("FAILED") /\ UNCHANGED seqs

\* Mutant: R-blocks that answer R-blocks are not counted.
RetryRUncounted(b) ==
  /\ recoveryCnt < MaxRecoveryCnt
  /\ recoveryCnt' = IF tx \in RBlocks THEN recoveryCnt ELSE recoveryCnt + 1
  /\ IF IsApdu /\ tx \notin RBlocks
     THEN /\ AnswerR(b)
          /\ isResyncRecoveryFlag' = (isResyncRecoveryFlag /\ b.err # "unknown")
     ELSE /\ UNCHANGED seqs
          /\ IF IsApdu \/ tx \in SBlocks
             THEN Goto(tx) /\ UNCHANGED isResyncRecoveryFlag
             ELSE /\ Finish(IF b.err = "ack" THEN "SUCCESS" ELSE "FAILED")
                  /\ isResyncRecoveryFlag' = FALSE
  /\ UNCHANGED <<part, cipRecoveryCnt>>

RetryR(b) ==
  /\ recoveryCnt < MaxRecoveryCnt
  /\ recoveryCnt' = recoveryCnt + 1
  /\ IF IsApdu /\ tx \notin RBlocks
     THEN /\ AnswerR(b)
          /\ isResyncRecoveryFlag' = (isResyncRecoveryFlag /\ b.err # "unknown")
     ELSE /\ UNCHANGED seqs
          /\ IF IsApdu \/ tx \in SBlocks
             THEN Goto(tx) /\ UNCHANGED isResyncRecoveryFlag
             ELSE /\ Finish(IF b.err = "ack" THEN "SUCCESS" ELSE "FAILED")
                  /\ isResyncRecoveryFlag' = FALSE
  /\ UNCHANGED <<part, cipRecoveryCnt>>

\* doT1RecoveryAtDecodeRFrame with the retries used up: resynchronise once,
\* then reset the card, then give up with the status of the decoding.
ExhaustedR(b) ==
  /\ recoveryCnt >= MaxRecoveryCnt
  /\ \/ /\ IsApdu /\ ~isResyncRecoveryFlag
        /\ isResyncRecoveryFlag' = TRUE /\ Goto("RESYNC_REQ")
        /\ UNCHANGED <<part, cipRecoveryCnt>>
     \/ /\ IsApdu /\ isResyncRecoveryFlag /\ cipRecoveryCnt < MaxRecoveryCnt
        /\ FreeTxPartMem /\ isResyncRecoveryFlag' = FALSE /\ Goto("CIP_REQ")
        /\ cipRecoveryCnt' = cipRecoveryCnt + 1
     \/ /\ ~IsApdu \/ (isResyncRecoveryFlag /\ cipRecoveryCnt >= MaxRecoveryCnt)
        /\ Finish(IF b.err = "ack" THEN "SUCCESS" ELSE "FAILED")
        /\ UNCHANGED <<part, cipRecoveryCnt, isResyncRecoveryFlag>>
  /\ UNCHANGED <<recoveryCnt, seqs>>

\* R(ack) for the piece of a chained command: cut and send the next one.
RecvAckOfPart(b) ==
  /\ b.err = "ack" /\ IsApdu /\ isDeviceChaining /\ b.seq # seqNumDevice
  /\ seqNumDevice' = b.seq /\ FreeTxPartMem /\ Goto("I")
  /\ UNCHANGED <<recoveryCnt, cipRecoveryCnt, seqNumCard, isSeqNumDR,
                 isResyncRecoveryFlag>>

\* R(ack) although nothing is chained ends the exchange.
RecvUnexpectedAck(b) ==
  /\ b.err = "ack" /\ ~(IsApdu /\ isDeviceChaining)
  /\ Finish(IF IsApdu THEN "FAILED" ELSE "SUCCESS")
  /\ UNCHANGED <<recoveryCnt, cipRecoveryCnt, seqs, part, isResyncRecoveryFlag>>

RecvR(b) ==
  /\ pc = "read" /\ b.type = "R"
  /\ \/ RecvAckOfPart(b)
     \/ RecvUnexpectedAck(b)
     \/ /\ b.err = "ack" => IsApdu /\ isDeviceChaining /\ b.seq = seqNumDevice
        /\ RetryR(b) \/ ExhaustedR(b)
  /\ UNCHANGED <<txLen, txDataOffset, isDeviceChaining, wtxCnt,
                 received, cardInfo, session>>

-----------------------------------------------------------------------------
\* Mutant: the piece kept for retransmission survives the reset.
ResetButPart ==
  /\ seqNumCard' = 0 /\ seqNumDevice' = 0 /\ UNCHANGED isSeqNumDR
  /\ recoveryCnt' = 0 /\ wtxCnt' = 0 /\ UNCHANGED cipRecoveryCnt
  /\ txDataOffset' = 0 /\ isDeviceChaining' = FALSE
  /\ UNCHANGED <<part, txLen>>
  /\ rxList' = IF isCardChaining THEN <<>> ELSE rxList
  /\ isCardChaining' = FALSE

\* Mutant: the command goes on where it was instead of from the start.
ResetButOffset ==
  /\ seqNumCard' = 0 /\ seqNumDevice' = 0 /\ UNCHANGED isSeqNumDR
  /\ recoveryCnt' = 0 /\ wtxCnt' = 0 /\ UNCHANGED cipRecoveryCnt
  /\ part' = NoPart /\ isDeviceChaining' = FALSE
  /\ UNCHANGED <<txDataOffset, txLen>>
  /\ rxList' = IF isCardChaining THEN <<>> ELSE rxList
  /\ isCardChaining' = FALSE

\* Mutant: what was received of the response survives the reset.
ResetButList ==
  /\ seqNumCard' = 0 /\ seqNumDevice' = 0 /\ UNCHANGED isSeqNumDR
  /\ recoveryCnt' = 0 /\ wtxCnt' = 0 /\ UNCHANGED cipRecoveryCnt
  /\ txDataOffset' = 0 /\ part' = NoPart /\ isDeviceChaining' = FALSE
  /\ isCardChaining' = FALSE
  /\ UNCHANGED <<txLen, rxList>>

\* ResetForResyncRsp.  The list is dropped only while the card was chaining,
\* and the piece is forgotten, not freed.
ResetForResyncRsp ==
  /\ seqNumCard' = 0 /\ seqNumDevice' = 0 /\ UNCHANGED isSeqNumDR
  /\ recoveryCnt' = 0 /\ wtxCnt' = 0 /\ UNCHANGED cipRecoveryCnt
  /\ txDataOffset' = 0 /\ part' = NoPart /\ isDeviceChaining' = FALSE
  /\ UNCHANGED txLen
  /\ rxList' = IF isCardChaining THEN <<>> ELSE rxList
  /\ isCardChaining' = FALSE

\* Mutant: the initiating exchange is not looked at.
RecvResyncRspAnyCall ==
  /\ ResetForResyncRsp /\ Goto("I")
  /\ UNCHANGED <<isResyncRecoveryFlag, cardInfo>>

RecvResyncRsp ==
  /\ IF IsApdu THEN ResetForResyncRsp /\ Goto("I")
     ELSE Finish("SUCCESS") /\ UNCHANGED <<seqs, retries, command, received>>
  /\ UNCHANGED <<isResyncRecoveryFlag, cardInfo>>

RecvIfsReq(b) ==
  /\ maxIFSC' = b.ifsc /\ Goto("IFS_RSP")
  /\ UNCHANGED <<isT1ExtHdrLen, seqs, retries, command, received>>

RecvIfsRsp ==
  /\ IF IsApdu /\ isCardChaining THEN Goto("R_ACK")
     ELSE IF IsApdu /\ isDeviceChaining THEN Goto("I") ELSE Finish("SUCCESS")
  /\ UNCHANGED <<seqs, retries, command, received, cardInfo>>

RecvAbort ==
  /\ rxList' = IF isCardChaining \/ isDeviceChaining THEN <<>> ELSE rxList
  /\ Finish("SUCCESS")
  /\ UNCHANGED <<seqs, retries, command, isCardChaining, cardInfo>>

RecvWtxReq ==
  /\ IF wtxCnt <= MaxWTXCnt
     THEN wtxCnt' = wtxCnt + 1 /\ Goto("WTX_RSP")
     ELSE UNCHANGED wtxCnt /\ Finish("FAILED")
  /\ UNCHANGED <<seqs, recoveryCnt, cipRecoveryCnt, command, received, cardInfo>>

\* decodeATR
DecodeATR(b) ==
  IF b.valid THEN maxIFSC' = b.ifsc /\ isT1ExtHdrLen' = b.ext
  ELSE UNCHANGED cardInfo

RecvAtr(b) ==
  /\ DecodeATR(b)
  /\ Finish(IF b.valid THEN "SUCCESS" ELSE "FAILED")
  /\ IF b.sub = "CIP_RSP" THEN ResetForResyncRsp
     ELSE UNCHANGED <<seqs, retries, command, received>>

RecvOtherS ==
  /\ Finish("SUCCESS")
  /\ UNCHANGED <<seqs, retries, command, received, cardInfo>>

RecvS(b) ==
  /\ pc = "read" /\ b.type = "S"
  /\ b.sub # "RESYNC_RSP" => isResyncRecoveryFlag' = FALSE
  /\ CASE b.sub = "RESYNC_RSP" -> RecvResyncRsp
       [] b.sub = "IFS_REQ"    -> RecvIfsReq(b)
       [] b.sub = "IFS_RSP"    -> RecvIfsRsp
       [] b.sub = "ABORT"      -> RecvAbort
       [] b.sub = "WTX_REQ"    -> RecvWtxReq
       [] b.sub \in {"CIP_RSP", "ATR_RSP"} -> RecvAtr(b)
       [] OTHER -> RecvOtherS
  /\ UNCHANGED session

-----------------------------------------------------------------------------
Receive(b, stored) == RecvI(b, stored) \/ RecvR(b) \/ RecvS(b)

\* What the library does by itself once called.
HostStep ==
  \/ Send \/ SendFails \/ SendIFrameNoMemory
  \/ ReturnApdu \/ ReturnControl

Next ==
  \/ \E len \in 1..MaxLen : BeginApdu(len)
  \/ \E kind \in ControlCalls : BeginControl(kind)
  \/ HostStep
  \/ Reopen
  \/ DoReadTerminate
  \/ ReadFails \/ ReadNothing \/ ReadInterrupted
  \/ \E b \in CardBlocks, stored \in BOOLEAN : Receive(b, stored)

Spec == Init /\ [][Next]_vars

-----------------------------------------------------------------------------
Ifscs == IFSCs \cup {0}

ValuesOK ==
  /\ call \in {"none", "APDU"} \cup ControlCalls
  /\ pc \in {"idle", "send", "read", "done"} /\ (pc = "idle" <=> call = "none")
  /\ tx \in TxBlocks /\ status \in {"SUCCESS", "FAILED"}
  /\ txLen \in 0..MaxLen /\ txDataOffset \in 0..MaxLen
  /\ recoveryCnt \in Nat /\ cipRecoveryCnt \in Nat
  /\ blkRetryCnt \in Nat /\ wtxCnt \in Nat
  /\ seqNumDevice \in {0, 1} /\ seqNumCard \in {0, 1}
  /\ maxIFSC \in Ifscs
  /\ rxList \in Seq(Inf)

FlagsOK ==
  /\ isDeviceChaining \in BOOLEAN /\ isCardChaining \in BOOLEAN
  /\ isSeqNumDR \in BOOLEAN /\ isResyncRecoveryFlag \in BOOLEAN
  /\ isT1ExtHdrLen \in BOOLEAN /\ isReadDone \in BOOLEAN
  /\ gIsInitlized \in BOOLEAN

PartOK == part \in [held : BOOLEAN, from : 0..MaxLen, to : 0..MaxLen]

RspOK == rsp \in [ok : BOOLEAN, data : Seq(Inf)]

TypeOK == ValuesOK /\ FlagsOK /\ PartOK /\ RspOK

\* Every retry counter stays within its limit, so the guard t1SendIFrame
\* calls "Cannot execute here, fatal error" is never met and no S(WTX) or
\* retry budget is overdrawn (T1.c:401, 1125, 143).
RetriesBounded ==
  /\ recoveryCnt <= MaxRecoveryCnt
  /\ cipRecoveryCnt <= MaxRecoveryCnt
  /\ blkRetryCnt <= MaxBlkRetryCnt
  /\ wtxCnt <= MaxWTXCnt + 1

\* t1SendIFrame reads pDataTx, which only a command sets: whatever the card
\* sends during a control exchange, recovery never turns to an I-block.
CommandBlocksOnly ==
  pc \in {"send", "read"} /\ tx = "I" => IsApdu

\* The piece kept for retransmission ends where the cutting stands, and the
\* chaining bit it is sent with says whether more of the command follows,
\* even if the card changed its IFSC while the piece was outstanding.
KeptPieceIsConsistent ==
  part.held => /\ part.from <= part.to
               /\ part.to = txDataOffset
               /\ txDataOffset <= txLen
               /\ isDeviceChaining <=> part.to < txLen

\* Resynchronisation and warm reset are the last resort: within a command
\* they are first requested only when every retry is used up, and the warm
\* reset only after a resynchronisation or an unanswered S-request
\* (T1.c:1445-1452, cases 4 and 5).
EscalationIsLastResort ==
  [][ /\ pc = "read" /\ pc' = "send" /\ IsApdu /\ tx' # tx =>
        /\ tx' \in {"RESYNC_REQ", "CIP_REQ"} => recoveryCnt = MaxRecoveryCnt
        /\ tx' = "CIP_REQ" => isResyncRecoveryFlag \/ tx \in SBlocks
    ]_vars

=============================================================================
