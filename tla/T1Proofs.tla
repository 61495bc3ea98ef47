------------------------------- MODULE T1Proofs -------------------------------
(***************************************************************************)
(* Proofs about T1 for every card, command length and configuration, about *)
(* T1Link, the exchanges with an ISO card, and about T1Silent, those with  *)
(* a card that stops answering.                                            *)
(***************************************************************************)
EXTENDS T1Link, T1Silent, SequenceTheorems, TLAPS

\* A card block of each type is a record of its own set.
LEMMA CardBlockShape ==
  ASSUME NEW b \in CardBlocks
  PROVE  /\ b.type = "I" => b.seq \in {0, 1} /\ b.inf \in Inf
         /\ b.type = "R" => /\ b.seq \in {0, 1}
                            /\ b.err \in {"ack", "parity", "other", "unknown"}
         /\ b.type = "S" /\ b.sub = "IFS_REQ" => b.ifsc \in IFSCs
         /\ b.type = "S" /\ b.sub \in {"CIP_RSP", "ATR_RSP"} =>
              b.ifsc \in IFSCs /\ b.ext \in BOOLEAN
  BY DEF CardBlocks


-----------------------------------------------------------------------------
(***************************************************************************)
(* Types.                                                                  *)
(***************************************************************************)
LEMMA InitTypeOK == Init => TypeOK
<1>1. Init => ValuesOK
  BY T1Assumption DEF Init, ValuesOK, TxBlocks, Ifscs
<1>2. Init => FlagsOK
  BY DEF Init, FlagsOK
<1>3. Init => PartOK
  BY T1Assumption DEF Init, PartOK, NoPart
<1>4. Init => RspOK
  BY DEF Init, RspOK, NoRsp
<1> QED BY <1>1, <1>2, <1>3, <1>4 DEF TypeOK

LEMMA NoPartOK == NoPart \in [held : BOOLEAN, from : 0..MaxLen, to : 0..MaxLen]
  BY T1Assumption DEF NoPart

LEMMA EmptyListOK == <<>> \in Seq(Inf)
  OBVIOUS

LEMMA StutterTypeOK == ASSUME TypeOK, UNCHANGED vars PROVE TypeOK'
  BY DEF TypeOK, ValuesOK, FlagsOK, PartOK, RspOK, vars, command, retries, seqs,
     received, cardInfo, session

LEMMA NewT1ParamsTypeOK ==
  ASSUME TypeOK, NEW kind \in {"APDU"} \cup ControlCalls, NEW first \in TxBlocks,
         NEW len \in 0..MaxLen, NewT1Params(kind, first, len)
  PROVE  TypeOK'
<1> USE DEF TypeOK, NewT1Params, retries, seqs, cardInfo, received
<1>1. (pc = "idle" <=> call = "none")'
  BY DEF ControlCalls, FirstBlock
<1>2. ValuesOK'
  BY <1>1 DEF ValuesOK, Ifscs
<1>3. (len > maxIFSC) \in BOOLEAN
  OBVIOUS
<1>4. FlagsOK'
  BY <1>3, Zenon DEF FlagsOK
<1>5. PartOK'
  BY DEF PartOK
<1>6. RspOK'
  BY DEF RspOK, NoRsp
<1> QED BY <1>2, <1>4, <1>5, <1>6

LEMMA BeginTypeOK ==
  ASSUME TypeOK,
         (\E len \in 1..MaxLen : BeginApdu(len))
           \/ (\E kind \in ControlCalls : BeginControl(kind))
  PROVE  TypeOK'
<1>1. ASSUME NEW len \in 1..MaxLen, BeginApdu(len) PROVE TypeOK'
  <2>1. len \in 0..MaxLen /\ "I" \in TxBlocks
    BY T1Assumption DEF TxBlocks
  <2> QED BY <1>1, <2>1, NewT1ParamsTypeOK DEF BeginApdu
<1>2. ASSUME NEW kind \in ControlCalls, BeginControl(kind) PROVE TypeOK'
  <2>1. FirstBlock[kind] \in TxBlocks /\ 0 \in 0..MaxLen
    BY T1Assumption DEF ControlCalls, FirstBlock, TxBlocks, SBlocks
  <2> QED BY <1>2, <2>1, NewT1ParamsTypeOK DEF BeginControl
<1> QED BY <1>1, <1>2

LEMMA ReturnTypeOK ==
  ASSUME TypeOK, ReturnApdu \/ ReturnControl
  PROVE  TypeOK'
<1> USE DEF TypeOK, ReturnApdu, ReturnControl, FreeT1Params, seqs, cardInfo
<1>0. rxList' \in Seq(Inf)
  <2>1. rxList' = rxList \/ rxList' = <<>>
    BY Zenon
  <2> QED BY <2>1, EmptyListOK, Zenon DEF ValuesOK
<1>1. ValuesOK'
  BY <1>0, T1Assumption DEF ValuesOK, TxBlocks
<1>2. FlagsOK'
  BY Zenon DEF FlagsOK
<1>3. PartOK'
  BY NoPartOK, T1Assumption DEF PartOK, NoPart
<1>4. RspOK'
  <2>1. CASE ReturnApdu
    <3>1. (rxList # <<>>) \in BOOLEAN /\ rxList \in Seq(Inf)
      BY DEF ValuesOK
    <3>2. [ok |-> rxList # <<>>, data |-> rxList] \in [ok : BOOLEAN, data : Seq(Inf)]
      BY <3>1, Zenon
    <3>3. rsp' = rsp \/ rsp' = [ok |-> rxList # <<>>, data |-> rxList]
      BY <2>1, Zenon
    <3> QED BY <3>2, <3>3, Zenon DEF RspOK
  <2>2. CASE ReturnControl
    BY <2>2 DEF RspOK
  <2> QED BY <2>1, <2>2
<1> QED BY <1>1, <1>2, <1>3, <1>4

LEMMA ReopenTypeOK == ASSUME TypeOK, Reopen PROVE TypeOK'
<1> USE DEF TypeOK, Reopen, command, retries, received
<1>1. ValuesOK'
  BY DEF ValuesOK, Ifscs
<1>2. FlagsOK'
  BY Zenon DEF FlagsOK
<1> QED BY <1>1, <1>2 DEF PartOK, RspOK

LEMMA ReadTerminateTypeOK == ASSUME TypeOK, DoReadTerminate PROVE TypeOK'
<1> USE DEF TypeOK, DoReadTerminate, command, retries, seqs, received, cardInfo
<1>1. ValuesOK'
  BY DEF ValuesOK
<1>2. FlagsOK'
  BY Zenon DEF FlagsOK
<1> QED BY <1>1, <1>2 DEF PartOK, RspOK

\* The piece t1SendIFrame cuts lies within the buffer.
LEMMA CutInRange == ASSUME TypeOK PROVE CutTo \in 0..MaxLen
  BY T1Assumption DEF TypeOK, ValuesOK, CutTo, CutChains, Ifscs

LEMMA CutChainsIsBoolean == CutChains \in BOOLEAN
  BY DEF CutChains

LEMMA KeepPartTypeOK ==
  ASSUME TypeOK, KeepPart
  PROVE  /\ txLen' \in 0..MaxLen /\ txDataOffset' \in 0..MaxLen
         /\ isDeviceChaining' \in BOOLEAN
         /\ PartOK'
<1> USE DEF TypeOK, KeepPart, command
<1>1. txLen' \in 0..MaxLen /\ txDataOffset' \in 0..MaxLen
  BY CutInRange DEF ValuesOK
<1>2. isDeviceChaining' \in BOOLEAN
  BY CutChainsIsBoolean, Zenon DEF FlagsOK, NextChaining
<1>3. PartOK'
  <2>1. [held |-> TRUE, from |-> txDataOffset, to |-> CutTo]
          \in [held : BOOLEAN, from : 0..MaxLen, to : 0..MaxLen]
    BY CutInRange DEF ValuesOK
  <2> QED BY <2>1, Zenon DEF PartOK, NextPart
<1> QED BY <1>1, <1>2, <1>3

LEMMA SendTypeOK ==
  ASSUME TypeOK, Send \/ SendFails \/ SendIFrameNoMemory
  PROVE  TypeOK'
<1> USE DEF TypeOK, SendUnchanged, retries, seqs, received
<1>1. CASE Send
  <2>1. ValuesOK'
    BY <1>1, KeepPartTypeOK DEF Send, ValuesOK
  <2>2. FlagsOK'
    BY <1>1, KeepPartTypeOK, Zenon DEF Send, HeaderAfterSend, FlagsOK
  <2> QED BY <1>1, <2>1, <2>2, KeepPartTypeOK DEF Send, RspOK
<1>2. CASE SendFails
  <2>1. ValuesOK'
    BY <1>2, KeepPartTypeOK DEF SendFails, ValuesOK
  <2>2. FlagsOK'
    BY <1>2, KeepPartTypeOK, Zenon DEF SendFails, HeaderAfterSend, FlagsOK
  <2> QED BY <1>2, <2>1, <2>2, KeepPartTypeOK DEF SendFails, RspOK
<1>3. CASE SendIFrameNoMemory
  <2>1. ValuesOK'
    BY <1>3 DEF SendIFrameNoMemory, ValuesOK
  <2>2. FlagsOK'
    BY <1>3, CutChainsIsBoolean, Zenon DEF SendIFrameNoMemory, FlagsOK
  <2> QED BY <1>3, <2>1, <2>2 DEF SendIFrameNoMemory, PartOK, RspOK
<1> QED BY <1>1, <1>2, <1>3

LEMMA ReadTypeOK ==
  ASSUME TypeOK, ReadFails \/ ReadNothing \/ ReadInterrupted
  PROVE  TypeOK'
<1> USE DEF TypeOK, command, retries, seqs, received, cardInfo, session
<1>1. CASE ReadFails
  <2> USE DEF ReadFails, RecoverUndecoded, Goto, Finish
  <2>1. tx \in TxBlocks => {tx, "R_PARITY", "RESYNC_REQ", "CIP_REQ"} \subseteq TxBlocks
    BY DEF TxBlocks, SBlocks, RBlocks
  <2>2. ValuesOK'
    BY <1>1, <2>1 DEF ValuesOK
  <2>3. FlagsOK'
    BY <1>1, Zenon DEF FlagsOK
  <2> QED BY <1>1, <2>2, <2>3 DEF PartOK, RspOK
<1>2. CASE ReadNothing
  BY <1>2 DEF ReadNothing, ValuesOK, FlagsOK, PartOK, RspOK
<1>3. CASE ReadInterrupted
  <2>1. ValuesOK'
    BY <1>3 DEF ReadInterrupted, Finish, ValuesOK
  <2> QED BY <1>3, <2>1 DEF ReadInterrupted, FlagsOK, PartOK, RspOK
<1> QED BY <1>1, <1>2, <1>3

LEMMA RecvITypeOK ==
  ASSUME TypeOK, NEW b \in CardBlocks, NEW stored \in BOOLEAN, RecvI(b, stored)
  PROVE  TypeOK'
<1> USE DEF TypeOK, RecvI, RecvChainedI, RecvLastI, RecvWrongI, cardInfo, session
<1>1. b.seq \in {0, 1} /\ b.inf \in Inf
  BY CardBlockShape
<1>2. ExpectedSeq(b) \in {0, 1}
  BY <1>1 DEF ValuesOK, ExpectedSeq
<1>3. ASSUME Store(b, stored) PROVE rxList' \in Seq(Inf)
  BY <1>1, <1>3 DEF ValuesOK, Store
<1>4. {"R_ACK", "R_OTHER", "RESYNC_REQ"} \subseteq TxBlocks
  BY DEF TxBlocks, SBlocks, RBlocks
<1>5. ValuesOK'
  BY <1>2, <1>3, <1>4 DEF ValuesOK, Goto, Finish, received
<1>6. FlagsOK'
  BY Zenon DEF FlagsOK, received
<1>7. PartOK'
  BY NoPartOK, Zenon DEF PartOK, FreeTxPartMem
<1>8. RspOK'
  BY DEF RspOK
<1> QED BY <1>5, <1>6, <1>7, <1>8

LEMMA RecvRTypeOK ==
  ASSUME TypeOK, NEW b \in CardBlocks, RecvR(b)
  PROVE  TypeOK'
<1> USE DEF TypeOK, RecvR, RecvAckOfPart, RecvUnexpectedAck, RetryR, AnswerR,
            ExhaustedR, received, cardInfo, session, seqs
<1>1. b.seq \in {0, 1} /\ b.err \in {"ack", "parity", "other", "unknown"}
  BY CardBlockShape
<1>2. {"I", "R_OTHER", "R_PARITY", "RESYNC_REQ", "CIP_REQ"} \subseteq TxBlocks
  BY DEF TxBlocks, SBlocks, RBlocks
<1>3. ValuesOK'
  <2> USE <1>1, <1>2 DEF ValuesOK, Goto, Finish
  <2>1. CASE RecvAckOfPart(b)
    BY <2>1
  <2>2. CASE RecvUnexpectedAck(b)
    BY <2>2
  <2>3. CASE RetryR(b)
    <3>1. /\ pc' \in {"send", "done"} /\ status' \in {"SUCCESS", "FAILED"}
          /\ seqNumDevice' \in {0, 1} /\ seqNumCard' \in {0, 1}
          /\ tx' \in TxBlocks
      <4>1. CASE AnswerR(b)
        <5>1. CASE b.err = "ack"
          BY <4>1, <5>1
        <5>2. CASE b.err = "parity"
          BY <4>1, <5>2
        <5>3. CASE b.err = "other"
          BY <4>1, <5>3
        <5>4. CASE b.err = "unknown"
          BY <4>1, <5>4
        <5> QED BY <5>1, <5>2, <5>3, <5>4
      <4>2. CASE UNCHANGED seqs /\ ~AnswerR(b)
        BY <2>3, <4>2
      <4> QED BY <2>3, <4>1, <4>2
    <3>2. recoveryCnt' \in Nat
      BY <2>3
    <3> QED BY <2>3, <3>1, <3>2
  <2>4. CASE ExhaustedR(b)
    BY <2>4
  <2> QED BY <2>1, <2>2, <2>3, <2>4
<1>4. FlagsOK'
  <2> USE DEF FlagsOK
  <2>1. CASE RecvAckOfPart(b) \/ RecvUnexpectedAck(b)
    BY <2>1, Zenon
  <2>2. CASE RetryR(b)
    <3>1. isSeqNumDR' = TRUE \/ isSeqNumDR' = isSeqNumDR
      BY <1>1, <2>2
    <3>2. \/ isResyncRecoveryFlag' = (isResyncRecoveryFlag /\ b.err # "unknown")
          \/ isResyncRecoveryFlag' = isResyncRecoveryFlag
          \/ isResyncRecoveryFlag' = FALSE
      BY <2>2, Zenon
    <3> QED BY <2>2, <3>1, <3>2, Zenon
  <2>3. CASE ExhaustedR(b)
    BY <2>3, Zenon
  <2> QED BY <2>1, <2>2, <2>3
<1>5. PartOK'
  BY NoPartOK, Zenon DEF PartOK, FreeTxPartMem
<1>6. RspOK'
  BY DEF RspOK
<1> QED BY <1>3, <1>4, <1>5, <1>6

LEMMA ResetTypeOK ==
  ASSUME TypeOK, ResetForResyncRsp
  PROVE  /\ recoveryCnt' \in Nat /\ cipRecoveryCnt' \in Nat /\ wtxCnt' \in Nat
         /\ seqNumDevice' \in {0, 1} /\ seqNumCard' \in {0, 1}
         /\ txDataOffset' \in 0..MaxLen /\ txLen' \in 0..MaxLen
         /\ rxList' \in Seq(Inf)
         /\ isDeviceChaining' \in BOOLEAN /\ isCardChaining' \in BOOLEAN
         /\ isSeqNumDR' \in BOOLEAN
         /\ PartOK'
<1> USE DEF TypeOK, ResetForResyncRsp
<1>1. /\ recoveryCnt' \in Nat /\ cipRecoveryCnt' \in Nat /\ wtxCnt' \in Nat
      /\ seqNumDevice' \in {0, 1} /\ seqNumCard' \in {0, 1}
      /\ txDataOffset' \in 0..MaxLen /\ txLen' \in 0..MaxLen
  BY T1Assumption DEF ValuesOK
<1>2. rxList' \in Seq(Inf)
  BY DEF ValuesOK
<1>3. PartOK'
  BY NoPartOK, Zenon DEF PartOK
<1>4. part.held \in BOOLEAN
  BY DEF PartOK
<1>5. /\ isDeviceChaining' \in BOOLEAN /\ isCardChaining' \in BOOLEAN
      /\ isSeqNumDR' \in BOOLEAN
  BY <1>4, Zenon DEF FlagsOK
<1> QED BY <1>1, <1>2, <1>3, <1>5

LEMMA RecvSTypeOK ==
  ASSUME TypeOK, NEW b \in CardBlocks, RecvS(b)
  PROVE  TypeOK'
<1> USE DEF TypeOK, RecvS, session, seqs, received, retries, cardInfo, command
<1>1. /\ b.sub = "IFS_REQ" => b.ifsc \in IFSCs
      /\ b.sub \in {"CIP_RSP", "ATR_RSP"} => b.ifsc \in IFSCs /\ b.ext \in BOOLEAN
  BY CardBlockShape
<1>2. {"I", "R_ACK", "IFS_RSP", "WTX_RSP"} \subseteq TxBlocks
  BY DEF TxBlocks, SBlocks, RBlocks
<1>3. RspOK'
  BY DEF RspOK
<1>4. CASE b.sub = "RESYNC_RSP"
  <2> USE <1>2, <1>4 DEF RecvResyncRsp, Goto, Finish
  <2>1. ValuesOK'
    BY ResetTypeOK DEF ValuesOK
  <2>2. FlagsOK' /\ PartOK'
    BY ResetTypeOK, Zenon DEF FlagsOK, PartOK
  <2> QED BY <1>3, <2>1, <2>2
<1>5. CASE b.sub \in {"CIP_RSP", "ATR_RSP"}
  <2> USE <1>1, <1>5 DEF RecvAtr, DecodeATR, Finish
  <2>1. ValuesOK'
    BY ResetTypeOK DEF ValuesOK, Ifscs
  <2>2. FlagsOK' /\ PartOK'
    BY ResetTypeOK, Zenon DEF FlagsOK, PartOK
  <2> QED BY <1>3, <2>1, <2>2
<1>6. CASE b.sub \notin {"RESYNC_RSP", "CIP_RSP", "ATR_RSP"}
  <2> USE <1>1, <1>2, <1>6
          DEF RecvIfsReq, RecvIfsRsp, RecvAbort, RecvWtxReq, RecvOtherS, Goto, Finish
  <2>1. ValuesOK'
    <3>1. CASE b.sub = "IFS_REQ"
      BY <3>1 DEF ValuesOK, Ifscs
    <3>2. CASE b.sub = "WTX_REQ"
      BY <3>2 DEF ValuesOK
    <3>3. CASE b.sub = "IFS_RSP"
      BY <3>3 DEF ValuesOK
    <3>5. CASE b.sub = "ABORT"
      <4>1. rxList' \in Seq(Inf)
        BY <3>5, EmptyListOK, Zenon DEF ValuesOK
      <4> QED BY <3>5, <4>1 DEF ValuesOK
    <3>4. CASE b.sub \notin {"IFS_REQ", "WTX_REQ", "IFS_RSP", "ABORT"}
      BY <3>4 DEF ValuesOK
    <3> QED BY <3>1, <3>2, <3>3, <3>4, <3>5
  <2>2. FlagsOK' /\ PartOK'
    BY Zenon DEF FlagsOK, PartOK
  <2> QED BY <1>3, <2>1, <2>2
<1> QED BY <1>4, <1>5, <1>6

LEMMA TypeOKStep ==
  ASSUME TypeOK, [Next]_vars
  PROVE  TypeOK'
BY BeginTypeOK, ReturnTypeOK, ReopenTypeOK, ReadTerminateTypeOK, SendTypeOK,
   ReadTypeOK, RecvITypeOK, RecvRTypeOK, RecvSTypeOK, StutterTypeOK
   DEF Next, HostStep, Receive

\* Every variable keeps its type whatever the card sends.
THEOREM TypeCorrect == Spec => []TypeOK
<1>1. TypeOK /\ [Next]_vars => TypeOK'
  BY TypeOKStep
<1> QED BY <1>1, InitTypeOK, PTL DEF Spec

-----------------------------------------------------------------------------
(***************************************************************************)
(* Retry limits.                                                           *)
(***************************************************************************)
LEMMA HostRetriesBounded ==
  ASSUME TypeOK, RetriesBounded,
         \/ \E len \in 1..MaxLen : BeginApdu(len)
         \/ \E kind \in ControlCalls : BeginControl(kind)
         \/ HostStep \/ Reopen \/ DoReadTerminate
         \/ ReadFails \/ ReadNothing \/ ReadInterrupted
  PROVE  RetriesBounded'
<1> USE T1Assumption DEF RetriesBounded, TypeOK, ValuesOK, retries
<1>1. ASSUME NEW len \in 1..MaxLen, BeginApdu(len) PROVE RetriesBounded'
  BY <1>1 DEF BeginApdu, NewT1Params
<1>2. ASSUME NEW kind \in ControlCalls, BeginControl(kind) PROVE RetriesBounded'
  BY <1>2 DEF BeginControl, NewT1Params
<1>3. CASE Send \/ SendFails \/ SendIFrameNoMemory
  BY <1>3 DEF Send, SendFails, SendIFrameNoMemory, SendUnchanged
<1>4. CASE ReturnApdu \/ ReturnControl
  BY <1>4 DEF ReturnApdu, ReturnControl, FreeT1Params
<1>5. CASE Reopen
  BY <1>5 DEF Reopen
<1>6. CASE DoReadTerminate
  BY <1>6 DEF DoReadTerminate
<1>7. CASE ReadFails
  BY <1>7 DEF ReadFails, RecoverUndecoded, session
<1>8. CASE ReadNothing \/ ReadInterrupted
  BY <1>8 DEF ReadNothing, ReadInterrupted, session
<1> QED BY <1>1, <1>2, <1>3, <1>4, <1>5, <1>6, <1>7, <1>8 DEF HostStep

LEMMA ReceiveRetriesBounded ==
  ASSUME TypeOK, RetriesBounded, NEW b \in CardBlocks, NEW stored \in BOOLEAN,
         Receive(b, stored)
  PROVE  RetriesBounded'
<1> USE T1Assumption DEF RetriesBounded, TypeOK, ValuesOK, session
<1>1. CASE RecvI(b, stored)
  BY <1>1, SMTT(30) DEF RecvI, RecvChainedI, RecvLastI, RecvWrongI
<1>2. CASE RecvR(b)
  BY <1>2 DEF RecvR, RecvAckOfPart, RecvUnexpectedAck, RetryR, ExhaustedR
<1>3. CASE RecvS(b)
  BY <1>3 DEF RecvS, RecvResyncRsp, RecvIfsReq, RecvIfsRsp, RecvAbort, RecvWtxReq,
     RecvAtr, RecvOtherS, ResetForResyncRsp, retries
<1> QED BY <1>1, <1>2, <1>3 DEF Receive

\* No counter of retries, resets, repeated writes or waiting time requests
\* ever passes its configured limit, whatever the card sends.
THEOREM RetriesStayBounded == Spec => []RetriesBounded
<1>1. Init => RetriesBounded
  BY T1Assumption DEF Init, RetriesBounded
<1>2. TypeOK /\ RetriesBounded /\ [Next]_vars => RetriesBounded'
  <2>1. TypeOK /\ RetriesBounded /\ UNCHANGED vars => RetriesBounded'
    BY DEF RetriesBounded, vars, retries, session
  <2> QED BY <2>1, HostRetriesBounded, ReceiveRetriesBounded DEF Next
<1> QED BY <1>1, <1>2, TypeCorrect, PTL DEF Spec

-----------------------------------------------------------------------------
(***************************************************************************)
(* I-blocks belong to commands.                                            *)
(***************************************************************************)
LEMMA ReceiveCommandBlocksOnly ==
  ASSUME TypeOK, CommandBlocksOnly, NEW b \in CardBlocks, NEW stored \in BOOLEAN,
         Receive(b, stored)
  PROVE  CommandBlocksOnly'
<1> USE DEF CommandBlocksOnly, IsApdu, session, Goto, Finish
<1>1. CASE RecvI(b, stored)
  BY <1>1, SMTT(30) DEF RecvI, RecvChainedI, RecvLastI, RecvWrongI
<1>2. CASE RecvR(b)
  <2>1. call' = call
    BY <1>2 DEF RecvR
  <2>2. CASE RecvAckOfPart(b) \/ RecvUnexpectedAck(b)
    BY <2>1, <2>2 DEF RecvAckOfPart, RecvUnexpectedAck
  <2>3. CASE RetryR(b)
    BY <1>2, <2>1, <2>3 DEF RetryR, SBlocks
  <2>4. CASE ExhaustedR(b)
    BY <2>1, <2>4 DEF ExhaustedR
  <2> QED BY <1>2, <2>2, <2>3, <2>4 DEF RecvR
<1>3. CASE RecvS(b)
  BY <1>3 DEF RecvS, RecvResyncRsp, RecvIfsReq, RecvIfsRsp, RecvAbort, RecvWtxReq,
     RecvAtr, RecvOtherS
<1> QED BY <1>1, <1>2, <1>3 DEF Receive

LEMMA HostCommandBlocksOnly ==
  ASSUME TypeOK, CommandBlocksOnly,
         \/ \E len \in 1..MaxLen : BeginApdu(len)
         \/ \E kind \in ControlCalls : BeginControl(kind)
         \/ HostStep \/ Reopen \/ DoReadTerminate
         \/ ReadFails \/ ReadNothing \/ ReadInterrupted
  PROVE  CommandBlocksOnly'
<1> USE DEF CommandBlocksOnly, IsApdu
<1>1. ASSUME NEW len \in 1..MaxLen, BeginApdu(len) PROVE CommandBlocksOnly'
  BY <1>1 DEF BeginApdu, NewT1Params
<1>2. ASSUME NEW kind \in ControlCalls, BeginControl(kind)
      PROVE  CommandBlocksOnly'
  <2>1. FirstBlock[kind] # "I"
    BY DEF ControlCalls, FirstBlock
  <2> QED BY <1>2, <2>1 DEF BeginControl, NewT1Params
<1>3. CASE Send \/ SendFails \/ SendIFrameNoMemory
  BY <1>3 DEF Send, SendFails, SendIFrameNoMemory, SendUnchanged
<1>4. CASE ReturnApdu \/ ReturnControl
  BY <1>4 DEF ReturnApdu, ReturnControl, FreeT1Params
<1>5. CASE Reopen
  BY <1>5 DEF Reopen
<1>6. CASE DoReadTerminate
  BY <1>6 DEF DoReadTerminate
<1>7. CASE ReadFails
  BY <1>7 DEF ReadFails, RecoverUndecoded, AwaitsSResponse, SBlocks, Goto, Finish,
     session
<1>8. CASE ReadNothing \/ ReadInterrupted
  BY <1>8 DEF ReadNothing, ReadInterrupted, Finish, session
<1> QED BY <1>1, <1>2, <1>3, <1>4, <1>5, <1>6, <1>7, <1>8 DEF HostStep

\* No recovery path turns a reset, an IFS or an ATR exchange into one that
\* sends I-blocks out of a command that is not there.
THEOREM CommandBlocksOnlyHolds == Spec => []CommandBlocksOnly
<1>1. Init => CommandBlocksOnly
  BY DEF Init, CommandBlocksOnly
<1>2. TypeOK /\ CommandBlocksOnly /\ [Next]_vars => CommandBlocksOnly'
  <2>1. CommandBlocksOnly /\ UNCHANGED vars => CommandBlocksOnly'
    BY DEF CommandBlocksOnly, IsApdu, vars, session
  <2> QED BY <2>1, HostCommandBlocksOnly, ReceiveCommandBlocksOnly DEF Next
<1> QED BY <1>1, <1>2, TypeCorrect, PTL DEF Spec

-----------------------------------------------------------------------------
(***************************************************************************)
(* Cutting a command into pieces.  KeptPieceIsConsistent is not inductive: *)
(* the next piece starts at txDataOffset, so that must lie in the command, *)
(* and the next command must not find a piece or an offset of the last.    *)
(***************************************************************************)
CuttingInv ==
  /\ txDataOffset <= txLen
  /\ pc = "idle" => ~part.held /\ txDataOffset = 0
  /\ KeptPieceIsConsistent

LEMMA KeepPartCutting ==
  ASSUME TypeOK, CuttingInv, KeepPart
  PROVE  txDataOffset' <= txLen' /\ KeptPieceIsConsistent'
<1> USE T1Assumption DEF TypeOK, ValuesOK, CuttingInv, KeptPieceIsConsistent
<1>1. CASE tx # "I"
  BY <1>1 DEF KeepPart, command
<1>2. CASE tx = "I" /\ part.held
  BY <1>2 DEF KeepPart, NextPart, NextChaining
<1>3. CASE tx = "I" /\ ~part.held
  <2>1. /\ part' = [held |-> TRUE, from |-> txDataOffset, to |-> CutTo]
        /\ txDataOffset' = CutTo /\ txLen' = txLen
        /\ isDeviceChaining' = CutChains
    BY <1>3 DEF KeepPart, NextPart, NextChaining
  <2>2. /\ CutTo \in txDataOffset..txLen
        /\ CutChains <=> CutTo < txLen
    BY DEF CutTo, CutChains, Ifscs
  <2>3. part'.from = txDataOffset /\ part'.to = CutTo
    BY <2>1
  <2> QED BY <2>1, <2>2, <2>3
<1> QED BY <1>1, <1>2, <1>3

LEMMA HostCutting ==
  ASSUME TypeOK, CuttingInv,
         \/ \E len \in 1..MaxLen : BeginApdu(len)
         \/ \E kind \in ControlCalls : BeginControl(kind)
         \/ HostStep \/ Reopen \/ DoReadTerminate
         \/ ReadFails \/ ReadNothing \/ ReadInterrupted
  PROVE  CuttingInv'
<1> USE DEF CuttingInv
<1>1. ASSUME NEW len \in 1..MaxLen, BeginApdu(len) PROVE CuttingInv'
  BY <1>1, T1Assumption DEF BeginApdu, NewT1Params, KeptPieceIsConsistent
<1>2. ASSUME NEW kind \in ControlCalls, BeginControl(kind) PROVE CuttingInv'
  BY <1>2 DEF BeginControl, NewT1Params, KeptPieceIsConsistent
<1>3. CASE Send \/ SendFails
  BY <1>3, KeepPartCutting DEF Send, SendFails
<1>4. CASE SendIFrameNoMemory
  BY <1>4 DEF SendIFrameNoMemory, KeptPieceIsConsistent
<1>5. CASE ReturnApdu \/ ReturnControl
  BY <1>5 DEF ReturnApdu, ReturnControl, FreeT1Params, NoPart,
     KeptPieceIsConsistent
<1>6. CASE Reopen \/ DoReadTerminate
  BY <1>6 DEF Reopen, DoReadTerminate, command, KeptPieceIsConsistent
<1>7. CASE ReadFails \/ ReadNothing \/ ReadInterrupted
  <2>1. pc = "read" /\ pc' # "idle" /\ UNCHANGED command
    BY <1>7 DEF ReadFails, ReadNothing, ReadInterrupted, RecoverUndecoded, Goto,
       Finish
  <2> QED BY <2>1 DEF command, KeptPieceIsConsistent
<1> QED BY <1>1, <1>2, <1>3, <1>4, <1>5, <1>6, <1>7 DEF HostStep

\* What a card block can do to the command: nothing, free the piece, or start
\* the command over.
LEMMA ReceiveLeavesCommand ==
  ASSUME NEW b \in CardBlocks, NEW stored \in BOOLEAN, Receive(b, stored)
  PROVE  /\ pc = "read" /\ pc' # "idle"
         /\ \/ /\ UNCHANGED <<txLen, txDataOffset, isDeviceChaining>>
               /\ part' = part \/ part' = NoPart
            \/ ResetForResyncRsp
<1> USE DEF Goto, Finish, FreeTxPartMem
<1>1. CASE RecvI(b, stored)
  BY <1>1, SMTT(30) DEF RecvI, RecvChainedI, RecvLastI, RecvWrongI
<1>2. CASE RecvR(b)
  <2>1. /\ pc = "read" /\ UNCHANGED <<txLen, txDataOffset, isDeviceChaining>>
        /\ b.type = "R"
    BY <1>2 DEF RecvR
  <2>2. CASE RecvAckOfPart(b) \/ RecvUnexpectedAck(b)
    BY <2>1, <2>2 DEF RecvAckOfPart, RecvUnexpectedAck
  <2>3. CASE RetryR(b)
    <3>1. b.err \in {"ack", "parity", "other", "unknown"}
      BY <2>1, CardBlockShape
    <3>2. AnswerR(b) => pc' # "idle"
      BY <3>1 DEF AnswerR
    <3>3. ~AnswerR(b) => pc' # "idle"
      BY <2>3 DEF RetryR
    <3> QED BY <2>1, <2>3, <3>2, <3>3 DEF RetryR
  <2>4. CASE ExhaustedR(b)
    BY <2>1, <2>4 DEF ExhaustedR
  <2> QED BY <1>2, <2>2, <2>3, <2>4 DEF RecvR
<1>3. CASE RecvS(b)
  BY <1>3 DEF RecvS, RecvResyncRsp, RecvIfsReq, RecvIfsRsp, RecvAbort, RecvWtxReq,
     RecvAtr, RecvOtherS, command
<1> QED BY <1>1, <1>2, <1>3 DEF Receive

LEMMA ReceiveCutting ==
  ASSUME TypeOK, CuttingInv, NEW b \in CardBlocks, NEW stored \in BOOLEAN,
         Receive(b, stored)
  PROVE  CuttingInv'
<1> USE DEF CuttingInv, KeptPieceIsConsistent
<1>1. CASE UNCHANGED <<txLen, txDataOffset, isDeviceChaining, part>>
  BY <1>1, ReceiveLeavesCommand
<1>2. CASE UNCHANGED <<txLen, txDataOffset, isDeviceChaining>> /\ part' = NoPart
  BY <1>2, ReceiveLeavesCommand DEF NoPart
<1>3. CASE ResetForResyncRsp
  BY <1>3, ReceiveLeavesCommand DEF ResetForResyncRsp, NoPart, TypeOK, ValuesOK
<1> QED BY <1>1, <1>2, <1>3, ReceiveLeavesCommand

\* However retransmission, IFS changes and resynchronisation interleave, the
\* piece t1SendIFrame sends again is the one it cut, and the chaining bit is
\* right for it.
THEOREM KeptPieceStaysConsistent == Spec => []KeptPieceIsConsistent
<1>1. Init => CuttingInv
  BY DEF Init, CuttingInv, KeptPieceIsConsistent, NoPart
<1>2. TypeOK /\ CuttingInv /\ [Next]_vars => CuttingInv'
  <2>1. CuttingInv /\ UNCHANGED vars => CuttingInv'
    BY DEF CuttingInv, KeptPieceIsConsistent, vars, command
  <2> QED BY <2>1, HostCutting, ReceiveCutting DEF Next
<1>3. CuttingInv => KeptPieceIsConsistent
  BY DEF CuttingInv
<1> QED BY <1>1, <1>2, <1>3, TypeCorrect, PTL DEF Spec

-----------------------------------------------------------------------------
(***************************************************************************)
(* Resynchronisation and warm reset are the last resort.                   *)
(***************************************************************************)
EscalationStep ==
  pc = "read" /\ pc' = "send" /\ IsApdu /\ tx' # tx =>
    /\ tx' \in {"RESYNC_REQ", "CIP_REQ"} => recoveryCnt = MaxRecoveryCnt
    /\ tx' = "CIP_REQ" => isResyncRecoveryFlag \/ tx \in SBlocks

LEMMA ReceiveEscalation ==
  ASSUME TypeOK, RetriesBounded, NEW b \in CardBlocks, NEW stored \in BOOLEAN,
         Receive(b, stored)
  PROVE  EscalationStep
<1> USE T1Assumption DEF EscalationStep, TypeOK, ValuesOK, RetriesBounded, Goto,
        Finish
<1>1. CASE RecvI(b, stored)
  BY <1>1, SMTT(30) DEF RecvI, RecvChainedI, RecvLastI, RecvWrongI
<1>2. CASE RecvR(b)
  <2>1. CASE RecvAckOfPart(b) \/ RecvUnexpectedAck(b)
    BY <2>1 DEF RecvAckOfPart, RecvUnexpectedAck
  <2>2. CASE RetryR(b)
    <3>1. b.err \in {"ack", "parity", "other", "unknown"}
      BY <1>2, CardBlockShape DEF RecvR
    <3>2. CASE AnswerR(b)
      <4>1. tx' \in {"R_OTHER", "R_PARITY", "I", tx}
        BY <3>1, <3>2 DEF AnswerR
      <4> QED BY <4>1
    <3>3. CASE ~AnswerR(b)
      BY <2>2, <3>3 DEF RetryR
    <3> QED BY <3>2, <3>3
  <2>3. CASE ExhaustedR(b)
    BY <2>3 DEF ExhaustedR
  <2> QED BY <1>2, <2>1, <2>2, <2>3 DEF RecvR
<1>3. CASE RecvS(b)
  <2>1. tx' \in {"I", "IFS_RSP", "R_ACK", "WTX_RSP", tx}
    BY <1>3 DEF RecvS, RecvResyncRsp, RecvIfsReq, RecvIfsRsp, RecvAbort,
       RecvWtxReq, RecvAtr, RecvOtherS
  <2> QED BY <2>1
<1> QED BY <1>1, <1>2, <1>3 DEF Receive

\* A command asks for a resynchronisation or a warm reset only with every
\* retry used up, and for the warm reset only after the resynchronisation or
\* an S-request went unanswered.
THEOREM EscalationTheorem == Spec => EscalationIsLastResort
<1>1. TypeOK /\ RetriesBounded /\ [Next]_vars => [EscalationStep]_vars
  <2> SUFFICES ASSUME TypeOK, RetriesBounded, Next PROVE EscalationStep
    OBVIOUS
  <2>1. CASE pc # "read"
    BY <2>1 DEF EscalationStep
  <2>2. ASSUME NEW b \in CardBlocks, NEW stored \in BOOLEAN, Receive(b, stored)
        PROVE  EscalationStep
    BY <2>2, ReceiveEscalation
  <2>3. CASE ReadFails
    BY <2>3, T1Assumption DEF EscalationStep, ReadFails, RecoverUndecoded,
       AwaitsSResponse, RetriesBounded, TypeOK, ValuesOK, Goto, Finish
  <2>4. CASE ReadNothing \/ ReadInterrupted \/ DoReadTerminate
    BY <2>4 DEF EscalationStep, ReadNothing, ReadInterrupted, DoReadTerminate,
       Finish
  <2>5. pc = "read" => ~(\E len \in 1..MaxLen : BeginApdu(len))
                       /\ ~(\E kind \in ControlCalls : BeginControl(kind))
                       /\ ~HostStep /\ ~Reopen
    BY DEF BeginApdu, BeginControl, NewT1Params, HostStep, Send, SendFails,
       SendIFrameNoMemory, ReturnApdu, ReturnControl, Reopen
  <2> QED BY <2>1, <2>2, <2>3, <2>4, <2>5 DEF Next
<1> QED BY <1>1, TypeCorrect, RetriesStayBounded, PTL
        DEF Spec, EscalationIsLastResort, EscalationStep

-----------------------------------------------------------------------------
(***************************************************************************)
(* T1Link, for commands and responses of any length, any limits of the     *)
(* retries and any number of exchanges and faults, if the caller resets    *)
(* the card after a failed exchange: the card executes a command once and  *)
(* whole, and the caller gets the response to it.                          *)
(***************************************************************************)
Resetting == {"RESYNC_REQ", "CIP_REQ"}
Requests == {"ATR_REQ", "END_REQ", "IFS_REQ"}
Owing == RBlocks \cup {"WTX_RSP"}   \* sent while the card owes a response
Exchanging == pc \in {"send", "read"}
Unread == pc = "send" \/ line = ToCard  \* the card has not seen the last block

Fresh == cExp = 0 /\ cNS = 0 /\ cGot = 0 /\ cSent = 0 /\ ~waiting

(***************************************************************************)
(* The two ends.  Between commands they are in touch: no response is owed, *)
(* and the sequence numbers agree, or the card has just been reset and the *)
(* device does not know it.  A command is open until the card has taken    *)
(* the piece that is sent, taken until the device knows it, and executed   *)
(* until the device has the last block of the response.  From a request to *)
(* resynchronise on nothing is known but that a card that asks for time    *)
(* has executed the command.                                               *)
(***************************************************************************)
InTouch ==
  /\ ~waiting /\ cSent \in {0, RspBlocks}
  /\ seqNumCard = cNS \/ (adrift /\ cSent = 0)
  /\ seqNumDevice = cExp \/ (adrift /\ Fresh)

Ready == InTouch /\ (cGot = 0 \/ misled)

NotYet == execs = 0 \/ resets = 1   \* the command may still be executed
Start == IF part.held THEN part.from ELSE txDataOffset

Open ==
  /\ InTouch /\ NotYet
  /\ cGot = Start \/ misled
  /\ seqNumDevice # cExp => execs = 0
  /\ ~dirty => rxList = <<>>

Taken ==
  /\ seqNumDevice # cExp /\ isDeviceChaining
  /\ cGot = txDataOffset /\ cSent = 0 /\ ~waiting /\ NotYet
  /\ seqNumCard = cNS \/ adrift
  /\ ~dirty => rxList = <<>>

\* The list has the first n blocks of the response and nothing else.
Holds(n) ==
  Len(rxList) = n /\ \A i \in 1..n : rxList[i] = [call |-> callNo, n |-> i]

Answering ==
  \/ waiting /\ seqNumCard = cNS /\ Holds(0)
  \/ ~waiting /\ seqNumCard # cNS /\ Holds(cSent - 1)
  \/ ~waiting /\ seqNumCard = cNS /\ cSent < RspBlocks /\ Holds(cSent)

Owes == seqNumDevice # cExp /\ cGot = 0 /\ (waiting \/ cSent > 0)

Executed == Owes /\ cCall = callNo /\ (~dirty /\ ~adrift => Answering)

(***************************************************************************)
(* The invariant.                                                          *)
(***************************************************************************)
CardOK ==
  /\ cExp \in {0, 1} /\ cNS \in {0, 1} /\ cGot \in 0..MaxLen
  /\ cSent \in 0..RspBlocks /\ cCall \in 0..MaxCalls /\ callNo \in 0..MaxCalls
  /\ waiting \in BOOLEAN /\ execs \in Nat /\ resets \in {0, 1}
  /\ cGot > 0 => cSent = 0
  /\ cSent > 0 \/ waiting => cCall > 0
  /\ waiting => seqNumDevice # cExp /\ cGot = 0
  /\ call # "none" => callNo > 0 /\ rsp = NoRsp

ApduOK ==
  call = "APDU" /\ Exchanging =>
    /\ tx \in {"I"} \cup Owing \cup Resetting
    /\ Open \/ Taken \/ Executed \/ tx \in Resetting
    /\ tx = "I" /\ Unread => Open
    /\ tx = "WTX_RSP" => Executed
    /\ tx \in Resetting => recoveryCnt >= MaxRecoveryCnt /\ (waiting => Executed)
    /\ ~dirty /\ ~isCardChaining => rxList = <<>>

ControlOK ==
  call \in ControlCalls /\ Exchanging =>
    /\ tx \in Owing \cup Resetting \cup Requests
    /\ tx \in Requests => Ready
    /\ tx \in Owing => Owes

\* What the card's answer says of the card.
IAnswer ==
  /\ line = RspBlock(1 - cNS, cCall, cSent) /\ cSent > 0 /\ ~waiting
  /\ tx \in Owing \cup {"I"} /\ Owes /\ (IsApdu => Executed)
  /\ ~dirty /\ ~adrift /\ IsApdu => seqNumCard # cNS

RAnswer ==
  /\ line.seq = cExp /\ line.err \in {"ack", "parity", "other"}
  /\ line.err = "ack" => IsApdu /\ tx \notin SBlocks /\ (Taken \/ (Open /\ cGot > 0))
  /\ line.err = "other" => tx = "I" /\ seqNumDevice # cExp /\ Open
  /\ tx = "WTX_RSP" => waiting

SAnswer ==
  /\ line.sub \in {"WTX_REQ", "RESYNC_RSP", "CIP_RSP", "END_RSP", "ATR_RSP"}
  /\ line.sub = "WTX_REQ" => waiting
  /\ line.sub = "RESYNC_RSP" =>
       line = S("RESYNC_RSP") /\ tx = "RESYNC_REQ" /\ Fresh /\ resets = 1
  /\ line.sub = "CIP_RSP" =>
       line \in Atr("CIP_RSP") /\ tx = "CIP_REQ" /\ Fresh /\ resets = 1
  /\ line.sub = "END_RSP" => tx = "END_REQ"
  /\ line.sub = "ATR_RSP" => tx = "ATR_REQ"

LineOK ==
  /\ line \in {ToCard, Silence} \cup CardBlocks
  /\ pc # "read" => line = Silence
  /\ tx = "WTX_RSP" /\ Unread => waiting
  /\ HasAnswer /\ line.type = "I" => IAnswer
  /\ HasAnswer /\ line.type = "R" => RAnswer
  /\ HasAnswer /\ line.type = "S" => SAnswer

DoneOK ==
  pc = "done" /\ status = "SUCCESS" =>
    IF call = "APDU"
    THEN rxList # <<>> => /\ InTouch /\ (cGot = 0 \/ dirty)
                          /\ ~dirty /\ ~adrift => Holds(RspBlocks)
    ELSE Ready

IdleOK == pc = "idle" /\ rsp.ok => Ready

LinkInv ==
  /\ CardOK /\ ApduOK /\ ControlOK /\ LineOK /\ DoneOK /\ IdleOK
  /\ ExecutedOnce /\ OwnResponseIfClean /\ CommandIntact

Inv == TypeOK /\ CuttingInv /\ LinkInv

-----------------------------------------------------------------------------
(***************************************************************************)
(* Types.                                                                  *)
(***************************************************************************)
LEMMA LineShape ==
  /\ ToCard \notin CardBlocks /\ Silence \notin CardBlocks /\ ToCard # Silence
  /\ \A b \in CardBlocks : b.type \in {"I", "R", "S"} /\ b \notin {ToCard, Silence}
BY DEF ToCard, Silence, CardBlocks

LEMMA AnswerIsCardBlock ==
  ASSUME LineOK, HasAnswer
  PROVE  line \in CardBlocks /\ pc = "read"
BY LineShape DEF LineOK, HasAnswer

LEMMA LinkTypes ==
  ASSUME Inv, [LinkNext]_linkVars
  PROVE  TypeOK' /\ CuttingInv'
<1> USE DEF Inv, LinkInv
<1>1. CASE UNCHANGED vars
  BY <1>1, StutterTypeOK DEF CuttingInv, KeptPieceIsConsistent, vars, command
<1>2. CASE LinkBegin
  BY <1>2, BeginTypeOK, HostCutting DEF LinkBegin
<1>3. CASE LinkSend
  BY <1>3, SendTypeOK, HostCutting DEF LinkSend, HostStep
<1>4. CASE LinkReturn
  BY <1>4, ReturnTypeOK, HostCutting DEF LinkReturn, HostStep
<1>5. CASE ReadFails
  BY <1>5, ReadTypeOK, HostCutting
<1>6. ASSUME NEW stored \in BOOLEAN, HasAnswer, Receive(line, stored)
      PROVE  TypeOK' /\ CuttingInv'
  BY <1>6, AnswerIsCardBlock, RecvITypeOK, RecvRTypeOK, RecvSTypeOK, ReceiveCutting DEF Receive
<1>7. CASE HostFault
  BY <1>6, <1>7, SendTypeOK, ReadTypeOK, HostCutting DEF HostFault, HostStep
<1>8. CASE CardStep \/ LoseToCard \/ GarbleToCard
  BY <1>1, <1>8 DEF CardStep, LoseToCard, GarbleToCard
<1>9. CASE LoseToDevice \/ PollsUsedUp
  BY <1>5, <1>9 DEF LoseToDevice, PollsUsedUp
<1>10. CASE Deliver
  BY <1>6, <1>10 DEF Deliver
<1> QED
  BY <1>1, <1>2, <1>3, <1>4, <1>7, <1>8, <1>9, <1>10 DEF LinkNext, Exchange, linkVars

LEMMA LinkInitInv == LinkInit => Inv
<1> SUFFICES ASSUME LinkInit PROVE Inv
  OBVIOUS
<1>1. TypeOK /\ CuttingInv
  BY InitTypeOK DEF LinkInit, Init, CuttingInv, KeptPieceIsConsistent, NoPart
<1>2. CardOK
  <2>1. MaxLen \in Nat /\ RspBlocks \in Nat /\ MaxCalls \in Nat
    BY T1Assumption, T1LinkAssumption
  <2>2. /\ cExp = 0 /\ cNS = 0 /\ cGot = 0 /\ cSent = 0 /\ cCall = 0 /\ callNo = 0
        /\ ~waiting /\ execs = 0 /\ resets = 0 /\ call = "none"
    BY DEF LinkInit, Init
  <2>3. waiting \in BOOLEAN
    BY DEF LinkInit
  <2> QED
    BY <2>1, <2>2, <2>3 DEF CardOK
<1>3. ApduOK /\ ControlOK /\ DoneOK /\ IdleOK
  BY DEF LinkInit, Init, ApduOK, ControlOK, DoneOK, IdleOK, Exchanging, ControlCalls, FirstBlock, NoRsp
<1>4. LineOK
  BY DEF LinkInit, Init, LineOK, HasAnswer, Unread
<1>5. ExecutedOnce /\ OwnResponseIfClean /\ CommandIntact
  BY DEF LinkInit, Init, ExecutedOnce, OwnResponseIfClean, CommandIntact, NoRsp
<1> QED
  BY <1>1, <1>2, <1>3, <1>4, <1>5 DEF Inv, LinkInv

-----------------------------------------------------------------------------
(***************************************************************************)
(* The caller.                                                             *)
(***************************************************************************)
LEMMA BeginKeeps ==
  ASSUME Inv, ResetAfterFailure, LinkBegin
  PROVE  LinkInv'
<1> USE DEF Inv, LinkInv
<1>0. PICK kind \in {"APDU"} \cup ControlCalls, first \in TxBlocks, len \in 0..MaxLen :
        /\ NewT1Params(kind, first, len)
        /\ kind = "APDU" => first = "I"
        /\ kind # "APDU" => first = FirstBlock[kind]
        /\ ~rsp.ok => kind \in {"INIT", "CIP"}
  <2>1. ASSUME NEW len \in 1..MaxLen, BeginApdu(len)
        PROVE  NewT1Params("APDU", "I", len) /\ rsp.ok
    BY <2>1 DEF BeginApdu, NewT1Params, LinkBegin
  <2>2. ASSUME NEW kind \in ControlCalls, BeginControl(kind)
        PROVE  NewT1Params(kind, FirstBlock[kind], 0) /\ (~rsp.ok => kind \in {"INIT", "CIP"})
    BY <2>2 DEF BeginControl, NewT1Params, LinkBegin
  <2>3. ASSUME NEW kind \in ControlCalls PROVE FirstBlock[kind] \in TxBlocks /\ kind # "APDU"
    BY DEF ControlCalls, FirstBlock, TxBlocks, SBlocks
  <2>4. CASE \E len \in 1..MaxLen : BeginApdu(len)
    BY <2>1, <2>4 DEF TxBlocks
  <2>5. CASE \E kind \in ControlCalls : BeginControl(kind)
    <3>1. 0 \in 0..MaxLen
      BY T1Assumption
    <3> QED
      BY <2>2, <2>3, <2>5, <3>1
  <2> QED
    BY <2>4, <2>5 DEF LinkBegin
<1>1. /\ pc = "idle" /\ pc' = "send" /\ call' = kind /\ tx' = first /\ rsp' = NoRsp
      /\ line = Silence /\ call = "none" /\ ~part.held /\ txDataOffset = 0
  BY <1>0 DEF NewT1Params, LineOK, TypeOK, ValuesOK, CuttingInv
<1>2. UNCHANGED <<seqNumDevice, seqNumCard, part, txDataOffset, rxList, isCardChaining>>
  BY <1>0 DEF NewT1Params, seqs, received
<1>3. UNCHANGED <<cExp, cNS, cGot, cSent, cCall, waiting, line, misled, adrift, intact>>
  BY DEF LinkBegin, card
<1>4. callNo' \in 1..MaxCalls /\ execs' = 0 /\ resets' = 0 /\ dirty' = (rxList # <<>>)
  BY T1LinkAssumption DEF LinkBegin, CardOK
<1>5. CardOK'
  BY <1>1, <1>2, <1>3, <1>4 DEF CardOK
<1>6. rsp.ok => Ready
  BY <1>1 DEF IdleOK
<1>7. kind \notin {"INIT", "CIP"} => Ready'
  BY <1>0, <1>2, <1>3, <1>6 DEF Ready, InTouch, Fresh
<1>8. ApduOK'
  BY <1>0, <1>1, <1>2, <1>3, <1>4, <1>7
    DEF ApduOK, Open, Ready, InTouch, Fresh, NotYet, Start, Exchanging, Resetting, Owing, RBlocks,
        ControlCalls, FirstBlock
<1>9. ControlOK'
  BY <1>0, <1>1, <1>7
    DEF ControlOK, Resetting, Requests, Owing, RBlocks, ControlCalls, FirstBlock
<1>10. LineOK' /\ DoneOK' /\ IdleOK'
  BY <1>0, <1>1, <1>3
    DEF LineOK, DoneOK, IdleOK, HasAnswer, Unread, ControlCalls, FirstBlock, TxBlocks
<1>11. ExecutedOnce' /\ OwnResponseIfClean' /\ CommandIntact'
  BY <1>1, <1>3, <1>4 DEF ExecutedOnce, OwnResponseIfClean, CommandIntact, NoRsp
<1> QED
  BY <1>5, <1>8, <1>9, <1>10, <1>11

\* What is said of the two ends depends on these variables only.
ends == <<card, ghost, callNo, seqNumDevice, seqNumCard, rxList>>

LEMMA SameEnds ==
  ASSUME UNCHANGED ends
  PROVE  /\ InTouch' <=> InTouch
         /\ Ready' <=> Ready
         /\ NotYet' <=> NotYet
         /\ Owes' <=> Owes
         /\ Executed' <=> Executed
         /\ Fresh' <=> Fresh
         /\ Start' = Start => (Open' <=> Open)
         /\ UNCHANGED <<txDataOffset, isDeviceChaining>> => (Taken' <=> Taken)
<1>1. /\ UNCHANGED <<cExp, cNS, cGot, cSent, cCall, waiting, seqNumDevice, seqNumCard>>
      /\ UNCHANGED <<execs, resets, dirty, misled, adrift, callNo, rxList>>
  BY DEF ends, card, ghost
<1>2. (InTouch' <=> InTouch) /\ (Ready' <=> Ready) /\ (NotYet' <=> NotYet) /\ (Fresh' <=> Fresh)
  BY <1>1 DEF InTouch, Ready, NotYet, Fresh
<1>3. Answering' <=> Answering
  BY <1>1 DEF Answering, Holds
<1>4. (Owes' <=> Owes) /\ (Executed' <=> Executed)
  BY <1>1, <1>3 DEF Owes, Executed
<1>5. Start' = Start => (Open' <=> Open)
  BY <1>1, <1>2 DEF Open
<1>6. UNCHANGED <<txDataOffset, isDeviceChaining>> => (Taken' <=> Taken)
  BY <1>1, <1>2 DEF Taken
<1> QED
  BY <1>2, <1>4, <1>5, <1>6

LEMMA SendKeeps ==
  ASSUME Inv, Send \/ SendFails \/ SendIFrameNoMemory,
         line' = Silence \/ (line' = ToCard /\ pc' = "read"),
         UNCHANGED <<card, ghost, callNo>>
  PROVE  LinkInv'
<1> USE DEF Inv, LinkInv
<1>1. /\ pc = "send" /\ pc' \in {"send", "read", "done"}
      /\ UNCHANGED <<call, rsp, tx, recoveryCnt, isCardChaining>>
      /\ pc' = "done" => status' = "FAILED"
  BY DEF Send, SendFails, SendIFrameNoMemory, SendUnchanged, retries, received
<1>2. UNCHANGED ends
  BY DEF Send, SendFails, SendIFrameNoMemory, SendUnchanged, seqs, received, ends
<1>3. Start' = Start
  BY DEF Send, SendFails, SendIFrameNoMemory, KeepPart, NextPart, command, Start
<1>4. tx # "I" => UNCHANGED <<txDataOffset, isDeviceChaining>>
  BY DEF Send, SendFails, SendIFrameNoMemory, KeepPart, command
<1>5. UNCHANGED <<cExp, cNS, cGot, cSent, cCall, waiting, seqNumDevice, seqNumCard, rxList>>
      /\ UNCHANGED <<execs, resets, intact, dirty, misled, adrift, callNo>>
  BY <1>2 DEF ends, card, ghost
<1>6. CardOK'
  BY <1>1, <1>5 DEF CardOK
<1>7. ApduOK'
  <2>1. CASE tx = "I"
    BY <1>1, <1>2, <1>3, <1>5, <2>1, SameEnds
      DEF ApduOK, Exchanging, Unread, Owing, RBlocks, Resetting
  <2>2. CASE tx # "I"
    BY <1>1, <1>2, <1>3, <1>4, <1>5, <2>2, SameEnds DEF ApduOK, Exchanging
  <2> QED
    BY <2>1, <2>2
<1>8. ControlOK'
  BY <1>1, <1>2, SameEnds DEF ControlOK, Exchanging
<1>9. LineOK'
  BY <1>1, <1>5 DEF LineOK, HasAnswer, Unread
<1>10. DoneOK' /\ IdleOK'
  BY <1>1 DEF DoneOK, IdleOK
<1>11. ExecutedOnce' /\ OwnResponseIfClean' /\ CommandIntact'
  BY <1>1, <1>5 DEF ExecutedOnce, OwnResponseIfClean, CommandIntact
<1> QED
  BY <1>6, <1>7, <1>8, <1>9, <1>10, <1>11

\* An exchange that fails leaves nothing but what holds of every card.
LEMMA FailureKeeps ==
  ASSUME Inv, pc' = "done", status' = "FAILED", line' = Silence,
         UNCHANGED <<call, rsp, callNo, ghost, card>>,
         waiting => seqNumDevice' = seqNumDevice
  PROVE  LinkInv'
<1> USE DEF Inv, LinkInv
<1>1. UNCHANGED <<cExp, cNS, cGot, cSent, cCall, waiting>>
      /\ UNCHANGED <<execs, resets, intact, dirty, misled, adrift>>
  BY DEF card, ghost
<1>2. CardOK'
  BY <1>1 DEF CardOK
<1>3. ApduOK' /\ ControlOK' /\ DoneOK' /\ IdleOK'
  BY DEF ApduOK, ControlOK, DoneOK, IdleOK, Exchanging
<1>4. LineOK'
  BY LineShape DEF LineOK, HasAnswer, Unread
<1>5. ExecutedOnce' /\ OwnResponseIfClean' /\ CommandIntact'
  BY <1>1 DEF ExecutedOnce, OwnResponseIfClean, CommandIntact
<1> QED
  BY <1>2, <1>3, <1>4, <1>5

LEMMA ReturnKeeps ==
  ASSUME Inv, LinkReturn
  PROVE  LinkInv'
<1> USE DEF Inv, LinkInv
<1>1. /\ pc = "done" /\ pc' = "idle" /\ call' = "none" /\ tx' = "I" /\ call # "none"
      /\ UNCHANGED <<seqNumDevice, seqNumCard>> /\ line' = Silence
  BY DEF LinkReturn, ReturnApdu, ReturnControl, FreeT1Params, seqs, TypeOK, ValuesOK, LineOK
<1>2. UNCHANGED <<cExp, cNS, cGot, cSent, cCall, waiting, execs, resets, intact, dirty, adrift, callNo>>
  BY DEF LinkReturn, NoFault, card
<1>3. misled' = (misled \/ (dirty /\ rsp'.data # <<>>))
  BY DEF LinkReturn
<1>4. rsp.data = <<>>
  BY <1>1 DEF CardOK, NoRsp
<1>5. ASSUME call = "APDU", status = "SUCCESS"
      PROVE  (rsp'.ok => Ready') /\ OwnResponseIfClean'
  <2>1. rsp' = [ok |-> rxList # <<>>, data |-> rxList]
    BY <1>5, <1>1 DEF LinkReturn, ReturnApdu, ReturnControl, IsApdu
  <2>2. rsp'.ok => Ready'
    BY <1>1, <1>2, <1>3, <1>5, <2>1 DEF DoneOK, Ready, InTouch, Fresh
  <2>3. OwnResponseIfClean'
    <3>1. SUFFICES ASSUME rxList # <<>>, ~dirty, ~adrift PROVE rxList = Response(callNo')
      BY <1>2, <2>1 DEF OwnResponseIfClean
    <3>2. Holds(RspBlocks) /\ rxList \in Seq(Inf)
      BY <1>1, <1>5, <3>1 DEF DoneOK, TypeOK, ValuesOK
    <3>3. rxList = [i \in 1..RspBlocks |-> rxList[i]]
      BY <3>2 DEF Holds
    <3>4. \A i \in 1..RspBlocks : rxList[i] = [call |-> callNo, n |-> i]
      BY <3>2 DEF Holds
    <3> QED
      BY <1>2, <3>3, <3>4 DEF Response
  <2> QED
    BY <2>2, <2>3
<1>6. ASSUME call # "APDU" \/ status # "SUCCESS"
      PROVE  (rsp'.ok => Ready') /\ OwnResponseIfClean'
  <2>1. rsp'.data = <<>> /\ (rsp'.ok => call # "APDU" /\ status = "SUCCESS")
    <3>1. CASE call = "APDU"
      BY <1>1, <1>4, <1>6, <3>1 DEF LinkReturn, ReturnApdu, ReturnControl, IsApdu, CardOK, NoRsp
    <3>2. CASE call # "APDU"
      <4>1. rsp' = [ok |-> status = "SUCCESS", data |-> <<>>]
        BY <3>2 DEF LinkReturn, ReturnApdu, ReturnControl, IsApdu
      <4>2. rsp'.data = <<>> /\ rsp'.ok = (status = "SUCCESS")
        BY <4>1, Zenon
      <4> QED
        BY <3>2, <4>2
    <3> QED
      BY <3>1, <3>2
  <2>2. rsp'.ok => Ready'
    BY <1>1, <1>2, <1>3, <2>1 DEF DoneOK, Ready, InTouch, Fresh
  <2>3. OwnResponseIfClean'
    BY <2>1 DEF OwnResponseIfClean
  <2> QED
    BY <2>2, <2>3
<1>7. (rsp'.ok => Ready') /\ OwnResponseIfClean'
  BY <1>5, <1>6
<1>8. CardOK'
  BY <1>1, <1>2 DEF CardOK
<1>9. ApduOK' /\ ControlOK' /\ DoneOK' /\ IdleOK'
  BY <1>1, <1>7 DEF ApduOK, ControlOK, DoneOK, IdleOK, Exchanging
<1>10. LineOK'
  BY <1>1, LineShape DEF LineOK, HasAnswer, Unread
<1>11. ExecutedOnce' /\ CommandIntact'
  BY <1>2, <1>3 DEF ExecutedOnce, CommandIntact
<1> QED
  BY <1>7, <1>8, <1>9, <1>10, <1>11

-----------------------------------------------------------------------------
(***************************************************************************)
(* The card.                                                               *)
(***************************************************************************)
LEMMA WireShape ==
  ASSUME Inv, line = ToCard
  PROVE  /\ pc = "read" /\ call \in {"APDU"} \cup ControlCalls
         /\ Wire.kind = "I" => /\ tx = "I" /\ part.held /\ call = "APDU" /\ Open
                               /\ Wire.seq = seqNumDevice /\ Wire.more = isDeviceChaining
                               /\ Wire.from = part.from /\ Wire.to = part.to
         /\ Wire.kind \in RBlocks => tx = Wire.kind /\ Wire.seq = seqNumCard
         /\ Wire.kind \in {"RESYNC_REQ", "CIP_REQ", "WTX_RSP", "END_REQ", "ATR_REQ"} =>
              tx = Wire.kind
<1> USE DEF Inv, LinkInv
<1>1. pc = "read" /\ call \in {"APDU"} \cup ControlCalls
  BY LineShape DEF LineOK, TypeOK, ValuesOK
<1>2. tx = "I" => call = "APDU" /\ Open
  BY <1>1 DEF ApduOK, ControlOK, Exchanging, Unread, Owing, RBlocks, Resetting, Requests
<1>3. tx \in TxBlocks
  BY DEF TypeOK, ValuesOK
<1>4. CASE tx = "I"
  <2>1. CASE part.held
    <3>1. Wire = [kind |-> Pcb(tx), seq |-> seqNumDevice, more |-> isDeviceChaining,
                  from |-> part.from, to |-> part.to]
      BY <1>1, <1>4, <2>1 DEF Wire, TypeOK, FlagsOK
    <3>2. Wire.kind = "I"
      BY <1>4, <3>1 DEF Pcb
    <3> QED
      BY <1>1, <1>2, <1>4, <2>1, <3>1, <3>2 DEF RBlocks
  <2>2. CASE ~part.held
    BY <1>1, <1>4, <2>2 DEF Wire, NoWire, RBlocks
  <2> QED
    BY <2>1, <2>2
<1>5. CASE tx # "I"
  <2>1. Wire.kind = Pcb(tx) /\ (tx \in RBlocks => Wire.seq = seqNumCard)
    BY <1>1, <1>5 DEF Wire
  <2> QED
    BY <1>1, <1>3, <1>5, <2>1 DEF Pcb, RBlocks, TxBlocks, SBlocks
<1> QED
  BY <1>4, <1>5

\* What the card can say.
LEMMA CardGivesAnswer ==
  /\ \A err \in {"ack", "parity", "other"}, s \in {0, 1} :
       [R(err) EXCEPT !.seq = s] \in CardBlocks
  /\ cExp \in {0, 1} => \A err \in {"ack", "parity", "other"} : R(err) \in CardBlocks
  /\ \A sub \in {"WTX_REQ", "RESYNC_RSP", "END_RSP"} : S(sub) \in CardBlocks
  /\ \A sub \in {"CIP_RSP", "ATR_RSP"} : Atr(sub) \subseteq CardBlocks
<1>1. \A sub \in {"CIP_RSP", "ATR_RSP"} : Atr(sub) \subseteq CardBlocks
  <2>1. ASSUME NEW sub \in {"CIP_RSP", "ATR_RSP"}, NEW n \in IFSCs \ {0}
        PROVE  [type |-> "S", sub |-> sub, valid |-> TRUE, ifsc |-> n, ext |-> FALSE] \in
                 [type : {"S"}, sub : {"CIP_RSP", "ATR_RSP"}, valid : BOOLEAN, ifsc : IFSCs,
                  ext : BOOLEAN]
    OBVIOUS
  <2>2. ASSUME NEW sub \in {"CIP_RSP", "ATR_RSP"}, NEW b \in Atr(sub)
        PROVE  b \in CardBlocks
    <3>1. PICK n \in IFSCs \ {0} : b = [type |-> "S", sub |-> sub, valid |-> TRUE, ifsc |-> n,
                                        ext |-> FALSE]
      BY DEF Atr
    <3> QED
      BY <2>1, <3>1 DEF CardBlocks
  <2> QED
    BY <2>2
<1>2. \A sub \in {"WTX_REQ", "RESYNC_RSP", "END_RSP"} : S(sub) \in CardBlocks
  BY DEF S, CardBlocks
<1>3. \A err \in {"ack", "parity", "other"}, s \in {0, 1} :
        [type |-> "R", seq |-> s, err |-> err] \in CardBlocks
  BY DEF CardBlocks
<1>4. \A err, s : [R(err) EXCEPT !.seq = s] = [type |-> "R", seq |-> s, err |-> err]
  BY DEF R
<1> QED
  BY <1>1, <1>2, <1>3, <1>4 DEF R

LEMMA RspBlockIsCardBlock ==
  ASSUME NEW s \in {0, 1}, NEW c \in 1..MaxCalls, NEW n \in 1..RspBlocks
  PROVE  /\ RspBlock(s, c, n) \in CardBlocks
         /\ RspBlock(s, c, n).type = "I" /\ RspBlock(s, c, n).seq = s
<1>1. [call |-> c, n |-> n] \in Inf
  BY T1LinkAssumption
<1>2. (n < RspBlocks) \in BOOLEAN
  OBVIOUS
<1> QED
  BY <1>1, <1>2 DEF RspBlock, CardBlocks

\* A step of the card leaves the device reading, so that only these are left
\* to be shown.
LEMMA CardStepKeeps ==
  ASSUME Inv, line = ToCard, UNCHANGED vars, UNCHANGED callNo,
         CardOK', ApduOK', ControlOK', ExecutedOnce', CommandIntact',
         line' \in CardBlocks,
         line'.type = "I" => IAnswer', line'.type = "R" => RAnswer', line'.type = "S" => SAnswer'
  PROVE  LinkInv'
<1>1. pc = "read" /\ pc' = "read" /\ tx' = tx
  BY WireShape DEF vars
<1>2. rsp' = NoRsp
  BY WireShape DEF Inv, LinkInv, CardOK, ControlCalls, FirstBlock, vars, session
<1>3. LineOK'
  BY <1>1, LineShape DEF LineOK, Unread, HasAnswer
<1> QED
  BY <1>1, <1>2, <1>3 DEF LinkInv, DoneOK, IdleOK, OwnResponseIfClean, NoRsp

LEMMA TakesPieceKeeps ==
  ASSUME Inv, line = ToCard, UNCHANGED vars, UNCHANGED callNo, TakesPiece
  PROVE  LinkInv'
<1> USE DEF Inv, LinkInv
<1>1. /\ pc = "read" /\ tx = "I" /\ part.held /\ call = "APDU" /\ Open
      /\ seqNumDevice = cExp /\ isDeviceChaining
      /\ cGot' = part.to /\ intact' = (intact /\ part.from = cGot)
  BY WireShape DEF TakesPiece
<1>2. /\ cExp' = 1 - cExp /\ cSent' = 0 /\ line' = [R("ack") EXCEPT !.seq = cExp']
      /\ UNCHANGED <<cNS, cCall, waiting, execs, resets, dirty, misled, adrift>>
  BY DEF TakesPiece
<1>3. UNCHANGED <<pc, tx, call, rsp, part, txDataOffset, isDeviceChaining, isCardChaining, rxList,
                  seqNumDevice, seqNumCard, recoveryCnt>>
  BY DEF vars, session, command, received, seqs, retries
<1>4. part.to = txDataOffset /\ part.to \in 0..MaxLen
  BY <1>1 DEF CuttingInv, KeptPieceIsConsistent, TypeOK, PartOK
<1>5. Taken'
  BY <1>1, <1>2, <1>3, <1>4 DEF Taken, Open, InTouch, NotYet, CardOK
<1>6. CardOK'
  BY <1>1, <1>2, <1>3, <1>4 DEF CardOK, Open, InTouch
<1>7. ApduOK' /\ ControlOK'
  BY <1>1, <1>2, <1>3, <1>5
    DEF ApduOK, ControlOK, ControlCalls, FirstBlock, Exchanging, Unread, Resetting, Open, ToCard, R
<1>8. line' \in CardBlocks /\ line'.type = "R" /\ line'.seq = cExp' /\ line'.err = "ack"
  BY <1>2, CardGivesAnswer DEF CardOK, R
<1>9. RAnswer'
  BY <1>1, <1>3, <1>5, <1>8 DEF RAnswer, IsApdu, SBlocks
<1>10. ExecutedOnce' /\ CommandIntact'
  BY <1>1, <1>2 DEF ExecutedOnce, CommandIntact, Open, Start
<1> QED
  BY <1>6, <1>7, <1>8, <1>9, <1>10, CardStepKeeps

LEMMA ExecutesKeeps ==
  ASSUME Inv, line = ToCard, UNCHANGED vars, UNCHANGED callNo, Executes
  PROVE  LinkInv'
<1> USE DEF Inv, LinkInv
<1>1. /\ pc = "read" /\ tx = "I" /\ part.held /\ call = "APDU" /\ Open
      /\ seqNumDevice = cExp /\ ~isDeviceChaining
      /\ intact' = (intact /\ part.from = cGot /\ part.to = txLen)
  BY WireShape DEF Executes
<1>2. /\ cExp' = 1 - cExp /\ cGot' = 0 /\ cCall' = callNo /\ execs' = execs + 1
      /\ UNCHANGED <<resets, dirty, misled, adrift>>
  BY DEF Executes
<1>3. UNCHANGED <<pc, tx, call, rsp, part, txDataOffset, isDeviceChaining, isCardChaining, rxList,
                  seqNumDevice, seqNumCard, recoveryCnt, callNo>>
  BY DEF vars, session, command, received, seqs, retries
<1>4. part.to = txLen
  BY <1>1 DEF CuttingInv, KeptPieceIsConsistent, TypeOK, PartOK, ValuesOK
<1>5. callNo \in 1..MaxCalls /\ rsp = NoRsp
  BY <1>1 DEF CardOK
<1>6. Len(<<>>) = 0
  OBVIOUS
<1>7. ~dirty => Len(rxList) = 0
  BY <1>1, <1>6 DEF Open
<1>8. \/ waiting' /\ line' = S("WTX_REQ") /\ UNCHANGED <<cNS, cSent>>
      \/ ~waiting' /\ line' = RspBlock(cNS, callNo, 1) /\ cNS' = 1 - cNS /\ cSent' = 1
  BY DEF Executes, AskToWait, SendNew
<1>9. waiting' \in BOOLEAN
  BY DEF Executes, AskToWait
<1>10. Executed'
  BY <1>1, <1>2, <1>3, <1>7, <1>8, T1LinkAssumption
    DEF Executed, Owes, Answering, Holds, Open, InTouch, CardOK
<1>11. CardOK'
  BY <1>1, <1>2, <1>3, <1>5, <1>8, <1>9, T1Assumption, T1LinkAssumption DEF CardOK
<1>12. line' \in CardBlocks /\ line' # ToCard
  BY <1>5, <1>8, CardGivesAnswer, RspBlockIsCardBlock, T1LinkAssumption, LineShape DEF CardOK
<1>13. ApduOK' /\ ControlOK'
  BY <1>1, <1>2, <1>3, <1>10, <1>12
    DEF ApduOK, ControlOK, ControlCalls, FirstBlock, Exchanging, Unread, Resetting, Open
<1>14. line'.type = "I" => IAnswer'
  <2>1. SUFFICES ASSUME line'.type = "I" PROVE IAnswer'
    OBVIOUS
  <2>2. ~waiting' /\ line' = RspBlock(cNS, callNo, 1) /\ cNS' = 1 - cNS /\ cSent' = 1
    BY <1>8, <2>1 DEF S
  <2>3. cNS = 1 - cNS'
    BY <2>2 DEF CardOK
  <2>4. ~adrift' => seqNumCard' # cNS'
    BY <1>1, <1>2, <1>3, <2>2 DEF Open, InTouch, CardOK
  <2> QED
    BY <1>1, <1>2, <1>3, <1>10, <2>2, <2>3, <2>4 DEF IAnswer, Executed
<1>15. line'.type = "S" => SAnswer'
  BY <1>1, <1>5, <1>8, RspBlockIsCardBlock, T1LinkAssumption DEF SAnswer, S, CardOK
<1>16. line'.type # "R"
  BY <1>5, <1>8, RspBlockIsCardBlock, T1LinkAssumption DEF S, CardOK
<1>17. ExecutedOnce' /\ CommandIntact'
  <2>1. execs' > 1 => resets' > 0
    BY <1>1, <1>2 DEF Open, NotYet, CardOK
  <2>2. part.from = cGot \/ misled
    BY <1>1 DEF Open, Start
  <2> QED
    BY <1>1, <1>2, <1>4, <2>1, <2>2 DEF ExecutedOnce, CommandIntact
<1> QED
  BY <1>11, <1>12, <1>13, <1>14, <1>15, <1>16, <1>17, CardStepKeeps

LEMMA TakesOutOfSequenceKeeps ==
  ASSUME Inv, line = ToCard, UNCHANGED vars, UNCHANGED callNo, TakesOutOfSequence
  PROVE  LinkInv'
<1> USE DEF Inv, LinkInv
<1>1. /\ pc = "read" /\ tx = "I" /\ call = "APDU" /\ Open /\ seqNumDevice # cExp
  BY WireShape DEF TakesOutOfSequence
<1>2. UNCHANGED <<cExp, cNS, cGot, cSent, cCall, waiting, execs, resets, intact, dirty, misled, adrift>>
      /\ line' = R("other")
  BY DEF TakesOutOfSequence, card, ghost
<1>3. UNCHANGED <<pc, tx, call, rsp, part, txDataOffset, isDeviceChaining, isCardChaining, rxList,
                  seqNumDevice, seqNumCard, recoveryCnt, callNo>>
  BY DEF vars, session, command, received, seqs, retries
<1>4. Open'
  BY <1>1, <1>2, <1>3 DEF Open, InTouch, Fresh, NotYet, Start
<1>5. CardOK'
  BY <1>2, <1>3 DEF CardOK
<1>6. line' \in CardBlocks /\ line'.type = "R" /\ line'.seq = cExp' /\ line'.err = "other"
  BY <1>2, CardGivesAnswer DEF CardOK, R
<1>7. ApduOK' /\ ControlOK'
  BY <1>1, <1>3, <1>4, <1>2
    DEF ApduOK, ControlOK, ControlCalls, FirstBlock, Exchanging, Unread, Resetting
<1>8. RAnswer'
  BY <1>1, <1>2, <1>3, <1>4, <1>6 DEF RAnswer
<1>9. ExecutedOnce' /\ CommandIntact'
  BY <1>2 DEF ExecutedOnce, CommandIntact
<1> QED
  BY <1>5, <1>6, <1>7, <1>8, <1>9, CardStepKeeps

\* What a block that is not part of a command leaves alone.
LEMMA RestUnchanged ==
  ASSUME UNCHANGED vars
  PROVE  UNCHANGED <<pc, tx, call, rsp, part, txDataOffset, isDeviceChaining, isCardChaining,
                     rxList, seqNumDevice, seqNumCard, recoveryCnt>>
BY DEF vars, session, command, received, seqs, retries

LEMMA OwingStates ==
  ASSUME Inv, line = ToCard, tx \in Owing
  PROVE  /\ call = "APDU" => Open \/ Taken \/ Executed
         /\ call # "APDU" => call \in ControlCalls /\ Owes
         /\ tx \notin {"I"} \cup Resetting \cup Requests
<1> USE DEF Inv, LinkInv
<1>1. tx \notin {"I"} \cup Resetting \cup Requests
  BY DEF Owing, RBlocks, Resetting, Requests
<1>2. pc = "read" /\ call \in {"APDU"} \cup ControlCalls
  BY WireShape
<1> QED
  BY <1>1, <1>2 DEF ApduOK, ControlOK, Exchanging

\* The next block of the response, or the first after a wait.
LEMMA SendNewKeeps ==
  ASSUME Inv, line = ToCard, UNCHANGED vars, UNCHANGED callNo, tx \in Owing,
         NEW n \in 1..RspBlocks, SendNew(cCall, n),
         n = (IF waiting THEN 1 ELSE cSent + 1), waiting \/ seqNumCard = cNS,
         Owes, call = "APDU" => Executed,
         waiting' \in BOOLEAN, ~waiting', UNCHANGED <<cExp, cGot, cCall, ghost>>
  PROVE  LinkInv'
<1> USE DEF Inv, LinkInv
<1>1. /\ pc = "read" /\ call \in {"APDU"} \cup ControlCalls
      /\ tx \notin {"I"} \cup Resetting \cup Requests
  BY WireShape, OwingStates
<1>2. /\ line' = RspBlock(cNS, cCall, n) /\ cNS' = 1 - cNS /\ cSent' = n
      /\ UNCHANGED <<execs, resets, intact, dirty, misled, adrift>>
  BY DEF SendNew, ghost
<1>3. cCall \in 1..MaxCalls /\ cNS \in {0, 1}
  BY DEF Owes, CardOK
<1>4. line' \in CardBlocks /\ line'.type = "I" /\ line' # ToCard
  BY <1>2, <1>3, RspBlockIsCardBlock, LineShape
<1>5. seqNumCard \in {0, 1}
  BY DEF TypeOK, ValuesOK
<1>6. Owes'
  BY <1>2, RestUnchanged DEF Owes
<1>7. ~adrift /\ call = "APDU" /\ ~dirty => seqNumCard # cNS' /\ Holds(n - 1)'
  BY <1>2, <1>3, <1>5, RestUnchanged DEF Executed, Answering, Holds, CardOK
<1>8. call = "APDU" => Executed'
  BY <1>2, <1>6, <1>7, RestUnchanged DEF Executed, Answering
<1>9. CardOK'
  BY <1>2, <1>3, RestUnchanged, T1LinkAssumption DEF CardOK, Owes
<1>10. ApduOK' /\ ControlOK'
  BY <1>1, <1>2, <1>4, <1>6, <1>8, RestUnchanged DEF ApduOK, ControlOK, Exchanging, Unread
<1>11. ~dirty /\ ~adrift /\ IsApdu => seqNumCard # cNS'
  BY <1>2, <1>3, <1>5 DEF Executed, Answering, IsApdu
<1>12. IAnswer'
  BY <1>2, <1>3, <1>6, <1>8, <1>11, RestUnchanged DEF IAnswer, IsApdu
<1>13. ExecutedOnce' /\ CommandIntact'
  BY <1>2 DEF ExecutedOnce, CommandIntact
<1> QED
  BY <1>4, <1>9, <1>10, <1>12, <1>13, CardStepKeeps

\* An answer that changes nothing at the card.
LEMMA AnswerKeeps ==
  ASSUME Inv, line = ToCard, UNCHANGED vars, UNCHANGED <<card, ghost, callNo>>,
         line' \in CardBlocks,
         line'.type = "I" => IAnswer', line'.type = "R" => RAnswer', line'.type = "S" => SAnswer'
  PROVE  LinkInv'
<1> USE DEF Inv, LinkInv
<1>1. line' # ToCard /\ pc = "read"
  BY LineShape, WireShape
<1>2. UNCHANGED <<cExp, cNS, cGot, cSent, cCall, waiting, execs, resets, intact, dirty, misled, adrift>>
  BY DEF card, ghost
<1>3. UNCHANGED ends /\ Start' = Start
  BY RestUnchanged DEF ends, Start
<1>4. CardOK' /\ ExecutedOnce' /\ CommandIntact'
  BY <1>2, RestUnchanged DEF CardOK, ExecutedOnce, CommandIntact
<1>5. ApduOK'
  BY <1>1, <1>2, <1>3, SameEnds, RestUnchanged DEF ApduOK, Exchanging, Unread
<1>6. ControlOK'
  BY <1>1, <1>3, SameEnds, RestUnchanged DEF ControlOK, Exchanging
<1> QED
  BY <1>4, <1>5, <1>6, CardStepKeeps

LEMMA ContinuesKeeps ==
  ASSUME Inv, line = ToCard, UNCHANGED vars, UNCHANGED callNo, Continues
  PROVE  LinkInv'
<1> USE DEF Inv, LinkInv
<1>1. /\ tx \in RBlocks /\ ~waiting /\ cSent \in 1..(RspBlocks - 1) /\ seqNumCard = cNS
      /\ SendNew(cCall, cSent + 1) /\ UNCHANGED <<cExp, cGot, cCall, waiting, ghost>>
  BY WireShape DEF Continues
<1>2. tx \in Owing
  BY <1>1 DEF Owing
<1>3. ~Open /\ ~Taken
  BY <1>1, T1LinkAssumption DEF Open, Taken, InTouch
<1>4. Owes /\ (call = "APDU" => Executed)
  BY <1>2, <1>3, OwingStates DEF Executed
<1>5. cSent + 1 \in 1..RspBlocks /\ waiting' \in BOOLEAN /\ ~waiting'
  BY <1>1, T1LinkAssumption DEF CardOK
<1> QED
  BY <1>1, <1>2, <1>4, <1>5, SendNewKeeps

LEMMA HasWaitedKeeps ==
  ASSUME Inv, line = ToCard, UNCHANGED vars, UNCHANGED callNo, HasWaited
  PROVE  LinkInv'
<1> USE DEF Inv, LinkInv
<1>1. tx = "WTX_RSP" /\ waiting /\ UNCHANGED <<cExp, cGot, cCall, ghost>> /\ tx \in Owing
  BY WireShape DEF HasWaited, Owing
<1>2. pc = "read" /\ call \in {"APDU"} \cup ControlCalls
  BY WireShape
<1>3. Owes /\ (call = "APDU" => Executed)
  BY <1>1, <1>2, OwingStates DEF ApduOK, Exchanging, Executed
<1>4. CASE AskToWait
  <2>2. waiting' = waiting
    BY <1>1, <1>4 DEF AskToWait, CardOK
  <2>3. line' = S("WTX_REQ") /\ line' \in CardBlocks /\ line' # ToCard
    BY <1>4, CardGivesAnswer, LineShape DEF AskToWait
  <2>4. /\ UNCHANGED <<cExp, cNS, cGot, cSent, cCall, waiting>>
        /\ UNCHANGED <<execs, resets, intact, dirty, misled, adrift, callNo>>
    BY <1>1, <1>4, <2>2 DEF AskToWait, ghost
  <2>5. CardOK' /\ ExecutedOnce' /\ CommandIntact'
    BY <2>4, RestUnchanged DEF CardOK, ExecutedOnce, CommandIntact
  <2>6. Owes' /\ (Executed' <=> Executed)
    BY <1>3, <2>4, RestUnchanged DEF Owes, Executed, Answering, Holds
  <2>7. ApduOK' /\ ControlOK'
    BY <1>1, <1>2, <1>3, <2>3, <2>4, <2>6, RestUnchanged, OwingStates
      DEF ApduOK, ControlOK, Exchanging, Unread
  <2>8. SAnswer' /\ line'.type = "S"
    BY <1>1, <2>2, <2>3 DEF SAnswer, S
  <2> QED
    BY <2>3, <2>5, <2>7, <2>8, CardStepKeeps
<1>5. CASE SendNew(cCall, 1) /\ waiting' = FALSE
  <2>1. 1 \in 1..RspBlocks
    BY T1LinkAssumption
  <2>2. waiting' \in BOOLEAN /\ ~waiting'
    BY <1>5
  <2> QED
    BY <1>1, <1>3, <1>5, <2>1, <2>2, SendNewKeeps
<1> QED
  BY <1>4, <1>5 DEF HasWaited

LEMMA RepeatsKeeps ==
  ASSUME Inv, line = ToCard, UNCHANGED vars, UNCHANGED callNo, Repeats
  PROVE  LinkInv'
<1> USE DEF Inv, LinkInv
<1>1. /\ tx \in RBlocks /\ Wire.seq = seqNumCard /\ UNCHANGED <<card, ghost>> /\ tx \in Owing
  BY WireShape DEF Repeats, Owing
<1>2. UNCHANGED <<cExp, cNS, cGot, cSent, cCall, waiting, dirty, adrift>>
  BY <1>1 DEF card, ghost
<1>3. CASE waiting
  <2>1. line' = S("WTX_REQ") /\ line' \in CardBlocks /\ line'.type = "S"
    BY <1>3, CardGivesAnswer DEF Repeats, S
  <2>2. SAnswer'
    BY <1>2, <1>3, <2>1 DEF SAnswer, S
  <2> QED
    BY <1>1, <2>1, <2>2, AnswerKeeps
<1>4. CASE ~waiting /\ cSent > 0 /\ seqNumCard # cNS
  <2>1. line' = RspBlock(1 - cNS, cCall, cSent)
    BY <1>1, <1>4 DEF Repeats
  <2>2. 1 - cNS \in {0, 1} /\ cCall \in 1..MaxCalls /\ cSent \in 1..RspBlocks
    BY <1>4, T1LinkAssumption DEF CardOK
  <2>3. line' \in CardBlocks /\ line'.type = "I"
    BY <2>1, <2>2, RspBlockIsCardBlock
  <2>4. Owes /\ (call = "APDU" => Executed)
    BY <1>1, <1>4, OwingStates DEF Open, Taken, InTouch, Executed
  <2>5. UNCHANGED ends
    BY <1>1, RestUnchanged DEF ends
  <2>6. IAnswer'
    BY <1>1, <1>2, <1>4, <2>1, <2>4, <2>5, SameEnds, RestUnchanged DEF IAnswer, IsApdu
  <2> QED
    BY <1>1, <2>3, <2>6, AnswerKeeps
<1>5. CASE ~waiting /\ ~(cSent > 0 /\ seqNumCard # cNS)
  <2>1. line' = IF cGot > 0 THEN R("ack") ELSE R("parity")
    BY <1>1, <1>5 DEF Repeats
  <2>2. line' \in CardBlocks /\ line'.type = "R" /\ line'.seq = cExp' /\ line'.err \in {"ack", "parity"}
    BY <1>2, <2>1, CardGivesAnswer DEF R, CardOK
  <2>3. line'.err = "ack" => IsApdu /\ cGot > 0 /\ (Open \/ Taken)
    BY <1>1, <2>1, OwingStates DEF R, Owes, Executed, IsApdu, CardOK
  <2>4. UNCHANGED ends /\ Start' = Start
    BY <1>1, RestUnchanged DEF ends, Start
  <2>5. RAnswer'
    BY <1>1, <1>2, <2>2, <2>3, <2>4, SameEnds, RestUnchanged DEF RAnswer, IsApdu, RBlocks, SBlocks
  <2> QED
    BY <1>1, <2>2, <2>5, AnswerKeeps
<1> QED
  BY <1>3, <1>4, <1>5

LEMMA ResetsKeeps ==
  ASSUME Inv, line = ToCard, UNCHANGED vars, UNCHANGED callNo, Resets
  PROVE  LinkInv'
<1> USE DEF Inv, LinkInv
<1>1. /\ pc = "read" /\ tx \in Resetting /\ tx = Wire.kind
      /\ call \in {"APDU"} \cup ControlCalls
  BY WireShape DEF Resets, IsReset, Resetting
<1>2. /\ cExp' = 0 /\ cNS' = 0 /\ cGot' = 0 /\ cSent' = 0 /\ waiting' = FALSE /\ resets' = 1
      /\ UNCHANGED <<cCall, execs, intact, dirty, misled, adrift>>
  BY DEF Resets
<1>3. Fresh' /\ waiting' \in BOOLEAN /\ ~waiting'
  BY <1>2 DEF Fresh
<1>4. IF tx = "CIP_REQ" THEN line' \in Atr("CIP_RSP") ELSE line' = S("RESYNC_RSP")
  BY <1>1 DEF Resets
<1>5. line' \in CardBlocks /\ line'.type = "S" /\ line' # ToCard
  BY <1>4, CardGivesAnswer, LineShape DEF Atr, S
<1>6. MaxLen \in Nat /\ RspBlocks \in Nat
  BY T1Assumption, T1LinkAssumption
<1>7. CardOK'
  BY <1>2, <1>3, <1>6, RestUnchanged DEF CardOK
<1>8. ApduOK' /\ ControlOK'
  BY <1>1, <1>2, <1>3, <1>5, RestUnchanged
    DEF ApduOK, ControlOK, Exchanging, Unread, Resetting, Requests, Owing, RBlocks
<1>9. SAnswer'
  BY <1>1, <1>2, <1>3, <1>4, RestUnchanged DEF SAnswer, Atr, S, Resetting
<1>10. ExecutedOnce' /\ CommandIntact'
  BY <1>2 DEF ExecutedOnce, CommandIntact
<1> QED
  BY <1>5, <1>7, <1>8, <1>9, <1>10, CardStepKeeps

LEMMA AnswersRequestKeeps ==
  ASSUME Inv, line = ToCard, UNCHANGED vars, UNCHANGED callNo, AnswersRequest
  PROVE  LinkInv'
<1> USE DEF Inv, LinkInv
<1>1. /\ UNCHANGED <<card, ghost>>
      /\ \/ tx = "END_REQ" /\ line' = S("END_RSP")
         \/ tx = "ATR_REQ" /\ line' \in Atr("ATR_RSP")
  BY WireShape DEF AnswersRequest, LineOK, Unread
<1>2. line' \in CardBlocks /\ line'.type = "S" /\ SAnswer'
  BY <1>1, CardGivesAnswer, RestUnchanged DEF SAnswer, S, Atr
<1> QED
  BY <1>1, <1>2, AnswerKeeps

LEMMA CardKeeps ==
  ASSUME Inv, CardStep \/ LoseToCard \/ GarbleToCard
  PROVE  LinkInv'
<1> USE DEF Inv, LinkInv
<1>1. line = ToCard /\ UNCHANGED vars /\ UNCHANGED callNo
  BY DEF CardStep, LoseToCard, GarbleToCard, Fault
<1>2. CASE CardStep
  BY <1>1, <1>2, TakesPieceKeeps, ExecutesKeeps, TakesOutOfSequenceKeeps, ContinuesKeeps,
    RepeatsKeeps, ResetsKeeps, HasWaitedKeeps, AnswersRequestKeeps DEF CardStep
<1>3. CASE GarbleToCard
  <2>1. UNCHANGED <<card, ghost>> /\ (line' = R("parity") \/ (waiting /\ line' = S("WTX_REQ")))
    BY <1>3 DEF GarbleToCard
  <2>2. CASE line' = R("parity")
    <3>1. line' \in CardBlocks /\ line'.type = "R" /\ RAnswer'
      BY <1>1, <2>1, <2>2, CardGivesAnswer, RestUnchanged DEF RAnswer, R, CardOK, LineOK, Unread, card
    <3> QED
      BY <1>1, <2>1, <3>1, AnswerKeeps
  <2>3. CASE waiting /\ line' = S("WTX_REQ")
    <3>1. line' \in CardBlocks /\ line'.type = "S" /\ SAnswer'
      BY <2>1, <2>3, CardGivesAnswer DEF SAnswer, S, card
    <3> QED
      BY <1>1, <2>1, <3>1, AnswerKeeps
  <2> QED
    BY <2>1, <2>2, <2>3
<1>4. CASE LoseToCard
  <2>1. UNCHANGED ends /\ Start' = Start /\ line' = Silence
    BY <1>1, <1>4, RestUnchanged DEF LoseToCard, ends, Start
  <2>2. /\ UNCHANGED <<cExp, cNS, cGot, cSent, cCall, waiting>>
        /\ UNCHANGED <<execs, resets, intact, dirty, misled, adrift>>
    BY <1>4 DEF LoseToCard, card, ghost
  <2>3. pc = "read" /\ rsp = NoRsp
    BY <1>1, WireShape DEF CardOK, ControlCalls, FirstBlock
  <2>4. CardOK' /\ ExecutedOnce' /\ CommandIntact'
    BY <1>1, <2>2, RestUnchanged DEF CardOK, ExecutedOnce, CommandIntact
  <2>5. ApduOK'
    BY <1>1, <2>1, <2>2, SameEnds, RestUnchanged, LineShape DEF ApduOK, Exchanging, Unread
  <2>6. ControlOK'
    BY <1>1, <2>1, SameEnds, RestUnchanged DEF ControlOK, Exchanging
  <2>7. LineOK' /\ DoneOK' /\ IdleOK' /\ OwnResponseIfClean'
    BY <1>1, <2>1, <2>3, LineShape, RestUnchanged
      DEF LineOK, HasAnswer, Unread, DoneOK, IdleOK, OwnResponseIfClean, NoRsp
  <2> QED
    BY <2>4, <2>5, <2>6, <2>7
<1> QED
  BY <1>2, <1>3, <1>4

-----------------------------------------------------------------------------
(***************************************************************************)
(* The device.                                                             *)
(***************************************************************************)
LEMMA DeviceKeeps ==
  ASSUME Inv, pc = "read", pc' \in {"send", "done"}, line' = Silence,
         UNCHANGED <<call, rsp, callNo, card, execs, resets, intact, dirty, misled>>,
         waiting => seqNumDevice' # cExp,
         pc' = "send" => ApduOK' /\ ControlOK' /\ (tx' = "WTX_RSP" => waiting),
         pc' = "done" => DoneOK'
  PROVE  LinkInv'
<1> USE DEF Inv, LinkInv
<1>1. UNCHANGED <<cExp, cNS, cGot, cSent, cCall, waiting>>
  BY DEF card
<1>2. CardOK'
  BY <1>1 DEF CardOK
<1>3. ApduOK' /\ ControlOK' /\ DoneOK' /\ IdleOK'
  BY DEF ApduOK, ControlOK, DoneOK, IdleOK, Exchanging
<1>4. LineOK'
  BY <1>1, LineShape DEF LineOK, HasAnswer, Unread
<1>5. ExecutedOnce' /\ CommandIntact'
  BY DEF ExecutedOnce, CommandIntact
<1>6. OwnResponseIfClean'
  BY DEF OwnResponseIfClean, CardOK, NoRsp, TypeOK, ValuesOK
<1> QED
  BY <1>2, <1>3, <1>4, <1>5, <1>6

LEMMA ReadingCall ==
  ASSUME Inv, pc = "read"
  PROVE  /\ call = "APDU" \/ (call \in ControlCalls /\ call # "APDU")
         /\ seqNumDevice \in {0, 1} /\ seqNumCard \in {0, 1}
         /\ cExp \in {0, 1} /\ cNS \in {0, 1}
         /\ recoveryCnt \in Nat /\ MaxRecoveryCnt \in Nat
         /\ tx \in TxBlocks
BY T1Assumption DEF Inv, LinkInv, TypeOK, ValuesOK, CardOK, ControlCalls, FirstBlock

LEMMA ReadFailsKeeps ==
  ASSUME Inv, ReadFails, line' = Silence, UNCHANGED <<callNo, card, ghost>>
  PROVE  LinkInv'
<1> USE DEF Inv, LinkInv
<1>1. /\ pc = "read" /\ pc' \in {"send", "done"}
      /\ UNCHANGED <<call, rsp, txDataOffset, part, isDeviceChaining, isCardChaining>>
      /\ pc' = "done" => status' = "FAILED"
  BY DEF ReadFails, RecoverUndecoded, Goto, Finish, session, command, received
<1>2. UNCHANGED ends /\ Start' = Start
  BY <1>1 DEF ReadFails, ends, seqs, received, Start
<1>3. UNCHANGED <<cExp, cNS, cGot, cSent, cCall, waiting, seqNumDevice, seqNumCard, rxList>>
      /\ UNCHANGED <<execs, resets, intact, dirty, misled, adrift>>
  BY <1>2 DEF ends, card, ghost
<1>4. pc' = "send" =>
        \/ recoveryCnt < MaxRecoveryCnt
             /\ tx' = (IF tx \in SBlocks \ {"WTX_RSP"} THEN tx ELSE "R_PARITY")
        \/ recoveryCnt >= MaxRecoveryCnt /\ recoveryCnt' = recoveryCnt /\ tx' \in Resetting
  BY <1>1, ReadingCall DEF ReadFails, RecoverUndecoded, Goto, Finish, AwaitsSResponse, Resetting
<1>5. waiting /\ call = "APDU" => Executed
  BY <1>1 DEF ApduOK, Exchanging, Open, Taken, InTouch
<1>6. ASSUME pc' = "send", call = "APDU" PROVE ApduOK'
  <2>1. CASE recoveryCnt < MaxRecoveryCnt
    <3>1. tx' = "R_PARITY" /\ tx \notin Resetting
      BY <1>1, <1>4, <1>6, <2>1, ReadingCall
        DEF ApduOK, Exchanging, SBlocks, Owing, RBlocks, Resetting
    <3>2. Open' \/ Taken' \/ Executed'
      BY <1>1, <1>2, <1>6, <3>1, SameEnds DEF ApduOK, Exchanging
    <3> QED
      BY <1>1, <1>3, <1>6, <3>1, <3>2 DEF ApduOK, Exchanging, Owing, RBlocks, Resetting
  <2>2. CASE recoveryCnt >= MaxRecoveryCnt
    BY <1>1, <1>2, <1>3, <1>4, <1>5, <1>6, <2>2, ReadingCall, SameEnds
      DEF ApduOK, Exchanging, Resetting
  <2> QED
    BY <1>1, <2>1, <2>2, ReadingCall
<1>7. ASSUME pc' = "send", call # "APDU" PROVE ControlOK'
  <2>1. tx' \in Owing \cup Resetting \cup Requests
    BY <1>1, <1>4, <1>7, ReadingCall DEF ControlOK, Exchanging, Owing, RBlocks, Resetting
  <2>2. tx' \in Requests => tx' = tx
    BY <1>4, <1>7, ReadingCall DEF Requests, Resetting
  <2>3. tx' \in Owing => tx' = "R_PARITY" /\ tx \in Owing
    BY <1>1, <1>4, <1>7, ReadingCall
      DEF ControlOK, Exchanging, Owing, RBlocks, Resetting, Requests, SBlocks
  <2> QED
    BY <1>1, <1>2, <1>7, <2>1, <2>2, <2>3, SameEnds, ReadingCall DEF ControlOK, Exchanging
<1>8. tx' # "WTX_RSP" \/ pc' # "send"
  BY <1>4 DEF Resetting
<1>9. pc' = "send" => ApduOK' /\ ControlOK' /\ (tx' = "WTX_RSP" => waiting)
  <2>1. call # "APDU" => ApduOK'
    BY <1>1 DEF ApduOK
  <2>2. call = "APDU" => ControlOK'
    BY <1>1 DEF ControlOK, ControlCalls, FirstBlock
  <2> QED
    BY <1>6, <1>7, <1>8, <2>1, <2>2
<1>10. pc' = "done" => DoneOK'
  BY <1>1 DEF DoneOK
<1>11. waiting => seqNumDevice' # cExp
  BY <1>3 DEF CardOK
<1> QED
  BY <1>1, <1>3, <1>9, <1>10, <1>11, DeviceKeeps

\* An I-block of the card is block cSent of the response.
LEMMA IBlockRead ==
  ASSUME Inv, HasAnswer, line.type = "I"
  PROVE  /\ line.seq = 1 - cNS /\ line.more = (cSent < RspBlocks)
         /\ line.inf = [call |-> cCall, n |-> cSent]
         /\ cSent \in 1..RspBlocks /\ ~waiting /\ Owes /\ tx \in {"I"} \cup Owing
         /\ call = "APDU" => /\ Executed
                             /\ ~dirty /\ ~adrift => seqNumCard # cNS /\ Holds(cSent - 1)
<1>1. IAnswer
  BY DEF Inv, LinkInv, LineOK
<1>2. /\ line.seq = 1 - cNS /\ line.more = (cSent < RspBlocks)
      /\ line.inf = [call |-> cCall, n |-> cSent]
  BY <1>1 DEF IAnswer, RspBlock
<1> QED
  BY <1>1, <1>2 DEF IAnswer, IsApdu, Inv, LinkInv, CardOK, Executed, Answering

LEMMA IBlockInf ==
  ASSUME Inv, HasAnswer, line.type = "I"
  PROVE  line.inf \in Inf
BY AnswerIsCardBlock DEF Inv, LinkInv, CardBlocks

\* The list with the next block of the response at its end.
LEMMA AppendedBlock ==
  ASSUME NEW list \in Seq(Inf), NEW c, NEW n \in Nat, n > 0, Len(list) = n - 1,
         \A i \in 1..(n - 1) : list[i] = [call |-> c, n |-> i],
         [call |-> c, n |-> n] \in Inf
  PROVE  LET longer == Append(list, [call |-> c, n |-> n])
         IN  Len(longer) = n /\ \A i \in 1..n : longer[i] = [call |-> c, n |-> i]
<1> DEFINE block == [call |-> c, n |-> n]
           longer == Append(list, block)
<1>1. /\ Len(longer) = Len(list) + 1 /\ longer[Len(list) + 1] = block
      /\ \A i \in 1..Len(list) : longer[i] = list[i]
  BY AppendProperties
<1> HIDE DEF longer
<1>2. Len(longer) = n /\ longer[n] = block
  BY <1>1
<1>3. ASSUME NEW i \in 1..n PROVE longer[i] = [call |-> c, n |-> i]
  <2>1. CASE i = n
    BY <1>2, <2>1
  <2>2. CASE i # n
    <3>1. i \in 1..(n - 1)
      BY <2>2
    <3> QED
      BY <1>1, <3>1
  <2> QED
    BY <2>1, <2>2
<1>4. Len(longer) = n /\ \A i \in 1..n : longer[i] = [call |-> c, n |-> i]
  BY <1>2, <1>3
<1> QED
  BY <1>4 DEF longer

LEMMA ChainedIKeeps ==
  ASSUME Inv, NEW stored \in BOOLEAN, HasAnswer, line.type = "I", pc = "read",
         RecvChainedI(line, stored), UNCHANGED <<call, txDataOffset, isDeviceChaining>>,
         UNCHANGED <<callNo, rsp, card, ghost>>, line' = Silence
  PROVE  LinkInv'
<1> USE DEF Inv, LinkInv
<1>1. UNCHANGED <<cExp, cNS, cGot, cSent, cCall, waiting, seqNumDevice>>
      /\ UNCHANGED <<execs, resets, intact, dirty, misled, adrift>>
  BY DEF card, ghost, RecvChainedI
<1>2. CASE ~stored
  <2>1. pc' = "done" /\ status' = "FAILED"
    BY <1>2 DEF RecvChainedI, Finish
  <2> QED
    BY <1>1, <2>1, FailureKeeps
<1>3. CASE stored
  <2>1. pc' = "send" /\ tx' = "R_ACK" /\ isCardChaining' /\ rxList' = Append(rxList, line.inf)
        /\ isCardChaining' \in BOOLEAN
    BY <1>3 DEF RecvChainedI, Goto, Store
  <2>2. seqNumCard' = cNS
    BY IBlockRead, ReadingCall DEF RecvChainedI, ExpectedSeq
  <2>3. cSent < RspBlocks
    BY IBlockRead DEF RecvChainedI
  <2>4. Holds(cSent - 1) /\ cCall = callNo => Holds(cSent)'
    <3>1. SUFFICES ASSUME Holds(cSent - 1), cCall = callNo PROVE Holds(cSent)'
      OBVIOUS
    <3>2. rxList \in Seq(Inf) /\ cSent \in Nat /\ cSent > 0 /\ line.inf = [call |-> callNo, n |-> cSent]
      BY <3>1, IBlockRead DEF TypeOK, ValuesOK, CardOK
    <3>3. line.inf \in Inf
      BY IBlockInf
    <3>4. Len(rxList') = cSent /\ \A i \in 1..cSent : rxList'[i] = [call |-> callNo, n |-> i]
      BY <2>1, <3>1, <3>2, <3>3, AppendedBlock DEF Holds
    <3> QED
      BY <1>1, <3>4 DEF Holds
  <2>5. Owes'
    BY <1>1, IBlockRead DEF Owes
  <2>6. call = "APDU" => Executed'
    BY <1>1, <2>2, <2>3, <2>4, <2>5, IBlockRead DEF Executed, Answering
  <2>7. ApduOK' /\ ControlOK'
    BY <1>1, <2>1, <2>5, <2>6 DEF ApduOK, ControlOK, Owing, RBlocks, Resetting, Requests
  <2> QED
    BY <1>1, <2>1, <2>7, IBlockRead, DeviceKeeps
<1> QED
  BY <1>2, <1>3

LEMMA LastIKeeps ==
  ASSUME Inv, NEW stored \in BOOLEAN, HasAnswer, line.type = "I", pc = "read",
         RecvLastI(line, stored), UNCHANGED <<call>>,
         UNCHANGED <<callNo, rsp, card, ghost>>, line' = Silence
  PROVE  LinkInv'
<1> USE DEF Inv, LinkInv
<1>1. UNCHANGED <<cExp, cNS, cGot, cSent, cCall, waiting>>
      /\ UNCHANGED <<execs, resets, intact, dirty, misled, adrift>>
  BY DEF card, ghost
<1>2. CASE ~stored
  <2>1. pc' = "done" /\ status' = "FAILED"
    BY <1>2 DEF RecvLastI, Finish
  <2> QED
    BY <1>1, <2>1, IBlockRead, FailureKeeps
<1>3. CASE stored
  <2>1. pc' = "done" /\ rxList' = Append(rxList, line.inf)
    BY <1>3 DEF RecvLastI, Finish, Store
  <2>2. seqNumCard' = cNS /\ seqNumDevice' = cExp
    BY IBlockRead, ReadingCall DEF RecvLastI, ExpectedSeq, Owes
  <2>3. cSent = RspBlocks
    <3>1. ~(cSent < RspBlocks)
      BY IBlockRead DEF RecvLastI
    <3> QED
      BY <3>1, IBlockRead, T1LinkAssumption
  <2>4. Holds(cSent - 1) /\ cCall = callNo => Holds(RspBlocks)'
    <3>1. SUFFICES ASSUME Holds(cSent - 1), cCall = callNo PROVE Holds(RspBlocks)'
      OBVIOUS
    <3>2. rxList \in Seq(Inf) /\ cSent \in Nat /\ cSent > 0 /\ line.inf = [call |-> callNo, n |-> cSent]
      BY <3>1, IBlockRead DEF TypeOK, ValuesOK, CardOK
    <3>3. line.inf \in Inf
      BY IBlockInf
    <3>4. Len(rxList') = cSent /\ \A i \in 1..cSent : rxList'[i] = [call |-> callNo, n |-> i]
      BY <2>1, <3>1, <3>2, <3>3, AppendedBlock DEF Holds
    <3> QED
      BY <1>1, <2>3, <3>4 DEF Holds
  <2>5. InTouch' /\ cGot' = 0
    BY <1>1, <2>2, <2>3, IBlockRead DEF InTouch, Owes
  <2>6. call = "APDU" /\ ~dirty /\ ~adrift => Holds(RspBlocks)'
    BY <2>4, IBlockRead DEF Executed
  <2>7. DoneOK'
    BY <1>1, <2>5, <2>6 DEF DoneOK, Ready
  <2> QED
    BY <1>1, <2>1, <2>7, IBlockRead, DeviceKeeps
<1> QED
  BY <1>2, <1>3

LEMMA WrongIKeeps ==
  ASSUME Inv, HasAnswer, line.type = "I", pc = "read",
         RecvWrongI(line), UNCHANGED <<call, txDataOffset, isDeviceChaining>>,
         UNCHANGED <<callNo, rsp, card, ghost>>, line' = Silence
  PROVE  LinkInv'
<1> USE DEF Inv, LinkInv
<1>1. UNCHANGED <<cExp, cNS, cGot, cSent, cCall, waiting, execs, resets, intact, dirty, misled, adrift>>
  BY DEF card, ghost
<1>2. /\ UNCHANGED ends /\ Start' = Start /\ UNCHANGED <<rxList, isCardChaining>>
      /\ pc' = "send"
      /\ \/ tx' = "R_OTHER"
         \/ tx' = "RESYNC_REQ" /\ recoveryCnt' >= MaxRecoveryCnt
  BY ReadingCall DEF RecvWrongI, Goto, ends, received, Start
<1>3. Owes' /\ (call = "APDU" => Executed')
  BY <1>2, IBlockRead, SameEnds
<1>4. ApduOK'
  BY <1>1, <1>2, <1>3, IBlockRead DEF ApduOK, Exchanging, Owing, RBlocks, Resetting
<1>5. ControlOK'
  BY <1>2, <1>3 DEF ControlOK, Owing, RBlocks, Resetting, Requests
<1> QED
  BY <1>1, <1>2, <1>4, <1>5, IBlockRead, DeviceKeeps

LEMMA RecvIKeeps ==
  ASSUME Inv, NEW stored \in BOOLEAN, HasAnswer, RecvI(line, stored),
         UNCHANGED <<callNo, card, ghost>>, line' = Silence
  PROVE  LinkInv'
<1>1. /\ pc = "read" /\ line.type = "I"
      /\ UNCHANGED <<call, txDataOffset, isDeviceChaining, rsp>>
  BY DEF RecvI, session
<1> QED
  BY <1>1, ChainedIKeeps, LastIKeeps, WrongIKeeps DEF RecvI

\* What an R-block tells, and what it leaves alone.
LEMMA RBlockRead ==
  ASSUME Inv, HasAnswer, RecvR(line), UNCHANGED <<callNo, card, ghost>>
  PROVE  /\ pc = "read" /\ RAnswer
         /\ UNCHANGED <<call, rsp, txDataOffset, isDeviceChaining, isCardChaining, rxList>>
         /\ UNCHANGED <<cExp, cNS, cGot, cSent, cCall, waiting>>
         /\ UNCHANGED <<execs, resets, intact, dirty, misled, adrift>>
         /\ call = "APDU" =>
              /\ tx \in {"I"} \cup Owing \cup Resetting
              /\ waiting => Executed
              /\ ~dirty /\ ~isCardChaining => rxList = <<>>
BY DEF Inv, LinkInv, LineOK, RecvR, session, received, card, ghost, ApduOK, Exchanging,
       Open, Taken, InTouch

LEMMA AckOfPartKeeps ==
  ASSUME Inv, HasAnswer, RecvR(line), RecvAckOfPart(line),
         UNCHANGED <<callNo, card, ghost>>, line' = Silence
  PROVE  LinkInv'
<1> USE DEF Inv, LinkInv
<1>1. /\ call = "APDU" /\ cExp # seqNumDevice /\ line.err = "ack"
      /\ seqNumDevice' = cExp /\ part' = NoPart /\ pc' = "send" /\ tx' = "I"
      /\ UNCHANGED seqNumCard
  BY RBlockRead DEF RecvAckOfPart, IsApdu, RAnswer, FreeTxPartMem, Goto
<1>2. Taken
  BY <1>1, RBlockRead DEF RAnswer, Open, InTouch, Fresh
<1>3. Open'
  BY <1>1, <1>2, RBlockRead DEF Taken, Open, InTouch, NotYet, Start, NoPart
<1>4. ApduOK' /\ ControlOK'
  BY <1>1, <1>3, RBlockRead
    DEF ApduOK, ControlOK, ControlCalls, FirstBlock, Resetting
<1>5. ~waiting
  BY <1>2 DEF Taken
<1> QED
  BY <1>1, <1>4, <1>5, RBlockRead, DeviceKeeps

\* With the ends and the piece as they were, a request for a block again, or
\* to reset, leaves a command where it was.
LEMMA SameCommand ==
  ASSUME Inv, HasAnswer, RecvR(line), UNCHANGED <<callNo, card, ghost>>,
         call = "APDU", UNCHANGED seqs, pc' = "send",
         \/ /\ UNCHANGED part /\ tx \notin Resetting
            /\ tx' \in RBlocks \/ (tx' = "I" /\ Open)
         \/ tx' \in Resetting /\ recoveryCnt' >= MaxRecoveryCnt
  PROVE  ApduOK' /\ ControlOK'
<1> USE DEF Inv, LinkInv
<1>1. UNCHANGED ends
  BY RBlockRead DEF ends, seqs
<1>2. ControlOK'
  BY RBlockRead DEF ControlOK, ControlCalls, FirstBlock
<1>3. CASE tx' \in Resetting /\ recoveryCnt' >= MaxRecoveryCnt
  BY <1>1, <1>2, <1>3, RBlockRead, SameEnds DEF ApduOK, Resetting
<1>4. CASE UNCHANGED part /\ tx \notin Resetting /\ (tx' \in RBlocks \/ (tx' = "I" /\ Open))
  <2>1. Start' = Start
    BY <1>4, RBlockRead DEF Start
  <2>2. Open \/ Taken \/ Executed
    BY <1>4, RBlockRead DEF ApduOK, Exchanging
  <2>3. Open' \/ Taken' \/ Executed'
    BY <1>1, <2>1, <2>2, SameEnds, RBlockRead
  <2>4. tx' = "I" => Open'
    BY <1>1, <1>4, <2>1, SameEnds DEF RBlocks
  <2>5. tx' \in {"I"} \cup RBlocks
    BY <1>4
  <2> QED
    BY <1>2, <2>3, <2>4, <2>5, RBlockRead DEF ApduOK, RBlocks, Owing, Resetting
<1> QED
  BY <1>3, <1>4

LEMMA RetryRKeeps ==
  ASSUME Inv, HasAnswer, RecvR(line), RetryR(line),
         UNCHANGED <<callNo, card, ghost>>, line' = Silence
  PROVE  LinkInv'
<1> USE DEF Inv, LinkInv
<1>1. recoveryCnt < MaxRecoveryCnt
  BY DEF RetryR
<1>2. waiting => seqNumDevice # cExp
  BY DEF CardOK
<1>3. CASE call = "APDU" /\ tx \notin RBlocks
  <2>1. tx \in {"I", "WTX_RSP"} /\ tx \notin Resetting
    BY <1>1, <1>3, RBlockRead, ReadingCall DEF ApduOK, Exchanging, Owing, Resetting
  <2>2. UNCHANGED part /\ AnswerR(line)
    BY <1>3 DEF RetryR, IsApdu
  <2>3. Open \/ Taken \/ Executed
    BY <1>3, <2>1, RBlockRead DEF ApduOK, Exchanging
  <2>4. CASE line.err = "ack" \/ line.err = "parity"
    <3>1. UNCHANGED seqs /\ pc' = "send" /\ (tx' \in RBlocks \/ (tx' = "I" /\ seqNumDevice = cExp))
      BY <2>2, <2>4, RBlockRead DEF AnswerR, Goto, RBlocks, RAnswer
    <3>2. tx' = "I" => Open
      BY <2>3, <3>1 DEF Taken, Executed, Owes, RBlocks
    <3>3. ApduOK' /\ ControlOK'
      BY <1>3, <2>1, <2>2, <3>1, <3>2, SameCommand
    <3>4. tx' # "WTX_RSP" /\ UNCHANGED seqNumDevice
      BY <3>1 DEF RBlocks, seqs
    <3> QED
      BY <1>2, <3>1, <3>3, <3>4, RBlockRead, DeviceKeeps
  <2>5. CASE line.err = "other"
    <3>1. /\ Open /\ seqNumDevice # cExp
          /\ pc' = "send" /\ tx' = "I" /\ seqNumDevice' = cExp /\ UNCHANGED seqNumCard
      BY <2>2, <2>5, RBlockRead, ReadingCall DEF AnswerR, Goto, RAnswer
    <3>2. Open'
      BY <2>2, <3>1, RBlockRead DEF Open, InTouch, Fresh, NotYet, Start
    <3>3. ApduOK' /\ ControlOK'
      BY <1>3, <3>1, <3>2, RBlockRead DEF ApduOK, ControlOK, ControlCalls, FirstBlock, Resetting
    <3>4. ~waiting
      BY <3>1 DEF Open, InTouch
    <3> QED
      BY <3>1, <3>3, <3>4, RBlockRead, DeviceKeeps
  <2> QED
    BY <2>4, <2>5, RBlockRead DEF RAnswer
<1>4. CASE call = "APDU" /\ tx \in RBlocks
  <2>1. pc' = "send" /\ tx' = tx /\ UNCHANGED seqs /\ UNCHANGED part /\ tx \notin Resetting
        /\ tx' # "WTX_RSP"
    BY <1>4 DEF RetryR, IsApdu, Goto, RBlocks, Resetting
  <2>2. ApduOK' /\ ControlOK'
    BY <1>4, <2>1, SameCommand
  <2> QED
    BY <1>2, <2>1, <2>2, RBlockRead, DeviceKeeps DEF seqs
<1>5. CASE call # "APDU"
  <2>1. UNCHANGED seqs /\ line.err # "ack" /\ call \in ControlCalls
    BY <1>5, RBlockRead, ReadingCall DEF RetryR, IsApdu, RAnswer
  <2>2. CASE tx \in SBlocks
    <3>1. pc' = "send" /\ tx' = tx
      BY <1>5, <2>2 DEF RetryR, IsApdu, Goto
    <3>2. UNCHANGED ends
      BY <2>1, RBlockRead DEF ends, seqs
    <3>3. ApduOK' /\ ControlOK'
      BY <1>5, <2>1, <3>1, <3>2, SameEnds, RBlockRead DEF ApduOK, ControlOK, Exchanging
    <3> QED
      BY <1>2, <2>1, <3>1, <3>3, RBlockRead, DeviceKeeps DEF seqs, RAnswer
  <2>3. CASE tx \notin SBlocks
    <3>1. pc' = "done" /\ status' = "FAILED"
      BY <1>5, <2>1, <2>3 DEF RetryR, IsApdu, Finish
    <3> QED
      BY <2>1, <3>1, RBlockRead, FailureKeeps DEF seqs
  <2> QED
    BY <2>2, <2>3
<1> QED
  BY <1>3, <1>4, <1>5

LEMMA ExhaustedRKeeps ==
  ASSUME Inv, HasAnswer, RecvR(line), ExhaustedR(line),
         line.err = "ack" => IsApdu /\ line.seq = seqNumDevice,
         UNCHANGED <<callNo, card, ghost>>, line' = Silence
  PROVE  LinkInv'
<1> USE DEF Inv, LinkInv
<1>1. recoveryCnt >= MaxRecoveryCnt /\ recoveryCnt' = recoveryCnt /\ UNCHANGED seqs
  BY DEF ExhaustedR
<1>2. waiting => seqNumDevice' # cExp
  BY <1>1 DEF CardOK, seqs
<1>3. CASE call = "APDU" /\ pc' = "send" /\ tx' \in Resetting
  <2>1. ApduOK' /\ ControlOK'
    BY <1>1, <1>3, SameCommand
  <2> QED
    BY <1>2, <1>3, <2>1, RBlockRead, DeviceKeeps DEF Resetting
<1>4. CASE pc' = "done" /\ status' = (IF line.err = "ack" THEN "SUCCESS" ELSE "FAILED")
  <2>1. CASE line.err # "ack"
    BY <1>1, <1>4, <2>1, RBlockRead, FailureKeeps DEF seqs
  <2>2. CASE line.err = "ack"
    <3>1. call = "APDU" /\ Open
      BY <2>2, RBlockRead DEF RAnswer, Taken, IsApdu
    <3>2. UNCHANGED ends
      BY <1>1, RBlockRead DEF ends, seqs
    <3>3. InTouch' /\ (rxList # <<>> => dirty)
      BY <3>1, <3>2, SameEnds DEF Open
    <3>4. DoneOK'
      BY <3>1, <3>3, RBlockRead DEF DoneOK
    <3> QED
      BY <1>2, <1>4, <3>4, RBlockRead, DeviceKeeps
  <2> QED
    BY <2>1, <2>2
<1> QED
  BY <1>3, <1>4 DEF ExhaustedR, IsApdu, Goto, Finish, Resetting

LEMMA RecvRKeeps ==
  ASSUME Inv, HasAnswer, RecvR(line), UNCHANGED <<callNo, card, ghost>>, line' = Silence
  PROVE  LinkInv'
<1>1. CASE RecvUnexpectedAck(line)
  <2>1. pc' = "done" /\ status' = "FAILED" /\ UNCHANGED seqNumDevice
    BY <1>1, RBlockRead DEF RecvUnexpectedAck, Finish, seqs, RAnswer
  <2> QED
    BY <2>1, RBlockRead, FailureKeeps
<1>2. CASE /\ line.err = "ack" => IsApdu /\ isDeviceChaining /\ line.seq = seqNumDevice
           /\ RetryR(line) \/ ExhaustedR(line)
  BY <1>2, RetryRKeeps, ExhaustedRKeeps
<1> QED
  BY <1>1, <1>2, AckOfPartKeeps DEF RecvR

\* What an S-block tells, and what it leaves alone.
LEMMA SBlockRead ==
  ASSUME Inv, HasAnswer, RecvS(line), UNCHANGED <<callNo, card, execs, resets, intact, dirty, misled>>
  PROVE  /\ pc = "read" /\ SAnswer /\ line.type = "S"
         /\ UNCHANGED <<call, rsp>>
         /\ UNCHANGED <<cExp, cNS, cGot, cSent, cCall, waiting>>
         /\ call = "APDU" =>
              /\ tx \in {"I"} \cup Owing \cup Resetting
              /\ waiting => Executed
              /\ ~dirty /\ ~isCardChaining => rxList = <<>>
BY DEF Inv, LinkInv, LineOK, RecvS, session, card, ApduOK, Exchanging, Open, Taken, InTouch

\* What the device does with each answer, and whether it is adrift then.
LEMMA SBlockCases ==
  ASSUME SAnswer, RecvS(line), Drifts, line.type = "S"
  PROVE  /\ line.sub \in {"WTX_REQ", "RESYNC_RSP", "CIP_RSP", "END_RSP", "ATR_RSP"}
         /\ line.sub = "WTX_REQ" => RecvWtxReq /\ adrift' = adrift
         /\ line.sub = "RESYNC_RSP" => RecvResyncRsp /\ adrift' = (call # "APDU")
         /\ line.sub = "CIP_RSP" => RecvAtr(line) /\ adrift' = FALSE
         /\ line.sub = "END_RSP" => RecvOtherS /\ adrift' = adrift
         /\ line.sub = "ATR_RSP" => RecvAtr(line) /\ adrift' = adrift
<1>1. line.sub \in {"WTX_REQ", "RESYNC_RSP", "CIP_RSP", "END_RSP", "ATR_RSP"}
  BY DEF SAnswer
<1>2. /\ line.sub = "WTX_REQ" => RecvWtxReq
      /\ line.sub = "RESYNC_RSP" => RecvResyncRsp
      /\ line.sub \in {"CIP_RSP", "ATR_RSP"} => RecvAtr(line)
      /\ line.sub = "END_RSP" => RecvOtherS
  BY DEF RecvS
<1>3. /\ \A b \in Atr("CIP_RSP") : b.sub = "CIP_RSP"
      /\ S("RESYNC_RSP").sub = "RESYNC_RSP"
  BY DEF Atr, S
<1>4. line.sub \notin {"RESYNC_RSP", "CIP_RSP"} => adrift' = adrift
  BY <1>3 DEF Drifts
<1>5. line.sub = "RESYNC_RSP" => adrift' = (call # "APDU")
  <2>1. SUFFICES ASSUME line.sub = "RESYNC_RSP" PROVE adrift' = (call # "APDU")
    OBVIOUS
  <2>2. line = S("RESYNC_RSP")
    BY <2>1 DEF SAnswer
  <2> QED
    BY <2>2 DEF Drifts, IsApdu
<1>6. line.sub = "CIP_RSP" => adrift' = FALSE
  <2>1. SUFFICES ASSUME line.sub = "CIP_RSP" PROVE adrift' = FALSE
    OBVIOUS
  <2>2. line \in Atr("CIP_RSP") /\ line # S("RESYNC_RSP")
    BY <1>3, <2>1 DEF SAnswer
  <2> QED
    BY <2>2 DEF Drifts
<1> QED
  BY <1>1, <1>2, <1>4, <1>5, <1>6

LEMMA WtxReqKeeps ==
  ASSUME Inv, HasAnswer, RecvS(line), Drifts, line.sub = "WTX_REQ", line' = Silence,
         UNCHANGED <<callNo, card, execs, resets, intact, dirty, misled>>
  PROVE  LinkInv'
<1> USE DEF Inv, LinkInv
<1>1. RecvWtxReq /\ adrift' = adrift /\ waiting
  BY SBlockRead, SBlockCases DEF SAnswer
<1>2. UNCHANGED ends /\ UNCHANGED <<seqNumDevice, rxList, isCardChaining>> /\ UNCHANGED ghost
  BY <1>1 DEF RecvWtxReq, seqs, received, ends, ghost
<1>3. Owes
  BY <1>1 DEF Owes, CardOK
<1>4. CASE pc' = "send" /\ tx' = "WTX_RSP"
  <2>1. Owes' /\ (call = "APDU" => Executed')
    BY <1>1, <1>2, <1>3, SameEnds, SBlockRead
  <2>2. ApduOK' /\ ControlOK'
    BY <1>2, <1>4, <2>1, SBlockRead DEF ApduOK, ControlOK, Owing, RBlocks, Resetting, Requests
  <2> QED
    BY <1>1, <1>2, <1>3, <1>4, <2>2, SBlockRead, DeviceKeeps DEF Owes
<1>5. CASE pc' = "done" /\ status' = "FAILED"
  BY <1>2, <1>5, SBlockRead, FailureKeeps
<1> QED
  BY <1>1, <1>4, <1>5 DEF RecvWtxReq, Goto, Finish

\* A card that was just reset, and a device that follows it.
LEMMA ResetTogether ==
  ASSUME Inv, ResetForResyncRsp, Fresh, UNCHANGED <<card, resets, dirty, misled>>, resets = 1,
         call = "APDU" /\ ~dirty /\ ~isCardChaining => rxList = <<>>
  PROVE  /\ InTouch' /\ Ready' /\ cGot' = 0
         /\ call = "APDU" => Open' /\ (~dirty => rxList' = <<>>)
<1>1. UNCHANGED <<cExp, cNS, cGot, cSent, waiting>>
  BY DEF card
<1>2. /\ seqNumCard' = 0 /\ seqNumDevice' = 0 /\ txDataOffset' = 0 /\ part' = NoPart
      /\ rxList' = IF isCardChaining THEN <<>> ELSE rxList
  BY DEF ResetForResyncRsp
<1>3. InTouch' /\ cGot' = 0
  BY <1>1, <1>2 DEF InTouch, Fresh
<1>4. call = "APDU" /\ ~dirty => rxList' = <<>>
  BY <1>2
<1>5. Start' = 0
  BY <1>2 DEF Start, NoPart
<1> QED
  BY <1>1, <1>2, <1>3, <1>4, <1>5 DEF Ready, Open, NotYet, Fresh, Inv, LinkInv, CardOK

LEMMA ResyncRspKeeps ==
  ASSUME Inv, HasAnswer, RecvS(line), Drifts, line.sub = "RESYNC_RSP", line' = Silence,
         UNCHANGED <<callNo, card, execs, resets, intact, dirty, misled>>
  PROVE  LinkInv'
<1> USE DEF Inv, LinkInv
<1>1. RecvResyncRsp /\ adrift' = (call # "APDU") /\ Fresh /\ resets = 1
  BY SBlockRead, SBlockCases DEF SAnswer
<1>2. ~waiting
  BY <1>1 DEF Fresh
<1>3. CASE call = "APDU"
  <2>1. ResetForResyncRsp /\ pc' = "send" /\ tx' = "I"
    BY <1>1, <1>3 DEF RecvResyncRsp, IsApdu, Goto
  <2>2. Open' /\ (~dirty => rxList' = <<>>)
    BY <1>1, <1>3, <2>1, SBlockRead, ResetTogether
  <2>3. ApduOK' /\ ControlOK'
    BY <1>3, <2>1, <2>2, SBlockRead
      DEF ApduOK, ControlOK, ControlCalls, FirstBlock, Resetting
  <2> QED
    BY <1>2, <2>1, <2>3, SBlockRead, DeviceKeeps
<1>4. CASE call # "APDU"
  <2>1. pc' = "done" /\ UNCHANGED <<seqNumDevice, seqNumCard>>
    BY <1>1, <1>4 DEF RecvResyncRsp, IsApdu, Finish, seqs
  <2>2. adrift'
    BY <1>1, <1>4
  <2>3. Ready'
    BY <1>1, <2>2, SBlockRead DEF Ready, InTouch, Fresh
  <2>4. DoneOK'
    BY <1>4, <2>3, SBlockRead DEF DoneOK
  <2> QED
    BY <1>2, <2>1, <2>4, SBlockRead, DeviceKeeps
<1> QED
  BY <1>3, <1>4

LEMMA CipRspKeeps ==
  ASSUME Inv, HasAnswer, RecvS(line), Drifts, line.sub = "CIP_RSP", line' = Silence,
         UNCHANGED <<callNo, card, execs, resets, intact, dirty, misled>>
  PROVE  LinkInv'
<1> USE DEF Inv, LinkInv
<1>1. RecvAtr(line) /\ Fresh /\ resets = 1
  BY SBlockRead, SBlockCases DEF SAnswer
<1>2. pc' = "done" /\ ResetForResyncRsp
  BY <1>1 DEF RecvAtr, Finish
<1>3. InTouch' /\ Ready' /\ cGot' = 0 /\ (call = "APDU" => (~dirty => rxList' = <<>>))
  BY <1>1, <1>2, SBlockRead, ResetTogether
<1>4. DoneOK'
  BY <1>3, SBlockRead DEF DoneOK
<1>5. ~waiting
  BY <1>1 DEF Fresh
<1> QED
  BY <1>2, <1>4, <1>5, SBlockRead, DeviceKeeps

LEMMA RequestedKeeps ==
  ASSUME Inv, HasAnswer, RecvS(line), Drifts, line.sub \in {"END_RSP", "ATR_RSP"},
         line' = Silence, UNCHANGED <<callNo, card, execs, resets, intact, dirty, misled>>
  PROVE  LinkInv'
<1> USE DEF Inv, LinkInv
<1>1. /\ tx \in Requests /\ adrift' = adrift
      /\ RecvOtherS \/ (RecvAtr(line) /\ line.sub = "ATR_RSP")
  BY SBlockRead, SBlockCases DEF SAnswer, Requests
<1>2. pc' = "done" /\ UNCHANGED <<seqs, received>>
  BY <1>1 DEF RecvOtherS, RecvAtr, Finish
<1>3. UNCHANGED ends
  BY <1>1, <1>2 DEF ends, ghost, seqs, received
<1>4. call # "APDU" /\ call \in ControlCalls
  BY <1>1, SBlockRead, ReadingCall DEF Requests, Owing, RBlocks, Resetting
<1>5. Ready'
  BY <1>1, <1>3, <1>4, SBlockRead, SameEnds DEF ControlOK, Exchanging
<1>6. DoneOK'
  BY <1>4, <1>5, SBlockRead DEF DoneOK
<1>7. ~waiting
  BY <1>3, <1>5, SBlockRead DEF Ready, InTouch
<1> QED
  BY <1>2, <1>6, <1>7, SBlockRead, DeviceKeeps

LEMMA RecvSKeeps ==
  ASSUME Inv, HasAnswer, RecvS(line), Drifts, line' = Silence,
         UNCHANGED <<callNo, card, execs, resets, intact, dirty, misled>>
  PROVE  LinkInv'
<1>1. line.sub \in {"WTX_REQ", "RESYNC_RSP", "CIP_RSP", "END_RSP", "ATR_RSP"}
  BY SBlockRead DEF SAnswer
<1> QED
  BY <1>1, WtxReqKeeps, ResyncRspKeeps, CipRspKeeps, RequestedKeeps

\* Where no S-block is read, the device is as adrift as it was.
LEMMA NoDrift ==
  ASSUME Drifts, line.type # "S"
  PROVE  adrift' = adrift
<1>1. S("RESYNC_RSP").type = "S" /\ \A b \in Atr("CIP_RSP") : b.type = "S"
  BY DEF S, Atr
<1> QED
  BY <1>1 DEF Drifts

LEMMA DeliverKeeps ==
  ASSUME Inv, Deliver
  PROVE  LinkInv'
<1>1. /\ HasAnswer /\ line' = Silence /\ Drifts
      /\ UNCHANGED <<callNo, card, execs, resets, intact, dirty, misled>>
  BY DEF Deliver, NoFault
<1>2. CASE RecvI(line, TRUE) \/ RecvR(line)
  <2>1. line.type # "S"
    BY <1>2 DEF RecvI, RecvR
  <2>2. UNCHANGED ghost
    BY <1>1, <2>1, NoDrift DEF ghost
  <2> QED
    BY <1>1, <1>2, <2>2, RecvIKeeps, RecvRKeeps
<1>3. CASE RecvS(line)
  BY <1>1, <1>3, RecvSKeeps
<1> QED
  BY <1>2, <1>3 DEF Deliver, Receive

LEMMA HostFaultKeeps ==
  ASSUME Inv, HostFault
  PROVE  LinkInv'
<1>1. UNCHANGED <<callNo, card, ghost>>
  BY DEF HostFault
<1>2. CASE (SendFails \/ SendIFrameNoMemory) /\ UNCHANGED line
  <2>1. line = Silence
    BY <1>2 DEF Inv, LinkInv, LineOK, SendFails, SendIFrameNoMemory
  <2> QED
    BY <1>1, <1>2, <2>1, SendKeeps
<1>3. CASE ReadInterrupted /\ line' = Silence
  <2>1. pc' = "done" /\ status' = "FAILED" /\ UNCHANGED <<call, rsp, seqNumDevice>>
    BY <1>3 DEF ReadInterrupted, Finish, session, seqs
  <2> QED
    BY <1>1, <1>3, <2>1, FailureKeeps DEF Inv, LinkInv, CardOK
<1>4. CASE HasAnswer /\ line' = Silence /\ Receive(line, FALSE) /\ ~Receive(line, TRUE)
  BY <1>1, <1>4, RecvIKeeps DEF Receive
<1> QED
  BY <1>2, <1>3, <1>4 DEF HostFault

LEMMA StutterKeeps ==
  ASSUME Inv, UNCHANGED linkVars
  PROVE  LinkInv'
<1> USE DEF Inv, LinkInv
<1>1. /\ UNCHANGED <<line, callNo>> /\ UNCHANGED <<card, ghost>> /\ UNCHANGED vars
  BY DEF linkVars
<1>2. /\ UNCHANGED <<cExp, cNS, cGot, cSent, cCall, waiting>>
      /\ UNCHANGED <<execs, resets, intact, dirty, misled, adrift>>
  BY <1>1 DEF card, ghost
<1>3. UNCHANGED ends /\ Start' = Start /\ UNCHANGED status
  BY <1>1, RestUnchanged DEF ends, Start, vars
<1>4. CardOK' /\ ExecutedOnce' /\ CommandIntact' /\ OwnResponseIfClean'
  BY <1>1, <1>2, RestUnchanged
    DEF CardOK, ExecutedOnce, CommandIntact, OwnResponseIfClean, Response
<1>5. ApduOK'
  BY <1>1, <1>2, <1>3, SameEnds, RestUnchanged DEF ApduOK, Exchanging, Unread
<1>6. ControlOK' /\ IdleOK'
  BY <1>1, <1>3, SameEnds, RestUnchanged DEF ControlOK, IdleOK, Exchanging
<1>7. DoneOK'
  <2>1. \A n : Holds(n)' <=> Holds(n)
    BY <1>1, RestUnchanged DEF Holds
  <2> QED
    BY <1>1, <1>2, <1>3, <2>1, SameEnds, RestUnchanged DEF DoneOK
<1>8. (IAnswer' <=> IAnswer) /\ (RAnswer' <=> RAnswer) /\ (SAnswer' <=> SAnswer)
  <2>1. IAnswer' <=> IAnswer
    BY <1>1, <1>2, <1>3, SameEnds, RestUnchanged DEF IAnswer, IsApdu
  <2>2. RAnswer' <=> RAnswer
    BY <1>1, <1>2, <1>3, SameEnds, RestUnchanged DEF RAnswer, IsApdu
  <2>3. SAnswer' <=> SAnswer
    BY <1>1, <1>2, <1>3, SameEnds, RestUnchanged DEF SAnswer
  <2> QED
    BY <2>1, <2>2, <2>3
<1>9. LineOK'
  BY <1>1, <1>2, <1>8, RestUnchanged DEF LineOK, HasAnswer, Unread
<1> QED
  BY <1>4, <1>5, <1>6, <1>7, <1>9

LEMMA LinkInvStep ==
  ASSUME Inv, ResetAfterFailure, [LinkNext]_linkVars
  PROVE  Inv'
<1>1. ASSUME LinkSend PROVE LinkInv'
  BY <1>1, SendKeeps DEF LinkSend, NoFault, Send
<1>2. ASSUME PollsUsedUp PROVE LinkInv'
  <2>1. line' = Silence /\ UNCHANGED <<callNo, card, ghost>> /\ ReadFails
    BY <1>2 DEF PollsUsedUp, NoFault
  <2> QED
    BY <2>1, ReadFailsKeeps
<1>3. ASSUME LoseToDevice PROVE LinkInv'
  <2>1. line' = Silence /\ UNCHANGED <<callNo, card, ghost>> /\ ReadFails
    BY <1>3 DEF LoseToDevice, Fault
  <2> QED
    BY <2>1, ReadFailsKeeps
<1>4. LinkInv'
  BY <1>1, <1>2, <1>3, BeginKeeps, CardKeeps, DeliverKeeps, ReturnKeeps, HostFaultKeeps,
     StutterKeeps DEF LinkNext, Exchange
<1> QED
  BY <1>4, LinkTypes DEF Inv

LEMMA LinkInvAlways == ResetAfterFailure => (LinkSpec => []Inv)
<1>1. ResetAfterFailure /\ LinkInit => ResetAfterFailure /\ Inv
  BY LinkInitInv
<1>2. (ResetAfterFailure /\ Inv) /\ [LinkNext]_linkVars => (ResetAfterFailure /\ Inv)'
  BY LinkInvStep
<1> QED
  BY <1>1, <1>2, PTL DEF LinkSpec

-----------------------------------------------------------------------------
\* Whatever the line loses and however often it retransmits, the card runs a
\* command once; only a resynchronisation or warm reset of the same exchange
\* can make it run it again.
THEOREM ExecutedOnceHolds == ResetAfterFailure => (LinkSpec => []ExecutedOnce)
<1>1. Inv => ExecutedOnce
  BY DEF Inv, LinkInv
<1> QED
  BY <1>1, LinkInvAlways, PTL

\* And what the card runs is the command the caller gave, whole and in order,
\* unless an earlier exchange passed left-over blocks for its response.
THEOREM CommandIntactHolds == ResetAfterFailure => (LinkSpec => []CommandIntact)
<1>1. Inv => CommandIntact
  BY DEF Inv, LinkInv
<1> QED
  BY <1>1, LinkInvAlways, PTL

\* And an exchange that began with an empty receive list, the card not reset
\* behind the device's back, returns the blocks of the response to its own
\* command, each once and in order.
THEOREM OwnResponseHolds == ResetAfterFailure => (LinkSpec => []OwnResponseIfClean)
<1>1. Inv => OwnResponseIfClean
  BY DEF Inv, LinkInv
<1> QED
  BY <1>1, LinkInvAlways, PTL

-----------------------------------------------------------------------------
(***************************************************************************)
(* The link is an instance of T1: what the ISO card puts on the line is a  *)
(* block the arbitrary card of T1 could send, whether or not the caller    *)
(* resets the card after a failure.                                        *)
(***************************************************************************)
LinkTyped ==
  /\ TypeOK
  /\ line \in {ToCard, Silence} \cup CardBlocks
  /\ cExp \in {0, 1} /\ cNS \in {0, 1} /\ waiting \in BOOLEAN
  /\ cSent \in 0..RspBlocks /\ cCall \in 0..MaxCalls /\ callNo \in 0..MaxCalls
  /\ cSent > 0 \/ waiting => cCall > 0
  /\ call # "none" => callNo > 0

LEMMA LinkStepIsT1Step ==
  ASSUME LinkTyped, [LinkNext]_linkVars
  PROVE  [Next]_vars
<1>1. ASSUME NEW stored \in BOOLEAN, HasAnswer, Receive(line, stored) PROVE Next
  BY <1>1 DEF LinkTyped, HasAnswer, Next
<1>2. ASSUME Deliver \/ HostFault PROVE Next
  BY <1>1, <1>2 DEF Deliver, HostFault, Next, HostStep
<1>3. ASSUME LinkBegin \/ LinkSend \/ LinkReturn \/ PollsUsedUp \/ LoseToDevice PROVE Next
  BY <1>3 DEF LinkBegin, LinkSend, LinkReturn, PollsUsedUp, LoseToDevice, Next, HostStep
<1>4. ASSUME CardStep \/ LoseToCard \/ GarbleToCard \/ UNCHANGED linkVars PROVE UNCHANGED vars
  BY <1>4 DEF CardStep, LoseToCard, GarbleToCard, linkVars
<1> QED
  BY <1>2, <1>3, <1>4 DEF LinkNext, Exchange

LEMMA CardStepTyped ==
  ASSUME LinkTyped, CardStep
  PROVE  LinkTyped'
<1> USE DEF LinkTyped
<1>1. UNCHANGED vars /\ UNCHANGED <<call, callNo>> /\ TypeOK'
  BY StutterTypeOK DEF CardStep, vars, session
<1>2. ASSUME cCall \in 1..MaxCalls, NEW n \in 1..RspBlocks, SendNew(cCall, n)
      PROVE  line' \in CardBlocks /\ cNS' \in {0, 1} /\ cSent' \in 0..RspBlocks
  BY <1>2, RspBlockIsCardBlock DEF SendNew
<1>3. 1 \in 1..RspBlocks
  BY T1LinkAssumption
<1>4. CASE TakesPiece
  <2>1. cExp' \in {0, 1}
    BY <1>4 DEF TakesPiece
  <2>2. line' \in CardBlocks
    BY <1>4, <2>1, CardGivesAnswer DEF TakesPiece
  <2>3. UNCHANGED <<cNS, cCall, waiting>> /\ cSent' = 0
    BY <1>4 DEF TakesPiece
  <2> QED
    BY <1>1, <2>1, <2>2, <2>3, T1LinkAssumption
<1>5. CASE Executes
  <2>1. cExp' \in {0, 1} /\ cCall' = callNo
    BY <1>5 DEF Executes
  <2>2. callNo \in 1..MaxCalls
    BY <1>5 DEF Executes, Wire, NoWire, TypeOK, ValuesOK
  <2>3. CASE AskToWait
    BY <1>1, <2>1, <2>2, <2>3, CardGivesAnswer DEF AskToWait
  <2>4. CASE SendNew(callNo, 1) /\ waiting' = FALSE
    <3>1. waiting' \in BOOLEAN /\ ~waiting'
      BY <2>4
    <3>2. line' \in CardBlocks /\ cNS' \in {0, 1} /\ cSent' \in 0..RspBlocks
      BY <1>3, <2>2, <2>4, RspBlockIsCardBlock DEF SendNew
    <3> QED
      BY <1>1, <2>1, <2>2, <3>1, <3>2
  <2> QED
    BY <1>5, <2>3, <2>4 DEF Executes
<1>6. CASE TakesOutOfSequence
  BY <1>1, <1>6, CardGivesAnswer DEF TakesOutOfSequence, card
<1>7. CASE Continues
  <2>1. /\ cSent + 1 \in 1..RspBlocks /\ cCall \in 1..MaxCalls /\ SendNew(cCall, cSent + 1)
        /\ UNCHANGED <<cExp, cCall, waiting>>
    BY <1>7, T1LinkAssumption DEF Continues
  <2> QED
    BY <1>1, <1>2, <2>1
<1>8. CASE Repeats
  <2>1. UNCHANGED card
    BY <1>8 DEF Repeats
  <2>2. line' \in CardBlocks
    <3>1. CASE ~waiting /\ cSent > 0
      <4>1. cCall \in 1..MaxCalls /\ cSent \in 1..RspBlocks /\ 1 - cNS \in {0, 1}
        BY <3>1, T1LinkAssumption
      <4> QED
        BY <1>8, <4>1, CardGivesAnswer, RspBlockIsCardBlock DEF Repeats
    <3>2. CASE waiting \/ ~(cSent > 0)
      BY <1>8, <3>2, CardGivesAnswer DEF Repeats
    <3> QED
      BY <3>1, <3>2
  <2> QED
    BY <1>1, <2>1, <2>2 DEF card
<1>9. CASE Resets
  <2>1. line' \in CardBlocks
    BY <1>9, CardGivesAnswer DEF Resets
  <2>2. /\ cExp' = 0 /\ cNS' = 0 /\ cSent' = 0 /\ waiting' = FALSE /\ cCall' = cCall
        /\ waiting' \in BOOLEAN /\ ~waiting'
    BY <1>9 DEF Resets
  <2> QED
    BY <1>1, <2>1, <2>2, T1LinkAssumption
<1>10. CASE HasWaited
  <2>1. cCall \in 1..MaxCalls /\ UNCHANGED <<cExp, cCall>>
    BY <1>10, T1LinkAssumption DEF HasWaited
  <2>2. CASE AskToWait
    BY <1>1, <2>1, <2>2, CardGivesAnswer DEF AskToWait
  <2>3. CASE SendNew(cCall, 1) /\ waiting' = FALSE
    <3>1. waiting' \in BOOLEAN /\ ~waiting'
      BY <2>3
    <3> QED
      BY <1>1, <1>2, <1>3, <2>1, <2>3, <3>1
  <2> QED
    BY <1>10, <2>2, <2>3 DEF HasWaited
<1>11. CASE AnswersRequest
  BY <1>1, <1>11, CardGivesAnswer DEF AnswersRequest, card
<1> QED
  BY <1>4, <1>5, <1>6, <1>7, <1>8, <1>9, <1>10, <1>11 DEF CardStep

LEMMA LinkTypedStep ==
  ASSUME LinkTyped, [LinkNext]_linkVars
  PROVE  LinkTyped'
<1> USE DEF LinkTyped
<1>1. TypeOK'
  BY LinkStepIsT1Step, TypeOKStep
<1>2. CASE CardStep
  BY <1>2, CardStepTyped
<1>3. CASE LinkBegin
  <2>1. callNo' \in 1..MaxCalls /\ UNCHANGED <<line, card>>
    BY <1>3, T1LinkAssumption DEF LinkBegin
  <2> QED
    BY <1>1, <2>1 DEF card
<1>4. CASE ~CardStep /\ ~LinkBegin
  <2>1. UNCHANGED callNo /\ UNCHANGED card /\ line' \in {ToCard, Silence, line} \cup CardBlocks
    BY <1>4, CardGivesAnswer
      DEF LinkNext, Exchange, LinkSend, Deliver, PollsUsedUp, LinkReturn, LoseToCard,
          GarbleToCard, LoseToDevice, HostFault, Fault, NoFault, linkVars
  <2>2. call' \in {call, "none"}
    BY <1>4 DEF LinkNext, Exchange, LinkSend, Deliver, PollsUsedUp, LinkReturn, LoseToCard,
          GarbleToCard, LoseToDevice, HostFault, linkVars, vars, session, Send, SendFails,
          SendIFrameNoMemory, SendUnchanged, ReadFails, ReadInterrupted, ReturnApdu,
          ReturnControl, FreeT1Params, Receive, RecvI, RecvR, RecvS
  <2> QED
    BY <1>1, <2>1, <2>2 DEF card
<1> QED
  BY <1>2, <1>3, <1>4

\* What T1 guarantees against any card it guarantees on this line: the link
\* is an implementation of T1, step by step.
THEOREM LinkImplementsT1 == LinkSpec => Spec
<1>1. LinkInit => Init /\ LinkTyped
  <2> SUFFICES ASSUME LinkInit PROVE Init /\ LinkTyped
    OBVIOUS
  <2>1. Init /\ line = Silence /\ call = "none"
    BY DEF LinkInit, Init
  <2>2. waiting \in BOOLEAN
    BY DEF LinkInit
  <2>3. cExp = 0 /\ cNS = 0 /\ cSent = 0 /\ cCall = 0 /\ callNo = 0
    BY DEF LinkInit
  <2>4. ~waiting
    BY DEF LinkInit
  <2> QED
    BY <2>1, <2>2, <2>3, <2>4, InitTypeOK, T1LinkAssumption DEF LinkTyped
<1> QED
  BY <1>1, LinkTypedStep, LinkStepIsT1Step, PTL DEF LinkSpec, Spec

-----------------------------------------------------------------------------
(***************************************************************************)
(* T1Silent: a card that falls silent is one of the cards of T1, and from  *)
(* then on no attempt to recover is given back.                            *)
(***************************************************************************)
LEMMA SilentStepIsT1Step == [SilentNext]_silentVars => [Next]_vars
<1>1. CASE CardFallsSilent \/ UNCHANGED silentVars
  BY <1>1 DEF CardFallsSilent, silentVars
<1>2. CASE Device \/ SilentRead
  BY <1>2 DEF Device, SilentRead, Next
<1>3. CASE CardAnswers
  BY <1>3 DEF CardAnswers, Next
<1> QED
  BY <1>1, <1>2, <1>3 DEF SilentNext

\* What T1 guarantees against any card it guarantees against one that stops
\* answering for good.
THEOREM SilentImplementsT1 == SilentSpec => Spec
<1>1. SilentInit => Init
  BY DEF SilentInit
<1> QED
  BY <1>1, SilentStepIsT1Step, PTL DEF SilentSpec, Spec

NoRefundStep ==
  silent /\ call # "none" /\ call' = call =>
    /\ recoveryCnt' >= recoveryCnt
    /\ cipRecoveryCnt' >= cipRecoveryCnt
    /\ wtxCnt' >= wtxCnt

LEMMA CallKeepsRetries ==
  ASSUME TypeOK, Device, call # "none", call' = call
  PROVE  UNCHANGED retries
<1>1. pc # "idle"
  BY DEF TypeOK, ValuesOK
<1>2. CASE Send \/ SendFails \/ SendIFrameNoMemory
  BY <1>2 DEF Send, SendFails, SendIFrameNoMemory, SendUnchanged
<1>3. CASE ReturnApdu \/ ReturnControl
  BY <1>3 DEF ReturnApdu, ReturnControl, FreeT1Params
<1>4. CASE DoReadTerminate
  BY <1>4 DEF DoReadTerminate
<1> QED
  BY <1>1, <1>2, <1>3, <1>4
     DEF Device, HostStep, BeginApdu, BeginControl, NewT1Params

LEMMA SilentReadSpends ==
  ASSUME TypeOK, SilentRead
  PROVE  /\ recoveryCnt' >= recoveryCnt
         /\ cipRecoveryCnt' >= cipRecoveryCnt
         /\ wtxCnt' >= wtxCnt
<1>1. recoveryCnt \in Nat /\ cipRecoveryCnt \in Nat /\ wtxCnt \in Nat
  BY DEF TypeOK, ValuesOK
<1>2. CASE ReadFails
  <2>1. wtxCnt' = wtxCnt
    BY <1>2 DEF ReadFails
  <2>2. /\ recoveryCnt' \in {recoveryCnt, recoveryCnt + 1}
        /\ cipRecoveryCnt' \in {cipRecoveryCnt, cipRecoveryCnt + 1}
    BY <1>2 DEF ReadFails, RecoverUndecoded
  <2> QED
    BY <1>1, <2>1, <2>2
<1>3. CASE ReadNothing \/ ReadInterrupted
  BY <1>1, <1>3 DEF ReadNothing, ReadInterrupted, retries
<1> QED
  BY <1>2, <1>3 DEF SilentRead

\* Once the card is silent no retry, no warm reset and no waiting time is
\* given back before the call ends, whatever ends a read: with the limits of
\* RetriesStayBounded, which hold here too, recovery runs out of attempts.
THEOREM NoRetryIsRefundedHolds == SilentSpec => NoRetryIsRefunded
<1>1. TypeOK /\ [SilentNext]_silentVars => [NoRefundStep]_silentVars
  <2> SUFFICES ASSUME TypeOK, SilentNext PROVE NoRefundStep
    OBVIOUS
  <2>1. recoveryCnt \in Nat /\ cipRecoveryCnt \in Nat /\ wtxCnt \in Nat
    BY DEF TypeOK, ValuesOK
  <2>2. CASE Device
    BY <2>1, <2>2, CallKeepsRetries DEF NoRefundStep, retries
  <2>3. CASE SilentRead
    BY <2>3, SilentReadSpends DEF NoRefundStep
  <2>4. CASE CardAnswers
    BY <2>4 DEF CardAnswers, NoRefundStep
  <2>5. CASE CardFallsSilent
    BY <2>5 DEF CardFallsSilent, NoRefundStep
  <2> QED
    BY <2>2, <2>3, <2>4, <2>5 DEF SilentNext
<1>2. SilentSpec => []TypeOK
  BY SilentImplementsT1, TypeCorrect, PTL
<1> QED
  BY <1>1, <1>2, PTL DEF SilentSpec, NoRetryIsRefunded, NoRefundStep

-----------------------------------------------------------------------------
(***************************************************************************)
(* One fault.  As long as at most one block was lost or garbled, and the   *)
(* host has not failed, the two ends never lose touch, and an exchange is  *)
(* in one of few states.  It is hit from the fault until it goes on where  *)
(* it was or has asked to resynchronise.                                   *)
(***************************************************************************)
Few == faults <= 1 /\ hostFaults = 0

\* The answer was not what the protocol has next.
Hit ==
  \/ pc = "read" /\ line = Silence
  \/ HasAnswer /\ line.type = "R" /\ ~(line.err = "ack" /\ Taken)
  \/ IsApdu /\ Exchanging /\ tx \in RBlocks /\ ~Executed

HitOK ==
  /\ faults = 0 => recoveryCnt = 0 /\ ~isResyncRecoveryFlag
  /\ Hit => faults = 1 /\ ~isResyncRecoveryFlag

\* Every waiting time request but one was made by the card.
WaitOK ==
  /\ waits \in 0..MaxWait /\ (~waiting => waits = 0)
  /\ pc = "idle" => wtxCnt = 0
  /\ IsApdu /\ Exchanging /\ tx \notin Resetting =>
       /\ ~Owes => wtxCnt = 0
       /\ waiting => wtxCnt <= waits + faults
       /\ waiting /\ ~(tx = "WTX_RSP" /\ Unread) => wtxCnt < waits + faults

OneApduOK ==
  IsApdu =>
    /\ cGot > 0 \/ isDeviceChaining => txLen > maxIFSC
    /\ Exchanging => /\ tx # "CIP_REQ"
                     /\ tx = "RESYNC_REQ" =>
                          /\ isResyncRecoveryFlag /\ faults = 1
                          /\ HasAnswer => line = S("RESYNC_RSP")
    /\ pc = "done" => /\ ~waiting
                      /\ IF status = "SUCCESS" THEN rxList # <<>>
                         ELSE rxList = <<>> /\ txLen > maxIFSC

OneControlOK ==
  ~IsApdu => /\ ~waiting /\ rxList = <<>>
             /\ Exchanging => tx \in Requests \cup {"CIP_REQ"}

CleanOK == ~adrift /\ ~dirty /\ ~misled /\ ~isSeqNumDR

FewInv == CleanOK /\ HitOK /\ WaitOK /\ OneApduOK /\ OneControlOK

OneInv == faults \in Nat /\ hostFaults \in Nat /\ (Few => FewInv)

LEMMA OneInit == LinkInit => OneInv
BY T1LinkAssumption DEF LinkInit, Init, OneInv, FewInv, CleanOK, HitOK, Hit, WaitOK, OneApduOK, OneControlOK,
   IsApdu, HasAnswer, Silence, Exchanging

\* What the phases of a command mean while the ends are in touch.
LEMMA Phases ==
  ASSUME CleanOK
  PROVE  /\ Open => /\ seqNumDevice = cExp /\ seqNumCard = cNS /\ rxList = <<>>
                    /\ ~waiting /\ ~Owes
         /\ Taken => /\ seqNumDevice # cExp /\ rxList = <<>>
                     /\ ~waiting /\ cSent = 0 /\ ~Owes
         /\ Executed => seqNumDevice # cExp /\ Owes /\ Answering
BY DEF CleanOK, Open, InTouch, Taken, Executed, Owes

LEMMA BeginStaysFew ==
  ASSUME Inv, ResetAfterFailure, FewInv, LinkBegin
  PROVE  FewInv'
<1> USE DEF FewInv
<1>0. PICK kind \in {"APDU"} \cup ControlCalls, first \in TxBlocks, len \in 0..MaxLen :
        /\ NewT1Params(kind, first, len)
        /\ kind = "APDU" => first = "I" /\ rsp.ok
        /\ kind # "APDU" => first = FirstBlock[kind]
  <2>1. ASSUME NEW len \in 1..MaxLen, BeginApdu(len)
        PROVE  NewT1Params("APDU", "I", len) /\ rsp.ok /\ len \in 0..MaxLen
    BY <2>1, T1Assumption DEF BeginApdu, NewT1Params, LinkBegin
  <2>2. ASSUME NEW kind \in ControlCalls, BeginControl(kind)
        PROVE  NewT1Params(kind, FirstBlock[kind], 0)
    BY <2>2 DEF BeginControl
  <2>3. ASSUME NEW kind \in ControlCalls PROVE FirstBlock[kind] \in TxBlocks /\ kind # "APDU"
    BY DEF ControlCalls, FirstBlock, TxBlocks, SBlocks
  <2>4. CASE \E len \in 1..MaxLen : BeginApdu(len)
    BY <2>1, <2>4 DEF TxBlocks
  <2>5. CASE \E kind \in ControlCalls : BeginControl(kind)
    <3>1. 0 \in 0..MaxLen
      BY T1Assumption
    <3> QED
      BY <2>2, <2>3, <2>5, <3>1
  <2> QED
    BY <2>4, <2>5 DEF LinkBegin
<1>1. /\ pc = "idle" /\ pc' = "send" /\ call' = kind /\ tx' = first /\ txLen' = len
      /\ isDeviceChaining' = (len > maxIFSC) /\ line = Silence /\ call = "none"
  BY <1>0 DEF NewT1Params, Inv, LinkInv, LineOK, TypeOK, ValuesOK
<1>2. UNCHANGED <<maxIFSC, wtxCnt, recoveryCnt, isResyncRecoveryFlag, isSeqNumDR, rxList>>
  BY <1>0 DEF NewT1Params, seqs, retries, received, cardInfo
<1>3. UNCHANGED <<cGot, waiting, waits, line, misled, adrift, faults>> /\ dirty' = (rxList # <<>>)
  BY DEF LinkBegin, card
<1>4. ~waiting /\ rxList = <<>>
  BY <1>1 DEF OneControlOK, IsApdu
<1>5. CleanOK'
  BY <1>2, <1>3, <1>4 DEF CleanOK
<1>6. kind = "APDU" => cGot = 0
  BY <1>0, <1>1 DEF Inv, LinkInv, IdleOK, Ready, CleanOK
<1>7. first \notin RBlocks /\ (kind # "APDU" => first \in Requests \cup {"CIP_REQ"})
  BY <1>0 DEF RBlocks, ControlCalls, FirstBlock, Requests
<1>8. ~Hit' /\ ~HasAnswer'
  BY <1>1, <1>3, <1>7 DEF Hit, HasAnswer
<1>9. HitOK'
  BY <1>2, <1>3, <1>8 DEF HitOK
<1>10. WaitOK'
  BY <1>1, <1>2, <1>3, <1>4 DEF WaitOK
<1>11. OneApduOK'
  <2>1. SUFFICES ASSUME kind = "APDU" PROVE OneApduOK'
    BY <1>1 DEF OneApduOK, IsApdu
  <2>2. cGot' = 0 /\ tx' = "I" /\ (isDeviceChaining' => txLen' > maxIFSC')
    BY <1>0, <1>1, <1>2, <1>3, <1>6, <2>1
  <2> QED
    BY <1>1, <2>2 DEF OneApduOK
<1>12. OneControlOK'
  BY <1>1, <1>2, <1>3, <1>4, <1>7 DEF OneControlOK, IsApdu
<1> QED
  BY <1>5, <1>9, <1>10, <1>11, <1>12

LEMMA SendStaysFew ==
  ASSUME Inv, FewInv, LinkSend
  PROVE  FewInv'
<1> USE DEF FewInv
<1>1. /\ pc = "send" /\ pc' = "read" /\ line' = ToCard
      /\ UNCHANGED <<call, tx, recoveryCnt, wtxCnt, isResyncRecoveryFlag, isSeqNumDR, rxList, maxIFSC>>
      /\ KeepPart
  BY DEF LinkSend, Send, SendUnchanged, retries, seqs, received
<1>2. UNCHANGED ends /\ UNCHANGED faults /\ UNCHANGED <<cGot, waiting, waits, misled, adrift, dirty>>
  BY DEF LinkSend, Send, SendUnchanged, NoFault, ends, seqs, received, card, ghost
<1>3. (Executed' <=> Executed) /\ (Owes' <=> Owes)
  BY <1>2, SameEnds
<1>4. ~HasAnswer' /\ line' # Silence
  BY <1>1, LineShape DEF HasAnswer
<1>5. CleanOK'
  BY <1>1, <1>2 DEF CleanOK
<1>6. HitOK'
  BY <1>1, <1>2, <1>3, <1>4 DEF HitOK, Hit, IsApdu, Exchanging
<1>7. WaitOK'
  BY <1>1, <1>2, <1>3 DEF WaitOK, IsApdu, Exchanging, Unread
<1>8. txLen' = txLen /\ (isDeviceChaining' => isDeviceChaining \/ txLen > maxIFSC)
  BY <1>1, T1Assumption
    DEF KeepPart, command, NextChaining, CutChains, Inv, TypeOK, ValuesOK, FlagsOK, Ifscs
<1>9. OneApduOK'
  BY <1>1, <1>2, <1>4, <1>8 DEF OneApduOK, IsApdu, Exchanging
<1>10. OneControlOK'
  BY <1>1, <1>2 DEF OneControlOK, IsApdu, Exchanging
<1> QED
  BY <1>5, <1>6, <1>7, <1>9, <1>10

LEMMA ReturnStaysFew ==
  ASSUME Inv, FewInv, LinkReturn
  PROVE  /\ FewInv'
         /\ IsApdu /\ txLen <= maxIFSC => rsp'.ok
<1> USE DEF FewInv
<1>1. /\ pc = "done" /\ pc' = "idle" /\ call' = "none" /\ tx' = "I"
      /\ recoveryCnt' = 0 /\ wtxCnt' = 0 /\ UNCHANGED <<isResyncRecoveryFlag, isSeqNumDR>>
      /\ line' = Silence
  BY DEF LinkReturn, ReturnApdu, ReturnControl, FreeT1Params, seqs, Inv, LinkInv, LineOK
<1>2. UNCHANGED <<waiting, waits, dirty, adrift, faults>>
      /\ misled' = (misled \/ (dirty /\ rsp'.data # <<>>))
  BY DEF LinkReturn, NoFault, card
<1>3. CleanOK'
  BY <1>1, <1>2 DEF CleanOK
<1>4. HitOK'
  BY <1>1, <1>2 DEF HitOK, Hit, HasAnswer, Exchanging
<1>5. ~waiting /\ rxList' = <<>>
  <2>1. CASE IsApdu
    BY <1>1, <2>1 DEF OneApduOK, LinkReturn, ReturnApdu, ReturnControl
  <2>2. CASE ~IsApdu
    BY <1>1, <2>2 DEF OneControlOK, LinkReturn, ReturnApdu, ReturnControl
  <2> QED
    BY <2>1, <2>2
<1>6. WaitOK' /\ OneApduOK' /\ OneControlOK'
  BY <1>1, <1>2, <1>5 DEF WaitOK, OneApduOK, OneControlOK, IsApdu, Exchanging
<1>7. ASSUME IsApdu, txLen <= maxIFSC PROVE rsp'.ok
  <2>1. txLen \in Int /\ maxIFSC \in Int
    BY T1Assumption DEF Inv, TypeOK, ValuesOK, Ifscs
  <2>2. status = "SUCCESS" /\ rxList # <<>>
    BY <1>1, <1>7, <2>1 DEF OneApduOK
  <2>3. rsp' = [ok |-> rxList # <<>>, data |-> rxList]
    BY <1>7, <2>2 DEF LinkReturn, ReturnApdu, ReturnControl
  <2> QED
    BY <2>2, <2>3
<1> QED
  BY <1>3, <1>4, <1>6, <1>7

\* The device rests while the card moves, so that only these are left to be
\* shown of its answer.
LEMMA CardStaysFew ==
  ASSUME Inv, FewInv, line = ToCard, UNCHANGED vars, UNCHANGED <<misled, adrift, dirty>>,
         faults' \in {faults, 1}, faults' # faults => ~isResyncRecoveryFlag,
         Hit' => faults' = 1 /\ ~isResyncRecoveryFlag,
         WaitOK',
         cGot' > 0 => cGot' = cGot \/ isDeviceChaining,
         tx = "RESYNC_REQ" => line' = S("RESYNC_RSP"),
         ~IsApdu => ~waiting'
  PROVE  FewInv'
<1> USE DEF FewInv
<1>1. pc = "read" /\ UNCHANGED <<pc, tx, call, rxList, isSeqNumDR, txLen, maxIFSC, isDeviceChaining>>
      /\ UNCHANGED <<recoveryCnt, isResyncRecoveryFlag>>
  BY WireShape DEF vars, session, command, received, seqs, retries, cardInfo
<1>2. CleanOK'
  BY <1>1 DEF CleanOK
<1>3. HitOK'
  BY <1>1 DEF HitOK
<1>4. OneApduOK'
  BY <1>1 DEF OneApduOK, IsApdu, Exchanging
<1>5. OneControlOK'
  BY <1>1 DEF OneControlOK, IsApdu, Exchanging
<1> QED
  BY <1>2, <1>3, <1>4, <1>5

\* The card has a block of a command, and the line holds nothing yet.
LEMMA ReadByCard ==
  ASSUME Inv, FewInv, line = ToCard, UNCHANGED vars
  PROVE  /\ pc = "read" /\ pc' = "read" /\ UNCHANGED <<tx, call, wtxCnt, seqNumDevice, seqNumCard, rxList>>
         /\ IsApdu' <=> IsApdu
         /\ tx = "I" => IsApdu /\ Open /\ seqNumDevice = cExp /\ seqNumCard = cNS /\ ~waiting /\ wtxCnt = 0
         /\ tx \in Owing => IsApdu
         /\ tx \in Owing => Open \/ Taken \/ Executed
         /\ tx = "WTX_RSP" => Executed
<1> USE DEF FewInv
<1>1. pc = "read" /\ pc' = "read" /\ UNCHANGED <<tx, call, wtxCnt, seqNumDevice, seqNumCard, rxList>>
  BY WireShape DEF vars, session, command, received, seqs, retries, cardInfo
<1>2. call \in {"APDU"} \cup ControlCalls
  BY WireShape
<1>3. tx = "I" \/ tx \in Owing => IsApdu
  BY <1>1 DEF OneControlOK, Exchanging, Owing, RBlocks, Requests
<1>4. tx = "I" => Open
  BY <1>1, <1>3 DEF Inv, LinkInv, ApduOK, IsApdu, Exchanging, Unread
<1>5. tx = "I" => wtxCnt = 0
  BY <1>1, <1>3, <1>4, Phases DEF WaitOK, Exchanging, Resetting
<1>6. tx \in Owing => (Open \/ Taken \/ Executed) /\ (tx = "WTX_RSP" => Executed)
  BY <1>1, <1>3 DEF Inv, LinkInv, ApduOK, IsApdu, Exchanging, Owing, RBlocks, Resetting
<1>7. IsApdu' <=> IsApdu
  BY <1>1 DEF IsApdu
<1>8. Open => seqNumDevice = cExp /\ seqNumCard = cNS /\ ~waiting
  BY Phases
<1> QED
  BY <1>1, <1>3, <1>4, <1>5, <1>6, <1>7, <1>8 DEF Owing

LEMMA TakesPieceStaysFew ==
  ASSUME Inv, FewInv, line = ToCard, UNCHANGED vars, UNCHANGED faults, LinkInv', TakesPiece
  PROVE  FewInv'
<1> USE DEF FewInv
<1>1. tx = "I" /\ isDeviceChaining /\ seqNumDevice = cExp
  BY WireShape DEF TakesPiece
<1>2. /\ cExp' = 1 - cExp /\ line' = [R("ack") EXCEPT !.seq = 1 - cExp]
      /\ UNCHANGED <<waiting, waits, dirty, misled, adrift>>
  BY DEF TakesPiece
<1>3. line'.type = "R" /\ line'.err = "ack" /\ HasAnswer'
  BY <1>2 DEF R, HasAnswer, ToCard, Silence
<1>4. Taken'
  <2>1. Taken' \/ Open'
    BY <1>3 DEF LinkInv, LineOK, RAnswer
  <2>2. ~Open'
    BY <1>1, <1>2, ReadByCard, Phases DEF Open, InTouch, CleanOK, Inv, LinkInv, CardOK
  <2> QED
    BY <2>1, <2>2
<1>5. ~Hit'
  BY <1>1, <1>3, <1>4, ReadByCard DEF Hit, HasAnswer, RBlocks
<1>6. WaitOK'
  BY <1>1, <1>2, ReadByCard DEF WaitOK
<1> QED
  BY <1>1, <1>2, <1>5, <1>6, ReadByCard, CardStaysFew

LEMMA ExecutesStaysFew ==
  ASSUME Inv, FewInv, line = ToCard, UNCHANGED vars, UNCHANGED faults, Executes,
         faults \in Nat
  PROVE  FewInv'
<1> USE DEF FewInv
<1>1. tx = "I" /\ cGot' = 0 /\ UNCHANGED <<dirty, misled, adrift>>
  BY WireShape DEF Executes
<1>2. \/ waiting' /\ waits < MaxWait /\ waits' = waits + 1 /\ line' = S("WTX_REQ")
      \/ ~waiting' /\ waits' = 0 /\ line' = RspBlock(cNS, callNo, 1)
  BY DEF Executes, AskToWait, SendNew
<1>3. line'.type \in {"I", "S"} /\ line' # Silence
  BY <1>2 DEF S, RspBlock, Silence
<1>4. ~Hit'
  BY <1>1, <1>3, ReadByCard DEF Hit, RBlocks
<1>5. WaitOK'
  BY <1>1, <1>2, ReadByCard, T1LinkAssumption DEF WaitOK
<1> QED
  BY <1>1, <1>4, <1>5, ReadByCard, CardStaysFew

\* After its answer the card still owes the response it was executing.
LEMMA StillExecuted ==
  ASSUME Inv, FewInv, line = ToCard, UNCHANGED vars, LinkInv', Executed,
         tx \in Owing, UNCHANGED cExp, UNCHANGED <<adrift, dirty, misled>>, cSent' > 0 \/ waiting'
  PROVE  Executed' /\ Owes'
<1> USE DEF FewInv
<1>1. CleanOK' /\ pc' = "read" /\ call' = "APDU" /\ tx' = tx /\ seqNumDevice' # cExp'
  BY ReadByCard, Phases DEF CleanOK, vars, seqs, IsApdu
<1>2. Open' \/ Taken' \/ Executed'
  BY <1>1 DEF LinkInv, ApduOK, Exchanging, Owing, RBlocks, Resetting
<1>3. ~Open' /\ ~Taken'
  BY <1>1 DEF Open, Taken, InTouch, CleanOK, LinkInv, CardOK
<1> QED
  BY <1>2, <1>3 DEF Executed

LEMMA SendNewStaysFew ==
  ASSUME Inv, FewInv, line = ToCard, UNCHANGED vars, UNCHANGED faults, LinkInv', Executed,
         tx \in Owing, UNCHANGED <<cExp, cGot>>, UNCHANGED ghost,
         NEW n \in 1..RspBlocks, SendNew(cCall, n), ~waiting', waits' = 0
  PROVE  FewInv'
<1> USE DEF FewInv
<1>1. cSent' > 0 /\ line' = RspBlock(cNS, cCall, n) /\ UNCHANGED <<dirty, misled, adrift>>
  BY DEF SendNew, ghost
<1>2. Executed' /\ Owes'
  BY <1>1, StillExecuted
<1>3. line'.type = "I" /\ line' # Silence
  BY <1>1 DEF RspBlock, Silence
<1>4. ~Hit'
  BY <1>2, <1>3 DEF Hit
<1>5. WaitOK'
  BY <1>2, ReadByCard, T1LinkAssumption DEF WaitOK
<1>6. tx # "RESYNC_REQ"
  BY DEF Owing, RBlocks
<1> QED
  BY <1>1, <1>4, <1>5, <1>6, ReadByCard, CardStaysFew

LEMMA ContinuesStaysFew ==
  ASSUME Inv, FewInv, line = ToCard, UNCHANGED vars, UNCHANGED faults, LinkInv', Continues
  PROVE  FewInv'
<1> USE DEF FewInv
<1>1. /\ tx \in Owing /\ cSent \in 1..(RspBlocks - 1) /\ ~waiting /\ ~waiting'
      /\ SendNew(cCall, cSent + 1) /\ UNCHANGED <<cExp, cGot, ghost, waits>>
  BY WireShape DEF Continues, Owing
<1>2. Executed
  BY <1>1, ReadByCard, T1LinkAssumption DEF Open, InTouch, Taken
<1>3. cSent + 1 \in 1..RspBlocks /\ waits' = 0
  BY <1>1, T1LinkAssumption DEF WaitOK
<1> QED
  BY <1>1, <1>2, <1>3, SendNewStaysFew

LEMMA HasWaitedStaysFew ==
  ASSUME Inv, FewInv, line = ToCard, UNCHANGED vars, UNCHANGED faults, LinkInv', HasWaited,
         faults \in Nat
  PROVE  FewInv'
<1> USE DEF FewInv
<1>1. tx = "WTX_RSP" /\ tx \in Owing /\ waiting /\ UNCHANGED <<cExp, cGot, ghost>>
  BY WireShape DEF HasWaited, Owing
<1>2. Executed /\ IsApdu
  BY <1>1, ReadByCard
<1>3. CASE SendNew(cCall, 1) /\ waiting' = FALSE /\ waits' = 0
  BY <1>1, <1>2, <1>3, T1LinkAssumption, SendNewStaysFew
<1>4. CASE AskToWait
  <2>1. waiting' /\ waits < MaxWait /\ waits' = waits + 1 /\ line' = S("WTX_REQ")
        /\ UNCHANGED <<dirty, misled, adrift>>
    BY <1>1, <1>4 DEF AskToWait, ghost
  <2>2. Executed' /\ Owes'
    BY <1>1, <1>2, <2>1, StillExecuted
  <2>3. ~Hit'
    BY <1>1, <2>1, <2>2, ReadByCard DEF Hit, S, Silence
  <2>4. wtxCnt <= waits + faults /\ wtxCnt \in Nat
    BY <1>1, <1>2, ReadByCard DEF WaitOK, Exchanging, Resetting, Inv, TypeOK, ValuesOK
  <2>5. WaitOK'
    BY <1>1, <2>1, <2>2, <2>4, ReadByCard, T1LinkAssumption DEF WaitOK
  <2> QED
    BY <1>1, <1>2, <2>1, <2>3, <2>5, ReadByCard, CardStaysFew
<1> QED
  BY <1>3, <1>4 DEF HasWaited

LEMMA RepeatsStaysFew ==
  ASSUME Inv, FewInv, line = ToCard, UNCHANGED vars, UNCHANGED <<faults, callNo>>, Repeats
  PROVE  FewInv'
<1> USE DEF FewInv
<1>1. tx \in RBlocks /\ tx \in Owing /\ Wire.seq = seqNumCard /\ UNCHANGED <<card, ghost>>
  BY WireShape DEF Repeats, Owing
<1>2. /\ UNCHANGED <<cExp, cGot, cNS, cSent, cCall, waiting, waits, dirty, misled, adrift>>
      /\ UNCHANGED callNo /\ IsApdu /\ pc = "read"
  BY <1>1, ReadByCard, WireShape DEF card, ghost, Repeats
<1>3. UNCHANGED ends
  BY <1>1, <1>2, RestUnchanged DEF ends
<1>4. (Executed' <=> Executed) /\ (Owes' <=> Owes)
  BY <1>3, SameEnds
<1>5. Executed => line' = S("WTX_REQ") \/ line' = RspBlock(1 - cNS, cCall, cSent)
  BY <1>1, Phases, T1LinkAssumption DEF Answering, Repeats, Executed, Owes, Inv, LinkInv, CardOK
<1>6. line' # Silence /\ (Executed => line'.type # "R")
  BY <1>1, <1>5 DEF Repeats, S, R, RspBlock, Silence
<1>7. Hit' => Hit
  BY <1>1, <1>2, <1>4, <1>6, ReadByCard DEF Hit, Exchanging
<1>8. WaitOK'
  BY <1>1, <1>2, <1>4, ReadByCard DEF WaitOK, Exchanging, Unread, RBlocks, Resetting
<1>9. tx # "RESYNC_REQ"
  BY <1>1 DEF RBlocks
<1> QED
  BY <1>2, <1>7, <1>8, <1>9, ReadByCard, CardStaysFew DEF HitOK

LEMMA ResetsStaysFew ==
  ASSUME Inv, FewInv, line = ToCard, UNCHANGED vars, UNCHANGED faults, Resets
  PROVE  FewInv'
<1> USE DEF FewInv
<1>1. tx \in Resetting /\ tx = Wire.kind /\ tx \notin RBlocks
  BY WireShape DEF Resets, IsReset, Resetting, RBlocks
<1>2. /\ cGot' = 0 /\ waiting' = FALSE /\ waits' = 0 /\ UNCHANGED <<dirty, misled, adrift>>
      /\ line' \in Atr("CIP_RSP") \cup {S("RESYNC_RSP")}
      /\ tx = "RESYNC_REQ" => line' = S("RESYNC_RSP")
  BY <1>1 DEF Resets
<1>3. line'.type = "S" /\ line' # Silence
  BY <1>2 DEF Atr, S, Silence
<1>4. ~Hit'
  BY <1>1, <1>3, ReadByCard DEF Hit
<1>5. WaitOK'
  BY <1>1, <1>2, ReadByCard, T1LinkAssumption DEF WaitOK
<1> QED
  BY <1>1, <1>2, <1>4, <1>5, ReadByCard, CardStaysFew

LEMMA AnswersRequestStaysFew ==
  ASSUME Inv, FewInv, line = ToCard, UNCHANGED vars, UNCHANGED faults, AnswersRequest
  PROVE  FewInv'
<1> USE DEF FewInv
<1>1. /\ UNCHANGED <<card, ghost>>
      /\ \/ tx = "END_REQ" /\ line' = S("END_RSP")
         \/ tx = "ATR_REQ" /\ line' \in Atr("ATR_RSP")
  BY WireShape DEF AnswersRequest, Inv, LinkInv, LineOK, Unread
<1>2. UNCHANGED <<cGot, waiting, waits, dirty, misled, adrift>>
  BY <1>1 DEF card, ghost
<1>3. ~IsApdu
  BY <1>1, ReadByCard DEF Inv, LinkInv, ApduOK, IsApdu, Exchanging, Owing, RBlocks, Resetting
<1>4. line'.type = "S" /\ line' # Silence
  BY <1>1 DEF Atr, S, Silence
<1>5. ~Hit'
  BY <1>3, <1>4, ReadByCard DEF Hit
<1>6. WaitOK'
  BY <1>2, <1>3, ReadByCard DEF WaitOK
<1>7. ~waiting' /\ tx # "RESYNC_REQ"
  BY <1>1, <1>2, <1>3 DEF OneControlOK
<1> QED
  BY <1>2, <1>5, <1>6, <1>7, ReadByCard, CardStaysFew

\* The fault of the line, on the way to the card.
LEMMA FaultStaysFew ==
  ASSUME Inv, FewInv, LoseToCard \/ GarbleToCard, faults = 0
  PROVE  FewInv'
<1> USE DEF FewInv
<1>1. /\ line = ToCard /\ UNCHANGED vars /\ UNCHANGED <<card, ghost, callNo>> /\ faults' = 1
      /\ line' = Silence \/ line' = R("parity") \/ (waiting /\ line' = S("WTX_REQ"))
  BY DEF LoseToCard, GarbleToCard, Fault
<1>2. UNCHANGED <<cGot, waiting, waits, dirty, misled, adrift>>
  BY <1>1 DEF card, ghost
<1>3. UNCHANGED ends
  BY <1>1, RestUnchanged DEF ends
<1>4. Owes' <=> Owes
  BY <1>3, SameEnds
<1>5. line' # ToCard
  BY <1>1 DEF Silence, R, S, ToCard
<1>6. ~isResyncRecoveryFlag
  BY DEF HitOK
<1>7. WaitOK'
  <2>1. wtxCnt \in Nat /\ waits \in Nat
    BY T1LinkAssumption DEF WaitOK, Inv, TypeOK, ValuesOK
  <2> QED
    BY <1>1, <1>2, <1>4, <1>5, <2>1, ReadByCard DEF WaitOK, Exchanging, Unread
<1>8. tx # "RESYNC_REQ"
  <2>1. IsApdu => tx # "RESYNC_REQ"
    BY <1>1, ReadByCard DEF OneApduOK, Exchanging
  <2>2. ~IsApdu => tx # "RESYNC_REQ"
    BY <1>1, ReadByCard DEF OneControlOK, Exchanging, Requests
  <2> QED
    BY <2>1, <2>2
<1>9. ~IsApdu => ~waiting'
  BY <1>2 DEF OneControlOK
<1> QED
  BY <1>1, <1>2, <1>6, <1>7, <1>8, <1>9, CardStaysFew

\* Nothing usable came, and it is not the protocol's turn to have lost more.
LEMMA ReadFailsStaysFew ==
  ASSUME Inv, FewInv, ReadFails, line' = Silence, UNCHANGED <<callNo, card, ghost>>,
         faults' = 1, ~isResyncRecoveryFlag,
         waiting => wtxCnt < waits + 1 \/ ~IsApdu
  PROVE  FewInv'
<1> USE DEF FewInv
<1>1. /\ pc = "read" /\ UNCHANGED <<call, txLen, isDeviceChaining, maxIFSC, wtxCnt, isSeqNumDR, rxList>>
      /\ pc' \in {"send", "done"} /\ (pc' = "done" => tx = "CIP_REQ")
  BY DEF ReadFails, RecoverUndecoded, Goto, Finish, session, command, received, cardInfo, seqs, AwaitsSResponse
<1>2. UNCHANGED <<cGot, waiting, waits, dirty, misled, adrift>>
  BY DEF card, ghost
<1>3. UNCHANGED ends
  BY DEF ReadFails, ends, seqs, received
<1>4. (Executed' <=> Executed) /\ (Owes' <=> Owes)
  BY <1>3, SameEnds
<1>5. CleanOK'
  BY <1>1, <1>2 DEF CleanOK
<1>6. IsApdu' <=> IsApdu
  BY <1>1 DEF IsApdu
<1>7. CASE IsApdu
  <2>1. tx \in {"I"} \cup Owing
    BY <1>1, <1>7 DEF OneApduOK, Inv, LinkInv, ApduOK, IsApdu, Exchanging, Resetting
  <2>2. ~AwaitsSResponse /\ pc' = "send"
    BY <1>1, <2>1 DEF AwaitsSResponse, Owing, RBlocks, SBlocks
  <2>3. \/ tx' = "R_PARITY" /\ ~isResyncRecoveryFlag'
        \/ tx' = "RESYNC_REQ" /\ isResyncRecoveryFlag'
    BY <2>2 DEF ReadFails, RecoverUndecoded, Goto, Finish
  <2>4. HitOK'
    BY <2>2, <2>3 DEF HitOK, Hit, HasAnswer, RBlocks
  <2>5. WaitOK'
    BY <1>1, <1>2, <1>4, <1>6, <1>7, <2>1, <2>2, <2>3
      DEF WaitOK, Exchanging, Owing, RBlocks, Resetting, Inv, TypeOK, ValuesOK
  <2>6. OneApduOK' /\ OneControlOK'
    BY <1>1, <1>2, <1>6, <1>7, <2>2, <2>3 DEF OneApduOK, OneControlOK, HasAnswer
  <2> QED
    BY <1>5, <2>4, <2>5, <2>6
<1>8. CASE ~IsApdu
  <2>1. tx \in Requests \cup {"CIP_REQ"} /\ AwaitsSResponse
    BY <1>1, <1>8 DEF OneControlOK, Exchanging, AwaitsSResponse, Requests, SBlocks
  <2>2. tx' \in Requests \cup {"CIP_REQ"} /\ ~isResyncRecoveryFlag'
    BY <2>1 DEF ReadFails, RecoverUndecoded, Goto, Finish
  <2>3. HitOK'
    BY <1>1, <2>2 DEF HitOK
  <2>4. WaitOK' /\ OneApduOK' /\ OneControlOK'
    BY <1>1, <1>2, <1>6, <1>8, <2>2 DEF WaitOK, OneApduOK, OneControlOK
  <2> QED
    BY <1>5, <2>3, <2>4
<1> QED
  BY <1>7, <1>8

LEMMA LostToDeviceStaysFew ==
  ASSUME Inv, FewInv, LoseToDevice, faults = 0
  PROVE  FewInv'
<1>1. ReadFails /\ line' = Silence /\ UNCHANGED <<callNo, card, ghost>> /\ faults' = 1
  BY DEF LoseToDevice, Fault
<1>2. ~isResyncRecoveryFlag
  BY DEF FewInv, HitOK
<1>3. pc = "read" /\ waits \in Nat /\ wtxCnt \in Nat
  BY <1>1, T1LinkAssumption DEF ReadFails, FewInv, WaitOK, Inv, TypeOK, ValuesOK
<1>4. IsApdu => tx \notin Resetting
  BY <1>3 DEF FewInv, OneApduOK, Exchanging, Resetting
<1>5. waiting => wtxCnt < waits + 1 \/ ~IsApdu
  BY <1>3, <1>4 DEF FewInv, WaitOK, Exchanging
<1> QED
  BY <1>1, <1>2, <1>5, ReadFailsStaysFew

LEMMA PollsUsedUpStaysFew ==
  ASSUME Inv, FewInv, PollsUsedUp
  PROVE  FewInv'
<1>1. /\ ReadFails /\ pc = "read" /\ line = Silence /\ line' = Silence
      /\ UNCHANGED <<callNo, card, ghost>> /\ faults' = faults
  BY DEF PollsUsedUp, NoFault, ReadFails
<1>2. ~isResyncRecoveryFlag /\ faults = 1
  BY <1>1 DEF FewInv, HitOK, Hit
<1>3. IsApdu /\ tx = "RESYNC_REQ" => isResyncRecoveryFlag
  BY <1>1 DEF FewInv, OneApduOK, Exchanging
<1>4. IsApdu => tx \notin Resetting
  BY <1>1, <1>2, <1>3 DEF FewInv, OneApduOK, Exchanging, Resetting
<1>5. ~Unread
  BY <1>1, LineShape DEF Unread
<1>6. waiting => wtxCnt < waits + 1 \/ ~IsApdu
  BY <1>1, <1>2, <1>4, <1>5 DEF FewInv, WaitOK, Exchanging
<1> QED
  BY <1>1, <1>2, <1>6, ReadFailsStaysFew

LEMMA CardStepStaysFew ==
  ASSUME Inv, LinkInv', FewInv, faults \in Nat, CardStep
  PROVE  FewInv'
<1>1. line = ToCard /\ UNCHANGED vars /\ UNCHANGED <<faults, callNo>>
  BY DEF CardStep
<1>2. ~TakesOutOfSequence
  BY <1>1, WireShape, Phases DEF TakesOutOfSequence, FewInv
<1> QED
  BY <1>1, <1>2, TakesPieceStaysFew, ExecutesStaysFew, ContinuesStaysFew, RepeatsStaysFew,
     ResetsStaysFew, HasWaitedStaysFew, AnswersRequestStaysFew DEF CardStep

\* An answer is read: what is known of it, and what it leaves alone.
LEMMA ReadByDevice ==
  ASSUME Inv, FewInv, Deliver
  PROVE  /\ HasAnswer /\ pc = "read" /\ line' = Silence /\ Drifts /\ ~Unread
         /\ UNCHANGED <<call, txLen, faults, callNo>> /\ (IsApdu' <=> IsApdu)
         /\ UNCHANGED <<cExp, cNS, cGot, cSent, cCall, waiting, waits, dirty, misled>>
         /\ IsApdu => tx \in {"I", "RESYNC_REQ"} \cup Owing
         /\ IsApdu /\ tx = "RESYNC_REQ" => line = S("RESYNC_RSP") /\ isResyncRecoveryFlag /\ faults = 1
         /\ ~IsApdu => tx \in Requests \cup {"CIP_REQ"}
<1> USE DEF FewInv
<1>1. /\ HasAnswer /\ pc = "read" /\ line' = Silence /\ Drifts
      /\ UNCHANGED <<call, faults, callNo>> /\ txLen' = txLen
      /\ UNCHANGED <<cExp, cNS, cGot, cSent, cCall, waiting, waits, dirty, misled>>
  <2>1. pc = "read" /\ UNCHANGED call /\ txLen' = txLen
    <3>1. CASE RecvI(line, TRUE)
      BY <3>1 DEF RecvI, session
    <3>2. CASE RecvR(line)
      BY <3>2 DEF RecvR, session
    <3>3. CASE RecvS(line)
      BY <3>3 DEF Deliver, RecvS, session, RecvResyncRsp, RecvIfsReq, RecvIfsRsp, RecvAbort,
         RecvWtxReq, RecvAtr, RecvOtherS, ResetForResyncRsp, command
    <3> QED
      BY <3>1, <3>2, <3>3 DEF Deliver, Receive
  <2> QED
    BY <2>1 DEF Deliver, NoFault, card
<1>2. ~Unread
  BY <1>1 DEF Unread, HasAnswer
<1>3. IsApdu => tx \in {"I", "RESYNC_REQ"} \cup Owing
  BY <1>1 DEF Inv, LinkInv, ApduOK, OneApduOK, IsApdu, Exchanging, Resetting
<1>4. IsApdu /\ tx = "RESYNC_REQ" => line = S("RESYNC_RSP") /\ isResyncRecoveryFlag /\ faults = 1
  BY <1>1 DEF OneApduOK, Exchanging
<1>5. ~IsApdu => tx \in Requests \cup {"CIP_REQ"}
  BY <1>1 DEF OneControlOK, Exchanging
<1> QED
  BY <1>1, <1>2, <1>3, <1>4, <1>5 DEF IsApdu

LEMMA RecvIStaysFew ==
  ASSUME Inv, LinkInv', FewInv, Deliver, RecvI(line, TRUE)
  PROVE  FewInv'
<1> USE DEF FewInv
<1>1. /\ line.type = "I" /\ wtxCnt' = 0 /\ ~isSeqNumDR' /\ UNCHANGED <<isDeviceChaining, maxIFSC>>
      /\ ~RecvWrongI(line) => RecvChainedI(line, TRUE) \/ RecvLastI(line, TRUE)
  BY DEF RecvI, cardInfo
<1>2. /\ line.seq = 1 - cNS /\ line.more = (cSent < RspBlocks)
      /\ cSent \in 1..RspBlocks /\ ~waiting /\ tx \in {"I"} \cup Owing
      /\ call = "APDU" => Executed /\ seqNumCard # cNS
  BY <1>1, ReadByDevice, IBlockRead DEF CleanOK
<1>3. IsApdu /\ Executed /\ seqNumDevice # cExp
  BY <1>2, ReadByDevice, Phases DEF IsApdu, Requests, Owing, RBlocks
<1>4. ~RecvWrongI(line)
  BY <1>2, <1>3, ReadByDevice, ReadingCall DEF RecvWrongI, ExpectedSeq, CleanOK, IsApdu
<1>5. CleanOK'
  BY <1>1, NoDrift, ReadByDevice DEF CleanOK
<1>6. recoveryCnt' = 0 /\ isResyncRecoveryFlag' = FALSE
  BY <1>1, <1>4 DEF RecvChainedI, RecvLastI
<1>7. CASE RecvChainedI(line, TRUE)
  <2>1. pc' = "send" /\ tx' = "R_ACK" /\ UNCHANGED seqNumDevice
    BY <1>7 DEF RecvChainedI, Goto
  <2>2. Executed'
    <3>1. Open' \/ Taken' \/ Executed'
      BY <2>1, <1>3, ReadByDevice DEF LinkInv, ApduOK, IsApdu, Exchanging, Resetting
    <3>2. ~Open' /\ ~Taken'
      BY <1>2, <1>3, <1>5, <2>1, ReadByDevice DEF Open, Taken, InTouch, CleanOK
    <3> QED
      BY <3>1, <3>2
  <2>3. ~Hit'
    BY <2>1, <2>2, ReadByDevice DEF Hit, HasAnswer
  <2>4. HitOK'
    BY <1>6, <2>3 DEF HitOK
  <2>5. WaitOK'
    BY <1>1, <1>2, <2>1, ReadByDevice DEF WaitOK
  <2>6. OneApduOK' /\ OneControlOK'
    BY <1>1, <1>3, <2>1, ReadByDevice DEF OneApduOK, OneControlOK
  <2> QED
    BY <1>5, <2>4, <2>5, <2>6
<1>8. CASE RecvLastI(line, TRUE)
  <2>1. pc' = "done" /\ status' = "SUCCESS" /\ rxList' = Append(rxList, line.inf)
    BY <1>8 DEF RecvLastI, Finish, Store
  <2>2. rxList' # <<>>
    <3>1. rxList \in Seq(Inf) /\ line.inf \in Inf
      BY <1>1, ReadByDevice, IBlockInf DEF Inv, TypeOK, ValuesOK
    <3> QED
      BY <2>1, <3>1, AppendProperties
  <2>3. ~Hit'
    BY <2>1, ReadByDevice DEF Hit, HasAnswer, Exchanging
  <2>4. HitOK'
    BY <1>6, <2>3 DEF HitOK
  <2>5. WaitOK'
    BY <1>1, <1>2, <2>1, ReadByDevice DEF WaitOK, Exchanging
  <2>6. OneApduOK' /\ OneControlOK'
    BY <1>1, <1>2, <1>3, <2>1, <2>2, ReadByDevice DEF OneApduOK, OneControlOK, Exchanging
  <2> QED
    BY <1>5, <2>4, <2>5, <2>6
<1> QED
  BY <1>1, <1>4, <1>7, <1>8

LEMMA RecvRStaysFew ==
  ASSUME Inv, FewInv, Deliver, RecvR(line)
  PROVE  FewInv'
<1> USE DEF FewInv
<1>1. /\ line.type = "R" /\ RAnswer
      /\ UNCHANGED <<isDeviceChaining, maxIFSC, wtxCnt, rxList, isCardChaining>>
  BY ReadByDevice DEF RecvR, cardInfo, received, Inv, LinkInv, LineOK
<1>2. line.err \in {"ack", "parity"} /\ line.seq = cExp
      /\ (line.err = "ack" => IsApdu /\ (Taken \/ (Open /\ cGot > 0)))
  BY <1>1, Phases DEF RAnswer
<1>3. tx # "RESYNC_REQ"
  BY <1>1, ReadByDevice DEF S, Requests
<1>4. CASE RecvAckOfPart(line)
  <2>1. /\ IsApdu /\ line.err = "ack" /\ cExp # seqNumDevice /\ pc' = "send" /\ tx' = "I"
        /\ UNCHANGED <<recoveryCnt, isSeqNumDR, isResyncRecoveryFlag>>
    BY <1>2, <1>4 DEF RecvAckOfPart, Goto
  <2>2. Taken /\ ~waiting /\ ~Owes
    BY <1>2, <2>1, Phases
  <2>3. wtxCnt = 0
    BY <1>3, <2>1, <2>2, ReadByDevice DEF WaitOK, Exchanging, Resetting, Owing, RBlocks
  <2>4. CleanOK'
    BY <1>1, <2>1, NoDrift, ReadByDevice DEF CleanOK
  <2>5. HitOK'
    BY <2>1, ReadByDevice DEF HitOK, Hit, HasAnswer, RBlocks
  <2>6. WaitOK'
    BY <1>1, <2>1, <2>2, <2>3, ReadByDevice DEF WaitOK
  <2>7. OneApduOK' /\ OneControlOK'
    BY <1>1, <2>1, ReadByDevice DEF OneApduOK, OneControlOK
  <2> QED
    BY <2>4, <2>5, <2>6, <2>7
<1>5. CASE RecvUnexpectedAck(line)
  <2>1. /\ IsApdu /\ ~isDeviceChaining /\ line.err = "ack" /\ pc' = "done" /\ status' = "FAILED"
        /\ UNCHANGED <<recoveryCnt, isSeqNumDR, isResyncRecoveryFlag>>
    BY <1>2, <1>5 DEF RecvUnexpectedAck, Finish, seqs
  <2>2. Open /\ cGot > 0 /\ rxList = <<>> /\ ~waiting
    BY <1>2, <2>1, Phases DEF Taken
  <2>3. CleanOK'
    BY <1>1, <2>1, NoDrift, ReadByDevice DEF CleanOK
  <2>4. HitOK'
    BY <2>1, ReadByDevice DEF HitOK, Hit, HasAnswer, Exchanging
  <2>5. WaitOK'
    BY <1>1, <2>1, <2>2, ReadByDevice DEF WaitOK, Exchanging
  <2>6. OneApduOK' /\ OneControlOK'
    BY <1>1, <2>1, <2>2, ReadByDevice DEF OneApduOK, OneControlOK, Exchanging
  <2> QED
    BY <2>3, <2>4, <2>5, <2>6
<1>6. CASE /\ line.err = "ack" => IsApdu /\ isDeviceChaining /\ line.seq = seqNumDevice
           /\ RetryR(line) \/ ExhaustedR(line)
  <2>1. Hit
    BY <1>1, <1>2, <1>6, ReadByDevice, Phases DEF Hit
  <2>2. faults = 1 /\ faults' = 1 /\ ~isResyncRecoveryFlag
    BY <2>1, ReadByDevice DEF HitOK
  <2>3. /\ UNCHANGED seqs /\ pc' \in {"send", "done"}
        /\ pc' = "done" => ~IsApdu
        /\ pc' = "send" /\ IsApdu =>
             \/ tx' \in RBlocks \cup {"I"} /\ ~isResyncRecoveryFlag'
             \/ tx' = "RESYNC_REQ" /\ isResyncRecoveryFlag'
        /\ pc' = "send" /\ ~IsApdu => tx' = tx /\ ~isResyncRecoveryFlag'
    <3>1. CASE RetryR(line)
      <4>1. CASE IsApdu /\ tx \notin RBlocks
        <5>1. AnswerR(line) /\ ~isResyncRecoveryFlag'
          BY <2>2, <3>1, <4>1 DEF RetryR
        <5>2. CASE line.err = "ack"
          BY <4>1, <5>1, <5>2 DEF AnswerR, Goto, RBlocks
        <5>3. CASE line.err = "parity"
          BY <4>1, <5>1, <5>3 DEF AnswerR, Goto, RBlocks
        <5> QED
          BY <1>2, <5>2, <5>3
      <4>2. CASE IsApdu /\ tx \in RBlocks
        BY <2>2, <3>1, <4>2 DEF RetryR, Goto
      <4>3. CASE ~IsApdu
        <5>1. tx \in SBlocks /\ tx \notin RBlocks
          BY <4>3, ReadByDevice DEF Requests, SBlocks, RBlocks
        <5> QED
          BY <2>2, <3>1, <4>3, <5>1 DEF RetryR, Goto
      <4> QED
        BY <4>1, <4>2, <4>3
    <3>2. CASE ExhaustedR(line)
      BY <2>2, <3>2 DEF ExhaustedR, Goto, Finish
    <3> QED
      BY <1>6, <3>1, <3>2
  <2>4. UNCHANGED ends
    BY <1>1, <2>3, NoDrift, ReadByDevice DEF ends, seqs, card, ghost, Deliver
  <2>5. Owes' <=> Owes
    BY <2>4, SameEnds
  <2>6. CleanOK'
    BY <1>1, <2>3, NoDrift, ReadByDevice DEF CleanOK, seqs
  <2>7. HitOK'
    BY <2>2, <2>3, ReadByDevice DEF HitOK, Hit, HasAnswer, RBlocks, Exchanging
  <2>8. WaitOK'
    BY <1>1, <1>3, <2>2, <2>3, <2>5, ReadByDevice
      DEF WaitOK, Exchanging, Resetting, Owing, RBlocks
  <2>9. OneApduOK'
    BY <1>1, <2>2, <2>3, ReadByDevice DEF OneApduOK, HasAnswer, RBlocks
  <2>10. OneControlOK'
    BY <1>1, <2>3, ReadByDevice DEF OneControlOK, Exchanging
  <2> QED
    BY <2>6, <2>7, <2>8, <2>9, <2>10
<1> QED
  BY <1>4, <1>5, <1>6 DEF RecvR

LEMMA RecvSStaysFew ==
  ASSUME Inv, FewInv, faults \in Nat, faults <= 1, MaxWait <= MaxWTXCnt, Deliver, RecvS(line)
  PROVE  FewInv'
<1> USE DEF FewInv
<1>1. /\ line.type = "S" /\ SAnswer
      /\ line.sub # "RESYNC_RSP" => isResyncRecoveryFlag' = FALSE
  BY ReadByDevice DEF RecvS, Inv, LinkInv, LineOK
<1>2. /\ line.sub \in {"WTX_REQ", "RESYNC_RSP", "CIP_RSP", "END_RSP", "ATR_RSP"}
      /\ line.sub = "WTX_REQ" => RecvWtxReq /\ adrift' = adrift
      /\ line.sub = "RESYNC_RSP" => RecvResyncRsp /\ adrift' = (call # "APDU")
      /\ line.sub = "CIP_RSP" => RecvAtr(line) /\ adrift' = FALSE
      /\ line.sub = "END_RSP" => RecvOtherS /\ adrift' = adrift
      /\ line.sub = "ATR_RSP" => RecvAtr(line) /\ adrift' = adrift
  BY <1>1, ReadByDevice, SBlockCases
<1>3. CASE line.sub = "WTX_REQ"
  <2>1. waiting /\ seqNumDevice # cExp /\ cGot = 0
    BY <1>1, <1>3 DEF SAnswer, Inv, LinkInv, CardOK
  <2>2. IsApdu /\ tx \notin Resetting /\ ~isResyncRecoveryFlag'
    <3>1. IsApdu /\ ~isResyncRecoveryFlag'
      BY <1>1, <1>3, <2>1 DEF OneControlOK
    <3>2. tx # "RESYNC_REQ"
      BY <1>3, <3>1, ReadByDevice DEF S
    <3> QED
      BY <3>1, <3>2, ReadByDevice DEF Resetting, Owing, RBlocks
  <2>3. wtxCnt < waits + faults /\ wtxCnt \in Nat /\ waits \in Nat /\ waits <= MaxWait
    <3>1. wtxCnt \in Nat /\ waits \in Nat /\ waits <= MaxWait
      BY T1LinkAssumption DEF WaitOK, Inv, TypeOK, ValuesOK
    <3>2. wtxCnt < waits + faults
      BY <2>1, <2>2, ReadByDevice DEF WaitOK, Exchanging
    <3> QED
      BY <3>1, <3>2
  <2>4. wtxCnt <= MaxWTXCnt
    BY <2>3, T1Assumption, T1LinkAssumption
  <2>5. /\ wtxCnt' = wtxCnt + 1 /\ pc' = "send" /\ tx' = "WTX_RSP"
        /\ UNCHANGED <<isDeviceChaining, maxIFSC, isSeqNumDR, recoveryCnt>>
    BY <1>2, <1>3, <2>4 DEF RecvWtxReq, Goto, seqs, cardInfo, command
  <2>6. CleanOK'
    BY <1>2, <1>3, <2>5, ReadByDevice DEF CleanOK
  <2>7. HitOK'
    BY <2>2, <2>5, ReadByDevice DEF HitOK, Hit, HasAnswer, RBlocks
  <2>8. Owes'
    BY <1>2, <1>3, <2>1, ReadByDevice DEF Owes, RecvWtxReq, seqs
  <2>9. WaitOK'
    <3>1. UNCHANGED <<waits, waiting, faults>> /\ Unread'
      BY <2>5, ReadByDevice DEF Unread
    <3>2. wtxCnt' <= waits' + faults'
      BY <2>3, <2>5, <3>1
    <3>3. waits' \in 0..MaxWait
      BY <2>3, <3>1, T1LinkAssumption
    <3> QED
      BY <2>1, <2>5, <2>8, <3>1, <3>2, <3>3 DEF WaitOK
  <2>10. OneApduOK' /\ OneControlOK'
    BY <2>2, <2>5, ReadByDevice DEF OneApduOK, OneControlOK
  <2> QED
    BY <2>6, <2>7, <2>9, <2>10
<1>4. CASE line.sub = "RESYNC_RSP"
  <2>1. tx = "RESYNC_REQ" /\ Fresh
    BY <1>1, <1>4 DEF SAnswer
  <2>2. IsApdu /\ faults = 1 /\ cGot = 0 /\ ~waiting
    BY <2>1, ReadByDevice DEF Requests, Fresh
  <2>3. /\ ResetForResyncRsp /\ pc' = "send" /\ tx' = "I" /\ adrift' = FALSE
        /\ UNCHANGED isResyncRecoveryFlag
    BY <1>2, <1>4, <2>2 DEF RecvResyncRsp, Goto, IsApdu
  <2>4. wtxCnt' = 0 /\ isDeviceChaining' = FALSE /\ UNCHANGED isSeqNumDR
    BY <2>3 DEF ResetForResyncRsp
  <2>5. CleanOK'
    BY <2>3, <2>4, ReadByDevice DEF CleanOK
  <2>6. HitOK'
    BY <2>2, <2>3, ReadByDevice DEF HitOK, Hit, HasAnswer, RBlocks
  <2>7. WaitOK'
    BY <2>2, <2>3, <2>4, ReadByDevice DEF WaitOK
  <2>8. OneApduOK' /\ OneControlOK'
    BY <2>2, <2>3, <2>4, ReadByDevice DEF OneApduOK, OneControlOK
  <2> QED
    BY <2>5, <2>6, <2>7, <2>8
<1>5. CASE line.sub \in {"CIP_RSP", "END_RSP", "ATR_RSP"}
  <2>1. tx \in Requests \cup {"CIP_REQ"}
    BY <1>1, <1>5 DEF SAnswer, Requests
  <2>2. ~IsApdu /\ ~waiting /\ rxList = <<>>
    BY <2>1, ReadByDevice DEF OneControlOK, Requests, Owing, RBlocks
  <2>3. /\ pc' = "done" /\ ~isResyncRecoveryFlag' /\ UNCHANGED isSeqNumDR /\ ~adrift'
        /\ recoveryCnt' \in {0, recoveryCnt} /\ rxList' = <<>>
    BY <1>1, <1>2, <1>5, <2>2
      DEF RecvAtr, RecvOtherS, ResetForResyncRsp, Finish, seqs, retries, received, CleanOK
  <2>4. CleanOK'
    BY <2>3, ReadByDevice DEF CleanOK
  <2>5. HitOK'
    BY <2>3, ReadByDevice DEF HitOK, Hit, HasAnswer, Exchanging
  <2>6. WaitOK' /\ OneApduOK' /\ OneControlOK'
    BY <2>2, <2>3, ReadByDevice DEF WaitOK, OneApduOK, OneControlOK, Exchanging
  <2> QED
    BY <2>4, <2>5, <2>6
<1> QED
  BY <1>2, <1>3, <1>4, <1>5

LEMMA StutterStaysFew ==
  ASSUME FewInv, UNCHANGED linkVars
  PROVE  FewInv'
<1>1. UNCHANGED <<line, faults, callNo>> /\ UNCHANGED <<card, ghost>> /\ UNCHANGED vars
  BY DEF linkVars
<1>2. /\ UNCHANGED <<cGot, cSent, waiting, waits, dirty, misled, adrift>>
      /\ UNCHANGED <<call, pc, tx, txLen, isDeviceChaining, maxIFSC, isSeqNumDR, rxList, status>>
      /\ UNCHANGED <<wtxCnt, recoveryCnt, isResyncRecoveryFlag>>
  BY <1>1 DEF card, ghost, vars, session, command, received, seqs, retries, cardInfo
<1>3. UNCHANGED ends /\ Start' = Start
  BY <1>1, RestUnchanged DEF ends, Start
<1>4. (Executed' <=> Executed) /\ (Owes' <=> Owes) /\ (Taken' <=> Taken)
  BY <1>1, <1>3, SameEnds, RestUnchanged
<1>5. CleanOK' /\ OneApduOK' /\ OneControlOK'
  BY <1>1, <1>2 DEF FewInv, CleanOK, OneApduOK, OneControlOK, IsApdu, Exchanging, HasAnswer
<1>6. HitOK'
  BY <1>1, <1>2, <1>4 DEF FewInv, HitOK, Hit, HasAnswer, IsApdu, Exchanging
<1>7. WaitOK'
  BY <1>1, <1>2, <1>4 DEF FewInv, WaitOK, IsApdu, Exchanging, Unread
<1> QED
  BY <1>5, <1>6, <1>7 DEF FewInv

LEMMA OneInvStep ==
  ASSUME Inv, Inv', OneInv, ResetAfterFailure, MaxWait <= MaxWTXCnt, [LinkNext]_linkVars
  PROVE  OneInv'
<1> USE DEF OneInv
<1>1. /\ faults' \in Nat /\ hostFaults' \in Nat
      /\ Few' => Few
      /\ HostFault => ~Few'
      /\ (LoseToCard \/ GarbleToCard \/ LoseToDevice) /\ Few' => faults = 0
  <2>1. LoseToCard \/ GarbleToCard \/ LoseToDevice =>
          faults' = faults + 1 /\ hostFaults' = hostFaults
    BY DEF LoseToCard, GarbleToCard, LoseToDevice, Fault
  <2>2. HostFault => faults' = faults /\ hostFaults' = hostFaults + 1
    BY DEF HostFault
  <2>3. LinkBegin \/ Exchange \/ UNCHANGED linkVars =>
          faults' = faults /\ hostFaults' = hostFaults
    BY DEF LinkBegin, Exchange, LinkSend, CardStep, Deliver, PollsUsedUp, LinkReturn,
       NoFault, linkVars
  <2> QED
    BY <2>1, <2>2, <2>3 DEF LinkNext, Few
<1>2. SUFFICES ASSUME Few' PROVE FewInv'
  BY <1>1
<1>3. FewInv /\ faults \in Nat /\ faults <= 1 /\ LinkInv'
  BY <1>1, <1>2 DEF Few, Inv
<1>4. ASSUME Deliver PROVE FewInv'
  BY <1>3, <1>4, RecvIStaysFew, RecvRStaysFew, RecvSStaysFew DEF Deliver, Receive
<1>5. ASSUME Exchange PROVE FewInv'
  BY <1>3, <1>4, <1>5, SendStaysFew, CardStepStaysFew, PollsUsedUpStaysFew, ReturnStaysFew
    DEF Exchange
<1> QED
  BY <1>1, <1>2, <1>3, <1>5, BeginStaysFew, FaultStaysFew, LostToDeviceStaysFew, StutterStaysFew
    DEF LinkNext

\* One lost or garbled block, in whichever direction and at whichever point,
\* is invisible to the caller of a command that fits one block, for all limits
\* of the retries: the caller must reset the card after a failed exchange, and
\* the card must not ask for more waiting time than the device grants.
THEOREM OneFaultIsMaskedHolds ==
  ResetAfterFailure /\ MaxWait <= MaxWTXCnt => (LinkSpec => OneFaultIsMasked)
<1> DEFINE Masked == call = "APDU" /\ call' = "none" /\ faults <= 1 /\ hostFaults = 0
                       /\ txLen <= maxIFSC => rsp'.ok
<1>1. SUFFICES ASSUME ResetAfterFailure, MaxWait <= MaxWTXCnt PROVE LinkSpec => OneFaultIsMasked
  OBVIOUS
<1>2. LinkSpec => []Inv
  BY <1>1, LinkInvAlways, PTL
<1>3. Inv /\ Inv' /\ OneInv /\ [LinkNext]_linkVars => OneInv'
  BY <1>1, OneInvStep
<1>4. LinkSpec => []OneInv
  BY <1>2, <1>3, OneInit, PTL DEF LinkSpec
<1>5. Inv /\ OneInv /\ [LinkNext]_linkVars => [Masked]_linkVars
  <2>1. SUFFICES ASSUME Inv, OneInv, LinkNext, call = "APDU", call' = "none",
                        faults <= 1, hostFaults = 0, txLen <= maxIFSC
                 PROVE  rsp'.ok
    OBVIOUS
  <2>2. FewInv
    BY <2>1 DEF OneInv, Few
  <2>3. CASE LinkReturn
    BY <2>1, <2>2, <2>3, ReturnStaysFew DEF IsApdu
  <2>4. CASE ~LinkReturn
    <3>1. call' = call \/ call' # "none"
      <4>1. CASE LinkBegin
        BY <4>1, <2>1 DEF LinkBegin, BeginApdu, BeginControl, NewT1Params, Inv, TypeOK, ValuesOK
      <4>2. CASE Deliver
        BY <2>2, <2>1, <4>2, ReadByDevice
      <4>3. CASE HostFault
        <5>1. CASE HasAnswer /\ Receive(line, FALSE)
          BY <5>1 DEF Receive, RecvI, RecvR, RecvS, session
        <5> QED
          BY <4>3, <5>1 DEF HostFault, SendFails, SendIFrameNoMemory, ReadInterrupted,
             SendUnchanged, session
      <4>4. CASE CardStep \/ LoseToCard \/ GarbleToCard
        BY <4>4, RestUnchanged DEF CardStep, LoseToCard, GarbleToCard
      <4>5. CASE LinkSend \/ PollsUsedUp \/ LoseToDevice
        BY <4>5 DEF LinkSend, Send, SendUnchanged, PollsUsedUp, LoseToDevice, ReadFails, session
      <4> QED
        BY <2>1, <2>4, <4>1, <4>2, <4>3, <4>4, <4>5 DEF LinkNext, Exchange
    <3> QED
      BY <2>1, <3>1
  <2> QED
    BY <2>3, <2>4
<1> QED
  BY <1>2, <1>4, <1>5, PTL DEF LinkSpec, OneFaultIsMasked

=============================================================================
