-------------------------------- MODULE T1Link --------------------------------
(***************************************************************************)
(* T1 against a card that follows ISO 7816-3, over a line that may lose or *)
(* garble blocks in both directions.  The line is half duplex: a block is  *)
(* on its way to the card, or the card's answer is on its way back.        *)
(*                                                                         *)
(* The card is outside the repository.  It is the peer the recovery rules  *)
(* of T1.c:1414-1463 are written against: it answers an I-block in         *)
(* sequence, repeats its last block when asked to, reports an unusable     *)
(* block with an R-block, and asks for waiting time.                       *)
(***************************************************************************)
EXTENDS T1

CONSTANTS
  MaxCalls,     \* bound: exchanges started
  MaxFaults,    \* bound: faults of the line
  MaxHostFaults, \* bound: failures of the host's own read, write and memory
  MaxWait,      \* bound: waiting time requests per command
  RspBlocks,    \* I-blocks in every response
  ResetAfterFailure  \* the caller resets the card after a failed exchange

ASSUME T1LinkAssumption ==
  /\ MaxCalls \in Nat /\ MaxFaults \in Nat /\ MaxWait \in Nat
  /\ RspBlocks \in Nat \ {0} /\ MaxHostFaults \in Nat
  /\ ResetAfterFailure \in BOOLEAN
  /\ [call : 1..MaxCalls, n : 1..RspBlocks] \subseteq Inf

VARIABLES
  line,       \* ToCard, Silence, or the card's block to the device
  faults, hostFaults, callNo,
  cExp,       \* N(S) the card expects
  cNS,        \* N(S) of the card's next new I-block
  cGot,       \* how much of the command the card has assembled
  cSent,      \* response blocks sent so far; 0 while it takes a command
  cCall,      \* the exchange whose command was executed last
  waiting, waits, \* an S(WTX request) is open; how many were made
  execs,      \* times the current command was executed
  resets,     \* resynchronisations and warm resets during this exchange
  intact,     \* every executed command was complete and in order
  dirty,      \* the exchange began with blocks left in the receive list
  misled,     \* such an exchange has returned them
  adrift      \* the card was resynchronised last in a control exchange

card  == <<cExp, cNS, cGot, cSent, cCall, waiting, waits>>
ghost == <<execs, resets, intact, dirty, misled, adrift>>
linkVars == <<vars, line, faults, hostFaults, callNo, card, ghost>>

ToCard == [type |-> "toCard"]    \* the device's block is on its way
Silence == [type |-> "silence"]  \* nothing to read for the device
HasAnswer == line \notin {ToCard, Silence}

LinkInit ==
  /\ Init
  /\ line = Silence /\ faults = 0 /\ hostFaults = 0 /\ callNo = 0
  /\ cExp = 0 /\ cNS = 0 /\ cGot = 0 /\ cSent = 0 /\ cCall = 0
  /\ waiting = FALSE /\ waits = 0
  /\ execs = 0 /\ resets = 0 /\ intact = TRUE /\ dirty = FALSE
  /\ misled = FALSE /\ adrift = FALSE

-----------------------------------------------------------------------------
\* The card.
R(err) == [type |-> "R", seq |-> cExp, err |-> err]
S(sub) == [type |-> "S", sub |-> sub]
Atr(sub) == {[type |-> "S", sub |-> sub, valid |-> TRUE, ifsc |-> n,
              ext |-> FALSE] : n \in IFSCs \ {0}}

\* Response block n of the last executed command, with sequence number s.
RspBlock(s, c, n) == [type |-> "I", seq |-> s, more |-> n < RspBlocks,
                      inf |-> [call |-> c, n |-> n]]

SendNew(c, n) ==
  /\ line' = RspBlock(cNS, c, n) /\ cNS' = 1 - cNS /\ cSent' = n

AskToWait == waits < MaxWait /\ waiting' = TRUE /\ waits' = waits + 1
             /\ line' = S("WTX_REQ") /\ UNCHANGED <<cNS, cSent>>

\* It acknowledges a piece, and executes the command with the last one.
TakesPiece ==
  /\ Wire.kind = "I" /\ Wire.seq = cExp /\ Wire.more
  /\ cExp' = 1 - cExp
  /\ cGot' = Wire.to /\ cSent' = 0
  /\ intact' = (intact /\ Wire.from = cGot)
  /\ line' = [R("ack") EXCEPT !.seq = 1 - cExp]
  /\ UNCHANGED <<cNS, cCall, waiting, waits, execs, resets, dirty, misled, adrift>>

Executes ==
  /\ Wire.kind = "I" /\ Wire.seq = cExp /\ ~Wire.more
  /\ cExp' = 1 - cExp
  /\ cGot' = 0 /\ cCall' = callNo /\ execs' = execs + 1
  /\ intact' = (intact /\ Wire.from = cGot /\ Wire.to = txLen)
  /\ \/ AskToWait
     \/ SendNew(callNo, 1) /\ waiting' = FALSE /\ waits' = 0
  /\ UNCHANGED <<resets, dirty, misled, adrift>>

TakesOutOfSequence ==
  /\ Wire.kind = "I" /\ Wire.seq # cExp
  /\ line' = R("other")
  /\ UNCHANGED <<card, ghost>>

\* An R-block asks for the next response block, or for the last block again.
Continues ==
  /\ Wire.kind \in RBlocks /\ ~waiting
  /\ cSent \in 1..(RspBlocks - 1) /\ Wire.seq = cNS
  /\ SendNew(cCall, cSent + 1)
  /\ UNCHANGED <<cExp, cGot, cCall, waiting, waits, ghost>>

Repeats ==
  /\ Wire.kind \in RBlocks
  /\ waiting \/ cSent = 0 \/ cSent = RspBlocks \/ Wire.seq # cNS
  /\ line' = IF waiting THEN S("WTX_REQ")
             ELSE IF cSent > 0 /\ Wire.seq # cNS
                  THEN RspBlock(1 - cNS, cCall, cSent)
             ELSE IF cGot > 0 THEN R("ack") ELSE R("parity")
  /\ UNCHANGED <<card, ghost>>

IsReset == Wire.kind \in {"RESYNC_REQ", "CIP_REQ"}

Resets ==
  /\ IsReset
  /\ cExp' = 0 /\ cNS' = 0 /\ cGot' = 0 /\ cSent' = 0
  /\ waiting' = FALSE /\ waits' = 0 /\ resets' = 1
  /\ line' \in IF Wire.kind = "CIP_REQ" THEN Atr("CIP_RSP")
               ELSE {S("RESYNC_RSP")}
  /\ UNCHANGED <<cCall, execs, intact, dirty, misled, adrift>>

HasWaited ==
  /\ Wire.kind = "WTX_RSP" /\ waiting
  /\ \/ AskToWait
     \/ /\ SendNew(cCall, 1)
        /\ waiting' = FALSE /\ waits' = 0
  /\ UNCHANGED <<cExp, cGot, cCall, ghost>>

AnswersRequest ==
  /\ \/ Wire.kind = "END_REQ" /\ line' = S("END_RSP")
     \/ Wire.kind = "ATR_REQ" /\ line' \in Atr("ATR_RSP")
     \/ Wire.kind = "WTX_RSP" /\ ~waiting /\ line' = R("other")
  /\ UNCHANGED <<card, ghost>>

CardStep ==
  /\ line = ToCard
  /\ \/ TakesPiece \/ Executes \/ TakesOutOfSequence
     \/ Continues \/ Repeats \/ Resets \/ HasWaited \/ AnswersRequest
  /\ UNCHANGED <<vars, faults, hostFaults, callNo>>

-----------------------------------------------------------------------------
\* The line and the host's faults.
Fault == faults < MaxFaults /\ faults' = faults + 1 /\ UNCHANGED <<hostFaults, callNo>>
NoFault == UNCHANGED <<faults, hostFaults, callNo>>

LoseToCard ==
  /\ line = ToCard /\ line' = Silence /\ Fault
  /\ UNCHANGED <<vars, card, ghost>>

\* The card sees a wrong LRC and reports it, or repeats an open request.
GarbleToCard ==
  /\ line = ToCard /\ Fault
  /\ \/ line' = R("parity")
     \/ waiting /\ line' = S("WTX_REQ")
  /\ UNCHANGED <<vars, card, ghost>>

\* The answer is lost, or arrives with a wrong LRC.
LoseToDevice ==
  /\ HasAnswer /\ line' = Silence /\ Fault
  /\ ReadFails /\ UNCHANGED <<card, ghost>>

\* A control exchange ends with an S(RESYNC response) and the device keeps
\* its sequence numbers; a command and an S(CIP response) clear them.
Drifts ==
  adrift' = IF line \in {S("RESYNC_RSP")} \cup Atr("CIP_RSP")
            THEN line = S("RESYNC_RSP") /\ ~IsApdu ELSE adrift

Deliver ==
  /\ HasAnswer /\ line' = Silence /\ NoFault
  /\ Receive(line, TRUE) /\ Drifts
  /\ UNCHANGED <<card, execs, resets, intact, dirty, misled>>

\* No answer: the polls are used up.
PollsUsedUp ==
  /\ line = Silence /\ ReadFails /\ NoFault
  /\ UNCHANGED <<line, card, ghost>>

LinkSend ==
  /\ Send /\ line' = ToCard /\ NoFault
  /\ UNCHANGED <<card, ghost>>

HostFault ==
  /\ hostFaults < MaxHostFaults /\ hostFaults' = hostFaults + 1
  /\ UNCHANGED <<faults, callNo>>
  /\ \/ SendFails /\ UNCHANGED line
     \/ SendIFrameNoMemory /\ UNCHANGED line
     \/ ReadInterrupted /\ line' = Silence
     \/ /\ HasAnswer /\ line' = Silence
        /\ Receive(line, FALSE) /\ ~Receive(line, TRUE)
  /\ UNCHANGED <<card, ghost>>

LinkReturn ==
  /\ ReturnApdu \/ ReturnControl
  /\ misled' = (misled \/ (dirty /\ rsp'.data # <<>>))
  /\ NoFault /\ UNCHANGED <<line, card, execs, resets, intact, dirty, adrift>>

LinkBegin ==
  /\ callNo < MaxCalls /\ callNo' = callNo + 1
  /\ ResetAfterFailure /\ ~rsp.ok => call' \in {"INIT", "CIP"}
  /\ \/ \E len \in 1..MaxLen : BeginApdu(len)
     \/ \E kind \in ControlCalls : BeginControl(kind)
  /\ execs' = 0 /\ resets' = 0 /\ dirty' = (rxList # <<>>)
  /\ UNCHANGED <<faults, hostFaults, line, card, intact, misled, adrift>>

Exchange == LinkSend \/ CardStep \/ Deliver \/ PollsUsedUp \/ LinkReturn

LinkNext ==
  \/ LinkBegin \/ Exchange
  \/ LoseToCard \/ GarbleToCard \/ LoseToDevice \/ HostFault

\* The calling thread and the card keep running, and a read without an
\* answer ends because its polls are limited (T1.c:836).
LinkSpec == LinkInit /\ [][LinkNext]_linkVars /\ WF_linkVars(Exchange)

-----------------------------------------------------------------------------
Response(c) == [n \in 1..RspBlocks |-> [call |-> c, n |-> n]]

\* A successful seTransceive that began with an empty receive list, and not
\* after a resynchronisation the device did not follow, returns the response
\* to its own command: no block of an earlier command, none missing, none
\* twice.
OwnResponseIfClean ==
  rsp.data # <<>> /\ ~dirty /\ ~adrift => rsp.data = Response(callNo)

\* Retransmission never makes the card run a command twice: only a
\* resynchronisation or warm reset in the same exchange can.
ExecutedOnce == execs > 1 => resets > 0

\* The card executes the command as the caller gave it: pieces in order, none
\* skipped or repeated across retransmissions and resynchronisation.  Blocks
\* of an earlier response can make a command that was given up half way pass
\* for one that succeeded; what the card has of it then precedes the next.
CommandIntact == intact \/ misled

\* Whatever the faults, every exchange ends.
ExchangeEnds == call # "none" ~> call = "none"

\* One lost or garbled block, wherever it happens, is invisible to the caller
\* of a command that fits one block.
OneFaultIsMasked ==
  [][call = "APDU" /\ call' = "none" /\ faults <= 1 /\ hostFaults = 0
       /\ txLen <= maxIFSC => rsp'.ok]_linkVars

-----------------------------------------------------------------------------
\* SEApi.h:84-86: seTransceive sends its command, receives the response from
\* the card and returns it: nothing else is in it.
OwnResponse == rsp.data # <<>> => rsp.data = Response(callNo)
=============================================================================
