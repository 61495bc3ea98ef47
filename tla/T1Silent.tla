------------------------------- MODULE T1Silent -------------------------------
(***************************************************************************)
(* T1 with a card that stops answering for good at some point: nothing is  *)
(* received any more, the write still works or fails, and every read ends  *)
(* the way t1Read ends without data.  What is left is the library's own    *)
(* effort to recover or give up.                                           *)
(***************************************************************************)
EXTENDS T1

VARIABLE silent
silentVars == <<vars, silent>>

SilentInit == Init /\ silent = FALSE

\* A read without any data: maxReadRetryCnt polls fail, or the loop is left
\* early by isReadDone or readTimeout, or a signal interrupts it.
SilentRead ==
  \/ ReadFails
  \/ ReadNothing
  \/ ReadInterrupted

Device ==
  \/ \E len \in 1..MaxLen : BeginApdu(len)
  \/ \E kind \in ControlCalls : BeginControl(kind)
  \/ HostStep
  \/ DoReadTerminate

CardAnswers ==
  /\ ~silent
  /\ \E b \in CardBlocks : Receive(b, TRUE)

CardFallsSilent ==
  /\ ~silent
  /\ silent' = TRUE
  /\ UNCHANGED vars

SilentNext ==
  \/ (Device \/ SilentRead \/ CardAnswers) /\ UNCHANGED silent
  \/ CardFallsSilent

\* The calling thread keeps running, and a read ends because its number of
\* polls and its duration are limited (T1.c:836).
SilentSpec ==
  /\ SilentInit /\ [][SilentNext]_silentVars
  /\ WF_silentVars(HostStep /\ UNCHANGED silent)
  /\ WF_silentVars(SilentRead /\ UNCHANGED silent)

\* Recovery is finite: an exchange with a card that no longer answers ends,
\* through retries, resynchronisation and warm resets, and the library's
\* mutex is released (T1.c:1484-1551; 104-156), unless the read was told to
\* terminate meanwhile.
CallEndsWhenSilent == silent /\ call # "none" ~> call = "none" \/ isReadDone

\* What makes it finite: once the card is silent no attempt is given back,
\* whatever else ends a read ("recoveryCnt should not be reset to zero",
\* T1.c:1510, 1607).
NoRetryIsRefunded ==
  [][silent /\ call # "none" /\ call' = call =>
       /\ recoveryCnt' >= recoveryCnt
       /\ cipRecoveryCnt' >= cipRecoveryCnt
       /\ wtxCnt' >= wtxCnt]_silentVars
=============================================================================
