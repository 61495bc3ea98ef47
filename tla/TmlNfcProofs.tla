----------------------------- MODULE TmlNfcProofs -----------------------------
(***************************************************************************)
(* Proofs about TmlNfc, for any number of packets, writes and resets: a    *)
(* close frees last, no read request is lost, packets come in order.       *)
(***************************************************************************)
EXTENDS TmlNfc, TLAPS

(***************************************************************************)
(* Who is gone when.                                                       *)
(***************************************************************************)
Messages == {"read", "write", "close"}
Releasing == {"postF", "freeF", "joinClientF", "closed"}
Joined   == {"joinClient", "cleanUpF", "killF"} \cup Releasing
Woken    == {"unplug", "unplugF", "join", "joinF"} \cup Joined
Stopped  == {"wake", "wakeF"} \cup Woken

TypesOK ==
  /\ rx \in Nat /\ resets \in Nat
  /\ readInfo \in [enable : BOOLEAN, busy : BOOLEAN]
  /\ queue \in Seq(Messages) /\ threadRunning \in BOOLEAN
  /\ client \in {"loop", "fetch", "deliver", "done", "stuck", "crashed"} \cup Messages
  /\ reader \in {"loop", "wait", "check", "read", "post", "done"}
  /\ reading \in [Callers -> {"out", "enable", "value", "post"}]

GoneInv ==
  /\ TypesOK
  /\ client \notin {"loop", "crashed"} => reading["client"] = "out"
  /\ hal \in Joined => reader = "done" /\ writer = "done"
  /\ hal = "closed" => client = "done"
  /\ hal \notin {"init", "open"} => reading["hal"] = "out"
  /\ context = "freed" => hal \in {"killF"} \cup Releasing
  /\ msgQueue # "open" => hal \in Releasing
  /\ client = "fetch" /\ ~threadRunning => hal \in Releasing

(***************************************************************************)
(* Where the token is that a request needs.  A reader on its way to look   *)
(* at the request, or a caller on its way to the semaphore, stands for     *)
(* one; once the threads have been woken to stop, nobody waits.            *)
(***************************************************************************)
OnItsWay == reader \in {"check", "read", "post"} \/ \E c \in Callers : reading[c] \in {"value", "post"}
ServedInv ==
  /\ GoneInv
  /\ hal \in Stopped => context # "up"
  /\ hal \in Woken => ~(reader = "wait" /\ rx = 0)
  /\ ~device => hal \in Woken
  /\ readInfo.enable => rx > 0 \/ OnItsWay \/ ~device

(***************************************************************************)
(* A request is in one place: with the caller that is about to enable it,  *)
(* enabled or with the reader, in the queue, or with the client thread.    *)
(***************************************************************************)
WithReader == readInfo.enable \/ reader \in {"read", "post"}
Queued     == \E i \in 1..Len(queue) : queue[i] = "read"
WithClient == client \in {"read", "deliver"}

OneQueued ==
  \A i, j \in 1..Len(queue) : queue[i] = "read" /\ queue[j] = "read" => i = j

OneRequest ==
  /\ reading["hal"] = "enable" => ~(reading["client"] = "enable" \/ WithReader \/ Queued \/ WithClient)
  /\ reading["client"] = "enable" => ~(WithReader \/ Queued \/ WithClient)
  /\ WithReader => ~(Queued \/ WithClient)
  /\ Queued => ~WithClient
  /\ OneQueued

\* What the buffer holds is the packet to deliver next; those on the wire follow.
InHand == reader = "post" \/ Queued \/ WithClient
Next1  == Len(delivered) + (IF InHand THEN 1 ELSE 0)
InOrder ==
  /\ delivered \in Seq(Nat) /\ wire \in Seq(Nat) /\ sent \in Nat
  /\ \A i \in 1..Len(delivered) : delivered[i] = i
  /\ hal # "closed" =>
       /\ InHand => rspData = Len(delivered) + 1
       /\ sent = Next1 + Len(wire)
       /\ \A i \in 1..Len(wire) : wire[i] = Next1 + i

Clean == resets = 0 /\ ~direct
FlowInv ==
  /\ GoneInv
  /\ resets = 0 => hal \notin {"reset", "resetRead"}
  /\ hal = "download" \/ HalHasFailed => direct
  /\ Clean => OneRequest /\ InOrder
  /\ hal = "opening" => reading = [c \in Callers |-> "out"] /\ ~(WithReader \/ Queued \/ WithClient)

-----------------------------------------------------------------------------
LEMMA TypesStep == TypesOK /\ [TmlNext]_tmlVars => TypesOK'
<1> SUFFICES ASSUME TypesOK, [TmlNext]_tmlVars PROVE TypesOK'
  OBVIOUS
<1> USE DEF TypesOK, Messages, tml, halVars, link, Callers
<1>1. CASE NfccSend
  BY <1>1 DEF NfccSend
<1>2. CASE Reader
  <2> USE DEF ReaderKeeps
  <2>1. CASE ReaderLoop
    BY <2>1 DEF ReaderLoop
  <2>2. CASE ReaderWait
    BY <2>2 DEF ReaderWait
  <2>3. CASE ReaderCheck
    BY <2>3 DEF ReaderCheck
  <2>4. CASE ReaderError
    BY <2>4 DEF ReaderError
  <2>5. CASE ReaderTake
    BY <2>5 DEF ReaderTake
  <2>6. CASE ReaderPost
    <3>1. readInfo' \in [enable : BOOLEAN, busy : BOOLEAN] /\ reader' = "loop"
      BY <2>6 DEF ReaderPost
    <3>2. queue' \in Seq(Messages)
      BY <2>6 DEF ReaderPost
    <3> QED
      BY <2>6, <3>1, <3>2 DEF ReaderPost
  <2> QED
    BY <1>2, <2>1, <2>2, <2>3, <2>4, <2>5, <2>6 DEF Reader
<1>3. CASE Writer
  BY <1>3 DEF Writer, WriterLoop, WriterWait, WriterWrite, WriterKeeps
<1>4. CASE Client
  <2> USE DEF ClientKeeps
  <2>1. CASE ClientFetch
    <3>1. queue # <<>> => Head(queue) \in Messages /\ Tail(queue) \in Seq(Messages)
      OBVIOUS
    <3> QED
      BY <2>1, <3>1 DEF ClientFetch
  <2>2. CASE ClientRead
    BY <2>2 DEF ClientRead
  <2>3. CASE ClientDeliver
    BY <2>3 DEF ClientDeliver, TmlReadStart
  <2>4. CASE ClientWrite \/ ClientClose \/ ClientLoop \/ ClientLost
    BY <2>4 DEF ClientWrite, ClientClose, ClientLoop, ClientLost
  <2> QED
    BY <1>4, <2>1, <2>2, <2>3, <2>4 DEF Client
<1>5. CASE Hal
  <2> USE DEF HalKeeps
  <2>1. CASE HalFirstRead
    BY <2>1 DEF HalFirstRead, TmlReadStart
  <2>2. CASE HalReadAgain
    BY <2>2 DEF HalReadAgain, TmlReadStart
  <2>3. CASE HalOpened
    BY <2>3 DEF HalOpened
  <2>4. CASE HalDownload
    BY <2>4 DEF HalDownload, Aborted
  <2>5. CASE HalDownloadRead
    BY <2>5 DEF HalDownloadRead
  <2>6. CASE HalWrite
    BY <2>6 DEF HalWrite
  <2>7. CASE HalWritten
    BY <2>7 DEF HalWritten
  <2>8. CASE HalPowerCycle
    BY <2>8 DEF HalPowerCycle
  <2>9. CASE HalPowered
    <3>1. readInfo' \in [enable : BOOLEAN, busy : BOOLEAN]
      BY <2>9 DEF HalPowered
    <3>2. rx' \in Nat
      BY <2>9 DEF HalPowered
    <3> QED
      BY <2>9, <3>1, <3>2 DEF HalPowered
  <2>10. CASE HalClose
    BY <2>10 DEF HalClose
  <2>11. CASE HalCloseComplete
    BY <2>11 DEF HalCloseComplete
  <2>12. CASE HalAbort
    BY <2>12 DEF HalAbort, Aborted
  <2>13. CASE HalStop
    BY <2>13 DEF HalStop
  <2>14. CASE HalWake
    BY <2>14 DEF HalWake
  <2>15. CASE HalUnplug
    BY <2>15 DEF HalUnplug
  <2>16. CASE HalJoin
    BY <2>16 DEF HalJoin
  <2>17. CASE HalCleanUp
    BY <2>17 DEF HalCleanUp
  <2>18. CASE FailedCleanUp
    BY <2>18 DEF FailedCleanUp
  <2>19. CASE FailedKill \/ FailedPost
    BY <2>19 DEF FailedKill, FailedPost
  <2>21. CASE FailedFree
    BY <2>21 DEF FailedFree
  <2>20. CASE FailedJoin
    BY <2>20 DEF FailedJoin
  <2> QED
    BY <1>5, <2>1, <2>2, <2>3, <2>4, <2>5, <2>6, <2>7, <2>8, <2>9, <2>10, <2>11, <2>12, <2>13, <2>14, <2>15, <2>16, <2>17, <2>18, <2>19, <2>20, <2>21 DEF Hal, Closing
<1>6. ASSUME NEW c \in Callers, ReadStep(c) PROVE TypesOK'
  <2>1. CASE ReadEnable(c)
    BY <1>6, <2>1 DEF ReadStep, ReadEnable
  <2>2. CASE ReadGetValue(c)
    BY <1>6, <2>2 DEF ReadStep, ReadGetValue
  <2>3. CASE ReadPost(c)
    BY <1>6, <2>3 DEF ReadStep, ReadPost
  <2> QED
    BY <1>6, <2>1, <2>2, <2>3 DEF ReadStep
<1>7. CASE UNCHANGED tmlVars
  BY <1>7 DEF tmlVars
<1> QED
  BY <1>1, <1>2, <1>3, <1>4, <1>5, <1>6, <1>7 DEF TmlNext

LEMMA GoneStep == GoneInv /\ [TmlNext]_tmlVars => GoneInv'
<1> SUFFICES ASSUME GoneInv, [TmlNext]_tmlVars PROVE GoneInv'
  OBVIOUS
<1>0. TypesOK /\ TypesOK'
  BY TypesStep DEF GoneInv
<1> USE <1>0 DEF GoneInv, Releasing, Joined, tml, halVars, link, Callers
<1>1. CASE NfccSend
  BY <1>1 DEF NfccSend
<1>2. CASE Reader
  BY <1>2 DEF Reader, ReaderLoop, ReaderWait, ReaderCheck, ReaderError, ReaderTake, ReaderPost, ReaderKeeps
<1>3. CASE Writer
  BY <1>3 DEF Writer, WriterLoop, WriterWait, WriterWrite, WriterKeeps
<1>4. CASE Client
  <2> USE DEF ClientKeeps
  <2>1. CASE ClientFetch
    BY <2>1 DEF ClientFetch
  <2>2. CASE ClientRead \/ ClientWrite \/ ClientClose \/ ClientLoop \/ ClientLost
    BY <2>2 DEF ClientRead, ClientWrite, ClientClose, ClientLoop, ClientLost
  <2>3. CASE ClientDeliver
    BY <2>3 DEF ClientDeliver, TmlReadStart, TypesOK
  <2> QED
    BY <1>4, <2>1, <2>2, <2>3 DEF Client
<1>5. CASE Hal
  <2> USE DEF HalKeeps, HalAt
  <2>1. CASE HalFirstRead \/ HalReadAgain
    BY <2>1 DEF HalFirstRead, HalReadAgain, TmlReadStart, TypesOK
  <2>2. CASE HalOpened \/ HalDownload \/ HalDownloadRead \/ HalWrite \/ HalWritten
    BY <2>2 DEF HalOpened, HalDownload, HalDownloadRead, HalWrite, HalWritten
  <2>3. CASE HalPowerCycle \/ HalPowered \/ HalClose
    BY <2>3 DEF HalPowerCycle, HalPowered, HalClose
  <2>4. CASE Closing
    BY <2>4 DEF Closing, HalCloseComplete, HalAbort, HalStop, HalWake, HalUnplug, HalJoin, HalCleanUp,
                FailedCleanUp, FailedKill, FailedPost, FailedFree, FailedJoin
  <2> QED
    BY <1>5, <2>1, <2>2, <2>3, <2>4 DEF Hal
<1>6. ASSUME NEW c \in Callers, ReadStep(c) PROVE GoneInv'
  BY <1>6 DEF ReadStep, ReadEnable, ReadGetValue, ReadPost, TypesOK
<1>7. CASE UNCHANGED tmlVars
  BY <1>7 DEF tmlVars
<1> QED
  BY <1>1, <1>2, <1>3, <1>4, <1>5, <1>6, <1>7 DEF TmlNext

LEMMA TypesInit == TmlInit => TypesOK
BY DEF TmlInit, TypesOK, Messages, Callers

LEMMA GoneHolds == TmlSpec => []GoneInv
<1>1. TmlInit => GoneInv
  BY TypesInit DEF TmlInit, GoneInv, Releasing, Joined, Callers
<1> QED
  BY <1>1, GoneStep, PTL DEF TmlSpec

\* tmsNciHalClose frees the context last, whatever the threads were doing and
\* however often and wherever the HAL was used, reset or failed to open.
THEOREM CloseFreesLastHolds == TmlSpec => []CloseFreesLast
<1>1. GoneInv => CloseFreesLast
  BY DEF GoneInv, CloseFreesLast, HalHasFailed, Joined, Releasing
<1> QED
  BY <1>1, GoneHolds, PTL

-----------------------------------------------------------------------------
\* Only a caller enables a request, and it goes on to the semaphore; the
\* reader that finds none has left the token to a request that is not there.
LEMMA ServedStep == ServedInv /\ [TmlNext]_tmlVars => ServedInv'
<1> SUFFICES ASSUME ServedInv, [TmlNext]_tmlVars PROVE ServedInv'
  OBVIOUS
<1>0. GoneInv /\ GoneInv' /\ TypesOK /\ TypesOK'
  BY GoneStep DEF ServedInv, GoneInv
<1> USE <1>0 DEF ServedInv, OnItsWay, Releasing, Joined, Woken, Stopped, tml, halVars, link, Callers, TypesOK
<1>1. CASE NfccSend
  BY <1>1 DEF NfccSend
<1>2. CASE Reader
  <2> USE DEF ReaderKeeps
  <2>1. CASE ReaderLoop
    BY <2>1 DEF ReaderLoop
  <2>2. CASE ReaderWait
    BY <2>2 DEF ReaderWait
  <2>3. CASE ReaderCheck
    BY <2>3 DEF ReaderCheck
  <2>4. CASE ReaderError
    BY <2>4 DEF ReaderError
  <2>5. CASE ReaderTake
    BY <2>5 DEF ReaderTake
  <2>6. CASE ReaderPost
    BY <2>6 DEF ReaderPost
  <2> QED
    BY <1>2, <2>1, <2>2, <2>3, <2>4, <2>5, <2>6 DEF Reader
<1>3. CASE Writer
  BY <1>3 DEF Writer, WriterLoop, WriterWait, WriterWrite, WriterKeeps
<1>4. CASE Client
  <2> USE DEF ClientKeeps
  <2>1. CASE ClientFetch
    BY <2>1 DEF ClientFetch
  <2>2. CASE ClientRead
    BY <2>2 DEF ClientRead
  <2>3. CASE ClientWrite \/ ClientClose \/ ClientLoop \/ ClientLost
    BY <2>3 DEF ClientWrite, ClientClose, ClientLoop, ClientLost
  <2>4. CASE ClientDeliver
    <3>1. /\ UNCHANGED <<rx, reader, device, context, hal>>
          /\ readInfo'.enable = readInfo.enable
      BY <2>4 DEF ClientDeliver, TmlReadStart
    <3>2. OnItsWay => OnItsWay'
      <4>1. client = "deliver" /\ (reading' = reading \/ reading' = [reading EXCEPT !["client"] = "enable"])
        BY <2>4 DEF ClientDeliver, TmlReadStart
      <4> QED
        BY <3>1, <4>1 DEF GoneInv
    <3> QED
      BY <3>1, <3>2
  <2> QED
    BY <1>4, <2>1, <2>2, <2>3, <2>4 DEF Client
<1>5. CASE Hal
  <2> USE DEF HalKeeps, HalAt
  <2>1. CASE HalFirstRead \/ HalReadAgain
    BY <2>1 DEF HalFirstRead, HalReadAgain, TmlReadStart
  <2>2. CASE HalOpened \/ HalDownload \/ HalDownloadRead \/ HalWrite \/ HalWritten
    BY <2>2 DEF HalOpened, HalDownload, HalDownloadRead, HalWrite, HalWritten, Aborted
  <2>3. CASE HalPowerCycle \/ HalPowered \/ HalClose
    BY <2>3 DEF HalPowerCycle, HalPowered, HalClose
  <2>4. CASE HalCloseComplete \/ HalAbort \/ HalStop \/ HalWake \/ HalUnplug
    BY <2>4 DEF HalCloseComplete, HalAbort, HalStop, HalWake, HalUnplug, Aborted
  <2>5. CASE HalJoin \/ HalCleanUp \/ FailedCleanUp \/ FailedKill \/ FailedPost \/ FailedFree \/ FailedJoin
    BY <2>5 DEF HalJoin, HalCleanUp, FailedCleanUp, FailedKill, FailedPost, FailedFree, FailedJoin
  <2> QED
    BY <1>5, <2>1, <2>2, <2>3, <2>4, <2>5 DEF Hal, Closing
<1>6. ASSUME NEW c \in Callers, ReadStep(c) PROVE ServedInv'
  <2>1. CASE ReadEnable(c)
    BY <1>6, <2>1 DEF ReadStep, ReadEnable
  <2>2. CASE ReadGetValue(c)
    BY <1>6, <2>2 DEF ReadStep, ReadGetValue
  <2>3. CASE ReadPost(c)
    BY <1>6, <2>3 DEF ReadStep, ReadPost
  <2> QED
    BY <1>6, <2>1, <2>2, <2>3 DEF ReadStep
<1>7. CASE UNCHANGED tmlVars
  BY <1>7 DEF tmlVars
<1> QED
  BY <1>1, <1>2, <1>3, <1>4, <1>5, <1>6, <1>7 DEF TmlNext

\* No read request is lost to the test of the semaphore, a reset, an abort or
\* a failed read.
THEOREM EnabledReadIsServedHolds == TmlSpec => []EnabledReadIsServed
<1>1. TmlInit => ServedInv
  <2>1. TmlInit => GoneInv
    BY TypesInit DEF TmlInit, GoneInv, Releasing, Joined, Callers
  <2> QED
    BY <2>1 DEF TmlInit, ServedInv, Stopped, Woken, Joined, Releasing
<1>2. ServedInv => EnabledReadIsServed
  <2>1. SUFFICES ASSUME ServedInv, readInfo.enable, \A c \in Callers : reading[c] = "out", reader = "wait", rx = 0
                 PROVE  FALSE
    BY DEF EnabledReadIsServed
  <2>2. ~OnItsWay
    BY <2>1 DEF OnItsWay
  <2> QED
    BY <2>1, <2>2 DEF ServedInv
<1> QED
  BY <1>1, <1>2, ServedStep, PTL DEF TmlSpec

-----------------------------------------------------------------------------
(***************************************************************************)
(* The queue, and the steps that move no packet.                           *)
(***************************************************************************)
LEMMA QueueGrows ==
  ASSUME queue \in Seq(Messages), NEW m \in Messages, queue' = Append(queue, m)
  PROVE  /\ Queued' <=> Queued \/ m = "read"
         /\ OneQueued /\ (m = "read" => ~Queued) => OneQueued'
<1>1. queue' \in Seq(Messages) /\ Len(queue') = Len(queue) + 1 /\ Len(queue) \in Nat
  OBVIOUS
<1>2. \A i \in 1..Len(queue) : queue'[i] = queue[i]
  OBVIOUS
<1>3. queue'[Len(queue) + 1] = m
  OBVIOUS
<1>4. \A i \in 1..Len(queue') : i \in 1..Len(queue) \/ i = Len(queue) + 1
  BY <1>1
<1>5. Queued' <=> Queued \/ m = "read"
  BY <1>1, <1>2, <1>3, <1>4 DEF Queued
<1>6. OneQueued /\ (m = "read" => ~Queued) => OneQueued'
  BY <1>1, <1>2, <1>3, <1>4 DEF OneQueued, Queued
<1> QED
  BY <1>5, <1>6

LEMMA QueueShrinks ==
  ASSUME queue \in Seq(Messages), OneQueued, queue # <<>>, queue' = Tail(queue)
  PROVE  /\ OneQueued' /\ Head(queue) \in Messages
         /\ Queued <=> Queued' \/ Head(queue) = "read"
         /\ Head(queue) = "read" => ~Queued'
<1>1. queue' \in Seq(Messages) /\ Len(queue') = Len(queue) - 1 /\ Len(queue) \in Nat \ {0}
  OBVIOUS
<1>2. \A i \in 1..Len(queue') : i + 1 \in 1..Len(queue) /\ queue'[i] = queue[i + 1]
  BY <1>1
<1>3. Head(queue) = queue[1] /\ 1 \in 1..Len(queue)
  BY <1>1
<1>4. \A i \in 1..Len(queue) : i = 1 \/ (i - 1 \in 1..Len(queue') /\ queue'[i - 1] = queue[i])
  BY <1>1, <1>2
<1>5. OneQueued'
  BY <1>1, <1>2 DEF OneQueued
<1>6. Queued => Queued' \/ Head(queue) = "read"
  BY <1>3, <1>4 DEF Queued
<1>7. Queued' => Queued
  BY <1>2 DEF Queued
<1>8. Head(queue) = "read" => Queued /\ ~Queued'
  BY <1>1, <1>2, <1>3 DEF Queued, OneQueued
<1> QED
  BY <1>3, <1>5, <1>6, <1>7, <1>8

\* A step that moves no packet.
LEMMA NothingMoves ==
  ASSUME InOrder, UNCHANGED <<wire, delivered, sent, rspData>>,
         hal' # "closed" => hal # "closed" /\ (InHand' <=> InHand)
  PROVE  InOrder'
BY DEF InOrder, Next1

LEMMA SameQueue ==
  ASSUME UNCHANGED queue
  PROVE  (Queued' <=> Queued) /\ (OneQueued' <=> OneQueued)
BY DEF Queued, OneQueued

LEMMA NfccFlow == FlowInv /\ GoneInv' /\ NfccSend => FlowInv'
<1> SUFFICES ASSUME FlowInv, GoneInv', NfccSend PROVE FlowInv'
  OBVIOUS
<1>1. /\ UNCHANGED <<resets, direct, hal, reading, queue, client, reader, readInfo, rspData, delivered>>
      /\ sent' = sent + 1 /\ wire' = Append(wire, sent + 1)
  BY DEF NfccSend, tml, halVars
<1>2. GoneInv'
  BY DEF FlowInv, GoneInv
<1>3. (Queued' <=> Queued) /\ (WithReader' <=> WithReader) /\ (WithClient' <=> WithClient)
      /\ (InHand' <=> InHand) /\ (OneRequest' <=> OneRequest)
  BY <1>1 DEF Queued, WithReader, WithClient, InHand, OneRequest, OneQueued
<1>4. ASSUME InOrder PROVE InOrder'
  <2>1. wire \in Seq(Nat) /\ sent \in Nat
    BY <1>4 DEF InOrder
  <2>2. /\ wire' \in Seq(Nat) /\ sent' \in Nat /\ Len(wire') = Len(wire) + 1 /\ Len(wire) \in Nat
        /\ \A i \in 1..Len(wire) : wire'[i] = wire[i]
        /\ wire'[Len(wire) + 1] = sent + 1
    BY <1>1, <2>1
  <2>3. Next1' = Next1 /\ Len(delivered) \in Nat /\ Next1 \in Nat
    BY <1>1, <1>3, <1>4 DEF Next1, InOrder
  <2>4. ASSUME hal' # "closed"
        PROVE  sent' = Next1' + Len(wire') /\ \A i \in 1..Len(wire') : wire'[i] = Next1' + i
    <3>1. sent = Next1 + Len(wire) /\ \A i \in 1..Len(wire) : wire[i] = Next1 + i
      BY <1>1, <1>4, <2>4 DEF InOrder
    <3>2. \A i \in 1..Len(wire') : i \in 1..Len(wire) \/ i = Len(wire) + 1
      BY <2>2
    <3>3. \A i \in 1..Len(wire) : wire'[i] = Next1' + i
      BY <2>2, <2>3, <3>1
    <3>4. wire'[Len(wire) + 1] = Next1' + (Len(wire) + 1)
      BY <2>2, <2>3, <3>1
    <3>5. sent' = Next1' + Len(wire')
      BY <1>1, <2>2, <2>3, <3>1
    <3> QED
      BY <3>2, <3>3, <3>4, <3>5
  <2> QED
    BY <1>1, <1>3, <1>4, <2>2, <2>4 DEF InOrder
<1> QED
  BY <1>1, <1>2, <1>3, <1>4 DEF FlowInv, Clean, HalHasFailed

LEMMA ReaderFlow == FlowInv /\ GoneInv' /\ Reader => FlowInv'
<1> SUFFICES ASSUME FlowInv, GoneInv', Reader PROVE FlowInv'
  OBVIOUS
<1>1. UNCHANGED <<resets, direct, hal, reading, client, sent, delivered>>
  BY DEF Reader, ReaderLoop, ReaderWait, ReaderCheck, ReaderError, ReaderTake, ReaderPost, ReaderKeeps, halVars
<1>2. GoneInv' /\ TypesOK
  BY DEF FlowInv, GoneInv
<1>3. WithClient' <=> WithClient
  BY <1>1 DEF WithClient
<1>4. CASE ReaderLoop \/ ReaderWait \/ ReaderCheck \/ ReaderError
  <2>1. UNCHANGED <<queue, wire, rspData, readInfo>> /\ (reader' = "post" <=> reader = "post") /\ (WithReader' => WithReader)
    BY <1>4 DEF ReaderLoop, ReaderWait, ReaderCheck, ReaderError, WithReader
  <2>2. InHand' <=> InHand
    BY <1>3, <2>1, SameQueue DEF InHand
  <2>3. OneRequest => OneRequest'
    BY <1>1, <1>3, <2>1, SameQueue DEF OneRequest
  <2>4. InOrder => InOrder'
    BY <1>1, <2>1, <2>2, NothingMoves
  <2> QED
    BY <1>1, <1>2, <1>3, <2>1, <2>3, <2>4, SameQueue DEF FlowInv, Clean, HalHasFailed
<1>5. CASE ReaderTake
  <2>1. /\ reader = "read" /\ reader' = "post" /\ wire # <<>> /\ rspData' = Head(wire) /\ wire' = Tail(wire)
        /\ UNCHANGED <<queue, readInfo>> /\ WithReader /\ WithReader' /\ InHand'
    BY <1>5 DEF ReaderTake, WithReader, InHand
  <2>2. OneRequest => OneRequest' /\ ~InHand
    BY <1>1, <1>3, <2>1, SameQueue DEF OneRequest, InHand
  <2>3. ASSUME InOrder, ~InHand PROVE InOrder'
    <3>1. /\ wire \in Seq(Nat) /\ wire' \in Seq(Nat) /\ Len(wire') = Len(wire) - 1 /\ Len(wire) \in Nat \ {0}
          /\ Head(wire) = wire[1] /\ 1 \in 1..Len(wire) /\ Len(delivered) \in Nat
      BY <2>1, <2>3 DEF InOrder
    <3>2. \A i \in 1..Len(wire') : i + 1 \in 1..Len(wire) /\ wire'[i] = wire[i + 1]
      BY <2>1, <3>1
    <3>3. Next1 = Len(delivered) /\ Next1' = Len(delivered) + 1
      BY <1>1, <2>1, <2>3, <3>1 DEF Next1
    <3>4. ASSUME hal' # "closed"
          PROVE  /\ rspData' = Len(delivered) + 1 /\ sent' = Next1' + Len(wire')
                 /\ \A i \in 1..Len(wire') : wire'[i] = Next1' + i
      <4>1. sent = Next1 + Len(wire) /\ \A i \in 1..Len(wire) : wire[i] = Next1 + i
        BY <1>1, <2>3, <3>4 DEF InOrder
      <4> QED
        BY <1>1, <2>1, <3>1, <3>2, <3>3, <4>1
    <3> QED
      BY <1>1, <2>3, <3>1, <3>4 DEF InOrder
  <2>4. hal # "opening"
    BY <2>1 DEF FlowInv
  <2> QED
    BY <1>1, <1>2, <2>2, <2>3, <2>4 DEF FlowInv, Clean, HalHasFailed
<1>6. CASE ReaderPost
  <2>1. /\ reader = "post" /\ reader' = "loop" /\ queue' = Append(queue, "read") /\ UNCHANGED <<rspData, wire>>
        /\ ~readInfo'.enable /\ WithReader /\ ~WithReader' /\ InHand
    BY <1>2, <1>6 DEF ReaderPost, WithReader, InHand, TypesOK
  <2>2. OneRequest => OneRequest' /\ InHand'
    <3>1. SUFFICES ASSUME OneRequest PROVE OneRequest' /\ InHand'
      OBVIOUS
    <3>2. ~Queued /\ ~WithClient /\ reading["hal"] # "enable" /\ reading["client"] # "enable"
      BY <2>1, <3>1 DEF OneRequest
    <3>3. OneQueued' /\ Queued'
      BY <1>2, <2>1, <3>1, <3>2, QueueGrows DEF OneRequest, TypesOK, Messages
    <3> QED
      BY <1>1, <1>3, <2>1, <3>2, <3>3 DEF OneRequest, InHand
  <2>3. OneRequest /\ InOrder => InOrder'
    BY <1>1, <2>1, <2>2, NothingMoves
  <2>4. hal # "opening"
    BY <2>1 DEF FlowInv
  <2> QED
    BY <1>1, <1>2, <2>2, <2>3, <2>4 DEF FlowInv, Clean, HalHasFailed
<1> QED
  BY <1>4, <1>5, <1>6 DEF Reader

LEMMA WriterFlow == FlowInv /\ GoneInv' /\ Writer => FlowInv'
<1> SUFFICES ASSUME FlowInv, GoneInv', Writer PROVE FlowInv'
  OBVIOUS
<1>1. UNCHANGED <<resets, direct, hal, reading, client, reader, readInfo, rspData, wire, sent, delivered>>
  BY DEF Writer, WriterLoop, WriterWait, WriterWrite, WriterKeeps, halVars, link
<1>2. GoneInv' /\ TypesOK
  BY DEF FlowInv, GoneInv
<1>3. (WithReader' <=> WithReader) /\ (WithClient' <=> WithClient)
  BY <1>1 DEF WithReader, WithClient
<1>4. UNCHANGED queue \/ queue' = Append(queue, "write")
  BY DEF Writer, WriterLoop, WriterWait, WriterWrite
<1>5. (Queued' <=> Queued) /\ (OneQueued => OneQueued')
  BY <1>2, <1>4, SameQueue, QueueGrows DEF TypesOK, Messages
<1>6. (InHand' <=> InHand) /\ (OneRequest => OneRequest')
  BY <1>1, <1>3, <1>5 DEF InHand, OneRequest
<1>7. InOrder => InOrder'
  BY <1>1, <1>6, NothingMoves
<1> QED
  BY <1>1, <1>2, <1>3, <1>5, <1>6, <1>7 DEF FlowInv, Clean, HalHasFailed

\* The client thread hands on the packet it took, and only then asks for another.
LEMMA ClientFlow == FlowInv /\ GoneInv' /\ Client => FlowInv'
<1> SUFFICES ASSUME FlowInv, GoneInv', Client PROVE FlowInv'
  OBVIOUS
<1>1. UNCHANGED <<resets, direct, hal, reader, rspData, wire, sent>>
  BY DEF Client, ClientFetch, ClientRead, ClientDeliver, ClientWrite, ClientClose, ClientLoop, ClientLost, ClientKeeps, link
<1>2. GoneInv' /\ GoneInv /\ TypesOK
  BY DEF FlowInv, GoneInv
<1>0. CASE context = "freed" \/ msgQueue # "open" \/ (client = "fetch" /\ ~threadRunning)
  <2>1. client # "done"
    BY DEF Client, ClientFetch, ClientRead, ClientDeliver, ClientWrite, ClientClose, ClientLoop, ClientLost
  <2>2. HalHasFailed
    BY <1>0, <1>2, <2>1 DEF GoneInv, Releasing, HalHasFailed
  <2> QED
    BY <1>1, <1>2, <2>2 DEF FlowInv, Clean, HalHasFailed
<1> SUFFICES ASSUME context # "freed", msgQueue = "open", client = "fetch" => threadRunning PROVE FlowInv'
  BY <1>0
<1>3. CASE ClientFetch
  <2>1. /\ client = "fetch" /\ client' = Head(queue) /\ queue # <<>> /\ queue' = Tail(queue)
        /\ UNCHANGED <<readInfo, reading, delivered>>
    BY <1>3 DEF ClientFetch
  <2>2. WithReader' <=> WithReader
    BY <1>1, <2>1 DEF WithReader
  <2>3. ASSUME OneQueued
        PROVE  /\ OneQueued' /\ (Queued <=> Queued' \/ WithClient') /\ ~WithClient /\ (WithClient' => ~Queued')
               /\ (InHand' <=> InHand)
    <3>1. /\ OneQueued' /\ Head(queue) \in Messages
          /\ Queued <=> Queued' \/ Head(queue) = "read"
          /\ Head(queue) = "read" => ~Queued'
      BY <1>2, <2>1, <2>3, QueueShrinks DEF TypesOK
    <3>2. (WithClient' <=> Head(queue) = "read") /\ ~WithClient
      BY <2>1, <3>1 DEF WithClient, Messages
    <3> QED
      BY <1>1, <3>1, <3>2 DEF InHand
  <2>4. OneRequest => OneRequest'
    BY <2>1, <2>2, <2>3 DEF OneRequest
  <2>5. OneRequest /\ InOrder => InOrder'
    BY <1>1, <2>1, <2>3, NothingMoves DEF OneRequest
  <2>6. hal = "opening" => ~(Queued' \/ WithClient')
    <3>1. SUFFICES ASSUME hal = "opening" PROVE ~(Queued' \/ WithClient')
      OBVIOUS
    <3>2. ~Queued
      BY <3>1 DEF FlowInv
    <3>3. OneQueued
      BY <3>2 DEF Queued, OneQueued
    <3> QED
      BY <2>3, <3>2, <3>3
  <2> QED
    BY <1>1, <1>2, <2>1, <2>2, <2>4, <2>5, <2>6 DEF FlowInv, Clean, HalHasFailed
<1>4. CASE ClientRead \/ ClientWrite \/ ClientClose \/ ClientLoop \/ ClientLost
  <2>1. UNCHANGED <<reading, queue, delivered>> /\ readInfo'.enable = readInfo.enable
    BY <1>2, <1>4 DEF ClientRead, ClientWrite, ClientClose, ClientLoop, ClientLost, TypesOK
  <2>2. (WithReader' <=> WithReader) /\ (WithClient' <=> WithClient)
    BY <1>1, <1>4, <2>1 DEF WithReader, WithClient, ClientRead, ClientWrite, ClientClose, ClientLoop, ClientLost
  <2>3. (InHand' <=> InHand) /\ (OneRequest => OneRequest')
    BY <1>1, <2>1, <2>2, SameQueue DEF InHand, OneRequest
  <2>4. InOrder => InOrder'
    BY <1>1, <2>1, <2>3, NothingMoves
  <2> QED
    BY <1>1, <1>2, <2>1, <2>2, <2>3, <2>4, SameQueue DEF FlowInv, Clean, HalHasFailed
<1>5. CASE ClientDeliver
  <2>1. /\ client = "deliver" /\ client' = "loop" /\ delivered' = Append(delivered, rspData)
        /\ UNCHANGED queue /\ readInfo'.enable = readInfo.enable
        /\ reading' = reading \/ reading' = [reading EXCEPT !["client"] = "enable"]
    BY <1>2, <1>5 DEF ClientDeliver, TmlReadStart, TypesOK
  <2>2. WithClient /\ ~WithClient' /\ (WithReader' <=> WithReader) /\ reading'["hal"] = reading["hal"] /\ InHand
    BY <1>1, <1>2, <2>1 DEF WithClient, WithReader, TypesOK, Callers, InHand
  <2>3. OneRequest => OneRequest' /\ ~InHand'
    <3>1. SUFFICES ASSUME OneRequest PROVE OneRequest' /\ ~InHand'
      OBVIOUS
    <3>2. ~WithReader /\ ~Queued /\ reading["hal"] # "enable" /\ OneQueued
      BY <2>2, <3>1 DEF OneRequest
    <3>3. ~InHand'
      BY <1>1, <2>1, <2>2, <3>2, SameQueue DEF InHand, WithReader
    <3> QED
      BY <2>1, <2>2, <3>2, <3>3, SameQueue DEF OneRequest
  <2>4. ASSUME InOrder, ~InHand' PROVE InOrder'
    <3>1. hal # "closed" /\ hal' # "closed"
      BY <1>1, <1>2, <2>1 DEF GoneInv
    <3>2. rspData = Len(delivered) + 1 /\ delivered \in Seq(Nat) /\ Len(delivered) \in Nat
      BY <2>2, <2>4, <3>1 DEF InOrder
    <3>3. /\ delivered' \in Seq(Nat) /\ Len(delivered') = Len(delivered) + 1
          /\ \A i \in 1..Len(delivered) : delivered'[i] = delivered[i]
          /\ delivered'[Len(delivered) + 1] = rspData
      BY <2>1, <3>2
    <3>4. \A i \in 1..Len(delivered') : i \in 1..Len(delivered) \/ i = Len(delivered) + 1
      BY <3>2, <3>3
    <3>5. \A i \in 1..Len(delivered') : delivered'[i] = i
      BY <2>4, <3>2, <3>3, <3>4 DEF InOrder
    <3>6. Next1' = Next1
      BY <2>2, <2>4, <3>2, <3>3 DEF Next1
    <3> QED
      BY <1>1, <2>4, <3>1, <3>3, <3>5, <3>6 DEF InOrder
  <2>5. hal # "opening"
    BY <2>2 DEF FlowInv
  <2> QED
    BY <1>1, <1>2, <2>3, <2>4, <2>5 DEF FlowInv, Clean, HalHasFailed
<1> QED
  BY <1>3, <1>4, <1>5 DEF Client

LEMMA ReadFlow ==
  ASSUME FlowInv, GoneInv', NEW c \in Callers, ReadStep(c)
  PROVE  FlowInv'
<1>0. CASE context = "freed"
  <2>1. HalHasFailed
    BY <1>0 DEF ReadStep, ReadEnable, ReadGetValue, ReadPost, FlowInv, GoneInv, Releasing, HalHasFailed, Callers, TypesOK
  <2> QED
    BY <2>1 DEF ReadStep, halVars, link, FlowInv, Clean, HalHasFailed
<1> SUFFICES ASSUME context # "freed" PROVE FlowInv'
  BY <1>0
<1>1. UNCHANGED <<resets, direct, hal, client, reader, rspData, wire, sent, delivered, queue>>
  BY DEF ReadStep, halVars, link
<1>2. GoneInv' /\ TypesOK
  BY DEF FlowInv, GoneInv
<1>3. WithClient' <=> WithClient
  BY <1>1 DEF WithClient
<1>4. hal # "opening" /\ reading[c] # "out"
  BY DEF ReadStep, ReadEnable, ReadGetValue, ReadPost, FlowInv, Callers
<1>5. OneRequest => OneRequest'
  <2>1. CASE ReadEnable(c)
    <3>1. /\ reading[c] = "enable" /\ readInfo'.enable /\ WithReader'
          /\ reading' = [reading EXCEPT ![c] = "value"]
      BY <1>2, <2>1 DEF ReadEnable, WithReader, TypesOK
    <3>2. OneRequest => reading'["hal"] # "enable" /\ reading'["client"] # "enable" /\ ~Queued /\ ~WithClient
      BY <1>2, <3>1 DEF OneRequest, TypesOK, Callers
    <3> QED
      BY <1>1, <1>3, <3>1, <3>2, SameQueue DEF OneRequest
  <2>2. CASE ReadGetValue(c) \/ ReadPost(c)
    <3>1. UNCHANGED readInfo /\ \A d \in Callers : reading'[d] = "enable" => reading[d] = "enable"
      BY <1>2, <2>2 DEF ReadGetValue, ReadPost, TypesOK
    <3>2. WithReader' <=> WithReader
      BY <1>1, <3>1 DEF WithReader
    <3> QED
      BY <1>1, <1>3, <3>1, <3>2, SameQueue DEF OneRequest, Callers
  <2> QED
    BY <2>1, <2>2 DEF ReadStep
<1>6. InHand' <=> InHand
  BY <1>1, <1>3, SameQueue DEF InHand
<1>7. InOrder => InOrder'
  BY <1>1, <1>6, NothingMoves
<1> QED
  BY <1>1, <1>2, <1>4, <1>5, <1>7 DEF FlowInv, Clean, HalHasFailed

LEMMA HalFlow == FlowInv /\ GoneInv' /\ Hal => FlowInv'
<1> SUFFICES ASSUME FlowInv, GoneInv', Hal PROVE FlowInv'
  OBVIOUS
<1>1. UNCHANGED <<rspData, reader, client, sent, delivered>>
  BY DEF Hal, HalFirstRead, HalOpened, HalDownload, HalDownloadRead, HalReadAgain, HalWrite, HalWritten,
         HalPowerCycle, HalPowered, HalClose, Closing, HalCloseComplete, HalAbort, HalStop, HalWake,
         HalUnplug, HalJoin, HalCleanUp, FailedCleanUp, FailedKill, FailedPost, FailedFree, FailedJoin, HalKeeps, tml, link
<1>2. GoneInv' /\ TypesOK
  BY DEF FlowInv, GoneInv
<1>3. WithClient' <=> WithClient
  BY <1>1 DEF WithClient
<1>4. CASE HalFirstRead
  <2>1. /\ hal = "opening" /\ hal' = "init" /\ reading' = [reading EXCEPT !["hal"] = "enable"]
        /\ UNCHANGED <<queue, wire, resets, direct>> /\ readInfo'.enable = readInfo.enable
    BY <1>2, <1>4 DEF HalFirstRead, HalAt, TmlReadStart, TypesOK
  <2>2. WithReader' <=> WithReader
    BY <1>1, <2>1 DEF WithReader
  <2>3. reading'["client"] = "out" /\ ~WithReader /\ ~Queued /\ ~WithClient
    BY <2>1 DEF FlowInv, Callers
  <2>4. InHand' <=> InHand
    BY <1>1, <1>3, <2>1, SameQueue DEF InHand
  <2>5. OneRequest => OneRequest'
    BY <1>3, <2>1, <2>2, <2>3, SameQueue DEF OneRequest
  <2>6. InOrder => InOrder'
    BY <1>1, <2>1, <2>4, NothingMoves
  <2> QED
    BY <1>2, <2>1, <2>5, <2>6 DEF FlowInv, Clean, HalHasFailed
<1>5. CASE HalDownload \/ HalDownloadRead \/ HalReadAgain
  <2>1. direct' /\ hal' # "opening" /\ hal' \notin {"reset", "resetRead"}
    BY <1>5 DEF HalDownload, HalDownloadRead, HalReadAgain, HalAt, FlowInv
  <2> QED
    BY <1>2, <2>1 DEF FlowInv, Clean, HalHasFailed
<1>6. CASE HalPowerCycle \/ HalPowered
  <2>1. resets' # 0 /\ hal' \notin {"opening", "download"} /\ ~HalHasFailed'
    BY <1>2, <1>6 DEF HalPowerCycle, HalPowered, HalAt, FlowInv, TypesOK, HalHasFailed
  <2> QED
    BY <1>2, <2>1 DEF FlowInv, Clean, HalHasFailed
<1>0. CASE FailedPost \/ FailedFree \/ FailedJoin
  <2>1. UNCHANGED <<resets, direct>> /\ HalHasFailed /\ hal' \in {"freeF", "joinClientF", "closed"}
    BY <1>0 DEF FailedPost, FailedFree, FailedJoin, HalAt, HalHasFailed, halVars, link
  <2> QED
    BY <1>2, <2>1 DEF FlowInv, Clean
<1>7. CASE HalCleanUp
  <2>1. /\ hal' = "closed" /\ queue' = <<>>
        /\ UNCHANGED <<readInfo, reading, resets, direct, wire>>
    BY <1>7 DEF HalCleanUp, HalAt, tml, halVars, link
  <2>2. ~Queued' /\ OneQueued' /\ (WithReader' <=> WithReader)
    BY <1>1, <2>1 DEF Queued, OneQueued, WithReader
  <2>3. OneRequest => OneRequest'
    BY <1>3, <2>1, <2>2 DEF OneRequest
  <2>4. InOrder => InOrder'
    BY <1>1, <2>1, NothingMoves
  <2> QED
    BY <1>2, <2>1, <2>3, <2>4 DEF FlowInv, Clean, HalHasFailed
<1>8. CASE \/ HalOpened \/ HalWrite \/ HalWritten \/ HalClose \/ HalCloseComplete \/ HalAbort \/ HalStop
           \/ HalWake \/ HalUnplug \/ HalJoin \/ FailedCleanUp \/ FailedKill
  <2>1. /\ UNCHANGED <<reading, resets, direct, wire>> /\ (readInfo'.enable => readInfo.enable)
        /\ hal # "closed" /\ hal' \notin {"opening", "download", "reset", "resetRead"}
        /\ HalHasFailed' => HalHasFailed
        /\ UNCHANGED queue \/ queue' = Append(queue, "close")
    BY <1>8 DEF HalOpened, HalWrite, HalWritten, HalClose, HalCloseComplete, HalAbort, HalStop, HalWake,
                HalUnplug, HalJoin, FailedCleanUp, FailedKill, HalAt, tml, link, halVars, Aborted, HalHasFailed
  <2>2. (Queued' <=> Queued) /\ (OneQueued => OneQueued')
    BY <1>2, <2>1, SameQueue, QueueGrows DEF TypesOK, Messages
  <2>3. WithReader' => WithReader
    BY <1>1, <2>1 DEF WithReader
  <2>4. (InHand' <=> InHand) /\ (OneRequest => OneRequest')
    BY <1>1, <1>3, <2>1, <2>2, <2>3 DEF InHand, OneRequest
  <2>5. InOrder => InOrder'
    BY <1>1, <2>1, <2>4, NothingMoves
  <2> QED
    BY <1>2, <2>1, <2>4, <2>5 DEF FlowInv, Clean, HalHasFailed
<1> QED
  BY <1>0, <1>4, <1>5, <1>6, <1>7, <1>8 DEF Hal, Closing

LEMMA FlowStep == FlowInv /\ [TmlNext]_tmlVars => FlowInv'
<1> SUFFICES ASSUME FlowInv, [TmlNext]_tmlVars PROVE FlowInv'
  OBVIOUS
<1>0. GoneInv'
  BY GoneStep DEF FlowInv
<1>1. ASSUME NEW c \in Callers, ReadStep(c) PROVE FlowInv'
  BY <1>0, <1>1, ReadFlow
<1>2. CASE UNCHANGED tmlVars
  <2>1. /\ UNCHANGED <<resets, direct, hal, reading, client, reader, readInfo, rspData, wire, sent,
                      delivered, queue>>
    BY <1>2 DEF tmlVars, tml, halVars, link
  <2>2. GoneInv'
    BY GoneStep DEF FlowInv
  <2>3. (WithReader' <=> WithReader) /\ (WithClient' <=> WithClient)
    BY <2>1 DEF WithReader, WithClient
  <2>4. (InHand' <=> InHand) /\ (OneRequest => OneRequest')
    BY <2>1, <2>3, SameQueue DEF InHand, OneRequest
  <2>5. InOrder => InOrder'
    BY <2>1, <2>4, NothingMoves
  <2> QED
    BY <2>1, <2>2, <2>3, <2>4, <2>5, SameQueue DEF FlowInv, Clean, HalHasFailed
<1> QED
  BY <1>0, <1>1, <1>2, NfccFlow, ReaderFlow, WriterFlow, ClientFlow, HalFlow DEF TmlNext

\* One buffer and one record carry every packet to the client thread once,
\* in order and unchanged, however many there are, until the NFCC is reset or
\* a download takes the device.
THEOREM PacketsOnceInOrderHolds == TmlSpec => []PacketsOnceInOrder
<1>1. TmlInit => FlowInv
  <2>1. TmlInit => GoneInv
    BY TypesInit DEF TmlInit, GoneInv, Releasing, Joined, Callers
  <2>2. TmlInit => ~(WithReader \/ Queued \/ WithClient) /\ OneQueued /\ ~InHand
    BY DEF TmlInit, WithReader, Queued, WithClient, OneQueued, InHand
  <2>3. TmlInit => InOrder
    BY <2>2 DEF TmlInit, InOrder, Next1
  <2>4. TmlInit => OneRequest
    BY <2>2 DEF TmlInit, OneRequest, Callers
  <2> QED
    BY <2>1, <2>2, <2>3, <2>4 DEF TmlInit, FlowInv, HalHasFailed
<1>2. FlowInv => PacketsOnceInOrder
  BY DEF FlowInv, Clean, InOrder, PacketsOnceInOrder
<1> QED
  BY <1>1, <1>2, FlowStep, PTL DEF TmlSpec
===============================================================================
