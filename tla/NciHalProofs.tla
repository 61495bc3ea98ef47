----------------------------- MODULE NciHalProofs -----------------------------
(***************************************************************************)
(* Proofs about NciHal, for any number of calls, notifications and retries *)
(* of a write, any kinds of call, and lost responses: the command window   *)
(* works, and the stack gets what is sent to it.                           *)
(*                                                                         *)
(* The right to have a command at the NFCC is a token that moves: from the *)
(* window to the caller, with the command to the NFCC, with its response   *)
(* to the receive buffer and back to the window, or, when the response is  *)
(* lost, with the message of the timer.  The invariant says where it is,   *)
(* and that the notification after a reset is counted the same way.        *)
(***************************************************************************)
EXTENDS NciHal, TLAPS

\* The assumptions README.md makes of the runs.
InTime == ~Overlap /\ "ntf" \notin Losses

(***************************************************************************)
(* The token.                                                              *)
(***************************************************************************)
Queued(m) == Contains(queue, m)
Fresh     == Queued("read") \/ client = "packet"   \* a packet nobody has looked at

IsRsp(p) == p.mt = "rsp"
IsNtf(p) == p.mt = "ntf" /\ p.kind = "reset"

RspOnWire == \E i \in 1..Len(wire) : IsRsp(wire[i])
NtfOnWire == \E i \in 1..Len(wire) : IsNtf(wire[i])

Unwritten == tx = "request" \/ Queued("unwritten") \/ cbData = "failed"
Holds == cmdData.kind # "data" /\ (pc = "send" \/ (pc = "sending" /\ Unwritten))
AtNfcc  == nfcc # <<>> /\ nfcc[1].mt = "cmd"
Read    == ReadWaits /\ IsRsp(rspData)
Expired == Queued("timeout") \/ client = "timeout"

OneToken ==
  /\ win \in {0, 1}
  /\ win = 1 => ~(Holds \/ AtNfcc \/ RspOnWire \/ Read \/ Expired)
  /\ Holds => ~(AtNfcc \/ RspOnWire \/ Read \/ Expired)
  /\ AtNfcc => ~(RspOnWire \/ Read \/ Expired)
  /\ RspOnWire => ~(Read \/ Expired)
  /\ Read => ~Expired

(***************************************************************************)
(* The response the caller waits for, and the notification after it.       *)
(***************************************************************************)
FreshRsp   == Fresh /\ IsRsp(rspData)
Unanswered == AtNfcc \/ RspOnWire \/ FreshRsp
NtfAtNfcc  == nfcc # <<>> /\ nfcc[1].mt = "ntf"
NtfRead    == Fresh /\ IsNtf(rspData)
NtfPending == NtfAtNfcc \/ NtfOnWire \/ NtfRead

OneNtf ==
  /\ NtfAtNfcc => ~(NtfOnWire \/ NtfRead)
  /\ NtfOnWire => ~(AtNfcc \/ NtfRead)
  /\ NtfRead => ~(AtNfcc \/ RspOnWire)

Waiting == {"sending", "timer", "wait", "stop", "timerNtf", "waitNtf"}
After   == {"stopNtf", "check", "succeeded", "clean"}

\* What is on its way while a command of the HAL is out is the answer to it.
Mine(p)  == p.n = cmdData.n /\ p.kind = cmdData.kind
WireMine == \A i \in 1..Len(wire) : IsRsp(wire[i]) \/ IsNtf(wire[i]) => Mine(wire[i])
Own ==
  IsExt /\ pc \in Waiting \cup After =>
    /\ nfcc # <<>> => Mine(nfcc[1])
    /\ WireMine
    /\ Fresh /\ (IsRsp(rspData) \/ IsNtf(rspData)) => Mine(rspData)

\* A response to a reset that succeeded comes with a notification behind it,
\* and no other does.
Loud(p)  == p.kind = "reset" /\ p.ok
WireLoud == \A i \in 1..Len(wire) : IsRsp(wire[i]) => Loud(wire[i])
WireDull == \A i \in 1..Len(wire) : IsRsp(wire[i]) => ~Loud(wire[i])
Announced ==
  /\ IF NtfPending THEN WireLoud ELSE WireDull
  /\ FreshRsp => (NtfPending <=> Loud(rspData))

(***************************************************************************)
(* What the caller is woken by.                                            *)
(***************************************************************************)
Asked    == IsExt /\ pc \in {"sending", "timer", "wait"}
Answered == ~Unanswered /\ (extCbData.status = "ok" => cmdData.n \in answered)
Matched  == Answered /\ (waitForNtf <=> NtfPending)

Asleep == extCbData.sem = 0

Awakening ==
  /\ Expired => Asked /\ pc = "wait" /\ Asleep
  /\ client = "timeout" => extCbData.status = "failed"
  /\ NtfPending => IsExt /\ pc \in Waiting /\ (Unanswered \/ waitForNtf)
  /\ AtNfcc /\ nfcc[1].kind \in Ext => Asked
  /\ IsExt /\ pc \in {"window", "send"} => Asleep /\ ~waitForNtf
  /\ Asked /\ Asleep => win = 0 /\ ~waitForNtf /\ ~(client = "unblock" /\ IsRsp(rspData))
  /\ Asked /\ ~Asleep => ~Holds /\ Matched /\ (waitForNtf => extCbData.sem = 1)
  /\ pc \in {"stop", "timerNtf", "waitNtf"} => Matched /\ (waitForNtf => Asleep)
  /\ pc \in {"timerNtf", "waitNtf"} /\ ~waitForNtf => ~Asleep
  /\ pc \in {"stopNtf", "check"} => Answered
  /\ pc \in After => ~Unanswered
  /\ pc = "succeeded" => cmdData.n \in answered

\* The token is nowhere only while a response is lost.
Kept ==
  "presence" \notin Kinds =>
    win = 1 \/ Holds \/ AtNfcc \/ RspOnWire \/ Read \/ Expired \/ lost \/ (Asked /\ Asleep)

(***************************************************************************)
(* What these rest on: types, the transport, the flags.                    *)
(***************************************************************************)
Messages == {"rx", "read", "written", "unwritten", "timeout"}
Packets  == [mt : {"none", "cmd", "rsp", "ntf", "data"}, kind : Stack \cup Ext \cup {"event", "error", "none"},
             n : Nat, ok : BOOLEAN]

FromNfcc(p) ==
  /\ p \in Packets /\ p.mt \in {"rsp", "ntf"}
  /\ p.mt = "rsp" => p.kind \in Kinds \ {"data"}
  /\ p.mt = "ntf" => p.kind \in {"reset", "event", "error"}

WireOK ==
  /\ wire \in Seq(Packets)
  /\ \A i \in 1..Len(wire) : FromNfcc(wire[i])
  /\ \A i, j \in 1..Len(wire) :
       /\ IsRsp(wire[i]) /\ IsRsp(wire[j]) => i = j
       /\ IsNtf(wire[i]) /\ IsNtf(wire[j]) => i = j
       /\ IsRsp(wire[i]) /\ IsNtf(wire[j]) => i < j

QueueOK ==
  /\ queue \in Seq(Messages)
  /\ \A i, j \in 1..Len(queue) : queue[i] = queue[j] /\ queue[i] # "rx" => i = j

NfccOK ==
  nfcc # <<>> =>
    /\ nfcc = <<nfcc[1]>> /\ nfcc[1] \in Packets /\ nfcc[1].kind \in Kinds \ {"data"}
    /\ nfcc[1].mt = "cmd" \/ (nfcc[1].mt = "ntf" /\ nfcc[1].kind = "reset")

TypesOK ==
  /\ pc \in {"idle", "window", "send"} \cup Waiting \cup After
  /\ client \in {"fetch", "packet", "unblock", "timeout"}
  /\ tx \in {"none", "request", "sent"} /\ cbData \in {"none", "ok", "failed"}
  /\ extCbData \in [sem : Nat, status : {"ok", "failed"}]
  /\ waitForNtf \in BOOLEAN /\ halExtEnabled \in BOOLEAN
  /\ cmdData \in Packets /\ rspData \in Packets
  /\ calls \in Nat /\ events \in Nat

CallerOK ==
  /\ pc # "idle" => cmdData.mt = "cmd" /\ cmdData.kind \in Kinds
  /\ pc = "window" => cmdData.kind # "data"
  /\ pc \in (Waiting \cup After) \ {"sending"} => IsExt

TransportOK ==
  /\ armed => ~ReadWaits
  /\ Fresh => FromNfcc(rspData)
  /\ ReadWaits => ~Queued("rx")
  /\ client \in {"packet", "unblock"} => ~Queued("read")
  /\ client = "timeout" => ~Queued("timeout")
  /\ pc # "sending" => tx = "none" /\ ~Queued("written") /\ ~Queued("unwritten")
  /\ tx # "none" => cbData = "none" /\ ~Queued("written") /\ ~Queued("unwritten")
  /\ Queued("written") => cbData = "none" /\ ~Queued("unwritten")
  /\ Queued("unwritten") => cbData = "none"

FlagsOK ==
  /\ halExtEnabled => IsExt /\ pc \in Waiting \cup After
  /\ IsExt /\ pc \in Waiting => halExtEnabled
  /\ waitForNtf => IsExt /\ pc \in Waiting \cup After
  /\ timer = "running" => pc \in {"wait", "stop", "waitNtf", "stopNtf"}

Base == InTime /\ WireOK /\ QueueOK /\ NfccOK /\ TypesOK /\ CallerOK /\ TransportOK /\ FlagsOK
WindowInv == Base /\ OneToken /\ OneNtf /\ Own /\ Announced /\ Awakening /\ Kept

-----------------------------------------------------------------------------
(***************************************************************************)
(* The queue and the wire.                                                 *)
(***************************************************************************)
LEMMA QueueGrows ==
  ASSUME QueueOK, NEW m \in Messages, m = "rx" \/ ~Queued(m), queue' = Append(queue, m)
  PROVE  QueueOK' /\ \A x : Queued(x)' <=> Queued(x) \/ x = m
<1> USE DEF QueueOK, Queued, Contains
<1>1. queue' \in Seq(Messages) /\ Len(queue') = Len(queue) + 1 /\ Len(queue) \in Nat
  OBVIOUS
<1>2. \A i \in 1..Len(queue) : queue'[i] = queue[i]
  OBVIOUS
<1>3. queue'[Len(queue) + 1] = m
  OBVIOUS
<1>4. \A i \in 1..Len(queue') : i \in 1..Len(queue) \/ i = Len(queue) + 1
  BY <1>1
<1>5. \A x : Queued(x)' <=> Queued(x) \/ x = m
  BY <1>1, <1>2, <1>3, <1>4
<1>6. ASSUME NEW i \in 1..Len(queue'), NEW j \in 1..Len(queue'),
             queue'[i] = queue'[j], queue'[i] # "rx"
      PROVE  i = j
  BY <1>1, <1>2, <1>3, <1>4, <1>6
<1> QED
  BY <1>1, <1>5, <1>6

LEMMA QueueShrinks ==
  ASSUME QueueOK, queue # <<>>, queue' = Tail(queue)
  PROVE  /\ QueueOK' /\ Head(queue) \in Messages /\ Queued(Head(queue))
         /\ \A x : Queued(x)' => Queued(x)
         /\ \A x : x # "rx" => (Queued(x)' <=> Queued(x) /\ x # Head(queue))
<1> USE DEF QueueOK, Queued, Contains
<1>1. queue' \in Seq(Messages) /\ Len(queue') = Len(queue) - 1 /\ Len(queue) \in Nat \ {0}
  OBVIOUS
<1>2. \A i \in 1..Len(queue') : i + 1 \in 1..Len(queue) /\ queue'[i] = queue[i + 1]
  BY <1>1
<1>3. Head(queue) = queue[1] /\ 1 \in 1..Len(queue)
  BY <1>1
<1>4. \A i \in 1..Len(queue) : i = 1 \/ (i - 1 \in 1..Len(queue') /\ queue'[i - 1] = queue[i])
  BY <1>1, <1>2
<1>5. QueueOK'
  BY <1>1, <1>2
<1>6. \A x : Queued(x)' => Queued(x)
  BY <1>2
<1>7. \A x : x # "rx" => (Queued(x)' <=> Queued(x) /\ x # Head(queue))
  BY <1>1, <1>2, <1>3, <1>4
<1> QED
  BY <1>1, <1>3, <1>5, <1>6, <1>7

LEMMA WireGrows ==
  ASSUME WireOK, NEW p, FromNfcc(p), wire' = Append(wire, p),
         IsRsp(p) => ~RspOnWire /\ ~NtfOnWire, IsNtf(p) => ~NtfOnWire
  PROVE  /\ WireOK'
         /\ RspOnWire' <=> RspOnWire \/ IsRsp(p)
         /\ NtfOnWire' <=> NtfOnWire \/ IsNtf(p)
         /\ \A i \in 1..Len(wire') : (i \in 1..Len(wire) /\ wire'[i] = wire[i]) \/ wire'[i] = p
<1>1. wire' \in Seq(Packets) /\ Len(wire') = Len(wire) + 1 /\ Len(wire) \in Nat
  BY DEF WireOK, FromNfcc
<1>2. \A i \in 1..Len(wire) : wire'[i] = wire[i]
  BY DEF WireOK, FromNfcc
<1>3. wire'[Len(wire) + 1] = p
  BY DEF WireOK, FromNfcc
<1>4. \A i \in 1..Len(wire') : i \in 1..Len(wire) \/ i = Len(wire) + 1
  BY <1>1
<1>5. /\ RspOnWire' <=> RspOnWire \/ IsRsp(p)
      /\ NtfOnWire' <=> NtfOnWire \/ IsNtf(p)
  BY <1>1, <1>2, <1>3, <1>4 DEF RspOnWire, NtfOnWire
<1>6. \A i \in 1..Len(wire') : FromNfcc(wire'[i])
  BY <1>2, <1>3, <1>4 DEF WireOK
<1>7. ASSUME NEW i \in 1..Len(wire'), NEW j \in 1..Len(wire')
      PROVE  /\ IsRsp(wire'[i]) /\ IsRsp(wire'[j]) => i = j
             /\ IsNtf(wire'[i]) /\ IsNtf(wire'[j]) => i = j
             /\ IsRsp(wire'[i]) /\ IsNtf(wire'[j]) => i < j
  BY <1>1, <1>2, <1>3, <1>4 DEF WireOK, RspOnWire, NtfOnWire, IsRsp, IsNtf
<1>8. WireOK'
  BY <1>1, <1>6, <1>7 DEF WireOK, FromNfcc, IsRsp, IsNtf
<1> QED
  BY <1>2, <1>3, <1>4, <1>5, <1>8

LEMMA WireShrinks ==
  ASSUME WireOK, wire # <<>>, wire' = Tail(wire)
  PROVE  /\ WireOK' /\ FromNfcc(Head(wire))
         /\ RspOnWire <=> RspOnWire' \/ IsRsp(Head(wire))
         /\ NtfOnWire <=> NtfOnWire' \/ IsNtf(Head(wire))
         /\ IsRsp(Head(wire)) => ~RspOnWire'
         /\ IsNtf(Head(wire)) => ~RspOnWire' /\ ~NtfOnWire'
         /\ Head(wire) = wire[1] /\ 1 \in 1..Len(wire)
         /\ \A i \in 1..Len(wire') : i + 1 \in 1..Len(wire) /\ wire'[i] = wire[i + 1]
<1>1. wire' \in Seq(Packets) /\ Len(wire') = Len(wire) - 1 /\ Len(wire) \in Nat \ {0}
  BY DEF WireOK
<1>2. \A i \in 1..Len(wire') : i + 1 \in 1..Len(wire) /\ wire'[i] = wire[i + 1]
  BY <1>1 DEF WireOK
<1>3. Head(wire) = wire[1] /\ 1 \in 1..Len(wire)
  BY <1>1
<1>4. \A i \in 1..Len(wire) : i = 1 \/ (i - 1 \in 1..Len(wire') /\ wire'[i - 1] = wire[i])
  BY <1>1, <1>2
<1>5. WireOK' /\ FromNfcc(Head(wire))
  BY <1>1, <1>2, <1>3 DEF WireOK, IsRsp, IsNtf, FromNfcc
<1>6. RspOnWire <=> RspOnWire' \/ IsRsp(Head(wire))
  <2>1. RspOnWire => RspOnWire' \/ IsRsp(Head(wire))
    BY <1>3, <1>4 DEF RspOnWire
  <2>2. RspOnWire' \/ IsRsp(Head(wire)) => RspOnWire
    BY <1>2, <1>3 DEF RspOnWire
  <2> QED
    BY <2>1, <2>2
<1>7. NtfOnWire <=> NtfOnWire' \/ IsNtf(Head(wire))
  <2>1. NtfOnWire => NtfOnWire' \/ IsNtf(Head(wire))
    BY <1>3, <1>4 DEF NtfOnWire
  <2>2. NtfOnWire' \/ IsNtf(Head(wire)) => NtfOnWire
    BY <1>2, <1>3 DEF NtfOnWire
  <2> QED
    BY <2>1, <2>2
<1>8. IsRsp(Head(wire)) => ~RspOnWire'
  BY <1>1, <1>2, <1>3 DEF RspOnWire, WireOK, IsRsp
<1>9. IsNtf(Head(wire)) => ~RspOnWire' /\ ~NtfOnWire'
  BY <1>1, <1>2, <1>3 DEF RspOnWire, NtfOnWire, WireOK, IsRsp, IsNtf
<1> QED
  BY <1>2, <1>3, <1>5, <1>6, <1>7, <1>8, <1>9

-----------------------------------------------------------------------------
(***************************************************************************)
(* The caller.                                                             *)
(***************************************************************************)
Outside == <<wire, nfcc, queue, client, rspData, armed>>

\* A step that leaves NFCC, wire and what is fresh alone leaves what is there.
LEMMA SameAnswers ==
  ASSUME UNCHANGED <<wire, nfcc>>, Fresh' <=> Fresh, Fresh => UNCHANGED rspData
  PROVE  /\ (WireOK' <=> WireOK) /\ (NfccOK' <=> NfccOK) /\ (RspOnWire' <=> RspOnWire) /\ (AtNfcc' <=> AtNfcc)
         /\ (FreshRsp' <=> FreshRsp) /\ (NtfOnWire' <=> NtfOnWire) /\ (NtfAtNfcc' <=> NtfAtNfcc) /\ (NtfRead' <=> NtfRead)
         /\ (NtfPending' <=> NtfPending) /\ (Unanswered' <=> Unanswered) /\ (OneNtf' <=> OneNtf) /\ (Announced' <=> Announced)
         /\ UNCHANGED cmdData => (WireMine' <=> WireMine)
<1>1. UNCHANGED <<RspOnWire, NtfOnWire, WireOK, NfccOK, WireLoud, WireDull>>
  BY DEF WireOK, NfccOK, RspOnWire, NtfOnWire, WireLoud, WireDull, IsRsp, IsNtf, Loud, FromNfcc
<1>2. (FreshRsp' <=> FreshRsp) /\ (NtfRead' <=> NtfRead)
  BY DEF FreshRsp, NtfRead, IsRsp, IsNtf
<1>3. FreshRsp => (Loud(rspData)' <=> Loud(rspData))
  BY DEF FreshRsp, Loud
<1>4. UNCHANGED cmdData => (WireMine' <=> WireMine)
  BY DEF WireMine, IsRsp, IsNtf, Mine
<1> QED
  BY <1>1, <1>2, <1>3, <1>4
  DEF AtNfcc, NtfAtNfcc, NtfPending, Unanswered, OneNtf, Announced

LEMMA SameOutside ==
  ASSUME UNCHANGED Outside
  PROVE  /\ \A m : Queued(m)' <=> Queued(m)
         /\ QueueOK' <=> QueueOK
         /\ (ReadWaits' <=> ReadWaits) /\ (Read' <=> Read) /\ (Expired' <=> Expired)
         /\ (Fresh' <=> Fresh) /\ UNCHANGED <<wire, nfcc, rspData>>
BY DEF Outside, Queued, Contains, QueueOK, ReadWaits, Read, Expired, Fresh, IsRsp

\* When all is quiet there is nothing anywhere.
LEMMA NothingIfQuiet ==
  ASSUME Quiet
  PROVE  /\ \A m : ~Queued(m)
         /\ ~(AtNfcc \/ NtfAtNfcc \/ RspOnWire \/ NtfOnWire \/ ReadWaits \/ Fresh)
         /\ ~(Read \/ Expired \/ Unanswered \/ NtfPending) /\ WireMine
BY DEF Quiet, Queued, Contains, AtNfcc, NtfAtNfcc, RspOnWire, NtfOnWire, ReadWaits, Fresh,
       Read, Expired, Unanswered, FreshRsp, NtfRead, NtfPending, WireMine

\* Nobody's answer is on its way to somebody else.
LEMMA NothingToOwn ==
  ASSUME NfccOK, ~Unanswered, ~NtfPending
  PROVE  nfcc = <<>> /\ WireMine /\ ~(Fresh /\ (IsRsp(rspData) \/ IsNtf(rspData)))
BY DEF NfccOK, Unanswered, NtfPending, AtNfcc, NtfAtNfcc, RspOnWire, NtfOnWire, FreshRsp, NtfRead,
       WireMine

\* The caller holds the token: nothing is on its way.
LEMMA HolderIsAlone ==
  ASSUME WindowInv, Holds
  PROVE  win = 0 /\ ~Read /\ ~Expired /\ ~Unanswered /\ ~NtfPending
<1>1. win = 0 /\ ~(AtNfcc \/ RspOnWire \/ Read \/ Expired)
  BY DEF WindowInv, OneToken
<1>2. FreshRsp => Read
  BY DEF FreshRsp, Read, Fresh, ReadWaits, Queued
<1>3. ~Unanswered
  BY <1>1, <1>2 DEF Unanswered
<1>4. NtfPending => Asked /\ waitForNtf
  BY <1>3 DEF WindowInv, Awakening, Holds, Waiting, Asked
<1>5. ~NtfPending
  BY <1>4 DEF WindowInv, Awakening
<1> QED
  BY <1>1, <1>3, <1>5

LEMMA ThreadStep == WindowInv /\ Thread => WindowInv'
<1> SUFFICES ASSUME WindowInv, Thread PROVE WindowInv'
  OBVIOUS
<1>1. UNCHANGED <<wire, nfcc, queue, client, rspData, armed, cmdData, calls, events, answered>>
  BY DEF Thread, TakeWindow, WindowTimeout, Send, Sent, Resend, GiveUp, StartTimer, ExtWait,
         StopTimer, Check, Clean, Caller, KeepExt, Outside, chip, router
<1>2. UNCHANGED Outside
  BY <1>1 DEF Outside
<1>3. WireOK' /\ QueueOK' /\ NfccOK' /\ InTime' /\ OneNtf' /\ Announced'
  BY <1>2, SameOutside, SameAnswers DEF WindowInv, Base, InTime
<1> USE <1>1, <1>2, SameOutside, SameAnswers
<1> USE DEF Base, TypesOK, CallerOK, TransportOK, FlagsOK, OneToken, Holds, Unwritten, Own, Mine,
            Asked, Answered, Matched, Asleep, Awakening, Kept, IsExt, Waiting, After, WindowInv,
            Return, Released, Ext, shared, chip
<1>4. CASE TakeWindow
  BY <1>3, <1>4 DEF TakeWindow
<1>5. CASE WindowTimeout
  <2>1. Base'
    BY <1>3, <1>5, NothingIfQuiet DEF WindowTimeout
  <2>2. OneToken'
    BY <1>3, <1>5, NothingIfQuiet DEF WindowTimeout
  <2>3. Own'
    BY <1>3, <1>5, NothingIfQuiet, NothingToOwn DEF WindowTimeout
  <2>4. Awakening'
    BY <1>3, <1>5, NothingIfQuiet DEF WindowTimeout
  <2>5. Kept'
    BY <1>3, <1>5, NothingIfQuiet DEF WindowTimeout
  <2> QED
    BY <1>3, <2>1, <2>2, <2>3, <2>4, <2>5
<1>6. CASE Send
  <2>1. Base'
    <3>1. halExtEnabled' \in BOOLEAN
      BY <1>6 DEF Send
    <3>2. halExtEnabled' <=> halExtEnabled \/ IsExt
      BY <1>6 DEF Send
    <3>3. TypesOK' /\ CallerOK'
      BY <1>6, <3>1 DEF Send
    <3>4. TransportOK'
      BY <1>6 DEF Send
    <3>5. FlagsOK'
      BY <1>6, <3>2 DEF Send
    <3> QED
      BY <1>3, <3>3, <3>4, <3>5
  <2>2. OneToken'
    BY <1>3, <1>6 DEF Send
  <2>3. Own'
    BY <1>3, <1>6, HolderIsAlone, NothingToOwn DEF Send
  <2>4. Awakening'
    <3>1. CASE cmdData.kind = "data"
      BY <1>3, <1>6, <3>1 DEF Send
    <3>2. CASE cmdData.kind # "data"
      <4>1. Holds
        BY <1>6, <3>2 DEF Send
      <4> HIDE DEF Holds
      <4>2. ~(client = "unblock" /\ IsRsp(rspData))
        BY <4>1, HolderIsAlone DEF Read, ReadWaits
      <4> QED
        BY <1>3, <1>6, <3>2, <4>1, <4>2, HolderIsAlone DEF Send
    <3> QED
      BY <3>1, <3>2
  <2>5. Kept'
    BY <1>3, <1>6 DEF Send
  <2> QED
    BY <1>3, <2>1, <2>2, <2>3, <2>4, <2>5
<1>7. CASE Sent
  BY <1>3, <1>7 DEF Sent
<1>8. CASE Resend
  BY <1>3, <1>8 DEF Resend
<1>9. CASE GiveUp
  <2>1. Base'
    BY <1>3, <1>9 DEF GiveUp
  <2>2. OneToken'
    BY <1>3, <1>9 DEF GiveUp
  <2>3. Own'
    BY <1>3, <1>9 DEF GiveUp
  <2>4. Awakening'
    <3>1. CASE halOpen
      BY <1>3, <1>9, <3>1 DEF GiveUp
    <3>2. CASE ~halOpen /\ cmdData.kind = "data"
      BY <1>3, <1>9, <3>2 DEF GiveUp
    <3>3. CASE ~halOpen /\ cmdData.kind # "data"
      <4>1. Holds
        BY <1>9, <3>3 DEF GiveUp
      <4> HIDE DEF Holds
      <4> QED
        BY <1>3, <1>9, <3>3, <4>1, HolderIsAlone DEF GiveUp
    <3> QED
      BY <3>1, <3>2, <3>3
  <2>5. Kept'
    BY <1>3, <1>9 DEF GiveUp
  <2> QED
    BY <1>3, <2>1, <2>2, <2>3, <2>4, <2>5
<1>10. CASE StartTimer
  BY <1>3, <1>10 DEF StartTimer, Caller, KeepExt
<1>11. CASE ExtWait
  <2>1. Base'
    BY <1>3, <1>11 DEF ExtWait, Caller
  <2>2. OneToken'
    BY <1>3, <1>11 DEF ExtWait, Caller
  <2>3. Own'
    BY <1>3, <1>11 DEF ExtWait, Caller
  <2>4. Awakening'
    <3>1. CASE pc = "wait"
      <4>1. /\ extCbData'.sem = extCbData.sem - 1 /\ extCbData'.status = extCbData.status
            /\ extCbData.sem > 0 /\ pc' = "stop" /\ ~Asleep
        BY <1>11, <3>1 DEF ExtWait, Caller
      <4>2. UNCHANGED waitForNtf
        BY <1>11 DEF ExtWait
      <4>3. Matched /\ (waitForNtf => Asleep') /\ ~Expired
        BY <3>1, <4>1
      <4> QED
        BY <1>3, <3>1, <4>1, <4>2, <4>3 DEF Unanswered
    <3>2. CASE pc = "waitNtf"
      BY <1>3, <1>11, <3>2 DEF ExtWait, Caller
    <3> QED
      BY <1>11, <3>1, <3>2 DEF ExtWait, Caller
  <2>5. Kept'
    BY <1>3, <1>11 DEF ExtWait, Caller
  <2> QED
    BY <1>3, <2>1, <2>2, <2>3, <2>4, <2>5
<1>12. CASE StopTimer
  BY <1>3, <1>12 DEF StopTimer, Caller, KeepExt
<1>13. CASE Check
  BY <1>3, <1>13 DEF Check, Caller, KeepExt, Success
<1>14. CASE Clean
  <2>1. Base'
    BY <1>3, <1>14 DEF Clean, Caller
  <2>2. OneToken'
    BY <1>3, <1>14 DEF Clean, Caller
  <2>3. Own'
    BY <1>3, <1>14 DEF Clean, Caller
  <2>4. Awakening'
    BY <1>3, <1>14 DEF Clean, Caller
  <2>5. Kept'
    BY <1>3, <1>14 DEF Clean, Caller
  <2> QED
    BY <1>3, <2>1, <2>2, <2>3, <2>4, <2>5
<1> QED
  BY <1>4, <1>5, <1>6, <1>7, <1>8, <1>9, <1>10, <1>11, <1>12, <1>13, <1>14 DEF Thread

\* A new call, or a local answer, which finds no packet in the buffer.
LEMMA CallStep ==
  ASSUME WindowInv, NEW k \in Kinds, Call(k)
  PROVE  WindowInv'
<1>1. /\ pc = "idle" /\ cmdData' = Packet("cmd", k, calls + 1, TRUE) /\ calls' = calls + 1
      /\ UNCHANGED <<wire, nfcc, events, answered, client, armed, tx, timer, cbData, lost>>
  BY DEF Call, router, chip
<1>0. Base /\ TypesOK /\ calls \in Nat /\ calls + 1 \in Nat
  BY DEF WindowInv, Base, TypesOK
<1>2. /\ k \in Stack \cup Ext /\ cmdData' \in Packets /\ cmdData'.mt = "cmd" /\ cmdData'.kind = k
      /\ cmdData'.n = calls + 1
  BY <1>1, <1>0, HalAssumption DEF Packets, Packet
<1>5. ~Expired /\ ~NtfPending /\ ~waitForNtf /\ ~(AtNfcc /\ nfcc[1].kind \in Ext)
  BY <1>1 DEF WindowInv, Base, FlagsOK, Awakening, Asked, Waiting, After
<1>7. \A mt \in {"rsp", "data"} : Packet(mt, "local", calls + 1, TRUE) \in Packets
  BY <1>0 DEF Packet, Packets, Stack
<1>6. TypesOK'
  <2>1. rspData' \in Packets
    BY <1>0, <1>7 DEF TypesOK, Call, Answer, BeginWrite, BeginExt
  <2>2. /\ pc' \in {"idle", "window", "send"} /\ waitForNtf' = waitForNtf
        /\ halExtEnabled' = halExtEnabled
    BY <1>1 DEF Call, Answer, BeginWrite, BeginExt, shared
  <2>3. extCbData' = extCbData \/ extCbData' = [sem |-> 0, status |-> "ok"]
    BY DEF Call, Answer, BeginWrite, BeginExt, shared
  <2>4. extCbData' \in [sem : Nat, status : {"ok", "failed"}]
    BY <1>0, <2>3 DEF TypesOK
  <2> QED
    BY <1>0, <1>1, <1>2, <2>1, <2>2, <2>4 DEF TypesOK
<1> USE DEF Base, CallerOK, TransportOK, FlagsOK, OneToken, Holds, Own, Asked,
            Kept, IsExt, Waiting, After, WindowInv, Ext, Stack, Asleep
<1>3. CASE (k \in Stack \ {"local"} /\ BeginWrite(k)) \/ (k \in Ext /\ BeginExt)
  <2>1. UNCHANGED Outside
    BY <1>1, <1>3 DEF Outside, BeginWrite, BeginExt
  <2>2. WireOK' /\ QueueOK' /\ NfccOK' /\ InTime' /\ OneNtf' /\ Announced'
    BY <2>1, SameOutside, SameAnswers DEF InTime
  <2>3. /\ UNCHANGED <<win, halExtEnabled, waitForNtf>>
        /\ pc' = (IF k = "data" THEN "send" ELSE "window")
        /\ UNCHANGED extCbData \/ extCbData' = [sem |-> 0, status |-> "ok"]
        /\ k \in Ext => extCbData' = [sem |-> 0, status |-> "ok"]
    BY <1>3 DEF BeginWrite, BeginExt, shared
  <2>4. Base'
    <3>1. CallerOK'
      BY <1>1, <1>2, <2>3
    <3>2. TransportOK'
      BY <1>1, <2>1, <2>3, SameOutside
    <3>3. FlagsOK'
      BY <1>1, <2>3
    <3> QED
      BY <1>6, <2>2, <3>1, <3>2, <3>3
  <2>5. OneToken' /\ Own' /\ Kept'
    BY <1>1, <1>2, <2>1, <2>3, SameOutside, SameAnswers
  <2>6. Awakening'
    <3>1. ~Expired' /\ ~NtfPending' /\ ~waitForNtf' /\ ~(AtNfcc' /\ nfcc'[1].kind \in Ext)
      BY <1>1, <1>5, <2>1, <2>3, SameOutside, SameAnswers
    <3>2. pc' \in {"send", "window"} /\ ~Asked'
      BY <2>3
    <3>3. IsExt' => extCbData'.sem = 0
      BY <1>2, <2>3
    <3>4. client' # "timeout"
      BY <1>1, <1>5 DEF Expired
    <3> QED
      BY <3>1, <3>2, <3>3, <3>4 DEF Awakening
  <2> QED
    BY <2>2, <2>4, <2>5, <2>6
<1>4. CASE k = "local" /\ \E mt \in {"rsp", "data"} : Answer(mt)
  <2>1. /\ ~ReadWaits /\ queue' = Append(queue, "rx") /\ pc' = pc
        /\ win' = win /\ extCbData' = extCbData
        /\ halExtEnabled' = halExtEnabled /\ waitForNtf' = waitForNtf
    BY <1>4 DEF Answer, InTime, shared
  <2>2. QueueOK' /\ \A x : Queued(x)' <=> Queued(x) \/ x = "rx"
    BY <2>1, QueueGrows DEF Messages
  <2>3. ~ReadWaits' /\ ~Fresh /\ ~Fresh' /\ ~Read' /\ (Expired' <=> Expired)
    BY <1>1, <2>1, <2>2 DEF ReadWaits, Fresh, Queued, Read, Expired
  <2>4. WireOK' /\ NfccOK' /\ InTime' /\ OneNtf' /\ Announced'
    BY <1>1, <2>3, SameAnswers DEF InTime
  <2>5. Base'
    <3>1. CallerOK'
      BY <1>1, <1>2, <2>1
    <3>2. TransportOK'
      BY <1>1, <2>1, <2>2, <2>3
    <3>3. FlagsOK'
      BY <1>1, <2>1
    <3> QED
      BY <1>6, <2>2, <2>4, <3>1, <3>2, <3>3
  <2>6. OneToken' /\ Own' /\ Kept'
    <3>1. ~Holds /\ ~Holds' /\ ~Asked /\ ~Asked' /\ ~Read
      BY <1>1, <2>1, <2>3 DEF Read
    <3>2. OneToken' /\ Kept'
      BY <1>1, <2>1, <2>3, <3>1, SameAnswers
    <3> QED
      BY <1>1, <2>1, <3>2
  <2>7. Awakening'
    <3>1. ~Expired' /\ ~NtfPending' /\ ~waitForNtf' /\ ~(AtNfcc' /\ nfcc'[1].kind \in Ext)
      BY <1>1, <1>5, <2>1, <2>3, SameAnswers
    <3>2. pc' = "idle" /\ ~Asked' /\ client' # "timeout"
      BY <1>1, <1>5, <2>1 DEF Expired
    <3> QED
      BY <3>1, <3>2 DEF Awakening
  <2> QED
    BY <2>4, <2>5, <2>6, <2>7
<1> QED
  BY <1>3, <1>4 DEF Call

-----------------------------------------------------------------------------
(***************************************************************************)
(* The transport.                                                          *)
(***************************************************************************)
\* A message that is neither a packet nor a timeout moves no token.
LEMMA Posted ==
  ASSUME QueueOK, NEW m \in Messages \ {"read", "timeout"}, m = "rx" \/ ~Queued(m),
         queue' = Append(queue, m), UNCHANGED <<client, rspData>>
  PROVE  /\ QueueOK' /\ \A x : Queued(x)' <=> Queued(x) \/ x = m
         /\ (ReadWaits' <=> ReadWaits) /\ (Read' <=> Read) /\ (Expired' <=> Expired) /\ (Fresh' <=> Fresh)
<1>1. QueueOK' /\ \A x : Queued(x)' <=> Queued(x) \/ x = m
  BY QueueGrows
<1>2. (Queued("read")' <=> Queued("read")) /\ (Queued("timeout")' <=> Queued("timeout"))
  BY <1>1
<1> QED
  BY <1>1, <1>2 DEF ReadWaits, Read, Expired, Fresh, Queued, IsRsp

LEMMA WriterStep == WindowInv /\ Writer => WindowInv'
<1> SUFFICES ASSUME WindowInv, Writer PROVE WindowInv'
  OBVIOUS
<1>1. /\ tx # "none" /\ pc = "sending" /\ cbData = "none" /\ ~Queued("written") /\ ~Queued("unwritten")
      /\ cmdData \in Packets /\ cmdData.mt = "cmd" /\ cmdData.kind \in Kinds
  BY DEF Writer, WindowInv, Base, TransportOK, CallerOK, TypesOK
<1>2. UNCHANGED <<win, extCbData, halExtEnabled, waitForNtf, cmdData, cbData, pc, calls, client, answered,
                  rspData, timer, armed, wire, events, lost>>
  BY DEF Writer, shared, host, router
<1>3. InTime' /\ TypesOK' /\ CallerOK' /\ FlagsOK'
  BY <1>1, <1>2 DEF WindowInv, Base, InTime, TypesOK, CallerOK, FlagsOK, IsExt, Writer
<1>4. CASE tx = "request" /\ tx' = "sent" /\ UNCHANGED queue /\ cmdData.kind = "data" /\ UNCHANGED nfcc
  <2>1. UNCHANGED Outside
    BY <1>2, <1>4 DEF Outside
  <2>2. WireOK' /\ QueueOK' /\ NfccOK' /\ OneNtf' /\ Announced'
    BY <2>1, SameOutside, SameAnswers DEF WindowInv, Base
  <2>3. ~Holds' /\ ~Holds /\ ~Asked /\ ~Asked' /\ ~IsExt /\ ~IsExt'
    BY <1>1, <1>2, <1>4 DEF Holds, Asked, IsExt, Ext
  <2>4. TransportOK'
    BY <1>1, <1>2, <1>4, <2>1, SameOutside DEF WindowInv, Base, TransportOK, FromNfcc
  <2>5. OneToken' /\ Own' /\ Kept'
    BY <1>1, <1>2, <2>1, <2>3, SameOutside, SameAnswers DEF WindowInv, OneToken, Own, Kept
  <2>6. Awakening'
    BY <1>1, <1>2, <2>1, <2>3, SameOutside, SameAnswers DEF WindowInv, Awakening, After
  <2> QED
    BY <1>3, <2>2, <2>4, <2>5, <2>6 DEF WindowInv, Base
<1>5. CASE tx = "request" /\ tx' = "sent" /\ UNCHANGED queue /\ cmdData.kind # "data" /\ nfcc' = Append(nfcc, cmdData)
  <2>1. Holds
    BY <1>1, <1>5 DEF Holds, Unwritten
  <2>2. win = 0 /\ ~Read /\ ~Expired /\ ~Unanswered /\ ~NtfPending
    BY <2>1, HolderIsAlone
  <2>3. nfcc = <<>> /\ WireMine /\ ~(Fresh /\ (IsRsp(rspData) \/ IsNtf(rspData)))
    BY <2>2, NothingToOwn DEF WindowInv, Base
  <2>4. nfcc' = <<cmdData>> /\ nfcc'[1] = cmdData /\ AtNfcc' /\ ~NtfAtNfcc' /\ NfccOK'
    BY <1>1, <1>2, <1>5, <2>3 DEF AtNfcc, NtfAtNfcc, NfccOK
  <2>5. /\ \A m : Queued(m)' <=> Queued(m)
        /\ (ReadWaits' <=> ReadWaits) /\ (Fresh' <=> Fresh) /\ ~Read' /\ ~Expired' /\ ~FreshRsp' /\ ~NtfRead'
        /\ (QueueOK' <=> QueueOK)
    BY <1>2, <1>5, <2>2, <2>3
    DEF Queued, Contains, ReadWaits, Fresh, Read, Expired, FreshRsp, NtfRead, QueueOK, IsRsp, IsNtf
  <2>6. ~RspOnWire' /\ ~NtfOnWire' /\ WireOK' /\ WireMine'
    BY <1>2, <2>2, <2>3
    DEF RspOnWire, NtfOnWire, Unanswered, NtfPending, WireOK, WindowInv, Base, IsRsp, IsNtf, FromNfcc,
        WireMine, Mine
  <2>7. ~NtfPending' /\ Unanswered' /\ OneNtf' /\ Announced'
    BY <2>4, <2>5, <2>6 DEF NtfPending, Unanswered, OneNtf, Announced, WireDull, RspOnWire
  <2>8. ~Holds'
    BY <1>1, <1>2, <1>5, <2>5 DEF Holds, Unwritten
  <2>9. TransportOK'
    BY <1>1, <1>2, <1>5, <2>5 DEF WindowInv, Base, TransportOK, FromNfcc
  <2>10. OneToken' /\ Kept'
    BY <1>2, <2>2, <2>4, <2>5, <2>6, <2>8 DEF OneToken, Kept
  <2>11. Own'
    BY <1>2, <2>3, <2>4, <2>5, <2>6 DEF Own, FreshRsp, NtfRead, Mine
  <2>12. Awakening'
    <3>1. Asked' <=> IsExt
      BY <1>1, <1>2 DEF Asked, IsExt
    <3>2. nfcc'[1].kind \in Ext => Asked'
      BY <2>4, <3>1 DEF IsExt
    <3>3. Asked' => Asleep' /\ win' = 0 /\ ~waitForNtf' /\ ~(client' = "unblock" /\ IsRsp(rspData'))
      BY <1>1, <1>2, <2>1, <3>1 DEF WindowInv, Awakening, Asked, IsExt, Asleep
    <3> QED
      BY <1>1, <1>2, <2>5, <2>7, <3>2, <3>3 DEF Awakening, After, Expired
  <2> QED
    BY <1>3, <2>4, <2>5, <2>6, <2>7, <2>9, <2>10, <2>11, <2>12 DEF WindowInv, Base
<1>6. ASSUME NEW m \in {"written", "unwritten"}, tx' = "none", queue' = Append(queue, m), UNCHANGED nfcc,
             m = "unwritten" <=> tx = "request"
      PROVE  WindowInv'
  <2>1. /\ QueueOK' /\ \A x : Queued(x)' <=> Queued(x) \/ x = m
        /\ (ReadWaits' <=> ReadWaits) /\ (Read' <=> Read) /\ (Expired' <=> Expired) /\ (Fresh' <=> Fresh)
    BY <1>1, <1>2, <1>6, Posted DEF Messages, WindowInv, Base
  <2>2. UNCHANGED <<wire, nfcc, rspData>>
    BY <1>2, <1>6
  <2>3. WireOK' /\ NfccOK' /\ OneNtf' /\ Announced'
    BY <2>1, <2>2, SameAnswers DEF WindowInv, Base
  <2>4. Holds' <=> Holds
    BY <1>1, <1>2, <1>6, <2>1 DEF Holds, Unwritten, WindowInv, Base, TypesOK
  <2>5. TransportOK'
    BY <1>1, <1>2, <1>6, <2>1 DEF WindowInv, Base, TransportOK, FromNfcc
  <2>6. (Asked' <=> Asked) /\ (Asleep' <=> Asleep) /\ (IsExt' <=> IsExt)
    BY <1>2 DEF Asked, Asleep, IsExt
  <2>7. OneToken' /\ Own' /\ Kept'
    BY <1>2, <2>1, <2>2, <2>4, <2>6, SameAnswers DEF WindowInv, OneToken, Own, Kept, Mine
  <2>8. Awakening'
    BY <1>1, <1>2, <2>1, <2>2, <2>4, <2>6, SameAnswers DEF WindowInv, Awakening, Matched, Answered, After
  <2> QED
    BY <1>3, <2>1, <2>3, <2>5, <2>7, <2>8 DEF WindowInv, Base
<1> QED
  BY <1>4, <1>5, <1>6 DEF Writer

LEMMA ReaderStep == WindowInv /\ Reader => WindowInv'
<1> SUFFICES ASSUME WindowInv, Reader PROVE WindowInv'
  OBVIOUS
<1> DEFINE p == Head(wire)
<1>1. /\ UNCHANGED <<win, extCbData, halExtEnabled, waitForNtf, cmdData, cbData, pc, calls, client,
                     answered, timer, tx, nfcc, events, lost>>
      /\ armed /\ wire # <<>> /\ ~Queued("rx") /\ rspData' = p /\ wire' = Tail(wire)
      /\ queue' = Append(queue, "read") /\ ~armed'
  BY DEF Reader, shared, host, router, WindowInv, Base, InTime, Queued
<1>2. ~ReadWaits /\ ~Queued("read") /\ client \in {"fetch", "timeout"} /\ ~Fresh /\ ~Read /\ ~FreshRsp /\ ~NtfRead
  BY <1>1 DEF WindowInv, Base, TransportOK, TypesOK, ReadWaits, Fresh, Read, FreshRsp, NtfRead, Queued
<1>3. /\ WireOK' /\ FromNfcc(p)
      /\ RspOnWire <=> RspOnWire' \/ IsRsp(p)
      /\ NtfOnWire <=> NtfOnWire' \/ IsNtf(p)
      /\ IsRsp(p) => ~RspOnWire'
      /\ IsNtf(p) => ~RspOnWire' /\ ~NtfOnWire'
      /\ p = wire[1] /\ 1 \in 1..Len(wire)
      /\ \A i \in 1..Len(wire') : i + 1 \in 1..Len(wire) /\ wire'[i] = wire[i + 1]
  BY <1>1, WireShrinks DEF WindowInv, Base
<1> HIDE DEF p
<1>4. QueueOK' /\ \A x : Queued(x)' <=> Queued(x) \/ x = "read"
  BY <1>1, <1>2, QueueGrows DEF Messages, WindowInv, Base
<1>5. /\ Fresh' /\ ReadWaits' /\ (Read' <=> IsRsp(p)) /\ (FreshRsp' <=> IsRsp(p)) /\ (NtfRead' <=> IsNtf(p))
      /\ (Expired' <=> Expired)
  BY <1>1, <1>2, <1>4 DEF Fresh, ReadWaits, Queued, Read, FreshRsp, NtfRead, Expired, IsRsp, IsNtf
<1>6. (AtNfcc' <=> AtNfcc) /\ (NtfAtNfcc' <=> NtfAtNfcc) /\ NfccOK'
  BY <1>1 DEF AtNfcc, NtfAtNfcc, NfccOK, WindowInv, Base
<1>7. (Unanswered' <=> Unanswered) /\ (NtfPending' <=> NtfPending)
  BY <1>2, <1>3, <1>5, <1>6 DEF Unanswered, NtfPending
<1>8. (Holds' <=> Holds) /\ (Asked' <=> Asked) /\ (IsExt' <=> IsExt) /\ (Asleep' <=> Asleep)
  BY <1>1, <1>4 DEF Holds, Unwritten, Asked, IsExt, Asleep
<1>9. Base'
  <2>1. InTime' /\ CallerOK' /\ FlagsOK'
    BY <1>1, <1>8 DEF InTime, CallerOK, FlagsOK, WindowInv, Base
  <2>2. TypesOK'
    BY <1>1, <1>3 DEF TypesOK, WindowInv, Base, FromNfcc
  <2>3. TransportOK'
    BY <1>1, <1>2, <1>3, <1>4, <1>5 DEF TransportOK, WindowInv, Base, FromNfcc
  <2> QED
    BY <1>3, <1>4, <1>6, <2>1, <2>2, <2>3 DEF Base
<1>10. OneToken'
  BY <1>1, <1>2, <1>3, <1>5, <1>6, <1>8 DEF OneToken, WindowInv
<1>11. OneNtf'
  BY <1>2, <1>3, <1>5, <1>6 DEF OneNtf, WindowInv
<1>12. Own'
  <2>1. WireMine => WireMine' /\ (IsRsp(p) \/ IsNtf(p) => Mine(p))
    BY <1>1, <1>3 DEF WireMine, IsRsp, IsNtf, Mine
  <2> QED
    BY <1>1, <1>8, <2>1 DEF Own, WindowInv, Mine, IsRsp, IsNtf
<1>13. Announced'
  <2>1. WireLoud => WireLoud' /\ (IsRsp(p) => Loud(p))
    BY <1>3 DEF WireLoud, IsRsp, Loud
  <2>2. WireDull => WireDull' /\ (IsRsp(p) => ~Loud(p))
    BY <1>3 DEF WireDull, IsRsp, Loud
  <2>3. Loud(rspData)' <=> Loud(p)
    BY <1>1 DEF Loud
  <2> QED
    BY <1>5, <1>7, <2>1, <2>2, <2>3 DEF Announced, WindowInv
<1>14. Awakening'
  BY <1>1, <1>2, <1>5, <1>6, <1>7, <1>8 DEF Awakening, Matched, Answered, WindowInv, After
<1>15. Kept'
  BY <1>1, <1>2, <1>3, <1>5, <1>6, <1>8 DEF Kept, WindowInv
<1> QED
  BY <1>9, <1>10, <1>11, <1>12, <1>13, <1>14, <1>15 DEF WindowInv

-----------------------------------------------------------------------------
(***************************************************************************)
(* The NFCC.                                                               *)
(***************************************************************************)
NfccMoves == UNCHANGED <<shared, host, router, rspData, timer, queue, armed, tx>>

\* A step of the NFCC leaves what is on this side of the wire alone.
LEMMA NfccAlone ==
  ASSUME WindowInv, NfccMoves
  PROVE  /\ UNCHANGED <<win, extCbData, halExtEnabled, waitForNtf, cmdData, cbData, pc, calls, client,
                        answered, rspData, timer, tx, queue, armed>>
         /\ QueueOK' /\ InTime' /\ CallerOK' /\ FlagsOK' /\ TransportOK'
         /\ (Holds' <=> Holds) /\ (Asked' <=> Asked) /\ (IsExt' <=> IsExt) /\ (Asleep' <=> Asleep)
         /\ (Read' <=> Read) /\ (Expired' <=> Expired) /\ (Fresh' <=> Fresh)
         /\ (FreshRsp' <=> FreshRsp) /\ (NtfRead' <=> NtfRead)
<1>1. UNCHANGED <<win, extCbData, halExtEnabled, waitForNtf, cmdData, cbData, pc, calls, client,
                  answered, rspData, timer, tx, queue, armed>>
  BY DEF NfccMoves, shared, host, router
<1>2. QueueOK' /\ \A x : Queued(x)' <=> Queued(x)
  BY <1>1 DEF QueueOK, Queued, WindowInv, Base
<1>3. (ReadWaits' <=> ReadWaits) /\ (Fresh' <=> Fresh) /\ (Expired' <=> Expired)
  BY <1>1, <1>2 DEF ReadWaits, Queued, Fresh, Expired
<1>4. (Read' <=> Read) /\ (FreshRsp' <=> FreshRsp) /\ (NtfRead' <=> NtfRead)
  BY <1>1, <1>3 DEF Read, FreshRsp, NtfRead, IsRsp, IsNtf
<1>5. (Holds' <=> Holds) /\ (Asked' <=> Asked) /\ (IsExt' <=> IsExt) /\ (Asleep' <=> Asleep)
  BY <1>1, <1>2 DEF Holds, Unwritten, Asked, IsExt, Asleep
<1>6. InTime' /\ CallerOK' /\ FlagsOK'
  BY <1>1, <1>5 DEF InTime, CallerOK, FlagsOK, WindowInv, Base
<1>7. TransportOK'
  BY <1>1, <1>2, <1>3 DEF TransportOK, WindowInv, Base, FromNfcc
<1> QED
  BY <1>1, <1>2, <1>3, <1>4, <1>5, <1>6, <1>7

\* While the NFCC has a command, nothing comes from it.
LEMMA NothingFromNfcc ==
  ASSUME WindowInv, AtNfcc
  PROVE  /\ win = 0 /\ ~Holds /\ ~RspOnWire /\ ~Read /\ ~Expired /\ ~FreshRsp /\ ~NtfPending
         /\ nfcc = <<nfcc[1]>> /\ nfcc[1] \in Packets /\ nfcc[1].kind \in Kinds \ {"data"} /\ nfcc[1].mt = "cmd"
         /\ Asked => Asleep
         /\ ~(pc \in {"stop", "timerNtf", "waitNtf"} \cup After)
<1>1. win = 0 /\ ~Holds /\ ~RspOnWire /\ ~Read /\ ~Expired
  BY DEF WindowInv, OneToken
<1>2. ~FreshRsp
  BY <1>1 DEF FreshRsp, Read, Fresh, ReadWaits, Queued
<1>3. ~NtfPending
  BY DEF NtfPending, NtfAtNfcc, AtNfcc, WindowInv, OneNtf
<1>4. nfcc = <<nfcc[1]>> /\ nfcc[1] \in Packets /\ nfcc[1].kind \in Kinds \ {"data"} /\ nfcc[1].mt = "cmd"
  BY DEF AtNfcc, WindowInv, Base, NfccOK
<1>5. Unanswered
  BY DEF Unanswered
<1>6. /\ Asked => Asleep
      /\ ~(pc \in {"stop", "timerNtf", "waitNtf"} \cup After)
  BY <1>5 DEF WindowInv, Awakening, Matched, Answered
<1> QED
  BY <1>1, <1>2, <1>3, <1>4, <1>6

LEMMA RespondsStep == WindowInv /\ NfccResponds /\ NfccMoves => WindowInv'
<1> SUFFICES ASSUME WindowInv, NfccResponds, NfccMoves PROVE WindowInv'
  OBVIOUS
<1> DEFINE c == nfcc[1]
<1>1. nfcc # <<>> /\ Head(nfcc) = c /\ AtNfcc
  BY DEF NfccResponds, AtNfcc
<1>2. /\ win = 0 /\ ~Holds /\ ~RspOnWire /\ ~Read /\ ~Expired /\ ~FreshRsp /\ ~NtfPending
      /\ nfcc = <<c>> /\ c \in Packets /\ c.kind \in Kinds \ {"data"} /\ c.mt = "cmd"
      /\ Asked => Asleep
      /\ ~(pc \in {"stop", "timerNtf", "waitNtf"} \cup After)
  BY <1>1, NothingFromNfcc
<1>3. PICK ok \in BOOLEAN :
        /\ wire' = Append(wire, Packet("rsp", c.kind, c.n, ok))
        /\ nfcc' = IF c.kind = "reset" /\ ok THEN [nfcc EXCEPT ![1].mt = "ntf"] ELSE Tail(nfcc)
        /\ UNCHANGED <<events, lost>>
  BY <1>1 DEF NfccResponds, Sends
<1> DEFINE p == Packet("rsp", c.kind, c.n, ok)
           r == Packet("ntf", c.kind, c.n, c.ok)
           loud == c.kind = "reset" /\ ok
<1>4. p \in Packets /\ FromNfcc(p) /\ IsRsp(p) /\ ~IsNtf(p) /\ p.kind = c.kind /\ p.n = c.n /\ (Loud(p) <=> loud)
  BY <1>2 DEF Packet, Packets, FromNfcc, IsRsp, IsNtf, Loud
<1>5. nfcc' = IF loud THEN <<r>> ELSE <<>>
  <2>1. c = [mt |-> "cmd", kind |-> c.kind, n |-> c.n, ok |-> c.ok]
    BY <1>2 DEF Packets
  <2>2. CASE loud
    <3>1. nfcc' = [nfcc EXCEPT ![1] = [nfcc[1] EXCEPT !.mt = "ntf"]]
      BY <1>3, <2>2
    <3>2. [c EXCEPT !.mt = "ntf"] = r
      BY <2>1 DEF Packet
    <3> QED
      BY <1>2, <2>2, <3>1, <3>2
  <2>3. CASE ~loud
    <3>1. nfcc' = Tail(nfcc)
      BY <1>3, <2>3
    <3>2. \A x : Tail(<<x>>) = <<>>
      OBVIOUS
    <3> QED
      BY <1>2, <2>3, <3>1, <3>2
  <2> QED
    BY <2>2, <2>3
<1>6. r \in Packets /\ r.kind = c.kind /\ r.n = c.n /\ r.mt = "ntf"
  BY <1>2 DEF Packet, Packets
<1> HIDE DEF p, r
<1>7. ~AtNfcc' /\ (NtfAtNfcc' <=> loud) /\ NfccOK' /\ (loud => nfcc'[1] = r) /\ (~loud => nfcc' = <<>>)
  BY <1>2, <1>5, <1>6 DEF AtNfcc, NtfAtNfcc, NfccOK
<1>8. /\ WireOK' /\ RspOnWire' /\ ~NtfOnWire'
      /\ \A i \in 1..Len(wire') : (i \in 1..Len(wire) /\ wire'[i] = wire[i]) \/ wire'[i] = p
  BY <1>2, <1>3, <1>4, WireGrows DEF p, NtfPending, WindowInv, Base
<1>9. /\ UNCHANGED <<win, extCbData, halExtEnabled, waitForNtf, cmdData, cbData, pc, calls, client,
                     answered, rspData, timer, tx, queue, armed>>
      /\ QueueOK' /\ InTime' /\ CallerOK' /\ FlagsOK' /\ TransportOK'
      /\ (Holds' <=> Holds) /\ (Asked' <=> Asked) /\ (IsExt' <=> IsExt) /\ (Asleep' <=> Asleep)
      /\ (Read' <=> Read) /\ (Expired' <=> Expired) /\ (Fresh' <=> Fresh)
      /\ (FreshRsp' <=> FreshRsp) /\ (NtfRead' <=> NtfRead)
  BY NfccAlone
<1>10. ~NtfRead /\ (NtfPending' <=> loud) /\ Unanswered'
  BY <1>2, <1>7, <1>8, <1>9 DEF NtfPending, Unanswered
<1>11. Base'
  BY <1>3, <1>7, <1>8, <1>9 DEF Base, TypesOK, WindowInv
<1>12. OneToken' /\ OneNtf'
  BY <1>2, <1>7, <1>8, <1>9, <1>10 DEF OneToken, OneNtf
<1>13. Own'
  <2>1. SUFFICES ASSUME IsExt', pc' \in Waiting \cup After
                 PROVE  (nfcc' # <<>> => Mine(nfcc[1])') /\ WireMine'
                        /\ (Fresh' /\ (IsRsp(rspData)' \/ IsNtf(rspData)') => Mine(rspData)')
    BY DEF Own
  <2>2. Mine(c) /\ WireMine /\ (Fresh /\ (IsRsp(rspData) \/ IsNtf(rspData)) => Mine(rspData))
    BY <1>1, <1>9, <2>1 DEF WindowInv, Own
  <2>3. nfcc' # <<>> => Mine(nfcc[1])'
    BY <1>6, <1>7, <1>9, <2>2 DEF Mine
  <2>4. WireMine'
    BY <1>4, <1>8, <1>9, <2>2 DEF WireMine, Mine
  <2> QED
    BY <1>9, <2>2, <2>3, <2>4 DEF Mine, IsRsp, IsNtf
<1>14. Announced'
  <2>1. \A i \in 1..Len(wire') : IsRsp(wire'[i]) => wire'[i] = p
    BY <1>2, <1>8 DEF RspOnWire
  <2> QED
    BY <1>2, <1>4, <1>9, <1>10, <2>1 DEF Announced, WireLoud, WireDull
<1>15. Awakening'
  <2>1. loud => Asked
    BY <1>1 DEF WindowInv, Awakening, Ext
  <2>2. Asked => IsExt /\ pc \in Waiting
    BY DEF Asked, Waiting
  <2> QED
    BY <1>2, <1>7, <1>9, <1>10, <2>1, <2>2 DEF Awakening, WindowInv, Expired, After
<1>16. Kept'
  BY <1>8 DEF Kept
<1> QED
  BY <1>11, <1>12, <1>13, <1>14, <1>15, <1>16 DEF WindowInv

LEMMA NotifiesStep == WindowInv /\ NfccNotifies /\ NfccMoves => WindowInv'
<1> SUFFICES ASSUME WindowInv, NfccNotifies, NfccMoves PROVE WindowInv'
  OBVIOUS
<1> DEFINE p == nfcc[1]
<1>1. /\ nfcc # <<>> /\ Head(nfcc) = p /\ NtfAtNfcc /\ ~AtNfcc
      /\ wire' = Append(wire, p) /\ nfcc' = Tail(nfcc) /\ UNCHANGED <<events, lost>>
  BY DEF NfccNotifies, NtfAtNfcc, AtNfcc, Sends
<1>2. nfcc = <<p>> /\ p \in Packets /\ p.mt = "ntf" /\ p.kind = "reset"
  BY <1>1 DEF WindowInv, Base, NfccOK, NtfAtNfcc
<1>3. nfcc' = <<>>
  <2>1. \A x : Tail(<<x>>) = <<>>
    OBVIOUS
  <2> QED
    BY <1>1, <1>2, <2>1
<1>4. FromNfcc(p) /\ IsNtf(p) /\ ~IsRsp(p)
  BY <1>2 DEF FromNfcc, IsNtf, IsRsp
<1>5. NtfPending /\ ~NtfOnWire /\ ~NtfRead
  BY <1>1 DEF NtfPending, WindowInv, OneNtf
<1>6. ~AtNfcc' /\ ~NtfAtNfcc' /\ NfccOK'
  BY <1>3 DEF AtNfcc, NtfAtNfcc, NfccOK
<1>7. /\ WireOK' /\ (RspOnWire' <=> RspOnWire) /\ NtfOnWire'
      /\ \A i \in 1..Len(wire') : (i \in 1..Len(wire) /\ wire'[i] = wire[i]) \/ wire'[i] = p
  BY <1>1, <1>4, <1>5, WireGrows DEF WindowInv, Base
<1>8. /\ UNCHANGED <<win, extCbData, halExtEnabled, waitForNtf, cmdData, cbData, pc, calls, client,
                     answered, rspData, timer, tx, queue, armed>>
      /\ QueueOK' /\ InTime' /\ CallerOK' /\ FlagsOK' /\ TransportOK'
      /\ (Holds' <=> Holds) /\ (Asked' <=> Asked) /\ (IsExt' <=> IsExt) /\ (Asleep' <=> Asleep)
      /\ (Read' <=> Read) /\ (Expired' <=> Expired) /\ (Fresh' <=> Fresh)
      /\ (FreshRsp' <=> FreshRsp) /\ (NtfRead' <=> NtfRead)
  BY NfccAlone
<1>9. NtfPending' /\ (Unanswered' <=> Unanswered)
  BY <1>1, <1>6, <1>7, <1>8 DEF NtfPending, Unanswered
<1>10. Base'
  BY <1>1, <1>6, <1>7, <1>8 DEF Base, TypesOK, WindowInv
<1>11. OneToken' /\ OneNtf'
  BY <1>1, <1>5, <1>6, <1>7, <1>8 DEF OneToken, OneNtf, WindowInv
<1>12. Own'
  <2>1. SUFFICES ASSUME IsExt', pc' \in Waiting \cup After
                 PROVE  WireMine' /\ (Fresh' /\ (IsRsp(rspData)' \/ IsNtf(rspData)') => Mine(rspData)')
    BY <1>3 DEF Own
  <2>2. Mine(p) /\ WireMine /\ (Fresh /\ (IsRsp(rspData) \/ IsNtf(rspData)) => Mine(rspData))
    BY <1>1, <1>8, <2>1 DEF WindowInv, Own
  <2>3. WireMine'
    BY <1>7, <1>8, <2>2 DEF WireMine, Mine
  <2> QED
    BY <1>8, <2>2, <2>3 DEF Mine, IsRsp, IsNtf
<1>13. Announced'
  <2>1. \A i \in 1..Len(wire') : IsRsp(wire'[i]) => i \in 1..Len(wire) /\ wire'[i] = wire[i]
    BY <1>4, <1>7
  <2> QED
    BY <1>5, <1>8, <1>9, <2>1 DEF Announced, WireLoud, Loud, WindowInv
<1>14. Awakening'
  BY <1>5, <1>6, <1>8, <1>9 DEF Awakening, WindowInv, Matched, Answered
<1>15. Kept'
  BY <1>1, <1>7, <1>8 DEF Kept, WindowInv
<1> QED
  BY <1>10, <1>11, <1>12, <1>13, <1>14, <1>15 DEF WindowInv

LEMMA ForgetsStep == WindowInv /\ NfccForgets /\ NfccMoves => WindowInv'
<1> SUFFICES ASSUME WindowInv, NfccForgets, NfccMoves PROVE WindowInv'
  OBVIOUS
<1> DEFINE c == nfcc[1]
<1>1. /\ nfcc # <<>> /\ Head(nfcc) = c /\ AtNfcc /\ nfcc' = Tail(nfcc)
      /\ UNCHANGED <<wire, events>> /\ (c.kind \in Stack => lost')
  <2>1. nfcc # <<>> /\ Head(nfcc) = c /\ c.mt # "ntf"
    BY DEF NfccForgets, WindowInv, Base, InTime
  <2> QED
    BY <2>1 DEF NfccForgets, AtNfcc, WindowInv, Base, NfccOK
<1>2. /\ win = 0 /\ ~Holds /\ ~RspOnWire /\ ~Read /\ ~Expired /\ ~FreshRsp /\ ~NtfPending
      /\ nfcc = <<c>> /\ c.kind \in Kinds
      /\ Asked => Asleep
      /\ ~(pc \in {"stop", "timerNtf", "waitNtf"} \cup After)
  BY <1>1, NothingFromNfcc
<1>3. nfcc' = <<>>
  <2>1. \A x : Tail(<<x>>) = <<>>
    OBVIOUS
  <2> QED
    BY <1>1, <1>2, <2>1
<1>4. ~AtNfcc' /\ ~NtfAtNfcc' /\ NfccOK'
  BY <1>3 DEF AtNfcc, NtfAtNfcc, NfccOK
<1>5. /\ UNCHANGED <<win, extCbData, halExtEnabled, waitForNtf, cmdData, cbData, pc, calls, client,
                     answered, rspData, timer, tx, queue, armed>>
      /\ QueueOK' /\ InTime' /\ CallerOK' /\ FlagsOK' /\ TransportOK'
      /\ (Holds' <=> Holds) /\ (Asked' <=> Asked) /\ (IsExt' <=> IsExt) /\ (Asleep' <=> Asleep)
      /\ (Read' <=> Read) /\ (Expired' <=> Expired) /\ (Fresh' <=> Fresh)
      /\ (FreshRsp' <=> FreshRsp) /\ (NtfRead' <=> NtfRead)
  BY NfccAlone
<1>6. ~RspOnWire' /\ ~NtfOnWire' /\ WireOK'
  BY <1>1, <1>2 DEF NtfPending, RspOnWire, NtfOnWire, WireOK, IsRsp, IsNtf, FromNfcc, WindowInv, Base
<1>7. ~NtfPending' /\ ~Unanswered'
  BY <1>2, <1>4, <1>5, <1>6 DEF NtfPending, Unanswered
<1>8. Base'
  BY <1>1, <1>4, <1>5, <1>6 DEF Base, TypesOK, WindowInv
<1>9. OneToken' /\ OneNtf'
  BY <1>2, <1>4, <1>5, <1>6, <1>7 DEF OneToken, OneNtf, NtfPending
<1>10. Own'
  BY <1>4, <1>7, NothingToOwn DEF Own, WindowInv, Base, NfccOK, Unanswered, NtfPending, AtNfcc, NtfAtNfcc,
     FreshRsp, NtfRead, RspOnWire, NtfOnWire, WireMine
<1>11. Announced'
  BY <1>6, <1>7 DEF Announced, WireDull, RspOnWire, Unanswered
<1>12. Awakening'
  BY <1>2, <1>4, <1>5, <1>7 DEF Awakening, WindowInv, Expired, After
<1>13. Kept'
  <2>1. CASE c.kind \in Stack
    BY <1>1, <2>1 DEF Kept
  <2>2. CASE c.kind \in Ext
    <3>1. Asked /\ Asleep
      BY <1>1, <1>2, <2>2 DEF WindowInv, Awakening
    <3> QED
      BY <1>5, <3>1 DEF Kept
  <2> QED
    BY <1>2, <2>1, <2>2, HalAssumption
<1> QED
  BY <1>8, <1>9, <1>10, <1>11, <1>12, <1>13 DEF WindowInv

LEMMA EventStep == WindowInv /\ Event => WindowInv'
<1> SUFFICES ASSUME WindowInv, Event PROVE WindowInv'
  OBVIOUS
<1>0. PICK k \in {"event", "error"} :
        /\ Sends(Packet("ntf", k, events + 1, TRUE))
        /\ Owes(Packet("ntf", k, events + 1, TRUE))
  BY DEF Event, NfccEvent, HeldBack
<1> DEFINE p == Packet("ntf", k, events + 1, TRUE)
<1>1. events' = events + 1 /\ wire' = Append(wire, p) /\ UNCHANGED <<nfcc, lost>> /\ NfccMoves
  BY <1>0 DEF Event, NfccEvent, Sends, NfccMoves
<1>2. FromNfcc(p) /\ ~IsRsp(p) /\ ~IsNtf(p) /\ events' \in Nat
  BY <1>1 DEF FromNfcc, IsRsp, IsNtf, Packet, Packets, WindowInv, Base, TypesOK
<1> HIDE DEF p
<1>3. /\ WireOK' /\ (RspOnWire' <=> RspOnWire) /\ (NtfOnWire' <=> NtfOnWire)
      /\ \A i \in 1..Len(wire') : (i \in 1..Len(wire) /\ wire'[i] = wire[i]) \/ wire'[i] = p
  BY <1>1, <1>2, WireGrows DEF WindowInv, Base
<1>4. /\ UNCHANGED <<win, extCbData, halExtEnabled, waitForNtf, cmdData, cbData, pc, calls, client,
                     answered, rspData, timer, tx, queue, armed>>
      /\ QueueOK' /\ InTime' /\ CallerOK' /\ FlagsOK' /\ TransportOK'
      /\ (Holds' <=> Holds) /\ (Asked' <=> Asked) /\ (IsExt' <=> IsExt) /\ (Asleep' <=> Asleep)
      /\ (Read' <=> Read) /\ (Expired' <=> Expired) /\ (Fresh' <=> Fresh)
      /\ (FreshRsp' <=> FreshRsp) /\ (NtfRead' <=> NtfRead)
  BY <1>1, NfccAlone
<1>5. (AtNfcc' <=> AtNfcc) /\ (NtfAtNfcc' <=> NtfAtNfcc) /\ NfccOK'
  BY <1>1 DEF AtNfcc, NtfAtNfcc, NfccOK, WindowInv, Base
<1>6. (NtfPending' <=> NtfPending) /\ (Unanswered' <=> Unanswered)
  BY <1>3, <1>4, <1>5 DEF NtfPending, Unanswered
<1>7. Base'
  BY <1>2, <1>3, <1>4, <1>5 DEF Base, TypesOK, WindowInv
<1>8. OneToken' /\ OneNtf'
  BY <1>3, <1>4, <1>5 DEF OneToken, OneNtf, WindowInv
<1>9. Own'
  <2>1. \A i \in 1..Len(wire') : IsRsp(wire'[i]) \/ IsNtf(wire'[i]) => i \in 1..Len(wire) /\ wire'[i] = wire[i]
    BY <1>2, <1>3
  <2>2. WireMine => WireMine'
    BY <1>4, <2>1 DEF WireMine, Mine
  <2> QED
    BY <1>1, <1>4, <2>2 DEF Own, WindowInv, Mine, IsRsp, IsNtf
<1>10. Announced'
  <2>1. \A i \in 1..Len(wire') : IsRsp(wire'[i]) => i \in 1..Len(wire) /\ wire'[i] = wire[i]
    BY <1>2, <1>3
  <2>2. (WireLoud => WireLoud') /\ (WireDull => WireDull')
    BY <2>1 DEF WireLoud, WireDull, Loud
  <2> QED
    BY <1>4, <1>6, <2>2 DEF Announced, WindowInv, Loud
<1>11. Awakening'
  BY <1>1, <1>4, <1>5, <1>6 DEF Awakening, WindowInv, Matched, Answered
<1>12. Kept'
  BY <1>1, <1>3, <1>4, <1>5 DEF Kept, WindowInv
<1> QED
  BY <1>7, <1>8, <1>9, <1>10, <1>11, <1>12 DEF WindowInv

-----------------------------------------------------------------------------
(***************************************************************************)
(* The timer and the client thread.                                        *)
(***************************************************************************)
\* The timer expires only under a caller that waits for a lost response.
LEMMA TimerStep == WindowInv /\ TimerExpires => WindowInv'
<1> SUFFICES ASSUME WindowInv, TimerExpires PROVE WindowInv'
  OBVIOUS
<1>1. /\ UNCHANGED <<win, extCbData, halExtEnabled, waitForNtf, cmdData, cbData, pc, calls, client,
                     answered, rspData, tx, armed, wire, nfcc, events, lost>>
      /\ timer = "running" /\ timer' = "stopped" /\ queue' = Append(queue, "timeout")
  BY DEF TimerExpires, shared, host, router, chip
<1>2. pc \in {"wait", "waitNtf"} /\ Quiet /\ Asleep /\ IsExt
  BY <1>1 DEF TimerExpires, Awaited, WindowInv, Base, FlagsOK, CallerOK, Asleep, Waiting, After
<1>3. /\ \A m : ~Queued(m)
      /\ ~(AtNfcc \/ NtfAtNfcc \/ RspOnWire \/ NtfOnWire \/ ReadWaits \/ Fresh)
      /\ ~(Read \/ Expired \/ Unanswered \/ NtfPending) /\ WireMine
  BY <1>2, NothingIfQuiet
<1>4. pc = "wait" /\ Asked /\ win = 0 /\ ~waitForNtf /\ client = "fetch"
  <2>1. pc # "waitNtf"
    BY <1>2, <1>3 DEF WindowInv, Awakening, Matched
  <2>2. pc = "wait" /\ Asked
    BY <1>2, <2>1 DEF Asked
  <2> QED
    BY <1>2, <2>2 DEF WindowInv, Awakening, Quiet
<1>5. QueueOK' /\ \A x : Queued(x)' <=> x = "timeout"
  BY <1>1, <1>3, QueueGrows DEF Messages, WindowInv, Base
<1>6. ~ReadWaits' /\ ~Fresh' /\ ~Fresh /\ ~Read' /\ Expired'
  BY <1>1, <1>3, <1>4, <1>5 DEF ReadWaits, Queued, Fresh, Read, Expired
<1>7. /\ WireOK' /\ NfccOK' /\ ~RspOnWire' /\ ~AtNfcc' /\ ~NtfPending' /\ ~Unanswered' /\ OneNtf' /\ Announced'
      /\ (WireMine' <=> WireMine)
  BY <1>1, <1>3, <1>6, SameAnswers DEF WindowInv, Base
<1>8. Asked' /\ Asleep' /\ IsExt' /\ ~Holds'
  BY <1>1, <1>2, <1>4 DEF Asked, Asleep, IsExt, Holds
<1>9. Base'
  <2>1. InTime' /\ TypesOK' /\ CallerOK' /\ FlagsOK'
    BY <1>1, <1>8 DEF WindowInv, Base, InTime, TypesOK, CallerOK, FlagsOK
  <2>2. TransportOK'
    BY <1>1, <1>4, <1>5, <1>6 DEF WindowInv, Base, TransportOK
  <2> QED
    BY <1>5, <1>7, <2>1, <2>2 DEF Base
<1>10. OneToken' /\ Kept'
  BY <1>1, <1>4, <1>6, <1>7, <1>8 DEF OneToken, Kept
<1>11. Own'
  BY <1>1, <1>2, <1>3, <1>6, <1>7 DEF Own, Quiet
<1>12. Awakening'
  BY <1>1, <1>4, <1>7, <1>8 DEF Awakening, After
<1> QED
  BY <1>7, <1>9, <1>10, <1>11, <1>12 DEF WindowInv

LEMMA FetchStep == WindowInv /\ ClientFetch => WindowInv'
<1> SUFFICES ASSUME WindowInv, ClientFetch PROVE WindowInv'
  OBVIOUS
<1> DEFINE m == Head(queue)
<1>1. /\ UNCHANGED <<win, halExtEnabled, waitForNtf, cmdData, pc, calls, answered, rspData, timer, tx,
                     armed, wire, nfcc, events, lost>>
      /\ client = "fetch" /\ queue # <<>> /\ queue' = Tail(queue)
      /\ client' = CASE m = "read" -> "packet" [] m = "timeout" -> "timeout" [] OTHER -> "fetch"
      /\ cbData' = CASE m = "written" -> "ok" [] m = "unwritten" -> "failed" [] OTHER -> cbData
      /\ extCbData' = IF m = "timeout" THEN [extCbData EXCEPT !.status = "failed"] ELSE extCbData
  BY DEF ClientFetch, ClientKeeps, chip
<1>2. /\ QueueOK' /\ m \in Messages /\ Queued(m)
      /\ \A x : Queued(x)' => Queued(x)
      /\ \A x : x # "rx" => (Queued(x)' <=> Queued(x) /\ x # m)
  BY <1>1, QueueShrinks DEF WindowInv, Base
<1> HIDE DEF m
<1>3. /\ client' = "packet" <=> m = "read"
      /\ client' = "timeout" <=> m = "timeout"
      /\ client' \in {"fetch", "packet", "timeout"}
  BY <1>1
<1>4. (ReadWaits' <=> ReadWaits) /\ (Fresh' <=> Fresh) /\ (Read' <=> Read) /\ (Expired' <=> Expired)
  BY <1>1, <1>2, <1>3 DEF ReadWaits, Fresh, Read, Expired, Queued, IsRsp
<1>5. /\ cbData' = "ok" <=> m = "written" \/ (cbData = "ok" /\ m # "unwritten")
      /\ cbData' = "failed" <=> m = "unwritten" \/ (cbData = "failed" /\ m # "written")
      /\ m \notin {"written", "unwritten"} => cbData' = cbData
      /\ cbData' \in {"none", "ok", "failed"}
  BY <1>1 DEF WindowInv, Base, TypesOK
<1>6. /\ m \in {"written", "unwritten"} => pc = "sending" /\ tx = "none" /\ cbData = "none"
      /\ m = "written" => ~Queued("unwritten")
      /\ m = "unwritten" => ~Queued("written")
  BY <1>2 DEF WindowInv, Base, TransportOK
<1>7. Holds' <=> Holds
  BY <1>1, <1>2, <1>5, <1>6 DEF Holds, Unwritten
<1>8. /\ extCbData'.sem = extCbData.sem /\ extCbData' \in [sem : Nat, status : {"ok", "failed"}]
      /\ m = "timeout" => extCbData'.status = "failed"
      /\ m # "timeout" => extCbData' = extCbData
  BY <1>1 DEF WindowInv, Base, TypesOK
<1>9. (Asked' <=> Asked) /\ (IsExt' <=> IsExt) /\ (Asleep' <=> Asleep)
  BY <1>1, <1>8 DEF Asked, IsExt, Asleep
<1>10. /\ WireOK' /\ NfccOK' /\ (RspOnWire' <=> RspOnWire) /\ (AtNfcc' <=> AtNfcc) /\ OneNtf' /\ Announced'
       /\ (NtfPending' <=> NtfPending) /\ (Unanswered' <=> Unanswered) /\ (WireMine' <=> WireMine)
  BY <1>1, <1>4, SameAnswers DEF WindowInv, Base
<1>11. Base'
  <2>1. InTime' /\ CallerOK' /\ FlagsOK'
    BY <1>1, <1>9 DEF WindowInv, Base, InTime, CallerOK, FlagsOK
  <2>2. TypesOK'
    BY <1>1, <1>3, <1>5, <1>8 DEF WindowInv, Base, TypesOK
  <2>3. TransportOK'
    <3>1. /\ armed' => ~ReadWaits'
          /\ Fresh' => FromNfcc(rspData)'
          /\ ReadWaits' => ~Queued("rx")'
      BY <1>1, <1>2, <1>4 DEF WindowInv, Base, TransportOK, FromNfcc
    <3>2. /\ client' \in {"packet", "unblock"} => ~Queued("read")'
          /\ client' = "timeout" => ~Queued("timeout")'
      BY <1>2, <1>3
    <3>3. /\ pc' # "sending" => tx' = "none" /\ ~Queued("written")' /\ ~Queued("unwritten")'
          /\ tx' # "none" => cbData' = "none" /\ ~Queued("written")' /\ ~Queued("unwritten")'
          /\ Queued("written")' => cbData' = "none" /\ ~Queued("unwritten")'
          /\ Queued("unwritten")' => cbData' = "none"
      BY <1>1, <1>2, <1>5, <1>6 DEF WindowInv, Base, TransportOK
    <3> QED
      BY <3>1, <3>2, <3>3 DEF TransportOK
  <2> QED
    BY <1>2, <1>10, <2>1, <2>2, <2>3 DEF Base
<1>12. OneToken' /\ Kept'
  BY <1>1, <1>4, <1>7, <1>9, <1>10 DEF WindowInv, OneToken, Kept
<1>13. Own'
  BY <1>1, <1>4, <1>9, <1>10 DEF WindowInv, Own, Mine, IsRsp, IsNtf
<1>14. (Answered => Answered') /\ (Matched => Matched')
  BY <1>1, <1>8, <1>10 DEF Answered, Matched
<1>15. Awakening'
  <2>1. /\ Expired' => Asked' /\ pc' = "wait" /\ Asleep'
        /\ NtfPending' => IsExt' /\ pc' \in Waiting /\ (Unanswered' \/ waitForNtf')
        /\ AtNfcc' /\ nfcc'[1].kind \in Ext => Asked'
        /\ IsExt' /\ pc' \in {"window", "send"} => Asleep' /\ ~waitForNtf'
    BY <1>1, <1>4, <1>9, <1>10 DEF WindowInv, Awakening
  <2>2. client' = "timeout" => extCbData'.status = "failed"
    BY <1>3, <1>8
  <2>3. Asked' /\ Asleep' => win' = 0 /\ ~waitForNtf' /\ ~(client' = "unblock" /\ IsRsp(rspData)')
    BY <1>1, <1>3, <1>9 DEF WindowInv, Awakening
  <2>4. Asked' /\ ~Asleep' => ~Holds' /\ Matched' /\ (waitForNtf' => extCbData'.sem = 1)
    BY <1>1, <1>7, <1>8, <1>9, <1>14 DEF WindowInv, Awakening
  <2>5. /\ pc' \in {"stop", "timerNtf", "waitNtf"} => Matched' /\ (waitForNtf' => Asleep')
        /\ pc' \in {"timerNtf", "waitNtf"} /\ ~waitForNtf' => ~Asleep'
        /\ pc' \in {"stopNtf", "check"} => Answered'
        /\ pc' \in After => ~Unanswered'
        /\ pc' = "succeeded" => cmdData'.n \in answered'
    BY <1>1, <1>9, <1>10, <1>14 DEF WindowInv, Awakening
  <2> QED
    BY <2>1, <2>2, <2>3, <2>4, <2>5 DEF Awakening
<1> QED
  BY <1>10, <1>11, <1>12, <1>13, <1>15 DEF WindowInv

\* The window is given back by the response that was read.
LEMMA UnblockStep == WindowInv /\ ClientUnblock => WindowInv'
<1> SUFFICES ASSUME WindowInv, ClientUnblock PROVE WindowInv'
  OBVIOUS
<1>1. /\ UNCHANGED <<extCbData, halExtEnabled, waitForNtf, cmdData, cbData, pc, calls, answered, rspData,
                     timer, tx, queue, wire, nfcc, events, lost>>
      /\ client = "unblock" /\ client' = "fetch" /\ armed'
      /\ win' = IF IsRsp(rspData) /\ win = 0 THEN 1 ELSE win
  BY DEF ClientUnblock, ClientKeeps, chip, IsRsp
<1>2. QueueOK' /\ \A x : Queued(x)' <=> Queued(x)
  BY <1>1 DEF Queued, QueueOK, WindowInv, Base
<1>3. ~Queued("read") /\ ReadWaits /\ ~ReadWaits' /\ ~Fresh /\ ~Fresh' /\ ~Read' /\ (Expired' <=> Expired)
  BY <1>1, <1>2 DEF WindowInv, Base, TransportOK, ReadWaits, Queued, Fresh, Read, Expired
<1>4. Read <=> IsRsp(rspData)
  BY <1>3 DEF Read
<1>5. (Holds' <=> Holds) /\ (Asked' <=> Asked) /\ (IsExt' <=> IsExt) /\ (Asleep' <=> Asleep)
  BY <1>1, <1>2 DEF Holds, Unwritten, Asked, IsExt, Asleep
<1>6. /\ WireOK' /\ NfccOK' /\ (RspOnWire' <=> RspOnWire) /\ (AtNfcc' <=> AtNfcc) /\ OneNtf' /\ Announced'
      /\ (NtfPending' <=> NtfPending) /\ (Unanswered' <=> Unanswered) /\ (WireMine' <=> WireMine)
  BY <1>1, <1>3, SameAnswers DEF WindowInv, Base
<1>7. Base'
  <2>1. InTime' /\ TypesOK' /\ CallerOK' /\ FlagsOK'
    BY <1>1, <1>5 DEF WindowInv, Base, InTime, TypesOK, CallerOK, FlagsOK
  <2>2. TransportOK'
    BY <1>1, <1>2, <1>3 DEF WindowInv, Base, TransportOK
  <2> QED
    BY <1>2, <1>6, <2>1, <2>2 DEF Base
<1>8. OneToken' /\ Kept'
  <2>1. CASE IsRsp(rspData)
    <3>1. Read /\ win' = 1 /\ ~Holds /\ ~AtNfcc /\ ~RspOnWire /\ ~Expired
      BY <1>1, <1>4, <2>1 DEF WindowInv, OneToken
    <3> QED
      BY <1>3, <1>5, <1>6, <3>1 DEF OneToken, Kept
  <2>2. CASE ~IsRsp(rspData)
    BY <1>1, <1>3, <1>4, <1>5, <1>6, <2>2 DEF WindowInv, OneToken, Kept
  <2> QED
    BY <2>1, <2>2
<1>9. Own'
  BY <1>1, <1>3, <1>5, <1>6 DEF WindowInv, Own, Mine
<1>10. Awakening'
  BY <1>1, <1>3, <1>5, <1>6 DEF WindowInv, Awakening, Matched, Answered
<1> QED
  BY <1>6, <1>7, <1>8, <1>9, <1>10 DEF WindowInv

\* The timer's message gives the window back for the response that is lost.
LEMMA TimeoutStep == WindowInv /\ ClientTimeout => WindowInv'
<1> SUFFICES ASSUME WindowInv, ClientTimeout PROVE WindowInv'
  OBVIOUS
<1>1. /\ UNCHANGED <<halExtEnabled, waitForNtf, cmdData, cbData, pc, calls, answered, rspData,
                     timer, tx, queue, armed, wire, nfcc, events, lost>>
      /\ client = "timeout" /\ client' = "fetch" /\ win' = win + 1
      /\ extCbData' = [extCbData EXCEPT !.sem = @ + 1]
  BY DEF ClientTimeout, ClientKeeps, chip
<1>2. /\ Expired /\ Asked /\ pc = "wait" /\ Asleep /\ win = 0 /\ ~waitForNtf /\ extCbData.status = "failed"
      /\ ~Holds /\ ~AtNfcc /\ ~RspOnWire /\ ~Read /\ ~Queued("timeout")
  BY <1>1 DEF Expired, WindowInv, Awakening, OneToken, Base, TransportOK
<1>3. QueueOK' /\ \A x : Queued(x)' <=> Queued(x)
  BY <1>1 DEF Queued, QueueOK, WindowInv, Base
<1>4. (ReadWaits' <=> ReadWaits) /\ (Fresh' <=> Fresh) /\ ~Read' /\ ~Expired'
  BY <1>1, <1>2, <1>3 DEF ReadWaits, Queued, Fresh, Read, Expired, IsRsp
<1>5. ~FreshRsp /\ ~Unanswered /\ ~NtfPending
  <2>1. ~FreshRsp
    BY <1>2 DEF FreshRsp, Read, Fresh, ReadWaits, Queued
  <2> QED
    BY <1>2, <2>1 DEF Unanswered, WindowInv, Awakening
<1>6. /\ WireOK' /\ NfccOK' /\ ~RspOnWire' /\ ~AtNfcc' /\ OneNtf' /\ Announced'
      /\ ~NtfPending' /\ ~Unanswered' /\ (WireMine' <=> WireMine)
  BY <1>1, <1>2, <1>4, <1>5, SameAnswers DEF WindowInv, Base
<1>7. extCbData'.sem = 1 /\ extCbData'.status = "failed" /\ extCbData' \in [sem : Nat, status : {"ok", "failed"}]
  BY <1>1, <1>2 DEF Asleep, WindowInv, Base, TypesOK
<1>8. ~Holds' /\ Asked' /\ IsExt' /\ ~Asleep'
  BY <1>1, <1>2, <1>7 DEF Holds, Asked, IsExt, Asleep
<1>9. Base'
  <2>1. InTime' /\ TypesOK' /\ CallerOK' /\ FlagsOK'
    BY <1>1, <1>7 DEF WindowInv, Base, InTime, TypesOK, CallerOK, FlagsOK, IsExt
  <2>2. TransportOK'
    BY <1>1, <1>3, <1>4 DEF WindowInv, Base, TransportOK, FromNfcc
  <2> QED
    BY <1>3, <1>6, <2>1, <2>2 DEF Base
<1>10. OneToken' /\ Kept'
  BY <1>1, <1>2, <1>4, <1>6, <1>8 DEF OneToken, Kept
<1>11. Own'
  BY <1>1, <1>4, <1>6, <1>8 DEF WindowInv, Own, Mine, IsRsp, IsNtf, IsExt
<1>12. Awakening'
  BY <1>1, <1>2, <1>4, <1>6, <1>7, <1>8 DEF Awakening, Matched, Answered, After
<1> QED
  BY <1>6, <1>9, <1>10, <1>11, <1>12 DEF WindowInv

\* The flags say whose packet it is: the caller is woken by its own response
\* and by the notification the response announced, and by nothing else.
LEMMA PacketStep == WindowInv /\ ClientPacket => WindowInv'
<1> SUFFICES ASSUME WindowInv, ClientPacket PROVE WindowInv'
  OBVIOUS
<1> DEFINE p == Processed(rspData)
<1>1. /\ UNCHANGED <<win, halExtEnabled, cmdData, cbData, pc, calls, timer, tx, queue, armed, wire, nfcc,
                     events, lost>>
      /\ client = "packet" /\ client' = "unblock" /\ rspData' = p
      /\ waitForNtf' = (AnnouncesNtf(p) \/ (waitForNtf /\ ~(WakesExt(p) /\ p.mt = "ntf")))
      /\ WakesExt(p) => extCbData' = [extCbData EXCEPT !.sem = @ + 1]
      /\ WakesExt(p) /\ p.mt = "rsp" => answered' = answered \cup {p.n}
      /\ WakesExt(p) /\ p.mt # "rsp" => answered' = answered
      /\ ~WakesExt(p) => UNCHANGED <<extCbData, answered>>
  BY DEF ClientPacket, chip
<1>2. QueueOK' /\ \A x : Queued(x)' <=> Queued(x)
  BY <1>1 DEF Queued, QueueOK, WindowInv, Base
<1>3. /\ Fresh /\ ~Queued("read") /\ ~Fresh' /\ ReadWaits /\ ReadWaits' /\ (Expired' <=> Expired)
      /\ ~FreshRsp' /\ ~NtfRead' /\ (FreshRsp <=> IsRsp(rspData)) /\ (NtfRead <=> IsNtf(rspData))
      /\ (Read <=> IsRsp(rspData)) /\ FromNfcc(rspData)
  BY <1>1, <1>2 DEF WindowInv, Base, TransportOK, ReadWaits, Queued, Fresh, Expired, FreshRsp, NtfRead, Read
<1>4. /\ p \in Packets /\ p.kind = rspData.kind /\ p.n = rspData.n /\ p.ok = rspData.ok
      /\ p.kind # "presence" => p = rspData
      /\ p.kind = "presence" => p.mt = "ntf"
      /\ IsRsp(p) => IsRsp(rspData)
      /\ IsNtf(p) <=> IsNtf(rspData)
      /\ p.mt \in {"rsp", "ntf"}
  BY <1>3 DEF Processed, Packets, FromNfcc, IsRsp, IsNtf
<1> HIDE DEF p
<1>5. /\ (WireOK' <=> WireOK) /\ (NfccOK' <=> NfccOK) /\ (RspOnWire' <=> RspOnWire) /\ (NtfOnWire' <=> NtfOnWire)
      /\ (AtNfcc' <=> AtNfcc) /\ (NtfAtNfcc' <=> NtfAtNfcc) /\ (WireMine' <=> WireMine)
      /\ (WireLoud' <=> WireLoud) /\ (WireDull' <=> WireDull)
  BY <1>1 DEF WireOK, NfccOK, RspOnWire, NtfOnWire, AtNfcc, NtfAtNfcc, WireMine, Mine, IsRsp, IsNtf, FromNfcc,
     WireLoud, WireDull, Loud
<1>6. (Unanswered' <=> AtNfcc \/ RspOnWire) /\ (NtfPending' <=> NtfAtNfcc \/ NtfOnWire)
  BY <1>3, <1>5 DEF Unanswered, NtfPending
<1>7. Read' <=> IsRsp(p)
  BY <1>1, <1>3 DEF Read, IsRsp
<1>8. (Holds' <=> Holds) /\ (Asked' <=> Asked) /\ (IsExt' <=> IsExt)
  BY <1>1, <1>2 DEF Holds, Unwritten, Asked, IsExt
<1>9. InTime' /\ WireOK' /\ NfccOK' /\ CallerOK' /\ TransportOK'
  <2>1. InTime' /\ CallerOK'
    BY <1>1, <1>8 DEF WindowInv, Base, InTime, CallerOK
  <2>2. TransportOK'
    BY <1>1, <1>2, <1>3 DEF WindowInv, Base, TransportOK
  <2> QED
    BY <1>5, <2>1, <2>2 DEF WindowInv, Base
<1>10. extCbData \in [sem : Nat, status : {"ok", "failed"}] /\ waitForNtf \in BOOLEAN
  BY DEF WindowInv, Base, TypesOK
<1>11. WakesExt(p) => /\ extCbData'.sem = extCbData.sem + 1 /\ extCbData'.status = extCbData.status
                      /\ extCbData' \in [sem : Nat, status : {"ok", "failed"}]
  BY <1>1, <1>10
<1>12. TypesOK'
  <2>1. extCbData' \in [sem : Nat, status : {"ok", "failed"}]
    BY <1>1, <1>10, <1>11
  <2>2. waitForNtf' \in BOOLEAN
    BY <1>1
  <2> QED
    BY <1>1, <1>4, <2>1, <2>2 DEF WindowInv, Base, TypesOK
<1>13. OneToken'
  BY <1>1, <1>3, <1>4, <1>5, <1>7, <1>8 DEF WindowInv, OneToken
<1>14. OneNtf'
  BY <1>3, <1>5 DEF WindowInv, OneNtf
<1>15. Own'
  BY <1>1, <1>3, <1>5, <1>8 DEF WindowInv, Own, Mine
<1>16. Kept'
  <2>1. "presence" \notin Kinds => (IsRsp(p) <=> IsRsp(rspData))
    BY <1>3, <1>4 DEF FromNfcc, IsRsp, IsNtf
  <2>2. Asked /\ Asleep => Asleep' \/ IsRsp(rspData) \/ IsNtf(rspData)
    <3>1. SUFFICES ASSUME Asked, ~IsRsp(rspData), ~IsNtf(rspData) PROVE ~WakesExt(p)
      BY <1>1 DEF Asleep
    <3>2. p.mt = "ntf" /\ p.kind \in {"event", "error"}
      BY <1>3, <1>4, <3>1 DEF FromNfcc, IsRsp, IsNtf
    <3> QED
      BY <3>1, <3>2 DEF WakesExt, Asked, IsExt, Ext
  <2>3. Asked /\ Asleep /\ IsNtf(rspData) => RspOnWire \/ AtNfcc
    <3>1. NtfRead => NtfPending
      BY DEF NtfPending
    <3>2. Asked /\ Asleep => ~waitForNtf
      BY DEF WindowInv, Awakening
    <3>3. NtfPending => Unanswered \/ waitForNtf
      BY DEF WindowInv, Awakening
    <3> QED
      BY <1>3, <3>1, <3>2, <3>3 DEF Unanswered, IsRsp, IsNtf
  <2> QED
    BY <1>1, <1>3, <1>5, <1>7, <1>8, <2>1, <2>2, <2>3 DEF WindowInv, Kept
<1>17. CASE IsRsp(rspData) /\ halExtEnabled
  <2>1. ~AtNfcc /\ ~RspOnWire /\ ~Expired /\ ~Holds /\ Unanswered
    BY <1>3, <1>17 DEF WindowInv, OneToken, Unanswered
  <2>2. Asked /\ Asleep /\ ~waitForNtf /\ pc \in Waiting
    <3>1. IsExt /\ pc \in Waiting \cup After
      BY <1>17 DEF WindowInv, Base, FlagsOK
    <3>2. pc \notin After /\ pc \notin {"stop", "timerNtf", "waitNtf"}
      BY <2>1 DEF WindowInv, Awakening, Matched, Answered
    <3>3. Asked /\ pc \in Waiting
      BY <3>1, <3>2 DEF Asked, Waiting
    <3>4. Asleep
      BY <2>1, <3>3 DEF WindowInv, Awakening, Matched, Answered
    <3> QED
      BY <3>3, <3>4 DEF WindowInv, Awakening
  <2>3. p.n = cmdData.n /\ p.kind = cmdData.kind
    BY <1>3, <1>4, <1>17, <2>2 DEF WindowInv, Own, Mine, Asked
  <2>4. p = rspData /\ p.mt = "rsp" /\ p.kind \in Ext
    BY <1>4, <1>17, <2>2, <2>3 DEF Asked, IsExt, Ext, IsRsp
  <2>5. WakesExt(p) /\ (AnnouncesNtf(p) <=> Loud(rspData))
    BY <1>17, <2>4 DEF WakesExt, AnnouncesNtf, Loud
  <2>6. NtfPending' <=> NtfPending
    BY <1>3, <1>6, <1>17 DEF NtfPending, IsRsp, IsNtf
  <2>7. waitForNtf' <=> NtfPending'
    BY <1>1, <1>3, <1>17, <2>2, <2>5, <2>6 DEF WindowInv, Announced
  <2>8. ~Unanswered' /\ extCbData'.sem = 1 /\ cmdData'.n \in answered' /\ ~Asleep'
    BY <1>1, <1>6, <1>11, <2>1, <2>2, <2>3, <2>4, <2>5 DEF Asleep
  <2>9. FlagsOK'
    BY <1>1, <1>8, <2>2 DEF WindowInv, Base, FlagsOK, Asked
  <2>10. Announced'
    BY <1>3, <1>5, <2>6 DEF WindowInv, Announced
  <2>11. Awakening'
    <3>1. Matched' /\ Answered'
      BY <2>7, <2>8 DEF Matched, Answered
    <3>2. /\ ~Expired' /\ client' # "timeout" /\ Asked' /\ IsExt' /\ pc' \in Waiting /\ ~Holds' /\ ~AtNfcc'
          /\ pc' \in {"sending", "timer", "wait"}
      BY <1>1, <1>3, <1>5, <1>8, <2>1, <2>2 DEF Asked
    <3>3. NtfPending' => waitForNtf'
      BY <2>7
    <3> QED
      BY <2>8, <3>1, <3>2, <3>3 DEF Awakening, After
  <2> QED
    BY <1>2, <1>9, <1>12, <1>13, <1>14, <1>15, <1>16, <2>9, <2>10, <2>11 DEF WindowInv, Base
<1>18. CASE IsNtf(rspData)
  <2>1. NtfRead /\ NtfPending /\ ~NtfAtNfcc /\ ~NtfOnWire /\ ~AtNfcc /\ ~RspOnWire /\ ~FreshRsp /\ ~Unanswered
    BY <1>3, <1>18 DEF NtfPending, WindowInv, OneNtf, Unanswered, IsRsp, IsNtf
  <2>2. IsExt /\ pc \in Waiting /\ waitForNtf /\ halExtEnabled
    BY <2>1 DEF WindowInv, Awakening, Base, FlagsOK
  <2>3. p = rspData /\ p.mt = "ntf" /\ p.kind = cmdData.kind
    BY <1>3, <1>4, <1>18, <2>2 DEF WindowInv, Own, Mine, IsNtf
  <2>4. WakesExt(p) /\ ~AnnouncesNtf(p)
    BY <2>2, <2>3 DEF WakesExt, AnnouncesNtf
  <2>5. ~waitForNtf' /\ ~NtfPending' /\ ~Unanswered' /\ answered' = answered /\ ~Asleep'
    <3>1. ~waitForNtf'
      BY <1>1, <2>3, <2>4
    <3>2. ~NtfPending' /\ ~Unanswered'
      BY <1>6, <2>1
    <3>3. answered' = answered
      BY <1>1, <2>3, <2>4
    <3>4. extCbData'.sem # 0
      BY <1>10, <1>11, <2>4
    <3> QED
      BY <3>1, <3>2, <3>3, <3>4 DEF Asleep
  <2>6. FlagsOK'
    BY <1>1, <1>8, <2>5 DEF WindowInv, Base, FlagsOK
  <2>7. Announced'
    BY <1>3, <1>5, <2>1, <2>5 DEF Announced, WireDull, RspOnWire
  <2>8. Asked => ~Asleep
    BY <2>2 DEF WindowInv, Awakening
  <2>9. (Answered => Answered') /\ (Matched => Matched')
    BY <1>1, <1>11, <2>4, <2>5 DEF Answered, Matched
  <2>10. Awakening'
    <3>1. ~Expired'
      BY <1>3, <2>8 DEF WindowInv, Awakening
    <3>2. Asked' => ~Asleep' /\ ~Holds' /\ Matched'
      BY <1>8, <2>5, <2>8, <2>9 DEF WindowInv, Awakening
    <3> QED
      BY <1>1, <1>5, <1>8, <2>1, <2>2, <2>5, <2>9, <3>1, <3>2 DEF WindowInv, Awakening, Expired, Waiting, After
  <2> QED
    BY <1>2, <1>9, <1>12, <1>13, <1>14, <1>15, <1>16, <2>6, <2>7, <2>10 DEF WindowInv, Base
<1>19. CASE ~IsNtf(rspData) /\ ~(IsRsp(rspData) /\ halExtEnabled)
  <2>1. ~WakesExt(p) /\ ~AnnouncesNtf(p)
    <3>1. CASE ~halExtEnabled
      BY <3>1 DEF WakesExt, AnnouncesNtf
    <3>2. CASE ~IsRsp(rspData) /\ halExtEnabled
      <4>1. IsExt
        BY <3>2 DEF WindowInv, Base, FlagsOK
      <4>2. p.mt = "ntf" /\ p.kind \in {"event", "error"}
        BY <1>3, <1>4, <1>19, <3>2 DEF FromNfcc, IsRsp, IsNtf
      <4> QED
        BY <4>1, <4>2 DEF WakesExt, AnnouncesNtf, IsExt, Ext
    <3> QED
      BY <1>19, <3>1, <3>2
  <2>2. waitForNtf' = waitForNtf /\ extCbData' = extCbData /\ answered' = answered
    BY <1>1, <1>10, <2>1
  <2>3. NtfPending' <=> NtfPending
    BY <1>3, <1>6, <1>19 DEF NtfPending
  <2>4. Unanswered' => Unanswered
    BY <1>6 DEF Unanswered
  <2>5. IsRsp(rspData) => ~Asked /\ ~NtfPending /\ pc \notin {"stop", "timerNtf", "waitNtf"}
    <3>1. SUFFICES ASSUME IsRsp(rspData), ~halExtEnabled
                   PROVE  ~Asked /\ ~NtfPending /\ pc \notin {"stop", "timerNtf", "waitNtf"}
      BY <1>19
    <3>2. ~(IsExt /\ pc \in Waiting)
      BY <3>1 DEF WindowInv, Base, FlagsOK
    <3>3. ~Asked /\ ~NtfPending
      BY <3>2 DEF Asked, WindowInv, Awakening, Waiting
    <3>4. pc \in {"stop", "timerNtf", "waitNtf"} => IsExt /\ pc \in Waiting
      BY DEF WindowInv, Base, CallerOK, Waiting
    <3> QED
      BY <3>2, <3>3, <3>4
  <2>6. ~IsRsp(rspData) => (Unanswered' <=> Unanswered)
    BY <1>3, <1>6 DEF Unanswered
  <2>7. FlagsOK'
    BY <1>1, <1>8, <2>2 DEF WindowInv, Base, FlagsOK
  <2>8. Announced'
    BY <1>3, <1>5, <2>3 DEF WindowInv, Announced
  <2>9. (Answered => Answered') /\ (Matched => Matched') /\ (Asleep' <=> Asleep)
    BY <1>1, <2>2, <2>3, <2>4 DEF Answered, Matched, Asleep
  <2>10. Awakening'
    <3>1. /\ Expired' => Asked' /\ pc' = "wait" /\ Asleep'
          /\ client' # "timeout"
          /\ NtfPending' => IsExt' /\ pc' \in Waiting /\ (Unanswered' \/ waitForNtf')
          /\ AtNfcc' /\ nfcc'[1].kind \in Ext => Asked'
          /\ IsExt' /\ pc' \in {"window", "send"} => Asleep' /\ ~waitForNtf'
      BY <1>1, <1>3, <1>5, <1>8, <2>2, <2>3, <2>5, <2>6, <2>9 DEF WindowInv, Awakening
    <3>2. Asked' /\ Asleep' => win' = 0 /\ ~waitForNtf' /\ ~(client' = "unblock" /\ IsRsp(rspData)')
      <4>1. Asked => ~IsRsp(p)
        BY <1>4, <2>5
      <4> QED
        BY <1>1, <1>8, <2>2, <2>9, <4>1 DEF WindowInv, Awakening, IsRsp
    <3>3. Asked' /\ ~Asleep' => ~Holds' /\ Matched' /\ (waitForNtf' => extCbData'.sem = 1)
      BY <1>8, <2>2, <2>9 DEF WindowInv, Awakening
    <3>4. /\ pc' \in {"stop", "timerNtf", "waitNtf"} => Matched' /\ (waitForNtf' => Asleep')
          /\ pc' \in {"timerNtf", "waitNtf"} /\ ~waitForNtf' => ~Asleep'
          /\ pc' \in {"stopNtf", "check"} => Answered'
          /\ pc' \in After => ~Unanswered'
          /\ pc' = "succeeded" => cmdData'.n \in answered'
      BY <1>1, <2>2, <2>4, <2>9 DEF WindowInv, Awakening
    <3> QED
      BY <3>1, <3>2, <3>3, <3>4 DEF Awakening
  <2> QED
    BY <1>2, <1>9, <1>12, <1>13, <1>14, <1>15, <1>16, <2>7, <2>8, <2>10 DEF WindowInv, Base
<1> QED
  BY <1>17, <1>18, <1>19

-----------------------------------------------------------------------------
(***************************************************************************)
(* The theorems.                                                           *)
(***************************************************************************)
LEMMA InitStep == HalInit /\ InTime => WindowInv
<1> SUFFICES ASSUME HalInit, InTime PROVE WindowInv
  OBVIOUS
<1>1. /\ win = 1 /\ extCbData = [sem |-> 0, status |-> "ok"] /\ halExtEnabled = FALSE /\ waitForNtf = FALSE
      /\ cmdData = Nothing /\ rspData = Nothing /\ cbData = "none" /\ timer = "stopped"
      /\ queue = <<>> /\ client = "fetch" /\ armed = TRUE /\ tx = "none" /\ pc = "idle"
      /\ nfcc = <<>> /\ wire = <<>> /\ calls = 0 /\ events = 0
  BY DEF HalInit
<1>2. Quiet
  BY <1>1 DEF Quiet
<1>3. /\ \A m : ~Queued(m)
      /\ ~(AtNfcc \/ NtfAtNfcc \/ RspOnWire \/ NtfOnWire \/ ReadWaits \/ Fresh)
      /\ ~(Read \/ Expired \/ Unanswered \/ NtfPending) /\ WireMine
  BY <1>2, NothingIfQuiet
<1>4. Nothing \in Packets /\ Nothing.mt = "none" /\ Nothing.kind = "none"
  BY DEF Nothing, Packet, Packets
<1>5. WireOK /\ QueueOK /\ NfccOK
  BY <1>1 DEF WireOK, QueueOK, NfccOK
<1>6. TypesOK /\ CallerOK /\ TransportOK /\ FlagsOK
  BY <1>1, <1>3, <1>4 DEF TypesOK, CallerOK, TransportOK, FlagsOK, Waiting, After
<1>7. ~Holds /\ ~Asked /\ ~FreshRsp
  BY <1>1, <1>3 DEF Holds, Asked, Unanswered
<1>8. OneToken /\ OneNtf /\ Kept
  BY <1>1, <1>3, <1>7 DEF OneToken, OneNtf, Kept, NtfPending
<1>9. Own /\ Announced
  BY <1>1, <1>3, <1>7 DEF Own, Announced, WireDull, Waiting, After
<1>10. Awakening
  BY <1>1, <1>3, <1>7 DEF Awakening, After
<1> QED
  BY <1>5, <1>6, <1>8, <1>9, <1>10 DEF WindowInv, Base

LEMMA WindowStep == WindowInv /\ [HalNext]_halVars => WindowInv'
<1> SUFFICES ASSUME WindowInv, [HalNext]_halVars PROVE WindowInv'
  OBVIOUS
<1>1. ASSUME NEW k \in Kinds, Call(k) PROVE WindowInv'
  BY <1>1, CallStep
<1>2. CASE Nfcc
  BY <1>2, RespondsStep, NotifiesStep, ForgetsStep DEF Nfcc, NfccMoves
<1>3. CASE Client
  BY <1>3, FetchStep, PacketStep, UnblockStep, TimeoutStep DEF Client
<1>4. CASE UNCHANGED halVars
  <2>1. /\ UNCHANGED <<win, extCbData, halExtEnabled, waitForNtf, cmdData, cbData, pc, calls, client, events,
                      answered, rspData, timer, tx, queue, armed, wire, nfcc, lost>>
        /\ UNCHANGED Outside
    BY <1>4 DEF halVars, shared, chip, host, router, Outside
  <2>2. (Holds' <=> Holds) /\ (Asked' <=> Asked) /\ (IsExt' <=> IsExt) /\ (Asleep' <=> Asleep)
    BY <2>1, SameOutside DEF Holds, Unwritten, Asked, IsExt, Asleep
  <2>3. Base'
    BY <2>1, <2>2, SameOutside, SameAnswers
    DEF WindowInv, Base, InTime, TypesOK, CallerOK, TransportOK, FlagsOK, FromNfcc
  <2>4. OneToken' /\ OneNtf' /\ Announced' /\ Kept'
    BY <2>1, <2>2, SameOutside, SameAnswers DEF WindowInv, OneToken, Kept
  <2>5. Own'
    BY <2>1, <2>2, SameOutside, SameAnswers DEF WindowInv, Own, Mine, IsRsp, IsNtf
  <2>6. Awakening'
    BY <2>1, <2>2, SameOutside, SameAnswers DEF WindowInv, Awakening, Matched, Answered, IsRsp
  <2> QED
    BY <2>3, <2>4, <2>5, <2>6 DEF WindowInv
<1> QED
  BY <1>1, <1>2, <1>3, <1>4, ThreadStep, WriterStep, ReaderStep, EventStep, TimerStep DEF HalNext

LEMMA WindowHolds == InTime => (HalSpec => []WindowInv)
<1>1. HalInit /\ InTime => WindowInv
  BY InitStep
<1>2. WindowInv /\ [HalNext]_halVars => WindowInv'
  BY WindowStep
<1> QED
  BY <1>1, <1>2, PTL DEF HalSpec

\* While answers come in time or never, the NFCC never holds two commands:
\* the token that a command needs is not given out twice, whatever writes
\* fail and whatever responses are lost.
THEOREM OneCommandHolds == InTime => (HalSpec => []OneCommandAtNfcc)
<1>1. WindowInv => OneCommandAtNfcc
  <2>1. SUFFICES ASSUME WindowInv PROVE Len(nfcc) <= 1
    BY DEF OneCommandAtNfcc
  <2>2. CASE nfcc = <<>>
    BY <2>2
  <2>3. CASE nfcc # <<>>
    <3>1. nfcc = <<nfcc[1]>>
      BY <2>1, <2>3 DEF WindowInv, Base, NfccOK
    <3>2. \A x : Len(<<x>>) = 1
      OBVIOUS
    <3>3. Len(nfcc) = 1
      BY <3>1, <3>2
    <3> QED
      BY <3>3
  <2> QED
    BY <2>2, <2>3
<1> QED
  BY <1>1, WindowHolds, PTL

\* And a command of the HAL that succeeds was woken by its own response,
\* never by a leftover post, a timeout or the response to another command.
THEOREM ExtOwnAnswerHolds == InTime => (HalSpec => []ExtOwnAnswer)
<1>1. WindowInv => ExtOwnAnswer
  BY DEF WindowInv, Awakening, ExtOwnAnswer
<1> QED
  BY <1>1, WindowHolds, PTL

NoPresence == "presence" \notin Kinds

\* And the window comes back once all is quiet, when the stack checks no
\* presence (a response turned into a notification keeps the window).
THEOREM WindowComesBackHolds == InTime /\ NoPresence => (HalSpec => []WindowComesBack)
<1>1. WindowInv /\ NoPresence => WindowComesBack
  <2>1. SUFFICES ASSUME WindowInv, NoPresence, Quiet, pc = "idle", ~lost PROVE win = 1
    BY DEF WindowComesBack
  <2>2. ~(AtNfcc \/ RspOnWire \/ Read \/ Expired)
    BY <2>1, NothingIfQuiet
  <2>3. ~Holds /\ ~Asked
    BY <2>1 DEF Holds, Asked
  <2> QED
    BY <2>1, <2>2, <2>3 DEF WindowInv, Kept, NoPresence
<1>2. NoPresence => []NoPresence
  <2>1. NoPresence => NoPresence'
    BY DEF NoPresence
  <2> QED
    BY <2>1, PTL
<1> QED
  BY <1>1, <1>2, WindowHolds, PTL

-----------------------------------------------------------------------------
(***************************************************************************)
(* The routing.  What is sent to the stack is in three places: handed up,  *)
(* in the receive buffer, or on the wire, in this order.  That nothing     *)
(* goes astray between them is due to WindowInv: the flags are up exactly  *)
(* while what comes is the answer to the command of the HAL.               *)
(***************************************************************************)
ForStack(p) == p.kind \notin Ext \cup HeldBack

\* How many of the packets for the stack have been read.
Seen == IF Fresh /\ ForStack(rspData) THEN Len(stack) + 1 ELSE Len(stack)

\* rank[i] of them have been sent up to the i-th on the wire, which is the
\* last of these if it is for the stack.
Ranks(rank) ==
  /\ rank \in [0..Len(wire) -> Nat] /\ rank[0] = Seen /\ rank[Len(wire)] = Len(owed)
  /\ \A i \in 1..Len(wire) :
       IF ForStack(wire[i])
         THEN /\ rank[i] = rank[i - 1] + 1 /\ rank[i] <= Len(owed)
              /\ owed[rank[i]] = wire[i]
         ELSE rank[i] = rank[i - 1]

\* The stack has the first of the packets it is owed, the next one is in the
\* receive buffer, and the others follow on the wire.
HandedUp ==
  /\ stack \in Seq(Packets) /\ owed \in Seq(Packets) /\ Len(stack) <= Len(owed)
  /\ \A i \in 1..Len(stack) : stack[i] = owed[i]
  /\ Fresh /\ ForStack(rspData) => Seen <= Len(owed) /\ owed[Seen] = rspData
  /\ \E rank \in [0..Len(wire) -> Nat] : Ranks(rank)

\* A response to the HAL finds its call asleep (Own says that it is its own).
Answers(p) == IsRsp(p) /\ p.kind \in Ext => Asked

RouteOK ==
  /\ pc # "idle" => cmdData.kind # "local"
  /\ nfcc # <<>> => nfcc[1].kind # "local"
  /\ \A i \in 1..Len(wire) : wire[i].kind # "local" /\ Answers(wire[i])
  /\ Fresh => rspData.kind # "local" /\ Answers(rspData)
  /\ Queued("rx") => rspData.kind = "local"

RouteInv == RouteOK /\ HandedUp

\* What leaves the buffer, the wire and the histories alone.
LEMMA HandedUpStays ==
  ASSUME HandedUp, UNCHANGED <<stack, owed, wire>>, Fresh' <=> Fresh, Fresh => UNCHANGED rspData
  PROVE  HandedUp'
<1>1. UNCHANGED Seen
  BY DEF Seen, ForStack
<1>2. \A rank : Ranks(rank) => Ranks(rank)'
  BY <1>1 DEF Ranks, ForStack
<1> QED
  BY <1>1, <1>2 DEF HandedUp, ForStack

LEMMA RouteStays ==
  ASSUME RouteOK, UNCHANGED wire, Fresh' <=> Fresh, Fresh => UNCHANGED rspData,
         Unanswered /\ Asked => Asked',
         pc' # "idle" => cmdData'.kind # "local",
         nfcc' # <<>> => nfcc'[1].kind # "local",
         Queued("rx")' => rspData'.kind = "local"
  PROVE  RouteOK'
<1>1. ASSUME NEW i \in 1..Len(wire) PROVE Answers(wire[i])'
  <2>1. IsRsp(wire[i]) => Unanswered
    BY <1>1 DEF Unanswered, RspOnWire
  <2> QED
    BY <1>1, <2>1 DEF RouteOK, Answers, IsRsp
<1>2. Fresh' => rspData'.kind # "local" /\ Answers(rspData)'
  BY DEF RouteOK, Answers, IsRsp, Unanswered, FreshRsp
<1> QED
  BY <1>1, <1>2 DEF RouteOK

\* While a response is on its way the call of the HAL sleeps.
LEMMA AwaitedSleeps ==
  ASSUME WindowInv, Asked, Unanswered
  PROVE  Asleep /\ ~Holds
<1>1. Asleep
  BY DEF WindowInv, Awakening, Matched, Answered
<1>2. ~Holds
  BY HolderIsAlone
<1> QED
  BY <1>1, <1>2

LEMMA ThreadRoutes == WindowInv /\ RouteInv /\ Thread => RouteInv'
<1> SUFFICES ASSUME WindowInv, RouteInv, Thread PROVE RouteInv'
  OBVIOUS
<1>1. UNCHANGED <<stack, owed, wire, nfcc, queue, client, rspData, cmdData>> /\ pc # "idle"
  BY DEF Thread, TakeWindow, WindowTimeout, Send, Sent, Resend, GiveUp, StartTimer, ExtWait, StopTimer,
         Check, Clean, Caller, chip, router
<1>2. (Fresh' <=> Fresh) /\ (Queued("rx")' <=> Queued("rx")) /\ (IsExt' <=> IsExt)
  BY <1>1 DEF Fresh, Queued, IsExt
<1>3. ASSUME Unanswered, Asked PROVE Asked'
  <2>1. Asleep /\ ~Holds /\ IsExt /\ pc \in {"sending", "timer", "wait"}
    BY <1>3, AwaitedSleeps DEF Asked
  <2>2. ~(pc = "sending" /\ cbData = "failed")
    BY <2>1 DEF Holds, Unwritten, IsExt, Ext
  <2>3. pc' \in {"sending", "timer", "wait"}
    BY <2>1, <2>2 DEF Thread, TakeWindow, WindowTimeout, Send, Sent, Resend, GiveUp, StartTimer, ExtWait,
       StopTimer, Check, Clean, Caller, Asleep
  <2> QED
    BY <1>2, <2>1, <2>3 DEF Asked
<1> QED
  BY <1>1, <1>2, <1>3, HandedUpStays, RouteStays DEF RouteInv, RouteOK

LEMMA CallRoutes ==
  ASSUME WindowInv, RouteInv, NEW k \in Kinds, Call(k)
  PROVE  RouteInv'
<1>1. /\ pc = "idle" /\ cmdData' = Packet("cmd", k, calls + 1, TRUE)
      /\ UNCHANGED <<wire, nfcc, client, stack, owed>>
  BY DEF Call, router, chip
<1>2. cmdData'.kind = k /\ ~Asked
  BY <1>1 DEF Packet, Asked
<1>3. CASE k = "local"
  <2>1. PICK mt \in {"rsp", "data"} : Answer(mt)
    BY <1>3 DEF Call, Stack, Ext
  <2>2. /\ ~ReadWaits /\ rspData' = Packet(mt, "local", calls + 1, TRUE)
        /\ queue' = Append(queue, "rx") /\ pc' = "idle"
    BY <1>1, <2>1 DEF Answer, WindowInv, Base, InTime
  <2>3. ~Fresh /\ ~Fresh'
    <3>1. \A x : Queued(x)' <=> Queued(x) \/ x = "rx"
      BY <2>2, QueueGrows DEF Messages, WindowInv, Base
    <3> QED
      BY <1>1, <2>2, <3>1 DEF ReadWaits, Fresh, Queued
  <2>4. rspData'.kind = "local"
    BY <2>2 DEF Packet
  <2> QED
    BY <1>1, <1>2, <2>2, <2>3, <2>4, HandedUpStays, RouteStays DEF RouteInv, RouteOK
<1>4. CASE k # "local"
  <2>1. UNCHANGED <<rspData, queue>>
    BY <1>4 DEF Call, BeginWrite, BeginExt
  <2>2. (Fresh' <=> Fresh) /\ (Queued("rx")' <=> Queued("rx"))
    BY <1>1, <2>1 DEF Fresh, Queued
  <2> QED
    BY <1>1, <1>2, <1>4, <2>1, <2>2, HandedUpStays, RouteStays DEF RouteInv, RouteOK
<1> QED
  BY <1>3, <1>4

LEMMA WriterRoutes == WindowInv /\ RouteInv /\ Writer => RouteInv'
<1> SUFFICES ASSUME WindowInv, RouteInv, Writer PROVE RouteInv'
  OBVIOUS
<1>1. /\ UNCHANGED <<stack, owed, wire, rspData, cmdData, pc, client>>
      /\ tx # "none" /\ (nfcc' = nfcc \/ (tx = "request" /\ nfcc' = Append(nfcc, cmdData)))
      /\ queue' = queue \/ \E m \in {"written", "unwritten"} : queue' = Append(queue, m)
  BY DEF Writer, host, router
<1>2. pc = "sending" /\ ~Queued("written") /\ ~Queued("unwritten")
  BY <1>1 DEF WindowInv, Base, TransportOK
<1>3. (Fresh' <=> Fresh) /\ (Queued("rx")' <=> Queued("rx"))
  <2>1. CASE queue' = queue
    BY <1>1, <2>1 DEF Fresh, Queued
  <2>2. CASE queue' # queue
    <3>1. PICK m \in {"written", "unwritten"} : queue' = Append(queue, m)
      BY <1>1, <2>2
    <3>2. \A x : Queued(x)' <=> Queued(x) \/ x = m
      BY <1>2, <3>1, QueueGrows DEF Messages, WindowInv, Base
    <3> QED
      BY <1>1, <3>1, <3>2 DEF Fresh
  <2> QED
    BY <2>1, <2>2
<1>4. nfcc' # <<>> => nfcc'[1].kind # "local"
  <2>1. CASE nfcc' = nfcc
    BY <2>1 DEF RouteInv, RouteOK
  <2>2. CASE nfcc' = Append(nfcc, cmdData)
    <3>1. cmdData.kind # "local"
      BY <1>2 DEF RouteInv, RouteOK
    <3>2. nfcc = <<>> \/ nfcc = <<nfcc[1]>>
      BY DEF WindowInv, Base, NfccOK
    <3>3. nfcc'[1] = cmdData \/ (nfcc # <<>> /\ nfcc'[1] = nfcc[1])
      BY <2>2, <3>2
    <3> QED
      BY <3>1, <3>3 DEF RouteInv, RouteOK
  <2> QED
    BY <1>1, <2>1, <2>2
<1>5. Asked' <=> Asked
  BY <1>1 DEF Asked, IsExt
<1> QED
  BY <1>1, <1>2, <1>3, <1>4, <1>5, HandedUpStays, RouteStays DEF RouteInv, RouteOK

LEMMA TimerRoutes == WindowInv /\ RouteInv /\ TimerExpires => RouteInv'
<1> SUFFICES ASSUME WindowInv, RouteInv, TimerExpires PROVE RouteInv'
  OBVIOUS
<1>1. /\ UNCHANGED <<stack, owed, wire, nfcc, rspData, cmdData, pc, client>>
      /\ queue' = Append(queue, "timeout") /\ pc \in {"wait", "stop", "waitNtf", "stopNtf"}
      /\ ~Queued("timeout")
  <2>1. pc \in {"wait", "stop", "waitNtf", "stopNtf"}
    BY DEF TimerExpires, WindowInv, Base, FlagsOK
  <2>2. Quiet
    BY <2>1 DEF TimerExpires, Awaited
  <2> QED
    BY <2>1, <2>2, NothingIfQuiet DEF TimerExpires, host, router, chip
<1>2. \A x : Queued(x)' <=> Queued(x) \/ x = "timeout"
  BY <1>1, QueueGrows DEF Messages, WindowInv, Base
<1>3. (Fresh' <=> Fresh) /\ (Queued("rx")' <=> Queued("rx")) /\ (Asked' <=> Asked)
  BY <1>1, <1>2 DEF Fresh, Asked, IsExt
<1> QED
  BY <1>1, <1>3, HandedUpStays, RouteStays DEF RouteInv, RouteOK

\* The NFCC puts a packet on the wire, and one for the stack is owed.
LEMMA HandedUpGrows ==
  ASSUME HandedUp, WireOK, NEW p \in Packets, wire' = Append(wire, p),
         owed' = (IF ForStack(p) THEN Append(owed, p) ELSE owed),
         UNCHANGED <<stack, rspData>>, Fresh' <=> Fresh
  PROVE  HandedUp'
<1>1. /\ stack \in Seq(Packets) /\ owed \in Seq(Packets) /\ Len(stack) <= Len(owed)
      /\ \A i \in 1..Len(stack) : stack[i] = owed[i]
      /\ Fresh /\ ForStack(rspData) => Seen <= Len(owed) /\ owed[Seen] = rspData
  BY DEF HandedUp
<1>2. PICK rank \in [0..Len(wire) -> Nat] : Ranks(rank)
  BY DEF HandedUp
<1>3. wire \in Seq(Packets) /\ Len(wire) \in Nat /\ Len(owed) \in Nat /\ Len(stack) \in Nat
  BY <1>1 DEF WireOK
<1>4. /\ wire' \in Seq(Packets) /\ Len(wire') = Len(wire) + 1 /\ wire'[Len(wire) + 1] = p
      /\ \A i \in 1..Len(wire) : wire'[i] = wire[i]
  BY <1>3
<1>5. /\ owed' \in Seq(Packets) /\ Len(owed') = Len(owed) + (IF ForStack(p) THEN 1 ELSE 0)
      /\ \A i \in 1..Len(owed) : owed'[i] = owed[i]
      /\ ForStack(p) => owed'[Len(owed')] = p
  BY <1>1, <1>3
<1>6. Seen' = Seen /\ Seen \in Nat
  BY <1>1 DEF Seen, ForStack
<1>a. PICK next : next = [i \in 0..(Len(wire) + 1) |-> IF i <= Len(wire) THEN rank[i] ELSE Len(owed')]
  OBVIOUS
<1>7. next \in [0..Len(wire') -> Nat]
  BY <1>3, <1>4, <1>5, <1>a
<1>8. /\ \A i \in 0..Len(wire) : next[i] = rank[i]
      /\ next[Len(wire) + 1] = Len(owed')
  BY <1>3, <1>a
<1>9. Ranks(next)'
  <2>1. next[0] = Seen' /\ next[Len(wire')] = Len(owed')
    BY <1>2, <1>3, <1>4, <1>6, <1>8 DEF Ranks
  <2>2. ASSUME NEW i \in 1..Len(wire)
        PROVE  IF ForStack(wire'[i])
                 THEN /\ next[i] = next[i - 1] + 1 /\ next[i] <= Len(owed')
                      /\ owed'[next[i]] = wire'[i]
                 ELSE next[i] = next[i - 1]
    <3>1. i \in 0..Len(wire) /\ i - 1 \in 0..Len(wire) /\ wire'[i] = wire[i]
      BY <1>3, <1>4
    <3>2. next[i] = rank[i] /\ next[i - 1] = rank[i - 1] /\ rank[i] \in Nat /\ rank[i - 1] \in Nat
      BY <1>8, <3>1
    <3>3. CASE ForStack(wire[i])
      <4>1. rank[i] = rank[i - 1] + 1 /\ rank[i] <= Len(owed) /\ owed[rank[i]] = wire[i]
        BY <1>2, <3>3 DEF Ranks
      <4>2. rank[i] \in 1..Len(owed)
        BY <1>3, <3>2, <4>1
      <4>3. next[i] = next[i - 1] + 1 /\ next[i] <= Len(owed') /\ owed'[next[i]] = wire'[i]
        BY <1>3, <1>5, <3>1, <3>2, <4>1, <4>2
      <4> QED
        BY <3>1, <3>3, <4>3
    <3>4. CASE ~ForStack(wire[i])
      BY <1>2, <3>1, <3>2, <3>4 DEF Ranks
    <3> QED
      BY <3>3, <3>4
  <2>3. IF ForStack(p)
          THEN /\ next[Len(wire) + 1] = next[Len(wire)] + 1
               /\ next[Len(wire) + 1] <= Len(owed') /\ owed'[next[Len(wire) + 1]] = p
          ELSE next[Len(wire) + 1] = next[Len(wire)]
    <3>1. next[Len(wire)] = Len(owed) /\ next[Len(wire) + 1] = Len(owed')
      BY <1>2, <1>3, <1>8 DEF Ranks
    <3> QED
      BY <1>3, <1>5, <3>1
  <2>4. ASSUME NEW i \in 1..Len(wire')
        PROVE  IF ForStack(wire'[i])
                 THEN /\ next[i] = next[i - 1] + 1 /\ next[i] <= Len(owed')
                      /\ owed'[next[i]] = wire'[i]
                 ELSE next[i] = next[i - 1]
    <3>1. i \in 1..Len(wire) \/ (i = Len(wire) + 1 /\ i - 1 = Len(wire))
      BY <1>3, <1>4
    <3> QED
      BY <1>4, <2>2, <2>3, <3>1
  <2> QED
    BY <1>7, <2>1, <2>4 DEF Ranks, ForStack
<1>10. \A i \in 1..Len(stack) : stack'[i] = owed'[i]
  BY <1>1, <1>3, <1>5
<1>11. Fresh' /\ ForStack(rspData') => Seen' <= Len(owed') /\ owed'[Seen'] = rspData'
  <2>1. Fresh /\ ForStack(rspData) => Seen \in 1..Len(owed)
    BY <1>1, <1>3 DEF Seen
  <2> QED
    BY <1>1, <1>3, <1>5, <1>6, <2>1
<1>12. stack' \in Seq(Packets) /\ Len(stack') <= Len(owed')
  BY <1>1, <1>3, <1>5
<1>13. (\E rank2 \in [0..Len(wire) -> Nat] : Ranks(rank2))'
  BY <1>7, <1>9
<1> QED
  BY <1>5, <1>10, <1>11, <1>12, <1>13 DEF HandedUp, ForStack

\* It is read, when the buffer is free.
LEMMA HandedUpRead ==
  ASSUME HandedUp, WireOK, wire # <<>>, rspData' = Head(wire), wire' = Tail(wire),
         UNCHANGED <<stack, owed>>, ~Fresh, Fresh'
  PROVE  HandedUp'
<1>1. PICK rank \in [0..Len(wire) -> Nat] : Ranks(rank)
  BY DEF HandedUp
<1>2. /\ wire' \in Seq(Packets) /\ Len(wire) \in Nat \ {0} /\ Len(wire') = Len(wire) - 1
      /\ rspData' = wire[1] /\ \A i \in 1..Len(wire') : wire'[i] = wire[i + 1]
  BY DEF WireOK
<1>3. Len(stack) \in Nat /\ Len(owed) \in Nat /\ Len(stack) <= Len(owed)
  BY DEF HandedUp
<1>4. rank[0] = Len(stack) /\ rank[1] \in Nat /\ 1 \in 1..Len(wire)
  BY <1>1, <1>2 DEF Ranks, Seen
<1>5. /\ Seen' = rank[1]
      /\ ForStack(rspData') => Seen' <= Len(owed) /\ owed[Seen'] = rspData'
  <2>1. CASE ForStack(wire[1])
    <3>1. rank[1] = rank[1 - 1] + 1 /\ rank[1] <= Len(owed) /\ owed[rank[1]] = wire[1]
      BY <1>1, <1>4, <2>1 DEF Ranks
    <3> QED
      BY <1>2, <1>4, <2>1, <3>1 DEF Seen, ForStack
  <2>2. CASE ~ForStack(wire[1])
    <3>1. rank[1] = rank[1 - 1]
      BY <1>1, <1>4, <2>2 DEF Ranks
    <3> QED
      BY <1>2, <1>4, <2>2, <3>1 DEF Seen, ForStack
  <2> QED
    BY <2>1, <2>2
<1>a. PICK next : next = [i \in 0..Len(wire') |-> rank[i + 1]]
  OBVIOUS
<1>6. next \in [0..Len(wire') -> Nat]
  BY <1>2, <1>a
<1>7. \A i \in 0..Len(wire') : next[i] = rank[i + 1]
  BY <1>a
<1>8. Ranks(next)'
  <2>1. next[0] = Seen' /\ next[Len(wire')] = Len(owed)
    BY <1>1, <1>2, <1>5, <1>7 DEF Ranks
  <2>2. ASSUME NEW i \in 1..Len(wire')
        PROVE  IF ForStack(wire'[i])
                 THEN /\ next[i] = next[i - 1] + 1 /\ next[i] <= Len(owed)
                      /\ owed[next[i]] = wire'[i]
                 ELSE next[i] = next[i - 1]
    <3>1. i + 1 \in 1..Len(wire) /\ i \in 0..Len(wire') /\ i - 1 \in 0..Len(wire') /\ (i + 1) - 1 = i /\ (i - 1) + 1 = i
      BY <1>2
    <3>2. next[i] = rank[i + 1] /\ next[i - 1] = rank[i] /\ wire'[i] = wire[i + 1]
      BY <1>2, <1>7, <3>1
    <3>3. IF ForStack(wire[i + 1])
            THEN /\ rank[i + 1] = rank[(i + 1) - 1] + 1 /\ rank[i + 1] <= Len(owed)
                 /\ owed[rank[i + 1]] = wire[i + 1]
            ELSE rank[i + 1] = rank[(i + 1) - 1]
      BY <1>1, <3>1 DEF Ranks
    <3> QED
      BY <3>1, <3>2, <3>3
  <2> QED
    BY <1>6, <2>1, <2>2 DEF Ranks, ForStack
<1> QED
  BY <1>3, <1>5, <1>6, <1>8 DEF HandedUp, ForStack

\* What is handed up is the packet in the buffer, and every one for the stack.
LEMMA HandedUpNext ==
  ASSUME HandedUp, rspData \in Packets, UNCHANGED <<wire, owed>>, Fresh, ~Fresh',
         stack' = (IF ForStack(rspData) THEN Append(stack, rspData) ELSE stack)
  PROVE  HandedUp'
<1>1. /\ stack \in Seq(Packets) /\ owed \in Seq(Packets) /\ Len(stack) <= Len(owed)
      /\ \A i \in 1..Len(stack) : stack[i] = owed[i]
      /\ ForStack(rspData) => Seen <= Len(owed) /\ owed[Seen] = rspData
      /\ Len(stack) \in Nat /\ Len(owed) \in Nat
  BY DEF HandedUp
<1>2. Seen' = Seen
  BY <1>1 DEF Seen, ForStack
<1>3. \A rank : Ranks(rank) => Ranks(rank)'
  BY <1>2 DEF Ranks, ForStack
<1>4. stack' \in Seq(Packets) /\ Len(stack') <= Len(owed) /\ \A i \in 1..Len(stack') : stack'[i] = owed[i]
  <2>1. CASE ForStack(rspData)
    <3>1. /\ stack' \in Seq(Packets) /\ Len(stack') = Len(stack) + 1 /\ stack'[Len(stack) + 1] = rspData
          /\ \A i \in 1..Len(stack) : stack'[i] = stack[i]
      BY <1>1, <2>1
    <3>2. Seen = Len(stack) + 1
      BY <2>1 DEF Seen
    <3>3. ASSUME NEW i \in 1..Len(stack') PROVE stack'[i] = owed[i]
      <4>1. i \in 1..Len(stack) \/ i = Len(stack) + 1
        BY <1>1, <3>1
      <4> QED
        BY <1>1, <2>1, <3>1, <3>2, <4>1
    <3> QED
      BY <1>1, <2>1, <3>1, <3>2, <3>3
  <2>2. CASE ~ForStack(rspData)
    BY <1>1, <2>2
  <2> QED
    BY <2>1, <2>2
<1> QED
  BY <1>1, <1>3, <1>4 DEF HandedUp

LEMMA ReaderRoutes == WindowInv /\ RouteInv /\ Reader => RouteInv'
<1> SUFFICES ASSUME WindowInv, RouteInv, Reader PROVE RouteInv'
  OBVIOUS
<1>1. /\ UNCHANGED <<stack, owed, nfcc, cmdData, pc, client>>
      /\ armed /\ wire # <<>> /\ ~Queued("rx") /\ rspData' = Head(wire) /\ wire' = Tail(wire)
      /\ queue' = Append(queue, "read")
  BY DEF Reader, host, router, WindowInv, Base, InTime, Queued
<1>2. WireOK /\ ~ReadWaits /\ ~Fresh /\ ~Queued("read")
  BY <1>1 DEF WindowInv, Base, TransportOK, ReadWaits, Fresh, Queued
<1>3. Fresh' /\ ~Queued("rx")'
  <2>1. \A x : Queued(x)' <=> Queued(x) \/ x = "read"
    BY <1>1, <1>2, QueueGrows DEF Messages, WindowInv, Base
  <2> QED
    BY <1>1, <2>1 DEF Fresh
<1>4. Asked' <=> Asked
  BY <1>1 DEF Asked, IsExt
<1>5. /\ Head(wire) = wire[1] /\ 1 \in 1..Len(wire)
      /\ \A i \in 1..Len(wire') : i + 1 \in 1..Len(wire) /\ wire'[i] = wire[i + 1]
  BY <1>1, <1>2, WireShrinks
<1>6. RouteOK'
  <2>1. rspData'.kind # "local" /\ Answers(rspData)'
    BY <1>1, <1>4, <1>5 DEF RouteInv, RouteOK, Answers, IsRsp
  <2>2. ASSUME NEW i \in 1..Len(wire') PROVE wire'[i].kind # "local" /\ Answers(wire[i])'
    BY <1>4, <1>5 DEF RouteInv, RouteOK, Answers, IsRsp
  <2> QED
    BY <1>1, <1>3, <2>1, <2>2 DEF RouteInv, RouteOK
<1> QED
  BY <1>1, <1>2, <1>3, <1>6, HandedUpRead DEF RouteInv

\* What the NFCC sends: for the stack, but for the answers to the HAL.
LEMMA SentRoutes ==
  ASSUME WindowInv, RouteInv, NfccMoves, UNCHANGED <<stack>>, NEW p \in Packets, wire' = Append(wire, p),
         owed' = (IF ForStack(p) THEN Append(owed, p) ELSE owed),
         p.kind # "local", Answers(p), nfcc' # <<>> => nfcc'[1].kind # "local"
  PROVE  RouteInv'
<1>1. /\ UNCHANGED <<cmdData, pc, client, rspData, queue>> /\ (Fresh' <=> Fresh) /\ (Asked' <=> Asked)
      /\ (Queued("rx")' <=> Queued("rx"))
  BY NfccAlone DEF Queued
<1>2. WireOK /\ HandedUp /\ RouteOK
  BY DEF WindowInv, Base, RouteInv
<1>3. HandedUp'
  BY <1>1, <1>2, HandedUpGrows
<1>4. \A i \in 1..Len(wire') : (i \in 1..Len(wire) /\ wire'[i] = wire[i]) \/ wire'[i] = p
  <2>1. wire \in Seq(Packets)
    BY <1>2 DEF WireOK
  <2> QED
    BY <2>1
<1>5. ASSUME NEW i \in 1..Len(wire') PROVE wire'[i].kind # "local" /\ Answers(wire[i])'
  BY <1>1, <1>2, <1>4 DEF RouteOK, Answers, IsRsp
<1>6. Fresh' => rspData'.kind # "local" /\ Answers(rspData)'
  BY <1>1, <1>2 DEF RouteOK, Answers, IsRsp
<1>7. RouteOK'
  BY <1>1, <1>2, <1>5, <1>6 DEF RouteOK
<1> QED
  BY <1>3, <1>7 DEF RouteInv

LEMMA NfccRoutes == WindowInv /\ RouteInv /\ (Nfcc \/ Event) => RouteInv'
<1> SUFFICES ASSUME WindowInv, RouteInv, Nfcc \/ Event PROVE RouteInv'
  OBVIOUS
<1>0. NfccMoves /\ UNCHANGED stack
  BY DEF Nfcc, Event, NfccMoves, router
<1>1. nfcc # <<>> => /\ nfcc = <<nfcc[1]>> /\ Head(nfcc) = nfcc[1] /\ nfcc[1] \in Packets
                     /\ nfcc[1].kind # "local" /\ Tail(nfcc) = <<>>
                     /\ nfcc[1].mt # "cmd" => nfcc[1].mt = "ntf" /\ nfcc[1].kind = "reset"
  <2>1. nfcc # <<>> => nfcc = <<nfcc[1]>> /\ nfcc[1] \in Packets
                       /\ (nfcc[1].mt # "cmd" => nfcc[1].mt = "ntf" /\ nfcc[1].kind = "reset")
    BY DEF WindowInv, Base, NfccOK
  <2>2. \A x : Head(<<x>>) = x /\ Tail(<<x>>) = <<>>
    OBVIOUS
  <2> QED
    BY <2>1, <2>2 DEF RouteInv, RouteOK
<1>2. CASE NfccResponds
  <2>1. nfcc # <<>> /\ nfcc[1].mt = "cmd"
    BY <1>1, <1>2 DEF NfccResponds
  <2>2. PICK ok \in BOOLEAN :
          LET c == Head(nfcc)  p == Packet("rsp", c.kind, c.n, ok) IN
          /\ Sends(p) /\ Owes(p)
          /\ nfcc' = IF c.kind = "reset" /\ ok THEN [nfcc EXCEPT ![1].mt = "ntf"] ELSE Tail(nfcc)
    BY <1>2 DEF NfccResponds
  <2> DEFINE p == Packet("rsp", nfcc[1].kind, nfcc[1].n, ok)
  <2>3. /\ wire' = Append(wire, p) /\ owed' = (IF ForStack(p) THEN Append(owed, p) ELSE owed)
        /\ nfcc' = (IF nfcc[1].kind = "reset" /\ ok THEN [nfcc EXCEPT ![1].mt = "ntf"] ELSE Tail(nfcc))
    BY <1>1, <2>1, <2>2 DEF Sends, Owes, ForStack
  <2>4. p \in Packets /\ p.kind = nfcc[1].kind /\ p.mt = "rsp"
    BY <1>1, <2>1 DEF Packet, Packets
  <2>5. Answers(p)
    <3>1. AtNfcc
      BY <2>1 DEF AtNfcc
    <3>2. nfcc[1].kind \in Ext => Asked
      BY <3>1 DEF WindowInv, Awakening
    <3> QED
      BY <2>4, <3>2 DEF Answers
  <2>6. nfcc' # <<>> => nfcc'[1].kind # "local"
    <3>1. CASE nfcc[1].kind = "reset" /\ ok
      <4>1. nfcc' = [nfcc EXCEPT ![1].mt = "ntf"] /\ 1 \in DOMAIN nfcc
        BY <1>1, <2>1, <2>3, <3>1
      <4>2. nfcc'[1] = [nfcc[1] EXCEPT !.mt = "ntf"]
        BY <4>1
      <4>3. nfcc'[1].kind = nfcc[1].kind
        BY <1>1, <2>1, <4>2 DEF Packets
      <4> QED
        BY <1>1, <2>1, <4>3
    <3>2. CASE ~(nfcc[1].kind = "reset" /\ ok)
      BY <1>1, <2>1, <2>3, <3>2
    <3> QED
      BY <3>1, <3>2
  <2> HIDE DEF p
  <2> QED
    BY <1>0, <1>1, <2>1, <2>3, <2>4, <2>5, <2>6, SentRoutes
<1>3. CASE NfccNotifies
  <2>1. /\ nfcc # <<>> /\ nfcc[1].mt = "ntf" /\ nfcc[1].kind = "reset" /\ nfcc[1] \in Packets
        /\ wire' = Append(wire, nfcc[1]) /\ nfcc' = <<>> /\ UNCHANGED owed
    BY <1>1, <1>3 DEF NfccNotifies, Sends
  <2>2. ~ForStack(nfcc[1]) /\ Answers(nfcc[1]) /\ nfcc[1].kind # "local"
    BY <2>1 DEF ForStack, Ext, Answers, IsRsp
  <2> QED
    BY <1>0, <2>1, <2>2, SentRoutes
<1>4. CASE NfccForgets
  <2>1. UNCHANGED <<stack, owed, wire>> /\ nfcc' = <<>>
    BY <1>0, <1>1, <1>4 DEF NfccForgets
  <2>2. /\ UNCHANGED <<cmdData, pc, client, rspData, queue>> /\ (Fresh' <=> Fresh) /\ (Asked' <=> Asked)
        /\ (Queued("rx")' <=> Queued("rx"))
    BY <1>0, NfccAlone DEF Queued
  <2> QED
    BY <2>1, <2>2, HandedUpStays, RouteStays DEF RouteInv, RouteOK
<1>5. CASE Event
  <2>0. PICK k \in {"event", "error"} :
          /\ Sends(Packet("ntf", k, events + 1, TRUE))
          /\ Owes(Packet("ntf", k, events + 1, TRUE)) /\ UNCHANGED nfcc
    BY <1>5 DEF Event, NfccEvent, HeldBack
  <2> DEFINE p == Packet("ntf", k, events + 1, TRUE)
  <2>1. Sends(p) /\ Owes(p) /\ UNCHANGED nfcc
    BY <2>0
  <2>2. p \in Packets /\ p.kind \in {"event", "error"} /\ p.mt = "ntf"
    BY DEF Packet, Packets, WindowInv, Base, TypesOK
  <2>3. Answers(p) /\ p.kind # "local"
    BY <2>2 DEF Answers, IsRsp
  <2>4. nfcc' # <<>> => nfcc'[1].kind # "local"
    BY <2>1 DEF RouteInv, RouteOK
  <2> HIDE DEF p
  <2>5. wire' = Append(wire, p) /\ owed' = (IF ForStack(p) THEN Append(owed, p) ELSE owed)
    BY <2>1 DEF Sends, Owes, ForStack
  <2> QED
    BY <1>0, <2>2, <2>3, <2>4, <2>5, SentRoutes
<1> QED
  BY <1>2, <1>3, <1>4, <1>5 DEF Nfcc

\* The flags of the HAL and the status of the extension route every packet
\* to the right side.
LEMMA PacketRouted ==
  ASSUME WindowInv, RouteOK, NoPresence, Fresh
  PROVE  /\ Processed(rspData) = rspData
         /\ (~WakesExt(rspData) /\ ExtSuccess(rspData)) <=> ForStack(rspData)
<1>1. FromNfcc(rspData) /\ Ext = {"config", "reset"} /\ HeldBack = {"error"}
  BY DEF WindowInv, Base, TransportOK, Ext, HeldBack
<1>2. Processed(rspData) = rspData
  BY <1>1 DEF Processed, FromNfcc, NoPresence
<1>3. halExtEnabled => cmdData.kind \in Ext /\ pc \in Waiting \cup After
  BY DEF WindowInv, Base, FlagsOK, IsExt
<1>4. CASE rspData.mt = "rsp"
  <2>1. IsRsp(rspData)
    BY <1>4 DEF IsRsp
  <2>2. rspData.kind \in Ext => halExtEnabled
    BY <2>1 DEF RouteOK, Answers, Asked, WindowInv, Base, FlagsOK, Waiting
  <2>3. halExtEnabled => rspData.kind \in Ext
    BY <1>3, <2>1 DEF WindowInv, Own, Mine, IsExt
  <2>4. rspData.kind # "error"
    BY <1>1, <1>4, HalAssumption DEF FromNfcc, Stack
  <2> QED
    BY <1>1, <1>2, <1>4, <2>2, <2>3, <2>4 DEF WakesExt, ForStack, ExtSuccess
<1>5. CASE rspData.mt = "ntf" /\ rspData.kind = "reset"
  <2>1. NtfRead /\ ~FreshRsp
    BY <1>5 DEF NtfRead, FreshRsp, IsRsp, IsNtf
  <2>2. ~Unanswered /\ NtfPending
    BY <2>1 DEF Unanswered, NtfPending, WindowInv, OneNtf
  <2>3. IsExt /\ pc \in Waiting /\ waitForNtf
    BY <2>2 DEF WindowInv, Awakening
  <2>4. halExtEnabled /\ rspData.kind = cmdData.kind
    BY <1>5, <2>3 DEF WindowInv, Base, FlagsOK, Own, Mine, IsNtf
  <2> QED
    BY <1>1, <1>2, <1>5, <2>3, <2>4 DEF WakesExt, ForStack
<1>6. CASE rspData.mt = "ntf" /\ rspData.kind \in {"event", "error"}
  BY <1>1, <1>2, <1>3, <1>6 DEF WakesExt, ForStack, ExtSuccess
<1> QED
  BY <1>1, <1>4, <1>5, <1>6 DEF FromNfcc

LEMMA ClientRoutes == WindowInv /\ RouteInv /\ NoPresence /\ Client => RouteInv'
<1> SUFFICES ASSUME WindowInv, RouteInv, NoPresence, Client PROVE RouteInv'
  OBVIOUS
<1>1. UNCHANGED <<owed, wire, nfcc, cmdData, pc>> /\ (Asked' <=> Asked)
  BY DEF Client, ClientFetch, ClientPacket, ClientUnblock, ClientTimeout, ClientKeeps, chip, Asked, IsExt
<1>2. CASE ClientFetch
  <2>1. /\ UNCHANGED rspData /\ client = "fetch" /\ queue # <<>> /\ queue' = Tail(queue)
        /\ client' = CASE Head(queue) = "read" -> "packet" [] Head(queue) = "timeout" -> "timeout"
                       [] OTHER -> "fetch"
        /\ Head(queue) # "rx" => UNCHANGED stack
        /\ Head(queue) = "rx" => HandUp(rspData)
    BY <1>2 DEF ClientFetch, ClientKeeps
  <2>2. /\ Queued(Head(queue)) /\ (Queued("rx")' => Queued("rx"))
        /\ Queued("read")' <=> Queued("read") /\ Head(queue) # "read"
    BY <2>1, QueueShrinks DEF WindowInv, Base
  <2>3. Fresh' <=> Fresh
    BY <2>1, <2>2 DEF Fresh
  <2>4. UNCHANGED stack
    BY <2>1, <2>2 DEF RouteInv, RouteOK, HandUp
  <2> QED
    BY <1>1, <2>1, <2>2, <2>3, <2>4, HandedUpStays, RouteStays DEF RouteInv, RouteOK
<1>3. CASE ClientPacket
  <2>1. client = "packet" /\ client' = "unblock" /\ UNCHANGED queue
    BY <1>3 DEF ClientPacket
  <2>2. Fresh /\ ~Fresh' /\ ~Queued("rx")' /\ rspData \in Packets
    <3>1. Fresh /\ ~Queued("read") /\ ~Queued("rx")
      BY <2>1 DEF Fresh, WindowInv, Base, TransportOK, ReadWaits
    <3> QED
      BY <2>1, <3>1 DEF Fresh, Queued, WindowInv, Base, TypesOK
  <2>3. /\ Processed(rspData) = rspData
        /\ (~WakesExt(rspData) /\ ExtSuccess(rspData)) <=> ForStack(rspData)
    BY <2>2, PacketRouted DEF RouteInv
  <2>4. stack' = (IF ForStack(rspData) THEN Append(stack, rspData) ELSE stack) /\ rspData' = rspData
    BY <1>3, <2>2, <2>3 DEF ClientPacket, HandUp, RouteInv, RouteOK
  <2>5. HandedUp'
    BY <1>1, <2>2, <2>4, HandedUpNext DEF RouteInv
  <2>6. RouteOK'
    BY <1>1, <2>2 DEF RouteInv, RouteOK, Answers, IsRsp
  <2> QED
    BY <2>5, <2>6 DEF RouteInv
<1>4. CASE ClientUnblock \/ ClientTimeout
  <2>1. UNCHANGED <<stack, rspData, queue>> /\ client' = "fetch" /\ client # "packet"
    BY <1>4 DEF ClientUnblock, ClientTimeout, ClientKeeps
  <2>2. (Fresh' <=> Fresh) /\ (Queued("rx")' <=> Queued("rx"))
    BY <2>1 DEF Fresh, Queued
  <2> QED
    BY <1>1, <2>1, <2>2, HandedUpStays, RouteStays DEF RouteInv, RouteOK
<1> QED
  BY <1>2, <1>3, <1>4 DEF Client

LEMMA RouteStep == WindowInv /\ RouteInv /\ NoPresence /\ [HalNext]_halVars => RouteInv'
<1> SUFFICES ASSUME WindowInv, RouteInv, NoPresence, [HalNext]_halVars PROVE RouteInv'
  OBVIOUS
<1>1. ASSUME NEW k \in Kinds, Call(k) PROVE RouteInv'
  BY <1>1, CallRoutes
<1>2. CASE UNCHANGED halVars
  <2>1. UNCHANGED <<stack, owed, wire, nfcc, cmdData, pc, client, rspData, queue>>
    BY <1>2 DEF halVars, chip, host, router
  <2>2. (Fresh' <=> Fresh) /\ (Queued("rx")' <=> Queued("rx")) /\ (Asked' <=> Asked)
    BY <2>1 DEF Fresh, Queued, Asked, IsExt
  <2> QED
    BY <2>1, <2>2, HandedUpStays, RouteStays DEF RouteInv, RouteOK
<1> QED
  BY <1>1, <1>2, ThreadRoutes, WriterRoutes, ReaderRoutes, NfccRoutes, TimerRoutes, ClientRoutes DEF HalNext

LEMMA RouteStarts == HalInit => RouteInv
<1> SUFFICES ASSUME HalInit PROVE RouteInv
  OBVIOUS
<1>1. RouteOK /\ ~Fresh
  BY DEF HalInit, RouteOK, Fresh, Queued, Contains
<1>2. wire = <<>> /\ stack = <<>> /\ owed = <<>> /\ Seen = 0
  BY <1>1 DEF HalInit, Seen
<1>3. \A T : <<>> \in Seq(T) /\ Len(<<>>) = 0
  OBVIOUS
<1>4. PICK rank : rank = [i \in 0..0 |-> 0]
  OBVIOUS
<1>5. rank \in [0..Len(wire) -> Nat] /\ Ranks(rank)
  BY <1>2, <1>3, <1>4 DEF Ranks
<1>6. HandedUp
  BY <1>1, <1>2, <1>3, <1>5 DEF HandedUp
<1> QED
  BY <1>1, <1>6 DEF RouteInv

LEMMA RouteShows == RouteInv => StackSeesItsPackets
<1> SUFFICES ASSUME RouteInv PROVE StackSeesItsPackets
  OBVIOUS
<1>1. /\ stack \in Seq(Packets) /\ owed \in Seq(Packets) /\ Len(stack) <= Len(owed)
      /\ \A i \in 1..Len(stack) : stack[i] = owed[i]
  BY DEF RouteInv, HandedUp
<1>2. IsPrefix(stack, owed)
  <2>1. Len(stack) \in Nat /\ Len(owed) \in Nat
    BY <1>1
  <2>2. SubSeq(stack, 1, Len(stack)) = SubSeq(owed, 1, Len(stack))
    BY <1>1, <2>1
  <2> QED
    BY <1>1, <2>2 DEF IsPrefix
<1>3. ASSUME Quiet PROVE stack = owed
  <2>1. wire = <<>> /\ ~Fresh
    BY <1>3, NothingIfQuiet DEF Quiet
  <2>2. PICK rank \in [0..Len(wire) -> Nat] : Ranks(rank)
    BY DEF RouteInv, HandedUp
  <2>3. Len(wire) = 0
    BY <2>1
  <2>4. Len(stack) = Len(owed)
    BY <2>1, <2>2, <2>3 DEF Ranks, Seen
  <2> QED
    BY <1>1, <2>4
<1> QED
  BY <1>2, <1>3 DEF StackSeesItsPackets

\* The stack gets all that is sent to it and that the extension does not hold
\* back, once and in order, and nothing that answers a command of the HAL: while answers come in time or never and the
\* stack checks no presence, the flags that route what is read are right for
\* every packet, whatever calls, timeouts and lost responses came before.
THEOREM StackSeesItsPacketsHolds ==
  InTime /\ NoPresence => (HalSpec => []StackSeesItsPackets)
<1>1. HalInit => RouteInv
  BY RouteStarts
<1>2. WindowInv /\ RouteInv /\ NoPresence /\ [HalNext]_halVars => RouteInv'
  BY RouteStep
<1>3. RouteInv => StackSeesItsPackets
  BY RouteShows
<1>4. NoPresence => []NoPresence
  <2>1. NoPresence => NoPresence'
    BY DEF NoPresence
  <2> QED
    BY <2>1, PTL
<1> QED
  BY <1>1, <1>2, <1>3, <1>4, WindowHolds, PTL DEF HalSpec
===============================================================================
