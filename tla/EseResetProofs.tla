---------------------------- MODULE EseResetProofs ----------------------------
(***************************************************************************)
(* Proofs about EseReset, for any number of resets, retries and packets.   *)
(*                                                                         *)
(* StackHears says that the reader sleeps only with a token left for it.   *)
(* A token serves it only while its request is enabled, so what is         *)
(* invariant is that: from the moment nfccHalRestartThread has enabled the *)
(* request, it stays enabled unless a packet is on its way to the client   *)
(* thread, which enables it again.                                         *)
(***************************************************************************)
EXTENDS EseReset, TLAPS

FieldsOK ==
  /\ readInfo \in [enable : BOOLEAN, busy : BOOLEAN]
  /\ rx \in Nat /\ queue \in Nat
  /\ {"pc", "flushed"} \subseteq DOMAIN call
  /\ call.pc \in {"enable", "busy", "flush"} => ~call.flushed

\* nfccHalRestartThread has enabled the reader again.
Resumed == call.pc \in {"resumeBusy", "post"} \/ (call.pc = "idle" /\ call.flushed)

\* No packet is on its way to the client thread.
NoPacket == queue = 0 /\ reader # "post"

RequestKept ==
  Resumed /\ NoPacket /\ client \in {"fetch", "post"} => readInfo.enable

\* A packet is not dropped with the request disabled.
PacketAnswered ==
  Resumed /\ client = "packet" /\ readInfo.busy =>
    call.pc = "resumeBusy" /\ (NoPacket => readInfo.enable)

HearsInv == FieldsOK /\ RequestKept /\ PacketAnswered /\ StackHears

-----------------------------------------------------------------------------
LEMMA HearsInit == Init => HearsInv
BY DEF Init, NoThread, HearsInv, FieldsOK, RequestKept, PacketAnswered, Resumed, NoPacket,
       StackHears

\* The NFC controller changes nothing of this.
LEMMA HearsNfcc == HearsInv /\ Nfcc => HearsInv'
BY DEF Nfcc, NfccAnswers, NfccLoses, NfccEvent, tml, HearsInv, FieldsOK, RequestKept,
       PacketAnswered, Resumed, NoPacket, StackHears

\* Nor does the thread that talks to it.
LEMMA HearsThread == HearsInv /\ Thread => HearsInv'
<1> SUFFICES ASSUME HearsInv, Thread PROVE HearsInv'
  OBVIOUS
<1>1. UNCHANGED <<call, tml>>
  BY DEF Thread, Write, SendAgain, ResetAnswered, ResetNtf, NotResetNtf, InitAnswered,
         SetAnswered, SetSilent, Receives, ReceivesNothing, ThreadKeeps
<1> QED
  BY <1>1 DEF tml, HearsInv, FieldsOK, RequestKept, PacketAnswered, Resumed, NoPacket, StackHears

LEMMA HearsCaller == HearsInv /\ (EseSoftReset \/ Caller) => HearsInv'
<1> SUFFICES ASSUME HearsInv, EseSoftReset \/ Caller PROVE HearsInv'
  OBVIOUS
<1> USE DEF HearsInv, FieldsOK, RequestKept, PacketAnswered, Resumed, NoPacket, StackHears,
            CallAt, CallGoto, CallerKeeps, nfcc, tml
<1>1. CASE EseSoftReset
  BY <1>1 DEF EseSoftReset
<1>2. CASE PauseEnable
  BY <1>2 DEF PauseEnable
<1>3. CASE PauseBusy
  BY <1>3 DEF PauseBusy
<1>4. CASE Flush
  <2>1. UNCHANGED <<readInfo, rx, queue, client>>
    BY <1>4 DEF Flush
  <2>2. CASE Flushes /\ call' = [call EXCEPT !.pc = "start", !.flushed = TRUE]
    <3>1. call'.pc = "start" /\ {"pc", "flushed"} \subseteq DOMAIN call'
      BY <2>2
    <3> QED
      BY <2>1, <3>1
  <2>3. CASE UNCHANGED reader /\ CallGoto("idle")
    <3>1. ~call.flushed
      BY <1>4 DEF Flush
    <3>2. /\ call'.pc = "idle" /\ call'.flushed = call.flushed
          /\ {"pc", "flushed"} \subseteq DOMAIN call'
      BY <2>3
    <3> QED
      BY <2>1, <3>1, <3>2
  <2> QED
    BY <1>4, <2>2, <2>3 DEF Flush
<1>5. CASE StartThread
  BY <1>5 DEF StartThread, Send
<1>6. CASE Woken
  BY <1>6 DEF Woken, NoThread
<1>7. CASE TimedOut
  BY <1>7 DEF TimedOut, Flushes
<1>8. CASE Joined
  BY <1>8 DEF Joined, NoThread
<1>9. CASE ResumeEnable
  BY <1>9 DEF ResumeEnable
<1>10. CASE ResumeBusy
  BY <1>10 DEF ResumeBusy
<1>11. CASE ResumePost
  BY <1>11 DEF ResumePost, PostIfZero
<1> QED
  BY <1>1, <1>2, <1>3, <1>4, <1>5, <1>6, <1>7, <1>8, <1>9, <1>10, <1>11 DEF Caller

LEMMA HearsReader == HearsInv /\ Reader => HearsInv'
<1> SUFFICES ASSUME HearsInv, Reader PROVE HearsInv'
  OBVIOUS
<1> USE DEF HearsInv, FieldsOK, RequestKept, PacketAnswered, Resumed, NoPacket, StackHears,
            TmlKeeps
<1>1. CASE ReaderWait
  BY <1>1 DEF ReaderWait
<1>2. CASE ReaderCheck
  BY <1>2 DEF ReaderCheck
<1>3. CASE ReaderError
  BY <1>3 DEF ReaderError
<1>4. CASE ReaderTake
  BY <1>4 DEF ReaderTake
<1>5. CASE ReaderPost
  <2>1. queue \in Nat /\ queue' = queue + 1 /\ reader' = "wait"
    BY <1>5 DEF ReaderPost
  <2>2. queue' \in Nat /\ queue' # 0
    BY ONLY <2>1, SMT
  <2>3. readInfo' = [readInfo EXCEPT !.enable = FALSE] /\ UNCHANGED <<rx, client, call>>
    BY <1>5 DEF ReaderPost
  <2>4. /\ readInfo' \in [enable : BOOLEAN, busy : BOOLEAN]
        /\ readInfo'.busy = readInfo.busy
    <3>1. readInfo \in [enable : BOOLEAN, busy : BOOLEAN]
      OBVIOUS
    <3> QED
      BY ONLY <2>3, <3>1
  <2> QED
    BY <2>1, <2>2, <2>3, <2>4
<1> QED
  BY <1>1, <1>2, <1>3, <1>4, <1>5 DEF Reader

LEMMA HearsClient == HearsInv /\ Client => HearsInv'
<1> SUFFICES ASSUME HearsInv, Client PROVE HearsInv'
  OBVIOUS
<1> USE DEF HearsInv, FieldsOK, RequestKept, PacketAnswered, Resumed, NoPacket, StackHears,
            TmlKeeps
<1>1. CASE ClientFetch
  <2>1. queue \in Nat /\ queue > 0 /\ queue' = queue - 1 /\ client' = "packet"
    BY <1>1 DEF ClientFetch
  <2>2. queue' \in Nat
    BY ONLY <2>1, SMT
  <2>3. readInfo' = [readInfo EXCEPT !.busy = FALSE] /\ UNCHANGED <<rx, reader, call>>
    BY <1>1 DEF ClientFetch
  <2>4. readInfo' \in [enable : BOOLEAN, busy : BOOLEAN] /\ ~readInfo'.busy
    <3>1. readInfo \in [enable : BOOLEAN, busy : BOOLEAN]
      OBVIOUS
    <3> QED
      BY ONLY <2>3, <3>1
  <2> QED
    BY <2>1, <2>2, <2>3, <2>4
<1>2. CASE ClientRead
  BY <1>2 DEF ClientRead
<1>3. CASE ClientEnable
  BY <1>3 DEF ClientEnable
<1>4. CASE ClientPost
  BY <1>4 DEF ClientPost, PostIfZero
<1> QED
  BY <1>1, <1>2, <1>3, <1>4 DEF Client

-----------------------------------------------------------------------------
\* Whatever the reader and the client thread were at when a reset paused them,
\* and however often it is reset: between resets the reader is not left asleep
\* with nobody to wake it.
THEOREM StackAlwaysHears == Spec => []StackHears
<1>1. HearsInv /\ [Next]_vars => HearsInv'
  <2> SUFFICES ASSUME HearsInv, [Next]_vars PROVE HearsInv'
    OBVIOUS
  <2>1. CASE UNCHANGED vars
    BY <2>1 DEF vars, nfcc, tml, HearsInv, FieldsOK, RequestKept, PacketAnswered, Resumed,
                NoPacket, StackHears
  <2> QED
    BY <2>1, HearsNfcc, HearsThread, HearsCaller, HearsReader, HearsClient DEF Next
<1>2. HearsInv => StackHears
  BY DEF HearsInv
<1> QED
  BY HearsInit, <1>1, <1>2, PTL DEF Spec

-----------------------------------------------------------------------------
(***************************************************************************)
(* OwnAnswer.  A call takes the answers of another for its own only where  *)
(* those line up behind one another as its own would: after a CORE_INIT a  *)
(* switch of the mode.  What is invariant is that they do not, whichever   *)
(* of them are lost, delayed or taken by the reader.                       *)
(***************************************************************************)
\* What the commands and the packets of CORE_INIT and of the switch of the
\* mode are called, on their way in either direction.
Inits == {"init", "initRsp", "initBad"}
Sets  == {"set", "setRsp", "setBad"}

\* What the NFCC has sent and will send: no item of A is there, or none of A
\* before one of B.
None(A) ==
  /\ \A i \in DOMAIN wire : wire[i] \notin A
  /\ \A j \in DOMAIN cmds : cmds[j][1] \notin A

NotBefore(A, B) ==
  /\ \A i, j \in DOMAIN wire : i < j /\ wire[i] \in A => wire[j] \notin B
  /\ \A i \in DOMAIN wire, j \in DOMAIN cmds : wire[i] \in A => cmds[j][1] \notin B
  /\ \A i, j \in DOMAIN cmds : i < j /\ cmds[i][1] \in A => cmds[j][1] \notin B

\* Where this reset is: its thread has asked for CORE_INIT, switches the mode,
\* or has won or lost.
Asked == thread.cmd = "init" /\ thread.pc = "first"
Setting == thread.cmd = "set"
Won == call.ok \/ (CallAt("wait") /\ thread.pc = "end" /\ thread.last)
Lost == /\ ~Won
        /\ \/ thread.pc = "end" \/ call.pc \in {"resume", "resumeBusy", "post"}
           \/ CallAt("idle") /\ call.n > 0
Before == ~(Asked \/ Setting \/ Won \/ Lost)

\* Every switch of the mode that is on its way is of this call.
OwnSets ==
  /\ \A j \in DOMAIN cmds : cmds[j][1] = "set" => cmds[j][2] = call.n
  /\ \A i \in DOMAIN wire : wire[i] = "setRsp" => restarted

Commands == {"reset", "init", "set"}
CallPcs == {"idle", "enable", "busy", "flush", "start", "wait", "join", "resume", "resumeBusy",
            "post"}

OwnTypeOK ==
  /\ wire \in Seq(Packets) /\ cmds \in Seq(Commands \X Nat)
  /\ call \in [pc : CallPcs, n : Nat, flushed : BOOLEAN, ok : BOOLEAN, given : Nat]
  /\ thread \in [pc : {"none", "end", "write", "first", "ntf", "next"},
                 cmd : Commands \cup {"none"}, left : Nat, last : BOOLEAN]

\* The thread is there for the caller that waits for it; CORE_INIT is not
\* sent again.
CallOK ==
  /\ thread.pc \in {"none", "end"} <=> thread.cmd = "none"
  /\ thread.pc = "ntf" => thread.cmd = "reset"
  /\ thread.pc = "next" => thread.cmd = "set"
  /\ thread.cmd = "init" => thread.left = 0
  /\ thread.pc = "none" <=> call.pc \notin {"wait", "join"}
  /\ call.pc = "wait" => running
  /\ call.ok => call.pc \in {"resume", "resumeBusy", "post", "idle"}
  /\ call.n = 0 => call.pc = "idle" /\ ~call.ok

OrderOK ==
  /\ call.given = 0 /\ (Before \/ Setting) => None(Inits)
  /\ call.given = 0 /\ Asked => NotBefore(Inits, Inits)
  /\ call.given = 0 /\ Lost => NotBefore(Inits, Sets)
  /\ call.given < 2 /\ (Before \/ Asked) => NotBefore(Inits, Sets)
  /\ call.given < 2 /\ Setting => NotBefore(Sets, Inits) /\ OwnSets
  /\ call.given < 2 /\ Won => None(Inits) /\ restarted

OwnInv == OwnTypeOK /\ CallOK /\ OrderOK

-----------------------------------------------------------------------------
\* What is taken, lost or answered on the way does not change the order of
\* the rest, nor whose it is.
Kept ==
  /\ \A A, B \in {Inits, Sets} : /\ None(A) => None(A)'
                                 /\ NotBefore(A, B) => NotBefore(A, B)'
  /\ restarted => restarted'
  /\ OwnSets => OwnSets'

LEMMA NoneBefore ==
  ASSUME NEW A, NEW B, None(A)
  PROVE  NotBefore(A, B)
BY DEF None, NotBefore

LEMMA Takes ==
  ASSUME OwnTypeOK, wire # <<>>, wire' = Tail(wire), UNCHANGED <<cmds, restarted, call>>
  PROVE  /\ Kept /\ wire' \in Seq(Packets) /\ Head(wire) \in Packets
         /\ \A A, B \in {Inits, Sets} : NotBefore(A, B) /\ Head(wire) \in A => None(B)'
<1>1. /\ Len(wire) \in Nat /\ Len(wire) >= 1 /\ DOMAIN wire = 1..Len(wire) /\ Head(wire) = wire[1]
      /\ wire' \in Seq(Packets) /\ Len(wire') = Len(wire) - 1 /\ DOMAIN wire' = 1..Len(wire')
      /\ \A k \in 1..(Len(wire) - 1) : wire'[k] = wire[k + 1]
      /\ Head(wire) \in Packets
  BY DEF OwnTypeOK
<1>2. \A k \in DOMAIN wire' : k + 1 \in DOMAIN wire /\ wire'[k] = wire[k + 1] /\ 1 < k + 1
  BY <1>1
<1>3. \A i, j \in DOMAIN wire' : i < j => i + 1 < j + 1
  BY <1>1
<1>4. ASSUME NEW A, NEW B PROVE /\ None(A) => None(A)'
                                /\ NotBefore(A, B) => NotBefore(A, B)'
                                /\ NotBefore(A, B) /\ Head(wire) \in A => None(B)'
  <2>1. None(A) => None(A)'
    BY <1>2 DEF None
  <2>2. NotBefore(A, B) => NotBefore(A, B)'
    BY <1>2, <1>3 DEF NotBefore
  <2>3. NotBefore(A, B) /\ Head(wire) \in A => None(B)'
    <3>1. 1 \in DOMAIN wire
      BY <1>1
    <3>2. QED
      BY <1>1, <1>2, <3>1 DEF NotBefore, None
  <2>4. QED
    BY <2>1, <2>2, <2>3
<1>5. OwnSets => OwnSets'
  BY <1>2 DEF OwnSets
<1>6. QED
  BY <1>1, <1>4, <1>5 DEF Kept

LEMMA EventKeeps ==
  ASSUME OwnTypeOK, NfccEvent
  PROVE  Kept /\ wire' \in Seq(Packets)
<1>1. /\ wire' = Append(wire, "event") /\ UNCHANGED <<cmds, restarted, call>>
      /\ wire \in Seq(Packets) /\ "event" \in Packets
  BY DEF NfccEvent, OwnTypeOK, Packets
<1>2. /\ Len(wire) \in Nat /\ DOMAIN wire = 1..Len(wire)
      /\ wire' \in Seq(Packets) /\ Len(wire') = Len(wire) + 1 /\ DOMAIN wire' = 1..Len(wire')
      /\ \A k \in 1..Len(wire) : wire'[k] = wire[k]
      /\ wire'[Len(wire) + 1] = "event"
  BY <1>1
<1>3. \A k \in DOMAIN wire' : (k \in DOMAIN wire /\ wire'[k] = wire[k]) \/ wire'[k] = "event"
  BY <1>2
<1>4. ASSUME NEW A \in {Inits, Sets}, NEW B \in {Inits, Sets}
      PROVE  (None(A) => None(A)') /\ (NotBefore(A, B) => NotBefore(A, B)')
  <2>1. "event" \notin A /\ "event" \notin B
    BY DEF Inits, Sets
  <2>2. None(A) => None(A)'
    BY <1>1, <1>3, <2>1 DEF None
  <2>3. NotBefore(A, B) => NotBefore(A, B)'
    BY <1>1, <1>3, <2>1 DEF NotBefore
  <2>4. QED
    BY <2>2, <2>3
<1>5. OwnSets => OwnSets'
  BY <1>1, <1>3 DEF OwnSets
<1>6. QED
  BY <1>1, <1>2, <1>4, <1>5 DEF Kept

\* The first command leaves its queue, and its answers, if any, come last on
\* the wire.
LEMMA NfccKeeps ==
  ASSUME OwnTypeOK, NfccAnswers \/ NfccLoses
  PROVE  Kept /\ wire' \in Seq(Packets) /\ cmds' \in Seq(Commands \X Nat)
<1> DEFINE c == Head(cmds)[1]
<1>1. cmds # <<>> /\ cmds' = Tail(cmds) /\ UNCHANGED call
  BY DEF NfccAnswers, NfccLoses
<1>2. /\ Len(cmds) \in Nat /\ Len(cmds) >= 1 /\ DOMAIN cmds = 1..Len(cmds) /\ Head(cmds) = cmds[1]
      /\ cmds' \in Seq(Commands \X Nat) /\ Len(cmds') = Len(cmds) - 1 /\ DOMAIN cmds' = 1..Len(cmds')
      /\ \A k \in 1..(Len(cmds) - 1) : cmds'[k] = cmds[k + 1]
      /\ cmds[1] \in Commands \X Nat
  BY <1>1 DEF OwnTypeOK
<1>3. /\ \A k \in DOMAIN cmds' : k + 1 \in DOMAIN cmds /\ cmds'[k] = cmds[k + 1] /\ 1 < k + 1
      /\ \A i, j \in DOMAIN cmds' : i < j => i + 1 < j + 1
      /\ 1 \in DOMAIN cmds /\ c = cmds[1][1] /\ c \in Commands
  BY <1>2
<1>4. /\ wire' \in Seq(Packets)
      /\ \A k \in DOMAIN wire' : \/ k \in DOMAIN wire /\ wire'[k] = wire[k]
                                 \/ /\ k \notin DOMAIN wire
                                    /\ c = "reset" => wire'[k] \in {"resetRsp", "resetNtf"}
                                    /\ c = "init" => wire'[k] \in {"initRsp", "initBad"}
                                    /\ c = "set" => wire'[k] \in {"setRsp", "setBad"}
                                    /\ wire'[k] = "setRsp" /\ cmds[1][2] = call.n => restarted'
      /\ \A i, j \in DOMAIN wire' : i < j /\ j \in DOMAIN wire => i \in DOMAIN wire
      /\ \A i, j \in DOMAIN wire' : i < j /\ i \notin DOMAIN wire => c = "reset"
      /\ restarted => restarted'
  <2>1. CASE NfccLoses
    <3>1. UNCHANGED <<wire, restarted>> /\ wire \in Seq(Packets)
      BY <2>1 DEF NfccLoses, OwnTypeOK
    <3>2. DOMAIN wire = 1..Len(wire) /\ Len(wire) \in Nat
      BY <3>1
    <3>3. QED
      BY <3>1, <3>2
  <2>2. CASE NfccAnswers
    <3> DEFINE a == Answers(c)
    <3>1. wire' = wire \o a /\ wire \in Seq(Packets)
          /\ restarted' = (restarted \/ (c = "set" /\ inited /\ Head(cmds)[2] = call.n))
      BY <2>2 DEF NfccAnswers, OwnTypeOK
    <3>2. /\ c = "reset" => a = <<"resetRsp", "resetNtf">>
          /\ c = "init" => a = <<"initRsp">> \/ a = <<"initBad">>
          /\ c = "set" => (a = <<"setRsp">> /\ inited) \/ a = <<"setBad">>
      BY <1>3 DEF Answers, Commands
    <3> HIDE DEF a
    <3>3. {"resetRsp", "resetNtf", "initRsp", "initBad", "setRsp", "setBad"} \subseteq Packets
      BY DEF Packets
    <3>4. /\ a \in Seq(Packets) /\ Len(a) \in Nat /\ DOMAIN a = 1..Len(a)
          /\ c # "reset" => Len(a) = 1
          /\ \A k \in DOMAIN a : /\ c = "reset" => a[k] \in {"resetRsp", "resetNtf"}
                                 /\ c = "init" => a[k] \in {"initRsp", "initBad"}
                                 /\ c = "set" => (a[k] = "setRsp" /\ inited) \/ a[k] = "setBad"
      <4>1. CASE c = "reset"
        <5>1. a = <<"resetRsp", "resetNtf">>
          BY <3>2, <4>1
        <5>2. a \in Seq(Packets) /\ Len(a) = 2 /\ DOMAIN a = 1..2 /\ a[1] = "resetRsp" /\ a[2] = "resetNtf"
          BY <3>3, <5>1
        <5>3. QED
          BY <4>1, <5>2
      <4>2. CASE c = "init"
        <5>1. PICK p \in {"initRsp", "initBad"} : a = <<p>>
          BY <3>2, <4>2
        <5>2. a \in Seq(Packets) /\ Len(a) = 1 /\ DOMAIN a = 1..1 /\ a[1] = p
          BY <3>3, <5>1
        <5>3. QED
          BY <4>2, <5>2
      <4>3. CASE c = "set"
        <5>1. PICK p \in {"setRsp", "setBad"} : a = <<p>> /\ (p = "setRsp" => inited)
          BY <3>2, <4>3
        <5>2. a \in Seq(Packets) /\ Len(a) = 1 /\ DOMAIN a = 1..1 /\ a[1] = p
          BY <3>3, <5>1
        <5>3. QED
          BY <4>3, <5>1, <5>2
      <4>4. QED
        BY <1>3, <4>1, <4>2, <4>3 DEF Commands
    <3>5. /\ Len(wire) \in Nat /\ DOMAIN wire = 1..Len(wire)
          /\ wire' \in Seq(Packets) /\ Len(wire') = Len(wire) + Len(a) /\ DOMAIN wire' = 1..Len(wire')
          /\ \A k \in 1..Len(wire) : wire'[k] = wire[k]
          /\ \A k \in (Len(wire) + 1)..Len(wire') : wire'[k] = a[k - Len(wire)]
      BY <3>1, <3>4
    <3>6. \A k \in DOMAIN wire' \ DOMAIN wire :
            /\ k - Len(wire) \in DOMAIN a /\ wire'[k] = a[k - Len(wire)]
            /\ c # "reset" => k = Len(wire) + 1
      BY <3>4, <3>5
    <3>7. \A k \in DOMAIN wire' \ DOMAIN wire :
            /\ c = "reset" => wire'[k] \in {"resetRsp", "resetNtf"}
            /\ c = "init" => wire'[k] \in {"initRsp", "initBad"}
            /\ c = "set" => (wire'[k] = "setRsp" /\ inited) \/ wire'[k] = "setBad"
      BY <3>4, <3>6
    <3>8. \A k \in DOMAIN wire' \ DOMAIN wire :
            wire'[k] = "setRsp" /\ cmds[1][2] = call.n => restarted'
      BY <1>2, <1>3, <3>1, <3>7 DEF Commands
    <3>9. \A i, j \in DOMAIN wire' : i < j /\ i \notin DOMAIN wire => c = "reset"
      BY <3>5, <3>6
    <3>10. \A i, j \in DOMAIN wire' : i < j /\ j \in DOMAIN wire => i \in DOMAIN wire
      BY <3>5
    <3>11. \A k \in DOMAIN wire : k \in DOMAIN wire' /\ wire'[k] = wire[k]
      BY <3>4, <3>5
    <3>12. QED
      BY <3>1, <3>5, <3>7, <3>8, <3>9, <3>10, <3>11
  <2>3. QED
    BY <2>1, <2>2
<1> HIDE DEF c
<1>5. ASSUME NEW A \in {Inits, Sets}
      PROVE  \A k \in DOMAIN wire' : k \notin DOMAIN wire /\ wire'[k] \in A => cmds[1][1] \in A
  BY <1>3, <1>4 DEF Inits, Sets, Commands
<1>6. ASSUME NEW k \in DOMAIN wire', k \notin DOMAIN wire, c = "reset"
      PROVE  wire'[k] \notin Inits /\ wire'[k] \notin Sets
  BY <1>4, <1>6 DEF Inits, Sets
<1>7. ASSUME NEW A \in {Inits, Sets}, NEW B \in {Inits, Sets}
      PROVE  (None(A) => None(A)') /\ (NotBefore(A, B) => NotBefore(A, B)')
  <2>1. None(A) => None(A)'
    BY <1>3, <1>4, <1>5 DEF None
  <2>2. ASSUME NotBefore(A, B) PROVE NotBefore(A, B)'
    <3>1. ASSUME NEW i \in DOMAIN wire', NEW j \in DOMAIN wire', i < j, wire'[i] \in A
          PROVE  wire'[j] \notin B
      <4>1. CASE j \in DOMAIN wire
        BY <1>4, <2>2, <3>1, <4>1 DEF NotBefore
      <4>2. CASE i \in DOMAIN wire /\ j \notin DOMAIN wire
        <5>1. wire[i] \in A
          BY <1>4, <3>1, <4>2
        <5>2. cmds[1][1] \notin B
          BY <1>3, <2>2, <4>2, <5>1 DEF NotBefore
        <5>3. QED
          BY <1>5, <4>2, <5>2
      <4>3. CASE i \notin DOMAIN wire /\ j \notin DOMAIN wire
        BY <1>4, <1>6, <3>1, <4>3
      <4>4. QED
        BY <4>1, <4>2, <4>3
    <3>2. ASSUME NEW i \in DOMAIN wire', NEW j \in DOMAIN cmds', wire'[i] \in A
          PROVE  cmds'[j][1] \notin B
      <4>1. CASE i \in DOMAIN wire
        BY <1>3, <1>4, <2>2, <3>2, <4>1 DEF NotBefore
      <4>2. CASE i \notin DOMAIN wire
        BY <1>3, <1>5, <2>2, <3>2, <4>2 DEF NotBefore
      <4>3. QED
        BY <4>1, <4>2
    <3>3. ASSUME NEW i \in DOMAIN cmds', NEW j \in DOMAIN cmds', i < j, cmds'[i][1] \in A
          PROVE  cmds'[j][1] \notin B
      BY <1>3, <2>2, <3>3 DEF NotBefore
    <3>4. QED
      BY <3>1, <3>2, <3>3 DEF NotBefore
  <2>3. QED
    BY <2>1, <2>2
<1>8. OwnSets => OwnSets'
  <2> SUFFICES ASSUME OwnSets PROVE OwnSets'
    OBVIOUS
  <2>1. \A j \in DOMAIN cmds' : cmds'[j][1] = "set" => cmds'[j][2] = call'.n
    BY <1>1, <1>3 DEF OwnSets
  <2>2. ASSUME NEW i \in DOMAIN wire', wire'[i] = "setRsp" PROVE restarted'
    <3>1. CASE i \in DOMAIN wire
      BY <1>4, <2>2, <3>1 DEF OwnSets
    <3>2. CASE i \notin DOMAIN wire
      <4>1. c = "set"
        BY <1>3, <1>4, <2>2, <3>2 DEF Commands
      <4>2. cmds[1][2] = call.n
        BY <1>3, <4>1 DEF OwnSets
      <4>3. QED
        BY <1>4, <2>2, <3>2, <4>2
    <3>3. QED
      BY <3>1, <3>2
  <2>3. QED
    BY <2>1, <2>2 DEF OwnSets
<1>9. QED
  BY <1>2, <1>4, <1>7, <1>8 DEF Kept

\* A command that is written comes after everything else.
LEMMA WriteKeeps ==
  ASSUME OwnTypeOK, NEW c \in Commands, NEW n \in Nat,
         cmds' = Append(cmds, <<c, n>>), UNCHANGED <<wire, restarted, call>>
  PROVE  /\ cmds' \in Seq(Commands \X Nat)
         /\ \A A : None(A) /\ c \notin A => None(A)'
         /\ \A A, B : NotBefore(A, B) /\ c \notin B => NotBefore(A, B)'
         /\ \A A, B : None(A) => NotBefore(A, B)'
         /\ OwnSets /\ n = call.n => OwnSets'
<1>1. /\ Len(cmds) \in Nat /\ DOMAIN cmds = 1..Len(cmds) /\ <<c, n>> \in Commands \X Nat
      /\ cmds' \in Seq(Commands \X Nat) /\ Len(cmds') = Len(cmds) + 1 /\ DOMAIN cmds' = 1..Len(cmds')
      /\ \A k \in 1..Len(cmds) : cmds'[k] = cmds[k]
      /\ cmds'[Len(cmds) + 1] = <<c, n>>
  BY DEF OwnTypeOK
<1>2. /\ \A k \in DOMAIN cmds' : \/ k \in DOMAIN cmds /\ cmds'[k] = cmds[k]
                                 \/ k \notin DOMAIN cmds /\ cmds'[k][1] = c /\ cmds'[k][2] = n
      /\ \A i, j \in DOMAIN cmds' : i < j => i \in DOMAIN cmds
  BY <1>1
<1>3. ASSUME NEW A, NEW B
      PROVE  /\ None(A) /\ c \notin A => None(A)'
             /\ NotBefore(A, B) /\ c \notin B => NotBefore(A, B)'
             /\ None(A) => NotBefore(A, B)'
  <2>1. None(A) /\ c \notin A => None(A)'
    BY <1>2 DEF None
  <2>2. NotBefore(A, B) /\ c \notin B => NotBefore(A, B)'
    BY <1>2 DEF NotBefore
  <2>3. None(A) => NotBefore(A, B)'
    BY <1>2 DEF None, NotBefore
  <2>4. QED
    BY <2>1, <2>2, <2>3
<1>4. OwnSets /\ n = call.n => OwnSets'
  BY <1>2 DEF OwnSets
<1>5. QED
  BY <1>1, <1>3, <1>4

\* What a call that is lost leaves, when none was given up before it.
LEMMA FirstLeaves ==
  ASSUME OrderOK, call.given = 0, OwnTypeOK
  PROVE  NotBefore(Inits, Sets)
BY NoneBefore DEF OrderOK, Before

\* Steps of others.
LEMMA OthersKeepOwn ==
  ASSUME OwnInv, Kept, OwnTypeOK', UNCHANGED <<call, thread, running>>
  PROVE  OwnInv'
<1>1. CallOK'
  BY DEF OwnInv, CallOK
<1>2. UNCHANGED <<Asked, Setting, Won, Lost, Before>>
  BY DEF Asked, Setting, Won, Lost, Before, CallAt
<1>3. OrderOK'
  BY <1>2 DEF OwnInv, OrderOK, Kept
<1>4. QED
  BY <1>1, <1>3 DEF OwnInv

LEMMA SameKept ==
  ASSUME UNCHANGED <<wire, cmds, restarted, call>>
  PROVE  Kept
BY DEF Kept, None, NotBefore, OwnSets

LEMMA OwnNfcc == OwnInv /\ Nfcc => OwnInv'
<1> SUFFICES ASSUME OwnInv, Nfcc PROVE OwnInv'
  OBVIOUS
<1>1. OwnTypeOK
  BY DEF OwnInv
<1>2. UNCHANGED <<call, thread, running>>
  BY DEF Nfcc, NfccAnswers, NfccLoses, NfccEvent
<1>3. CASE NfccEvent
  <2>1. Kept /\ wire' \in Seq(Packets) /\ UNCHANGED cmds
    BY <1>1, <1>3, EventKeeps DEF NfccEvent
  <2>2. OwnTypeOK'
    BY <1>1, <1>2, <2>1 DEF OwnTypeOK
  <2>3. QED
    BY <1>2, <2>1, <2>2, OthersKeepOwn
<1>4. CASE NfccAnswers \/ NfccLoses
  <2>1. Kept /\ wire' \in Seq(Packets) /\ cmds' \in Seq(Commands \X Nat)
    BY <1>1, <1>4, NfccKeeps
  <2>2. OwnTypeOK'
    BY <1>1, <1>2, <2>1 DEF OwnTypeOK
  <2>3. QED
    BY <1>2, <2>1, <2>2, OthersKeepOwn
<1>5. QED
  BY <1>3, <1>4 DEF Nfcc

LEMMA OwnTml == OwnInv /\ (Reader \/ Client) => OwnInv'
<1> SUFFICES ASSUME OwnInv, Reader \/ Client PROVE OwnInv'
  OBVIOUS
<1>1. UNCHANGED <<cmds, restarted, call, thread, running>> /\ OwnTypeOK
  BY DEF OwnInv, Reader, ReaderWait, ReaderCheck, ReaderError, ReaderTake, ReaderPost,
         Client, ClientFetch, ClientRead, ClientEnable, ClientPost, TmlKeeps
<1>2. UNCHANGED wire \/ (wire # <<>> /\ wire' = Tail(wire))
  BY DEF Reader, ReaderWait, ReaderCheck, ReaderError, ReaderTake, ReaderPost,
         Client, ClientFetch, ClientRead, ClientEnable, ClientPost
<1>3. Kept /\ wire' \in Seq(Packets)
  <2>1. CASE UNCHANGED wire
    BY <1>1, <2>1, SameKept DEF OwnTypeOK
  <2>2. CASE wire # <<>> /\ wire' = Tail(wire)
    BY <1>1, <2>2, Takes
  <2>3. QED
    BY <1>2, <2>1, <2>2
<1>4. OwnTypeOK'
  BY <1>1, <1>3 DEF OwnTypeOK
<1>5. QED
  BY <1>1, <1>3, <1>4, OthersKeepOwn

-----------------------------------------------------------------------------
\* The thread's steps.  It is lost, whatever it was at.
LEMMA Loses ==
  ASSUME OwnInv, Kept, OwnTypeOK', UNCHANGED <<call, running>>,
         thread.pc \notin {"none", "end"}, thread'.pc = "end", thread'.cmd = "none",
         ~thread'.last \/ ~running
  PROVE  OwnInv'
<1>1. call.pc \in {"wait", "join"} /\ ~call.ok
  BY DEF OwnInv, CallOK
<1>2. CallOK'
  BY <1>1 DEF OwnInv, CallOK
<1>3. ~Won' /\ Lost' /\ ~Asked' /\ ~Setting' /\ ~Before'
  BY <1>1 DEF OwnInv, CallOK, Won, Lost, Asked, Setting, Before, CallAt
<1>4. call'.given = 0 => NotBefore(Inits, Sets)'
  <2>1. call.given = 0 => NotBefore(Inits, Sets)
    BY FirstLeaves DEF OwnInv
  <2>2. QED
    BY <2>1 DEF Kept
<1>5. OrderOK'
  BY <1>3, <1>4 DEF OrderOK
<1>6. QED
  BY <1>2, <1>5 DEF OwnInv

\* Or it goes on with CORE_RESET.
LEMMA Resets ==
  ASSUME OwnInv, Kept, OwnTypeOK', UNCHANGED <<call, running>>, thread.cmd = "reset",
         \/ thread'.cmd = "reset" /\ thread'.pc \in {"write", "first", "ntf"}
         \/ thread'.cmd = "init" /\ thread'.pc = "write" /\ thread'.left = 0
  PROVE  OwnInv'
<1>1. call.pc \in {"wait", "join"} /\ ~call.ok
  BY DEF OwnInv, CallOK
<1>2. CallOK'
  BY <1>1 DEF OwnInv, CallOK
<1>3. Before /\ Before' /\ ~Asked' /\ ~Setting' /\ ~Won' /\ ~Lost'
  BY <1>1 DEF OwnInv, CallOK, Won, Lost, Asked, Setting, Before, CallAt
<1>4. OrderOK'
  BY <1>3 DEF OwnInv, OrderOK, Kept
<1>5. QED
  BY <1>2, <1>4 DEF OwnInv

\* Or with the switch of the mode.
LEMMA Switches ==
  ASSUME OwnInv, Kept, OwnTypeOK', UNCHANGED <<call, running>>, thread.cmd = "set",
         thread'.cmd = "set", thread'.pc \in {"write", "first", "next"}
  PROVE  OwnInv'
<1>1. call.pc \in {"wait", "join"} /\ ~call.ok
  BY DEF OwnInv, CallOK
<1>2. CallOK'
  BY <1>1 DEF OwnInv, CallOK
<1>3. Setting /\ Setting' /\ ~Asked' /\ ~Before' /\ ~Won' /\ ~Lost'
  BY <1>1 DEF OwnInv, CallOK, Won, Lost, Asked, Setting, Before, CallAt
<1>4. OrderOK'
  BY <1>3 DEF OwnInv, OrderOK, Kept
<1>5. QED
  BY <1>2, <1>4 DEF OwnInv

LEMMA OwnThread == OwnInv /\ Thread => OwnInv'
<1> SUFFICES ASSUME OwnInv, Thread PROVE OwnInv'
  OBVIOUS
<1>0. OwnTypeOK /\ CallOK /\ OrderOK /\ UNCHANGED <<call, running, restarted>>
  BY DEF OwnInv, Thread, Write, SendAgain, ResetAnswered, ResetNtf, NotResetNtf, InitAnswered,
         SetAnswered, SetSilent, Receives, ReceivesNothing, ThreadKeeps
<1>t. MaxRetry \in Nat /\ MaxSilent \in Nat /\ MaxNtf \in Nat
  BY EseResetAssumption
<1>a. ASSUME NEW pc, NEW packets, Receives(pc, packets)
      PROVE  /\ thread.pc = pc /\ Kept /\ wire' \in Seq(Packets) /\ UNCHANGED cmds
             /\ Head(wire) \in packets
             /\ \A A, B \in {Inits, Sets} : NotBefore(A, B) /\ Head(wire) \in A => None(B)'
  <2>1. wire # <<>> /\ wire' = Tail(wire) /\ UNCHANGED cmds /\ thread.pc = pc /\ Head(wire) \in packets
    BY <1>a DEF Receives
  <2>2. QED
    BY <1>0, <2>1, Takes
<1>b. ASSUME NEW pc, ReceivesNothing(pc)
      PROVE  thread.pc = pc /\ Kept /\ wire' \in Seq(Packets) /\ UNCHANGED cmds
  <2>1. UNCHANGED <<wire, cmds>> /\ thread.pc = pc
    BY <1>b DEF ReceivesNothing
  <2>2. QED
    BY <1>0, <2>1, SameKept DEF OwnTypeOK
<1>c. ASSUME Kept, wire' \in Seq(Packets), UNCHANGED cmds, thread.pc \notin {"none", "end"}, Ends(FALSE)
      PROVE  OwnInv'
  <2>1. /\ thread' \in [pc : {"none", "end", "write", "first", "ntf", "next"},
                        cmd : Commands \cup {"none"}, left : Nat, last : BOOLEAN]
        /\ thread'.pc = "end" /\ thread'.cmd = "none" /\ ~thread'.last
    BY <1>c DEF Ends, NoThread
  <2>2. OwnTypeOK'
    BY <1>0, <1>c, <2>1 DEF OwnTypeOK
  <2>3. QED
    BY <1>0, <1>c, <2>1, <2>2, Loses
<1>d. ASSUME NEW p \in {"write", "first", "ntf", "next"}, NEW c \in Commands, NEW n \in Nat, NEW b \in BOOLEAN,
             thread' = [pc |-> p, cmd |-> c, left |-> n, last |-> b]
      PROVE  /\ thread' \in [pc : {"none", "end", "write", "first", "ntf", "next"},
                             cmd : Commands \cup {"none"}, left : Nat, last : BOOLEAN]
             /\ thread'.pc = p /\ thread'.cmd = c /\ thread'.left = n
  BY <1>d
<1>e. ASSUME NEW p \in {"write", "first", "ntf", "next"}, NEW n \in Nat, thread.cmd \in Commands,
             thread' = [thread EXCEPT !.pc = p, !.left = n]
      PROVE  /\ thread' \in [pc : {"none", "end", "write", "first", "ntf", "next"},
                             cmd : Commands \cup {"none"}, left : Nat, last : BOOLEAN]
             /\ thread'.pc = p /\ thread'.cmd = thread.cmd /\ thread'.left = n
  BY <1>0, <1>e DEF OwnTypeOK
<1>1. CASE Write
  <2> DEFINE c == thread.cmd
  <2>1. /\ thread.pc = "write" /\ c \in Commands
        /\ cmds' = Append(cmds, <<c, call.n>>) /\ thread' = [thread EXCEPT !.pc = "first"]
        /\ UNCHANGED wire /\ call.n \in Nat
    BY <1>0, <1>1 DEF Write, CallOK, OwnTypeOK
  <2>2. /\ cmds' \in Seq(Commands \X Nat)
        /\ \A A : None(A) /\ c \notin A => None(A)'
        /\ \A A, B : NotBefore(A, B) /\ c \notin B => NotBefore(A, B)'
        /\ \A A, B : None(A) => NotBefore(A, B)'
        /\ OwnSets => OwnSets'
    BY <1>0, <2>1, WriteKeeps
  <2>3. /\ thread' \in [pc : {"none", "end", "write", "first", "ntf", "next"},
                        cmd : Commands \cup {"none"}, left : Nat, last : BOOLEAN]
        /\ thread'.pc = "first" /\ thread'.cmd = c /\ thread'.left = thread.left
    BY <1>0, <2>1 DEF OwnTypeOK
  <2> HIDE DEF c
  <2>4. OwnTypeOK'
    BY <1>0, <2>1, <2>2, <2>3 DEF OwnTypeOK
  <2>5. call.pc \in {"wait", "join"} /\ ~call.ok
    BY <1>0, <2>1 DEF CallOK
  <2>6. CallOK'
    BY <1>0, <2>1, <2>3, <2>5 DEF CallOK, c, Commands
  <2>7. ~Won /\ ~Lost /\ ~Won' /\ ~Lost' /\ ~Asked
    BY <1>0, <2>1, <2>3, <2>5 DEF Won, Lost, Asked, CallAt
  <2>8. CASE c = "reset"
    <3>1. "reset" \notin Inits /\ "reset" \notin Sets
      BY DEF Inits, Sets
    <3>2. Before /\ ~Asked' /\ ~Setting'
      BY <2>3, <2>7, <2>8 DEF Before, Setting, Asked, c
    <3>3. OrderOK'
      BY <1>0, <2>2, <2>7, <2>8, <3>1, <3>2 DEF OrderOK
    <3>4. QED
      BY <2>4, <2>6, <3>3 DEF OwnInv
  <2>9. CASE c = "init"
    <3>1. "init" \notin Sets
      BY DEF Sets
    <3>2. Before /\ Asked' /\ ~Setting' /\ ~Before'
      BY <2>3, <2>7, <2>9 DEF Before, Setting, Asked, c
    <3>3. OrderOK'
      BY <1>0, <2>2, <2>7, <2>9, <3>1, <3>2 DEF OrderOK
    <3>4. QED
      BY <2>4, <2>6, <3>3 DEF OwnInv
  <2>10. CASE c = "set"
    <3>1. "set" \notin Inits
      BY DEF Inits
    <3>2. Setting /\ ~Asked' /\ Setting' /\ ~Before'
      BY <2>3, <2>7, <2>10 DEF Before, Setting, Asked, c
    <3>3. OrderOK'
      BY <1>0, <2>2, <2>7, <2>10, <3>1, <3>2 DEF OrderOK
    <3>4. QED
      BY <2>4, <2>6, <3>3 DEF OwnInv
  <2>11. QED
    BY <2>1, <2>8, <2>9, <2>10 DEF Commands
<1>2. CASE SendAgain
  <2>1. /\ thread.pc = "first" /\ Kept /\ wire' \in Seq(Packets) /\ UNCHANGED cmds
        /\ thread.cmd \in Commands /\ thread.left \in Nat
    BY <1>0, <1>2, <1>b DEF SendAgain, CallOK, OwnTypeOK
  <2>2. CASE Ends(FALSE)
    BY <1>c, <2>1, <2>2
  <2>3. CASE Send(thread.cmd, thread.left - 1) /\ thread.left > 0
    <3>1. thread.left - 1 \in Nat /\ thread.cmd # "init"
      BY <1>0, <2>1, <2>3 DEF CallOK
    <3>2. /\ thread' \in [pc : {"none", "end", "write", "first", "ntf", "next"},
                             cmd : Commands \cup {"none"}, left : Nat, last : BOOLEAN]
          /\ thread'.pc = "write" /\ thread'.cmd = thread.cmd
      BY <1>d, <2>1, <2>3, <3>1 DEF Send
    <3>3. OwnTypeOK'
      BY <1>0, <2>1, <3>2 DEF OwnTypeOK
    <3>4. thread.cmd = "reset" \/ thread.cmd = "set"
      BY <2>1, <3>1 DEF Commands
    <3>5. QED
      BY <1>0, <2>1, <3>2, <3>3, <3>4, Resets, Switches
  <2>4. QED
    BY <1>2, <2>2, <2>3 DEF SendAgain
<1>3. CASE ResetAnswered \/ NotResetNtf
  <2>1. /\ thread.pc \in {"first", "ntf"} /\ thread.cmd = "reset"
        /\ Kept /\ wire' \in Seq(Packets) /\ UNCHANGED cmds
    <3>1. CASE ResetAnswered
      BY <1>0, <1>a, <3>1 DEF ResetAnswered
    <3>2. CASE NotResetNtf
      BY <1>0, <1>a, <1>b, <3>2 DEF NotResetNtf, CallOK
    <3>3. QED
      BY <1>3, <3>1, <3>2
  <2>2. CASE Ends(FALSE)
    BY <1>c, <2>1, <2>2
  <2>3. ASSUME NEW n \in Nat, AwaitNtf(n) PROVE OwnInv'
    <3>1. /\ thread' \in [pc : {"none", "end", "write", "first", "ntf", "next"},
                             cmd : Commands \cup {"none"}, left : Nat, last : BOOLEAN]
          /\ thread'.pc = "ntf" /\ thread'.cmd = "reset"
      BY <1>e, <2>1, <2>3 DEF AwaitNtf, Commands
    <3>2. OwnTypeOK'
      BY <1>0, <2>1, <3>1 DEF OwnTypeOK
    <3>3. QED
      BY <1>0, <2>1, <3>1, <3>2, Resets
  <2>4. thread.left > 1 => thread.left - 1 \in Nat
    BY <1>0 DEF OwnTypeOK
  <2>5. QED
    BY <1>3, <1>t, <2>2, <2>3, <2>4 DEF ResetAnswered, NotResetNtf
<1>4. CASE ResetNtf
  <2>1. thread.pc = "ntf" /\ thread.cmd = "reset" /\ Kept /\ wire' \in Seq(Packets) /\ UNCHANGED cmds
    BY <1>0, <1>4, <1>a DEF ResetNtf, CallOK
  <2>2. /\ thread' \in [pc : {"none", "end", "write", "first", "ntf", "next"},
                             cmd : Commands \cup {"none"}, left : Nat, last : BOOLEAN]
        /\ thread'.pc = "write" /\ thread'.cmd = "init" /\ thread'.left = 0
    BY <1>4, <1>d DEF ResetNtf, Send, Commands
  <2>3. OwnTypeOK'
    BY <1>0, <2>1, <2>2 DEF OwnTypeOK
  <2>4. QED
    BY <1>0, <2>1, <2>2, <2>3, Resets
<1>5. CASE InitAnswered
  <2>1. /\ thread.pc = "first" /\ thread.cmd = "init" /\ Asked
        /\ Kept /\ wire' \in Seq(Packets) /\ UNCHANGED cmds
        /\ \A A, B \in {Inits, Sets} : NotBefore(A, B) /\ Head(wire) \in A => None(B)'
    BY <1>5, <1>a DEF InitAnswered, Asked
  <2>2. CASE Ends(FALSE)
    BY <1>c, <2>1, <2>2
  <2>3. CASE Head(wire) = "initRsp" /\ Send("set", MaxRetry)
    <3>1. /\ thread' \in [pc : {"none", "end", "write", "first", "ntf", "next"},
                             cmd : Commands \cup {"none"}, left : Nat, last : BOOLEAN]
          /\ thread'.pc = "write" /\ thread'.cmd = "set"
      BY <1>d, <1>t, <2>3 DEF Send, Commands
    <3>2. OwnTypeOK'
      BY <1>0, <2>1, <3>1 DEF OwnTypeOK
    <3>3. call.pc \in {"wait", "join"} /\ ~call.ok
      BY <1>0, <2>1 DEF CallOK
    <3>4. CallOK'
      BY <1>0, <3>1, <3>3 DEF CallOK
    <3>5. ~Won' /\ ~Lost' /\ ~Asked' /\ ~Before' /\ Setting'
      BY <1>0, <3>1, <3>3 DEF Won, Lost, Asked, Setting, Before, CallAt
    <3>6. Head(wire) \in Inits
      BY <2>3 DEF Inits
    <3>7. call.given = 0 => None(Inits)'
      BY <1>0, <2>1, <3>6 DEF OrderOK
    <3>8. call.given < 2 => None(Sets)'
      BY <1>0, <2>1, <3>6 DEF OrderOK
    <3>9. None(Sets)' => NotBefore(Sets, Inits)' /\ OwnSets'
      BY DEF None, NotBefore, OwnSets, Sets
    <3>10. OrderOK'
      BY <1>0, <3>5, <3>7, <3>8, <3>9 DEF OrderOK
    <3>11. QED
      BY <3>2, <3>4, <3>10 DEF OwnInv
  <2>4. QED
    BY <1>5, <2>2, <2>3 DEF InitAnswered
<1>6. CASE SetAnswered
  <2>1. PICK left \in Nat :
          /\ thread.pc \in {"first", "next"} /\ thread.cmd = "set" /\ Looks(Head(wire), left)
          /\ Kept /\ wire' \in Seq(Packets) /\ UNCHANGED cmds
          /\ \A A, B \in {Inits, Sets} : NotBefore(A, B) /\ Head(wire) \in A => None(B)'
    <3>1. CASE Receives("first", Packets) /\ Looks(Head(wire), MaxSilent)
      BY <1>6, <1>a, <1>t, <3>1 DEF SetAnswered
    <3>2. CASE Receives("next", Packets) /\ Looks(Head(wire), thread.left)
      BY <1>0, <1>6, <1>a, <3>2 DEF SetAnswered, OwnTypeOK
    <3>3. QED
      BY <1>6, <3>1, <3>2 DEF SetAnswered
  <2>2. CASE Ends(FALSE)
    BY <1>c, <2>1, <2>2
  <2>3. CASE Ends(TRUE)
    <3>1. /\ thread' \in [pc : {"none", "end", "write", "first", "ntf", "next"},
                          cmd : Commands \cup {"none"}, left : Nat, last : BOOLEAN]
          /\ thread'.pc = "end" /\ thread'.cmd = "none" /\ thread'.last
      BY <2>3 DEF Ends, NoThread
    <3>2. OwnTypeOK'
      BY <1>0, <2>1, <3>1 DEF OwnTypeOK
    <3>3. CASE ~running
      BY <1>0, <2>1, <3>1, <3>2, <3>3, Loses
    <3>4. CASE running /\ Head(wire) = "setRsp"
      <4>1. call.pc \in {"wait", "join"} /\ ~call.ok
        BY <1>0, <2>1 DEF CallOK
      <4>2. CallOK'
        BY <1>0, <3>1, <4>1 DEF CallOK
      <4>3. ~Asked' /\ ~Before' /\ ~Setting' /\ Setting
        BY <2>1, <3>1, <4>1 DEF Asked, Setting, Before, Won, Lost, CallAt
      <4>4. Head(wire) \in Sets
        BY <3>4 DEF Sets
      <4>5. call.given < 2 => None(Inits)'
        BY <1>0, <2>1, <4>3, <4>4 DEF OrderOK
      <4>6. call.given < 2 => restarted'
        <5>1. call.given < 2 => OwnSets
          BY <1>0, <4>3 DEF OrderOK
        <5>2. wire # <<>> /\ wire \in Seq(Packets)
          BY <1>0, <1>6 DEF SetAnswered, Receives, OwnTypeOK
        <5>3. 1 \in DOMAIN wire /\ wire[1] = "setRsp"
          BY <3>4, <5>2
        <5>4. QED
          BY <1>0, <5>1, <5>3 DEF OwnSets
      <4>7. call.given < 2 => NotBefore(Inits, Sets)'
        BY <4>5, NoneBefore DEF None, NotBefore
      <4>8. OrderOK'
        BY <1>0, <4>3, <4>5, <4>6, <4>7 DEF OrderOK
      <4>9. QED
        BY <3>2, <4>2, <4>8 DEF OwnInv
    <3>5. CASE Head(wire) = "setBad" /\ running
      BY <1>0, <2>1, <2>3, <3>5, <3>1 DEF Looks, IsAnswer, Ends, NoThread
    <3>6. QED
      <4>1. ~running \/ (running /\ (Head(wire) = "setRsp" \/ Head(wire) = "setBad"))
        BY <2>1, <3>1 DEF Looks, IsAnswer
      <4>2. QED
        BY <3>3, <3>4, <3>5, <4>1
  <2>4. CASE thread' = [thread EXCEPT !.pc = "next", !.left = left]
    <3>1. /\ thread' \in [pc : {"none", "end", "write", "first", "ntf", "next"},
                             cmd : Commands \cup {"none"}, left : Nat, last : BOOLEAN]
          /\ thread'.pc = "next" /\ thread'.cmd = "set"
      BY <1>e, <2>1, <2>4 DEF Commands
    <3>2. OwnTypeOK'
      BY <1>0, <2>1, <3>1 DEF OwnTypeOK
    <3>3. QED
      BY <1>0, <2>1, <3>1, <3>2, Switches
  <2>5. QED
    BY <2>1, <2>2, <2>3, <2>4 DEF Looks, IsAnswer
<1>7. CASE SetSilent
  <2>1. thread.pc = "next" /\ thread.cmd = "set" /\ Kept /\ wire' \in Seq(Packets) /\ UNCHANGED cmds
    BY <1>0, <1>7, <1>b DEF SetSilent, CallOK
  <2>2. CASE Ends(FALSE)
    BY <1>c, <2>1, <2>2
  <2>3. CASE thread' = [thread EXCEPT !.left = @ - 1] /\ thread.left > 0
    <3>1. /\ thread' \in [pc : {"none", "end", "write", "first", "ntf", "next"},
                          cmd : Commands \cup {"none"}, left : Nat, last : BOOLEAN]
          /\ thread'.pc = "next" /\ thread'.cmd = "set"
      <4>1. thread.left - 1 \in Nat
        BY <1>0, <2>3 DEF OwnTypeOK
      <4>2. QED
        BY <1>0, <2>1, <2>3, <4>1 DEF OwnTypeOK
    <3>2. OwnTypeOK'
      BY <1>0, <2>1, <3>1 DEF OwnTypeOK
    <3>3. QED
      BY <1>0, <2>1, <3>1, <3>2, Switches
  <2>4. QED
    BY <1>7, <2>2, <2>3 DEF SetSilent
<1>8. QED
  BY <1>1, <1>2, <1>3, <1>4, <1>5, <1>6, <1>7 DEF Thread

\* The caller's steps.
LEMMA CallerTypes ==
  ASSUME OwnTypeOK, UNCHANGED <<wire, cmds>>,
         call' \in [pc : CallPcs, n : Nat, flushed : BOOLEAN, ok : BOOLEAN, given : Nat],
         thread' \in [pc : {"none", "end", "write", "first", "ntf", "next"},
                      cmd : Commands \cup {"none"}, left : Nat, last : BOOLEAN]
  PROVE  OwnTypeOK'
BY DEF OwnTypeOK

\* The stage stays, or it is lost.
LEMMA SameStage ==
  ASSUME OwnInv, OwnTypeOK', CallOK', UNCHANGED <<wire, cmds, restarted>>,
         call'.n = call.n, call'.given = call.given,
         \/ UNCHANGED <<Asked, Setting, Won, Lost>>
         \/ Lost' /\ ~Asked' /\ ~Setting'
  PROVE  OwnInv'
<1>1. /\ \A A : None(A)' <=> None(A)
      /\ \A A, B : NotBefore(A, B)' <=> NotBefore(A, B)
      /\ OwnSets' <=> OwnSets
  BY DEF None, NotBefore, OwnSets
<1>2. CASE UNCHANGED <<Asked, Setting, Won, Lost>>
  <2>1. Before' <=> Before
    BY <1>2 DEF Before
  <2>2. OrderOK'
    BY <1>1, <1>2, <2>1 DEF OwnInv, OrderOK
  <2>3. QED
    BY <2>2 DEF OwnInv
<1>3. CASE Lost' /\ ~Asked' /\ ~Setting'
  <2>1. ~Won' /\ ~Before'
    BY <1>3 DEF Lost, Before
  <2>2. call.given = 0 => NotBefore(Inits, Sets)
    BY FirstLeaves DEF OwnInv
  <2>3. OrderOK'
    BY <1>1, <1>3, <2>1, <2>2 DEF OrderOK
  <2>4. QED
    BY <2>3 DEF OwnInv
<1>4. QED
  BY <1>2, <1>3

LEMMA OwnCaller == OwnInv /\ (EseSoftReset \/ Caller) => OwnInv'
<1> SUFFICES ASSUME OwnInv, EseSoftReset \/ Caller PROVE OwnInv'
  OBVIOUS
<1>0. OwnTypeOK /\ CallOK /\ OrderOK
  BY DEF OwnInv
<1> DEFINE Calls == [pc : CallPcs, n : Nat, flushed : BOOLEAN, ok : BOOLEAN, given : Nat]
           Routines == [pc : {"none", "end", "write", "first", "ntf", "next"},
                        cmd : Commands \cup {"none"}, left : Nat, last : BOOLEAN]
<1>c. call \in Calls /\ thread \in Routines /\ NoThread \in Routines
      /\ NoThread.pc = "none" /\ NoThread.cmd = "none"
  BY <1>0 DEF OwnTypeOK, NoThread
<1>1. CASE EseSoftReset
  <2>1. /\ call.pc = "idle" /\ call'.pc = "enable" /\ call'.n = call.n + 1 /\ ~call'.ok
        /\ call'.given = call.given + (IF call.n = 0 \/ call.ok THEN 0 ELSE 1)
        /\ call' \in Calls /\ call'.n # 0
        /\ UNCHANGED <<cmds, wire, thread, running>>
    <3>1. /\ call' = [pc |-> "enable", n |-> call.n + 1, flushed |-> FALSE, ok |-> FALSE,
                      given |-> call.given + IF call.n = 0 \/ call.ok THEN 0 ELSE 1]
          /\ call.pc = "idle" /\ UNCHANGED <<cmds, wire, thread, running>>
      BY <1>1 DEF EseSoftReset, CallAt
    <3>2. call.n \in Nat /\ call.given \in Nat /\ "enable" \in CallPcs
      BY <1>c DEF CallPcs
    <3>3. call.n + 1 \in Nat /\ call.n + 1 # 0
          /\ call.given + (IF call.n = 0 \/ call.ok THEN 0 ELSE 1) \in Nat
      BY <3>2
    <3>4. QED
      BY <3>1, <3>2, <3>3
  <2>2. OwnTypeOK'
    BY <1>0, <1>c, <2>1, CallerTypes
  <2>3. thread.pc = "none" /\ thread.cmd = "none"
    BY <1>0, <2>1 DEF CallOK
  <2>4. CallOK'
    BY <1>0, <2>1, <2>3 DEF CallOK
  <2>5. Before' /\ ~Asked' /\ ~Setting' /\ ~Won' /\ ~Lost'
    BY <2>1, <2>3 DEF Before, Asked, Setting, Won, Lost, CallAt
  <2>6. ~Asked /\ ~Setting
    BY <2>3 DEF Asked, Setting
  <2>7. /\ \A A : None(A)' <=> None(A)
        /\ \A A, B : NotBefore(A, B)' <=> NotBefore(A, B)
    BY <2>1 DEF None, NotBefore
  <2>8. CASE call.n = 0 \/ call.ok
    <3>1. call'.given = call.given /\ call.given \in Nat
      BY <1>c, <2>1, <2>8
    <3>2. CASE call.ok
      <4>1. Won /\ call'.given < 2 => None(Inits)
        BY <1>0, <3>1 DEF OrderOK
      <4>2. Won
        BY <3>2 DEF Won
      <4>3. OrderOK'
        BY <2>5, <2>7, <3>1, <4>1, <4>2, NoneBefore DEF OrderOK
      <4>4. QED
        BY <2>2, <2>4, <4>3 DEF OwnInv
    <3>3. CASE ~call.ok /\ call.n = 0
      <4>1. Before
        BY <2>1, <2>3, <2>6, <3>3 DEF Before, Won, Lost, CallAt
      <4>2. OrderOK'
        BY <1>0, <2>5, <2>7, <3>1, <4>1 DEF OrderOK
      <4>3. QED
        BY <2>2, <2>4, <4>2 DEF OwnInv
    <3>4. QED
      BY <2>8, <3>2, <3>3
  <2>9. CASE call.n # 0 /\ ~call.ok
    <3>1. call'.given = call.given + 1 /\ call.given \in Nat
      BY <1>c, <2>1, <2>9
    <3>2. call'.given # 0 /\ (call'.given < 2 => call.given = 0)
      BY <3>1
    <3>3. call'.given < 2 => NotBefore(Inits, Sets)
      BY <1>0, <3>2, FirstLeaves
    <3>4. OrderOK'
      BY <2>5, <2>7, <3>2, <3>3 DEF OrderOK
    <3>5. QED
      BY <2>2, <2>4, <3>4 DEF OwnInv
  <2>10. QED
    BY <2>8, <2>9
<1>2. CASE Caller
  <2>0. UNCHANGED <<wire, cmds, restarted>>
    BY <1>2 DEF Caller, PauseEnable, PauseBusy, Flush, StartThread, Woken, TimedOut, Joined,
                ResumeEnable, ResumeBusy, ResumePost, CallerKeeps, nfcc
  <2>a. ASSUME NEW p \in CallPcs, NEW ok \in BOOLEAN, NEW f \in BOOLEAN,
               call' = [call EXCEPT !.pc = p, !.ok = ok, !.flushed = f]
        PROVE  call' \in Calls /\ call'.pc = p /\ call'.ok = ok /\ call'.n = call.n /\ call'.given = call.given
    BY <1>c, <2>a
  <2>b. ASSUME NEW p \in CallPcs, CallGoto(p)
        PROVE  call' \in Calls /\ call'.pc = p /\ call'.ok = call.ok /\ call'.n = call.n /\ call'.given = call.given
    BY <1>c, <2>b DEF CallGoto
  <2>1. CASE PauseEnable \/ PauseBusy
    <3>1. PICK p \in {"busy", "flush"} : /\ CallGoto(p) /\ call.pc \in {"enable", "busy"}
                                         /\ UNCHANGED <<thread, running>>
      BY <2>1 DEF PauseEnable, PauseBusy, CallAt
    <3>2. call' \in Calls /\ call'.pc = p /\ call'.ok = call.ok /\ call'.n = call.n /\ call'.given = call.given
      BY <2>b, <3>1 DEF CallPcs
    <3>3. OwnTypeOK'
      BY <1>0, <1>c, <2>0, <3>1, <3>2, CallerTypes
    <3>4. thread.pc = "none" /\ thread.cmd = "none" /\ ~call.ok
      BY <1>0, <3>1 DEF CallOK
    <3>5. CallOK'
      BY <1>0, <3>1, <3>2, <3>4 DEF CallOK
    <3>6. UNCHANGED <<Asked, Setting, Won, Lost>>
      BY <3>1, <3>2, <3>4 DEF Asked, Setting, Won, Lost, CallAt
    <3>7. QED
      BY <2>0, <3>2, <3>3, <3>5, <3>6, SameStage
  <2>2. CASE Flush
    <3>1. /\ call.pc = "flush" /\ UNCHANGED <<thread, running>>
          /\ \/ call' = [call EXCEPT !.pc = "start", !.flushed = TRUE]
             \/ call' = [call EXCEPT !.pc = "idle"]
      BY <2>2 DEF Flush, CallAt, CallGoto
    <3>2. /\ call' \in Calls /\ call'.pc \in {"start", "idle"} /\ call'.ok = call.ok
          /\ call'.n = call.n /\ call'.given = call.given
      BY <1>c, <3>1 DEF CallPcs
    <3>3. OwnTypeOK'
      BY <1>0, <1>c, <2>0, <3>1, <3>2, CallerTypes
    <3>4. thread.pc = "none" /\ thread.cmd = "none" /\ ~call.ok /\ call.n # 0 /\ call.n \in Nat
      BY <1>0, <1>c, <3>1 DEF CallOK
    <3>5. CallOK'
      BY <1>0, <3>1, <3>2, <3>4 DEF CallOK
    <3>6. CASE call'.pc = "start"
      <4>1. UNCHANGED <<Asked, Setting, Won, Lost>>
        BY <3>1, <3>2, <3>4, <3>6 DEF Asked, Setting, Won, Lost, CallAt
      <4>2. QED
        BY <2>0, <3>2, <3>3, <3>5, <4>1, SameStage
    <3>7. CASE call'.pc = "idle"
      <4>1. Lost' /\ ~Asked' /\ ~Setting'
        BY <3>1, <3>2, <3>4, <3>7 DEF Asked, Setting, Won, Lost, CallAt
      <4>2. QED
        BY <2>0, <3>2, <3>3, <3>5, <4>1, SameStage
    <3>8. QED
      BY <3>2, <3>6, <3>7
  <2>3. CASE StartThread
    <3>1. call.pc = "start" /\ CallGoto("wait") /\ Send("reset", MaxRetry) /\ running'
      BY <2>3 DEF StartThread, CallAt
    <3>2. call' \in Calls /\ call'.pc = "wait" /\ call'.ok = call.ok /\ call'.n = call.n /\ call'.given = call.given
      BY <2>b, <3>1 DEF CallPcs
    <3>3. thread' \in Routines /\ thread'.pc = "write" /\ thread'.cmd = "reset"
      BY <3>1, EseResetAssumption DEF Send, Commands
    <3>4. OwnTypeOK'
      BY <1>0, <1>c, <2>0, <3>2, <3>3, CallerTypes
    <3>5. thread.pc = "none" /\ thread.cmd = "none" /\ ~call.ok
      BY <1>0, <3>1 DEF CallOK
    <3>6. CallOK'
      BY <1>0, <3>1, <3>2, <3>3, <3>5 DEF CallOK
    <3>7. UNCHANGED <<Asked, Setting, Won, Lost>>
      BY <3>1, <3>2, <3>3, <3>5 DEF Asked, Setting, Won, Lost, CallAt
    <3>8. QED
      BY <2>0, <3>2, <3>4, <3>6, <3>7, SameStage
  <2>4. CASE Woken
    <3>1. /\ call.pc = "wait" /\ thread.pc = "end" /\ thread' = NoThread
          /\ call' = [call EXCEPT !.pc = "resume", !.ok = thread.last]
      BY <2>4 DEF Woken, CallAt
    <3>2. call' \in Calls /\ call'.pc = "resume" /\ call'.ok = thread.last /\ call'.n = call.n
          /\ call'.given = call.given
      BY <1>c, <3>1 DEF CallPcs
    <3>3. OwnTypeOK'
      BY <1>0, <1>c, <2>0, <3>1, <3>2, CallerTypes
    <3>4. ~call.ok /\ call.n # 0 /\ thread.cmd = "none"
      BY <1>0, <3>1 DEF CallOK
    <3>5. CallOK'
      BY <1>0, <1>c, <3>1, <3>2, <3>4 DEF CallOK
    <3>6. /\ Won <=> thread.last
          /\ Won' <=> thread.last
      BY <1>c, <3>1, <3>2, <3>4 DEF Won, CallAt
    <3>7. UNCHANGED <<Asked, Setting>> /\ (Lost <=> ~Won) /\ (Lost' <=> ~Won')
      BY <1>c, <3>1, <3>2, <3>4 DEF Asked, Setting, Lost, CallAt
    <3>8. UNCHANGED <<Asked, Setting, Won, Lost>>
      BY <3>6, <3>7 DEF Asked, Setting, Won, Lost
    <3>9. QED
      BY <2>0, <3>2, <3>3, <3>5, <3>8, SameStage
  <2>5. CASE TimedOut
    <3>1. call.pc = "wait" /\ CallGoto("join") /\ UNCHANGED thread
      BY <2>5 DEF TimedOut, CallAt
    <3>2. call' \in Calls /\ call'.pc = "join" /\ call'.ok = call.ok /\ call'.n = call.n /\ call'.given = call.given
      BY <2>b, <3>1 DEF CallPcs
    <3>3. OwnTypeOK'
      BY <1>0, <1>c, <2>0, <3>1, <3>2, CallerTypes
    <3>4. ~call.ok /\ call.n # 0 /\ thread.pc # "none"
      BY <1>0, <3>1 DEF CallOK
    <3>5. CallOK'
      BY <1>0, <3>1, <3>2, <3>4 DEF CallOK
    <3>6. CASE thread.pc = "end"
      <4>1. Lost' /\ ~Asked' /\ ~Setting'
        BY <1>0, <3>1, <3>2, <3>4, <3>6 DEF Asked, Setting, Won, Lost, CallAt, CallOK
      <4>2. QED
        BY <2>0, <3>2, <3>3, <3>5, <4>1, SameStage
    <3>7. CASE thread.pc # "end"
      <4>1. UNCHANGED <<Asked, Setting, Won, Lost>>
        BY <3>1, <3>2, <3>4, <3>7 DEF Asked, Setting, Won, Lost, CallAt
      <4>2. QED
        BY <2>0, <3>2, <3>3, <3>5, <4>1, SameStage
    <3>8. QED
      BY <3>6, <3>7
  <2>6. CASE Joined
    <3>1. call.pc = "join" /\ thread.pc = "end" /\ CallGoto("resume") /\ thread' = NoThread
      BY <2>6 DEF Joined, CallAt
    <3>2. call' \in Calls /\ call'.pc = "resume" /\ call'.ok = call.ok /\ call'.n = call.n /\ call'.given = call.given
      BY <2>b, <3>1 DEF CallPcs
    <3>3. OwnTypeOK'
      BY <1>0, <1>c, <2>0, <3>1, <3>2, CallerTypes
    <3>4. ~call.ok /\ call.n # 0
      BY <1>0, <3>1 DEF CallOK
    <3>5. CallOK'
      BY <1>0, <1>c, <3>1, <3>2, <3>4 DEF CallOK
    <3>6. Lost' /\ ~Asked' /\ ~Setting'
      BY <1>c, <3>1, <3>2, <3>4 DEF Asked, Setting, Won, Lost, CallAt
    <3>7. QED
      BY <2>0, <3>2, <3>3, <3>5, <3>6, SameStage
  <2>7. CASE ResumeEnable \/ ResumeBusy \/ ResumePost
    <3>1. PICK p \in {"resumeBusy", "post", "idle"} :
            /\ CallGoto(p) /\ call.pc \in {"resume", "resumeBusy", "post"}
            /\ UNCHANGED <<thread, running>>
      BY <2>7 DEF ResumeEnable, ResumeBusy, ResumePost, CallAt
    <3>2. call' \in Calls /\ call'.pc = p /\ call'.ok = call.ok /\ call'.n = call.n /\ call'.given = call.given
      BY <2>b, <3>1 DEF CallPcs
    <3>3. OwnTypeOK'
      BY <1>0, <1>c, <2>0, <3>1, <3>2, CallerTypes
    <3>4. thread.pc = "none" /\ thread.cmd = "none" /\ call.n # 0 /\ call.n \in Nat
      BY <1>0, <1>c, <3>1 DEF CallOK
    <3>5. CallOK'
      BY <1>0, <3>1, <3>2, <3>4 DEF CallOK
    <3>6. UNCHANGED <<Asked, Setting, Won, Lost>>
      BY <3>1, <3>2, <3>4 DEF Asked, Setting, Won, Lost, CallAt
    <3>7. QED
      BY <2>0, <3>2, <3>3, <3>5, <3>6, SameStage
  <2>8. QED
    BY <1>2, <2>1, <2>2, <2>3, <2>4, <2>5, <2>6, <2>7 DEF Caller
<1>3. QED
  BY <1>1, <1>2

LEMMA OwnInit == Init => OwnInv
<1> SUFFICES ASSUME Init PROVE OwnInv
  OBVIOUS
<1>1. /\ cmds = <<>> /\ wire = <<>> /\ thread = NoThread
      /\ call = [pc |-> "idle", n |-> 0, flushed |-> TRUE, ok |-> FALSE, given |-> 0]
  BY DEF Init
<1>2. OwnTypeOK
  BY <1>1 DEF OwnTypeOK, NoThread, CallPcs
<1>3. CallOK
  BY <1>1 DEF CallOK, NoThread
<1>4. None(Inits) /\ NotBefore(Inits, Sets)
  BY <1>1 DEF None, NotBefore
<1>5. ~Asked /\ ~Setting /\ ~Won /\ ~Lost
  BY <1>1 DEF Asked, Setting, Won, Lost, NoThread, CallAt
<1>6. QED
  BY <1>2, <1>3, <1>4, <1>5 DEF OwnInv, OrderOK

\* A reset that reports success is one the secure element made for this call,
\* whichever packets and commands are lost, late or taken by the reader, for
\* any number of resets and retries, as long as no more than one reset before
\* it was given up.
THEOREM OwnAnswerHolds == Spec => []OwnAnswer
<1>1. OwnInv /\ [Next]_vars => OwnInv'
  <2> SUFFICES ASSUME OwnInv, [Next]_vars PROVE OwnInv'
    OBVIOUS
  <2>1. CASE UNCHANGED vars
    <3>1. UNCHANGED <<wire, cmds, restarted, call, thread, running>> /\ OwnTypeOK
      BY <2>1 DEF vars, nfcc, OwnInv
    <3>2. Kept /\ OwnTypeOK'
      BY <3>1, SameKept DEF OwnTypeOK
    <3>3. QED
      BY <3>1, <3>2, OthersKeepOwn
  <2>2. QED
    BY <2>1, OwnNfcc, OwnThread, OwnCaller, OwnTml DEF Next
<1>2. OwnInv => OwnAnswer
  BY DEF OwnInv, OrderOK, Won, OwnAnswer
<1>3. QED
  BY OwnInit, <1>1, <1>2, PTL DEF Spec
==============================================================================
