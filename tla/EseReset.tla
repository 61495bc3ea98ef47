-------------------------------- MODULE EseReset --------------------------------
(***************************************************************************)
(* phTmsNciHalEseSoftReset: the NFC HAL restarts the secure element in its *)
(* boot loader with three NCI commands, sent past its own stack by a       *)
(* thread with two seconds to do it (tmsDlNciUtils.cpp).  The reader of    *)
(* TmlNfc, on the same device, is paused for that time, and the client     *)
(* thread goes on with the packet it has.                                  *)
(*                                                                         *)
(* DlChip takes all this as one step, EseSoftReset.                        *)
(***************************************************************************)
EXTENDS Integers, Sequences, SequencesExt

CONSTANTS
  MaxCalls,    \* bound: resets
  MaxRetry,    \* bound: how often a command that gets no answer is sent again
  MaxSilent,   \* bound: reads of nothing while an answer is waited for
  MaxNtf,      \* bound: reads until the notification of CORE_RESET
  MaxWire      \* bound: packets nobody has read when the NFCC sends another

ASSUME EseResetAssumption == {MaxCalls, MaxRetry, MaxSilent, MaxNtf, MaxWire} \subseteq Nat

VARIABLES
  cmds,       \* commands the NFCC has still to answer: <<command, call>>
  wire,       \* packets nobody has read
  inited,     \* CORE_INIT came after the last CORE_RESET
  restarted,  \* a command of this call restarted the secure element
  call,       \* [pc, n, flushed, ok] of the caller, and given: how many
              \* resets were given up before this one
  thread,     \* [pc, cmd, left, last] of EseSoftResetThread
  running,    \* g_threadRunning
  readInfo,   \* [enable, busy] of TmlNfc, with its
  rx, reader, \* rxSemaphore and reader thread
  queue,      \* messages for the client thread
  client      \* what that does

nfcc == <<cmds, wire, inited, restarted>>
tml  == <<readInfo, rx, reader, queue, client>>
vars == <<nfcc, call, thread, running, tml>>

NoThread == [pc |-> "none", cmd |-> "none", left |-> 0, last |-> FALSE]

Init ==
  /\ cmds = <<>> /\ wire = <<>> /\ inited = TRUE /\ restarted = FALSE
  /\ call = [pc |-> "idle", n |-> 0, flushed |-> TRUE, ok |-> FALSE, given |-> 0]
  /\ thread = NoThread /\ running = FALSE
  /\ readInfo = [enable |-> TRUE, busy |-> TRUE] /\ rx = 1
  /\ reader = "wait" /\ queue = 0 /\ client = "fetch"

-----------------------------------------------------------------------------
(***************************************************************************)
(* The NFC controller: it answers in its own time, in order, or not at all,*)
(* and has notifications of its own.  Without CORE_INIT it refuses to      *)
(* switch the mode of the secure element.                                  *)
(***************************************************************************)
Answers(cmd) ==
  CASE cmd = "reset" -> <<"resetRsp", "resetNtf">>
    [] cmd = "init"  -> <<IF inited THEN "initBad" ELSE "initRsp">>
    [] cmd = "set"   -> <<IF inited THEN "setRsp" ELSE "setBad">>

NfccAnswers ==
  /\ cmds # <<>>
  /\ LET cmd == Head(cmds)[1] IN
       /\ wire' = wire \o Answers(cmd)
       /\ inited' = (cmd = "init" \/ (cmd = "set" /\ inited))
       /\ restarted' = (restarted \/ (cmd = "set" /\ inited /\ Head(cmds)[2] = call.n))
  /\ cmds' = Tail(cmds)
  /\ UNCHANGED <<call, thread, running, tml>>

NfccLoses ==
  /\ cmds # <<>> /\ cmds' = Tail(cmds)
  /\ UNCHANGED <<wire, inited, restarted, call, thread, running, tml>>

NfccEvent ==
  /\ Len(wire) < MaxWire /\ wire' = Append(wire, "event")
  /\ UNCHANGED <<cmds, inited, restarted, call, thread, running, tml>>

Packets == {"resetRsp", "resetNtf", "initRsp", "initBad", "setRsp", "setBad", "event"}

Nfcc == NfccAnswers \/ NfccLoses \/ NfccEvent

-----------------------------------------------------------------------------
(***************************************************************************)
(* NciCmdProcess: the command is written, and one packet read.  Silence    *)
(* for two seconds, an error, or the signal to stop ends that with nothing.*)
(***************************************************************************)
ThreadKeeps == UNCHANGED <<inited, restarted, call, running, tml>>

\* The end of the thread's routine, with its result.
Ends(ok) == thread' = [NoThread EXCEPT !.pc = "end", !.last = ok]

Send(cmd, left) == thread' = [pc |-> "write", cmd |-> cmd, left |-> left, last |-> FALSE]

Write ==
  /\ thread.pc = "write"
  /\ cmds' = Append(cmds, <<thread.cmd, call.n>>)
  /\ thread' = [thread EXCEPT !.pc = "first"]
  /\ ThreadKeeps /\ UNCHANGED wire

Receives(pc, packets) ==
  /\ thread.pc = pc /\ wire # <<>> /\ Head(wire) \in packets
  /\ wire' = Tail(wire)
  /\ ThreadKeeps /\ UNCHANGED cmds

ReceivesNothing(pc) ==
  /\ thread.pc = pc
  /\ ThreadKeeps /\ UNCHANGED <<cmds, wire>>

\* A command that gets no answer is sent again; CORE_INIT is not.
SendAgain ==
  /\ ReceivesNothing("first")
  /\ IF running /\ thread.left > 0
       THEN Send(thread.cmd, thread.left - 1) ELSE Ends(FALSE)

(***************************************************************************)
(* Nci20ResetInit.  Any packet will do as the answer to CORE_RESET: what   *)
(* counts is its notification, before which nothing else may be sent.      *)
(***************************************************************************)
AwaitNtf(left) == thread' = [thread EXCEPT !.pc = "ntf", !.left = left]

ResetAnswered ==
  /\ thread.cmd = "reset" /\ Receives("first", Packets)
  /\ IF running THEN AwaitNtf(MaxNtf) ELSE Ends(FALSE)

ResetNtf == Receives("ntf", {"resetNtf"}) /\ Send("init", 0)

NotResetNtf ==
  /\ Receives("ntf", Packets \ {"resetNtf"}) \/ ReceivesNothing("ntf")
  /\ IF running /\ thread.left > 1 THEN AwaitNtf(thread.left - 1) ELSE Ends(FALSE)

InitAnswered ==
  /\ thread.cmd = "init" /\ Receives("first", Packets)
  /\ IF Head(wire) = "initRsp" /\ running THEN Send("set", MaxRetry) ELSE Ends(FALSE)

(***************************************************************************)
(* NciCmdSendAndChkRsp: packets that are not the answer are read past.     *)
(* Told to stop, it returns what the last read did.                        *)
(***************************************************************************)
IsAnswer(packet) == packet \in {"setRsp", "setBad"}

Looks(packet, left) ==
  CASE ~running -> Ends(TRUE)
    [] running /\ IsAnswer(packet) -> Ends(packet # "setBad")
    [] OTHER -> thread' = [thread EXCEPT !.pc = "next", !.left = left]

SetAnswered ==
  /\ thread.cmd = "set"
  /\ \/ Receives("first", Packets) /\ Looks(Head(wire), MaxSilent)
     \/ Receives("next", Packets) /\ Looks(Head(wire), thread.left)

SetSilent ==
  /\ ReceivesNothing("next")
  /\ IF thread.left > 0 /\ running
       THEN thread' = [thread EXCEPT !.left = @ - 1] ELSE Ends(FALSE)

Thread ==
  \/ Write \/ SendAgain \/ ResetAnswered \/ ResetNtf \/ NotResetNtf
  \/ InitAnswered \/ SetAnswered \/ SetSilent

-----------------------------------------------------------------------------
(***************************************************************************)
(* The caller: the reader is paused, the thread runs, the reader resumes.  *)
(***************************************************************************)
CallAt(pc) == call.pc = pc
CallGoto(pc) == call' = [call EXCEPT !.pc = pc]
CallerKeeps == UNCHANGED <<nfcc, queue, client>>

\* openT1 comes first, and changes nothing here when it fails.
EseSoftReset ==
  /\ CallAt("idle") /\ call.n < MaxCalls
  /\ call' = [pc |-> "enable", n |-> call.n + 1, flushed |-> FALSE, ok |-> FALSE,
              given |-> call.given + IF call.n = 0 \/ call.ok THEN 0 ELSE 1]
  /\ restarted' = FALSE
  /\ UNCHANGED <<cmds, wire, inited, thread, running, tml>>

\* nfccHalTerminateThread.
PauseEnable ==
  /\ CallAt("enable") /\ CallGoto("busy")
  /\ readInfo' = [readInfo EXCEPT !.enable = FALSE]
  /\ CallerKeeps /\ UNCHANGED <<thread, running, rx, reader>>

PauseBusy ==
  /\ CallAt("busy") /\ CallGoto("flush")
  /\ readInfo' = [readInfo EXCEPT !.busy = TRUE]
  /\ CallerKeeps /\ UNCHANGED <<thread, running, rx, reader>>

\* Whoever reads the device is released.
Flushes == reader' = IF reader = "read" THEN "error" ELSE reader

Flush ==
  /\ CallAt("flush")
  /\ \/ Flushes /\ call' = [call EXCEPT !.pc = "start", !.flushed = TRUE]
     \/ UNCHANGED reader /\ CallGoto("idle")
  /\ CallerKeeps /\ UNCHANGED <<thread, running, readInfo, rx>>

\* startThread, of which CosPatch has the details.
StartThread ==
  /\ CallAt("start") /\ CallGoto("wait")
  /\ Send("reset", MaxRetry) /\ running' = TRUE
  /\ CallerKeeps /\ UNCHANGED <<readInfo, rx, reader>>

Woken ==
  /\ CallAt("wait") /\ thread.pc = "end"
  /\ call' = [call EXCEPT !.pc = "resume", !.ok = thread.last]
  /\ thread' = NoThread /\ running' = FALSE
  /\ CallerKeeps /\ UNCHANGED <<readInfo, rx, reader>>

TimedOut ==
  /\ CallAt("wait") /\ CallGoto("join")
  /\ running' = FALSE /\ Flushes
  /\ CallerKeeps /\ UNCHANGED <<thread, readInfo, rx>>

\* Mutant of Joined: the result of a thread that was told to stop counts.
JoinedLate ==
  /\ CallAt("join") /\ thread.pc = "end"
  /\ call' = [call EXCEPT !.pc = "resume", !.ok = thread.last]
  /\ thread' = NoThread
  /\ CallerKeeps /\ UNCHANGED <<running, readInfo, rx, reader>>

Joined ==
  /\ CallAt("join") /\ thread.pc = "end" /\ CallGoto("resume")
  /\ thread' = NoThread
  /\ CallerKeeps /\ UNCHANGED <<running, readInfo, rx, reader>>

\* nfccHalRestartThread.
ResumeEnable ==
  /\ CallAt("resume") /\ CallGoto("resumeBusy")
  /\ readInfo' = [readInfo EXCEPT !.enable = TRUE]
  /\ CallerKeeps /\ UNCHANGED <<thread, running, rx, reader>>

ResumeBusy ==
  /\ CallAt("resumeBusy") /\ CallGoto("post")
  /\ readInfo' = [readInfo EXCEPT !.busy = FALSE]
  /\ CallerKeeps /\ UNCHANGED <<thread, running, rx, reader>>

\* Mutant of PostIfZero: the semaphore is not looked at.
PostNever == UNCHANGED rx

PostIfZero == rx' = IF rx = 0 THEN 1 ELSE rx

ResumePost ==
  /\ CallAt("post") /\ CallGoto("idle") /\ PostIfZero
  /\ CallerKeeps /\ UNCHANGED <<thread, running, readInfo, reader>>

Caller ==
  \/ PauseEnable \/ PauseBusy \/ Flush \/ StartThread \/ Woken \/ TimedOut \/ Joined
  \/ ResumeEnable \/ ResumeBusy \/ ResumePost

-----------------------------------------------------------------------------
(***************************************************************************)
(* The reader and the client thread of TmlNfc.                             *)
(***************************************************************************)
TmlKeeps == UNCHANGED <<cmds, inited, restarted, call, thread, running>>

ReaderWait ==
  /\ reader = "wait" /\ rx > 0
  /\ rx' = rx - 1 /\ reader' = "check"
  /\ TmlKeeps /\ UNCHANGED <<wire, readInfo, queue, client>>

ReaderCheck ==
  /\ reader = "check"
  /\ reader' = IF readInfo.enable THEN "read" ELSE "wait"
  /\ TmlKeeps /\ UNCHANGED <<wire, readInfo, rx, queue, client>>

ReaderError ==
  /\ reader = "error" \/ (reader = "read" /\ wire = <<>>)
  /\ rx' = rx + 1 /\ reader' = "wait"
  /\ TmlKeeps /\ UNCHANGED <<wire, readInfo, queue, client>>

ReaderTake ==
  /\ reader = "read" /\ wire # <<>>
  /\ wire' = Tail(wire) /\ reader' = "post"
  /\ TmlKeeps /\ UNCHANGED <<readInfo, rx, queue, client>>

ReaderPost ==
  /\ reader = "post" /\ reader' = "wait"
  /\ readInfo' = [readInfo EXCEPT !.enable = FALSE]
  /\ queue' = queue + 1
  /\ TmlKeeps /\ UNCHANGED <<wire, rx, client>>

Reader == ReaderWait \/ ReaderCheck \/ ReaderError \/ ReaderTake \/ ReaderPost

ClientFetch ==
  /\ client = "fetch" /\ queue > 0
  /\ queue' = queue - 1 /\ client' = "packet"
  /\ readInfo' = [readInfo EXCEPT !.busy = FALSE]
  /\ TmlKeeps /\ UNCHANGED <<wire, rx, reader>>

\* tmlNfcRead; tmsNciHalReadComplete leaves it at that when it is busy.
ClientRead ==
  /\ client = "packet"
  /\ client' = IF readInfo.busy THEN "fetch" ELSE "enable"
  /\ readInfo' = [readInfo EXCEPT !.busy = TRUE]
  /\ TmlKeeps /\ UNCHANGED <<wire, rx, reader, queue>>

ClientEnable ==
  /\ client = "enable" /\ client' = "post"
  /\ readInfo' = [readInfo EXCEPT !.enable = TRUE]
  /\ TmlKeeps /\ UNCHANGED <<wire, rx, reader, queue>>

ClientPost ==
  /\ client = "post" /\ client' = "fetch"
  /\ PostIfZero
  /\ TmlKeeps /\ UNCHANGED <<wire, readInfo, reader, queue>>

Client == ClientFetch \/ ClientRead \/ ClientEnable \/ ClientPost

-----------------------------------------------------------------------------
Next == EseSoftReset \/ Caller \/ Thread \/ Reader \/ Client \/ Nfcc

Spec == Init /\ [][Next]_vars

-----------------------------------------------------------------------------
\* A reset that reports success is one the secure element has made, for this
\* call: no notification, no thread that was told to stop and no answer to the
\* one earlier reset that was given up passes for it, whatever the NFCC answers
\* late and whatever the reader takes (NciCmdSendAndChkRsp, startThread).  When
\* two were given up, their answers can line up to be those of a third.
OwnAnswer == call.pc = "idle" /\ call.ok /\ call.given < 2 => restarted

\* Between two resets the stack hears the NFCC: whatever the reader and the
\* client thread were at when they were paused, the reader is not left asleep
\* with nobody to wake it, unless the driver refused to flush (the token that
\* nfccHalRestartThread posts, tmsDlNciUtils.cpp:757-763).
StackHears ==
  call.pc = "idle" /\ call.flushed /\ client = "fetch" /\ queue = 0
  => reader # "wait" \/ rx > 0
=============================================================================
