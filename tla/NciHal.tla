-------------------------------- MODULE NciHal --------------------------------
(***************************************************************************)
(* Commands and answers of the NFC HAL (hal/TmsNciHal.cc,                  *)
(* TmsNciHal_ext.cc): the stack's packets (tmsNciHalWrite), the HAL's own  *)
(* commands (tmsNciHalSendExtCmd), the client thread that routes what      *)
(* comes back, the response timer and the command window syncSpiNfc.       *)
(*                                                                         *)
(* One thread calls the HAL at a time; the transport is what TmlNfc shows  *)
(* it to be: one write and one read in progress, messages in order.  The   *)
(* receive buffer rspData and the command buffer cmdData are shared.  The  *)
(* controller is not powered on again meanwhile, so CORE_RESET_NTF comes   *)
(* only as the answer to a reset; OMAPI responses (4F 01) are left out.    *)
(***************************************************************************)
EXTENDS Naturals, Sequences, SequencesExt

CONSTANTS
  Kinds,     \* what is sent: see Stack and Ext
  Losses,    \* answers the NFCC may never send: subset of {"rsp", "ntf"}
  MaxCalls,  \* bound: calls of the HAL
  MaxEvents, \* bound: notifications the NFCC sends unasked
  MaxRetry,  \* MAX_RETRY_COUNT
  Overlap    \* whether a local answer may meet a packet in rspData

Stack == {"cmd", "data", "local", "presence"}
Ext   == {"config", "reset"}

ASSUME HalAssumption ==
  /\ Kinds \subseteq Stack \cup Ext
  /\ Losses \subseteq {"rsp", "ntf"}
  /\ {MaxCalls, MaxEvents, MaxRetry} \subseteq Nat
  /\ Overlap \in BOOLEAN

VARIABLES
  win,        \* syncSpiNfc
  extCbData,  \* [sem, status]
  halExtEnabled, waitForNtf,
  cmdData,    \* the command buffer
  rspData,    \* the receive buffer, to which pRxData points; local answers
              \* are written to it too
  cbData,     \* the writer's callback: "none", "ok" or "failed"
  retryCnt,
  timer,      \* "stopped" or "running"
  queue,      \* messages for the client thread
  client,     \* "fetch", "packet", "unblock" or "timeout"
  armed,      \* a read is pending at the transport
  tx,         \* the transport's writer: "none", "request" or "sent"
  pc,         \* of the calling thread
  alive,      \* the process has not called abort()
  halOpen,    \* halOpenStatus
  nfcc,       \* commands the NFCC has still to answer
  wire,       \* packets it has sent that nobody has read
  calls, events, \* the bounded counts
  stack,      \* history: packets handed to the stack, but for local answers
  owed,       \* history: packets the NFCC sent for the stack
  answered,   \* history: commands of the HAL whose response woke it
  lost        \* history: the stack's last command will not be answered

shared  == <<win, extCbData, halExtEnabled, waitForNtf>>
chip    == <<nfcc, wire, events, owed, lost>>
host    == <<cmdData, cbData, retryCnt, pc, calls, alive, halOpen>>
router  == <<client, stack, answered>>
halVars == <<shared, chip, host, router, rspData, timer, queue, armed, tx>>

\* What tmsNciHalProcessExtRsp keeps from the stack by its status: generic
\* errors that are to be ignored and an RF_INTF_ACTIVATED_NTF cut short.
HeldBack == {"error"}

\* A packet: its type, what it belongs to, whose, and the status it carries.
Packet(mt, k, n, ok) == [mt |-> mt, kind |-> k, n |-> n, ok |-> ok]
Nothing == Packet("none", "none", 0, TRUE)

HalInit ==
  /\ win = 1 /\ extCbData = [sem |-> 0, status |-> "ok"]
  /\ halExtEnabled = FALSE /\ waitForNtf = FALSE
  /\ cmdData = Nothing /\ rspData = Nothing
  /\ cbData = "none" /\ retryCnt = 0 /\ timer = "stopped"
  /\ queue = <<>> /\ client = "fetch" /\ armed = TRUE /\ tx = "none"
  /\ pc = "idle" /\ alive = TRUE /\ halOpen \in BOOLEAN
  /\ nfcc = <<>> /\ wire = <<>> /\ calls = 0 /\ events = 0
  /\ stack = <<>> /\ owed = <<>> /\ answered = {} /\ lost = FALSE

IsExt == cmdData.kind \in Ext
ReadWaits == Contains(queue, "read") \/ client \in {"packet", "unblock"}

\* Nothing is on its way to or from the NFCC.
Quiet == /\ nfcc = <<>> /\ wire = <<>> /\ queue = <<>>
         /\ client = "fetch" /\ tx = "none"

-----------------------------------------------------------------------------
(***************************************************************************)
(* The calling thread: tmsNciHalWriteInternal and tmsNciHalProcessExtCmdRsp*)
(* around tmsNciHalWriteUnlocked.                                          *)
(***************************************************************************)
\* tmsNciHalWriteExt answers some of the stack's commands itself, in the
\* buffer the transport reads into.
Answer(mt) ==
  /\ Overlap \/ ~ReadWaits
  /\ rspData' = Packet(mt, "local", calls + 1, TRUE)
  /\ queue' = Append(queue, "rx")
  /\ UNCHANGED <<pc, shared>>

BeginWrite(k) ==
  /\ pc' = IF k = "data" THEN "send" ELSE "window"
  /\ UNCHANGED <<shared, rspData, queue>>

\* Mutant: a new command of the HAL leaves the semaphore of the last one.
BeginExtOldSem ==
  /\ pc' = "window"
  /\ extCbData' = [extCbData EXCEPT !.status = "ok"]
  /\ UNCHANGED <<win, halExtEnabled, waitForNtf, rspData, queue>>

BeginExt ==
  /\ pc' = "window"
  /\ extCbData' = [sem |-> 0, status |-> "ok"]
  /\ UNCHANGED <<win, halExtEnabled, waitForNtf, rspData, queue>>

Call(k) ==
  /\ pc = "idle" /\ calls < MaxCalls
  /\ calls' = calls + 1
  /\ cmdData' = Packet("cmd", k, calls + 1, TRUE)
  /\ retryCnt' = 0
  /\ \/ k = "local" /\ \E mt \in {"rsp", "data"} : Answer(mt)
     \/ k \in Stack \ {"local"} /\ BeginWrite(k)
     \/ k \in Ext /\ BeginExt
  /\ UNCHANGED <<cbData, alive, halOpen, router, timer, armed, tx, chip>>

\* tmsNciHalCheckNciCmdWriteWindow.
TakeWindow ==
  /\ pc = "window" /\ win > 0
  /\ win' = win - 1 /\ pc' = "send"
  /\ UNCHANGED <<extCbData, halExtEnabled, waitForNtf, cmdData, cbData, retryCnt,
                 calls, alive, halOpen, chip, router, rspData, timer, queue,
                 armed, tx>>

\* A write that failed gives the window back, if it is a command's.
Released == IF cmdData.kind # "data" /\ win = 0 THEN 1 ELSE win
Return   == pc' = IF IsExt THEN "clean" ELSE "idle"

\* After two seconds: nothing is on its way any more.
WindowTimeout ==
  /\ pc = "window" /\ win = 0 /\ Quiet
  /\ win' = Released /\ Return
  /\ lost' = FALSE
  /\ UNCHANGED <<extCbData, halExtEnabled, waitForNtf, cmdData, cbData, retryCnt,
                 calls, alive, halOpen, nfcc, wire, events, owed, router,
                 rspData, timer, queue, armed, tx>>

\* HAL_ENABLE_EXT and tmlNfcWrite.
Send ==
  /\ pc = "send"
  /\ pc' = "sending" /\ tx' = "request" /\ cbData' = "none"
  /\ halExtEnabled' = (halExtEnabled \/ IsExt)
  /\ UNCHANGED <<win, extCbData, waitForNtf, cmdData, retryCnt, calls, alive,
                 halOpen, chip, router, rspData, timer, queue, armed>>

Sent ==
  /\ pc = "sending" /\ cbData = "ok"
  /\ pc' = IF IsExt THEN "timer" ELSE "idle"
  /\ UNCHANGED <<shared, cmdData, cbData, retryCnt, calls, alive, halOpen, chip,
                 router, rspData, timer, queue, armed, tx>>

Resend ==
  /\ pc = "sending" /\ cbData = "failed" /\ retryCnt < MaxRetry
  /\ retryCnt' = retryCnt + 1
  /\ tx' = "request" /\ cbData' = "none"
  /\ UNCHANGED <<shared, cmdData, pc, calls, alive, halOpen, chip, router,
                 rspData, timer, queue, armed>>

\* An open HAL aborts the process to recover; during the open the write fails.
GiveUp ==
  /\ pc = "sending" /\ cbData = "failed" /\ retryCnt = MaxRetry
  /\ IF halOpen THEN alive' = FALSE /\ UNCHANGED <<win, pc>>
                ELSE win' = Released /\ Return /\ UNCHANGED alive
  /\ UNCHANGED <<extCbData, halExtEnabled, waitForNtf, cmdData, cbData,
                 retryCnt, calls, halOpen, chip, router, rspData, timer, queue,
                 armed, tx>>

Caller(from, to) ==
  /\ pc = from /\ pc' = to
  /\ UNCHANGED <<win, cmdData, cbData, retryCnt, calls, alive, halOpen, chip,
                 router, rspData, queue, armed, tx>>
KeepExt == UNCHANGED <<extCbData, halExtEnabled, waitForNtf>>

\* Mutant: no timer is started for the response.
StartTimerForNtf ==
  /\ Caller("timer", "wait") \/ Caller("timerNtf", "waitNtf")
  /\ timer' = IF pc = "timerNtf" THEN "running" ELSE timer
  /\ KeepExt

StartTimer ==
  /\ Caller("timer", "wait") \/ Caller("timerNtf", "waitNtf")
  /\ timer' = "running" /\ KeepExt

ExtWait ==
  /\ extCbData.sem > 0
  /\ Caller("wait", "stop") \/ Caller("waitNtf", "stopNtf")
  /\ extCbData' = [extCbData EXCEPT !.sem = @ - 1]
  /\ UNCHANGED <<halExtEnabled, waitForNtf, timer>>

\* Mutant: the timer is left running when the response has come.
StopTimerOfNtf ==
  /\ \/ Caller("stop", IF waitForNtf THEN "timerNtf" ELSE "check")
     \/ Caller("stopNtf", "check")
  /\ timer' = IF pc = "stopNtf" THEN "stopped" ELSE timer
  /\ KeepExt

StopTimer ==
  /\ \/ Caller("stop", IF waitForNtf THEN "timerNtf" ELSE "check")
     \/ Caller("stopNtf", "check")
  /\ timer' = "stopped" /\ KeepExt

\* The status is that of what the receive buffer holds by now.
Success ==
  /\ extCbData.status = "ok"
  /\ (rspData.mt = "rsp" /\ rspData.kind \in Ext) => rspData.ok

Check ==
  /\ Caller("check", IF Success THEN "succeeded" ELSE "clean")
  /\ UNCHANGED timer /\ KeepExt

\* Mutant: HAL_DISABLE_EXT is forgotten.
CleanKeepingExt ==
  /\ Caller("succeeded", "idle") \/ Caller("clean", "idle")
  /\ waitForNtf' = FALSE
  /\ UNCHANGED <<extCbData, halExtEnabled, timer>>

Clean ==
  /\ Caller("succeeded", "idle") \/ Caller("clean", "idle")
  /\ waitForNtf' = FALSE /\ halExtEnabled' = FALSE
  /\ UNCHANGED <<extCbData, timer>>

-----------------------------------------------------------------------------
\* The transport's writer, with the packet that is in cmdData then.
Writer ==
  /\ \/ /\ tx = "request" /\ tx' = "sent"
        /\ nfcc' = IF cmdData.kind = "data" THEN nfcc ELSE Append(nfcc, cmdData)
        /\ UNCHANGED queue
     \/ /\ tx = "request" /\ tx' = "none"
        /\ queue' = Append(queue, "unwritten") /\ UNCHANGED nfcc
     \/ /\ tx = "sent" /\ tx' = "none"
        /\ queue' = Append(queue, "written") /\ UNCHANGED nfcc
  /\ UNCHANGED <<shared, host, router, rspData, timer, armed, wire, events,
                 owed, lost>>

\* The transport's reader, once a read is pending.
Reader ==
  /\ armed /\ wire # <<>>
  /\ Overlap \/ ~Contains(queue, "rx")
  /\ rspData' = Head(wire) /\ wire' = Tail(wire)
  /\ queue' = Append(queue, "read") /\ armed' = FALSE
  /\ UNCHANGED <<shared, host, router, timer, tx, nfcc, events, owed, lost>>

\* The NFCC answers a command, with a notification after the response to a
\* reset, or is never heard of again.
Sends(p) == wire' = Append(wire, p)
Owes(p)  == owed' = IF p.kind \in Ext \cup HeldBack THEN owed ELSE Append(owed, p)

NfccResponds ==
  /\ nfcc # <<>> /\ Head(nfcc).mt = "cmd"
  /\ \E ok \in BOOLEAN :
       LET c == Head(nfcc)  p == Packet("rsp", c.kind, c.n, ok) IN
       /\ Sends(p) /\ Owes(p)
       /\ nfcc' = IF c.kind = "reset" /\ ok
                    THEN [nfcc EXCEPT ![1].mt = "ntf"] ELSE Tail(nfcc)
  /\ UNCHANGED <<events, lost>>

NfccNotifies ==
  /\ nfcc # <<>> /\ Head(nfcc).mt = "ntf"
  /\ Sends(Head(nfcc)) /\ nfcc' = Tail(nfcc)
  /\ UNCHANGED <<events, lost, owed>>

NfccForgets ==
  /\ nfcc # <<>>
  /\ IF Head(nfcc).mt = "ntf" THEN "ntf" \in Losses ELSE "rsp" \in Losses
  /\ nfcc' = Tail(nfcc)
  /\ lost' = (lost \/ Head(nfcc).kind \in Stack)
  /\ UNCHANGED <<wire, events, owed>>

NfccEvent ==
  /\ events < MaxEvents
  /\ events' = events + 1
  /\ \E k \in {"event"} \cup HeldBack :
       LET p == Packet("ntf", k, events + 1, TRUE) IN Sends(p) /\ Owes(p)
  /\ UNCHANGED <<nfcc, lost>>

Nfcc ==
  /\ NfccResponds \/ NfccNotifies \/ NfccForgets
  /\ UNCHANGED <<shared, host, router, rspData, timer, queue, armed, tx>>

Event ==
  /\ NfccEvent
  /\ UNCHANGED <<shared, host, router, rspData, timer, queue, armed, tx>>

\* The timer expires and posts its message.  It does not expire under a call
\* whose answer is on its way: see "in time or never" in README.md.
Awaited == pc \in {"wait", "stop", "timerNtf", "waitNtf", "stopNtf"}
TimerExpires ==
  /\ timer = "running"
  /\ Awaited => (pc \in {"wait", "waitNtf"} /\ Quiet /\ extCbData.sem = 0)
  /\ timer' = "stopped" /\ queue' = Append(queue, "timeout")
  /\ UNCHANGED <<shared, host, router, chip, rspData, armed, tx>>

-----------------------------------------------------------------------------
(***************************************************************************)
(* The client thread: tmsNciHalWriteComplete, tmsNciHalReadComplete,       *)
(* halExtnsWriteRspTimeoutCb and the local answers.                        *)
(***************************************************************************)
ClientKeeps == UNCHANGED <<chip, cmdData, retryCnt, pc, calls, alive, halOpen,
                           rspData, timer, tx>>

\* The callback of the stack.
HandUp(p) == stack' = IF p.kind = "local" THEN stack ELSE Append(stack, p)

\* The status of tmsNciHalProcessExtRsp, which no response fails.
ExtSuccess(p) == p.kind \notin HeldBack

ClientFetch ==
  /\ client = "fetch" /\ queue # <<>>
  /\ queue' = Tail(queue)
  /\ LET m == Head(queue) IN
     /\ client' = CASE m = "read" -> "packet" [] m = "timeout" -> "timeout"
                    [] OTHER -> "fetch"
     /\ cbData' = CASE m = "written" -> "ok" [] m = "unwritten" -> "failed"
                    [] OTHER -> cbData
     /\ IF m = "rx" THEN HandUp(rspData) ELSE UNCHANGED stack
     /\ extCbData' = IF m = "timeout" THEN [extCbData EXCEPT !.status = "failed"]
                                      ELSE extCbData
  /\ ClientKeeps
  /\ UNCHANGED <<win, halExtEnabled, waitForNtf, answered, armed>>

\* tmsNciHalProcessExtRsp: the response to a presence check is turned into a
\* notification where it stands, and a reset announces a notification.
Processed(p) == IF p.kind = "presence" THEN [p EXCEPT !.mt = "ntf"] ELSE p

AnnouncesNtf(p) ==
  halExtEnabled /\ p.mt = "rsp" /\ p.kind = "reset" /\ p.ok

WakesExt(p) ==
  halExtEnabled /\ \/ p.mt = "rsp"
                   \/ p.mt = "ntf" /\ p.kind = cmdData.kind /\ waitForNtf

ClientPacket ==
  /\ client = "packet"
  /\ LET p == Processed(rspData) IN
     /\ waitForNtf' = \/ AnnouncesNtf(p)
                      \/ waitForNtf /\ ~(WakesExt(p) /\ p.mt = "ntf")
     /\ IF WakesExt(p)
          THEN /\ extCbData' = [extCbData EXCEPT !.sem = @ + 1]
               /\ answered' = IF p.mt = "rsp" THEN answered \cup {p.n} ELSE answered
               /\ UNCHANGED stack
          ELSE /\ IF ExtSuccess(p) THEN HandUp(p) ELSE UNCHANGED stack
               /\ UNCHANGED <<extCbData, answered>>
     /\ rspData' = p
  /\ client' = "unblock"
  /\ UNCHANGED <<win, halExtEnabled, queue, cbData, armed, chip, cmdData,
                 retryCnt, pc, calls, alive, halOpen, timer, tx>>

\* Mutant: a response gives the window back only if the HAL awaits it.
ClientUnblockExtOnly ==
  /\ client = "unblock"
  /\ win' = IF rspData.mt = "rsp" /\ win = 0 /\ halExtEnabled THEN 1 ELSE win
  /\ armed' = TRUE /\ client' = "fetch"
  /\ ClientKeeps
  /\ UNCHANGED <<extCbData, halExtEnabled, waitForNtf, queue, cbData, stack,
                 answered>>

\* The window is given back for what the buffer now shows to be a response.
ClientUnblock ==
  /\ client = "unblock"
  /\ win' = IF rspData.mt = "rsp" /\ win = 0 THEN 1 ELSE win
  /\ armed' = TRUE /\ client' = "fetch"
  /\ ClientKeeps
  /\ UNCHANGED <<extCbData, halExtEnabled, waitForNtf, queue, cbData, stack,
                 answered>>

\* The rest of halExtnsWriteRspTimeoutCb: both posts, whatever the values.
ClientTimeout ==
  /\ client = "timeout"
  /\ win' = win + 1
  /\ extCbData' = [extCbData EXCEPT !.sem = @ + 1]
  /\ client' = "fetch"
  /\ ClientKeeps
  /\ UNCHANGED <<halExtEnabled, waitForNtf, queue, cbData, stack, answered,
                 armed>>

Client == ClientFetch \/ ClientPacket \/ ClientUnblock \/ ClientTimeout

Thread ==
  \/ TakeWindow \/ WindowTimeout \/ Send \/ Sent \/ Resend \/ GiveUp
  \/ StartTimer \/ ExtWait \/ StopTimer \/ Check \/ Clean

HalNext ==
  /\ alive
  /\ \/ \E k \in Kinds : Call(k)
     \/ Thread \/ Writer \/ Reader \/ Nfcc \/ Event \/ TimerExpires \/ Client

(***************************************************************************)
(* Threads run, an armed timer expires, and the NFCC answers or is given   *)
(* up; whether anybody calls, or the NFCC notifies unasked, is left open.  *)
(***************************************************************************)
HalFairness ==
  /\ WF_halVars(alive /\ Thread) /\ WF_halVars(alive /\ Writer)
  /\ WF_halVars(alive /\ Reader) /\ WF_halVars(alive /\ Nfcc)
  /\ WF_halVars(alive /\ TimerExpires) /\ WF_halVars(alive /\ Client)

HalSpec == HalInit /\ [][HalNext]_halVars /\ HalFairness

-----------------------------------------------------------------------------
(***************************************************************************)
(* The command window works: the NFCC never holds two unanswered commands, *)
(* the stack's and the HAL's together, through failed writes, responses    *)
(* that never come and their timeouts.                                     *)
(***************************************************************************)
OneCommandAtNfcc == Len(nfcc) <= 1

(***************************************************************************)
(* The stack gets every packet that is not the answer to a command of the  *)
(* HAL and that the extension does not hold back, once, in order, and      *)
(* nothing else (besides local answers): the ext flags never route an      *)
(* answer to the wrong side.                                               *)
(***************************************************************************)
StackSeesItsPackets ==
  /\ IsPrefix(stack, owed)
  /\ Quiet => stack = owed

(***************************************************************************)
(* When everything has been answered the window is free again, so the next *)
(* command does not wait in vain and fail; only a response to the stack    *)
(* that never comes leaves it taken (TmsNciHal.cc: "Unblock next Write     *)
(* Command Window").                                                       *)
(***************************************************************************)
WindowComesBack ==
  (Quiet /\ pc = "idle" /\ ~lost) => win = 1

(***************************************************************************)
(* A command of the HAL that succeeds was woken by the response to itself, *)
(* not by that to an earlier command, a leftover post or a timeout.        *)
(***************************************************************************)
ExtOwnAnswer ==
  (pc = "succeeded") => cmdData.n \in answered

(***************************************************************************)
(* Every call returns, or the process aborts to recover: for each wait     *)
(* there is an answer, a timer or a timeout that ends it.                  *)
(***************************************************************************)
CallsReturn == pc # "idle" ~> (pc = "idle" \/ ~alive)
=============================================================================
