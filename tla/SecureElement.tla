----------------------------- MODULE SecureElement ----------------------------
(***************************************************************************)
(* The secure element service (secure_element/aidl/SecureElement.cpp) on   *)
(* top of the access library of SEApi: the channels it opens for its       *)
(* client, the library references it takes and gives back on the way, and  *)
(* the thread that retries a failed initialisation (trySeInitThread).      *)
(*                                                                         *)
(* The Client makes one call at a time; the Retrier is the detached        *)
(* thread.  Both are Visitors of SEApi, and its Holders, the clients of    *)
(* ITmsEse in the same process, keep running beside them.                  *)
(*                                                                         *)
(* A call is a list of sections to run, todo: a section is a stretch of    *)
(* code between two points where another thread can come in, which are     *)
(* the locked sections of the library and the ends of its calls.           *)
(***************************************************************************)
EXTENDS SEApi, Sequences

CONSTANTS
  Client, Retrier,
  Channels,         \* 0 .. MAX_LOGICAL_CHANNELS - 1
  MaxTries,         \* MAX_SE_INIT_CNT
  MaxCounted,       \* bound: channels counted
  ExchangeMayFail,  \* an exchange with the card can fail
  AnswerMayBeLost,  \* and the card may have executed its command all the same
  InitMayFail,      \* the initialisation of the library can fail
  ClientMayDie,
  Careful,          \* the client closes only what it holds, and opens the
                    \* basic channel only when it does not hold it
  Patient           \* the client waits for the retry thread to end

ASSUME SecureElementAssumption ==
  /\ Client # Retrier /\ Visitors = {Client, Retrier} /\ Loaders = {}
  /\ 0 \in Channels /\ Channels \subseteq 0..3
  /\ MaxTries \in 1..255 /\ MaxCounted \in 1..255
  /\ {ExchangeMayFail, AnswerMayBeLost, InitMayFail, ClientMayDie, Careful, Patient} \subseteq BOOLEAN

VARIABLES
  mOpenedchannelCount,
  mOpenedChannels,        \* the channels whose flag is set
  OpenLogicalChannelProcessing, OpenBasicChannelProcessing,
  mCallback,              \* a client is registered
  mTrySeInitCnt, mIsRunning,
  mMutex,                 \* held by a thread that will not release it
  todo,                   \* sections a thread still has to run, per thread
  channel,                \* resApduBuff.channelNumber, or the one to close
  cardChannels,           \* logical channels the card has open
  held                    \* ghost: channels the client was given, has not
                          \* closed and was not told are gone

channels == <<mOpenedchannelCount, mOpenedChannels>>
flags    == <<OpenLogicalChannelProcessing, OpenBasicChannelProcessing>>
retry    == <<mTrySeInitCnt, mIsRunning, mMutex>>
service  == <<channels, flags, retry, mCallback, channel, cardChannels, held>>
serviceVars == <<vars, service, todo>>

BasicChannel == 0
Workers == {Client, Retrier}

ServiceInit ==
  /\ Init
  /\ mOpenedchannelCount = 0 /\ mOpenedChannels = {}
  /\ OpenLogicalChannelProcessing = FALSE /\ OpenBasicChannelProcessing = FALSE
  /\ mCallback = FALSE /\ mTrySeInitCnt = 0 /\ mIsRunning = FALSE /\ mMutex = FALSE
  /\ todo = [w \in Workers |-> <<>>]
  /\ channel = BasicChannel /\ cardChannels = {} /\ held = {}

\* Thread w is at section s, and goes on with the sections of next.
At(w, s) == todo[w] # <<>> /\ Head(todo[w]) = s
Then(w, next) == todo' = [todo EXCEPT ![w] = next \o Tail(@)]

\* The bodies other calls share.
SeHalInit == <<"open", "init">>
SeHalDeInit == <<"deinit", "deinitClose", "forget">>
SeHalResetSe == <<"reset">>

-----------------------------------------------------------------------------
\* seInit and seDeInit, section by section.
Own == UNCHANGED <<pc, mode>>

OpenSection(w) ==
  /\ At(w, "open") /\ SeOpen(w) /\ Then(w, <<>>)
  /\ Own /\ UNCHANGED <<isInited, service>>

InitSection(w) ==
  /\ At(w, "init") /\ SeInit(w)
  /\ InitMayFail \/ ~device \/ status[w] # "SUCCESS" \/ status'[w] = "SUCCESS"
  /\ Then(w, IF gIsInitlized' THEN <<>> ELSE <<"initClose">>)
  /\ Own /\ UNCHANGED <<isInited, service>>

InitCloseSection(w) ==
  /\ At(w, "initClose") /\ SeClose /\ GaveBack(w) /\ Then(w, <<>>)
  /\ Own /\ UNCHANGED <<status, isInited, service>>

\* The end-of-session exchange makes the card drop its channels.
DeInitSection(w) ==
  /\ At(w, "deinit") /\ SeDeInit /\ GivesBack(w) /\ Then(w, <<>>)
  /\ cardChannels' = {}
  /\ Own /\ UNCHANGED <<status, isInited, channels, flags, retry, mCallback,
                        channel, held>>

DeInitCloseSection(w) ==
  /\ At(w, "deinitClose") /\ SeClose /\ GaveBack(w)
  /\ Return(w, IF EseLibStatus = "CLOSED" THEN "FAILED" ELSE "SUCCESS")
  /\ Then(w, <<>>)
  /\ Own /\ UNCHANGED <<isInited, service>>

\* Mutant: only the flags are cleared.
NoChannelsButCount == mOpenedChannels' = {} /\ UNCHANGED mOpenedchannelCount

NoChannels == mOpenedChannels' = {} /\ mOpenedchannelCount' = 0

\* The rest of seHalDeInit.
Forget(w) ==
  /\ At(w, "forget") /\ Then(w, <<>>)
  /\ IF status[w] = "SUCCESS" THEN NoChannels ELSE UNCHANGED channels
  /\ UNCHANGED <<vars, flags, retry, mCallback, channel, cardChannels, held>>

-----------------------------------------------------------------------------
\* seHalResetSe, which is also the public reset.  The status of its seHalInit
\* is lost in a shadowed variable: it goes on whether that succeeded or not.
\* The client is told first, then the card is reset.  Calling a client that
\* is gone ends the process, and the behaviour.
ResetChecks(w) ==
  /\ At(w, "reset")
  /\ Then(w, IF gIsInitlized THEN <<"seReset">> ELSE SeHalInit \o <<"seReset">>)
  /\ UNCHANGED <<vars, service>>

SeResetSection(w) ==
  /\ At(w, "seReset") /\ mCallback
  /\ held' = {}
  /\ SeUse
  /\ \/ device /\ Return(w, "SUCCESS") /\ cardChannels' = {}
     \/ (~device \/ ExchangeMayFail) /\ Return(w, "FAILED") /\ UNCHANGED cardChannels
  /\ Then(w, <<"resetDone">>)
  /\ Own /\ UNCHANGED <<isInited, refs, channels, flags, retry, mCallback, channel>>

\* Mutant: a failed reset is tried again.
ResetUntilItWorks(w) ==
  /\ At(w, "resetDone")
  /\ IF status[w] = "SUCCESS" THEN NoChannels /\ Then(w, <<>>)
     ELSE UNCHANGED channels /\ Then(w, SeHalResetSe)
  /\ UNCHANGED <<vars, flags, retry, mCallback, channel, cardChannels, held>>

ResetDone(w) ==
  /\ At(w, "resetDone") /\ Then(w, <<>>)
  /\ IF status[w] = "SUCCESS" THEN NoChannels ELSE UNCHANGED channels
  /\ UNCHANGED <<vars, flags, retry, mCallback, channel, cardChannels, held>>

-----------------------------------------------------------------------------
\* The retry thread.
Retry ==
  /\ At(Retrier, "retry")
  /\ IF mTrySeInitCnt < MaxTries
     THEN /\ mTrySeInitCnt' = mTrySeInitCnt + 1
          /\ Then(Retrier, SeHalResetSe \o <<"retryCheck">>)
     ELSE Then(Retrier, <<"retryEnd">>) /\ UNCHANGED mTrySeInitCnt
  /\ UNCHANGED <<vars, channels, flags, mIsRunning, mMutex, mCallback, channel,
                 cardChannels, held>>

RetryCheck ==
  /\ At(Retrier, "retryCheck")
  /\ IF gIsInitlized
     THEN /\ mTrySeInitCnt' = 0
          /\ Then(Retrier, SeHalDeInit \o <<"retryEnd">>)
     ELSE Then(Retrier, <<"retry">>) /\ UNCHANGED mTrySeInitCnt
  /\ UNCHANGED <<vars, channels, flags, mIsRunning, mMutex, mCallback, channel,
                 cardChannels, held>>

RetryEnd ==
  /\ At(Retrier, "retryEnd") /\ ~mMutex
  /\ mIsRunning' = FALSE
  /\ Then(Retrier, <<>>)
  /\ UNCHANGED <<vars, channels, flags, mTrySeInitCnt, mMutex, mCallback, channel,
                 cardChannels, held>>

-----------------------------------------------------------------------------
(***************************************************************************)
(* The client's calls.                                                     *)
(***************************************************************************)
Start(sections) == todo' = [todo EXCEPT ![Client] = sections]
Goes(sections) == Then(Client, sections)
Idle == todo[Client] = <<>>
CanCall == Idle /\ mCallback /\ (Patient => ~mIsRunning)

\* init: register, and initialise the library to see whether it can be.  A
\* failure starts the retry thread; while one runs, trySeInit returns without
\* releasing the mutex.
Register ==
  /\ Idle /\ (Patient => ~mIsRunning)
  /\ mCallback' = TRUE
  /\ Start(IF gIsInitlized THEN <<>>
           ELSE SeHalInit \o <<"ready", "deinit", "deinitClose", "initEnd">>)
  /\ UNCHANGED <<vars, channels, flags, retry, channel, cardChannels, held>>

Ready ==
  /\ At(Client, "ready") /\ Goes(<<>>)
  /\ isInited' = [isInited EXCEPT ![Client] = status[Client] = "SUCCESS"]
  /\ UNCHANGED <<lib, pc, status, mode, refs, service>>

InitEnd ==
  /\ At(Client, "initEnd")
  /\ \/ /\ isInited[Client]
        /\ Goes(<<>>) /\ UNCHANGED retry
     \/ /\ ~isInited[Client] /\ ~mMutex /\ mIsRunning
        /\ mMutex' = TRUE
        /\ Goes(<<>>) /\ UNCHANGED <<mTrySeInitCnt, mIsRunning>>
     \/ /\ ~isInited[Client] /\ ~mMutex /\ ~mIsRunning
        /\ mIsRunning' = TRUE
        /\ todo' = [todo EXCEPT ![Client] = Tail(@), ![Retrier] = <<"retry">>]
        /\ UNCHANGED <<mTrySeInitCnt, mMutex>>
  /\ UNCHANGED <<vars, channels, flags, mCallback, channel, cardChannels, held>>

\* A call that needs the library asks SeIsInitialized, and calls seHalInit
\* unless the answer is yes.
Begins(check, after) ==
  /\ isInited' = [isInited EXCEPT ![Client] = ~gIsInitlized]
  /\ Start(IF gIsInitlized THEN after ELSE SeHalInit \o <<check>> \o after)
  /\ UNCHANGED <<lib, pc, status, mode, refs, channels, retry, mCallback, channel,
                 cardChannels, held>>

\* When that fails, the call ends.
InitedLogical ==
  /\ At(Client, "initedLogical")
  /\ IF status[Client] = "SUCCESS" THEN Goes(<<>>) /\ UNCHANGED flags
     ELSE /\ Start(<<>>)
          /\ OpenLogicalChannelProcessing' = FALSE
          /\ UNCHANGED OpenBasicChannelProcessing
  /\ UNCHANGED <<vars, channels, retry, mCallback, channel, cardChannels, held>>

InitedBasic ==
  /\ At(Client, "initedBasic")
  /\ IF status[Client] = "SUCCESS" THEN Goes(<<>>) /\ UNCHANGED flags
     ELSE /\ Start(<<>>)
          /\ OpenBasicChannelProcessing' = FALSE
          /\ UNCHANGED OpenLogicalChannelProcessing
  /\ UNCHANGED <<vars, channels, retry, mCallback, channel, cardChannels, held>>

\* getAtr: the exchange changes nothing here.
GetAtr ==
  /\ CanCall
  /\ Begins("initedLogical", IF gIsInitlized THEN <<>> ELSE SeHalDeInit)
  /\ UNCHANGED flags

\* A seTransceive: it needs an initialised library on an open device.
Works == gIsInitlized /\ device /\ SeUse
Breaks == ~(gIsInitlized /\ device) \/ ExchangeMayFail
Fail == Breaks /\ SeUse
Local == UNCHANGED <<local, refs>>

Transmit ==
  /\ CanCall /\ (Careful => held # {})
  /\ \/ Works /\ UNCHANGED todo
     \/ Fail /\ Start(SeHalResetSe)
  /\ Local /\ UNCHANGED service

Reset ==
  /\ CanCall /\ Start(SeHalResetSe)
  /\ UNCHANGED <<vars, service>>

-----------------------------------------------------------------------------
\* openLogicalChannel: MANAGE CHANNEL, then SELECT.
OpenLogicalChannel ==
  /\ CanCall /\ mOpenedchannelCount < MaxCounted
  /\ OpenLogicalChannelProcessing' = TRUE
  /\ UNCHANGED OpenBasicChannelProcessing
  /\ Begins("initedLogical", <<"manage">>)

\* A card that opened the channel may have lost its answer.
Manage ==
  /\ At(Client, "manage")
  /\ \/ \E c \in Channels \ (cardChannels \cup {BasicChannel}) :
          /\ Works
          /\ channel' = c /\ cardChannels' = cardChannels \cup {c}
          /\ Goes(<<"note", "select">>)
     \/ /\ Works
        /\ Goes((IF isInited[Client] THEN SeHalDeInit ELSE <<>>) \o <<"logicalEnd">>)
        /\ UNCHANGED <<channel, cardChannels>>
     \/ /\ Fail
        /\ \/ UNCHANGED cardChannels
           \/ /\ AnswerMayBeLost
              /\ \E c \in Channels \ {BasicChannel} :
                   cardChannels' = cardChannels \cup {c}
        /\ Goes(SeHalResetSe \o <<"logicalEnd">>)
        /\ UNCHANGED channel
  /\ Local /\ UNCHANGED <<channels, flags, retry, mCallback, held>>

\* Mutant: a channel is marked and not counted.
CountedNot(n) == n

Counted(n) == (n + 1) % 256

Note ==
  /\ At(Client, "note") /\ Goes(<<>>)
  /\ mOpenedchannelCount' = Counted(mOpenedchannelCount)
  /\ mOpenedChannels' = mOpenedChannels \cup {channel}
  /\ UNCHANGED <<vars, flags, retry, mCallback, channel, cardChannels, held>>

SelectLogical ==
  /\ At(Client, "select")
  /\ \/ /\ Works
        /\ OpenLogicalChannelProcessing' = FALSE
        /\ held' = held \cup {channel}
        /\ Goes(<<>>)
     \/ /\ Works
        /\ OpenLogicalChannelProcessing' = FALSE
        /\ Goes(<<"close">>)
        /\ UNCHANGED held
     \/ /\ Fail
        /\ Goes(SeHalResetSe \o <<"logicalEnd">>)
        /\ UNCHANGED <<held, OpenLogicalChannelProcessing>>
  /\ Local /\ UNCHANGED <<channels, OpenBasicChannelProcessing, retry, mCallback,
                          channel, cardChannels>>

\* Mutant: a refused open leaves its flag set.
LogicalEndKeepsFlag ==
  /\ At(Client, "logicalEnd") /\ Goes(<<>>)
  /\ UNCHANGED <<vars, service>>

LogicalEnd ==
  /\ At(Client, "logicalEnd") /\ Goes(<<>>)
  /\ OpenLogicalChannelProcessing' = FALSE
  /\ UNCHANGED <<vars, channels, OpenBasicChannelProcessing, retry, mCallback,
                 channel, cardChannels, held>>

-----------------------------------------------------------------------------
\* openBasicChannel: refused at once while the channel is open, and then the
\* flag stays set.
OpenBasicChannel ==
  /\ CanCall /\ mOpenedchannelCount < MaxCounted
  /\ Careful => BasicChannel \notin held
  /\ OpenBasicChannelProcessing' = TRUE
  /\ UNCHANGED OpenLogicalChannelProcessing
  /\ IF BasicChannel \in mOpenedChannels
     THEN UNCHANGED <<vars, todo, channels, retry, mCallback, channel, cardChannels,
                      held>>
     ELSE Begins("initedBasic", <<"selectBasic">>)

SelectBasic ==
  /\ At(Client, "selectBasic")
  /\ \/ /\ Works
        /\ OpenBasicChannelProcessing' = FALSE
        /\ mOpenedChannels' = mOpenedChannels \cup {BasicChannel}
        /\ mOpenedchannelCount' = IF BasicChannel \in mOpenedChannels
                                  THEN mOpenedchannelCount
                                  ELSE Counted(mOpenedchannelCount)
        /\ held' = held \cup {BasicChannel}
        /\ Goes(<<>>)
     \/ Works /\ Goes(<<"basicFailed">>)
        /\ UNCHANGED <<channels, held, OpenBasicChannelProcessing>>
     \/ Fail /\ Goes(SeHalResetSe \o <<"basicFailed">>)
        /\ UNCHANGED <<channels, held, OpenBasicChannelProcessing>>
  /\ Local /\ UNCHANGED <<OpenLogicalChannelProcessing, retry, mCallback, channel,
                          cardChannels>>

\* A channel 0 found open is closed, and a library initialised here is left.
BasicFailed ==
  /\ At(Client, "basicFailed")
  /\ \/ /\ BasicChannel \in mOpenedChannels
        /\ channel' = BasicChannel
        /\ OpenBasicChannelProcessing' = FALSE
        /\ Goes(<<"close">>)
     \/ /\ BasicChannel \notin mOpenedChannels /\ isInited[Client]
        /\ Goes(SeHalDeInit \o <<"basicEnd">>)
        /\ UNCHANGED <<channel, OpenBasicChannelProcessing>>
     \/ /\ BasicChannel \notin mOpenedChannels /\ ~isInited[Client]
        /\ OpenBasicChannelProcessing' = FALSE
        /\ Goes(<<>>) /\ UNCHANGED channel
  /\ UNCHANGED <<vars, channels, OpenLogicalChannelProcessing, retry, mCallback,
                 cardChannels, held>>

BasicEnd ==
  /\ At(Client, "basicEnd") /\ Goes(<<>>)
  /\ OpenBasicChannelProcessing' = FALSE
  /\ UNCHANGED <<vars, channels, OpenLogicalChannelProcessing, retry, mCallback,
                 channel, cardChannels, held>>

-----------------------------------------------------------------------------
\* closeChannel.
CloseChannel ==
  /\ CanCall
  /\ \E c \in IF Careful THEN held ELSE Channels :
       channel' = c /\ held' = held \ {c}
  /\ Start(<<"close">>)
  /\ UNCHANGED <<vars, channels, flags, retry, mCallback, cardChannels>>

\* Channel 0 needs no command, and is uncounted whether it was open or not.
Close ==
  /\ At(Client, "close")
  /\ IF channel = BasicChannel \/ channel \notin mOpenedChannels
     THEN /\ Goes(IF channel = BasicChannel THEN <<"uncount", "last">> ELSE <<"last">>)
          /\ UNCHANGED <<lib, cardChannels>>
     ELSE \/ /\ Works
             /\ Goes(<<"uncount", "last">>)
             /\ cardChannels' = cardChannels \ {channel}
          \/ /\ Fail
             /\ Goes(<<"last">>)
             /\ \/ UNCHANGED cardChannels
                \/ AnswerMayBeLost /\ cardChannels' = cardChannels \ {channel}
  /\ Local /\ UNCHANGED <<channels, flags, retry, mCallback, channel, held>>

Uncount ==
  /\ At(Client, "uncount") /\ Goes(<<>>)
  /\ mOpenedChannels' = mOpenedChannels \ {channel}
  /\ mOpenedchannelCount' = IF mOpenedchannelCount > 0 THEN mOpenedchannelCount - 1
                            ELSE 0
  /\ UNCHANGED <<vars, flags, retry, mCallback, channel, cardChannels, held>>

\* The last channel takes the library with it, unless an open is in progress.
Last ==
  /\ At(Client, "last")
  /\ Goes(IF /\ mOpenedchannelCount = 0
              /\ ~OpenLogicalChannelProcessing /\ ~OpenBasicChannelProcessing
           THEN SeHalDeInit ELSE <<>>)
  /\ UNCHANGED <<vars, service>>

-----------------------------------------------------------------------------
\* OnDeath: the library is deinitialised whoever uses it.
Dies ==
  /\ ClientMayDie /\ Idle /\ mCallback
  /\ Start(SeHalDeInit \o <<"unregister">>)
  /\ held' = {}
  /\ UNCHANGED <<vars, channels, flags, retry, mCallback, channel, cardChannels>>

Unregister ==
  /\ At(Client, "unregister") /\ Goes(<<>>)
  /\ mCallback' = FALSE
  /\ UNCHANGED <<vars, channels, flags, retry, channel, cardChannels, held>>

-----------------------------------------------------------------------------
LibrarySection(w) ==
  \/ OpenSection(w) \/ InitSection(w) \/ InitCloseSection(w)
  \/ DeInitSection(w) \/ DeInitCloseSection(w) \/ Forget(w)
  \/ ResetChecks(w) \/ SeResetSection(w) \/ ResetDone(w)

Call == Register \/ GetAtr \/ Transmit \/ Reset \/ OpenLogicalChannel
        \/ OpenBasicChannel \/ CloseChannel \/ Dies

Continue ==
  \/ Ready \/ InitEnd \/ InitedLogical \/ InitedBasic
  \/ Manage \/ Note \/ SelectLogical \/ LogicalEnd
  \/ SelectBasic \/ BasicFailed \/ BasicEnd
  \/ Close \/ Uncount \/ Last \/ Unregister
  \/ LibrarySection(Client)

RetryThread == Retry \/ RetryCheck \/ RetryEnd \/ LibrarySection(Retrier)

\* The clients of ITmsEse.
Others == (\E h \in Holders : Step(h)) /\ UNCHANGED <<service, todo>>

ServiceNext == Call \/ Continue \/ RetryThread \/ Others

\* Threads that are inside a call keep running.
ServiceSpec == ServiceInit /\ [][ServiceNext]_serviceVars
               /\ WF_serviceVars(Continue) /\ WF_serviceVars(RetryThread)

-----------------------------------------------------------------------------
\* A client that was given a channel, has not closed it and was not told it is
\* gone finds the library initialised: whatever opens and closes around it,
\* nothing deinitialises the library under an open channel (the count of
\* channels decides that, SecureElement.cpp:491-495).
HeldChannelIsServed == held # {} => gIsInitlized /\ device

\* "If there are no channels remaining close secureElement"
\* (SecureElement.cpp:491): a close that finds the count at zero, and so gives
\* the library back, leaves no channel open, lost answers included.  Only for a
\* client that closes what it holds: a close of channel 0 is counted although
\* it was not open (SecureElement.cpp:481).
ClosesWithoutChannels ==
  At(Client, "last") /\ mOpenedchannelCount = 0 => mOpenedChannels = {}

\* Between calls the count is the number of flags set: the two bookkeepings,
\* changed by different branches and cleared by two more, stay together.
CountIsChannels ==
  Idle => mOpenedchannelCount = Cardinality(mOpenedChannels)

\* A close that leaves no channel open releases the library, unless an open
\* of the basic channel is, or was left, in progress.
LastCloseReleases ==
  At(Client, "last") /\ mOpenedChannels = {} ~> ~gIsInitlized \/ OpenBasicChannelProcessing

\* Every call returns to the client.
CallReturns == ~Idle ~> Idle

=============================================================================
