------------------------------ MODULE SEApiProofs -----------------------------
(***************************************************************************)
(* SEApi for every finite set of clients and every bound on the count: the *)
(* device is open exactly while the library counts a user, the count is    *)
(* that of the references taken, and a client of ITmsEse keeps the library *)
(* until it gives it back or another client gives back a reference it does *)
(* not have.  Beside the secure element service, too, the device is open   *)
(* exactly while it is counted.  The rest is about a service whose client  *)
(* keeps the rules of Alone: it finds the library initialised as long as   *)
(* it holds a channel, no close takes the library while another channel is *)
(* open, and the count of channels is the number of marks.                 *)
(***************************************************************************)
EXTENDS SecureElement, DataLemmas, SequenceTheorems

\* The part of the type invariant that is about the library.
LibTypeOK ==
  /\ EseLibStatus \in {"ZERO", "OPENED", "CLOSED"}
  /\ gSEOpenedCnt \in 0..MaxOpened

\* The count alone does not decide whether the device is open, nor the status
\* whether the library is initialised: the three facts hold together or not
\* at all.
LibInv == LibTypeOK /\ OpenIffReferenced

\* No section but the open, the initialisation, the exchange and the two that
\* take users away touches the library's variables.
LEMMA OpenKeeps ==
  ASSUME NEW t \in Threads, LibInv, SeOpen(t)
  PROVE  LibInv'
<1> USE SEApiAssumption DEF LibInv, LibTypeOK, OpenIffReferenced
<1>1. CASE SeOpenRefused(t)
  BY <1>1 DEF SeOpenRefused, lib
<1>2. CASE SeOpenAgain(t)
  <2>1. gSEOpenedCnt' = gSEOpenedCnt + 1 /\ gSEOpenedCnt + 1 \in 1..MaxOpened
    BY <1>2, SMT DEF SeOpenAgain
  <2>2. QED
    BY <1>2, <2>1 DEF SeOpenAgain
<1>3. CASE SeOpenDevice(t)
  <2>1. gSEOpenedCnt = 0 /\ ~device /\ ~gIsInitlized
    BY <1>3 DEF SeOpenDevice
  <2>2. (gSEOpenedCnt + 1) % 256 = 1
    BY <2>1, SMT
  <2>3. QED
    BY <1>3, <2>1, <2>2 DEF SeOpenDevice
<1>4. QED
  BY <1>1, <1>2, <1>3 DEF SeOpen, SeOpenRefused, SeOpenAgain, SeOpenDevice

LEMMA InitKeeps ==
  ASSUME NEW t \in Threads, LibInv, SeInit(t)
  PROVE  LibInv'
<1> USE DEF LibInv, LibTypeOK, OpenIffReferenced
<1>1. CASE SeInitNothing(t)
  BY <1>1 DEF SeInitNothing, lib
<1>2. CASE SeInitT1(t)
  BY <1>2 DEF SeInitT1, Succeeds, Fails
<1>3. CASE SeInitNoBuffer(t)
  BY <1>3 DEF SeInitNoBuffer
<1>4. QED
  BY <1>1, <1>2, <1>3 DEF SeInit

LEMMA CloseKeeps ==
  ASSUME LibInv, SeClose
  PROVE  LibInv'
<1> USE SEApiAssumption DEF LibInv, LibTypeOK, OpenIffReferenced
<1>1. CASE EseLibStatus = "CLOSED"
  BY <1>1 DEF SeClose, lib
<1>2. CASE EseLibStatus # "CLOSED" /\ gSEOpenedCnt = 1
  BY <1>2 DEF SeClose, Decremented
<1>3. CASE EseLibStatus # "CLOSED" /\ gSEOpenedCnt # 1
  <2>1. /\ gSEOpenedCnt' = Decremented
        /\ UNCHANGED <<EseLibStatus, gIsInitlized, device>>
    BY <1>3 DEF SeClose
  <2>2. Decremented \in 0..MaxOpened /\ (Decremented > 0 <=> gSEOpenedCnt > 0)
    BY <1>3, SMT DEF Decremented
  <2>3. QED
    BY <2>1, <2>2
<1>4. QED
  BY <1>1, <1>2, <1>3

LEMMA DeInitKeeps ==
  ASSUME LibInv, SeDeInit
  PROVE  LibInv'
BY DEF LibInv, LibTypeOK, OpenIffReferenced, SeDeInit

LEMMA UseKeeps ==
  ASSUME LibInv, SeUse
  PROVE  LibInv'
BY DEF LibInv, LibTypeOK, OpenIffReferenced, SeUse

LEMMA LibUnchanged ==
  ASSUME LibInv, UNCHANGED lib
  PROVE  LibInv'
BY DEF LibInv, LibTypeOK, OpenIffReferenced, lib

LEMMA LibInvStep == LibInv /\ [Next]_vars => LibInv'
<1> SUFFICES ASSUME LibInv, [Next]_vars PROVE LibInv'
  OBVIOUS
<1>1. ASSUME NEW t \in Threads, Step(t) PROVE LibInv'
  <2>1. CASE VisitorChecks(t)
    BY <2>1, LibUnchanged DEF VisitorChecks
  <2>2. CASE VisitorUses(t)
    BY <2>2, LibUnchanged DEF VisitorUses, SeGetATR
  <2>3. CASE OthersBegin(t)
    BY <2>3, LibUnchanged DEF OthersBegin
  <2>4. CASE HolderUses(t)
    BY <2>4, UseKeeps DEF HolderUses
  <2>5. CASE HolderEnds(t)
    BY <2>5, LibUnchanged DEF HolderEnds
  <2>6. CASE LoaderOpens(t)
    BY <2>6, OpenKeeps DEF LoaderOpens
  <2>7. CASE LoaderReadsMode(t)
    BY <2>7, LibUnchanged DEF LoaderReadsMode
  <2>8. CASE Opens(t)
    BY <2>8, OpenKeeps DEF Opens
  <2>9. CASE Inits(t)
    BY <2>9, InitKeeps DEF Inits
  <2>10. CASE InitCloses(t)
    BY <2>10, CloseKeeps DEF InitCloses
  <2>11. CASE DeInits(t)
    BY <2>11, DeInitKeeps DEF DeInits
  <2>12. CASE DeInitCloses(t)
    BY <2>12, CloseKeeps DEF DeInitCloses
  <2>13. CASE LoaderCloses(t)
    BY <2>13, CloseKeeps DEF LoaderCloses
  <2>14. CASE LoaderGivesUp(t)
    BY <2>14, CloseKeeps DEF LoaderGivesUp
  <2>15. QED
    BY <1>1, <2>1, <2>2, <2>3, <2>4, <2>5, <2>6, <2>7, <2>8, <2>9, <2>10,
       <2>11, <2>12, <2>13, <2>14 DEF Step
<1>2. CASE UNCHANGED vars
  BY <1>2, LibUnchanged DEF vars
<1>3. QED
  BY <1>1, <1>2 DEF Next

LEMMA LibInvInit == Init => LibInv
BY SEApiAssumption DEF Init, LibInv, LibTypeOK, OpenIffReferenced

\* Whatever any number of clients do, the device is open exactly while the
\* library counts a user, and an initialised library is an open one: the
\* locked sections of seOpen, seInit, seDeInit and seClose, in any order, leak
\* no descriptor and close none twice.
THEOREM DeviceIsOpenIffReferenced == Spec => []OpenIffReferenced
<1>1. Spec => []LibInv
  BY LibInvInit, LibInvStep, PTL DEF Spec
<1>2. LibInv => OpenIffReferenced
  BY DEF LibInv
<1>3. QED
  BY <1>1, <1>2, PTL

-----------------------------------------------------------------------------
(***************************************************************************)
(* References.  While every client gives back what it took, the library's  *)
(* count is the sum of what they hold: a section of one client can close   *)
(* or uninitialise the library only when nobody else holds a reference.    *)
(***************************************************************************)
RefsTypeOK == refs \in [Threads -> {Overdrawn} \cup Nat]

CountInv == LibInv /\ RefsTypeOK /\ CountIsReferences

\* What a step of a client does to the library is one of the locked sections.
LibStep(t) ==
  \/ SeOpen(t) \/ SeInit(t)
  \/ SeDeInit /\ GivesBack(t)
  \/ SeClose /\ GaveBack(t)
  \/ SeUse /\ UNCHANGED refs
  \/ UNCHANGED <<lib, refs>>

\* What the sections of one client leave to the others.
KeepsOthers(t) ==
  \A u \in Threads \ {t} :
    /\ refs'[u] = refs[u]
    /\ refs[u] >= 1 /\ gIsInitlized => gIsInitlized'

\* The count as a sum.
LEMMA CountSum ==
  CountIsReferences <=> (OwnReferenceGivenBack => gSEOpenedCnt = Sum(refs, Threads))
BY DEF CountIsReferences, Sum

LEMMA CountSumPrime ==
  CountIsReferences' <=> (OwnReferenceGivenBack' => gSEOpenedCnt' = Sum(refs', Threads))
BY DEF CountIsReferences, Sum, FoldSet, MapThenFoldSet

\* One client's balance moved by d, and the count with it.
LEMMA BalanceMoves ==
  ASSUME RefsTypeOK, CountIsReferences, OwnReferenceGivenBack,
         NEW t \in Threads, NEW v \in Nat,
         refs' = [refs EXCEPT ![t] = v], gSEOpenedCnt \in Nat,
         gSEOpenedCnt' = gSEOpenedCnt + v - refs[t]
  PROVE  RefsTypeOK' /\ CountIsReferences'
<1>1. refs \in [Threads -> Nat]
  BY DEF RefsTypeOK, OwnReferenceGivenBack
<1>2. refs \in [Threads -> Int] /\ v \in Int /\ IsFiniteSet(Threads)
  BY <1>1, SEApiAssumption
<1>3. Sum([refs EXCEPT ![t] = v], Threads) = Sum(refs, Threads) + v - refs[t]
  BY <1>2, SumChange
<1>4. gSEOpenedCnt = Sum(refs, Threads)
  BY CountSum
<1>5. CountIsReferences'
  BY <1>3, <1>4, CountSumPrime
<1>6. RefsTypeOK'
  BY <1>1 DEF RefsTypeOK
<1>7. QED
  BY <1>5, <1>6

\* What the sum says of one client, and of two.
LEMMA Holdings ==
  ASSUME RefsTypeOK, CountIsReferences, OwnReferenceGivenBack, NEW t \in Threads
  PROVE  /\ refs[t] \in Nat /\ gSEOpenedCnt >= refs[t]
         /\ \A u \in Threads \ {t} : refs[u] \in Nat /\ gSEOpenedCnt >= refs[t] + refs[u]
<1>1. refs \in [Threads -> Nat]
  BY DEF RefsTypeOK, OwnReferenceGivenBack
<1>2. gSEOpenedCnt = Sum(refs, Threads) /\ IsFiniteSet(Threads)
  BY CountSum, SEApiAssumption
<1>3. Sum(refs, Threads) >= refs[t]
  BY <1>1, <1>2, SumCovers
<1>4. ASSUME NEW u \in Threads \ {t} PROVE Sum(refs, Threads) >= refs[t] + refs[u]
  <2>1. u \in Threads /\ t # u
    OBVIOUS
  <2>2. QED
    BY <1>1, <1>2, <2>1, SumCovers
<1>5. QED
  BY <1>1, <1>2, <1>3, <1>4

\* A client that overdrew stays so.
LEMMA OverdrawnStays ==
  ASSUME RefsTypeOK, NEW t \in Threads, LibStep(t), OwnReferenceGivenBack'
  PROVE  OwnReferenceGivenBack
<1> SUFFICES ASSUME NEW u \in Threads, refs[u] = Overdrawn PROVE refs'[u] = Overdrawn
  BY DEF OwnReferenceGivenBack
<1>1. CASE UNCHANGED refs
  BY <1>1
<1>2. CASE Took(t)
  BY <1>2 DEF Took, RefsTypeOK
<1>3. CASE GivesBack(t)
  BY <1>3 DEF GivesBack, RefsTypeOK, Overdrawn
<1>4. CASE GaveBack(t)
  BY <1>4 DEF GaveBack, RefsTypeOK
<1>5. QED
  BY <1>1, <1>2, <1>3, <1>4 DEF LibStep, SeOpen, SeOpenRefused, SeOpenAgain, SeOpenDevice, SeInit

LEMMA OpenCounts ==
  ASSUME CountInv, OwnReferenceGivenBack, NEW t \in Threads, t \in DOMAIN status, SeOpen(t)
  PROVE  /\ RefsTypeOK' /\ CountIsReferences' /\ KeepsOthers(t)
         /\ status'[t] = "SUCCESS" => refs'[t] >= 1
<1> USE DEF CountInv
<1>1. refs \in [Threads -> Nat] /\ gSEOpenedCnt \in Nat
  BY SEApiAssumption DEF RefsTypeOK, OwnReferenceGivenBack, LibInv, LibTypeOK
<1>2. CASE UNCHANGED <<gSEOpenedCnt, refs, gIsInitlized>> /\ (Return(t, "BUSY") \/ Return(t, "FAILED"))
  <2>1. RefsTypeOK' /\ CountIsReferences'
    BY <1>2, CountSum, CountSumPrime DEF RefsTypeOK, OwnReferenceGivenBack
  <2>2. KeepsOthers(t)
    BY <1>2 DEF KeepsOthers
  <2>3. QED
    BY <1>2, <2>1, <2>2 DEF Return
<1>3. CASE /\ gSEOpenedCnt' = gSEOpenedCnt + 1 /\ UNCHANGED gIsInitlized
           /\ Return(t, "SUCCESS") /\ Took(t)
  <2>0. refs[t] \in Nat /\ refs[t] # Overdrawn
    BY <1>1 DEF Overdrawn
  <2>1. refs' = [refs EXCEPT ![t] = refs[t] + 1] /\ refs[t] + 1 \in Nat /\ refs[t] \in Nat
    BY <1>3, <2>0 DEF Took
  <2>2. gSEOpenedCnt' = gSEOpenedCnt + (refs[t] + 1) - refs[t]
    BY <1>1, <1>3, <2>1
  <2>3. RefsTypeOK' /\ CountIsReferences'
    BY <1>1, <2>1, <2>2, BalanceMoves
  <2>4. KeepsOthers(t)
    BY <1>1, <1>3, <2>1 DEF KeepsOthers
  <2>5. QED
    <3>1. refs'[t] >= 1
      BY <1>1, <2>1
    <3>2. QED
      BY <1>3, <2>3, <2>4, <3>1 DEF Return
<1>4. CASE SeOpenRefused(t)
  BY <1>2, <1>4 DEF SeOpenRefused, lib
<1>5. CASE SeOpenAgain(t)
  <2>1. gSEOpenedCnt' = gSEOpenedCnt + 1
    BY <1>1, <1>5, SEApiAssumption, SMT DEF SeOpenAgain
  <2>2. QED
    BY <1>3, <1>5, <2>1 DEF SeOpenAgain
<1>6. CASE SeOpenDevice(t)
  <2>1. gSEOpenedCnt = 0
    BY <1>1, <1>6 DEF SeOpenDevice, LibInv, OpenIffReferenced
  <2>2. (gSEOpenedCnt + 1) % 256 = gSEOpenedCnt + 1
    BY <2>1, SMT
  <2>3. QED
    BY <1>2, <1>3, <1>6, <2>2 DEF SeOpenDevice
<1>7. QED
  BY <1>4, <1>5, <1>6 DEF SeOpen

\* An initialisation counts nothing, and uninitialises nothing.
LEMMA InitCounts ==
  ASSUME CountInv, NEW t \in Threads, t \in DOMAIN status, SeInit(t)
  PROVE  /\ RefsTypeOK' /\ CountIsReferences' /\ KeepsOthers(t)
         /\ UNCHANGED refs
         /\ gIsInitlized => gIsInitlized'
         /\ status'[t] = "SUCCESS" => status[t] = "SUCCESS" /\ gIsInitlized'
<1>1. UNCHANGED <<refs, gSEOpenedCnt>>
  BY DEF SeInit, SeInitNothing, SeInitT1, SeInitNoBuffer, Succeeds, Fails, lib
<1>2. gIsInitlized => gIsInitlized'
  BY DEF SeInit, SeInitNothing, SeInitT1, SeInitNoBuffer, lib
<1>3. status'[t] = "SUCCESS" => status[t] = "SUCCESS" /\ gIsInitlized'
  BY DEF SeInit, SeInitNothing, SeInitT1, SeInitNoBuffer, Succeeds, Fails, Return, lib
<1>4. RefsTypeOK' /\ CountIsReferences'
  BY <1>1, CountSum, CountSumPrime DEF CountInv, RefsTypeOK, OwnReferenceGivenBack
<1>5. QED
  BY <1>1, <1>2, <1>3, <1>4 DEF KeepsOthers

\* A deinitialisation by a client that holds a reference leaves the library
\* initialised for whoever else holds one.
LEMMA DeInitCounts ==
  ASSUME CountInv, OwnReferenceGivenBack, NEW t \in Threads, SeDeInit, GivesBack(t),
         OwnReferenceGivenBack'
  PROVE  RefsTypeOK' /\ CountIsReferences' /\ KeepsOthers(t)
<1> USE DEF CountInv
<1>1. refs \in [Threads -> Nat] /\ gSEOpenedCnt \in Nat /\ gSEOpenedCnt' = gSEOpenedCnt
  BY SEApiAssumption DEF RefsTypeOK, OwnReferenceGivenBack, LibInv, LibTypeOK, SeDeInit
<1>2. ~(refs[t] = 0 /\ gSEOpenedCnt > 0)
  BY <1>1 DEF GivesBack, OwnReferenceGivenBack
<1>3. refs' = refs
  BY <1>1, <1>2 DEF GivesBack
<1>4. RefsTypeOK' /\ CountIsReferences'
  BY <1>1, <1>3, CountSum, CountSumPrime DEF RefsTypeOK, OwnReferenceGivenBack
<1>5. ASSUME NEW u \in Threads \ {t}, refs[u] >= 1, gIsInitlized PROVE gIsInitlized'
  <2>1. gSEOpenedCnt >= refs[t] + refs[u] /\ refs[t] \in Nat /\ refs[u] \in Nat
    BY <1>1, Holdings
  <2>2. gSEOpenedCnt > 1
    BY <1>1, <1>2, <1>5, <2>1
  <2>3. QED
    BY <1>5, <2>2 DEF SeDeInit
<1>6. QED
  BY <1>3, <1>4, <1>5 DEF KeepsOthers

\* And so does a close.
LEMMA CloseCounts ==
  ASSUME CountInv, OwnReferenceGivenBack, NEW t \in Threads, SeClose, GaveBack(t),
         OwnReferenceGivenBack'
  PROVE  RefsTypeOK' /\ CountIsReferences' /\ KeepsOthers(t)
<1> USE DEF CountInv
<1>1. refs \in [Threads -> Nat] /\ gSEOpenedCnt \in Nat
  BY SEApiAssumption DEF RefsTypeOK, OwnReferenceGivenBack, LibInv, LibTypeOK
<1>2. refs[t] \in Nat /\ gSEOpenedCnt >= refs[t]
  BY <1>1, Holdings
<1>3. CASE gSEOpenedCnt = 0
  <2>1. UNCHANGED <<gSEOpenedCnt, gIsInitlized>>
    BY <1>1, <1>3 DEF SeClose, Decremented, lib
  <2>2. refs[t] = 0
    BY <1>2, <1>3
  <2>3. refs' = refs
    BY <1>1, <1>3, <2>2 DEF GaveBack
  <2>4. RefsTypeOK' /\ CountIsReferences'
    BY <2>1, <2>3, CountSum, CountSumPrime DEF RefsTypeOK, OwnReferenceGivenBack
  <2>5. QED
    BY <2>1, <2>3, <2>4 DEF KeepsOthers
<1>4. CASE gSEOpenedCnt > 0
  <2>1. gSEOpenedCnt' = gSEOpenedCnt - 1 /\ (gSEOpenedCnt > 1 => gIsInitlized' = gIsInitlized)
    <3>1. EseLibStatus = "OPENED"
      BY <1>4 DEF LibInv, OpenIffReferenced
    <3>2. QED
      BY <1>1, <1>4, <3>1 DEF SeClose, Decremented
  <2>2. refs[t] # Overdrawn /\ ~(refs[t] = 0 /\ gSEOpenedCnt = 0)
    BY <1>2, <1>4 DEF Overdrawn
  <2>3. refs' = [refs EXCEPT ![t] = refs[t] - 1]
    BY <2>2 DEF GaveBack
  <2>4. refs[t] >= 1 /\ refs[t] - 1 \in Nat
    BY <1>1, <1>2, <2>3 DEF OwnReferenceGivenBack, Overdrawn
  <2>5. gSEOpenedCnt' = gSEOpenedCnt + (refs[t] - 1) - refs[t]
    BY <1>1, <1>2, <2>1
  <2>6. RefsTypeOK' /\ CountIsReferences'
    BY <1>1, <2>3, <2>4, <2>5, BalanceMoves
  <2>7. ASSUME NEW u \in Threads \ {t}, refs[u] >= 1, gIsInitlized PROVE gIsInitlized'
    <3>1. gSEOpenedCnt >= refs[t] + refs[u] /\ refs[u] \in Nat
      BY <1>1, Holdings
    <3>2. gSEOpenedCnt > 1
      BY <1>1, <1>2, <2>4, <2>7, <3>1
    <3>3. QED
      BY <2>1, <2>7, <3>2
  <2>8. \A u \in Threads \ {t} : refs'[u] = refs[u]
    BY <1>1, <2>3
  <2>9. QED
    BY <2>6, <2>7, <2>8 DEF KeepsOthers
<1>5. QED
  BY <1>1, <1>3, <1>4

\* An exchange uninitialises only a closed library.
LEMMA UseCounts ==
  ASSUME CountInv, OwnReferenceGivenBack, NEW t \in Threads, SeUse, UNCHANGED refs
  PROVE  /\ RefsTypeOK' /\ CountIsReferences' /\ KeepsOthers(t)
         /\ gIsInitlized => gIsInitlized'
<1>1. RefsTypeOK' /\ CountIsReferences'
  BY CountSum, CountSumPrime DEF CountInv, RefsTypeOK, OwnReferenceGivenBack, SeUse
<1>2. gIsInitlized => gIsInitlized'
  BY DEF CountInv, LibInv, OpenIffReferenced, SeUse
<1>3. QED
  BY <1>1, <1>2 DEF KeepsOthers

\* No section breaks the count or takes the library from the others.
LEMMA LibStepCounts ==
  ASSUME CountInv, NEW t \in Threads, t \in DOMAIN status, LibStep(t), OwnReferenceGivenBack'
  PROVE  OwnReferenceGivenBack /\ CountInv' /\ KeepsOthers(t)
<1>1. OwnReferenceGivenBack
  BY OverdrawnStays DEF CountInv
<1>2. LibInv'
  BY OpenKeeps, InitKeeps, CloseKeeps, DeInitKeeps, UseKeeps, LibUnchanged DEF LibStep, CountInv
<1>3. CASE UNCHANGED <<lib, refs>>
  <2>1. RefsTypeOK' /\ CountIsReferences'
    BY <1>3, CountSum, CountSumPrime DEF CountInv, RefsTypeOK, OwnReferenceGivenBack, lib
  <2>2. QED
    BY <1>1, <1>2, <1>3, <2>1 DEF KeepsOthers, CountInv, lib
<1>4. CASE SeOpen(t)
  BY <1>1, <1>2, <1>4, OpenCounts DEF CountInv
<1>5. CASE SeInit(t)
  BY <1>1, <1>2, <1>5, InitCounts DEF CountInv
<1>6. CASE SeDeInit /\ GivesBack(t)
  BY <1>1, <1>2, <1>6, DeInitCounts DEF CountInv
<1>7. CASE SeClose /\ GaveBack(t)
  BY <1>1, <1>2, <1>7, CloseCounts DEF CountInv
<1>8. CASE SeUse /\ UNCHANGED refs
  BY <1>1, <1>2, <1>8, UseCounts DEF CountInv
<1>9. QED
  BY <1>3, <1>4, <1>5, <1>6, <1>7, <1>8 DEF LibStep

LEMMA RefsTypeKeeps ==
  ASSUME RefsTypeOK, NEW t \in Threads, LibStep(t)
  PROVE  RefsTypeOK'
<1> USE DEF RefsTypeOK
<1>1. CASE UNCHANGED refs
  BY <1>1
<1>2. CASE Took(t)
  <2>1. refs[t] # Overdrawn => refs[t] + 1 \in Nat
    BY DEF Overdrawn
  <2>2. QED
    BY <1>2, <2>1 DEF Took
<1>3. CASE GivesBack(t)
  BY <1>3 DEF GivesBack
<1>4. CASE GaveBack(t)
  <2>1. refs[t] # Overdrawn => refs[t] - 1 \in {Overdrawn} \cup Nat
    BY DEF Overdrawn
  <2>2. QED
    BY <1>4, <2>1 DEF GaveBack
<1>5. QED
  BY <1>1, <1>2, <1>3, <1>4 DEF LibStep, SeOpen, SeOpenRefused, SeOpenAgain, SeOpenDevice, SeInit

LEMMA LibStepKeepsCount ==
  ASSUME CountInv, NEW t \in Threads, t \in DOMAIN status, LibStep(t)
  PROVE  CountInv'
<1>1. LibInv'
  BY OpenKeeps, InitKeeps, CloseKeeps, DeInitKeeps, UseKeeps, LibUnchanged DEF LibStep, CountInv
<1>2. RefsTypeOK'
  BY RefsTypeKeeps DEF CountInv
<1>3. CASE OwnReferenceGivenBack'
  BY <1>3, LibStepCounts
<1>4. CASE ~OwnReferenceGivenBack'
  BY <1>1, <1>2, <1>4, CountSumPrime DEF CountInv
<1>5. QED
  BY <1>3, <1>4

-----------------------------------------------------------------------------
(***************************************************************************)
(* The clients of the access library.  A thread inside its use holds a     *)
(* reference, and a thread whose open succeeded does.                      *)
(***************************************************************************)
Sections == {"idle", "use", "open", "openT1", "initT1", "init", "initClose", "hold",
             "deinit", "deinitClose", "close", "lastClose"}
Statuses == {"SUCCESS", "BUSY", "FAILED", "MEM_EXCEPTION"}

LocalTypeOK ==
  /\ pc \in [Threads -> Sections] /\ status \in [Threads -> Statuses]
  /\ isInited \in [Threads -> BOOLEAN]

InUse(t) == pc[t] = "hold" \/ (pc[t] = "use" /\ isInited[t])

ThreadOK(t) ==
  /\ pc[t] = "init" /\ status[t] = "SUCCESS" => refs[t] >= 1
  /\ pc[t] = "initClose" => status[t] # "SUCCESS"
  /\ InUse(t) => refs[t] >= 1 /\ gIsInitlized

\* The count says that nobody takes the library from a thread; the threads'
\* own states say that one that uses it holds a reference at all.
HoldInv ==
  /\ CountInv /\ LocalTypeOK
  /\ OwnReferenceGivenBack => \A t \in Threads : ThreadOK(t)

LEMMA StepIsLibStep ==
  ASSUME NEW t \in Threads, Step(t)
  PROVE  LibStep(t)
<1> USE DEF LibStep, lib
<1>1. CASE VisitorChecks(t) \/ VisitorUses(t)
  BY <1>1 DEF VisitorChecks, VisitorUses, SeGetATR
<1>2. CASE OthersBegin(t) \/ HolderUses(t) \/ HolderEnds(t)
  BY <1>2 DEF OthersBegin, HolderUses, HolderEnds
<1>3. CASE LoaderOpens(t) \/ LoaderReadsMode(t) \/ Opens(t)
  BY <1>3 DEF LoaderOpens, LoaderReadsMode, Opens
<1>4. CASE Inits(t)
  BY <1>4 DEF Inits
<1>5. CASE InitCloses(t) \/ DeInits(t) \/ DeInitCloses(t) \/ LoaderCloses(t) \/ LoaderGivesUp(t)
  BY <1>5 DEF InitCloses, DeInits, DeInitCloses, LoaderCloses, LoaderGivesUp
<1>6. QED
  BY <1>1, <1>2, <1>3, <1>4, <1>5 DEF Step

LEMMA AfterInitIsSection ==
  ASSUME NEW t, NEW s
  PROVE  AfterInit(t, s) \in Sections
BY DEF AfterInit, Sections

LEMMA Gotos ==
  ASSUME NEW t \in Threads, Step(t)
  PROVE  UNCHANGED pc \/ \E s \in Sections : Goto(t, s)
<1> USE AfterInitIsSection DEF Sections
<1>1. CASE VisitorChecks(t) \/ VisitorUses(t) \/ OthersBegin(t) \/ HolderUses(t) \/ HolderEnds(t)
  BY <1>1 DEF VisitorChecks, VisitorUses, OthersBegin, HolderUses, HolderEnds, local
<1>2. CASE LoaderOpens(t) \/ LoaderReadsMode(t) \/ Opens(t)
  BY <1>2 DEF LoaderOpens, LoaderReadsMode, Opens
<1>3. CASE Inits(t)
  <2>1. Goto(t, IF gIsInitlized' THEN AfterInit(t, status'[t]) ELSE "initClose")
    BY <1>3 DEF Inits
  <2>2. (IF gIsInitlized' THEN AfterInit(t, status'[t]) ELSE "initClose") \in Sections
    BY DEF Sections
  <2>3. QED
    BY <2>1, <2>2
<1>4. CASE InitCloses(t)
  <2>1. Goto(t, AfterInit(t, status[t]))
    BY <1>4 DEF InitCloses
  <2>2. QED
    BY <2>1
<1>5. CASE DeInits(t) \/ DeInitCloses(t) \/ LoaderCloses(t) \/ LoaderGivesUp(t)
  BY <1>5 DEF DeInits, DeInitCloses, LoaderCloses, LoaderGivesUp
<1>6. QED
  BY <1>1, <1>2, <1>3, <1>4, <1>5 DEF Step

LEMMA SectionReturns ==
  ASSUME NEW t \in Threads, SeOpen(t) \/ SeInit(t)
  PROVE  UNCHANGED status \/ \E s \in Statuses : Return(t, s)
<1> USE DEF Statuses
<1>1. CASE SeOpen(t)
  BY <1>1 DEF SeOpen, SeOpenRefused, SeOpenAgain, SeOpenDevice
<1>2. CASE SeInitNothing(t)
  BY <1>2 DEF SeInitNothing
<1>3. CASE SeInitT1(t)
  BY <1>3 DEF SeInitT1, Succeeds, Fails
<1>4. CASE SeInitNoBuffer(t)
  BY <1>4 DEF SeInitNoBuffer
<1>5. QED
  BY <1>1, <1>2, <1>3, <1>4 DEF SeInit

\* A step of t changes t's own locals only.
LEMMA OwnLocals ==
  ASSUME LocalTypeOK, NEW t \in Threads, Step(t)
  PROVE  /\ LocalTypeOK'
         /\ \A u \in Threads \ {t} :
              pc'[u] = pc[u] /\ status'[u] = status[u] /\ isInited'[u] = isInited[u]
<1>1. pc' \in [Threads -> Sections] /\ \A u \in Threads \ {t} : pc'[u] = pc[u]
  BY Gotos DEF Goto, LocalTypeOK
<1>2. status' \in [Threads -> Statuses] /\ \A u \in Threads \ {t} : status'[u] = status[u]
  <2>1. UNCHANGED status \/ \E s \in Statuses : Return(t, s)
    BY SectionReturns DEF Step, VisitorChecks, VisitorUses, OthersBegin, HolderUses, HolderEnds,
      LoaderOpens, LoaderReadsMode, Opens, Inits, InitCloses, DeInits, DeInitCloses,
      LoaderCloses, LoaderGivesUp, local
  <2>2. QED
    BY <2>1 DEF Return, LocalTypeOK
<1>3. isInited' \in [Threads -> BOOLEAN] /\ \A u \in Threads \ {t} : isInited'[u] = isInited[u]
  <2>1. UNCHANGED isInited \/ \E b \in BOOLEAN : isInited' = [isInited EXCEPT ![t] = b]
    <3>1. CASE Inits(t)
      <4>1. isInited' = [isInited EXCEPT ![t] = gIsInitlized' /\ status'[t] = "SUCCESS"]
        BY <3>1 DEF Inits
      <4>2. (gIsInitlized' /\ status'[t] = "SUCCESS") \in BOOLEAN
        OBVIOUS
      <4>3. QED
        BY <4>1, <4>2
    <3>2. CASE VisitorChecks(t)
      BY <3>2 DEF VisitorChecks
    <3>3. QED
      BY <3>1, <3>2 DEF Step, VisitorUses, OthersBegin, HolderUses, HolderEnds,
        LoaderOpens, LoaderReadsMode, Opens, InitCloses, DeInits, DeInitCloses,
        LoaderCloses, LoaderGivesUp, local
  <2>2. QED
    BY <2>1 DEF LocalTypeOK
<1>4. QED
  BY <1>1, <1>2, <1>3 DEF LocalTypeOK

\* A thread is in its use only after an initialisation that succeeded, with
\* the reference its own open took.
LEMMA MyThreadStays ==
  ASSUME HoldInv, OwnReferenceGivenBack, NEW t \in Threads, Step(t)
  PROVE  ThreadOK(t)'
<1>1. /\ pc \in [Threads -> Sections] /\ status \in [Threads -> Statuses]
      /\ isInited \in [Threads -> BOOLEAN] /\ ThreadOK(t) /\ CountInv
  BY DEF HoldInv, LocalTypeOK
<1>2. CASE VisitorChecks(t)
  <2>1. pc'[t] \in {"use", "open"} /\ ~isInited'[t]
    BY <1>1, <1>2 DEF VisitorChecks, Goto
  <2>2. QED
    BY <2>1 DEF ThreadOK, InUse
<1>3. CASE VisitorUses(t)
  <2>1. pc'[t] \in {"deinit", "idle"}
    BY <1>1, <1>3 DEF VisitorUses, Goto
  <2>2. QED
    BY <2>1 DEF ThreadOK, InUse
<1>4. CASE HolderUses(t)
  <2>1. SeUse /\ UNCHANGED <<pc, status, isInited, refs>>
    BY <1>4 DEF HolderUses, local
  <2>2. gIsInitlized => gIsInitlized'
    BY <1>1, <2>1, UseCounts
  <2>3. QED
    BY <1>1, <2>1, <2>2 DEF ThreadOK, InUse
<1>5. CASE \/ OthersBegin(t) \/ HolderEnds(t) \/ LoaderOpens(t) \/ LoaderReadsMode(t)
           \/ DeInits(t) \/ DeInitCloses(t) \/ LoaderCloses(t) \/ LoaderGivesUp(t)
  <2>1. pc'[t] \notin {"init", "initClose", "hold", "use"}
    BY <1>1, <1>5 DEF OthersBegin, HolderEnds, LoaderOpens, LoaderReadsMode, DeInits,
      DeInitCloses, LoaderCloses, LoaderGivesUp, Goto
  <2>2. QED
    BY <2>1 DEF ThreadOK, InUse
<1>6. CASE Opens(t)
  <2>1. pc'[t] = "init"
    BY <1>1, <1>6 DEF Opens, Goto
  <2>2. status'[t] = "SUCCESS" => refs'[t] >= 1
    BY <1>1, <1>6, OpenCounts DEF Opens
  <2>3. QED
    BY <2>1, <2>2 DEF ThreadOK, InUse
<1>7. CASE Inits(t)
  <2>1. /\ pc[t] = "init" /\ UNCHANGED refs
        /\ status'[t] = "SUCCESS" => status[t] = "SUCCESS" /\ gIsInitlized'
    BY <1>1, <1>7, InitCounts DEF Inits
  <2>2. CASE gIsInitlized' /\ status'[t] = "SUCCESS"
    <3>1. pc'[t] \notin {"init", "initClose"}
      BY <1>1, <1>7, <2>2 DEF Inits, Goto, AfterInit
    <3>2. QED
      BY <1>1, <2>1, <2>2, <3>1 DEF ThreadOK, InUse
  <2>3. CASE gIsInitlized' /\ status'[t] # "SUCCESS"
    <3>1. pc'[t] \in {"deinit", "idle"}
      BY <1>1, <1>7, <2>3 DEF Inits, Goto, AfterInit
    <3>2. QED
      BY <3>1 DEF ThreadOK, InUse
  <2>4. CASE ~gIsInitlized'
    <3>1. pc'[t] = "initClose" /\ status'[t] # "SUCCESS"
      BY <1>1, <1>7, <2>1, <2>4 DEF Inits, Goto
    <3>2. QED
      BY <3>1 DEF ThreadOK, InUse
  <2>5. QED
    BY <2>2, <2>3, <2>4
<1>8. CASE InitCloses(t)
  <2>1. status[t] # "SUCCESS"
    BY <1>1, <1>8 DEF InitCloses, ThreadOK
  <2>2. pc'[t] \in {"deinit", "idle"}
    BY <1>1, <1>8, <2>1 DEF InitCloses, Goto, AfterInit
  <2>3. QED
    BY <2>2 DEF ThreadOK, InUse
<1>9. QED
  BY <1>2, <1>3, <1>4, <1>5, <1>6, <1>7, <1>8 DEF Step

\* What a section of one thread leaves alone is what another thread needs.
LEMMA OtherThreadStays ==
  ASSUME NEW t \in Threads, NEW u \in Threads \ {t}, ThreadOK(u), KeepsOthers(t),
         pc'[u] = pc[u], status'[u] = status[u], isInited'[u] = isInited[u]
  PROVE  ThreadOK(u)'
BY DEF ThreadOK, InUse, KeepsOthers

LEMMA HoldInvStep == HoldInv /\ [Next]_vars => HoldInv'
<1>1. ASSUME HoldInv, NEW t \in Threads, Step(t) PROVE HoldInv'
  <2>1. LibStep(t) /\ t \in DOMAIN status /\ CountInv
    BY <1>1, StepIsLibStep DEF HoldInv, LocalTypeOK
  <2>2. CountInv' /\ LocalTypeOK'
    BY <1>1, <2>1, LibStepKeepsCount, OwnLocals DEF HoldInv
  <2>3. ASSUME OwnReferenceGivenBack', NEW u \in Threads PROVE ThreadOK(u)'
    <3>1. OwnReferenceGivenBack /\ KeepsOthers(t)
      BY <2>1, <2>3, LibStepCounts
    <3>2. CASE u = t
      BY <1>1, <3>1, <3>2, MyThreadStays
    <3>3. CASE u # t
      <4>1. u \in Threads \ {t} /\ ThreadOK(u)
        BY <1>1, <3>1, <3>3 DEF HoldInv
      <4>2. pc'[u] = pc[u] /\ status'[u] = status[u] /\ isInited'[u] = isInited[u]
        BY <1>1, <4>1, OwnLocals DEF HoldInv
      <4>3. QED
        BY <3>1, <4>1, <4>2, OtherThreadStays
    <3>4. QED
      BY <3>2, <3>3
  <2>4. QED
    BY <2>2, <2>3 DEF HoldInv
<1>2. ASSUME HoldInv, UNCHANGED vars PROVE HoldInv'
  <2>1. CountInv'
    BY <1>2, LibUnchanged, CountSum, CountSumPrime
    DEF vars, lib, HoldInv, CountInv, RefsTypeOK, OwnReferenceGivenBack
  <2>2. LocalTypeOK' /\ (OwnReferenceGivenBack' => OwnReferenceGivenBack)
    BY <1>2 DEF vars, local, HoldInv, LocalTypeOK, OwnReferenceGivenBack
  <2>3. ASSUME NEW u \in Threads, ThreadOK(u) PROVE ThreadOK(u)'
    BY <1>2, <2>3 DEF vars, lib, local, ThreadOK, InUse
  <2>4. QED
    BY <1>2, <2>1, <2>2, <2>3 DEF HoldInv
<1>3. QED
  BY <1>1, <1>2 DEF Next

\* Nothing is counted and nothing held before the first call.
LEMMA CountInvInit == Init => CountInv
<1> SUFFICES ASSUME Init PROVE CountInv
  OBVIOUS
<1>1. refs = [t \in Threads |-> 0] /\ gSEOpenedCnt = 0
  BY DEF Init
<1>2. Sum(refs, Threads) = 0
  BY <1>1, SumOfZeros, SEApiAssumption
<1>3. QED
  BY <1>1, <1>2, CountSum, LibInvInit DEF CountInv, RefsTypeOK

LEMMA HoldInvInit == Init => HoldInv
<1> SUFFICES ASSUME Init PROVE HoldInv
  OBVIOUS
<1>1. LocalTypeOK
  BY DEF Init, LocalTypeOK, Sections, Statuses
<1>2. \A t \in Threads : ThreadOK(t)
  BY DEF Init, ThreadOK, InUse
<1>3. QED
  BY <1>1, <1>2, CountInvInit DEF HoldInv

LEMMA HoldInvAlways == Spec => []HoldInv
BY HoldInvInit, HoldInvStep, PTL DEF Spec

\* However many visitors, holders and loaders open, initialise, fail, end and
\* close in whatever order, as long as each gives back only what it took the
\* count of the library is the number of references they hold: no refused or
\* half-failed call loses one or counts one twice (SEApi.c:402-447).
THEOREM CountOfReferences == Spec => []CountIsReferences
<1>1. HoldInv => CountIsReferences
  BY DEF HoldInv, CountInv
<1>2. QED
  BY <1>1, HoldInvAlways, PTL

\* And a client that was told its initialisation succeeded keeps an open and
\* initialised library until it ends its use, although seInit and seDeInit
\* are several locked sections between which the others run.
THEOREM HolderAlwaysKeepsLibrary == Spec => []HolderKeepsLibrary
<1>1. HoldInv => HolderKeepsLibrary
  BY DEF HoldInv, CountInv, LibInv, OpenIffReferenced, HolderKeepsLibrary, ThreadOK, InUse
<1>2. QED
  BY <1>1, HoldInvAlways, PTL

-----------------------------------------------------------------------------
(***************************************************************************)
(* The same beside the secure element service.  Its client and its retry   *)
(* thread run the locked sections in orders of their own (SecureElement's  *)
(* todo), and never the programs of SEApi.                                 *)
(***************************************************************************)
WorkersIdle == \A w \in Workers : pc[w] = "idle"

ServiceHoldInv == HoldInv /\ WorkersIdle

\* A step of the service is at most one locked section, and touches the
\* locals of one thread.
WorkerStep(w) ==
  /\ LibStep(w)
  /\ UNCHANGED pc
  /\ UNCHANGED status \/ \E s \in Statuses : Return(w, s)
  /\ UNCHANGED isInited \/ \E b \in BOOLEAN : isInited' = [isInited EXCEPT ![w] = b]

LEMMA WorkersAreThreads == Workers \subseteq Threads /\ Client \in Workers /\ Retrier \in Workers
BY SecureElementAssumption DEF Workers, Threads, Normal

LEMMA QuietStep ==
  ASSUME UNCHANGED vars, NEW w \in Workers
  PROVE  WorkerStep(w)
BY DEF vars, lib, local, WorkerStep, LibStep

LEMMA LibrarySections ==
  ASSUME NEW w \in Workers, LibrarySection(w)
  PROVE  WorkerStep(w)
<1> USE WorkersAreThreads
<1>1. CASE OpenSection(w)
  BY <1>1, SectionReturns DEF OpenSection, Own, WorkerStep, LibStep
<1>2. CASE InitSection(w)
  BY <1>2, SectionReturns DEF InitSection, Own, WorkerStep, LibStep
<1>3. CASE InitCloseSection(w)
  BY <1>3 DEF InitCloseSection, Own, WorkerStep, LibStep
<1>4. CASE DeInitSection(w)
  BY <1>4 DEF DeInitSection, Own, WorkerStep, LibStep
<1>5. CASE DeInitCloseSection(w)
  BY <1>5 DEF DeInitCloseSection, Own, WorkerStep, LibStep, Statuses
<1>6. CASE SeResetSection(w)
  <2>1. SeUse /\ UNCHANGED <<pc, isInited, refs>> /\ (Return(w, "SUCCESS") \/ Return(w, "FAILED"))
    BY <1>6 DEF SeResetSection, Own
  <2>2. QED
    BY <2>1 DEF WorkerStep, LibStep, Statuses
<1>7. CASE Forget(w) \/ ResetChecks(w) \/ ResetDone(w)
  <2>1. UNCHANGED vars
    BY <1>7 DEF Forget, ResetChecks, ResetDone
  <2>2. QED
    BY <2>1, QuietStep
<1>8. QED
  BY <1>1, <1>2, <1>3, <1>4, <1>5, <1>6, <1>7 DEF LibrarySection

LEMMA Beginnings ==
  ASSUME NEW c, NEW a, Begins(c, a)
  PROVE  WorkerStep(Client)
<1>1. UNCHANGED <<lib, pc, status, refs>> /\ isInited' = [isInited EXCEPT ![Client] = ~gIsInitlized]
  BY DEF Begins
<1>2. (~gIsInitlized) \in BOOLEAN
  OBVIOUS
<1>3. QED
  BY <1>1, <1>2 DEF WorkerStep, LibStep

LEMMA Exchanges ==
  ASSUME Works \/ Fail \/ UNCHANGED lib, Local
  PROVE  WorkerStep(Client)
<1>1. SeUse \/ UNCHANGED lib
  BY DEF Works, Fail
<1>2. UNCHANGED <<pc, status, isInited, refs>>
  BY DEF Local, local
<1>3. QED
  BY <1>1, <1>2 DEF WorkerStep, LibStep

LEMMA ServiceSteps ==
  ASSUME Call \/ Continue \/ RetryThread
  PROVE  \E w \in Workers : WorkerStep(w)
<1> USE WorkersAreThreads
<1>1. CASE \/ Register \/ Reset \/ CloseChannel \/ Dies
           \/ InitEnd \/ InitedLogical \/ InitedBasic \/ Note \/ LogicalEnd
           \/ BasicFailed \/ BasicEnd \/ Uncount \/ Last \/ Unregister
           \/ Retry \/ RetryCheck \/ RetryEnd
  <2>1. UNCHANGED vars
    BY <1>1 DEF Register, Reset, CloseChannel, Dies, InitEnd, InitedLogical, InitedBasic,
      Note, LogicalEnd, BasicFailed, BasicEnd, Uncount, Last, Unregister,
      Retry, RetryCheck, RetryEnd
  <2>2. QED
    BY <2>1, QuietStep
<1>2. CASE Ready
  <2>1. isInited' = [isInited EXCEPT ![Client] = status[Client] = "SUCCESS"]
        /\ UNCHANGED <<lib, pc, status, refs>>
    BY <1>2 DEF Ready
  <2>2. (status[Client] = "SUCCESS") \in BOOLEAN
    OBVIOUS
  <2>3. WorkerStep(Client)
    BY <2>1, <2>2 DEF WorkerStep, LibStep
  <2>4. QED
    BY <2>3
<1>3. CASE GetAtr \/ OpenLogicalChannel \/ OpenBasicChannel
  BY <1>3, Beginnings, QuietStep DEF GetAtr, OpenLogicalChannel, OpenBasicChannel
<1>4. CASE Transmit \/ Manage \/ SelectLogical \/ SelectBasic \/ Close
  BY <1>4, Exchanges DEF Transmit, Manage, SelectLogical, SelectBasic, Close
<1>5. CASE LibrarySection(Client) \/ LibrarySection(Retrier)
  BY <1>5, LibrarySections
<1>6. QED
  BY <1>1, <1>2, <1>3, <1>4, <1>5 DEF Call, Continue, RetryThread

LEMMA WorkerKeepsHold ==
  ASSUME ServiceHoldInv, NEW w \in Workers, WorkerStep(w)
  PROVE  ServiceHoldInv'
<1>1. /\ w \in Threads /\ LibStep(w) /\ CountInv
      /\ pc \in [Threads -> Sections] /\ status \in [Threads -> Statuses]
      /\ isInited \in [Threads -> BOOLEAN] /\ w \in DOMAIN status
  BY WorkersAreThreads DEF ServiceHoldInv, HoldInv, LocalTypeOK, WorkerStep
<1>2. /\ pc' = pc
      /\ status' \in [Threads -> Statuses] /\ isInited' \in [Threads -> BOOLEAN]
      /\ \A u \in Threads \ {w} : status'[u] = status[u] /\ isInited'[u] = isInited[u]
  <2>1. pc' = pc
    BY DEF WorkerStep
  <2>2. status' \in [Threads -> Statuses] /\ \A u \in Threads \ {w} : status'[u] = status[u]
    BY <1>1 DEF WorkerStep, Return
  <2>3. isInited' \in [Threads -> BOOLEAN] /\ \A u \in Threads \ {w} : isInited'[u] = isInited[u]
    BY <1>1 DEF WorkerStep
  <2>4. QED
    BY <2>1, <2>2, <2>3
<1>3. CountInv' /\ LocalTypeOK'
  BY <1>1, <1>2, LibStepKeepsCount DEF LocalTypeOK
<1>4. WorkersIdle'
  BY <1>2 DEF ServiceHoldInv, WorkersIdle
<1>5. ASSUME OwnReferenceGivenBack', NEW u \in Threads PROVE ThreadOK(u)'
  <2>1. OwnReferenceGivenBack /\ KeepsOthers(w)
    BY <1>1, <1>5, LibStepCounts
  <2>2. CASE u = w
    BY <1>4, <2>2 DEF WorkersIdle, ThreadOK, InUse
  <2>3. CASE u # w
    <3>1. u \in Threads \ {w} /\ ThreadOK(u) /\ pc'[u] = pc[u]
      BY <1>2, <2>1, <2>3 DEF ServiceHoldInv, HoldInv
    <3>2. QED
      BY <1>1, <1>2, <2>1, <3>1, OtherThreadStays
  <2>4. QED
    BY <2>2, <2>3
<1>6. QED
  BY <1>3, <1>4, <1>5 DEF ServiceHoldInv, HoldInv

LEMMA ServiceHoldStep == ServiceHoldInv /\ [ServiceNext]_serviceVars => ServiceHoldInv'
<1>1. ASSUME ServiceHoldInv, Call \/ Continue \/ RetryThread PROVE ServiceHoldInv'
  BY <1>1, ServiceSteps, WorkerKeepsHold
<1>2. ASSUME ServiceHoldInv, NEW h \in Holders, Step(h) PROVE ServiceHoldInv'
  <2>1. h \in Threads /\ Workers \subseteq Threads \ {h}
    BY SecureElementAssumption, SEApiAssumption DEF Workers, Threads, Normal
  <2>2. HoldInv'
    BY <1>2, <2>1, HoldInvStep DEF ServiceHoldInv, Next
  <2>3. WorkersIdle'
    BY <1>2, <2>1, OwnLocals DEF ServiceHoldInv, HoldInv, WorkersIdle
  <2>4. QED
    BY <2>2, <2>3 DEF ServiceHoldInv
<1>3. ASSUME ServiceHoldInv, UNCHANGED serviceVars PROVE ServiceHoldInv'
  <2>1. UNCHANGED vars /\ UNCHANGED pc
    BY <1>3 DEF serviceVars, vars, local
  <2>2. HoldInv'
    BY <1>3, <2>1, HoldInvStep DEF ServiceHoldInv
  <2>3. QED
    BY <1>3, <2>1, <2>2 DEF ServiceHoldInv, WorkersIdle
<1>4. QED
  BY <1>1, <1>2, <1>3 DEF ServiceNext, Others

LEMMA ServiceHoldInit == ServiceInit => ServiceHoldInv
BY HoldInvInit, WorkersAreThreads DEF ServiceInit, Init, ServiceHoldInv, WorkersIdle

\* The service runs the locked sections of the library in orders of its own:
\* after a failed reset, on the death of its client, from the retry thread
\* beside a call, and for a library that another client initialised.  Whatever
\* it does, gives back too often or forgets, with any number of clients of
\* ITmsEse, the device is open exactly while the count says so, and no
\* descriptor is leaked or closed twice (SEApi.c:402-447).
THEOREM DeviceIsOpenInService == ServiceSpec => []OpenIffReferenced
<1>1. ServiceHoldInv => OpenIffReferenced
  BY DEF ServiceHoldInv, HoldInv, CountInv, LibInv
<1>2. ServiceSpec => []ServiceHoldInv
  BY ServiceHoldInit, ServiceHoldStep, PTL DEF ServiceSpec
<1>3. QED
  BY <1>1, <1>2, PTL

\* The clients of ITmsEse keep their library beside the secure element
\* service until somebody gives back a reference he did not take: by itself
\* no order of the unlocked sections takes it.  The service does give such
\* references back (OnDeath, and the last close of a client whose library was
\* initialised by another, SecureElement.cpp:192), and then they lose it.
THEOREM HolderKeepsLibraryInService == ServiceSpec => []HolderKeepsLibrary
<1>1. ServiceHoldInv => HolderKeepsLibrary
  BY DEF ServiceHoldInv, HoldInv, CountInv, LibInv, OpenIffReferenced, HolderKeepsLibrary, ThreadOK,
    InUse
<1>2. ServiceSpec => []ServiceHoldInv
  BY ServiceHoldInit, ServiceHoldStep, PTL DEF ServiceSpec
<1>3. QED
  BY <1>1, <1>2, PTL

-----------------------------------------------------------------------------
(***************************************************************************)
(* What the client of the service holds.                                   *)
(***************************************************************************)
\* The sections of the library, and those by which a call goes on or ends.
Within == {"open", "init", "initClose", "deinit", "deinitClose", "forget",
           "reset", "seReset", "resetDone"}

\* The sections a thread still has to run.
Left(w) == Range(todo[w])
Due(S) == \E s \in S : s \in Left(Client)

\* Sections after which nothing of a call is left, unless they decide it.
Final == {"manage", "select", "selectBasic", "basicFailed", "basicEnd", "logicalEnd",
          "close", "last", "initEnd", "unregister", "retry", "retryCheck", "retryEnd"}

ChannelSections == {"note", "select", "close", "uncount"}

Parts == Within \cup Final \cup ChannelSections
         \cup {"ready", "initedLogical", "initedBasic"}

EndsIn(p) == \A k \in DOMAIN p : p[k] \in Final => k = Len(p)

ChannelPrograms == {<<"note", "select">>, <<"select">>, <<"close">>, <<"uncount", "last">>}

ProgramOK(p) ==
  /\ p \in Seq(Parts) /\ EndsIn(p)
  /\ Range(p) \cap ChannelSections # {} => p \in ChannelPrograms

ProgramsOK == DOMAIN todo = Workers /\ \A w \in Workers : ProgramOK(todo[w])

LEMMA PopParts ==
  ASSUME NEW p \in Seq(Parts), p # <<>>, NEW n \in Seq(Parts)
  PROVE  /\ n \o Tail(p) \in Seq(Parts)
         /\ Head(p) \in Range(p)
         /\ Range(n \o Tail(p)) \subseteq Range(n) \cup Range(p)
         /\ EndsIn(p) /\ Range(n) \cap Final = {} => EndsIn(n \o Tail(p))
         /\ EndsIn(p) /\ Head(p) \in Final => n \o Tail(p) = n
<1> DEFINE q == n \o Tail(p)
<1>1. /\ Len(p) \in Nat /\ Len(p) >= 1 /\ DOMAIN p = 1..Len(p) /\ Head(p) = p[1]
      /\ Tail(p) \in Seq(Parts) /\ Len(Tail(p)) = Len(p) - 1
      /\ \A k \in 1..(Len(p) - 1) : Tail(p)[k] = p[k + 1]
  OBVIOUS
<1>2. /\ q \in Seq(Parts) /\ Len(n) \in Nat /\ DOMAIN n = 1..Len(n)
      /\ Len(q) = Len(n) + Len(p) - 1 /\ DOMAIN q = 1..Len(q)
      /\ \A k \in 1..Len(n) : q[k] = n[k]
      /\ \A k \in (Len(n) + 1)..Len(q) : q[k] = p[k - Len(n) + 1]
  BY <1>1
<1> HIDE DEF q
<1>3. Range(q) \subseteq Range(n) \cup Range(p)
  <2>1. ASSUME NEW k \in DOMAIN q
        PROVE  (\E j \in DOMAIN n : q[k] = n[j]) \/ \E j \in DOMAIN p : q[k] = p[j]
    <3>1. CASE k \in 1..Len(n)
      BY <1>2, <3>1
    <3>2. CASE k \notin 1..Len(n)
      <4>1. k \in (Len(n) + 1)..Len(q) /\ k - Len(n) + 1 \in 1..Len(p)
        BY <1>1, <1>2, <2>1, <3>2
      <4>2. QED
        BY <1>1, <1>2, <4>1
    <3>3. QED
      BY <3>1, <3>2
  <2>2. QED
    BY <2>1 DEF Range
<1>4. ASSUME EndsIn(p), Range(n) \cap Final = {} PROVE EndsIn(q)
  <2> SUFFICES ASSUME NEW k \in DOMAIN q, q[k] \in Final PROVE k = Len(q)
    BY DEF EndsIn
  <2>1. k \notin 1..Len(n)
    BY <1>2, <1>4 DEF Range
  <2>2. k \in (Len(n) + 1)..Len(q)
    BY <1>2, <2>1
  <2>3. k - Len(n) + 1 \in DOMAIN p /\ p[k - Len(n) + 1] \in Final
    BY <1>1, <1>2, <2>2
  <2>4. k - Len(n) + 1 = Len(p)
    BY <1>4, <2>3 DEF EndsIn
  <2>5. QED
    BY <1>1, <1>2, <2>2, <2>4
<1>5. ASSUME EndsIn(p), Head(p) \in Final PROVE q = n
  <2>1. Len(p) = 1
    BY <1>1, <1>5 DEF EndsIn
  <2>2. QED
    BY <1>1, <1>2, <2>1
<1>6. QED
  BY <1>1, <1>2, <1>3, <1>4, <1>5 DEF q, Range

LEMMA Tuples ==
  ASSUME NEW S, NEW a \in S, NEW b \in S, NEW c \in S
  PROVE  <<>> \in Seq(S) /\ <<a>> \in Seq(S) /\ <<a, b>> \in Seq(S) /\ <<a, b, c>> \in Seq(S)
<1>1. <<>> \in Seq(S) /\ <<a>> \in Seq(S)
  OBVIOUS
<1>2. <<a, b>> \in Seq(S)
  OBVIOUS
<1>3. <<a, b, c>> \in Seq(S)
  OBVIOUS
<1>4. QED
  BY <1>1, <1>2, <1>3

\* Programs of up to four sections.
LEMMA Short ==
  ASSUME NEW a \in Parts, NEW b \in Parts, NEW c \in Parts
  PROVE  /\ <<>> \in Seq(Parts) /\ Range(<<>>) = {}
         /\ <<a>> \in Seq(Parts) /\ Range(<<a>>) = {a}
         /\ <<a, b>> \in Seq(Parts) /\ Range(<<a, b>>) = {a, b}
         /\ <<a, b, c>> \in Seq(Parts) /\ Range(<<a, b, c>>) = {a, b, c}
<1>1. DOMAIN <<a>> = {1} /\ <<a>>[1] = a
  OBVIOUS
<1>2. DOMAIN <<a, b>> = {1, 2} /\ <<a, b>>[1] = a /\ <<a, b>>[2] = b
  OBVIOUS
<1>3. DOMAIN <<a, b, c>> = {1, 2, 3}
      /\ <<a, b, c>>[1] = a /\ <<a, b, c>>[2] = b /\ <<a, b, c>>[3] = c
  OBVIOUS
<1>4. Range(<<a>>) = {a}
  BY <1>1 DEF Range
<1>5. Range(<<a, b>>) = {a, b}
  BY <1>2 DEF Range
<1>6. Range(<<a, b, c>>) = {a, b, c}
  BY <1>3 DEF Range
<1>7. Range(<<>>) = {}
  BY DEF Range
<1>8. QED
  BY <1>4, <1>5, <1>6, <1>7, Tuples

LEMMA Four ==
  ASSUME NEW a \in Parts, NEW b \in Parts, NEW c \in Parts, NEW d \in Parts
  PROVE  <<a, b, c, d>> \in Seq(Parts) /\ Range(<<a, b, c, d>>) = {a, b, c, d}
<1>1. DOMAIN <<a, b, c, d>> = {1, 2, 3, 4}
      /\ <<a, b, c, d>>[1] = a /\ <<a, b, c, d>>[2] = b /\ <<a, b, c, d>>[3] = c
      /\ <<a, b, c, d>>[4] = d
  OBVIOUS
<1>2. Range(<<a, b, c, d>>) = {a, b, c, d}
  BY <1>1 DEF Range
<1>3. <<a, b, c, d>> \in Seq(Parts)
  OBVIOUS
<1>4. QED
  BY <1>2, <1>3

\* One that has no final section but at its end.
LEMMA ShortEnds ==
  ASSUME NEW a \in Parts, NEW b \in Parts
  PROVE  EndsIn(<<>>) /\ EndsIn(<<a>>) /\ (a \notin Final => EndsIn(<<a, b>>))
<1>1. DOMAIN <<a>> = {1} /\ Len(<<a>>) = 1
  OBVIOUS
<1>2. DOMAIN <<a, b>> = {1, 2} /\ Len(<<a, b>>) = 2 /\ <<a, b>>[1] = a
  OBVIOUS
<1>3. EndsIn(<<>>)
  BY DEF EndsIn
<1>4. EndsIn(<<a>>)
  BY <1>1 DEF EndsIn
<1>5. ASSUME a \notin Final PROVE EndsIn(<<a, b>>)
  BY <1>2, <1>5 DEF EndsIn
<1>6. QED
  BY <1>3, <1>4, <1>5

LEMMA One ==
  ASSUME NEW a \in Parts
  PROVE  <<a>> \in Seq(Parts) /\ Range(<<a>>) = {a} /\ EndsIn(<<a>>)
BY Short, ShortEnds

LEMMA Joined ==
  ASSUME NEW p \in Seq(Parts), NEW q \in Seq(Parts)
  PROVE  /\ p \o q \in Seq(Parts) /\ Range(p \o q) = Range(p) \cup Range(q)
         /\ Range(p) \cap Final = {} /\ EndsIn(q) => EndsIn(p \o q)
<1> DEFINE r == p \o q
<1>1. /\ Len(p) \in Nat /\ Len(q) \in Nat /\ DOMAIN p = 1..Len(p) /\ DOMAIN q = 1..Len(q)
      /\ r \in Seq(Parts) /\ Len(r) = Len(p) + Len(q) /\ DOMAIN r = 1..Len(r)
      /\ \A k \in 1..Len(p) : r[k] = p[k]
      /\ \A k \in (Len(p) + 1)..Len(r) : r[k] = q[k - Len(p)]
  OBVIOUS
<1> HIDE DEF r
<1>2. \A k \in 1..Len(q) : k + Len(p) \in 1..Len(r) /\ r[k + Len(p)] = q[k]
  BY <1>1
<1>3. Range(r) = Range(p) \cup Range(q)
  <2>1. Range(r) \subseteq Range(p) \cup Range(q)
    <3>1. ASSUME NEW k \in DOMAIN r
          PROVE  (\E j \in DOMAIN p : r[k] = p[j]) \/ \E j \in DOMAIN q : r[k] = q[j]
      <4>1. CASE k \in 1..Len(p)
        BY <1>1, <4>1
      <4>2. CASE k \notin 1..Len(p)
        <5>1. k \in (Len(p) + 1)..Len(r) /\ k - Len(p) \in 1..Len(q)
          BY <1>1, <3>1, <4>2
        <5>2. QED
          BY <1>1, <5>1
      <4>3. QED
        BY <4>1, <4>2
    <3>2. QED
      BY <3>1 DEF Range
  <2>2. Range(p) \subseteq Range(r)
    <3>1. \A k \in DOMAIN p : k \in DOMAIN r /\ p[k] = r[k]
      BY <1>1
    <3>2. QED
      BY <3>1 DEF Range
  <2>3. Range(q) \subseteq Range(r)
    <3>1. \A k \in DOMAIN q : k + Len(p) \in DOMAIN r /\ q[k] = r[k + Len(p)]
      BY <1>1, <1>2
    <3>2. QED
      BY <3>1 DEF Range
  <2>4. QED
    BY <2>1, <2>2, <2>3
<1>4. ASSUME Range(p) \cap Final = {}, EndsIn(q) PROVE EndsIn(r)
  <2> SUFFICES ASSUME NEW k \in DOMAIN r, r[k] \in Final PROVE k = Len(r)
    BY DEF EndsIn
  <2>1. k \in (Len(p) + 1)..Len(r)
    BY <1>1, <1>4 DEF Range
  <2>2. k - Len(p) \in DOMAIN q /\ q[k - Len(p)] \in Final
    BY <1>1, <2>1
  <2>3. k - Len(p) = Len(q)
    BY <1>4, <2>2 DEF EndsIn
  <2>4. QED
    BY <1>1, <2>1, <2>3
<1>5. QED
  BY <1>1, <1>3, <1>4 DEF r

\* Thread w goes on with n instead of section s.
LEMMA Pops ==
  ASSUME ProgramsOK, NEW w \in Workers, NEW s, At(w, s), s \notin ChannelSections,
         NEW n \in Seq(Parts), Then(w, n), Range(n) \cap (Final \cup ChannelSections) = {}
  PROVE  /\ ProgramsOK' /\ s \in Left(w)
         /\ Left(w) \cap ChannelSections = {}
         /\ Left(w)' \subseteq Left(w) \cup Range(n)
         /\ \A u \in Workers \ {w} : Left(u)' = Left(u)
<1> DEFINE p == todo[w]
           q == n \o Tail(p)
<1>1. p \in Seq(Parts) /\ p # <<>> /\ Head(p) = s /\ EndsIn(p) /\ todo' = [todo EXCEPT ![w] = q]
  BY DEF ProgramsOK, ProgramOK, At, Then
<1>2. todo'[w] = q /\ \A u \in Workers \ {w} : todo'[u] = todo[u]
  BY <1>1 DEF ProgramsOK
<1>3. /\ q \in Seq(Parts) /\ s \in Range(p) /\ Range(q) \subseteq Range(n) \cup Range(p)
      /\ EndsIn(q)
  <2>1. Range(n) \cap Final = {}
    OBVIOUS
  <2>2. QED
    BY <1>1, <2>1, PopParts
<1>4. Range(p) \cap ChannelSections = {}
  <2>1. ASSUME p \in ChannelPrograms PROVE Head(p) \in ChannelSections
    BY <2>1 DEF ChannelPrograms, ChannelSections
  <2>2. QED
    BY <1>1, <2>1 DEF ProgramsOK, ProgramOK
<1>5. ProgramOK(q)
  BY <1>3, <1>4 DEF ProgramOK
<1>6. ProgramsOK'
  BY <1>1, <1>2, <1>5 DEF ProgramsOK
<1>7. QED
  BY <1>2, <1>3, <1>4, <1>6 DEF Left

\* After a final section the call goes on with n alone.
LEMMA Ends ==
  ASSUME ProgramsOK, NEW w \in Workers, NEW s \in Final, At(w, s), NEW n, ProgramOK(n), Then(w, n)
  PROVE  /\ ProgramsOK' /\ Left(w) = {s} /\ Left(w)' = Range(n) /\ todo'[w] = n
         /\ \A u \in Workers \ {w} : Left(u)' = Left(u)
<1> DEFINE p == todo[w]
<1>1. p \in Seq(Parts) /\ p # <<>> /\ Head(p) = s /\ EndsIn(p) /\ n \in Seq(Parts)
  BY DEF ProgramsOK, ProgramOK, At
<1>2. n \o Tail(p) = n
  BY <1>1, PopParts
<1>3. todo' = [todo EXCEPT ![w] = n]
  BY <1>2 DEF Then
<1>4. todo'[w] = n /\ \A u \in Workers \ {w} : todo'[u] = todo[u]
  BY <1>3 DEF ProgramsOK
<1>5. DOMAIN p = 1..Len(p) /\ Len(p) \in Nat /\ Len(p) >= 1 /\ p[1] = s
  BY <1>1
<1>6. Len(p) = 1
  BY <1>5 DEF EndsIn, ProgramsOK, ProgramOK
<1>7. Range(p) = {s}
  <2>1. DOMAIN p = {1} /\ p[1] = s
    BY <1>5, <1>6
  <2>2. QED
    BY <2>1 DEF Range
<1>8. ProgramsOK'
  BY <1>3, <1>4 DEF ProgramsOK
<1>9. QED
  BY <1>4, <1>7, <1>8 DEF Left

\* An idle client starts a call.
LEMMA Starts ==
  ASSUME ProgramsOK, Idle, NEW n, ProgramOK(n), Start(n)
  PROVE  /\ ProgramsOK' /\ Left(Client) = {} /\ Left(Client)' = Range(n)
         /\ Left(Retrier)' = Left(Retrier)
<1>1. Client \in Workers /\ Retrier \in Workers /\ Client # Retrier
  BY SecureElementAssumption DEF Workers
<1>2. todo' = [todo EXCEPT ![Client] = n]
  BY DEF Start
<1>3. todo'[Client] = n /\ \A u \in Workers \ {Client} : todo'[u] = todo[u]
  BY <1>1, <1>2 DEF ProgramsOK
<1>4. ProgramsOK'
  BY <1>2, <1>3 DEF ProgramsOK
<1>5. Range(todo[Client]) = {}
  BY DEF Idle, Range
<1>6. QED
  BY <1>1, <1>3, <1>4, <1>5 DEF Left

-----------------------------------------------------------------------------
\* Sections in which the library is taken down or not yet up.
Leaving  == {"deinit", "deinitClose", "forget", "unregister"}
Entering == {"open", "init", "initClose", "ready", "initEnd"}
\* Those of a call that may have initialised it.
Opening  == {"initedLogical", "initedBasic", "manage", "selectBasic", "basicFailed"}

ServedTypeOK ==
  /\ ProgramsOK
  /\ mOpenedchannelCount \in 0..255 /\ mOpenedChannels \subseteq Channels
  /\ cardChannels \subseteq Channels /\ channel \in Channels

\* While the retry thread runs, the client is not served and starts no call;
\* if it dies, its channels go with it.
RetryingOK ==
  /\ Left(Retrier) # {} => mIsRunning
  /\ mIsRunning => held = {} /\ Left(Client) \subseteq Leaving

\* The channel that is being opened is not one the client holds, and the one
\* that is being closed is not any more.
ChannelOK ==
  /\ Due({"note", "select"}) => channel \in cardChannels \ (held \cup {BasicChannel})
  /\ Due({"select"}) /\ ~Due({"note"}) => channel \in mOpenedChannels
  /\ Due({"close"}) => channel \notin held /\ (channel = BasicChannel => channel \in mOpenedChannels)
  /\ Due({"uncount"}) => channel \in mOpenedChannels \ held
  /\ Due({"selectBasic", "basicFailed"}) => BasicChannel \notin held
  /\ Due({"manage", "note", "selectBasic"}) => mOpenedchannelCount < 255

\* What the client holds is marked, counted and open in the card, and it
\* holds nothing wherever the library may go down.
HeldOK ==
  /\ held \subseteq mOpenedChannels /\ held \ {BasicChannel} \subseteq cardChannels
  /\ held # {} => gIsInitlized
  /\ Due(Leaving \cup Entering \cup {"resetDone"}) => held = {}
  /\ Due(Opening) /\ isInited[Client] => held = {}

CountCovers == Cardinality(mOpenedChannels) <= mOpenedchannelCount

ServedInv == ServedTypeOK /\ RetryingOK /\ ChannelOK /\ HeldOK /\ CountCovers

\* What the theorem assumes of the client and its process.
Alone == Careful /\ Patient /\ Holders = {}

LEMMA TheWorkers ==
  /\ Workers = {Client, Retrier} /\ Client \in Workers /\ Retrier \in Workers
  /\ Client # Retrier /\ Client \in Threads
BY SecureElementAssumption DEF Workers, Threads, Normal

LEMMA TheChannels ==
  /\ IsFiniteSet(Channels) /\ BasicChannel \in Channels /\ Cardinality({}) = 0
  /\ MaxCounted \in 1..255
<1>1. Channels \in SUBSET Nat /\ 3 \in Nat /\ \A c \in Channels : c <= 3
  BY SecureElementAssumption
<1>2. IsFiniteSet(Channels)
  BY <1>1, FS_BoundedSetOfNaturals
<1>3. QED
  BY <1>2, FS_EmptySet, SecureElementAssumption DEF BasicChannel

\* A library that is initialised stays so in an exchange.
LEMMA UseStays ==
  ASSUME LibInv, SeUse
  PROVE  gIsInitlized => gIsInitlized'
BY DEF LibInv, OpenIffReferenced, SeUse

\* A section of the library that takes nothing from a client with a channel.
Harmless(w, s, n) ==
  /\ At(w, s) /\ Then(w, n)
  /\ Range(n) \subseteq {"open", "init", "initClose", "seReset", "resetDone"}
  /\ s \notin Leaving \/ Range(n) = {}
  /\ UNCHANGED <<channel, mIsRunning, isInited>>
  /\ \/ held' = {} /\ cardChannels' \subseteq Channels
     \/ /\ UNCHANGED <<held, cardChannels>> /\ (gIsInitlized => gIsInitlized')
        /\ Range(n) \subseteq {"seReset"}
  /\ UNCHANGED channels \/ (held' = {} /\ NoChannels)

LEMMA LibraryKeeps ==
  ASSUME ServedInv, NEW w \in Workers, NEW s \in Within, NEW n \in Seq(Parts), Harmless(w, s, n)
  PROVE  ServedInv'
<1> USE DEF Harmless
<1>1. ProgramsOK
  BY DEF ServedInv, ServedTypeOK
<1>2. s \notin ChannelSections /\ Range(n) \cap (Final \cup ChannelSections) = {}
  BY DEF Within, ChannelSections, Final
<1>3. /\ ProgramsOK' /\ s \in Left(w) /\ Left(w) \cap ChannelSections = {}
      /\ Left(w)' \subseteq Left(w) \cup Range(n)
      /\ \A u \in Workers \ {w} : Left(u)' = Left(u)
  BY <1>1, <1>2, Pops
<1>4. /\ Left(Client)' \subseteq Left(Client) \cup Range(n)
      /\ Left(Client)' \cap ChannelSections = {}
      /\ Left(Retrier)' # {} => mIsRunning
      /\ mIsRunning => held = {} /\ Left(Client)' \subseteq Leaving
  <2>1. CASE w = Client
    <3>1. mIsRunning => s \in Leaving /\ Left(Client) \subseteq Leaving /\ held = {}
      BY <1>3, <2>1 DEF ServedInv, RetryingOK
    <3>2. Left(Retrier)' = Left(Retrier)
      BY <1>3, <2>1, TheWorkers
    <3>3. QED
      BY <1>2, <1>3, <2>1, <3>1, <3>2 DEF ServedInv, RetryingOK
  <2>2. CASE w = Retrier
    <3>1. mIsRunning /\ held = {} /\ Left(Client) \subseteq Leaving
      BY <1>3, <2>2 DEF ServedInv, RetryingOK
    <3>2. Left(Client)' = Left(Client)
      BY <1>3, <2>2, TheWorkers
    <3>3. QED
      BY <3>1, <3>2 DEF Leaving, ChannelSections
  <2>3. QED
    BY <2>1, <2>2, TheWorkers
<1>5. mOpenedChannels' \subseteq mOpenedChannels /\ mOpenedchannelCount' \in 0..255
      /\ mOpenedchannelCount' <= mOpenedchannelCount
      /\ (held' # {} => UNCHANGED channels)
  <2>1. CASE UNCHANGED channels
    BY <2>1 DEF channels, ServedInv, ServedTypeOK
  <2>2. CASE held' = {} /\ NoChannels
    BY <2>2 DEF NoChannels, ServedInv, ServedTypeOK
  <2>3. QED
    BY <2>1, <2>2
<1>6. ServedTypeOK'
  BY <1>3, <1>5 DEF ServedInv, ServedTypeOK
<1>7. RetryingOK'
  BY <1>4 DEF RetryingOK
<1>8. ChannelOK'
  <2>1. ~Due({"note", "select"})' /\ ~Due({"select"})' /\ ~Due({"close"})' /\ ~Due({"uncount"})'
        /\ ~Due({"note"})'
    BY <1>4 DEF Due, ChannelSections
  <2>2. Due({"selectBasic", "basicFailed"})' => Due({"selectBasic", "basicFailed"})
    BY <1>4 DEF Due
  <2>3. Due({"manage", "note", "selectBasic"})' => Due({"manage", "note", "selectBasic"})
    BY <1>4 DEF Due
  <2>4. mOpenedchannelCount < 255 => mOpenedchannelCount' < 255
    BY <1>5 DEF ServedInv, ServedTypeOK
  <2>5. QED
    BY <2>1, <2>2, <2>3, <2>4 DEF ServedInv, ChannelOK
<1>9. HeldOK'
  <2>1. CASE held' = {}
    BY <2>1, <1>5 DEF HeldOK
  <2>2. CASE held' # {}
    <3>1. UNCHANGED <<held, cardChannels, mOpenedChannels, isInited>>
          /\ (gIsInitlized => gIsInitlized') /\ Range(n) \subseteq {"seReset"}
      BY <1>5, <2>2 DEF channels
    <3>2. \A S : "seReset" \notin S /\ Due(S)' => Due(S)
      BY <1>4, <3>1 DEF Due
    <3>3. "seReset" \notin Leaving \cup Entering \cup {"resetDone"} /\ "seReset" \notin Opening
      BY DEF Leaving, Entering, Opening
    <3>4. QED
      BY <3>1, <3>2, <3>3 DEF ServedInv, HeldOK
  <2>3. QED
    BY <2>1, <2>2
<1>10. CountCovers'
  <2>1. CASE UNCHANGED channels
    BY <2>1 DEF channels, ServedInv, CountCovers
  <2>2. CASE held' = {} /\ NoChannels
    BY <2>2, TheChannels DEF NoChannels, CountCovers
  <2>3. QED
    BY <2>1, <2>2
<1>11. QED
  BY <1>6, <1>7, <1>8, <1>9, <1>10 DEF ServedInv

\* Where the library may go down nothing is held, by whichever thread.
LEMMA NothingHeld ==
  ASSUME ServedInv, NEW w \in Workers, NEW s, At(w, s),
         w = Retrier \/ s \in Leaving \cup Entering \cup {"resetDone"}
  PROVE  held = {}
<1>1. todo[w] \in Seq(Parts) /\ todo[w] # <<>> /\ Head(todo[w]) = s
  BY DEF ServedInv, ServedTypeOK, ProgramsOK, ProgramOK, At
<1>2. s \in Left(w)
  BY <1>1, PopParts DEF Left
<1>3. QED
  BY <1>2, TheWorkers DEF ServedInv, RetryingOK, HeldOK, Due

\* The programs the sections share.
LEMMA Bodies ==
  /\ <<>> \in Seq(Parts) /\ Range(<<>>) = {}
  /\ SeHalInit \in Seq(Parts) /\ Range(SeHalInit) = {"open", "init"}
  /\ SeHalDeInit \in Seq(Parts) /\ Range(SeHalDeInit) = {"deinit", "deinitClose", "forget"}
  /\ SeHalResetSe \in Seq(Parts) /\ Range(SeHalResetSe) = {"reset"}
<1>1. {"open", "init", "deinit", "deinitClose", "forget", "reset"} \subseteq Parts
  BY DEF Parts, Within
<1>2. SeHalInit \in Seq(Parts) /\ Range(SeHalInit) = {"open", "init"}
  BY <1>1, Short DEF SeHalInit
<1>3. SeHalDeInit \in Seq(Parts) /\ Range(SeHalDeInit) = {"deinit", "deinitClose", "forget"}
  <2>1. \A a, b, c \in Parts : <<a, b, c>> \in Seq(Parts) /\ Range(<<a, b, c>>) = {a, b, c}
    BY Short
  <2>2. QED
    BY ONLY <1>1, <2>1 DEF SeHalDeInit
<1>4. SeHalResetSe \in Seq(Parts) /\ Range(SeHalResetSe) = {"reset"}
  BY <1>1, Short DEF SeHalResetSe
<1>5. QED
  BY <1>1, <1>2, <1>3, <1>4, Short

LEMMA JoinedPrograms ==
  ASSUME NEW p \in Seq(Parts), Range(p) \cap (Final \cup ChannelSections) = {},
         NEW q \in Seq(Parts), EndsIn(q), Range(q) \cap ChannelSections = {}
  PROVE  ProgramOK(p \o q) /\ Range(p \o q) = Range(p) \cup Range(q)
<1>1. Range(p) \cap Final = {} /\ Range(p) \cap ChannelSections = {}
  OBVIOUS
<1>2. p \o q \in Seq(Parts) /\ Range(p \o q) = Range(p) \cup Range(q) /\ EndsIn(p \o q)
  BY <1>1, Joined
<1>3. QED
  BY <1>1, <1>2 DEF ProgramOK

LEMMA LibrarySectionKeeps ==
  ASSUME ServedInv, LibInv, NEW w \in Workers, LibrarySection(w)
  PROVE  ServedInv'
<1>0. /\ {"initClose", "seReset", "resetDone"} \subseteq Parts
      /\ cardChannels \subseteq Channels
      /\ Leaving \cap {"init", "reset", "seReset"} = {}
  BY DEF Parts, Within, Leaving, ServedInv, ServedTypeOK
<1> DEFINE Sure(n) == n \in Seq(Parts) /\ Range(n) \subseteq {"open", "init", "initClose", "seReset", "resetDone"}
<1>a. Sure(<<>>) /\ Sure(<<"initClose">>) /\ Sure(<<"seReset">>) /\ Sure(<<"resetDone">>)
      /\ Range(<<"seReset">>) = {"seReset"} /\ Range(<<>>) = {}
  <2>1. ASSUME NEW a \in {"initClose", "seReset", "resetDone"} PROVE Sure(<<a>>) /\ Range(<<a>>) = {a}
    BY <1>0, <2>1, One
  <2>2. QED
    BY <2>1, Bodies
<1>b. Sure(SeHalInit \o <<"seReset">>)
  <2>1. SeHalInit \o <<"seReset">> \in Seq(Parts)
        /\ Range(SeHalInit \o <<"seReset">>) = Range(SeHalInit) \cup Range(<<"seReset">>)
    BY <1>a, Bodies, Joined
  <2>2. QED
    BY <1>a, <2>1, Bodies
<1> HIDE DEF Sure
<1>1. CASE OpenSection(w)
  <2>1. At(w, "open") /\ Then(w, <<>>) /\ UNCHANGED <<channel, mIsRunning, isInited, channels, cardChannels, held>>
    BY <1>1 DEF OpenSection, service, retry
  <2>2. held = {} /\ "open" \in Within
    BY <2>1, NothingHeld DEF Entering, Within
  <2>3. Harmless(w, "open", <<>>)
    BY <1>0, <1>a, <2>1, <2>2 DEF Sure, Harmless
  <2>4. QED
    BY <1>a, <1>b, <2>3, LibraryKeeps DEF Sure, Within
<1>2. CASE InitSection(w)
  <2>1. At(w, "init") /\ (Then(w, <<>>) \/ Then(w, <<"initClose">>))
        /\ UNCHANGED <<channel, mIsRunning, isInited, channels, cardChannels, held>>
    BY <1>2 DEF InitSection, service, retry
  <2>2. held = {} /\ "init" \in Within
    BY <2>1, NothingHeld DEF Entering, Within
  <2>3. Harmless(w, "init", <<>>) \/ Harmless(w, "init", <<"initClose">>)
    BY <1>0, <1>a, <2>1, <2>2 DEF Sure, Harmless
  <2>4. QED
    BY <1>a, <1>b, <2>3, LibraryKeeps DEF Sure, Within
<1>3. CASE InitCloseSection(w)
  <2>1. At(w, "initClose") /\ Then(w, <<>>)
        /\ UNCHANGED <<channel, mIsRunning, isInited, channels, cardChannels, held>>
    BY <1>3 DEF InitCloseSection, service, retry
  <2>2. held = {} /\ "initClose" \in Within
    BY <2>1, NothingHeld DEF Entering, Within
  <2>3. Harmless(w, "initClose", <<>>)
    BY <1>0, <1>a, <2>1, <2>2 DEF Sure, Harmless
  <2>4. QED
    BY <1>a, <1>b, <2>3, LibraryKeeps DEF Sure, Within
<1>4. CASE DeInitSection(w)
  <2>1. At(w, "deinit") /\ Then(w, <<>>) /\ cardChannels' = {}
        /\ UNCHANGED <<channel, mIsRunning, isInited, channels, held>>
    BY <1>4 DEF DeInitSection, retry
  <2>2. held = {} /\ "deinit" \in Within
    BY <2>1, NothingHeld DEF Leaving, Within
  <2>3. Harmless(w, "deinit", <<>>)
    BY <1>0, <1>a, <2>1, <2>2 DEF Sure, Harmless
  <2>4. QED
    BY <1>a, <1>b, <2>3, LibraryKeeps DEF Sure, Within
<1>5. CASE DeInitCloseSection(w)
  <2>1. At(w, "deinitClose") /\ Then(w, <<>>)
        /\ UNCHANGED <<channel, mIsRunning, isInited, channels, cardChannels, held>>
    BY <1>5 DEF DeInitCloseSection, service, retry
  <2>2. held = {} /\ "deinitClose" \in Within
    BY <2>1, NothingHeld DEF Leaving, Within
  <2>3. Harmless(w, "deinitClose", <<>>)
    BY <1>0, <1>a, <2>1, <2>2 DEF Sure, Harmless
  <2>4. QED
    BY <1>a, <1>b, <2>3, LibraryKeeps DEF Sure, Within
<1>6. CASE Forget(w)
  <2>1. At(w, "forget") /\ Then(w, <<>>) /\ (NoChannels \/ UNCHANGED channels)
        /\ UNCHANGED <<channel, mIsRunning, isInited, cardChannels, held>>
    BY <1>6 DEF Forget, retry, vars, local
  <2>2. held = {} /\ "forget" \in Within
    BY <2>1, NothingHeld DEF Leaving, Within
  <2>3. Harmless(w, "forget", <<>>)
    BY <1>0, <1>a, <2>1, <2>2 DEF Sure, Harmless
  <2>4. QED
    BY <1>a, <1>b, <2>3, LibraryKeeps DEF Sure, Within
<1>7. CASE ResetChecks(w)
  <2>1. At(w, "reset") /\ "reset" \in Within
        /\ Then(w, IF gIsInitlized THEN <<"seReset">> ELSE SeHalInit \o <<"seReset">>)
        /\ UNCHANGED <<channel, mIsRunning, isInited, channels, cardChannels, held, gIsInitlized>>
    BY <1>7 DEF ResetChecks, service, retry, vars, local, lib, Within
  <2>2. CASE gIsInitlized
    <3>1. Then(w, <<"seReset">>)
      BY <2>1, <2>2
    <3>2. gIsInitlized => gIsInitlized'
      BY <2>1
    <3>3. Harmless(w, "reset", <<"seReset">>)
      BY <1>0, <1>a, <2>1, <3>1, <3>2 DEF Sure, Harmless
    <3>4. QED
      BY <1>a, <1>b, <3>3, LibraryKeeps DEF Sure, Within
  <2>3. CASE ~gIsInitlized
    <3>1. Then(w, SeHalInit \o <<"seReset">>) /\ held = {}
      BY <2>1, <2>3 DEF ServedInv, HeldOK
    <3>2. held' = {} /\ cardChannels' \subseteq Channels /\ "reset" \notin Leaving
      BY <1>0, <2>1, <3>1
    <3>3. Harmless(w, "reset", SeHalInit \o <<"seReset">>)
      BY <1>b, <2>1, <3>1, <3>2 DEF Sure, Harmless
    <3>4. QED
      BY <1>a, <1>b, <3>3, LibraryKeeps DEF Sure, Within
  <2>4. QED
    BY <2>2, <2>3
<1>8. CASE SeResetSection(w)
  <2>1. At(w, "seReset") /\ Then(w, <<"resetDone">>) /\ held' = {} /\ "seReset" \in Within
        /\ (cardChannels' = {} \/ UNCHANGED cardChannels)
        /\ UNCHANGED <<channel, mIsRunning, isInited, channels>>
    BY <1>8 DEF SeResetSection, retry, Within
  <2>2. cardChannels' \subseteq Channels /\ "seReset" \notin Leaving
    BY <1>0, <2>1
  <2>3. Harmless(w, "seReset", <<"resetDone">>)
    BY <1>a, <2>1, <2>2 DEF Sure, Harmless
  <2>4. QED
    BY <1>a, <1>b, <2>3, LibraryKeeps DEF Sure, Within
<1>9. CASE ResetDone(w)
  <2>1. At(w, "resetDone") /\ Then(w, <<>>) /\ (NoChannels \/ UNCHANGED channels)
        /\ UNCHANGED <<channel, mIsRunning, isInited, cardChannels, held>>
    BY <1>9 DEF ResetDone, retry, vars, local
  <2>2. held = {} /\ "resetDone" \in Within
    BY <2>1, NothingHeld DEF Within
  <2>3. Harmless(w, "resetDone", <<>>)
    BY <1>0, <1>a, <2>1, <2>2 DEF Sure, Harmless
  <2>4. QED
    BY <1>a, <1>b, <2>3, LibraryKeeps DEF Sure, Within
<1>10. QED
  BY <1>1, <1>2, <1>3, <1>4, <1>5, <1>6, <1>7, <1>8, <1>9 DEF LibrarySection

\* The retry thread counts, and leaves when it is done.
LEMMA RetryKeeps ==
  ASSUME ServedInv, LibInv, RetryThread
  PROVE  ServedInv'
<1>1. ProgramsOK /\ Retrier \in Workers /\ Client \in Workers /\ Client # Retrier
  BY TheWorkers DEF ServedInv, ServedTypeOK
<1>2. CASE LibrarySection(Retrier)
  BY <1>1, <1>2, LibrarySectionKeeps
<1>3. CASE Retry \/ RetryCheck \/ RetryEnd
  <2>1. PICK s \in {"retry", "retryCheck", "retryEnd"},
               n \in { SeHalResetSe \o <<"retryCheck">>, <<"retryEnd">>,
                       SeHalDeInit \o <<"retryEnd">>, <<"retry">>, <<>> } :
          /\ At(Retrier, s) /\ Then(Retrier, n)
          /\ UNCHANGED <<vars, channels, channel, cardChannels, held>>
          /\ mIsRunning' = mIsRunning \/ (n = <<>> /\ mIsRunning' = FALSE)
    BY <1>3 DEF Retry, RetryCheck, RetryEnd
  <2>2. ProgramOK(n) /\ (n = <<>> => Range(n) = {})
    <3>1. {"retryCheck", "retryEnd", "retry"} \subseteq Parts
      BY DEF Parts, Final
    <3>2. /\ <<"retryCheck">> \in Seq(Parts) /\ Range(<<"retryCheck">>) = {"retryCheck"} /\ EndsIn(<<"retryCheck">>)
          /\ <<"retryEnd">> \in Seq(Parts) /\ Range(<<"retryEnd">>) = {"retryEnd"} /\ EndsIn(<<"retryEnd">>)
          /\ <<"retry">> \in Seq(Parts) /\ Range(<<"retry">>) = {"retry"} /\ EndsIn(<<"retry">>)
          /\ <<>> \in Seq(Parts) /\ Range(<<>>) = {} /\ EndsIn(<<>>)
      BY <3>1, Short, ShortEnds
    <3>3. /\ Range(SeHalResetSe) \cap (Final \cup ChannelSections) = {}
          /\ Range(SeHalDeInit) \cap (Final \cup ChannelSections) = {}
          /\ SeHalResetSe \in Seq(Parts) /\ SeHalDeInit \in Seq(Parts)
      BY Bodies DEF Final, ChannelSections
    <3>5. ProgramOK(<<"retryEnd">>) /\ ProgramOK(<<"retry">>) /\ ProgramOK(<<>>)
      BY <3>2 DEF ProgramOK, ChannelSections
    <3>6. QED
      <4>1. Range(<<"retryCheck">>) \cap ChannelSections = {} /\ Range(<<"retryEnd">>) \cap ChannelSections = {}
        BY <3>2 DEF ChannelSections
      <4>2. ProgramOK(SeHalResetSe \o <<"retryCheck">>)
        BY <3>2, <3>3, <4>1, JoinedPrograms
      <4>3. ProgramOK(SeHalDeInit \o <<"retryEnd">>)
        BY <3>2, <3>3, <4>1, JoinedPrograms
      <4>4. QED
        BY <2>1, <3>2, <3>5, <4>2, <4>3
  <2>3. /\ ProgramsOK' /\ Left(Retrier) = {s} /\ Left(Retrier)' = Range(n)
        /\ Left(Client)' = Left(Client)
    BY <1>1, <2>1, <2>2, Ends DEF Final
  <2>4. mIsRunning /\ held = {} /\ Left(Client) \subseteq Leaving
    BY <2>3 DEF ServedInv, RetryingOK
  <2>5. /\ UNCHANGED <<mOpenedchannelCount, mOpenedChannels, channel, cardChannels, held,
                       gIsInitlized, isInited>>
    BY <2>1 DEF vars, lib, local, channels
  <2>6. ServedTypeOK' /\ CountCovers'
    BY <2>3, <2>5 DEF ServedInv, ServedTypeOK, CountCovers
  <2>7. RetryingOK'
    BY <2>1, <2>2, <2>3, <2>4, <2>5 DEF RetryingOK
  <2>8. \A S : Due(S)' <=> Due(S)
    BY <2>3 DEF Due
  <2>9. ChannelOK' /\ HeldOK'
    BY <2>5, <2>8 DEF ServedInv, ChannelOK, HeldOK
  <2>10. QED
    BY <2>6, <2>7, <2>9 DEF ServedInv
<1>4. QED
  BY <1>2, <1>3 DEF RetryThread

-----------------------------------------------------------------------------
\* The client's steps while no retry thread runs.
NoRetry == ~mIsRunning /\ UNCHANGED mIsRunning /\ Left(Retrier)' = Left(Retrier)

LEMMA NoRetryKeeps ==
  ASSUME ServedInv, NoRetry
  PROVE  RetryingOK'
BY DEF ServedInv, RetryingOK, NoRetry

\* Calls of a client that are not cut off by its death come one at a time.
LEMMA CallsAlone ==
  ASSUME ServedInv, Alone, NEW n, ProgramOK(n), Start(n), UNCHANGED mIsRunning,
         CanCall \/ (Idle /\ (Patient => ~mIsRunning))
  PROVE  /\ ProgramsOK' /\ NoRetry /\ RetryingOK' /\ Left(Client) = {} /\ Left(Client)' = Range(n)
<1>1. Idle /\ ~mIsRunning
  BY DEF CanCall, Alone
<1>2. ProgramsOK
  BY DEF ServedInv, ServedTypeOK
<1>3. ProgramsOK' /\ Left(Client) = {} /\ Left(Client)' = Range(n) /\ Left(Retrier)' = Left(Retrier)
  BY <1>1, <1>2, Starts
<1>4. NoRetry
  BY <1>1, <1>3 DEF NoRetry
<1>5. QED
  BY <1>3, <1>4, NoRetryKeeps

\* A call that begins with sections in which nothing may be held.
LEMMA OutsideKeeps ==
  ASSUME ServedInv, ProgramsOK', RetryingOK',
         UNCHANGED <<channels, cardChannels, channel>>, held' = {},
         Left(Client)' \cap (ChannelSections \cup {"manage", "selectBasic"}) = {}
  PROVE  ServedInv'
<1>1. UNCHANGED <<mOpenedchannelCount, mOpenedChannels>>
  BY DEF channels
<1>2. ServedTypeOK' /\ CountCovers'
  BY <1>1 DEF ServedInv, ServedTypeOK, CountCovers
<1>3. ChannelOK'
  BY <1>1 DEF ChannelOK, Due, ChannelSections
<1>4. HeldOK'
  BY DEF HeldOK
<1>5. QED
  BY <1>2, <1>3, <1>4 DEF ServedInv

\* A step to sections that ask nothing of what is held.
LEMMA PlainKeeps ==
  ASSUME ServedInv, ProgramsOK', RetryingOK',
         UNCHANGED <<channels, channel, held>>, gIsInitlized => gIsInitlized',
         cardChannels \subseteq cardChannels', cardChannels' \subseteq Channels,
         isInited'[Client] = isInited[Client] \/ held = {},
         Left(Client)' \subseteq (Left(Client) \ ChannelSections)
                                 \cup {"reset", "logicalEnd", "basicEnd", "last"}
  PROVE  ServedInv'
<1>1. UNCHANGED <<mOpenedchannelCount, mOpenedChannels>>
  BY DEF channels
<1>2. ServedTypeOK' /\ CountCovers'
  BY <1>1 DEF ServedInv, ServedTypeOK, CountCovers
<1>3. \A S : S \cap {"reset", "logicalEnd", "basicEnd", "last"} = {} => (Due(S)' => Due(S))
  BY DEF Due
<1>4. ChannelOK'
  <2>1. ~Due({"note", "select"})' /\ ~Due({"select"})' /\ ~Due({"close"})' /\ ~Due({"uncount"})'
    BY DEF Due, ChannelSections
  <2>2. Due({"selectBasic", "basicFailed"})' => Due({"selectBasic", "basicFailed"})
    BY <1>3
  <2>3. Due({"manage", "note", "selectBasic"})' => Due({"manage", "note", "selectBasic"})
    BY <1>3
  <2>4. QED
    BY <1>1, <2>1, <2>2, <2>3 DEF ServedInv, ChannelOK
<1>5. HeldOK'
  <2>1. Due(Leaving \cup Entering \cup {"resetDone"})' => Due(Leaving \cup Entering \cup {"resetDone"})
    BY <1>3 DEF Leaving, Entering
  <2>2. Due(Opening)' => Due(Opening)
    BY <1>3 DEF Opening
  <2>3. QED
    BY <1>1, <2>1, <2>2 DEF ServedInv, HeldOK
<1>6. QED
  BY <1>2, <1>4, <1>5 DEF ServedInv

LEMMA Programs ==
  /\ ProgramOK(<<>>) /\ Range(<<>>) = {}
  /\ ProgramOK(SeHalDeInit) /\ ProgramOK(SeHalResetSe)
  /\ \A a \in Parts \ ChannelSections : ProgramOK(<<a>>) /\ Range(<<a>>) = {a}
<1>1. Range(SeHalDeInit) \cap (Final \cup ChannelSections) = {}
      /\ Range(SeHalResetSe) \cap (Final \cup ChannelSections) = {}
  BY Bodies DEF Final, ChannelSections
<1>2. ASSUME NEW p \in Seq(Parts), Range(p) \cap (Final \cup ChannelSections) = {} PROVE ProgramOK(p)
  <2>1. EndsIn(p)
    BY <1>2 DEF EndsIn, Range
  <2>2. QED
    BY <1>2, <2>1 DEF ProgramOK
<1>3. ProgramOK(<<>>) /\ ProgramOK(SeHalDeInit) /\ ProgramOK(SeHalResetSe)
  BY <1>1, <1>2, Bodies
<1>4. ASSUME NEW a \in Parts \ ChannelSections PROVE ProgramOK(<<a>>) /\ Range(<<a>>) = {a}
  BY <1>4, One DEF ProgramOK
<1>5. QED
  BY <1>3, <1>4, Bodies

LEMMA BeginsKeeps ==
  ASSUME ServedInv, ServiceHoldInv, Alone, CanCall,
         NEW check \in {"initedLogical", "initedBasic"}, NEW after, ProgramOK(after),
         Range(after) \subseteq {"deinit", "deinitClose", "forget", "manage", "selectBasic"},
         gIsInitlized => Range(after) \subseteq {"manage", "selectBasic"},
         Range(after) \cap {"manage", "selectBasic"} # {} => mOpenedchannelCount < 255,
         "selectBasic" \in Range(after) => BasicChannel \notin held,
         Begins(check, after)
  PROVE  ServedInv'
<1> DEFINE n == IF gIsInitlized THEN after ELSE SeHalInit \o <<check>> \o after
<1>1. /\ Start(n) /\ isInited' = [isInited EXCEPT ![Client] = ~gIsInitlized]
      /\ UNCHANGED <<gIsInitlized, channels, mIsRunning, channel, cardChannels, held>>
  BY DEF Begins, lib, retry
<1>2. isInited'[Client] <=> ~gIsInitlized
  BY <1>1, TheWorkers DEF ServiceHoldInv, HoldInv, LocalTypeOK
<1>3. ProgramOK(n) /\ Range(n) \subseteq Range(after) \cup {"open", "init", check}
      /\ (gIsInitlized => Range(n) = Range(after))
  <2>1. CASE gIsInitlized
    BY <2>1
  <2>2. CASE ~gIsInitlized
    <3>1. check \in Parts /\ Range(SeHalInit) \cap (Final \cup ChannelSections) = {}
          /\ {check} \cap (Final \cup ChannelSections) = {}
      BY Bodies DEF Parts, Final, ChannelSections
    <3>2. after \in Seq(Parts) /\ EndsIn(after) /\ Range(after) \cap ChannelSections = {}
      BY DEF ProgramOK, ChannelSections
    <3>3. <<check>> \in Seq(Parts) /\ Range(<<check>>) = {check}
      BY <3>1, One
    <3>4. SeHalInit \o <<check>> \in Seq(Parts)
          /\ Range(SeHalInit \o <<check>>) = Range(SeHalInit) \cup {check}
      BY <3>3, Bodies, Joined
    <3>5. Range(SeHalInit \o <<check>>) \cap (Final \cup ChannelSections) = {}
      BY <3>1, <3>4
    <3>6. /\ ProgramOK(SeHalInit \o <<check>> \o after)
          /\ Range(SeHalInit \o <<check>> \o after) = Range(SeHalInit \o <<check>>) \cup Range(after)
      BY <3>2, <3>4, <3>5, JoinedPrograms
    <3>7. QED
      BY <2>2, <3>4, <3>6, Bodies
  <2>3. QED
    BY <2>1, <2>2
<1> HIDE DEF n
<1>4. ProgramsOK' /\ RetryingOK' /\ Left(Client)' = Range(n)
  BY <1>1, <1>3, CallsAlone
<1>5. UNCHANGED <<mOpenedchannelCount, mOpenedChannels>>
  BY <1>1 DEF channels
<1>6. ServedTypeOK' /\ CountCovers'
  BY <1>1, <1>4, <1>5 DEF ServedInv, ServedTypeOK, CountCovers
<1>7. held # {} => gIsInitlized
  BY DEF ServedInv, HeldOK
<1>8. ChannelOK'
  BY <1>1, <1>3, <1>4, <1>5 DEF ChannelOK, Due
<1>9. HeldOK'
  BY <1>1, <1>2, <1>3, <1>4, <1>5, <1>7 DEF ServedInv, HeldOK, Due, Leaving, Entering, Opening
<1>10. QED
  BY <1>4, <1>6, <1>8, <1>9 DEF ServedInv

\* The client starts a call.
LEMMA CallKeeps ==
  ASSUME ServedInv, ServiceHoldInv, Alone, Call
  PROVE  ServedInv'
<1>0. ProgramsOK /\ LibInv /\ MaxCounted \in 1..255
  BY TheChannels DEF ServedInv, ServedTypeOK, ServiceHoldInv, HoldInv, CountInv
<1>1. CASE Register
  <2> DEFINE checks == <<"ready", "deinit", "deinitClose", "initEnd">>
             n == IF gIsInitlized THEN <<>> ELSE SeHalInit \o checks
  <2>1. /\ Idle /\ (Patient => ~mIsRunning) /\ Start(n)
        /\ UNCHANGED <<gIsInitlized, isInited, channels, mIsRunning, channel, cardChannels, held>>
    BY <1>1 DEF Register, vars, lib, local, retry
  <2>2. checks \in Seq(Parts) /\ Range(checks) = {"ready", "deinit", "deinitClose", "initEnd"}
    <3>1. {"ready", "deinit", "deinitClose", "initEnd"} \subseteq Parts
      BY DEF Parts, Within, Final
    <3>2. QED
      BY <3>1, Four
  <2>3. EndsIn(checks)
    <3>1. DOMAIN checks = {1, 2, 3, 4} /\ Len(checks) = 4
          /\ checks[1] = "ready" /\ checks[2] = "deinit" /\ checks[3] = "deinitClose"
      OBVIOUS
    <3> HIDE DEF checks
    <3>2. QED
      BY <3>1 DEF EndsIn, Final
  <2> HIDE DEF checks
  <2>4. /\ ProgramOK(SeHalInit \o checks)
        /\ Range(SeHalInit \o checks)
             = {"open", "init", "ready", "deinit", "deinitClose", "initEnd"}
    <3>1. Range(SeHalInit) \cap (Final \cup ChannelSections) = {} /\ Range(checks) \cap ChannelSections = {}
      BY <2>2, Bodies DEF Final, ChannelSections
    <3>2. QED
      BY <2>2, <2>3, <3>1, Bodies, JoinedPrograms
  <2>5. ProgramOK(n)
    BY <2>4, Programs
  <2>6. ProgramsOK' /\ RetryingOK' /\ Left(Client) = {} /\ Left(Client)' = Range(n)
    BY <2>1, <2>5, CallsAlone
  <2>7. CASE gIsInitlized
    <3>1. Left(Client)' = {}
      BY <2>6, <2>7, Programs
    <3>2. QED
      BY <2>1, <2>6, <3>1, PlainKeeps DEF ServedInv, ServedTypeOK
  <2>8. CASE ~gIsInitlized
    <3>1. held = {}
      BY <2>8 DEF ServedInv, HeldOK
    <3>2. Left(Client)' \cap (ChannelSections \cup {"manage", "selectBasic"}) = {}
      BY <2>4, <2>6, <2>8 DEF ChannelSections
    <3>3. QED
      BY <2>1, <2>6, <3>1, <3>2, OutsideKeeps
  <2>9. QED
    BY <2>7, <2>8
<1>2. CASE GetAtr
  <2>1. CanCall /\ Begins("initedLogical", IF gIsInitlized THEN <<>> ELSE SeHalDeInit)
    BY <1>2 DEF GetAtr
  <2>2. PICK after : /\ after = (IF gIsInitlized THEN <<>> ELSE SeHalDeInit)
                     /\ Begins("initedLogical", after)
    BY <2>1
  <2>3. /\ ProgramOK(after) /\ Range(after) \subseteq {"deinit", "deinitClose", "forget"}
        /\ (gIsInitlized => Range(after) = {})
    BY <2>2, Programs, Bodies
  <2>4. QED
    BY <2>1, <2>2, <2>3, BeginsKeeps
<1>3. CASE Transmit
  <2>1. CASE Works /\ UNCHANGED todo
    <3>1. /\ SeUse /\ UNCHANGED <<isInited, channels, mIsRunning, channel, cardChannels, held>>
      BY <1>3, <2>1 DEF Transmit, Works, Local, local, service, retry
    <3>2. gIsInitlized => gIsInitlized'
      BY <1>0, <3>1, UseStays
    <3>3. UNCHANGED <<Left(Client), Left(Retrier)>> /\ ProgramsOK' /\ Left(Client) = {}
      <4>1. Idle
        BY <1>3 DEF Transmit, CanCall
      <4>2. QED
        BY <1>0, <2>1, <4>1, Programs DEF Left, ProgramsOK, Idle
    <3>4. RetryingOK'
      BY <3>1, <3>3 DEF ServedInv, RetryingOK
    <3>5. QED
      BY <3>1, <3>2, <3>3, <3>4, PlainKeeps DEF ServedInv, ServedTypeOK
  <2>2. CASE Fail /\ Start(SeHalResetSe)
    <3>1. /\ SeUse /\ UNCHANGED <<isInited, channels, mIsRunning, channel, cardChannels, held>>
          /\ CanCall
      BY <1>3, <2>2 DEF Transmit, Fail, Local, local, service, retry
    <3>2. gIsInitlized => gIsInitlized'
      BY <1>0, <3>1, UseStays
    <3>3. ProgramsOK' /\ RetryingOK' /\ Left(Client) = {} /\ Left(Client)' = Range(SeHalResetSe)
      BY <2>2, <3>1, Programs, CallsAlone
    <3>4. QED
      BY <3>1, <3>2, <3>3, Bodies, PlainKeeps DEF ServedInv, ServedTypeOK
  <2>3. QED
    BY <1>3, <2>1, <2>2 DEF Transmit
<1>4. CASE Reset
  <2>1. /\ CanCall /\ Start(SeHalResetSe)
        /\ UNCHANGED <<gIsInitlized, isInited, channels, mIsRunning, channel, cardChannels, held>>
    BY <1>4 DEF Reset, vars, lib, local, service, retry
  <2>2. ProgramsOK' /\ RetryingOK' /\ Left(Client) = {} /\ Left(Client)' = Range(SeHalResetSe)
    BY <2>1, Programs, CallsAlone
  <2>3. QED
    BY <2>1, <2>2, Bodies, PlainKeeps DEF ServedInv, ServedTypeOK
<1>5. CASE OpenLogicalChannel
  <2>1. CanCall /\ mOpenedchannelCount < MaxCounted /\ Begins("initedLogical", <<"manage">>)
    BY <1>5 DEF OpenLogicalChannel
  <2>2. "manage" \in Parts \ ChannelSections
    BY DEF Parts, Final, ChannelSections
  <2>3. ProgramOK(<<"manage">>) /\ Range(<<"manage">>) = {"manage"}
    BY <2>2, Programs
  <2>4. mOpenedchannelCount < 255
    BY <1>0, <2>1 DEF ServedInv, ServedTypeOK
  <2>5. QED
    BY <2>1, <2>3, <2>4, BeginsKeeps
<1>6. CASE OpenBasicChannel
  <2>1. CanCall /\ mOpenedchannelCount < MaxCounted /\ BasicChannel \notin held
    BY <1>6 DEF OpenBasicChannel, Alone
  <2>2. CASE BasicChannel \in mOpenedChannels
    <3>1. UNCHANGED <<gIsInitlized, isInited, todo, channels, mIsRunning, channel, cardChannels, held>>
      BY <1>6, <2>2 DEF OpenBasicChannel, vars, lib, local, retry
    <3>2. UNCHANGED <<Left(Client), Left(Retrier)>> /\ ProgramsOK' /\ Left(Client) = {}
      BY <1>0, <2>1, <3>1, Programs DEF Left, ProgramsOK, CanCall, Idle
    <3>3. RetryingOK'
      BY <3>1, <3>2 DEF ServedInv, RetryingOK
    <3>4. QED
      BY <3>1, <3>2, <3>3, PlainKeeps DEF ServedInv, ServedTypeOK
  <2>3. CASE BasicChannel \notin mOpenedChannels
    <3>1. Begins("initedBasic", <<"selectBasic">>)
      BY <1>6, <2>3 DEF OpenBasicChannel
    <3>2. "selectBasic" \in Parts \ ChannelSections
      BY DEF Parts, Final, ChannelSections
    <3>3. ProgramOK(<<"selectBasic">>) /\ Range(<<"selectBasic">>) = {"selectBasic"}
      BY <3>2, Programs
    <3>4. mOpenedchannelCount < 255
      BY <1>0, <2>1 DEF ServedInv, ServedTypeOK
    <3>5. QED
      BY <2>1, <3>1, <3>3, <3>4, BeginsKeeps
  <2>4. QED
    BY <2>2, <2>3
<1>7. CASE CloseChannel
  <2>1. /\ CanCall /\ Start(<<"close">>) /\ channel' \in held /\ held' = held \ {channel'}
        /\ UNCHANGED <<gIsInitlized, isInited, channels, mIsRunning, cardChannels>>
    BY <1>7 DEF CloseChannel, Alone, vars, lib, local, retry
  <2>2. ProgramOK(<<"close">>) /\ Range(<<"close">>) = {"close"}
    <3>1. "close" \in Parts
      BY DEF Parts, Final
    <3>2. QED
      BY <3>1, One DEF ProgramOK, ChannelPrograms
  <2>3. ProgramsOK' /\ RetryingOK' /\ Left(Client)' = {"close"}
    BY <2>1, <2>2, CallsAlone
  <2>4. UNCHANGED <<mOpenedchannelCount, mOpenedChannels>>
    BY <2>1 DEF channels
  <2>5. channel' \in mOpenedChannels /\ channel' \in Channels
    BY <2>1 DEF ServedInv, ServedTypeOK, HeldOK
  <2>6. ServedTypeOK' /\ CountCovers'
    BY <2>1, <2>3, <2>4, <2>5 DEF ServedInv, ServedTypeOK, CountCovers
  <2>7. ChannelOK'
    BY <2>1, <2>3, <2>4, <2>5 DEF ChannelOK, Due
  <2>8. HeldOK'
    BY <2>1, <2>3, <2>4 DEF ServedInv, HeldOK, Due, Leaving, Entering, Opening
  <2>9. QED
    BY <2>3, <2>6, <2>7, <2>8 DEF ServedInv
<1>8. CASE Dies
  <2> DEFINE n == SeHalDeInit \o <<"unregister">>
  <2>1. /\ Idle /\ Start(n) /\ held' = {}
        /\ UNCHANGED <<channels, mIsRunning, channel, cardChannels>>
    BY <1>8 DEF Dies, retry
  <2>2. ProgramOK(n) /\ Range(n) = Leaving
    <3>1. "unregister" \in Parts \ ChannelSections
      BY DEF Parts, Final, ChannelSections
    <3>2. <<"unregister">> \in Seq(Parts) /\ Range(<<"unregister">>) = {"unregister"} /\ EndsIn(<<"unregister">>)
      BY <3>1, One
    <3>3. /\ Range(SeHalDeInit) \cap (Final \cup ChannelSections) = {}
          /\ Range(<<"unregister">>) \cap ChannelSections = {}
      BY <3>2, Bodies DEF Final, ChannelSections
    <3>4. /\ ProgramOK(n)
          /\ Range(n) = Range(SeHalDeInit) \cup Range(<<"unregister">>)
      BY <3>2, <3>3, Bodies, JoinedPrograms
    <3>5. QED
      BY <3>2, <3>4, Bodies DEF Leaving
  <2>3. ProgramsOK' /\ Left(Client)' = Leaving /\ Left(Retrier)' = Left(Retrier)
    BY <1>0, <2>1, <2>2, Starts
  <2>4. RetryingOK'
    BY <2>1, <2>3 DEF ServedInv, RetryingOK
  <2>5. Leaving \cap (ChannelSections \cup {"manage", "selectBasic"}) = {}
    BY DEF Leaving, ChannelSections
  <2>6. QED
    BY <2>1, <2>3, <2>4, <2>5, OutsideKeeps
<1>9. QED
  BY <1>1, <1>2, <1>3, <1>4, <1>5, <1>6, <1>7, <1>8 DEF Call

-----------------------------------------------------------------------------
\* The client goes on with its call.
LEMMA ClientPops ==
  ASSUME ServedInv, NEW s, s \notin ChannelSections \cup Leaving, At(Client, s),
         NEW n \in Seq(Parts), Goes(n), Range(n) \cap (Final \cup ChannelSections) = {},
         UNCHANGED mIsRunning
  PROVE  /\ ProgramsOK' /\ RetryingOK' /\ s \in Left(Client) /\ Left(Client) \cap ChannelSections = {}
         /\ Left(Client)' \subseteq Left(Client) \cup Range(n)
<1>1. ProgramsOK /\ Then(Client, n) /\ Client \in Workers /\ s \notin ChannelSections
  BY TheWorkers DEF ServedInv, ServedTypeOK, Goes
<1>2. /\ ProgramsOK' /\ s \in Left(Client) /\ Left(Client) \cap ChannelSections = {}
      /\ Left(Client)' \subseteq Left(Client) \cup Range(n)
      /\ \A u \in Workers \ {Client} : Left(u)' = Left(u)
  BY <1>1, Pops
<1>3. ~mIsRunning /\ Left(Retrier)' = Left(Retrier)
  BY <1>2, TheWorkers DEF ServedInv, RetryingOK
<1>4. RetryingOK'
  BY <1>3, NoRetryKeeps DEF NoRetry
<1>5. QED
  BY <1>2, <1>4

LEMMA ClientEnds ==
  ASSUME ServedInv, NEW s \in Final \ Leaving, At(Client, s), NEW n, ProgramOK(n), Goes(n),
         UNCHANGED mIsRunning
  PROVE  /\ ProgramsOK' /\ RetryingOK' /\ Left(Client) = {s} /\ Left(Client)' = Range(n)
<1>1. ProgramsOK /\ Then(Client, n) /\ Client \in Workers /\ s \in Final
  BY TheWorkers DEF ServedInv, ServedTypeOK, Goes
<1>2. /\ ProgramsOK' /\ Left(Client) = {s} /\ Left(Client)' = Range(n)
      /\ \A u \in Workers \ {Client} : Left(u)' = Left(u)
  BY <1>1, Ends
<1>3. ~mIsRunning /\ Left(Retrier)' = Left(Retrier)
  BY <1>2, TheWorkers DEF ServedInv, RetryingOK
<1>4. RetryingOK'
  BY <1>3, NoRetryKeeps DEF NoRetry
<1>5. QED
  BY <1>2, <1>4

LEMMA ChannelPops ==
  ASSUME ServedInv, Goes(<<>>), UNCHANGED mIsRunning
  PROVE  /\ At(Client, "note") => ProgramsOK' /\ RetryingOK' /\ Left(Client) = {"note", "select"}
                                  /\ Left(Client)' = {"select"}
         /\ At(Client, "uncount") => ProgramsOK' /\ RetryingOK' /\ Left(Client) = {"uncount", "last"}
                                  /\ Left(Client)' = {"last"}
<1> DEFINE p == todo[Client]
<1>1. /\ ProgramsOK /\ Client \in Workers /\ DOMAIN todo = Workers /\ ProgramOK(p) /\ p \in Seq(Parts)
  BY TheWorkers DEF ServedInv, ServedTypeOK, ProgramsOK, ProgramOK
<1>2. {"note", "select", "uncount", "last", "close"} \subseteq Parts /\ "last" \notin ChannelSections
      /\ "select" \in ChannelSections
  BY DEF Parts, Final, ChannelSections
<1>3. todo' = [todo EXCEPT ![Client] = <<>> \o Tail(p)]
  BY DEF Goes, Then
<1>4. ASSUME NEW q, ProgramOK(q), todo' = [todo EXCEPT ![Client] = q], p # <<>>,
             ~(Range(p) \subseteq Leaving)
      PROVE  ProgramsOK' /\ RetryingOK' /\ Left(Client)' = Range(q)
  <2>1. todo'[Client] = q /\ \A u \in Workers \ {Client} : todo'[u] = todo[u]
    BY <1>1, <1>4
  <2>2. ProgramsOK'
    BY <1>1, <1>4, <2>1 DEF ProgramsOK
  <2>3. Left(Client)' = Range(q) /\ Left(Retrier)' = Left(Retrier)
    BY <2>1, TheWorkers DEF Left
  <2>4. ~mIsRunning
    BY <1>4 DEF ServedInv, RetryingOK, Left
  <2>5. RetryingOK'
    BY <2>3, <2>4, NoRetryKeeps DEF NoRetry
  <2>6. QED
    BY <2>2, <2>3, <2>5
<1>5. ASSUME NEW s \in {"note", "uncount"}, At(Client, s)
      PROVE  (p = <<"note", "select">> /\ s = "note") \/ (p = <<"uncount", "last">> /\ s = "uncount")
  <2>1. p # <<>> /\ Head(p) = s
    BY <1>5 DEF At
  <2>2. s \in Range(p)
    BY <1>1, <2>1, PopParts, Bodies
  <2>3. p \in ChannelPrograms
    BY <1>1, <1>5, <2>2 DEF ProgramOK, ChannelSections
  <2>4. Head(<<"select">>) = "select" /\ Head(<<"close">>) = "close"
        /\ Head(<<"note", "select">>) = "note" /\ Head(<<"uncount", "last">>) = "uncount"
    OBVIOUS
  <2>5. p \in {<<"note", "select">>, <<"select">>, <<"close">>, <<"uncount", "last">>}
    BY <2>3 DEF ChannelPrograms
  <2>6. CASE p = <<"note", "select">>
    <3>1. s = "note"
      BY ONLY <2>1, <2>4, <2>6
    <3>2. QED
      BY ONLY <2>6, <3>1
  <2>7. CASE p = <<"uncount", "last">>
    BY <2>1, <2>4, <2>7
  <2>8. p # <<"select">> /\ p # <<"close">>
    BY <1>5, <2>1, <2>4
  <2>9. QED
    BY <2>5, <2>6, <2>7, <2>8
<1>6. ProgramOK(<<"select">>) /\ Range(<<"select">>) = {"select"}
  BY <1>2, One DEF ProgramOK, ChannelPrograms
<1>7. ProgramOK(<<"last">>) /\ Range(<<"last">>) = {"last"}
  BY <1>2, Programs
<1>8. Range(<<"note", "select">>) = {"note", "select"} /\ Range(<<"uncount", "last">>) = {"uncount", "last"}
  BY <1>2, Short
<1>9. ASSUME At(Client, "note")
      PROVE  ProgramsOK' /\ RetryingOK' /\ Left(Client) = {"note", "select"} /\ Left(Client)' = {"select"}
  <2>1. p = <<"note", "select">>
    BY <1>5, <1>9
  <2>2. <<>> \o Tail(p) = <<"select">> /\ p # <<>> /\ ~(Range(p) \subseteq Leaving)
    BY <1>8, <2>1 DEF Leaving
  <2>3. ProgramsOK' /\ RetryingOK' /\ Left(Client)' = Range(<<"select">>)
    BY <1>3, <1>4, <1>6, <2>2
  <2>4. QED
    BY <1>6, <1>8, <2>1, <2>3 DEF Left
<1>10. ASSUME At(Client, "uncount")
       PROVE  ProgramsOK' /\ RetryingOK' /\ Left(Client) = {"uncount", "last"} /\ Left(Client)' = {"last"}
  <2>1. p = <<"uncount", "last">>
    BY <1>5, <1>10
  <2>2. <<>> \o Tail(p) = <<"last">> /\ p # <<>> /\ ~(Range(p) \subseteq Leaving)
    BY <1>8, <2>1 DEF Leaving
  <2>3. ProgramsOK' /\ RetryingOK' /\ Left(Client)' = Range(<<"last">>)
    BY <1>3, <1>4, <1>7, <2>2
  <2>4. QED
    BY <1>7, <1>8, <2>1, <2>3 DEF Left
<1>11. QED
  BY <1>9, <1>10

\* The count follows the marks.
LEMMA Marks ==
  ASSUME ServedInv, NEW c \in Channels
  PROVE  /\ Cardinality(mOpenedChannels) \in Nat
         /\ Cardinality(mOpenedChannels \cup {c})
              = Cardinality(mOpenedChannels) + (IF c \in mOpenedChannels THEN 0 ELSE 1)
         /\ c \in mOpenedChannels =>
              /\ Cardinality(mOpenedChannels \ {c}) = Cardinality(mOpenedChannels) - 1
              /\ Cardinality(mOpenedChannels \ {c}) \in Nat
         /\ mOpenedchannelCount < 255 => Counted(mOpenedchannelCount) = mOpenedchannelCount + 1
<1>1. IsFiniteSet(mOpenedChannels) /\ mOpenedchannelCount \in 0..255
  BY TheChannels, FS_Subset DEF ServedInv, ServedTypeOK
<1>2. Cardinality(mOpenedChannels) \in Nat
  BY <1>1, FS_CardinalityType
<1>3. Cardinality(mOpenedChannels \cup {c})
              = Cardinality(mOpenedChannels) + (IF c \in mOpenedChannels THEN 0 ELSE 1)
  <2>1. CASE c \in mOpenedChannels
    <3>1. mOpenedChannels \cup {c} = mOpenedChannels
      BY <2>1
    <3>2. QED
      BY <1>2, <2>1, <3>1
  <2>2. CASE c \notin mOpenedChannels
    <3>1. Cardinality(mOpenedChannels \cup {c}) = Cardinality(mOpenedChannels) + 1
      BY <1>1, <2>2, FS_AddElement
    <3>2. QED
      BY <2>2, <3>1
  <2>3. QED
    BY <2>1, <2>2
<1>4. ASSUME c \in mOpenedChannels
      PROVE  /\ Cardinality(mOpenedChannels \ {c}) = Cardinality(mOpenedChannels) - 1
             /\ Cardinality(mOpenedChannels \ {c}) \in Nat
  <2>1. IsFiniteSet(mOpenedChannels \ {c})
        /\ Cardinality(mOpenedChannels \ {c}) = Cardinality(mOpenedChannels) - 1
    BY <1>1, <1>4, FS_RemoveElement
  <2>2. QED
    BY <2>1, FS_CardinalityType
<1>5. mOpenedchannelCount < 255 => Counted(mOpenedchannelCount) = mOpenedchannelCount + 1
  BY <1>1 DEF Counted
<1>6. QED
  BY <1>2, <1>3, <1>4, <1>5

LEMMA ClientStops ==
  ASSUME ServedInv, NEW s, s \notin Leaving, At(Client, s), Start(<<>>), UNCHANGED mIsRunning
  PROVE  ProgramsOK' /\ RetryingOK' /\ Left(Client)' = {}
<1>1. ProgramsOK /\ Client \in Workers /\ Retrier \in Workers /\ Client # Retrier
      /\ todo[Client] \in Seq(Parts) /\ todo[Client] # <<>> /\ Head(todo[Client]) = s
  BY TheWorkers DEF ServedInv, ServedTypeOK, ProgramsOK, ProgramOK, At
<1>2. todo' = [todo EXCEPT ![Client] = <<>>]
  BY DEF Start
<1>3. todo'[Client] = <<>> /\ \A u \in Workers \ {Client} : todo'[u] = todo[u]
  BY <1>1, <1>2 DEF ProgramsOK
<1>4. ProgramsOK'
  BY <1>1, <1>2, <1>3, Programs DEF ProgramsOK
<1>5. s \in Left(Client)
  BY <1>1, PopParts DEF Left
<1>6. ~mIsRunning /\ Left(Retrier)' = Left(Retrier)
  BY <1>1, <1>3, <1>5 DEF ServedInv, RetryingOK, Left
<1>7. RetryingOK'
  BY <1>6, NoRetryKeeps DEF NoRetry
<1>8. QED
  BY <1>3, <1>4, <1>7, Programs DEF Left

\* A program of the library and the section that ends the call.
LEMMA EndedPrograms ==
  ASSUME NEW e \in {"logicalEnd", "basicEnd", "basicFailed"}
  PROVE  /\ ProgramOK(SeHalResetSe \o <<e>>) /\ Range(SeHalResetSe \o <<e>>) = {"reset", e}
         /\ ProgramOK(SeHalDeInit \o <<e>>)
         /\ Range(SeHalDeInit \o <<e>>) = {"deinit", "deinitClose", "forget", e}
         /\ ProgramOK(<<>> \o <<e>>) /\ Range(<<>> \o <<e>>) = {e}
         /\ ProgramOK(<<e>>) /\ Range(<<e>>) = {e}
<1>1. e \in Parts \ ChannelSections
  BY DEF Parts, Final, ChannelSections
<1> DEFINE q == <<e>>
<1>2. q \in Seq(Parts) /\ Range(q) = {e} /\ EndsIn(q) /\ Range(q) \cap ChannelSections = {}
  BY <1>1, One
<1> HIDE DEF q
<1>3. /\ Range(SeHalResetSe) \cap (Final \cup ChannelSections) = {}
      /\ Range(SeHalDeInit) \cap (Final \cup ChannelSections) = {}
      /\ Range(<<>>) \cap (Final \cup ChannelSections) = {}
  BY Bodies DEF Final, ChannelSections
<1>4. ProgramOK(SeHalResetSe \o q) /\ Range(SeHalResetSe \o q) = Range(SeHalResetSe) \cup {e}
  BY <1>2, <1>3, Bodies, JoinedPrograms
<1>5. ProgramOK(SeHalDeInit \o q) /\ Range(SeHalDeInit \o q) = Range(SeHalDeInit) \cup {e}
  BY <1>2, <1>3, Bodies, JoinedPrograms
<1>6. ProgramOK(<<>> \o q) /\ Range(<<>> \o q) = {e}
  <2>1. <<>> \o q = q
    BY <1>2
  <2>2. ProgramOK(q)
    BY <1>2 DEF ProgramOK
  <2>3. QED
    BY <1>2, <2>1, <2>2
<1>7. ProgramOK(<<e>>) /\ Range(<<e>>) = {e}
  BY <1>1, Programs
<1>8. QED
  BY <1>4, <1>5, <1>6, <1>7, Bodies DEF q

LEMMA ChannelTuples ==
  /\ ProgramOK(<<"note", "select">>) /\ Range(<<"note", "select">>) = {"note", "select"}
  /\ ProgramOK(<<"uncount", "last">>) /\ Range(<<"uncount", "last">>) = {"uncount", "last"}
  /\ ProgramOK(<<"close">>) /\ Range(<<"close">>) = {"close"}
  /\ ProgramOK(<<"last">>) /\ Range(<<"last">>) = {"last"}
<1>1. {"note", "select", "uncount", "last", "close"} \subseteq Parts
      /\ "note" \notin Final /\ "uncount" \notin Final /\ "last" \notin ChannelSections
  BY DEF Parts, Final, ChannelSections
<1>2. /\ <<"note", "select">> \in Seq(Parts) /\ Range(<<"note", "select">>) = {"note", "select"}
      /\ <<"uncount", "last">> \in Seq(Parts) /\ Range(<<"uncount", "last">>) = {"uncount", "last"}
      /\ <<"close">> \in Seq(Parts) /\ Range(<<"close">>) = {"close"}
  BY <1>1, Short
<1>3. EndsIn(<<"note", "select">>) /\ EndsIn(<<"uncount", "last">>) /\ EndsIn(<<"close">>)
  BY <1>1, ShortEnds
<1>4. ProgramOK(<<"last">>) /\ Range(<<"last">>) = {"last"}
  BY <1>1, Programs
<1>5. QED
  BY <1>2, <1>3, <1>4 DEF ProgramOK, ChannelPrograms

\* The client prepares the library.
LEMMA PreparingKeeps ==
  ASSUME ServedInv, Ready \/ InitEnd \/ InitedLogical \/ InitedBasic
  PROVE  ServedInv'
<1>0. /\ ProgramsOK /\ cardChannels \subseteq Channels /\ <<>> \in Seq(Parts)
      /\ Range(<<>>) \cap (Final \cup ChannelSections) = {} /\ ProgramOK(<<>>) /\ Range(<<>>) = {}
  BY Bodies, Programs DEF ServedInv, ServedTypeOK
<1>1. CASE Ready
  <2>1. /\ At(Client, "ready") /\ Goes(<<>>)
        /\ UNCHANGED <<gIsInitlized, channels, mIsRunning, channel, cardChannels, held>>
    BY <1>1 DEF Ready, lib, service, retry
  <2>2. "ready" \notin ChannelSections \cup Leaving /\ held = {}
    BY <2>1, NothingHeld, TheWorkers DEF ChannelSections, Leaving, Entering
  <2>3. ProgramsOK' /\ RetryingOK' /\ Left(Client)' \subseteq Left(Client) \ ChannelSections
    BY <1>0, <2>1, <2>2, ClientPops
  <2>4. QED
    BY <1>0, <2>1, <2>2, <2>3, PlainKeeps
<1>2. CASE InitEnd
  <2>1. /\ At(Client, "initEnd")
        /\ UNCHANGED <<gIsInitlized, isInited, channels, channel, cardChannels, held>>
    BY <1>2 DEF InitEnd, vars, lib, local
  <2>2. "initEnd" \in Final \ Leaving /\ held = {}
    BY <2>1, NothingHeld, TheWorkers DEF Final, Leaving, Entering
  <2>3. CASE Goes(<<>>) /\ UNCHANGED mIsRunning
    <3>1. ProgramsOK' /\ RetryingOK' /\ Left(Client)' = {}
      BY <1>0, <2>1, <2>2, <2>3, ClientEnds
    <3>2. QED
      BY <1>0, <2>1, <2>2, <3>1, PlainKeeps
  <2>4. CASE /\ mIsRunning'
             /\ todo' = [todo EXCEPT ![Client] = Tail(@), ![Retrier] = <<"retry">>]
    <3> DEFINE p == todo[Client]
    <3>1. p \in Seq(Parts) /\ p # <<>> /\ Head(p) = "initEnd" /\ EndsIn(p)
      BY <1>0, <2>1, TheWorkers DEF ProgramsOK, ProgramOK, At
    <3>2. <<>> \o Tail(p) = <<>>
      BY <1>0, <2>2, <3>1, PopParts
    <3>3. Tail(p) = <<>>
      BY <3>1, <3>2
    <3>4. todo'[Client] = <<>> /\ todo'[Retrier] = <<"retry">> /\ DOMAIN todo' = Workers
      BY <1>0, <2>4, <3>3, TheWorkers DEF ProgramsOK
    <3>5. ProgramOK(<<"retry">>)
      <4>1. "retry" \in Parts \ ChannelSections
        BY DEF Parts, Final, ChannelSections
      <4>2. QED
        BY <4>1, Programs
    <3>6. ProgramsOK'
      BY <1>0, <3>4, <3>5, TheWorkers DEF ProgramsOK
    <3>7. Left(Client)' = {}
      BY <1>0, <3>4 DEF Left
    <3>8. RetryingOK'
      BY <2>1, <2>2, <2>4, <3>7 DEF RetryingOK
    <3>9. QED
      BY <2>1, <2>2, <3>6, <3>7, <3>8, OutsideKeeps
  <2>5. QED
    BY <1>2, <2>3, <2>4 DEF InitEnd, retry
<1>3. CASE InitedLogical \/ InitedBasic
  <2>1. PICK s \in {"initedLogical", "initedBasic"} :
          At(Client, s) /\ (Goes(<<>>) \/ Start(<<>>))
    BY <1>3 DEF InitedLogical, InitedBasic
  <2>2. UNCHANGED <<gIsInitlized, isInited, channels, mIsRunning, channel, cardChannels, held>>
    BY <1>3 DEF InitedLogical, InitedBasic, vars, lib, local, retry
  <2>3. s \notin ChannelSections \cup Leaving
    BY <2>1 DEF ChannelSections, Leaving
  <2>4. CASE Goes(<<>>)
    <3>1. ProgramsOK' /\ RetryingOK' /\ Left(Client)' \subseteq Left(Client) \ ChannelSections
      BY <1>0, <2>1, <2>2, <2>3, <2>4, ClientPops
    <3>2. QED
      BY <1>0, <2>2, <3>1, PlainKeeps
  <2>5. CASE Start(<<>>)
    <3>1. ProgramsOK' /\ RetryingOK' /\ Left(Client)' = {}
      BY <2>1, <2>2, <2>3, <2>5, ClientStops
    <3>2. QED
      BY <1>0, <2>2, <3>1, PlainKeeps
  <2>6. QED
    BY <2>1, <2>4, <2>5
<1>4. QED
  BY <1>1, <1>2, <1>3

\* What an exchange leaves of the library.
LEMMA AfterExchange ==
  ASSUME LibInv
  PROVE  /\ Works => gIsInitlized /\ gIsInitlized'
         /\ Fail => (gIsInitlized => gIsInitlized')
<1>1. SeUse => (gIsInitlized => gIsInitlized')
  BY UseStays
<1>2. QED
  BY <1>1 DEF Works, Fail

\* The client opens a logical channel.
LEMMA ManageKeeps ==
  ASSUME ServedInv, LibInv, Manage
  PROVE  ServedInv'
<1>0. /\ cardChannels \subseteq Channels /\ At(Client, "manage") /\ "manage" \in Final \ Leaving
      /\ UNCHANGED <<mIsRunning, channels, held, isInited>>
  BY DEF Manage, Local, local, retry, ServedInv, ServedTypeOK, Final, Leaving
<1>1. CASE \E c \in Channels \ (cardChannels \cup {BasicChannel}) :
             /\ Works
             /\ channel' = c /\ cardChannels' = cardChannels \cup {c}
             /\ Goes(<<"note", "select">>)
  <2>1. PICK c \in Channels \ (cardChannels \cup {BasicChannel}) :
             /\ Works
             /\ channel' = c /\ cardChannels' = cardChannels \cup {c}
             /\ Goes(<<"note", "select">>)
    BY <1>1
  <2>2. /\ ProgramsOK' /\ RetryingOK' /\ Left(Client) = {"manage"}
        /\ Left(Client)' = {"note", "select"}
    BY <1>0, <2>1, ChannelTuples, ClientEnds
  <2>3. gIsInitlized' /\ UNCHANGED <<mOpenedchannelCount, mOpenedChannels>>
    BY <1>0, <2>1, AfterExchange DEF channels
  <2>4. mOpenedchannelCount < 255 /\ c \notin held
    BY <2>1, <2>2 DEF ServedInv, ChannelOK, HeldOK, Due
  <2>5. ServedTypeOK' /\ CountCovers'
    BY <1>0, <2>1, <2>2, <2>3 DEF ServedInv, ServedTypeOK, CountCovers
  <2>6. ChannelOK'
    BY <1>0, <2>1, <2>2, <2>3, <2>4 DEF ChannelOK, Due
  <2>7. HeldOK'
    BY <1>0, <2>1, <2>2, <2>3 DEF ServedInv, HeldOK, Due, Leaving, Entering, Opening
  <2>8. QED
    BY <2>2, <2>5, <2>6, <2>7 DEF ServedInv
<1>2. CASE /\ Works /\ UNCHANGED <<channel, cardChannels>>
           /\ Goes((IF isInited[Client] THEN SeHalDeInit ELSE <<>>) \o <<"logicalEnd">>)
  <2>1. gIsInitlized'
    BY <1>2, AfterExchange
  <2>2. CASE isInited[Client]
    <3>1. Goes(SeHalDeInit \o <<"logicalEnd">>)
      BY <1>2, <2>2
    <3>2. /\ ProgramsOK' /\ RetryingOK' /\ Left(Client) = {"manage"}
          /\ Left(Client)' = {"deinit", "deinitClose", "forget", "logicalEnd"}
      BY <1>0, <3>1, EndedPrograms, ClientEnds
    <3>3. held = {}
      BY <2>2, <3>2 DEF ServedInv, HeldOK, Due, Opening
    <3>4. Left(Client)' \cap (ChannelSections \cup {"manage", "selectBasic"}) = {}
      BY <3>2 DEF ChannelSections
    <3>5. QED
      BY <1>0, <1>2, <3>2, <3>3, <3>4, OutsideKeeps
  <2>3. CASE ~isInited[Client]
    <3>1. Goes(<<>> \o <<"logicalEnd">>)
      BY <1>2, <2>3
    <3>2. /\ ProgramsOK' /\ RetryingOK' /\ Left(Client)' = {"logicalEnd"}
      BY <1>0, <3>1, EndedPrograms, ClientEnds
    <3>3. QED
      BY <1>0, <1>2, <2>1, <3>2, PlainKeeps
  <2>4. QED
    BY <2>2, <2>3
<1>3. CASE /\ Fail /\ UNCHANGED channel /\ Goes(SeHalResetSe \o <<"logicalEnd">>)
           /\ cardChannels \subseteq cardChannels' /\ cardChannels' \subseteq Channels
  <2>1. gIsInitlized => gIsInitlized'
    BY <1>3, AfterExchange
  <2>2. ProgramsOK' /\ RetryingOK' /\ Left(Client)' = {"reset", "logicalEnd"}
    BY <1>0, <1>3, EndedPrograms, ClientEnds
  <2>3. QED
    BY <1>0, <1>3, <2>1, <2>2, PlainKeeps
<1>4. QED
  BY <1>0, <1>1, <1>2, <1>3 DEF Manage

LEMMA NoteKeeps ==
  ASSUME ServedInv, Note
  PROVE  ServedInv'
<1>1. /\ At(Client, "note") /\ Goes(<<>>)
      /\ mOpenedchannelCount' = Counted(mOpenedchannelCount)
      /\ mOpenedChannels' = mOpenedChannels \cup {channel}
      /\ UNCHANGED <<gIsInitlized, isInited, mIsRunning, channel, cardChannels, held>>
  BY DEF Note, vars, lib, local, retry
<1>2. /\ ProgramsOK' /\ RetryingOK' /\ Left(Client) = {"note", "select"}
      /\ Left(Client)' = {"select"}
  BY <1>1, ChannelPops
<1>3. /\ channel \in cardChannels \ (held \cup {BasicChannel}) /\ mOpenedchannelCount < 255
      /\ channel \in Channels /\ mOpenedchannelCount \in 0..255
      /\ Cardinality(mOpenedChannels) <= mOpenedchannelCount
  BY <1>2 DEF ServedInv, ServedTypeOK, ChannelOK, Due, CountCovers
<1>4. /\ mOpenedchannelCount' = mOpenedchannelCount + 1
      /\ Cardinality(mOpenedChannels') <= Cardinality(mOpenedChannels) + 1
      /\ Cardinality(mOpenedChannels) \in Nat /\ Cardinality(mOpenedChannels') \in Nat
  <2>1. /\ Cardinality(mOpenedChannels) \in Nat
        /\ Cardinality(mOpenedChannels \cup {channel})
             = Cardinality(mOpenedChannels) + (IF channel \in mOpenedChannels THEN 0 ELSE 1)
        /\ Counted(mOpenedchannelCount) = mOpenedchannelCount + 1
    BY <1>3, Marks
  <2>2. QED
    BY <1>1, <2>1
<1>5. ServedTypeOK' /\ CountCovers'
  BY <1>1, <1>2, <1>3, <1>4 DEF ServedInv, ServedTypeOK, CountCovers
<1>6. ChannelOK'
  BY <1>1, <1>2, <1>3 DEF ChannelOK, Due
<1>7. HeldOK'
  BY <1>1, <1>2 DEF ServedInv, HeldOK, Due, Leaving, Entering, Opening
<1>8. QED
  BY <1>2, <1>5, <1>6, <1>7 DEF ServedInv

LEMMA SelectLogicalKeeps ==
  ASSUME ServedInv, LibInv, SelectLogical
  PROVE  ServedInv'
<1>0. /\ At(Client, "select") /\ "select" \in Final \ Leaving
      /\ UNCHANGED <<mIsRunning, mOpenedchannelCount, mOpenedChannels, channel, cardChannels, isInited>>
      /\ UNCHANGED channels /\ cardChannels \subseteq Channels
  BY DEF SelectLogical, Local, local, retry, channels, ServedInv, ServedTypeOK, Final, Leaving
<1>1. ASSUME Left(Client) = {"select"}
      PROVE  channel \in cardChannels \ (held \cup {BasicChannel}) /\ channel \in mOpenedChannels
  BY <1>1 DEF ServedInv, ChannelOK, Due
<1>2. CASE Works /\ held' = held \cup {channel} /\ Goes(<<>>)
  <2>1. ProgramsOK' /\ RetryingOK' /\ Left(Client) = {"select"} /\ Left(Client)' = {}
    BY <1>0, <1>2, Programs, ClientEnds
  <2>2. gIsInitlized' /\ channel \in cardChannels /\ channel \in mOpenedChannels
    BY <1>1, <1>2, <2>1, AfterExchange
  <2>3. ServedTypeOK' /\ CountCovers'
    BY <1>0, <2>1 DEF ServedInv, ServedTypeOK, CountCovers
  <2>4. ChannelOK' /\ HeldOK'
    BY <1>0, <1>2, <2>1, <2>2 DEF ServedInv, ChannelOK, HeldOK, Due
  <2>5. QED
    BY <2>1, <2>3, <2>4 DEF ServedInv
<1>3. CASE Works /\ UNCHANGED held /\ Goes(<<"close">>)
  <2>1. ProgramsOK' /\ RetryingOK' /\ Left(Client) = {"select"} /\ Left(Client)' = {"close"}
    BY <1>0, <1>3, ChannelTuples, ClientEnds
  <2>2. gIsInitlized' /\ channel \notin held /\ channel # BasicChannel
    BY <1>1, <1>3, <2>1, AfterExchange
  <2>3. ServedTypeOK' /\ CountCovers'
    BY <1>0, <2>1 DEF ServedInv, ServedTypeOK, CountCovers
  <2>4. ChannelOK'
    BY <1>0, <1>3, <2>1, <2>2 DEF ChannelOK, Due
  <2>5. HeldOK'
    BY <1>0, <1>3, <2>1, <2>2 DEF ServedInv, HeldOK, Due, Leaving, Entering, Opening
  <2>6. QED
    BY <2>1, <2>3, <2>4, <2>5 DEF ServedInv
<1>4. CASE Fail /\ UNCHANGED held /\ Goes(SeHalResetSe \o <<"logicalEnd">>)
  <2>1. gIsInitlized => gIsInitlized'
    BY <1>4, AfterExchange
  <2>2. ProgramsOK' /\ RetryingOK' /\ Left(Client)' = {"reset", "logicalEnd"}
    BY <1>0, <1>4, EndedPrograms, ClientEnds
  <2>3. QED
    BY <1>0, <1>4, <2>1, <2>2, PlainKeeps
<1>5. QED
  BY <1>2, <1>3, <1>4 DEF SelectLogical

\* The client opens the basic channel.
LEMMA SelectBasicKeeps ==
  ASSUME ServedInv, LibInv, SelectBasic
  PROVE  ServedInv'
<1>0. /\ At(Client, "selectBasic") /\ "selectBasic" \in Final \ Leaving
      /\ UNCHANGED <<mIsRunning, channel, cardChannels, isInited>>
      /\ cardChannels \subseteq Channels
  BY DEF SelectBasic, Local, local, retry, ServedInv, ServedTypeOK, Final, Leaving
<1>1. ASSUME Left(Client) = {"selectBasic"}
      PROVE  /\ BasicChannel \notin held /\ mOpenedchannelCount < 255
             /\ isInited[Client] => held = {}
  BY <1>1 DEF ServedInv, ChannelOK, HeldOK, Due, Opening
<1>2. CASE /\ Works /\ Goes(<<>>) /\ held' = held \cup {BasicChannel}
           /\ mOpenedChannels' = mOpenedChannels \cup {BasicChannel}
           /\ mOpenedchannelCount' = IF BasicChannel \in mOpenedChannels THEN mOpenedchannelCount
                                     ELSE Counted(mOpenedchannelCount)
  <2>1. ProgramsOK' /\ RetryingOK' /\ Left(Client) = {"selectBasic"} /\ Left(Client)' = {}
    BY <1>0, <1>2, Programs, ClientEnds
  <2>2. gIsInitlized' /\ mOpenedchannelCount < 255
    BY <1>1, <1>2, <2>1, AfterExchange
  <2>3. /\ Cardinality(mOpenedChannels) \in Nat
        /\ Cardinality(mOpenedChannels \cup {BasicChannel})
             = Cardinality(mOpenedChannels) + (IF BasicChannel \in mOpenedChannels THEN 0 ELSE 1)
        /\ Counted(mOpenedchannelCount) = mOpenedchannelCount + 1
    BY <2>2, TheChannels, Marks
  <2>4. ServedTypeOK' /\ CountCovers'
    BY <1>0, <1>2, <2>1, <2>2, <2>3, TheChannels DEF ServedInv, ServedTypeOK, CountCovers
  <2>5. ChannelOK' /\ HeldOK'
    BY <1>0, <1>2, <2>1, <2>2 DEF ServedInv, ChannelOK, HeldOK, Due
  <2>6. QED
    BY <2>1, <2>4, <2>5 DEF ServedInv
<1>3. CASE /\ Works \/ Fail
           /\ Goes(<<"basicFailed">>) \/ Goes(SeHalResetSe \o <<"basicFailed">>)
           /\ UNCHANGED <<channels, held>>
  <2>1. ProgramsOK' /\ RetryingOK' /\ Left(Client) = {"selectBasic"}
        /\ Left(Client)' \subseteq {"reset", "basicFailed"}
    BY <1>0, <1>3, EndedPrograms, ClientEnds
  <2>2. /\ gIsInitlized => gIsInitlized'
        /\ UNCHANGED <<mOpenedchannelCount, mOpenedChannels>>
    BY <1>3, AfterExchange DEF channels
  <2>3. ServedTypeOK' /\ CountCovers'
    BY <1>0, <2>1, <2>2 DEF ServedInv, ServedTypeOK, CountCovers
  <2>4. ChannelOK'
    BY <1>0, <1>1, <1>3, <2>1 DEF ChannelOK, Due
  <2>5. HeldOK'
    BY <1>0, <1>1, <1>3, <2>1, <2>2 DEF ServedInv, HeldOK, Due, Leaving, Entering, Opening
  <2>6. QED
    BY <2>1, <2>3, <2>4, <2>5 DEF ServedInv
<1>4. QED
  BY <1>2, <1>3 DEF SelectBasic

LEMMA BasicFailedKeeps ==
  ASSUME ServedInv, BasicFailed
  PROVE  ServedInv'
<1>0. /\ At(Client, "basicFailed") /\ "basicFailed" \in Final \ Leaving
      /\ UNCHANGED <<gIsInitlized, mIsRunning, channels, cardChannels, isInited, held>>
      /\ cardChannels \subseteq Channels
  BY DEF BasicFailed, vars, lib, local, retry, ServedInv, ServedTypeOK, Final, Leaving
<1>1. ASSUME Left(Client) = {"basicFailed"}
      PROVE  BasicChannel \notin held /\ (isInited[Client] => held = {})
  BY <1>1 DEF ServedInv, ChannelOK, HeldOK, Due, Opening
<1>2. CASE BasicChannel \in mOpenedChannels /\ channel' = BasicChannel /\ Goes(<<"close">>)
  <2>1. ProgramsOK' /\ RetryingOK' /\ Left(Client) = {"basicFailed"} /\ Left(Client)' = {"close"}
    BY <1>0, <1>2, ChannelTuples, ClientEnds
  <2>2. UNCHANGED <<mOpenedchannelCount, mOpenedChannels>>
    BY <1>0 DEF channels
  <2>3. ServedTypeOK' /\ CountCovers'
    BY <1>0, <1>2, <2>1, <2>2, TheChannels DEF ServedInv, ServedTypeOK, CountCovers
  <2>4. ChannelOK'
    BY <1>0, <1>1, <1>2, <2>1, <2>2 DEF ChannelOK, Due
  <2>5. HeldOK'
    BY <1>0, <2>1, <2>2 DEF ServedInv, HeldOK, Due, Leaving, Entering, Opening
  <2>6. QED
    BY <2>1, <2>3, <2>4, <2>5 DEF ServedInv
<1>3. CASE isInited[Client] /\ Goes(SeHalDeInit \o <<"basicEnd">>) /\ UNCHANGED channel
  <2>1. /\ ProgramsOK' /\ RetryingOK' /\ Left(Client) = {"basicFailed"}
        /\ Left(Client)' = {"deinit", "deinitClose", "forget", "basicEnd"}
    BY <1>0, <1>3, EndedPrograms, ClientEnds
  <2>2. held' = {} /\ Left(Client)' \cap (ChannelSections \cup {"manage", "selectBasic"}) = {}
    BY <1>0, <1>1, <1>3, <2>1 DEF ChannelSections
  <2>3. QED
    BY <1>0, <1>3, <2>1, <2>2, OutsideKeeps
<1>4. CASE Goes(<<>>) /\ UNCHANGED channel
  <2>1. ProgramsOK' /\ RetryingOK' /\ Left(Client)' = {}
    BY <1>0, <1>4, Programs, ClientEnds
  <2>2. QED
    BY <1>0, <1>4, <2>1, PlainKeeps
<1>5. QED
  BY <1>2, <1>3, <1>4 DEF BasicFailed

LEMMA EndKeeps ==
  ASSUME ServedInv, LogicalEnd \/ BasicEnd
  PROVE  ServedInv'
<1>1. PICK s \in {"logicalEnd", "basicEnd"} : At(Client, s) /\ Goes(<<>>)
  BY DEF LogicalEnd, BasicEnd
<1>2. /\ UNCHANGED <<gIsInitlized, mIsRunning, channels, channel, cardChannels, isInited, held>>
      /\ cardChannels \subseteq Channels /\ s \in Final \ Leaving
  BY DEF LogicalEnd, BasicEnd, vars, lib, local, retry, ServedInv, ServedTypeOK, Final, Leaving
<1>3. ProgramsOK' /\ RetryingOK' /\ Left(Client)' = {}
  BY <1>1, <1>2, Programs, ClientEnds
<1>4. QED
  BY <1>2, <1>3, PlainKeeps

\* The client closes a channel.
LEMMA ChannelCloseKeeps ==
  ASSUME ServedInv, LibInv, Close
  PROVE  ServedInv'
<1>1. /\ At(Client, "close") /\ "close" \in Final \ Leaving
      /\ UNCHANGED <<mIsRunning, mOpenedchannelCount, mOpenedChannels, channel, isInited, held>>
  <2>1. At(Client, "close") /\ Local /\ UNCHANGED <<channels, retry, channel, held>>
    BY DEF Close
  <2>2. "close" \in Final \ Leaving
    BY DEF Final, Leaving
  <2>3. QED
    BY <2>1, <2>2 DEF Local, local, retry, channels
<1>2. cardChannels' = cardChannels \/ cardChannels' = cardChannels \ {channel}
  BY DEF Close
<1>3. gIsInitlized => gIsInitlized'
  BY AfterExchange DEF Close, lib
<1>4. \/ Goes(<<"last">>)
      \/ Goes(<<"uncount", "last">>) /\ (channel = BasicChannel \/ channel \in mOpenedChannels)
  BY DEF Close
<1>5. /\ ProgramsOK' /\ RetryingOK' /\ Left(Client) = {"close"}
      /\ \/ Left(Client)' = {"last"}
         \/ /\ Left(Client)' = {"uncount", "last"}
            /\ channel = BasicChannel \/ channel \in mOpenedChannels
  BY <1>1, <1>4, ChannelTuples, ClientEnds
<1>6. channel \notin held /\ (channel = BasicChannel => channel \in mOpenedChannels)
  BY <1>5 DEF ServedInv, ChannelOK, Due
<1>7. ServedTypeOK' /\ CountCovers'
  BY <1>1, <1>2, <1>5 DEF ServedInv, ServedTypeOK, CountCovers
<1>8. ChannelOK'
  BY <1>1, <1>5, <1>6 DEF ChannelOK, Due
<1>9. HeldOK'
  BY <1>1, <1>2, <1>3, <1>5, <1>6 DEF ServedInv, HeldOK, Due, Leaving, Entering, Opening
<1>10. QED
  BY <1>5, <1>7, <1>8, <1>9 DEF ServedInv

LEMMA UncountKeeps ==
  ASSUME ServedInv, Uncount
  PROVE  ServedInv'
<1>1. /\ At(Client, "uncount") /\ Goes(<<>>)
      /\ mOpenedChannels' = mOpenedChannels \ {channel}
      /\ mOpenedchannelCount' = IF mOpenedchannelCount > 0 THEN mOpenedchannelCount - 1 ELSE 0
      /\ UNCHANGED <<gIsInitlized, isInited, mIsRunning, channel, cardChannels, held>>
  BY DEF Uncount, vars, lib, local, retry
<1>2. /\ ProgramsOK' /\ RetryingOK' /\ Left(Client) = {"uncount", "last"}
      /\ Left(Client)' = {"last"}
  BY <1>1, ChannelPops
<1>3. /\ channel \in mOpenedChannels \ held /\ channel \in Channels
      /\ mOpenedchannelCount \in 0..255
      /\ Cardinality(mOpenedChannels) <= mOpenedchannelCount
  BY <1>2 DEF ServedInv, ServedTypeOK, ChannelOK, Due, CountCovers
<1>4. /\ mOpenedchannelCount' \in 0..255
      /\ Cardinality(mOpenedChannels') <= mOpenedchannelCount'
  <2>1. /\ Cardinality(mOpenedChannels) \in Nat
        /\ Cardinality(mOpenedChannels \ {channel}) = Cardinality(mOpenedChannels) - 1
        /\ Cardinality(mOpenedChannels \ {channel}) \in Nat
    BY <1>3, Marks
  <2>2. QED
    BY <1>1, <1>3, <2>1
<1>5. ServedTypeOK' /\ CountCovers'
  BY <1>1, <1>2, <1>4 DEF ServedInv, ServedTypeOK, CountCovers
<1>6. ChannelOK'
  BY <1>2 DEF ChannelOK, Due
<1>7. HeldOK'
  BY <1>1, <1>2, <1>3 DEF ServedInv, HeldOK, Due, Leaving, Entering, Opening
<1>8. QED
  BY <1>2, <1>5, <1>6, <1>7 DEF ServedInv

LEMMA LastKeeps ==
  ASSUME ServedInv, Last
  PROVE  ServedInv'
<1>1. /\ At(Client, "last") /\ "last" \in Final \ Leaving /\ cardChannels \subseteq Channels
      /\ UNCHANGED <<gIsInitlized, isInited, channels, mIsRunning, channel, cardChannels, held>>
  BY DEF Last, vars, lib, local, service, retry, ServedInv, ServedTypeOK, Final, Leaving
<1>2. CASE mOpenedchannelCount = 0 /\ Goes(SeHalDeInit)
  <2>1. /\ ProgramsOK' /\ RetryingOK' /\ Left(Client)' = {"deinit", "deinitClose", "forget"}
    BY <1>1, <1>2, Programs, Bodies, ClientEnds
  <2>2. held = {}
    <3>1. Cardinality(mOpenedChannels) <= 0 /\ Cardinality(mOpenedChannels) \in Nat
      BY <1>2, TheChannels, Marks DEF ServedInv, CountCovers
    <3>2. IsFiniteSet(mOpenedChannels) /\ Cardinality(mOpenedChannels) = 0
      BY <3>1, TheChannels, FS_Subset DEF ServedInv, ServedTypeOK
    <3>3. mOpenedChannels = {}
      BY <3>2, FS_EmptySet
    <3>4. QED
      BY <3>3 DEF ServedInv, HeldOK
  <2>3. Left(Client)' \cap (ChannelSections \cup {"manage", "selectBasic"}) = {}
    BY <2>1 DEF ChannelSections
  <2>4. QED
    BY <1>1, <2>1, <2>2, <2>3, OutsideKeeps
<1>3. CASE Goes(<<>>)
  <2>1. ProgramsOK' /\ RetryingOK' /\ Left(Client)' = {}
    BY <1>1, <1>3, Programs, ClientEnds
  <2>2. QED
    BY <1>1, <2>1, PlainKeeps
<1>4. QED
  BY <1>2, <1>3 DEF Last

LEMMA UnregisterKeeps ==
  ASSUME ServedInv, Unregister
  PROVE  ServedInv'
<1>1. /\ At(Client, "unregister") /\ Goes(<<>>)
      /\ UNCHANGED <<gIsInitlized, isInited, channels, mIsRunning, channel, cardChannels, held>>
      /\ cardChannels \subseteq Channels /\ ProgramsOK /\ "unregister" \in Final
  BY DEF Unregister, vars, lib, local, retry, ServedInv, ServedTypeOK, Final
<1>2. ProgramsOK' /\ Left(Client)' = {} /\ Left(Retrier)' = Left(Retrier)
  BY <1>1, TheWorkers, Programs, Ends DEF Goes
<1>3. RetryingOK'
  BY <1>1, <1>2 DEF ServedInv, RetryingOK
<1>4. QED
  BY <1>1, <1>2, <1>3, PlainKeeps

LEMMA ServedInit == ServiceInit => ServedInv
<1> SUFFICES ASSUME ServiceInit PROVE ServedInv
  OBVIOUS
<1>1. DOMAIN todo = Workers /\ \A w \in Workers : todo[w] = <<>>
  BY DEF ServiceInit
<1>2. ProgramsOK /\ \A w \in Workers : Left(w) = {}
  BY <1>1, Programs DEF ProgramsOK, Left
<1>3. Left(Client) = {} /\ Left(Retrier) = {}
  BY <1>2, TheWorkers
<1>4. ServedTypeOK /\ CountCovers
  BY <1>2, TheChannels DEF ServiceInit, ServedTypeOK, CountCovers
<1>5. RetryingOK /\ ChannelOK /\ HeldOK
  BY <1>3 DEF ServiceInit, RetryingOK, ChannelOK, HeldOK, Due
<1>6. QED
  BY <1>4, <1>5 DEF ServedInv

LEMMA ServedStep ==
  ASSUME Alone, ServiceHoldInv, ServedInv, [ServiceNext]_serviceVars
  PROVE  ServedInv'
<1>0. LibInv /\ Client \in Workers /\ Retrier \in Workers
  BY TheWorkers DEF ServiceHoldInv, HoldInv, CountInv
<1>1. CASE Call
  BY <1>1, CallKeeps
<1>2. CASE Continue
  <2>1. CASE Ready \/ InitEnd \/ InitedLogical \/ InitedBasic
    BY <2>1, PreparingKeeps
  <2>2. CASE Manage \/ Note \/ SelectLogical
    BY <1>0, <2>2, ManageKeeps, NoteKeeps, SelectLogicalKeeps
  <2>3. CASE SelectBasic \/ BasicFailed
    BY <1>0, <2>3, SelectBasicKeeps, BasicFailedKeeps
  <2>4. CASE LogicalEnd \/ BasicEnd
    BY <2>4, EndKeeps
  <2>5. CASE Close \/ Uncount \/ Last
    BY <1>0, <2>5, ChannelCloseKeeps, UncountKeeps, LastKeeps
  <2>6. CASE Unregister
    BY <2>6, UnregisterKeeps
  <2>7. CASE LibrarySection(Client)
    BY <1>0, <2>7, LibrarySectionKeeps
  <2>8. QED
    BY <1>2, <2>1, <2>2, <2>3, <2>4, <2>5, <2>6, <2>7 DEF Continue
<1>3. CASE RetryThread
  BY <1>0, <1>3, RetryKeeps
<1>4. CASE Others
  BY <1>4 DEF Others, Alone
<1>5. CASE UNCHANGED serviceVars
  <2>1. UNCHANGED <<todo, gIsInitlized, isInited, mIsRunning, channels, channel, cardChannels, held>>
    BY <1>5 DEF serviceVars, vars, lib, local, service, retry
  <2>2. UNCHANGED <<mOpenedchannelCount, mOpenedChannels>> /\ \A w : Left(w)' = Left(w)
    BY <2>1 DEF channels, Left
  <2>3. ServedTypeOK' /\ CountCovers'
    BY <2>1, <2>2 DEF ServedInv, ServedTypeOK, CountCovers, ProgramsOK
  <2>4. RetryingOK'
    BY <2>1, <2>2 DEF ServedInv, RetryingOK
  <2>5. \A S : Due(S)' <=> Due(S)
    BY <2>2 DEF Due
  <2>6. ChannelOK' /\ HeldOK'
    BY <2>1, <2>2, <2>5 DEF ServedInv, ChannelOK, HeldOK
  <2>7. QED
    BY <2>3, <2>4, <2>6 DEF ServedInv
<1>6. QED
  BY <1>1, <1>2, <1>3, <1>4, <1>5 DEF ServiceNext

\* Nothing deinitialises the library under an open channel: as long as the
\* client holds one it was given and was not told is gone, the library is
\* initialised on an open device, whatever fails, is refused or is lost, and
\* also across the retry thread and the client's death.  The client makes its
\* calls one at a time, waits for the retry thread and closes only what it
\* holds, and no client of ITmsEse runs beside it (SecureElement.cpp:491-495).
THEOREM HeldChannelServed == Alone => (ServiceSpec => []HeldChannelIsServed)
<1> SUFFICES ASSUME Alone PROVE ServiceSpec => []HeldChannelIsServed
  OBVIOUS
<1>1. ServiceInit => ServiceHoldInv /\ ServedInv
  BY ServiceHoldInit, ServedInit
<1>2. ServiceHoldInv /\ ServedInv /\ [ServiceNext]_serviceVars => ServiceHoldInv' /\ ServedInv'
  BY ServiceHoldStep, ServedStep
<1>3. ServiceHoldInv /\ ServedInv => HeldChannelIsServed
  BY DEF ServiceHoldInv, HoldInv, CountInv, LibInv, OpenIffReferenced, ServedInv, HeldOK,
         HeldChannelIsServed
<1>4. QED
  BY <1>1, <1>2, <1>3, PTL DEF ServiceSpec

\* A close gives the library back only when no channel is left: every channel
\* that is marked open is in the count, also when the card opened, closed or
\* forgot channels in exchanges that failed, after resets, beside the retry
\* thread and at the client's death (SecureElement.cpp:491-495).  Alone is
\* needed: a client that closes channel 0 without having opened it, or calls
\* while the retry thread runs, makes the count fall below the marks.
THEOREM ClosesWithoutOpenChannels == Alone => (ServiceSpec => []ClosesWithoutChannels)
<1> SUFFICES ASSUME Alone PROVE ServiceSpec => []ClosesWithoutChannels
  OBVIOUS
<1>1. ServiceInit => ServiceHoldInv /\ ServedInv
  BY ServiceHoldInit, ServedInit
<1>2. ServiceHoldInv /\ ServedInv /\ [ServiceNext]_serviceVars => ServiceHoldInv' /\ ServedInv'
  BY ServiceHoldStep, ServedStep
<1>3. ServedInv => ClosesWithoutChannels
  <2> SUFFICES ASSUME ServedInv, mOpenedchannelCount = 0 PROVE mOpenedChannels = {}
    BY DEF ClosesWithoutChannels
  <2>1. IsFiniteSet(mOpenedChannels)
    BY TheChannels, FS_Subset DEF ServedInv, ServedTypeOK
  <2>2. Cardinality(mOpenedChannels) \in Nat /\ Cardinality(mOpenedChannels) <= 0
    BY <2>1, FS_CardinalityType DEF ServedInv, CountCovers
  <2>3. QED
    BY <2>1, <2>2, FS_EmptySet
<1>4. QED
  BY <1>1, <1>2, <1>3, PTL DEF ServiceSpec

-----------------------------------------------------------------------------
(***************************************************************************)
(* The count of the channels and their marks.                              *)
(***************************************************************************)
\* Sections that take the library down, and what is left to do of the call
\* that does so when the client dies.
Shutting == {"deinit", "deinitClose", "forget"}
DeathPrograms == {<<"deinit", "deinitClose", "forget", "unregister">>,
                  <<"deinitClose", "forget", "unregister">>, <<"forget", "unregister">>}

CountExact == mOpenedchannelCount = Cardinality(mOpenedChannels)

\* The channel the card has just opened is not marked yet.
FreshOK == Due({"note"}) => gIsInitlized /\ channel \notin mOpenedChannels

InCard == gIsInitlized /\ mOpenedChannels \ {BasicChannel} \subseteq cardChannels

\* A marked channel is open in the card, except where the section the client
\* is about to run takes the mark away; and the library goes down under it
\* only when the client dies.
MarksOK ==
  mOpenedChannels # {} =>
    /\ ~mIsRunning /\ ~Due(Entering \cup {"initedLogical", "initedBasic"})
    /\ isInited[Client] => ~Due(Opening)
    /\ Due(Shutting) => todo[Client] \in DeathPrograms
    /\ \/ InCard
       \/ At(Client, "resetDone") /\ status[Client] = "SUCCESS"
       \/ /\ At(Client, "uncount") /\ gIsInitlized
          /\ mOpenedChannels \ {BasicChannel, channel} \subseteq cardChannels
       \/ At(Client, "deinitClose") /\ device
       \/ At(Client, "forget") /\ status[Client] = "SUCCESS"

MarkedInv == CountExact /\ FreshOK /\ MarksOK

\* The sections before which a mark may be one the card does not know.
Taking == Shutting \cup {"resetDone", "uncount"}

\* Sections that are due only under conditions.
Delicate == Entering \cup Opening \cup Shutting \cup {"note"}

\* Without a mark there is nothing to keep.
LEMMA StillNone ==
  ASSUME MarkedInv, mOpenedChannels = {}, UNCHANGED channels \/ NoChannels, ~Due({"note"})'
  PROVE  MarkedInv'
<1>1. mOpenedChannels' = {} /\ mOpenedchannelCount' = 0
  BY TheChannels DEF channels, NoChannels, MarkedInv, CountExact
<1>2. QED
  BY <1>1, TheChannels DEF MarkedInv, CountExact, FreshOK, MarksOK

LEMMA MarksCleared ==
  ASSUME NoChannels, ~Due({"note"})'
  PROVE  MarkedInv'
BY TheChannels DEF NoChannels, MarkedInv, CountExact, FreshOK, MarksOK

\* A step that leaves the marks alone.
LEMMA MarksCarried ==
  ASSUME MarkedInv, UNCHANGED channels, ~Due({"note"})',
         mOpenedChannels # {} =>
           /\ InCard' /\ ~mIsRunning' /\ ~Due(Entering \cup {"initedLogical", "initedBasic"})'
           /\ isInited'[Client] => ~Due(Opening)'
           /\ Due(Shutting)' => todo'[Client] \in DeathPrograms
  PROVE  MarkedInv'
<1>1. UNCHANGED <<mOpenedchannelCount, mOpenedChannels>>
  BY DEF channels
<1>2. CountExact' /\ FreshOK'
  BY <1>1 DEF MarkedInv, CountExact, FreshOK
<1>3. MarksOK'
  BY <1>1 DEF MarksOK
<1>4. QED
  BY <1>2, <1>3 DEF MarkedInv

\* What is left of a dying client's call begins with taking the library down.
LEMMA DeathHeads ==
  ASSUME NEW p \in DeathPrograms
  PROVE  p # <<>> /\ Head(p) \in Shutting
<1>1. \/ p = <<"deinit", "deinitClose", "forget", "unregister">>
      \/ p = <<"deinitClose", "forget", "unregister">>
      \/ p = <<"forget", "unregister">>
  BY DEF DeathPrograms
<1>2. CASE p = <<"deinit", "deinitClose", "forget", "unregister">>
  BY <1>2 DEF Shutting
<1>3. CASE p = <<"deinitClose", "forget", "unregister">>
  BY <1>3 DEF Shutting
<1>4. CASE p = <<"forget", "unregister">>
  BY <1>4 DEF Shutting
<1>5. QED
  BY <1>1, <1>2, <1>3, <1>4

\* It goes on section by section.
LEMMA DeathTails ==
  ASSUME NEW p \in DeathPrograms, NEW r, r = <<>> \o Tail(p)
  PROVE  /\ Head(p) = "deinit" => r = <<"deinitClose", "forget", "unregister">>
         /\ Head(p) = "deinitClose" => r = <<"forget", "unregister">>
         /\ Head(p) = "forget" => r = <<"unregister">>
<1>1. \/ p = <<"deinit", "deinitClose", "forget", "unregister">>
      \/ p = <<"deinitClose", "forget", "unregister">>
      \/ p = <<"forget", "unregister">>
  BY DEF DeathPrograms
<1>2. CASE p = <<"deinit", "deinitClose", "forget", "unregister">>
  <2>1. Head(p) = "deinit" /\ Tail(p) = <<"deinitClose", "forget", "unregister">>
    BY <1>2
  <2>2. r = <<"deinitClose", "forget", "unregister">>
    BY <2>1
  <2>3. QED
    BY <2>1, <2>2
<1>3. CASE p = <<"deinitClose", "forget", "unregister">>
  <2>1. Head(p) = "deinitClose" /\ Tail(p) = <<"forget", "unregister">>
    BY <1>3
  <2>2. r = <<"forget", "unregister">>
    BY <2>1
  <2>3. QED
    BY <2>1, <2>2
<1>4. CASE p = <<"forget", "unregister">>
  <2>1. Head(p) = "forget" /\ Tail(p) = <<"unregister">>
    BY <1>4
  <2>2. r = <<"unregister">>
    BY <2>1
  <2>3. QED
    BY <2>1, <2>2
<1>5. QED
  BY <1>1, <1>2, <1>3, <1>4

\* Between calls and before most sections the marked channels are in the card.
LEMMA MarksInCard ==
  ASSUME MarkedInv, mOpenedChannels # {},
         Idle \/ \E s : At(Client, s) /\ s \notin Taking
  PROVE  InCard /\ ~mIsRunning /\ ~Due(Shutting)
<1>1. ASSUME NEW s \in Taking PROVE ~At(Client, s)
  BY <1>1 DEF At, Idle
<1>2. {"deinit", "deinitClose", "forget", "resetDone", "uncount"} \subseteq Taking
  BY DEF Taking, Shutting
<1>3. todo[Client] \notin DeathPrograms
  BY <1>1, DeathHeads DEF At, Taking
<1>4. QED
  BY <1>1, <1>2, <1>3 DEF MarkedInv, MarksOK

\* A step to sections that ask nothing of the marks.
LEMMA MarksPlain ==
  ASSUME MarkedInv, Idle \/ \E s : At(Client, s) /\ s \notin Taking,
         UNCHANGED <<channels, mIsRunning>>, isInited'[Client] => isInited[Client],
         gIsInitlized => gIsInitlized', cardChannels \subseteq cardChannels',
         Left(Client)' \cap Delicate \subseteq Left(Client) \ {"note"}
  PROVE  MarkedInv'
<1>1. ~Due({"note"})'
  BY DEF Due, Delicate
<1>2. ASSUME mOpenedChannels # {}
      PROVE  /\ InCard' /\ ~mIsRunning' /\ ~Due(Entering \cup {"initedLogical", "initedBasic"})'
             /\ isInited'[Client] => ~Due(Opening)'
             /\ ~Due(Shutting)'
  <2>1. /\ InCard /\ ~mIsRunning /\ ~Due(Shutting)
        /\ ~Due(Entering \cup {"initedLogical", "initedBasic"})
        /\ isInited[Client] => ~Due(Opening)
    BY <1>2, MarksInCard DEF MarkedInv, MarksOK
  <2>2. InCard'
    BY <2>1 DEF InCard, channels
  <2>3. \A S : S \subseteq Delicate => (Due(S)' => Due(S))
    BY DEF Due
  <2>4. /\ Entering \cup {"initedLogical", "initedBasic"} \subseteq Delicate
        /\ Opening \subseteq Delicate /\ Shutting \subseteq Delicate
    BY DEF Delicate, Opening
  <2>5. QED
    BY <2>1, <2>2, <2>3, <2>4
<1>3. QED
  BY <1>1, <1>2, MarksCarried

\* Nothing is marked where the library is not up.
LEMMA Unmarked ==
  ASSUME ServedInv, MarkedInv, NEW s, At(Client, s),
         \/ s \in Entering \cup {"initedLogical", "initedBasic"}
         \/ s \in Opening /\ isInited[Client]
         \/ s \notin Taking /\ ~gIsInitlized
  PROVE  mOpenedChannels = {}
<1>1. todo[Client] \in Seq(Parts) /\ todo[Client] # <<>> /\ Head(todo[Client]) = s
  BY TheWorkers DEF ServedInv, ServedTypeOK, ProgramsOK, ProgramOK, At
<1>2. s \in Left(Client)
  BY <1>1, PopParts DEF Left
<1>3. s \notin Taking /\ mOpenedChannels # {} => gIsInitlized
  BY MarksInCard DEF InCard
<1>4. QED
  BY <1>2, <1>3 DEF MarkedInv, MarksOK, Due

-----------------------------------------------------------------------------
\* The client starts a call.
LEMMA BeginsMarked ==
  ASSUME ServedInv, ServiceHoldInv, MarkedInv, Alone, CanCall,
         NEW check \in {"initedLogical", "initedBasic"}, NEW after, ProgramOK(after),
         Range(after) \subseteq {"deinit", "deinitClose", "forget", "manage", "selectBasic"},
         gIsInitlized => Range(after) \subseteq {"manage", "selectBasic"},
         Begins(check, after)
  PROVE  MarkedInv'
<1>1. /\ isInited' = [isInited EXCEPT ![Client] = ~gIsInitlized]
      /\ UNCHANGED <<gIsInitlized, channels, mIsRunning, cardChannels>>
      /\ Start(IF gIsInitlized THEN after ELSE SeHalInit \o <<check>> \o after)
  BY DEF Begins, lib, retry
<1>2. isInited'[Client] <=> ~gIsInitlized
  BY <1>1, TheWorkers DEF ServiceHoldInv, HoldInv, LocalTypeOK
<1>3. Idle
  BY DEF CanCall
<1>4. CASE gIsInitlized
  <2>1. Start(after)
    BY <1>1, <1>4
  <2>2. ProgramsOK' /\ Left(Client)' = Range(after)
    BY <1>1, <2>1, CallsAlone
  <2>3. ~Due({"note"})' /\ ~Due(Shutting)' /\ ~Due(Entering \cup {"initedLogical", "initedBasic"})'
    BY <1>4, <2>2 DEF Due, Entering, Shutting
  <2>4. mOpenedChannels # {} => InCard' /\ ~mIsRunning'
    BY <1>1, <1>3, MarksInCard DEF InCard, channels
  <2>5. QED
    BY <1>1, <1>2, <1>4, <2>3, <2>4, MarksCarried
<1>5. CASE ~gIsInitlized
  <2>1. mOpenedChannels = {}
    BY <1>3, <1>5, MarksInCard DEF InCard
  <2>2. check \in Parts /\ {check} \cap (Final \cup ChannelSections) = {}
        /\ Range(SeHalInit) \cap (Final \cup ChannelSections) = {}
    BY Bodies DEF Parts, Final, ChannelSections
  <2>3. <<check>> \in Seq(Parts) /\ Range(<<check>>) = {check}
    BY <2>2, One
  <2>4. SeHalInit \o <<check>> \in Seq(Parts)
        /\ Range(SeHalInit \o <<check>>) = Range(SeHalInit) \cup {check}
    BY <2>3, Bodies, Joined
  <2>5. after \in Seq(Parts) /\ EndsIn(after) /\ Range(after) \cap ChannelSections = {}
    BY DEF ProgramOK, ChannelSections
  <2>6. /\ ProgramOK(SeHalInit \o <<check>> \o after)
        /\ Range(SeHalInit \o <<check>> \o after) = Range(SeHalInit \o <<check>>) \cup Range(after)
    BY <2>2, <2>4, <2>5, JoinedPrograms
  <2>7. Start(SeHalInit \o <<check>> \o after)
    BY <1>1, <1>5
  <2>8. Left(Client)' = Range(SeHalInit \o <<check>> \o after)
    BY <1>1, <2>6, <2>7, CallsAlone
  <2>9. ~Due({"note"})'
    BY <2>4, <2>6, <2>8, Bodies DEF Due
  <2>10. QED
    BY <1>1, <2>1, <2>9, StillNone
<1>6. QED
  BY <1>4, <1>5

\* Three sections and one more.
LEMMA FourOf ==
  ASSUME NEW a, NEW b, NEW c, NEW d
  PROVE  <<a, b, c>> \o <<d>> = <<a, b, c, d>>
<1> DEFINE S == {a, b, c, d}
           p == <<a, b, c>>
           q == <<d>>
           r == <<a, b, c, d>>
<1>1. p \in Seq(S) /\ q \in Seq(S) /\ r \in Seq(S)
  OBVIOUS
<1>2. Len(p) = 3 /\ Len(q) = 1 /\ Len(r) = 4
  OBVIOUS
<1>3. p[1] = a /\ p[2] = b /\ p[3] = c /\ q[1] = d
  OBVIOUS
<1>4. r[1] = a /\ r[2] = b /\ r[3] = c /\ r[4] = d
  OBVIOUS
<1> HIDE DEF S, p, q, r
<1>5. /\ p \o q \in Seq(S) /\ Len(p \o q) = 4
      /\ \A i \in 1..4 : (p \o q)[i] = IF i <= 3 THEN p[i] ELSE q[i - 3]
  <2>1. /\ p \o q \in Seq(S) /\ Len(p \o q) = Len(p) + Len(q)
        /\ \A i \in 1..(Len(p) + Len(q)) :
             (p \o q)[i] = IF i <= Len(p) THEN p[i] ELSE q[i - Len(p)]
    BY <1>1, ConcatProperties
  <2>2. QED
    BY <1>2, <2>1
<1>6. \A i \in 1..4 : (p \o q)[i] = r[i]
  BY <1>3, <1>4, <1>5
<1>7. p \o q = r
  BY <1>1, <1>2, <1>5, <1>6, SeqEqual
<1>8. QED
  BY <1>7 DEF p, q, r

\* The client dies, and the library is taken down under its channels.
LEMMA DiesMarked ==
  ASSUME ServedInv, MarkedInv, Dies
  PROVE  MarkedInv'
<1> DEFINE n == SeHalDeInit \o <<"unregister">>
<1>1. /\ Idle /\ Start(n)
      /\ UNCHANGED <<gIsInitlized, isInited, channels, mIsRunning, cardChannels>>
  BY DEF Dies, retry, vars, lib, local
<1>2. ProgramOK(n) /\ Range(n) = Leaving
  <2>1. "unregister" \in Parts \ ChannelSections
    BY DEF Parts, Final, ChannelSections
  <2>2. <<"unregister">> \in Seq(Parts) /\ Range(<<"unregister">>) = {"unregister"} /\ EndsIn(<<"unregister">>)
    BY <2>1, One
  <2>3. /\ Range(SeHalDeInit) \cap (Final \cup ChannelSections) = {}
        /\ Range(<<"unregister">>) \cap ChannelSections = {}
    BY <2>2, Bodies DEF Final, ChannelSections
  <2>4. ProgramOK(n) /\ Range(n) = Range(SeHalDeInit) \cup Range(<<"unregister">>)
    BY <2>2, <2>3, Bodies, JoinedPrograms
  <2>5. QED
    BY <2>2, <2>4, Bodies DEF Leaving
<1>3. n = <<"deinit", "deinitClose", "forget", "unregister">>
  BY FourOf DEF SeHalDeInit
<1> HIDE DEF n
<1>4. Left(Client)' = Leaving
  BY <1>1, <1>2, Starts DEF ServedInv, ServedTypeOK
<1>5. todo'[Client] \in DeathPrograms
  BY <1>1, <1>3, TheWorkers DEF Start, DeathPrograms, ServedInv, ServedTypeOK, ProgramsOK
<1>6. ~Due({"note"})' /\ ~Due(Entering \cup {"initedLogical", "initedBasic"})' /\ ~Due(Opening)'
  BY <1>4 DEF Due, Leaving, Entering, Opening
<1>7. mOpenedChannels # {} => InCard' /\ ~mIsRunning'
  BY <1>1, MarksInCard DEF InCard, channels
<1>8. QED
  BY <1>1, <1>5, <1>6, <1>7, MarksCarried

LEMMA CallMarked ==
  ASSUME ServedInv, ServiceHoldInv, MarkedInv, Alone, Call
  PROVE  MarkedInv'
<1>0. ProgramsOK /\ LibInv
  BY DEF ServedInv, ServedTypeOK, ServiceHoldInv, HoldInv, CountInv
<1>1. CASE Register
  <2> DEFINE checks == <<"ready", "deinit", "deinitClose", "initEnd">>
             n == IF gIsInitlized THEN <<>> ELSE SeHalInit \o checks
  <2>1. /\ Idle /\ (Patient => ~mIsRunning) /\ Start(n)
        /\ UNCHANGED <<gIsInitlized, isInited, channels, mIsRunning, cardChannels>>
    BY <1>1 DEF Register, vars, lib, local, retry
  <2>2. CASE gIsInitlized
    <3>1. Start(<<>>)
      BY <2>1, <2>2
    <3>2. Left(Client)' = {}
      BY <1>0, <3>1, <2>1, Programs, Starts
    <3>3. QED
      BY <2>1, <3>2, MarksPlain
  <2>3. CASE ~gIsInitlized
    <3>1. mOpenedChannels = {}
      BY <2>1, <2>3, MarksInCard DEF InCard
    <3>2. {"ready", "deinit", "deinitClose", "initEnd"} \subseteq Parts
      BY DEF Parts, Within, Final
    <3>3. checks \in Seq(Parts) /\ Range(checks) = {"ready", "deinit", "deinitClose", "initEnd"}
      BY <3>2, Four
    <3>4. n = SeHalInit \o checks
      BY <2>3
    <3> HIDE DEF checks
    <3>5. n \in Seq(Parts) /\ Range(n) = Range(SeHalInit) \cup Range(checks)
      BY <3>3, <3>4, Bodies, Joined
    <3> HIDE DEF n
    <3>6. Left(Client)' = Range(n)
      BY <1>0, <2>1, TheWorkers DEF Start, Left, ProgramsOK
    <3>7. ~Due({"note"})'
      BY <3>3, <3>5, <3>6, Bodies DEF Due
    <3>8. QED
      BY <2>1, <3>1, <3>7, StillNone
  <2>4. QED
    BY <2>2, <2>3
<1>2. CASE GetAtr
  <2>1. CanCall /\ Begins("initedLogical", IF gIsInitlized THEN <<>> ELSE SeHalDeInit)
    BY <1>2 DEF GetAtr
  <2>2. CASE gIsInitlized
    <3>1. Begins("initedLogical", <<>>)
      BY <2>1, <2>2
    <3>2. QED
      BY <2>1, <3>1, Programs, BeginsMarked
  <2>3. CASE ~gIsInitlized
    <3>1. Begins("initedLogical", SeHalDeInit)
      BY <2>1, <2>3
    <3>2. QED
      BY <2>1, <2>3, <3>1, Programs, Bodies, BeginsMarked
  <2>4. QED
    BY <2>2, <2>3
<1>3. CASE Transmit \/ Reset
  <2>1. /\ CanCall /\ UNCHANGED <<isInited, channels, mIsRunning, cardChannels>>
        /\ gIsInitlized => gIsInitlized'
        /\ UNCHANGED todo \/ Start(SeHalResetSe)
    <3>1. CASE Transmit
      <4>1. SeUse
        BY <3>1 DEF Transmit, Works, Fail
      <4>2. gIsInitlized => gIsInitlized'
        BY <1>0, <4>1, UseStays
      <4>3. QED
        BY <3>1, <4>2 DEF Transmit, Local, local, service, retry
    <3>2. CASE Reset
      BY <3>2 DEF Reset, vars, lib, local, service, retry
    <3>3. QED
      BY <1>3, <3>1, <3>2
  <2>2. CASE UNCHANGED todo
    <3>1. Left(Client)' = {}
      BY <2>1, <2>2, Programs DEF CanCall, Idle, Left
    <3>2. QED
      BY <2>1, <3>1, MarksPlain DEF CanCall
  <2>3. CASE Start(SeHalResetSe)
    <3>1. Left(Client)' = {"reset"}
      BY <2>1, <2>3, Programs, Bodies, CallsAlone
    <3>2. Left(Client)' \cap Delicate = {}
      BY <3>1 DEF Delicate, Entering, Opening, Shutting
    <3>3. QED
      BY <2>1, <3>2, MarksPlain DEF CanCall
  <2>4. QED
    BY <2>1, <2>2, <2>3
<1>4. CASE OpenLogicalChannel
  <2>1. CanCall /\ Begins("initedLogical", <<"manage">>)
    BY <1>4 DEF OpenLogicalChannel
  <2>2. "manage" \in Parts \ ChannelSections
    BY DEF Parts, Final, ChannelSections
  <2>3. ProgramOK(<<"manage">>) /\ Range(<<"manage">>) = {"manage"}
    BY <2>2, Programs
  <2>4. QED
    BY <2>1, <2>3, BeginsMarked
<1>5. CASE OpenBasicChannel
  <2>1. CanCall
    BY <1>5 DEF OpenBasicChannel
  <2>2. CASE BasicChannel \in mOpenedChannels
    <3>1. UNCHANGED <<gIsInitlized, isInited, todo, channels, mIsRunning, cardChannels>>
      BY <1>5, <2>2 DEF OpenBasicChannel, vars, lib, local, retry
    <3>2. Left(Client)' = {}
      BY <2>1, <3>1, Programs DEF CanCall, Idle, Left
    <3>3. QED
      BY <2>1, <3>1, <3>2, MarksPlain DEF CanCall
  <2>3. CASE BasicChannel \notin mOpenedChannels
    <3>1. Begins("initedBasic", <<"selectBasic">>)
      BY <1>5, <2>3 DEF OpenBasicChannel
    <3>2. "selectBasic" \in Parts \ ChannelSections
      BY DEF Parts, Final, ChannelSections
    <3>3. ProgramOK(<<"selectBasic">>) /\ Range(<<"selectBasic">>) = {"selectBasic"}
      BY <3>2, Programs
    <3>4. QED
      BY <2>1, <3>1, <3>3, BeginsMarked
  <2>4. QED
    BY <2>2, <2>3
<1>6. CASE CloseChannel
  <2>1. /\ CanCall /\ Start(<<"close">>)
        /\ UNCHANGED <<gIsInitlized, isInited, channels, mIsRunning, cardChannels>>
    BY <1>6 DEF CloseChannel, vars, lib, local, retry
  <2>2. ProgramOK(<<"close">>) /\ Range(<<"close">>) = {"close"}
    <3>1. "close" \in Parts
      BY DEF Parts, Final
    <3>2. QED
      BY <3>1, One DEF ProgramOK, ChannelPrograms
  <2>3. Left(Client)' = {"close"}
    BY <2>1, <2>2, CallsAlone
  <2>4. Left(Client)' \cap Delicate = {}
    BY <2>3 DEF Delicate, Entering, Opening, Shutting
  <2>5. QED
    BY <2>1, <2>4, MarksPlain DEF CanCall
<1>7. CASE Dies
  BY <1>7, DiesMarked
<1>8. QED
  BY <1>1, <1>2, <1>3, <1>4, <1>5, <1>6, <1>7 DEF Call

-----------------------------------------------------------------------------
\* The client goes on with its call.
LEMMA PreparingMarked ==
  ASSUME ServedInv, MarkedInv, Ready \/ InitEnd \/ InitedLogical \/ InitedBasic
  PROVE  MarkedInv'
<1>0. <<>> \in Seq(Parts) /\ Range(<<>>) = {} /\ ProgramOK(<<>>) /\ ProgramsOK
  BY Bodies, Programs DEF ServedInv, ServedTypeOK
<1>1. PICK s \in {"ready", "initEnd", "initedLogical", "initedBasic"} :
         At(Client, s) /\ UNCHANGED channels
  BY DEF Ready, InitEnd, InitedLogical, InitedBasic, service
<1>2. mOpenedChannels = {}
  BY <1>1, Unmarked DEF Entering
<1>3. ~Due({"note"})'
  <2>1. CASE Ready
    <3>1. At(Client, "ready") /\ Goes(<<>>) /\ UNCHANGED mIsRunning
      BY <2>1 DEF Ready, service, retry
    <3>2. "ready" \notin ChannelSections \cup Leaving
      BY DEF ChannelSections, Leaving
    <3>3. Left(Client) \cap ChannelSections = {} /\ Left(Client)' \subseteq Left(Client)
      BY <1>0, <3>1, <3>2, ClientPops
    <3>4. QED
      BY <3>3 DEF Due, ChannelSections
  <2>2. CASE InitEnd
    <3> DEFINE p == todo[Client]
    <3>1. p \in Seq(Parts) /\ p # <<>> /\ Head(p) = "initEnd" /\ EndsIn(p) /\ "initEnd" \in Final
      BY <1>0, <2>2, TheWorkers DEF InitEnd, ProgramsOK, ProgramOK, At, Final
    <3>2. <<>> \o Tail(p) = <<>>
      BY <1>0, <3>1, PopParts
    <3>3. Tail(p) = <<>>
      BY <3>1, <3>2
    <3>4. \/ todo' = [todo EXCEPT ![Client] = <<>> \o Tail(p)]
          \/ todo' = [todo EXCEPT ![Client] = Tail(p), ![Retrier] = <<"retry">>]
      BY <2>2 DEF InitEnd, Goes, Then
    <3>5. todo'[Client] = <<>>
      BY <1>0, <3>2, <3>3, <3>4, TheWorkers DEF ProgramsOK
    <3>6. QED
      BY <1>0, <3>5 DEF Due, Left
  <2>3. CASE InitedLogical \/ InitedBasic
    <3>1. PICK u \in {"initedLogical", "initedBasic"} :
            At(Client, u) /\ (Goes(<<>>) \/ Start(<<>>)) /\ UNCHANGED mIsRunning
      BY <2>3 DEF InitedLogical, InitedBasic, retry
    <3>2. u \notin ChannelSections \cup Leaving
      BY <3>1 DEF ChannelSections, Leaving
    <3>3. CASE Goes(<<>>)
      <4>1. Left(Client) \cap ChannelSections = {} /\ Left(Client)' \subseteq Left(Client)
        BY <1>0, <3>1, <3>2, <3>3, ClientPops
      <4>2. QED
        BY <4>1 DEF Due, ChannelSections
    <3>4. CASE Start(<<>>)
      <4>1. Left(Client)' = {}
        BY <3>1, <3>2, <3>4, ClientStops
      <4>2. QED
        BY <4>1 DEF Due
    <3>5. QED
      BY <3>1, <3>3, <3>4
  <2>4. QED
    BY <2>1, <2>2, <2>3
<1>4. QED
  BY <1>1, <1>2, <1>3, StillNone

LEMMA ManageMarked ==
  ASSUME ServedInv, LibInv, MarkedInv, Manage
  PROVE  MarkedInv'
<1>0. /\ At(Client, "manage") /\ "manage" \in Final \ Leaving /\ "manage" \notin Taking
      /\ UNCHANGED <<mIsRunning, channels, isInited>>
  BY DEF Manage, Local, local, retry, Final, Leaving, Taking, Shutting
<1>1. CASE \E c \in Channels \ (cardChannels \cup {BasicChannel}) :
             /\ Works
             /\ channel' = c /\ cardChannels' = cardChannels \cup {c}
             /\ Goes(<<"note", "select">>)
  <2>1. PICK c \in Channels \ (cardChannels \cup {BasicChannel}) :
             /\ Works
             /\ channel' = c /\ cardChannels' = cardChannels \cup {c}
             /\ Goes(<<"note", "select">>)
    BY <1>1
  <2>2. Left(Client) = {"manage"} /\ Left(Client)' = {"note", "select"}
    BY <1>0, <2>1, ChannelTuples, ClientEnds
  <2>3. gIsInitlized' /\ UNCHANGED <<mOpenedchannelCount, mOpenedChannels>>
    BY <1>0, <2>1, AfterExchange DEF channels
  <2>4. ASSUME mOpenedChannels # {}
        PROVE  InCard /\ ~mIsRunning
    BY <1>0, <2>4, MarksInCard
  <2>5. channel' \notin mOpenedChannels
    BY <2>1, <2>4 DEF InCard
  <2>6. CountExact' /\ FreshOK'
    BY <2>3, <2>5 DEF MarkedInv, CountExact, FreshOK
  <2>7. ~Due(Entering \cup {"initedLogical", "initedBasic"})' /\ ~Due(Opening)' /\ ~Due(Shutting)'
    BY <2>2 DEF Due, Entering, Opening, Shutting
  <2>8. mOpenedChannels # {} => InCard' /\ ~mIsRunning'
    BY <1>0, <2>1, <2>3, <2>4 DEF InCard
  <2>9. MarksOK'
    BY <2>3, <2>7, <2>8 DEF MarksOK
  <2>10. QED
    BY <2>6, <2>9 DEF MarkedInv
<1>2. CASE /\ Works /\ UNCHANGED cardChannels
           /\ Goes((IF isInited[Client] THEN SeHalDeInit ELSE <<>>) \o <<"logicalEnd">>)
  <2>1. gIsInitlized'
    BY <1>2, AfterExchange
  <2>2. CASE isInited[Client]
    <3>1. Goes(SeHalDeInit \o <<"logicalEnd">>)
      BY <1>2, <2>2
    <3>2. Left(Client)' = {"deinit", "deinitClose", "forget", "logicalEnd"}
      BY <1>0, <3>1, EndedPrograms, ClientEnds
    <3>3. mOpenedChannels = {}
      BY <1>0, <2>2, Unmarked DEF Opening
    <3>4. ~Due({"note"})'
      BY <3>2 DEF Due
    <3>5. QED
      BY <1>0, <3>3, <3>4, StillNone
  <2>3. CASE ~isInited[Client]
    <3>1. Goes(<<>> \o <<"logicalEnd">>)
      BY <1>2, <2>3
    <3>2. Left(Client)' = {"logicalEnd"}
      BY <1>0, <3>1, EndedPrograms, ClientEnds
    <3>3. Left(Client)' \cap Delicate = {}
      BY <3>2 DEF Delicate, Entering, Opening, Shutting
    <3>4. QED
      BY <1>0, <1>2, <2>1, <3>3, MarksPlain
  <2>4. QED
    BY <2>2, <2>3
<1>3. CASE Fail /\ Goes(SeHalResetSe \o <<"logicalEnd">>) /\ cardChannels \subseteq cardChannels'
  <2>1. gIsInitlized => gIsInitlized'
    BY <1>3, AfterExchange
  <2>2. Left(Client)' = {"reset", "logicalEnd"}
    BY <1>0, <1>3, EndedPrograms, ClientEnds
  <2>3. Left(Client)' \cap Delicate = {}
    BY <2>2 DEF Delicate, Entering, Opening, Shutting
  <2>4. QED
    BY <1>0, <1>3, <2>1, <2>3, MarksPlain
<1>4. QED
  BY <1>0, <1>1, <1>2, <1>3 DEF Manage

LEMMA NoteMarked ==
  ASSUME ServedInv, MarkedInv, Note
  PROVE  MarkedInv'
<1>1. /\ At(Client, "note") /\ Goes(<<>>) /\ "note" \notin Taking
      /\ mOpenedchannelCount' = Counted(mOpenedchannelCount)
      /\ mOpenedChannels' = mOpenedChannels \cup {channel}
      /\ UNCHANGED <<gIsInitlized, isInited, mIsRunning, channel, cardChannels>>
  BY DEF Note, vars, lib, local, retry, Taking, Shutting
<1>2. Left(Client) = {"note", "select"} /\ Left(Client)' = {"select"}
  BY <1>1, ChannelPops
<1>3. /\ channel \in cardChannels /\ channel \in Channels /\ mOpenedchannelCount < 255
      /\ ~mIsRunning
  BY <1>2 DEF ServedInv, ServedTypeOK, ChannelOK, RetryingOK, Leaving, Due
<1>4. channel \notin mOpenedChannels /\ gIsInitlized /\ mOpenedchannelCount = Cardinality(mOpenedChannels)
  BY <1>2 DEF MarkedInv, FreshOK, CountExact, Due
<1>5. CountExact'
  <2>1. /\ Cardinality(mOpenedChannels \cup {channel}) = Cardinality(mOpenedChannels) + 1
        /\ Counted(mOpenedchannelCount) = mOpenedchannelCount + 1
    <3>1. /\ Cardinality(mOpenedChannels \cup {channel})
               = Cardinality(mOpenedChannels) + (IF channel \in mOpenedChannels THEN 0 ELSE 1)
          /\ Counted(mOpenedchannelCount) = mOpenedchannelCount + 1
      BY <1>3, Marks
    <3>2. QED
      BY <1>4, <3>1
  <2>2. QED
    BY <1>1, <1>4, <2>1 DEF CountExact
<1>6. InCard'
  <2>1. mOpenedChannels # {} => InCard
    BY <1>1, MarksInCard
  <2>2. QED
    BY <1>1, <1>3, <1>4, <2>1 DEF InCard
<1>7. /\ ~Due({"note"})' /\ ~Due(Entering \cup {"initedLogical", "initedBasic"})' /\ ~Due(Opening)'
      /\ ~Due(Shutting)'
  BY <1>2 DEF Due, Entering, Opening, Shutting
<1>8. FreshOK' /\ MarksOK'
  BY <1>1, <1>3, <1>6, <1>7 DEF FreshOK, MarksOK
<1>9. QED
  BY <1>5, <1>8 DEF MarkedInv

LEMMA SelectLogicalMarked ==
  ASSUME ServedInv, LibInv, MarkedInv, SelectLogical
  PROVE  MarkedInv'
<1>1. /\ At(Client, "select") /\ "select" \in Final \ Leaving /\ "select" \notin Taking
      /\ UNCHANGED <<mIsRunning, channels, cardChannels, isInited>>
      /\ Works \/ Fail
      /\ Goes(<<>>) \/ Goes(<<"close">>) \/ Goes(SeHalResetSe \o <<"logicalEnd">>)
  BY DEF SelectLogical, Local, local, retry, Final, Leaving, Taking, Shutting
<1>2. gIsInitlized => gIsInitlized'
  BY <1>1, AfterExchange
<1>3. Left(Client)' \subseteq {"close", "reset", "logicalEnd"}
  BY <1>1, Programs, ChannelTuples, EndedPrograms, ClientEnds
<1>4. Left(Client)' \cap Delicate = {}
  BY <1>3 DEF Delicate, Entering, Opening, Shutting
<1>5. QED
  BY <1>1, <1>2, <1>4, MarksPlain

LEMMA SelectBasicMarked ==
  ASSUME ServedInv, LibInv, MarkedInv, SelectBasic
  PROVE  MarkedInv'
<1>0. /\ At(Client, "selectBasic") /\ "selectBasic" \in Final \ Leaving /\ "selectBasic" \notin Taking
      /\ UNCHANGED <<mIsRunning, channel, cardChannels, isInited>>
  BY DEF SelectBasic, Local, local, retry, Final, Leaving, Taking, Shutting
<1>1. mOpenedChannels # {} => InCard /\ ~mIsRunning
  BY <1>0, MarksInCard
<1>2. isInited[Client] => mOpenedChannels = {}
  BY <1>0, Unmarked DEF Opening
<1>3. CASE /\ Works /\ Goes(<<>>)
           /\ mOpenedChannels' = mOpenedChannels \cup {BasicChannel}
           /\ mOpenedchannelCount' = IF BasicChannel \in mOpenedChannels THEN mOpenedchannelCount
                                     ELSE Counted(mOpenedchannelCount)
  <2>1. Left(Client) = {"selectBasic"} /\ Left(Client)' = {}
    BY <1>0, <1>3, Programs, ClientEnds
  <2>2. gIsInitlized' /\ mOpenedchannelCount < 255 /\ ~mIsRunning
    BY <1>3, <2>1, AfterExchange DEF ServedInv, ChannelOK, RetryingOK, Leaving, Due
  <2>3. /\ Cardinality(mOpenedChannels \cup {BasicChannel})
             = Cardinality(mOpenedChannels) + (IF BasicChannel \in mOpenedChannels THEN 0 ELSE 1)
        /\ Counted(mOpenedchannelCount) = mOpenedchannelCount + 1
        /\ Cardinality(mOpenedChannels) \in Nat
    BY <2>2, TheChannels, Marks
  <2>4. CountExact'
    <3>1. mOpenedchannelCount = Cardinality(mOpenedChannels)
      BY DEF MarkedInv, CountExact
    <3>2. mOpenedchannelCount' = Cardinality(mOpenedChannels \cup {BasicChannel})
      BY <1>3, <2>3, <3>1
    <3>3. QED
      BY <1>3, <3>2 DEF CountExact
  <2>5. InCard'
    BY <1>0, <1>1, <1>3, <2>2 DEF InCard
  <2>6. \A S : ~Due(S)'
    BY <2>1 DEF Due
  <2>7. FreshOK' /\ MarksOK'
    BY <1>0, <2>2, <2>5, <2>6 DEF FreshOK, MarksOK
  <2>8. QED
    BY <2>4, <2>7 DEF MarkedInv
<1>4. CASE /\ Works \/ Fail
           /\ Goes(<<"basicFailed">>) \/ Goes(SeHalResetSe \o <<"basicFailed">>)
           /\ UNCHANGED channels
  <2>1. Left(Client)' \subseteq {"reset", "basicFailed"}
    BY <1>0, <1>4, EndedPrograms, ClientEnds
  <2>2. gIsInitlized => gIsInitlized'
    BY <1>4, AfterExchange
  <2>3. ~Due({"note"})' /\ ~Due(Entering \cup {"initedLogical", "initedBasic"})' /\ ~Due(Shutting)'
    BY <2>1 DEF Due, Entering, Shutting
  <2>4. mOpenedChannels # {} => InCard' /\ ~mIsRunning' /\ ~isInited'[Client]
    BY <1>0, <1>1, <1>2, <1>4, <2>2 DEF InCard, channels
  <2>5. QED
    BY <1>4, <2>3, <2>4, MarksCarried
<1>5. QED
  BY <1>3, <1>4 DEF SelectBasic

LEMMA BasicFailedMarked ==
  ASSUME ServedInv, MarkedInv, BasicFailed
  PROVE  MarkedInv'
<1>0. /\ At(Client, "basicFailed") /\ "basicFailed" \in Final \ Leaving /\ "basicFailed" \notin Taking
      /\ UNCHANGED <<gIsInitlized, mIsRunning, channels, cardChannels, isInited>>
  BY DEF BasicFailed, vars, lib, local, retry, Final, Leaving, Taking, Shutting
<1>1. CASE Goes(<<"close">>) \/ Goes(<<>>)
  <2>1. Left(Client)' \subseteq {"close"}
    BY <1>0, <1>1, ChannelTuples, Programs, ClientEnds
  <2>2. Left(Client)' \cap Delicate = {}
    BY <2>1 DEF Delicate, Entering, Opening, Shutting
  <2>3. QED
    BY <1>0, <2>2, MarksPlain
<1>2. CASE isInited[Client] /\ Goes(SeHalDeInit \o <<"basicEnd">>)
  <2>1. Left(Client)' = {"deinit", "deinitClose", "forget", "basicEnd"}
    BY <1>0, <1>2, EndedPrograms, ClientEnds
  <2>2. mOpenedChannels = {} /\ ~Due({"note"})'
    BY <1>0, <1>2, <2>1, Unmarked DEF Opening, Due
  <2>3. QED
    BY <1>0, <2>2, StillNone
<1>3. QED
  BY <1>1, <1>2 DEF BasicFailed

LEMMA EndMarked ==
  ASSUME ServedInv, MarkedInv, LogicalEnd \/ BasicEnd \/ Unregister
  PROVE  MarkedInv'
<1>1. PICK s \in {"logicalEnd", "basicEnd", "unregister"} : At(Client, s) /\ Goes(<<>>)
  BY DEF LogicalEnd, BasicEnd, Unregister
<1>2. /\ UNCHANGED <<gIsInitlized, mIsRunning, channels, cardChannels, isInited>>
      /\ s \in Final /\ s \notin Taking /\ ProgramsOK
  BY DEF LogicalEnd, BasicEnd, Unregister, vars, lib, local, retry, Final, Taking, Shutting,
         ServedInv, ServedTypeOK
<1>3. Left(Client)' = {}
  BY <1>1, <1>2, TheWorkers, Programs, Ends DEF Goes
<1>4. QED
  BY <1>1, <1>2, <1>3, MarksPlain

\* The client closes a channel: the card first, then the mark.
LEMMA CloseMarked ==
  ASSUME ServedInv, LibInv, MarkedInv, ~AnswerMayBeLost, Close
  PROVE  MarkedInv'
<1>1. /\ At(Client, "close") /\ "close" \in Final /\ "close" \notin Taking /\ ProgramsOK
      /\ UNCHANGED <<mIsRunning, channels, channel, isInited>>
      /\ UNCHANGED <<mOpenedchannelCount, mOpenedChannels>>
  <2>1. At(Client, "close") /\ Local /\ UNCHANGED <<channels, retry, channel>>
    BY DEF Close
  <2>2. "close" \in Final /\ "close" \notin Taking /\ ProgramsOK
    BY DEF Final, Taking, Shutting, ServedInv, ServedTypeOK
  <2>3. QED
    BY <2>1, <2>2 DEF Local, local, retry, channels
<1>2. gIsInitlized => gIsInitlized'
  BY AfterExchange DEF Close, lib
<1>3. \/ Goes(<<"last">>) /\ UNCHANGED cardChannels
      \/ Goes(<<"uncount", "last">>) /\ (UNCHANGED cardChannels \/ cardChannels' = cardChannels \ {channel})
  BY DEF Close
<1>4. \/ Left(Client)' = {"last"} /\ UNCHANGED cardChannels
      \/ /\ Left(Client)' = {"uncount", "last"} /\ todo'[Client] = <<"uncount", "last">>
         /\ UNCHANGED cardChannels \/ cardChannels' = cardChannels \ {channel}
  BY <1>1, <1>3, ChannelTuples, TheWorkers, Ends DEF Goes
<1>5. ~Due({"note"})' /\ ~Due(Entering \cup {"initedLogical", "initedBasic"})' /\ ~Due(Opening)'
      /\ ~Due(Shutting)' /\ Left(Client)' \cap Delicate = {}
  BY <1>4 DEF Due, Entering, Opening, Shutting, Delicate
<1>6. CASE UNCHANGED cardChannels
  BY <1>1, <1>2, <1>5, <1>6, MarksPlain
<1>7. CASE todo'[Client] = <<"uncount", "last">> /\ cardChannels' = cardChannels \ {channel}
  <2>1. mOpenedChannels # {} => InCard /\ ~mIsRunning
    BY <1>1, MarksInCard
  <2>2. At(Client, "uncount")'
    <3>1. <<"uncount", "last">> # <<>> /\ Head(<<"uncount", "last">>) = "uncount"
      OBVIOUS
    <3>2. QED
      BY <1>7, <3>1 DEF At
  <2>3. mOpenedChannels # {} =>
          gIsInitlized' /\ mOpenedChannels' \ {BasicChannel, channel'} \subseteq cardChannels'
    BY <1>1, <1>2, <1>7, <2>1 DEF InCard
  <2>4. MarksOK'
    BY <1>1, <1>5, <2>1, <2>2, <2>3 DEF MarksOK
  <2>5. CountExact' /\ FreshOK'
    BY <1>1, <1>5 DEF MarkedInv, CountExact, FreshOK
  <2>6. QED
    BY <2>4, <2>5 DEF MarkedInv
<1>8. QED
  BY <1>4, <1>6, <1>7

LEMMA UncountMarked ==
  ASSUME ServedInv, MarkedInv, Uncount
  PROVE  MarkedInv'
<1>1. /\ At(Client, "uncount") /\ Goes(<<>>)
      /\ mOpenedChannels' = mOpenedChannels \ {channel}
      /\ mOpenedchannelCount' = IF mOpenedchannelCount > 0 THEN mOpenedchannelCount - 1 ELSE 0
      /\ UNCHANGED <<gIsInitlized, isInited, mIsRunning, channel, cardChannels>>
  BY DEF Uncount, vars, lib, local, retry
<1>2. Left(Client) = {"uncount", "last"} /\ Left(Client)' = {"last"}
  BY <1>1, ChannelPops
<1>3. channel \in mOpenedChannels /\ channel \in Channels
      /\ mOpenedchannelCount = Cardinality(mOpenedChannels)
  BY <1>2 DEF ServedInv, ServedTypeOK, ChannelOK, Due, MarkedInv, CountExact
<1>4. CountExact'
  <2>1. /\ Cardinality(mOpenedChannels) \in Nat
        /\ Cardinality(mOpenedChannels \ {channel}) = Cardinality(mOpenedChannels) - 1
        /\ Cardinality(mOpenedChannels \ {channel}) \in Nat
    BY <1>3, Marks
  <2>2. mOpenedchannelCount' = Cardinality(mOpenedChannels \ {channel})
    BY <1>1, <1>3, <2>1
  <2>3. QED
    BY <1>1, <2>2 DEF CountExact
<1>5. ~mIsRunning /\ gIsInitlized /\ mOpenedChannels \ {BasicChannel, channel} \subseteq cardChannels
  <2>1. ~At(Client, "resetDone") /\ ~At(Client, "deinitClose") /\ ~At(Client, "forget")
    BY <1>1 DEF At
  <2>2. QED
    BY <1>3, <2>1 DEF MarkedInv, MarksOK, InCard
<1>6. InCard'
  BY <1>1, <1>5 DEF InCard
<1>7. ~Due({"note"})' /\ ~Due(Entering \cup {"initedLogical", "initedBasic"})' /\ ~Due(Opening)'
      /\ ~Due(Shutting)'
  BY <1>2 DEF Due, Entering, Opening, Shutting
<1>8. FreshOK' /\ MarksOK'
  BY <1>1, <1>5, <1>6, <1>7 DEF FreshOK, MarksOK
<1>9. QED
  BY <1>4, <1>8 DEF MarkedInv

LEMMA LastMarked ==
  ASSUME ServedInv, MarkedInv, Last
  PROVE  MarkedInv'
<1>1. /\ At(Client, "last") /\ "last" \in Final \ Leaving /\ "last" \notin Taking
      /\ UNCHANGED <<gIsInitlized, isInited, channels, mIsRunning, cardChannels>>
  BY DEF Last, vars, lib, local, service, retry, Final, Leaving, Taking, Shutting
<1>2. CASE mOpenedchannelCount = 0 /\ Goes(SeHalDeInit)
  <2>1. Left(Client)' = {"deinit", "deinitClose", "forget"}
    BY <1>1, <1>2, Programs, Bodies, ClientEnds
  <2>2. mOpenedChannels = {}
    <3>1. IsFiniteSet(mOpenedChannels) /\ Cardinality(mOpenedChannels) = 0
      BY <1>2, TheChannels, FS_Subset DEF ServedInv, ServedTypeOK, MarkedInv, CountExact
    <3>2. QED
      BY <3>1, FS_EmptySet
  <2>3. ~Due({"note"})'
    BY <2>1 DEF Due
  <2>4. QED
    BY <1>1, <2>2, <2>3, StillNone
<1>3. CASE Goes(<<>>)
  <2>1. Left(Client)' = {}
    BY <1>1, <1>3, Programs, ClientEnds
  <2>2. QED
    BY <1>1, <2>1, MarksPlain
<1>4. QED
  BY <1>2, <1>3 DEF Last

-----------------------------------------------------------------------------
\* The sections of the library, in a call of the client.
LEMMA SectionMarked ==
  ASSUME ServedInv, ServiceHoldInv, MarkedInv, LibrarySection(Client)
  PROVE  MarkedInv'
<1>0. LibInv /\ ProgramsOK /\ Client \in Workers /\ Client \in Threads /\ Client \in DOMAIN todo
      /\ \A s : Return(Client, s) => status'[Client] = s
  BY TheWorkers DEF ServedInv, ServedTypeOK, ProgramsOK, ServiceHoldInv, HoldInv, CountInv,
                    LocalTypeOK, Return
<1>a. /\ {"seReset", "resetDone", "initClose"} \subseteq Parts
      /\ \A e \in {"seReset", "resetDone", "initClose"} : <<e>> \in Seq(Parts) /\ Range(<<e>>) = {e}
      /\ <<>> \in Seq(Parts) /\ Range(<<>>) = {}
  <2>1. {"seReset", "resetDone", "initClose"} \subseteq Parts
    BY DEF Parts, Within
  <2>2. QED
    BY <2>1, One, Bodies
<1>b. ASSUME NEW s \in Within, At(Client, s), NEW n \in Seq(Parts), Then(Client, n),
             Range(n) \subseteq Within
      PROVE  /\ ~Due({"note"})' /\ Left(Client)' \subseteq Left(Client) \cup Range(n)
             /\ "note" \notin Left(Client)'
  <2>1. s \notin ChannelSections /\ Range(n) \cap (Final \cup ChannelSections) = {}
    BY <1>b DEF Within, ChannelSections, Final
  <2>2. Left(Client) \cap ChannelSections = {} /\ Left(Client)' \subseteq Left(Client) \cup Range(n)
    BY <1>0, <1>b, <2>1, Pops
  <2>3. QED
    BY <2>1, <2>2 DEF Due, ChannelSections
<1>1. CASE OpenSection(Client) \/ InitSection(Client) \/ InitCloseSection(Client)
  <2>1. PICK s \in {"open", "init", "initClose"} :
          At(Client, s) /\ (Then(Client, <<>>) \/ Then(Client, <<"initClose">>)) /\ UNCHANGED channels
    BY <1>1 DEF OpenSection, InitSection, InitCloseSection, service
  <2>2. s \in Within /\ "initClose" \in Within
    BY <2>1 DEF Within
  <2>3. ~Due({"note"})'
    BY <1>a, <1>b, <2>1, <2>2
  <2>4. mOpenedChannels = {}
    BY <2>1, Unmarked DEF Entering
  <2>5. QED
    BY <2>1, <2>3, <2>4, StillNone
<1>2. CASE DeInitSection(Client)
  <2>1. /\ At(Client, "deinit") /\ Then(Client, <<>>) /\ SeDeInit /\ "deinit" \in Within
        /\ UNCHANGED <<isInited, channels, mIsRunning>>
    BY <1>2 DEF DeInitSection, retry, Within
  <2>2. ~Due({"note"})' /\ "deinit" \in Left(Client)
    <3>1. "deinit" \notin ChannelSections /\ Range(<<>>) \cap (Final \cup ChannelSections) = {}
      BY <1>a DEF ChannelSections
    <3>2. "deinit" \in Left(Client)
      BY <1>0, <1>a, <2>1, <3>1, Pops
    <3>3. QED
      BY <1>a, <1>b, <2>1, <3>2
  <2>3. CASE mOpenedChannels = {}
    BY <2>1, <2>2, <2>3, StillNone
  <2>4. CASE mOpenedChannels # {}
    <3>1. todo[Client] \in DeathPrograms /\ Head(todo[Client]) = "deinit"
      BY <2>1, <2>2, <2>4 DEF MarkedInv, MarksOK, Due, Shutting, At
    <3>2. InCard /\ ~mIsRunning
      BY <2>4, <3>1 DEF MarkedInv, MarksOK, At
    <3>3. todo'[Client] = <<"deinitClose", "forget", "unregister">>
      BY <1>0, <2>1, <3>1, DeathTails DEF Then
    <3>4. Left(Client)' = {"deinitClose", "forget", "unregister"}
      <4>1. "deinitClose" \in Parts /\ "forget" \in Parts /\ "unregister" \in Parts
        BY DEF Parts, Within, Final
      <4>2. \A a, b, c \in Parts : Range(<<a, b, c>>) = {a, b, c}
        BY Short
      <4>3. QED
        BY ONLY <3>3, <4>1, <4>2 DEF Left
    <3>5. At(Client, "deinitClose")'
      BY <3>3 DEF At
    <3>6. device'
      BY <1>0, <2>1, <3>2 DEF InCard, LibInv, OpenIffReferenced, SeDeInit
    <3>7. ~Due(Entering \cup {"initedLogical", "initedBasic"})' /\ ~Due(Opening)'
      BY <3>4 DEF Due, Entering, Opening
    <3>8. MarksOK'
      BY <2>1, <3>2, <3>3, <3>5, <3>6, <3>7 DEF MarksOK, DeathPrograms
    <3>9. CountExact' /\ FreshOK'
      BY <2>1, <2>2 DEF MarkedInv, CountExact, FreshOK, channels
    <3>10. QED
      BY <3>8, <3>9 DEF MarkedInv
  <2>5. QED
    BY <2>3, <2>4
<1>3. CASE DeInitCloseSection(Client)
  <2>1. /\ At(Client, "deinitClose") /\ Then(Client, <<>>) /\ "deinitClose" \in Within
        /\ Return(Client, IF EseLibStatus = "CLOSED" THEN "FAILED" ELSE "SUCCESS")
        /\ UNCHANGED <<isInited, channels, mIsRunning>>
    BY <1>3 DEF DeInitCloseSection, service, retry, Within
  <2>2. ~Due({"note"})' /\ "deinitClose" \in Left(Client)
    <3>1. "deinitClose" \notin ChannelSections /\ Range(<<>>) \cap (Final \cup ChannelSections) = {}
      BY <1>a DEF ChannelSections
    <3>2. "deinitClose" \in Left(Client)
      BY <1>0, <1>a, <2>1, <3>1, Pops
    <3>3. QED
      BY <1>a, <1>b, <2>1, <3>2
  <2>3. CASE mOpenedChannels = {}
    BY <2>1, <2>2, <2>3, StillNone
  <2>4. CASE mOpenedChannels # {}
    <3>1. todo[Client] \in DeathPrograms /\ Head(todo[Client]) = "deinitClose"
      BY <2>1, <2>2, <2>4 DEF MarkedInv, MarksOK, Due, Shutting, At
    <3>2. device /\ ~mIsRunning
      BY <1>0, <2>4, <3>1 DEF MarkedInv, MarksOK, At, InCard, LibInv, OpenIffReferenced
    <3>3. todo'[Client] = <<"forget", "unregister">>
      BY <1>0, <2>1, <3>1, DeathTails DEF Then
    <3>4. Left(Client)' = {"forget", "unregister"}
      <4>1. "forget" \in Parts /\ "unregister" \in Parts
        BY DEF Parts, Within, Final
      <4>2. \A a, b \in Parts : Range(<<a, b>>) = {a, b}
        BY Short
      <4>3. QED
        BY ONLY <3>3, <4>1, <4>2 DEF Left
    <3>5. At(Client, "forget")'
      BY <3>3 DEF At
    <3>6. status'[Client] = "SUCCESS"
      BY <1>0, <2>1, <3>2 DEF LibInv, OpenIffReferenced
    <3>7. ~Due(Entering \cup {"initedLogical", "initedBasic"})' /\ ~Due(Opening)'
      BY <3>4 DEF Due, Entering, Opening
    <3>8. MarksOK'
      BY <2>1, <3>2, <3>3, <3>5, <3>6, <3>7 DEF MarksOK, DeathPrograms
    <3>9. CountExact' /\ FreshOK'
      BY <2>1, <2>2 DEF MarkedInv, CountExact, FreshOK, channels
    <3>10. QED
      BY <3>8, <3>9 DEF MarkedInv
  <2>5. QED
    BY <2>3, <2>4
<1>4. CASE Forget(Client)
  <2>1. /\ At(Client, "forget") /\ Then(Client, <<>>) /\ "forget" \in Within
        /\ IF status[Client] = "SUCCESS" THEN NoChannels ELSE UNCHANGED channels
        /\ UNCHANGED <<gIsInitlized, isInited, mIsRunning, cardChannels>>
    BY <1>4 DEF Forget, retry, vars, local, lib, Within
  <2>2. ~Due({"note"})' /\ "forget" \in Left(Client)
    <3>1. "forget" \notin ChannelSections /\ Range(<<>>) \cap (Final \cup ChannelSections) = {}
      BY <1>a DEF ChannelSections
    <3>2. "forget" \in Left(Client)
      BY <1>0, <1>a, <2>1, <3>1, Pops
    <3>3. QED
      BY <1>a, <1>b, <2>1, <3>2
  <2>3. CASE NoChannels
    BY <2>2, <2>3, MarksCleared
  <2>4. CASE UNCHANGED channels /\ status[Client] # "SUCCESS"
    <3>1. CASE mOpenedChannels = {}
      BY <2>2, <2>4, <3>1, StillNone
    <3>2. CASE mOpenedChannels # {}
      <4>1. todo[Client] \in DeathPrograms /\ Head(todo[Client]) = "forget"
        BY <2>1, <2>2, <3>2 DEF MarkedInv, MarksOK, Due, Shutting, At
      <4>2. InCard /\ ~mIsRunning
        BY <2>4, <3>2, <4>1 DEF MarkedInv, MarksOK, At
      <4>3. todo'[Client] = <<"unregister">>
        BY <1>0, <2>1, <4>1, DeathTails DEF Then
      <4>4. Left(Client)' = {"unregister"}
        <5>1. "unregister" \in Parts
          BY DEF Parts, Final
        <5>2. QED
          BY <4>3, <5>1, One DEF Left
      <4>5. /\ ~Due(Entering \cup {"initedLogical", "initedBasic"})' /\ ~Due(Opening)'
            /\ ~Due(Shutting)'
        BY <4>4 DEF Due, Entering, Opening, Shutting
      <4>6. InCard' /\ ~mIsRunning'
        BY <2>1, <2>4, <4>2 DEF InCard, channels
      <4>7. QED
        BY <2>2, <2>4, <4>5, <4>6, MarksCarried
    <3>3. QED
      BY <3>1, <3>2
  <2>5. QED
    BY <2>1, <2>3, <2>4
<1>5. CASE ResetChecks(Client)
  <2>1. /\ At(Client, "reset") /\ "reset" \in Within /\ "reset" \notin Taking
        /\ Then(Client, IF gIsInitlized THEN <<"seReset">> ELSE SeHalInit \o <<"seReset">>)
        /\ UNCHANGED <<gIsInitlized, isInited, channels, mIsRunning, cardChannels>>
    BY <1>5 DEF ResetChecks, vars, lib, local, service, retry, Within, Taking, Shutting
  <2>2. CASE gIsInitlized
    <3>1. Then(Client, <<"seReset">>) /\ "seReset" \in Within
      BY <2>1, <2>2 DEF Within
    <3>2. Left(Client)' \subseteq Left(Client) \cup {"seReset"} /\ "note" \notin Left(Client)'
      BY <1>a, <1>b, <2>1, <3>1
    <3>3. Left(Client)' \cap Delicate \subseteq Left(Client) \ {"note"}
      BY <3>2 DEF Delicate, Entering, Opening, Shutting
    <3>4. QED
      BY <2>1, <3>3, MarksPlain
  <2>3. CASE ~gIsInitlized
    <3>1. mOpenedChannels = {}
      BY <2>1, <2>3, Unmarked
    <3>2. SeHalInit \o <<"seReset">> \in Seq(Parts)
          /\ Range(SeHalInit \o <<"seReset">>) = Range(SeHalInit) \cup Range(<<"seReset">>)
      BY <1>a, Bodies, Joined
    <3>3. Range(SeHalInit \o <<"seReset">>) \subseteq Within
      BY <1>a, <3>2, Bodies DEF Within
    <3>4. Then(Client, SeHalInit \o <<"seReset">>)
      BY <2>1, <2>3
    <3>5. ~Due({"note"})'
      BY <1>b, <2>1, <3>2, <3>3, <3>4
    <3>6. QED
      BY <2>1, <3>1, <3>5, StillNone
  <2>4. QED
    BY <2>2, <2>3
<1>6. CASE SeResetSection(Client)
  <2>1. /\ At(Client, "seReset") /\ Then(Client, <<"resetDone">>) /\ SeUse
        /\ {"seReset", "resetDone"} \subseteq Within /\ "seReset" \notin Taking
        /\ UNCHANGED cardChannels \/ Return(Client, "SUCCESS")
        /\ UNCHANGED <<isInited, channels, mIsRunning>>
    BY <1>6 DEF SeResetSection, retry, Within, Taking, Shutting
  <2>2. /\ ~Due({"note"})' /\ "note" \notin Left(Client)'
        /\ Left(Client)' \subseteq Left(Client) \cup {"resetDone"}
    BY <1>a, <1>b, <2>1
  <2>3. Left(Client)' \cap Delicate \subseteq Left(Client) \ {"note"}
    BY <2>2 DEF Delicate, Entering, Opening, Shutting
  <2>4. CASE UNCHANGED cardChannels
    <3>1. gIsInitlized => gIsInitlized'
      BY <1>0, <2>1, UseStays
    <3>2. QED
      BY <2>1, <2>3, <2>4, <3>1, MarksPlain
  <2>5. CASE Return(Client, "SUCCESS")
    <3>1. mOpenedChannels # {} => ~mIsRunning /\ ~Due(Shutting)
      BY <2>1, MarksInCard
    <3>2. At(Client, "resetDone")' /\ status'[Client] = "SUCCESS"
      <4>1. todo[Client] \in Seq(Parts) /\ todo[Client] # <<>>
        BY <1>0, <2>1 DEF ProgramsOK, ProgramOK, At
      <4>2. todo'[Client] = <<"resetDone">> \o Tail(todo[Client])
        BY <1>0, <2>1 DEF Then
      <4>3. Tail(todo[Client]) \in Seq(Parts)
        BY <4>1
      <4>4. todo'[Client] # <<>> /\ Head(todo'[Client]) = "resetDone"
        BY <1>a, <4>2, <4>3
      <4>5. QED
        BY <1>0, <2>5, <4>4 DEF At
    <3>3. ASSUME NEW S, S \subseteq Delicate PROVE Due(S)' => Due(S)
      BY <2>3, <3>3 DEF Due
    <3>4. /\ Entering \cup {"initedLogical", "initedBasic"} \subseteq Delicate
          /\ Opening \subseteq Delicate /\ Shutting \subseteq Delicate
      BY DEF Delicate, Opening
    <3>5. MarksOK'
      <4>1. ASSUME mOpenedChannels # {}
            PROVE  /\ ~mIsRunning' /\ ~Due(Entering \cup {"initedLogical", "initedBasic"})'
                   /\ isInited'[Client] => ~Due(Opening)'
                   /\ ~Due(Shutting)'
        BY <2>1, <3>1, <3>3, <3>4, <4>1 DEF MarkedInv, MarksOK
      <4>2. QED
        BY <2>1, <3>2, <4>1 DEF MarksOK, channels
    <3>6. CountExact' /\ FreshOK'
      BY <2>1, <2>2 DEF MarkedInv, CountExact, FreshOK, channels
    <3>7. QED
      BY <3>5, <3>6 DEF MarkedInv
  <2>6. QED
    BY <2>1, <2>4, <2>5
<1>7. CASE ResetDone(Client)
  <2>1. /\ At(Client, "resetDone") /\ Then(Client, <<>>) /\ "resetDone" \in Within
        /\ IF status[Client] = "SUCCESS" THEN NoChannels ELSE UNCHANGED channels
        /\ UNCHANGED <<gIsInitlized, isInited, mIsRunning, cardChannels>>
    BY <1>7 DEF ResetDone, retry, vars, local, lib, Within
  <2>2. ~Due({"note"})' /\ Left(Client)' \subseteq Left(Client)
    BY <1>a, <1>b, <2>1
  <2>3. CASE NoChannels
    BY <2>2, <2>3, MarksCleared
  <2>4. CASE UNCHANGED channels /\ status[Client] # "SUCCESS"
    <3>1. ASSUME mOpenedChannels # {}
          PROVE  /\ InCard' /\ ~mIsRunning' /\ ~Due(Entering \cup {"initedLogical", "initedBasic"})'
                 /\ isInited'[Client] => ~Due(Opening)'
                 /\ ~Due(Shutting)'
      <4>1. todo[Client] \notin DeathPrograms
        BY <2>1, DeathHeads DEF At, Shutting
      <4>2. /\ InCard /\ ~mIsRunning /\ ~Due(Shutting)
            /\ ~Due(Entering \cup {"initedLogical", "initedBasic"})
            /\ isInited[Client] => ~Due(Opening)
        BY <2>1, <2>4, <3>1, <4>1 DEF MarkedInv, MarksOK, At
      <4>3. \A S : Due(S)' => Due(S)
        BY <2>2 DEF Due
      <4>4. InCard'
        BY <2>1, <2>4, <4>2 DEF InCard, channels
      <4>5. QED
        BY <2>1, <4>2, <4>3, <4>4
    <3>2. QED
      BY <2>2, <2>4, <3>1, MarksCarried
  <2>5. QED
    BY <2>1, <2>3, <2>4
<1>8. QED
  BY <1>1, <1>2, <1>3, <1>4, <1>5, <1>6, <1>7 DEF LibrarySection

\* While the retry thread runs nothing is marked.
LEMMA RetryMarked ==
  ASSUME ServedInv, MarkedInv, RetryThread
  PROVE  MarkedInv'
<1>1. PICK s : At(Retrier, s) /\ (\E n : Then(Retrier, n)) /\ (UNCHANGED channels \/ NoChannels)
  BY DEF RetryThread, Retry, RetryCheck, RetryEnd, LibrarySection, OpenSection, InitSection,
         InitCloseSection, DeInitSection, DeInitCloseSection, Forget, ResetChecks, SeResetSection,
         ResetDone, service
<1>2. /\ todo[Retrier] \in Seq(Parts) /\ todo[Retrier] # <<>> /\ Head(todo[Retrier]) = s
      /\ DOMAIN todo = Workers
  BY <1>1, TheWorkers DEF ServedInv, ServedTypeOK, ProgramsOK, ProgramOK, At
<1>3. s \in Left(Retrier)
  BY <1>2, PopParts DEF Left
<1>4. mIsRunning /\ Left(Client) \subseteq Leaving
  BY <1>3 DEF ServedInv, RetryingOK
<1>5. mOpenedChannels = {}
  BY <1>4 DEF MarkedInv, MarksOK
<1>6. Left(Client)' = Left(Client)
  BY <1>1, <1>2, TheWorkers DEF Then, Left
<1>7. ~Due({"note"})'
  BY <1>4, <1>6 DEF Due, Leaving
<1>8. QED
  BY <1>1, <1>5, <1>7, StillNone

LEMMA MarkedInit == ServiceInit => MarkedInv
<1> SUFFICES ASSUME ServiceInit PROVE MarkedInv
  OBVIOUS
<1>1. todo[Client] = <<>> /\ mOpenedChannels = {} /\ mOpenedchannelCount = 0
  BY TheWorkers DEF ServiceInit
<1>2. ~Due({"note"})
  BY <1>1, Programs DEF Due, Left
<1>3. QED
  BY <1>1, <1>2, TheChannels DEF MarkedInv, CountExact, FreshOK, MarksOK

LEMMA MarkedStep ==
  ASSUME Alone, ~AnswerMayBeLost, ServiceHoldInv, ServedInv, MarkedInv, [ServiceNext]_serviceVars
  PROVE  MarkedInv'
<1>0. LibInv
  BY DEF ServiceHoldInv, HoldInv, CountInv
<1>1. CASE Call
  BY <1>1, CallMarked
<1>2. CASE Continue
  <2>1. CASE Ready \/ InitEnd \/ InitedLogical \/ InitedBasic
    BY <2>1, PreparingMarked
  <2>2. CASE Manage \/ Note \/ SelectLogical
    BY <1>0, <2>2, ManageMarked, NoteMarked, SelectLogicalMarked
  <2>3. CASE SelectBasic \/ BasicFailed
    BY <1>0, <2>3, SelectBasicMarked, BasicFailedMarked
  <2>4. CASE LogicalEnd \/ BasicEnd \/ Unregister
    BY <2>4, EndMarked
  <2>5. CASE Close \/ Uncount \/ Last
    BY <1>0, <2>5, CloseMarked, UncountMarked, LastMarked
  <2>6. CASE LibrarySection(Client)
    BY <2>6, SectionMarked
  <2>7. QED
    BY <1>2, <2>1, <2>2, <2>3, <2>4, <2>5, <2>6 DEF Continue
<1>3. CASE RetryThread
  BY <1>3, RetryMarked
<1>4. CASE Others
  BY <1>4 DEF Others, Alone
<1>5. CASE UNCHANGED serviceVars
  <2>1. UNCHANGED <<todo, status, gIsInitlized, device, isInited, mIsRunning, channels, channel,
                    cardChannels>>
    BY <1>5 DEF serviceVars, vars, lib, local, service, retry
  <2>2. UNCHANGED <<mOpenedchannelCount, mOpenedChannels>> /\ Left(Client)' = Left(Client)
    BY <2>1 DEF channels, Left
  <2>3. (\A S : Due(S)' <=> Due(S)) /\ (\A s : At(Client, s)' <=> At(Client, s))
    BY <2>1, <2>2 DEF Due, At
  <2>4. CountExact' /\ FreshOK'
    BY <2>1, <2>2, <2>3 DEF MarkedInv, CountExact, FreshOK
  <2>5. MarksOK'
    BY <2>1, <2>2, <2>3 DEF MarkedInv, MarksOK, InCard
  <2>6. QED
    BY <2>4, <2>5 DEF MarkedInv
<1>6. QED
  BY <1>1, <1>2, <1>3, <1>4, <1>5 DEF ServiceNext

\* The count of open channels, which decides when the library is given back
\* (SecureElement.cpp:491-495), is between calls the number of channels marked
\* open: the branches that change the one and those that change the other
\* never come apart, whatever fails or is refused, across resets, the retry
\* thread and the client's death.  The client makes its calls one at a time,
\* waits for the retry thread and closes only what it holds, no client of
\* ITmsEse runs beside it, and the card has not executed a command whose
\* exchange failed.
THEOREM CountOfChannels == Alone /\ ~AnswerMayBeLost => (ServiceSpec => []CountIsChannels)
<1> SUFFICES ASSUME Alone, ~AnswerMayBeLost PROVE ServiceSpec => []CountIsChannels
  OBVIOUS
<1>1. ServiceInit => ServiceHoldInv /\ ServedInv /\ MarkedInv
  BY ServiceHoldInit, ServedInit, MarkedInit
<1>2. ServiceHoldInv /\ ServedInv /\ MarkedInv /\ [ServiceNext]_serviceVars
        => ServiceHoldInv' /\ ServedInv' /\ MarkedInv'
  BY ServiceHoldStep, ServedStep, MarkedStep
<1>3. MarkedInv => CountIsChannels
  BY DEF MarkedInv, CountExact, CountIsChannels
<1>4. QED
  BY <1>1, <1>2, <1>3, PTL DEF ServiceSpec

=============================================================================
