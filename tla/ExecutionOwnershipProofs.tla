---------------------- MODULE ExecutionOwnershipProofs ----------------------
(***************************************************************************)
(* Proofs about ExecutionOwnership for every set of runtimes, every lease  *)
(* length and margin, and every clock bound.                               *)
(***************************************************************************)
EXTENDS ExecutionOwnership, TLAPS

\* No clock reading is from the future.
PastReadings == \A r \in Runtimes : ts[r] <= clock

\* A runtime between its final check and its fill is within its deadline.
Deadline ==
    \A r \in Runtimes :
        pc[r] \in {"validate", "fill"} => clock <= ts[r] + FillDelay

\* What the final check saw still holds until the fill is persisted.
FillerOwns ==
    \A r \in Runtimes : pc[r] = "fill" => Owns(r)

\* The fills on record belong to the current epoch's owner or to older epochs.
FillsOfEpochs ==
    \A f \in fills :
        /\ f.token <= lease.token
        /\ f.token = lease.token => f.by = lease.owner
        /\ f.at <= clock

\* The inductive invariant.
IInv ==
    /\ TypeOK
    /\ PastReadings
    /\ Deadline
    /\ FillerOwns
    /\ FillsOfEpochs
    /\ FillHistory

USE RuntimesAssumption, LeaseAssumption, DelayAssumption
-----------------------------------------------------------------------------
\* TypeOK is preserved by every step of a runtime.
LEMMA StepTypeOK ==
    ASSUME TypeOK, NEW r \in Runtimes, Step(r)
    PROVE  TypeOK'
<1>1. CASE AcquireStart(r) \/ GateOpen(r) \/ ReleaseStart(r)
  BY <1>1 DEF AcquireStart, GateOpen, ReleaseStart, Goto, ReadClock, TypeOK, Stages
<1>2. CASE AcquireGranted(r)
  <2>1. LeaseOf(r) \in [owner : Runtimes \cup {NoOwner}, token : Nat, expires : Nat]
    BY DEF LeaseOf, TypeOK
  <2>2. LeaseOf(r).token \in Nat
    BY <2>1
  <2>3. QED BY <1>2, <2>1, <2>2 DEF AcquireGranted, Goto, TypeOK, Stages
<1>3. CASE AcquireRefused(r) \/ AcquireBusy(r) \/ GateBlocked(r) \/ ValidatePassed(r)
           \/ ValidateFenced(r) \/ FillBusy(r) \/ Stop(r)
  BY <1>3 DEF AcquireRefused, AcquireBusy, GateBlocked, ValidatePassed, ValidateFenced,
              FillBusy, Stop, Goto, TypeOK, Stages
<1>4. CASE FillCommitted(r)
  BY <1>4 DEF FillCommitted, Goto, TypeOK, Stages
<1>5. CASE ReleaseCommitted(r)
  BY <1>5 DEF ReleaseCommitted, Goto, TypeOK, Stages
<1>6. QED BY <1>1, <1>2, <1>3, <1>4, <1>5 DEF Step

\* A takeover cannot happen while another runtime is between its final check
\* and its fill: the lease that runtime checked outlives its deadline.
LEMMA NoTakeoverDuringFill ==
    ASSUME IInv, NEW r \in Runtimes, NEW s \in Runtimes, pc[s] = "fill", MayOwn(r)
    PROVE  r = s
<1>1. lease.owner = s /\ lease.expires > ts[s] + MinValidity /\ clock <= ts[s] + FillDelay
  BY DEF IInv, FillerOwns, Owns, Deadline
<1>2. ts[r] < lease.expires
  BY <1>1 DEF IInv, PastReadings, TypeOK
<1>3. QED BY <1>1, <1>2 DEF MayOwn, IInv, TypeOK
-----------------------------------------------------------------------------
\* Every step of a runtime preserves the inductive invariant.
LEMMA StepInv ==
    ASSUME IInv, NEW r \in Runtimes, Step(r)
    PROVE  IInv'
<1> USE DEF IInv
<1>0. TypeOK'
  BY StepTypeOK
<1>1. CASE AcquireStart(r) \/ GateOpen(r) \/ ReleaseStart(r)
  <2> USE <1>1 DEF AcquireStart, GateOpen, ReleaseStart, Goto, ReadClock, TypeOK
  <2>1. PastReadings' BY DEF PastReadings
  <2>2. Deadline' BY DEF Deadline
  <2>3. FillerOwns' BY DEF FillerOwns, Owns
  <2>4. FillsOfEpochs' /\ FillHistory' BY DEF FillsOfEpochs, FillHistory
  <2>5. QED BY <1>0, <2>1, <2>2, <2>3, <2>4
<1>2. CASE AcquireGranted(r)
  <2> USE <1>2 DEF AcquireGranted, Goto, TypeOK
  <2>1. PastReadings' BY DEF PastReadings
  <2>2. Deadline' BY DEF Deadline
  <2>3. FillerOwns'
    <3>1. \A s \in Runtimes : pc'[s] # "fill"
      BY NoTakeoverDuringFill
    <3>2. QED BY <3>1 DEF FillerOwns
  <2>4. FillsOfEpochs'
    BY DEF FillsOfEpochs, LeaseOf
  <2>5. FillHistory' BY DEF FillHistory
  <2>6. QED BY <1>0, <2>1, <2>2, <2>3, <2>4, <2>5
<1>3. CASE AcquireRefused(r) \/ AcquireBusy(r) \/ GateBlocked(r) \/ ValidateFenced(r)
           \/ FillBusy(r) \/ Stop(r)
  <2> USE <1>3 DEF AcquireRefused, AcquireBusy, GateBlocked, ValidateFenced, FillBusy,
                   Stop, Goto, TypeOK
  <2>1. PastReadings' BY DEF PastReadings
  <2>2. Deadline' BY DEF Deadline
  <2>3. FillerOwns' BY DEF FillerOwns, Owns
  <2>4. FillsOfEpochs' /\ FillHistory' BY DEF FillsOfEpochs, FillHistory
  <2>5. QED BY <1>0, <2>1, <2>2, <2>3, <2>4
<1>4. CASE ValidatePassed(r)
  <2> USE <1>4 DEF ValidatePassed, Goto, TypeOK
  <2>1. PastReadings' BY DEF PastReadings
  <2>2. Deadline' BY DEF Deadline
  <2>3. FillerOwns' BY DEF FillerOwns, Owns
  <2>4. FillsOfEpochs' /\ FillHistory' BY DEF FillsOfEpochs, FillHistory
  <2>5. QED BY <1>0, <2>1, <2>2, <2>3, <2>4
<1>5. CASE FillCommitted(r)
  <2> USE <1>5 DEF FillCommitted, Goto, TypeOK
  <2>0. lease.owner = r /\ lease.token = token[r]
    BY DEF FillerOwns, Owns
  <2>1. PastReadings' BY DEF PastReadings
  <2>2. Deadline' BY DEF Deadline
  <2>3. FillerOwns' BY DEF FillerOwns, Owns
  <2>4. FillsOfEpochs' BY <2>0 DEF FillsOfEpochs
  <2>5. FillHistory'
    <3>1. \A f \in fills' : f \in fills \/ f = [by |-> r, token |-> token[r], at |-> clock]
      OBVIOUS
    <3>2. QED BY <2>0, <3>1 DEF FillHistory, FillsOfEpochs
  <2>6. QED BY <1>0, <2>1, <2>2, <2>3, <2>4, <2>5
<1>6. CASE ReleaseCommitted(r)
  <2> USE <1>6 DEF ReleaseCommitted, Goto, TypeOK
  <2>1. PastReadings' BY DEF PastReadings
  <2>2. Deadline' BY DEF Deadline
  <2>3. FillerOwns' BY DEF FillerOwns, Owns
  <2>4. FillsOfEpochs' /\ FillHistory' BY DEF FillsOfEpochs, FillHistory
  <2>5. QED BY <1>0, <2>1, <2>2, <2>3, <2>4
<1>7. QED BY <1>1, <1>2, <1>3, <1>4, <1>5, <1>6 DEF Step

\* So does the passing of time, as far as the deadline lets it pass.
LEMMA TickInv == IInv /\ Tick => IInv'
<1> SUFFICES ASSUME IInv, Tick PROVE IInv'
  OBVIOUS
<1> USE DEF IInv, Tick, TypeOK
<1>1. TypeOK' BY DEF Stages
<1>2. PastReadings' BY DEF PastReadings
<1>3. Deadline' BY DEF Deadline
<1>4. FillerOwns' BY DEF FillerOwns, Owns
<1>5. FillsOfEpochs' /\ FillHistory' BY DEF FillsOfEpochs, FillHistory
<1>6. QED BY <1>1, <1>2, <1>3, <1>4, <1>5

\* The inductive invariant holds throughout: the lease a runtime checked is
\* still its own, with the same token, until its fill is persisted.
THEOREM Invariance == Spec => []IInv
<1>1. Init => IInv
  BY DEF Init, IInv, TypeOK, Stages, PastReadings, Deadline, FillerOwns, FillsOfEpochs,
         FillHistory
<1>2. IInv /\ [Next]_vars => IInv'
  <2> SUFFICES ASSUME IInv, [Next]_vars PROVE IInv'
    OBVIOUS
  <2>1. CASE Next
    BY <2>1, StepInv, TickInv DEF Next
  <2>2. CASE UNCHANGED vars
    BY <2>2 DEF vars, IInv, TypeOK, Stages, PastReadings, Deadline, FillerOwns, Owns,
                FillsOfEpochs, FillHistory
  <2>3. QED BY <2>1, <2>2
<1>3. QED BY <1>1, <1>2, PTL DEF Spec
-----------------------------------------------------------------------------
\* Every variable of the lease model keeps its type.
THEOREM TypeCorrect == Spec => []TypeOK
<1>1. IInv => TypeOK BY DEF IInv
<1>2. QED BY Invariance, <1>1, PTL

\* At most one runtime of the account is ever between the final ownership
\* check of _execute and the commit of its fill, and the tokens persisted with
\* the fills order them by owner.
THEOREM MutualExclusion == Spec => []ExclusiveFills
<1>1. IInv => OneAuthorizedRuntime
  BY DEF IInv, FillerOwns, Owns, OneAuthorizedRuntime
<1>2. IInv => ExclusiveFills
  BY <1>1 DEF IInv, ExclusiveFills
<1>3. QED BY Invariance, <1>2, PTL

\* What the final check saw still holds when the fill is persisted.
LEMMA FencedFill == IInv /\ Next => FillIsFenced
<1> SUFFICES ASSUME IInv, Next, NEW f \in fills' \ fills
             PROVE  lease.owner = f.by /\ lease.token = f.token /\ clock < lease.expires
  BY DEF FillIsFenced
<1>1. PICK r \in Runtimes : FillCommitted(r)
  BY DEF Next, Tick, Step, AcquireStart, AcquireGranted, AcquireRefused, AcquireBusy,
         GateBlocked, GateOpen, ValidatePassed, ValidateFenced, FillBusy, ReleaseStart,
         ReleaseCommitted, Stop
<1>2. f.by = r /\ f.token = token[r]
  BY <1>1 DEF FillCommitted
<1>3. Owns(r) /\ clock <= ts[r] + FillDelay
  BY <1>1 DEF FillCommitted, IInv, FillerOwns, Deadline
<1>4. QED BY <1>2, <1>3 DEF Owns, IInv, TypeOK

\* A lease that has not expired changes only by a step of its own runtime.
LEMMA LiveLease == IInv /\ Next => LiveLeaseStands
<1> SUFFICES ASSUME IInv, Next, NEW r \in Runtimes, lease.owner = r,
                    clock < lease.expires, pc'[r] = pc[r]
             PROVE  lease' = lease
  BY DEF LiveLeaseStands
<1>1. CASE Tick
  BY <1>1 DEF Tick
<1>2. ASSUME NEW s \in Runtimes, Step(s) PROVE lease' = lease
  <2>1. CASE AcquireGranted(s)
    <3>1. s # r
      BY <2>1 DEF AcquireGranted, Goto, IInv, TypeOK
    <3>2. lease.expires <= ts[s] /\ ts[s] <= clock
      BY <2>1, <3>1 DEF AcquireGranted, MayOwn, IInv, PastReadings
    <3>3. QED BY <3>2 DEF IInv, TypeOK
  <2>2. CASE ReleaseCommitted(s)
    <3>1. s # r
      BY <2>2 DEF ReleaseCommitted, Goto, IInv, TypeOK
    <3>2. QED BY <2>2, <3>1 DEF ReleaseCommitted
  <2>3. QED BY <1>2, <2>1, <2>2
         DEF Step, AcquireStart, AcquireRefused, AcquireBusy, GateBlocked, GateOpen,
             ValidatePassed, ValidateFenced, FillCommitted, FillBusy, ReleaseStart, Stop
<1>3. QED BY <1>1, <1>2 DEF Next

\* Every fill is persisted under the unexpired lease its runtime checked,
\* although _persist_pending_paper_position does not read the lease again, and
\* nobody else's step changes that lease before it expires.
THEOREM LeaseStands == Spec => LeaseIsRespected
<1>1. IInv /\ [Next]_vars => [FillIsFenced /\ LiveLeaseStands]_vars
  BY FencedFill, LiveLease
<1>2. QED BY Invariance, <1>1, PTL DEF Spec, LeaseIsRespected
-----------------------------------------------------------------------------
\* The lease, with its stale clock readings, expiry, renewal, release and
\* crashes, implements the account authority of AccountAuthority.
THEOREM Refinement == Spec => AuthoritySpec
<1>1. Init => Authority!Init
  BY DEF Init, Authority!Init
<1>2. IInv /\ [Next]_vars => [Authority!Next]_(Authority!vars)
  <2> SUFFICES ASSUME IInv, [Next]_vars
               PROVE  [Authority!Next]_(Authority!vars)
    OBVIOUS
  <2> USE DEF Authority!vars
  <2>1. CASE UNCHANGED vars
    BY <2>1 DEF vars
  <2>2. CASE Tick
    BY <2>2 DEF Tick
  <2>3. ASSUME NEW r \in Runtimes, Step(r)
        PROVE  [Authority!Next]_(Authority!vars)
    <3>1. CASE AcquireGranted(r)
      <4>1. CASE lease.owner = r
        BY <3>1, <4>1 DEF AcquireGranted, LeaseOf
      <4>2. CASE lease.owner # r
        <5>1. Authority!Grant(r)
          BY <3>1, <4>2 DEF AcquireGranted, LeaseOf, Authority!Grant
        <5>2. QED BY <5>1 DEF Authority!Next
      <4>3. QED BY <4>1, <4>2
    <3>2. CASE FillCommitted(r)
      <4>1. lease.owner = r /\ lease.token = token[r] /\ clock \in 0..MaxClock
        BY <3>2 DEF FillCommitted, IInv, FillerOwns, Owns, TypeOK
      <4>2. Authority!Record(r, clock)
        BY <3>2, <4>1 DEF FillCommitted, Authority!Record
      <4>3. QED BY <4>1, <4>2 DEF Authority!Next
    <3>3. CASE ReleaseCommitted(r)
      <4>1. lease'.owner = lease.owner /\ lease'.token = lease.token
        BY <3>3 DEF ReleaseCommitted, IInv, TypeOK
      <4>2. QED BY <3>3, <4>1 DEF ReleaseCommitted
    <3>4. QED BY <2>3, <3>1, <3>2, <3>3
           DEF Step, AcquireStart, AcquireRefused, AcquireBusy, GateBlocked, GateOpen,
               ValidatePassed, ValidateFenced, FillBusy, ReleaseStart, Stop
  <2>4. QED BY <2>1, <2>2, <2>3 DEF Next
<1>3. QED BY Invariance, <1>1, <1>2, PTL DEF Spec, AuthoritySpec, Authority!Spec
=============================================================================
