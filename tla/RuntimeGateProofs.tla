------------------------- MODULE RuntimeGateProofs -------------------------
(***************************************************************************)
(* The runtime and its snapshot reader, for every set of writers that may  *)
(* give up, every failure class and every heartbeat threshold.             *)
(***************************************************************************)
EXTENDS RuntimeGate, TLAPS

-----------------------------------------------------------------------------
(* The reader by itself.                                                    *)

ReaderStep == [Reader!Next]_Reader!readerVars
ReaderInv == Reader!ReaderTypeOK /\ Reader!SingleFlight /\ Reader!FreshResult

\* Any step of the reader keeps the three facts together: SingleFlight needs
\* that a Future which is not busy has no thread, and that only an idle reader
\* begins.
LEMMA ReaderKeeps == ReaderInv /\ ReaderStep => ReaderInv'
<1> SUFFICES ASSUME ReaderInv, ReaderStep PROVE ReaderInv'
    OBVIOUS
<1> USE DEF ReaderInv, Reader!ReaderTypeOK, Reader!SingleFlight, Reader!FreshResult
<1>1. CASE Reader!Begin
    BY <1>1 DEF Reader!Begin, Reader!MayBegin
<1>2. CASE Reader!ThreadDone
    BY <1>2 DEF Reader!ThreadDone
<1>3. CASE Reader!Accept
    BY <1>3 DEF Reader!Accept
<1>4. CASE Reader!Abandon
    BY <1>4 DEF Reader!Abandon
<1>5. CASE Reader!CloseStart
    BY <1>5 DEF Reader!CloseStart
<1>6. CASE Reader!CloseQuiescent
    BY <1>6 DEF Reader!CloseQuiescent
<1>7. CASE Reader!CloseTimeout
    BY <1>7 DEF Reader!CloseTimeout, Reader!readerVars
<1>8. CASE UNCHANGED Reader!readerVars
    BY <1>8 DEF Reader!readerVars
<1> QED
    BY <1>1, <1>2, <1>3, <1>4, <1>5, <1>6, <1>7, <1>8 DEF ReaderStep, Reader!Next

\* A new reader has no Future, no waiter and no thread.
LEMMA ReaderBegins == Reader!Init => ReaderInv
<1> SUFFICES ASSUME Reader!Init PROVE ReaderInv
    OBVIOUS
<1>1. pending = "none" /\ threads = 0
    BY DEF Reader!Init
<1>2. waiting \in BOOLEAN /\ closed \in BOOLEAN /\ own \in BOOLEAN
    BY Zenon DEF Reader!Init
<1>3. Reader!ReaderTypeOK
    BY <1>1, <1>2 DEF Reader!ReaderTypeOK
<1>4. Reader!SingleFlight
    BY <1>1 DEF Reader!SingleFlight
<1>5. Reader!FreshResult
    BY Zenon DEF Reader!Init, Reader!FreshResult
<1> QED
    BY <1>3, <1>4, <1>5 DEF ReaderInv

\* In every history of reads, cancellations and closes, ReadonlySnapshotReader.read
\* never lets two provider threads overlap, and never returns the result of a
\* read that was cancelled.
THEOREM ReaderPromise == ReaderProtocol => [](Reader!SingleFlight /\ Reader!FreshResult)
<1>1. ReaderInv => Reader!SingleFlight /\ Reader!FreshResult
    BY DEF ReaderInv
<1>2. ReaderInv /\ [Reader!Next]_Reader!readerVars => ReaderInv'
    BY ReaderKeeps DEF ReaderStep
<1> QED
    BY ReaderBegins, <1>1, <1>2, PTL DEF ReaderProtocol, Reader!Spec
-----------------------------------------------------------------------------
(* The reader inside the runtime.                                           *)

\* Whatever the runtime does, the reader sees one of its own calls or nothing.
LEMMA StepOfReader == [Next]_vars => ReaderStep
<1> SUFFICES ASSUME [Next]_vars PROVE ReaderStep
    OBVIOUS
<1> USE DEF ReaderStep, Reader!Next, Reader!readerVars, reader
<1>1. CASE Reconciliation
    BY <1>1 DEF Reconciliation, ReconcileBegin, ReconcileRefused, ReconcileRead,
                FindingReported, ReconcileTimeout, TimeoutRecorded
<1>2. CASE Scanning
    BY <1>2 DEF Scanning, ScanBegin, StorageOk, StoragePressure, StorageSaved, ScanEnd,
                RejectPersisted, RejectBusy, LifecycleBusy, OwnershipBusy, ExecuteFatal,
                Fill, FillReported, DecisionBusy, PositionBusy
<1>3. CASE Heartbeat
    BY <1>3 DEF Heartbeat, HeartbeatRetry, HeartbeatSaved, HeartbeatBusy
<1>4. CASE Runner
    BY <1>4 DEF Runner, ResolverFailed, ResolverRecovered, CampaignEnded, ResolverPaused,
                MaintenanceEnds
<1>5. CASE Lifespan
    BY <1>5 DEF Lifespan, StartupDone, StartupBlocked, StartupCancelled, Shutdown,
                CancelTasks, CloseReader, Drained
<1>6. CASE ProviderReturns \/ WorldTurns
    BY <1>6 DEF ProviderReturns, WorldTurns
<1>7. CASE UNCHANGED vars
    BY <1>7 DEF vars
<1> QED
    BY <1>1, <1>2, <1>3, <1>4, <1>5, <1>6, <1>7 DEF Next

\* The runtime's start, reconciliation, cancellation and shutdown drive the
\* reader only through read, cancellation and close.
THEOREM ReaderRefinement == Spec => ReaderProtocol
<1>1. Init => Reader!Init
    BY DEF Init
<1>2. [Next]_vars => [Reader!Next]_Reader!readerVars
    BY StepOfReader DEF ReaderStep
<1> QED
    BY <1>1, <1>2, PTL DEF Spec, ReaderProtocol, Reader!Spec

\* So a step of the runtime keeps what holds of the reader.
LEMMA ReaderInvariant == ReaderInv /\ [Next]_vars => ReaderInv'
    BY StepOfReader, ReaderKeeps

\* However a cycle times out, is cancelled or meets a shutdown, the runtime
\* never runs two provider threads and never uses the result of a read it
\* abandoned.
THEOREM SingleFreshReads == Spec => [](Reader!SingleFlight /\ Reader!FreshResult)
    BY ReaderRefinement, ReaderPromise, PTL
-----------------------------------------------------------------------------
(* Types.                                                                   *)

\* The flags with recovery required are flags, for any reason of the code.
LEMMA RecoveryType ==
    ASSUME NEW g \in FlagType, NEW why \in Reasons PROVE Recovery(g, why) \in FlagType
BY DEF Recovery, FlagType

\* A read ends with a reason of the code, a read without one is CLEAN and
\* complete, and an incomplete one says so.
LEMMA ReadReason ==
    ASSUME NEW g \in FlagType, NEW complete \in BOOLEAN, NEW found
    PROVE  /\ ReasonAfterRead(g, complete, found) \in Reasons
           /\ ~ complete => ReasonAfterRead(g, complete, found) = "EXCHANGE_STATE_UNKNOWN"
           /\ complete /\ g.reason \notin Clearable \cup {"none"}
                => ReasonAfterRead(g, complete, found) \in {g.reason, "RESOLVER_PROVIDER_UNAVAILABLE"}
           /\ found # "nothing" => ReasonAfterRead(g, complete, found) # "none"
<1> USE DEF FlagType, Reasons
<1>1. CASE ~ complete
    BY <1>1 DEF ReasonAfterRead
<1>2. CASE complete /\ g.resolverDown
    BY <1>2 DEF ReasonAfterRead
<1>3. CASE complete /\ ~ g.resolverDown /\ g.reason \in Clearable
    BY <1>3 DEF ReasonAfterRead
<1>4. CASE complete /\ ~ g.resolverDown /\ g.reason \notin Clearable
    BY <1>4 DEF ReasonAfterRead
<1> QED
    BY <1>1, <1>2, <1>3, <1>4

\* The status a read is given says whether it left a reason.
LEMMA ReadStatus ==
    ASSUME NEW complete \in BOOLEAN, NEW reason
    PROVE  /\ StatusAfterRead(complete, reason) \in Statuses \ {"UNKNOWN", "PERSISTENCE_FAILED"}
           /\ StatusAfterRead(complete, reason) = "CLEAN" <=> reason = "none"
           /\ complete /\ reason # "none" => StatusAfterRead(complete, reason) = "DIRTY"
BY DEF StatusAfterRead, Statuses

\* What a read leaves in the flags are flags.
LEMMA AfterReadType ==
    ASSUME provider \in ProviderType, NEW g \in FlagType, NEW complete \in BOOLEAN, NEW found
    PROVE  AfterRead(g, complete, found) \in FlagType
BY ReadReason, ReadStatus DEF AfterRead, FlagType

\* A failed read is counted in the provider's bookkeeping.
LEMMA FailedType ==
    ASSUME provider \in ProviderType, NEW class \in Classes
    PROVE  Failed(class) \in ProviderType
BY DEF Failed, ProviderType

\* The end of a cycle, committed or not, keeps the types.
LEMMA EndCycleTypes ==
    ASSUME RuntimeTypeOK, NEW complete \in BOOLEAN, NEW class, ~ complete => class \in Classes,
           NEW found, EndCycle(complete, class, found)
    PROVE  /\ gate' \in FlagType /\ provider' \in ProviderType
           /\ rec' \in {"idle", "finding"} /\ repaired' \in BOOLEAN
           /\ committed' \in Statuses /\ stop' \in BOOLEAN /\ fatal' \in BOOLEAN
           /\ campaign' \in {campaign, "PAUSED"}
<1> DEFINE g0 == [gate EXCEPT !.unhealthy = TRUE]
           g == AfterRead(g0, complete, found)
           p == IF complete THEN provider ELSE Failed(class)
<1>1. g0 \in FlagType
    BY DEF RuntimeTypeOK, FlagType
<1>2. g \in FlagType
    BY <1>1, AfterReadType DEF RuntimeTypeOK
<1>3. p \in ProviderType
    BY FailedType DEF RuntimeTypeOK
<1>4. CycleCommitFailed(g, p) \/ CycleCommitted(g, p, found)
    BY DEF EndCycle
<1> HIDE DEF g, p
<1>5. CASE CycleCommitFailed(g, p)
    BY <1>2, <1>3, <1>5, ZenonT(40) DEF CycleCommitFailed, NoPause, RuntimeTypeOK, FlagType, Statuses, Reasons
<1>6. CASE CycleCommitted(g, p, found)
    <2>1. gate' \in FlagType /\ committed' \in Statuses
        BY <1>2, <1>6 DEF CycleCommitted, FlagType
    <2>2. provider' \in ProviderType
        BY <1>3, <1>6 DEF CycleCommitted, ProviderType
    <2>3. Pause \/ NoPause
        BY <1>6 DEF CycleCommitted, Escalate
    <2>4. stop' \in BOOLEAN /\ fatal' \in BOOLEAN /\ campaign' \in {campaign, "PAUSED"}
        BY <2>3 DEF Pause, NoPause, RuntimeTypeOK
    <2>5. rec' \in {"idle", "finding"} /\ repaired' \in BOOLEAN
        BY <1>6 DEF CycleCommitted, RuntimeTypeOK
    <2> QED
        BY <2>1, <2>2, <2>4, <2>5
<1> QED
    BY <1>4, <1>5, <1>6

\* No step of the reconciliation task leaves the types.
LEMMA ReconciliationTypes == RuntimeTypeOK /\ Reconciliation => RuntimeTypeOK'
<1> SUFFICES ASSUME RuntimeTypeOK, Reconciliation PROVE RuntimeTypeOK'
    OBVIOUS
<1>1. CASE ReconcileBegin
    <2>1. gate' \in FlagType
        BY <1>1 DEF ReconcileBegin, RuntimeTypeOK, FlagType
    <2> QED
        BY <1>1, <2>1 DEF ReconcileBegin, RuntimeTypeOK, control, counters, durable
<1>2. CASE ReconcileRefused
    <2>1. EndCycle(FALSE, "UNKNOWN", "nothing") /\ "UNKNOWN" \in Classes
        BY <1>2 DEF ReconcileRefused, Classes
    <2>2. /\ gate' \in FlagType /\ provider' \in ProviderType
          /\ rec' \in {"idle", "finding"} /\ repaired' \in BOOLEAN
          /\ committed' \in Statuses /\ stop' \in BOOLEAN /\ fatal' \in BOOLEAN
          /\ campaign' \in {campaign, "PAUSED"}
        BY <2>1, EndCycleTypes
    <2>3. UNCHANGED <<phase, scan, rejectDegraded, hbStreak, exposure, unaccepted, final,
                      released, runner, world>>
        BY <1>2 DEF ReconcileRefused, counters
    <2> QED
        BY <2>2, <2>3 DEF RuntimeTypeOK
<1>3. CASE ReconcileRead
    <2>1. PICK complete \in BOOLEAN, class \in Classes \cup {"none"}, found \in {"nothing", "stale", "orphan"} :
              EndCycle(complete, class, found) /\ (~ complete => class \in Classes)
        BY <1>3, ClassAssumption DEF ReconcileRead
    <2> QED
        BY <1>3, <2>1, EndCycleTypes DEF ReconcileRead, RuntimeTypeOK, counters
<1>4. CASE FindingReported
    <2>1. gate' \in FlagType
        BY <1>4, RecoveryType DEF FindingReported, RuntimeTypeOK, Reasons
    <2> QED
        BY <1>4, <2>1 DEF FindingReported, RuntimeTypeOK, counters, durable
<1>5. CASE ReconcileTimeout
    <2>1. gate' \in FlagType
        BY <1>5 DEF ReconcileTimeout, RuntimeTypeOK, FlagType, Reasons, Statuses
    <2>2. provider' \in ProviderType
        BY <1>5, FailedType DEF ReconcileTimeout, RuntimeTypeOK, Classes
    <2> QED
        BY <1>5, <2>1, <2>2 DEF ReconcileTimeout, RuntimeTypeOK, control, counters, durable
<1>6. CASE TimeoutRecorded
    <2>1. PICK g \in {gate, Recovery(gate, "LIFECYCLE_PERSISTENCE_FAILED")} :
              gate' \in {[g EXCEPT !.unhealthy = b] : b \in BOOLEAN}
        BY <1>6 DEF TimeoutRecorded
    <2>2. g \in FlagType
        BY <2>1, RecoveryType DEF RuntimeTypeOK, Reasons
    <2>3. gate' \in FlagType
        BY <2>1, <2>2 DEF FlagType
    <2>4. (Pause \/ NoPause) /\ committed' \in Statuses
        BY <1>6 DEF TimeoutRecorded, RuntimeTypeOK, FlagType
    <2>5. stop' \in BOOLEAN /\ fatal' \in BOOLEAN /\ campaign' \in {campaign, "PAUSED"}
        BY <2>4 DEF Pause, NoPause, RuntimeTypeOK
    <2> QED
        BY <1>6, <2>3, <2>4, <2>5 DEF TimeoutRecorded, RuntimeTypeOK, counters
<1> QED
    BY <1>1, <1>2, <1>3, <1>4, <1>5, <1>6 DEF Reconciliation

\* Nor does one of the scan.
LEMMA ScanningTypes == RuntimeTypeOK /\ Scanning => RuntimeTypeOK'
<1> SUFFICES ASSUME RuntimeTypeOK, Scanning PROVE RuntimeTypeOK'
    OBVIOUS
<1> USE DEF RuntimeTypeOK, control, counters, durable
<1>1. CASE \/ ScanBegin \/ StorageOk \/ StorageSaved \/ ScanEnd \/ ExecuteFatal
           \/ Fill \/ FillReported
    BY <1>1, ZenonT(40) DEF ScanBegin, StorageOk, StorageSaved, ScanEnd, ExecuteFatal, Fill, FillReported
<1>2. CASE StoragePressure
    <2>1. gate' \in FlagType
        BY <1>2 DEF StoragePressure, FlagType, Reasons
    <2> QED
        BY <1>2, <2>1 DEF StoragePressure
<1>3. CASE RejectPersisted
    <2>1. gate' \in FlagType
        BY <1>3 DEF RejectPersisted, FlagType, Reasons
    <2>2. /\ rejectDegraded' \in BOOLEAN
          /\ UNCHANGED <<phase, stop, fatal, rec, scan, provider, repaired, hbStreak, exposure,
                         unaccepted, committed, campaign, final, released, runner, world>>
        BY <1>3 DEF RejectPersisted
    <2> QED
        BY <2>1, <2>2
<1>4. CASE RejectBusy \/ LifecycleBusy \/ OwnershipBusy \/ PositionBusy
    <2>1. gate' \in FlagType
        BY <1>4, RecoveryType DEF RejectBusy, LifecycleBusy, OwnershipBusy, PositionBusy, Reasons
    <2>2. /\ rejectDegraded' \in BOOLEAN
          /\ UNCHANGED <<phase, stop, fatal, rec, scan, provider, repaired, hbStreak, exposure,
                         unaccepted, committed, campaign, final, released, runner, world>>
        BY <1>4 DEF RejectBusy, LifecycleBusy, OwnershipBusy, PositionBusy
    <2> QED
        BY <2>1, <2>2
<1>5. CASE DecisionBusy
    BY <1>5 DEF DecisionBusy, DecisionLost, FlagType, Reasons
<1> QED
    BY <1>1, <1>2, <1>3, <1>4, <1>5 DEF Scanning

\* Nor does a heartbeat, a report of the runner, startup or shutdown.
LEMMA OtherTypes == RuntimeTypeOK /\ (Heartbeat \/ Runner \/ Lifespan) => RuntimeTypeOK'
<1> SUFFICES ASSUME RuntimeTypeOK, Heartbeat \/ Runner \/ Lifespan PROVE RuntimeTypeOK'
    OBVIOUS
<1> USE DEF RuntimeTypeOK, control, counters, durable
<1>1. CASE \/ HeartbeatSaved \/ CampaignEnded \/ MaintenanceEnds \/ StartupDone
           \/ StartupBlocked \/ StartupCancelled \/ Shutdown \/ CancelTasks \/ CloseReader
    <2>1. CASE HeartbeatSaved
        BY <2>1, ThresholdAssumption DEF HeartbeatSaved
    <2>2. CASE CampaignEnded \/ MaintenanceEnds
        BY <2>2 DEF CampaignEnded, MaintenanceEnds
    <2>3. CASE StartupDone \/ StartupBlocked
        BY <2>3, ZenonT(40) DEF StartupDone, StartupBlocked
    <2>4. CASE StartupCancelled \/ Shutdown \/ CancelTasks \/ CloseReader
        BY <2>4 DEF StartupCancelled, Shutdown, CancelTasks, CloseReader
    <2> QED
        BY <1>1, <2>1, <2>2, <2>3, <2>4
<1>2. Terminalize => /\ gate' \in FlagType /\ stop' \in BOOLEAN
                     /\ campaign' \in {campaign, "RECOVERY_REQUIRED"}
    BY DEF Terminalize, FlagType, Sustained, Reasons
<1>3. CASE HeartbeatRetry
    BY <1>2, <1>3 DEF HeartbeatRetry
<1>4. CASE HeartbeatBusy
    BY <1>2, <1>4, ThresholdAssumption DEF HeartbeatBusy
<1>5. CASE ResolverFailed \/ ResolverRecovered \/ ResolverPaused
    <2>1. gate' \in FlagType
        BY <1>5, ZenonT(40) DEF ResolverFailed, ResolverRecovered, ResolverPaused, ResolverDown, FlagType,
                    Reasons
    <2> QED
        BY <1>5, <2>1 DEF ResolverFailed, ResolverRecovered, ResolverPaused
<1>6. CASE Drained
    <2>1. PICK quiet \in BOOLEAN : Finish(DrainedFlags(quiet))
        BY <1>6 DEF Drained
    <2>2. DrainedFlags(quiet) \in FlagType
        <3>1. gate \in FlagType
            OBVIOUS
        <3>2. [gate EXCEPT !.recovery = TRUE, !.unknown = TRUE, !.readOnly = "UNAVAILABLE",
                           !.status = "EXCHANGE_STATE_UNKNOWN",
                           !.reason = "READ_UNACCEPTED_AT_SHUTDOWN"] \in FlagType
            BY <3>1 DEF FlagType, Reasons, Statuses
        <3> QED
            BY <3>1, <3>2 DEF DrainedFlags
    <2>3. gate' \in FlagType
        BY <2>1, <2>2 DEF Finish, DecisionLost, FlagType, Reasons
    <2>4. /\ phase' = "down" /\ released' \in BOOLEAN
          /\ final' \in {final, "FAILED", "RECOVERY_REQUIRED", "CLEAN_SHUTDOWN"}
        BY <2>1 DEF Finish
    <2> QED
        BY <1>6, <2>3, <2>4 DEF Drained
<1> QED
    BY <1>1, <1>3, <1>4, <1>5, <1>6 DEF Heartbeat, Runner, Lifespan

\* So no step of the runtime does.
LEMMA StepTypes == RuntimeTypeOK /\ [Next]_vars => RuntimeTypeOK'
<1>1. CASE UNCHANGED vars \/ ProviderReturns \/ WorldTurns
    BY <1>1 DEF vars, ProviderReturns, WorldTurns, RuntimeTypeOK, control, counters, durable
<1> QED
    BY <1>1, ReconciliationTypes, ScanningTypes, OtherTypes DEF Next

\* The runtime starts well typed.
LEMMA InitTypes == Init => RuntimeTypeOK
<1>1. Init => gate \in FlagType /\ provider \in ProviderType
    BY DEF Init, FlagType, ProviderType, Reasons, Statuses, Classes
<1>2. Init => hbStreak \in 0..HbThreshold
    BY ThresholdAssumption DEF Init
<1>3. Init => /\ stop \in BOOLEAN /\ fatal \in BOOLEAN /\ repaired \in BOOLEAN
              /\ rejectDegraded \in BOOLEAN /\ exposure \in BOOLEAN
              /\ unaccepted \in BOOLEAN /\ released \in BOOLEAN
    BY Zenon DEF Init
<1> QED
    BY <1>1, <1>2, <1>3 DEF Init, RuntimeTypeOK, Statuses

\* Every variable of the runtime and of its reader keeps its type, for every set
\* of failing writers and classes and every heartbeat threshold.
THEOREM GateTypes == Spec => []TypeOK
<1>1. Init => RuntimeTypeOK
    BY InitTypes
<1>2. Init => ReaderInv
    BY ReaderBegins DEF Init
<1>3. ReaderInv => Reader!ReaderTypeOK
    BY DEF ReaderInv
<1>4. RuntimeTypeOK /\ ReaderInv => TypeOK
    BY <1>3 DEF TypeOK
<1> QED
    BY <1>1, <1>2, <1>4, StepTypes, ReaderInvariant, PTL DEF Spec
-----------------------------------------------------------------------------
(* What opens the gate.                                                     *)

\* The end of a cycle.  An evidence that could not be committed and a read that
\* was not complete leave the exchange unknown; only a complete read whose
\* evidence is committed ends an outage; a pause needs an unknown exchange.
LEMMA CycleEnd ==
    ASSUME RuntimeTypeOK, NEW complete \in BOOLEAN, NEW class, ~ complete => class \in Classes,
           NEW found, ~ complete => found = "nothing", EndCycle(complete, class, found)
    PROVE  /\ gate'.recovery = gate.recovery /\ gate'.resolverDown = gate.resolverDown
           /\ ~ complete => gate'.unknown
           /\ gate'.status # "UNKNOWN"
           /\ gate'.status = "CLEAN" /\ ~ gate'.unhealthy => committed' = "CLEAN"
           /\ provider'.outage => gate'.unknown
           /\ rec' = "finding" => gate'.status = "DIRTY"
           /\ campaign' # campaign => campaign' = "PAUSED" /\ stop' /\ gate'.unknown /\ rec' = "idle"
           /\ stop => stop'
           /\ Doubt /\ ~ Doubt' => committed' = "CLEAN"
           /\ gate.reason \notin Clearable \cup {"none", "REJECT_PERSISTENCE_FAILED"}
                => gate'.reason \notin {"none", "REJECT_PERSISTENCE_FAILED"}
<1> DEFINE g0 == [gate EXCEPT !.unhealthy = TRUE]
           reason == ReasonAfterRead(g0, complete, found)
           g == AfterRead(g0, complete, found)
           p == IF complete THEN provider ELSE Failed(class)
<1>1. g0 \in FlagType /\ g0.reason = gate.reason /\ g0.unknown = gate.unknown
      /\ g0.recovery = gate.recovery /\ g0.resolverDown = gate.resolverDown
      /\ g0.resolverPending = gate.resolverPending
    BY DEF RuntimeTypeOK, FlagType
<1>2. g \in FlagType
    BY <1>1, AfterReadType DEF RuntimeTypeOK
<1>3. p \in ProviderType
    BY FailedType DEF RuntimeTypeOK
<1> HIDE DEF g0, reason, p
<1>4. /\ reason \in Reasons
      /\ ~ complete => reason = "EXCHANGE_STATE_UNKNOWN"
      /\ gate.reason \notin Clearable \cup {"none", "REJECT_PERSISTENCE_FAILED"}
            => reason \notin {"none", "REJECT_PERSISTENCE_FAILED"}
      /\ found # "nothing" => reason # "none"
    BY <1>1, ReadReason DEF reason
<1>5. /\ g.reason = reason /\ g.recovery = gate.recovery /\ g.resolverDown = gate.resolverDown
      /\ g.resolverPending = gate.resolverPending
      /\ g.unknown = (/\ reason # "none"
                      /\ ~ complete \/ gate.unknown \/ provider.outage \/ gate.resolverPending)
      /\ g.readOnly = IF complete THEN "AVAILABLE" ELSE "UNAVAILABLE"
      /\ g.status = StatusAfterRead(complete, reason)
    BY <1>1 DEF AfterRead, FlagType, reason
<1>6. /\ g.status # "UNKNOWN"
      /\ g.status = "CLEAN" <=> reason = "none"
      /\ complete /\ reason # "none" => g.status = "DIRTY"
    BY <1>5, ReadStatus
<1>7. CycleCommitFailed(g, p) \/ CycleCommitted(g, p, found)
    BY DEF EndCycle, p, g0
<1> HIDE DEF g
<1>8. CASE CycleCommitFailed(g, p)
    <2>1. gate' = [g EXCEPT !.status = "PERSISTENCE_FAILED", !.unknown = TRUE,
                            !.reason = "RECONCILIATION_PERSISTENCE_FAILED"]
        BY <1>8 DEF CycleCommitFailed
    <2>2. /\ gate'.unknown /\ gate'.status = "PERSISTENCE_FAILED"
          /\ gate'.reason = "RECONCILIATION_PERSISTENCE_FAILED"
          /\ gate'.recovery = g.recovery /\ gate'.resolverDown = g.resolverDown
        BY <1>2, <2>1 DEF FlagType
    <2>3. rec' = "idle" /\ stop' = stop /\ campaign' = campaign
        BY <1>8 DEF CycleCommitFailed, NoPause
    <2> QED
        BY <1>5, <2>2, <2>3 DEF Doubt
<1>9. CASE CycleCommitted(g, p, found)
    <2>1. gate' = [g EXCEPT !.unhealthy = FALSE, !.resolverPending = @ /\ ~ (g.reason = "none")]
        BY <1>9 DEF CycleCommitted
    <2>2. /\ gate'.unknown = g.unknown /\ gate'.status = g.status /\ gate'.reason = reason
          /\ gate'.recovery = gate.recovery /\ gate'.resolverDown = gate.resolverDown
          /\ gate'.resolverPending = (gate.resolverPending /\ reason # "none")
        BY <1>2, <1>5, <2>1 DEF FlagType
    <2>3. committed' = g.status
        BY <1>9 DEF CycleCommitted
    <2>4. provider' = IF complete THEN [class |-> "none", count |-> 0, outage |-> FALSE] ELSE p
        BY <1>5, <1>9 DEF CycleCommitted
    <2>5. provider'.outage => gate'.unknown
        BY <1>4, <1>5, <2>2, <2>4
    <2>6. rec' = "finding" => gate'.status = "DIRTY"
        BY <1>4, <1>6, <1>9, <2>2 DEF CycleCommitted
    <2>7. Pause \/ NoPause
        BY <1>9 DEF CycleCommitted, Escalate
    <2>8. complete => NoPause
        BY <1>5, <1>9 DEF CycleCommitted, Escalate
    <2>9. ~ complete => rec' = "idle"
        BY <1>9 DEF CycleCommitted
    <2>10. /\ campaign' # campaign => campaign' = "PAUSED" /\ stop' /\ gate'.unknown /\ rec' = "idle"
           /\ stop => stop'
        BY <1>4, <1>5, <2>2, <2>7, <2>8, <2>9 DEF Pause, NoPause
    <2>11. Doubt /\ ~ Doubt' => committed' = "CLEAN"
        BY <1>5, <1>6, <2>2, <2>3 DEF Doubt
    <2> QED
        BY <1>4, <1>5, <1>6, <2>2, <2>3, <2>5, <2>6, <2>10, <2>11
<1> QED
    BY <1>7, <1>8, <1>9

Evidenced == RecoveryStays /\ DoubtEndsClean

\* A step that leaves the flags alone opens nothing.
LEMMA SameGate == UNCHANGED gate => Evidenced
BY DEF Evidenced, RecoveryStays, DoubtEndsClean, Doubt

\* Of the reconciliation task only the commit of a complete read ends a doubt,
\* and nothing touches the recovery flag but to set it.
LEMMA ReconciliationKeeps == RuntimeTypeOK /\ Reconciliation => Evidenced
<1> SUFFICES ASSUME RuntimeTypeOK, Reconciliation PROVE Evidenced
    OBVIOUS
<1>1. CASE ReconcileBegin
    BY <1>1 DEF ReconcileBegin, RuntimeTypeOK, FlagType, Evidenced, RecoveryStays,
                DoubtEndsClean, Doubt
<1>2. CASE ReconcileRefused
    <2>1. EndCycle(FALSE, "UNKNOWN", "nothing") /\ "UNKNOWN" \in Classes
        BY <1>2 DEF ReconcileRefused, Classes
    <2>2. gate'.recovery = gate.recovery /\ gate'.unknown
        BY <2>1, CycleEnd
    <2> QED
        BY <2>2 DEF Evidenced, RecoveryStays, DoubtEndsClean, Doubt
<1>3. CASE ReconcileRead
    <2>1. PICK complete \in BOOLEAN, class \in Classes \cup {"none"}, found \in {"nothing", "stale", "orphan"} :
              /\ EndCycle(complete, class, found)
              /\ ~ complete => class \in Classes /\ found = "nothing"
        BY <1>3, ClassAssumption DEF ReconcileRead
    <2>2. /\ gate'.recovery = gate.recovery
          /\ Doubt /\ ~ Doubt' => committed' = "CLEAN"
        BY <2>1, CycleEnd
    <2> QED
        BY <1>3, <2>2 DEF ReconcileRead, Evidenced, RecoveryStays, DoubtEndsClean
<1>4. CASE FindingReported
    BY <1>4 DEF FindingReported, Recovery, RuntimeTypeOK, FlagType, Evidenced, RecoveryStays,
                DoubtEndsClean, Doubt
<1>5. CASE ReconcileTimeout
    BY <1>5 DEF ReconcileTimeout, RuntimeTypeOK, FlagType, Evidenced, RecoveryStays,
                DoubtEndsClean, Doubt
<1>6. CASE TimeoutRecorded
    <2>1. PICK g \in {gate, Recovery(gate, "LIFECYCLE_PERSISTENCE_FAILED")} :
              gate' \in {[g EXCEPT !.unhealthy = b] : b \in BOOLEAN}
        BY <1>6 DEF TimeoutRecorded
    <2> QED
        BY <2>1 DEF Recovery, RuntimeTypeOK, FlagType, Evidenced, RecoveryStays,
                    DoubtEndsClean, Doubt
<1> QED
    BY <1>1, <1>2, <1>3, <1>4, <1>5, <1>6 DEF Reconciliation

\* In the scan only a reject that persists while degraded may clear the flag,
\* and nothing ends a doubt.
LEMMA ScanningKeeps == RuntimeTypeOK /\ Scanning => Evidenced
<1> SUFFICES ASSUME RuntimeTypeOK, Scanning PROVE Evidenced
    OBVIOUS
<1>1. CASE \/ ScanBegin \/ StorageOk \/ StorageSaved \/ ScanEnd \/ ExecuteFatal
           \/ Fill \/ FillReported
    BY <1>1, SameGate DEF ScanBegin, StorageOk, StorageSaved, ScanEnd, ExecuteFatal, Fill,
                          FillReported
<1> USE DEF RuntimeTypeOK, FlagType, Evidenced, RecoveryStays, DoubtEndsClean, Doubt
<1>2. CASE StoragePressure
    BY <1>2 DEF StoragePressure
<1>3. CASE RejectPersisted
    BY <1>3 DEF RejectPersisted
<1>4. CASE RejectBusy \/ LifecycleBusy \/ OwnershipBusy \/ PositionBusy
    BY <1>4 DEF RejectBusy, LifecycleBusy, OwnershipBusy, PositionBusy, Recovery
<1>5. CASE DecisionBusy
    BY <1>5 DEF DecisionBusy, DecisionLost
<1> QED
    BY <1>1, <1>2, <1>3, <1>4, <1>5 DEF Scanning

\* Heartbeat, resolver reports, startup and shutdown never open anything.
LEMMA OthersKeep == RuntimeTypeOK /\ (Heartbeat \/ Runner \/ Lifespan) => Evidenced
<1> SUFFICES ASSUME RuntimeTypeOK, Heartbeat \/ Runner \/ Lifespan PROVE Evidenced
    OBVIOUS
<1>1. CASE \/ HeartbeatSaved \/ CampaignEnded \/ MaintenanceEnds \/ StartupDone
           \/ StartupBlocked \/ StartupCancelled \/ Shutdown \/ CancelTasks \/ CloseReader
    BY <1>1, SameGate DEF HeartbeatSaved, CampaignEnded, MaintenanceEnds, StartupDone,
              StartupBlocked, StartupCancelled, Shutdown, CancelTasks, CloseReader
<1> USE DEF RuntimeTypeOK, FlagType, Evidenced, RecoveryStays, DoubtEndsClean, Doubt
<1>2. CASE HeartbeatRetry \/ HeartbeatBusy
    BY <1>2 DEF HeartbeatRetry, HeartbeatBusy, Terminalize
<1>3. CASE ResolverFailed \/ ResolverRecovered \/ ResolverPaused
    BY <1>3 DEF ResolverFailed, ResolverRecovered, ResolverPaused, ResolverDown
<1>4. CASE Drained
    BY <1>4 DEF Drained, DrainedFlags, Finish, DecisionLost
<1> QED
    BY <1>1, <1>2, <1>3, <1>4 DEF Heartbeat, Runner, Lifespan

\* Once recovery is required, no cycle, heartbeat, resolver report, storage
\* check or shutdown of the runtime takes it back; only _persist_reject does,
\* and only while rejects are degraded.  Once the exchange or the resolver is in
\* doubt, only the commit of a CLEAN cycle of the runtime's own read ends that.
THEOREM EvidenceOpens == Spec => OpensOnEvidence
<1>1. RuntimeTypeOK /\ [Next]_vars => [RecoveryStays /\ DoubtEndsClean]_vars
    <2>1. CASE ProviderReturns \/ WorldTurns
        BY <2>1, SameGate DEF ProviderReturns, WorldTurns, Evidenced
    <2> QED
        BY <2>1, ReconciliationKeeps, ScanningKeeps, OthersKeep DEF Next, Evidenced
<1>2. Spec => []RuntimeTypeOK
    <2>1. TypeOK => RuntimeTypeOK
        BY DEF TypeOK
    <2> QED
        BY <2>1, GateTypes, PTL
<1> QED
    BY <1>1, <1>2, PTL DEF Spec, OpensOnEvidence
-----------------------------------------------------------------------------
(* What backs a fill.  The gate is a set of flags; the invariant says what   *)
(* the flags that leave it open know about the cycle, the read, the outage   *)
(* and the campaign, as long as the tasks run.                               *)

Winding == {"cancelling", "draining", "down"}

\* While a cycle is under way, some flag holds the gate shut.
CycleShuts ==
    /\ rec = "init" => phase = "starting" /\ campaign \notin {"PAUSED", "RECOVERY_REQUIRED"}
    /\ rec = "reading" => gate.unhealthy
    /\ rec = "finding" => gate.status = "DIRTY"
    /\ rec = "incident" => gate.unknown

\* A status is believed only when it is committed.
StatusBacked ==
    /\ gate.status = "UNKNOWN" => rec \in {"init", "reading"}
    /\ phase = "operating" => gate.status # "UNKNOWN"
    /\ gate.status = "CLEAN" /\ ~ gate.unhealthy => committed = "CLEAN"

\* A read left behind and an outage keep the exchange unknown.
DoubtBacked ==
    /\ pending # "none" => rec = "reading" \/ gate.unknown
    /\ provider.outage => gate.unknown

\* A campaign this runtime paused or gave up stays shut: no new cycle starts, and
\* the one under way cannot clear the reason it was given up for.
AbandonedShuts ==
    /\ campaign = "PAUSED" => stop /\ gate.unknown /\ rec \notin {"init", "reading"}
    /\ campaign = "RECOVERY_REQUIRED" =>
          /\ stop /\ gate.recovery /\ phase # "starting"
          /\ gate.reason \notin {"none", "REJECT_PERSISTENCE_FAILED"}
          /\ rec = "reading" => gate.reason \notin Clearable

Backed == CycleShuts /\ StatusBacked /\ DoubtBacked /\ AbandonedShuts
BackedInv == phase \notin Winding => Backed

\* A reason no reject and no complete read takes back.
Grave(g) == g.recovery /\ g.reason \notin {"none", "REJECT_PERSISTENCE_FAILED"}

\* A step outside the reconciliation task: it may shut the gate further, give up
\* the campaign or drop a pending read, and vouches for nothing.
Outside ==
    /\ UNCHANGED <<rec, committed, provider>>
    /\ phase' = phase \/ (phase = "starting" /\ phase' = "operating" /\ rec = "idle")
    /\ pending' # "none" => pending # "none"
    /\ gate'.unhealthy = gate.unhealthy /\ gate'.status = gate.status
    /\ gate.unknown => gate'.unknown
    /\ Grave(gate) => Grave(gate') /\ (gate.reason \notin Clearable => gate'.reason \notin Clearable)
    /\ stop => stop'
    /\ \/ campaign' \in {campaign, "ENDED_ELSEWHERE"}
       \/ /\ campaign' = "RECOVERY_REQUIRED" /\ phase = "operating" /\ stop'
          /\ Grave(gate') /\ gate'.reason \notin Clearable

\* Such a step keeps what backs the gate.
LEMMA OutsideKeeps == RuntimeTypeOK /\ Backed /\ Outside => Backed'
<1> SUFFICES ASSUME RuntimeTypeOK, Backed, Outside PROVE Backed'
    OBVIOUS
<1> USE DEF Outside, Backed
<1>1. CycleShuts'
    BY DEF CycleShuts
<1>2. StatusBacked'
    BY DEF StatusBacked
<1>3. DoubtBacked'
    BY DEF DoubtBacked
<1>4. AbandonedShuts'
    BY DEF AbandonedShuts, CycleShuts, Grave
<1> QED
    BY <1>1, <1>2, <1>3, <1>4

\* The tasks never come back once they are cancelled.
LEMMA NoReturn == [Next]_vars /\ phase' \notin Winding => phase \notin Winding
<1> SUFFICES ASSUME [Next]_vars, phase' \notin Winding PROVE phase \notin Winding
    OBVIOUS
<1> USE DEF Winding, control
<1>1. CASE Reconciliation
    BY <1>1 DEF Reconciliation, ReconcileBegin, ReconcileRefused, ReconcileRead,
                FindingReported, ReconcileTimeout, TimeoutRecorded
<1>2. CASE Scanning
    BY <1>2 DEF Scanning, ScanBegin, StorageOk, StoragePressure, StorageSaved, ScanEnd,
                RejectPersisted, RejectBusy, LifecycleBusy, OwnershipBusy, ExecuteFatal,
                Fill, FillReported, DecisionBusy, PositionBusy
<1>3. CASE Heartbeat
    BY <1>3 DEF Heartbeat, HeartbeatRetry, HeartbeatSaved, HeartbeatBusy
<1>4. CASE Runner
    BY <1>4 DEF Runner, ResolverFailed, ResolverRecovered, CampaignEnded, ResolverPaused,
                MaintenanceEnds
<1>5. CASE Lifespan
    BY <1>5 DEF Lifespan, StartupDone, StartupBlocked, StartupCancelled, Shutdown,
                CancelTasks, CloseReader, Drained, Finish
<1>6. CASE ProviderReturns \/ WorldTurns
    BY <1>6 DEF ProviderReturns, WorldTurns
<1>7. CASE UNCHANGED vars
    BY <1>7 DEF vars
<1> QED
    BY <1>1, <1>2, <1>3, <1>4, <1>5, <1>6, <1>7 DEF Next

\* Scan, heartbeat, runner, startup and the provider's thread are outside.
LEMMA ScanningOutside == RuntimeTypeOK /\ Scanning => Outside
<1> SUFFICES ASSUME RuntimeTypeOK, Scanning PROVE Outside
    OBVIOUS
<1> USE DEF RuntimeTypeOK, FlagType, Outside, Grave, Clearable, control, durable, reader
<1>1. CASE \/ ScanBegin \/ StorageOk \/ StorageSaved \/ ScanEnd \/ ExecuteFatal
           \/ Fill \/ FillReported
    BY <1>1 DEF ScanBegin, StorageOk, StorageSaved, ScanEnd, ExecuteFatal, Fill, FillReported
<1>2. CASE StoragePressure
    BY <1>2 DEF StoragePressure
<1>3. CASE RejectPersisted
    BY <1>3 DEF RejectPersisted
<1>4. CASE RejectBusy
    BY <1>4 DEF RejectBusy, Recovery
<1>5. CASE LifecycleBusy
    BY <1>5 DEF LifecycleBusy, Recovery
<1>6. CASE OwnershipBusy
    BY <1>6 DEF OwnershipBusy, Recovery
<1>7. CASE PositionBusy
    BY <1>7 DEF PositionBusy, Recovery
<1>8. CASE DecisionBusy
    BY <1>8 DEF DecisionBusy, DecisionLost
<1> QED
    BY <1>1, <1>2, <1>3, <1>4, <1>5, <1>6, <1>7, <1>8 DEF Scanning

LEMMA OthersOutside ==
    RuntimeTypeOK /\ (Heartbeat \/ Runner \/ Lifespan) /\ phase' \notin Winding => Outside
<1> SUFFICES ASSUME RuntimeTypeOK, Heartbeat \/ Runner \/ Lifespan, phase' \notin Winding
             PROVE  Outside
    OBVIOUS
<1> USE DEF RuntimeTypeOK, FlagType, Outside, Grave, Clearable, Winding, control, durable, reader
<1>1. CASE HeartbeatRetry
    BY <1>1 DEF HeartbeatRetry, Terminalize, Sustained
<1>2. CASE HeartbeatSaved
    BY <1>2 DEF HeartbeatSaved
<1>3. CASE HeartbeatBusy
    BY <1>3, ZenonT(40) DEF HeartbeatBusy, Terminalize, Sustained
<1>4. CASE ResolverFailed \/ ResolverPaused
    BY <1>4 DEF ResolverFailed, ResolverPaused, ResolverDown
<1>5. CASE ResolverRecovered
    BY <1>5 DEF ResolverRecovered
<1>6. CASE CampaignEnded \/ MaintenanceEnds
    BY <1>6 DEF CampaignEnded, MaintenanceEnds
<1>7. CASE StartupDone \/ Shutdown
    BY <1>7 DEF StartupDone, Shutdown
<1>8. CASE \/ StartupBlocked \/ StartupCancelled \/ CancelTasks \/ CloseReader \/ Drained
    BY <1>8 DEF StartupBlocked, StartupCancelled, CancelTasks, CloseReader, Drained, Finish
<1> QED
    BY <1>1, <1>2, <1>3, <1>4, <1>5, <1>6, <1>7, <1>8 DEF Heartbeat, Runner, Lifespan

\* The reconciliation task keeps it too: what it commits is what it read.
LEMMA ReconciliationBacks ==
    RuntimeTypeOK /\ Backed /\ phase \notin Winding /\ Reconciliation => Backed'
<1> SUFFICES ASSUME RuntimeTypeOK, Backed, phase \notin Winding, Reconciliation PROVE Backed'
    OBVIOUS
<1>0. phase' = phase /\ (MayReconcile => rec = "init" \/ ~ stop)
    BY DEF Reconciliation, ReconcileBegin, ReconcileRefused, ReconcileRead, FindingReported,
           ReconcileTimeout, TimeoutRecorded, control, MayReconcile
<1>1. CASE ReconcileBegin
    <2>1. /\ rec' = "reading" /\ gate' = [gate EXCEPT !.unhealthy = TRUE] /\ MayReconcile
          /\ UNCHANGED <<phase, stop, campaign, committed, provider>>
        BY <1>1 DEF ReconcileBegin, control, durable
    <2>2. /\ gate'.unhealthy /\ gate'.status = gate.status /\ gate'.unknown = gate.unknown
        BY <2>1 DEF RuntimeTypeOK, FlagType
    <2>3. campaign' \notin {"PAUSED", "RECOVERY_REQUIRED"}
        BY <1>0, <2>1 DEF Backed, CycleShuts, AbandonedShuts
    <2> QED
        BY <2>1, <2>2, <2>3 DEF Backed, CycleShuts, StatusBacked, DoubtBacked, AbandonedShuts
<1>2. ASSUME NEW complete \in BOOLEAN, NEW class, NEW found,
             ~ complete => class \in Classes /\ found = "nothing",
             EndCycle(complete, class, found),
             complete => pending' = "none" /\ rec = "reading",
             \/ rec = "reading"
             \/ campaign \notin {"PAUSED", "RECOVERY_REQUIRED"}
      PROVE  Backed'
    <2>1. /\ gate'.recovery = gate.recovery
          /\ ~ complete => gate'.unknown
          /\ gate'.status # "UNKNOWN"
          /\ gate'.status = "CLEAN" /\ ~ gate'.unhealthy => committed' = "CLEAN"
          /\ provider'.outage => gate'.unknown
          /\ rec' = "finding" => gate'.status = "DIRTY"
          /\ campaign' # campaign => campaign' = "PAUSED" /\ stop' /\ gate'.unknown /\ rec' = "idle"
          /\ stop => stop'
          /\ gate.reason \notin Clearable \cup {"none", "REJECT_PERSISTENCE_FAILED"}
               => gate'.reason \notin {"none", "REJECT_PERSISTENCE_FAILED"}
        BY <1>2, CycleEnd
    <2>2. rec' \in {"idle", "finding"}
        BY <1>2, EndCycleTypes
    <2>3. CycleShuts' /\ StatusBacked' /\ DoubtBacked'
        BY <1>2, <2>1, <2>2 DEF CycleShuts, StatusBacked, DoubtBacked
    <2>4. AbandonedShuts'
        BY <1>0, <1>2, <2>1, <2>2 DEF Backed, AbandonedShuts
    <2> QED
        BY <2>3, <2>4 DEF Backed
<1>3. CASE ReconcileRefused
    <2>1. EndCycle(FALSE, "UNKNOWN", "nothing") /\ "UNKNOWN" \in Classes /\ MayReconcile
        BY <1>3 DEF ReconcileRefused, Classes
    <2>2. campaign \notin {"PAUSED", "RECOVERY_REQUIRED"}
        BY <1>0, <2>1 DEF Backed, CycleShuts, AbandonedShuts
    <2> QED
        BY <1>2, <2>1, <2>2
<1>4. CASE ReconcileRead
    <2>1. PICK complete \in BOOLEAN, class \in Classes \cup {"none"}, found \in {"nothing", "stale", "orphan"} :
              /\ EndCycle(complete, class, found)
              /\ ~ complete => class \in Classes /\ found = "nothing"
        BY <1>4, ClassAssumption DEF ReconcileRead
    <2>2. pending' = "none" /\ rec = "reading"
        BY <1>4 DEF ReconcileRead, Reader!Accept
    <2> QED
        BY <1>2, <2>1, <2>2
<1>5. CASE FindingReported
    <2>1. /\ rec = "finding" /\ rec' = "idle" /\ stop' = TRUE
          /\ gate' \in {gate, Recovery(gate, "LIFECYCLE_PERSISTENCE_FAILED")}
          /\ UNCHANGED <<phase, campaign, committed, provider, pending>>
        BY <1>5 DEF FindingReported, durable, reader
    <2>2. /\ gate'.status = gate.status /\ gate'.unhealthy = gate.unhealthy
          /\ gate'.unknown = gate.unknown /\ (Grave(gate) => Grave(gate'))
        BY <2>1 DEF Recovery, Grave, RuntimeTypeOK, FlagType
    <2> QED
        BY <2>1, <2>2 DEF Backed, CycleShuts, StatusBacked, DoubtBacked, AbandonedShuts, Grave
<1>6. CASE ReconcileTimeout
    <2>1. /\ rec' = "incident" /\ rec \in {"reading", "finding"}
          /\ gate' = [gate EXCEPT !.unknown = TRUE, !.readOnly = "UNAVAILABLE",
                                  !.status = "EXCHANGE_STATE_UNKNOWN",
                                  !.reason = "EXCHANGE_STATE_UNKNOWN"]
          /\ UNCHANGED <<phase, stop, campaign, committed>>
        BY <1>6 DEF ReconcileTimeout, control, durable
    <2>2. /\ gate'.unknown /\ gate'.status = "EXCHANGE_STATE_UNKNOWN"
          /\ gate'.reason = "EXCHANGE_STATE_UNKNOWN" /\ gate'.recovery = gate.recovery
        BY <2>1 DEF RuntimeTypeOK, FlagType
    <2> QED
        BY <2>1, <2>2 DEF Backed, CycleShuts, StatusBacked, DoubtBacked, AbandonedShuts
<1>7. CASE TimeoutRecorded
    <2>1. PICK g \in {gate, Recovery(gate, "LIFECYCLE_PERSISTENCE_FAILED")} :
              \/ gate' = [g EXCEPT !.unhealthy = TRUE] /\ UNCHANGED committed
              \/ gate' = [g EXCEPT !.unhealthy = FALSE] /\ committed' = gate.status
        BY <1>7 DEF TimeoutRecorded
    <2>2. /\ gate'.status = gate.status /\ gate'.unknown = gate.unknown
          /\ ~ gate'.unhealthy => committed' = gate.status
          /\ Grave(gate) => Grave(gate')
        <3>1. /\ g \in FlagType /\ g.status = gate.status /\ g.unknown = gate.unknown
              /\ Grave(gate) => Grave(g)
            BY DEF Recovery, Grave, RuntimeTypeOK, FlagType, Reasons
        <3>2. /\ gate'.status = g.status /\ gate'.unknown = g.unknown
              /\ gate'.recovery = g.recovery /\ gate'.reason = g.reason
              /\ ~ gate'.unhealthy => committed' = gate.status
            BY <2>1, <3>1 DEF FlagType
        <3> QED
            BY <3>1, <3>2 DEF Grave
    <2>3. rec = "incident" /\ rec' = "idle" /\ UNCHANGED <<pending, provider>>
        BY <1>7 DEF TimeoutRecorded, reader
    <2>4. (stop => stop') /\ (campaign' = campaign \/ (campaign' = "PAUSED" /\ stop'))
        BY <1>7 DEF TimeoutRecorded, Pause, NoPause
    <2> QED
        BY <1>0, <2>2, <2>3, <2>4
           DEF Backed, CycleShuts, StatusBacked, DoubtBacked, AbandonedShuts, Grave
<1> QED
    BY <1>1, <1>3, <1>4, <1>5, <1>6, <1>7 DEF Reconciliation

\* So every step of the runtime keeps it.
LEMMA StepBacks == RuntimeTypeOK /\ BackedInv /\ [Next]_vars => BackedInv'
<1> SUFFICES ASSUME RuntimeTypeOK, BackedInv, [Next]_vars, phase' \notin Winding PROVE Backed'
    BY DEF BackedInv
<1>1. phase \notin Winding /\ Backed
    BY NoReturn DEF BackedInv
<1>2. CASE Reconciliation
    BY <1>1, <1>2, ReconciliationBacks
<1>3. CASE Scanning
    BY <1>1, <1>3, ScanningOutside, OutsideKeeps
<1>4. CASE Heartbeat \/ Runner \/ Lifespan
    BY <1>1, <1>4, OthersOutside, OutsideKeeps
<1>5. CASE ProviderReturns \/ WorldTurns \/ UNCHANGED vars
    <2>1. Outside
        BY <1>5 DEF ProviderReturns, Reader!ThreadDone, WorldTurns, vars, Outside, reader, control,
                    durable, RuntimeTypeOK
    <2> QED
        BY <1>1, <2>1, OutsideKeeps
<1> QED
    BY <1>2, <1>3, <1>4, <1>5 DEF Next

\* Every PAPER fill rests on a CLEAN cycle that is committed, with no cycle under
\* way, no read left behind and no outage running, and never follows the
\* runtime's own pause or give-up of its campaign, whichever writers fail, reads
\* hang or reports arrive in the awaits between the decision and the fill.
THEOREM BackedFills == Spec => FillsAreBacked
<1>1. Init => BackedInv
    BY DEF Init, Reader!Init, BackedInv, Backed, CycleShuts, StatusBacked, DoubtBacked,
           AbandonedShuts
<1>2. RuntimeTypeOK /\ BackedInv => FillIsBacked
    <2> SUFFICES ASSUME RuntimeTypeOK, BackedInv, Fill
                 PROVE  /\ committed = "CLEAN" /\ rec = "idle" /\ pending = "none"
                        /\ ~ provider.outage /\ campaign \in {"RUNNING", "ENDED_ELSEWHERE"}
        BY DEF FillIsBacked
    <2>1. phase = "operating" /\ ~ Blocked
        BY DEF Fill
    <2>2. Backed
        BY <2>1 DEF BackedInv, Winding
    <2>3. /\ ~ gate.unhealthy /\ gate.reason = "none" /\ ~ gate.recovery /\ ~ gate.unknown
          /\ gate.status \notin {"EXCHANGE_STATE_UNKNOWN", "DIRTY", "PERSISTENCE_FAILED"}
        BY <2>1 DEF Blocked
    <2>4. gate.status = "CLEAN"
        BY <2>1, <2>2, <2>3 DEF Backed, StatusBacked, RuntimeTypeOK, FlagType, Statuses
    <2>5. rec = "idle"
        BY <2>1, <2>2, <2>3, <2>4 DEF Backed, CycleShuts, RuntimeTypeOK
    <2> QED
        BY <2>2, <2>3, <2>4, <2>5
           DEF Backed, StatusBacked, DoubtBacked, AbandonedShuts, RuntimeTypeOK
<1>3. Spec => []RuntimeTypeOK
    <2>1. TypeOK => RuntimeTypeOK
        BY DEF TypeOK
    <2> QED
        BY <2>1, GateTypes, PTL
<1> QED
    BY <1>1, <1>2, <1>3, StepBacks, PTL DEF Spec, FillsAreBacked
-----------------------------------------------------------------------------
(* The release of the lease.  The invariant adds where the reconciliation    *)
(* task is once the tasks were cancelled, and that release is the last step. *)

QuietInv ==
    /\ RuntimeTypeOK
    /\ threads \in Nat
    /\ Reader!SingleFlight
    /\ phase \in Winding => rec = "idle"
    /\ released => phase = "down"
    /\ ReleasedOnlyQuiet

\* A step taken before the tasks are cancelled releases nothing, and leaves the
\* reconciliation task idle if it begins the cancellation.
Distant ==
    /\ UNCHANGED <<released, unaccepted>>
    /\ phase \notin Winding
    /\ phase' \in Winding => rec' = "idle"

\* What every step keeps of the flags and of the reader.
Groundwork == RuntimeTypeOK' /\ threads' \in Nat /\ Reader!SingleFlight'

\* Before the cancellation nothing is released, so there is nothing to keep.
LEMMA DistantKeeps == QuietInv /\ Distant /\ Groundwork => QuietInv'
BY DEF QuietInv, Distant, Groundwork, ReleasedOnlyQuiet, Winding

\* A step taken after the tasks were cancelled: the closing of the reader, the
\* release itself, or a straggler (the provider's thread, the runner).
LEMMA WindingKeeps ==
    QuietInv /\ phase \in Winding /\ [Next]_vars /\ Groundwork => QuietInv'
<1> SUFFICES ASSUME QuietInv, phase \in Winding, [Next]_vars, Groundwork
             PROVE  QuietInv'
    OBVIOUS
<1> USE DEF QuietInv, Groundwork, Winding
<1>1. CASE Reconciliation
    BY <1>1 DEF Reconciliation, ReconcileBegin, ReconcileRefused, ReconcileRead,
                FindingReported, ReconcileTimeout, TimeoutRecorded, MayReconcile
<1>2. CASE Scanning
    BY <1>2 DEF Scanning, ScanBegin, StorageOk, StoragePressure, StorageSaved, ScanEnd,
                RejectPersisted, RejectBusy, LifecycleBusy, OwnershipBusy, ExecuteFatal,
                Fill, FillReported, DecisionBusy, PositionBusy
<1>3. CASE Heartbeat
    BY <1>3 DEF Heartbeat, HeartbeatRetry, HeartbeatSaved, HeartbeatBusy
<1>4. CASE Runner
    <2>1. CASE ResolverPaused
        BY <2>1 DEF ResolverPaused, ResolverDown, RuntimeTypeOK, FlagType, ReleasedOnlyQuiet, reader, control,
                    durable
    <2>2. CASE MaintenanceEnds
        BY <2>2 DEF MaintenanceEnds, ReleasedOnlyQuiet, reader, control, durable
    <2> QED
        BY <1>4, <2>1, <2>2 DEF Runner, ResolverFailed, ResolverRecovered, CampaignEnded,
                                Attached
<1>5. CASE Lifespan
    <2>1. CASE CloseReader
        BY <2>1 DEF CloseReader, ReleasedOnlyQuiet, durable
    <2>2. CASE Drained
        <3>1. ~ released /\ rec' = "idle" /\ phase' = "down" /\ UNCHANGED <<fatal, unaccepted>>
            BY <2>2 DEF Drained, Finish
        <3>2. released' => ~ fatal /\ ~ gate'.recovery
            BY <2>2 DEF Drained, Finish, DecisionLost, DrainedFlags, RuntimeTypeOK, FlagType
        <3>3. CASE Reader!CloseQuiescent /\ Finish(DrainedFlags(TRUE))
            <4>1. threads' = 0
                BY <3>3 DEF Reader!CloseQuiescent, Reader!SingleFlight
            <4>2. unaccepted => gate'.recovery
                BY <3>3 DEF Finish, DecisionLost, DrainedFlags, RuntimeTypeOK, FlagType
            <4> QED
                BY <4>1, <4>2, <3>1, <3>2 DEF ReleasedOnlyQuiet
        <3>4. CASE Finish(DrainedFlags(FALSE))
            <4>1. gate'.recovery
                BY <3>4 DEF Finish, DecisionLost, DrainedFlags, RuntimeTypeOK, FlagType
            <4> QED
                BY <4>1, <3>1, <3>2 DEF ReleasedOnlyQuiet
        <3> QED
            BY <2>2, <3>3, <3>4 DEF Drained
    <2> QED
        BY <1>5, <2>1, <2>2 DEF Lifespan, StartupDone, StartupBlocked, StartupCancelled,
                                Shutdown, CancelTasks
<1>6. CASE ProviderReturns
    BY <1>6 DEF ProviderReturns, Reader!ThreadDone, ReleasedOnlyQuiet, control, durable
<1>7. CASE WorldTurns
    BY <1>7 DEF WorldTurns, ReleasedOnlyQuiet, reader, control, durable
<1>8. CASE UNCHANGED vars
    BY <1>8 DEF vars, ReleasedOnlyQuiet, reader, control, durable
<1> QED
    BY <1>1, <1>2, <1>3, <1>4, <1>5, <1>6, <1>7, <1>8 DEF Next

\* Every step taken before the tasks are cancelled is such a step.
LEMMA BeforeWinding == phase \notin Winding /\ [Next]_vars => Distant
<1> SUFFICES ASSUME phase \notin Winding, [Next]_vars PROVE Distant
    OBVIOUS
<1> USE DEF Winding, Distant, durable, control
<1>1. CASE Reconciliation
    BY <1>1 DEF Reconciliation, ReconcileBegin, ReconcileRefused, ReconcileRead,
                FindingReported, ReconcileTimeout, TimeoutRecorded
<1>2. CASE Scanning
    BY <1>2 DEF Scanning, ScanBegin, StorageOk, StoragePressure, StorageSaved, ScanEnd,
                RejectPersisted, RejectBusy, LifecycleBusy, OwnershipBusy, ExecuteFatal,
                Fill, FillReported, DecisionBusy, PositionBusy
<1>3. CASE Heartbeat
    BY <1>3 DEF Heartbeat, HeartbeatRetry, HeartbeatSaved, HeartbeatBusy
<1>4. CASE Runner
    BY <1>4 DEF Runner, ResolverFailed, ResolverRecovered, CampaignEnded, ResolverPaused,
                MaintenanceEnds
<1>5. CASE Lifespan
    BY <1>5 DEF Lifespan, StartupDone, StartupBlocked, StartupCancelled, Shutdown,
                CancelTasks, CloseReader, Drained
<1>6. CASE ProviderReturns \/ WorldTurns
    BY <1>6 DEF ProviderReturns, WorldTurns
<1>7. CASE UNCHANGED vars
    BY <1>7 DEF vars
<1> QED
    BY <1>1, <1>2, <1>3, <1>4, <1>5, <1>6, <1>7 DEF Next

\* start() gives the execution lease back only when no provider thread runs, no
\* read is unaccounted for, no task failed and no recovery is required.
THEOREM QuietRelease == Spec => []ReleasedOnlyQuiet
<1>1. Init => QuietInv /\ ReaderInv
    <2>1. Init => ReaderInv
        BY ReaderBegins DEF Init
    <2>2. Init => RuntimeTypeOK
        BY InitTypes
    <2>3. Init => threads = 0 /\ pending = "none" /\ phase = "starting"
        BY DEF Init, Reader!Init
    <2>4. Init => ~ released
        BY Zenon DEF Init
    <2>5. Init => Reader!SingleFlight /\ threads \in Nat
        BY <2>3 DEF Reader!SingleFlight
    <2>6. Init => (phase \in Winding => rec = "idle")
        BY <2>3 DEF Winding
    <2> QED
        BY <2>1, <2>2, <2>4, <2>5, <2>6 DEF QuietInv, ReleasedOnlyQuiet
<1>2. QuietInv /\ ReaderInv /\ [Next]_vars => QuietInv' /\ ReaderInv'
    <2> SUFFICES ASSUME QuietInv, ReaderInv, [Next]_vars PROVE QuietInv' /\ ReaderInv'
        OBVIOUS
    <2>1. ReaderInv'
        BY ReaderInvariant
    <2>2. threads' \in Nat /\ Reader!SingleFlight'
        BY <2>1 DEF ReaderInv, Reader!ReaderTypeOK
    <2>3. RuntimeTypeOK'
        BY StepTypes DEF QuietInv
    <2>4. Groundwork
        BY <2>2, <2>3 DEF Groundwork
    <2>5. CASE phase \in Winding
        BY <2>5, <2>1, <2>4, WindingKeeps
    <2>6. CASE phase \notin Winding
        BY <2>6, <2>1, <2>4, BeforeWinding, DistantKeeps
    <2> QED
        BY <2>5, <2>6
<1>3. QuietInv => ReleasedOnlyQuiet
    BY DEF QuietInv
<1> QED
    BY <1>1, <1>2, <1>3, PTL DEF Spec
=============================================================================
