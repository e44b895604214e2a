------------------------ MODULE RuntimeControlProofs ------------------------
(***************************************************************************)
(* Proofs about what surrounds a runtime's life: the dashboard's controls  *)
(* for any number of requests inside stop() (RuntimeControl), the opening  *)
(* of the database by any number of programs, for a file of any rows       *)
(* (SchemaBootstrap), the recovery of any number of startups from the ones *)
(* before them (RuntimeRecovery), and the removal of evidence by any       *)
(* number of processes (StorageRetention).                                 *)
(***************************************************************************)
EXTENDS RuntimeControl, SchemaBootstrap, RuntimeRecovery, StorageRetention,
        FiniteSetTheorems, SequenceTheorems, TLAPS

\* A runtime that was told to stop is still there and no longer shown as
\* RUNNING: it may be cancelled and end without another write to the row.
ToldIsShown == asked # "no" => IsRunning /\ row.status # "RUNNING"

\* The inductive invariant.
IInv == ControlTypes /\ RunningIsTrue /\ ToldIsShown

\* A request, the end of a run or a restart keeps the types.
LEMMA StepTypeOK == ControlTypes /\ OneRuntime /\ ControlNext => ControlTypes'
<1> SUFFICES ASSUME ControlTypes, OneRuntime, ControlNext PROVE ControlTypes'
    OBVIOUS
<1> USE DEF ControlTypes, OneRuntime, IsRunning, Modes, Statuses, SetStatus, Killed
<1>1. CASE SetMode
    <2>1. PICK mode \in Modes : \/ row' = [row EXCEPT !.requested = mode] /\ UNCHANGED inherited
                                \/ row' = SetStatus(row, "ERROR", "none") /\ inherited' = FALSE
        BY <1>1 DEF SetMode
    <2> QED
        BY <1>1, <2>1 DEF SetMode
<1>2. CASE Start
    <2>1. UNCHANGED handler /\ inherited' = FALSE
        BY <1>2 DEF Start
    <2>2. CASE task' = row.requested /\ alive' = alive + 1 /\ asked' = "no"
               /\ row' = SetStatus(row, "RUNNING", row.requested)
        <3>1. PICK m \in Modes : m = row.requested
            OBVIOUS
        <3>2. row' = SetStatus(row, "RUNNING", m) /\ task' = m
            BY <2>2, <3>1
        <3>3. row' \in [requested : Modes, running : Modes \cup {"none"}, kill : BOOLEAN,
                        status : Statuses]
            BY <3>2
        <3>4. alive' \in Nat /\ task' \in Modes /\ asked' = "no"
            BY <2>2, <3>2
        <3> QED
            BY <2>1, <3>3, <3>4
    <2>3. CASE UNCHANGED <<task, alive, asked>>
               /\ (\/ row' = SetStatus(row, "KILL_SWITCH_ACTIVE", "none")
                   \/ row' = SetStatus(row, "ERROR", "none"))
        BY <2>1, <2>3
    <2> QED
        BY <1>2, <2>2, <2>3 DEF Start
<1>3. CASE KillOff
    BY <1>3 DEF KillOff
<1>4. CASE RunEnds
    <2>1. handler' \in [Requests -> {"idle", "stop", "kill", "stopped", "killed"}]
        BY <1>4 DEF RunEnds, Ended, Resumed
    <2>2. row' = SetStatus(row, "STOPPED", "none") \/ row' = SetStatus(row, "ERROR", "none")
        BY <1>4 DEF RunEnds
    <2>3. alive' = 0 /\ task' = "none" /\ asked' = "no" /\ inherited' = FALSE
        BY <1>4 DEF RunEnds, Ended
    <2> QED
        BY <2>1, <2>2, <2>3
<1>5. CASE RunCancelled
    <2>1. handler' \in [Requests -> {"idle", "stop", "kill", "stopped", "killed"}]
        BY <1>5 DEF RunCancelled, Ended, Raised
    <2>2. alive' = 0 /\ task' = "none" /\ asked' = "no" /\ UNCHANGED <<row, inherited>>
        BY <1>5 DEF RunCancelled, Ended
    <2> QED
        BY <2>1, <2>2
<1>6. CASE Restart
    BY <1>6 DEF Restart
<1>7. ASSUME NEW q \in Requests, RequestStop(q) \/ KillOn(q) PROVE ControlTypes'
    BY <1>7, ZenonT(40) DEF RequestStop, KillOn, BeginStop
<1>8. ASSUME NEW q \in Requests, StopTimeout(q) PROVE ControlTypes'
    BY <1>8 DEF StopTimeout
<1>9. ASSUME NEW q \in Requests, FinishStop(q) PROVE ControlTypes'
    BY <1>9 DEF FinishStop
<1> QED
    BY <1>1, <1>2, <1>3, <1>4, <1>5, <1>6, <1>7, <1>8, <1>9 DEF ControlNext

\* And it keeps the count of runtimes, the truth of RUNNING and ToldIsShown.
LEMMA StepShown ==
    IInv /\ ControlNext => RunningIsTrue' /\ ToldIsShown'
<1> SUFFICES ASSUME IInv, ControlNext PROVE RunningIsTrue' /\ ToldIsShown'
    OBVIOUS
<1> USE DEF IInv, ControlTypes, OneRuntime, RunningIsTrue, ToldIsShown, IsRunning, Modes, Statuses,
            SetStatus, Killed
<1>1. CASE SetMode
    BY <1>1 DEF SetMode, MayChangeMode
<1>2. CASE Start
    <2>1. CASE ~ IsRunning /\ task' = row.requested /\ alive' = alive + 1 /\ asked' = "no"
               /\ row' = SetStatus(row, "RUNNING", row.requested)
        BY <2>1
    <2>2. CASE UNCHANGED <<task, alive, asked>>
               /\ (\/ row' = SetStatus(row, "KILL_SWITCH_ACTIVE", "none")
                   \/ row' = SetStatus(row, "ERROR", "none"))
        BY <2>2
    <2> QED
        BY <1>2, <2>1, <2>2 DEF Start
<1>3. CASE KillOff
    BY <1>3 DEF KillOff
<1>4. CASE RunEnds
    <2>1. row' = SetStatus(row, "STOPPED", "none") \/ row' = SetStatus(row, "ERROR", "none")
        BY <1>4 DEF RunEnds
    <2>2. alive' = 0 /\ task' = "none" /\ asked' = "no"
        BY <1>4 DEF RunEnds, Ended
    <2> QED
        BY <2>1, <2>2
<1>5. CASE RunCancelled
    BY <1>5 DEF RunCancelled, Ended
<1>6. CASE Restart
    BY <1>6 DEF Restart
<1>7. ASSUME NEW q \in Requests, RequestStop(q) \/ KillOn(q)
      PROVE  RunningIsTrue' /\ ToldIsShown'
    BY <1>7 DEF RequestStop, KillOn, BeginStop
<1>8. ASSUME NEW q \in Requests, StopTimeout(q) \/ FinishStop(q)
      PROVE  RunningIsTrue' /\ ToldIsShown'
    BY <1>8 DEF StopTimeout, FinishStop
<1> QED
    BY <1>1, <1>2, <1>3, <1>4, <1>5, <1>6, <1>7, <1>8 DEF ControlNext

\* IInv holds of every reachable state of the dashboard's controls.
LEMMA Invariance == ControlSpec => []IInv
<1>1. ControlInit => IInv
    <2> SUFFICES ASSUME ControlInit PROVE IInv
        OBVIOUS
    <2>1. ControlTypes
        BY DEF ControlInit, ControlTypes, Modes, Statuses
    <2>2. RunningIsTrue /\ ToldIsShown
        BY DEF ControlInit, OneRuntime, RunningIsTrue, ToldIsShown, IsRunning
    <2> QED
        BY <2>1, <2>2 DEF IInv
<1>2. IInv /\ [ControlNext]_controlVars => IInv'
    <2>1. IInv /\ ControlNext => IInv'
        BY StepTypeOK, StepShown DEF IInv, RunningIsTrue
    <2>2. IInv /\ UNCHANGED controlVars => IInv'
        BY DEF IInv, ControlTypes, OneRuntime, RunningIsTrue, ToldIsShown, IsRunning, controlVars
    <2> QED
        BY <2>1, <2>2
<1> QED
    BY <1>1, <1>2, PTL DEF ControlSpec

\* The supervisor has at most one runtime and knows of it, whatever requests
\* overlap, and a RUNNING status written by this process has its runtime behind it
\* (RuntimeSupervisor.start and stop).
THEOREM TrueRunning == ControlSpec => []RunningIsTrue
<1>1. IInv => RunningIsTrue
    BY DEF IInv
<1> QED
    BY <1>1, Invariance, PTL
-----------------------------------------------------------------------------
(* Opening the database.                                                    *)

SchemaTypes ==
    /\ file \in Files
    /\ opener \in [Openers -> Openings]
    /\ crashes \in Nat

\* A file whose status columns say what is open.
Canonical(f) == f.shape = "status" /\ ~ UnknownRows(f)

\* A file that init_db is making.
Ours(f) ==
    /\ f.rows = NoRows
    /\ f.shape \in {"nofile", "missing", "status"}
    /\ f.shape = "nofile" \/ f.ours

\* What an opening may rely on at each place.
Knows(f, o) ==
    /\ o.at \in {"integrity", "migrate"} =>
          /\ f.shape \in {"state", "closed", "status", "domain"}
          /\ f.shape = "domain" => f.rows = NoRows
          /\ f.shape = "status" => Canonical(f)
    /\ o.at = "migrate" => f.mark \in {"none", "ok"}
    /\ o.at = "validate" => Canonical(f) /\ f.mark = "ok"
    /\ o.at \in {"connect", "early", "exposure"} =>
          (Ours(f) \/ Canonical(f)) /\ f.mark \in {"none", "ok"}
    /\ o.at \in {"early", "exposure"} => f.shape # "nofile"
    /\ o.at \in {"upgrade", "open"} => Canonical(f) /\ f.mark \in {"none", "ok"}
    /\ o.at \notin {"idle", "blocked", "raised"} /\ o.last =>
          Canonical(f) /\ f.mark \in {"none", "ok"}

SchemaInv ==
    /\ SchemaTypes
    /\ truth = [r \in Rows |-> Meaning(file.rows[r])]
    /\ file.shape = "nofile" => file = NoFileYet
    /\ file.ours => Ours(file)
    /\ \A p \in Openers : Knows(file, opener[p])

\* What a step of one opening leaves to the others.
Later(f, g) ==
    /\ Canonical(f) => Canonical(g)
    /\ Ours(f) => Ours(g)
    /\ \/ g.shape = f.shape /\ g.rows = f.rows
       \/ Canonical(g)
       \/ Ours(f) /\ g.shape = "missing"
    /\ f.shape # "nofile" => g.shape # "nofile"
    /\ f.mark \in {"none", "ok"} => g.mark \in {"none", "ok"}
    /\ f.mark = "ok" => g.mark = "ok"

LEMMA KnownLater ==
    ASSUME NEW f, NEW g, NEW o, Later(f, g), Knows(f, o)
    PROVE  Knows(g, o)
BY DEF Later, Knows, Canonical, Ours

\* A row keeps its meaning when it is given a status.
LEMMA AdaptedMeans ==
    ASSUME NEW w \in AllWords
    PROVE  Adapted(w) \in AllWords /\ Meaning(Adapted(w)) = Meaning(w)
BY DEF Adapted, Meaning, AllWords

\* A step of p that leaves the others what they rely on.
LEMMA OpenerKeeps ==
    ASSUME SchemaInv, NEW p \in Openers, NEW o \in Openings,
           opener' = [opener EXCEPT ![p] = o],
           file' \in Files, truth' = truth, crashes' \in Nat,
           Later(file, file'), Knows(file', o),
           \A r \in Rows : Meaning(file'.rows[r]) = Meaning(file.rows[r]),
           file'.shape = "nofile" => file' = file,
           file'.ours => Ours(file')
    PROVE  SchemaInv'
<1>1. SchemaTypes'
    BY DEF SchemaInv, SchemaTypes
<1>2. truth' = [r \in Rows |-> Meaning(file'.rows[r])]
    BY DEF SchemaInv
<1>3. file'.shape = "nofile" => file' = NoFileYet
    BY DEF SchemaInv
<1>4. ASSUME NEW q \in Openers PROVE Knows(file', opener'[q])
    <2>1. q # p => opener'[q] = opener[q]
        BY DEF SchemaInv, SchemaTypes
    <2>2. opener'[p] = o
        BY DEF SchemaInv, SchemaTypes
    <2>3. Knows(file', opener[q])
        BY KnownLater DEF SchemaInv
    <2> QED
        BY <2>1, <2>2, <2>3
<1> QED
    BY <1>1, <1>2, <1>3, <1>4 DEF SchemaInv

\* The same where the file stays.
LEMMA ReadKeeps ==
    ASSUME SchemaInv, NEW p \in Openers, NEW o \in Openings,
           opener' = [opener EXCEPT ![p] = o],
           UNCHANGED <<file, truth>>, crashes' \in Nat, Knows(file, o)
    PROVE  SchemaInv'
<1>1. file \in Files /\ (file.ours => Ours(file))
    BY DEF SchemaInv, SchemaTypes
<1>2. Later(file, file)
    BY DEF Later
<1> QED
    BY <1>1, <1>2, OpenerKeeps

\* Looking, inspecting and validating read the file; a death reads nothing.
LEMMA ReadStep ==
    ASSUME SchemaInv, NEW p \in Openers,
           Look(p) \/ Inspect(p) \/ Integrity(p) \/ Validate(p) \/ Crash(p)
    PROVE  SchemaInv'
<1> DEFINE o == opener[p]
<1>1. o \in Openings /\ Knows(file, o) /\ file \in Files /\ crashes \in Nat
    BY DEF SchemaInv, SchemaTypes
<1>2. CASE Look(p)
    <2> DEFINE n == [o EXCEPT !.fresh = file.shape = "nofile", !.last = FALSE,
                              !.at = IF file.shape = "nofile" THEN "connect" ELSE "inspect"]
    <2>1. n \in Openings /\ n.last = FALSE
          /\ n.at = (IF file.shape = "nofile" THEN "connect" ELSE "inspect")
        BY <1>1 DEF Openings, Places
    <2>2. Knows(file, n)
        <3> HIDE DEF n
        <3> QED
            BY <2>1 DEF Knows, Ours, SchemaInv, NoFileYet
    <2>3. opener' = [opener EXCEPT ![p] = n] /\ UNCHANGED <<file, truth, crashes>>
        BY <1>2 DEF Look, SchemaInv, SchemaTypes
    <2> HIDE DEF n
    <2> QED
        BY <1>1, <2>1, <2>2, <2>3, ReadKeeps
<1>3. CASE Inspect(p)
    <2> DEFINE at == IF Refused(file, o.fresh /\ o.last) THEN Verdict(p, TRUE) ELSE "integrity"
               n == [o EXCEPT !.seen = file, !.at = at]
    <2>1. n \in Openings /\ n.last = o.last /\ n.at = at /\ o.at = "inspect"
        BY <1>1, <1>3 DEF Openings, Places, Verdict, Inspect
    <2>2. Knows(file, n)
        <3>1. CASE o.last
            <4>1. Canonical(file) /\ file.mark \in {"none", "ok"}
                BY <1>1, <2>1, <3>1 DEF Knows
            <4>2. n.at \in {"integrity", "open"}
                BY <2>1, <3>1 DEF Verdict
            <4> HIDE DEF n
            <4> QED
                BY <4>1, <4>2 DEF Knows, Canonical
        <3>2. CASE ~ o.last
            <4>1. n.at \in {"integrity", "blocked"}
                BY <2>1, <3>2 DEF Verdict
            <4>2. n.at = "integrity" => ~ Refused(file, FALSE)
                BY <2>1, <3>2 DEF Verdict, Refused
            <4>3. ~ Refused(file, FALSE) =>
                    /\ file.shape \in {"state", "closed", "status", "domain"}
                    /\ file.shape = "domain" => \A r \in Rows : file.rows[r] = "none"
                    /\ file.shape = "status" => Canonical(file)
                BY <1>1 DEF Refused, Canonical, Files, Shapes
            <4>4. (\A r \in Rows : file.rows[r] = "none") => file.rows = NoRows
                BY <1>1 DEF Files, NoRows
            <4> HIDE DEF n
            <4> QED
                BY <2>1, <3>2, <4>1, <4>2, <4>3, <4>4 DEF Knows
        <3> QED
            BY <3>1, <3>2
    <2>3. opener' = [opener EXCEPT ![p] = n] /\ UNCHANGED <<file, truth, crashes>>
        BY <1>3 DEF Inspect, SchemaInv, SchemaTypes
    <2> HIDE DEF n
    <2> QED
        BY <1>1, <2>1, <2>2, <2>3, ReadKeeps
<1>4. CASE Integrity(p)
    <2> DEFINE at == IF file.mark \in {"failed", "forged"} THEN Verdict(p, TRUE) ELSE "migrate"
               n == [o EXCEPT !.held = file.mark, !.at = at]
    <2>1. n \in Openings /\ n.last = o.last /\ n.at = at /\ o.at = "integrity"
        BY <1>1, <1>4 DEF Openings, Places, Verdict, Integrity, Files
    <2>2. Knows(file, n)
        <3>1. file.mark \in {"failed", "forged"} \/ file.mark \in {"none", "ok"}
            BY <1>1 DEF Files
        <3> HIDE DEF n
        <3> QED
            BY <1>1, <2>1, <3>1 DEF Knows, Verdict
    <2>3. opener' = [opener EXCEPT ![p] = n] /\ UNCHANGED <<file, truth, crashes>>
        BY <1>4 DEF Integrity, SchemaInv, SchemaTypes
    <2> HIDE DEF n
    <2> QED
        BY <1>1, <2>1, <2>2, <2>3, ReadKeeps
<1>5. CASE Validate(p)
    <2> DEFINE n == [o EXCEPT !.at = Verdict(p, Invalid(file))]
    <2>1. n \in Openings /\ n.last = o.last /\ n.at = Verdict(p, Invalid(file)) /\ o.at = "validate"
        BY <1>1, <1>5 DEF Openings, Places, Verdict, Validate
    <2>2. Knows(file, n)
        <3>1. n.at \in {"open", "blocked", "connect"}
            BY <2>1 DEF Verdict
        <3> HIDE DEF n
        <3> QED
            BY <1>1, <2>1, <3>1 DEF Knows
    <2>3. opener' = [opener EXCEPT ![p] = n] /\ UNCHANGED <<file, truth, crashes>>
        BY <1>5 DEF Validate, Goes, SchemaInv, SchemaTypes
    <2> HIDE DEF n
    <2> QED
        BY <1>1, <2>1, <2>2, <2>3, ReadKeeps
<1>6. CASE Crash(p)
    <2> DEFINE n == [o EXCEPT !.at = "idle"]
    <2>1. n \in Openings /\ n.at = "idle"
        BY <1>1 DEF Openings, Places
    <2>2. opener' = [opener EXCEPT ![p] = n] /\ UNCHANGED <<file, truth>> /\ crashes' \in Nat
        BY <1>1, <1>6 DEF Crash, Goes, SchemaInv, SchemaTypes
    <2> HIDE DEF n
    <2>3. Knows(file, n)
        BY <2>1 DEF Knows
    <2> QED
        BY <2>1, <2>2, <2>3, ReadKeeps
<1> QED
    BY <1>2, <1>3, <1>4, <1>5, <1>6

\* The doctor's transaction gives every row a status that means what it meant.
LEMMA MigratedMeans ==
    ASSUME NEW f \in Files, f.shape \in {"state", "closed", "status", "domain"},
           f.shape = "domain" => f.rows = NoRows
    PROVE  /\ Migrated(f) \in Files
           /\ Migrated(f).shape = "status" /\ Migrated(f).mark = "ok"
           /\ Migrated(f).ours = f.ours
           /\ f.rows = NoRows => Migrated(f).rows = NoRows
           /\ f.shape = "status" => Migrated(f).rows = f.rows
           /\ \A r \in Rows : Meaning(Migrated(f).rows[r]) = Meaning(f.rows[r])
<1> DEFINE rows == IF f.shape = "status" THEN f.rows
                   ELSE IF f.shape = "domain" THEN NoRows
                   ELSE [r \in Rows |-> Adapted(f.rows[r])]
<1>1. f.rows \in [Rows -> AllWords]
    BY DEF Files
<1>2. NoRows \in [Rows -> AllWords]
    BY DEF NoRows, AllWords
<1>3. \A r \in Rows : Adapted(f.rows[r]) \in AllWords
                      /\ Meaning(Adapted(f.rows[r])) = Meaning(f.rows[r])
    BY <1>1, AdaptedMeans
<1>4. [r \in Rows |-> Adapted(f.rows[r])] \in [Rows -> AllWords]
    BY <1>3
<1>5. rows \in [Rows -> AllWords] /\ \A r \in Rows : Meaning(rows[r]) = Meaning(f.rows[r])
    BY <1>1, <1>2, <1>3, <1>4
<1>6. f.rows = NoRows => rows = NoRows
    BY DEF NoRows, Adapted, Meaning
<1>7. Migrated(f) = [f EXCEPT !.shape = "status", !.labels = "ok", !.mark = "ok", !.rows = rows]
    BY DEF Migrated, Files
<1> HIDE DEF rows
<1>8. Migrated(f) \in Files
    BY <1>5, <1>7 DEF Files, Shapes
<1>9. Migrated(f).rows = rows
    BY <1>7 DEF Files
<1>10. f.shape = "status" => rows = f.rows
    BY DEF rows
<1> QED
    BY <1>5, <1>6, <1>7, <1>8, <1>9, <1>10 DEF Files

\* The migration commits a canonical file, or the file stays.
LEMMA MigrateStep ==
    ASSUME SchemaInv, NEW p \in Openers, Migrate(p)
    PROVE  SchemaInv' /\ (Doubtful(file) => file' = file)
<1> DEFINE o == opener[p]
<1>1. o \in Openings /\ Knows(file, o) /\ file \in Files /\ crashes \in Nat /\ o.at = "migrate"
    BY DEF SchemaInv, SchemaTypes, Migrate
<1>2. UNCHANGED <<truth, crashes>>
    BY DEF Migrate
<1>3. ASSUME NEW at \in Places, at \in {"raised", "blocked", "open", "connect"}, Goes(p, at), UNCHANGED file,
             o.last \/ at \in {"raised", "blocked"}
      PROVE  SchemaInv'
    <2> DEFINE n == [o EXCEPT !.at = at]
    <2>1. n \in Openings /\ n.at = at /\ n.last = o.last
        BY <1>1, <1>3 DEF Openings
    <2>2. opener' = [opener EXCEPT ![p] = n]
        BY <1>3 DEF Goes, SchemaInv, SchemaTypes
    <2>3. o.last => Canonical(file) /\ file.mark \in {"none", "ok"}
        BY <1>1 DEF Knows
    <2> HIDE DEF n
    <2>4. Knows(file, n)
        BY <1>3, <2>1, <2>3 DEF Knows, Canonical
    <2> QED
        BY <1>1, <1>2, <1>3, <2>1, <2>2, <2>4, ReadKeeps
<1>4. CASE UNCHANGED file
    <2>1. CASE Goes(p, "raised")
        BY <1>3, <1>4, <2>1 DEF Places
    <2>2. CASE Goes(p, Verdict(p, TRUE))
        BY <1>3, <1>4, <2>2 DEF Places, Verdict
    <2>3. CASE Goes(p, "validate") /\ file' = Migrated(file) /\ ~ UnknownRows(Migrated(file))
        <3> DEFINE n == [o EXCEPT !.at = "validate"]
        <3>1. Migrated(file) = file
            BY <1>4, <2>3
        <3>2. Migrated(file).shape = "status" /\ Migrated(file).mark = "ok"
            BY <1>1, MigratedMeans DEF Knows
        <3>3. Canonical(file) /\ file.mark = "ok"
            BY <2>3, <3>1, <3>2 DEF Canonical
        <3>4. n \in Openings /\ n.at = "validate" /\ n.last = o.last
            BY <1>1 DEF Openings, Places
        <3>5. opener' = [opener EXCEPT ![p] = n]
            BY <2>3 DEF Goes, SchemaInv, SchemaTypes
        <3> HIDE DEF n
        <3>6. Knows(file, n)
            BY <3>3, <3>4 DEF Knows
        <3> QED
            BY <1>1, <1>2, <1>4, <3>4, <3>5, <3>6, ReadKeeps
    <2> QED
        BY <1>4, <2>1, <2>2, <2>3 DEF Migrate
<1>5. CASE file' # file
    <2> DEFINE n == [o EXCEPT !.at = "validate"]
    <2>1. Goes(p, "validate") /\ file' = Migrated(file) /\ ~ UnknownRows(Migrated(file))
        BY <1>5 DEF Migrate
    <2>2. n \in Openings /\ n.at = "validate" /\ n.last = o.last
        BY <1>1 DEF Openings, Places
    <2>3. opener' = [opener EXCEPT ![p] = n]
        BY <2>1 DEF Goes, SchemaInv, SchemaTypes
    <2>4. /\ file.shape \in {"state", "closed", "status", "domain"}
          /\ file.shape = "domain" => file.rows = NoRows
          /\ file.shape = "status" => Canonical(file)
          /\ file.mark \in {"none", "ok"}
        BY <1>1 DEF Knows
    <2>5. /\ file' \in Files /\ file'.shape = "status" /\ file'.mark = "ok" /\ file'.ours = file.ours
          /\ file.rows = NoRows => file'.rows = NoRows
          /\ file.shape = "status" => file'.rows = file.rows
          /\ \A r \in Rows : Meaning(file'.rows[r]) = Meaning(file.rows[r])
        BY <1>1, <2>1, <2>4, MigratedMeans
    <2>6. Canonical(file')
        BY <2>1, <2>5 DEF Canonical
    <2> HIDE DEF n
    <2>7. Knows(file', n)
        BY <2>2, <2>5, <2>6 DEF Knows
    <2>8. Ours(file) => Ours(file')
        BY <2>4, <2>5 DEF Ours
    <2>9. Later(file, file')
        BY <2>5, <2>6, <2>8 DEF Later
    <2>10. file'.ours => Ours(file')
        BY <2>5, <2>8 DEF SchemaInv
    <2>11. SchemaInv'
        BY <1>1, <1>2, <2>2, <2>3, <2>5, <2>7, <2>9, <2>10, OpenerKeeps
    <2>12. ~ Doubtful(file)
        <3>1. file.shape = "state" => ~ UnknownRows(file)
            BY <2>1, <2>5 DEF UnknownRows
        <3> QED
            BY <2>4, <3>1 DEF Doubtful, Canonical, NoRows
    <2> QED
        BY <2>11, <2>12
<1>6. Doubtful(file) => file' = file
    BY <1>4, <1>5
<1> QED
    BY <1>4, <1>5, <1>6

\* Creating and upgrading tables, in a file that the opening knows.
LEMMA CreateStep ==
    ASSUME SchemaInv, NEW p \in Openers,
           Connect(p) \/ CreateEarly(p) \/ CreateExposure(p) \/ Upgrade(p)
    PROVE  SchemaInv' /\ (Doubtful(file) => file' = file)
<1> DEFINE o == opener[p]
<1>1. /\ o \in Openings /\ Knows(file, o) /\ file \in Files /\ crashes \in Nat
      /\ file.shape = "nofile" => file = NoFileYet
      /\ file.ours => Ours(file)
      /\ o.at \in {"connect", "early", "exposure", "upgrade"}
    BY DEF SchemaInv, SchemaTypes, Connect, CreateEarly, CreateExposure, Upgrade
<1>2. UNCHANGED <<truth, crashes>>
    BY DEF Connect, CreateEarly, CreateExposure, Upgrade
<1>3. (Ours(file) \/ Canonical(file)) /\ file.mark \in {"none", "ok"}
    BY <1>1 DEF Knows
<1>4. ~ Doubtful(file)
    BY <1>3 DEF Doubtful, Ours, Canonical
<1>5. ASSUME NEW n \in Openings, opener' = [opener EXCEPT ![p] = n],
             file' \in Files, file'.rows = file.rows, file'.mark = file.mark,
             file'.shape = file.shape \/ Ours(file), Ours(file) => Ours(file'),
             file'.ours => Ours(file'),
             \/ file'.shape = file.shape
             \/ file'.shape = "missing" /\ file.shape = "nofile"
             \/ file'.shape = "status" /\ file.shape = "missing",
             file'.shape # "nofile", Knows(file', n)
      PROVE  SchemaInv'
    <2>1. Ours(file) /\ file'.shape = "status" => Canonical(file')
        BY <1>1, <1>5 DEF Ours, Canonical, UnknownRows, Meaning, NoRows
    <2>2. Canonical(file) => Canonical(file')
        BY <1>5, <2>1 DEF Canonical, UnknownRows
    <2>3. Later(file, file')
        BY <1>3, <1>5, <2>1, <2>2 DEF Later
    <2> QED
        BY <1>1, <1>2, <1>5, <2>3, OpenerKeeps
<1>6. CASE Connect(p)
    <2> DEFINE n == [o EXCEPT !.at = "early"]
    <2>1. n \in Openings /\ n.at = "early" /\ n.last = o.last /\ o.at = "connect"
        BY <1>1, <1>6 DEF Openings, Places, Connect
    <2>2. opener' = [opener EXCEPT ![p] = n]
        BY <1>6 DEF Connect, Goes, SchemaInv, SchemaTypes
    <2>3. /\ file' \in Files /\ file'.rows = file.rows /\ file'.mark = file.mark
          /\ file.shape = "nofile" => file'.shape = "missing" /\ file'.ours
          /\ file.shape # "nofile" => file' = file
        BY <1>1, <1>6 DEF Connect, Files, Shapes
    <2>4. file.shape = "nofile" => Ours(file) /\ Ours(file')
        BY <1>1, <2>3 DEF Ours, NoFileYet
    <2> HIDE DEF n
    <2>5. Knows(file', n)
        BY <1>1, <1>3, <2>1, <2>3, <2>4 DEF Knows, Canonical
    <2>6. SchemaInv'
        BY <1>1, <1>5, <2>1, <2>2, <2>3, <2>4, <2>5
    <2> QED
        BY <1>4, <2>6
<1>7. CASE CreateEarly(p)
    <2> DEFINE n == [o EXCEPT !.at = "exposure"]
    <2>1. n \in Openings /\ n.at = "exposure" /\ n.last = o.last /\ o.at = "early"
        BY <1>1, <1>7 DEF Openings, Places, CreateEarly
    <2>2. opener' = [opener EXCEPT ![p] = n]
        BY <1>7 DEF CreateEarly, Goes, SchemaInv, SchemaTypes
    <2>3. /\ file' \in Files /\ file'.rows = file.rows /\ file'.mark = file.mark
          /\ file'.shape = file.shape /\ file'.ours = file.ours
        BY <1>1, <1>7 DEF CreateEarly, Files
    <2>4. (Ours(file) => Ours(file')) /\ (Canonical(file) => Canonical(file'))
        BY <2>3 DEF Ours, Canonical, UnknownRows
    <2> HIDE DEF n
    <2>5. Knows(file', n) /\ file'.shape # "nofile"
        BY <1>1, <1>3, <2>1, <2>3, <2>4 DEF Knows
    <2>6. SchemaInv'
        BY <1>1, <1>5, <2>1, <2>2, <2>3, <2>4, <2>5
    <2> QED
        BY <1>4, <2>6
<1>8. CASE CreateExposure(p)
    <2> DEFINE n == [o EXCEPT !.at = "upgrade"]
    <2>1. n \in Openings /\ n.at = "upgrade" /\ n.last = o.last /\ o.at = "exposure"
        BY <1>1, <1>8 DEF Openings, Places, CreateExposure
    <2>2. opener' = [opener EXCEPT ![p] = n]
        BY <1>8 DEF CreateExposure, Goes, SchemaInv, SchemaTypes
    <2>3. /\ file' \in Files /\ file'.rows = file.rows /\ file'.mark = file.mark
          /\ file'.ours = file.ours
          /\ file'.shape = (IF file.shape = "missing" THEN "status" ELSE file.shape)
        BY <1>1, <1>8 DEF CreateExposure, Files, Shapes
    <2>4. file.shape # "nofile"
        BY <1>1, <2>1 DEF Knows
    <2>5. (Ours(file) => Ours(file')) /\ (file.shape = "missing" => Ours(file))
        BY <1>3, <2>3, <2>4 DEF Ours, Canonical
    <2>6. Canonical(file')
        BY <1>1, <1>3, <2>3, <2>4, <2>5 DEF Ours, Canonical, UnknownRows, Meaning, NoRows
    <2> HIDE DEF n
    <2>7. Knows(file', n)
        BY <1>3, <2>1, <2>3, <2>6 DEF Knows
    <2>8. SchemaInv'
        BY <1>1, <1>5, <2>1, <2>2, <2>3, <2>4, <2>5, <2>7
    <2> QED
        BY <1>4, <2>8
<1>9. CASE Upgrade(p)
    <2> DEFINE n == [o EXCEPT !.at = "inspect", !.last = TRUE]
    <2>1. n \in Openings /\ n.at = "inspect" /\ o.at = "upgrade"
        BY <1>1, <1>9 DEF Openings, Places, Upgrade
    <2>2. opener' = [opener EXCEPT ![p] = n]
        BY <1>9 DEF Upgrade, SchemaInv, SchemaTypes
    <2>3. /\ file' \in Files /\ file'.rows = file.rows /\ file'.mark = file.mark
          /\ file'.shape = file.shape /\ file'.ours = file.ours
        BY <1>1, <1>9 DEF Upgrade, Upgraded, Files
    <2>4. Canonical(file)
        BY <1>1, <2>1 DEF Knows
    <2>5. (Ours(file) => Ours(file')) /\ Canonical(file')
        BY <2>3, <2>4 DEF Ours, Canonical, UnknownRows
    <2> HIDE DEF n
    <2>6. Knows(file', n)
        BY <1>3, <2>1, <2>3, <2>5 DEF Knows
    <2>7. SchemaInv'
        BY <1>1, <1>5, <2>1, <2>2, <2>3, <2>4, <2>5, <2>6 DEF Canonical
    <2> QED
        BY <1>4, <2>7
<1> QED
    BY <1>6, <1>7, <1>8, <1>9

LEMMA SchemaStep ==
    SchemaInv /\ [SchemaNext]_schemaVars => SchemaInv' /\ (Doubtful(file) => file' = file)
<1> SUFFICES ASSUME SchemaInv, [SchemaNext]_schemaVars
             PROVE  SchemaInv' /\ (Doubtful(file) => file' = file)
    OBVIOUS
<1>1. CASE UNCHANGED schemaVars
    BY <1>1 DEF schemaVars, SchemaInv, SchemaTypes
<1>2. ASSUME NEW p \in Openers, Look(p) \/ Inspect(p) \/ Integrity(p) \/ Validate(p) \/ Crash(p)
      PROVE  SchemaInv' /\ file' = file
    <2>1. file' = file
        BY <1>2 DEF Look, Inspect, Integrity, Validate, Crash
    <2> QED
        BY <1>2, <2>1, ReadStep
<1> QED
    BY <1>1, <1>2, MigrateStep, CreateStep DEF SchemaNext

LEMMA SchemaStart == SchemaInit => SchemaInv
<1> SUFFICES ASSUME SchemaInit PROVE SchemaInv
    OBVIOUS
<1>1. /\ file \in Files /\ ~ file.ours
      /\ file.shape = "nofile" => file = NoFileYet
    BY DEF SchemaInit, Found
<1>2. NoFileYet \in Files
    BY DEF NoFileYet, Files, Shapes, NoRows, AllWords
<1>3. [at |-> "idle", fresh |-> FALSE, last |-> FALSE, seen |-> NoFileYet, held |-> "none"] \in Openings
    BY <1>2 DEF Openings, Places
<1>4. SchemaTypes
    BY <1>1, <1>3 DEF SchemaInit, SchemaTypes
<1>5. \A p \in Openers : opener[p].at = "idle"
    BY DEF SchemaInit
<1>6. \A p \in Openers : Knows(file, opener[p])
    BY <1>5 DEF Knows
<1> QED
    BY <1>1, <1>4, <1>6 DEF SchemaInv, SchemaInit

\* Whoever has the database open counts exactly the exposure there is.
THEOREM CountsExposure == SchemaSpec => []ExposureIsCounted
<1>1. SchemaInv => ExposureIsCounted
    <2> SUFFICES ASSUME SchemaInv, NEW p \in Openers, opener[p].at = "open"
                 PROVE  /\ file.shape = "status"
                        /\ \A r \in Rows : Meaning(file.rows[r]) = truth[r] /\ truth[r] # "unknown"
        BY DEF ExposureIsCounted
    <2>1. Canonical(file)
        BY DEF SchemaInv, Knows
    <2>2. \A r \in Rows : truth[r] = Meaning(file.rows[r])
        BY DEF SchemaInv
    <2> QED
        BY <2>1, <2>2 DEF Canonical, UnknownRows
<1> QED
    BY <1>1, SchemaStart, SchemaStep, PTL DEF SchemaSpec

\* A file the doctor cannot vouch for is left as it is found.
THEOREM LeavesDoubtAlone == SchemaSpec => DoubtIsLeftAlone
<1>1. SchemaInv /\ [SchemaNext]_schemaVars => [Doubtful(file) => file' = file]_schemaVars
    BY SchemaStep
<1> QED
    BY <1>1, SchemaStart, SchemaStep, PTL DEF SchemaSpec, DoubtIsLeftAlone
-----------------------------------------------------------------------------
(* Recovery.                                                                *)

\* What the evidence of a start has to show before it operates.
Settled(s) ==
    /\ known[s].mode = "PAPER" => paper \cap known[s].before = {}
    /\ known[s].saw.by \in Startups \ Hosted => stage[known[s].saw.by] \in Gone
    /\ Unclean(known[s].saw) =>
          known[s].mode = "PAPER" /\ (known[s].camp = NoCampaign \/ known[s].saw.camp # known[s].camp)

\* What a start may rely on at each stage.
Aware(s) ==
    /\ \A x \in known[s].before : stage[x] \in Gone
    /\ known[s].saw.by # Nobody => stage[known[s].saw.by] # "down"
    /\ stage[s] = "probe" /\ known[s].mode = "PAPER" /\ ~ known[s].positions =>
          paper \cap known[s].before = {}
    /\ stage[s] = "probe" /\ known[s].saw.by \in Startups \ Hosted /\ ~ known[s].alive =>
          stage[known[s].saw.by] \in Gone
    /\ stage[s] \in {"enter", "check"} /\ ~ known[s].blocked => Settled(s)
    /\ stage[s] \in {"reconcile", "ready", "up"} => Settled(s)
    /\ stage[s] \in {"ready", "up"} => known[s].empty

RecoveryInv ==
    /\ RecoveryTypes
    /\ latest.by # Nobody => stage[latest.by] # "down"
    /\ \A s \in Startups : Aware(s)

\* A step of one startup leaves the others what they rely on.
LEMMA OthersStayAware ==
    ASSUME RecoveryInv, NEW s \in Startups, NEW place \in StartupStages, NEW k \in Knowledge,
           stage[s] \notin Gone, place # "down",
           stage' = [stage EXCEPT ![s] = place], known' = [known EXCEPT ![s] = k],
           paper' \subseteq paper \cup {s},
           NEW q \in Startups, q # s
    PROVE  Aware(q)'
<1>1. stage'[q] = stage[q] /\ known'[q] = known[q] /\ known[q] \in Knowledge /\ Aware(q)
    BY DEF RecoveryInv, RecoveryTypes
<1>2. \A x \in Startups : /\ stage[x] \in Gone => x # s /\ stage'[x] = stage[x]
                          /\ stage[x] # "down" => stage'[x] # "down"
    BY DEF RecoveryInv, RecoveryTypes
<1>3. known[q].before \subseteq Startups /\ known[q].saw.by \in Startups \cup {Nobody}
    BY <1>1 DEF Knowledge, StateRows
<1>4. \A x \in known[q].before : stage'[x] \in Gone /\ x # s
    BY <1>1, <1>2, <1>3 DEF Aware
<1>5. paper \cap known[q].before = {} => paper' \cap known[q].before = {}
    BY <1>4
<1>6. Settled(q) => Settled(q)'
    BY <1>1, <1>2, <1>3, <1>5 DEF Settled
<1> QED
    BY <1>1, <1>2, <1>3, <1>4, <1>5, <1>6 DEF Aware

LEMMA StartupKeeps ==
    ASSUME RecoveryInv, NEW s \in Startups, NEW place \in StartupStages, NEW k \in Knowledge,
           stage[s] \notin Gone, place # "down",
           stage' = [stage EXCEPT ![s] = place], known' = [known EXCEPT ![s] = k],
           paper' \subseteq paper \cup {s},
           latest' = latest \/ \E status \in RowWords, c \in Scopes :
                                  latest' = [status |-> status, by |-> s, camp |-> c],
           event' \in Events, switch' \in BOOLEAN, account' \in BOOLEAN,
           preflight' = preflight, Aware(s)'
    PROVE  RecoveryInv'
<1>1. latest' \in StateRows /\ (latest' = latest \/ latest'.by = s)
    BY DEF RecoveryInv, RecoveryTypes, StateRows
<1>2. RecoveryTypes'
    BY <1>1 DEF RecoveryInv, RecoveryTypes
<1>3. stage'[s] # "down" /\ \A x \in Startups : stage[x] # "down" => stage'[x] # "down"
    BY DEF RecoveryInv, RecoveryTypes
<1>4. latest'.by # Nobody => stage'[latest'.by] # "down"
    BY <1>1, <1>3 DEF RecoveryInv, RecoveryTypes, StateRows
<1>5. ASSUME NEW q \in Startups PROVE Aware(q)'
    BY <1>5, OthersStayAware
<1> QED
    BY <1>2, <1>4, <1>5 DEF RecoveryInv

\* A step of a preflight or of the surroundings.
LEMMA OutsideKeeps ==
    ASSUME RecoveryInv, UNCHANGED <<stage, known>>, paper' \subseteq paper,
           latest' = latest \/ latest' = [status |-> "clean", by |-> Nobody, camp |-> NoCampaign],
           event' \in Events, switch' \in BOOLEAN, account' \in BOOLEAN,
           preflight' \in {"idle", "probe", "row"}
    PROVE  RecoveryInv'
<1>1. RecoveryTypes'
    <2>1. [status |-> "clean", by |-> Nobody, camp |-> NoCampaign] \in StateRows
        BY DEF StateRows, RowWords, Scopes
    <2>2. latest' \in StateRows /\ paper' \subseteq Startups
        BY <2>1 DEF RecoveryInv, RecoveryTypes
    <2> QED
        BY <2>2 DEF RecoveryInv, RecoveryTypes
<1>2. latest'.by # Nobody => stage'[latest'.by] # "down"
    BY DEF RecoveryInv
<1>3. ASSUME NEW q \in Startups PROVE Aware(q)'
    <2>1. Aware(q) /\ \A S : paper \cap S = {} => paper' \cap S = {}
        BY DEF RecoveryInv
    <2>2. Settled(q) => Settled(q)'
        BY <2>1 DEF Settled
    <2> QED
        BY <2>1, <2>2 DEF Aware
<1> QED
    BY <1>1, <1>2, <1>3 DEF RecoveryInv

LEMMA UnawareKnows == Unaware \in Knowledge /\ NoRow \in StateRows /\ NoEvent \in Events
<1>1. NoRow \in StateRows /\ NoEvent \in Events
    BY DEF NoRow, NoEvent, StateRows, RowWords, Scopes, Events
<1> QED
    BY <1>1 DEF Unaware, Knowledge, StartupModes, Scopes

\* What a start reads, up to its decision.
LEMMA ReadingKeeps ==
    ASSUME RecoveryInv, NEW s \in Startups, Launch(s) \/ ReadLatest(s) \/ ReadExposure(s)
    PROVE  RecoveryInv'
<1>1. /\ known[s] \in Knowledge /\ Aware(s) /\ RecoveryTypes
      /\ stage' \in [Startups -> StartupStages] => stage'[s] \in StartupStages
    BY DEF RecoveryInv, RecoveryTypes
<1>2. CASE Launch(s)
    <2>1. PICK mode \in StartupModes, camp \in Scopes :
            known' = [known EXCEPT ![s] = [Unaware EXCEPT !.mode = mode, !.camp = camp,
                                      !.before = {x \in Startups : stage[x] \in Gone}]]
        BY <1>2 DEF Launch, Learns
    <2> DEFINE k == [Unaware EXCEPT !.mode = mode, !.camp = camp,
                                    !.before = {x \in Startups : stage[x] \in Gone}]
    <2>2. /\ k \in Knowledge /\ k.saw.by = Nobody
          /\ k.before = {x \in Startups : stage[x] \in Gone}
        BY UnawareKnows DEF Knowledge, Unaware, NoRow
    <2>3. stage[s] = "down" /\ stage' = [stage EXCEPT ![s] = "look"]
        BY <1>2 DEF Launch, Enters
    <2>4. known' = [known EXCEPT ![s] = k]
        BY <2>1
    <2> HIDE DEF k
    <2>5. known'[s] = k /\ stage'[s] = "look"
          /\ \A x \in Startups : stage[x] \in Gone => stage'[x] \in Gone
        BY <1>1, <2>3, <2>4 DEF RecoveryTypes, Gone
    <2>6. Aware(s)'
        BY <2>2, <2>5 DEF Aware
    <2> QED
        BY <1>1, <1>2, <2>2, <2>3, <2>4, <2>6, StartupKeeps
            DEF Launch, RecoveryTypes, StartupStages, Gone
<1>3. CASE ReadLatest(s)
    <2> DEFINE k == [known[s] EXCEPT !.saw = latest]
    <2>1. k \in Knowledge /\ k.saw = latest /\ k.before = known[s].before
        BY <1>1 DEF Knowledge, RecoveryTypes
    <2>2. /\ stage[s] = "look" /\ stage' = [stage EXCEPT ![s] = "count"]
          /\ known' = [known EXCEPT ![s] = k]
        BY <1>3 DEF ReadLatest, Enters, Learns
    <2> HIDE DEF k
    <2>3. known'[s] = k /\ stage'[s] = "count"
          /\ \A x \in Startups : /\ stage[x] \in Gone => stage'[x] \in Gone
                                 /\ stage[x] # "down" => stage'[x] # "down"
        BY <1>1, <2>2 DEF RecoveryTypes, Gone
    <2>4. k.before \subseteq Startups /\ k.saw.by \in Startups \cup {Nobody}
        BY <2>1 DEF Knowledge, StateRows
    <2>5. Aware(s)'
        BY <1>1, <2>1, <2>3, <2>4 DEF Aware, RecoveryInv
    <2> QED
        BY <1>1, <1>3, <2>1, <2>2, <2>5, StartupKeeps
            DEF ReadLatest, RecoveryTypes, StartupStages, Gone
<1>4. CASE ReadExposure(s)
    <2>0. PICK answer \in process_is_alive(known[s].saw.by) :
            known' = [known EXCEPT ![s] =
                [known[s] EXCEPT !.positions = Counted(s), !.event = event, !.kill = switch,
                                 !.alive = answer]]
        BY <1>4 DEF ReadExposure, Learns
    <2> DEFINE k == [known[s] EXCEPT !.positions = Counted(s), !.event = event, !.kill = switch,
                                     !.alive = answer]
    <2>1. Counted(s) \in BOOLEAN /\ answer \in BOOLEAN
        BY <2>0 DEF Counted, process_is_alive
    <2>2. /\ k \in Knowledge /\ k.saw = known[s].saw /\ k.before = known[s].before
          /\ k.mode = known[s].mode /\ k.positions = Counted(s) /\ k.alive = answer
        BY <1>1, <2>1 DEF Knowledge, RecoveryTypes
    <2>3. /\ stage[s] = "count" /\ stage' = [stage EXCEPT ![s] = "probe"]
          /\ known' = [known EXCEPT ![s] = k]
        BY <1>4, <2>0 DEF ReadExposure, Enters
    <2> HIDE DEF k
    <2>4. known'[s] = k /\ stage'[s] = "probe"
          /\ \A x \in Startups : /\ stage[x] \in Gone => stage'[x] \in Gone
                                 /\ stage[x] # "down" => stage'[x] # "down"
        BY <1>1, <2>3 DEF RecoveryTypes, Gone
    <2>5. k.before \subseteq Startups /\ k.saw.by \in Startups \cup {Nobody}
        BY <2>2 DEF Knowledge, StateRows
    <2>6. k.mode = "PAPER" /\ ~ k.positions => paper' \cap k.before = {}
        BY <1>4, <2>2 DEF Counted, ReadExposure
    <2>7. k.saw.by \in Startups \ Hosted /\ ~ k.alive => stage'[k.saw.by] \in Gone
        BY <1>1, <2>0, <2>2, <2>4, <2>5, StartupsAssumption DEF process_is_alive, Lives, Aware
    <2>8. Aware(s)'
        BY <1>1, <2>2, <2>4, <2>5, <2>6, <2>7 DEF Aware
    <2> QED
        BY <1>1, <1>4, <2>2, <2>3, <2>8, StartupKeeps
            DEF ReadExposure, RecoveryTypes, StartupStages, Gone
<1> QED
    BY <1>2, <1>3, <1>4

\* What holds of a step that moves one startup, and nothing it relied on.
LEMMA SettledKeeps ==
    ASSUME RecoveryInv, NEW s \in Startups, NEW place \in StartupStages, NEW k \in Knowledge,
           stage[s] \notin Gone, place # "down",
           stage' = [stage EXCEPT ![s] = place], known' = [known EXCEPT ![s] = k],
           paper' \subseteq paper \cup {s},
           k.mode = known[s].mode, k.camp = known[s].camp,
           k.before = known[s].before, k.saw = known[s].saw
    PROVE  /\ stage'[s] = place /\ known'[s] = k
           /\ \A x \in k.before : stage'[x] \in Gone
           /\ k.saw.by # Nobody => stage'[k.saw.by] # "down"
           /\ Settled(s) => Settled(s)'
<1>1. known[s] \in Knowledge /\ Aware(s)
    BY DEF RecoveryInv, RecoveryTypes
<1>2. /\ stage'[s] = place /\ known'[s] = k
      /\ \A x \in Startups : /\ stage[x] \in Gone => x # s /\ stage'[x] \in Gone
                             /\ stage[x] # "down" => stage'[x] # "down"
    BY DEF RecoveryInv, RecoveryTypes, Gone
<1>3. k.before \subseteq Startups /\ k.saw.by \in Startups \cup {Nobody}
    BY DEF Knowledge, StateRows
<1>4. \A x \in k.before : stage'[x] \in Gone /\ x # s
    BY <1>1, <1>2, <1>3 DEF Aware
<1>5. paper \cap k.before = {} => paper' \cap k.before = {}
    BY <1>4
<1>6. k.saw.by # Nobody => stage'[k.saw.by] # "down"
    BY <1>1, <1>2, <1>3 DEF Aware
<1>7. Settled(s) => Settled(s)'
    BY <1>1, <1>2, <1>3, <1>5 DEF Settled
<1> QED
    BY <1>2, <1>4, <1>6, <1>7

LEMMA ProbeKeeps ==
    ASSUME RecoveryInv, NEW s \in Startups, Probe(s)
    PROVE  RecoveryInv'
<1>1. known[s] \in Knowledge /\ Aware(s) /\ RecoveryTypes
    BY DEF RecoveryInv, RecoveryTypes
<1>2. PICK answer \in {"failed", "exposed", "empty", "none"} :
        known' = [known EXCEPT ![s] =
                    [Decided(known[s]) EXCEPT !.blocked = Blocked(known[s], answer)]]
    BY DEF Probe, Answer, Learns
<1> DEFINE b == Blocked(known[s], answer)
           k == [Decided(known[s]) EXCEPT !.blocked = b]
<1>3. b \in BOOLEAN
    BY <1>1 DEF Blocked
<1>4. /\ k \in Knowledge /\ k.mode = known[s].mode /\ k.camp = known[s].camp
      /\ k.before = known[s].before /\ k.saw = known[s].saw /\ k.blocked = b
    BY <1>1, <1>3, UnawareKnows DEF Decided, Knowledge
<1>5. /\ stage[s] = "probe" /\ stage' = [stage EXCEPT ![s] = "enter"]
      /\ known' = [known EXCEPT ![s] = k]
      /\ UNCHANGED <<latest, event, switch, account, paper, preflight>>
    BY <1>2 DEF Probe, Enters
<1>6. ASSUME ~ b PROVE Settled(s)
    <2>1. /\ ~ known[s].positions /\ ~ known[s].alive
          /\ Unclean(known[s].saw) => /\ known[s].mode # "LIVE_PRECHECK"
                                      /\ known[s].camp = NoCampaign \/ known[s].saw.camp # known[s].camp
        BY <1>6 DEF Blocked
    <2>2. known[s].mode \in {"PAPER", "LIVE_PRECHECK"}
        BY <1>1 DEF Knowledge, StartupModes
    <2> QED
        BY <1>1, <1>5, <2>1, <2>2 DEF Aware, Settled
<1> HIDE DEF k, b
<1>7. stage[s] \notin Gone /\ "enter" \in StartupStages
    BY <1>5 DEF Gone, StartupStages
<1>8. /\ stage'[s] = "enter" /\ known'[s] = k
      /\ \A x \in k.before : stage'[x] \in Gone
      /\ k.saw.by # Nobody => stage'[k.saw.by] # "down"
      /\ Settled(s) => Settled(s)'
    BY <1>4, <1>5, <1>7, SettledKeeps
<1>9. Aware(s)'
    BY <1>4, <1>6, <1>8 DEF Aware
<1> QED
    BY <1>1, <1>4, <1>5, <1>7, <1>9, StartupKeeps DEF RecoveryTypes

\* The row is written, the switch is looked at, the runtime is at work.
LEMMA AdvanceKeeps ==
    ASSUME RecoveryInv, NEW s \in Startups, Enter(s) \/ MayStart(s) \/ Operate(s)
    PROVE  RecoveryInv'
<1>1. /\ known[s] \in Knowledge /\ Aware(s) /\ RecoveryTypes
      /\ known' = [known EXCEPT ![s] = known[s]]
    BY DEF RecoveryInv, RecoveryTypes, Enter, MayStart, Operate
<1>2. PICK place \in {"check", "reconcile", "up"} :
        /\ stage' = [stage EXCEPT ![s] = place]
        /\ \/ place = "check" /\ stage[s] = "enter"
           \/ place = "reconcile" /\ stage[s] = "check" /\ ~ known[s].blocked
           \/ place = "up" /\ stage[s] = "ready"
    BY DEF Enter, MayStart, Operate, Enters
<1>3. /\ UNCHANGED <<event, switch, account, paper, preflight>>
      /\ \/ latest' = latest
         \/ latest' = [status |-> "at work", by |-> s, camp |-> known[s].camp]
      /\ "at work" \in RowWords /\ known[s].camp \in Scopes
    BY <1>1 DEF Enter, MayStart, Operate, Writes, RowWords, Knowledge
<1>4. stage[s] \notin Gone /\ place \in StartupStages /\ place # "down"
    BY <1>2 DEF Gone, StartupStages
<1>5. /\ stage'[s] = place /\ known'[s] = known[s]
      /\ \A x \in known[s].before : stage'[x] \in Gone
      /\ known[s].saw.by # Nobody => stage'[known[s].saw.by] # "down"
      /\ Settled(s) => Settled(s)'
    BY <1>1, <1>2, <1>3, <1>4, SettledKeeps
<1>6. Aware(s)'
    BY <1>1, <1>2, <1>5 DEF Aware
<1> QED
    BY <1>1, <1>2, <1>3, <1>4, <1>6, StartupKeeps DEF RecoveryTypes

\* A startup that is over relies on nothing.
LEMMA EndingKeeps ==
    ASSUME RecoveryInv, NEW s \in Startups, Refuse(s) \/ End(s) \/ Die(s)
    PROVE  RecoveryInv'
<1>1. RecoveryTypes /\ known[s].camp \in Scopes
    BY DEF RecoveryInv, RecoveryTypes, Knowledge
<1>2. PICK place \in Gone : /\ stage' = [stage EXCEPT ![s] = place]
                           /\ known' = [known EXCEPT ![s] = Unaware]
    BY DEF Refuse, End, Die, Gone, Enters, Learns
<1>3. /\ UNCHANGED <<event, switch, account, paper, preflight>>
      /\ latest' = latest \/ \E status \in RowWords :
                                latest' = [status |-> status, by |-> s, camp |-> known[s].camp]
    BY DEF Refuse, End, Die, Writes, RowWords
<1>4. stage[s] \notin Gone /\ place \in StartupStages /\ place # "down"
    BY DEF Refuse, End, Die, Lives, Gone, StartupStages
<1>5. stage'[s] = place /\ known'[s] = Unaware
    BY <1>1, <1>2 DEF RecoveryTypes
<1>6. Aware(s)'
    BY <1>5 DEF Aware, Unaware, NoRow, Gone
<1> QED
    BY <1>1, <1>2, <1>3, <1>4, <1>6, UnawareKnows, StartupKeeps DEF RecoveryTypes

\* A reconciliation: only a clean one lets a start go on.
LEMMA CycleKeeps ==
    ASSUME RecoveryInv, NEW s \in Startups, stage[s] \in {"reconcile", "up"},
           NEW clean \in {"ready", "up"}, NEW dirty \in {"closing", "stopping"},
           NEW unknown \in {"closing", "up"}, unknown = "up" => stage[s] = "up",
           Cycle(s, clean, dirty, unknown), UNCHANGED <<switch, account, paper, preflight>>
    PROVE  RecoveryInv'
<1>1. known[s] \in Knowledge /\ Aware(s) /\ RecoveryTypes
    BY DEF RecoveryInv, RecoveryTypes
<1>2. PICK place \in {clean, dirty, unknown}, held \in BOOLEAN, empty \in BOOLEAN :
        /\ stage' = [stage EXCEPT ![s] = place]
        /\ known' = [known EXCEPT ![s] = [known[s] EXCEPT !.empty = empty, !.held = held]]
        /\ place = clean => empty
        /\ place # clean => empty = known[s].empty
    <2>1. CASE ~ account /\ Learns(s, [known[s] EXCEPT !.empty = TRUE, !.held = FALSE]) /\ Enters(s, clean)
        BY <2>1 DEF Learns, Enters
    <2>2. ASSUME NEW place \in {dirty, unknown}, Enters(s, place),
                 Learns(s, [known[s] EXCEPT !.held = TRUE])
          PROVE  \E held \in BOOLEAN, empty \in BOOLEAN :
                   /\ stage' = [stage EXCEPT ![s] = place]
                   /\ known' = [known EXCEPT ![s] = [known[s] EXCEPT !.empty = empty, !.held = held]]
                   /\ place = clean => empty
                   /\ place # clean => empty = known[s].empty
        <3>1. [known[s] EXCEPT !.empty = known[s].empty, !.held = TRUE] = [known[s] EXCEPT !.held = TRUE]
            BY <1>1 DEF Knowledge
        <3>2. place = clean => known[s].empty
            BY <1>1 DEF Aware
        <3>3. known[s].empty \in BOOLEAN
            BY <1>1 DEF Knowledge
        <3> QED
            BY <2>2, <3>1, <3>2, <3>3 DEF Learns, Enters
    <2> QED
        BY <2>1, <2>2 DEF Cycle
<1> DEFINE k == [known[s] EXCEPT !.empty = empty, !.held = held]
<1>3. /\ k \in Knowledge /\ k.mode = known[s].mode /\ k.camp = known[s].camp
      /\ k.before = known[s].before /\ k.saw = known[s].saw /\ k.empty = empty
    BY <1>1 DEF Knowledge
<1>4. known' = [known EXCEPT ![s] = k]
    BY <1>2
<1> HIDE DEF k
<1>5. stage[s] \notin Gone /\ place \in StartupStages /\ place # "down"
    BY DEF Gone, StartupStages
<1>6. /\ stage'[s] = place /\ known'[s] = k
      /\ \A x \in k.before : stage'[x] \in Gone
      /\ k.saw.by # Nobody => stage'[k.saw.by] # "down"
      /\ Settled(s) => Settled(s)'
    BY <1>2, <1>3, <1>4, <1>5, SettledKeeps
<1>7. Settled(s) /\ (stage[s] = "up" => known[s].empty)
    BY <1>1 DEF Aware
<1>8. place \in {"ready", "up"} => empty
    BY <1>2, <1>7
<1>9. Aware(s)'
    BY <1>3, <1>6, <1>7, <1>8 DEF Aware
<1>10. latest' = latest \/ \E status \in RowWords, c \in Scopes :
                               latest' = [status |-> status, by |-> s, camp |-> c]
    BY <1>1 DEF Cycle, Commits, Writes, RowWords, Knowledge
<1>11. event' \in Events
    <2>1. ASSUME NEW status \in {"CLEAN", "DIRTY", "EXCHANGE_STATE_UNKNOWN"}
          PROVE  [status |-> status, orphans |-> status = "DIRTY"] \in Events
        <3>1. (status = "DIRTY") \in BOOLEAN
            OBVIOUS
        <3> QED
            BY <3>1 DEF Events
    <2>2. event' = event \/ \E status \in {"CLEAN", "DIRTY", "EXCHANGE_STATE_UNKNOWN"} :
                               event' = [status |-> status, orphans |-> status = "DIRTY"]
        BY DEF Cycle, Commits
    <2> QED
        BY <1>1, <2>1, <2>2 DEF RecoveryTypes
<1> QED
    BY <1>1, <1>2, <1>3, <1>4, <1>5, <1>9, <1>10, <1>11, StartupKeeps DEF RecoveryTypes

\* A runtime at work: its rows, its positions, the order to end.
LEMMA WorkKeeps ==
    ASSUME RecoveryInv, NEW s \in Startups, Heartbeat(s) \/ OpenPaper(s) \/ EndBegins(s)
    PROVE  RecoveryInv'
<1>1. /\ known[s] \in Knowledge /\ Aware(s) /\ RecoveryTypes
      /\ known' = [known EXCEPT ![s] = known[s]]
      /\ stage[s] = "up"
    BY DEF RecoveryInv, RecoveryTypes, Heartbeat, OpenPaper, EndBegins
<1>2. PICK place \in {"up", "stopping"} : stage' = [stage EXCEPT ![s] = place]
    <2>1. stage' = stage => stage' = [stage EXCEPT ![s] = "up"]
        BY <1>1 DEF RecoveryTypes
    <2> QED
        BY <2>1 DEF Heartbeat, OpenPaper, EndBegins, Enters
<1>3. /\ UNCHANGED <<event, switch, account, preflight>> /\ paper' \subseteq paper \cup {s}
      /\ latest' = latest \/ \E status \in RowWords :
                                latest' = [status |-> status, by |-> s, camp |-> known[s].camp]
      /\ known[s].camp \in Scopes
    BY <1>1 DEF Heartbeat, OpenPaper, EndBegins, Writes, RowWords, Knowledge
<1>4. stage[s] \notin Gone /\ place \in StartupStages /\ place # "down"
    BY <1>1 DEF Gone, StartupStages
<1>5. /\ stage'[s] = place /\ known'[s] = known[s]
      /\ \A x \in known[s].before : stage'[x] \in Gone
      /\ known[s].saw.by # Nobody => stage'[known[s].saw.by] # "down"
      /\ Settled(s) => Settled(s)'
    BY <1>1, <1>2, <1>3, <1>4, SettledKeeps
<1>6. Aware(s)'
    BY <1>1, <1>2, <1>5 DEF Aware
<1> QED
    BY <1>1, <1>2, <1>3, <1>4, <1>6, StartupKeeps DEF RecoveryTypes

LEMMA RecoveryStep == RecoveryInv /\ [RecoveryNext]_recoveryVars => RecoveryInv'
<1> SUFFICES ASSUME RecoveryInv, [RecoveryNext]_recoveryVars PROVE RecoveryInv'
    OBVIOUS
<1>1. RecoveryTypes
    BY DEF RecoveryInv
<1>2. ASSUME NEW s \in Startups, StartStep(s) \/ LifeStep(s) PROVE RecoveryInv'
    <2>1. CASE StartReconciled(s)
        BY <2>1, CycleKeeps DEF StartReconciled
    <2>2. CASE Reconciled(s)
        BY <2>2, CycleKeeps DEF Reconciled
    <2> QED
        BY <1>2, <2>1, <2>2, ReadingKeeps, ProbeKeeps, AdvanceKeeps, EndingKeeps, WorkKeeps
            DEF StartStep, LifeStep
<1>3. CASE PreflightStep
    <2>1. [status |-> "CLEAN", orphans |-> FALSE] \in Events
        BY DEF Events
    <2> QED
        BY <1>1, <1>3, <2>1, OutsideKeeps
            DEF PreflightStep, PreflightReads, PreflightRecordsEvent, PreflightRecordsRow,
                PreflightEnds, RecoveryTypes
<1>4. CASE Surroundings
    <2>1. switch' \in BOOLEAN /\ account' \in BOOLEAN /\ paper' \subseteq paper
        BY <1>1, <1>4 DEF Surroundings, RecoveryTypes
    <2> QED
        BY <1>1, <1>4, <2>1, OutsideKeeps DEF Surroundings, RecoveryTypes
<1>5. CASE UNCHANGED recoveryVars
    BY <1>1, <1>5, OutsideKeeps DEF recoveryVars, RecoveryTypes
<1> QED
    BY <1>2, <1>3, <1>4, <1>5 DEF RecoveryNext

LEMMA RecoveryStart == RecoveryInit => RecoveryInv
<1> SUFFICES ASSUME RecoveryInit PROVE RecoveryInv
    OBVIOUS
<1>1. RecoveryTypes
    BY UnawareKnows DEF RecoveryInit, RecoveryTypes, StartupStages
<1>2. \A s \in Startups : Aware(s)
    BY DEF RecoveryInit, Aware, Unaware, NoRow
<1> QED
    BY <1>1, <1>2 DEF RecoveryInv, RecoveryInit, NoRow

\* A runtime operates on what it has seen itself, never beside the runtime whose
\* row it found unless that one's process is not recognised, never over an unclean row of
\* its own campaign, and a PAPER one never beside a position left by one before.
THEOREM OperatesOnEvidence == RecoverySpec => []StartsOnEvidence
<1>1. RecoveryInv => NothingIsInherited
    BY DEF RecoveryInv, Aware, Settled, NothingIsInherited
<1>2. RecoveryInv => StartsOnEvidence
    BY <1>1 DEF RecoveryInv, Aware, Settled, StartsOnEvidence, Lives
<1> QED
    BY <1>2, RecoveryStart, RecoveryStep, PTL DEF RecoverySpec

-----------------------------------------------------------------------------
(* Removal of evidence.                                                     *)

\* The steps in which a process has the archive's lock.
Writing == {"copy", "manifest", "verify", "publish"}
Doing == [pc : Pcs, cleaning : BOOLEAN, removed : BOOLEAN]

\* Up to the manifest nobody has written one, and what gets one is a copy of a
\* campaign; who writes has the lock.
Copying(p) ==
    /\ proc[p].pc \in Writing => lock = p
    /\ proc[p].pc \in {"copy", "manifest"} => manifest = NoCopy
    /\ proc[p].pc = "manifest" => copied.rev # 0
    /\ proc[p].pc = "publish" => manifest # NoCopy

\* The types, as far as a step of the retention depends on them.
RetentionShape ==
    /\ campaign \in [status : {"RUNNING", "COMPLETED"}, worker : BOOLEAN, run : Nat,
                     rev : {1, 2}, bound : BOOLEAN]
    /\ runOf \in Seq(Nat)
    /\ \E T : ledger \in Seq(T)
    /\ db \in SUBSET Cycles
    /\ copied \in [cycles : SUBSET Cycles, rev : 0 .. 2]
    /\ manifest \in [cycles : SUBSET Cycles, rev : 0 .. 2]
    /\ proc \in [Procs -> Doing]

\* What the removal rests on and does not look at again: whatever is published
\* has a manifest, and the archive never holds more than its manifest says.
RetentionInv ==
    /\ RetentionShape
    /\ \A p \in Procs : Copying(p)
    /\ archives # "NONE" => manifest # NoCopy
    /\ manifest # NoCopy => copied.cycles \subseteq manifest.cycles

\* A finite set of numbers put in order keeps all of them.
LEMMA InOrderCovers ==
    ASSUME NEW S \in SUBSET Int, IsFiniteSet(S), NEW k \in S
    PROVE  \E i \in 1 .. Cardinality(S) : InOrder(S)[i] = k
<1> DEFINE Upto(x) == {j \in S : j <= x}
           rank(x) == Cardinality(Upto(x))
<1>1. \A x \in S : /\ Upto(x) \in SUBSET S /\ IsFiniteSet(Upto(x))
                   /\ rank(x) \in 1 .. Cardinality(S)
  <2> TAKE x \in S
  <2>1. Upto(x) \in SUBSET S /\ x \in Upto(x)
      OBVIOUS
  <2>2. IsFiniteSet(Upto(x)) /\ rank(x) <= Cardinality(S)
      BY <2>1, FS_Subset
  <2>3. rank(x) \in Nat /\ Cardinality(S) \in Nat
      BY <2>2, FS_CardinalityType
  <2>4. rank(x) # 0
      BY <2>1, <2>2, FS_EmptySet
  <2> QED BY <2>1, <2>2, <2>3, <2>4
<1>2. \A x, y \in S : x < y => rank(x) # rank(y)
  <2> SUFFICES ASSUME NEW x \in S, NEW y \in S, x < y, rank(x) = rank(y) PROVE FALSE
      OBVIOUS
  <2> x \in Int /\ y \in Int
      OBVIOUS
  <2>0. (\A j \in Int : j <= x => j <= y) /\ y <= y /\ ~ (y <= x)
      OBVIOUS
  <2>1. Upto(x) \in SUBSET Upto(y) /\ y \in Upto(y) /\ y \notin Upto(x)
    <3>1. \A j \in S : j \in Int
        OBVIOUS
    <3>2. \A j \in Upto(x) : j \in S /\ j <= y
        BY <2>0, <3>1
    <3>3. y \in Upto(y) /\ y \notin Upto(x)
        BY <2>0
    <3> QED BY <3>2, <3>3
  <2>2. Upto(y) = Upto(x)
    <3> HIDE DEF Upto
    <3> QED BY <1>1, <2>1, FS_Subset
  <2> QED BY <2>1, <2>2
<1> HIDE DEF rank
<1>3. \A x, y \in S : rank(x) = rank(y) => x = y
    BY <1>2
<1>4. (CHOOSE x \in S : rank(x) = rank(k)) = k
    BY <1>3
<1>5. rank(k) \in 1 .. Cardinality(S)
    BY <1>1
<1>6. InOrder(S)[rank(k)] = k
    BY <1>4, <1>5 DEF InOrder, rank
<1> QED BY <1>5, <1>6

\* Compaction writes every cycle it deletes into the ledger.
LEMMA RolledUp ==
    ASSUME NEW T, NEW old \in Seq(T), NEW S \in SUBSET Int, IsFiniteSet(S)
    PROVE  /\ \E U : old \o InOrder(S) \in Seq(U)
           /\ \A k \in S : \E i \in DOMAIN (old \o InOrder(S)) : (old \o InOrder(S))[i] = k
<1> DEFINE n == Cardinality(S)
           new == InOrder(S)
           U == T \cup {new[i] : i \in 1 .. n}
<1>1. n \in Nat
    BY FS_CardinalityType
<1>2. /\ new = [i \in 1 .. n |-> CHOOSE k \in S : Cardinality({j \in S : j <= k}) = i]
      /\ DOMAIN new = 1 .. n
    BY DEF InOrder
<1>3. new \in [1 .. n -> U]
    BY <1>2
<1>4. new \in Seq(U) /\ Len(new) = n
  <2> HIDE DEF U, n, new
  <2> QED BY <1>1, <1>3
<1>5. old \in Seq(U) /\ Len(old) \in Nat
    BY SeqMonotonic
<1>6. /\ old \o new \in Seq(U) /\ Len(old \o new) = Len(old) + n
      /\ \A i \in 1 .. Len(old) + n : (old \o new)[i] = IF i <= Len(old) THEN old[i] ELSE new[i - Len(old)]
  <2> HIDE DEF U, n, new
  <2> QED BY <1>4, <1>5, ConcatProperties
<1>7. ASSUME NEW k \in S PROVE \E i \in DOMAIN (old \o new) : (old \o new)[i] = k
  <2>1. PICK i \in 1 .. n : new[i] = k
      BY InOrderCovers
  <2> HIDE DEF U, n, new
  <2>2. Len(old) + i \in 1 .. Len(old) + n /\ ~ (Len(old) + i <= Len(old)) /\ (Len(old) + i) - Len(old) = i
      BY <1>1, <1>5
  <2>3. (old \o new)[Len(old) + i] = k
      BY <1>6, <2>1, <2>2
  <2>4. DOMAIN (old \o new) = 1 .. Len(old) + n
      BY <1>1, <1>5, <1>6
  <2> QED BY <2>2, <2>3, <2>4
<1> QED BY <1>6, <1>7

-----------------------------------------------------------------------------

\* A step of one process that leaves the archive as it was and the lock to
\* whoever has it, except that the process may give it up.
LEMMA ProcessStep ==
    ASSUME RetentionInv, NEW p \in Procs, NEW r \in Doing, r.pc \notin Writing,
           proc' = [proc EXCEPT ![p] = r],
           lock' = lock \/ (lock = p /\ lock' = "nobody"),
           campaign' = campaign, runOf' = runOf, copied' = copied, manifest' = manifest,
           archives' # "NONE" => manifest # NoCopy,
           db' \in SUBSET db, \E T : ledger' \in Seq(T)
    PROVE  RetentionInv'
<1>1. RetentionShape'
  <2>1. proc' \in [Procs -> Doing]
      BY DEF RetentionInv, RetentionShape
  <2> QED BY <2>1 DEF RetentionInv, RetentionShape
<1>2. ASSUME NEW q \in Procs PROVE Copying(q)'
  <2>1. CASE q = p
    <3>1. proc'[q].pc = r.pc
        BY <2>1 DEF RetentionInv, RetentionShape
    <3> QED BY <3>1 DEF Copying, Writing
  <2>2. CASE q # p
    <3>1. proc'[q] = proc[q]
        BY <2>2 DEF RetentionInv, RetentionShape
    <3>2. Copying(q)
        BY DEF RetentionInv
    <3> QED BY <2>2, <3>1, <3>2 DEF Copying
  <2> QED BY <2>1, <2>2
<1> QED BY <1>1, <1>2 DEF RetentionInv

\* A step of the campaign leaves every process and the archive alone.
LEMMA CampaignStep ==
    ASSUME RetentionInv, UNCHANGED <<proc, archive, ledger>>,
           campaign' \in [status : {"RUNNING", "COMPLETED"}, worker : BOOLEAN, run : Nat,
                          rev : {1, 2}, bound : BOOLEAN],
           runOf' \in Seq(Nat), db' \in SUBSET Cycles
    PROVE  RetentionInv'
<1>1. RetentionShape'
    BY DEF RetentionInv, RetentionShape, archive
<1>2. \A q \in Procs : Copying(q)'
    BY DEF RetentionInv, Copying, archive
<1> QED BY <1>1, <1>2 DEF RetentionInv, archive

\* What is compacted is in the database, and there is an end to it.
LEMMA OldestOnes ==
    ASSUME StorageAssumption, RetentionShape
    PROVE  /\ IsFiniteSet(db)
           /\ \A S \in SUBSET db : /\ Oldest(S) \in SUBSET S
                                  /\ Oldest(S) \in SUBSET Int /\ IsFiniteSet(Oldest(S))
           /\ Compactable \in SUBSET db
<1>1. Cycles \in SUBSET Int /\ IsFiniteSet(Cycles)
    BY FS_Interval DEF Cycles, StorageAssumption
<1>2. db \in SUBSET Cycles
    BY DEF RetentionShape
<1>3. IsFiniteSet(db)
    BY <1>1, <1>2, FS_Subset
<1>4. ASSUME NEW S \in SUBSET db
      PROVE  Oldest(S) \in SUBSET S /\ Oldest(S) \in SUBSET Int /\ IsFiniteSet(Oldest(S))
  <2>1. Oldest(S) \in SUBSET S
      BY DEF Oldest
  <2>2. Oldest(S) \in SUBSET db
      BY <2>1
  <2> QED BY <1>1, <1>2, <1>3, <2>1, <2>2, FS_Subset
<1> QED BY <1>3, <1>4 DEF Compactable

\* Compaction keeps what it deletes in the ledger.
LEMMA CompactStep ==
    ASSUME StorageAssumption, RetentionInv, NEW p \in Procs, Compact(p)
    PROVE  /\ RetentionInv'
           /\ \A k \in db \ db' : \E i \in DOMAIN ledger' : ledger'[i] = k
<1>0. /\ RetentionShape /\ proc \in [Procs -> Doing] /\ proc[p] \in Doing
      /\ campaign' = campaign /\ runOf' = runOf /\ lock' = lock
      /\ copied' = copied /\ manifest' = manifest /\ archives' = archives
      /\ archives # "NONE" => manifest # NoCopy
    BY DEF RetentionInv, RetentionShape, Compact, world, archive
<1>1. CASE UNCHANGED store /\ \E pc \in {"report", "prune"} : Goto(p, pc)
  <2>1. PICK pc \in {"report", "prune"} : Goto(p, pc)
      BY <1>1
  <2> DEFINE r == [proc[p] EXCEPT !.pc = pc]
  <2>2. r \in Doing /\ r.pc \notin Writing /\ proc' = [proc EXCEPT ![p] = r]
      BY <1>0, <2>1 DEF Goto, Doing, Pcs, Writing
  <2>3. db' \in SUBSET db /\ db \ db' = {} /\ \E T : ledger' \in Seq(T)
      BY <1>0, <1>1 DEF store, RetentionShape
  <2> HIDE DEF r
  <2> QED BY <1>0, <2>2, <2>3, ProcessStep
<1>2. CASE /\ ledger' = ledger \o InOrder(Oldest(Compactable))
           /\ db' = db \ Oldest(Compactable)
           /\ proc' = [proc EXCEPT ![p].pc = "report", ![p].removed = TRUE]
  <2> DEFINE S == Oldest(Compactable)
             r == [proc[p] EXCEPT !.pc = "report", !.removed = TRUE]
  <2>1. r \in Doing /\ r.pc \notin Writing /\ proc' = [proc EXCEPT ![p] = r]
      BY <1>0, <1>2 DEF Doing, Pcs, Writing
  <2>2. S \in SUBSET Int /\ IsFiniteSet(S)
      BY <1>0, OldestOnes
  <2>3. PICK T : ledger \in Seq(T)
      BY <1>0 DEF RetentionShape
  <2> HIDE DEF r, S
  <2>4. /\ \E U : ledger' \in Seq(U)
        /\ \A k \in S : \E i \in DOMAIN ledger' : ledger'[i] = k
    <3>1. ledger' = ledger \o InOrder(S)
        BY <1>2 DEF S
    <3>2. /\ \E U : ledger \o InOrder(S) \in Seq(U)
          /\ \A k \in S : \E i \in DOMAIN (ledger \o InOrder(S)) : (ledger \o InOrder(S))[i] = k
        BY <2>2, <2>3, RolledUp
    <3> QED BY <3>1, <3>2, Zenon
  <2>5. db' \in SUBSET db /\ db \ db' \in SUBSET S
      BY <1>2 DEF S
  <2>6. RetentionInv'
      BY <1>0, <2>1, <2>4, <2>5, ProcessStep
  <2> QED BY <2>4, <2>5, <2>6
<1> QED BY <1>1, <1>2 DEF Compact

\* The removal deletes what the archive has, as its manifest says.
LEMMA RemoveStep ==
    ASSUME StorageAssumption, RetentionInv, NEW p \in Procs, RemoveBatch(p)
    PROVE  /\ RetentionInv'
           /\ \A k \in db \ db' : archives # "NONE" /\ k \in copied.cycles \cap manifest.cycles
<1>0. /\ RetentionShape /\ proc \in [Procs -> Doing] /\ proc[p] \in Doing
      /\ campaign' = campaign /\ runOf' = runOf /\ lock' = lock
      /\ copied' = copied /\ manifest' = manifest /\ ledger' = ledger
      /\ archives # "NONE" => manifest # NoCopy
      /\ manifest # NoCopy => copied.cycles \subseteq manifest.cycles
      /\ \E T : ledger' \in Seq(T)
    BY DEF RetentionInv, RetentionShape, RemoveBatch, world
<1>1. CASE /\ Removable
           /\ db' = db \ Oldest(db)
           /\ archives' = IF db' = {} THEN "ARCHIVED" ELSE "REMOVING"
           /\ proc' = [proc EXCEPT ![p].pc = "report", ![p].removed = TRUE]
  <2> DEFINE r == [proc[p] EXCEPT !.pc = "report", !.removed = TRUE]
  <2>1. r \in Doing /\ r.pc \notin Writing /\ proc' = [proc EXCEPT ![p] = r]
      BY <1>0, <1>1 DEF Doing, Pcs, Writing
  <2>2. archives # "NONE" /\ Oldest(db) \subseteq copied.cycles
      BY <1>1 DEF Removable
  <2>3. db' \in SUBSET db /\ db \ db' \in SUBSET Oldest(db)
      BY <1>1
  <2> HIDE DEF r
  <2>4. RetentionInv'
      BY <1>0, <2>1, <2>2, <2>3, ProcessStep
  <2> QED BY <1>0, <2>2, <2>3, <2>4
<1>2. CASE UNCHANGED <<db, archives>> /\ Goto(p, "report")
  <2> DEFINE r == [proc[p] EXCEPT !.pc = "report"]
  <2>1. r \in Doing /\ r.pc \notin Writing /\ proc' = [proc EXCEPT ![p] = r]
      BY <1>0, <1>2 DEF Goto, Doing, Pcs, Writing
  <2> HIDE DEF r
  <2>2. RetentionInv'
      BY <1>0, <1>2, <2>1, ProcessStep
  <2> QED BY <1>2, <2>2
<1> QED BY <1>1, <1>2 DEF RemoveBatch

\* Every other step of a process: nothing is deleted.
LEMMA OtherProcessSteps ==
    ASSUME StorageAssumption, RetentionInv, NEW p \in Procs,
           \/ Check(p) \/ Prune(p) \/ ArchiveBegin(p) \/ Backup(p) \/ WriteManifest(p)
           \/ Verify(p, "verify", "publish") \/ Publish(p) \/ Verify(p, "check", "remove")
           \/ Report(p) \/ GivesUp(p) \/ Death(p)
    PROVE  RetentionInv' /\ db' = db
<1>0. /\ RetentionShape /\ proc \in [Procs -> Doing] /\ proc[p] \in Doing
      /\ archives # "NONE" => manifest # NoCopy
      /\ \E T : ledger \in Seq(T)
    BY DEF RetentionInv, RetentionShape
<1>1. UNCHANGED <<world, store>> /\ db' = db /\ campaign' = campaign /\ runOf' = runOf /\ ledger' = ledger
    BY DEF world, store, Check, Prune, ArchiveBegin, Backup, WriteManifest, Verify, Publish, Report,
           GivesUp, Death
<1>2. ASSUME NEW r \in Doing, r.pc \notin Writing, proc' = [proc EXCEPT ![p] = r],
             lock' = lock \/ (lock = p /\ lock' = "nobody"),
             copied' = copied, manifest' = manifest, archives' # "NONE" => manifest # NoCopy
      PROVE  RetentionInv'
  <2>1. db' \in SUBSET db /\ \E T : ledger' \in Seq(T)
      BY <1>0, <1>1
  <2> QED BY <1>1, <1>2, <2>1, ProcessStep
<1>3. ASSUME NEW pc \in Pcs \ Writing, Goto(p, pc), lock' = lock \/ Unlock(p),
             copied' = copied, manifest' = manifest, archives' = archives
      PROVE  RetentionInv'
  <2> DEFINE r == [proc[p] EXCEPT !.pc = pc]
  <2>1. r \in Doing /\ r.pc \notin Writing /\ proc' = [proc EXCEPT ![p] = r]
      BY <1>0, <1>3 DEF Goto, Doing
  <2>2. lock' = lock \/ (lock = p /\ lock' = "nobody")
      BY <1>3 DEF Unlock
  <2> HIDE DEF r
  <2> QED BY <1>0, <1>1, <1>2, <1>3, <2>1, <2>2
<1>4. CASE Check(p)
  <2>1. PICK b \in BOOLEAN : proc' = [proc EXCEPT ![p] = [pc |-> "compact", cleaning |-> b, removed |-> FALSE]]
      BY <1>0, <1>4 DEF Check, Cleaning, Doing
  <2> DEFINE r == [pc |-> "compact", cleaning |-> b, removed |-> FALSE]
  <2>2. r \in Doing /\ r.pc \notin Writing /\ proc' = [proc EXCEPT ![p] = r]
      BY <2>1 DEF Doing, Pcs, Writing
  <2>3. lock' = lock /\ copied' = copied /\ manifest' = manifest /\ archives' = archives
      BY <1>4 DEF Check, archive
  <2> HIDE DEF r
  <2> QED BY <1>0, <1>1, <1>2, <2>2, <2>3
<1>5. CASE Prune(p)
  <2>1. PICK r \in Doing : r.pc \notin Writing /\ proc' = [proc EXCEPT ![p] = r]
    <3>1. CASE proc' = [proc EXCEPT ![p].pc = "report", ![p].removed = TRUE]
      <4> DEFINE r == [proc[p] EXCEPT !.pc = "report", !.removed = TRUE]
      <4>1. r \in Doing /\ r.pc \notin Writing /\ proc' = [proc EXCEPT ![p] = r]
          BY <1>0, <3>1 DEF Doing, Pcs, Writing
      <4> QED BY <4>1
    <3>2. CASE \E pc \in {"archive", "report"} : Goto(p, pc)
      <4>1. PICK pc \in {"archive", "report"} : Goto(p, pc)
          BY <3>2
      <4> DEFINE r == [proc[p] EXCEPT !.pc = pc]
      <4>2. r \in Doing /\ r.pc \notin Writing /\ proc' = [proc EXCEPT ![p] = r]
          BY <1>0, <4>1 DEF Goto, Doing, Pcs, Writing
      <4> QED BY <4>2
    <3> QED BY <1>5, <3>1, <3>2 DEF Prune
  <2>2. lock' = lock /\ copied' = copied /\ manifest' = manifest /\ archives' = archives
      BY <1>5 DEF Prune, archive
  <2> QED BY <1>0, <1>1, <1>2, <2>1, <2>2
<1>6. CASE Report(p)
  <2>1. PICK b \in BOOLEAN : proc' = [proc EXCEPT ![p] = [@ EXCEPT !.pc = "idle", !.cleaning = b]]
    <3>1. (proc[p].cleaning /\ Live > Low) \in BOOLEAN
        OBVIOUS
    <3> QED BY <1>6, <3>1 DEF Report
  <2> DEFINE r == [proc[p] EXCEPT !.pc = "idle", !.cleaning = b]
  <2>2. r \in Doing /\ r.pc \notin Writing /\ proc' = [proc EXCEPT ![p] = r]
      BY <1>0, <2>1 DEF Doing, Pcs, Writing
  <2>3. lock' = lock /\ copied' = copied /\ manifest' = manifest /\ archives' = archives
      BY <1>6 DEF Report, archive
  <2> HIDE DEF r
  <2> QED BY <1>0, <1>1, <1>2, <2>2, <2>3
<1>7. CASE GivesUp(p)
  <2>1. "report" \in Pcs \ Writing
      BY DEF Pcs, Writing
  <2> QED BY <1>1, <1>3, <1>7, <2>1 DEF GivesUp
<1>8. CASE Death(p)
  <2> DEFINE r == [pc |-> "idle", cleaning |-> FALSE, removed |-> FALSE]
  <2>1. r \in Doing /\ r.pc \notin Writing /\ proc' = [proc EXCEPT ![p] = r]
      BY <1>8 DEF Death, Doing, Pcs, Writing
  <2>2. /\ lock' = lock \/ (lock = p /\ lock' = "nobody")
        /\ copied' = copied /\ manifest' = manifest /\ archives' = archives
      BY <1>8 DEF Death, Unlock
  <2> HIDE DEF r
  <2> QED BY <1>0, <1>1, <1>2, <2>1, <2>2
<1>9. ASSUME NEW pc \in Pcs, Goto(p, pc), archives' = archives, RetentionShape',
             lock' = p, lock \in {p, "nobody"},
             copied' = copied \/ (manifest = NoCopy /\ manifest' = NoCopy),
             manifest' = manifest \/ (manifest = NoCopy /\ manifest' = copied /\ copied' = copied),
             \A q \in Procs \ {p} : q # lock,
             pc \in {"copy", "manifest"} => manifest' = NoCopy,
             pc = "manifest" => copied'.rev # 0,
             pc = "publish" => manifest' # NoCopy
      PROVE  RetentionInv'
  <2>1. proc'[p].pc = pc /\ \A q \in Procs \ {p} : proc'[q] = proc[q]
      BY <1>0, <1>9 DEF Goto, Doing
  <2>2. \A q \in Procs \ {p} : proc[q].pc \notin Writing
      BY <1>9 DEF RetentionInv, Copying
  <2>3. \A q \in Procs : Copying(q)'
      BY <1>9, <2>1, <2>2 DEF Copying, Writing
  <2>4. archives' # "NONE" => manifest' # NoCopy
      BY <1>0, <1>9
  <2>5. manifest' # NoCopy => copied'.cycles \subseteq manifest'.cycles
      BY <1>9 DEF RetentionInv
  <2> QED BY <1>9, <2>3, <2>4, <2>5 DEF RetentionInv
<1>10. ASSUME NEW pc \in Pcs, Goto(p, pc), copied' \in {copied, [cycles |-> db, rev |-> campaign.rev]},
              manifest' \in {manifest, copied}
       PROVE  RetentionShape'
  <2>1. proc' \in [Procs -> Doing]
      BY <1>0, <1>10 DEF Goto, Doing
  <2>2. campaign.rev \in {1, 2} /\ db \in SUBSET Cycles
      BY <1>0 DEF RetentionShape
  <2>3. [cycles |-> db, rev |-> campaign.rev] \in [cycles : SUBSET Cycles, rev : 0 .. 2]
      BY <2>2
  <2> QED BY <1>0, <1>1, <1>10, <2>1, <2>3 DEF RetentionShape
<1>11. CASE ArchiveBegin(p)
  <2>1. CASE lock = "nobody" /\ lock' = p /\ Goto(p, IF manifest = NoCopy THEN "copy" ELSE "verify")
    <3>1. PICK pc \in {"copy", "verify"} : Goto(p, pc) /\ (pc = "copy" => manifest = NoCopy)
        BY <2>1
    <3>2. pc \in Pcs /\ copied' = copied /\ manifest' = manifest /\ archives' = archives
        BY <1>11 DEF ArchiveBegin, Pcs
    <3>3. \A q \in Procs : q # lock
        BY <2>1 DEF StorageAssumption
    <3>4. RetentionShape'
        BY <1>10, <3>1, <3>2
    <3> QED BY <1>1, <1>9, <2>1, <3>1, <3>2, <3>3, <3>4
  <2>2. CASE lock' = lock /\ Goto(p, "report")
    <3>1. "report" \in Pcs \ Writing
        BY DEF Pcs, Writing
    <3> QED BY <1>1, <1>3, <1>11, <2>2, <3>1 DEF ArchiveBegin
  <2> QED BY <1>11, <2>1, <2>2 DEF ArchiveBegin
<1>12. CASE Backup(p)
  <2>1. lock = p /\ manifest = NoCopy
      BY <1>12 DEF RetentionInv, Copying, Backup, At, Writing
  <2>2. CASE copied' = [cycles |-> db, rev |-> campaign.rev] /\ lock' = lock /\ Goto(p, "manifest")
    <3>1. "manifest" \in Pcs /\ manifest' = manifest /\ archives' = archives /\ copied'.rev # 0
        BY <1>0, <1>12, <2>2 DEF Backup, Pcs, RetentionShape
    <3>2. RetentionShape'
        BY <1>10, <2>2, <3>1
    <3> QED BY <1>1, <1>9, <2>1, <2>2, <3>1, <3>2
  <2>3. CASE copied' = copied /\ Unlock(p) /\ Goto(p, "report")
    <3>1. "report" \in Pcs \ Writing
        BY DEF Pcs, Writing
    <3> QED BY <1>1, <1>3, <1>12, <2>3, <3>1 DEF Backup
  <2> QED BY <1>12, <2>2, <2>3 DEF Backup
<1>13. CASE WriteManifest(p)
  <2>1. lock = p /\ manifest = NoCopy /\ copied.rev # 0
      BY <1>13 DEF RetentionInv, Copying, WriteManifest, At, Writing
  <2>2. "verify" \in Pcs /\ Goto(p, "verify") /\ manifest' = copied /\ copied' = copied
        /\ archives' = archives /\ lock' = lock
      BY <1>13 DEF WriteManifest, Pcs
  <2>3. RetentionShape'
      BY <1>10, <2>2
  <2> QED BY <1>1, <1>9, <2>1, <2>2, <2>3
<1>14. CASE Verify(p, "verify", "publish")
  <2>1. CASE Intact /\ lock' = lock /\ Goto(p, "publish")
    <3>1. lock = p
        BY <1>14 DEF RetentionInv, Copying, Verify, At, Writing
    <3>2. "publish" \in Pcs /\ manifest # NoCopy /\ copied' = copied /\ manifest' = manifest /\ archives' = archives
        BY <1>14, <2>1 DEF Verify, Pcs, Intact
    <3>3. RetentionShape'
        BY <1>10, <2>1, <3>2
    <3> QED BY <1>1, <1>9, <2>1, <3>1, <3>2, <3>3
  <2>2. CASE Unlock(p) /\ Goto(p, "report")
    <3>1. "report" \in Pcs \ Writing
        BY DEF Pcs, Writing
    <3> QED BY <1>1, <1>3, <1>14, <2>2, <3>1 DEF Verify
  <2> QED BY <1>14, <2>1, <2>2 DEF Verify
<1>15. CASE Verify(p, "check", "remove")
  <2>1. PICK pc \in {"remove", "report"} : Goto(p, pc) /\ (lock' = lock \/ Unlock(p))
      BY <1>15 DEF Verify
  <2>2. pc \in Pcs \ Writing
      BY DEF Pcs, Writing
  <2> QED BY <1>1, <1>3, <1>15, <2>1, <2>2 DEF Verify
<1>16. CASE Publish(p)
  <2>1. PICK pc \in {"check", "report"} : Goto(p, pc)
      BY <1>16 DEF Publish
  <2> DEFINE r == [proc[p] EXCEPT !.pc = pc]
  <2>2. r \in Doing /\ r.pc \notin Writing /\ proc' = [proc EXCEPT ![p] = r]
      BY <1>0, <2>1 DEF Goto, Doing, Pcs, Writing
  <2>3. manifest # NoCopy
      BY <1>16 DEF RetentionInv, Copying, Publish, At
  <2>4. lock' = lock \/ (lock = p /\ lock' = "nobody")
      BY <1>16 DEF Publish, Unlock
  <2>5. copied' = copied /\ manifest' = manifest
      BY <1>16 DEF Publish
  <2> HIDE DEF r
  <2> QED BY <1>1, <1>2, <2>2, <2>3, <2>4, <2>5
<1> QED BY <1>4, <1>5, <1>6, <1>7, <1>8, <1>11, <1>12, <1>13, <1>14, <1>15, <1>16

\* A damaged archive has less than its manifest says, never more.
LEMMA DamageStep ==
    ASSUME RetentionInv, Damage
    PROVE  RetentionInv' /\ db' = db
<1>1. PICK k \in copied.cycles : copied' = [copied EXCEPT !.cycles = @ \ {k}]
    BY DEF Damage
<1>2. /\ manifest # NoCopy /\ manifest' = manifest /\ archives' = archives /\ lock' = lock
      /\ proc' = proc /\ campaign' = campaign /\ runOf' = runOf /\ db' = db /\ ledger' = ledger
    BY DEF Damage, world, store
<1>3. copied \in [cycles : SUBSET Cycles, rev : 0 .. 2]
    BY DEF RetentionInv, RetentionShape
<1>4. /\ copied' \in [cycles : SUBSET Cycles, rev : 0 .. 2]
      /\ copied'.cycles \subseteq copied.cycles /\ copied'.rev = copied.rev
    BY <1>1, <1>3
<1>5. RetentionShape'
    BY <1>2, <1>4 DEF RetentionInv, RetentionShape
<1>6. \A q \in Procs : Copying(q)'
    BY <1>2, <1>4 DEF RetentionInv, Copying
<1> QED BY <1>2, <1>4, <1>5, <1>6 DEF RetentionInv

\* The campaign records, resolves and ends, and deletes nothing.
LEMMA CampaignSteps ==
    ASSUME StorageAssumption, RetentionInv,
           RecordCycle \/ Continue \/ CampaignEnds \/ Exposure \/ \E k \in Cycles : Resolve(k)
    PROVE  RetentionInv' /\ db \ db' = {}
<1> DEFINE CampaignRows == [status : {"RUNNING", "COMPLETED"}, worker : BOOLEAN, run : Nat,
                            rev : {1, 2}, bound : BOOLEAN]
<1>0. campaign \in CampaignRows /\ runOf \in Seq(Nat) /\ db \in SUBSET Cycles
    BY DEF RetentionInv, RetentionShape
<1>1. UNCHANGED <<proc, archive, ledger>>
    BY DEF RecordCycle, Continue, CampaignEnds, Exposure, Resolve, store
<1>2. campaign' \in CampaignRows
  <2>1. CASE RecordCycle \/ Exposure \/ \E k \in Cycles : Resolve(k)
      BY <1>0, <2>1 DEF RecordCycle, Exposure, Resolve
  <2>2. CASE Continue
      BY <1>0, <2>2, SMTT(20) DEF Continue
  <2>3. CASE CampaignEnds
      BY <1>0, <2>3 DEF CampaignEnds
  <2> QED BY <2>1, <2>2, <2>3
<1>3. runOf' \in Seq(Nat) /\ db' \in SUBSET Cycles /\ db \ db' = {}
  <2>1. CASE RecordCycle
    <3>1. campaign.run \in Nat
        BY <1>0
    <3>2. runOf' = Append(runOf, campaign.run) /\ Len(runOf) < MaxCycles /\ db' = db \cup {Len(runOf')}
        BY <2>1 DEF RecordCycle
    <3>3. runOf' \in Seq(Nat) /\ Len(runOf') = Len(runOf) + 1 /\ Len(runOf) \in Nat
        BY <1>0, <3>1, <3>2, AppendProperties
    <3>4. Len(runOf') \in Cycles
        BY <3>2, <3>3 DEF Cycles, StorageAssumption
    <3> QED BY <1>0, <3>2, <3>3, <3>4
  <2>2. CASE ~ RecordCycle
      BY <1>0, <2>2 DEF Continue, CampaignEnds, Exposure, Resolve, store
  <2> QED BY <2>1, <2>2
<1> HIDE DEF CampaignRows
<1>4. RetentionInv'
    BY <1>1, <1>2, <1>3, CampaignStep DEF CampaignRows
<1> QED BY <1>3, <1>4

\* A cycle that a step may delete.
Backed(k) ==
    \/ \E i \in DOMAIN ledger' : ledger'[i] = k
    \/ archives # "NONE" /\ k \in copied.cycles \cap manifest.cycles

\* What holds of the archive and what a step deletes, in every step.
LEMMA RetentionKeeps ==
    ASSUME StorageAssumption, RetentionInv, [Next]_vars
    PROVE  RetentionInv' /\ \A k \in db \ db' : Backed(k)
<1> DEFINE Goal == RetentionInv' /\ \A k \in db \ db' : Backed(k)
<1>1. CASE UNCHANGED vars
    BY <1>1 DEF RetentionInv, RetentionShape, Copying, vars, world, store, archive
<1>2. ASSUME NEW p \in Procs, Compact(p) PROVE Goal
    BY <1>2, CompactStep DEF Backed
<1>3. ASSUME NEW p \in Procs, RemoveBatch(p) PROVE Goal
    BY <1>3, RemoveStep DEF Backed
<1>4. ASSUME NEW p \in Procs,
             \/ Check(p) \/ Prune(p) \/ ArchiveBegin(p) \/ Backup(p) \/ WriteManifest(p)
             \/ Verify(p, "verify", "publish") \/ Publish(p) \/ Verify(p, "check", "remove")
             \/ Report(p) \/ GivesUp(p) \/ Death(p)
      PROVE  Goal
  <2>1. RetentionInv' /\ db' = db
      BY <1>4, OtherProcessSteps
  <2> QED BY <2>1
<1>5. CASE Damage
  <2>1. RetentionInv' /\ db' = db
      BY <1>5, DamageStep
  <2> QED BY <2>1
<1>6. CASE RecordCycle \/ Continue \/ CampaignEnds \/ Exposure \/ \E k \in Cycles : Resolve(k)
  <2>1. RetentionInv' /\ db \ db' = {}
      BY <1>6, CampaignSteps
  <2> QED BY <2>1
<1> HIDE DEF Goal
<1>7. Goal
    BY <1>1, <1>2, <1>3, <1>4, <1>5, <1>6 DEF Next, Proceeds, Goal
<1> QED BY <1>7 DEF Goal

\* Whatever is recorded, resolved, damaged or repeated by another process, and
\* wherever one gives up or dies, a row of evidence is deleted only into the
\* ledger or with a copy of it in a published archive and its manifest
\* (compact_stats_only_universe_batch, remove_archived_batch).
THEOREM RemovalBacked == Spec => RemovalIsBacked
<1>1. ASSUME Init PROVE RetentionInv
  <2>1. runOf \in Seq(Nat) /\ ledger \in Seq(Nat)
      BY <1>1, EmptySeq DEF Init
  <2>2. /\ campaign \in [status : {"RUNNING", "COMPLETED"}, worker : BOOLEAN, run : Nat, rev : {1, 2}, bound : BOOLEAN]
        /\ copied \in [cycles : SUBSET Cycles, rev : 0 .. 2] /\ manifest \in [cycles : SUBSET Cycles, rev : 0 .. 2]
        /\ db \in SUBSET Cycles
      BY <1>1 DEF Init, NoCopy
  <2>3. proc \in [Procs -> Doing] /\ \A p \in Procs : proc[p].pc = "idle"
      BY <1>1 DEF Init, Doing, Pcs
  <2>4. \A p \in Procs : Copying(p)
      BY <2>3 DEF Copying, Writing
  <2> QED BY <1>1, <2>1, <2>2, <2>3, <2>4 DEF Init, RetentionInv, RetentionShape
<1>2. RetentionInv /\ [Next]_vars => RetentionInv'
    BY RetentionKeeps, StorageAssumption
<1>3. RetentionInv /\ [Next]_vars => [\A k \in db \ db' : Backed(k)]_vars
    BY RetentionKeeps, StorageAssumption
<1>4. Spec => [][\A k \in db \ db' : Backed(k)]_vars
    BY <1>1, <1>2, <1>3, PTL DEF Spec
<1> QED BY <1>4 DEF RemovalIsBacked, Backed
=============================================================================
