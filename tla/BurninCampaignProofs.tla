------------------------ MODULE BurninCampaignProofs ------------------------
(***************************************************************************)
(* For any number of workers, commands and continuations: an ended         *)
(* continuation has a cause, a caused one is over, and neither changes.    *)
(*                                                                         *)
(* The argument is about the rows alone.  What processes and commands add  *)
(* is the read they still have to act on: it names a continuation that was *)
(* active, and if that is live now it was live when it was read, because   *)
(* only the next continuation ever becomes live.                           *)
(*                                                                         *)
(* For any number of processes that tick over any market: what the         *)
(* campaign's resolver has settled stays settled, its results are those a  *)
(* reader of every candle would give, and its books balance.               *)
(***************************************************************************)
EXTENDS BurninCampaign, BurninResolver, SumLemmas, WellFoundedInduction, TLAPS

DbType ==
    db \in [status : Statuses, active : 0..MaxRuns, pid : Workers \cup {None},
            run : [Runs -> RunStatuses], cause : [Runs -> Causes]]

\* What no read has to be known for.
RowsOK ==
    /\ DbType
    /\ EndedHasCause
    /\ CausedIsOver
    /\ \A n \in Runs : n > db.active => db.run[n] = "NONE" /\ db.cause[n] = "none"
    /\ db.status = "CREATED" => db.active = 0

\* A read still to be acted on.
HoldOK(h) ==
    /\ h \in Holds
    /\ h.seen <= db.active
    /\ RunIs(h.seen, Live) => h.moving

HoldsOK ==
    /\ \A w \in Workers : HoldOK(worker[w].hold)
    /\ \A o \in Operators : HoldOK(op[o].hold)
    /\ \A o \in Operators : op[o].pc = "ending" => op[o].hold.how \in Hows
    /\ \A w \in Workers : worker[w].hold # NoHold => worker[w].hold.how \in Hows

IInv == TypeOK /\ RowsOK /\ HoldsOK

\* What every step does to the rows.
RowsStep ==
    /\ db.active <= db'.active
    /\ \A n \in Runs : n <= db.active /\ db'.run[n] \in Live => db.run[n] \in Live
    /\ \A n \in Runs :
          /\ db.run[n] \in Ended \cup {"PAUSED"} => db'.run[n] = db.run[n]
          /\ db.cause[n] # "none" => db'.cause[n] = db.cause[n]

-----------------------------------------------------------------------------
\* Every way to end a continuation leaves it ended or paused.
LEMMA OutcomeType ==
    ASSUME NEW how \in Hows
    PROVE  /\ Outcome(how).run \in {"PAUSED", "FAILED", "RECOVERY_REQUIRED"}
           /\ Outcome(how).status \in {"PAUSED", "FAILED", "RECOVERY_REQUIRED"}
           /\ Outcome(how).clear \in BOOLEAN
  BY DEF Outcome, Hows, To

\* terminalize_active_campaign_run's writes, on a read that is still true.
LEMMA TerminalizedRows ==
    ASSUME RowsOK, NEW h, HoldOK(h), h.how \in Hows, db' = Terminalized(h)
    PROVE  RowsOK' /\ RowsStep
<1> DEFINE to == Outcome(h.how)
           target == {to.run, to.status} \cap Ended # {}
           hit == target => db.status \in Live
           cause == [n \in Runs |-> IF n = h.seen /\ target /\ h.moving /\ db.cause[n] = "none"
                                    THEN h.how ELSE db.cause[n]]
           run == [n \in Runs |-> IF n = h.seen /\ db.run[n] \in Live THEN to.run ELSE db.run[n]]
<1>1. /\ to.run \in {"PAUSED", "FAILED", "RECOVERY_REQUIRED"}
      /\ to.status \in {"PAUSED", "FAILED", "RECOVERY_REQUIRED"}
  BY OutcomeType
<1>2. to.run \in Ended => target
  OBVIOUS
<1>3. h.how \in Causes /\ h.how # "none"
  BY DEF Causes, Hows
<1>4. DbType
  BY DEF RowsOK
<1>5. /\ db'.status = IF hit THEN to.status ELSE db.status
      /\ db'.active = db.active
      /\ db'.pid = IF hit /\ to.clear THEN None ELSE db.pid
      /\ db'.run = run /\ db'.cause = cause
      /\ db' = [status |-> db'.status, active |-> db'.active, pid |-> db'.pid,
                run |-> db'.run, cause |-> db'.cause]
  <2> HIDE DEF to
  <2> QED  BY <1>4 DEF Terminalized, DbType, to
<1> HIDE DEF to, target, hit
<1>6. cause \in [Runs -> Causes] /\ run \in [Runs -> RunStatuses]
  BY <1>1, <1>3, <1>4 DEF DbType, RunStatuses, Ended
<1>7. DbType'
  BY <1>1, <1>4, <1>5, <1>6 DEF DbType, Statuses, Ended
<1>8. h.seen <= db.active /\ (h.seen # 0 /\ db.run[h.seen] \in Live => h.moving)
  BY DEF HoldOK, RunIs
<1>9. \A n \in Runs : /\ db'.run[n] = IF n = h.seen /\ db.run[n] \in Live THEN to.run ELSE db.run[n]
                      /\ db'.cause[n] = IF n = h.seen /\ target /\ h.moving /\ db.cause[n] = "none"
                                        THEN h.how ELSE db.cause[n]
                      /\ n # 0
  BY <1>5, CampaignAssumption DEF Runs
<1>10. EndedHasCause'
  BY <1>1, <1>2, <1>3, <1>8, <1>9 DEF RowsOK, EndedHasCause
<1>11. CausedIsOver'
  BY <1>1, <1>9 DEF RowsOK, CausedIsOver, Live
<1>12. \A n \in Runs : n > db'.active => db'.run[n] = "NONE" /\ db'.cause[n] = "none"
  <2> SUFFICES ASSUME NEW n \in Runs, n > db'.active
               PROVE  db'.run[n] = "NONE" /\ db'.cause[n] = "none"
    OBVIOUS
  <2>1. n # h.seen
    BY <1>4, <1>5, <1>8, CampaignAssumption DEF DbType, Runs, HoldOK, Holds
  <2> QED  BY <2>1, <1>5, <1>9 DEF RowsOK
<1>13. db'.status = "CREATED" => db'.active = 0
  BY <1>1, <1>5 DEF RowsOK
<1>14. RowsStep
  BY <1>1, <1>4, <1>5, <1>9 DEF RowsStep, Ended, Live, DbType, Runs
<1> QED  BY <1>7, <1>10, <1>11, <1>12, <1>13, <1>14 DEF RowsOK

\* A read that has just been made is true.
LEMMA SeenIsTrue ==
    ASSUME DbType, NEW how \in Hows
    PROVE  HoldOK(Seen(how)) /\ Seen(how).how = how
<1> DEFINE m == db.status \in Live \/ RunIs(db.active, Live)
<1>1. m \in BOOLEAN /\ (RunIs(db.active, Live) => m)
  OBVIOUS
<1>2. Seen(how) = [how |-> how, seen |-> db.active, moving |-> m]
  BY DEF Seen
<1> HIDE DEF m
<1>3. /\ Seen(how) \in Holds
      /\ Seen(how).seen = db.active /\ Seen(how).how = how /\ Seen(how).moving = m
  BY <1>1, <1>2 DEF Holds, DbType
<1>4. Seen(how).seen <= db.active
  BY <1>3, CampaignAssumption DEF DbType
<1> QED  BY <1>1, <1>3, <1>4 DEF HoldOK

\* start_or_resume_campaign, field by field.
LEMMA BegunFields ==
    ASSUME DbType, NEW resume \in BOOLEAN, NEW b, b = Begun(resume)
    PROVE  LET n == db.active + 1
               replaced == resume /\ RunIs(db.active, {"RUNNING"})
           IN  /\ b.status = "RUNNING" /\ b.active = n /\ b.pid = db.pid
               /\ b.run = [k \in Runs |-> IF k = n THEN "RUNNING"
                                          ELSE IF k = db.active /\ replaced
                                               THEN "RECOVERY_REQUIRED" ELSE db.run[k]]
               /\ b.cause = [k \in Runs |-> IF k = db.active /\ replaced /\ db.cause[k] = "none"
                                            THEN "replaced" ELSE db.cause[k]]
               /\ b = [status |-> b.status, active |-> b.active, pid |-> b.pid,
                       run |-> b.run, cause |-> b.cause]
  BY DEF Begun, DbType

\* burnin_ops launch turns that continuation's statuses to STARTING.
LEMMA StartingFields ==
    ASSUME NEW b, NEW a, NEW p, NEW r, NEW c, NEW s, NEW d,
           b = [status |-> s, active |-> a, pid |-> p, run |-> r, cause |-> c],
           d = [b EXCEPT !.status = "STARTING", !.run[1] = "STARTING"]
    PROVE  d = [status |-> "STARTING", active |-> a, pid |-> p,
                run |-> [r EXCEPT ![1] = "STARTING"], cause |-> c]
  OBVIOUS

\* start_or_resume_campaign.
LEMMA BegunRows ==
    ASSUME RowsOK, db.active < MaxRuns, NEW resume \in BOOLEAN, db' = Begun(resume)
    PROVE  RowsOK' /\ RowsStep
<1>1. DbType
  BY DEF RowsOK
<1> DEFINE n == db.active + 1
           replaced == resume /\ RunIs(db.active, {"RUNNING"})
           run == [k \in Runs |-> IF k = n THEN "RUNNING"
                                  ELSE IF k = db.active /\ replaced THEN "RECOVERY_REQUIRED"
                                  ELSE db.run[k]]
           cause == [k \in Runs |-> IF k = db.active /\ replaced /\ db.cause[k] = "none"
                                    THEN "replaced" ELSE db.cause[k]]
<1>2. /\ db'.status = "RUNNING" /\ db'.active = n /\ db'.pid = db.pid
      /\ db'.run = run /\ db'.cause = cause
      /\ db' = [status |-> db'.status, active |-> db'.active, pid |-> db'.pid,
                run |-> db'.run, cause |-> db'.cause]
  BY <1>1, BegunFields
<1>3. n \in Runs /\ n # db.active
  BY <1>1, CampaignAssumption DEF DbType, Runs
<1>4. run \in [Runs -> RunStatuses] /\ cause \in [Runs -> Causes]
  <2> HIDE DEF n, replaced
  <2> QED  BY <1>1 DEF DbType, RunStatuses, Live, Ended, Causes
<1>5. DbType'
  BY <1>1, <1>2, <1>3, <1>4 DEF DbType, Statuses, Live, Runs
<1>6. \A k \in Runs :
         /\ db'.run[k] = IF k = n THEN "RUNNING"
                         ELSE IF k = db.active /\ replaced THEN "RECOVERY_REQUIRED" ELSE db.run[k]
         /\ db'.cause[k] = IF k = db.active /\ replaced /\ db.cause[k] = "none"
                           THEN "replaced" ELSE db.cause[k]
  BY <1>2
<1>7. db.run[n] = "NONE" /\ db.cause[n] = "none"
  BY <1>1, <1>3 DEF RowsOK, DbType
<1>8. replaced => db.run[db.active] = "RUNNING"
  BY DEF RunIs
<1> HIDE DEF replaced
<1>9. EndedHasCause' /\ CausedIsOver'
  BY <1>3, <1>6, <1>7 DEF RowsOK, EndedHasCause, CausedIsOver, Live, Ended
<1>10. \A k \in Runs : k > db'.active => db'.run[k] = "NONE" /\ db'.cause[k] = "none"
  BY <1>1, <1>2, <1>6 DEF RowsOK, DbType, Runs
<1>11. RowsStep
  BY <1>1, <1>2, <1>3, <1>6, <1>7, <1>8 DEF RowsStep, RowsOK, Ended, Live, DbType, Runs
<1> QED  BY <1>2, <1>5, <1>9, <1>10, <1>11 DEF RowsOK

\* Steps that leave the rows' story alone: they may change the campaign's status
\* and pid, and move live continuations among the live statuses or to PAUSED.
LEMMA OtherRows ==
    ASSUME RowsOK, DbType',
           db'.active = db.active, db'.cause = db.cause,
           db'.status = "CREATED" => db.status = "CREATED",
           \A n \in Runs : \/ db'.run[n] = db.run[n]
                           \/ db.run[n] \in Live /\ db'.run[n] \in Live \cup {"PAUSED"}
    PROVE  RowsOK' /\ RowsStep
<1>1. EndedHasCause' /\ CausedIsOver'
  BY DEF RowsOK, EndedHasCause, CausedIsOver, Live, Ended
<1>2. \A n \in Runs : n > db'.active => db'.run[n] = "NONE" /\ db'.cause[n] = "none"
  BY DEF RowsOK, Live
<1>3. db'.status = "CREATED" => db'.active = 0
  BY DEF RowsOK
<1>4. RowsStep
  BY CampaignAssumption DEF RowsStep, RowsOK, DbType, Live, Ended
<1> QED  BY <1>1, <1>2, <1>3, <1>4 DEF RowsOK

\* A pending read stays true, whoever steps.
LEMMA HoldKept ==
    ASSUME RowsOK, RowsOK', RowsStep, NEW h, HoldOK(h)
    PROVE  HoldOK(h)'
<1>1. h.seen \in 0..MaxRuns /\ db.active \in 0..MaxRuns /\ db'.active \in 0..MaxRuns
  BY DEF RowsOK, DbType, HoldOK, Holds
<1>2. h.seen <= db'.active
  BY <1>1, CampaignAssumption DEF HoldOK, RowsStep
<1>3. ASSUME h.seen # 0, db'.run[h.seen] \in Live PROVE h.moving
  BY <1>1, <1>3, CampaignAssumption DEF HoldOK, RowsStep, RunIs, Runs
<1> QED  BY <1>2, <1>3 DEF HoldOK, RunIs

LEMMA NoHoldOK ==
    ASSUME RowsOK
    PROVE  HoldOK(NoHold) /\ NoHold.how \notin Hows
  BY CampaignAssumption DEF RowsOK, DbType, HoldOK, NoHold, Holds, RunIs, Hows
-----------------------------------------------------------------------------
\* A step that changes at most the campaign's status and pid.
LEMMA StatusRows ==
    ASSUME RowsOK, NEW st \in Statuses \ {"CREATED"}, NEW p \in Workers \cup {None},
           \/ db' = [db EXCEPT !.status = st]
           \/ db' = [db EXCEPT !.pid = p]
           \/ db' = db
    PROVE  RowsOK' /\ RowsStep
<1>1. DbType
  BY DEF RowsOK
<1>2. /\ DbType' /\ db'.active = db.active /\ db'.cause = db.cause /\ db'.run = db.run
      /\ db'.status \in {db.status, st}
  BY <1>1 DEF DbType
<1> QED  BY <1>2, OtherRows

\* A step that changes the campaign's status and one live continuation's.
LEMMA OneRunRows ==
    ASSUME RowsOK, NEW n \in 0..MaxRuns, NEW st \in Statuses, st = "CREATED" => db.status = "CREATED",
           NEW x, n # 0 => x = db.run[n] \/ (db.run[n] \in Live /\ x \in Live \cup {"PAUSED"}),
           db' = [db EXCEPT !.status = st, !.run[n] = x]
    PROVE  RowsOK' /\ RowsStep
<1>1. DbType
  BY DEF RowsOK
<1>2. /\ db'.active = db.active /\ db'.cause = db.cause /\ db'.status = st /\ db'.pid = db.pid
      /\ db'.run = [db.run EXCEPT ![n] = x]
      /\ db' = [status |-> db'.status, active |-> db'.active, pid |-> db'.pid,
                run |-> db'.run, cause |-> db'.cause]
  BY <1>1 DEF DbType
<1>3. \A k \in Runs : db'.run[k] = IF k = n THEN x ELSE db.run[k]
  BY <1>1, <1>2 DEF DbType
<1>4. n \in Runs => x \in RunStatuses
  BY <1>1, CampaignAssumption DEF DbType, RunStatuses, Runs
<1>5. db'.run \in [Runs -> RunStatuses]
  BY <1>1, <1>2, <1>4 DEF DbType
<1>6. DbType'
  BY <1>1, <1>2, <1>5 DEF DbType
<1>7. \A k \in Runs : \/ db'.run[k] = db.run[k]
                      \/ db.run[k] \in Live /\ db'.run[k] \in Live \cup {"PAUSED"}
  BY <1>3, CampaignAssumption DEF Runs
<1> QED  BY <1>2, <1>6, <1>7, OtherRows

\* burnin_ops launch.
LEMMA LaunchRows ==
    ASSUME IInv, NEW o \in Operators, Launch(o)
    PROVE  RowsOK' /\ RowsStep
<1>1. DbType /\ db.active = 0 /\ db.status = "CREATED"
  BY DEF IInv, RowsOK, Launch
<1>2. 1 \in Runs
  BY CampaignAssumption DEF Runs
<1>3. \A k \in Runs : k > 0
  BY CampaignAssumption DEF Runs
<1>4. \A k \in Runs : db.run[k] = "NONE" /\ db.cause[k] = "none"
  BY <1>1, <1>3 DEF IInv, RowsOK
<1>r. PICK r \in BOOLEAN : r = FALSE
  OBVIOUS
<1>B. PICK B : B = Begun(r)
  OBVIOUS
<1> DEFINE replaced == r /\ RunIs(db.active, {"RUNNING"})
<1>0. ~replaced
  BY <1>r
<1>5. /\ B.active = db.active + 1 /\ B.pid = db.pid
      /\ B.run = [k \in Runs |-> IF k = db.active + 1 THEN "RUNNING"
                                 ELSE IF k = db.active /\ replaced THEN "RECOVERY_REQUIRED"
                                 ELSE db.run[k]]
      /\ B.cause = [k \in Runs |-> IF k = db.active /\ replaced /\ db.cause[k] = "none"
                                   THEN "replaced" ELSE db.cause[k]]
      /\ B = [status |-> B.status, active |-> B.active, pid |-> B.pid, run |-> B.run,
              cause |-> B.cause]
  BY <1>1, <1>B, BegunFields
<1> HIDE DEF replaced
<1>6. db' = [B EXCEPT !.status = "STARTING", !.run[1] = "STARTING"]
  BY <1>r, <1>B DEF Launch
<1>7. /\ db'.active = 1 /\ db'.pid = db.pid /\ db'.status = "STARTING"
      /\ db'.run = [B.run EXCEPT ![1] = "STARTING"] /\ db'.cause = B.cause
      /\ db' = [status |-> db'.status, active |-> db'.active, pid |-> db'.pid,
                run |-> db'.run, cause |-> db'.cause]
  <2>1. db' = [status |-> "STARTING", active |-> B.active, pid |-> B.pid,
               run |-> [B.run EXCEPT ![1] = "STARTING"], cause |-> B.cause]
    BY <1>5, <1>6, StartingFields
  <2> QED  BY <2>1, <1>1, <1>5
<1>8. \A k \in Runs : /\ db'.run[k] = IF k = 1 THEN "STARTING" ELSE "NONE"
                      /\ db'.cause[k] = "none"
  BY <1>0, <1>1, <1>4, <1>5, <1>7
<1>9. db'.run \in [Runs -> RunStatuses] /\ db'.cause \in [Runs -> Causes]
  <2>1. DOMAIN db'.run = Runs /\ DOMAIN db'.cause = Runs
    BY <1>5, <1>7
  <2>2. /\ db'.run = [k \in Runs |-> db'.run[k]]
        /\ db'.cause = [k \in Runs |-> db'.cause[k]]
    BY <2>1, <1>5, <1>7
  <2> QED  BY <2>2, <1>8 DEF RunStatuses, Live, Causes
<1>10. DbType'
  <2>1. 1 \in 0..MaxRuns /\ "STARTING" \in Statuses
    BY <1>2 DEF Runs, Statuses, Live
  <2> QED  BY <2>1, <1>1, <1>7, <1>9 DEF DbType
<1>11. EndedHasCause' /\ CausedIsOver'
  BY <1>8 DEF EndedHasCause, CausedIsOver, Ended
<1>12. \A k \in Runs : k > db'.active => db'.run[k] = "NONE" /\ db'.cause[k] = "none"
  BY <1>7, <1>8 DEF Runs
<1>13. RowsStep
  BY <1>1, <1>3, <1>4, <1>7, <1>8 DEF RowsStep, Ended, Runs
<1> QED  BY <1>7, <1>10, <1>11, <1>12, <1>13 DEF RowsOK

\* A caller that reads and writes in one transaction.
LEMMA TerminalizeRows ==
    ASSUME RowsOK, NEW how \in Hows, Terminalize(how)
    PROVE  RowsOK' /\ RowsStep
  BY SeenIsTrue, TerminalizedRows DEF RowsOK, Terminalize
-----------------------------------------------------------------------------
\* Every step keeps the rows' story.
LEMMA NextRows ==
    ASSUME IInv, Next
    PROVE  RowsOK' /\ RowsStep
<1>1. /\ RowsOK /\ DbType /\ TypeOK /\ HoldsOK
      /\ \A w \in Workers : w \in Workers \cup {None}
      /\ db.active \in 0..MaxRuns /\ db.status \in Statuses
  BY DEF IInv, RowsOK, DbType
<1>2. /\ "RUNNING" \in Statuses \ {"CREATED"} /\ "STARTING" \in Statuses \ {"CREATED"}
      /\ "PAUSED" \in Statuses \ {"CREATED"} /\ "COMPLETED" \in Statuses \ {"CREATED"}
      /\ None \in Workers \cup {None}
  BY DEF Statuses, Live
<1>3. ASSUME db' = db PROVE RowsOK' /\ RowsStep
  BY <1>1, <1>2, <1>3, StatusRows
<1>4. ASSUME NEW w \in Workers, WorkerWrites(w) PROVE RowsOK' /\ RowsStep
  <2>1. CASE AttachRefused(w)
    BY <2>1, <1>1, TerminalizeRows DEF AttachRefused, Hows
  <2>2. CASE Operational(w)
    <3>1. CASE db.active = worker[w].run /\ db.status \in Live /\ RunIs(db.active, {db.status})
      <4>1. db' = [db EXCEPT !.status = "RUNNING", !.run[db.active] = "RUNNING"]
        BY <2>2, <3>1 DEF Operational
      <4>2. db.run[db.active] \in Live /\ "RUNNING" \in Live \cup {"PAUSED"}
        BY <3>1 DEF RunIs, Live
      <4> QED  BY <4>1, <4>2, <1>1, <1>2, OneRunRows
    <3>2. CASE db' = db
      BY <3>2, <1>3
    <3> QED  BY <2>2, <3>1, <3>2 DEF Operational
  <2>3. CASE \E complete \in BOOLEAN : MaintenanceTick(w, complete)
    <3>1. \E complete \in BOOLEAN :
             db' = [db EXCEPT !.status = IF complete /\ db.status # "FAILED" THEN "COMPLETED" ELSE @]
      BY <2>3 DEF MaintenanceTick
    <3>2. db' = [db EXCEPT !.status = "COMPLETED"] \/ db' = db
      BY <3>1, <1>1 DEF DbType
    <3> QED  BY <3>2, <1>1, <1>2, StatusRows
  <2>4. CASE WorkerEnds(w)
    <3>1. HoldOK(worker[w].hold) /\ worker[w].hold.how \in Hows /\ db' = Terminalized(worker[w].hold)
      BY <2>4, <1>1 DEF WorkerEnds, HoldsOK, NotHolding
    <3> QED  BY <3>1, <1>1, TerminalizedRows
  <2>5. CASE WorkerExits(w)
    <3>1. \/ db' = db
          \/ Terminalize("failed")
          \/ db' = [db EXCEPT !.pid = IF db.status = "PAUSED" /\ @ = w THEN None ELSE @]
      BY <2>5 DEF WorkerExits
    <3>2. CASE db' = db
      BY <3>2, <1>3
    <3>3. CASE Terminalize("failed")
      BY <3>3, <1>1, TerminalizeRows DEF Hows
    <3>4. CASE db' = [db EXCEPT !.pid = IF db.status = "PAUSED" /\ @ = w THEN None ELSE @]
      <4>1. db' = [db EXCEPT !.pid = None] \/ db' = db
        BY <3>4, <1>1 DEF DbType
      <4> QED  BY <4>1, <1>1, <1>2, StatusRows
    <3> QED  BY <3>1, <3>2, <3>3, <3>4
  <2>6. CASE Attach(w)
    BY <2>6, <1>3 DEF Attach
  <2> QED  BY <1>4, <2>1, <2>2, <2>3, <2>4, <2>5, <2>6 DEF WorkerWrites
<1>5. ASSUME NEW o \in Operators, OpWrites(o) PROVE RowsOK' /\ RowsStep
  <2>1. ASSUME NEW resume \in BOOLEAN, BeginDetached(o, resume) PROVE RowsOK' /\ RowsStep
    BY <2>1, <1>1, BegunRows DEF BeginDetached, MayBegin
  <2>2. CASE Demote(o)
    <3>1. db' = [db EXCEPT !.status = "STARTING",
                           !.run[db.active] = IF @ = "RUNNING" THEN "STARTING" ELSE @]
      BY <2>2 DEF Demote
    <3> DEFINE x == IF db.run[db.active] = "RUNNING" THEN "STARTING" ELSE db.run[db.active]
    <3>2. db' = [db EXCEPT !.status = "STARTING", !.run[db.active] = x]
      BY <3>1, <1>1 DEF DbType
    <3>3. x = db.run[db.active] \/ (db.run[db.active] \in Live /\ x \in Live \cup {"PAUSED"})
      BY DEF Live
    <3> QED  BY <3>2, <3>3, <1>1, <1>2, OneRunRows
  <2>3. CASE RecordPid(o)
    <3>1. \/ db' = [db EXCEPT !.pid = IF db.status = "STARTING" THEN op[o].worker ELSE @]
          \/ Terminalize("failed")
      BY <2>3 DEF RecordPid
    <3>2. op[o].worker \in Workers \cup {None}
      BY <1>1 DEF TypeOK
    <3>3. CASE Terminalize("failed")
      BY <3>3, <1>1, TerminalizeRows DEF Hows
    <3>4. CASE db' = [db EXCEPT !.pid = IF db.status = "STARTING" THEN op[o].worker ELSE @]
      <4>1. db' = [db EXCEPT !.pid = op[o].worker] \/ db' = db
        BY <3>4, <1>1 DEF DbType
      <4> QED  BY <4>1, <3>2, <1>1, <1>2, StatusRows
    <3> QED  BY <3>1, <3>3, <3>4
  <2>4. CASE Launch(o)
    BY <2>4, LaunchRows
  <2>5. CASE LaunchWorker(o)
    <3>1. db' = db \/ Terminalize("attach")
      BY <2>5 DEF LaunchWorker
    <3>2. CASE Terminalize("attach")
      BY <3>2, <1>1, TerminalizeRows DEF Hows
    <3> QED  BY <3>1, <3>2, <1>3
  <2>6. CASE LaunchPid(o)
    <3>1. op[o].worker \in Workers \cup {None} /\ db' = [db EXCEPT !.pid = op[o].worker]
      BY <1>1, <2>6 DEF TypeOK, LaunchPid
    <3> QED  BY <3>1, <1>1, <1>2, StatusRows
  <2>7. CASE MarkAttachedRunning(o)
    <3>1. op[o].run \in 0..MaxRuns
      BY <1>1 DEF TypeOK
    <3> DEFINE n == op[o].run
               st == IF db.status = "STARTING" THEN "RUNNING" ELSE db.status
               x == IF db.run[n] = "STARTING" THEN "RUNNING" ELSE db.run[n]
    <3>2. db' = [db EXCEPT !.status = st, !.run[n] = x]
      BY <2>7, <1>1 DEF MarkAttachedRunning, DbType
    <3>3. x = db.run[n] \/ (db.run[n] \in Live /\ x \in Live \cup {"PAUSED"})
      BY DEF Live
    <3>4. st \in Statuses /\ (st = "CREATED" => db.status = "CREATED")
      BY <1>1, <1>2
    <3> HIDE DEF n, st, x
    <3>5. n \in 0..MaxRuns
      BY <3>1 DEF n
    <3> QED  BY <3>2, <3>3, <3>4, <3>5, <1>1, OneRunRows
  <2>8. CASE WatchDead(o)
    BY <2>8, <1>1, TerminalizeRows DEF WatchDead, Hows
  <2>9. CASE OpEnds(o)
    <3>1. HoldOK(op[o].hold) /\ op[o].hold.how \in Hows /\ db' = Terminalized(op[o].hold)
      BY <2>9, <1>1 DEF OpEnds, OpAt, HoldsOK
    <3> QED  BY <3>1, <1>1, TerminalizedRows
  <2>10. CASE DrillConnects(o)
    BY <2>10, <1>3 DEF DrillConnects
  <2> QED
    BY <1>5, <2>1, <2>2, <2>3, <2>4, <2>5, <2>6, <2>7, <2>8, <2>9, <2>10 DEF OpWrites
<1>6. ASSUME NEW resume \in BOOLEAN, RunForeground(resume) PROVE RowsOK' /\ RowsStep
  BY <1>6, <1>1, BegunRows DEF RunForeground, MayBegin
<1>7. CASE Pause
  <2> DEFINE run == [n \in Runs |-> IF n = db.active /\ db.run[n] = "RUNNING" THEN "PAUSED" ELSE db.run[n]]
  <2>1. db' = [db EXCEPT !.status = "PAUSED", !.run = run]
    BY <1>7 DEF Pause
  <2>2. run \in [Runs -> RunStatuses]
    BY <1>1 DEF DbType, RunStatuses
  <2>3. \A n \in Runs : \/ run[n] = db.run[n]
                        \/ db.run[n] \in Live /\ run[n] \in Live \cup {"PAUSED"}
    BY DEF Live
  <2> HIDE DEF run
  <2>4. /\ DbType' /\ db'.active = db.active /\ db'.cause = db.cause /\ db'.status = "PAUSED"
        /\ db'.run = run
    BY <2>1, <2>2, <1>1, <1>2 DEF DbType
  <2> QED  BY <2>3, <2>4, <1>1, OtherRows
<1>8. CASE ResumeOnly
  BY <1>8, <1>1, BegunRows DEF ResumeOnly, MayBegin
<1>9. ASSUME NEW w \in Workers, WorkerThinks(w) PROVE RowsOK' /\ RowsStep
  BY <1>9, <1>3 DEF WorkerThinks, RuntimeExits, CheckReturn, WorkerRaises, FailReads,
                    WorkerReads, LaunchRaises, Crash
<1>10. ASSUME NEW o \in Operators, OpThinks(o) PROVE RowsOK' /\ RowsStep
  BY <1>10, <1>3 DEF OpThinks, Spawn, VerifyAttached, LaunchFails, WatchUnhealthy, OpDies,
                     DrillProbeLocked, OpReads
<1> QED  BY <1>4, <1>5, <1>6, <1>7, <1>8, <1>9, <1>10 DEF Next
-----------------------------------------------------------------------------
WorkerRec == [pc : WorkerPcs, run : 0..MaxRuns, kind : Kinds, hold : Holds]
OpRec == [pc : OpPcs, run : 0..MaxRuns, worker : Workers \cup {None}, hold : Holds]

WorkersType == worker \in [Workers -> WorkerRec]
OpsType == op \in [Operators -> OpRec]

FreshHold(h) == h = NoHold \/ \E how \in Hows : h = Seen(how)

\* Processes and commands keep a read, drop it or make one; a command that is to
\* end a continuation has one.
WorkersStep ==
    /\ WorkersType'
    /\ \A w \in Workers : worker'[w].hold = worker[w].hold \/ FreshHold(worker'[w].hold)

OpsStep ==
    /\ OpsType'
    /\ \A o \in Operators :
          /\ op'[o].hold = op[o].hold \/ FreshHold(op'[o].hold)
          /\ op'[o].pc = "ending" =>
                \/ op[o].pc = "ending" /\ op'[o].hold = op[o].hold
                \/ \E how \in Hows : op'[o].hold = Seen(how)

LEMMA NoHoldType == NoHold \in Holds
  BY CampaignAssumption DEF NoHold, Holds

\* One process changes its place and perhaps its run.
LEMMA WorkerMoves ==
    ASSUME WorkersType, NEW w \in Workers, NEW r \in WorkerRec,
           worker' = [worker EXCEPT ![w] = r],
           r.hold = worker[w].hold \/ FreshHold(r.hold)
    PROVE  WorkersStep
<1>1. WorkersType'
  BY DEF WorkersType
<1>2. \A v \in Workers : worker'[v] = IF v = w THEN r ELSE worker[v]
  BY DEF WorkersType
<1> QED  BY <1>1, <1>2 DEF WorkersStep

LEMMA WorkersSame ==
    ASSUME WorkersType, worker' = worker
    PROVE  WorkersStep
  BY DEF WorkersType, WorkersStep

\* One command changes its record.
LEMMA OpMoves ==
    ASSUME OpsType, NEW o \in Operators, NEW r \in OpRec,
           op' = [op EXCEPT ![o] = r],
           \/ r.pc # "ending" /\ (r.hold = op[o].hold \/ r.hold = NoHold)
           \/ \E how \in Hows : r.hold = Seen(how)
    PROVE  OpsStep
<1>1. OpsType'
  BY DEF OpsType
<1>2. \A v \in Operators : op'[v] = IF v = o THEN r ELSE op[v]
  BY DEF OpsType
<1> QED  BY <1>1, <1>2 DEF OpsStep, FreshHold

LEMMA OpsSame ==
    ASSUME OpsType, op' = op
    PROVE  OpsStep
  BY DEF OpsType, OpsStep

\* The workers' reads and places.
LEMMA NextWorkers ==
    ASSUME IInv, Next
    PROVE  WorkersStep
<1>1. WorkersType /\ DbType /\ OpsType
  BY DEF IInv, TypeOK, RowsOK, WorkersType, WorkerRec, OpsType, OpRec
<1>2. ASSUME NEW w \in Workers, NEW pc \in WorkerPcs, WorkerGoes(w, pc) PROVE WorkersStep
  <2> DEFINE r == [worker[w] EXCEPT !.pc = pc]
  <2>1. r \in WorkerRec /\ r.hold = worker[w].hold
    BY <1>1 DEF WorkersType, WorkerRec
  <2>2. worker' = [worker EXCEPT ![w] = r]
    BY <1>1, <1>2 DEF WorkersType, WorkerGoes
  <2> HIDE DEF r
  <2> QED  BY <2>1, <2>2, <1>1, WorkerMoves
<1>3. ASSUME NEW w \in Workers, NEW kind \in Kinds, Started(w, kind)
      PROVE  WorkersStep
  <2> DEFINE r == [worker[w] EXCEPT !.pc = "booting", !.kind = kind]
  <2>1. r \in WorkerRec /\ r.hold = worker[w].hold
    BY <1>1 DEF WorkersType, WorkerRec, WorkerPcs
  <2>2. worker' = [worker EXCEPT ![w] = r]
    BY <1>1, <1>3 DEF WorkersType, Started
  <2> HIDE DEF r
  <2> QED  BY <2>1, <2>2, <1>1, WorkerMoves
<1>4. ASSUME NEW w \in Workers, NEW how \in Hows,
             worker' = [worker EXCEPT ![w].hold = Seen(how)]
      PROVE  WorkersStep
  <2> DEFINE r == [worker[w] EXCEPT !.hold = Seen(how)]
  <2>1. Seen(how) \in Holds
    BY <1>1, SeenIsTrue DEF HoldOK
  <2>2. r \in WorkerRec /\ r.hold = Seen(how)
    BY <2>1, <1>1 DEF WorkersType, WorkerRec
  <2>3. worker' = [worker EXCEPT ![w] = r]
    BY <1>1, <1>4 DEF WorkersType
  <2>4. FreshHold(r.hold)
    BY <2>2 DEF FreshHold
  <2> HIDE DEF r
  <2> QED  BY <2>2, <2>3, <2>4, <1>1, WorkerMoves
<1>5. ASSUME NEW w \in Workers, WorkerWrites(w) \/ WorkerThinks(w) PROVE WorkersStep
  <2> USE DEF WorkerPcs
  <2>0. ASSUME worker' = [worker EXCEPT ![w] = Process("dead")] PROVE WorkersStep
    <3>1. Process("dead") \in WorkerRec /\ FreshHold(Process("dead").hold)
      BY NoHoldType, CampaignAssumption DEF Process, WorkerRec, Kinds, FreshHold
    <3> QED  BY <2>0, <3>1, <1>1, WorkerMoves
  <2>1. CASE AttachRefused(w)
    BY <2>1, <1>2 DEF AttachRefused
  <2>2. CASE Operational(w)
    BY <2>2, <1>2 DEF Operational
  <2>3. CASE \E complete \in BOOLEAN : MaintenanceTick(w, complete)
    BY <2>3, <1>2 DEF MaintenanceTick
  <2>4. CASE WorkerEnds(w)
    <3> DEFINE r == [worker[w] EXCEPT !.hold = NoHold, !.pc = IF @ = "raising" THEN "failing" ELSE @]
    <3>1. r \in WorkerRec /\ r.hold = NoHold
      BY <1>1, NoHoldType DEF WorkersType, WorkerRec
    <3>2. worker' = [worker EXCEPT ![w] = r]
      BY <2>4, <1>1 DEF WorkerEnds, WorkersType
    <3>3. FreshHold(r.hold)
      BY <3>1 DEF FreshHold
    <3> HIDE DEF r
    <3> QED  BY <3>1, <3>2, <3>3, <1>1, WorkerMoves
  <2>5. CASE WorkerExits(w)
    BY <2>5, <2>0 DEF WorkerExits
  <2>6. CASE Attach(w)
    <3> DEFINE r == [worker[w] EXCEPT !.run = db.active,
                                      !.pc = IF @ = "booting" THEN "attached" ELSE "starting"]
    <3>1. r \in WorkerRec /\ r.hold = worker[w].hold
      BY <1>1 DEF WorkersType, WorkerRec, DbType
    <3>2. worker' = [worker EXCEPT ![w] = r]
      BY <2>6, <1>1 DEF Attach, WorkersType
    <3> HIDE DEF r
    <3> QED  BY <3>1, <3>2, <1>1, WorkerMoves
  <2>7. CASE RuntimeExits(w)
    BY <2>7, <1>2 DEF RuntimeExits
  <2>8. CASE CheckReturn(w)
    <3>1. WorkerGoes(w, "raising") \/ WorkerGoes(w, "leaving")
      BY <2>8 DEF CheckReturn, WorkerGoes
    <3> QED  BY <3>1, <1>2
  <2>9. CASE WorkerRaises(w)
    BY <2>9, <1>2 DEF WorkerRaises
  <2>10. CASE FailReads(w)
    <3>1. \/ \E how \in {"failed", "storage"} : worker' = [worker EXCEPT ![w].hold = Seen(how)]
          \/ WorkerGoes(w, "failing")
      BY <2>10 DEF FailReads
    <3> QED  BY <3>1, <1>2, <1>4 DEF Hows
  <2>11. CASE WorkerReads(w)
    <3>1. \E how \in {"heartbeat", "provider"} : worker' = [worker EXCEPT ![w].hold = Seen(how)]
      BY <2>11 DEF WorkerReads
    <3> QED  BY <3>1, <1>4 DEF Hows
  <2>12. CASE Crash(w)
    BY <2>12, <2>0 DEF Crash
  <2>13. CASE LaunchRaises(w)
    <3> DEFINE r == [worker[w] EXCEPT !.pc = "leaving", !.hold = Seen("failed")]
    <3>1. "failed" \in Hows
      BY DEF Hows
    <3>2. Seen("failed") \in Holds
      BY <3>1, <1>1, SeenIsTrue DEF HoldOK
    <3>3. r \in WorkerRec /\ r.hold = Seen("failed")
      BY <3>2, <1>1 DEF WorkersType, WorkerRec
    <3>4. worker' = [worker EXCEPT ![w] = r]
      BY <2>13, <1>1 DEF LaunchRaises, WorkersType
    <3>5. FreshHold(r.hold)
      BY <3>1, <3>3 DEF FreshHold
    <3> HIDE DEF r
    <3> QED  BY <3>3, <3>4, <3>5, <1>1, WorkerMoves
  <2> QED
    BY <1>5, <2>1, <2>2, <2>3, <2>4, <2>5, <2>6, <2>7, <2>8, <2>9, <2>10, <2>11, <2>12, <2>13
    DEF WorkerWrites, WorkerThinks
<1>6. ASSUME worker' = worker PROVE WorkersStep
  BY <1>1, <1>6, WorkersSame
<1>7. ASSUME NEW o \in Operators, OpWrites(o) PROVE WorkersStep
  <2>1. CASE LaunchWorker(o)
    BY <2>1, <1>3, <1>6 DEF LaunchWorker, Kinds
  <2>2. CASE ~LaunchWorker(o)
    BY <2>2, <1>6, <1>7 DEF OpWrites, BeginDetached, Demote, RecordPid, Launch, LaunchPid,
                       MarkAttachedRunning, WatchDead, OpEnds, DrillConnects
  <2> QED  BY <2>1, <2>2
<1>8. ASSUME NEW o \in Operators, OpThinks(o) PROVE WorkersStep
  <2>1. CASE Spawn(o)
    BY <2>1, <1>3 DEF Spawn, Kinds
  <2>2. CASE ~Spawn(o)
    BY <2>2, <1>6, <1>8 DEF OpThinks, VerifyAttached, LaunchFails, WatchUnhealthy, OpDies,
                       DrillProbeLocked, OpReads
  <2> QED  BY <2>1, <2>2
<1>9. ASSUME NEW resume \in BOOLEAN, RunForeground(resume) PROVE WorkersStep
  BY <1>9, <1>3 DEF RunForeground, Kinds
<1>10. CASE Pause \/ ResumeOnly
  BY <1>10, <1>6 DEF Pause, ResumeOnly
<1> QED  BY <1>5, <1>7, <1>8, <1>9, <1>10 DEF Next

\* The commands' reads and places, and the lock.
LEMMA NextOps ==
    ASSUME IInv, Next
    PROVE  OpsStep /\ lock' \in Operators \cup {None}
<1>1. OpsType /\ DbType /\ lock \in Operators \cup {None}
  BY DEF IInv, TypeOK, RowsOK, OpsType, OpRec
<1>2. ASSUME NEW o \in Operators, NEW pc \in OpPcs \ {"ending"}, OpGoes(o, pc) PROVE OpsStep
  <2> DEFINE r == [op[o] EXCEPT !.pc = pc]
  <2>1. r \in OpRec /\ r.hold = op[o].hold /\ r.pc # "ending"
    BY <1>1 DEF OpsType, OpRec
  <2>2. op' = [op EXCEPT ![o] = r]
    BY <1>1, <1>2 DEF OpsType, OpGoes
  <2> HIDE DEF r
  <2> QED  BY <2>1, <2>2, <1>1, OpMoves
<1>3. ASSUME NEW o \in Operators, NEW pc \in OpPcs \ {"ending"}, NEW w \in Workers,
             op' = [op EXCEPT ![o].pc = pc, ![o].worker = w]
      PROVE  OpsStep
  <2> DEFINE r == [op[o] EXCEPT !.pc = pc, !.worker = w]
  <2>1. r \in OpRec /\ r.hold = op[o].hold /\ r.pc # "ending"
    BY <1>1 DEF OpsType, OpRec
  <2>2. op' = [op EXCEPT ![o] = r]
    BY <1>1, <1>3 DEF OpsType
  <2> HIDE DEF r
  <2> QED  BY <2>1, <2>2, <1>1, OpMoves
<1>4. ASSUME NEW o \in Operators, OpDone(o) PROVE OpsStep
  <2>1. Idle \in OpRec /\ Idle.hold = NoHold /\ Idle.pc # "ending"
    BY NoHoldType, CampaignAssumption DEF Idle, OpRec, OpPcs
  <2> QED  BY <2>1, <1>1, <1>4, OpMoves DEF OpDone
<1>5. ASSUME NEW o \in Operators, NEW how \in Hows, OpReads(o, how) PROVE OpsStep
  <2> DEFINE r == [op[o] EXCEPT !.pc = "ending", !.hold = Seen(how)]
  <2>1. Seen(how) \in Holds
    BY <1>1, SeenIsTrue DEF HoldOK
  <2>2. r \in OpRec /\ r.hold = Seen(how)
    BY <2>1, <1>1 DEF OpsType, OpRec, OpPcs
  <2>3. op' = [op EXCEPT ![o] = r]
    BY <1>1, <1>5 DEF OpsType, OpReads
  <2> HIDE DEF r
  <2> QED  BY <2>2, <2>3, <1>1, OpMoves
<1>6. ASSUME op' = op PROVE OpsStep
  BY <1>1, <1>6, OpsSame
<1>7. ASSUME NEW o \in Operators, OpWrites(o) PROVE OpsStep /\ lock' \in Operators \cup {None}
  <2> USE DEF OpPcs
  <2>1. ASSUME NEW resume \in BOOLEAN, BeginDetached(o, resume)
        PROVE  OpsStep /\ lock' \in Operators \cup {None}
    BY <2>1, <1>1, <1>2 DEF BeginDetached
  <2>2. CASE Demote(o)
    BY <2>2, <1>1, <1>2 DEF Demote
  <2>3. CASE RecordPid(o)
    BY <2>3, <1>1, <1>4 DEF RecordPid
  <2>4. CASE Launch(o)
    <3> DEFINE r == [op[o] EXCEPT !.pc = "launch", !.run = 1]
    <3>1. 1 \in 0..MaxRuns
      BY CampaignAssumption
    <3>2. r \in OpRec /\ r.hold = op[o].hold /\ r.pc # "ending"
      BY <3>1, <1>1 DEF OpsType, OpRec
    <3>3. op' = [op EXCEPT ![o] = r]
      BY <1>1, <2>4 DEF OpsType, Launch
    <3>4. lock' = lock
      BY <2>4 DEF Launch
    <3> HIDE DEF r
    <3> QED  BY <3>2, <3>3, <3>4, <1>1, OpMoves
  <2>5. CASE LaunchWorker(o)
    <3>1. lock' = lock
      BY <2>5 DEF LaunchWorker
    <3>2. \/ \E w \in Workers : op' = [op EXCEPT ![o].pc = "pid", ![o].worker = w]
          \/ OpGoes(o, "refused")
      BY <2>5 DEF LaunchWorker
    <3> QED  BY <3>1, <3>2, <1>1, <1>2, <1>3
  <2>6. CASE LaunchPid(o)
    BY <2>6, <1>1, <1>2 DEF LaunchPid
  <2>7. CASE MarkAttachedRunning(o)
    BY <2>7, <1>1, <1>4 DEF MarkAttachedRunning
  <2>8. CASE WatchDead(o)
    BY <2>8, <1>1, <1>6 DEF WatchDead
  <2>9. CASE OpEnds(o)
    BY <2>9, <1>1, <1>4 DEF OpEnds
  <2>10. CASE DrillConnects(o)
    BY <2>10, <1>2 DEF DrillConnects
  <2> QED
    BY <1>7, <2>1, <2>2, <2>3, <2>4, <2>5, <2>6, <2>7, <2>8, <2>9, <2>10 DEF OpWrites
<1>8. ASSUME NEW o \in Operators, OpThinks(o) PROVE OpsStep /\ lock' \in Operators \cup {None}
  <2> USE DEF OpPcs
  <2>1. CASE Spawn(o)
    BY <2>1, <1>1, <1>3 DEF Spawn
  <2>2. CASE VerifyAttached(o)
    BY <2>2, <1>1, <1>2 DEF VerifyAttached
  <2>3. CASE LaunchFails(o)
    BY <2>3, <1>1, <1>5 DEF LaunchFails, OpReads, Hows
  <2>4. CASE WatchUnhealthy(o)
    BY <2>4, <1>1, <1>5 DEF WatchUnhealthy, OpReads, Hows
  <2>5. CASE OpDies(o)
    BY <2>5, <1>1, <1>4 DEF OpDies
  <2>6. CASE DrillProbeLocked(o)
    BY <2>6, <1>4 DEF DrillProbeLocked
  <2> QED  BY <1>8, <2>1, <2>2, <2>3, <2>4, <2>5, <2>6 DEF OpThinks
<1>9. ASSUME NEW w \in Workers, WorkerWrites(w) \/ WorkerThinks(w)
      PROVE  OpsStep /\ lock' \in Operators \cup {None}
  <2>1. op' = op /\ lock' = lock
    BY <1>9 DEF WorkerWrites, WorkerThinks, AttachRefused, Operational, MaintenanceTick,
                WorkerEnds, WorkerExits, Attach, RuntimeExits, CheckReturn, WorkerRaises,
                FailReads, WorkerReads, LaunchRaises, Crash
  <2> QED  BY <2>1, <1>1, <1>6
<1>10. CASE Pause \/ ResumeOnly \/ \E resume \in BOOLEAN : RunForeground(resume)
  <2>1. op' = op /\ lock' = lock
    BY <1>10 DEF Pause, ResumeOnly, RunForeground
  <2> QED  BY <2>1, <1>1, <1>6
<1> QED  BY <1>7, <1>8, <1>9, <1>10 DEF Next

\* The inductive invariant holds at first and every step keeps it.
LEMMA InitIInv == Init => IInv
<1> SUFFICES ASSUME Init PROVE IInv
  OBVIOUS
<1>1. /\ db.status = "CREATED" /\ db.active = 0
      /\ \A n \in Runs : db.run[n] = "NONE" /\ db.cause[n] = "none"
  BY DEF Init
<1>2. DbType
  BY CampaignAssumption DEF Init, DbType, Statuses, RunStatuses, Causes
<1>3. RowsOK
  BY <1>1, <1>2 DEF RowsOK, EndedHasCause, CausedIsOver, Ended
<1>4. TypeOK
  BY <1>2, NoHoldType, CampaignAssumption DEF DbType, Init, TypeOK, Idle, Process, WorkerPcs, OpPcs,
                                                        Kinds
<1>5. /\ \A w \in Workers : worker[w].hold = NoHold
      /\ \A o \in Operators : op[o].hold = NoHold /\ op[o].pc = "idle"
  BY DEF Init, Idle, Process
<1>6. HoldsOK
  BY <1>3, <1>5, NoHoldOK DEF HoldsOK
<1> QED  BY <1>3, <1>4, <1>6 DEF IInv

LEMMA NextIInv ==
    ASSUME IInv, [Next]_vars
    PROVE  IInv' /\ RowsStep
<1>1. CASE Next
  <2>1. RowsOK /\ RowsOK' /\ RowsStep
    BY <1>1, NextRows DEF IInv
  <2>2. WorkersStep /\ OpsStep /\ lock' \in Operators \cup {None}
    BY <1>1, NextWorkers, NextOps
  <2>3. TypeOK'
    BY <2>1, <2>2 DEF TypeOK, RowsOK, DbType, WorkersStep, WorkersType, WorkerRec, OpsStep,
                      OpsType, OpRec
  <2>4. HoldsOK /\ DbType
    BY <2>1 DEF IInv, RowsOK
  <2>5. ASSUME NEW h, FreshHold(h) PROVE HoldOK(h)' /\ (h # NoHold => h.how \in Hows)
    <3>1. HoldOK(h) /\ (h # NoHold => h.how \in Hows)
      BY <2>1, <2>4, <2>5, NoHoldOK, SeenIsTrue DEF FreshHold
    <3> QED  BY <3>1, <2>1, HoldKept
  <2>6. ASSUME NEW w \in Workers
        PROVE  HoldOK(worker[w].hold)' /\ (worker'[w].hold # NoHold => worker'[w].hold.how \in Hows)
    <3> DEFINE h == worker[w].hold
               g == worker'[w].hold
    <3>1. HoldOK(h) /\ (h # NoHold => h.how \in Hows)
      BY <2>4 DEF HoldsOK
    <3>2. g = h \/ FreshHold(g)
      BY <2>2 DEF WorkersStep
    <3>3. \A k : HoldOK(k)' <=> /\ k \in Holds
                                /\ k.seen <= db'.active
                                /\ (k.seen # 0 /\ db'.run[k.seen] \in Live) => k.moving
      BY DEF HoldOK, RunIs
    <3>4. \A k : HoldOK(k) => HoldOK(k)'
      BY <2>1, HoldKept
    <3> QED  BY <3>1, <3>2, <3>3, <3>4, <2>5 DEF HoldOK, RunIs
  <2>7. ASSUME NEW o \in Operators
        PROVE  HoldOK(op[o].hold)' /\ (op'[o].pc = "ending" => op'[o].hold.how \in Hows)
    <3> DEFINE h == op[o].hold
               g == op'[o].hold
    <3>1. HoldOK(h) /\ (op[o].pc = "ending" => h.how \in Hows)
      BY <2>4 DEF HoldsOK
    <3>2. /\ g = h \/ FreshHold(g)
          /\ op'[o].pc = "ending" => \/ op[o].pc = "ending" /\ g = h
                                     \/ \E how \in Hows : g = Seen(how)
      BY <2>2 DEF OpsStep
    <3>3. op'[o].pc = "ending" => g.how \in Hows
      BY <3>1, <3>2, <2>4, SeenIsTrue
    <3>4. \A k : HoldOK(k) => HoldOK(k)'
      BY <2>1, HoldKept
    <3>5. HoldOK(op[o].hold)'
      BY <3>1, <3>2, <3>4, <2>5 DEF HoldOK, RunIs
    <3> QED  BY <3>3, <3>5
  <2>8. HoldsOK'
    BY <2>6, <2>7 DEF HoldsOK
  <2> QED  BY <2>1, <2>3, <2>8 DEF IInv
<1>2. CASE UNCHANGED vars
  <2>1. IInv'
    BY <1>2 DEF vars, IInv, TypeOK, RowsOK, DbType, EndedHasCause, CausedIsOver, HoldsOK,
                HoldOK, RunIs
  <2>2. RowsStep
    BY <1>2, CampaignAssumption DEF vars, RowsStep, IInv, RowsOK, DbType
  <2> QED  BY <2>1, <2>2
<1> QED  BY <1>1, <1>2

\* The rows, the processes and the commands keep their types, for any number of
\* workers, commands and continuations.
THEOREM CampaignTypes == Spec => []TypeOK
<1>1. IInv => TypeOK
  BY DEF IInv
<1> QED  BY <1>1, InitIInv, NextIInv, PTL DEF Spec

\* Whoever ends a continuation as FAILED or RECOVERY_REQUIRED has recorded why,
\* and a continuation with a terminal cause is never STARTING or RUNNING again.
THEOREM ContinuationEndsForItsCause == Spec => []CauseMatchesEnd
<1>1. IInv => CauseMatchesEnd
  BY DEF IInv, RowsOK, CauseMatchesEnd
<1> QED  BY <1>1, InitIInv, NextIInv, PTL DEF Spec

\* An ended or paused continuation and a recorded cause never change.
THEOREM ContinuationEndIsFinal == Spec => EndIsFinal
<1>1. IInv /\ [Next]_vars =>
         [\A n \in Runs :
             /\ db.run[n] \in Ended \cup {"PAUSED"} => db'.run[n] = db.run[n]
             /\ db.cause[n] # "none" => db'.cause[n] = db.cause[n]]_vars
  BY NextIInv DEF RowsStep
<1> QED  BY <1>1, InitIInv, NextIInv, PTL DEF Spec, EndIsFinal

-----------------------------------------------------------------------------
(* What the resolver settled.                                               *)

\* The first bar that reaches a level is one of the bars looked at, and none of them
\* reaches a level before it.
LEMMA FirstBar ==
    ASSUME NEW bars \in SUBSET Nat, NEW stop
    PROVE  LET b == Terminal(bars, stop)
           IN  \/ b = 0 /\ \A c \in bars : ~ Hits(c, stop)
               \/ b \in bars /\ Hits(b, stop) /\ \A c \in bars : Hits(c, stop) => b <= c
<1> DEFINE hit == {b \in bars : Hits(b, stop)}
           Less == {ss \in Nat \X Nat : ss[1] < ss[2]}
<1>1. CASE hit = {}
    BY <1>1 DEF Terminal
<1>2. CASE hit # {}
  <2>1. IsWellFoundedOn(Less, Nat)
      BY NatLessThanWellFounded, Zenon DEF OpToRel
  <2>2. PICK x \in hit : \A y \in hit : ~ (<<y, x>> \in Less)
    <3> hit \subseteq Nat
        OBVIOUS
    <3> HIDE DEF hit, Less
    <3> QED BY <1>2, <2>1, WFMin, Zenon
  <2>4. ASSUME NEW y \in hit PROVE x <= y
    <3>1. y \in Nat /\ x \in Nat /\ ~ (y < x)
        BY <2>2
    <3> QED BY <3>1
  <2>3. Min(hit) \in hit /\ \A y \in hit : Min(hit) <= y
    <3> HIDE DEF hit
    <3> QED BY <2>4 DEF Min
  <2>5. Terminal(bars, stop) = Min(hit)
      BY <1>2 DEF Terminal
  <2> QED BY <2>3, <2>5
<1> QED BY <1>1, <1>2

LEMMA TerminalBar ==
    ASSUME NEW bars \in SUBSET Nat, NEW stop
    PROVE  Terminal(bars, stop) \in bars \cup {0}
    BY FirstBar

\* A closure sells what is left and keeps the stop it was taken at.
LEMMA ClosedPosition ==
    ASSUME ResolverAssumption, NEW p \in Positions, NEW reason \in Reasons, NEW at \in 0 .. Bars,
           NEW price \in Int, NEW model
    PROVE  /\ Closed(p, reason, at, price, model) \in Positions
           /\ Closed(p, reason, at, price, model).stop = p.stop
           /\ Closed(p, reason, at, price, model).rem <= p.rem
           /\ Closed(p, reason, at, price, model).status = "CLOSED"
<1> DEFINE won == p.gross + price * p.rem
           paid == IF model THEN p.cost + EntryCost * p.rem + ExitCost ELSE p.cost
<1>1. /\ p.stop \in Int /\ p.rem \in Nat /\ p.gross \in Int /\ p.cost \in Int
      /\ EntryCost \in Int /\ ExitCost \in Int
    BY DEF Positions, ResolverAssumption
<1>2. won \in Int /\ paid \in Int
  <2>1. price * p.rem \in Int /\ EntryCost * p.rem \in Int
      BY <1>1
  <2> QED BY <1>1, <2>1
<1>3. Closed(p, reason, at, price, model)
      = [p EXCEPT !.status = "CLOSED", !.reason = reason, !.exit = at, !.price = price,
                  !.gross = won, !.cost = paid, !.rem = 0]
    BY DEF Closed
<1> HIDE DEF won, paid
<1>4. Closed(p, reason, at, price, model) \in Positions
  <2> DEFINE q == [p EXCEPT !.status = "CLOSED", !.reason = reason, !.exit = at, !.price = price]
  <2>1. q \in Positions
      BY DEF Positions, PositionStatuses
  <2>2. Closed(p, reason, at, price, model) = [q EXCEPT !.gross = won, !.cost = paid, !.rem = 0]
      BY <1>3 DEF Positions
  <2> HIDE DEF q
  <2>3. [q EXCEPT !.gross = won, !.cost = paid, !.rem = 0] \in Positions
      BY <1>2, <2>1 DEF Positions
  <2> QED BY <2>2, <2>3
<1>5. /\ Closed(p, reason, at, price, model).stop = p.stop
      /\ Closed(p, reason, at, price, model).rem = 0
      /\ Closed(p, reason, at, price, model).status = "CLOSED"
    BY <1>3 DEF Positions
<1> QED BY <1>1, <1>4, <1>5

\* An action that applies never widens a stop and never buys back.
LEMMA ManagedPosition ==
    ASSUME ResolverAssumption, NEW p \in Positions, p.status = "OPEN",
           NEW a \in Requests, NEW at \in 0 .. Bars,
           a.kind = "TIGHTEN_STOP" => p.stop < a.level,
           a.kind = "PARTIAL_EXIT" => 1 < p.rem
    PROVE  /\ Managed(p, a, at) \in Positions
           /\ Managed(p, a, at).stop >= p.stop
           /\ Managed(p, a, at).rem <= p.rem
           /\ Managed(p, a, at).status \in {"OPEN", "CLOSED"}
<1>1. /\ p.stop \in Int /\ p.rem \in Nat /\ p.gross \in Int /\ p.cost \in Int
      /\ a.level \in Int /\ a.kind \in ActionKinds
    BY DEF Positions, Requests
<1>2. EntryCost \in Int /\ ExitCost \in Int
    BY DEF ResolverAssumption
<1>3. CASE a.kind = "TIGHTEN_STOP"
  <2>1. Managed(p, a, at) = [p EXCEPT !.stop = a.level]
      BY <1>3 DEF Managed, Tightened
  <2>2. [p EXCEPT !.stop = a.level] \in Positions
      BY <1>1 DEF Positions
  <2>3. /\ Managed(p, a, at).stop = a.level /\ Managed(p, a, at).rem = p.rem
        /\ Managed(p, a, at).status = "OPEN"
      BY <2>1 DEF Positions
  <2> QED BY <1>1, <1>3, <2>1, <2>2, <2>3
<1>4. CASE a.kind = "ENABLE_TRAILING"
  <2>1. Managed(p, a, at) = [p EXCEPT !.trailing = TRUE]
      BY <1>4 DEF Managed, Trailing
  <2>2. [p EXCEPT !.trailing = TRUE] \in Positions
      BY DEF Positions
  <2>3. /\ Managed(p, a, at).stop = p.stop /\ Managed(p, a, at).rem = p.rem
        /\ Managed(p, a, at).status = "OPEN"
      BY <2>1 DEF Positions
  <2> QED BY <1>1, <2>1, <2>2, <2>3
<1>5. CASE a.kind = "PARTIAL_EXIT"
  <2>1. p.rem - 1 \in Nat /\ p.gross + a.level \in Int /\ p.cost + (EntryCost + ExitCost) \in Int
      BY <1>1, <1>2, <1>5
  <2> DEFINE left == p.rem - 1
             won == p.gross + a.level
             paid == p.cost + (EntryCost + ExitCost)
  <2>2. Managed(p, a, at) = [p EXCEPT !.rem = left, !.gross = won, !.cost = paid]
      BY <1>5 DEF Managed, Reduced, SliceCost
  <2> left <= p.rem
      BY <1>1
  <2> HIDE DEF left, won, paid
  <2>3. [p EXCEPT !.rem = left, !.gross = won, !.cost = paid] \in Positions
      BY <2>1 DEF Positions, left, won, paid
  <2>4. /\ Managed(p, a, at).stop = p.stop /\ Managed(p, a, at).rem = left
        /\ Managed(p, a, at).status = "OPEN"
      BY <2>2 DEF Positions
  <2> QED BY <1>1, <2>2, <2>3, <2>4
<1>6. CASE a.kind = "PROTECTIVE_EXIT"
  <2> DEFINE known == TRUE
             price == a.level
             why == "PROTECTIVE"
             c == Closed(p, why, at, price, known)
  <2>1. Managed(p, a, at) = c
      BY <1>6 DEF Managed
  <2>2. why \in Reasons /\ price \in Int
      BY <1>1 DEF Reasons
  <2> HIDE DEF known, price, why
  <2>3. c \in Positions /\ c.stop = p.stop /\ c.rem <= p.rem /\ c.status = "CLOSED"
      BY <2>2, ClosedPosition
  <2> HIDE DEF c
  <2>4. c.stop >= p.stop
      BY <1>1, <2>3
  <2> QED BY <2>1, <2>3, <2>4
<1> QED BY <1>1, <1>3, <1>4, <1>5, <1>6 DEF ActionKinds

\* A candle closes an open position and leaves any other as it is.
LEMMA ResolvedPosition ==
    ASSUME ResolverAssumption, ResolverTypeOK, NEW w \in Tickers, NEW t \in Trades, NEW p \in Positions
    PROVE  /\ Resolved(w, t, p) \in Positions
           /\ Resolved(w, t, p).stop = p.stop
           /\ Resolved(w, t, p).rem <= p.rem
           /\ p.status # "OPEN" => Resolved(w, t, p) = p
<1> DEFINE bars == PositionBars(w, t, p)
           b == ExitBar(w, t, p)
<1>0. /\ p.stop \in Int /\ p.rem \in Nat /\ p.gross \in Int /\ p.cost \in Int /\ p.at \in Nat
      /\ EntryCost \in Int /\ ExitCost \in Int /\ Target \in Int /\ Bars \in Nat
      /\ tick[w].until \in 0 .. Bars
    BY DEF Positions, ResolverAssumption, ResolverTypeOK, TickStates
<1>1. bars \in SUBSET (1 .. Bars)
    BY <1>0 DEF PositionBars, BarsSeen
<1>2. b \in 0 .. Bars /\ (p.status # "OPEN" => b = 0)
  <2>1. Terminal(bars, p.stop) \in bars \cup {0}
      BY <1>1, TerminalBar
  <2>2. Terminal(bars, p.stop) \in 0 .. Bars
      BY <1>0, <1>1, <2>1
  <2> QED BY <1>0, <2>2 DEF ExitBar
<1>3. CASE b = 0
    BY <1>0, <1>3 DEF Resolved
<1>4. CASE b # 0
  <2> DEFINE price == IF HitsStop(b, p.stop) THEN p.stop ELSE Target
  <2>1. PICK reason \in Reasons : Resolved(w, t, p) = Closed(p, reason, b, price, p.costed)
      BY <1>4 DEF Resolved, Reasons
  <2>2. price \in Int
      BY <1>0
  <2> HIDE DEF price, b
  <2>3. p.costed \in BOOLEAN /\ (p.status # "OPEN" => b = 0)
      BY <1>2 DEF Positions
  <2> QED BY <1>0, <1>2, <1>4, <2>1, <2>2, <2>3, ClosedPosition
<1> QED BY <1>3, <1>4

\* A label is judged once.
LEMMA LabelledRow ==
    ASSUME ResolverTypeOK, NEW w \in Tickers, NEW l \in Labels
    PROVE  /\ Labelled(w, l) \in LabelRows
           /\ label[l].status # "PENDING" => Labelled(w, l) = label[l]
<1>1. label[l] \in LabelRows
    BY DEF ResolverTypeOK
<1>2. \A b : ForwardLabel(b) \in Results
    BY DEF ForwardLabel, Results
<1> DEFINE b == Terminal(LabelBars(w, l), Stop0)
           result == ForwardLabel(b)
<1>3. /\ [label[l] EXCEPT !.status = "FAILED"] \in LabelRows
      /\ \A s \in LabelStatuses : [label[l] EXCEPT !.result = result, !.status = s] \in LabelRows
    BY <1>1, <1>2 DEF LabelRows, LabelStatuses
<1>4. (IF result = "AMBIGUOUS" THEN "AMBIGUOUS" ELSE IF label[l].costed THEN "RESOLVED" ELSE "FAILED")
         \in LabelStatuses
    BY DEF LabelStatuses
<1> HIDE DEF result
<1>5. Labelled(w, l) \in LabelRows
    BY <1>1, <1>3, <1>4 DEF Labelled, result
<1> QED BY <1>5 DEF Labelled

\* What a tick's commit makes of a position.
LEMMA CommittedPosition ==
    ASSUME ResolverAssumption, ResolverTypeOK, NEW w \in Tickers, ~ Rejected(w), NEW t \in Trades
    PROVE  LET p == Resolved(w, t, ManagedPos(w)[t]) IN
           /\ p \in Positions
           /\ p.stop >= pos[t].stop /\ p.rem <= pos[t].rem
           /\ pos[t].status # "OPEN" => p = pos[t]
<1> DEFINE m == ManagedPos(w)[t]
           p == Resolved(w, t, m)
<1>1. pos[t] \in Positions /\ pos[t].stop \in Int /\ pos[t].rem \in Nat
    BY DEF ResolverTypeOK, Positions
<1>2. m \in Positions /\ m.stop >= pos[t].stop /\ m.rem <= pos[t].rem
      /\ (pos[t].status # "OPEN" => m = pos[t])
  <2>1. CASE \E a \in Requested(w) : a.trade = t
    <3> DEFINE a == CHOOSE a \in Requested(w) : a.trade = t
    <3>1. a \in Requested(w) /\ a.trade = t
        BY <2>1
    <3> HIDE DEF a
    <3>2. Applicable(a) /\ a \in Requests /\ tick[w].until \in 0 .. Bars
        BY <3>1 DEF Rejected, Requested, ResolverTypeOK, TickStates
    <3>3. /\ pos[t].status = "OPEN"
          /\ a.kind = "TIGHTEN_STOP" => pos[t].stop < a.level
          /\ a.kind = "PARTIAL_EXIT" => 1 < pos[t].rem
        BY <3>1, <3>2 DEF Applicable
    <3>4. m = Managed(pos[t], a, tick[w].until)
        BY <2>1 DEF ManagedPos, a
    <3> HIDE DEF m
    <3> QED BY <1>1, <3>2, <3>3, <3>4, ManagedPosition
  <2>2. CASE ~ \E a \in Requested(w) : a.trade = t
      BY <1>1, <2>2 DEF ManagedPos
  <2> QED BY <2>1, <2>2
<1> HIDE DEF m
<1>3. m.rem \in Nat
    BY <1>2 DEF Positions
<1>4. /\ p \in Positions /\ p.stop = m.stop /\ p.rem <= m.rem
      /\ m.status # "OPEN" => p = m
    BY <1>2, ResolvedPosition
<1>5. p.rem \in Nat
    BY <1>4 DEF Positions
<1> HIDE DEF p
<1>6. p \in Positions /\ p.stop >= pos[t].stop /\ p.rem <= pos[t].rem
      /\ (pos[t].status # "OPEN" => p = pos[t])
    BY <1>1, <1>2, <1>3, <1>4, <1>5
<1> QED BY <1>6 DEF p, m

\* What a tick's commit makes of the rows it settles.
LEMMA CommitSettles ==
    ASSUME ResolverAssumption, ResolverTypeOK, NEW w \in Tickers, TickCommitted(w)
    PROVE  /\ ResolverTypeOK'
           /\ \A t \in Trades :
                /\ pos[t].status # "OPEN" => pos'[t] = pos[t] /\ outcome'[t] = outcome[t]
                /\ pos'[t].stop >= pos[t].stop /\ pos'[t].rem <= pos[t].rem
           /\ \A e \in Events : events[e] # NoEvent => events'[e] = events[e]
           /\ \A l \in Labels : label[l].status # "PENDING" => label'[l] = label[l]
           /\ expectancy \subseteq expectancy'
<1>1. ~ Rejected(w)
    BY DEF TickCommitted
<1>2. pos' = [t \in Trades |-> Resolved(w, t, ManagedPos(w)[t])]
    BY DEF TickCommitted
<1>3. label' = [l \in Labels |-> Labelled(w, l)]
    BY DEF TickCommitted
<1>4. /\ pos' \in [Trades -> Positions]
      /\ \A t \in Trades : /\ pos'[t].stop >= pos[t].stop /\ pos'[t].rem <= pos[t].rem
                           /\ pos[t].status # "OPEN" => pos'[t] = pos[t]
    BY <1>1, <1>2, CommittedPosition
<1>5. /\ label' \in [Labels -> LabelRows]
      /\ \A l \in Labels : label[l].status # "PENDING" => label'[l] = label[l]
    BY <1>3, LabelledRow
<1>6. \A t \in Trades : pos[t].status # "OPEN" => outcome'[t] = outcome[t]
    BY DEF TickCommitted
<1>7. \A e \in Events : events[e] # NoEvent => events'[e] = events[e]
    BY <1>1 DEF TickCommitted, ManagedEvents, Rejected, Applicable
<1>8. expectancy \subseteq expectancy'
    BY DEF TickCommitted
<1>9. ResolverTypeOK'
  <2>1. now' = now /\ canonical' = canonical /\ tick' = [tick EXCEPT ![w] = NoTick]
      BY DEF TickCommitted
  <2>2. NoTick \in TickStates
      BY DEF NoTick, TickStates, ResolverAssumption
  <2>3. tick' \in [Tickers -> TickStates]
      BY <2>1, <2>2 DEF ResolverTypeOK
  <2> QED BY <1>4, <1>5, <2>1, <2>3 DEF ResolverTypeOK
<1> QED BY <1>4, <1>5, <1>6, <1>7, <1>8, <1>9

LEMMA EmptyRows ==
    ASSUME ResolverAssumption
    PROVE  NoPosition \in Positions /\ NoLabel \in LabelRows /\ NoTick \in TickStates
<1>1. Bars \in Nat /\ Stop0 \in Int
    BY DEF ResolverAssumption
<1> QED BY <1>1 DEF NoPosition, Positions, PositionStatuses, Reasons, NoLabel, LabelRows, LabelStatuses,
                    Results, NoTick, TickStates

\* The runtime's rows and the reads of a tick settle nothing.
LEMMA OtherResolverSteps ==
    ASSUME ResolverAssumption, ResolverTypeOK,
           \/ CandleCloses
           \/ \E t \in Trades : PersistPosition(t)
           \/ \E l \in Labels : PersistRejectObservation(l) \/ PersistRejectLabel(l)
           \/ \E w \in Tickers : TickRead(w) \/ TickFetched(w) \/ TickAborted(w)
    PROVE  /\ ResolverTypeOK'
           /\ events' = events /\ outcome' = outcome /\ expectancy' = expectancy
           /\ \A t \in Trades : pos[t].status # "NONE" => pos'[t] = pos[t]
           /\ \A l \in Labels : label[l].status # "NONE" => label'[l] = label[l]
<1>0. /\ Bars \in Nat /\ Horizon \in Nat /\ Quantity \in Nat /\ Stops \subseteq Int /\ Prices \subseteq Int
      /\ Evidence \subseteq BOOLEAN \X BOOLEAN
      /\ now \in 0 .. Bars /\ pos \in [Trades -> Positions] /\ canonical \in [Labels -> 0 .. 2]
      /\ label \in [Labels -> LabelRows] /\ tick \in [Tickers -> TickStates]
    BY DEF ResolverAssumption, ResolverTypeOK
<1>1. CASE CandleCloses
  <2>1. now' \in 0 .. Bars
      BY <1>0, <1>1 DEF CandleCloses
  <2> QED BY <1>0, <1>1, <2>1 DEF CandleCloses, ledger, ResolverTypeOK
<1>2. ASSUME NEW t \in Trades, PersistPosition(t)
      PROVE  /\ ResolverTypeOK'
             /\ events' = events /\ outcome' = outcome /\ expectancy' = expectancy /\ label' = label
             /\ \A u \in Trades : pos[u].status # "NONE" => pos'[u] = pos[u]
  <2>1. PICK ev \in Evidence : pos' = [pos EXCEPT ![t] = [NoPosition EXCEPT
              !.status = "OPEN", !.at = now, !.rem = Quantity, !.costed = ev[1], !.linked = ev[2]]]
      BY <1>2 DEF PersistPosition
  <2>2. ev[1] \in BOOLEAN /\ ev[2] \in BOOLEAN
      BY <1>0
  <2> DEFINE p == [NoPosition EXCEPT
              !.status = "OPEN", !.at = now, !.rem = Quantity, !.costed = ev[1], !.linked = ev[2]]
  <2>3. p \in Positions
      BY <1>0, <2>2, EmptyRows DEF Positions, PositionStatuses
  <2> HIDE DEF p
  <2>4. pos' = [pos EXCEPT ![t] = p]
      BY <2>1 DEF p
  <2>5. pos[t].status = "NONE" /\ UNCHANGED <<now, events, outcome, label, expectancy, canonical, tick>>
      BY <1>2 DEF PersistPosition
  <2> QED BY <1>0, <2>3, <2>4, <2>5 DEF ResolverTypeOK
<1>3. ASSUME NEW l \in Labels, PersistRejectObservation(l)
      PROVE  ResolverTypeOK' /\ UNCHANGED ledger
  <2>1. canonical[l] \in {0, 1} /\ canonical' = [canonical EXCEPT ![l] = @ + 1]
      BY <1>3 DEF PersistRejectObservation
  <2>2. canonical' \in [Labels -> 0 .. 2]
      BY <1>0, <2>1
  <2> QED BY <1>0, <1>3, <2>2 DEF PersistRejectObservation, ledger, ResolverTypeOK
<1>4. ASSUME NEW l \in Labels, PersistRejectLabel(l)
      PROVE  /\ ResolverTypeOK'
             /\ events' = events /\ outcome' = outcome /\ expectancy' = expectancy /\ pos' = pos
             /\ \A k \in Labels : label[k].status # "NONE" => label'[k] = label[k]
  <2>1. PICK ev \in Evidence : label' = [label EXCEPT ![l] = [NoLabel EXCEPT
              !.status = "PENDING", !.at = now, !.costed = ev[1], !.authoritative = ev[2]]]
      BY <1>4 DEF PersistRejectLabel
  <2>2. ev[1] \in BOOLEAN /\ ev[2] \in BOOLEAN
      BY <1>0
  <2> DEFINE p == [NoLabel EXCEPT
              !.status = "PENDING", !.at = now, !.costed = ev[1], !.authoritative = ev[2]]
  <2>3. p \in LabelRows
      BY <1>0, <2>2, EmptyRows DEF LabelRows, LabelStatuses
  <2> HIDE DEF p
  <2>4. label' = [label EXCEPT ![l] = p]
      BY <2>1 DEF p
  <2>5. label[l].status = "NONE" /\ UNCHANGED <<now, pos, events, outcome, expectancy, canonical, tick>>
      BY <1>4 DEF PersistRejectLabel
  <2> QED BY <1>0, <2>3, <2>4, <2>5 DEF ResolverTypeOK
<1>5. ASSUME NEW w \in Tickers, NEW k \in TickStates, tick' = [tick EXCEPT ![w] = k],
             UNCHANGED <<market, now, ledger, canonical>>
      PROVE  ResolverTypeOK' /\ UNCHANGED ledger
    BY <1>0, <1>5 DEF ResolverTypeOK, ledger
<1>6. ASSUME NEW w \in Tickers, TickRead(w)
      PROVE  ResolverTypeOK' /\ UNCHANGED ledger
  <2> DEFINE k == [NoTick EXCEPT !.pc = "fetch", !.open = OpenTrades, !.due = {l \in Labels : Due(l)}]
  <2>1. k \in TickStates
      BY EmptyRows DEF TickStates, OpenTrades
  <2>2. tick' = [tick EXCEPT ![w] = k] /\ UNCHANGED <<market, now, ledger, canonical>>
      BY <1>6 DEF TickRead
  <2> HIDE DEF k
  <2> QED BY <1>5, <2>1, <2>2
<1>7. ASSUME NEW w \in Tickers, TickFetched(w)
      PROVE  ResolverTypeOK' /\ UNCHANGED ledger
  <2>1. PICK missing \in Gaps, bad \in BOOLEAN, actions \in {{}} \cup {{a} : a \in Proposals(w)} :
            tick' = [tick EXCEPT ![w].pc = "commit", ![w].until = now,
                        ![w].missing = missing, ![w].bad = bad, ![w].actions = actions]
      BY <1>7 DEF TickFetched
  <2>2. Proposals(w) \subseteq Requests
    <3>1. tick[w].open \subseteq Trades
        BY <1>0 DEF TickStates
    <3>2. 0 \in Int /\ {"TIGHTEN_STOP"} \subseteq ActionKinds /\ {"ENABLE_TRAILING"} \subseteq ActionKinds
          /\ {"PARTIAL_EXIT", "PROTECTIVE_EXIT"} \subseteq ActionKinds
        BY DEF ActionKinds
    <3>3. [trade : tick[w].open, id : Events, kind : {"TIGHTEN_STOP"}, level : Stops, seen : Prices]
            \subseteq Requests
        BY <1>0, <3>1, <3>2 DEF Requests
    <3>4. [trade : tick[w].open, id : Events, kind : {"PARTIAL_EXIT", "PROTECTIVE_EXIT"},
            level : Prices, seen : {0}] \subseteq Requests
        BY <1>0, <3>1, <3>2 DEF Requests
    <3>5. [trade : tick[w].open, id : Events, kind : {"ENABLE_TRAILING"}, level : {0}, seen : {0}]
            \subseteq Requests
        BY <1>0, <3>1, <3>2 DEF Requests
    <3> QED BY <3>3, <3>4, <3>5 DEF Proposals
  <2>3. actions \in SUBSET Requests /\ missing \in SUBSET (1 .. Bars)
      BY <1>0, <2>2 DEF Gaps
  <2> DEFINE k == [tick[w] EXCEPT !.pc = "commit", !.until = now, !.missing = missing, !.bad = bad,
                                  !.actions = actions]
  <2>4. k \in TickStates
    <3>1. tick[w] \in TickStates
        BY <1>0
    <3> QED BY <1>0, <2>3, <3>1 DEF TickStates
  <2>5. tick' = [tick EXCEPT ![w] = k]
      BY <1>0, <2>1
  <2>6. UNCHANGED <<market, now, ledger, canonical>>
      BY <1>7 DEF TickFetched
  <2> HIDE DEF k
  <2> QED BY <1>5, <2>4, <2>5, <2>6
<1>8. ASSUME NEW w \in Tickers, TickAborted(w)
      PROVE  ResolverTypeOK' /\ UNCHANGED ledger
    BY <1>5, <1>8, EmptyRows DEF TickAborted
<1> QED BY <1>1, <1>2, <1>3, <1>4, <1>6, <1>7, <1>8 DEF CandleCloses, ledger

\* One step of the resolver and of what writes for it.
Settles ==
    /\ \A t \in Trades :
          /\ pos[t].status = "CLOSED" => pos'[t] = pos[t] /\ outcome'[t] = outcome[t]
          /\ pos[t].status = "OPEN" => pos'[t].stop >= pos[t].stop /\ pos'[t].rem <= pos[t].rem
    /\ \A e \in Events : events[e] # NoEvent => events'[e] = events[e]
    /\ \A l \in Labels :
          label[l].status \in {"RESOLVED", "AMBIGUOUS", "FAILED"} => label'[l] = label[l]
    /\ expectancy \subseteq expectancy'

LEMMA ResolverStep ==
    ASSUME ResolverAssumption, ResolverTypeOK, [ResolverNext]_resolverVars
    PROVE  ResolverTypeOK' /\ Settles
<1>0. \A t \in Trades : pos[t].stop \in Int /\ pos[t].rem \in Nat
    BY DEF ResolverTypeOK, Positions
<1>1. ASSUME NEW w \in Tickers, TickCommitted(w) PROVE ResolverTypeOK' /\ Settles
    BY <1>1, CommitSettles DEF Settles
<1>2. CASE \/ CandleCloses
           \/ \E t \in Trades : PersistPosition(t)
           \/ \E l \in Labels : PersistRejectObservation(l) \/ PersistRejectLabel(l)
           \/ \E w \in Tickers : TickRead(w) \/ TickFetched(w) \/ TickAborted(w)
  <2>1. /\ ResolverTypeOK'
        /\ events' = events /\ outcome' = outcome /\ expectancy' = expectancy
        /\ \A t \in Trades : pos[t].status # "NONE" => pos'[t] = pos[t]
        /\ \A l \in Labels : label[l].status # "NONE" => label'[l] = label[l]
      BY <1>2, OtherResolverSteps
  <2> QED BY <1>0, <2>1 DEF Settles
<1>3. CASE UNCHANGED resolverVars
    BY <1>0, <1>3 DEF resolverVars, ledger, ResolverTypeOK, Settles
<1> QED BY <1>1, <1>2, <1>3 DEF ResolverNext

\* The rows keep their shape, and nothing left of a position is negative
\* (burnin_pending_position_outcomes, burnin_pending_reject_labels).
THEOREM ResolverTypes == ResolverSpec => []ResolverTypeOK
<1>1. ResolverInit => ResolverTypeOK
  <2>1. ResolverAssumption => 0 \in 0 .. Bars
      BY DEF ResolverAssumption
  <2> QED BY <2>1, ResolverAssumption, EmptyRows DEF ResolverInit, ResolverTypeOK
<1>2. ResolverTypeOK /\ [ResolverNext]_resolverVars => ResolverTypeOK'
    BY ResolverAssumption, ResolverStep
<1> QED BY <1>1, <1>2, PTL DEF ResolverSpec

\* However many processes tick from old reads, replay events and abort, a closed
\* position, an outcome, a judged label and an event stay as they are, no stop
\* is widened and nothing leaves the expectancy evidence (resolver_tick,
\* apply_position_management_action, resolve_position_closure).
THEOREM SettledStands == ResolverSpec => SettledIsFinal
<1>1. ResolverTypeOK /\ [ResolverNext]_resolverVars => [Settles]_resolverVars
    BY ResolverAssumption, ResolverStep
<1>2. ResolverSpec => [][Settles]_resolverVars
    BY <1>1, ResolverTypes, PTL DEF ResolverSpec
<1> QED BY <1>2 DEF SettledIsFinal, Settles

-----------------------------------------------------------------------------
(* Results are those of the whole market.                                   *)

\* A reader of every bar of a window stops where a reader of some of them did, if
\* none is missing up to there.
LEMMA SameFirstBar ==
    ASSUME NEW all \in SUBSET (Nat \ {0}), NEW bars \in SUBSET all, NEW stop,
           LET b == Terminal(bars, stop)
           IN  b # 0 => \A c \in all : c <= b => c \in bars,
           Terminal(bars, stop) = 0 => bars = all
    PROVE  Terminal(all, stop) = Terminal(bars, stop)
<1> DEFINE b == Terminal(bars, stop)
           a == Terminal(all, stop)
<1>1. CASE b = 0
    BY <1>1
<1>2. CASE b # 0
  <2>1. b \in bars /\ Hits(b, stop) /\ \A c \in bars : Hits(c, stop) => b <= c
      BY <1>2, FirstBar
  <2>2. a \in all /\ Hits(a, stop) /\ \A c \in all : Hits(c, stop) => a <= c
    <3>1. all \in SUBSET Nat /\ b \in all
        BY <2>1
    <3> QED BY <2>1, <3>1, FirstBar
  <2>3. a <= b /\ a \in bars
      BY <1>2, <2>1, <2>2
  <2>4. b <= a /\ a \in Nat /\ b \in Nat
      BY <2>1, <2>2, <2>3
  <2> HIDE DEF a, b
  <2> QED BY <2>3, <2>4 DEF a, b
<1> QED BY <1>1, <1>2

\* Nothing has a result before it is settled.
Unsettled ==
    /\ \A t \in Trades : pos[t].status # "CLOSED" => pos[t].reason = "NONE"
    /\ \A l \in Labels : label[l].status \in {"NONE", "PENDING"} => label[l].result = "NONE"
ResultsInv == ResolverTypeOK /\ Unsettled /\ ResultsMatchMarket

\* A position closed by the market, and one managed before that.
FirstHit(p) ==
    p.reason \in {"SL_HIT", "TP_HIT", "AMBIGUOUS"} => p.exit = Terminal((p.at + 1) .. Bars, p.stop)
OpenOrEnded(p) == p.status # "CLOSED" => p.reason = "NONE"

LEMMA ManagedResult ==
    ASSUME NEW p \in Positions, p.status = "OPEN", p.reason = "NONE", NEW a \in Requests, NEW at
    PROVE  FirstHit(Managed(p, a, at)) /\ OpenOrEnded(Managed(p, a, at))
<1>1. a.kind \in ActionKinds
    BY DEF Requests
<1>2. CASE a.kind = "PROTECTIVE_EXIT"
  <2>1. Managed(p, a, at).reason = "PROTECTIVE" /\ Managed(p, a, at).status = "CLOSED"
      BY <1>2 DEF Managed, Closed, Positions
  <2> QED BY <2>1 DEF FirstHit, OpenOrEnded
<1>3. CASE a.kind # "PROTECTIVE_EXIT"
  <2>1. Managed(p, a, at).reason = "NONE"
      BY <1>1, <1>3 DEF Managed, ActionKinds, Tightened, Trailing, Reduced, Positions
  <2> QED BY <2>1 DEF FirstHit, OpenOrEnded
<1> QED BY <1>2, <1>3

LEMMA ResolvedResult ==
    ASSUME ResolverAssumption, ResolverTypeOK, NEW w \in Tickers, NEW t \in Trades, NEW p \in Positions,
           FirstHit(p), OpenOrEnded(p)
    PROVE  FirstHit(Resolved(w, t, p)) /\ OpenOrEnded(Resolved(w, t, p))
<1> DEFINE bars == PositionBars(w, t, p)
           all == (p.at + 1) .. Bars
           b == ExitBar(w, t, p)
<1>1. p.at \in Nat /\ Bars \in Nat /\ tick[w].until \in 0 .. Bars
    BY DEF Positions, ResolverAssumption, ResolverTypeOK, TickStates
<1>2. bars \in SUBSET all /\ all \in SUBSET (Nat \ {0})
    BY <1>1 DEF PositionBars, BarsSeen
<1>3. CASE b = 0
    BY <1>3 DEF Resolved
<1>4. CASE b # 0
  <2>1. p.status = "OPEN" /\ b = Terminal(bars, p.stop) /\ ((p.at + 1) .. b) \subseteq bars
      BY <1>4 DEF ExitBar, WindowComplete
  <2>2. b \in bars /\ b \in Nat
      BY <1>2, <1>4, <2>1, TerminalBar
  <2>3. \A c \in all : c <= b => c \in bars
      BY <1>1, <2>1, <2>2
  <2>4. Terminal(all, p.stop) = b
    <3> HIDE DEF bars, all, b
    <3> QED BY <1>2, <1>4, <2>1, <2>3, SameFirstBar
  <2>5. /\ Resolved(w, t, p).exit = b /\ Resolved(w, t, p).status = "CLOSED"
        /\ Resolved(w, t, p).at = p.at /\ Resolved(w, t, p).stop = p.stop
    <3>1. \E reason, price : Resolved(w, t, p) = Closed(p, reason, b, price, p.costed)
        BY <1>4 DEF Resolved
    <3> HIDE DEF b
    <3> QED BY <3>1 DEF Closed, Positions
  <2> HIDE DEF bars, b
  <2> QED BY <2>4, <2>5 DEF FirstHit, OpenOrEnded
<1> QED BY <1>3, <1>4

\* What a commit makes of a position and of a label.
LEMMA CommittedResult ==
    ASSUME ResolverAssumption, ResultsInv, NEW w \in Tickers, ~ Rejected(w), NEW t \in Trades
    PROVE  LET p == Resolved(w, t, ManagedPos(w)[t])
           IN  FirstHit(p) /\ (p.status # "CLOSED" => p.reason = "NONE")
<1> DEFINE m == ManagedPos(w)[t]
           p == Resolved(w, t, m)
<1>1. pos[t] \in Positions /\ ResolverTypeOK /\ FirstHit(pos[t])
      /\ (pos[t].status # "CLOSED" => pos[t].reason = "NONE")
    BY DEF ResultsInv, ResolverTypeOK, Unsettled, ResultsMatchMarket, ExitAtFirstHit, FirstHit
<1>2. m \in Positions /\ FirstHit(m) /\ OpenOrEnded(m)
  <2>1. CASE \E a \in Requested(w) : a.trade = t
    <3> DEFINE a == CHOOSE a \in Requested(w) : a.trade = t
    <3>1. a \in Requested(w) /\ a.trade = t
        BY <2>1
    <3> HIDE DEF a
    <3>2. Applicable(a) /\ a \in Requests /\ tick[w].until \in 0 .. Bars
        BY <1>1, <3>1 DEF Rejected, Requested, ResolverTypeOK, TickStates
    <3>3. /\ pos[t].status = "OPEN" /\ pos[t].reason = "NONE"
          /\ a.kind = "TIGHTEN_STOP" => pos[t].stop < a.level
          /\ a.kind = "PARTIAL_EXIT" => 1 < pos[t].rem
        BY <1>1, <3>1, <3>2 DEF Applicable
    <3>4. m = Managed(pos[t], a, tick[w].until)
        BY <2>1 DEF ManagedPos, a
    <3>5. m \in Positions /\ m.status \in {"OPEN", "CLOSED"}
      <4> HIDE DEF m
      <4> QED BY <1>1, <3>2, <3>3, <3>4, ManagedPosition
    <3> HIDE DEF m
    <3> QED BY <1>1, <3>2, <3>3, <3>4, <3>5, ManagedResult
  <2>2. CASE ~ \E a \in Requested(w) : a.trade = t
    <3>1. m = pos[t]
        BY <2>2 DEF ManagedPos
    <3> HIDE DEF m
    <3> QED BY <1>1, <3>1 DEF OpenOrEnded
  <2> QED BY <2>1, <2>2
<1> HIDE DEF m
<1>3. FirstHit(p) /\ OpenOrEnded(p)
    BY <1>1, <1>2, ResolvedResult
<1> QED BY <1>3 DEF OpenOrEnded, p, m

Judges(row) ==
    row.result # "NONE" =>
        row.result = ForwardLabel(Terminal((row.at + 1) .. (row.at + Horizon), Stop0))

LEMMA LabelledResult ==
    ASSUME ResolverAssumption, ResultsInv, NEW w \in Tickers, NEW l \in Labels
    PROVE  /\ Judges(Labelled(w, l))
           /\ Labelled(w, l).status \in {"NONE", "PENDING"} => Labelled(w, l).result = "NONE"
<1> DEFINE row == label[l]
           bars == LabelBars(w, l)
           all == (row.at + 1) .. (row.at + Horizon)
           b == Terminal(bars, Stop0)
           whole == WindowComplete(w, bars, row.at, IF b = 0 THEN row.at + Horizon ELSE b)
           status == IF ForwardLabel(b) = "AMBIGUOUS" THEN "AMBIGUOUS"
                     ELSE IF row.costed THEN "RESOLVED" ELSE "FAILED"
<1>1. /\ row \in LabelRows /\ Judges(row) /\ row.at \in Nat /\ Horizon \in Nat
      /\ row.status \in {"NONE", "PENDING"} => row.result = "NONE"
  <2>1. row \in LabelRows /\ Horizon \in Nat /\ Bars \in Nat
      BY DEF ResultsInv, ResolverTypeOK, ResolverAssumption
  <2>2. row.at \in Nat
      BY <2>1 DEF LabelRows
  <2> QED BY <2>1, <2>2 DEF ResultsInv, Unsettled, ResultsMatchMarket, LabelMatchesMarket, Judges
<1>2. bars \in SUBSET all /\ all \in SUBSET (Nat \ {0})
    BY <1>1 DEF LabelBars, BarsSeen
<1>3. CASE Labelled(w, l) = row
    BY <1>1, <1>3
<1>4. CASE row.status = "PENDING" /\ Labelled(w, l) = [row EXCEPT !.status = "FAILED"]
  <2>1. Labelled(w, l).result = "NONE" /\ Labelled(w, l).status = "FAILED"
      BY <1>1, <1>4 DEF LabelRows
  <2> QED BY <2>1 DEF Judges
<1>5. CASE whole /\ Labelled(w, l) = [row EXCEPT !.result = ForwardLabel(b), !.status = status]
  <2>1. Terminal(all, Stop0) = b
    <3>1. b # 0 => b \in Nat /\ (row.at + 1) .. b \subseteq bars
        BY <1>2, <1>5, TerminalBar DEF WindowComplete
    <3>2. b # 0 => \A c \in all : c <= b => c \in bars
        BY <1>1, <3>1
    <3>3. b = 0 => bars = all
        BY <1>2, <1>5 DEF WindowComplete
    <3> HIDE DEF bars, all
    <3> QED BY <1>2, <3>2, <3>3, SameFirstBar
  <2>2. Labelled(w, l).result = ForwardLabel(b) /\ Labelled(w, l).at = row.at
        /\ Labelled(w, l).status \notin {"NONE", "PENDING"}
    <3> HIDE DEF b
    <3> QED BY <1>1, <1>5 DEF LabelRows
  <2> HIDE DEF b, bars
  <2> QED BY <2>1, <2>2 DEF Judges
<1> HIDE DEF status
<1>6. \/ Labelled(w, l) = row
      \/ row.status = "PENDING" /\ Labelled(w, l) = [row EXCEPT !.status = "FAILED"]
      \/ whole /\ Labelled(w, l) = [row EXCEPT !.result = ForwardLabel(b), !.status = status]
    BY DEF Labelled, status
<1> QED BY <1>3, <1>4, <1>5, <1>6

LEMMA SameMarket ==
    ASSUME market' = market, NEW bars, NEW stop
    PROVE  Terminal(bars, stop)' = Terminal(bars, stop)
<1>1. \A b : Hits(b, stop)' <=> Hits(b, stop)
    BY DEF Hits, HitsStop, HitsTarget
<1>2. {b \in bars : Hits(b, stop)'} = {b \in bars : Hits(b, stop)}
    BY <1>1
<1> QED BY <1>2 DEF Terminal

LEMMA ResultsStep ==
    ASSUME ResolverAssumption, ResultsInv, [ResolverNext]_resolverVars
    PROVE  ResultsInv'
<1>0. ResolverTypeOK /\ ResolverTypeOK' /\ market' = market
  <2>1. market' = market
      BY DEF ResolverNext, CandleCloses, PersistPosition, PersistRejectObservation, PersistRejectLabel,
             TickRead, TickFetched, TickCommitted, TickAborted, resolverVars
  <2> QED BY <2>1, ResolverStep DEF ResultsInv
<1>1. ASSUME /\ \A t \in Trades : /\ FirstHit(pos'[t])
                                  /\ pos'[t].status # "CLOSED" => pos'[t].reason = "NONE"
             /\ \A l \in Labels : /\ Judges(label'[l])
                                  /\ label'[l].status \in {"NONE", "PENDING"} => label'[l].result = "NONE"
      PROVE  ResultsInv'
  <2>1. ExitAtFirstHit'
    <3>1. \A t \in Trades : FirstHit(pos'[t])
        BY <1>1
    <3> QED BY <1>0, <3>1, SameMarket DEF FirstHit, ExitAtFirstHit
  <2>2. \A b : ForwardLabel(b)' = ForwardLabel(b)
      BY <1>0 DEF ForwardLabel, Ambiguous, HitsStop, HitsTarget
  <2>3. LabelMatchesMarket'
      BY <1>0, <1>1, <2>2, SameMarket DEF Judges, LabelMatchesMarket
  <2>4. Unsettled'
      BY <1>1 DEF Unsettled
  <2> QED BY <1>0, <2>1, <2>3, <2>4 DEF ResultsInv, ResultsMatchMarket
<1>2. /\ \A t \in Trades : /\ FirstHit(pos[t])
                           /\ pos[t].status # "CLOSED" => pos[t].reason = "NONE"
      /\ \A l \in Labels : /\ Judges(label[l])
                           /\ label[l].status \in {"NONE", "PENDING"} => label[l].result = "NONE"
    BY DEF ResultsInv, Unsettled, ResultsMatchMarket, ExitAtFirstHit, LabelMatchesMarket, FirstHit, Judges
<1>3. ASSUME NEW w \in Tickers, TickCommitted(w) PROVE ResultsInv'
  <2>1. ~ Rejected(w) /\ pos' = [t \in Trades |-> Resolved(w, t, ManagedPos(w)[t])]
        /\ label' = [l \in Labels |-> Labelled(w, l)]
      BY <1>3 DEF TickCommitted
  <2>2. \A t \in Trades : /\ FirstHit(pos'[t])
                          /\ pos'[t].status # "CLOSED" => pos'[t].reason = "NONE"
      BY <2>1, CommittedResult
  <2>3. \A l \in Labels : /\ Judges(label'[l])
                          /\ label'[l].status \in {"NONE", "PENDING"} => label'[l].result = "NONE"
      BY <2>1, LabelledResult
  <2> QED BY <1>1, <2>2, <2>3
<1>4. ASSUME NEW t \in Trades, PersistPosition(t) PROVE ResultsInv'
  <2>1. \A u \in Trades : pos'[u] = pos[u] \/ pos'[u].reason = "NONE"
      BY <1>0, <1>4 DEF PersistPosition, NoPosition, ResolverTypeOK
  <2>2. label' = label
      BY <1>4 DEF PersistPosition
  <2>3. \A u \in Trades : FirstHit(pos'[u]) /\ (pos'[u].status # "CLOSED" => pos'[u].reason = "NONE")
      BY <1>2, <2>1 DEF FirstHit
  <2> QED BY <1>1, <1>2, <2>2, <2>3
<1>5. ASSUME NEW l \in Labels, PersistRejectLabel(l) PROVE ResultsInv'
  <2>1. \A k \in Labels : label'[k] = label[k] \/ label'[k].result = "NONE"
      BY <1>0, <1>5 DEF PersistRejectLabel, NoLabel, ResolverTypeOK
  <2>2. pos' = pos
      BY <1>5 DEF PersistRejectLabel
  <2>3. \A k \in Labels : Judges(label'[k])
                          /\ (label'[k].status \in {"NONE", "PENDING"} => label'[k].result = "NONE")
      BY <1>2, <2>1 DEF Judges
  <2> QED BY <1>1, <1>2, <2>2, <2>3
<1>6. CASE UNCHANGED <<pos, label>>
    BY <1>1, <1>2, <1>6
<1> QED BY <1>3, <1>4, <1>5, <1>6 DEF ResolverNext, CandleCloses, PersistRejectObservation, TickRead,
           TickFetched, TickAborted, ledger, resolverVars

\* Whatever bars the answers lacked and whichever process settled: a position closed
\* by the market was closed on the first candle that reached its stop or its target
\* (_window_complete), and a judged label is that of its whole forward window
\* (evaluate_forward_outcome).
THEOREM ResultsAreTheMarkets == ResolverSpec => []ResultsMatchMarket
<1>1. ResolverInit => ResultsInv
  <2>1. ResolverInit => ResolverTypeOK
    <3>1. ResolverAssumption => 0 \in 0 .. Bars
        BY DEF ResolverAssumption
    <3> QED BY <3>1, ResolverAssumption, EmptyRows DEF ResolverInit, ResolverTypeOK
  <2>2. ResolverInit => Unsettled /\ ResultsMatchMarket
      BY DEF ResolverInit, NoPosition, NoLabel, Unsettled, ResultsMatchMarket, ExitAtFirstHit, LabelMatchesMarket
  <2> QED BY <2>1, <2>2 DEF ResultsInv
<1>2. ResultsInv /\ [ResolverNext]_resolverVars => ResultsInv'
    BY ResolverAssumption, ResultsStep
<1>3. ResultsInv => ResultsMatchMarket
    BY DEF ResultsInv
<1> QED BY <1>1, <1>2, <1>3, PTL DEF ResolverSpec

-----------------------------------------------------------------------------
(* Money.  The books of a position agree with the events that cut it.       *)

Parts(t) == PartialExits(events, t)
\* What the events say was sold, and for how much.
Quantities == [e \in Events |-> events[e].qty]
Proceeds == [e \in Events |-> events[e].gross]

\* What the arithmetic of the books needs.
CostsAreCharged ==
    /\ EntryCost \in Nat /\ ExitCost \in Nat /\ 0 < EntryCost + ExitCost
    /\ Quantity \in Nat /\ Target \in Int

\* The whole cost of a position that was closed in n + 1 slices.
FullCost(n) == EntryCost * Quantity + ExitCost * (n + 1)

\* An open position that was cut n times for `won'.
Booked(p, n, won) ==
    /\ p.status = "OPEN"
    /\ p.rem = Quantity - n /\ 0 < p.rem
    /\ p.gross = won /\ p.cost = n * SliceCost

\* One that was closed after that.
SoldOut(p, n, won) ==
    /\ p.status = "CLOSED" /\ p.rem = 0
    /\ p.gross = won + p.price * (Quantity - n)
    /\ Complete(p) <=> /\ p.cost = FullCost(n)
                       /\ p.reason = "PROTECTIVE" \/ ~Ambiguous(p.exit, p.stop)

\* What the partial exits of a trade sold, and for how much.
Sold(t) == SumOf(Quantities, Parts(t))
Won(t) == SumOf(Proceeds, Parts(t))

\* The rows about a trade agree with its partial exits.
TradeBooked(t) ==
    LET n == Cardinality(Parts(t))
        won == Won(t)
    IN  /\ IsFiniteSet(Parts(t)) /\ Sold(t) = n
        /\ pos[t].status = "NONE" => Parts(t) = {}
        /\ pos[t].status # "CLOSED" => outcome[t] = NoOutcome /\ t \notin expectancy
        /\ pos[t].status = "OPEN" => Booked(pos[t], n, won)
        /\ pos[t].status = "CLOSED" =>
              /\ SoldOut(pos[t], n, won)
              /\ outcome[t] = OutcomeOf(pos[t], n)
              /\ t \in expectancy <=> Complete(pos[t]) /\ pos[t].linked

EventRows ==
    [trade : Trades \cup {NoEvent.trade}, kind : ActionKinds \cup {NoEvent.kind},
     level : Int, seen : Int, qty : Int, gross : Int, cost : Int]

LedgerInv ==
    /\ events \in [Events -> EventRows]
    /\ \A w \in Tickers : \A a, b \in tick[w].actions : a = b
    /\ \A t \in Trades : TradeBooked(t)
    /\ \A l \in Labels : l \in expectancy <=> label[l].status = "RESOLVED" /\ label[l].authoritative

-----------------------------------------------------------------------------
\* The sums that LedgerBalances takes over the partial exits.
LEMMA SoldIsSum ==
    ASSUME events \in [Events -> EventRows], NEW T \in SUBSET Events, IsFiniteSet(T)
    PROVE  MapThenSumSet(LAMBDA e : events[e].qty, T) = SumOf(Quantities, T)
<1> DEFINE next(s) == CHOOSE x \in s : TRUE
           c == [s \in SUBSET T |-> next(s)]
           step(g) == [s \in SUBSET T |-> IF s = {} THEN 0 ELSE events[next(s)].qty + g[s \ {next(s)}]]
           iter == CHOOSE g : g = step(g)
<1>1. MapThenSumSet(LAMBDA e : events[e].qty, T) = iter[T]
    BY DEF MapThenSumSet, MapThenFoldSet
<1>2. \A s \in SUBSET T : s # {} => next(s) \in s
    OBVIOUS
<1> HIDE DEF next
<1>3. Quantities \in [Events -> Int]
    BY DEF Quantities, EventRows
<1>4. \A s \in SUBSET T : c[s] = next(s)
    OBVIOUS
<1>5. \A s \in SUBSET T : s # {} => c[s] \in s
    BY <1>2, <1>4
<1>6. \A e \in Events : Quantities[e] = events[e].qty
    BY DEF Quantities
<1>7. ASSUME NEW s \in SUBSET T, s # {} PROVE Quantities[next(s)] = events[next(s)].qty
    BY <1>2, <1>6, <1>7
<1> HIDE DEF c
<1>8. ASSUME NEW g
      PROVE  step(g) = [s \in SUBSET T |-> IF s = {} THEN 0 ELSE Quantities[c[s]] + g[s \ {c[s]}]]
    BY <1>4, <1>7
<1>9. PICK g0 : IsFold(g0, Quantities, c, T)
    BY <1>3, <1>5, FoldExists
<1> HIDE DEF step
<1>10. g0 = step(g0)
    BY <1>8, <1>9 DEF IsFold
<1>11. iter = step(iter)
    BY <1>10
<1> HIDE DEF iter
<1>12. iter = [s \in SUBSET T |-> IF s = {} THEN 0 ELSE Quantities[c[s]] + iter[s \ {c[s]}]]
    BY <1>8, <1>11
<1>13. ASSUME NEW s \in SUBSET T
       PROVE  iter[s] = IF s = {} THEN 0 ELSE Quantities[c[s]] + iter[s \ {c[s]}]
  <2> DEFINE v(r) == IF r = {} THEN 0 ELSE Quantities[c[r]] + iter[r \ {c[r]}]
             f == [r \in SUBSET T |-> v(r)]
  <2>1. iter = f
      BY <1>12
  <2> HIDE DEF v
  <2>2. f[s] = v(s)
      OBVIOUS
  <2> HIDE DEF f
  <2>3. iter[s] = v(s)
      BY <2>1, <2>2
  <2> QED BY <2>3 DEF v
<1>14. iter[T] = SumOf(Quantities, T)
    BY <1>3, <1>5, <1>13, FoldIsSum
<1> QED BY <1>1, <1>14

LEMMA WonIsSum ==
    ASSUME events \in [Events -> EventRows], NEW T \in SUBSET Events, IsFiniteSet(T)
    PROVE  MapThenSumSet(LAMBDA e : events[e].gross, T) = SumOf(Proceeds, T)
<1> DEFINE next(s) == CHOOSE x \in s : TRUE
           c == [s \in SUBSET T |-> next(s)]
           step(g) == [s \in SUBSET T |-> IF s = {} THEN 0 ELSE events[next(s)].gross + g[s \ {next(s)}]]
           iter == CHOOSE g : g = step(g)
<1>1. MapThenSumSet(LAMBDA e : events[e].gross, T) = iter[T]
    BY DEF MapThenSumSet, MapThenFoldSet
<1>2. \A s \in SUBSET T : s # {} => next(s) \in s
    OBVIOUS
<1> HIDE DEF next
<1>3. Proceeds \in [Events -> Int]
    BY DEF Proceeds, EventRows
<1>4. \A s \in SUBSET T : c[s] = next(s)
    OBVIOUS
<1>5. \A s \in SUBSET T : s # {} => c[s] \in s
    BY <1>2, <1>4
<1>6. \A e \in Events : Proceeds[e] = events[e].gross
    BY DEF Proceeds
<1>7. ASSUME NEW s \in SUBSET T, s # {} PROVE Proceeds[next(s)] = events[next(s)].gross
    BY <1>2, <1>6, <1>7
<1> HIDE DEF c
<1>8. ASSUME NEW g
      PROVE  step(g) = [s \in SUBSET T |-> IF s = {} THEN 0 ELSE Proceeds[c[s]] + g[s \ {c[s]}]]
    BY <1>4, <1>7
<1>9. PICK g0 : IsFold(g0, Proceeds, c, T)
    BY <1>3, <1>5, FoldExists
<1> HIDE DEF step
<1>10. g0 = step(g0)
    BY <1>8, <1>9 DEF IsFold
<1>11. iter = step(iter)
    BY <1>10
<1> HIDE DEF iter
<1>12. iter = [s \in SUBSET T |-> IF s = {} THEN 0 ELSE Proceeds[c[s]] + iter[s \ {c[s]}]]
    BY <1>8, <1>11
<1>13. ASSUME NEW s \in SUBSET T
       PROVE  iter[s] = IF s = {} THEN 0 ELSE Proceeds[c[s]] + iter[s \ {c[s]}]
  <2> DEFINE v(r) == IF r = {} THEN 0 ELSE Proceeds[c[r]] + iter[r \ {c[r]}]
             f == [r \in SUBSET T |-> v(r)]
  <2>1. iter = f
      BY <1>12
  <2> HIDE DEF v
  <2>2. f[s] = v(s)
      OBVIOUS
  <2> HIDE DEF f
  <2>3. iter[s] = v(s)
      BY <2>1, <2>2
  <2> QED BY <2>3 DEF v
<1>14. iter[T] = SumOf(Proceeds, T)
    BY <1>3, <1>5, <1>13, FoldIsSum
<1> QED BY <1>1, <1>14

-----------------------------------------------------------------------------
\* What one action or one candle does to the books of a position.

\* A closure sells the rest; it books the full cost exactly if its own costs are
\* known, because without them something is missing.
LEMMA ClosingBooks ==
    ASSUME CostsAreCharged, NEW p \in Positions, NEW n \in Nat, NEW won \in Int,
           Booked(p, n, won),
           NEW reason, NEW at, NEW price \in Int, NEW model \in BOOLEAN
    PROVE  LET c == Closed(p, reason, at, price, model) IN
           /\ c.status = "CLOSED" /\ c.rem = 0 /\ c.price = price
           /\ c.reason = reason /\ c.exit = at /\ c.stop = p.stop /\ c.costed = p.costed
           /\ c.gross = won + price * (Quantity - n)
           /\ c.cost = FullCost(n) <=> model
<1>0. EntryCost \in Nat /\ ExitCost \in Nat /\ Quantity \in Nat /\ 0 < EntryCost + ExitCost
    BY DEF CostsAreCharged
<1>1. p.rem = Quantity - n /\ 0 < p.rem /\ p.gross = won /\ p.cost = n * (EntryCost + ExitCost)
    BY DEF Booked, SliceCost
<1> DEFINE c == Closed(p, reason, at, price, model)
           gross == p.gross + price * p.rem
           cost == IF model THEN p.cost + EntryCost * p.rem + ExitCost ELSE p.cost
<1>2. c = [p EXCEPT !.status = "CLOSED", !.reason = reason, !.exit = at, !.price = price,
                    !.gross = gross, !.cost = cost, !.rem = 0]
    BY DEF Closed
<1>3. gross = won + price * (Quantity - n)
    BY <1>1
<1>4. cost = FullCost(n) <=> model
  <2> DEFINE left == Quantity - n
  <2>1. left \in Nat /\ 0 < left /\ Quantity = left + n /\ p.rem = left
      BY <1>0, <1>1
  <2> HIDE DEF left
  <2>2. FullCost(n) = EntryCost * (left + n) + ExitCost * (n + 1)
      BY <2>1 DEF FullCost
  <2>3. EntryCost * (left + n) = EntryCost * left + EntryCost * n
      BY <1>0, <2>1
  <2>4. /\ n * (EntryCost + ExitCost) = EntryCost * n + ExitCost * n
        /\ ExitCost * (n + 1) = ExitCost * n + ExitCost
      BY <1>0
  <2> DEFINE el == EntryCost * left
             en == EntryCost * n
             xn == ExitCost * n
  <2>5. el \in Nat /\ en \in Nat /\ xn \in Nat /\ (0 < EntryCost => 0 < el)
      BY <1>0, <2>1
  <2>6. FullCost(n) = (el + en) + (xn + ExitCost) /\ p.cost = en + xn
      BY <1>1, <2>2, <2>3, <2>4
  <2>7. cost = IF model THEN ((en + xn) + el) + ExitCost ELSE en + xn
      BY <2>1, <2>6
  <2>8. 0 < el + ExitCost
      BY <1>0, <2>5
  <2> HIDE DEF el, en, xn, cost
  <2> QED BY <1>0, <2>5, <2>6, <2>7, <2>8
<1> HIDE DEF gross, cost, c
<1>5. /\ c.status = "CLOSED" /\ c.rem = 0 /\ c.price = price
      /\ c.reason = reason /\ c.exit = at /\ c.stop = p.stop /\ c.costed = p.costed
      /\ c.gross = gross /\ c.cost = cost
    BY <1>2 DEF Positions
<1> QED BY <1>3, <1>4, <1>5 DEF c

\* A protective exit closes the books with its own costs.
LEMMA ProtectiveBooks ==
    ASSUME CostsAreCharged, NEW p \in Positions, NEW n \in Nat, NEW won \in Int, Booked(p, n, won),
           NEW at, NEW price \in Int
    PROVE  SoldOut(Closed(p, "PROTECTIVE", at, price, TRUE), n, won)
<1>1. PICK reason \in {"PROTECTIVE"}, model \in BOOLEAN : model = TRUE
    OBVIOUS
<1> DEFINE c == Closed(p, reason, at, price, model)
<1>2. /\ c.status = "CLOSED" /\ c.rem = 0 /\ c.price = price
      /\ c.reason = reason /\ c.exit = at /\ c.stop = p.stop /\ c.costed = p.costed
      /\ c.gross = won + price * (Quantity - n)
      /\ c.cost = FullCost(n) <=> model
    BY ClosingBooks
<1> HIDE DEF c
<1>3. SoldOut(c, n, won)
    BY <1>1, <1>2 DEF SoldOut, Complete
<1> QED BY <1>1, <1>3 DEF c

\* A management action cuts, closes or leaves the books as they are.
LEMMA ManagingBooks ==
    ASSUME CostsAreCharged, NEW p \in Positions, NEW n \in Nat, NEW won \in Int,
           Booked(p, n, won), NEW a \in Requests, NEW at,
           a.kind = "PARTIAL_EXIT" => 1 < p.rem
    PROVE  /\ a.kind = "PARTIAL_EXIT" => Booked(Managed(p, a, at), n + 1, won + a.level)
           /\ a.kind \in {"TIGHTEN_STOP", "ENABLE_TRAILING"} => Booked(Managed(p, a, at), n, won)
           /\ a.kind = "PROTECTIVE_EXIT" => SoldOut(Managed(p, a, at), n, won)
<1>0. EntryCost \in Nat /\ ExitCost \in Nat /\ Quantity \in Nat /\ a.level \in Int
    BY DEF CostsAreCharged, Requests
<1>1. p.status = "OPEN" /\ p.rem = Quantity - n /\ 0 < p.rem /\ p.gross = won /\ p.cost = n * SliceCost
    BY DEF Booked
<1>2. CASE a.kind = "TIGHTEN_STOP"
  <2>1. Managed(p, a, at) = [p EXCEPT !.stop = a.level]
      BY <1>2 DEF Managed, Tightened
  <2> QED BY <1>1, <1>2, <2>1 DEF Booked, Positions
<1>3. CASE a.kind = "ENABLE_TRAILING"
  <2>1. Managed(p, a, at) = [p EXCEPT !.trailing = TRUE]
      BY <1>3 DEF Managed, Trailing
  <2> QED BY <1>1, <1>3, <2>1 DEF Booked, Positions
<1>4. CASE a.kind = "PARTIAL_EXIT"
  <2> DEFINE left == p.rem - 1
             gain == p.gross + a.level
             paid == p.cost + SliceCost
             m == Managed(p, a, at)
  <2>1. m = [p EXCEPT !.rem = left, !.gross = gain, !.cost = paid]
      BY <1>4 DEF Managed, Reduced
  <2>2. left = Quantity - (n + 1) /\ 0 < left /\ gain = won + a.level
      BY <1>0, <1>1, <1>4
  <2>3. SliceCost \in Int
      BY <1>0 DEF SliceCost
  <2>4. paid = (n + 1) * SliceCost
      BY <1>1, <2>3
  <2> HIDE DEF left, gain, paid, m
  <2>5. m.status = "OPEN" /\ m.rem = left /\ m.gross = gain /\ m.cost = paid
      BY <1>1, <2>1 DEF Positions
  <2>6. Booked(m, n + 1, won + a.level)
      BY <2>2, <2>4, <2>5 DEF Booked
  <2> QED BY <1>4, <2>6 DEF m
<1>5. CASE a.kind = "PROTECTIVE_EXIT"
  <2>1. Managed(p, a, at) = Closed(p, "PROTECTIVE", at, a.level, TRUE)
      BY <1>5 DEF Managed
  <2> QED BY <1>0, <1>5, <2>1, ProtectiveBooks
<1> QED BY <1>2, <1>3, <1>4, <1>5

\* The candles close the books or leave them as they are.
LEMMA ResolvingBooks ==
    ASSUME CostsAreCharged, NEW w, NEW t, NEW p \in Positions,
           NEW n \in Nat, NEW won \in Int, Booked(p, n, won)
    PROVE  Booked(Resolved(w, t, p), n, won) \/ SoldOut(Resolved(w, t, p), n, won)
<1> DEFINE b == ExitBar(w, t, p)
<1>1. CASE b = 0
    BY <1>1 DEF Resolved
<1>2. CASE b # 0
  <2> DEFINE reason == IF Ambiguous(b, p.stop) THEN "AMBIGUOUS"
                       ELSE IF HitsStop(b, p.stop) THEN "SL_HIT" ELSE "TP_HIT"
             price == IF HitsStop(b, p.stop) THEN p.stop ELSE Target
             c == Closed(p, reason, b, price, p.costed)
  <2>1. Resolved(w, t, p) = c
      BY <1>2 DEF Resolved
  <2>2. p.stop \in Int /\ Target \in Int /\ p.costed \in BOOLEAN
      BY DEF CostsAreCharged, Positions
  <2>3. price \in Int
      BY <2>2
  <2>4. reason # "PROTECTIVE" /\ (reason = "AMBIGUOUS" <=> Ambiguous(b, p.stop))
      OBVIOUS
  <2> HIDE DEF reason, price, b
  <2>5. /\ c.status = "CLOSED" /\ c.rem = 0 /\ c.price = price
        /\ c.reason = reason /\ c.exit = b /\ c.stop = p.stop /\ c.costed = p.costed
        /\ c.gross = won + price * (Quantity - n)
        /\ c.cost = FullCost(n) <=> p.costed
      BY <2>2, <2>3, ClosingBooks
  <2> HIDE DEF c
  <2>6. SoldOut(c, n, won)
      BY <2>2, <2>4, <2>5 DEF SoldOut, Complete
  <2> QED BY <2>1, <2>6
<1> QED BY <1>1, <1>2


\* The events that a commit adds.
LEMMA EventsAdded ==
    ASSUME ResolverAssumption, ResolverTypeOK, LedgerInv, NEW w \in Tickers, TickCommitted(w)
    PROVE  /\ \A a \in Requested(w) :
                  /\ a \in Requests /\ Applicable(a) /\ events[a.id] = NoEvent
                  /\ events'[a.id] = EventOf(a)
           /\ \A e \in Events : (\A a \in Requested(w) : a.id # e) => events'[e] = events[e]
           /\ \A a, b \in Requested(w) : a = b
           /\ events' \in [Events -> EventRows]
<1>1. \A a \in Requested(w) : a \in Requests /\ Applicable(a) /\ events[a.id] = NoEvent
  <2>1. ~ Rejected(w) /\ tick[w].actions \subseteq Requests
      BY DEF TickCommitted, ResolverTypeOK, TickStates
  <2> QED BY <2>1 DEF Rejected, Requested, Applicable
<1>2. \A a, b \in Requested(w) : a = b
    BY DEF Requested, LedgerInv
<1>3. events' = ManagedEvents(w)
    BY DEF TickCommitted
<1>4. \A e \in Events : (\A a \in Requested(w) : a.id # e) => events'[e] = events[e]
    BY <1>3 DEF ManagedEvents
<1>5. ASSUME NEW a \in Requested(w) PROVE events'[a.id] = EventOf(a)
  <2>1. a.id \in Events
      BY <1>1 DEF Requests
  <2>2. (CHOOSE b \in Requested(w) : b.id = a.id) = a
      BY <1>2
  <2> QED BY <1>3, <2>1, <2>2 DEF ManagedEvents
<1>6. ASSUME NEW a \in Requested(w) PROVE EventOf(a) \in EventRows
  <2>1. a \in Requests /\ pos[a.trade] \in Positions /\ EntryCost \in Int /\ ExitCost \in Int
      BY <1>1 DEF Requests, ResolverTypeOK, ResolverAssumption
  <2> DEFINE rem == pos[a.trade].rem
  <2>2. /\ rem \in Int /\ a.level \in Int /\ a.seen \in Int /\ a.trade \in Trades /\ a.kind \in ActionKinds
        /\ SliceCost \in Int
      BY <2>1 DEF Positions, Requests, SliceCost
  <2>3. a.level * rem \in Int /\ EntryCost * rem + ExitCost \in Int
      BY <2>1, <2>2
  <2> HIDE DEF rem
  <2> QED BY <2>2, <2>3 DEF EventOf, EventRows, rem
<1>7. events' \in [Events -> EventRows]
  <2>1. ASSUME NEW e \in Events PROVE events'[e] \in EventRows
    <3>1. events[e] \in EventRows
        BY DEF LedgerInv
    <3> QED BY <1>4, <1>5, <1>6, <3>1
  <2>2. events' = [e \in Events |-> events'[e]]
      BY <1>3 DEF ManagedEvents
  <2> QED BY <2>1, <2>2
<1> QED BY <1>1, <1>2, <1>4, <1>5, <1>7

\* Partial exits are added to the books, and nothing else is.
LEMMA PartsAdded ==
    ASSUME ResolverAssumption, ResolverTypeOK, LedgerInv, NEW w \in Tickers, TickCommitted(w), NEW t \in Trades
    PROVE  /\ (\A a \in Requested(w) : a.trade = t => a.kind # "PARTIAL_EXIT") =>
                 Parts(t)' = Parts(t) /\ Sold(t)' = Sold(t) /\ Won(t)' = Won(t)
           /\ \A a \in Requested(w) : a.trade = t /\ a.kind = "PARTIAL_EXIT" =>
                 /\ IsFiniteSet(Parts(t)') /\ Cardinality(Parts(t)') = Cardinality(Parts(t)) + 1
                 /\ Sold(t)' = Sold(t) + 1 /\ Won(t)' = Won(t) + a.level
           /\ Cardinality(Parts(t)) \in Nat /\ Won(t) \in Int
<1>0. /\ events \in [Events -> EventRows] /\ events' \in [Events -> EventRows]
      /\ Parts(t) \subseteq Events /\ IsFiniteSet(Parts(t))
      /\ Quantities \in [Events -> Int] /\ Proceeds \in [Events -> Int]
    BY EventsAdded DEF LedgerInv, TradeBooked, Parts, PartialExits, Quantities, Proceeds, EventRows
<1>1. Cardinality(Parts(t)) \in Nat
    BY <1>0, FS_CardinalityType
<1>2. Won(t) \in Int /\ Sold(t) \in Int
    BY <1>0, SumUnfolds DEF Won, Sold
<1>3. \A e \in Parts(t) : (\A a \in Requested(w) : a.id # e) /\ events'[e] = events[e]
  <2>1. NoEvent.kind # "PARTIAL_EXIT"
      BY DEF NoEvent
  <2> QED BY <2>1, EventsAdded DEF Parts, PartialExits
<1>4. Parts(t)' = {e \in Events : events'[e].trade = t /\ events'[e].kind = "PARTIAL_EXIT"}
    BY DEF Parts, PartialExits
<1>5. /\ Sold(t)' = SumOf(Quantities', Parts(t)') /\ Won(t)' = SumOf(Proceeds', Parts(t)')
      /\ Quantities' = [e \in Events |-> events'[e].qty]
      /\ Proceeds' = [e \in Events |-> events'[e].gross]
    BY DEF Sold, Won, Quantities, Proceeds
<1>6. /\ SumOf(Quantities', Parts(t)) = Sold(t) /\ SumOf(Proceeds', Parts(t)) = Won(t)
  <2>1. \A e \in Parts(t) : Quantities'[e] = Quantities[e] /\ Proceeds'[e] = Proceeds[e]
      BY <1>0, <1>3, <1>5 DEF Quantities, Proceeds
  <2> QED BY <2>1, SumSame DEF Sold, Won
<1>7. ASSUME \A a \in Requested(w) : a.trade = t => a.kind # "PARTIAL_EXIT"
      PROVE  Parts(t)' = Parts(t)
  <2>1. ASSUME NEW e \in Events, e \in Parts(t)' PROVE e \in Parts(t)
    <3>1. CASE \A a \in Requested(w) : a.id # e
        BY <1>4, <2>1, <3>1, EventsAdded DEF Parts, PartialExits
    <3>2. ASSUME NEW a \in Requested(w), a.id = e PROVE FALSE
      <4>1. events'[e] = EventOf(a)
          BY <3>2, EventsAdded
      <4>2. events'[e].trade = a.trade /\ events'[e].kind = a.kind
          BY <4>1 DEF EventOf
      <4> QED BY <1>4, <1>7, <2>1, <4>2
    <3> QED BY <3>1, <3>2
  <2>2. ASSUME NEW e \in Parts(t) PROVE e \in Parts(t)'
      BY <1>3, <1>4 DEF Parts, PartialExits
  <2> QED BY <1>4, <2>1, <2>2
<1>8. ASSUME NEW a \in Requested(w), a.trade = t, a.kind = "PARTIAL_EXIT"
      PROVE  /\ IsFiniteSet(Parts(t)') /\ Cardinality(Parts(t)') = Cardinality(Parts(t)) + 1
             /\ Sold(t)' = Sold(t) + 1 /\ Won(t)' = Won(t) + a.level
  <2>1. a.id \in Events /\ a.id \notin Parts(t) /\ events'[a.id] = EventOf(a)
      BY <1>3, EventsAdded DEF Requests
  <2>2. \A b \in Requested(w) : b = a
      BY EventsAdded
  <2>3. events'[a.id].trade = t /\ events'[a.id].kind = "PARTIAL_EXIT"
        /\ events'[a.id].qty = 1 /\ events'[a.id].gross = a.level
      BY <1>8, <2>1 DEF EventOf
  <2>4. \A e \in Events : e # a.id => events'[e] = events[e]
      BY <2>2, EventsAdded
  <2>5. Parts(t)' = Parts(t) \cup {a.id}
      BY <1>4, <2>1, <2>3, <2>4 DEF Parts, PartialExits
  <2>6. Quantities' \in [Events -> Int] /\ Proceeds' \in [Events -> Int]
      BY <1>0, <1>5 DEF EventRows
  <2>7. IsFiniteSet(Parts(t)') /\ Cardinality(Parts(t)') = Cardinality(Parts(t)) + 1
    <3>1. /\ IsFiniteSet(Parts(t) \cup {a.id})
          /\ Cardinality(Parts(t) \cup {a.id}) = Cardinality(Parts(t)) + 1
        BY <1>0, <2>1, FS_AddElement
    <3> QED BY <2>5, <3>1
  <2>8. Quantities'[a.id] = 1 /\ Proceeds'[a.id] = a.level
      BY <1>5, <2>1, <2>3
  <2>9. SumOf(Quantities', Parts(t) \cup {a.id}) = SumOf(Quantities', Parts(t)) + Quantities'[a.id]
      BY <1>0, <2>1, <2>6, SumAdds
  <2>10. SumOf(Proceeds', Parts(t) \cup {a.id}) = SumOf(Proceeds', Parts(t)) + Proceeds'[a.id]
      BY <1>0, <2>1, <2>6, SumAdds
  <2> QED BY <1>5, <1>6, <2>5, <2>7, <2>8, <2>9, <2>10
<1> QED BY <1>1, <1>2, <1>5, <1>6, <1>7, <1>8

\* What a commit makes of a position still fits what its events say was sold.
LEMMA BooksCommitted ==
    ASSUME ResolverAssumption, CostsAreCharged, ResolverTypeOK, LedgerInv,
           NEW w \in Tickers, TickCommitted(w), NEW t \in Trades
    PROVE  LET p == Resolved(w, t, ManagedPos(w)[t])
               n == Cardinality(Parts(t)')
           IN  /\ IsFiniteSet(Parts(t)') /\ Sold(t)' = n
               /\ pos[t].status = "OPEN" => Booked(p, n, Won(t)') \/ SoldOut(p, n, Won(t)')
               /\ pos[t].status # "OPEN" => p = pos[t] /\ Parts(t)' = Parts(t) /\ Won(t)' = Won(t)
<1> DEFINE m == ManagedPos(w)[t]
           p == Resolved(w, t, m)
           n == Cardinality(Parts(t))
           won == Won(t)
           k == Cardinality(Parts(t)')
           gained == Won(t)'
<1>0. /\ pos[t] \in Positions /\ IsFiniteSet(Parts(t)) /\ Sold(t) = n /\ n \in Nat /\ won \in Int
      /\ pos[t].status = "OPEN" => Booked(pos[t], n, won)
    BY PartsAdded DEF ResolverTypeOK, LedgerInv, TradeBooked
<1>1. ASSUME NEW a \in Requested(w), a.trade = t
      PROVE  /\ pos[t].status = "OPEN" /\ m \in Positions
             /\ IsFiniteSet(Parts(t)') /\ Sold(t)' = k /\ k \in Nat /\ gained \in Int
             /\ Booked(m, k, gained) \/ SoldOut(m, k, gained)
  <2>1. a \in Requests /\ Applicable(a) /\ \A b \in Requested(w) : b = a
      BY EventsAdded
  <2>2. /\ pos[t].status = "OPEN" /\ a.level \in Int /\ a.kind \in ActionKinds
        /\ a.kind = "TIGHTEN_STOP" => pos[t].stop < a.level
        /\ a.kind = "PARTIAL_EXIT" => 1 < pos[t].rem
      BY <1>1, <2>1 DEF Applicable, Requests
  <2>3. m = Managed(pos[t], a, tick[w].until) /\ tick[w].until \in 0 .. Bars
    <3>1. (CHOOSE b \in Requested(w) : b.trade = t) = a
        BY <1>1, <2>1
    <3> QED BY <1>1, <3>1 DEF ManagedPos, ResolverTypeOK, TickStates
  <2> HIDE DEF m, n, won, k, gained
  <2>4. m \in Positions
      BY <1>0, <2>1, <2>2, <2>3, ManagedPosition
  <2>5. CASE a.kind = "PARTIAL_EXIT"
    <3>1. IsFiniteSet(Parts(t)') /\ k = n + 1 /\ Sold(t)' = n + 1 /\ gained = won + a.level
        BY <1>0, <1>1, <2>5, PartsAdded DEF k, n, gained, won
    <3>2. Booked(m, n + 1, won + a.level)
        BY <1>0, <2>1, <2>2, <2>3, <2>5, ManagingBooks
    <3> QED BY <1>0, <2>2, <2>4, <3>1, <3>2
  <2>6. CASE a.kind # "PARTIAL_EXIT"
    <3>1. Parts(t)' = Parts(t) /\ Sold(t)' = Sold(t) /\ gained = won
        BY <2>1, <2>6, PartsAdded DEF gained, won
    <3>2. k = n
        BY <3>1 DEF k, n
    <3>3. a.kind \in {"TIGHTEN_STOP", "ENABLE_TRAILING"} \/ a.kind = "PROTECTIVE_EXIT"
        BY <2>2, <2>6 DEF ActionKinds
    <3>4. Booked(m, n, won) \/ SoldOut(m, n, won)
        BY <1>0, <2>1, <2>2, <2>3, <3>3, ManagingBooks
    <3> QED BY <1>0, <2>2, <2>4, <3>1, <3>2, <3>4
  <2> QED BY <2>5, <2>6
<1>2. ASSUME \A a \in Requested(w) : a.trade # t
      PROVE  /\ m = pos[t] /\ Parts(t)' = Parts(t) /\ Sold(t)' = Sold(t) /\ gained = won /\ k = n
    BY <1>2, PartsAdded DEF ManagedPos
<1>3. /\ m \in Positions /\ k \in Nat /\ gained \in Int /\ IsFiniteSet(Parts(t)') /\ Sold(t)' = k
      /\ pos[t].status = "OPEN" => Booked(m, k, gained) \/ SoldOut(m, k, gained)
      /\ pos[t].status # "OPEN" => m = pos[t] /\ Parts(t)' = Parts(t) /\ gained = won
    BY <1>0, <1>1, <1>2
<1> HIDE DEF m, n, won, k, gained
<1>4. SoldOut(m, k, gained) => m.status # "OPEN"
    BY DEF SoldOut
<1>5. m.status # "OPEN" => p = m
    BY <1>3, ResolvedPosition
<1>6. Booked(m, k, gained) => Booked(p, k, gained) \/ SoldOut(p, k, gained)
    BY <1>3, ResolvingBooks
<1> HIDE DEF p
<1>7. /\ pos[t].status = "OPEN" => Booked(p, k, gained) \/ SoldOut(p, k, gained)
      /\ pos[t].status # "OPEN" => p = pos[t] /\ Parts(t)' = Parts(t) /\ gained = won
    BY <1>3, <1>4, <1>5, <1>6
<1> QED BY <1>3, <1>7 DEF p, m, k, gained, won

\* A commit settles the books of each trade it closes.
LEMMA TradesCommitted ==
    ASSUME ResolverAssumption, CostsAreCharged, ResolverTypeOK, LedgerInv,
           NEW w \in Tickers, TickCommitted(w), NEW t \in Trades
    PROVE  TradeBooked(t)'
<1> DEFINE p == Resolved(w, t, ManagedPos(w)[t])
           parts == Parts(t)'
           n == Cardinality(parts)
           won == Won(t)'
<1>1. /\ IsFiniteSet(parts) /\ Sold(t)' = n
      /\ pos[t].status = "OPEN" => Booked(p, n, won) \/ SoldOut(p, n, won)
      /\ pos[t].status # "OPEN" => p = pos[t] /\ parts = Parts(t) /\ won = Won(t)
    BY BooksCommitted
<1>2. pos'[t] = p /\ market' = market
    BY DEF TickCommitted
<1>3. TradeBooked(t)
    BY DEF LedgerInv
<1> HIDE DEF p
<1>4. outcome'[t] = IF pos[t].status = "OPEN" /\ p.status = "CLOSED" THEN OutcomeOf(p, n) ELSE outcome[t]
    BY DEF TickCommitted, Parts, p
<1>5. t \in expectancy' <=>
          \/ t \in expectancy
          \/ pos[t].status = "OPEN" /\ p.status = "CLOSED" /\ Complete(p) /\ p.linked
  <2>1. t \notin Labels
      BY DEF ResolverAssumption
  <2> QED BY <2>1 DEF TickCommitted, p
<1> HIDE DEF parts, n, won
<1>6. CASE pos[t].status # "OPEN"
  <2>1. /\ p = pos[t] /\ parts = Parts(t) /\ won = Won(t) /\ outcome'[t] = outcome[t]
        /\ t \in expectancy' <=> t \in expectancy
      BY <1>1, <1>4, <1>5, <1>6
  <2>2. n = Cardinality(Parts(t))
      BY <2>1 DEF n
  <2>3. /\ pos[t].status = "NONE" => parts = {}
        /\ pos[t].status # "CLOSED" => outcome[t] = NoOutcome /\ t \notin expectancy
        /\ pos[t].status = "CLOSED" =>
              /\ SoldOut(pos[t], n, won)
              /\ outcome[t] = OutcomeOf(pos[t], n)
              /\ t \in expectancy <=> Complete(pos[t]) /\ pos[t].linked
      BY <1>3, <2>1, <2>2 DEF TradeBooked
  <2>4. /\ pos'[t].status = "NONE" => parts = {}
        /\ pos'[t].status # "CLOSED" => outcome'[t] = NoOutcome /\ t \notin expectancy'
        /\ pos'[t].status # "OPEN"
        /\ pos'[t].status = "CLOSED" =>
              /\ SoldOut(pos'[t], n, won)
              /\ outcome'[t] = OutcomeOf(pos'[t], n)
              /\ t \in expectancy' <=> Complete(pos'[t]) /\ pos'[t].linked
      BY <1>2, <1>6, <2>1, <2>3
  <2> QED BY <1>1, <1>2, <2>4 DEF TradeBooked, SoldOut, Ambiguous, HitsStop, HitsTarget, parts, n, won
<1>7. CASE pos[t].status = "OPEN"
  <2>1. outcome[t] = NoOutcome /\ t \notin expectancy
      BY <1>3, <1>7 DEF TradeBooked
  <2>2. CASE Booked(p, n, won)
    <3>1. p.status = "OPEN"
        BY <2>2 DEF Booked
    <3>2. outcome'[t] = NoOutcome /\ t \notin expectancy'
        BY <1>4, <1>5, <2>1, <3>1
    <3>3. Booked(pos'[t], n, won) /\ pos'[t].status = "OPEN"
        BY <1>2, <2>2, <3>1
    <3> QED BY <1>1, <3>2, <3>3 DEF TradeBooked, Booked, parts, n, won
  <2>3. CASE SoldOut(p, n, won)
    <3>1. p.status = "CLOSED"
        BY <2>3 DEF SoldOut
    <3>2. outcome'[t] = OutcomeOf(p, n) /\ (t \in expectancy' <=> Complete(p) /\ p.linked)
        BY <1>4, <1>5, <1>7, <2>1, <3>1
    <3>3. /\ SoldOut(pos'[t], n, won) /\ pos'[t].status = "CLOSED"
          /\ outcome'[t] = OutcomeOf(pos'[t], n)
          /\ t \in expectancy' <=> Complete(pos'[t]) /\ pos'[t].linked
        BY <1>2, <2>3, <3>1, <3>2
    <3> QED BY <1>1, <1>2, <3>3 DEF TradeBooked, SoldOut, Ambiguous, HitsStop, HitsTarget, parts, n, won
  <2> QED BY <1>1, <1>7, <2>2, <2>3
<1> QED BY <1>6, <1>7

LEMMA LedgerCommitted ==
    ASSUME ResolverAssumption, CostsAreCharged, ResolverTypeOK, LedgerInv, NEW w \in Tickers, TickCommitted(w)
    PROVE  LedgerInv'
<1>1. events' \in [Events -> EventRows]
    BY EventsAdded
<1>2. \A v \in Tickers : \A a, b \in tick'[v].actions : a = b
  <2>1. tick' = [tick EXCEPT ![w] = NoTick] /\ NoTick.actions = {}
      BY DEF TickCommitted, NoTick
  <2>2. \A v \in Tickers : tick'[v] = NoTick \/ tick'[v] = tick[v]
      BY <2>1 DEF ResolverTypeOK
  <2> QED BY <2>1, <2>2 DEF LedgerInv
<1>3. \A t \in Trades : TradeBooked(t)'
    BY TradesCommitted
<1>4. ASSUME NEW l \in Labels
      PROVE  l \in expectancy' <=> label'[l].status = "RESOLVED" /\ label'[l].authoritative
  <2>1. /\ label'[l] = Labelled(w, l)
        /\ label[l].status # "PENDING" => Labelled(w, l) = label[l]
      BY LabelledRow DEF TickCommitted
  <2>2. l \notin Trades
      BY DEF ResolverAssumption
  <2>3. l \in expectancy' <=>
            \/ l \in expectancy
            \/ label[l].status = "PENDING" /\ Labelled(w, l).status = "RESOLVED" /\ Labelled(w, l).authoritative
      BY <2>2 DEF TickCommitted
  <2>4. l \in expectancy <=> label[l].status = "RESOLVED" /\ label[l].authoritative
      BY DEF LedgerInv
  <2> HIDE DEF Labelled
  <2> QED BY <2>1, <2>3, <2>4
<1> QED BY <1>1, <1>2, <1>3, <1>4 DEF LedgerInv

\* A position that the runtime writes has nothing sold yet.
LEMMA LedgerOpened ==
    ASSUME ResolverAssumption, ResolverTypeOK, LedgerInv, NEW u \in Trades, PersistPosition(u), NEW t \in Trades
    PROVE  TradeBooked(t)'
<1>1. /\ events' = events /\ outcome' = outcome /\ expectancy' = expectancy /\ market' = market
      /\ pos[u].status = "NONE"
    BY DEF PersistPosition
<1>2. Parts(t)' = Parts(t) /\ Sold(t)' = Sold(t) /\ Won(t)' = Won(t)
    BY <1>1 DEF Parts, PartialExits, Sold, Won, Quantities, Proceeds
<1>3. TradeBooked(t)
    BY DEF LedgerInv
<1>4. CASE t # u
  <2>1. pos'[t] = pos[t]
      BY <1>4 DEF PersistPosition, ResolverTypeOK
  <2> QED BY <1>1, <1>2, <1>3, <2>1 DEF TradeBooked, SoldOut, Booked, Ambiguous, HitsStop, HitsTarget
<1>5. CASE t = u
  <2>1. PICK ev \in Evidence : pos' = [pos EXCEPT ![t] = [NoPosition EXCEPT
              !.status = "OPEN", !.at = now, !.rem = Quantity, !.costed = ev[1], !.linked = ev[2]]]
      BY <1>5 DEF PersistPosition
  <2>2. /\ pos'[t].status = "OPEN" /\ pos'[t].rem = Quantity /\ pos'[t].gross = 0 /\ pos'[t].cost = 0
      BY <2>1 DEF NoPosition, ResolverTypeOK
  <2>3. Parts(t) = {} /\ outcome[t] = NoOutcome /\ t \notin expectancy
      BY <1>1, <1>3, <1>5 DEF TradeBooked
  <2>4. Cardinality(Parts(t)) = 0 /\ IsFiniteSet(Parts(t))
      BY <2>3, FS_EmptySet
  <2>5. Won(t) = 0
    <3>1. Proceeds \in [Events -> Int]
        BY DEF Proceeds, LedgerInv, EventRows
    <3> QED BY <2>3, <2>4, <3>1, SumUnfolds DEF Won
  <2>6. 0 * SliceCost = 0 /\ Quantity - 0 = Quantity /\ 0 < Quantity
      BY DEF SliceCost, ResolverAssumption
  <2>7. Booked(pos'[t], 0, 0)
      BY <2>2, <2>6 DEF Booked
  <2>8. IsFiniteSet(Parts(t))' /\ Sold(t)' = Cardinality(Parts(t)')
      BY <1>2, <1>3 DEF TradeBooked
  <2> QED BY <1>1, <1>2, <2>2, <2>3, <2>4, <2>5, <2>7, <2>8 DEF TradeBooked, Booked
<1> QED BY <1>4, <1>5

\* Nothing happens to the rows of a trade.
LEMMA LedgerKept ==
    ASSUME LedgerInv, UNCHANGED <<market, pos, events, outcome, expectancy>>, NEW t \in Trades
    PROVE  TradeBooked(t)'
<1>1. Parts(t)' = Parts(t) /\ Sold(t)' = Sold(t) /\ Won(t)' = Won(t)
    BY DEF Parts, PartialExits, Sold, Won, Quantities, Proceeds
<1>2. TradeBooked(t)
    BY DEF LedgerInv
<1> QED BY <1>1, <1>2 DEF TradeBooked, SoldOut, Booked, Ambiguous, HitsStop, HitsTarget

LEMMA LedgerStep ==
    ASSUME ResolverAssumption, CostsAreCharged, ResolverTypeOK, LedgerInv, [ResolverNext]_resolverVars
    PROVE  LedgerInv'
<1>0. \A l \in Labels : l \in expectancy <=> label[l].status = "RESOLVED" /\ label[l].authoritative
    BY DEF LedgerInv
<1>1. ASSUME UNCHANGED <<market, pos, events, outcome, label, expectancy>>,
             \A v \in Tickers : \A a, b \in tick'[v].actions : a = b
      PROVE  LedgerInv'
  <2>1. \A t \in Trades : TradeBooked(t)'
      BY <1>1, LedgerKept
  <2> QED BY <1>1, <2>1 DEF LedgerInv
<1>2. CASE UNCHANGED resolverVars
    BY <1>1, <1>2 DEF resolverVars, ledger, LedgerInv
<1>3. CASE CandleCloses
    BY <1>1, <1>3 DEF CandleCloses, ledger, LedgerInv
<1>4. ASSUME NEW u \in Trades, PersistPosition(u) PROVE LedgerInv'
  <2>1. \A t \in Trades : TradeBooked(t)'
      BY <1>4, LedgerOpened
  <2>2. UNCHANGED <<market, now, events, outcome, label, expectancy, canonical, tick>>
      BY <1>4 DEF PersistPosition
  <2> QED BY <2>1, <2>2 DEF LedgerInv
<1>5. ASSUME NEW l \in Labels, PersistRejectObservation(l) PROVE LedgerInv'
    BY <1>1, <1>5 DEF PersistRejectObservation, ledger, LedgerInv
<1>6. ASSUME NEW l \in Labels, PersistRejectLabel(l) PROVE LedgerInv'
  <2>1. /\ UNCHANGED <<market, pos, events, outcome, expectancy, tick>> /\ label[l].status = "NONE"
      BY <1>6 DEF PersistRejectLabel
  <2>2. \A t \in Trades : TradeBooked(t)'
      BY <2>1, LedgerKept
  <2>3. label'[l].status = "PENDING" /\ \A k \in Labels : k # l => label'[k] = label[k]
      BY <1>6 DEF PersistRejectLabel, ResolverTypeOK, NoLabel
  <2>4. \A k \in Labels : k \in expectancy <=> label'[k].status = "RESOLVED" /\ label'[k].authoritative
      BY <1>0, <2>1, <2>3
  <2> QED BY <2>1, <2>2, <2>4 DEF LedgerInv
<1>7. ASSUME NEW w \in Tickers, NEW k, tick' = [tick EXCEPT ![w] = k], \A a, b \in k.actions : a = b,
             UNCHANGED <<market, now, ledger, canonical>>
      PROVE  LedgerInv'
  <2>1. \A v \in Tickers : tick'[v] = k \/ tick'[v] = tick[v]
      BY <1>7 DEF ResolverTypeOK
  <2> QED BY <1>1, <1>7, <2>1 DEF ledger, LedgerInv
<1>8. ASSUME NEW w \in Tickers, TickRead(w) PROVE LedgerInv'
  <2> DEFINE k == [NoTick EXCEPT !.pc = "fetch", !.open = OpenTrades, !.due = {l \in Labels : Due(l)}]
  <2>1. k.actions = {}
      BY DEF NoTick
  <2>2. tick' = [tick EXCEPT ![w] = k] /\ UNCHANGED <<market, now, ledger, canonical>>
      BY <1>8 DEF TickRead
  <2> HIDE DEF k
  <2> QED BY <1>7, <2>1, <2>2
<1>9. ASSUME NEW w \in Tickers, TickFetched(w) PROVE LedgerInv'
  <2>1. PICK missing \in Gaps, bad \in BOOLEAN, actions \in {{}} \cup {{a} : a \in Proposals(w)} :
            tick' = [tick EXCEPT ![w].pc = "commit", ![w].until = now,
                        ![w].missing = missing, ![w].bad = bad, ![w].actions = actions]
      BY <1>9 DEF TickFetched
  <2>2. \A a, b \in actions : a = b
      OBVIOUS
  <2> DEFINE k == [tick[w] EXCEPT !.pc = "commit", !.until = now, !.missing = missing, !.bad = bad,
                                  !.actions = actions]
  <2>3. /\ tick' = [tick EXCEPT ![w] = k]
        /\ UNCHANGED <<market, now, ledger, canonical>>
    <3>1. UNCHANGED <<market, now, ledger, canonical>>
        BY <1>9 DEF TickFetched
    <3>2. tick' = [tick EXCEPT ![w] = k]
        BY <2>1 DEF ResolverTypeOK
    <3> QED BY <3>1, <3>2
  <2>4. k.actions = actions
      BY DEF ResolverTypeOK, TickStates
  <2> HIDE DEF k
  <2> QED BY <1>7, <2>2, <2>3, <2>4
<1>10. ASSUME NEW w \in Tickers, TickAborted(w) PROVE LedgerInv'
  <2>1. NoTick.actions = {}
      BY DEF NoTick
  <2> QED BY <1>7, <1>10, <2>1 DEF TickAborted
<1>11. ASSUME NEW w \in Tickers, TickCommitted(w) PROVE LedgerInv'
    BY <1>11, LedgerCommitted
<1> QED BY <1>2, <1>3, <1>4, <1>5, <1>6, <1>8, <1>9, <1>10, <1>11 DEF ResolverNext

\* A campaign begins with no rows.
LEMMA LedgerBegins == ResolverAssumption /\ ResolverInit => LedgerInv
<1> SUFFICES ASSUME ResolverAssumption, ResolverInit PROVE LedgerInv
    OBVIOUS
<1>1. NoEvent \in EventRows
    BY DEF NoEvent, EventRows
<1>2. events \in [Events -> EventRows]
    BY <1>1 DEF ResolverInit
<1>3. ASSUME NEW t \in Trades PROVE TradeBooked(t)
  <2>1. Parts(t) = {}
      BY DEF ResolverInit, Parts, PartialExits, NoEvent
  <2>2. IsFiniteSet(Parts(t)) /\ Cardinality(Parts(t)) = 0
      BY <2>1, FS_EmptySet
  <2>3. Quantities \in [Events -> Int]
      BY <1>2 DEF Quantities, EventRows
  <2>4. Sold(t) = 0
      BY <2>1, <2>2, <2>3, SumUnfolds DEF Sold
  <2>5. pos[t].status = "NONE" /\ outcome[t] = NoOutcome /\ t \notin expectancy
      BY DEF ResolverInit, NoPosition
  <2> QED BY <2>1, <2>2, <2>4, <2>5 DEF TradeBooked
<1>4. \A w \in Tickers : tick[w].actions = {}
    BY DEF ResolverInit, NoTick
<1>5. \A l \in Labels : label[l].status = "NONE" /\ l \notin expectancy
    BY DEF ResolverInit, NoLabel
<1> QED BY <1>2, <1>3, <1>4, <1>5 DEF LedgerInv

\* What the ledger promises follows.
LEMMA BooksBalance == CostsAreCharged /\ ResolverTypeOK /\ LedgerInv => LedgerBalances
<1> SUFFICES ASSUME CostsAreCharged, ResolverTypeOK, LedgerInv PROVE LedgerBalances
    OBVIOUS
<1>1. ASSUME NEW t \in Trades
      PROVE  LET n == Cardinality(Parts(t)) IN
             /\ MapThenSumSet(LAMBDA e : events[e].qty, Parts(t)) = n /\ n \in Nat
             /\ MapThenSumSet(LAMBDA e : events[e].gross, Parts(t)) = Won(t) /\ Won(t) \in Int
  <2>1. /\ IsFiniteSet(Parts(t)) /\ Parts(t) \in SUBSET Events /\ events \in [Events -> EventRows]
        /\ Sold(t) = Cardinality(Parts(t))
      BY DEF LedgerInv, TradeBooked, Parts, PartialExits
  <2>2. Cardinality(Parts(t)) \in Nat
      BY <2>1, FS_CardinalityType
  <2>3. Proceeds \in [Events -> Int]
      BY <2>1 DEF Proceeds, EventRows
  <2>4. Won(t) \in Int
      BY <2>1, <2>3, SumUnfolds DEF Won
  <2> HIDE DEF Parts
  <2>5. MapThenSumSet(LAMBDA e : events[e].qty, Parts(t)) = Sold(t)
      BY <2>1, SoldIsSum DEF Sold
  <2>6. MapThenSumSet(LAMBDA e : events[e].gross, Parts(t)) = Won(t)
      BY <2>1, WonIsSum DEF Won
  <2> QED BY <2>1, <2>2, <2>4, <2>5, <2>6
<1>2. SlicesBalance
  <2> SUFFICES ASSUME NEW t \in Trades, pos[t].status # "NONE"
               PROVE  LET parts == PartialExits(events, t)
                          sold == MapThenSumSet(LAMBDA e : events[e].qty, parts)
                          won == MapThenSumSet(LAMBDA e : events[e].gross, parts)
                          last == IF pos[t].status = "CLOSED" THEN Quantity - sold ELSE 0
                      IN  /\ pos[t].rem + sold + last = Quantity
                          /\ pos[t].gross = won + pos[t].price * last
                          /\ outcome[t].settled <=> pos[t].status = "CLOSED"
                          /\ outcome[t].settled => outcome[t].gross = pos[t].gross
                          /\ outcome[t].complete =>
                                outcome[t].cost = EntryCost * Quantity + ExitCost * (Cardinality(parts) + 1)
      BY DEF SlicesBalance
  <2> DEFINE n == Cardinality(Parts(t))
             won == Won(t)
             last == IF pos[t].status = "CLOSED" THEN Quantity - n ELSE 0
  <2>1. /\ MapThenSumSet(LAMBDA e : events[e].qty, PartialExits(events, t)) = n
           /\ MapThenSumSet(LAMBDA e : events[e].gross, PartialExits(events, t)) = won
      BY <1>1 DEF Parts
  <2> SUFFICES /\ pos[t].rem + n + last = Quantity
               /\ pos[t].gross = won + pos[t].price * last
               /\ outcome[t].settled <=> pos[t].status = "CLOSED"
               /\ outcome[t].settled => outcome[t].gross = pos[t].gross
               /\ outcome[t].complete => outcome[t].cost = EntryCost * Quantity + ExitCost * (n + 1)
      BY <2>1 DEF Parts
  <2>2. /\ pos[t].price \in Int /\ n \in Nat /\ won \in Int /\ Quantity \in Int
        /\ pos[t].status \in {"OPEN", "CLOSED"} /\ TradeBooked(t)
    <3>1. pos[t] \in Positions /\ TradeBooked(t)
        BY DEF ResolverTypeOK, LedgerInv
    <3>2. pos[t].price \in Int /\ pos[t].status \in {"NONE", "OPEN", "CLOSED"}
        BY <3>1 DEF Positions, PositionStatuses
    <3>3. n \in Nat /\ won \in Int
        BY <1>1
    <3>4. Quantity \in Int
        BY DEF CostsAreCharged
    <3> QED BY <3>1, <3>2, <3>3, <3>4
  <2>3. CASE pos[t].status = "OPEN"
    <3>1. Booked(pos[t], n, won) /\ outcome[t] = NoOutcome
        BY <2>2, <2>3 DEF TradeBooked
    <3>2. pos[t].rem = Quantity - n /\ pos[t].gross = won /\ last = 0
        BY <2>3, <3>1 DEF Booked
    <3> QED BY <2>2, <2>3, <3>1, <3>2 DEF NoOutcome
  <2>4. CASE pos[t].status = "CLOSED"
    <3>1. SoldOut(pos[t], n, won) /\ outcome[t] = OutcomeOf(pos[t], n)
        BY <2>2, <2>4 DEF TradeBooked
    <3>2. /\ pos[t].rem = 0 /\ pos[t].gross = won + pos[t].price * (Quantity - n) /\ last = Quantity - n
          /\ Complete(pos[t]) => pos[t].cost = FullCost(n)
        BY <2>4, <3>1 DEF SoldOut
    <3>3. /\ outcome[t].settled /\ outcome[t].gross = pos[t].gross /\ outcome[t].cost = pos[t].cost
          /\ outcome[t].complete <=> Complete(pos[t])
        BY <3>1 DEF OutcomeOf
    <3> QED BY <2>2, <2>4, <3>2, <3>3 DEF FullCost
  <2> QED BY <2>2, <2>3, <2>4
<1>3. ExpectancyIsComplete
  <2>1. ASSUME NEW t \in Trades
        PROVE  t \in expectancy <=>
                 /\ pos[t].status = "CLOSED" /\ pos[t].linked
                 /\ pos[t].cost = FullCost(Cardinality(Parts(t)))
                 /\ pos[t].reason = "PROTECTIVE" \/ ~Ambiguous(pos[t].exit, pos[t].stop)
      BY DEF LedgerInv, TradeBooked, SoldOut
  <2>2. \A l \in Labels : l \in expectancy <=> label[l].status = "RESOLVED" /\ label[l].authoritative
      BY DEF LedgerInv
  <2> QED BY <2>1, <2>2 DEF ExpectancyIsComplete, FullCost, Parts
<1> QED BY <1>2, <1>3 DEF LedgerBalances

\* Whatever the market does, whatever actions are proposed, refused, replayed or
\* lost with a crash, and whichever process settles a position: what was sold and
\* what remains make up its quantity, its PnL is the sum of its slices, a complete
\* closure charges the entry once and every exit once, and exactly the complete
\* and linked results are expectancy evidence.  Something must be charged: where
\* all costs are zero, books that lack the last costs look like complete ones.
THEOREM LedgerAlwaysBalances ==
    ASSUME 0 < EntryCost + ExitCost
    PROVE  ResolverSpec => []LedgerBalances
<1>0. ResolverAssumption
    BY ResolverAssumption
<1>1. CostsAreCharged
    BY <1>0 DEF ResolverAssumption, CostsAreCharged
<1>2. ResolverInit => LedgerInv
    BY <1>0, LedgerBegins
<1>3. ResolverTypeOK /\ LedgerInv /\ [ResolverNext]_resolverVars => LedgerInv'
    BY <1>0, <1>1, LedgerStep
<1>4. ResolverTypeOK /\ LedgerInv => LedgerBalances
    BY <1>1, BooksBalance
<1> QED BY <1>2, <1>3, <1>4, ResolverTypes, PTL DEF ResolverSpec
=============================================================================
