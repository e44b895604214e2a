----------------------------- MODULE RemoteControl -----------------------------
(***************************************************************************)
(* The Telegram service: it polls the operator's updates, answers them     *)
(* and, once a mutation is confirmed, runs it through the Control Center.  *)
(* Of the guarded operation, whose steps and lease OperationLease has,     *)
(* only what its caller can tell is seen here.                             *)
(*                                                                         *)
(* Four SQLite files are committed one after the other: the replay store   *)
(* (reserved), the transport state (offset and answers), the confirmations *)
(* (conf) and the campaign database.  The service may die between any two  *)
(* of the commits, and each of them may fail.  An update's id is its       *)
(* position in the inbox; a confirmation's id is the update that asked for *)
(* it.                                                                     *)
(***************************************************************************)
EXTENDS CampaignState, Sequences

CONSTANTS
    CommandKinds, \* what the operator may send
    MaxUpdates    \* bound: updates the operator sends

VARIABLES
    inbox,     \* updates kept by Telegram's servers
    offset,    \* telegram_transport_state: updates acknowledged
    reserved,  \* replay_message_ids
    answers,   \* telegram_pending_deliveries
    told,      \* updates whose response reached the operator
    conf,      \* telegram_confirmations
    begun,     \* history: how often each confirmation was acted upon
    svc        \* where the service is

stores == <<offset, reserved, answers, told, conf>>
vars == <<campaign, inbox, stores, begun, svc>>

Updates == 1 .. MaxUpdates
Mutations == {"PAUSE", "RESUME", "RECOVERY"}
\* QUERY: help, status, health, report...; NOISE: not authorised or not parsed.
AllCommands == Mutations \cup {"QUERY", "NOISE", "CONFIRM", "CANCEL"}
Messages == [cmd : CommandKinds \ {"CONFIRM", "CANCEL"}, id : {0}]
            \cup [cmd : CommandKinds \cap {"CONFIRM", "CANCEL"}, id : Updates]
ConfStatuses == {"NONE", "PENDING", "CONSUMED", "CANCELLED", "EXPIRED"}

ASSUME TelegramAssumption ==
    CommandKinds \subseteq AllCommands /\ MaxUpdates \in Nat

NoConfirmation == [op |-> "PAUSE", run |-> 0, status |-> "NONE", result |-> "NONE"]
Down == [pc |-> "down", run |-> 0, todo |-> {}, result |-> "NONE"]

Init ==
    /\ campaign = [status |-> "RUNNING", run |-> 1]
    /\ inbox = <<>> /\ offset = 0
    /\ reserved = {} /\ answers = {} /\ told = {}
    /\ conf = [u \in Updates |-> NoConfirmation]
    /\ begun = [u \in Updates |-> 0]
    /\ svc = Down

\* The update being handled: the oldest of the batch.
Oldest(batch) == CHOOSE u \in batch : \A v \in batch : u <= v
Current == Oldest(svc.todo)
Message == inbox[Current]

Step(from, to) == svc.pc = from /\ svc' = [svc EXCEPT !.pc = to]
\* The rest of a batch; after the last update the service polls again.
Batch(todo) ==
    [svc EXCEPT !.pc = IF todo = {} THEN "poll" ELSE "update", !.todo = todo, !.result = "NONE"]
NextUpdate(from) == svc.pc = from /\ svc' = Batch(svc.todo \ {Current})
PollEnds(from) == svc.pc = from /\ svc' = Batch({})

\* The durable offset never moves back.
Acknowledged == IF Current > offset THEN Current ELSE offset

-----------------------------------------------------------------------------
(* The loop.                                                               *)

\* run_service: the stores are opened and what is still pending is sent first.
Start ==
    /\ svc.pc = "down"
    /\ svc' = [Down EXCEPT !.pc = "retry", !.todo = answers]
    /\ UNCHANGED <<campaign, inbox, stores, begun>>

\* Mutant: a response that could not be sent is dropped.
SendingDropped ==
    \/ told' = told \cup {Current} /\ answers' \in {answers, answers \ {Current}}
    \/ told' = told /\ answers' = answers \ {Current}

\* deliver_telegram_response and what follows: sent and marked, sent and not
\* marked, or not sent; a send that is reported as failed may have arrived.
Sending ==
    \/ told' = told \cup {Current} /\ answers' \in {answers, answers \ {Current}}
    \/ told' = told /\ answers' = answers

RetryPending ==
    /\ svc.pc = "retry"
    /\ IF svc.todo = {}
         THEN PollEnds("retry") /\ UNCHANGED <<answers, told>>
         ELSE svc' = [svc EXCEPT !.todo = @ \ {Current}] /\ Sending
    /\ UNCHANGED <<campaign, inbox, offset, reserved, conf, begun>>

\* The operator knows a confirmation's id from the response only.
Sendable == {m \in Messages : m.id # 0 => m.id \in told /\ inbox[m.id].cmd \in Mutations}

\* _safe_remote_config gives the active run, or UNAVAILABLE, for the whole
\* poll; getUpdates(offset) gives what was not acknowledged and what the
\* operator sent since, or fails.
Poll ==
    /\ svc.pc = "poll"
    /\ \E run \in {0, campaign.run}, new \in {<<>>} \cup {<<m>> : m \in Sendable} :
         /\ Len(inbox \o new) <= MaxUpdates
         /\ inbox' = inbox \o new
         /\ svc' = [Batch((offset + 1) .. Len(inbox')) EXCEPT !.run = run]
    /\ UNCHANGED <<campaign, stores, begun>>

\* A rejected update is acknowledged and not answered; if even that cannot be
\* written the poll is over.
Rejected ==
    /\ \/ NextUpdate("update") /\ offset' = Acknowledged
       \/ PollEnds("update") /\ offset' = offset
    /\ UNCHANGED <<campaign, inbox, reserved, answers, told, conf, begun>>

RejectUpdate ==
    /\ svc.pc = "update" /\ svc.todo # {} /\ (Message.cmd = "NOISE" \/ Current \in reserved)
    /\ Rejected

\* The replay store itself fails: the update is rejected as well.
ReserveFails ==
    /\ svc.pc = "update" /\ svc.todo # {} /\ Message.cmd # "NOISE" /\ Current \notin reserved
    /\ Rejected

\* reserve, then the audit row; without the row the update is rejected.
Reserve ==
    /\ svc.pc = "update" /\ svc.todo # {} /\ Message.cmd # "NOISE" /\ Current \notin reserved
    /\ reserved' = reserved \cup {Current}
    /\ \/ Step("update", "process") /\ offset' = offset
       \/ NextUpdate("update") /\ offset' = Acknowledged
       \/ PollEnds("update") /\ offset' = offset
    /\ UNCHANGED <<campaign, inbox, answers, told, conf, begun>>

-----------------------------------------------------------------------------
(* process_telegram_request.                                               *)

AnswerReady == Step("process", "persist")
\* A command that fails is answered like one that succeeds.
AnswerOnly ==
    /\ AnswerReady
    /\ UNCHANGED <<campaign, inbox, stores, begun>>

CreateConfirmation ==
    /\ svc.pc = "process" /\ Message.cmd \in Mutations /\ AnswerReady
    /\ conf' = [conf EXCEPT ![Current] =
                  [op |-> Message.cmd, run |-> svc.run, status |-> "PENDING", result |-> "NONE"]]
    /\ UNCHANGED <<campaign, inbox, offset, reserved, answers, told, begun>>

CancelConfirmation ==
    /\ svc.pc = "process" /\ Message.cmd = "CANCEL" /\ AnswerReady
    /\ conf[Message.id].run = svc.run /\ conf[Message.id].status = "PENDING"
    /\ conf' = [conf EXCEPT ![Message.id].status = "CANCELLED"]
    /\ UNCHANGED <<campaign, inbox, offset, reserved, answers, told, begun>>

\* Mutant: the status of the confirmation is not looked at.
ConsumeConfirmationAgain ==
    /\ svc.pc = "process" /\ Message.cmd = "CONFIRM"
    /\ conf[Message.id].status # "NONE"
    /\ \/ /\ conf' = [conf EXCEPT ![Message.id].status = "EXPIRED"] /\ AnswerReady
       \/ /\ conf[Message.id].run # svc.run
          /\ conf' = [conf EXCEPT ![Message.id].status = "CANCELLED"] /\ AnswerReady
       \/ /\ conf[Message.id].run = svc.run
          /\ conf' = [conf EXCEPT ![Message.id].status = "CONSUMED"] /\ Step("process", "execute")
    /\ UNCHANGED <<campaign, inbox, offset, reserved, answers, told, begun>>

\* One transaction; a confirmation that ran out, or is another run's, is
\* closed and answered, the others are consumed before anything is done.
ConsumeConfirmation ==
    /\ svc.pc = "process" /\ Message.cmd = "CONFIRM"
    /\ conf[Message.id].status = "PENDING"
    /\ \/ /\ conf' = [conf EXCEPT ![Message.id].status = "EXPIRED"] /\ AnswerReady
       \/ /\ conf[Message.id].run # svc.run
          /\ conf' = [conf EXCEPT ![Message.id].status = "CANCELLED"] /\ AnswerReady
       \/ /\ conf[Message.id].run = svc.run
          /\ conf' = [conf EXCEPT ![Message.id].status = "CONSUMED"] /\ Step("process", "execute")
    /\ UNCHANGED <<campaign, inbox, offset, reserved, answers, told, begun>>

\* execute_paper_action: the active run must still be the trusted one, and a
\* recovery must be asked for by the campaign.
Concluded(code) == svc' = [svc EXCEPT !.pc = "record", !.result = code]
CheckTarget ==
    /\ svc.pc = "execute"
    /\ \/ Concluded("FAILED")
       \/ /\ campaign.run = svc.run /\ conf[Message.id].op # "RECOVERY"
          /\ Step("execute", "control")
       \/ /\ campaign.run = svc.run /\ conf[Message.id].op = "RECOVERY"
          /\ campaign.status = "RECOVERY_REQUIRED" /\ Step("execute", "drill")
    /\ UNCHANGED <<campaign, inbox, stores, begun>>

Acts == begun' = [begun EXCEPT ![Message.id] = @ + 1]

\* ControlCenterService.control: refused, or the command takes effect or
\* not and is, or is not, verified afterwards.
Control ==
    /\ svc.pc = "control" /\ Acts
    /\ LET op == IF conf[Message.id].op = "PAUSE" THEN "pause" ELSE "resume"
       IN \/ UNCHANGED campaign /\ Concluded("FAILED")
          \/ Allowed(op) /\ CliEffect(op) /\ \E r \in {"SUCCESS", "FAILED"} : Concluded(r)
    /\ UNCHANGED <<inbox, stores>>

\* The drill, in a process of its own and without the lease, resumes the
\* campaign or fails; its report and the status after it are both read.
RunDrill ==
    /\ svc.pc = "drill" /\ Acts
    /\ \/ UNCHANGED campaign /\ Concluded("FAILED")
       \/ NextContinuation /\ \E r \in {"SUCCESS", "FAILED"} : Concluded(r)
    /\ UNCHANGED <<inbox, stores>>

\* record_confirmation_result, or its failure; both are answered.
RecordResult ==
    /\ Step("record", "persist")
    /\ \/ conf' = [conf EXCEPT ![Message.id].result = svc.result]
       \/ conf' = conf
    /\ UNCHANGED <<campaign, inbox, offset, reserved, answers, told, begun>>

-----------------------------------------------------------------------------
(* Answering.                                                              *)

\* One transaction for the response and the offset; if it fails the poll is
\* over and the update, reserved by now, will be rejected as a duplicate.
PersistAnswer ==
    /\ \/ /\ Step("persist", "send")
          /\ answers' = answers \cup {Current} /\ offset' = Acknowledged
       \/ UNCHANGED <<answers, offset>> /\ PollEnds("persist")
    /\ UNCHANGED <<campaign, inbox, reserved, told, conf, begun>>

SendAnswer ==
    /\ NextUpdate("send") /\ Sending
    /\ UNCHANGED <<campaign, inbox, offset, reserved, conf, begun>>

-----------------------------------------------------------------------------
(* The world.                                                              *)

\* The service dies; its stores are all that is left of it.
Crash ==
    /\ svc.pc # "down" /\ svc' = Down
    /\ UNCHANGED <<campaign, inbox, stores, begun>>

CampaignChanges ==
    /\ CampaignMoves
    /\ UNCHANGED <<inbox, stores, begun, svc>>

Next ==
    \/ Start \/ RetryPending \/ Poll
    \/ RejectUpdate \/ ReserveFails \/ Reserve
    \/ AnswerOnly \/ CreateConfirmation \/ CancelConfirmation \/ ConsumeConfirmation
    \/ CheckTarget \/ Control \/ RunDrill \/ RecordResult
    \/ PersistAnswer \/ SendAnswer
    \/ Crash \/ CampaignChanges

Spec == Init /\ [][Next]_vars

-----------------------------------------------------------------------------
(* Properties                                                              *)

Pcs == {"down", "retry", "poll", "update", "process", "execute", "control",
        "drill", "record", "persist", "send"}
Outcomes == {"NONE", "SUCCESS", "FAILED"}
Confirmations == [op : Mutations, run : 0 .. MaxRuns, status : ConfStatuses, result : Outcomes]
Services == [pc : Pcs, run : 0 .. MaxRuns, todo : SUBSET Updates, result : Outcomes]

TypeOK ==
    /\ campaign \in Campaigns
    /\ inbox \in Seq(Messages) /\ Len(inbox) <= MaxUpdates
    /\ offset \in 0 .. Len(inbox)
    /\ reserved \subseteq 1 .. Len(inbox) /\ answers \subseteq reserved /\ told \subseteq reserved
    /\ conf \in [Updates -> Confirmations]
    /\ begun \in [Updates -> Nat]
    /\ svc \in Services

\* A confirmation is acted upon at most once, and only after the operator was
\* told of it and it was consumed, however often updates are delivered again,
\* confirmed again or interrupted by a crash (consume_confirmation).
ConfirmedOnce ==
    \A u \in Updates :
        /\ begun[u] <= 1
        /\ begun[u] = 1 => u \in told /\ conf[u].status = "CONSUMED"

\* A response that was persisted is forgotten only once the operator has it
\* (persist_pending_with_offset, mark_delivered).
AnswersAreKept == [][\A u \in answers \ answers' : u \in told']_vars
=============================================================================
