---------------------------- MODULE OperationLease ----------------------------
(***************************************************************************)
(* The Control Center's guarded pause and resume of a campaign             *)
(* (ControlCenterService.control) and the directory that keeps two         *)
(* processes from operating on one campaign at the same time.              *)
(*                                                                         *)
(* The lease is a directory holding owner.json.  mkdir, the write of the   *)
(* owner and a rename are each atomic; nothing else is, so the steps of    *)
(* _acquire_lease and _release_lease interleave here one file operation at *)
(* a time, and a process may die between any two of them.  A directory is  *)
(* a number: the token in its owner.json, 0 before one is written.         *)
(*                                                                         *)
(* A process runs one operation at a time: the second request finds the    *)
(* class-level thread lock taken and is refused with no effect.  An        *)
(* operation is shorter than lease_stale_seconds (a CLI timeout of 30 s    *)
(* and a pause wait of 2 s against 120 s), so only a dead owner's lease    *)
(* grows old.                                                              *)
(***************************************************************************)
EXTENDS CampaignState, FiniteSets

CONSTANTS
    Clients,     \* processes with a ControlCenterService
    MaxOps,      \* bound: control requests
    MaxDeaths    \* bound: process deaths

ASSUME LeaseAssumption ==
    /\ IsFiniteSet(Clients)
    /\ MaxOps \in Nat /\ MaxDeaths \in Nat

VARIABLES
    path,      \* the lease directory of the campaign
    aside,     \* the directory each process renamed out of the way
    ops,       \* operation ids handed out so far
    old,       \* ids whose lease is older than lease_stale_seconds
    client,    \* what each process is doing
    deaths     \* process deaths so far

leaseVars == <<path, aside, ops, old, client, campaign, deaths>>

Absent == -1
Tokens == 1 .. MaxOps

Idle == [pc |-> "idle", op |-> "pause", token |-> 0, seen |-> 0, result |-> "NONE"]

LeaseInit ==
    /\ path = Absent /\ aside = [c \in Clients |-> Absent]
    /\ ops = 0 /\ old = {}
    /\ client = [c \in Clients |-> Idle]
    /\ campaign = [status |-> "RUNNING", run |-> 1]
    /\ deaths = 0

ClientAt(c, pc) == client[c].pc = pc
Goto(c, pc) == client' = [client EXCEPT ![c].pc = pc]
\* The operation is over; what it found is what its caller is told.
Ended(c, result) == client' = [client EXCEPT ![c].pc = "done", ![c].result = result]

-----------------------------------------------------------------------------
(* Acquiring.                                                              *)

ControlBegin(c, op) ==
    /\ ClientAt(c, "idle") /\ ops < MaxOps
    /\ ops' = ops + 1
    /\ client' = [client EXCEPT ![c] = [Idle EXCEPT !.pc = "mkdir", !.op = op, !.token = ops + 1]]
    /\ UNCHANGED <<path, aside, old, campaign, deaths>>

\* _write_lease, first half; `blocked` is where a directory in the way leads.
Mkdir(c, from, to, blocked) ==
    /\ ClientAt(c, from)
    /\ IF path = Absent THEN path' = 0 /\ Goto(c, to) ELSE path' = path /\ Goto(c, blocked)
    /\ UNCHANGED <<aside, ops, old, campaign, deaths>>

\* _write_lease, second half: owner.json of whatever directory is at the
\* path; `lost` is what happens when there is none any more.
WriteOwner(c, from, to, lost) ==
    /\ ClientAt(c, from)
    /\ IF path # Absent THEN path' = client[c].token /\ Goto(c, to) ELSE path' = path /\ lost
    /\ UNCHANGED <<aside, ops, old, campaign, deaths>>

FreshMkdir(c) == Mkdir(c, "mkdir", "own", "inspect")
\* Anything but FileExistsError leaves _acquire_lease as it is.
FreshOwner(c) == WriteOwner(c, "own", "check", Ended(c, "FAILED"))

\* Mutant: the age of the lease is not looked at.
InspectAnyAge(c) ==
    /\ ClientAt(c, "inspect")
    /\ IF path \in Tokens
         THEN client' = [client EXCEPT ![c].pc = "take", ![c].seen = path]
         ELSE Ended(c, "REFUSED")
    /\ UNCHANGED <<path, aside, ops, old, campaign, deaths>>

\* A lease without a readable owner is never taken over, a young one neither.
Inspect(c) ==
    /\ ClientAt(c, "inspect")
    /\ IF path \in old
         THEN client' = [client EXCEPT ![c].pc = "take", ![c].seen = path]
         ELSE Ended(c, "REFUSED")
    /\ UNCHANGED <<path, aside, ops, old, campaign, deaths>>

\* path.replace(quarantine), for a takeover and for a release.
SetAside(c, from, to, missing) ==
    /\ ClientAt(c, from)
    /\ IF path = Absent
         THEN UNCHANGED <<path, aside>> /\ missing
         ELSE path' = Absent /\ aside' = [aside EXCEPT ![c] = path] /\ Goto(c, to)
    /\ UNCHANGED <<ops, old, campaign, deaths>>

\* Mutant: the moved directory is not looked at again.
VerifyTrusting(c) ==
    /\ ClientAt(c, "verify")
    /\ Goto(c, "mkdir2")
    /\ UNCHANGED <<path, aside, ops, old, campaign, deaths>>

\* The directory that moved must be the one that was read.
Verify(c) ==
    /\ ClientAt(c, "verify")
    /\ \/ aside[c] = client[c].seen /\ Goto(c, "mkdir2")
       \/ aside[c] # client[c].seen /\ path = Absent /\ Goto(c, "restore")
       \/ aside[c] # client[c].seen /\ path # Absent /\ Ended(c, "REFUSED")
    /\ UNCHANGED <<path, aside, ops, old, campaign, deaths>>

\* quarantine.replace(path): onto nothing or onto an empty directory; any
\* other directory at the path makes it fail and the moved one stays aside.
Restore(c) ==
    /\ ClientAt(c, "restore")
    /\ IF path \in {Absent, 0}
         THEN path' = aside[c] /\ aside' = [aside EXCEPT ![c] = Absent]
         ELSE UNCHANGED <<path, aside>>
    /\ Ended(c, IF client[c].result = "NONE" THEN "REFUSED" ELSE client[c].result)
    /\ UNCHANGED <<ops, old, campaign, deaths>>

TakeOver(c) == SetAside(c, "take", "verify", Ended(c, "REFUSED"))
TakenMkdir(c) == Mkdir(c, "mkdir2", "own2", "blocked")
TakenOwner(c) == WriteOwner(c, "own2", "drop", Goto(c, "blocked"))
\* The new lease could not be written: put the old one back if nobody is there.
TakeOverBlocked(c) ==
    /\ ClientAt(c, "blocked")
    /\ IF path = Absent THEN Goto(c, "restore") ELSE Ended(c, "REFUSED")
    /\ UNCHANGED <<path, aside, ops, old, campaign, deaths>>
DropStale(c) ==
    /\ ClientAt(c, "drop")
    /\ aside' = [aside EXCEPT ![c] = Absent]
    /\ Goto(c, "check")
    /\ UNCHANGED <<path, ops, old, campaign, deaths>>

-----------------------------------------------------------------------------
(* Operating.                                                              *)

\* The command is run for a campaign that passes; anything else is audited.
CheckState(c) ==
    /\ ClientAt(c, "check")
    /\ \/ Allowed(client[c].op) /\ Goto(c, "command")
       \/ client' = [client EXCEPT ![c].pc = "audit", ![c].result = "REFUSED"]
    /\ UNCHANGED <<path, aside, ops, old, campaign, deaths>>

\* The CLI runs in a process of its own; it may fail or be killed by the
\* timeout before or after it committed.
RunCommand(c) ==
    /\ ClientAt(c, "command")
    /\ \/ CliEffect(client[c].op) /\ Goto(c, "postcheck")
       \/ CliEffect(client[c].op) /\ client' = [client EXCEPT ![c].pc = "audit", ![c].result = "FAILED"]
       \/ campaign' = campaign /\ client' = [client EXCEPT ![c].pc = "audit", ![c].result = "FAILED"]
    /\ UNCHANGED <<path, aside, ops, old, deaths>>

\* _poll_pause_postcondition, or one status read after a resume; the worker
\* may not be seen to have stopped, or to be healthy, in time.
PostCheck(c) ==
    /\ ClientAt(c, "postcheck")
    /\ \/ /\ campaign.status = Expected(client[c].op)
          /\ client' = [client EXCEPT ![c].pc = "audit", ![c].result = "SUCCESS"]
       \/ client' = [client EXCEPT ![c].pc = "audit", ![c].result = "FAILED"]
    /\ UNCHANGED <<path, aside, ops, old, campaign, deaths>>

\* The audit line; without it a success is not reported as one.
Audit(c) ==
    /\ ClientAt(c, "audit")
    /\ \/ Goto(c, "release")
       \/ /\ client[c].result = "SUCCESS"
          /\ client' = [client EXCEPT ![c].pc = "release", ![c].result = "FAILED"]
    /\ UNCHANGED <<path, aside, ops, old, campaign, deaths>>

-----------------------------------------------------------------------------
(* Releasing.                                                              *)

ReleaseCheck(c) ==
    /\ ClientAt(c, "release")
    /\ IF path = client[c].token THEN Goto(c, "giveup") ELSE Goto(c, "done")
    /\ UNCHANGED <<path, aside, ops, old, campaign, deaths>>
GiveUp(c) == SetAside(c, "giveup", "verify2", Goto(c, "done"))
\* Only the process's own directory is deleted.
ReleaseVerify(c) ==
    /\ ClientAt(c, "verify2")
    /\ \/ /\ aside[c] = client[c].token
          /\ aside' = [aside EXCEPT ![c] = Absent] /\ Goto(c, "done")
       \/ aside[c] # client[c].token /\ aside' = aside
          /\ Goto(c, IF path = Absent THEN "restore" ELSE "done")
    /\ UNCHANGED <<path, ops, old, campaign, deaths>>

\* control returns or raises: the thread lock is free again.
ControlReturn(c) ==
    /\ ClientAt(c, "done")
    /\ client' = [client EXCEPT ![c] = [Idle EXCEPT !.result = client[c].result]]
    /\ aside' = [aside EXCEPT ![c] = Absent]
    /\ UNCHANGED <<path, ops, old, campaign, deaths>>

-----------------------------------------------------------------------------
(* Everything else.                                                        *)

\* The process dies and is started again; its directories stay, and the one
\* it had set aside is nobody's any more.
Death(c) ==
    /\ ~ ClientAt(c, "idle") /\ deaths < MaxDeaths
    /\ deaths' = deaths + 1
    /\ client' = [client EXCEPT ![c] = Idle]
    /\ aside' = [aside EXCEPT ![c] = Absent]
    /\ UNCHANGED <<path, ops, old, campaign>>

LeaseAges(t) ==
    /\ t \in 1 .. ops /\ t \notin old
    /\ \A c \in Clients : client[c].token # t
    /\ old' = old \cup {t}
    /\ UNCHANGED <<path, aside, ops, client, campaign, deaths>>

ClientSteps(c) ==
    \/ FreshMkdir(c) \/ FreshOwner(c) \/ Inspect(c)
    \/ TakeOver(c) \/ Verify(c) \/ Restore(c)
    \/ TakenMkdir(c) \/ TakenOwner(c) \/ TakeOverBlocked(c) \/ DropStale(c)
    \/ CheckState(c) \/ RunCommand(c) \/ PostCheck(c) \/ Audit(c)
    \/ ReleaseCheck(c) \/ GiveUp(c) \/ ReleaseVerify(c)

LeaseNext ==
    \/ \E c \in Clients :
          ClientSteps(c) \/ ControlReturn(c) \/ Death(c) \/ \E op \in Operations : ControlBegin(c, op)
    \/ \E t \in Tokens : LeaseAges(t)
    \/ CampaignMoves /\ UNCHANGED <<path, aside, ops, old, client, deaths>>

LeaseSpec == LeaseInit /\ [][LeaseNext]_leaseVars

-----------------------------------------------------------------------------
(* Properties                                                              *)

Working == {"check", "command", "postcheck", "audit"}

\* "serializes campaign operations": no two guarded operations run on one
\* campaign at once (docs/CONTROL_CENTER_RUNTIME_MAPPING.md:49).  Once a dead
\* process's lease has grown old, taking it over may let two of them in.
OperationsAreSerialized == Cardinality({c \in Clients : client[c].pc \in Working}) <= 1

\* Two guarded operations at once on one campaign need a process that died and
\* a lease that has grown old (ControlCenterService.control).
OneOperation == deaths = 0 \/ old = {} => OperationsAreSerialized

\* "never delete a replacement lease" (_release_lease): a directory that is
\* deleted is the deleter's own or that of an operation that is over.
DeletesOnlyItsOwn ==
    [][\A c \in Clients :
         aside[c] \in Tokens /\ aside'[c] = Absent /\ client'[c].pc = "check"
           => \A d \in Clients : client[d].token # aside[c]]_leaseVars
=============================================================================
