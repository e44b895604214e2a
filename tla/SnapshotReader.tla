--------------------------- MODULE SnapshotReader ---------------------------
(***************************************************************************)
(* ReadonlySnapshotReader (src/alphaforge/readonly_snapshot_reader.py):    *)
(* the boundary between the event loop and the thread that runs a blocking *)
(* provider.snapshot().  Cancelling the awaiting task abandons the result  *)
(* and not the thread, so a later read can find the earlier thread still   *)
(* running, or finished with a result nobody may use any more.             *)
(*                                                                         *)
(* The event loop is single-threaded: between two awaits a call is one     *)
(* step.  Only ThreadDone runs outside it.                                 *)
(***************************************************************************)
EXTENDS Naturals

VARIABLES pending,  \* self._pending: no Future, one not done, or one done
          waiting,  \* self._waiting: a read() awaits the Future
          closed,   \* self._closed
          threads,  \* fetch threads that have not finished
          own       \* the Future was created by the read() that awaits it

readerVars == <<pending, waiting, closed, threads, own>>

ReaderTypeOK ==
    /\ pending \in {"none", "busy", "done"}
    /\ waiting \in BOOLEAN /\ closed \in BOOLEAN /\ own \in BOOLEAN
    /\ threads \in Nat

Init ==
    /\ pending = "none"
    /\ waiting = FALSE
    /\ closed = FALSE
    /\ threads = 0
    /\ own = FALSE

\* read() goes on past its two checks.
MayBegin == ~ closed /\ ~ waiting /\ pending # "busy"

\* A new Future replaces whatever completed result was left, and its thread
\* starts.
Begin ==
    /\ MayBegin
    /\ pending' = "busy"
    /\ threads' = threads + 1
    /\ waiting' = TRUE
    /\ own' = TRUE
    /\ UNCHANGED closed

\* A provider thread sets its result; the pending Future's when it is alone.
ThreadDone ==
    /\ threads > 0
    /\ threads' = threads - 1
    /\ pending' = IF threads = 1 /\ pending = "busy" THEN "done" ELSE pending
    /\ UNCHANGED <<waiting, closed, own>>

\* The awaiting read() resumes with the result; after close() it only raises.
Accept ==
    /\ waiting /\ pending = "done"
    /\ pending' = "none"
    /\ waiting' = FALSE
    /\ own' = FALSE
    /\ UNCHANGED <<closed, threads>>

\* The awaiting task is cancelled (timeout or shutdown), result or not.
Abandon ==
    /\ waiting
    /\ waiting' = FALSE
    /\ own' = FALSE
    /\ UNCHANGED <<pending, closed, threads>>

\* close(): no read begins any more ...
CloseStart ==
    /\ ~ closed
    /\ closed' = TRUE
    /\ UNCHANGED <<pending, waiting, threads, own>>

\* ... and it returns True once the pending Future, if any, is done,
CloseQuiescent ==
    /\ closed /\ pending # "busy"
    /\ pending' = "none"
    /\ UNCHANGED <<waiting, closed, threads, own>>

\* or False when the timeout passes first.
CloseTimeout ==
    /\ closed /\ pending = "busy"
    /\ UNCHANGED readerVars

Next ==
    \/ Begin \/ ThreadDone \/ Accept \/ Abandon
    \/ CloseStart \/ CloseQuiescent \/ CloseTimeout

Spec == Init /\ [][Next]_readerVars
-----------------------------------------------------------------------------
\* At most one provider thread exists, and it is the pending Future's: a read
\* that was abandoned blocks later reads until its thread is finished.
SingleFlight == threads = IF pending = "busy" THEN 1 ELSE 0

\* The result read() returns was fetched for that very call; a result whose
\* call was cancelled is never handed to a later one.
FreshResult == waiting => own
=============================================================================
