--------------------------- MODULE SchemaBootstrap ---------------------------
(***************************************************************************)
(* Opening the database (src/alphaforge/persistence.py, init_db) with the  *)
(* schema doctor before and after it (src/alphaforge/schema_doctor.py).    *)
(*                                                                         *)
(* Every program opens the same file this way, so several openings overlap *)
(* and each may die between two commits.  DDL commits statement by         *)
(* statement; the doctor's migration is one explicit transaction, but what *)
(* it decides from was read before the transaction began.                  *)
(*                                                                         *)
(* positions and orders are handled alike and stand here as one exposure   *)
(* table.  What a row says of its exposure depends on the column that says *)
(* it: the canonical status, a legacy state, or the absence of a legacy    *)
(* closing time.  truth is what was really open when the row was written;  *)
(* this code reads the two tables and migrates them, it adds no rows.      *)
(***************************************************************************)
EXTENDS Naturals

CONSTANTS Openers,    \* processes that call init_db
          Rows,       \* rows the exposure table may have
          MaxCrashes  \* bound on deaths and restarts

VARIABLES file,    \* the database file
          truth,   \* what each row's position or order really is
          opener,  \* where each process is in init_db, and what it has read
          crashes

schemaVars == <<file, truth, opener, crashes>>

Shapes == {"nofile", "missing", "opaque", "state", "closed", "domain", "status"}
\* How the rows may be worded, per shape of the table.
Words == [state |-> {"raw_open", "raw_closed", "raw_odd"},
          closed |-> {"null", "stamp"},
          status |-> {"OPEN", "CLOSED", "ODD"},
          domain |-> {"size"}]
AllWords == {"none", "raw_open", "raw_closed", "raw_odd", "null", "stamp",
             "OPEN", "CLOSED", "ODD", "size"}
WordsOf(shape) == {"none"} \cup (IF shape \in DOMAIN Words THEN Words[shape] ELSE {})

\* ACTIVE_STATES and its complement: what a worded row means.
Meaning(w) ==
    CASE w = "none" -> "absent"
      [] w \in {"raw_open", "null", "OPEN"} -> "open"
      [] w \in {"raw_closed", "stamp", "CLOSED"} -> "closed"
      [] OTHER -> "unknown"

\* shape: the exposure tables; others: other tables exist; ours: init_db made
\* the file; mark: what schema_migrations says of the doctor's versions; labels
\* and lifecycle: whether the optional tables lack columns they need.
Files == [shape : Shapes, others : BOOLEAN, ours : BOOLEAN, rows : [Rows -> AllWords],
          mark : {"none", "ok", "failed", "forged"},
          labels : {"ok", "old"}, lifecycle : {"ok", "old"}]

NoRows == [r \in Rows |-> "none"]
NoFileYet == [shape |-> "nofile", others |-> FALSE, ours |-> FALSE, rows |-> NoRows,
              mark |-> "none", labels |-> "ok", lifecycle |-> "ok"]

\* Files that exist when the first program starts: of any age and shape, and
\* possibly of another program.
Found ==
    {f \in Files :
       /\ ~ f.ours
       /\ f.shape = "nofile" => f = NoFileYet
       /\ f.shape \notin {"nofile", "missing"} => f.others
       /\ ~ f.others => f.mark = "none" /\ f.labels = "ok" /\ f.lifecycle = "ok"
       /\ f.mark = "ok" => f.shape = "status"
       /\ \A r \in Rows : f.rows[r] \in WordsOf(f.shape)}

Places == {"idle", "inspect", "integrity", "migrate", "validate", "connect", "early",
           "exposure", "upgrade", "open", "blocked", "raised"}
\* fresh: the path was empty; last: the second pass of the doctor; seen: the
\* inspection report; held: the migration record as it was read.
Openings == [at : Places, fresh : BOOLEAN, last : BOOLEAN, seen : Files,
             held : {"none", "ok", "failed", "forged"}]

SchemaInit ==
    /\ file \in Found
    /\ truth = [r \in Rows |-> Meaning(file.rows[r])]
    /\ opener = [p \in Openers |-> [at |-> "idle", fresh |-> FALSE, last |-> FALSE,
                                    seen |-> NoFileYet, held |-> "none"]]
    /\ crashes = 0

Goes(p, place) == opener' = [opener EXCEPT ![p].at = place]
-----------------------------------------------------------------------------
\* init_db looks whether the path exists; an existing file is inspected first.
Look(p) ==
    /\ opener[p].at = "idle"
    /\ opener' = [opener EXCEPT ![p] = [@ EXCEPT !.fresh = file.shape = "nofile",
                                        !.last = FALSE,
                                        !.at = IF file.shape = "nofile" THEN "connect"
                                               ELSE "inspect"]]
    /\ UNCHANGED <<file, truth, crashes>>

UnknownRows(f) == \E r \in Rows : Meaning(f.rows[r]) = "unknown"

\* Mutant: an existing file is bootstrapped like a fresh one.
RefusedUnlessOpaque(f, fresh) ==
    \/ f.shape = "opaque"
    \/ f.shape = "domain" /\ \E r \in Rows : f.rows[r] # "none"
    \/ f.shape = "status" /\ UnknownRows(f)

\* ensure_database_schema refuses on the report alone; fresh allows it to
\* bootstrap.  Rows are read through a status column only.
Refused(f, fresh) ==
    \/ f.shape = "opaque"
    \/ f.shape = "domain" /\ \E r \in Rows : f.rows[r] # "none"
    \/ f.shape \in {"nofile", "missing"} /\ (f.others \/ ~ fresh)
    \/ f.shape = "status" /\ UnknownRows(f)

\* The doctor's verdict ends init_db on the first pass; on the second nobody
\* looks at it.
Verdict(p, blocked) ==
    IF opener[p].last THEN "open" ELSE IF blocked THEN "blocked" ELSE "connect"

Inspect(p) ==
    /\ opener[p].at = "inspect"
    /\ opener' = [opener EXCEPT ![p].seen = file,
                                ![p].at = IF Refused(file, opener[p].fresh /\ opener[p].last)
                                          THEN Verdict(p, TRUE) ELSE "integrity"]
    /\ UNCHANGED <<file, truth, crashes>>

\* _migration_integrity, on the connection that will migrate but before BEGIN.
Integrity(p) ==
    /\ opener[p].at = "integrity"
    /\ opener' = [opener EXCEPT ![p].held = file.mark,
                                ![p].at = IF file.mark \in {"failed", "forged"}
                                          THEN Verdict(p, TRUE) ELSE "migrate"]
    /\ UNCHANGED <<file, truth, crashes>>

\* Mutant: the new column is not filled where the legacy column has no value.
AdaptedByValue(w) == IF w = "null" THEN "CLOSED" ELSE
    CASE Meaning(w) = "open" -> "OPEN"
      [] Meaning(w) = "closed" -> "CLOSED"
      [] Meaning(w) = "absent" -> "none"
      [] OTHER -> "ODD"

\* The status a row is given from its legacy column.
Adapted(w) ==
    CASE Meaning(w) = "open" -> "OPEN"
      [] Meaning(w) = "closed" -> "CLOSED"
      [] Meaning(w) = "absent" -> "none"
      [] OTHER -> "ODD"

\* The file after the transaction: tables of a trusted domain database are
\* created beside it, and a status column is added where the transaction itself
\* finds none.
Migrated(f) ==
    [f EXCEPT !.shape = "status", !.labels = "ok", !.mark = "ok",
              !.rows = IF f.shape = "status" THEN @
                       ELSE IF f.shape = "domain" THEN NoRows
                       ELSE [r \in Rows |-> Adapted(@[r])]]

\* BEGIN to COMMIT.  It is undone and raises when the lock is not to be had,
\* when a column the report misses has been added since, or when another
\* opening has recorded the migration since.
Migrate(p) ==
    /\ opener[p].at = "migrate"
    /\ \/ Goes(p, "raised") /\ UNCHANGED file
       \/ /\ opener[p].seen.labels = "old" => file.labels = "old"
          /\ opener[p].held = "none" => file.mark = "none"
          /\ IF UnknownRows(Migrated(file))
             THEN Goes(p, Verdict(p, TRUE)) /\ UNCHANGED file
             ELSE Goes(p, "validate") /\ file' = Migrated(file)
    /\ UNCHANGED <<truth, crashes>>

\* validate_required_schema.
Invalid(f) ==
    \/ f.mark \in {"failed", "forged"}
    \/ f.shape # "status" \/ UnknownRows(f)
    \/ f.labels = "old" \/ f.lifecycle = "old"

Validate(p) ==
    /\ opener[p].at = "validate"
    /\ Goes(p, Verdict(p, Invalid(file)))
    /\ UNCHANGED <<file, truth, crashes>>
-----------------------------------------------------------------------------
\* The first connection creates the file.
Connect(p) ==
    /\ opener[p].at = "connect"
    /\ file' = IF file.shape = "nofile" THEN [file EXCEPT !.shape = "missing", !.ours = TRUE]
               ELSE file
    /\ Goes(p, "early")
    /\ UNCHANGED <<truth, crashes>>

\* CREATE TABLE IF NOT EXISTS, for the tables before positions and orders.
CreateEarly(p) ==
    /\ opener[p].at = "early"
    /\ file' = [file EXCEPT !.others = TRUE]
    /\ Goes(p, "exposure")
    /\ UNCHANGED <<truth, crashes>>

\* CREATE TABLE IF NOT EXISTS for positions and orders.
CreateExposure(p) ==
    /\ opener[p].at = "exposure"
    /\ file' = [file EXCEPT !.shape = IF @ = "missing" THEN "status" ELSE @]
    /\ Goes(p, "upgrade")
    /\ UNCHANGED <<truth, crashes>>

\* Columns are added where they are missing.
Upgraded(f) == [f EXCEPT !.labels = "ok", !.lifecycle = "ok"]

\* The rest of init_db before the doctor's second pass: _apply_sqlite_migrations
\* and the tables the runtime's modules own.
Upgrade(p) ==
    /\ opener[p].at = "upgrade"
    /\ file' = Upgraded(file)
    /\ opener' = [opener EXCEPT ![p].at = "inspect", ![p].last = TRUE]
    /\ UNCHANGED <<truth, crashes>>

\* A process dies, or comes back after it gave up.
Crash(p) ==
    /\ crashes < MaxCrashes
    /\ opener[p].at # "idle"
    /\ Goes(p, "idle")
    /\ crashes' = crashes + 1
    /\ UNCHANGED <<file, truth>>

SchemaNext ==
    \E p \in Openers :
       \/ Look(p) \/ Inspect(p) \/ Integrity(p) \/ Migrate(p) \/ Validate(p)
       \/ Connect(p) \/ CreateEarly(p) \/ CreateExposure(p) \/ Upgrade(p)
       \/ Crash(p)

SchemaSpec == SchemaInit /\ [][SchemaNext]_schemaVars
-----------------------------------------------------------------------------
\* Whoever has the database open reads from its status columns exactly what is
\* open, whatever the file's age, however openings overlap and wherever earlier
\* ones died (runtime recovery counts exposure from these columns alone).
ExposureIsCounted ==
    \A p \in Openers : opener[p].at = "open" =>
        /\ file.shape = "status"
        /\ \A r \in Rows : Meaning(file.rows[r]) = truth[r] /\ truth[r] # "unknown"

\* A file found in a state the doctor cannot vouch for.
Doubtful(f) ==
    /\ ~ f.ours
    /\ \/ f.shape \in {"missing", "opaque"}
       \/ f.shape = "domain" /\ \E r \in Rows : f.rows[r] # "none"
       \/ f.mark \in {"failed", "forged"}
       \/ f.shape \in {"state", "status"} /\ UnknownRows(f)

\* Nothing is created in, added to or taken from such a file: an existing file
\* proves its identity before the bootstrap may add empty tables to it.
DoubtIsLeftAlone == [][Doubtful(file) => file' = file]_schemaVars
=============================================================================
