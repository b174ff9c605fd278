------------------------------ MODULE LegacyImport ------------------------------
(***************************************************************************)
(* The offline import of the store of a single-repository deployment:       *)
(* journal, staging, backup, registry transaction and the recovery after a *)
(* crash at any point, with the lock of the data directory and the gateway *)
(* that must not start in between.                                         *)
(*                                                                         *)
(* A file stands for its stamp, so equal files have equal contents.  The   *)
(* files of a repository's attempt, staged and backup, have names of their *)
(* own; what an attempt leaves behind before its journal is never looked   *)
(* at again.  A crash is the death of a process, not of the machine.       *)
(***************************************************************************)
EXTENDS Naturals, FiniteSets

CONSTANTS
    Repos,
    Importers,      \* processes of import-legacy
    Gateway,        \* the process of the gateway
    Databases,      \* what the source of a repository has, version by version
    Versions,
    First,          \* the version of each repository's source to begin with
    None,
    MaxImports,     \* bound on the imports that are started, retries aside
    MaxFaults,      \* bound on crashes, failures, and files changed by hand
    MaxGeneration   \* bound on the registrations at the gateway

VARIABLES
    src,        \* version of each repository's source
    dest,       \* repos/<id>/lasthuman.sqlite
    staged,     \* the copy that is to become the store
    backup,     \* the empty store that was there
    row,        \* the row in the registry
    hot,        \* the registry has a journal of SQLite's own
    journal,    \* .lasthuman-import-<id>.json
    lock,       \* holder of the lock of the data directory
    im,         \* importers
    gw,         \* the gateway
    imports, faults

files == <<dest, staged, backup>>
vars == <<src, files, row, hot, journal, lock, im, gw, imports, faults>>

\* The empty store, a store in use and the store of an import; registry rows.
A == INSTANCE AtomicImport WITH
        dest <- [r \in Repos |-> IF journal[r] = None THEN dest[r]
                                 ELSE IF journal[r].phase = "prepared" THEN journal[r].previous
                                 ELSE journal[r].staged],
        row <- [r \in Repos |-> IF journal[r] = None THEN row[r]
                                ELSE IF journal[r].phase = "prepared" THEN journal[r].old
                                ELSE journal[r].new],
        running <- gw = "on"
File == A!File
Empty == A!Empty
Used == A!Used
Imported(v, g) == A!Imported(v, g)
Row == A!Row
Activated(record) == A!Activated(record)

Event == [url : {"none", "old", "new", "foreign"}, presentation : BOOLEAN, sent : BOOLEAN,
          generation : Nat]
Database == [proven : BOOLEAN, receipts : SUBSET Nat, outbox : SUBSET Event]

Journal == [phase : {"prepared", "committed"}, source : Versions, old : Row \cup {None}, new : Row,
            previous : File \cup {None}, staged : File]

ASSUME ImportAssumption ==
    /\ Versions \subseteq Nat \ {0}
    /\ First \in [Repos -> Versions]
    /\ Databases \in [Versions -> Database]
    /\ None \notin File \cup Row \cup Importers \cup Repos \cup {Gateway}
    /\ None \notin Journal
    /\ Gateway \notin Importers
    /\ {MaxImports, MaxFaults, MaxGeneration} \subseteq Nat

Locked == {"recover", "check", "stage", "journal", "aside", "install", "source", "write", "commit",
           "mark", "rollback", "restore", "finish", "clean", "unjournal"}
Importer == [pc : {"off", "lock"} \cup Locked, repo : Repos \cup {None}, hash : Versions \cup {0},
             recovering : BOOLEAN]
Off == [pc |-> "off", repo |-> None, hash |-> 0, recovering |-> FALSE]

TypeOK ==
    /\ src \in [Repos -> Versions]
    /\ dest \in [Repos -> File \cup {None}]
    /\ staged \in [Repos -> File \cup {None}]
    /\ backup \in [Repos -> File \cup {None}]
    /\ row \in [Repos -> Row \cup {None}]
    /\ hot \in BOOLEAN
    /\ journal \in [Repos -> Journal \cup {None}]
    /\ lock \in Importers \cup {Gateway, None}
    /\ im \in [Importers -> Importer]
    /\ gw \in {"off", "starting", "on"}
    /\ {imports, faults} \subseteq Nat

Init ==
    /\ src = First
    /\ dest = [r \in Repos |-> None]
    /\ staged = [r \in Repos |-> None]
    /\ backup = [r \in Repos |-> None]
    /\ row = [r \in Repos |-> None]
    /\ hot = FALSE
    /\ journal = [r \in Repos |-> None]
    /\ lock = None
    /\ im = [i \in Importers |-> Off]
    /\ gw = "off"
    /\ imports = 0
    /\ faults = 0

-------------------------------------------------------------------------------
\* The conversion of a store.

\* _rebased_payload
Rebased(url) == IF url = "old" THEN "new" ELSE url

\* A publication that is not to be sent any more.
Retired(db, e) ==
    /\ ~e.sent
    /\ ~db.proven \/ (e.url = "foreign" /\ e.presentation)

\* _plan_legacy_outbox
Converts(db, g) ==
    /\ db.receipts \subseteq {0, g}
    /\ \A e \in db.outbox : e.generation \in {0, g}

\* The changes that are planned: what becomes of a row, and whether it is bound.
Plan(db, g) ==
    {<<e, Rebased(e.url), Retired(db, e), e.generation = 0 /\ db.proven>> : e \in
        {f \in db.outbox : f.url = "old" \/ f.generation = 0 \/ Retired(db, f)}}

\* _apply_legacy_outbox, of the plan
Converted(db, g) ==
    {[e EXCEPT !.url = Rebased(@), !.sent = @ \/ Retired(db, e),
               !.generation = IF @ = 0 /\ db.proven THEN g ELSE @] : e \in db.outbox}

-------------------------------------------------------------------------------
Pending == {r \in Repos : journal[r] # None}

Repo(i) == im[i].repo
Go(i, pc) == im' = [im EXCEPT ![i].pc = pc]

\* The import ends, and the lock is released.
Quit(i) == im' = [im EXCEPT ![i] = Off] /\ lock' = None

\* import-legacy, of a repository with a journal any number of times.  The
\* source is hashed before the lock is taken.
Start(i, r) ==
    /\ im[i].pc = "off"
    /\ im' = [im EXCEPT ![i] = [pc |-> "lock", repo |-> r, hash |-> src[r], recovering |-> FALSE]]
    /\ UNCHANGED <<src, files, row, hot, journal, lock, gw, faults>>
Retry(r) == journal[r] # None /\ (\E i \in Importers : Start(i, r)) /\ UNCHANGED imports
Begin(r) ==
    /\ journal[r] = None
    /\ imports < MaxImports /\ imports' = imports + 1
    /\ \E i \in Importers : Start(i, r)

\* The lock of the data directory; an import may have it with a journal pending.
Lock(i) ==
    /\ im[i].pc = "lock"
    /\ IF lock = None THEN lock' = i /\ Go(i, "recover")
       ELSE UNCHANGED lock /\ im' = [im EXCEPT ![i] = Off]
    /\ UNCHANGED <<src, files, row, hot, journal, gw, imports, faults>>

At(i, pc) == im[i].pc = pc

\* The registry is read without writing to it, so it must not need a recovery.
Readable == ~hot
RecoverRegistry == hot' = FALSE
RestoreRow(r) == row' = [row EXCEPT ![r] = journal[r].old]
Eligible(r) == row[r] = None \/ row[r].active

\* What the journal of r does not know of is left alone: _validate_journal_files.
Recognised(r) ==
    LET j == journal[r] IN
    /\ staged[r] \in {None, j.staged}
    /\ backup[r] \in {None, j.previous}
    /\ dest[r] \in {None, j.staged, j.previous}
    /\ row[r] \in {j.old, j.new}

\* Mutant: the registry's own recovery is forgotten.
RecoverFiles(i) ==
    LET r == Repo(i) IN
    /\ At(i, "recover")
    /\ IF Pending = {} THEN Go(i, "check") /\ UNCHANGED lock
       ELSE IF Pending = {r} /\ journal[r].source = src[r] /\ Recognised(r)
       THEN /\ im' = [im EXCEPT ![i].pc = IF journal[r].phase = "committed" THEN "finish" ELSE "rollback",
                                ![i].recovering = TRUE]
            /\ UNCHANGED lock
       ELSE Quit(i)
    /\ UNCHANGED <<src, files, row, hot, journal, gw, imports, faults>>

\* Recovery of the import that is pending, if it is this one.
Recover(i) ==
    LET r == Repo(i)
        j == journal[r]
    IN
    /\ At(i, "recover")
    /\ \/ Pending = {} /\ Go(i, "check") /\ UNCHANGED <<hot, lock>>
       \/ /\ Pending = {r} /\ j.source = src[r] /\ Recognised(r)
          /\ RecoverRegistry
          /\ im' = [im EXCEPT ![i].pc = IF j.phase = "committed" THEN "finish" ELSE "rollback",
                              ![i].recovering = TRUE]
          /\ UNCHANGED lock
       \/ /\ Pending # {} /\ ~(Pending = {r} /\ j.source = src[r] /\ Recognised(r))
          /\ Quit(i) /\ UNCHANGED hot
    /\ UNCHANGED <<src, files, row, journal, gw, imports, faults>>

Vacant(r) == dest[r] \in {None, Empty}

\* All that is validated before anything is written.
Check(i) ==
    LET r == Repo(i) IN
    /\ At(i, "check")
    /\ IF /\ Readable /\ Vacant(r) /\ Eligible(r) /\ src[r] = im[i].hash
          /\ Converts(Databases[src[r]], Activated(row[r]).generation)
       THEN Go(i, "stage") /\ UNCHANGED lock
       ELSE Quit(i)
    /\ UNCHANGED <<src, files, row, hot, journal, gw, imports, faults>>

\* Mutant: the copy is not looked at again.
StageUnchecked(i) ==
    LET r == Repo(i) IN
    /\ At(i, "stage")
    /\ staged' = [staged EXCEPT ![r] = Imported(src[r], Activated(row[r]).generation)]
    /\ Go(i, "journal")
    /\ UNCHANGED <<src, dest, backup, row, hot, journal, lock, gw, imports, faults>>

\* _backup_source_to_temp, and _apply_legacy_outbox on the copy if the copy
\* converts by the very plan that was made for the source.
Stage(i) ==
    LET r == Repo(i)
        g == Activated(row[r]).generation
    IN
    /\ At(i, "stage")
    /\ \/ /\ Converts(Databases[src[r]], g)
          /\ Plan(Databases[src[r]], g) = Plan(Databases[im[i].hash], g)
          /\ staged' = [staged EXCEPT ![r] = Imported(src[r], g)]
          /\ Go(i, "journal")
          /\ UNCHANGED lock
       \/ /\ \/ ~Converts(Databases[src[r]], g)
             \/ Plan(Databases[src[r]], g) # Plan(Databases[im[i].hash], g)
          /\ Quit(i)
          /\ UNCHANGED staged
    /\ UNCHANGED <<src, dest, backup, row, hot, journal, gw, imports, faults>>

WriteJournal(i) ==
    LET r == Repo(i) IN
    /\ At(i, "journal")
    /\ journal' = [journal EXCEPT ![r] =
                     [phase |-> "prepared", source |-> im[i].hash, old |-> row[r],
                      new |-> Activated(row[r]), previous |-> dest[r], staged |-> staged[r]]]
    /\ Go(i, "aside")
    /\ UNCHANGED <<src, files, row, hot, lock, gw, imports, faults>>

SetAside(i) ==
    LET r == Repo(i) IN
    /\ At(i, "aside")
    /\ IF journal[r].previous # None
       THEN backup' = [backup EXCEPT ![r] = dest[r]] /\ dest' = [dest EXCEPT ![r] = None]
       ELSE UNCHANGED <<backup, dest>>
    /\ Go(i, "install")
    /\ UNCHANGED <<src, staged, row, hot, journal, lock, gw, imports, faults>>

Install(i) ==
    LET r == Repo(i) IN
    /\ At(i, "install")
    /\ dest' = [dest EXCEPT ![r] = staged[r]]
    /\ staged' = [staged EXCEPT ![r] = None]
    /\ Go(i, "source")
    /\ UNCHANGED <<src, backup, row, hot, journal, lock, gw, imports, faults>>

CheckSource(i) ==
    /\ At(i, "source")
    /\ Go(i, IF src[Repo(i)] = im[i].hash THEN "write" ELSE "rollback")
    /\ UNCHANGED <<src, files, row, hot, journal, lock, gw, imports, faults>>

\* The registry transaction, and its commit.
WriteRow(i) ==
    /\ At(i, "write")
    /\ hot' = TRUE
    /\ Go(i, "commit")
    /\ UNCHANGED <<src, files, row, journal, lock, gw, imports, faults>>

CommitRow(i) ==
    LET r == Repo(i) IN
    /\ At(i, "commit")
    /\ row' = [row EXCEPT ![r] = journal[r].new]
    /\ hot' = FALSE
    /\ Go(i, "mark")
    /\ UNCHANGED <<src, files, journal, lock, gw, imports, faults>>

\* From here on the import counts as done.
Mark(i) ==
    /\ At(i, "mark")
    /\ journal' = [journal EXCEPT ![Repo(i)].phase = "committed"]
    /\ Go(i, "finish")
    /\ UNCHANGED <<src, files, row, hot, lock, gw, imports, faults>>

\* What a rollback asks of the files before it changes anything.
Revocable(r) ==
    Recognised(r) /\ Readable /\ (journal[r].previous \in {None, dest[r]} \/ backup[r] # None)

\* Mutant: the files are rolled back, the registry is not.
RollbackFiles(i) ==
    LET r == Repo(i) IN
    /\ At(i, "rollback")
    /\ IF Revocable(r)
       THEN Go(i, "restore") /\ UNCHANGED lock
       ELSE Quit(i)
    /\ UNCHANGED <<src, files, row, hot, journal, gw, imports, faults>>

\* _rollback_import
Rollback(i) ==
    LET r == Repo(i) IN
    /\ At(i, "rollback")
    /\ IF Revocable(r)
       THEN RestoreRow(r) /\ Go(i, "restore") /\ UNCHANGED lock
       ELSE Quit(i) /\ UNCHANGED row
    /\ UNCHANGED <<src, files, hot, journal, gw, imports, faults>>

Restore(i) ==
    LET r == Repo(i)
        j == journal[r]
    IN
    /\ At(i, "restore")
    /\ dest' = [dest EXCEPT ![r] = IF backup[r] # None THEN backup[r]
                                   ELSE IF j.previous = None THEN None ELSE @]
    /\ backup' = [backup EXCEPT ![r] = None]
    /\ Go(i, "clean")
    /\ UNCHANGED <<src, staged, row, hot, journal, lock, gw, imports, faults>>

\* _finish_committed_import
Finish(i) ==
    LET r == Repo(i)
        j == journal[r]
    IN
    /\ At(i, "finish")
    /\ IF Recognised(r) /\ Readable /\ dest[r] = j.staged /\ row[r] = j.new
       THEN backup' = [backup EXCEPT ![r] = None] /\ Go(i, "clean") /\ UNCHANGED lock
       ELSE Quit(i) /\ UNCHANGED backup
    /\ UNCHANGED <<src, dest, staged, row, hot, journal, gw, imports, faults>>

Clean(i) ==
    /\ At(i, "clean")
    /\ staged' = [staged EXCEPT ![Repo(i)] = None]
    /\ Go(i, "unjournal")
    /\ UNCHANGED <<src, dest, backup, row, hot, journal, lock, gw, imports, faults>>

\* A recovery that has rolled back goes on with the import that was asked for.
RemoveJournal(i) ==
    LET r == Repo(i) IN
    /\ At(i, "unjournal")
    /\ journal' = [journal EXCEPT ![r] = None]
    /\ IF journal[r].phase = "prepared" /\ im[i].recovering
       THEN im' = [im EXCEPT ![i].pc = "check", ![i].recovering = FALSE] /\ UNCHANGED lock
       ELSE Quit(i)
    /\ UNCHANGED <<src, files, row, hot, gw, imports, faults>>

-------------------------------------------------------------------------------
\* A step of an import raises: what is there of the attempt is rolled back if it
\* has a journal, and a failure of that leaves the journal.
Fault == faults < MaxFaults /\ faults' = faults + 1

StepFails(i) ==
    LET r == Repo(i) IN
    /\ Fault
    /\ \/ /\ im[i].pc \in {"recover", "check", "rollback", "restore", "finish", "clean", "unjournal"}
          /\ Quit(i) /\ UNCHANGED <<staged, hot, journal>>
       \/ /\ im[i].pc \in {"stage", "journal"}
          /\ staged' = [staged EXCEPT ![r] = None]
          /\ Quit(i) /\ UNCHANGED <<hot, journal>>
       \/ /\ im[i].pc \in {"aside", "install", "source", "write", "commit", "mark"}
          /\ hot' = FALSE
          /\ im' = [im EXCEPT ![i].pc = "rollback", ![i].recovering = FALSE]
          /\ UNCHANGED <<staged, journal, lock>>
       \/ /\ im[i].pc = "mark"
          /\ journal' = [journal EXCEPT ![r].phase = "committed"]
          /\ Quit(i) /\ UNCHANGED <<staged, hot>>
    /\ UNCHANGED <<src, dest, backup, row, gw, imports>>

\* The process dies; a transaction that was open leaves SQLite's journal, that
\* of a rollback too if it had begun to write.
Crash(i) ==
    LET r == Repo(i) IN
    /\ im[i].pc \in Locked
    /\ Fault /\ Quit(i)
    /\ staged' = IF At(i, "journal") THEN [staged EXCEPT ![r] = None] ELSE staged
    /\ \/ UNCHANGED hot
       \/ At(i, "rollback") /\ Revocable(r) /\ row[r] # journal[r].old /\ hot' = TRUE
    /\ UNCHANGED <<src, dest, backup, row, journal, gw, imports>>

-------------------------------------------------------------------------------
\* The gateway looks for journals before and after it takes the lock.
GatewayCheck ==
    /\ gw = "off" /\ Pending = {}
    /\ gw' = "starting"
    /\ UNCHANGED <<src, files, row, hot, journal, lock, im, imports, faults>>

\* Mutant: one look is enough.
GatewayStartAtOnce ==
    /\ gw = "starting" /\ lock = None
    /\ gw' = "on" /\ lock' = Gateway /\ hot' = FALSE
    /\ UNCHANGED <<src, files, row, journal, im, imports, faults>>

GatewayStart ==
    /\ gw = "starting" /\ lock = None
    /\ Pending = {}
    /\ gw' = "on" /\ lock' = Gateway /\ hot' = FALSE
    /\ UNCHANGED <<src, files, row, journal, im, imports, faults>>

GatewayRefused ==
    /\ gw = "starting" /\ (lock # None \/ Pending # {})
    /\ gw' = "off"
    /\ UNCHANGED <<src, files, row, hot, journal, lock, im, imports, faults>>

\* It stops, or dies in a registration.
GatewayStops ==
    /\ gw = "on"
    /\ gw' = "off" /\ lock' = None
    /\ \/ UNCHANGED <<hot, faults>>
       \/ hot' = TRUE /\ Fault
    /\ UNCHANGED <<src, files, row, journal, im, imports>>

Served(record) ==
    IF record = None THEN {Activated(None)}
    ELSE IF record.active THEN {[record EXCEPT !.active = FALSE, !.revision = @ + 1]}
    ELSE {[generation |-> record.generation + 1, revision |-> record.revision + 1, active |-> TRUE]}

GatewayRegisters(r) ==
    /\ gw = "on"
    /\ row' \in {[row EXCEPT ![r] = record] : record \in Served(row[r])}
    /\ row'[r].generation <= MaxGeneration
    /\ UNCHANGED <<src, files, hot, journal, lock, im, gw, imports, faults>>

\* A container opens the store, which creates it, and uses it.
GatewayServes(r) ==
    /\ gw = "on" /\ row[r] # None
    /\ dest' = [dest EXCEPT ![r] = IF @ = None THEN Empty ELSE Used]
    /\ UNCHANGED <<src, staged, backup, row, hot, journal, lock, im, gw, imports, faults>>

\* The old deployment is not quite stopped, and someone puts a store in place.
SourceWrite(r) ==
    /\ src[r] + 1 \in Versions
    /\ Fault
    /\ src' = [src EXCEPT ![r] = @ + 1]
    /\ UNCHANGED <<files, row, hot, journal, lock, im, gw, imports>>

Tamper(r) ==
    /\ lock = None
    /\ Fault
    /\ dest' = [dest EXCEPT ![r] = Used]
    /\ UNCHANGED <<src, staged, backup, row, hot, journal, lock, im, gw, imports>>

Step(i) ==
    \/ Lock(i) \/ Recover(i) \/ Check(i) \/ Stage(i) \/ WriteJournal(i) \/ SetAside(i) \/ Install(i)
    \/ CheckSource(i) \/ WriteRow(i) \/ CommitRow(i) \/ Mark(i)
    \/ Rollback(i) \/ Restore(i) \/ Finish(i) \/ Clean(i) \/ RemoveJournal(i)

Next ==
    \/ \E r \in Repos : Begin(r) \/ Retry(r) \/ SourceWrite(r) \/ Tamper(r)
    \/ \E r \in Repos : GatewayRegisters(r) \/ GatewayServes(r)
    \/ \E i \in Importers : Step(i) \/ StepFails(i) \/ Crash(i)
    \/ GatewayCheck \/ GatewayStart \/ GatewayRefused \/ GatewayStops

Spec == Init /\ [][Next]_vars

\* An import goes on once it runs, and whoever left one pending tries again.
Fairness ==
    /\ \A i \in Importers : WF_vars(Step(i))
    /\ \A r \in Repos : WF_vars(Retry(r))

FairSpec == Spec /\ Fairness

-------------------------------------------------------------------------------
\* A gateway never runs beside an import that is half done: it looks again with
\* the lock in its hand (DataDirectoryLock.acquire).
GatewayRunsClean == gw = "on" => Pending = {} /\ \A i \in Importers : im[i].pc \notin Locked

\* What an import has put in place publishes nothing that belongs to another
\* generation, to an installation nobody has proved, or to a foreign address.
NothingRevived ==
    \A r \in Repos : dest[r] \notin {None, Empty, Used} =>
        LET db == Databases[dest[r].db] IN
        \A e \in Converted(db, dest[r].generation) :
            e.sent \/ (/\ db.proven /\ e.generation = dest[r].generation
                       /\ e.url # "old"
                       /\ e.url = "foreign" => ~e.presentation)

\* An import happens whole or not at all, whatever fails or dies in between.
ImplementsAtomicImport == A!Spec

\* A pending import comes to an end when it is tried again, unless its source
\* was written to or someone put a store in its place.
PendingEnds ==
    \A r \in Repos :
        (journal[r] # None /\ src[r] = journal[r].source) ~>
            (journal[r] = None \/ src[r] # journal[r].source \/ dest[r] = Used)
===============================================================================
