--------------------------- MODULE LegacyImportProofs ---------------------------
(***************************************************************************)
(* Proofs about LegacyImport, for any repositories, importers, sources and *)
(* bounds: a gateway never runs beside an import that is half done, what   *)
(* is imported revives nothing, and an import is atomic.                   *)
(***************************************************************************)
EXTENDS LegacyImport, TLAPS

\* An import with nothing written, one whose journal is prepared, and one that ends.
Preparing == {"check", "stage", "journal"}
Prepared == {"aside", "install", "source", "write", "commit", "mark", "rollback", "restore"}
Ending == {"finish", "clean", "unjournal"}

\* The store of an import, converted for generation g.
Genuine(f, g) == \E v \in Versions : f = Imported(v, g) /\ Converts(Databases[v], g)

\* Whoever holds the lock is at work, and nobody else is.
LockInv ==
    /\ gw = "on" <=> lock = Gateway
    /\ \A i \in Importers :
          /\ im[i].pc \in Locked <=> lock = i
          /\ im[i].pc # "off" => im[i].repo \in Repos /\ im[i].hash \in Versions

\* One import is pending at most, and it is the one that is worked on.
PendingInv ==
    /\ \A r, q \in Repos : journal[r] # None /\ journal[q] # None => r = q
    /\ gw = "on" => \A r \in Repos : journal[r] = None
    /\ \A i \in Importers :
          /\ im[i].pc \in Preparing => \A r \in Repos : journal[r] = None
          /\ im[i].pc \in Prepared \cup Ending => journal[im[i].repo] # None

\* A journal says what an import may do.
JournalInv ==
    \A r \in Repos : journal[r] # None =>
        /\ journal[r].previous \in {None, Empty}
        /\ journal[r].old = None \/ journal[r].old.active
        /\ journal[r].new = Activated(journal[r].old)
        /\ Genuine(journal[r].staged, journal[r].new.generation)

\* What each step of an import has made sure of.
StageAt(i) ==
    LET r == im[i].repo
        j == journal[r]
    IN
    /\ im[i].pc \in {"stage", "journal"} => Vacant(r) /\ Eligible(r)
    /\ im[i].pc = "journal" => Genuine(staged[r], Activated(row[r]).generation)
    /\ im[i].pc \in Prepared => j.phase = "prepared"
    /\ im[i].pc = "restore" =>
          /\ row[r] = j.old
          /\ backup[r] \in {None, j.previous}
          /\ backup[r] # None \/ j.previous \in {None, dest[r]}
    /\ im[i].pc = "finish" => j.phase = "committed"
    /\ im[i].pc \in {"clean", "unjournal"} =>
          \/ j.phase = "prepared" /\ dest[r] = j.previous /\ row[r] = j.old
          \/ j.phase = "committed" /\ dest[r] = j.staged /\ row[r] = j.new
StageInv == \A i \in Importers : StageAt(i)

\* Stores that were imported are converted ones.
Good(f) == f \in {None, Empty, Used} \/ \E g \in Nat : Genuine(f, g)
FileInv == \A r \in Repos : Good(dest[r]) /\ Good(staged[r]) /\ Good(backup[r])

IInv == TypeOK /\ LockInv /\ PendingInv /\ JournalInv /\ StageInv /\ FileInv

-------------------------------------------------------------------------------
\* Stores and rows.
LEMMA Stores ==
    /\ Empty \in File /\ Used \in File
    /\ \A v \in Versions, g \in Nat : Imported(v, g) \in File /\ Imported(v, g) \notin {Empty, Used}
    /\ None \notin File
BY ImportAssumption DEF File, A!File, Empty, A!Empty, Used, A!Used, Imported, A!Imported

\* What an import or a registration makes of a row.
LEMMA Rows ==
    /\ None \notin Row
    /\ \A record \in Row \cup {None} :
          /\ Activated(record) \in Row
          /\ Activated(record).generation \in Nat
          /\ Served(record) \subseteq Row
<1>1. None \notin Row
  BY ImportAssumption
<1>2. Activated(None) \in Row /\ Activated(None).generation \in Nat /\ Served(None) \subseteq Row
  BY DEF Row, A!Row, Activated, A!Activated, Served
<1>3. ASSUME NEW record \in Row
      PROVE  /\ Activated(record) \in Row
             /\ Activated(record).generation \in Nat
             /\ Served(record) \subseteq Row
  <2>1. record # None
    BY <1>1, <1>3
  <2>2. /\ record = [generation |-> record.generation, revision |-> record.revision,
                     active |-> record.active]
        /\ record.generation \in Nat \ {0} /\ record.revision \in Nat \ {0}
    BY <1>3 DEF Row, A!Row
  <2>3. [record EXCEPT !.revision = @ + 1] \in Row
    BY <1>3 DEF Row, A!Row
  <2>4. [record EXCEPT !.revision = @ + 1].generation \in Nat
    BY <2>2
  <2>5. [record EXCEPT !.active = FALSE, !.revision = @ + 1] \in Row
    <3> DEFINE inactive == [record EXCEPT !.active = FALSE]
    <3>1. inactive \in Row
      BY <1>3 DEF Row, A!Row
    <3>2. \A other \in Row : [other EXCEPT !.revision = @ + 1] \in Row
      BY DEF Row, A!Row
    <3>3. [record EXCEPT !.active = FALSE, !.revision = @ + 1] = [inactive EXCEPT !.revision = @ + 1]
      BY Zenon
    <3> QED BY <3>1, <3>2, <3>3, Zenon
  <2>6. [generation |-> record.generation + 1, revision |-> record.revision + 1,
         active |-> TRUE] \in Row
    BY <2>2 DEF Row, A!Row
  <2> QED BY <2>1, <2>3, <2>4, <2>5, <2>6 DEF Activated, A!Activated, Served
<1> QED BY <1>1, <1>2, <1>3

\* A converted store is neither missing nor empty nor in use.
LEMMA GenuineStores ==
    ASSUME NEW f, NEW g \in Nat, Genuine(f, g)
    PROVE  f \in File /\ f \notin {None, Empty, Used} /\ Good(f)
BY Stores DEF Genuine, Good

\* Whoever holds the lock is alone.
LEMMA Alone ==
    ASSUME LockInv, NEW i \in Importers, im[i].pc \in Locked
    PROVE  /\ lock = i /\ lock # None /\ gw # "on"
           /\ im[i].repo \in Repos /\ im[i].hash \in Versions
           /\ \A k \in Importers : k # i => im[k].pc \notin Locked
<1>1. im[i].pc # "off"
  BY DEF Locked
<1> QED BY <1>1, ImportAssumption DEF LockInv

-------------------------------------------------------------------------------
\* Nothing is imported at the start.
LEMMA InitInv == Init => IInv
<1> SUFFICES ASSUME Init PROVE IInv
  OBVIOUS
<1>1. TypeOK
  <2>1. Off \in Importer /\ None \in Importers \cup {Gateway, None}
    BY DEF Off, Importer
  <2>2. [r \in Repos |-> None] \in [Repos -> File \cup {None}]
    OBVIOUS
  <2>3. [r \in Repos |-> None] \in [Repos -> Row \cup {None}]
    OBVIOUS
  <2>4. [r \in Repos |-> None] \in [Repos -> Journal \cup {None}]
    OBVIOUS
  <2>5. {imports, faults} \subseteq Nat /\ src \in [Repos -> Versions]
    BY ImportAssumption DEF Init
  <2> QED BY <2>1, <2>2, <2>3, <2>4, <2>5 DEF Init, TypeOK
<1>2. LockInv
  BY ImportAssumption DEF Init, LockInv, Off, Locked
<1>3. PendingInv /\ JournalInv /\ StageInv /\ FileInv
  BY DEF Init, PendingInv, JournalInv, StageInv, StageAt, FileInv, Good, Off,
       Preparing, Prepared, Ending
<1> QED BY <1>1, <1>2, <1>3 DEF IInv

\* The journal that an importer writes, and what it becomes.
Written(i) ==
    LET r == im[i].repo IN
    [phase |-> "prepared", source |-> im[i].hash, old |-> row[r], new |-> Activated(row[r]),
     previous |-> dest[r], staged |-> staged[r]]
Marked(j) == [j EXCEPT !.phase = "committed"]

\* Both are journals.
LEMMA Journals ==
    ASSUME IInv, NEW i \in Importers
    PROVE  /\ im[i].pc = "journal" => im[i].repo \in Repos /\ Written(i) \in Journal
           /\ \A j \in Journal : Marked(j) \in Journal
           /\ \A j \in Journal : j # None
<1> USE DEF IInv, TypeOK
<1>1. ASSUME im[i].pc = "journal" PROVE im[i].repo \in Repos /\ Written(i) \in Journal
  <2>1. im[i].repo \in Repos /\ im[i].hash \in Versions
    BY <1>1, Alone DEF Locked
  <2>2. staged[im[i].repo] \in File
    <3>1. Activated(row[im[i].repo]).generation \in Nat
      BY <2>1, Rows
    <3> QED BY <1>1, <2>1, <3>1, GenuineStores DEF StageInv, StageAt
  <2> QED BY <2>1, <2>2, Rows DEF Written, Journal
<1>2. \A j \in Journal : Marked(j) \in Journal /\ j # None
  BY ImportAssumption DEF Marked, Journal
<1> QED BY <1>1, <1>2

\* Types.
LEMMA TypeNext == IInv /\ [Next]_vars => TypeOK'
<1> SUFFICES ASSUME IInv, [Next]_vars PROVE TypeOK'
  OBVIOUS
<1> USE ImportAssumption, Stores, Rows DEF IInv, TypeOK, files
<1>faults. faults \in Nat /\ imports \in Nat /\ (Fault => faults' \in Nat)
  BY DEF Fault
<1>off. Off \in Importer
  BY DEF Off, Importer
<1>1. ASSUME NEW i \in Importers, NEW pc \in {"off", "lock"} \cup Locked, Go(i, pc)
      PROVE  im' \in [Importers -> Importer]
  BY <1>1, ZenonT(60) DEF Go, Importer
<1>2. ASSUME NEW i \in Importers, Quit(i)
      PROVE  im' \in [Importers -> Importer] /\ lock' = None
  BY <1>off, <1>2 DEF Quit
<1>3. {"recover", "check", "stage", "journal", "aside", "install", "source", "write", "commit",
       "mark", "rollback", "restore", "finish", "clean", "unjournal"} \subseteq Locked
  BY DEF Locked
<1>4. ASSUME NEW i \in Importers, NEW r \in Repos, Start(i, r) PROVE im' \in [Importers -> Importer]
  BY <1>4 DEF Start, Importer
<1>5. ASSUME NEW r \in Repos, Begin(r) \/ Retry(r) \/ SourceWrite(r) \/ Tamper(r) PROVE TypeOK'
  <2>1. CASE Begin(r) \/ Retry(r)
    BY <1>4, <2>1 DEF Begin, Retry, Start
  <2>2. CASE SourceWrite(r) \/ Tamper(r)
    BY <1>faults, <2>2 DEF SourceWrite, Tamper
  <2> QED BY <1>5, <2>1, <2>2
<1>6. ASSUME NEW r \in Repos, GatewayRegisters(r) \/ GatewayServes(r) PROVE TypeOK'
  BY <1>6 DEF GatewayRegisters, GatewayServes
<1>7. CASE GatewayCheck \/ GatewayStart \/ GatewayRefused \/ GatewayStops
  BY <1>faults, <1>7 DEF GatewayCheck, GatewayStart, GatewayRefused, GatewayStops
<1>8. ASSUME NEW i \in Importers, Step(i) PROVE TypeOK'
  <2>1. CASE Lock(i)
    BY <1>off, <1>1, <1>3, <2>1 DEF Lock
  <2> DEFINE r == im[i].repo
  <2>2. ASSUME im[i].pc \in Locked PROVE r \in Repos /\ im[i].hash \in Versions
    BY <2>2, Alone
  <2>3. CASE Recover(i)
    <3>1. ASSUME NEW pc \in Locked PROVE [im[i] EXCEPT !.pc = pc, !.recovering = TRUE] \in Importer
      BY <3>1, ZenonT(60) DEF Importer
    <3>2. im' \in [Importers -> Importer]
      <4>1. ASSUME NEW pc \in Locked, im' = [im EXCEPT ![i].pc = pc, ![i].recovering = TRUE]
            PROVE  im' \in [Importers -> Importer]
        <5>1. im' = [im EXCEPT ![i] = [im[i] EXCEPT !.pc = pc, !.recovering = TRUE]]
          BY <4>1
        <5> QED BY <3>1, <5>1
      <4>2. (IF journal[Repo(i)].phase = "committed" THEN "finish" ELSE "rollback") \in Locked
        BY <1>3
      <4> QED BY <1>1, <1>2, <1>3, <2>3, <4>1, <4>2 DEF Recover
    <3>3. hot' \in BOOLEAN /\ lock' \in Importers \cup {Gateway, None}
      BY <1>2, <2>3 DEF Recover, RecoverRegistry
    <3> QED BY <2>3, <3>2, <3>3 DEF Recover
  <2>4. CASE Check(i)
    BY <1>1, <1>2, <1>3, <2>4 DEF Check
  <2>5. CASE Stage(i)
    <3>1. r \in Repos /\ row[r] \in Row \cup {None} /\ src[r] \in Versions
      BY <1>3, <2>2, <2>5 DEF Stage, At
    <3>2. Imported(src[r], Activated(row[r]).generation) \in File
      BY <3>1
    <3> QED BY <1>1, <1>2, <1>3, <2>5, <3>1, <3>2 DEF Stage, Repo
  <2>6. CASE WriteJournal(i)
    BY <1>1, <1>3, <2>6, Journals DEF WriteJournal, Repo, At, Written
  <2>7. CASE SetAside(i)
    BY <1>1, <1>3, <2>2, <2>7 DEF SetAside, Repo, At
  <2>8. CASE Install(i)
    BY <1>1, <1>3, <2>2, <2>8 DEF Install, Repo, At
  <2>9. CASE CheckSource(i) \/ WriteRow(i)
    BY <1>1, <1>3, <2>9 DEF CheckSource, WriteRow
  <2>10. ASSUME im[i].pc \in Prepared \cup Ending PROVE r \in Repos /\ journal[r] \in Journal
    BY <1>3, <2>2, <2>10 DEF Prepared, Ending, PendingInv
  <2>11. CASE CommitRow(i)
    <3>1. journal[r].new \in Row /\ r \in Repos
      BY <2>10, <2>11 DEF CommitRow, At, Prepared, Journal
    <3> QED BY <1>1, <1>3, <2>11, <3>1 DEF CommitRow, Repo
  <2>12. CASE Mark(i)
    <3>1. Marked(journal[r]) \in Journal /\ r \in Repos
      BY <2>10, <2>12, Journals DEF Mark, At, Prepared
    <3> QED BY <1>1, <1>3, <2>12, <3>1 DEF Mark, Repo, Marked
  <2>13. CASE Rollback(i)
    <3>1. journal[r].old \in Row \cup {None} /\ r \in Repos
      BY <2>10, <2>13 DEF Rollback, At, Prepared, Journal
    <3> QED BY <1>1, <1>2, <1>3, <2>13, <3>1 DEF Rollback, Repo, RestoreRow
  <2>14. CASE Restore(i)
    BY <1>1, <1>3, <2>2, <2>14 DEF Restore, Repo, At
  <2>15. CASE Finish(i)
    BY <1>1, <1>2, <1>3, <2>15 DEF Finish, Repo
  <2>16. CASE Clean(i)
    BY <1>1, <1>3, <2>16 DEF Clean, Repo
  <2>17. CASE RemoveJournal(i)
    <3>1. [im[i] EXCEPT !.pc = "check", !.recovering = FALSE] \in Importer
      BY <1>3, ZenonT(60) DEF Importer
    <3>2. im' \in [Importers -> Importer] /\ lock' \in Importers \cup {Gateway, None}
      <4>1. CASE im' = [im EXCEPT ![i].pc = "check", ![i].recovering = FALSE] /\ UNCHANGED lock
        <5>1. im' = [im EXCEPT ![i] = [im[i] EXCEPT !.pc = "check", !.recovering = FALSE]]
          BY <4>1
        <5> QED BY <3>1, <4>1, <5>1
      <4> QED BY <1>2, <2>17, <4>1 DEF RemoveJournal
    <3> QED BY <2>17, <3>2 DEF RemoveJournal
  <2> QED BY <1>8, <2>1, <2>3, <2>4, <2>5, <2>6, <2>7, <2>8, <2>9, <2>11, <2>12, <2>13, <2>14, <2>15,
        <2>16, <2>17 DEF Step
<1>9. ASSUME NEW i \in Importers, StepFails(i) PROVE TypeOK'
  <2>1. ASSUME im[i].pc = "mark"
        PROVE  /\ im[i].repo \in Repos /\ journal[im[i].repo] \in Journal
               /\ Marked(journal[im[i].repo]) \in Journal
    <3>1. im[i].repo \in Repos /\ journal[im[i].repo] # None
      BY <1>3, <2>1, Alone DEF PendingInv, Prepared
    <3> QED BY <3>1, Journals
  <2>2. Fault /\ UNCHANGED <<src, dest, backup, row, gw, imports>>
    BY <1>9 DEF StepFails
  <2>3. hot' \in BOOLEAN /\ staged' \in [Repos -> File \cup {None}]
    BY <1>9 DEF StepFails, Repo
  <2>4. im' \in [Importers -> Importer]
    <3>1. [im[i] EXCEPT !.pc = "rollback", !.recovering = FALSE] \in Importer
      BY <1>3, ZenonT(60) DEF Importer
    <3> QED BY <1>2, <1>9, <3>1 DEF StepFails
  <2>5. journal' \in [Repos -> Journal \cup {None}] /\ lock' \in Importers \cup {Gateway, None}
    BY <1>2, <1>9, <2>1 DEF StepFails, Repo, Marked
  <2> QED BY <1>faults, <2>2, <2>3, <2>4, <2>5
<1>10. ASSUME NEW i \in Importers, Crash(i) PROVE TypeOK'
  BY <1>faults, <1>2, <1>10 DEF Crash, Repo
<1>11. CASE UNCHANGED vars
  BY <1>11 DEF vars
<1> QED BY <1>5, <1>6, <1>7, <1>8, <1>9, <1>10, <1>11 DEF Next

-------------------------------------------------------------------------------
\* A step of an importer keeps the lock and the import it is at, or ends it.
LEMMA Moves ==
    ASSUME TypeOK, LockInv, NEW i \in Importers, Step(i) \/ StepFails(i) \/ Crash(i)
    PROVE  /\ UNCHANGED gw
           /\ \A k \in Importers : k # i => im'[k] = im[k]
           /\ \/ /\ im[i].pc \in Locked \/ (im[i].pc = "lock" /\ lock = None)
                 /\ im'[i].pc \in Locked /\ im'[i].repo = im[i].repo /\ im'[i].hash = im[i].hash
                 /\ lock' = i
              \/ im[i].pc \in Locked /\ im'[i] = Off /\ lock' = None
              \/ im[i].pc = "lock" /\ im'[i] = Off /\ UNCHANGED lock
<1> USE DEF TypeOK
<1> DEFINE Others == \A k \in Importers : k # i => im'[k] = im[k]
           Stays == im'[i].pc \in Locked /\ im'[i].repo = im[i].repo /\ im'[i].hash = im[i].hash
<1>1. {"recover", "check", "stage", "journal", "aside", "install", "source", "write", "commit",
       "mark", "rollback", "restore", "finish", "clean", "unjournal"} \subseteq Locked
  BY DEF Locked
<1>2. ASSUME NEW pc \in Locked, Go(i, pc) PROVE Others /\ Stays
  BY <1>2 DEF Go, Importer
<1>3. ASSUME NEW pc \in Locked, NEW b, im' = [im EXCEPT ![i].pc = pc, ![i].recovering = b]
      PROVE Others /\ Stays
  <2>1. im' = [im EXCEPT ![i] = [im[i] EXCEPT !.pc = pc, !.recovering = b]]
    BY <1>3
  <2> QED BY <2>1 DEF Importer
<1>4. ASSUME Quit(i) PROVE Others /\ im'[i] = Off /\ lock' = None
  BY <1>4 DEF Quit
<1>5. im[i].pc \in Locked => lock = i
  BY DEF LockInv
<1>6. CASE Lock(i)
  <2>1. CASE lock = None
    BY <1>1, <1>2, <1>6, <2>1 DEF Lock
  <2>2. CASE lock # None
    BY <1>6, <2>2 DEF Lock
  <2> QED BY <2>1, <2>2
<1>7. CASE Recover(i)
  <2>1. (IF journal[Repo(i)].phase = "committed" THEN "finish" ELSE "rollback") \in Locked
    BY <1>1
  <2> QED BY <1>1, <1>2, <1>3, <1>4, <1>5, <1>7, <2>1 DEF Recover, At
<1>8. CASE Check(i) \/ Stage(i) \/ Rollback(i) \/ Finish(i)
  BY <1>1, <1>2, <1>4, <1>5, <1>8 DEF Check, Stage, Rollback, Finish, At
<1>9. CASE WriteJournal(i) \/ SetAside(i) \/ Install(i) \/ WriteRow(i) \/ CommitRow(i) \/ Mark(i)
           \/ Restore(i) \/ Clean(i)
  BY <1>1, <1>2, <1>5, <1>9 DEF WriteJournal, SetAside, Install, WriteRow, CommitRow, Mark,
       Restore, Clean, At
<1>10. CASE CheckSource(i)
  <2>1. (IF src[Repo(i)] = im[i].hash THEN "write" ELSE "rollback") \in Locked
    BY <1>1
  <2> QED BY <1>1, <1>2, <1>5, <1>10, <2>1 DEF CheckSource, At
<1>11. CASE RemoveJournal(i)
  BY <1>1, <1>3, <1>4, <1>5, <1>11 DEF RemoveJournal, At
<1>12. CASE StepFails(i)
  <2>1. im[i].pc \in Locked /\ UNCHANGED gw
    BY <1>1, <1>12 DEF StepFails
  <2>2. Quit(i) \/ (im' = [im EXCEPT ![i].pc = "rollback", ![i].recovering = FALSE] /\ UNCHANGED lock)
    BY <1>12 DEF StepFails
  <2> QED BY <1>1, <1>3, <1>4, <1>5, <2>1, <2>2
<1>13. CASE Crash(i)
  BY <1>4, <1>13 DEF Crash
<1> QED BY <1>6, <1>7, <1>8, <1>9, <1>10, <1>11, <1>12, <1>13 DEF Step

\* The lock has one holder, who is at work.
LEMMA LockNext == IInv /\ [Next]_vars => LockInv'
<1> SUFFICES ASSUME IInv, [Next]_vars PROVE LockInv'
  OBVIOUS
<1> USE ImportAssumption DEF IInv, LockInv
<1>1. ASSUME NEW i \in Importers, Step(i) \/ StepFails(i) \/ Crash(i) PROVE LockInv'
  <2>1. \A k \in Importers : k # i => im'[k] = im[k]
    BY <1>1, Moves
  <2>2. UNCHANGED gw
    BY <1>1, Moves
  <2>3. CASE /\ im[i].pc \in Locked \/ (im[i].pc = "lock" /\ lock = None)
             /\ im'[i].pc \in Locked /\ im'[i].repo = im[i].repo /\ im'[i].hash = im[i].hash
             /\ lock' = i
    <3>1. im[i].pc # "off" /\ (lock = i \/ lock = None)
      BY <2>3 DEF Locked
    <3> QED BY <2>1, <2>2, <2>3, <3>1
  <2>4. CASE im[i].pc \in Locked /\ im'[i] = Off /\ lock' = None
    BY <2>1, <2>2, <2>4 DEF Off, Locked
  <2>5. CASE im[i].pc = "lock" /\ im'[i] = Off /\ UNCHANGED lock
    BY <2>1, <2>2, <2>5 DEF Off, Locked
  <2> QED BY <1>1, <2>3, <2>4, <2>5, Moves
<1>2. ASSUME NEW r \in Repos, Begin(r) \/ Retry(r) PROVE LockInv'
  <2>1. PICK i \in Importers : Start(i, r)
    BY <1>2 DEF Begin, Retry
  <2>2. im' = [im EXCEPT ![i] = [pc |-> "lock", repo |-> r, hash |-> src[r], recovering |-> FALSE]]
        /\ im[i].pc = "off" /\ UNCHANGED <<lock, gw>>
    BY <2>1 DEF Start
  <2> QED BY <2>2 DEF Locked, TypeOK
<1>3. ASSUME NEW r \in Repos, SourceWrite(r) \/ Tamper(r) \/ GatewayRegisters(r) \/ GatewayServes(r)
      PROVE  LockInv'
  BY <1>3 DEF SourceWrite, Tamper, GatewayRegisters, GatewayServes
<1>4. CASE GatewayCheck \/ GatewayStart \/ GatewayRefused \/ GatewayStops
  BY <1>4 DEF GatewayCheck, GatewayStart, GatewayRefused, GatewayStops
<1>5. CASE UNCHANGED vars
  BY <1>5 DEF vars
<1> QED BY <1>1, <1>2, <1>3, <1>4, <1>5 DEF Next

\* A journal is there as long as its import is at it, and alone.
LEMMA PendingNext == IInv /\ [Next]_vars => PendingInv'
<1> SUFFICES ASSUME IInv, [Next]_vars PROVE PendingInv'
  OBVIOUS
<1> USE ImportAssumption DEF IInv, PendingInv, TypeOK
<1>1. ASSUME NEW i \in Importers, Step(i) \/ StepFails(i) \/ Crash(i) PROVE PendingInv'
  <2> DEFINE r == im[i].repo
             pc == im[i].pc
             pc1 == im'[i].pc
  <2>1. \A k \in Importers : k # i => im'[k] = im[k] /\ (im[i].pc \in Locked => im[k].pc \notin Locked)
    BY <1>1, Moves, Alone
  <2>2. Preparing \subseteq Locked /\ Prepared \subseteq Locked /\ Ending \subseteq Locked
    BY DEF Preparing, Prepared, Ending, Locked
  <2>3. UNCHANGED gw /\ (pc \in Locked => gw # "on" /\ r \in Repos)
    BY <1>1, Moves, Alone
  <2>4. CASE UNCHANGED journal
    <3>1. /\ pc1 \in Preparing => \A q \in Repos : journal[q] = None
          /\ pc1 \in Prepared \cup Ending => journal[r] # None /\ im'[i].repo = r
      <4> USE DEF Preparing, Prepared, Ending, Off, Go, Quit, At
      <4>1. CASE Lock(i)
        BY <4>1 DEF Lock, Importer
      <4>2. CASE Recover(i)
        <5>1. CASE Pending = {}
          BY <4>2, <5>1 DEF Recover, Pending, Importer
        <5>2. CASE Pending # {} /\ Quit(i)
          BY <5>2
        <5>3. CASE /\ Pending = {r}
                   /\ im' = [im EXCEPT ![i].pc = IF journal[Repo(i)].phase = "committed"
                                                 THEN "finish" ELSE "rollback",
                                       ![i].recovering = TRUE]
          BY <5>3 DEF Pending, Importer
        <5> QED BY <4>2, <5>1, <5>2, <5>3 DEF Recover, Repo
      <4>3. CASE Check(i) \/ Stage(i) \/ SetAside(i) \/ Install(i) \/ CheckSource(i) \/ WriteRow(i)
                 \/ CommitRow(i) \/ Rollback(i) \/ Restore(i) \/ Finish(i) \/ Clean(i)
        BY <4>3 DEF Check, Stage, SetAside, Install, CheckSource, WriteRow, CommitRow,
             Rollback, Restore, Finish, Clean, Importer
      <4>4. CASE StepFails(i)
        BY <4>4 DEF StepFails, Importer
      <4>5. CASE Crash(i)
        BY <4>5 DEF Crash
      <4>6. CASE WriteJournal(i) \/ Mark(i) \/ RemoveJournal(i)
        <5>1. pc \in Locked
          BY <4>6, <2>2 DEF WriteJournal, Mark, RemoveJournal
        <5>2. r \in Repos
          BY <2>3, <5>1
        <5>3. CASE WriteJournal(i)
          <6>1. journal' = [journal EXCEPT ![r] = Written(i)] /\ Written(i) # None
            BY <5>3, Journals DEF WriteJournal, Repo, Written
          <6>2. pc1 = "aside" /\ im'[i].repo = r
            BY <5>3 DEF WriteJournal, Importer
          <6> QED BY <2>4, <5>2, <6>1, <6>2
        <5>4. CASE Mark(i)
          BY <5>2, <5>4 DEF Mark, Repo, Importer
        <5>5. CASE RemoveJournal(i)
          BY <2>4, <5>2, <5>5 DEF RemoveJournal, Repo
        <5> QED BY <4>6, <5>3, <5>4, <5>5
      <4> QED BY <1>1, <4>1, <4>2, <4>3, <4>4, <4>5, <4>6 DEF Step
    <3> QED BY <2>1, <2>2, <2>3, <2>4, <3>1, Moves, <1>1
  <2>5. ASSUME pc \in Locked, NEW j, journal' = [journal EXCEPT ![r] = j],
               \A q \in Repos : q # r => journal[q] = None,
               pc1 \notin Preparing, pc1 \in Prepared \cup Ending => im'[i].repo = r /\ j # None
        PROVE  PendingInv'
    BY <2>1, <2>2, <2>3, <2>5
  <2>6. CASE WriteJournal(i)
    <3>1. pc \in Locked /\ \A q \in Repos : journal[q] = None
      BY <2>2, <2>6 DEF WriteJournal, At, Preparing
    <3>2. pc1 = "aside" /\ im'[i].repo = r
      BY <2>6 DEF WriteJournal, Go, Importer
    <3>3. journal' = [journal EXCEPT ![r] = Written(i)] /\ Written(i) # None
      BY <2>6, Journals DEF WriteJournal, Repo, At, Written
    <3> QED BY <2>5, <3>1, <3>2, <3>3 DEF Preparing
  <2>7. ASSUME pc \in Prepared \cup Ending
        PROVE  pc \in Locked /\ journal[r] \in Journal /\ \A q \in Repos : q # r => journal[q] = None
    <3>1. r \in Repos /\ journal[r] # None
      BY <2>2, <2>3, <2>7
    <3> QED BY <2>2, <2>7, <3>1
  <2>8. ASSUME pc = "mark", journal' = [journal EXCEPT ![r].phase = "committed"]
        PROVE  journal' = [journal EXCEPT ![r] = Marked(journal[r])] /\ Marked(journal[r]) # None
    BY <2>7, <2>8, Journals DEF Marked, Prepared
  <2>9. CASE Mark(i)
    <3>1. pc1 = "finish" /\ im'[i].repo = r
      BY <2>9 DEF Mark, Go, Importer
    <3> QED BY <2>5, <2>7, <2>8, <2>9, <3>1 DEF Mark, At, Repo, Prepared, Preparing
  <2>10. CASE StepFails(i) /\ ~UNCHANGED journal
    <3>1. pc = "mark" /\ journal' = [journal EXCEPT ![r].phase = "committed"] /\ Quit(i)
      BY <2>10 DEF StepFails, Repo
    <3>2. pc1 = "off"
      BY <3>1 DEF Quit, Off
    <3> QED BY <2>5, <2>7, <2>8, <3>1, <3>2 DEF Prepared, Ending, Preparing
  <2>11. CASE RemoveJournal(i)
    <3>1. pc = "unjournal" /\ journal' = [journal EXCEPT ![r] = None]
      BY <2>11 DEF RemoveJournal, At, Repo
    <3>2. \A q \in Repos : journal'[q] = None
      BY <2>7, <3>1 DEF Ending
    <3>3. pc1 \in {"off", "check"}
      BY <2>11 DEF RemoveJournal, Quit, Off, Importer
    <3> QED BY <2>1, <2>2, <2>3, <3>1, <3>2, <3>3 DEF Ending, Prepared, Preparing
  <2>12. UNCHANGED journal \/ WriteJournal(i) \/ Mark(i) \/ RemoveJournal(i) \/ StepFails(i)
    BY <1>1 DEF Step, Lock, Recover, Check, Stage, SetAside, Install, CheckSource, WriteRow, CommitRow,
         Rollback, Restore, Finish, Clean, Crash
  <2> QED BY <2>4, <2>6, <2>9, <2>10, <2>11, <2>12
<1>2. ASSUME NEW r \in Repos, Begin(r) \/ Retry(r) PROVE PendingInv'
  <2>1. PICK i \in Importers : Start(i, r)
    BY <1>2 DEF Begin, Retry
  <2>2. im' = [im EXCEPT ![i] = [pc |-> "lock", repo |-> r, hash |-> src[r], recovering |-> FALSE]]
        /\ im[i].pc = "off" /\ UNCHANGED <<journal, gw>>
    BY <2>1 DEF Start
  <2> QED BY <2>2 DEF Preparing, Prepared, Ending
<1>3. ASSUME NEW r \in Repos, SourceWrite(r) \/ Tamper(r) \/ GatewayRegisters(r) \/ GatewayServes(r)
      PROVE  PendingInv'
  BY <1>3 DEF SourceWrite, Tamper, GatewayRegisters, GatewayServes
<1>4. CASE GatewayCheck \/ GatewayStart \/ GatewayRefused \/ GatewayStops
  BY <1>4 DEF GatewayCheck, GatewayStart, GatewayRefused, GatewayStops, Pending
<1>5. CASE UNCHANGED vars
  BY <1>5 DEF vars
<1> QED BY <1>1, <1>2, <1>3, <1>4, <1>5 DEF Next

\* What is put in place has been converted.
LEMMA FileNext == IInv /\ [Next]_vars => FileInv'
<1> SUFFICES ASSUME IInv, [Next]_vars PROVE FileInv'
  OBVIOUS
<1> USE DEF IInv, FileInv, TypeOK
<1>1. Good(None) /\ Good(Empty) /\ Good(Used)
  BY DEF Good
<1>2. ASSUME NEW i \in Importers, Step(i) PROVE FileInv'
  <2>1. CASE UNCHANGED files
    BY <2>1 DEF files
  <2>2. CASE Stage(i)
    <3> DEFINE r == im[i].repo
               g == Activated(row[r]).generation
    <3>1. r \in Repos
      BY <2>2, Alone DEF Stage, At, Locked
    <3>2. CASE UNCHANGED staged
      BY <2>2, <3>2 DEF Stage
    <3>3. CASE staged' = [staged EXCEPT ![r] = Imported(src[r], g)] /\ Converts(Databases[src[r]], g)
      <4>1. g \in Nat
        BY <3>1, Rows
      <4>2. Good(Imported(src[r], g))
        BY <3>1, <3>3, <4>1 DEF Good, Genuine
      <4> QED BY <2>2, <3>3, <4>2 DEF Stage
    <3> QED BY <2>2, <3>2, <3>3 DEF Stage, Repo
  <2>3. CASE SetAside(i)
    BY <1>1, <2>3 DEF SetAside
  <2>4. CASE Install(i)
    BY <1>1, <2>4 DEF Install
  <2>5. CASE Restore(i)
    BY <1>1, <2>5 DEF Restore
  <2>6. CASE Finish(i) \/ Clean(i)
    BY <1>1, <2>6 DEF Finish, Clean
  <2> QED BY <1>2, <2>1, <2>2, <2>3, <2>4, <2>5, <2>6 DEF Step, Lock, Recover, Check, WriteJournal,
        CheckSource, WriteRow, CommitRow, Mark, Rollback, RemoveJournal
<1>3. ASSUME NEW i \in Importers, StepFails(i) \/ Crash(i) PROVE FileInv'
  BY <1>1, <1>3 DEF StepFails, Crash
<1>4. ASSUME NEW r \in Repos, Tamper(r) \/ GatewayServes(r) PROVE FileInv'
  BY <1>1, <1>4 DEF Tamper, GatewayServes
<1>5. CASE UNCHANGED files
  BY <1>5 DEF files
<1> QED BY <1>2, <1>3, <1>4, <1>5 DEF Next, Begin, Retry, Start, SourceWrite, GatewayRegisters,
      GatewayCheck, GatewayStart, GatewayRefused, GatewayStops, vars

\* A journal is written of what has been made sure of, and then only marked.
LEMMA JournalNext == IInv /\ [Next]_vars => JournalInv'
<1> SUFFICES ASSUME IInv, [Next]_vars PROVE JournalInv'
  OBVIOUS
<1> USE DEF IInv, JournalInv, TypeOK
<1>1. CASE UNCHANGED journal
  BY <1>1
<1>2. ASSUME NEW i \in Importers, WriteJournal(i) PROVE JournalInv'
  <2> DEFINE r == im[i].repo
  <2>1. im[i].pc = "journal" /\ r \in Repos /\ journal' = [journal EXCEPT ![r] = Written(i)]
    BY <1>2, Journals DEF WriteJournal, At, Repo, Written
  <2>2. Vacant(r) /\ Eligible(r) /\ Genuine(staged[r], Activated(row[r]).generation)
    BY <2>1 DEF StageInv, StageAt
  <2>3. /\ Written(i).previous \in {None, Empty}
        /\ Written(i).old = None \/ Written(i).old.active
        /\ Written(i).new = Activated(Written(i).old)
        /\ Genuine(Written(i).staged, Written(i).new.generation)
    BY <2>2 DEF Written, Vacant, Eligible
  <2> QED BY <2>1, <2>3
<1>3. ASSUME NEW r \in Repos, journal[r] # None, journal' = [journal EXCEPT ![r].phase = "committed"]
      PROVE  JournalInv'
  <2>1. journal' = [journal EXCEPT ![r] = Marked(journal[r])]
    BY <1>3 DEF Marked
  <2>2. /\ Marked(journal[r]).previous = journal[r].previous
        /\ Marked(journal[r]).old = journal[r].old
        /\ Marked(journal[r]).new = journal[r].new
        /\ Marked(journal[r]).staged = journal[r].staged
    BY <1>3 DEF Marked, Journal
  <2> QED BY <1>3, <2>1, <2>2
<1>4. ASSUME NEW i \in Importers, Mark(i) \/ (StepFails(i) /\ ~UNCHANGED journal) PROVE JournalInv'
  <2>1. im[i].pc = "mark" /\ journal' = [journal EXCEPT ![im[i].repo].phase = "committed"]
    BY <1>4 DEF Mark, StepFails, At, Repo
  <2>2. im[i].repo \in Repos /\ journal[im[i].repo] # None
    BY <2>1, Alone DEF Locked, PendingInv, Prepared
  <2> QED BY <1>3, <2>1, <2>2
<1>5. ASSUME NEW i \in Importers, RemoveJournal(i) PROVE JournalInv'
  BY <1>5 DEF RemoveJournal
<1> QED BY <1>1, <1>2, <1>4, <1>5 DEF Next, Step, Begin, Retry, Start, SourceWrite, Tamper,
      GatewayRegisters, GatewayServes, GatewayCheck, GatewayStart, GatewayRefused, GatewayStops, vars,
      Lock, Recover, Check, Stage, SetAside, Install, CheckSource, WriteRow, CommitRow, Rollback,
      Restore, Finish, Clean, Crash

\* Every step of an import finds what the steps before it have made sure of.
LEMMA StageNext == IInv /\ [Next]_vars => StageInv'
<1> SUFFICES ASSUME IInv, [Next]_vars PROVE StageInv'
  OBVIOUS
<1> USE DEF IInv, StageInv, TypeOK
<1>1. ASSUME NEW i \in Importers, im'[i].pc \notin Locked PROVE StageAt(i)'
  BY <1>1 DEF StageAt, Locked, Prepared
<1>2. ASSUME NEW i \in Importers, im'[i] = im[i],
             im[i].pc \in Locked => UNCHANGED <<dest, staged, backup, row, journal>>
      PROVE  StageAt(i)'
  <2>1. CASE im[i].pc \in Locked
    BY <1>2, <2>1 DEF StageAt, Vacant, Eligible, Genuine
  <2>2. CASE im[i].pc \notin Locked
    BY <1>1, <1>2, <2>2
  <2> QED BY <2>1, <2>2
<1>3. ASSUME NEW i \in Importers, Step(i) \/ StepFails(i) \/ Crash(i) PROVE StageInv'
  <2>1. ASSUME NEW k \in Importers, k # i PROVE StageAt(k)'
    <3>1. im'[k] = im[k] /\ (im[i].pc \in Locked => im[k].pc \notin Locked)
      BY <1>3, <2>1, Moves, Alone
    <3>2. CASE im[i].pc \in Locked
      BY <1>2, <3>1, <3>2
    <3>3. CASE im[i].pc \notin Locked
      <4>1. Lock(i)
        BY <1>3, <3>3 DEF Step, StepFails, Crash, Lock, Recover, Check, Stage, WriteJournal, SetAside,
             Install, CheckSource, WriteRow, CommitRow, Mark, Rollback, Restore, Finish, Clean,
             RemoveJournal, At, Locked
      <4> QED BY <1>2, <3>1, <4>1 DEF Lock, files
    <3> QED BY <3>2, <3>3
  <2>2. StageAt(i)'
    <3> DEFINE r == im[i].repo
               pc == im[i].pc
    <3> USE DEF At, Repo
    <3>1. im'[i] = Off \/ im'[i].repo = r
      BY <1>3, Moves
    <3>2. CASE im'[i] = Off
      BY <1>1, <3>2 DEF Off, Locked
    <3>3. ASSUME im'[i] # Off PROVE im'[i].repo = r /\ ~Quit(i)
      BY <3>1, <3>3 DEF Quit
    <3>4. ASSUME pc \in Locked PROVE r \in Repos
      BY <3>4, Alone
    <3>5. ASSUME pc \in Prepared \cup Ending PROVE r \in Repos /\ journal[r] \in Journal
      BY <3>4, <3>5, Journals DEF Prepared, Ending, Locked, PendingInv
    <3>6. CASE Lock(i) /\ im'[i] # Off
      BY <3>6 DEF Lock, Go, Importer, StageAt, Prepared
    <3>7. CASE Recover(i) /\ im'[i] # Off
      <4>1. CASE Go(i, "check")
        BY <3>7, <4>1 DEF Go, Importer, StageAt, Prepared
      <4>2. CASE im' = [im EXCEPT ![i].pc = IF journal[r].phase = "committed"
                                            THEN "finish" ELSE "rollback",
                                  ![i].recovering = TRUE]
        <5>1. im'[i].pc = (IF journal[r].phase = "committed" THEN "finish" ELSE "rollback")
          BY <4>2 DEF Importer
        <5>2. Pending # {}
          BY <3>7, <5>1 DEF Recover, Go, Importer
        <5>3. r \in Pending /\ UNCHANGED journal
          BY <3>3, <3>7, <5>2 DEF Recover
        <5>4. journal[r] \in Journal /\ UNCHANGED journal
          BY <5>3 DEF Pending
        <5> QED BY <3>3, <3>7, <5>4, <5>1 DEF StageAt, Prepared, Journal
      <4> QED BY <3>3, <3>7, <4>1, <4>2 DEF Recover
    <3>8. CASE Check(i) /\ im'[i] # Off
      <4>1. im'[i].pc = "stage" /\ Vacant(r) /\ Eligible(r) /\ UNCHANGED <<dest, row>>
        BY <3>3, <3>8 DEF Check, Go, Importer, files
      <4> QED BY <3>3, <3>8, <4>1 DEF StageAt, Prepared, Vacant, Eligible
    <3>9. CASE Stage(i) /\ im'[i] # Off
      <4>1. im'[i].pc = "journal" /\ UNCHANGED <<dest, row>> /\ r \in Repos
        BY <3>3, <3>4, <3>9 DEF Stage, Go, Importer, Locked
      <4>2. Vacant(r) /\ Eligible(r)
        BY <3>9 DEF Stage, StageAt
      <4>3. staged'[r] = Imported(src[r], Activated(row[r]).generation)
            /\ Converts(Databases[src[r]], Activated(row[r]).generation)
        BY <3>3, <3>9, <4>1 DEF Stage
      <4>4. Genuine(staged'[r], Activated(row[r]).generation)
        BY <4>1, <4>3 DEF Genuine
      <4> QED BY <3>3, <3>9, <4>1, <4>2, <4>4 DEF StageAt, Prepared, Vacant, Eligible, Genuine
    <3>10. CASE WriteJournal(i)
      <4>1. journal' = [journal EXCEPT ![r] = Written(i)] /\ r \in Repos
        BY <3>4, <3>10 DEF WriteJournal, Written, Locked
      <4>2. im'[i].pc = "aside" /\ im'[i].repo = r
        BY <3>10 DEF WriteJournal, Go, Importer
      <4> QED BY <4>1, <4>2 DEF StageAt, Written, Prepared
    <3>11. CASE SetAside(i) \/ Install(i) \/ CheckSource(i) \/ WriteRow(i) \/ CommitRow(i)
      <4>1. pc \in Prepared /\ UNCHANGED journal /\ im'[i].repo = r
        BY <3>11 DEF SetAside, Install, CheckSource, WriteRow, CommitRow, Go, Importer, Prepared
      <4>2. im'[i].pc \in Prepared \ {"restore"}
        BY <3>11 DEF SetAside, Install, CheckSource, WriteRow, CommitRow, Go, Importer, Prepared
      <4> QED BY <4>1, <4>2 DEF StageAt, Prepared
    <3>12. CASE Mark(i)
      <4>1. r \in Repos /\ journal'[r].phase = "committed" /\ im'[i].pc = "finish" /\ im'[i].repo = r
        BY <3>5, <3>12 DEF Mark, Go, Importer, Prepared, Journal
      <4> QED BY <4>1 DEF StageAt, Prepared
    <3>13. CASE Rollback(i) /\ im'[i] # Off
      <4>1. /\ r \in Repos /\ journal[r].phase = "prepared"
            /\ im'[i].pc = "restore" /\ im'[i].repo = r /\ UNCHANGED <<journal, dest, backup>>
        BY <3>3, <3>5, <3>13 DEF Rollback, Go, Importer, Prepared, StageAt, files
      <4>2. row'[r] = journal[r].old
        BY <3>3, <3>13, <4>1 DEF Rollback, RestoreRow
      <4>3. backup[r] \in {None, journal[r].previous}
            /\ (journal[r].previous \in {None, dest[r]} \/ backup[r] # None)
        BY <3>3, <3>13 DEF Rollback, Revocable, Recognised
      <4> QED BY <4>1, <4>2, <4>3 DEF StageAt, Prepared
    <3>14. CASE Restore(i)
      <4>1. /\ r \in Repos /\ journal[r].phase = "prepared" /\ row[r] = journal[r].old
            /\ backup[r] \in {None, journal[r].previous}
            /\ backup[r] # None \/ journal[r].previous \in {None, dest[r]}
        BY <3>5, <3>14 DEF Restore, Prepared, StageAt
      <4>2. im'[i].pc = "clean" /\ im'[i].repo = r /\ UNCHANGED <<journal, row>>
        BY <3>14 DEF Restore, Go, Importer
      <4>3. dest'[r] = journal[r].previous
        BY <3>14, <4>1 DEF Restore
      <4> QED BY <4>1, <4>2, <4>3 DEF StageAt, Prepared
    <3>15. CASE Finish(i) /\ im'[i] # Off
      <4>1. /\ r \in Repos /\ journal[r].phase = "committed"
            /\ im'[i].pc = "clean" /\ im'[i].repo = r /\ UNCHANGED <<journal, dest, row>>
            /\ dest[r] = journal[r].staged /\ row[r] = journal[r].new
        BY <3>3, <3>5, <3>15 DEF Finish, Go, Importer, Ending, StageAt
      <4> QED BY <4>1 DEF StageAt, Prepared
    <3>16. CASE Clean(i)
      <4>1. im'[i].pc = "unjournal" /\ im'[i].repo = r /\ UNCHANGED <<journal, dest, row>>
        BY <3>16 DEF Clean, Go, Importer
      <4> QED BY <3>16, <4>1 DEF Clean, StageAt, Prepared
    <3>17. CASE RemoveJournal(i) /\ im'[i] # Off
      <4>1. im'[i].pc = "check"
        BY <3>3, <3>17 DEF RemoveJournal, Importer
      <4> QED BY <4>1 DEF StageAt, Prepared
    <3>18. CASE StepFails(i) /\ im'[i] # Off
      <4>1. pc \in Prepared /\ im'[i].pc = "rollback" /\ UNCHANGED journal
        BY <3>3, <3>18 DEF StepFails, Importer, Prepared
      <4> QED BY <3>3, <3>18, <4>1 DEF StageAt, Prepared
    <3>19. Crash(i) => im'[i] = Off
      BY DEF Crash, Quit
    <3> QED BY <1>3, <3>2, <3>6, <3>7, <3>8, <3>9, <3>10, <3>11, <3>12, <3>13, <3>14, <3>15, <3>16,
          <3>17, <3>18, <3>19 DEF Step
  <2> QED BY <2>1, <2>2
<1>4. ASSUME NEW r \in Repos, Begin(r) \/ Retry(r) PROVE StageInv'
  <2>1. PICK i \in Importers : Start(i, r)
    BY <1>4 DEF Begin, Retry
  <2>2. im' = [im EXCEPT ![i] = [pc |-> "lock", repo |-> r, hash |-> src[r], recovering |-> FALSE]]
        /\ UNCHANGED <<dest, staged, backup, row, journal>>
    BY <2>1 DEF Start, files
  <2>3. StageAt(i)'
    BY <1>1, <2>2 DEF Locked
  <2>4. \A k \in Importers : k # i => StageAt(k)'
    BY <1>2, <2>2
  <2> QED BY <2>3, <2>4
<1>5. ASSUME UNCHANGED im,
             (\E i \in Importers : im[i].pc \in Locked) => UNCHANGED <<dest, staged, backup, row, journal>>
      PROVE  StageInv'
  BY <1>2, <1>5
<1>6. ASSUME NEW r \in Repos, SourceWrite(r) PROVE StageInv'
  BY <1>5, <1>6 DEF SourceWrite, files
<1>7. ASSUME NEW r \in Repos, Tamper(r) \/ GatewayRegisters(r) \/ GatewayServes(r) PROVE StageInv'
  <2>1. lock = None \/ gw = "on"
    BY <1>7 DEF Tamper, GatewayRegisters, GatewayServes
  <2>2. \A i \in Importers : im[i].pc \notin Locked
    BY <2>1, Alone
  <2> QED BY <1>5, <1>7, <2>2 DEF Tamper, GatewayRegisters, GatewayServes
<1>8. CASE GatewayCheck \/ GatewayStart \/ GatewayRefused \/ GatewayStops
  BY <1>5, <1>8 DEF GatewayCheck, GatewayStart, GatewayRefused, GatewayStops, files
<1>9. CASE UNCHANGED vars
  BY <1>5, <1>9 DEF vars, files
<1> QED BY <1>3, <1>4, <1>6, <1>7, <1>8, <1>9 DEF Next

\* The invariant holds at all times.
THEOREM ImportInvariant == Spec => []IInv
<1>1. IInv /\ [Next]_vars => IInv'
  BY TypeNext, LockNext, PendingNext, JournalNext, StageNext, FileNext DEF IInv
<1> QED BY <1>1, InitInv, PTL DEF Spec

\* Every variable keeps its type, for any repositories, importers and sources.
THEOREM TypeCorrect == Spec => []TypeOK
<1>1. IInv => TypeOK
  BY DEF IInv
<1> QED BY <1>1, ImportInvariant, PTL

\* The gateway never runs beside an import that is half done.
THEOREM GatewayRunsAlone == Spec => []GatewayRunsClean
<1>1. IInv => GatewayRunsClean
  <2> SUFFICES ASSUME IInv, gw = "on" PROVE Pending = {} /\ \A i \in Importers : im[i].pc \notin Locked
    BY DEF GatewayRunsClean
  <2>1. Pending = {}
    BY DEF IInv, PendingInv, Pending
  <2>2. \A i \in Importers : im[i].pc \notin Locked
    BY Alone DEF IInv
  <2> QED BY <2>1, <2>2
<1> QED BY <1>1, ImportInvariant, PTL

\* What an import puts in place sends nothing that belongs elsewhere.
THEOREM NothingIsRevived == Spec => []NothingRevived
<1>1. IInv => NothingRevived
  <2> SUFFICES ASSUME IInv, NEW r \in Repos, dest[r] \notin {None, Empty, Used},
                      NEW e \in Converted(Databases[dest[r].db], dest[r].generation),
                      ~e.sent
               PROVE  /\ Databases[dest[r].db].proven
                      /\ e.generation = dest[r].generation
                      /\ e.url # "old"
                      /\ e.url = "foreign" => ~e.presentation
    BY DEF NothingRevived
  <2>1. PICK g \in Nat : Genuine(dest[r], g)
    BY DEF IInv, FileInv, Good
  <2>2. PICK v \in Versions : dest[r] = Imported(v, g) /\ Converts(Databases[v], g)
    BY <2>1 DEF Genuine
  <2> DEFINE db == Databases[v]
  <2>3. dest[r].db = v /\ dest[r].generation = g
    BY <2>2 DEF Imported, A!Imported
  <2>4. db \in Database
    BY ImportAssumption
  <2>5. PICK f \in db.outbox :
             e = [f EXCEPT !.url = Rebased(@), !.sent = @ \/ Retired(db, f),
                           !.generation = IF @ = 0 /\ db.proven THEN g ELSE @]
    BY <2>3 DEF Converted
  <2>6. f \in Event
    BY <2>4 DEF Database
  <2>7. /\ e.url = Rebased(f.url)
        /\ e.sent = (f.sent \/ Retired(db, f))
        /\ e.generation = (IF f.generation = 0 /\ db.proven THEN g ELSE f.generation)
        /\ e.presentation = f.presentation
    BY <2>5, <2>6 DEF Event
  <2>8. ~f.sent /\ ~Retired(db, f)
    BY <2>7
  <2>9. db.proven /\ (f.url = "foreign" => ~f.presentation)
    BY <2>4, <2>6, <2>8 DEF Retired, Database, Event
  <2>10. f.generation \in {0, g}
    BY <2>2 DEF Converts
  <2> QED BY <2>3, <2>7, <2>9, <2>10 DEF Rebased
<1> QED BY <1>1, ImportInvariant, PTL

-------------------------------------------------------------------------------
(***************************************************************************)
(* An import is atomic: a repository whose journal is prepared counts as   *)
(* what it was, and one whose journal is committed as what it becomes.     *)
(***************************************************************************)
SeenStores == [r \in Repos |-> IF journal[r] = None THEN dest[r]
                            ELSE IF journal[r].phase = "prepared" THEN journal[r].previous
                            ELSE journal[r].staged]
SeenRows == [r \in Repos |-> IF journal[r] = None THEN row[r]
                          ELSE IF journal[r].phase = "prepared" THEN journal[r].old
                          ELSE journal[r].new]
Same == UNCHANGED <<SeenStores, SeenRows>>

\* What is done to the files and the row of a pending import is not seen.
LEMMA Unseen ==
    ASSUME IInv, UNCHANGED journal,
           \A r \in Repos : journal[r] = None => dest'[r] = dest[r] /\ row'[r] = row[r]
    PROVE  Same
BY DEF Same, SeenStores, SeenRows

\* The journal that an importer is at.
LEMMA OwnJournal ==
    ASSUME IInv, NEW i \in Importers, im[i].pc \in Prepared \cup Ending
    PROVE  /\ im[i].repo \in Repos
           /\ journal[im[i].repo] # None /\ journal[im[i].repo] \in Journal
           /\ gw # "on"
<1>1. im[i].pc \in Locked
  BY DEF Prepared, Ending, Locked
<1> QED BY <1>1, Alone DEF IInv, PendingInv, TypeOK

\* To mark a journal is to import.
LEMMA MarkImports ==
    ASSUME IInv, NEW i \in Importers, im[i].pc = "mark", UNCHANGED <<dest, row, gw>>,
           journal' = [journal EXCEPT ![im[i].repo].phase = "committed"]
    PROVE  A!Next
<1>0. PICK r \in Repos : r = im[i].repo
  BY OwnJournal DEF Prepared
<1> DEFINE j == journal[r]
<1>1. j # None /\ j \in Journal /\ gw # "on"
  BY <1>0, OwnJournal DEF Prepared
<1>2. j.phase = "prepared"
  BY <1>0 DEF IInv, StageInv, StageAt, Prepared
<1>3. /\ j.previous \in {None, Empty} /\ (j.old = None \/ j.old.active)
      /\ j.new = Activated(j.old) /\ Genuine(j.staged, j.new.generation)
  BY <1>1 DEF IInv, JournalInv
<1>4. PICK v \in Versions : j.staged = Imported(v, Activated(j.old).generation)
  BY <1>3 DEF Genuine
<1>5. journal' = [journal EXCEPT ![r] = Marked(j)]
  BY <1>0 DEF Marked
<1>6. /\ Marked(j) # None /\ Marked(j).phase = "committed"
      /\ Marked(j).staged = j.staged /\ Marked(j).new = j.new
  BY <1>1, Journals DEF Marked, Journal
<1>7. SeenStores[r] = j.previous /\ SeenRows[r] = j.old
  BY <1>1, <1>2 DEF SeenStores, SeenRows
<1>8. SeenStores' = [SeenStores EXCEPT ![r] = Imported(v, Activated(SeenRows[r]).generation)]
  <2>1. ASSUME NEW q \in Repos
        PROVE  SeenStores'[q]
               = [SeenStores EXCEPT ![r] = Imported(v, Activated(SeenRows[r]).generation)][q]
    BY <1>1, <1>4, <1>5, <1>6, <1>7, <2>1 DEF SeenStores, IInv, TypeOK
  <2> QED BY <2>1 DEF SeenStores
<1>9. SeenRows' = [SeenRows EXCEPT ![r] = Activated(SeenRows[r])]
  <2>1. ASSUME NEW q \in Repos PROVE SeenRows'[q] = [SeenRows EXCEPT ![r] = Activated(SeenRows[r])][q]
    BY <1>1, <1>3, <1>5, <1>6, <1>7, <2>1 DEF SeenRows, IInv, TypeOK
  <2> QED BY <2>1 DEF SeenRows
<1>10. SeenStores[r] \in {None, A!Empty} /\ (SeenRows[r] = None \/ SeenRows[r].active)
  BY <1>3, <1>7 DEF Empty
<1>11. A!Import(r)
  BY <1>1, <1>8, <1>9, <1>10 DEF A!Import, SeenStores, SeenRows, Imported, Activated
<1> QED BY <1>11 DEF A!Next

\* A step of an importer marks its journal, or is not seen.
LEMMA ImporterRefines ==
    ASSUME IInv, NEW i \in Importers, Step(i) \/ StepFails(i) \/ Crash(i)
    PROVE  (Same /\ UNCHANGED gw) \/ A!Next
<1> USE DEF At, Repo, files
<1>0. UNCHANGED gw
  BY Moves DEF IInv
<1>1. CASE UNCHANGED <<journal, dest, row>>
  BY <1>0, <1>1, Unseen
<1>2. CASE WriteJournal(i)
  <2> DEFINE r == im[i].repo
  <2>1. /\ r \in Repos /\ journal[r] = None
        /\ journal' = [journal EXCEPT ![r] = Written(i)] /\ Written(i) # None
    BY <1>2, Journals DEF WriteJournal, Written, IInv, PendingInv, Preparing
  <2>2. Written(i).phase = "prepared" /\ Written(i).previous = dest[r] /\ Written(i).old = row[r]
    BY DEF Written
  <2>3. UNCHANGED <<dest, row>>
    BY <1>2 DEF WriteJournal
  <2>4. \A q \in Repos : SeenStores'[q] = SeenStores[q] /\ SeenRows'[q] = SeenRows[q]
    BY <2>1, <2>2, <2>3 DEF SeenStores, SeenRows, IInv, TypeOK
  <2> QED BY <1>0, <2>4 DEF Same, SeenStores, SeenRows
<1>3. CASE SetAside(i) \/ Install(i) \/ CommitRow(i) \/ Rollback(i) \/ Restore(i)
  <2> DEFINE r == im[i].repo
  <2>1. r \in Repos /\ journal[r] # None
    BY <1>3, OwnJournal DEF SetAside, Install, CommitRow, Rollback, Restore, Prepared
  <2>2. UNCHANGED journal /\ \A q \in Repos : q # r => dest'[q] = dest[q] /\ row'[q] = row[q]
    BY <1>3 DEF SetAside, Install, CommitRow, Rollback, RestoreRow, Restore, IInv, TypeOK
  <2> QED BY <1>0, <2>1, <2>2, Unseen
<1>4. CASE Mark(i) \/ (StepFails(i) /\ ~UNCHANGED journal)
  BY <1>4, MarkImports DEF Mark, StepFails
<1>5. CASE RemoveJournal(i)
  <2> DEFINE r == im[i].repo
  <2>1. r \in Repos /\ journal[r] # None /\ im[i].pc = "unjournal"
    BY <1>5, OwnJournal DEF RemoveJournal, Ending
  <2>2. journal' = [journal EXCEPT ![r] = None] /\ UNCHANGED <<dest, row>>
    BY <1>5 DEF RemoveJournal
  <2>3. \/ journal[r].phase = "prepared" /\ dest[r] = journal[r].previous /\ row[r] = journal[r].old
        \/ journal[r].phase = "committed" /\ dest[r] = journal[r].staged /\ row[r] = journal[r].new
    BY <2>1 DEF IInv, StageInv, StageAt
  <2>4. \A q \in Repos : SeenStores'[q] = SeenStores[q] /\ SeenRows'[q] = SeenRows[q]
    BY <2>1, <2>2, <2>3 DEF SeenStores, SeenRows, IInv, TypeOK
  <2> QED BY <1>0, <2>4 DEF Same, SeenStores, SeenRows
<1>6. StepFails(i) => UNCHANGED <<dest, row>>
  BY DEF StepFails
<1> QED BY <1>1, <1>2, <1>3, <1>4, <1>5, <1>6 DEF Step, Lock, Recover, Check, Stage, CheckSource,
      WriteRow, Finish, Clean, Crash

\* Nothing is pending while the gateway runs, and only what is not pending is seen
\* to be put in place by others.
LEMMA OthersRefine ==
    ASSUME IInv, NEW r \in Repos, GatewayRegisters(r) \/ GatewayServes(r) \/ Tamper(r)
    PROVE  (Same /\ UNCHANGED gw) \/ A!Next
<1> USE DEF IInv, TypeOK, files
<1>1. gw = "on" => SeenStores = dest /\ SeenRows = row
  BY DEF PendingInv, SeenStores, SeenRows
<1>2. CASE GatewayRegisters(r)
  <2>1. gw = "on" /\ UNCHANGED <<journal, gw, dest>>
    BY <1>2 DEF GatewayRegisters
  <2>2. SeenStores' = dest' /\ SeenRows' = row'
    <3>1. \A q \in Repos : journal'[q] = None
      BY <2>1 DEF PendingInv
    <3>2. dest' \in [Repos -> File \cup {None}] /\ row' \in [Repos -> Row \cup {None}]
      BY <1>2, TypeNext DEF Next
    <3> QED BY <3>1, <3>2 DEF SeenStores, SeenRows
  <2>3. row'[r] \in Row /\ row' = [row EXCEPT ![r] = row'[r]]
    BY <1>2, Rows DEF GatewayRegisters
  <2>4. A!Serve(r)
    BY <1>1, <2>1, <2>2, <2>3 DEF A!Serve, SeenStores, SeenRows, Row
  <2> QED BY <2>4 DEF A!Next
<1>3. CASE GatewayServes(r)
  <2>1. gw = "on" /\ row[r] # None /\ UNCHANGED <<journal, gw, row>>
    BY <1>3 DEF GatewayServes
  <2>2. SeenStores' = dest' /\ SeenRows' = row'
    <3>1. \A q \in Repos : journal'[q] = None
      BY <2>1 DEF PendingInv
    <3>2. dest' \in [Repos -> File \cup {None}] /\ row' \in [Repos -> Row \cup {None}]
      BY <1>3, TypeNext DEF Next
    <3> QED BY <3>1, <3>2 DEF SeenStores, SeenRows
  <2>3. dest' = [dest EXCEPT ![r] = IF @ = None THEN A!Empty ELSE A!Used]
    BY <1>3 DEF GatewayServes, Empty, Used
  <2>4. A!Serve(r)
    BY <1>1, <2>1, <2>2, <2>3 DEF A!Serve, SeenStores, SeenRows
  <2> QED BY <2>4 DEF A!Next
<1>4. CASE Tamper(r)
  <2>1. lock = None /\ UNCHANGED <<journal, gw, row>> /\ dest' = [dest EXCEPT ![r] = Used]
    BY <1>4 DEF Tamper
  <2>2. gw # "on"
    BY <2>1, ImportAssumption DEF LockInv
  <2>3. CASE journal[r] # None
    BY <2>1, <2>3, Unseen
  <2>4. CASE journal[r] = None
    <3>1. \A q \in Repos : /\ SeenStores'[q] = [SeenStores EXCEPT ![r] = A!Used][q]
                           /\ SeenRows'[q] = SeenRows[q]
      BY <2>1, <2>4 DEF SeenStores, SeenRows, Used
    <3>2. SeenStores' = [SeenStores EXCEPT ![r] = A!Used] /\ SeenRows' = SeenRows
      BY <3>1 DEF SeenStores, SeenRows
    <3>3. A!PutInPlace(r)
      BY <2>1, <2>2, <3>2 DEF A!PutInPlace, SeenStores, SeenRows
    <3> QED BY <3>3 DEF A!Next
  <2> QED BY <2>3, <2>4
<1> QED BY <1>2, <1>3, <1>4

\* An import happens as a whole or not at all, at every crash and failure of any
\* number of importers.
THEOREM ImportIsAtomic == Spec => ImplementsAtomicImport
<1>1. Init => A!Init
  BY ImportAssumption DEF Init, A!Init
<1>2. IInv /\ [Next]_vars => [A!Next]_<<SeenStores, SeenRows, gw = "on">>
  <2> SUFFICES ASSUME IInv, [Next]_vars PROVE (Same /\ UNCHANGED (gw = "on")) \/ A!Next
    BY DEF Same
  <2>1. ASSUME NEW i \in Importers, Step(i) \/ StepFails(i) \/ Crash(i)
        PROVE  (Same /\ UNCHANGED (gw = "on")) \/ A!Next
    BY <2>1, ImporterRefines
  <2>2. ASSUME NEW r \in Repos, GatewayRegisters(r) \/ GatewayServes(r) \/ Tamper(r)
        PROVE  (Same /\ UNCHANGED (gw = "on")) \/ A!Next
    BY <2>2, OthersRefine
  <2>3. CASE UNCHANGED <<journal, dest, row>>
    <3>1. Same
      BY <2>3, Unseen
    <3>2. CASE UNCHANGED (gw = "on")
      BY <3>1, <3>2
    <3>3. CASE ~UNCHANGED (gw = "on")
      <4>1. (gw = "on")' = ~(gw = "on")
        BY <3>3
      <4> QED BY <3>1, <4>1 DEF Same, SeenStores, SeenRows, A!Next, A!StartOrStop
    <3> QED BY <3>2, <3>3
  <2> QED BY <2>1, <2>2, <2>3 DEF Next, Begin, Retry, Start, SourceWrite, GatewayCheck, GatewayStart,
        GatewayRefused, GatewayStops, vars, files
<1> QED BY <1>1, <1>2, ImportInvariant, PTL
      DEF Spec, ImplementsAtomicImport, A!Spec, SeenStores, SeenRows
===============================================================================
