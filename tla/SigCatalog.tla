------------------------------- MODULE SigCatalog -------------------------------
(***************************************************************************)
(* The Bluetooth SIG registries: tools/import_bluetooth_sig.py writes an     *)
(* immutable snapshot per revision and can publish one as the set of active  *)
(* flat files, file after file, with a rollback; kamal-scan and kamal-gatt   *)
(* load the flat files, file after file; kamal-assess binds their reports to *)
(* a pinned snapshot (kamal/catalog_provenance.py).  Importers take no lock. *)
(* They and the readers interleave, fail, are interrupted and are killed,    *)
(* and the power may be lost.                                                *)
(***************************************************************************)
EXTENDS Integers, Sequences

CONSTANTS
  Importers,      \* runs of the importer
  Revisions,      \* commits of the SIG repository
  None,           \* no flat file
  Garbage,        \* a file whose bytes never reached the disk
  Last,           \* registries are numbered 1..Last in their sorted order
  Loaded,         \* the registries a scan loads, in this order
  MaxCrashes      \* bound: interrupts, kills and power losses

Names == 1..Last
Contents == Revisions \cup {None, Garbage}

ASSUME CatalogAssumption ==
  /\ Last \in Nat \ {0} /\ Loaded \in Seq(Names) \ {<<>>} /\ MaxCrashes \in Nat
  /\ None \notin Revisions /\ Garbage \notin Revisions \cup {None}

VARIABLES
  snapshots,  \* snapshots/<revision>: absent, whole, torn; lost is absent again,
              \* a power loss has taken it
  active,     \* <name>.json: the revision it holds
  entries,    \* what a power loss may find under each name
  unsynced,   \* snapshots written since the last power loss
  crashes,    \* interrupts, kills and power losses that may still come
  pc,         \* where an importer stands
  rev,        \* args.revision
  next,       \* the registry its loop is at
  previous,   \* the bytes it read before publishing
  staged,     \* what its temporary files hold
  replaced,   \* names whose replacement it has noted
  errors,     \* names of its rollback_errors
  found,      \* history: the active set it began with, or Lost when another
              \* importer has published since
  missed,     \* history: registries it replaced and did not restore, because it
              \* was interrupted or because it could not and says so
  report,     \* the revisions a scan has loaded, in the order of Loaded
  reader      \* loading, reported, refused, bound, rejected

files == <<snapshots, active, entries, unsynced, crashes>>
work == <<rev, next, previous, staged, replaced, errors>>
history == <<found, missed>>
importer == <<pc, work, history>>
analysis == <<report, reader>>
vars == <<files, importer, analysis>>

Set(f, i, value) == [f EXCEPT ![i] = value]
At(i, label) == pc[i] = label
Goto(i, label) == pc' = Set(pc, i, label)

Nothing == [n \in Names |-> None]
Lost == [n \in {} |-> None]

\* The importer ends, and its temporary files and its memory with it; only what
\* it reports to have activated is kept.
End(i, label) ==
  /\ Goto(i, label)
  /\ rev' = IF label = "activated" THEN rev ELSE Set(rev, i, None)
  /\ next' = Set(next, i, 1) /\ errors' = Set(errors, i, {})
  /\ previous' = Set(previous, i, Nothing) /\ staged' = Set(staged, i, Nothing)
  /\ replaced' = Set(replaced, i, {})

-----------------------------------------------------------------------------
(* create_snapshot *)

\* There is no directory of that name.
Missing(r) == snapshots[r] \in {"absent", "lost"}

\* A revision that is there is verified and used; otherwise it is built.
Start(i) ==
  /\ At(i, "idle")
  /\ \E r \in Revisions :
       /\ rev' = Set(rev, i, r)
       /\ Goto(i, IF Missing(r) THEN "build" ELSE "verify")
  /\ UNCHANGED <<files, next, previous, staged, replaced, errors, history, analysis>>

\* Mutant of BuildSnapshot: what is removed after an error has the final name.
BuildSnapshotClearing(i) ==
  /\ At(i, "build")
  /\ \/ /\ Goto(i, "verify") /\ UNCHANGED work
        /\ IF Missing(rev[i])
           THEN /\ snapshots' = Set(snapshots, rev[i], "whole")
                /\ unsynced' = unsynced \cup {rev[i]}
           ELSE UNCHANGED <<snapshots, unsynced>>
     \/ /\ End(i, "failed") /\ snapshots' = Set(snapshots, rev[i], "absent")
        /\ unsynced' = unsynced \ {rev[i]}
  /\ UNCHANGED <<active, entries, crashes, history, analysis>>

\* All of a snapshot is written under a name of its own and renamed.  A rename
\* that finds the snapshot there leaves it; other errors end the import.  What is
\* removed on the way out has the name of its own.
BuildSnapshot(i) ==
  /\ At(i, "build")
  /\ \/ /\ Goto(i, "verify") /\ UNCHANGED work
        /\ IF Missing(rev[i])
           THEN /\ snapshots' = Set(snapshots, rev[i], "whole")
                /\ unsynced' = unsynced \cup {rev[i]}
           ELSE UNCHANGED <<snapshots, unsynced>>
     \/ End(i, "failed") /\ UNCHANGED <<snapshots, unsynced>>
  /\ UNCHANGED <<active, entries, crashes, history, analysis>>

\* Mutant of Verify: a snapshot that is there was written by the importer.
VerifyTrusting(i) ==
  /\ At(i, "verify")
  /\ \/ End(i, "created")
     \/ Goto(i, "read") /\ UNCHANGED work
  /\ UNCHANGED <<files, history, analysis>>

\* verify_snapshot: manifest, hashes and revisions; a torn snapshot is refused
\* at every later import.  With --activate the flat files are next.
Verify(i) ==
  /\ At(i, "verify")
  /\ \/ snapshots[rev[i]] = "torn" /\ End(i, "failed")
     \/ snapshots[rev[i]] = "whole" /\ End(i, "created")
     \/ snapshots[rev[i]] = "whole" /\ Goto(i, "read") /\ UNCHANGED work
  /\ UNCHANGED <<files, history, analysis>>

-----------------------------------------------------------------------------
(* activate_snapshot *)

\* previous: the flat files are read one after the other.  One that cannot be
\* read, or is removed between exists() and read_bytes(), ends the import.
ReadPrevious(i) ==
  /\ At(i, "read")
  /\ \/ /\ previous' = [previous EXCEPT ![i][next[i]] = active[next[i]]]
        /\ found' = IF next[i] = 1 THEN Set(found, i, active) ELSE found
        /\ IF next[i] = Last
           THEN Goto(i, "stage") /\ next' = Set(next, i, 1)
           ELSE next' = Set(next, i, next[i] + 1) /\ UNCHANGED pc
        /\ UNCHANGED <<rev, staged, replaced, errors>>
     \/ End(i, "failed") /\ UNCHANGED found
  /\ UNCHANGED <<files, missed, analysis>>

\* Each temporary file is written and synced; on an error all are removed.
Stage(i) ==
  /\ At(i, "stage")
  /\ \/ /\ staged' = Set(staged, i, [n \in Names |->
                       IF snapshots[rev[i]] = "torn" THEN Garbage ELSE rev[i]])
        /\ Goto(i, "replace") /\ UNCHANGED <<rev, next, previous, replaced, errors>>
     \/ End(i, "failed")
  /\ UNCHANGED <<files, history, analysis>>

\* The path of n now holds value; whoever else publishes is no longer alone.
Publish(i, n, value) ==
  /\ active' = Set(active, n, value)
  /\ entries' = Set(entries, n, entries[n] \cup {value})
  /\ found' = [j \in Importers |-> IF j = i THEN found[j] ELSE Lost]

\* os.replace of one file; it fails without an effect.
Replace(i) ==
  /\ At(i, "replace")
  /\ \/ /\ Publish(i, next[i], staged[i][next[i]])
        /\ staged' = [staged EXCEPT ![i][next[i]] = None]
        /\ Goto(i, "note")
     \/ Goto(i, "rollback") /\ UNCHANGED <<active, entries, found, staged>>
  /\ UNCHANGED <<snapshots, unsynced, crashes, rev, next, previous, replaced, errors,
                 missed, analysis>>

\* Mutant of NoteReplaced: only the files that were new are to be restored.
NoteReplacedNew(i) ==
  /\ At(i, "note")
  /\ IF next[i] = Last THEN End(i, "activated")
     ELSE /\ Goto(i, "replace") /\ next' = Set(next, i, next[i] + 1)
          /\ replaced' = Set(replaced, i, {n \in 1..next[i] : previous[i][n] = None})
          /\ UNCHANGED <<rev, previous, staged, errors>>
  /\ UNCHANGED <<files, history, analysis>>

\* Mutant of NoteReplaced: the loop looks for its end one registry too late.
NoteReplacedLate(i) ==
  /\ At(i, "note")
  /\ IF next[i] = Last + 1 THEN End(i, "activated")
     ELSE /\ Goto(i, "replace") /\ next' = Set(next, i, next[i] + 1)
          /\ replaced' = Set(replaced, i, replaced[i] \cup {next[i]})
          /\ UNCHANGED <<rev, previous, staged, errors>>
  /\ UNCHANGED <<files, history, analysis>>

\* replaced.append is a statement of its own.
NoteReplaced(i) ==
  /\ At(i, "note")
  /\ IF next[i] = Last THEN End(i, "activated")
     ELSE /\ Goto(i, "replace") /\ next' = Set(next, i, next[i] + 1)
          /\ replaced' = Set(replaced, i, replaced[i] \cup {next[i]})
          /\ UNCHANGED <<rev, previous, staged, errors>>
  /\ UNCHANGED <<files, history, analysis>>

\* The registry that the rollback, in reverse order, is at.
Latest(i) == {n \in replaced[i] : \A m \in replaced[i] : m <= n}

\* In reverse order what was there is put back; a file that cannot be restored
\* does not keep the others from it.  Then the error is raised, and the
\* temporary files that were not used are removed.
Rollback(i) ==
  /\ At(i, "rollback")
  /\ \/ /\ replaced[i] = {}
        /\ End(i, IF errors[i] = {} THEN "failed" ELSE "incomplete")
        /\ missed' = Set(missed, i, missed[i] \cup errors[i])
        /\ UNCHANGED <<active, entries, found>>
     \/ \E n \in Latest(i) :
          /\ replaced' = Set(replaced, i, replaced[i] \ {n})
          /\ \/ Publish(i, n, previous[i][n]) /\ UNCHANGED errors
             \/ /\ errors' = Set(errors, i, errors[i] \cup {n})
                /\ UNCHANGED <<active, entries, found>>
          /\ UNCHANGED <<pc, rev, next, previous, staged, missed>>
  /\ UNCHANGED <<snapshots, unsynced, crashes, analysis>>

\* KeyboardInterrupt in the loop of replacements starts the rollback, as an
\* OSError does; but between a replacement and its note the rollback does not
\* know of the file, and after the last note all are undone.
InterruptReplacing(i) ==
  /\ Goto(i, "rollback")
  /\ \/ At(i, "replace") /\ UNCHANGED <<replaced, missed>>
     \/ /\ At(i, "note") /\ missed' = Set(missed, i, missed[i] \cup {next[i]})
        /\ UNCHANGED replaced
     \/ /\ At(i, "note") /\ next[i] = Last
        /\ replaced' = Set(replaced, i, Names) /\ UNCHANGED missed
  /\ UNCHANGED <<active, entries, found, rev, next, previous, staged, errors>>

\* In the rollback it is one more rollback error while a file is being restored,
\* before or after its os.replace; anywhere else it leaves the handler, and the
\* import ends with what was not restored as it is, without a word of it.
InterruptRollback(i) ==
  /\ At(i, "rollback")
  /\ \/ \E n \in Latest(i) :
          /\ replaced' = Set(replaced, i, replaced[i] \ {n})
          /\ errors' = Set(errors, i, errors[i] \cup {n})
          /\ Publish(i, n, previous[i][n]) \/ UNCHANGED <<active, entries, found>>
          /\ UNCHANGED <<pc, rev, next, previous, staged, missed>>
     \/ /\ End(i, "failed")
        /\ missed' = Set(missed, i, missed[i] \cup replaced[i] \cup errors[i])
        /\ UNCHANGED <<active, entries, found>>

\* Ctrl-C.  Once the last file is noted and the loop is left, the set is
\* published, and an interrupt changes nothing of it.
Interrupt(i) ==
  /\ crashes > 0 /\ crashes' = crashes - 1
  /\ \/ /\ pc[i] \in {"build", "verify", "read", "stage"}
        /\ End(i, "failed") /\ UNCHANGED <<active, entries, history>>
     \/ InterruptReplacing(i)
     \/ InterruptRollback(i)
  /\ UNCHANGED <<snapshots, unsynced, analysis>>

\* An importer is killed, and run again.
Kill(i) ==
  /\ pc[i] \in {"build", "verify", "read", "stage", "replace", "note", "rollback"}
  /\ crashes > 0 /\ crashes' = crashes - 1
  /\ End(i, "idle")
  /\ found' = Set(found, i, Lost) /\ missed' = Set(missed, i, {})
  /\ UNCHANGED <<snapshots, active, entries, unsynced, analysis>>

\* The temporary files are synced, but no directory is, nor the files of a
\* snapshot: each name may hold what it held before.
PowerLoss ==
  /\ crashes > 0 /\ crashes' = crashes - 1
  /\ active' \in {f \in [Names -> Contents] : \A n \in Names : f[n] \in entries[n]}
  /\ entries' = [n \in Names |-> {active'[n]}]
  /\ \E fate \in [unsynced -> {"lost", "whole", "torn"}] :
       snapshots' = [r \in Revisions |-> IF r \in unsynced THEN fate[r] ELSE snapshots[r]]
  /\ unsynced' = {}
  /\ pc' = [i \in Importers |-> "idle"] /\ rev' = [i \in Importers |-> None]
  /\ next' = [i \in Importers |-> 1] /\ errors' = [i \in Importers |-> {}]
  /\ previous' = [i \in Importers |-> Nothing] /\ staged' = [i \in Importers |-> Nothing]
  /\ replaced' = [i \in Importers |-> {}] /\ missed' = [i \in Importers |-> {}]
  /\ found' = [i \in Importers |-> Lost]
  /\ UNCHANGED analysis

-----------------------------------------------------------------------------
(* The readers *)

\* load_registry, one file after the other
LoadRegistry ==
  /\ reader = "loading"
  /\ LET content == active[Loaded[Len(report) + 1]]
     IN IF content \in Revisions
        THEN /\ report' = Append(report, content)
             /\ reader' = IF Len(report') = Len(Loaded) THEN "reported" ELSE "loading"
        ELSE reader' = "refused" /\ UNCHANGED report
  /\ UNCHANGED <<files, importer>>

\* _validate_passive_binding: each registry of the report is of the snapshot.
Matches(r) == \A k \in DOMAIN report : report[k] = r

\* A snapshot is chosen; load_bluetooth_snapshot verifies it, and a mismatch
\* fails closed.  (The report of a connection is bound by resolving its UUIDs
\* again: _validate_active_binding, which is left out.)
Bind ==
  /\ reader = "reported"
  /\ \E r \in Revisions :
       reader' = IF snapshots[r] = "whole" /\ Matches(r) THEN "bound" ELSE "rejected"
  /\ UNCHANGED <<files, importer, report>>

-----------------------------------------------------------------------------

\* The active set is of one revision, whose snapshot is there, or none yet.
Init ==
  /\ \E r \in Revisions \cup {None} :
       /\ snapshots = [s \in Revisions |-> IF s = r THEN "whole" ELSE "absent"]
       /\ active = [n \in Names |-> r]
  /\ entries = [n \in Names |-> {active[n]}] /\ unsynced = {}
  /\ crashes = MaxCrashes
  /\ pc = [i \in Importers |-> "idle"] /\ rev = [i \in Importers |-> None]
  /\ next = [i \in Importers |-> 1] /\ errors = [i \in Importers |-> {}]
  /\ previous = [i \in Importers |-> Nothing] /\ staged = [i \in Importers |-> Nothing]
  /\ replaced = [i \in Importers |-> {}] /\ missed = [i \in Importers |-> {}]
  /\ found = [i \in Importers |-> Lost]
  /\ report = <<>> /\ reader = "loading"

Importing(i) ==
  \/ Start(i) \/ BuildSnapshot(i) \/ Verify(i)
  \/ ReadPrevious(i) \/ Stage(i) \/ Replace(i) \/ NoteReplaced(i) \/ Rollback(i)
  \/ Interrupt(i) \/ Kill(i)

Next == (\E i \in Importers : Importing(i)) \/ PowerLoss \/ LoadRegistry \/ Bind

Spec == Init /\ [][Next]_vars
-----------------------------------------------------------------------------
(* Properties *)

TypeOK ==
  /\ snapshots \in [Revisions -> {"absent", "whole", "torn", "lost"}]
  /\ active \in [Names -> Contents] /\ entries \in [Names -> SUBSET Contents]
  /\ \A n \in Names : active[n] \in entries[n]
  /\ unsynced \subseteq Revisions /\ crashes \in 0..MaxCrashes
  /\ \A i \in Importers :
       /\ pc[i] \in {"idle", "build", "verify", "created", "read", "stage", "replace",
                     "note", "rollback", "activated", "failed", "incomplete"}
       /\ rev[i] \in Revisions \cup {None} /\ next[i] \in Names
       /\ previous[i] \in [Names -> Contents] /\ staged[i] \in [Names -> Contents]
       /\ replaced[i] \subseteq Names /\ errors[i] \subseteq Names
       /\ found[i] \in [Names -> Contents] \cup {Lost} /\ missed[i] \subseteq Names
  /\ report \in Seq(Revisions) /\ Len(report) <= Len(Loaded)
  /\ reader \in {"loading", "reported", "refused", "bound", "rejected"}

\* "If publication fails partway through, the importer attempts to restore the
\* previously active set instead of intentionally leaving a mixed revision"
\* (data/bluetooth/README.md:91-93), and says so when it could not: an importer
\* that nobody else published against ends with the whole new set, with the set
\* it found, or saying that its rollback was incomplete.  An interrupt between a
\* replacement and its note, or in the rollback between two restorations, breaks
\* this: see RollbackRestores for what holds.
AllOrNothing ==
  \A i \in Importers : found[i] # Lost =>
    /\ At(i, "activated") => \A n \in Names : active[n] = rev[i]
    /\ At(i, "failed") => active = found[i]

\* What is left of it when interrupts may arrive anywhere: an importer that nobody
\* else published against ends with the whole new set, or with the set it found
\* but for the registries that an interrupt kept from the rollback or that its
\* message names; whatever failed in what order, and also after kills, power
\* losses and importers before it that left a mixed set.
RollbackRestores ==
  \A i \in Importers : found[i] # Lost =>
    /\ At(i, "activated") => \A n \in Names : active[n] = rev[i]
    /\ pc[i] \in {"failed", "incomplete"} =>
         \A n \in Names \ missed[i] : active[n] = found[i][n]

\* A snapshot is written without a sync, so after a power loss one may be there
\* under its final name with files that are not: it is found out before any of
\* it is published.
NothingTornIsActive == \A n \in Names : active[n] # Garbage

\* "This keeps newly generated assessment artifacts reproducible even after the
\* active flat registries are updated" (docs/catalog-provenance.md:33-35): the flat
\* files may change under a scan, be rolled back or be left half replaced, but each
\* registry it has loaded, before or after that, is of a revision whose snapshot is
\* there to be pinned.  Only a power loss takes a snapshot, or tears it; no
\* importer does, whichever others build, verify or publish the same revision.
LoadedIsBacked == \A k \in DOMAIN report : snapshots[report[k]] # "absent"
=============================================================================
