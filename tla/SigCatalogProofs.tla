---------------------------- MODULE SigCatalogProofs ----------------------------
(***************************************************************************)
(* Proofs about the Bluetooth SIG registries, for any number of importers,  *)
(* revisions, registries and crashes: an importer that is alone publishes    *)
(* all of a revision or restores what it knows to have replaced, nothing     *)
(* torn is ever active, and what a scan has loaded has its snapshot.         *)
(***************************************************************************)
EXTENDS SigCatalog, TLAPS

-----------------------------------------------------------------------------
(* The invariant *)

Labels == {"idle", "build", "verify", "created", "read", "stage", "replace",
           "note", "rollback", "activated", "failed", "incomplete"}

FileTypes ==
  /\ snapshots \in [Revisions -> {"absent", "whole", "torn", "lost"}]
  /\ active \in [Names -> Contents] /\ entries \in [Names -> SUBSET Contents]
  /\ unsynced \in SUBSET Revisions /\ crashes \in 0..MaxCrashes

WorkTypes ==
  /\ pc \in [Importers -> Labels] /\ rev \in [Importers -> Revisions \cup {None}]
  /\ next \in [Importers -> Names] /\ errors \in [Importers -> SUBSET Names]
  /\ previous \in [Importers -> [Names -> Contents]]
  /\ staged \in [Importers -> [Names -> Contents]]
  /\ replaced \in [Importers -> SUBSET Names]

HistoryTypes ==
  /\ found \in [Importers -> [Names -> Contents] \cup {Lost}]
  /\ missed \in [Importers -> SUBSET Names]

\* A scan has loaded a prefix of its registries, or all of them.
Analysis ==
  /\ report \in Seq(Revisions)
  /\ reader \in {"loading", "reported", "refused", "bound", "rejected"}
  /\ Len(report) <= Len(Loaded)
  /\ reader = "loading" => Len(report) < Len(Loaded)

\* What may be published: nothing torn, and no revision without a snapshot.
Good(content) ==
  content # Garbage /\ (content \in Revisions => snapshots[content] # "absent")

\* No name holds, may come to hold or is to be given, and no scan has loaded,
\* what may not be published.
Sound ==
  /\ \A n \in Names : active[n] \in entries[n] /\ \A c \in entries[n] : Good(c)
  /\ \A i \in Importers, n \in Names : Good(previous[i][n]) /\ Good(staged[i][n])
Backed == \A k \in DOMAIN report : Good(report[k])

\* What importer i works on: a revision, from "read" on a whole snapshot.
Working(i) ==
  /\ pc[i] \in {"build", "verify", "read", "stage", "replace", "note"} => rev[i] \in Revisions
  /\ pc[i] \in {"read", "stage", "replace", "note"} => snapshots[rev[i]] = "whole"

\* Where its loops are
Looping(i) ==
  /\ pc[i] \notin {"read", "replace", "note", "rollback"} => next[i] = 1
  /\ pc[i] \in {"replace", "note"} => replaced[i] = 1..next[i] - 1
  /\ pc[i] \notin {"replace", "note", "rollback"} => replaced[i] = {}
  /\ pc[i] # "rollback" => errors[i] = {}
  /\ pc[i] = "replace" => \A n \in next[i]..Last : staged[i][n] = rev[i]
  /\ pc[i] = "note" => \A n \in next[i] + 1..Last : staged[i][n] = rev[i]

\* While nobody else has published, the active set is the one importer i found,
\* but for the files it has replaced and not restored: in a rollback those whose
\* bytes it still has, those it could not restore and those it does not know of.
Alone(i) ==
  /\ pc[i] \notin {"idle", "build", "verify", "created"}
  /\ pc[i] = "read" => /\ next[i] > 1 /\ active = found[i]
                       /\ \A n \in 1..next[i] - 1 : previous[i][n] = found[i][n]
  /\ pc[i] \in {"stage", "replace", "note"} => previous[i] = found[i]
  /\ pc[i] = "stage" => active = found[i]
  /\ pc[i] \in {"failed", "incomplete"} =>
       \A n \in Names \ missed[i] : active[n] = found[i][n]
  /\ pc[i] = "replace" =>
       \A n \in Names : active[n] = IF n < next[i] THEN rev[i] ELSE found[i][n]
  /\ pc[i] = "note" =>
       \A n \in Names : active[n] = IF n <= next[i] THEN rev[i] ELSE found[i][n]
  /\ pc[i] = "rollback" =>
       /\ \A n \in replaced[i] : previous[i][n] = found[i][n]
       /\ \A n \in Names \ (replaced[i] \cup errors[i] \cup missed[i]) :
            active[n] = found[i][n]
  /\ pc[i] = "activated" => \A n \in Names : active[n] = rev[i]

Placed(i) == Working(i) /\ Looping(i) /\ (found[i] # Lost => Alone(i))

CatalogInv ==
  /\ FileTypes /\ WorkTypes /\ HistoryTypes /\ Analysis /\ Sound /\ Backed
  /\ \A i \in Importers : Placed(i)

-----------------------------------------------------------------------------
(* The invariant holds *)

\* The importers have not started, and the active set is of one revision.
LEMMA InitInv == Init => CatalogInv
<1> SUFFICES ASSUME Init PROVE CatalogInv
  OBVIOUS
<1> USE CatalogAssumption DEF Names, Contents
<1>1. FileTypes
  BY DEF Init, FileTypes
<1>2. Nothing \in [Names -> Contents]
  BY DEF Nothing
<1>3. WorkTypes /\ HistoryTypes
  BY <1>2 DEF Init, WorkTypes, HistoryTypes, Labels
<1>4. Analysis /\ Backed
  BY DEF Init, Analysis, Backed
<1>5. Sound
  BY DEF Init, Sound, Good, Nothing
<1>6. ASSUME NEW i \in Importers PROVE Placed(i)
  BY DEF Init, Placed, Working, Looping
<1>7. QED
  BY <1>1, <1>3, <1>4, <1>5, <1>6 DEF CatalogInv

\* The work of importer j is as it was.
Same(j) ==
  /\ pc'[j] = pc[j] /\ rev'[j] = rev[j] /\ next'[j] = next[j]
  /\ errors'[j] = errors[j] /\ previous'[j] = previous[j]
  /\ staged'[j] = staged[j] /\ replaced'[j] = replaced[j]

\* An importer that ends has nothing left, and has changed nobody else.
Ended(i, label) ==
  /\ pc'[i] = label /\ next'[i] = 1 /\ errors'[i] = {} /\ replaced'[i] = {}
  /\ label = "activated" => rev' = rev
  /\ previous'[i] = Nothing /\ staged'[i] = Nothing
  /\ \A j \in Importers \ {i} : Same(j)

\* An importer that ends, with its files or without, forgets what it had staged.
LEMMA EndFacts ==
  ASSUME WorkTypes, NEW i \in Importers, NEW label \in Labels, End(i, label)
  PROVE  WorkTypes' /\ Ended(i, label)
<1>1. Nothing \in [Names -> Contents] /\ 1 \in Names
  BY CatalogAssumption DEF Nothing, Names, Contents
<1>2. WorkTypes'
  BY <1>1 DEF End, WorkTypes, Set, Goto
<1>3. Ended(i, label)
  BY DEF End, WorkTypes, Set, Goto, Ended, Same
<1>4. QED
  BY <1>2, <1>3

\* Publishing replaces one file; whoever else held the active set has lost it.
Published(i, n, value) ==
  /\ active'[n] = value /\ value \in entries'[n]
  /\ \A m \in Names \ {n} : active'[m] = active[m] /\ entries'[m] = entries[m]
  /\ entries'[n] \subseteq entries[n] \cup {value}
  /\ found' \in [Importers -> [Names -> Contents] \cup {Lost}]
  /\ found'[i] = found[i] /\ \A j \in Importers \ {i} : found'[j] = Lost

\* One flat file is replaced; every importer but its author then finds that
\* somebody else has published.
LEMMA PublishFacts ==
  ASSUME FileTypes, HistoryTypes, NEW i \in Importers, NEW n \in Names,
         NEW value \in Contents, Publish(i, n, value)
  PROVE  /\ active' \in [Names -> Contents] /\ entries' \in [Names -> SUBSET Contents]
         /\ Published(i, n, value)
<1>1. active' \in [Names -> Contents] /\ entries' \in [Names -> SUBSET Contents]
  BY DEF Publish, FileTypes, Set
<1>2. Published(i, n, value)
  BY DEF Publish, FileTypes, HistoryTypes, Set, Published
<1>3. QED
  BY <1>1, <1>2

\* No snapshot disappears but by a power loss.
Standing == \A r \in Revisions : snapshots[r] # "absent" => snapshots'[r] # "absent"

\* What may be published may be so while the snapshots stand.
LEMMA GoodStays ==
  ASSUME Standing, NEW content, Good(content)
  PROVE  Good(content)'
  BY DEF Standing, Good

\* What a step of importer i leaves alone: the work of every other importer, which
\* has lost the active set when it changes, and a whole snapshot.
Others(i) ==
  /\ \A j \in Importers \ {i} :
       /\ Same(j) /\ missed'[j] = missed[j]
       /\ found'[j] # Lost => found'[j] = found[j] /\ active' = active
  /\ Standing
  /\ \A r \in Revisions : snapshots[r] = "whole" => snapshots'[r] = "whole"

\* The histories have their types, and importer i has changed no other's.
Steady(i) ==
  /\ HistoryTypes'
  /\ \A j \in Importers \ {i} : found'[j] = found[j] /\ missed'[j] = missed[j]

Kept(i) == FileTypes' /\ WorkTypes' /\ HistoryTypes' /\ Sound' /\ Others(i)

\* The files and every other importer, after a step of importer i.
LEMMA KeptStep ==
  ASSUME CatalogInv, NEW i \in Importers, Importing(i)
  PROVE  Kept(i)
<1> USE DEF CatalogInv, Kept
<1>0. 1 \in Names /\ Names \subseteq Int /\ Last \in Nat \ {0} /\ Names = 1..Last
  BY CatalogAssumption DEF Names
<1>a. Nothing \in [Names -> Contents] /\ Good(None) /\ \A n \in Names : Nothing[n] = None
  BY CatalogAssumption DEF Nothing, Contents, Good
<1>b. ASSUME NEW label \in Labels, End(i, label), Steady(i),
             UNCHANGED <<snapshots, active, entries, unsynced>>, crashes' \in 0..MaxCrashes
      PROVE  Kept(i)
  <2>1. FileTypes'
    BY <1>b DEF FileTypes
  <2>2. WorkTypes' /\ Ended(i, label)
    BY <1>b, EndFacts
  <2>3. Sound'
    BY <1>a, <1>b, <2>2 DEF Sound, Ended, Same, Good
  <2>4. Others(i)
    BY <1>b, <2>2 DEF Others, Ended, Steady, Standing
  <2>5. QED
    BY <1>b, <2>1, <2>2, <2>3, <2>4 DEF Steady
<1>c. HistoryTypes /\ WorkTypes /\ FileTypes /\ Sound /\ Placed(i) /\ crashes \in 0..MaxCrashes
  BY DEF FileTypes
<1>d. ASSUME WorkTypes', \A j \in Importers \ {i} : Same(j), FileTypes', Steady(i),
             UNCHANGED <<snapshots, active, entries>>,
             \A n \in Names : Good(previous'[i][n]) /\ Good(staged'[i][n])
      PROVE  Kept(i)
  <2>1. Sound'
    BY <1>d DEF Sound, Same, Good
  <2>2. QED
    BY <1>d, <2>1 DEF Others, Steady, Standing
<1>e. ASSUME UNCHANGED history PROVE Steady(i)
  BY <1>c, <1>e DEF history, Steady, HistoryTypes
\* One file is put back.
<1>f. ASSUME NEW n \in Names, replaced' = Set(replaced, i, replaced[i] \ {n}),
             Publish(i, n, previous[i][n]), errors' \in [Importers -> SUBSET Names],
             \A j \in Importers \ {i} : errors'[j] = errors[j],
             UNCHANGED <<pc, rev, next, previous, staged, missed, snapshots, unsynced>>,
             crashes' \in 0..MaxCrashes
      PROVE  Kept(i)
  <2>1. previous[i][n] \in Contents /\ Good(previous[i][n])
    BY <1>c DEF WorkTypes, Sound
  <2>2. WorkTypes' /\ \A j \in Importers \ {i} : Same(j)
    BY <1>c, <1>f DEF Set, WorkTypes, Same
  <2>3. /\ active' \in [Names -> Contents] /\ entries' \in [Names -> SUBSET Contents]
        /\ Published(i, n, previous[i][n])
    BY <1>c, <1>f, <2>1, PublishFacts
  <2>4. FileTypes' /\ HistoryTypes'
    BY <1>c, <1>f, <2>3 DEF FileTypes, HistoryTypes, Published
  <2>5. Sound'
    BY <1>c, <1>f, <2>1, <2>3 DEF Sound, Published, Good
  <2>6. Others(i)
    BY <1>f, <2>2, <2>3 DEF Others, Published, Standing
  <2>7. QED
    BY <2>2, <2>4, <2>5, <2>6
<1>1. CASE Start(i)
  <2>1. WorkTypes' /\ \A j \in Importers \ {i} : Same(j)
    BY <1>1 DEF Start, At, Goto, Set, WorkTypes, Same, Labels
  <2>2. QED
    BY <1>1, <1>c, <1>d, <1>e, <2>1 DEF Start, files, FileTypes, Sound
<1>2. CASE BuildSnapshot(i)
  <2>0. Steady(i) /\ UNCHANGED <<active, entries, crashes>>
    BY <1>2, <1>e DEF BuildSnapshot
  <2>1. CASE End(i, "failed") /\ UNCHANGED <<snapshots, unsynced>>
    BY <1>b, <1>c, <2>0, <2>1 DEF Labels
  <2>2. CASE /\ Goto(i, "verify") /\ UNCHANGED work
             /\ IF Missing(rev[i])
                THEN /\ snapshots' = Set(snapshots, rev[i], "whole")
                     /\ unsynced' = unsynced \cup {rev[i]}
                ELSE UNCHANGED <<snapshots, unsynced>>
    <3>1. WorkTypes' /\ \A j \in Importers \ {i} : Same(j)
      BY <1>c, <2>2 DEF Goto, Set, work, WorkTypes, Same, Labels
    <3>2. rev[i] \in Revisions
      BY <1>2, <1>c DEF BuildSnapshot, At, Placed, Working
    <3>3. FileTypes' /\ HistoryTypes'
      BY <1>c, <2>0, <2>2, <3>2 DEF Set, FileTypes, Steady
    <3>4. /\ Standing
          /\ \A r \in Revisions : snapshots[r] = "whole" => snapshots'[r] = "whole"
      BY <1>c, <2>2, <3>2 DEF FileTypes, Set, Standing
    <3>5. Sound'
      <4>1. UNCHANGED <<previous, staged>>
        BY <2>2 DEF work
      <4>2. QED
        BY <1>c, <2>0, <3>4, <4>1, GoodStays DEF Sound
    <3>6. Others(i)
      BY <2>0, <3>1, <3>4 DEF Steady, Others
    <3>7. QED
      BY <3>1, <3>3, <3>5, <3>6
  <2>3. QED
    BY <1>2, <2>1, <2>2 DEF BuildSnapshot
<1>3. CASE Verify(i)
  <2>1. CASE Goto(i, "read") /\ UNCHANGED work
    <3>1. WorkTypes' /\ \A j \in Importers \ {i} : Same(j)
      BY <2>1 DEF Goto, Set, work, WorkTypes, Same, Labels
    <3>2. QED
      BY <1>3, <1>c, <1>d, <1>e, <2>1, <3>1 DEF Verify, files, work, FileTypes, Sound
  <2>2. CASE End(i, "failed") \/ End(i, "created")
    BY <1>3, <1>b, <1>c, <1>e, <2>2 DEF Verify, files, Labels
  <2>3. QED
    BY <1>3, <2>1, <2>2 DEF Verify
<1>4. CASE ReadPrevious(i)
  <2>0. /\ UNCHANGED <<files, missed>> /\ FileTypes'
    BY <1>4, <1>c DEF ReadPrevious, files, FileTypes
  <2>1. CASE End(i, "failed") /\ UNCHANGED found
    BY <1>b, <1>c, <1>e, <2>0, <2>1 DEF files, history, Labels
  <2>2. CASE /\ previous' = [previous EXCEPT ![i][next[i]] = active[next[i]]]
             /\ found' = IF next[i] = 1 THEN Set(found, i, active) ELSE found
             /\ IF next[i] = Last
                THEN Goto(i, "stage") /\ next' = Set(next, i, 1)
                ELSE next' = Set(next, i, next[i] + 1) /\ UNCHANGED pc
             /\ UNCHANGED <<rev, staged, replaced, errors>>
    <3>1. previous' \in [Importers -> [Names -> Contents]]
      BY <1>c, <2>2 DEF WorkTypes, FileTypes
    <3>2. next[i] # Last => next[i] + 1 \in Names
      BY <1>0, <1>c DEF WorkTypes
    <3>3. next' \in [Importers -> Names]
      BY <1>0, <1>c, <2>2, <3>2 DEF WorkTypes, Set
    <3>4. pc' \in [Importers -> Labels]
      BY <1>c, <2>2 DEF WorkTypes, Goto, Set, Labels
    <3>5. \A j \in Importers \ {i} : Same(j)
      BY <1>c, <2>2 DEF WorkTypes, Goto, Set, Same
    <3>6. Steady(i)
      BY <1>c, <2>0, <2>2 DEF HistoryTypes, FileTypes, Set, Steady
    <3>7. \A n \in Names : Good(previous'[i][n]) /\ Good(staged'[i][n])
      <4>1. next[i] \in Names /\ Good(active[next[i]])
        BY <1>c DEF Sound, WorkTypes
      <4>2. \A n \in Names : previous'[i][n] \in {previous[i][n], active[next[i]]}
        BY <1>c, <2>2, <4>1 DEF WorkTypes
      <4>3. QED
        BY <1>c, <2>2, <4>1, <4>2 DEF Sound
    <3>8. WorkTypes'
      BY <1>c, <2>2, <3>1, <3>3, <3>4 DEF WorkTypes
    <3>9. QED
      BY <1>d, <2>0, <3>5, <3>6, <3>7, <3>8 DEF files
  <2>3. QED
    BY <1>4, <2>1, <2>2 DEF ReadPrevious
<1>5. CASE Stage(i)
  <2>1. CASE End(i, "failed")
    BY <1>5, <1>b, <1>c, <1>e, <2>1 DEF Stage, files, Labels
  <2>2. CASE Goto(i, "replace") /\ UNCHANGED <<rev, next, previous, replaced, errors>>
             /\ staged' = Set(staged, i, [n \in Names |->
                       IF snapshots[rev[i]] = "torn" THEN Garbage ELSE rev[i]])
    <3>1. WorkTypes' /\ \A j \in Importers \ {i} : Same(j)
      BY <2>2 DEF Goto, Set, WorkTypes, Same, Labels, Contents
    <3>2. rev[i] \in Revisions /\ snapshots[rev[i]] = "whole"
      BY <1>5 DEF Placed, Working, Stage, At
    <3>3. \A n \in Names : Good(previous'[i][n]) /\ Good(staged'[i][n])
      <4>1. Good(rev[i])
        BY <3>2, CatalogAssumption DEF Good
      <4>2. \A n \in Names : staged'[i][n] = rev[i]
        BY <1>c, <2>2, <3>2 DEF Set, WorkTypes
      <4>3. QED
        BY <1>c, <2>2, <4>1, <4>2 DEF Sound
    <3>4. QED
      BY <1>5, <1>c, <1>d, <1>e, <3>1, <3>3 DEF Stage, files, FileTypes
  <2>3. QED
    BY <1>5, <2>1, <2>2 DEF Stage
<1>6. CASE Replace(i)
  <2>1. CASE Goto(i, "rollback") /\ UNCHANGED <<active, entries, found, staged>>
    <3>1. WorkTypes' /\ \A j \in Importers \ {i} : Same(j)
      BY <1>6, <2>1 DEF Replace, Goto, Set, WorkTypes, Same, Labels
    <3>2. QED
      BY <1>6, <1>c, <1>d, <1>e, <2>1, <3>1 DEF Replace, FileTypes, history, Sound
  <2>2. CASE Goto(i, "note") /\ Publish(i, next[i], staged[i][next[i]])
             /\ staged' = [staged EXCEPT ![i][next[i]] = None]
    <3>1. WorkTypes' /\ \A j \in Importers \ {i} : Same(j)
      BY <1>6, <2>2 DEF Replace, Goto, Set, WorkTypes, Same, Labels, Contents
    <3>2. next[i] \in Names /\ staged[i][next[i]] \in Contents
      BY DEF WorkTypes
    <3>3. /\ active' \in [Names -> Contents] /\ entries' \in [Names -> SUBSET Contents]
          /\ Published(i, next[i], staged[i][next[i]])
      BY <2>2, <3>2, PublishFacts
    <3>4. FileTypes' /\ HistoryTypes'
      BY <1>6, <1>c, <3>3 DEF Replace, FileTypes, HistoryTypes, Published
    <3>5. Sound'
      <4>0. UNCHANGED snapshots
        BY <1>6 DEF Replace
      <4>1. Good(staged[i][next[i]]) /\ Good(None)
        BY <1>a, <1>c, <3>2 DEF Sound
      <4>2. \A n \in Names : active'[n] \in entries'[n] /\ \A c \in entries'[n] : Good(c)
        BY <1>c, <3>2, <3>3, <4>1 DEF Sound, Published
      <4>3. ASSUME NEW j \in Importers, NEW n \in Names
            PROVE  Good(previous'[j][n]) /\ Good(staged'[j][n])
        <5>1. previous'[j][n] = previous[j][n]
          BY <1>6 DEF Replace
        <5>2. staged'[j][n] = staged[j][n] \/ staged'[j][n] = None
          BY <1>c, <2>2, <3>2 DEF WorkTypes
        <5>3. QED
          BY <1>c, <4>1, <5>1, <5>2 DEF Sound
      <4>4. QED
        BY <4>0, <4>2, <4>3 DEF Sound, Good
    <3>6. Others(i)
      <4>1. UNCHANGED <<snapshots, missed>> /\ \A j \in Importers \ {i} : found'[j] = Lost
        BY <1>6, <3>3 DEF Replace, Published
      <4>2. QED
        BY <3>1, <4>1 DEF Others, Standing
    <3>7. QED
      BY <3>1, <3>4, <3>5, <3>6
  <2>3. QED
    BY <1>6, <2>1, <2>2 DEF Replace
<1>7. CASE NoteReplaced(i)
  <2>1. CASE End(i, "activated")
    BY <1>7, <1>b, <1>c, <1>e, <2>1 DEF NoteReplaced, files, Labels
  <2>2. CASE next[i] # Last
    <3>1. WorkTypes' /\ \A j \in Importers \ {i} : Same(j)
      <4>1. next[i] + 1 \in Names /\ next[i] \in Names
        BY <1>0, <2>2 DEF WorkTypes
      <4>2. /\ Goto(i, "replace") /\ next' = Set(next, i, next[i] + 1)
            /\ replaced' = Set(replaced, i, replaced[i] \cup {next[i]})
            /\ UNCHANGED <<rev, previous, staged, errors>>
        BY <1>7, <2>2 DEF NoteReplaced
      <4>3. replaced' \in [Importers -> SUBSET Names]
        BY <4>1, <4>2 DEF Set, WorkTypes
      <4>4. QED
        BY <4>1, <4>2, <4>3 DEF Goto, Set, WorkTypes, Same, Labels
    <3>2. QED
      BY <1>7, <1>c, <1>d, <1>e, <2>2, <3>1 DEF NoteReplaced, files, FileTypes, Sound
  <2>3. QED
    BY <1>7, <2>1, <2>2 DEF NoteReplaced
<1>8. CASE Rollback(i)
  <2>0. UNCHANGED <<snapshots, unsynced, crashes>> /\ FileTypes
    BY <1>8, <1>c DEF Rollback
  <2>1. ASSUME End(i, "incomplete") \/ End(i, "failed"), UNCHANGED <<active, entries, found>>,
               missed' = Set(missed, i, missed[i] \cup errors[i])
        PROVE  Kept(i)
    <3>1. Steady(i)
      BY <1>c, <2>1 DEF Steady, HistoryTypes, WorkTypes, Set
    <3>2. QED
      BY <1>b, <1>c, <2>0, <2>1, <3>1 DEF Labels
  <2>2. ASSUME NEW n \in Latest(i), replaced' = Set(replaced, i, replaced[i] \ {n}),
               \/ Publish(i, n, previous[i][n]) /\ UNCHANGED errors
               \/ /\ errors' = Set(errors, i, errors[i] \cup {n})
                  /\ UNCHANGED <<active, entries, found>>,
               UNCHANGED <<pc, rev, next, previous, staged, missed>>
        PROVE  Kept(i)
    <3>0. n \in Names
      BY <1>c, <2>2 DEF Latest, WorkTypes
    <3>1. CASE Publish(i, n, previous[i][n]) /\ UNCHANGED errors
      BY <1>c, <1>f, <2>0, <2>2, <3>0, <3>1 DEF WorkTypes
    <3>2. CASE /\ errors' = Set(errors, i, errors[i] \cup {n})
               /\ UNCHANGED <<active, entries, found>>
      <4>1. WorkTypes' /\ \A j \in Importers \ {i} : Same(j)
        BY <1>c, <2>2, <3>0, <3>2 DEF Set, WorkTypes, Same
      <4>2. Steady(i) /\ FileTypes'
        BY <1>c, <1>e, <2>0, <2>2, <3>2 DEF history, FileTypes
      <4>3. QED
        BY <1>c, <1>d, <2>0, <2>2, <3>2, <4>1, <4>2 DEF Sound
    <3>3. QED
      BY <2>2, <3>1, <3>2
  <2>3. QED
    BY <1>8, <2>1, <2>2 DEF Rollback
<1>9. CASE Interrupt(i)
  <2>0. UNCHANGED <<snapshots, unsynced>> /\ crashes' \in 0..MaxCrashes
    BY <1>9, <1>c, CatalogAssumption DEF Interrupt
  <2>1. CASE End(i, "failed") /\ UNCHANGED <<active, entries, history>>
    BY <1>b, <1>c, <1>e, <2>0, <2>1 DEF Labels
  <2>2. CASE InterruptReplacing(i)
    <3>1. WorkTypes' /\ \A j \in Importers \ {i} : Same(j)
      <4>1. /\ pc' = Set(pc, i, "rollback")
            /\ UNCHANGED <<rev, next, previous, staged, errors>>
        BY <2>2 DEF InterruptReplacing, Goto
      <4>2. replaced' = replaced \/ replaced' = Set(replaced, i, Names)
        BY <2>2 DEF InterruptReplacing
      <4>3. /\ pc' \in [Importers -> Labels] /\ replaced' \in [Importers -> SUBSET Names]
            /\ \A j \in Importers \ {i} : pc'[j] = pc[j] /\ replaced'[j] = replaced[j]
        BY <1>c, <4>1, <4>2 DEF Set, WorkTypes, Labels
      <4>4. QED
        BY <1>c, <4>1, <4>3 DEF WorkTypes, Same
    <3>2. Steady(i) /\ FileTypes'
      <4>1. next[i] \in Names /\ UNCHANGED <<active, entries, found>>
        BY <1>c, <2>2 DEF InterruptReplacing, WorkTypes
      <4>2. missed' = missed \/ missed' = Set(missed, i, missed[i] \cup {next[i]})
        BY <2>2 DEF InterruptReplacing
      <4>3. Steady(i)
        BY <1>c, <4>1, <4>2 DEF Set, Steady, HistoryTypes
      <4>4. QED
        BY <1>c, <2>0, <4>1, <4>3 DEF FileTypes
    <3>3. UNCHANGED <<active, entries, previous, staged>>
      BY <2>2 DEF InterruptReplacing
    <3>4. QED
      BY <1>c, <1>d, <2>0, <3>1, <3>2, <3>3 DEF Sound
  <2>3. CASE InterruptRollback(i)
    <3>1. ASSUME End(i, "failed"), UNCHANGED <<active, entries, found>>,
                 missed' = Set(missed, i, missed[i] \cup replaced[i] \cup errors[i])
          PROVE  Kept(i)
      <4>1. Steady(i)
        BY <1>c, <3>1 DEF Steady, HistoryTypes, WorkTypes, Set
      <4>2. QED
        BY <1>b, <1>c, <2>0, <3>1, <4>1 DEF Labels
    <3>2. ASSUME NEW n \in Latest(i), replaced' = Set(replaced, i, replaced[i] \ {n}),
                 errors' = Set(errors, i, errors[i] \cup {n}),
                 Publish(i, n, previous[i][n]) \/ UNCHANGED <<active, entries, found>>,
                 UNCHANGED <<pc, rev, next, previous, staged, missed>>
          PROVE  Kept(i)
      <4>0. n \in Names
        BY <1>c, <3>2 DEF Latest, WorkTypes
      <4>1. /\ errors' \in [Importers -> SUBSET Names]
            /\ \A j \in Importers \ {i} : errors'[j] = errors[j]
        BY <1>c, <3>2, <4>0 DEF Set, WorkTypes
      <4>2. CASE Publish(i, n, previous[i][n])
        BY <1>f, <2>0, <3>2, <4>0, <4>1, <4>2
      <4>3. CASE UNCHANGED <<active, entries, found>>
        <5>1. WorkTypes' /\ \A j \in Importers \ {i} : Same(j)
          BY <1>c, <3>2, <4>0 DEF Set, WorkTypes, Same
        <5>2. Steady(i) /\ FileTypes'
          BY <1>c, <1>e, <2>0, <3>2, <4>3 DEF history, FileTypes
        <5>3. QED
          BY <1>c, <1>d, <2>0, <3>2, <4>3, <5>1, <5>2 DEF Sound
      <4>4. QED
        BY <3>2, <4>2, <4>3
    <3>3. QED
      BY <2>3, <3>1, <3>2 DEF InterruptRollback
  <2>4. QED
    BY <1>9, <2>1, <2>2, <2>3 DEF Interrupt
<1>10. CASE Kill(i)
  <2>1. crashes' \in 0..MaxCrashes
    BY <1>10, <1>c, CatalogAssumption DEF Kill
  <2>2. Steady(i)
    BY <1>10, <1>c DEF Kill, HistoryTypes, Set, Steady
  <2>3. QED
    BY <1>10, <1>b, <2>1, <2>2 DEF Kill, Labels
<1>11. QED
  BY <1>1, <1>2, <1>3, <1>4, <1>5, <1>6, <1>7, <1>8, <1>9, <1>10 DEF Importing


\* Placed i itself, after its step.
LEMMA ImporterStep ==
  ASSUME CatalogInv, NEW i \in Importers, Importing(i)
  PROVE  Placed(i)'
<1> USE DEF CatalogInv
<1>0. 1 \in Names /\ Last \in Nat \ {0} /\ Names = 1..Last
  BY CatalogAssumption DEF Names
<1>a. /\ WorkTypes' /\ Placed(i) /\ next[i] \in 1..Last /\ next'[i] \in 1..Last
      /\ \A r \in Revisions : snapshots[r] = "whole" => snapshots'[r] = "whole"
  BY <1>0, KeptStep DEF Kept, Others, WorkTypes
<1> USE DEF Placed
\* It has failed, or created a snapshot, before it published anything.
<1>b. ASSUME NEW label \in {"created", "failed", "idle", "incomplete", "activated"},
             End(i, label), Others(i),
             found'[i] # Lost => Alone(i)'
      PROVE  Placed(i)'
  <2>1. Ended(i, label)
    BY <1>b, EndFacts DEF Labels
  <2>2. Working(i)' /\ Looping(i)'
    BY <1>b, <2>1 DEF Working, Looping, Ended
  <2>3. QED
    BY <1>b, <2>2
<1>c. Others(i)
  BY KeptStep DEF Kept
<1>1. CASE Start(i)
  <2>1. /\ rev'[i] \in Revisions /\ pc'[i] \in {"build", "verify"} /\ pc[i] = "idle"
        /\ UNCHANGED <<next, replaced, errors, found>>
    BY <1>1 DEF Start, At, Goto, Set, WorkTypes, history
  <2>2. Working(i)' /\ Looping(i)'
    BY <1>a, <2>1 DEF Working, Looping
  <2>3. found[i] = Lost
    BY <1>a, <2>1 DEF Alone
  <2>4. QED
    BY <2>1, <2>2, <2>3
<1>2. CASE BuildSnapshot(i)
  <2>0. pc[i] = "build" /\ found[i] = Lost /\ UNCHANGED found
    BY <1>2 DEF BuildSnapshot, At, Alone, history
  <2>1. CASE End(i, "failed")
    BY <1>b, <1>c, <2>0, <2>1
  <2>2. CASE Goto(i, "verify") /\ UNCHANGED work
    <3>1. Working(i)' /\ Looping(i)'
      BY <1>a, <2>0, <2>2 DEF Goto, Set, work, Working, Looping, WorkTypes
    <3>2. QED
      BY <2>0, <3>1
  <2>3. QED
    BY <1>2, <2>1, <2>2 DEF BuildSnapshot
<1>3. CASE Verify(i)
  <2>0. pc[i] = "verify" /\ found[i] = Lost /\ UNCHANGED <<found, snapshots>>
    BY <1>3 DEF Verify, At, Alone, files, history
  <2>1. CASE End(i, "failed") \/ End(i, "created")
    BY <1>b, <1>c, <2>0, <2>1
  <2>2. CASE Goto(i, "read") /\ UNCHANGED work /\ snapshots[rev[i]] = "whole"
    <3>1. Working(i)' /\ Looping(i)'
      BY <1>a, <2>0, <2>2 DEF Goto, Set, work, Working, Looping, WorkTypes
    <3>2. QED
      BY <2>0, <3>1
  <2>3. QED
    BY <1>3, <2>1, <2>2 DEF Verify
<1>4. CASE ReadPrevious(i)
  <2>0. pc[i] = "read" /\ UNCHANGED <<active, snapshots, missed>>
    BY <1>4 DEF ReadPrevious, At, files
  <2>1. CASE End(i, "failed") /\ UNCHANGED found
    <3>1. pc'[i] = "failed"
      BY <2>1 DEF End, Goto, Set, WorkTypes
    <3>2. found'[i] # Lost => Alone(i)'
      BY <2>0, <2>1, <3>1 DEF Alone
    <3>3. QED
      BY <1>b, <1>c, <2>1, <3>2
  <2>2. CASE /\ previous' = [previous EXCEPT ![i][next[i]] = active[next[i]]]
             /\ found' = IF next[i] = 1 THEN Set(found, i, active) ELSE found
             /\ IF next[i] = Last
                THEN Goto(i, "stage") /\ next' = Set(next, i, 1)
                ELSE next' = Set(next, i, next[i] + 1) /\ UNCHANGED pc
             /\ UNCHANGED <<rev, staged, replaced, errors>>
    <3>1. \/ pc'[i] = "stage" /\ next[i] = Last /\ next'[i] = 1
          \/ pc'[i] = "read" /\ next[i] < Last /\ next'[i] = next[i] + 1
      BY <1>0, <1>a, <2>0, <2>2 DEF Goto, Set, WorkTypes
    <3>2. previous'[i] = [previous[i] EXCEPT ![next[i]] = active[next[i]]]
      BY <2>2 DEF WorkTypes
    <3>3. Working(i)' /\ Looping(i)'
      BY <1>a, <2>0, <2>2, <3>1 DEF Working, Looping
    <3>4. ASSUME found'[i] # Lost PROVE Alone(i)'
      <4>1. active = found'[i] /\ \A n \in 1..next[i] - 1 : previous[i][n] = found'[i][n]
        <5>1. CASE next[i] = 1
          BY <2>2, <5>1 DEF Set, HistoryTypes
        <5>2. CASE next[i] # 1
          BY <2>0, <2>2, <3>4, <5>2 DEF Alone
        <5>3. QED
          BY <5>1, <5>2
      <4>2. \A n \in 1..next[i] : previous'[i][n] = found'[i][n]
        <5>1. previous'[i][next[i]] = active[next[i]]
          BY <1>0, <1>a, <3>2 DEF WorkTypes
        <5>2. \A n \in 1..next[i] - 1 : previous'[i][n] = previous[i][n]
          BY <1>0, <1>a, <3>2 DEF WorkTypes
        <5>3. QED
          BY <1>a, <4>1, <5>1, <5>2
      <4>3. CASE pc'[i] = "read"
        BY <1>a, <2>0, <3>1, <4>1, <4>2, <4>3 DEF Alone
      <4>4. CASE pc'[i] = "stage"
        <5>1. previous'[i] \in [Names -> Contents] /\ found'[i] \in [Names -> Contents]
          BY <1>a, <4>1 DEF WorkTypes, FileTypes
        <5>2. previous'[i] = found'[i]
          BY <1>0, <3>1, <4>2, <4>4, <5>1
        <5>3. QED
          BY <2>0, <4>1, <4>4, <5>2 DEF Alone
      <4>5. QED
        BY <3>1, <4>3, <4>4
    <3>5. QED
      BY <3>3, <3>4
  <2>3. QED
    BY <1>4, <2>1, <2>2 DEF ReadPrevious
<1>5. CASE Stage(i)
  <2>0. pc[i] = "stage" /\ UNCHANGED <<found, active, snapshots>>
    BY <1>5 DEF Stage, At, files, history
  <2>1. CASE End(i, "failed")
    <3>1. pc'[i] = "failed"
      BY <2>1 DEF End, Goto, Set, WorkTypes
    <3>2. found'[i] # Lost => Alone(i)'
      BY <2>0, <3>1 DEF Alone
    <3>3. QED
      BY <1>b, <1>c, <2>1, <3>2
  <2>2. CASE Goto(i, "replace") /\ UNCHANGED <<rev, next, previous, replaced, errors>>
             /\ staged' = Set(staged, i, [n \in Names |->
                       IF snapshots[rev[i]] = "torn" THEN Garbage ELSE rev[i]])
    <3>1. pc'[i] = "replace" /\ rev[i] \in Revisions /\ snapshots[rev[i]] = "whole" /\ next[i] = 1
      BY <2>0, <2>2 DEF Goto, Set, WorkTypes, Working, Looping
    <3>2. \A n \in Names : staged'[i][n] = rev[i]
      BY <2>2, <3>1 DEF Set, WorkTypes
    <3>3. Working(i)' /\ Looping(i)'
      BY <1>0, <2>0, <2>2, <3>1, <3>2 DEF Working, Looping
    <3>4. found'[i] # Lost => Alone(i)'
      BY <1>0, <2>0, <2>2, <3>1 DEF Alone
    <3>5. QED
      BY <3>3, <3>4
  <2>3. QED
    BY <1>5, <2>1, <2>2 DEF Stage
<1>6. CASE Replace(i)
  <2>0. pc[i] = "replace" /\ UNCHANGED <<snapshots, rev, next, previous, replaced, errors>>
    BY <1>6 DEF Replace, At
  <2>1. CASE Goto(i, "rollback") /\ UNCHANGED <<active, entries, found, staged>>
    <3>1. pc'[i] = "rollback"
      BY <2>1 DEF Goto, Set, WorkTypes
    <3>2. Working(i)' /\ Looping(i)'
      BY <3>1 DEF Working, Looping
    <3>3. found'[i] # Lost => Alone(i)'
      <4>1. replaced[i] = 1..next[i] - 1 /\ \A n \in Names \ replaced[i] : ~(n < next[i])
        BY <1>0, <1>a, <2>0 DEF Looping
      <4>2. QED
        BY <1>0, <1>a, <2>0, <2>1, <3>1, <4>1 DEF Alone
    <3>4. QED
      BY <3>2, <3>3
  <2>2. CASE Goto(i, "note") /\ Publish(i, next[i], staged[i][next[i]])
             /\ staged' = [staged EXCEPT ![i][next[i]] = None]
    <3>1. pc'[i] = "note" /\ rev[i] \in Revisions /\ staged[i][next[i]] = rev[i]
      BY <1>a, <2>0, <2>2 DEF Goto, Set, WorkTypes, Working, Looping
    <3>2. Published(i, next[i], staged[i][next[i]])
      BY <1>0, <1>a, <2>2, PublishFacts DEF WorkTypes
    <3>3. \A n \in next[i] + 1..Last : staged'[i][n] = rev[i]
      BY <1>0, <1>a, <2>0, <2>2 DEF Looping, WorkTypes
    <3>4. Working(i)' /\ Looping(i)'
      BY <2>0, <3>1, <3>3 DEF Working, Looping
    <3>5. found'[i] # Lost => Alone(i)'
      BY <1>0, <1>a, <2>0, <3>1, <3>2 DEF Alone, Published
    <3>6. QED
      BY <3>4, <3>5
  <2>3. QED
    BY <1>6, <2>1, <2>2 DEF Replace
<1>7. CASE NoteReplaced(i)
  <2>0. pc[i] = "note" /\ UNCHANGED <<found, active, snapshots>>
    BY <1>7 DEF NoteReplaced, At, files, history
  <2>1. CASE next[i] = Last
    <3>1. End(i, "activated") /\ pc'[i] = "activated" /\ rev' = rev
      BY <1>7, <2>1 DEF NoteReplaced, End, Goto, Set, WorkTypes
    <3>2. found'[i] # Lost => Alone(i)'
      BY <1>0, <2>0, <2>1, <3>1 DEF Alone
    <3>3. QED
      BY <1>b, <1>c, <3>1, <3>2
  <2>2. CASE next[i] # Last
    <3>1. /\ pc'[i] = "replace" /\ next'[i] = next[i] + 1
          /\ replaced'[i] = replaced[i] \cup {next[i]} /\ UNCHANGED <<rev, previous, staged, errors>>
      BY <1>7, <2>2 DEF NoteReplaced, Goto, Set, WorkTypes
    <3>2. Working(i)' /\ Looping(i)'
      BY <1>a, <2>0, <3>1 DEF Working, Looping
    <3>3. found'[i] # Lost => Alone(i)'
      BY <1>0, <1>a, <2>0, <3>1 DEF Alone
    <3>4. QED
      BY <3>2, <3>3
  <2>3. QED
    BY <2>1, <2>2
\* In a rollback, after one more file was put back or could not be.
<1>d. ASSUME pc[i] = "rollback", NEW n \in Latest(i),
             replaced' = Set(replaced, i, replaced[i] \ {n}),
             \/ Publish(i, n, previous[i][n]) /\ errors[i] \subseteq errors'[i]
             \/ errors'[i] = errors[i] \cup {n} /\ UNCHANGED <<active, entries, found>>,
             UNCHANGED <<pc, rev, next, previous, staged, missed>>
      PROVE  Placed(i)'
  <2>1. replaced'[i] = replaced[i] \ {n} /\ n \in replaced[i] /\ n \in Names
    BY <1>d DEF Latest, Set, WorkTypes
  <2>2. Working(i)' /\ Looping(i)'
    BY <1>d DEF Working, Looping
  <2>3. CASE Publish(i, n, previous[i][n]) /\ errors[i] \subseteq errors'[i]
    <3>1. Published(i, n, previous[i][n])
      BY <2>1, <2>3, PublishFacts DEF WorkTypes
    <3>2. found'[i] # Lost => Alone(i)'
      <4>1. SUFFICES ASSUME found[i] # Lost PROVE Alone(i)'
        BY <3>1 DEF Published
      <4>2. /\ pc'[i] = "rollback" /\ previous'[i] = previous[i] /\ missed'[i] = missed[i]
            /\ found'[i] = found[i] /\ active'[n] = previous[i][n]
            /\ \A m \in Names \ {n} : active'[m] = active[m]
        BY <1>d, <3>1 DEF Published
      <4>3. /\ \A m \in replaced[i] : previous[i][m] = found[i][m]
            /\ \A m \in Names \ (replaced[i] \cup errors[i] \cup missed[i]) :
                 active[m] = found[i][m]
        BY <1>d, <4>1 DEF Alone
      <4>4. QED
        BY <2>1, <2>3, <4>2, <4>3 DEF Alone
    <3>3. QED
      BY <2>2, <3>2
  <2>4. CASE errors'[i] = errors[i] \cup {n} /\ UNCHANGED <<active, entries, found>>
    <3>1. pc'[i] = "rollback" /\ UNCHANGED <<active, found, previous, missed>>
      BY <1>d, <2>4
    <3>2. Names \ (replaced'[i] \cup errors'[i] \cup missed[i])
            \subseteq Names \ (replaced[i] \cup errors[i] \cup missed[i])
      BY <2>1, <2>4
    <3>3. ASSUME found[i] # Lost PROVE Alone(i)'
      <4>1. /\ \A m \in replaced[i] : previous[i][m] = found[i][m]
            /\ \A m \in Names \ (replaced[i] \cup errors[i] \cup missed[i]) :
                 active[m] = found[i][m]
        BY <1>d, <3>3 DEF Alone
      <4>2. QED
        BY <2>1, <3>1, <3>2, <4>1 DEF Alone
    <3>4. QED
      BY <2>2, <3>1, <3>3
  <2>5. QED
    BY <1>d, <2>3, <2>4
\* A rollback ends, and what it did not restore is missed.
<1>e. ASSUME pc[i] = "rollback", NEW label \in {"failed", "incomplete"}, End(i, label),
             UNCHANGED <<active, entries, found>>,
             missed'[i] = missed[i] \cup replaced[i] \cup errors[i]
      PROVE  Placed(i)'
  <2>1. pc'[i] = label
    BY <1>e DEF End, Goto, Set, WorkTypes
  <2>2. found'[i] # Lost => Alone(i)'
    BY <1>e, <2>1 DEF Alone
  <2>3. QED
    BY <1>b, <1>c, <1>e, <2>2
<1>8. CASE Rollback(i)
  <2>0. pc[i] = "rollback"
    BY <1>8 DEF Rollback, At
  <2>1. CASE /\ replaced[i] = {} /\ End(i, IF errors[i] = {} THEN "failed" ELSE "incomplete")
             /\ missed' = Set(missed, i, missed[i] \cup errors[i])
             /\ UNCHANGED <<active, entries, found>>
    <3>1. missed'[i] = missed[i] \cup replaced[i] \cup errors[i]
      BY <2>1 DEF Set, HistoryTypes
    <3>2. QED
      BY <1>e, <2>0, <2>1, <3>1
  <2>2. ASSUME NEW n \in Latest(i), replaced' = Set(replaced, i, replaced[i] \ {n}),
               \/ Publish(i, n, previous[i][n]) /\ UNCHANGED errors
               \/ /\ errors' = Set(errors, i, errors[i] \cup {n})
                  /\ UNCHANGED <<active, entries, found>>,
               UNCHANGED <<pc, rev, next, previous, staged, missed>>
        PROVE  Placed(i)'
    <3>1. \/ Publish(i, n, previous[i][n]) /\ errors[i] \subseteq errors'[i]
          \/ errors'[i] = errors[i] \cup {n} /\ UNCHANGED <<active, entries, found>>
      BY <2>2 DEF Set, WorkTypes
    <3>2. QED
      BY <1>d, <2>0, <2>2, <3>1
  <2>3. QED
    BY <1>8, <2>1, <2>2 DEF Rollback
<1>9. CASE Interrupt(i)
  <2>0. UNCHANGED <<snapshots>>
    BY <1>9 DEF Interrupt
  <2>1. CASE /\ End(i, "failed") /\ UNCHANGED <<active, entries, history>>
             /\ pc[i] \in {"build", "verify", "read", "stage"}
    <3>1. pc'[i] = "failed"
      BY <2>1 DEF End, Goto, Set, WorkTypes
    <3>2. found'[i] # Lost => Alone(i)'
      BY <2>1, <3>1 DEF Alone, history
    <3>3. QED
      BY <1>b, <1>c, <2>1, <3>2
  <2>2. CASE InterruptReplacing(i)
    <3>0. /\ UNCHANGED <<active, found, rev, next, previous, staged, errors>>
          /\ pc'[i] = "rollback"
      BY <2>2 DEF InterruptReplacing, Goto, Set, WorkTypes
    <3>1. Working(i)' /\ Looping(i)'
      BY <3>0 DEF Working, Looping
    <3>2. CASE At(i, "replace") /\ UNCHANGED <<replaced, missed>>
      <4>1. \A n \in Names \ replaced[i] : ~(n < next[i])
        BY <1>0, <1>a, <3>2 DEF Looping, At
      <4>2. found'[i] # Lost => Alone(i)'
        BY <1>0, <1>a, <3>0, <3>2, <4>1 DEF Alone, At
      <4>3. QED
        BY <3>1, <4>2
    <3>3. CASE /\ At(i, "note") /\ missed' = Set(missed, i, missed[i] \cup {next[i]})
               /\ UNCHANGED replaced
      <4>1. missed'[i] = missed[i] \cup {next[i]}
        BY <3>3 DEF Set, HistoryTypes
      <4>2. \A n \in Names \ (replaced[i] \cup {next[i]}) : ~(n <= next[i])
        BY <1>0, <1>a, <3>3 DEF Looping, At
      <4>3. found'[i] # Lost => Alone(i)'
        BY <1>0, <1>a, <3>0, <3>3, <4>1, <4>2 DEF Alone, At
      <4>4. QED
        BY <3>1, <4>3
    <3>4. CASE /\ At(i, "note") /\ next[i] = Last
               /\ replaced' = Set(replaced, i, Names) /\ UNCHANGED missed
      <4>1. replaced'[i] = Names
        BY <3>4 DEF Set, WorkTypes
      <4>2. found'[i] # Lost => Alone(i)'
        BY <3>0, <3>4, <4>1 DEF Alone, At
      <4>3. QED
        BY <3>1, <4>2
    <3>5. QED
      BY <2>2, <3>2, <3>3, <3>4 DEF InterruptReplacing
  <2>3. CASE InterruptRollback(i)
    <3>0. pc[i] = "rollback"
      BY <2>3 DEF InterruptRollback, At
    <3>1. ASSUME End(i, "failed"), UNCHANGED <<active, entries, found>>,
                 missed' = Set(missed, i, missed[i] \cup replaced[i] \cup errors[i])
          PROVE  Placed(i)'
      <4>1. missed'[i] = missed[i] \cup replaced[i] \cup errors[i]
        BY <3>1 DEF Set, HistoryTypes
      <4>2. QED
        BY <1>e, <3>0, <3>1, <4>1
    <3>2. ASSUME NEW n \in Latest(i), replaced' = Set(replaced, i, replaced[i] \ {n}),
                 errors' = Set(errors, i, errors[i] \cup {n}),
                 Publish(i, n, previous[i][n]) \/ UNCHANGED <<active, entries, found>>,
                 UNCHANGED <<pc, rev, next, previous, staged, missed>>
          PROVE  Placed(i)'
      <4>1. errors'[i] = errors[i] \cup {n}
        BY <3>2 DEF Set, WorkTypes
      <4>2. QED
        BY <1>d, <3>0, <3>2, <4>1
    <3>3. QED
      BY <2>3, <3>1, <3>2 DEF InterruptRollback
  <2>4. QED
    BY <1>9, <2>1, <2>2, <2>3 DEF Interrupt
<1>10. CASE Kill(i)
  <2>1. found'[i] = Lost
    BY <1>10 DEF Kill, Set, HistoryTypes
  <2>2. QED
    BY <1>10, <1>b, <1>c, <2>1 DEF Kill
<1>11. QED
  BY <1>1, <1>2, <1>3, <1>4, <1>5, <1>6, <1>7, <1>8, <1>9, <1>10 DEF Importing


\* No step of an importer, of the readers or of a power loss removes a snapshot.
LEMMA NoneRemoved ==
  ASSUME CatalogInv, [Next]_vars
  PROVE  Standing
<1>1. ASSUME NEW i \in Importers, Importing(i) PROVE Standing
  BY <1>1, KeptStep DEF Kept, Others
<1>2. CASE PowerLoss
  <2>1. PICK fate \in [unsynced -> {"lost", "whole", "torn"}] :
          snapshots' = [r \in Revisions |-> IF r \in unsynced THEN fate[r] ELSE snapshots[r]]
    BY <1>2 DEF PowerLoss
  <2>2. ASSUME NEW r \in Revisions, snapshots[r] # "absent" PROVE snapshots'[r] # "absent"
    <3>1. CASE r \in unsynced
      <4>1. snapshots'[r] = fate[r] /\ fate[r] \in {"lost", "whole", "torn"}
        BY <2>1, <3>1
      <4>2. QED
        BY <4>1
    <3>2. CASE r \notin unsynced
      BY <2>1, <2>2, <3>2
    <3>3. QED
      BY <3>1, <3>2
  <2>3. QED
    BY <2>2 DEF Standing
<1>3. CASE UNCHANGED files
  BY <1>3 DEF files, Standing
<1>4. QED
  BY <1>1, <1>2, <1>3 DEF Next, LoadRegistry, Bind, vars

\* The scan and the assessment
LEMMA AnalysisStep ==
  ASSUME CatalogInv, [Next]_vars
  PROVE  Analysis' /\ Backed'
<1> USE DEF CatalogInv
<1>0. Standing
  BY NoneRemoved
<1>1. CASE UNCHANGED analysis
  <2>1. Backed'
    BY <1>0, <1>1, GoodStays DEF Backed, analysis
  <2>2. QED
    BY <1>1, <2>1 DEF Analysis, analysis
<1>2. CASE LoadRegistry
  <2>0. UNCHANGED snapshots
    BY <1>2 DEF LoadRegistry, files
  <2>1. reader = "loading" /\ Len(report) < Len(Loaded) /\ Len(Loaded) \in Nat
    BY <1>2, CatalogAssumption DEF LoadRegistry, Analysis
  <2>2. CASE reader' = "refused" /\ UNCHANGED report
    BY <2>0, <2>2 DEF Analysis, Backed, Good
  <2>3. ASSUME NEW content \in Revisions, Good(content), report' = Append(report, content),
               reader' = IF Len(report') = Len(Loaded) THEN "reported" ELSE "loading"
        PROVE  Analysis' /\ Backed'
    <3>1. report' \in Seq(Revisions) /\ Len(report') = Len(report) + 1
      BY <2>3 DEF Analysis
    <3>2. Len(report) \in Nat
      BY DEF Analysis
    <3>3. ASSUME NEW k \in DOMAIN report' PROVE Good(report'[k])
      <4>1. DOMAIN report' = 1..Len(report) + 1 /\ DOMAIN report = 1..Len(report)
        BY <3>1 DEF Analysis
      <4>2. CASE k = Len(report) + 1
        BY <2>3, <3>2, <4>2 DEF Analysis
      <4>3. CASE k \in DOMAIN report
        BY <2>3, <3>2, <4>1, <4>3 DEF Analysis, Backed
      <4>4. QED
        BY <3>2, <3>3, <4>1, <4>2, <4>3
    <3>4. Backed'
      BY <2>0, <3>3 DEF Backed, Good
    <3>5. QED
      BY <2>1, <2>3, <3>1, <3>2, <3>4 DEF Analysis
  <2>4. Loaded[Len(report) + 1] \in Names
    BY <2>1, CatalogAssumption DEF Analysis
  <2>5. Good(active[Loaded[Len(report) + 1]])
    BY <2>4 DEF Sound
  <2>6. QED
    BY <1>2, <2>2, <2>3, <2>5 DEF LoadRegistry
<1>3. CASE Bind
  <2>1. UNCHANGED <<snapshots, report>> /\ reader = "reported" /\ reader' \in {"bound", "rejected"}
    BY <1>3 DEF Bind, files
  <2>2. QED
    BY <2>1 DEF Analysis, Backed, Good
<1>4. QED
  BY <1>1, <1>2, <1>3 DEF Next, vars, Importing, Start, BuildSnapshot, Verify,
     ReadPrevious, Stage, Replace, NoteReplaced, Rollback, Interrupt, Kill, PowerLoss

\* After a power loss each name holds what it may hold, and every importer is gone.
LEMMA PowerLossStep ==
  ASSUME CatalogInv, PowerLoss
  PROVE  /\ FileTypes' /\ WorkTypes' /\ HistoryTypes' /\ Sound'
         /\ \A i \in Importers : Placed(i)'
<1> USE DEF CatalogInv, PowerLoss
<1>0. /\ 1 \in Names /\ Nothing \in [Names -> Contents]
      /\ \A n \in Names : Nothing[n] \notin Revisions \cup {Garbage}
  BY CatalogAssumption DEF Nothing, Names, Contents
<1>1. active' \in [Names -> Contents] /\ \A n \in Names : active'[n] \in entries[n]
  OBVIOUS
<1>2. snapshots' \in [Revisions -> {"absent", "whole", "torn", "lost"}]
  BY DEF FileTypes
<1>3. FileTypes'
  <2>1. crashes' \in 0..MaxCrashes
    BY CatalogAssumption DEF FileTypes
  <2>2. entries' \in [Names -> SUBSET Contents]
    BY <1>1
  <2>3. QED
    BY <1>1, <1>2, <2>1, <2>2 DEF FileTypes
<1>4. WorkTypes' /\ HistoryTypes'
  BY <1>0 DEF WorkTypes, HistoryTypes, Labels
<1>5. Sound'
  <2>1. Standing
    BY NoneRemoved DEF Next
  <2>2. \A n \in Names : \A c \in entries[n] : Good(c)'
    BY <2>1, GoodStays DEF Sound
  <2>3. \A n \in Names : Good(Nothing[n])'
    BY <1>0 DEF Good
  <2>4. \A n \in Names : active'[n] \in entries'[n] /\ \A c \in entries'[n] : Good(c)'
    BY <1>1, <2>2
  <2>5. QED
    BY <1>0, <2>3, <2>4 DEF Sound
<1>6. ASSUME NEW i \in Importers PROVE Placed(i)'
  BY DEF Placed, Working, Looping
<1>7. QED
  BY <1>3, <1>4, <1>5, <1>6

\* An importer keeps its place while another one takes a step.
LEMMA OtherStep ==
  ASSUME CatalogInv, NEW i \in Importers, Others(i), NEW j \in Importers \ {i}
  PROVE  Placed(j)'
<1>1. /\ Same(j) /\ missed'[j] = missed[j]
      /\ found'[j] # Lost => found'[j] = found[j] /\ active' = active
  BY DEF Others
<1>2. Placed(j) /\ \A r \in Revisions : snapshots[r] = "whole" => snapshots'[r] = "whole"
  BY DEF CatalogInv, Others
<1>3. Working(j)'
  BY <1>1, <1>2 DEF Placed, Working, Same
<1>4. Looping(j)'
  BY <1>1, <1>2 DEF Placed, Looping, Same
<1>5. found'[j] # Lost => Alone(j)'
  BY <1>1, <1>2 DEF Placed, Alone, Same
<1>6. QED
  BY <1>3, <1>4, <1>5 DEF Placed

\* Every step keeps the invariant.
LEMMA NextInv == CatalogInv /\ [Next]_vars => CatalogInv'
<1> SUFFICES ASSUME CatalogInv, [Next]_vars PROVE CatalogInv'
  OBVIOUS
<1>0. Analysis' /\ Backed'
  BY AnalysisStep
<1>1. ASSUME NEW i \in Importers, Importing(i) PROVE CatalogInv'
  <2>1. Kept(i) /\ Placed(i)'
    BY <1>1, KeptStep, ImporterStep
  <2>2. \A j \in Importers \ {i} : Placed(j)'
    BY <2>1, OtherStep DEF Kept
  <2>3. QED
    BY <1>0, <2>1, <2>2 DEF CatalogInv, Kept
<1>2. CASE PowerLoss
  BY <1>0, <1>2, PowerLossStep DEF CatalogInv
<1>3. CASE UNCHANGED <<files, importer>>
  <2>1. FileTypes' /\ WorkTypes' /\ HistoryTypes' /\ Sound'
    BY <1>3 DEF CatalogInv, files, importer, work, history, FileTypes, WorkTypes, HistoryTypes,
       Sound, Good
  <2>2. ASSUME NEW i \in Importers PROVE Placed(i)'
    BY <1>3, <2>2 DEF CatalogInv, Placed, Working, Looping, Alone, files, importer, work, history
  <2>3. QED
    BY <1>0, <2>1, <2>2 DEF CatalogInv
<1>4. QED
  BY <1>1, <1>2, <1>3 DEF Next, LoadRegistry, Bind, vars

\* The inductive invariant is one of the specification.
LEMMA SpecInv == Spec => []CatalogInv
<1>1. QED
  BY InitInv, NextInv, PTL DEF Spec

-----------------------------------------------------------------------------
(* The properties *)

\* Every variable has its type; a loop never leaves the registries, and no scan
\* reports more registries than it loads.
THEOREM TypeCorrect == Spec => []TypeOK
<1>1. CatalogInv => TypeOK
  BY DEF CatalogInv, FileTypes, WorkTypes, HistoryTypes, Analysis, Sound, TypeOK, Labels
<1>2. QED
  BY <1>1, SpecInv, PTL

\* Whatever fails, is interrupted, killed or lost on the way, in itself or in the
\* importers before it, an importer that nobody else published against has
\* activated all of its revision, or left every registry as it found it but for
\* those that an interrupt kept from its rollback or that its error names.
THEOREM RollbackIsComplete == Spec => []RollbackRestores
<1>1. CatalogInv => RollbackRestores
  BY DEF CatalogInv, Placed, Alone, RollbackRestores, At
<1>2. QED
  BY <1>1, SpecInv, PTL

\* No power loss and no later import makes a torn snapshot's bytes active.
THEOREM TornIsNeverActive == Spec => []NothingTornIsActive
<1>1. CatalogInv => NothingTornIsActive
  BY DEF CatalogInv, Sound, Good, NothingTornIsActive
<1>2. QED
  BY <1>1, SpecInv, PTL

\* However importers build, publish, roll back and fail while a scan loads its
\* registries, and after that, each one it has loaded is of a revision whose
\* snapshot is there, unless a power loss has taken it.
THEOREM LoadedHasItsSnapshot == Spec => []LoadedIsBacked
<1>1. CatalogInv => LoadedIsBacked
  <2>1. SUFFICES ASSUME CatalogInv, NEW k \in DOMAIN report
                 PROVE  snapshots[report[k]] # "absent"
    BY DEF LoadedIsBacked
  <2>2. Good(report[k])
    BY <2>1 DEF CatalogInv, Backed
  <2>3. report[k] \in Revisions
    BY <2>1 DEF CatalogInv, Analysis
  <2>4. QED
    BY <2>2, <2>3 DEF Good
<1>2. QED
  BY <1>1, SpecInv, PTL
=============================================================================
