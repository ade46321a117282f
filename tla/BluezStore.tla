------------------------------- MODULE BluezStore -------------------------------
(***************************************************************************)
(* What K'amal reads of BlueZ's persistent store, /var/lib/bluetooth:        *)
(* kamal/bluez_security_state.py reads a target's cache and info records and *)
(* derives whether it is bonded; kamal/bluez_key_evidence.py reads info for  *)
(* its keys.  Neither has a lock against bluetoothd, which replaces, removes *)
(* and creates these files meanwhile; others may write them in place.        *)
(* A document is a sequence of lines; a read can see its first ChunkLines    *)
(* before and the others after a change.                                     *)
(***************************************************************************)
EXTENDS Integers, Sequences

CONSTANTS
  Documents,     \* path -> what its record can hold: sequences of lines
  ChunkLines,    \* lines in the first part of a read
  MaxChanges     \* bound: changes of the store

Paths == {"cache", "info"}
Inodes == 1..5        \* two linked, two open, and one more
NoInode == 0
NoRecord == <<[line |-> "absent"]>>
NoFile == [doc |-> <<>>, ctime |-> 0]

Section(name) == [line |-> "section", name |-> name]
Field(key, value) == [line |-> "field", key |-> key, value |-> value]

Malformed == [line |-> "malformed"]    \* no =, or nothing before it

Lines == [line: {"section"}, name: STRING] \cup [line: {"field"}, key: STRING, value: STRING]
           \cup {Malformed}

ASSUME StoreAssumption ==
  /\ MaxChanges \in Nat /\ ChunkLines \in Nat
  /\ \A d \in Documents["cache"] \cup Documents["info"] : d \in Seq(Lines)

VARIABLES
  path,     \* Paths -> the inode linked there, or NoInode
  inode,    \* Inodes -> [doc, ctime]
  changes,  \* the clock: every change has a ctime of its own
  pc,       \* Tools -> where it stands
  at,       \* Tools -> the path it reads
  fd,       \* Tools -> the inode lstat saw, then the one it has open
  opened,   \* Tools -> [size, ctime] by the first fstat
  buffer,   \* Tools -> lines read
  records,  \* Tools -> the records read, by path
  held      \* history: Tools -> per path, all it has held since the tool began

store == <<path, inode, changes>>
reading == <<at, fd, opened, buffer, records>>
vars == <<store, pc, reading, held>>

Tools == {"inspect", "analyze"}

-----------------------------------------------------------------------------
(* The records *)

\* _key_section_class; the last one is the name of every section whose name begins
\* with SetIdentityResolvingKey#.
Class == [LinkKey |-> "link_key", LongTermKey |-> "ltk", PeripheralLongTermKey |-> "ltk",
          SlaveLongTermKey |-> "ltk", IdentityResolvingKey |-> "irk",
          LocalSignatureKey |-> "csrk", RemoteSignatureKey |-> "csrk",
          SetIdentityResolvingKey |-> "irk"]

Empty == [k \in {} |-> ""]
Updated(f, k, value) == [x \in DOMAIN f \cup {k} |-> IF x = k THEN value ELSE f[x]]

\* Both parsers go line by line: no section twice, no field outside a section,
\* and no line that is neither.  The inspection takes any spelling of key= for material and lets a repeated
\* field replace the first; the analysis takes names as they are, once.
AddLine(s, l, strict) ==
  LET key == IF strict \/ l.key # "key" THEN l.key ELSE "Key"
  IN IF l.line = "section"
     THEN [ok |-> s.ok /\ l.name \notin DOMAIN s.sections, current |-> l.name,
           sections |-> Updated(s.sections, l.name, Empty)]
     ELSE IF s.current = "" \/ l = Malformed THEN [s EXCEPT !.ok = FALSE]
     ELSE [s EXCEPT
            !.ok = @ /\ ~(strict /\ l.key \in DOMAIN s.sections[s.current]),
            !.sections[s.current] = Updated(@, key, l.value)]

NoLines == [ok |-> TRUE, current |-> "", sections |-> Empty]

Parsed(doc, strict) ==
  LET after[n \in 0..Len(doc)] ==
        IF n = 0 THEN NoLines ELSE AddLine(after[n - 1], doc[n], strict)
  IN after[Len(doc)]

Recognized(parsed) == DOMAIN parsed.sections \cap DOMAIN Class
WithKey(parsed) == {s \in Recognized(parsed) : "Key" \in DOMAIN parsed.sections[s]}

\* Mutant of Inspected: one section without a key leaves the bond open.
InspectedAll(doc) ==
  LET parsed == Parsed(doc, FALSE)
  IN IF doc = NoRecord THEN [ok |-> TRUE, bonded |-> "unknown", classes |-> {}]
     ELSE [ok |-> parsed.ok,
           bonded |-> IF Recognized(parsed) = {} THEN "no"
                      ELSE IF WithKey(parsed) = Recognized(parsed) THEN "yes" ELSE "unknown",
           classes |-> {Class[s] : s \in WithKey(parsed)}]

\* _parse_bluez_record and _derive_bonded_state
Inspected(doc) ==
  LET parsed == Parsed(doc, FALSE)
  IN IF doc = NoRecord THEN [ok |-> TRUE, bonded |-> "unknown", classes |-> {}]
     ELSE [ok |-> parsed.ok,
           bonded |-> IF Recognized(parsed) = {} THEN "no"
                      ELSE IF WithKey(parsed) # {} THEN "yes" ELSE "unknown",
           classes |-> {Class[s] : s \in WithKey(parsed)}]

\* _parse_info_with_keys: each key of a recognized section is 128 bits of
\* hexadecimal, and there is one.
Analyzed(doc) ==
  LET parsed == Parsed(doc, TRUE)
  IN IF doc = NoRecord THEN [ok |-> FALSE, classes |-> {}]
     ELSE [ok |-> /\ parsed.ok /\ WithKey(parsed) # {}
                  /\ \A s \in WithKey(parsed) : parsed.sections[s]["Key"] = "hex",
           classes |-> {Class[s] : s \in WithKey(parsed)}]

\* cache may be absent, and info may, but not both.
Accepts(tool, got) ==
  IF tool = "analyze" THEN Analyzed(got["info"]).ok
  ELSE /\ \A p \in Paths : Inspected(got[p]).ok
       /\ \E p \in Paths : got[p] # NoRecord

-----------------------------------------------------------------------------
(* The store *)

Document(p) == IF path[p] = NoInode THEN NoRecord ELSE inode[path[p]].doc

\* The descriptors of the tools keep an inode that no path links any more.
InUse(links, i) == \/ \E p \in Paths : links[p] = i
                   \/ \E t \in Tools : pc[t] \in {"first", "second", "close"} /\ fd[t] = i

\* The lowest inode that is free is used again at once.
Free == CHOOSE i \in Inodes : ~InUse(path, i) /\ \A j \in 1..i - 1 : InUse(path, j)

\* p now links i; an inode that loses a link has a new ctime, and one that
\* nothing holds is gone.
Change(p, i, nodes) ==
  /\ changes < MaxChanges /\ changes' = changes + 1
  /\ path' = [path EXCEPT ![p] = i]
  /\ inode' = [j \in Inodes |->
                 IF ~InUse(path', j) THEN NoFile
                 ELSE IF j = path[p] /\ j # i THEN [nodes[j] EXCEPT !.ctime = changes + 1]
                 ELSE nodes[j]]
  /\ held' = [t \in Tools |->
                [held[t] EXCEPT ![p] = @ \cup {IF i = NoInode THEN NoRecord ELSE nodes[i].doc}]]
  /\ UNCHANGED <<pc, reading>>

Written(d) == [doc |-> d, ctime |-> changes + 1]

\* bluetoothd writes a temporary file and renames it, over the old or to none.
ReplaceRecord ==
  \E p \in Paths : \E d \in Documents[p] :
    Change(p, Free, [inode EXCEPT ![Free] = Written(d)])

RemoveRecord == \E p \in Paths : path[p] # NoInode /\ Change(p, NoInode, inode)

WriteInPlace ==
  \E p \in Paths : \E d \in Documents[p] :
    /\ path[p] # NoInode
    /\ Change(p, path[p], [inode EXCEPT ![path[p]] = Written(d)])

-----------------------------------------------------------------------------
(* The tools *)

\* The next record, or the judgement on all of them
Finish(t, lines) ==
  /\ records' = [records EXCEPT ![t][at[t]] = lines]
  /\ IF at[t] = "info"
     THEN /\ pc' = [pc EXCEPT ![t] = IF Accepts(t, records'[t]) THEN "reported" ELSE "refused"]
          /\ UNCHANGED at
     ELSE pc' = [pc EXCEPT ![t] = "lstat"] /\ at' = [at EXCEPT ![t] = "info"]

Refuse(t) == pc' = [pc EXCEPT ![t] = "refused"] /\ UNCHANGED <<at, records>>

\* A record that is not there is a result, too; one that is no regular file, is
\* too large or too open to others, or cannot be examined, is refused.
Lstat(t) ==
  /\ pc[t] = "lstat"
  /\ \/ path[at[t]] = NoInode /\ Finish(t, NoRecord) /\ UNCHANGED fd
     \/ /\ path[at[t]] # NoInode
        /\ fd' = [fd EXCEPT ![t] = path[at[t]]] /\ pc' = [pc EXCEPT ![t] = "open"]
        /\ UNCHANGED <<at, records>>
     \/ path[at[t]] # NoInode /\ Refuse(t) /\ UNCHANGED fd
  /\ UNCHANGED <<store, opened, buffer, held>>

\* open and fstat: the inode is the one lstat saw.
Open(t) ==
  /\ pc[t] = "open"
  /\ IF path[at[t]] # fd[t] THEN Refuse(t) /\ UNCHANGED opened
     ELSE /\ opened' = [opened EXCEPT ![t] = [size |-> Len(inode[fd[t]].doc),
                                              ctime |-> inode[fd[t]].ctime]]
          /\ pc' = [pc EXCEPT ![t] = "first"]
          /\ UNCHANGED <<at, records>>
  /\ UNCHANGED <<store, fd, buffer, held>>

ReadFirst(t) ==
  /\ pc[t] = "first" /\ pc' = [pc EXCEPT ![t] = "second"]
  /\ LET doc == inode[fd[t]].doc
     IN buffer' = [buffer EXCEPT ![t] =
                     IF Len(doc) <= ChunkLines THEN doc ELSE SubSeq(doc, 1, ChunkLines)]
  /\ UNCHANGED <<store, at, fd, opened, records, held>>

ReadSecond(t) ==
  /\ pc[t] = "second" /\ pc' = [pc EXCEPT ![t] = "close"]
  /\ LET doc == inode[fd[t]].doc
     IN buffer' = [buffer EXCEPT ![t] = @ \o SubSeq(doc, Len(@) + 1, Len(doc))]
  /\ UNCHANGED <<store, at, fd, opened, records, held>>

\* Mutant of Close: the size has not changed, so nothing has.
CloseBySize(t) ==
  /\ pc[t] = "close"
  /\ IF Len(inode[fd[t]].doc) = opened[t].size THEN Finish(t, buffer[t]) ELSE Refuse(t)
  /\ fd' = [fd EXCEPT ![t] = NoInode] /\ buffer' = [buffer EXCEPT ![t] = <<>>]
  /\ opened' = [opened EXCEPT ![t] = [size |-> 0, ctime |-> 0]]
  /\ UNCHANGED <<store, held>>

\* Mutant of Close: what is closed stays in the buffer.
CloseKeeping(t) ==
  /\ pc[t] = "close"
  /\ IF opened[t] = [size |-> Len(inode[fd[t]].doc), ctime |-> inode[fd[t]].ctime]
     THEN Finish(t, buffer[t]) ELSE Refuse(t)
  /\ fd' = [fd EXCEPT ![t] = NoInode] /\ UNCHANGED buffer
  /\ opened' = [opened EXCEPT ![t] = [size |-> 0, ctime |-> 0]]
  /\ UNCHANGED <<store, held>>

\* The second fstat: nothing has changed since the first.
Close(t) ==
  /\ pc[t] = "close"
  /\ IF opened[t] = [size |-> Len(inode[fd[t]].doc), ctime |-> inode[fd[t]].ctime]
     THEN Finish(t, buffer[t]) ELSE Refuse(t)
  /\ fd' = [fd EXCEPT ![t] = NoInode] /\ buffer' = [buffer EXCEPT ![t] = <<>>]
  /\ opened' = [opened EXCEPT ![t] = [size |-> 0, ctime |-> 0]]
  /\ UNCHANGED <<store, held>>

-----------------------------------------------------------------------------

Init ==
  /\ path \in [cache: {NoInode, 1}, info: {NoInode, 2}]
  /\ \E c \in Documents["cache"], d \in Documents["info"] :
       inode = [i \in Inodes |-> IF i = path["cache"] THEN [NoFile EXCEPT !.doc = c]
                                 ELSE IF i = path["info"] THEN [NoFile EXCEPT !.doc = d]
                                 ELSE NoFile]
  /\ changes = 0
  /\ pc = [t \in Tools |-> "lstat"]
  /\ at = [inspect |-> "cache", analyze |-> "info"]
  /\ fd = [t \in Tools |-> NoInode] /\ buffer = [t \in Tools |-> <<>>]
  /\ opened = [t \in Tools |-> [size |-> 0, ctime |-> 0]]
  /\ records = [t \in Tools |-> [p \in Paths |-> NoRecord]]
  /\ held = [t \in Tools |-> [p \in Paths |-> {Document(p)}]]

Read(t) == Lstat(t) \/ Open(t) \/ ReadFirst(t) \/ ReadSecond(t) \/ Close(t)

Next == (\E t \in Tools : Read(t)) \/ ReplaceRecord \/ RemoveRecord \/ WriteInPlace

Spec == Init /\ [][Next]_vars
-----------------------------------------------------------------------------
(* Properties *)

TypeOK ==
  /\ path \in [Paths -> Inodes \cup {NoInode}]
  /\ \A i \in Inodes : inode[i].ctime \in 0..changes
  /\ \A p \in Paths : Document(p) \in Documents[p] \cup {NoRecord}
  /\ changes \in 0..MaxChanges
  /\ \A t \in Tools :
       /\ pc[t] \in {"lstat", "open", "first", "second", "close", "reported", "refused"}
       /\ at[t] \in Paths /\ fd[t] \in Inodes \cup {NoInode}
       /\ pc[t] \notin {"second", "close"} => buffer[t] = <<>>
       /\ \A p \in Paths : held[t][p] \subseteq Documents[p] \cup {NoRecord}

\* "BlueZ record changed during read" (bluez_security_state.py:179): whatever
\* bluetoothd does between two of its system calls, a tool that reports has
\* read each record as it was at one moment of its run, whole or absent.
ReportsAreWhole ==
  \A t \in Tools : pc[t] = "reported" =>
    \A p \in {"info", IF t = "inspect" THEN "cache" ELSE "info"} :
      records[t][p] \in held[t][p]

\* The two tools parse on their own.  From the same info bytes, a target whose
\* keys the analysis reports is one that the inspection calls bonded, with
\* material of these classes at least ("`false` is an observed negative state", ADR-004).
KeysImplyBonded ==
  (\A t \in Tools : pc[t] = "reported") /\ records["inspect"]["info"] = records["analyze"]["info"] =>
    /\ Inspected(records["inspect"]["info"]).bonded = "yes"
    /\ Analyzed(records["analyze"]["info"]).classes
         \subseteq Inspected(records["inspect"]["info"]).classes
=============================================================================
