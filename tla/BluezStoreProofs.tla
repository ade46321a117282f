---------------------------- MODULE BluezStoreProofs ----------------------------
(***************************************************************************)
(* Proofs about reading BlueZ's store without a lock, for records of any     *)
(* content and length, read in parts of any size: what is reported was the   *)
(* record at one moment; and about the two parsers, for every record.        *)
(***************************************************************************)
EXTENDS BluezStore, SequenceTheorems, WellFoundedInduction, TLAPS

-----------------------------------------------------------------------------
(* The invariant *)

Places == {"lstat", "open", "first", "second", "close", "reported", "refused"}
Known == Documents["cache"] \cup Documents["info"] \cup {<<>>}

\* No inode is linked twice, and what is linked is a record of its path.
Files ==
  /\ path \in [Paths -> Inodes \cup {NoInode}] /\ changes \in 0..MaxChanges
  /\ inode \in [Inodes -> [doc: Known, ctime: 0..changes]]
  /\ path["cache"] = path["info"] => path["cache"] = NoInode
  /\ \A p \in Paths : path[p] # NoInode => inode[path[p]].doc \in Documents[p]

ToolTypes ==
  /\ pc \in [Tools -> Places] /\ at \in [Tools -> Paths]
  /\ fd \in [Tools -> Inodes \cup {NoInode}]
  /\ opened \in [Tools -> [size: Nat, ctime: Nat]]
  /\ buffer \in [Tools -> Seq(Lines)]
  /\ records \in [Tools -> [Paths -> Seq(Lines) \cup {NoRecord}]]
  /\ held \in [Tools -> [Paths -> SUBSET (Known \cup {NoRecord})]]

\* What a path has held includes what it holds.
Remembered ==
  \A t \in Tools, p \in Paths :
    Document(p) \in held[t][p] /\ held[t][p] \subseteq Documents[p] \cup {NoRecord}

Holding == {"first", "second", "close"}
FirstPart(doc) == IF Len(doc) <= ChunkLines THEN doc ELSE SubSeq(doc, 1, ChunkLines)

\* As long as the open inode has the ctime of the first fstat, it is one that the
\* path has held, and the buffer is as much of it as has been read.
Consistent(t) ==
  /\ pc[t] \in Holding \cup {"open"} => fd[t] \in Inodes
  /\ pc[t] \in Holding => opened[t].ctime <= inode[fd[t]].ctime
  /\ pc[t] \in Holding /\ opened[t].ctime = inode[fd[t]].ctime =>
       /\ inode[fd[t]].doc \in held[t][at[t]]
       /\ pc[t] = "second" => buffer[t] = FirstPart(inode[fd[t]].doc)
       /\ pc[t] = "close" => buffer[t] = inode[fd[t]].doc
  /\ pc[t] \notin {"second", "close"} => buffer[t] = <<>>

\* The records that are kept are ones the paths have held, and what is reported
\* has been accepted.
Honest(t) ==
  /\ t = "analyze" => at[t] = "info"
  /\ t = "inspect" /\ at[t] = "info" => records[t]["cache"] \in held[t]["cache"]
  /\ pc[t] = "reported" => /\ at[t] = "info" /\ records[t]["info"] \in held[t]["info"]
                           /\ Accepts(t, records[t])

StoreInv ==
  Files /\ ToolTypes /\ Remembered /\ \A t \in Tools : Consistent(t) /\ Honest(t)

-----------------------------------------------------------------------------
(* The two parsers *)

\* Induction over the natural numbers, for a set: the numbers outside it would
\* have a least one.
LEMMA SetInduction ==
  ASSUME NEW T, 0 \in T, \A n \in Nat : n \in T => n + 1 \in T
  PROVE  Nat \subseteq T
<1> SUFFICES ASSUME Nat \ T # {} PROVE FALSE
  OBVIOUS
<1> DEFINE Below == {p \in Nat \X Nat : p[1] < p[2]}
<1>1. IsWellFoundedOn(Below, Nat)
  BY NatLessThanWellFounded DEF OpToRel
<1>2. PICK m \in Nat \ T : \A y \in Nat \ T : ~(<<y, m>> \in Below)
  BY <1>1, WFMin
<1>3. m # 0 /\ m - 1 \in Nat
  OBVIOUS
<1>4. m - 1 \notin T
  BY <1>3
<1>5. <<m - 1, m>> \in Below
  BY <1>3
<1>6. QED
  BY <1>2, <1>3, <1>4, <1>5

\* After n lines of doc
Step(f, doc, strict, n) == IF n = 0 THEN NoLines ELSE AddLine(f[n - 1], doc[n], strict)
After(doc, strict) == CHOOSE f : f = [n \in 0..Len(doc) |-> Step(f, doc, strict, n)]

\* A parser reaches every line of a record.
LEMMA ParserRuns ==
  ASSUME NEW doc \in Seq(Lines), NEW strict
  PROVE  /\ After(doc, strict) = [n \in 0..Len(doc) |-> Step(After(doc, strict), doc, strict, n)]
         /\ Parsed(doc, strict) = After(doc, strict)[Len(doc)]
<1> DEFINE Runs(k, f) == f = [n \in 0..k |-> Step(f, doc, strict, n)]
           T == {k \in Nat : \E f : Runs(k, f)}
<1>1. 0 \in T
  <2>1. Runs(0, [n \in 0..0 |-> NoLines])
    BY DEF Step
  <2>2. QED
    BY <2>1
<1>2. ASSUME NEW k \in Nat, k \in T PROVE k + 1 \in T
  <2>1. PICK f : Runs(k, f)
    BY <1>2
  <2> DEFINE g == [n \in 0..k + 1 |-> Step(f, doc, strict, n)]
  <2>2. ASSUME NEW n \in 0..k + 1 PROVE Step(f, doc, strict, n) = Step(g, doc, strict, n)
    <3>1. CASE n = 0
      BY <3>1 DEF Step
    <3>2. CASE n # 0
      <4>1. n - 1 \in 0..k
        BY <3>2
      <4>2. f[n - 1] = Step(f, doc, strict, n - 1)
        BY <2>1, <4>1
      <4>3. g[n - 1] = Step(f, doc, strict, n - 1)
        BY <4>1
      <4>4. QED
        BY <3>2, <4>2, <4>3 DEF Step
    <3>3. QED
      BY <3>1, <3>2
  <2>3. Runs(k + 1, g)
    BY <2>2
  <2>4. \E h : Runs(k + 1, h)
    <3> HIDE DEF Runs, g
    <3> QED
      BY <2>3
  <2>5. QED
    BY <2>4
<1>3. Len(doc) \in T
  <2> HIDE DEF T
  <2>1. Nat \subseteq T
    BY <1>1, <1>2, SetInduction
  <2>2. QED
    BY <2>1
<1>4. \E f : f = [n \in 0..Len(doc) |-> Step(f, doc, strict, n)]
  BY <1>3
<1>5. After(doc, strict) = [n \in 0..Len(doc) |-> Step(After(doc, strict), doc, strict, n)]
  BY <1>4 DEF After
<1>6. Parsed(doc, strict) = After(doc, strict)[Len(doc)]
  BY DEF Parsed, After, Step
<1>7. QED
  BY <1>5, <1>6


\* What a parser has when it is between two lines
IsState(s) ==
  /\ s = [ok |-> s.ok, current |-> s.current, sections |-> s.sections]
  /\ s.ok \in BOOLEAN
  /\ s.sections = [x \in DOMAIN s.sections |-> s.sections[x]]
  /\ s.current # "" => s.current \in DOMAIN s.sections

\* The analysis (a) and the inspection (b) are in the same section, have seen the
\* same sections, and what the analysis has of a field the inspection has, too.
Agree(a, b) ==
  /\ IsState(a) /\ IsState(b)
  /\ a.ok => b.ok
  /\ a.current = b.current /\ DOMAIN a.sections = DOMAIN b.sections
  /\ \A x \in DOMAIN a.sections : \A k \in DOMAIN a.sections[x] :
       (IF k = "key" THEN "Key" ELSE k) \in DOMAIN b.sections[x]

\* One more line leaves the two parsers in agreement.
LEMMA LinesAgree ==
  ASSUME NEW a, NEW b, NEW l \in Lines, Agree(a, b)
  PROVE  Agree(AddLine(a, l, TRUE), AddLine(b, l, FALSE))
<1> DEFINE a1 == AddLine(a, l, TRUE)
           b1 == AddLine(b, l, FALSE)
<1>1. CASE l.line = "section"
  <2>1. /\ a1 = [ok |-> a.ok /\ l.name \notin DOMAIN a.sections, current |-> l.name,
                 sections |-> Updated(a.sections, l.name, Empty)]
        /\ b1 = [ok |-> b.ok /\ l.name \notin DOMAIN b.sections, current |-> l.name,
                 sections |-> Updated(b.sections, l.name, Empty)]
    BY <1>1 DEF AddLine
  <2> HIDE DEF a1, b1
  <2>2. /\ a1.sections = Updated(a.sections, l.name, Empty)
        /\ b1.sections = Updated(b.sections, l.name, Empty)
        /\ a1.current = l.name /\ b1.current = l.name
    BY <2>1
  <2>3. a1.ok \in BOOLEAN /\ b1.ok \in BOOLEAN /\ (a1.ok => b1.ok)
    BY <2>1 DEF Agree, IsState
  <2>4. /\ a1 = [ok |-> a1.ok, current |-> a1.current, sections |-> a1.sections]
        /\ b1 = [ok |-> b1.ok, current |-> b1.current, sections |-> b1.sections]
    BY <2>1
  <2>5. /\ DOMAIN a1.sections = DOMAIN a.sections \cup {l.name}
        /\ DOMAIN b1.sections = DOMAIN b.sections \cup {l.name}
        /\ a1.sections = [x \in DOMAIN a1.sections |-> a1.sections[x]]
        /\ b1.sections = [x \in DOMAIN b1.sections |-> b1.sections[x]]
    BY <2>2 DEF Updated
  <2>6. \A x \in DOMAIN a1.sections :
          /\ a1.sections[x] = IF x = l.name THEN Empty ELSE a.sections[x]
          /\ b1.sections[x] = IF x = l.name THEN Empty ELSE b.sections[x]
    BY <2>2, <2>5 DEF Agree, Updated
  <2>7. IsState(a1) /\ IsState(b1)
    BY <2>2, <2>3, <2>4, <2>5 DEF IsState
  <2>8. \A x \in DOMAIN a1.sections : \A k \in DOMAIN a1.sections[x] :
          (IF k = "key" THEN "Key" ELSE k) \in DOMAIN b1.sections[x]
    BY <2>5, <2>6 DEF Agree, Empty
  <2>9. Agree(a1, b1)
    BY <2>2, <2>3, <2>5, <2>7, <2>8 DEF Agree
  <2>10. QED
    BY <2>9 DEF a1, b1
<1>2. CASE l.line # "section" /\ (a.current = "" \/ l = Malformed)
  <2>1. a1 = [a EXCEPT !.ok = FALSE] /\ b1 = [b EXCEPT !.ok = FALSE]
    BY <1>2 DEF AddLine, Agree
  <2>2. QED
    BY <2>1 DEF Agree, IsState
<1>3. CASE l.line # "section" /\ a.current # "" /\ l # Malformed
  <2> DEFINE c == a.current
             kb == IF l.key # "key" THEN l.key ELSE "Key"
             ua == Updated(a.sections[c], l.key, l.value)
             ub == Updated(b.sections[c], kb, l.value)
  <2>1. /\ a1 = [a EXCEPT !.ok = @ /\ ~(l.key \in DOMAIN a.sections[c]), !.sections[c] = ua]
        /\ b1 = [b EXCEPT !.ok = @ /\ TRUE, !.sections[c] = ub]
    BY <1>3 DEF AddLine, Agree
  <2>2. /\ a1.current = c /\ b1.current = c
        /\ a1.sections = [a.sections EXCEPT ![c] = ua]
        /\ b1.sections = [b.sections EXCEPT ![c] = ub]
        /\ a1.ok \in BOOLEAN /\ b1.ok \in BOOLEAN /\ (a1.ok => b1.ok)
    BY <2>1 DEF Agree, IsState
  <2>3. /\ a1 = [ok |-> a1.ok, current |-> a1.current, sections |-> a1.sections]
        /\ b1 = [ok |-> b1.ok, current |-> b1.current, sections |-> b1.sections]
    BY <2>1 DEF Agree, IsState
  <2>4. /\ c \in DOMAIN a.sections /\ DOMAIN a.sections = DOMAIN b.sections
        /\ a.sections = [x \in DOMAIN a.sections |-> a.sections[x]]
        /\ b.sections = [x \in DOMAIN b.sections |-> b.sections[x]]
        /\ \A x \in DOMAIN a.sections : \A k \in DOMAIN a.sections[x] :
             (IF k = "key" THEN "Key" ELSE k) \in DOMAIN b.sections[x]
    BY <1>3 DEF Agree, IsState
  <2>5. /\ DOMAIN ua = DOMAIN a.sections[c] \cup {l.key}
        /\ DOMAIN ub = DOMAIN b.sections[c] \cup {kb}
    BY DEF Updated
  <2> HIDE DEF a1, b1, ua, ub
  <2>6. /\ DOMAIN a1.sections = DOMAIN a.sections /\ DOMAIN b1.sections = DOMAIN a.sections
        /\ a1.sections = [x \in DOMAIN a1.sections |-> a1.sections[x]]
        /\ b1.sections = [x \in DOMAIN b1.sections |-> b1.sections[x]]
        /\ \A x \in DOMAIN a.sections :
             /\ a1.sections[x] = IF x = c THEN ua ELSE a.sections[x]
             /\ b1.sections[x] = IF x = c THEN ub ELSE b.sections[x]
    BY <2>2, <2>4
  <2>7. IsState(a1) /\ IsState(b1)
    BY <2>2, <2>3, <2>4, <2>6 DEF IsState
  <2>8. \A x \in DOMAIN a1.sections : \A k \in DOMAIN a1.sections[x] :
          (IF k = "key" THEN "Key" ELSE k) \in DOMAIN b1.sections[x]
    BY <2>4, <2>5, <2>6
  <2>9. Agree(a1, b1)
    BY <2>2, <2>6, <2>7, <2>8 DEF Agree
  <2>10. QED
    BY <2>9 DEF a1, b1
<1>4. QED
  BY <1>1, <1>2, <1>3

\* For every record, what the strict parser accepts the lenient one accepts, with
\* the same sections and a key in each section that has one.
LEMMA ParsersAgree ==
  ASSUME NEW doc \in Seq(Lines)
  PROVE  Agree(Parsed(doc, TRUE), Parsed(doc, FALSE))
<1> DEFINE a == After(doc, TRUE)
           b == After(doc, FALSE)
           T == {n \in Nat : n <= Len(doc) => Agree(a[n], b[n])}
<1>0. Len(doc) \in Nat
  OBVIOUS
<1>1. 0 \in T
  <2>1. a[0] = NoLines /\ b[0] = NoLines
    BY ParserRuns DEF Step
  <2>2. Agree(NoLines, NoLines)
    BY DEF NoLines, Agree, IsState, Empty
  <2>3. QED
    BY <2>1, <2>2
<1>2. ASSUME NEW n \in Nat, n \in T PROVE n + 1 \in T
  <2>1. ASSUME n + 1 <= Len(doc) PROVE Agree(a[n + 1], b[n + 1])
    <3>1. n <= Len(doc) /\ n + 1 \in 0..Len(doc) /\ doc[n + 1] \in Lines
      BY <1>0, <2>1
    <3>2. Agree(a[n], b[n])
      BY <1>2, <3>1
    <3>3. a[n + 1] = Step(a, doc, TRUE, n + 1) /\ b[n + 1] = Step(b, doc, FALSE, n + 1)
      BY <3>1, ParserRuns
    <3>4. /\ n + 1 # 0 /\ (n + 1) - 1 = n
      OBVIOUS
    <3> HIDE DEF a, b
    <3>5. a[n + 1] = AddLine(a[n], doc[n + 1], TRUE) /\ b[n + 1] = AddLine(b[n], doc[n + 1], FALSE)
      BY <3>3, <3>4 DEF Step
    <3>6. QED
      BY <3>1, <3>2, <3>5, LinesAgree
  <2> HIDE DEF a, b
  <2>2. QED
    BY <2>1
<1>3. Len(doc) \in T
  <2> HIDE DEF T
  <2>1. Nat \subseteq T
    BY <1>1, <1>2, SetInduction
  <2>2. QED
    BY <1>0, <2>1
<1>4. QED
  BY <1>0, <1>3, ParserRuns


-----------------------------------------------------------------------------
(* The invariant holds *)

\* Two inodes are linked and two are open at most: there is a free one.
LEMMA FreeInode ==
  ASSUME Files, ToolTypes
  PROVE  Free \in Inodes /\ ~InUse(path, Free)
<1> DEFINE Used(i) == InUse(path, i)
<1>1. Inodes = {1, 2, 3, 4, 5} /\ NoInode \notin Inodes
  BY DEF Inodes, NoInode
<1>2. \A i \in Inodes : Used(i) =>
        i \in {path["cache"], path["info"], fd["inspect"], fd["analyze"]}
  BY DEF InUse, Paths, Tools
<1> HIDE DEF Used
<1>3. \E i \in Inodes : ~Used(i)
  BY <1>1, <1>2
<1>4. \E i \in Inodes : ~Used(i) /\ \A j \in 1..i - 1 : Used(j)
  <2>1. CASE ~Used(1)
    BY <2>1, <1>1
  <2>2. CASE Used(1) /\ ~Used(2)
    BY <2>2, <1>1
  <2>3. CASE Used(1) /\ Used(2) /\ ~Used(3)
    BY <2>3, <1>1
  <2>4. CASE Used(1) /\ Used(2) /\ Used(3) /\ ~Used(4)
    BY <2>4, <1>1
  <2>5. CASE Used(1) /\ Used(2) /\ Used(3) /\ Used(4)
    BY <2>5, <1>1, <1>3
  <2>6. QED
    BY <2>1, <2>2, <2>3, <2>4, <2>5
<1>5. QED
  BY <1>4 DEF Free, Used

\* Before anything has changed or been read
LEMMA InitInv == Init => StoreInv
<1> SUFFICES ASSUME Init PROVE StoreInv
  OBVIOUS
<1>1. Files
  <2>1. /\ path \in [Paths -> Inodes \cup {NoInode}] /\ changes \in 0..MaxChanges
        /\ path["cache"] \in {NoInode, 1} /\ path["info"] \in {NoInode, 2}
    BY StoreAssumption DEF Init, Paths, Inodes
  <2>2. PICK c \in Documents["cache"], d \in Documents["info"] :
          inode = [i \in Inodes |-> IF i = path["cache"] THEN [NoFile EXCEPT !.doc = c]
                                    ELSE IF i = path["info"] THEN [NoFile EXCEPT !.doc = d]
                                    ELSE NoFile]
    BY DEF Init
  <2>3. inode \in [Inodes -> [doc: Known, ctime: 0..changes]]
    BY <2>2 DEF Init, NoFile, Known
  <2>4. \A p \in Paths : path[p] # NoInode => inode[path[p]].doc \in Documents[p]
    BY <2>1, <2>2 DEF Paths, NoFile, Inodes, NoInode
  <2>5. QED
    BY <2>1, <2>3, <2>4 DEF Files, NoInode
<1>2. Document("cache") \in Known \cup {NoRecord} /\ Document("info") \in Known \cup {NoRecord}
  BY <1>1 DEF Files, Document, Paths
<1>3. ToolTypes
  BY <1>2 DEF Init, ToolTypes, Places, Tools, Paths, NoInode
<1>4. Remembered
  BY <1>1 DEF Init, Remembered, Files, Document
<1>5. \A t \in Tools : Consistent(t) /\ Honest(t)
  BY DEF Init, Consistent, Honest, Holding, Tools
<1>6. QED
  BY <1>1, <1>3, <1>4, <1>5 DEF StoreInv

\* A change of path p to inode i: no inode that a tool has open has another content
\* and the same ctime.
LEMMA ChangeStep ==
  ASSUME StoreInv, NEW p \in Paths, NEW i \in Inodes \cup {NoInode},
         NEW nodes \in [Inodes -> [doc: Known, ctime: 0..changes + 1]],
         \A j \in Inodes \ {i} : nodes[j] = inode[j],
         i # NoInode => nodes[i].ctime = changes + 1 /\ nodes[i].doc \in Documents[p],
         \A q \in Paths \ {p} : path[q] # NoInode => path[q] # i,
         Change(p, i, nodes)
  PROVE  StoreInv'
<1> USE DEF StoreInv, Change
<1>0. NoInode \notin Inodes /\ changes \in Nat /\ changes + 1 \in 0..MaxChanges
  <2>1. NoInode \notin Inodes
    BY DEF NoInode, Inodes
  <2>2. changes \in 0..MaxChanges /\ changes < MaxChanges /\ MaxChanges \in Nat
    BY StoreAssumption DEF Files
  <2>3. QED
    BY <2>1, <2>2
<1>1. /\ path' \in [Paths -> Inodes \cup {NoInode}] /\ path'[p] = i
      /\ \A q \in Paths \ {p} : path'[q] = path[q]
  BY DEF Files
<1>2. inode' \in [Inodes -> [doc: Known, ctime: 0..changes']]
  BY <1>0 DEF NoFile, Known
<1>3. \A j \in Inodes : InUse(path', j) =>
        IF j = i THEN inode'[j] = nodes[j]
        ELSE /\ inode'[j].doc = inode[j].doc
             /\ inode'[j].ctime \in {inode[j].ctime, changes + 1}
  BY DEF Files
<1>4. \A q \in Paths : path'[q] # NoInode => InUse(path', path'[q])
  BY DEF InUse
<1>5. Files'
  <2>1. path'["cache"] = path'["info"] => path'["cache"] = NoInode
    BY <1>1 DEF Files, Paths
  <2>2. ASSUME NEW q \in Paths, path'[q] # NoInode PROVE inode'[path'[q]].doc \in Documents[q]
    <3>1. CASE q = p
      <4>1. i \in Inodes /\ inode'[i] = nodes[i]
        BY <1>1, <1>3, <1>4, <2>2, <3>1
      <4>2. QED
        BY <1>1, <2>2, <3>1, <4>1
    <3>2. CASE q # p
      <4>1. path'[q] = path[q] /\ path[q] \in Inodes /\ path[q] # i
        BY <1>1, <2>2, <3>2 DEF Files
      <4>2. inode'[path[q]].doc = inode[path[q]].doc
        BY <1>3, <1>4, <2>2, <4>1
      <4>3. QED
        BY <2>2, <4>1, <4>2 DEF Files
    <3>3. QED
      BY <3>1, <3>2
  <2>3. QED
    BY <1>0, <1>1, <1>2, <2>1, <2>2 DEF Files
<1>6. \A q \in Paths : Document(q)' = IF q = p THEN IF i = NoInode THEN NoRecord ELSE nodes[i].doc
                                      ELSE Document(q)
  <2>1. ASSUME NEW q \in Paths
        PROVE  Document(q)' = IF q = p THEN IF i = NoInode THEN NoRecord ELSE nodes[i].doc
                              ELSE Document(q)
    <3>1. CASE q = p
      BY <1>1, <1>3, <1>4, <3>1 DEF Document
    <3>2. CASE q # p
      <4>1. path'[q] = path[q]
        BY <1>1, <3>2
      <4>2. CASE path[q] = NoInode
        BY <3>2, <4>1, <4>2 DEF Document
      <4>3. CASE path[q] # NoInode
        <5>1. path[q] \in Inodes /\ path[q] # i
          BY <3>2, <4>3 DEF Files
        <5>2. inode'[path[q]].doc = inode[path[q]].doc
          BY <1>3, <1>4, <4>1, <4>3, <5>1
        <5>3. QED
          BY <3>2, <4>1, <4>3, <5>2 DEF Document
      <4>4. QED
        BY <4>2, <4>3
    <3>3. QED
      BY <3>1, <3>2
  <2>2. QED
    BY <2>1
<1>7. \A t \in Tools, q \in Paths :
        held'[t][q] = IF q = p THEN held[t][q] \cup {IF i = NoInode THEN NoRecord ELSE nodes[i].doc}
                      ELSE held[t][q]
  BY DEF ToolTypes
<1>8. Remembered'
  <2> DEFINE new == IF i = NoInode THEN NoRecord ELSE nodes[i].doc
  <2>1. new \in Documents[p] \cup {NoRecord}
    OBVIOUS
  <2> HIDE DEF new
  <2>2. ASSUME NEW t \in Tools, NEW q \in Paths
        PROVE  Document(q)' \in held'[t][q] /\ held'[t][q] \subseteq Documents[q] \cup {NoRecord}
    <3>1. Document(q)' = IF q = p THEN new ELSE Document(q)
      BY <1>6 DEF new
    <3>2. held'[t][q] = IF q = p THEN held[t][q] \cup {new} ELSE held[t][q]
      BY <1>7 DEF new
    <3>3. Document(q) \in held[t][q] /\ held[t][q] \subseteq Documents[q] \cup {NoRecord}
      BY DEF Remembered
    <3>4. QED
      BY <2>1, <3>1, <3>2, <3>3
  <2>3. QED
    BY <2>2 DEF Remembered
<1>9. ToolTypes'
  BY DEF ToolTypes, reading
<1>10. ASSUME NEW t \in Tools PROVE Consistent(t)'
  <2>1. \A q \in Paths : held[t][q] \subseteq held'[t][q]
    BY <1>7
  <2>2. UNCHANGED <<pc, at, fd, opened, buffer>>
    BY DEF reading
  <2>3. CASE pc[t] \in Holding
    <3>1. fd[t] \in Inodes /\ at[t] \in Paths /\ InUse(path', fd[t])
      BY <2>3 DEF Consistent, Holding, InUse, ToolTypes
    <3>2. opened[t].ctime <= inode[fd[t]].ctime /\ inode[fd[t]].ctime <= changes
          /\ opened[t].ctime \in Nat /\ inode[fd[t]].ctime \in Nat
      BY <1>0, <2>3, <3>1 DEF Consistent, Files, ToolTypes
    <3>3. \/ inode'[fd[t]].ctime = changes + 1
          \/ inode'[fd[t]].ctime = inode[fd[t]].ctime /\ inode'[fd[t]].doc = inode[fd[t]].doc
      BY <1>0, <1>3, <3>1
    <3>4. QED
      BY <1>0, <2>1, <2>2, <2>3, <3>1, <3>2, <3>3 DEF Consistent, Holding
  <2>4. CASE pc[t] \notin Holding
    BY <2>2, <2>4 DEF Consistent, Holding
  <2>5. QED
    BY <2>3, <2>4
<1>11. ASSUME NEW t \in Tools PROVE Honest(t)'
  BY <1>7 DEF Honest, Accepts, reading, Paths
<1>12. QED
  BY <1>5, <1>8, <1>9, <1>10, <1>11


\* Whatever bluetoothd and the other writers do, the invariant stays.
LEMMA StoreStep ==
  ASSUME StoreInv, ReplaceRecord \/ RemoveRecord \/ WriteInPlace
  PROVE  StoreInv'
<1> USE DEF StoreInv
<1>0. changes \in Nat /\ NoInode \notin Inodes
  BY StoreAssumption DEF Files, Inodes, NoInode
<1>1. ASSUME NEW p \in Paths, NEW d \in Documents[p], NEW i \in Inodes,
             \A q \in Paths \ {p} : path[q] # NoInode => path[q] # i,
             Change(p, i, [inode EXCEPT ![i] = Written(d)])
      PROVE  StoreInv'
  <2> DEFINE nodes == [inode EXCEPT ![i] = Written(d)]
  <2>1. d \in Known
    BY DEF Known, Paths
  <2>2. /\ nodes \in [Inodes -> [doc: Known, ctime: 0..changes + 1]]
        /\ \A j \in Inodes \ {i} : nodes[j] = inode[j]
        /\ nodes[i].ctime = changes + 1 /\ nodes[i].doc \in Documents[p]
    BY <1>0, <2>1 DEF Files, Written
  <2> HIDE DEF nodes
  <2>3. Change(p, i, nodes)
    BY <1>1 DEF nodes
  <2>4. QED
    BY <1>1, <2>2, <2>3, ChangeStep
<1>2. CASE ReplaceRecord
  <2>1. PICK p \in Paths : \E d \in Documents[p] :
          Change(p, Free, [inode EXCEPT ![Free] = Written(d)])
    BY <1>2 DEF ReplaceRecord
  <2>2. Free \in Inodes /\ \A q \in Paths : path[q] # Free
    BY FreeInode DEF InUse
  <2>3. QED
    BY <1>1, <2>1, <2>2
<1>3. CASE RemoveRecord
  <2>1. PICK p \in Paths : Change(p, NoInode, inode)
    BY <1>3 DEF RemoveRecord
  <2>2. inode \in [Inodes -> [doc: Known, ctime: 0..changes + 1]]
    BY <1>0 DEF Files
  <2>3. QED
    BY <2>1, <2>2, ChangeStep
<1>4. CASE WriteInPlace
  <2>1. PICK p \in Paths : \E d \in Documents[p] :
          path[p] # NoInode /\ Change(p, path[p], [inode EXCEPT ![path[p]] = Written(d)])
    BY <1>4 DEF WriteInPlace
  <2>2. path[p] \in Inodes /\ \A q \in Paths \ {p} : path[q] # path[p]
    BY <2>1 DEF Files, Paths
  <2>3. QED
    BY <1>1, <2>1, <2>2
<1>5. QED
  BY <1>2, <1>3, <1>4

\* Nothing of a record is lost or doubled between the two parts of its reading.
LEMMA PartsMakeWhole ==
  ASSUME NEW doc \in Seq(Lines)
  PROVE  /\ FirstPart(doc) \in Seq(Lines)
         /\ FirstPart(doc) \o SubSeq(doc, Len(FirstPart(doc)) + 1, Len(doc)) = doc
<1>0. Len(doc) \in Nat /\ ChunkLines \in Nat
  BY StoreAssumption
<1>1. CASE Len(doc) <= ChunkLines
  <2>1. SubSeq(doc, Len(doc) + 1, Len(doc)) = <<>>
    BY <1>0
  <2>2. QED
    BY <1>1, <2>1 DEF FirstPart
<1>2. CASE ChunkLines < Len(doc)
  <2>1. FirstPart(doc) = SubSeq(doc, 1, ChunkLines) /\ Len(FirstPart(doc)) = ChunkLines
        /\ FirstPart(doc) \in Seq(Lines)
    BY <1>0, <1>2 DEF FirstPart
  <2>2. SubSeq(doc, 1, ChunkLines) \o SubSeq(doc, ChunkLines + 1, Len(doc)) = doc
    <3>1. /\ 1 \in 1..Len(doc) + 1 /\ ChunkLines \in 1 - 1..Len(doc)
          /\ Len(doc) \in ChunkLines..Len(doc)
      BY <1>0, <1>2
    <3>2. SubSeq(doc, 1, ChunkLines) \o SubSeq(doc, ChunkLines + 1, Len(doc))
            = SubSeq(doc, 1, Len(doc))
      BY <3>1, ConcatAdjacentSubSeq, Zenon
    <3>3. QED
      BY <3>2, SubSeqFull, Zenon
  <2>3. QED
    BY <2>1, <2>2
<1>3. QED
  BY <1>0, <1>1, <1>2

\* A record that is kept is one the path has held.
LEMMA FinishStep ==
  ASSUME StoreInv, NEW t \in Tools, NEW lines \in Seq(Lines) \cup {NoRecord},
         lines \in held[t][at[t]], Finish(t, lines), UNCHANGED held
  PROVE  /\ pc' \in [Tools -> Places] /\ at' \in [Tools -> Paths]
         /\ records' \in [Tools -> [Paths -> Seq(Lines) \cup {NoRecord}]]
         /\ pc'[t] \in {"lstat", "reported", "refused"} /\ Honest(t)'
         /\ \A u \in Tools \ {t} : pc'[u] = pc[u] /\ at'[u] = at[u] /\ records'[u] = records[u]
<1> USE DEF StoreInv
<1>1. records' \in [Tools -> [Paths -> Seq(Lines) \cup {NoRecord}]]
  BY DEF Finish, ToolTypes
<1>2. /\ records'[t] \in [Paths -> Seq(Lines) \cup {NoRecord}]
      /\ records'[t][at[t]] = lines
      /\ \A q \in Paths \ {at[t]} : records'[t][q] = records[t][q]
  BY DEF Finish, ToolTypes
<1>3. /\ pc' \in [Tools -> Places] /\ at' \in [Tools -> Paths]
      /\ \A u \in Tools \ {t} : pc'[u] = pc[u] /\ at'[u] = at[u] /\ records'[u] = records[u]
  BY DEF Finish, ToolTypes, Places, Paths
<1>4. CASE at[t] = "info"
  <2>1. /\ pc'[t] = IF Accepts(t, records'[t]) THEN "reported" ELSE "refused"
        /\ at'[t] = "info"
    BY <1>4 DEF Finish, ToolTypes
  <2>2. t = "inspect" => records'[t]["cache"] = records[t]["cache"]
    BY <1>2, <1>4 DEF Paths
  <2>3. Honest(t)'
    BY <1>2, <1>4, <2>1, <2>2 DEF Honest
  <2>4. QED
    BY <1>1, <1>3, <2>1, <2>3
<1>5. CASE at[t] # "info"
  <2>1. pc'[t] = "lstat" /\ at'[t] = "info" /\ at[t] = "cache" /\ t # "analyze"
    BY <1>5 DEF Finish, ToolTypes, Paths, Honest
  <2>2. Honest(t)'
    BY <1>2, <2>1 DEF Honest
  <2>3. QED
    BY <1>1, <1>3, <2>1, <2>2
<1>6. QED
  BY <1>4, <1>5

\* A refusal keeps everything but the place.
LEMMA RefuseStep ==
  ASSUME StoreInv, NEW t \in Tools, Refuse(t), UNCHANGED held
  PROVE  /\ pc' \in [Tools -> Places] /\ at' \in [Tools -> Paths]
         /\ records' \in [Tools -> [Paths -> Seq(Lines) \cup {NoRecord}]]
         /\ pc'[t] = "refused" /\ Honest(t)'
         /\ \A u \in Tools \ {t} : pc'[u] = pc[u] /\ at'[u] = at[u] /\ records'[u] = records[u]
BY DEF StoreInv, Refuse, ToolTypes, Places, Honest

\* A step of a tool
LEMMA ReadStep ==
  ASSUME StoreInv, NEW t \in Tools, Read(t)
  PROVE  StoreInv'
<1> USE DEF StoreInv
<1>0. UNCHANGED <<store, held>>
  BY DEF Read, Lstat, Open, ReadFirst, ReadSecond, Close
<1>1. Files' /\ Remembered' /\ held' \in [Tools -> [Paths -> SUBSET (Known \cup {NoRecord})]]
  BY <1>0 DEF store, Files, Remembered, Document, ToolTypes
<1>a. \A i \in Inodes : inode[i].doc \in Seq(Lines) /\ inode[i].ctime \in Nat
  <2>1. Known \subseteq Seq(Lines)
    <3>1. <<>> \in Seq(Lines)
      BY EmptySeq
    <3>2. QED
      BY <3>1, StoreAssumption, Zenon DEF Known
  <2>2. \A i \in Inodes : inode[i] \in [doc: Known, ctime: 0..changes]
    BY DEF Files
  <2>3. QED
    BY <2>1, <2>2
<1>b. fd[t] \in Inodes \cup {NoInode} /\ at[t] \in Paths /\ buffer[t] \in Seq(Lines)
  BY DEF ToolTypes
<1>c. ASSUME ToolTypes',
             \A u \in Tools \ {t} :
               /\ pc'[u] = pc[u] /\ at'[u] = at[u] /\ records'[u] = records[u]
               /\ fd'[u] = fd[u] /\ opened'[u] = opened[u] /\ buffer'[u] = buffer[u],
             Consistent(t)', Honest(t)'
      PROVE  StoreInv'
  <2>1. ASSUME NEW u \in Tools \ {t} PROVE Consistent(u)' /\ Honest(u)'
    BY <1>0, <1>c, <2>1 DEF Consistent, Honest, store
  <2>2. QED
    BY <1>1, <1>c, <2>1
<1>2. CASE Lstat(t)
  <2>0. pc[t] = "lstat" /\ UNCHANGED <<opened, buffer>> /\ buffer[t] = <<>>
    BY <1>2 DEF Lstat, Consistent
  <2>1. CASE path[at[t]] = NoInode /\ Finish(t, NoRecord) /\ UNCHANGED fd
    <3>1. NoRecord \in held[t][at[t]]
      BY <1>b, <2>1 DEF Remembered, Document
    <3>2. pc'[t] \in {"lstat", "reported", "refused"} /\ Honest(t)' /\ ToolTypes'
          /\ \A u \in Tools \ {t} : pc'[u] = pc[u] /\ at'[u] = at[u] /\ records'[u] = records[u]
      BY <1>0, <1>1, <2>0, <2>1, <3>1, FinishStep DEF ToolTypes
    <3>3. Consistent(t)'
      BY <2>0, <3>2 DEF Consistent, Holding
    <3>4. QED
      BY <1>c, <2>0, <2>1, <3>2, <3>3
  <2>2. CASE path[at[t]] # NoInode /\ fd' = [fd EXCEPT ![t] = path[at[t]]]
             /\ pc' = [pc EXCEPT ![t] = "open"] /\ UNCHANGED <<at, records>>
    <3>1. path[at[t]] \in Inodes
      BY <1>b, <2>2 DEF Files
    <3>2. ToolTypes'
      BY <1>1, <2>0, <2>2, <3>1 DEF ToolTypes, Places
    <3>3. pc'[t] = "open" /\ fd'[t] \in Inodes
      BY <2>2, <3>1 DEF ToolTypes
    <3>4. Consistent(t)' /\ Honest(t)'
      BY <1>0, <2>0, <2>2, <3>3 DEF Consistent, Honest, Holding
    <3>5. QED
      BY <1>c, <2>0, <2>2, <3>2, <3>4 DEF ToolTypes
  <2>3. CASE Refuse(t) /\ UNCHANGED fd
    <3>1. pc'[t] = "refused" /\ Honest(t)' /\ ToolTypes'
          /\ \A u \in Tools \ {t} : pc'[u] = pc[u] /\ at'[u] = at[u] /\ records'[u] = records[u]
      BY <1>0, <1>1, <2>0, <2>3, RefuseStep DEF ToolTypes
    <3>2. Consistent(t)'
      BY <2>0, <3>1 DEF Consistent, Holding
    <3>3. QED
      BY <1>c, <2>0, <2>3, <3>1, <3>2
  <2>4. QED
    BY <1>2, <2>1, <2>2, <2>3 DEF Lstat
<1>3. CASE Open(t)
  <2>0. pc[t] = "open" /\ UNCHANGED <<fd, buffer>> /\ buffer[t] = <<>> /\ fd[t] \in Inodes
    BY <1>3 DEF Open, Consistent
  <2>1. CASE Refuse(t) /\ UNCHANGED opened
    <3>1. pc'[t] = "refused" /\ Honest(t)' /\ ToolTypes'
          /\ \A u \in Tools \ {t} : pc'[u] = pc[u] /\ at'[u] = at[u] /\ records'[u] = records[u]
      BY <1>0, <1>1, <2>0, <2>1, RefuseStep DEF ToolTypes
    <3>2. Consistent(t)'
      BY <2>0, <3>1 DEF Consistent, Holding
    <3>3. QED
      BY <1>c, <2>0, <2>1, <3>1, <3>2
  <2>2. CASE path[at[t]] = fd[t]
    <3>1. /\ opened' = [opened EXCEPT ![t] = [size |-> Len(inode[fd[t]].doc),
                                              ctime |-> inode[fd[t]].ctime]]
          /\ pc' = [pc EXCEPT ![t] = "first"] /\ UNCHANGED <<at, records>>
      BY <1>3, <2>2 DEF Open
    <3>2. Len(inode[fd[t]].doc) \in Nat /\ inode[fd[t]].ctime \in Nat
      BY <1>a, <2>0
    <3>3. ToolTypes'
      BY <1>1, <2>0, <3>1, <3>2 DEF ToolTypes, Places
    <3>4. pc'[t] = "first" /\ opened'[t].ctime = inode[fd[t]].ctime
      BY <3>1 DEF ToolTypes
    <3>5. inode[fd[t]].doc \in held[t][at[t]]
      BY <1>b, <2>0, <2>2 DEF Remembered, Document, NoInode, Inodes
    <3>6. Consistent(t)'
      BY <1>0, <2>0, <3>1, <3>2, <3>4, <3>5 DEF Consistent, Holding, store
    <3>7. Honest(t)'
      BY <1>0, <2>0, <3>1, <3>4 DEF Honest
    <3>8. QED
      BY <1>c, <2>0, <3>1, <3>3, <3>6, <3>7 DEF ToolTypes
  <2>3. QED
    BY <1>3, <2>1, <2>2 DEF Open
<1>4. CASE ReadFirst(t)
  <2>1. /\ pc[t] = "first" /\ pc' = [pc EXCEPT ![t] = "second"]
        /\ UNCHANGED <<at, fd, opened, records>>
        /\ buffer' = [buffer EXCEPT ![t] = FirstPart(inode[fd[t]].doc)]
    BY <1>4 DEF ReadFirst, FirstPart
  <2>2. fd[t] \in Inodes /\ FirstPart(inode[fd[t]].doc) \in Seq(Lines)
    BY <1>a, <2>1, PartsMakeWhole DEF Consistent, Holding
  <2>3. ToolTypes'
    BY <1>1, <2>1, <2>2 DEF ToolTypes, Places
  <2>4. pc'[t] = "second" /\ buffer'[t] = FirstPart(inode[fd[t]].doc)
    BY <2>1 DEF ToolTypes
  <2>5. Consistent(t)'
    BY <1>0, <2>1, <2>2, <2>4 DEF Consistent, Holding, store
  <2>6. Honest(t)'
    BY <1>0, <2>1, <2>4 DEF Honest
  <2>7. QED
    BY <1>c, <2>1, <2>3, <2>5, <2>6 DEF ToolTypes
<1>5. CASE ReadSecond(t)
  <2> DEFINE doc == inode[fd[t]].doc
             all == buffer[t] \o SubSeq(doc, Len(buffer[t]) + 1, Len(doc))
  <2>1. /\ pc[t] = "second" /\ pc' = [pc EXCEPT ![t] = "close"]
        /\ UNCHANGED <<at, fd, opened, records>>
        /\ buffer' = [buffer EXCEPT ![t] = all]
    BY <1>5 DEF ReadSecond
  <2>2. fd[t] \in Inodes /\ doc \in Seq(Lines)
    BY <1>a, <2>1 DEF Consistent, Holding
  <2>3. buffer[t] = FirstPart(doc) => all = doc
    BY <2>2, PartsMakeWhole
  <2>4. all \in Seq(Lines)
    <3> HIDE DEF doc
    <3>1. SubSeq(doc, Len(buffer[t]) + 1, Len(doc)) \in Seq(Lines)
      BY <1>b, <2>2
    <3>2. QED
      BY <1>b, <3>1
  <2> HIDE DEF all
  <2>5. ToolTypes'
    BY <1>1, <2>1, <2>4 DEF ToolTypes, Places
  <2>6. pc'[t] = "close" /\ buffer'[t] = all
    BY <2>1 DEF ToolTypes
  <2>7. Consistent(t)'
    BY <1>0, <2>1, <2>2, <2>3, <2>6 DEF Consistent, Holding, store
  <2>8. Honest(t)'
    BY <1>0, <2>1, <2>6 DEF Honest
  <2>9. QED
    BY <1>c, <2>1, <2>5, <2>7, <2>8 DEF ToolTypes
<1>6. CASE Close(t)
  <2>0. /\ pc[t] = "close" /\ fd[t] \in Inodes
        /\ fd' = [fd EXCEPT ![t] = NoInode] /\ buffer' = [buffer EXCEPT ![t] = <<>>]
        /\ opened' = [opened EXCEPT ![t] = [size |-> 0, ctime |-> 0]]
    BY <1>6 DEF Close, Consistent, Holding
  <2>1. /\ fd' \in [Tools -> Inodes \cup {NoInode}] /\ buffer' \in [Tools -> Seq(Lines)]
        /\ opened' \in [Tools -> [size: Nat, ctime: Nat]] /\ buffer'[t] = <<>>
        /\ \A u \in Tools \ {t} : fd'[u] = fd[u] /\ opened'[u] = opened[u] /\ buffer'[u] = buffer[u]
    BY <2>0 DEF ToolTypes
  <2>2. CASE opened[t] = [size |-> Len(inode[fd[t]].doc), ctime |-> inode[fd[t]].ctime]
             /\ Finish(t, buffer[t])
    <3>1. buffer[t] \in held[t][at[t]]
      BY <2>0, <2>2 DEF Consistent, Holding
    <3>2. pc'[t] \in {"lstat", "reported", "refused"} /\ Honest(t)' /\ ToolTypes'
          /\ \A u \in Tools \ {t} : pc'[u] = pc[u] /\ at'[u] = at[u] /\ records'[u] = records[u]
      BY <1>0, <1>1, <1>b, <2>1, <2>2, <3>1, FinishStep DEF ToolTypes
    <3>3. Consistent(t)'
      BY <2>1, <3>2 DEF Consistent, Holding
    <3>4. QED
      BY <1>c, <2>1, <3>2, <3>3
  <2>3. CASE Refuse(t)
    <3>1. pc'[t] = "refused" /\ Honest(t)' /\ ToolTypes'
          /\ \A u \in Tools \ {t} : pc'[u] = pc[u] /\ at'[u] = at[u] /\ records'[u] = records[u]
      BY <1>0, <1>1, <2>1, <2>3, RefuseStep DEF ToolTypes
    <3>2. Consistent(t)'
      BY <2>1, <3>1 DEF Consistent, Holding
    <3>3. QED
      BY <1>c, <2>1, <3>1, <3>2
  <2>4. QED
    BY <1>6, <2>2, <2>3 DEF Close
<1>7. QED
  BY <1>2, <1>3, <1>4, <1>5, <1>6 DEF Read

\* Every step keeps the invariant.
LEMMA NextInv == StoreInv /\ [Next]_vars => StoreInv'
<1> SUFFICES ASSUME StoreInv, [Next]_vars PROVE StoreInv'
  OBVIOUS
<1>1. CASE Next
  BY <1>1, ReadStep, StoreStep DEF Next
<1>2. CASE UNCHANGED vars
  BY <1>2 DEF StoreInv, Files, ToolTypes, Remembered, Document, Consistent, Honest,
     vars, store, reading
<1>3. QED
  BY <1>1, <1>2

\* The inductive invariant is one of the specification.
LEMMA SpecInv == Spec => []StoreInv
BY InitInv, NextInv, PTL DEF Spec

-----------------------------------------------------------------------------
(* The properties *)

\* Every variable has its type, and what a path links is a record of that path.
THEOREM TypeCorrect == Spec => []TypeOK
<1>1. StoreInv => TypeOK
  BY DEF StoreInv, Files, ToolTypes, Remembered, Consistent, TypeOK, Places, Document
<1>2. QED
  BY <1>1, SpecInv, PTL

\* Whatever is renamed over, removed or written under a tool that reads, in records
\* of any length and content, each record it reports is one the path held.
THEOREM ReportsAreOfOneMoment == Spec => []ReportsAreWhole
<1>1. StoreInv => ReportsAreWhole
  BY DEF StoreInv, Honest, ReportsAreWhole, Tools
<1>2. QED
  BY <1>1, SpecInv, PTL

\* From the same info record, of any length and content, the keys the analysis
\* reports are keys of a target that the inspection reports as bonded.
THEOREM KeysAreOfABond == Spec => []KeysImplyBonded
<1>1. ASSUME StoreInv, \A t \in Tools : pc[t] = "reported",
             records["inspect"]["info"] = records["analyze"]["info"]
      PROVE  /\ Inspected(records["inspect"]["info"]).bonded = "yes"
             /\ Analyzed(records["analyze"]["info"]).classes
                  \subseteq Inspected(records["inspect"]["info"]).classes
  <2> DEFINE doc == records["analyze"]["info"]
             a == Parsed(doc, TRUE)
             b == Parsed(doc, FALSE)
  <2>1. doc \in Seq(Lines) \cup {NoRecord} /\ Analyzed(doc).ok
    BY <1>1 DEF StoreInv, ToolTypes, Honest, Accepts, Tools, Paths
  <2>2. doc # NoRecord /\ WithKey(a) # {}
    BY <2>1 DEF Analyzed
  <2>3. Agree(a, b)
    BY <2>1, <2>2, ParsersAgree
  <2> HIDE DEF doc, a, b
  <2>4. WithKey(a) \subseteq WithKey(b) /\ Recognized(b) # {}
    BY <2>2, <2>3 DEF Agree, WithKey, Recognized
  <2>5. /\ Inspected(doc).bonded = "yes"
        /\ Inspected(doc).classes = {Class[x] : x \in WithKey(b)}
        /\ Analyzed(doc).classes = {Class[x] : x \in WithKey(a)}
    BY <2>2, <2>4 DEF Inspected, Analyzed, a, b
  <2>6. QED
    BY <1>1, <2>4, <2>5 DEF doc
<1>2. StoreInv => KeysImplyBonded
  BY <1>1 DEF KeysImplyBonded
<1>3. QED
  BY <1>2, SpecInv, PTL
=============================================================================
