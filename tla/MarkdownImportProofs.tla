------------------------ MODULE MarkdownImportProofs ------------------------
(***************************************************************************)
(* What an import of Markdown files guarantees for every zip, any number   *)
(* of entries and of failing calls, beside users who make documents, write *)
(* and trash.                                                              *)
(***************************************************************************)
EXTENDS MarkdownImport, SequenceTheorems, FiniteSetTheorems, WellFoundedInduction, TLAPS

-----------------------------------------------------------------------------
(* The documents: what the steps do to them *)

\* What a document says of where it is: its parent is made before it, is the last of
\* those above it, and is alive if it is, unless it is adrift.
Hangs(d) ==
    \E p \in 1 .. d - 1 :
        /\ docs[d].above = Append(docs[p].above, p)
        /\ docs[d].alive /\ ~ docs[d].adrift => docs[p].alive /\ ~ docs[p].adrift

\* The root is the first document and the only one without a parent.
Tree ==
    /\ docs \in Seq(Document)
    /\ \A d \in Ids :
          /\ d = RootId => docs[d].above = <<>> /\ ~ docs[d].adrift
          /\ d # RootId => Hangs(d)
          /\ \A i \in DOMAIN docs[d].above : docs[d].above[i] \in Ids

\* What a step may do to the documents.
Starts == docs = <<>> /\ docs' = <<Root>>
Adds(p, s) == p \in Ids /\ s \in Slugs /\ Insert(p, s)
Writes(d, c) == d \in Ids /\ Write(d, c)
Trashes == \E d : Trash(d)

\* No document goes, and none moves.
Grows ==
    /\ Ids \subseteq Ids'
    /\ \A d \in Ids : docs'[d].above = docs[d].above /\ docs'[d].slug = docs[d].slug

LEMMA IdsOf == ASSUME docs \in Seq(Document) PROVE Ids = 1 .. Len(docs) /\ Len(docs) \in Nat
  BY DEF Ids

\* A document's fields.
LEMMA RowIs ==
  ASSUME Tree, NEW d \in Ids
  PROVE  /\ d \in 1 .. Len(docs) /\ Len(docs) \in Nat
         /\ docs[d] \in Document
         /\ docs[d].above \in Seq(Nat) /\ docs[d].slug \in Slugs /\ docs[d].alive \in BOOLEAN
         /\ docs[d].texts \in Seq(Nat) /\ docs[d].adrift \in BOOLEAN
         /\ \A i \in DOMAIN docs[d].above : docs[d].above[i] \in Ids
<1>1. d \in 1 .. Len(docs) /\ Len(docs) \in Nat
  BY IdsOf DEF Tree
<1>2. docs[d] \in Document
  BY <1>1, ElementOfSeq DEF Tree
<1>. QED
  BY <1>1, <1>2 DEF Document, Tree

\* Parent(d) is the one that Hangs(d) speaks of.
LEMMA ParentIs ==
  ASSUME Tree, NEW d \in Ids
  PROVE  /\ d = RootId => Parent(d) = 0
         /\ d # RootId => /\ Parent(d) \in 1 .. d - 1 /\ Parent(d) \in Ids
                          /\ docs[d].above = Append(docs[Parent(d)].above, Parent(d))
                          /\ docs[d].alive /\ ~ docs[d].adrift =>
                                docs[Parent(d)].alive /\ ~ docs[Parent(d)].adrift
<1>1. d \in 1 .. Len(docs) /\ Len(docs) \in Nat
  BY RowIs
<1>2. CASE d = RootId
  BY <1>2 DEF Tree, Parent, RootId
<1>3. CASE d # RootId
  <2>1. PICK p \in 1 .. d - 1 :
          /\ docs[d].above = Append(docs[p].above, p)
          /\ docs[d].alive /\ ~ docs[d].adrift => docs[p].alive /\ ~ docs[p].adrift
    BY <1>3 DEF Tree, Hangs
  <2>2. p \in Ids
    BY <1>1, IdsOf DEF Tree
  <2>3. docs[p].above \in Seq(Nat) /\ p \in Nat
    BY <2>2, RowIs
  <2>4. /\ Append(docs[p].above, p) # <<>>
        /\ Append(docs[p].above, p)[Len(Append(docs[p].above, p))] = p
    BY <2>3, AppendProperties
  <2>5. Parent(d) = p
    BY <2>1, <2>4 DEF Parent
  <2>. QED
    BY <1>3, <2>1, <2>2, <2>5
<1>. QED
  BY <1>2, <1>3

LEMMA StartsKeep ==
  ASSUME Starts
  PROVE  Tree' /\ Grows /\ Ids' = {RootId} /\ docs'[RootId] = Root
<1>1. Root \in Document
  BY DEF Root, Document, Slugs
<1>2. docs' = <<Root>> /\ Ids = {}
  BY DEF Starts, Ids
<1>3. docs' \in Seq(Document) /\ Ids' = {1} /\ docs'[1] = Root
  BY <1>1, <1>2 DEF Ids
<1>4. Root.above = <<>> /\ Root.adrift = FALSE
  BY DEF Root
<1>. QED
  BY <1>2, <1>3, <1>4 DEF Tree, Grows, RootId

LEMMA AddsKeep ==
  ASSUME Tree, NEW p, NEW s, Adds(p, s)
  PROVE  /\ Tree' /\ Grows
         /\ Ids' = Ids \cup {Len(docs) + 1} /\ Len(docs) + 1 \notin Ids
         /\ \A d \in Ids : docs'[d] = docs[d]
         /\ docs'[Len(docs) + 1] = NewDoc(p, s)
<1>. DEFINE e == NewDoc(p, s)
<1>. PICK new : new = Len(docs) + 1
  OBVIOUS
<1>1. Ids = 1 .. Len(docs) /\ Len(docs) \in Nat /\ p \in Ids
  BY IdsOf DEF Tree, Adds
<1>2. docs[p].above \in Seq(Nat) /\ docs[p].alive \in BOOLEAN /\ docs[p].adrift \in BOOLEAN
      /\ \A i \in DOMAIN docs[p].above : docs[p].above[i] \in Ids
  BY <1>1, RowIs
<1>3. Append(docs[p].above, p) \in Seq(Nat)
  BY <1>1, <1>2
<1>4. e \in Document
  BY <1>2, <1>3 DEF Adds, NewDoc, Document
<1>5. /\ e.above = Append(docs[p].above, p) /\ e.alive = TRUE
      /\ e.adrift <=> ~ docs[p].alive \/ docs[p].adrift
  BY DEF NewDoc
<1>6. docs' = Append(docs, e)
  BY DEF Adds, Insert
<1>. HIDE DEF e
<1>7. /\ docs' \in Seq(Document) /\ Len(docs') = Len(docs) + 1
      /\ \A d \in 1 .. Len(docs) : docs'[d] = docs[d]
      /\ docs'[new] = e
  BY <1>4, <1>6, AppendProperties DEF Tree
<1>8. Ids' = 1 .. Len(docs) + 1
  BY <1>7 DEF Ids
<1>9. ASSUME NEW d \in Ids
      PROVE  /\ d = RootId => docs'[d].above = <<>> /\ ~ docs'[d].adrift
             /\ d # RootId => Hangs(d)'
             /\ \A i \in DOMAIN docs'[d].above : docs'[d].above[i] \in Ids'
  <2>1. docs'[d] = docs[d]
    BY <1>1, <1>7
  <2>2. d # RootId => Hangs(d)'
    <3>1. SUFFICES ASSUME d # RootId PROVE Hangs(d)'
      OBVIOUS
    <3>2. PICK q \in 1 .. d - 1 :
            /\ docs[d].above = Append(docs[q].above, q)
            /\ docs[d].alive /\ ~ docs[d].adrift => docs[q].alive /\ ~ docs[q].adrift
      BY <3>1 DEF Tree, Hangs
    <3>3. docs'[q] = docs[q]
      BY <1>1, <1>7
    <3>. QED
      BY <2>1, <3>2, <3>3 DEF Hangs
  <2>3. /\ d = RootId => docs[d].above = <<>> /\ ~ docs[d].adrift
        /\ \A i \in DOMAIN docs[d].above : docs[d].above[i] \in Ids
    BY DEF Tree
  <2>. QED
    BY <1>1, <1>8, <2>1, <2>2, <2>3
<1>10. new # RootId /\ Hangs(new)' /\ \A i \in DOMAIN docs'[new].above : docs'[new].above[i] \in Ids'
  <2>1. p \in 1 .. new - 1 /\ docs'[p] = docs[p]
    BY <1>1, <1>7
  <2>2. new # RootId
    BY <1>1 DEF RootId
  <2>3. Hangs(new)'
    <3>1. docs'[new].above = Append(docs'[p].above, p)
      BY <1>5, <1>7, <2>1
    <3>2. docs'[new].alive /\ ~ docs'[new].adrift => docs'[p].alive /\ ~ docs'[p].adrift
      BY <1>2, <1>5, <1>7, <2>1
    <3>. QED
      BY <2>1, <3>1, <3>2 DEF Hangs
  <2>4. ASSUME NEW i \in DOMAIN Append(docs[p].above, p)
        PROVE  Append(docs[p].above, p)[i] \in Ids'
    <3>1. i \in 1 .. Len(docs[p].above) + 1
      BY <1>1, <1>2, AppendProperties
    <3>2. CASE i = Len(docs[p].above) + 1
      BY <1>1, <1>2, <1>8, <3>2, AppendProperties
    <3>3. CASE i \in 1 .. Len(docs[p].above)
      <4>1. Append(docs[p].above, p)[i] = docs[p].above[i]
        BY <1>1, <1>2, <3>3, AppendProperties
      <4>. QED
        BY <1>1, <1>2, <1>8, <3>3, <4>1
    <3>. QED
      BY <1>2, <3>1, <3>2, <3>3
  <2>. QED
    BY <1>5, <1>7, <2>2, <2>3, <2>4
<1>11. Tree'
  <2>1. \A d \in Ids' : d \in Ids \/ d = new
    BY <1>1, <1>8
  <2>2. ASSUME NEW d \in Ids'
        PROVE  /\ d = RootId => docs'[d].above = <<>> /\ ~ docs'[d].adrift
               /\ d # RootId => Hangs(d)'
               /\ \A i \in DOMAIN docs'[d].above : docs'[d].above[i] \in Ids'
    <3>1. CASE d \in Ids
      BY <1>9, <3>1
    <3>2. CASE d = new
      BY <1>10, <3>2
    <3>. QED
      BY <2>1, <3>1, <3>2
  <2>. QED
    BY <1>7, <2>2 DEF Tree
<1>. QED
  BY <1>1, <1>7, <1>8, <1>11 DEF Grows, e

\* Rows that stay where they are, and are alive only if they were and, unless they
\* are adrift, what is above them still is.
LEMMA SameRowsKeep ==
  ASSUME Tree, docs' \in Seq(Document), Ids' = Ids,
         \A x \in Ids : /\ docs'[x].above = docs[x].above /\ docs'[x].slug = docs[x].slug
                        /\ docs'[x].adrift = docs[x].adrift
                        /\ docs'[x].alive => docs[x].alive
                        /\ docs'[x].alive /\ ~ docs[x].adrift /\ x # RootId => docs'[Parent(x)].alive
  PROVE  Tree' /\ Grows
<1>1. ASSUME NEW d \in Ids
      PROVE  /\ d = RootId => docs'[d].above = <<>> /\ ~ docs'[d].adrift
             /\ d # RootId => Hangs(d)'
             /\ \A i \in DOMAIN docs'[d].above : docs'[d].above[i] \in Ids'
  <2>1. d # RootId => Hangs(d)'
    <3>1. SUFFICES ASSUME d # RootId PROVE Hangs(d)'
      OBVIOUS
    <3>2. PICK p \in 1 .. d - 1 : p = Parent(d)
      BY <3>1, ParentIs
    <3>3. /\ p \in Ids /\ docs[d].above = Append(docs[p].above, p)
          /\ docs[d].alive /\ ~ docs[d].adrift => docs[p].alive /\ ~ docs[p].adrift
      BY <3>1, <3>2, ParentIs
    <3>. QED
      BY <3>1, <3>2, <3>3 DEF Hangs
  <2>. QED
    BY <2>1 DEF Tree
<1>. QED
  BY <1>1 DEF Tree, Grows

LEMMA WritesKeep ==
  ASSUME Tree, NEW d, NEW c \in Nat, Writes(d, c)
  PROVE  /\ Tree' /\ Grows /\ Ids' = Ids /\ d \in Ids
         /\ docs'[d].texts = Append(docs[d].texts, c)
         /\ \A x \in Ids : docs'[x].alive = docs[x].alive /\ docs'[x].adrift = docs[x].adrift
         /\ \A x \in Ids : x # d => docs'[x] = docs[x]
<1>1. Ids = 1 .. Len(docs) /\ Len(docs) \in Nat /\ d \in Ids
  BY IdsOf DEF Tree, Writes
<1>. DEFINE e == [docs[d] EXCEPT !.texts = Append(@, c)]
<1>2. /\ e \in Document /\ e.above = docs[d].above /\ e.slug = docs[d].slug
      /\ e.alive = docs[d].alive /\ e.adrift = docs[d].adrift
      /\ e.texts = Append(docs[d].texts, c)
  <2>1. docs[d] \in Document /\ Append(docs[d].texts, c) \in Seq(Nat)
    BY <1>1, RowIs, AppendProperties
  <2>. QED
    BY <2>1 DEF Document
<1>3. docs' = [docs EXCEPT ![d] = e]
  BY DEF Writes, Write
<1>. HIDE DEF e
<1>4. /\ docs' \in Seq(Document) /\ Len(docs') = Len(docs)
      /\ \A x \in 1 .. Len(docs) : docs'[x] = IF x = d THEN e ELSE docs[x]
  BY <1>1, <1>2, <1>3, ExceptSeq DEF Tree
<1>5. Ids' = Ids
  BY <1>1, <1>4 DEF Ids
<1>6. ASSUME NEW x \in Ids
      PROVE  /\ docs'[x].above = docs[x].above /\ docs'[x].slug = docs[x].slug
             /\ docs'[x].adrift = docs[x].adrift /\ docs'[x].alive = docs[x].alive
  BY <1>1, <1>2, <1>4
<1>7. ASSUME NEW x \in Ids, docs'[x].alive, ~ docs[x].adrift, x # RootId
      PROVE  docs'[Parent(x)].alive
  BY <1>6, <1>7, ParentIs
<1>8. Tree' /\ Grows
  BY <1>4, <1>5, <1>6, <1>7, SameRowsKeep
<1>. QED
  BY <1>1, <1>2, <1>4, <1>5, <1>6, <1>8

\* A subtree holds alive documents only, its top if that is alive, and with a
\* document those below it.
LEMMA SubtreeIs ==
  ASSUME Tree, NEW d
  PROVE  /\ \A x \in Subtree(d) : x \in Ids /\ docs[x].alive
         /\ d \in Ids /\ docs[d].alive => d \in Subtree(d)
         /\ \A x \in Ids : docs[x].alive /\ x # RootId /\ Parent(x) \in Subtree(d) => x \in Subtree(d)
<1>1. ASSUME NEW x \in Ids, docs[x].alive, x # RootId, Parent(x) \in Subtree(d)
      PROVE  x \in Subtree(d)
  <2>1. PICK p : p = Parent(x)
    OBVIOUS
  <2>2. /\ p \in Ids /\ docs[x].above = Append(docs[p].above, p)
        /\ docs[p].above \in Seq(Nat) /\ p \in Nat /\ docs[p].alive
    <3>1. p \in Ids /\ docs[x].above = Append(docs[p].above, p)
      BY <1>1, <2>1, ParentIs
    <3>. QED
      BY <1>1, <2>1, <3>1, RowIs DEF Subtree
  <2>3. PICK m \in Nat : m = Len(docs[p].above)
    BY <2>2
  <2>4. /\ DOMAIN docs[x].above = 1 .. m + 1 /\ Len(docs[x].above) = m + 1 /\ docs[x].above[m + 1] = p
        /\ \A j \in 1 .. m : docs[x].above[j] = docs[p].above[j]
        /\ DOMAIN docs[p].above = 1 .. m
    BY <2>2, <2>3, AppendProperties
  <2>5. \E k \in 1 .. m + 1 : docs[x].above[k] = d /\ \A j \in k .. m + 1 : docs[docs[x].above[j]].alive
    <3>1. CASE p = d
      BY <2>2, <2>4, <3>1
    <3>2. CASE p # d
      <4>1. PICK k \in 1 .. m : docs[p].above[k] = d /\ \A j \in k .. m : docs[docs[p].above[j]].alive
        BY <1>1, <2>1, <2>3, <2>4, <3>2 DEF Subtree
      <4>2. docs[x].above[k] = d /\ \A j \in k .. m + 1 : docs[docs[x].above[j]].alive
        <5>1. ASSUME NEW j \in k .. m + 1
              PROVE  docs[docs[x].above[j]].alive
          <6>1. CASE j = m + 1
            BY <2>2, <2>4, <6>1
          <6>2. CASE j \in k .. m
            BY <2>4, <4>1, <6>2
          <6>. QED
            BY <6>1, <6>2
        <5>. QED
          BY <2>4, <4>1, <5>1
      <4>. QED
        BY <4>2
    <3>. QED
      BY <3>1, <3>2
  <2>. QED
    BY <1>1, <2>4, <2>5 DEF Subtree
<1>. QED
  BY <1>1 DEF Subtree

LEMMA TrashKeeps ==
  ASSUME Tree, NEW d, Trash(d)
  PROVE  /\ Tree' /\ Grows /\ Ids' = Ids
         /\ \A x \in Ids : /\ docs'[x].texts = docs[x].texts /\ docs'[x].adrift = docs[x].adrift
                           /\ docs'[x].alive <=> docs[x].alive /\ x \notin Subtree(d)
<1>. DEFINE Row(x) == IF x \in Subtree(d) THEN [docs[x] EXCEPT !.alive = FALSE] ELSE docs[x]
<1>1. Ids = 1 .. Len(docs) /\ Len(docs) \in Nat
  BY IdsOf DEF Tree
<1>2. ASSUME NEW x \in Ids
      PROVE  /\ Row(x) \in Document
             /\ Row(x).above = docs[x].above /\ Row(x).slug = docs[x].slug
             /\ Row(x).texts = docs[x].texts /\ Row(x).adrift = docs[x].adrift
             /\ Row(x).alive <=> docs[x].alive /\ x \notin Subtree(d)
  <2>1. docs[x] \in Document
    BY RowIs
  <2>. QED
    BY <2>1 DEF Document
<1>3. docs' = [x \in 1 .. Len(docs) |-> Row(x)]
  BY <1>1 DEF Trash
<1>. HIDE DEF Row
<1>4. docs' \in [1 .. Len(docs) -> Document]
  BY <1>1, <1>2, <1>3
<1>5. docs' \in Seq(Document) /\ Ids' = Ids
  <2>1. docs' \in Seq(Document)
    BY <1>1, <1>4, SeqDef
  <2>2. DOMAIN docs' = 1 .. Len(docs)
    BY <1>4
  <2>. QED
    BY <1>1, <2>1, <2>2 DEF Ids
<1>6. ASSUME NEW x \in Ids
      PROVE  /\ docs'[x].above = docs[x].above /\ docs'[x].slug = docs[x].slug
             /\ docs'[x].texts = docs[x].texts /\ docs'[x].adrift = docs[x].adrift
             /\ docs'[x].alive <=> docs[x].alive /\ x \notin Subtree(d)
  BY <1>1, <1>2, <1>3
<1>7. ASSUME NEW x \in Ids, docs'[x].alive, ~ docs[x].adrift, x # RootId
      PROVE  docs'[Parent(x)].alive
  <2>1. docs[x].alive /\ x \notin Subtree(d)
    BY <1>6, <1>7
  <2>2. Parent(x) \in Ids /\ docs[Parent(x)].alive
    BY <1>7, <2>1, ParentIs
  <2>3. Parent(x) \notin Subtree(d)
    BY <1>7, <2>1, SubtreeIs
  <2>. QED
    BY <1>6, <2>2, <2>3
<1>8. Tree' /\ Grows
  BY <1>5, <1>6, <1>7, SameRowsKeep
<1>. QED
  BY <1>5, <1>6, <1>8

\* Every set of numbers has a first.
LEMMA FirstOf ==
  ASSUME NEW T \in SUBSET Nat, T # {}
  PROVE  \E m \in T : \A k \in T : m <= k
<1>. DEFINE Less == OpToRel(<, Nat)
<1>1. \A k, m \in Nat : k < m => <<k, m>> \in Less
  BY DEF OpToRel
<1>2. IsWellFoundedOn(Less, Nat)
  BY NatLessThanWellFounded
<1>. HIDE DEF Less
<1>3. PICK m \in T : \A k \in T : ~ (<<k, m>> \in Less)
  BY <1>2, WFMin
<1>4. ASSUME NEW k \in T
      PROVE  m <= k
  <2>1. ~ (k < m)
    BY <1>1, <1>3
  <2>. QED
    BY <2>1
<1>. QED
  BY <1>4

\* The bin takes the root with everything that is still alive and not adrift.
LEMMA TrashOfRoot ==
  ASSUME Tree, Trash(RootId)
  PROVE  \A x \in Ids' : docs'[x].alive => docs'[x].adrift
<1>. DEFINE T == {x \in Ids : docs[x].alive /\ ~ docs[x].adrift /\ x \notin Subtree(RootId)}
<1>1. Ids = 1 .. Len(docs) /\ Len(docs) \in Nat
  BY IdsOf DEF Tree
<1>2. T = {}
  <2>1. SUFFICES ASSUME T # {} PROVE FALSE
    OBVIOUS
  <2>2. T \in SUBSET Nat
    BY <1>1
  <2>3. PICK m \in T : \A k \in T : m <= k
    BY <2>1, <2>2, FirstOf
  <2>4. m # RootId
    BY SubtreeIs
  <2>5. Parent(m) \in Ids /\ Parent(m) < m /\ docs[Parent(m)].alive /\ ~ docs[Parent(m)].adrift
    BY <1>1, <2>4, ParentIs
  <2>6. Parent(m) \in Subtree(RootId)
    BY <1>1, <2>3, <2>5
  <2>. QED
    BY <2>4, <2>6, SubtreeIs
<1>. QED
  BY <1>2, TrashKeeps

-----------------------------------------------------------------------------
(* The texts *)

\* What is no version of a document.
Quiet ==
    \/ UNCHANGED docs
    \/ Starts
    \/ \E p, s : Adds(p, s)
    \/ Trashes

LEMMA QuietKeeps ==
  ASSUME Tree, Quiet
  PROVE  /\ Tree' /\ Grows
         /\ \A x \in Ids' : \A e : Holds(x, e)' <=> x \in Ids /\ Holds(x, e)
         /\ \A x \in Ids : docs'[x].texts = docs[x].texts
<1>1. CASE UNCHANGED docs
  BY <1>1 DEF Tree, Hangs, Ids, Grows, Holds
<1>2. CASE Starts
  <2>1. Ids = {} /\ Ids' = {RootId} /\ docs'[RootId].texts = <<>>
    BY <1>2, StartsKeep DEF Starts, Ids, Root
  <2>. QED
    BY <1>2, <2>1, StartsKeep DEF Holds
<1>3. CASE \E p, s : Adds(p, s)
  <2>. PICK p, s : Adds(p, s)
    BY <1>3
  <2>1. PICK new : new = Len(docs) + 1
    OBVIOUS
  <2>2. /\ Tree' /\ Grows
        /\ Ids' = Ids \cup {new} /\ new \notin Ids
        /\ \A d \in Ids : docs'[d] = docs[d]
        /\ docs'[new] = NewDoc(p, s)
    BY <2>1, AddsKeep
  <2>3. docs'[new].texts = <<>>
    BY <2>2 DEF NewDoc
  <2>4. ASSUME NEW x \in Ids', NEW e
        PROVE  Holds(x, e)' <=> x \in Ids /\ Holds(x, e)
    BY <2>2, <2>3 DEF Holds
  <2>. QED
    BY <2>2, <2>4
<1>4. CASE Trashes
  <2>. PICK d : Trash(d)
    BY <1>4 DEF Trashes
  <2>1. Tree' /\ Grows /\ Ids' = Ids /\ \A x \in Ids : docs'[x].texts = docs[x].texts
    BY TrashKeeps
  <2>. QED
    BY <2>1 DEF Holds
<1>. QED
  BY <1>1, <1>2, <1>3, <1>4 DEF Quiet

LEMMA WritesHold ==
  ASSUME Tree, NEW d, NEW c \in Nat, Writes(d, c)
  PROVE  \A x \in Ids : \A e : Holds(x, e)' <=> Holds(x, e) \/ (x = d /\ e = c)
<1>1. /\ Ids' = Ids /\ d \in Ids
      /\ docs'[d].texts = Append(docs[d].texts, c)
      /\ \A x \in Ids : x # d => docs'[x] = docs[x]
  BY WritesKeep
<1>2. ASSUME NEW x \in Ids, NEW e
      PROVE  Holds(x, e)' <=> Holds(x, e) \/ (x = d /\ e = c)
  <2>1. CASE x # d
    BY <1>1, <2>1 DEF Holds
  <2>2. CASE x = d
    <3>1. docs[d].texts \in Seq(Nat)
      BY <1>1, RowIs
    <3>2. PICK m \in Nat : m = Len(docs[d].texts)
      BY <3>1
    <3>3. /\ DOMAIN docs[d].texts = 1 .. m
          /\ DOMAIN docs'[d].texts = 1 .. m + 1
          /\ \A i \in 1 .. m : docs'[d].texts[i] = docs[d].texts[i]
          /\ docs'[d].texts[m + 1] = c
      BY <1>1, <3>1, <3>2, AppendProperties
    <3>4. \A i \in 1 .. m + 1 : i \in 1 .. m \/ i = m + 1
      OBVIOUS
    <3>. QED
      BY <2>2, <3>3, <3>4 DEF Holds
  <2>. QED
    BY <2>1, <2>2
<1>. QED
  BY <1>2

-----------------------------------------------------------------------------
(* The paths *)

\* The first part of a path without a document exists, and the part before it has
\* a document: the directory above is always there.
LEMMA MissingIs ==
  ASSUME NEW path \in Seq(Names), <<>> \in DOMAIN created, path \notin DOMAIN created
  PROVE  /\ Outer(Missing(path)) \in Seq(Names) /\ Outer(Missing(path)) \in DOMAIN created
         /\ Missing(path)[Len(Missing(path))] \in Names
         /\ Missing(path) = Append(Outer(Missing(path)), Missing(path)[Len(Missing(path))])
<1>. DEFINE Part(i) == SubSeq(path, 1, i)
<1>. DEFINE T == {i \in 1 .. Len(path) : Part(i) \notin DOMAIN created}
<1>1. Len(path) \in Nat \ {0} /\ Part(Len(path)) = path
  <2>1. Len(path) \in Nat /\ path # <<>>
    OBVIOUS
  <2>2. Part(Len(path)) = path
    BY SubSeqFull
  <2>. QED
    BY <2>1, <2>2, EmptySeq
<1>2. PICK m \in T : \A k \in T : m <= k
  <2>1. Part(Len(path)) \notin DOMAIN created
    BY <1>1
  <2>2. Len(path) \in T
    BY <1>1, <2>1
  <2>3. T \in SUBSET Nat
    BY <1>1
  <2>. HIDE DEF T
  <2>. QED
    BY <2>2, <2>3, FirstOf
<1>3. m \in 1 .. Len(path) /\ Part(m) \notin DOMAIN created
      /\ \A j \in 1 .. m - 1 : Part(j) \in DOMAIN created
  BY <1>1, <1>2
<1>4. PICK k \in 1 .. Len(path) :
        /\ Missing(path) = Part(k)
        /\ \A j \in 1 .. k - 1 : Part(j) \in DOMAIN created
  <2>. DEFINE First(i) == Part(i) \notin DOMAIN created /\ \A j \in 1 .. i - 1 : Part(j) \in DOMAIN created
  <2>. DEFINE c == CHOOSE i \in 1 .. Len(path) : First(i)
  <2>1. c \in 1 .. Len(path) /\ First(c)
    BY <1>3
  <2>2. Missing(path) = Part(c)
    BY DEF Missing
  <2>. QED
    BY <2>1, <2>2
<1>5. Part(k) \in Seq(Names) /\ Len(Part(k)) = k /\ \A i \in 1 .. k : Part(k)[i] = path[i]
  BY <1>1, <1>4, SubSeqProperties
<1>6. path[k] \in Names
  BY <1>1, <1>4, ElementOfSeq
<1>7. Outer(Part(k)) = SubSeq(Part(k), 1, k - 1)
  BY <1>5 DEF Outer
<1>8. /\ Outer(Part(k)) \in Seq(Names) /\ Len(Outer(Part(k))) = k - 1
      /\ \A i \in 1 .. k - 1 : Outer(Part(k))[i] = path[i]
  BY <1>1, <1>4, <1>5, <1>7, SubSeqProperties
<1>9. Part(k) = Append(Outer(Part(k)), path[k])
  <2>1. /\ Append(Outer(Part(k)), path[k]) \in Seq(Names) /\ Len(Append(Outer(Part(k)), path[k])) = k
        /\ \A i \in 1 .. k - 1 : Append(Outer(Part(k)), path[k])[i] = path[i]
        /\ Append(Outer(Part(k)), path[k])[k] = path[k]
    BY <1>1, <1>4, <1>6, <1>8, AppendProperties
  <2>2. \A i \in 1 .. k : i \in 1 .. k - 1 \/ i = k
    OBVIOUS
  <2>3. \A i \in 1 .. k : Part(k)[i] = Append(Outer(Part(k)), path[k])[i]
    BY <1>5, <2>1, <2>2
  <2>. QED
    BY <1>5, <2>1, <2>3, SeqEqual
<1>10. Outer(Part(k)) \in DOMAIN created
  <2>2. CASE k = 1
    <3>1. SubSeq(Part(k), 1, 0) = <<>>
      BY <1>5, SubSeqEmpty
    <3>. QED
      BY <1>7, <2>2, <3>1
  <2>3. CASE k # 1
    <3>1. SubSeq(Part(k), 1, k - 1) = Part(k - 1)
      BY <1>1, <1>4, <2>3
    <3>2. k - 1 \in 1 .. k - 1
      BY <1>1, <1>4, <2>3
    <3>3. Part(k - 1) \in DOMAIN created
      BY <1>4, <3>2
    <3>. QED
      BY <1>7, <3>1, <3>3
  <2>. QED
    BY <2>2, <2>3
<1>. QED
  BY <1>1, <1>4, <1>5, <1>6, <1>8, <1>9, <1>10

\* A line of documents that a path names goes on with a child of its last.
LEMMA LineGoesOn ==
  ASSUME NEW Row, NEW line \in Seq(Nat), NEW q \in Seq(Names), NEW x \in Names, NEW d \in Nat,
         Len(line) = Len(q) + 1, \A i \in 1 .. Len(q) : Row[line[i + 1]].slug = Slug[q[i]],
         Row[d].slug = Slug[x]
  PROVE  /\ Len(Append(line, d)) = Len(Append(q, x)) + 1
         /\ \A i \in 1 .. Len(Append(q, x)) : Row[Append(line, d)[i + 1]].slug = Slug[Append(q, x)[i]]
<1>4. PICK m \in Nat : m = Len(q)
  OBVIOUS
<1>5. /\ Append(line, d) \in Seq(Nat) /\ Len(Append(line, d)) = m + 2 /\ Append(line, d)[m + 2] = d
      /\ \A i \in 1 .. m + 1 : Append(line, d)[i] = line[i]
  BY <1>4, AppendProperties
<1>6. /\ Len(Append(q, x)) = m + 1 /\ Append(q, x)[m + 1] = x
      /\ \A i \in 1 .. m : Append(q, x)[i] = q[i]
  BY <1>4, AppendProperties
<1>7. ASSUME NEW i \in 1 .. m + 1
      PROVE  Row[Append(line, d)[i + 1]].slug = Slug[Append(q, x)[i]]
  <2>1. CASE i = m + 1
    BY <1>5, <1>6, <2>1
  <2>2. CASE i \in 1 .. m
    <3>1. i + 1 \in 1 .. m + 1
      BY <2>2
    <3>2. Append(line, d)[i + 1] = line[i + 1] /\ Append(q, x)[i] = q[i]
      BY <1>5, <1>6, <2>2, <3>1
    <3>3. Row[line[i + 1]].slug = Slug[q[i]]
      BY <1>4, <2>2
    <3>. QED
      BY <3>2, <3>3
  <2>3. i = m + 1 \/ i \in 1 .. m
    OBVIOUS
  <2>. QED
    BY <2>1, <2>2, <2>3, Zenon
<1>. QED
  BY <1>5, <1>6, <1>7

\* A document below one that is placed is placed at the path with its name.
LEMMA ChildIsPlaced ==
  ASSUME Tree, NEW q \in Seq(Names), NEW x \in Names, NEW d \in Ids, NEW p \in Ids,
         docs[d].above = Append(docs[p].above, p), docs[d].slug = Slug[x], Placed(q, p)
  PROVE  Placed(Append(q, x), d)
<1>1. PICK line : line = docs[d].above
  OBVIOUS
<1>2. line \in Seq(Nat) /\ d \in Nat /\ line = Append(docs[p].above, p)
  BY <1>1, RowIs
<1>3. Len(line) = Len(q) + 1 /\ \A i \in 1 .. Len(q) : docs[line[i + 1]].slug = Slug[q[i]]
  BY <1>2 DEF Placed
<1>. QED
  BY <1>1, <1>2, <1>3, LineGoesOn DEF Placed

\* What is placed stays so.
LEMMA PlacedStays ==
  ASSUME Tree, Grows, NEW q \in Seq(Names), NEW d \in Ids, Placed(q, d)
  PROVE  Placed(q, d)'
<1>1. PICK line : line = Append(docs[d].above, d)
  OBVIOUS
<1>2. docs[d].above \in Seq(Nat) /\ d \in Nat /\ \A i \in DOMAIN docs[d].above : docs[d].above[i] \in Ids
  BY RowIs
<1>3. docs'[d].above = docs[d].above
  BY DEF Grows
<1>4. Len(line) = Len(q) + 1 /\ \A i \in 1 .. Len(q) : docs[line[i + 1]].slug = Slug[q[i]]
  BY <1>1 DEF Placed
<1>5. ASSUME NEW i \in 1 .. Len(q)
      PROVE  docs'[line[i + 1]].slug = docs[line[i + 1]].slug
  <2>1. PICK m \in Nat : m = Len(docs[d].above)
    BY <1>2
  <2>2. /\ Len(line) = m + 1 /\ line[m + 1] = d /\ DOMAIN docs[d].above = 1 .. m
        /\ \A j \in 1 .. m : line[j] = docs[d].above[j]
    BY <1>1, <1>2, <2>1, AppendProperties
  <2>3. line[i + 1] \in Ids
    <3>1. CASE i + 1 = m + 1
      BY <2>2, <3>1
    <3>2. CASE i + 1 # m + 1
      <4>1. i + 1 \in 1 .. m
        BY <1>4, <2>2, <3>2
      <4>. QED
        BY <1>2, <2>2, <4>1
    <3>. QED
      BY <3>1, <3>2
  <2>. QED
    BY <2>3 DEF Grows
<1>. QED
  BY <1>1, <1>3, <1>4, <1>5 DEF Placed

\* So is one that is made there.
LEMMA NewIsPlaced ==
  ASSUME Tree, NEW q \in Seq(Names), NEW x \in Names, NEW p, Adds(p, Slug[x]), Placed(q, p)
  PROVE  \A new : new = Len(docs) + 1 => Placed(Append(q, x), new)'
<1>1. SUFFICES ASSUME NEW new, new = Len(docs) + 1 PROVE Placed(Append(q, x), new)'
  OBVIOUS
<1>2. Tree /\ Grows /\ docs'[new] = NewDoc(p, Slug[x]) /\ p \in Ids /\ new \in Nat
  BY <1>1, AddsKeep, IdsOf DEF Adds, Tree
<1>3. PICK line : line = Append(docs[p].above, p)
  OBVIOUS
<1>4. docs[p].above \in Seq(Nat) /\ p \in Nat /\ line \in Seq(Nat)
  BY <1>2, <1>3, RowIs
<1>5. docs'[new].above = line /\ docs'[new].slug = Slug[x]
  BY <1>2, <1>3 DEF NewDoc
<1>6. Placed(q, p)'
  BY <1>2, PlacedStays
<1>7. docs'[p].above = docs[p].above
  BY <1>2 DEF Grows
<1>8. Len(line) = Len(q) + 1 /\ \A i \in 1 .. Len(q) : docs'[line[i + 1]].slug = Slug[q[i]]
  BY <1>3, <1>6, <1>7 DEF Placed
<1>9. PICK Row : Row = docs'
  OBVIOUS
<1>10. /\ Len(line) = Len(q) + 1
       /\ \A i \in 1 .. Len(q) : Row[line[i + 1]].slug = Slug[q[i]]
       /\ Row[new].slug = Slug[x]
  BY <1>5, <1>8, <1>9
<1>11. /\ Len(Append(line, new)) = Len(Append(q, x)) + 1
       /\ \A i \in 1 .. Len(Append(q, x)) : Row[Append(line, new)[i + 1]].slug = Slug[Append(q, x)[i]]
  BY <1>2, <1>4, <1>10, LineGoesOn
<1>. QED
  BY <1>5, <1>9, <1>11 DEF Placed

\* The part of a plain path before its last name is plain; a README's stem is not.
LEMMA PlainOuter ==
  ASSUME NEW q \in Seq(Names), NEW x \in Names, Plain(Append(q, x))
  PROVE  Plain(q)
<1>1. ASSUME NEW i \in 1 .. Len(q)
      PROVE  i \in 1 .. Len(Append(q, x)) /\ SubSeq(q, 1, i) = SubSeq(Append(q, x), 1, i)
  <2>1. /\ Append(q, x) \in Seq(Names) /\ Len(Append(q, x)) = Len(q) + 1
        /\ \A j \in 1 .. Len(q) : Append(q, x)[j] = q[j]
    BY AppendProperties
  <2>2. /\ SubSeq(q, 1, i) \in Seq(Names) /\ Len(SubSeq(q, 1, i)) = i
        /\ \A j \in 1 .. i : SubSeq(q, 1, i)[j] = q[j]
    BY SubSeqProperties
  <2>3. /\ SubSeq(Append(q, x), 1, i) \in Seq(Names) /\ Len(SubSeq(Append(q, x), 1, i)) = i
        /\ \A j \in 1 .. i : SubSeq(Append(q, x), 1, i)[j] = Append(q, x)[j]
    BY <2>1, SubSeqProperties
  <2>4. \A j \in 1 .. i : SubSeq(q, 1, i)[j] = SubSeq(Append(q, x), 1, i)[j]
    BY <2>1, <2>2, <2>3
  <2>. QED
    BY <2>1, <2>2, <2>3, <2>4, SeqEqual
<1>. QED
  BY <1>1 DEF Plain

LEMMA StemIsNotPlain ==
  ASSUME NEW e \in DOMAIN zip.entries, zip.entries[e].kind = "readme",
         zip.entries[e].dir \in Seq(Names), zip.entries[e].stem \in Names
  PROVE  ~ Plain(Path(zip.entries[e]))
<1>1. PICK q : q = Path(zip.entries[e])
  OBVIOUS
<1>2. q \in Seq(Names) /\ Len(q) \in 1 .. Len(q)
  BY <1>1, AppendProperties DEF Path
<1>3. SubSeq(q, 1, Len(q)) = q
  BY <1>2, SubSeqFull
<1>. QED
  BY <1>1, <1>2, <1>3 DEF Plain

-----------------------------------------------------------------------------
(* The invariant *)

\* The type invariant, but for the documents.
Fields ==
    /\ n \in 1 .. Len(zip.entries) + 1
    /\ pc \in Places
    /\ \A p \in DOMAIN created : created[p] \in Ids
    /\ doc \in Ids \cup {0} /\ (pc \in {"commit", "number", "append"} => doc # 0) /\ no \in Nat
    /\ uploads \subseteq 1 .. Len(zip.entries)
    /\ imported \in Nat /\ failed \in Nat
    /\ err \in BOOLEAN /\ stuck \in BOOLEAN /\ lost \in BOOLEAN
    /\ job \in [status : {"pending", "done", "failed"}, imported : Nat, failed : Nat]
    /\ faults \in 0 .. MaxFaults /\ acts \in 0 .. MaxActs

Typed == Tree /\ Fields /\ zip \in ZipFile

Committing == {"commit", "number", "append"}
Working == {"dir", "mkdir", "lookup", "write", "insert"} \cup Committing

\* How far the counts are at each place of the goroutine, and what there is there.
Stages ==
    /\ pc \in {"open", "empty", "root"} => docs = <<>> /\ uploads = {} /\ imported = 0 /\ n = 1
    /\ pc = "open" => failed = 0
    /\ pc \in {"empty", "root"} => failed = zip.illegal /\ (pc = "root" => zip.entries # <<>>)
    /\ pc \in Working =>
          /\ n \in 1 .. Len(zip.entries) /\ uploads \subseteq 1 .. n - 1 /\ WentIn \subseteq 1 .. n - 1
          /\ <<>> \in DOMAIN created
          /\ imported + failed = n - 1 + zip.illegal
    /\ pc \in {"mkdir", "lookup"} => ~ HasContainer
    /\ pc = "write" => HasContainer
    /\ pc = "insert" => Cur.dir \in DOMAIN created /\ Cur.kind = "page"
    /\ pc = "end" => imported + failed = Len(zip.entries) + zip.illegal
    /\ pc \in {"finish", "over"} /\ ~ lost => job.imported = imported /\ job.failed = failed

\* What has a document has it in its place, and a commit whose base has been compared
\* goes to a document without an entry's text.
PathsPlaced == \A p \in DOMAIN created : p \in Seq(Names) /\ (Plain(p) => Placed(p, created[p]))
TargetPlaced == pc \in Committing => (Plain(Own(n)) => Placed(Own(n), doc))
TargetFree == pc \in {"number", "append"} => \A e \in 1 .. Len(zip.entries) : ~ Holds(doc, e)
Settled == PathsPlaced /\ TargetPlaced /\ TargetFree /\ EntriesHaveTheirPlace

Counted == imported = Cardinality(WentIn) + Cardinality(uploads)

\* From the rollback to the job's last write, and after it.
Emptied ==
    pc \in {"return", "finish", "over"} /\ imported = 0 /\ failed > 0 /\ ~ stuck =>
        \A d \in Ids : docs[d].alive => docs[d].adrift

Sound == Typed /\ Stages /\ Settled /\ Counted /\ Emptied

-----------------------------------------------------------------------------
(* The steps, as far as they change the documents *)

\* A version of an entry and an upload are counted, and nothing else is.
Moves ==
    \/ Quiet /\ UNCHANGED <<imported, uploads>>
    \/ Quiet /\ pc = "write" /\ imported' = imported + 1 /\ uploads' = uploads \cup {n}
    \/ (\E d : Writes(d, Foreign)) /\ UNCHANGED <<imported, uploads>>
    \/ Writes(doc, n) /\ pc = "append" /\ imported' = imported + 1 /\ UNCHANGED uploads

LEMMA ZipIs ==
  ASSUME zip \in ZipFile
  PROVE  /\ Len(zip.entries) \in Nat /\ zip.illegal \in Nat /\ Foreign \in Nat
         /\ DOMAIN zip.entries = 1 .. Len(zip.entries)
         /\ \A e \in 1 .. Len(zip.entries) :
               /\ zip.entries[e].dir \in Seq(Names) /\ zip.entries[e].stem \in Names
               /\ zip.entries[e].kind \in Kinds
               /\ Path(zip.entries[e]) \in Seq(Names) /\ Own(e) \in Seq(Names)
         /\ n \in 1 .. Len(zip.entries) => Cur.dir \in Seq(Names) /\ Cur.stem \in Names /\ Cur.kind \in Kinds
<1>1. zip.entries \in Seq(Entry) /\ zip.illegal \in Nat
  BY DEF ZipFile
<1>2. ASSUME NEW e \in 1 .. Len(zip.entries)
      PROVE  /\ zip.entries[e].dir \in Seq(Names) /\ zip.entries[e].stem \in Names
             /\ zip.entries[e].kind \in Kinds
             /\ Path(zip.entries[e]) \in Seq(Names) /\ Own(e) \in Seq(Names)
  <2>1. zip.entries[e] \in Entry
    BY <1>1, ElementOfSeq
  <2>2. zip.entries[e].dir \in Seq(Names) /\ zip.entries[e].stem \in Names /\ zip.entries[e].kind \in Kinds
    BY <2>1 DEF Entry
  <2>3. Path(zip.entries[e]) \in Seq(Names)
    BY <2>2, AppendProperties DEF Path
  <2>. QED
    BY <2>2, <2>3 DEF Own
<1>. QED
  BY <1>1, <1>2 DEF Foreign, Cur

LEMMA MovesKeep ==
  ASSUME Tree, zip \in ZipFile, n \in Nat, Moves
  PROVE  Tree' /\ Grows
<1>1. Foreign \in Nat
  BY ZipIs
<1>. QED
  BY <1>1, QuietKeeps, WritesKeep DEF Moves

LEMMA RegisterKeeps ==
  ASSUME NEW path, NEW d, created' = Register(path, d), d \in Ids', Ids \subseteq Ids',
         \A p \in DOMAIN created : created[p] \in Ids
  PROVE  /\ \A p \in DOMAIN created' : created'[p] \in Ids'
         /\ DOMAIN created \subseteq DOMAIN created'
  BY DEF Register

\* A slug that is taken is a document's.
LEMMA TakenIs ==
  ASSUME NEW p, NEW s, Taken(p, s)
  PROVE  WithSlug(p, s) \in Ids /\ Parent(WithSlug(p, s)) = p /\ docs[WithSlug(p, s)].slug = s
<1>1. WithSlug(p, s) \in At(p, s)
  BY DEF Taken, WithSlug
<1>. QED
  BY <1>1 DEF At

\* The directory to be made, the one above it, and its slug.
LEMMA NewDirIs ==
  ASSUME Typed, Stages, Settled, pc \in {"dir", "mkdir", "lookup"}, ~ HasContainer
  PROVE  /\ DirParent \in Ids /\ DirSlug \in Slugs
         /\ Outer(NewDir) \in Seq(Names) /\ Outer(NewDir) \in DOMAIN created
         /\ NewDir \in Seq(Names)
         /\ \E x \in Names : NewDir = Append(Outer(NewDir), x) /\ DirSlug = Slug[x]
<1>1. n \in 1 .. Len(zip.entries) /\ <<>> \in DOMAIN created
  BY DEF Stages, Working
<1>2. Cur.dir \in Seq(Names) /\ Cur.dir \notin DOMAIN created
  BY <1>1, ZipIs DEF HasContainer, Typed
<1>3. PICK q, x : q = Outer(NewDir) /\ x = NewDir[Len(NewDir)]
  OBVIOUS
<1>4. q \in Seq(Names) /\ q \in DOMAIN created /\ x \in Names /\ NewDir = Append(q, x)
  BY <1>1, <1>2, <1>3, MissingIs DEF NewDir
<1>5. NewDir \in Seq(Names)
  BY <1>4, AppendProperties
<1>6. DirParent \in Ids /\ DirSlug = Slug[x] /\ DirSlug \in Slugs
  BY <1>3, <1>4 DEF DirParent, DirSlug, Typed, Fields, Slugs
<1>. QED
  BY <1>3, <1>4, <1>5, <1>6

-----------------------------------------------------------------------------
(* Types *)

Job == [status : {"pending", "done", "failed"}, imported : Nat, failed : Nat]

LEMMA JobKeeps ==
  ASSUME job \in Job
  PROVE  /\ Finish("failed") => job' \in Job
         /\ Finish("done") => job' \in Job
         /\ UNCHANGED job => job' \in Job
         /\ imported' \in Nat /\ failed' \in Nat /\ Progress => job' \in Job
  BY DEF Finish, Progress, Job

\* What the counters do when an entry has been dealt with.
LEMMA AdvanceKeeps ==
  ASSUME Typed, n \in 1 .. Len(zip.entries), UNCHANGED zip, CountImported \/ CountFailed
  PROVE  /\ n' \in 1 .. Len(zip.entries) + 1 /\ doc' = 0 /\ no' = 0
         /\ pc' \in {"dir", "end"}
         /\ imported' \in Nat /\ failed' \in Nat
         /\ job' \in Job
<1>1. Len(zip.entries) \in Nat
  BY ZipIs DEF Typed
<1>2. imported' \in Nat /\ failed' \in Nat /\ Progress
  BY DEF Typed, Fields, CountImported, CountFailed
<1>3. job' \in Job
  BY <1>2, JobKeeps DEF Typed, Fields, Job
<1>. QED
  BY <1>1, <1>2, <1>3 DEF CountImported, CountFailed, Advance

LEMMA FaultsKeep ==
  ASSUME faults \in 0 .. MaxFaults, Fault \/ NoFault
  PROVE  faults' \in 0 .. MaxFaults
  BY ZipsAssumption DEF Fault, NoFault

LEMMA ActsKeep ==
  ASSUME acts \in 0 .. MaxActs, Act \/ UNCHANGED acts
  PROVE  acts' \in 0 .. MaxActs
  BY ZipsAssumption DEF Act

LEMMA FailsIs ==
  ASSUME Typed, n \in 1 .. Len(zip.entries), UNCHANGED <<zip, err, marks>>, UNCHANGED acts, Fault \/ NoFault, Fails
  PROVE  Moves /\ Fields'
<1>1. Quiet /\ UNCHANGED <<imported, uploads, created>> /\ Ids' = Ids
  BY DEF Fails, CountFailed, Quiet, Ids
<1>2. faults' \in 0 .. MaxFaults
  BY FaultsKeep DEF Typed, Fields
<1>. QED
  BY <1>1, <1>2, AdvanceKeeps DEF Fails, Moves, Fields, Typed, marks, Job, Places

LEMMA TypedStep ==
  ASSUME Typed, Stages, Settled, [Next]_vars
  PROVE  Typed' /\ Grows /\ Moves /\ UNCHANGED zip
<1>t. /\ Tree /\ Fields /\ zip \in ZipFile
      /\ Ids = 1 .. Len(docs) /\ Len(docs) \in Nat
      /\ Len(zip.entries) \in Nat /\ zip.illegal \in Nat /\ Foreign \in Nat /\ n \in Nat
  BY IdsOf, ZipIs DEF Typed, Tree, Fields
<1>. USE <1>t
<1>q. UNCHANGED zip
  BY DEF Next, Step, Unreadable, Open, NothingToImport, CreateRoot, Found, EnsureDir, MakeDir, FindDir, CreatePage,
         InsertPage, TakeReadme, Commit, TakeNumber, AppendText, Upload, Complete, Rollback, WriteCounts, WriteEnd,
         TrashDocument, WriteDocument, CreateDocument, Crash, run, vars
<1>a. acts' \in 0 .. MaxActs
  <2>1. Act \/ UNCHANGED acts
    BY DEF Next, TrashDocument, WriteDocument, CreateDocument, Crash, vars
  <2>. QED
    BY <2>1, ActsKeep DEF Fields
<1>. SUFFICES Moves /\ Fields'
  BY <1>q, MovesKeep DEF Typed
<1>j. job \in Job
  BY DEF Fields, Job
<1>. USE DEF Places
<1>1. CASE Unreadable
  BY <1>1, <1>a, FaultsKeep DEF Unreadable, Moves, Quiet, Fields, Ids, counts, marks
<1>2. CASE Open
  <2>1. imported' \in Nat /\ failed' \in Nat /\ job' \in Job
    BY <1>2, <1>j, JobKeeps DEF Open, Fields
  <2>. QED
    BY <1>2, <1>a, <2>1, FaultsKeep DEF Open, Moves, Quiet, Fields, Ids, marks, Job
<1>3. CASE NothingToImport
  <2>1. job' \in Job
    BY <1>3, <1>j, JobKeeps DEF NothingToImport
  <2>. QED
    BY <1>3, <1>a, <2>1, FaultsKeep DEF NothingToImport, Moves, Quiet, Fields, Ids, run, counts, marks, Job
<1>4. CASE CreateRoot
  <2>1. docs = <<>>
    BY <1>4 DEF CreateRoot, Stages
  <2>2. CASE docs' = <<Root>> /\ created' = Register(<<>>, RootId) /\ pc' = "dir" /\ UNCHANGED job /\ NoFault
    <3>1. Starts
      BY <2>1, <2>2 DEF Starts
    <3>2. Ids = {} /\ Ids' = {RootId}
      BY <2>1, <3>1, StartsKeep DEF Ids
    <3>3. \A p \in DOMAIN created' : created'[p] \in Ids'
      BY <2>2, <3>2, RegisterKeeps DEF Fields
    <3>. QED
      BY <1>4, <1>a, <2>2, <3>1, <3>2, <3>3, FaultsKeep DEF CreateRoot, Moves, Quiet, Fields, counts, marks
  <2>3. CASE Fault /\ Finish("failed") /\ pc' = "return" /\ UNCHANGED <<docs, created>>
    <3>1. job' \in Job
      BY <1>j, <2>3, JobKeeps
    <3>. QED
      BY <1>4, <1>a, <2>3, <3>1, FaultsKeep DEF CreateRoot, Moves, Quiet, Fields, Ids, counts, marks, Job
  <2>. QED
    BY <1>4, <2>2, <2>3 DEF CreateRoot
<1>5. CASE Found
  BY <1>5, <1>a, FaultsKeep DEF Found, Moves, Quiet, Fields, Ids, run, counts, marks
<1>6. CASE EnsureDir
  BY <1>6, <1>a, FaultsKeep DEF EnsureDir, GiveUp, Moves, Quiet, Fields, Ids, counts, marks
<1>7. CASE MakeDir
  <2>. PICK p, s, path : p = DirParent /\ s = DirSlug /\ path = NewDir
    OBVIOUS
  <2>1. p \in Ids /\ s \in Slugs
    BY <1>7, NewDirIs DEF MakeDir, Stages
  <2>2. CASE NoFault /\ Insert(p, s) /\ created' = Register(path, Len(docs) + 1) /\ pc' = "dir"
    <3>1. Adds(p, s)
      BY <2>1, <2>2 DEF Adds
    <3>2. Ids' = Ids \cup {Len(docs) + 1}
      BY <3>1, AddsKeep
    <3>3. \A x \in DOMAIN created' : created'[x] \in Ids'
      BY <2>2, <3>2, RegisterKeeps DEF Fields
    <3>. QED
      BY <1>7, <1>a, <2>2, <3>1, <3>2, <3>3, FaultsKeep DEF MakeDir, Moves, Quiet, Fields, counts, marks
  <2>3. CASE (Fault \/ NoFault) /\ pc' \in {"lookup", "rollback"} /\ UNCHANGED <<created, docs>>
    BY <1>7, <1>a, <2>3, FaultsKeep DEF MakeDir, Moves, Quiet, Fields, Ids, counts, marks
  <2>. QED
    BY <1>7, <2>2, <2>3 DEF MakeDir, GiveUp
<1>8. CASE FindDir
  <2>. PICK p, s, path : p = DirParent /\ s = DirSlug /\ path = NewDir
    OBVIOUS
  <2>1. CASE Taken(p, s) /\ NoFault /\ created' = Register(path, WithSlug(p, s)) /\ pc' = "dir" /\ UNCHANGED docs
    <3>1. Ids' = Ids
      BY <2>1 DEF Ids
    <3>2. \A x \in DOMAIN created' : created'[x] \in Ids'
      BY <2>1, <3>1, RegisterKeeps, TakenIs DEF Fields
    <3>. QED
      BY <1>8, <1>a, <2>1, <3>1, <3>2, FaultsKeep DEF FindDir, Moves, Quiet, Fields, counts, marks
  <2>2. CASE (Fault \/ NoFault) /\ pc' = "rollback" /\ UNCHANGED <<created, docs>>
    BY <1>8, <1>a, <2>2, FaultsKeep DEF FindDir, Moves, Quiet, Fields, Ids, counts, marks
  <2>. QED
    BY <1>8, <2>1, <2>2 DEF FindDir, GiveUp
<1>w. ASSUME UNCHANGED <<zip, err, marks>>, UNCHANGED acts, pc \in Working, Fault \/ NoFault, Fails
      PROVE  Moves /\ Fields'
  BY <1>w, FailsIs DEF Stages
<1>9. CASE CreatePage /\ UNCHANGED acts
  <2>1. CASE Fails
    BY <1>9, <1>w, <2>1 DEF CreatePage, Working
  <2>2. CASE NoFault /\ Goes("insert") /\ UNCHANGED <<doc, no, docs>>
    BY <1>9, <2>2, FaultsKeep DEF CreatePage, Goes, Moves, Quiet, Fields, Ids, counts, marks
  <2>. QED
    BY <1>9, <2>1, <2>2 DEF CreatePage
<1>10. CASE InsertPage /\ UNCHANGED acts
  <2>. PICK p, s : p = created[Cur.dir] /\ s = Slug[Cur.stem]
    OBVIOUS
  <2>1. p \in Ids /\ s \in Slugs
    <3>1. n \in 1 .. Len(zip.entries) /\ Cur.dir \in DOMAIN created
      BY <1>10 DEF InsertPage, Stages, Working
    <3>2. Cur.stem \in Names
      BY <3>1, ZipIs
    <3>. QED
      BY <3>1, <3>2 DEF Fields, Slugs
  <2>2. CASE Fails
    BY <1>10, <1>w, <2>2 DEF InsertPage, Working
  <2>3. CASE NoFault /\ Insert(p, s) /\ doc' = Len(docs) + 1 /\ Goes("commit") /\ UNCHANGED no
    <3>1. Adds(p, s)
      BY <2>1, <2>3 DEF Adds
    <3>2. Ids' = Ids \cup {Len(docs) + 1}
      BY <3>1, AddsKeep
    <3>. QED
      BY <1>10, <2>3, <3>1, <3>2, FaultsKeep DEF InsertPage, Goes, Moves, Quiet, Fields, counts, marks
  <2>. QED
    BY <1>10, <2>2, <2>3 DEF InsertPage
<1>11. CASE TakeReadme /\ UNCHANGED acts
  <2>1. CASE Fails
    BY <1>11, <1>w, <2>1 DEF TakeReadme, Working
  <2>2. CASE doc' = created[Cur.dir] /\ Goes("commit") /\ UNCHANGED <<no, docs>>
    <3>1. Cur.dir \in DOMAIN created
      BY <1>11 DEF TakeReadme, Stages, HasContainer
    <3>2. doc' \in Ids /\ doc' # 0
      BY <2>2, <3>1 DEF Fields
    <3>. QED
      BY <1>11, <2>2, <3>2, FaultsKeep DEF TakeReadme, Goes, Moves, Quiet, Fields, Ids, counts, marks
  <2>. QED
    BY <1>11, <2>1, <2>2 DEF TakeReadme
<1>12. CASE Commit /\ UNCHANGED acts
  <2>1. CASE Fails
    BY <1>12, <1>w, <2>1 DEF Commit, Working, Committing
  <2>2. CASE NoFault /\ Goes("number") /\ UNCHANGED <<doc, no, docs>>
    BY <1>12, <2>2, FaultsKeep DEF Commit, Goes, Moves, Quiet, Fields, Ids, counts, marks
  <2>. QED
    BY <1>12, <2>1, <2>2 DEF Commit
<1>d. pc \in Committing => doc \in Ids /\ docs[doc].texts \in Seq(Nat)
  BY RowIs DEF Fields, Committing
<1>13. CASE TakeNumber /\ UNCHANGED acts
  <2>1. CASE Fails /\ Fault
    BY <1>13, <1>w, <2>1 DEF TakeNumber, Working, Committing
  <2>2. CASE NoFault /\ no' = Len(docs[doc].texts) + 1 /\ Goes("append") /\ UNCHANGED <<doc, docs>>
    <3>1. no' \in Nat
      BY <1>13, <1>d, <2>2 DEF TakeNumber, Committing
    <3>. QED
      BY <1>13, <2>2, <3>1, FaultsKeep DEF TakeNumber, Goes, Moves, Quiet, Fields, Ids, counts, marks
  <2>. QED
    BY <1>13, <2>1, <2>2 DEF TakeNumber
<1>14. CASE AppendText /\ UNCHANGED acts
  <2>1. CASE Fails
    BY <1>14, <1>w, <2>1 DEF AppendText, Working, Committing
  <2>2. CASE NoFault /\ Write(doc, n) /\ created' = Register(Path(Cur), doc) /\ CountImported /\ UNCHANGED uploads
    <3>1. n \in 1 .. Len(zip.entries) /\ doc \in Ids
      BY <1>14, <1>d DEF AppendText, Stages, Working, Committing
    <3>2. Writes(doc, n)
      BY <2>2, <3>1 DEF Writes
    <3>3. Ids' = Ids
      BY <3>2, WritesKeep
    <3>4. \A x \in DOMAIN created' : created'[x] \in Ids'
      BY <2>2, <3>1, <3>3, RegisterKeeps DEF Fields
    <3>5. imported' = imported + 1
      BY <2>2 DEF CountImported
    <3>6. Moves
      BY <1>14, <2>2, <3>2, <3>5 DEF AppendText, Moves
    <3>7. UNCHANGED <<err, stuck, lost, uploads>> /\ faults' \in 0 .. MaxFaults
      BY <1>14, <2>2, FaultsKeep DEF AppendText, Fields, marks
    <3>8. /\ n' \in 1 .. Len(zip.entries) + 1 /\ doc' = 0 /\ no' = 0 /\ pc' \in {"dir", "end"}
          /\ imported' \in Nat /\ failed' \in Nat /\ job' \in Job
      BY <1>q, <2>2, <3>1, AdvanceKeeps
    <3>. QED
      BY <1>a, <1>q, <3>3, <3>4, <3>6, <3>7, <3>8 DEF Fields, Job
  <2>. QED
    BY <1>14, <2>1, <2>2 DEF AppendText
<1>15. CASE Upload /\ UNCHANGED acts
  <2>1. CASE Fails
    <3>1. Fault \/ NoFault
      BY <1>15 DEF Upload
    <3>. QED
      BY <1>15, <1>w, <2>1, <3>1 DEF Upload, Working
  <2>2. CASE NoFault /\ uploads' = uploads \cup {n} /\ CountImported /\ UNCHANGED <<docs, created, readmes>>
    <3>1. n \in 1 .. Len(zip.entries) /\ pc = "write" /\ UNCHANGED <<zip, err, marks>>
      BY <1>15 DEF Upload, Stages, Working
    <3>2. uploads' \subseteq 1 .. Len(zip.entries) /\ Ids' = Ids /\ imported' = imported + 1
      BY <2>2, <3>1 DEF Fields, Ids, CountImported
    <3>3. Moves
      BY <2>2, <3>1, <3>2 DEF Moves, Quiet
    <3>. QED
      BY <1>a, <2>2, <3>1, <3>2, <3>3, AdvanceKeeps, FaultsKeep DEF Fields, marks, Job
  <2>. QED
    BY <1>15, <2>1, <2>2 DEF Upload
<1>16. CASE Complete
  <2>1. job' \in Job
    BY <1>16, <1>j, JobKeeps DEF Complete
  <2>. QED
    BY <1>16, <1>a, <2>1, FaultsKeep DEF Complete, Moves, Quiet, Fields, Ids, run, counts, marks, Job
<1>17. CASE Rollback
  <2>1. job' \in Job
    BY <1>17, <1>j, JobKeeps DEF Rollback
  <2>2. Quiet
    BY <1>17 DEF Rollback, Quiet, Trashes
  <2>3. Ids \subseteq Ids'
    BY <2>2, QuietKeeps DEF Grows
  <2>. QED
    BY <1>17, <1>a, <2>1, <2>2, <2>3, FaultsKeep DEF Rollback, Moves, Fields, counts, Job
<1>18. CASE WriteCounts \/ WriteEnd
  <2>1. job' \in Job
    BY <1>18, <1>j DEF WriteCounts, WriteEnd, Finish, Job, Fields
  <2>. QED
    BY <1>18, <1>a, <2>1, FaultsKeep DEF WriteCounts, WriteEnd, Moves, Quiet, Fields, Ids, counts, Job
<1>19. ASSUME UNCHANGED <<run, pc, job, faults>>, Quiet \/ \E d : Writes(d, Foreign)
       PROVE  Moves /\ Fields'
  <2>1. Moves
    BY <1>19 DEF Moves, run, counts
  <2>2. Ids \subseteq Ids'
    BY <1>19, QuietKeeps, WritesKeep DEF Grows
  <2>. QED
    BY <1>19, <1>a, <2>1, <2>2 DEF Fields, run, counts, marks
<1>20. ASSUME NEW d \in Ids, TrashDocument(d)
       PROVE  Moves /\ Fields'
  BY <1>19, <1>20 DEF TrashDocument, Quiet, Trashes
<1>21. ASSUME NEW d \in Ids, WriteDocument(d)
       PROVE  Moves /\ Fields'
  BY <1>19, <1>21 DEF WriteDocument, Writes
<1>22. ASSUME NEW d \in Ids, NEW s \in Slugs, CreateDocument(d, s)
       PROVE  Moves /\ Fields'
  <2>1. Adds(d, s)
    BY <1>22 DEF CreateDocument, Adds
  <2>. QED
    BY <1>19, <1>22, <2>1 DEF CreateDocument, Quiet
<1>23. CASE Crash
  BY <1>23, <1>a DEF Crash, Moves, Quiet, Fields, Ids, run, counts, marks
<1>24. CASE UNCHANGED vars
  BY <1>24 DEF vars, Moves, Quiet, Fields, Ids, counts
<1>. QED
  BY <1>1, <1>2, <1>3, <1>4, <1>5, <1>6, <1>7, <1>8, <1>9, <1>10, <1>11, <1>12, <1>13, <1>14, <1>15, <1>16, <1>17,
     <1>18, <1>20, <1>21, <1>22, <1>23, <1>24 DEF Next, Step

-----------------------------------------------------------------------------
(* Stages *)

\* Only the commit of an entry adds to what went in.
LEMMA WentInAfter ==
  ASSUME Typed, UNCHANGED zip
  PROVE  /\ Quiet => WentIn' = WentIn
         /\ (\E d : Writes(d, Foreign)) => WentIn' = WentIn
         /\ n \in 1 .. Len(zip.entries) /\ Writes(doc, n) => WentIn' = WentIn \cup {n}
<1>1. Len(zip.entries) \in Nat /\ Foreign \in Nat /\ Foreign \notin 1 .. Len(zip.entries) /\ Tree
  BY ZipIs DEF Typed, Foreign
<1>3. ASSUME NEW d, NEW c \in Nat, Writes(d, c)
      PROVE  d \in Ids /\ WentIn' = {e \in 1 .. Len(zip.entries) : e \in WentIn \/ e = c}
  <2>1. Ids' = Ids /\ d \in Ids /\ \A x \in Ids : \A e : Holds(x, e)' <=> Holds(x, e) \/ (x = d /\ e = c)
    BY <1>1, <1>3, WritesKeep, WritesHold
  <2>. QED
    BY <2>1 DEF WentIn
<1>4. WentIn \subseteq 1 .. Len(zip.entries)
  BY DEF WentIn
<1>5. (\E d : Writes(d, Foreign)) => WentIn' = WentIn
  BY <1>1, <1>3, <1>4
<1>6. n \in 1 .. Len(zip.entries) /\ Writes(doc, n) => WentIn' = WentIn \cup {n}
  <2>1. SUFFICES ASSUME n \in 1 .. Len(zip.entries), Writes(doc, n) PROVE WentIn' = WentIn \cup {n}
    OBVIOUS
  <2>2. n \in Nat
    BY <1>1, <2>1
  <2>3. WentIn' = {e \in 1 .. Len(zip.entries) : e \in WentIn \/ e = n}
    BY <1>3, <2>1, <2>2
  <2>. QED
    BY <1>4, <2>1, <2>3
<1>7. Quiet => WentIn' = WentIn
  <2>1. SUFFICES ASSUME Quiet PROVE WentIn' = WentIn
    OBVIOUS
  <2>2. Ids \subseteq Ids' /\ \A x \in Ids' : \A e : Holds(x, e)' <=> x \in Ids /\ Holds(x, e)
    BY <1>1, <2>1, QuietKeeps DEF Grows
  <2>. QED
    BY <2>2 DEF WentIn
<1>. QED
  BY <1>5, <1>6, <1>7

LEMMA StagesAdvance ==
  ASSUME Typed, Stages, pc \in Working, UNCHANGED zip,
         CountImported \/ CountFailed, DOMAIN created \subseteq DOMAIN created',
         uploads' \subseteq uploads \cup {n}, WentIn' \subseteq WentIn \cup {n}
  PROVE  Stages'
<1>1. Len(zip.entries) \in Nat /\ zip.illegal \in Nat
  BY ZipIs DEF Typed
<1>2. /\ n \in 1 .. Len(zip.entries) /\ uploads \subseteq 1 .. n - 1 /\ WentIn \subseteq 1 .. n - 1
      /\ <<>> \in DOMAIN created
      /\ imported + failed = n - 1 + zip.illegal
  BY DEF Stages
<1>3. imported \in Nat /\ failed \in Nat
  BY DEF Typed, Fields
<1>4. imported' + failed' = n + zip.illegal
  BY <1>1, <1>2, <1>3 DEF CountImported, CountFailed
<1>5. n' = n + 1 /\ pc' = IF n = Len(zip.entries) THEN "end" ELSE "dir"
  BY DEF CountImported, CountFailed, Advance
<1>6. uploads' \subseteq 1 .. n /\ WentIn' \subseteq 1 .. n
  BY <1>1, <1>2
<1>. QED
  BY <1>1, <1>2, <1>4, <1>5, <1>6 DEF Stages, Working, Committing

\* A step of the goroutine that stays with its entry.
LEMMA StagesStay ==
  ASSUME Typed, Stages, pc \in Working, pc' \in Working, UNCHANGED <<zip, n, counts, uploads>>, Quiet,
         DOMAIN created \subseteq DOMAIN created',
         pc' \in {"mkdir", "lookup"} => ~ HasContainer',
         pc' = "write" => HasContainer',
         pc' = "insert" => Cur.dir \in DOMAIN created /\ Cur.kind = "page"
  PROVE  Stages'
<1>1. WentIn' = WentIn /\ Cur' = Cur
  BY WentInAfter DEF Cur
<1>. QED
  BY <1>1 DEF Stages, Working, Committing, counts

LEMMA StagesStep ==
  ASSUME Typed, Stages, Settled, [Next]_vars
  PROVE  Stages'
<1>1. /\ Len(zip.entries) \in Nat /\ zip.illegal \in Nat /\ Fields
      /\ UNCHANGED zip /\ Moves
  BY ZipIs, TypedStep DEF Typed
<1>2. CASE Unreadable
  BY <1>2 DEF Unreadable, Stages, Working, Committing
<1>3. CASE Open
  BY <1>1, <1>3 DEF Open, Stages, Working, Committing, counts
<1>4. CASE NothingToImport
  BY <1>4 DEF NothingToImport, Stages, Working, Committing
<1>5. CASE CreateRoot
  <2>1. zip.entries \in Seq(Entry)
    BY DEF ZipFile, Typed
  <2>2. docs = <<>> /\ zip.entries # <<>> /\ n = 1 /\ imported = 0 /\ failed = zip.illegal /\ uploads = {}
    BY <1>5 DEF CreateRoot, Stages
  <2>3. Len(zip.entries) # 0
    BY <2>1, <2>2, EmptySeq
  <2>4. CASE pc' = "return"
    BY <2>4 DEF Stages, Working, Committing
  <2>5. CASE docs' = <<Root>> /\ created' = Register(<<>>, RootId) /\ pc' = "dir"
    <3>1. <<>> \in DOMAIN created'
      BY <2>5 DEF Register
    <3>2. WentIn = {}
      BY <2>2 DEF WentIn, Ids
    <3>3. Quiet
      BY <2>2, <2>5 DEF Quiet, Starts
    <3>4. WentIn' = {}
      BY <1>1, <3>2, <3>3, WentInAfter
    <3>. QED
      BY <1>1, <1>5, <2>2, <2>3, <2>5, <3>1, <3>4 DEF CreateRoot, Stages, Working, Committing, counts
  <2>. QED
    BY <1>5, <2>4, <2>5 DEF CreateRoot
<1>6. CASE Found
  <2>1. Quiet /\ HasContainer'
    BY <1>6 DEF Found, Quiet, HasContainer, Cur, Path, run
  <2>. QED
    BY <1>6, <2>1, StagesStay DEF Found, Working, run, counts
<1>7. CASE pc' = "rollback"
  BY <1>7 DEF Stages, Working, Committing
<1>8. CASE EnsureDir /\ pc' # "rollback"
  <2>1. Quiet /\ ~ HasContainer'
    BY <1>8 DEF EnsureDir, GiveUp, Quiet, HasContainer, Cur, Path
  <2>. QED
    BY <1>8, <2>1, StagesStay DEF EnsureDir, GiveUp, Working
<1>9. CASE MakeDir /\ pc' # "rollback"
  <2>1. CASE pc' = "lookup" /\ UNCHANGED <<created, docs>>
    <3>1. Quiet /\ ~ HasContainer'
      BY <1>9, <2>1 DEF MakeDir, Stages, Quiet, HasContainer, Cur, Path
    <3>. QED
      BY <1>9, <2>1, <3>1, StagesStay DEF MakeDir, Working
  <2>2. CASE Insert(DirParent, DirSlug) /\ created' = Register(NewDir, Len(docs) + 1) /\ pc' = "dir"
    <3>1. Adds(DirParent, DirSlug)
      BY <1>9, <2>2, NewDirIs DEF MakeDir, Stages, Adds
    <3>2. Quiet /\ DOMAIN created \subseteq DOMAIN created'
      BY <2>2, <3>1 DEF Quiet, Register
    <3>. QED
      BY <1>9, <2>2, <3>2, StagesStay DEF MakeDir, Working
  <2>. QED
    BY <1>9, <2>1, <2>2 DEF MakeDir, GiveUp
<1>10. CASE FindDir /\ pc' # "rollback"
  <2>1. Quiet /\ pc' = "dir" /\ DOMAIN created \subseteq DOMAIN created'
    BY <1>10 DEF FindDir, GiveUp, Quiet, Register
  <2>. QED
    BY <1>10, <2>1, StagesStay DEF FindDir, Working
<1>w. ASSUME pc \in Working, Fails
      PROVE  Stages'
  <2>1. Quiet
    BY <1>w DEF Fails, Quiet
  <2>2. WentIn' = WentIn
    BY <1>1, <2>1, WentInAfter
  <2>. QED
    BY <1>1, <1>w, <2>2, StagesAdvance DEF Fails
<1>11. CASE CreatePage
  <2>1. CASE Goes("insert") /\ UNCHANGED docs
    <3>1. Cur.dir \in DOMAIN created /\ Cur.kind = "page"
      BY <1>11 DEF CreatePage, Stages, HasContainer
    <3>. QED
      BY <1>1, <1>11, <2>1, <3>1, StagesStay DEF CreatePage, Goes, Working, Quiet
  <2>. QED
    BY <1>11, <1>w, <2>1 DEF CreatePage, Working
<1>12. CASE InsertPage
  <2>1. CASE Goes("commit")
    <3>1. Quiet
      <4>1. n \in 1 .. Len(zip.entries) /\ Cur.dir \in DOMAIN created
        BY <1>12 DEF InsertPage, Stages, Working
      <4>2. created[Cur.dir] \in Ids /\ Slug[Cur.stem] \in Slugs
        BY <1>1, <4>1, ZipIs DEF Typed, Fields, Slugs
      <4>3. Insert(created[Cur.dir], Slug[Cur.stem])
        BY <1>12, <2>1 DEF InsertPage, Fails, CountFailed, Advance, Goes
      <4>. QED
        BY <4>2, <4>3 DEF Quiet, Adds
    <3>. QED
      BY <1>1, <1>12, <2>1, <3>1, StagesStay DEF InsertPage, Goes, Working, Committing
  <2>. QED
    BY <1>12, <1>w, <2>1 DEF InsertPage, Working
<1>13. CASE TakeReadme
  <2>1. CASE Goes("commit") /\ UNCHANGED docs
    BY <1>1, <1>13, <2>1, StagesStay DEF TakeReadme, Goes, Working, Committing, Quiet
  <2>. QED
    BY <1>13, <1>w, <2>1 DEF TakeReadme, Working
<1>14. CASE Commit
  <2>1. CASE Goes("number") /\ UNCHANGED docs
    BY <1>1, <1>14, <2>1, StagesStay DEF Commit, Goes, Working, Committing, Quiet
  <2>. QED
    BY <1>14, <1>w, <2>1 DEF Commit, Working, Committing
<1>15. CASE TakeNumber
  <2>1. CASE Goes("append") /\ UNCHANGED docs
    BY <1>1, <1>15, <2>1, StagesStay DEF TakeNumber, Goes, Working, Committing, Quiet
  <2>. QED
    BY <1>15, <1>w, <2>1 DEF TakeNumber, Working, Committing
<1>16. CASE AppendText
  <2>1. CASE Write(doc, n) /\ created' = Register(Path(Cur), doc) /\ CountImported /\ UNCHANGED uploads
    <3>1. n \in 1 .. Len(zip.entries) /\ doc \in Ids
      BY <1>1, <1>16 DEF AppendText, Stages, Working, Committing, Fields
    <3>2. WentIn' = WentIn \cup {n}
      BY <1>1, <2>1, <3>1, WentInAfter DEF Writes
    <3>3. DOMAIN created \subseteq DOMAIN created'
      BY <2>1 DEF Register
    <3>. QED
      BY <1>1, <1>16, <2>1, <3>2, <3>3, StagesAdvance DEF AppendText, Working, Committing
  <2>. QED
    BY <1>16, <1>w, <2>1 DEF AppendText, Working, Committing
<1>17. CASE Upload
  <2>1. CASE uploads' = uploads \cup {n} /\ CountImported /\ UNCHANGED <<docs, created>>
    <3>1. WentIn' = WentIn
      BY <1>1, <2>1, WentInAfter DEF Quiet
    <3>. QED
      BY <1>1, <1>17, <2>1, <3>1, StagesAdvance DEF Upload, Working
  <2>. QED
    BY <1>17, <1>w, <2>1 DEF Upload, Working
<1>18. CASE Complete
  BY <1>18 DEF Complete, Stages, Working, Committing
<1>19. CASE Rollback
  BY <1>19 DEF Rollback, Stages, Working, Committing
<1>20. CASE WriteCounts
  <2>1. UNCHANGED <<imported, failed>> /\ pc' = "finish"
    BY <1>20 DEF WriteCounts, counts
  <2>2. ~ lost' => job'.imported = imported /\ job'.failed = failed
    BY <1>1, <1>20 DEF WriteCounts, Fields
  <2>. QED
    BY <2>1, <2>2 DEF Stages, Working, Committing
<1>21. CASE WriteEnd
  <2>1. UNCHANGED <<imported, failed>> /\ pc' = "over"
    BY <1>21 DEF WriteEnd, counts
  <2>2. ~ lost' => job'.imported = job.imported /\ job'.failed = job.failed /\ ~ lost
    BY <1>1, <1>21 DEF WriteEnd, Finish, Fields
  <2>. QED
    BY <1>21, <2>1, <2>2 DEF WriteEnd, Stages, Working, Committing
<1>22. ASSUME UNCHANGED <<run, pc, job, faults>>, Ids # {}
       PROVE  Stages'
  <2>1. docs # <<>> /\ UNCHANGED <<n, created, uploads, imported, failed, lost>>
    BY <1>22 DEF Ids, run, counts, marks
  <2>2. HasContainer' = HasContainer /\ Cur' = Cur
    BY <1>1, <2>1 DEF HasContainer, Cur, Path
  <2>3. WentIn' = WentIn \/ pc \notin Working
    <3>1. n \in Nat /\ imported' # imported + 1
      BY <1>1, <2>1 DEF Fields
    <3>. QED
      BY <1>1, <2>1, <3>1, WentInAfter DEF Moves
  <2>. QED
    BY <1>1, <1>22, <2>1, <2>2, <2>3 DEF Stages, Working, Committing
<1>23. ASSUME NEW d \in Ids, TrashDocument(d) \/ WriteDocument(d)
       PROVE  Stages'
  BY <1>22, <1>23 DEF TrashDocument, WriteDocument
<1>26. ASSUME NEW d \in Ids, NEW s \in Slugs, CreateDocument(d, s)
       PROVE  Stages'
  BY <1>22, <1>26 DEF CreateDocument
<1>24. CASE Crash
  BY <1>24 DEF Crash, Stages, Working, Committing
<1>25. CASE UNCHANGED vars
  <2>1. WentIn' = WentIn /\ HasContainer' = HasContainer /\ Cur' = Cur
    BY <1>25 DEF vars, WentIn, Holds, Ids, HasContainer, Cur, Path
  <2>. QED
    BY <1>25, <2>1 DEF vars, Stages, counts
<1>27. ASSUME Step
       PROVE  Stages'
  <2>1. SUFFICES ASSUME pc' # "rollback" PROVE Stages'
    BY <1>7
  <2>. QED
    BY <1>2, <1>3, <1>4, <1>5, <1>6, <1>8, <1>9, <1>10, <1>11, <1>12, <1>13, <1>14, <1>15, <1>16, <1>17,
       <1>18, <1>19, <1>20, <1>21, <1>27, <2>1, Zenon DEF Step
<1>28. CASE Next
  BY <1>23, <1>24, <1>26, <1>27, <1>28, Zenon DEF Next
<1>. QED
  BY <1>25, <1>28

-----------------------------------------------------------------------------
(* Places *)

LEMMA PathsStay ==
  ASSUME Typed, Settled, Grows, UNCHANGED zip,
         \/ UNCHANGED created
         \/ \E path \in Seq(Names) : \E d : /\ created' = Register(path, d)
                                            /\ Plain(path) => Placed(path, d)'
  PROVE  PathsPlaced'
<1>1. ASSUME NEW p \in DOMAIN created, NEW c, c = created[p]
      PROVE  p \in Seq(Names) /\ (Plain(p) => Placed(p, c)')
  <2>1. p \in Seq(Names) /\ c \in Ids /\ Tree /\ (Plain(p) => Placed(p, c))
    BY <1>1 DEF Typed, Fields, Settled, PathsPlaced
  <2>. QED
    BY <2>1, PlacedStays
<1>2. \A p : Plain(p)' <=> Plain(p)
  BY DEF Plain, Path
<1>3. CASE UNCHANGED created
  BY <1>1, <1>2, <1>3 DEF PathsPlaced
<1>4. ASSUME NEW path \in Seq(Names), NEW d, created' = Register(path, d), Plain(path) => Placed(path, d)'
      PROVE  PathsPlaced'
  <2>1. /\ DOMAIN created' = DOMAIN created \cup {path}
        /\ \A p \in DOMAIN created' : created'[p] = IF p = path THEN d ELSE created[p]
    BY <1>4 DEF Register
  <2>2. ASSUME NEW p \in DOMAIN created'
        PROVE  p \in Seq(Names) /\ (Plain(p)' => Placed(p, created[p])')
    <3>1. PICK c : c = created'[p]
      OBVIOUS
    <3>2. p \in Seq(Names) /\ (Plain(p) => Placed(p, c)')
      <4>1. CASE p = path
        BY <1>4, <2>1, <3>1, <4>1
      <4>2. CASE p # path
        BY <1>1, <2>1, <3>1, <4>2
      <4>. QED
        BY <4>1, <4>2
    <3>. QED
      BY <1>2, <3>1, <3>2
  <2>. QED
    BY <2>2 DEF PathsPlaced
<1>. QED
  BY <1>3, <1>4

LEMMA EntriesStay ==
  ASSUME Typed, Stages, Settled, Grows, Moves, UNCHANGED zip
  PROVE  EntriesHaveTheirPlace'
<1>. DEFINE E == 1 .. Len(zip.entries)
<1>1. /\ Tree /\ Len(zip.entries) \in Nat /\ Foreign \in Nat /\ Foreign \notin E /\ n \in Nat
      /\ \A e \in E : Own(e) \in Seq(Names)
  BY ZipIs DEF Typed, Fields, Foreign
<1>2. E' = E /\ (\A p : Plain(p)' <=> Plain(p)) /\ \A e : Own(e)' = Own(e)
  BY DEF Plain, Path, Own
<1>3. ASSUME NEW d \in Ids, NEW e \in E, Holds(d, e)
      PROVE  /\ Plain(Own(e)) => Placed(Own(e), d)'
             /\ \A x \in Ids, f \in E : Holds(x, f) => (x = d <=> f = e)
  <2>1. PICK q : q = Own(e)
    OBVIOUS
  <2>2. Plain(q) => Placed(q, d)'
    BY <1>1, <1>3, <2>1, PlacedStays DEF Settled, EntriesHaveTheirPlace
  <2>. QED
    BY <1>2, <1>3, <2>1, <2>2 DEF Settled, EntriesHaveTheirPlace
<1>4. ASSUME \A x \in Ids', e \in E : Holds(x, e)' => x \in Ids /\ Holds(x, e)
      PROVE  EntriesHaveTheirPlace'
  BY <1>2, <1>3, <1>4 DEF EntriesHaveTheirPlace
<1>5. CASE Quiet
  BY <1>1, <1>4, <1>5, QuietKeeps
<1>6. ASSUME NEW d, Writes(d, Foreign)
      PROVE  EntriesHaveTheirPlace'
  <2>1. Ids' = Ids /\ \A x \in Ids : \A e : Holds(x, e)' <=> Holds(x, e) \/ (x = d /\ e = Foreign)
    BY <1>1, <1>6, WritesKeep, WritesHold
  <2>. QED
    BY <1>1, <1>4, <2>1
<1>7. CASE Writes(doc, n) /\ pc = "append"
  <2>0. PICK c, k : c = doc /\ k = n
    OBVIOUS
  <2>1. Ids' = Ids /\ c \in Ids /\ \A x \in Ids : \A e : Holds(x, e)' <=> Holds(x, e) \/ (x = c /\ e = k)
    BY <1>1, <1>7, <2>0, WritesKeep, WritesHold
  <2>2. /\ k \in E /\ WentIn \subseteq 1 .. k - 1
        /\ \A e \in E : ~ Holds(c, e)
        /\ Plain(Own(k)) => Placed(Own(k), c)
    BY <1>7, <2>0 DEF Stages, Settled, TargetPlaced, TargetFree, Working, Committing
  <2>3. \A x \in Ids : ~ Holds(x, k)
    BY <1>1, <2>2 DEF WentIn
  <2>4. Plain(Own(k)) => Placed(Own(k), c)'
    <3>1. PICK q : q = Own(k)
      OBVIOUS
    <3>. QED
      BY <1>1, <1>2, <2>1, <2>2, <3>1, PlacedStays
  <2>. QED
    BY <1>2, <1>3, <2>1, <2>2, <2>3, <2>4 DEF EntriesHaveTheirPlace
<1>. QED
  BY <1>5, <1>6, <1>7 DEF Moves
\* Where a commit comes from: a page made, a README taken, or a commit going on.
LEMMA CommitComesFrom ==
  ASSUME Typed, [Next]_vars, pc' \in Committing
  PROVE  \/ InsertPage /\ Goes("commit")
         \/ TakeReadme /\ Goes("commit")
         \/ Commit /\ pc' = "number" /\ UNCHANGED <<zip, n, doc, docs>>
         \/ TakeNumber /\ pc' = "append" /\ UNCHANGED <<zip, n, doc, docs>>
         \/ UNCHANGED <<zip, n, doc, pc, created, imported>>
<1>0. CountImported \/ CountFailed => pc' \in {"dir", "end"}
  BY DEF CountImported, CountFailed, Advance
<1>1. CASE Unreadable \/ Open \/ NothingToImport \/ CreateRoot
  BY <1>1 DEF Unreadable, Open, NothingToImport, CreateRoot, Committing
<1>2. CASE Found \/ EnsureDir \/ MakeDir \/ FindDir
  BY <1>2 DEF Found, EnsureDir, MakeDir, FindDir, GiveUp, Committing
<1>3. CASE CreatePage \/ Upload \/ AppendText
  BY <1>0, <1>3 DEF CreatePage, Upload, AppendText, Fails, Goes, Committing
<1>4. CASE InsertPage
  BY <1>0, <1>4 DEF InsertPage, Fails, Goes, Committing
<1>5. CASE TakeReadme
  BY <1>0, <1>5 DEF TakeReadme, Fails, Goes, Committing
<1>6. CASE Commit
  BY <1>0, <1>6 DEF Commit, Fails, Goes, Committing
<1>7. CASE TakeNumber
  BY <1>0, <1>7 DEF TakeNumber, Fails, Goes, Committing
<1>8. CASE Complete \/ Rollback \/ WriteCounts \/ WriteEnd
  BY <1>8 DEF Complete, Rollback, WriteCounts, WriteEnd, Committing
<1>9. CASE (\E d \in Ids : TrashDocument(d) \/ WriteDocument(d)) \/ (\E d \in Ids, s \in Slugs : CreateDocument(d, s))
  BY <1>9 DEF TrashDocument, WriteDocument, CreateDocument, run, counts
<1>10. CASE Crash
  BY <1>10 DEF Crash, Committing
<1>11. CASE UNCHANGED vars
  BY <1>11 DEF vars
<1>12. CASE Step
  BY <1>1, <1>2, <1>3, <1>4, <1>5, <1>6, <1>7, <1>8, <1>12, Zenon DEF Step
<1>. QED
  BY <1>9, <1>10, <1>11, <1>12, Zenon DEF Next

LEMMA TargetStep ==
  ASSUME Typed, Stages, Settled, Grows, Moves, UNCHANGED zip, [Next]_vars
  PROVE  TargetPlaced' /\ TargetFree'
<1>. SUFFICES ASSUME pc' \in Committing
              PROVE  /\ (Plain(Own(n)) => Placed(Own(n), doc))'
                     /\ pc' \in {"number", "append"} => (\A e \in 1 .. Len(zip.entries) : ~ Holds(doc, e))'
  BY DEF TargetPlaced, TargetFree, Committing
<1>1. /\ Tree /\ Len(zip.entries) \in Nat /\ Foreign \in Nat /\ Foreign \notin 1 .. Len(zip.entries) /\ n \in Nat
      /\ \A e \in 1 .. Len(zip.entries) : Own(e) \in Seq(Names)
  <2>1. Tree /\ Len(zip.entries) \in Nat /\ Foreign \in Nat /\ \A e \in 1 .. Len(zip.entries) : Own(e) \in Seq(Names)
    BY ZipIs DEF Typed
  <2>2. n \in Nat /\ Foreign \notin 1 .. Len(zip.entries)
    BY <2>1 DEF Typed, Fields, Foreign
  <2>. QED
    BY <2>1, <2>2
<1>2. (\A p : Plain(p)' <=> Plain(p)) /\ (n' = n => Own(n)' = Own(n))
  BY DEF Plain, Path, Own
\* The document and the entry stay the same.
<1>3. ASSUME pc \in Committing, UNCHANGED <<n, doc>>
      PROVE  (Plain(Own(n)) => Placed(Own(n), doc))'
  <2>1. PICK q, c : q = Own(n) /\ c = doc
    OBVIOUS
  <2>2. q \in Seq(Names) /\ c \in Ids /\ (Plain(q) => Placed(q, c))
    BY <1>1, <1>3, <2>1 DEF Stages, Typed, Fields, Settled, TargetPlaced, Working, Committing
  <2>3. Plain(q) => Placed(q, c)'
    BY <1>1, <2>2, PlacedStays
  <2>. QED
    BY <1>2, <1>3, <2>1, <2>3
<1>4. CASE InsertPage /\ Goes("commit")
  <2>1. PICK new, q, x, p : new = Len(docs) + 1 /\ q = Cur.dir /\ x = Cur.stem /\ p = created[Cur.dir]
    OBVIOUS
  <2>2. /\ n \in 1 .. Len(zip.entries) /\ q \in DOMAIN created /\ Cur.kind = "page"
        /\ q \in Seq(Names) /\ x \in Names /\ p \in Ids /\ (Plain(q) => Placed(q, p))
    BY <1>4, <2>1, ZipIs DEF InsertPage, Stages, Working, Typed, Fields, Settled, PathsPlaced
  <2>3. Insert(p, Slug[x]) /\ doc' = new /\ n' = n /\ pc' = "commit"
    BY <1>4, <2>1 DEF InsertPage, Goes, Fails, CountFailed, Advance
  <2>4. Own(n) = Append(q, x)
    BY <2>1, <2>2 DEF Own, Path, Cur
  <2>5. Adds(p, Slug[x])
    BY <2>2, <2>3 DEF Adds, Slugs
  <2>6. Plain(Append(q, x)) => Placed(Append(q, x), new)'
    BY <1>1, <2>1, <2>2, <2>5, NewIsPlaced, PlainOuter
  <2>7. PICK r : r = Append(q, x)
    OBVIOUS
  <2>. QED
    BY <1>2, <2>3, <2>4, <2>6, <2>7
<1>5. CASE TakeReadme /\ Goes("commit")
  <2>1. PICK q, p : q = Cur.dir /\ p = created[Cur.dir]
    OBVIOUS
  <2>2. doc' = p /\ n' = n /\ pc' = "commit" /\ Cur.kind = "readme"
    BY <1>5, <2>1 DEF TakeReadme, Goes, Fails, CountFailed, Advance
  <2>3. n \in 1 .. Len(zip.entries) /\ q \in DOMAIN created
    BY <1>5, <2>1, <2>2 DEF TakeReadme, Stages, Working, HasContainer
  <2>4. q \in Seq(Names) /\ p \in Ids /\ (Plain(q) => Placed(q, p)) /\ Own(n) = q
    BY <2>1, <2>2, <2>3 DEF Typed, Fields, Settled, PathsPlaced, Own, Cur
  <2>5. Plain(q) => Placed(q, p)'
    BY <1>1, <2>4, PlacedStays
  <2>. QED
    BY <1>2, <2>2, <2>4, <2>5
<1>6. CASE Commit /\ pc' = "number" /\ UNCHANGED <<zip, n, doc, docs>>
  <2>1. Committable(doc)
    BY <1>6 DEF Commit, Fails, CountFailed, Advance
  <2>2. \A e : ~ Holds(doc, e)
    BY <2>1 DEF Committable, Holds
  <2>3. \A e : ~ Holds(doc, e)'
    BY <1>6, <2>2 DEF Holds
  <2>. QED
    BY <1>3, <1>6, <2>3 DEF Commit, Committing
<1>7. CASE TakeNumber /\ pc' = "append" /\ UNCHANGED <<zip, n, doc, docs>>
  <2>1. \A e \in 1 .. Len(zip.entries) : ~ Holds(doc, e)
    BY <1>7 DEF TakeNumber, Settled, TargetFree
  <2>2. \A e \in 1 .. Len(zip.entries) : ~ Holds(doc, e)'
    BY <1>7, <2>1 DEF Holds
  <2>. QED
    BY <1>3, <1>7, <2>2 DEF TakeNumber, Committing
<1>8. CASE UNCHANGED <<zip, n, doc, pc, created, imported>>
  <2>1. PICK c : c = doc
    OBVIOUS
  <2>2. pc \in {"number", "append"} => c \in Ids /\ \A e \in 1 .. Len(zip.entries) : ~ Holds(c, e)
    BY <2>1 DEF Typed, Fields, Settled, TargetFree
  <2>3. ASSUME pc \in {"number", "append"}, NEW e \in 1 .. Len(zip.entries)
        PROVE  ~ Holds(c, e)'
    <3>1. CASE Quiet
      BY <1>1, <2>2, <2>3, <3>1, QuietKeeps DEF Grows
    <3>2. ASSUME NEW d, Writes(d, Foreign)
          PROVE  ~ Holds(c, e)'
      BY <1>1, <2>2, <2>3, <3>2, WritesHold
    <3>3. imported' # imported + 1
      BY <1>8 DEF Typed, Fields
    <3>. QED
      BY <3>1, <3>2, <3>3 DEF Moves
  <2>. QED
    BY <1>3, <1>8, <2>1, <2>3
<1>. QED
  BY <1>4, <1>5, <1>6, <1>7, <1>8, CommitComesFrom
LEMMA PathsStep ==
  ASSUME Typed, Stages, Settled, Grows, Moves, UNCHANGED zip, [Next]_vars
  PROVE  PathsPlaced'
<1>0. Tree
  BY DEF Typed
<1>1. ASSUME UNCHANGED created
      PROVE  PathsPlaced'
  BY <1>1, PathsStay
<1>2. ASSUME NEW path \in Seq(Names), NEW d, created' = Register(path, d), Plain(path) => Placed(path, d)'
      PROVE  PathsPlaced'
  BY <1>2, PathsStay
<1>3. CASE CreateRoot
  <2>1. CASE docs' = <<Root>> /\ created' = Register(<<>>, RootId)
    <3>1. docs'[RootId].above = <<>> /\ <<>> \in Seq(Names)
      BY <2>1 DEF Root, RootId
    <3>2. Placed(<<>>, RootId)'
      BY <3>1 DEF Placed
    <3>. QED
      BY <1>2, <2>1, <3>1, <3>2
  <2>. QED
    BY <1>1, <1>3, <2>1 DEF CreateRoot
<1>4. CASE MakeDir /\ ~ UNCHANGED created
  <2>1. PICK new, q, p : new = Len(docs) + 1 /\ q = Outer(NewDir) /\ p = DirParent
    OBVIOUS
  <2>2. /\ pc = "mkdir" /\ Insert(p, DirSlug) /\ created' = Register(NewDir, new)
        /\ ~ HasContainer
    BY <1>4, <2>1 DEF MakeDir, GiveUp, Stages
  <2>3. PICK x \in Names : NewDir = Append(q, x) /\ DirSlug = Slug[x]
    BY <2>1, <2>2, NewDirIs
  <2>4. q \in Seq(Names) /\ p \in Ids /\ NewDir \in Seq(Names) /\ (Plain(q) => Placed(q, p))
    BY <2>1, <2>2, NewDirIs DEF Settled, PathsPlaced, DirParent
  <2>5. Adds(p, Slug[x])
    BY <2>2, <2>3, <2>4 DEF Adds, Slugs
  <2>6. Plain(Append(q, x)) => Placed(Append(q, x), new)'
    BY <1>0, <2>1, <2>4, <2>5, NewIsPlaced, PlainOuter
  <2>7. PICK r : r = NewDir
    OBVIOUS
  <2>. QED
    BY <1>2, <2>2, <2>3, <2>4, <2>6, <2>7
<1>5. CASE FindDir /\ ~ UNCHANGED created
  <2>1. PICK c, q, p : c = WithSlug(DirParent, DirSlug) /\ q = Outer(NewDir) /\ p = DirParent
    OBVIOUS
  <2>2. /\ pc = "lookup" /\ Taken(p, DirSlug) /\ created' = Register(NewDir, c) /\ UNCHANGED docs
        /\ ~ HasContainer
    BY <1>5, <2>1 DEF FindDir, GiveUp, Stages
  <2>3. PICK x \in Names : NewDir = Append(q, x) /\ DirSlug = Slug[x]
    BY <2>1, <2>2, NewDirIs
  <2>4. q \in Seq(Names) /\ p \in Ids /\ NewDir \in Seq(Names) /\ (Plain(q) => Placed(q, p))
    BY <2>1, <2>2, NewDirIs DEF Settled, PathsPlaced, DirParent
  <2>5. c \in Ids /\ Parent(c) = p /\ docs[c].slug = Slug[x]
    BY <2>1, <2>2, <2>3, TakenIs
  <2>6. p # 0
    BY <1>0, <2>4, RowIs
  <2>7. docs[c].above = Append(docs[p].above, p)
    BY <1>0, <2>5, <2>6, ParentIs
  <2>8. Plain(Append(q, x)) => Placed(Append(q, x), c)
    BY <1>0, <2>4, <2>5, <2>7, ChildIsPlaced, PlainOuter
  <2>9. Plain(Append(q, x)) => Placed(Append(q, x), c)'
    BY <2>2, <2>8 DEF Placed
  <2>10. PICK r : r = NewDir
    OBVIOUS
  <2>. QED
    BY <1>2, <2>2, <2>3, <2>4, <2>9, <2>10
<1>6. CASE AppendText /\ ~ UNCHANGED created
  <2>1. PICK c, k, q : c = doc /\ k = n /\ q = Path(Cur)
    OBVIOUS
  <2>2. created' = Register(q, c) /\ pc = "append"
    BY <1>6, <2>1 DEF AppendText, Fails
  <2>3. k \in 1 .. Len(zip.entries) /\ c \in Ids /\ (Plain(Own(k)) => Placed(Own(k), c))
    BY <2>1, <2>2 DEF Stages, Working, Committing, Settled, TargetPlaced, Typed, Fields
  <2>4. q = Path(zip.entries[k]) /\ q \in Seq(Names)
    BY <2>1, <2>3, ZipIs DEF Typed, Cur
  <2>5. Plain(q) => Placed(q, c)
    <3>1. zip.entries[k].kind # "readme" => Own(k) = q
      BY <2>4 DEF Own
    <3>2. zip.entries[k].kind = "readme" => ~ Plain(q)
      BY <2>3, <2>4, ZipIs, StemIsNotPlain DEF Typed
    <3>. QED
      BY <2>3, <3>1, <3>2
  <2>6. Plain(q) => Placed(q, c)'
    BY <1>0, <2>3, <2>4, <2>5, PlacedStays
  <2>. QED
    BY <1>2, <2>2, <2>4, <2>6
<1>7. ASSUME Step, ~ UNCHANGED created
      PROVE  CreateRoot \/ MakeDir \/ FindDir \/ AppendText
  BY <1>7 DEF Step, Unreadable, Open, NothingToImport, Found, EnsureDir, GiveUp, CreatePage, InsertPage, TakeReadme,
              Commit, TakeNumber, Upload, Fails, Goes, Complete, Rollback, WriteCounts, WriteEnd, run
<1>8. ASSUME ~ UNCHANGED created
      PROVE  Step
  BY <1>8 DEF Next, TrashDocument, WriteDocument, CreateDocument, Crash, run, vars
<1>. QED
  BY <1>1, <1>3, <1>4, <1>5, <1>6, <1>7, <1>8

LEMMA SettledStep ==
  ASSUME Typed, Stages, Settled, [Next]_vars
  PROVE  Settled'
<1>1. Grows /\ Moves /\ UNCHANGED zip
  BY TypedStep
<1>. QED
  BY <1>1, PathsStep, TargetStep, EntriesStay DEF Settled

-----------------------------------------------------------------------------
(* Counts *)

LEMMA Finite ==
  ASSUME Typed
  PROVE  /\ IsFiniteSet(WentIn) /\ IsFiniteSet(uploads)
         /\ Cardinality(WentIn) \in Nat /\ Cardinality(uploads) \in Nat
<1>1. IsFiniteSet(1 .. Len(zip.entries))
  <2>1. Len(zip.entries) \in Nat
    BY ZipIs DEF Typed
  <2>. QED
    BY <2>1, FS_Interval
<1>2. WentIn \subseteq 1 .. Len(zip.entries) /\ uploads \subseteq 1 .. Len(zip.entries)
  BY DEF WentIn, Typed, Fields
<1>. QED
  BY <1>1, <1>2, FS_Subset, FS_CardinalityType

LEMMA CountedStep ==
  ASSUME Typed, Stages, Counted, Moves, UNCHANGED zip
  PROVE  Counted'
<1>1. /\ IsFiniteSet(WentIn) /\ IsFiniteSet(uploads)
      /\ Cardinality(WentIn) \in Nat /\ Cardinality(uploads) \in Nat
      /\ imported = Cardinality(WentIn) + Cardinality(uploads)
  BY Finite DEF Counted
<1>2. Len(zip.entries) \in Nat
  BY ZipIs DEF Typed
<1>3. CASE Quiet /\ UNCHANGED <<imported, uploads>>
  BY <1>1, <1>3, WentInAfter DEF Counted
<1>4. CASE Quiet /\ pc = "write" /\ imported' = imported + 1 /\ uploads' = uploads \cup {n}
  <2>1. n \notin uploads
    BY <1>2, <1>4 DEF Stages, Working
  <2>2. Cardinality(uploads') = Cardinality(uploads) + 1
    BY <1>1, <1>4, <2>1, FS_AddElement
  <2>3. WentIn' = WentIn
    BY <1>4, WentInAfter
  <2>. QED
    BY <1>1, <1>4, <2>2, <2>3 DEF Counted
<1>5. CASE (\E d : Writes(d, Foreign)) /\ UNCHANGED <<imported, uploads>>
  BY <1>1, <1>5, WentInAfter DEF Counted
<1>6. CASE Writes(doc, n) /\ pc = "append" /\ imported' = imported + 1 /\ UNCHANGED uploads
  <2>1. n \in 1 .. Len(zip.entries) /\ n \notin WentIn
    BY <1>2, <1>6 DEF Stages, Working, Committing
  <2>2. WentIn' = WentIn \cup {n}
    BY <1>6, <2>1, WentInAfter
  <2>3. Cardinality(WentIn') = Cardinality(WentIn) + 1
    BY <1>1, <2>1, <2>2, FS_AddElement
  <2>. QED
    BY <1>1, <1>6, <2>3 DEF Counted
<1>. QED
  BY <1>3, <1>4, <1>5, <1>6 DEF Moves

-----------------------------------------------------------------------------
(* What is left behind *)

LEMMA EmptiedStep ==
  ASSUME Typed, Stages, Emptied, [Next]_vars
  PROVE  Emptied'
<1>0. CountImported \/ CountFailed => pc' \in {"dir", "end"}
  BY DEF CountImported, CountFailed, Advance
<1>1. CASE Unreadable \/ NothingToImport
  BY <1>1 DEF Unreadable, NothingToImport, Stages, Emptied, counts, run, Ids
<1>2. CASE CreateRoot
  BY <1>2 DEF CreateRoot, Stages, Emptied, Ids
<1>3. CASE Open \/ Found \/ EnsureDir \/ MakeDir \/ FindDir
  BY <1>3 DEF Open, Found, EnsureDir, MakeDir, FindDir, GiveUp, Emptied
<1>4. CASE CreatePage \/ InsertPage \/ TakeReadme \/ Commit \/ TakeNumber \/ AppendText \/ Upload
  <2>1. pc' \in {"insert", "commit", "number", "append", "dir", "end"}
    BY <1>0, <1>4 DEF CreatePage, InsertPage, TakeReadme, Commit, TakeNumber, AppendText, Upload, Fails, Goes
  <2>. QED
    BY <2>1 DEF Emptied
<1>5. CASE Complete
  BY <1>5 DEF Complete, Emptied, run, counts
<1>6. CASE Rollback
  <2>1. stuck' \/ \A x \in Ids' : docs'[x].alive => docs'[x].adrift
    BY <1>6, TrashOfRoot DEF Rollback, Typed
  <2>. QED
    BY <2>1 DEF Emptied
<1>7. CASE WriteCounts \/ WriteEnd
  BY <1>7 DEF WriteCounts, WriteEnd, Emptied, Ids, counts
<1>8. ASSUME UNCHANGED <<run, pc>>,
             \A x \in Ids' : docs'[x].alive /\ ~ docs'[x].adrift => \E y \in Ids : docs[y].alive /\ ~ docs[y].adrift
      PROVE  Emptied'
  BY <1>8 DEF run, counts, marks, Emptied
<1>9. ASSUME NEW d \in Ids, TrashDocument(d) \/ WriteDocument(d)
      PROVE  Emptied'
  <2>1. Foreign \in Nat /\ Tree
    BY ZipIs DEF Typed
  <2>2. Ids' = Ids /\ \A x \in Ids : (docs'[x].alive => docs[x].alive) /\ docs'[x].adrift = docs[x].adrift
    BY <1>9, <2>1, TrashKeeps, WritesKeep DEF TrashDocument, WriteDocument, Writes
  <2>. QED
    BY <1>8, <1>9, <2>2 DEF TrashDocument, WriteDocument
<1>10. ASSUME NEW d \in Ids, NEW s \in Slugs, CreateDocument(d, s)
       PROVE  Emptied'
  <2>1. PICK new : new = Len(docs) + 1
    OBVIOUS
  <2>2. /\ Ids' = Ids \cup {new} /\ \A x \in Ids : docs'[x] = docs[x]
        /\ docs'[new] = NewDoc(d, s)
    BY <1>10, <2>1, AddsKeep DEF CreateDocument, Adds, Typed
  <2>3. ~ docs'[new].adrift => docs[d].alive /\ ~ docs[d].adrift
    <3>1. NewDoc(d, s).adrift <=> ~ docs[d].alive \/ docs[d].adrift
      BY RowIs DEF Typed, NewDoc
    <3>2. docs'[new].adrift = NewDoc(d, s).adrift
      BY <2>2
    <3>. QED
      BY <3>1, <3>2
  <2>. QED
    BY <1>8, <1>10, <2>2, <2>3 DEF CreateDocument
<1>11. CASE Crash
  BY <1>11 DEF Crash, Emptied
<1>12. CASE UNCHANGED vars
  BY <1>12 DEF vars, Emptied, Ids, counts
<1>13. CASE Step
  BY <1>1, <1>2, <1>3, <1>4, <1>5, <1>6, <1>7, <1>13, Zenon DEF Step
<1>. QED
  BY <1>9, <1>10, <1>11, <1>12, <1>13, Zenon DEF Next

-----------------------------------------------------------------------------
(* The results *)

LEMMA SoundInit == ASSUME Init PROVE Sound
<1>1. zip \in ZipFile
  BY ZipsAssumption DEF Init
<1>2. Len(zip.entries) \in Nat /\ WentIn = {} /\ Ids = {}
  BY <1>1, ZipIs DEF Init, WentIn, Ids
<1>3. Typed
  <2>1. Tree /\ DOMAIN created = {}
    BY <1>2 DEF Init, Tree
  <2>2. job \in [status : {"pending", "done", "failed"}, imported : Nat, failed : Nat]
    BY DEF Init
  <2>3. pc = "open" /\ faults \in 0 .. MaxFaults /\ acts \in 0 .. MaxActs
    BY ZipsAssumption DEF Init
  <2>4. /\ n \in 1 .. Len(zip.entries) + 1 /\ doc = 0 /\ no \in Nat
        /\ uploads = {} /\ imported \in Nat /\ failed \in Nat
        /\ err \in BOOLEAN /\ stuck \in BOOLEAN /\ lost \in BOOLEAN
    <3>1. n = 1 /\ doc = 0 /\ no = 0 /\ uploads = {} /\ imported = 0 /\ failed = 0
      BY DEF Init
    <3>2. err \in BOOLEAN /\ stuck \in BOOLEAN /\ lost \in BOOLEAN
      BY Zenon DEF Init
    <3>. QED
      BY <1>2, <3>1, <3>2
  <2>5. Fields
    BY <2>1, <2>2, <2>3, <2>4 DEF Fields, Places
  <2>. QED
    BY <1>1, <2>1, <2>5 DEF Typed
<1>4. Counted
  BY <1>2, FS_EmptySet DEF Init, Counted
<1>5. Settled
  BY <1>2 DEF Init, Settled, PathsPlaced, TargetPlaced, TargetFree, EntriesHaveTheirPlace, Committing
<1>6. Stages /\ Emptied
  BY DEF Init, Stages, Emptied, Working, Committing
<1>. QED
  BY <1>3, <1>4, <1>5, <1>6 DEF Sound

LEMMA SoundStep == ASSUME Sound, [Next]_vars PROVE Sound'
<1>1. Typed' /\ Moves /\ UNCHANGED zip
  BY TypedStep DEF Sound
<1>2. Stages' /\ Settled'
  BY StagesStep, SettledStep DEF Sound
<1>3. Counted' /\ Emptied'
  BY <1>1, CountedStep, EmptiedStep DEF Sound
<1>. QED
  BY <1>1, <1>2, <1>3 DEF Sound

THEOREM SoundHolds == Spec => []Sound
  BY SoundInit, SoundStep, PTL DEF Spec

\* The types, for every zip: in particular a document's parent is made before it,
\* every path that has been dealt with has a document, and so has every commit
\* (mdimport.go 172-254).
THEOREM TypeHolds == Spec => []TypeOK
<1>1. ASSUME Sound
      PROVE  TypeOK
  <2>1. Tree /\ Fields /\ Ids = 1 .. Len(docs) /\ Len(docs) \in Nat
    BY <1>1, IdsOf DEF Sound, Typed, Tree
  <2>2. \A d \in Ids : Parent(d) \in 0 .. d - 1
    BY <2>1, ParentIs
  <2>. QED
    BY <2>1, <2>2 DEF TypeOK, Fields, Tree
<1>. QED
  BY <1>1, SoundHolds, PTL

\* Every text that the import writes is below the documents that its path names, in
\* one document, which has no other entry's text: for every zip, whatever names make
\* the same slug, whatever users do meanwhile (mdimport.go 172-254).
THEOREM EntriesKeepTheirPlace == Spec => []EntriesHaveTheirPlace
<1>1. Sound => EntriesHaveTheirPlace
  BY DEF Sound, Settled
<1>. QED
  BY <1>1, SoundHolds, PTL

\* The counts of the job are those of what went in, and at the end every entry has
\* been counted once (mdimport.go 211-279).
THEOREM CountsHold == Spec => []CountsAreTrue
<1>1. Sound => CountsAreTrue
  BY DEF Sound, Counted, Stages, CountsAreTrue
<1>. QED
  BY <1>1, SoundHolds, PTL

\* The rollback takes the whole tree, however deep, but for what was inserted below
\* a document that had gone to the bin (mdimport.go 281-284, trash.go 11-26).
THEOREM NothingLeft == Spec => []NothingLeftOfNothing
<1>1. Sound => NothingLeftOfNothing
  BY DEF Sound, Emptied, NothingLeftOfNothing
<1>. QED
  BY <1>1, SoundHolds, PTL
=============================================================================
