------------------------ MODULE MeshInventoryProofs ------------------------
(* MeshInventory shows one listing at a time, for any items, any number of *)
(* overlapping calls, and any number of boots and listings.                *)
EXTENDS MeshInventory, TLAPS

Holds(c) == call[c].pc \in {"paging", "got", "begun"}

Issued(cur) == \/ cur = NoCursor
               \/ cur \in Cursor /\ cur.epoch < epoch
               \/ cur \in Cursor /\ cur.epoch = epoch /\ cur.rev <= rev

\* Every cursor anywhere was handed out by the source.
CursorsIssued ==
    /\ Issued(peer.cur)
    /\ \A i \in Items : Issued(file[i].cur)
    /\ \A c \in Calls : Issued(call[c].cur)
    /\ \A c \in Calls : Holds(c) => call[c].cur \in Cursor
    /\ \A entry \in cache : entry.rev <= rev

\* A cursor under way is under way in one call, and was never written.
CursorsApart ==
    \A c \in Calls : Holds(c) =>
        /\ \A d \in Calls : d # c /\ Holds(d) => call[d].cur # call[c].cur
        /\ peer.cur # call[c].cur
        /\ \A i \in Items : file[i].cur # call[c].cur

\* What a call has collected comes from the one listing it started with.
PagesMatch ==
    \A c \in Calls :
        /\ call[c].pc = "paging" =>
             /\ \A i \in Items : call[c].acc[i] \in {Absent, call[c].all[i]}
             /\ call[c].cur.epoch = epoch =>
                  \A entry \in cache : entry.rev = call[c].cur.rev => entry.all = call[c].all
        /\ call[c].pc \in {"got", "begun"} => call[c].acc = call[c].all

\* The files under the committed cursor are that listing.
FilesMatch ==
    \A i \in Items :
        /\ file[i].fr # "none" /\ file[i].cur = peer.cur =>
             /\ file[i].fr = "gone" <=> shown[i] = Absent
             /\ file[i].fr # "gone" => file[i].val = shown[i]
        /\ shown[i] # Absent => file[i].fr # "none"

IInv == TypeOK /\ CursorsIssued /\ CursorsApart /\ PagesMatch /\ FilesMatch

----------------------------------------------------------------------------
(* Types.                                                                  *)

\* Adding a page to what was collected gives a listing again.
LEMMA WithType ==
    ASSUME NEW acc \in Listing, NEW list \in Listing, NEW page \in SUBSET Items
    PROVE  With(acc, list, page) \in Listing
BY DEF With, Listing

\* Marking changes freshness alone, and neither makes an item gone nor brings
\* one back (markPeerInventoriesSyncingLocked, MarkPeerDisconnected).
LEMMA MarkedFacts ==
    ASSUME TypeOK, NEW fr \in {"syncing", "stale"}, NEW items \in SUBSET Items
    PROVE  LET f == Marked(fr, items) IN
           /\ f \in [Items -> [cur : Cursor \cup {NoCursor},
                               fr : {"none", "fresh", "syncing", "stale", "gone"},
                               val : Values \cup {Absent}]]
           /\ \A i \in Items : /\ f[i].cur = file[i].cur
                               /\ f[i].val = file[i].val
                               /\ f[i].fr = "none" <=> file[i].fr = "none"
                               /\ f[i].fr = "gone" <=> file[i].fr = "gone"
BY DEF Marked, TypeOK

\* The files a commit writes are well formed.
LEMMA WrittenType ==
    ASSUME TypeOK, NEW cur \in Cursor, NEW acc \in Listing, NEW items \in SUBSET Items
    PROVE  Written(cur, acc, items) \in [Items -> [cur : Cursor \cup {NoCursor},
                               fr : {"none", "fresh", "syncing", "stale", "gone"},
                               val : Values \cup {Absent}]]
<1> DEFINE Rec == [cur : Cursor \cup {NoCursor},
                   fr : {"none", "fresh", "syncing", "stale", "gone"},
                   val : Values \cup {Absent}]
<1>1. \A i \in Items : file[i] \in Rec /\ acc[i] \in Values \cup {Absent}
  BY DEF TypeOK, Listing
<1>2. \A v \in Values \cup {Absent} : [cur |-> cur, fr |-> "fresh", val |-> v] \in Rec
  OBVIOUS
<1>3. \A r \in Rec : [r EXCEPT !.cur = cur, !.fr = "gone"] \in Rec
  OBVIOUS
<1> HIDE DEF Rec
<1>4. Written(cur, acc, items) \in [Items -> Rec]
  BY <1>1, <1>2, <1>3 DEF Written
<1>5. QED BY <1>4 DEF Rec

\* A call record with other fields of the right kind is a call record.
LEMMA IdleType == Idle \in [pc : {"idle", "marked", "listed", "paging", "got", "begun"},
                           cur : Cursor \cup {NoCursor}, all : Listing, acc : Listing]
BY DEF Idle, Listing, Nothing

----------------------------------------------------------------------------
(* Steps that neither hand out a cursor nor write one.                     *)

\* The invariant survives any step that only marks files, drops pages, lets
\* go of calls or begins a commit.
LEMMA QuietStep ==
    ASSUME IInv, TypeOK',
           epoch' = epoch, rev' >= rev, cache' \subseteq cache,
           peer'.cur = peer.cur, shown' = shown,
           \A i \in Items : /\ file'[i].cur = file[i].cur
                            /\ file'[i].val = file[i].val
                            /\ file'[i].fr = "none" <=> file[i].fr = "none"
                            /\ file'[i].fr = "gone" <=> file[i].fr = "gone",
           \A c \in Calls :
              \/ call'[c] = call[c]
              \/ /\ call'[c].pc \in {"idle", "marked", "listed"}
                 /\ call'[c].cur \in {NoCursor, call[c].cur}
              \/ /\ call[c].pc = "got"
                 /\ call'[c] = [call[c] EXCEPT !.pc = "begun"]
    PROVE  IInv'
<1>1. \A cur : Issued(cur) => Issued(cur)'
  BY DEF Issued, IInv, TypeOK, Cursor
<1>2. \A c \in Calls : Holds(c)' => /\ Holds(c)
                                    /\ call'[c].cur = call[c].cur
                                    /\ call'[c].all = call[c].all
                                    /\ call'[c].acc = call[c].acc
  BY DEF Holds, IInv, TypeOK
<1>3. CursorsIssued'
  <2>1. Issued(peer.cur)' /\ \A i \in Items : Issued(file[i].cur)'
    BY <1>1 DEF IInv, CursorsIssued, Issued
  <2>2. \A c \in Calls : Issued(call[c].cur)'
    <3>1. SUFFICES ASSUME NEW c \in Calls PROVE Issued(call[c].cur)'
      OBVIOUS
    <3>2. call'[c].cur \in {NoCursor, call[c].cur}
      BY DEF IInv, TypeOK
    <3>3. QED BY <1>1, <3>2 DEF IInv, CursorsIssued, Issued
  <2>3. \A c \in Calls : Holds(c)' => call'[c].cur \in Cursor
    BY <1>2 DEF IInv, CursorsIssued
  <2>4. \A entry \in cache' : entry.rev <= rev'
    BY DEF IInv, CursorsIssued, TypeOK
  <2>5. QED BY <2>1, <2>2, <2>3, <2>4 DEF CursorsIssued
<1>4. CursorsApart'
  BY <1>2 DEF IInv, CursorsApart
<1>5. PagesMatch'
  <2>1. \A c \in Calls : call'[c].pc = "paging" => call[c].pc = "paging"
    BY DEF IInv, TypeOK
  <2>2. \A c \in Calls : call'[c].pc \in {"got", "begun"} => call[c].pc \in {"got", "begun"}
    BY DEF IInv, TypeOK
  <2>3. QED BY <1>2, <2>1, <2>2 DEF IInv, PagesMatch, Holds
<1>6. FilesMatch'
  BY DEF IInv, FilesMatch
<1>7. QED BY <1>3, <1>4, <1>5, <1>6 DEF IInv

\* As QuietStep, for a step that leaves the store alone but for a marking.
LEMMA QuietMark ==
    ASSUME IInv, TypeOK',
           \/ UNCHANGED store
           \/ MarkAll("syncing") \/ MarkSome("syncing")
           \/ MarkAll("stale") \/ MarkSome("stale"),
           epoch' = epoch, rev' >= rev, cache' \subseteq cache,
           \A c \in Calls :
              \/ call'[c] = call[c]
              \/ /\ call'[c].pc \in {"idle", "marked", "listed"}
                 /\ call'[c].cur \in {NoCursor, call[c].cur}
              \/ /\ call[c].pc = "got"
                 /\ call'[c] = [call[c] EXCEPT !.pc = "begun"]
    PROVE  IInv'
<1>1. peer'.cur = peer.cur /\ shown' = shown
  BY DEF store, MarkAll, MarkSome, IInv, TypeOK
<1>2. \A i \in Items : /\ file'[i].cur = file[i].cur
                       /\ file'[i].val = file[i].val
                       /\ file'[i].fr = "none" <=> file[i].fr = "none"
                       /\ file'[i].fr = "gone" <=> file[i].fr = "gone"
  <2>1. CASE UNCHANGED store
    BY <2>1 DEF store
  <2>2. CASE \E fr \in {"syncing", "stale"} : \E items \in SUBSET Items : file' = Marked(fr, items)
    <3>1. PICK fr \in {"syncing", "stale"}, items \in SUBSET Items : file' = Marked(fr, items)
      BY <2>2
    <3>2. QED BY <3>1, MarkedFacts DEF IInv
  <2>3. Items \in SUBSET Items
    OBVIOUS
  <2>4. QED BY <2>1, <2>2, <2>3 DEF MarkAll, MarkSome
<1>3. QED BY <1>1, <1>2, QuietStep

----------------------------------------------------------------------------
(* Type correctness.                                                       *)

\* Whatever marks the store leaves it well typed.
LEMMA StoreType ==
    ASSUME TypeOK,
           \/ UNCHANGED store
           \/ MarkAll("syncing") \/ MarkSome("syncing")
           \/ MarkAll("stale") \/ MarkSome("stale")
    PROVE  /\ file' \in [Items -> [cur : Cursor \cup {NoCursor},
                               fr : {"none", "fresh", "syncing", "stale", "gone"},
                               val : Values \cup {Absent}]]
           /\ peer' \in [cur : Cursor \cup {NoCursor}, fr : {"fresh", "syncing", "stale"}]
           /\ shown' \in Listing
<1>1. peer' \in [cur : Cursor \cup {NoCursor}, fr : {"fresh", "syncing", "stale"}]
  BY DEF store, MarkAll, MarkSome, TypeOK
<1>2. shown' \in Listing
  BY DEF store, MarkAll, MarkSome, TypeOK
<1>3. CASE UNCHANGED store
  BY <1>1, <1>2, <1>3 DEF store, TypeOK
<1>4. CASE \E fr \in {"syncing", "stale"} : \E items \in SUBSET Items : file' = Marked(fr, items)
  <2>1. PICK fr \in {"syncing", "stale"}, items \in SUBSET Items : file' = Marked(fr, items)
    BY <1>4
  <2>2. QED BY <1>1, <1>2, <2>1, MarkedFacts
<1>5. Items \in SUBSET Items
  OBVIOUS
<1>6. QED BY <1>3, <1>4, <1>5 DEF MarkAll, MarkSome

\* The type invariant is inductive, but that a commit needs its call to hold a
\* cursor.
LEMMA TypeStep ==
    ASSUME TypeOK, CursorsIssued, [Next]_vars
    PROVE  TypeOK'
<1> DEFINE CallRec == [pc : {"idle", "marked", "listed", "paging", "got", "begun"},
                       cur : Cursor \cup {NoCursor}, all : Listing, acc : Listing]
<1> USE MeshAssumption
<1>0. Idle \in CallRec
  BY IdleType
<1>1. CASE UNCHANGED vars
  BY <1>1 DEF vars, TypeOK
<1>2. CASE SourceChanges
  BY <1>2 DEF SourceChanges, TypeOK, Listing
<1>3. CASE SourceRestarts
  <2>1. call' \in [Calls -> CallRec]
    BY <1>3, <1>0 DEF SourceRestarts, TypeOK
  <2>2. QED BY <1>3, <2>1 DEF SourceRestarts, TypeOK
<1>4. CASE OtherListing
  BY <1>4 DEF OtherListing, nextMeshRevision, TypeOK
<1>5. CASE \E entry \in cache : PageExpires(entry)
  BY <1>5 DEF PageExpires, TypeOK
<1>6. CASE MarkPeerDisconnected
  <2>1. UNCHANGED <<inv, epoch, rev, cache, call>> /\ (MarkAll("stale") \/ MarkSome("stale"))
    BY <1>6 DEF MarkPeerDisconnected, source
  <2>2. QED BY <2>1, StoreType DEF TypeOK
<1>7. CASE ObserverRestarts
  <2>1. call' \in [Calls -> CallRec]
    BY <1>7, <1>0 DEF ObserverRestarts
  <2>2. QED BY <1>7, <2>1 DEF ObserverRestarts, source, store, TypeOK
<1>8. ASSUME NEW c \in Calls, Step(c) PROVE TypeOK'
  <2>1. CASE SyncStarts(c)
    <3>1. call' \in [Calls -> CallRec]
      BY <2>1 DEF SyncStarts, TypeOK
    <3>2. UNCHANGED source /\ (MarkAll("syncing") \/ MarkSome("syncing"))
      BY <2>1 DEF SyncStarts
    <3>3. QED BY <3>1, <3>2, StoreType DEF source, TypeOK
  <2>2. CASE ListCatalog(c)
    <3>1. call' \in [Calls -> CallRec]
      <4>1. [call[c] EXCEPT !.pc = "listed", !.all = inv] \in CallRec
        <5>1. call[c] \in CallRec /\ inv \in Listing
          BY DEF TypeOK
        <5>2. QED BY <5>1
      <4>2. call' = [call EXCEPT ![c] = [call[c] EXCEPT !.pc = "listed", !.all = inv]]
        <5>1. call' = [call EXCEPT ![c].pc = "listed", ![c].all = inv]
          BY <2>2 DEF ListCatalog
        <5>2. call \in [Calls -> CallRec]
          BY DEF TypeOK
        <5> HIDE DEF CallRec
        <5>3. QED BY <5>1, <5>2
      <4>3. call \in [Calls -> CallRec]
        BY DEF TypeOK
      <4> HIDE DEF CallRec
      <4>4. QED BY <4>1, <4>2, <4>3
    <3>2. QED BY <2>2, <3>1 DEF ListCatalog, source, store, TypeOK
  <2>3. CASE FirstPage(c)
    <3>1. PICK page \in Pages(call[c].all, Nothing) :
            LET acc == With(Nothing, call[c].all, page)
                more == Present(acc) # Present(call[c].all)
            IN /\ cache' = IF more THEN cache \cup {[rev |-> rev + 1, all |-> call[c].all]} ELSE cache
               /\ call' = [call EXCEPT ![c].pc = IF more THEN "paging" ELSE "got",
                                       ![c].cur = [epoch |-> epoch, rev |-> rev + 1],
                                       ![c].acc = acc]
      BY <2>3 DEF FirstPage, FirstPageAt
    <3>2. page \in SUBSET Items
      BY DEF Pages, Present
    <3>3. Nothing \in Listing /\ call[c].all \in Listing
      BY DEF Nothing, Listing, TypeOK
    <3>4. With(Nothing, call[c].all, page) \in Listing
      BY <3>2, <3>3, WithType
    <3>5. rev' \in 0..MaxRev /\ rev + 1 \in 1..MaxRev
      BY <2>3 DEF FirstPage, FirstPageAt, nextMeshRevision, TypeOK
    <3>6. [epoch |-> epoch, rev |-> rev + 1] \in Cursor
      BY <3>5 DEF Cursor, TypeOK
    <3>7. call' \in [Calls -> CallRec]
      <4> DEFINE acc == With(Nothing, call[c].all, page)
                 pc == IF Present(acc) # Present(call[c].all) THEN "paging" ELSE "got"
                 cur == [epoch |-> epoch, rev |-> rev + 1]
                 rec == [call[c] EXCEPT !.pc = pc, !.cur = cur, !.acc = acc]
      <4>1. rec \in CallRec
        <5>1. pc \in {"paging", "got"} /\ acc \in Listing /\ cur \in Cursor
          BY <3>4, <3>6
        <5>2. call[c] \in CallRec
          BY DEF TypeOK
        <5> HIDE DEF pc, acc, cur
        <5>3. QED BY <5>1, <5>2
      <4>2. call' = [call EXCEPT ![c] = rec]
        <5>1. call' = [call EXCEPT ![c].pc = pc, ![c].cur = cur, ![c].acc = acc]
          BY <3>1
        <5>2. call \in [Calls -> CallRec]
          BY DEF TypeOK
        <5> HIDE DEF pc, acc, cur, CallRec
        <5>3. QED BY <5>1, <5>2
      <4>3. call \in [Calls -> CallRec]
        BY DEF TypeOK
      <4> HIDE DEF CallRec, rec
      <4>4. QED BY <4>1, <4>2, <4>3
    <3>8. cache' \subseteq [rev : 1..MaxRev, all : Listing]
      BY <3>1, <3>3, <3>5 DEF TypeOK
    <3>9. QED BY <2>3, <3>5, <3>7, <3>8 DEF FirstPage, FirstPageAt, store, TypeOK
  <2>4. ASSUME NEW entry \in cache, NextPage(c, entry) PROVE TypeOK'
    <3>1. PICK page \in Pages(entry.all, call[c].acc) :
            LET acc == With(call[c].acc, entry.all, page)
                more == ~ Present(entry.all) \subseteq Present(acc)
            IN /\ cache' = IF more THEN cache ELSE cache \ {entry}
               /\ call' = [call EXCEPT ![c] =
                          IF ~ (call[c].cur.epoch = epoch) THEN Idle
                          ELSE [@ EXCEPT !.pc = IF more THEN "paging" ELSE "got", !.acc = acc]]
      BY <2>4 DEF NextPage, NextPageFrom
    <3>2. page \in SUBSET Items
      BY DEF Pages, Present
    <3>3. With(call[c].acc, entry.all, page) \in Listing
      BY <3>2, WithType DEF TypeOK
    <3>4. call' \in [Calls -> CallRec]
      <4> DEFINE acc == With(call[c].acc, entry.all, page)
                 pc == IF ~ Present(entry.all) \subseteq Present(acc) THEN "paging" ELSE "got"
                 rec == [call[c] EXCEPT !.pc = pc, !.acc = acc]
      <4>1. rec \in CallRec
        <5>1. pc \in {"paging", "got"} /\ acc \in Listing
          BY <3>3
        <5>2. call[c] \in CallRec
          BY DEF TypeOK
        <5> HIDE DEF pc, acc
        <5>3. QED BY <5>1, <5>2
      <4>2. call' = [call EXCEPT ![c] = IF ~ (call[c].cur.epoch = epoch) THEN Idle ELSE rec]
        BY <3>1
      <4>3. call \in [Calls -> CallRec]
        BY DEF TypeOK
      <4> HIDE DEF CallRec, rec
      <4>4. QED BY <1>0, <4>1, <4>2, <4>3
    <3>5. cache' \subseteq cache
      BY <3>1
    <3>6. QED BY <2>4, <3>4, <3>5 DEF NextPage, NextPageFrom, store, TypeOK
  <2>5. CASE CallFails(c)
    <3>1. call' \in [Calls -> CallRec]
      BY <2>5, <1>0 DEF CallFails, TypeOK
    <3>2. QED BY <2>5, <3>1 DEF CallFails, source, store, TypeOK
  <2>6. CASE BeginInventory(c)
    <3>1. call' \in [Calls -> CallRec]
      BY <2>6, <1>0 DEF BeginInventory, TypeOK
    <3>2. UNCHANGED source /\ (UNCHANGED store \/ MarkAll("syncing") \/ MarkSome("syncing"))
      BY <2>6 DEF BeginInventory
    <3>3. QED BY <3>1, <3>2, StoreType DEF source, TypeOK
  <2>7. CASE Commit(c)
    <3>1. call' \in [Calls -> CallRec]
      BY <2>7, <1>0 DEF Commit, TypeOK
    <3>2. call[c].cur \in Cursor /\ call[c].acc \in Listing /\ call[c].all \in Listing
      BY <2>7 DEF Commit, CursorsIssued, Holds, TypeOK
    <3>3. \A items \in SUBSET Items : Written(call[c].cur, call[c].acc, items)
                 \in [Items -> [cur : Cursor \cup {NoCursor},
                               fr : {"none", "fresh", "syncing", "stale", "gone"},
                               val : Values \cup {Absent}]]
      BY <3>2, WrittenType
    <3>4. UNCHANGED source
      BY <2>7 DEF Commit
    <3>5. CASE UNCHANGED store
      BY <3>1, <3>4, <3>5 DEF source, store, TypeOK
    <3>6. CASE CommitAll(c)
      <4>1. peer' \in [cur : Cursor \cup {NoCursor}, fr : {"fresh", "syncing", "stale"}]
        BY <3>2, <3>6 DEF CommitAll
      <4>2. QED BY <3>1, <3>2, <3>3, <3>4, <3>6, <4>1 DEF CommitAll, source, TypeOK
    <3>7. CASE CommitSome(c)
      BY <3>1, <3>3, <3>4, <3>7 DEF CommitSome, source, TypeOK
    <3>8. QED BY <2>7, <3>5, <3>6, <3>7 DEF Commit
  <2>8. QED BY <1>8, <2>1, <2>2, <2>3, <2>4, <2>5, <2>6, <2>7 DEF Step
<1>9. QED BY <1>1, <1>2, <1>3, <1>4, <1>5, <1>6, <1>7, <1>8 DEF Next

----------------------------------------------------------------------------
(* Steps that hand out, use up or outdate a cursor.                        *)

\* A restart of the source outdates cursors and empties the page cache.
LEMMA RestartStep ==
    ASSUME IInv, TypeOK', SourceRestarts
    PROVE  IInv'
<1>1. \A cur : Issued(cur) => Issued(cur)'
  BY DEF SourceRestarts, Issued, IInv, TypeOK, Cursor
<1>2. \A c \in Calls : \/ call'[c] = call[c]
                       \/ call'[c].pc = "idle" /\ call'[c].cur = NoCursor
  BY DEF SourceRestarts, Idle
<1>3. CursorsIssued'
  <2>1. Issued(peer.cur)' /\ \A i \in Items : Issued(file[i].cur)'
    BY <1>1 DEF SourceRestarts, IInv, CursorsIssued, Issued
  <2>2. \A c \in Calls : Issued(call[c].cur)'
    BY <1>1, <1>2 DEF IInv, CursorsIssued, Issued
  <2>3. \A c \in Calls : Holds(c)' => call'[c].cur \in Cursor
    BY <1>2 DEF IInv, CursorsIssued, Holds
  <2>4. cache' = {}
    BY DEF SourceRestarts
  <2>5. QED BY <2>1, <2>2, <2>3, <2>4 DEF CursorsIssued
<1>4. CursorsApart'
  BY <1>2 DEF SourceRestarts, IInv, CursorsApart, Holds
<1>5. PagesMatch'
  BY <1>2 DEF SourceRestarts, IInv, PagesMatch
<1>6. FilesMatch'
  BY DEF SourceRestarts, IInv, FilesMatch
<1>7. QED BY <1>3, <1>4, <1>5, <1>6 DEF IInv

\* The first page comes with a cursor nobody has seen.
LEMMA FirstPageStep ==
    ASSUME IInv, TypeOK', NEW c \in Calls, FirstPage(c)
    PROVE  IInv'
<1> DEFINE new == [epoch |-> epoch, rev |-> rev + 1]
<1>1. PICK page \in Pages(call[c].all, Nothing) :
        LET acc == With(Nothing, call[c].all, page)
            more == Present(acc) # Present(call[c].all)
        IN /\ cache' = IF more THEN cache \cup {[rev |-> rev + 1, all |-> call[c].all]} ELSE cache
           /\ call' = [call EXCEPT ![c].pc = IF more THEN "paging" ELSE "got",
                                   ![c].cur = [epoch |-> epoch, rev |-> rev + 1],
                                   ![c].acc = acc]
  BY DEF FirstPage, FirstPageAt
<1>2. /\ rev' = rev + 1
      /\ rev \in Nat /\ epoch \in Nat
      /\ UNCHANGED <<inv, epoch, file, peer, shown>>
  BY DEF FirstPage, FirstPageAt, nextMeshRevision, store, IInv, TypeOK
<1>3. new \in Cursor
  BY <1>2 DEF FirstPage, FirstPageAt, nextMeshRevision, IInv, TypeOK, Cursor
<1>4. /\ \A d \in Calls : d # c => call'[d] = call[d]
      /\ call'[c].cur = new
      /\ call'[c].all = call[c].all
      /\ call'[c].acc = With(Nothing, call[c].all, page)
      /\ call'[c].pc = IF Present(With(Nothing, call[c].all, page)) # Present(call[c].all)
                       THEN "paging" ELSE "got"
  BY <1>1 DEF IInv, TypeOK
<1>5. \A cur : Issued(cur) => Issued(cur)' /\ cur # new
  BY <1>2 DEF Issued, Cursor, NoCursor
<1>6. \A cur : cur = new => Issued(cur)'
  BY <1>2, <1>3 DEF Issued
<1>7. cache' \subseteq cache \cup {[rev |-> rev + 1, all |-> call[c].all]}
  BY <1>1
<1> HIDE DEF new
<1>8. CursorsIssued'
  <2>1. Issued(peer.cur)' /\ \A i \in Items : Issued(file[i].cur)'
    BY <1>2, <1>5 DEF IInv, CursorsIssued, Issued
  <2>2. \A d \in Calls : Issued(call[d].cur)'
    <3>1. \A d \in Calls : call'[d].cur = new \/ Issued(call'[d].cur)
      BY <1>4 DEF IInv, CursorsIssued
    <3>2. QED BY <1>5, <1>6, <3>1 DEF Issued
  <2>3. \A d \in Calls : Holds(d)' => call'[d].cur \in Cursor
    BY <1>3, <1>4 DEF IInv, CursorsIssued, Holds
  <2>4. \A entry \in cache' : entry.rev <= rev'
    BY <1>2, <1>7 DEF IInv, CursorsIssued, TypeOK
  <2>5. QED BY <2>1, <2>2, <2>3, <2>4 DEF CursorsIssued
<1>9. CursorsApart'
  <2>1. \A d \in Calls : call[d].cur # new
    BY <1>5 DEF IInv, CursorsIssued
  <2>2. peer.cur # new /\ \A i \in Items : file[i].cur # new
    BY <1>5 DEF IInv, CursorsIssued
  <2>3. QED BY <1>2, <1>4, <2>1, <2>2 DEF IInv, CursorsApart, Holds
<1>10. PagesMatch'
  <2>1. \A i \in Items : call'[c].acc[i] \in {Absent, call'[c].all[i]}
    BY <1>4 DEF With, Nothing
  <2>2. call'[c].pc = "got" => call'[c].acc = call'[c].all
    <3>1. SUFFICES ASSUME call'[c].pc = "got" PROVE call'[c].acc = call'[c].all
      OBVIOUS
    <3>2. Present(call'[c].acc) = Present(call'[c].all)
      BY <1>4, <3>1
    <3>3. \A i \in Items : call'[c].acc[i] = call'[c].all[i]
      BY <2>1, <3>2 DEF Present
    <3>4. call'[c].acc \in [Items -> Values \cup {Absent}] /\ call'[c].all \in [Items -> Values \cup {Absent}]
      BY DEF TypeOK, Listing
    <3>5. QED BY <3>3, <3>4
  <2>3. call'[c].pc \in {"paging", "got"}
    BY <1>4
  <2>4. \A entry \in cache' : entry.rev = call'[c].cur.rev => entry.all = call'[c].all
    <3>1. \A entry \in cache : entry.rev # rev + 1 /\ entry.rev \in Nat
      BY <1>2 DEF IInv, CursorsIssued, TypeOK
    <3>2. call'[c].cur.rev = rev + 1
      BY <1>4 DEF new
    <3>3. QED BY <1>4, <1>7, <3>1, <3>2
  <2>5. ASSUME NEW d \in Calls, d # c, call'[d].pc = "paging", call'[d].cur.epoch = epoch',
               NEW entry \in cache', entry.rev = call'[d].cur.rev
        PROVE  entry.all = call'[d].all
    <3>1. call'[d] = call[d] /\ call[d].pc = "paging" /\ call[d].cur.epoch = epoch
      BY <1>2, <1>4, <2>5
    <3>2. call[d].cur \in Cursor /\ Issued(call[d].cur)
      BY <3>1 DEF IInv, CursorsIssued, Holds
    <3>3. call[d].cur.rev <= rev
      BY <1>2, <3>1, <3>2 DEF Issued, Cursor, NoCursor
    <3>4. entry \in cache
      BY <1>2, <1>7, <2>5, <3>1, <3>2, <3>3 DEF Cursor
    <3>5. QED BY <2>5, <3>1, <3>4 DEF IInv, PagesMatch
  <2>6. QED BY <1>4, <2>1, <2>2, <2>3, <2>4, <2>5 DEF IInv, PagesMatch
<1>11. FilesMatch'
  BY <1>2 DEF IInv, FilesMatch
<1>12. QED BY <1>8, <1>9, <1>10, <1>11 DEF IInv

\* A further page is taken over only from the listing the call started with.
LEMMA NextPageStep ==
    ASSUME IInv, TypeOK', NEW c \in Calls, NEW entry \in cache, NextPage(c, entry)
    PROVE  IInv'
<1>1. PICK page \in Pages(entry.all, call[c].acc) :
        LET acc == With(call[c].acc, entry.all, page)
            more == ~ Present(entry.all) \subseteq Present(acc)
        IN /\ cache' = IF more THEN cache ELSE cache \ {entry}
           /\ call' = [call EXCEPT ![c] =
                      IF ~ (call[c].cur.epoch = epoch) THEN Idle
                      ELSE [@ EXCEPT !.pc = IF more THEN "paging" ELSE "got", !.acc = acc]]
  BY DEF NextPage, NextPageFrom
<1>2. /\ UNCHANGED <<inv, epoch, rev, file, peer, shown>>
      /\ cache' \subseteq cache
      /\ call[c].pc = "paging"
      /\ entry.rev = call[c].cur.rev
  BY <1>1 DEF NextPage, NextPageFrom, store
<1>3. \A d \in Calls : d # c => call'[d] = call[d]
  BY <1>1 DEF IInv, TypeOK
<1>4. CASE call[c].cur.epoch # epoch
  <2>1. call'[c] = Idle
    BY <1>1, <1>4 DEF IInv, TypeOK
  <2>2. \A d \in Calls : call'[d] = call[d] \/ (call'[d].pc = "idle" /\ call'[d].cur = NoCursor)
    BY <1>3, <2>1 DEF Idle
  <2>3. UNCHANGED store /\ rev' >= rev
    BY <1>2 DEF store, IInv, TypeOK
  <2>4. QED BY <1>2, <2>2, <2>3, QuietMark
<1>5. CASE call[c].cur.epoch = epoch
  <2> DEFINE acc == With(call[c].acc, entry.all, page)
  <2>1. /\ call'[c].cur = call[c].cur
        /\ call'[c].all = call[c].all
        /\ call'[c].acc = acc
        /\ call'[c].pc \in {"paging", "got"}
        /\ call'[c].pc = "got" => Present(entry.all) \subseteq Present(acc)
    BY <1>1, <1>5 DEF IInv, TypeOK
  <2>2. entry.all = call[c].all
    BY <1>2, <1>5 DEF IInv, PagesMatch
  <2>3. \A i \in Items : acc[i] \in {Absent, call[c].all[i]}
    BY <1>2, <2>2 DEF IInv, PagesMatch, With
  <2> HIDE DEF acc
  <2>4. \A d \in Calls : /\ call'[d].cur = call[d].cur
                         /\ Holds(d)' => Holds(d)
    BY <1>2, <1>3, <2>1 DEF Holds
  <2>5. \A cur : Issued(cur) => Issued(cur)'
    BY <1>2 DEF Issued
  <2>6. CursorsIssued'
    <3>1. Issued(peer.cur)' /\ \A i \in Items : Issued(file[i].cur)'
      BY <1>2, <2>5 DEF IInv, CursorsIssued, Issued
    <3>2. \A d \in Calls : Issued(call[d].cur)'
      BY <2>4, <2>5 DEF IInv, CursorsIssued, Issued
    <3>3. QED BY <1>2, <2>4, <3>1, <3>2 DEF IInv, CursorsIssued
  <2>7. CursorsApart'
    BY <1>2, <2>4 DEF IInv, CursorsApart
  <2>8. PagesMatch'
    <3>1. call'[c].pc = "got" => call'[c].acc = call'[c].all
      <4>1. SUFFICES ASSUME call'[c].pc = "got" PROVE call'[c].acc = call'[c].all
        OBVIOUS
      <4>2. \A i \in Items : acc[i] = call[c].all[i]
        BY <2>1, <2>2, <2>3, <4>1 DEF Present
      <4>3. call'[c].acc \in [Items -> Values \cup {Absent}] /\ call'[c].all \in [Items -> Values \cup {Absent}]
        BY DEF TypeOK, Listing
      <4>4. QED BY <2>1, <4>2, <4>3
    <3>2. \A e \in cache' : e.rev = call'[c].cur.rev => e.all = call'[c].all
      BY <1>2, <1>5, <2>1 DEF IInv, PagesMatch
    <3>3. \A d \in Calls : d # c =>
             /\ call'[d].pc = "paging" =>
                  /\ \A i \in Items : call'[d].acc[i] \in {Absent, call'[d].all[i]}
                  /\ call'[d].cur.epoch = epoch' =>
                        \A e \in cache' : e.rev = call'[d].cur.rev => e.all = call'[d].all
             /\ call'[d].pc \in {"got", "begun"} => call'[d].acc = call'[d].all
      BY <1>2, <1>3 DEF IInv, PagesMatch
    <3>4. \A i \in Items : call'[c].acc[i] \in {Absent, call'[c].all[i]}
      BY <2>1, <2>3
    <3>5. QED BY <2>1, <3>1, <3>2, <3>3, <3>4 DEF PagesMatch
  <2>9. FilesMatch'
    BY <1>2 DEF IInv, FilesMatch
  <2>10. QED BY <2>6, <2>7, <2>8, <2>9 DEF IInv
<1>6. QED BY <1>4, <1>5

\* A commit, whole or interrupted, uses its cursor up: it stays out of every
\* other call, and only the whole commit makes it the committed one.
LEMMA CommitStep ==
    ASSUME IInv, TypeOK', NEW c \in Calls, Commit(c)
    PROVE  IInv'
<1>1. /\ UNCHANGED <<inv, epoch, rev, cache>>
      /\ call'[c] = Idle
      /\ \A d \in Calls : d # c => call'[d] = call[d]
      /\ Holds(c)
      /\ call[c].pc = "begun"
  BY DEF Commit, source, Holds, IInv, TypeOK
<1>2. CASE UNCHANGED store
  <2>1. \A d \in Calls : call'[d] = call[d] \/ (call'[d].pc = "idle" /\ call'[d].cur = NoCursor)
    BY <1>1 DEF Idle
  <2>2. rev' >= rev
    BY <1>1 DEF IInv, TypeOK
  <2>3. QED BY <1>1, <1>2, <2>1, <2>2, QuietMark
<1>3. CASE CommitAll(c) \/ CommitSome(c)
  <2> DEFINE cur == call[c].cur
             acc == call[c].acc
  <2>1. PICK items \in SUBSET Items :
          /\ file' = Written(cur, acc, items)
          /\ CommitAll(c) => items = Items
    BY <1>3 DEF CommitAll, CommitSome
  <2>2. /\ cur \in Cursor /\ Issued(cur) /\ peer.cur # cur
        /\ \A i \in Items : file[i].cur # cur
        /\ acc = call[c].all
    BY <1>1 DEF IInv, CursorsIssued, CursorsApart, PagesMatch
  <2>3. \A i \in Items :
          \/ file'[i] = file[i] /\ (i \in items => acc[i] = Absent /\ file[i].fr = "none")
          \/ /\ file'[i].cur = cur
             /\ acc[i] # Absent
             /\ file'[i].fr = "fresh" /\ file'[i].val = acc[i]
          \/ /\ file'[i].cur = cur
             /\ acc[i] = Absent
             /\ file'[i].fr = "gone"
    <3>1. TAKE i \in Items
    <3>2. file'[i] = IF i \notin items THEN file[i]
                     ELSE IF acc[i] # Absent THEN [cur |-> cur, fr |-> "fresh", val |-> acc[i]]
                     ELSE IF file[i].fr = "none" THEN file[i]
                     ELSE [file[i] EXCEPT !.cur = cur, !.fr = "gone"]
      BY <2>1 DEF Written
    <3>3. file[i] \in [cur : Cursor \cup {NoCursor},
                       fr : {"none", "fresh", "syncing", "stale", "gone"},
                       val : Values \cup {Absent}]
      BY DEF IInv, TypeOK
    <3> HIDE DEF cur, acc
    <3>4. QED BY <3>2, <3>3
  <2>4. \/ peer'.cur = peer.cur /\ shown' = shown /\ CommitSome(c)
        \/ peer'.cur = cur /\ shown' = acc /\ items = Items
    BY <1>3, <2>1, <2>2 DEF CommitAll, CommitSome
  <2>5. \A d \in Calls : /\ Holds(d)' => d # c /\ Holds(d)
                         /\ d # c => call'[d] = call[d]
    BY <1>1 DEF Holds, Idle
  <2> HIDE DEF cur, acc
  <2>6. \A x : Issued(x) => Issued(x)'
    BY <1>1 DEF Issued
  <2>7. CursorsIssued'
    <3>1. Issued(peer'.cur) /\ \A i \in Items : Issued(file'[i].cur)
      BY <2>2, <2>3, <2>4 DEF IInv, CursorsIssued
    <3>2. \A d \in Calls : Issued(call'[d].cur)
      BY <1>1 DEF IInv, CursorsIssued, Idle, Issued
    <3>3. Issued(peer.cur)' /\ \A i \in Items : Issued(file[i].cur)'
      BY <2>6, <3>1 DEF Issued
    <3>4. \A d \in Calls : Issued(call[d].cur)'
      BY <2>6, <3>2 DEF Issued
    <3>5. QED BY <1>1, <2>5, <3>3, <3>4 DEF IInv, CursorsIssued
  <2>8. CursorsApart'
    <3>1. \A d \in Calls : Holds(d) /\ d # c => call[d].cur # cur
      BY <1>1 DEF IInv, CursorsApart, cur
    <3>2. ASSUME NEW d \in Calls, Holds(d)'
          PROVE  /\ \A e \in Calls : e # d /\ Holds(e)' => call'[e].cur # call'[d].cur
                 /\ peer'.cur # call'[d].cur
                 /\ \A i \in Items : file'[i].cur # call'[d].cur
      <4>1. d # c /\ Holds(d) /\ call'[d] = call[d]
        BY <2>5, <3>2
      <4>2. \A e \in Calls : e # d /\ Holds(e)' => call'[e].cur # call'[d].cur
        BY <2>5, <4>1 DEF IInv, CursorsApart
      <4>3. peer'.cur # call'[d].cur
        BY <2>4, <3>1, <4>1 DEF IInv, CursorsApart
      <4>4. \A i \in Items : file'[i].cur # call'[d].cur
        BY <2>3, <3>1, <4>1 DEF IInv, CursorsApart
      <4>5. QED BY <4>2, <4>3, <4>4
    <3>3. QED BY <3>2 DEF CursorsApart
  <2>9. PagesMatch'
    BY <1>1, <2>5 DEF IInv, PagesMatch, Idle
  <2>10. FilesMatch'
    <3>1. CASE peer'.cur = peer.cur /\ shown' = shown /\ CommitSome(c)
      BY <2>2, <2>3, <3>1 DEF IInv, FilesMatch
    <3>2. CASE peer'.cur = cur /\ shown' = acc /\ items = Items
      BY <2>2, <2>3, <3>2 DEF FilesMatch
    <3>3. QED BY <2>4, <3>1, <3>2
  <2>11. QED BY <2>7, <2>8, <2>9, <2>10 DEF IInv
<1>4. QED BY <1>2, <1>3 DEF Commit

----------------------------------------------------------------------------

\* The invariant is inductive: one case per action.
LEMMA InductiveStep ==
    ASSUME IInv, [Next]_vars
    PROVE  IInv'
<1>1. TypeOK'
  BY TypeStep DEF IInv
<1>2. rev \in Nat /\ rev >= rev
  BY DEF IInv, TypeOK
<1>3. CASE UNCHANGED vars
  BY <1>1, <1>2, <1>3, QuietMark DEF vars, store
<1>4. CASE SourceChanges
  BY <1>1, <1>2, <1>4, QuietMark DEF SourceChanges, store
<1>5. CASE SourceRestarts
  BY <1>1, <1>5, RestartStep
<1>6. CASE OtherListing
  <2>1. rev' >= rev
    BY <1>2, <1>6 DEF OtherListing, nextMeshRevision
  <2>2. QED BY <1>1, <1>6, <2>1, QuietMark DEF OtherListing, store
<1>7. CASE \E entry \in cache : PageExpires(entry)
  <2>1. cache' \subseteq cache /\ rev' >= rev
    BY <1>2, <1>7 DEF PageExpires
  <2>2. QED BY <1>1, <1>7, <2>1, QuietMark DEF PageExpires, store
<1>8. CASE MarkPeerDisconnected
  <2>1. rev' >= rev /\ cache' \subseteq cache /\ epoch' = epoch /\ call' = call
    BY <1>2, <1>8 DEF MarkPeerDisconnected, source
  <2>2. MarkAll("stale") \/ MarkSome("stale")
    BY <1>8 DEF MarkPeerDisconnected
  <2>3. QED BY <1>1, <2>1, <2>2, QuietMark
<1>9. CASE ObserverRestarts
  <2>1. rev' >= rev /\ cache' \subseteq cache /\ epoch' = epoch /\ UNCHANGED store
    BY <1>2, <1>9 DEF ObserverRestarts, source
  <2>2. \A d \in Calls : call'[d].pc = "idle" /\ call'[d].cur = NoCursor
    BY <1>9 DEF ObserverRestarts, Idle
  <2>3. QED BY <1>1, <2>1, <2>2, QuietMark
<1>10. ASSUME NEW c \in Calls, Step(c) PROVE IInv'
  <2>1. CASE SyncStarts(c) \/ ListCatalog(c) \/ CallFails(c) \/ BeginInventory(c)
    <3>1. rev' >= rev /\ cache' \subseteq cache /\ epoch' = epoch
      BY <1>2, <2>1 DEF SyncStarts, ListCatalog, CallFails, BeginInventory, source
    <3>2. UNCHANGED store \/ MarkAll("syncing") \/ MarkSome("syncing")
      BY <2>1 DEF SyncStarts, ListCatalog, CallFails, BeginInventory
    <3>3. \A d \in Calls :
              \/ call'[d] = call[d]
              \/ /\ call'[d].pc \in {"idle", "marked", "listed"}
                 /\ call'[d].cur \in {NoCursor, call[d].cur}
              \/ /\ call[d].pc = "got"
                 /\ call'[d] = [call[d] EXCEPT !.pc = "begun"]
      <4>1. CASE SyncStarts(c)
        BY <4>1 DEF SyncStarts, IInv, TypeOK
      <4>2. CASE ListCatalog(c)
        BY <4>2 DEF ListCatalog, IInv, TypeOK
      <4>3. CASE CallFails(c)
        BY <4>3 DEF CallFails, Idle, IInv, TypeOK
      <4>4. CASE BeginInventory(c)
        BY <4>4 DEF BeginInventory, Idle, IInv, TypeOK
      <4>5. QED BY <2>1, <4>1, <4>2, <4>3, <4>4
    <3>4. QED BY <1>1, <3>1, <3>2, <3>3, QuietMark
  <2>2. CASE FirstPage(c)
    BY <1>1, <2>2, FirstPageStep
  <2>3. ASSUME NEW entry \in cache, NextPage(c, entry) PROVE IInv'
    BY <1>1, <2>3, NextPageStep
  <2>4. CASE Commit(c)
    BY <1>1, <2>4, CommitStep
  <2>5. QED BY <1>10, <2>1, <2>2, <2>3, <2>4 DEF Step
<1>11. QED BY <1>3, <1>4, <1>5, <1>6, <1>7, <1>8, <1>9, <1>10 DEF Next

\* Initially nothing is cached, called or committed.
LEMMA InductiveInit == Init => IInv
<1>1. SUFFICES ASSUME Init PROVE IInv
  OBVIOUS
<1>2. Nothing \in Listing
  BY DEF Nothing, Listing
<1>3. TypeOK
  <2>1. inv \in Listing
    BY <1>1, MeshAssumption DEF Init, Listing
  <2>2. call \in [Calls -> [pc : {"idle", "marked", "listed", "paging", "got", "begun"},
                           cur : Cursor \cup {NoCursor}, all : Listing, acc : Listing]]
    BY <1>1, IdleType DEF Init
  <2>3. QED BY <1>1, <1>2, <2>1, <2>2, MeshAssumption DEF Init, TypeOK
<1>4. CursorsIssued
  BY <1>1 DEF Init, CursorsIssued, Issued, Holds, Idle
<1>5. CursorsApart /\ PagesMatch
  BY <1>1 DEF Init, CursorsApart, PagesMatch, Holds, Idle
<1>6. FilesMatch
  BY <1>1 DEF Init, FilesMatch, Nothing
<1>7. QED BY <1>3, <1>4, <1>5, <1>6 DEF IInv

\* The inductive invariant holds throughout.
THEOREM Invariance == Spec => []IInv
<1>1. Init => IInv
  BY InductiveInit
<1>2. IInv /\ [Next]_vars => IInv'
  BY InductiveStep
<1>3. QED BY <1>1, <1>2, PTL DEF Spec

\* Type correctness of the inventory exchange.
THEOREM TypeCorrect == Spec => []TypeOK
<1>1. IInv => TypeOK
  BY DEF IInv
<1>2. QED BY <1>1, Invariance, PTL

\* Readers never see a mixture of two listings, whatever number of calls,
\* restarts and interrupted commits there are (effectiveSessionProjection).
THEOREM ShowsOneListing == Spec => []VisibleIsListing
<1>1. IInv => VisibleIsListing
  BY DEF IInv, TypeOK, FilesMatch, VisibleIsListing, Effective
<1>2. QED BY <1>1, Invariance, PTL

\* Only a whole commit moves the committed cursor, and it checks it first.
LEMMA AdvancesStep ==
    ASSUME IInv, Next, peer'.cur # peer.cur, peer'.cur.epoch = peer.cur.epoch
    PROVE  peer'.cur.rev > peer.cur.rev
<1>1. peer' # peer
  OBVIOUS
<1>2. \A fr \in {"syncing", "stale"} : peer' # [peer EXCEPT !.fr = fr]
  BY DEF IInv, TypeOK
<1>3. ~ UNCHANGED store
  BY <1>1 DEF store
<1>4. \A fr \in {"syncing", "stale"} : ~ MarkAll(fr) /\ ~ MarkSome(fr)
  BY <1>1, <1>2 DEF MarkAll, MarkSome
<1>5. PICK c \in Calls : Step(c)
  BY <1>1, <1>3, <1>4 DEF Next, SourceChanges, SourceRestarts, OtherListing, PageExpires,
                          MarkPeerDisconnected, ObserverRestarts
<1>6. Commit(c)
  BY <1>3, <1>4, <1>5 DEF Step, SyncStarts, ListCatalog, FirstPage, FirstPageAt, NextPage, NextPageFrom,
                          CallFails, BeginInventory
<1>7. peer' = [cur |-> call[c].cur, fr |-> "fresh"] /\ ~ Stale(call[c].cur)
  BY <1>1, <1>3, <1>6 DEF Commit, CommitAll, CommitSome
<1>8. call[c].cur \in Cursor /\ peer.cur \in Cursor \cup {NoCursor}
  BY <1>6 DEF IInv, TypeOK, CursorsIssued, Holds, Commit
<1>9. peer'.cur = call[c].cur
  BY <1>7
<1>10. QED BY <1>7, <1>8, <1>9 DEF Stale, Cursor, NoCursor

\* No commit replaces the committed listing by an older or the same one of the
\* same boot (validateSessionInventoryCursorLocked, called again by the commit).
THEOREM CommitsInOrder == Spec => CursorAdvances
<1>1. IInv /\ [Next]_vars =>
        [peer'.cur # peer.cur /\ peer'.cur.epoch = peer.cur.epoch
           => peer'.cur.rev > peer.cur.rev]_vars
  BY AdvancesStep
<1>2. QED BY <1>1, Invariance, PTL DEF Spec, CursorAdvances
=============================================================================
