--------------------------- MODULE MeshInventory ---------------------------
(***************************************************************************)
(* How one device (the observer) keeps a copy of another device's          *)
(* inventory (the source).  The source answers a listing call page by page *)
(* out of a cache; the observer collects the pages and commits them to one *)
(* file per item plus the peer file, whose cursor is the marker that makes *)
(* the item files visible.  Sessions and artifacts are two such            *)
(* inventories, run by the same code on files of their own; this module    *)
(* follows one of them.  Several calls may be under way at once: the sync  *)
(* worker's and those an operator starts over HTTP.                        *)
(***************************************************************************)
EXTENDS Naturals

CONSTANTS Items,      \* sessions (or artifacts) the source may have
          Values,     \* what the source reports of an item
          Absent,     \* no such item
          Catalogs,   \* bound: the catalogs the source may come to have
          Calls,      \* synchronisations that may be under way at once
          MaxEpoch,   \* bound: boots of the source daemon
          MaxRev      \* bound: listings per boot

ASSUME MeshAssumption == /\ Absent \notin Values
                         /\ Catalogs \subseteq [Items -> Values \cup {Absent}]
                         /\ MaxEpoch \in Nat \ {0}
                         /\ MaxRev \in Nat

VARIABLES inv,    \* the source's catalog
          epoch,  \* the source's boot
          rev,    \* its revision counter, since that boot
          cache,  \* listings kept for the pages still to be sent
          call,   \* the observer's synchronisations
          file,   \* the projection file of each item
          peer,   \* the peer file: committed cursor, freshness
          shown   \* history: the catalog behind the committed cursor

source == <<inv, epoch, rev, cache>>
store == <<file, peer, shown>>
vars == <<inv, epoch, rev, cache, call, file, peer, shown>>

Listing == [Items -> Values \cup {Absent}]
Nothing == [i \in Items |-> Absent]
Present(list) == {i \in Items : list[i] # Absent}

Cursor == [epoch : 1..MaxEpoch, rev : 1..MaxRev]
NoCursor == [epoch |-> 0, rev |-> 0]

\* A call: marked (syncing recorded), listed (the source has read its catalog
\* and not yet taken a revision), paging, got (every page here), begun.
Idle == [pc |-> "idle", cur |-> NoCursor, all |-> Nothing, acc |-> Nothing]

TypeOK ==
    /\ inv \in Listing
    /\ epoch \in 1..MaxEpoch
    /\ rev \in 0..MaxRev
    /\ cache \subseteq [rev : 1..MaxRev, all : Listing]
    /\ call \in [Calls -> [pc : {"idle", "marked", "listed", "paging", "got", "begun"},
                           cur : Cursor \cup {NoCursor}, all : Listing, acc : Listing]]
    /\ file \in [Items -> [cur : Cursor \cup {NoCursor},
                           fr : {"none", "fresh", "syncing", "stale", "gone"},
                           val : Values \cup {Absent}]]
    /\ peer \in [cur : Cursor \cup {NoCursor}, fr : {"fresh", "syncing", "stale"}]
    /\ shown \in Listing

Init ==
    /\ inv \in Catalogs /\ epoch = 1 /\ rev = 0 /\ cache = {}
    /\ call = [c \in Calls |-> Idle]
    /\ file = [i \in Items |-> [cur |-> NoCursor, fr |-> "none", val |-> Absent]]
    /\ peer = [cur |-> NoCursor, fr |-> "stale"]
    /\ shown = Nothing

----------------------------------------------------------------------------
(* The source.                                                             *)

SourceChanges ==
    /\ inv' \in Catalogs \ {inv}
    /\ UNCHANGED <<epoch, rev, cache, call, file, peer, shown>>

\* A restart loses the revision counter, the page cache and every call that
\* the source is in the middle of; it takes a new epoch.
SourceRestarts ==
    /\ epoch < MaxEpoch
    /\ epoch' = epoch + 1 /\ rev' = 0 /\ cache' = {}
    /\ call' = [c \in Calls |-> IF call[c].pc = "listed" THEN Idle ELSE call[c]]
    /\ UNCHANGED <<inv, file, peer, shown>>

\* The counter is shared with the other inventory and with other peers, and a
\* listing whose caller has given up takes a revision too.
nextMeshRevision ==
    /\ rev < MaxRev
    /\ rev' = rev + 1

OtherListing ==
    /\ nextMeshRevision
    /\ UNCHANGED <<inv, epoch, cache, call, file, peer, shown>>

\* Pages leave the cache when they are old or when it is full.
PageExpires(entry) ==
    /\ cache' = cache \ {entry}
    /\ UNCHANGED <<inv, epoch, rev, call, file, peer, shown>>

\* What the next page may hold: any further items (the page is cut by a count
\* and by a size), at least one unless the listing is empty.
Pages(list, acc) ==
    {p \in SUBSET (Present(list) \ Present(acc)) : p # {} \/ Present(list) = {}}

With(acc, list, page) == [i \in Items |-> IF i \in page THEN list[i] ELSE acc[i]]

\* The catalog is read first...
ListCatalog(c) ==
    /\ call[c].pc = "marked"
    /\ call' = [call EXCEPT ![c].pc = "listed", ![c].all = inv]
    /\ UNCHANGED <<source, store>>

\* ...the revision is taken afterwards, and the first page is cut.
FirstPageAt(c, revision) ==
    /\ call[c].pc = "listed"
    /\ nextMeshRevision
    /\ \E page \in Pages(call[c].all, Nothing) :
         LET acc == With(Nothing, call[c].all, page)
             more == Present(acc) # Present(call[c].all)
         IN /\ cache' = IF more THEN cache \cup {[rev |-> revision, all |-> call[c].all]} ELSE cache
            /\ call' = [call EXCEPT ![c].pc = IF more THEN "paging" ELSE "got",
                                    ![c].cur = [epoch |-> epoch, rev |-> revision],
                                    ![c].acc = acc]
    /\ UNCHANGED <<inv, epoch, store>>

FirstPage(c) == FirstPageAt(c, rev + 1)

NextPageFrom(c, entry, sameInventory) ==
    /\ call[c].pc = "paging"
    /\ entry.rev = call[c].cur.rev
    /\ \E page \in Pages(entry.all, call[c].acc) :
         LET acc == With(call[c].acc, entry.all, page)
             more == ~ Present(entry.all) \subseteq Present(acc)
         IN /\ cache' = IF more THEN cache ELSE cache \ {entry}
            /\ call' = [call EXCEPT ![c] =
                          IF ~ sameInventory THEN Idle
                          ELSE [@ EXCEPT !.pc = IF more THEN "paging" ELSE "got", !.acc = acc]]
    /\ UNCHANGED <<inv, epoch, rev, store>>

\* Mutant: pages of whatever boot are put together.
NextPageAnyBoot(c, entry) == NextPageFrom(c, entry, TRUE)

\* The page cursor names the revision alone.  The caller gives up when a page
\* comes from another boot.
NextPage(c, entry) == NextPageFrom(c, entry, call[c].cur.epoch = epoch)

----------------------------------------------------------------------------
(* The observer's store.                                                   *)

\* Writing a freshness into the files of some of the items.
Marked(fr, items) ==
    [i \in Items |-> IF i \in items /\ file[i].fr \notin {"none", "gone"}
                     THEN [file[i] EXCEPT !.fr = fr] ELSE file[i]]

\* Every file, then the peer file.
MarkAll(fr) ==
    /\ file' = Marked(fr, Items)
    /\ peer' = [peer EXCEPT !.fr = fr]
    /\ UNCHANGED shown

\* A write failed or the daemon stopped on the way.
MarkSome(fr) ==
    /\ \E items \in SUBSET Items : file' = Marked(fr, items)
    /\ UNCHANGED <<peer, shown>>

SyncStarts(c) ==
    /\ call[c].pc = "idle"
    /\ \/ MarkAll("syncing") /\ call' = [call EXCEPT ![c].pc = "marked"]
       \/ MarkSome("syncing") /\ UNCHANGED call
    /\ UNCHANGED source

\* RPC failure, a lost response, a page that is gone, a timeout.
CallFails(c) ==
    /\ call[c].pc \in {"marked", "listed", "paging", "got"}
    /\ call' = [call EXCEPT ![c] = Idle]
    /\ UNCHANGED <<source, store>>

MarkPeerDisconnected ==
    /\ MarkAll("stale") \/ MarkSome("stale")
    /\ UNCHANGED <<source, call>>

Stale(cur) == peer.cur.epoch = cur.epoch /\ cur.rev <= peer.cur.rev

BeginInventory(c) ==
    /\ call[c].pc = "got"
    /\ \/ /\ Stale(call[c].cur)
          /\ call' = [call EXCEPT ![c] = Idle]
          /\ UNCHANGED store
       \/ /\ ~ Stale(call[c].cur)
          /\ MarkAll("syncing")
          /\ call' = [call EXCEPT ![c].pc = "begun"]
       \/ /\ ~ Stale(call[c].cur)
          /\ MarkSome("syncing")
          /\ call' = [call EXCEPT ![c] = Idle]
    /\ UNCHANGED source

\* The item files of a commit, as far as they were written.
Written(cur, acc, items) ==
    [i \in Items |->
       IF i \notin items THEN file[i]
       ELSE IF acc[i] # Absent THEN [cur |-> cur, fr |-> "fresh", val |-> acc[i]]
       ELSE IF file[i].fr = "none" THEN file[i]
       ELSE [file[i] EXCEPT !.cur = cur, !.fr = "gone"]]

\* Present items first, then what is gone, then the peer file.
CommitAll(c) ==
    /\ file' = Written(call[c].cur, call[c].acc, Items)
    /\ peer' = [cur |-> call[c].cur, fr |-> "fresh"]
    /\ shown' = call[c].all

\* Interrupted before the peer file: nothing is marked gone unless every
\* present item was written.
CommitSome(c) ==
    /\ \E items \in SUBSET Items :
         /\ items \subseteq Present(call[c].acc) \/ Present(call[c].acc) \subseteq items
         /\ file' = Written(call[c].cur, call[c].acc, items)
    /\ UNCHANGED <<peer, shown>>

\* Mutant: the cursor is checked when the commit begins and not again.
CommitUnchecked(c) ==
    /\ call[c].pc = "begun"
    /\ CommitAll(c) \/ CommitSome(c)
    /\ call' = [call EXCEPT ![c] = Idle]
    /\ UNCHANGED source

Commit(c) ==
    /\ call[c].pc = "begun"
    /\ \/ Stale(call[c].cur) /\ UNCHANGED store
       \/ ~ Stale(call[c].cur) /\ (CommitAll(c) \/ CommitSome(c))
    /\ call' = [call EXCEPT ![c] = Idle]
    /\ UNCHANGED source

ObserverRestarts ==
    /\ call' = [c \in Calls |-> Idle]
    /\ UNCHANGED <<source, store>>

Step(c) ==
    \/ SyncStarts(c)
    \/ ListCatalog(c)
    \/ FirstPage(c)
    \/ \E entry \in cache : NextPage(c, entry)
    \/ CallFails(c)
    \/ BeginInventory(c)
    \/ Commit(c)

Next ==
    \/ SourceChanges
    \/ SourceRestarts
    \/ OtherListing
    \/ \E entry \in cache : PageExpires(entry)
    \/ MarkPeerDisconnected
    \/ ObserverRestarts
    \/ \E c \in Calls : Step(c)

Spec == Init /\ [][Next]_vars

----------------------------------------------------------------------------
(* What a reader of the store sees.                                        *)

Effective(i) ==
    IF file[i].fr = "none" THEN "none"
    ELSE IF file[i].cur # peer.cur
         THEN IF peer.fr = "stale" THEN "stale" ELSE "syncing"
    ELSE IF file[i].fr = "gone" \/ peer.fr = "fresh" THEN file[i].fr
    ELSE peer.fr

\* Whatever pages, restarts, interrupted commits and overlapping calls come
\* between, what readers see as fresh is one listing of the source: a fresh
\* item has the value that listing gave it, a gone item is not in it, and every
\* item of it has a file that is not gone, or is being replaced
\* (effectiveSessionProjection, commitSessionInventory, RemoteSessionsList).
VisibleIsListing ==
    \A i \in Items :
        /\ Effective(i) = "fresh" => shown[i] # Absent /\ file[i].val = shown[i]
        /\ Effective(i) = "gone" => shown[i] = Absent
        /\ shown[i] # Absent => Effective(i) \notin {"none", "gone"}

\* A commit never replaces the listing that is committed by an older one, or
\* the same one, of the same boot of the source, although calls overtake one
\* another between the fetch and the commit.  Cursors of two boots are not
\* compared: a late call of an older boot may replace the listing of a newer
\* one, until the next synchronisation (validateSessionInventoryCursorLocked).
CursorAdvances ==
    [][peer'.cur # peer.cur /\ peer'.cur.epoch = peer.cur.epoch
         => peer'.cur.rev > peer.cur.rev]_vars

=============================================================================
