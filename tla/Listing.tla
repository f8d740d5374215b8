------------------------------ MODULE Listing -------------------------------
(***************************************************************************)
(* The transactions page.  Its URL says which filters apply and which      *)
(* record is asked for; the list of a filter and the details of a record   *)
(* are cached reads; an effect shows the record that the URL asks for, as  *)
(* it finds it at that moment in the list or else in the details.  The     *)
(* record is a copy: what the viewer edits and saves is that copy, whole.  *)
(*                                                                         *)
(* The server's records are sets of the fields the viewer has changed; a   *)
(* save sends them all.  The cache is that of the query library: a read is *)
(* fetched when the page comes to watch it, and again after a write.       *)
(***************************************************************************)
EXTENDS Naturals, Sequences

CONSTANTS
  Transactions,
  Filters,      \* The queries of the list.
  Everything,   \* The one without a filter.
  Matches,      \* What each query finds; an old record is found by none.
  Fields,       \* What an edit may change.
  MaxPast,      \* How many entries of the browser's history are remembered.
  MaxMishaps    \* How many reads and writes fail or lose their answer, and
                \* how many records another member deletes, in all.

None == "none"

Gone == {"gone"}

ASSUME ListingAssumption ==
  /\ Everything \in Filters /\ Matches \in [Filters -> SUBSET Transactions]
  /\ Filters \cap Transactions = {} /\ None \notin Transactions /\ "gone" \notin Fields
  /\ MaxPast \in Nat \ {0} /\ MaxMishaps \in Nat

VARIABLES
  server,    \* The record of each transaction, or Gone.
  cache,     \* What the client remembers of each read.
  watch,     \* The reads the page is subscribed to.
  url,       \* The page, its filter and the record asked for.
  past,      \* The URLs the browser's way back leads to.
  selected,  \* The copy shown in the drawer.
  editing,   \* The copy the edit dialog was opened with.
  save,      \* The save that is under way.
  removal,   \* The deletion that is under way.
  mishaps

listing == <<server, cache, watch, url, past, selected, editing, save, removal, mishaps>>

Reads == Filters \cup Transactions

\* A copy of a record.
NoCopy == [id |-> None, content |-> {}]

NoSave == [stage |-> "idle", id |-> None, content |-> {}, left |-> FALSE]

Missing == [has |-> FALSE, data |-> <<>>, failed |-> FALSE, stage |-> "idle", coming |-> <<>>]

Page(filter, record) == [place |-> "transactions", filter |-> filter, record |-> record]

Elsewhere == [place |-> "elsewhere", filter |-> Everything, record |-> None]

\* A deletion remembers the URL it was started from; left is whether its drawer
\* has closed since, and moved, which nothing reads, whether the viewer went back.
NoRemoval ==
  [stage |-> "idle", id |-> None, from |-> Elsewhere, left |-> FALSE, moved |-> FALSE]

ListingInit ==
  /\ server = [t \in Transactions |-> {}]
  /\ cache = [k \in Reads |-> Missing]
  /\ watch = {}
  /\ url \in {Elsewhere} \cup {Page(f, r) : f \in Filters, r \in Transactions \cup {None}}
  /\ past = <<>>
  /\ selected = NoCopy /\ editing = NoCopy
  /\ save = NoSave /\ removal = NoRemoval
  /\ mishaps = 0

-----------------------------------------------------------------------------
(* The page: what it reads, and the record it shows. *)

Listed(t) == cache[url.filter].has /\ t \in DOMAIN cache[url.filter].data

\* The details are read only of a record that the list does not have.
Wanted ==
  IF url.place /= "transactions" THEN {}
  ELSE {url.filter} \cup {t \in Transactions : url.record = t /\ ~Listed(t)}

Loading(k) == ~cache[k].has /\ cache[k].stage /= "idle"

Source(t) == IF Listed(t) THEN url.filter ELSE t

\* The copy the page finds of the record asked for, or none.
Found ==
  IF url.record /= None /\ cache[Source(url.record)].has
  THEN [id |-> url.record, content |-> cache[Source(url.record)].data[url.record]]
  ELSE NoCopy

\* The record could not be had: the URL no longer asks for it.
Unavailable == url.record /= None /\ Found = NoCopy /\ cache[url.record].failed

ShownKept ==
  IF Unavailable THEN NoCopy
  ELSE IF Found.id \in {None, selected.id} THEN selected ELSE Found

ShownAnew ==
  IF url.record = None \/ Unavailable THEN NoCopy
  ELSE IF Found.id \in {None, selected.id} THEN selected ELSE Found

\* What is under way when its drawer or dialog goes away goes on.
Left(work) == [work EXCEPT !.left = @ \/ work.stage /= "idle"]

EffectDue ==
  /\ url.place = "transactions"
  /\ url.record /= None => ~Loading(url.filter)
  /\ selected /= ShownAnew \/ Unavailable

Effect ==
  /\ watch = Wanted /\ EffectDue
  /\ selected' = ShownAnew
  /\ url' = [url EXCEPT !.record = IF Unavailable THEN None ELSE @]
  /\ removal' = IF ShownAnew = NoCopy THEN Left(removal) ELSE removal
  /\ UNCHANGED <<server, cache, watch, past, editing, save, mishaps>>

\* A read that comes into view is fetched, and what is remembered of it is
\* shown until the answer, unless it was dropped while nobody watched it.  A
\* read that is still fresh is one whose answer is long in coming.
Observe ==
  /\ watch /= Wanted
  /\ watch' = Wanted
  /\ \E dropped \in SUBSET (Wanted \ watch) :
       cache' = [k \in Reads |->
         IF k \in Wanted \ watch /\ cache[k].stage = "idle"
         THEN [(IF k \in dropped THEN Missing ELSE cache[k]) EXCEPT !.stage = "sent"]
         ELSE cache[k]]
  /\ UNCHANGED <<server, url, past, selected, editing, save, removal, mishaps>>

\* Effects run before the next event.
Settled == watch = Wanted /\ ~EffectDue

-----------------------------------------------------------------------------
(* The reads. *)

Serve(k) ==
  /\ Settled /\ cache[k].stage = "sent"
  /\ LET found == {t \in (IF k \in Filters THEN Matches[k] ELSE {k}) : server[t] /= Gone}
     IN cache' = [cache EXCEPT ![k].stage = "read", ![k].coming = [t \in found |-> server[t]]]
  /\ UNCHANGED <<server, watch, url, past, selected, editing, save, removal, mishaps>>

\* The details of a record that is gone are a failed read.
Arrive(k) ==
  /\ Settled /\ cache[k].stage = "read"
  /\ LET e == [cache[k] EXCEPT !.stage = "idle", !.coming = <<>>]
     IN cache' = [cache EXCEPT ![k] =
          IF k \in Transactions /\ cache[k].coming = <<>> THEN [e EXCEPT !.failed = TRUE]
          ELSE [e EXCEPT !.has = TRUE, !.data = cache[k].coming, !.failed = FALSE]]
  /\ UNCHANGED <<server, watch, url, past, selected, editing, save, removal, mishaps>>

FailRead(k) ==
  /\ Settled /\ cache[k].stage /= "idle" /\ mishaps < MaxMishaps
  /\ mishaps' = mishaps + 1
  /\ cache' = [cache EXCEPT ![k].stage = "idle", ![k].coming = <<>>, ![k].failed = TRUE]
  /\ UNCHANGED <<server, watch, url, past, selected, editing, save, removal>>

\* The viewer's retry after a list that failed.
Retry ==
  /\ Settled /\ url.place = "transactions" /\ cache[url.filter].failed
  /\ cache[url.filter].stage = "idle"
  /\ cache' = [cache EXCEPT ![url.filter].stage = "sent"]
  /\ UNCHANGED <<server, watch, url, past, selected, editing, save, removal, mishaps>>

\* The list that is watched is fetched again: anew if it has data, and
\* otherwise by the read that is already under way.
Invalidated ==
  [k \in Reads |->
     IF k \notin Filters \cap watch \/ (cache[k].stage /= "idle" /\ ~cache[k].has) THEN cache[k]
     ELSE [cache[k] EXCEPT !.stage = "sent", !.coming = <<>>]]

-----------------------------------------------------------------------------
(* The ways of the viewer. *)

\* The drawer holds its own buttons back while it deletes.
Removing == removal.stage /= "idle" /\ ~removal.left

\* A bound: the viewer has one write under way at a time.
Unhurried == save.stage = "idle" /\ removal.stage = "idle"

Uncovered == selected = NoCopy /\ editing = NoCopy

Push(next) ==
  /\ past' = IF Len(past) < MaxPast THEN Append(past, url) ELSE Append(Tail(past), url)
  /\ url' = next

\* A link of the navigation, or of a goal to one of its transactions.
Visit ==
  /\ Settled /\ url.place = "elsewhere"
  /\ \E record \in Transactions \cup {None} : Push(Page(Everything, record))
  /\ UNCHANGED <<server, cache, watch, selected, editing, save, removal, mishaps>>

\* Leaving unmounts the page with its drawer and its dialog.
Unmounted(next) ==
  IF next.place = "transactions" THEN UNCHANGED <<selected, editing, save>>
  ELSE selected' = NoCopy /\ editing' = NoCopy /\ save' = Left(save)

Depart ==
  /\ Settled /\ url.place = "transactions" /\ Uncovered
  /\ Push(Elsewhere) /\ Unmounted(Elsewhere)
  /\ removal' = Left(removal)
  /\ UNCHANGED <<server, cache, watch, mishaps>>

\* On the page itself the effect decides what becomes of the drawer.
GoBack ==
  /\ Settled /\ past /= <<>>
  /\ url' = past[Len(past)] /\ past' = SubSeq(past, 1, Len(past) - 1)
  /\ Unmounted(url')
  /\ LET rest == IF url'.place = "transactions" THEN removal ELSE Left(removal)
     IN  removal' = [rest EXCEPT !.moved = @ \/ rest.stage /= "idle"]
  /\ UNCHANGED <<server, cache, watch, mishaps>>

\* The filters of the panel are applied or cleared.  A draft that does not
\* pass the panel's checks changes nothing.
ApplyFilters ==
  /\ Settled /\ url.place = "transactions" /\ Uncovered
  /\ \E f \in Filters \ {url.filter} : Push([url EXCEPT !.filter = f])
  /\ UNCHANGED <<server, cache, watch, selected, editing, save, removal, mishaps>>

\* The search is a part of the query, and replaces the entry of the history.
UpdateSearch ==
  /\ Settled /\ url.place = "transactions" /\ Uncovered
  /\ \E f \in Filters \ {url.filter} : url' = [url EXCEPT !.filter = f]
  /\ UNCHANGED <<server, cache, watch, past, selected, editing, save, removal, mishaps>>

\* A list that failed is not shown, even if it was there before.
Displayed(t) == Listed(t) /\ ~cache[url.filter].failed

Select(t) ==
  /\ Settled /\ url.place = "transactions" /\ Uncovered /\ Displayed(t)
  /\ Push([url EXCEPT !.record = t])
  /\ selected' = [id |-> t, content |-> cache[url.filter].data[t]]
  /\ UNCHANGED <<server, cache, watch, editing, save, removal, mishaps>>

CloseAnyway ==
  /\ Settled /\ selected /= NoCopy
  /\ selected' = NoCopy /\ url' = [url EXCEPT !.record = None]
  /\ UNCHANGED <<server, cache, watch, past, editing, save, removal, mishaps>>

Close ==
  /\ Settled /\ selected /= NoCopy /\ ~Removing
  /\ selected' = NoCopy /\ url' = [url EXCEPT !.record = None]
  /\ UNCHANGED <<server, cache, watch, past, editing, save, removal, mishaps>>

-----------------------------------------------------------------------------
(* Editing. *)

\* The drawer closes, and the dialog takes over its copy.
EditSelected ==
  /\ Settled /\ selected /= NoCopy /\ ~Removing
  /\ editing' = selected
  /\ selected' = NoCopy /\ url' = [url EXCEPT !.record = None]
  /\ UNCHANGED <<server, cache, watch, past, save, removal, mishaps>>

CancelEdit ==
  /\ Settled /\ editing /= NoCopy /\ save.stage = "idle"
  /\ editing' = NoCopy
  /\ UNCHANGED <<server, cache, watch, url, past, selected, save, removal, mishaps>>

\* The whole copy is sent, with what was changed of it; a dialog whose save
\* failed keeps what it says.
Save ==
  /\ Settled /\ editing /= NoCopy /\ Unhurried
  /\ \E field \in Fields : editing' = [editing EXCEPT !.content = @ \cup {field}]
  /\ save' = [stage |-> "sent", id |-> editing.id, content |-> editing'.content, left |-> FALSE]
  /\ UNCHANGED <<server, cache, watch, url, past, selected, removal, mishaps>>

CommitSave ==
  /\ save.stage = "sent" /\ server[save.id] /= Gone /\ Settled
  /\ server' = [server EXCEPT ![save.id] = save.content]
  /\ save' = [save EXCEPT !.stage = "done"]
  /\ UNCHANGED <<cache, watch, url, past, selected, editing, removal, mishaps>>

\* A success refreshes the lists, not the details.
Saved ==
  /\ save.stage = "done" /\ Settled
  /\ save' = NoSave
  /\ editing' = IF save.left THEN editing ELSE NoCopy
  /\ cache' = Invalidated
  /\ UNCHANGED <<server, watch, url, past, selected, removal, mishaps>>

\* It is refused, which includes a record that is gone, or its answer is lost.
SaveFailed ==
  /\ save.stage /= "idle" /\ Settled
  /\ \/ save.stage = "sent" /\ server[save.id] = Gone /\ UNCHANGED mishaps
     \/ mishaps < MaxMishaps /\ mishaps' = mishaps + 1
  /\ save' = NoSave
  /\ UNCHANGED <<server, cache, watch, url, past, selected, editing, removal>>

-----------------------------------------------------------------------------
(* Deleting. *)

Delete ==
  /\ Settled /\ selected /= NoCopy /\ Unhurried
  /\ removal' = [stage |-> "sent", id |-> selected.id, from |-> url,
               left |-> FALSE, moved |-> FALSE]
  /\ UNCHANGED <<server, cache, watch, url, past, selected, editing, save, mishaps>>

CommitDelete ==
  /\ removal.stage = "sent" /\ server[removal.id] /= Gone /\ Settled
  /\ server' = [server EXCEPT ![removal.id] = Gone]
  /\ removal' = [removal EXCEPT !.stage = "done"]
  /\ UNCHANGED <<cache, watch, url, past, selected, editing, save, mishaps>>

Deleted ==
  /\ removal.stage = "done" /\ Settled
  /\ removal' = [removal EXCEPT !.stage = "refreshing"]
  /\ cache' = Invalidated
  /\ UNCHANGED <<server, watch, url, past, selected, editing, save, mishaps>>

\* Once the lists are refreshed the drawer is closed, with the URL that the
\* deletion was started from, wherever the viewer is by now.
DeleteFinished ==
  /\ removal.stage = "refreshing" /\ Settled
  /\ \A k \in watch \cap Filters : cache[k].stage = "idle"
  /\ removal' = NoRemoval
  /\ url' = [removal.from EXCEPT !.record = None]
  /\ selected' = NoCopy
  /\ UNCHANGED <<server, cache, watch, past, editing, save, mishaps>>

DeleteFailed ==
  /\ removal.stage \in {"sent", "done"} /\ Settled
  /\ \/ removal.stage = "sent" /\ server[removal.id] = Gone /\ UNCHANGED mishaps
     \/ mishaps < MaxMishaps /\ mishaps' = mishaps + 1
  /\ removal' = NoRemoval
  /\ UNCHANGED <<server, cache, watch, url, past, selected, editing, save>>

\* Another member deletes a record.
OtherDeletes(t) ==
  /\ Settled /\ mishaps < MaxMishaps /\ server[t] /= Gone
  /\ mishaps' = mishaps + 1
  /\ server' = [server EXCEPT ![t] = Gone]
  /\ UNCHANGED <<cache, watch, url, past, selected, editing, save, removal>>

Reading(k) == Serve(k) \/ Arrive(k) \/ FailRead(k)

ListingNext ==
  \/ Effect \/ Observe \/ Retry
  \/ \E k \in Reads : Reading(k)
  \/ Visit \/ Depart \/ GoBack \/ ApplyFilters \/ UpdateSearch \/ Close
  \/ \E t \in Transactions : Select(t) \/ OtherDeletes(t)
  \/ EditSelected \/ CancelEdit \/ Save \/ CommitSave \/ Saved \/ SaveFailed
  \/ Delete \/ CommitDelete \/ Deleted \/ DeleteFinished \/ DeleteFailed

ListingSpec == ListingInit /\ [][ListingNext]_listing

-----------------------------------------------------------------------------
(* Properties. *)

\* The drawer shows the record that the URL asks for, and no other, so that what
\* is copied out of the address bar, edited or deleted is what is seen; and a
\* link is answered: the record is shown, or the URL stopped asking for it,
\* whatever the list and the details answered, and in whichever order.  While
\* the list of another query, or the details of another record, are read for the
\* first time, the drawer of the record before stays.
DrawerMatchesUrl ==
  (/\ Settled /\ url.place = "transactions" /\ ~Loading(url.filter)
   /\ \A t \in Transactions : url.record = t => ~Loading(t)) => selected.id = url.record

\* A deletion that finishes closes its own drawer and nothing else, if it was
\* started from the drawer of the record in the URL, that drawer stayed open and
\* the viewer did not go back.  Otherwise the page was released, or the drawer
\* came to show another record, and the URL is still the one it was started from.
DeletionStays ==
  [][(/\ removal.stage = "refreshing" /\ removal'.stage = "idle"
      /\ ~removal.left /\ ~removal.moved /\ removal.from.record = removal.id) =>
       selected.id = removal.id /\ url' = [url EXCEPT !.record = None]]_listing

\* No save takes back what an earlier save of the viewer's changed.
SavesStay == \A t \in Transactions : server'[t] = Gone \/ server[t] \subseteq server'[t]

\* "refetch/invalidation after a successful action": a record opened after a
\* save is confirmed shows what was saved.
OwnSavesStay == [][SavesStay]_listing
=============================================================================
