------------------------------ MODULE MCListing ------------------------------
(* One transaction is in the list of everything, the other is so old that  *)
(* only a query finds it; or none is listed, so that a link of its goal    *)
(* reads its details.                                                      *)
EXTENDS Listing

OneListed == [f \in Filters |-> IF f = Everything THEN {"t1"} ELSE {"t2"}]

OnlyLinked == [f \in Filters |-> {}]

Urls == {url, removal.from} \cup {past[i] : i \in DOMAIN past}

OneFilter ==
  \A f \in Filters \ {Everything} : cache[f] = Missing /\ \A u \in Urls : u.filter # f

OneRecord ==
  \E t \in Transactions : \A other \in Transactions \ {t} :
    /\ cache[other] = Missing /\ other \notin {selected.id, editing.id, save.id, removal.id}
    /\ \A u \in Urls : u.record # other

Changed == {t \in Transactions : server[t] # {}}

\* A bound: at most one record is changed, and whoever is about to change one
\* uses one filter, or one record and meets no mishap.  After a mishap the viewer
\* does not save any more, and goes on with a deletion or an open dialog only
\* where no way back is left.
Focus ==
  /\ save.stage = "sent" \/ removal.stage = "sent" => Changed = {}
  /\ editing # NoCopy /\ save.stage = "idle" => Changed = {}
  /\ \/ Unhurried /\ editing = NoCopy /\ Changed = {}
     \/ OneFilter
     \/ OneRecord /\ mishaps = 0
  /\ mishaps > 0 =>
       save.stage = "idle" /\ ((Unhurried /\ editing = NoCopy) \/ past = <<>>)
=============================================================================
