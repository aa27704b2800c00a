------------------------------ MODULE RecordIndex ------------------------------
(***************************************************************************)
(* The index of the recordings of one node (liveion/src/recorder/index.rs), *)
(* from which Liveman pulls its catalogue: a set of entries, one for each  *)
(* record, with the time of its last change.                               *)
(***************************************************************************)
EXTENDS Naturals, Sequences, SequencesExt

upsert(index, record, now) ==
  {e \in index : e.record # record} \cup {[record |-> record, updated_at |-> now, open |-> TRUE]}

\* Does nothing for a record that is not there.
update_status(index, record, now) ==
  {IF e.record = record THEN [e EXCEPT !.open = FALSE, !.updated_at = now] ELSE e : e \in index}

Later(since, e) == e.updated_at > since
Rows(index, since) ==
  SetToSortSeq({e \in index : Later(since, e)}, LAMBDA d, e : d.updated_at < e.updated_at)

\* Mutant: the time of the last change in the index, also of what the limit cut off.
list_sessions_uncut(index, since, limit) ==
  LET rows == Rows(index, since)
      page == SubSeq(rows, 1, IF limit < Len(rows) THEN limit ELSE Len(rows))
  IN [sessions |-> [i \in DOMAIN page |-> page[i].record],
      last |-> IF rows = <<>> THEN 0 ELSE Last(rows).updated_at]

\* What has changed since the cursor, oldest first, at most `limit' entries, and
\* the time of the last of them.
list_sessions(index, since, limit) ==
  LET rows == Rows(index, since)
      page == SubSeq(rows, 1, IF limit < Len(rows) THEN limit ELSE Len(rows))
  IN [sessions |-> [i \in DOMAIN page |-> page[i].record],
      last |-> IF page = <<>> THEN 0 ELSE Last(page).updated_at]

ack(index, records) == {e \in index : e.record \notin records}
================================================================================
