--------------------------- MODULE RequestLedger ---------------------------
(***************************************************************************)
(* What an aggregator promises about the entries (operations or requests)  *)
(* it is given: an entry is taken once, is handed out for sending at most  *)
(* once, and once handed out or lost it never comes back.  How entries are *)
(* merged, cached, expired and batched is not visible here.                *)
(***************************************************************************)
CONSTANT Entries

VARIABLES
  pending,    \* taken, not handed out yet
  delivered,  \* handed out for sending
  seen        \* ever given to the aggregator

ledger == <<pending, delivered, seen>>

Init == pending = {} /\ delivered = {} /\ seen = {}

\* Entries arrive; those that are kept become pending.
Take ==
  /\ seen \subseteq seen'
  /\ pending \subseteq pending'
  /\ pending' \ pending \subseteq seen' \ seen
  /\ UNCHANGED delivered

\* Entries that cannot be aggregated are left to the caller to send.
Refuse ==
  /\ seen \subseteq seen'
  /\ delivered' = delivered \cup (seen' \ seen)
  /\ UNCHANGED pending

\* Pending entries are handed out; others may be lost at the same time.
Resolve ==
  /\ pending' \subseteq pending
  /\ delivered \subseteq delivered'
  /\ delivered' \ delivered \subseteq pending \ pending'
  /\ UNCHANGED seen

Next == seen' \subseteq Entries /\ (Take \/ Refuse \/ Resolve)

Spec == Init /\ [][Next]_ledger
=============================================================================
