---------------------------- MODULE RequestDedupe ----------------------------
(***************************************************************************)
(* The registry of lib/request-dedupe.ts, a Map from client request ids    *)
(* to a status and the time it was last touched.  Both of its functions    *)
(* are synchronous: nothing runs between their first and last line.        *)
(***************************************************************************)
EXTENDS Naturals

CONSTANTS
  Keys,   \* values of the header x-client-request-id
  TTL     \* ttlMs, in the unit of now

ASSUME DedupeAssumption == TTL \in Nat

VARIABLES
  now,      \* Date.now()
  entries   \* entries[k]: the entry of key k, or Absent

dedupeVars == <<now, entries>>

Absent == [status |-> "absent", updatedAt |-> 0]

Entry == [status : {"pending", "billed", "failed"}, updatedAt : Nat] \cup {Absent}

DedupeInit == now = 0 /\ entries = [k \in Keys |-> Absent]

Expired(entry) == entry.updatedAt + TTL < now

\* prune: every key is looked at, not only the one that is asked for.
Pruned == [k \in Keys |-> IF Expired(entries[k]) THEN Absent ELSE entries[k]]

\* Mutant of Taken: only a billed entry keeps a duplicate out.
TakenOnceBilled(k) == Pruned[k].status = "billed"

\* An entry that is pending or billed keeps every other request out.
Taken(k) == Pruned[k].status \in {"pending", "billed"}

Touch(k, status) == [entries EXCEPT ![k] = [status |-> status, updatedAt |-> now]]

\* begin for a key that is free; a refused begin leaves entries = Pruned.
Claim(k) ==
  /\ ~Taken(k)
  /\ entries' = [Pruned EXCEPT ![k] = [status |-> "pending", updatedAt |-> now]]

\* Mutant of Release: an unknown outcome does not start the TTL anew.
ReleaseWithoutTouch(k, outcome) ==
  entries' = IF entries[k] = Absent \/ outcome = "unknown" THEN entries
             ELSE Touch(k, outcome)

\* finish: an unknown outcome leaves the status alone and starts the TTL anew.
Release(k, outcome) ==
  entries' = IF entries[k] = Absent THEN entries
             ELSE Touch(k, IF outcome = "unknown" THEN entries[k].status ELSE outcome)
=============================================================================
