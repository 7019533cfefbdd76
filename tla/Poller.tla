------------------------------- MODULE Poller -------------------------------
(***************************************************************************)
(* Delivery seen through the clients' pollers: GET /v1/messages with the   *)
(* (since, since_id) cursor, as useMessages.ts keeps it.  find_pending     *)
(* answers with a prefix, in keyset order, of what is pending after the    *)
(* cursor: at most PollLimit rows, cut short by the byte budget but never  *)
(* to nothing.  The poller moves its cursor to the page's last row; a      *)
(* reload or a change of group clears it.                                  *)
(***************************************************************************)
EXTENDS Delivery, FiniteSetsExt

CONSTANTS
    PollLimit,      \* ENVELOPE_POLL_LIMIT
    Reader          \* the devices whose pollers are followed: a poll changes
                    \* nothing but its own cursor

ASSUME PollerAssumption ==
    /\ PollLimit \in Nat \ {0}
    /\ Reader \subseteq Device

VARIABLES
    cursor,     \* cursor[d]: sinceRef, 0 when undefined
    seen,       \* <<envelope id, device>> a poll has returned
    late        \* history: deliveries stored behind their device's cursor

pollVars == <<vars, cursor, seen, late>>

PollInit ==
    /\ Init
    /\ cursor = [d \in Device |-> 0]
    /\ seen = {}
    /\ late = {}

ServerStep ==
    /\ Next
    /\ late' = late \cup {p \in owed' \ owed : p[1] <= cursor[p[2]]}
    /\ UNCHANGED <<cursor, seen>>

Pending(d) ==
    {e \in envs :
        \/ e.recipient = d
        \/ e.recipient = NoDevice /\ d \in members /\ <<e.id, d>> \notin acks}

\* The possible pages: the first n rows after the cursor.
PagesNewestFirst(d) ==                       \* mutant: ORDER BY ... DESC
    LET after == {e \in Pending(d) : e.id > cursor[d]}
        rank(e) == Cardinality({f \in after : f.id >= e.id})
    IN  {{e \in after : rank(e) <= n} : n \in 1..PollLimit} \ {{}}

find_pending(d) ==
    LET after == {e \in Pending(d) : e.id > cursor[d]}
        rank(e) == Cardinality({f \in after : f.id <= e.id})
    IN  {{e \in after : rank(e) <= n} : n \in 1..PollLimit} \ {{}}

poll(d) ==
    /\ \E page \in find_pending(d) :
          /\ cursor' = [cursor EXCEPT ![d] = Max({e.id : e \in page})]
          /\ seen' = seen \cup {<<e.id, d>> : e \in page}
    /\ UNCHANGED <<vars, late>>

reset_cursor(d) ==
    /\ cursor[d] # 0
    /\ cursor' = [cursor EXCEPT ![d] = 0]
    /\ UNCHANGED <<vars, seen, late>>

PollNext ==
    \/ ServerStep
    \/ \E d \in Reader : poll(d) \/ reset_cursor(d)

PollSpec == PollInit /\ [][PollNext]_pollVars

-----------------------------------------------------------------------------
\* Pagination leaves no gap of its own: a delivery behind a device's cursor that
\* the device never saw was stored only after the cursor had passed its stamp.
GapsAreLateSaves ==
    \A p \in owed : p[1] <= cursor[p[2]] => p \in seen \cup late

\* Does not hold (README, 6): useMessages.ts, on moving its cursor: "once this page has been fetched, every
\* envelope up to and including its last one has been SEEN".
BehindCursorIsSeen ==
    \A p \in owed : p[1] <= cursor[p[2]] => p \in seen
=============================================================================
