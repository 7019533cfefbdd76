--------------------------- MODULE RegionForward ---------------------------
(***************************************************************************)
(* A peer region forwards MLS Commits to a group's home region over gRPC:  *)
(* powehi-grpc's client (with_retry around forward_commit, one circuit     *)
(* breaker per peer) against the server's forward_commit handler, whose    *)
(* only write is the commit ledger's epoch compare-and-swap.               *)
(*                                                                         *)
(* The transport may fail an attempt before the server ran it, while it is *)
(* still running there, or after it committed: the attempt's request stays *)
(* on the wire and may still be executed after the client has moved on.    *)
(***************************************************************************)
EXTENDS Integers, FiniteSets

CONSTANTS
    Task,               \* concurrent forward_commit calls of one router
    RETRY_MAX,          \* retries after the first attempt
    CIRCUIT_THRESHOLD,  \* failed calls that open the circuit
    CIRCUIT_OPEN_SECS,  \* ticks for which it stays open
    MaxCalls            \* bound: forward_commit calls made by one task

ASSUME ForwardAssumption ==
    /\ RETRY_MAX \in Nat
    /\ CIRCUIT_THRESHOLD \in Nat \ {0}
    /\ CIRCUIT_OPEN_SECS \in Nat \ {0}
    /\ MaxCalls \in Nat \ {0}

VARIABLES
    failures,   \* CircuitBreaker.failures, saturated at the threshold
    openUntil,  \* CircuitBreaker.open_until as ticks left; 0 is "in the past"
    call,       \* call[t]: the with_retry frame of task t
    wire,       \* attempts the home region has not executed yet
    homeEpoch,  \* home region: groups.epoch
    commits     \* home region: Commit envelopes stored, with their call

forwardVars == <<failures, openUntil, call, wire, homeEpoch, commits>>

Unset == -1     \* open_until = None
Reply == {"none", "accepted", "rejected", "failed"}
Outcome == {"none", "ok", "status", "circuit_open"}

(***************************************************************************)
(* The circuit breaker.  Every use is made under the peer's tokio mutex,   *)
(* so each of its methods is one step.  Only `count >= threshold` is ever  *)
(* asked of the failure count, so it saturates at the threshold.           *)
(***************************************************************************)
IsOpenIgnoringExpiry == openUntil # Unset          \* mutant: guard.is_some()
IsOpen == openUntil > 0

RecordSuccessKeepsOpen ==                          \* mutant: open_until kept
    /\ failures' = 0
    /\ UNCHANGED openUntil

RecordSuccess ==
    /\ failures' = 0
    /\ openUntil' = Unset

RecordFailure ==
    LET count == IF failures < CIRCUIT_THRESHOLD THEN failures + 1 ELSE failures
    IN  /\ failures' = count
        /\ openUntil' = IF count >= CIRCUIT_THRESHOLD /\ openUntil = Unset
                        THEN CIRCUIT_OPEN_SECS
                        ELSE openUntil

ForwardInit ==
    /\ failures = 0
    /\ openUntil = Unset
    /\ call = [t \in Task |-> [pc |-> "idle", nth |-> 0, try |-> 0,
                               expected |-> 0, reply |-> "none", out |-> "none"]]
    /\ wire = {}
    /\ homeEpoch = 0
    /\ commits = {}

(***************************************************************************)
(* with_retry: one look at the circuit, then the attempt loop.             *)
(***************************************************************************)
Request(t, nth, try, e) == [task |-> t, nth |-> nth, try |-> try, expected |-> e]

\* The Commit of a call is built against an epoch its sender has seen.
StartCall(t, e) ==
    /\ call[t].pc = "idle"
    /\ call[t].nth < MaxCalls
    /\ ~IsOpen
    /\ LET n == call[t].nth + 1
       IN  /\ call' = [call EXCEPT ![t] =
                 [pc |-> "calling", nth |-> n, try |-> 0,
                  expected |-> e, reply |-> "none", out |-> "none"]]
           /\ wire' = wire \cup {Request(t, n, 0, e)}
    /\ UNCHANGED <<failures, openUntil, homeEpoch, commits>>

\* GrpcError::CircuitOpen: nothing is sent.
RejectCall(t) ==
    /\ call[t].pc = "idle"
    /\ call[t].nth < MaxCalls
    /\ IsOpen
    /\ call' = [call EXCEPT ![t] =
          [pc |-> "idle", nth |-> @.nth + 1, try |-> 0,
           expected |-> 0, reply |-> "none", out |-> "circuit_open"]]
    /\ UNCHANGED <<failures, openUntil, wire, homeEpoch, commits>>

Return(t, out) == [call EXCEPT ![t].pc = "idle", ![t].out = out]

ReceiveAccepted(t) ==
    /\ call[t].pc = "calling"
    /\ call[t].reply = "accepted"
    /\ RecordSuccess
    /\ call' = Return(t, "ok")
    /\ UNCHANGED <<wire, homeEpoch, commits>>

\* A non-retryable status: the peer is healthy, the circuit is left alone.
ReceiveRejected(t) ==
    /\ call[t].pc = "calling"
    /\ call[t].reply = "rejected"
    /\ call' = Return(t, "status")
    /\ UNCHANGED <<failures, openUntil, wire, homeEpoch, commits>>

\* `for _ in 0..=max_retries`
RetriesLeftOneMore(t) == call[t].try <= RETRY_MAX  \* mutant: off by one
RetriesLeft(t) == call[t].try < RETRY_MAX

\* A retryable failure of the current attempt: the handler answered with one,
\* or the connection broke, whatever became of the request.
AttemptFails(t) ==
    /\ call[t].pc = "calling"
    /\ IF RetriesLeft(t)
       THEN /\ call' = [call EXCEPT ![t].try = @ + 1, ![t].reply = "none"]
            /\ wire' = wire \cup {Request(t, call[t].nth, call[t].try + 1,
                                          call[t].expected)}
            /\ UNCHANGED <<failures, openUntil>>
       ELSE /\ RecordFailure
            /\ call' = Return(t, "status")
            /\ UNCHANGED wire
    /\ UNCHANGED <<homeEpoch, commits>>

(***************************************************************************)
(* The home region.  A reply reaches only the attempt that is waiting.     *)
(***************************************************************************)
ReplyTo(m, r) ==
    IF /\ call[m.task].pc = "calling"
       /\ call[m.task].nth = m.nth
       /\ call[m.task].try = m.try
    THEN [call EXCEPT ![m.task].reply = r]
    ELSE call

\* commit_epoch_and_save: UPDATE ... WHERE epoch = expected, then the INSERT.
CasAlways(m) == TRUE                               \* mutant: blind epoch + 1
CasAtMost(m) == m.expected <= homeEpoch            \* mutant: re-targets a stale Commit
EpochMatches(m) == m.expected = homeEpoch

ServeCommit(m) ==
    /\ m \in wire
    /\ wire' = wire \ {m}
    /\ IF EpochMatches(m)
       THEN /\ homeEpoch' = homeEpoch + 1
            /\ commits' = commits \cup
                  {[epoch |-> homeEpoch + 1, task |-> m.task, nth |-> m.nth]}
            /\ call' = ReplyTo(m, "accepted")
       ELSE /\ UNCHANGED <<homeEpoch, commits>>
            /\ call' = ReplyTo(m, "rejected")
    /\ UNCHANGED <<failures, openUntil>>

\* Peer certificate or membership check fails (PermissionDenied): no write.
RefuseCommit(m) ==
    /\ m \in wire
    /\ wire' = wire \ {m}
    /\ call' = ReplyTo(m, "rejected")
    /\ UNCHANGED <<failures, openUntil, homeEpoch, commits>>

\* A database error rolls the transaction back (Internal, retryable), or the
\* request never arrives.
LoseRequest(m) ==
    /\ m \in wire
    /\ wire' = wire \ {m}
    /\ call' = ReplyTo(m, "failed")
    /\ UNCHANGED <<failures, openUntil, homeEpoch, commits>>

Tick ==
    /\ openUntil > 0
    /\ openUntil' = openUntil - 1
    /\ UNCHANGED <<failures, call, wire, homeEpoch, commits>>

ForwardNext ==
    \/ \E t \in Task :
          \/ \E e \in 0..homeEpoch : StartCall(t, e)
          \/ RejectCall(t)
          \/ ReceiveAccepted(t)
          \/ ReceiveRejected(t)
          \/ AttemptFails(t)
    \/ \E m \in wire : ServeCommit(m) \/ RefuseCommit(m) \/ LoseRequest(m)
    \/ Tick

\* Time passes whatever the tasks do.
ForwardSpec == ForwardInit /\ [][ForwardNext]_forwardVars /\ WF_forwardVars(Tick)

-----------------------------------------------------------------------------
\* Type invariant.
ForwardTypeOK ==
    /\ failures \in 0..CIRCUIT_THRESHOLD
    /\ openUntil \in {Unset} \cup 0..CIRCUIT_OPEN_SECS
    /\ call \in [Task -> [pc : {"idle", "calling"}, nth : 0..MaxCalls,
                          try : 0..RETRY_MAX, expected : Nat,
                          reply : Reply, out : Outcome]]
    /\ wire \subseteq [task : Task, nth : 0..MaxCalls, try : 0..RETRY_MAX,
                       expected : Nat]
    /\ homeEpoch \in Nat
    /\ commits \subseteq [epoch : Nat, task : Task, nth : 0..MaxCalls]

\* A forwarded Commit advances the home region's epoch at most once, however
\* many of its attempts are executed and however late: the retry that follows
\* a lost response carries the same expected_epoch and loses the CAS.
AppliedAtMostOnce ==
    \A c, d \in commits : (c.task = d.task /\ c.nth = d.nth) => c = d

\* A call that returns Ok(epoch) has its own Commit envelope stored, at exactly
\* the successor of the epoch it was built against, even when the reply that
\* ended the loop was to a later attempt than the one that won.
OkMeansStored ==
    \A t \in Task : call[t].out = "ok" =>
        [epoch |-> call[t].expected + 1, task |-> t, nth |-> call[t].nth] \in commits

\* The breaker rejects calls only on evidence: while it is open the failure
\* count has reached the threshold, with no success since.
OpenOnlyAfterThreshold == IsOpen => failures >= CIRCUIT_THRESHOLD

\* The circuit never stays open for good: is_open turns false again once
\* open_duration has passed, whatever calls do meanwhile.
CircuitCloses == []<>(~IsOpen)

\* Does not hold (README, 6): circuit.rs:5, "closed -> open (after threshold failures)": the call whose
\* failure is the threshold-th or a later one since the last success leaves the
\* circuit open.
OpensAtThreshold ==
    [][\A t \in Task :
          (AttemptFails(t) /\ call'[t].pc = "idle" /\ failures' >= CIRCUIT_THRESHOLD)
          => openUntil' > 0]_forwardVars
=============================================================================
