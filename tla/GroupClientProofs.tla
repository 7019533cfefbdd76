--------------------------- MODULE GroupClientProofs ---------------------------
(***************************************************************************)
(* What holds of GroupClient for every set of devices and all bounds: a    *)
(* device's epoch is the ledger's, an accepted add can be resumed, its     *)
(* Welcome is sent or still owed, nobody is stranded behind the ledger, a  *)
(* spent receive key means a stored plaintext, and no key is used twice.   *)
(***************************************************************************)
EXTENDS GroupClient, FiniteSetTheorems, TLAPS

Envelope == [id : Nat, kind : {"commit", "welcome", "app"}, by : Device,
             to : Device \cup {NoDevice}, commit : Commit, gen : 0..MaxSends]

\* The Commit is the ledger's for its epoch; so is every one a device has merged.
InLog(c) == c.epoch \in 1..Len(log) /\ log[c.epoch] = c
Known(c) == c = Genesis \/ InLog(c)

\* Built in one of the epochs so far, and not yet counted twice.
Good(c) == c \in Commit /\ c.epoch <= c.serial /\ c.serial <= made

\* Who is in epoch n.
Roster(n) == IF n = 0 THEN {Creator} ELSE log[n].roster

\* Where an add or remove, and where an accept or an inbox run, may stand.
Working == {"staged", "posted", "accepted", "rejected", "merge", "member", "welcome", "drop"}
Joining == {"joined", "consent", "accepted_request"}

Ids == {e.id : e \in envs}
ServerOK ==
    /\ log \in Seq(Commit)
    /\ members \subseteq Device /\ pending \subseteq Device \ members
    /\ envs \subseteq Envelope /\ IsFiniteSet(envs)
    /\ gone \subseteq Ids /\ acks \subseteq Ids \X Device
    /\ wire \subseteq Commit
    /\ made \in 0..MaxCommits
ProfileOK ==
    /\ grp \in [Device -> GroupState \cup {None}]
    /\ conv \in [Device -> {None, "creator", "joiner"}]
    /\ rec \in [Device -> Record \cup {None}]
    /\ request = [d \in Device |-> request[d]]
    /\ spent = [d \in Device |-> spent[d]]
    /\ rx \in [Device -> SUBSET Ids]
    /\ cmd = [d \in Device |-> cmd[d]]
TablesOK == ServerOK /\ ProfileOK

LogOK == \A n \in 1..Len(log) : log[n].epoch = n /\ Good(log[n])

EnvOK(e) ==
    /\ e.kind = "commit" => InLog(e.commit) /\ e.by = e.commit.by /\ e.to = NoDevice
    /\ e.kind = "welcome" =>
          /\ InLog(e.commit)
          /\ e.to \in e.commit.roster /\ e.to \notin Roster(e.commit.epoch - 1)
    /\ e.kind = "app" =>
          Known(e.commit) /\ e.by \in e.commit.roster /\ e.to = NoDevice /\ e.gen > 0

GrpOK(d) == grp[d] # None => Known(grp[d].tip) /\ d \in grp[d].tip.roster

\* The Commit a record keeps, against the ledger and against the group state.
RecOK(d) ==
    rec[d] # None =>
        LET c == rec[d].commit IN
        /\ grp[d] # None
        /\ Good(c) /\ c.by = d /\ d \in c.roster
        /\ c.epoch \in 1..Len(log) + 1
        /\ rec[d].kind = "gadd" =>
              rec[d].peer \in c.roster /\ rec[d].peer \notin Roster(c.epoch - 1)
        /\ rec[d].kind = "grem" => c.roster \subseteq Roster(c.epoch - 1)
        /\ rec[d].accepted => rec[d].kind = "gadd" /\ InLog(c)
        /\ rec[d].accepted /\ grp[d].staged = None => grp[d].tip.epoch = c.epoch
StagedOK(d) ==
    grp[d] # None /\ grp[d].staged # None =>
        /\ rec[d] # None /\ grp[d].staged = rec[d].commit
        /\ grp[d].tip.epoch + 1 = rec[d].commit.epoch

ReqOK(d) ==
    request[d] # None =>
        request[d] \in envs /\ request[d].kind = "welcome" /\ request[d].to = d

\* An add or a remove in progress, pc by pc.
WorkOK(d, pc, c) ==
    /\ rec[d] # None /\ rec[d].commit = c
    /\ pc = "staged" => /\ ~rec[d].accepted /\ grp[d].staged = None
                        /\ grp[d].tip.epoch + 1 = c.epoch
    /\ pc \in {"posted", "accepted", "rejected"} => ~rec[d].accepted
    /\ pc \in {"posted", "accepted", "rejected", "merge"} => grp[d].staged = c
    /\ pc \in {"accepted", "merge", "member", "welcome"} => InLog(c)
    /\ pc \in {"member", "welcome"} => rec[d].accepted
    /\ pc = "merge" /\ rec[d].kind = "gadd" => rec[d].accepted
    /\ pc \in {"member", "welcome", "drop"} => grp[d].staged = None

\* An accept, an inbox run or a send in progress.
TakeOK(d, pc, e) ==
    /\ e \in envs
    /\ pc \in Joining => e.kind = "welcome" /\ e.to = d
    /\ pc = "ratchet" =>
          e.kind = "app" /\ grp[d] # None /\ e.commit = grp[d].tip /\ e.id \in rx[d]
    /\ pc = "ack" => e.kind # "welcome"

CmdOK(d) ==
    \/ cmd[d] = Idle
    \/ \E pc \in Working, c \in Commit : cmd[d] = Busy(pc, c) /\ WorkOK(d, pc, c)
    \/ \E pc \in Joining \cup {"ratchet", "ack"}, e \in envs :
          cmd[d] = Busy(pc, e) /\ TakeOK(d, pc, e)
    \/ /\ grp[d] # None /\ grp[d].gen > 0
       /\ cmd[d] = Busy("sending", [commit |-> grp[d].tip, gen |-> grp[d].gen])

DevOK(d) == GrpOK(d) /\ RecOK(d) /\ StagedOK(d) /\ ReqOK(d) /\ CmdOK(d)

StateInv ==
    /\ TablesOK /\ LogOK
    /\ \A e \in envs : EnvOK(e)
    /\ \A d \in Device : DevOK(d)

-----------------------------------------------------------------------------
\* Second part: what is on the wire is not in the ledger yet, and its sender's
\* record and staged state are still there.
WireOK(c) ==
    /\ rec[c.by] # None /\ rec[c.by].commit = c
    /\ grp[c.by].staged = c
    /\ ~InLog(c)
    /\ cmd[c.by].pc \notin Working \ {"posted"}

Adds(c) == ~(c.roster \subseteq Roster(c.epoch - 1))
Welcomed(c) == \E e \in envs : e.kind = "welcome" /\ e.commit = c

FateOK(d) ==
    /\ cmd[d].pc \in {"staged", "rejected"} => ~InLog(cmd[d].arg)
    /\ cmd[d].pc = "drop" /\ InLog(cmd[d].arg) =>
          /\ Adds(cmd[d].arg) => Welcomed(cmd[d].arg)
          /\ grp[d].tip.epoch = cmd[d].arg.epoch

DebtOK(n) ==
    Adds(log[n]) => \/ Welcomed(log[n])
                    \/ rec[log[n].by] # None /\ rec[log[n].by].commit = log[n]

WireInv ==
    /\ \A c \in wire : WireOK(c)
    /\ \A d \in Device : FateOK(d)
    /\ \A n \in 1..Len(log) : DebtOK(n)

-----------------------------------------------------------------------------
\* Third part.  A device's stay in the group from epoch m to n; every stay begins
\* with a Welcome, and a Welcome begins one only.
Stay(d, m, n) == m <= n /\ \A k \in m..n : d \in Roster(k)
Rooted(d, n) ==
    \A m \in 1..n : Stay(d, m, n) /\ d \notin Roster(m - 1) => log[m].serial \in spent[d]

\* d was in epoch n and is past it: it will not be there, or before it in the same
\* stay, again.
Left(d, n) ==
    n \in 0..Len(log) /\ Rooted(d, n) /\ (grp[d] # None => ~Stay(d, grp[d].tip.epoch, n))

SeatOK(d) == grp[d] # None => Rooted(d, grp[d].tip.epoch)

\* Who encrypted in an epoch is past it, or in it with its ratchet as far.
SentOK(e) ==
    e.kind = "app" =>
        \/ Left(e.by, e.commit.epoch)
        \/ grp[e.by] # None /\ grp[e.by].tip = e.commit /\ e.gen <= grp[e.by].gen
FreshOK(d) ==
    cmd[d].pc = "sending" =>
        \A e \in envs : e.kind = "app" /\ e.by = d /\ e.commit = grp[d].tip => e.gen < grp[d].gen

\* A spent key is a stored message's, and its plaintext is on disk.
UsedOK(d) ==
    grp[d] # None =>
        \A p \in grp[d].used : \E e \in envs :
            /\ e.kind = "app" /\ e.by = p[1] /\ e.gen = p[2] /\ e.commit = grp[d].tip
            /\ e.id \in rx[d]

\* Who built an epoch's Commit is past the epoch before, or has its record.
OwnOK(n) ==
    LET d == log[n].by IN
    \/ Left(d, n - 1)
    \/ /\ grp[d] # None /\ grp[d].tip.epoch = n - 1
       /\ rec[d] # None /\ rec[d].commit = log[n]

\* Envelopes have their own ids, every Commit has one, and who acked it is past it.
IdsOK ==
    /\ \A e \in envs : e.id <= Cardinality(envs)
    /\ \A e, f \in envs : e.id = f.id => e = f
OwedOK(n) ==
    /\ owed[n] \subseteq members
    /\ \E e \in envs : e.kind = "commit" /\ e.commit = log[n]
AckOK(e, d) ==
    e.kind = "commit" /\ <<e.id, d>> \in acks => e.by = d \/ Left(d, e.commit.epoch - 1)
AckingOK(d) ==
    cmd[d].pc = "ack" /\ cmd[d].arg.kind = "commit" => Left(d, cmd[d].arg.commit.epoch - 1)
GoneOK(e) ==
    e.kind = "commit" /\ e.id \in gone =>
        \A d \in owed[e.commit.epoch] : d = e.by \/ <<e.id, d>> \in acks

StayInv ==
    /\ IdsOK /\ KeysAreFresh
    /\ owed \in Seq(SUBSET Device) /\ Len(owed) = Len(log)
    /\ \A d \in Device : SeatOK(d) /\ FreshOK(d) /\ UsedOK(d) /\ AckingOK(d)
    /\ \A e \in envs : SentOK(e) /\ GoneOK(e) /\ \A d \in Device : AckOK(e, d)
    /\ \A n \in 1..Len(log) : OwnOK(n) /\ OwedOK(n)

-----------------------------------------------------------------------------
\* The ledger, the Commits staged and the envelopes stored only grow.
Grows ==
    /\ Len(log) <= Len(log')
    /\ \A n \in 1..Len(log) : log'[n] = log[n]
    /\ made <= made'
    /\ envs \subseteq envs'

LEMMA LogLen ==
    ASSUME TablesOK
    PROVE  /\ Len(log) \in Nat /\ made \in Nat /\ MaxCommits \in Nat
           /\ \A n \in 1..Len(log) : log[n] \in Commit
BY GroupClientAssumption DEF TablesOK, ServerOK, ProfileOK

\* What is in the ledger stays there.
LEMMA LogStays ==
    ASSUME TablesOK, TablesOK', LogOK, Grows
    PROVE  /\ \A c : InLog(c) => InLog(c)'
           /\ \A c : Known(c) => Known(c)'
           /\ \A c : Good(c) => Good(c)'
           /\ \A n \in 0..Len(log) : Roster(n)' = Roster(n)
<1> USE LogLen
<1>1. Len(log') \in Nat /\ made' \in Nat
  BY GroupClientAssumption DEF TablesOK, ServerOK, ProfileOK
<1>2. ASSUME NEW c, InLog(c) PROVE InLog(c)'
  BY <1>1, <1>2 DEF InLog, Grows
<1>3. ASSUME NEW c, Known(c) PROVE Known(c)'
  BY <1>2, <1>3 DEF Known, Genesis
<1>4. ASSUME NEW c, Good(c) PROVE Good(c)'
  BY <1>1, <1>4 DEF Good, Grows, Commit
<1>5. ASSUME NEW n \in 0..Len(log) PROVE Roster(n)' = Roster(n)
  BY <1>1, <1>5 DEF Roster, Grows
<1> QED BY <1>2, <1>3, <1>4, <1>5

\* Every Commit a device may merge was built within the bounds.
LEMMA KnownIsGood ==
    ASSUME TablesOK, LogOK, NEW c, Known(c)
    PROVE  Good(c) /\ c.epoch \in 0..Len(log) /\ c.roster = Roster(c.epoch)
<1> USE LogLen
<1>1. CASE c = Genesis
  BY <1>1, GroupClientAssumption DEF Good, Genesis, Commit, Roster
<1>2. CASE InLog(c)
  BY <1>2 DEF InLog, LogOK, Good, Roster
<1> QED BY <1>1, <1>2 DEF Known

LEMMA EnvStays ==
    ASSUME TablesOK, TablesOK', LogOK, Grows, NEW e \in envs, EnvOK(e)
    PROVE  EnvOK(e)'
<1>1. ASSUME e.kind = "commit" PROVE InLog(e.commit)' /\ e.by = e.commit.by /\ e.to = NoDevice
  BY <1>1, LogStays DEF EnvOK
<1>2. ASSUME e.kind = "welcome"
      PROVE  /\ InLog(e.commit)'
             /\ e.to \in e.commit.roster /\ e.to \notin Roster(e.commit.epoch - 1)'
  <2>1. InLog(e.commit) /\ e.to \in e.commit.roster /\ e.to \notin Roster(e.commit.epoch - 1)
    BY <1>2 DEF EnvOK
  <2>2. e.commit.epoch - 1 \in 0..Len(log)
    BY <2>1, LogLen DEF InLog
  <2>3. PICK n : n = e.commit.epoch - 1
    OBVIOUS
  <2>4. Roster(n)' = Roster(n)
    BY <2>2, <2>3, LogStays
  <2> QED BY <2>1, <2>3, <2>4, LogStays DEF Roster
<1>3. ASSUME e.kind = "app"
      PROVE  Known(e.commit)' /\ e.by \in e.commit.roster /\ e.to = NoDevice /\ e.gen > 0
  BY <1>3, LogStays DEF EnvOK
<1> QED BY <1>1, <1>2, <1>3 DEF EnvOK

-----------------------------------------------------------------------------
\* One device's part of the invariant, while its own state is left alone.
LEMMA GrpStays ==
    ASSUME TablesOK, TablesOK', LogOK, Grows, NEW d \in Device, GrpOK(d), grp'[d] = grp[d]
    PROVE  GrpOK(d)'
BY LogStays DEF GrpOK

LEMMA RecStays ==
    ASSUME TablesOK, TablesOK', LogOK, Grows, NEW d \in Device, RecOK(d), StagedOK(d),
           grp'[d] = grp[d], rec'[d] = rec[d]
    PROVE  RecOK(d)' /\ StagedOK(d)'
<1>1. StagedOK(d)'
  BY DEF StagedOK
<1>2. ASSUME rec[d] # None PROVE RecOK(d)'
  <2>1. PICK c : c = rec[d].commit
    OBVIOUS
  <2>2. PICK n : n = c.epoch - 1
    OBVIOUS
  <2>3. Good(c) /\ c.epoch \in 1..Len(log) + 1 /\ n \in 0..Len(log)
    BY <1>2, <2>1, <2>2, LogLen DEF RecOK
  <2>4. Good(c)' /\ c.epoch \in 1..Len(log') + 1 /\ Roster(n)' = Roster(n)
    BY <2>3, LogStays, LogLen DEF Grows, TablesOK, ServerOK
  <2>5. InLog(c) => InLog(c)'
    BY LogStays
  <2> QED BY <1>2, <2>1, <2>2, <2>4, <2>5 DEF RecOK
<1>3. CASE rec[d] = None
  BY <1>1, <1>3 DEF RecOK
<1> QED BY <1>1, <1>2, <1>3

LEMMA ReqStays ==
    ASSUME Grows, NEW d \in Device, ReqOK(d), request'[d] = request[d]
    PROVE  ReqOK(d)'
BY DEF ReqOK, Grows

LEMMA CmdStays ==
    ASSUME TablesOK, TablesOK', LogOK, Grows, NEW d \in Device, CmdOK(d),
           grp'[d] = grp[d], rec'[d] = rec[d], rx[d] \subseteq rx'[d], cmd'[d] = cmd[d]
    PROVE  CmdOK(d)'
<1>1. CASE cmd[d] = Idle
  BY <1>1 DEF CmdOK, Idle
<1>2. ASSUME NEW pc \in Working, NEW c \in Commit, cmd[d] = Busy(pc, c), WorkOK(d, pc, c)
      PROVE  CmdOK(d)'
  <2>1. WorkOK(d, pc, c)'
    BY <1>2, LogStays DEF WorkOK
  <2> QED BY <1>2, <2>1 DEF CmdOK, Busy
<1>3. ASSUME NEW pc \in Joining \cup {"ratchet", "ack"}, NEW e \in envs,
             cmd[d] = Busy(pc, e), TakeOK(d, pc, e)
      PROVE  CmdOK(d)'
  <2>1. TakeOK(d, pc, e)' /\ e \in envs'
    BY <1>3 DEF TakeOK, Grows
  <2> QED BY <1>3, <2>1 DEF CmdOK, Busy
<1>4. CASE /\ grp[d] # None /\ grp[d].gen > 0
           /\ cmd[d] = Busy("sending", [commit |-> grp[d].tip, gen |-> grp[d].gen])
  BY <1>4 DEF CmdOK, Busy
<1> QED BY <1>1, <1>2, <1>3, <1>4 DEF CmdOK

\* A step of one device, on its own state and on the tables.
Elsewhere(d) ==
    \A x \in Device \ {d} :
        /\ grp'[x] = grp[x] /\ rec'[x] = rec[x] /\ request'[x] = request[x]
        /\ rx'[x] = rx[x] /\ cmd'[x] = cmd[x] /\ spent'[x] = spent[x]

LEMMA StateFrame ==
    ASSUME StateInv, TablesOK', LogOK', Grows, NEW d \in Device, Elsewhere(d), DevOK(d)',
           \A e \in envs' \ envs : EnvOK(e)'
    PROVE  StateInv'
<1>1. ASSUME NEW x \in Device, x # d PROVE DevOK(x)'
  <2>1. /\ GrpOK(x) /\ RecOK(x) /\ StagedOK(x) /\ ReqOK(x) /\ CmdOK(x)
        /\ TablesOK /\ LogOK
    BY DEF StateInv, DevOK
  <2>2. /\ grp'[x] = grp[x] /\ rec'[x] = rec[x] /\ request'[x] = request[x]
        /\ rx'[x] = rx[x] /\ cmd'[x] = cmd[x]
    BY <1>1 DEF Elsewhere
  <2> QED BY <2>1, <2>2, GrpStays, RecStays, ReqStays, CmdStays DEF DevOK
<1>2. ASSUME NEW e \in envs' PROVE EnvOK(e)'
  BY <1>2, EnvStays DEF StateInv
<1> QED BY <1>1, <1>2 DEF StateInv

-----------------------------------------------------------------------------
\* What a device's pc says of its command.
LEMMA PcIs ==
    ASSUME NEW d \in Device
    PROVE  /\ cmd[d] = Idle => cmd[d].pc = "idle"
           /\ \A pc, x : cmd[d] = Busy(pc, x) => cmd[d].pc = pc /\ cmd[d].arg = x
BY DEF Idle, Busy

LEMMA WorkAt ==
    ASSUME NEW d \in Device, CmdOK(d), cmd[d].pc \in Working
    PROVE  /\ cmd[d] = Busy(cmd[d].pc, cmd[d].arg) /\ cmd[d].arg \in Commit
           /\ WorkOK(d, cmd[d].pc, cmd[d].arg)
<1>1. cmd[d] # Idle
  BY PcIs DEF Working
<1>2. \A pc, x : cmd[d] = Busy(pc, x) => pc \in Working
  BY PcIs
<1>3. PICK pc \in Working, c \in Commit : cmd[d] = Busy(pc, c) /\ WorkOK(d, pc, c)
  BY <1>1, <1>2 DEF CmdOK, Working, Joining
<1> QED BY <1>3, PcIs

LEMMA TakeAt ==
    ASSUME NEW d \in Device, CmdOK(d), cmd[d].pc \in Joining \cup {"ratchet", "ack"}
    PROVE  /\ cmd[d] = Busy(cmd[d].pc, cmd[d].arg) /\ cmd[d].arg \in envs
           /\ TakeOK(d, cmd[d].pc, cmd[d].arg)
<1>1. cmd[d] # Idle
  BY PcIs DEF Joining
<1>2. \A pc, x : cmd[d] = Busy(pc, x) => pc \in Joining \cup {"ratchet", "ack"}
  BY PcIs
<1>3. PICK pc \in Joining \cup {"ratchet", "ack"}, e \in envs :
          cmd[d] = Busy(pc, e) /\ TakeOK(d, pc, e)
  BY <1>1, <1>2 DEF CmdOK, Working, Joining
<1> QED BY <1>3, PcIs

LEMMA SendAt ==
    ASSUME NEW d \in Device, CmdOK(d), cmd[d].pc = "sending"
    PROVE  /\ grp[d] # None /\ grp[d].gen > 0
           /\ cmd[d].arg.commit = grp[d].tip /\ cmd[d].arg.gen = grp[d].gen
<1>1. cmd[d] # Idle
  BY PcIs
<1>2. \A pc, x : cmd[d] = Busy(pc, x) => pc = "sending"
  BY PcIs
<1>3. /\ grp[d] # None /\ grp[d].gen > 0
      /\ cmd[d] = Busy("sending", [commit |-> grp[d].tip, gen |-> grp[d].gen])
  BY <1>1, <1>2 DEF CmdOK, Working, Joining
<1> QED BY <1>3, PcIs

\* How a command's next step is seen to be in order.
LEMMA IdleOK ==
    ASSUME TablesOK, NEW d \in Device, cmd' = [cmd EXCEPT ![d] = Idle]
    PROVE  CmdOK(d)'
BY DEF TablesOK, ServerOK, ProfileOK, CmdOK, Idle

LEMMA ToWork ==
    ASSUME TablesOK, NEW d \in Device, NEW pc \in Working, NEW c \in Commit,
           cmd' = [cmd EXCEPT ![d] = Busy(pc, c)], WorkOK(d, pc, c)'
    PROVE  CmdOK(d)'
<1>1. cmd'[d] = Busy(pc, c)
  BY DEF TablesOK, ServerOK, ProfileOK
<1> QED BY <1>1 DEF CmdOK, Busy

LEMMA ToTake ==
    ASSUME TablesOK, NEW d \in Device, NEW pc \in Joining \cup {"ratchet", "ack"}, NEW e \in envs',
           cmd' = [cmd EXCEPT ![d] = Busy(pc, e)], TakeOK(d, pc, e)'
    PROVE  CmdOK(d)'
<1>1. cmd'[d] = Busy(pc, e)
  BY DEF TablesOK, ServerOK, ProfileOK
<1> QED BY <1>1 DEF CmdOK, Busy

\* The tables of a step that stores nothing.
LEMMA SameLog ==
    ASSUME TablesOK, LogOK, log' = log, made' \in Nat, made <= made', envs \subseteq envs'
    PROVE  Grows /\ LogOK'
<1>1. Grows
  BY LogLen DEF Grows
<1>2. LogOK'
  BY LogLen DEF LogOK, Good, Commit
<1> QED BY <1>1, <1>2

LEMMA StagedIs ==
    ASSUME NEW g \in GroupState, NEW c \in Commit \cup {None}
    PROVE  /\ [g EXCEPT !.staged = c] \in GroupState
           /\ [g EXCEPT !.staged = c].tip = g.tip
           /\ [g EXCEPT !.staged = c].staged = c
           /\ [g EXCEPT !.staged = c].gen = g.gen
           /\ [g EXCEPT !.staged = c].used = g.used
BY DEF GroupState

LEMMA AtIs ==
    ASSUME NEW c \in Commit
    PROVE  /\ At(c) \in GroupState /\ At(c) # None
           /\ At(c).tip = c /\ At(c).staged = None /\ At(c).gen = 0 /\ At(c).used = {}
BY GroupClientAssumption, NoneAssumption DEF At, GroupState

-----------------------------------------------------------------------------
\* `group add` and `group remove`.
LEMMA StateStage ==
    ASSUME StateInv, NEW d \in Device, NEW kind \in {"gadd", "grem"}, NEW peer \in Device,
           NEW roster \in SUBSET Device, stage(d, kind, peer, roster), d \in roster,
           kind = "gadd" => peer \in roster \ grp[d].tip.roster,
           kind = "grem" => roster \subseteq grp[d].tip.roster
    PROVE  StateInv'
<1> USE LogLen, GroupClientAssumption
<1>0. TablesOK /\ LogOK /\ DevOK(d)
  BY DEF StateInv
<1>1. /\ cmd[d] = Idle /\ rec[d] = None /\ grp[d] # None /\ grp[d].staged = None
      /\ made < MaxCommits /\ made' = made + 1
      /\ UNCHANGED <<log, members, pending, envs, gone, acks, wire, owed,
                     grp, conv, request, spent, rx, upsets>>
  BY DEF stage, prepare_add, server
<1>2. grp[d] \in GroupState /\ Known(grp[d].tip) /\ d \in grp[d].tip.roster
  BY <1>0, <1>1 DEF TablesOK, ServerOK, ProfileOK, DevOK, GrpOK
<1>3. PICK t : t = grp[d].tip
  OBVIOUS
<1>4. Good(t) /\ t.epoch \in 0..Len(log) /\ t.roster = Roster(t.epoch)
  BY <1>0, <1>2, <1>3, KnownIsGood
<1>5. PICK c : c = NextCommit(d, roster)
  OBVIOUS
<1>6. /\ c \in Commit /\ c.serial = made + 1 /\ c.by = d /\ c.epoch = t.epoch + 1
      /\ c.roster = roster /\ c.epoch <= c.serial
  BY <1>0, <1>1, <1>3, <1>4, <1>5 DEF NextCommit, Commit, Good
<1>7. PICK r : r = [kind |-> kind, accepted |-> FALSE, commit |-> c, peer |-> peer]
  OBVIOUS
<1>8. r \in Record /\ r # None
  <2>1. r \in Record
    BY <1>6, <1>7 DEF Record
  <2> QED BY <2>1, NoneAssumption
<1>9. rec' = [rec EXCEPT ![d] = r] /\ cmd' = [cmd EXCEPT ![d] = Busy("staged", c)]
  BY <1>5, <1>7 DEF stage, Goto
<1>10. rec'[d] = r /\ cmd'[d] = Busy("staged", c)
  BY <1>0, <1>9 DEF TablesOK, ServerOK, ProfileOK
<1>11. TablesOK'
  <2>1. ServerOK'
    BY <1>0, <1>1 DEF TablesOK, ServerOK, Ids
  <2>2. ProfileOK'
    BY <1>0, <1>1, <1>8, <1>9 DEF TablesOK, ProfileOK, Ids
  <2> QED BY <2>1, <2>2 DEF TablesOK
<1>12. Grows /\ LogOK'
  BY <1>0, <1>1, SameLog
<1>13. Elsewhere(d)
  BY <1>0, <1>1, <1>9 DEF TablesOK, ServerOK, ProfileOK, Elsewhere
<1>14. GrpOK(d)' /\ ReqOK(d)'
  BY <1>0, <1>1, <1>11, <1>12, GrpStays, ReqStays DEF DevOK
<1>15. RecOK(d)'
  <2>1. Good(c)' /\ c.epoch \in 1..Len(log') + 1
    BY <1>0, <1>1, <1>4, <1>6 DEF Good
  <2>2. Roster(c.epoch - 1)' = t.roster
    BY <1>1, <1>4, <1>6 DEF Roster
  <2>3. r.kind = kind /\ r.peer = peer /\ r.commit = c /\ ~r.accepted
    BY <1>7
  <2>4. /\ kind = "gadd" => peer \in c.roster /\ peer \notin t.roster
        /\ kind = "grem" => c.roster \subseteq t.roster
    BY <1>3, <1>6
  <2>5. c.by = d /\ d \in c.roster
    BY <1>6
  <2> QED BY <1>1, <1>10, <2>1, <2>2, <2>3, <2>4, <2>5 DEF RecOK
<1>16. StagedOK(d)'
  BY <1>1 DEF StagedOK
<1>17. WorkOK(d, "staged", c)'
  BY <1>1, <1>3, <1>6, <1>7, <1>8, <1>10 DEF WorkOK
<1>18. CmdOK(d)'
  BY <1>0, <1>6, <1>9, <1>17, ToWork DEF Working
<1> QED BY <1>1, <1>11, <1>12, <1>13, <1>14, <1>15, <1>16, <1>18, StateFrame DEF DevOK

LEMMA StateAdd ==
    ASSUME StateInv, NEW d \in Device, NEW peer \in Device, add(d, peer) \/ remove(d, peer)
    PROVE  StateInv'
<1>1. TablesOK /\ DevOK(d) /\ grp[d] # None
  BY DEF StateInv, add, remove
<1>2. grp[d].tip.roster \in SUBSET Device /\ d \in grp[d].tip.roster
  BY <1>1 DEF TablesOK, ServerOK, ProfileOK, GroupState, Commit, DevOK, GrpOK
<1>3. CASE add(d, peer)
  BY <1>2, <1>3, StateStage DEF add
<1>4. CASE remove(d, peer)
  BY <1>2, <1>4, StateStage DEF remove
<1> QED BY <1>3, <1>4

\* The steps that store nothing.
Quiet == log' = log /\ envs' = envs /\ made' = made

LEMMA QuietGrows ==
    ASSUME StateInv, Quiet
    PROVE  Grows /\ LogOK'
BY LogLen, SameLog DEF StateInv, Quiet

LEMMA QuietFrame ==
    ASSUME StateInv, Quiet, ServerOK', ProfileOK', NEW d \in Device, Elsewhere(d), DevOK(d)'
    PROVE  StateInv'
<1>1. Grows /\ LogOK' /\ envs' = envs
  BY QuietGrows DEF Quiet
<1> QED BY <1>1, StateFrame DEF TablesOK

LEMMA AckTables ==
    ASSUME ServerOK, NEW d \in Device, NEW e \in envs, ack(d, e)
    PROVE  gone' \subseteq Ids /\ acks' \subseteq Ids \X Device
BY DEF ServerOK, ack, Ids

\* A command ends, its profile as it was.
LEMMA StateEnds ==
    ASSUME StateInv, NEW d \in Device, Quiet, UNCHANGED <<members, pending, profile>>,
           cmd' = [cmd EXCEPT ![d] = Idle],
           wire' \subseteq wire, gone' \subseteq Ids, acks' \subseteq Ids \X Device
    PROVE  StateInv'
<1>0. TablesOK /\ LogOK /\ DevOK(d)
  BY DEF StateInv
<1>1. ServerOK'
  BY <1>0 DEF TablesOK, ServerOK, Quiet, Ids
<1>2. ProfileOK'
  BY <1>0 DEF TablesOK, ProfileOK, Quiet, Ids, profile
<1>3. Elsewhere(d)
  BY <1>0 DEF TablesOK, ProfileOK, Elsewhere, profile
<1>4. Grows
  BY QuietGrows
<1>5. GrpOK(d)' /\ RecOK(d)' /\ StagedOK(d)' /\ ReqOK(d)'
  BY <1>0, <1>1, <1>2, <1>4, GrpStays, RecStays, ReqStays DEF DevOK, profile, TablesOK
<1>6. CmdOK(d)'
  BY <1>0, IdleOK
<1> QED BY <1>1, <1>2, <1>3, <1>5, <1>6, QuietFrame DEF DevOK

LEMMA StateStops ==
    ASSUME StateInv, NEW d \in Device,
           commit_unknown(d) \/ ack_used(d) \/ stop(d)
    PROVE  StateInv'
<1>0. TablesOK /\ DevOK(d)
  BY DEF StateInv
<1>1. CASE commit_unknown(d)
  BY <1>0, <1>1, StateEnds DEF commit_unknown, Upset, Done, Quiet, TablesOK, ServerOK
<1>2. CASE ack_used(d)
  <2>1. cmd[d].arg \in envs /\ ack(d, cmd[d].arg)
    BY <1>0, <1>2, TakeAt DEF ack_used, DevOK
  <2>2. gone' \subseteq Ids /\ acks' \subseteq Ids \X Device
    BY <1>0, <2>1, AckTables DEF TablesOK
  <2> QED BY <1>2, <2>2, StateEnds DEF ack_used, Done, Quiet
<1>3. CASE stop(d)
  BY <1>0, <1>3, StateEnds DEF stop, Upset, Done, Quiet, server, TablesOK, ServerOK
<1> QED BY <1>1, <1>2, <1>3

LEMMA StateEcho ==
    ASSUME StateInv, NEW d \in Device, drop_echo(d)
    PROVE  StateInv'
<1>0. TablesOK /\ LogOK /\ DevOK(d)
  BY DEF StateInv
<1>1. PICK e \in envs : ack(d, e)
  BY DEF drop_echo, Usable, find_pending
<1>2. /\ UNCHANGED <<log, members, pending, envs, wire, owed, grp, conv, rec, request, spent, rx>>
      /\ UNCHANGED <<cmd, made, upsets>>
  BY DEF drop_echo, profile
<1>3. ServerOK'
  <2>1. gone' \subseteq Ids /\ acks' \subseteq Ids \X Device
    BY <1>0, <1>1, AckTables DEF TablesOK
  <2> QED BY <1>0, <1>2, <2>1 DEF TablesOK, ServerOK, Ids
<1>4. ProfileOK'
  BY <1>0, <1>2 DEF TablesOK, ProfileOK, Ids
<1>5. Quiet /\ Elsewhere(d)
  BY <1>2 DEF Quiet, Elsewhere
<1>6. Grows
  BY <1>5, QuietGrows
<1>7. DevOK(d)'
  BY <1>0, <1>2, <1>3, <1>4, <1>6, GrpStays, RecStays, ReqStays, CmdStays DEF DevOK, TablesOK
<1> QED BY <1>3, <1>4, <1>5, <1>7, QuietFrame

-----------------------------------------------------------------------------
\* A working command's step that leaves the tables alone but for the wire and the
\* pending memberships.
LEMMA WorkStep ==
    ASSUME StateInv, NEW d \in Device, Quiet,
           UNCHANGED <<members, gone, acks, conv, request, spent, rx>>,
           pending' \subseteq Device \ members, wire' \subseteq Commit,
           NEW g \in GroupState \cup {None}, grp' = [grp EXCEPT ![d] = g],
           NEW r \in Record \cup {None}, rec' = [rec EXCEPT ![d] = r],
           NEW f, cmd' = [cmd EXCEPT ![d] = f],
           GrpOK(d)', RecOK(d)', StagedOK(d)', CmdOK(d)'
    PROVE  StateInv'
<1>0. TablesOK /\ LogOK /\ DevOK(d)
  BY DEF StateInv
<1>1. ServerOK'
  BY <1>0 DEF TablesOK, ServerOK, Quiet, Ids
<1>2. ProfileOK'
  BY <1>0 DEF TablesOK, ProfileOK, Quiet, Ids
<1>3. Elsewhere(d)
  BY <1>0 DEF TablesOK, ProfileOK, Elsewhere
<1>4. ReqOK(d)'
  BY <1>0, QuietGrows, ReqStays DEF DevOK
<1> QED BY <1>1, <1>2, <1>3, <1>4, QuietFrame DEF DevOK

LEMMA StateSave ==
    ASSUME StateInv, NEW d \in Device, save_and_post(d)
    PROVE  StateInv'
<1>0. TablesOK /\ LogOK /\ DevOK(d)
  BY DEF StateInv
<1>1. PICK c : c = cmd[d].arg
  OBVIOUS
<1>2. c \in Commit /\ WorkOK(d, "staged", c)
  BY <1>0, <1>1, WorkAt DEF save_and_post, DevOK, Working
<1>3. /\ Quiet /\ UNCHANGED <<members, pending, gone, acks, owed, conv, rec, request, spent, rx>>
      /\ wire' = wire \cup {c} /\ cmd' = [cmd EXCEPT ![d] = Busy("posted", c)]
      /\ grp' = [grp EXCEPT ![d].staged = c]
  BY <1>1 DEF save_and_post, Quiet, Goto
<1>4. /\ rec[d] # None /\ rec[d].commit = c /\ ~rec[d].accepted /\ grp[d].staged = None
      /\ grp[d].tip.epoch + 1 = c.epoch
  BY <1>2 DEF WorkOK
<1>5. grp[d] # None /\ grp[d] \in GroupState /\ rec[d] \in Record
  BY <1>0, <1>4 DEF DevOK, RecOK, TablesOK, ProfileOK
<1>6. PICK g : g = [grp[d] EXCEPT !.staged = c]
  OBVIOUS
<1>7. g \in GroupState /\ g.tip = grp[d].tip /\ g.staged = c /\ g # None
  BY <1>2, <1>5, <1>6, StagedIs, NoneAssumption
<1>8. grp' = [grp EXCEPT ![d] = g] /\ grp'[d] = g
  BY <1>0, <1>3, <1>6 DEF TablesOK, ProfileOK
<1>9. rec' = [rec EXCEPT ![d] = rec[d]] /\ rec'[d] = rec[d]
  BY <1>0, <1>3 DEF TablesOK, ProfileOK
<1>10. GrpOK(d)'
  BY <1>0, <1>3, <1>5, <1>7, <1>8 DEF DevOK, GrpOK, Known, InLog, Quiet
<1>11. RecOK(d)'
  BY <1>0, <1>3, <1>4, <1>5, <1>7, <1>8, <1>9 DEF DevOK, RecOK, Good, Roster, InLog, Quiet
<1>12. StagedOK(d)'
  BY <1>4, <1>7, <1>8, <1>9 DEF StagedOK
<1>13. WorkOK(d, "posted", c)'
  BY <1>4, <1>7, <1>8, <1>9 DEF WorkOK
<1>14. CmdOK(d)'
  BY <1>0, <1>2, <1>3, <1>13, ToWork DEF Working
<1>15. pending' \subseteq Device \ members /\ wire' \subseteq Commit
  BY <1>0, <1>2, <1>3 DEF TablesOK, ServerOK
<1> QED BY <1>3, <1>5, <1>7, <1>8, <1>9, <1>10, <1>11, <1>12, <1>14, <1>15, WorkStep

LEMMA StateMark ==
    ASSUME StateInv, NEW d \in Device, mark_accepted(d)
    PROVE  StateInv'
<1>0. TablesOK /\ LogOK /\ DevOK(d)
  BY DEF StateInv
<1>1. PICK c : c = cmd[d].arg
  OBVIOUS
<1>2. c \in Commit /\ WorkOK(d, "accepted", c)
  BY <1>0, <1>1, WorkAt DEF mark_accepted, DevOK, Working
<1>3. /\ Quiet /\ UNCHANGED <<members, pending, gone, acks, wire, owed, grp, conv, request, spent, rx>>
      /\ cmd' = [cmd EXCEPT ![d] = Busy("merge", c)]
      /\ rec' = [rec EXCEPT ![d].accepted = (@ \/ rec[d].kind = "gadd")]
  BY <1>1 DEF mark_accepted, Quiet, Goto, server
<1>4. rec[d] # None /\ rec[d].commit = c /\ ~rec[d].accepted /\ grp[d].staged = c /\ InLog(c)
  BY <1>2 DEF WorkOK
<1>5. grp[d] # None /\ grp[d] \in GroupState /\ rec[d] \in Record /\ c # None
  BY <1>0, <1>2, <1>4, NoneAssumption DEF DevOK, RecOK, TablesOK, ProfileOK
<1>6. PICK r : r = [rec[d] EXCEPT !.accepted = (@ \/ rec[d].kind = "gadd")]
  OBVIOUS
<1>7. /\ r \in Record /\ r.kind = rec[d].kind /\ r.commit = c /\ r.peer = rec[d].peer
      /\ r.accepted <=> rec[d].kind = "gadd"
  BY <1>4, <1>5, <1>6 DEF Record
<1>8. r # None
  BY <1>7, NoneAssumption
<1>9. rec' = [rec EXCEPT ![d] = r] /\ rec'[d] = r
  BY <1>0, <1>3, <1>6 DEF TablesOK, ProfileOK
<1>10. grp' = [grp EXCEPT ![d] = grp[d]] /\ grp'[d] = grp[d]
  BY <1>0, <1>3 DEF TablesOK, ProfileOK
<1>11. GrpOK(d)'
  BY <1>0, <1>3 DEF DevOK, GrpOK, Known, InLog, Quiet
<1>12. RecOK(d)'
  BY <1>0, <1>3, <1>4, <1>5, <1>7, <1>8, <1>9, <1>10 DEF DevOK, RecOK, Good, Roster, InLog, Quiet
<1>13. StagedOK(d)'
  BY <1>0, <1>4, <1>5, <1>7, <1>8, <1>9, <1>10 DEF DevOK, StagedOK
<1>14. WorkOK(d, "merge", c)'
  BY <1>3, <1>4, <1>7, <1>8, <1>9, <1>10 DEF WorkOK, InLog, Quiet
<1>15. CmdOK(d)'
  BY <1>0, <1>2, <1>3, <1>14, ToWork DEF Working
<1>16. pending' \subseteq Device \ members /\ wire' \subseteq Commit
  BY <1>0, <1>3 DEF TablesOK, ServerOK
<1> QED BY <1>3, <1>5, <1>7, <1>9, <1>10, <1>11, <1>12, <1>13, <1>15, <1>16, WorkStep

\* A device merges its own Commit: on confirm, and on resume.
LEMMA StateMerge ==
    ASSUME StateInv, NEW d \in Device, NEW c \in Commit, NEW pc \in {"member", "drop"},
           rec[d] # None, rec[d].commit = c, InLog(c),
           pc = "member" <=> rec[d].kind = "gadd",
           rec[d].kind = "gadd" => rec[d].accepted,
           Quiet, UNCHANGED <<members, pending, gone, acks, wire, owed, conv, rec, request, spent, rx>>,
           grp' = [grp EXCEPT ![d] = At(c)], cmd' = [cmd EXCEPT ![d] = Busy(pc, c)]
    PROVE  StateInv'
<1>0. TablesOK /\ LogOK /\ DevOK(d)
  BY DEF StateInv
<1>1. /\ At(c) \in GroupState /\ At(c) # None
      /\ At(c).tip = c /\ At(c).staged = None
  BY AtIs
<1>2. grp'[d] = At(c) /\ rec' = [rec EXCEPT ![d] = rec[d]] /\ rec'[d] = rec[d] /\ rec[d] \in Record
  BY <1>0 DEF TablesOK, ProfileOK
<1>3. d \in c.roster
  BY <1>0 DEF DevOK, RecOK
<1>4. GrpOK(d)'
  BY <1>1, <1>2, <1>3 DEF GrpOK, Known, InLog, Quiet
<1>5. RecOK(d)'
  BY <1>0, <1>1, <1>2 DEF DevOK, RecOK, Good, Roster, InLog, Quiet
<1>6. StagedOK(d)'
  BY <1>1, <1>2 DEF StagedOK
<1>7. WorkOK(d, pc, c)'
  BY <1>1, <1>2 DEF WorkOK, InLog, Quiet
<1>8. CmdOK(d)'
  BY <1>0, <1>7, ToWork DEF Working
<1>9. pending' \subseteq Device \ members /\ wire' \subseteq Commit
  BY <1>0 DEF TablesOK, ServerOK
<1> QED BY <1>1, <1>2, <1>4, <1>5, <1>6, <1>8, <1>9, WorkStep

LEMMA StateConfirm ==
    ASSUME StateInv, NEW d \in Device, confirm(d)
    PROVE  StateInv'
<1>0. TablesOK /\ LogOK /\ DevOK(d)
  BY DEF StateInv
<1>1. cmd[d].arg \in Commit /\ WorkOK(d, "merge", cmd[d].arg)
  BY <1>0, WorkAt DEF confirm, DevOK, Working
<1>2. /\ rec[d] # None /\ rec[d].commit = cmd[d].arg /\ InLog(cmd[d].arg)
      /\ rec[d].kind = "gadd" => rec[d].accepted
  BY <1>1 DEF WorkOK
<1>3. /\ Quiet
      /\ UNCHANGED <<members, pending, gone, acks, wire, owed, conv, rec, request, spent, rx>>
      /\ grp' = [grp EXCEPT ![d] = At(cmd[d].arg)]
      /\ cmd' = [cmd EXCEPT ![d] = Busy(AfterMerge(d), cmd[d].arg)]
  BY DEF confirm, Quiet, Goto, server
<1>4. AfterMerge(d) \in {"member", "drop"} /\ (AfterMerge(d) = "member" <=> rec[d].kind = "gadd")
  BY DEF AfterMerge
<1> QED BY <1>1, <1>2, <1>3, <1>4, StateMerge

LEMMA StateResume ==
    ASSUME StateInv, NEW d \in Device, resume(d)
    PROVE  StateInv'
<1>0. TablesOK /\ LogOK /\ DevOK(d)
  BY DEF StateInv
<1>1. rec[d] # None /\ rec[d].accepted /\ grp[d] # None
  BY DEF resume, MayResume
<1>2. PICK c : c = rec[d].commit
  OBVIOUS
<1>3. /\ c \in Commit /\ InLog(c) /\ rec[d].kind = "gadd"
  BY <1>0, <1>1, <1>2 DEF DevOK, RecOK, Good
<1>4. /\ Quiet
      /\ UNCHANGED <<members, pending, gone, acks, wire, owed, conv, rec, request, spent, rx>>
      /\ cmd' = [cmd EXCEPT ![d] = Busy("member", c)]
  BY <1>2 DEF resume, Quiet, Goto, server
<1>5. CASE Behind(d)
  <2>1. grp[d].staged = c
    BY <1>0, <1>1, <1>2, <1>5 DEF Behind, DevOK, StagedOK
  <2>2. grp' = [grp EXCEPT ![d] = At(c)]
    BY <1>5, <2>1 DEF resume
  <2> QED BY <1>1, <1>2, <1>3, <1>4, <2>2, StateMerge
<1>6. CASE ~Behind(d)
  <2>1. grp' = grp /\ grp[d].staged = None
    BY <1>6 DEF resume, Level
  <2>2. /\ grp' = [grp EXCEPT ![d] = grp[d]] /\ rec' = [rec EXCEPT ![d] = rec[d]]
        /\ grp[d] \in GroupState \cup {None} /\ rec[d] \in Record \cup {None}
    BY <1>0, <1>4, <2>1 DEF TablesOK, ProfileOK
  <2>3. GrpOK(d)' /\ RecOK(d)' /\ StagedOK(d)'
    BY <1>0, <1>4, <2>1
       DEF DevOK, GrpOK, RecOK, StagedOK, Good, Roster, Known, InLog, Quiet
  <2>4. WorkOK(d, "member", c)'
    BY <1>1, <1>2, <1>3, <1>4, <2>1 DEF WorkOK, InLog, Quiet
  <2>5. CmdOK(d)'
    BY <1>0, <1>3, <1>4, <2>4, ToWork DEF Working
  <2>6. pending' \subseteq Device \ members /\ wire' \subseteq Commit
    BY <1>0, <1>4 DEF TablesOK, ServerOK
  <2> QED BY <1>4, <2>2, <2>3, <2>5, <2>6, WorkStep
<1> QED BY <1>5, <1>6

LEMMA StateAbort ==
    ASSUME StateInv, NEW d \in Device, abort(d)
    PROVE  StateInv'
<1>0. TablesOK /\ LogOK /\ DevOK(d)
  BY DEF StateInv
<1>1. PICK c : c = cmd[d].arg
  OBVIOUS
<1>2. c \in Commit /\ WorkOK(d, "rejected", c)
  BY <1>0, <1>1, WorkAt DEF abort, DevOK, Working
<1>3. /\ Quiet
      /\ UNCHANGED <<members, pending, gone, acks, wire, owed, conv, rec, request, spent, rx>>
      /\ grp' = [grp EXCEPT ![d].staged = None] /\ cmd' = [cmd EXCEPT ![d] = Busy("drop", c)]
  BY <1>1 DEF abort, Quiet, Goto, server
<1>4. rec[d] # None /\ rec[d].commit = c /\ ~rec[d].accepted
  BY <1>2 DEF WorkOK
<1>5. grp[d] # None /\ grp[d] \in GroupState /\ rec[d] \in Record
  BY <1>0, <1>4 DEF DevOK, RecOK, TablesOK, ProfileOK
<1>6. PICK g : g = [grp[d] EXCEPT !.staged = None]
  OBVIOUS
<1>7. g \in GroupState /\ g.tip = grp[d].tip /\ g.staged = None /\ g # None
  BY <1>5, <1>6, StagedIs, NoneAssumption
<1>8. grp' = [grp EXCEPT ![d] = g] /\ grp'[d] = g
  BY <1>0, <1>3, <1>6 DEF TablesOK, ProfileOK
<1>9. rec' = [rec EXCEPT ![d] = rec[d]] /\ rec'[d] = rec[d]
  BY <1>0, <1>3 DEF TablesOK, ProfileOK
<1>10. GrpOK(d)'
  BY <1>0, <1>3, <1>5, <1>7, <1>8 DEF DevOK, GrpOK, Known, InLog, Quiet
<1>11. RecOK(d)'
  BY <1>0, <1>3, <1>4, <1>5, <1>7, <1>8, <1>9 DEF DevOK, RecOK, Good, Roster, InLog, Quiet
<1>12. StagedOK(d)'
  BY <1>7, <1>8 DEF StagedOK
<1>13. WorkOK(d, "drop", c)'
  BY <1>4, <1>7, <1>8, <1>9 DEF WorkOK
<1>14. CmdOK(d)'
  BY <1>0, <1>2, <1>3, <1>13, ToWork DEF Working
<1>15. pending' \subseteq Device \ members /\ wire' \subseteq Commit
  BY <1>0, <1>3 DEF TablesOK, ServerOK
<1> QED BY <1>3, <1>5, <1>7, <1>8, <1>9, <1>10, <1>11, <1>12, <1>14, <1>15, WorkStep

LEMMA StateDrop ==
    ASSUME StateInv, NEW d \in Device, drop_record(d)
    PROVE  StateInv'
<1>0. TablesOK /\ LogOK /\ DevOK(d)
  BY DEF StateInv
<1>1. grp[d].staged = None
  BY <1>0, WorkAt DEF drop_record, DevOK, Working, WorkOK
<1>2. /\ Quiet
      /\ UNCHANGED <<members, pending, gone, acks, wire, owed, grp, conv, request, spent, rx>>
      /\ rec' = [rec EXCEPT ![d] = None] /\ cmd' = [cmd EXCEPT ![d] = Idle]
  BY DEF drop_record, Quiet, Done, server
<1>3. /\ rec'[d] = None /\ grp' = [grp EXCEPT ![d] = grp[d]] /\ grp'[d] = grp[d]
      /\ grp[d] \in GroupState \cup {None}
  BY <1>0, <1>2 DEF TablesOK, ProfileOK
<1>4. GrpOK(d)' /\ RecOK(d)' /\ StagedOK(d)'
  BY <1>0, <1>1, <1>2, <1>3 DEF DevOK, GrpOK, RecOK, StagedOK, Known, InLog, Quiet
<1>5. CmdOK(d)'
  BY <1>0, <1>2, IdleOK
<1>6. pending' \subseteq Device \ members /\ wire' \subseteq Commit
  BY <1>0, <1>2 DEF TablesOK, ServerOK
<1> QED BY <1>2, <1>3, <1>4, <1>5, <1>6, WorkStep

LEMMA StateMember ==
    ASSUME StateInv, NEW d \in Device, post_member(d)
    PROVE  StateInv'
<1>0. TablesOK /\ LogOK /\ DevOK(d)
  BY DEF StateInv
<1>1. PICK c : c = cmd[d].arg
  OBVIOUS
<1>2. c \in Commit /\ WorkOK(d, "member", c)
  BY <1>0, <1>1, WorkAt DEF post_member, DevOK, Working
<1>3. /\ Quiet /\ UNCHANGED <<members, gone, acks, wire, owed, grp, conv, rec, request, spent, rx>>
      /\ pending' = pending \cup ({rec[d].peer} \ members)
      /\ cmd' = [cmd EXCEPT ![d] = Busy("welcome", c)]
  BY <1>1 DEF post_member, Quiet, Goto, profile
<1>4. rec[d] \in Record
  BY <1>0, <1>2 DEF WorkOK, TablesOK, ProfileOK
<1>5. /\ grp' = [grp EXCEPT ![d] = grp[d]] /\ rec' = [rec EXCEPT ![d] = rec[d]]
      /\ grp[d] \in GroupState \cup {None}
  BY <1>0, <1>3 DEF TablesOK, ProfileOK
<1>6. GrpOK(d)' /\ RecOK(d)' /\ StagedOK(d)'
  BY <1>0, <1>3 DEF DevOK, GrpOK, RecOK, StagedOK, Good, Roster, Known, InLog, Quiet
<1>7. WorkOK(d, "welcome", c)'
  BY <1>2, <1>3 DEF WorkOK, InLog, Quiet
<1>8. CmdOK(d)'
  BY <1>0, <1>2, <1>3, <1>7, ToWork DEF Working
<1>9. pending' \subseteq Device \ members /\ wire' \subseteq Commit
  BY <1>0, <1>3, <1>4 DEF TablesOK, ServerOK, Record
<1> QED BY <1>3, <1>4, <1>5, <1>6, <1>8, <1>9, WorkStep

-----------------------------------------------------------------------------
\* The envelopes, one more of them.
LEMMA StoreIs ==
    ASSUME ServerOK, NEW e, envs' = envs \cup {e}
    PROVE  /\ IsFiniteSet(envs') /\ Cardinality(envs) \in Nat
           /\ e \notin envs => Cardinality(envs') = Cardinality(envs) + 1
<1>1. Cardinality(envs) \in Nat /\ IsFiniteSet(envs)
  BY FS_CardinalityType DEF ServerOK
<1>2. IsFiniteSet(envs') /\ (e \notin envs => Cardinality(envs') = Cardinality(envs) + 1)
  BY <1>1, FS_AddElement
<1> QED BY <1>1, <1>2

\* A device stores an envelope and goes on; its profile is left alone.
LEMMA StateStore ==
    ASSUME StateInv, NEW d \in Device, NEW e, e \in Envelope, IsFiniteSet(envs'),
           envs' = envs \cup {e}, EnvOK(e)', CmdOK(d)', NEW f, cmd' = [cmd EXCEPT ![d] = f],
           UNCHANGED <<log, members, pending, gone, acks, wire, owed, profile, made>>
    PROVE  StateInv'
<1>0. TablesOK /\ LogOK /\ DevOK(d)
  BY DEF StateInv
<1>1. Ids \subseteq Ids'
  BY DEF Ids
<1>2. ServerOK'
  BY <1>0, <1>1 DEF TablesOK, ServerOK
<1>3. ProfileOK'
  BY <1>0, <1>1 DEF TablesOK, ProfileOK, profile
<1>4. Elsewhere(d)
  BY <1>0 DEF TablesOK, ProfileOK, Elsewhere, profile
<1>5. Grows /\ LogOK'
  BY <1>0, SameLog, LogLen
<1>6. GrpOK(d)' /\ RecOK(d)' /\ StagedOK(d)' /\ ReqOK(d)'
  BY <1>0, <1>2, <1>3, <1>5, GrpStays, RecStays, ReqStays DEF DevOK, profile, TablesOK
<1> QED BY <1>2, <1>3, <1>4, <1>5, <1>6, StateFrame DEF DevOK, TablesOK

LEMMA StateWelcome ==
    ASSUME StateInv, NEW d \in Device, send_welcome(d)
    PROVE  StateInv'
<1>0. TablesOK /\ LogOK /\ DevOK(d)
  BY DEF StateInv
<1>1. PICK c : c = cmd[d].arg
  OBVIOUS
<1>2. c \in Commit /\ WorkOK(d, "welcome", c)
  BY <1>0, <1>1, WorkAt DEF send_welcome, DevOK, Working
<1>3. rec[d] # None /\ rec[d].commit = c /\ InLog(c) /\ rec[d].accepted /\ grp[d].staged = None
  BY <1>2 DEF WorkOK
<1>4. /\ rec[d] \in Record /\ rec[d].kind = "gadd"
      /\ rec[d].peer \in c.roster /\ rec[d].peer \notin Roster(c.epoch - 1)
  BY <1>0, <1>3 DEF TablesOK, ProfileOK, DevOK, RecOK
<1>5. PICK peer \in Device : peer = rec[d].peer
  BY <1>4 DEF Record
<1>6. PICK e : e = [id |-> Cardinality(envs) + 1, kind |-> "welcome", by |-> d,
                  to |-> peer, commit |-> c, gen |-> 0]
  OBVIOUS
<1>7. /\ envs' = envs \cup {e}
      /\ cmd' = [cmd EXCEPT ![d] = Busy("drop", c)]
      /\ UNCHANGED <<log, members, pending, gone, acks, wire, owed, profile, made>>
  BY <1>1, <1>3, <1>5, <1>6 DEF send_welcome, Store, Goto
<1>8. /\ e \in Envelope /\ IsFiniteSet(envs')
      /\ e.kind = "welcome" /\ e.to = peer /\ e.commit = c
  <2>1. IsFiniteSet(envs') /\ Cardinality(envs) \in Nat
    BY <1>0, <1>7, StoreIs DEF TablesOK
  <2>2. e \in Envelope
    BY <1>2, <1>6, <2>1, GroupClientAssumption DEF Envelope
  <2> QED BY <1>6, <2>1, <2>2
<1>9. EnvOK(e)'
  BY <1>3, <1>4, <1>5, <1>7, <1>8 DEF EnvOK, InLog, Roster
<1>10. WorkOK(d, "drop", c)'
  BY <1>3, <1>7 DEF WorkOK, profile
<1>11. CmdOK(d)'
  BY <1>0, <1>2, <1>7, <1>10, ToWork DEF Working
<1> QED BY <1>7, <1>8, <1>9, <1>11, StateStore

LEMMA StateSend ==
    ASSUME StateInv, NEW d \in Device, send_application(d)
    PROVE  StateInv'
<1>0. TablesOK /\ LogOK /\ DevOK(d)
  BY DEF StateInv
<1>1. /\ grp[d] # None /\ grp[d].gen > 0
      /\ cmd[d].arg.commit = grp[d].tip /\ cmd[d].arg.gen = grp[d].gen
  BY <1>0, SendAt DEF send_application, DevOK
<1>2. PICK c : c = grp[d].tip
  OBVIOUS
<1>3. PICK g : g = grp[d].gen
  OBVIOUS
<1>4. c \in Commit /\ g \in 0..MaxSends /\ g > 0 /\ Known(c) /\ d \in c.roster
  BY <1>0, <1>1, <1>2, <1>3 DEF TablesOK, ProfileOK, GroupState, DevOK, GrpOK
<1>5. PICK e : e = [id |-> Cardinality(envs) + 1, kind |-> "app", by |-> d,
                  to |-> NoDevice, commit |-> c, gen |-> g]
  OBVIOUS
<1>6. /\ envs' = envs \cup {e} /\ cmd' = [cmd EXCEPT ![d] = Idle]
      /\ UNCHANGED <<log, members, pending, gone, acks, wire, owed, profile, made>>
  BY <1>1, <1>2, <1>3, <1>5 DEF send_application, Store, Done
<1>7. /\ e \in Envelope /\ IsFiniteSet(envs')
      /\ e.kind = "app" /\ e.by = d /\ e.to = NoDevice /\ e.commit = c /\ e.gen = g
  <2>1. IsFiniteSet(envs') /\ Cardinality(envs) \in Nat
    BY <1>0, <1>6, StoreIs DEF TablesOK
  <2>2. e \in Envelope
    BY <1>4, <1>5, <2>1 DEF Envelope
  <2> QED BY <1>5, <2>1, <2>2
<1>8. EnvOK(e)'
  BY <1>4, <1>6, <1>7 DEF EnvOK, Known, InLog
<1>9. CmdOK(d)'
  BY <1>0, <1>6, IdleOK
<1> QED BY <1>6, <1>7, <1>8, <1>9, StateStore

-----------------------------------------------------------------------------
\* `accept`, `decline` and the inbox: steps of a device without an add or remove.
LEMMA TakeStep ==
    ASSUME StateInv, NEW d \in Device, Quiet, UNCHANGED <<wire, rec>>,
           members' \subseteq Device, pending' \subseteq Device \ members',
           gone' \subseteq Ids, acks' \subseteq Ids \X Device,
           conv' \in [Device -> {None, "creator", "joiner"}],
           NEW g \in GroupState \cup {None}, grp' = [grp EXCEPT ![d] = g],
           NEW q, request' = [request EXCEPT ![d] = q],
           NEW p, spent' = [spent EXCEPT ![d] = p],
           NEW h \in SUBSET Ids, rx' = [rx EXCEPT ![d] = h],
           NEW f, cmd' = [cmd EXCEPT ![d] = f],
           DevOK(d)'
    PROVE  StateInv'
<1>0. TablesOK
  BY DEF StateInv
<1>1. ServerOK'
  BY <1>0 DEF TablesOK, ServerOK, Quiet, Ids
<1>2. ProfileOK'
  <2>1. Ids' = Ids
    BY DEF Quiet, Ids
  <2>2. /\ grp' \in [Device -> GroupState \cup {None}] /\ rx' \in [Device -> SUBSET Ids]
        /\ rec' \in [Device -> Record \cup {None}]
    BY <1>0 DEF TablesOK, ProfileOK
  <2>3. /\ request' = [x \in Device |-> request'[x]] /\ spent' = [x \in Device |-> spent'[x]]
        /\ cmd' = [x \in Device |-> cmd'[x]]
    BY <1>0 DEF TablesOK, ProfileOK
  <2> QED BY <2>1, <2>2, <2>3 DEF ProfileOK
<1>3. Elsewhere(d)
  BY <1>0 DEF TablesOK, ProfileOK, Elsewhere
<1> QED BY <1>1, <1>2, <1>3, QuietFrame

\* Nothing of it changes.
LEMMA SelfIs ==
    ASSUME TablesOK, NEW d \in Device
    PROVE  /\ grp = [grp EXCEPT ![d] = grp[d]] /\ grp[d] \in GroupState \cup {None}
           /\ request = [request EXCEPT ![d] = request[d]]
           /\ spent = [spent EXCEPT ![d] = spent[d]]
           /\ rx = [rx EXCEPT ![d] = rx[d]] /\ rx[d] \in SUBSET Ids
           /\ cmd = [cmd EXCEPT ![d] = cmd[d]]
           /\ conv \in [Device -> {None, "creator", "joiner"}]
           /\ members \subseteq Device /\ pending \subseteq Device \ members
           /\ gone \subseteq Ids /\ acks \subseteq Ids \X Device
BY DEF TablesOK, ServerOK, ProfileOK

LEMMA StateKeep ==
    ASSUME StateInv, NEW d \in Device, keep_request(d)
    PROVE  StateInv'
<1>0. TablesOK /\ LogOK /\ DevOK(d)
  BY DEF StateInv
<1>1. PICK e \in find_pending(d) : e.kind = "welcome" /\ request' = [request EXCEPT ![d] = e]
  BY DEF keep_request
<1>2. /\ Quiet /\ UNCHANGED <<members, pending, gone, acks, wire, owed, grp, conv, rec, spent, rx, cmd>>
  BY DEF keep_request, server, Quiet
<1>3. e \in envs /\ e.to = d
  <2>1. e \in envs /\ (e.to = d \/ e.to = NoDevice) /\ EnvOK(e) /\ e \in Envelope
    BY <1>0 DEF find_pending, StateInv, TablesOK, ServerOK
  <2>2. e.to \in Device
    BY <1>1, <2>1 DEF EnvOK, Envelope, Commit
  <2> QED BY <2>1, <2>2, GroupClientAssumption
<1>4. request'[d] = e
  BY <1>0, <1>1 DEF TablesOK, ProfileOK
<1>5. ReqOK(d)'
  BY <1>1, <1>2, <1>3, <1>4 DEF ReqOK, Quiet
<1>6. GrpOK(d)' /\ RecOK(d)' /\ StagedOK(d)'
  BY <1>0, <1>2 DEF DevOK, GrpOK, RecOK, StagedOK, Good, Roster, Known, InLog, Quiet
<1>7. CmdOK(d)'
  BY <1>0, <1>2 DEF DevOK, CmdOK, WorkOK, TakeOK, InLog, Quiet
<1> QED BY <1>0, <1>1, <1>2, <1>5, <1>6, <1>7, SelfIs, TakeStep DEF DevOK

LEMMA StateJoin ==
    ASSUME StateInv, NEW d \in Device, join(d)
    PROVE  StateInv'
<1>0. TablesOK /\ LogOK /\ DevOK(d)
  BY DEF StateInv
<1>1. PICK e : e = request[d]
  OBVIOUS
<1>2. PICK c : c = e.commit
  OBVIOUS
<1>3. /\ e # None /\ grp[d] = None
      /\ Quiet /\ UNCHANGED <<members, pending, gone, acks, wire, owed, rec, request, rx>>
      /\ grp' = [grp EXCEPT ![d] = At(c)] /\ conv' = [conv EXCEPT ![d] = "joiner"]
      /\ spent' = [spent EXCEPT ![d] = spent[d] \cup {c.serial}]
      /\ cmd' = [cmd EXCEPT ![d] = Busy("joined", e)]
  BY <1>0, <1>1, <1>2 DEF join, Joinable, Goto, server, Quiet, TablesOK, ProfileOK
<1>4. e \in envs /\ e.kind = "welcome" /\ e.to = d
  BY <1>0, <1>1, <1>3 DEF DevOK, ReqOK
<1>5. c \in Commit /\ InLog(c) /\ d \in c.roster
  BY <1>0, <1>2, <1>4 DEF StateInv, EnvOK, TablesOK, ServerOK, Envelope
<1>6. rec[d] = None
  BY <1>0, <1>3 DEF DevOK, RecOK
<1>7. /\ At(c) \in GroupState /\ At(c) # None /\ At(c).tip = c /\ At(c).staged = None
  BY <1>5, AtIs
<1>8. grp'[d] = At(c) /\ rec'[d] = None /\ request'[d] = e /\ conv' \in [Device -> {None, "creator", "joiner"}]
  BY <1>0, <1>1, <1>3, <1>6 DEF TablesOK, ProfileOK
<1>9. GrpOK(d)' /\ RecOK(d)' /\ StagedOK(d)' /\ ReqOK(d)'
  BY <1>3, <1>4, <1>5, <1>7, <1>8 DEF GrpOK, RecOK, StagedOK, ReqOK, Known, InLog, Quiet
<1>10. TakeOK(d, "joined", e)' /\ e \in envs'
  BY <1>3, <1>4 DEF TakeOK, Joining, Quiet
<1>11. CmdOK(d)'
  BY <1>0, <1>3, <1>10, ToTake DEF Joining
<1> QED BY <1>0, <1>3, <1>7, <1>8, <1>9, <1>11, SelfIs, TakeStep DEF DevOK

\* The steps of an accept and of an inbox run that leave the profile alone.
LEMMA StateTake ==
    ASSUME StateInv, NEW d \in Device, Quiet, UNCHANGED <<wire, profile>>,
           members' \subseteq Device, pending' \subseteq Device \ members',
           gone' \subseteq Ids, acks' \subseteq Ids \X Device,
           NEW pc \in Joining, NEW e \in envs,
           e.kind = "welcome", e.to = d, cmd' = [cmd EXCEPT ![d] = Busy(pc, e)]
    PROVE  StateInv'
<1>0. TablesOK /\ LogOK /\ DevOK(d)
  BY DEF StateInv
<1>1. TakeOK(d, pc, e)' /\ e \in envs'
  BY DEF TakeOK, Joining, Quiet
<1>2. CmdOK(d)'
  BY <1>0, <1>1, ToTake
<1>3. GrpOK(d)' /\ RecOK(d)' /\ StagedOK(d)' /\ ReqOK(d)'
  BY <1>0 DEF DevOK, GrpOK, RecOK, StagedOK, ReqOK, Good, Roster, Known, InLog, Quiet, profile
<1> QED BY <1>0, <1>2, <1>3, SelfIs, TakeStep DEF DevOK, profile

LEMMA StateAccept ==
    ASSUME StateInv, NEW d \in Device, rejoin(d) \/ ack_welcome(d) \/ accept_membership(d)
    PROVE  StateInv'
<1>0. TablesOK /\ LogOK /\ DevOK(d)
  BY DEF StateInv
<1>1. CASE rejoin(d)
  <2>1. request[d] \in envs /\ request[d].kind = "welcome" /\ request[d].to = d
    BY <1>0, <1>1 DEF rejoin, DevOK, ReqOK
  <2>2. /\ Quiet /\ UNCHANGED <<members, pending, gone, acks, wire, profile>>
        /\ cmd' = [cmd EXCEPT ![d] = Busy("joined", request[d])]
    BY <1>1 DEF rejoin, Goto, Quiet, server
  <2> QED BY <1>0, <2>1, <2>2, SelfIs, StateTake DEF Joining
<1>2. CASE ack_welcome(d)
  <2>1. cmd[d].arg \in envs /\ cmd[d].arg.kind = "welcome" /\ cmd[d].arg.to = d
    BY <1>0, <1>2, TakeAt DEF ack_welcome, DevOK, Joining, TakeOK
  <2>2. /\ Quiet /\ UNCHANGED <<members, pending, wire, profile>>
        /\ cmd' = [cmd EXCEPT ![d] = Busy("consent", cmd[d].arg)]
        /\ ack(d, cmd[d].arg) \/ UNCHANGED <<acks, gone>>
    BY <1>2 DEF ack_welcome, Goto, Quiet
  <2>3. gone' \subseteq Ids /\ acks' \subseteq Ids \X Device
    BY <1>0, <2>1, <2>2, AckTables, SelfIs DEF TablesOK
  <2> QED BY <1>0, <2>1, <2>2, <2>3, SelfIs, StateTake DEF Joining
<1>3. CASE accept_membership(d)
  <2>1. cmd[d].arg \in envs /\ cmd[d].arg.kind = "welcome" /\ cmd[d].arg.to = d
    BY <1>0, <1>3, TakeAt DEF accept_membership, DevOK, Joining, TakeOK
  <2>2. /\ Quiet /\ UNCHANGED <<gone, acks, wire, profile>>
        /\ members' = members \cup {d} /\ pending' = pending \ {d}
        /\ cmd' = [cmd EXCEPT ![d] = Busy("accepted_request", cmd[d].arg)]
    BY <1>3 DEF accept_membership, Goto, Quiet
  <2>3. members' \subseteq Device /\ pending' \subseteq Device \ members'
    BY <1>0, <2>2, SelfIs
  <2> QED BY <1>0, <2>1, <2>2, <2>3, SelfIs, StateTake DEF Joining
<1> QED BY <1>1, <1>2, <1>3

LEMMA StateDropRequest ==
    ASSUME StateInv, NEW d \in Device, drop_request(d)
    PROVE  StateInv'
<1>0. TablesOK /\ LogOK /\ DevOK(d)
  BY DEF StateInv
<1>1. /\ Quiet /\ UNCHANGED <<members, pending, gone, acks, wire, owed, grp, conv, rec, spent, rx>>
      /\ request' = [request EXCEPT ![d] = None] /\ cmd' = [cmd EXCEPT ![d] = Idle]
  BY DEF drop_request, Done, server, Quiet
<1>2. request'[d] = None
  BY <1>0, <1>1 DEF TablesOK, ProfileOK
<1>3. GrpOK(d)' /\ RecOK(d)' /\ StagedOK(d)' /\ ReqOK(d)'
  BY <1>0, <1>1, <1>2 DEF DevOK, GrpOK, RecOK, StagedOK, ReqOK, Good, Roster, Known, InLog, Quiet
<1>4. CmdOK(d)'
  BY <1>0, <1>1, IdleOK
<1> QED BY <1>0, <1>1, <1>3, <1>4, SelfIs, TakeStep DEF DevOK

\* A decline, whole or cut off, and a join that wrote the record alone.
LEMMA StateDecline ==
    ASSUME StateInv, NEW d \in Device, decline(d) \/ decline_cut(d) \/ join_cut(d)
    PROVE  StateInv'
<1>0. TablesOK /\ LogOK /\ DevOK(d)
  BY DEF StateInv
<1>1. PICK p : p = spent[d] \cup {request[d].commit.serial}
  OBVIOUS
<1>2. /\ Quiet /\ UNCHANGED <<members, wire, owed, grp, rec, rx>>
      /\ cmd[d] = Idle /\ grp[d] = None /\ request[d] # None
      /\ pending' \in {pending, pending \ {d}}
      /\ conv' = conv \/ \E v \in {None, "joiner"} : conv' = [conv EXCEPT ![d] = v]
      /\ \E u \in {spent[d], p} : spent' = [spent EXCEPT ![d] = u]
      /\ \E q \in {request[d], None} : request' = [request EXCEPT ![d] = q]
      /\ ack(d, request[d]) \/ UNCHANGED <<acks, gone>>
      /\ cmd' = [cmd EXCEPT ![d] = Idle]
  <2>1. CASE decline(d)
    BY <1>0, <1>1, <2>1, SelfIs DEF decline, Quiet, TablesOK, ProfileOK
  <2>2. CASE decline_cut(d)
    BY <1>0, <1>1, <2>2, SelfIs DEF decline_cut, Quiet, TablesOK, ProfileOK, Upset, Done
  <2>3. CASE join_cut(d)
    BY <1>0, <1>1, <2>3, SelfIs DEF join_cut, Joinable, Quiet, server, TablesOK, ProfileOK, Upset, Done
  <2> QED BY <2>1, <2>2, <2>3
<1>3. gone' \subseteq Ids /\ acks' \subseteq Ids \X Device
  BY <1>0, <1>2, AckTables, SelfIs DEF DevOK, ReqOK, TablesOK
<1>4. /\ request'[d] \in {request[d], None} /\ conv' \in [Device -> {None, "creator", "joiner"}]
      /\ pending' \subseteq Device \ members
  BY <1>0, <1>2 DEF TablesOK, ServerOK, ProfileOK
<1>5. GrpOK(d)' /\ RecOK(d)' /\ StagedOK(d)' /\ ReqOK(d)'
  BY <1>0, <1>2, <1>4 DEF DevOK, GrpOK, RecOK, StagedOK, ReqOK, Quiet
<1>6. CmdOK(d)'
  BY <1>0, <1>2, IdleOK
<1> QED BY <1>0, <1>2, <1>3, <1>4, <1>5, <1>6, SelfIs, TakeStep DEF DevOK

-----------------------------------------------------------------------------
\* `send`, and the inbox.
LEMMA StateEncrypt ==
    ASSUME StateInv, NEW d \in Device, encrypt(d)
    PROVE  StateInv'
<1>0. TablesOK /\ LogOK /\ DevOK(d)
  BY DEF StateInv
<1>1. /\ Quiet /\ UNCHANGED <<members, pending, gone, acks, wire, owed, conv, rec, request, spent, rx>>
      /\ grp[d] # None /\ rec[d] = None /\ grp[d].staged = None /\ grp[d].gen < MaxSends
      /\ grp' = [grp EXCEPT ![d].gen = @ + 1]
      /\ cmd' = [cmd EXCEPT ![d] = Busy("sending", [commit |-> grp[d].tip, gen |-> grp[d].gen + 1])]
  BY DEF encrypt, Goto, Quiet, server
<1>2. grp[d] \in GroupState
  BY <1>0, <1>1 DEF TablesOK, ProfileOK
<1>3. PICK g : g = [grp[d] EXCEPT !.gen = grp[d].gen + 1]
  OBVIOUS
<1>4. /\ g \in GroupState /\ g.tip = grp[d].tip /\ g.staged = None /\ g.gen = grp[d].gen + 1
      /\ g.gen > 0
  BY <1>1, <1>2, <1>3, GroupClientAssumption DEF GroupState
<1>5. g # None
  BY <1>4, NoneAssumption
<1>6. grp' = [grp EXCEPT ![d] = g] /\ grp'[d] = g /\ rec'[d] = None /\ request'[d] = request[d]
  BY <1>0, <1>1, <1>3 DEF TablesOK, ProfileOK
<1>7. GrpOK(d)' /\ RecOK(d)' /\ StagedOK(d)' /\ ReqOK(d)'
  BY <1>0, <1>1, <1>4, <1>6 DEF DevOK, GrpOK, RecOK, StagedOK, ReqOK, Known, InLog, Quiet
<1>8. cmd'[d] = Busy("sending", [commit |-> g.tip, gen |-> g.gen])
  BY <1>0, <1>1, <1>4 DEF TablesOK, ProfileOK
<1>9. CmdOK(d)'
  BY <1>4, <1>5, <1>6, <1>8 DEF CmdOK
<1> QED BY <1>0, <1>1, <1>4, <1>6, <1>7, <1>9, SelfIs, TakeStep DEF DevOK

LEMMA StateApply ==
    ASSUME StateInv, NEW d \in Device, apply(d)
    PROVE  StateInv'
<1>0. TablesOK /\ LogOK /\ DevOK(d)
  BY DEF StateInv
<1>1. PICK e \in Usable(d) :
          /\ Applies(d, e)
          /\ grp' = [grp EXCEPT ![d] = IF d \in e.commit.roster THEN At(e.commit) ELSE None]
          /\ cmd' = [cmd EXCEPT ![d] = Busy("ack", e)]
  BY DEF apply, Goto
<1>2. /\ Quiet /\ UNCHANGED <<members, pending, gone, acks, wire, owed, conv, rec, request, spent, rx>>
  BY DEF apply, Quiet, server
<1>3. e \in envs /\ e.kind = "commit" /\ rec[d] = None
  BY <1>1 DEF Usable, find_pending, Applies, Unresolved
<1>4. e.commit \in Commit /\ InLog(e.commit)
  BY <1>0, <1>3 DEF StateInv, EnvOK, TablesOK, ServerOK, Envelope
<1>5. PICK c : c = e.commit
  OBVIOUS
<1>6. PICK g : g = IF d \in c.roster THEN At(c) ELSE None
  OBVIOUS
<1>7. /\ At(c) \in GroupState /\ At(c) # None /\ At(c).tip = c /\ At(c).staged = None
  BY <1>4, <1>5, AtIs
<1>8. /\ g \in GroupState \cup {None}
      /\ g # None => g.tip = c /\ g.staged = None /\ d \in c.roster
  BY <1>6, <1>7
<1>9. /\ grp' = [grp EXCEPT ![d] = g] /\ grp'[d] = g /\ rec'[d] = None
      /\ request'[d] = request[d]
  BY <1>0, <1>1, <1>2, <1>3, <1>5, <1>6 DEF TablesOK, ProfileOK
<1>10. GrpOK(d)' /\ RecOK(d)' /\ StagedOK(d)' /\ ReqOK(d)'
  BY <1>0, <1>2, <1>4, <1>5, <1>8, <1>9
     DEF DevOK, GrpOK, RecOK, StagedOK, ReqOK, Known, InLog, Quiet
<1>11. TakeOK(d, "ack", e)' /\ e \in envs'
  BY <1>2, <1>3 DEF TakeOK, Joining, Quiet
<1>12. CmdOK(d)'
  BY <1>0, <1>1, <1>11, ToTake
<1> QED BY <1>0, <1>1, <1>2, <1>8, <1>9, <1>10, <1>12, SelfIs, TakeStep DEF DevOK

LEMMA StatePutRx ==
    ASSUME StateInv, NEW d \in Device, put_rx(d)
    PROVE  StateInv'
<1>0. TablesOK /\ LogOK /\ DevOK(d)
  BY DEF StateInv
<1>1. PICK e \in Usable(d) :
          /\ Decrypts(d, e)
          /\ rx' = [rx EXCEPT ![d] = @ \cup {e.id}] /\ cmd' = [cmd EXCEPT ![d] = Busy("ratchet", e)]
  BY DEF put_rx, Goto
<1>2. /\ Quiet /\ UNCHANGED <<members, pending, gone, acks, wire, owed, grp, conv, rec, request, spent>>
  BY DEF put_rx, Quiet, server
<1>3. e \in envs /\ e.kind = "app" /\ grp[d] # None /\ e.commit = grp[d].tip
  BY <1>1 DEF Usable, find_pending, Decrypts
<1>4. PICK h : h = rx[d] \cup {e.id}
  OBVIOUS
<1>5. h \in SUBSET Ids /\ rx' = [rx EXCEPT ![d] = h] /\ rx'[d] = h
  BY <1>0, <1>1, <1>3, <1>4 DEF TablesOK, ProfileOK, Ids
<1>6. GrpOK(d)' /\ RecOK(d)' /\ StagedOK(d)' /\ ReqOK(d)'
  BY <1>0, <1>2 DEF DevOK, GrpOK, RecOK, StagedOK, ReqOK, Good, Roster, Known, InLog, Quiet
<1>7. TakeOK(d, "ratchet", e)' /\ e \in envs'
  BY <1>2, <1>3, <1>4, <1>5 DEF TakeOK, Joining, Quiet
<1>8. CmdOK(d)'
  BY <1>0, <1>1, <1>7, ToTake
<1> QED BY <1>0, <1>1, <1>2, <1>5, <1>6, <1>8, SelfIs, TakeStep DEF DevOK

LEMMA UsedIs ==
    ASSUME NEW g \in GroupState, NEW p \in Device \X (1..MaxSends), NEW h,
           h = [g EXCEPT !.used = @ \cup {p}]
    PROVE  /\ h \in GroupState /\ h # None /\ h.tip = g.tip /\ h.staged = g.staged
           /\ h.gen = g.gen /\ h.used = g.used \cup {p}
<1>1. /\ h \in GroupState /\ h.tip = g.tip /\ h.staged = g.staged
      /\ h.gen = g.gen /\ h.used = g.used \cup {p}
  BY DEF GroupState
<1> QED BY <1>1, NoneAssumption

LEMMA StateRatchet ==
    ASSUME StateInv, NEW d \in Device, save_ratchet(d)
    PROVE  StateInv'
<1>0. TablesOK /\ LogOK /\ DevOK(d)
  BY DEF StateInv
<1>1. PICK e : e = cmd[d].arg
  OBVIOUS
<1>2. e \in envs /\ e.kind = "app" /\ grp[d] # None
  BY <1>0, <1>1, TakeAt DEF save_ratchet, DevOK, TakeOK
<1>3. /\ Quiet /\ UNCHANGED <<members, pending, gone, acks, wire, owed, conv, rec, request, spent, rx>>
      /\ grp' = [grp EXCEPT ![d].used = @ \cup {<<e.by, e.gen>>}]
      /\ cmd' = [cmd EXCEPT ![d] = Busy("ack", e)]
  BY <1>1 DEF save_ratchet, Goto, Quiet, server
<1>4. grp[d] \in GroupState
  BY <1>0, <1>2 DEF TablesOK, ProfileOK
<1>5. PICK p : p = <<e.by, e.gen>>
  OBVIOUS
<1>6. p \in Device \X (1..MaxSends)
  BY <1>0, <1>2, <1>5, GroupClientAssumption DEF StateInv, EnvOK, TablesOK, ServerOK, Envelope
<1>7. PICK h : h = [grp[d] EXCEPT !.used = @ \cup {p}]
  OBVIOUS
<1>8. /\ h \in GroupState /\ h # None /\ h.tip = grp[d].tip /\ h.staged = grp[d].staged
  BY <1>4, <1>6, <1>7, UsedIs
<1>9. grp' = [grp EXCEPT ![d] = h] /\ grp'[d] = h
  BY <1>0, <1>3, <1>5, <1>7 DEF TablesOK, ProfileOK
<1>10. GrpOK(d)' /\ RecOK(d)' /\ StagedOK(d)' /\ ReqOK(d)'
  BY <1>0, <1>2, <1>3, <1>8, <1>9
     DEF DevOK, GrpOK, RecOK, StagedOK, ReqOK, Good, Roster, Known, InLog, Quiet
<1>11. TakeOK(d, "ack", e)' /\ e \in envs'
  BY <1>2, <1>3 DEF TakeOK, Joining, Quiet
<1>12. CmdOK(d)'
  BY <1>0, <1>3, <1>11, ToTake
<1> QED BY <1>0, <1>3, <1>8, <1>9, <1>10, <1>12, SelfIs, TakeStep DEF DevOK

-----------------------------------------------------------------------------
\* The Delivery Service's answers.
LEMMA AnswerIs ==
    ASSUME TablesOK, NEW c \in Commit, NEW pc, Answer(c, pc)
    PROVE  /\ \E f : cmd' = [cmd EXCEPT ![c.by] = f]
           /\ \/ cmd[c.by] = Busy("posted", c) /\ cmd' = [cmd EXCEPT ![c.by] = Busy(pc, c)]
              \/ cmd[c.by] # Busy("posted", c) /\ cmd' = cmd
<1>1. c.by \in Device
  BY DEF Commit
<1>2. cmd = [cmd EXCEPT ![c.by] = cmd[c.by]]
  BY <1>1, SelfIs
<1> QED BY <1>2 DEF Answer, Waiting

LEMMA StateAccepted ==
    ASSUME StateInv, NEW c \in wire, WireOK(c), commit_accepted(c)
    PROVE  StateInv'
<1>0. TablesOK /\ LogOK /\ c \in Commit
  BY DEF StateInv, TablesOK, ServerOK
<1> USE LogLen
<1>1. PICK d \in Device : d = c.by
  BY <1>0 DEF Commit
<1>2. DevOK(d) /\ rec[d] # None /\ rec[d].commit = c
  BY <1>1 DEF StateInv, WireOK
<1>3. Good(c)
  BY <1>2 DEF DevOK, RecOK
<1>4. PICK e : e = [id |-> Cardinality(envs) + 1, kind |-> "commit", by |-> d,
                    to |-> NoDevice, commit |-> c, gen |-> 0]
  OBVIOUS
<1>5. /\ wire' = wire \ {c} /\ c.epoch = Len(log) + 1 /\ log' = Append(log, c)
      /\ envs' = envs \cup {e} /\ Answer(c, "accepted")
      /\ UNCHANGED <<members, pending, gone, acks, grp, conv, rec, request, spent, rx, made, upsets>>
  BY <1>1, <1>4 DEF commit_accepted, Store, profile
<1>6. e \in Envelope /\ IsFiniteSet(envs') /\ e.kind = "commit" /\ e.by = d /\ e.to = NoDevice /\ e.commit = c
  <2>1. IsFiniteSet(envs') /\ Cardinality(envs) \in Nat
    BY <1>0, <1>5, StoreIs DEF TablesOK
  <2>2. e \in Envelope
    BY <1>0, <1>4, <2>1, GroupClientAssumption DEF Envelope
  <2> QED BY <1>4, <2>1, <2>2
<1>7. /\ log' \in Seq(Commit) /\ Len(log') = Len(log) + 1
      /\ \A n \in 1..Len(log) : log'[n] = log[n]
      /\ log'[Len(log) + 1] = c
  BY <1>0, <1>5 DEF TablesOK, ServerOK
<1>8. Ids \subseteq Ids'
  BY <1>5 DEF Ids
<1>9. PICK f : cmd' = [cmd EXCEPT ![d] = f]
  BY <1>0, <1>1, <1>5, AnswerIs
<1>10. TablesOK'
  <2>1. ServerOK'
    BY <1>0, <1>5, <1>6, <1>7, <1>8 DEF TablesOK, ServerOK
  <2>2. ProfileOK'
    BY <1>0, <1>5, <1>8, <1>9 DEF TablesOK, ProfileOK
  <2> QED BY <2>1, <2>2 DEF TablesOK
<1>11. Grows
  BY <1>0, <1>5, <1>7 DEF Grows
<1>12. LogOK'
  <2>1. ASSUME NEW n \in 1..Len(log') PROVE log'[n].epoch = n /\ Good(log[n])'
    <3>1. CASE n \in 1..Len(log)
      BY <1>0, <1>5, <1>7, <3>1 DEF LogOK, Good
    <3>2. CASE n = Len(log) + 1
      BY <1>0, <1>3, <1>5, <1>7, <3>2 DEF Good
    <3> QED BY <1>0, <1>7, <3>1, <3>2
  <2> QED BY <2>1 DEF LogOK
<1>13. Elsewhere(d)
  BY <1>0, <1>5, <1>9 DEF TablesOK, ProfileOK, Elsewhere
<1>14. GrpOK(d)' /\ RecOK(d)' /\ StagedOK(d)' /\ ReqOK(d)'
  BY <1>0, <1>2, <1>5, <1>10, <1>11, GrpStays, RecStays, ReqStays DEF DevOK
<1>15. InLog(c)'
  BY <1>0, <1>5, <1>7 DEF InLog
<1>16. EnvOK(e)'
  BY <1>1, <1>6, <1>15 DEF EnvOK
<1>17. CmdOK(d)'
  <2>1. CASE cmd[d] = Busy("posted", c) /\ cmd' = [cmd EXCEPT ![d] = Busy("accepted", c)]
    <3>1. WorkOK(d, "posted", c)
      BY <1>2, <2>1, PcIs, WorkAt DEF DevOK, Working
    <3>2. WorkOK(d, "accepted", c)'
      BY <1>5, <1>15, <3>1 DEF WorkOK
    <3> QED BY <1>0, <2>1, <3>2, ToWork DEF Working
  <2>2. CASE cmd' = cmd
    BY <1>0, <1>2, <1>5, <1>10, <1>11, <2>2, CmdStays DEF DevOK
  <2> QED BY <1>0, <1>1, <1>5, <2>1, <2>2, AnswerIs
<1> QED BY <1>5, <1>10, <1>11, <1>12, <1>13, <1>14, <1>16, <1>17, StateFrame DEF DevOK

LEMMA StateRefused ==
    ASSUME StateInv, NEW c \in wire, commit_refused(c)
    PROVE  StateInv'
<1>0. TablesOK /\ LogOK /\ c \in Commit
  BY DEF StateInv, TablesOK, ServerOK
<1>1. PICK d \in Device : d = c.by
  BY <1>0 DEF Commit
<1>2. DevOK(d)
  BY DEF StateInv
<1>3. /\ Quiet /\ wire' = wire \ {c} /\ Answer(c, "rejected")
      /\ UNCHANGED <<members, pending, gone, acks, grp, conv, rec, request, spent, rx, upsets>>
  BY DEF commit_refused, profile, Quiet
<1>4. PICK f : cmd' = [cmd EXCEPT ![d] = f]
  BY <1>0, <1>1, <1>3, AnswerIs
<1>5. ServerOK' /\ ProfileOK'
  <2>1. ServerOK'
    BY <1>0, <1>3 DEF TablesOK, ServerOK, Quiet, Ids
  <2>2. ProfileOK'
    BY <1>0, <1>3, <1>4 DEF TablesOK, ProfileOK, Quiet, Ids
  <2> QED BY <2>1, <2>2
<1>6. Elsewhere(d) /\ Grows
  BY <1>0, <1>3, <1>4, QuietGrows DEF TablesOK, ProfileOK, Elsewhere
<1>7. GrpOK(d)' /\ RecOK(d)' /\ StagedOK(d)' /\ ReqOK(d)'
  BY <1>0, <1>2, <1>3, <1>5, <1>6, GrpStays, RecStays, ReqStays DEF DevOK, TablesOK
<1>8. CmdOK(d)'
  <2>1. CASE cmd[d] = Busy("posted", c) /\ cmd' = [cmd EXCEPT ![d] = Busy("rejected", c)]
    <3>1. WorkOK(d, "posted", c)
      BY <1>2, <2>1, PcIs, WorkAt DEF DevOK, Working
    <3>2. WorkOK(d, "rejected", c)'
      BY <1>3, <3>1 DEF WorkOK
    <3> QED BY <1>0, <2>1, <3>2, ToWork DEF Working
  <2>2. CASE cmd' = cmd
    BY <1>0, <1>2, <1>3, <1>5, <1>6, <2>2, CmdStays DEF DevOK, TablesOK
  <2> QED BY <1>0, <1>1, <1>3, <2>1, <2>2, AnswerIs
<1> QED BY <1>3, <1>5, <1>6, <1>7, <1>8, QuietFrame DEF DevOK

LEMMA StateInit == Init => StateInv
<1> SUFFICES ASSUME Init PROVE StateInv
  OBVIOUS
<1> USE GroupClientAssumption DEF Init
<1>1. Genesis \in Commit /\ Len(log) = 0
  BY DEF Genesis, Commit
<1>2. At(Genesis) \in GroupState /\ At(Genesis).tip = Genesis /\ At(Genesis).staged = None
  BY <1>1, AtIs
<1>3. ServerOK
  BY FS_EmptySet DEF ServerOK
<1>4. ProfileOK
  BY <1>2 DEF ProfileOK
<1>5. LogOK /\ \A e \in envs : EnvOK(e)
  BY DEF LogOK
<1>6. ASSUME NEW d \in Device PROVE DevOK(d)
  BY <1>2 DEF DevOK, GrpOK, RecOK, StagedOK, ReqOK, CmdOK, Known, Genesis
<1> QED BY <1>3, <1>4, <1>5, <1>6 DEF StateInv, TablesOK

LEMMA StateStutter == ASSUME StateInv, UNCHANGED vars PROVE StateInv'
BY DEF vars, server, profile, StateInv, TablesOK, ServerOK, ProfileOK, Ids, LogOK, EnvOK, DevOK,
       GrpOK, RecOK, StagedOK, ReqOK, CmdOK, WorkOK, TakeOK, Good, Known, InLog, Roster

LEMMA StateNext ==
    ASSUME StateInv, \A c \in wire : WireOK(c), [Next]_vars
    PROVE  StateInv'
<1>1. CASE UNCHANGED vars
  BY <1>1, StateStutter
<1>2. ASSUME NEW c \in wire, commit_accepted(c) \/ commit_refused(c) PROVE StateInv'
  BY <1>2, StateAccepted, StateRefused
<1>3. ASSUME NEW d \in Device, NEW peer \in Device, add(d, peer) \/ remove(d, peer)
      PROVE  StateInv'
  BY <1>3, StateAdd
<1>4. ASSUME NEW d \in Device,
             \/ save_and_post(d) \/ commit_unknown(d)
             \/ mark_accepted(d) \/ confirm(d) \/ abort(d) \/ drop_record(d)
             \/ post_member(d) \/ send_welcome(d) \/ resume(d)
      PROVE  StateInv'
  BY <1>4, StateSave, StateStops, StateMark, StateConfirm, StateAbort, StateDrop, StateMember,
     StateWelcome, StateResume
<1>5. ASSUME NEW d \in Device,
             \/ keep_request(d) \/ join(d) \/ join_cut(d) \/ rejoin(d) \/ ack_welcome(d)
             \/ accept_membership(d) \/ drop_request(d) \/ decline(d) \/ decline_cut(d)
      PROVE  StateInv'
  BY <1>5, StateKeep, StateJoin, StateAccept, StateDropRequest, StateDecline
<1>6. ASSUME NEW d \in Device,
             \/ encrypt(d) \/ send_application(d) \/ drop_echo(d) \/ apply(d) \/ put_rx(d)
             \/ save_ratchet(d) \/ ack_used(d) \/ stop(d)
      PROVE  StateInv'
  BY <1>6, StateEncrypt, StateSend, StateEcho, StateApply, StatePutRx, StateRatchet, StateStops
<1> QED BY <1>1, <1>2, <1>3, <1>4, <1>5, <1>6 DEF Next

-----------------------------------------------------------------------------
\* The second part.  A step of one device beside the ledger.
LEMMA DebtStays ==
    ASSUME StateInv, log' = log, envs \subseteq envs', NEW n \in 1..Len(log), DebtOK(n),
           rec'[log[n].by] = rec[log[n].by]
    PROVE  DebtOK(n)'
BY DEF DebtOK, Adds, Welcomed, Roster

LEMMA WireFrame ==
    ASSUME StateInv, WireInv, log' = log, envs \subseteq envs', NEW d \in Device, Elsewhere(d),
           wire' \subseteq Commit,
           \A c \in wire' : c \in wire \/ c.by = d,
           \A c \in wire' : c.by = d => WireOK(c)',
           FateOK(d)',
           \A n \in 1..Len(log) : log[n].by = d => DebtOK(n)'
    PROVE  WireInv'
<1>0. TablesOK /\ \A n \in 1..Len(log) : log[n].by \in Device
  BY LogLen DEF StateInv, Commit
<1>1. ASSUME NEW c \in wire' PROVE WireOK(c)'
  <2>1. CASE c.by = d
    BY <2>1
  <2>2. CASE c.by # d
    <3>1. c \in wire /\ c.by \in Device
      BY <1>0, <2>2 DEF Commit
    <3>2. WireOK(c)
      BY <3>1 DEF WireInv
    <3>3. /\ rec'[c.by] = rec[c.by] /\ grp'[c.by] = grp[c.by] /\ cmd'[c.by] = cmd[c.by]
      BY <2>2, <3>1 DEF Elsewhere
    <3> QED BY <3>2, <3>3 DEF WireOK, InLog
  <2> QED BY <2>1, <2>2
<1>2. ASSUME NEW x \in Device PROVE FateOK(x)'
  <2>1. CASE x = d
    BY <2>1
  <2>2. CASE x # d
    <3>1. FateOK(x) /\ cmd'[x] = cmd[x] /\ grp'[x] = grp[x]
      BY <2>2 DEF WireInv, Elsewhere
    <3> QED BY <3>1 DEF FateOK, InLog, Adds, Welcomed, Roster
  <2> QED BY <2>1, <2>2
<1>3. ASSUME NEW n \in 1..Len(log') PROVE DebtOK(n)'
  <2>1. CASE log[n].by = d
    BY <2>1
  <2>2. CASE log[n].by # d
    <3>1. rec'[log[n].by] = rec[log[n].by] /\ DebtOK(n)
      BY <1>0, <2>2 DEF Elsewhere, WireInv
    <3> QED BY <3>1, DebtStays
  <2> QED BY <2>1, <2>2
<1> QED BY <1>1, <1>2, <1>3 DEF WireInv

\* A step outside an add or remove, or its end by a failure.
LEMMA WireCalm ==
    ASSUME StateInv, WireInv, log' = log, envs \subseteq envs', NEW d \in Device, Elsewhere(d),
           wire' \subseteq wire, rec'[d] = rec[d],
           rec[d] # None => grp'[d].staged = grp[d].staged,
           cmd'[d].pc \notin Working
    PROVE  WireInv'
<1>0. TablesOK /\ wire' \subseteq Commit
  BY DEF StateInv, TablesOK, ServerOK
<1>1. ASSUME NEW c \in wire', c.by = d PROVE WireOK(c)'
  BY <1>1 DEF WireInv, WireOK, InLog
<1>2. FateOK(d)'
  BY DEF FateOK, Working
<1>3. ASSUME NEW n \in 1..Len(log), log[n].by = d PROVE DebtOK(n)'
  BY <1>3, DebtStays DEF WireInv
<1> QED BY <1>0, <1>1, <1>2, <1>3, WireFrame

\* A step of an add or remove that is past its post.
LEMMA WireWork ==
    ASSUME StateInv, WireInv, log' = log, envs \subseteq envs', wire' = wire,
           NEW d \in Device, Elsewhere(d), \A c \in wire : c.by # d,
           rec'[d] = rec[d] \/ (rec[d] # None /\ rec'[d] # None /\ rec'[d].commit = rec[d].commit),
           FateOK(d)'
    PROVE  WireInv'
<1>0. TablesOK /\ wire' \subseteq Commit
  BY DEF StateInv, TablesOK, ServerOK
<1>1. ASSUME NEW n \in 1..Len(log), log[n].by = d PROVE DebtOK(n)'
  BY <1>1 DEF WireInv, DebtOK, Adds, Welcomed, Roster
<1> QED BY <1>0, <1>1, WireFrame

LEMMA NotOnWire ==
    ASSUME StateInv, WireInv, NEW d \in Device,
           cmd[d].pc \in Working \ {"posted"} \/ rec[d] = None
    PROVE  \A c \in wire : c.by # d
BY DEF WireInv, WireOK

\* The calm steps.
LEMMA CalmSteps ==
    ASSUME StateInv, NEW d \in Device,
           \/ commit_unknown(d) \/ keep_request(d) \/ join(d) \/ rejoin(d) \/ ack_welcome(d)
           \/ accept_membership(d) \/ drop_request(d) \/ decline(d) \/ encrypt(d)
           \/ send_application(d) \/ drop_echo(d) \/ apply(d) \/ put_rx(d) \/ save_ratchet(d)
           \/ ack_used(d) \/ stop(d) \/ join_cut(d) \/ decline_cut(d)
    PROVE  /\ log' = log /\ envs \subseteq envs' /\ Elsewhere(d) /\ wire' \subseteq wire
           /\ rec' = rec /\ made' = made /\ owed' = owed
           /\ rec[d] # None => grp'[d].staged = grp[d].staged
           /\ cmd'[d].pc \notin Working
<1>0. TablesOK /\ DevOK(d)
  BY DEF StateInv
<1> USE DEF Goto, Done, Upset, server, profile
<1>1. CASE commit_unknown(d)
  BY <1>0, <1>1 DEF commit_unknown, Elsewhere, TablesOK, ProfileOK, Idle, Working
<1>2. CASE keep_request(d)
  BY <1>0, <1>2 DEF keep_request, Elsewhere, TablesOK, ProfileOK, Idle, Working
<1>3. CASE join(d)
  BY <1>0, <1>3 DEF join, Joinable, Elsewhere, TablesOK, ProfileOK, Busy, Working, DevOK, RecOK
<1>4. CASE rejoin(d)
  BY <1>0, <1>4 DEF rejoin, Elsewhere, TablesOK, ProfileOK, Busy, Working
<1>5. CASE ack_welcome(d)
  BY <1>0, <1>5 DEF ack_welcome, Elsewhere, TablesOK, ProfileOK, Busy, Working
<1>6. CASE accept_membership(d)
  BY <1>0, <1>6 DEF accept_membership, Elsewhere, TablesOK, ProfileOK, Busy, Working
<1>7. CASE drop_request(d)
  BY <1>0, <1>7 DEF drop_request, Elsewhere, TablesOK, ProfileOK, Idle, Working
<1>8. CASE decline(d)
  BY <1>0, <1>8 DEF decline, Elsewhere, TablesOK, ProfileOK, Idle, Working
<1>9. CASE encrypt(d)
  BY <1>0, <1>9 DEF encrypt, Elsewhere, TablesOK, ProfileOK, Busy, Working
<1>10. CASE send_application(d)
  BY <1>0, <1>10 DEF send_application, Store, Elsewhere, TablesOK, ProfileOK, Idle, Working
<1>11. CASE drop_echo(d)
  BY <1>0, <1>11 DEF drop_echo, Elsewhere, TablesOK, ProfileOK, Idle, Working
<1>12. CASE apply(d)
  <2>1. rec[d] = None
    BY <1>12 DEF apply, Applies, Unresolved
  <2>2. PICK e, g :
            grp' = [grp EXCEPT ![d] = g] /\ cmd' = [cmd EXCEPT ![d] = Busy("ack", e)]
    BY <1>12 DEF apply
  <2> QED BY <1>0, <1>12, <2>1, <2>2 DEF apply, Elsewhere, TablesOK, ProfileOK, Busy, Working
<1>13. CASE put_rx(d)
  <2>2. PICK e \in Usable(d) :
            /\ rx' = [rx EXCEPT ![d] = @ \cup {e.id}]
            /\ cmd' = [cmd EXCEPT ![d] = Busy("ratchet", e)]
    BY <1>13 DEF put_rx
  <2> QED BY <1>0, <1>13, <2>2 DEF put_rx, Elsewhere, TablesOK, ProfileOK, Busy, Working
<1>14. CASE save_ratchet(d)
  <2>1. grp[d] # None /\ grp[d] \in GroupState
    BY <1>0, <1>14, TakeAt DEF save_ratchet, DevOK, TakeOK, TablesOK, ProfileOK
  <2>2. grp'[d].staged = grp[d].staged
    BY <1>0, <1>14, <2>1 DEF save_ratchet, TablesOK, ProfileOK, GroupState
  <2> QED BY <1>0, <1>14, <2>2 DEF save_ratchet, Elsewhere, TablesOK, ProfileOK, Busy, Working
<1>15. CASE ack_used(d)
  BY <1>0, <1>15 DEF ack_used, Elsewhere, TablesOK, ProfileOK, Idle, Working
<1>16. CASE stop(d)
  BY <1>0, <1>16 DEF stop, Elsewhere, TablesOK, ProfileOK, Idle, Working
<1>17. CASE join_cut(d)
  BY <1>0, <1>17 DEF join_cut, Elsewhere, TablesOK, ProfileOK, Idle, Working
<1>18. CASE decline_cut(d)
  BY <1>0, <1>18 DEF decline_cut, Elsewhere, TablesOK, ProfileOK, Idle, Working
<1> QED BY <1>1, <1>2, <1>3, <1>4, <1>5, <1>6, <1>7, <1>8, <1>9, <1>10, <1>11, <1>12, <1>13,
           <1>14, <1>15, <1>16, <1>17, <1>18

\* A Commit that was just built is not in the ledger.
LEMMA NewIsNotInLog ==
    ASSUME StateInv, NEW c, c.serial = made + 1
    PROVE  ~InLog(c)
<1>1. TablesOK /\ LogOK
  BY DEF StateInv
<1> QED BY <1>1, LogLen DEF InLog, LogOK, Good, Commit

LEMMA WireStage ==
    ASSUME StateInv, WireInv, NEW d \in Device, NEW kind, NEW peer, NEW roster,
           stage(d, kind, peer, roster)
    PROVE  WireInv'
<1>0. TablesOK
  BY DEF StateInv
<1>1. /\ rec[d] = None /\ UNCHANGED <<log, envs, wire, grp, request, spent, rx>>
  BY DEF stage, prepare_add, server
<1>2. PICK c : c = NextCommit(d, roster)
  OBVIOUS
<1>3. PICK r : rec' = [rec EXCEPT ![d] = r] /\ cmd' = [cmd EXCEPT ![d] = Busy("staged", c)]
  BY <1>2 DEF stage, Goto
<1>4. Elsewhere(d) /\ cmd'[d] = Busy("staged", c)
  BY <1>0, <1>1, <1>3 DEF TablesOK, ProfileOK, Elsewhere
<1>5. ~InLog(c)
  BY <1>2, NewIsNotInLog DEF NextCommit
<1>6. cmd'[d].pc = "staged" /\ cmd'[d].arg = c
  BY <1>4 DEF Busy
<1>7. FateOK(d)'
  BY <1>1, <1>5, <1>6 DEF FateOK, InLog
<1>8. \A x \in wire : x.by # d
  BY <1>1, NotOnWire
<1>9. ASSUME NEW n \in 1..Len(log), log[n].by = d PROVE DebtOK(n)'
  BY <1>1, <1>9 DEF WireInv, DebtOK, Adds, Welcomed, Roster
<1>10. wire' \subseteq Commit
  BY <1>0, <1>1 DEF TablesOK, ServerOK
<1> QED BY <1>1, <1>4, <1>7, <1>8, <1>9, <1>10, WireFrame

LEMMA WireSave ==
    ASSUME StateInv, WireInv, NEW d \in Device, save_and_post(d)
    PROVE  WireInv'
<1>0. TablesOK /\ DevOK(d)
  BY DEF StateInv
<1>1. PICK c : c = cmd[d].arg
  OBVIOUS
<1>2. /\ UNCHANGED <<log, envs, rec, request, spent, rx>> /\ wire' = wire \cup {c}
      /\ cmd' = [cmd EXCEPT ![d] = Busy("posted", c)]
      /\ grp' = [grp EXCEPT ![d].staged = c]
  BY <1>1 DEF save_and_post, Goto
<1>3. Elsewhere(d) /\ cmd'[d] = Busy("posted", c)
  BY <1>0, <1>2 DEF TablesOK, ProfileOK, Elsewhere
<1>4. cmd'[d].pc = "posted" /\ cmd'[d].arg = c
  BY <1>3 DEF Busy
<1>5. c \in Commit /\ WorkOK(d, "staged", c)
  BY <1>0, <1>1, WorkAt DEF save_and_post, DevOK, Working
<1>6. rec[d] # None /\ rec[d].commit = c /\ grp'[d].staged = c
  <2>1. rec[d] # None /\ rec[d].commit = c
    BY <1>5 DEF WorkOK
  <2>2. grp[d] \in GroupState
    BY <1>0, <2>1 DEF DevOK, RecOK, TablesOK, ProfileOK
  <2>3. grp'[d] = [grp[d] EXCEPT !.staged = c]
    BY <1>0, <1>2 DEF TablesOK, ProfileOK
  <2> QED BY <1>5, <2>1, <2>2, <2>3, StagedIs
<1>7. ~InLog(c)
  BY <1>1 DEF save_and_post, WireInv, FateOK
<1>8. \A x \in wire : x.by # d
  BY NotOnWire DEF save_and_post, Working
<1>9. c.by = d
  BY <1>0, <1>6 DEF DevOK, RecOK
<1>10. WireOK(c)'
  BY <1>2, <1>4, <1>6, <1>7, <1>9 DEF WireOK, InLog
<1>11. FateOK(d)'
  BY <1>4 DEF FateOK
<1>12. ASSUME NEW n \in 1..Len(log), log[n].by = d PROVE DebtOK(n)'
  BY <1>2, <1>12 DEF WireInv, DebtOK, Adds, Welcomed, Roster
<1>13. wire' \subseteq Commit
  BY <1>0, <1>2, <1>5 DEF TablesOK, ServerOK
<1> QED BY <1>2, <1>3, <1>8, <1>9, <1>10, <1>11, <1>12, <1>13, WireFrame

LEMMA WireMark ==
    ASSUME StateInv, WireInv, NEW d \in Device, mark_accepted(d) \/ post_member(d)
    PROVE  WireInv'
<1>0. TablesOK /\ DevOK(d)
  BY DEF StateInv
<1>1. PICK c : c = cmd[d].arg
  OBVIOUS
<1>2. \A x \in wire : x.by # d
  BY NotOnWire DEF mark_accepted, post_member, Working
<1>3. rec[d] # None /\ rec[d] \in Record
  BY <1>0, WorkAt DEF mark_accepted, post_member, DevOK, Working, WorkOK, TablesOK, ProfileOK
<1>4. CASE mark_accepted(d)
  <2>1. /\ UNCHANGED <<log, envs, wire, grp, request, spent, rx>>
        /\ rec' = [rec EXCEPT ![d].accepted = (@ \/ rec[d].kind = "gadd")]
        /\ cmd' = [cmd EXCEPT ![d] = Busy("merge", c)]
    BY <1>1, <1>4 DEF mark_accepted, Goto, server
  <2>2. rec'[d].commit = rec[d].commit /\ rec'[d] # None
    <3>1. rec'[d].commit = rec[d].commit /\ rec'[d] \in Record
      BY <1>0, <1>3, <2>1 DEF TablesOK, ProfileOK, Record
    <3> QED BY <3>1, NoneAssumption
  <2>3. Elsewhere(d) /\ cmd'[d] = Busy("merge", c)
    BY <1>0, <2>1 DEF TablesOK, ProfileOK, Elsewhere
  <2>4. cmd'[d].pc = "merge"
    BY <2>3 DEF Busy
  <2>5. FateOK(d)'
    BY <2>4 DEF FateOK
  <2> QED BY <1>2, <1>3, <2>1, <2>2, <2>3, <2>5, WireWork
<1>5. CASE post_member(d)
  <2>1. /\ UNCHANGED <<log, envs, wire, grp, rec, request, spent, rx>>
        /\ cmd' = [cmd EXCEPT ![d] = Busy("welcome", c)]
    BY <1>1, <1>5 DEF post_member, Goto, profile
  <2>2. Elsewhere(d) /\ cmd'[d] = Busy("welcome", c)
    BY <1>0, <2>1 DEF TablesOK, ProfileOK, Elsewhere
  <2>3. cmd'[d].pc = "welcome"
    BY <2>2 DEF Busy
  <2>4. FateOK(d)'
    BY <2>3 DEF FateOK
  <2> QED BY <1>2, <2>1, <2>2, <2>4, WireWork
<1> QED BY <1>4, <1>5

LEMMA WireConfirm ==
    ASSUME StateInv, WireInv, NEW d \in Device, confirm(d)
    PROVE  WireInv'
<1>0. TablesOK /\ DevOK(d)
  BY DEF StateInv
<1>1. PICK c : c = cmd[d].arg
  OBVIOUS
<1>2. c \in Commit /\ WorkOK(d, "merge", c)
  BY <1>0, <1>1, WorkAt DEF confirm, DevOK, Working
<1>3. \A x \in wire : x.by # d
  BY NotOnWire DEF confirm, Working
<1>4. /\ UNCHANGED <<log, envs, wire, rec, request, spent, rx>>
      /\ grp' = [grp EXCEPT ![d] = At(c)] /\ cmd' = [cmd EXCEPT ![d] = Busy(AfterMerge(d), c)]
  BY <1>1 DEF confirm, Goto, server
<1>5. Elsewhere(d) /\ cmd'[d] = Busy(AfterMerge(d), c) /\ grp'[d] = At(c)
  BY <1>0, <1>4 DEF TablesOK, ProfileOK, Elsewhere
<1>6. cmd'[d].pc = AfterMerge(d) /\ cmd'[d].arg = c /\ grp'[d].tip = c
  BY <1>5 DEF Busy, At
<1>7. rec[d].kind = "gadd" \/ rec[d].kind = "grem"
  BY <1>0, <1>2 DEF WorkOK, TablesOK, ProfileOK, Record
<1>8. AfterMerge(d) = "drop" => ~Adds(c)
  BY <1>0, <1>2, <1>7 DEF AfterMerge, WorkOK, DevOK, RecOK, Adds
<1>9. FateOK(d)'
  BY <1>4, <1>6, <1>8 DEF FateOK, Adds, Roster, AfterMerge
<1> QED BY <1>3, <1>4, <1>5, <1>9, WireWork

LEMMA WireAbort ==
    ASSUME StateInv, WireInv, NEW d \in Device, abort(d)
    PROVE  WireInv'
<1>0. TablesOK /\ DevOK(d)
  BY DEF StateInv
<1>1. PICK c : c = cmd[d].arg
  OBVIOUS
<1>2. \A x \in wire : x.by # d
  BY NotOnWire DEF abort, Working
<1>3. /\ UNCHANGED <<log, envs, wire, rec, request, spent, rx>>
      /\ grp' = [grp EXCEPT ![d].staged = None] /\ cmd' = [cmd EXCEPT ![d] = Busy("drop", c)]
  BY <1>1 DEF abort, Goto, server
<1>4. Elsewhere(d) /\ cmd'[d] = Busy("drop", c)
  BY <1>0, <1>3 DEF TablesOK, ProfileOK, Elsewhere
<1>5. cmd'[d].pc = "drop" /\ cmd'[d].arg = c
  BY <1>4 DEF Busy
<1>6. ~InLog(c)
  BY <1>1 DEF abort, WireInv, FateOK
<1>7. FateOK(d)'
  BY <1>3, <1>5, <1>6 DEF FateOK, InLog
<1> QED BY <1>2, <1>3, <1>4, <1>7, WireWork

LEMMA WireDrop ==
    ASSUME StateInv, WireInv, NEW d \in Device, drop_record(d)
    PROVE  WireInv'
<1>0. TablesOK /\ LogOK /\ DevOK(d)
  BY DEF StateInv
<1>1. PICK c : c = cmd[d].arg
  OBVIOUS
<1>2. rec[d].commit = c
  BY <1>0, <1>1, WorkAt DEF drop_record, DevOK, Working, WorkOK
<1>3. \A x \in wire : x.by # d
  BY NotOnWire DEF drop_record, Working
<1>4. /\ UNCHANGED <<log, envs, wire, grp, request, spent, rx>>
      /\ rec' = [rec EXCEPT ![d] = None] /\ cmd' = [cmd EXCEPT ![d] = Idle]
  BY DEF drop_record, Done, server
<1>5. Elsewhere(d) /\ cmd'[d] = Idle
  BY <1>0, <1>4 DEF TablesOK, ProfileOK, Elsewhere
<1>6. FateOK(d)'
  BY <1>5 DEF FateOK, Idle
<1>7. ASSUME NEW n \in 1..Len(log), log[n].by = d PROVE DebtOK(n)'
  <2>1. ASSUME Adds(log[n]) PROVE Welcomed(log[n])
    <3>1. CASE log[n] = c
      <4>1. InLog(c)
        BY <1>0, <1>7, <3>1 DEF LogOK, InLog
      <4> QED BY <1>1, <2>1, <3>1, <4>1 DEF drop_record, WireInv, FateOK
    <3>2. CASE log[n] # c
      BY <1>2, <1>7, <2>1, <3>2 DEF WireInv, DebtOK
    <3> QED BY <3>1, <3>2
  <2> QED BY <1>4, <2>1 DEF DebtOK, Adds, Welcomed, Roster
<1>8. wire' \subseteq Commit
  BY <1>0, <1>4 DEF TablesOK, ServerOK
<1> QED BY <1>3, <1>4, <1>5, <1>6, <1>7, <1>8, WireFrame

LEMMA WireWelcome ==
    ASSUME StateInv, WireInv, NEW d \in Device, send_welcome(d)
    PROVE  WireInv'
<1>0. TablesOK /\ DevOK(d)
  BY DEF StateInv
<1>1. PICK c : c = cmd[d].arg
  OBVIOUS
<1>2. WorkOK(d, "welcome", c)
  BY <1>0, <1>1, WorkAt DEF send_welcome, DevOK, Working
<1>3. \A x \in wire : x.by # d
  BY NotOnWire DEF send_welcome, Working
<1>4. PICK e : e.kind = "welcome" /\ e.commit = c /\ envs' = envs \cup {e}
  BY <1>2 DEF send_welcome, Store, WorkOK
<1>5. /\ UNCHANGED <<log, wire, grp, rec, request, spent, rx>>
      /\ cmd' = [cmd EXCEPT ![d] = Busy("drop", c)]
  BY <1>1 DEF send_welcome, Goto, profile
<1>6. Elsewhere(d) /\ cmd'[d] = Busy("drop", c)
  BY <1>0, <1>5 DEF TablesOK, ProfileOK, Elsewhere
<1>7. cmd'[d].pc = "drop" /\ cmd'[d].arg = c
  BY <1>6 DEF Busy
<1>8. grp[d].tip.epoch = c.epoch
  BY <1>0, <1>2 DEF WorkOK, DevOK, RecOK
<1>9. FateOK(d)'
  BY <1>4, <1>5, <1>7, <1>8 DEF FateOK, Welcomed
<1> QED BY <1>3, <1>4, <1>5, <1>6, <1>9, WireWork

LEMMA WireResume ==
    ASSUME StateInv, WireInv, NEW d \in Device, resume(d)
    PROVE  WireInv'
<1>0. TablesOK /\ DevOK(d)
  BY DEF StateInv
<1>1. rec[d] # None /\ InLog(rec[d].commit)
  BY <1>0 DEF resume, MayResume, DevOK, RecOK
<1>2. \A x \in wire : x.by # d
  BY <1>1 DEF WireInv, WireOK
<1>3. /\ UNCHANGED <<log, envs, wire, rec, request, spent, rx>>
      /\ cmd' = [cmd EXCEPT ![d] = Busy("member", rec[d].commit)]
      /\ \E g : grp' = [grp EXCEPT ![d] = g]
  BY <1>0, SelfIs DEF resume, Goto, server
<1>4. Elsewhere(d) /\ cmd'[d] = Busy("member", rec[d].commit)
  BY <1>0, <1>3 DEF TablesOK, ProfileOK, Elsewhere
<1>5. cmd'[d].pc = "member"
  BY <1>4 DEF Busy
<1>6. FateOK(d)'
  BY <1>5 DEF FateOK
<1> QED BY <1>2, <1>3, <1>4, <1>6, WireWork

LEMMA WireAccepted ==
    ASSUME StateInv, StateInv', WireInv, NEW c \in wire, commit_accepted(c)
    PROVE  WireInv'
<1>0. TablesOK /\ TablesOK' /\ LogOK /\ c \in Commit
  BY DEF StateInv, TablesOK, ServerOK
<1> USE LogLen
<1>1. PICK d \in Device : d = c.by
  BY <1>0 DEF Commit
<1>2. DevOK(d) /\ WireOK(c)
  BY DEF StateInv, WireInv
<1>3. /\ wire' = wire \ {c} /\ c.epoch = Len(log) + 1 /\ log' = Append(log, c)
      /\ envs \subseteq envs' /\ Answer(c, "accepted")
      /\ UNCHANGED <<grp, rec>>
  BY DEF commit_accepted, Store, profile
<1>4. /\ Len(log') = Len(log) + 1
      /\ \A n \in 1..Len(log) : log'[n] = log[n]
      /\ log'[Len(log) + 1] = c
  BY <1>0, <1>3 DEF TablesOK, ServerOK
<1>5. \A x : InLog(x)' => x = c \/ InLog(x)
  BY <1>0, <1>4 DEF InLog
<1>6. ASSUME NEW x \in Device, x # d PROVE cmd'[x] = cmd[x]
  BY <1>0, <1>1, <1>3, <1>6, AnswerIs DEF TablesOK, ProfileOK
<1>7. cmd'[d] = cmd[d] \/ cmd'[d] = Busy("accepted", c)
  BY <1>0, <1>1, <1>3, AnswerIs DEF TablesOK, ProfileOK
<1>8. \A n \in 0..Len(log) : Roster(n)' = Roster(n)
  BY <1>0, <1>4 DEF Roster
<1>9. ASSUME NEW x \in wire' PROVE WireOK(x)'
  <2>1. x \in wire /\ x # c /\ WireOK(x) /\ x.by \in Device
    BY <1>0, <1>3 DEF WireInv, TablesOK, ServerOK, Commit
  <2>2. x.by # d
    BY <1>1, <1>2, <2>1 DEF WireOK
  <2> QED BY <1>3, <1>5, <1>6, <2>1, <2>2 DEF WireOK
<1>10. ASSUME NEW x \in Device PROVE FateOK(x)'
  <2>1. CASE cmd'[x] = cmd[x]
    <3>1. ASSUME cmd[x].pc \in {"staged", "rejected", "drop"} PROVE cmd[x].arg # c
      <4>1. WorkOK(x, cmd[x].pc, cmd[x].arg)
        BY <3>1, WorkAt DEF StateInv, DevOK, Working
      <4>2. x # d
        BY <1>1, <1>2, <3>1 DEF WireOK, Working
      <4>3. rec[x].commit.by = x /\ rec[x].commit = cmd[x].arg
        BY <4>1 DEF StateInv, DevOK, RecOK, WorkOK
      <4> QED BY <1>1, <4>2, <4>3
    <3>2. FateOK(x)
      BY DEF WireInv
    <3>3. cmd[x].pc \in {"staged", "rejected"} => ~InLog(cmd[x].arg)'
      BY <1>5, <2>1, <3>1, <3>2 DEF FateOK
    <3>4. ASSUME cmd[x].pc = "drop", InLog(cmd[x].arg)'
          PROVE  /\ Adds(cmd[x].arg)' => Welcomed(cmd[x].arg)'
                 /\ grp'[x].tip.epoch = cmd[x].arg.epoch
      <4>1. PICK y : y = cmd[x].arg
        OBVIOUS
      <4>2. InLog(y)
        BY <1>5, <2>1, <3>1, <3>4, <4>1 DEF InLog
      <4>3. y.epoch - 1 \in 0..Len(log)
        BY <1>0, <4>2 DEF InLog
      <4>4. Adds(y)' => Adds(y)
        BY <1>8, <4>3 DEF Adds
      <4>5. (Adds(y) => Welcomed(y)) /\ grp[x].tip.epoch = y.epoch
        BY <3>2, <3>4, <4>1, <4>2 DEF FateOK
      <4>6. Welcomed(y) => Welcomed(y)'
        BY <1>3 DEF Welcomed
      <4> QED BY <1>3, <2>1, <4>1, <4>4, <4>5, <4>6 DEF Adds, Welcomed
    <3> QED BY <2>1, <3>3, <3>4 DEF FateOK, InLog, Adds, Welcomed
  <2>2. CASE cmd'[x] = Busy("accepted", c)
    <3>1. cmd'[x].pc = "accepted"
      BY <2>2 DEF Busy
    <3> QED BY <3>1 DEF FateOK
  <2> QED BY <1>6, <1>7, <2>1, <2>2
<1>11. ASSUME NEW n \in 1..Len(log') PROVE DebtOK(n)'
  <2>1. CASE n \in 1..Len(log)
    <3>1. DebtOK(n) /\ log'[n] = log[n]
      BY <1>4, <2>1 DEF WireInv
    <3>2. PICK y : y = log[n]
      OBVIOUS
    <3>3. y.epoch - 1 \in 0..Len(log)
      BY <1>0, <2>1, <3>2 DEF LogOK
    <3>4. Adds(y)' => Adds(y)
      BY <1>8, <3>3 DEF Adds
    <3>5. Welcomed(y) => Welcomed(y)'
      BY <1>3 DEF Welcomed
    <3> QED BY <1>3, <3>1, <3>2, <3>4, <3>5 DEF DebtOK, Adds, Welcomed
  <2>2. CASE n = Len(log) + 1
    BY <1>2, <1>3, <1>4, <2>2 DEF DebtOK, WireOK
  <2> QED BY <1>0, <1>4, <2>1, <2>2
<1> QED BY <1>9, <1>10, <1>11 DEF WireInv

LEMMA WireRefused ==
    ASSUME StateInv, WireInv, NEW c \in wire, commit_refused(c)
    PROVE  WireInv'
<1>0. TablesOK /\ c \in Commit
  BY DEF StateInv, TablesOK, ServerOK
<1>1. PICK d \in Device : d = c.by
  BY <1>0 DEF Commit
<1>2. WireOK(c)
  BY DEF WireInv
<1>3. /\ wire' = wire \ {c} /\ Answer(c, "rejected")
      /\ UNCHANGED <<log, envs, grp, rec, request, spent, rx>>
  BY DEF commit_refused, profile
<1>4. PICK f : cmd' = [cmd EXCEPT ![d] = f]
  BY <1>0, <1>1, <1>3, AnswerIs
<1>5. Elsewhere(d)
  BY <1>0, <1>3, <1>4 DEF TablesOK, ProfileOK, Elsewhere
<1>6. cmd'[d] = cmd[d] \/ cmd'[d] = Busy("rejected", c)
  BY <1>0, <1>1, <1>3, AnswerIs DEF TablesOK, ProfileOK
<1>7. FateOK(d)'
  <2>1. CASE cmd'[d] = cmd[d]
    BY <1>3, <2>1 DEF WireInv, FateOK, InLog, Adds, Welcomed, Roster
  <2>2. CASE cmd'[d] = Busy("rejected", c)
    <3>1. cmd'[d].pc = "rejected" /\ cmd'[d].arg = c
      BY <2>2 DEF Busy
    <3> QED BY <1>2, <1>3, <3>1 DEF FateOK, WireOK, InLog
  <2> QED BY <1>6, <2>1, <2>2
<1>8. ASSUME NEW x \in wire' PROVE x.by # d
  BY <1>1, <1>2, <1>3 DEF WireInv, WireOK
<1>9. ASSUME NEW n \in 1..Len(log) PROVE DebtOK(n)'
  BY <1>3, DebtStays DEF WireInv
<1>10. wire' \subseteq Commit
  BY <1>0, <1>3 DEF StateInv, TablesOK, ServerOK
<1> QED BY <1>3, <1>5, <1>7, <1>8, <1>9, <1>10, WireFrame

LEMMA WireInit == Init => WireInv
BY DEF Init, WireInv, FateOK, Idle

LEMMA WireNext ==
    ASSUME StateInv, StateInv', WireInv, [Next]_vars
    PROVE  WireInv'
<1>0. TablesOK
  BY DEF StateInv
<1>1. CASE UNCHANGED vars
  BY <1>1 DEF vars, server, profile, WireInv, WireOK, FateOK, DebtOK, InLog, Adds, Welcomed, Roster
<1>2. ASSUME NEW c \in wire, commit_accepted(c) \/ commit_refused(c) PROVE WireInv'
  BY <1>2, WireAccepted, WireRefused
<1>3. ASSUME NEW d \in Device, NEW peer \in Device, add(d, peer) \/ remove(d, peer)
      PROVE  WireInv'
  BY <1>3, WireStage DEF add, remove
<1>4. ASSUME NEW d \in Device,
             \/ save_and_post(d)
             \/ mark_accepted(d) \/ confirm(d) \/ abort(d) \/ drop_record(d)
             \/ post_member(d) \/ send_welcome(d) \/ resume(d)
      PROVE  WireInv'
  BY <1>4, WireSave, WireMark, WireConfirm, WireAbort, WireDrop, WireWelcome, WireResume
<1>5. ASSUME NEW d \in Device,
             \/ commit_unknown(d) \/ keep_request(d) \/ join(d) \/ rejoin(d) \/ ack_welcome(d)
             \/ accept_membership(d) \/ drop_request(d) \/ decline(d) \/ encrypt(d)
             \/ send_application(d) \/ drop_echo(d) \/ apply(d) \/ put_rx(d) \/ save_ratchet(d)
             \/ ack_used(d) \/ stop(d) \/ join_cut(d) \/ decline_cut(d)
      PROVE  WireInv'
  <2>1. /\ log' = log /\ envs \subseteq envs' /\ Elsewhere(d) /\ wire' \subseteq wire
        /\ rec' = rec
        /\ rec[d] # None => grp'[d].staged = grp[d].staged
        /\ cmd'[d].pc \notin Working
    BY <1>5, CalmSteps
  <2> QED BY <2>1, WireCalm
<1> QED BY <1>1, <1>2, <1>3, <1>4, <1>5 DEF Next

-----------------------------------------------------------------------------
LEMMA SafeInvariance == Spec => [](StateInv /\ WireInv)
<1>1. Init => StateInv /\ WireInv
  BY StateInit, WireInit
<1>2. StateInv /\ WireInv /\ [Next]_vars => StateInv' /\ WireInv'
  <2> SUFFICES ASSUME StateInv, WireInv, [Next]_vars PROVE StateInv' /\ WireInv'
    OBVIOUS
  <2>1. StateInv'
    BY StateNext DEF WireInv
  <2> QED BY <2>1, WireNext
<1> QED BY <1>1, <1>2, PTL DEF Spec

\* The tables, the profiles and the commands keep their types, and a device that
\* has the group's state is in the roster of the epoch it is at.
THEOREM TypeCorrect == Spec => []TypeOK
<1>1. StateInv => TypeOK
  <2> SUFFICES ASSUME StateInv PROVE TypeOK
    OBVIOUS
  <2>0. TablesOK
    BY DEF StateInv
  <2>1. ASSUME NEW e \in envs
        PROVE  e.by \in Device /\ e.to \in Device \cup {NoDevice} /\ e.commit \in Commit
    BY <2>0 DEF TablesOK, ServerOK, Envelope
  <2>2. ASSUME NEW d \in Device
        PROVE  /\ grp[d] # None => grp[d] \in GroupState /\ d \in grp[d].tip.roster
               /\ conv[d] \in {None, "creator", "joiner"}
               /\ rec[d] # None => rec[d] \in Record /\ rec[d].commit.by = d
               /\ request[d] # None => request[d] \in envs /\ request[d].to = d
               /\ rx[d] \subseteq {e.id : e \in envs}
    <3>1. DevOK(d)
      BY DEF StateInv
    <3> QED BY <2>0, <3>1 DEF TablesOK, ProfileOK, Ids, DevOK, GrpOK, RecOK, ReqOK
  <2> QED BY <2>0, <2>1, <2>2 DEF TypeOK, TablesOK, ServerOK, Ids
<1> QED BY <1>1, SafeInvariance, PTL

\* Every device's epoch is the ledger's, whatever Commits, answers and processes
\* were lost, late or interrupted.
THEOREM EpochsAreTheLedgers == Spec => []NoFork
<1>1. StateInv => NoFork
  BY DEF StateInv, DevOK, GrpOK, Known, InLog, NoFork
<1> QED BY <1>1, SafeInvariance, PTL

\* settle_local_epoch never refuses an accepted add.
THEOREM AddsCanBeResumed == Spec => []ResumeNeverRefused
<1>1. StateInv => ResumeNeverRefused
  BY DEF StateInv, DevOK, RecOK, StagedOK, ResumeNeverRefused, MayResume, Behind, Level
<1> QED BY <1>1, SafeInvariance, PTL

\* The Welcome of an add that is in the ledger was sent, or its record stands.
THEOREM WelcomesAreKept == Spec => []WelcomeNeverLost
<1>1. StateInv /\ WireInv => WelcomeNeverLost
  <2> SUFFICES ASSUME StateInv, WireInv, NEW d \in Device, NEW n \in 1..Len(log),
                      log[n].by = d, ~(log[n].roster \subseteq Before(n).roster)
               PROVE  \/ \E e \in envs : e.kind = "welcome" /\ e.commit = log[n]
                      \/ rec[d] # None /\ rec[d].commit = log[n]
    BY DEF WelcomeNeverLost
  <2>1. log[n].epoch = n /\ Len(log) \in Nat
    BY LogLen DEF StateInv, LogOK
  <2>2. Before(n).roster = Roster(n - 1)
    BY <2>1 DEF Before, Roster, Genesis
  <2>3. Adds(log[n])
    BY <2>1, <2>2 DEF Adds
  <2> QED BY <2>3 DEF WireInv, DebtOK, Welcomed
<1> QED BY <1>1, SafeInvariance, PTL

-----------------------------------------------------------------------------
\* The third part.  How a device's group state may move in a step: it goes, it stays
\* in its epoch, it enters the next one, or it comes with an unused Welcome.
Joins(d) ==
    /\ grp[d] = None
    /\ grp'[d].tip.epoch \in 1..Len(log)
    /\ d \notin Roster(grp'[d].tip.epoch - 1)
    /\ log[grp'[d].tip.epoch].serial \notin spent[d]
    /\ log[grp'[d].tip.epoch].serial \in spent'[d]
Moves(d) ==
    /\ spent[d] \subseteq spent'[d]
    /\ \/ grp'[d] = None
       \/ grp[d] # None /\ grp'[d].tip = grp[d].tip /\ grp[d].gen <= grp'[d].gen
       \/ grp[d] # None /\ grp'[d].tip.epoch = grp[d].tip.epoch + 1
       \/ Joins(d)

\* A device is in the roster of the epoch it is at.
LEMMA SeatRoster ==
    ASSUME StateInv, NEW d \in Device, grp[d] # None
    PROVE  /\ grp[d].tip.epoch \in 0..Len(log) /\ d \in Roster(grp[d].tip.epoch)
           /\ Len(log) \in Nat /\ Stay(d, grp[d].tip.epoch, grp[d].tip.epoch)
<1>1. TablesOK /\ LogOK /\ Known(grp[d].tip) /\ d \in grp[d].tip.roster
  BY DEF StateInv, DevOK, GrpOK
<1>2. /\ grp[d].tip.epoch \in 0..Len(log) /\ grp[d].tip.roster = Roster(grp[d].tip.epoch)
      /\ Len(log) \in Nat
  BY <1>1, KnownIsGood, LogLen
<1> QED BY <1>1, <1>2 DEF Stay

LEMMA StayStays ==
    ASSUME StateInv, StateInv', Grows, NEW d, NEW m \in Nat, NEW n \in 0..Len(log)
    PROVE  Stay(d, m, n)' <=> Stay(d, m, n)
<1>1. /\ \A k \in 0..Len(log) : Roster(k)' = Roster(k)
      /\ Len(log) \in Nat
  BY LogStays, LogLen DEF StateInv
<1>2. \A k \in m..n : k \in 0..Len(log)
  BY <1>1
<1> QED BY <1>1, <1>2 DEF Stay

LEMMA RootedStays ==
    ASSUME StateInv, StateInv', Grows, NEW d \in Device, NEW n \in 0..Len(log),
           Rooted(d, n), spent[d] \subseteq spent'[d]
    PROVE  Rooted(d, n)'
<1>0. Len(log) \in Nat /\ \A k \in 0..Len(log) : Roster(k)' = Roster(k)
  BY LogLen, LogStays DEF StateInv
<1>1. ASSUME NEW m \in 1..n, Stay(d, m, n)', d \notin Roster(m - 1)'
      PROVE  log'[m].serial \in spent'[d]
  <2>1. m \in 1..Len(log) /\ m \in Nat /\ m - 1 \in 0..Len(log)
    BY <1>0
  <2>2. Stay(d, m, n)
    BY <1>1, <2>1, StayStays
  <2>3. d \notin Roster(m - 1)
    <3>1. PICK k : k = m - 1
      OBVIOUS
    <3>2. Roster(k)' = Roster(k)
      BY <1>0, <2>1, <3>1
    <3> QED BY <1>1, <3>1, <3>2 DEF Roster
  <2>4. log'[m] = log[m]
    BY <2>1 DEF Grows
  <2> QED BY <2>2, <2>3, <2>4 DEF Rooted
<1> QED BY <1>1 DEF Rooted

\* An epoch once left is never entered again, nor one before it in the same stay.
LEMMA LeftStays ==
    ASSUME StateInv, StateInv', Grows, NEW d \in Device, NEW n, Left(d, n), Moves(d)
    PROVE  Left(d, n)'
<1>0. Len(log) \in Nat /\ Len(log') \in Nat /\ Len(log) <= Len(log') /\ n \in 0..Len(log)
  BY LogLen DEF StateInv, Left, Grows, TablesOK, ServerOK
<1>1. Rooted(d, n)'
  BY <1>0, RootedStays DEF Left, Moves
<1>2. ASSUME grp'[d] # None, Stay(d, grp[d].tip.epoch, n)' PROVE FALSE
  <2>1. PICK t : t = grp'[d].tip.epoch
    OBVIOUS
  <2>2. t \in Nat /\ Stay(d, t, n)'
    <3>1. t \in Nat
      BY <1>2, <2>1, GroupClientAssumption
         DEF StateInv, TablesOK, ProfileOK, GroupState, Commit
    <3> QED BY <1>0, <1>2, <2>1, <3>1 DEF Stay, Roster
  <2>3. Stay(d, t, n)
    BY <1>0, <2>2, StayStays
  <2>4. CASE grp[d] # None /\ grp'[d].tip = grp[d].tip
    BY <2>1, <2>3, <2>4 DEF Left
  <2>5. CASE grp[d] # None /\ grp'[d].tip.epoch = grp[d].tip.epoch + 1
    <3>1. PICK s : s = grp[d].tip.epoch
      OBVIOUS
    <3>2. s \in 0..Len(log) /\ d \in Roster(s) /\ t = s + 1
      BY <2>1, <2>5, <3>1, SeatRoster
    <3>3. \A k \in s..n : k = s \/ k \in t..n
      BY <1>0, <3>2
    <3>4. Stay(d, s, n)
      BY <1>0, <2>3, <3>2, <3>3 DEF Stay
    <3> QED BY <2>5, <3>1, <3>4 DEF Left
  <2>6. CASE Joins(d)
    <3>1. t \in 1..Len(log) /\ d \notin Roster(t - 1) /\ log[t].serial \notin spent[d]
      BY <2>1, <2>6 DEF Joins
    <3>2. t \in 1..n
      BY <1>0, <2>3, <3>1 DEF Stay
    <3> QED BY <2>3, <3>1, <3>2 DEF Left, Rooted
  <2> QED BY <1>2, <2>4, <2>5, <2>6 DEF Moves
<1> QED BY <1>0, <1>1, <1>2 DEF Left

\* The stay a device is in began with a Welcome it has used.
LEMMA SeatStays ==
    ASSUME StateInv, StateInv', Grows, NEW d \in Device, SeatOK(d), Moves(d)
    PROVE  SeatOK(d)'
<1> SUFFICES ASSUME grp'[d] # None PROVE Rooted(d, grp[d].tip.epoch)'
  BY DEF SeatOK
<1>0. /\ Len(log) \in Nat /\ Len(log') \in Nat
      /\ \A k \in 0..Len(log) : Roster(k)' = Roster(k)
      /\ \A k \in 1..Len(log) : log'[k] = log[k]
  BY LogLen, LogStays DEF StateInv, TablesOK, ServerOK, Grows
<1>1. PICK t : t = grp'[d].tip.epoch
  OBVIOUS
<1>2. t \in Nat
  BY <1>1, GroupClientAssumption DEF StateInv, TablesOK, ProfileOK, GroupState, Commit
<1>3. SUFFICES Rooted(d, t)'
  BY <1>1 DEF Rooted, Stay, Roster
<1>4. CASE grp[d] # None /\ grp'[d].tip = grp[d].tip
  <2>1. t \in 0..Len(log) /\ Rooted(d, t)
    BY <1>1, <1>4, SeatRoster DEF SeatOK
  <2> QED BY <2>1, RootedStays DEF Moves
<1>5. CASE grp[d] # None /\ grp'[d].tip.epoch = grp[d].tip.epoch + 1
  <2>1. PICK s : s = grp[d].tip.epoch
    OBVIOUS
  <2>2. s \in 0..Len(log) /\ d \in Roster(s) /\ t = s + 1 /\ Rooted(d, s)
    BY <1>1, <1>5, <2>1, SeatRoster DEF SeatOK
  <2>3. Rooted(d, s)' /\ Roster(s)' = Roster(s)
    BY <1>0, <2>2, RootedStays DEF Moves
  <2>4. ASSUME NEW m \in 1..t, Stay(d, m, t)', d \notin Roster(m - 1)'
        PROVE  log'[m].serial \in spent'[d]
    <3>1. m # t
      BY <1>0, <2>2, <2>3, <2>4 DEF Roster
    <3>2. m \in 1..s
      BY <1>0, <2>2, <3>1
    <3>3. Stay(d, m, s)'
      BY <1>0, <2>2, <2>4, <3>2 DEF Stay
    <3> QED BY <2>3, <2>4, <3>2, <3>3 DEF Rooted
  <2> QED BY <2>4 DEF Rooted
<1>6. CASE Joins(d)
  <2>1. /\ t \in 1..Len(log) /\ d \notin Roster(t - 1) /\ log[t].serial \in spent'[d]
    BY <1>1, <1>6 DEF Joins
  <2>2. PICK s : s = t - 1
    OBVIOUS
  <2>3. d \notin Roster(s)' /\ log'[t].serial \in spent'[d] /\ s \in 0..Len(log)
    BY <1>0, <2>1, <2>2
  <2>4. ASSUME NEW m \in 1..t, Stay(d, m, t)' PROVE m = t
    <3>1. CASE m \in 1..s
      <4>1. s \in m..t
        BY <1>0, <2>1, <2>2, <3>1
      <4> QED BY <2>3, <2>4, <4>1 DEF Stay
    <3> QED BY <1>0, <2>1, <2>2, <3>1
  <2> QED BY <2>3, <2>4 DEF Rooted
<1> QED BY <1>4, <1>5, <1>6 DEF Moves

\* A device that goes on, or loses its state, has left the epoch it was at.
LEMMA Leaves ==
    ASSUME StateInv, StateInv', Grows, NEW d \in Device, SeatOK(d), Moves(d), grp[d] # None,
           grp'[d] # None => grp'[d].tip.epoch = grp[d].tip.epoch + 1,
           NEW s, s = grp[d].tip.epoch
    PROVE  Left(d, s)'
<1>0. /\ Len(log) \in Nat /\ Len(log') \in Nat /\ Len(log) <= Len(log')
      /\ s \in 0..Len(log)
  BY LogLen, SeatRoster DEF StateInv, TablesOK, ServerOK, Grows
<1>1. Rooted(d, s)'
  BY <1>0, RootedStays DEF Moves, SeatOK
<1>2. ASSUME grp'[d] # None PROVE ~Stay(d, grp[d].tip.epoch, s)'
  BY <1>0, <1>2 DEF Stay
<1> QED BY <1>0, <1>1, <1>2 DEF Left

\* A device has not left the epoch it is at.
LEMMA NotLeft ==
    ASSUME StateInv, NEW d \in Device, grp[d] # None
    PROVE  ~Left(d, grp[d].tip.epoch)
BY SeatRoster DEF Left

\* A device that is left alone does not move.
LEMMA RestMoves ==
    ASSUME StateInv, NEW d \in Device, Elsewhere(d), Moves(d)
    PROVE  \A x \in Device : Moves(x)
<1>1. ASSUME NEW x \in Device, x # d PROVE Moves(x)
  <2>1. grp'[x] = grp[x] /\ spent'[x] = spent[x]
    BY <1>1 DEF Elsewhere
  <2>2. grp[x] # None => grp[x].gen \in Nat
    BY GroupClientAssumption DEF StateInv, TablesOK, ProfileOK, GroupState
  <2> QED BY <2>1, <2>2 DEF Moves
<1> QED BY <1>1

\* What is known of a sender, of a Commit's author and of an ack stays so.
LEMMA SentStays ==
    ASSUME StateInv, StateInv', Grows, \A x \in Device : Moves(x) /\ SeatOK(x),
           NEW e \in envs, SentOK(e)
    PROVE  SentOK(e)'
<1> SUFFICES ASSUME e.kind = "app"
             PROVE  \/ Left(e.by, e.commit.epoch)'
                    \/ grp'[e.by] # None /\ grp'[e.by].tip = e.commit /\ e.gen <= grp'[e.by].gen
  BY DEF SentOK
<1>1. PICK d \in Device : d = e.by
  BY DEF StateInv, TablesOK, ServerOK, Envelope
<1>2. PICK n : n = e.commit.epoch
  OBVIOUS
<1>3. SUFFICES \/ Left(d, n)'
               \/ grp'[d] # None /\ grp'[d].tip = e.commit /\ e.gen <= grp'[d].gen
  BY <1>1, <1>2 DEF Left, Rooted, Stay, Roster
<1>4. CASE Left(d, n)
  BY <1>4, LeftStays
<1>5. CASE grp[d] # None /\ grp[d].tip = e.commit /\ e.gen <= grp[d].gen
  <2>1. Moves(d) /\ SeatOK(d) /\ n = grp[d].tip.epoch
    BY <1>2, <1>5
  <2>2. CASE grp'[d] = None \/ grp'[d].tip.epoch = grp[d].tip.epoch + 1
    BY <1>5, <2>1, <2>2, Leaves
  <2>3. CASE grp'[d] # None /\ grp'[d].tip = grp[d].tip /\ grp[d].gen <= grp'[d].gen
    <3>1. grp[d].gen \in Nat /\ grp'[d].gen \in Nat /\ e.gen \in Nat
      BY <1>5, <2>3, GroupClientAssumption
         DEF StateInv, TablesOK, ProfileOK, ServerOK, GroupState, Envelope
    <3> QED BY <1>5, <2>3, <3>1
  <2> QED BY <1>5, <2>1, <2>2, <2>3 DEF Moves, Joins
<1> QED BY <1>1, <1>2, <1>4, <1>5 DEF SentOK

LEMMA OwnStays ==
    ASSUME StateInv, StateInv', Grows, \A x \in Device : Moves(x) /\ SeatOK(x),
           NEW n \in 1..Len(log), OwnOK(n), NEW d, d = log[n].by,
           rec[d] # None /\ rec[d].commit = log[n] =>
               (rec'[d] # None /\ rec'[d].commit = rec[d].commit) \/ grp[d].tip.epoch # n - 1
    PROVE  OwnOK(n)'
<1>1. d \in Device /\ log'[n] = log[n] /\ Len(log) \in Nat
  BY LogLen DEF StateInv, Commit, Grows
<1>2. PICK m : m = n - 1
  OBVIOUS
<1>3. SUFFICES \/ Left(d, m)'
               \/ /\ grp'[d] # None /\ grp'[d].tip.epoch = m
                  /\ rec'[d] # None /\ rec'[d].commit = log[n]
  BY <1>1, <1>2 DEF OwnOK, Left, Rooted, Stay, Roster
<1>4. CASE Left(d, m)
  BY <1>1, <1>4, LeftStays
<1>5. CASE /\ grp[d] # None /\ grp[d].tip.epoch = m /\ rec[d] # None /\ rec[d].commit = log[n]
  <2>1. Moves(d) /\ SeatOK(d) /\ rec'[d] # None /\ rec'[d].commit = log[n]
    BY <1>1, <1>2, <1>5
  <2>2. CASE grp'[d] = None \/ grp'[d].tip.epoch = grp[d].tip.epoch + 1
    BY <1>1, <1>5, <2>1, <2>2, Leaves
  <2>3. CASE grp'[d] # None /\ grp'[d].tip = grp[d].tip
    BY <1>5, <2>1, <2>3
  <2> QED BY <1>5, <2>1, <2>2, <2>3 DEF Moves, Joins
<1> QED BY <1>2, <1>4, <1>5 DEF OwnOK

LEMMA AckStays ==
    ASSUME StateInv, StateInv', Grows, \A x \in Device : Moves(x),
           NEW e \in envs, NEW x \in Device, AckOK(e, x), <<e.id, x>> \in acks' => <<e.id, x>> \in acks
    PROVE  AckOK(e, x)'
<1> SUFFICES ASSUME e.kind = "commit", <<e.id, x>> \in acks, e.by # x
             PROVE  Left(x, e.commit.epoch - 1)'
  BY DEF AckOK
<1>1. PICK n : n = e.commit.epoch - 1
  OBVIOUS
<1>2. Left(x, n)
  BY <1>1 DEF AckOK
<1>3. Left(x, n)'
  BY <1>2, LeftStays
<1> QED BY <1>1, <1>3 DEF Left, Rooted, Stay, Roster

LEMMA AckingStays ==
    ASSUME StateInv, StateInv', Grows, NEW x \in Device, Moves(x), AckingOK(x), cmd'[x] = cmd[x]
    PROVE  AckingOK(x)'
<1> SUFFICES ASSUME cmd[x].pc = "ack", cmd[x].arg.kind = "commit"
             PROVE  Left(x, cmd[x].arg.commit.epoch - 1)'
  BY DEF AckingOK, Left, Rooted, Stay, Roster
<1>1. PICK n : n = cmd[x].arg.commit.epoch - 1
  OBVIOUS
<1>2. Left(x, n)
  BY <1>1 DEF AckingOK
<1>3. Left(x, n)'
  BY <1>2, LeftStays
<1> QED BY <1>1, <1>3 DEF Left, Rooted, Stay, Roster

\* One more ack, by a device that has left the epoch or built the Commit.
LEMMA AckSteps ==
    ASSUME StateInv, StateInv', StayInv, Grows, \A x \in Device : Moves(x),
           NEW d \in Device, NEW e \in envs, ack(d, e),
           UNCHANGED <<log, envs, members, owed>>,
           e.kind = "commit" => e.by = d \/ Left(d, e.commit.epoch - 1)
    PROVE  \A f \in envs : GoneOK(f)' /\ \A x \in Device : AckOK(f, x)'
<1>0. acks' = acks \cup {<<e.id, d>>}
  BY DEF ack
<1>1. ASSUME NEW f \in envs, NEW x \in Device PROVE AckOK(f, x)'
  <2>1. AckOK(f, x)
    BY DEF StayInv
  <2>2. CASE <<f.id, x>> \in acks' => <<f.id, x>> \in acks
    BY <2>1, <2>2, AckStays
  <2>3. CASE f.id = e.id /\ x = d
    <3>1. f = e
      BY <2>3 DEF StayInv, IdsOK
    <3> SUFFICES ASSUME e.kind = "commit", e.by # d PROVE Left(d, e.commit.epoch - 1)'
      BY <2>3, <3>1 DEF AckOK
    <3>2. PICK n : n = e.commit.epoch - 1
      OBVIOUS
    <3>3. Left(d, n)
      BY <3>2
    <3>4. Left(d, n)'
      BY <3>3, LeftStays
    <3> QED BY <3>2, <3>4 DEF Left, Rooted, Stay, Roster
  <2> QED BY <1>0, <2>2, <2>3
<1>2. ASSUME NEW f \in envs PROVE GoneOK(f)'
  <2> SUFFICES ASSUME f.kind = "commit", f.id \in gone', NEW x \in owed[f.commit.epoch]
               PROVE  x = f.by \/ <<f.id, x>> \in acks'
    BY DEF GoneOK
  <2>1. CASE f.id \in gone
    BY <1>0, <2>1 DEF StayInv, GoneOK
  <2>2. CASE f.id \notin gone
    <3>1. f.id = e.id
      BY <2>2 DEF ack
    <3>2. f = e
      BY <3>1 DEF StayInv, IdsOK
    <3>3. f.to = NoDevice /\ InLog(f.commit)
      BY DEF StateInv, EnvOK
    <3>4. \A m \in members \ {f.by} : <<f.id, m>> \in acks'
      BY <2>2, <3>1, <3>2, <3>3, GroupClientAssumption DEF ack
    <3>5. x \in members
      BY <3>3 DEF InLog, StayInv, OwedOK
    <3> QED BY <3>4, <3>5
  <2> QED BY <2>1, <2>2
<1> QED BY <1>1, <1>2

\* A step that stores nothing.
LEMMA StayQuiet ==
    ASSUME StateInv, StateInv', StayInv, NEW d \in Device, Grows, Elsewhere(d), Moves(d),
           log' = log, envs' = envs, owed' = owed, members \subseteq members',
           FreshOK(d)', UsedOK(d)', AckingOK(d)',
           \A n \in 1..Len(log) : log[n].by = d => OwnOK(n)',
           \A f \in envs : GoneOK(f)' /\ \A x \in Device : AckOK(f, x)'
    PROVE  StayInv'
<1>1. \A x \in Device : Moves(x) /\ SeatOK(x)
  BY RestMoves DEF StayInv
<1>2. IdsOK' /\ KeysAreFresh' /\ owed' \in Seq(SUBSET Device) /\ Len(owed') = Len(log')
  BY DEF StayInv, IdsOK, KeysAreFresh
<1>3. ASSUME NEW x \in Device PROVE SeatOK(x)' /\ FreshOK(x)' /\ UsedOK(x)' /\ AckingOK(x)'
  <2>1. SeatOK(x)'
    BY <1>1, SeatStays
  <2>2. CASE x = d
    BY <2>1, <2>2
  <2>3. CASE x # d
    <3>1. cmd'[x] = cmd[x] /\ grp'[x] = grp[x] /\ rx'[x] = rx[x]
      BY <2>3 DEF Elsewhere
    <3>2. FreshOK(x) /\ UsedOK(x) /\ AckingOK(x)
      BY DEF StayInv
    <3>3. FreshOK(x)' /\ UsedOK(x)'
      BY <3>1, <3>2 DEF FreshOK, UsedOK
    <3>4. AckingOK(x)'
      BY <1>1, <3>1, <3>2, AckingStays
    <3> QED BY <2>1, <3>3, <3>4
  <2> QED BY <2>2, <2>3
<1>4. ASSUME NEW e \in envs' PROVE SentOK(e)' /\ GoneOK(e)' /\ \A x \in Device : AckOK(e, x)'
  <2>1. e \in envs /\ SentOK(e)
    BY DEF StayInv
  <2> QED BY <1>1, <2>1, SentStays
<1>5. ASSUME NEW n \in 1..Len(log') PROVE OwnOK(n)' /\ OwedOK(n)'
  <2>1. OwedOK(n)'
    BY DEF StayInv, OwedOK
  <2>2. CASE log[n].by = d
    BY <2>1, <2>2
  <2>3. CASE log[n].by # d
    <3>1. log[n].by \in Device
      BY LogLen DEF StateInv, Commit
    <3>2. rec'[log[n].by] = rec[log[n].by]
      BY <2>3, <3>1 DEF Elsewhere
    <3>3. OwnOK(n)'
      BY <1>1, <3>2, OwnStays DEF StayInv
    <3> QED BY <2>1, <3>3
  <2> QED BY <2>2, <2>3
<1> QED BY <1>2, <1>3, <1>4, <1>5 DEF StayInv

\* The receive keys a step leaves spent: none, or the ones there were.
UsedSame(d) ==
    \/ grp'[d] = None
    \/ grp'[d].used = {}
    \/ grp[d] # None /\ grp'[d].tip = grp[d].tip /\ grp'[d].used = grp[d].used

LEMMA StillMoves ==
    ASSUME StateInv, NEW d \in Device, spent[d] \subseteq spent'[d],
           \/ grp'[d] = grp[d]
           \/ /\ grp[d] # None /\ grp'[d].tip = grp[d].tip
              /\ grp'[d].gen = grp[d].gen /\ grp'[d].used = grp[d].used
    PROVE  Moves(d) /\ UsedSame(d)
<1>1. grp[d] # None => grp[d].gen \in Nat
  BY GroupClientAssumption DEF StateInv, TablesOK, ProfileOK, GroupState
<1> QED BY <1>1 DEF Moves, UsedSame

\* A step that neither encrypts nor decrypts nor applies.
LEMMA StayPlain ==
    ASSUME StateInv, StateInv', StayInv, NEW d \in Device, Elsewhere(d), Moves(d), UsedSame(d),
           UNCHANGED <<log, envs, owed>>, made <= made', members \subseteq members',
           rx[d] \subseteq rx'[d], cmd'[d].pc \notin {"sending", "ack"},
           rec[d] # None => rec'[d] # None /\ rec'[d].commit = rec[d].commit,
           \/ acks' = acks /\ gone' = gone
           \/ /\ members' = members
              /\ \E e \in envs :
                    /\ ack(d, e)
                    /\ e.kind = "commit" => e.by = d \/ Left(d, e.commit.epoch - 1)
    PROVE  StayInv'
<1>0. Grows
  BY LogLen DEF Grows, StateInv
<1>1. \A x \in Device : Moves(x) /\ SeatOK(x)
  BY RestMoves DEF StayInv
<1>2. FreshOK(d)' /\ AckingOK(d)'
  BY DEF FreshOK, AckingOK
<1>3. UsedOK(d)'
  <2>1. UsedOK(d)
    BY DEF StayInv
  <2> QED BY <2>1 DEF UsedSame, UsedOK
<1>4. ASSUME NEW n \in 1..Len(log), log[n].by = d PROVE OwnOK(n)'
  BY <1>0, <1>1, <1>4, OwnStays DEF StayInv
<1>5. \A f \in envs : GoneOK(f)' /\ \A x \in Device : AckOK(f, x)'
  <2>1. CASE acks' = acks /\ gone' = gone
    <3>1. ASSUME NEW f \in envs PROVE GoneOK(f)'
      BY <2>1 DEF StayInv, GoneOK
    <3>2. ASSUME NEW f \in envs, NEW x \in Device PROVE AckOK(f, x)'
      BY <1>0, <1>1, <2>1, AckStays DEF StayInv
    <3> QED BY <3>1, <3>2
  <2>2. CASE /\ members' = members
             /\ \E e \in envs :
                   /\ ack(d, e)
                   /\ e.kind = "commit" => e.by = d \/ Left(d, e.commit.epoch - 1)
    BY <1>0, <1>1, <2>2, AckSteps
  <2> QED BY <2>1, <2>2
<1> QED BY <1>0, <1>2, <1>3, <1>4, <1>5, StayQuiet

\* The steps of an add or remove.
LEMMA StayStage ==
    ASSUME StateInv, StateInv', StayInv, NEW d \in Device, NEW kind, NEW peer, NEW roster,
           stage(d, kind, peer, roster)
    PROVE  StayInv'
<1>0. TablesOK
  BY DEF StateInv
<1>1. /\ rec[d] = None
      /\ UNCHANGED <<log, members, envs, gone, acks, wire, owed, grp, request, spent, rx>>
      /\ made' = made + 1
  BY DEF stage, prepare_add, server
<1>2. PICK c, r : rec' = [rec EXCEPT ![d] = r] /\ cmd' = [cmd EXCEPT ![d] = Busy("staged", c)]
  BY DEF stage, Goto
<1>3. Elsewhere(d) /\ cmd'[d] = Busy("staged", c)
  BY <1>0, <1>1, <1>2 DEF TablesOK, ProfileOK, Elsewhere
<1>4. cmd'[d].pc = "staged"
  BY <1>3 DEF Busy
<1>5. Moves(d) /\ UsedSame(d)
  BY <1>1, StillMoves
<1>6. made <= made'
  BY <1>0, <1>1, LogLen
<1> QED BY <1>1, <1>3, <1>4, <1>5, <1>6, StayPlain

LEMMA StayWork ==
    ASSUME StateInv, StateInv', StayInv, NEW d \in Device,
           save_and_post(d) \/ abort(d) \/ mark_accepted(d) \/ post_member(d)
    PROVE  StayInv'
<1>0. TablesOK /\ DevOK(d)
  BY DEF StateInv
<1>1. /\ UNCHANGED <<log, members, envs, gone, acks, owed, request, spent, rx, made>>
      /\ \E pc \in Working : \E c : cmd' = [cmd EXCEPT ![d] = Busy(pc, c)]
  BY DEF save_and_post, abort, mark_accepted, post_member, Goto, server, profile, Working
<1>2. cmd'[d].pc \notin {"sending", "ack"}
  BY <1>0, <1>1 DEF TablesOK, ProfileOK, Busy, Working
<1>3. /\ cmd[d].arg \in Commit /\ rec[d] # None /\ rec[d] \in Record
      /\ grp[d] # None /\ grp[d] \in GroupState
  <2>1. cmd[d].arg \in Commit /\ rec[d] # None
    BY <1>0, WorkAt
       DEF save_and_post, abort, mark_accepted, post_member, DevOK, Working, WorkOK
  <2> QED BY <1>0, <2>1 DEF DevOK, RecOK, TablesOK, ProfileOK
<1>4. CASE save_and_post(d) \/ abort(d)
  <2>1. PICK s \in Commit \cup {None} : grp' = [grp EXCEPT ![d].staged = s] /\ rec' = rec
    BY <1>3, <1>4 DEF save_and_post, abort
  <2>2. grp'[d] = [grp[d] EXCEPT !.staged = s]
    BY <1>0, <2>1 DEF TablesOK, ProfileOK
  <2>3. grp'[d].tip = grp[d].tip /\ grp'[d].gen = grp[d].gen /\ grp'[d].used = grp[d].used
    BY <1>3, <2>1, <2>2, StagedIs
  <2>4. Moves(d) /\ UsedSame(d)
    BY <1>1, <1>3, <2>3, StillMoves
  <2>5. Elsewhere(d)
    BY <1>0, <1>1, <2>1 DEF TablesOK, ProfileOK, Elsewhere
  <2> QED BY <1>0, <1>1, <1>2, <2>1, <2>4, <2>5, LogLen, StayPlain
<1>5. CASE mark_accepted(d) \/ post_member(d)
  <2>1. /\ grp' = grp
        /\ rec' = rec \/ rec' = [rec EXCEPT ![d].accepted = (@ \/ rec[d].kind = "gadd")]
    BY <1>5 DEF mark_accepted, post_member, profile
  <2>2. rec'[d].commit = rec[d].commit /\ rec'[d] # None
    <3>1. CASE rec' = rec
      BY <1>3, <3>1
    <3>2. CASE rec' = [rec EXCEPT ![d].accepted = (@ \/ rec[d].kind = "gadd")]
      <4>1. rec'[d].commit = rec[d].commit /\ rec'[d] \in Record
        BY <1>0, <1>3, <3>2 DEF TablesOK, ProfileOK, Record
      <4> QED BY <4>1, NoneAssumption
    <3> QED BY <2>1, <3>1, <3>2
  <2>3. Moves(d) /\ UsedSame(d)
    BY <1>1, <2>1, StillMoves
  <2>4. Elsewhere(d)
    BY <1>0, <1>1, <2>1 DEF TablesOK, ProfileOK, Elsewhere
  <2> QED BY <1>0, <1>1, <1>2, <2>2, <2>3, <2>4, LogLen, StayPlain
<1> QED BY <1>4, <1>5

\* A device that merges the Commit it staged enters the next epoch.
LEMMA StayMerge ==
    ASSUME StateInv, StateInv', StayInv, NEW d \in Device, confirm(d) \/ resume(d)
    PROVE  StayInv'
<1>0. TablesOK /\ DevOK(d)
  BY DEF StateInv
<1>1. /\ UNCHANGED <<log, members, envs, gone, acks, owed, rec, request, spent, rx, made>>
      /\ \E pc \in Working : \E c : cmd' = [cmd EXCEPT ![d] = Busy(pc, c)]
  BY DEF confirm, resume, AfterMerge, Goto, server, Working
<1>2. cmd'[d].pc \notin {"sending", "ack"}
  BY <1>0, <1>1 DEF TablesOK, ProfileOK, Busy, Working
<1>3. ASSUME NEW c \in Commit, grp[d] # None, grp[d].staged = c, c # None, grp' = [grp EXCEPT ![d] = At(c)]
      PROVE  StayInv'
  <2>1. grp'[d] = At(c) /\ Elsewhere(d)
    BY <1>0, <1>1, <1>3 DEF TablesOK, ProfileOK, Elsewhere
  <2>2. grp'[d].tip = c /\ grp'[d].used = {}
    BY <2>1, AtIs
  <2>3. c.epoch = grp[d].tip.epoch + 1
    BY <1>0, <1>3 DEF DevOK, StagedOK
  <2>4. Moves(d) /\ UsedSame(d)
    BY <1>1, <1>3, <2>2, <2>3 DEF Moves, UsedSame
  <2> QED BY <1>0, <1>1, <1>2, <2>1, <2>4, LogLen, StayPlain
<1>4. CASE confirm(d)
  <2>1. cmd[d].arg \in Commit /\ WorkOK(d, "merge", cmd[d].arg)
    BY <1>0, <1>4, WorkAt DEF confirm, DevOK, Working
  <2>2. grp[d] # None /\ grp[d].staged = cmd[d].arg
    BY <1>0, <2>1 DEF WorkOK, DevOK, RecOK
  <2>3. grp' = [grp EXCEPT ![d] = At(cmd[d].arg)]
    BY <1>4 DEF confirm
  <2> QED BY <1>3, <2>1, <2>2, <2>3, NoneAssumption
<1>5. CASE resume(d)
  <2>1. grp[d] # None
    BY <1>5 DEF resume
  <2>2. CASE Behind(d)
    <3>1. grp[d].staged # None /\ grp' = [grp EXCEPT ![d] = At(grp[d].staged)]
      BY <1>5, <2>2 DEF resume, Behind
    <3>2. grp[d].staged \in Commit
      BY <1>0, <2>1, <3>1 DEF TablesOK, ProfileOK, GroupState
    <3> QED BY <1>3, <2>1, <3>1, <3>2
  <2>3. CASE ~Behind(d)
    <3>1. grp' = grp
      BY <1>5, <2>3 DEF resume
    <3>2. Moves(d) /\ UsedSame(d)
      BY <1>1, <3>1, StillMoves
    <3>3. Elsewhere(d)
      BY <1>0, <1>1, <3>1 DEF TablesOK, ProfileOK, Elsewhere
    <3> QED BY <1>0, <1>1, <1>2, <3>2, <3>3, LogLen, StayPlain
  <2> QED BY <2>2, <2>3
<1> QED BY <1>4, <1>5

LEMMA StayDrop ==
    ASSUME StateInv, StateInv', WireInv, StayInv, NEW d \in Device, drop_record(d)
    PROVE  StayInv'
<1>0. TablesOK /\ LogOK /\ DevOK(d)
  BY DEF StateInv
<1>1. PICK c : c = cmd[d].arg
  OBVIOUS
<1>2. rec[d].commit = c
  BY <1>0, <1>1, WorkAt DEF drop_record, DevOK, Working, WorkOK
<1>3. /\ UNCHANGED <<log, members, envs, gone, acks, wire, owed, grp, request, spent, rx, made>>
      /\ rec' = [rec EXCEPT ![d] = None] /\ cmd' = [cmd EXCEPT ![d] = Idle]
  BY DEF drop_record, Done, server
<1>4. Elsewhere(d) /\ cmd'[d] = Idle
  BY <1>0, <1>3 DEF TablesOK, ProfileOK, Elsewhere
<1>5. Moves(d) /\ UsedSame(d) /\ Grows
  BY <1>0, <1>3, StillMoves, LogLen DEF Grows
<1>6. \A x \in Device : Moves(x) /\ SeatOK(x)
  BY <1>4, <1>5, RestMoves DEF StayInv
<1>7. FreshOK(d)' /\ AckingOK(d)'
  BY <1>4 DEF FreshOK, AckingOK, Idle
<1>8. UsedOK(d)'
  BY <1>3 DEF StayInv, UsedOK
<1>9. ASSUME NEW n \in 1..Len(log), log[n].by = d PROVE OwnOK(n)'
  <2>1. ASSUME log[n] = c PROVE grp[d].tip.epoch # n - 1
    <3>1. InLog(c) /\ c.epoch = n
      BY <1>0, <1>9, <2>1 DEF LogOK, InLog
    <3>2. grp[d].tip.epoch = n
      BY <1>1, <3>1 DEF drop_record, WireInv, FateOK
    <3> QED BY <3>2
  <2> QED BY <1>2, <1>5, <1>6, <1>9, <2>1, OwnStays DEF StayInv
<1>10. ASSUME NEW f \in envs PROVE GoneOK(f)' /\ \A x \in Device : AckOK(f, x)'
  <2>1. GoneOK(f)'
    BY <1>3 DEF StayInv, GoneOK
  <2>2. ASSUME NEW x \in Device PROVE AckOK(f, x)'
    BY <1>3, <1>5, <1>6, AckStays DEF StayInv
  <2> QED BY <2>1, <2>2
<1> QED BY <1>3, <1>4, <1>5, <1>7, <1>8, <1>9, <1>10, StayQuiet

\* The steps of an accept, a decline and an inbox run, and the ends of commands.
LEMMA StayCalm ==
    ASSUME StateInv, StateInv', StayInv, NEW d \in Device,
           \/ commit_unknown(d) \/ keep_request(d) \/ rejoin(d) \/ accept_membership(d)
           \/ drop_request(d) \/ stop(d) \/ join_cut(d)
    PROVE  StayInv'
<1>0. TablesOK
  BY DEF StateInv
<1>1. /\ log' = log /\ Elsewhere(d) /\ rec' = rec /\ made' = made /\ owed' = owed
  BY CalmSteps
<1> USE DEF Goto, Done, Upset, server, profile
<1>2. UNCHANGED <<envs, gone, acks, grp, spent, rx>> /\ members \subseteq members'
  BY DEF commit_unknown, keep_request, rejoin, accept_membership, drop_request, stop, join_cut
<1>3. cmd'[d].pc \notin {"sending", "ack"}
  BY <1>0 DEF commit_unknown, keep_request, rejoin, accept_membership, drop_request, stop,
              join_cut, TablesOK, ProfileOK, Busy, Idle
<1>4. Moves(d) /\ UsedSame(d)
  BY <1>2, StillMoves
<1> QED BY <1>0, <1>1, <1>2, <1>3, <1>4, LogLen, StayPlain

LEMMA StayJoin ==
    ASSUME StateInv, StateInv', StayInv, NEW d \in Device, join(d)
    PROVE  StayInv'
<1>0. TablesOK /\ LogOK /\ DevOK(d)
  BY DEF StateInv
<1>1. /\ log' = log /\ Elsewhere(d) /\ rec' = rec /\ made' = made /\ owed' = owed
  BY CalmSteps
<1>2. PICK e : e = request[d]
  OBVIOUS
<1>3. PICK c : c = e.commit
  OBVIOUS
<1>4. /\ UNCHANGED <<envs, members, gone, acks, rx>> /\ grp[d] = None /\ e # None
      /\ grp' = [grp EXCEPT ![d] = At(c)]
      /\ spent' = [spent EXCEPT ![d] = spent[d] \cup {c.serial}]
      /\ cmd' = [cmd EXCEPT ![d] = Busy("joined", e)]
      /\ c.serial \notin spent[d]
  BY <1>0, <1>2, <1>3 DEF join, Joinable, Goto, server, TablesOK, ProfileOK
<1>5. e \in envs /\ e.kind = "welcome" /\ e.to = d
  BY <1>0, <1>2, <1>4 DEF DevOK, ReqOK
<1>6. c \in Commit /\ InLog(c) /\ d \notin Roster(c.epoch - 1)
  BY <1>0, <1>3, <1>5 DEF StateInv, EnvOK, TablesOK, ServerOK, Envelope
<1>7. grp'[d] = At(c) /\ spent'[d] = spent[d] \cup {c.serial} /\ cmd'[d] = Busy("joined", e)
  BY <1>0, <1>4 DEF TablesOK, ProfileOK
<1>8. grp'[d].tip = c /\ grp'[d].used = {} /\ cmd'[d].pc = "joined"
  BY <1>6, <1>7, AtIs DEF Busy
<1>9. Joins(d)
  BY <1>4, <1>6, <1>7, <1>8 DEF Joins, InLog
<1>10. Moves(d) /\ UsedSame(d)
  BY <1>7, <1>8, <1>9 DEF Moves, UsedSame
<1>11. cmd'[d].pc \notin {"sending", "ack"}
  BY <1>8
<1> QED BY <1>0, <1>1, <1>4, <1>10, <1>11, LogLen, StayPlain

LEMMA StayAcks ==
    ASSUME StateInv, StateInv', StayInv, NEW d \in Device,
           ack_welcome(d) \/ decline(d) \/ decline_cut(d) \/ drop_echo(d) \/ ack_used(d)
    PROVE  StayInv'
<1>0. TablesOK /\ DevOK(d)
  BY DEF StateInv
<1>1. /\ log' = log /\ Elsewhere(d) /\ rec' = rec /\ made' = made /\ owed' = owed
  BY CalmSteps
<1>2. /\ UNCHANGED <<envs, members, grp, rx>> /\ spent[d] \subseteq spent'[d]
  BY <1>0 DEF ack_welcome, decline, decline_cut, drop_echo, ack_used, profile, TablesOK, ProfileOK
<1>3. cmd'[d].pc \notin {"sending", "ack"}
  BY <1>0 DEF ack_welcome, decline, decline_cut, drop_echo, ack_used, Goto, Done, Upset, TablesOK,
              ProfileOK, Busy, Idle
<1>4. Moves(d) /\ UsedSame(d)
  BY <1>2, StillMoves
<1>5. \/ acks' = acks /\ gone' = gone
      \/ \E e \in envs :
            /\ ack(d, e)
            /\ e.kind = "commit" => e.by = d \/ Left(d, e.commit.epoch - 1)
  <2>1. CASE ack_welcome(d)
    <3>1. cmd[d].arg \in envs /\ cmd[d].arg.kind = "welcome"
      BY <1>0, <2>1, TakeAt DEF ack_welcome, DevOK, Joining, TakeOK
    <3> QED BY <2>1, <3>1 DEF ack_welcome
  <2>2. CASE decline(d) \/ decline_cut(d)
    <3>1. request[d] \in envs /\ request[d].kind = "welcome"
      BY <1>0, <2>2 DEF decline, decline_cut, DevOK, ReqOK
    <3> QED BY <2>2, <3>1 DEF decline, decline_cut
  <2>3. CASE drop_echo(d)
    BY <2>3 DEF drop_echo, Echo, Usable, find_pending
  <2>4. CASE ack_used(d)
    <3>1. cmd[d].arg \in envs
      BY <1>0, <2>4, TakeAt DEF ack_used, DevOK
    <3> QED BY <2>4, <3>1 DEF ack_used, StayInv, AckingOK
  <2> QED BY <2>1, <2>2, <2>3, <2>4
<1> QED BY <1>0, <1>1, <1>2, <1>3, <1>4, <1>5, LogLen, StayPlain

LEMMA StayPutRx ==
    ASSUME StateInv, StateInv', StayInv, NEW d \in Device, put_rx(d)
    PROVE  StayInv'
<1>0. TablesOK
  BY DEF StateInv
<1>1. /\ log' = log /\ Elsewhere(d) /\ rec' = rec /\ made' = made /\ owed' = owed
  BY CalmSteps
<1>2. PICK e : rx' = [rx EXCEPT ![d] = @ \cup {e.id}] /\ cmd' = [cmd EXCEPT ![d] = Busy("ratchet", e)]
  BY DEF put_rx, Goto
<1>3. UNCHANGED <<envs, members, gone, acks, grp, spent>>
  BY DEF put_rx, server
<1>4. cmd'[d].pc \notin {"sending", "ack"} /\ rx[d] \subseteq rx'[d]
  BY <1>0, <1>2 DEF TablesOK, ProfileOK, Busy
<1>5. Moves(d) /\ UsedSame(d)
  BY <1>3, StillMoves
<1> QED BY <1>0, <1>1, <1>3, <1>4, <1>5, LogLen, StayPlain

-----------------------------------------------------------------------------
\* The steps that use keys.  What they leave alone is as in StayPlain.
LEMMA StayKeys ==
    ASSUME StateInv, StateInv', StayInv, NEW d \in Device, Elsewhere(d), Moves(d),
           UNCHANGED <<log, envs, owed, members, acks, gone, rec, made>>,
           FreshOK(d)', UsedOK(d)', AckingOK(d)'
    PROVE  StayInv'
<1>0. Grows
  BY LogLen DEF Grows, StateInv
<1>1. \A x \in Device : Moves(x) /\ SeatOK(x)
  BY RestMoves DEF StayInv
<1>2. ASSUME NEW n \in 1..Len(log), log[n].by = d PROVE OwnOK(n)'
  BY <1>0, <1>1, <1>2, OwnStays DEF StayInv
<1>3. ASSUME NEW f \in envs PROVE GoneOK(f)' /\ \A x \in Device : AckOK(f, x)'
  <2>1. GoneOK(f)'
    BY DEF StayInv, GoneOK
  <2>2. ASSUME NEW x \in Device PROVE AckOK(f, x)'
    BY <1>0, <1>1, AckStays DEF StayInv
  <2> QED BY <2>1, <2>2
<1> QED BY <1>0, <1>2, <1>3, StayQuiet

\* The generation a message is encrypted under was never used in this epoch.
LEMMA StayEncrypt ==
    ASSUME StateInv, StateInv', StayInv, NEW d \in Device, encrypt(d)
    PROVE  StayInv'
<1>0. TablesOK /\ DevOK(d)
  BY DEF StateInv
<1>1. /\ log' = log /\ Elsewhere(d) /\ rec' = rec /\ made' = made /\ owed' = owed
  BY CalmSteps
<1>2. /\ UNCHANGED <<envs, members, gone, acks, spent, rx>> /\ grp[d] # None
      /\ grp' = [grp EXCEPT ![d].gen = @ + 1]
      /\ cmd' = [cmd EXCEPT ![d] = Busy("sending", [commit |-> grp[d].tip, gen |-> grp[d].gen + 1])]
  BY DEF encrypt, Goto, server
<1>3. grp[d] \in GroupState /\ grp[d].gen \in Nat
  BY <1>0, <1>2, GroupClientAssumption DEF TablesOK, ProfileOK, GroupState
<1>4. grp'[d].tip = grp[d].tip /\ grp'[d].gen = grp[d].gen + 1 /\ grp'[d].used = grp[d].used
  BY <1>0, <1>2, <1>3 DEF TablesOK, ProfileOK, GroupState
<1>5. Moves(d)
  BY <1>2, <1>3, <1>4 DEF Moves
<1>6. FreshOK(d)'
  <2>1. ASSUME NEW e \in envs, e.kind = "app", e.by = d, e.commit = grp[d].tip
        PROVE  e.gen < grp[d].gen + 1
    <3>1. e.gen <= grp[d].gen
      BY <1>2, <2>1, NotLeft DEF StayInv, SentOK
    <3>2. e.gen \in Nat
      BY <1>0, <2>1, GroupClientAssumption DEF TablesOK, ServerOK, Envelope
    <3> QED BY <1>3, <3>1, <3>2
  <2> QED BY <1>2, <1>4, <2>1 DEF FreshOK
<1>7. UsedOK(d)'
  BY <1>2, <1>4 DEF StayInv, UsedOK
<1>8. AckingOK(d)'
  BY <1>0, <1>2 DEF TablesOK, ProfileOK, Busy, AckingOK
<1> QED BY <1>1, <1>2, <1>5, <1>6, <1>7, <1>8, StayKeys

LEMMA StayApply ==
    ASSUME StateInv, StateInv', StayInv, NEW d \in Device, apply(d)
    PROVE  StayInv'
<1>0. TablesOK /\ DevOK(d)
  BY DEF StateInv
<1>1. /\ log' = log /\ Elsewhere(d) /\ rec' = rec /\ made' = made /\ owed' = owed
  BY CalmSteps
<1>2. PICK e \in Usable(d) :
          /\ Applies(d, e)
          /\ grp' = [grp EXCEPT ![d] = IF d \in e.commit.roster THEN At(e.commit) ELSE None]
          /\ cmd' = [cmd EXCEPT ![d] = Busy("ack", e)]
  BY DEF apply, Goto
<1>3. UNCHANGED <<envs, members, gone, acks, spent, rx>>
  BY DEF apply, server
<1>4. PICK c : c = e.commit
  OBVIOUS
<1>5. c \in Commit /\ grp[d] # None /\ c.epoch = grp[d].tip.epoch + 1
  BY <1>0, <1>2, <1>4
     DEF Applies, Usable, find_pending, TablesOK, ServerOK, Envelope
<1>6. /\ grp'[d] = At(c) \/ grp'[d] = None
      /\ cmd'[d] = Busy("ack", e)
  BY <1>0, <1>2, <1>4 DEF TablesOK, ProfileOK
<1>7. grp'[d] # None => grp'[d].tip = c /\ grp'[d].used = {}
  BY <1>5, <1>6, AtIs
<1>8. Moves(d) /\ Grows
  BY <1>0, <1>1, <1>3, <1>5, <1>7, LogLen DEF Moves, Grows
<1>9. PICK s : s = grp[d].tip.epoch
  OBVIOUS
<1>10. Left(d, s)'
  BY <1>5, <1>7, <1>8, <1>9, Leaves DEF StayInv
<1>11. cmd'[d].pc = "ack" /\ cmd'[d].arg = e
  BY <1>6 DEF Busy
<1>12. s = e.commit.epoch - 1
  BY <1>4, <1>5, <1>9, SeatRoster
<1>13. AckingOK(d)'
  BY <1>10, <1>11, <1>12 DEF AckingOK, Left, Rooted, Stay, Roster
<1>14. FreshOK(d)' /\ UsedOK(d)'
  BY <1>7, <1>11 DEF FreshOK, UsedOK
<1> QED BY <1>1, <1>3, <1>8, <1>13, <1>14, StayKeys

\* The key is spent once the plaintext is on disk.
LEMMA StayRatchet ==
    ASSUME StateInv, StateInv', StayInv, NEW d \in Device, save_ratchet(d)
    PROVE  StayInv'
<1>0. TablesOK /\ DevOK(d)
  BY DEF StateInv
<1>1. /\ log' = log /\ Elsewhere(d) /\ rec' = rec /\ made' = made /\ owed' = owed
  BY CalmSteps
<1>2. PICK e : e = cmd[d].arg
  OBVIOUS
<1>3. /\ e \in envs /\ e.kind = "app" /\ grp[d] # None /\ e.commit = grp[d].tip /\ e.id \in rx[d]
  BY <1>0, <1>2, TakeAt DEF save_ratchet, DevOK, TakeOK
<1>4. /\ UNCHANGED <<envs, members, gone, acks, spent, rx>>
      /\ grp' = [grp EXCEPT ![d].used = @ \cup {<<e.by, e.gen>>}]
      /\ cmd' = [cmd EXCEPT ![d] = Busy("ack", e)]
  BY <1>2 DEF save_ratchet, Goto, server
<1>5. PICK p : p = <<e.by, e.gen>>
  OBVIOUS
<1>6. p \in Device \X (1..MaxSends) /\ p[1] = e.by /\ p[2] = e.gen /\ grp[d] \in GroupState
  BY <1>0, <1>3, <1>5, GroupClientAssumption
     DEF StateInv, EnvOK, TablesOK, ServerOK, ProfileOK, Envelope
<1>7. grp'[d] = [grp[d] EXCEPT !.used = @ \cup {p}]
  BY <1>0, <1>4, <1>5 DEF TablesOK, ProfileOK
<1>8. grp'[d].tip = grp[d].tip /\ grp'[d].gen = grp[d].gen /\ grp'[d].used = grp[d].used \cup {p}
  BY <1>6, <1>7, UsedIs
<1>9. Moves(d)
  BY <1>3, <1>4, <1>6, <1>8, GroupClientAssumption DEF Moves, GroupState
<1>10. UsedOK(d)'
  <2>1. ASSUME NEW q \in grp[d].used \cup {p}
        PROVE  \E f \in envs : /\ f.kind = "app" /\ f.by = q[1] /\ f.gen = q[2]
                               /\ f.commit = grp[d].tip /\ f.id \in rx[d]
    <3>1. CASE q = p
      BY <1>3, <1>6, <3>1
    <3>2. CASE q \in grp[d].used
      BY <1>3, <3>2 DEF StayInv, UsedOK
    <3> QED BY <3>1, <3>2
  <2> QED BY <1>4, <1>8, <2>1 DEF UsedOK
<1>11. cmd'[d].pc = "ack" /\ cmd'[d].arg = e
  BY <1>0, <1>4 DEF TablesOK, ProfileOK, Busy
<1>12. FreshOK(d)' /\ AckingOK(d)'
  BY <1>3, <1>11 DEF FreshOK, AckingOK
<1> QED BY <1>1, <1>4, <1>9, <1>10, <1>12, StayKeys

-----------------------------------------------------------------------------
\* The steps that store an envelope: its id is new, so nobody has acked it.
LEMMA NewId ==
    ASSUME StateInv, IdsOK, NEW e, envs' = envs \cup {e}, e.id = Cardinality(envs) + 1
    PROVE  /\ \A f \in envs : f.id < e.id
           /\ e \notin envs /\ IdsOK'
           /\ e.id \notin gone /\ \A x : <<e.id, x>> \notin acks
<1>0. /\ ServerOK /\ Cardinality(envs) \in Nat
      /\ e \notin envs => Cardinality(envs') = Cardinality(envs) + 1
  BY StoreIs DEF StateInv, TablesOK
<1>1. ASSUME NEW f \in envs PROVE f.id < e.id /\ f.id \in Nat
  BY <1>0, <1>1 DEF IdsOK, ServerOK, Envelope
<1>2. e \notin envs
  BY <1>0, <1>1
<1>3. e.id \notin Ids
  BY <1>0, <1>1 DEF Ids
<1>4. IdsOK'
  <2>1. ASSUME NEW f \in envs' PROVE f.id <= Cardinality(envs')
    BY <1>0, <1>1, <1>2, <2>1
  <2>2. ASSUME NEW f \in envs', NEW g \in envs', f.id = g.id PROVE f = g
    BY <1>0, <1>1, <2>2 DEF IdsOK
  <2> QED BY <2>1, <2>2 DEF IdsOK
<1> QED BY <1>0, <1>1, <1>2, <1>3, <1>4 DEF ServerOK

LEMMA StayStore ==
    ASSUME StateInv, StateInv', StayInv, Grows, NEW d \in Device,
           NEW e, envs' = envs \cup {e}, e.id = Cardinality(envs) + 1,
           UNCHANGED <<members, gone, acks, grp, rec, spent, rx>>,
           owed' \in Seq(SUBSET Device), Len(owed') = Len(log'),
           \A n \in 1..Len(log) : owed'[n] = owed[n],
           \A x \in Device : cmd'[x] = cmd[x] \/ cmd'[x].pc \notin {"sending", "ack"},
           e.kind = "app" =>
               /\ e.by = d /\ cmd'[d].pc # "sending" /\ SentOK(e)'
               /\ \A f \in envs : f.kind = "app" /\ f.by = d /\ f.commit = e.commit => f.gen # e.gen,
           \A n \in 1..Len(log') : n \notin 1..Len(log) => OwnOK(n)' /\ OwedOK(n)'
    PROVE  StayInv'
<1>0. /\ IdsOK' /\ e \notin envs /\ e.id \notin gone /\ \A x : <<e.id, x>> \notin acks
  BY NewId DEF StayInv
<1>1. \A x \in Device : Moves(x) /\ SeatOK(x)
  BY StillMoves DEF StayInv
<1>2. KeysAreFresh'
  <2>1. ASSUME NEW f \in envs', NEW g \in envs', f.kind = "app", g.kind = "app", f.by = g.by,
               f.commit = g.commit, f.gen = g.gen
        PROVE  f = g
    BY <2>1 DEF StayInv, KeysAreFresh
  <2> QED BY <2>1 DEF KeysAreFresh
<1>3. ASSUME NEW x \in Device PROVE SeatOK(x)' /\ FreshOK(x)' /\ UsedOK(x)' /\ AckingOK(x)'
  <2>1. SeatOK(x)'
    BY <1>1, SeatStays
  <2>2. FreshOK(x)'
    BY <1>3 DEF StayInv, FreshOK
  <2>3. UsedOK(x)'
    BY DEF StayInv, UsedOK
  <2>4. AckingOK(x)'
    <3>1. CASE cmd'[x] = cmd[x]
      BY <1>1, <3>1, AckingStays DEF StayInv
    <3>2. CASE cmd'[x].pc \notin {"sending", "ack"}
      BY <3>2 DEF AckingOK
    <3> QED BY <3>1, <3>2
  <2> QED BY <2>1, <2>2, <2>3, <2>4
<1>4. ASSUME NEW f \in envs PROVE SentOK(f)' /\ GoneOK(f)' /\ \A x \in Device : AckOK(f, x)'
  <2>1. SentOK(f)'
    BY <1>1, SentStays DEF StayInv
  <2>2. GoneOK(f)'
    <3>1. f.kind = "commit" => f.commit.epoch \in 1..Len(log)
      BY DEF StateInv, EnvOK, InLog
    <3> QED BY <3>1 DEF StayInv, GoneOK
  <2>3. ASSUME NEW x \in Device PROVE AckOK(f, x)'
    BY <1>1, AckStays DEF StayInv
  <2> QED BY <2>1, <2>2, <2>3
<1>5. SentOK(e)' /\ GoneOK(e)' /\ \A x \in Device : AckOK(e, x)'
  <2>1. GoneOK(e)'
    BY <1>0 DEF GoneOK
  <2>2. ASSUME NEW x \in Device PROVE AckOK(e, x)'
    BY <1>0 DEF AckOK
  <2>3. SentOK(e)'
    <3>1. CASE e.kind = "app"
      BY <3>1
    <3>2. CASE e.kind # "app"
      BY <3>2 DEF SentOK
    <3> QED BY <3>1, <3>2
  <2> QED BY <2>1, <2>2, <2>3
<1>6. ASSUME NEW n \in 1..Len(log) PROVE OwnOK(n)' /\ OwedOK(n)'
  <2>1. OwnOK(n)'
    BY <1>1, OwnStays DEF StayInv
  <2>2. OwedOK(n)'
    BY DEF StayInv, OwedOK, Grows
  <2> QED BY <2>1, <2>2
<1> QED BY <1>0, <1>2, <1>3, <1>4, <1>5, <1>6 DEF StayInv

LEMMA StayWelcome ==
    ASSUME StateInv, StateInv', StayInv, NEW d \in Device, send_welcome(d)
    PROVE  StayInv'
<1>0. TablesOK
  BY DEF StateInv
<1>1. PICK e : e = [id |-> Cardinality(envs) + 1, kind |-> "welcome", by |-> d,
                  to |-> rec[d].peer, commit |-> rec[d].commit, gen |-> 0]
  OBVIOUS
<1>2. /\ envs' = envs \cup {e}
      /\ cmd' = [cmd EXCEPT ![d] = Busy("drop", cmd[d].arg)]
      /\ UNCHANGED <<log, members, gone, acks, owed, grp, rec, spent, rx, made>>
  BY <1>1 DEF send_welcome, Store, Goto, profile
<1>3. e.id = Cardinality(envs) + 1 /\ e.kind = "welcome"
  BY <1>1
<1>4. \A x \in Device : cmd'[x] = cmd[x] \/ cmd'[x].pc \notin {"sending", "ack"}
  BY <1>0, <1>2 DEF TablesOK, ProfileOK, Busy
<1>5. Grows
  BY <1>0, <1>2, LogLen DEF Grows
<1>6. /\ owed' \in Seq(SUBSET Device) /\ Len(owed') = Len(log')
      /\ \A n \in 1..Len(log) : owed'[n] = owed[n]
  BY <1>2 DEF StayInv
<1> QED BY <1>2, <1>3, <1>4, <1>5, <1>6, StayStore

LEMMA StaySend ==
    ASSUME StateInv, StateInv', StayInv, NEW d \in Device, send_application(d)
    PROVE  StayInv'
<1>0. TablesOK /\ DevOK(d)
  BY DEF StateInv
<1>1. /\ grp[d] # None /\ grp[d].gen > 0
      /\ cmd[d].arg.commit = grp[d].tip /\ cmd[d].arg.gen = grp[d].gen
  BY <1>0, SendAt DEF send_application, DevOK
<1>2. PICK e : e = [id |-> Cardinality(envs) + 1, kind |-> "app", by |-> d,
                  to |-> NoDevice, commit |-> grp[d].tip, gen |-> grp[d].gen]
  OBVIOUS
<1>3. /\ envs' = envs \cup {e}
      /\ cmd' = [cmd EXCEPT ![d] = Idle]
      /\ UNCHANGED <<log, members, gone, acks, owed, grp, rec, spent, rx, made>>
  BY <1>1, <1>2 DEF send_application, Store, Done, profile
<1>4. /\ e.id = Cardinality(envs) + 1 /\ e.by = d /\ e.commit = grp[d].tip /\ e.gen = grp[d].gen
  BY <1>2
<1>5. cmd'[d].pc = "idle" /\ \A x \in Device : cmd'[x] = cmd[x] \/ cmd'[x].pc \notin {"sending", "ack"}
  BY <1>0, <1>3 DEF TablesOK, ProfileOK, Idle
<1>6. Grows
  BY <1>0, <1>3, LogLen DEF Grows
<1>7. /\ owed' \in Seq(SUBSET Device) /\ Len(owed') = Len(log')
      /\ \A n \in 1..Len(log) : owed'[n] = owed[n]
  BY <1>3 DEF StayInv
<1>8. grp[d].gen \in Nat
  BY <1>0, <1>1, GroupClientAssumption DEF TablesOK, ProfileOK, GroupState
<1>9. SentOK(e)'
  BY <1>1, <1>3, <1>4, <1>8 DEF SentOK
<1>10. ASSUME NEW f \in envs, f.kind = "app", f.by = d, f.commit = e.commit PROVE f.gen # e.gen
  BY <1>4, <1>8, <1>10 DEF send_application, StayInv, FreshOK
<1> QED BY <1>3, <1>4, <1>5, <1>6, <1>7, <1>9, <1>10, StayStore

\* An accepted Commit: its author is at the epoch before and has the record, and
\* everybody who is a member now is owed it.
LEMMA StayAccepted ==
    ASSUME StateInv, StateInv', WireInv, StayInv, NEW c \in wire, commit_accepted(c)
    PROVE  StayInv'
<1>0. TablesOK /\ c \in Commit /\ WireOK(c) /\ Len(log) \in Nat
  BY LogLen DEF StateInv, WireInv, TablesOK, ServerOK
<1>1. PICK d \in Device : d = c.by
  BY <1>0 DEF Commit
<1>2. PICK e : e = [id |-> Cardinality(envs) + 1, kind |-> "commit", by |-> c.by,
                  to |-> NoDevice, commit |-> c, gen |-> 0]
  OBVIOUS
<1>3. /\ envs' = envs \cup {e}
      /\ log' = Append(log, c) /\ owed' = Append(owed, members)
      /\ c.epoch = Len(log) + 1 /\ Answer(c, "accepted")
      /\ UNCHANGED <<members, gone, acks, grp, rec, spent, rx, made>>
  BY <1>2 DEF commit_accepted, Store, profile
<1>4. e.id = Cardinality(envs) + 1 /\ e.kind = "commit" /\ e.commit = c
  BY <1>2
<1>5. ASSUME NEW x \in Device PROVE cmd'[x] = cmd[x] \/ cmd'[x].pc \notin {"sending", "ack"}
  <2>1. cmd'[x] = cmd[x] \/ cmd'[x] = Busy("accepted", c)
    BY <1>0, <1>1, <1>3, AnswerIs DEF TablesOK, ProfileOK
  <2> QED BY <2>1 DEF Busy
<1>6. /\ Len(log') = Len(log) + 1 /\ log'[Len(log) + 1] = c
      /\ \A n \in 1..Len(log) : log'[n] = log[n]
  BY <1>0, <1>3 DEF TablesOK, ServerOK
<1>7. Grows
  BY <1>0, <1>3, <1>6, LogLen DEF Grows
<1>8. /\ owed' \in Seq(SUBSET Device) /\ Len(owed') = Len(log')
      /\ owed'[Len(log) + 1] = members
      /\ \A n \in 1..Len(log) : owed'[n] = owed[n]
  <2>1. owed \in Seq(SUBSET Device) /\ Len(owed) = Len(log) /\ members \in SUBSET Device
    BY <1>0 DEF StayInv, TablesOK, ServerOK
  <2> QED BY <1>0, <1>3, <1>6, <2>1
<1>9. /\ rec[d] # None /\ rec[d].commit = c /\ grp[d].staged = c
      /\ grp[d] # None /\ grp[d].tip.epoch + 1 = c.epoch
  <2>1. rec[d] # None /\ rec[d].commit = c /\ grp[d].staged = c
    BY <1>0, <1>1 DEF WireOK
  <2>2. grp[d] # None /\ grp[d].staged # None
    BY <1>0, <2>1, NoneAssumption DEF StateInv, DevOK, RecOK
  <2> QED BY <2>1, <2>2 DEF StateInv, DevOK, StagedOK
<1>10. ASSUME NEW n \in 1..Len(log'), n \notin 1..Len(log) PROVE OwnOK(n)' /\ OwedOK(n)'
  <2>1. n = Len(log) + 1
    BY <1>0, <1>6, <1>10
  <2>2. grp[d].tip.epoch = n - 1
    BY <1>0, <1>3, <1>9, <2>1, SeatRoster
  <2>3. OwnOK(n)'
    BY <1>1, <1>3, <1>6, <1>9, <2>1, <2>2 DEF OwnOK
  <2>4. OwedOK(n)'
    BY <1>3, <1>4, <1>6, <1>8, <2>1 DEF OwedOK
  <2> QED BY <2>3, <2>4
<1> QED BY <1>3, <1>4, <1>5, <1>7, <1>8, <1>10, StayStore

LEMMA StayRefused ==
    ASSUME StateInv, StateInv', StayInv, NEW c \in wire, commit_refused(c)
    PROVE  StayInv'
<1>0. TablesOK /\ c \in Commit
  BY DEF StateInv, TablesOK, ServerOK
<1>1. PICK d \in Device : d = c.by
  BY <1>0 DEF Commit
<1>2. /\ Answer(c, "rejected")
      /\ UNCHANGED <<log, envs, members, gone, acks, owed, grp, rec, request, spent, rx, made>>
  BY DEF commit_refused, profile
<1>3. PICK f : cmd' = [cmd EXCEPT ![d] = f]
  BY <1>0, <1>1, <1>2, AnswerIs
<1>4. Elsewhere(d)
  BY <1>0, <1>2, <1>3 DEF TablesOK, ProfileOK, Elsewhere
<1>5. Moves(d) /\ Grows
  BY <1>0, <1>2, StillMoves, LogLen DEF Grows
<1>6. cmd'[d] = cmd[d] \/ cmd'[d] = Busy("rejected", c)
  BY <1>0, <1>1, <1>2, AnswerIs DEF TablesOK, ProfileOK
<1>7. FreshOK(d)' /\ AckingOK(d)'
  <2>1. CASE cmd'[d] = cmd[d]
    <3>1. FreshOK(d)'
      BY <1>2, <2>1 DEF StayInv, FreshOK
    <3>2. AckingOK(d)'
      BY <1>5, <2>1, AckingStays DEF StayInv
    <3> QED BY <3>1, <3>2
  <2>2. CASE cmd'[d] = Busy("rejected", c)
    BY <2>2 DEF Busy, FreshOK, AckingOK
  <2> QED BY <1>6, <2>1, <2>2
<1>8. UsedOK(d)'
  BY <1>2 DEF StayInv, UsedOK
<1> QED BY <1>2, <1>4, <1>5, <1>7, <1>8, StayKeys

LEMMA StayInit == Init => StayInv
<1> SUFFICES ASSUME Init PROVE StayInv
  OBVIOUS
<1>0. Genesis.epoch = 0 /\ Len(log) = 0
  BY DEF Init, Genesis
<1>1. At(Genesis).tip.epoch = 0 /\ At(Genesis).used = {}
  BY <1>0 DEF At
<1>2. IdsOK /\ KeysAreFresh /\ owed \in Seq(SUBSET Device) /\ Len(owed) = Len(log)
  BY DEF Init, IdsOK, KeysAreFresh
<1>3. ASSUME NEW d \in Device PROVE SeatOK(d) /\ FreshOK(d) /\ UsedOK(d) /\ AckingOK(d)
  <2>1. cmd[d].pc = "idle"
    BY DEF Init, Idle
  <2>2. grp[d] # None => grp[d].tip.epoch = 0 /\ grp[d].used = {}
    BY <1>1 DEF Init
  <2>3. SeatOK(d)
    BY <2>2 DEF SeatOK, Rooted
  <2>4. UsedOK(d)
    BY <2>2 DEF UsedOK
  <2> QED BY <2>1, <2>3, <2>4 DEF FreshOK, AckingOK
<1>4. envs = {}
  BY DEF Init
<1> QED BY <1>0, <1>2, <1>3, <1>4 DEF StayInv

LEMMA StayStutter == ASSUME StayInv, UNCHANGED vars PROVE StayInv'
<1>1. UNCHANGED <<log, members, envs, gone, acks, owed, grp, rec, spent, rx, cmd>>
  BY DEF vars, server, profile
<1>2. IdsOK' /\ KeysAreFresh' /\ owed' \in Seq(SUBSET Device) /\ Len(owed') = Len(log')
  BY <1>1 DEF StayInv, IdsOK, KeysAreFresh
<1>3. ASSUME NEW d \in Device PROVE SeatOK(d)' /\ FreshOK(d)' /\ UsedOK(d)' /\ AckingOK(d)'
  BY <1>1 DEF StayInv, SeatOK, FreshOK, UsedOK, AckingOK, Left, Rooted, Stay, Roster
<1>4. ASSUME NEW e \in envs PROVE SentOK(e)' /\ GoneOK(e)' /\ \A d \in Device : AckOK(e, d)'
  BY <1>1 DEF StayInv, SentOK, GoneOK, AckOK, Left, Rooted, Stay, Roster
<1>5. ASSUME NEW n \in 1..Len(log) PROVE OwnOK(n)' /\ OwedOK(n)'
  BY <1>1 DEF StayInv, OwnOK, OwedOK, Left, Rooted, Stay, Roster
<1> QED BY <1>1, <1>2, <1>3, <1>4, <1>5 DEF StayInv

LEMMA StayNext ==
    ASSUME StateInv, StateInv', WireInv, StayInv, [Next]_vars
    PROVE  StayInv'
<1>1. CASE UNCHANGED vars
  BY <1>1, StayStutter
<1>2. ASSUME NEW c \in wire, commit_accepted(c) \/ commit_refused(c) PROVE StayInv'
  BY <1>2, StayAccepted, StayRefused
<1>3. ASSUME NEW d \in Device, NEW peer \in Device, add(d, peer) \/ remove(d, peer)
      PROVE  StayInv'
  BY <1>3, StayStage DEF add, remove
<1>4. ASSUME NEW d \in Device,
             \/ save_and_post(d) \/ commit_unknown(d)
             \/ mark_accepted(d) \/ confirm(d) \/ abort(d) \/ drop_record(d)
             \/ post_member(d) \/ send_welcome(d) \/ resume(d)
      PROVE  StayInv'
  BY <1>4, StayWork, StayCalm, StayMerge, StayDrop, StayWelcome
<1>5. ASSUME NEW d \in Device,
             \/ keep_request(d) \/ join(d) \/ join_cut(d) \/ rejoin(d) \/ ack_welcome(d)
             \/ accept_membership(d) \/ drop_request(d) \/ decline(d) \/ decline_cut(d)
      PROVE  StayInv'
  BY <1>5, StayCalm, StayJoin, StayAcks
<1>6. ASSUME NEW d \in Device,
             \/ encrypt(d) \/ send_application(d) \/ drop_echo(d) \/ apply(d) \/ put_rx(d)
             \/ save_ratchet(d) \/ ack_used(d) \/ stop(d)
      PROVE  StayInv'
  BY <1>6, StayEncrypt, StaySend, StayAcks, StayApply, StayPutRx, StayRatchet, StayCalm
<1> QED BY <1>1, <1>2, <1>3, <1>4, <1>5, <1>6 DEF Next

LEMMA Invariance == Spec => [](StateInv /\ WireInv /\ StayInv)
<1>1. Init => StateInv /\ WireInv /\ StayInv
  BY StateInit, WireInit, StayInit
<1>2. StateInv /\ WireInv /\ StayInv /\ [Next]_vars => StateInv' /\ WireInv' /\ StayInv'
  <2> SUFFICES ASSUME StateInv, WireInv, StayInv, [Next]_vars
               PROVE  StateInv' /\ WireInv' /\ StayInv'
    OBVIOUS
  <2>1. StateInv'
    BY StateNext DEF WireInv
  <2> QED BY <2>1, WireNext, StayNext
<1> QED BY <1>1, <1>2, PTL DEF Spec

\* A device behind the ledger does not lose its next Commit: the one that makes its
\* next epoch is in its queue, or it built that Commit and its record still has it.
\* Only a device that was not a member when the Commit was stored is left out.
THEOREM NobodyIsStranded == Spec => []NotStranded
<1>1. StateInv /\ StayInv => NotStranded
  <2> SUFFICES ASSUME StateInv, StayInv, NEW d \in Device, grp[d] # None,
                      grp[d].tip.epoch < Len(log), NEW n, n = grp[d].tip.epoch + 1,
                      d \in owed[n], ~(log[n].by = d /\ rec[d] # None /\ rec[d].commit = log[n])
               PROVE  \E e \in find_pending(d) : e.kind = "commit" /\ e.commit = log[n]
    BY DEF NotStranded
  <2>1. n \in 1..Len(log) /\ n - 1 = grp[d].tip.epoch /\ ~Left(d, n - 1)
    <3>1. PICK m : m = grp[d].tip.epoch
      OBVIOUS
    <3>2. m \in 0..Len(log) /\ Len(log) \in Nat /\ ~Left(d, m)
      BY <3>1, NotLeft, SeatRoster
    <3>3. n \in 1..Len(log) /\ n - 1 = m
      BY <3>1, <3>2
    <3> QED BY <3>1, <3>2, <3>3
  <2>2. OwnOK(n) /\ OwedOK(n) /\ log[n].epoch = n
    BY <2>1 DEF StayInv, StateInv, LogOK
  <2>3. log[n].by # d
    BY <2>1, <2>2 DEF OwnOK
  <2>4. PICK e \in envs : e.kind = "commit" /\ e.commit = log[n]
    BY <2>2 DEF OwedOK
  <2>5. e.by = log[n].by /\ e.to = NoDevice
    BY <2>4 DEF StateInv, EnvOK
  <2>6. d \in members
    BY <2>2 DEF OwedOK
  <2>7. <<e.id, d>> \notin acks
    BY <2>1, <2>2, <2>3, <2>4, <2>5 DEF StayInv, AckOK
  <2>8. e.id \notin gone
    BY <2>2, <2>3, <2>4, <2>5, <2>7 DEF StayInv, GoneOK
  <2> QED BY <2>4, <2>5, <2>6, <2>7, <2>8 DEF find_pending
<1> QED BY <1>1, Invariance, PTL

\* A receive key a device has spent is that of a message whose plaintext it stored:
\* wherever an inbox run dies, no message becomes unreadable that is not on disk.
THEOREM PlaintextsAreKept == Spec => []SpentIsStored
<1>1. StateInv /\ StayInv => SpentIsStored
  <2> SUFFICES ASSUME StateInv, StayInv, NEW d \in Device, NEW e \in envs, e.kind = "app",
                      grp[d] # None, grp[d].tip = e.commit, <<e.by, e.gen>> \in grp[d].used
               PROVE  e.id \in rx[d]
    BY DEF SpentIsStored
  <2>1. PICK f \in envs : /\ f.kind = "app" /\ f.by = e.by /\ f.gen = e.gen
                          /\ f.commit = grp[d].tip /\ f.id \in rx[d]
    <3>1. PICK p : p = <<e.by, e.gen>>
      OBVIOUS
    <3>2. p \in grp[d].used /\ p[1] = e.by /\ p[2] = e.gen
      BY <3>1
    <3> QED BY <3>2 DEF StayInv, UsedOK
  <2>2. f = e
    BY <2>1 DEF StayInv, KeysAreFresh
  <2> QED BY <2>1, <2>2
<1> QED BY <1>1, Invariance, PTL

\* No two messages stored were encrypted under the same key of the same epoch, though
\* a send may die between saving the ratchet and posting, and a removed device may
\* come back with fresh ratchets.
THEOREM KeysAreUsedOnce == Spec => []KeysAreFresh
<1>1. StayInv => KeysAreFresh
  BY DEF StayInv
<1> QED BY <1>1, Invariance, PTL
===============================================================================
