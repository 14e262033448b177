------------------------------- MODULE Cluster -------------------------------
(***************************************************************************)
(* QuantumShield as a Raft cluster: the replicated state machine of        *)
(* internal/cluster, the write handlers of pkg/api that send their command *)
(* through it before they change the state of their own server, and the    *)
(* state that server serves.                                               *)
(*                                                                         *)
(* Raft is hashicorp/raft, taken as what it promises: one log of committed *)
(* commands that no crash loses, every replica applying it in order, a     *)
(* snapshot standing for the prefix it was taken at.  A command proposed   *)
(* under one leader may be committed later, also after its proposer was    *)
(* told that it failed, or be dropped at an election.                      *)
(*                                                                         *)
(* The handlers of /keystore and /keys/import change the key store of the  *)
(* server they are called on and nothing else: no command, no leader check.*)
(*                                                                         *)
(* Generated key identifiers and CA keys are random: each is drawn once.   *)
(* Clocks of different nodes have nothing to do with each other.           *)
(***************************************************************************)
EXTENDS Naturals, Sequences, FiniteSets

CONSTANTS
    Nodes, Keys, Roots, Serials, Procs,
    Times,          \* readings of a clock
    DirectCommands, \* what programs other than the server give to Node.Apply
    None,           \* no root, no leader
    Never,          \* the revocation time of a serial that is not revoked
    MaxProposals    \* bound: commands proposed in a behaviour

\* Command, with the part of its payload that names something.
Commands ==
    [op: {"generate_key", "delete_key"}, arg: Keys]
        \cup [op: {"ca_init"}, arg: Roots]
        \cup [op: {"ca_revoke", "ca_intermediate", "ca_sign"}, arg: Serials]

\* The commands the server's handlers send.
ServerOps == {"generate_key", "ca_init", "ca_revoke"}

ASSUME ClusterAssumption ==
    /\ MaxProposals \in Nat
    /\ IsFiniteSet(Nodes) /\ Nodes # {} /\ Times # {}
    /\ None \notin Nodes \cup Roots
    /\ Never \notin Times
    /\ DirectCommands \subseteq {c \in Commands : c.op \notin ServerOps}

VARIABLES
    \* hashicorp/raft
    log, pending, proposals, leader, members,
    \* each node
    up,         \* the nodes whose process runs
    fsm,        \* f.state
    applied,    \* how much of the log f.state stands for
    snapshot,   \* the newest snapshot on the node's disk
    local,      \* what the server's handlers read: key store and CA
    \* the handlers at work
    proc, drawn,
    \* History (no part of the code's state):
    reference,  \* the single copy the replicas stand for, after each command
    acked       \* what clients were told

raft    == <<log, pending, proposals, leader, members>>
replica == <<fsm, applied, snapshot>>
history == <<reference, acked>>
vars    == <<raft, up, replica, local, proc, drawn, history>>

-----------------------------------------------------------------------------
\* The single copy: keys, root CA, its revocation list, subordinate CAs.
EmptyState == [keys |-> {}, root |-> None, revoked |-> {}, subs |-> {}]

Effect(s, c) ==
    CASE c.op = "generate_key"    -> [s EXCEPT !.keys = @ \cup {c.arg}]
      [] c.op = "delete_key"      -> [s EXCEPT !.keys = @ \ {c.arg}]
      [] c.op = "ca_init"         -> [s EXCEPT !.root = c.arg, !.revoked = {}]
      [] c.op = "ca_revoke"       -> [s EXCEPT !.revoked = IF s.root = None THEN @ ELSE @ \cup {c.arg}]
      [] c.op = "ca_intermediate" -> [s EXCEPT !.subs = @ \cup {c.arg}]
      [] c.op = "ca_sign"         -> s

\* fsmState.  A revocation list records when each serial was revoked.
NoneRevoked == [c \in Serials |-> Never]
NewFSMState == [keys |-> {}, root |-> None, revoked |-> NoneRevoked, subs |-> {}]
FSMStates   == [keys: SUBSET Keys, root: Roots \cup {None},
                revoked: [Serials -> Times \cup {Never}], subs: SUBSET Serials]

\* applyCARevoke refuses when there is no root; revoking twice changes nothing.
Refused(s, c) == c.op = "ca_revoke" /\ s.root = None

Revoked(s, serial, now) ==
    IF s.root = None \/ s.revoked[serial] # Never
    THEN s ELSE [s EXCEPT !.revoked[serial] = now]

\* FSM.Apply: the state after command c, applied when the node's clock reads now.
Apply(s, c, now) ==
    CASE c.op = "generate_key"    -> [s EXCEPT !.keys = @ \cup {c.arg}]
      [] c.op = "delete_key"      -> [s EXCEPT !.keys = @ \ {c.arg}]
      [] c.op = "ca_init"         -> [s EXCEPT !.root = c.arg, !.revoked = NoneRevoked]
      [] c.op = "ca_revoke"       -> Revoked(s, c.arg, now)
      [] c.op = "ca_intermediate" -> [s EXCEPT !.subs = @ \cup {c.arg}]
      [] c.op = "ca_sign"         -> s

\* Forget the times: what all replicas are to agree on.
Untimed(s) == [keys |-> s.keys, root |-> s.root,
               revoked |-> {c \in Serials : s.revoked[c] # Never}, subs |-> s.subs]

-----------------------------------------------------------------------------
Idle       == [pc |-> "idle"]

\* What a server serves: its keys, the ones of them stored by a call that is
\* not replicated (own), and its CA.  And what clients were told.
EmptyLocal == [keys |-> {}, own |-> {}, root |-> None, revoked |-> {}]
NoAnswers  == [keys |-> {}, roots |-> {}, revoked |-> {}]
WithKey(l, k)    == [l EXCEPT !.keys = @ \cup {k}, !.own = @ \ {k}]
WithOwnKey(l, k) == [l EXCEPT !.keys = @ \cup {k}, !.own = @ \cup {k}]
WithoutKey(l, k) == [l EXCEPT !.keys = @ \ {k}, !.own = @ \ {k}]

Latest     == reference[Len(reference)]

Quorum   == 2 * Cardinality(members \cap up) > Cardinality(members)
IsLeader(n) == n = leader

Init ==
    /\ log = <<>> /\ pending = {} /\ proposals = 0 /\ leader = None
    /\ \E founder \in Nodes : members = {founder}     \* Bootstrap
    /\ up = Nodes
    /\ fsm = [n \in Nodes |-> NewFSMState]
    /\ applied = [n \in Nodes |-> 0]
    /\ snapshot = [n \in Nodes |-> [index |-> 0, state |-> NewFSMState]]
    /\ local = [n \in Nodes |-> EmptyLocal]
    /\ proc = [p \in Procs |-> Idle]
    /\ drawn = {}
    /\ reference = <<EmptyState>>
    /\ acked = NoAnswers

-----------------------------------------------------------------------------
\* The handlers, up to Node.Apply.  On a node that is not the leader they
\* answer with an error or a redirect and change nothing.
Draw(x) == x \notin drawn /\ drawn' = drawn \cup {x}

Propose(p, n, c) ==
    /\ IsLeader(n)
    /\ proposals < MaxProposals
    /\ proposals' = proposals + 1
    /\ pending' = pending \cup {[id |-> proposals + 1, cmd |-> c]}
    /\ proc' = [proc EXCEPT ![p] = [pc |-> "waiting", cmd |-> c, node |-> n, id |-> proposals + 1]]
    /\ UNCHANGED <<log, leader, members, up, replica, local, history>>

GenerateKey(p, n, k) ==
    /\ proc[p] = Idle
    /\ Draw(k)
    /\ Propose(p, n, [op |-> "generate_key", arg |-> k])

\* handleCAInit: look whether there is a CA, then generate one without a lock.
CAInitGenerate(p, n, r) ==
    /\ proc[p] = Idle
    /\ n \in up
    /\ local[n].root = None
    /\ Draw(r)
    /\ proc' = [proc EXCEPT ![p] =
           [pc |-> "generated", cmd |-> [op |-> "ca_init", arg |-> r], node |-> n]]
    /\ UNCHANGED <<raft, up, replica, local, history>>

CAInitPropose(p) ==
    /\ proc[p].pc = "generated"
    /\ Propose(p, proc[p].node, proc[p].cmd)
    /\ UNCHANGED drawn

CAInitRedirect(p) ==
    /\ proc[p].pc = "generated"
    /\ ~IsLeader(proc[p].node)
    /\ proc' = [proc EXCEPT ![p] = Idle]
    /\ UNCHANGED <<raft, up, replica, local, drawn, history>>

CARevoke(p, n, serial) ==
    /\ proc[p] = Idle
    /\ local[n].root # None
    /\ Propose(p, n, [op |-> "ca_revoke", arg |-> serial])
    /\ UNCHANGED drawn

\* Other users of the package: Node.Apply with a command the server never sends.
DirectApply(p, n) ==
    /\ proc[p] = Idle
    /\ \E c \in DirectCommands : Propose(p, n, c)
    /\ UNCHANGED drawn

\* raft.Apply gives up: leadership lost, shutdown, queue full for too long.
\* The command may be committed all the same.
ApplyErrorIgnored(p) ==
    /\ proc[p].pc = "waiting"
    /\ proc' = [proc EXCEPT ![p] = [pc |-> "replicated", cmd |-> @.cmd, node |-> @.node]]
    /\ UNCHANGED <<raft, up, replica, local, drawn, history>>
ApplyFails(p) ==
    /\ proc[p].pc = "waiting"
    /\ proc' = [proc EXCEPT ![p] = Idle]
    /\ UNCHANGED <<raft, up, replica, local, drawn, history>>

-----------------------------------------------------------------------------
\* hashicorp/raft commits a command ...
Commit(e) ==
    /\ leader # None /\ Quorum
    /\ log' = Append(log, e)
    /\ pending' = pending \ {e}
    /\ reference' = Append(reference, Effect(Latest, e.cmd))
    /\ UNCHANGED <<proposals, leader, members, up, replica, local, proc, drawn, acked>>

\* ... and calls FSM.Apply on each node; on the one that proposed it, the
\* result goes to the handler that waits.
Awaits(p, n, e) == proc[p].pc = "waiting" /\ proc[p].node = n /\ proc[p].id = e.id
Answered(p, n, e) ==
    IF Refused(fsm[n], e.cmd) \/ proc[p].cmd.op \notin ServerOps
    THEN Idle
    ELSE [pc |-> "replicated", cmd |-> proc[p].cmd, node |-> n]

ApplyEntry(n, now) ==
    /\ n \in up \cap members
    /\ applied[n] < Len(log)
    /\ LET e == log[applied[n] + 1]
       IN  /\ fsm' = [fsm EXCEPT ![n] = Apply(@, e.cmd, now)]
           /\ proc' = [p \in Procs |-> IF Awaits(p, n, e) THEN Answered(p, n, e) ELSE proc[p]]
    /\ applied' = [applied EXCEPT ![n] = @ + 1]
    /\ UNCHANGED <<raft, up, snapshot, local, drawn, history>>

\* FSM.Snapshot and Persist.
TakeSnapshotAhead(n) ==
    /\ n \in up
    /\ applied[n] > snapshot[n].index
    /\ snapshot' = [snapshot EXCEPT ![n] = [index |-> applied[n] + 1, state |-> fsm[n]]]
    /\ UNCHANGED <<raft, up, fsm, applied, local, proc, drawn, history>>
TakeSnapshot(n) ==
    /\ n \in up
    /\ applied[n] > snapshot[n].index
    /\ snapshot' = [snapshot EXCEPT ![n] = [index |-> applied[n], state |-> fsm[n]]]
    /\ UNCHANGED <<raft, up, fsm, applied, local, proc, drawn, history>>

\* FSM.Restore with a snapshot of the leader's, on a node that lags behind.
InstallSnapshotUndecoded(n) ==
    /\ n \in (up \cap members) \ {leader}
    /\ leader # None
    /\ snapshot[leader].index > applied[n]
    /\ applied' = [applied EXCEPT ![n] = snapshot[leader].index]
    /\ snapshot' = [snapshot EXCEPT ![n] = snapshot[leader]]
    /\ UNCHANGED <<raft, up, fsm, local, proc, drawn, history>>
InstallSnapshot(n) ==
    /\ n \in (up \cap members) \ {leader}
    /\ leader # None
    /\ snapshot[leader].index > applied[n]
    /\ fsm' = [fsm EXCEPT ![n] = snapshot[leader].state]
    /\ applied' = [applied EXCEPT ![n] = snapshot[leader].index]
    /\ snapshot' = [snapshot EXCEPT ![n] = snapshot[leader]]
    /\ UNCHANGED <<raft, up, local, proc, drawn, history>>

\* Elections, and the end of a leader's term: of the commands not committed
\* yet some survive in the new leader's log.
Elect(n) ==
    /\ leader = None
    /\ n \in up \cap members
    /\ Quorum
    /\ leader' = n
    /\ pending' \in SUBSET pending
    /\ UNCHANGED <<log, proposals, members, up, replica, local, proc, drawn, history>>

StepDown ==
    /\ leader # None
    /\ leader' = None
    /\ UNCHANGED <<log, pending, proposals, members, up, replica, local, proc, drawn, history>>

\* /cluster/join and /cluster/remove, on the leader.
Join(n) ==
    /\ leader # None
    /\ n \notin members
    /\ members' = members \cup {n}
    /\ UNCHANGED <<log, pending, proposals, leader, up, replica, local, proc, drawn, history>>

Remove(n) ==
    /\ leader # None
    /\ n \in members /\ members # {n}
    /\ members' = members \ {n}
    /\ leader' = IF IsLeader(n) THEN None ELSE leader
    /\ UNCHANGED <<log, pending, proposals, up, replica, local, proc, drawn, history>>

\* A process ends; what the server itself kept comes back if the key store and
\* the CA store have files, and is gone if they have none.
Crash(n) ==
    /\ n \in up
    /\ up' = up \ {n}
    /\ leader' = IF IsLeader(n) THEN None ELSE leader
    /\ fsm' = [fsm EXCEPT ![n] = NewFSMState]
    /\ applied' = [applied EXCEPT ![n] = 0]
    /\ \E kept \in {local[n], EmptyLocal} : local' = [local EXCEPT ![n] = kept]
    /\ proc' = [p \in Procs |-> IF proc[p] # Idle /\ proc[p].node = n THEN Idle ELSE proc[p]]
    /\ UNCHANGED <<log, pending, proposals, members, snapshot, drawn, history>>

\* NewNode: raft restores the newest snapshot; the log is replayed from there.
Restart(n) ==
    /\ n \notin up
    /\ up' = up \cup {n}
    /\ fsm' = [fsm EXCEPT ![n] = snapshot[n].state]
    /\ applied' = [applied EXCEPT ![n] = snapshot[n].index]
    /\ UNCHANGED <<raft, snapshot, local, proc, drawn, history>>

-----------------------------------------------------------------------------
\* The handlers after Node.Apply: the server's own state, and the answer.
ReplicatedOrWaiting(p, op) == proc[p].pc \in {"waiting", "replicated"} /\ proc[p].cmd.op = op
Replicated(p, op) == proc[p].pc = "replicated" /\ proc[p].cmd.op = op
Done(p) == proc' = [proc EXCEPT ![p] = Idle]

\* storeKey; if the key store cannot write its file the client gets an error,
\* but the key is there.
StoreKey(p, ok) ==
    /\ Replicated(p, "generate_key")
    /\ local' = [local EXCEPT ![proc[p].node] = WithKey(@, proc[p].cmd.arg)]
    /\ acked' = IF ok THEN [acked EXCEPT !.keys = @ \cup {proc[p].cmd.arg}] ELSE acked
    /\ Done(p)
    /\ UNCHANGED <<raft, up, replica, drawn, reference>>

\* handleCAInit, under caMu.
CAInitCommit(p) ==
    /\ Replicated(p, "ca_init")
    /\ IF local[proc[p].node].root = None
       THEN /\ local' = [local EXCEPT ![proc[p].node].root = proc[p].cmd.arg]
            /\ acked' = [acked EXCEPT !.roots = @ \cup {proc[p].cmd.arg}]
       ELSE UNCHANGED <<local, acked>>
    /\ Done(p)
    /\ UNCHANGED <<raft, up, replica, drawn, reference>>

CARevokeCommit(p) ==
    /\ Replicated(p, "ca_revoke")
    /\ LET n == proc[p].node
           c == proc[p].cmd.arg
       IN  /\ local' = [local EXCEPT ![n].revoked = @ \cup {c}]
           /\ acked' = [acked EXCEPT !.revoked = @ \cup {<<local[n].root, c>>}]
    /\ Done(p)
    /\ UNCHANGED <<raft, up, replica, drawn, reference>>

\* The handlers without a command, on any node that runs, leader or not.
\* /keystore/generate and /keys/import store a keypair under the client's
\* identifier, /keystore/{id}/rotate a new one under an existing identifier.
StoreUnreplicated(n, k) ==
    /\ n \in up
    /\ local' = [local EXCEPT ![n] = WithOwnKey(@, k)]
    /\ UNCHANGED <<raft, up, replica, proc, drawn, history>>

\* /keystore/{id}/expire and /keystore/{id}.
WithdrawKey(n, k) ==
    /\ n \in up
    /\ k \in local[n].keys
    /\ local' = [local EXCEPT ![n] = WithoutKey(@, k)]
    /\ UNCHANGED <<raft, up, replica, proc, drawn, history>>

KeyStoreCall ==
    \E n \in Nodes, k \in Keys : StoreUnreplicated(n, k) \/ WithdrawKey(n, k)

Handler(p) ==
    \/ \E n \in Nodes, k \in Keys : GenerateKey(p, n, k)
    \/ \E n \in Nodes, r \in Roots : CAInitGenerate(p, n, r)
    \/ CAInitPropose(p) \/ CAInitRedirect(p)
    \/ \E n \in Nodes, c \in Serials : CARevoke(p, n, c)
    \/ \E n \in Nodes : DirectApply(p, n)
    \/ ApplyFails(p)
    \/ \E ok \in BOOLEAN : StoreKey(p, ok)
    \/ CAInitCommit(p) \/ CARevokeCommit(p)

Raft ==
    \/ \E e \in pending : Commit(e)
    \/ \E n \in Nodes :
           \/ \E now \in Times : ApplyEntry(n, now)
           \/ TakeSnapshot(n) \/ InstallSnapshot(n)
           \/ Elect(n) \/ Join(n) \/ Remove(n)
           \/ Crash(n) \/ Restart(n)
    \/ StepDown

Next == Raft \/ KeyStoreCall \/ \E p \in Procs : Handler(p)

Spec == Init /\ [][Next]_vars

-----------------------------------------------------------------------------
LocalStates ==
    [keys: SUBSET Keys, own: SUBSET Keys, root: Roots \cup {None}, revoked: SUBSET Serials]
Answers ==
    [keys: SUBSET Keys, roots: SUBSET Roots, revoked: SUBSET (Roots \X Serials)]
Entries == [id: 1..MaxProposals, cmd: Commands]
Handling ==
    {Idle} \cup [pc: {"generated"}, cmd: [op: {"ca_init"}, arg: Roots], node: Nodes]
           \cup [pc: {"replicated"}, cmd: Commands, node: Nodes]
           \cup [pc: {"waiting"}, cmd: Commands, node: Nodes, id: 1..MaxProposals]

\* A proposal is in the log or pending at most once, the reference runs along
\* with the log, and the rest has the shape of the code's types.
TypeOK ==
    /\ log \in Seq(Entries) /\ pending \in SUBSET Entries
    /\ proposals \in 0..MaxProposals
    /\ leader \in Nodes \cup {None} /\ members \in SUBSET Nodes
    /\ up \in SUBSET Nodes
    /\ fsm \in [Nodes -> FSMStates]
    /\ applied \in [Nodes -> 0..Len(log)]
    /\ snapshot \in [Nodes -> [index: 0..Len(log), state: FSMStates]]
    /\ local \in [Nodes -> LocalStates]
    /\ proc \in [Procs -> Handling]
    /\ drawn \in SUBSET (Keys \cup Roots)
    /\ reference \in Seq([keys: SUBSET Keys, root: Roots \cup {None},
                          revoked: SUBSET Serials, subs: SUBSET Serials])
    /\ acked \in Answers

\* The state of every replica is that of the single copy at the replica's
\* place in the log, whatever snapshots, restarts and installations brought it
\* there: replicas at the same place agree, but for the times of revocations.
ReplicasAgree ==
    \A n \in up : Untimed(fsm[n]) = reference[applied[n] + 1]

\* What a client was told by /keys/generate or /ca/revoke is in the replicated
\* state for good, so any replica that has caught up has it: a key until it is
\* deleted through the log, a revocation as long as the root it was made for.
\* /ca/init is not among them (see InitNotOverwritten), nor are the handlers
\* that send no command, those of KeyStoreCall.
InLog(op, x) == \E i \in 1..Len(log) : log[i].cmd = [op |-> op, arg |-> x]

AckedIsReplicated ==
    /\ \A k \in acked.keys : k \in Latest.keys \/ InLog("delete_key", k)
    /\ \A ra \in acked.revoked : Latest.root = ra[1] => ra[2] \in Latest.revoked

\* "replicate through Raft before storing locally" (handleGenerateKey), for
\* what the handlers of /keys/generate, /ca/init and /ca/revoke store: no server
\* serves a key, a root or a revocation of theirs that was not committed, also
\* when its proposal was reported as failed, or the leader changed meanwhile.
\* Keys stored by /keystore/generate, /keystore/{id}/rotate and /keys/import are
\* served without (own).
ServedIsCommitted ==
    \A n \in Nodes :
        /\ \A k \in local[n].keys \ local[n].own : InLog("generate_key", k)
        /\ local[n].root # None => InLog("ca_init", local[n].root)
        /\ \A c \in local[n].revoked : InLog("ca_revoke", c)

\* What handleCAInit says: an init that completed meanwhile "must not be
\* silently overwritten".
InitNotOverwritten == acked.roots # {} => Latest.root \in acked.roots
=============================================================================
