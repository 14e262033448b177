--------------------------- MODULE Cluster_proofs ----------------------------
(***************************************************************************)
(* Proofs about Cluster for every set of nodes, handlers, identifiers and  *)
(* clock readings and every number of proposals.                           *)
(***************************************************************************)
EXTENDS Cluster, TLAPS

States == [keys: SUBSET Keys, root: Roots \cup {None},
           revoked: SUBSET Serials, subs: SUBSET Serials]

-----------------------------------------------------------------------------
\* FSM.Apply keeps the shape of the state.
LEMMA ApplyType ==
    ASSUME NEW s \in FSMStates, NEW c \in Commands, NEW now \in Times
    PROVE  Apply(s, c, now) \in FSMStates
<1>1. CASE c \in [op: {"generate_key", "delete_key"}, arg: Keys]
  BY <1>1 DEF Apply, FSMStates
<1>2. CASE c \in [op: {"ca_init"}, arg: Roots]
  BY <1>2 DEF Apply, FSMStates, NoneRevoked
<1>3. CASE c \in [op: {"ca_revoke", "ca_intermediate", "ca_sign"}, arg: Serials]
  <2>1. Revoked(s, c.arg, now) \in FSMStates
    BY <1>3 DEF Revoked, FSMStates
  <2>2. [s EXCEPT !.subs = @ \cup {c.arg}] \in FSMStates
    BY <1>3 DEF FSMStates
  <2>3. QED
    BY <1>3, <2>1, <2>2 DEF Apply
<1>4. QED
  BY <1>1, <1>2, <1>3 DEF Commands

\* The effect of a command on the single copy keeps its shape ...
LEMMA EffectType ==
    ASSUME NEW s \in States, NEW c \in Commands
    PROVE  Effect(s, c) \in States
  BY DEF Effect, States, Commands

\* ... and is what FSM.Apply does to a replica, apart from the times.
LEMMA ApplyHasEffect ==
    ASSUME NEW s \in FSMStates, NEW c \in Commands, NEW now \in Times
    PROVE  Untimed(Apply(s, c, now)) = Effect(Untimed(s), c)
<1>1. CASE c.op \in {"generate_key", "delete_key", "ca_intermediate", "ca_sign"}
  BY <1>1 DEF Apply, Effect, Untimed, FSMStates
<1>2. CASE c.op = "ca_init"
  BY <1>2 DEF Apply, Effect, Untimed, FSMStates, NoneRevoked
<1>3. CASE c.op = "ca_revoke"
  <2> DEFINE t == Revoked(s, c.arg, now)
  <2>1. c.arg \in Serials
    BY <1>3 DEF Commands
  <2>2. t.keys = s.keys /\ t.root = s.root /\ t.subs = s.subs
    BY DEF Revoked, FSMStates
  <2>3. {x \in Serials : t.revoked[x] # Never}
          = IF s.root = None THEN {x \in Serials : s.revoked[x] # Never}
            ELSE {x \in Serials : s.revoked[x] # Never} \cup {c.arg}
    BY <2>1, ClusterAssumption DEF Revoked, FSMStates
  <2>4. QED
    BY <1>3, <2>2, <2>3 DEF Apply, Effect, Untimed
<1>4. QED
  BY <1>1, <1>2, <1>3 DEF Commands

\* The empty state is a state.
LEMMA EmptyTypes ==
    /\ NewFSMState \in FSMStates
    /\ EmptyState \in States
    /\ Untimed(NewFSMState) = EmptyState
<1>1. NewFSMState \in FSMStates
  BY DEF NewFSMState, FSMStates, NoneRevoked
<1>2. EmptyState \in States
  BY DEF EmptyState, States
<1>3. Untimed(NewFSMState) = EmptyState
  BY DEF NewFSMState, EmptyState, Untimed, NoneRevoked
<1>4. QED
  BY <1>1, <1>2, <1>3

\* Where a handler is decides which fields its record has.
LEMMA HandlerShape ==
    ASSUME TypeOK, NEW p \in Procs
    PROVE  /\ proc[p].pc = "idle" => proc[p] = Idle
           /\ proc[p].pc \in {"generated", "replicated"} =>
                 proc[p].cmd \in Commands /\ proc[p].node \in Nodes
           /\ proc[p].pc = "waiting" =>
                 proc[p].cmd \in Commands /\ proc[p].node \in Nodes
                 /\ proc[p].id \in 1..MaxProposals
           /\ proc[p].pc = "generated" =>
                 \E r \in Roots : proc[p].cmd = [op |-> "ca_init", arg |-> r]
           /\ proc[p].pc \in {"idle", "generated", "waiting", "replicated"}
<1>1. proc[p] \in Handling
  BY DEF TypeOK
<1>2. QED
  BY <1>1 DEF Handling, Idle, Commands

-----------------------------------------------------------------------------
\* Node.Apply on the leader: a new proposal with a handler that waits for it.
LEMMA ProposeType ==
    ASSUME TypeOK, NEW p \in Procs, NEW n \in Nodes, NEW c \in Commands,
           Propose(p, n, c), drawn' \in SUBSET (Keys \cup Roots)
    PROVE  TypeOK'
<1>1. proposals + 1 \in 1..MaxProposals /\ proposals' \in 0..MaxProposals
  BY ClusterAssumption DEF TypeOK, Propose
<1>2. [id |-> proposals + 1, cmd |-> c] \in Entries
  BY <1>1 DEF Entries
<1>3. [pc |-> "waiting", cmd |-> c, node |-> n, id |-> proposals + 1] \in Handling
  BY <1>1 DEF Handling
<1>4. pending' \in SUBSET Entries /\ proc' \in [Procs -> Handling]
  BY <1>2, <1>3 DEF TypeOK, Propose
<1>5. QED
  BY <1>1, <1>4 DEF TypeOK, Propose, replica, history

\* Commands that may be proposed are commands.
LEMMA CommandTypes ==
    /\ \A k \in Keys : [op |-> "generate_key", arg |-> k] \in Commands
    /\ \A r \in Roots : [op |-> "ca_init", arg |-> r] \in Commands
    /\ \A c \in Serials : [op |-> "ca_revoke", arg |-> c] \in Commands
    /\ DirectCommands \subseteq Commands
  BY ClusterAssumption DEF Commands

\* Storing and withdrawing a key leaves the root and the revocations; only a
\* command's key joins those that are not the server's own.
LEMMA KeyMapChanges ==
    ASSUME NEW l \in LocalStates, NEW k \in Keys
    PROVE  /\ WithKey(l, k) \in LocalStates
           /\ WithKey(l, k).root = l.root /\ WithKey(l, k).revoked = l.revoked
           /\ WithKey(l, k).keys \ WithKey(l, k).own \subseteq (l.keys \ l.own) \cup {k}
           /\ \A m \in {WithOwnKey(l, k), WithoutKey(l, k)} :
                 /\ m \in LocalStates /\ m.root = l.root /\ m.revoked = l.revoked
                 /\ m.keys \ m.own \subseteq l.keys \ l.own
  BY DEF LocalStates, WithKey, WithOwnKey, WithoutKey

LEMMA HandlerType ==
    ASSUME TypeOK, NEW p \in Procs, Handler(p),
           Replicated(p, "ca_revoke") => local[proc[p].node].root # None
    PROVE  TypeOK'
<1> USE CommandTypes
<1>i. Idle \in Handling
  BY DEF Handling
<1>1. ASSUME NEW n \in Nodes, NEW k \in Keys, GenerateKey(p, n, k)
      PROVE  TypeOK'
  BY <1>1, ProposeType DEF GenerateKey, Draw, TypeOK
<1>2. ASSUME NEW n \in Nodes, NEW r \in Roots, CAInitGenerate(p, n, r)
      PROVE  TypeOK'
  <2>1. [pc |-> "generated", cmd |-> [op |-> "ca_init", arg |-> r], node |-> n] \in Handling
    BY DEF Handling
  <2>2. proc' \in [Procs -> Handling] /\ drawn' \in SUBSET (Keys \cup Roots)
    BY <1>2, <2>1 DEF CAInitGenerate, Draw, TypeOK
  <2>3. QED
    BY <1>2, <2>2 DEF CAInitGenerate, TypeOK, raft, replica, history
<1>3. ASSUME CAInitPropose(p)
      PROVE  TypeOK'
  BY <1>3, HandlerShape, ProposeType DEF CAInitPropose, TypeOK
<1>4. ASSUME NEW n \in Nodes, NEW c \in Serials, CARevoke(p, n, c)
      PROVE  TypeOK'
  BY <1>4, ProposeType DEF CARevoke, TypeOK
<1>5. ASSUME NEW n \in Nodes, DirectApply(p, n)
      PROVE  TypeOK'
  BY <1>5, ProposeType DEF DirectApply, TypeOK
<1>6. ASSUME CAInitRedirect(p) \/ ApplyFails(p)
      PROVE  TypeOK'
  <2>1. proc' \in [Procs -> Handling]
    BY <1>6, <1>i DEF CAInitRedirect, ApplyFails, TypeOK
  <2>2. QED
    BY <1>6, <2>1 DEF CAInitRedirect, ApplyFails, TypeOK, raft, replica, history
<1>7. ASSUME NEW ok \in BOOLEAN, StoreKey(p, ok)
      PROVE  TypeOK'
  <2>1. proc[p].cmd.arg \in Keys /\ proc[p].node \in Nodes
    BY <1>7, HandlerShape DEF StoreKey, Replicated, Commands
  <2>2. proc' \in [Procs -> Handling]
    BY <1>7, <1>i DEF StoreKey, Done, TypeOK
  <2>3. local' \in [Nodes -> LocalStates]
    BY <1>7, <2>1, KeyMapChanges DEF StoreKey, TypeOK
  <2>4. acked' \in Answers
    BY <1>7, <2>1 DEF StoreKey, TypeOK, Answers
  <2>5. QED
    BY <1>7, <2>2, <2>3, <2>4 DEF StoreKey, TypeOK, raft, replica
<1>8. ASSUME CAInitCommit(p)
      PROVE  TypeOK'
  <2>1. proc[p].cmd.arg \in Roots /\ proc[p].node \in Nodes
    BY <1>8, HandlerShape DEF CAInitCommit, Replicated, Commands
  <2>2. proc' \in [Procs -> Handling]
    BY <1>8, <1>i DEF CAInitCommit, Done, TypeOK
  <2>3. CASE local[proc[p].node].root = None
    <3>1. local' \in [Nodes -> LocalStates]
      <4>1. local' = [local EXCEPT ![proc[p].node].root = proc[p].cmd.arg]
        BY <1>8, <2>3 DEF CAInitCommit
      <4>2. QED
        BY <4>1, <2>1 DEF TypeOK, LocalStates
    <3>2. acked' \in Answers
      <4>1. acked' = [acked EXCEPT !.roots = @ \cup {proc[p].cmd.arg}]
        BY <1>8, <2>3 DEF CAInitCommit
      <4>2. QED
        BY <4>1, <2>1 DEF TypeOK, Answers
    <3>3. QED
      BY <1>8, <2>2, <3>1, <3>2 DEF CAInitCommit, TypeOK, raft, replica
  <2>4. CASE local[proc[p].node].root # None
    BY <1>8, <2>2, <2>4 DEF CAInitCommit, TypeOK, raft, replica
  <2>5. QED
    BY <2>3, <2>4
<1>9. ASSUME CARevokeCommit(p)
      PROVE  TypeOK'
  <2>1. proc[p].cmd.arg \in Serials /\ proc[p].node \in Nodes
    BY <1>9, HandlerShape DEF CARevokeCommit, Replicated, Commands
  <2>2. proc' \in [Procs -> Handling]
    BY <1>9, <1>i DEF CARevokeCommit, Done, TypeOK
  <2>3. local' \in [Nodes -> LocalStates]
    BY <1>9, <2>1 DEF CARevokeCommit, TypeOK, LocalStates
  <2>4. <<local[proc[p].node].root, proc[p].cmd.arg>> \in Roots \X Serials
    BY <1>9, <2>1 DEF TypeOK, CARevokeCommit, LocalStates
  <2>5. acked' \in Answers
    BY <1>9, <2>4 DEF CARevokeCommit, TypeOK, Answers
  <2>6. QED
    BY <1>9, <2>2, <2>3, <2>5 DEF CARevokeCommit, TypeOK, raft, replica
<1>10. QED
  BY <1>1, <1>2, <1>3, <1>4, <1>5, <1>6, <1>7, <1>8, <1>9 DEF Handler

\* The handlers without a command change keys of their own on one server.
LEMMA KeyStoreCallEffect ==
    ASSUME TypeOK, KeyStoreCall
    PROVE  /\ UNCHANGED <<raft, up, replica, proc, drawn, history>>
           /\ local' \in [Nodes -> LocalStates]
           /\ \A m \in Nodes :
                 /\ local'[m].keys \ local'[m].own \subseteq local[m].keys \ local[m].own
                 /\ local'[m].root = local[m].root /\ local'[m].revoked = local[m].revoked
<1>1. ASSUME NEW n \in Nodes, NEW k \in Keys, StoreUnreplicated(n, k)
      PROVE  /\ UNCHANGED <<raft, up, replica, proc, drawn, history>>
             /\ local' = [local EXCEPT ![n] = WithOwnKey(local[n], k)]
  BY <1>1 DEF StoreUnreplicated
<1>2. ASSUME NEW n \in Nodes, NEW k \in Keys, WithdrawKey(n, k)
      PROVE  /\ UNCHANGED <<raft, up, replica, proc, drawn, history>>
             /\ local' = [local EXCEPT ![n] = WithoutKey(local[n], k)]
  BY <1>2 DEF WithdrawKey
<1>3. PICK n \in Nodes, k \in Keys : StoreUnreplicated(n, k) \/ WithdrawKey(n, k)
  BY DEF KeyStoreCall
<1>l. local \in [Nodes -> LocalStates]
  BY DEF TypeOK
<1>4. \E l \in {WithOwnKey(local[n], k), WithoutKey(local[n], k)} :
         local' = [local EXCEPT ![n] = l]
  BY <1>1, <1>2, <1>3
<1>5. /\ local' \in [Nodes -> LocalStates]
      /\ \A m \in Nodes :
            /\ local'[m].keys \ local'[m].own \subseteq local[m].keys \ local[m].own
            /\ local'[m].root = local[m].root /\ local'[m].revoked = local[m].revoked
  <2>1. local[n] \in LocalStates
    BY <1>l
  <2>2. PICK l \in {WithOwnKey(local[n], k), WithoutKey(local[n], k)} :
           local' = [local EXCEPT ![n] = l]
    BY <1>4
  <2>3. /\ l \in LocalStates
        /\ l.root = local[n].root /\ l.revoked = local[n].revoked
        /\ l.keys \ l.own \subseteq local[n].keys \ local[n].own
    BY <2>1, <2>2, KeyMapChanges
  <2>4. QED
    BY <1>l, <2>2, <2>3
<1>6. UNCHANGED <<raft, up, replica, proc, drawn, history>>
  BY <1>1, <1>2, <1>3
<1>7. QED
  BY <1>5, <1>6

\* The entry a replica that lags behind applies next.
LEMMA NextEntry ==
    ASSUME TypeOK, NEW n \in Nodes, applied[n] < Len(log)
    PROVE  /\ applied[n] + 1 \in 1..Len(log)
           /\ log[applied[n] + 1] \in Entries
           /\ log[applied[n] + 1].cmd \in Commands
<1>1. applied[n] \in Nat /\ log \in Seq(Entries)
  BY DEF TypeOK
<1>2. applied[n] + 1 \in 1..Len(log)
  BY <1>1
<1>3. log[applied[n] + 1] \in Entries
  BY <1>1, <1>2
<1>4. QED
  BY <1>2, <1>3 DEF Entries

LEMMA RaftType ==
    ASSUME TypeOK, Len(reference) = Len(log) + 1, reference \in Seq(States), Raft
    PROVE  TypeOK'
<1>1. ASSUME NEW e \in pending, Commit(e)
      PROVE  TypeOK'
  <2>1. e \in Entries /\ e.cmd \in Commands
    BY DEF TypeOK, Entries
  <2>2. log' \in Seq(Entries) /\ Len(log') = Len(log) + 1
    BY <1>1, <2>1 DEF Commit, TypeOK
  <2>3. Effect(Latest, e.cmd) \in States
    <3>1. Latest \in States
      BY DEF Latest, TypeOK
    <3>2. QED
      BY <3>1, <2>1, EffectType
  <2>4. reference' \in Seq(States)
    BY <1>1, <2>3 DEF Commit, TypeOK
  <2>5. applied' \in [Nodes -> 0..Len(log')]
    BY <1>1, <2>2 DEF Commit, TypeOK, replica
  <2>6. snapshot' \in [Nodes -> [index: 0..Len(log'), state: FSMStates]]
    BY <1>1, <2>2 DEF Commit, TypeOK, replica
  <2>7. QED
    BY <1>1, <2>2, <2>4, <2>5, <2>6 DEF Commit, TypeOK, replica, States
<1>2. ASSUME NEW n \in Nodes, NEW now \in Times, ApplyEntry(n, now)
      PROVE  TypeOK'
  <2> DEFINE e == log[applied[n] + 1]
  <2>1. applied[n] + 1 \in 1..Len(log) /\ e \in Entries /\ e.cmd \in Commands
    BY <1>2, NextEntry DEF ApplyEntry
  <2>2. fsm' \in [Nodes -> FSMStates]
    <3>1. Apply(fsm[n], e.cmd, now) \in FSMStates
      BY <2>1, ApplyType DEF TypeOK
    <3>2. QED
      BY <1>2, <3>1 DEF ApplyEntry, TypeOK
  <2>3. proc' \in [Procs -> Handling]
    <3>1. ASSUME NEW p \in Procs, Awaits(p, n, e)
          PROVE  Answered(p, n, e) \in Handling
      BY <3>1, HandlerShape DEF Awaits, Answered, Handling
    <3>2. QED
      BY <1>2, <3>1 DEF ApplyEntry, TypeOK
  <2>4. applied' \in [Nodes -> 0..Len(log)]
    BY <1>2, <2>1 DEF ApplyEntry, TypeOK
  <2>5. QED
    BY <1>2, <2>2, <2>3, <2>4 DEF ApplyEntry, TypeOK, raft, history
<1>3. ASSUME NEW n \in Nodes, TakeSnapshot(n)
      PROVE  TypeOK'
  <2>1. snapshot' \in [Nodes -> [index: 0..Len(log), state: FSMStates]]
    BY <1>3 DEF TakeSnapshot, TypeOK
  <2>2. QED
    BY <1>3, <2>1 DEF TakeSnapshot, TypeOK, raft, history
<1>4. ASSUME NEW n \in Nodes, InstallSnapshot(n)
      PROVE  TypeOK'
  <2>1. snapshot[leader] \in [index: 0..Len(log), state: FSMStates]
    BY <1>4 DEF InstallSnapshot, TypeOK
  <2>2. QED
    BY <1>4, <2>1 DEF InstallSnapshot, TypeOK, raft, history
<1>5. ASSUME NEW n \in Nodes, Elect(n)
      PROVE  TypeOK'
  BY <1>5 DEF Elect, TypeOK, replica, history
<1>6. ASSUME NEW n \in Nodes, Join(n) \/ Remove(n)
      PROVE  TypeOK'
  BY <1>6 DEF Join, Remove, TypeOK, replica, history
<1>7. ASSUME StepDown
      PROVE  TypeOK'
  BY <1>7 DEF StepDown, TypeOK, replica, history
<1>8. ASSUME NEW n \in Nodes, Crash(n)
      PROVE  TypeOK'
  <2>1. fsm' \in [Nodes -> FSMStates] /\ applied' \in [Nodes -> 0..Len(log)]
    BY <1>8, EmptyTypes DEF Crash, TypeOK
  <2>2. local' \in [Nodes -> LocalStates]
    BY <1>8 DEF Crash, TypeOK, EmptyLocal, LocalStates
  <2>3. proc' \in [Procs -> Handling]
    BY <1>8 DEF Crash, TypeOK, Handling
  <2>4. leader' \in Nodes \cup {None} /\ up' \in SUBSET Nodes
    BY <1>8 DEF Crash, TypeOK
  <2>5. QED
    BY <1>8, <2>1, <2>2, <2>3, <2>4 DEF Crash, TypeOK, history
<1>9. ASSUME NEW n \in Nodes, Restart(n)
      PROVE  TypeOK'
  <2>1. snapshot[n].state \in FSMStates /\ snapshot[n].index \in 0..Len(log)
    BY DEF TypeOK
  <2>2. QED
    BY <1>9, <2>1 DEF Restart, TypeOK, raft, history
<1>10. QED
  BY <1>1, <1>2, <1>3, <1>4, <1>5, <1>6, <1>7, <1>8, <1>9 DEF Raft

-----------------------------------------------------------------------------
\* The replicas and their snapshots stand for prefixes of the log, the
\* reference for every prefix.
Follows == \A i \in 1..Len(log) : reference[i + 1] = Effect(reference[i], log[i].cmd)

ReplicaInv ==
    /\ Len(reference) = Len(log) + 1
    /\ reference[1] = EmptyState
    /\ Follows
    /\ \A n \in Nodes : Untimed(fsm[n]) = reference[applied[n] + 1]
    /\ \A n \in Nodes : Untimed(snapshot[n].state) = reference[snapshot[n].index + 1]

\* The handlers touch neither the log nor a replica.
LEMMA HandlerLeavesReplicas ==
    ASSUME NEW p \in Procs, Handler(p)
    PROVE  UNCHANGED <<log, replica, reference>>
  BY DEF Handler, GenerateKey, CAInitGenerate, CAInitPropose, CAInitRedirect, CARevoke,
         DirectApply, ApplyFails, StoreKey, CAInitCommit, CARevokeCommit, Propose,
         raft, history

LEMMA ReplicaStep ==
    ASSUME TypeOK, ReplicaInv, [Next]_vars
    PROVE  ReplicaInv'
<1>1. CASE UNCHANGED <<log, replica, reference>>
  BY <1>1 DEF ReplicaInv, Follows, replica
<1>2. ASSUME NEW e \in pending, Commit(e)
      PROVE  ReplicaInv'
  <2>1. reference' = Append(reference, Effect(reference[Len(reference)], e.cmd))
    BY <1>2 DEF Commit, Latest
  <2>2. log' = Append(log, e) /\ UNCHANGED replica
    BY <1>2 DEF Commit
  <2>3. Len(reference') = Len(log') + 1
    BY <2>1, <2>2 DEF ReplicaInv, TypeOK
  <2>4. \A i \in 1..(Len(log) + 1) : reference'[i] = reference[i]
    BY <2>1 DEF ReplicaInv, TypeOK
  <2>5. Follows'
    <3> SUFFICES ASSUME NEW i \in 1..Len(log')
                 PROVE  reference'[i + 1] = Effect(reference'[i], log'[i].cmd)
      BY DEF Follows
    <3>1. CASE i \in 1..Len(log)
      <4>1. log'[i] = log[i]
        BY <3>1, <2>2 DEF TypeOK
      <4>2. reference'[i + 1] = reference[i + 1] /\ reference'[i] = reference[i]
        BY <3>1, <2>4 DEF TypeOK
      <4>3. QED
        BY <3>1, <4>1, <4>2 DEF ReplicaInv, Follows
    <3>2. CASE i = Len(log) + 1
      <4>1. log'[i] = e
        BY <3>2, <2>2 DEF TypeOK
      <4>2. reference'[i] = reference[i]
        BY <3>2, <2>4 DEF TypeOK
      <4>3. reference'[i + 1] = Effect(reference[i], e.cmd)
        BY <3>2, <2>1 DEF ReplicaInv, TypeOK
      <4>4. QED
        BY <4>1, <4>2, <4>3
    <3>3. QED
      BY <3>1, <3>2, <2>2 DEF TypeOK
  <2>6. \A n \in Nodes : applied[n] + 1 \in 1..(Len(log) + 1)
                         /\ snapshot[n].index + 1 \in 1..(Len(log) + 1)
    BY DEF TypeOK
  <2>7. QED
    BY <2>2, <2>3, <2>4, <2>5, <2>6 DEF ReplicaInv, TypeOK, replica
<1>3. ASSUME NEW n \in Nodes, NEW now \in Times, ApplyEntry(n, now)
      PROVE  ReplicaInv'
  <2> DEFINE e == log[applied[n] + 1]
  <2>1. applied[n] + 1 \in 1..Len(log) /\ e.cmd \in Commands /\ fsm[n] \in FSMStates
    BY <1>3, NextEntry DEF ApplyEntry, TypeOK
  <2>2. Untimed(Apply(fsm[n], e.cmd, now)) = reference[(applied[n] + 1) + 1]
    BY <2>1, ApplyHasEffect DEF ReplicaInv, Follows
  <2>3. /\ fsm' = [fsm EXCEPT ![n] = Apply(fsm[n], e.cmd, now)]
        /\ applied' = [applied EXCEPT ![n] = applied[n] + 1]
        /\ UNCHANGED <<log, reference, snapshot>>
    BY <1>3 DEF ApplyEntry, raft, history
  <2>4. \A m \in Nodes : Untimed(fsm'[m]) = reference[applied'[m] + 1]
    BY <2>2, <2>3 DEF ReplicaInv, TypeOK
  <2>5. QED
    BY <2>3, <2>4 DEF ReplicaInv, Follows
<1>4. ASSUME NEW n \in Nodes, TakeSnapshot(n)
      PROVE  ReplicaInv'
  <2>1. \A m \in Nodes : Untimed(snapshot'[m].state) = reference[snapshot'[m].index + 1]
    BY <1>4 DEF TakeSnapshot, ReplicaInv, TypeOK
  <2>2. QED
    BY <1>4, <2>1 DEF TakeSnapshot, ReplicaInv, Follows, raft, history
<1>5. ASSUME NEW n \in Nodes, InstallSnapshot(n)
      PROVE  ReplicaInv'
  <2>1. leader \in Nodes
    BY <1>5 DEF InstallSnapshot, TypeOK
  <2>2. \A m \in Nodes : /\ Untimed(fsm'[m]) = reference[applied'[m] + 1]
                         /\ Untimed(snapshot'[m].state) = reference[snapshot'[m].index + 1]
    BY <1>5, <2>1 DEF InstallSnapshot, ReplicaInv, TypeOK
  <2>3. QED
    BY <1>5, <2>2 DEF InstallSnapshot, ReplicaInv, Follows, raft, history
<1>6. ASSUME NEW n \in Nodes, Crash(n)
      PROVE  ReplicaInv'
  <2>1. \A m \in Nodes : Untimed(fsm'[m]) = reference[applied'[m] + 1]
    BY <1>6, EmptyTypes DEF Crash, ReplicaInv, TypeOK
  <2>2. QED
    BY <1>6, <2>1 DEF Crash, ReplicaInv, Follows, history
<1>7. ASSUME NEW n \in Nodes, Restart(n)
      PROVE  ReplicaInv'
  <2>1. \A m \in Nodes : Untimed(fsm'[m]) = reference[applied'[m] + 1]
    BY <1>7 DEF Restart, ReplicaInv, TypeOK
  <2>2. QED
    BY <1>7, <2>1 DEF Restart, ReplicaInv, Follows, raft, history
<1>8. ASSUME NEW n \in Nodes, Elect(n) \/ Join(n) \/ Remove(n) \/ StepDown
      PROVE  UNCHANGED <<log, replica, reference>>
  BY <1>8 DEF Elect, Join, Remove, StepDown, history
<1>9. CASE StepDown
  BY <1>9, <1>1 DEF StepDown, history
<1>10. CASE UNCHANGED vars
  BY <1>10, <1>1 DEF vars, raft, history
<1>11. CASE KeyStoreCall
  BY <1>11, <1>1, KeyStoreCallEffect DEF raft, history
<1>12. QED
  BY <1>1, <1>2, <1>3, <1>4, <1>5, <1>6, <1>7, <1>8, <1>9, <1>10, <1>11, HandlerLeavesReplicas
     DEF Next, Raft

-----------------------------------------------------------------------------
\* What a commit does to the log.
LEMMA CommitLog ==
    ASSUME TypeOK, NEW e \in pending, Commit(e)
    PROVE  /\ e \in Entries /\ e.cmd \in Commands
           /\ Len(log') = Len(log) + 1
           /\ \A i \in 1..Len(log) : log'[i] = log[i]
           /\ log'[Len(log) + 1] = e
           /\ \A op, x : InLog(op, x)' <=> InLog(op, x) \/ e.cmd = [op |-> op, arg |-> x]
<1>1. e \in Entries /\ e.cmd \in Commands
  BY DEF TypeOK, Entries
<1>2. log \in Seq(Entries) /\ log' = Append(log, e)
  BY DEF TypeOK, Commit
<1>3. /\ Len(log') = Len(log) + 1
      /\ \A i \in 1..Len(log) : log'[i] = log[i]
      /\ log'[Len(log) + 1] = e
  BY <1>1, <1>2
<1>4. Len(log) \in Nat
  BY <1>2
<1>5. \A op, x : InLog(op, x)' <=> InLog(op, x) \/ e.cmd = [op |-> op, arg |-> x]
  <2> TAKE op, x
  <2>1. InLog(op, x) => InLog(op, x)'
    BY <1>3, <1>4 DEF InLog
  <2>2. e.cmd = [op |-> op, arg |-> x] => InLog(op, x)'
    BY <1>3, <1>4 DEF InLog
  <2>3. ASSUME InLog(op, x)'
        PROVE  InLog(op, x) \/ e.cmd = [op |-> op, arg |-> x]
    <3>1. PICK i \in 1..Len(log') : log'[i].cmd = [op |-> op, arg |-> x]
      BY <2>3 DEF InLog
    <3>2. CASE i = Len(log) + 1
      BY <3>1, <3>2, <1>3
    <3>3. CASE i \in 1..Len(log)
      BY <3>1, <3>3, <1>3 DEF InLog
    <3>4. QED
      BY <3>1, <3>2, <3>3, <1>3, <1>4
  <2>4. QED
    BY <2>1, <2>2, <2>3
<1>6. QED
  BY <1>1, <1>3, <1>5

\* A step that is neither a proposal nor a commit leaves the log alone, adds
\* no proposal and lets nobody wait anew.
Calm ==
    /\ log' = log /\ proposals' = proposals /\ reference' = reference
    /\ pending' \subseteq pending
    /\ \A p \in Procs : proc'[p].pc = "waiting" => proc'[p] = proc[p]

Proposing ==
    \E p \in Procs, n \in Nodes, c \in Commands :
        Propose(p, n, c) /\ (c.op = "ca_revoke" => local[n].root # None)

LEMMA StepKinds ==
    ASSUME TypeOK, [Next]_vars
    PROVE  Proposing \/ (\E e \in pending : Commit(e)) \/ Calm
<1> USE CommandTypes
<1>1. ASSUME NEW p \in Procs, Handler(p)
      PROVE  Proposing \/ Calm
  <2>1. ASSUME NEW n \in Nodes, NEW k \in Keys, GenerateKey(p, n, k)
        PROVE  Proposing
    BY <2>1 DEF GenerateKey, Proposing
  <2>2. ASSUME CAInitPropose(p)
        PROVE  Proposing
    <3>1. proc[p].cmd \in Commands /\ proc[p].node \in Nodes
      BY <2>2, HandlerShape DEF CAInitPropose
    <3>2. proc[p].cmd.op = "ca_init"
      <4>1. PICK r \in Roots : proc[p].cmd = [op |-> "ca_init", arg |-> r]
        BY <2>2, HandlerShape DEF CAInitPropose
      <4>2. QED
        BY <4>1
    <3>3. QED
      BY <2>2, <3>1, <3>2 DEF CAInitPropose, Proposing
  <2>3. ASSUME NEW n \in Nodes, NEW c \in Serials, CARevoke(p, n, c)
        PROVE  Proposing
    BY <2>3 DEF CARevoke, Proposing
  <2>4. ASSUME NEW n \in Nodes, DirectApply(p, n)
        PROVE  Proposing
    <3>1. PICK c \in DirectCommands : Propose(p, n, c)
      BY <2>4 DEF DirectApply
    <3>2. c \in Commands /\ c.op # "ca_revoke"
      BY ClusterAssumption DEF ServerOps
    <3>3. QED
      BY <3>1, <3>2 DEF Proposing
  <2>5. ASSUME \/ \E n \in Nodes, r \in Roots : CAInitGenerate(p, n, r)
               \/ CAInitRedirect(p) \/ ApplyFails(p)
               \/ \E ok \in BOOLEAN : StoreKey(p, ok)
               \/ CAInitCommit(p) \/ CARevokeCommit(p)
        PROVE  Calm
    BY <2>5 DEF CAInitGenerate, CAInitRedirect, ApplyFails, StoreKey, CAInitCommit,
                CARevokeCommit, Done, Calm, Idle, raft, history, TypeOK
  <2>6. QED
    BY <1>1, <2>1, <2>2, <2>3, <2>4, <2>5 DEF Handler
<1>2. ASSUME NEW n \in Nodes, NEW now \in Times, ApplyEntry(n, now)
      PROVE  Calm
  BY <1>2 DEF ApplyEntry, Answered, Awaits, Calm, Idle, raft, history, TypeOK
<1>3. ASSUME NEW n \in Nodes,
             TakeSnapshot(n) \/ InstallSnapshot(n) \/ Elect(n) \/ Join(n) \/ Remove(n) \/ Restart(n)
      PROVE  Calm
  BY <1>3 DEF TakeSnapshot, InstallSnapshot, Elect, Join, Remove, Restart, Calm, raft, history
<1>4. ASSUME NEW n \in Nodes, Crash(n)
      PROVE  Calm
  BY <1>4 DEF Crash, Calm, Idle, history, TypeOK
<1>5. ASSUME StepDown \/ UNCHANGED vars
      PROVE  Calm
  BY <1>5 DEF StepDown, vars, Calm, raft, history
<1>6. ASSUME KeyStoreCall
      PROVE  Calm
  BY <1>6, KeyStoreCallEffect DEF Calm, raft, history
<1>7. QED
  BY <1>1, <1>2, <1>3, <1>4, <1>5, <1>6 DEF Next, Raft

-----------------------------------------------------------------------------
\* A proposal's number leads back to the command of the handler that waits for it.
IdsInv ==
    /\ \A e \in pending : e.id <= proposals
    /\ \A i \in 1..Len(log) : log[i].id <= proposals
    /\ \A p \in Procs : proc[p].pc = "waiting" =>
           /\ proc[p].id <= proposals
           /\ \A e \in pending : e.id = proc[p].id => e.cmd = proc[p].cmd
           /\ \A i \in 1..Len(log) : log[i].id = proc[p].id => log[i].cmd = proc[p].cmd

LEMMA IdsStep ==
    ASSUME TypeOK, IdsInv, [Next]_vars
    PROVE  IdsInv'
<1>1. CASE Proposing
  <2>1. PICK p \in Procs, n \in Nodes, c \in Commands : Propose(p, n, c)
    BY <1>1 DEF Proposing
  <2> DEFINE new == [id |-> proposals + 1, cmd |-> c]
  <2>2. /\ proposals' = proposals + 1 /\ log' = log
        /\ pending' = pending \cup {new}
        /\ proc' = [proc EXCEPT ![p] =
                       [pc |-> "waiting", cmd |-> c, node |-> n, id |-> proposals + 1]]
    BY <2>1 DEF Propose
  <2>3. proposals \in Nat /\ (\A e \in pending : e.id \in Nat)
        /\ (\A i \in 1..Len(log) : log[i].id \in Nat)
    <3>1. proposals \in Nat /\ (\A e \in Entries : e.id \in Nat)
      BY ClusterAssumption DEF TypeOK, Entries
    <3>2. pending \subseteq Entries /\ \A i \in 1..Len(log) : log[i] \in Entries
      BY DEF TypeOK
    <3>3. QED
      BY <3>1, <3>2
  <2>4. /\ \A e \in pending' : e.id <= proposals'
        /\ \A i \in 1..Len(log') : log'[i].id <= proposals'
    BY <2>2, <2>3 DEF IdsInv
  <2>5. ASSUME NEW q \in Procs, proc'[q].pc = "waiting"
        PROVE  /\ proc'[q].id <= proposals'
               /\ \A e \in pending' : e.id = proc'[q].id => e.cmd = proc'[q].cmd
               /\ \A i \in 1..Len(log') : log'[i].id = proc'[q].id => log'[i].cmd = proc'[q].cmd
    <3>1. CASE q = p
      <4>1. proc'[q].id = proposals + 1 /\ proc'[q].cmd = c
        BY <3>1, <2>2 DEF TypeOK
      <4>2. QED
        BY <4>1, <2>2, <2>3 DEF IdsInv
    <3>2. CASE q # p
      <4>1. proc'[q] = proc[q]
        BY <3>2, <2>2 DEF TypeOK
      <4>2. proc[q].id \in Nat /\ proc[q].id <= proposals
        BY <4>1, <2>5, HandlerShape, ClusterAssumption DEF IdsInv
      <4>3. QED
        BY <4>1, <4>2, <2>2, <2>3, <2>5 DEF IdsInv
    <3>3. QED
      BY <3>1, <3>2
  <2>6. QED
    BY <2>4, <2>5 DEF IdsInv
<1>2. ASSUME NEW e \in pending, Commit(e)
      PROVE  IdsInv'
  <2>1. pending' \subseteq pending /\ proposals' = proposals /\ proc' = proc
    BY <1>2 DEF Commit
  <2>2. \A i \in 1..Len(log') : log'[i] = e \/ (i \in 1..Len(log) /\ log'[i] = log[i])
    <3>1. Len(log) \in Nat
      BY DEF TypeOK
    <3>2. QED
      BY <3>1, <1>2, CommitLog
  <2>3. QED
    BY <2>1, <2>2 DEF IdsInv
<1>3. CASE Calm
  BY <1>3 DEF Calm, IdsInv
<1>4. QED
  BY <1>1, <1>2, <1>3, StepKinds

-----------------------------------------------------------------------------
\* Each root goes one way: from the handler that generated it to the proposals
\* to the log, and never back.
InitCmd(r)      == [op |-> "ca_init", arg |-> r]
Generated(p, r) == proc[p].pc = "generated" /\ proc[p].cmd = InitCmd(r)
InitPending(r)  == \E e \in pending : e.cmd = InitCmd(r)

RootInv(r) ==
    /\ r \notin drawn => /\ \A p \in Procs : ~Generated(p, r)
                         /\ ~InitPending(r) /\ ~InLog("ca_init", r)
    /\ \A p, q \in Procs : Generated(p, r) /\ Generated(q, r) => p = q
    /\ \A p \in Procs : Generated(p, r) => ~InitPending(r) /\ ~InLog("ca_init", r)
    /\ InitPending(r) => ~InLog("ca_init", r)
    /\ \A e, f \in pending : e.cmd = InitCmd(r) /\ f.cmd = InitCmd(r) => e = f

RootsInv == \A r \in Roots : RootInv(r)

LEMMA RootsStep ==
    ASSUME TypeOK, RootsInv, [Next]_vars
    PROVE  RootsInv'
<1> SUFFICES ASSUME NEW r \in Roots
             PROVE  RootInv(r)'
  BY DEF RootsInv
<1>r. RootInv(r)
  BY DEF RootsInv
<1>1. ASSUME NEW p \in Procs, CAInitPropose(p)
      PROVE  RootInv(r)'
  <2> DEFINE new == [id |-> proposals + 1, cmd |-> proc[p].cmd]
  <2>1. /\ pending' = pending \cup {new} /\ log' = log /\ drawn' = drawn
        /\ proc' = [proc EXCEPT ![p] = [pc |-> "waiting", cmd |-> proc[p].cmd,
                                        node |-> proc[p].node, id |-> proposals + 1]]
        /\ proc[p].pc = "generated"
    BY <1>1 DEF CAInitPropose, Propose
  <2>2. \A q \in Procs : Generated(q, r)' <=> q # p /\ Generated(q, r)
    BY <2>1 DEF Generated, TypeOK
  <2>3. InLog("ca_init", r)' <=> InLog("ca_init", r)
    BY <2>1 DEF InLog
  <2>4. CASE proc[p].cmd = InitCmd(r)
    <3>1. Generated(p, r)
      BY <2>1, <2>4 DEF Generated
    <3>2. ~InitPending(r) /\ ~InLog("ca_init", r) /\ r \in drawn
      BY <3>1, <1>r DEF RootInv
    <3>3. \A q \in Procs : ~Generated(q, r)'
      BY <3>1, <2>2, <1>r DEF RootInv
    <3>4. \A e \in pending' : e.cmd = InitCmd(r) => e = new
      BY <3>2, <2>1 DEF InitPending
    <3>5. QED
      BY <3>2, <3>3, <3>4, <2>1, <2>3 DEF RootInv
  <2>5. CASE proc[p].cmd # InitCmd(r)
    <3>1. InitPending(r)' <=> InitPending(r)
      BY <2>1, <2>5 DEF InitPending
    <3>2. \A e \in pending' : e.cmd = InitCmd(r) => e \in pending
      BY <2>1, <2>5
    <3>3. QED
      BY <3>1, <3>2, <2>1, <2>2, <2>3, <1>r DEF RootInv
  <2>6. QED
    BY <2>4, <2>5
<1>2. ASSUME NEW p \in Procs, NEW n \in Nodes, NEW c \in Commands, Propose(p, n, c),
             c.op # "ca_init", drawn \subseteq drawn'
      PROVE  RootInv(r)'
  <2>1. c # InitCmd(r)
    BY <1>2 DEF InitCmd
  <2>2. InitPending(r)' <=> InitPending(r)
    BY <1>2, <2>1 DEF InitPending, Propose
  <2>3. \A e \in pending' : e.cmd = InitCmd(r) => e \in pending
    BY <1>2, <2>1 DEF Propose
  <2>4. InLog("ca_init", r)' <=> InLog("ca_init", r)
    BY <1>2 DEF Propose, InLog
  <2>5. \A q \in Procs : Generated(q, r)' => Generated(q, r)
    BY <1>2 DEF Propose, Generated, TypeOK
  <2>6. QED
    BY <1>2, <2>2, <2>3, <2>4, <2>5, <1>r DEF RootInv
<1>3. ASSUME NEW p \in Procs, NEW n \in Nodes, NEW s \in Roots, CAInitGenerate(p, n, s)
      PROVE  RootInv(r)'
  <2>1. /\ pending' = pending /\ log' = log /\ drawn' = drawn \cup {s} /\ s \notin drawn
        /\ proc' = [proc EXCEPT ![p] = [pc |-> "generated", cmd |-> InitCmd(s), node |-> n]]
    BY <1>3 DEF CAInitGenerate, Draw, raft, InitCmd
  <2>2. (InLog("ca_init", r)' <=> InLog("ca_init", r)) /\ (InitPending(r)' <=> InitPending(r))
    BY <2>1 DEF InLog, InitPending
  <2>3. \A q \in Procs : Generated(q, r)' => Generated(q, r) \/ (q = p /\ r = s)
    BY <2>1 DEF Generated, InitCmd, TypeOK
  <2>4. QED
    BY <2>1, <2>2, <2>3, <1>r DEF RootInv
<1>4. ASSUME NEW e \in pending, Commit(e)
      PROVE  RootInv(r)'
  <2>1. pending' = pending \ {e} /\ proc' = proc /\ drawn' = drawn
    BY <1>4 DEF Commit
  <2>2. InLog("ca_init", r)' <=> InLog("ca_init", r) \/ e.cmd = InitCmd(r)
    BY <1>4, CommitLog DEF InitCmd
  <2>3. \A p \in Procs : Generated(p, r)' <=> Generated(p, r)
    BY <2>1 DEF Generated
  <2>4. InitPending(r)' => InitPending(r) /\ e.cmd # InitCmd(r)
    BY <2>1, <1>r DEF InitPending, RootInv
  <2>5. e.cmd = InitCmd(r) => InitPending(r)
    BY DEF InitPending
  <2>6. QED
    BY <2>1, <2>2, <2>3, <2>4, <2>5, <1>r DEF RootInv
<1>5. ASSUME Calm, drawn \subseteq drawn',
             \A p \in Procs : proc'[p].pc = "generated" => proc'[p] = proc[p]
      PROVE  RootInv(r)'
  <2>1. InLog("ca_init", r)' <=> InLog("ca_init", r)
    BY <1>5 DEF Calm, InLog
  <2>2. InitPending(r)' => InitPending(r)
    BY <1>5 DEF Calm, InitPending
  <2>3. \A p \in Procs : Generated(p, r)' => Generated(p, r)
    BY <1>5 DEF Generated
  <2>4. QED
    BY <1>5, <2>1, <2>2, <2>3, <1>r DEF RootInv, Calm
<1>6. ASSUME NEW p \in Procs, Handler(p)
      PROVE  RootInv(r)'
  <2>1. ASSUME NEW n \in Nodes, NEW k \in Keys, GenerateKey(p, n, k)
        PROVE  RootInv(r)'
    BY <2>1, <1>2, CommandTypes DEF GenerateKey, Draw
  <2>2. ASSUME NEW n \in Nodes, NEW c \in Serials, CARevoke(p, n, c)
        PROVE  RootInv(r)'
    BY <2>2, <1>2, CommandTypes DEF CARevoke
  <2>3. ASSUME NEW n \in Nodes, DirectApply(p, n)
        PROVE  RootInv(r)'
    <3>1. PICK c \in DirectCommands : Propose(p, n, c)
      BY <2>3 DEF DirectApply
    <3>2. c \in Commands /\ c.op # "ca_init"
      BY ClusterAssumption DEF ServerOps
    <3>3. QED
      BY <2>3, <3>1, <3>2, <1>2 DEF DirectApply
  <2>4. ASSUME \/ CAInitRedirect(p) \/ ApplyFails(p)
               \/ \E ok \in BOOLEAN : StoreKey(p, ok)
               \/ CAInitCommit(p) \/ CARevokeCommit(p)
        PROVE  RootInv(r)'
    <3>1. Calm /\ drawn' = drawn
      BY <2>4 DEF CAInitRedirect, ApplyFails, StoreKey, CAInitCommit, CARevokeCommit,
                  Done, Calm, Idle, raft, history, TypeOK
    <3>2. \A q \in Procs : proc'[q].pc = "generated" => proc'[q] = proc[q]
      BY <2>4 DEF CAInitRedirect, ApplyFails, StoreKey, CAInitCommit, CARevokeCommit,
                  Done, Idle, TypeOK
    <3>3. QED
      BY <3>1, <3>2, <1>5
  <2>5. QED
    BY <1>6, <1>1, <1>3, <2>1, <2>2, <2>3, <2>4 DEF Handler
<1>7. ASSUME NEW n \in Nodes, NEW now \in Times, ApplyEntry(n, now)
      PROVE  RootInv(r)'
  <2>1. Calm /\ drawn' = drawn
    BY <1>7 DEF ApplyEntry, Answered, Awaits, Calm, Idle, raft, history, TypeOK
  <2>2. \A q \in Procs : proc'[q].pc = "generated" => proc'[q] = proc[q]
    BY <1>7 DEF ApplyEntry, Answered, Awaits, Idle, TypeOK
  <2>3. QED
    BY <2>1, <2>2, <1>5
<1>8. ASSUME NEW n \in Nodes,
             TakeSnapshot(n) \/ InstallSnapshot(n) \/ Elect(n) \/ Join(n) \/ Remove(n) \/ Restart(n)
      PROVE  RootInv(r)'
  BY <1>8, <1>5 DEF TakeSnapshot, InstallSnapshot, Elect, Join, Remove, Restart, Calm, raft, history
<1>9. ASSUME NEW n \in Nodes, Crash(n)
      PROVE  RootInv(r)'
  <2>1. Calm /\ drawn' = drawn
    BY <1>9 DEF Crash, Calm, Idle, history, TypeOK
  <2>2. \A q \in Procs : proc'[q].pc = "generated" => proc'[q] = proc[q]
    BY <1>9 DEF Crash, Idle, TypeOK
  <2>3. QED
    BY <2>1, <2>2, <1>5
<1>10. ASSUME StepDown \/ UNCHANGED vars
       PROVE  RootInv(r)'
  BY <1>10, <1>5 DEF StepDown, vars, Calm, raft, history
<1>11. CASE KeyStoreCall
  BY <1>11, <1>5, KeyStoreCallEffect DEF Calm, raft, history
<1>12. QED
  BY <1>4, <1>6, <1>7, <1>8, <1>9, <1>10, <1>11 DEF Next, Raft

-----------------------------------------------------------------------------
\* A step that changes neither what servers serve nor what clients were told,
\* and brings no handler nearer to its answer.
Quiet ==
    /\ UNCHANGED <<log, reference, local, acked>>
    /\ \A p \in Procs : proc'[p].pc \in {"waiting", "replicated"} => proc'[p] = proc[p]

Answering(p) == (\E ok \in BOOLEAN : StoreKey(p, ok)) \/ CAInitCommit(p) \/ CARevokeCommit(p)

LEMMA ServingKinds ==
    ASSUME TypeOK, [Next]_vars
    PROVE  \/ Proposing \/ Quiet
           \/ \E e \in pending : Commit(e)
           \/ \E n \in Nodes, now \in Times : ApplyEntry(n, now)
           \/ \E n \in Nodes : Crash(n)
           \/ \E p \in Procs : Answering(p)
           \/ KeyStoreCall
<1> USE CommandTypes
<1>1. ASSUME NEW p \in Procs, Handler(p)
      PROVE  Proposing \/ Quiet \/ Answering(p)
  <2>1. ASSUME NEW n \in Nodes, NEW k \in Keys, GenerateKey(p, n, k)
        PROVE  Proposing
    BY <2>1 DEF GenerateKey, Proposing
  <2>2. ASSUME CAInitPropose(p)
        PROVE  Proposing
    <3>1. PICK r \in Roots : proc[p].cmd = [op |-> "ca_init", arg |-> r]
      BY <2>2, HandlerShape DEF CAInitPropose
    <3>2. proc[p].cmd.op # "ca_revoke" /\ proc[p].cmd \in Commands /\ proc[p].node \in Nodes
      BY <2>2, <3>1, HandlerShape DEF CAInitPropose
    <3>3. QED
      BY <2>2, <3>2 DEF CAInitPropose, Proposing
  <2>3. ASSUME NEW n \in Nodes, NEW c \in Serials, CARevoke(p, n, c)
        PROVE  Proposing
    BY <2>3 DEF CARevoke, Proposing
  <2>4. ASSUME NEW n \in Nodes, DirectApply(p, n)
        PROVE  Proposing
    <3>1. PICK c \in DirectCommands : Propose(p, n, c)
      BY <2>4 DEF DirectApply
    <3>2. c \in Commands /\ c.op # "ca_revoke"
      BY ClusterAssumption DEF ServerOps
    <3>3. QED
      BY <3>1, <3>2 DEF Proposing
  <2>5. ASSUME \/ \E n \in Nodes, r \in Roots : CAInitGenerate(p, n, r)
               \/ CAInitRedirect(p) \/ ApplyFails(p)
        PROVE  Quiet
    BY <2>5 DEF CAInitGenerate, CAInitRedirect, ApplyFails, Quiet, Idle, raft, history, TypeOK
  <2>6. QED
    BY <1>1, <2>1, <2>2, <2>3, <2>4, <2>5 DEF Handler, Answering
<1>2. ASSUME NEW n \in Nodes,
             TakeSnapshot(n) \/ InstallSnapshot(n) \/ Elect(n) \/ Join(n) \/ Remove(n) \/ Restart(n)
      PROVE  Quiet
  BY <1>2 DEF TakeSnapshot, InstallSnapshot, Elect, Join, Remove, Restart, Quiet, raft, history
<1>3. ASSUME StepDown \/ UNCHANGED vars
      PROVE  Quiet
  BY <1>3 DEF StepDown, vars, Quiet, raft, history
<1>4. QED
  BY <1>1, <1>2, <1>3 DEF Next, Raft

\* What is in the log stays there.
LEMMA LogGrows ==
    ASSUME TypeOK, [Next]_vars, NEW op, NEW x, InLog(op, x)
    PROVE  InLog(op, x)'
<1>1. CASE log' = log
  BY <1>1 DEF InLog
<1>2. ASSUME NEW e \in pending, Commit(e)
      PROVE  InLog(op, x)'
  BY <1>2, CommitLog
<1>3. QED
  BY <1>1, <1>2, StepKinds DEF Proposing, Propose, Calm

\* A handler whose command was applied finds it in the log.
ServedInv ==
    /\ ServedIsCommitted
    /\ \A p \in Procs : proc[p].pc = "replicated" =>
           proc[p].cmd.op \in ServerOps /\ InLog(proc[p].cmd.op, proc[p].cmd.arg)

LEMMA ServedStep ==
    ASSUME TypeOK, TypeOK', IdsInv, ServedInv, [Next]_vars
    PROVE  ServedInv'
<1>1. ASSUME local' = local,
             \A p \in Procs : proc'[p].pc = "replicated" => proc'[p] = proc[p]
      PROVE  ServedInv'
  BY <1>1, LogGrows DEF ServedInv, ServedIsCommitted
<1>2. CASE Proposing
  <2>1. PICK p \in Procs, n \in Nodes, c \in Commands : Propose(p, n, c)
    BY <1>2 DEF Proposing
  <2>2. QED
    BY <2>1, <1>1 DEF Propose, TypeOK
<1>3. CASE Quiet
  BY <1>3, <1>1 DEF Quiet
<1>4. ASSUME NEW e \in pending, Commit(e)
      PROVE  ServedInv'
  BY <1>4, <1>1 DEF Commit
<1>5. ASSUME NEW n \in Nodes, NEW now \in Times, ApplyEntry(n, now)
      PROVE  ServedInv'
  <2> DEFINE e == log[applied[n] + 1]
  <2>1. applied[n] + 1 \in 1..Len(log) /\ log' = log /\ local' = local
        /\ proc' = [p \in Procs |-> IF Awaits(p, n, e) THEN Answered(p, n, e) ELSE proc[p]]
    BY <1>5, NextEntry DEF ApplyEntry, raft
  <2>2. ASSUME NEW p \in Procs, proc'[p].pc = "replicated"
        PROVE  proc'[p].cmd.op \in ServerOps /\ InLog(proc'[p].cmd.op, proc'[p].cmd.arg)
    <3>1. CASE Awaits(p, n, e)
      <4>1. proc'[p] = Answered(p, n, e)
        BY <3>1, <2>1
      <4>2. proc'[p].cmd = proc[p].cmd /\ proc[p].cmd.op \in ServerOps
        BY <4>1, <2>2 DEF Answered, Idle
      <4>3. e.cmd = proc[p].cmd /\ proc[p].cmd \in Commands
        BY <3>1, <2>1, HandlerShape DEF Awaits, IdsInv
      <4>4. proc[p].cmd = [op |-> proc[p].cmd.op, arg |-> proc[p].cmd.arg]
        BY <4>3 DEF Commands
      <4>5. QED
        BY <4>2, <4>3, <4>4, <2>1 DEF InLog
    <3>2. CASE ~Awaits(p, n, e)
      BY <3>2, <2>1, <2>2 DEF ServedInv
    <3>3. QED
      BY <3>1, <3>2
  <2>3. ASSUME NEW op, NEW x
        PROVE  InLog(op, x)' <=> InLog(op, x)
    BY <2>1 DEF InLog
  <2>4. QED
    BY <2>1, <2>2, <2>3 DEF ServedInv, ServedIsCommitted
<1>6. ASSUME NEW n \in Nodes, Crash(n)
      PROVE  ServedInv'
  <2>1. log' = log /\ \A m \in Nodes : local'[m] = local[m] \/ local'[m] = EmptyLocal
    BY <1>6 DEF Crash, TypeOK
  <2>2. \A p \in Procs : proc'[p].pc = "replicated" => proc'[p] = proc[p]
    BY <1>6 DEF Crash, Idle, TypeOK
  <2>3. ServedIsCommitted'
    BY <2>1, LogGrows DEF ServedInv, ServedIsCommitted, EmptyLocal
  <2>4. QED
    BY <2>2, <2>3, LogGrows DEF ServedInv
<1>7. ASSUME NEW p \in Procs, Answering(p)
      PROVE  ServedInv'
  <2>1. \A q \in Procs : proc'[q].pc = "replicated" => proc'[q] = proc[q]
    BY <1>7 DEF Answering, StoreKey, CAInitCommit, CARevokeCommit, Done, Idle, TypeOK
  <2>2. proc[p].pc = "replicated" /\ InLog(proc[p].cmd.op, proc[p].cmd.arg)
    BY <1>7 DEF Answering, StoreKey, CAInitCommit, CARevokeCommit, Replicated, ServedInv
  <2>3. ServedIsCommitted'
    <3>1. ASSUME NEW ok \in BOOLEAN, StoreKey(p, ok)
          PROVE  ServedIsCommitted'
      <4>1. \A m \in Nodes :
                /\ local'[m].keys \ local'[m].own
                       \subseteq (local[m].keys \ local[m].own) \cup {proc[p].cmd.arg}
                /\ local'[m].root = local[m].root /\ local'[m].revoked = local[m].revoked
        <5>1. proc[p].cmd.arg \in Keys
          BY <3>1, HandlerShape DEF StoreKey, Replicated, Commands
        <5>2. QED
          BY <3>1, <5>1, KeyMapChanges DEF StoreKey, TypeOK
      <4>2. QED
        <5>1. InLog("generate_key", proc[p].cmd.arg)
          BY <3>1, <2>2 DEF StoreKey, Replicated
        <5>2. QED
          BY <4>1, <5>1, LogGrows DEF ServedInv, ServedIsCommitted
    <3>2. ASSUME CAInitCommit(p)
          PROVE  ServedIsCommitted'
      <4>1. \A m \in Nodes :
                /\ local'[m].root \in {local[m].root, proc[p].cmd.arg}
                /\ local'[m].keys = local[m].keys /\ local'[m].own = local[m].own
                /\ local'[m].revoked = local[m].revoked
        <5>1. CASE local[proc[p].node].root = None
          <6>1. local' = [local EXCEPT ![proc[p].node].root = proc[p].cmd.arg]
            BY <3>2, <5>1 DEF CAInitCommit
          <6>2. QED
            BY <6>1 DEF TypeOK, LocalStates
        <5>2. CASE local[proc[p].node].root # None
          BY <3>2, <5>2 DEF CAInitCommit
        <5>3. QED
          BY <5>1, <5>2
      <4>2. QED
        BY <3>2, <4>1, <2>2, LogGrows DEF ServedInv, ServedIsCommitted, CAInitCommit, Replicated
    <3>3. ASSUME CARevokeCommit(p)
          PROVE  ServedIsCommitted'
      <4>1. \A m \in Nodes :
                /\ local'[m].revoked \subseteq local[m].revoked \cup {proc[p].cmd.arg}
                /\ local'[m].keys = local[m].keys /\ local'[m].own = local[m].own
                /\ local'[m].root = local[m].root
        BY <3>3 DEF CARevokeCommit, TypeOK, LocalStates
      <4>2. QED
        BY <3>3, <4>1, <2>2, LogGrows DEF ServedInv, ServedIsCommitted, CARevokeCommit, Replicated
    <3>4. QED
      BY <1>7, <3>1, <3>2, <3>3 DEF Answering
  <2>4. QED
    BY <2>1, <2>3, LogGrows DEF ServedInv
<1>8. CASE KeyStoreCall
  <2>1. ServedIsCommitted'
    BY <1>8, KeyStoreCallEffect, LogGrows DEF ServedInv, ServedIsCommitted
  <2>2. QED
    BY <1>8, <2>1, KeyStoreCallEffect, LogGrows DEF ServedInv
<1>9. QED
  BY <1>2, <1>3, <1>4, <1>5, <1>6, <1>7, <1>8, ServingKinds

-----------------------------------------------------------------------------
\* A key in the log is in the single copy until the log deletes it.
KeysInv ==
    /\ \A k \in acked.keys : InLog("generate_key", k)
    /\ \A k \in Keys : InLog("generate_key", k) => k \in Latest.keys \/ InLog("delete_key", k)

\* What a commit does to the single copy.
LEMMA CommitLatest ==
    ASSUME TypeOK, reference \in Seq(States), Len(reference) \in Nat \ {0},
           NEW e \in pending, Commit(e)
    PROVE  Latest \in States /\ Latest' = Effect(Latest, e.cmd)
<1>1. Latest \in States
  BY DEF Latest
<1>2. reference' = Append(reference, Effect(Latest, e.cmd))
  BY DEF Commit
<1>3. Effect(Latest, e.cmd) \in States
  BY <1>1, CommitLog, EffectType
<1>4. QED
  BY <1>1, <1>2, <1>3 DEF Latest

LEMMA ReferenceType ==
    ASSUME TypeOK, ReplicaInv
    PROVE  reference \in Seq(States) /\ Len(reference) \in Nat \ {0}
  BY DEF TypeOK, ReplicaInv, States

LEMMA KeysStep ==
    ASSUME TypeOK, ReplicaInv, ServedInv, KeysInv, [Next]_vars
    PROVE  KeysInv'
<1>1. ASSUME log' = log, reference' = reference,
             \A k \in acked'.keys : k \in acked.keys \/ InLog("generate_key", k)
      PROVE  KeysInv'
  BY <1>1 DEF KeysInv, InLog, Latest
<1>2. CASE Proposing
  BY <1>2, <1>1 DEF Proposing, Propose, history
<1>3. CASE Quiet
  BY <1>3, <1>1 DEF Quiet
<1>4. ASSUME NEW e \in pending, Commit(e)
      PROVE  KeysInv'
  <2>1. Latest \in States /\ Latest' = Effect(Latest, e.cmd) /\ e.cmd \in Commands
    BY <1>4, CommitLatest, ReferenceType, CommitLog
  <2>2. \A op, x : InLog(op, x)' <=> InLog(op, x) \/ e.cmd = [op |-> op, arg |-> x]
    BY <1>4, CommitLog
  <2>3. acked' = acked
    BY <1>4 DEF Commit
  <2>4. ASSUME NEW k \in Keys, InLog("generate_key", k)'
        PROVE  k \in Latest'.keys \/ InLog("delete_key", k)'
    <3>1. CASE e.cmd = [op |-> "generate_key", arg |-> k]
      BY <3>1, <2>1 DEF Effect, States
    <3>2. CASE InLog("generate_key", k) /\ k \in Latest.keys
      <4>1. k \in Latest'.keys \/ (e.cmd.op = "delete_key" /\ e.cmd.arg = k)
        BY <3>2, <2>1 DEF Effect, States, Commands
      <4>2. e.cmd = [op |-> e.cmd.op, arg |-> e.cmd.arg]
        BY <2>1 DEF Commands
      <4>3. QED
        BY <4>1, <4>2, <2>2
    <3>3. QED
      BY <2>4, <2>2, <3>1, <3>2 DEF KeysInv
  <2>5. QED
    BY <2>2, <2>3, <2>4 DEF KeysInv
<1>5. ASSUME NEW n \in Nodes, NEW now \in Times, ApplyEntry(n, now) \/ Crash(n)
      PROVE  KeysInv'
  BY <1>5, <1>1 DEF ApplyEntry, Crash, raft, history
<1>6. ASSUME NEW p \in Procs, Answering(p)
      PROVE  KeysInv'
  <2>1. log' = log /\ reference' = reference
    BY <1>6 DEF Answering, StoreKey, CAInitCommit, CARevokeCommit, raft
  <2>2. ASSUME NEW ok \in BOOLEAN, StoreKey(p, ok)
        PROVE  \A k \in acked'.keys : k \in acked.keys \/ InLog("generate_key", k)
    BY <2>2 DEF StoreKey, Replicated, ServedInv, TypeOK, Answers
  <2>3. ASSUME CAInitCommit(p) \/ CARevokeCommit(p)
        PROVE  acked'.keys = acked.keys
    BY <2>3 DEF CAInitCommit, CARevokeCommit, TypeOK, Answers
  <2>4. QED
    BY <1>6, <1>1, <2>1, <2>2, <2>3 DEF Answering
<1>7. CASE KeyStoreCall
  BY <1>7, <1>1, KeyStoreCallEffect DEF raft, history
<1>8. QED
  <2>1. Times # {}
    BY ClusterAssumption
  <2>2. QED
    BY <1>2, <1>3, <1>4, <1>5, <1>6, <1>7, <2>1, ServingKinds

-----------------------------------------------------------------------------
\* A revocation lives as long as the root it was made for.  That root is in the
\* log, so no later command brings it back with an empty list; and the server
\* whose handler revokes keeps its root meanwhile, so the answer names the root
\* the command was applied to, or one that is no longer the root.
Survives(r, c) == Latest.root = r => c \in Latest.revoked
Revoking(p)    == proc[p].pc \in {"waiting", "replicated"} /\ proc[p].cmd.op = "ca_revoke"
Committed(p)   == \/ proc[p].pc = "replicated"
                  \/ \E i \in 1..Len(log) : log[i].id = proc[p].id

RevInv ==
    /\ \A ra \in acked.revoked : InLog("ca_init", ra[1]) /\ Survives(ra[1], ra[2])
    /\ \A p \in Procs : Revoking(p) =>
           /\ local[proc[p].node].root # None
           /\ Committed(p) => Survives(local[proc[p].node].root, proc[p].cmd.arg)

\* The root that is in the log survives every commit.
LEMMA CommitSurvives ==
    ASSUME TypeOK, ReplicaInv, RootsInv, NEW e \in pending, Commit(e),
           NEW r \in Roots, NEW c \in Serials, InLog("ca_init", r)
    PROVE  /\ Survives(r, c) => Survives(r, c)'
           /\ e.cmd = [op |-> "ca_revoke", arg |-> c] => Survives(r, c)'
<1>1. Latest \in States /\ Latest' = Effect(Latest, e.cmd) /\ e.cmd \in Commands
  BY CommitLatest, ReferenceType, CommitLog
<1>2. e.cmd # InitCmd(r)
  BY DEF RootsInv, RootInv, InitPending
<1>3. CASE e.cmd.op = "ca_init"
  <2>1. e.cmd.arg # r
    <3>1. e.cmd = [op |-> e.cmd.op, arg |-> e.cmd.arg]
      BY <1>1 DEF Commands
    <3>2. QED
      BY <3>1, <1>2, <1>3 DEF InitCmd
  <2>2. Latest'.root = e.cmd.arg
    BY <1>1, <1>3 DEF Effect, States
  <2>3. QED
    BY <1>3, <2>1, <2>2 DEF Survives
<1>4. CASE e.cmd.op # "ca_init"
  <2>1. Latest'.root = Latest.root /\ Latest.revoked \subseteq Latest'.revoked
    BY <1>1, <1>4 DEF Effect, States, Commands
  <2>2. ASSUME e.cmd = [op |-> "ca_revoke", arg |-> c], Latest.root # None
        PROVE  c \in Latest'.revoked
    BY <1>1, <2>2 DEF Effect, States
  <2>3. r # None
    BY ClusterAssumption
  <2>4. QED
    BY <2>1, <2>2, <2>3 DEF Survives
<1>5. QED
  BY <1>3, <1>4

LEMMA RevStep ==
    ASSUME TypeOK, TypeOK', ReplicaInv, IdsInv, RootsInv, ServedInv, RevInv, [Next]_vars
    PROVE  RevInv'
<1>t. ASSUME NEW p \in Procs, Revoking(p)
      PROVE  proc[p].node \in Nodes /\ proc[p].cmd.arg \in Serials /\ proc[p].cmd \in Commands
             /\ proc[p].cmd = [op |-> "ca_revoke", arg |-> proc[p].cmd.arg]
             /\ local[proc[p].node].root \in Roots
             /\ InLog("ca_init", local[proc[p].node].root)
  <2>1. proc[p].node \in Nodes /\ proc[p].cmd \in Commands
    BY <1>t, HandlerShape DEF Revoking
  <2>2. proc[p].cmd.arg \in Serials /\ proc[p].cmd = [op |-> "ca_revoke", arg |-> proc[p].cmd.arg]
    BY <1>t, <2>1 DEF Revoking, Commands
  <2>3. local[proc[p].node].root # None
    BY <1>t DEF RevInv
  <2>4. QED
    BY <2>1, <2>2, <2>3 DEF TypeOK, ServedInv, ServedIsCommitted, LocalStates
<1>1. CASE Proposing
  <2>1. PICK p \in Procs, n \in Nodes, c \in Commands :
            Propose(p, n, c) /\ (c.op = "ca_revoke" => local[n].root # None)
    BY <1>1 DEF Proposing
  <2>2. /\ UNCHANGED <<log, local, reference, acked>>
        /\ proc' = [proc EXCEPT ![p] =
                       [pc |-> "waiting", cmd |-> c, node |-> n, id |-> proposals + 1]]
    BY <2>1 DEF Propose, history
  <2>3. \A i \in 1..Len(log) : log[i].id # proposals + 1
    <3>1. proposals \in Nat /\ (\A e \in Entries : e.id \in Nat)
      BY ClusterAssumption DEF TypeOK, Entries
    <3>2. \A i \in 1..Len(log) : log[i] \in Entries
      BY DEF TypeOK
    <3>3. QED
      BY <3>1, <3>2 DEF IdsInv
  <2>4. ASSUME NEW q \in Procs, Revoking(q)'
        PROVE  /\ local'[proc'[q].node].root # None
               /\ Committed(q)' => Survives(local[proc'[q].node].root, proc'[q].cmd.arg)
    <3>1. CASE q = p
      BY <3>1, <2>1, <2>2, <2>3, <2>4 DEF Revoking, Committed, TypeOK
    <3>2. CASE q # p
      BY <3>2, <2>2, <2>4 DEF Revoking, Committed, RevInv, TypeOK
    <3>3. QED
      BY <3>1, <3>2
  <2>5. QED
    BY <2>2, <2>4 DEF RevInv, InLog, Survives, Latest
<1>2. CASE Quiet
  BY <1>2 DEF Quiet, RevInv, Revoking, Committed, InLog, Survives, Latest
<1>3. ASSUME NEW e \in pending, Commit(e)
      PROVE  RevInv'
  <2>1. UNCHANGED <<local, proc, acked>>
    BY <1>3 DEF Commit
  <2>2. \A i \in 1..Len(log') : log'[i] = e \/ (i \in 1..Len(log) /\ log'[i] = log[i])
    <3>1. Len(log) \in Nat
      BY DEF TypeOK
    <3>2. QED
      BY <3>1, <1>3, CommitLog
  <2>3. ASSUME NEW ra \in acked.revoked
        PROVE  InLog("ca_init", ra[1])' /\ Survives(ra[1], ra[2])'
    <3>1. ra[1] \in Roots /\ ra[2] \in Serials
      BY DEF TypeOK, Answers
    <3>2. QED
      BY <1>3, <3>1, CommitSurvives, CommitLog DEF RevInv
  <2>4. ASSUME NEW p \in Procs, Revoking(p), Committed(p)'
        PROVE  Survives(local[proc[p].node].root, proc[p].cmd.arg)'
    <3>1. CASE Committed(p)
      <4>1. Survives(local[proc[p].node].root, proc[p].cmd.arg)
        BY <2>4, <3>1 DEF RevInv
      <4>2. \A r \in Roots, c \in Serials :
               InLog("ca_init", r) /\ Survives(r, c) => Survives(r, c)'
        BY <1>3, CommitSurvives
      <4>3. QED
        BY <4>1, <4>2, <2>4, <1>t, <2>1 DEF Survives
    <3>2. CASE ~Committed(p)
      <4>1. proc[p].pc = "waiting" /\ e.id = proc[p].id
        BY <3>2, <2>1, <2>2, <2>4 DEF Committed, Revoking
      <4>2. e.cmd = [op |-> "ca_revoke", arg |-> proc[p].cmd.arg]
        BY <4>1, <2>4, <1>t DEF IdsInv
      <4>3. \A r \in Roots, c \in Serials :
               InLog("ca_init", r) /\ e.cmd = [op |-> "ca_revoke", arg |-> c] => Survives(r, c)'
        BY <1>3, CommitSurvives
      <4>4. QED
        BY <4>2, <4>3, <2>4, <1>t, <2>1 DEF Survives
    <3>3. QED
      BY <3>1, <3>2
  <2>5. QED
    BY <2>1, <2>3, <2>4 DEF RevInv, Revoking, Survives
<1>4. ASSUME NEW n \in Nodes, NEW now \in Times, ApplyEntry(n, now)
      PROVE  RevInv'
  <2> DEFINE e == log[applied[n] + 1]
  <2>1. /\ applied[n] + 1 \in 1..Len(log)
        /\ UNCHANGED <<log, local, reference, acked>>
        /\ proc' = [p \in Procs |-> IF Awaits(p, n, e) THEN Answered(p, n, e) ELSE proc[p]]
    BY <1>4, NextEntry DEF ApplyEntry, raft, history
  <2>2. ASSUME NEW p \in Procs, Revoking(p)'
        PROVE  /\ Revoking(p) /\ proc'[p].node = proc[p].node /\ proc'[p].cmd = proc[p].cmd
               /\ Committed(p)' => Committed(p)
    <3>1. CASE Awaits(p, n, e)
      <4>1. proc'[p] = [pc |-> "replicated", cmd |-> proc[p].cmd, node |-> n]
        BY <3>1, <2>1, <2>2 DEF Answered, Idle, Revoking
      <4>2. QED
        BY <3>1, <4>1, <2>1, <2>2 DEF Revoking, Awaits, Committed
    <3>2. CASE ~Awaits(p, n, e)
      BY <3>2, <2>1, <2>2 DEF Revoking, Committed
    <3>3. QED
      BY <3>1, <3>2
  <2>3. QED
    BY <2>1, <2>2 DEF RevInv, InLog, Survives, Latest
<1>5. ASSUME NEW n \in Nodes, Crash(n)
      PROVE  RevInv'
  <2>1. /\ UNCHANGED <<log, reference, acked>>
        /\ \A m \in Nodes : m # n => local'[m] = local[m]
        /\ proc' = [p \in Procs |-> IF proc[p] # Idle /\ proc[p].node = n THEN Idle ELSE proc[p]]
    BY <1>5 DEF Crash, history, TypeOK
  <2>2. ASSUME NEW p \in Procs, Revoking(p)'
        PROVE  proc'[p] = proc[p] /\ proc[p].node # n /\ Revoking(p)
    BY <2>1, <2>2 DEF Revoking, Idle
  <2>3. ASSUME NEW p \in Procs, Revoking(p)'
        PROVE  local'[proc[p].node] = local[proc[p].node]
    BY <2>1, <2>2, <2>3, <1>t
  <2>4. QED
    BY <2>1, <2>2, <2>3 DEF RevInv, InLog, Survives, Latest, Committed
<1>6. ASSUME NEW p \in Procs, Answering(p)
      PROVE  RevInv'
  <2>1. UNCHANGED <<log, reference>> /\ proc' = [proc EXCEPT ![p] = Idle]
        /\ proc[p].pc = "replicated"
    BY <1>6 DEF Answering, StoreKey, CAInitCommit, CARevokeCommit, Done, Replicated, raft
  <2>2. ASSUME NEW q \in Procs, Revoking(q)'
        PROVE  proc'[q] = proc[q] /\ Revoking(q)
    BY <2>1, <2>2 DEF Revoking, Idle, TypeOK
  <2>3. ASSUME NEW q \in Procs, Revoking(q)
        PROVE  local'[proc[q].node].root = local[proc[q].node].root
    <3>1. CASE CAInitCommit(p)
      <4>1. CASE local[proc[p].node].root = None
        <5>1. local' = [local EXCEPT ![proc[p].node].root = proc[p].cmd.arg]
          BY <3>1, <4>1 DEF CAInitCommit
        <5>2. proc[q].node # proc[p].node
          BY <4>1, <2>3 DEF RevInv
        <5>3. QED
          BY <5>1, <5>2, <2>3, <1>t DEF TypeOK, LocalStates
      <4>2. CASE local[proc[p].node].root # None
        BY <3>1, <4>2 DEF CAInitCommit
      <4>3. QED
        BY <4>1, <4>2
    <3>2. ASSUME NEW ok \in BOOLEAN, StoreKey(p, ok)
          PROVE  local'[proc[q].node].root = local[proc[q].node].root
      <4>1. proc[p].cmd.arg \in Keys
        BY <3>2, HandlerShape DEF StoreKey, Replicated, Commands
      <4>2. QED
        BY <3>2, <4>1, <2>3, <1>t, KeyMapChanges DEF StoreKey, TypeOK
    <3>3. CASE CARevokeCommit(p)
      BY <3>3, <2>3, <1>t DEF CARevokeCommit, TypeOK, LocalStates
    <3>4. QED
      BY <1>6, <3>1, <3>2, <3>3 DEF Answering
  <2>4. ASSUME NEW ra \in acked'.revoked
        PROVE  InLog("ca_init", ra[1]) /\ Survives(ra[1], ra[2])
    <3>1. CASE CARevokeCommit(p)
      <4>1. Revoking(p) /\ Committed(p)
        BY <3>1 DEF CARevokeCommit, Replicated, Revoking, Committed
      <4>2. ra \in acked.revoked \/ ra = <<local[proc[p].node].root, proc[p].cmd.arg>>
        BY <3>1 DEF CARevokeCommit, TypeOK, Answers
      <4>3. CASE ra = <<local[proc[p].node].root, proc[p].cmd.arg>>
        <5>1. ra[1] = local[proc[p].node].root /\ ra[2] = proc[p].cmd.arg
          BY <4>3
        <5>2. InLog("ca_init", local[proc[p].node].root)
          BY <4>1, <1>t
        <5>3. Survives(local[proc[p].node].root, proc[p].cmd.arg)
          BY <4>1 DEF RevInv
        <5>4. QED
          BY <5>1, <5>2, <5>3
      <4>4. QED
        BY <4>2, <4>3 DEF RevInv
    <3>2. ASSUME \/ CAInitCommit(p)
                 \/ \E ok \in BOOLEAN : StoreKey(p, ok)
          PROVE  acked'.revoked = acked.revoked
      BY <3>2 DEF CAInitCommit, StoreKey, TypeOK, Answers
    <3>3. QED
      BY <1>6, <2>4, <3>1, <3>2 DEF Answering, RevInv
  <2>5. QED
    BY <2>1, <2>2, <2>3, <2>4 DEF RevInv, InLog, Survives, Latest, Committed
<1>7. CASE KeyStoreCall
  <2>1. UNCHANGED <<log, proc, reference>> /\ acked'.revoked = acked.revoked
    BY <1>7, KeyStoreCallEffect DEF raft, history
  <2>2. \A n \in Nodes : local'[n].root = local[n].root
    BY <1>7, KeyStoreCallEffect
  <2>3. ASSUME NEW p \in Procs, Revoking(p)
        PROVE  local'[proc[p].node].root = local[proc[p].node].root
    BY <2>2, <2>3, <1>t
  <2>4. QED
    BY <2>1, <2>3 DEF RevInv, Revoking, Committed, InLog, Survives, Latest
<1>8. QED
  BY <1>1, <1>2, <1>3, <1>4, <1>5, <1>6, <1>7, ServingKinds

-----------------------------------------------------------------------------
IInv == TypeOK /\ ReplicaInv /\ IdsInv /\ RootsInv /\ ServedInv /\ KeysInv /\ RevInv

LEMMA InitInv == Init => IInv
<1> SUFFICES ASSUME Init PROVE IInv
  OBVIOUS
<1>1. TypeOK
  BY EmptyTypes, ClusterAssumption
     DEF Init, TypeOK, Handling, EmptyLocal, NoAnswers, States, Idle, LocalStates, Answers
<1>2. ReplicaInv
  BY EmptyTypes DEF Init, ReplicaInv, Follows
<1>3. IdsInv
  BY DEF Init, IdsInv, Idle
<1>4. RootsInv
  BY DEF Init, RootsInv, RootInv, Generated, InitPending, InLog, Idle
<1>5. ServedInv
  BY DEF Init, ServedInv, ServedIsCommitted, EmptyLocal, Idle
<1>6. KeysInv /\ RevInv
  BY DEF Init, KeysInv, RevInv, NoAnswers, InLog, Revoking, Idle
<1>7. QED
  BY <1>1, <1>2, <1>3, <1>4, <1>5, <1>6 DEF IInv

LEMMA StepInv == IInv /\ [Next]_vars => IInv'
<1> SUFFICES ASSUME IInv, [Next]_vars PROVE IInv'
  OBVIOUS
<1> USE DEF IInv
<1>1. TypeOK'
  <2>1. ASSUME NEW p \in Procs, Handler(p)
        PROVE  TypeOK'
    BY <2>1, HandlerType DEF RevInv, Revoking, Replicated
  <2>2. CASE Raft
    BY <2>2, RaftType, ReferenceType DEF ReplicaInv
  <2>3. CASE UNCHANGED vars
    BY <2>3 DEF TypeOK, vars, raft, replica, history
  <2>4. CASE KeyStoreCall
    BY <2>4, KeyStoreCallEffect DEF TypeOK, raft, replica, history
  <2>5. QED
    BY <2>1, <2>2, <2>3, <2>4 DEF Next
<1>2. QED
  BY <1>1, ReplicaStep, IdsStep, RootsStep, ServedStep, KeysStep, RevStep

LEMMA Invariance == Spec => []IInv
  BY InitInv, StepInv, PTL DEF Spec

\* Type correctness of the cluster, its handlers and its replicas.
THEOREM TypeCorrect == Spec => []TypeOK
<1>1. IInv => TypeOK
  BY DEF IInv
<1>2. QED
  BY Invariance, <1>1, PTL

\* FSM.Apply, Snapshot and Restore keep every replica, after any restarts and
\* installed snapshots, at the state of the single copy at its place in the log.
THEOREM ReplicasAgreement == Spec => []ReplicasAgree
<1>1. IInv => ReplicasAgree
  BY DEF IInv, TypeOK, ReplicaInv, ReplicasAgree
<1>2. QED
  BY Invariance, <1>1, PTL

\* handleGenerateKey, handleCAInit and handleCARevoke make nothing part of what
\* their server serves before its command is committed, also while the handlers
\* of /keystore and /keys/import store keys of their own, or take keys away, on
\* any server: those keys, and only those, are outside the statement.
THEOREM ServedAreCommitted == Spec => []ServedIsCommitted
<1>1. IInv => ServedIsCommitted
  BY DEF IInv, ServedInv
<1>2. QED
  BY Invariance, <1>1, PTL

\* What handleGenerateKey and handleCARevoke answered with success stays in the
\* replicated state: a key until the log deletes it, a revocation as long as its
\* root is the root.  Answers of the handlers that send no command are not meant.
THEOREM AckedAreReplicated == Spec => []AckedIsReplicated
<1>1. IInv => AckedIsReplicated
  <2> SUFFICES ASSUME IInv PROVE AckedIsReplicated
    OBVIOUS
  <2>1. \A k \in acked.keys : k \in Latest.keys \/ InLog("delete_key", k)
    BY DEF IInv, TypeOK, KeysInv, Answers
  <2>2. \A ra \in acked.revoked : Latest.root = ra[1] => ra[2] \in Latest.revoked
    BY DEF IInv, RevInv, Survives
  <2>3. QED
    BY <2>1, <2>2 DEF AckedIsReplicated
<1>2. QED
  BY Invariance, <1>1, PTL
=============================================================================
