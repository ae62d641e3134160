---------------------------- MODULE Replication ----------------------------
(***************************************************************************)
(* Replicas of one document that exchange patches: the clock vector, the   *)
(* identity of every operation, and the root register, the simplest of the *)
(* last-writer-wins nodes.  The embedding application carries the patches; *)
(* it may delay, reorder and duplicate them, but hands a replica a patch   *)
(* only after the patches its author had applied.                          *)
(***************************************************************************)
EXTENDS Clock

CONSTANTS Starters,   \* sessions that begin with a model of their own
          MaxPatches, \* bound: how many patches are ever issued
          MaxSpan     \* bound: the ticks one patch may take

ASSUME ReplicationAssumption ==
  /\ Starters \subseteq Sids
  /\ MaxPatches \in Nat
  /\ MaxSpan \in Nat

VARIABLES
  active,    \* sessions that have a model
  clock,     \* session -> its ClockVector
  applied,   \* session -> the patches its model has applied
  root,      \* session -> the value id in its root register
  issued,    \* every patch flushed so far, for ever in transit
  held,      \* history: session -> the patches applied since a save lost the root
  outdated   \* history: sessions whose snapshot may lose the root (see Outdates)

vars == <<active, clock, applied, root, issued, held, outdated>>

(***************************************************************************)
(* A patch is a run of `span` consecutive timestamps that starts at `id`.  *)
(* `deps` are the ids of the patches its author had applied.  When         *)
(* `setsRoot`, the first operation creates a value and a later one stores  *)
(* it in the root register (ins_val on ORIGIN).                            *)
(***************************************************************************)
Patch == [id : Timestamp, span : 1 .. MaxSpan, deps : SUBSET Timestamp,
          setsRoot : BOOLEAN]

NextTime(p) == p.id.time + p.span

Ids(patches) == {p.id : p \in patches}

\* Mutant of SetRoot: the value that arrives last wins.
SetRootLastArrival(old, p) == IF p.setsRoot THEN p.id ELSE old

\* RootNode::set: the stored id changes only to a later one.
SetRoot(old, p) == IF p.setsRoot /\ Less(old, p.id) THEN p.id ELSE old

\* Model::apply_patch, seen by the clock and by the root register.
Apply(s, p) ==
  /\ clock' = [clock EXCEPT ![s] = Observe(@, p.id, p.span)]
  /\ root' = [root EXCEPT ![s] = SetRoot(@, p)]
  /\ applied' = [applied EXCEPT ![s] = @ \cup {p}]
  /\ held' = [held EXCEPT ![s] = @ \cup {p}]

(***************************************************************************)
(* A copy made by Model::fork has no entry for the session it was copied   *)
(* from.  When an old patch of that session comes again, observe starts    *)
(* the entry at that patch, though the document mentions later ones.       *)
(***************************************************************************)
Outdates(s, p) ==
  /\ p \in applied[s]
  /\ p.id.sid = root[s].sid
  /\ p.id.sid # s
  /\ clock[s].peers[p.id.sid] = NoPeer
  /\ NextTime(p) <= root[s].time

Init ==
  /\ active = Starters
  /\ clock = [s \in Sids |-> NewClock(s, 1)]
  /\ applied = [s \in Sids |-> {}]
  /\ root = [s \in Sids |-> Undefined]
  /\ issued = {}
  /\ held = [s \in Sids |-> {}]
  /\ outdated = {}

\* A builder seeded with the model's clock issues a patch, which the model
\* applies at once (ModelApi::apply, Model::with_builder of the wasm layer).
Edit(s, span, setsRoot) ==
  /\ s \in active
  /\ setsRoot => span > 1
  /\ Cardinality(issued) < MaxPatches
  /\ LET p == [id |-> Ts(s, clock[s].time), span |-> span,
               deps |-> Ids(applied[s]), setsRoot |-> setsRoot]
     IN  /\ Apply(s, p)
         /\ issued' = issued \cup {p}
  /\ UNCHANGED <<active, outdated>>

\* A patch arrives, for the first time or again.
Receive(s, p) ==
  /\ s \in active
  /\ p.deps \subseteq Ids(applied[s])
  /\ Apply(s, p)
  /\ outdated' = outdated \cup {r \in {s} : Outdates(r, p)}
  /\ UNCHANGED <<active, issued>>

\* Mutant of Forks: the copy keeps the session id.
ForksSameSid(c, t) == {Fork(c, t), c}

\* The clock of a second model: ClockVector::fork, or the copy under another
\* session id that Model::fork of the wasm layer takes.
Forks(c, t) == {Fork(c, t), [c EXCEPT !.sid = t]}

\* A second model of the same document under a new session id.
ForkTo(s, t) ==
  /\ s \in active
  /\ t \notin active
  /\ active' = active \cup {t}
  /\ \E c \in Forks(clock[s], t) : clock' = [clock EXCEPT ![t] = c]
  /\ applied' = [applied EXCEPT ![t] = applied[s]]
  /\ root' = [root EXCEPT ![t] = root[s]]
  /\ held' = [held EXCEPT ![t] = held[s]]
  /\ outdated' = outdated \cup {r \in {t} : s \in outdated}
  /\ UNCHANGED issued

\* Mutant of Reloaded: the decoder forgets to step over the last timestamp.
ReloadedAtLast(c, mentioned) == [c EXCEPT !.time = @ - 1]

(***************************************************************************)
(* to_binary, then from_binary.  The clock table lists the local session   *)
(* and those whose timestamps the document still mentions (`mentioned`).   *)
(* A root whose id the table refuses is written as the zero id: the reader *)
(* takes it for the end and leaves the root register empty.                *)
(***************************************************************************)
Reloaded(c, mentioned) ==
  [sid |-> c.sid, time |-> c.time, peers |-> [p \in Sids |->
     IF p = c.sid \/ p \notin mentioned THEN NoPeer ELSE Entry(c, p)]]

Reload(s, mentioned) ==
  /\ s \in active
  /\ root[s].sid \in mentioned \cup {s, SystemSid}
  /\ mentioned \subseteq {p.id.sid : p \in applied[s]}
  /\ clock' = [clock EXCEPT ![s] = Reloaded(@, mentioned)]
  /\ IF AheadOfEntry(clock[s], root[s])
     THEN root' = [root EXCEPT ![s] = Undefined] /\ held' = [held EXCEPT ![s] = {}]
     ELSE UNCHANGED <<root, held>>
  /\ UNCHANGED <<active, applied, issued, outdated>>

Next ==
  \E s \in Sids :
    \/ \E span \in 1 .. MaxSpan, setsRoot \in BOOLEAN : Edit(s, span, setsRoot)
    \/ \E p \in issued : Receive(s, p)
    \/ \E t \in Sids : ForkTo(s, t)
    \/ \E mentioned \in SUBSET Sids : Reload(s, mentioned)

Spec == Init /\ [][Next]_vars

\* The application keeps handing each model the patches it still misses.
Delivery(s) == \E p \in issued \ applied[s] : Receive(s, p)

FairSpec == Spec /\ \A s \in Sids : WF_vars(Delivery(s))
-----------------------------------------------------------------------------
\* Every variable has its type.
TypeOK ==
  /\ active \subseteq Sids
  /\ clock \in [Sids -> ClockVector]
  /\ \A s \in Sids : clock[s].sid = s
  /\ issued \subseteq Patch
  /\ applied \in [Sids -> SUBSET issued]
  /\ root \in [Sids -> Timestamp \cup {Undefined}]
  /\ held \in [Sids -> SUBSET issued]
  /\ outdated \subseteq active

\* No two patches, of one session or of two, share a timestamp, whatever was
\* received, forked or reloaded between them.
DisjointIds ==
  \A p, q \in issued :
    p # q => Interval(p.id, p.span) \cap Interval(q.id, q.span) = {}

\* The clock of a model is ahead of all it applied, also after a reload that
\* dropped a peer; so the patch it issues next is later than what it saw.
ClockAhead ==
  \A s \in Sids : \A p \in applied[s] : NextTime(p) <= clock[s].time

\* A patch is later than every patch it may refer to: the order of ids
\* extends causality (the Rga insertion rule depends on it).
IdsRespectCausality ==
  \A p, q \in issued : p.id \in q.deps => NextTime(p) <= q.id.time

\* The entry of a peer is never ahead of the local clock.
PeersBehind ==
  \A s, p \in Sids : clock[s].peers[p] < clock[s].time

(***************************************************************************)
(* The root holds the latest of the values its model holds, in whatever    *)
(* order they came.  It holds all it applied, loads included, unless it is *)
(* a copy (or a fork of one) that got an old patch of the origin again:    *)
(* only such a model can lose its root when it is saved.                   *)
(***************************************************************************)
Written(patches) == {p.id : p \in {q \in patches : q.setsRoot}}

IsLatest(value, written) ==
  IF written = {} THEN value = Undefined
  ELSE /\ value \in written
       /\ \A w \in written : w = value \/ Less(w, value)

RootIsLatest ==
  \A s \in Sids :
    /\ s \notin outdated => held[s] = applied[s]
    /\ IsLatest(root[s], Written(held[s]))

\* Models that hold the same patches hold the same root.
RootConverges ==
  \A s, t \in active : held[s] = held[t] => root[s] = root[t]

\* Applying a patch again does not move the clock's time, nor the root when the
\* model still holds the patch.  (A model that lost its root gets it back.)
Idempotent ==
  [][\A s \in Sids : \A p \in applied[s] :
       Receive(s, p) => /\ clock'[s].time = clock[s].time
                        /\ p \in held[s] => root' = root]_vars

(***************************************************************************)
(* What the invariants above rest on: a session that issued a patch is     *)
(* active and its clock stays behind none of its patches, also when it     *)
(* forks or reloads; a patch refers only to patches that were issued.      *)
(***************************************************************************)
TimesPositive ==
  /\ \A s \in Sids : clock[s].time > 0
  /\ \A p \in issued : p.id.time > 0

IssuersActive == \A p \in issued : p.id.sid \in active

IssuerAhead == \A p \in issued : NextTime(p) <= clock[p.id.sid].time

DepsIssued == \A p \in issued : p.deps \subseteq Ids(issued)

(***************************************************************************)
(* Why only outdated sessions lose the root.  A model applied its own      *)
(* patches and the causes of all it applied, and of two patches of one     *)
(* session the earlier is a cause of the later.  So an entry starts behind *)
(* the root only when it starts at a patch that comes again.               *)
(***************************************************************************)
Causal ==
  /\ \A p \in issued : p \in applied[p.id.sid]
  /\ \A s \in Sids : \A p \in applied[s] : p.deps \subseteq Ids(applied[s])
  /\ \A p, q \in issued :
       p.id.sid = q.id.sid => p = q \/ p.id \in q.deps \/ q.id \in p.deps

PeersActive ==
  \A s, p \in Sids : clock[s].peers[p] # NoPeer => p \in active /\ p # s

RootCovered ==
  \A s \in Sids :
    /\ held[s] \subseteq applied[s]
    /\ s \notin outdated => ~AheadOfEntry(clock[s], root[s])

\* The inductive invariant of the model.
IInv ==
  /\ TypeOK
  /\ TimesPositive
  /\ IssuersActive
  /\ IssuerAhead
  /\ DepsIssued
  /\ DisjointIds
  /\ ClockAhead
  /\ IdsRespectCausality
  /\ PeersBehind
  /\ RootIsLatest
  /\ Causal
  /\ PeersActive
  /\ RootCovered

\* Once no more is edited every model has every patch, and all agree, loads
\* included, but for the models that a load may have cost their root.
EventuallyConverged ==
  <>[](/\ \A s \in active : applied[s] = issued
       /\ \A s, t \in active \ outdated : root[s] = root[t])
=============================================================================
