-------------------------- MODULE ConsistencyOracle --------------------------
(* scripts/ft/oracle.py: audit_run judges a finished run from the evidence an *)
(* observer gathered: the events of the trainer in one order, and the mapping *)
(* from its saved states and optimizer updates to those events.               *)
(*                                                                            *)
(* The trainer and its observer are not part of the repository. Here they     *)
(* train, save, crash, load any saved state and train on; next to the         *)
(* evidence the model keeps what the weights really contain (content), which  *)
(* the oracle never sees, and the evidence may be wrong in MaxLies places.    *)
(* The time of an event is its place in the order.                            *)
EXTENDS Integers, FiniteSets, SequencesExt, FiniteSetsExt

CONSTANTS Groups,      \* the logical groups that are trained
          Target,      \* freeze["target_group"]
          Window,      \* freeze["recovery_window_seconds"]
          MaxSaves, MaxUpdates, MaxLoads, MaxAttempts, MaxTurns, MaxLies,
          Nil

ASSUME OracleAssumption ==
    /\ Target \in Groups /\ IsFiniteSet(Groups) /\ Nil \notin Nat
    /\ {Window, MaxSaves, MaxUpdates, MaxLoads, MaxAttempts, MaxTurns, MaxLies} \subseteq Nat

VARIABLES events,      \* evidence["events"]
          states,      \* evidence["states"]: parent, epoch, updates, consumed and its events
          updates,     \* evidence["updates"]: group, attempt, epoch, loaded state and its events
          live,        \* the trainer: what it loaded, its epoch, what it did since its last state
          running,     \* the update between optimizer_start and optimizer_end
          pending,     \* the state between checkpoint_schedule and checkpoint_persisted
          authority,   \* the attempt of each group that is authorized now
          content,     \* the updates that are really in each state
          lies,        \* how often the evidence departed from what happened
          final        \* evidence["final_state"], once the run is over

oracleVars == <<events, states, updates, live, running, pending, authority, content, lies, final>>

(* The elements of a sequence that are in a set (SelectSeq, as a function) *)
Kept(seq, S) ==
    LET upTo[i \in 0 .. Len(seq)] ==
            IF i = 0 THEN <<>>
            ELSE IF seq[i] \in S THEN Append(upTo[i - 1], seq[i]) ELSE upTo[i - 1]
    IN upTo[Len(seq)]

Now == Len(events)
Log(event) == events' = Append(events, event)
Of(type) == {i \in 1 .. Now : events[i].type = type}
StateIds == 1 .. Len(states)
UpdateIds == 1 .. Len(updates)
First == 1              \* freeze["initial_state"]
Saved == {s \in StateIds : states[s].stored # 0}
Faults == Of("fault_observed")

(* Up to MaxLies entries of the evidence are wrong *)
Claim(truth) == /\ lies' = IF truth THEN lies ELSE lies + 1
                /\ lies' <= MaxLies

-----------------------------------------------------------------------------
(* The run                                                                    *)

Granted(g, n, e) == [type |-> "authorize", group |-> g, attempt |-> n, epoch |-> e]

OracleInit ==
    /\ events = <<[type |-> "initial_state"], [type |-> "checkpoint_loaded", state |-> First, epoch |-> 1]>>
                 \o SetToSeq({Granted(g, 1, 1) : g \in Groups})
    /\ states = <<[parent |-> Nil, epoch |-> 1, updates |-> <<>>, consumed |-> {},
                   scheduled |-> 1, stored |-> 1]>>
    /\ updates = <<>>
    /\ live = [loaded |-> First, base |-> First, since |-> <<>>, epoch |-> 1]
    /\ running = Nil
    /\ pending = Nil
    /\ authority = [g \in Groups |-> Granted(g, 1, 1)]
    /\ content = <<<<>>>>
    /\ lies = 0
    /\ final = Nil

(* The group gets a new attempt of the epoch of the trainer *)
Authorize(g) ==
    /\ final = Nil
    /\ running = Nil
    /\ authority[g].attempt < MaxAttempts
    /\ authority' = [authority EXCEPT ![g] = Granted(g, @.attempt + 1, live.epoch)]
    /\ Log(authority'[g])
    /\ UNCHANGED <<states, updates, live, running, pending, content, lies, final>>

(* One update trains the samples of one attempt of a group: those of the
   attempt as they were admitted, or a tensor that differs from them.         *)
Update(g, a, admitted, loaded) ==
    [group |-> g, attempt |-> a, admitted |-> admitted, epoch |-> live.epoch, loaded |-> loaded,
     started |-> Now + 1, ended |-> 0, successful |-> FALSE, authority |-> authority[g],
     apart |-> pending = Nil]

BeginUpdate(g, a, admitted, loaded) ==
    /\ final = Nil
    /\ running = Nil
    /\ Len(updates) < MaxUpdates
    /\ Log([type |-> "optimizer_start", update |-> Len(updates) + 1])
    /\ updates' = Append(updates, Update(g, a, admitted, loaded))
    /\ running' = Len(updates) + 1
    /\ Claim(loaded = live.loaded)
    /\ UNCHANGED <<states, live, pending, authority, content, final>>

EndUpdate(successful) ==
    /\ final = Nil
    /\ running # Nil
    /\ Log([type |-> "optimizer_end", update |-> running, epoch |-> live.epoch, successful |-> successful])
    /\ updates' = [updates EXCEPT ![running].ended = Now + 1, ![running].successful = successful,
                                  ![running].apart = @ /\ pending = Nil]
    /\ live' = IF successful THEN [live EXCEPT !.since = Append(@, running)] ELSE live
    /\ running' = Nil
    /\ UNCHANGED <<states, pending, authority, content, lies, final>>

(* A checkpoint captures the weights when it is scheduled and names a parent, an
   epoch, the updates since the parent and what was consumed: as it is, or so
   that it agrees with the rest.                                              *)
GroupsOf(made) == {updates[u].group : u \in ToSet(made)}

Schedule(parent, made, e, agreed) ==
    /\ final = Nil
    /\ running = Nil
    /\ pending = Nil
    /\ Len(states) <= MaxSaves
    /\ LET inside == content[live.base] \o live.since
           consumed == IF agreed THEN states[parent].consumed \cup GroupsOf(made) ELSE GroupsOf(inside)
       IN /\ content' = Append(content, inside)
          /\ states' = Append(states, [parent |-> parent, epoch |-> e, updates |-> made,
                                      scheduled |-> Now + 1, stored |-> 0, consumed |-> consumed])
          /\ Claim(parent = live.base /\ made = live.since /\ e = live.epoch /\ consumed = GroupsOf(inside))
    /\ Log([type |-> "checkpoint_schedule", state |-> Len(states) + 1])
    /\ pending' = Len(states) + 1
    /\ live' = [live EXCEPT !.base = Len(states) + 1, !.since = <<>>]
    /\ UNCHANGED <<updates, running, authority, final>>

Persist ==
    /\ final = Nil
    /\ pending # Nil
    /\ Log([type |-> "checkpoint_persisted", state |-> pending])
    /\ states' = [states EXCEPT ![pending].stored = Now + 1]
    /\ pending' = Nil
    /\ UNCHANGED <<updates, live, running, authority, content, lies, final>>

(* The trainer dies and a new one loads a saved state, under the same or the
   next epoch; an update or a save that was under way is lost. The first death
   is the fault of the experiment, which takes the target role down.          *)
Load(s, e) ==
    /\ final = Nil
    /\ Cardinality(Of("checkpoint_loaded")) <= MaxLoads
    /\ events' = events \o (IF Faults = {} THEN <<[type |-> "fault_observed"]>> ELSE <<>>)
                         \o <<[type |-> "checkpoint_loaded", state |-> s, epoch |-> e]>>
    /\ live' = [loaded |-> s, base |-> s, since |-> <<>>, epoch |-> e]
    /\ running' = Nil
    /\ pending' = Nil
    /\ UNCHANGED <<states, updates, authority, content, lies, final>>

(* The role comes back, and may go down again *)
Ready(i) == Max({j \in Of("fault_observed") \cup Of("role_down") \cup Of("role_ready") : j <= i})
                \in Of("role_ready")

Turn ==
    /\ final = Nil
    /\ Faults # {}
    /\ Cardinality(Of("role_ready") \cup Of("role_down")) < MaxTurns
    /\ Log([type |-> IF Ready(Now) THEN "role_down" ELSE "role_ready"])
    /\ UNCHANGED <<states, updates, live, running, pending, authority, content, lies, final>>

Finish(s) ==
    /\ final = Nil
    /\ Faults # {}
    /\ running = Nil
    /\ pending = Nil
    /\ final' = s
    /\ UNCHANGED <<events, states, updates, live, running, pending, authority, content, lies>>

Behind(seq) == {seq} \cup (IF seq = <<>> THEN {} ELSE {Front(seq)})
Training ==
    \/ \E g \in Groups : Authorize(g)
    \/ \E g \in Groups, admitted \in BOOLEAN, loaded \in Saved :
          \E a \in 1 .. authority[g].attempt : BeginUpdate(g, a, admitted, loaded)
    \/ \E successful \in BOOLEAN : EndUpdate(successful)
Saving ==
    \/ \E parent \in StateIds, made \in Behind(live.since) \cup Behind(live.since \o <<Len(updates)>>),
          e \in {1, live.epoch}, agreed \in BOOLEAN :
             ToSet(made) \subseteq UpdateIds /\ Schedule(parent, made, e, agreed)
    \/ Persist
Recovering ==
    \/ \E s \in Saved, e \in {live.epoch, live.epoch + 1} : Load(s, e)
    \/ Turn

OracleNext == Training \/ Saving \/ Recovering \/ \E s \in Saved : Finish(s)

OracleSpec == OracleInit /\ [][OracleNext]_oracleVars

-----------------------------------------------------------------------------
(* audit_run: the events and the mapping, judged from the final state back    *)

Chain[s \in StateIds] == IF s = First THEN <<First>> ELSE Append(Chain[states[s].parent], s)
Ancestors(s) == ToSet(Chain[states[s].parent])
RetainedTo[s \in StateIds] ==
    IF s = First THEN <<>> ELSE RetainedTo[states[s].parent] \o states[s].updates
Retained == RetainedTo[final]

LoadBefore(i) == Max({j \in Of("checkpoint_loaded") : j < i})
SaveLoad(s) == LoadBefore(states[s].scheduled)
BeginLoad(u) == LoadBefore(updates[u].started)
Parent(s) == states[states[s].parent]

(* Without an exact account of every state and update there is no judgement
   but for a violation that was found before.                                 *)
Accounted(s) ==
    /\ states[s].stored # 0
    /\ s # First => \A u \in ToSet(states[s].updates) :
          updates[u].ended # 0 /\ updates[u].ended <= states[s].scheduled
Verifiable ==
    /\ \A s \in ToSet(Chain[final]) : Accounted(s)
    /\ LET last == LoadBefore(Now + 1)
       IN events[last].state \in ToSet(Chain[final]) /\ last <= states[final].stored

(* fault: an ancestor of what was loaded is taken as a parent that was kept *)
KeepsAncestor(s) ==
    /\ events[SaveLoad(s)].epoch = states[s].epoch
    /\ Parent(s).stored < states[s].scheduled

(* fault: the parent has to be what was loaded for this save *)
LoadsParent(s) ==
    /\ events[SaveLoad(s)].epoch = states[s].epoch
    /\ events[SaveLoad(s)].state = states[s].parent

(* The parent was loaded for this save, or saved under the same load *)
KeepsParent(s) ==
    LET load == SaveLoad(s) IN
    /\ events[load].epoch = states[s].epoch
    /\ \/ events[load].state = states[s].parent /\ load > Parent(s).stored
       \/ events[load].state # states[s].parent /\ states[s].parent # First /\ SaveLoad(states[s].parent) = load
    /\ Parent(s).stored < states[s].scheduled

(* The successful updates the events show since the parent and the load *)
Performed(s) ==
    LET lower == Max({Parent(s).stored, SaveLoad(s)})
        ends == {i \in lower + 1 .. states[s].scheduled :
                    events[i].type = "optimizer_end" /\ events[i].successful /\ events[i].epoch = states[s].epoch}
        shown == Kept([i \in 1 .. Now |-> i], ends)
    IN [k \in DOMAIN shown |-> events[shown[k]].update]

(* The attempt authorized last before the update began *)
Authorized(u) ==
    LET last == Max({i \in Of("authorize") : /\ events[i].group = updates[u].group
                                             /\ i < updates[u].started})
    IN events[last].attempt = updates[u].attempt /\ events[last].epoch = updates[u].epoch

KeepsUpdate(s, u) ==
    /\ updates[u].epoch = states[s].epoch
    /\ updates[u].successful
    /\ BeginLoad(u) = SaveLoad(s)
    /\ events[BeginLoad(u)].epoch = updates[u].epoch
    /\ updates[u].started > Parent(s).stored
    /\ events[BeginLoad(u)].state = updates[u].loaded
    /\ updates[u].loaded \in Ancestors(s)
    /\ Authorized(u)
    /\ updates[u].admitted

Consumes(s) == states[s].consumed = Parent(s).consumed \cup GroupsOf(states[s].updates)

Sound(s) ==
    \/ s = First
    \/ /\ KeepsParent(s)
       /\ Performed(s) = states[s].updates
       /\ \A u \in ToSet(states[s].updates) : KeepsUpdate(s, u)
       /\ Consumes(s)

OncePerGroup(made) == \A i, j \in DOMAIN made :
    updates[made[i]].group = updates[made[j]].group => i = j

Passes ==
    /\ Verifiable
    /\ \A s \in ToSet(Chain[final]) : Sound(s)
    /\ OncePerGroup(Retained)

(* The states of the chain that retain an update of the target group, stored
   after the fault                                                            *)
Fault0 == CHOOSE i \in Faults : TRUE
Commits ==
    {states[s].stored : s \in {t \in ToSet(Chain[final]) : /\ t # First
                                                         /\ Target \in GroupsOf(states[t].updates)
                                                         /\ states[t].stored >= Fault0}}
(* The role and the target are looked at when one of them changes *)
RoleEvents == {i \in Of("role_ready") \cup Of("role_down") \cup Faults : i >= Fault0}

(* fault: the role only has to have been ready once *)
ReadyOnce ==
    {i \in Commits \cup RoleEvents : (\E c \in Commits : c <= i) /\ \E j \in Of("role_ready") : j <= i}

RecoveredAt ==
    {i \in Commits \cup RoleEvents : (\E c \in Commits : c <= i) /\ Ready(i)}

Judgement ==
    CASE ~Verifiable -> "unverifiable"
      [] Verifiable /\ ~Passes -> "invalid_commit"
      [] Passes /\ RecoveredAt # {} /\ Min(RecoveredAt) - Fault0 <= Window -> "correct_recovered"
      [] OTHER -> IF Now - Fault0 >= Window THEN "timeout" ELSE "unverifiable"

-----------------------------------------------------------------------------
(* Properties                                                                 *)

(* An update that ended while a state of the chain was being stored is neither
   in that state nor among those the oracle looks for in the next.            *)
Seen(u) == \A s \in ToSet(Chain[final]) \ {First} :
    ~(states[s].scheduled < updates[u].ended /\ updates[u].ended <= states[s].stored)
Clean(u) == updates[u].admitted /\ updates[u].attempt = updates[u].authority.attempt
                                /\ updates[u].epoch = updates[u].authority.epoch

(* safety "pass" in audit_run is true: the updates it says are retained are those
   in the weights of the final state (but for those that ended while a save was
   being stored), each trained what its group was authorized to, and no group
   was trained twice, whatever was reloaded and one entry of the evidence said. *)
PassIsTrue ==
    final # Nil /\ Passes =>
        /\ Retained = Kept(content[final], {u \in UpdateIds : Seen(u)})
        /\ OncePerGroup(Retained)
        /\ \A u \in ToSet(Retained) : Clean(u)

(* audit_run passes a true account of a correct run: rollbacks, reloads under the same
   epoch, lost saves and updates and superseded attempts are no violations.   *)
TruthPasses ==
    /\ final # Nil
    /\ lies = 0
    /\ states[final].stored > LoadBefore(Now + 1)
    /\ OncePerGroup(content[final])
    /\ \A u \in ToSet(content[final]) : Clean(u) /\ updates[u].apart
    => Passes

(* The role is up again, and an update of the target group that was trained after the
   fault is in a saved state and in the final one.                              *)
Recovered(i) ==
    /\ Ready(i)
    /\ \E s \in Saved : /\ states[s].stored <= i
                       /\ IsPrefix(content[s], content[final])
                       /\ \E u \in ToSet(content[s]) : updates[u].group = Target /\ updates[u].ended > Fault0

(* At the recovery time that audit_run reports (recovered_at) the run had really
   recovered, whatever the evidence says; for a true account it is the first such moment. *)
RecoveryIsReal ==
    final # Nil /\ Judgement = "correct_recovered" =>
        /\ Recovered(Min(RecoveredAt))
        /\ lies = 0 => \A i \in Fault0 .. Min(RecoveredAt) - 1 : ~Recovered(i)
=============================================================================
