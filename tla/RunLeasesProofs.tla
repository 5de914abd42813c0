--------------------------- MODULE RunLeasesProofs ---------------------------
(***************************************************************************)
(* A command that may still run in the shell it was planned for keeps its   *)
(* pane, and a request about to type is alone there but for commands whose  *)
(* shell was replaced before they were typed, for any panes, runs and       *)
(* sends.                                                                   *)
(*                                                                          *)
(* The argument: a token is in every entry of its holder and in no other,   *)
(* so two holders never share a pane; and a lease is given up before its    *)
(* command is over only when what it was planned for has moved on, which    *)
(* nothing undoes.                                                          *)
(***************************************************************************)
EXTENDS RunLeases, TLAPS

-----------------------------------------------------------------------------
(* The inductive invariant                                                 *)

\* Holding a token is holding every entry.
HolderOwns == \A r \in Requests : token[r] # 0 => Owns(r)

\* A token has one holder.
TokensDiffer ==
  \A r, s \in Requests : r # s /\ token[r] # 0 => token[r] # token[s]

\* How far a request is says whether it has a lease, a command and a watch.
PhasesFit ==
  /\ \A r \in Requests : pc[r] \in {"idle", "planned"} => token[r] = 0
  /\ \A r \in Requests : pc[r] \in {"reserved", "prepared", "checked", "collecting"}
                           => token[r] # 0
  /\ \A r \in Runs : pc[r] \notin {"collecting", "over"}
                       => command[r] = "none" /\ watch[r] = "none"

\* A plan is of one pane, as it was or is.
PlanIsOld(r) ==
  /\ plan[r].generation \in 1 .. generation
  /\ \E p \in Panes : /\ plan[r].pane = {p}
                      /\ plan[r].generation = generation => plan[r].pid <= pid[p]

PlansAreOld == \A r \in Requests : pc[r] # "idle" => PlanIsOld(r)

\* What the plan was made for is no more.
Moved(r) ==
  \/ generation > plan[r].generation
  \/ \E p \in plan[r].pane : pid[p] > plan[r].pid

\* A lease that is gone before its command is was given up for one that moved.
GivenUpHasMoved ==
  \A r \in Runs : command[r] \in {"flight", "running"} /\ token[r] = 0 => Moved(r)

IInv == /\ TypeOK /\ HolderOwns /\ TokensDiffer /\ PhasesFit /\ PlansAreOld
        /\ GivenUpHasMoved

-----------------------------------------------------------------------------
(* The leases                                                              *)

\* Every key of a plan is a key of the registry.
LEMMA KeysAreKeys ==
  ASSUME IInv, NEW r \in Requests, pc[r] # "idle"
  PROVE  Keys(r) \subseteq RunKey
  <1>1. plan[r].generation \in 1 .. MaxGeneration
    BY LeasesAssumption DEF IInv, PlansAreOld, PlanIsOld, TypeOK
  <1>2. plan[r].panes \subseteq Panes
    BY DEF IInv, TypeOK, Plans
  <1> QED
    BY <1>1, <1>2 DEF Keys, RunKey

\* Giving up a lease leaves those of the others, and no entry of its own.
LEMMA ReleaseIsOwn ==
  ASSUME IInv, NEW r \in Requests, Release(r), plan' = plan
  PROVE  /\ next' \in Nat /\ entries' \in [RunKey -> 0 .. next']
         /\ token' \in [Requests -> 0 .. next']
         /\ token'[r] = 0 /\ \A s \in Requests \ {r} : token'[s] = token[s]
         /\ HolderOwns' /\ TokensDiffer'
  <1>1. /\ next' \in Nat /\ entries' \in [RunKey -> 0 .. next']
        /\ token' \in [Requests -> 0 .. next']
        /\ token'[r] = 0 /\ \A s \in Requests \ {r} : token'[s] = token[s]
    BY DEF IInv, TypeOK, Release
  <1>2. TokensDiffer'
    BY <1>1 DEF IInv, TokensDiffer
  <1>3. HolderOwns'
    <2> SUFFICES ASSUME NEW s \in Requests, token'[s] # 0
                 PROVE  \A k \in Keys(s) : entries'[k] = token'[s]
      BY DEF HolderOwns, Owns, Keys
    <2>1. s # r /\ token'[s] = token[s] /\ token[s] # token[r]
      BY <1>1 DEF IInv, TokensDiffer
    <2>2. Keys(s) \subseteq RunKey
      BY <2>1, KeysAreKeys DEF IInv, PhasesFit
    <2>3. \A k \in Keys(s) : entries[k] = token[s]
      BY <2>1 DEF IInv, HolderOwns, Owns
    <2> QED
      BY <2>1, <2>2, <2>3 DEF Release
  <1> QED
    BY <1>1, <1>2, <1>3

\* A lease is taken on keys that nobody has, under a token that nobody has.
LEMMA ReserveIsNew ==
  ASSUME IInv, NEW r \in Requests, pc[r] = "planned", CanReserve(r), plan' = plan,
         next' = next + 1, token' = [token EXCEPT ![r] = next'],
         entries' = [k \in RunKey |-> IF k \in Keys(r) THEN next' ELSE entries[k]]
  PROVE  /\ next' \in Nat /\ entries' \in [RunKey -> 0 .. next']
         /\ token' \in [Requests -> 0 .. next'] /\ token'[r] # 0
         /\ \A s \in Requests \ {r} : token'[s] = token[s]
         /\ HolderOwns' /\ TokensDiffer'
  <1>1. /\ next \in Nat /\ entries \in [RunKey -> 0 .. next]
        /\ token \in [Requests -> 0 .. next]
    BY DEF IInv, TypeOK
  <1>2. /\ next' \in Nat /\ entries' \in [RunKey -> 0 .. next']
        /\ token' \in [Requests -> 0 .. next'] /\ token'[r] = next + 1
        /\ \A s \in Requests \ {r} : token'[s] = token[s]
    BY <1>1
  <1>3. TokensDiffer'
    <2> SUFFICES ASSUME NEW s \in Requests, NEW u \in Requests, s # u, token'[s] # 0
                 PROVE  token'[s] # token'[u]
      BY DEF TokensDiffer
    <2>1. \A q \in Requests : token[q] \in 0 .. next
      BY <1>1
    <2> QED
      BY <1>1, <1>2, <2>1 DEF IInv, TokensDiffer
  <1>4. HolderOwns'
    <2> SUFFICES ASSUME NEW s \in Requests, token'[s] # 0
                 PROVE  \A k \in Keys(s) : entries'[k] = token'[s]
      BY DEF HolderOwns, Owns, Keys
    <2>1. CASE s = r
      BY <1>2, <2>1, KeysAreKeys
    <2>2. CASE s # r
      <3>1. token[s] # 0 /\ token'[s] = token[s]
        BY <1>2, <2>2
      <3>2. Keys(s) \subseteq RunKey
        BY <3>1, KeysAreKeys DEF IInv, PhasesFit
      <3>3. \A k \in Keys(s) : entries[k] = token[s]
        BY <3>1 DEF IInv, HolderOwns, Owns
      <3>4. \A k \in Keys(s) : k \notin Keys(r)
        BY <3>1, <3>3 DEF CanReserve
      <3> QED
        BY <3>1, <3>2, <3>3, <3>4
    <2> QED
      BY <2>1, <2>2
  <1> QED
    BY <1>1, <1>2, <1>3, <1>4

\* An unchanged registry stays right for unchanged plans.
LEMMA LeasesStay ==
  ASSUME IInv, UNCHANGED lease, UNCHANGED plan
  PROVE  /\ HolderOwns' /\ TokensDiffer'
         /\ next' \in Nat /\ entries' \in [RunKey -> 0 .. next']
         /\ token' \in [Requests -> 0 .. next']
  BY DEF IInv, TypeOK, lease, HolderOwns, TokensDiffer, Owns, Keys

\* While tmux stands still so does the age of a plan.
LEMMA AgesStay ==
  ASSUME UNCHANGED <<generation, pid>>, NEW r \in Requests, plan'[r] = plan[r]
  PROVE  (Moved(r)' <=> Moved(r)) /\ (PlanIsOld(r)' <=> PlanIsOld(r))
  BY DEF Moved, PlanIsOld

\* The bounds are numbers.
LEMMA BoundsAreNat ==
  /\ MaxStarted \in Nat /\ MaxRespawns \in Nat /\ MaxEvents \in Nat
  /\ MaxGeneration \in Nat \ {0}
  BY LeasesAssumption

\* A run is no send.
LEMMA RunsAreNoSends == Runs \cap Sends = {} /\ Requests = Runs \cup Sends
  BY LeasesAssumption DEF Requests

-----------------------------------------------------------------------------
(* The requests                                                            *)

LEMMA PreflightKeeps ==
  ASSUME IInv, NEW r \in Requests, NEW p \in Panes, Preflight(r, p)
  PROVE  IInv'
  <1>a. /\ pc[r] = "idle" /\ token[r] = 0 /\ plan \in [Requests -> Plans]
        /\ pc' = [pc EXCEPT ![r] = "planned"]
        /\ plan' = [plan EXCEPT ![r] = [generation |-> generation, pane |-> {p},
                panes |-> Configured(r, p), pid |-> pid[p]]]
        /\ UNCHANGED <<generation, pid, synced, events, next, entries, token,
                       watch, streaming, command, shell, marker>>
    BY DEF IInv, TypeOK, PhasesFit, Preflight, Advance, tmux, lease, commands
  <1>b. [generation |-> generation, pane |-> {p}, panes |-> Configured(r, p),
         pid |-> pid[p]] \in Plans
    BY LeasesAssumption DEF IInv, TypeOK, Plans, Configured
  <1>1. TypeOK'
    BY <1>a, <1>b DEF IInv, TypeOK
  <1>2. HolderOwns' /\ TokensDiffer'
    BY <1>a DEF IInv, TypeOK, HolderOwns, TokensDiffer, Owns, Keys
  <1>3. PhasesFit'
    BY <1>a DEF IInv, TypeOK, PhasesFit, Requests
  <1>4. PlansAreOld'
    <2>1. PlanIsOld(r)'
      BY <1>a DEF IInv, TypeOK, PlanIsOld
    <2>2. \A s \in Requests : s # r /\ pc'[s] # "idle" => PlanIsOld(s)'
      BY <1>a, AgesStay DEF IInv, TypeOK, PlansAreOld
    <2> QED
      BY <2>1, <2>2 DEF PlansAreOld
  <1>5. GivenUpHasMoved'
    <2> SUFFICES ASSUME NEW s \in Runs, command'[s] \in {"flight", "running"}, token'[s] = 0
                 PROVE  Moved(s)'
      BY DEF GivenUpHasMoved
    <2>1. s # r /\ s \in Requests
      BY <1>a DEF IInv, PhasesFit, Requests
    <2> QED
      BY <1>a, <2>1, AgesStay DEF IInv, GivenUpHasMoved
  <1> QED
    BY <1>1, <1>2, <1>3, <1>4, <1>5 DEF IInv

LEMMA ReserveKeeps ==
  ASSUME IInv, NEW r \in Requests, Reserve(r)
  PROVE  IInv'
  <1>a. /\ pc[r] = "planned" /\ token[r] = 0
        /\ UNCHANGED <<generation, pid, synced, events, plan, watch, streaming,
                       command, shell, marker>>
    BY DEF IInv, PhasesFit, Reserve, tmux, commands
  <1>b. \/ /\ pc' = [pc EXCEPT ![r] = "reserved"] /\ token'[r] # 0
           /\ \A s \in Requests \ {r} : token'[s] = token[s]
           /\ next' \in Nat /\ entries' \in [RunKey -> 0 .. next']
           /\ token' \in [Requests -> 0 .. next'] /\ HolderOwns' /\ TokensDiffer'
        \/ /\ pc' = [pc EXCEPT ![r] = "over"] /\ token' = token
           /\ next' \in Nat /\ entries' \in [RunKey -> 0 .. next']
           /\ token' \in [Requests -> 0 .. next'] /\ HolderOwns' /\ TokensDiffer'
    <2>1. CASE CanReserve(r)
      BY <1>a, <2>1, ReserveIsNew DEF Reserve, Advance
    <2>2. CASE ~CanReserve(r)
      BY <1>a, <2>2, LeasesStay DEF Reserve, Advance, lease
    <2> QED
      BY <2>1, <2>2
  <1>1. TypeOK'
    BY <1>a, <1>b, RunsAreNoSends DEF IInv, TypeOK
  <1>3. PhasesFit'
    BY <1>a, <1>b DEF IInv, TypeOK, PhasesFit, Requests
  <1>4. PlansAreOld'
    BY <1>a, <1>b, AgesStay DEF IInv, TypeOK, PlansAreOld
  <1>5. GivenUpHasMoved'
    <2> SUFFICES ASSUME NEW s \in Runs, command'[s] \in {"flight", "running"}, token'[s] = 0
                 PROVE  Moved(s)'
      BY DEF GivenUpHasMoved
    <2>1. s # r /\ s \in Requests
      BY <1>a DEF IInv, PhasesFit, Requests
    <2> QED
      BY <1>a, <1>b, <2>1, AgesStay DEF IInv, GivenUpHasMoved
  <1> QED
    BY <1>1, <1>b, <1>3, <1>4, <1>5 DEF IInv

\* Whether a request keeps its lease or gives it up, plans and tmux as they were,
\* and given that a lease is not given up while its command may run for its plan.
LEMMA RequestKeeps ==
  ASSUME IInv, NEW r \in Requests,
         UNCHANGED <<generation, pid, synced, events, plan, marker>>,
         UNCHANGED lease \/ Release(r),
         pc[r] # "idle", pc'[r] # "idle", \A s \in Requests : s # r => pc'[s] = pc[s],
         \A s \in Runs : s # r => command'[s] = command[s],
         r \in Runs /\ command'[r] \in {"flight", "running"} /\ token'[r] = 0 => Moved(r)
  PROVE  /\ next' \in Nat /\ entries' \in [RunKey -> 0 .. next']
         /\ token' \in [Requests -> 0 .. next']
         /\ HolderOwns' /\ TokensDiffer' /\ PlansAreOld' /\ GivenUpHasMoved'
  <1>1. /\ next' \in Nat /\ entries' \in [RunKey -> 0 .. next']
        /\ token' \in [Requests -> 0 .. next']
        /\ HolderOwns' /\ TokensDiffer'
        /\ \A s \in Requests \ {r} : token'[s] = token[s]
    BY LeasesStay, ReleaseIsOwn DEF lease
  <1>2. PlansAreOld'
    BY AgesStay DEF IInv, PlansAreOld
  <1>3. GivenUpHasMoved'
    <2> SUFFICES ASSUME NEW s \in Runs, command'[s] \in {"flight", "running"}, token'[s] = 0
                 PROVE  Moved(s)'
      BY DEF GivenUpHasMoved
    <2>1. s \in Requests
      BY DEF Requests
    <2>2. CASE s = r
      BY <2>1, <2>2, AgesStay
    <2>3. CASE s # r
      BY <1>1, <2>1, <2>3, AgesStay DEF IInv, GivenUpHasMoved
    <2> QED
      BY <2>2, <2>3
  <1> QED
    BY <1>1, <1>2, <1>3

\* What the lease registry and the token of a lease become, for the types below.
LEMMA LeaseTypes ==
  ASSUME IInv, NEW r \in Requests, UNCHANGED plan, UNCHANGED lease \/ Release(r)
  PROVE  /\ next' \in Nat /\ entries' \in [RunKey -> 0 .. next']
         /\ token' \in [Requests -> 0 .. next']
         /\ \A s \in Requests \ {r} : token'[s] = token[s]
         /\ UNCHANGED lease => token' = token
         /\ Release(r) => token'[r] = 0
  BY LeasesStay, ReleaseIsOwn DEF lease

LEMMA PrepareKeeps ==
  ASSUME IInv, NEW r \in Requests, r \in Runs, Prepare(r)
  PROVE  IInv'
  <1>a. /\ UNCHANGED <<generation, pid, synced, events, plan, watch, command, shell, marker>>
        /\ pc[r] = "reserved"
        /\ \/ /\ pc' = [pc EXCEPT ![r] = "prepared"] /\ UNCHANGED lease
              /\ streaming' = [streaming EXCEPT ![r] = TRUE]
           \/ /\ pc' = [pc EXCEPT ![r] = "over"] /\ Release(r)
              /\ UNCHANGED streaming
    BY DEF Prepare, Advance, Fails, tmux, commands
  <1>b. command[r] = "none" /\ watch[r] = "none" /\ token[r] # 0
    BY <1>a DEF IInv, PhasesFit
  <1>c. streaming' \in [Runs -> BOOLEAN]
    BY <1>a DEF IInv, TypeOK
  <1>d. /\ next' \in Nat /\ entries' \in [RunKey -> 0 .. next']
        /\ token' \in [Requests -> 0 .. next']
        /\ \A s \in Requests \ {r} : token'[s] = token[s] /\ pc'[s] = pc[s]
        /\ \/ pc'[r] = "prepared" /\ token'[r] = token[r]
           \/ pc'[r] = "over" /\ token'[r] = 0
        /\ UNCHANGED lease \/ Release(r)
    BY <1>a, LeaseTypes DEF IInv, TypeOK
  <1>1. PhasesFit'
    BY <1>a, <1>b, <1>d, RunsAreNoSends DEF IInv, PhasesFit
  <1>2. TypeOK'
    BY <1>a, <1>b, <1>c, <1>d, RunsAreNoSends DEF IInv, TypeOK
  <1>3. HolderOwns' /\ TokensDiffer' /\ PlansAreOld' /\ GivenUpHasMoved'
    BY <1>a, <1>b, <1>d, RequestKeeps
  <1> QED
    BY <1>1, <1>2, <1>3 DEF IInv

LEMMA FinalCheckKeeps ==
  ASSUME IInv, NEW r \in Requests, FinalCheck(r)
  PROVE  IInv'
  <1>a. /\ UNCHANGED <<generation, pid, synced, events, plan, watch, command, shell, marker>>
        /\ pc[r] \in {"reserved", "prepared"}
        /\ \/ /\ pc' = [pc EXCEPT ![r] = "checked"] /\ UNCHANGED <<lease, streaming>>
           \/ /\ pc' = [pc EXCEPT ![r] = "over"] /\ Release(r)
              /\ streaming' = [c \in Runs |-> streaming[c] /\ c # r]
    BY DEF FinalCheck, Advance, Fails, tmux, commands
  <1>b. /\ r \in Runs => command[r] = "none" /\ watch[r] = "none"
        /\ token[r] # 0
    BY <1>a DEF IInv, PhasesFit
  <1>c. streaming' \in [Runs -> BOOLEAN]
    BY <1>a DEF IInv, TypeOK
  <1>d. /\ next' \in Nat /\ entries' \in [RunKey -> 0 .. next']
        /\ token' \in [Requests -> 0 .. next']
        /\ \A s \in Requests \ {r} : token'[s] = token[s] /\ pc'[s] = pc[s]
        /\ \/ pc'[r] = "checked" /\ token'[r] = token[r]
           \/ pc'[r] = "over" /\ token'[r] = 0
        /\ UNCHANGED lease \/ Release(r)
    BY <1>a, LeaseTypes DEF IInv, TypeOK
  <1>1. PhasesFit'
    BY <1>a, <1>b, <1>d, RunsAreNoSends DEF IInv, PhasesFit
  <1>2. TypeOK'
    BY <1>a, <1>b, <1>c, <1>d, RunsAreNoSends DEF IInv, TypeOK
  <1>3. HolderOwns' /\ TokensDiffer' /\ PlansAreOld' /\ GivenUpHasMoved'
    BY <1>a, <1>b, <1>d, RequestKeeps
  <1> QED
    BY <1>1, <1>2, <1>3 DEF IInv

LEMMA DispatchKeysKeeps ==
  ASSUME IInv, NEW r \in Requests, DispatchKeys(r)
  PROVE  IInv'
  <1>a. /\ UNCHANGED <<generation, pid, synced, events, plan, watch, streaming,
                       command, shell, marker>>
        /\ pc[r] = "checked" /\ r \notin Runs
        /\ pc' = [pc EXCEPT ![r] = "over"] /\ Release(r)
    BY RunsAreNoSends DEF DispatchKeys, Fails, tmux, commands
  <1>d. /\ next' \in Nat /\ entries' \in [RunKey -> 0 .. next']
        /\ token' \in [Requests -> 0 .. next']
        /\ \A s \in Requests \ {r} : token'[s] = token[s] /\ pc'[s] = pc[s]
        /\ pc'[r] = "over" /\ token'[r] = 0
    BY <1>a, LeaseTypes DEF IInv, TypeOK
  <1>1. PhasesFit'
    BY <1>a, <1>d, RunsAreNoSends DEF IInv, PhasesFit
  <1>2. TypeOK'
    BY <1>a, <1>d, RunsAreNoSends DEF IInv, TypeOK
  <1>3. HolderOwns' /\ TokensDiffer' /\ PlansAreOld' /\ GivenUpHasMoved'
    BY <1>a, <1>d, RequestKeeps
  <1> QED
    BY <1>1, <1>2, <1>3 DEF IInv

\* Typing names a shell of the current server.
LEMMA TypedIsTyped ==
  ASSUME IInv, NEW r \in Runs, pc[r] # "idle", Typed(r)
  PROVE  /\ command' = [command EXCEPT ![r] = "running"]
         /\ shell' \in [Runs -> [generation : 0 .. MaxGeneration, pid : 0 .. MaxRespawns]]
  <1>1. PICK p \in Panes : plan[r].pane = {p}
    BY DEF IInv, PlansAreOld, PlanIsOld, Requests
  <1>2. (CHOOSE n \in {pid[q] : q \in plan[r].pane} : TRUE) = pid[p]
    BY <1>1
  <1>3. [generation |-> generation, pid |-> pid[p]]
          \in [generation : 0 .. MaxGeneration, pid : 0 .. MaxRespawns]
    BY LeasesAssumption DEF IInv, TypeOK
  <1> QED
    BY <1>2, <1>3 DEF Typed, IInv, TypeOK

LEMMA DispatchKeeps ==
  ASSUME IInv, NEW r \in Requests, r \in Runs, Dispatch(r)
  PROVE  IInv'
  <1>a. /\ UNCHANGED <<generation, pid, synced, events, plan, marker>>
        /\ pc[r] = "checked"
    BY DEF Dispatch, tmux
  <1>b. command[r] = "none" /\ watch[r] = "none" /\ token[r] # 0
    BY <1>a DEF IInv, PhasesFit
  <1>c. \/ /\ pc' = [pc EXCEPT ![r] = "collecting"] /\ UNCHANGED lease
           /\ watch' = [watch EXCEPT ![r] = "stream"]
           /\ command' = [command EXCEPT ![r] = "running"]
           /\ streaming' \in [Runs -> BOOLEAN]
           /\ shell' \in [Runs -> [generation : 0 .. MaxGeneration, pid : 0 .. MaxRespawns]]
        \/ /\ pc' = [pc EXCEPT ![r] = "over"] /\ Release(r)
           /\ watch' = watch /\ command' = command
           /\ streaming' \in [Runs -> BOOLEAN]
           /\ shell' \in [Runs -> [generation : 0 .. MaxGeneration, pid : 0 .. MaxRespawns]]
        \/ /\ pc' = [pc EXCEPT ![r] = "over"] /\ UNCHANGED lease
           /\ watch' = [watch EXCEPT ![r] = "both"]
           /\ command' = [command EXCEPT ![r] = "flight"]
           /\ streaming' \in [Runs -> BOOLEAN]
           /\ shell' \in [Runs -> [generation : 0 .. MaxGeneration, pid : 0 .. MaxRespawns]]
    BY <1>a, TypedIsTyped DEF Dispatch, Advance, Fails, IInv, TypeOK
  <1>d. /\ next' \in Nat /\ entries' \in [RunKey -> 0 .. next']
        /\ token' \in [Requests -> 0 .. next']
        /\ \A s \in Requests \ {r} : token'[s] = token[s] /\ pc'[s] = pc[s]
        /\ \A s \in Runs \ {r} : watch'[s] = watch[s] /\ command'[s] = command[s]
        /\ \/ /\ pc'[r] = "collecting" /\ token'[r] = token[r]
              /\ watch'[r] = "stream" /\ command'[r] = "running"
           \/ /\ pc'[r] = "over" /\ token'[r] = 0 /\ watch'[r] = "none"
              /\ command'[r] = "none"
           \/ /\ pc'[r] = "over" /\ token'[r] = token[r] /\ watch'[r] = "both"
              /\ command'[r] = "flight"
        /\ UNCHANGED lease \/ Release(r)
    BY <1>a, <1>b, <1>c, LeaseTypes DEF IInv, TypeOK, lease
  <1>1. PhasesFit'
    BY <1>a, <1>b, <1>d, RunsAreNoSends DEF IInv, PhasesFit
  <1>2. TypeOK'
    <2>1. /\ pc' \in [Requests -> {"idle", "planned", "reserved", "prepared", "checked",
                                   "collecting", "over"}]
          /\ watch' \in [Runs -> {"none", "stream", "both", "proof"}]
          /\ command' \in [Runs -> {"none", "flight", "running", "done", "lost"}]
      BY <1>c DEF IInv, TypeOK
    <2>2. marker' \subseteq {s \in Runs : command'[s] = "done"}
      BY <1>a, <1>b, <1>d DEF IInv, TypeOK
    <2>3. /\ \A s \in Runs : pc'[s] = "collecting" => watch'[s] = "stream"
          /\ \A s \in Runs : watch'[s] # "none" => token'[s] # 0
      BY <1>b, <1>d, RunsAreNoSends DEF IInv, TypeOK
    <2>4. /\ streaming' \in [Runs -> BOOLEAN]
          /\ shell' \in [Runs -> [generation : 0 .. MaxGeneration, pid : 0 .. MaxRespawns]]
      BY <1>c
    <2> QED
      BY <1>a, <1>d, <2>1, <2>2, <2>3, <2>4 DEF IInv, TypeOK
  <1>3. HolderOwns' /\ TokensDiffer' /\ PlansAreOld' /\ GivenUpHasMoved'
    BY <1>a, <1>b, <1>d, RequestKeeps
  <1> QED
    BY <1>1, <1>2, <1>3 DEF IInv

\* A request that gave up, or whose stream ended, leaves its lease to a task.
LEMMA LeaveToTaskKeeps ==
  ASSUME IInv, NEW r \in Requests, r \in Runs, GiveUp(r) \/ StreamEnds(r)
  PROVE  IInv'
  <1>a. /\ UNCHANGED <<generation, pid, synced, events, plan, command, shell, marker>>
        /\ UNCHANGED lease
        /\ watch[r] # "none" /\ pc' = [pc EXCEPT ![r] = "over"]
        /\ \/ watch' = [watch EXCEPT ![r] = "both"]
           \/ watch' = [watch EXCEPT ![r] = "proof"]
    BY DEF GiveUp, StreamEnds, Advance, tmux, commands, IInv, TypeOK
  <1>b. streaming' \in [Runs -> BOOLEAN] /\ pc[r] \in {"collecting", "over"} /\ token[r] # 0
    BY <1>a DEF GiveUp, StreamEnds, IInv, TypeOK, PhasesFit
  <1>d. /\ next' \in Nat /\ entries' \in [RunKey -> 0 .. next']
        /\ token' \in [Requests -> 0 .. next'] /\ token' = token
        /\ \A s \in Requests \ {r} : pc'[s] = pc[s]
        /\ \A s \in Runs \ {r} : watch'[s] = watch[s]
        /\ pc'[r] = "over" /\ watch'[r] \in {"both", "proof"}
    BY <1>a, LeaseTypes DEF IInv, TypeOK, lease
  <1>1. PhasesFit'
    BY <1>a, <1>b, <1>d, RunsAreNoSends DEF IInv, PhasesFit
  <1>2. TypeOK'
    BY <1>a, <1>b, <1>d, RunsAreNoSends DEF IInv, TypeOK
  <1>3. HolderOwns' /\ TokensDiffer' /\ PlansAreOld' /\ GivenUpHasMoved'
    BY <1>a, <1>b, <1>d, RequestKeeps DEF IInv, GivenUpHasMoved
  <1> QED
    BY <1>1, <1>2, <1>3 DEF IInv

\* What settles a proof is the marker or that the planned shell is no more.
LEMMA SettledHasMoved ==
  ASSUME IInv, NEW r \in Runs, pc[r] # "idle", Settled(r)
  PROVE  command[r] = "done" \/ Moved(r)
  <1>1. PlanIsOld(r)
    BY DEF IInv, PlansAreOld, Requests
  <1>2. plan[r].generation \in Nat /\ generation \in Nat /\ plan[r].pid \in Nat
        /\ \A p \in Panes : pid[p] \in Nat
    BY <1>1, LeasesAssumption DEF IInv, TypeOK, PlanIsOld, Plans, Requests
  <1>3. CASE generation # plan[r].generation
    BY <1>1, <1>2, <1>3 DEF PlanIsOld, Moved
  <1>4. CASE r \in marker
    BY <1>4 DEF IInv, TypeOK
  <1>5. CASE generation = plan[r].generation /\ \E p \in plan[r].pane : pid[p] # plan[r].pid
    BY <1>1, <1>2, <1>5 DEF PlanIsOld, Moved
  <1> QED
    BY <1>3, <1>4, <1>5 DEF Settled

\* The marker is seen, or the proof is made, and the lease is over.
LEMMA WatchingKeeps ==
  ASSUME IInv, NEW r \in Requests, r \in Runs, Watching(r)
  PROVE  IInv'
  <1>a. /\ UNCHANGED <<generation, pid, synced, events, plan, command, shell, marker>>
        /\ watch[r] # "none" /\ watch' = [watch EXCEPT ![r] = "none"] /\ Release(r)
        /\ streaming' = [streaming EXCEPT ![r] = FALSE]
        /\ \/ pc' = [pc EXCEPT ![r] = "over"] /\ command[r] = "done"
           \/ pc' = pc /\ watch[r] # "stream" /\ Settled(r)
    BY DEF Watching, CollectMarker, Prove, Fails, tmux, commands
  <1>b. pc[r] \in {"collecting", "over"} /\ (watch[r] # "stream" => pc[r] = "over")
    BY <1>a DEF IInv, TypeOK, PhasesFit
  <1>c. command[r] = "done" \/ Moved(r)
    BY <1>a, <1>b, SettledHasMoved
  <1>d. /\ next' \in Nat /\ entries' \in [RunKey -> 0 .. next']
        /\ token' \in [Requests -> 0 .. next'] /\ token'[r] = 0
        /\ \A s \in Requests \ {r} : token'[s] = token[s] /\ pc'[s] = pc[s]
        /\ \A s \in Runs \ {r} : watch'[s] = watch[s]
        /\ pc'[r] = "over" /\ watch'[r] = "none"
    BY <1>a, <1>b, LeaseTypes DEF IInv, TypeOK
  <1>1. PhasesFit'
    BY <1>a, <1>b, <1>d, RunsAreNoSends DEF IInv, PhasesFit
  <1>2. TypeOK'
    <2>1. streaming' \in [Runs -> BOOLEAN]
      BY <1>a DEF IInv, TypeOK
    <2>2. /\ watch' \in [Runs -> {"none", "stream", "both", "proof"}]
          /\ pc' \in [Requests -> {"idle", "planned", "reserved", "prepared", "checked",
                                   "collecting", "over"}]
      BY <1>a DEF IInv, TypeOK
    <2> QED
      BY <1>a, <1>d, <2>1, <2>2, RunsAreNoSends DEF IInv, TypeOK
  <1>3. HolderOwns' /\ TokensDiffer' /\ PlansAreOld' /\ GivenUpHasMoved'
    BY <1>a, <1>b, <1>c, <1>d, RequestKeeps
  <1> QED
    BY <1>1, <1>2, <1>3 DEF IInv

-----------------------------------------------------------------------------
(* The panes                                                               *)

\* A line that arrives, or a command that is over, keeps what was given up moved.
LEMMA CommandKeeps ==
  ASSUME IInv, NEW r \in Runs, Arrives(r) \/ Finishes(r)
  PROVE  IInv'
  <1>a. UNCHANGED <<generation, pid, synced, events, next, entries, token, pc, plan,
                    watch, streaming>>
    BY DEF Arrives, Finishes, tmux, requests, lease
  <1>b. command[r] \in {"flight", "running"} /\ pc[r] # "idle"
    BY DEF Arrives, Finishes, Occupies, IInv, PhasesFit, Requests
  <1>c. /\ \E c \in {"running", "lost", "done"} : command' = [command EXCEPT ![r] = c]
        /\ shell' \in [Runs -> [generation : 0 .. MaxGeneration, pid : 0 .. MaxRespawns]]
    BY <1>b, TypedIsTyped DEF Arrives, Finishes, IInv, TypeOK
  <1>d. marker' \subseteq {s \in Runs : command'[s] = "done"}
    <2>1. CASE Arrives(r)
      BY <1>b, <1>c, <2>1 DEF Arrives, IInv, TypeOK
    <2>2. CASE Finishes(r)
      BY <2>2 DEF Finishes, IInv, TypeOK
    <2> QED
      BY <2>1, <2>2
  <1>1. TypeOK'
    <2>1. command' \in [Runs -> {"none", "flight", "running", "done", "lost"}]
      BY <1>c DEF IInv, TypeOK
    <2> QED
      BY <1>a, <1>c, <1>d, <2>1 DEF IInv, TypeOK
  <1>2. HolderOwns' /\ TokensDiffer'
    BY <1>a, LeasesStay DEF lease
  <1>3. PhasesFit'
    BY <1>a, <1>b, <1>c DEF IInv, TypeOK, PhasesFit
  <1>4. PlansAreOld'
    BY <1>a, AgesStay DEF IInv, PlansAreOld
  <1>5. GivenUpHasMoved'
    <2> SUFFICES ASSUME NEW s \in Runs, command'[s] \in {"flight", "running"}, token'[s] = 0
                 PROVE  Moved(s)'
      BY DEF GivenUpHasMoved
    <2>1. command[s] \in {"flight", "running"}
      BY <1>b, <1>c DEF IInv, TypeOK
    <2> QED
      BY <1>a, <2>1, AgesStay DEF IInv, GivenUpHasMoved, Requests
  <1> QED
    BY <1>1, <1>2, <1>3, <1>4, <1>5 DEF IInv

\* Processes and servers only succeed each other: what moved has moved.
LEMMA TmuxKeeps ==
  ASSUME IInv, (\E p \in Panes : Respawns(p) \/ Clears(p)) \/ TmuxRestarts \/ Synchronizes
  PROVE  IInv'
  <1>a. /\ UNCHANGED <<next, entries, token, pc, plan, watch, streaming, command, shell>>
        /\ marker' \subseteq marker
    BY DEF Respawns, Clears, TmuxRestarts, Synchronizes, requests, lease, commands
  <1>b. /\ generation' \in 1 .. MaxGeneration /\ pid' \in [Panes -> 0 .. MaxRespawns]
        /\ synced' \in BOOLEAN /\ events' \in 0 .. MaxEvents
    <2>1. CASE \E p \in Panes : Respawns(p)
      BY <2>1, BoundsAreNat DEF IInv, TypeOK, Respawns
    <2>2. CASE TmuxRestarts
      BY <2>2, BoundsAreNat DEF IInv, TypeOK, TmuxRestarts
    <2>3. CASE (\E p \in Panes : Clears(p)) \/ Synchronizes
      <3>1. synced \in BOOLEAN
        BY DEF IInv, TypeOK
      <3>2. synced' \in BOOLEAN
        BY <2>3, <3>1, Zenon DEF Clears, Synchronizes
      <3>3. UNCHANGED <<generation, pid>> /\ events' \in 0 .. MaxEvents
        BY <2>3, BoundsAreNat DEF IInv, TypeOK, Clears, Synchronizes
      <3> QED
        BY <3>2, <3>3 DEF IInv, TypeOK
    <2> QED
      BY <2>1, <2>2, <2>3
  <1>c. \/ generation' = generation /\ \A p \in Panes : pid'[p] >= pid[p]
        \/ generation' = generation + 1
    BY LeasesAssumption DEF IInv, TypeOK, Respawns, Clears, TmuxRestarts, Synchronizes
  <1>1. TypeOK'
    BY <1>a, <1>b DEF IInv, TypeOK
  <1>2. HolderOwns' /\ TokensDiffer'
    BY <1>a, LeasesStay DEF lease
  <1>3. PhasesFit'
    BY <1>a DEF IInv, PhasesFit
  <1>d. \A r \in Requests : plan[r].pid \in Nat
    BY LeasesAssumption DEF IInv, TypeOK, Plans
  <1>e. /\ generation \in Nat /\ \A p \in Panes : pid[p] \in Nat /\ pid'[p] \in Nat
    BY <1>b, LeasesAssumption DEF IInv, TypeOK
  <1>4. PlansAreOld'
    <2> SUFFICES ASSUME NEW r \in Requests, pc[r] # "idle" PROVE PlanIsOld(r)'
      BY <1>a DEF PlansAreOld
    <2>1. PlanIsOld(r)
      BY DEF IInv, PlansAreOld
    <2>2. PICK p \in Panes : /\ plan[r].pane = {p}
                             /\ plan[r].generation = generation => plan[r].pid <= pid[p]
      BY <2>1 DEF PlanIsOld
    <2>3. plan[r].generation \in 1 .. generation
      BY <2>1 DEF PlanIsOld
    <2>4. /\ plan[r].generation \in 1 .. generation'
          /\ plan[r].generation = generation' => plan[r].pid <= pid'[p]
      BY <1>c, <1>d, <1>e, <2>2, <2>3
    <2> QED
      BY <1>a, <2>2, <2>4 DEF PlanIsOld
  <1>5. GivenUpHasMoved'
    <2> SUFFICES ASSUME NEW r \in Runs, command[r] \in {"flight", "running"}, token[r] = 0
                 PROVE  Moved(r)'
      BY <1>a DEF GivenUpHasMoved
    <2>1. Moved(r) /\ PlanIsOld(r) /\ plan[r].pid \in Nat
      BY <1>d DEF IInv, GivenUpHasMoved, PlansAreOld, PhasesFit, Requests
    <2>2. plan[r].generation \in 1 .. generation /\ plan[r].pane \subseteq Panes
      BY <2>1 DEF PlanIsOld
    <2> QED
      BY <1>a, <1>c, <1>e, <2>1, <2>2 DEF Moved
  <1> QED
    BY <1>1, <1>2, <1>3, <1>4, <1>5 DEF IInv

-----------------------------------------------------------------------------
(* The theorems                                                            *)

LEMMA InitHolds == Init => IInv
  <1> SUFFICES ASSUME Init PROVE IInv
    OBVIOUS
  <1>1. NoPlan \in Plans /\ NoShell \in [generation : 0 .. MaxGeneration, pid : 0 .. MaxRespawns]
    BY LeasesAssumption DEF NoPlan, NoShell, Plans
  <1>2. TypeOK
    <2>1. generation \in 1 .. MaxGeneration /\ events \in 0 .. MaxEvents /\ next \in Nat
      BY BoundsAreNat DEF Init
    <2>2. pid \in [Panes -> 0 .. MaxRespawns]
      BY BoundsAreNat DEF Init
    <2>3. synced \in BOOLEAN
      BY Zenon DEF Init
    <2>4. entries \in [RunKey -> 0 .. next] /\ token \in [Requests -> 0 .. next]
      BY DEF Init
    <2>5. /\ plan \in [Requests -> Plans] /\ streaming \in [Runs -> BOOLEAN]
          /\ shell \in [Runs -> [generation : 0 .. MaxGeneration, pid : 0 .. MaxRespawns]]
      BY <1>1 DEF Init
    <2> QED
      BY <2>1, <2>2, <2>3, <2>4, <2>5 DEF Init, TypeOK, Requests
  <1> QED
    BY <1>2 DEF Init, IInv, HolderOwns, TokensDiffer, PhasesFit, PlansAreOld,
                GivenUpHasMoved, Requests

LEMMA NextKeeps == IInv /\ [Next]_vars => IInv'
  <1> SUFFICES ASSUME IInv, [Next]_vars PROVE IInv'
    OBVIOUS
  <1>1. CASE Next
    <2>1. ASSUME NEW r \in Requests, NEW p \in Panes, Preflight(r, p) PROVE IInv'
      BY <2>1, PreflightKeeps
    <2>2. ASSUME NEW r \in Requests, Reserve(r) \/ FinalCheck(r) \/ DispatchKeys(r)
          PROVE  IInv'
      BY <2>2, ReserveKeeps, FinalCheckKeeps, DispatchKeysKeeps
    <2>3. ASSUME NEW r \in Runs, \/ Prepare(r) \/ Dispatch(r) \/ GiveUp(r) \/ StreamEnds(r)
                                 \/ Watching(r)
          PROVE  IInv'
      <3>1. r \in Requests
        BY DEF Requests
      <3> QED
        BY <2>3, <3>1, PrepareKeeps, DispatchKeeps, LeaveToTaskKeeps, WatchingKeeps
    <2>4. ASSUME NEW r \in Runs, Arrives(r) \/ Finishes(r) PROVE IInv'
      BY <2>4, CommandKeeps
    <2>5. ASSUME (\E p \in Panes : Respawns(p) \/ Clears(p)) \/ TmuxRestarts \/ Synchronizes
          PROVE  IInv'
      BY <2>5, TmuxKeeps
    <2> QED
      BY <1>1, <2>1, <2>2, <2>3, <2>4, <2>5 DEF Next
  <1>2. CASE UNCHANGED vars
    <2>1. UNCHANGED <<generation, pid, synced, next, entries, pc, plan, token, watch,
                      streaming, command, shell, marker, events>>
      BY <1>2 DEF vars
    <2>2. TypeOK'
      BY <2>1 DEF IInv, TypeOK
    <2>3. HolderOwns' /\ TokensDiffer'
      BY <2>1, LeasesStay DEF lease
    <2>4. PhasesFit'
      BY <2>1 DEF IInv, PhasesFit
    <2>5. PlansAreOld' /\ GivenUpHasMoved'
      BY <2>1, AgesStay DEF IInv, PlansAreOld, GivenUpHasMoved, Requests
    <2> QED
      BY <2>2, <2>3, <2>4, <2>5 DEF IInv
  <1> QED
    BY <1>1, <1>2

\* The inductive invariant holds of every behaviour of the registry of runs
\* (ActiveRuns, run_request.rs) and of what is typed under its leases.
THEOREM Invariance == Spec => []IInv
  BY InitHolds, NextKeeps, PTL DEF Spec

\* Every variable has its type: a request that still watches has its lease.
THEOREM TypeCorrect == Spec => []TypeOK
  <1>1. IInv => TypeOK
    BY DEF IInv
  <1> QED
    BY <1>1, Invariance, PTL

LEMMA OwnedWhileRunning == IInv => RunningIsReserved
  <1> SUFFICES ASSUME IInv, NEW r \in Runs, Occupies(r), InPlannedShell(r)
               PROVE  Owns(r)
    BY DEF RunningIsReserved
  <1>1. r \in Requests /\ command[r] = "running"
    BY DEF Occupies, Requests
  <1>2. ~Moved(r)
    <2>1. pc[r] # "idle"
      BY <1>1 DEF IInv, PhasesFit
    <2>2. plan[r].pane \subseteq Panes /\ plan[r].generation \in Nat /\ generation \in Nat
          /\ \A p \in Panes : pid[p] \in Nat
      BY <1>1, <2>1, LeasesAssumption DEF IInv, PlansAreOld, PlanIsOld, TypeOK
    <2>3. plan[r].generation = generation /\ \A p \in plan[r].pane : plan[r].pid = pid[p]
      BY DEF Occupies, InPlannedShell
    <2> QED
      BY <2>2, <2>3 DEF Moved
  <1>3. token[r] # 0
    BY <1>1, <1>2 DEF IInv, GivenUpHasMoved
  <1> QED
    BY <1>1, <1>3 DEF IInv, HolderOwns

\* While a command may run in the shell it was planned for, its pane is leased
\* to its run: for any panes, runs and sends, servers and respawns.
THEOREM RunningStaysReserved == Spec => []RunningIsReserved
  BY OwnedWhileRunning, Invariance, PTL

LEMMA AloneByLease == IInv => AloneUnlessRespawned
  <1> SUFFICES ASSUME IInv, NEW r \in Requests, NEW s \in Requests, r # s,
                      pc[r] = "checked", Keys(r) \cap Keys(s) # {},
                      \/ pc[s] = "checked"
                      \/ s \in Runs /\ Occupies(s) /\ (InPlannedShell(s) \/ Owns(s))
               PROVE  FALSE
    BY DEF AloneUnlessRespawned
  <1>1. PICK k \in Keys(r) : k \in Keys(s)
    OBVIOUS
  <1>2. token[r] # 0 /\ Owns(r)
    BY DEF IInv, PhasesFit, HolderOwns
  <1>3. token[s] # 0 /\ Owns(s)
    <2>1. CASE pc[s] = "checked"
      BY <2>1 DEF IInv, PhasesFit, HolderOwns
    <2>2. CASE s \in Runs /\ Occupies(s) /\ (InPlannedShell(s) \/ Owns(s))
      BY <2>2, OwnedWhileRunning DEF RunningIsReserved, Owns
    <2> QED
      BY <2>1, <2>2
  <1>4. entries[k] = token[r] /\ entries[k] = token[s]
    BY <1>1, <1>2, <1>3 DEF Owns
  <1> QED
    BY <1>2, <1>4 DEF IInv, TokensDiffer

\* Of two requests whose panes overlap only one has passed its last check, and
\* then a command that the other has running was typed into a later shell than
\* its preflight saw and has lost its lease.
THEOREM CheckedIsAlone == Spec => []AloneUnlessRespawned
  BY AloneByLease, Invariance, PTL
=============================================================================
