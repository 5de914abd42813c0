------------------------------ MODULE RunLeases ------------------------------
(***************************************************************************)
(* What the MCP server types into a pane, and the leases that keep two of   *)
(* its requests apart (crates/tmux-mcp/src/run_request.rs, exec/run.rs,     *)
(* tools/observe.rs run_command, tools/control.rs send_keys_one).           *)
(*                                                                          *)
(* A run types one line, whose command prints a marker of its own when it   *)
(* is over.  The request reads the pane's stream for the marker; when the   *)
(* request is over before the command is, a task keeps the lease until the  *)
(* marker, or the end of the shell that was typed into, is proved.  Around  *)
(* them the pane may be respawned or its history cleared, panes may be      *)
(* synchronized, the stream lost and the whole tmux server replaced.        *)
(***************************************************************************)
EXTENDS Naturals, FiniteSets

CONSTANTS Panes,
          Runs, Sends,     \* run_shell_command and send_keys requests
          \* Bounds: requests started, tmux servers, respawns, clears and toggles.
          MaxStarted, MaxGeneration, MaxRespawns, MaxEvents

ASSUME LeasesAssumption ==
  /\ {MaxStarted, MaxRespawns, MaxEvents} \subseteq Nat /\ MaxGeneration \in Nat \ {0}
  /\ Runs \cap Sends = {}

VARIABLES
  generation,  \* which tmux server is there
  pid,         \* per pane: the process it runs
  synced,      \* whether the panes' input is synchronized
  next,        \* ActiveRuns::next
  entries,     \* ActiveRuns::entries: per key the token of its holder, or 0
  pc,          \* per request: how far it is
  plan,        \* per request: what its preflight saw
  token,       \* per request: the token of the lease it, or its task, holds
  watch,       \* per run: what may still release its lease
  streaming,   \* per run: whether its pane stream is open
  command,     \* per run: the typed line and the command it starts
  shell,       \* per run: the generation and process it was typed into
  marker,      \* runs whose marker is in the history of their pane
  events       \* bound

vars == <<generation, pid, synced, next, entries, pc, plan, token, watch,
          streaming, command, shell, marker, events>>

Requests == Runs \cup Sends

RunKey == (1 .. MaxGeneration) \X Panes

lease == <<next, entries, token>>

tmux == <<generation, pid, synced, events>>

commands == <<command, shell, marker>>

NoPlan == [generation |-> 0, pane |-> {}, panes |-> {}, pid |-> 0]

NoShell == [generation |-> 0, pid |-> 0]

Plans == [generation : 0 .. MaxGeneration, pane : SUBSET Panes,
          panes : SUBSET Panes, pid : 0 .. MaxRespawns]

TypeOK ==
  /\ generation \in 1 .. MaxGeneration /\ pid \in [Panes -> 0 .. MaxRespawns]
  /\ synced \in BOOLEAN /\ events \in 0 .. MaxEvents
  /\ next \in Nat /\ entries \in [RunKey -> 0 .. next] /\ token \in [Requests -> 0 .. next]
  /\ plan \in [Requests -> Plans] /\ streaming \in [Runs -> BOOLEAN]
  /\ pc \in [Requests -> {"idle", "planned", "reserved", "prepared", "checked",
                          "collecting", "over"}]
  /\ watch \in [Runs -> {"none", "stream", "both", "proof"}]
  /\ command \in [Runs -> {"none", "flight", "running", "done", "lost"}]
  /\ shell \in [Runs -> [generation : 0 .. MaxGeneration, pid : 0 .. MaxRespawns]]
  /\ marker \subseteq {r \in Runs : command[r] = "done"}
  /\ \A r \in Runs : pc[r] = "collecting" => watch[r] = "stream"
  /\ \A r \in Runs : watch[r] # "none" => token[r] # 0

Init ==
  /\ generation = 1 /\ pid = [p \in Panes |-> 0] /\ synced = FALSE /\ events = 0
  /\ next = 0 /\ entries = [k \in RunKey |-> 0]
  /\ pc = [r \in Requests |-> "idle"] /\ plan = [r \in Requests |-> NoPlan]
  /\ token = [r \in Requests |-> 0]
  /\ watch = [r \in Runs |-> "none"] /\ streaming = [r \in Runs |-> FALSE]
  /\ command = [r \in Runs |-> "none"] /\ shell = [r \in Runs |-> NoShell]
  /\ marker = {}

-----------------------------------------------------------------------------
(* The leases                                                              *)

Keys(r) == {<<plan[r].generation, p>> : p \in plan[r].panes}

\* A bug the checks must notice: panes free at the preflight are not looked at again.
CanReserveUnlooked(r) == token[r] = 0

\* reserve: every key or none, under one token.
CanReserve(r) == \A k \in Keys(r) : entries[k] = 0

Owns(r) == token[r] # 0 /\ \A k \in Keys(r) : entries[k] = token[r]

\* LeaseInner::drop, when the last clone of the lease goes.
Release(r) ==
  /\ entries' = [k \in RunKey |-> IF k \in Keys(r) /\ entries[k] = token[r]
                                  THEN 0 ELSE entries[k]]
  /\ token' = [token EXCEPT ![r] = 0]
  /\ UNCHANGED next

\* The request is over and its lease with it.
Fails(r) == pc' = [pc EXCEPT ![r] = "over"] /\ Release(r)

Advance(r, to) == pc' = [pc EXCEPT ![r] = to]

-----------------------------------------------------------------------------
(* The requests                                                            *)

\* preflight_pane_input: the panes the input would reach, none of them leased.
Configured(r, p) == IF r \in Sends /\ synced THEN Panes ELSE {p}

Preflight(r, p) ==
  /\ pc[r] = "idle" /\ (r \in Runs => ~synced)
  /\ Cardinality({s \in Requests : pc[s] # "idle"}) < MaxStarted
  /\ \A q \in Configured(r, p) : entries[<<generation, q>>] = 0
  /\ plan' = [plan EXCEPT ![r] = [generation |-> generation, pane |-> {p},
                panes |-> Configured(r, p), pid |-> pid[p]]]
  /\ Advance(r, "planned")
  /\ UNCHANGED <<tmux, lease, watch, streaming, commands>>

Reserve(r) ==
  /\ pc[r] = "planned"
  /\ IF CanReserve(r)
     THEN /\ next' = next + 1 /\ token' = [token EXCEPT ![r] = next']
          /\ entries' = [k \in RunKey |-> IF k \in Keys(r) THEN next' ELSE entries[k]]
          /\ Advance(r, "reserved")
     ELSE Advance(r, "over") /\ UNCHANGED lease
  /\ UNCHANGED <<tmux, plan, watch, streaming, commands>>

\* prepare_run: stage the frame and attach the pane's stream before typing.
Prepare(r) ==
  /\ r \in Runs /\ pc[r] = "reserved"
  /\ \/ Advance(r, "prepared") /\ streaming' = [streaming EXCEPT ![r] = TRUE]
        /\ UNCHANGED lease
     \/ Fails(r) /\ UNCHANGED streaming
  /\ UNCHANGED <<tmux, plan, watch, commands>>

\* The second preflight, with the lease: the same server, panes and owner.
SameAuthority(r) ==
  /\ generation = plan[r].generation
  /\ plan[r].panes = UNION {Configured(r, p) : p \in plan[r].pane}
  /\ r \in Runs => ~synced

FinalCheck(r) ==
  /\ pc[r] = IF r \in Runs THEN "prepared" ELSE "reserved"
  /\ IF SameAuthority(r) /\ Owns(r)
     THEN Advance(r, "checked") /\ UNCHANGED <<lease, streaming>>
     ELSE Fails(r) /\ streaming' = [c \in Runs |-> streaming[c] /\ c # r]
  /\ UNCHANGED <<tmux, plan, watch, commands>>

\* send_keys is over when its dispatch is, whatever came of it.
DispatchKeys(r) ==
  /\ r \in Sends /\ pc[r] = "checked" /\ Fails(r)
  /\ UNCHANGED <<tmux, plan, watch, streaming, commands>>

\* The line reaches the shell that is in the pane by now.
Typed(r) ==
  /\ command' = [command EXCEPT ![r] = "running"]
  /\ shell' = [shell EXCEPT ![r] = [generation |-> generation,
                 pid |-> CHOOSE n \in {pid[p] : p \in plan[r].pane} : TRUE]]

\* PreparedRun::dispatch: confirmed, proved never sent, or neither.  The last
\* leaves the line perhaps on its way, and its lease to the stream and proof.
Dispatch(r) ==
  /\ r \in Runs /\ pc[r] = "checked"
  /\ \/ /\ Advance(r, "collecting") /\ watch' = [watch EXCEPT ![r] = "stream"]
        /\ Typed(r) /\ UNCHANGED <<lease, streaming>>
     \/ /\ Fails(r) /\ streaming' = [streaming EXCEPT ![r] = FALSE]
        /\ UNCHANGED <<watch, command, shell>>
     \/ /\ Advance(r, "over") /\ watch' = [watch EXCEPT ![r] = "both"]
        /\ command' = [command EXCEPT ![r] = "flight"]
        /\ UNCHANGED <<lease, streaming, shell>>
  /\ UNCHANGED <<tmux, plan, marker>>

\* A bug the checks must notice: the lease ends with the request.
GiveUpTheLease(r) ==
  /\ pc[r] = "collecting" /\ Fails(r) /\ watch' = [watch EXCEPT ![r] = "none"]
  /\ streaming' = [streaming EXCEPT ![r] = FALSE]
  /\ UNCHANGED <<tmux, plan, commands>>

\* The request is cancelled or at its deadline; a task keeps its lease.
GiveUp(r) ==
  /\ pc[r] = "collecting" /\ Advance(r, "over")
  /\ watch' = [watch EXCEPT ![r] = "both"]
  /\ UNCHANGED <<tmux, lease, plan, streaming, commands>>

\* The stream shows the marker: the collector is done and nothing is left to prove.
CollectMarker(r) ==
  /\ watch[r] \in {"stream", "both"} /\ streaming[r] /\ command[r] = "done"
  /\ Fails(r) /\ watch' = [watch EXCEPT ![r] = "none"]
  /\ streaming' = [streaming EXCEPT ![r] = FALSE]
  /\ UNCHANGED <<tmux, plan, commands>>

\* The stream ends first: PaneClosed, with the proof still to be made.
StreamEnds(r) ==
  /\ watch[r] \in {"stream", "both"} /\ streaming[r]
  /\ streaming' = [streaming EXCEPT ![r] = FALSE]
  /\ watch' = [watch EXCEPT ![r] = "proof"] /\ Advance(r, "over")
  /\ UNCHANGED <<tmux, lease, plan, commands>>

\* A bug the checks must notice: only the end of the shell is looked for.
SettledByShell(r) ==
  \/ generation # plan[r].generation
  \/ \E p \in plan[r].pane : pid[p] # plan[r].pid

\* RunProof::settled: the server is another, the marker is in the history, or
\* the pane's process is not the one its handle was read with.
Settled(r) ==
  \/ generation # plan[r].generation
  \/ r \in marker
  \/ \E p \in plan[r].pane : pid[p] # plan[r].pid

Prove(r) ==
  /\ watch[r] \in {"both", "proof"} /\ Settled(r)
  /\ Release(r) /\ watch' = [watch EXCEPT ![r] = "none"]
  /\ streaming' = [streaming EXCEPT ![r] = FALSE]
  /\ UNCHANGED <<tmux, pc, plan, commands>>

-----------------------------------------------------------------------------
(* What happens in the panes                                               *)

\* The command is still the business of the shell the pane runs.
Occupies(r) ==
  /\ command[r] = "running" /\ shell[r].generation = generation
  /\ \A p \in plan[r].pane : shell[r].pid = pid[p]

requests == <<lease, pc, plan, watch, streaming>>

\* A line on its way arrives, or is dropped with the client that carried it.
Arrives(r) ==
  /\ command[r] = "flight"
  /\ \/ Typed(r)
     \/ command' = [command EXCEPT ![r] = "lost"] /\ UNCHANGED shell
  /\ UNCHANGED <<tmux, requests, marker>>

Finishes(r) ==
  /\ Occupies(r) /\ command' = [command EXCEPT ![r] = "done"]
  /\ marker' = marker \cup {r}
  /\ UNCHANGED <<tmux, requests, shell>>

Respawns(p) ==
  /\ pid[p] < MaxRespawns /\ pid' = [pid EXCEPT ![p] = @ + 1]
  /\ UNCHANGED <<generation, synced, events, requests, commands>>

TmuxRestarts ==
  /\ generation < MaxGeneration /\ generation' = generation + 1
  /\ pid' = [p \in Panes |-> 0] /\ marker' = {}
  /\ UNCHANGED <<synced, events, requests, command, shell>>

\* The user clears a pane's history, or synchronizes the panes or not.
Clears(p) ==
  /\ events < MaxEvents /\ events' = events + 1
  /\ marker' = {r \in marker : p \notin plan[r].pane}
  /\ UNCHANGED <<generation, pid, synced, requests, command, shell>>

Synchronizes ==
  /\ events < MaxEvents /\ events' = events + 1 /\ synced' = ~synced
  /\ UNCHANGED <<generation, pid, requests, commands>>

Watching(r) == CollectMarker(r) \/ Prove(r)

Next ==
  \/ \E r \in Requests, p \in Panes : Preflight(r, p)
  \/ \E r \in Requests : Reserve(r) \/ FinalCheck(r) \/ DispatchKeys(r)
  \/ \E r \in Runs : \/ Prepare(r) \/ Dispatch(r) \/ GiveUp(r) \/ StreamEnds(r)
                     \/ Watching(r) \/ Arrives(r) \/ Finishes(r)
  \/ \E p \in Panes : Respawns(p) \/ Clears(p)
  \/ TmuxRestarts \/ Synchronizes

Spec == Init /\ [][Next]_vars

\* The task that keeps a lease looks again and again, and the runtime polls the
\* collector a chunk has woken; a request is bounded by its deadline.
FairSpec == Spec /\ \A r \in Runs : WF_vars(Watching(r)) /\ WF_vars(GiveUp(r))

-----------------------------------------------------------------------------

\* The command was typed into the shell its preflight saw.
InPlannedShell(r) ==
  shell[r] = [generation |-> plan[r].generation, pid |-> plan[r].pid]

\* While a command typed into the shell that was planned for may still run, its
\* pane is leased to its run, however the request that typed it came to an end
\* (run_command: "its watcher keeps the reservation until completion is proved").
RunningIsReserved ==
  \A r \in Runs : (Occupies(r) /\ InPlannedShell(r)) => Owns(r)

\* Two requests whose panes overlap are never both about to type.  A command
\* that runs in such a pane meanwhile is one whose shell was replaced between
\* its preflight and its typing, and whose lease the proof gave up for that
\* (RunProof::settled compares with the process the preflight saw): the code
\* lets the next request type beside it.
AloneUnlessRespawned ==
  \A r, s \in Requests :
    (r # s /\ pc[r] = "checked" /\ Keys(r) \cap Keys(s) # {}) =>
      /\ pc[s] # "checked"
      /\ (s \in Runs /\ Occupies(s)) => (~InPlannedShell(s) /\ ~Owns(s))

\* A command that is over gives its pane back, unless the marker was cleared
\* away before anything saw it: the lease is not kept for ever.
FinishedIsReleased ==
  \A r \in Runs : command[r] = "done" ~> (token[r] = 0 \/ r \notin marker)
=============================================================================
