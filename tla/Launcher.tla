------------------------------ MODULE Launcher ------------------------------
(***************************************************************************)
(* The supervisor of an installed miner (installers/launcher): it keeps    *)
(* the signed release current, runs the node, restarts it when it stops,   *)
(* and puts the previous release back when a new one will not run.         *)
(*                                                                         *)
(* One JavaScript program: a handler runs to its next await without being  *)
(* interrupted, and timers, the hourly check and the watch over a new      *)
(* release interleave there.  A release is its sequence number; whatever   *)
(* verifyRelease accepts is `published`.  Downloads, digests and the       *)
(* router are left out: a build succeeds or throws.                        *)
(***************************************************************************)
EXTENDS Integers, FiniteSets

CONSTANTS
  Release,      \* sequence numbers
  Runs,         \* releases whose node catches up; any other one crashes before
  Carries,      \* Carries[r]: LAUNCHER_VERSION of the supervisor in r
  MinLauncher,  \* MinLauncher[r]: the supervisor r asks for
  Before,       \* Before[r]: mandatory.beforeHeight, 0 when r is not mandatory
  Staged,       \* releases with rollout.hours: a computer waits for its turn
  Lead,         \* MANDATORY_LEAD_BLOCKS
  MaxHeight,    \* bound: height of the network
  MaxNode,      \* bound: node processes at a time
  MaxFaults     \* bound: crashes of a good node, failed swaps and reboots

ASSUME LauncherAssumption ==
  /\ Release \subseteq Nat \ {0} /\ Runs \cup Staged \subseteq Release
  /\ {Carries, MinLauncher, Before} \subseteq [Release -> Nat]
  /\ \A r, s \in Release : r < s => Carries[r] <= Carries[s]
  /\ Lead \in Nat /\ MaxHeight \in Nat /\ MaxNode \in Nat /\ MaxFaults \in Nat

NoRelease == 0
NoNode == 0
Crashes == 3     \* exits before the release ever ran that make a crash loop
Watch == 1 .. 2  \* watchHealth intervals: the running one and that of the next release

VARIABLES
  app, prev,     \* the releases in app/ and app-prev/
  badSeqs,       \* state.json
  justUpdated,   \* the marker file
  onDisk,        \* version of the supervisor's file
  supervisor,    \* "down", "starting" (before startNode) or "up"
  running,       \* version of the supervisor that runs
  nodes,         \* the node processes of the machine
  child,         \* the one the supervisor takes for its own
  timers,        \* pending restarts (setTimeout(startNode))
  healthy, exits, mineAllowed,
  watch,         \* watchHealth: "off", "poll", or "stopping" (awaiting stopNode)
  step,          \* where updateIfNeeded awaits
  found,         \* the release it found
  haveSeq,       \* what was installed when it asked
  seen,          \* the height the peers gave; -1, below any, when none answered
  published, open, height, faults

diskVars == <<app, prev, badSeqs, justUpdated, onDisk>>
nodeVars == <<nodes, child>>
selfVars == <<supervisor, running>>
healthVars == <<healthy, exits, watch>>
updateVars == <<step, found, haveSeq, seen>>
worldVars == <<published, open, height>>
launcherVars == <<diskVars, selfVars, nodeVars, timers, healthVars, mineAllowed,
                  updateVars, worldVars, faults>>

LauncherTypeOK ==
  /\ {app, prev, found, haveSeq} \subseteq Release \cup {NoRelease}
  /\ badSeqs \cup published \cup open \subseteq Release
  /\ supervisor \in {"down", "starting", "up"}
  /\ nodes \subseteq [id : 1 .. MaxNode, release : Release, mines : BOOLEAN,
                      serving : BOOLEAN, told : BOOLEAN]
  /\ child # NoNode => \E n \in nodes : n.id = child /\ ~n.told
  /\ watch \in [Watch -> {"off", "poll", "stopping"}]
  /\ step \in {"idle", "asked", "guard", "build", "swap", "leave"}

LauncherInit ==
  /\ app = NoRelease /\ prev = NoRelease /\ badSeqs = {} /\ justUpdated = FALSE
  /\ onDisk = 0 /\ running = 0 /\ supervisor = "down"
  /\ nodes = {} /\ child = NoNode /\ timers = 0
  /\ healthy = FALSE /\ exits = 0 /\ mineAllowed = TRUE
  /\ watch = [w \in Watch |-> "off"]
  /\ step = "idle" /\ found = NoRelease /\ haveSeq = NoRelease /\ seen = -1
  /\ published = {} /\ open = {} /\ height = 0 /\ faults = 0

-----------------------------------------------------------------------------
(* startNode, stopNode *)

\* startNode: whatever child was, the new process takes its place.  Without app/
\* there is none (see Breaks).
Started(others, release, mines) ==
  LET id == CHOOSE i \in 1 .. MaxNode :
              /\ \A n \in others : n.id # i
              /\ \A j \in 1 .. i - 1 : \E n \in others : n.id = j
  IN  /\ release # NoRelease /\ Cardinality(others) < MaxNode
      /\ nodes' = others \cup {[id |-> id, release |-> release, mines |-> mines,
                                serving |-> FALSE, told |-> FALSE]}
      /\ child' = id

\* stopNode, up to its await: child is forgotten, and killed.
Told == {IF n.id = child THEN [n EXCEPT !.told = TRUE] ELSE n : n \in nodes}

ChildTold == nodes' = Told /\ child' = NoNode

TimerFires ==
  /\ supervisor = "up" /\ timers > 0
  /\ timers' = timers - 1
  /\ Started(nodes, app, mineAllowed)
  /\ UNCHANGED <<diskVars, selfVars, healthVars, mineAllowed, updateVars,
                 worldVars, faults>>

-----------------------------------------------------------------------------
(* The processes *)

\* A node serves on its port once it has loaded the chain; a port in use ends it.
Serve(n) ==
  /\ ~n.serving /\ ~n.told /\ \A m \in nodes : ~m.serving
  /\ nodes' = (nodes \ {n}) \cup {[n EXCEPT !.serving = TRUE]}
  /\ UNCHANGED <<diskVars, selfVars, child, timers, healthVars, mineAllowed,
                 updateVars, worldVars, faults>>

\* Its output shows it caught up or mining, whoever it is.
Prove(n) ==
  /\ supervisor = "up" /\ n.serving /\ n.release \in Runs /\ ~healthy
  /\ healthy' = TRUE
  /\ UNCHANGED <<diskVars, selfVars, nodeVars, timers, exits, mineAllowed, watch,
                 updateVars, worldVars, faults>>

\* What ends a node without a fault: it was told, it cannot run, its port is taken.
Ends(n) ==
  \/ n.told \/ n.release \notin Runs
  \/ ~n.serving /\ \E m \in nodes : m.serving

\* child.on('exit'): counted, and started again later, only if it is still child.
Exit(n) ==
  /\ \/ Ends(n) /\ UNCHANGED faults
     \/ ~Ends(n) /\ faults < MaxFaults /\ faults' = faults + 1
  /\ nodes' = nodes \ {n}
  /\ IF n.id = child
     THEN /\ timers < MaxNode
          /\ child' = NoNode /\ timers' = timers + 1
          /\ exits' = IF exits < Crashes THEN exits + 1 ELSE exits
     ELSE UNCHANGED <<child, timers, exits>>
  /\ UNCHANGED <<diskVars, selfVars, healthy, mineAllowed, watch, updateVars,
                 worldVars>>

-----------------------------------------------------------------------------
(* updateIfNeeded *)

MustStopMining(m, have, at) == Before[m] > 0 /\ have < m /\ at >= Before[m]

RolloutAllows(m, at) ==
  \/ Before[m] > 0 /\ at >= Before[m] - Lead
  \/ m \notin Staged \/ m \in open

MayInstall(m, have, at, launcher) ==
  /\ m > have /\ m \notin badSeqs
  /\ MinLauncher[m] <= launcher
  /\ RolloutAllows(m, at)

\* What networkHeight may return: the peers may be behind, or silent.
Heights == -1 .. height

\* refreshSelf: a newer supervisor in app/ is copied out, and asks for a restart.
Refreshes(release, launcher) == Carries[release] > launcher

Idle == step' = "idle" /\ found' = NoRelease /\ haveSeq' = NoRelease /\ seen' = -1

\* latestRelease answers: the newest of what its sources offer, not of what exists.
Ask ==
  /\ supervisor = "up" /\ step = "idle"
  /\ \E m \in published : found' = m
  /\ haveSeq' = app /\ step' = "asked" /\ seen' = -1
  /\ UNCHANGED <<diskVars, selfVars, nodeVars, timers, healthVars, mineAllowed,
                 worldVars, faults>>

\* What follows the guard: a build, or nothing to do.
Judge(at) ==
  IF MayInstall(found, haveSeq, at, running)
  THEN step' = "build" /\ seen' = at /\ UNCHANGED <<found, haveSeq>>
  ELSE Idle

\* networkHeight answers.  The guard of a flag day restarts the node when it turns.
Decide(at) ==
  LET stop == MustStopMining(found, haveSeq, at)
  IN  /\ step = "asked"
      /\ mineAllowed' = ~stop
      /\ \/ mineAllowed = ~stop /\ Judge(at) /\ UNCHANGED nodeVars
         \/ mineAllowed = stop /\ child = NoNode /\ Started(nodes, app, ~stop) /\ Judge(at)
         \/ /\ mineAllowed = stop /\ child # NoNode
            /\ ChildTold /\ step' = "guard" /\ seen' = at /\ UNCHANGED <<found, haveSeq>>
      /\ UNCHANGED <<diskVars, selfVars, timers, healthVars, worldVars, faults>>

\* After the await of stopNode, which ends with the process or after 30 seconds.
GuardRestarts ==
  /\ step = "guard"
  /\ Started(nodes, app, mineAllowed)
  /\ Judge(seen)
  /\ UNCHANGED <<diskVars, selfVars, timers, healthVars, mineAllowed, worldVars,
                 faults>>

\* buildApp, a fetch or npm throws: the old version goes on.
BuildFails ==
  /\ step = "build" /\ faults < MaxFaults
  /\ faults' = faults + 1
  /\ IF child = NoNode THEN Started(nodes, app, mineAllowed) ELSE UNCHANGED nodeVars
  /\ Idle
  /\ UNCHANGED <<diskVars, selfVars, timers, healthVars, mineAllowed, worldVars>>

BuildDone ==
  /\ step = "build" /\ child # NoNode
  /\ ChildTold /\ step' = "swap"
  /\ UNCHANGED <<diskVars, selfVars, timers, healthVars, mineAllowed, found,
                 haveSeq, seen, worldVars, faults>>

\* Nobody to wait for, or the wait is over.
MaySwap == step = "swap" \/ (step = "build" /\ child = NoNode)

\* swapIn and what its caller does next: a restart of the supervisor, or of the node.
Swap ==
  /\ MaySwap
  /\ prev' = app /\ app' = found
  /\ healthy' = FALSE /\ exits' = 0
  /\ IF Refreshes(found, running)
     THEN /\ onDisk' = Carries[found] /\ justUpdated' = TRUE
          /\ nodes' = Told /\ child' = NoNode
          /\ step' = "leave" /\ UNCHANGED <<found, haveSeq, seen, watch>>
     ELSE /\ UNCHANGED onDisk /\ justUpdated' = FALSE
          /\ Started(nodes, found, mineAllowed)
          /\ watch' = [watch EXCEPT ![IF watch[1] = "off" THEN 1 ELSE 2] = "poll"]
          /\ Idle
  /\ UNCHANGED <<badSeqs, selfVars, timers, mineAllowed, worldVars, faults>>

\* The memory of a supervisor that ends.
Forgotten ==
  /\ supervisor' = "down" /\ child' = NoNode /\ timers' = 0
  /\ healthy' = FALSE /\ exits' = 0 /\ mineAllowed' = TRUE
  /\ watch' = [w \in Watch |-> "off"]
  /\ Idle

\* Either rename of swapIn throws, and app-prev/ is gone by then; or the copy of
\* the supervisor does.
BrokenSwap(release, launcher) ==
  \/ app # NoRelease /\ app' = app /\ prev' = NoRelease
  \/ app' = NoRelease /\ prev' = app
  \/ Refreshes(release, launcher) /\ app' = release /\ prev' = app

\* Mutant: nobody starts the node again after a swap that threw.
SwapFailsIdle ==
  /\ MaySwap /\ faults < MaxFaults
  /\ faults' = faults + 1
  /\ BrokenSwap(found, running)
  /\ healthy' = FALSE /\ exits' = 0 /\ Idle
  /\ UNCHANGED <<nodeVars, supervisor, timers, mineAllowed, watch>>
  /\ UNCHANGED <<badSeqs, justUpdated, onDisk, running, worldVars>>

\* The node starts again from what is in app/; with nothing there the
\* supervisor ends.
SwapFails ==
  /\ MaySwap /\ faults < MaxFaults
  /\ faults' = faults + 1
  /\ BrokenSwap(found, running)
  /\ IF child = NoNode /\ app' = NoRelease
     THEN Forgotten /\ UNCHANGED nodes
     ELSE /\ healthy' = FALSE /\ exits' = 0 /\ Idle
          /\ IF child = NoNode THEN Started(nodes, app', mineAllowed) ELSE UNCHANGED nodeVars
          /\ UNCHANGED <<supervisor, timers, mineAllowed, watch>>
  /\ UNCHANGED <<badSeqs, justUpdated, onDisk, running, worldVars>>

\* restartSelf: a node that is not child outlives the supervisor.
RestartSelf ==
  /\ step = "leave"
  /\ Forgotten
  /\ UNCHANGED <<diskVars, running, nodes, worldVars, faults>>

-----------------------------------------------------------------------------
(* watchHealth *)

CrashLoop == ~healthy /\ exits >= Crashes

\* rollBack: the release in app/ is skipped from now on, whichever it is by now.
RollBack(w) ==
  /\ watch' = [watch EXCEPT ![w] = "off"]
  /\ IF prev = NoRelease
     THEN /\ Started(nodes, app, mineAllowed)
          /\ UNCHANGED <<app, prev, badSeqs, healthy, exits>>
     ELSE /\ app # NoRelease /\ app' = prev /\ prev' = NoRelease /\ badSeqs' = badSeqs \cup {app}
          /\ healthy' = FALSE /\ exits' = 0
          /\ Started(nodes, prev, mineAllowed)

MayRollBack(w) ==
  \/ watch[w] = "stopping"
  \/ watch[w] = "poll" /\ CrashLoop /\ child = NoNode

\* Every 30 seconds, until the release ran or its crash loop is cut.
PollHealth(w) ==
  /\ \/ /\ watch[w] = "poll" /\ healthy
        /\ watch' = [watch EXCEPT ![w] = "off"]
        /\ UNCHANGED <<app, prev, badSeqs, nodeVars, healthy, exits>>
     \/ /\ watch[w] = "poll" /\ CrashLoop /\ child # NoNode
        /\ watch' = [watch EXCEPT ![w] = "stopping"] /\ ChildTold
        /\ UNCHANGED <<app, prev, badSeqs, healthy, exits>>
     \/ MayRollBack(w) /\ RollBack(w)
  /\ UNCHANGED <<justUpdated, onDisk, selfVars, timers, mineAllowed, updateVars,
                 worldVars, faults>>

-----------------------------------------------------------------------------
(* supervise *)

\* A release goes in before the node starts; a newer supervisor in it takes over.
Install(m) ==
  /\ app' = m
  /\ onDisk' = IF Carries[m] > onDisk THEN Carries[m] ELSE onDisk
  /\ supervisor' = IF Carries[m] > onDisk THEN "down" ELSE "starting"

\* The first install, or what follows a swap that broke in the middle; one that
\* fails ends the supervisor as it began.
BeginEmpty ==
  /\ supervisor = "down" /\ app = NoRelease
  /\ running' = onDisk
  /\ \E m \in published : Install(m)
  /\ prev' = NoRelease
  /\ UNCHANGED <<badSeqs, justUpdated, nodeVars, timers, healthVars, mineAllowed,
                 updateVars, worldVars, faults>>

\* The check before the node starts, with what its sources answered, if any did.
\* A build that fails leaves things as they were, and a swap what it reached.
Begin ==
  /\ supervisor = "down" /\ app # NoRelease
  /\ running' = onDisk
  /\ \E at \in Heights, m \in published \cup {NoRelease} :
       LET stop == m # NoRelease /\ MustStopMining(m, app, at)
       IN  \/ /\ supervisor' = "starting" /\ mineAllowed' = ~stop
              /\ UNCHANGED <<app, prev, justUpdated, onDisk, faults>>
           \/ /\ m # NoRelease /\ MayInstall(m, app, at, onDisk)
              /\ Install(m) /\ prev' = app /\ justUpdated' = TRUE
              /\ mineAllowed' = (supervisor' = "down" \/ ~stop)
              /\ UNCHANGED faults
           \/ /\ m # NoRelease /\ MayInstall(m, app, at, onDisk)
              /\ faults < MaxFaults /\ faults' = faults + 1
              /\ BrokenSwap(m, onDisk) /\ supervisor' = "starting" /\ mineAllowed' = ~stop
              /\ UNCHANGED <<justUpdated, onDisk>>
  /\ UNCHANGED <<badSeqs, nodeVars, timers, healthVars, updateVars, worldVars>>

Launch ==
  /\ supervisor = "starting"
  /\ supervisor' = "up" /\ Started(nodes, app, mineAllowed)
  /\ justUpdated' = FALSE
  /\ watch' = IF justUpdated THEN [watch EXCEPT ![1] = "poll"] ELSE watch
  /\ UNCHANGED <<app, prev, badSeqs, onDisk, running, timers, healthy, exits,
                 mineAllowed, updateVars, worldVars, faults>>

\* A start or a rollback without app/ throws where nobody catches it, and ends
\* the supervisor.
Breaks ==
  /\ app = NoRelease
  /\ \/ supervisor = "starting"
     \/ supervisor = "up" /\ (timers > 0 \/ step = "guard" \/ \E w \in Watch : MayRollBack(w))
  /\ Forgotten
  /\ UNCHANGED <<diskVars, running, nodes, worldVars, faults>>

\* The computer restarts; a swap or a rollback may be between two of its renames,
\* or a rollback not yet written to state.json.
Reboot ==
  /\ supervisor # "down" /\ faults < MaxFaults
  /\ faults' = faults + 1 /\ nodes' = {}
  /\ \/ UNCHANGED <<app, prev>>
     \/ MaySwap /\ app' = NoRelease /\ prev' = app
     \/ \E w \in Watch : MayRollBack(w) /\ app' = NoRelease /\ UNCHANGED prev
     \/ app # NoRelease /\ app' = prev /\ prev' = NoRelease /\ \E w \in Watch : MayRollBack(w)
  /\ Forgotten
  /\ UNCHANGED <<badSeqs, justUpdated, onDisk, running, worldVars>>

-----------------------------------------------------------------------------
(* The world *)

Publish ==
  /\ \E r \in Release \ published :
       /\ \A q \in Release : q < r => q \in published
       /\ published' = published \cup {r}
  /\ UNCHANGED <<diskVars, selfVars, nodeVars, timers, healthVars, mineAllowed,
                 updateVars, open, height, faults>>

RollOut ==
  /\ \E r \in (published \cap Staged) \ open : open' = open \cup {r}
  /\ UNCHANGED <<diskVars, selfVars, nodeVars, timers, healthVars, mineAllowed,
                 updateVars, published, height, faults>>

Grow ==
  /\ height < MaxHeight /\ height' = height + 1
  /\ UNCHANGED <<diskVars, selfVars, nodeVars, timers, healthVars, mineAllowed,
                 updateVars, published, open, faults>>

LauncherNext ==
  \/ TimerFires \/ Ask \/ \E at \in Heights : Decide(at)
  \/ GuardRestarts \/ BuildFails \/ BuildDone \/ Swap \/ SwapFails \/ RestartSelf
  \/ \E n \in nodes : Serve(n) \/ Prove(n) \/ Exit(n)
  \/ \E w \in Watch : PollHealth(w)
  \/ BeginEmpty \/ Begin \/ Launch \/ Breaks \/ Reboot \/ Publish \/ RollOut \/ Grow

LauncherSpec == LauncherInit /\ [][LauncherNext]_launcherVars

-----------------------------------------------------------------------------
(* Properties *)

\* A supervisor that runs always has a node, or something under way that will
\* start one: whatever stops it (startNode's exit handler, an update, a rollback)
\* leaves a timer or a step that starts the next.
NeverIdle ==
  (supervisor = "up" /\ child = NoNode) =>
     \/ timers > 0 \/ step \in {"guard", "swap", "leave"}
     \/ \E w \in Watch : watch[w] = "stopping"

=============================================================================
