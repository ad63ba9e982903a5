------------------------------- MODULE Peers -------------------------------
(***************************************************************************)
(* Several nodes and how they follow one another (node.js): the sync that  *)
(* pulls from every peer in turn, the blocks a miner pushes, the peers     *)
(* that are announced, discovered and forgotten, and the wait of a node    *)
(* that is to mine until it has caught up.                                 *)
(*                                                                         *)
(* The handlers of one node run between their awaits without interruption; *)
(* so a page of blocks is one step, and what two callers of processBlock   *)
(* do to each other is in module Chain.  Time is left out: a timer that    *)
(* may have elapsed may fire.                                              *)
(***************************************************************************)
EXTENDS BlockTree, FiniteSetsExt, SequencesExt

CONSTANTS
  Node, Network, \* a network says which nodes it has, and how they are started
  MaxReorgDepth, \* MAX_REORG_DEPTH
  SyncWindow,    \* MAX_REORG_DEPTH + 64
  PageSize,      \* MAX_BLOCK_RANGE
  Margin, Established,   \* of waitUntilCaughtUp
  DropAfter,     \* PEER_DROP_AFTER_FAILURES
  MaxPeers,
  Idle

Sync == [peer : Node, deep : BOOLEAN, paging : BOOLEAN, cursor : Nat, to : Nat,
         accepted : BOOLEAN]

\* public: nodes that others can dial; configured: --peers; mined: the blocks a
\* node may mine; stored: the newest block it has on disk; outages: a bound on
\* the nodes that stop and the calls that fail.
NetworkOK(t) ==
  /\ t.public \subseteq t.nodes /\ t.nodes \subseteq Node
  /\ t.configured \in [t.nodes -> SUBSET t.public]
  /\ t.mined \in [t.nodes -> SUBSET Block] /\ t.stored \in [t.nodes -> Block]
  /\ t.outages \in Nat

ASSUME PeersAssumption ==
  /\ \A t \in Network : NetworkOK(t)
  /\ MaxReorgDepth \in Nat /\ SyncWindow \in Nat /\ PageSize \in Nat \ {0}
  /\ Margin \in Nat /\ Established \in Nat /\ DropAfter \in Nat \ {0}
  /\ MaxPeers \in Nat /\ Idle \notin Sync

VARIABLES
  net,                   \* the network, the same throughout
  tree, head, waiting,   \* the chain of each node: blocks, head, orphans
  peers, failures,       \* the peers of each node, and their failed syncs in a row
  following,             \* the sync timer exists
  todo, sync,            \* the peers left in this tick, and the sync under way
  stage,                 \* "down", "gate" (waiting to mine) or "on"
  outages

chainVars == <<tree, head, waiting>>
peerVars == <<peers, failures, following>>
syncVars == <<todo, sync>>
vars == <<net, chainVars, peerVars, syncVars, stage, outages>>

Here == net.nodes

PeersTypeOK ==
  /\ net \in Network
  /\ tree \in [Here -> SUBSET Block] /\ head \in [Here -> Block]
  /\ waiting \in [Here -> SUBSET Block]
  /\ peers \in [Here -> SUBSET net.public] /\ todo \in [Here -> SUBSET net.public]
  /\ failures \in [Here -> [Here -> 0 .. DropAfter]]
  /\ following \in [Here -> BOOLEAN] /\ sync \in [Here -> Sync \cup {Idle}]
  /\ stage \in [Here -> {"down", "gate", "on"}] /\ outages \in 0 .. net.outages

Up(n) == stage[n] # "down"

\* A node that is to mine waits if it has anybody to wait for.
FirstStage(n) == IF net.mined[n] # {} /\ peers[n] # {} THEN "gate" ELSE "on"

Init ==
  /\ net \in Network
  /\ tree = [n \in Here |-> Ancestors[net.stored[n]]] /\ head = net.stored
  /\ waiting = [n \in Here |-> {}]
  /\ peers = net.configured /\ failures = [n \in Here |-> [p \in Here |-> 0]]
  /\ following = [n \in Here |-> peers[n] # {}]
  /\ todo = [n \in Here |-> {}] /\ sync = [n \in Here |-> Idle]
  /\ stage = [n \in Here |-> FirstStage(n)]
  /\ outages = 0

-----------------------------------------------------------------------------
(* A node's chain: what module Chain shows at length.                      *)

\* Blocks of the history of a that are not in that of b.
Above(a, b) == Ancestors[a] \ Ancestors[b]
TooDeep(from, to) == Cardinality(Above(from, to)) > MaxReorgDepth

Chosen(at, b) == IF Work[b] > Work[at] /\ ~TooDeep(at, b) THEN b ELSE at

\* Blocks known here, or waiting here, once some more are processed, those that
\* connect to the tree among them, and the head that fork choice leaves, parents
\* first.
Pool(n, blocks) == waiting[n] \cup (blocks \ tree[n])
Joined(n, blocks) ==
  {b \in Pool(n, blocks) : Ancestors[b] \subseteq tree[n] \cup Pool(n, blocks)}
InOrder == SetToSortSeq(Block, WrittenBefore)
NewHead(n, blocks) ==
  LET heavier == {b \in Joined(n, blocks) : Work[b] > Work[head[n]]}
  IN  FoldLeft(Chosen, head[n], SelectSeq(InOrder, LAMBDA b : b \in heavier))

\* processBlock, at each of some nodes, for some blocks; the others wait for
\* their parents.
Take(nodes, blocks) ==
  /\ tree' = [n \in Here |-> IF n \in nodes THEN tree[n] \cup Joined(n, blocks) ELSE tree[n]]
  /\ waiting' = [n \in Here |-> IF n \in nodes THEN Pool(n, blocks) \ Joined(n, blocks)
                               ELSE waiting[n]]
  /\ head' = [n \in Here |-> IF n \in nodes THEN NewHead(n, blocks) ELSE head[n]]

HeightOf(n) == Height[head[n]]

\* /molibra/blocks: the canonical blocks of p from one height to another.
PageOf(p, from, to) ==
  {b \in Ancestors[head[p]] : from <= Height[b] /\ Height[b] <= to}

-----------------------------------------------------------------------------
(* startSyncing and syncFrom                                               *)

Tick(n) ==
  /\ Up(n) /\ following[n] /\ todo[n] = {} /\ sync[n] = Idle
  /\ todo' = [todo EXCEPT ![n] = peers[n]]
  /\ UNCHANGED <<chainVars, peerVars, sync, stage, outages>>

\* Where a sync that is not deep begins.
WindowStart(n) ==
  IF HeightOf(n) > SyncWindow THEN HeightOf(n) - SyncWindow ELSE 0

Begun(n, p, deep) ==
  [peer |-> p, deep |-> deep, paging |-> TRUE,
   cursor |-> IF deep THEN 0 ELSE WindowStart(n), to |-> HeightOf(p), accepted |-> FALSE]

\* The head of the peer is asked first; a deep retry asks again.
AskHead(n) ==
  /\ \/ /\ sync[n] = Idle
        /\ \E p \in todo[n] : Up(p) /\ sync' = [sync EXCEPT ![n] = Begun(n, p, FALSE)]
     \/ /\ sync[n] # Idle /\ ~sync[n].paging /\ Up(sync[n].peer)
        /\ sync' = [sync EXCEPT ![n] = Begun(n, sync[n].peer, TRUE)]
  /\ UNCHANGED <<chainVars, peerVars, todo, stage, outages>>

\* Mutant: a node that had no peers is told of one and goes on as it was.
NotedOnly(p, n) ==
  /\ peers' = [peers EXCEPT ![p] = @ \cup {n}]
  /\ UNCHANGED following

\* addPeer and followPeersIfIdle.
Noted(p, n) ==
  /\ peers' = [peers EXCEPT ![p] = @ \cup {n}]
  /\ following' = [following EXCEPT ![p] = TRUE]

\* announceTo, and its handler at the peer, which dials back before it believes.
Announced(n, p) ==
  IF n \in net.public \ peers[p] /\ Cardinality(peers[p]) < MaxPeers
    THEN Noted(p, n) ELSE UNCHANGED <<peers, following>>

\* One page, as the peer's chain is now.  After the last: if nothing was new, and
\* the peer is taller, the window may have missed the fork, and the sync starts
\* again from genesis, once; else it ends, with the announcement.
Page(n) ==
  LET s == sync[n]
      asked == Min({s.to, HeightOf(s.peer)})
      last == Min({asked, s.cursor + PageSize - 1})
      page == PageOf(s.peer, s.cursor, last)
      accepted == s.accepted \/ page \cap Joined(n, page) # {}
      again == ~accepted /\ ~s.deep /\ s.to > Height[head[n]]
  IN  /\ s # Idle /\ s.paging /\ Up(s.peer)
      /\ Take({n}, page)
      /\ \/ /\ last < asked
            /\ sync' = [sync EXCEPT ![n].cursor = last + 1, ![n].accepted = accepted]
            /\ UNCHANGED <<peerVars, todo>>
         \/ /\ last >= asked /\ again
            /\ sync' = [sync EXCEPT ![n].paging = FALSE]
            /\ UNCHANGED <<peerVars, todo>>
         \/ /\ last >= asked /\ ~again
            /\ sync' = [sync EXCEPT ![n] = Idle]
            /\ todo' = [todo EXCEPT ![n] = @ \ {s.peer}]
            /\ failures' = [failures EXCEPT ![n][s.peer] = 0]
            /\ Announced(n, s.peer)
      /\ UNCHANGED <<stage, outages>>

\* notePeerResult for a failure: a learned peer that keeps failing is forgotten.
Failed(n, p) ==
  /\ sync' = [sync EXCEPT ![n] = Idle]
  /\ todo' = [todo EXCEPT ![n] = @ \ {p}]
  /\ IF failures[n][p] + 1 >= DropAfter /\ p \notin net.configured[n]
     THEN /\ peers' = [peers EXCEPT ![n] = @ \ {p}]
          /\ failures' = [failures EXCEPT ![n][p] = 0]
     ELSE /\ failures' = [failures EXCEPT ![n][p] = Min({@ + 1, DropAfter})]
          /\ UNCHANGED peers
  /\ UNCHANGED following

\* The peer is away, or a call to it fails: a timeout, or its rate limiter.
SyncFails(n, p) ==
  /\ \/ sync[n] = Idle /\ p \in todo[n]
     \/ sync[n] # Idle /\ p = sync[n].peer
  /\ \/ ~Up(p) /\ UNCHANGED outages
     \/ Up(p) /\ outages < net.outages /\ outages' = outages + 1
  /\ Failed(n, p)
  /\ UNCHANGED <<chainVars, stage>>

\* discoverPeers: one address of a peer's list, which must answer.
Discover(n) ==
  /\ Up(n) /\ following[n] /\ Cardinality(peers[n]) < MaxPeers
  /\ \E p \in peers[n] : Up(p) /\ \E q \in peers[p] \ (peers[n] \cup {n}) :
       Up(q) /\ peers' = [peers EXCEPT ![n] = @ \cup {q}]
  /\ UNCHANGED <<chainVars, failures, following, syncVars, stage, outages>>

-----------------------------------------------------------------------------
(* Mining, and what miners push                                            *)

\* A block is found on the head and processed, and pushed once to each peer,
\* which it may not reach: "a peer being down is not this node's problem".
Mine(n) ==
  /\ stage[n] = "on"
  /\ \E b \in net.mined[n] \ tree[n], reached \in SUBSET {p \in peers[n] : Up(p)} :
       /\ Parent[b] = head[n]
       /\ Take(reached \cup {n}, {b})
  /\ UNCHANGED <<peerVars, syncVars, stage, outages>>

\* Mutant: only a node that is ahead of the others has caught up.
IsAhead(n, best) == HeightOf(n) > best

CaughtUp(n, best) == HeightOf(n) + Margin >= best

\* waitUntilCaughtUp: the highest peer that answers, or nobody for long.
LeaveGate(n) ==
  /\ stage[n] = "gate"
  /\ LET heights == {HeightOf(p) : p \in {q \in peers[n] : Up(q)}}
     IN  IF heights # {} THEN CaughtUp(n, Max(heights)) ELSE HeightOf(n) >= Established
  /\ stage' = [stage EXCEPT ![n] = "on"]
  /\ UNCHANGED <<chainVars, peerVars, syncVars, outages>>

-----------------------------------------------------------------------------
(* Stops and starts.  The chain and the peers are on disk.                 *)

Stop(n) ==
  /\ Up(n) /\ outages < net.outages /\ outages' = outages + 1
  /\ stage' = [stage EXCEPT ![n] = "down"]
  /\ waiting' = [waiting EXCEPT ![n] = {}]
  /\ failures' = [failures EXCEPT ![n] = [p \in Here |-> 0]]
  /\ todo' = [todo EXCEPT ![n] = {}] /\ sync' = [sync EXCEPT ![n] = Idle]
  /\ following' = [following EXCEPT ![n] = FALSE]
  /\ UNCHANGED <<tree, head, peers>>

Start(n) ==
  /\ ~Up(n)
  /\ stage' = [stage EXCEPT ![n] = FirstStage(n)]
  /\ following' = [following EXCEPT ![n] = peers[n] # {}]
  /\ UNCHANGED <<chainVars, peers, failures, syncVars, outages>>

Next ==
  /\ UNCHANGED net
  /\ \/ \E n \in Here : Tick(n) \/ AskHead(n) \/ Page(n) \/ Discover(n) \/ Mine(n)
                        \/ LeaveGate(n) \/ Stop(n) \/ Start(n)
     \/ \E n, p \in Here : SyncFails(n, p)

\* The timers go on, a node that stopped is started again, and the peers of a
\* tick are asked one after another.  Nothing makes a miner find a block, or a
\* push arrive.
Fairness ==
  \A n \in Node :
    /\ WF_vars(n \in Here /\ Tick(n) /\ UNCHANGED net)
    /\ WF_vars(n \in Here /\ (Page(n) \/ AskHead(n)) /\ UNCHANGED net)
    /\ WF_vars(n \in Here /\ (\E p \in Here : ~Up(p) /\ SyncFails(n, p)) /\ UNCHANGED net)
    /\ WF_vars(n \in Here /\ LeaveGate(n) /\ UNCHANGED net)
    /\ WF_vars(n \in Here /\ Start(n) /\ UNCHANGED net)

Spec == Init /\ [][Next]_vars /\ Fairness

-----------------------------------------------------------------------------
(* Properties                                                              *)

\* Whoever is lighter than another in the end could not follow it: the fork is
\* deeper than it reorganises ("at which point they converge", README; "the
\* network must not depend on two operator nodes", node.js 225).
NodesConverge ==
  <>[](\A n, p \in Here : Work[head[n]] < Work[head[p]] => TooDeep(head[n], head[p]))

\* A node that is to mine is not held for ever by its peers, whoever of them was
\* away while it started, unless it is on a fork it cannot leave (node.js
\* 453-478).
EverybodyMines ==
  \A n \in Node :
    []<>(n \in Here => \/ stage[n] # "gate"
                       \/ \E p \in peers[n] : TooDeep(head[n], head[p]))
=============================================================================
