------------------------------ MODULE Failover ------------------------------
(***************************************************************************)
(* Who leads: the primary and the standbys of a cluster (main.cpp), the    *)
(* watcher of each standby (replica_watcher.cpp) with its persisted epoch  *)
(* (epoch_store.hpp), and the datanodes and clients that look for a server *)
(* (peer.cpp).                                                             *)
(*                                                                         *)
(* Servers are named 1 .. N in the order of the configuration file: 1 is   *)
(* the primary.  A standby listens on its port only once it has promoted   *)
(* itself.                                                                 *)
(***************************************************************************)
EXTENDS Naturals

CONSTANTS N,            \* servers in the configuration
          Peers,        \* datanodes and clients
          MaxCrashes,   \* bound: server processes that end
          MaxGlitches   \* bound: connections and heartbeats lost to the network

ASSUME FailoverAssumption ==
  N \in Nat \ {0} /\ MaxCrashes \in Nat /\ MaxGlitches \in Nat

Servers == 1 .. N

Primary == 1

Standbys == Servers \ {Primary}

VARIABLES
  at,         \* per server: what its process is doing
  listening,  \* per server: does it accept connections?
  epoch,      \* per server: Server::epoch_
  stored,     \* per server: epoch.txt
  observed,   \* per server: ReplicaWatcher::observedEpoch_
  next,       \* per server: the server it tries next, in the order of priority
  pending,    \* per server: higher-priority servers not yet found unreachable
  link,       \* per server: the leader's connection it reads from
  peer,       \* per datanode or client: its server, 0 if none
  walk,       \* per datanode or client: the server it tries next
  lastSeen,   \* per datanode or client: Peer::lastSeenEpoch_
  ledBy,      \* auxiliary: highest epoch of a server the peer was connected to
  lastLed,    \* auxiliary: highest epoch each server has led with
  overtaken,  \* auxiliary: servers that had found one of higher priority down
              \* when it began to lead
  faults      \* what is used up of MaxCrashes and MaxGlitches

watchers == <<at, listening, epoch, stored, observed, next, pending, link,
              lastLed, overtaken>>
peers == <<peer, walk, lastSeen, ledBy>>
vars == <<watchers, peers, faults>>

-----------------------------------------------------------------------------
Points == {"down", "scan", "connect", "probe", "follow", "save", "start",
           "leading"}

Higher(s) == 1 .. s - 1

NoLink == [to |-> 0, epoch |-> 0, open |-> FALSE]

Link == [to: 0 .. N, epoch: Nat, open: BOOLEAN]

Larger(a, b) == IF a > b THEN a ELSE b

\* The type invariant.
TypeOK ==
  /\ at \in [Servers -> Points]
  /\ listening \in [Servers -> BOOLEAN]
  /\ epoch \in [Servers -> Nat]
  /\ stored \in [Servers -> Nat]
  /\ observed \in [Servers -> Nat]
  /\ next \in [Servers -> Servers]
  /\ pending \in [Servers -> SUBSET Servers]
  /\ link \in [Servers -> Link]
  /\ peer \in [Peers -> 0 .. N]
  /\ walk \in [Peers -> Servers]
  /\ lastSeen \in [Peers -> Nat]
  /\ ledBy \in [Peers -> Nat]
  /\ lastLed \in [Servers -> Nat]
  /\ overtaken \subseteq Servers
  /\ faults \in [crashes: 0 .. MaxCrashes, glitches: 0 .. MaxGlitches]

\* The primary leads with epoch 0; the standbys begin to look for it.
Init ==
  /\ at = [s \in Servers |-> IF s = Primary THEN "leading" ELSE "scan"]
  /\ listening = [s \in Servers |-> s = Primary]
  /\ epoch = [s \in Servers |-> 0]
  /\ stored = [s \in Servers |-> 0]
  /\ observed = [s \in Servers |-> 0]
  /\ next = [s \in Servers |-> 1]
  /\ pending = [s \in Servers |-> {}]
  /\ link = [s \in Servers |-> NoLink]
  /\ peer = [p \in Peers |-> 0]
  /\ walk = [p \in Peers |-> 1]
  /\ lastSeen = [p \in Peers |-> 0]
  /\ ledBy = [p \in Peers |-> 0]
  /\ lastLed = [s \in Servers |-> 0]
  /\ overtaken = {}
  /\ faults = [crashes |-> 0, glitches |-> 0]

-----------------------------------------------------------------------------
(* The network.  tryConnect fails when nobody listens, and may fail, as a  *)
(* heartbeat may be late, while the network is in trouble.                 *)

Glitch ==
  /\ faults.glitches < MaxGlitches
  /\ faults' = [faults EXCEPT !.glitches = @ + 1]

Reaches(t) == listening[t] /\ UNCHANGED faults

Misses(t) == \/ ~listening[t] /\ UNCHANGED faults
             \/ listening[t] /\ Glitch

-----------------------------------------------------------------------------
(* The watcher of a standby: watchLoop. *)

Rescan(s) ==
  /\ at' = [at EXCEPT ![s] = "scan"]
  /\ next' = [next EXCEPT ![s] = 1]
  /\ link' = [link EXCEPT ![s] = NoLink]
  /\ pending' = [pending EXCEPT ![s] = {}]

\* allHigherPriorityDown begins: all higher-priority servers are probed at
\* once.
BeginProbe(s) ==
  /\ at' = [at EXCEPT ![s] = "probe"]
  /\ pending' = [pending EXCEPT ![s] = Higher(s)]
  /\ link' = [link EXCEPT ![s] = NoLink]
  /\ UNCHANGED next

\* The loop over the servers of higher priority: follow the first that
\* answers; with none left, see whether all of them are down.
Scan(s) ==
  /\ at[s] = "scan"
  /\ \/ /\ next[s] < s /\ Reaches(next[s])
        /\ at' = [at EXCEPT ![s] = "connect"]
        /\ UNCHANGED <<next, link, pending>>
     \/ /\ next[s] < s /\ Misses(next[s])
        /\ next' = [next EXCEPT ![s] = @ + 1]
        /\ UNCHANGED <<at, link, pending>>
     \/ next[s] = s /\ BeginProbe(s) /\ UNCHANGED faults
  /\ UNCHANGED <<listening, epoch, stored, observed, lastLed, overtaken,
                 peers>>

\* Connect again for good; after the handshake handleStandbyConnect sends the
\* snapshot and registers the standby for heartbeats.
Connect(s) ==
  /\ at[s] = "connect"
  /\ \/ /\ Reaches(next[s])
        /\ at' = [at EXCEPT ![s] = "follow"]
        /\ link' = [link EXCEPT ![s] = [to |-> next[s], epoch |-> epoch[next[s]],
                                        open |-> TRUE]]
        /\ UNCHANGED <<next, pending>>
     \/ Misses(next[s]) /\ Rescan(s)
  /\ UNCHANGED <<listening, epoch, stored, observed, lastLed, overtaken,
                 peers>>

\* receiveLoop: a snapshot, a delta or a heartbeat, each with the epoch of
\* the leader.  One with an older epoch is ignored.
Receive(s) ==
  /\ at[s] = "follow" /\ link[s].open
  /\ observed' = [observed EXCEPT ![s] = Larger(@, link[s].epoch)]
  /\ UNCHANGED <<at, listening, epoch, stored, next, pending, link, lastLed,
                 overtaken, peers, faults>>

\* Mutant of Closed: the end of the connection goes unnoticed.
ClosedUnnoticed(s) ==
  /\ at[s] = "follow" /\ ~link[s].open
  /\ UNCHANGED vars

\* receiveLoop finds the connection closed: look for a leader again.
Closed(s) ==
  /\ at[s] = "follow" /\ ~link[s].open
  /\ Rescan(s)
  /\ UNCHANGED <<listening, epoch, stored, observed, lastLed, overtaken, peers,
                 faults>>

\* The heartbeat deadline passes: the leader is gone, its frames are ignored
\* for their epoch, or they are late.
Timeout(s) ==
  /\ at[s] = "follow"
  /\ \/ (~link[s].open \/ link[s].epoch < observed[s]) /\ UNCHANGED faults
     \/ link[s].open /\ link[s].epoch >= observed[s] /\ Glitch
  /\ BeginProbe(s)
  /\ UNCHANGED <<listening, epoch, stored, observed, lastLed, overtaken,
                 peers>>

\* Mutant of Probe: one server found down is enough.
ProbeAny(s, t) ==
  /\ at[s] = "probe" /\ t \in pending[s]
  /\ \/ Reaches(t) /\ Rescan(s)
     \/ /\ Misses(t)
        /\ pending' = [pending EXCEPT ![s] = {}]
        /\ UNCHANGED <<at, next, link>>
  /\ UNCHANGED <<listening, epoch, stored, observed, lastLed, overtaken,
                 peers>>

\* allHigherPriorityDown, the answer about server t.
Probe(s, t) ==
  /\ at[s] = "probe" /\ t \in pending[s]
  /\ \/ Reaches(t) /\ Rescan(s)
     \/ /\ Misses(t)
        /\ pending' = [pending EXCEPT ![s] = @ \ {t}]
        /\ UNCHANGED <<at, next, link>>
  /\ UNCHANGED <<listening, epoch, stored, observed, lastLed, overtaken,
                 peers>>

\* promote: the next epoch ...
Promote(s) ==
  /\ at[s] = "probe" /\ pending[s] = {}
  /\ observed' = [observed EXCEPT ![s] = @ + 1]
  /\ at' = [at EXCEPT ![s] = "save"]
  /\ UNCHANGED <<listening, epoch, stored, next, pending, link, lastLed,
                 overtaken, peers, faults>>

\* Mutant of SaveEpoch: the epoch is not written.
SaveNothing(s) ==
  /\ at[s] = "save"
  /\ at' = [at EXCEPT ![s] = "start"]
  /\ UNCHANGED <<listening, epoch, stored, observed, next, pending, link,
                 lastLed, overtaken, peers, faults>>

\* ... is written to epoch.txt ...
SaveEpoch(s) ==
  /\ at[s] = "save"
  /\ stored' = [stored EXCEPT ![s] = observed[s]]
  /\ at' = [at EXCEPT ![s] = "start"]
  /\ UNCHANGED <<listening, epoch, observed, next, pending, link, lastLed,
                 overtaken, peers, faults>>

\* Server s has found t down: in the probes under way, or in those that made
\* it promote itself.
FoundDown(s, t) ==
  \/ at[s] = "probe" /\ t \in Higher(s) \ pending[s]
  \/ at[s] \in {"save", "start", "leading"} /\ t \in Higher(s)

BeginsToLead(t) ==
  overtaken' = overtaken \cup {s \in Servers : FoundDown(s, t)}

\* ... and the callback of main starts a Server with it.  From then on the
\* watcher idles.
StartServer(s) ==
  /\ at[s] = "start"
  /\ at' = [at EXCEPT ![s] = "leading"]
  /\ listening' = [listening EXCEPT ![s] = TRUE]
  /\ epoch' = [epoch EXCEPT ![s] = observed[s]]
  /\ lastLed' = [lastLed EXCEPT ![s] = Larger(@, observed[s])]
  /\ BeginsToLead(s)
  /\ UNCHANGED <<stored, observed, next, pending, link, peers, faults>>

-----------------------------------------------------------------------------
(* Processes end and start again. *)

Crash(s) ==
  /\ at[s] # "down" /\ faults.crashes < MaxCrashes
  /\ faults' = [faults EXCEPT !.crashes = @ + 1]
  /\ at' = [at EXCEPT ![s] = "down"]
  /\ listening' = [listening EXCEPT ![s] = FALSE]
  /\ pending' = [pending EXCEPT ![s] = {}]
  /\ link' = [t \in Servers |-> CASE t = s -> NoLink
                                  [] t # s /\ link[t].to = s
                                       -> [link[t] EXCEPT !.open = FALSE]
                                  [] OTHER -> link[t]]
  /\ peer' = [p \in Peers |-> IF peer[p] = s THEN 0 ELSE peer[p]]
  /\ UNCHANGED <<epoch, stored, observed, next, walk, lastSeen, ledBy, lastLed,
                 overtaken>>

\* Mutant of Restart: a standby starts from epoch 0.
RestartAtZero(s) ==
  /\ at[s] = "down"
  /\ at' = [at EXCEPT ![s] = IF s = Primary THEN "leading" ELSE "scan"]
  /\ listening' = [listening EXCEPT ![s] = s = Primary]
  /\ observed' = [observed EXCEPT ![s] = 0]
  /\ next' = [next EXCEPT ![s] = 1]
  /\ UNCHANGED <<epoch, stored, pending, link, lastLed, overtaken, peers,
                 faults>>

\* main: the first server of the list leads at once with its stored epoch,
\* any other becomes a standby that has observed its own.
Restart(s) ==
  /\ at[s] = "down"
  /\ IF s = Primary
     THEN /\ at' = [at EXCEPT ![s] = "leading"]
          /\ listening' = [listening EXCEPT ![s] = TRUE]
          /\ epoch' = [epoch EXCEPT ![s] = stored[s]]
          /\ lastLed' = [lastLed EXCEPT ![s] = Larger(@, stored[s])]
          /\ BeginsToLead(s)
          /\ UNCHANGED <<observed, next>>
     ELSE /\ at' = [at EXCEPT ![s] = "scan"]
          /\ observed' = [observed EXCEPT ![s] = stored[s]]
          /\ next' = [next EXCEPT ![s] = 1]
          /\ UNCHANGED <<listening, epoch, lastLed, overtaken>>
  /\ UNCHANGED <<stored, pending, link, peers, faults>>

-----------------------------------------------------------------------------
(* Datanodes and clients: connectWithFailover and performHandshake. *)

\* The ACK that ends a handshake is response(true), which has no EPOCH field;
\* performHandshake reads 0.
AckEpoch(t) == 0

\* Mutant of PeerTry: the walk goes past the end of the list.
PeerTryPastEnd(p) ==
  /\ peer[p] = 0 /\ Misses(walk[p])
  /\ walk' = [walk EXCEPT ![p] = @ + 1]
  /\ UNCHANGED <<peer, lastSeen, ledBy, watchers>>

\* The servers are tried in the order of the list, which is walked again from
\* the start after the last one.
PeerTry(p) ==
  LET t == walk[p]
      accepted == AckEpoch(t) >= lastSeen[p]
  IN /\ peer[p] = 0
     /\ \/ /\ Reaches(t) /\ accepted
           /\ peer' = [peer EXCEPT ![p] = t]
           /\ walk' = [walk EXCEPT ![p] = 1]
           /\ lastSeen' = [lastSeen EXCEPT ![p] = Larger(@, AckEpoch(t))]
           /\ ledBy' = [ledBy EXCEPT ![p] = Larger(@, epoch[t])]
        \/ /\ \/ Reaches(t) /\ ~accepted
              \/ Misses(t)
           /\ walk' = [walk EXCEPT ![p] = IF t = N THEN 1 ELSE t + 1]
           /\ UNCHANGED <<peer, lastSeen, ledBy>>
     /\ UNCHANGED watchers

PeerLost(p) ==
  /\ peer[p] # 0 /\ Glitch
  /\ peer' = [peer EXCEPT ![p] = 0]
  /\ UNCHANGED <<walk, lastSeen, ledBy, watchers>>

-----------------------------------------------------------------------------
Watch(s) ==
  \/ Scan(s) \/ Connect(s) \/ Closed(s)
  \/ \E t \in Servers : Probe(s, t)
  \/ Promote(s) \/ SaveEpoch(s) \/ StartServer(s)

Next ==
  \/ \E s \in Servers : Watch(s) \/ Receive(s) \/ Timeout(s) \/ Crash(s) \/ Restart(s)
  \/ \E p \in Peers : PeerTry(p) \/ PeerLost(p)

Spec == Init /\ [][Next]_vars

\* The watcher thread of a running standby keeps going.  Nobody has to start
\* a server again, and nothing is assumed of the peers.
FairSpec == Spec /\ \A s \in Servers : WF_vars(Watch(s))

-----------------------------------------------------------------------------
(* Properties. *)

\* README.md, Leadership Epochs: "The epoch is persisted to disk before the
\* new primary begins accepting connections": what a server leads or has ever
\* led with is in its epoch.txt, a standby has observed at least that, and a
\* promotion under way is to an epoch beyond it.
EpochPersisted ==
  /\ at[Primary] \in {"leading", "down"}
  /\ \A s \in Servers :
       /\ lastLed[s] <= stored[s]
       /\ listening[s] => epoch[s] <= stored[s]
       /\ s # Primary => stored[s] <= observed[s]
       /\ at[s] \in {"save", "start"} => lastLed[s] < observed[s]
       /\ at[s] = "start" => stored[s] = observed[s]

\* README.md, Leadership Epochs: the epoch "survives a crash and restart": a
\* standby never starts to lead with an epoch it has led with before.
FreshEpoch ==
  [][\A s \in Standbys : ~listening[s] /\ listening'[s]
       => epoch'[s] > lastLed[s]]_vars

\* README.md, Promotion: a standby promotes itself when all servers of higher
\* priority are unreachable.  So two servers lead at once only if the network
\* was in trouble or the one of higher priority began to lead after the other
\* had found it down (allHigherPriorityDown): that is, it was started again or
\* promoted itself later.  No other interleaving of scans, probes, promotions
\* and crashes gives two leaders.
SoleLeader ==
  overtaken = {} /\ faults.glitches = 0
    => \A s, t \in Servers : listening[s] /\ listening[t] => s = t

\* README.md, Promotion: as long as some server process runs, some server
\* leads in the end, whichever ones have crashed.
SomebodyLeads ==
  (\E s \in Servers : at[s] # "down")
    ~> (\E s \in Servers : listening[s]) \/ (\A s \in Servers : at[s] = "down")

\* README.md, Leadership Epochs: epochs "increment by 1 every time a new
\* leader promotes", and "Epoch fencing prevents split-brain": no two servers
\* lead with the same epoch.
OneLeaderPerEpoch ==
  \A s, t \in Servers : listening[s] /\ listening[t] /\ epoch[s] = epoch[t] => s = t

\* README.md, Demotion: an active node that learns of a higher epoch "returns
\* to STANDBY mode": of two leaders the one with the older epoch stops leading.
OlderLeaderStepsDown ==
  \A s, t \in Servers :
    listening[s] /\ listening[t] /\ epoch[s] < epoch[t]
      ~> ~(listening[s] /\ listening[t] /\ epoch[s] < epoch[t])

\* README.md, Leadership Epochs: a datanode or client that has seen a higher
\* epoch answers a stale leader with NACK_STALE_EPOCH: it never takes a server
\* whose epoch is below that of one it has been connected to.
PeersRejectStaleLeader ==
  [][\A p \in Peers : peer[p] = 0 /\ peer'[p] # 0
       => epoch[peer'[p]] >= ledBy[p]]_vars
=============================================================================
