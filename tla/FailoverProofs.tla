--------------------------- MODULE FailoverProofs ---------------------------
(***************************************************************************)
(* Epochs survive crashes, and probing gives one leader unless a server is *)
(* overtaken: for any number of servers, peers, crashes and troubles.      *)
(***************************************************************************)
EXTENDS Failover, TLAPS

\* One step of a server's process: everything but the peers' own steps.
ServerStep(s) ==
  \/ Scan(s) \/ Connect(s) \/ Closed(s) \/ (\E t \in Servers : Probe(s, t))
  \/ Promote(s) \/ SaveEpoch(s) \/ StartServer(s)
  \/ Receive(s) \/ Timeout(s) \/ Crash(s) \/ Restart(s)

\* The next-state relation, split into the steps of servers and of peers.
LEMMA NextCases ==
  Next <=> \/ \E s \in Servers : ServerStep(s)
           \/ \E p \in Peers : PeerTry(p) \/ PeerLost(p)
BY DEF Next, Watch, ServerStep

\* The part of the type invariant the epochs depend on.
EpochTypes ==
  /\ at \in [Servers -> Points]
  /\ listening \in [Servers -> BOOLEAN]
  /\ epoch \in [Servers -> Nat]
  /\ stored \in [Servers -> Nat]
  /\ observed \in [Servers -> Nat]
  /\ link \in [Servers -> Link]
  /\ lastLed \in [Servers -> Nat]

\* The larger of two epochs is one of them and at least both.
LEMMA LargerFacts ==
  ASSUME NEW a \in Nat, NEW b \in Nat
  PROVE  /\ Larger(a, b) \in Nat
         /\ Larger(a, b) >= a /\ Larger(a, b) >= b
         /\ Larger(a, b) \in {a, b}
BY DEF Larger

\* Servers are numbers, 0 stands for none of them.
LEMMA ServersFacts ==
  Primary \in Servers /\ Servers \subseteq Nat /\ 0 \in 0 .. N /\ Servers \subseteq 0 .. N
BY FailoverAssumption DEF Servers, Primary

\* A watcher without a leader has a well-typed connection.
LEMMA LinkFacts == NoLink \in Link
BY ServersFacts DEF NoLink, Link

\* The epochs are numbers when the processes start (main.cpp).
LEMMA EpochTypesInit == Init => EpochTypes
<1> SUFFICES ASSUME Init PROVE EpochTypes
  OBVIOUS
<1> QED
  BY LinkFacts DEF Init, EpochTypes, Points

\* Every step of a server keeps the epochs numbers.
LEMMA EpochTypesStep ==
  ASSUME EpochTypes, NEW s \in Servers, next \in [Servers -> Servers], ServerStep(s)
  PROVE  EpochTypes'
<1> USE DEF EpochTypes
<1>1. CASE Scan(s)
  BY SMTT(30), <1>1, LinkFacts DEF Scan, BeginProbe, Points
<1>2. CASE Connect(s)
  <2>1. [to |-> next[s], epoch |-> epoch[next[s]], open |-> TRUE] \in Link
    BY ServersFacts DEF Link
  <2>2. link' \in [Servers -> Link]
    BY ZenonT(60), <1>2, <2>1, LinkFacts DEF Connect, Rescan
  <2>3. at' \in [Servers -> Points]
    BY <1>2 DEF Connect, Rescan, Points
  <2> QED
    BY <1>2, <2>2, <2>3 DEF Connect
<1>3. CASE Closed(s)
  BY <1>3, LinkFacts DEF Closed, Rescan, Points
<1>4. CASE \E t \in Servers : Probe(s, t)
  BY SMTT(30), <1>4, LinkFacts DEF Probe, Rescan, Points
<1>5. CASE Promote(s)
  BY <1>5 DEF Promote, Points
<1>6. CASE SaveEpoch(s)
  BY <1>6 DEF SaveEpoch, Points
<1>7. CASE StartServer(s)
  <2>1. Larger(lastLed[s], observed[s]) \in Nat
    BY LargerFacts
  <2> QED
    BY <1>7, <2>1 DEF StartServer, Points
<1>8. CASE Receive(s)
  <2>1. Larger(observed[s], link[s].epoch) \in Nat
    BY LargerFacts DEF Link
  <2> QED
    BY <1>8, <2>1 DEF Receive
<1>9. CASE Timeout(s)
  BY <1>9, LinkFacts DEF Timeout, BeginProbe, Points
<1>10. CASE Crash(s)
  <2>1. \A t \in Servers : [link[t] EXCEPT !.open = FALSE] \in Link
    BY DEF Link
  <2>2. link' \in [Servers -> Link]
    BY <1>10, <2>1, LinkFacts DEF Crash
  <2> QED
    BY <1>10, <2>2 DEF Crash, Points
<1>11. CASE Restart(s)
  <2>1. Larger(lastLed[s], stored[s]) \in Nat
    BY LargerFacts
  <2>2. CASE s = Primary
    BY ZenonT(60), <1>11, <2>1, <2>2 DEF Restart, Points
  <2>3. CASE s # Primary
    BY <1>11, <2>3 DEF Restart, Points
  <2> QED
    BY <2>2, <2>3
<1> QED
  BY <1>1, <1>2, <1>3, <1>4, <1>5, <1>6, <1>7, <1>8, <1>9, <1>10, <1>11 DEF ServerStep

\* The state is well typed: every epoch is a number, every watcher is at one
\* of its points and walks inside the list of servers.
THEOREM TypeCorrect == Spec => []TypeOK
<1>1. Init => TypeOK
  <2> SUFFICES ASSUME Init PROVE TypeOK
    OBVIOUS
  <2>1. /\ faults \in [crashes: 0 .. MaxCrashes, glitches: 0 .. MaxGlitches]
        /\ next \in [Servers -> Servers] /\ walk \in [Peers -> Servers]
        /\ pending \in [Servers -> SUBSET Servers] /\ overtaken \subseteq Servers
    BY ServersFacts, FailoverAssumption DEF Init, Primary
  <2>2. /\ peer \in [Peers -> 0 .. N] /\ lastSeen \in [Peers -> Nat]
        /\ ledBy \in [Peers -> Nat]
    BY ServersFacts DEF Init
  <2> QED
    BY <2>1, <2>2, EpochTypesInit DEF TypeOK, EpochTypes
<1>2. TypeOK /\ [Next]_vars => TypeOK'
  <2> SUFFICES ASSUME TypeOK, [Next]_vars PROVE TypeOK'
    OBVIOUS
  <2>1. CASE UNCHANGED vars
    BY <2>1 DEF TypeOK, vars, watchers, peers
  <2>2. ASSUME NEW s \in Servers, ServerStep(s) PROVE TypeOK'
    <3>1. EpochTypes'
      BY <2>2, EpochTypesStep DEF TypeOK, EpochTypes
    <3>2. faults' \in [crashes: 0 .. MaxCrashes, glitches: 0 .. MaxGlitches]
      <4>1. \/ faults' = faults
            \/ Glitch
            \/ /\ faults.crashes < MaxCrashes
               /\ faults' = [faults EXCEPT !.crashes = @ + 1]
        BY <2>2, Zenon
        DEF ServerStep, Scan, Connect, Closed, Probe, Promote, SaveEpoch,
            StartServer, Receive, Timeout, Crash, Restart, Reaches, Misses
      <4>2. faults \in [crashes: 0 .. MaxCrashes, glitches: 0 .. MaxGlitches]
        BY DEF TypeOK
      <4>3. CASE Glitch
        BY <4>2, <4>3, FailoverAssumption DEF Glitch
      <4> QED
        BY <4>1, <4>2, <4>3, FailoverAssumption
    <3>3. next' \in [Servers -> Servers]
      <4>1. next[s] < s => next[s] + 1 \in Servers
        <5>1. next[s] \in Servers
          BY DEF TypeOK
        <5> QED
          BY <5>1, FailoverAssumption DEF Servers
      <4> QED
        BY <2>2, <4>1, ServersFacts
        DEF TypeOK, ServerStep, Scan, Connect, Closed, Probe, Promote, SaveEpoch,
            StartServer, Receive, Timeout, Crash, Restart, Rescan, BeginProbe,
            Primary
    <3>4. pending' \in [Servers -> SUBSET Servers]
      <4>1. Higher(s) \subseteq Servers
        BY FailoverAssumption DEF Higher, Servers
      <4> QED
        BY <2>2, <4>1
        DEF TypeOK, ServerStep, Scan, Connect, Closed, Probe, Promote, SaveEpoch,
            StartServer, Receive, Timeout, Crash, Restart, Rescan, BeginProbe
    <3>5. /\ peer' \in [Peers -> 0 .. N] /\ walk' = walk
          /\ lastSeen' = lastSeen /\ ledBy' = ledBy
      BY <2>2, ServersFacts
      DEF TypeOK, ServerStep, Scan, Connect, Closed, Probe, Promote, SaveEpoch,
          StartServer, Receive, Timeout, Crash, Restart, peers
    <3>6. overtaken' \subseteq Servers
      BY <2>2
      DEF TypeOK, ServerStep, Scan, Connect, Closed, Probe, Promote, SaveEpoch,
          StartServer, Receive, Timeout, Crash, Restart, BeginsToLead
    <3> QED
      BY <3>1, <3>2, <3>3, <3>4, <3>5, <3>6 DEF TypeOK, EpochTypes
  <2>3. ASSUME NEW p \in Peers, PeerTry(p) PROVE TypeOK'
    <3>1. walk[p] \in Servers /\ lastSeen[p] \in Nat /\ ledBy[p] \in Nat
      BY DEF TypeOK
    <3>2. epoch[walk[p]] \in Nat
      BY <3>1 DEF TypeOK
    <3>3. Larger(lastSeen[p], 0) \in Nat /\ Larger(ledBy[p], epoch[walk[p]]) \in Nat
      BY <3>1, <3>2, LargerFacts
    <3>4. (IF walk[p] = N THEN 1 ELSE walk[p] + 1) \in Servers
      BY <3>1, FailoverAssumption DEF Servers
    <3>5. faults' \in [crashes: 0 .. MaxCrashes, glitches: 0 .. MaxGlitches]
      BY <2>3, FailoverAssumption DEF TypeOK, PeerTry, Reaches, Misses, Glitch
    <3>6. 1 \in Servers /\ walk[p] \in 0 .. N
      BY <3>1, ServersFacts DEF Primary
    <3>7. peer' \in [Peers -> 0 .. N]
      BY <2>3, <3>6 DEF TypeOK, PeerTry
    <3>8. walk' \in [Peers -> Servers]
      BY <2>3, <3>4, <3>6 DEF TypeOK, PeerTry
    <3>9. lastSeen' \in [Peers -> Nat] /\ ledBy' \in [Peers -> Nat]
      <4>1. \/ lastSeen' = lastSeen /\ ledBy' = ledBy
            \/ /\ lastSeen' = [lastSeen EXCEPT ![p] = Larger(lastSeen[p], 0)]
               /\ ledBy' = [ledBy EXCEPT ![p] = Larger(ledBy[p], epoch[walk[p]])]
        BY <2>3, Zenon DEF PeerTry, AckEpoch
      <4> QED
        BY <3>3, <4>1 DEF TypeOK
    <3>10. UNCHANGED watchers
      BY <2>3 DEF PeerTry
    <3> QED
      BY <3>5, <3>7, <3>8, <3>9, <3>10 DEF TypeOK, watchers
  <2>4. ASSUME NEW p \in Peers, PeerLost(p) PROVE TypeOK'
    <3>1. faults' \in [crashes: 0 .. MaxCrashes, glitches: 0 .. MaxGlitches]
      <4>1. Glitch
        BY <2>4 DEF PeerLost
      <4>2. faults \in [crashes: 0 .. MaxCrashes, glitches: 0 .. MaxGlitches]
        BY DEF TypeOK
      <4> QED
        BY <4>1, <4>2, FailoverAssumption DEF Glitch
    <3>2. peer' \in [Peers -> 0 .. N] /\ UNCHANGED <<walk, lastSeen, ledBy, watchers>>
      BY <2>4, ServersFacts DEF TypeOK, PeerLost
    <3> QED
      BY <3>1, <3>2 DEF TypeOK, watchers
  <2> QED
    BY <2>1, <2>2, <2>3, <2>4, NextCases
<1> QED
  BY <1>1, <1>2, PTL DEF Spec

\* Every step of a server keeps what it leads or has led with in epoch.txt: the
\* inductive step of EpochsArePersisted.
LEMMA EpochPersistedStep ==
  ASSUME EpochTypes, EpochTypes', EpochPersisted, NEW s \in Servers, ServerStep(s)
  PROVE  EpochPersisted'
<1>0. \A t \in Servers : /\ lastLed[t] \in Nat /\ stored[t] \in Nat
                         /\ observed[t] \in Nat /\ epoch[t] \in Nat
  BY DEF EpochTypes
<1>1. CASE Scan(s)
  BY <1>1, ServersFacts
  DEF Scan, BeginProbe, EpochPersisted, EpochTypes
<1>2. CASE Connect(s)
  BY <1>2, ServersFacts DEF Connect, Rescan, EpochPersisted, EpochTypes
<1>3. CASE Closed(s)
  BY <1>3, ServersFacts DEF Closed, Rescan, EpochPersisted, EpochTypes
<1>4. CASE \E t \in Servers : Probe(s, t)
  BY <1>4, ServersFacts DEF Probe, Rescan, EpochPersisted, EpochTypes
<1>5. CASE Promote(s)
  \* What the server has led with is stored and so observed; the new epoch is
  \* one more.
  <2>1. s # Primary
    BY <1>5 DEF Promote, EpochPersisted
  <2>2. lastLed[s] < observed[s] + 1 /\ stored[s] <= observed[s] + 1
    BY <1>0, <2>1 DEF EpochPersisted
  <2> QED
    BY <1>0, <1>5, <2>1, <2>2, ServersFacts DEF Promote, EpochPersisted, EpochTypes
<1>6. CASE SaveEpoch(s)
  <2>1. s # Primary /\ lastLed[s] < observed[s] /\ stored[s] <= observed[s]
    BY <1>6 DEF SaveEpoch, EpochPersisted
  <2>2. listening[s] => epoch[s] <= observed[s]
    BY <1>0, <2>1 DEF EpochPersisted
  <2> QED
    BY <1>0, <1>6, <2>1, <2>2, ServersFacts DEF SaveEpoch, EpochPersisted, EpochTypes
<1>7. CASE StartServer(s)
  <2>1. s # Primary /\ lastLed[s] < observed[s] /\ stored[s] = observed[s]
    BY <1>7 DEF StartServer, EpochPersisted
  <2>2. Larger(lastLed[s], observed[s]) <= stored[s]
    BY <1>0, <2>1 DEF Larger
  <2> QED
    BY <1>0, <1>7, <2>1, <2>2, ServersFacts DEF StartServer, EpochPersisted, EpochTypes
<1>8. CASE Receive(s)
  <2>1. Larger(observed[s], link[s].epoch) >= observed[s]
    BY <1>0, LargerFacts DEF EpochTypes, Link
  <2>2. s # Primary => stored[s] <= Larger(observed[s], link[s].epoch)
    BY SMTT(30), <1>0, <2>1, LargerFacts DEF EpochPersisted, EpochTypes, Link
  <2> QED
    BY <1>0, <1>8, <2>2, ServersFacts DEF Receive, EpochPersisted, EpochTypes
<1>9. CASE Timeout(s)
  BY <1>9, ServersFacts DEF Timeout, BeginProbe, EpochPersisted, EpochTypes
<1>10. CASE Crash(s)
  BY <1>10, ServersFacts DEF Crash, EpochPersisted, EpochTypes
<1>11. CASE Restart(s)
  \* epoch.txt holds the highest epoch the server has led with.
  <2>1. Larger(lastLed[s], stored[s]) <= stored[s]
    BY <1>0 DEF EpochPersisted, Larger
  <2>2. CASE s = Primary
    BY <1>0, <1>11, <2>1, <2>2 DEF Restart, EpochPersisted, EpochTypes
  <2>3. CASE s # Primary
    BY <1>0, <1>11, <2>3, ServersFacts DEF Restart, EpochPersisted, EpochTypes
  <2> QED
    BY <2>2, <2>3
<1> QED
  BY <1>1, <1>2, <1>3, <1>4, <1>5, <1>6, <1>7, <1>8, <1>9, <1>10, <1>11 DEF ServerStep

\* What a server leads or has led with is in its epoch.txt, whatever crashes
\* between the steps of a promotion (promote, EpochStore::save and main's
\* callback).  EpochPersisted is its own inductive invariant.
THEOREM EpochsArePersisted == Spec => []EpochPersisted
<1>1. Init => EpochPersisted
  BY ServersFacts DEF Init, EpochPersisted
<1>2. TypeOK /\ TypeOK' /\ EpochPersisted /\ [Next]_vars => EpochPersisted'
  <2> SUFFICES ASSUME TypeOK, TypeOK', EpochPersisted, [Next]_vars
               PROVE  EpochPersisted'
    OBVIOUS
  <2>1. EpochTypes /\ EpochTypes'
    BY DEF TypeOK, EpochTypes
  <2>2. CASE UNCHANGED watchers
    BY <2>2 DEF EpochPersisted, watchers
  <2>3. ASSUME NEW s \in Servers, ServerStep(s) PROVE EpochPersisted'
    BY <2>1, <2>3, EpochPersistedStep
  <2>4. ASSUME NEW p \in Peers, PeerTry(p) \/ PeerLost(p) PROVE UNCHANGED watchers
    BY <2>4 DEF PeerTry, PeerLost
  <2> QED
    BY <2>2, <2>3, <2>4, NextCases DEF vars
<1> QED
  BY <1>1, <1>2, TypeCorrect, PTL DEF Spec

\* A standby never starts to lead with an epoch it has led with before (promote
\* and main's callback): every promotion goes beyond what is stored.
THEOREM EpochsAreFresh == Spec => FreshEpoch
<1>1. TypeOK /\ EpochPersisted /\ [Next]_vars
        => [\A s \in Standbys : ~listening[s] /\ listening'[s]
              => epoch'[s] > lastLed[s]]_vars
  <2> SUFFICES ASSUME TypeOK, EpochPersisted, Next,
                      NEW s \in Standbys, ~listening[s], listening'[s]
               PROVE  epoch'[s] > lastLed[s]
    OBVIOUS
  <2>1. s \in Servers /\ s # Primary
    BY DEF Standbys
  <2>2. ASSUME NEW r \in Servers, ServerStep(r), ~StartServer(r), ~Restart(r), ~Crash(r)
        PROVE  FALSE
    <3>1. listening' = listening
      BY <2>2 DEF ServerStep, Scan, Connect, Closed, Probe, Promote, SaveEpoch,
                  Receive, Timeout
    <3> QED
      BY <3>1
  <2>3. ASSUME NEW r \in Servers, Restart(r) PROVE FALSE
    BY <2>1, <2>3 DEF Restart, TypeOK
  <2>4. ASSUME NEW r \in Servers, Crash(r) PROVE FALSE
    BY <2>1, <2>4 DEF Crash, TypeOK
  <2>5. ASSUME NEW r \in Servers, StartServer(r) PROVE epoch'[s] > lastLed[s]
    <3>1. r = s
      BY <2>1, <2>5 DEF StartServer, TypeOK
    <3>2. epoch'[s] = observed[s] /\ lastLed[s] < observed[s]
      BY <2>1, <2>5, <3>1 DEF StartServer, TypeOK, EpochPersisted
    <3>3. observed[s] \in Nat /\ lastLed[s] \in Nat
      BY <2>1 DEF TypeOK
    <3> QED
      BY <3>2, <3>3
  <2>6. ASSUME NEW p \in Peers, PeerTry(p) \/ PeerLost(p) PROVE FALSE
    <3>1. listening' = listening
      BY <2>6 DEF PeerTry, PeerLost, watchers
    <3> QED
      BY <3>1
  <2> QED
    BY <2>2, <2>3, <2>4, <2>5, <2>6, NextCases
<1> QED
  BY <1>1, TypeCorrect, EpochsArePersisted, PTL DEF Spec, FreshEpoch

\* Why SoleLeader holds: as long as no server has been overtaken and the network
\* is sound, whoever a probe found down (allHigherPriorityDown) does not listen,
\* and only a server that leads listens.
ProbesHold ==
  /\ \A s \in Servers : listening[s] => at[s] = "leading"
  /\ overtaken = {} /\ faults.glitches = 0
       => \A s, t \in Servers : FoundDown(s, t) => ~listening[t]

\* Two servers that lead are of different priority, and the lower one has found
\* the higher one down.
LEMMA ProbesHoldSuffices == TypeOK /\ ProbesHold => SoleLeader
<1> SUFFICES ASSUME TypeOK, ProbesHold, overtaken = {}, faults.glitches = 0,
                    NEW s \in Servers, NEW t \in Servers,
                    listening[s], listening[t], s # t
             PROVE  FALSE
  BY DEF SoleLeader
<1>1. at[s] = "leading" /\ at[t] = "leading"
  BY DEF ProbesHold
<1>2. s \in Higher(t) \/ t \in Higher(s)
  BY FailoverAssumption DEF Servers, Higher
<1>3. FoundDown(t, s) \/ FoundDown(s, t)
  BY <1>1, <1>2 DEF FoundDown
<1> QED
  BY <1>3 DEF ProbesHold

\* Nothing takes a glitch or an overtaking back.
LEMMA TroubleRemains ==
  ASSUME TypeOK, NEW s \in Servers, ServerStep(s), overtaken' = {},
         faults'.glitches = 0
  PROVE  overtaken = {} /\ faults.glitches = 0 /\ ~Glitch
<1>1. faults \in [crashes: 0 .. MaxCrashes, glitches: 0 .. MaxGlitches]
  BY DEF TypeOK
<1>2. ~Glitch
  BY <1>1, FailoverAssumption DEF Glitch
<1>3. \/ faults' = faults
      \/ faults' = [faults EXCEPT !.crashes = @ + 1]
  BY <1>2, Zenon
  DEF ServerStep, Scan, Connect, Closed, Probe, Promote, SaveEpoch,
      StartServer, Receive, Timeout, Crash, Restart, Reaches, Misses
<1>4. overtaken' = overtaken \/ BeginsToLead(s)
  BY Zenon
  DEF ServerStep, Scan, Connect, Closed, Probe, Promote, SaveEpoch,
      StartServer, Receive, Timeout, Crash, Restart
<1> QED
  BY <1>1, <1>2, <1>3, <1>4 DEF BeginsToLead

\* Every step of a server keeps whoever is found down silent: a probe finds down
\* only a server that does not listen, a promotion goes on with what the probes
\* found, and a server that begins to lead has been found down by nobody.
LEMMA ProbesHoldStep ==
  ASSUME TypeOK, ProbesHold, NEW s \in Servers, ServerStep(s)
  PROVE  ProbesHold'
<1>0. ASSUME overtaken' = {}, faults'.glitches = 0
      PROVE  /\ overtaken = {} /\ faults.glitches = 0 /\ ~Glitch
             /\ \A r, t \in Servers : FoundDown(r, t) => ~listening[t]
  BY <1>0, TroubleRemains DEF ProbesHold
<1>1. CASE Scan(s)
  BY SMTT(30), <1>0, <1>1 DEF TypeOK, ProbesHold, Scan, BeginProbe, FoundDown
<1>2. CASE Connect(s)
  BY SMTT(30), <1>0, <1>2 DEF TypeOK, ProbesHold, Connect, Rescan, FoundDown
<1>3. CASE Closed(s)
  BY SMTT(30), <1>0, <1>3 DEF TypeOK, ProbesHold, Closed, Rescan, FoundDown
<1>4. CASE \E t \in Servers : Probe(s, t)
  <2> PICK t \in Servers : Probe(s, t)
    BY <1>4
  <2>1. CASE Rescan(s)
    BY SMTT(30), <1>0, <2>1 DEF TypeOK, ProbesHold, Probe, Rescan, FoundDown
  <2>2. CASE ~Rescan(s)
    <3>1. /\ Misses(t) /\ pending' = [pending EXCEPT ![s] = @ \ {t}]
          /\ UNCHANGED <<at, listening>>
      BY <2>2 DEF Probe
    <3>2. ASSUME overtaken' = {}, faults'.glitches = 0 PROVE ~listening[t]
      BY <1>0, <3>1, <3>2 DEF Misses
    <3> QED
      BY SMTT(30), <1>0, <3>1, <3>2 DEF TypeOK, ProbesHold, FoundDown
  <2> QED
    BY <2>1, <2>2
<1>5. CASE Promote(s)
  BY SMTT(30), <1>0, <1>5 DEF TypeOK, ProbesHold, Promote, FoundDown
<1>6. CASE SaveEpoch(s)
  BY SMTT(30), <1>0, <1>6 DEF TypeOK, ProbesHold, SaveEpoch, FoundDown
<1>7. CASE StartServer(s)
  <2>1. ASSUME overtaken' = {}, NEW r \in Servers, FoundDown(r, s) PROVE FALSE
    BY <1>7, <2>1 DEF StartServer, BeginsToLead
  <2>2. \A r, t \in Servers : FoundDown(r, t)' => FoundDown(r, t)
    BY <1>7 DEF TypeOK, StartServer, FoundDown
  <2>3. \A t \in Servers : listening'[t] => t = s \/ listening[t]
    BY <1>7 DEF TypeOK, StartServer
  <2>4. \A t \in Servers : listening'[t] => at'[t] = "leading"
    BY <1>7, <2>3 DEF TypeOK, ProbesHold, StartServer
  <2>5. ASSUME overtaken' = {}, faults'.glitches = 0, NEW r \in Servers,
               NEW t \in Servers, FoundDown(r, t)', listening'[t]
        PROVE  FALSE
    <3>1. FoundDown(r, t) /\ ~listening[t]
      BY <1>0, <2>2, <2>5
    <3> QED
      BY <2>1, <2>3, <2>5, <3>1
  <2> QED
    BY <2>4, <2>5 DEF ProbesHold
<1>8. CASE Receive(s)
  BY SMTT(30), <1>0, <1>8 DEF TypeOK, ProbesHold, Receive, FoundDown
<1>9. CASE Timeout(s)
  BY SMTT(30), <1>0, <1>9 DEF TypeOK, ProbesHold, Timeout, BeginProbe, FoundDown
<1>10. CASE Crash(s)
  BY SMTT(30), <1>0, <1>10 DEF TypeOK, ProbesHold, Crash, FoundDown
<1>11. CASE Restart(s)
  <2>1. CASE s = Primary
    <3>1. ASSUME overtaken' = {}, NEW r \in Servers, FoundDown(r, s) PROVE FALSE
      BY <1>11, <2>1, <3>1 DEF Restart, BeginsToLead
    <3>2. Higher(s) = {}
      BY <2>1 DEF Higher, Primary
    <3>3. \A r, t \in Servers : FoundDown(r, t)' => FoundDown(r, t)
      BY <1>11, <2>1, <3>2 DEF TypeOK, Restart, FoundDown
    <3>4. \A t \in Servers : listening'[t] => t = s \/ listening[t]
      BY <1>11, <2>1 DEF TypeOK, Restart
    <3>5. \A t \in Servers : listening'[t] => at'[t] = "leading"
      BY <1>11, <2>1, <3>4 DEF TypeOK, ProbesHold, Restart
    <3>6. ASSUME overtaken' = {}, faults'.glitches = 0, NEW r \in Servers,
                 NEW t \in Servers, FoundDown(r, t)', listening'[t]
          PROVE  FALSE
      <4>1. FoundDown(r, t) /\ ~listening[t]
        BY <1>0, <3>3, <3>6
      <4> QED
        BY <3>1, <3>4, <3>6, <4>1
    <3> QED
      BY <3>5, <3>6 DEF ProbesHold
  <2>2. CASE s # Primary
    BY SMTT(30), <1>0, <1>11, <2>2 DEF TypeOK, ProbesHold, Restart, FoundDown
  <2> QED
    BY <2>1, <2>2
<1> QED
  BY <1>1, <1>2, <1>3, <1>4, <1>5, <1>6, <1>7, <1>8, <1>9, <1>10, <1>11 DEF ServerStep

\* Without network trouble two servers lead at once only if the one of higher
\* priority began to lead after the other had found it down
\* (allHigherPriorityDown, promote and main's callback).
THEOREM LeaderIsSole == Spec => []SoleLeader
<1>1. Init => ProbesHold
  <2> SUFFICES ASSUME Init PROVE ProbesHold
    OBVIOUS
  <2>1. /\ Higher(Primary) = {}
        /\ at = [s \in Servers |-> IF s = Primary THEN "leading" ELSE "scan"]
        /\ listening = [s \in Servers |-> s = Primary]
    BY DEF Init, Higher, Primary
  <2>2. \A s, t \in Servers : ~FoundDown(s, t)
    BY <2>1 DEF FoundDown
  <2> QED
    BY <2>1, <2>2 DEF ProbesHold
<1>2. TypeOK /\ ProbesHold /\ [Next]_vars => ProbesHold'
  <2> SUFFICES ASSUME TypeOK, ProbesHold, [Next]_vars PROVE ProbesHold'
    OBVIOUS
  <2>1. CASE UNCHANGED vars
    BY <2>1 DEF ProbesHold, FoundDown, vars, watchers
  <2>2. ASSUME NEW s \in Servers, ServerStep(s) PROVE ProbesHold'
    BY <2>2, ProbesHoldStep
  <2>3. ASSUME NEW p \in Peers, PeerTry(p) \/ PeerLost(p) PROVE ProbesHold'
    <3>1. faults'.glitches = 0 => faults.glitches = 0
      BY <2>3, FailoverAssumption DEF TypeOK, PeerTry, PeerLost, Reaches, Misses, Glitch
    <3>2. UNCHANGED watchers
      BY <2>3 DEF PeerTry, PeerLost
    <3> QED
      BY <3>1, <3>2 DEF ProbesHold, FoundDown, watchers
  <2> QED
    BY <2>1, <2>2, <2>3, NextCases
<1> QED
  BY <1>1, <1>2, TypeCorrect, ProbesHoldSuffices, PTL DEF Spec
=============================================================================
