--------------------------- MODULE HostLifeProofs ---------------------------
(***************************************************************************)
(* Proofs about HostLife, for any connectors, keys, pids and clients.      *)
(* First the process table: PidHeld is what makes its three properties     *)
(* inductive, for the pid an entry holds has not been reaped, so it is     *)
(* nobody else's.  Then the registry: what load_connectors_from_config     *)
(* makes of a file is followed entry by entry.                             *)
(***************************************************************************)
EXTENDS HostLife, NaturalsInduction, WellFoundedInduction, TLAPS

-----------------------------------------------------------------------------
(* The process table                                                       *)

\* The part of TypeOK the process table needs.
TableTypeOK ==
    /\ launching \in [Clients -> Keys \cup {None}]
    /\ pgid \in [Keys -> Pids \cup {None}]
    /\ proc \in [Pids -> {"free", "shell", "zombie", "stranger"}]
    /\ tree \in [Pids -> BOOLEAN]
    /\ termed \subseteq Pids

\* waitpid has not yet returned the shell an entry names.
PidHeld == \A k \in Keys : pgid[k] # None => proc[pgid[k]] \in {"shell", "zombie"}

TableInv ==
    /\ TableTypeOK
    /\ PidHeld
    /\ SignalsOnlyItsOwn
    /\ RunningShellCanBeStopped
    /\ CleanExitStopsAll
    /\ clean => phase = "down"

\* A new process has an empty table.
LEMMA TableInit == Init => TableInv
BY ProcessesAssumption
DEF Init, TableInv, TableTypeOK, PidHeld, SignalsOnlyItsOwn, RunningShellCanBeStopped,
    CleanExitStopsAll

\* The parts of the invariant that a step of a running host, which is neither
\* down nor going down, has to keep (requests to the connectors).
LEMMA RequestsKeep ==
    ASSUME TableInv, phase = "running", Requests, UNCHANGED exitVars
    PROVE  TableInv'
<1> USE ProcessesAssumption
<1> USE DEF TableInv, TableTypeOK, PidHeld, SignalsOnlyItsOwn,
            RunningShellCanBeStopped, CleanExitStopsAll, exitVars
<1>1. ASSUME NEW d \in Connectors, Register(d)
      PROVE  TableInv'
  BY <1>1 DEF Register, osVars
<1>2. ASSUME NEW c \in Clients, NEW key \in Keys, LaunchBegin(c, key)
      PROVE  TableInv'
  BY <1>2 DEF LaunchBegin, osVars
<1>3. ASSUME NEW c \in Clients, Launch(c)
      PROVE  TableInv'
  <2> DEFINE key == launching[c]
  <2>1. key \in Keys /\ launching' \in [Clients -> Keys \cup {None}]
    BY <1>3 DEF Launch
  <2>2. CASE ForkFails(key)
    BY <2>1, <2>2 DEF ForkFails, Stopped
  <2>3. ASSUME NEW p \in Pids, Forked(key, p)
        PROVE  TableInv'
    <3>1. TableTypeOK'
      BY <2>1, <2>3 DEF Forked, Stopped
    <3>2. \A k \in Keys : pgid[k] # p
      BY <2>3 DEF Forked, Free
    <3>3. PidHeld' /\ SignalsOnlyItsOwn'
      BY <2>1, <2>3, <3>2 DEF Forked, Stopped, Free
    <3>4. RunningShellCanBeStopped'
      <4> SUFFICES ASSUME NEW q \in Pids, proc'[q] = "shell", q \notin termed'
                   PROVE  \E k \in Keys : pgid'[k] = q
        OBVIOUS
      <4>1. CASE q = p
        BY <2>1, <2>3, <4>1 DEF Forked
      <4>2. CASE q # p
        <5>1. proc[q] = "shell" /\ q \notin termed /\ q # pgid[key]
          BY <2>1, <2>3, <4>2 DEF Forked, Stopped
        <5>2. PICK k \in Keys : pgid[k] = q
          BY <5>1
        <5>3. k # key /\ pgid'[k] = pgid[k]
          BY <2>1, <2>3, <5>1, <5>2 DEF Forked
        <5> QED BY <5>2, <5>3
      <4> QED BY <4>1, <4>2
    <3>5. CleanExitStopsAll'
      OBVIOUS
    <3> QED BY <3>1, <3>3, <3>4, <3>5
  <2> QED BY <1>3, <2>2, <2>3 DEF Launch
<1>4. ASSUME NEW key \in Keys, Stop(key)
      PROVE  TableInv'
  BY <1>4 DEF Stop, Stopped, registryVars
<1>5. CASE Refresh
  <2>1. TableTypeOK'
    BY <1>5 DEF Refresh, ProcAfter, registryVars
  <2>2. ASSUME NEW k \in Keys, pgid'[k] # None
        PROVE  proc'[pgid'[k]] \in {"shell", "zombie"}
    <3>1. pgid'[k] = pgid[k] /\ pgid[k] \in Pids /\ proc[pgid[k]] = "shell"
      BY <1>5, <2>2 DEF Refresh, Exited
    <3> QED BY <1>5, <3>1 DEF Refresh, ProcAfter
  <2>3. SignalsOnlyItsOwn'
    BY <1>5 DEF Refresh, ProcAfter
  <2>4. RunningShellCanBeStopped'
    <3> SUFFICES ASSUME NEW q \in Pids, proc'[q] = "shell", q \notin termed'
                 PROVE  \E k \in Keys : pgid'[k] = q
      OBVIOUS
    <3>1. proc[q] = "shell" /\ q \notin termed
      BY <1>5 DEF Refresh, ProcAfter
    <3>2. PICK k \in Keys : pgid[k] = q
      BY <3>1
    <3> QED BY <1>5, <3>1, <3>2 DEF Refresh, Exited
  <2> QED BY <2>1, <2>2, <2>3, <2>4
<1> QED BY <1>1, <1>2, <1>3, <1>4, <1>5 DEF Requests

\* The operating system moves in every phase.
LEMMA OperatingSystemKeeps ==
    ASSUME TableInv, OperatingSystem, UNCHANGED exitVars
    PROVE  TableInv'
<1> USE ProcessesAssumption
<1> USE DEF TableInv, TableTypeOK, PidHeld, SignalsOnlyItsOwn,
            RunningShellCanBeStopped, CleanExitStopsAll, exitVars
<1> PICK p \in Pids :
        \/ ShellExits(p) \/ TreeGrows(p) \/ TreeEnds(p)
        \/ PidReused(p) \/ StrangerExits(p)
  BY DEF OperatingSystem
<1>1. CASE ShellExits(p)
  BY <1>1 DEF ShellExits, registryVars
<1>2. CASE TreeGrows(p)
  BY <1>2 DEF TreeGrows, registryVars
<1>3. CASE TreeEnds(p)
  BY <1>3 DEF TreeEnds, registryVars
<1>4. CASE PidReused(p)
  <2>1. \A k \in Keys : pgid[k] # p
    BY <1>4 DEF PidReused, Free
  <2> QED BY <1>4, <2>1 DEF PidReused, Free, registryVars
<1>5. CASE StrangerExits(p)
  BY <1>5 DEF StrangerExits, registryVars
<1> QED BY <1>1, <1>2, <1>3, <1>4, <1>5

\* Every step keeps the invariant.
LEMMA TableStep == TableInv /\ [Next]_vars => TableInv'
<1> SUFFICES ASSUME TableInv, [Next]_vars PROVE TableInv'
  OBVIOUS
<1> USE ProcessesAssumption
<1> USE DEF TableInv, TableTypeOK, PidHeld, SignalsOnlyItsOwn,
            RunningShellCanBeStopped, CleanExitStopsAll, exitVars
<1>1. CASE Running
  BY <1>1, RequestsKeep DEF Running
<1>2. CASE Outside
  BY <1>2, OperatingSystemKeeps DEF Outside
<1>3. ASSUME NEW registry, StartWith(registry)
      PROVE  TableInv'
  <2>1. TableTypeOK'
    BY <1>3 DEF StartWith, Inherited
  <2>2. \A p \in Pids : proc'[p] # "shell"
    BY <1>3 DEF StartWith, Inherited
  <2>3. PidHeld' /\ SignalsOnlyItsOwn' /\ CleanExitStopsAll'
    BY <1>3 DEF StartWith, Inherited
  <2>4. clean' = FALSE
    BY <1>3 DEF StartWith
  <2> QED BY <2>1, <2>2, <2>3, <2>4
<1>4. CASE Quit
  BY <1>4 DEF Quit, processVars, registryVars, osVars
<1>5. CASE Save
  <2>1. TableTypeOK' /\ PidHeld' /\ SignalsOnlyItsOwn'
    BY <1>5 DEF Save, Tracked, registryVars
  <2>2. \A p \in Pids : proc'[p] = "shell" => p \in termed'
    BY <1>5 DEF Save, Tracked
  <2>3. phase' = "down"
    BY <1>5 DEF Save
  <2> QED BY <2>1, <2>2, <2>3
<1>6. CASE Crash
  BY <1>6 DEF Crash, osVars
<1>7. CASE Polling
  BY <1>7, RequestsKeep DEF Polling, Requests
<1>8. CASE PeerSilent
  BY <1>8 DEF PeerSilent, processVars, registryVars, osVars
<1>9. CASE UNCHANGED vars
  BY <1>9 DEF vars, processVars, registryVars, osVars
<1> QED
  BY <1>1, <1>2, <1>3, <1>4, <1>5, <1>6, <1>7, <1>8, <1>9 DEF Next, Start, StartUnread

\* The table is as TableInv says in every reachable state.
THEOREM TableCorrect == Spec => []TableInv
<1> QED BY TableInit, TableStep, PTL DEF Spec

\* killpg never reaches a process this program did not start, however often
\* pids are reused.
THEOREM SignalsCorrect == Spec => []SignalsOnlyItsOwn
<1>1. TableInv => SignalsOnlyItsOwn
  BY DEF TableInv
<1> QED BY <1>1, TableCorrect, PTL

\* A running shell that was not told to stop is named by the entry of its key.
THEOREM StoppableCorrect == Spec => []RunningShellCanBeStopped
<1>1. TableInv => RunningShellCanBeStopped
  BY DEF TableInv
<1> QED BY <1>1, TableCorrect, PTL

\* After a clean exit every shell still alive was sent SIGTERM.
THEOREM CleanExitCorrect == Spec => []CleanExitStopsAll
<1>1. TableInv => CleanExitStopsAll
  BY DEF TableInv
<1> QED BY <1>1, TableCorrect, PTL
-----------------------------------------------------------------------------
(* The registry                                                            *)

\* Every set of naturals has a least one.
LEMMA LeastNat ==
    ASSUME NEW T \in SUBSET Nat, T # {}
    PROVE  \E n \in T : \A m \in T : n <= m
<1> DEFINE R == OpToRel(<, Nat)
<1>1. PICK n \in T : \A m \in T : ~(<<m, n>> \in R)
  <2>1. IsWellFoundedOn(R, Nat)
    BY NatLessThanWellFounded
  <2> HIDE DEF R
  <2> QED  BY <2>1, WFMin
<1>2. \A m \in T : m < n => <<m, n>> \in R
  BY DEF OpToRel
<1> HIDE DEF R
<1>3. \A m \in T : ~(m < n)
  BY <1>1, <1>2
<1> QED  BY <1>3

\* The greatest of some naturals is what Max chooses.
LEMMA MaxIs ==
    ASSUME NEW S \in SUBSET Nat, NEW m \in S, \A y \in S : m >= y
    PROVE  Max(S) = m
<1>1. \A x \in S : (\A y \in S : x >= y) => x = m
  OBVIOUS
<1> QED  BY <1>1 DEF Max

\* f tells what registry is after each set of the first n entries of file.
Registers(f, registry, file, n) ==
    f = [s \in SUBSET (1 .. n) |->
           IF s = {} THEN registry
           ELSE Registered(f[s \ {Max(s)}], file[Max(s)])]

\* Such an f exists, for as many entries as the file has.
LEMMA RegistersExists ==
    ASSUME NEW registry, NEW file, NEW n \in Nat
    PROVE  \E f : Registers(f, registry, file, n)
<1> DEFINE T == {m \in Nat : ~ \E f : Registers(f, registry, file, m)}
<1>1. SUFFICES ASSUME T # {} PROVE FALSE
  OBVIOUS
<1>2. PICK m \in T : \A k \in T : m <= k
  BY <1>1, LeastNat
<1>3. CASE m = 0
  <2> DEFINE f == [s \in SUBSET (1 .. 0) |-> registry]
  <2>1. \A s \in SUBSET (1 .. 0) : s = {}
    OBVIOUS
  <2>2. Registers(f, registry, file, 0)
    BY <2>1 DEF Registers
  <2> QED  BY <1>3, <2>2
<1>4. CASE m # 0
  <2>1. m - 1 \in Nat /\ m - 1 \notin T
    BY <1>2, <1>4
  <2>2. PICK f : Registers(f, registry, file, m - 1)
    BY <2>1
  <2> DEFINE g == [s \in SUBSET (1 .. m) |->
                     IF m \in s THEN Registered(f[s \ {m}], file[m]) ELSE f[s]]
             h == [s \in SUBSET (1 .. m) |->
                     IF s = {} THEN registry
                     ELSE Registered(g[s \ {Max(s)}], file[Max(s)])]
  <2>3. ASSUME NEW s \in SUBSET (1 .. m)
        PROVE  g[s] = h[s]
    <3>1. CASE m \in s
      <4>1. Max(s) = m
        <5>1. \A y \in s : m >= y
          BY <1>2
        <5>2. s \in SUBSET Nat
          BY <1>2
        <5> QED  BY <3>1, <5>1, <5>2, MaxIs
      <4>2. s \ {m} \in SUBSET (1 .. m) /\ g[s \ {m}] = f[s \ {m}]
        OBVIOUS
      <4> QED  BY <3>1, <4>1, <4>2
    <3>2. CASE m \notin s
      <4>1. s \in SUBSET (1 .. m - 1)
        BY <1>2, <3>2
      <4>2. /\ s \ {Max(s)} \in SUBSET (1 .. m)
            /\ g[s \ {Max(s)}] = f[s \ {Max(s)}]
        BY <3>2
      <4>3. f[s] = IF s = {} THEN registry
                   ELSE Registered(f[s \ {Max(s)}], file[Max(s)])
        BY <2>2, <4>1 DEF Registers
      <4> QED  BY <3>2, <4>2, <4>3
    <3> QED  BY <3>1, <3>2
  <2>4. g = h
    BY <2>3
  <2>5. Registers(g, registry, file, m)
    BY <2>4 DEF Registers
  <2> QED  BY <2>5
<1> QED  BY <1>3, <1>4

\* l[k] is the registry after k entries of the file.
Goes(l, registry, file) ==
    /\ l[0] = registry
    /\ \A k \in 1 .. Len(file) : l[k] = Registered(l[k - 1], file[k])
    /\ Loaded(registry, file) = l[Len(file)]

\* load_connectors_from_config goes through the file from its first entry to its
\* last.
LEMMA LoadedGoes ==
    ASSUME NEW registry, NEW file, file \in Seq(Connectors)
    PROVE  \E l : Goes(l, registry, file)
<1> DEFINE n == Len(file)
           iter == CHOOSE f : Registers(f, registry, file, n)
<1>1. n \in Nat /\ DOMAIN file = 1 .. n
  OBVIOUS
<1>2. Loaded(registry, file) =
        (CHOOSE f : f = [s \in SUBSET DOMAIN file |->
                           IF s = {} THEN registry
                           ELSE Registered(f[s \ {Max(s)}], file[Max(s)])])[DOMAIN file]
  BY DEF Loaded, FoldLeft, MapThenFoldSet
<1>3. Loaded(registry, file) = iter[1 .. n]
  BY <1>1, <1>2, Zenon DEF Registers
<1>4. Registers(iter, registry, file, n)
  <2>1. \E f : Registers(f, registry, file, n)
    BY <1>1, RegistersExists
  <2> QED  BY <2>1, Zenon
<1> HIDE DEF iter
<1> DEFINE l == [k \in 0 .. n |-> iter[1 .. k]]
<1>5. l[0] = registry
  <2>1. 1 .. 0 = {} /\ 1 .. 0 \in SUBSET (1 .. n)
    OBVIOUS
  <2> QED  BY <1>1, <1>4, <2>1 DEF Registers
<1>6. ASSUME NEW k \in 1 .. n
      PROVE  l[k] = Registered(l[k - 1], file[k])
  <2>1. /\ 1 .. k \in SUBSET (1 .. n) /\ k \in 1 .. k
        /\ \A y \in 1 .. k : k >= y
    BY <1>1
  <2>2. Max(1 .. k) = k
    BY <2>1, MaxIs
  <2>3. (1 .. k) \ {k} = 1 .. (k - 1) /\ k - 1 \in 0 .. n
    BY <1>1
  <2>4. iter[1 .. k] = Registered(iter[(1 .. k) \ {k}], file[k])
    BY <1>4, <2>1, <2>2 DEF Registers
  <2>5. k \in 0 .. n /\ l[k] = iter[1 .. k] /\ l[k - 1] = iter[1 .. (k - 1)]
    BY <1>1, <2>3
  <2> QED  BY <2>3, <2>4, <2>5
<1>7. l[n] = iter[1 .. n]
  BY <1>1
<1> HIDE DEF l
<1>8. Goes(l, registry, file)
  BY <1>3, <1>5, <1>6, <1>7 DEF Goes
<1> QED  BY <1>8

\* Every id is in the registry once (register_connector).
Unique(registry) ==
    \A i, j \in DOMAIN registry : registry[i].id = registry[j].id => i = j

\* register_connector puts the connector in and loses none of another id.
LEMMA RegisteredKeeps ==
    ASSUME NEW registry \in Seq(Connectors), Unique(registry), NEW d \in Connectors
    PROVE  /\ Registered(registry, d) \in Seq(Connectors)
           /\ Unique(Registered(registry, d))
           /\ d \in ToSet(Registered(registry, d))
           /\ \A e \in ToSet(registry) :
                 e.id # d.id => e \in ToSet(Registered(registry, d))
<1> DEFINE after == Registered(registry, d)
<1>0. Len(registry) \in Nat /\ DOMAIN registry = 1 .. Len(registry)
  OBVIOUS
<1>1. CASE IndexOf(registry, d.id) = {}
  <2>1. after = Append(registry, d)
    BY <1>1 DEF Registered
  <2>2. /\ after \in Seq(Connectors) /\ DOMAIN after = 1 .. Len(registry) + 1
        /\ after[Len(registry) + 1] = d
        /\ \A i \in DOMAIN registry : i \in DOMAIN after /\ after[i] = registry[i]
    BY <2>1
  <2>3. \A i \in DOMAIN registry : registry[i].id # d.id
    BY <1>1 DEF IndexOf
  <2>4. Unique(after)
    BY <1>0, <2>2, <2>3 DEF Unique
  <2>5. d \in ToSet(after)
    BY <1>0, <2>2 DEF ToSet
  <2>6. ASSUME NEW e \in ToSet(registry) PROVE e \in ToSet(after)
    BY <2>2 DEF ToSet
  <2> QED  BY <2>2, <2>4, <2>5, <2>6
<1>2. CASE IndexOf(registry, d.id) # {}
  <2>1. /\ DOMAIN after = DOMAIN registry
        /\ \A i \in DOMAIN registry :
              after[i] = IF registry[i].id = d.id THEN d ELSE registry[i]
    BY <1>2 DEF Registered
  <2>2. after \in Seq(Connectors)
    <3>1. after = [i \in 1 .. Len(registry) |->
                     IF registry[i].id = d.id THEN d ELSE registry[i]]
      BY <1>0, <1>2 DEF Registered
    <3>2. \A i \in 1 .. Len(registry) :
             (IF registry[i].id = d.id THEN d ELSE registry[i]) \in Connectors
      BY <1>0
    <3> HIDE DEF after
    <3> QED  BY <1>0, <3>1, <3>2
  <2>3. \A i \in DOMAIN registry : after[i].id = registry[i].id
    BY <2>1
  <2>4. Unique(after)
    BY <2>1, <2>3 DEF Unique
  <2>5. d \in ToSet(after)
    BY <1>2, <2>1 DEF ToSet, IndexOf
  <2>6. ASSUME NEW e \in ToSet(registry), e.id # d.id PROVE e \in ToSet(after)
    BY <2>1, <2>6 DEF ToSet
  <2> QED  BY <2>2, <2>4, <2>5, <2>6
<1> QED  BY <1>1, <1>2

\* What holds of the registry after k entries of the file: an entry can only
\* have been lost to a later one of its id.
Progress(l, registry, file, k) ==
    /\ l[k] \in Seq(Connectors)
    /\ Unique(l[k])
    /\ \A d \in ToSet(registry) :
          d \in ToSet(l[k]) \/ \E i \in 1 .. k : file[i].id = d.id
    /\ \A i \in 1 .. k :
          file[i] \in ToSet(l[k]) \/ \E j \in 1 .. k : i < j /\ file[j].id = file[i].id

\* load_connectors_from_config keeps the registry's type, loses an entry only to
\* one of the file with its id, and takes over a file that names no id twice.
LEMMA LoadedKeeps ==
    ASSUME NEW registry \in Seq(Connectors), Unique(registry),
           NEW file \in Seq(Connectors)
    PROVE  /\ Loaded(registry, file) \in Seq(Connectors)
           /\ Unique(Loaded(registry, file))
           /\ \A d \in ToSet(registry) :
                 d \in ToSet(Loaded(registry, file)) \/ IndexOf(file, d.id) # {}
           /\ Unique(file) => ToSet(file) \subseteq ToSet(Loaded(registry, file))
<1> DEFINE n == Len(file)
<1>0. n \in Nat /\ DOMAIN file = 1 .. n /\ \A i \in 1 .. n : file[i] \in Connectors
  OBVIOUS
<1>1. PICK l : Goes(l, registry, file)
  BY LoadedGoes
<1> DEFINE T == {k \in Nat : k <= n /\ ~ Progress(l, registry, file, k)}
<1>2. Progress(l, registry, file, 0)
  BY <1>1 DEF Progress, Goes
<1>3. ASSUME NEW k \in 1 .. n, Progress(l, registry, file, k - 1)
      PROVE  Progress(l, registry, file, k)
  <2> DEFINE before == l[k - 1]
             d == file[k]
  <2>0. k \in Nat /\ k - 1 \in Nat /\ d \in Connectors
    BY <1>0
  <2>1. l[k] = Registered(before, d)
    BY <1>1 DEF Goes
  <2>2. before \in Seq(Connectors) /\ Unique(before)
    BY <1>3 DEF Progress
  <2>3. /\ l[k] \in Seq(Connectors) /\ Unique(l[k]) /\ d \in ToSet(l[k])
        /\ \A e \in ToSet(before) : e.id # d.id => e \in ToSet(l[k])
    BY <2>0, <2>1, <2>2, RegisteredKeeps
  <2>4. ASSUME NEW e \in ToSet(registry)
        PROVE  e \in ToSet(l[k]) \/ \E i \in 1 .. k : file[i].id = e.id
    <3>1. e \in ToSet(before) \/ \E i \in 1 .. (k - 1) : file[i].id = e.id
      BY <1>3 DEF Progress
    <3>2. CASE e \in ToSet(before)
      BY <2>0, <2>3, <3>2
    <3>3. CASE \E i \in 1 .. (k - 1) : file[i].id = e.id
      BY <2>0, <3>3
    <3> QED  BY <3>1, <3>2, <3>3
  <2>5. ASSUME NEW i \in 1 .. k
        PROVE  file[i] \in ToSet(l[k])
               \/ \E j \in 1 .. k : i < j /\ file[j].id = file[i].id
    <3>1. CASE i = k
      BY <2>3, <3>1
    <3>2. CASE i # k
      <4>1. i \in 1 .. (k - 1) /\ i < k
        BY <2>0, <3>2
      <4>2. file[i] \in ToSet(before)
            \/ \E j \in 1 .. (k - 1) : i < j /\ file[j].id = file[i].id
        BY <1>3, <4>1 DEF Progress
      <4>3. CASE file[i] \in ToSet(before)
        BY <2>0, <2>3, <4>1, <4>3
      <4>4. CASE \E j \in 1 .. (k - 1) : i < j /\ file[j].id = file[i].id
        BY <2>0, <4>4
      <4> QED  BY <4>2, <4>3, <4>4
    <3> QED  BY <3>1, <3>2
  <2> QED  BY <2>3, <2>4, <2>5 DEF Progress
<1>4. Progress(l, registry, file, n)
  <2> SUFFICES ASSUME T # {} PROVE FALSE
    BY <1>0
  <2>1. PICK m \in T : \A k \in T : m <= k
    BY LeastNat
  <2>2. m # 0 /\ m \in 1 .. n
    BY <1>2, <2>1
  <2>3. m - 1 \in Nat /\ m - 1 <= n /\ m - 1 \notin T
    BY <1>0, <2>1, <2>2
  <2> QED  BY <1>3, <2>1, <2>2, <2>3
<1>5. Loaded(registry, file) = l[n]
  BY <1>1 DEF Goes
<1>6. ASSUME Unique(file), NEW d \in ToSet(file) PROVE d \in ToSet(l[n])
  <2>1. PICK i \in 1 .. n : d = file[i]
    BY <1>0 DEF ToSet
  <2>2. \A j \in 1 .. n : file[j].id = file[i].id => i = j
    BY <1>0, <1>6 DEF Unique
  <2>3. file[i] \in ToSet(l[n]) \/ \E j \in 1 .. n : i < j /\ file[j].id = file[i].id
    BY <1>4 DEF Progress
  <2> QED  BY <2>1, <2>2, <2>3
<1>7. ASSUME NEW d \in ToSet(registry)
      PROVE  d \in ToSet(l[n]) \/ IndexOf(file, d.id) # {}
  BY <1>0, <1>4 DEF Progress, IndexOf
<1> QED  BY <1>4, <1>5, <1>6, <1>7 DEF Progress

\* What is read of a state file can be registered.
LEMMA ReadableTyped ==
    ASSUME NEW file \in Seq(Connectors)
    PROVE  Readable(file) \in Seq(Connectors)
<1> DEFINE stray == {i \in DOMAIN file : file[i].braces # "matched"}
           last == IF stray = {} THEN Len(file)
                   ELSE CHOOSE i \in stray : \A j \in stray : i <= j
<1>1. Readable(file) = [i \in 1 .. last |-> ReadBack(file[i])]
  BY DEF Readable
<1>2. last \in Nat /\ last <= Len(file)
  <2>1. CASE stray = {}
    BY <2>1
  <2>2. CASE stray # {}
    <3>1. stray \in SUBSET (1 .. Len(file))
      OBVIOUS
    <3>2. \E i \in stray : \A j \in stray : i <= j
      <4>1. stray \in SUBSET Nat
        BY <3>1
      <4> QED  BY <2>2, <4>1, LeastNat
    <3>3. last \in stray
      BY <2>2, <3>2
    <3> QED  BY <3>1, <3>3
  <2> QED  BY <2>1, <2>2
<1> HIDE DEF last
<1>3. \A i \in 1 .. last : ReadBack(file[i]) \in Connectors
  BY <1>2, ReadBackAssumption
<1> QED  BY <1>1, <1>2, <1>3

\* A state file of plain connectors is read back as it was written.
LEMMA PlainReadable ==
    ASSUME NEW file \in Seq(Connectors), \A d \in ToSet(file) : IsPlain(d)
    PROVE  Readable(file) = file
<1>1. \A i \in DOMAIN file : file[i] \in ToSet(file) /\ file[i] \in Connectors
  BY DEF ToSet
<1>2. {i \in DOMAIN file : file[i].braces # "matched"} = {}
  BY <1>1 DEF IsPlain
<1>3. ASSUME NEW d \in Connectors, IsPlain(d) PROVE ReadBack(d) = d
  BY <1>3, ReadBackAssumption DEF ReadBack, IsPlain
<1>4. Readable(file) = [i \in 1 .. Len(file) |-> ReadBack(file[i])]
  BY <1>2 DEF Readable
<1>5. \A i \in 1 .. Len(file) : ReadBack(file[i]) = file[i]
  BY <1>1, <1>3
<1>6. Readable(file) = [i \in 1 .. Len(file) |-> file[i]]
  BY <1>4, <1>5
<1> QED  BY <1>6

\* The registry names an id once, and an exit that saved it left it in the
\* state file.
RegistryInv ==
    /\ connectors \in Seq(Connectors)
    /\ Unique(connectors)
    /\ stateFile \in Seq(Connectors)
    /\ phase \in {"running", "saving", "unsaved", "down"}
    /\ clean \in BOOLEAN /\ saved \in BOOLEAN /\ stuck \in BOOLEAN
    /\ saved => phase = "down" /\ stateFile = connectors

\* A start makes a registry of the state file and --config.
LEMMA StartRegistryTyped ==
    ASSUME stateFile \in Seq(Connectors)
    PROVE  StartRegistry \in Seq(Connectors) /\ Unique(StartRegistry)
<1> DEFINE file == Readable(stateFile)
           restored == Loaded(<<>>, file)
<1>1. file \in Seq(Connectors)
  BY ReadableTyped
<1>2. <<>> \in Seq(Connectors) /\ Unique(<<>>)
  BY DEF Unique
<1> HIDE DEF file
<1>3. restored \in Seq(Connectors) /\ Unique(restored)
  BY <1>1, <1>2, LoadedKeeps
<1> HIDE DEF restored
<1>4. Loaded(restored, Config) \in Seq(Connectors) /\ Unique(Loaded(restored, Config))
  BY <1>3, ConfigAssumption, LoadedKeeps
<1> QED  BY <1>4 DEF StartRegistry, restored, file

\* The first process starts without a state file.
LEMMA RegistryInit == Init => RegistryInv
<1> SUFFICES ASSUME Init PROVE RegistryInv
  OBVIOUS
<1>1. stateFile \in Seq(Connectors)
  BY DEF Init
<1>2. StartRegistry \in Seq(Connectors) /\ Unique(StartRegistry)
  BY <1>1, StartRegistryTyped
<1> QED  BY <1>1, <1>2 DEF Init, RegistryInv

\* What a write that ends too early leaves can be registered.
LEMMA CutShortTyped ==
    ASSUME connectors \in Seq(Connectors)
    PROVE  CutShort \subseteq Seq(Connectors)
<1>1. ASSUME NEW n \in 0 .. Len(connectors)
      PROVE  SubSeq(connectors, 1, n) \in Seq(Connectors)
  BY <1>1
<1>2. ASSUME NEW n \in DOMAIN connectors
      PROVE  Append(SubSeq(connectors, 1, n - 1), Cut(connectors[n])) \in Seq(Connectors)
  <2>1. n - 1 \in 0 .. Len(connectors)
    OBVIOUS
  <2>2. SubSeq(connectors, 1, n - 1) \in Seq(Connectors)
    BY <2>1, <1>1
  <2>3. Cut(connectors[n]) \in Connectors
    BY ReadBackAssumption
  <2> QED  BY <2>2, <2>3
<1> QED  BY <1>1, <1>2 DEF CutShort

\* A start, whatever it could read.
LEMMA StartKeeps ==
    ASSUME RegistryInv, Start \/ StartUnread
    PROVE  RegistryInv'
<1>1. StartRegistry \in Seq(Connectors) /\ Unique(StartRegistry)
  BY StartRegistryTyped DEF RegistryInv
<1>2. Loaded(<<>>, Config) \in Seq(Connectors) /\ Unique(Loaded(<<>>, Config))
  <2>1. <<>> \in Seq(Connectors) /\ Unique(<<>>)
    BY DEF Unique
  <2> QED  BY <2>1, ConfigAssumption, LoadedKeeps
<1>3. ASSUME NEW registry, registry \in Seq(Connectors), Unique(registry), StartWith(registry)
      PROVE  RegistryInv'
  BY <1>3 DEF StartWith, RegistryInv, Unique
<1> QED  BY <1>1, <1>2, <1>3 DEF Start, StartUnread

\* Only a request that registers, and a start, change the registry; only the end
\* of the process writes the state file.
LEMMA RegistryStep == RegistryInv /\ [Next]_vars => RegistryInv'
<1> SUFFICES ASSUME RegistryInv, [Next]_vars PROVE RegistryInv'
  OBVIOUS
<1> USE DEF RegistryInv, exitVars
<1>1. CASE Running
  <2>1. phase = "running" /\ UNCHANGED <<phase, stateFile, clean, saved, stuck>>
    BY <1>1 DEF Running
  <2>2. connectors' \in Seq(Connectors) /\ Unique(connectors')
    <3>1. ASSUME NEW d \in Connectors, Register(d)
          PROVE  connectors' \in Seq(Connectors) /\ Unique(connectors')
      BY <3>1, RegisteredKeeps DEF Register
    <3>2. ASSUME UNCHANGED connectors
          PROVE  connectors' \in Seq(Connectors) /\ Unique(connectors')
      BY <3>2
    <3>3. \/ \E d \in Connectors : Register(d)
          \/ UNCHANGED connectors
      BY <1>1 DEF Running, Requests, Launch, LaunchBegin, Stop, Refresh, registryVars
    <3> QED  BY <3>1, <3>2, <3>3
  <2> QED  BY <2>1, <2>2 DEF Unique
<1>2. CASE Outside \/ Polling
  <2>1. UNCHANGED <<connectors, phase, stateFile, clean, saved, stuck>>
    BY <1>2 DEF Outside, OperatingSystem, ShellExits, TreeGrows, TreeEnds, PidReused,
                StrangerExits, Polling, Refresh, registryVars
  <2> QED  BY <2>1 DEF Unique
<1>3. CASE Start \/ StartUnread
  BY <1>3, StartKeeps
<1>4. CASE Quit
  <2>1. <<>> \in Seq(Connectors)
    OBVIOUS
  <2> QED  BY <1>4, <2>1 DEF Quit, processVars, registryVars, Unique
<1>5. CASE Save
  <2>1. UNCHANGED connectors /\ phase' = "down" /\ clean' = TRUE /\ UNCHANGED stuck
    BY <1>5 DEF Save, registryVars
  <2>2. \/ stateFile' = connectors /\ saved' = TRUE
        \/ stateFile' \in CutShort \cup {stateFile} /\ saved' = FALSE
    BY <1>5 DEF Save, WriteRegistry
  <2> QED  BY <2>1, <2>2, CutShortTyped DEF Unique
<1>6. CASE Crash
  <2>1. /\ connectors' = <<>> /\ phase' = "down" /\ stuck' = FALSE
        /\ stateFile' \in CutShort \cup {stateFile} /\ UNCHANGED <<clean, saved>>
        /\ phase # "down"
    BY <1>6 DEF Crash
  <2>2. <<>> \in Seq(Connectors) /\ Unique(<<>>)
    BY DEF Unique
  <2> QED  BY <2>1, <2>2, CutShortTyped DEF Unique
<1>7. CASE PeerSilent \/ UNCHANGED vars
  <2>1. /\ UNCHANGED <<connectors, phase, stateFile, clean, saved>>
        /\ stuck' \in {stuck, TRUE}
    BY <1>7 DEF PeerSilent, vars, processVars, registryVars
  <2>2. stuck' \in BOOLEAN
    BY <2>1
  <2>3. connectors' \in Seq(Connectors) /\ Unique(connectors') /\ stateFile' \in Seq(Connectors)
    BY <2>1 DEF Unique
  <2> QED  BY <2>1, <2>2, <2>3
<1> QED  BY <1>1, <1>2, <1>3, <1>4, <1>5, <1>6, <1>7 DEF Next

\* The registry and the state file are as RegistryInv says in every reachable state.
LEMMA RegistryAlways == Spec => []RegistryInv
<1> QED  BY RegistryInit, RegistryStep, PTL DEF Spec

\* Every variable keeps its type and no id is registered twice, whatever the state
\* file and --config say of it and however often the host is restarted
\* (register_connector, load_connectors_from_config).
THEOREM TypeCorrect == Spec => []TypeOK
<1>1. TableInv /\ RegistryInv => TypeOK
  BY DEF TableInv, TableTypeOK, RegistryInv, TypeOK, ProcessTypeOK, Unique
<1> QED  BY <1>1, TableCorrect, RegistryAlways, PTL

\* Provided --config names no id twice (else its last entry of that id wins), what
\* it names and, after an exit that wrote the state file, what plain connectors were registered are in
\* the registry of the next start, whatever their number and order.
THEOREM ConnectorsReturn ==
    ASSUME Unique(Config)
    PROVE  Spec => PlainConnectorsReturn
<1>1. RegistryInv /\ [Next]_vars =>
        [Start /\ saved /\ (\A d \in ToSet(connectors) : IsPlain(d))
         => /\ ToSet(Config) \subseteq ToSet(connectors')
            /\ \A d \in ToSet(connectors) :
                  d \in ToSet(connectors') \/ IndexOf(Config, d.id) # {}]_vars
  <2> SUFFICES ASSUME RegistryInv, Start, saved, \A d \in ToSet(connectors) : IsPlain(d)
               PROVE  /\ ToSet(Config) \subseteq ToSet(connectors')
                      /\ \A d \in ToSet(connectors) :
                            d \in ToSet(connectors') \/ IndexOf(Config, d.id) # {}
    OBVIOUS
  <2> DEFINE restored == Loaded(<<>>, connectors)
  <2>1. /\ connectors \in Seq(Connectors) /\ Unique(connectors)
        /\ stateFile = connectors
    BY DEF RegistryInv, Start, StartWith
  <2>2. connectors' = Loaded(restored, Config)
    BY <2>1, PlainReadable DEF Start, StartWith, StartRegistry
  <2>3. <<>> \in Seq(Connectors) /\ Unique(<<>>)
    BY DEF Unique
  <2>4. /\ restored \in Seq(Connectors) /\ Unique(restored)
        /\ ToSet(connectors) \subseteq ToSet(restored)
    BY <2>1, <2>3, LoadedKeeps
  <2> HIDE DEF restored
  <2>5. /\ ToSet(Config) \subseteq ToSet(Loaded(restored, Config))
        /\ \A d \in ToSet(restored) :
              d \in ToSet(Loaded(restored, Config)) \/ IndexOf(Config, d.id) # {}
    BY <2>4, ConfigAssumption, LoadedKeeps
  <2> QED  BY <2>2, <2>4, <2>5
<1> QED  BY <1>1, RegistryAlways, PTL DEF Spec, PlainConnectorsReturn
=============================================================================
