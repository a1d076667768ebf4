-------------------------- MODULE HostServiceProofs --------------------------
(***************************************************************************)
(* Proofs about HostService, for any peers and number of attempts: mutex_  *)
(* is held by the one thread that is between taking it and letting go of   *)
(* it.  What a thread has left to execute keeps a shape that says so, and  *)
(* Merged, a fold, leaves steps out and adds none.                         *)
(***************************************************************************)
EXTENDS HostService, NaturalsInduction, WellFoundedInduction, TLAPS

-----------------------------------------------------------------------------
(* Blocks in a row                                                         *)

\* Every set of naturals has a least one.
LEMMA LeastNat ==
    ASSUME NEW T \in SUBSET Nat, T # {}
    PROVE  \E n \in T : \A m \in T : n <= m
<1> DEFINE R == OpToRel(<, Nat)
<1>1. PICK n \in T : \A m \in T : ~(<<m, n>> \in R)
  <2>1. IsWellFoundedOn(R, Nat)
    BY NatLessThanWellFounded
  <2> HIDE DEF R
  <2> QED  BY <2>1, WFMin
<1>2. \A m \in T : m < n => <<m, n>> \in R
  BY DEF OpToRel
<1> HIDE DEF R
<1>3. \A m \in T : ~(m < n)
  BY <1>1, <1>2
<1> QED  BY <1>3

\* The greatest of some naturals is what Max chooses.
LEMMA MaxIs ==
    ASSUME NEW S \in SUBSET Nat, NEW m \in S, \A y \in S : m >= y
    PROVE  Max(S) = m
<1>1. \A x \in S : (\A y \in S : x >= y) => x = m
  OBVIOUS
<1> QED  BY <1>1 DEF Max

\* seq with one more step, which Merged leaves out if it is a second block.
With(seq, s) ==
    IF s = "block" /\ IsSuffix(<<s>>, seq) THEN seq ELSE Append(seq, s)

\* f tells what Merged makes of each set of the first n steps.
Merges(f, steps, n) ==
    f = [s \in SUBSET (1 .. n) |->
           IF s = {} THEN <<>> ELSE With(f[s \ {Max(s)}], steps[Max(s)])]

\* Such an f exists, for as many steps as there are.
LEMMA MergesExists ==
    ASSUME NEW steps, NEW n \in Nat
    PROVE  \E f : Merges(f, steps, n)
<1> DEFINE T == {m \in Nat : ~ \E f : Merges(f, steps, m)}
<1>1. SUFFICES ASSUME T # {} PROVE FALSE
  OBVIOUS
<1>2. PICK m \in T : \A k \in T : m <= k
  BY <1>1, LeastNat
<1>3. CASE m = 0
  <2> DEFINE f == [s \in SUBSET (1 .. 0) |-> <<>>]
  <2>1. \A s \in SUBSET (1 .. 0) : s = {}
    OBVIOUS
  <2>2. Merges(f, steps, 0)
    BY <2>1 DEF Merges
  <2> QED  BY <1>3, <2>2
<1>4. CASE m # 0
  <2>1. m - 1 \in Nat /\ m - 1 \notin T
    BY <1>2, <1>4
  <2>2. PICK f : Merges(f, steps, m - 1)
    BY <2>1
  <2> DEFINE g == [s \in SUBSET (1 .. m) |->
                     IF m \in s THEN With(f[s \ {m}], steps[m]) ELSE f[s]]
             h == [s \in SUBSET (1 .. m) |->
                     IF s = {} THEN <<>> ELSE With(g[s \ {Max(s)}], steps[Max(s)])]
  <2>3. ASSUME NEW s \in SUBSET (1 .. m)
        PROVE  g[s] = h[s]
    <3>1. CASE m \in s
      <4>1. Max(s) = m
        <5>1. \A y \in s : m >= y
          BY <1>2
        <5>2. s \in SUBSET Nat
          BY <1>2
        <5> QED  BY <3>1, <5>1, <5>2, MaxIs
      <4>2. s \ {m} \in SUBSET (1 .. m) /\ g[s \ {m}] = f[s \ {m}]
        OBVIOUS
      <4> QED  BY <3>1, <4>1, <4>2
    <3>2. CASE m \notin s
      <4>1. s \in SUBSET (1 .. m - 1)
        BY <1>2, <3>2
      <4>2. /\ s \ {Max(s)} \in SUBSET (1 .. m)
            /\ g[s \ {Max(s)}] = f[s \ {Max(s)}]
        BY <3>2
      <4>3. f[s] = IF s = {} THEN <<>> ELSE With(f[s \ {Max(s)}], steps[Max(s)])
        BY <2>2, <4>1 DEF Merges
      <4> QED  BY <3>2, <4>2, <4>3
    <3> QED  BY <3>1, <3>2
  <2>4. g = h
    BY <2>3
  <2>5. Merges(g, steps, m)
    BY <2>4 DEF Merges
  <2> QED  BY <2>5
<1> QED  BY <1>3, <1>4

\* Merged leaves out steps and adds none.
LEMMA MergedTyped ==
    ASSUME NEW S, NEW steps \in Seq(S)
    PROVE  Merged(steps) \in Seq(S)
<1> DEFINE n == Len(steps)
           iter == CHOOSE f : Merges(f, steps, n)
<1>1. n \in Nat /\ DOMAIN steps = 1 .. n /\ \A i \in 1 .. n : steps[i] \in S
  OBVIOUS
<1>2. Merged(steps) =
        (CHOOSE f : f = [s \in SUBSET DOMAIN steps |->
                           IF s = {} THEN <<>>
                           ELSE IF steps[Max(s)] = "block"
                                   /\ IsSuffix(<<steps[Max(s)]>>, f[s \ {Max(s)}])
                                THEN f[s \ {Max(s)}]
                                ELSE Append(f[s \ {Max(s)}], steps[Max(s)])])[DOMAIN steps]
  BY Zenon DEF Merged, FoldLeft, MapThenFoldSet
<1>3. Merged(steps) = iter[1 .. n]
  BY <1>1, <1>2, Zenon DEF Merges, With
<1>4. Merges(iter, steps, n)
  <2>1. \E f : Merges(f, steps, n)
    BY <1>1, MergesExists
  <2> QED  BY <2>1, Zenon
<1> HIDE DEF iter
<1> DEFINE T == {k \in Nat : k <= n /\ iter[1 .. k] \notin Seq(S)}
<1>5. ASSUME T # {} PROVE FALSE
  <2>1. PICK k \in T : \A m \in T : k <= m
    BY <1>5, LeastNat
  <2>0. k \in Nat /\ k <= n /\ iter[1 .. k] \notin Seq(S)
    BY <2>1
  <2>2. CASE k = 0
    <3>1. 1 .. 0 = {} /\ 1 .. 0 \in SUBSET (1 .. n)
      OBVIOUS
    <3>2. iter[1 .. 0] = <<>>
      BY <1>4, <3>1 DEF Merges
    <3>3. <<>> \in Seq(S)
      OBVIOUS
    <3> QED  BY <2>0, <2>2, <3>2, <3>3
  <2>3. CASE k # 0
    <3>1. /\ 1 .. k \in SUBSET (1 .. n) /\ k \in 1 .. k /\ k \in 1 .. n
          /\ \A y \in 1 .. k : k >= y
      BY <1>1, <2>1, <2>3
    <3>2. Max(1 .. k) = k
      BY <3>1, MaxIs
    <3>3. (1 .. k) \ {k} = 1 .. (k - 1) /\ k - 1 \in Nat /\ k - 1 \notin T
      BY <2>1, <2>3
    <3>4. iter[1 .. k] = With(iter[1 .. (k - 1)], steps[k])
      BY <1>4, <3>1, <3>2, <3>3 DEF Merges
    <3>5. iter[1 .. (k - 1)] \in Seq(S) /\ steps[k] \in S
      BY <1>1, <2>1, <3>1, <3>3
    <3>6. \A seq \in Seq(S), s \in S : With(seq, s) \in Seq(S)
      BY DEF With
    <3> QED  BY <2>0, <3>4, <3>5, <3>6
  <2> QED  BY <2>2, <2>3
<1> QED  BY <1>1, <1>3, <1>5

-----------------------------------------------------------------------------
(* Sequences of steps                                                      *)

\* What a thread may have left to do.
Steps == {"block", "lock", "unlock", "call", "attempt", "setup", "open", "bind",
          "read", "reply", "tick", "probe", "log"}

\* The steps that neither take mutex_ for longer than a block nor choose what is
\* done next.
Plain == {"block", "call", "attempt", "probe"}

\* The steps behind which the thread goes on with something else.
Choosing == {"read", "tick", "setup", "bind"}

Has(s, x) == \E i \in DOMAIN s : s[i] = x

\* The thread has still to let go of mutex_, and not first to take it.
Inside(s) == Has(s, "unlock") /\ ~Has(s, "lock")

\* A lock is taken at most once and let go of, nothing is chosen under it, and
\* bind is the last step.
Shape(s) ==
    /\ s \in Seq(Steps)
    /\ \A i, j \in DOMAIN s : s[i] = s[j] /\ s[i] \in {"lock", "unlock"} => i = j
    /\ \A i \in DOMAIN s : s[i] = "lock" => \E j \in DOMAIN s : i < j /\ s[j] = "unlock"
    /\ \A i, j \in DOMAIN s : s[i] \in Choosing /\ i < j => s[j] \notin {"lock", "unlock"}
    /\ \A i \in DOMAIN s : s[i] = "bind" => i = Len(s)

\* What is left of a sequence of that shape has it too; steps that are no locks
\* do not matter for who is inside.
LEMMA LaterShape ==
    ASSUME NEW s, Shape(s), NEW n \in Nat, n <= Len(s), NEW r \in Seq(Steps),
           Len(r) = Len(s) - n, \A i \in 1 .. Len(r) : r[i] = s[i + n]
    PROVE  /\ Shape(r)
           /\ (\A i \in 1 .. n : s[i] \notin {"lock", "unlock"}) => (Inside(r) <=> Inside(s))
           /\ \A x : Has(r, x) => Has(s, x)
<1>0. /\ DOMAIN s = 1 .. Len(s) /\ DOMAIN r = 1 .. Len(r)
      /\ Len(s) \in Nat /\ Len(r) \in Nat
  BY DEF Shape
<1>1. \A i \in DOMAIN r : i + n \in DOMAIN s /\ r[i] = s[i + n] /\ i \in Nat
  BY <1>0
<1>2. \A j \in DOMAIN s : j > n => j - n \in DOMAIN r /\ r[j - n] = s[j]
  BY <1>0
<1>3. ASSUME NEW i \in DOMAIN r, NEW j \in DOMAIN r, r[i] = r[j], r[i] \in {"lock", "unlock"}
      PROVE  i = j
  <2>1. i + n = j + n
    BY <1>1, <1>3 DEF Shape
  <2> QED  BY <1>0, <2>1
<1>4. ASSUME NEW i \in DOMAIN r, r[i] = "lock"
      PROVE  \E j \in DOMAIN r : i < j /\ r[j] = "unlock"
  <2>1. PICK j \in DOMAIN s : i + n < j /\ s[j] = "unlock"
    BY <1>1, <1>4 DEF Shape
  <2>2. j - n \in DOMAIN r /\ r[j - n] = "unlock" /\ i < j - n
    BY <1>0, <1>2, <2>1
  <2> QED  BY <2>2
<1>5. ASSUME NEW i \in DOMAIN r, NEW j \in DOMAIN r, r[i] \in Choosing, i < j
      PROVE  r[j] \notin {"lock", "unlock"}
  <2>1. i + n < j + n
    BY <1>0, <1>5
  <2> QED  BY <1>1, <1>5, <2>1 DEF Shape
<1>6. ASSUME NEW i \in DOMAIN r, r[i] = "bind"
      PROVE  i = Len(r)
  <2>1. i + n = Len(s)
    BY <1>1, <1>6 DEF Shape
  <2> QED  BY <1>0, <2>1
<1>7. Shape(r)
  BY <1>3, <1>4, <1>5, <1>6 DEF Shape
<1>8. ASSUME NEW x, Has(r, x) PROVE Has(s, x)
  BY <1>1, <1>8 DEF Has
<1>9. ASSUME \A i \in 1 .. n : s[i] \notin {"lock", "unlock"},
             NEW x \in {"lock", "unlock"}, Has(s, x)
      PROVE  Has(r, x)
  <2>1. PICK j \in DOMAIN s : s[j] = x
    BY <1>9 DEF Has
  <2>2. j > n
    BY <1>0, <1>9, <2>1
  <2> QED  BY <1>2, <2>1, <2>2 DEF Has
<1> QED  BY <1>7, <1>8, <1>9 DEF Inside

\* After its first step a thread is inside if that was the lock, outside if it was
\* the unlock, and else as before; where it chooses it is outside.
LEMMA TailShape ==
    ASSUME NEW s, Shape(s), s # <<>>
    PROVE  /\ Tail(s) \in Seq(Steps) /\ Shape(Tail(s))
           /\ \A x : Has(Tail(s), x) => Has(s, x)
           /\ Head(s) \notin {"lock", "unlock"} => (Inside(Tail(s)) <=> Inside(s))
           /\ Head(s) = "lock" => ~Inside(s) /\ Inside(Tail(s))
           /\ Head(s) = "unlock" => Inside(s) /\ ~Inside(Tail(s))
           /\ Head(s) \in Choosing => ~Inside(s)
           /\ Head(s) = "bind" => Tail(s) = <<>>
<1> DEFINE r == Tail(s)
<1>0. /\ s \in Seq(Steps) /\ Len(s) \in Nat /\ Len(s) >= 1 /\ DOMAIN s = 1 .. Len(s)
      /\ Head(s) = s[1] /\ 1 \in DOMAIN s
  BY DEF Shape
<1>1. /\ r \in Seq(Steps) /\ Len(r) = Len(s) - 1
      /\ \A i \in 1 .. Len(r) : r[i] = s[i + 1]
      /\ DOMAIN r = 1 .. Len(r)
  BY <1>0
<1> HIDE DEF r
<1>2. /\ Shape(r) /\ \A x : Has(r, x) => Has(s, x)
      /\ (\A i \in 1 .. 1 : s[i] \notin {"lock", "unlock"}) => (Inside(r) <=> Inside(s))
  BY <1>0, <1>1, LaterShape
<1>3. Head(s) \notin {"lock", "unlock"} => (Inside(r) <=> Inside(s))
  BY <1>0, <1>2
<1>4. \A x \in {"lock", "unlock"} : s[1] = x => ~Has(r, x)
  <2> SUFFICES ASSUME NEW x \in {"lock", "unlock"}, s[1] = x, NEW i \in DOMAIN r, r[i] = x
               PROVE  FALSE
    BY DEF Has
  <2>1. i + 1 \in DOMAIN s /\ s[i + 1] = x /\ i + 1 # 1
    BY <1>0, <1>1
  <2> QED  BY <1>0, <2>1 DEF Shape
<1>5. ASSUME Head(s) = "lock" PROVE ~Inside(s) /\ Inside(r)
  <2>1. PICK j \in DOMAIN s : 1 < j /\ s[j] = "unlock"
    BY <1>0, <1>5 DEF Shape
  <2>2. j - 1 \in DOMAIN r /\ r[j - 1] = "unlock"
    BY <1>0, <1>1, <2>1
  <2> QED  BY <1>0, <1>4, <1>5, <2>2 DEF Inside, Has
<1>6. ASSUME Head(s) = "unlock" PROVE Inside(s) /\ ~Inside(r)
  <2>1. ~Has(s, "lock")
    <3> SUFFICES ASSUME NEW i \in DOMAIN s, s[i] = "lock" PROVE FALSE
      BY DEF Has
    <3>1. PICK j \in DOMAIN s : i < j /\ s[j] = "unlock"
      BY DEF Shape
    <3>2. j = 1
      BY <1>0, <1>6, <3>1 DEF Shape
    <3> QED  BY <1>0, <3>1, <3>2
  <2> QED  BY <1>0, <1>4, <1>6, <2>1 DEF Inside, Has
<1>7. ASSUME Head(s) \in Choosing PROVE ~Has(s, "unlock")
  <2> SUFFICES ASSUME NEW i \in DOMAIN s, s[i] = "unlock" PROVE FALSE
    BY DEF Has
  <2>1. CASE i = 1
    BY <1>0, <1>7, <2>1 DEF Choosing
  <2>2. CASE i # 1
    <3>1. 1 < i
      BY <1>0, <2>2
    <3> QED  BY <1>0, <1>7, <3>1 DEF Shape
  <2> QED  BY <2>1, <2>2
<1>8. ASSUME Head(s) = "bind" PROVE r = <<>>
  <2>1. Len(s) = 1
    BY <1>0, <1>8 DEF Shape
  <2> QED  BY <1>0, <1>1, <2>1
<1> QED  BY <1>1, <1>2, <1>3, <1>5, <1>6, <1>7, <1>8 DEF Inside, r

\* A step put in front that is neither a lock nor a choice changes nothing.
LEMMA FrontShape ==
    ASSUME NEW s, Shape(s), NEW x \in {"block", "log", "call"}
    PROVE  /\ Shape(<<x>> \o s)
           /\ Inside(<<x>> \o s) <=> Inside(s)
           /\ \A y : Has(<<x>> \o s, y) /\ y # x => Has(s, y)
<1> DEFINE t == <<x>> \o s
<1>0. s \in Seq(Steps) /\ Len(s) \in Nat /\ DOMAIN s = 1 .. Len(s)
  BY DEF Shape
<1>1. /\ t \in Seq(Steps) /\ Len(t) = Len(s) + 1 /\ DOMAIN t = 1 .. Len(t)
      /\ t[1] = x
      /\ \A i \in DOMAIN s : i + 1 \in DOMAIN t /\ t[i + 1] = s[i]
      /\ \A j \in DOMAIN t : j # 1 => j - 1 \in DOMAIN s /\ t[j] = s[j - 1]
  <2>1. <<x>> \in Seq(Steps) /\ Len(<<x>>) = 1 /\ <<x>>[1] = x
    BY DEF Steps
  <2>2. t \in Seq(Steps) /\ Len(t) = Len(s) + 1 /\ DOMAIN t = 1 .. Len(t)
    BY <1>0, <2>1
  <2>3. \A j \in 1 .. Len(s) + 1 : t[j] = IF j <= 1 THEN x ELSE s[j - 1]
    BY <1>0, <2>1
  <2> HIDE DEF t
  <2> QED  BY <1>0, <2>2, <2>3
<1> HIDE DEF t
<1>2. ASSUME NEW i \in DOMAIN t, NEW j \in DOMAIN t, t[i] = t[j], t[i] \in {"lock", "unlock"}
      PROVE  i = j
  <2>1. i # 1 /\ j # 1
    BY <1>1, <1>2
  <2>2. i - 1 = j - 1
    BY <1>1, <1>2, <2>1 DEF Shape
  <2> QED  BY <1>1, <2>2
<1>3. ASSUME NEW i \in DOMAIN t, t[i] = "lock"
      PROVE  \E j \in DOMAIN t : i < j /\ t[j] = "unlock"
  <2>1. i # 1
    BY <1>1, <1>3
  <2>2. PICK j \in DOMAIN s : i - 1 < j /\ s[j] = "unlock"
    BY <1>1, <1>3, <2>1 DEF Shape
  <2>3. j + 1 \in DOMAIN t /\ t[j + 1] = "unlock" /\ i < j + 1
    BY <1>0, <1>1, <2>2
  <2> QED  BY <2>3
<1>4. ASSUME NEW i \in DOMAIN t, NEW j \in DOMAIN t, t[i] \in Choosing, i < j
      PROVE  t[j] \notin {"lock", "unlock"}
  <2>1. i # 1 /\ j # 1
    BY <1>1, <1>4 DEF Choosing
  <2>2. i - 1 < j - 1
    BY <1>1, <1>4
  <2> QED  BY <1>1, <1>4, <2>1, <2>2 DEF Shape
<1>5. ASSUME NEW i \in DOMAIN t, t[i] = "bind" PROVE i = Len(t)
  <2>1. i # 1
    BY <1>1, <1>5
  <2>2. i - 1 = Len(s)
    BY <1>1, <1>5, <2>1 DEF Shape
  <2> QED  BY <1>0, <1>1, <2>2
<1>6. Shape(t)
  BY <1>1, <1>2, <1>3, <1>4, <1>5 DEF Shape
<1>7. \A y : Has(s, y) => Has(t, y)
  BY <1>1 DEF Has
<1>8. \A y : Has(t, y) /\ y # x => Has(s, y)
  BY <1>1 DEF Has
<1> QED  BY <1>6, <1>7, <1>8 DEF Inside, t

\* Plain steps have the shape, alone and before the answer of the server.
LEMMA PlainShape ==
    ASSUME NEW s \in Seq(Plain)
    PROVE  /\ Shape(s) /\ Shape(s \o <<"reply", "tick">>)
           /\ ~Inside(s) /\ ~Inside(s \o <<"reply", "tick">>)
           /\ ~Has(s, "bind") /\ ~Has(s \o <<"reply", "tick">>, "bind")
<1> DEFINE t == s \o <<"reply", "tick">>
<1>0. /\ Len(s) \in Nat /\ DOMAIN s = 1 .. Len(s)
      /\ \A i \in DOMAIN s : s[i] \in {"block", "call", "attempt", "probe"}
  BY DEF Plain
<1>1. s \in Seq(Steps)
  <2>1. s = [i \in 1 .. Len(s) |-> s[i]]
    OBVIOUS
  <2>2. \A i \in 1 .. Len(s) : s[i] \in Steps
    BY <1>0 DEF Steps
  <2> QED  BY <1>0, <2>1, <2>2
<1>2. Shape(s)
  BY <1>0, <1>1 DEF Shape, Choosing
<1>3. /\ t \in Seq(Steps) /\ Len(t) \in Nat /\ DOMAIN t = 1 .. Len(t)
      /\ \A i \in DOMAIN t : t[i] \in {"block", "call", "attempt", "probe", "reply", "tick"}
  <2> DEFINE a == <<"reply", "tick">>
  <2>1. /\ a \in Seq(Steps) /\ Len(a) = 2
        /\ \A i \in 1 .. 2 : a[i] \in {"reply", "tick"}
    BY DEF Steps
  <2>2. /\ t = s \o a /\ t \in Seq(Steps) /\ Len(t) = Len(s) + 2
        /\ DOMAIN t = 1 .. Len(t)
    BY <1>0, <1>1, <2>1
  <2> HIDE DEF a, t
  <2>3. \A i \in 1 .. Len(s) + 2 : t[i] = IF i <= Len(s) THEN s[i] ELSE a[i - Len(s)]
    BY <1>0, <1>1, <2>1, <2>2
  <2> QED  BY <1>0, <2>1, <2>2, <2>3
<1> HIDE DEF t
<1>4. Shape(t)
  BY <1>3 DEF Shape, Choosing
<1>5. ~Has(s, "unlock") /\ ~Has(t, "unlock") /\ ~Has(s, "bind") /\ ~Has(t, "bind")
  BY <1>0, <1>3 DEF Has
<1> QED  BY <1>2, <1>4, <1>5 DEF Inside, t

-----------------------------------------------------------------------------
(* Entry points                                                            *)

\* What the entry points are made of.
LEMMA PlainParts ==
    /\ Locked \in Seq(Plain) /\ Unlocked \in Seq(Plain) /\ Outside \in Seq(Plain)
    /\ <<"call">> \in Seq(Plain)
    /\ [i \in 1 .. Attempts |-> "attempt"] \in Seq(Plain)
<1>1. Attempts \in Nat
  BY ServiceAssumption
<1>2. \A i \in 1 .. Attempts : "attempt" \in Plain
  BY DEF Plain
<1>3. [i \in 1 .. Attempts |-> "attempt"] \in Seq(Plain)
  BY <1>1, <1>2
<1> QED  BY <1>3 DEF Locked, Unlocked, Outside, Plain

\* A command, a pull and a launch await nothing under mutex_.
LEMMA RunCommandPlain ==
    RunCommand \in Seq(Plain) /\ PullModel \in Seq(Plain) /\ LaunchConnector \in Seq(Plain)
<1> USE PlainParts
<1>1. LogLine \in Seq(Plain)
  BY DEF LogLine
<1>2. RunCommand \in Seq(Plain)
  BY <1>1 DEF RunCommand
<1>3. RunCommand \o Locked \in Seq(Plain) /\ Locked \o Outside \o LogLine \in Seq(Plain)
  BY <1>1, <1>2
<1> QED  BY <1>2, <1>3, MergedTyped DEF PullModel, LaunchConnector

\* Nor do a turn, a decision, and what asks for or starts Ollama.
LEMMA TurnPlain ==
    /\ Decision \in Seq(Plain) /\ Turn \in Seq(Plain)
    /\ OllamaSetupStatus \in Seq(Plain) /\ StartOllama \in Seq(Plain)
    /\ Sessions \in Seq(Plain) /\ ScreenStarts \in Seq(Plain)
<1> USE PlainParts
<1>1. Locked \o Outside \o Locked \o <<"call">> \o Locked \in Seq(Plain)
  OBVIOUS
<1>2. Decision \in Seq(Plain)
  BY <1>1, MergedTyped DEF Decision
<1>3. Turn \in Seq(Plain)
  BY <1>2 DEF Turn
<1>4. OllamaSetupStatus \in Seq(Plain) /\ Sessions \in Seq(Plain)
  BY DEF OllamaSetupStatus, Sessions
<1>5. StartOllama \in Seq(Plain)
  <2> DEFINE attempts == [i \in 1 .. Attempts |-> "attempt"]
  <2>1. attempts \in Seq(Plain) /\ LogLine \in Seq(Plain)
    BY DEF LogLine
  <2>2. StartOllama = Outside \o Locked \o attempts \o LogLine
    BY DEF StartOllama
  <2> HIDE DEF attempts
  <2> QED  BY <2>1, <2>2
<1>6. Sessions \o OllamaSetupStatus \in Seq(Plain)
  BY <1>4
<1> QED  BY <1>2, <1>3, <1>4, <1>5, <1>6, MergedTyped DEF ScreenStarts

\* Every route is of plain steps, save the one that keeps mutex_ over a call.
LEMMA RoutesPlain ==
    \A route \in Routes : route \in Seq(Plain) \/ route = OllamaStatus
<1> USE PlainParts
<1>1. /\ LogLine \in Seq(Plain) /\ Status \in Seq(Plain) /\ Logs \in Seq(Plain)
      /\ SelfStatus \in Seq(Plain) /\ Tasks \in Seq(Plain)
      /\ FindApplications \in Seq(Plain) /\ ProcessStatus \in Seq(Plain)
      /\ InstallOllama \in Seq(Plain) /\ KnownLocations \in Seq(Plain)
      /\ AiChat \in Seq(Plain) /\ ConnectorStatus \in Seq(Plain)
  BY DEF LogLine, Status, Logs, SelfStatus, Tasks, FindApplications, ProcessStatus,
         InstallOllama, KnownLocations, AiChat, ConnectorStatus
<1>2. /\ ReadFile \in Seq(Plain) /\ RecordFix \in Seq(Plain)
      /\ RememberLocation \in Seq(Plain) /\ StopConnector \in Seq(Plain)
      /\ CallConnector \in Seq(Plain)
  BY <1>1 DEF ReadFile, RecordFix, RememberLocation, StopConnector, CallConnector
<1> QED  BY <1>1, <1>2, RunCommandPlain, TurnPlain
       DEF Routes, HostRoutes, AgentRoutes

\* What the setup status leads to.
LEMMA ChatTurnPlain ==
    ASSUME NEW installed \in BOOLEAN, NEW online \in BOOLEAN, NEW pulled \in BOOLEAN,
           NEW then \in ChatTurnThen(SetupState(installed, online, pulled))
    PROVE  then \in Seq(Plain)
<1> USE PlainParts
<1> DEFINE state == SetupState(installed, online, pulled)
<1>1. state \in {"needs install", "needs start", "needs model", "ready"}
  BY DEF SetupState
<1> HIDE DEF state
<1>2. InstallOllama \in Seq(Plain)
  BY DEF InstallOllama
<1>3. ModelChoice \subseteq Seq(Plain)
  BY RunCommandPlain DEF ModelChoice
<1>4. ChatTurnThen(state) \subseteq Seq(Plain)
  BY <1>1, <1>2, <1>3, TurnPlain DEF ChatTurnThen
<1> QED  BY <1>4 DEF state

\* What a tick runs.
LEMMA TickPlain == \A tasks \in TickTasks : Watchdog \o tasks \in Seq(Plain)
<1> USE PlainParts
<1>1. CallConnector \in Seq(Plain)
  BY DEF CallConnector, LogLine
<1>2. /\ Locked \o RunCommand \o Locked \in Seq(Plain)
      /\ Locked \o CallConnector \o Locked \in Seq(Plain)
  BY <1>1, RunCommandPlain
<1>3. TickTasks \subseteq Seq(Plain)
  BY <1>2, MergedTyped DEF TickTasks
<1>4. Watchdog \in Seq(Plain)
  <2>1. <<"block", "probe">> \in Seq(Plain) /\ <<>> \in Seq(Plain)
    BY DEF Plain
  <2> QED  BY <2>1 DEF Watchdog
<1> QED  BY <1>3, <1>4

\* The status request keeps mutex_ over its call.
LEMMA StatusShape ==
    /\ \A s \in PollerRounds : Shape(s) /\ ~Inside(s) /\ ~Has(s, "bind")
    /\ LET s == OllamaStatus \o <<"reply", "tick">>
       IN  Shape(s) /\ ~Inside(s) /\ ~Has(s, "bind")
<1> DEFINE s == <<"lock", "call", "unlock">>
           a == <<"reply", "tick">>
           t == s \o a
<1>1. /\ s \in Seq(Steps) /\ DOMAIN s = 1 .. 3 /\ Len(s) = 3
      /\ s[1] = "lock" /\ s[2] = "call" /\ s[3] = "unlock"
      /\ a \in Seq(Steps) /\ Len(a) = 2 /\ a[1] = "reply" /\ a[2] = "tick"
  BY DEF Steps
<1>2. OllamaStatus = s
  BY DEF OllamaStatus
<1> HIDE DEF s, a
<1>3. Shape(s) /\ ~Inside(s) /\ ~Has(s, "bind")
  <2>1. Shape(s)
    BY <1>1 DEF Shape, Choosing
  <2> QED  BY <1>1, <2>1 DEF Inside, Has
<1>4. /\ Shape(<<"call">> \o s) /\ ~Inside(<<"call">> \o s)
      /\ ~Has(<<"call">> \o s, "bind")
  BY <1>3, FrontShape
<1>5. t = s \o a
  OBVIOUS
<1> HIDE DEF t
<1>6. /\ t \in Seq(Steps) /\ Len(t) = Len(s) + Len(a) /\ DOMAIN t = 1 .. Len(t)
      /\ \A i \in 1 .. Len(s) + Len(a) :
            t[i] = IF i <= Len(s) THEN s[i] ELSE a[i - Len(s)]
  <2>1. s \in Seq(Steps) /\ a \in Seq(Steps)
    BY <1>1
  <2>2. t \in Seq(Steps) /\ Len(t) = Len(s) + Len(a) /\ DOMAIN t = 1 .. Len(t)
    BY <1>5, <2>1
  <2>3. \A i \in 1 .. Len(s) + Len(a) :
           t[i] = IF i <= Len(s) THEN s[i] ELSE a[i - Len(s)]
    BY <1>5, <2>1
  <2> QED  BY <2>2, <2>3
<1>7. /\ t[1] = "lock" /\ t[2] = "call" /\ t[3] = "unlock" /\ t[4] = "reply"
      /\ t[5] = "tick"
  BY <1>1, <1>6
<1>8. Shape(t)
  BY <1>1, <1>6, <1>7 DEF Shape, Choosing
<1>9. ~Inside(t) /\ ~Has(t, "bind")
  BY <1>1, <1>6, <1>7 DEF Inside, Has
<1> QED  BY <1>2, <1>3, <1>4, <1>8, <1>9 DEF PollerRounds, a, t

\* Start-up keeps it while it opens the database.
LEMMA StartShape ==
    LET s == <<"lock", "open", "unlock", "block", "bind">>
    IN  Shape(s) /\ ~Inside(s)
<1> DEFINE s == <<"lock", "open", "unlock", "block", "bind">>
<1>1. s \in Seq(Steps) /\ DOMAIN s = 1 .. 5 /\ Len(s) = 5
  BY DEF Steps
<1>2. s[1] = "lock" /\ s[2] = "open" /\ s[3] = "unlock" /\ s[4] = "block" /\ s[5] = "bind"
  OBVIOUS
<1> HIDE DEF s
<1>3. Shape(s)
  BY <1>1, <1>2 DEF Shape, Choosing
<1>4. ~Inside(s)
  BY <1>1, <1>2 DEF Inside, Has
<1> QED  BY <1>3, <1>4 DEF s

\* Nothing to do, the server's request, and the worker's message.
LEMMA RequestShape ==
    \A s \in {<<>>, <<"read", "tick">>, <<"tick">>, ChatTurn} :
        Shape(s) /\ ~Inside(s) /\ ~Has(s, "bind")
<1>1. Shape(<<>>) /\ ~Inside(<<>>) /\ ~Has(<<>>, "bind")
  BY DEF Shape, Inside, Has
<1>2. ASSUME NEW s, s = <<"read", "tick">>
      PROVE  Shape(s) /\ ~Inside(s) /\ ~Has(s, "bind")
  <2>1. /\ s \in Seq(Steps) /\ DOMAIN s = 1 .. 2 /\ Len(s) = 2
        /\ s[1] = "read" /\ s[2] = "tick"
    BY <1>2 DEF Steps
  <2>2. Shape(s)
    BY <2>1 DEF Shape, Choosing
  <2> QED  BY <2>1, <2>2 DEF Inside, Has
<1>3. Shape(<<"tick">>) /\ ~Inside(<<"tick">>) /\ ~Has(<<"tick">>, "bind")
  BY DEF Shape, Inside, Has, Steps, Choosing
<1>4. ChatTurn = <<"block">> \o <<"setup">>
  BY DEF ChatTurn, Outside, Locked
<1>5. Shape(<<"read", "tick">>) /\ ~Inside(<<"read", "tick">>) /\ ~Has(<<"read", "tick">>, "bind")
  BY <1>2
<1>6. Shape(ChatTurn) /\ ~Inside(ChatTurn) /\ ~Has(ChatTurn, "bind")
  <2>1. Shape(<<"setup">>) /\ ~Inside(<<"setup">>) /\ ~Has(<<"setup">>, "bind")
    BY DEF Shape, Inside, Has, Steps, Choosing
  <2> QED  BY <1>4, <2>1, FrontShape
<1> QED  BY <1>1, <1>3, <1>5, <1>6

-----------------------------------------------------------------------------
(* The invariant                                                           *)

\* When a thread runs: main until the screen is closed, worker and poller while it
\* is up and until they are joined, the server until the end.
MayRun(t) ==
    CASE t = "main" -> stage \in {"starting", "opening", "up"}
      [] t = "server" -> stage \in {"opening", "up", "leaving", "stopping"}
      [] OTHER -> stage \in {"up", "leaving"}

Typed ==
    /\ peer \in Peers
    /\ stage \in {"down", "starting", "opening", "up", "leaving", "stopping"}
    /\ mutex \in Threads \cup {Nobody}
    /\ todo \in [Threads -> Seq(Steps)]
    /\ due \in BOOLEAN /\ reachable \in BOOLEAN /\ logged \in BOOLEAN

\* mutex_ is held by the thread that is inside, and by nobody if none is.
HolderInside == \A t \in Threads : mutex = t <=> Inside(todo[t])

InStage ==
    \A t \in Threads :
        /\ Shape(todo[t])
        /\ todo[t] # <<>> => MayRun(t)
        /\ Has(todo[t], "bind") => t = "main" /\ stage = "starting"

ServiceInv == Typed /\ HolderInside /\ InStage

\* A step of one thread keeps the invariant if what is left has the shape, and
\* mutex_ goes with who is inside.
LEMMA GotoKeeps ==
    ASSUME ServiceInv, NEW t \in Threads, NEW rest, Shape(rest), Goto(t, rest),
           UNCHANGED <<peer, stage>>, MayRun(t),
           due' \in BOOLEAN, reachable' \in BOOLEAN, logged' \in BOOLEAN,
           Has(rest, "bind") => Has(todo[t], "bind"),
           \/ UNCHANGED mutex /\ (Inside(rest) <=> Inside(todo[t]))
           \/ mutex = Nobody /\ mutex' = t /\ Inside(rest)
           \/ Inside(todo[t]) /\ mutex' = Nobody /\ ~Inside(rest)
    PROVE  ServiceInv'
<1> USE DEF ServiceInv
<1>0. /\ rest \in Seq(Steps) /\ todo \in [Threads -> Seq(Steps)] /\ Nobody \notin Threads
      /\ mutex \in Threads \cup {Nobody}
  BY ServiceAssumption DEF Shape, Typed
<1>1. /\ todo' = [todo EXCEPT ![t] = rest] /\ todo'[t] = rest
      /\ \A u \in Threads : u # t => todo'[u] = todo[u]
  BY <1>0 DEF Goto
<1>2. Typed'
  BY <1>0, <1>1 DEF Typed
<1>3. HolderInside'
  BY <1>0, <1>1 DEF HolderInside
<1>4. InStage'
  <2> SUFFICES ASSUME NEW u \in Threads
               PROVE  /\ Shape(todo'[u])
                      /\ todo'[u] # <<>> => MayRun(u)
                      /\ Has(todo'[u], "bind") => u = "main" /\ stage = "starting"
    BY DEF InStage, MayRun
  <2>1. CASE u = t
    BY <1>1, <2>1 DEF InStage
  <2>2. CASE u # t
    BY <1>1, <2>2 DEF InStage
  <2> QED  BY <2>1, <2>2
<1> QED  BY <1>2, <1>3, <1>4

\* What the next step of a thread says of where it is.
LEMMA AtStep ==
    ASSUME ServiceInv, NEW t \in Threads, NEW s, At(t, s)
    PROVE  /\ MayRun(t) /\ Shape(todo[t]) /\ todo[t] # <<>> /\ Head(todo[t]) = s
           /\ Shape(Tail(todo[t]))
           /\ Has(Tail(todo[t]), "bind") => Has(todo[t], "bind")
           /\ s \notin {"lock", "unlock"} => (Inside(Tail(todo[t])) <=> Inside(todo[t]))
           /\ s = "lock" => Inside(Tail(todo[t]))
           /\ s = "unlock" => Inside(todo[t]) /\ ~Inside(Tail(todo[t]))
           /\ s \in Choosing => ~Inside(todo[t])
           /\ s = "bind" => Tail(todo[t]) = <<>>
<1>1. Shape(todo[t]) /\ todo[t] # <<>> /\ Head(todo[t]) = s /\ MayRun(t)
  BY DEF At, ServiceInv, InStage
<1> QED  BY <1>1, TailShape

\* A thread goes on with its next step, and neither took nor let go of mutex_.
LEMMA ContinueKeeps ==
    ASSUME ServiceInv, NEW t \in Threads, NEW s \in Steps \ {"lock", "unlock"}, At(t, s),
           Continue(t), UNCHANGED <<peer, stage, mutex>>,
           due' \in BOOLEAN, reachable' \in BOOLEAN, logged' \in BOOLEAN
    PROVE  ServiceInv'
BY AtStep, GotoKeeps DEF Continue

\* A thread that is outside, or where it chooses, goes on with something else.
LEMMA ChooseKeeps ==
    ASSUME ServiceInv, NEW t \in Threads, todo[t] = <<>> \/ \E s \in Choosing : At(t, s),
           MayRun(t), NEW rest, Goto(t, rest),
           Shape(rest), ~Inside(rest), ~Has(rest, "bind"),
           UNCHANGED <<peer, stage, mutex>>,
           due' \in BOOLEAN, reachable' \in BOOLEAN, logged' \in BOOLEAN
    PROVE  ServiceInv'
<1>1. ~Inside(todo[t])
  <2>1. CASE todo[t] = <<>>
    BY <2>1 DEF Inside, Has
  <2>2. CASE \E s \in Choosing : At(t, s)
    BY <2>2, AtStep
  <2> QED  BY <2>1, <2>2
<1> QED  BY <1>1, GotoKeeps

-----------------------------------------------------------------------------
(* The steps                                                               *)

\* A block, the lock of a longer one, and the blocks of the watchdog.
LEMMA AcquireKeeps ==
    ASSUME ServiceInv, NEW t \in Threads, Acquire(t)
    PROVE  ServiceInv'
<1>0. due \in BOOLEAN /\ reachable \in BOOLEAN /\ logged \in BOOLEAN
  BY DEF ServiceInv, Typed
<1>1. CASE Block(t)
  BY <1>0, <1>1, ContinueKeeps DEF Block, watchdogVars, Steps
<1>2. CASE Lock(t)
  BY <1>0, <1>2, AtStep, GotoKeeps DEF Lock, Continue, watchdogVars
<1>3. CASE t = "server" /\ Probe
  <2> DEFINE tail == Tail(todo["server"])
  <2>1. /\ t = "server" /\ At(t, "probe")
        /\ UNCHANGED <<peer, stage, mutex>>
        /\ due' \in BOOLEAN /\ reachable' \in BOOLEAN /\ logged' \in BOOLEAN
    BY <1>0, <1>3 DEF Probe, TransportOk
  <2>2. /\ MayRun(t) /\ Shape(tail) /\ (Inside(tail) <=> Inside(todo[t]))
        /\ Has(tail, "bind") => Has(todo[t], "bind")
    BY <2>1, AtStep
  <2>3. /\ Shape(<<"log">> \o tail) /\ (Inside(<<"log">> \o tail) <=> Inside(tail))
        /\ Has(<<"log">> \o tail, "bind") => Has(tail, "bind")
    BY <2>2, FrontShape
  <2>4. Goto(t, tail) \/ Goto(t, <<"log">> \o tail)
    BY <1>3 DEF Probe
  <2> HIDE DEF tail
  <2>5. CASE Goto(t, tail)
    BY <2>1, <2>2, <2>5, GotoKeeps
  <2>6. CASE Goto(t, <<"log">> \o tail)
    BY <2>1, <2>2, <2>3, <2>6, GotoKeeps
  <2> QED  BY <2>4, <2>5, <2>6
<1>4. CASE t = "server" /\ LogTransition
  BY <1>0, <1>4, ContinueKeeps DEF LogTransition, Steps
<1> QED  BY <1>1, <1>2, <1>3, <1>4 DEF Acquire

\* The attempts that are left are no locks.
LEMMA PassAttemptsKeeps ==
    ASSUME ServiceInv, NEW t \in Threads, At(t, "attempt"), PassAttempts(t),
           UNCHANGED <<peer, stage, mutex, watchdogVars>>
    PROVE  ServiceInv'
<1>0. /\ Shape(todo[t]) /\ MayRun(t)
      /\ due \in BOOLEAN /\ reachable \in BOOLEAN /\ logged \in BOOLEAN
  BY AtStep DEF ServiceInv, Typed
<1>1. PICK n \in DOMAIN todo[t] :
          /\ \A i \in 1 .. n - 1 : todo[t][i] = "attempt"
          /\ Goto(t, SubSeq(todo[t], n, Len(todo[t])))
  BY DEF PassAttempts
<1> DEFINE s == todo[t]
           r == SubSeq(s, n, Len(s))
<1>2. /\ s \in Seq(Steps) /\ Len(s) \in Nat /\ n \in 1 .. Len(s)
  BY <1>0 DEF Shape
<1> HIDE DEF s
<1>3. /\ r \in Seq(Steps) /\ Len(r) = Len(s) - (n - 1)
      /\ \A i \in 1 .. Len(r) : r[i] = s[i + (n - 1)]
  BY <1>2
<1> HIDE DEF r
<1>4. n - 1 \in Nat /\ n - 1 <= Len(s) /\ Shape(s)
  BY <1>0, <1>2 DEF s
<1>5. \A i \in 1 .. n - 1 : s[i] \notin {"lock", "unlock"}
  BY <1>1 DEF s
<1>6. Shape(r) /\ (Inside(r) <=> Inside(s)) /\ (Has(r, "bind") => Has(s, "bind"))
  BY <1>3, <1>4, <1>5, LaterShape
<1>7. Goto(t, r)
  BY <1>1 DEF r, s
<1> QED  BY <1>0, <1>6, <1>7, GotoKeeps DEF s, watchdogVars

\* main starts the program, or binds the server's port.
LEMMA MainKeeps ==
    ASSUME ServiceInv, \A u \in Threads : u # "main" => todo[u] = <<>>,
           ~Inside(todo["main"]), NEW rest, Goto("main", rest), Shape(rest), ~Inside(rest),
           stage' \in {"down", "starting", "opening", "up", "leaving", "stopping"},
           rest # <<>> => MayRun("main")', Has(rest, "bind") => stage' = "starting",
           UNCHANGED <<peer, mutex, watchdogVars>>
    PROVE  ServiceInv'
<1>0. /\ rest \in Seq(Steps) /\ todo \in [Threads -> Seq(Steps)] /\ "main" \in Threads
      /\ Nobody \notin Threads
  BY ServiceAssumption DEF Shape, ServiceInv, Typed, Threads
<1>1. /\ todo' = [todo EXCEPT !["main"] = rest] /\ todo'["main"] = rest
      /\ \A u \in Threads : u # "main" => todo'[u] = todo[u] /\ todo'[u] = <<>>
  BY <1>0 DEF Goto
<1>2. Typed'
  BY <1>0, <1>1 DEF ServiceInv, Typed, watchdogVars
<1>3. HolderInside'
  BY <1>0, <1>1 DEF ServiceInv, HolderInside
<1>4. InStage'
  <2>1. Shape(<<>>) /\ ~Inside(<<>>) /\ ~Has(<<>>, "bind")
    BY RequestShape
  <2> QED  BY <1>0, <1>1, <2>1 DEF InStage
<1> QED  BY <1>2, <1>3, <1>4 DEF ServiceInv

\* The other steps of a thread.
LEMMA StepKeeps ==
    ASSUME ServiceInv, NEW t \in Threads, Step(t)
    PROVE  ServiceInv'
<1>0. due \in BOOLEAN /\ reachable \in BOOLEAN /\ logged \in BOOLEAN
  BY DEF ServiceInv, Typed
<1>1. CASE Unlock(t)
  BY <1>0, <1>1, AtStep, GotoKeeps DEF Unlock, Continue, watchdogVars
<1>2. CASE Call(t)
  BY <1>0, <1>2, ContinueKeeps DEF Call, watchdogVars, Steps
<1>3. CASE Attempt(t)
  <2>1. CASE PassAttempts(t)
    BY <1>3, <2>1, PassAttemptsKeeps DEF Attempt
  <2>2. CASE Continue(t)
    BY <1>0, <1>3, <2>2, ContinueKeeps DEF Attempt, watchdogVars, Steps
  <2> QED  BY <1>3, <2>1, <2>2 DEF Attempt
<1>4. CASE Setup(t)
  <2>1. PICK installed \in BOOLEAN, pulled \in BOOLEAN :
          \E then \in ChatTurnThen(SetupState(installed, TransportOk, pulled)) : Goto(t, then)
    BY <1>4 DEF Setup
  <2>2. PICK then \in ChatTurnThen(SetupState(installed, TransportOk, pulled)) : Goto(t, then)
    BY <2>1
  <2>3. then \in Seq(Plain)
    <3>1. TransportOk \in BOOLEAN
      BY DEF TransportOk
    <3> QED  BY <2>2, <3>1, ChatTurnPlain
  <2>4. Shape(then) /\ ~Inside(then) /\ ~Has(then, "bind")
    BY <2>3, PlainShape
  <2>5. At(t, "setup") /\ MayRun(t) /\ \E s \in Choosing : At(t, s)
    BY <1>4, AtStep DEF Setup, Choosing
  <2> QED  BY <1>0, <1>4, <2>2, <2>4, <2>5, ChooseKeeps DEF Setup, watchdogVars
<1>5. CASE t = "main" /\ Open
  <2> DEFINE tail == Tail(todo["main"])
  <2>1. /\ t = "main" /\ At(t, "open") /\ UNCHANGED <<peer, stage, mutex>>
        /\ due' \in BOOLEAN /\ reachable' \in BOOLEAN /\ logged' \in BOOLEAN
        /\ Continue(t) \/ Goto(t, <<"block">> \o tail)
    BY <1>5 DEF Open
  <2>2. /\ MayRun(t) /\ Shape(tail) /\ (Inside(tail) <=> Inside(todo[t]))
        /\ Has(tail, "bind") => Has(todo[t], "bind")
    BY <2>1, AtStep
  <2>3. /\ Shape(<<"block">> \o tail) /\ (Inside(<<"block">> \o tail) <=> Inside(tail))
        /\ Has(<<"block">> \o tail, "bind") => Has(tail, "bind")
    BY <2>2, FrontShape
  <2> HIDE DEF tail
  <2>4. CASE Continue(t)
    BY <2>1, <2>4, ContinueKeeps DEF Steps
  <2>5. CASE Goto(t, <<"block">> \o tail)
    BY <2>1, <2>2, <2>3, <2>5, GotoKeeps
  <2> QED  BY <2>1, <2>4, <2>5
<1>6. CASE t = "main" /\ Bind
  <2>1. /\ At(t, "bind") /\ t = "main" /\ UNCHANGED <<mutex, watchdogVars, peer>>
    BY <1>6 DEF Bind
  <2>2. /\ todo[t] # <<>> /\ Head(todo[t]) = "bind" /\ Shape(todo[t])
        /\ ~Inside(todo[t]) /\ Tail(todo[t]) = <<>>
    BY <2>1, AtStep DEF Choosing
  <2>3. stage = "starting"
    <3>1. 1 \in DOMAIN todo[t] /\ todo[t][1] = "bind"
      BY <2>2 DEF Shape
    <3> QED  BY <3>1 DEF ServiceInv, InStage, Has
  <2>4. \A u \in Threads : u # "main" => todo[u] = <<>>
    BY <2>3 DEF ServiceInv, InStage, MayRun, Threads
  <2>5. /\ Shape(ScreenStarts) /\ ~Inside(ScreenStarts) /\ ~Has(ScreenStarts, "bind")
    BY TurnPlain, PlainShape
  <2>6. Shape(<<>>) /\ ~Inside(<<>>) /\ ~Has(<<>>, "bind")
    BY RequestShape
  <2>7. CASE stage' = "opening" /\ Goto("main", ScreenStarts)
    <3>1. MayRun("main")'
      BY <2>7 DEF MayRun
    <3> QED  BY <2>1, <2>2, <2>4, <2>5, <2>7, <3>1, MainKeeps
  <2>8. CASE stage' = "down" /\ Continue("main")
    <3>1. Goto("main", <<>>)
      BY <2>1, <2>2, <2>8 DEF Continue
    <3> QED  BY <2>1, <2>2, <2>4, <2>6, <2>8, <3>1, MainKeeps
  <2> QED  BY <1>6, <2>7, <2>8 DEF Bind
<1>7. CASE t = "server" /\ Tick
  <2>1. /\ t = "server" /\ At(t, "tick") /\ UNCHANGED <<peer, stage, mutex>>
        /\ due' \in BOOLEAN /\ reachable' \in BOOLEAN /\ logged' \in BOOLEAN
    BY <1>0, <1>7, ServiceAssumption DEF Tick
  <2>2. PICK tasks \in TickTasks : Goto(t, Watchdog \o tasks)
    BY <1>7 DEF Tick
  <2> DEFINE rest == Watchdog \o tasks
  <2>3. rest \in Seq(Plain)
    BY TickPlain
  <2> HIDE DEF rest
  <2>4. Shape(rest) /\ ~Inside(rest) /\ ~Has(rest, "bind")
    BY <2>3, PlainShape
  <2>5. MayRun(t) /\ (\E s \in Choosing : At(t, s))
    BY <2>1, AtStep DEF Choosing
  <2>6. Goto(t, rest)
    BY <2>2 DEF rest
  <2> QED  BY <2>1, <2>4, <2>5, <2>6, ChooseKeeps
<1> QED  BY <1>1, <1>2, <1>3, <1>4, <1>5, <1>6, <1>7 DEF Step

\* The threads stay where they are.
LEMMA StayKeeps ==
    ASSUME ServiceInv, UNCHANGED <<mutex, todo>>, peer' \in Peers,
           stage' \in {"down", "starting", "opening", "up", "leaving", "stopping"},
           due' \in BOOLEAN, reachable' \in BOOLEAN, logged' \in BOOLEAN,
           \A t \in Threads : todo[t] # <<>> => MayRun(t)',
           stage = "starting" => stage' = "starting"
    PROVE  ServiceInv'
<1>1. Typed' /\ HolderInside'
  BY DEF ServiceInv, Typed, HolderInside
<1>2. InStage'
  BY DEF ServiceInv, InStage
<1> QED  BY <1>1, <1>2 DEF ServiceInv

\* The program starts and ends, the server takes requests, the user and the clock
\* move.
LEMMA OthersKeep ==
    ASSUME ServiceInv,
           \/ Start \/ ScreenOpens \/ Quit \/ Join \/ Crash \/ Poll \/ ReadRequest \/ Reply
           \/ ClockReaches \/ Ask \/ Refresh
           \/ PeerChanges /\ UNCHANGED <<stage, mutex, todo, watchdogVars>>
    PROVE  ServiceInv'
<1>0. /\ due \in BOOLEAN /\ reachable \in BOOLEAN /\ logged \in BOOLEAN /\ peer \in Peers
      /\ stage \in {"down", "starting", "opening", "up", "leaving", "stopping"}
      /\ todo \in [Threads -> Seq(Steps)]
  BY DEF ServiceInv, Typed
<1>a. \A t \in Threads : todo[t] # <<>> => MayRun(t)
  BY DEF ServiceInv, InStage
<1>b. /\ "main" \in Threads /\ "server" \in Threads /\ "worker" \in Threads
      /\ "poller" \in Threads
  BY DEF Threads
<1>1. CASE Start
  <2>1. \A t \in Threads : todo[t] = <<>>
    BY <1>1, <1>a DEF Start, MayRun
  <2>2. ~Inside(todo["main"])
    BY <1>b, <2>1, RequestShape
  <2>3. MayRun("main")'
    BY <1>1 DEF Start, MayRun
  <2> QED  BY <1>1, <2>1, <2>2, <2>3, StartShape, MainKeeps DEF Start, watchdogVars
<1>2. CASE ScreenOpens
  <2>1. \A t \in Threads : todo[t] # <<>> => MayRun(t)'
    BY <1>2, <1>a DEF ScreenOpens, MayRun
  <2> QED  BY <1>0, <1>2, <2>1, StayKeeps DEF ScreenOpens, watchdogVars
<1>3. CASE Quit
  <2>1. \A t \in Threads : todo[t] # <<>> => MayRun(t)'
    BY <1>3, <1>a DEF Quit, MayRun
  <2> QED  BY <1>0, <1>3, <2>1, StayKeeps DEF Quit, watchdogVars
<1>4. CASE Join
  <2>1. \A t \in Threads : todo[t] # <<>> => MayRun(t)'
    BY <1>4, <1>a DEF Join, MayRun, Threads
  <2> QED  BY <1>0, <1>4, <2>1, StayKeeps DEF Join, watchdogVars
<1>5. CASE Crash
  <2>1. \A t \in Threads : todo'[t] = <<>>
    BY <1>5 DEF Crash
  <2>2. <<>> \in Seq(Steps) /\ Shape(<<>>) /\ ~Inside(<<>>) /\ ~Has(<<>>, "bind")
    BY RequestShape
  <2>3. todo' \in [Threads -> Seq(Steps)]
    BY <1>5, <2>2 DEF Crash
  <2>4. Typed'
    BY <1>0, <1>5, <2>3 DEF Crash, Typed, watchdogVars
  <2>5. HolderInside' /\ InStage'
    BY <1>5, <2>1, <2>2, ServiceAssumption DEF Crash, HolderInside, InStage
  <2> QED  BY <2>4, <2>5 DEF ServiceInv
<1>6. CASE Poll
  <2>1. todo["server"] = <<>> /\ MayRun("server") /\ UNCHANGED <<peer, stage, mutex>>
        /\ due' \in BOOLEAN /\ reachable' \in BOOLEAN /\ logged' \in BOOLEAN
    BY <1>0, <1>6 DEF Poll, MayRun, watchdogVars
  <2>2. PICK rest \in {<<"read", "tick">>, <<"tick">>} : Goto("server", rest)
    BY <1>6 DEF Poll
  <2>3. Shape(rest) /\ ~Inside(rest) /\ ~Has(rest, "bind")
    BY RequestShape
  <2> QED  BY <1>b, <2>1, <2>2, <2>3, ChooseKeeps
<1>7. CASE ReadRequest
  <2>1. /\ At("server", "read") /\ UNCHANGED <<peer, stage, mutex>>
        /\ due' \in BOOLEAN /\ reachable' \in BOOLEAN /\ logged' \in BOOLEAN
    BY <1>0, <1>7 DEF ReadRequest, Dispatch, watchdogVars
  <2>2. CASE Continue("server")
    BY <1>b, <2>1, <2>2, ContinueKeeps DEF Steps
  <2>3. ASSUME NEW route \in Routes, Goto("server", route \o <<"reply", "tick">>)
        PROVE  ServiceInv'
    <3> DEFINE rest == route \o <<"reply", "tick">>
    <3>1. Shape(rest) /\ ~Inside(rest) /\ ~Has(rest, "bind")
      <4>1. CASE route \in Seq(Plain)
        BY <4>1, PlainShape
      <4>2. CASE route = OllamaStatus
        BY <4>2, StatusShape
      <4> QED  BY <4>1, <4>2, RoutesPlain
    <3>2. Goto("server", rest)
      BY <2>3
    <3> HIDE DEF rest
    <3>3. MayRun("server") /\ \E s \in Choosing : At("server", s)
      BY <1>b, <2>1, AtStep DEF Choosing
    <3> QED  BY <1>b, <2>1, <3>1, <3>2, <3>3, ChooseKeeps
  <2> QED  BY <1>7, <2>2, <2>3 DEF ReadRequest, Dispatch
<1>8. CASE Reply
  BY <1>0, <1>8, <1>b, ContinueKeeps DEF Reply, watchdogVars, Steps
<1>9. CASE ClockReaches
  <2>1. \A t \in Threads : todo[t] # <<>> => MayRun(t)'
    BY <1>9, <1>a DEF ClockReaches, MayRun
  <2> QED  BY <1>0, <1>9, <2>1, StayKeeps DEF ClockReaches
<1>10. CASE Ask
  <2>1. /\ stage = "up" /\ todo["main"] = <<>> /\ UNCHANGED <<peer, stage, mutex>>
        /\ due' \in BOOLEAN /\ reachable' \in BOOLEAN /\ logged' \in BOOLEAN
        /\ MayRun("main") /\ MayRun("worker")
    BY <1>0, <1>10 DEF Ask, MayRun, watchdogVars
  <2>2. ASSUME NEW asked \in ScreenCalls, Goto("main", asked)
        PROVE  ServiceInv'
    <3>1. asked \in Seq(Plain)
      BY PlainParts, TurnPlain DEF ScreenCalls
    <3>2. Shape(asked) /\ ~Inside(asked) /\ ~Has(asked, "bind")
      BY <3>1, PlainShape
    <3> QED  BY <1>b, <2>1, <2>2, <3>2, ChooseKeeps
  <2>3. ASSUME todo["worker"] = <<>>, NEW asked \in {ChatTurn, Decision},
               Goto("worker", asked)
        PROVE  ServiceInv'
    <3>1. Shape(asked) /\ ~Inside(asked) /\ ~Has(asked, "bind")
      BY RequestShape, TurnPlain, PlainShape
    <3> QED  BY <1>b, <2>1, <2>3, <3>1, ChooseKeeps
  <2> QED  BY <1>10, <2>2, <2>3 DEF Ask
<1>11. CASE Refresh
  <2>1. /\ todo["poller"] = <<>> /\ UNCHANGED <<peer, stage, mutex>>
        /\ due' \in BOOLEAN /\ reachable' \in BOOLEAN /\ logged' \in BOOLEAN
        /\ MayRun("poller")
    BY <1>0, <1>11 DEF Refresh, MayRun, watchdogVars
  <2>2. PICK round \in PollerRounds : Goto("poller", round)
    BY <1>11 DEF Refresh
  <2>3. Shape(round) /\ ~Inside(round) /\ ~Has(round, "bind")
    BY StatusShape
  <2> QED  BY <1>b, <2>1, <2>2, <2>3, ChooseKeeps
<1>12. CASE PeerChanges /\ UNCHANGED <<stage, mutex, todo, watchdogVars>>
  <2>1. \A t \in Threads : todo[t] # <<>> => MayRun(t)'
    BY <1>12, <1>a DEF MayRun
  <2> QED  BY <1>0, <1>12, <2>1, StayKeeps DEF PeerChanges, watchdogVars
<1> QED  BY <1>1, <1>2, <1>3, <1>4, <1>5, <1>6, <1>7, <1>8, <1>9, <1>10, <1>11, <1>12

\* Nothing runs at first.
LEMMA ServiceInit == Init => ServiceInv
<1> SUFFICES ASSUME Init PROVE ServiceInv
  OBVIOUS
<1>1. Shape(<<>>) /\ ~Inside(<<>>) /\ ~Has(<<>>, "bind")
  BY RequestShape
<1>2. Typed
  BY DEF Init, Typed
<1>3. HolderInside /\ InStage
  BY <1>1, ServiceAssumption DEF Init, HolderInside, InStage
<1> QED  BY <1>2, <1>3 DEF ServiceInv

\* Every step keeps the invariant.
LEMMA ServiceStep == ServiceInv /\ [Next]_vars => ServiceInv'
<1> SUFFICES ASSUME ServiceInv, [Next]_vars PROVE ServiceInv'
  OBVIOUS
<1>1. ASSUME NEW t \in Threads, Acquire(t) \/ Step(t)
      PROVE  ServiceInv'
  BY <1>1, AcquireKeeps, StepKeeps
<1>2. CASE UNCHANGED vars
  <2>1. \A t \in Threads : todo[t] # <<>> => MayRun(t)'
    BY <1>2 DEF ServiceInv, InStage, MayRun, vars
  <2> QED  BY <1>2, <2>1, StayKeeps DEF vars, watchdogVars, ServiceInv, Typed
<1> QED  BY <1>1, <1>2, OthersKeep DEF Next

\* The invariant holds throughout.
LEMMA ServiceAlways == Spec => []ServiceInv
<1> QED  BY ServiceInit, ServiceStep, PTL DEF Spec

-----------------------------------------------------------------------------
(* Theorems                                                                *)

\* mutex_ is held only by a thread that has still something to do under it and is
\* free once the host is down, and only main runs while the host starts, for any
\* behaviour of the peer and any number of attempts (initialize, agent_turn, tick,
\* run_tui and main's joins).
THEOREM TypeCorrect == Spec => []TypeOK
<1>1. ServiceInv => TypeOK
  <2> SUFFICES ASSUME ServiceInv PROVE TypeOK
    OBVIOUS
  <2>1. \A t \in Threads : stage = "down" \/ (t # "main" /\ stage = "starting")
                            => todo[t] = <<>>
    BY DEF ServiceInv, InStage, MayRun, Threads
  <2>2. mutex # Nobody => todo[mutex] # <<>>
    BY DEF ServiceInv, Typed, HolderInside, Inside, Has
  <2> QED  BY <2>1, <2>2 DEF ServiceInv, Typed, TypeOK
<1> QED  BY <1>1, ServiceAlways, PTL

\* No two threads are between taking mutex_ and letting go of it, and the one that
\* is holds it: what a status request or start-up does under the mutex, no crash,
\* join or change of the peer hands to another.
OneInside ==
    \A t, u \in Threads : Inside(todo[t]) /\ Inside(todo[u]) => t = u /\ mutex = t

\* mutex_ excludes: at most one thread is inside, and it is the holder (every
\* std::lock_guard on mutex_ that awaits something).
THEOREM MutexExcludes == Spec => []OneInside
<1>1. ServiceInv => OneInside
  BY DEF ServiceInv, HolderInside, OneInside
<1> QED  BY <1>1, ServiceAlways, PTL
=============================================================================
