-------------------------- MODULE ConfigLoadProofs --------------------------
(***************************************************************************)
(* Theorems about ConfigLoad, for every family of files on disk, every       *)
(* environment, every selection, and every file system that a command can    *)
(* find itself in.                                                          *)
(*                                                                         *)
(* A load is a sequence of function calls, and its invariant (Loading) says  *)
(* that each has left behind what its function returns.  What the functions  *)
(* return is then a matter of the loops in them.  A loop is a function from  *)
(* the number of its turns to its state: it exists because its turn is a     *)
(* function on a set of states (Iterates), and what every turn keeps holds   *)
(* behind the last (Induction).  So Kahn's algorithm schedules nobody before *)
(* a dependency, and leaves who waits for one another (Sorting); a stack     *)
(* that no finished service can be found behind closes a cycle (Searching);  *)
(* a walk over the includes without an error has come to each file of a tree *)
(* once (Walking); layers of environments leave what assignments in a row    *)
(* leave (LaysOut); what a plan collects is the smallest closed set; and two *)
(* commands of one project walk through the same candidates (SocketsMeet).   *)
(***************************************************************************)
EXTENDS ConfigLoad, FiniteSetTheorems, SequenceTheorems, WellFoundedInduction, TLAPS

-----------------------------------------------------------------------------
(* Numbers, iterations, sequences. *)

\* Every set of numbers has a least one.
LEMMA Least ==
  ASSUME NEW T \in SUBSET Nat, T # {}
  PROVE  \E n \in T : \A m \in T : n <= m
<1> DEFINE R == OpToRel(<, Nat)
<1>1. IsWellFoundedOn(R, Nat)
  BY NatLessThanWellFounded
<1>2. \A n, m \in Nat : n < m => <<n, m>> \in R
  BY DEF OpToRel
<1> HIDE DEF R
<1>3. PICK n \in T : \A m \in T : ~(<<m, n>> \in R)
  BY <1>1, WFMin
<1>4. ASSUME NEW m \in T
      PROVE  n <= m
  <2>1. m \in Nat /\ n \in Nat /\ ~(m < n)
    BY <1>2, <1>3
  <2> QED BY <2>1
<1> QED BY <1>4

\* What holds at zero and goes on from each number to the next holds up to the last.
LEMMA Induction ==
  ASSUME NEW N \in Nat, NEW T, 0 \in T, \A n \in 1..N : n - 1 \in T => n \in T
  PROVE  \A n \in 0..N : n \in T
<1> DEFINE Bad == {n \in 0..N : n \notin T}
<1> SUFFICES ASSUME Bad # {} PROVE FALSE
  OBVIOUS
<1>1. PICK n \in Bad : \A m \in Bad : n <= m
  <2>1. Bad \in SUBSET Nat
    OBVIOUS
  <2> HIDE DEF Bad
  <2> QED BY <2>1, Least
<1>2. n \in 1..N /\ n - 1 \in 0..N /\ ~(n <= n - 1)
  OBVIOUS
<1> QED BY <1>1, <1>2

\* The states that a loop of N turns goes through, from b on, by the turns g.
Runs(N, S, b, g, f) ==
  /\ f \in [0..N -> S] /\ f[0] = b
  /\ \A n \in 1..N : f[n] = g[<<n, f[n - 1]>>]

\* A loop of N turns runs: the function that it is written as exists.
LEMMA Iterates ==
  ASSUME NEW N \in Nat, NEW S, NEW b \in S, NEW g \in [(1..N) \X S -> S]
  PROVE  \E f : Runs(N, S, b, g, f)
<1> DEFINE T == {n \in 0..N : \E f \in [0..n -> S] :
                    f[0] = b /\ \A m \in 1..n : f[m] = g[<<m, f[m - 1]>>]}
<1>1. 0 \in T
  <2>1. [m \in 0..0 |-> b] \in [0..0 -> S] /\ [m \in 0..0 |-> b][0] = b
    OBVIOUS
  <2>2. 1..0 = {} /\ 0 \in 0..N
    OBVIOUS
  <2> QED BY <2>1, <2>2
<1>2. ASSUME NEW n \in 1..N, n - 1 \in T
      PROVE  n \in T
  <2>1. PICK f \in [0..(n - 1) -> S] :
               f[0] = b /\ \A m \in 1..(n - 1) : f[m] = g[<<m, f[m - 1]>>]
    BY <1>2
  <2>2. n - 1 \in 0..(n - 1) /\ f[n - 1] \in S
    BY <2>1
  <2> DEFINE last == g[<<n, f[n - 1]>>]
             h == [m \in 0..n |-> IF m = n THEN last ELSE f[m]]
  <2>3. last \in S
    BY <2>2
  <2> HIDE DEF last
  <2>4. h \in [0..n -> S] /\ h[0] = b
    BY <2>1, <2>3
  <2>5. \A m \in 1..n : h[m] = g[<<m, h[m - 1]>>]
    <3> TAKE m \in 1..n
    <3>1. CASE m = n
      <4>1. h[n] = last /\ h[n - 1] = f[n - 1]
        OBVIOUS
      <4> QED BY <3>1, <4>1 DEF last
    <3>2. CASE m # n
      <4>1. m \in 1..(n - 1) /\ h[m] = f[m] /\ h[m - 1] = f[m - 1]
        BY <3>2
      <4> QED BY <4>1, <2>1
    <3> QED BY <3>1, <3>2
  <2> HIDE DEF h
  <2> QED BY <2>4, <2>5
<1>3. N \in T
  <2> HIDE DEF T
  <2>1. \A n \in 0..N : n \in T
    BY <1>1, <1>2, Induction
  <2> QED BY <2>1
<1> QED BY <1>3 DEF Runs

-----------------------------------------------------------------------------
(* Paths. *)

NormalLoop(parts, f) ==
  [i \in 0..Len(parts) |-> IF i = 0 THEN <<>> ELSE Stepped(f[i - 1], parts[i])]

\* normalize leaves a path without `.' and `..' as it is.
LEMMA NormalizeKeeps ==
  ASSUME NEW T, NEW parts \in Seq(T), \A i \in DOMAIN parts : parts[i] \notin {".", ".."}
  PROVE  Normalize(parts) = parts
<1> DEFINE N == Len(parts)
           f == CHOOSE f : f = NormalLoop(parts, f)
           g == [i \in 0..N |-> SubSeq(parts, 1, i)]
<1>1. N \in Nat /\ DOMAIN parts = 1..N
  OBVIOUS
<1>2. \A i \in 1..N : SubSeq(parts, 1, i) = Append(SubSeq(parts, 1, i - 1), parts[i])
  <2> TAKE i \in 1..N
  <2>1. i - 1 \in Nat /\ i \in Nat /\ i <= N
    OBVIOUS
  <2> QED BY <2>1
<1>3. \A i \in 1..N : Stepped(SubSeq(parts, 1, i - 1), parts[i]) = SubSeq(parts, 1, i)
  BY <1>2, <1>1 DEF Stepped
<1>4. SubSeq(parts, 1, 0) = <<>> /\ SubSeq(parts, 1, N) = parts
  OBVIOUS
<1>5. g[0] = <<>> /\ g[N] = parts /\ \A i \in 1..N : g[i] = Stepped(g[i - 1], parts[i])
  <2>1. \A i \in 0..N : g[i] = SubSeq(parts, 1, i)
    OBVIOUS
  <2>2. \A i \in 1..N : i \in 0..N /\ i - 1 \in 0..N
    BY <1>1
  <2> HIDE DEF g
  <2>3. ASSUME NEW i \in 1..N
        PROVE  g[i] = Stepped(g[i - 1], parts[i])
    <3>1. g[i] = SubSeq(parts, 1, i) /\ g[i - 1] = SubSeq(parts, 1, i - 1)
      BY <2>1, <2>2
    <3> QED BY <1>3, <3>1
  <2>4. g[0] = <<>> /\ g[N] = parts
    BY <1>1, <1>4, <2>1
  <2> QED BY <2>3, <2>4
<1>51. g = NormalLoop(parts, g)
  <2>1. g = [i \in 0..N |-> g[i]]
    OBVIOUS
  <2> HIDE DEF g
  <2>2. \A i \in 0..N : g[i] = IF i = 0 THEN <<>> ELSE Stepped(g[i - 1], parts[i])
    BY <1>1, <1>5
  <2> QED BY <2>1, <2>2 DEF NormalLoop
<1>6. f = NormalLoop(parts, f)
  BY <1>51, Zenon
<1>7. Normalize(parts) = f[N]
  BY DEF Normalize, NormalLoop
<1> HIDE DEF f
<1>8. f[0] = <<>> /\ \A i \in 1..N : f[i] = Stepped(f[i - 1], parts[i])
  BY <1>1, <1>6 DEF NormalLoop
<1> HIDE DEF g
<1> DEFINE T0 == {i \in 0..N : f[i] = g[i]}
<1>9. \A i \in 0..N : i \in T0
  <2>1. 0 \in T0
    BY <1>1, <1>5, <1>8
  <2>2. \A i \in 1..N : i - 1 \in T0 => i \in T0
    <3> SUFFICES ASSUME NEW i \in 1..N, f[i - 1] = g[i - 1] PROVE f[i] = g[i]
      BY <1>1
    <3>1. f[i] = Stepped(f[i - 1], parts[i]) /\ g[i] = Stepped(g[i - 1], parts[i])
      BY <1>5, <1>8
    <3> QED BY <3>1
  <2> HIDE DEF T0
  <2> QED BY <1>1, <2>1, <2>2, Induction
<1>10. f[N] = g[N]
  BY <1>1, <1>9
<1> QED BY <1>5, <1>7, <1>10

\* What a project's directory is called, by whatever name a command reaches it.
Project(fs, here) ==
  fs.real[IF here.parent.absolute THEN here.parent.parts ELSE here.cwd \o here.parent.parts]

\* project_dir: the directory that the command's path really leads to.
LEMMA ProjectDirIsReal ==
  ASSUME NEW fs, NEW here, Situated(fs, here)
  PROVE  ProjectDir(fs, here) = Project(fs, here)
<1>1. CASE Resolves(fs, here.cwd, here.parent)
  BY <1>1 DEF ProjectDir, Canonical, Project
<1>2. CASE ~Resolves(fs, here.cwd, here.parent)
  <2>1. here.parent.parts = <<>> /\ ~here.parent.absolute
    BY <1>2 DEF Situated
  <2>2. here.cwd \o here.parent.parts = here.cwd
    <3>1. here.cwd \in Seq(ToSet(here.cwd))
      BY DEF Situated
    <3> QED BY <2>1, <3>1
  <2>3. Normalize(here.cwd) = here.cwd
    BY NormalizeKeeps DEF Situated
  <2>4. fs.real[here.cwd] = here.cwd
    BY DEF Situated
  <2> QED BY <1>2, <2>1, <2>2, <2>3, <2>4 DEF ProjectDir, Project
<1> QED BY <1>1, <1>2

\* The project of a command is a real directory, by an absolute path, of which it is
\* known what it is.
LEMMA ProjectIsKnown ==
  ASSUME NEW fs, IsFileSystem(fs), NEW here, Situated(fs, here)
  PROVE  Project(fs, here) \in DOMAIN fs.stat
<1>1. CASE Resolves(fs, here.cwd, here.parent)
  BY <1>1 DEF Resolves, Project, IsFileSystem
<1>2. CASE ~Resolves(fs, here.cwd, here.parent)
  <2>1. here.parent.parts = <<>> /\ ~here.parent.absolute
    BY <1>2 DEF Situated
  <2>2. here.cwd \o here.parent.parts = here.cwd
    <3>1. here.cwd \in Seq(ToSet(here.cwd))
      BY DEF Situated
    <3> QED BY <2>1, <3>1
  <2> QED BY <2>1, <2>2 DEF Situated, Project, IsFileSystem
<1> QED BY <1>1, <1>2

\* A candidate that is accepted is absolute, so that what it names does not depend on
\* who asks, and nobody else may look there.
LEMMA AcceptedFacts ==
  ASSUME NEW fs, NEW here, NEW path, Accepts(fs, here, path)
  PROVE  LET dir == Canonical(fs, here.cwd, path)
         IN  /\ dir = fs.real[path.parts]
             /\ fs.stat[dir].dir /\ fs.stat[dir].ours /\ ~fs.stat[dir].shared
             /\ fs.stat[dir].len + MovedLen <= MaxSocketPath
             /\ \A there : Accepts(fs, there, path)
BY DEF Accepts, IsPrivateDir, Canonical, Resolves

\* Which candidates are good, and where the first of them is.
Good(fs, here) == {i \in 1..2 : Accepts(fs, here, Candidates(here)[i])}
Moved(fs, here) == fs.real[Candidates(here)[Min(Good(fs, here))].parts]

\* choose_socket_among, case by case.
LEMMA ChosenFacts ==
  ASSUME NEW fs, NEW here, NEW dir, IsFileSystem(fs), dir \in DOMAIN fs.stat
  PROVE  LET found == ChooseSocket(fs, here, dir)
         IN  \/ /\ found.dir = dir /\ found.name = <<>>
                /\ found.rejections = 0 => found.len <= MaxSocketPath
                /\ Good(fs, here) # {} => fs.stat[dir].len + SocketLen <= MaxSocketPath
             \/ /\ found.dir = Moved(fs, here) /\ found.name = dir /\ found.rejections = 0
                /\ Good(fs, here) # {} /\ ~(fs.stat[dir].len + SocketLen <= MaxSocketPath)
                /\ dir # <<>>
                /\ fs.stat[found.dir].dir /\ fs.stat[found.dir].ours /\ ~fs.stat[found.dir].shared
                /\ found.len <= MaxSocketPath
<1> DEFINE length == fs.stat[dir].len + SocketLen
           good   == {i \in 1..2 : Accepts(fs, here, Candidates(here)[i])}
           moved  == Canonical(fs, here.cwd, Candidates(here)[Min(good)])
           found  == ChooseSocket(fs, here, dir)
<1>0. good = Good(fs, here)
  BY DEF Good
<1>1. CASE length <= MaxSocketPath \/ good = {}
  <2>1. found = [dir |-> dir, name |-> <<>>, len |-> length,
                 rejections |-> IF length <= MaxSocketPath THEN 0 ELSE 2]
    BY <1>1 DEF ChooseSocket
  <2>2. found.dir = dir /\ found.name = <<>>
    BY <2>1
  <2>3. found.rejections = 0 => found.len <= MaxSocketPath
    BY <2>1
  <2> QED BY <1>0, <1>1, <2>2, <2>3
<1>2. CASE ~(length <= MaxSocketPath \/ good = {})
  <2>1. found = [dir |-> moved, name |-> dir, len |-> fs.stat[moved].len + MovedLen, rejections |-> 0]
    BY <1>2 DEF ChooseSocket
  <2>2. Min(good) \in good
    <3>1. good \in SUBSET Int /\ good # {}
      BY <1>2
    <3>2. \A y \in good : y = 1 \/ y = 2
      OBVIOUS
    <3>3. \E x \in good : \A y \in good : x <= y
      <4> HIDE DEF good
      <4>1. CASE 1 \in good
        BY <3>2, <4>1
      <4>2. CASE 1 \notin good
        <5>1. PICK z \in good : TRUE
          BY <3>1
        <5>2. \A y \in good : y = 2
          BY <3>2, <4>2
        <5>3. \A y \in good : z <= y
          BY <5>1, <5>2
        <5> QED BY <5>3
      <4> QED BY <4>1, <4>2
    <3> HIDE DEF good
    <3> QED BY <3>3 DEF Min
  <2>3. Accepts(fs, here, Candidates(here)[Min(good)])
    BY <2>2
  <2>4. /\ moved = Moved(fs, here)
        /\ fs.stat[moved].dir /\ fs.stat[moved].ours /\ ~fs.stat[moved].shared
        /\ fs.stat[moved].len + MovedLen <= MaxSocketPath
    BY <1>0, <2>3, AcceptedFacts DEF Moved
  <2>5. dir # <<>>
    <3> SUFFICES ASSUME dir = <<>> PROVE FALSE
      OBVIOUS
    <3>1. fs.stat[dir].len = 0
      BY DEF IsFileSystem
    <3> QED BY <1>2, <3>1, PathAssumption
  <2> HIDE DEF moved
  <2>6. /\ found.dir = moved /\ found.name = dir /\ found.rejections = 0
        /\ found.len = fs.stat[moved].len + MovedLen
    BY <2>1
  <2> QED BY <1>0, <1>2, <2>4, <2>5, <2>6
<1> QED BY <1>1, <1>2

\* The commands of one project that see the same variables meet, those of two do not,
\* and nobody else can look at where they meet.
LEMMA SocketsMeet ==
  ASSUME NEW fs, IsFileSystem(fs), NEW here, Situated(fs, here),
         ForConfig(fs, here).rejections = 0
  PROVE  LET found == ForConfig(fs, here)
         IN  /\ found.len <= MaxSocketPath
             /\ found.dir # Project(fs, here) =>
                    fs.stat[found.dir].dir /\ fs.stat[found.dir].ours /\ ~fs.stat[found.dir].shared
             /\ \A h : Situated(fs, h) =>
                    LET there == ForConfig(fs, h)
                    IN  /\ Project(fs, h) # Project(fs, here) =>
                               <<there.dir, there.name>> # <<found.dir, found.name>>
                        /\ Project(fs, h) = Project(fs, here) /\ Candidates(h) = Candidates(here) =>
                               <<there.dir, there.name>> = <<found.dir, found.name>>
<1> DEFINE found == ForConfig(fs, here)
           dir == Project(fs, here)
<1>1. found = ChooseSocket(fs, here, dir) /\ dir \in DOMAIN fs.stat
  BY ProjectDirIsReal, ProjectIsKnown DEF ForConfig
<1> HIDE DEF found, dir
<1>2. \/ /\ found.dir = dir /\ found.name = <<>>
         /\ found.rejections = 0 => found.len <= MaxSocketPath
         /\ Good(fs, here) # {} => fs.stat[dir].len + SocketLen <= MaxSocketPath
      \/ /\ found.dir = Moved(fs, here) /\ found.name = dir /\ found.rejections = 0
         /\ Good(fs, here) # {} /\ ~(fs.stat[dir].len + SocketLen <= MaxSocketPath)
         /\ dir # <<>>
         /\ fs.stat[found.dir].dir /\ fs.stat[found.dir].ours /\ ~fs.stat[found.dir].shared
         /\ found.len <= MaxSocketPath
  BY <1>1, ChosenFacts
<1>3. found.rejections = 0
  BY DEF found
<1>4. ASSUME NEW h, Situated(fs, h)
      PROVE  LET there == ForConfig(fs, h)
             IN  /\ Project(fs, h) # dir => <<there.dir, there.name>> # <<found.dir, found.name>>
                 /\ Project(fs, h) = dir /\ Candidates(h) = Candidates(here) =>
                        <<there.dir, there.name>> = <<found.dir, found.name>>
  <2> DEFINE there == ForConfig(fs, h)
             other == Project(fs, h)
  <2>1. there = ChooseSocket(fs, h, other) /\ other \in DOMAIN fs.stat
    BY <1>4, ProjectDirIsReal, ProjectIsKnown DEF ForConfig
  <2> HIDE DEF there, other
  <2>2. \/ /\ there.dir = other /\ there.name = <<>>
           /\ Good(fs, h) # {} => fs.stat[other].len + SocketLen <= MaxSocketPath
        \/ /\ there.dir = Moved(fs, h) /\ there.name = other
           /\ Good(fs, h) # {} /\ ~(fs.stat[other].len + SocketLen <= MaxSocketPath)
           /\ other # <<>>
    BY <2>1, ChosenFacts
  <2>3. other # dir => there.dir # found.dir \/ there.name # found.name
    BY <1>2, <2>2
  <2>4. ASSUME Candidates(h) = Candidates(here)
        PROVE  Good(fs, h) = Good(fs, here) /\ Moved(fs, h) = Moved(fs, here)
    <3>1. Good(fs, h) = Good(fs, here)
      BY <2>4, AcceptedFacts DEF Good
    <3> QED BY <2>4, <3>1 DEF Moved
  <2>5. other = dir /\ Candidates(h) = Candidates(here) =>
            there.dir = found.dir /\ there.name = found.name
    BY <1>2, <2>2, <2>4
  <2> QED BY <2>3, <2>5 DEF there, other
<1> QED BY <1>2, <1>3, <1>4 DEF found, dir

-----------------------------------------------------------------------------
(* Filters. *)

KeepLoop(s, K, f) ==
  [i \in 0..Len(s) |-> IF i = 0 THEN <<>>
                       ELSE IF s[i] \in K THEN Append(f[i - 1], s[i]) ELSE f[i - 1]]

\* What a filter keeps of s: `at' says where each element that is kept comes from.
KeptAt(s, K, n, k, at) ==
  /\ DOMAIN at = 1..Len(k)
  /\ \A i \in 1..Len(k) : at[i] \in 1..n /\ k[i] = s[at[i]] /\ s[at[i]] \in K
  /\ \A i, j \in 1..Len(k) : i < j => at[i] < at[j]
  /\ \A m \in 1..n : s[m] \in K => \E i \in 1..Len(k) : at[i] = m

\* Filtered keeps what it should, in its order.
LEMMA SelectFacts ==
  ASSUME NEW T, NEW s \in Seq(T), NEW K
  PROVE  LET k == Filtered(s, K)
         IN  k \in Seq(T) /\ \E at : KeptAt(s, K, Len(s), k, at)
<1> DEFINE N == Len(s)
           k == Filtered(s, K)
           f == CHOOSE f : f = KeepLoop(s, K, f)
<1>1. N \in Nat /\ DOMAIN s = 1..N /\ \A i \in 1..N : s[i] \in T
  OBVIOUS
<1>2. k = f[N]
  BY DEF Filtered, KeepLoop
<1>3. f = KeepLoop(s, K, f)
  <2> DEFINE g == [x \in (1..N) \X Seq(T) |-> IF s[x[1]] \in K THEN Append(x[2], s[x[1]]) ELSE x[2]]
             b == <<>>
  <2>1. g \in [(1..N) \X Seq(T) -> Seq(T)] /\ b \in Seq(T)
    BY <1>1
  <2>2. \A n \in 1..N, x \in Seq(T) : g[<<n, x>>] = IF s[n] \in K THEN Append(x, s[n]) ELSE x
    OBVIOUS
  <2> HIDE DEF g, b
  <2>3. PICK h \in [0..N -> Seq(T)] : /\ h[0] = b
                                      /\ \A n \in 1..N : h[n] = g[<<n, h[n - 1]>>]
    <3>1. PICK h : Runs(N, Seq(T), b, g, h)
      BY <1>1, <2>1, Iterates
    <3> QED BY <3>1 DEF Runs
  <2>4. ASSUME NEW n \in 1..N
        PROVE  h[n] = IF s[n] \in K THEN Append(h[n - 1], s[n]) ELSE h[n - 1]
    <3>1. n - 1 \in 0..N
      BY <1>1
    <3>2. h[n - 1] \in Seq(T)
      BY <2>3, <3>1
    <3>3. h[n] = g[<<n, h[n - 1]>>]
      BY <2>3
    <3> QED BY <2>2, <3>2, <3>3
  <2>5. h = KeepLoop(s, K, h)
    <3>1. h = [n \in 0..N |-> h[n]]
      BY <2>3
    <3>2. \A n \in 0..N : h[n] = IF n = 0 THEN <<>>
                                 ELSE IF s[n] \in K THEN Append(h[n - 1], s[n]) ELSE h[n - 1]
      <4> TAKE n \in 0..N
      <4>1. CASE n = 0
        BY <2>3, <4>1 DEF b
      <4>2. CASE n # 0
        <5>1. n \in 1..N
          BY <1>1, <4>2
        <5> QED BY <2>4, <4>2, <5>1
      <4> QED BY <4>1, <4>2
    <3> QED BY <3>1, <3>2 DEF KeepLoop
  <2> QED BY <2>5, Zenon
<1> HIDE DEF f
<1>4. f[0] = <<>> /\ \A n \in 1..N : f[n] = IF s[n] \in K THEN Append(f[n - 1], s[n]) ELSE f[n - 1]
  <2> DEFINE r == KeepLoop(s, K, f)
  <2>1. \A n \in 0..N : r[n] = IF n = 0 THEN <<>>
                               ELSE IF s[n] \in K THEN Append(f[n - 1], s[n]) ELSE f[n - 1]
    BY DEF KeepLoop
  <2>2. f = r
    BY <1>3
  <2> HIDE DEF r
  <2>3. \A n \in 1..N : n \in 0..N /\ n # 0
    BY <1>1
  <2>4. 0 \in 0..N
    BY <1>1
  <2> QED BY <2>1, <2>2, <2>3, <2>4
<1> DEFINE Good0 == {n \in 0..N : f[n] \in Seq(T) /\ \E at : KeptAt(s, K, n, f[n], at)}
<1>5. 0 \in Good0
  <2>1. f[0] \in Seq(T) /\ Len(f[0]) = 0
    BY <1>4
  <2>2. KeptAt(s, K, 0, f[0], [i \in 1..0 |-> 0])
    BY <2>1 DEF KeptAt
  <2> QED BY <1>1, <2>1, <2>2
<1>6. ASSUME NEW n \in 1..N, n - 1 \in Good0
      PROVE  n \in Good0
  <2> DEFINE p == f[n - 1]
             L == Len(p)
  <2>1. PICK at : KeptAt(s, K, n - 1, p, at)
    BY <1>6
  <2>2. p \in Seq(T) /\ L \in Nat
    BY <1>6
  <2>3. CASE s[n] \notin K
    <3>1. f[n] = p
      BY <1>4, <2>3
    <3>2. KeptAt(s, K, n, p, at)
      BY <1>1, <2>1, <2>2, <2>3 DEF KeptAt
    <3> QED BY <2>2, <3>1, <3>2
  <2>4. CASE s[n] \in K
    <3> DEFINE q == Append(p, s[n])
               bt == [i \in 1..(L + 1) |-> IF i = L + 1 THEN n ELSE at[i]]
    <3>1. f[n] = q
      BY <1>4, <2>4
    <3>2. /\ q \in Seq(T) /\ Len(q) = L + 1 /\ q[L + 1] = s[n]
          /\ \A i \in 1..L : q[i] = p[i]
      BY <1>1, <2>2
    <3> HIDE DEF q, p
    <3>3. KeptAt(s, K, n, q, bt)
      <4>1. DOMAIN bt = 1..Len(q)
        BY <3>2
      <4>2. \A i \in 1..L : bt[i] = at[i] /\ at[i] \in 1..(n - 1)
        BY <2>1, <2>2 DEF KeptAt
      <4>3. bt[L + 1] = n
        BY <2>2
      <4> HIDE DEF bt
      <4>4. \A i \in 1..Len(q) : bt[i] \in 1..n /\ q[i] = s[bt[i]] /\ s[bt[i]] \in K
        BY <2>1, <2>2, <2>4, <3>2, <4>2, <4>3 DEF KeptAt
      <4>5. \A i, j \in 1..Len(q) : i < j => bt[i] < bt[j]
        BY <2>1, <2>2, <3>2, <4>2, <4>3 DEF KeptAt
      <4>6. ASSUME NEW m \in 1..n, s[m] \in K PROVE \E i \in 1..Len(q) : bt[i] = m
        <5>1. CASE m = n
          <6>1. L + 1 \in 1..Len(q)
            BY <2>2, <3>2
          <6> QED BY <4>3, <5>1, <6>1
        <5>2. CASE m # n
          <6>1. m \in 1..(n - 1)
            BY <5>2
          <6>2. PICK i \in 1..Len(p) : at[i] = m
            BY <2>1, <4>6, <6>1 DEF KeptAt
          <6>3. i \in 1..L /\ i \in 1..Len(q)
            BY <2>2, <3>2
          <6> QED BY <4>2, <6>2, <6>3
        <5> QED BY <5>1, <5>2
      <4> QED BY <4>1, <4>4, <4>5, <4>6 DEF KeptAt
    <3> HIDE DEF bt
    <3> QED BY <3>1, <3>2, <3>3
  <2> QED BY <2>3, <2>4
<1>7. \A n \in 0..N : n \in Good0
  <2> HIDE DEF Good0
  <2> QED BY <1>1, <1>5, <1>6, Induction
<1>8. f[N] \in Seq(T) /\ \E at : KeptAt(s, K, N, f[N], at)
  BY <1>1, <1>7
<1> HIDE DEF k
<1> QED BY <1>2, <1>8 DEF k

\* The elements that are kept.
LEMMA SelectedSet ==
  ASSUME NEW T, NEW s \in Seq(T), NEW K
  PROVE  LET k == Filtered(s, K)
         IN  ToSet(k) = ToSet(s) \cap K /\ Len(k) \in Nat /\ DOMAIN k = 1..Len(k)
<1> DEFINE k == Filtered(s, K)
<1>1. k \in Seq(T) /\ \E at : KeptAt(s, K, Len(s), k, at)
  BY SelectFacts
<1> HIDE DEF k
<1>2. PICK at : KeptAt(s, K, Len(s), k, at)
  BY <1>1
<1>3. Len(k) \in Nat /\ DOMAIN k = 1..Len(k) /\ Len(s) \in Nat /\ DOMAIN s = 1..Len(s)
  BY <1>1
<1>4. ASSUME NEW x \in ToSet(k) PROVE x \in ToSet(s) \cap K
  <2>1. PICK i \in 1..Len(k) : k[i] = x
    BY <1>3 DEF ToSet
  <2> QED BY <1>2, <1>3, <2>1 DEF KeptAt, ToSet
<1>5. ASSUME NEW x \in ToSet(s) \cap K PROVE x \in ToSet(k)
  <2>1. PICK m \in 1..Len(s) : s[m] = x
    BY <1>3 DEF ToSet
  <2> QED BY <1>2, <1>3, <2>1 DEF KeptAt, ToSet
<1>6. ToSet(k) = ToSet(s) \cap K
  BY <1>4, <1>5
<1> QED BY <1>3, <1>6 DEF k

-----------------------------------------------------------------------------
(* Finite sets of numbers. *)

\* Min is a member of the set that is less than the others.
LEMMA MinIsLeast ==
  ASSUME NEW S \in SUBSET Int, IsFiniteSet(S), S # {}
  PROVE  Min(S) \in S /\ \A y \in S : Min(S) <= y
<1> DEFINE C == Cardinality(S)
           T0 == {c \in 0..C : \A T \in SUBSET S : Cardinality(T) = c /\ T # {} =>
                                   \E x \in T : \A y \in T : x <= y}
<1>1. C \in Nat
  BY FS_CardinalityType
<1>2. 0 \in T0
  <2> SUFFICES ASSUME NEW T \in SUBSET S, Cardinality(T) = 0, T # {} PROVE FALSE
    BY <1>1
  <2>1. IsFiniteSet(T)
    BY FS_Subset
  <2> QED BY <2>1, FS_EmptySet
<1>3. ASSUME NEW c \in 1..C, c - 1 \in T0
      PROVE  c \in T0
  <2> SUFFICES ASSUME NEW T \in SUBSET S, Cardinality(T) = c, T # {}
               PROVE  \E x \in T : \A y \in T : x <= y
    BY <1>1
  <2>1. PICK t \in T : TRUE
    OBVIOUS
  <2> DEFINE U == T \ {t}
  <2>2. IsFiniteSet(T)
    BY FS_Subset
  <2>3. Cardinality(U) = c - 1 /\ U \in SUBSET S
    BY <2>1, <2>2, FS_RemoveElement
  <2>4. t \in Int /\ \A y \in T : y = t \/ y \in U
    BY <2>1
  <2>5. CASE U = {}
    BY <2>4, <2>5
  <2>6. CASE U # {}
    <3>1. PICK x \in U : \A y \in U : x <= y
      BY <1>3, <2>3, <2>6
    <3>2. x \in Int /\ x \in T /\ \A y \in U : y \in Int
      BY <2>3
    <3>3. CASE x <= t
      BY <2>4, <3>1, <3>2, <3>3
    <3>4. CASE ~(x <= t)
      <4>1. \A y \in T : t <= y
        BY <2>4, <3>1, <3>2, <3>4
      <4> QED BY <4>1
    <3> QED BY <3>3, <3>4
  <2> QED BY <2>5, <2>6
<1>4. C \in T0
  <2> HIDE DEF T0
  <2>1. \A c \in 0..C : c \in T0
    BY <1>1, <1>2, <1>3, Induction
  <2> QED BY <1>1, <2>1
<1>5. \E x \in S : \A y \in S : x <= y
  BY <1>4
<1> QED BY <1>5 DEF Min

-----------------------------------------------------------------------------
(* topological_sort. *)

\* What dep_graph makes of services whose dependencies all exist.
IsGraph(deps) ==
  /\ DOMAIN deps \subseteq Int /\ IsFiniteSet(DOMAIN deps)
  /\ \A n \in DOMAIN deps : deps[n] \in Seq(DOMAIN deps)

\* The states of the loop, and the entries that n still waits for.
SortStates(deps) == [queue : SUBSET DOMAIN deps, deg : [DOMAIN deps -> Int], order : Seq(DOMAIN deps)]

Waits(deps, done, n) == {i \in DOMAIN deps[n] : deps[n][i] \notin done}

\* Whoever is scheduled has everything that it depends on in front of it.
BehindDeps(deps, order) ==
  \A k \in 1..Len(order) : \A i \in DOMAIN deps[order[k]] :
      \E j \in 1..(k - 1) : order[j] = deps[order[k]][i]

\* What every turn keeps: in the queue or scheduled is exactly who waits for nothing.
Sorting(deps, s) ==
  LET done == ToSet(s.order)
  IN  /\ s \in SortStates(deps)
      /\ Cardinality(done) = Len(s.order)
      /\ s.queue \cap done = {}
      /\ \A n \in DOMAIN deps : s.deg[n] = Cardinality(Waits(deps, done, n))
      /\ \A n \in DOMAIN deps : n \in s.queue \cup done <=> Waits(deps, done, n) = {}
      /\ BehindDeps(deps, s.order)

\* The fields of a state of the sort.
LEMMA SortStateFacts ==
  ASSUME NEW deps
  PROVE  /\ \A s \in SortStates(deps) : /\ s.queue \in SUBSET DOMAIN deps
                                        /\ s.deg \in [DOMAIN deps -> Int]
                                        /\ s.order \in Seq(DOMAIN deps)
         /\ \A q \in SUBSET DOMAIN deps, d \in [DOMAIN deps -> Int], o \in Seq(DOMAIN deps) :
               [queue |-> q, deg |-> d, order |-> o] \in SortStates(deps)
BY DEF SortStates

\* The sequences of a graph, without saying that they are sequences.
LEMMA GraphFacts ==
  ASSUME NEW deps, IsGraph(deps)
  PROVE  \A n \in DOMAIN deps : /\ Len(deps[n]) \in Nat /\ DOMAIN deps[n] = 1..Len(deps[n])
                                /\ IsFiniteSet(DOMAIN deps[n])
                                /\ Cardinality(DOMAIN deps[n]) = Len(deps[n])
                                /\ \A i \in DOMAIN deps[n] : deps[n][i] \in DOMAIN deps
                                /\ deps[n] = <<>> <=> DOMAIN deps[n] = {}
<1> TAKE n \in DOMAIN deps
<1> DEFINE s == deps[n]
<1>1. s \in Seq(DOMAIN deps)
  BY DEF IsGraph
<1> HIDE DEF s
<1>2. /\ Len(s) \in Nat /\ DOMAIN s = 1..Len(s)
      /\ \A i \in DOMAIN s : s[i] \in DOMAIN deps
      /\ s = <<>> <=> DOMAIN s = {}
  BY <1>1
<1>3. IsFiniteSet(DOMAIN s) /\ Cardinality(DOMAIN s) = Len(s)
  <2> DEFINE L == Len(s)
  <2>1. L \in Nat /\ DOMAIN s = 1..L
    BY <1>2
  <2> HIDE DEF L
  <2>2. 1 \in Int /\ L \in Int
    BY <2>1
  <2>3. IsFiniteSet(1..L) /\ Cardinality(1..L) = IF 1 > L THEN 0 ELSE L - 1 + 1
    BY <2>2, FS_Interval
  <2>4. Cardinality(1..L) = L
    BY <2>1, <2>3
  <2> QED BY <2>1, <2>3, <2>4 DEF L
<1> QED BY <1>2, <1>3 DEF s

\* The entries that are waited for, once one more is scheduled.
LEMMA WaitsLess ==
  ASSUME NEW deps, IsGraph(deps), NEW done, NEW name, name \notin done, NEW n \in DOMAIN deps
  PROVE  LET more == Waits(deps, done, n) less == Waits(deps, done \cup {name}, n)
         IN  /\ IsFiniteSet(more) /\ IsFiniteSet(less)
             /\ Cardinality(more) \in Nat /\ Cardinality(less) \in Nat
             /\ Entries(deps, n, name) \in Nat
             /\ Cardinality(less) = Cardinality(more) - Entries(deps, n, name)
             /\ less \subseteq more
             /\ Entries(deps, n, name) > 0 <=> more # less
<1> DEFINE more == Waits(deps, done, n)
           less == Waits(deps, done \cup {name}, n)
           gone == {i \in DOMAIN deps[n] : deps[n][i] = name}
<1>1. IsFiniteSet(DOMAIN deps[n])
  BY GraphFacts
<1>2. more \in SUBSET DOMAIN deps[n] /\ gone \in SUBSET DOMAIN deps[n]
  BY DEF Waits
<1>3. less = more \ gone /\ gone \subseteq more /\ less \subseteq more
  BY DEF Waits
<1>4. Entries(deps, n, name) = Cardinality(gone)
  BY DEF Entries
<1> HIDE DEF more, less, gone
<1>5. IsFiniteSet(more) /\ IsFiniteSet(gone)
  BY <1>1, <1>2, FS_Subset
<1>6. IsFiniteSet(less) /\ Cardinality(less) = Cardinality(more) - Cardinality(more \cap gone)
  BY <1>3, <1>5, FS_Difference
<1>7. more \cap gone = gone /\ (gone # {} <=> more # less)
  BY <1>3
<1>8. Cardinality(more) \in Nat /\ Cardinality(less) \in Nat /\ Cardinality(gone) \in Nat
  BY <1>5, <1>6, FS_CardinalityType
<1>9. Cardinality(gone) > 0 <=> gone # {}
  <2>1. Cardinality(gone) = 0 <=> gone = {}
    BY <1>5, FS_EmptySet
  <2> QED BY <2>1, <1>8
<1>10. Cardinality(less) = Cardinality(more) - Cardinality(gone)
  BY <1>6, <1>7
<1> QED BY <1>3, <1>4, <1>5, <1>6, <1>7, <1>8, <1>9, <1>10 DEF more, less

\* The sort begins with who waits for nothing.
LEMMA SortStarts ==
  ASSUME NEW deps, IsGraph(deps)
  PROVE  Sorting(deps, KahnStart(deps))
<1> DEFINE s == KahnStart(deps)
           q == {n \in DOMAIN deps : deps[n] = <<>>}
           d == [n \in DOMAIN deps |-> Len(deps[n])]
<1>1. s.queue = q /\ s.deg = d /\ s.order = <<>> /\ s = [queue |-> q, deg |-> d, order |-> <<>>]
  BY DEF KahnStart
<1>2. ToSet(s.order) = {} /\ Len(s.order) = 0
  BY <1>1 DEF ToSet
<1>3. s \in SortStates(deps)
  <2>1. q \in SUBSET DOMAIN deps /\ d \in [DOMAIN deps -> Int] /\ <<>> \in Seq(DOMAIN deps)
    BY GraphFacts
  <2> DEFINE o == <<>>
  <2>2. o \in Seq(DOMAIN deps) /\ s = [queue |-> q, deg |-> d, order |-> o]
    BY <1>1, <2>1
  <2> HIDE DEF q, d, s, o
  <2>3. [queue |-> q, deg |-> d, order |-> o] \in SortStates(deps)
    BY <2>1, <2>2, SortStateFacts
  <2> QED BY <2>2, <2>3
<1>4. \A n \in DOMAIN deps : Waits(deps, {}, n) = DOMAIN deps[n]
  BY DEF Waits
<1>5. \A n \in DOMAIN deps : d[n] = Len(deps[n]) /\ (n \in q <=> deps[n] = <<>>)
  OBVIOUS
<1> HIDE DEF s, q, d
<1>6. \A n \in DOMAIN deps : s.deg[n] = Cardinality(Waits(deps, {}, n))
  BY <1>1, <1>4, <1>5, GraphFacts
<1>7. ASSUME NEW n \in DOMAIN deps PROVE n \in s.queue \cup {} <=> Waits(deps, {}, n) = {}
  <2>1. Waits(deps, {}, n) = DOMAIN deps[n]
    BY <1>4
  <2>2. deps[n] = <<>> <=> DOMAIN deps[n] = {}
    BY GraphFacts
  <2>3. n \in s.queue <=> deps[n] = <<>>
    BY <1>1, <1>5
  <2> QED BY <2>1, <2>2, <2>3
<1>8. BehindDeps(deps, s.order)
  BY <1>2 DEF BehindDeps
<1>9. Cardinality({}) = 0
  BY FS_EmptySet
<1> QED BY <1>2, <1>3, <1>6, <1>7, <1>8, <1>9 DEF Sorting, s

\* One turn of topological_sort's loop.
LEMMA SortGoesOn ==
  ASSUME NEW deps, IsGraph(deps), NEW s, Sorting(deps, s)
  PROVE  LET t == Scheduled(deps, s)
         IN  Sorting(deps, t) /\ (s.queue = {} => t = s)
             /\ (s.queue # {} => Len(t.order) = Len(s.order) + 1)
<1> DEFINE t == Scheduled(deps, s)
           N == DOMAIN deps
           done == ToSet(s.order)
<1>1. CASE s.queue = {}
  <2>1. t = s
    BY <1>1 DEF Scheduled
  <2> QED BY <1>1, <2>1
<1>2. CASE s.queue # {}
  <2> DEFINE name == Min(s.queue)
             deg == [n \in N |-> s.deg[n] - Entries(deps, n, name)]
             ready == {n \in N : Entries(deps, n, name) > 0 /\ deg[n] = 0}
             queue == (s.queue \ {name}) \cup ready
             order == Append(s.order, name)
             after == done \cup {name}
  <2>1. t = [queue |-> queue, deg |-> deg, order |-> order]
    BY <1>2 DEF Scheduled
  <2>2. t.queue = queue /\ t.deg = deg /\ t.order = order
    BY <2>1
  <2>3. s.queue \in SUBSET N /\ s.deg \in [N -> Int] /\ s.order \in Seq(N)
    BY SortStateFacts DEF Sorting
  <2>4. name \in s.queue /\ name \in N
    <3>1. s.queue \in SUBSET Int /\ IsFiniteSet(s.queue)
      BY <2>3, FS_Subset DEF IsGraph
    <3>2. Min(s.queue) \in s.queue
      BY <1>2, <3>1, MinIsLeast
    <3> QED BY <2>3, <3>2
  <2> HIDE DEF name
  <2>5. name \notin done
    BY <2>4 DEF Sorting
  <2>6. /\ Len(s.order) \in Nat /\ DOMAIN s.order = 1..Len(s.order)
        /\ order \in Seq(N) /\ Len(order) = Len(s.order) + 1 /\ DOMAIN order = 1..(Len(s.order) + 1)
        /\ order[Len(s.order) + 1] = name
        /\ \A k \in 1..Len(s.order) : order[k] = s.order[k]
    BY <2>3, <2>4
  <2>7. ToSet(order) = after
    <3> HIDE DEF order, name
    <3>1. \A x \in ToSet(order) : x \in after
      BY <2>6 DEF ToSet
    <3>2. \A x \in after : x \in ToSet(order)
      BY <2>6 DEF ToSet
    <3> QED BY <3>1, <3>2
  <2> HIDE DEF order
  <2>8. /\ IsFiniteSet(done) /\ Cardinality(done) = Len(s.order)
        /\ Cardinality(after) = Len(s.order) + 1
    <3>1. done \in SUBSET N
      BY <2>3, <2>6 DEF ToSet
    <3>2. IsFiniteSet(done)
      BY <3>1, FS_Subset DEF IsGraph
    <3>3. Cardinality(after) = Cardinality(done) + 1
      BY <2>5, <3>2, FS_AddElement
    <3> QED BY <3>2, <3>3 DEF Sorting
  <2>9. \A n \in N : /\ s.deg[n] = Cardinality(Waits(deps, done, n))
                     /\ n \in s.queue \cup done <=> Waits(deps, done, n) = {}
    BY DEF Sorting
  <2>10. ASSUME NEW n \in N
         PROVE  /\ deg[n] = Cardinality(Waits(deps, after, n)) /\ deg[n] \in Int
                /\ n \in queue \cup after <=> Waits(deps, after, n) = {}
                /\ n \in after => n \notin queue
    <3> DEFINE more == Waits(deps, done, n)
               less == Waits(deps, after, n)
               e == Entries(deps, n, name)
    <3>1. /\ IsFiniteSet(more) /\ IsFiniteSet(less)
          /\ Cardinality(more) \in Nat /\ Cardinality(less) \in Nat
          /\ e \in Nat /\ Cardinality(less) = Cardinality(more) - e
          /\ less \subseteq more
          /\ e > 0 <=> more # less
      BY <2>5, WaitsLess
    <3>2. deg[n] = s.deg[n] - e /\ (n \in ready <=> e > 0 /\ deg[n] = 0)
      OBVIOUS
    <3>3. s.deg[n] = Cardinality(more) /\ (n \in s.queue \cup done <=> more = {})
      BY <2>9
    <3>4. n \in queue <=> (n \in s.queue /\ n # name) \/ n \in ready
      OBVIOUS
    <3>5. n \in after <=> n \in done \/ n = name
      OBVIOUS
    <3> HIDE DEF deg, ready, queue, after, more, less, e
    <3>6. deg[n] = Cardinality(less) /\ deg[n] \in Int
      BY <3>1, <3>2, <3>3
    <3>7. deg[n] = 0 <=> less = {}
      BY <3>1, <3>6, FS_EmptySet
    <3>8. n \in s.queue => n \notin done
      BY DEF Sorting
    <3>9. n \in queue \cup after <=> less = {}
      <4>1. n \in queue \cup after <=> n \in s.queue \cup done \/ n \in ready
        BY <2>4, <3>4, <3>5
      <4> QED BY <3>1, <3>2, <3>3, <3>7, <4>1
    <3>10. n \in after => n \notin queue
      <4> SUFFICES ASSUME n \in after, n \in queue PROVE FALSE
        OBVIOUS
      <4>1. n \in s.queue \cup done
        BY <2>4, <3>5
      <4>2. n \notin ready
        BY <3>1, <3>2, <3>3, <4>1
      <4> QED BY <3>4, <3>5, <3>8, <4>2
    <3> QED BY <3>6, <3>9, <3>10 DEF less
  <2>11. BehindDeps(deps, order)
    <3> SUFFICES ASSUME NEW k \in 1..Len(order), NEW i \in DOMAIN deps[order[k]]
                 PROVE  \E j \in 1..(k - 1) : order[j] = deps[order[k]][i]
      BY DEF BehindDeps
    <3>1. CASE k <= Len(s.order)
      <4>1. k \in 1..Len(s.order) /\ order[k] = s.order[k]
        BY <2>6, <3>1
      <4>2. PICK j \in 1..(k - 1) : s.order[j] = deps[order[k]][i]
        BY <4>1 DEF Sorting, BehindDeps
      <4>3. order[j] = s.order[j]
        BY <2>6, <4>1
      <4> QED BY <4>2, <4>3
    <3>2. CASE k = Len(s.order) + 1
      <4>1. order[k] = name /\ Waits(deps, done, name) = {}
        BY <2>4, <2>6, <2>9, <3>2
      <4>2. deps[order[k]][i] \in done
        BY <4>1 DEF Waits
      <4>3. PICK j \in 1..Len(s.order) : s.order[j] = deps[order[k]][i]
        BY <2>6, <4>2 DEF ToSet
      <4> QED BY <2>6, <3>2, <4>3
    <3> QED BY <2>6, <3>1, <3>2
  <2>12. t \in SortStates(deps)
    <3>1. queue \in SUBSET N /\ deg \in [N -> Int]
      <4>1. \A n \in N : deg[n] \in Int
        BY <2>10
      <4>2. deg = [n \in N |-> deg[n]]
        OBVIOUS
      <4>3. queue \in SUBSET N
        BY <2>3
      <4> HIDE DEF deg
      <4> QED BY <4>1, <4>2, <4>3
    <3> HIDE DEF queue, deg, t
    <3> QED BY <2>1, <2>6, <3>1, SortStateFacts
  <2> HIDE DEF queue, deg, t, after, done
  <2>13. queue \cap after = {}
    <3> SUFFICES ASSUME NEW n \in queue, n \in after PROVE FALSE
      OBVIOUS
    <3>1. n \in N
      BY <2>2, <2>12, SortStateFacts
    <3> QED BY <2>10, <3>1
  <2>14. Sorting(deps, t)
    BY <2>2, <2>6, <2>7, <2>8, <2>10, <2>11, <2>12, <2>13 DEF Sorting
  <2> QED BY <1>2, <2>2, <2>6, <2>14 DEF t
<1> QED BY <1>1, <1>2

KahnLoop(deps, f) ==
  [t \in 0..Cardinality(DOMAIN deps) |-> IF t = 0 THEN KahnStart(deps) ELSE Scheduled(deps, f[t - 1])]

\* The loop runs until its queue is empty or everybody is scheduled.
LEMMA KahnEnds ==
  ASSUME NEW deps, IsGraph(deps)
  PROVE  /\ Sorting(deps, Kahn(deps))
         /\ Kahn(deps).queue = {} \/ Len(Kahn(deps).order) = Cardinality(DOMAIN deps)
<1> DEFINE N == Cardinality(DOMAIN deps)
           S == {s \in SortStates(deps) : Sorting(deps, s)}
           f == CHOOSE f : f = KahnLoop(deps, f)
           b == KahnStart(deps)
           g == [x \in (1..N) \X S |-> Scheduled(deps, x[2])]
<1>1. N \in Nat
  BY FS_CardinalityType DEF IsGraph
<1>2. Kahn(deps) = f[N]
  BY DEF Kahn, KahnLoop
<1>3. \A s \in S : Scheduled(deps, s) \in S
  BY SortGoesOn DEF Sorting
<1>4. b \in S
  BY SortStarts DEF Sorting
<1>5. g \in [(1..N) \X S -> S] /\ \A n \in 1..N, s \in S : g[<<n, s>>] = Scheduled(deps, s)
  BY <1>3
<1> HIDE DEF N, S, g, b
<1>6. PICK h : Runs(N, S, b, g, h)
  BY <1>1, <1>4, <1>5, Iterates
<1>7. /\ h \in [0..N -> S] /\ h[0] = b
      /\ \A n \in 1..N : n - 1 \in 0..N /\ h[n] = Scheduled(deps, h[n - 1])
  <2>1. \A n \in 1..N : n - 1 \in 0..N
    BY <1>1
  <2> QED BY <1>5, <1>6, <2>1 DEF Runs
<1>8. h = KahnLoop(deps, h)
  <2>1. h = [n \in 0..N |-> h[n]]
    BY <1>7
  <2>2. ASSUME NEW n \in 0..N
        PROVE  h[n] = IF n = 0 THEN KahnStart(deps) ELSE Scheduled(deps, h[n - 1])
    <3>1. CASE n = 0
      BY <1>7, <3>1 DEF b
    <3>2. CASE n # 0
      <4>1. n \in 1..N
        BY <1>1, <3>2
      <4> QED BY <1>7, <3>2, <4>1
    <3> QED BY <3>1, <3>2
  <2> QED BY <2>1, <2>2 DEF KahnLoop, N
<1>9. f = KahnLoop(deps, f)
  BY <1>8, Zenon
<1> HIDE DEF f
<1>10. f[0] = b /\ \A n \in 1..N : f[n] = Scheduled(deps, f[n - 1])
  <2> DEFINE r == KahnLoop(deps, f)
  <2>1. \A n \in 0..N : r[n] = IF n = 0 THEN b ELSE Scheduled(deps, f[n - 1])
    BY DEF KahnLoop, N, b
  <2>2. f = r
    BY <1>9
  <2> HIDE DEF r
  <2>3. \A n \in 1..N : n \in 0..N /\ n # 0
    BY <1>1
  <2>4. 0 \in 0..N
    BY <1>1
  <2> QED BY <2>1, <2>2, <2>3, <2>4
<1> DEFINE T == {n \in 0..N : f[n] \in S /\ (f[n].queue = {} \/ Len(f[n].order) = n)}
<1>11. 0 \in T
  <2>1. Len(b.order) = 0
    BY DEF b, KahnStart
  <2> QED BY <1>1, <1>4, <1>10, <2>1
<1>12. ASSUME NEW n \in 1..N, n - 1 \in T
       PROVE  n \in T
  <2> DEFINE s == f[n - 1]
  <2>1. s \in S /\ (s.queue = {} \/ Len(s.order) = n - 1) /\ f[n] = Scheduled(deps, s)
    BY <1>10, <1>12
  <2> HIDE DEF s
  <2>2. Scheduled(deps, s) \in S
    BY <1>3, <2>1
  <2>3. /\ s.queue = {} => Scheduled(deps, s) = s
        /\ s.queue # {} => Len(Scheduled(deps, s).order) = Len(s.order) + 1
    <3>1. Sorting(deps, s)
      BY <2>1 DEF S
    <3> QED BY <3>1, SortGoesOn
  <2>4. CASE s.queue = {}
    BY <2>1, <2>2, <2>3, <2>4
  <2>5. CASE s.queue # {}
    BY <2>1, <2>2, <2>3, <2>5
  <2> QED BY <2>4, <2>5
<1>13. N \in T
  <2> HIDE DEF T
  <2>1. \A n \in 0..N : n \in T
    BY <1>1, <1>11, <1>12, Induction
  <2> QED BY <1>1, <2>1
<1>14. f[N] \in S /\ (f[N].queue = {} \/ Len(f[N].order) = N)
  BY <1>13
<1> QED BY <1>2, <1>14 DEF S, N

\* What topological_sort returns.
LEMMA KahnOrder ==
  ASSUME NEW deps, IsGraph(deps)
  PROVE  LET order == Kahn(deps).order
         IN  /\ order \in Seq(DOMAIN deps)
             /\ SortsCompletely(deps) => ToSet(order) = DOMAIN deps /\ BehindDeps(deps, order)
<1> DEFINE s == Kahn(deps)
           N == DOMAIN deps
<1>1. Sorting(deps, s)
  BY KahnEnds
<1> HIDE DEF s
<1>2. s.order \in Seq(N) /\ Cardinality(ToSet(s.order)) = Len(s.order) /\ BehindDeps(deps, s.order)
  BY <1>1, SortStateFacts DEF Sorting
<1>3. ToSet(s.order) \in SUBSET N
  BY <1>2 DEF ToSet
<1>4. ASSUME Len(s.order) = Cardinality(N)
      PROVE  ToSet(s.order) = N
  <2>1. Cardinality(N) = Cardinality(ToSet(s.order))
    BY <1>2, <1>4
  <2> QED BY <1>3, <2>1, FS_Subset DEF IsGraph
<1> QED BY <1>2, <1>4 DEF s, SortsCompletely

\* Who remains waits for somebody who remains.
LEMMA KahnRemains ==
  ASSUME NEW deps, IsGraph(deps), ~SortsCompletely(deps)
  PROVE  LET rest == Remaining(deps)
         IN  /\ rest \in SUBSET DOMAIN deps /\ rest # {}
             /\ \A n \in rest : ToSet(deps[n]) \cap rest # {}
<1> DEFINE s == Kahn(deps)
           N == DOMAIN deps
           done == ToSet(s.order)
           rest == Remaining(deps)
<1>1. Sorting(deps, s) /\ s.queue = {} /\ Len(s.order) # Cardinality(N)
  BY KahnEnds DEF SortsCompletely
<1>2. rest = {n \in N : s.deg[n] > 0}
  BY DEF Remaining
<1> HIDE DEF s, rest
<1>3. Cardinality(done) = Len(s.order) /\ done \subseteq N
  <2>1. s.order \in Seq(N)
    BY <1>1, SortStateFacts DEF Sorting
  <2> QED BY <1>1, <2>1 DEF Sorting, ToSet
<1>4. ASSUME NEW n \in N
      PROVE  /\ n \in rest <=> n \notin done
             /\ n \notin done => \E i \in DOMAIN deps[n] : deps[n][i] \notin done
  <2> DEFINE w == Waits(deps, done, n)
  <2>1. s.deg[n] = Cardinality(w) /\ (n \in done <=> w = {})
    BY <1>1 DEF Sorting
  <2>2. w \in SUBSET DOMAIN deps[n] /\ IsFiniteSet(DOMAIN deps[n])
    BY GraphFacts DEF Waits
  <2>3. w # {} => \E i \in DOMAIN deps[n] : deps[n][i] \notin done
    BY DEF Waits
  <2> HIDE DEF w
  <2>4. IsFiniteSet(w)
    BY <2>2, FS_Subset
  <2>5. Cardinality(w) \in Nat /\ (Cardinality(w) = 0 <=> w = {})
    BY <2>4, FS_CardinalityType, FS_EmptySet
  <2>6. s.deg[n] > 0 <=> w # {}
    BY <2>1, <2>5
  <2> QED BY <1>2, <2>1, <2>3, <2>6
<1>5. rest # {}
  <2> SUFFICES ASSUME rest = {} PROVE FALSE
    OBVIOUS
  <2>1. done = N
    BY <1>3, <1>4
  <2> QED BY <1>1, <1>3, <2>1
<1>6. ASSUME NEW n \in rest
      PROVE  ToSet(deps[n]) \cap rest # {}
  <2>1. n \in N
    BY <1>2
  <2>2. PICK i \in DOMAIN deps[n] : deps[n][i] \notin done
    BY <1>4, <2>1
  <2>3. deps[n][i] \in N
    BY <2>1, GraphFacts
  <2>4. deps[n][i] \in rest /\ deps[n][i] \in ToSet(deps[n])
    BY <1>4, <2>2, <2>3 DEF ToSet
  <2> QED BY <2>4
<1> QED BY <1>2, <1>5, <1>6 DEF rest

-----------------------------------------------------------------------------
(* plan_stack. *)

\* A set of services that has what its members depend on.
IsClosed(cfg, S) == \A n \in S : Dependencies(cfg, n) \subseteq S

\* The services that n needs, as PlanIsExact has them.
NeedsOf(cfg, n) ==
  LET closed == {S \in SUBSET DOMAIN cfg.deps : n \in S /\ \A m \in S : Dependencies(cfg, m) \subseteq S}
  IN  {m \in DOMAIN cfg.deps : \A S \in closed : m \in S}

\* What a service of an ordered configuration depends on is a service of it.
LEMMA DependenciesExist ==
  ASSUME NEW cfg, IsGraph(cfg.deps)
  PROVE  \A n \in DOMAIN cfg.deps : Dependencies(cfg, n) \subseteq DOMAIN cfg.deps
BY GraphFacts DEF Dependencies, ToSet

\* What a service needs: itself, and what its dependencies need.
LEMMA NeedsFacts ==
  ASSUME NEW cfg, IsGraph(cfg.deps), NEW n \in DOMAIN cfg.deps
  PROVE  /\ n \in NeedsOf(cfg, n) /\ NeedsOf(cfg, n) \subseteq DOMAIN cfg.deps
         /\ IsClosed(cfg, NeedsOf(cfg, n))
         /\ \A S \in SUBSET DOMAIN cfg.deps : n \in S /\ IsClosed(cfg, S) => NeedsOf(cfg, n) \subseteq S
         /\ \A d \in Dependencies(cfg, n) : NeedsOf(cfg, d) \subseteq NeedsOf(cfg, n)
         /\ \A x \in NeedsOf(cfg, n) : x = n \/ \E d \in Dependencies(cfg, n) : x \in NeedsOf(cfg, d)
<1> DEFINE N == DOMAIN cfg.deps
           D(m) == Dependencies(cfg, m)
           closed(m) == {S \in SUBSET N : m \in S /\ IsClosed(cfg, S)}
<1>1. \A m \in N : NeedsOf(cfg, m) = {x \in N : \A S \in closed(m) : x \in S}
  BY DEF NeedsOf, IsClosed
<1>2. \A m \in N : D(m) \subseteq N
  BY DependenciesExist
<1>3. ASSUME NEW m \in N
      PROVE  /\ m \in NeedsOf(cfg, m) /\ NeedsOf(cfg, m) \subseteq N
             /\ IsClosed(cfg, NeedsOf(cfg, m))
             /\ \A S \in SUBSET N : m \in S /\ IsClosed(cfg, S) => NeedsOf(cfg, m) \subseteq S
  <2>1. m \in NeedsOf(cfg, m) /\ NeedsOf(cfg, m) \subseteq N
    BY <1>1
  <2>2. \A S \in SUBSET N : m \in S /\ IsClosed(cfg, S) => NeedsOf(cfg, m) \subseteq S
    BY <1>1
  <2>3. ASSUME NEW x \in NeedsOf(cfg, m), NEW y \in D(x)
        PROVE  y \in NeedsOf(cfg, m)
    <3>1. x \in N /\ y \in N
      BY <1>2, <2>1, <2>3
    <3>2. ASSUME NEW S \in closed(m) PROVE y \in S
      <4>1. x \in S
        BY <1>1, <2>3
      <4> QED BY <2>3, <4>1 DEF IsClosed
    <3> QED BY <1>1, <3>1, <3>2
  <2> QED BY <2>1, <2>2, <2>3 DEF IsClosed
<1>4. ASSUME NEW d \in D(n)
      PROVE  NeedsOf(cfg, d) \subseteq NeedsOf(cfg, n)
  <2>1. d \in N /\ d \in NeedsOf(cfg, n)
    BY <1>2, <1>3, <1>4 DEF IsClosed
  <2>2. NeedsOf(cfg, n) \in SUBSET N /\ IsClosed(cfg, NeedsOf(cfg, n))
    BY <1>3
  <2> QED BY <1>3, <2>1, <2>2
<1>5. ASSUME NEW x \in NeedsOf(cfg, n)
      PROVE  x = n \/ \E d \in D(n) : x \in NeedsOf(cfg, d)
  <2> DEFINE U == {n} \cup UNION {NeedsOf(cfg, d) : d \in D(n)}
  <2>1. U \in SUBSET N
    BY <1>2, <1>3
  <2>2. ASSUME NEW u \in U, NEW y \in D(u)
        PROVE  y \in U
    <3>1. CASE u = n
      <4>1. y \in D(n) /\ y \in N
        BY <1>2, <2>2, <3>1
      <4>2. y \in NeedsOf(cfg, y)
        BY <1>3, <4>1
      <4> QED BY <4>1, <4>2
    <3>2. CASE u # n
      <4>1. PICK d \in D(n) : u \in NeedsOf(cfg, d)
        BY <2>2, <3>2
      <4>2. d \in N
        BY <1>2
      <4>3. y \in NeedsOf(cfg, d)
        BY <1>3, <2>2, <4>1, <4>2 DEF IsClosed
      <4> QED BY <4>1, <4>3
    <3> QED BY <3>1, <3>2
  <2>3. n \in U /\ IsClosed(cfg, U)
    BY <2>2 DEF IsClosed
  <2>4. NeedsOf(cfg, n) \subseteq U
    <3> HIDE DEF U
    <3> QED BY <1>3, <2>1, <2>3
  <2> QED BY <1>5, <2>4
<1> QED BY <1>3, <1>4, <1>5

CollectLoop(cfg, names, f) ==
  [t \in 0..Len(cfg.order) |-> IF t = 0 THEN names ELSE Collected(cfg, f[t - 1])]

\* collect_with_dependencies finds the smallest closed set that has the names.
LEMMA CollectsAll ==
  ASSUME NEW cfg, IsGraph(cfg.deps), Len(cfg.order) = Cardinality(DOMAIN cfg.deps),
         NEW names \in SUBSET DOMAIN cfg.deps
  PROVE  LET all == WithDependencies(cfg, names)
         IN  /\ names \subseteq all /\ all \subseteq DOMAIN cfg.deps /\ IsClosed(cfg, all)
             /\ \A S \in SUBSET DOMAIN cfg.deps : names \subseteq S /\ IsClosed(cfg, S) => all \subseteq S
<1> DEFINE A == DOMAIN cfg.deps
           N == Len(cfg.order)
           S == SUBSET A
           f == CHOOSE f : f = CollectLoop(cfg, names, f)
           g == [x \in (1..N) \X S |-> Collected(cfg, x[2])]
<1>1. N \in Nat /\ IsFiniteSet(A) /\ N = Cardinality(A)
  BY FS_CardinalityType DEF IsGraph
<1>2. WithDependencies(cfg, names) = f[N]
  BY DEF WithDependencies, CollectLoop
<1>3. \A s \in S : Collected(cfg, s) \in S
  BY DependenciesExist DEF Collected
<1>4. names \in S
  OBVIOUS
<1>5. g \in [(1..N) \X S -> S] /\ \A n \in 1..N, s \in S : g[<<n, s>>] = Collected(cfg, s)
  BY <1>3
<1> HIDE DEF N, S, g
<1>6. PICK h : Runs(N, S, names, g, h)
  BY <1>1, <1>4, <1>5, Iterates
<1>7. /\ h \in [0..N -> S] /\ h[0] = names
      /\ \A n \in 1..N : n - 1 \in 0..N /\ h[n] = Collected(cfg, h[n - 1])
  <2>1. \A n \in 1..N : n - 1 \in 0..N
    BY <1>1
  <2> QED BY <1>5, <1>6, <2>1 DEF Runs
<1>8. h = CollectLoop(cfg, names, h)
  <2>1. h = [n \in 0..N |-> h[n]]
    BY <1>7
  <2>2. ASSUME NEW n \in 0..N
        PROVE  h[n] = IF n = 0 THEN names ELSE Collected(cfg, h[n - 1])
    <3>1. CASE n = 0
      BY <1>7, <3>1
    <3>2. CASE n # 0
      <4>1. n \in 1..N
        BY <1>1, <3>2
      <4> QED BY <1>7, <3>2, <4>1
    <3> QED BY <3>1, <3>2
  <2> QED BY <2>1, <2>2 DEF CollectLoop, N
<1>9. f = CollectLoop(cfg, names, f)
  BY <1>8, Zenon
<1> HIDE DEF f
<1>10. f[0] = names /\ \A n \in 1..N : f[n] = Collected(cfg, f[n - 1])
  <2> DEFINE r == CollectLoop(cfg, names, f)
  <2>1. \A n \in 0..N : r[n] = IF n = 0 THEN names ELSE Collected(cfg, f[n - 1])
    BY DEF CollectLoop, N
  <2>2. f = r
    BY <1>9
  <2> HIDE DEF r
  <2>3. \A n \in 1..N : n \in 0..N /\ n # 0
    BY <1>1
  <2>4. 0 \in 0..N
    BY <1>1
  <2> QED BY <2>1, <2>2, <2>3, <2>4
<1> DEFINE T == {n \in 0..N : /\ f[n] \in SUBSET A /\ names \subseteq f[n]
                              /\ \A C \in SUBSET A : names \subseteq C /\ IsClosed(cfg, C) => f[n] \subseteq C
                              /\ IsClosed(cfg, f[n]) \/ Cardinality(f[n]) >= n}
<1>11. 0 \in T
  <2>1. Cardinality(names) \in Nat
    BY <1>1, FS_Subset, FS_CardinalityType
  <2>2. Cardinality(names) >= 0
    BY <2>1
  <2> QED BY <1>1, <1>10, <2>2
<1>12. ASSUME NEW n \in 1..N, n - 1 \in T
       PROVE  n \in T
  <2> DEFINE s == f[n - 1]
             t == Collected(cfg, s)
  <2>1. /\ f[n] = t /\ s \in SUBSET A /\ names \subseteq s
        /\ \A C \in SUBSET A : names \subseteq C /\ IsClosed(cfg, C) => s \subseteq C
        /\ IsClosed(cfg, s) \/ Cardinality(s) >= n - 1
    BY <1>10, <1>12
  <2> HIDE DEF s
  <2>2. t \in SUBSET A /\ s \subseteq t
    BY <1>3, <2>1 DEF S, Collected
  <2>3. \A C \in SUBSET A : names \subseteq C /\ IsClosed(cfg, C) => t \subseteq C
    BY <2>1 DEF Collected, IsClosed
  <2>4. IsClosed(cfg, s) <=> t = s
    BY DEF Collected, IsClosed
  <2> HIDE DEF t
  <2>5. IsClosed(cfg, t) \/ Cardinality(t) >= n
    <3>1. CASE t = s
      BY <2>4, <3>1
    <3>2. CASE t # s
      <4>1. IsFiniteSet(t)
        BY <1>1, <2>2, FS_Subset
      <4>2. Cardinality(s) <= Cardinality(t) /\ Cardinality(s) # Cardinality(t)
        BY <2>2, <3>2, <4>1, FS_Subset
      <4>3. IsFiniteSet(s)
        BY <1>1, <2>1, FS_Subset
      <4>4. Cardinality(s) \in Nat /\ Cardinality(t) \in Nat
        BY <4>1, <4>3, FS_CardinalityType
      <4>5. Cardinality(s) >= n - 1
        BY <2>1, <2>4, <3>2
      <4> QED BY <1>1, <4>2, <4>4, <4>5
    <3> QED BY <3>1, <3>2
  <2> QED BY <1>1, <2>1, <2>2, <2>3, <2>5
<1>13. N \in T
  <2> HIDE DEF T
  <2>1. \A n \in 0..N : n \in T
    BY <1>1, <1>11, <1>12, Induction
  <2> QED BY <1>1, <2>1
<1>14. /\ f[N] \in SUBSET A /\ names \subseteq f[N]
       /\ \A C \in SUBSET A : names \subseteq C /\ IsClosed(cfg, C) => f[N] \subseteq C
       /\ IsClosed(cfg, f[N]) \/ Cardinality(f[N]) >= N
  BY <1>13
<1>15. IsClosed(cfg, f[N])
  <2> SUFFICES ASSUME Cardinality(f[N]) >= N PROVE IsClosed(cfg, f[N])
    BY <1>14
  <2>1. Cardinality(f[N]) <= Cardinality(A) /\ Cardinality(f[N]) \in Nat
    <3>1. IsFiniteSet(f[N])
      BY <1>1, <1>14, FS_Subset
    <3> QED BY <1>1, <1>14, <3>1, FS_Subset, FS_CardinalityType
  <2>2. Cardinality(A) = Cardinality(f[N])
    BY <1>1, <2>1
  <2>3. A = f[N]
    BY <1>1, <1>14, <2>2, FS_Subset
  <2> QED BY <2>3, DependenciesExist DEF IsClosed
<1> QED BY <1>2, <1>14, <1>15

\* What a configuration that topological_sort has ordered gives plan_stack.
IsOrdered(cfg) ==
  /\ IsGraph(cfg.deps) /\ SortsCompletely(cfg.deps) /\ cfg.order = Kahn(cfg.deps).order

\* The start order of an ordered configuration has every service, behind its dependencies.
LEMMA OrderFacts ==
  ASSUME NEW cfg, IsOrdered(cfg)
  PROVE  /\ cfg.order \in Seq(DOMAIN cfg.deps) /\ ToSet(cfg.order) = DOMAIN cfg.deps
         /\ Len(cfg.order) = Cardinality(DOMAIN cfg.deps) /\ Len(cfg.order) \in Nat
         /\ DOMAIN cfg.order = 1..Len(cfg.order)
         /\ BehindDeps(cfg.deps, cfg.order)
<1>1. cfg.order \in Seq(DOMAIN cfg.deps)
  BY KahnOrder DEF IsOrdered
<1> QED BY <1>1, KahnOrder DEF IsOrdered, SortsCompletely

\* A plan: members of the start order that have everything that they depend on in front.
IsPlan(cfg, plan_) ==
  /\ plan_ \in Seq(DOMAIN cfg.deps)
  /\ \A i \in DOMAIN plan_ : Dependencies(cfg, plan_[i]) \subseteq {plan_[j] : j \in 1..(i - 1)}

\* plan_stack keeps what was asked for and all that it needs, dependencies first.
LEMMA PlansAreExact ==
  ASSUME NEW cfg, IsOrdered(cfg), NEW sel, Roots(cfg, sel) \subseteq DOMAIN cfg.deps
  PROVE  /\ ToSet(PlanStack(cfg, sel)) = UNION {NeedsOf(cfg, n) : n \in Roots(cfg, sel)}
         /\ IsPlan(cfg, PlanStack(cfg, sel))
<1> DEFINE N == DOMAIN cfg.deps
           roots == Roots(cfg, sel)
           W == WithDependencies(cfg, roots)
           s == cfg.order
           p == PlanStack(cfg, sel)
           U == UNION {NeedsOf(cfg, n) : n \in roots}
<1>1. /\ IsGraph(cfg.deps) /\ s \in Seq(N) /\ ToSet(s) = N
      /\ Len(s) = Cardinality(N) /\ Len(s) \in Nat /\ DOMAIN s = 1..Len(s)
      /\ BehindDeps(cfg.deps, s)
  BY OrderFacts DEF IsOrdered
<1>2. p = Filtered(s, W)
  BY DEF PlanStack
<1>3. /\ roots \subseteq W /\ W \subseteq N /\ IsClosed(cfg, W)
      /\ \A S \in SUBSET N : roots \subseteq S /\ IsClosed(cfg, S) => W \subseteq S
  BY <1>1, CollectsAll
<1> HIDE DEF W, p
<1>4. W = U
  <2>1. U \in SUBSET N /\ roots \subseteq U
    BY <1>1, NeedsFacts
  <2>2. ASSUME NEW x \in U PROVE Dependencies(cfg, x) \subseteq U
    <3>1. PICK n \in roots : x \in NeedsOf(cfg, n)
      OBVIOUS
    <3>2. n \in N /\ IsClosed(cfg, NeedsOf(cfg, n))
      BY <1>1, NeedsFacts
    <3> QED BY <3>1, <3>2 DEF IsClosed
  <2>3. W \subseteq U
    <3> HIDE DEF U, roots
    <3> QED BY <1>3, <2>1, <2>2 DEF IsClosed
  <2>4. ASSUME NEW n \in roots PROVE NeedsOf(cfg, n) \subseteq W
    <3>1. n \in N /\ n \in W /\ W \in SUBSET N
      BY <1>3
    <3> QED BY <1>1, <1>3, <3>1, NeedsFacts
  <2> QED BY <2>3, <2>4
<1>5. ToSet(p) = W /\ p \in Seq(N) /\ Len(p) \in Nat /\ DOMAIN p = 1..Len(p)
  <2>1. ToSet(p) = ToSet(s) \cap W /\ Len(p) \in Nat /\ DOMAIN p = 1..Len(p)
    BY <1>1, <1>2, SelectedSet
  <2>2. p \in Seq(N)
    BY <1>1, <1>2, SelectFacts
  <2> QED BY <1>1, <1>3, <2>1, <2>2
<1>6. PICK at : KeptAt(s, W, Len(s), p, at)
  BY <1>1, <1>2, SelectFacts
<1>7. ASSUME NEW i \in DOMAIN p, NEW d \in Dependencies(cfg, p[i])
      PROVE  \E j \in 1..(i - 1) : p[j] = d
  <2>1. i \in 1..Len(p) /\ at[i] \in 1..Len(s) /\ p[i] = s[at[i]] /\ s[at[i]] \in W
    BY <1>5, <1>6 DEF KeptAt
  <2>2. d \in W
    BY <1>3, <1>7, <2>1 DEF IsClosed
  <2>3. PICK e \in DOMAIN cfg.deps[s[at[i]]] : cfg.deps[s[at[i]]][e] = d
    BY <1>7, <2>1 DEF Dependencies, ToSet
  <2>4. PICK m \in 1..(at[i] - 1) : s[m] = d
    BY <1>1, <2>1, <2>3 DEF BehindDeps
  <2>5. m \in 1..Len(s)
    BY <1>1, <2>1
  <2>6. PICK j \in 1..Len(p) : at[j] = m
    BY <1>6, <2>2, <2>4, <2>5 DEF KeptAt
  <2>7. p[j] = d
    BY <1>6, <2>4, <2>6 DEF KeptAt
  <2>8. j < i
    <3> SUFFICES ASSUME ~(j < i) PROVE FALSE
      OBVIOUS
    <3>1. j \in Int /\ i \in Int /\ (j = i \/ i < j)
      BY <1>5, <2>1
    <3>2. at[i] \in Int /\ at[j] \in Int /\ at[j] < at[i]
      BY <1>1, <2>1, <2>4, <2>6
    <3>3. i < j => at[i] < at[j]
      BY <1>6, <2>1 DEF KeptAt
    <3> QED BY <3>1, <3>2, <3>3
  <2>9. j \in 1..(i - 1)
    BY <1>5, <2>1, <2>8
  <2> QED BY <2>7, <2>9
<1>8. IsPlan(cfg, p)
  BY <1>5, <1>7 DEF IsPlan
<1> QED BY <1>4, <1>5, <1>8 DEF p

JoinLoop(cfg, plan_, seeds_, f) ==
  [i \in 0..Len(plan_) |-> IF i = 0 THEN seeds_ \cap ToSet(plan_) ELSE Joined(cfg, f[i - 1], plan_[i])]

\* with_dependents holds back exactly who needs one of the seeds.
LEMMA HeldIsExact ==
  ASSUME NEW cfg, IsGraph(cfg.deps), NEW plan_, IsPlan(cfg, plan_), NEW seeds_
  PROVE  WithDependents(cfg, plan_, seeds_) = {n \in ToSet(plan_) : NeedsOf(cfg, n) \cap seeds_ # {}}
<1> DEFINE A == DOMAIN cfg.deps
           N == Len(plan_)
           S == SUBSET ToSet(plan_)
           b == seeds_ \cap ToSet(plan_)
           f == CHOOSE f : f = JoinLoop(cfg, plan_, seeds_, f)
           g == [x \in (1..N) \X S |-> Joined(cfg, x[2], plan_[x[1]])]
           needs(n) == NeedsOf(cfg, n) \cap seeds_ # {}
<1>1. /\ N \in Nat /\ DOMAIN plan_ = 1..N /\ \A i \in 1..N : plan_[i] \in A /\ plan_[i] \in ToSet(plan_)
      /\ \A x \in ToSet(plan_) : \E i \in 1..N : plan_[i] = x
  <2>1. plan_ \in Seq(A)
    BY DEF IsPlan
  <2> QED BY <2>1 DEF ToSet
<1>2. WithDependents(cfg, plan_, seeds_) = f[N]
  BY DEF WithDependents, JoinLoop
<1>3. \A s \in S, i \in 1..N : Joined(cfg, s, plan_[i]) \in S
  BY <1>1 DEF Joined
<1>4. b \in S
  OBVIOUS
<1>5. g \in [(1..N) \X S -> S] /\ \A n \in 1..N, s \in S : g[<<n, s>>] = Joined(cfg, s, plan_[n])
  BY <1>3
<1> HIDE DEF N, S, g, b
<1>6. PICK h : Runs(N, S, b, g, h)
  BY <1>1, <1>4, <1>5, Iterates
<1>7. /\ h \in [0..N -> S] /\ h[0] = b
      /\ \A n \in 1..N : n - 1 \in 0..N /\ h[n] = Joined(cfg, h[n - 1], plan_[n])
  <2>1. \A n \in 1..N : n - 1 \in 0..N
    BY <1>1
  <2> QED BY <1>5, <1>6, <2>1 DEF Runs
<1>8. h = JoinLoop(cfg, plan_, seeds_, h)
  <2>1. h = [n \in 0..N |-> h[n]]
    BY <1>7
  <2>2. ASSUME NEW n \in 0..N
        PROVE  h[n] = IF n = 0 THEN b ELSE Joined(cfg, h[n - 1], plan_[n])
    <3>1. CASE n = 0
      BY <1>7, <3>1
    <3>2. CASE n # 0
      <4>1. n \in 1..N
        BY <1>1, <3>2
      <4> QED BY <1>7, <3>2, <4>1
    <3> QED BY <3>1, <3>2
  <2> QED BY <2>1, <2>2 DEF JoinLoop, N, b
<1>9. f = JoinLoop(cfg, plan_, seeds_, f)
  BY <1>8, Zenon
<1> HIDE DEF f
<1>10. f[0] = b /\ \A n \in 1..N : f[n] = Joined(cfg, f[n - 1], plan_[n])
  <2> DEFINE r == JoinLoop(cfg, plan_, seeds_, f)
  <2>1. \A n \in 0..N : r[n] = IF n = 0 THEN b ELSE Joined(cfg, f[n - 1], plan_[n])
    BY DEF JoinLoop, N, b
  <2>2. f = r
    BY <1>9
  <2> HIDE DEF r
  <2>3. \A n \in 1..N : n \in 0..N /\ n # 0
    BY <1>1
  <2>4. 0 \in 0..N
    BY <1>1
  <2> QED BY <2>1, <2>2, <2>3, <2>4
<1> DEFINE T == {n \in 0..N : \A x : x \in f[n] <=> x \in b \/ \E k \in 1..n : plan_[k] = x /\ needs(x)}
<1>11. 0 \in T
  <2>1. 1..0 = {} /\ 0 \in 0..N
    BY <1>1
  <2> QED BY <1>10, <2>1
<1>12. ASSUME NEW n \in 1..N, n - 1 \in T
       PROVE  n \in T
  <2> DEFINE s == f[n - 1]
             m == plan_[n]
  <2>1. /\ f[n] = Joined(cfg, s, m) /\ m \in A /\ m \in ToSet(plan_)
        /\ \A x : x \in s <=> x \in b \/ \E k \in 1..(n - 1) : plan_[k] = x /\ needs(x)
    BY <1>1, <1>10, <1>12
  <2>2. Dependencies(cfg, m) \subseteq {plan_[j] : j \in 1..(n - 1)}
    BY <1>1 DEF IsPlan
  <2>3. Dependencies(cfg, m) \subseteq A
    BY <2>1, DependenciesExist
  <2> HIDE DEF s, m
  <2>4. ASSUME NEW d \in Dependencies(cfg, m), d \in s
        PROVE  needs(m)
    <3>1. d \in A /\ d \in NeedsOf(cfg, d) /\ NeedsOf(cfg, d) \subseteq NeedsOf(cfg, m)
      BY <2>1, <2>3, <2>4, NeedsFacts
    <3>2. d \in seeds_ \/ needs(d)
      BY <2>1, <2>4 DEF b
    <3> QED BY <3>1, <3>2
  <2>5. ASSUME needs(m), m \notin b
        PROVE  \E d \in Dependencies(cfg, m) : d \in s
    <3>1. PICK x \in NeedsOf(cfg, m) : x \in seeds_
      BY <2>5
    <3>2. x # m
      BY <2>1, <2>5, <3>1 DEF b
    <3>3. PICK d \in Dependencies(cfg, m) : x \in NeedsOf(cfg, d)
      BY <2>1, <3>1, <3>2, NeedsFacts
    <3>4. PICK j \in 1..(n - 1) : plan_[j] = d
      BY <2>2, <3>3
    <3>5. needs(d)
      BY <3>1, <3>3
    <3> QED BY <2>1, <3>3, <3>4, <3>5
  <2>6. \A k : k \in 1..n <=> k \in 1..(n - 1) \/ k = n
    BY <1>1
  <2>7. \A x : (\E k \in 1..n : plan_[k] = x /\ needs(x))
                  <=> (\E k \in 1..(n - 1) : plan_[k] = x /\ needs(x)) \/ (x = m /\ needs(m))
    BY <2>6 DEF m
  <2>8. \A x : x \in f[n] <=> x \in s \/ (x = m /\ Dependencies(cfg, m) \cap s # {})
    BY <2>1 DEF Joined
  <2>9. Dependencies(cfg, m) \cap s # {} => needs(m)
    BY <2>4
  <2>10. needs(m) => m \in b \/ Dependencies(cfg, m) \cap s # {}
    BY <2>5
  <2> HIDE DEF needs
  <2>11. \A x : x \in f[n] <=> x \in b \/ \E k \in 1..n : plan_[k] = x /\ needs(x)
    BY <2>1, <2>7, <2>8, <2>9, <2>10, Zenon
  <2> QED BY <2>11
<1>13. N \in T
  <2> HIDE DEF T
  <2>1. \A n \in 0..N : n \in T
    BY <1>1, <1>11, <1>12, Induction
  <2> QED BY <1>1, <2>1
<1>14. \A x : x \in f[N] <=> x \in b \/ \E k \in 1..N : plan_[k] = x /\ needs(x)
  BY <1>13
<1>15. ASSUME NEW x
       PROVE  x \in f[N] <=> x \in ToSet(plan_) /\ needs(x)
  <2>1. CASE x \in f[N] /\ x \in b
    <3>1. x \in ToSet(plan_) /\ x \in seeds_ /\ x \in A
      BY <1>1, <2>1 DEF b
    <3>2. x \in NeedsOf(cfg, x)
      BY <3>1, NeedsFacts
    <3> QED BY <2>1, <3>1, <3>2
  <2>2. CASE x \in f[N] /\ x \notin b
    BY <1>1, <1>14, <2>2
  <2>3. CASE x \notin f[N]
    BY <1>1, <1>14, <2>3
  <2> QED BY <2>1, <2>2, <2>3
<1>16. f[N] = {n \in ToSet(plan_) : needs(n)}
  BY <1>15
<1> QED BY <1>2, <1>16

-----------------------------------------------------------------------------
(* What the services of several files are. *)

\* The services of the files, each with every origin that it may be given, and their names.
Raws(d) ==
  UNION {{[d.files[f].services[n] EXCEPT !.origin = p] : n \in DOMAIN d.files[f].services, p \in DOMAIN d.is}
            : f \in DOMAIN d.files}
Names(d) == UNION {DOMAIN d.files[f].services : f \in DOMAIN d.files}

IsRaw(d, services) ==
  /\ DOMAIN services \subseteq Int /\ IsFiniteSet(DOMAIN services)
  /\ \A n \in DOMAIN services : IsRawService(services[n]) /\ services[n].origin \in DOMAIN d.is

\* The states of include.rs's Loader.
LoaderServices(d) == UNION {[D -> Raws(d)] : D \in SUBSET Names(d)}
Kinds == {"DuplicateService", "IncludeNotAFragment", "IncludeCycle", "IncludeTwice", "IncludeRead", "Parse"}
LoaderErrors(d) == Kinds \X (Names(d) \cup DOMAIN d.is \cup {"version", "project"})
Loaders(d) ==
  [services : LoaderServices(d), chain : Seq(DOMAIN d.files), merged : SUBSET DOMAIN d.files,
   errors : SUBSET LoaderErrors(d), todo : Seq(Seq(DOMAIN d.is))]

\* The errors that a step of the walk reports.
LEMMA LoaderErrorFacts ==
  ASSUME NEW d
  PROVE  /\ \A w \in Kinds, n \in Names(d) : <<w, n>> \in LoaderErrors(d)
         /\ \A w \in Kinds, p \in DOMAIN d.is : <<w, p>> \in LoaderErrors(d)
         /\ \A w \in Kinds : <<w, "version">> \in LoaderErrors(d) /\ <<w, "project">> \in LoaderErrors(d)
BY DEF LoaderErrors

\* The sequences that a step of the walk makes.
LEMMA WalkSeqs ==
  ASSUME NEW T, NEW s \in Seq(T)
  PROVE  /\ \A x \in T : Append(s, x) \in Seq(T)
         /\ Front(s) \in Seq(T)
         /\ s # <<>> => /\ Len(s) \in 1..Len(s) /\ Last(s) \in T /\ Last(s) = s[Len(s)]
                        /\ \A x \in T : [s EXCEPT ![Len(s)] = x] \in Seq(T)
<1>1. \A x \in T : Append(s, x) \in Seq(T)
  BY AppendProperties
<1>2. Front(s) \in Seq(T)
  <2>1. 1 \in Int /\ Len(s) - 1 \in Int /\ \A i \in 1..(Len(s) - 1) : s[i] \in T
    OBVIOUS
  <2> QED BY <2>1, SubSeqProperties DEF Front
<1>3. ASSUME s # <<>>
      PROVE  /\ Len(s) \in 1..Len(s) /\ Last(s) \in T /\ Last(s) = s[Len(s)]
             /\ \A x \in T : [s EXCEPT ![Len(s)] = x] \in Seq(T)
  <2>1. Len(s) \in 1..Len(s)
    BY <1>3, EmptySeq
  <2>2. Last(s) \in T /\ Last(s) = s[Len(s)]
    BY <2>1 DEF Last
  <2>3. \A x \in T : [s EXCEPT ![Len(s)] = x] \in Seq(T)
    BY <2>1, ExceptSeq
  <2> QED BY <2>1, <2>2, <2>3
<1> QED BY <1>1, <1>2, <1>3

\* The fields of a Loader, and what stays one when a field is written.
LEMMA LoaderFacts ==
  ASSUME NEW d, NEW l \in Loaders(d)
  PROVE  /\ l.services \in LoaderServices(d) /\ l.chain \in Seq(DOMAIN d.files)
         /\ l.merged \in SUBSET DOMAIN d.files /\ l.errors \in SUBSET LoaderErrors(d)
         /\ l.todo \in Seq(Seq(DOMAIN d.is))
         /\ \A x \in LoaderServices(d) : [l EXCEPT !.services = x] \in Loaders(d)
         /\ \A x \in Seq(DOMAIN d.files) : [l EXCEPT !.chain = x] \in Loaders(d)
         /\ \A x \in SUBSET DOMAIN d.files : [l EXCEPT !.merged = x] \in Loaders(d)
         /\ \A x \in SUBSET LoaderErrors(d) : [l EXCEPT !.errors = x] \in Loaders(d)
         /\ \A x \in Seq(Seq(DOMAIN d.is)) : [l EXCEPT !.todo = x] \in Loaders(d)
<1> DEFINE V == LoaderServices(d) C == Seq(DOMAIN d.files) M == SUBSET DOMAIN d.files
           E == SUBSET LoaderErrors(d) D == Seq(Seq(DOMAIN d.is))
<1>1. Loaders(d) = [services : V, chain : C, merged : M, errors : E, todo : D]
  BY DEF Loaders
<1> HIDE DEF V, C, M, E, D
<1>2. /\ l.services \in V /\ l.chain \in C /\ l.merged \in M /\ l.errors \in E /\ l.todo \in D
      /\ \A x \in V : [l EXCEPT !.services = x] \in Loaders(d)
      /\ \A x \in C : [l EXCEPT !.chain = x] \in Loaders(d)
      /\ \A x \in M : [l EXCEPT !.merged = x] \in Loaders(d)
      /\ \A x \in E : [l EXCEPT !.errors = x] \in Loaders(d)
      /\ \A x \in D : [l EXCEPT !.todo = x] \in Loaders(d)
  BY <1>1
<1> QED BY <1>2 DEF V, C, M, E, D

\* A service with its origin written is the same but for that.
LEMMA OriginWritten ==
  ASSUME NEW s, IsRawService(s), NEW p, NEW x, x = [s EXCEPT !.origin = p]
  PROVE  /\ IsRawService(x) /\ x.origin = p
         /\ x.texts = s.texts /\ x.lists = s.lists /\ x.env = s.env
<1>1. x = [texts |-> s.texts, lists |-> s.lists, numbers |-> s.numbers, env |-> s.env,
           health |-> s.health, watch |-> s.watch, logs |-> s.logs,
           depends_on |-> s.depends_on, profiles |-> s.profiles,
           autostart |-> s.autostart, restart |-> s.restart, origin |-> p]
  BY DEF IsRawService
<1>2. /\ x.texts = s.texts /\ x.lists = s.lists /\ x.numbers = s.numbers /\ x.env = s.env
      /\ x.health = s.health /\ x.watch = s.watch /\ x.logs = s.logs
      /\ x.depends_on = s.depends_on /\ x.profiles = s.profiles
      /\ x.autostart = s.autostart /\ x.restart = s.restart /\ x.origin = p
  BY <1>1
<1>3. x = [texts |-> x.texts, lists |-> x.lists, numbers |-> x.numbers, env |-> x.env,
           health |-> x.health, watch |-> x.watch, logs |-> x.logs,
           depends_on |-> x.depends_on, profiles |-> x.profiles,
           autostart |-> x.autostart, restart |-> x.restart, origin |-> x.origin]
  BY <1>1, <1>2
<1>4. IsRawTable(x)
  BY <1>2 DEF IsRawService, IsRawTable
<1> QED BY <1>2, <1>3, <1>4 DEF IsRawService

\* What the files on a disk can name and declare.
LEMMA DiskFacts ==
  ASSUME NEW d, IsDisk(d)
  PROVE  /\ d.root \in DOMAIN d.is
         /\ \A p \in DOMAIN d.is : d.is[p] \in DOMAIN d.files /\ d.dir[p] \in d.dirs
         /\ IsFiniteSet(DOMAIN d.files)
         /\ \A f \in DOMAIN d.files : /\ d.files[f].include \in Seq(DOMAIN d.is)
                                      /\ DOMAIN d.files[f].services \subseteq Names(d)
         /\ Names(d) \subseteq Int /\ IsFiniteSet(Names(d))
         /\ \A x \in Raws(d) : IsRawService(x) /\ x.origin \in DOMAIN d.is
<1>1. /\ d.root \in DOMAIN d.is
      /\ \A p \in DOMAIN d.is : d.is[p] \in DOMAIN d.files /\ d.dir[p] \in d.dirs
      /\ IsFiniteSet(DOMAIN d.files)
      /\ \A f \in DOMAIN d.files : /\ d.files[f].include \in Seq(DOMAIN d.is)
                                   /\ DOMAIN d.files[f].services \subseteq Int
                                   /\ IsFiniteSet(DOMAIN d.files[f].services)
                                   /\ \A n \in DOMAIN d.files[f].services : IsRawService(d.files[f].services[n])
  BY DEF IsDisk
<1>2. IsFiniteSet(Names(d))
  <2> DEFINE F == DOMAIN d.files
             G == {DOMAIN d.files[f].services : f \in F}
             g == [f \in F |-> DOMAIN d.files[f].services]
  <2>1. g \in Surjection(F, G)
    BY DEF Surjection
  <2>2. \A T \in G : IsFiniteSet(T)
    BY <1>1
  <2>3. Names(d) = UNION G
    BY DEF Names
  <2> HIDE DEF F, G, g
  <2>4. IsFiniteSet(G)
    BY <1>1, <2>1, FS_Surjection DEF F
  <2> QED BY <2>2, <2>3, <2>4, FS_UNION
<1>3. ASSUME NEW x \in Raws(d)
      PROVE  IsRawService(x) /\ x.origin \in DOMAIN d.is
  <2>1. PICK f \in DOMAIN d.files :
              \E n \in DOMAIN d.files[f].services, p \in DOMAIN d.is :
                  x = [d.files[f].services[n] EXCEPT !.origin = p]
    BY DEF Raws
  <2>11. PICK n \in DOMAIN d.files[f].services, p \in DOMAIN d.is :
              x = [d.files[f].services[n] EXCEPT !.origin = p]
    BY <2>1
  <2> DEFINE s == d.files[f].services[n]
  <2>2. IsRawService(s)
    BY <1>1
  <2>3. x = [s EXCEPT !.origin = p]
    BY <2>11
  <2> HIDE DEF s
  <2> QED BY <2>2, <2>3, OriginWritten
<1>4. Names(d) \subseteq Int /\ \A f \in DOMAIN d.files : DOMAIN d.files[f].services \subseteq Names(d)
  BY <1>1 DEF Names
<1> QED BY <1>1, <1>2, <1>3, <1>4

\* What a file's services are when its path is put on them.
LEMMA StampedFacts ==
  ASSUME NEW d, IsDisk(d), NEW f \in DOMAIN d.files, NEW path \in DOMAIN d.is
  PROVE  LET s == Stamped(d.files[f].services, path)
         IN  s \in LoaderServices(d) /\ DOMAIN s = DOMAIN d.files[f].services
             /\ \A n \in DOMAIN s : s[n] \in Raws(d)
<1> DEFINE s == Stamped(d.files[f].services, path)
           D == DOMAIN d.files[f].services
<1>1. s = [n \in D |-> [d.files[f].services[n] EXCEPT !.origin = path]]
  BY DEF Stamped
<1>2. \A n \in D : [d.files[f].services[n] EXCEPT !.origin = path] \in Raws(d)
  BY DEF Raws
<1>3. D \in SUBSET Names(d)
  BY DiskFacts
<1> HIDE DEF s
<1>4. s \in [D -> Raws(d)]
  BY <1>1, <1>2
<1> QED BY <1>1, <1>3, <1>4 DEF LoaderServices, s

\* Taking over the services of a file leaves a Loader.
LEMMA AddKeepsLoader ==
  ASSUME NEW d, IsDisk(d), NEW l \in Loaders(d), NEW f \in DOMAIN d.files, NEW path \in DOMAIN d.is
  PROVE  AddServices(l, d.files[f].services, path) \in Loaders(d)
<1> DEFINE services == d.files[f].services
           twice == DOMAIN services \cap DOMAIN l.services
           all == DOMAIN services \cup DOMAIN l.services
           x == [n \in all |-> IF n \in DOMAIN l.services THEN l.services[n] ELSE Stamped(services, path)[n]]
           e == l.errors \cup {<<"DuplicateService", n>> : n \in twice}
<1>1. l.services \in LoaderServices(d)
  BY LoaderFacts
<1>2. PICK D \in SUBSET Names(d) : l.services \in [D -> Raws(d)]
  BY <1>1 DEF LoaderServices
<1>3. all \in SUBSET Names(d)
  BY <1>2, DiskFacts
<1>4. \A n \in all : x[n] \in Raws(d)
  <2> TAKE n \in all
  <2>1. CASE n \in DOMAIN l.services
    BY <1>2, <2>1
  <2>2. CASE n \notin DOMAIN l.services
    BY <2>2, StampedFacts
  <2> QED BY <2>1, <2>2
<1>5. x \in LoaderServices(d)
  <2>1. x = [n \in all |-> x[n]]
    OBVIOUS
  <2> HIDE DEF x, all
  <2>2. x \in [all -> Raws(d)]
    BY <1>4, <2>1
  <2> QED BY <1>3, <2>2 DEF LoaderServices
<1>6. e \in SUBSET LoaderErrors(d)
  <2>1. l.errors \in SUBSET LoaderErrors(d) /\ twice \subseteq Names(d)
    BY <1>3, LoaderFacts
  <2>2. \A n \in twice : <<"DuplicateService", n>> \in LoaderErrors(d)
    <3>1. "DuplicateService" \in Kinds
      BY DEF Kinds
    <3> QED BY <2>1, <3>1, LoaderErrorFacts
  <2> QED BY <2>1, <2>2
<1> DEFINE m == [l EXCEPT !.services = x]
<1>7. m \in Loaders(d)
  BY <1>5, LoaderFacts
<1>8. [m EXCEPT !.errors = e] \in Loaders(d)
  <2> HIDE DEF m, e
  <2> QED BY <1>6, <1>7, LoaderFacts
<1>9. AddServices(l, services, path) = [l EXCEPT !.services = x, !.errors = e]
  BY DEF AddServices
<1>10. [l EXCEPT !.services = x, !.errors = e] = [m EXCEPT !.errors = e]
  <2> HIDE DEF x, e
  <2> QED BY DEF Loaders
<1> QED BY <1>8, <1>9, <1>10

\* What is said of a file that is no fragment leaves a Loader.
LEMMA CheckKeepsLoader ==
  ASSUME NEW d, NEW l \in Loaders(d), NEW fragment
  PROVE  NotAFragment(l, fragment) \in Loaders(d)
<1> DEFINE e == l.errors
      \cup (IF fragment.version # 0 THEN {<<"IncludeNotAFragment", "version">>} ELSE {})
      \cup (IF fragment.project THEN {<<"IncludeNotAFragment", "project">>} ELSE {})
<1>1. NotAFragment(l, fragment) = [l EXCEPT !.errors = e]
  BY DEF NotAFragment
<1>2. l.errors \in SUBSET LoaderErrors(d)
  BY LoaderFacts
<1>3. {<<"IncludeNotAFragment", "version">>, <<"IncludeNotAFragment", "project">>} \subseteq LoaderErrors(d)
  <2>1. "IncludeNotAFragment" \in Kinds
    BY DEF Kinds
  <2>2. /\ <<"IncludeNotAFragment", "version">> \in LoaderErrors(d)
        /\ <<"IncludeNotAFragment", "project">> \in LoaderErrors(d)
    BY <2>1, LoaderErrorFacts
  <2> QED BY <2>2
<1>4. e \in SUBSET LoaderErrors(d)
  BY <1>2, <1>3
<1> HIDE DEF e
<1>5. [l EXCEPT !.errors = e] \in Loaders(d)
  BY <1>4, LoaderFacts
<1> QED BY <1>1, <1>5

\* Visiting a file leaves a Loader.
LEMMA OneKeepsLoader ==
  ASSUME NEW d, IsDisk(d), NEW l \in Loaders(d), NEW path \in DOMAIN d.is
  PROVE  One(d, l, path) \in Loaders(d)
<1> DEFINE id == d.is[path]
           fragment == d.files[id]
           merged == [l EXCEPT !.merged = l.merged \cup {id}]
           checked == NotAFragment(merged, fragment)
           added == AddServices(checked, fragment.services, path)
           entered == [added EXCEPT !.chain = Append(added.chain, id)]
           last == [entered EXCEPT !.todo = Append(entered.todo, fragment.include)]
           failed(what) == [l EXCEPT !.errors = l.errors \cup {<<what, path>>}]
<1>1. id \in DOMAIN d.files /\ fragment.include \in Seq(DOMAIN d.is)
  BY DiskFacts
<1>2. merged \in Loaders(d)
  BY <1>1, LoaderFacts
<1>3. checked \in Loaders(d)
  <2> HIDE DEF merged
  <2> QED BY <1>2, CheckKeepsLoader
<1>4. added \in Loaders(d)
  <2> HIDE DEF checked
  <2> QED BY <1>1, <1>3, AddKeepsLoader
<1>5. entered \in Loaders(d)
  <2> HIDE DEF added, id
  <2>1. Append(added.chain, id) \in Seq(DOMAIN d.files)
    <3>1. added.chain \in Seq(DOMAIN d.files)
      BY <1>4, LoaderFacts
    <3> QED BY <1>1, <3>1, WalkSeqs DEF id
  <2> QED BY <1>4, <2>1, LoaderFacts
<1>6. last \in Loaders(d)
  <2> DEFINE i == fragment.include
  <2> HIDE DEF entered, i
  <2>1. Append(entered.todo, i) \in Seq(Seq(DOMAIN d.is))
    <3>1. entered.todo \in Seq(Seq(DOMAIN d.is)) /\ i \in Seq(DOMAIN d.is)
      BY <1>1, <1>5, LoaderFacts DEF i
    <3> QED BY <3>1, WalkSeqs
  <2> QED BY <1>5, <2>1, LoaderFacts DEF i
<1>7. \A what \in Kinds : failed(what) \in Loaders(d)
  <2> TAKE what \in Kinds
  <2>1. l.errors \cup {<<what, path>>} \in SUBSET LoaderErrors(d)
    <3>1. <<what, path>> \in LoaderErrors(d) /\ l.errors \in SUBSET LoaderErrors(d)
      BY LoaderErrorFacts, LoaderFacts
    <3> QED BY <3>1
  <2> QED BY <2>1, LoaderFacts
<1>8. [added EXCEPT !.chain = Append(@, id), !.todo = Append(@, fragment.include)] = last
  <2> DEFINE i == fragment.include
  <2> HIDE DEF added, id, i
  <2>1. added = [services |-> added.services, chain |-> added.chain, merged |-> added.merged,
                 errors |-> added.errors, todo |-> added.todo]
    BY <1>4 DEF Loaders
  <2> QED BY <2>1 DEF i
<1>9. \/ One(d, l, path) = last
      \/ \E what \in Kinds : One(d, l, path) = failed(what)
  <2>1. {"IncludeCycle", "IncludeTwice", "IncludeRead", "Parse"} \subseteq Kinds
    BY DEF Kinds
  <2>2. \A e : Fail(l, e) = [l EXCEPT !.errors = l.errors \cup {e}]
    BY DEF Fail
  <2>3. added = AddServices(NotAFragment([l EXCEPT !.merged = @ \cup {id}], fragment), fragment.services, path)
    OBVIOUS
  <2> DEFINE end == [added EXCEPT !.chain = Append(@, id), !.todo = Append(@, fragment.include)]
  <2>4. \/ One(d, l, path) = end
        \/ One(d, l, path) = Fail(l, <<"IncludeCycle", path>>)
        \/ One(d, l, path) = Fail(l, <<"IncludeTwice", path>>)
        \/ One(d, l, path) = Fail(l, <<"IncludeRead", path>>)
        \/ One(d, l, path) = Fail(l, <<"Parse", path>>)
    BY DEF One
  <2> HIDE DEF end, last
  <2>5. end = last
    BY <1>8 DEF end
  <2> QED BY <2>1, <2>2, <2>4, <2>5
<1> QED BY <1>6, <1>7, <1>9

\* One step of the walk over the includes leaves a Loader.
LEMMA IncludeKeepsLoader ==
  ASSUME NEW d, IsDisk(d), NEW l \in Loaders(d)
  PROVE  IncludeNext(d, l) \in Loaders(d)
<1> DEFINE paths_ == Last(l.todo)
           n == Len(l.todo)
<1>1. l.todo \in Seq(Seq(DOMAIN d.is)) /\ l.chain \in Seq(DOMAIN d.files)
  BY LoaderFacts
<1>2. CASE l.todo = <<>>
  BY <1>2 DEF IncludeNext
<1>3. CASE l.todo # <<>>
  <2>1. paths_ \in Seq(DOMAIN d.is) /\ n \in 1..Len(l.todo)
    BY <1>1, <1>3 DEF Last
  <2> HIDE DEF paths_
  <2>2. CASE paths_ = <<>>
    <3> DEFINE m == [l EXCEPT !.chain = Front(l.chain)]
    <3>1. Front(l.chain) \in Seq(DOMAIN d.files) /\ Front(l.todo) \in Seq(Seq(DOMAIN d.is))
      BY <1>1, WalkSeqs
    <3>2. m \in Loaders(d)
      BY <3>1, LoaderFacts
    <3>3. [m EXCEPT !.todo = Front(l.todo)] \in Loaders(d)
      <4> HIDE DEF m
      <4> QED BY <3>1, <3>2, LoaderFacts
    <3>4. IncludeNext(d, l) = [l EXCEPT !.chain = Front(@), !.todo = Front(@)]
      BY <1>3, <2>2 DEF IncludeNext, paths_
    <3>5. [l EXCEPT !.chain = Front(@), !.todo = Front(@)] = [m EXCEPT !.todo = Front(l.todo)]
      BY DEF Loaders
    <3> QED BY <3>3, <3>4, <3>5
  <2>3. CASE paths_ # <<>>
    <3> DEFINE rest == [l.todo EXCEPT ![n] = Tail(paths_)]
               m == [l EXCEPT !.todo = rest]
    <3>1. Head(paths_) \in DOMAIN d.is /\ Tail(paths_) \in Seq(DOMAIN d.is)
      BY <2>1, <2>3
    <3>2. rest \in Seq(Seq(DOMAIN d.is))
      BY <1>1, <1>3, <3>1, WalkSeqs
    <3>3. m \in Loaders(d)
      <4> HIDE DEF rest
      <4> QED BY <3>2, LoaderFacts
    <3>4. [l EXCEPT !.todo[Len(l.todo)] = Tail(@)] = m
      <4>1. l.todo[n] = paths_
        BY DEF paths_, Last
      <4> QED BY <4>1
    <3>5. IncludeNext(d, l) = One(d, m, Head(paths_))
      BY <1>3, <2>3, <3>4 DEF IncludeNext, paths_
    <3> HIDE DEF m
    <3> QED BY <3>1, <3>3, <3>5, OneKeepsLoader
  <2> QED BY <2>2, <2>3
<1> QED BY <1>2, <1>3

\* A sequence of one.
LEMMA SingletonSeq ==
  ASSUME NEW T, NEW x \in T
  PROVE  <<x>> \in Seq(T)
OBVIOUS

\* The walk begins with a Loader.
LEMMA LoaderStarts ==
  ASSUME NEW d, IsDisk(d)
  PROVE  MergeStart(d, d.root) \in Loaders(d)
<1> DEFINE id == d.is[d.root]
           file == d.files[id]
           s == Stamped(file.services, d.root)
           i == file.include
<1>1. d.root \in DOMAIN d.is /\ id \in DOMAIN d.files /\ i \in Seq(DOMAIN d.is)
  BY DiskFacts
<1>2. s \in LoaderServices(d)
  BY <1>1, StampedFacts
<1>3. MergeStart(d, d.root) = [services |-> s, chain |-> <<id>>, merged |-> {}, errors |-> {}, todo |-> <<i>>]
  BY DEF MergeStart
<1> HIDE DEF s, i, id
<1>4. <<id>> \in Seq(DOMAIN d.files)
  BY <1>1, SingletonSeq
<1>5. <<i>> \in Seq(Seq(DOMAIN d.is))
  BY <1>1, SingletonSeq
<1>6. {} \in SUBSET DOMAIN d.files /\ {} \in SUBSET LoaderErrors(d)
  OBVIOUS
<1> QED BY <1>2, <1>3, <1>4, <1>5, <1>6 DEF Loaders

-----------------------------------------------------------------------------
(* The walk over the includes. *)

\* Where the include entries of a file lead, and what has been come to.
Includes(d, f)   == d.files[f].include
EntriesOf(d, f)  == {f} \X (1..Len(Includes(d, f)))
AllEntries(d)    == UNION {EntriesOf(d, f) : f \in DOMAIN d.files}
Leads(d, e)      == d.is[Includes(d, e[1])[e[2]]]
Come(d, l)       == l.merged \cup {d.is[d.root]}
HasIncludes(d, T) == d.is[d.root] \in T /\ \A f \in T : \A e \in EntriesOf(d, f) : Leads(d, e) \in T

\* The services that a file declares, and whether it is one that may be included.
Declares(d, f)  == DOMAIN d.files[f].services
MayBe(d, f)     == LET x == d.files[f] IN x.kind = "toml" /\ ~x.unknown /\ x.version = 0 /\ ~x.project

\* The include lists under way: of the file at place k of the chain, the entries of D are
\* behind us, and what is left of its list is `todo'.
OnStack(d, l, D) ==
  /\ Len(l.todo) = Len(l.chain)
  /\ l.chain # <<>> => l.chain[1] = d.is[d.root]
  /\ \A k \in 1..Len(l.chain) :
        /\ l.chain[k] \in Come(d, l)
        /\ \E past \in 0..Len(Includes(d, l.chain[k])) :
              /\ Len(l.todo[k]) = Len(Includes(d, l.chain[k])) - past
              /\ \A i \in 1..Len(l.todo[k]) : l.todo[k][i] = Includes(d, l.chain[k])[past + i]
              /\ \A i \in 1..Len(Includes(d, l.chain[k])) : <<l.chain[k], i>> \in D <=> i <= past
  /\ \A j, k \in 1..Len(l.chain) : l.chain[j] = l.chain[k] => j = k

\* Each file but the root was come to by one entry, and each entry led to a file of its own.
CameBy(d, l, D) ==
  /\ \A e \in D : e[1] \in Come(d, l) /\ e \in EntriesOf(d, e[1])
  /\ \A f \in Come(d, l) : f \in ToSet(l.chain) \/ EntriesOf(d, f) \subseteq D
  /\ d.is[d.root] \notin l.merged
  /\ \A e \in D : Leads(d, e) \in l.merged
  /\ \A f \in l.merged : \E e \in D : Leads(d, e) = f
  /\ \A e, g \in D : Leads(d, e) = Leads(d, g) => e = g
  /\ \A T \in SUBSET DOMAIN d.files : HasIncludes(d, T) => Come(d, l) \subseteq T

\* A service is what the file of its origin says.
IsFrom(d, n, s) ==
  n \in Declares(d, d.is[s.origin]) /\ s = [d.files[d.is[s.origin]].services[n] EXCEPT !.origin = s.origin]

\* Their services have been taken over.
Gathered(d, l) ==
  /\ \A f \in l.merged : MayBe(d, f)
  /\ DOMAIN l.services = UNION {Declares(d, f) : f \in Come(d, l)}
  /\ \A f, g \in Come(d, l) : f # g => Declares(d, f) \cap Declares(d, g) = {}
  /\ \A n \in DOMAIN l.services : d.is[l.services[n].origin] \in Come(d, l) /\ IsFrom(d, n, l.services[n])

\* What every turn keeps as long as there is no error.  A turn takes an entry or leaves a
\* file.
Walking(d, l, D, t) ==
  /\ l \in Loaders(d) /\ OnStack(d, l, D) /\ CameBy(d, l, D) /\ Gathered(d, l)
  /\ l.todo # <<>> => t <= Cardinality(D) + Cardinality(Come(d, l) \ ToSet(l.chain))

\* The front of a sequence that is not empty.
LEMMA FrontFacts ==
  ASSUME NEW T, NEW s \in Seq(T), NEW n \in Nat \ {0}, Len(s) = n
  PROVE  /\ Front(s) \in Seq(T) /\ Len(Front(s)) = n - 1
         /\ \A k \in 1..(n - 1) : Front(s)[k] = s[k]
BY DEF Front

\* A sequence whose members are in another set.
LEMMA SeqIn ==
  ASSUME NEW T, NEW s \in Seq(T), NEW S, \A k \in 1..Len(s) : s[k] \in S
  PROVE  s \in Seq(S)
OBVIOUS

\* The include entries of all files are finite in number.
LEMMA EntriesAreFinite ==
  ASSUME NEW d, IsDisk(d)
  PROVE  IsFiniteSet(AllEntries(d))
<1> DEFINE F == DOMAIN d.files
           G == {EntriesOf(d, f) : f \in F}
           e == [f \in F |-> EntriesOf(d, f)]
<1>1. e \in Surjection(F, G) /\ IsFiniteSet(F)
  BY DiskFacts DEF Surjection
<1>2. ASSUME NEW f \in F PROVE IsFiniteSet(EntriesOf(d, f))
  <2>1. Includes(d, f) \in Seq(DOMAIN d.is)
    BY DiskFacts DEF Includes
  <2>2. IsFiniteSet(1..Len(Includes(d, f)))
    <3>1. Len(Includes(d, f)) \in Nat
      BY <2>1
    <3> QED BY <3>1, FS_Interval
  <2> QED BY <2>2, FS_Singleton, FS_Product DEF EntriesOf
<1>3. \A T \in G : IsFiniteSet(T)
  BY <1>2
<1>4. AllEntries(d) = UNION G
  BY DEF AllEntries
<1> HIDE DEF F, G, e
<1>5. IsFiniteSet(G)
  BY <1>1, FS_Surjection
<1> QED BY <1>3, <1>4, <1>5, FS_UNION

MergeLoop(d, N, f) ==
  [t \in 0..N |-> IF t = 0 THEN MergeStart(d, d.root) ELSE IncludeNext(d, f[t - 1])]

\* The number of turns that merge() can take.
Visits(d) == Cardinality(AllEntries(d)) + Cardinality(DOMAIN d.files)

\* merge() goes from loader to loader, and returns the last.
LEMMA MergeRuns ==
  ASSUME NEW d, IsDisk(d)
  PROVE  /\ Visits(d) \in Nat
         /\ \E h : /\ \A n \in 0..Visits(d) : h[n] \in Loaders(d)
                   /\ h[0] = MergeStart(d, d.root)
                   /\ \A n \in 1..Visits(d) : h[n] = IncludeNext(d, h[n - 1])
                   /\ Merge(d, d.root) = h[Visits(d)]
<1> DEFINE F == DOMAIN d.files
           entries == UNION {{f} \X DOMAIN d.files[f].include : f \in F}
           N == Visits(d)
           S == Loaders(d)
           b == MergeStart(d, d.root)
           K == Cardinality(entries) + Cardinality(F)
           l == CHOOSE f : f = MergeLoop(d, N, f)
           lk == CHOOSE f : f = MergeLoop(d, K, f)
           g == [x \in (1..N) \X S |-> IncludeNext(d, x[2])]
<1>1. N = K
  <2>1. ASSUME NEW f \in F PROVE {f} \X DOMAIN d.files[f].include = EntriesOf(d, f)
    <3>1. d.files[f].include \in Seq(DOMAIN d.is)
      BY DiskFacts
    <3>2. DOMAIN d.files[f].include = 1..Len(d.files[f].include)
      BY <3>1
    <3> QED BY <3>2 DEF EntriesOf, Includes
  <2>2. {{f} \X DOMAIN d.files[f].include : f \in F} = {EntriesOf(d, f) : f \in F}
    BY <2>1
  <2>3. entries = AllEntries(d)
    BY <2>2 DEF AllEntries
  <2> HIDE DEF entries
  <2> QED BY <2>3 DEF Visits
<1>2. Merge(d, d.root) = l[N]
  <2>1. Merge(d, d.root) = lk[K]
    BY DEF Merge, MergeLoop
  <2> HIDE DEF K, N
  <2> QED BY <1>1, <2>1
<1> HIDE DEF entries, K
<1>3. N \in Nat
  <2>1. Cardinality(AllEntries(d)) \in Nat /\ Cardinality(F) \in Nat
    BY DiskFacts, EntriesAreFinite, FS_CardinalityType
  <2> QED BY <2>1 DEF Visits
<1> HIDE DEF F
<1>4. b \in S
  BY LoaderStarts
<1>5. g \in [(1..N) \X S -> S] /\ \A n \in 1..N, s \in S : g[<<n, s>>] = IncludeNext(d, s)
  BY IncludeKeepsLoader
<1> HIDE DEF N, S, g, b
<1>6. PICK h : Runs(N, S, b, g, h)
  BY <1>3, <1>4, <1>5, Iterates
<1>7. /\ h \in [0..N -> S] /\ h[0] = b
      /\ \A n \in 1..N : n - 1 \in 0..N /\ h[n] = IncludeNext(d, h[n - 1])
  <2>1. \A n \in 1..N : n - 1 \in 0..N
    BY <1>3
  <2> QED BY <1>5, <1>6, <2>1 DEF Runs
<1>8. h = MergeLoop(d, N, h)
  <2>1. h = [n \in 0..N |-> h[n]]
    BY <1>7
  <2>2. ASSUME NEW n \in 0..N
        PROVE  h[n] = IF n = 0 THEN b ELSE IncludeNext(d, h[n - 1])
    <3>1. CASE n = 0
      BY <1>7, <3>1
    <3>2. CASE n # 0
      <4>1. n \in 1..N
        BY <1>3, <3>2
      <4> QED BY <1>7, <3>2, <4>1
    <3> QED BY <3>1, <3>2
  <2> QED BY <2>1, <2>2 DEF MergeLoop, b
<1>9. l = MergeLoop(d, N, l)
  BY <1>8, Zenon
<1> HIDE DEF l
<1>10. l[0] = b /\ \A n \in 1..N : l[n] = IncludeNext(d, l[n - 1])
  <2> DEFINE r == MergeLoop(d, N, l)
  <2>1. \A n \in 0..N : r[n] = IF n = 0 THEN b ELSE IncludeNext(d, l[n - 1])
    BY DEF MergeLoop, b
  <2>2. l = r
    BY <1>9
  <2> HIDE DEF r
  <2>3. \A n \in 1..N : n \in 0..N /\ n # 0
    BY <1>3
  <2>4. 0 \in 0..N
    BY <1>3
  <2> QED BY <2>1, <2>2, <2>3, <2>4
<1> DEFINE T == {n \in 0..N : l[n] \in S}
<1>11. \A n \in 0..N : n \in T
  <2>1. 0 \in T
    BY <1>3, <1>4, <1>10
  <2>2. \A n \in 1..N : n - 1 \in T => n \in T
    BY <1>10, IncludeKeepsLoader DEF S
  <2> HIDE DEF T
  <2> QED BY <1>3, <2>1, <2>2, Induction
<1>12. \A n \in 0..N : l[n] \in S
  BY <1>11
<1> QED BY <1>2, <1>3, <1>10, <1>12 DEF N, S, b

\* merge() hands on services that are services of the files.
LEMMA MergeIsRaw ==
  ASSUME NEW d, IsDisk(d)
  PROVE  IsRaw(d, Merge(d, d.root).services)
<1> DEFINE m == Merge(d, d.root)
<1>1. m \in Loaders(d)
  <2>1. PICK h : (\A n \in 0..Visits(d) : h[n] \in Loaders(d)) /\ m = h[Visits(d)]
    BY MergeRuns
  <2>2. Visits(d) \in 0..Visits(d)
    BY MergeRuns
  <2> HIDE DEF m
  <2> QED BY <2>1, <2>2
<1> HIDE DEF m
<1>2. PICK D \in SUBSET Names(d) : m.services \in [D -> Raws(d)]
  <2>1. m.services \in LoaderServices(d)
    BY <1>1, LoaderFacts
  <2> QED BY <2>1 DEF LoaderServices
<1>3. DOMAIN m.services \subseteq Names(d) /\ \A n \in DOMAIN m.services : m.services[n] \in Raws(d)
  BY <1>2
<1>4. DOMAIN m.services \subseteq Int /\ IsFiniteSet(DOMAIN m.services)
  BY <1>3, DiskFacts, FS_Subset
<1> QED BY <1>3, <1>4, DiskFacts DEF IsRaw, m

\* The fields of a Loader with one of them written.
LEMMA LoaderWrites ==
  ASSUME NEW d, NEW l \in Loaders(d), NEW x
  PROVE  /\ LET m == [l EXCEPT !.errors = x]
            IN  /\ m.errors = x /\ m.services = l.services /\ m.chain = l.chain
                /\ m.merged = l.merged /\ m.todo = l.todo
         /\ LET m == [l EXCEPT !.merged = x]
            IN  /\ m.merged = x /\ m.services = l.services /\ m.chain = l.chain
                /\ m.errors = l.errors /\ m.todo = l.todo
         /\ LET m == [l EXCEPT !.todo = x]
            IN  /\ m.todo = x /\ m.services = l.services /\ m.chain = l.chain
                /\ m.errors = l.errors /\ m.merged = l.merged
         /\ \A y : LET m == [l EXCEPT !.chain = x, !.todo = y]
                   IN  /\ m.chain = x /\ m.todo = y /\ m.services = l.services
                       /\ m.errors = l.errors /\ m.merged = l.merged
         /\ \A y : LET m == [l EXCEPT !.services = x, !.errors = y]
                   IN  /\ m.services = x /\ m.errors = y /\ m.chain = l.chain
                       /\ m.todo = l.todo /\ m.merged = l.merged
<1> DEFINE V == LoaderServices(d) C == Seq(DOMAIN d.files) M == SUBSET DOMAIN d.files
           E == SUBSET LoaderErrors(d) T == Seq(Seq(DOMAIN d.is))
<1>1. l \in [services : V, chain : C, merged : M, errors : E, todo : T]
  BY DEF Loaders
<1> HIDE DEF V, C, M, E, T
<1> QED BY <1>1

\* What Loader::one makes of a path: an error, or a file more.
LEMMA VisitFacts ==
  ASSUME NEW d, IsDisk(d), NEW l \in Loaders(d), NEW path \in DOMAIN d.is
  PROVE  LET id == d.is[path] file == d.files[id] m == One(d, l, path)
         IN  \/ /\ m.errors # {}
                /\ id \in ToSet(l.chain) \/ id \in l.merged \/ ~MayBe(d, id)
             \/ /\ id \notin ToSet(l.chain) /\ id \notin l.merged
                /\ m.chain = Append(l.chain, id) /\ m.todo = Append(l.todo, Includes(d, id))
                /\ m.merged = l.merged \cup {id}
                /\ DOMAIN m.services = Declares(d, id) \cup DOMAIN l.services
                /\ \A n \in DOMAIN l.services : m.services[n] = l.services[n]
                /\ \A n \in DOMAIN m.services \ DOMAIN l.services :
                      m.services[n].origin = path /\ IsFrom(d, n, m.services[n])
                /\ m.errors = {} <=> l.errors = {} /\ MayBe(d, id) /\ Declares(d, id) \cap DOMAIN l.services = {}
<1> DEFINE id == d.is[path]
           file == d.files[id]
           merged == [l EXCEPT !.merged = l.merged \cup {id}]
           checked == NotAFragment(merged, file)
           added == AddServices(checked, file.services, path)
           end == [added EXCEPT !.chain = Append(added.chain, id), !.todo = Append(added.todo, file.include)]
           turned == \/ OnChain(l, d, path) \/ AlreadyMerged(l, d, path)
                     \/ file.kind = "absent" \/ file.kind = "garbled" \/ file.unknown
<1>1. id \in DOMAIN d.files
  BY DiskFacts
<1>2. merged \in Loaders(d) /\ checked \in Loaders(d) /\ added \in Loaders(d)
  <2>1. merged \in Loaders(d)
    BY <1>1, LoaderFacts
  <2> HIDE DEF merged
  <2>2. checked \in Loaders(d)
    BY <1>1, <2>1, CheckKeepsLoader
  <2> HIDE DEF checked
  <2> QED BY <1>1, <2>1, <2>2, AddKeepsLoader
<1>3. OnChain(l, d, path) <=> id \in ToSet(l.chain)
  BY DEF OnChain, ToSet
<1>4. AlreadyMerged(l, d, path) <=> id \in l.merged
  BY DEF AlreadyMerged
<1>5. file.kind = "toml" <=> file.kind # "absent" /\ file.kind # "garbled"
  BY <1>1 DEF IsDisk
<1>6. CASE turned
  <2>1. \E e : One(d, l, path) = Fail(l, e)
    <3> HIDE DEF end
    <3>1. One(d, l, path) = IF OnChain(l, d, path)    THEN Fail(l, <<"IncludeCycle", path>>)
        ELSE IF AlreadyMerged(l, d, path) THEN Fail(l, <<"IncludeTwice", path>>)
        ELSE IF file.kind = "absent"          THEN Fail(l, <<"IncludeRead", path>>)
        ELSE IF file.kind = "garbled" \/ file.unknown THEN Fail(l, <<"Parse", path>>)
        ELSE end
      BY DEF One, end
    <3> QED BY <1>6, <3>1
  <2>2. PICK e : One(d, l, path) = [l EXCEPT !.errors = l.errors \cup {e}]
    BY <2>1 DEF Fail
  <2>3. One(d, l, path).errors = l.errors \cup {e}
    BY <2>2, LoaderWrites
  <2>4. id \in ToSet(l.chain) \/ id \in l.merged \/ ~MayBe(d, id)
    BY <1>3, <1>4, <1>6 DEF MayBe
  <2> QED BY <2>3, <2>4
<1>7. CASE ~turned
  <2>1. One(d, l, path) = end
    <3> DEFINE e == end
    <3>1. e = end
      OBVIOUS
    <3>2. One(d, l, path) = IF OnChain(l, d, path)    THEN Fail(l, <<"IncludeCycle", path>>)
        ELSE IF AlreadyMerged(l, d, path) THEN Fail(l, <<"IncludeTwice", path>>)
        ELSE IF file.kind = "absent"          THEN Fail(l, <<"IncludeRead", path>>)
        ELSE IF file.kind = "garbled" \/ file.unknown THEN Fail(l, <<"Parse", path>>)
        ELSE e
      BY DEF One
    <3> HIDE DEF e
    <3> QED BY <1>7, <3>1, <3>2
  <2> DEFINE noted == (IF file.version # 0 THEN {<<"IncludeNotAFragment", "version">>} ELSE {})
                      \cup (IF file.project THEN {<<"IncludeNotAFragment", "project">>} ELSE {})
             twice == Declares(d, id) \cap DOMAIN l.services
             all == Declares(d, id) \cup DOMAIN l.services
             x == [n \in all |-> IF n \in DOMAIN l.services THEN l.services[n] ELSE Stamped(file.services, path)[n]]
             y == checked.errors \cup {<<"DuplicateService", n>> : n \in twice}
  <2>2. /\ merged.merged = l.merged \cup {id} /\ merged.services = l.services /\ merged.chain = l.chain
        /\ merged.todo = l.todo /\ merged.errors = l.errors
    BY LoaderWrites
  <2>3. checked = [merged EXCEPT !.errors = merged.errors \cup noted]
    <3> HIDE DEF merged
    <3> QED BY DEF NotAFragment
  <2> HIDE DEF merged, checked
  <2>4. /\ checked.merged = l.merged \cup {id} /\ checked.services = l.services /\ checked.chain = l.chain
        /\ checked.todo = l.todo /\ checked.errors = l.errors \cup noted
    <3> HIDE DEF noted
    <3> QED BY <1>2, <2>2, <2>3, LoaderWrites
  <2>5. added = [checked EXCEPT !.services = x, !.errors = y]
    BY <2>4 DEF AddServices, Declares
  <2>6. DOMAIN x = all /\ \A n \in DOMAIN l.services : x[n] = l.services[n]
    OBVIOUS
  <2>7. \A n \in DOMAIN x \ DOMAIN l.services : x[n].origin = path /\ IsFrom(d, n, x[n])
    <3> SUFFICES ASSUME NEW n \in Declares(d, id), n \notin DOMAIN l.services
                 PROVE  x[n].origin = path /\ IsFrom(d, n, x[n])
      OBVIOUS
    <3> DEFINE v == file.services[n]
    <3>1. x[n] = [v EXCEPT !.origin = path]
      <4>1. x[n] = Stamped(file.services, path)[n]
        OBVIOUS
      <4> QED BY <4>1 DEF Stamped, Declares
    <3>2. IsRawService(v)
      BY <1>1 DEF IsDisk, Declares
    <3> HIDE DEF v, x
    <3>3. x[n].origin = path
      BY <3>1, <3>2, OriginWritten
    <3> QED BY <3>1, <3>3 DEF IsFrom, v
  <2> HIDE DEF x, y
  <2>8. /\ added.merged = l.merged \cup {id} /\ added.services = x /\ added.chain = l.chain
        /\ added.todo = l.todo /\ added.errors = y
    BY <1>2, <2>4, <2>5, LoaderWrites
  <2> HIDE DEF added
  <2>9. /\ end.merged = l.merged \cup {id} /\ end.services = x /\ end.chain = Append(l.chain, id)
        /\ end.todo = Append(l.todo, Includes(d, id)) /\ end.errors = y
    BY <1>2, <2>8, LoaderWrites DEF Includes
  <2>10. y = {} <=> l.errors = {} /\ MayBe(d, id) /\ twice = {}
    <3>1. y = l.errors \cup noted \cup {<<"DuplicateService", n>> : n \in twice}
      BY <2>4 DEF y
    <3>2. noted = {} <=> file.version = 0 /\ ~file.project
      OBVIOUS
    <3>3. MayBe(d, id) <=> noted = {}
      BY <1>5, <1>7, <3>2 DEF MayBe
    <3> HIDE DEF noted, twice
    <3> QED BY <3>1, <3>3
  <2>11. id \notin ToSet(l.chain) /\ id \notin l.merged
    BY <1>3, <1>4, <1>7
  <2> HIDE DEF end
  <2> QED BY <2>1, <2>6, <2>7, <2>9, <2>10, <2>11
<1> QED BY <1>6, <1>7

\* The walk begins in the root, with nothing behind it.
LEMMA WalkStarts ==
  ASSUME NEW d, IsDisk(d)
  PROVE  MergeStart(d, d.root).errors = {} /\ Walking(d, MergeStart(d, d.root), {}, 0)
<1> DEFINE id == d.is[d.root]
           i == Includes(d, id)
           s == Stamped(d.files[id].services, d.root)
           l == MergeStart(d, d.root)
<1>1. d.root \in DOMAIN d.is /\ id \in DOMAIN d.files /\ i \in Seq(DOMAIN d.is)
  BY DiskFacts DEF Includes
<1>2. DOMAIN s = Declares(d, id)
  BY DEF Stamped, Declares
<1>3. ASSUME NEW n \in DOMAIN s
      PROVE  s[n].origin = d.root /\ IsFrom(d, n, s[n])
  <2> DEFINE v == d.files[id].services[n]
  <2>1. IsRawService(v) /\ s[n] = [v EXCEPT !.origin = d.root]
    BY <1>1, <1>2, <1>3 DEF Stamped, Declares, IsDisk
  <2>2. n \in Declares(d, id)
    BY <1>2, <1>3
  <2> HIDE DEF s, v
  <2>3. s[n].origin = d.root
    BY <2>1, OriginWritten
  <2> QED BY <2>1, <2>2, <2>3 DEF IsFrom, v
<1>4. l = [services |-> s, chain |-> <<id>>, merged |-> {}, errors |-> {}, todo |-> <<i>>]
  BY DEF MergeStart, Includes
<1> HIDE DEF s, l
<1>5. l.services = s /\ l.chain = <<id>> /\ l.merged = {} /\ l.errors = {} /\ l.todo = <<i>>
  BY <1>4
<1>6. Come(d, l) = {id}
  BY <1>5 DEF Come
<1>7. OnStack(d, l, {})
  <2>1. Len(l.todo) = 1 /\ Len(l.chain) = 1 /\ l.chain[1] = id /\ l.todo[1] = i
    BY <1>5
  <2>2. Len(i) \in Nat /\ Includes(d, l.chain[1]) = i
    BY <1>1, <2>1
  <2> HIDE DEF i, id
  <2>3. \E past \in 0..Len(i) : /\ Len(l.todo[1]) = Len(i) - past
                                /\ \A j \in 1..Len(l.todo[1]) : l.todo[1][j] = i[past + j]
                                /\ \A j \in 1..Len(i) : <<l.chain[1], j>> \in {} <=> j <= past
    <3>1. 0 \in 0..Len(i) /\ Len(l.todo[1]) = Len(i) - 0
      BY <2>1, <2>2
    <3>2. \A j \in 1..Len(l.todo[1]) : l.todo[1][j] = i[0 + j]
      BY <2>1, <2>2
    <3>3. \A j \in 1..Len(i) : <<l.chain[1], j>> \in {} <=> j <= 0
      BY <2>2
    <3> QED BY <3>1, <3>2, <3>3
  <2> QED BY <1>6, <2>1, <2>2, <2>3 DEF OnStack, id
<1>8. CameBy(d, l, {})
  <2>1. id \in ToSet(l.chain)
    BY <1>5 DEF ToSet
  <2> QED BY <1>5, <1>6, <2>1 DEF CameBy, HasIncludes
<1>9. Gathered(d, l)
  <2>1. d.is[d.root] = id
    OBVIOUS
  <2> HIDE DEF id
  <2> QED BY <1>2, <1>3, <1>5, <1>6, <2>1 DEF Gathered
<1>10. 0 <= Cardinality({}) + Cardinality(Come(d, l) \ ToSet(l.chain))
  <2>1. Come(d, l) \ ToSet(l.chain) = {}
    BY <1>5, <1>6 DEF ToSet
  <2> QED BY <2>1, FS_EmptySet
<1>11. l \in Loaders(d)
  BY LoaderStarts DEF l
<1>12. MergeStart(d, d.root) = l
  BY DEF l
<1> QED BY <1>5, <1>7, <1>8, <1>9, <1>10, <1>11, <1>12 DEF Walking

\* The entries behind a walk, and the files it has come to, are finite in number.
LEMMA WalkIsFinite ==
  ASSUME NEW d, IsDisk(d), NEW l, NEW D, NEW t, Walking(d, l, D, t)
  PROVE  /\ Come(d, l) \in SUBSET DOMAIN d.files /\ IsFiniteSet(Come(d, l))
         /\ IsFiniteSet(AllEntries(d)) /\ D \in SUBSET AllEntries(d) /\ IsFiniteSet(D)
         /\ l.chain \in Seq(Come(d, l)) /\ ToSet(l.chain) \in SUBSET Come(d, l)
<1> DEFINE F == DOMAIN d.files
<1>1. l \in Loaders(d) /\ OnStack(d, l, D) /\ CameBy(d, l, D)
  BY DEF Walking
<1>2. Come(d, l) \in SUBSET F /\ IsFiniteSet(F)
  BY <1>1, LoaderFacts, DiskFacts DEF Come
<1>3. IsFiniteSet(AllEntries(d))
  BY EntriesAreFinite
<1>4. D \in SUBSET AllEntries(d)
  BY <1>1, <1>2 DEF CameBy, AllEntries
<1>5. l.chain \in Seq(Come(d, l))
  <2>1. l.chain \in Seq(F)
    BY <1>1, LoaderFacts
  <2>2. \A k \in 1..Len(l.chain) : l.chain[k] \in Come(d, l)
    BY <1>1 DEF OnStack
  <2> HIDE DEF F
  <2> QED BY <2>1, <2>2, SeqIn
<1>6. ToSet(l.chain) \in SUBSET Come(d, l)
  BY <1>5 DEF ToSet
<1> QED BY <1>2, <1>3, <1>4, <1>5, <1>6, FS_Subset

\* A file whose list is at its end is left: everything it includes is behind.
LEMMA WalkReturns ==
  ASSUME NEW d, IsDisk(d), NEW l, NEW D, NEW t \in Nat, Walking(d, l, D, t), l.errors = {},
         l.todo # <<>>, Last(l.todo) = <<>>
  PROVE  IncludeNext(d, l).errors = {} /\ Walking(d, IncludeNext(d, l), D, t + 1)
<1> DEFINE m == IncludeNext(d, l)
           n == Len(l.chain)
           W == Come(d, l)
<1>1. l \in Loaders(d) /\ OnStack(d, l, D) /\ CameBy(d, l, D) /\ Gathered(d, l)
  BY DEF Walking
<1>2. m = [l EXCEPT !.chain = Front(l.chain), !.todo = Front(l.todo)]
  BY DEF IncludeNext
<1>3. /\ m.chain = Front(l.chain) /\ m.todo = Front(l.todo) /\ m.services = l.services
      /\ m.errors = l.errors /\ m.merged = l.merged
  BY <1>1, <1>2, LoaderWrites
<1>4. m \in Loaders(d)
  BY <1>1, IncludeKeepsLoader
<1> HIDE DEF m
<1>5. Come(d, m) = W
  BY <1>3 DEF Come
<1>6. /\ l.todo \in Seq(Seq(DOMAIN d.is)) /\ l.chain \in Seq(W) /\ Len(l.todo) = n /\ n \in Nat \ {0}
      /\ ToSet(l.chain) \in SUBSET W
  <2>1. l.todo \in Seq(Seq(DOMAIN d.is)) /\ l.chain \in Seq(W) /\ ToSet(l.chain) \in SUBSET W
    BY <1>1, LoaderFacts, WalkIsFinite
  <2>2. Len(l.todo) = n
    BY <1>1 DEF OnStack
  <2>3. Len(l.todo) \in Nat /\ Len(l.todo) # 0
    <3> DEFINE S == Seq(DOMAIN d.is)
    <3>1. l.todo \in Seq(S)
      BY <2>1
    <3> HIDE DEF S
    <3> QED BY <3>1, EmptySeq
  <2> QED BY <2>1, <2>2, <2>3
<1> HIDE DEF W
<1>7. /\ Len(m.chain) = n - 1 /\ Len(m.todo) = n - 1 /\ m.chain \in Seq(W)
      /\ \A k \in 1..(n - 1) : m.chain[k] = l.chain[k] /\ m.todo[k] = l.todo[k]
  <2> DEFINE S == Seq(DOMAIN d.is)
  <2>1. l.todo \in Seq(S)
    BY <1>6
  <2> HIDE DEF S
  <2> QED BY <1>3, <1>6, <2>1, FrontFacts
<1> DEFINE last == l.chain[n]
<1>8. last \in W /\ n \in 1..n /\ Includes(d, last) \in Seq(DOMAIN d.is)
  <2>1. n \in 1..n /\ last \in W
    BY <1>6
  <2>2. W \in SUBSET DOMAIN d.files
    BY WalkIsFinite DEF W
  <2> QED BY <2>1, <2>2, DiskFacts DEF Includes
<1>9. EntriesOf(d, last) \subseteq D
  <2>1. PICK past \in 0..Len(Includes(d, last)) :
              /\ Len(l.todo[n]) = Len(Includes(d, last)) - past
              /\ \A i \in 1..Len(Includes(d, last)) : <<last, i>> \in D <=> i <= past
    BY <1>1, <1>8 DEF OnStack
  <2>2. Len(l.todo[n]) = 0
    <3>1. l.todo[n] = <<>>
      BY <1>6 DEF Last
    <3> QED BY <3>1
  <2>3. Len(Includes(d, last)) \in Nat
    BY <1>8
  <2>4. \A i \in 1..Len(Includes(d, last)) : <<last, i>> \in D
    BY <2>1, <2>2, <2>3
  <2> HIDE DEF last
  <2> QED BY <2>4 DEF EntriesOf
<1>10. ToSet(l.chain) = ToSet(m.chain) \cup {last} /\ last \notin ToSet(m.chain)
  <2>1. ToSet(l.chain) = {l.chain[k] : k \in 1..n} /\ ToSet(m.chain) = {m.chain[k] : k \in 1..(n - 1)}
    BY <1>6, <1>7 DEF ToSet
  <2>2. \A j, k \in 1..n : l.chain[j] = l.chain[k] => j = k
    BY <1>1 DEF OnStack
  <2>3. \A k \in 1..(n - 1) : k \in 1..n /\ k # n
    BY <1>6
  <2>4. \A k \in 1..n : k = n \/ k \in 1..(n - 1)
    BY <1>6
  <2>5. \A k \in 1..(n - 1) : m.chain[k] # last /\ m.chain[k] \in ToSet(l.chain)
    BY <1>7, <1>8, <2>1, <2>2, <2>3
  <2>6. \A k \in 1..n : l.chain[k] = last \/ l.chain[k] \in ToSet(m.chain)
    BY <1>7, <2>1, <2>4
  <2>7. last \in ToSet(l.chain)
    BY <1>8, <2>1
  <2> HIDE DEF n, last
  <2> QED BY <2>1, <2>5, <2>6, <2>7
<1>11. OnStack(d, m, D)
  <2>1. m.chain # <<>> => m.chain[1] = d.is[d.root]
    <3> SUFFICES ASSUME m.chain # <<>> PROVE m.chain[1] = d.is[d.root]
      OBVIOUS
    <3>1. Len(m.chain) # 0
      BY <1>7, EmptySeq
    <3>2. 1 \in 1..(n - 1) /\ l.chain # <<>>
      BY <1>6, <1>7, <3>1
    <3> QED BY <1>1, <1>7, <3>2 DEF OnStack
  <2>2. \A k \in 1..(n - 1) : k \in 1..n
    BY <1>6
  <2>3. ASSUME NEW k \in 1..(n - 1)
        PROVE  /\ m.chain[k] \in Come(d, m)
               /\ \E past \in 0..Len(Includes(d, m.chain[k])) :
                    /\ Len(m.todo[k]) = Len(Includes(d, m.chain[k])) - past
                    /\ \A i \in 1..Len(m.todo[k]) : m.todo[k][i] = Includes(d, m.chain[k])[past + i]
                    /\ \A i \in 1..Len(Includes(d, m.chain[k])) : <<m.chain[k], i>> \in D <=> i <= past
    <3>1. k \in 1..n /\ m.chain[k] = l.chain[k] /\ m.todo[k] = l.todo[k]
      BY <1>7, <2>2
    <3>2. l.chain[k] \in W
      BY <1>1, <3>1 DEF OnStack, W
    <3>3. PICK past \in 0..Len(Includes(d, l.chain[k])) :
             /\ Len(l.todo[k]) = Len(Includes(d, l.chain[k])) - past
             /\ \A i \in 1..Len(l.todo[k]) : l.todo[k][i] = Includes(d, l.chain[k])[past + i]
             /\ \A i \in 1..Len(Includes(d, l.chain[k])) : <<l.chain[k], i>> \in D <=> i <= past
      BY <1>1, <3>1 DEF OnStack
    <3> QED BY <1>5, <3>1, <3>2, <3>3
  <2>4. \A j, k \in 1..(n - 1) : m.chain[j] = m.chain[k] => j = k
    BY <1>1, <1>7, <2>2 DEF OnStack
  <2> QED BY <1>7, <2>1, <2>3, <2>4 DEF OnStack
<1>12. CameBy(d, m, D)
  <2>1. \A f \in W : f \in ToSet(m.chain) \/ EntriesOf(d, f) \subseteq D
    BY <1>1, <1>9, <1>10 DEF CameBy, W
  <2> QED BY <1>1, <1>3, <1>5, <2>1 DEF CameBy, W
<1>13. Gathered(d, m)
  BY <1>1, <1>3, <1>5 DEF Gathered, W
<1>14. t + 1 <= Cardinality(D) + Cardinality(W \ ToSet(m.chain))
  <2> DEFINE A == W \ ToSet(l.chain)
  <2>1. t <= Cardinality(D) + Cardinality(A)
    BY DEF Walking, W
  <2>2. W \ ToSet(m.chain) = A \cup {last} /\ last \notin A
    BY <1>6, <1>8, <1>10
  <2>3. IsFiniteSet(A) /\ IsFiniteSet(D)
    BY WalkIsFinite, FS_Subset DEF W
  <2> HIDE DEF A, last
  <2>4. Cardinality(A \cup {last}) = Cardinality(A) + 1 /\ Cardinality(A) \in Nat /\ Cardinality(D) \in Nat
    BY <2>2, <2>3, FS_AddElement, FS_CardinalityType
  <2>5. Cardinality(W \ ToSet(m.chain)) = Cardinality(A) + 1
    BY <2>2, <2>4
  <2> DEFINE a == Cardinality(A) b == Cardinality(D) c == Cardinality(W \ ToSet(m.chain))
  <2>6. t <= b + a /\ c = a + 1 /\ a \in Nat /\ b \in Nat
    BY <2>1, <2>4, <2>5
  <2> HIDE DEF a, b, c
  <2>7. t + 1 <= b + c
    BY <2>6
  <2> QED BY <2>7 DEF b, c
<1>15. m.errors = {} /\ Walking(d, m, D, t + 1)
  BY <1>3, <1>4, <1>5, <1>11, <1>12, <1>13, <1>14 DEF Walking, W
<1> QED BY <1>15 DEF m

\* An entry that leads to a new fragment, whose services are new: the walk goes into it.
LEMMA WalkEnters ==
  ASSUME NEW d, IsDisk(d), NEW l, NEW D, NEW t \in Nat, Walking(d, l, D, t), NEW m \in Loaders(d),
         l.todo # <<>>, Last(l.todo) # <<>>,
         m.chain = Append(l.chain, d.is[Head(Last(l.todo))]),
         m.todo = Append([l.todo EXCEPT ![Len(l.todo)] = Tail(Last(l.todo))], Includes(d, d.is[Head(Last(l.todo))])),
         m.merged = l.merged \cup {d.is[Head(Last(l.todo))]},
         d.is[Head(Last(l.todo))] \notin Come(d, l), MayBe(d, d.is[Head(Last(l.todo))]),
         Declares(d, d.is[Head(Last(l.todo))]) \cap DOMAIN l.services = {},
         DOMAIN m.services = Declares(d, d.is[Head(Last(l.todo))]) \cup DOMAIN l.services,
         \A n \in DOMAIN l.services : m.services[n] = l.services[n],
         \A n \in DOMAIN m.services \ DOMAIN l.services :
             m.services[n].origin = Head(Last(l.todo)) /\ IsFrom(d, n, m.services[n])
  PROVE  \E E : Walking(d, m, E, t + 1)
<1> DEFINE path == Head(Last(l.todo))
           id == d.is[path]
           n == Len(l.chain)
           W == Come(d, l)
           last == l.chain[n]
           inc == Includes(d, last)
           rest == l.todo[n]
           S == Seq(DOMAIN d.is)
<1>1. l \in Loaders(d) /\ OnStack(d, l, D) /\ CameBy(d, l, D) /\ Gathered(d, l)
  BY DEF Walking
<1>2. /\ l.todo \in Seq(S) /\ l.chain \in Seq(W) /\ ToSet(l.chain) \in SUBSET W
      /\ W \in SUBSET DOMAIN d.files /\ IsFiniteSet(W) /\ IsFiniteSet(D)
  BY <1>1, LoaderFacts, WalkIsFinite
<1>3. Len(l.todo) = n /\ n \in Nat \ {0} /\ n \in 1..n /\ last \in W
  <2>1. Len(l.todo) = n
    BY <1>1 DEF OnStack
  <2> HIDE DEF S, W
  <2>2. Len(l.todo) \in Nat /\ Len(l.todo) # 0
    BY <1>2, EmptySeq
  <2>3. n \in 1..n
    BY <2>1, <2>2
  <2> QED BY <1>2, <2>1, <2>2, <2>3
<1>4. Last(l.todo) = rest /\ rest \in S
  <2>1. l.todo \in Seq(S) /\ n \in 1..Len(l.todo)
    BY <1>2, <1>3
  <2>2. Last(l.todo) = rest
    BY <1>3 DEF Last
  <2> DEFINE todo == l.todo
  <2> HIDE DEF S, n
  <2>3. todo \in Seq(S) /\ n \in 1..Len(todo)
    BY <2>1
  <2> HIDE DEF todo
  <2>4. todo[n] \in S
    BY <2>3
  <2> QED BY <2>2, <2>4 DEF todo
<1>5. inc \in Seq(DOMAIN d.is) /\ Len(inc) \in Nat
  BY <1>2, <1>3, DiskFacts DEF Includes
<1>6. rest # <<>> /\ Len(rest) \in Nat \ {0} /\ path = rest[1] /\ Len(Tail(rest)) = Len(rest) - 1
      /\ \A i \in 1..(Len(rest) - 1) : Tail(rest)[i] = rest[i + 1]
  <2>1. rest # <<>> /\ rest \in Seq(DOMAIN d.is) /\ path = Head(rest)
    BY <1>4
  <2> HIDE DEF rest, path
  <2>2. Len(rest) \in Nat /\ Len(rest) # 0
    BY <2>1, EmptySeq
  <2> QED BY <2>1, <2>2
<1>7. PICK past \in 0..Len(inc) :
            /\ Len(rest) = Len(inc) - past
            /\ \A i \in 1..Len(rest) : rest[i] = inc[past + i]
            /\ \A i \in 1..Len(inc) : <<last, i>> \in D <=> i <= past
  BY <1>1, <1>3 DEF OnStack
<1> DEFINE e == <<last, past + 1>>
           E == D \cup {e}
           W2 == W \cup {id}
<1>8. /\ past + 1 \in 1..Len(inc) /\ path = inc[past + 1] /\ e \notin D
  <2>1. past + 1 \in 1..Len(inc) /\ 1 \in 1..Len(rest)
    BY <1>5, <1>6, <1>7
  <2>2. path = inc[past + 1]
    BY <1>6, <1>7, <2>1
  <2>3. ~(past + 1 <= past)
    BY <1>7
  <2> QED BY <1>7, <2>1, <2>2, <2>3
<1>9. e \in EntriesOf(d, last) /\ Leads(d, e) = id /\ e[1] = last
  BY <1>8 DEF EntriesOf, Leads
<1>10. path \in DOMAIN d.is /\ id \in DOMAIN d.files /\ id \notin W
  <2>1. path \in DOMAIN d.is
    BY <1>5, <1>8
  <2> QED BY <2>1, DiskFacts
<1>11. Includes(d, id) \in Seq(DOMAIN d.is)
  BY <1>10, DiskFacts DEF Includes
<1>12. /\ m.chain = Append(l.chain, id) /\ m.merged = l.merged \cup {id}
       /\ m.todo = Append([l.todo EXCEPT ![n] = Tail(rest)], Includes(d, id))
  BY <1>3, <1>4
<1>13. Come(d, m) = W2
  BY <1>12 DEF Come
<1> HIDE DEF path, id, W, last, inc, S
<1>14. /\ Len(m.chain) = n + 1 /\ m.chain[n + 1] = id /\ m.chain \in Seq(W2)
       /\ \A k \in 1..n : m.chain[k] = l.chain[k]
  <2>1. l.chain \in Seq(W2) /\ id \in W2
    BY <1>2, SeqIn
  <2> HIDE DEF W2
  <2> QED BY <1>3, <1>12, <2>1, AppendProperties DEF n
<1>15. /\ Len(m.todo) = n + 1 /\ m.todo[n + 1] = Includes(d, id) /\ m.todo[n] = Tail(rest)
       /\ \A k \in 1..(n - 1) : m.todo[k] = l.todo[k]
  <2> DEFINE r == [l.todo EXCEPT ![n] = Tail(rest)]
  <2>1. Tail(rest) \in S /\ Includes(d, id) \in S
    <3>1. rest \in Seq(DOMAIN d.is) /\ rest # <<>>
      BY <1>4, <1>6 DEF S
    <3> HIDE DEF rest
    <3> QED BY <1>11, <3>1 DEF S
  <2> HIDE DEF rest
  <2>2. r \in Seq(S) /\ Len(r) = n /\ r[n] = Tail(rest) /\ \A k \in 1..(n - 1) : r[k] = l.todo[k]
    BY <1>2, <1>3, <2>1, ExceptSeq
  <2> HIDE DEF r
  <2>3. m.todo = Append(r, Includes(d, id))
    BY <1>12 DEF r
  <2>4. /\ Len(m.todo) = n + 1 /\ m.todo[n + 1] = Includes(d, id)
        /\ \A k \in 1..n : m.todo[k] = r[k]
    <3> DEFINE i2 == Includes(d, id)
    <3> HIDE DEF i2
    <3>1. i2 \in S /\ m.todo = Append(r, i2)
      BY <2>1, <2>3 DEF i2
    <3>2. /\ Len(Append(r, i2)) = Len(r) + 1 /\ Append(r, i2)[Len(r) + 1] = i2
          /\ \A k \in 1..Len(r) : Append(r, i2)[k] = r[k]
      BY <2>2, <3>1, AppendProperties
    <3> QED BY <2>2, <3>1, <3>2 DEF i2
  <2>5. n \in 1..n /\ \A k \in 1..(n - 1) : k \in 1..n
    BY <1>3
  <2> QED BY <2>2, <2>4, <2>5 DEF rest
<1>16. ToSet(m.chain) = ToSet(l.chain) \cup {id}
  <2>1. ToSet(l.chain) = {l.chain[k] : k \in 1..n} /\ ToSet(m.chain) = {m.chain[k] : k \in 1..(n + 1)}
    BY <1>2, <1>14 DEF ToSet, n
  <2>2. 1..(n + 1) = 1..n \cup {n + 1}
    BY <1>3
  <2> QED BY <1>14, <2>1, <2>2
<1>17. OnStack(d, m, E)
  <2>1. m.chain # <<>> => m.chain[1] = d.is[d.root]
    <3>1. l.chain # <<>> /\ 1 \in 1..n
      BY <1>3 DEF n
    <3> QED BY <1>1, <1>14, <3>1 DEF OnStack
  <2>2. \A j, k \in 1..(n + 1) : m.chain[j] = m.chain[k] => j = k
    <3>1. \A j \in 1..n : m.chain[j] # id
      BY <1>2, <1>10, <1>14 DEF n
    <3>2. \A j, k \in 1..n : m.chain[j] = m.chain[k] => j = k
      BY <1>1, <1>14 DEF OnStack, n
    <3>3. \A j \in 1..(n + 1) : j \in 1..n \/ j = n + 1
      BY <1>3
    <3> QED BY <1>14, <3>1, <3>2, <3>3
  <2>3. ASSUME NEW k \in 1..(n + 1)
        PROVE  /\ m.chain[k] \in Come(d, m)
               /\ \E p \in 0..Len(Includes(d, m.chain[k])) :
                    /\ Len(m.todo[k]) = Len(Includes(d, m.chain[k])) - p
                    /\ \A i \in 1..Len(m.todo[k]) : m.todo[k][i] = Includes(d, m.chain[k])[p + i]
                    /\ \A i \in 1..Len(Includes(d, m.chain[k])) : <<m.chain[k], i>> \in E <=> i <= p
    <3>1. m.chain[k] \in Come(d, m)
      BY <1>13, <1>14
    <3>2. CASE k \in 1..(n - 1)
      <4>1. k \in 1..n /\ k # n
        BY <1>3, <3>2
      <4>2. l.chain[k] # last
        BY <1>1, <1>3, <4>1 DEF OnStack, last, n
      <4>3. PICK p \in 0..Len(Includes(d, l.chain[k])) :
                /\ Len(l.todo[k]) = Len(Includes(d, l.chain[k])) - p
                /\ \A i \in 1..Len(l.todo[k]) : l.todo[k][i] = Includes(d, l.chain[k])[p + i]
                /\ \A i \in 1..Len(Includes(d, l.chain[k])) : <<l.chain[k], i>> \in D <=> i <= p
        BY <1>1, <4>1 DEF OnStack, n
      <4>4. \A i : <<l.chain[k], i>> \in E <=> <<l.chain[k], i>> \in D
        BY <4>2
      <4>5. m.chain[k] = l.chain[k] /\ m.todo[k] = l.todo[k]
        BY <1>14, <1>15, <3>2, <4>1
      <4> HIDE DEF E
      <4> QED BY <3>1, <4>3, <4>4, <4>5
    <3>3. CASE k = n
      <4>1. m.chain[k] = last /\ m.todo[k] = Tail(rest) /\ Includes(d, last) = inc
        BY <1>3, <1>14, <1>15, <3>3 DEF last, inc
      <4>2. past + 1 \in 0..Len(inc) /\ Len(Tail(rest)) = Len(inc) - (past + 1)
        BY <1>5, <1>6, <1>7, <1>8
      <4>3. \A i \in 1..Len(Tail(rest)) : Tail(rest)[i] = inc[(past + 1) + i]
        <5> TAKE i \in 1..Len(Tail(rest))
        <5>1. i \in 1..(Len(rest) - 1) /\ i + 1 \in 1..Len(rest) /\ past + (i + 1) = (past + 1) + i
          BY <1>6, <1>7
        <5> QED BY <1>6, <1>7, <5>1
      <4>4. \A i \in 1..Len(inc) : <<last, i>> \in E <=> i <= past + 1
        <5> TAKE i \in 1..Len(inc)
        <5>1. <<last, i>> \in E <=> <<last, i>> \in D \/ i = past + 1
          OBVIOUS
        <5> QED BY <1>5, <1>7, <5>1
      <4> HIDE DEF E, rest
      <4> QED BY <3>1, <4>1, <4>2, <4>3, <4>4
    <3>4. CASE k = n + 1
      <4> DEFINE i2 == Includes(d, id)
      <4>1. m.chain[k] = id /\ m.todo[k] = i2 /\ Len(i2) \in Nat
        BY <1>11, <1>14, <1>15, <3>4
      <4>2. \A i \in 1..Len(i2) : <<id, i>> \notin E
        <5> TAKE i \in 1..Len(i2)
        <5>1. <<id, i>> \notin D
          <6>1. \A x \in D : x[1] \in W
            BY <1>1 DEF CameBy, W
          <6>2. <<id, i>>[1] = id
            OBVIOUS
          <6> QED BY <1>10, <6>1, <6>2
        <5>2. <<id, i>> # e
          BY <1>3, <1>10
        <5> QED BY <5>1, <5>2
      <4> HIDE DEF i2, E
      <4>3. /\ 0 \in 0..Len(i2) /\ Len(i2) = Len(i2) - 0
            /\ \A i \in 1..Len(i2) : i2[i] = i2[0 + i]
            /\ \A i \in 1..Len(i2) : <<id, i>> \in E <=> i <= 0
        BY <4>1, <4>2
      <4> QED BY <3>1, <4>1, <4>3 DEF i2
    <3>5. k \in 1..(n - 1) \/ k = n \/ k = n + 1
      BY <1>3
    <3> QED BY <3>2, <3>3, <3>4, <3>5
  <2>4. Len(m.todo) = Len(m.chain)
    BY <1>14, <1>15
  <2> HIDE DEF E
  <2> QED BY <1>14, <2>1, <2>2, <2>3, <2>4 DEF OnStack
<1>18. CameBy(d, m, E)
  <2>1. \A x \in E : x[1] \in W2 /\ x \in EntriesOf(d, x[1])
    BY <1>1, <1>3, <1>9 DEF CameBy, W
  <2>2. \A f \in W2 : f \in ToSet(m.chain) \/ EntriesOf(d, f) \subseteq E
    BY <1>1, <1>16 DEF CameBy, W
  <2>3. d.is[d.root] \notin m.merged
    BY <1>1, <1>10, <1>12 DEF CameBy, W, Come
  <2>4. l.merged \subseteq W /\ \A x \in D : Leads(d, x) \in l.merged
    BY <1>1 DEF CameBy, W, Come
  <2>5. \A x \in E : Leads(d, x) \in m.merged
    BY <1>9, <1>12, <2>4
  <2>6. \A f \in m.merged : \E x \in E : Leads(d, x) = f
    BY <1>1, <1>9, <1>12 DEF CameBy
  <2>7. \A x, g \in E : Leads(d, x) = Leads(d, g) => x = g
    <3>1. \A x, g \in D : Leads(d, x) = Leads(d, g) => x = g
      BY <1>1 DEF CameBy
    <3>2. \A x \in D : Leads(d, x) # id
      BY <1>10, <2>4
    <3> HIDE DEF e
    <3> QED BY <1>9, <3>1, <3>2
  <2>8. \A T \in SUBSET DOMAIN d.files : HasIncludes(d, T) => W2 \subseteq T
    <3> SUFFICES ASSUME NEW T \in SUBSET DOMAIN d.files, HasIncludes(d, T) PROVE W2 \subseteq T
      OBVIOUS
    <3>1. W \subseteq T
      BY <1>1 DEF CameBy, W
    <3>2. id \in T
      BY <1>3, <1>9, <3>1 DEF HasIncludes
    <3> QED BY <3>1, <3>2
  <2> HIDE DEF E, W2
  <2> QED BY <1>13, <2>1, <2>2, <2>3, <2>5, <2>6, <2>7, <2>8 DEF CameBy
<1>19. Gathered(d, m)
  <2>1. /\ \A f \in l.merged : MayBe(d, f)
        /\ DOMAIN l.services = UNION {Declares(d, f) : f \in W}
        /\ \A f, g \in W : f # g => Declares(d, f) \cap Declares(d, g) = {}
        /\ \A x \in DOMAIN l.services : d.is[l.services[x].origin] \in W /\ IsFrom(d, x, l.services[x])
    BY <1>1 DEF Gathered, W
  <2>2. /\ MayBe(d, id) /\ Declares(d, id) \cap DOMAIN l.services = {}
        /\ DOMAIN m.services = Declares(d, id) \cup DOMAIN l.services
        /\ \A x \in DOMAIN l.services : m.services[x] = l.services[x]
        /\ \A x \in DOMAIN m.services \ DOMAIN l.services :
              m.services[x].origin = path /\ IsFrom(d, x, m.services[x])
    BY DEF id, path
  <2>3. \A f \in m.merged : MayBe(d, f)
    BY <1>12, <2>1, <2>2
  <2>4. DOMAIN m.services = UNION {Declares(d, f) : f \in W2}
    BY <2>1, <2>2
  <2>5. \A f, g \in W2 : f # g => Declares(d, f) \cap Declares(d, g) = {}
    <3>1. \A f \in W : Declares(d, f) \cap Declares(d, id) = {}
      BY <2>1, <2>2
    <3> QED BY <2>1, <3>1
  <2>6. \A x \in DOMAIN m.services : d.is[m.services[x].origin] \in W2 /\ IsFrom(d, x, m.services[x])
    <3> SUFFICES ASSUME NEW x \in DOMAIN m.services
                 PROVE  d.is[m.services[x].origin] \in W2 /\ IsFrom(d, x, m.services[x])
      OBVIOUS
    <3>1. CASE x \in DOMAIN l.services
      BY <2>1, <2>2, <3>1
    <3>2. CASE x \notin DOMAIN l.services
      <4>1. m.services[x].origin = path /\ IsFrom(d, x, m.services[x])
        BY <2>2, <3>2
      <4> QED BY <4>1 DEF id
    <3> QED BY <3>1, <3>2
  <2> HIDE DEF W2
  <2> QED BY <1>13, <2>3, <2>4, <2>5, <2>6 DEF Gathered
<1>20. t + 1 <= Cardinality(E) + Cardinality(W2 \ ToSet(m.chain))
  <2>1. t <= Cardinality(D) + Cardinality(W \ ToSet(l.chain))
    BY DEF Walking, W
  <2>2. W2 \ ToSet(m.chain) = W \ ToSet(l.chain)
    BY <1>10, <1>16
  <2>3. Cardinality(E) = Cardinality(D) + 1 /\ Cardinality(D) \in Nat
    <3> HIDE DEF e
    <3> QED BY <1>2, <1>8, FS_AddElement, FS_CardinalityType
  <2>4. Cardinality(W \ ToSet(l.chain)) \in Nat
    BY <1>2, FS_Subset, FS_CardinalityType
  <2> DEFINE a == Cardinality(W \ ToSet(l.chain)) b == Cardinality(D)
             c == Cardinality(W2 \ ToSet(m.chain)) x == Cardinality(E)
  <2>5. c = a
    BY <2>2
  <2>6. t <= b + a /\ x = b + 1 /\ a \in Nat /\ b \in Nat
    BY <2>1, <2>3, <2>4
  <2> HIDE DEF a, b, c, x
  <2>7. t + 1 <= x + c
    BY <2>5, <2>6
  <2> QED BY <2>7 DEF x, c
<1> HIDE DEF E, W2
<1>21. Walking(d, m, E, t + 1)
  BY <1>13, <1>17, <1>18, <1>19, <1>20 DEF Walking
<1> QED BY <1>21

\* The entry that the walk is at: it is not behind, and its file has been come to.
LEMMA WalkEntry ==
  ASSUME NEW d, IsDisk(d), NEW l, NEW D, NEW t \in Nat, Walking(d, l, D, t),
         l.todo # <<>>, Last(l.todo) # <<>>
  PROVE  /\ Head(Last(l.todo)) \in DOMAIN d.is /\ Tail(Last(l.todo)) \in Seq(DOMAIN d.is)
         /\ l.chain # <<>> /\ d.is[d.root] \in ToSet(l.chain)
         /\ \E e : /\ e \notin D /\ e[1] \in Come(d, l) /\ e \in EntriesOf(d, e[1])
                   /\ Leads(d, e) = d.is[Head(Last(l.todo))]
<1> DEFINE path == Head(Last(l.todo))
           n == Len(l.chain)
           W == Come(d, l)
           last == l.chain[n]
           inc == Includes(d, last)
           rest == l.todo[n]
           S == Seq(DOMAIN d.is)
<1>1. l \in Loaders(d) /\ OnStack(d, l, D)
  BY DEF Walking
<1>2. /\ l.todo \in Seq(S) /\ l.chain \in Seq(W) /\ W \in SUBSET DOMAIN d.files
  BY <1>1, LoaderFacts, WalkIsFinite
<1>3. Len(l.todo) = n /\ n \in Nat \ {0} /\ n \in 1..n /\ last \in W
  <2>1. Len(l.todo) = n
    BY <1>1 DEF OnStack
  <2> HIDE DEF S, W
  <2>2. Len(l.todo) \in Nat /\ Len(l.todo) # 0
    BY <1>2, EmptySeq
  <2>3. n \in 1..n
    BY <2>1, <2>2
  <2> QED BY <1>2, <2>1, <2>2, <2>3
<1>4. Last(l.todo) = rest /\ rest \in S
  <2>1. l.todo \in Seq(S) /\ n \in 1..Len(l.todo)
    BY <1>2, <1>3
  <2>2. Last(l.todo) = rest
    BY <1>3 DEF Last
  <2> DEFINE todo == l.todo
  <2> HIDE DEF S, n
  <2>3. todo \in Seq(S) /\ n \in 1..Len(todo)
    BY <2>1
  <2> HIDE DEF todo
  <2>4. todo[n] \in S
    BY <2>3
  <2> QED BY <2>2, <2>4 DEF todo
<1>5. inc \in Seq(DOMAIN d.is) /\ Len(inc) \in Nat
  BY <1>2, <1>3, DiskFacts DEF Includes
<1>6. rest # <<>> /\ Len(rest) \in Nat \ {0} /\ path = rest[1] /\ Tail(rest) \in S
  <2>1. rest # <<>> /\ rest \in Seq(DOMAIN d.is) /\ path = Head(rest)
    BY <1>4
  <2> HIDE DEF rest, path
  <2>2. Len(rest) \in Nat /\ Len(rest) # 0
    BY <2>1, EmptySeq
  <2> QED BY <2>1, <2>2
<1>7. PICK past \in 0..Len(inc) :
            /\ Len(rest) = Len(inc) - past
            /\ \A i \in 1..Len(rest) : rest[i] = inc[past + i]
            /\ \A i \in 1..Len(inc) : <<last, i>> \in D <=> i <= past
  BY <1>1, <1>3 DEF OnStack
<1> DEFINE e == <<last, past + 1>>
<1>8. past + 1 \in 1..Len(inc) /\ path = inc[past + 1] /\ e \notin D
  <2>1. past + 1 \in 1..Len(inc) /\ 1 \in 1..Len(rest)
    BY <1>5, <1>6, <1>7
  <2>2. path = inc[past + 1]
    BY <1>6, <1>7, <2>1
  <2>3. ~(past + 1 <= past)
    BY <1>7
  <2> QED BY <1>7, <2>1, <2>2, <2>3
<1>9. e \in EntriesOf(d, last) /\ Leads(d, e) = d.is[path] /\ e[1] = last
  BY <1>8 DEF EntriesOf, Leads
<1>10. path \in DOMAIN d.is
  BY <1>5, <1>8
<1>11. l.chain # <<>> /\ d.is[d.root] \in ToSet(l.chain)
  <2>1. l.chain # <<>>
    BY <1>3
  <2>2. 1 \in 1..n /\ DOMAIN l.chain = 1..n
    BY <1>2, <1>3
  <2>3. l.chain[1] = d.is[d.root]
    BY <1>1, <2>1 DEF OnStack
  <2> HIDE DEF n
  <2> QED BY <2>1, <2>2, <2>3 DEF ToSet
<1> HIDE DEF e, path, last
<1>12. Tail(Last(l.todo)) \in Seq(DOMAIN d.is)
  BY <1>4, <1>6 DEF S
<1> QED BY <1>3, <1>8, <1>9, <1>10, <1>11, <1>12 DEF path

\* The smallest set of files that has the root and what its files include.
IsClosureOf(d, S) == HasIncludes(d, S) /\ \A T \in SUBSET S : HasIncludes(d, T) => T = S

\* The entries of the files of S that lead to f.
Towards(d, S, f) == {e \in UNION {EntriesOf(d, g) : g \in S} : Leads(d, e) = f}

IsTree(d, S) ==
  \A f \in S : /\ Cardinality(Towards(d, S, f)) = IF f = d.is[d.root] THEN 0 ELSE 1
               /\ f # d.is[d.root] => MayBe(d, f)
               /\ \A g \in S \ {f} : Declares(d, f) \cap Declares(d, g) = {}

\* There is one such set.
LEMMA ClosureExists ==
  ASSUME NEW d, IsDisk(d)
  PROVE  \E S \in SUBSET DOMAIN d.files : IsClosureOf(d, S)
<1> DEFINE F == DOMAIN d.files
           S == {f \in F : \A T \in SUBSET F : HasIncludes(d, T) => f \in T}
<1>1. d.is[d.root] \in F
  BY DiskFacts
<1>2. \A f \in F : \A e \in EntriesOf(d, f) : Leads(d, e) \in F
  <2> SUFFICES ASSUME NEW f \in F, NEW e \in EntriesOf(d, f) PROVE Leads(d, e) \in F
    OBVIOUS
  <2>1. Includes(d, f) \in Seq(DOMAIN d.is)
    BY DiskFacts DEF Includes
  <2>2. e[1] = f /\ e[2] \in 1..Len(Includes(d, f))
    BY DEF EntriesOf
  <2>3. Includes(d, f)[e[2]] \in DOMAIN d.is
    BY <2>1, <2>2
  <2> QED BY <2>2, <2>3, DiskFacts DEF Leads
<1> HIDE DEF F
<1>3. HasIncludes(d, S)
  <2>1. d.is[d.root] \in S
    BY <1>1 DEF HasIncludes
  <2>2. ASSUME NEW f \in S, NEW e \in EntriesOf(d, f)
        PROVE  Leads(d, e) \in S
    <3>1. Leads(d, e) \in F
      BY <1>2
    <3>2. \A T \in SUBSET F : HasIncludes(d, T) => Leads(d, e) \in T
      BY DEF HasIncludes
    <3> QED BY <3>1, <3>2
  <2> HIDE DEF S
  <2> QED BY <2>1, <2>2 DEF HasIncludes
<1>4. \A T \in SUBSET S : HasIncludes(d, T) => T = S
  OBVIOUS
<1>5. S \in SUBSET F
  OBVIOUS
<1> HIDE DEF S
<1> QED BY <1>3, <1>4, <1>5 DEF IsClosureOf, F

\* A turn without an error goes on with the walk, and in a tree there is none.
LEMMA WalkGoesOn ==
  ASSUME NEW d, IsDisk(d), NEW l \in Loaders(d), NEW t \in Nat, NEW S \in SUBSET DOMAIN d.files, IsClosureOf(d, S),
         l.errors = {} => \E D : Walking(d, l, D, t)
  PROVE  LET m == IncludeNext(d, l)
         IN  /\ m.errors = {} => l.errors = {} /\ \E D : Walking(d, m, D, t + 1)
             /\ l.errors = {} /\ IsTree(d, S) => m.errors = {}
<1> DEFINE m == IncludeNext(d, l)
<1>1. CASE l.todo = <<>>
  <2>1. m = l
    BY <1>1 DEF IncludeNext
  <2>2. \A D : Walking(d, l, D, t) => Walking(d, l, D, t + 1)
    BY <1>1 DEF Walking
  <2> HIDE DEF m
  <2> QED BY <2>1, <2>2 DEF m
<1>2. CASE l.todo # <<>> /\ Last(l.todo) = <<>>
  <2>1. m = [l EXCEPT !.chain = Front(l.chain), !.todo = Front(l.todo)]
    BY <1>2 DEF IncludeNext
  <2>2. m.errors = l.errors
    BY <2>1, LoaderWrites
  <2>3. l.errors = {} => \E D : Walking(d, m, D, t + 1)
    <3> SUFFICES ASSUME l.errors = {} PROVE \E D : Walking(d, m, D, t + 1)
      OBVIOUS
    <3>1. PICK D : Walking(d, l, D, t)
      OBVIOUS
    <3> QED BY <1>2, <3>1, WalkReturns
  <2> HIDE DEF m
  <2> QED BY <2>2, <2>3 DEF m
<1>3. CASE l.todo # <<>> /\ Last(l.todo) # <<>>
  <2> DEFINE path == Head(Last(l.todo))
             id == d.is[path]
             rest == [l.todo EXCEPT ![Len(l.todo)] = Tail(Last(l.todo))]
             x == [l EXCEPT !.todo = rest]
  <2>1. x \in Loaders(d) /\ path \in DOMAIN d.is
    <3> DEFINE P == Seq(DOMAIN d.is)
    <3>1. l.todo \in Seq(P)
      BY LoaderFacts
    <3> HIDE DEF P
    <3>2. Last(l.todo) \in P /\ Len(l.todo) \in 1..Len(l.todo)
      BY <1>3, <3>1, WalkSeqs
    <3>3. path \in DOMAIN d.is /\ Tail(Last(l.todo)) \in P
      <4> DEFINE y == Last(l.todo)
      <4>1. y \in Seq(DOMAIN d.is) /\ y # <<>>
        BY <1>3, <3>2 DEF P
      <4> HIDE DEF y
      <4>2. Head(y) \in DOMAIN d.is /\ Tail(y) \in Seq(DOMAIN d.is)
        BY <4>1
      <4> QED BY <4>2 DEF y, P
    <3>4. rest \in Seq(P)
      BY <1>3, <3>1, <3>3, WalkSeqs
    <3> HIDE DEF rest
    <3>5. x \in Loaders(d)
      BY <3>4, LoaderFacts DEF P
    <3> QED BY <3>3, <3>5
  <2>2. m = One(d, x, path)
    <3>1. l.todo[Len(l.todo)] = Last(l.todo)
      BY DEF Last
    <3>2. [l EXCEPT !.todo[Len(l.todo)] = Tail(@)] = x
      BY <3>1
    <3> QED BY <1>3, <3>2 DEF IncludeNext
  <2>3. /\ x.todo = rest /\ x.services = l.services /\ x.chain = l.chain
        /\ x.errors = l.errors /\ x.merged = l.merged
    <3> HIDE DEF rest
    <3> QED BY LoaderWrites
  <2> HIDE DEF x, rest
  <2>4. \/ /\ m.errors # {}
           /\ id \in ToSet(l.chain) \/ id \in l.merged \/ ~MayBe(d, id)
        \/ /\ id \notin ToSet(l.chain) /\ id \notin l.merged
           /\ m.chain = Append(l.chain, id) /\ m.todo = Append(rest, Includes(d, id))
           /\ m.merged = l.merged \cup {id}
           /\ DOMAIN m.services = Declares(d, id) \cup DOMAIN l.services
           /\ \A n \in DOMAIN l.services : m.services[n] = l.services[n]
           /\ \A n \in DOMAIN m.services \ DOMAIN l.services :
                 m.services[n].origin = path /\ IsFrom(d, n, m.services[n])
           /\ m.errors = {} <=> l.errors = {} /\ MayBe(d, id) /\ Declares(d, id) \cap DOMAIN l.services = {}
    <3> HIDE DEF path
    <3> QED BY <2>1, <2>2, <2>3, VisitFacts
  <2>5. m \in Loaders(d)
    BY IncludeKeepsLoader
  <2> HIDE DEF m
  <2>6. m.errors = {} => l.errors = {}
    BY <2>4
  <2>7. m.errors = {} => \E D : Walking(d, m, D, t + 1)
    <3> SUFFICES ASSUME m.errors = {} PROVE \E D : Walking(d, m, D, t + 1)
      OBVIOUS
    <3>1. PICK D : Walking(d, l, D, t)
      BY <2>6
    <3>2. id \notin Come(d, l)
      BY <1>3, <2>4, <3>1, WalkEntry DEF Come
    <3> QED BY <1>3, <2>4, <2>5, <3>1, <3>2, WalkEnters DEF rest
  <2>8. l.errors = {} /\ IsTree(d, S) => m.errors = {}
    <3> SUFFICES ASSUME l.errors = {}, IsTree(d, S), m.errors # {} PROVE FALSE
      OBVIOUS
    <3>1. PICK D : Walking(d, l, D, t)
      OBVIOUS
    <3>2. Come(d, l) \subseteq S /\ CameBy(d, l, D) /\ Gathered(d, l)
      BY <3>1 DEF Walking, CameBy, IsClosureOf
    <3>3. PICK e : e \notin D /\ e[1] \in Come(d, l) /\ e \in EntriesOf(d, e[1]) /\ Leads(d, e) = id
      BY <1>3, <3>1, WalkEntry
    <3> HIDE DEF id
    <3>4. id \in S
      BY <3>2, <3>3 DEF IsClosureOf, HasIncludes
    <3>5. e \in Towards(d, S, id) /\ IsFiniteSet(Towards(d, S, id))
      <4>1. Towards(d, S, id) \subseteq AllEntries(d)
        BY DEF Towards, AllEntries
      <4>2. e \in Towards(d, S, id)
        BY <3>2, <3>3 DEF Towards
      <4> QED BY <4>1, <4>2, EntriesAreFinite, FS_Subset
    <3>6. id # d.is[d.root]
      <4>1. Cardinality(Towards(d, S, id)) # 0
        BY <3>5, FS_EmptySet
      <4> QED BY <3>4, <4>1 DEF IsTree
    <3>7. id \notin Come(d, l)
      <4> SUFFICES ASSUME id \in l.merged PROVE FALSE
        BY <3>6 DEF Come
      <4>1. PICK g \in D : Leads(d, g) = id
        BY <3>2 DEF CameBy
      <4>2. g \in Towards(d, S, id)
        BY <3>2, <4>1 DEF CameBy, Towards
      <4>3. Cardinality(Towards(d, S, id)) = 1
        BY <3>4, <3>6 DEF IsTree
      <4>4. g = e
        BY <3>5, <4>2, <4>3, FS_Singleton
      <4> QED BY <3>3, <4>4
    <3>8. id \notin ToSet(l.chain) /\ id \notin l.merged
      <4>1. ToSet(l.chain) \subseteq Come(d, l)
        BY <3>1, WalkIsFinite
      <4> QED BY <3>7, <4>1 DEF Come
    <3>9. MayBe(d, id)
      BY <3>4, <3>6 DEF IsTree
    <3>10. Declares(d, id) \cap DOMAIN l.services = {}
      <4>1. DOMAIN l.services = UNION {Declares(d, f) : f \in Come(d, l)}
        BY <3>2 DEF Gathered
      <4>2. \A f \in Come(d, l) : Declares(d, id) \cap Declares(d, f) = {}
        BY <3>2, <3>4, <3>7 DEF IsTree
      <4> QED BY <4>1, <4>2
    <3> QED BY <2>4, <3>8, <3>9, <3>10
  <2> QED BY <2>6, <2>7, <2>8 DEF m
<1> QED BY <1>1, <1>2, <1>3

\* merge() puts together what the includes lead to when they form a tree of fragments
\* that declare different services, and finds fault when they do not.
LEMMA MergeEnds ==
  ASSUME NEW d, IsDisk(d), NEW S \in SUBSET DOMAIN d.files, IsClosureOf(d, S)
  PROVE  LET l == Merge(d, d.root)
         IN  /\ l.errors = {} => /\ IsTree(d, S)
                                 /\ DOMAIN l.services = UNION {Declares(d, f) : f \in S}
                                 /\ \A n \in DOMAIN l.services :
                                       d.is[l.services[n].origin] \in S /\ IsFrom(d, n, l.services[n])
             /\ l.errors # {} => ~IsTree(d, S)
<1> DEFINE N == Visits(d)
           l == Merge(d, d.root)
<1>1. N \in Nat
  BY MergeRuns
<1>2. PICK h : /\ \A n \in 0..N : h[n] \in Loaders(d)
               /\ h[0] = MergeStart(d, d.root)
               /\ \A n \in 1..N : h[n] = IncludeNext(d, h[n - 1])
               /\ l = h[N]
  BY MergeRuns
<1> HIDE DEF N, l
<1> DEFINE T == {n \in 0..N : /\ h[n].errors = {} => \E D : Walking(d, h[n], D, n)
                              /\ IsTree(d, S) => h[n].errors = {}}
<1>3. \A n \in 0..N : n \in T
  <2>1. 0 \in T
    <3>1. h[0].errors = {} /\ Walking(d, h[0], {}, 0)
      BY <1>2, WalkStarts
    <3>2. 0 \in 0..N
      BY <1>1
    <3> QED BY <3>1, <3>2
  <2>2. ASSUME NEW n \in 1..N, n - 1 \in T
        PROVE  n \in T
    <3> DEFINE k == n - 1
               x == h[k]
    <3>1. k \in Nat /\ k \in 0..N /\ k + 1 = n
      BY <1>1
    <3>2. /\ x \in Loaders(d) /\ h[n] = IncludeNext(d, x)
          /\ x.errors = {} => \E D : Walking(d, x, D, k)
          /\ IsTree(d, S) => x.errors = {}
      BY <1>2, <2>2, <3>1
    <3> HIDE DEF x, k, T
    <3>3. /\ h[n].errors = {} => \E D : Walking(d, h[n], D, k + 1)
          /\ x.errors = {} /\ IsTree(d, S) => h[n].errors = {}
      BY <3>1, <3>2, WalkGoesOn
    <3>4. n \in 0..N
      BY <1>1
    <3> QED BY <3>1, <3>2, <3>3, <3>4 DEF T
  <2> HIDE DEF T
  <2> QED BY <1>1, <2>1, <2>2, Induction
<1>4. /\ l.errors = {} => \E D : Walking(d, l, D, N)
      /\ l.errors # {} => ~IsTree(d, S)
  BY <1>1, <1>2, <1>3
<1> HIDE DEF T
<1>5. ASSUME NEW D, Walking(d, l, D, N)
      PROVE  /\ IsTree(d, S)
             /\ DOMAIN l.services = UNION {Declares(d, f) : f \in S}
             /\ \A n \in DOMAIN l.services : d.is[l.services[n].origin] \in S /\ IsFrom(d, n, l.services[n])
  <2> DEFINE W == Come(d, l)
             root == d.is[d.root]
  <2>1. l \in Loaders(d) /\ OnStack(d, l, D) /\ CameBy(d, l, D) /\ Gathered(d, l)
    BY <1>5 DEF Walking
  <2>2. /\ W \in SUBSET DOMAIN d.files /\ IsFiniteSet(W) /\ IsFiniteSet(AllEntries(d))
        /\ D \in SUBSET AllEntries(d) /\ IsFiniteSet(D) /\ l.chain \in Seq(W)
    BY <1>1, <1>5, WalkIsFinite
  <2>3. l.todo = <<>>
    <3> SUFFICES ASSUME l.todo # <<>> PROVE FALSE
      OBVIOUS
    <3> DEFINE a == Cardinality(D)
               b == Cardinality(W \ ToSet(l.chain))
               A == Cardinality(AllEntries(d))
               B == Cardinality(DOMAIN d.files)
    <3>1. N <= a + b
      BY <1>5 DEF Walking
    <3>2. N = A + B
      BY DEF N, Visits
    <3>3. a <= A /\ a \in Nat /\ A \in Nat
      BY <2>2, FS_Subset, FS_CardinalityType
    <3>4. l.chain[1] = root /\ 1 \in DOMAIN l.chain
      <4>1. Len(l.todo) \in Nat /\ Len(l.todo) # 0 /\ Len(l.chain) = Len(l.todo)
        <5> DEFINE P == Seq(DOMAIN d.is)
        <5>1. l.todo \in Seq(P) /\ Len(l.chain) = Len(l.todo)
          BY <2>1, LoaderFacts DEF OnStack
        <5> HIDE DEF P
        <5> QED BY <5>1, EmptySeq
      <4> HIDE DEF W
      <4>2. DOMAIN l.chain = 1..Len(l.chain) /\ l.chain # <<>>
        BY <2>2, <4>1
      <4> QED BY <2>1, <4>1, <4>2 DEF OnStack
    <3>5. root \in DOMAIN d.files /\ root \notin W \ ToSet(l.chain)
      BY <3>4, DiskFacts DEF ToSet
    <3>6. b <= B - 1 /\ b \in Nat /\ B \in Nat
      <4> DEFINE F2 == DOMAIN d.files \ {root}
                 V == W \ ToSet(l.chain)
      <4>1. V \in SUBSET F2 /\ IsFiniteSet(F2) /\ IsFiniteSet(DOMAIN d.files)
        BY <2>2, <3>5, DiskFacts, FS_RemoveElement
      <4>2. Cardinality(F2) = Cardinality(DOMAIN d.files) - 1
        BY <3>5, <4>1, FS_RemoveElement
      <4> HIDE DEF F2, V
      <4>3. Cardinality(V) <= Cardinality(F2) /\ IsFiniteSet(V)
        BY <4>1, FS_Subset
      <4>4. Cardinality(V) \in Nat /\ Cardinality(DOMAIN d.files) \in Nat
        BY <4>1, <4>3, FS_CardinalityType
      <4> QED BY <4>2, <4>3, <4>4 DEF V
    <3> HIDE DEF a, b, A, B
    <3> QED BY <3>1, <3>2, <3>3, <3>6
  <2>4. ToSet(l.chain) = {}
    <3>1. Len(l.todo) = 0 /\ Len(l.chain) = Len(l.todo)
      BY <2>1, <2>3 DEF OnStack
    <3>2. DOMAIN l.chain = {}
      <4> HIDE DEF W
      <4> QED BY <2>2, <3>1
    <3> QED BY <3>2 DEF ToSet
  <2>5. \A f \in W : EntriesOf(d, f) \subseteq D
    BY <2>1, <2>4 DEF CameBy
  <2>6. HasIncludes(d, W)
    <3>1. root \in W
      BY DEF Come
    <3>2. \A e \in D : Leads(d, e) \in W
      BY <2>1 DEF CameBy, Come
    <3> HIDE DEF W
    <3> QED BY <2>5, <3>1, <3>2 DEF HasIncludes
  <2>7. W = S
    <3>1. W \subseteq S
      BY <2>1 DEF CameBy, IsClosureOf
    <3> HIDE DEF W
    <3> QED BY <2>6, <3>1 DEF IsClosureOf
  <2>8. ASSUME NEW f
        PROVE  Towards(d, S, f) = {e \in D : Leads(d, e) = f}
    <3>1. \A e \in D : e[1] \in W /\ e \in EntriesOf(d, e[1])
      BY <2>1 DEF CameBy
    <3> HIDE DEF W
    <3> QED BY <2>5, <2>7, <3>1 DEF Towards
  <2>9. ASSUME NEW f \in S
        PROVE  /\ Cardinality(Towards(d, S, f)) = IF f = root THEN 0 ELSE 1
               /\ f # root => MayBe(d, f)
               /\ \A g \in S \ {f} : Declares(d, f) \cap Declares(d, g) = {}
    <3>1. CASE f = root
      <4>1. Towards(d, S, f) = {}
        BY <2>1, <2>8, <3>1 DEF CameBy
      <4>2. Cardinality(Towards(d, S, f)) = 0
        BY <4>1, FS_EmptySet
      <4> QED BY <2>1, <2>7, <3>1, <4>2 DEF Gathered
    <3>2. CASE f # root
      <4>1. f \in l.merged
        BY <2>7, <3>2 DEF Come
      <4>2. PICK e \in D : Leads(d, e) = f
        BY <2>1, <4>1 DEF CameBy
      <4>3. \A g \in D : Leads(d, g) = f => g = e
        BY <2>1, <4>2 DEF CameBy
      <4>4. Towards(d, S, f) = {e}
        BY <2>8, <4>2, <4>3
      <4>5. Cardinality(Towards(d, S, f)) = 1
        BY <4>4, FS_Singleton
      <4> QED BY <2>1, <2>7, <3>2, <4>1, <4>5 DEF Gathered
    <3> QED BY <3>1, <3>2
  <2>10. IsTree(d, S)
    BY <2>9 DEF IsTree
  <2> QED BY <2>1, <2>7, <2>10 DEF Gathered
<1> QED BY <1>4, <1>5 DEF l

-----------------------------------------------------------------------------
(* expand_raw. *)

Words(vars_) == \A v \in DOMAIN vars_ : vars_[v] \in STRING

\* The words and the pieces of values.
LEMMA RawValueFacts ==
  /\ \A v \in RawValues : v.word \in STRING /\ v.pieces \in Seq(Pieces) /\ Nested(v.pieces)
  /\ \A w \in STRING : Word(w) \in RawValues
<1>1. \A v \in RawValues : v.word \in STRING /\ v.pieces \in Seq(Pieces) /\ Nested(v.pieces)
  <2> DEFINE Q == Seq(Pieces)
  <2>1. RawValues = {v \in [word : STRING, pieces : Q] : Nested(v.pieces)}
    BY DEF RawValues
  <2> HIDE DEF Q
  <2>2. \A v \in RawValues : v.word \in STRING /\ v.pieces \in Q /\ Nested(v.pieces)
    BY <2>1
  <2> QED BY <2>2 DEF Q
<1>2. ASSUME NEW w \in STRING
      PROVE  Word(w) \in RawValues
  <2> DEFINE Q == Seq(Pieces)
             none == <<>>
             x == [word |-> w, pieces |-> none]
  <2>1. none \in Q /\ Nested(none)
    BY DEF Nested
  <2> HIDE DEF Q, none
  <2>2. x \in [word : STRING, pieces : Q] /\ x.pieces = none
    BY <2>1
  <2> HIDE DEF x
  <2>3. x \in {v \in [word : STRING, pieces : Q] : Nested(v.pieces)}
    BY <2>1, <2>2
  <2> QED BY <2>3 DEF RawValues, Word, Q, none, x
<1> QED BY <1>1, <1>2

LEMMA JoinIsWord ==
  ASSUME NEW a \in STRING, NEW b
  PROVE  Join(a, b) \in STRING
BY DEF Join

\* What a value has come to, part of the way.
Readings == [fault : {"none", "InvalidSubstitution", "UndefinedVariable"}, word : STRING, past : Nat]

ReadingStart(v) == [fault |-> "none", word |-> v.word, past |-> 0]

ReadingLoop(v, vars_, f) ==
  [i \in 0..Len(v.pieces) |->
      IF i = 0 THEN ReadingStart(v) ELSE Reading(f[i - 1], v.pieces[i], i, vars_)]

\* The turns of the loop that expand is.
IsReading(v, vars_, f) ==
  /\ f \in [0..Len(v.pieces) -> Readings] /\ f[0] = ReadingStart(v)
  /\ \A n \in 1..Len(v.pieces) : f[n] = Reading(f[n - 1], v.pieces[n], n, vars_)

LEMMA ReadingIsReading ==
  ASSUME NEW vars_, NEW so \in Readings, NEW p \in Pieces, NEW i \in Nat
  PROVE  Reading(so, p, i, vars_) \in Readings
<1> DEFINE F == {"none", "InvalidSubstitution", "UndefinedVariable"}
<1>1. so.fault \in F /\ so.word \in STRING /\ so.past \in Nat
  BY DEF Readings
<1>2. so = [fault |-> so.fault, word |-> so.word, past |-> so.past]
  BY DEF Readings
<1>3. p.span \in Nat
  BY DEF Pieces
<1>4. Fault(p, vars_) \in F
  BY DEF Fault
<1> DEFINE fault == Fault(p, vars_)
           word == Join(so.word, Says(p, vars_))
           past == IF Counts(p, vars_) THEN i + p.span ELSE so.past
<1>5. word \in STRING
  BY <1>1, JoinIsWord
<1>6. past \in Nat
  BY <1>1, <1>3
<1>7. \/ Reading(so, p, i, vars_) = so
      \/ Reading(so, p, i, vars_) = [so EXCEPT !.fault = fault]
      \/ Reading(so, p, i, vars_) = [fault |-> "none", word |-> word, past |-> past]
  BY DEF Reading
<1> HIDE DEF fault, word, past
<1>8. [so EXCEPT !.fault = fault] = [fault |-> fault, word |-> so.word, past |-> so.past]
  BY <1>2
<1> QED BY <1>1, <1>4, <1>5, <1>6, <1>7, <1>8 DEF Readings, fault

\* expand is that loop, and ends with its last turn.
LEMMA ReadingRuns ==
  ASSUME NEW vars_, NEW v \in RawValues
  PROVE  \E f : IsReading(v, vars_, f) /\ Expansion(v, vars_) = f[Len(v.pieces)]
<1> DEFINE s == v.pieces
           N == Len(s)
           S == Readings
           b == ReadingStart(v)
           f == CHOOSE f : f = ReadingLoop(v, vars_, f)
           g == [x \in (1..N) \X S |-> Reading(x[2], s[x[1]], x[1], vars_)]
<1>1. N \in Nat /\ \A n \in 1..N : s[n] \in Pieces
  <2>1. s \in Seq(Pieces)
    BY RawValueFacts
  <2> HIDE DEF s
  <2> QED BY <2>1
<1>2. Expansion(v, vars_) = f[N]
  BY DEF Expansion, ReadingLoop, ReadingStart
<1>3. \A n \in 1..N, x \in S : Reading(x, s[n], n, vars_) \in S
  BY <1>1, ReadingIsReading
<1>4. b \in S
  <2>1. v.word \in STRING
    BY RawValueFacts
  <2> QED BY <2>1 DEF ReadingStart, Readings
<1>5. g \in [(1..N) \X S -> S] /\ \A n \in 1..N, x \in S : g[<<n, x>>] = Reading(x, s[n], n, vars_)
  BY <1>3
<1> HIDE DEF N, S, g, b
<1>6. PICK h : Runs(N, S, b, g, h)
  BY <1>1, <1>4, <1>5, Iterates
<1>7. /\ h \in [0..N -> S] /\ h[0] = b
      /\ \A n \in 1..N : n - 1 \in 0..N /\ h[n] = Reading(h[n - 1], s[n], n, vars_)
  <2>1. \A n \in 1..N : n - 1 \in 0..N
    BY <1>1
  <2> QED BY <1>5, <1>6, <2>1 DEF Runs
<1> HIDE DEF s
<1>8. h = ReadingLoop(v, vars_, h)
  <2>1. h = [n \in 0..N |-> h[n]]
    BY <1>7
  <2>2. ASSUME NEW n \in 0..N
        PROVE  h[n] = IF n = 0 THEN b ELSE Reading(h[n - 1], s[n], n, vars_)
    <3>1. CASE n = 0
      BY <1>7, <3>1
    <3>2. CASE n # 0
      <4>1. n \in 1..N
        BY <1>1, <3>2
      <4> QED BY <1>7, <3>2, <4>1
    <3> QED BY <3>1, <3>2
  <2>3. [n \in 0..N |-> h[n]] = [n \in 0..N |-> IF n = 0 THEN b ELSE Reading(h[n - 1], s[n], n, vars_)]
    BY <2>2
  <2> QED BY <2>1, <2>3 DEF ReadingLoop, N, b, s
<1>9. f = ReadingLoop(v, vars_, f)
  BY <1>8, Zenon
<1> HIDE DEF f
<1>10. f[0] = b /\ \A n \in 1..N : f[n] = Reading(f[n - 1], s[n], n, vars_)
  <2> DEFINE r == ReadingLoop(v, vars_, f)
  <2>1. \A n \in 0..N : r[n] = IF n = 0 THEN b ELSE Reading(f[n - 1], s[n], n, vars_)
    BY DEF ReadingLoop, N, b, s
  <2>2. f = r
    BY <1>9
  <2> HIDE DEF r
  <2>3. \A n \in 1..N : n \in 0..N /\ n # 0
    BY <1>1
  <2>4. 0 \in 0..N
    BY <1>1
  <2> QED BY <2>1, <2>2, <2>3, <2>4
<1> DEFINE T == {n \in 0..N : f[n] \in S}
<1>11. 0 \in T
  BY <1>1, <1>4, <1>10
<1>12. \A n \in 1..N : n - 1 \in T => n \in T
  BY <1>3, <1>10
<1>13. \A n \in 0..N : f[n] \in S
  <2> HIDE DEF T
  <2>1. \A n \in 0..N : n \in T
    BY <1>1, <1>11, <1>12, Induction
  <2> QED BY <2>1 DEF T
<1>14. f = [n \in 0..N |-> f[n]]
  <2> DEFINE r == ReadingLoop(v, vars_, f)
  <2>1. r = [n \in 0..N |-> r[n]]
    BY DEF ReadingLoop, N, s
  <2> HIDE DEF r
  <2>2. f = r
    BY <1>9 DEF r
  <2> QED BY <2>1, <2>2
<1>15. f \in [0..N -> S]
  BY <1>13, <1>14
<1> QED BY <1>2, <1>10, <1>15 DEF IsReading, N, S, b, s

\* A value that is expanded is a value.
LEMMA ExpandedIsValue ==
  ASSUME NEW vars_, Words(vars_), NEW v \in RawValues
  PROVE  Expanded(v, vars_) \in RawValues
<1>1. Expansion(v, vars_).word \in STRING
  <2>1. PICK f : IsReading(v, vars_, f) /\ Expansion(v, vars_) = f[Len(v.pieces)]
    BY ReadingRuns
  <2>2. Len(v.pieces) \in Nat
    BY RawValueFacts
  <2>3. f[Len(v.pieces)] \in Readings
    BY <2>1, <2>2 DEF IsReading
  <2> QED BY <2>1, <2>3 DEF Readings
<1>2. Word(Expansion(v, vars_).word) \in RawValues
  BY <1>1, RawValueFacts
<1>3. Expanded(v, vars_) = v \/ Expanded(v, vars_) = Word(Expansion(v, vars_).word)
  BY DEF Expanded
<1> QED BY <1>2, <1>3

\* A list that is expanded is a list of values.
LEMMA ExpandedListIsList ==
  ASSUME NEW vars_, Words(vars_), NEW s \in Seq(RawValues)
  PROVE  ExpandedAll(s, vars_) \in Seq(RawValues)
<1> DEFINE T == RawValues
           n == Len(s)
           e == [i \in 1..n |-> Expanded(s[i], vars_)]
<1>1. n \in Nat /\ DOMAIN s = 1..n /\ \A i \in 1..n : s[i] \in T
  OBVIOUS
<1>2. \A i \in 1..n : Expanded(s[i], vars_) \in T
  BY <1>1, ExpandedIsValue
<1>3. e \in [1..n -> T]
  BY <1>2
<1>4. ExpandedAll(s, vars_) = e
  BY <1>1 DEF ExpandedAll
<1> HIDE DEF e, n, T
<1>5. e \in Seq(T)
  BY <1>1, <1>3, SeqDef
<1> QED BY <1>4, <1>5 DEF T

\* What is expanded in a table.
IsExpansion(t, x, vars_) ==
  /\ x.texts = [f \in DOMAIN t.texts |-> IF f \in ExpandedTexts THEN Expanded(t.texts[f], vars_) ELSE t.texts[f]]
  /\ x.lists = [f \in DOMAIN t.lists |-> IF f \in ExpandedLists THEN ExpandedAll(t.lists[f], vars_) ELSE t.lists[f]]
  /\ x.env = ExpandedAll(t.env, vars_)

\* A table that is expanded holds the fields that it held.
LEMMA ExpandedTableIsTable ==
  ASSUME NEW vars_, Words(vars_), NEW t, IsRawTable(t), NEW x, IsExpansion(t, x, vars_)
  PROVE  IsRawTable(x)
<1>0. /\ x.texts = [f \in DOMAIN t.texts |-> IF f \in ExpandedTexts THEN Expanded(t.texts[f], vars_) ELSE t.texts[f]]
      /\ x.lists = [f \in DOMAIN t.lists |-> IF f \in ExpandedLists THEN ExpandedAll(t.lists[f], vars_) ELSE t.lists[f]]
      /\ x.env = ExpandedAll(t.env, vars_)
  BY DEF IsExpansion
<1>1. \A f \in DOMAIN x.texts : x.texts[f] \in RawValues
  BY <1>0, ExpandedIsValue DEF IsRawTable
<1>2. \A f \in DOMAIN x.lists : x.lists[f] \in Seq(RawValues)
  <2> TAKE f \in DOMAIN x.lists
  <2>1. t.lists[f] \in Seq(RawValues)
    BY <1>0 DEF IsRawTable
  <2>2. ExpandedAll(t.lists[f], vars_) \in Seq(RawValues)
    BY <2>1, ExpandedListIsList
  <2> QED BY <1>0, <2>1, <2>2
<1>3. DOMAIN x.env = DOMAIN t.env /\ \A k \in DOMAIN x.env : x.env[k] \in RawValues
  BY <1>0, ExpandedIsValue DEF IsRawTable, ExpandedAll
<1>4. DOMAIN x.texts = DOMAIN t.texts /\ DOMAIN x.lists = DOMAIN t.lists
  BY <1>0
<1> QED BY <1>1, <1>2, <1>3, <1>4 DEF IsRawTable

\* A service that is expanded is what serde makes of a service.
LEMMA ExpandedIsRaw ==
  ASSUME NEW vars_, Words(vars_), NEW t, IsRawService(t)
  PROVE  LET x == ExpandTable(t, vars_)
         IN  IsRawService(x) /\ x.origin = t.origin /\ IsExpansion(t, x, vars_)
<1> DEFINE texts == [f \in DOMAIN t.texts |-> IF f \in ExpandedTexts THEN Expanded(t.texts[f], vars_) ELSE t.texts[f]]
           lists == [f \in DOMAIN t.lists |-> IF f \in ExpandedLists THEN ExpandedAll(t.lists[f], vars_) ELSE t.lists[f]]
           env == ExpandedAll(t.env, vars_)
           x == ExpandTable(t, vars_)
<1>1. x = [t EXCEPT !.texts = texts, !.lists = lists, !.env = env]
  BY DEF ExpandTable
<1> HIDE DEF texts, lists, env, x
<1>2. x = [texts |-> texts, lists |-> lists, numbers |-> t.numbers, env |-> env,
           health |-> t.health, watch |-> t.watch, logs |-> t.logs,
           depends_on |-> t.depends_on, profiles |-> t.profiles,
           autostart |-> t.autostart, restart |-> t.restart, origin |-> t.origin]
  BY <1>1 DEF IsRawService
<1>3. /\ x.texts = texts /\ x.lists = lists /\ x.numbers = t.numbers /\ x.env = env
      /\ x.health = t.health /\ x.watch = t.watch /\ x.logs = t.logs
      /\ x.depends_on = t.depends_on /\ x.profiles = t.profiles
      /\ x.autostart = t.autostart /\ x.restart = t.restart /\ x.origin = t.origin
  BY <1>2
<1>4. x = [texts |-> x.texts, lists |-> x.lists, numbers |-> x.numbers, env |-> x.env,
           health |-> x.health, watch |-> x.watch, logs |-> x.logs,
           depends_on |-> x.depends_on, profiles |-> x.profiles,
           autostart |-> x.autostart, restart |-> x.restart, origin |-> x.origin]
  BY <1>2, <1>3
<1>5. IsExpansion(t, x, vars_)
  BY <1>3 DEF IsExpansion, texts, lists, env
<1>6. IsRawTable(x)
  BY <1>5, ExpandedTableIsTable DEF IsRawService
<1>7. IsRawService(x)
  BY <1>3, <1>4, <1>6 DEF IsRawService
<1> QED BY <1>3, <1>5, <1>7 DEF x

\* A project that is expanded is what serde makes of a project.
LEMMA ExpandedProjectIsRaw ==
  ASSUME NEW vars_, Words(vars_), NEW t, IsRawProject(t)
  PROVE  LET x == ExpandTable(t, vars_) IN IsRawProject(x) /\ IsExpansion(t, x, vars_)
<1> DEFINE texts == [f \in DOMAIN t.texts |-> IF f \in ExpandedTexts THEN Expanded(t.texts[f], vars_) ELSE t.texts[f]]
           lists == [f \in DOMAIN t.lists |-> IF f \in ExpandedLists THEN ExpandedAll(t.lists[f], vars_) ELSE t.lists[f]]
           env == ExpandedAll(t.env, vars_)
           x == ExpandTable(t, vars_)
<1>1. x = [t EXCEPT !.texts = texts, !.lists = lists, !.env = env]
  BY DEF ExpandTable
<1> HIDE DEF texts, lists, env, x
<1>2. x = [name |-> t.name, texts |-> texts, lists |-> lists, numbers |-> t.numbers, env |-> env, logs |-> t.logs]
  BY <1>1 DEF IsRawProject
<1>3. /\ x.name = t.name /\ x.texts = texts /\ x.lists = lists /\ x.numbers = t.numbers
      /\ x.env = env /\ x.logs = t.logs
  BY <1>2
<1>4. x = [name |-> x.name, texts |-> x.texts, lists |-> x.lists, numbers |-> x.numbers, env |-> x.env,
           logs |-> x.logs]
  BY <1>2, <1>3
<1>5. IsExpansion(t, x, vars_)
  BY <1>3 DEF IsExpansion, texts, lists, env
<1>6. IsRawTable(x)
  BY <1>5, ExpandedTableIsTable DEF IsRawProject
<1> QED BY <1>4, <1>5, <1>6 DEF IsRawProject, x

\* expand_raw makes a raw model of a raw model.
LEMMA ExpandKeepsRaw ==
  ASSUME NEW d, NEW vars_, Words(vars_), NEW r,
         r = [version |-> r.version, project |-> r.project, services |-> r.services],
         IsRaw(d, r.services)
  PROVE  LET x == ExpandRaw(r, vars_)
         IN  /\ IsRaw(d, x.services)
             /\ x = [version |-> x.version, project |-> x.project, services |-> x.services]
<1> DEFINE x == ExpandRaw(r, vars_)
           p == ExpandTable(r.project, vars_)
           s == [n \in DOMAIN r.services |-> ExpandTable(r.services[n], vars_)]
<1>1. x = [r EXCEPT !.project = p, !.services = s]
  BY DEF ExpandRaw
<1>2. IsRaw(d, s)
  <2>1. DOMAIN s = DOMAIN r.services /\ \A n \in DOMAIN s : s[n] = ExpandTable(r.services[n], vars_)
    OBVIOUS
  <2> HIDE DEF s
  <2>2. ASSUME NEW n \in DOMAIN s PROVE IsRawService(s[n]) /\ s[n].origin \in DOMAIN d.is
    <3>1. IsRawService(r.services[n]) /\ r.services[n].origin \in DOMAIN d.is
      BY <2>1 DEF IsRaw
    <3> QED BY <2>1, <3>1, ExpandedIsRaw
  <2> QED BY <2>1, <2>2 DEF IsRaw
<1> HIDE DEF p, s, x
<1>3. x = [version |-> r.version, project |-> p, services |-> s]
  BY <1>1
<1> QED BY <1>2, <1>3 DEF x

-----------------------------------------------------------------------------
(* validate_raw. *)

\* A configuration without errors: nothing is wrong with any service or dependency.
LEMMA NoRawErrors ==
  ASSUME NEW d, NEW r, RawErrors(d, r) = {}
  PROVE  /\ DOMAIN r.services # {}
         /\ \A n \in DOMAIN r.services :
               /\ CommandFault(n, r.services[n]) = "none"
               /\ ServiceErrors(d, n, r.services[n]) = {}
               /\ \A i \in DOMAIN r.services[n].depends_on : DependencyFault(r, n, i) = "none"
<1> DEFINE N == DOMAIN r.services
<1>1. /\ ProjectErrors(d, r) = {} /\ DependencyErrors(r) = {}
      /\ \A n \in N : ServiceErrors(d, n, r.services[n]) = {}
  <2>1. ProjectErrors(d, r) \subseteq RawErrors(d, r)
    BY DEF RawErrors
  <2>2. DependencyErrors(r) \subseteq RawErrors(d, r)
    BY DEF RawErrors
  <2>3. \A n \in N : ServiceErrors(d, n, r.services[n]) \subseteq RawErrors(d, r)
    BY DEF RawErrors
  <2> QED BY <2>1, <2>2, <2>3
<1>2. DOMAIN r.services # {}
  <2>1. When(DOMAIN r.services = {}, "NoServices", 0, "services") = {}
    BY <1>1 DEF ProjectErrors
  <2> QED BY <2>1 DEF When
<1>3. ASSUME NEW n \in N
      PROVE  ServiceErrors(d, n, r.services[n]) = {} /\ CommandFault(n, r.services[n]) = "none"
  <2>1. ServiceErrors(d, n, r.services[n]) = {}
    BY <1>1
  <2>2. CommandFault(n, r.services[n]) # "none" =>
            ServiceErrors(d, n, r.services[n]) = {<<CommandFault(n, r.services[n]), n, "command">>}
    BY DEF ServiceErrors
  <2> QED BY <2>1, <2>2
<1>4. ASSUME NEW n \in N, NEW i \in DOMAIN r.services[n].depends_on
      PROVE  DependencyFault(r, n, i) = "none"
  <2> DEFINE all == UNION {{m} \X DOMAIN r.services[m].depends_on : m \in N}
             bad == {x \in all : DependencyFault(r, x[1], x[2]) # "none"}
  <2>1. <<n, i>> \in all
    OBVIOUS
  <2>2. DependencyErrors(r) = {<<DependencyFault(r, e[1], e[2]), e[1], "depends_on">> : e \in bad}
    BY DEF DependencyErrors
  <2>3. bad = {}
    <3> SUFFICES ASSUME NEW e \in bad PROVE FALSE
      OBVIOUS
    <3> HIDE DEF bad
    <3>1. <<DependencyFault(r, e[1], e[2]), e[1], "depends_on">> \in DependencyErrors(r)
      BY <2>2
    <3> QED BY <1>1, <3>1
  <2>4. <<n, i>>[1] = n /\ <<n, i>>[2] = i
    OBVIOUS
  <2> HIDE DEF all
  <2>5. DependencyFault(r, n, i) = "none"
    BY <2>1, <2>3, <2>4
  <2> QED BY <2>5
<1> QED BY <1>2, <1>3, <1>4

\* The services of a configuration without errors, and what they depend on.
LEMMA ValidatedFacts ==
  ASSUME NEW d, NEW vars_, NEW r, IsRaw(d, r.services), RawErrors(d, r) = {}
  PROVE  LET services == ValidatedServices(d, vars_, r)
         IN  /\ DOMAIN services = DOMAIN r.services
             /\ \A n \in DOMAIN r.services :
                   /\ services[n] = Validated(d, vars_, r.project, n, r.services[n])
                   /\ services[n].depends_on = r.services[n].depends_on
                   /\ services[n].depends_on \in Seq([on : Int, condition : STRING])
                   /\ \A i \in DOMAIN services[n].depends_on :
                         services[n].depends_on[i].on \in DOMAIN services
<1> DEFINE services == ValidatedServices(d, vars_, r)
<1>1. {n \in DOMAIN r.services : CommandFault(n, r.services[n]) = "none"} = DOMAIN r.services
  BY NoRawErrors
<1>2. services = [n \in DOMAIN r.services |-> Validated(d, vars_, r.project, n, r.services[n])]
  BY <1>1 DEF ValidatedServices
<1> HIDE DEF services
<1>3. DOMAIN services = DOMAIN r.services
  BY <1>2
<1>4. ASSUME NEW n \in DOMAIN r.services
      PROVE  /\ services[n] = Validated(d, vars_, r.project, n, r.services[n])
             /\ services[n].depends_on = r.services[n].depends_on
             /\ services[n].depends_on \in Seq([on : Int, condition : STRING])
             /\ \A i \in DOMAIN services[n].depends_on :
                   services[n].depends_on[i].on \in DOMAIN services
  <2>1. services[n] = Validated(d, vars_, r.project, n, r.services[n])
    BY <1>2
  <2>2. services[n].depends_on = r.services[n].depends_on
    BY <2>1 DEF Validated
  <2>3. services[n].depends_on \in Seq([on : Int, condition : STRING])
    BY <2>2 DEF IsRaw, IsRawService
  <2>4. ASSUME NEW i \in DOMAIN r.services[n].depends_on
        PROVE  r.services[n].depends_on[i].on \in DOMAIN r.services
    <3>1. DependencyFault(r, n, i) = "none"
      BY NoRawErrors
    <3> QED BY <3>1 DEF DependencyFault
  <2> QED BY <1>3, <2>1, <2>2, <2>3, <2>4
<1> QED BY <1>3, <1>4 DEF services

\* The dependencies of a configuration without errors are a graph: none leads out of it.
LEMMA ValidatedGraph ==
  ASSUME NEW d, NEW vars_, NEW r, IsRaw(d, r.services), RawErrors(d, r) = {}
  PROVE  IsGraph(DepGraph(ValidatedServices(d, vars_, r)))
<1> DEFINE services == ValidatedServices(d, vars_, r)
           g == DepGraph(services)
<1>1. /\ DOMAIN services = DOMAIN r.services
      /\ \A n \in DOMAIN services :
            /\ services[n].depends_on \in Seq([on : Int, condition : STRING])
            /\ \A i \in DOMAIN services[n].depends_on :
                  services[n].depends_on[i].on \in DOMAIN services
  BY ValidatedFacts
<1> HIDE DEF services
<1>2. DOMAIN g = DOMAIN services
  BY DEF DepGraph
<1>3. ASSUME NEW n \in DOMAIN services
      PROVE  g[n] \in Seq(DOMAIN services)
  <2> DEFINE s == services[n].depends_on
             m == Len(s)
             e == [i \in 1..m |-> s[i].on]
             T == DOMAIN services
  <2>1. m \in Nat /\ DOMAIN s = 1..m
    BY <1>1
  <2>2. \A i \in 1..m : s[i].on \in T
    BY <1>1, <2>1
  <2>3. g[n] = e
    BY <2>1 DEF DepGraph
  <2> HIDE DEF s, m, T
  <2>4. e \in [1..m -> T]
    BY <2>2
  <2> HIDE DEF e, g
  <2>5. e \in Seq(T)
    BY <2>1, <2>4, SeqDef
  <2> QED BY <2>3, <2>5 DEF T
<1>4. DOMAIN services \subseteq Int /\ IsFiniteSet(DOMAIN services)
  BY <1>1 DEF IsRaw
<1> HIDE DEF g
<1>5. IsGraph(g)
  BY <1>2, <1>3, <1>4 DEF IsGraph
<1> QED BY <1>5 DEF g, services

-----------------------------------------------------------------------------
(* find_cycle. *)

\* Every service that remains waits for one that remains.
IsStuck(deps, R) ==
  /\ IsGraph(deps) /\ R \in SUBSET DOMAIN deps /\ R # {}
  /\ \A n \in R : ToSet(deps[n]) \cap R # {}

\* A walk along dependencies, and one that ends where it began.
IsWalk(deps, path) == \A i \in 1..(Len(path) - 1) : path[i + 1] \in ToSet(deps[path[i]])
IsLoop(deps, path) == Len(path) > 1 /\ path[1] = path[Len(path)] /\ IsWalk(deps, path)

\* What is finished has all its dependencies finished, and cannot all be waiting for
\* each other.
IsDone(deps, R, F) ==
  /\ \A n \in F : ToSet(deps[n]) \cap R \subseteq F
  /\ \A T \in SUBSET F : T # {} => \E n \in T : ToSet(deps[n]) \cap T = {}

SearchStates(R) == [path : Seq(R), finished : SUBSET R, cycle : Seq(R)]

\* What every turn keeps, until it has a cycle.
Searching(deps, R, s) ==
  /\ s \in SearchStates(R)
  /\ s.cycle # <<>> => IsLoop(deps, s.cycle)
  /\ s.cycle = <<>> => /\ Cardinality(ToSet(s.path)) = Len(s.path)
                       /\ ToSet(s.path) \cap s.finished = {}
                       /\ IsWalk(deps, s.path) /\ IsDone(deps, R, s.finished)

\* How many turns have been taken: a call is one, and its return one more.
Turns(s) == 2 * Cardinality(s.finished) + Len(s.path)

\* The fields of a state of the search.
LEMMA SearchFacts ==
  ASSUME NEW R, NEW s \in SearchStates(R)
  PROVE  s.path \in Seq(R) /\ s.finished \in SUBSET R /\ s.cycle \in Seq(R)
<1> DEFINE P == Seq(R) F == SUBSET R
<1>1. s \in [path : P, finished : F, cycle : P]
  BY DEF SearchStates
<1> HIDE DEF P, F
<1>2. s.path \in P /\ s.finished \in F /\ s.cycle \in P
  BY <1>1
<1> QED BY <1>2 DEF P, F

\* A call: the path is longer.
LEMMA SearchEnters ==
  ASSUME NEW R, NEW s \in SearchStates(R), NEW p \in Seq(R), NEW t, t = [s EXCEPT !.path = p]
  PROVE  t \in SearchStates(R) /\ t.path = p /\ t.finished = s.finished /\ t.cycle = s.cycle
<1> DEFINE P == Seq(R) F == SUBSET R
<1>1. s \in [path : P, finished : F, cycle : P]
  BY DEF SearchStates
<1>2. p \in P
  OBVIOUS
<1> HIDE DEF P, F
<1>3. t \in [path : P, finished : F, cycle : P] /\ t.path = p /\ t.finished = s.finished /\ t.cycle = s.cycle
  BY <1>1, <1>2
<1> QED BY <1>3 DEF P, F, SearchStates

\* A cycle that is closed.
LEMMA SearchCloses ==
  ASSUME NEW R, NEW s \in SearchStates(R), NEW c \in Seq(R), NEW t, t = [s EXCEPT !.cycle = c]
  PROVE  t \in SearchStates(R) /\ t.path = s.path /\ t.finished = s.finished /\ t.cycle = c
<1> DEFINE P == Seq(R) F == SUBSET R
<1>1. s \in [path : P, finished : F, cycle : P]
  BY DEF SearchStates
<1>2. c \in P
  OBVIOUS
<1> HIDE DEF P, F
<1>3. t \in [path : P, finished : F, cycle : P] /\ t.path = s.path /\ t.finished = s.finished /\ t.cycle = c
  BY <1>1, <1>2
<1> QED BY <1>3 DEF P, F, SearchStates

\* The walk from where a service was met to where it is met again is a loop.
LEMMA ClosedIsLoop ==
  ASSUME NEW deps, NEW R, NEW path \in Seq(R), path # <<>>, IsWalk(deps, path),
         NEW node \in ToSet(path), node \in ToSet(deps[Last(path)])
  PROVE  Closed(path, node) \in Seq(R) /\ IsLoop(deps, Closed(path, node)) /\ Closed(path, node) # <<>>
<1> DEFINE k == CHOOSE i \in DOMAIN path : path[i] = node
           n == Len(path)
           c == Closed(path, node)
           q == SubSeq(path, k, n)
<1>1. n \in Nat /\ DOMAIN path = 1..n /\ \A i \in 1..n : path[i] \in R
  OBVIOUS
<1>2. k \in 1..n /\ path[k] = node
  <2>1. \E i \in DOMAIN path : path[i] = node
    BY DEF ToSet
  <2>2. k \in DOMAIN path /\ path[k] = node
    BY <2>1
  <2> QED BY <1>1, <2>2
<1>3. c = Append(q, node) /\ node \in R
  BY <1>1, <1>2 DEF Closed
<1> HIDE DEF k, c
<1>4. q \in Seq(R) /\ Len(q) = n - k + 1 /\ \A i \in 1..(n - k + 1) : q[i] = path[k + i - 1]
  <2>1. k \in Int /\ n \in Int /\ k <= n /\ \A i \in k..n : path[i] \in R
    BY <1>1, <1>2
  <2> QED BY <2>1, SubSeqProperties
<1> DEFINE m == n - k + 1
<1> HIDE DEF q
<1>5. /\ c \in Seq(R) /\ Len(c) = m + 1 /\ m \in Nat /\ m >= 1
      /\ \A i \in 1..m : c[i] = path[k + i - 1]
      /\ c[m + 1] = node
  <2>1. m \in Nat /\ m >= 1
    BY <1>1, <1>2
  <2>2. /\ c \in Seq(R) /\ Len(c) = Len(q) + 1 /\ \A i \in 1..Len(q) : c[i] = q[i]
        /\ c[Len(q) + 1] = node
    BY <1>3, <1>4, AppendProperties
  <2> QED BY <1>4, <2>1, <2>2
<1>6. c[1] = c[Len(c)] /\ Len(c) > 1 /\ c # <<>>
  <2>1. c[1] = path[k]
    <3>1. 1 \in 1..m /\ k + 1 - 1 = k
      BY <1>2, <1>5
    <3> QED BY <1>5, <3>1
  <2> QED BY <1>2, <1>5, <2>1
<1>7. ASSUME NEW i \in 1..(Len(c) - 1)
      PROVE  c[i + 1] \in ToSet(deps[c[i]])
  <2>1. i \in 1..m /\ c[i] = path[k + i - 1]
    BY <1>5
  <2>2. CASE i = m
    <3>1. k + i - 1 = n /\ c[i + 1] = node
      BY <1>1, <1>2, <1>5, <2>2
    <3>2. c[i] = Last(path)
      BY <2>1, <3>1 DEF Last
    <3> QED BY <3>1, <3>2
  <2>3. CASE i # m
    <3>0. k \in Int /\ n \in Int /\ 1 <= k /\ k <= n /\ i \in Int /\ 1 <= i /\ i < m
      <4>1. m \in Nat /\ i \in 1..m /\ i # m
        BY <1>5, <2>1, <2>3
      <4>2. k \in 1..n /\ n \in Nat
        BY <1>1, <1>2
      <4> HIDE DEF m, n
      <4> QED BY <4>1, <4>2
    <3>1. i + 1 \in 1..m /\ k + i - 1 \in 1..(n - 1) /\ k + (i + 1) - 1 = (k + i - 1) + 1
      <4>1. k + i - 1 < n
        BY <3>0
      <4> HIDE DEF n
      <4> QED BY <3>0, <4>1, <1>5
    <3>2. c[i + 1] = path[(k + i - 1) + 1]
      BY <1>5, <3>1
    <3> DEFINE j == k + i - 1
    <3>3. j \in 1..(Len(path) - 1) /\ c[i] = path[j] /\ c[i + 1] = path[j + 1]
      BY <2>1, <3>1, <3>2
    <3> HIDE DEF j
    <3> QED BY <3>3 DEF IsWalk
  <2> QED BY <2>2, <2>3
<1>8. IsLoop(deps, c)
  BY <1>6, <1>7 DEF IsLoop, IsWalk
<1> QED BY <1>5, <1>6, <1>8 DEF c

\* One turn of the search.
LEMMA SearchGoesOn ==
  ASSUME NEW deps, NEW R, IsStuck(deps, R), NEW s, Searching(deps, R, s)
  PROVE  LET t == Visited(deps, R, s)
         IN  /\ Searching(deps, R, t)
             /\ s.cycle # <<>> => t.cycle # <<>>
             /\ t.cycle # <<>> \/ Turns(t) = Turns(s) + 1
<1> DEFINE t == Visited(deps, R, s)
           ahead == Ahead(deps, R, s)
           node == Min(ahead)
           path == s.path
           n == Len(path)
<1>1. /\ s \in SearchStates(R) /\ path \in Seq(R) /\ s.finished \in SUBSET R
      /\ n \in Nat /\ DOMAIN path = 1..n /\ \A i \in 1..n : path[i] \in R
      /\ path = <<>> <=> n = 0
  <2>1. path \in Seq(R) /\ s.finished \in SUBSET R
    BY SearchFacts DEF Searching
  <2>2. path = <<>> <=> n = 0
    BY <2>1, EmptySeq
  <2> QED BY <2>1, <2>2 DEF Searching
<1>2. R \in SUBSET DOMAIN deps /\ IsFiniteSet(R) /\ R \in SUBSET Int
  <2>1. R \in SUBSET DOMAIN deps /\ IsFiniteSet(DOMAIN deps) /\ DOMAIN deps \subseteq Int
    BY DEF IsStuck, IsGraph
  <2> QED BY <2>1, FS_Subset
<1>3. CASE s.cycle # <<>>
  <2>1. t = s
    BY <1>3 DEF Visited
  <2> QED BY <1>3, <2>1
<1>4. ASSUME s.cycle = <<>> PROVE ahead # {} \/ path # <<>>
  <2> SUFFICES ASSUME ahead = {}, path = <<>> PROVE FALSE
    OBVIOUS
  <2>1. R \subseteq s.finished
    BY <1>4 DEF Ahead
  <2>2. R \in SUBSET s.finished /\ R # {} /\ \A x \in R : ToSet(deps[x]) \cap R # {}
    BY <2>1 DEF IsStuck
  <2> QED BY <1>4, <2>2 DEF Searching, IsDone
<1>5. ASSUME path # <<>>
      PROVE  n \in 1..n /\ Last(path) = path[n] /\ Last(path) \in R /\ Last(path) \in ToSet(path)
  BY <1>1, <1>5 DEF Last, ToSet
<1>6. CASE s.cycle = <<>> /\ ahead = {}
  <2> DEFINE last == Last(path)
             front == Front(path)
             F == s.finished \cup {last}
  <2>1. path # <<>> /\ last \in R /\ last = path[n] /\ n \in 1..n /\ last \in ToSet(path)
    BY <1>4, <1>5, <1>6
  <2>2. t = [s EXCEPT !.path = front, !.finished = F]
    BY <1>6, <2>1 DEF Visited
  <2>3. /\ front \in Seq(R) /\ Len(front) = n - 1 /\ n - 1 \in Nat
        /\ \A i \in 1..(n - 1) : front[i] = path[i]
    <3>1. 1 \in Int /\ n - 1 \in Int /\ n - 1 \in Nat /\ \A i \in 1..(n - 1) : path[i] \in R
      BY <1>1, <2>1
    <3>2. /\ SubSeq(path, 1, n - 1) \in Seq(R)
          /\ Len(SubSeq(path, 1, n - 1)) = IF 1 <= n - 1 THEN n - 1 - 1 + 1 ELSE 0
          /\ \A i \in 1..(n - 1 - 1 + 1) : SubSeq(path, 1, n - 1)[i] = path[1 + i - 1]
      BY <3>1, SubSeqProperties
    <3> QED BY <1>1, <3>1, <3>2 DEF Front
  <2> HIDE DEF front
  <2>4. /\ t \in SearchStates(R) /\ t.path = front /\ t.finished = F /\ t.cycle = <<>>
    <3>1. F \in SUBSET R
      BY <1>1, <2>1
    <3> DEFINE P == Seq(R) Q == SUBSET R
    <3>2. s \in [path : P, finished : Q, cycle : P] /\ front \in P /\ F \in Q
      BY <1>1, <2>3, <3>1 DEF SearchStates
    <3> HIDE DEF F, t, P, Q
    <3>3. t \in [path : P, finished : Q, cycle : P] /\ t.path = front /\ t.finished = F /\ t.cycle = s.cycle
      BY <2>2, <3>2
    <3> QED BY <1>6, <3>3 DEF SearchStates, P, Q
  <2> HIDE DEF t
  <2>5. /\ Cardinality(ToSet(path)) = n /\ ToSet(path) \cap s.finished = {}
        /\ IsWalk(deps, path) /\ IsDone(deps, R, s.finished)
    BY <1>6 DEF Searching
  <2>6. IsFiniteSet(ToSet(path)) /\ ToSet(path) \subseteq R
    <3>1. ToSet(path) \in SUBSET R
      BY <1>1 DEF ToSet
    <3> QED BY <1>2, <3>1, FS_Subset
  <2>7. ToSet(path) = ToSet(front) \cup {last}
    <3>1. DOMAIN front = 1..(n - 1)
      BY <2>3
    <3>2. \A i : i \in 1..n <=> i \in 1..(n - 1) \/ i = n
      BY <1>1, <2>1
    <3>3. \A x \in ToSet(path) : x \in ToSet(front) \cup {last}
      BY <1>1, <2>1, <2>3, <3>1, <3>2 DEF ToSet
    <3>4. \A x \in ToSet(front) \cup {last} : x \in ToSet(path)
      BY <1>1, <2>1, <2>3, <3>1, <3>2 DEF ToSet
    <3> QED BY <3>3, <3>4
  <2>8. last \notin ToSet(front) /\ Cardinality(ToSet(front)) = n - 1
    <3>1. IsFiniteSet(ToSet(front))
      BY <2>6, <2>7, FS_Subset
    <3>2. Cardinality(ToSet(path)) = IF last \in ToSet(front) THEN Cardinality(ToSet(front))
                                     ELSE Cardinality(ToSet(front)) + 1
      BY <2>7, <3>1, FS_AddElement
    <3>3. Cardinality(ToSet(front)) <= n - 1 /\ Cardinality(ToSet(front)) \in Nat
      <4> DEFINE g == [i \in 1..(n - 1) |-> front[i]]
      <4>1. g \in Surjection(1..(n - 1), ToSet(front))
        <5>1. DOMAIN front = 1..(n - 1)
          BY <2>3
        <5>2. \A i \in 1..(n - 1) : g[i] = front[i] /\ front[i] \in ToSet(front)
          BY <5>1 DEF ToSet
        <5>3. \A x \in ToSet(front) : \E i \in 1..(n - 1) : front[i] = x
          BY <5>1 DEF ToSet
        <5>4. g \in [1..(n - 1) -> ToSet(front)]
          BY <5>2
        <5> HIDE DEF g
        <5> QED BY <5>2, <5>3, <5>4 DEF Surjection
      <4>2. IsFiniteSet(1..(n - 1)) /\ Cardinality(1..(n - 1)) = n - 1
        <5>1. n - 1 \in Int /\ 1 \in Int
          BY <2>3
        <5>2. IsFiniteSet(1..(n - 1)) /\ Cardinality(1..(n - 1)) = IF 1 > n - 1 THEN 0 ELSE n - 1 - 1 + 1
          BY <5>1, FS_Interval
        <5> QED BY <2>3, <5>2
      <4> HIDE DEF g
      <4>3. Cardinality(ToSet(front)) <= Cardinality(1..(n - 1))
        BY <4>1, <4>2, FS_Surjection
      <4>4. Cardinality(ToSet(front)) \in Nat
        BY <3>1, FS_CardinalityType
      <4> QED BY <4>2, <4>3, <4>4
    <3> QED BY <1>1, <2>5, <3>2, <3>3
  <2>9. last \notin s.finished /\ ToSet(front) \cap F = {}
    BY <2>1, <2>5, <2>7, <2>8
  <2>10. IsWalk(deps, front)
    <3> SUFFICES ASSUME NEW i \in 1..(Len(front) - 1) PROVE front[i + 1] \in ToSet(deps[front[i]])
      BY DEF IsWalk
    <3>1. i \in 1..(n - 1) /\ i + 1 \in 1..(n - 1)
      BY <2>3
    <3> QED BY <2>3, <2>5, <3>1 DEF IsWalk
  <2>11. ToSet(deps[last]) \cap R \subseteq s.finished
    BY <1>6, <2>1 DEF Ahead
  <2>12. IsDone(deps, R, F)
    <3>1. \A x \in F : ToSet(deps[x]) \cap R \subseteq F
      BY <2>5, <2>11 DEF IsDone
    <3>2. ASSUME NEW T \in SUBSET F, T # {} PROVE \E x \in T : ToSet(deps[x]) \cap T = {}
      <4> DEFINE U == T \ {last}
      <4>1. U \in SUBSET s.finished /\ T \subseteq R
        BY <1>1, <2>1, <3>2
      <4>2. CASE U = {}
        <5>1. T = {last}
          BY <3>2, <4>2
        <5>2. ToSet(deps[last]) \cap T = {}
          BY <2>1, <2>9, <2>11, <5>1
        <5> QED BY <5>1, <5>2
      <4>3. CASE U # {}
        <5>1. PICK x \in U : ToSet(deps[x]) \cap U = {}
          BY <2>5, <4>1, <4>3 DEF IsDone
        <5>2. ToSet(deps[x]) \cap R \subseteq s.finished
          BY <2>5, <4>1, <5>1 DEF IsDone
        <5>3. last \notin ToSet(deps[x])
          BY <2>1, <2>9, <5>2
        <5>4. x \in T /\ ToSet(deps[x]) \cap T = {}
          BY <5>1, <5>3
        <5> QED BY <5>4
      <4> QED BY <4>2, <4>3
    <3> QED BY <3>1, <3>2 DEF IsDone
  <2>13. Searching(deps, R, t)
    <3> HIDE DEF F
    <3> QED BY <2>3, <2>4, <2>8, <2>9, <2>10, <2>12 DEF Searching
  <2>14. Turns(t) = Turns(s) + 1
    <3>1. IsFiniteSet(s.finished)
      BY <1>1, <1>2, FS_Subset
    <3>2. Cardinality(F) = Cardinality(s.finished) + 1 /\ Cardinality(s.finished) \in Nat
      BY <2>9, <3>1, FS_AddElement, FS_CardinalityType
    <3> HIDE DEF F
    <3> QED BY <1>1, <2>3, <2>4, <3>2 DEF Turns
  <2> QED BY <1>6, <2>13, <2>14 DEF t
<1>7. ASSUME ahead # {} PROVE node \in ahead /\ node \in R /\ node \notin s.finished
  <2>1. ahead \subseteq R /\ ahead \cap s.finished = {}
    BY DEF Ahead
  <2> HIDE DEF ahead
  <2>2. ahead \in SUBSET Int /\ IsFiniteSet(ahead)
    BY <1>2, <2>1, FS_Subset
  <2>3. node \in ahead
    BY <1>7, <2>2, MinIsLeast
  <2> QED BY <2>1, <2>3
<1>8. ASSUME ahead # {}, path # <<>> PROVE node \in ToSet(deps[Last(path)])
  <2>1. ahead \subseteq ToSet(deps[Last(path)])
    BY <1>8 DEF Ahead
  <2> HIDE DEF node, ahead
  <2> QED BY <1>7, <1>8, <2>1
<1>9. CASE s.cycle = <<>> /\ ahead # {} /\ node \in ToSet(path)
  <2> DEFINE c == Closed(path, node)
  <2>1. path # <<>>
    BY <1>1, <1>9 DEF ToSet
  <2>2. c \in Seq(R) /\ IsLoop(deps, c) /\ c # <<>>
    <3>1. IsWalk(deps, path) /\ node \in ToSet(deps[Last(path)])
      BY <1>8, <1>9, <2>1 DEF Searching
    <3> HIDE DEF node
    <3> QED BY <1>1, <1>9, <2>1, <3>1, ClosedIsLoop
  <2>3. t = [s EXCEPT !.cycle = c]
    BY <1>9 DEF Visited
  <2> HIDE DEF c, t
  <2>4. t \in SearchStates(R) /\ t.cycle = c
    BY <1>1, <2>2, <2>3, SearchCloses
  <2> QED BY <1>9, <2>2, <2>4 DEF Searching, t
<1>10. CASE s.cycle = <<>> /\ ahead # {} /\ node \notin ToSet(path)
  <2> DEFINE longer == Append(path, node)
  <2>1. t = [s EXCEPT !.path = longer]
    BY <1>10 DEF Visited
  <2>2. node \in R /\ node \notin s.finished
    BY <1>7, <1>10
  <2>3. path # <<>> => node \in ToSet(deps[Last(path)])
    BY <1>8, <1>10
  <2> HIDE DEF node
  <2>4. /\ longer \in Seq(R) /\ Len(longer) = n + 1 /\ DOMAIN longer = 1..(n + 1)
        /\ \A i \in 1..n : longer[i] = path[i]
        /\ longer[n + 1] = node
    BY <1>1, <2>2
  <2> HIDE DEF longer, t
  <2>5. t \in SearchStates(R) /\ t.path = longer /\ t.finished = s.finished /\ t.cycle = <<>>
    BY <1>1, <1>10, <2>1, <2>4, SearchEnters
  <2>6. /\ Cardinality(ToSet(path)) = n /\ ToSet(path) \cap s.finished = {}
        /\ IsWalk(deps, path) /\ IsDone(deps, R, s.finished)
    BY <1>10 DEF Searching
  <2>7. ToSet(longer) = ToSet(path) \cup {node}
    <3>1. \A i : i \in 1..(n + 1) <=> i \in 1..n \/ i = n + 1
      BY <1>1
    <3>2. \A x \in ToSet(longer) : x \in ToSet(path) \cup {node}
      BY <1>1, <2>4, <3>1 DEF ToSet
    <3>3. \A x \in ToSet(path) \cup {node} : x \in ToSet(longer)
      BY <1>1, <2>4, <3>1 DEF ToSet
    <3> QED BY <3>2, <3>3
  <2>8. Cardinality(ToSet(longer)) = n + 1
    <3>1. ToSet(path) \in SUBSET R
      BY <1>1 DEF ToSet
    <3>2. IsFiniteSet(ToSet(path))
      BY <1>2, <3>1, FS_Subset
    <3> QED BY <1>10, <2>6, <2>7, <3>2, FS_AddElement
  <2>9. IsWalk(deps, longer)
    <3> SUFFICES ASSUME NEW i \in 1..(Len(longer) - 1) PROVE longer[i + 1] \in ToSet(deps[longer[i]])
      BY DEF IsWalk
    <3>1. i \in 1..n
      BY <1>1, <2>4
    <3>2. CASE i = n
      <4>1. path # <<>> /\ Last(path) = path[n] /\ longer[i] = path[n] /\ longer[i + 1] = node
        BY <1>1, <2>4, <3>1, <3>2 DEF Last
      <4> QED BY <2>3, <4>1
    <3>3. CASE i # n
      <4>1. i \in 1..(n - 1) /\ i + 1 \in 1..n
        BY <1>1, <3>1, <3>3
      <4> QED BY <2>4, <2>6, <3>1, <4>1 DEF IsWalk
    <3> QED BY <3>2, <3>3
  <2>10. ToSet(longer) \cap s.finished = {}
    BY <2>2, <2>6, <2>7
  <2>11. Searching(deps, R, t)
    BY <2>4, <2>5, <2>6, <2>8, <2>9, <2>10 DEF Searching
  <2>12. Turns(t) = Turns(s) + 1
    <3>1. Cardinality(s.finished) \in Nat
      BY <1>1, <1>2, FS_Subset, FS_CardinalityType
    <3> QED BY <1>1, <2>4, <2>5, <3>1 DEF Turns
  <2> QED BY <1>10, <2>11, <2>12 DEF t
<1> QED BY <1>3, <1>6, <1>9, <1>10

\* find_cycle begins outside every call.
LEMMA SearchStarts ==
  ASSUME NEW deps, NEW R, NEW b, b = [path |-> <<>>, finished |-> {}, cycle |-> <<>>]
  PROVE  Searching(deps, R, b) /\ Turns(b) = 0
<1> DEFINE P == Seq(R) F == SUBSET R
<1>1. <<>> \in P /\ {} \in F
  OBVIOUS
<1> HIDE DEF P, F
<1>2. b \in [path : P, finished : F, cycle : P] /\ b.path = <<>> /\ b.finished = {} /\ b.cycle = <<>>
  BY <1>1
<1>3. b \in SearchStates(R)
  BY <1>2 DEF SearchStates, P, F
<1>4. Len(<<>>) = 0 /\ DOMAIN <<>> = {} /\ 1..(0 - 1) = {} /\ Cardinality({}) = 0
  BY FS_EmptySet
<1>5. ToSet(b.path) = {} /\ Len(b.path) = 0
  BY <1>2, <1>4 DEF ToSet
<1>6. IsWalk(deps, b.path)
  BY <1>4, <1>5 DEF IsWalk
<1>7. IsDone(deps, R, b.finished)
  BY <1>2 DEF IsDone
<1>8. Cardinality(ToSet(b.path)) = Len(b.path) /\ ToSet(b.path) \cap b.finished = {}
  BY <1>4, <1>5
<1>9. Searching(deps, R, b)
  BY <1>2, <1>3, <1>6, <1>7, <1>8 DEF Searching
<1>10. Turns(b) = 0
  BY <1>2, <1>4, <1>5 DEF Turns
<1> QED BY <1>9, <1>10

\* There are no more turns than two for every service.
LEMMA SearchIsShort ==
  ASSUME NEW deps, NEW R, IsFiniteSet(R), NEW s, Searching(deps, R, s), s.cycle = <<>>
  PROVE  Turns(s) \in Nat /\ Turns(s) <= 2 * Cardinality(R)
<1> DEFINE P == ToSet(s.path) F == s.finished
<1>1. s.path \in Seq(R) /\ F \in SUBSET R
  BY SearchFacts DEF Searching
<1>2. P \in SUBSET R
  BY <1>1 DEF ToSet
<1>3. Cardinality(P) = Len(s.path) /\ P \cap F = {}
  BY DEF Searching
<1> HIDE DEF P, F
<1>4. /\ IsFiniteSet(P) /\ IsFiniteSet(F) /\ IsFiniteSet(P \cup F) /\ P \cup F \subseteq R
  <2>1. P \cup F \in SUBSET R
    BY <1>1, <1>2
  <2> QED BY <1>1, <1>2, <2>1, FS_Subset
<1>5. Cardinality(P \cup F) <= Cardinality(R)
  BY <1>4, FS_Subset
<1>6. Cardinality(P \cup F) = Cardinality(P) + Cardinality(F) - Cardinality(P \cap F)
  BY <1>4, FS_Union
<1>7. Cardinality(P \cap F) = 0
  BY <1>3, FS_EmptySet
<1> DEFINE p == Cardinality(P) f == Cardinality(F) r == Cardinality(R)
<1>8. p \in Nat /\ f \in Nat /\ r \in Nat
  BY <1>4, FS_CardinalityType
<1>9. p + f <= r
  <2>1. Cardinality(P \cup F) = p + f
    BY <1>6, <1>7, <1>8
  <2> QED BY <1>5, <2>1
<1>10. Turns(s) = 2 * f + p
  BY <1>3 DEF Turns, F
<1> HIDE DEF p, f, r
<1>11. 2 * f + p \in Nat /\ 2 * f + p <= 2 * r
  BY <1>8, <1>9
<1> QED BY <1>10, <1>11 DEF r

SearchLoop(deps, R, f) ==
  [t \in 0..(2 * Cardinality(R) + 1) |->
      IF t = 0 THEN [path |-> <<>>, finished |-> {}, cycle |-> <<>>] ELSE Visited(deps, R, f[t - 1])]

\* Where everybody waits for somebody, find_cycle finds a cycle, and it is one.
LEMMA FindCycleLoops ==
  ASSUME NEW deps, NEW R, IsStuck(deps, R)
  PROVE  IsLoop(deps, FindCycle(deps, R))
<1> DEFINE N == 2 * Cardinality(R) + 1
           S == {s \in SearchStates(R) : Searching(deps, R, s)}
           f == CHOOSE f : f = SearchLoop(deps, R, f)
           b == [path |-> <<>>, finished |-> {}, cycle |-> <<>>]
           g == [x \in (1..N) \X S |-> Visited(deps, R, x[2])]
<1>0. IsFiniteSet(R)
  <2>1. R \in SUBSET DOMAIN deps /\ IsFiniteSet(DOMAIN deps)
    BY DEF IsStuck, IsGraph
  <2> QED BY <2>1, FS_Subset
<1>1. N \in Nat
  <2>1. Cardinality(R) \in Nat
    BY <1>0, FS_CardinalityType
  <2> QED BY <2>1
<1>2. FindCycle(deps, R) = f[N].cycle
  BY DEF FindCycle, SearchLoop
<1>3. \A s \in S : Visited(deps, R, s) \in S
  BY SearchGoesOn DEF Searching
<1>4. b \in S /\ Turns(b) = 0
  BY SearchStarts DEF Searching
<1>5. g \in [(1..N) \X S -> S] /\ \A n \in 1..N, s \in S : g[<<n, s>>] = Visited(deps, R, s)
  BY <1>3
<1> HIDE DEF N, S, g, b
<1>6. PICK h : Runs(N, S, b, g, h)
  BY <1>1, <1>4, <1>5, Iterates
<1>7. /\ h \in [0..N -> S] /\ h[0] = b
      /\ \A n \in 1..N : n - 1 \in 0..N /\ h[n] = Visited(deps, R, h[n - 1])
  <2>1. \A n \in 1..N : n - 1 \in 0..N
    BY <1>1
  <2> QED BY <1>5, <1>6, <2>1 DEF Runs
<1>8. h = SearchLoop(deps, R, h)
  <2>1. h = [n \in 0..N |-> h[n]]
    BY <1>7
  <2>2. ASSUME NEW n \in 0..N
        PROVE  h[n] = IF n = 0 THEN b ELSE Visited(deps, R, h[n - 1])
    <3>1. CASE n = 0
      BY <1>7, <3>1
    <3>2. CASE n # 0
      <4>1. n \in 1..N
        BY <1>1, <3>2
      <4> QED BY <1>7, <3>2, <4>1
    <3> QED BY <3>1, <3>2
  <2>3. [n \in 0..N |-> h[n]] = [n \in 0..N |-> IF n = 0 THEN b ELSE Visited(deps, R, h[n - 1])]
    BY <2>2
  <2>4. SearchLoop(deps, R, h) = [n \in 0..N |-> IF n = 0 THEN b ELSE Visited(deps, R, h[n - 1])]
    BY DEF SearchLoop, N, b
  <2> QED BY <2>1, <2>3, <2>4
<1>9. f = SearchLoop(deps, R, f)
  BY <1>8, Zenon
<1> HIDE DEF f
<1>10. f[0] = b /\ \A n \in 1..N : f[n] = Visited(deps, R, f[n - 1])
  <2> DEFINE r == SearchLoop(deps, R, f)
  <2>1. \A n \in 0..N : r[n] = IF n = 0 THEN b ELSE Visited(deps, R, f[n - 1])
    BY DEF SearchLoop, N, b
  <2>2. f = r
    BY <1>9
  <2> HIDE DEF r
  <2>3. \A n \in 1..N : n \in 0..N /\ n # 0
    BY <1>1
  <2>4. 0 \in 0..N
    BY <1>1
  <2> QED BY <2>1, <2>2, <2>3, <2>4
<1> DEFINE T == {n \in 0..N : f[n] \in S /\ (f[n].cycle # <<>> \/ Turns(f[n]) = n)}
<1>11. 0 \in T
  BY <1>1, <1>4, <1>10
<1>12. ASSUME NEW n \in 1..N, n - 1 \in T
       PROVE  n \in T
  <2> DEFINE s == f[n - 1]
             t == Visited(deps, R, s)
  <2>1. s \in S /\ (s.cycle # <<>> \/ Turns(s) = n - 1) /\ f[n] = t
    BY <1>10, <1>12
  <2> HIDE DEF s
  <2>2. t \in S
    BY <1>3, <2>1
  <2>3. (s.cycle # <<>> => t.cycle # <<>>) /\ (t.cycle # <<>> \/ Turns(t) = Turns(s) + 1)
    <3>1. Searching(deps, R, s)
      BY <2>1 DEF S
    <3> QED BY <3>1, SearchGoesOn
  <2> HIDE DEF t
  <2>4. t.cycle # <<>> \/ Turns(t) = n
    BY <2>1, <2>3
  <2> QED BY <2>1, <2>2, <2>4
<1>13. N \in T
  <2> HIDE DEF T
  <2>1. \A n \in 0..N : n \in T
    BY <1>1, <1>11, <1>12, Induction
  <2> QED BY <1>1, <2>1
<1> DEFINE last == f[N]
<1>14. last \in S /\ (last.cycle # <<>> \/ Turns(last) = N)
  BY <1>13
<1> HIDE DEF last
<1>15. Searching(deps, R, last)
  BY <1>14 DEF S
<1>16. last.cycle # <<>>
  <2> SUFFICES ASSUME last.cycle = <<>> PROVE FALSE
    OBVIOUS
  <2>1. Turns(last) = N /\ Turns(last) <= 2 * Cardinality(R) /\ Cardinality(R) \in Nat
    BY <1>0, <1>14, <1>15, SearchIsShort, FS_CardinalityType
  <2> QED BY <2>1 DEF N
<1> QED BY <1>2, <1>15, <1>16 DEF Searching, last

-----------------------------------------------------------------------------
(* The fields of a service. *)

\* Every default is in its range, and every field has one limit.
LEMMA LimitFacts ==
  /\ \A f \in DOMAIN AllLimits :
        /\ AllLimits[f].min \in Nat /\ AllLimits[f].max \in Nat /\ AllLimits[f].default \in Nat
        /\ AllLimits[f].min <= AllLimits[f].default /\ AllLimits[f].default <= AllLimits[f].max
  /\ \A f \in DOMAIN Limits : f \in DOMAIN AllLimits /\ AllLimits[f] = Limits[f]
  /\ \A f \in DOMAIN HealthLimits : f \in DOMAIN AllLimits /\ AllLimits[f] = HealthLimits[f]
  /\ \A f \in DOMAIN WatchLimits : f \in DOMAIN AllLimits /\ AllLimits[f] = WatchLimits[f]
<1> DEFINE IsLimited(l) == \A f \in DOMAIN l :
                        /\ l[f].min \in Nat /\ l[f].max \in Nat /\ l[f].default \in Nat
                        /\ l[f].min <= l[f].default /\ l[f].default <= l[f].max
<1>1. IsLimited(Limits) /\ IsLimited(HealthLimits) /\ IsLimited(WatchLimits)
  <2>1. IsLimited(Limits)
    BY DEF Limits
  <2>2. IsLimited(HealthLimits)
    BY DEF HealthLimits
  <2>3. IsLimited(WatchLimits)
    BY DEF WatchLimits
  <2> QED BY <2>1, <2>2, <2>3
<1>2. /\ DOMAIN HealthLimits \cap DOMAIN WatchLimits = {}
      /\ DOMAIN Limits \cap (DOMAIN HealthLimits \cup DOMAIN WatchLimits) = {}
  BY DEF Limits, HealthLimits, WatchLimits
<1> DEFINE over == Over(HealthLimits, WatchLimits)
<1>3. /\ DOMAIN over = DOMAIN HealthLimits \cup DOMAIN WatchLimits
      /\ \A f \in DOMAIN HealthLimits : over[f] = HealthLimits[f]
      /\ \A f \in DOMAIN WatchLimits : over[f] = WatchLimits[f]
  BY <1>2 DEF Over
<1> HIDE DEF over
<1>4. /\ DOMAIN AllLimits = DOMAIN Limits \cup DOMAIN over
      /\ \A f \in DOMAIN Limits : AllLimits[f] = Limits[f]
      /\ \A f \in DOMAIN over : AllLimits[f] = over[f]
  <2>1. AllLimits = Over(Limits, over)
    BY DEF AllLimits, over
  <2> QED BY <1>2, <1>3, <2>1 DEF Over
<1> QED BY <1>1, <1>3, <1>4

\* A duration that is set is one that was accepted, or the default: it is in range.
LEMMA DurationIsInRange ==
  ASSUME NEW t, NEW f \in DOMAIN AllLimits
  PROVE  Duration(t, f) \in Nat /\ Duration(t, f) >= AllLimits[f].min /\ Duration(t, f) <= AllLimits[f].max
<1>0. /\ AllLimits[f].min \in Nat /\ AllLimits[f].max \in Nat /\ AllLimits[f].default \in Nat
      /\ AllLimits[f].min <= AllLimits[f].default /\ AllLimits[f].default <= AllLimits[f].max
  BY LimitFacts
<1>1. CASE Has(t, f) /\ DurationFault(t, f) = "none"
  <2> DEFINE word == Text(t, f, "")
  <2>1. /\ word \in DOMAIN HumanTime
        /\ ~(HumanTime[word] < AllLimits[f].min) /\ ~(HumanTime[word] > AllLimits[f].max)
    BY <1>1 DEF DurationFault
  <2>2. Duration(t, f) = HumanTime[word]
    BY <1>1 DEF Duration
  <2> HIDE DEF word
  <2>3. HumanTime[word] \in Nat
    BY <2>1, FieldAssumption
  <2> QED BY <1>0, <2>1, <2>2, <2>3
<1>2. CASE ~(Has(t, f) /\ DurationFault(t, f) = "none")
  <2>1. Duration(t, f) = AllLimits[f].default
    BY <1>2 DEF Duration
  <2> QED BY <1>0, <2>1
<1> QED BY <1>1, <1>2

\* An empty set of errors has no error in it.
LEMMA NoError ==
  ASSUME NEW condition, NEW kind, NEW n, NEW field, When(condition, kind, n, field) = {}
  PROVE  ~condition
BY DEF When

\* The ports that a probe can have.
LEMMA PortFacts ==
  /\ 80 \in Ports /\ Ports \subseteq Int
  /\ \A a : HostAndPort(a) => a.port \in Ports
  /\ \A a : HttpUrl(a) => a.port \in Ports \/ a.port = None
<1>1. 80 \in Ports /\ Ports \subseteq Int
  BY DEF Ports
<1>2. ASSUME NEW a, HostAndPort(a) PROVE a.port \in Ports
  BY <1>2 DEF HostAndPort
<1>3. ASSUME NEW a, HttpUrl(a) PROVE a.port \in Ports \/ a.port = None
  <2>1. HostAndPort(a) \/ a.port = None
    BY <1>3 DEF HttpUrl
  <2> QED BY <1>2, <2>1
<1> QED BY <1>1, <1>2, <1>3

\* A health check without errors has one probe that can be used, and is there.
LEMMA HealthIsSound ==
  ASSUME NEW t, IsRawService(t), NEW n, HealthErrors(t, n) = {}
  PROVE  LET h == HealthCheck(t, n)
         IN  /\ h # None /\ h.retries >= 1 /\ InRange(h.ms, HealthLimits)
             /\ h.probe.kind # "command" => h.probe.port \in Ports
<1> DEFINE D == Declared(t)
           p == CHOOSE q \in D : TRUE
           ms == [f \in DOMAIN HealthLimits |-> Duration(t, f)]
           count == Number(t, "health.retries", 3)
           on == IF Text(t, "health.on_unhealthy", "restart") = "ignore" THEN "ignore" ELSE "restart"
<1>1. ~(D = {}) /\ ~(Cardinality(D) > 1) /\ ~(count = 0)
  <2>1. When(D = {}, "MissingHealthProbe", n, "health") = {}
    BY DEF HealthErrors
  <2>2. When(Cardinality(D) > 1, "ConflictingHealthProbes", n, "health") = {}
    BY DEF HealthErrors
  <2>3. When(count = 0, "InvalidHealthRetries", n, "health.retries") = {}
    BY DEF HealthErrors
  <2> QED BY <2>1, <2>2, <2>3, NoError
<1>2. D \subseteq Probes /\ IsFiniteSet(D) /\ Cardinality(D) = 1
  <2>1. D \in SUBSET Probes
    BY DEF Declared
  <2>2. IsFiniteSet(Probes)
    <3>1. Probes = ({"health.command"} \cup {"health.http"}) \cup {"health.tcp"}
      BY DEF Probes
    <3>2. IsFiniteSet({"health.command"}) /\ IsFiniteSet({"health.http"}) /\ IsFiniteSet({"health.tcp"})
      BY FS_Singleton
    <3> QED BY <3>1, <3>2, FS_Union
  <2> HIDE DEF D
  <2>3. IsFiniteSet(D) /\ Cardinality(D) \in Nat
    BY <2>1, <2>2, FS_Subset, FS_CardinalityType
  <2>4. Cardinality(D) # 0
    BY <1>1, <2>3, FS_EmptySet
  <2> QED BY <1>1, <2>1, <2>3, <2>4
<1>3. D = {p} /\ p \in Probes
  <2> HIDE DEF D
  <2>1. \E x : D = {x}
    BY <1>2, FS_Singleton
  <2> QED BY <1>2, <2>1
<1>4. ProbeIsUsable(t, p)
  <2>1. (IF Cardinality(D) = 1 THEN LET q == CHOOSE q \in D : TRUE
                                    IN  When(~ProbeIsUsable(t, q), "InvalidHealthProbe", n, q)
         ELSE {}) = {}
    BY DEF HealthErrors
  <2>2. When(~ProbeIsUsable(t, p), "InvalidHealthProbe", n, p) = {}
    BY <1>2, <2>1
  <2> HIDE DEF p
  <2> QED BY <2>2, NoError
<1> HIDE DEF p
<1> DEFINE probe == Probe(t, p)
<1> DEFINE A == [kind : {"command"}, command : Seq(RawValues)] \cup [kind : Probes, host : STRING, port : Int]
<1>5. /\ probe \in A
      /\ probe.kind # "command" => probe.port \in Ports
  <2>1. CASE p = "health.command"
    <3>1. p \in DOMAIN t.lists
      BY <1>3, <2>1 DEF Declared
    <3>2. t.lists[p] \in Seq(RawValues)
      BY <3>1 DEF IsRawService, IsRawTable
    <3>3. probe = [kind |-> "command", command |-> t.lists[p]]
      BY <2>1 DEF Probe
    <3> DEFINE Q == Seq(RawValues) c == t.lists[p]
    <3> HIDE DEF Q, c
    <3>4. probe \in [kind : {"command"}, command : Q] /\ probe.kind = "command"
      BY <3>2, <3>3 DEF Q, c
    <3> QED BY <3>4 DEF Q
  <2>2. CASE p # "health.command"
    <3>1. PICK a : a = Addresses[t.texts[p].word]
      OBVIOUS
    <3>2. t.texts[p].word \in DOMAIN Addresses /\ (HttpUrl(a) \/ HostAndPort(a))
      BY <1>4, <2>2, <3>1 DEF ProbeIsUsable
    <3>3. a.port \in Ports \/ a.port = None
      BY <3>2, PortFacts
    <3>4. a.host \in STRING
      BY <3>1, <3>2, FieldAssumption
    <3>5. PICK host : host = a.host
      OBVIOUS
    <3>6. PICK port : port = IF a.port = None THEN 80 ELSE a.port
      OBVIOUS
    <3>7. port \in Ports
      <4>1. CASE a.port = None
        <5>1. port = 80
          BY <3>6, <4>1, Zenon
        <5> QED BY <5>1, PortFacts
      <4>2. CASE a.port # None
        <5>1. port = a.port
          BY <3>6, <4>2, Zenon
        <5> QED BY <3>3, <4>2, <5>1, Zenon
      <4> QED BY <4>1, <4>2
    <3>8. probe = [kind |-> p, host |-> host, port |-> port]
      BY <2>2, <3>1, <3>5, <3>6 DEF Probe
    <3> HIDE DEF probe, A
    <3> DEFINE Q == STRING I == Int K == Probes
    <3>9. p \in K /\ host \in Q /\ port \in I
      <4>1. port \in Int
        BY <3>7, PortFacts
      <4> QED BY <1>3, <3>4, <3>5, <4>1
    <3> HIDE DEF Q, I, K
    <3>10. probe \in [kind : K, host : Q, port : I] /\ probe.port = port
      BY <3>8, <3>9
    <3>11. probe \in [kind : Probes, host : STRING, port : Int]
      BY <3>10 DEF Q, I, K
    <3>12. probe \in A
      BY <3>11, Zenon DEF A
    <3> QED BY <3>7, <3>10, <3>12
  <2> QED BY <2>1, <2>2
<1>6. ms \in [DOMAIN HealthLimits -> Nat] /\ InRange(ms, HealthLimits)
  BY LimitFacts, DurationIsInRange DEF InRange
<1>7. count \in Nat \ {0}
  BY <1>1 DEF Number, IsRawService, IsRawTable
<1> DEFINE h == HealthCheck(t, n)
<1>8. h = [probe |-> probe, ms |-> ms, retries |-> count, on_unhealthy |-> on]
  <2>1. \E q \in Probes : Declared(t) = {q} /\ ProbeIsUsable(t, q)
    BY <1>3, <1>4
  <2>2. (CHOOSE q \in Probes : Declared(t) = {q}) = p
    BY <1>3
  <2> QED BY <1>7, <2>1, <2>2 DEF HealthCheck
<1>9. on \in {"restart", "ignore"}
  OBVIOUS
<1> DEFINE B == [DOMAIN HealthLimits -> Nat]
<1> HIDE DEF A, B, probe, ms, count, on, h
<1>10. /\ h \in [probe : A, ms : B, retries : Nat \ {0}, on_unhealthy : {"restart", "ignore"}]
       /\ h.probe = probe /\ h.ms = ms /\ h.retries = count
  <2>1. probe \in A
    BY <1>5
  <2>2. ms \in B
    BY <1>6 DEF B
  <2> QED BY <1>7, <1>8, <1>9, <2>1, <2>2
<1>11. h \in HealthChecks
  BY <1>10 DEF HealthChecks, A, B
<1>12. h # None
  <2>1. None \notin HealthChecks
    BY FieldAssumption
  <2> QED BY <1>11, <2>1
<1>13. h.retries >= 1
  BY <1>7, <1>10
<1>14. InRange(h.ms, HealthLimits) /\ (h.probe.kind # "command" => h.probe.port \in Ports)
  BY <1>5, <1>6, <1>10
<1> QED BY <1>12, <1>13, <1>14 DEF h

\* Where a path leads is a place, or nowhere.
LEMMA ResolvedIsPlace ==
  ASSUME NEW d, IsDisk(d), NEW dir, NEW value, Resolved(d, dir, value) # "absent"
  PROVE  Resolved(d, dir, value) \in STRING
<1> DEFINE x == <<dir, value.word>>
<1>1. x \in DOMAIN d.tree /\ Resolved(d, dir, value) = d.tree[x]
  BY DEF Resolved
<1> HIDE DEF x
<1> QED BY <1>1 DEF IsDisk

\* A sequence over a set is one over a larger set.
LEMMA SeqGrows ==
  ASSUME NEW S, NEW T, S \subseteq T, NEW s \in Seq(S)
  PROVE  s \in Seq(T)
BY SeqDef

\* The places that a watched path can lead to.
There == STRING \ {"absent"}

WatchLoop(d, entries, cwd, f) ==
  [i \in 0..Len(entries) |-> IF i = 0 THEN <<>> ELSE Watching(d, cwd, f[i - 1], entries[i])]

\* A watched path leads to a place that is there.
LEMMA WatchPathsAreThere ==
  ASSUME NEW d, IsDisk(d), NEW t, IsRawService(t), NEW cwd
  PROVE  WatchPaths(d, t, cwd) \in Seq(There)
<1> DEFINE s == List(t, "watch.paths")
           N == Len(s)
           S == Seq(There)
           b == <<>>
           f == CHOOSE f : f = WatchLoop(d, s, cwd, f)
           g == [x \in (1..N) \X S |-> Watching(d, cwd, x[2], s[x[1]])]
<1>1. N \in Nat
  <2>1. s \in Seq(RawValues)
    BY DEF List, IsRawService, IsRawTable
  <2> HIDE DEF s
  <2> QED BY <2>1
<1>2. WatchPaths(d, t, cwd) = f[N]
  BY DEF WatchPaths, WatchLoop
<1>3. \A n \in 1..N, x \in S : Watching(d, cwd, x, s[n]) \in S
  <2> TAKE n \in 1..N, x \in S
  <2> DEFINE at == Resolved(d, cwd, s[n])
  <2>1. CASE s[n].word = "" \/ at = "absent"
    BY <2>1 DEF Watching
  <2>2. CASE ~(s[n].word = "" \/ at = "absent")
    <3>1. Watching(d, cwd, x, s[n]) = Append(x, at)
      BY <2>2 DEF Watching
    <3>2. at \in STRING
      BY <2>2, ResolvedIsPlace
    <3> HIDE DEF at
    <3>3. at \in There
      BY <2>2, <3>2 DEF There
    <3>4. Append(x, at) \in Seq(There)
      BY <3>3, AppendProperties
    <3> QED BY <3>1, <3>4
  <2> QED BY <2>1, <2>2
<1>4. b \in S
  OBVIOUS
<1>5. g \in [(1..N) \X S -> S] /\ \A n \in 1..N, x \in S : g[<<n, x>>] = Watching(d, cwd, x, s[n])
  BY <1>3
<1> HIDE DEF N, S, g, b
<1>6. PICK h : Runs(N, S, b, g, h)
  BY <1>1, <1>4, <1>5, Iterates
<1>7. /\ h \in [0..N -> S] /\ h[0] = b
      /\ \A n \in 1..N : n - 1 \in 0..N /\ h[n] = Watching(d, cwd, h[n - 1], s[n])
  <2>1. \A n \in 1..N : n - 1 \in 0..N
    BY <1>1
  <2> QED BY <1>5, <1>6, <2>1 DEF Runs
<1> HIDE DEF s
<1>8. h = WatchLoop(d, s, cwd, h)
  <2>1. h = [n \in 0..N |-> h[n]]
    BY <1>7
  <2>2. ASSUME NEW n \in 0..N
        PROVE  h[n] = IF n = 0 THEN b ELSE Watching(d, cwd, h[n - 1], s[n])
    <3>1. CASE n = 0
      BY <1>7, <3>1
    <3>2. CASE n # 0
      <4>1. n \in 1..N
        BY <1>1, <3>2
      <4> QED BY <1>7, <3>2, <4>1
    <3> QED BY <3>1, <3>2
  <2>3. [n \in 0..N |-> h[n]] = [n \in 0..N |-> IF n = 0 THEN b ELSE Watching(d, cwd, h[n - 1], s[n])]
    BY <2>2
  <2> QED BY <2>1, <2>3 DEF WatchLoop, N, b
<1>9. f = WatchLoop(d, s, cwd, f)
  BY <1>8, Zenon DEF s
<1> HIDE DEF f
<1>10. f[0] = b /\ \A n \in 1..N : f[n] = Watching(d, cwd, f[n - 1], s[n])
  <2> DEFINE r == WatchLoop(d, s, cwd, f)
  <2>1. \A n \in 0..N : r[n] = IF n = 0 THEN b ELSE Watching(d, cwd, f[n - 1], s[n])
    BY DEF WatchLoop, N, b
  <2>2. f = r
    BY <1>9
  <2> HIDE DEF r
  <2>3. \A n \in 1..N : n \in 0..N /\ n # 0
    BY <1>1
  <2>4. 0 \in 0..N
    BY <1>1
  <2> QED BY <2>1, <2>2, <2>3, <2>4
<1> DEFINE T == {n \in 0..N : f[n] \in S}
<1>11. 0 \in T
  BY <1>1, <1>4, <1>10
<1>12. \A n \in 1..N : n - 1 \in T => n \in T
  BY <1>3, <1>10 DEF S
<1>13. N \in T
  <2> HIDE DEF T
  <2>1. \A n \in 0..N : n \in T
    BY <1>1, <1>11, <1>12, Induction
  <2> QED BY <1>1, <2>1
<1> QED BY <1>2, <1>13 DEF S

\* The names that a watch can ignore.
Ignorable == ToSet(AlwaysIgnored) \cup STRING

IgnoreLoop(words, f) ==
  [i \in 0..Len(words) |-> IF i = 0 THEN AlwaysIgnored ELSE Ignoring(f[i - 1], words[i].word)]

\* What a watch ignores is a list of names.
LEMMA IgnoredAreNames ==
  ASSUME NEW t, IsRawService(t)
  PROVE  Ignored(t) \in Seq(Ignorable)
<1> DEFINE s == List(t, "watch.ignore")
           N == Len(s)
           S == Seq(Ignorable)
           b == AlwaysIgnored
           f == CHOOSE f : f = IgnoreLoop(s, f)
           g == [x \in (1..N) \X S |-> Ignoring(x[2], s[x[1]].word)]
<1>1. N \in Nat /\ \A n \in 1..N : s[n].word \in STRING
  <2>1. s \in Seq(RawValues)
    BY DEF List, IsRawService, IsRawTable
  <2> HIDE DEF s
  <2>2. N \in Nat /\ \A n \in 1..N : s[n] \in RawValues
    BY <2>1
  <2> QED BY <2>2, RawValueFacts
<1>2. Ignored(t) = f[N]
  BY DEF Ignored, IgnoreLoop
<1>3. \A n \in 1..N, x \in S : Ignoring(x, s[n].word) \in S
  <2> TAKE n \in 1..N, x \in S
  <2> DEFINE w == s[n].word
  <2>1. w \in Ignorable
    BY <1>1 DEF Ignorable
  <2> HIDE DEF w
  <2>2. Append(x, w) \in S
    BY <2>1, AppendProperties
  <2>3. Ignoring(x, w) = x \/ Ignoring(x, w) = Append(x, w)
    BY DEF Ignoring
  <2>4. Ignoring(x, w) \in S
    BY <2>2, <2>3
  <2> QED BY <2>4 DEF w
<1>4. b \in S
  <2> DEFINE x == ".git" y == ".servicrab" Q == {x, y}
  <2>1. <<x, y>> \in Seq(Q)
    <3> HIDE DEF x, y
    <3> QED OBVIOUS
  <2>2. Len(<<x, y>>) = 2 /\ DOMAIN <<x, y>> = 1..2 /\ <<x, y>>[1] = x /\ <<x, y>>[2] = y
    <3> HIDE DEF x, y
    <3> QED OBVIOUS
  <2>3. Q \subseteq ToSet(<<x, y>>)
    <3> HIDE DEF x, y
    <3>1. 1 \in 1..2 /\ 2 \in 1..2
      OBVIOUS
    <3> QED BY <2>2, <3>1 DEF ToSet
  <2>4. AlwaysIgnored = <<x, y>>
    BY DEF AlwaysIgnored
  <2>5. Q \subseteq Ignorable
    BY <2>3, <2>4 DEF Ignorable
  <2> HIDE DEF Q, x, y
  <2>6. <<x, y>> \in Seq(Ignorable)
    BY <2>1, <2>5, SeqDef
  <2> QED BY <2>4, <2>6
<1>5. g \in [(1..N) \X S -> S] /\ \A n \in 1..N, x \in S : g[<<n, x>>] = Ignoring(x, s[n].word)
  BY <1>3
<1> HIDE DEF N, S, g, b
<1>6. PICK h : Runs(N, S, b, g, h)
  BY <1>1, <1>4, <1>5, Iterates
<1>7. /\ h \in [0..N -> S] /\ h[0] = b
      /\ \A n \in 1..N : n - 1 \in 0..N /\ h[n] = Ignoring(h[n - 1], s[n].word)
  <2>1. \A n \in 1..N : n - 1 \in 0..N
    BY <1>1
  <2> QED BY <1>5, <1>6, <2>1 DEF Runs
<1> HIDE DEF s
<1>8. h = IgnoreLoop(s, h)
  <2>1. h = [n \in 0..N |-> h[n]]
    BY <1>7
  <2>2. ASSUME NEW n \in 0..N
        PROVE  h[n] = IF n = 0 THEN b ELSE Ignoring(h[n - 1], s[n].word)
    <3>1. CASE n = 0
      BY <1>7, <3>1
    <3>2. CASE n # 0
      <4>1. n \in 1..N
        BY <1>1, <3>2
      <4> QED BY <1>7, <3>2, <4>1
    <3> QED BY <3>1, <3>2
  <2>3. [n \in 0..N |-> h[n]] = [n \in 0..N |-> IF n = 0 THEN b ELSE Ignoring(h[n - 1], s[n].word)]
    BY <2>2
  <2> QED BY <2>1, <2>3 DEF IgnoreLoop, N, b
<1>9. f = IgnoreLoop(s, f)
  BY <1>8, Zenon DEF s
<1> HIDE DEF f
<1>10. f[0] = b /\ \A n \in 1..N : f[n] = Ignoring(f[n - 1], s[n].word)
  <2> DEFINE r == IgnoreLoop(s, f)
  <2>1. \A n \in 0..N : r[n] = IF n = 0 THEN b ELSE Ignoring(f[n - 1], s[n].word)
    BY DEF IgnoreLoop, N, b
  <2>2. f = r
    BY <1>9
  <2> HIDE DEF r
  <2>3. \A n \in 1..N : n \in 0..N /\ n # 0
    BY <1>1
  <2>4. 0 \in 0..N
    BY <1>1
  <2> QED BY <2>1, <2>2, <2>3, <2>4
<1> DEFINE T == {n \in 0..N : f[n] \in S}
<1>11. 0 \in T
  BY <1>1, <1>4, <1>10
<1>12. \A n \in 1..N : n - 1 \in T => n \in T
  BY <1>3, <1>10 DEF S
<1>13. N \in T
  <2> HIDE DEF T
  <2>1. \A n \in 0..N : n \in T
    BY <1>1, <1>11, <1>12, Induction
  <2> QED BY <1>1, <2>1
<1> QED BY <1>2, <1>13 DEF S

\* A watch without errors is there, and all that it watches is there.
LEMMA WatchIsSound ==
  ASSUME NEW d, IsDisk(d), NEW t, IsRawService(t), NEW cwd, NEW n, WatchErrors(d, t, cwd, n) = {}
  PROVE  LET w == WatchSettings(d, t, cwd)
         IN  w # None /\ InRange(w.ms, WatchLimits) /\ "absent" \notin ToSet(w.paths)
<1> DEFINE s == List(t, "watch.paths")
           p == WatchPaths(d, t, cwd)
           i == Ignored(t)
           ms == [f \in DOMAIN WatchLimits |-> Duration(t, f)]
           w == WatchSettings(d, t, cwd)
<1>1. p \in Seq(There) /\ i \in Seq(Ignorable)
  BY WatchPathsAreThere, IgnoredAreNames
<1>2. p # <<>>
  <2>1. When(s = <<>> \/ Len(p) < Len(s), "InvalidWatch", n, "watch.paths") = {}
    BY DEF WatchErrors
  <2>2. s # <<>> /\ ~(Len(p) < Len(s))
    BY <2>1, NoError
  <2>3. s \in Seq(RawValues)
    BY DEF List, IsRawService, IsRawTable
  <2> HIDE DEF s, p
  <2>4. Len(s) \in Nat /\ Len(s) # 0
    BY <2>2, <2>3, EmptySeq
  <2>5. Len(p) # 0
    BY <1>1, <2>2, <2>4
  <2> QED BY <2>5
<1>3. w = [paths |-> p, ignore |-> i, ms |-> ms]
  BY <1>2 DEF WatchSettings
<1>4. ms \in [DOMAIN WatchLimits -> Nat] /\ InRange(ms, WatchLimits)
  BY LimitFacts, DurationIsInRange DEF InRange
<1> DEFINE P == Seq(STRING) I == Seq(ToSet(AlwaysIgnored) \cup STRING) M == [DOMAIN WatchLimits -> Nat]
<1>5. p \in P /\ i \in I /\ ms \in M
  <2>1. p \in Seq(STRING)
    <3> HIDE DEF p
    <3>1. There \subseteq STRING
      BY DEF There
    <3> QED BY <1>1, <3>1, SeqGrows
  <2>2. i \in I
    BY <1>1 DEF Ignorable
  <2> QED BY <1>4, <2>1, <2>2
<1>6. "absent" \notin ToSet(p)
  <2> HIDE DEF p
  <2>1. \A x \in DOMAIN p : p[x] \in There
    BY <1>1
  <2> QED BY <2>1 DEF ToSet, There
<1> HIDE DEF p, i, ms, w, P, I, M
<1>7. w \in [paths : P, ignore : I, ms : M] /\ w.paths = p /\ w.ms = ms
  BY <1>3, <1>5
<1>8. w \in Watches
  BY <1>7 DEF Watches, P, I, M
<1>9. w # None
  <2>1. None \notin Watches
    BY FieldAssumption
  <2> QED BY <1>8, <2>1
<1> QED BY <1>4, <1>6, <1>7, <1>9 DEF w

-----------------------------------------------------------------------------
(* What becomes of references. *)

\* What a value v of the files has become.
Stands(v, w) == w.pieces = <<>> /\ Means(v, w.word)

\* The text of a value, as the table at the top of subst.rs gives it.
TableLoop(v, f) ==
  [k \in 0..Len(v.pieces) |->
      IF k = 0 THEN v.word
      ELSE IF k \in Used(v.pieces) THEN Join(f[k - 1], Row(v.pieces[k])) ELSE f[k - 1]]

IsText(v, f) ==
  /\ f[0] = v.word
  /\ \A k \in 1..Len(v.pieces) :
        f[k] = IF k \in Used(v.pieces) THEN Join(f[k - 1], Row(v.pieces[k])) ELSE f[k - 1]

LEMMA TableRuns ==
  ASSUME NEW v \in RawValues
  PROVE  \E f : /\ IsText(v, f)
                /\ \A word : Means(v, word) <=> ~IsFaulty(v) /\ word = f[Len(v.pieces)]
<1> DEFINE s == v.pieces
           N == Len(s)
           S == STRING
           b == v.word
           U == Used(s)
           f == CHOOSE f : f = TableLoop(v, f)
           g == [x \in (1..N) \X S |-> IF x[1] \in U THEN Join(x[2], Row(s[x[1]])) ELSE x[2]]
<1>1. N \in Nat /\ b \in S
  BY RawValueFacts
<1>2. \A word : Means(v, word) <=> ~IsFaulty(v) /\ word = f[N]
  BY DEF Means, TableLoop
<1>3. \A n \in 1..N, x \in S : (IF n \in U THEN Join(x, Row(s[n])) ELSE x) \in S
  BY JoinIsWord
<1> HIDE DEF U, b
<1>5. g \in [(1..N) \X S -> S] /\ \A n \in 1..N, x \in S : g[<<n, x>>] = IF n \in U THEN Join(x, Row(s[n])) ELSE x
  BY <1>3
<1> HIDE DEF N, S, g
<1>6. PICK h : Runs(N, S, b, g, h)
  BY <1>1, <1>5, Iterates
<1>7. /\ h \in [0..N -> S] /\ h[0] = b
      /\ \A n \in 1..N : n - 1 \in 0..N /\ h[n] = IF n \in U THEN Join(h[n - 1], Row(s[n])) ELSE h[n - 1]
  <2>1. \A n \in 1..N : n - 1 \in 0..N
    BY <1>1
  <2> QED BY <1>5, <1>6, <2>1 DEF Runs
<1> HIDE DEF s
<1>8. h = TableLoop(v, h)
  <2>1. h = [n \in 0..N |-> h[n]]
    BY <1>7
  <2>2. ASSUME NEW n \in 0..N
        PROVE  h[n] = IF n = 0 THEN b ELSE IF n \in U THEN Join(h[n - 1], Row(s[n])) ELSE h[n - 1]
    <3>1. CASE n = 0
      BY <1>7, <3>1
    <3>2. CASE n # 0
      <4>1. n \in 1..N
        BY <1>1, <3>2
      <4> QED BY <1>7, <3>2, <4>1
    <3> QED BY <3>1, <3>2
  <2>3. [n \in 0..N |-> h[n]] = [n \in 0..N |-> IF n = 0 THEN b ELSE IF n \in U THEN Join(h[n - 1], Row(s[n])) ELSE h[n - 1]]
    BY <2>2
  <2> QED BY <2>1, <2>3 DEF TableLoop, N, b, s, U
<1>9. f = TableLoop(v, f)
  BY <1>8, Zenon
<1> HIDE DEF f
<1>10. f[0] = b /\ \A n \in 1..N : f[n] = IF n \in U THEN Join(f[n - 1], Row(s[n])) ELSE f[n - 1]
  <2> DEFINE r == TableLoop(v, f)
  <2>1. \A n \in 0..N : r[n] = IF n = 0 THEN b ELSE IF n \in U THEN Join(f[n - 1], Row(s[n])) ELSE f[n - 1]
    BY DEF TableLoop, N, b, s, U
  <2>2. f = r
    BY <1>9
  <2> HIDE DEF r
  <2>3. \A n \in 1..N : n \in 0..N /\ n # 0
    BY <1>1
  <2>4. 0 \in 0..N
    BY <1>1
  <2> QED BY <2>1, <2>2, <2>3, <2>4
<1>11. IsText(v, f)
  BY <1>10 DEF IsText, N, b, s, U
<1> QED BY <1>2, <1>11 DEF N, s

\* Where an expansion has got after k pieces, of which those of C are variables that are
\* there: behind `past' no piece up to k is in one of their defaults.
Covers(C, span, k, past) ==
  /\ \A i \in C : i <= k => i + span[i] <= k \/ i + span[i] <= past
  /\ past = 0 \/ \E i \in C : i <= k /\ past = i + span[i]

\* How the pieces of a value are read, one by one, as far as numbers tell.
LEMMA CoversGoesOn ==
  ASSUME NEW N \in Nat, NEW C \in SUBSET (1..N), NEW span \in [1..N -> Nat],
         \A i \in 1..N : \A j \in (i + 1)..(i + span[i]) : j \in 1..N => j + span[j] <= i + span[i],
         NEW k \in 1..N, NEW past \in Nat, Covers(C, span, k - 1, past)
  PROVE  /\ k <= past => /\ Covers(C, span, k, past)
                         /\ \E i \in C : i <= k - 1 /\ k <= i + span[i]
         /\ k > past => /\ \A i \in C : i <= k - 1 => ~(k <= i + span[i])
                        /\ Covers(C, span, k, IF k \in C THEN k + span[k] ELSE past)
<1>0. /\ k \in Nat /\ k >= 1 /\ k - 1 \in Nat
      /\ \A i \in C : i \in Nat /\ i \in 1..N /\ span[i] \in Nat
  OBVIOUS
<1>1. /\ \A i \in C : i <= k - 1 => i + span[i] <= k - 1 \/ i + span[i] <= past
      /\ past = 0 \/ \E i \in C : i <= k - 1 /\ past = i + span[i]
  BY DEF Covers
<1>2. ASSUME k <= past
      PROVE  Covers(C, span, k, past) /\ \E i \in C : i <= k - 1 /\ k <= i + span[i]
  <2>0. past # 0
    BY <1>0, <1>2
  <2>1. PICK i \in C : i <= k - 1 /\ past = i + span[i]
    BY <1>1, <2>0
  <2>2. k \in (i + 1)..(i + span[i]) /\ i \in 1..N
    BY <1>0, <1>2, <2>1
  <2>3. k + span[k] <= past
    BY <2>1, <2>2
  <2>4. \A j \in C : j <= k => j = k \/ j <= k - 1
    BY <1>0
  <2>5. ASSUME NEW j \in C, j <= k
        PROVE  j + span[j] <= k \/ j + span[j] <= past
    <3>1. CASE j = k
      BY <2>3, <3>1
    <3>2. CASE j <= k - 1
      BY <1>0, <1>1, <3>2
    <3> QED BY <2>4, <2>5, <3>1, <3>2
  <2>6. i <= k
    BY <1>0, <2>1
  <2>7. k <= i + span[i]
    BY <1>2, <2>1
  <2> QED BY <2>1, <2>5, <2>6, <2>7 DEF Covers
<1>3. ASSUME k > past
      PROVE  /\ \A i \in C : i <= k - 1 => ~(k <= i + span[i])
             /\ Covers(C, span, k, IF k \in C THEN k + span[k] ELSE past)
  <2>1. \A i \in C : i <= k - 1 => ~(k <= i + span[i])
    BY <1>0, <1>1, <1>3
  <2>2. \A j \in C : j <= k => j = k \/ j <= k - 1
    BY <1>0
  <2>3. \A j \in C : j <= k - 1 => j + span[j] <= k
    BY <1>0, <2>1
  <2>4. CASE k \in C
    <3>1. \A j \in C : j <= k => j + span[j] <= k \/ j + span[j] <= k + span[k]
      BY <1>0, <2>2, <2>3, <2>4
    <3> QED BY <1>0, <2>1, <2>4, <3>1 DEF Covers
  <2>5. CASE k \notin C
    <3>1. \A j \in C : j <= k => j + span[j] <= k
      BY <2>2, <2>3, <2>5
    <3>2. past = 0 \/ \E i \in C : i <= k /\ past = i + span[i]
      BY <1>0, <1>1
    <3> QED BY <2>1, <2>5, <3>1, <3>2 DEF Covers
  <2> QED BY <2>4, <2>5
<1> QED BY <1>0, <1>2, <1>3

IsError(p) == p.kind = "malformed" \/ (p.kind = "plain" /\ p.of \notin DOMAIN vars)

\* A piece of a value says what the table says, and fails where the table says it does.
LEMMA PieceFacts ==
  ASSUME NEW p \in Pieces
  PROVE  /\ Fault(p, vars) # "none" <=> IsError(p)
         /\ ~IsError(p) => Says(p, vars) = Row(p)
         /\ p.kind \in {":-", "-"} => (Counts(p, vars) <=> IsThere(p))
<1>1. p.kind \in {"text", "escape", "plain", ":-", "-", "malformed"}
  BY DEF Pieces
<1>2. Fault(p, vars) # "none" <=> IsError(p)
  BY DEF Fault, IsError, Set
<1>3. p.kind \in {":-", "-"} => (Counts(p, vars) <=> IsThere(p))
  BY DEF Counts, IsThere, Set
<1>4. ASSUME ~IsError(p)
      PROVE  Says(p, vars) = Row(p)
  <2>1. CASE p.kind = "text"
    BY <2>1 DEF Says, Row, Counts
  <2>2. CASE p.kind = "escape"
    BY <2>2 DEF Says, Row, Counts
  <2>3. CASE p.kind = "plain"
    BY <1>4, <2>3 DEF Says, Row, Counts, IsError, Set
  <2>4. CASE p.kind \in {":-", "-"}
    BY <1>3, <2>4 DEF Says, Row
  <2>5. p.kind # "malformed"
    BY <1>4 DEF IsError
  <2> QED BY <1>1, <2>1, <2>2, <2>3, <2>4, <2>5
<1> QED BY <1>2, <1>3, <1>4

\* A value that is expanded without an error means what it has become, and one that is
\* not has a piece that counts and is in error.
LEMMA ValueReads ==
  ASSUME NEW v \in RawValues
  PROVE  LET e == Expansion(v, vars)
         IN  /\ e.fault = "none" => Means(v, e.word)
             /\ e.fault # "none" => IsFaulty(v)
<1> DEFINE s == v.pieces
           N == Len(s)
           U == Used(s)
           C == {i \in 1..N : Counts(s[i], vars)}
           E == {i \in 1..N : IsError(s[i])}
           span == [i \in 1..N |-> s[i].span]
<1>1. PICK f : IsReading(v, vars, f) /\ Expansion(v, vars) = f[N]
  BY ReadingRuns
<1>2. PICK t : IsText(v, t) /\ \A word : Means(v, word) <=> ~IsFaulty(v) /\ word = t[N]
  BY TableRuns
<1>3. N \in Nat /\ DOMAIN s = 1..N /\ \A i \in 1..N : s[i] \in Pieces
  <2>1. s \in Seq(Pieces)
    BY RawValueFacts
  <2> HIDE DEF s
  <2> QED BY <2>1
<1>4. Nested(s)
  BY RawValueFacts
<1>5. /\ f \in [0..N -> Readings] /\ f[0] = ReadingStart(v)
      /\ \A n \in 1..N : f[n] = Reading(f[n - 1], s[n], n, vars)
  BY <1>1 DEF IsReading
<1>6. t[0] = v.word /\ \A k \in 1..N : t[k] = IF k \in U THEN Join(t[k - 1], Row(s[k])) ELSE t[k - 1]
  BY <1>2 DEF IsText
<1> HIDE DEF s, N
<1>7. span \in [1..N -> Nat] /\ \A i \in 1..N : span[i] = s[i].span
  BY <1>3 DEF Pieces
<1>8. C \in SUBSET (1..N) /\ \A i \in 1..N : i \in C <=> Counts(s[i], vars)
  OBVIOUS
<1>9. \A i \in 1..N : \A j \in (i + 1)..(i + span[i]) : j \in 1..N => j + span[j] <= i + span[i]
  <2> SUFFICES ASSUME NEW i \in 1..N, NEW j \in (i + 1)..(i + span[i]), j \in 1..N PROVE j + span[j] <= i + span[i]
    OBVIOUS
  <2>1. j \in (i + 1)..(i + s[i].span)
    BY <1>7
  <2>2. j + s[j].span <= i + s[i].span
    BY <1>3, <1>4, <2>1 DEF Nested
  <2> QED BY <1>7, <2>2
<1>10. E \subseteq 1..N /\ \A i \in 1..N : i \in E <=> IsError(s[i])
  OBVIOUS
<1>11. \A k \in 1..N : k \in U <=> \A i \in C : i <= k - 1 => ~(k <= i + span[i])
  <2> SUFFICES ASSUME NEW k \in 1..N PROVE k \in U <=> \A i \in C : i <= k - 1 => ~(k <= i + span[i])
    OBVIOUS
  <2>1. k \in U <=> \A i \in 1..(k - 1) : k <= i + s[i].span => ~IsThere(s[i])
    BY <1>3 DEF Used
  <2>2. ASSUME NEW i \in 1..(k - 1)
        PROVE  /\ i \in 1..N /\ i <= k - 1
               /\ k <= i + span[i] => (IsThere(s[i]) <=> i \in C)
    <3>1. i \in 1..N /\ i <= k - 1
      BY <1>3
    <3>2. ASSUME k <= i + span[i]
          PROVE  IsThere(s[i]) <=> i \in C
      <4>1. s[i].span # 0
        BY <1>3, <1>7, <3>1, <3>2
      <4>2. s[i].kind \in {":-", "-"}
        BY <1>3, <1>4, <3>1, <4>1 DEF Nested
      <4>3. s[i] \in Pieces
        BY <1>3, <3>1
      <4> QED BY <1>8, <3>1, <4>2, <4>3, PieceFacts
    <3> QED BY <3>1, <3>2
  <2>3. \A i \in C : i <= k - 1 => i \in 1..(k - 1)
    BY <1>3, <1>8
  <2>4. \A i \in 1..(k - 1) : span[i] = s[i].span
    BY <1>7, <2>2
  <2> HIDE DEF U, C, span
  <2> QED BY <2>1, <2>2, <2>3, <2>4
<1> HIDE DEF U, C, E, span
<1> DEFINE ReadSoFar(k) == IF f[k].fault = "none"
                      THEN /\ f[k].word = t[k] /\ Covers(C, span, k, f[k].past)
                           /\ \A i \in E : i <= k => i \notin U
                      ELSE \E i \in E : i \in U
           T == {k \in 0..N : ReadSoFar(k)}
<1>12. 0 \in T
  <2>1. f[0] = [fault |-> "none", word |-> v.word, past |-> 0]
    BY <1>5 DEF ReadingStart
  <2>2. f[0].fault = "none" /\ f[0].word = v.word /\ f[0].past = 0
    BY <2>1
  <2>3. \A i \in 1..N : ~(i <= 0)
    BY <1>3
  <2>4. Covers(C, span, 0, 0)
    BY <1>8, <2>3 DEF Covers
  <2>5. 0 \in 0..N
    BY <1>3
  <2>6. \A i \in E : i <= 0 => i \notin U
    BY <1>10, <2>3
  <2> QED BY <1>6, <2>2, <2>4, <2>5, <2>6
<1>13. ASSUME NEW k \in 1..N, k - 1 \in T
       PROVE  k \in T
  <2> DEFINE so == f[k - 1]
             p == s[k]
  <2>0. k - 1 \in 0..N /\ k \in 0..N
    BY <1>3
  <2>1. so \in Readings /\ p \in Pieces /\ f[k] = Reading(so, p, k, vars)
    BY <1>3, <1>5, <2>0
  <2>2. so.past \in Nat /\ p.span \in Nat
    BY <2>1 DEF Readings, Pieces
  <2>3. t[k] = IF k \in U THEN Join(t[k - 1], Row(p)) ELSE t[k - 1]
    BY <1>6
  <2>4. ReadSoFar(k - 1)
    BY <1>13
  <2>5. ASSUME so.fault # "none"
        PROVE  ReadSoFar(k)
    <3>1. f[k] = so
      BY <2>1, <2>5 DEF Reading
    <3> QED BY <2>4, <2>5, <3>1
  <2>6. ASSUME so.fault = "none"
        PROVE  ReadSoFar(k)
    <3>1. so.word = t[k - 1] /\ Covers(C, span, k - 1, so.past) /\ \A i \in E : i <= k - 1 => i \notin U
      BY <2>4, <2>6
    <3>2. \A i \in E : i <= k => i <= k - 1 \/ i = k
      BY <1>3, <1>10
    <3> DEFINE past == so.past
    <3>3. /\ k <= past => /\ Covers(C, span, k, past)
                          /\ \E i \in C : i <= k - 1 /\ k <= i + span[i]
          /\ k > past => /\ \A i \in C : i <= k - 1 => ~(k <= i + span[i])
                         /\ Covers(C, span, k, IF k \in C THEN k + span[k] ELSE past)
      <4>1. past \in Nat /\ Covers(C, span, k - 1, past)
        BY <2>2, <3>1
      <4> HIDE DEF past, so
      <4> QED BY <1>3, <1>7, <1>8, <1>9, <4>1, CoversGoesOn
    <3>4. CASE k <= past
      <4>1. f[k] = so
        BY <2>1, <3>4 DEF Reading
      <4>2. k \notin U
        BY <1>11, <3>3, <3>4
      <4>3. t[k] = t[k - 1]
        BY <2>3, <4>2
      <4>4. \A i \in E : i <= k => i \notin U
        BY <3>1, <3>2, <4>2
      <4> HIDE DEF so
      <4> QED BY <2>6, <3>1, <3>3, <3>4, <4>1, <4>3, <4>4
    <3>5. CASE k > past /\ Fault(p, vars) # "none"
      <4>1. ~(k <= past)
        BY <2>2, <3>5
      <4>2. k \in U
        BY <1>11, <3>3, <3>5
      <4>3. k \in E
        BY <1>10, <2>1, <3>5, PieceFacts
      <4> DEFINE fault == Fault(p, vars)
      <4>4. f[k] = [so EXCEPT !.fault = fault]
        BY <2>1, <2>6, <3>5, <4>1 DEF Reading
      <4>5. so = [fault |-> so.fault, word |-> so.word, past |-> so.past]
        BY <2>1 DEF Readings
      <4>6. fault # "none"
        BY <3>5
      <4> HIDE DEF so, fault
      <4>7. f[k].fault = fault
        BY <4>4, <4>5
      <4> QED BY <4>2, <4>3, <4>6, <4>7
    <3>6. CASE k > past /\ Fault(p, vars) = "none"
      <4>1. ~(k <= past)
        BY <2>2, <3>6
      <4>2. k \in U
        BY <1>11, <3>3, <3>6
      <4>3. k \notin E /\ Says(p, vars) = Row(p)
        BY <1>10, <2>1, <3>6, PieceFacts
      <4> DEFINE word == Join(so.word, Says(p, vars))
                 next == IF Counts(p, vars) THEN k + p.span ELSE so.past
      <4>4. f[k] = [fault |-> "none", word |-> word, past |-> next]
        BY <2>1, <2>6, <3>6, <4>1 DEF Reading
      <4>5. word = t[k]
        BY <2>3, <3>1, <4>2, <4>3
      <4>6. next = IF k \in C THEN k + span[k] ELSE past
        BY <1>7, <1>8
      <4>7. \A i \in E : i <= k => i \notin U
        BY <3>1, <3>2, <4>3
      <4> HIDE DEF word, next
      <4>8. f[k].fault = "none" /\ f[k].word = word /\ f[k].past = next
        BY <4>4
      <4>9. Covers(C, span, k, next)
        BY <3>3, <3>6, <4>6
      <4> QED BY <4>5, <4>7, <4>8, <4>9
    <3>7. k <= past \/ k > past
      BY <1>3, <2>2
    <3> QED BY <3>4, <3>5, <3>6, <3>7
  <2>7. ReadSoFar(k)
    BY <2>5, <2>6
  <2> HIDE DEF ReadSoFar
  <2> QED BY <2>0, <2>7
<1>14. ReadSoFar(N)
  <2> HIDE DEF T
  <2>1. \A n \in 0..N : n \in T
    BY <1>3, <1>12, <1>13, Induction
  <2>2. N \in T
    BY <1>3, <2>1
  <2> QED BY <2>2 DEF T
<1>15. IsFaulty(v) <=> \E i \in E : i \in U
  <2>1. IsFaulty(v) <=> \E i \in U : IsError(s[i])
    BY DEF IsFaulty, IsError, s, U
  <2>2. U \subseteq 1..N
    BY <1>3 DEF U, Used
  <2> QED BY <1>10, <2>1, <2>2
<1>16. \A i \in E : i <= N
  BY <1>3, <1>10
<1>17. ASSUME f[N].fault = "none"
       PROVE  Means(v, f[N].word)
  <2>1. f[N].word = t[N] /\ ~\E i \in E : i \in U
    BY <1>14, <1>16, <1>17
  <2> QED BY <1>2, <1>15, <2>1
<1>18. ASSUME f[N].fault # "none"
       PROVE  IsFaulty(v)
  BY <1>14, <1>15, <1>18
<1> QED BY <1>1, <1>17, <1>18

\* A value that is expanded without an error stands for what the table says.
LEMMA ValueStands ==
  ASSUME NEW v \in RawValues, NEW svc, NEW field, SubstErrors(v, svc, field, vars) = {}
  PROVE  Stands(v, Expanded(v, vars))
<1> DEFINE e == Expansion(v, vars)
<1>1. e.fault = "none"
  BY DEF SubstErrors
<1>2. Means(v, e.word)
  BY <1>1, ValueReads
<1>3. Expanded(v, vars) = Word(e.word)
  BY <1>1 DEF Expanded
<1> HIDE DEF e
<1> DEFINE w == e.word
<1>4. Word(w) = [word |-> w, pieces |-> <<>>]
  BY DEF Word
<1> HIDE DEF w
<1>5. Word(w).word = w /\ Word(w).pieces = <<>>
  BY <1>4
<1> QED BY <1>2, <1>3, <1>5 DEF Stands, w

\* One with an error has a piece that is at fault.
LEMMA ValueFails ==
  ASSUME NEW v \in RawValues, NEW svc, NEW field, SubstErrors(v, svc, field, vars) # {}
  PROVE  IsFaulty(v)
<1>1. Expansion(v, vars).fault # "none"
  BY DEF SubstErrors
<1> QED BY <1>1, ValueReads

\* A table x holds the fields of t, each with what its value has become.
Becomes(t, x) ==
  /\ DOMAIN x.texts = DOMAIN t.texts /\ DOMAIN x.lists = DOMAIN t.lists /\ DOMAIN x.env = DOMAIN t.env
  /\ \A f \in DOMAIN t.texts : Stands(t.texts[f], x.texts[f])
  /\ \A f \in DOMAIN t.lists : \A i \in DOMAIN t.lists[f] : Stands(t.lists[f][i], x.lists[f][i])
  /\ \A k \in DOMAIN t.env : Stands(t.env[k], x.env[k])

\* "String fields do not expand by themselves": every field of a table has its line in
\* expand_raw.
LEMMA TableResolves ==
  ASSUME NEW t, IsRawTable(t), NEW svc, TableErrors(t, svc, vars) = {}, NEW x, IsExpansion(t, x, vars)
  PROVE  Becomes(t, x)
<1>1. /\ x.texts = [f \in DOMAIN t.texts |-> IF f \in ExpandedTexts THEN Expanded(t.texts[f], vars) ELSE t.texts[f]]
      /\ x.lists = [f \in DOMAIN t.lists |-> IF f \in ExpandedLists THEN ExpandedAll(t.lists[f], vars) ELSE t.lists[f]]
      /\ x.env = [k \in DOMAIN t.env |-> Expanded(t.env[k], vars)]
  BY DEF IsExpansion, ExpandedAll
<1>2. /\ DOMAIN t.texts \subseteq RawTexts /\ DOMAIN t.lists \subseteq RawLists
      /\ \A f \in DOMAIN t.texts : t.texts[f] \in RawValues
      /\ \A f \in DOMAIN t.lists : t.lists[f] \in Seq(RawValues)
      /\ \A k \in DOMAIN t.env : t.env[k] \in RawValues
  BY DEF IsRawTable
<1>3. RawTexts \subseteq ExpandedTexts
  BY DEF RawTexts, ExpandedTexts, ServiceTexts, HealthTexts, WatchTexts, LogsTexts
<1>4. RawLists \subseteq ExpandedLists
  BY DEF RawLists, ExpandedLists
<1>5. ASSUME NEW f \in DOMAIN t.texts
      PROVE  Stands(t.texts[f], x.texts[f])
  <2>1. f \in ExpandedTexts
    BY <1>2, <1>3
  <2>2. SubstErrors(t.texts[f], svc, f, vars) \subseteq TableErrors(t, svc, vars)
    BY <2>1 DEF TableErrors
  <2>3. SubstErrors(t.texts[f], svc, f, vars) = {}
    BY <2>2
  <2>4. x.texts[f] = Expanded(t.texts[f], vars)
    BY <1>1, <2>1
  <2> QED BY <1>2, <2>3, <2>4, ValueStands
<1>6. ASSUME NEW f \in DOMAIN t.lists, NEW i \in DOMAIN t.lists[f]
      PROVE  Stands(t.lists[f][i], x.lists[f][i])
  <2>1. f \in ExpandedLists
    BY <1>2, <1>4
  <2>2. AllErrors(t.lists[f], svc, f, vars) \subseteq TableErrors(t, svc, vars)
    BY <2>1 DEF TableErrors
  <2>3. SubstErrors(t.lists[f][i], svc, f, vars) \subseteq AllErrors(t.lists[f], svc, f, vars)
    BY DEF AllErrors
  <2>4. SubstErrors(t.lists[f][i], svc, f, vars) = {}
    BY <2>2, <2>3
  <2>5. x.lists[f] = ExpandedAll(t.lists[f], vars)
    BY <1>1, <2>1
  <2>6. x.lists[f][i] = Expanded(t.lists[f][i], vars)
    BY <2>5 DEF ExpandedAll
  <2>7. t.lists[f] \in Seq(RawValues)
    BY <1>2
  <2>8. t.lists[f][i] \in RawValues
    BY <2>7
  <2> QED BY <2>4, <2>6, <2>8, ValueStands
<1>7. ASSUME NEW k \in DOMAIN t.env
      PROVE  Stands(t.env[k], x.env[k])
  <2>1. AllErrors(t.env, svc, "env", vars) \subseteq TableErrors(t, svc, vars)
    BY DEF TableErrors
  <2>2. SubstErrors(t.env[k], svc, "env", vars) \subseteq AllErrors(t.env, svc, "env", vars)
    BY DEF AllErrors
  <2>3. SubstErrors(t.env[k], svc, "env", vars) = {}
    BY <2>1, <2>2
  <2>4. x.env[k] = Expanded(t.env[k], vars)
    BY <1>1
  <2>5. t.env[k] \in RawValues
    BY <1>2
  <2> QED BY <2>3, <2>4, <2>5, ValueStands
<1>8. DOMAIN x.texts = DOMAIN t.texts /\ DOMAIN x.lists = DOMAIN t.lists /\ DOMAIN x.env = DOMAIN t.env
  BY <1>1
<1> QED BY <1>5, <1>6, <1>7, <1>8 DEF Becomes

-----------------------------------------------------------------------------
(* Environments in layers. *)

Environments == UNION {[D -> STRING] : D \in SUBSET STRING}

Pairs == STRING \X STRING

\* An environment is what is left of assignments made one after the other.
LaysOut(env, s) ==
  /\ \A k \in DOMAIN env : \E i \in DOMAIN s : s[i][1] = k
  /\ \A i \in DOMAIN s : s[i][1] \in DOMAIN env
  /\ \A i \in DOMAIN s : (\A j \in (i + 1)..Len(s) : s[j][1] # s[i][1]) => env[s[i][1]] = s[i][2]

LEMMA EnvironmentFacts ==
  /\ \A e \in Environments : /\ e = [k \in DOMAIN e |-> e[k]]
                             /\ DOMAIN e \subseteq STRING /\ \A k \in DOMAIN e : e[k] \in STRING
  /\ \A D \in SUBSET STRING : \A e \in [D -> STRING] : e \in Environments
  /\ NoVars \in Environments /\ DOMAIN NoVars = {}
<1>1. \A D \in SUBSET STRING : \A e \in [D -> STRING] : e \in Environments
  BY DEF Environments
<1>2. DOMAIN NoVars = {} /\ NoVars \in [{} -> STRING]
  BY DEF NoVars
<1>3. {} \in SUBSET STRING
  OBVIOUS
<1>4. ASSUME NEW e \in Environments
      PROVE  /\ e = [k \in DOMAIN e |-> e[k]]
             /\ DOMAIN e \subseteq STRING /\ \A k \in DOMAIN e : e[k] \in STRING
  <2>1. PICK D \in SUBSET STRING : e \in [D -> STRING]
    BY DEF Environments
  <2> QED BY <2>1
<1> QED BY <1>1, <1>2, <1>3, <1>4

\* The later of two environments wins, as the later of two assignments does.
LEMMA OverLays ==
  ASSUME NEW a \in Environments, NEW b \in Environments, NEW s \in Seq(Pairs), NEW t \in Seq(Pairs),
         LaysOut(a, s), LaysOut(b, t)
  PROVE  /\ Over(a, b) \in Environments /\ s \o t \in Seq(Pairs)
         /\ LaysOut(Over(a, b), s \o t)
<1> DEFINE T == Pairs
           o == Over(a, b)
           c == s \o t
           m == Len(s)
           n == Len(t)
<1>1. /\ m \in Nat /\ n \in Nat /\ DOMAIN s = 1..m /\ DOMAIN t = 1..n
      /\ c \in Seq(T) /\ Len(c) = m + n /\ DOMAIN c = 1..(m + n)
      /\ \A i \in 1..m : c[i] = s[i]
      /\ \A i \in 1..n : c[m + i] = t[i]
  <2> HIDE DEF T
  <2>1. s \in Seq(T) /\ t \in Seq(T)
    BY DEF T
  <2> QED BY <2>1
<1>2. /\ DOMAIN o = DOMAIN a \cup DOMAIN b
      /\ \A k \in DOMAIN o : o[k] = IF k \in DOMAIN b THEN b[k] ELSE a[k]
      /\ o \in [DOMAIN a \cup DOMAIN b -> STRING]
  <2>1. /\ \A k \in DOMAIN a : a[k] \in STRING
        /\ \A k \in DOMAIN b : b[k] \in STRING
    BY EnvironmentFacts
  <2> QED BY <2>1 DEF Over
<1>3. o \in Environments
  <2>1. DOMAIN a \cup DOMAIN b \in SUBSET STRING
    BY EnvironmentFacts
  <2> HIDE DEF o
  <2> QED BY <1>2, <2>1, EnvironmentFacts
<1> HIDE DEF T, o, c, m, n
<1>4. \A i \in 1..(m + n) : \/ i \in 1..m /\ c[i] = s[i]
                            \/ i - m \in 1..n /\ c[i] = t[i - m]
  <2> TAKE i \in 1..(m + n)
  <2>1. CASE i <= m
    <3>1. i \in 1..m
      BY <1>1, <2>1
    <3> QED BY <1>1, <3>1
  <2>2. CASE i > m
    <3>1. i - m \in 1..n /\ m + (i - m) = i
      BY <1>1, <2>2
    <3> QED BY <1>1, <3>1
  <2>3. i \in Int
    BY <1>1
  <2> QED BY <1>1, <2>1, <2>2, <2>3
<1>5. /\ \A k \in DOMAIN a : \E i \in 1..m : s[i][1] = k
      /\ \A k \in DOMAIN b : \E i \in 1..n : t[i][1] = k
      /\ \A i \in 1..m : s[i][1] \in DOMAIN a
      /\ \A i \in 1..n : t[i][1] \in DOMAIN b
  BY <1>1 DEF LaysOut
<1>6. ASSUME NEW k \in DOMAIN o
      PROVE  \E i \in 1..(m + n) : c[i][1] = k
  <2>1. CASE k \in DOMAIN a
    <3>1. PICK i \in 1..m : s[i][1] = k
      BY <1>5, <2>1
    <3>2. i \in 1..(m + n) /\ c[i] = s[i]
      BY <1>1
    <3> QED BY <3>1, <3>2
  <2>2. CASE k \in DOMAIN b
    <3>1. PICK i \in 1..n : t[i][1] = k
      BY <1>5, <2>2
    <3>2. m + i \in 1..(m + n) /\ c[m + i] = t[i]
      BY <1>1
    <3> QED BY <3>1, <3>2
  <2> QED BY <1>2, <2>1, <2>2
<1>7. ASSUME NEW i \in 1..(m + n)
      PROVE  c[i][1] \in DOMAIN o
  BY <1>2, <1>4, <1>5
<1>8. ASSUME NEW i \in 1..(m + n), \A j \in (i + 1)..(m + n) : c[j][1] # c[i][1]
      PROVE  o[c[i][1]] = c[i][2]
  <2>1. CASE i \in 1..m /\ c[i] = s[i]
    <3>1. \A j \in (i + 1)..m : s[j][1] # s[i][1]
      <4> TAKE j \in (i + 1)..m
      <4>1. j \in (i + 1)..(m + n) /\ j \in 1..m
        BY <1>1
      <4>2. c[j] = s[j]
        BY <1>1, <4>1
      <4> QED BY <1>8, <2>1, <4>1, <4>2
    <3>2. \A j \in 1..n : t[j][1] # s[i][1]
      <4> TAKE j \in 1..n
      <4>1. m + j \in (i + 1)..(m + n)
        BY <1>1, <2>1
      <4>2. c[m + j] = t[j]
        BY <1>1
      <4> QED BY <1>8, <2>1, <4>1, <4>2
    <3>3. s[i][1] \notin DOMAIN b
      BY <1>5, <3>2
    <3>4. a[s[i][1]] = s[i][2]
      BY <1>1, <2>1, <3>1 DEF LaysOut, m
    <3>5. s[i][1] \in DOMAIN o
      BY <1>2, <1>5, <2>1
    <3> QED BY <1>2, <2>1, <3>3, <3>4, <3>5
  <2>2. CASE i - m \in 1..n /\ c[i] = t[i - m]
    <3> DEFINE h == i - m
    <3>1. \A j \in (h + 1)..n : t[j][1] # t[h][1]
      <4> TAKE j \in (h + 1)..n
      <4>1. m + j \in (i + 1)..(m + n) /\ j \in 1..n
        BY <1>1, <2>2
      <4>2. c[m + j] = t[j]
        BY <1>1, <4>1
      <4> QED BY <1>8, <2>2, <4>1, <4>2
    <3> HIDE DEF h
    <3>2. h \in 1..n /\ c[i] = t[h]
      BY <2>2 DEF h
    <3>3. b[t[h][1]] = t[h][2]
      BY <1>1, <3>1, <3>2 DEF LaysOut, n
    <3>4. t[h][1] \in DOMAIN b /\ t[h][1] \in DOMAIN o
      BY <1>2, <1>5, <3>2
    <3> QED BY <1>2, <3>2, <3>3, <3>4
  <2> QED BY <1>4, <2>1, <2>2
<1>9. LaysOut(o, c)
  BY <1>1, <1>6, <1>7, <1>8 DEF LaysOut
<1> QED BY <1>1, <1>3, <1>9 DEF o, c, T

LayeredLoop(envs, f) == [i \in 0..Len(envs) |-> IF i = 0 THEN NoVars ELSE Over(f[i - 1], envs[i])]

\* Layered puts one environment after the other on top.
LEMMA LayeredRuns ==
  ASSUME NEW N \in Nat, NEW envs \in [1..N -> Environments]
  PROVE  \E h : /\ h \in [0..N -> Environments] /\ h[0] = NoVars
                /\ \A n \in 1..N : h[n] = Over(h[n - 1], envs[n])
                /\ Layered(envs) = h[N]
<1> DEFINE S == Environments
           g == [x \in (1..N) \X S |-> Over(x[2], envs[x[1]])]
<1>1. \A a, b \in S : Over(a, b) \in S
  <2> TAKE a, b \in S
  <2>1. /\ DOMAIN a \cup DOMAIN b \in SUBSET STRING
        /\ \A k \in DOMAIN a : a[k] \in STRING
        /\ \A k \in DOMAIN b : b[k] \in STRING
    BY EnvironmentFacts
  <2>2. Over(a, b) \in [DOMAIN a \cup DOMAIN b -> STRING]
    BY <2>1 DEF Over
  <2> QED BY <2>1, <2>2, EnvironmentFacts
<1>2. NoVars \in S /\ Len(envs) = N
  BY EnvironmentFacts
<1> HIDE DEF S
<1>3. envs \in [1..N -> S]
  BY DEF S
<1>4. g \in [(1..N) \X S -> S]
  BY <1>1, <1>3
<1>5. \A n \in 1..N : \A a \in S : g[<<n, a>>] = Over(a, envs[n])
  OBVIOUS
<1> HIDE DEF g
<1>6. PICK f : Runs(N, S, NoVars, g, f)
  BY <1>2, <1>4, Iterates
<1>7. f \in [0..N -> S] /\ f[0] = NoVars /\ \A n \in 1..N : f[n] = Over(f[n - 1], envs[n])
  <2>1. f \in [0..N -> S] /\ f[0] = NoVars /\ \A n \in 1..N : f[n] = g[<<n, f[n - 1]>>]
    BY <1>6 DEF Runs
  <2>2. \A n \in 1..N : n - 1 \in 0..N
    OBVIOUS
  <2>3. \A n \in 1..N : f[n - 1] \in S
    BY <2>1, <2>2
  <2> QED BY <1>5, <2>1, <2>3
<1>8. f = LayeredLoop(envs, f)
  <2>1. \A n \in 0..N : n # 0 => n \in 1..N
    OBVIOUS
  <2>2. \A n \in 0..N : f[n] = IF n = 0 THEN NoVars ELSE Over(f[n - 1], envs[n])
    BY <1>7, <2>1
  <2>3. f = [n \in 0..N |-> f[n]]
    BY <1>7
  <2> QED BY <1>2, <2>2, <2>3 DEF LayeredLoop
<1> DEFINE h == CHOOSE k : k = LayeredLoop(envs, k)
<1>9. h = LayeredLoop(envs, h)
  BY <1>8, Zenon
<1>10. Layered(envs) = h[N]
  BY <1>2 DEF Layered, LayeredLoop
<1> HIDE DEF h
<1>11. /\ h = [n \in 0..N |-> h[n]] /\ h[0] = NoVars
       /\ \A n \in 1..N : h[n] = Over(h[n - 1], envs[n])
  <2>1. h = [n \in 0..N |-> IF n = 0 THEN NoVars ELSE Over(h[n - 1], envs[n])]
    BY <1>2, <1>9 DEF LayeredLoop
  <2>2. \A n \in 0..N : h[n] = IF n = 0 THEN NoVars ELSE Over(h[n - 1], envs[n])
    BY <2>1
  <2>3. \A n \in 1..N : n \in 0..N /\ n # 0
    OBVIOUS
  <2>4. 0 \in 0..N
    OBVIOUS
  <2>5. h = [n \in 0..N |-> h[n]]
    BY <2>1, <2>2
  <2> QED BY <2>2, <2>3, <2>4, <2>5
<1>12. \A n \in 0..N : h[n] \in S
  <2> DEFINE T == {n \in 0..N : h[n] \in S}
  <2>1. 0 \in T
    BY <1>2, <1>11
  <2>2. \A n \in 1..N : n - 1 \in T => n \in T
    <3> SUFFICES ASSUME NEW n \in 1..N, n - 1 \in T PROVE n \in T
      OBVIOUS
    <3>1. n \in 0..N /\ h[n - 1] \in S
      OBVIOUS
    <3>2. envs[n] \in S
      BY <1>3
    <3>3. h[n] = Over(h[n - 1], envs[n])
      BY <1>11
    <3>4. h[n] \in S
      BY <1>1, <3>1, <3>2, <3>3
    <3> QED BY <3>1, <3>4
  <2> HIDE DEF T
  <2>3. \A n \in 0..N : n \in T
    BY <2>1, <2>2, Induction
  <2> QED BY <2>3 DEF T
<1>13. h \in [0..N -> S]
  BY <1>11, <1>12
<1> QED BY <1>10, <1>11, <1>13 DEF S

FlatLoop(seqs, f) == [i \in 1..Len(seqs) |-> IF i = 1 THEN seqs[i] ELSE f[i - 1] \o seqs[i]]

Flat(seqs) == CHOOSE f : f = FlatLoop(seqs, f)

\* FlattenSeq puts one sequence behind the other.
LEMMA FlattenRuns ==
  ASSUME NEW N \in Nat, NEW seqs \in [1..N -> Seq(Pairs)]
  PROVE  \E h : /\ h \in [0..N -> Seq(Pairs)] /\ h[0] = <<>>
                /\ \A n \in 1..N : h[n] = h[n - 1] \o seqs[n]
                /\ FlattenSeq(seqs) = h[N]
<1> DEFINE P == Pairs
           S == Seq(P)
           g == [x \in (1..N) \X S |-> x[2] \o seqs[x[1]]]
<1> HIDE DEF P
<1>1. /\ \A a, b \in S : a \o b \in S
      /\ <<>> \in S /\ \A a \in S : <<>> \o a = a
  OBVIOUS
<1>2. Len(seqs) = N
  OBVIOUS
<1>3. seqs \in [1..N -> S]
  BY DEF P
<1> HIDE DEF S
<1>4. g \in [(1..N) \X S -> S]
  BY <1>1, <1>3
<1>5. \A n \in 1..N : \A a \in S : g[<<n, a>>] = a \o seqs[n]
  OBVIOUS
<1> HIDE DEF g
<1>6. PICK h : Runs(N, S, <<>>, g, h)
  BY <1>1, <1>4, Iterates
<1>7. h \in [0..N -> S] /\ h[0] = <<>> /\ \A n \in 1..N : h[n] = h[n - 1] \o seqs[n]
  <2>1. h \in [0..N -> S] /\ h[0] = <<>> /\ \A n \in 1..N : h[n] = g[<<n, h[n - 1]>>]
    BY <1>6 DEF Runs
  <2>2. \A n \in 1..N : n - 1 \in 0..N
    OBVIOUS
  <2>3. \A n \in 1..N : h[n - 1] \in S
    BY <2>1, <2>2
  <2> QED BY <1>5, <2>1, <2>3
<1>8. CASE N = 0
  <2>1. seqs = <<>> /\ FlattenSeq(seqs) = seqs
    BY <1>2, <1>8 DEF FlattenSeq
  <2> QED BY <1>7, <1>8, <2>1 DEF S, P
<1>9. CASE N # 0
  <2> DEFINE f == [n \in 1..N |-> h[n]]
  <2>1. f = FlatLoop(seqs, f)
    <3>1. ASSUME NEW n \in 1..N PROVE f[n] = IF n = 1 THEN seqs[n] ELSE f[n - 1] \o seqs[n]
      <4>1. CASE n = 1
        <5>1. h[n] = h[n - 1] \o seqs[n] /\ n - 1 = 0 /\ seqs[n] \in S
          BY <1>3, <1>7, <4>1
        <5>2. h[n] = <<>> \o seqs[n]
          BY <1>7, <5>1
        <5> QED BY <1>1, <4>1, <5>1, <5>2
      <4>2. CASE n # 1
        <5>1. n - 1 \in 1..N
          BY <4>2
        <5> QED BY <1>7, <4>2, <5>1
      <4> QED BY <4>1, <4>2
    <3>2. f = [n \in 1..N |-> f[n]]
      OBVIOUS
    <3> HIDE DEF f
    <3> QED BY <1>2, <3>1, <3>2 DEF FlatLoop
  <2> HIDE DEF f
  <2> DEFINE s == Flat(seqs)
  <2>2. s = FlatLoop(seqs, s)
    BY <2>1, Zenon DEF Flat
  <2>3. FlattenSeq(seqs) = s[N]
    BY <1>2, <1>9 DEF FlattenSeq, Flat, FlatLoop
  <2> HIDE DEF s
  <2>4. \A n \in 1..N : s[n] = IF n = 1 THEN seqs[n] ELSE s[n - 1] \o seqs[n]
    <3>1. s = [n \in 1..N |-> IF n = 1 THEN seqs[n] ELSE s[n - 1] \o seqs[n]]
      BY <1>2, <2>2 DEF FlatLoop
    <3> QED BY <3>1
  <2> DEFINE T == {n \in 0..N : n = 0 \/ s[n] = h[n]}
  <2>5. 0 \in T
    OBVIOUS
  <2>6. \A n \in 1..N : n - 1 \in T => n \in T
    <3> SUFFICES ASSUME NEW n \in 1..N, n - 1 \in T PROVE n \in T
      OBVIOUS
    <3>1. CASE n = 1
      <4>1. h[n] = h[n - 1] \o seqs[n] /\ n - 1 = 0 /\ seqs[n] \in S
        BY <1>3, <1>7, <3>1
      <4>2. h[n] = <<>> \o seqs[n] /\ s[n] = seqs[n]
        BY <1>7, <2>4, <3>1, <4>1
      <4> QED BY <1>1, <4>1, <4>2
    <3>2. CASE n # 1
      <4>1. n - 1 # 0 /\ n \in 0..N
        BY <3>2
      <4> QED BY <1>7, <2>4, <3>2, <4>1
    <3> QED BY <3>1, <3>2
  <2> HIDE DEF T
  <2>7. \A n \in 0..N : n \in T
    BY <2>5, <2>6, Induction
  <2>8. s[N] = h[N]
    BY <1>9, <2>7 DEF T
  <2> QED BY <1>7, <2>3, <2>8 DEF S, P
<1> QED BY <1>8, <1>9

\* Environments in layers are what is left of their assignments in a row.
LEMMA LayersLayOut ==
  ASSUME NEW N \in Nat, NEW envs \in [1..N -> Environments], NEW seqs \in [1..N -> Seq(Pairs)],
         \A n \in 1..N : LaysOut(envs[n], seqs[n])
  PROVE  /\ Layered(envs) \in Environments /\ FlattenSeq(seqs) \in Seq(Pairs)
         /\ LaysOut(Layered(envs), FlattenSeq(seqs))
<1>1. PICK e : /\ e \in [0..N -> Environments] /\ e[0] = NoVars
               /\ \A n \in 1..N : e[n] = Over(e[n - 1], envs[n])
               /\ Layered(envs) = e[N]
  BY LayeredRuns
<1>2. PICK s : /\ s \in [0..N -> Seq(Pairs)] /\ s[0] = <<>>
               /\ \A n \in 1..N : s[n] = s[n - 1] \o seqs[n]
               /\ FlattenSeq(seqs) = s[N]
  BY FlattenRuns
<1> DEFINE T == {n \in 0..N : LaysOut(e[n], s[n])}
           C == Seq(Pairs)
<1>3. 0 \in T
  <2>1. DOMAIN NoVars = {} /\ DOMAIN <<>> = {}
    BY EnvironmentFacts
  <2>2. LaysOut(NoVars, <<>>)
    BY <2>1 DEF LaysOut
  <2> QED BY <1>1, <1>2, <2>2
<1>4. \A n \in 1..N : n - 1 \in T => n \in T
  <2> SUFFICES ASSUME NEW n \in 1..N, n - 1 \in T PROVE n \in T
    OBVIOUS
  <2>1. n - 1 \in 0..N /\ n \in 0..N /\ LaysOut(e[n - 1], s[n - 1]) /\ LaysOut(envs[n], seqs[n])
    OBVIOUS
  <2>2. e[n - 1] \in Environments /\ envs[n] \in Environments /\ s[n - 1] \in C /\ seqs[n] \in C
    BY <1>1, <1>2, <2>1
  <2>3. LaysOut(Over(e[n - 1], envs[n]), s[n - 1] \o seqs[n])
    BY <2>1, <2>2, OverLays
  <2> QED BY <1>1, <1>2, <2>1, <2>3
<1> HIDE DEF T
<1>5. \A n \in 0..N : n \in T
  BY <1>3, <1>4, Induction
<1>6. N \in 0..N
  OBVIOUS
<1>7. LaysOut(e[N], s[N]) /\ e[N] \in Environments /\ s[N] \in C
  BY <1>1, <1>2, <1>5, <1>6 DEF T
<1> QED BY <1>1, <1>2, <1>7

\* What an environment holds, written down key by key.
LEMMA AssignmentsLay ==
  ASSUME NEW env \in Environments, IsFiniteSet(DOMAIN env)
  PROVE  AssignmentsOf(env) \in Seq(Pairs) /\ LaysOut(env, AssignmentsOf(env))
<1> DEFINE D == DOMAIN env
           N == Cardinality(D)
           keys == SetToSeq(D)
           s == AssignmentsOf(env)
<1>1. N \in Nat /\ ExistsBijection(1..N, D)
  BY FS_CardinalityType
<1> HIDE DEF N
<1>2. keys \in [1..N -> D] /\ IsInjective(keys)
  <2>1. PICK f \in Bijection(1..N, D) : TRUE
    BY <1>1 DEF ExistsBijection
  <2>2. f \in [1..N -> D] /\ IsInjective(f)
    BY <2>1 DEF Bijection, Injection
  <2>3. keys = CHOOSE f_1 \in [1..N -> D] : IsInjective(f_1)
    BY DEF SetToSeq, N
  <2> HIDE DEF keys
  <2> QED BY <2>2, <2>3
<1>3. keys \in Surjection(1..N, D)
  <2>1. IsFiniteSet(1..N) /\ Cardinality(1..N) = N
    <3>1. 1 \in Int /\ N \in Int
      BY <1>1
    <3> QED BY <1>1, <3>1, FS_Interval
  <2>2. keys \in Injection(1..N, D)
    BY <1>2 DEF Injection
  <2>3. Cardinality(D) = N /\ IsFiniteSet(D)
    BY DEF N
  <2> HIDE DEF keys, D
  <2> QED BY <2>1, <2>2, <2>3, FS_Injection
<1>4. \A k \in D : \E i \in 1..N : keys[i] = k
  BY <1>3 DEF Surjection
<1>5. s = [i \in 1..N |-> <<keys[i], env[keys[i]]>>]
  BY <1>2 DEF AssignmentsOf
<1>6. D \subseteq STRING /\ \A k \in D : env[k] \in STRING
  BY EnvironmentFacts
<1> HIDE DEF keys, s
<1>7. \A i \in 1..N : /\ s[i] \in Pairs /\ s[i][1] = keys[i] /\ s[i][2] = env[keys[i]]
                      /\ keys[i] \in D
  BY <1>2, <1>5, <1>6 DEF Pairs
<1>8. s \in Seq(Pairs) /\ DOMAIN s = 1..N
  <2> DEFINE T == Pairs
  <2> HIDE DEF T
  <2>1. s \in [1..N -> T]
    BY <1>5, <1>7 DEF T
  <2>2. s \in Seq(T) /\ DOMAIN s = 1..N
    BY <1>1, <2>1, SeqDef
  <2> QED BY <2>2 DEF T
<1>9. LaysOut(env, s)
  BY <1>4, <1>7, <1>8 DEF LaysOut
<1> QED BY <1>8, <1>9 DEF s

\* One assignment.
LEMMA OneAssignmentLays ==
  ASSUME NEW k \in STRING, NEW w \in STRING
  PROVE  LET e == [x \in {k} |-> w] s == <<<<k, w>>>>
         IN  e \in Environments /\ s \in Seq(Pairs) /\ LaysOut(e, s)
<1> DEFINE e == [x \in {k} |-> w]
           s == <<<<k, w>>>>
<1>1. e \in Environments
  <2>1. e \in [{k} -> STRING] /\ {k} \in SUBSET STRING
    OBVIOUS
  <2> HIDE DEF e
  <2> QED BY <2>1, EnvironmentFacts
<1>2. <<k, w>> \in Pairs
  BY DEF Pairs
<1>3. /\ s \in Seq(Pairs) /\ DOMAIN s = {1} /\ s[1][1] = k /\ s[1][2] = w
      /\ DOMAIN e = {k} /\ e[k] = w
  BY <1>2
<1> HIDE DEF e, s
<1>4. LaysOut(e, s)
  BY <1>3 DEF LaysOut
<1> QED BY <1>1, <1>3, <1>4 DEF e, s

\* No assignment.
LEMMA NoAssignmentLays == NoVars \in Environments /\ <<>> \in Seq(Pairs) /\ LaysOut(NoVars, <<>>)
<1>1. DOMAIN NoVars = {} /\ DOMAIN <<>> = {} /\ NoVars \in Environments
  BY EnvironmentFacts
<1>2. <<>> \in Seq(Pairs)
  OBVIOUS
<1> QED BY <1>1, <1>2 DEF LaysOut

\* A parsed env file is what its lines assign.
LEMMA ParsedLays ==
  ASSUME NEW lines \in Seq(EnvLines)
  PROVE  /\ Parsed(lines) \in Environments /\ AssignmentsInFile(lines) \in Seq(Pairs)
         /\ LaysOut(Parsed(lines), AssignmentsInFile(lines))
<1> DEFINE N == Len(lines)
           e(i) == IF lines[i].kind = "assign" THEN [k \in {lines[i].key} |-> lines[i].value] ELSE NoVars
           s(i) == IF lines[i].kind = "assign" THEN <<<<lines[i].key, lines[i].value>>>> ELSE <<>>
           envs == [i \in 1..N |-> e(i)]
           seqs == [i \in 1..N |-> s(i)]
<1>1. N \in Nat /\ DOMAIN lines = 1..N /\ \A i \in 1..N : lines[i] \in EnvLines
  <2> DEFINE T == EnvLines
  <2>1. lines \in Seq(T)
    OBVIOUS
  <2> HIDE DEF T
  <2>2. N \in Nat /\ DOMAIN lines = 1..N /\ \A i \in 1..N : lines[i] \in T
    BY <2>1
  <2> QED BY <2>2 DEF T
<1>2. Parsed(lines) = Layered(envs) /\ AssignmentsInFile(lines) = FlattenSeq(seqs)
  BY <1>1 DEF Parsed, AssignmentsInFile
<1>3. ASSUME NEW i \in 1..N
      PROVE  e(i) \in Environments /\ s(i) \in Seq(Pairs) /\ LaysOut(e(i), s(i))
  <2>1. CASE lines[i].kind = "assign"
    <3>1. lines[i].key \in STRING /\ lines[i].value \in STRING
      BY <1>1, <2>1 DEF EnvLines
    <3> QED BY <2>1, <3>1, OneAssignmentLays
  <2>2. CASE lines[i].kind # "assign"
    BY <2>2, NoAssignmentLays
  <2> QED BY <2>1, <2>2
<1> HIDE DEF e, s, N
<1>4. /\ envs \in [1..N -> Environments] /\ seqs \in [1..N -> Seq(Pairs)]
      /\ \A n \in 1..N : LaysOut(envs[n], seqs[n])
  BY <1>3
<1> HIDE DEF envs, seqs
<1>5. /\ Layered(envs) \in Environments /\ FlattenSeq(seqs) \in Seq(Pairs)
      /\ LaysOut(Layered(envs), FlattenSeq(seqs))
  BY <1>1, <1>4, LayersLayOut
<1> QED BY <1>2, <1>5

\* An environment of which nothing is invalid is kept whole.
LEMMA ValidIsWhole ==
  ASSUME NEW env \in Environments, NEW svc, EnvErrors(env, svc) = {}
  PROVE  ValidPart(env) = env
<1>1. ASSUME NEW k \in DOMAIN env
      PROVE  ValidKey(k) /\ ValidValue(env[k])
  <2> DEFINE B == {x \in DOMAIN env : ~ValidKey(x)}
             C == {x \in DOMAIN env : ValidKey(x) /\ ~ValidValue(env[x])}
  <2>1. {<<"InvalidEnvKey", svc, x>> : x \in B} = {} /\ {<<"NulInEnvValue", svc, x>> : x \in C} = {}
    BY DEF EnvErrors
  <2> HIDE DEF B, C
  <2>2. k \notin B /\ k \notin C
    BY <2>1
  <2> QED BY <2>2 DEF B, C
<1>2. {k \in DOMAIN env : ValidKey(k) /\ ValidValue(env[k])} = DOMAIN env
  BY <1>1
<1>3. env = [k \in DOMAIN env |-> env[k]]
  BY EnvironmentFacts
<1> QED BY <1>2, <1>3 DEF ValidPart

\* The lines that a path leads to are lines.
LEMMA LinesAreLines ==
  ASSUME IsDisk(disk), NEW dir, NEW value
  PROVE  Lines(disk, dir, value) \in Seq(EnvLines)
<1>1. <<[kind |-> "syntax"]>> \in Seq(EnvLines)
  <2>1. [kind |-> "syntax"] \in EnvLines
    BY DEF EnvLines
  <2> DEFINE x == [kind |-> "syntax"]
             T == EnvLines
  <2> HIDE DEF x, T
  <2>2. x \in T => <<x>> \in Seq(T)
    OBVIOUS
  <2> QED BY <2>1, <2>2 DEF x, T
<1>2. \A x \in DOMAIN disk.envs : disk.envs[x] \in Seq(EnvLines)
  BY DEF IsDisk
<1> QED BY <1>1, <1>2 DEF Lines

\* The env files, each of which can be read and holds nothing invalid, are what their
\* lines assign, file by file.
LEMMA FilesLay ==
  ASSUME IsDisk(disk), NEW dir, NEW files, NEW T, files \in Seq(T), NEW svc,
         EnvFileErrors(disk, dir, files, svc) = {}
  PROVE  /\ EnvOfFiles(disk, dir, files) \in Environments /\ AssignmentsIn(dir, files) \in Seq(Pairs)
         /\ LaysOut(EnvOfFiles(disk, dir, files), AssignmentsIn(dir, files))
<1> DEFINE N == Len(files)
           lines(i) == Lines(disk, dir, files[i])
           e(i) == IF ParseFails(lines(i)) THEN NoVars ELSE ValidPart(Parsed(lines(i)))
           s(i) == AssignmentsInFile(lines(i))
           envs == [i \in 1..N |-> e(i)]
           seqs == [i \in 1..N |-> s(i)]
<1>1. N \in Nat /\ DOMAIN files = 1..N
  OBVIOUS
<1>2. EnvOfFiles(disk, dir, files) = Layered(envs) /\ AssignmentsIn(dir, files) = FlattenSeq(seqs)
  BY <1>1 DEF EnvOfFiles, AssignmentsIn
<1>3. ASSUME NEW i \in 1..N
      PROVE  e(i) \in Environments /\ s(i) \in Seq(Pairs) /\ LaysOut(e(i), s(i))
  <2>1. ~ParseFails(lines(i)) /\ ValidPart(Parsed(lines(i))) = Parsed(lines(i))
    <3> DEFINE B == {j \in DOMAIN files : ParseFails(lines(j)) \/ ValidPart(Parsed(lines(j))) # Parsed(lines(j))}
    <3>1. EnvFileErrors(disk, dir, files, svc) = {<<"InvalidEnvFile", svc, files[j].word>> : j \in B}
      BY DEF EnvFileErrors
    <3> HIDE DEF B
    <3>2. B = {}
      BY <3>1
    <3> QED BY <1>1, <3>2 DEF B
  <2>2. lines(i) \in Seq(EnvLines)
    BY LinesAreLines
  <2> QED BY <2>1, <2>2, ParsedLays
<1> HIDE DEF lines, e, s, N
<1>4. /\ envs \in [1..N -> Environments] /\ seqs \in [1..N -> Seq(Pairs)]
      /\ \A n \in 1..N : LaysOut(envs[n], seqs[n])
  BY <1>3
<1> HIDE DEF envs, seqs
<1>5. /\ Layered(envs) \in Environments /\ FlattenSeq(seqs) \in Seq(Pairs)
      /\ LaysOut(Layered(envs), FlattenSeq(seqs))
  BY <1>1, <1>4, LayersLayOut
<1> QED BY <1>2, <1>5

\* The environment of a table of which nothing is invalid is what the table assigns.
LEMMA TableLays ==
  ASSUME NEW t, IsRawTable(t), NEW svc, EnvErrors(Plain(t.env), svc) = {}
  PROVE  LET env == Plain(t.env)
         IN  /\ ValidPart(env) = env /\ env \in Environments
             /\ AssignmentsOf(env) \in Seq(Pairs) /\ LaysOut(env, AssignmentsOf(env))
<1> DEFINE env == Plain(t.env)
           D == DOMAIN t.env
<1>1. D \subseteq STRING /\ IsFiniteSet(D) /\ \A k \in D : t.env[k].word \in STRING
  BY RawValueFacts DEF IsRawTable
<1>2. env \in [D -> STRING] /\ DOMAIN env = D
  BY <1>1 DEF Plain
<1> HIDE DEF env, D
<1>3. env \in Environments
  BY <1>1, <1>2, EnvironmentFacts
<1>4. AssignmentsOf(env) \in Seq(Pairs) /\ LaysOut(env, AssignmentsOf(env))
  BY <1>1, <1>2, <1>3, AssignmentsLay
<1>5. ValidPart(env) = env
  <2>1. EnvErrors(env, svc) = {}
    BY DEF env
  <2> QED BY <1>3, <2>1, ValidIsWhole
<1> QED BY <1>3, <1>4, <1>5 DEF env

\* A configuration without errors: every env file can be read, every key is one.
LEMMA NoEnvErrors ==
  ASSUME NEW d, NEW r, RawErrors(d, r) = {}
  PROVE  /\ EnvErrors(Plain(r.project.env), 0) = {}
         /\ EnvFileErrors(d, d.dir[d.root], List(r.project, "env_file"), 0) = {}
         /\ \A n \in DOMAIN r.services :
               /\ EnvErrors(Plain(r.services[n].env), n) = {}
               /\ EnvFileErrors(d, ServiceDir(d, r.services[n]), List(r.services[n], "env_file"), n) = {}
<1>1. ProjectErrors(d, r) = {}
  <2>1. ProjectErrors(d, r) \subseteq RawErrors(d, r)
    BY DEF RawErrors
  <2> QED BY <2>1
<1>2. /\ EnvErrors(Plain(r.project.env), 0) \subseteq ProjectErrors(d, r)
      /\ EnvFileErrors(d, d.dir[d.root], List(r.project, "env_file"), 0) \subseteq ProjectErrors(d, r)
  BY DEF ProjectErrors
<1>3. ASSUME NEW n \in DOMAIN r.services
      PROVE  /\ EnvErrors(Plain(r.services[n].env), n) = {}
             /\ EnvFileErrors(d, ServiceDir(d, r.services[n]), List(r.services[n], "env_file"), n) = {}
  <2>1. CommandFault(n, r.services[n]) = "none" /\ ServiceErrors(d, n, r.services[n]) = {}
    BY NoRawErrors
  <2>2. /\ EnvErrors(Plain(r.services[n].env), n) \subseteq ServiceErrors(d, n, r.services[n])
        /\ EnvFileErrors(d, ServiceDir(d, r.services[n]), List(r.services[n], "env_file"), n)
             \subseteq ServiceErrors(d, n, r.services[n])
    BY <2>1 DEF ServiceErrors
  <2> QED BY <2>1, <2>2
<1> QED BY <1>1, <1>2, <1>3

\* What a file gives for a list.
LEMMA ListFacts ==
  ASSUME NEW t, IsRawTable(t), NEW f
  PROVE  List(t, f) \in Seq(RawValues)
<1>1. <<>> \in Seq(RawValues)
  OBVIOUS
<1> QED BY <1>1 DEF List, IsRawTable

-----------------------------------------------------------------------------
(* The steps of a load. *)

\* What is being loaded is one of the cases.
InCases == \E i \in DOMAIN Cases : \E c \in Cases[i] : disk = c.disk /\ vars = c.vars

\* The raw model, while it is worked on, is a record of services that files declare.
RawIsRaw ==
  /\ raw = [version |-> raw.version, project |-> raw.project, services |-> raw.services]
  /\ pc \in {"expand", "validate", "sort", "loaded", "cyclic", "planned", "held"} => IsRaw(disk, raw.services)

\* Behind validate_raw: the services are the ones of a raw model without errors.
IsValid == RawErrors(disk, raw) = {} /\ config.services = ValidatedServices(disk, vars, raw)

ConfigIsValid ==
  /\ config = [services |-> config.services, order |-> config.order, warnings |-> config.warnings]
  /\ pc \in {"sort", "loaded", "cyclic", "planned", "held"} => IsValid

ConfigIsOrdered == pc \in {"loaded", "planned", "held"} => IsOrdered(Planned)

CycleIsFound ==
  pc = "cyclic" => LET graph == DepGraph(config.services)
                   IN  ~SortsCompletely(graph) /\ cycle = FindCycle(graph, Remaining(graph))

PlanIsMade ==
  pc \in {"planned", "held"} =>
     Roots(Planned, selection) \subseteq DOMAIN Planned.deps /\ plan = PlanStack(Planned, selection)

HeldIsMade == pc = "held" => held = WithDependents(Planned, plan, seeds)

SocketIsFound ==
  pc = "located" =>
     /\ disk.fs # <<>>
     /\ \E here \in Here : paths = <<here, ForConfig(disk.fs, here)>>
     /\ paths[2].rejections = 0

\* The inductive invariant: every step has left behind what its function returns.
Loading ==
  /\ InCases /\ RawIsRaw /\ ConfigIsValid /\ ConfigIsOrdered /\ CycleIsFound
  /\ PlanIsMade /\ HeldIsMade /\ SocketIsFound

\* What is being loaded is something that can be on disk.
LEMMA CaseFacts ==
  ASSUME InCases
  PROVE  /\ IsDisk(disk) /\ Words(vars)
         /\ disk.fs # <<>> => IsFileSystem(disk.fs) /\ \A here \in Here : Situated(disk.fs, here)
BY LoadAssumption DEF InCases, Words

\* A load begins with none of its steps made.
LEMMA LoadStarts == Init => Loading
BY DEF Init, Loading, InCases, RawIsRaw, ConfigIsValid, ConfigIsOrdered, CycleIsFound, PlanIsMade,
       HeldIsMade, SocketIsFound, NoConfig

\* Every step of a load leaves behind what its function returns.
LEMMA LoadGoesOn == Loading /\ [Next]_state => Loading'
<1> SUFFICES ASSUME Loading, [Next]_state PROVE Loading'
  OBVIOUS
<1> USE DEF Loading
<1>0. /\ IsDisk(disk) /\ Words(vars)
      /\ disk.fs # <<>> => IsFileSystem(disk.fs) /\ \A here \in Here : Situated(disk.fs, here)
  BY CaseFacts
<1>1. CASE Read
  <2>1. InCases'
    BY <1>1 DEF Read, InCases
  <2>2. pc' \in {"unread", "merge"} /\ UNCHANGED <<disk, vars, cycle, config, selection, plan, seeds, held, paths>>
    BY <1>1 DEF Read, Refuse
  <2>3. RawIsRaw'
    BY <1>1, <2>2 DEF Read, RawIsRaw
  <2> QED BY <2>1, <2>2, <2>3 DEF ConfigIsValid, ConfigIsOrdered, CycleIsFound, PlanIsMade, HeldIsMade, SocketIsFound
<1>2. CASE MergeIncludes
  <2>1. InCases'
    BY <1>2 DEF MergeIncludes, InCases
  <2>2. /\ pc' \in {"unmerged", "expand"}
        /\ UNCHANGED <<disk, vars, cycle, config, selection, plan, seeds, held, paths>>
    BY <1>2 DEF MergeIncludes, Refuse
  <2>3. RawIsRaw'
    <3> DEFINE s == Merge(disk, disk.root).services
    <3>1. IsRaw(disk, s)
      BY <1>0, MergeIsRaw
    <3>2. \/ pc' = "unmerged" /\ raw' = raw
          \/ raw' = [raw EXCEPT !.services = s]
      BY <1>2 DEF MergeIncludes, Refuse
    <3> HIDE DEF s
    <3> QED BY <2>2, <3>1, <3>2 DEF RawIsRaw
  <2> QED BY <2>1, <2>2, <2>3 DEF ConfigIsValid, ConfigIsOrdered, CycleIsFound, PlanIsMade, HeldIsMade, SocketIsFound
<1>3. CASE Expand
  <2>1. InCases'
    BY <1>3 DEF Expand, InCases
  <2>2. /\ pc = "expand" /\ pc' \in {"unexpanded", "validate"}
        /\ UNCHANGED <<disk, vars, cycle, config, selection, plan, seeds, held, paths>>
    BY <1>3 DEF Expand, Refuse
  <2>3. RawIsRaw'
    <3> DEFINE x == ExpandRaw(raw, vars)
    <3>1. /\ IsRaw(disk, x.services)
          /\ x = [version |-> x.version, project |-> x.project, services |-> x.services]
      BY <1>0, <2>2, ExpandKeepsRaw DEF RawIsRaw
    <3>2. \/ pc' = "unexpanded" /\ raw' = raw
          \/ raw' = x
      BY <1>3 DEF Expand, Refuse
    <3> HIDE DEF x
    <3> QED BY <2>2, <3>1, <3>2 DEF RawIsRaw
  <2> QED BY <2>1, <2>2, <2>3 DEF ConfigIsValid, ConfigIsOrdered, CycleIsFound, PlanIsMade, HeldIsMade, SocketIsFound
<1>4. CASE Validate
  <2>1. InCases'
    BY <1>4 DEF Validate, InCases
  <2>2. /\ pc = "validate" /\ pc' \in {"invalid", "sort"}
        /\ UNCHANGED <<disk, vars, raw, cycle, selection, plan, seeds, held, paths>>
    BY <1>4 DEF Validate, Refuse
  <2>3. RawIsRaw'
    BY <2>2 DEF RawIsRaw
  <2>4. ConfigIsValid'
    <3> DEFINE s == ValidatedServices(disk, vars, raw)
    <3>1. \/ pc' = "invalid" /\ config' = config
          \/ /\ RawErrors(disk, raw) = {}
             /\ \E w : config' = [services |-> s, order |-> <<>>, warnings |-> w]
      BY <1>4 DEF Validate, Refuse
    <3> HIDE DEF s
    <3>2. CASE pc' = "invalid" /\ config' = config
      BY <3>2 DEF ConfigIsValid
    <3>3. CASE RawErrors(disk, raw) = {} /\ \E w : config' = [services |-> s, order |-> <<>>, warnings |-> w]
      <4>1. config' = [services |-> config'.services, order |-> config'.order, warnings |-> config'.warnings]
            /\ config'.services = s
        BY <3>3
      <4> QED BY <2>2, <3>3, <4>1 DEF ConfigIsValid, IsValid, s
    <3> QED BY <3>1, <3>2, <3>3
  <2> QED BY <2>1, <2>2, <2>3, <2>4 DEF ConfigIsOrdered, CycleIsFound, PlanIsMade, HeldIsMade, SocketIsFound
<1>5. CASE Sort
  <2>1. InCases'
    BY <1>5 DEF Sort, InCases
  <2>2. /\ pc = "sort" /\ pc' \in {"loaded", "cyclic"}
        /\ UNCHANGED <<disk, vars, raw, selection, plan, seeds, held, paths>>
    BY <1>5 DEF Sort, Refuse
  <2> DEFINE graph == DepGraph(config.services)
             order == Kahn(graph).order
  <2>3. IsValid /\ IsGraph(graph)
    <3>1. IsValid /\ IsRaw(disk, raw.services)
      BY <2>2 DEF ConfigIsValid, RawIsRaw
    <3> QED BY <3>1, ValidatedGraph DEF IsValid
  <2>4. \/ /\ pc' = "loaded" /\ SortsCompletely(graph)
           /\ config' = [config EXCEPT !.order = order]
        \/ /\ pc' = "cyclic" /\ ~SortsCompletely(graph) /\ config' = config
           /\ cycle' = FindCycle(graph, Remaining(graph))
    BY <1>5 DEF Sort, Refuse
  <2>5. RawIsRaw'
    BY <2>2 DEF RawIsRaw
  <2> HIDE DEF graph, order
  <2>6. /\ config' = [services |-> config'.services, order |-> config'.order, warnings |-> config'.warnings]
        /\ config'.services = config.services
        /\ pc' = "loaded" => config'.order = order
    BY <2>4 DEF ConfigIsValid
  <2>7. ConfigIsValid'
    BY <2>2, <2>3, <2>6 DEF ConfigIsValid, IsValid
  <2>8. ConfigIsOrdered'
    <3> SUFFICES ASSUME pc' = "loaded" PROVE IsOrdered(Planned)'
      BY <2>2 DEF ConfigIsOrdered
    <3>1. Planned'.deps = DepGraph(config'.services) /\ Planned'.order = config'.order
      BY DEF Planned
    <3>2. Planned'.deps = graph /\ Planned'.order = order /\ SortsCompletely(graph)
      BY <2>4, <2>6, <3>1 DEF graph
    <3> QED BY <2>3, <3>2 DEF IsOrdered, order
  <2>9. CycleIsFound'
    BY <2>2, <2>4, <2>6 DEF CycleIsFound, graph
  <2> QED BY <2>1, <2>2, <2>5, <2>7, <2>8, <2>9 DEF PlanIsMade, HeldIsMade, SocketIsFound
<1>6. ASSUME NEW sel \in Selections, Select(sel) PROVE Loading'
  <2>1. InCases'
    BY <1>6 DEF Select, InCases
  <2>2. /\ pc = "loaded" /\ pc' \in {"unplanned", "planned"} /\ selection' = sel
        /\ UNCHANGED <<disk, vars, raw, cycle, config, seeds, held, paths>>
    BY <1>6 DEF Select, Refuse
  <2>3. RawIsRaw' /\ ConfigIsValid'
    BY <2>2 DEF RawIsRaw, ConfigIsValid, IsValid
  <2>4. Planned' = Planned
    BY <2>2 DEF Planned
  <2>5. ConfigIsOrdered'
    BY <2>2, <2>4 DEF ConfigIsOrdered
  <2>6. PlanIsMade'
    <3> SUFFICES ASSUME pc' = "planned"
                 PROVE  Roots(Planned, sel) \subseteq DOMAIN Planned.deps /\ plan' = PlanStack(Planned, sel)
      BY <2>2, <2>4 DEF PlanIsMade
    <3>1. PlanErrors(Planned, sel) = {} /\ plan' = PlanStack(Planned, sel)
      BY <1>6 DEF Select, Refuse
    <3>2. sel.services \subseteq DOMAIN Planned.deps
      BY <3>1 DEF PlanErrors
    <3>3. Roots(Planned, sel) \subseteq DOMAIN Planned.deps
      BY <3>2 DEF Roots
    <3> QED BY <3>1, <3>3
  <2> QED BY <2>1, <2>2, <2>3, <2>5, <2>6 DEF CycleIsFound, HeldIsMade, SocketIsFound
<1>7. ASSUME NEW stopped \in Stopped, HoldBack(stopped) PROVE Loading'
  <2>1. InCases'
    BY <1>7 DEF HoldBack, InCases
  <2>2. /\ pc = "planned" /\ pc' = "held" /\ seeds' = stopped /\ held' = WithDependents(Planned, plan, stopped)
        /\ UNCHANGED <<disk, vars, raw, errors, cycle, config, selection, plan, paths>>
    BY <1>7 DEF HoldBack
  <2>3. RawIsRaw' /\ ConfigIsValid'
    BY <2>2 DEF RawIsRaw, ConfigIsValid, IsValid
  <2>4. Planned' = Planned
    BY <2>2 DEF Planned
  <2>5. ConfigIsOrdered' /\ PlanIsMade' /\ HeldIsMade'
    BY <2>2, <2>4 DEF ConfigIsOrdered, PlanIsMade, HeldIsMade
  <2> QED BY <2>1, <2>2, <2>3, <2>5 DEF CycleIsFound, SocketIsFound
<1>8. ASSUME NEW here \in Here, Locate(here) PROVE Loading'
  <2>1. InCases'
    BY <1>8 DEF Locate, InCases
  <2>2. /\ pc = "loaded" /\ disk.fs # <<>> /\ pc' \in {"nowhere", "located"}
        /\ paths' = <<here, ForConfig(disk.fs, here)>>
        /\ pc' = "located" => paths'[2].rejections = 0
        /\ UNCHANGED <<disk, vars, raw, cycle, config, selection, plan, seeds, held>>
    BY <1>8 DEF Locate, Refuse
  <2>3. RawIsRaw' /\ ConfigIsValid'
    BY <2>2 DEF RawIsRaw, ConfigIsValid, IsValid
  <2>4. SocketIsFound'
    BY <2>2 DEF SocketIsFound
  <2> QED BY <2>1, <2>2, <2>3, <2>4 DEF ConfigIsOrdered, CycleIsFound, PlanIsMade, HeldIsMade
<1>9. CASE UNCHANGED state
  <2>1. Planned' = Planned
    BY <1>9 DEF state, Planned
  <2> QED BY <1>9, <2>1 DEF state, InCases, RawIsRaw, ConfigIsValid, IsValid, ConfigIsOrdered, CycleIsFound,
                           PlanIsMade, HeldIsMade, SocketIsFound
<1> QED BY <1>1, <1>2, <1>3, <1>4, <1>5, <1>6, <1>7, <1>8, <1>9 DEF Next

\* At every moment of a load, all that the steps before have made is what their
\* functions return for the case that is loaded.
THEOREM LoadInvariant == Spec => []Loading
BY LoadStarts, LoadGoesOn, PTL DEF Spec

-----------------------------------------------------------------------------
(* The theorems. *)

\* Behind its merge a load has what merge() returned, or was refused for its errors, and
\* behind its expansion it has that, expanded without an error, or was refused.
Merging ==
  LET l == Merge(disk, disk.root)
  IN  /\ pc = "merge" => raw.project = disk.project
      /\ pc = "expand" => l.errors = {} /\ raw.project = disk.project /\ raw.services = l.services
      /\ pc = "unmerged" => l.errors # {}
      /\ pc = "unexpanded" => /\ l.errors = {} /\ raw.project = disk.project /\ raw.services = l.services
                              /\ ExpandErrors(raw, vars) # {}
      /\ pc \in {"validate", "sort", "loaded"} =>
            /\ l.errors = {}
            /\ raw.project = ExpandTable(disk.project, vars)
            /\ raw.services = [n \in DOMAIN l.services |-> ExpandTable(l.services[n], vars)]
            /\ TableErrors(disk.project, 0, vars) = {}
            /\ \A n \in DOMAIN l.services : TableErrors(l.services[n], n, vars) = {}

RawIsRecord == raw = [version |-> raw.version, project |-> raw.project, services |-> raw.services]

\* The steps that read, merge and expand leave that behind, and the others keep it.
LEMMA MergingGoesOn == Merging /\ RawIsRecord /\ [Next]_state => Merging'
<1> SUFFICES ASSUME Merging, [Next]_state, RawIsRecord PROVE Merging'
  OBVIOUS
<1> DEFINE l == Merge(disk, disk.root)
<1>0. RawIsRecord
  OBVIOUS
<1>1. CASE Read
  <2>1. \/ pc' = "unread"
        \/ \E v : pc' = "merge" /\ raw' = [version |-> v, project |-> disk.project, services |-> <<>>]
    BY <1>1 DEF Read, Refuse
  <2>2. disk' = disk
    BY <1>1 DEF Read
  <2>3. pc' = "merge" => raw'.project = disk.project
    BY <2>1
  <2>4. pc' \in {"unread", "merge"}
    BY <2>1
  <2> QED BY <2>2, <2>3, <2>4 DEF Merging
<1>2. CASE MergeIncludes
  <2>1. \/ l.errors # {} /\ pc' = "unmerged"
        \/ l.errors = {} /\ pc' = "expand" /\ raw' = [raw EXCEPT !.services = l.services]
    BY <1>2 DEF MergeIncludes, Refuse
  <2>2. disk' = disk /\ raw.project = disk.project
    BY <1>2 DEF MergeIncludes, Merging
  <2> HIDE DEF l
  <2>3. pc' = "expand" => raw'.services = l.services /\ raw'.project = raw.project
    BY <1>0, <2>1 DEF RawIsRecord
  <2> QED BY <2>1, <2>2, <2>3 DEF Merging, l
<1>3. CASE Expand
  <2> DEFINE p == ExpandTable(raw.project, vars)
             s == [n \in DOMAIN raw.services |-> ExpandTable(raw.services[n], vars)]
  <2>1. \/ ExpandErrors(raw, vars) # {} /\ pc' = "unexpanded" /\ raw' = raw
        \/ ExpandErrors(raw, vars) = {} /\ pc' = "validate" /\ raw' = [raw EXCEPT !.project = p, !.services = s]
    BY <1>3 DEF Expand, Refuse, ExpandRaw
  <2>2. /\ disk' = disk /\ vars' = vars /\ l.errors = {}
        /\ raw.project = disk.project /\ raw.services = l.services
    BY <1>3 DEF Expand, Merging
  <2>3. CASE pc' = "unexpanded"
    <3> HIDE DEF l, p, s
    <3>1. raw' = raw /\ ExpandErrors(raw, vars) # {}
      BY <2>1, <2>3
    <3> QED BY <2>2, <2>3, <3>1 DEF Merging, l
  <2>4. CASE pc' = "validate"
    <3>1. TableErrors(raw.project, 0, vars) = {} /\ \A n \in DOMAIN raw.services : TableErrors(raw.services[n], n, vars) = {}
      <4>1. ExpandErrors(raw, vars) = {}
        BY <2>1, <2>4
      <4>2. /\ TableErrors(raw.project, 0, vars) \subseteq ExpandErrors(raw, vars)
            /\ \A n \in DOMAIN raw.services : TableErrors(raw.services[n], n, vars) \subseteq ExpandErrors(raw, vars)
        BY DEF ExpandErrors
      <4> QED BY <4>1, <4>2
    <3> HIDE DEF p, s, l
    <3>2. raw'.project = p /\ raw'.services = s
      BY <1>0, <2>1, <2>4 DEF RawIsRecord
    <3> QED BY <2>2, <2>4, <3>1, <3>2 DEF Merging, p, s, l
  <2> QED BY <2>1, <2>3, <2>4
<1>4. CASE Validate \/ Sort
  <2>1. /\ pc \in {"validate", "sort"} /\ pc' \notin {"merge", "expand", "unmerged", "unexpanded"}
        /\ disk' = disk /\ vars' = vars /\ raw' = raw
    BY <1>4 DEF Validate, Sort, Refuse
  <2> QED BY <2>1 DEF Merging
<1>5. ASSUME NEW sel \in Selections, Select(sel)
      PROVE  Merging'
  <2>1. pc' \in {"unplanned", "planned"}
    BY <1>5 DEF Select, Refuse
  <2> QED BY <2>1 DEF Merging
<1>6. ASSUME NEW stopped \in Stopped, HoldBack(stopped)
      PROVE  Merging'
  <2>1. pc' = "held"
    BY <1>6 DEF HoldBack
  <2> QED BY <2>1 DEF Merging
<1>7. ASSUME NEW here \in Here, Locate(here)
      PROVE  Merging'
  <2>1. pc' \in {"nowhere", "located"}
    BY <1>7 DEF Locate, Refuse
  <2> QED BY <2>1 DEF Merging
<1>8. CASE UNCHANGED state
  BY <1>8 DEF Merging, state
<1> QED BY <1>1, <1>2, <1>3, <1>4, <1>5, <1>6, <1>7, <1>8 DEF Next

\* The same, at every moment of a load.
LEMMA MergeInvariant == Spec => [](Merging /\ Loading)
<1>1. Init => Merging
  BY DEF Init, Merging
<1>2. Loading => RawIsRecord
  BY DEF Loading, RawIsRaw, RawIsRecord
<1>3. Merging /\ Loading /\ [Next]_state => Merging'
  BY <1>2, MergingGoesOn
<1> QED BY <1>1, <1>3, LoadInvariant, PTL DEF Spec

\* The files of a closure, as the invariants and as the walk say it.
LEMMA ClosureFacts ==
  ASSUME IsDisk(disk)
  PROVE  /\ Closure \in SUBSET DOMAIN disk.files /\ IsClosureOf(disk, Closure)
         /\ \A f \in DOMAIN disk.files : EntriesTo(f) = Towards(disk, Closure, f) /\ (IsFragment(f) <=> MayBe(disk, f))
<1> DEFINE F == DOMAIN disk.files
           S == Closure
<1>1. IsDisk(disk)
  OBVIOUS
<1>2. ASSUME NEW f \in F
      PROVE  /\ DOMAIN disk.files[f].include = 1..Len(Includes(disk, f))
             /\ {f} \X DOMAIN disk.files[f].include = EntriesOf(disk, f)
             /\ IncludedBy(f) = {Leads(disk, e) : e \in EntriesOf(disk, f)}
             /\ IsFragment(f) <=> MayBe(disk, f)
  <2>1. DOMAIN disk.files[f].include = 1..Len(Includes(disk, f))
    <3>1. disk.files[f].include \in Seq(DOMAIN disk.is)
      BY <1>1, DiskFacts
    <3> QED BY <3>1 DEF Includes
  <2>2. {f} \X DOMAIN disk.files[f].include = EntriesOf(disk, f)
    BY <2>1 DEF EntriesOf
  <2>3. IncludedBy(f) = {Leads(disk, e) : e \in EntriesOf(disk, f)}
    <3> DEFINE D == DOMAIN disk.files[f].include
               E == {f} \X D
    <3>1. IncludedBy(f) = {disk.is[disk.files[f].include[i]] : i \in D}
      BY DEF IncludedBy
    <3>2. \A e \in E : e[1] = f /\ e[2] \in D /\ Leads(disk, e) = disk.is[disk.files[f].include[e[2]]]
      BY DEF Leads, Includes
    <3>3. \A i \in D : <<f, i>> \in E /\ <<f, i>>[2] = i
      OBVIOUS
    <3> DEFINE t(i) == disk.is[disk.files[f].include[i]]
               u(e) == Leads(disk, e)
    <3>4. (\A e \in E : e[2] \in D /\ u(e) = t(e[2])) /\ \A i \in D : u(<<f, i>>) = t(i) /\ <<f, i>> \in E
      BY <3>2, <3>3
    <3> HIDE DEF D, E, t, u
    <3>5. \A x \in {t(i) : i \in D} : x \in {u(e) : e \in E}
      BY <3>4
    <3>6. \A x \in {u(e) : e \in E} : x \in {t(i) : i \in D}
      BY <3>4
    <3>7. {t(i) : i \in D} = {u(e) : e \in E}
      BY <3>5, <3>6
    <3> QED BY <2>2, <3>1, <3>7 DEF D, E, t, u
  <2>4. IsFragment(f) <=> MayBe(disk, f)
    BY DEF IsFragment, MayBe
  <2> QED BY <2>1, <2>2, <2>3, <2>4
<1>3. ASSUME NEW T \in SUBSET F
      PROVE  (Root \in T /\ \A f \in T : IncludedBy(f) \subseteq T) <=> HasIncludes(disk, T)
  BY <1>2 DEF HasIncludes, Root
<1>4. \A T \in SUBSET F : /\ Root \in T /\ \A f \in T : IncludedBy(f) \subseteq T
                          /\ \A U \in SUBSET T : (Root \in U /\ \A f \in U : IncludedBy(f) \subseteq U) => U = T
                       <=> IsClosureOf(disk, T)
  BY <1>3 DEF IsClosureOf
<1>5. Closure \in SUBSET F /\ IsClosureOf(disk, Closure)
  <2>1. PICK T \in SUBSET F : IsClosureOf(disk, T)
    BY <1>1, ClosureExists
  <2>2. /\ Root \in T /\ \A f \in T : IncludedBy(f) \subseteq T
        /\ \A U \in SUBSET T : (Root \in U /\ \A f \in U : IncludedBy(f) \subseteq U) => U = T
    BY <1>4, <2>1
  <2>3. /\ Closure \in SUBSET F
        /\ Root \in Closure /\ \A f \in Closure : IncludedBy(f) \subseteq Closure
        /\ \A U \in SUBSET Closure : (Root \in U /\ \A f \in U : IncludedBy(f) \subseteq U) => U = Closure
    BY <2>2 DEF Closure
  <2> QED BY <1>4, <2>3
<1>6. ASSUME NEW f \in F
      PROVE  EntriesTo(f) = Towards(disk, Closure, f)
  <2> DEFINE G == UNION {{g} \X DOMAIN disk.files[g].include : g \in S}
             H == UNION {EntriesOf(disk, g) : g \in S}
  <2>1. G = H
    BY <1>2, <1>5
  <2>2. EntriesTo(f) = {e \in G : Leads(disk, e) = f}
    BY DEF EntriesTo, Leads, Includes
  <2>3. Towards(disk, Closure, f) = {e \in H : Leads(disk, e) = f}
    BY DEF Towards
  <2> HIDE DEF G, H
  <2> QED BY <2>1, <2>2, <2>3
<1> QED BY <1>2, <1>5, <1>6

\* "Merging is not overriding: two files declaring the same service is an error"
\* (include.rs): a configuration is put together when its includes form a tree of
\* fragments that declare different services, and only then; it has the services that
\* the files of the tree declare, each with the file it is from.
THEOREM IncludesExact == Spec => []IncludesAreExact
<1>1. ASSUME Merging, Loading
      PROVE  IncludesAreExact
  <2> DEFINE F == DOMAIN disk.files
             S == Closure
  <2>1. IsDisk(disk)
    BY <1>1, CaseFacts DEF Loading
  <2>2. /\ S \in SUBSET F /\ IsClosureOf(disk, S)
        /\ \A f \in F : EntriesTo(f) = Towards(disk, S, f) /\ (IsFragment(f) <=> MayBe(disk, f))
    BY <2>1, ClosureFacts
  <2> DEFINE tree == \A f \in S :
                       /\ Cardinality(EntriesTo(f)) = IF f = Root THEN 0 ELSE 1
                       /\ f # Root => IsFragment(f)
                       /\ \A g \in S \ {f} : DOMAIN disk.files[f].services \cap DOMAIN disk.files[g].services = {}
             l == Merge(disk, disk.root)
  <2>3. tree <=> IsTree(disk, S)
    <3>1. \A f \in S : f \in F
      BY <2>2
    <3>2. \A f : Declares(disk, f) = DOMAIN disk.files[f].services
      BY DEF Declares
    <3>3. \A f \in S : EntriesTo(f) = Towards(disk, S, f) /\ (IsFragment(f) <=> MayBe(disk, f))
      BY <2>2, <3>1
    <3> HIDE DEF S, F
    <3> QED BY <3>2, <3>3 DEF IsTree, Root
  <2>4. /\ l.errors = {} => /\ IsTree(disk, S)
                            /\ DOMAIN l.services = UNION {Declares(disk, f) : f \in S}
                            /\ \A n \in DOMAIN l.services : IsFrom(disk, n, l.services[n])
        /\ l.errors # {} => ~IsTree(disk, S)
    BY <2>1, <2>2, MergeEnds
  <2>5. /\ pc = "expand" => l.errors = {} /\ raw.services = l.services
        /\ pc = "unmerged" => l.errors # {}
    BY <1>1 DEF Merging
  <2>6. IncludesAreExact <=>
             /\ pc = "expand" => /\ tree
                                 /\ DOMAIN raw.services = UNION {DOMAIN disk.files[f].services : f \in S}
                                 /\ \A n \in DOMAIN raw.services :
                                        n \in DOMAIN disk.files[disk.is[raw.services[n].origin]].services
             /\ pc = "unmerged" => ~tree
    BY DEF IncludesAreExact
  <2>7. /\ \A f : Declares(disk, f) = DOMAIN disk.files[f].services
        /\ UNION {Declares(disk, f) : f \in S} = UNION {DOMAIN disk.files[f].services : f \in S}
    BY DEF Declares
  <2> HIDE DEF tree, l, S
  <2> QED BY <2>3, <2>4, <2>5, <2>6, <2>7 DEF IsFrom
<1>2. Merging /\ Loading => IncludesAreExact
  BY <1>1
<1> QED BY <1>2, MergeInvariant, PTL

\* A service of a tree is the one that its file declares.
LEMMA SourceIsDeclared ==
  ASSUME IsDisk(disk), Merge(disk, disk.root).errors = {},
         NEW n \in DOMAIN Merge(disk, disk.root).services
  PROVE  LET s == Merge(disk, disk.root).services[n]
         IN  /\ n # 0 /\ IsRawTable(Source(n)) /\ IsRawService(s)
             /\ s.texts = Source(n).texts /\ s.lists = Source(n).lists /\ s.env = Source(n).env
<1> DEFINE l == Merge(disk, disk.root)
           s == l.services[n]
           o == disk.is[s.origin]
           src == disk.files[o].services[n]
<1>2. Closure \in SUBSET DOMAIN disk.files /\ IsClosureOf(disk, Closure)
  BY ClosureFacts
<1>3. IsTree(disk, Closure) /\ o \in Closure /\ IsFrom(disk, n, s)
  BY <1>2, MergeEnds
<1>4. n \in DOMAIN disk.files[o].services /\ s = [src EXCEPT !.origin = s.origin]
  BY <1>3 DEF IsFrom, Declares
<1>5. (CHOOSE f \in Closure : n \in DOMAIN disk.files[f].services) = o
  <2>1. \A f \in Closure : n \in DOMAIN disk.files[f].services => f = o
    <3> SUFFICES ASSUME NEW f \in Closure, n \in DOMAIN disk.files[f].services, f # o PROVE FALSE
      OBVIOUS
    <3>1. Declares(disk, f) \cap Declares(disk, o) = {}
      BY <1>3 DEF IsTree
    <3> QED BY <1>4, <3>1 DEF Declares
  <2> HIDE DEF o
  <2> QED BY <1>3, <1>4, <2>1
<1>6. Source(n) = src
  BY <1>5 DEF Source
<1>7. IsRawService(src) /\ n \in Nat \ {0}
  BY <1>2, <1>3, <1>4 DEF IsDisk
<1> HIDE DEF src, o, l
<1> DEFINE p == s.origin
<1>8. IsRawService(s) /\ s.texts = src.texts /\ s.lists = src.lists /\ s.env = src.env
  <2> HIDE DEF s
  <2>1. s = [src EXCEPT !.origin = p]
    BY <1>4
  <2> HIDE DEF p
  <2> QED BY <1>7, <2>1, OriginWritten
<1>9. IsRawTable(src)
  BY <1>7 DEF IsRawService
<1>10. n # 0
  BY <1>7
<1> QED BY <1>6, <1>8, <1>9, <1>10 DEF l

\* A service that is checked is the one that its file declares, expanded.
LEMMA SourceIsExpanded ==
  ASSUME Merging, IsDisk(disk), Words(vars), pc = "validate", NEW n \in DOMAIN raw.services
  PROVE  /\ IsRawTable(Source(n)) /\ n # 0
         /\ TableErrors(Source(n), n, vars) = {}
         /\ IsExpansion(Source(n), raw.services[n], vars)
<1> DEFINE l == Merge(disk, disk.root)
           s == l.services[n]
           src == Source(n)
<1>1. /\ l.errors = {} /\ DOMAIN raw.services = DOMAIN l.services
      /\ raw.services[n] = ExpandTable(s, vars) /\ TableErrors(s, n, vars) = {}
  BY DEF Merging
<1>2. /\ n # 0 /\ IsRawTable(src) /\ IsRawService(s)
      /\ s.texts = src.texts /\ s.lists = src.lists /\ s.env = src.env
  BY <1>1, SourceIsDeclared
<1> HIDE DEF s, src
<1>3. IsExpansion(s, ExpandTable(s, vars), vars)
  BY <1>2, ExpandedIsRaw
<1>4. IsExpansion(src, raw.services[n], vars)
  BY <1>1, <1>2, <1>3 DEF IsExpansion
<1>5. TableErrors(src, n, vars) = {}
  BY <1>1, <1>2 DEF TableErrors
<1> QED BY <1>2, <1>4, <1>5 DEF src

\* An unset variable is an error (subst.rs), and every value of the files has a place in
\* what is checked.
LEMMA AllResolved ==
  ASSUME Merging, Loading, pc = "validate"
  PROVE  ReferencesAreResolved
<1> DEFINE N == DOMAIN raw.services
           declared == [n \in N |-> Source(n)]
           P == Places(disk.project, declared)
<1>0. IsDisk(disk) /\ Words(vars)
  BY CaseFacts DEF Loading
<1>1. Becomes(disk.project, raw.project)
  <2>1. raw.project = ExpandTable(disk.project, vars) /\ TableErrors(disk.project, 0, vars) = {}
    BY DEF Merging
  <2>2. IsRawProject(disk.project)
    BY <1>0 DEF IsDisk
  <2>3. IsExpansion(disk.project, raw.project, vars) /\ IsRawTable(disk.project)
    BY <1>0, <2>1, <2>2, ExpandedProjectIsRaw DEF IsRawProject
  <2> QED BY <2>1, <2>3, TableResolves
<1>2. ASSUME NEW n \in N PROVE n # 0 /\ Becomes(declared[n], raw.services[n])
  <2>1. declared[n] = Source(n)
    OBVIOUS
  <2> QED BY <1>0, <2>1, SourceIsExpanded, TableResolves
<1>3. ASSUME NEW p \in P
      PROVE  Stands(ValueAt(disk.project, declared, p), ValueAt(raw.project, raw.services, p))
  <2>0. DOMAIN declared = N
    OBVIOUS
  <2> HIDE DEF declared
  <2> DEFINE tables == {<<0, disk.project>>} \cup {<<n, declared[n]>> : n \in N}
  <2>1. PICK t \in tables :
           p \in {<<t[1], "text", f, 0>> : f \in DOMAIN t[2].texts}
                 \cup (UNION {{<<t[1], "list", f, i>> : i \in DOMAIN t[2].lists[f]} : f \in DOMAIN t[2].lists})
                 \cup {<<t[1], "env", k, 0>> : k \in DOMAIN t[2].env}
    BY <2>0 DEF Places
  <2> DEFINE x == IF t[1] = 0 THEN raw.project ELSE raw.services[t[1]]
             s == t[2]
  <2>2. /\ Becomes(s, x)
        /\ s = IF t[1] = 0 THEN disk.project ELSE declared[t[1]]
    <3>1. CASE t = <<0, disk.project>>
      BY <1>1, <3>1
    <3>2. ASSUME NEW n \in N, t = <<n, declared[n]>> PROVE Becomes(s, x) /\ s = IF t[1] = 0 THEN disk.project ELSE declared[t[1]]
      BY <1>2, <3>2
    <3> QED BY <3>1, <3>2
  <2> DEFINE k == t[1]
  <2>3. /\ p[1] = k => ValueAt(raw.project, raw.services, p) =
               CASE p[2] = "text" -> x.texts[p[3]] [] p[2] = "list" -> x.lists[p[3]][p[4]] [] OTHER -> x.env[p[3]]
        /\ p[1] = k => ValueAt(disk.project, declared, p) =
               CASE p[2] = "text" -> s.texts[p[3]] [] p[2] = "list" -> s.lists[p[3]][p[4]] [] OTHER -> s.env[p[3]]
    BY <2>2 DEF ValueAt
  <2> HIDE DEF x, s, k, tables, P
  <2>4. \/ \E f \in DOMAIN s.texts : p = <<k, "text", f, 0>>
        \/ \E f \in DOMAIN s.lists : \E i \in DOMAIN s.lists[f] : p = <<k, "list", f, i>>
        \/ \E f \in DOMAIN s.env : p = <<k, "env", f, 0>>
    BY <2>1 DEF s, k
  <2>5. ASSUME NEW f \in DOMAIN s.texts, p = <<k, "text", f, 0>>
        PROVE  Stands(ValueAt(disk.project, declared, p), ValueAt(raw.project, raw.services, p))
    <3>1. p[1] = k /\ p[2] = "text" /\ p[3] = f
      BY <2>5
    <3>2. ValueAt(raw.project, raw.services, p) = x.texts[f] /\ ValueAt(disk.project, declared, p) = s.texts[f]
      BY <2>3, <3>1
    <3> QED BY <2>2, <3>2 DEF Becomes
  <2>6. ASSUME NEW f \in DOMAIN s.lists, NEW i \in DOMAIN s.lists[f], p = <<k, "list", f, i>>
        PROVE  Stands(ValueAt(disk.project, declared, p), ValueAt(raw.project, raw.services, p))
    <3>1. p[1] = k /\ p[2] = "list" /\ p[3] = f /\ p[4] = i
      BY <2>6
    <3>2. ValueAt(raw.project, raw.services, p) = x.lists[f][i] /\ ValueAt(disk.project, declared, p) = s.lists[f][i]
      BY <2>3, <3>1
    <3> QED BY <2>2, <3>2 DEF Becomes
  <2>7. ASSUME NEW f \in DOMAIN s.env, p = <<k, "env", f, 0>>
        PROVE  Stands(ValueAt(disk.project, declared, p), ValueAt(raw.project, raw.services, p))
    <3>1. p[1] = k /\ p[2] = "env" /\ p[3] = f
      BY <2>7
    <3>2. ValueAt(raw.project, raw.services, p) = x.env[f] /\ ValueAt(disk.project, declared, p) = s.env[f]
      BY <2>3, <3>1
    <3> QED BY <2>2, <3>2 DEF Becomes
  <2> QED BY <2>4, <2>5, <2>6, <2>7
<1>4. ReferencesAreResolved <=>
        \A p \in P : LET value == ValueAt(raw.project, raw.services, p)
                     IN  value.pieces = <<>> /\ Means(ValueAt(disk.project, declared, p), value.word)
  BY DEF ReferencesAreResolved
<1> HIDE DEF P, declared
<1> QED BY <1>3, <1>4 DEF Stands

\* A table without a value that is at fault.
IsWhole(t) ==
  /\ \A f \in DOMAIN t.texts : ~IsFaulty(t.texts[f])
  /\ \A f \in DOMAIN t.lists : \A i \in DOMAIN t.lists[f] : ~IsFaulty(t.lists[f][i])
  /\ \A k \in DOMAIN t.env : ~IsFaulty(t.env[k])

\* Only a value that is at fault gives an error.
LEMMA WholeTables ==
  ASSUME NEW t, IsRawTable(t), NEW svc, IsWhole(t)
  PROVE  TableErrors(t, svc, vars) = {}
<1>1. \A f \in DOMAIN t.texts : SubstErrors(t.texts[f], svc, f, vars) = {}
  <2> TAKE f \in DOMAIN t.texts
  <2>1. t.texts[f] \in RawValues /\ ~IsFaulty(t.texts[f])
    BY DEF IsRawTable, IsWhole
  <2> QED BY <2>1, ValueFails
<1>2. \A f \in DOMAIN t.lists : AllErrors(t.lists[f], svc, f, vars) = {}
  <2> TAKE f \in DOMAIN t.lists
  <2> DEFINE s == t.lists[f]
  <2>1. s \in Seq(RawValues) /\ \A i \in DOMAIN s : ~IsFaulty(s[i])
    BY DEF IsRawTable, IsWhole
  <2> HIDE DEF s
  <2>2. \A i \in DOMAIN s : s[i] \in RawValues
    BY <2>1
  <2>3. \A i \in DOMAIN s : SubstErrors(s[i], svc, f, vars) = {}
    BY <2>1, <2>2, ValueFails
  <2> QED BY <2>3 DEF AllErrors, s
<1>3. AllErrors(t.env, svc, "env", vars) = {}
  <2>1. \A k \in DOMAIN t.env : t.env[k] \in RawValues /\ ~IsFaulty(t.env[k])
    BY DEF IsRawTable, IsWhole
  <2>2. \A k \in DOMAIN t.env : SubstErrors(t.env[k], svc, "env", vars) = {}
    BY <2>1, ValueFails
  <2> QED BY <2>2 DEF AllErrors
<1> QED BY <1>1, <1>2, <1>3 DEF TableErrors

\* A configuration is turned down for a value of its files that is at fault.
LEMMA RefusedForAFault ==
  ASSUME Merging, Loading, pc = "unexpanded"
  PROVE  ReferencesAreResolved
<1> DEFINE N == DOMAIN raw.services
           declared == [n \in N |-> Source(n)]
           P == Places(disk.project, declared)
           l == Merge(disk, disk.root)
<1>0. IsDisk(disk) /\ l.errors = {} /\ raw.project = disk.project /\ raw.services = l.services
  BY CaseFacts DEF Loading, Merging
<1>1. IsRawTable(disk.project)
  BY <1>0 DEF IsDisk, IsRawProject
<1>2. \A n \in N : /\ n # 0 /\ IsRawTable(declared[n])
                   /\ TableErrors(raw.services[n], n, vars) = TableErrors(declared[n], n, vars)
  <2> TAKE n \in N
  <2> DEFINE s == l.services[n] src == Source(n)
  <2>1. /\ n # 0 /\ IsRawTable(src)
        /\ s.texts = src.texts /\ s.lists = src.lists /\ s.env = src.env
    BY <1>0, SourceIsDeclared
  <2>2. declared[n] = src /\ raw.services[n] = s
    BY <1>0
  <2> HIDE DEF s, src, declared
  <2> QED BY <2>1, <2>2 DEF TableErrors
<1>3. DOMAIN declared = N
  OBVIOUS
<1>4. ReferencesAreResolved <=> \E p \in P : IsFaulty(ValueAt(disk.project, declared, p))
  BY DEF ReferencesAreResolved
<1> SUFFICES ASSUME \A p \in P : ~IsFaulty(ValueAt(disk.project, declared, p)) PROVE FALSE
  BY <1>4
<1> HIDE DEF declared, N, l
<1>5. ASSUME NEW k, NEW t, <<k, t>> \in {<<0, disk.project>>} \cup {<<n, declared[n]>> : n \in N},
             t = IF k = 0 THEN disk.project ELSE declared[k]
      PROVE  IsWhole(t)
  <2> DEFINE tables == {<<0, disk.project>>} \cup {<<n, declared[n]>> : n \in N}
             x == <<k, t>>
  <2>1. x \in tables /\ x[1] = k /\ x[2] = t
    BY <1>5
  <2> DEFINE spots(y) == {<<y[1], "text", f, 0>> : f \in DOMAIN y[2].texts}
                         \cup (UNION {{<<y[1], "list", f, i>> : i \in DOMAIN y[2].lists[f]} : f \in DOMAIN y[2].lists})
                         \cup {<<y[1], "env", f, 0>> : f \in DOMAIN y[2].env}
             places == spots(x)
  <2>2. places \subseteq P
    <3>1. P = UNION {spots(y) : y \in {<<0, disk.project>>} \cup {<<n, declared[n]>> : n \in DOMAIN declared}}
      BY DEF Places
    <3>2. P = UNION {spots(y) : y \in tables}
      BY <1>3, <3>1
    <3> HIDE DEF P, tables, x, spots
    <3> QED BY <2>1, <3>2
  <2> HIDE DEF P, tables, x
  <2>3. /\ \A f \in DOMAIN t.texts : <<k, "text", f, 0>> \in P
        /\ \A f \in DOMAIN t.lists : \A i \in DOMAIN t.lists[f] : <<k, "list", f, i>> \in P
        /\ \A f \in DOMAIN t.env : <<k, "env", f, 0>> \in P
    BY <2>1, <2>2
  <2>4. \A p : p[1] = k => ValueAt(disk.project, declared, p) =
               CASE p[2] = "text" -> t.texts[p[3]] [] p[2] = "list" -> t.lists[p[3]][p[4]] [] OTHER -> t.env[p[3]]
    BY <1>5 DEF ValueAt
  <2>5. ASSUME NEW f \in DOMAIN t.texts PROVE ~IsFaulty(t.texts[f])
    <3> DEFINE p == <<k, "text", f, 0>>
    <3>1. p[1] = k /\ p[2] = "text" /\ p[3] = f /\ p \in P
      BY <2>3
    <3> HIDE DEF p
    <3> QED BY <2>4, <3>1
  <2>6. ASSUME NEW f \in DOMAIN t.lists, NEW i \in DOMAIN t.lists[f] PROVE ~IsFaulty(t.lists[f][i])
    <3> DEFINE p == <<k, "list", f, i>>
    <3>1. p[1] = k /\ p[2] = "list" /\ p[3] = f /\ p[4] = i /\ p \in P
      BY <2>3
    <3> HIDE DEF p
    <3> QED BY <2>4, <3>1
  <2>7. ASSUME NEW f \in DOMAIN t.env PROVE ~IsFaulty(t.env[f])
    <3> DEFINE p == <<k, "env", f, 0>>
    <3>1. p[1] = k /\ p[2] = "env" /\ p[3] = f /\ p \in P
      BY <2>3
    <3> HIDE DEF p
    <3> QED BY <2>4, <3>1
  <2> QED BY <2>5, <2>6, <2>7 DEF IsWhole
<1> HIDE DEF P
<1>6. TableErrors(raw.project, 0, vars) = {}
  <2>1. IsWhole(disk.project)
    BY <1>5
  <2> QED BY <1>0, <1>1, <2>1, WholeTables
<1>7. \A n \in N : TableErrors(raw.services[n], n, vars) = {}
  <2> TAKE n \in N
  <2>1. IsWhole(declared[n])
    BY <1>2, <1>5
  <2> QED BY <1>2, <2>1, WholeTables
<1>8. ExpandErrors(raw, vars) = {}
  BY <1>6, <1>7 DEF ExpandErrors, N
<1> QED BY <1>8 DEF Merging

\* What the process environment is.
LEMMA VarsAreWords ==
  ASSUME InCases
  PROVE  vars \in Environments /\ IsFiniteSet(DOMAIN vars)
<1>1. /\ vars \in [DOMAIN vars -> STRING]
      /\ DOMAIN vars \subseteq STRING /\ IsFiniteSet(DOMAIN vars)
  BY LoadAssumption DEF InCases
<1> QED BY <1>1, EnvironmentFacts

\* "Merge environment, later layers override earlier ones" (validation.rs).
LEMMA EnvironmentsLayer ==
  ASSUME Merging, Loading, pc = "loaded", NEW n \in DOMAIN config.services
  PROVE  LaysOut(config.services[n].env, Assignments(n))
<1> DEFINE project == raw.project
           svc == raw.services[n]
           rootDir == disk.dir[disk.root]
           e1 == vars
           e2 == EnvOfFiles(disk, rootDir, List(project, "env_file"))
           e3 == Plain(project.env)
           e4 == EnvOfFiles(disk, disk.dir[svc.origin], List(svc, "env_file"))
           e5 == Plain(svc.env)
           s1 == AssignmentsOf(vars)
           s2 == AssignmentsIn(rootDir, List(project, "env_file"))
           s3 == AssignmentsOf(e3)
           s4 == AssignmentsIn(disk.dir[svc.origin], List(svc, "env_file"))
           s5 == AssignmentsOf(e5)
<1>0. IsDisk(disk) /\ Words(vars) /\ vars \in Environments /\ IsFiniteSet(DOMAIN vars)
  BY CaseFacts, VarsAreWords DEF Loading
<1>1. RawErrors(disk, raw) = {} /\ config.services = ValidatedServices(disk, vars, raw) /\ IsRaw(disk, raw.services)
  BY DEF Loading, ConfigIsValid, IsValid, RawIsRaw
<1>2. n \in DOMAIN raw.services /\ config.services[n] = Validated(disk, vars, project, n, svc)
  <2>1. DOMAIN config.services = DOMAIN raw.services
    BY <1>1, ValidatedFacts
  <2> QED BY <1>1, <2>1, ValidatedFacts
<1>3. IsRawTable(project)
  <2>1. IsRawProject(disk.project) /\ project = ExpandTable(disk.project, vars)
    BY <1>0 DEF IsDisk, Merging
  <2>2. IsRawProject(ExpandTable(disk.project, vars))
    BY <1>0, <2>1, ExpandedProjectIsRaw
  <2> QED BY <2>1, <2>2 DEF IsRawProject
<1>4. IsRawTable(svc)
  BY <1>1, <1>2 DEF IsRaw, IsRawService
<1>5. /\ EnvErrors(e3, 0) = {} /\ EnvFileErrors(disk, rootDir, List(project, "env_file"), 0) = {}
      /\ EnvErrors(e5, n) = {} /\ EnvFileErrors(disk, disk.dir[svc.origin], List(svc, "env_file"), n) = {}
  BY <1>1, <1>2, NoEnvErrors DEF ServiceDir
<1>6. e1 \in Environments /\ s1 \in Seq(Pairs) /\ LaysOut(e1, s1)
  BY <1>0, AssignmentsLay
<1>7. e2 \in Environments /\ s2 \in Seq(Pairs) /\ LaysOut(e2, s2)
  <2>1. List(project, "env_file") \in Seq(RawValues)
    BY <1>3, ListFacts
  <2> QED BY <1>0, <1>5, <2>1, FilesLay
<1>8. e3 \in Environments /\ s3 \in Seq(Pairs) /\ LaysOut(e3, s3) /\ ValidPart(e3) = e3
  BY <1>3, <1>5, TableLays
<1>9. e4 \in Environments /\ s4 \in Seq(Pairs) /\ LaysOut(e4, s4)
  <2>1. List(svc, "env_file") \in Seq(RawValues)
    BY <1>4, ListFacts
  <2> QED BY <1>0, <1>5, <2>1, FilesLay
<1>10. e5 \in Environments /\ s5 \in Seq(Pairs) /\ LaysOut(e5, s5) /\ ValidPart(e5) = e5
  BY <1>4, <1>5, TableLays
<1>11. config.services[n].env = Layered(<<e1, e2, e3, e4, e5>>)
  <2>1. config.services[n].env = MergedEnv(vars, e2, ValidPart(e3), e4, ValidPart(e5))
    BY <1>2 DEF Validated, ServiceDir
  <2> QED BY <1>8, <1>10, <2>1 DEF MergedEnv
<1>12. Assignments(n) = FlattenSeq(<<s1, s2, s3, s4, s5>>)
  BY DEF Assignments
<1> HIDE DEF e1, e2, e3, e4, e5, s1, s2, s3, s4, s5, project, svc, rootDir
<1> DEFINE envs == <<e1, e2, e3, e4, e5>>
           seqs == <<s1, s2, s3, s4, s5>>
<1>13. envs \in [1..5 -> Environments]
  BY <1>6, <1>7, <1>8, <1>9, <1>10
<1>14. seqs \in [1..5 -> Seq(Pairs)]
  BY <1>6, <1>7, <1>8, <1>9, <1>10
<1>15. \A i \in 1..5 : LaysOut(envs[i], seqs[i])
  <2>1. \A i \in 1..5 : i = 1 \/ i = 2 \/ i = 3 \/ i = 4 \/ i = 5
    OBVIOUS
  <2> QED BY <1>6, <1>7, <1>8, <1>9, <1>10, <2>1
<1> HIDE DEF envs, seqs
<1>16. LaysOut(Layered(envs), FlattenSeq(seqs))
  BY <1>13, <1>14, <1>15, LayersLayOut
<1> QED BY <1>11, <1>12, <1>16 DEF envs, seqs

\* "An unset variable is an error, not an empty string" (subst.rs) and "later layers
\* override earlier ones" (validation.rs): whatever is on disk and in the process
\* environment, a configuration that is checked holds no reference and every value of
\* the files as the table of subst.rs says, defaults in defaults included, one that is
\* turned down for its values has one that the table has no text for, and a loaded one
\* gives every service the last value that is assigned to each key.
THEOREM ValuesAsWritten == Spec => []ValuesAreAsWritten
<1>1. ASSUME Merging, Loading
      PROVE  ReferencesAreResolved
  <2>1. CASE pc = "validate"
    BY <1>1, <2>1, AllResolved
  <2>2. CASE pc = "unexpanded"
    BY <1>1, <2>2, RefusedForAFault
  <2>3. CASE pc # "validate" /\ pc # "unexpanded"
    BY <2>3 DEF ReferencesAreResolved
  <2> QED BY <2>1, <2>2, <2>3
<1>2. ASSUME Merging, Loading
      PROVE  EnvironmentIsLayered
  <2> SUFFICES ASSUME pc = "loaded", NEW n \in DOMAIN config.services
               PROVE  LET env == config.services[n].env
                          all == Assignments(n)
                      IN  /\ DOMAIN env = {all[i][1] : i \in DOMAIN all}
                          /\ \A i \in DOMAIN all :
                                 (\A j \in (i + 1)..Len(all) : all[j][1] # all[i][1]) => env[all[i][1]] = all[i][2]
    BY DEF EnvironmentIsLayered
  <2> DEFINE env == config.services[n].env
             all == Assignments(n)
  <2>1. LaysOut(env, all)
    BY <1>2, EnvironmentsLayer
  <2> HIDE DEF env, all
  <2>2. DOMAIN env = {all[i][1] : i \in DOMAIN all}
    BY <2>1 DEF LaysOut
  <2> QED BY <2>1, <2>2 DEF LaysOut, env, all
<1>3. Merging /\ Loading => ValuesAreAsWritten
  BY <1>1, <1>2 DEF ValuesAreAsWritten
<1> QED BY <1>3, MergeInvariant, PTL

\* "Two spellings of one project have to reach the same daemon" (paths.rs): the socket
\* of a command that goes on can be bound, is in the project or where nobody else may
\* look, and is the same for all commands of the project with the same variables and
\* for no other project's.
THEOREM OneSocket == Spec => []OneSocketPerProject
<1>1. Loading => OneSocketPerProject
  <2> SUFFICES ASSUME Loading, pc = "located" PROVE OneSocketPerProject
    BY DEF OneSocketPerProject
  <2>1. IsFileSystem(disk.fs) /\ \A here \in Here : Situated(disk.fs, here)
    BY CaseFacts DEF Loading, SocketIsFound
  <2>2. PICK here \in Here : paths = <<here, ForConfig(disk.fs, here)>>
    BY DEF Loading, SocketIsFound
  <2> DEFINE found == ForConfig(disk.fs, here)
             fs == disk.fs
  <2>3. paths[1] = here /\ paths[2] = found /\ found.rejections = 0
    BY <2>2 DEF Loading, SocketIsFound
  <2>4. /\ found.len <= MaxSocketPath
        /\ found.dir # Project(fs, here) =>
               fs.stat[found.dir].dir /\ fs.stat[found.dir].ours /\ ~fs.stat[found.dir].shared
        /\ \A h : Situated(fs, h) =>
               LET there == ForConfig(fs, h)
               IN  /\ Project(fs, h) # Project(fs, here) =>
                          <<there.dir, there.name>> # <<found.dir, found.name>>
                   /\ Project(fs, h) = Project(fs, here) /\ Candidates(h) = Candidates(here) =>
                          <<there.dir, there.name>> = <<found.dir, found.name>>
    BY <2>1, <2>3, SocketsMeet
  <2> HIDE DEF found, fs
  <2> QED BY <2>1, <2>3, <2>4 DEF OneSocketPerProject, Project, fs
<1> QED BY <1>1, LoadInvariant, PTL

\* "A service can never be started without the services it declares in depends_on"
\* (plan.rs): a plan is what was asked for and all that it needs, dependencies first,
\* and whoever is held back needs a service that was stopped by hand.
THEOREM PlanExact == Spec => []PlanIsExact
<1>1. Loading => PlanIsExact
  <2> SUFFICES ASSUME Loading, pc \in {"planned", "held"} PROVE PlanIsExact
    BY DEF PlanIsExact
  <2> DEFINE cfg == Planned
  <2>1. IsOrdered(cfg) /\ Roots(cfg, selection) \subseteq DOMAIN cfg.deps /\ plan = PlanStack(cfg, selection)
    BY DEF Loading, ConfigIsOrdered, PlanIsMade
  <2>2. DOMAIN cfg.deps = DOMAIN config.services
    BY DEF Planned, DepGraph
  <2>3. \A n : NeedsOf(cfg, n) = Needs(n)
    BY <2>2 DEF NeedsOf, Needs
  <2> HIDE DEF cfg
  <2>4. ToSet(plan) = UNION {NeedsOf(cfg, n) : n \in Roots(cfg, selection)} /\ IsPlan(cfg, plan)
    BY <2>1, PlansAreExact
  <2>5. \A i \in DOMAIN plan : Dependencies(cfg, plan[i]) \subseteq {plan[j] : j \in 1..(i - 1)}
    BY <2>4 DEF IsPlan
  <2>6. pc = "held" => held = {n \in ToSet(plan) : NeedsOf(cfg, n) \cap seeds # {}}
    <3> SUFFICES ASSUME pc = "held" PROVE held = {n \in ToSet(plan) : NeedsOf(cfg, n) \cap seeds # {}}
      OBVIOUS
    <3>1. held = WithDependents(cfg, plan, seeds) /\ IsGraph(cfg.deps)
      BY <2>1 DEF Loading, HeldIsMade, IsOrdered, cfg
    <3> QED BY <2>4, <3>1, HeldIsExact
  <2>7. UNION {NeedsOf(cfg, n) : n \in Roots(cfg, selection)} = UNION {Needs(n) : n \in Roots(cfg, selection)}
    BY <2>3
  <2>8. {n \in ToSet(plan) : NeedsOf(cfg, n) \cap seeds # {}} = {n \in ToSet(plan) : Needs(n) \cap seeds # {}}
    BY <2>3
  <2> QED BY <2>4, <2>5, <2>6, <2>7, <2>8 DEF PlanIsExact, cfg
<1> QED BY <1>1, LoadInvariant, PTL

-----------------------------------------------------------------------------
(* The services of a loaded configuration. *)

\* A service without errors can run: what it needs is there, and its settings are in range.
LEMMA ServiceCanRun ==
  ASSUME NEW d, IsDisk(d), NEW vars_, NEW project, NEW n, NEW t, IsRawService(t), t.origin \in DOMAIN d.is,
         CommandFault(n, t) = "none", ServiceErrors(d, n, t) = {}
  PROVE  LET svc == Validated(d, vars_, project, n, t)
         IN  /\ svc.command # <<>> /\ svc.command[1].word # ""
             /\ svc.cwd \in d.dirs
             /\ InRange(svc.ms, Limits) /\ svc.ms.restart_max_delay >= svc.ms.restart_delay
             /\ svc.signal \in Signals
             /\ t.health => /\ svc.health # None /\ svc.health.retries >= 1
                            /\ InRange(svc.health.ms, HealthLimits)
                            /\ (svc.health.probe.kind # "command" => svc.health.probe.port \in Ports)
             /\ t.watch => /\ svc.watch # None /\ InRange(svc.watch.ms, WatchLimits)
                           /\ "absent" \notin ToSet(svc.watch.paths)
<1> DEFINE svc == Validated(d, vars_, project, n, t)
           dir == ServiceDir(d, t)
           cwd == Cwd(d, t, dir)
           ms == [f \in DOMAIN Limits |-> Duration(t, f)]
<1>1. /\ svc.command = List(t, "command") /\ svc.cwd = cwd /\ svc.ms = ms
      /\ svc.signal = Text(t, "shutdown_signal", "term")
      /\ svc.health = (IF t.health THEN HealthCheck(t, n) ELSE None)
      /\ svc.watch = (IF t.watch THEN WatchSettings(d, t, cwd) ELSE None)
  BY DEF Validated
<1>2. svc.command # <<>> /\ svc.command[1].word # ""
  BY <1>1 DEF CommandFault
<1>3. svc.cwd \in d.dirs
  <2>1. dir \in d.dirs
    BY DEF ServiceDir, IsDisk
  <2> QED BY <1>1, <2>1 DEF Cwd, CwdIsValid
<1>4. /\ ~(Text(t, "shutdown_signal", "term") \notin Signals)
      /\ t.health => HealthErrors(t, n) = {}
      /\ t.watch => WatchErrors(d, t, cwd, n) = {}
      /\ DelayErrors(t, n) = {}
  <2>1. When(Text(t, "shutdown_signal", "term") \notin Signals, "InvalidShutdownSignal", n, "shutdown_signal") = {}
    BY DEF ServiceErrors
  <2>2. t.health => HealthErrors(t, n) = {}
    BY DEF ServiceErrors
  <2>3. t.watch => WatchErrors(d, t, cwd, n) = {}
    BY DEF ServiceErrors
  <2>4. DelayErrors(t, n) = {}
    BY DEF ServiceErrors
  <2> QED BY <2>1, <2>2, <2>3, <2>4, NoError
<1>5. InRange(ms, Limits) /\ ms.restart_max_delay >= ms.restart_delay
  <2>1. InRange(ms, Limits)
    BY LimitFacts, DurationIsInRange DEF InRange
  <2>2. "restart_delay" \in DOMAIN Limits /\ "restart_max_delay" \in DOMAIN Limits
    BY DEF Limits
  <2>3. ~(Duration(t, "restart_max_delay") < Duration(t, "restart_delay"))
    BY <1>4, NoError DEF DelayErrors
  <2>4. Duration(t, "restart_max_delay") \in Nat /\ Duration(t, "restart_delay") \in Nat
    BY <2>2, LimitFacts, DurationIsInRange
  <2>5. ms.restart_max_delay = Duration(t, "restart_max_delay") /\ ms.restart_delay = Duration(t, "restart_delay")
    BY <2>2
  <2> HIDE DEF ms
  <2> QED BY <2>1, <2>3, <2>4, <2>5
<1>6. t.health => /\ svc.health # None /\ svc.health.retries >= 1
                  /\ InRange(svc.health.ms, HealthLimits)
                  /\ (svc.health.probe.kind # "command" => svc.health.probe.port \in Ports)
  <2> SUFFICES ASSUME t.health
               PROVE  /\ svc.health # None /\ svc.health.retries >= 1
                      /\ InRange(svc.health.ms, HealthLimits)
                      /\ (svc.health.probe.kind # "command" => svc.health.probe.port \in Ports)
    OBVIOUS
  <2> DEFINE h == HealthCheck(t, n)
  <2>1. /\ h # None /\ h.retries >= 1 /\ InRange(h.ms, HealthLimits)
        /\ h.probe.kind # "command" => h.probe.port \in Ports
    BY <1>4, HealthIsSound
  <2>2. svc.health = h
    BY <1>1
  <2> HIDE DEF h, svc
  <2> QED BY <2>1, <2>2
<1>7. t.watch => /\ svc.watch # None /\ InRange(svc.watch.ms, WatchLimits)
                 /\ "absent" \notin ToSet(svc.watch.paths)
  <2> SUFFICES ASSUME t.watch
               PROVE  /\ svc.watch # None /\ InRange(svc.watch.ms, WatchLimits)
                      /\ "absent" \notin ToSet(svc.watch.paths)
    OBVIOUS
  <2> DEFINE w == WatchSettings(d, t, cwd)
  <2>1. w # None /\ InRange(w.ms, WatchLimits) /\ "absent" \notin ToSet(w.paths)
    BY <1>4, WatchIsSound
  <2>2. svc.watch = w
    BY <1>1
  <2> HIDE DEF w, svc
  <2> QED BY <2>1, <2>2
<1>8. InRange(svc.ms, Limits) /\ svc.ms.restart_max_delay >= svc.ms.restart_delay
  BY <1>1, <1>5
<1>9. svc.signal \in Signals
  BY <1>1, <1>4
<1> HIDE DEF svc
<1>10. /\ svc.command # <<>> /\ svc.command[1].word # ""
       /\ svc.cwd \in d.dirs
       /\ InRange(svc.ms, Limits) /\ svc.ms.restart_max_delay >= svc.ms.restart_delay
       /\ svc.signal \in Signals
       /\ t.health => /\ svc.health # None /\ svc.health.retries >= 1
                      /\ InRange(svc.health.ms, HealthLimits)
                      /\ (svc.health.probe.kind # "command" => svc.health.probe.port \in Ports)
       /\ t.watch => /\ svc.watch # None /\ InRange(svc.watch.ms, WatchLimits)
                     /\ "absent" \notin ToSet(svc.watch.paths)
  BY <1>2, <1>3, <1>6, <1>7, <1>8, <1>9
<1> QED BY <1>10 DEF svc

\* "A condition the dependency can never satisfy is a deadlock waiting to happen"
\* (validation.rs): a configuration that is loaded has every service of its files, each
\* fit to run, each behind what it waits for, which exists and can happen; one that is
\* refused for a cycle has the cycle that the error names.
THEOREM Loaded == Spec => []LoadedConfigIsSound
<1>1. ASSUME Loading, pc = "loaded"
      PROVE  /\ DOMAIN config.services = DOMAIN raw.services /\ DOMAIN config.services # {}
             /\ Len(config.order) = Cardinality(DOMAIN config.services)
             /\ ToSet(config.order) = DOMAIN config.services
             /\ \A n \in DOMAIN config.services :
                   /\ ServiceIsSound(n, config.services[n])
                   /\ \A i \in DOMAIN config.services[n].depends_on :
                         LET d == config.services[n].depends_on[i]
                         IN  /\ d.on \in DOMAIN config.services /\ WaitCanEnd(d)
                             /\ \E a, b \in DOMAIN config.order :
                                    a < b /\ config.order[a] = d.on /\ config.order[b] = n
  <2> DEFINE services == config.services
             order == config.order
             graph == DepGraph(services)
  <2>1. IsDisk(disk)
    BY <1>1, CaseFacts DEF Loading
  <2>2. /\ IsRaw(disk, raw.services) /\ RawErrors(disk, raw) = {}
        /\ services = ValidatedServices(disk, vars, raw)
    BY <1>1 DEF Loading, RawIsRaw, ConfigIsValid, IsValid
  <2>3. /\ DOMAIN services = DOMAIN raw.services
        /\ \A n \in DOMAIN raw.services :
              /\ services[n] = Validated(disk, vars, raw.project, n, raw.services[n])
              /\ services[n].depends_on = raw.services[n].depends_on
              /\ services[n].depends_on \in Seq([on : Int, condition : STRING])
              /\ \A i \in DOMAIN services[n].depends_on : services[n].depends_on[i].on \in DOMAIN services
    BY <2>2, ValidatedFacts
  <2>4. /\ DOMAIN raw.services # {}
        /\ \A n \in DOMAIN raw.services :
              /\ CommandFault(n, raw.services[n]) = "none"
              /\ ServiceErrors(disk, n, raw.services[n]) = {}
              /\ \A i \in DOMAIN raw.services[n].depends_on : DependencyFault(raw, n, i) = "none"
    BY <2>2, NoRawErrors
  <2>5. /\ IsGraph(graph) /\ SortsCompletely(graph) /\ order = Kahn(graph).order
        /\ DOMAIN graph = DOMAIN services
    <3>1. IsOrdered(Planned)
      BY <1>1 DEF Loading, ConfigIsOrdered
    <3>2. Planned.deps = graph /\ Planned.order = order
      BY DEF Planned
    <3>3. DOMAIN graph = DOMAIN services
      BY DEF DepGraph
    <3> HIDE DEF graph, order
    <3> QED BY <3>1, <3>2, <3>3 DEF IsOrdered
  <2>6. order \in Seq(DOMAIN services) /\ ToSet(order) = DOMAIN services /\ BehindDeps(graph, order)
    <3> HIDE DEF graph, order, services
    <3> QED BY <2>5, KahnOrder
  <2>7. Len(order) = Cardinality(DOMAIN services)
    <3> HIDE DEF graph, order, services
    <3> QED BY <2>5 DEF SortsCompletely
  <2>8. ASSUME NEW n \in DOMAIN services
        PROVE  ServiceIsSound(n, services[n])
    <3> DEFINE t == raw.services[n]
    <3>1. IsRawService(t) /\ t.origin \in DOMAIN disk.is
      BY <2>2, <2>3 DEF IsRaw
    <3>2. services[n] = Validated(disk, vars, raw.project, n, t)
      BY <2>3
    <3>3. CommandFault(n, t) = "none" /\ ServiceErrors(disk, n, t) = {}
      BY <2>3, <2>4
    <3>4. t = raw.services[n]
      OBVIOUS
    <3> HIDE DEF t
    <3> DEFINE svc == Validated(disk, vars, raw.project, n, t)
    <3>5. /\ svc.command # <<>> /\ svc.command[1].word # ""
          /\ svc.cwd \in disk.dirs
          /\ InRange(svc.ms, Limits) /\ svc.ms.restart_max_delay >= svc.ms.restart_delay
          /\ svc.signal \in Signals
          /\ t.health => /\ svc.health # None /\ svc.health.retries >= 1
                         /\ InRange(svc.health.ms, HealthLimits)
                         /\ (svc.health.probe.kind # "command" => svc.health.probe.port \in Ports)
          /\ t.watch => /\ svc.watch # None /\ InRange(svc.watch.ms, WatchLimits)
                        /\ "absent" \notin ToSet(svc.watch.paths)
      BY <2>1, <3>1, <3>3, ServiceCanRun
    <3> HIDE DEF svc
    <3>6. ServiceIsSound(n, svc)
      BY <3>4, <3>5 DEF ServiceIsSound
    <3> QED BY <3>2, <3>6 DEF svc
  <2>9. ASSUME NEW n \in DOMAIN services, NEW i \in DOMAIN services[n].depends_on
        PROVE  LET d == services[n].depends_on[i]
               IN  /\ d.on \in DOMAIN services /\ WaitCanEnd(d)
                   /\ \E a, b \in DOMAIN order : a < b /\ order[a] = d.on /\ order[b] = n
    <3> DEFINE d == services[n].depends_on[i]
    <3>1. d.on \in DOMAIN services /\ d = raw.services[n].depends_on[i]
      BY <2>3
    <3>2. /\ d.condition = "service_healthy" => raw.services[d.on].health
          /\ d.condition = "service_completed_successfully" =>
                 raw.services[d.on].restart \notin {"always", "unless-stopped"}
      <4>1. DependencyFault(raw, n, i) = "none"
        BY <2>3, <2>4
      <4> QED BY <3>1, <4>1 DEF DependencyFault
    <3>3. WaitCanEnd(d)
      <4> DEFINE m == d.on
      <4>1. /\ IsRawService(raw.services[m])
            /\ services[m] = Validated(disk, vars, raw.project, m, raw.services[m])
            /\ ServiceIsSound(m, services[m])
        BY <2>2, <2>3, <2>8, <3>1 DEF IsRaw
      <4>2. services[m].restart = raw.services[m].restart
        <5>1. PICK t : t = raw.services[m]
          OBVIOUS
        <5>2. Validated(disk, vars, raw.project, m, t).restart = t.restart
          BY DEF Validated
        <5> HIDE DEF services, m
        <5> QED BY <4>1, <5>1, <5>2
      <4>3. raw.services[m].restart \in {"never", "on-failure", "always", "unless-stopped"}
        BY <4>1 DEF IsRawService
      <4>4. raw.services[m].health => services[m].health # None
        BY <4>1 DEF ServiceIsSound
      <4>5. d.condition = "service_completed_successfully" => services[m].restart \in {"never", "on-failure"}
        BY <3>2, <4>2, <4>3
      <4>6. d.condition = "service_healthy" => services[m].health # None
        BY <3>2, <4>4
      <4> QED BY <4>5, <4>6 DEF WaitCanEnd
    <3>4. d.on \in ToSet(graph[n])
      <4> DEFINE e == [j \in DOMAIN services[n].depends_on |-> services[n].depends_on[j].on]
      <4>1. graph[n] = e
        BY DEF DepGraph
      <4>2. i \in DOMAIN e /\ e[i] = d.on
        OBVIOUS
      <4> HIDE DEF e, graph, d
      <4> QED BY <4>1, <4>2 DEF ToSet
    <3>5. \E a, b \in DOMAIN order : a < b /\ order[a] = d.on /\ order[b] = n
      <4> DEFINE m == d.on
      <4>1. m \in ToSet(graph[n])
        BY <3>4
      <4> HIDE DEF graph, order, services, m
      <4>2. PICK b \in DOMAIN order : order[b] = n
        BY <2>6 DEF ToSet
      <4>3. PICK k \in DOMAIN graph[n] : graph[n][k] = m
        BY <4>1 DEF ToSet
      <4>4. b \in 1..Len(order) /\ DOMAIN order = 1..Len(order) /\ Len(order) \in Nat
        BY <2>6
      <4>5. PICK a \in 1..(b - 1) : order[a] = m
        BY <2>6, <4>2, <4>3, <4>4 DEF BehindDeps
      <4>6. a \in DOMAIN order /\ a < b
        BY <4>4
      <4> QED BY <4>2, <4>5, <4>6 DEF m
    <3> QED BY <3>1, <3>3, <3>5
  <2> QED BY <2>3, <2>4, <2>6, <2>7, <2>8, <2>9
<1>2. ASSUME Loading, pc = "cyclic"
      PROVE  CycleIsReal
  <2> DEFINE graph == DepGraph(config.services)
             rest == Remaining(graph)
  <2>1. ~SortsCompletely(graph) /\ cycle = FindCycle(graph, rest)
    BY <1>2 DEF Loading, CycleIsFound
  <2>2. IsGraph(graph)
    <3>1. IsRaw(disk, raw.services) /\ IsValid
      BY <1>2 DEF Loading, RawIsRaw, ConfigIsValid
    <3> QED BY <3>1, ValidatedGraph DEF IsValid
  <2>3. graph = DepGraph(config.services)
    OBVIOUS
  <2> HIDE DEF graph
  <2>4. rest \in SUBSET DOMAIN graph /\ rest # {} /\ \A n \in rest : ToSet(graph[n]) \cap rest # {}
    BY <2>1, <2>2, KahnRemains
  <2> HIDE DEF rest
  <2>5. IsLoop(graph, cycle)
    <3>1. IsStuck(graph, rest)
      BY <2>2, <2>4 DEF IsStuck
    <3> QED BY <2>1, <3>1, FindCycleLoops
  <2> QED BY <2>3, <2>5 DEF CycleIsReal, IsLoop, IsWalk
<1>3. Loading => LoadedConfigIsSound
  BY <1>1, <1>2 DEF LoadedConfigIsSound
<1> QED BY <1>3, LoadInvariant, PTL
=============================================================================
