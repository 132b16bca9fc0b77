----------------------------- MODULE ScanProofs -----------------------------
(***************************************************************************)
(* What one scan does with the files it meets: the run of a build tool is  *)
(* told honestly, whichever step of its confinement fails and whenever it  *)
(* is killed; what a resolver selects follows the rules of its ecosystem,  *)
(* for any packages, requirements and ranges; a database of installed      *)
(* packages is read back; what archives and jars hold is read whole or the *)
(* scan says that it is not; and a walk of a tree that others change       *)
(* overlooks no file, nor a cataloger for it.                              *)
(***************************************************************************)
EXTENDS NativeRun, Resolvers, SystemPackages, Archives, SourceTrees,
        FiniteSetTheorems, WellFoundedInduction, TLAPS

(***************************************************************************)
(* The run of the build tool                                               *)
(***************************************************************************)

\* How far the child is confined when it starts the tool.
Confined == \/ options.unconfined /\ done = <<"limits">>
            \/ done = <<"limits", "profile">>
            \/ done = Steps
StepNames == {Steps[i] : i \in 1 .. 8}
\* The steps are taken in their order, the scratch files after the mount they go to.
InSetUp == /\ done \in Seq(StepNames) /\ Len(done) < 8
           /\ done = [i \in 1 .. Len(done) |-> Steps[i]]
           /\ files = IF Len(done) >= 6 THEN "scratch" ELSE "none"

\* In every phase: what the child has behind it, what it wrote, what is known of
\* its end.
NativeInv ==
    /\ options.unconfined \in BOOLEAN /\ options.net \in BOOLEAN /\ lingers \in BOOLEAN
    /\ phase \in {"start", "setup", "running", "killed", "ended", "end"}
    /\ phase \in {"start", "setup", "running"} => outcome = "none"
    /\ phase # "end" => told = {} /\ reported = "none"
    /\ phase = "start" => done = << >> /\ files = "none"
    /\ phase \in {"start", "setup"} => output = "none" /\ ~lingers
    /\ phase = "setup" => InSetUp
    /\ phase = "running" => Confined /\ files = IF done = Steps THEN "scratch" ELSE "home"
    /\ phase = "killed" => outcome = "timeout"
    /\ phase = "ended" => outcome \in {"well", "failed", "timeout", "refused"}
    /\ outcome = "refused" => output = "none"
    /\ output # "none" => files # "none"
    /\ phase = "end" => NativeRunIsHonest

LEMMA NativeStarts == NativeInit => NativeInv
<1> SUFFICES ASSUME NativeInit PROVE NativeInv
    OBVIOUS
<1>1. options.unconfined \in BOOLEAN /\ options.net \in BOOLEAN
    BY DEF NativeInit
<1> QED
    BY <1>1 DEF NativeInit, NativeStart, NativeInv

LEMMA StepsAre ==
    /\ Len(Steps) = 8 /\ Steps \in Seq(StepNames) /\ Steps = [i \in 1 .. 8 |-> Steps[i]]
    /\ \A i \in 1 .. 8 : Steps[i] = "files" <=> i = 6
<1>1. Len(Steps) = 8 /\ Steps = [i \in 1 .. 8 |-> Steps[i]]
    BY DEF Steps
<1>2. Steps[6] = "files" /\ \A i \in 1 .. 8 : Steps[i] = "files" => i = 6
    BY DEF Steps
<1>3. Steps \in Seq(StepNames)
    BY <1>1 DEF StepNames
<1> QED
    BY <1>1, <1>2, <1>3

\* Where the confined child has its scratch files, and what it passed.
LEMMA AllStepsPassed ==
    ASSUME done = Steps
    PROVE  /\ Passed("namespaces") /\ Passed("scratch") /\ Passed("pivot") /\ Passed("detach") /\ Passed("limits")
<1>1. DOMAIN done = 1 .. 8
    BY DEF Steps
<1>2. /\ done[1] = "namespaces" /\ done[3] = "scratch" /\ done[4] = "pivot"
      /\ done[5] = "detach" /\ done[7] = "limits"
    BY DEF Steps
<1> QED
    BY <1>1, <1>2 DEF Passed

LEMMA ProfilePassed ==
    ASSUME done = <<"limits", "profile">>
    PROVE  Passed("profile") /\ Passed("limits") /\ ~Passed("scratch")
<1>1. DOMAIN done = 1 .. 2 /\ done[1] = "limits" /\ done[2] = "profile"
    OBVIOUS
<1> QED
    BY <1>1 DEF Passed

LEMMA LimitsPassed ==
    ASSUME done = <<"limits">>
    PROVE  Passed("limits") /\ ~Passed("scratch")
<1>1. DOMAIN done = 1 .. 1 /\ done[1] = "limits"
    OBVIOUS
<1> QED
    BY <1>1 DEF Passed

\* A step more of the set-up leaves a longer prefix of the steps.
LEMMA OneStepMore ==
    ASSUME NEW d \in Seq(StepNames), Len(d) < 8, d = [i \in 1 .. Len(d) |-> Steps[i]]
    PROVE  LET e == Append(d, Steps[Len(d) + 1])
           IN  /\ e \in Seq(StepNames) /\ Len(e) = Len(d) + 1
               /\ e = [i \in 1 .. Len(e) |-> Steps[i]]
               /\ Len(e) = 8 => e = Steps
<1> DEFINE n == Len(d) + 1
           e == Append(d, Steps[n])
<1>1. n \in 1 .. 8 /\ Steps[n] \in StepNames
    BY DEF StepNames
<1>2. e \in Seq(StepNames) /\ Len(e) = n
    BY <1>1
<1>3. \A i \in 1 .. n : e[i] = Steps[i]
    BY <1>1
<1>4. e = [i \in 1 .. Len(e) |-> Steps[i]]
    BY <1>2, <1>3
<1>5. ASSUME Len(e) = 8 PROVE e = Steps
    BY <1>4, <1>5, StepsAre
<1> QED
    BY <1>2, <1>4, <1>5

LEMMA NativeStep == NativeInv /\ [NativeNext]_nativeVars => NativeInv'
<1> SUFFICES ASSUME NativeInv, [NativeNext]_nativeVars PROVE NativeInv'
    OBVIOUS
<1> USE DEF NativeInv
<1>1. CASE Refuse
    BY <1>1 DEF Refuse, End, NativeRunIsHonest
<1>2. CASE Prepare
  <2>1. CASE Unconfined \/ host.system = "macos"
    <3>1. /\ phase' = "running" /\ files' = "home" /\ outcome' = "none" /\ output' = "none" /\ lingers' = lingers
          /\ done' = IF Unconfined THEN <<"limits">> ELSE <<"limits", "profile">>
          /\ options' = options /\ told' = {} /\ reported' = "none"
        BY <1>2, <2>1 DEF Prepare
    <3>2. <<"limits">> # Steps /\ <<"limits", "profile">> # Steps
        BY StepsAre
    <3>3. Confined' /\ done' # Steps
        BY <3>1, <3>2 DEF Confined, Unconfined
    <3> QED
        BY <3>1, <3>3
  <2>2. CASE ~(Unconfined \/ host.system = "macos")
    <3>1. /\ phase' = "setup" /\ files' = "none" /\ done' = << >> /\ outcome' = "none" /\ output' = "none"
          /\ lingers' = lingers /\ options' = options /\ told' = {} /\ reported' = "none" /\ ~lingers
        BY <1>2, <2>2 DEF Prepare
    <3>2. << >> \in Seq(StepNames) /\ Len(<< >>) = 0 /\ << >> = [i \in 1 .. 0 |-> Steps[i]]
        OBVIOUS
    <3>3. InSetUp'
        BY <3>1, <3>2 DEF InSetUp
    <3> QED
        BY <3>1, <3>3
  <2> QED
    BY <2>1, <2>2
<1>3. CASE SetUp
  <2> DEFINE step == Steps[Len(done) + 1]
  <2>1. /\ phase = "setup" /\ InSetUp /\ done' = Append(done, step)
        /\ files' = IF step = "files" THEN IF Passed("scratch") THEN "scratch" ELSE "home" ELSE files
        /\ phase' = IF Len(done') = 8 THEN "running" ELSE "setup"
        /\ outcome' = "none" /\ output' = "none" /\ lingers' = lingers /\ ~lingers /\ options' = options
        /\ told' = {} /\ reported' = "none"
      BY <1>3, StepsAre DEF SetUp
  <2>2. /\ done \in Seq(StepNames) /\ Len(done) < 8 /\ done = [i \in 1 .. Len(done) |-> Steps[i]]
        /\ files = IF Len(done) >= 6 THEN "scratch" ELSE "none"
      BY <2>1 DEF InSetUp
  <2>3. /\ done' \in Seq(StepNames) /\ Len(done') = Len(done) + 1
        /\ done' = [i \in 1 .. Len(done') |-> Steps[i]] /\ (Len(done') = 8 => done' = Steps)
      BY <2>1, <2>2, OneStepMore
  <2>4. Len(done) \in Nat
      BY <2>2
  <2>5. step = "files" <=> Len(done) = 5
    <3>1. Len(done) + 1 \in 1 .. 8 /\ (Len(done) + 1 = 6 <=> Len(done) = 5)
      <4>1. Len(done) < 8
          BY <2>2
      <4>2. \A n \in Nat : n < 8 => n + 1 \in 1 .. 8 /\ (n + 1 = 6 <=> n = 5)
          OBVIOUS
      <4> QED
          BY <2>4, <4>1, <4>2
    <3>2. \A i \in 1 .. 8 : Steps[i] = "files" <=> i = 6
        BY StepsAre
    <3> QED
        BY <3>1, <3>2
  <2>6. Len(done) = 5 => Passed("scratch")
    <3> SUFFICES ASSUME Len(done) = 5 PROVE Passed("scratch")
        OBVIOUS
    <3>1. 3 \in DOMAIN done /\ done[3] = Steps[3]
        BY <2>2
    <3>2. Steps[3] = "scratch"
        BY DEF Steps
    <3> QED
        BY <3>1, <3>2 DEF Passed
  <2>7. files' = IF Len(done') >= 6 THEN "scratch" ELSE "none"
      BY <2>1, <2>2, <2>3, <2>4, <2>5, <2>6
  <2>8. CASE Len(done') = 8
    <3>1. Confined' /\ files' = "scratch" /\ phase' = "running" /\ done' = Steps
        BY <2>1, <2>3, <2>7, <2>8 DEF Confined
    <3> QED
        BY <2>1, <3>1
  <2>9. CASE Len(done') # 8
    <3>1. InSetUp' /\ phase' = "setup"
        BY <2>1, <2>2, <2>3, <2>4, <2>7, <2>9 DEF InSetUp
    <3> QED
        BY <2>1, <3>1
  <2> QED
      BY <2>8, <2>9
<1>4. CASE SetUpFails
    BY <1>4 DEF SetUpFails
<1>5. CASE Works
  <2>1. /\ phase = "running" /\ UNCHANGED <<options, done, files, phase, outcome, told, reported>>
        /\ lingers' \in BOOLEAN
      BY <1>5 DEF Works
  <2>2. Confined'
      BY <2>1 DEF Confined
  <2>3. files' # "none"
      BY <2>1
  <2> QED
      BY <2>1, <2>2, <2>3
<1>6. CASE \E well \in BOOLEAN : Exits(well)
    BY <1>6 DEF Exits
<1>7. CASE TimesOut
    BY <1>7 DEF TimesOut
<1>8. CASE Drains
    BY <1>8 DEF Drains
<1>9. CASE DescendantEnds
    BY <1>9 DEF DescendantEnds, Confined, NativeRunIsHonest
<1>10. CASE Bridge
    BY <1>10 DEF Bridge, End, NativeRunIsHonest
<1>11. CASE UNCHANGED nativeVars
    BY <1>11 DEF nativeVars, Confined, InSetUp, NativeRunIsHonest
<1> QED
    BY <1>1, <1>2, <1>3, <1>4, <1>5, <1>6, <1>7, <1>8, <1>9, <1>10, <1>11 DEF NativeNext

LEMMA NativeInvHonest == NativeInv => NativeRunIsHonest
<1> SUFFICES ASSUME NativeInv PROVE NativeRunIsHonest
    OBVIOUS
<1>1. CASE phase = "running"
  <2>1. Confined /\ files = IF done = Steps THEN "scratch" ELSE "home"
      BY <1>1 DEF NativeInv
  <2>2. CASE done = Steps
    <3>1. "home" \notin Sees /\ (Network => options.net)
        BY <2>2, AllStepsPassed DEF Sees, Network
    <3> QED
        BY <1>1, <2>1, <2>2, <3>1, AllStepsPassed DEF NativeRunIsHonest
  <2>3. CASE done = <<"limits", "profile">>
    <3>1. "home" \notin Sees /\ (Network => options.net)
        BY <2>3, ProfilePassed DEF Sees, Network
    <3>2. done # Steps
        BY <2>3, StepsAre
    <3> QED
        BY <1>1, <2>1, <2>3, <3>1, <3>2, ProfilePassed DEF NativeRunIsHonest
  <2>4. CASE done = <<"limits">> /\ options.unconfined
    <3>1. done # Steps
        BY <2>4, StepsAre
    <3> QED
        BY <1>1, <2>1, <2>4, <3>1, LimitsPassed DEF NativeRunIsHonest
  <2> QED
      BY <2>1, <2>2, <2>3, <2>4 DEF Confined
<1>2. CASE phase # "running"
    BY <1>2 DEF NativeInv, NativeRunIsHonest
<1> QED
    BY <1>1, <1>2

\* The build tool runs unconfined only for who asked for it, with its limits and
\* its scratch files in place, and a run that says nothing is never silent about
\* it: whichever step of run_sandboxed fails, and whenever the child is killed.
THEOREM NativeRunsAlwaysHonest == NativeSpec => []NativeRunIsHonest
<1>1. NativeInit => NativeInv
    BY NativeStarts
<1>2. NativeInv /\ [NativeNext]_nativeVars => NativeInv'
    BY NativeStep
<1>3. NativeInv => NativeRunIsHonest
    BY NativeInvHonest
<1> QED
    BY <1>1, <1>2, <1>3, PTL DEF NativeSpec


(***************************************************************************)
(* Ranges                                                                  *)
(***************************************************************************)

Numbers == [1 .. 3 -> Nat]
Identifiers == Seq(Nat \X Nat)
Ops == {"^", "~", "=", ">=", "<=", ">", "<"}
\* A version, and a comparator as it is written: of numbers of any size.
IsVersion(v) == v.nums \in Numbers /\ v.pre \in Identifiers
IsToken(t) ==
    /\ t.op \in Ops /\ t.parts \in Seq(Nat) /\ Len(t.parts) <= 3 /\ t.pre \in Identifiers
    /\ t.pre # << >> => Len(t.parts) = 3
    /\ t.parts = << >> => t.op = "="

LEMMA NothingBelowZero ==
    ASSUME NEW pre \in Identifiers
    PROVE  ~PreLess(pre, ZeroPre)
<1> SUFFICES ASSUME PreLess(pre, ZeroPre) PROVE FALSE
    OBVIOUS
<1>1. ZeroPre = <<<<0, 0>>>> /\ Len(ZeroPre) = 1 /\ DOMAIN ZeroPre = 1 .. 1 /\ ZeroPre[1] = <<0, 0>>
    BY DEF ZeroPre, NumberId
<1>2. pre \in Seq(Nat \X Nat) /\ Len(pre) \in Nat /\ pre # << >> /\ DOMAIN pre = 1 .. Len(pre)
    BY DEF PreLess, Identifiers
<1>3. Len(pre) >= 1 /\ pre[1] \in Nat \X Nat
    BY <1>2
<1>4. ~Pair(pre[1], ZeroPre[1])
    BY <1>1, <1>3 DEF Pair
<1>5. IsPrefix(pre, ZeroPre) => pre = ZeroPre
  <2>1. SUFFICES ASSUME IsPrefix(pre, ZeroPre) PROVE pre = ZeroPre
      OBVIOUS
  <2>2. Len(pre) <= 1 /\ \A i \in 1 .. Len(pre) : pre[i] = ZeroPre[i]
      BY <1>1, <1>2, <2>1 DEF IsPrefix
  <2>3. Len(pre) = 1 /\ pre[1] = <<0, 0>>
      BY <1>1, <1>2, <1>3, <2>2
  <2> QED
      BY <1>1, <1>2, <2>3
<1> QED
    BY <1>1, <1>4, <1>5 DEF PreLess

LEMMA TripleIs ==
    ASSUME NEW s \in Numbers, NEW t \in Numbers
    PROVE  TripleLess(s, t) <=> \/ s[1] < t[1]
                                \/ s[1] = t[1] /\ s[2] < t[2]
                                \/ s[1] = t[1] /\ s[2] = t[2] /\ s[3] < t[3]
<1>1. 1 .. 3 = {1, 2, 3} /\ 1 .. 1 - 1 = {} /\ 1 .. 2 - 1 = {1} /\ 1 .. 3 - 1 = {1, 2}
    OBVIOUS
<1> QED
    BY <1>1 DEF TripleLess

LEMMA NumbersOf ==
    ASSUME NEW parts \in Seq(Nat), NEW len \in 0 .. 3, len = Len(parts)
    PROVE  /\ Padded(parts) \in Numbers
           /\ \A i \in 1 .. 3 : Padded(parts)[i] = IF i <= Len(parts) THEN parts[i] ELSE 0
           /\ Len(parts) = 3 => Padded(parts) = parts
<1>1. \A i \in 1 .. 3 : i <= Len(parts) => i \in 1 .. Len(parts)
    OBVIOUS
<1> QED
    BY <1>1 DEF Padded, Numbers

LEMMA NextOf ==
    ASSUME NEW parts \in Seq(Nat), NEW n \in 1 .. 3, NEW len \in 0 .. 3, len = Len(parts), n <= len
    PROVE  LET next == Bumped(SubSeq(parts, 1, n))
           IN  /\ next \in Numbers
               /\ \A i \in 1 .. 3 : next[i] = IF i < n THEN parts[i] ELSE IF i = n THEN parts[i] + 1 ELSE 0
<1> DEFINE s == SubSeq(parts, 1, n)
           b == [s EXCEPT ![Len(s)] = @ + 1]
<1>1. s \in Seq(Nat) /\ Len(s) = n /\ \A i \in 1 .. n : s[i] = parts[i]
    OBVIOUS
<1> HIDE DEF s
<1>2. b \in Seq(Nat) /\ Len(b) = n /\ \A i \in 1 .. n : b[i] = IF i = n THEN parts[i] + 1 ELSE parts[i]
    BY <1>1
<1> HIDE DEF b
<1>3. Bumped(s) = Padded(b)
    BY DEF Bumped, b
<1>4. /\ Padded(b) \in Numbers
      /\ \A i \in 1 .. 3 : Padded(b)[i] = IF i <= Len(b) THEN b[i] ELSE 0
  <2>1. n \in 0 .. 3 /\ n = Len(b)
      BY <1>2
  <2> QED
      BY <1>2, <2>1, NumbersOf
<1>5. Padded(b) \in Numbers /\ \A i \in 1 .. 3 : Padded(b)[i] = IF i <= n THEN b[i] ELSE 0
    BY <1>2, <1>4
<1> QED
    BY <1>2, <1>3, <1>5 DEF s

\* Below the next of the first n numbers is below them or begins with them.
LEMMA BelowTheNext ==
    ASSUME NEW parts \in Seq(Nat), NEW n \in 1 .. 3, NEW len \in 0 .. 3, len = Len(parts), n <= len, NEW x \in Numbers
    PROVE  LET below == TripleLess(x, Bumped(SubSeq(parts, 1, n)))
               same == \A i \in 1 .. n : x[i] = parts[i]
           IN  /\ ~TripleLess(x, Padded(parts)) => (below <=> same)
               /\ n = len => (below <=> TripleLess(x, Padded(parts)) \/ same)
               /\ n = len => (~below <=> TripleLess(Padded(parts), x) /\ ~same)
<1> DEFINE q == Padded(parts)
           b == Bumped(SubSeq(parts, 1, n))
           same == \A i \in 1 .. n : x[i] = parts[i]
<1>0. SUFFICES /\ ~TripleLess(x, q) => (TripleLess(x, b) <=> same)
               /\ n = len => (TripleLess(x, b) <=> TripleLess(x, q) \/ same)
               /\ n = len => (~TripleLess(x, b) <=> TripleLess(q, x) /\ ~same)
    OBVIOUS
<1>1. q \in Numbers /\ \A i \in 1 .. 3 : q[i] = IF i <= len THEN parts[i] ELSE 0
    BY NumbersOf
<1>2. b \in Numbers /\ \A i \in 1 .. 3 : b[i] = IF i < n THEN parts[i] ELSE IF i = n THEN parts[i] + 1 ELSE 0
    BY NextOf
<1> HIDE DEF q, b, same
<1>3. /\ q[1] \in Nat /\ q[2] \in Nat /\ q[3] \in Nat /\ b[1] \in Nat /\ b[2] \in Nat /\ b[3] \in Nat
      /\ x[1] \in Nat /\ x[2] \in Nat /\ x[3] \in Nat
    BY <1>1, <1>2 DEF Numbers
<1>4. /\ TripleLess(x, q) <=> x[1] < q[1] \/ (x[1] = q[1] /\ x[2] < q[2]) \/ (x[1] = q[1] /\ x[2] = q[2] /\ x[3] < q[3])
      /\ TripleLess(q, x) <=> q[1] < x[1] \/ (q[1] = x[1] /\ q[2] < x[2]) \/ (q[1] = x[1] /\ q[2] = x[2] /\ q[3] < x[3])
      /\ TripleLess(x, b) <=> x[1] < b[1] \/ (x[1] = b[1] /\ x[2] < b[2]) \/ (x[1] = b[1] /\ x[2] = b[2] /\ x[3] < b[3])
    BY <1>1, <1>2, TripleIs
<1>5. \A i \in 1 .. n : parts[i] = q[i]
    BY <1>1
<1>6. CASE n = 1
  <2>1. b[1] = q[1] + 1 /\ b[2] = 0 /\ b[3] = 0 /\ (len = 1 => q[2] = 0 /\ q[3] = 0)
      BY <1>1, <1>2, <1>6
  <2>2. same <=> x[1] = q[1]
      BY <1>5, <1>6 DEF same
  <2> QED
      BY <1>3, <1>4, <1>6, <2>1, <2>2
<1>7. CASE n = 2
  <2>1. b[1] = q[1] /\ b[2] = q[2] + 1 /\ b[3] = 0 /\ (len = 2 => q[3] = 0)
      BY <1>1, <1>2, <1>7
  <2>2. same <=> x[1] = q[1] /\ x[2] = q[2]
      BY <1>5, <1>7 DEF same
  <2>3. TripleLess(x, b) <=> x[1] < q[1] \/ (x[1] = q[1] /\ (x[2] < q[2] \/ x[2] = q[2]))
      BY <1>3, <1>4, <2>1
  <2>0. n = len => q[3] = 0
      BY <1>7, <2>1
  <2>4. n = len => (TripleLess(x, q) <=> x[1] < q[1] \/ (x[1] = q[1] /\ x[2] < q[2]))
      BY <1>3, <1>4, <2>0
  <2>5. n = len => (TripleLess(q, x) <=> q[1] < x[1] \/ (q[1] = x[1] /\ q[2] < x[2]) \/ (q[1] = x[1] /\ q[2] = x[2] /\ 0 < x[3]))
      BY <1>3, <1>4, <2>0
  <2>6. ~TripleLess(x, q) => (TripleLess(x, b) <=> same)
      BY <1>3, <1>4, <2>2, <2>3
  <2>7. n = len => (TripleLess(x, b) <=> TripleLess(x, q) \/ same)
      BY <1>3, <2>2, <2>3, <2>4
  <2>8. n = len => (~TripleLess(x, b) <=> TripleLess(q, x) /\ ~same)
      BY <1>3, <2>2, <2>3, <2>5
  <2> QED
      BY <2>6, <2>7, <2>8
<1>8. CASE n = 3
  <2>1. b[1] = q[1] /\ b[2] = q[2] /\ b[3] = q[3] + 1
      BY <1>1, <1>2, <1>8
  <2>3. n = len
      BY <1>8
  <2>2. same <=> x[1] = q[1] /\ x[2] = q[2] /\ x[3] = q[3]
      BY <1>5, <1>8 DEF same
  <2> QED
      BY <1>3, <1>4, <2>1, <2>2, <2>3
<1> QED
    BY <1>6, <1>7, <1>8

\* A caret holds the numbers up to the first that is not zero.
LEMMA CaretLeads ==
    ASSUME NEW parts \in Seq(Nat), NEW len \in 1 .. 3, len = Len(parts)
    PROVE  /\ CaretHolds(parts) \in 1 .. len
           /\ CaretHolds(parts) = CHOOSE i \in 1 .. len : (parts[i] > 0 \/ i = len) /\ \A j \in 1 .. i - 1 : parts[j] = 0
<1> DEFINE c == CaretHolds(parts)
           Leads(i) == (parts[i] > 0 \/ i = len) /\ \A j \in 1 .. i - 1 : parts[j] = 0
<1>1. /\ parts[1] \in Nat /\ (len >= 2 => parts[2] \in Nat) /\ (len >= 3 => parts[3] \in Nat)
      /\ 1 .. 0 = {} /\ 1 .. 1 - 1 = {} /\ 1 .. 2 - 1 = {1} /\ 1 .. 3 - 1 = {1, 2} /\ 1 .. 2 = {1, 2} /\ 1 .. 1 = {1}
    OBVIOUS
<1>2. c = IF parts[1] > 0 \/ len = 1 THEN 1 ELSE IF parts[2] > 0 \/ len = 2 THEN 2 ELSE 3
    BY DEF CaretHolds
<1> HIDE DEF c
<1>3. c \in 1 .. len
    BY <1>2
<1>4. Leads(1) <=> parts[1] > 0 \/ len = 1
    BY <1>1
<1>5. Leads(2) <=> (parts[2] > 0 \/ len = 2) /\ parts[1] = 0
    BY <1>1
<1>6. Leads(3) <=> (parts[3] > 0 \/ len = 3) /\ parts[1] = 0 /\ parts[2] = 0
    BY <1>1
<1> HIDE DEF Leads
<1>7. Leads(c) /\ \A i \in 1 .. len : Leads(i) => i = c
  <2>1. CASE parts[1] > 0 \/ len = 1
    <3>1. c = 1 /\ (parts[1] = 0 => len = 1)
        BY <1>1, <1>2, <2>1
    <3> QED
        BY <1>4, <1>5, <1>6, <2>1, <3>1
  <2>2. CASE ~(parts[1] > 0 \/ len = 1) /\ (parts[2] > 0 \/ len = 2)
    <3>1. c = 2 /\ parts[1] = 0 /\ (parts[2] = 0 => len = 2) /\ ~Leads(1)
        BY <1>1, <1>2, <1>4, <2>2
    <3> QED
        BY <1>5, <1>6, <2>2, <3>1
  <2>3. CASE ~(parts[1] > 0 \/ len = 1) /\ ~(parts[2] > 0 \/ len = 2)
    <3>1. c = 3 /\ parts[1] = 0 /\ parts[2] = 0 /\ len = 3 /\ ~Leads(1) /\ ~Leads(2)
        BY <1>1, <1>2, <1>4, <1>5, <2>3
    <3> QED
        BY <1>6, <3>1
  <2> QED
      BY <2>1, <2>2, <2>3
<1>9. c = CHOOSE i \in 1 .. len : Leads(i)
    BY <1>3, <1>7
<1> QED
    BY <1>3, <1>9 DEF c, Leads

LEMMA WhatSatisfies ==
    ASSUME NEW v, IsVersion(v), NEW x \in Numbers, NEW pre
    PROVE  /\ SatisfiedBy([op |-> ">=", than |-> Semver(x, pre)], v) <=> ~SemverLess(v, Semver(x, pre))
           /\ SatisfiedBy([op |-> "<", than |-> Semver(x, ZeroPre)], v) <=> TripleLess(v.nums, x)
           /\ SatisfiedBy([op |-> ">=", than |-> Semver(x, ZeroPre)], v) <=> ~TripleLess(v.nums, x)
           /\ SatisfiedBy([op |-> "=", than |-> Semver(x, pre)], v) <=> v = Semver(x, pre)
           /\ SatisfiedBy([op |-> "<", than |-> Semver(x, pre)], v) <=> SemverLess(v, Semver(x, pre))
           /\ SatisfiedBy([op |-> "<=", than |-> Semver(x, pre)], v) <=> SemverLess(v, Semver(x, pre)) \/ v = Semver(x, pre)
           /\ SatisfiedBy([op |-> ">", than |-> Semver(x, pre)], v) <=> SemverLess(Semver(x, pre), v)
           /\ ~SemverLess(v, Semver(x, pre)) => ~TripleLess(v.nums, x)
<1>1. ~PreLess(v.pre, ZeroPre)
    BY NothingBelowZero DEF IsVersion
<1>2. \A op, than : [op |-> op, than |-> than].op = op /\ [op |-> op, than |-> than].than = than
    OBVIOUS
<1>3. Semver(x, pre).nums = x /\ Semver(x, pre).pre = pre /\ Semver(x, ZeroPre).nums = x /\ Semver(x, ZeroPre).pre = ZeroPre
    BY DEF Semver
<1>4. SemverLess(v, Semver(x, ZeroPre)) <=> TripleLess(v.nums, x)
    BY <1>1, <1>3 DEF SemverLess
<1>5. ~SemverLess(v, Semver(x, pre)) => ~TripleLess(v.nums, x)
    BY <1>3 DEF SemverLess
<1> QED
    BY <1>4, <1>5 DEF SatisfiedBy

\* What the comparators say that a range is read as, and what it is documented to
\* allow, for versions and ranges of any numbers.
LEMMA TokenMeans ==
    ASSUME NEW v, IsVersion(v), NEW t, IsToken(t), t.parts # << >>
    PROVE  (\A c \in Desugar(t) : SatisfiedBy(c, v)) <=> Means(t, v)
<1> DEFINE parts == t.parts
           q == Padded(parts)
           base == Semver(q, t.pre)
           from == AtLeast(parts, t.pre)
           over == [op |-> ">=", than |-> Semver(Bumped(parts), ZeroPre)]
           under == [op |-> "<", than |-> Semver(q, ZeroPre)]
           exact(op) == [op |-> op, than |-> Semver(parts, t.pre)]
           next(n) == BelowNext(SubSeq(parts, 1, n))
           second == IF Len(parts) = 1 THEN 1 ELSE 2
           caret == CaretHolds(parts)
           reaches == ~SemverLess(v, base)
<1>1. parts \in Seq(Nat) /\ t.op \in Ops /\ v.nums \in Numbers
    BY DEF IsToken, IsVersion
<1>2. PICK len \in 1 .. 3 : len = Len(parts)
  <2> DEFINE k == Len(t.parts)
  <2>1. k \in Nat /\ k <= 3 /\ k # 0
      BY <1>1 DEF IsToken
  <2> HIDE DEF k
  <2>2. k \in 1 .. 3
      BY <2>1
  <2> QED
      BY <2>2 DEF k
<1>3. q \in Numbers /\ (len = 3 => q = parts)
    BY <1>1, <1>2, NumbersOf
<1>4. \A n \in 1 .. len : Bumped(SubSeq(parts, 1, n)) \in Numbers
  <2>1. TAKE n \in 1 .. len
  <2>2. n \in 1 .. 3 /\ len \in 0 .. 3 /\ n <= len
      OBVIOUS
  <2> QED
      BY <1>1, <1>2, <2>2, NextOf
<1>5. SubSeq(parts, 1, len) = parts
    BY <1>1, <1>2
<1>6. reaches => ~TripleLess(v.nums, q)
    BY <1>3, WhatSatisfies
<1>7. ASSUME NEW n \in 1 .. len, reaches PROVE SatisfiedBy(next(n), v) <=> Agrees(v, parts, n)
  <2>1. n \in 1 .. 3 /\ len \in 0 .. 3 /\ n <= len
      OBVIOUS
  <2>2. TripleLess(v.nums, Bumped(SubSeq(parts, 1, n))) <=> \A i \in 1 .. n : v.nums[i] = parts[i]
      BY <1>1, <1>2, <1>6, <1>7, <2>1, BelowTheNext
  <2>3. SatisfiedBy(next(n), v) <=> TripleLess(v.nums, Bumped(SubSeq(parts, 1, n)))
      BY <1>4, WhatSatisfies DEF BelowNext
  <2> QED
      BY <2>2, <2>3 DEF Agrees
<1>8. /\ SatisfiedBy(BelowNext(parts), v) <=> TripleLess(v.nums, q) \/ Agrees(v, parts, len)
      /\ SatisfiedBy(over, v) <=> TripleLess(q, v.nums) /\ ~Agrees(v, parts, len)
  <2>1. len \in 1 .. 3 /\ len \in 0 .. 3 /\ len <= len
      OBVIOUS
  <2>2. /\ TripleLess(v.nums, Bumped(parts)) <=> TripleLess(v.nums, q) \/ \A i \in 1 .. len : v.nums[i] = parts[i]
        /\ ~TripleLess(v.nums, Bumped(parts)) <=> TripleLess(q, v.nums) /\ ~\A i \in 1 .. len : v.nums[i] = parts[i]
      BY <1>1, <1>2, <1>5, <2>1, BelowTheNext
  <2>3. Bumped(parts) \in Numbers
    <3>1. Bumped(SubSeq(parts, 1, len)) \in Numbers
        BY <1>4
    <3> QED
        BY <1>5, <3>1
  <2>4. /\ SatisfiedBy(BelowNext(parts), v) <=> TripleLess(v.nums, Bumped(parts))
        /\ SatisfiedBy(over, v) <=> ~TripleLess(v.nums, Bumped(parts))
      BY <2>3, WhatSatisfies DEF BelowNext
  <2> QED
      BY <2>2, <2>4 DEF Agrees
<1>9. /\ SatisfiedBy(from, v) <=> reaches
      /\ SatisfiedBy(under, v) <=> TripleLess(v.nums, q)
    BY <1>3, WhatSatisfies DEF AtLeast
<1>10. len = 3 => /\ SatisfiedBy(exact("="), v) <=> v = base
                  /\ SatisfiedBy(exact("<"), v) <=> SemverLess(v, base)
                  /\ SatisfiedBy(exact("<="), v) <=> SemverLess(v, base) \/ v = base
                  /\ SatisfiedBy(exact(">"), v) <=> SemverLess(base, v)
    BY <1>3, WhatSatisfies
<1>11. CASE t.op = "^"
  <2>1. Desugar(t) = {from, next(caret)}
      BY <1>11 DEF Desugar
  <2>2. caret \in 1 .. len /\ (Means(t, v) <=> Agrees(v, parts, caret) /\ reaches)
    <3>1. /\ caret \in 1 .. len
          /\ caret = CHOOSE i \in 1 .. len : (parts[i] > 0 \/ i = len) /\ \A j \in 1 .. i - 1 : parts[j] = 0
        BY <1>1, <1>2, CaretLeads
    <3>2. LET lead == CHOOSE i \in 1 .. len : (parts[i] > 0 \/ i = len) /\ \A j \in 1 .. i - 1 : parts[j] = 0
          IN  Means(t, v) <=> Agrees(v, parts, lead) /\ reaches
        BY <1>2, <1>11 DEF Means
    <3> QED
        BY <3>1, <3>2
  <2> QED
      BY <1>7, <1>9, <2>1, <2>2
<1>12. CASE t.op = "~"
  <2>1. Desugar(t) = {from, next(second)}
      BY <1>2, <1>5, <1>12 DEF Desugar
  <2>2. second \in 1 .. len /\ (Means(t, v) <=> Agrees(v, parts, second) /\ reaches)
      BY <1>2, <1>12 DEF Means
  <2> QED
      BY <1>7, <1>9, <2>1, <2>2
<1>13. CASE t.op = "="
  <2>1. Desugar(t) = IF len = 3 THEN {exact("=")} ELSE {from, BelowNext(parts)}
      BY <1>2, <1>13 DEF Desugar
  <2>2. Means(t, v) <=> IF len = 3 THEN v = base ELSE Agrees(v, parts, len) /\ reaches
      BY <1>2, <1>13 DEF Means
  <2> QED
      BY <1>6, <1>8, <1>9, <1>10, <2>1, <2>2
<1>14. CASE t.op = ">="
  <2>1. Desugar(t) = {from}
      BY <1>14 DEF Desugar
  <2>2. Means(t, v) <=> reaches
      BY <1>2, <1>14 DEF Means
  <2> QED
      BY <1>9, <2>1, <2>2
<1>15. CASE t.op = "<="
  <2>1. Desugar(t) = IF len = 3 THEN {exact("<=")} ELSE {BelowNext(parts)}
      BY <1>2, <1>15 DEF Desugar
  <2>2. Means(t, v) <=> IF len = 3 THEN SemverLess(v, base) \/ v = base
                        ELSE TripleLess(v.nums, q) \/ Agrees(v, parts, len)
      BY <1>2, <1>15 DEF Means, Semver
  <2> QED
      BY <1>8, <1>10, <2>1, <2>2
<1>16. CASE t.op = ">"
  <2>1. Desugar(t) = IF len = 3 THEN {exact(">")} ELSE {over}
      BY <1>2, <1>16 DEF Desugar
  <2>2. Means(t, v) <=> IF len = 3 THEN SemverLess(base, v) ELSE TripleLess(q, v.nums) /\ ~Agrees(v, parts, len)
      BY <1>2, <1>16 DEF Means, Semver
  <2> QED
      BY <1>8, <1>10, <2>1, <2>2
<1>17. CASE t.op = "<"
  <2>1. Desugar(t) = IF len = 3 THEN {exact("<")} ELSE {under}
      BY <1>2, <1>17 DEF Desugar
  <2>2. Means(t, v) <=> IF len = 3 THEN SemverLess(v, base) ELSE TripleLess(v.nums, q)
      BY <1>2, <1>17 DEF Means, Semver
  <2> QED
      BY <1>9, <1>10, <2>1, <2>2
<1> QED
    BY <1>1, <1>11, <1>12, <1>13, <1>14, <1>15, <1>16, <1>17 DEF Ops

\* A comparator is read from a range with its prerelease, or with the lowest one
\* as an upper bound, which no version with the same numbers is below.
LEMMA TokenOptsIn ==
    ASSUME NEW v, IsVersion(v), NEW t, IsToken(t), v.pre # << >>,
           t.op = ">" => Len(t.parts) = 3,
           \A c \in Desugar(t) : SatisfiedBy(c, v)
    PROVE  (\E c \in Desugar(t) : c.than.pre # << >> /\ c.than.nums = v.nums) <=> t.pre # << >> /\ t.parts = v.nums
<1> DEFINE parts == t.parts
           q == Padded(parts)
           from == AtLeast(parts, t.pre)
           exact == [op |-> t.op, than |-> Semver(parts, t.pre)]
           NamesPre(c) == c.than.pre # << >> /\ c.than.nums = v.nums
<1>1. parts \in Seq(Nat) /\ t.op \in Ops /\ v.nums \in Numbers
    BY DEF IsToken, IsVersion
<1>2. PICK len \in 0 .. 3 : len = Len(parts)
  <2> DEFINE k == Len(t.parts)
  <2>1. k \in Nat /\ k <= 3
      BY <1>1 DEF IsToken
  <2> HIDE DEF k
  <2>2. k \in 0 .. 3
      BY <2>1
  <2> QED
      BY <2>2 DEF k
<1>3. q \in Numbers /\ (len = 3 => q = parts)
    BY <1>1, <1>2, NumbersOf
<1>4. t.pre # << >> => len = 3
    BY <1>2 DEF IsToken
<1>5. NamesPre(from) <=> t.pre # << >> /\ parts = v.nums
    BY <1>3, <1>4 DEF AtLeast, Semver
<1>6. len = 3 => (NamesPre(exact) <=> t.pre # << >> /\ parts = v.nums)
    BY DEF Semver
<1>7. ASSUME NEW x \in Numbers, SatisfiedBy([op |-> "<", than |-> Semver(x, ZeroPre)], v)
      PROVE  ~NamesPre([op |-> "<", than |-> Semver(x, ZeroPre)])
  <2>1. TripleLess(v.nums, x)
      BY <1>7, WhatSatisfies
  <2>2. ~TripleLess(x, x)
    <3>1. x[1] \in Nat /\ x[2] \in Nat /\ x[3] \in Nat
        BY DEF Numbers
    <3> QED
        BY <3>1, TripleIs
  <2> QED
      BY <2>1, <2>2 DEF Semver
<1>8. ASSUME NEW n \in 1 .. len, SatisfiedBy(BelowNext(SubSeq(parts, 1, n)), v)
      PROVE  ~NamesPre(BelowNext(SubSeq(parts, 1, n)))
  <2>1. n \in 1 .. 3 /\ len \in 0 .. 3 /\ n <= len
      OBVIOUS
  <2>2. Bumped(SubSeq(parts, 1, n)) \in Numbers
      BY <1>1, <1>2, <2>1, NextOf
  <2> QED
      BY <1>7, <1>8, <2>2 DEF BelowNext
<1>9. SubSeq(parts, 1, len) = parts /\ (len # 0 => parts # << >>)
    BY <1>1, <1>2
<1>10. len # 0 /\ SatisfiedBy(BelowNext(parts), v) => ~NamesPre(BelowNext(parts))
  <2>1. len # 0 => len \in 1 .. len
      OBVIOUS
  <2> QED
      BY <1>8, <1>9, <2>1
<1> HIDE DEF NamesPre
<1>11. CASE len = 0
  <2>2. parts = << >>
    <3>1. Len(parts) = 0
        BY <1>2, <1>11
    <3> QED
        BY <1>1, <3>1
  <2>1. Desugar(t) = {from}
      BY <2>2 DEF Desugar
  <2> QED
      BY <1>5, <2>1 DEF NamesPre
<1>12. CASE len # 0 /\ t.op = "^"
  <2>1. Desugar(t) = {from, BelowNext(SubSeq(parts, 1, CaretHolds(parts)))}
      BY <1>2, <1>9, <1>12 DEF Desugar
  <2>2. CaretHolds(parts) \in 1 .. len
    <3>1. len \in 1 .. 3
        BY <1>12
    <3> QED
        BY <1>1, <1>2, <3>1, CaretLeads
  <2> QED
      BY <1>5, <1>8, <2>1, <2>2 DEF NamesPre
<1>13. CASE len # 0 /\ t.op = "~"
  <2> DEFINE second == IF len = 1 THEN 1 ELSE 2
  <2>1. Desugar(t) = {from, BelowNext(SubSeq(parts, 1, second))}
    <3>1. Desugar(t) = {from, BelowNext(IF len = 1 THEN parts ELSE SubSeq(parts, 1, 2))}
        BY <1>2, <1>9, <1>13 DEF Desugar
    <3> QED
        BY <1>9, <3>1
  <2>2. second \in 1 .. len
      BY <1>13
  <2> QED
      BY <1>5, <1>8, <2>1, <2>2 DEF NamesPre
<1>14. CASE len # 0 /\ t.op = "="
  <2>1. Desugar(t) = IF len = 3 THEN {exact} ELSE {from, BelowNext(parts)}
      BY <1>2, <1>14 DEF Desugar
  <2> QED
      BY <1>5, <1>6, <1>10, <1>14, <2>1 DEF NamesPre
<1>15. CASE len # 0 /\ t.op = ">="
  <2>1. Desugar(t) = {from}
      BY <1>2, <1>15 DEF Desugar
  <2> QED
      BY <1>5, <2>1 DEF NamesPre
<1>16. CASE len # 0 /\ t.op = "<="
  <2>1. Desugar(t) = IF len = 3 THEN {exact} ELSE {BelowNext(parts)}
      BY <1>2, <1>16 DEF Desugar
  <2> QED
      BY <1>4, <1>6, <1>10, <1>16, <2>1 DEF NamesPre
<1>17. CASE len # 0 /\ t.op = ">"
  <2>1. Desugar(t) = {exact} /\ len = 3
      BY <1>2, <1>17 DEF Desugar
  <2> QED
      BY <1>6, <2>1 DEF NamesPre
<1>18. CASE len # 0 /\ t.op = "<"
  <2>1. Desugar(t) = IF len = 3 THEN {exact} ELSE {[op |-> "<", than |-> Semver(q, ZeroPre)]}
      BY <1>2, <1>18 DEF Desugar
  <2> QED
      BY <1>3, <1>4, <1>6, <1>7, <2>1 DEF NamesPre
<1> QED
    BY <1>1, <1>11, <1>12, <1>13, <1>14, <1>15, <1>16, <1>17, <1>18 DEF Ops

\* One alternative of a range: comparators that all must hold.
LEMMA TokensMean ==
    ASSUME NEW v, IsVersion(v), v.pre # ZeroPre, NEW tokens, \A t \in tokens : IsToken(t),
           v.pre = << >> \/ ~OpenAbove(tokens),
           (\E t \in tokens : t.parts = << >>) => \A t \in tokens : t.pre = << >>
    PROVE  LET comparators == UNION {Desugar(t) : t \in tokens}
           IN  /\ \A c \in comparators : SatisfiedBy(c, v)
               /\ v.pre \notin {<< >>, ZeroPre} => \E c \in comparators : c.than.pre # << >> /\ c.than.nums = v.nums
           <=> /\ \A t \in tokens : Means(t, v)
               /\ v.pre # << >> => OptsIn(tokens, v)
<1> DEFINE Allows(t) == \A c \in Desugar(t) : SatisfiedBy(c, v)
           Names(t) == \E c \in Desugar(t) : c.than.pre # << >> /\ c.than.nums = v.nums
<1>1. SUFFICES /\ \A t \in tokens : Allows(t)
               /\ v.pre # << >> => \E t \in tokens : Names(t)
               <=> /\ \A t \in tokens : Means(t, v)
                   /\ v.pre # << >> => OptsIn(tokens, v)
    OBVIOUS
<1>2. ASSUME NEW t \in tokens, t.parts = << >>, v.pre = << >> PROVE Allows(t) /\ Means(t, v)
  <2>1. Len(t.parts) = 0 /\ t.parts \in Seq(Nat) /\ 0 \in 0 .. 3 /\ v.nums \in Numbers
      BY <1>2 DEF IsVersion, IsToken
  <2>2. Padded(t.parts) \in Numbers /\ \A i \in 1 .. 3 : Padded(t.parts)[i] = 0
    <3>1. Padded(t.parts) \in Numbers /\ \A i \in 1 .. 3 : Padded(t.parts)[i] = IF i <= Len(t.parts) THEN t.parts[i] ELSE 0
        BY <2>1, NumbersOf
    <3>2. \A i \in 1 .. 3 : ~(i <= Len(t.parts))
        BY <2>1
    <3> QED
        BY <3>1, <3>2
  <2>3. ~TripleLess(v.nums, Padded(t.parts))
    <3>1. v.nums[1] \in Nat /\ v.nums[2] \in Nat /\ v.nums[3] \in Nat
        BY <2>1 DEF Numbers
    <3> QED
        BY <2>1, <2>2, <3>1, TripleIs
  <2>4. ~SemverLess(v, Semver(Padded(t.parts), t.pre))
      BY <1>2, <2>3 DEF SemverLess, Semver, PreLess
  <2>5. Desugar(t) = {AtLeast(t.parts, t.pre)}
      BY <1>2 DEF Desugar
  <2>6. Allows(t)
    <3>1. SatisfiedBy(AtLeast(t.parts, t.pre), v)
        BY <2>2, <2>4, WhatSatisfies DEF AtLeast
    <3> QED
        BY <2>5, <3>1
  <2>7. Means(t, v)
      BY <2>1, <2>3 DEF Means, Semver
  <2> QED
      BY <2>6, <2>7
<1>3. ASSUME NEW t \in tokens, t.parts # << >> \/ v.pre = << >> PROVE Allows(t) <=> Means(t, v)
    BY <1>2, <1>3, TokenMeans
<1>4. ASSUME NEW t \in tokens, v.pre # << >>, Allows(t) PROVE Names(t) <=> t.pre # << >> /\ t.parts = v.nums
  <2>1. t.op = ">" => Len(t.parts) = 3
    <3>1. t.op = ">" => ~(Len(t.parts) < 3)
        BY <1>4 DEF OpenAbove
    <3> DEFINE k == Len(t.parts)
    <3>2. k \in Nat /\ k <= 3 /\ (t.op = ">" => ~(k < 3))
        BY <3>1 DEF IsToken
    <3> HIDE DEF k
    <3>3. t.op = ">" => k = 3
        BY <3>2
    <3> QED
        BY <3>3 DEF k
  <2> QED
      BY <1>4, <2>1, TokenOptsIn
<1>5. CASE v.pre = << >>
    BY <1>3, <1>5
<1>6. CASE v.pre # << >> /\ \A t \in tokens : t.parts # << >>
    BY <1>3, <1>4, <1>6 DEF OptsIn
<1>7. CASE v.pre # << >> /\ \E t \in tokens : t.parts = << >>
  <2>1. ~OptsIn(tokens, v)
      BY <1>7 DEF OptsIn
  <2> QED
      BY <1>4, <1>7, <2>1
<1> QED
    BY <1>5, <1>6, <1>7

\* A range of semver.py allows exactly what its text says, for comparators and
\* versions of numbers of any size.  A plain `*` beside a prerelease is left out:
\* it asks for 0.0.0 at least, which the prereleases of 0.0.0 are below.
THEOREM RangesOfAnyNumbers ==
    ASSUME NEW v, IsVersion(v), v.pre # ZeroPre, NEW alternatives,
           \A tokens \in alternatives :
              /\ \A t \in tokens : IsToken(t)
              /\ (\E t \in tokens : t.parts = << >>) => \A t \in tokens : t.pre = << >>
              /\ v.pre = << >> \/ ~OpenAbove(tokens)
    PROVE  InRange(alternatives, v) <=>
              \E tokens \in alternatives : (\A t \in tokens : Means(t, v)) /\ (v.pre # << >> => OptsIn(tokens, v))
<1> DEFINE Satisfies(tokens) ==
             LET comparators == UNION {Desugar(t) : t \in tokens}
             IN  /\ \A c \in comparators : SatisfiedBy(c, v)
                 /\ v.pre \notin {<< >>, ZeroPre} => \E c \in comparators : c.than.pre # << >> /\ c.than.nums = v.nums
           Admits(tokens) == (\A t \in tokens : Means(t, v)) /\ (v.pre # << >> => OptsIn(tokens, v))
<1>1. ASSUME NEW tokens \in alternatives PROVE Satisfies(tokens) <=> Admits(tokens)
    BY TokensMean
<1>2. InRange(alternatives, v) <=> \E tokens \in alternatives : Satisfies(tokens)
    BY DEF InRange
<1> QED
    BY <1>1, <1>2

\* The ranges that a model run reads, and the versions that it tries them on.
LEMMA WhatIsRead ==
    /\ \A v \in Versions : IsVersion(v) /\ v.pre # ZeroPre
    /\ \A tokens \in UNION Ranges :
          /\ \A t \in tokens : IsToken(t)
          /\ (\E t \in tokens : t.parts = << >>) => \A t \in tokens : t.pre = << >>
<1>1. /\ \A p \in Pres \cup {<<NumberId(1)>>} : p \in Identifiers /\ p # ZeroPre
      /\ << >> \in Identifiers
    BY DEF Pres, Identifiers, NumberId, WordId, ZeroPre
<1>2. \A v \in Versions : IsVersion(v) /\ v.pre # ZeroPre
  <2>1. [1 .. 3 -> 0 .. 2] \subseteq Numbers
      BY DEF Numbers
  <2> QED
      BY <1>1, <2>1 DEF Versions, Semver, IsVersion
<1>3. \A n \in 1 .. 3 : \A parts \in [1 .. n -> Digits] : parts \in Seq(Nat) /\ Len(parts) = n /\ parts # << >>
    BY DEF Digits
<1>4. \A t \in Tokens : IsToken(t) /\ (t.parts = << >> => t.pre = << >>)
  <2>1. ASSUME NEW op \in Ops, NEW parts \in UNION {[1 .. n -> Digits] : n \in 1 .. 3}
        PROVE  IsToken(Token(op, parts, << >>))
    <3>1. PICK n \in 1 .. 3 : parts \in [1 .. n -> Digits]
        BY <2>1
    <3>2. parts \in Seq(Nat) /\ Len(parts) = n /\ parts # << >>
        BY <1>3, <3>1
    <3>3. Len(parts) <= 3
        BY <3>2
    <3> QED
        BY <1>1, <3>2, <3>3 DEF IsToken, Token
  <2>2. ASSUME NEW op \in Ops, NEW parts \in [1 .. 3 -> Digits], NEW pre \in Pres
        PROVE  IsToken(Token(op, parts, pre)) /\ parts # << >>
    <3>1. parts \in Seq(Nat) /\ Len(parts) = 3 /\ parts # << >>
        BY <1>3
    <3>2. Len(parts) <= 3
        BY <3>1
    <3> QED
        BY <1>1, <3>1, <3>2 DEF IsToken, Token
  <2>3. IsToken(Token("=", << >>, << >>))
      BY <1>1 DEF IsToken, Token, Ops
  <2> QED
      BY <2>1, <2>2, <2>3 DEF Tokens, Token, Ops
<1>5. \A t \in Ceilings : IsToken(t) /\ t.parts # << >> /\ t.pre = << >>
  <2>1. /\ << 1 >> \in Seq(Nat) /\ Len(<< 1 >>) <= 3 /\ << 1 >> # << >>
        /\ <<1, 1>> \in Seq(Nat) /\ Len(<<1, 1>>) <= 3 /\ <<1, 1>> # << >>
        /\ <<0, 1, 1>> \in Seq(Nat) /\ Len(<<0, 1, 1>>) <= 3 /\ <<0, 1, 1>> # << >>
      OBVIOUS
  <2>2. ASSUME NEW op \in Ops, NEW parts \in {<< 1 >>, <<1, 1>>, <<0, 1, 1>>}
        PROVE  /\ IsToken(Token(op, parts, << >>))
               /\ Token(op, parts, << >>).parts # << >> /\ Token(op, parts, << >>).pre = << >>
      BY <1>1, <2>1 DEF IsToken, Token
  <2> QED
      BY <2>2 DEF Ceilings, Ops
<1> QED
    BY <1>2, <1>4, <1>5 DEF Ranges

RangeInv == range \in Ranges \cup {{}}
LEMMA RangeIsKept == ResolveSpec => []RangeInv
<1>1. ResolveInit => RangeInv
    BY DEF ResolveInit, RangeInv
<1>2. RangeInv /\ [ResolveNext]_resolveVars => RangeInv'
  <2> SUFFICES ASSUME RangeInv, [ResolveNext]_resolveVars PROVE RangeInv'
      OBVIOUS
  <2>1. range' = range
      BY DEF ResolveNext, Publish, Begin, VisitNpm, VisitGo, VisitMaven, resolveVars
  <2> QED
      BY <2>1 DEF RangeInv
<1> QED
    BY <1>1, <1>2, PTL DEF ResolveSpec

LEMMA RangesMean == RangeInv => RangesMeanTheirText
<1> SUFFICES ASSUME RangeInv, NEW v \in Versions, v.pre = << >> \/ \A tokens \in range : ~OpenAbove(tokens)
             PROVE  InRange(range, v) <=>
                      \E tokens \in range : (\A t \in tokens : Means(t, v)) /\ (v.pre # << >> => OptsIn(tokens, v))
    BY DEF RangesMeanTheirText
<1>1. IsVersion(v) /\ v.pre # ZeroPre
    BY WhatIsRead
<1>2. ASSUME NEW tokens \in range
      PROVE  /\ \A t \in tokens : IsToken(t)
             /\ (\E t \in tokens : t.parts = << >>) => \A t \in tokens : t.pre = << >>
  <2>1. tokens \in UNION Ranges
      BY DEF RangeInv
  <2> QED
      BY <2>1, WhatIsRead
<1> QED
    BY <1>1, <1>2, RangesOfAnyNumbers

(***************************************************************************)
(* The graphs of Go and Maven                                              *)
(***************************************************************************)

LEMMA CountUp ==
    ASSUME NEW n \in Nat, NEW G, 0 \in G, \A k \in 1 .. n : k - 1 \in G => k \in G
    PROVE  \A k \in 0 .. n : k \in G
<1> DEFINE bad == {k \in 0 .. n : k \notin G}
<1> SUFFICES ASSUME bad # {} PROVE FALSE
    OBVIOUS
<1>1. bad \subseteq Nat
    OBVIOUS
<1>2. PICK x \in bad : \A y \in bad : ~(<<y, x>> \in OpToRel(<, Nat))
  <2> HIDE DEF bad
  <2> QED
    BY <1>1, NatLessThanWellFounded, WFMin, Zenon
<1>3. \A y \in bad : ~(y < x)
    BY <1>1, <1>2 DEF OpToRel
<1>4. x \in 1 .. n /\ x - 1 \in 0 .. n /\ x - 1 < x
    OBVIOUS
<1>5. x - 1 \in G
    BY <1>3, <1>4
<1> QED
    BY <1>4, <1>5

Follows(f, n, S, base, step) ==
    f \in [0 .. n -> S] /\ f[0] = base /\ \A k \in 1 .. n : f[k] = step[k][f[k - 1]]
Runs(n, S, base, step) == \E f : Follows(f, n, S, base, step)

LEMMA LoopRuns ==
    ASSUME NEW n \in Nat, NEW S, NEW base \in S, NEW step \in [1 .. n -> [S -> S]]
    PROVE  Runs(n, S, base, step)
<1> DEFINE runs(m) == {f \in [0 .. m -> S] : f[0] = base /\ \A k \in 1 .. m : f[k] = step[k][f[k - 1]]}
           G == {m \in 0 .. n : runs(m) # {}}
<1>1. 0 \in G
  <2> DEFINE f == [k \in 0 .. 0 |-> base]
  <2>1. f \in runs(0)
      OBVIOUS
  <2> QED
      BY <2>1
<1>2. ASSUME NEW m \in 1 .. n, m - 1 \in G PROVE m \in G
  <2>1. PICK f \in [0 .. m - 1 -> S] : f[0] = base /\ \A k \in 1 .. m - 1 : f[k] = step[k][f[k - 1]]
      BY <1>2
  <2> DEFINE g == [k \in 0 .. m |-> IF k = m THEN step[m][f[m - 1]] ELSE f[k]]
  <2>2. f[m - 1] \in S /\ step[m][f[m - 1]] \in S
    <3>1. m - 1 \in 0 .. m - 1
        OBVIOUS
    <3>2. step[m] \in [S -> S]
        OBVIOUS
    <3> QED
        BY <2>1, <3>1, <3>2
  <2>3. g \in [0 .. m -> S]
    <3> SUFFICES ASSUME NEW k \in 0 .. m PROVE (IF k = m THEN step[m][f[m - 1]] ELSE f[k]) \in S
        OBVIOUS
    <3>1. k # m => k \in 0 .. m - 1
        OBVIOUS
    <3> QED
        BY <2>2, <3>1
  <2>4. g[0] = base
      BY <2>1
  <2>5. ASSUME NEW k \in 1 .. m PROVE g[k] = step[k][g[k - 1]]
    <3>1. CASE k = m
        BY <3>1
    <3>2. CASE k # m
      <4>1. k \in 1 .. m - 1 /\ k \in 0 .. m /\ k - 1 \in 0 .. m /\ k - 1 # m
          BY <3>2
      <4>2. g[k] = f[k] /\ g[k - 1] = f[k - 1]
          BY <4>1, <3>2
      <4> QED
          BY <2>1, <4>1, <4>2
    <3> QED
        BY <3>1, <3>2
  <2>6. g \in runs(m)
      BY <2>3, <2>4, <2>5
  <2> QED
      BY <2>6
<1>3. \A k \in 0 .. n : k \in G
  <2> HIDE DEF G
  <2> QED
      BY <1>1, <1>2, CountUp
<1>4. n \in G
    BY <1>3
<1>5. PICK f \in [0 .. n -> S] : f[0] = base /\ \A k \in 1 .. n : f[k] = step[k][f[k - 1]]
    BY <1>4
<1>6. Follows(f, n, S, base, step)
    BY <1>5 DEF Follows
<1> QED
    BY <1>6 DEF Runs

LEMMA LinedUp ==
    ASSUME NEW S, IsFiniteSet(S)
    PROVE  LET s == SetToSeq(S)
           IN  /\ s \in Seq(S) /\ Len(s) \in Nat
               /\ \A i, j \in 1 .. Len(s) : s[i] = s[j] => i = j
               /\ \A x \in S : \E i \in 1 .. Len(s) : s[i] = x
<1> DEFINE n == Cardinality(S)
           Lines(f) == f \in [1 .. n -> S] /\ IsInjective(f)
           s == CHOOSE f \in [1 .. n -> S] : IsInjective(f)
<1>1. n \in Nat /\ ExistsBijection(1 .. n, S)
  <2>1. PICK m \in Nat : ExistsBijection(1 .. m, S)
      BY FS_NatBijection
  <2>2. n = m
      BY <2>1, FS_CountingElements
  <2> QED
      BY <2>1, <2>2
<1>2. PICK f : f \in Bijection(1 .. n, S)
    BY <1>1 DEF ExistsBijection
<1>3. Lines(f)
    BY <1>2 DEF Bijection, Injection, IsInjective
<1>4. Lines(s)
  <2>1. \E g \in [1 .. n -> S] : IsInjective(g)
      BY <1>3
  <2> QED
      BY <2>1
<1>5. SetToSeq(S) = s
    BY DEF SetToSeq
<1> HIDE DEF s, n
<1>6. s \in Injection(1 .. n, S)
    BY <1>4 DEF Injection, IsInjective
<1>7. IsFiniteSet(1 .. n) /\ Cardinality(1 .. n) = n
    BY <1>1, FS_Interval
<1>8. s \in Surjection(1 .. n, S)
    BY <1>6, <1>7, FS_Injection DEF n
<1>9. s \in Seq(S) /\ Len(s) = n
    BY <1>1, <1>4
<1>10. \A i, j \in 1 .. n : s[i] = s[j] => i = j
    BY <1>4 DEF IsInjective
<1>11. \A x \in S : \E i \in 1 .. n : s[i] = x
    BY <1>8 DEF Surjection
<1> QED
    BY <1>1, <1>5, <1>9, <1>10, <1>11

Most == Cardinality(Published)
\* One version of a package is asked for.
AsksOne(name, allowed) == \E p \in Published : p[1] = name /\ allowed = {p[2]}
\* What the project leads to itself, and what some packages lead to.
Rooted == {Meant(need) : need \in AskedByRoot}
Follow(ps) == {Meant(need) : need \in AskedBy(ps)}
Target(name, allowed) == Meant(<<Project, name, allowed>>)

Items == [parent : PublishedNames \cup {Project}, name : PublishedNames, allowed : SUBSET Nat, depth : Nat]
AskOne(s) == \A i \in DOMAIN s : AsksOne(s[i].name, s[i].allowed)
\* The packages that some items of the work list stand for, each with its depth.
Stands(s) == {<<Target(s[i].name, s[i].allowed), s[i].depth>> : i \in DOMAIN s}

GraphInv ==
    /\ IsFiniteSet(requires)
    /\ \A r \in requires : r[1] \in Published /\ r[2] \in PublishedNames /\ r[3] \in SUBSET Nat /\ AsksOne(r[2], r[3])
    /\ roots \in Seq(PublishedNames \X SUBSET Nat)
    /\ \A i \in DOMAIN roots : AsksOne(roots[i][1], roots[i][2])
    /\ \A n \in DOMAIN managed : managed[n] \in Published
    /\ work \in Seq(Items) /\ AskOne(work)
    /\ visited \in SUBSET Published
    /\ roots = << >> => work = << >> /\ visited = {} /\ selected = << >>

LEMMA TargetIs ==
    ASSUME \A n \in DOMAIN managed : managed[n] \in Published, NEW name, NEW allowed, AsksOne(name, allowed)
    PROVE  /\ Target(name, allowed) \in Published
           /\ tool # "go" => Target(name, allowed)[1] = name /\ allowed = {Target(name, allowed)[2]}
<1>1. PICK p \in Published : p[1] = name /\ allowed = {p[2]}
    BY DEF AsksOne
<1> DEFINE need == <<Project, name, allowed>>
<1>2. p = <<name, p[2]>> /\ need[2] = name /\ need[3] = {p[2]}
    BY <1>1, PublishedAreVersions
<1> HIDE DEF need
<1>3. (CHOOSE v \in need[3] : TRUE) = p[2]
    BY <1>2
<1>4. Target(name, allowed) = Meant(need)
    BY DEF Target, need
<1>5. Target(name, allowed) = IF tool = "go" THEN InPlaceOf(name, p[2]) ELSE <<name, p[2]>>
    BY <1>2, <1>3, <1>4 DEF Meant
<1> QED
    BY <1>1, <1>2, <1>5 DEF InPlaceOf

LEMMA FollowIs ==
    ASSUME NEW ps, NEW x
    PROVE  /\ x \in Follow(ps) <=> \E r \in requires : r[1] \in ps /\ x = Target(r[2], r[3])
           /\ x \in Rooted <=> \E i \in DOMAIN roots : x = Target(roots[i][1], roots[i][2])
<1>1. \A parent, name, allowed : Meant(<<parent, name, allowed>>) = Target(name, allowed)
    BY DEF Meant, Target
<1> QED
    BY <1>1 DEF Follow, Rooted, AskedBy, AskedByRoot

LEMMA RootedIs == \A x : x \in Rooted <=> \E i \in DOMAIN roots : x = Target(roots[i][1], roots[i][2])
    BY FollowIs

LEMMA StaysPublished ==
    ASSUME GraphInv
    PROVE  Rooted \in SUBSET Published /\ \A ps : Follow(ps) \in SUBSET Published
<1>1. ASSUME NEW name, NEW allowed, AsksOne(name, allowed) PROVE Target(name, allowed) \in Published
    BY <1>1, TargetIs DEF GraphInv
<1>2. ASSUME NEW x \in Rooted PROVE x \in Published
  <2>1. PICK i \in DOMAIN roots : x = Target(roots[i][1], roots[i][2])
      BY FollowIs
  <2> QED
      BY <1>1, <2>1 DEF GraphInv
<1>3. ASSUME NEW ps, NEW x \in Follow(ps) PROVE x \in Published
  <2>1. PICK r \in requires : x = Target(r[2], r[3])
      BY FollowIs
  <2> QED
      BY <1>1, <2>1 DEF GraphInv
<1> QED
    BY <1>2, <1>3

Grows(f, n) ==
    /\ f \in [0 .. n -> SUBSET Published] /\ f[0] = Rooted
    /\ \A k \in 1 .. n : f[k] = f[k - 1] \cup Follow(f[k - 1])

LEMMA ReachGrows ==
    ASSUME GraphInv
    PROVE  Grows(Reach, Most) /\ Most \in Nat
<1> DEFINE S == SUBSET Published
           step == [k \in 1 .. Most |-> [ps \in S |-> ps \cup Follow(ps)]]
           Recurs(f) == f = [k \in 0 .. Most |-> IF k = 0 THEN Rooted ELSE f[k - 1] \cup Follow(f[k - 1])]
<1>1. Most \in Nat
    BY PublishedAreVersions, FS_CardinalityType DEF Most
<1>2. step \in [1 .. Most -> [S -> S]] /\ Rooted \in S
    BY StaysPublished
<1>3. PICK f : Follows(f, Most, S, Rooted, step)
  <2> HIDE DEF step, S
  <2> QED
      BY <1>1, <1>2, LoopRuns DEF Runs
<1>4. Grows(f, Most)
  <2>1. ASSUME NEW k \in 1 .. Most PROVE f[k] = f[k - 1] \cup Follow(f[k - 1])
    <3>1. k - 1 \in 0 .. Most
        BY <1>1
    <3> QED
        BY <1>3, <3>1 DEF Follows
  <2> QED
      BY <1>3, <2>1 DEF Follows, Grows
<1>5. Recurs(f)
  <2>1. \A k \in 0 .. Most : f[k] = IF k = 0 THEN Rooted ELSE f[k - 1] \cup Follow(f[k - 1])
      BY <1>1, <1>4 DEF Grows
  <2> QED
      BY <1>4, <2>1 DEF Grows
<1>6. Reach = CHOOSE g : Recurs(g)
    BY DEF Reach, Most, Rooted, Follow
<1> HIDE DEF Recurs
<1>7. Recurs(Reach)
    BY <1>5, <1>6
<1>8. \A k \in 0 .. Most : Reach[k] = IF k = 0 THEN Rooted ELSE Reach[k - 1] \cup Follow(Reach[k - 1])
    BY <1>7 DEF Recurs
<1>12. 0 \in 0 .. Most /\ Reach[0] = Rooted
  <2>1. 0 \in 0 .. Most
      BY <1>1
  <2> QED
      BY <1>8, <2>1
<1>9. \A k \in 0 .. Most : Reach[k] \in S
  <2> DEFINE G == {k \in 0 .. Most : Reach[k] \in S}
  <2>1. 0 \in G
      BY <1>2, <1>12
  <2>2. ASSUME NEW k \in 1 .. Most, k - 1 \in G PROVE k \in G
    <3>1. k \in 0 .. Most /\ k # 0
        BY <1>1
    <3>2. Reach[k] = Reach[k - 1] \cup Follow(Reach[k - 1])
        BY <1>8, <3>1
    <3> QED
        BY <2>2, <3>1, <3>2, StaysPublished
  <2> HIDE DEF G
  <2>3. \A k \in 0 .. Most : k \in G
      BY <1>1, <2>1, <2>2, CountUp
  <2> QED
      BY <2>3 DEF G
<1>10. Reach \in [0 .. Most -> S]
    BY <1>7, <1>9 DEF Recurs
<1>11. ASSUME NEW k \in 1 .. Most PROVE Reach[k] = Reach[k - 1] \cup Follow(Reach[k - 1])
  <2>1. k \in 0 .. Most /\ k # 0
      BY <1>1
  <2> QED
      BY <1>8, <2>1
<1> QED
    BY <1>1, <1>8, <1>10, <1>11, <1>12 DEF Grows


\* After as many steps as there are packages nothing new is met: as long as
\* something is, there is one more of them at each step.
LEMMA ReachCloses ==
    ASSUME GraphInv, roots # << >>
    PROVE  Follow(Reach[Most]) \subseteq Reach[Most]
<1>1. Grows(Reach, Most) /\ Most \in Nat
    BY ReachGrows
<1> DEFINE Closed(k) == Follow(Reach[k]) \subseteq Reach[k]
           G == {k \in 0 .. Most : Closed(k) \/ Cardinality(Reach[k]) >= k + 1}
<1>2. \A k \in 0 .. Most : Reach[k] \in SUBSET Published /\ IsFiniteSet(Reach[k]) /\ Cardinality(Reach[k]) \in Nat
  <2>1. ASSUME NEW k \in 0 .. Most
        PROVE  Reach[k] \in SUBSET Published /\ IsFiniteSet(Reach[k]) /\ Cardinality(Reach[k]) \in Nat
    <3>1. Reach[k] \in SUBSET Published
        BY <1>1 DEF Grows
    <3>2. IsFiniteSet(Reach[k])
        BY <3>1, FS_Subset, PublishedAreVersions
    <3> QED
        BY <3>1, <3>2, FS_CardinalityType
  <2> QED
      BY <2>1
<1>3. 0 \in G
  <2>1. 0 \in 0 .. Most /\ Reach[0] = Rooted
      BY <1>1 DEF Grows
  <2>2. Rooted # {}
    <3>1. 1 \in DOMAIN roots
        BY DEF GraphInv
    <3>2. Target(roots[1][1], roots[1][2]) \in Rooted
        BY <3>1, FollowIs
    <3> QED
        BY <3>2
  <2>3. Cardinality(Reach[0]) # 0
      BY <1>2, <2>1, <2>2, FS_EmptySet
  <2>4. Cardinality(Reach[0]) >= 0 + 1
      BY <1>2, <2>1, <2>3
  <2> QED
      BY <2>1, <2>4
<1>4. ASSUME NEW k \in 1 .. Most, k - 1 \in G PROVE k \in G
  <2>1. k \in 0 .. Most /\ k - 1 \in 0 .. Most /\ Reach[k] = Reach[k - 1] \cup Follow(Reach[k - 1])
      BY <1>1 DEF Grows
  <2>2. CASE Closed(k - 1)
    <3>1. Reach[k] = Reach[k - 1]
        BY <2>1, <2>2
    <3>2. Closed(k)
        BY <2>2, <3>1
    <3> QED
        BY <2>1, <3>2
  <2>3. CASE ~Closed(k - 1)
    <3>1. Reach[k - 1] \in SUBSET Reach[k] /\ Reach[k - 1] # Reach[k]
        BY <2>1, <2>3
    <3>2. Cardinality(Reach[k - 1]) <= Cardinality(Reach[k]) /\ Cardinality(Reach[k - 1]) # Cardinality(Reach[k])
        BY <1>2, <2>1, <3>1, FS_Subset
    <3>3. Cardinality(Reach[k - 1]) >= k - 1 + 1
        BY <1>4, <2>3
    <3>4. Cardinality(Reach[k]) >= k + 1
      <4> DEFINE one == Cardinality(Reach[k - 1])
                 other == Cardinality(Reach[k])
      <4>1. one \in Nat /\ other \in Nat
          BY <1>2, <2>1
      <4>2. one <= other /\ one # other /\ one >= k - 1 + 1
          BY <3>2, <3>3
      <4> HIDE DEF one, other
      <4>3. other >= k + 1
          BY <4>1, <4>2
      <4> QED
          BY <4>3 DEF other
    <3> QED
        BY <2>1, <3>4
  <2> QED
      BY <2>2, <2>3
<1>5. Most \in 0 .. Most /\ Most \in G
  <2> HIDE DEF G
  <2>1. \A k \in 0 .. Most : k \in G
      BY <1>1, <1>3, <1>4, CountUp
  <2>2. Most \in 0 .. Most
      BY <1>1
  <2> QED
      BY <2>1, <2>2
<1>6. Cardinality(Reach[Most]) <= Most
    BY <1>2, <1>5, FS_Subset, PublishedAreVersions DEF Most
<1>7. ~(Cardinality(Reach[Most]) >= Most + 1)
    BY <1>1, <1>2, <1>5, <1>6
<1> QED
    BY <1>5, <1>7


LEMMA GraphStays ==
    ASSUME UNCHANGED <<tool, requires, roots, managed>>
    PROVE  /\ Rooted' = Rooted
           /\ \A ps : Follow(ps)' = Follow(ps)
           /\ \A name, allowed : Target(name, allowed)' = Target(name, allowed)
           /\ \A s : Stands(s)' = Stands(s)
<1>1. \A name, allowed : Target(name, allowed)' = Target(name, allowed)
    BY DEF Target, Meant, InPlaceOf
<1>2. Rooted' = Rooted
    BY DEF Rooted, AskedByRoot, Meant, InPlaceOf
<1>3. \A ps : Follow(ps)' = Follow(ps)
    BY DEF Follow, AskedBy, Meant, InPlaceOf
<1>4. \A s : Stands(s)' = Stands(s)
    BY <1>1 DEF Stands
<1> QED
    BY <1>1, <1>2, <1>3, <1>4

\* The requirements of a package as items of work.
Required(p) == {q \in requires : q[1] = p}
LEMMA ItemsRange ==
    ASSUME IsFiniteSet(requires), \A r \in requires : r[2] \in PublishedNames /\ r[3] \in SUBSET Nat,
           NEW p \in Published, NEW depth \in Nat
    PROVE  /\ ItemsOf(p, depth) \in Seq(Items)
           /\ Range(ItemsOf(p, depth)) = {Item(p[1], r[2], r[3], depth) : r \in Required(p)}
           /\ \A r \in Required(p) :
                LET item == Item(p[1], r[2], r[3], depth)
                IN  item.parent = p[1] /\ item.name = r[2] /\ item.allowed = r[3] /\ item.depth = depth
<1> DEFINE rs == Required(p)
           S == {Item(p[1], r[2], r[3], depth) : r \in rs}
           s == SetToSeq(S)
<1>1. p[1] \in PublishedNames
    BY DEF PublishedNames
<1>2. ASSUME NEW r \in rs
      PROVE  /\ Item(p[1], r[2], r[3], depth) \in Items
             /\ Item(p[1], r[2], r[3], depth).parent = p[1]
             /\ Item(p[1], r[2], r[3], depth).name = r[2] /\ Item(p[1], r[2], r[3], depth).allowed = r[3]
             /\ Item(p[1], r[2], r[3], depth).depth = depth
    BY <1>1 DEF Item, Items, Required
<1>3. IsFiniteSet(S)
  <2>1. IsFiniteSet(rs)
      BY FS_Subset DEF Required
  <2> DEFINE f == [r \in rs |-> Item(p[1], r[2], r[3], depth)]
  <2>2. f \in Surjection(rs, S)
      BY DEF Surjection
  <2> HIDE DEF f, S, rs
  <2> QED
      BY <2>1, <2>2, FS_Surjection
<1>4. s \in Seq(S) /\ Range(s) = S
  <2> HIDE DEF S
  <2>1. s \in Seq(S) /\ \A x \in S : \E i \in 1 .. Len(s) : s[i] = x
      BY <1>3, LinedUp
  <2> QED
      BY <2>1 DEF Range
<1>5. ItemsOf(p, depth) = s
    BY DEF ItemsOf, Required
<1>6. s \in Seq(Items)
  <2>1. S \subseteq Items
      BY <1>2
  <2> HIDE DEF S
  <2> QED
      BY <1>4, <2>1
<1> HIDE DEF s
<1> QED
    BY <1>2, <1>4, <1>5, <1>6

LEMMA ItemsAre ==
    ASSUME GraphInv, NEW p \in Published, NEW depth \in Nat
    PROVE  LET s == ItemsOf(p, depth)
           IN  /\ s \in Seq(Items) /\ AskOne(s)
               /\ Stands(s) = {<<x, depth>> : x \in Follow({p})}
               /\ \A i \in DOMAIN s : s[i].depth = depth
<1> DEFINE s == ItemsOf(p, depth)
           rs == Required(p)
           Of(r) == Item(p[1], r[2], r[3], depth)
<1>1. /\ s \in Seq(Items) /\ Range(s) = {Of(r) : r \in rs}
      /\ \A r \in rs : Of(r).name = r[2] /\ Of(r).allowed = r[3] /\ Of(r).depth = depth
    BY ItemsRange DEF GraphInv
<1>2. \A r \in rs : AsksOne(r[2], r[3])
    BY DEF GraphInv, Required
<1> HIDE DEF s, Of
<1>3. /\ \A i \in DOMAIN s : \E r \in rs : s[i] = Of(r)
      /\ \A r \in rs : \E i \in DOMAIN s : s[i] = Of(r)
    BY <1>1 DEF Range
<1>4. AskOne(s) /\ \A i \in DOMAIN s : s[i].depth = depth
    BY <1>1, <1>2, <1>3 DEF AskOne
<1>5. \A i \in DOMAIN s : \E r \in rs : <<Target(s[i].name, s[i].allowed), s[i].depth>> = <<Target(r[2], r[3]), depth>>
    BY <1>1, <1>3
<1>6. \A r \in rs : \E i \in DOMAIN s : <<Target(s[i].name, s[i].allowed), s[i].depth>> = <<Target(r[2], r[3]), depth>>
    BY <1>1, <1>3
<1>7. \A x : x \in Follow({p}) <=> \E r \in rs : x = Target(r[2], r[3])
    BY FollowIs DEF Required
<1>8. Stands(s) = {<<x, depth>> : x \in Follow({p})}
  <2>1. \A x \in Follow({p}) : <<x, depth>> \in Stands(s)
      BY <1>6, <1>7 DEF Stands
  <2>2. \A h \in Stands(s) : \E x \in Follow({p}) : h = <<x, depth>>
      BY <1>5, <1>7 DEF Stands
  <2> QED
      BY <2>1, <2>2
<1> QED
    BY <1>1, <1>4, <1>8 DEF s

LEMMA RangeSplit ==
    ASSUME NEW S, NEW s \in Seq(S), NEW t \in Seq(S)
    PROVE  /\ s \o t \in Seq(S) /\ Range(s \o t) = Range(s) \cup Range(t)
           /\ s # << >> => /\ Head(s) = s[1] /\ Head(s) \in S /\ Last(s) \in S
                           /\ Tail(s) \in Seq(S) /\ Front(s) \in Seq(S)
                           /\ Range(s) = Range(Tail(s)) \cup {Head(s)}
                           /\ Range(s) = Range(Front(s)) \cup {Last(s)}
<1>1. /\ s \o t \in Seq(S) /\ Len(s) \in Nat /\ Len(t) \in Nat /\ DOMAIN s = 1 .. Len(s) /\ DOMAIN t = 1 .. Len(t)
      /\ DOMAIN (s \o t) = 1 .. Len(s) + Len(t)
      /\ \A i \in 1 .. Len(s) + Len(t) : (s \o t)[i] = IF i <= Len(s) THEN s[i] ELSE t[i - Len(s)]
    OBVIOUS
<1>2. \A i \in DOMAIN s : i \in DOMAIN (s \o t) /\ (s \o t)[i] = s[i]
    BY <1>1
<1>3. \A i \in DOMAIN t : i + Len(s) \in DOMAIN (s \o t) /\ (s \o t)[i + Len(s)] = t[i]
  <2> TAKE i \in DOMAIN t
  <2>1. i \in Nat /\ i >= 1 /\ i <= Len(t) /\ i + Len(s) \in 1 .. Len(s) + Len(t) /\ ~(i + Len(s) <= Len(s)) /\ i + Len(s) - Len(s) = i
      BY <1>1
  <2> QED
      BY <1>1, <2>1
<1>4. \A i \in DOMAIN (s \o t) : (\E j \in DOMAIN s : (s \o t)[i] = s[j]) \/ (\E j \in DOMAIN t : (s \o t)[i] = t[j])
  <2> TAKE i \in DOMAIN (s \o t)
  <2>1. CASE i <= Len(s)
      BY <1>1, <2>1
  <2>2. CASE ~(i <= Len(s))
    <3>1. i - Len(s) \in DOMAIN t
        BY <1>1, <2>2
    <3> QED
        BY <1>1, <2>2, <3>1
  <2> QED
      BY <2>1, <2>2
<1> DEFINE c == s \o t
<1>5. Range(c) = Range(s) \cup Range(t)
  <2>1. \A i \in DOMAIN s : i \in DOMAIN c /\ c[i] = s[i]
      BY <1>2
  <2>2. \A i \in DOMAIN t : i + Len(s) \in DOMAIN c /\ c[i + Len(s)] = t[i]
      BY <1>3
  <2>3. \A i \in DOMAIN c : (\E j \in DOMAIN s : c[i] = s[j]) \/ (\E j \in DOMAIN t : c[i] = t[j])
      BY <1>4
  <2> HIDE DEF c
  <2> QED
      BY <2>1, <2>2, <2>3 DEF Range
<1>6. ASSUME s # << >>
      PROVE  /\ Head(s) = s[1] /\ Head(s) \in S /\ Last(s) \in S
             /\ Tail(s) \in Seq(S) /\ Front(s) \in Seq(S)
             /\ Range(s) = Range(Tail(s)) \cup {Head(s)}
             /\ Range(s) = Range(Front(s)) \cup {Last(s)}
  <2>1. /\ Len(s) # 0 /\ 1 \in DOMAIN s /\ Len(s) \in DOMAIN s
        /\ Head(s) = s[1] /\ Tail(s) \in Seq(S) /\ Len(Tail(s)) = Len(s) - 1
        /\ \A i \in 1 .. Len(s) - 1 : Tail(s)[i] = s[i + 1]
      BY <1>1, <1>6
  <2>2. /\ Front(s) \in Seq(S) /\ Len(Front(s)) = Len(s) - 1 /\ Last(s) = s[Len(s)]
        /\ \A i \in 1 .. Len(s) - 1 : Front(s)[i] = s[i]
      BY <1>1, <2>1 DEF Front, Last
  <2> DEFINE f == Front(s)
             tl == Tail(s)
             h == Head(s)
             l == Last(s)
  <2>3. DOMAIN f = 1 .. Len(s) - 1 /\ DOMAIN tl = 1 .. Len(s) - 1 /\ h \in S /\ l \in S
      BY <1>1, <2>1, <2>2
  <2>4. \A i \in DOMAIN f : i \in DOMAIN s /\ f[i] = s[i]
      BY <1>1, <2>2, <2>3
  <2>5. \A i \in DOMAIN tl : i + 1 \in DOMAIN s /\ tl[i] = s[i + 1]
      BY <1>1, <2>1, <2>3
  <2>6. \A i \in DOMAIN s : (i \in DOMAIN f /\ f[i] = s[i]) \/ s[i] = l
      BY <1>1, <2>2, <2>3
  <2>7. \A i \in DOMAIN s : (i - 1 \in DOMAIN tl /\ tl[i - 1] = s[i]) \/ s[i] = h
    <3> TAKE i \in DOMAIN s
    <3>1. CASE i = 1
        BY <2>1, <3>1
    <3>2. CASE i # 1
      <4>1. i - 1 \in 1 .. Len(s) - 1 /\ i - 1 + 1 = i
          BY <1>1, <3>2
      <4> QED
          BY <2>1, <2>3, <4>1
    <3> QED
        BY <3>1, <3>2
  <2> HIDE DEF f, tl, h, l
  <2>8. s[1] = h /\ s[Len(s)] = l
      BY <2>1, <2>2 DEF h, l
  <2>9. Range(s) = Range(tl) \cup {h}
      BY <2>1, <2>5, <2>7, <2>8 DEF Range
  <2>10. Range(s) = Range(f) \cup {l}
      BY <2>1, <2>4, <2>6, <2>8 DEF Range
  <2> QED
      BY <2>1, <2>2, <2>3, <2>9, <2>10 DEF f, tl, h, l
<1> QED
    BY <1>1, <1>5, <1>6

Splits(s) ==
    /\ Head(s) = s[1] /\ Tail(s) \in Seq(Items) /\ Front(s) \in Seq(Items)
    /\ Last(s) \in Items /\ Head(s) \in Items
    /\ AskOne(s) => /\ AskOne(Tail(s)) /\ AsksOne(Head(s).name, Head(s).allowed)
                    /\ AskOne(Front(s)) /\ AsksOne(Last(s).name, Last(s).allowed)
    /\ Stands(s) = Stands(Tail(s)) \cup {<<Target(Head(s).name, Head(s).allowed), Head(s).depth>>}
    /\ Stands(s) = Stands(Front(s)) \cup {<<Target(Last(s).name, Last(s).allowed), Last(s).depth>>}

LEMMA StandsSplit ==
    ASSUME NEW s \in Seq(Items), NEW t \in Seq(Items)
    PROVE  /\ s \o t \in Seq(Items)
           /\ Stands(s \o t) = Stands(s) \cup Stands(t)
           /\ AskOne(s) /\ AskOne(t) => AskOne(s \o t)
           /\ s # << >> => Splits(s)
<1> DEFINE Of(item) == <<Target(item.name, item.allowed), item.depth>>
<1>1. \A q : Stands(q) = {Of(x) : x \in Range(q)}
    BY DEF Stands, Range
<1>2. \A q : AskOne(q) <=> \A x \in Range(q) : AsksOne(x.name, x.allowed)
    BY DEF AskOne, Range
<1> DEFINE c == s \o t
<1>3. c \in Seq(Items) /\ Range(c) = Range(s) \cup Range(t)
    BY RangeSplit
<1> HIDE DEF c, Of
<1>4. Stands(c) = Stands(s) \cup Stands(t) /\ (AskOne(s) /\ AskOne(t) => AskOne(c))
    BY <1>1, <1>2, <1>3
<1>5. ASSUME s # << >> PROVE Splits(s)
  <2> DEFINE f == Front(s)
             tl == Tail(s)
             h == Head(s)
             l == Last(s)
  <2>1. /\ h = s[1] /\ h \in Items /\ l \in Items /\ tl \in Seq(Items) /\ f \in Seq(Items)
        /\ Range(s) = Range(tl) \cup {h} /\ Range(s) = Range(f) \cup {l}
      BY <1>5, RangeSplit
  <2> HIDE DEF f, tl, h, l
  <2>2. Stands(s) = Stands(tl) \cup {Of(h)} /\ Stands(s) = Stands(f) \cup {Of(l)}
      BY <1>1, <2>1
  <2>3. AskOne(s) => AskOne(tl) /\ AskOne(f) /\ AsksOne(h.name, h.allowed) /\ AsksOne(l.name, l.allowed)
      BY <1>2, <2>1
  <2> QED
      BY <2>1, <2>2, <2>3 DEF Splits, Of, f, tl, h, l
<1> QED
    BY <1>3, <1>4, <1>5 DEF c

LEMMA AskableIsOne ==
    ASSUME tool \in {"go", "maven"}, NEW name, NEW allowed \in Askable(name)
    PROVE  AsksOne(name, allowed) /\ allowed \in SUBSET Nat /\ name \in PublishedNames
<1>1. PICK v \in VersionsIn(name) : allowed = {v}
    BY DEF Askable
<1>2. PICK p \in Published : p[1] = name /\ v = p[2]
    BY DEF VersionsIn
<1> QED
    BY <1>1, <1>2, PublishedAreVersions DEF AsksOne, PublishedNames

LEMMA GraphPublishes ==
    ASSUME tool \in {"go", "maven"}, GraphInv, NEW p \in Published, NEW name, NEW allowed, Publish(p, name, allowed)
    PROVE  GraphInv'
<1>1. AsksOne(name, allowed) /\ allowed \in SUBSET Nat /\ name \in PublishedNames
    BY AskableIsOne DEF Publish
<1>2. IsFiniteSet(requires')
    BY FS_AddElement DEF GraphInv, Publish
<1>3. ASSUME NEW r \in requires'
      PROVE  r[1] \in Published /\ r[2] \in PublishedNames /\ r[3] \in SUBSET Nat /\ AsksOne(r[2], r[3])
  <2>1. r \in requires \/ r = <<p, name, allowed>>
      BY DEF Publish
  <2> QED
      BY <1>1, <2>1 DEF GraphInv
<1> QED
    BY <1>2, <1>3 DEF GraphInv, Publish, AskOne

LEMMA GraphBegins ==
    ASSUME tool \in {"go", "maven"}, GraphInv, NEW first \in PublishedNames, NEW second \in PublishedNames,
           Begin(first, second)
    PROVE  /\ GraphInv' /\ roots' # << >> /\ visited' = {} /\ selected' = << >> /\ tool' = tool
           /\ Stands(work)' = {<<x, 0>> : x \in Rooted'} /\ \A i \in DOMAIN work' : work'[i].depth = 0
<1>1. PICK one \in Askable(first), other \in Askable(second) :
         roots' = IF first = second THEN <<<<first, one>>>> ELSE <<<<first, one>>, <<second, other>>>>
    BY DEF Begin
<1>2. AsksOne(first, one) /\ one \in SUBSET Nat /\ AsksOne(second, other) /\ other \in SUBSET Nat
    BY AskableIsOne
<1> DEFINE Possible == PublishedNames \X SUBSET Nat
<1>3. <<first, one>> \in Possible /\ <<second, other>> \in Possible
    BY <1>2
<1>4. /\ roots' \in Seq(Possible) /\ roots' # << >>
      /\ \A i \in DOMAIN roots' : roots'[i] = <<first, one>> \/ roots'[i] = <<second, other>>
  <2> HIDE DEF Possible
  <2>1. CASE first = second
    <3>1. roots' = <<<<first, one>>>>
        BY <1>1, <2>1
    <3> QED
        BY <1>3, <3>1
  <2>2. CASE first # second
    <3>1. roots' = <<<<first, one>>, <<second, other>>>>
        BY <1>1, <2>2
    <3> QED
        BY <1>3, <3>1
  <2> QED
      BY <2>1, <2>2
<1>5. \A i \in DOMAIN roots' : AsksOne(roots'[i][1], roots'[i][2])
    BY <1>2, <1>4
<1>6. \A n \in DOMAIN managed' : managed'[n] \in Published
  <2>1. CASE managed' = << >>
      BY <2>1
  <2>2. CASE \E p \in Published : \E n : managed' = [m \in {n} |-> p]
      BY <2>2
  <2>3. \/ managed' = << >>
        \/ managed' \in {[n \in {p[1]} |-> p] : p \in Published}
        \/ managed' \in {[n \in {second} |-> p] : p \in Published}
      BY DEF Begin
  <2> QED
      BY <2>1, <2>2, <2>3
<1>7. work' = [i \in DOMAIN roots' |-> Item(Project, roots'[i][1], roots'[i][2], 0)]
    BY DEF Begin
<1>8. ASSUME NEW i \in DOMAIN roots'
      PROVE  /\ work'[i] \in Items /\ work'[i].name = roots'[i][1] /\ work'[i].allowed = roots'[i][2]
             /\ work'[i].depth = 0
  <2>1. roots'[i] \in Possible
      BY <1>3, <1>4
  <2> QED
      BY <1>7, <2>1 DEF Item, Items
<1>9. work' \in Seq(Items) /\ DOMAIN work' = DOMAIN roots'
  <2>1. DOMAIN roots' = 1 .. Len(roots') /\ Len(roots') \in Nat
      BY <1>4
  <2> QED
      BY <1>7, <1>8, <2>1
<1>10. AskOne(work)'
    BY <1>5, <1>8, <1>9 DEF AskOne
<1>11. UNCHANGED <<tool, requires, visited, selected>> /\ roots = << >>
    BY DEF Begin
<1>12. visited' = {} /\ selected' = << >>
    BY <1>11 DEF GraphInv
<1>13. GraphInv'
    BY <1>4, <1>5, <1>6, <1>9, <1>10, <1>11, <1>12 DEF GraphInv
<1>14. \A x : x \in Rooted' <=> \E i \in DOMAIN roots' : x = Target(roots[i][1], roots[i][2])'
  <2>1. (\A x : x \in Rooted <=> \E i \in DOMAIN roots : x = Target(roots[i][1], roots[i][2]))'
      BY RootedIs, PTL
  <2> QED
      BY <2>1
<1>15. \A h : h \in Stands(work)' <=> \E i \in DOMAIN work' : h = <<Target(work[i].name, work[i].allowed)', work'[i].depth>>
    BY DEF Stands
<1>16. Stands(work)' = {<<x, 0>> : x \in Rooted'}
  <2>1. ASSUME NEW i \in DOMAIN work'
        PROVE  <<Target(work[i].name, work[i].allowed)', work'[i].depth>> = <<Target(roots[i][1], roots[i][2])', 0>>
    <3>1. work'[i].name = roots'[i][1] /\ work'[i].allowed = roots'[i][2] /\ work'[i].depth = 0
        BY <1>8, <1>9
    <3>2. Target(work[i].name, work[i].allowed)' = Target(roots[i][1], roots[i][2])'
        BY <3>1
    <3> QED
        BY <3>1, <3>2
  <2>2. \A h \in Stands(work)' : h \in {<<x, 0>> : x \in Rooted'}
      BY <1>9, <1>14, <1>15, <2>1
  <2>3. \A x \in Rooted' : <<x, 0>> \in Stands(work)'
      BY <1>9, <1>14, <1>15, <2>1
  <2> QED
      BY <2>2, <2>3
<1> QED
    BY <1>4, <1>8, <1>9, <1>11, <1>12, <1>13, <1>16


Firsts(H) == {h[1] : h \in H}
Waiting == Firsts(Stands(work))

LEMMA FirstsAre ==
    /\ \A A, B : Firsts(A \cup B) = Firsts(A) \cup Firsts(B)
    /\ \A x, d : Firsts({<<x, d>>}) = {x}
    /\ \A F, d : Firsts({<<x, d>> : x \in F}) = F
<1>1. \A A, B, x : x \in Firsts(A \cup B) <=> x \in Firsts(A) \cup Firsts(B)
    BY DEF Firsts
<1>2. ASSUME NEW x, NEW d PROVE Firsts({<<x, d>>}) = {x}
  <2>1. \A h \in {<<x, d>>} : h[1] = x
      OBVIOUS
  <2> DEFINE H == {<<x, d>>}
  <2>2. H # {}
      OBVIOUS
  <2> HIDE DEF H
  <2> QED
      BY <2>1, <2>2 DEF Firsts, H
<1>3. ASSUME NEW F, NEW d PROVE Firsts({<<x, d>> : x \in F}) = F
  <2> DEFINE H == {<<x, d>> : x \in F}
  <2>1. \A h \in H : h[1] \in F
      OBVIOUS
  <2>2. ASSUME NEW x \in F PROVE \E h \in H : h[1] = x
    <3>1. <<x, d>> \in H /\ <<x, d>>[1] = x
        OBVIOUS
    <3> HIDE DEF H
    <3> QED
        BY <3>1
  <2> HIDE DEF H
  <2>3. Firsts(H) = F
      BY <2>1, <2>2 DEF Firsts
  <2> QED
      BY <2>3 DEF H
<1> QED
    BY <1>1, <1>2, <1>3

\* What is visited and what waits: all that the project leads to and what has been
\* visited leads to, and nothing that is not led to; of each module the greatest
\* version visited is selected.
GoInv ==
    /\ Rooted \subseteq visited \cup Waiting
    /\ Follow(visited) \subseteq visited \cup Waiting
    /\ \A S \in SUBSET Published : Rooted \subseteq S /\ Follow(S) \subseteq S => visited \cup Waiting \subseteq S
    /\ DOMAIN selected = NamesOf(visited)
    /\ \A n \in DOMAIN selected : <<n, selected[n]>> \in visited
    /\ \A p \in visited : p[2] <= selected[p[1]]

LEMMA FollowMore ==
    /\ Follow({}) = {}
    /\ \A ps, qs : Follow(ps \cup qs) = Follow(ps) \cup Follow(qs)
    /\ \A ps, qs : ps \subseteq qs => Follow(ps) \subseteq Follow(qs)
<1>1. \A ps, x : x \in Follow(ps) <=> \E r \in requires : r[1] \in ps /\ x = Target(r[2], r[3])
    BY FollowIs
<1>2. \A ps, qs, x : x \in Follow(ps \cup qs) <=> x \in Follow(ps) \cup Follow(qs)
    BY <1>1
<1>3. \A ps, qs : ps \subseteq qs => Follow(ps) \subseteq Follow(qs)
    BY <1>1
<1>4. \A x : x \notin Follow({})
    BY <1>1
<1> QED
    BY <1>2, <1>3, <1>4

LEMMA GoVisits ==
    ASSUME tool = "go", GraphInv, GoInv, VisitGo
    PROVE  GraphInv' /\ GoInv'
<1> DEFINE last == Last(work)
           module == InPlaceOf(last.name, Only(last))
           rest == Front(work)
           items == ItemsOf(module, 0)
<1>1. UNCHANGED <<tool, requires, roots, managed>> /\ work # << >>
    BY DEF VisitGo
<1>2. /\ last \in Items /\ AsksOne(last.name, last.allowed) /\ rest \in Seq(Items) /\ AskOne(rest)
      /\ Stands(work) = Stands(rest) \cup {<<Target(last.name, last.allowed), last.depth>>}
    BY <1>1, StandsSplit DEF GraphInv, Splits
<1>3. module = Target(last.name, last.allowed) /\ module \in Published
  <2>1. PICK p \in Published : p[1] = last.name /\ last.allowed = {p[2]}
      BY <1>2 DEF AsksOne
  <2> DEFINE need == <<Project, last.name, last.allowed>>
  <2>2. need[2] = last.name /\ need[3] = last.allowed
      OBVIOUS
  <2> HIDE DEF need
  <2>3. Only(last) = p[2] /\ (CHOOSE v \in need[3] : TRUE) = p[2]
      BY <2>1, <2>2 DEF Only
  <2>4. Target(last.name, last.allowed) = Meant(need)
      BY DEF Target, need
  <2>5. module = Target(last.name, last.allowed)
      BY <2>2, <2>3, <2>4 DEF Meant
  <2> QED
      BY <1>2, <2>5, TargetIs DEF GraphInv
<1>4. module = <<module[1], module[2]>> /\ module[2] \in Nat
    BY <1>3, PublishedAreVersions
<1>5. /\ items \in Seq(Items) /\ AskOne(items) /\ Stands(items) = {<<x, 0>> : x \in Follow({module})}
    BY <1>3, ItemsAre
<1>6. /\ Rooted' = Rooted /\ \A ps : Follow(ps)' = Follow(ps)
      /\ \A s : Stands(s)' = Stands(s)
    BY <1>1, GraphStays
<1>7. IF module \notin visited
      THEN /\ visited' = visited \cup {module}
           /\ selected' = IF module[1] \notin DOMAIN selected \/ selected[module[1]] < module[2]
                          THEN NewSelected(module[1], module[2]) ELSE selected
           /\ work' = rest \o items
      ELSE work' = rest /\ UNCHANGED <<visited, selected>>
    BY <1>4 DEF VisitGo, Visits
<1> DEFINE R == Firsts(Stands(rest))
           F == Follow({module})
<1>9. \A x \in F : x \in Published
    BY StaysPublished
<1> HIDE DEF last, module, rest, items
<1>8. Waiting = R \cup {module}
  <2>1. Stands(work) = Stands(rest) \cup {<<module, last.depth>>}
      BY <1>2, <1>3
  <2>2. Firsts({<<module, last.depth>>}) = {module}
      BY FirstsAre
  <2> QED
      BY <2>1, <2>2, FirstsAre DEF Waiting
<1>10. visited' = visited \cup {module} /\ visited' \in SUBSET Published
    BY <1>3, <1>7 DEF GraphInv
<1>11. work' \in Seq(Items) /\ AskOne(work')
    BY <1>2, <1>5, <1>7, StandsSplit
<1>12. Waiting' = IF module \notin visited THEN R \cup F ELSE R
  <2>1. Waiting' = Firsts(Stands(work'))
      BY <1>6 DEF Waiting, Firsts
  <2>2. Stands(rest \o items) = Stands(rest) \cup Stands(items)
      BY <1>2, <1>5, StandsSplit
  <2>3. Firsts(Stands(items)) = F
    <3>1. Firsts({<<x, 0>> : x \in F}) = F
        BY FirstsAre
    <3> QED
        BY <1>5, <3>1
  <2> HIDE DEF F
  <2>4. Firsts(Stands(rest \o items)) = R \cup F
      BY <2>2, <2>3, FirstsAre
  <2> QED
      BY <1>7, <2>1, <2>4
<1>13. GraphInv'
  <2>1. AskOne(work)'
      BY <1>11 DEF AskOne
  <2> QED
      BY <1>1, <1>10, <1>11, <2>1 DEF GraphInv
<1>14. Follow(visited') = Follow(visited) \cup F
    BY <1>10, FollowMore
<1>15. module \in visited => F \subseteq visited \cup Waiting
  <2>1. module \in visited => Follow({module}) \subseteq Follow(visited)
      BY FollowMore
  <2> QED
      BY <2>1 DEF GoInv
<1> HIDE DEF R, F
<1>16. visited' \cup Waiting' = visited \cup Waiting \cup F
  <2>1. CASE module \notin visited
      BY <1>8, <1>10, <1>12, <2>1
  <2>2. CASE module \in visited
      BY <1>8, <1>10, <1>12, <1>15, <2>2
  <2> QED
      BY <2>1, <2>2
<1>17. Rooted' \subseteq visited' \cup Waiting' /\ Follow(visited)' \subseteq visited' \cup Waiting'
  <2>1. Follow(visited)' = Follow(visited')
      BY <1>6
  <2>2. Rooted \subseteq visited \cup Waiting /\ Follow(visited) \subseteq visited \cup Waiting
      BY DEF GoInv
  <2> QED
      BY <1>6, <1>14, <1>16, <2>1, <2>2
<1>18. ASSUME NEW S \in SUBSET Published, Rooted' \subseteq S, Follow(S)' \subseteq S
       PROVE  visited' \cup Waiting' \subseteq S
  <2>1. Rooted \subseteq S /\ Follow(S) \subseteq S
      BY <1>6, <1>18
  <2>2. visited \cup Waiting \subseteq S
      BY <2>1 DEF GoInv
  <2>3. {module} \subseteq S
      BY <1>8, <2>2
  <2>4. F \subseteq Follow(S)
      BY <2>3, FollowMore DEF F
  <2> QED
      BY <1>16, <2>1, <2>2, <2>4
<1>19. /\ DOMAIN selected' = NamesOf(visited')
       /\ \A n \in DOMAIN selected' : <<n, selected'[n]>> \in visited'
       /\ \A p \in visited' : p[2] <= selected'[p[1]]
  <2>1. /\ DOMAIN selected = NamesOf(visited)
        /\ \A n \in DOMAIN selected : <<n, selected[n]>> \in visited
        /\ \A p \in visited : p[2] <= selected[p[1]]
      BY DEF GoInv
  <2>2. \A p \in visited : p = <<p[1], p[2]>> /\ p[1] \in DOMAIN selected /\ p[2] \in Nat
      BY <2>1, PublishedAreVersions DEF NamesOf, GraphInv
  <2>3. \A n \in DOMAIN selected : selected[n] \in Nat
    <3> TAKE n \in DOMAIN selected
    <3>1. <<n, selected[n]>> \in visited
        BY <2>1
    <3>2. <<n, selected[n]>>[2] \in Nat
        BY <2>2, <3>1
    <3> QED
        BY <3>2
  <2>4. CASE module \in visited
      BY <1>7, <2>1, <2>4
  <2>5. CASE module \notin visited /\ (module[1] \notin DOMAIN selected \/ selected[module[1]] < module[2])
    <3>1. selected' = [n \in DOMAIN selected \cup {module[1]} |-> IF n = module[1] THEN module[2] ELSE selected[n]]
        BY <1>7, <2>5 DEF NewSelected
    <3>2. DOMAIN selected' = NamesOf(visited')
        BY <1>10, <2>1, <3>1 DEF NamesOf
    <3>3. ASSUME NEW n \in DOMAIN selected' PROVE <<n, selected'[n]>> \in visited'
        BY <1>4, <1>10, <2>1, <3>1
    <3>4. ASSUME NEW p \in visited' PROVE p[2] <= selected'[p[1]]
      <4>1. CASE p = module
          BY <1>4, <3>1, <4>1
      <4>2. CASE p \in visited /\ p[1] # module[1]
          BY <2>1, <2>2, <3>1, <4>2
      <4>3. CASE p \in visited /\ p[1] = module[1]
        <5>1. p[2] <= selected[p[1]] /\ p[1] \in DOMAIN selected /\ p[2] \in Nat /\ selected[p[1]] \in Nat
            BY <2>1, <2>2, <2>3, <4>3
        <5>2. selected[p[1]] < module[2] /\ selected'[p[1]] = module[2]
            BY <2>5, <3>1, <4>3, <5>1
        <5> QED
            BY <1>4, <5>1, <5>2
      <4> QED
          BY <1>10, <4>1, <4>2, <4>3
    <3> QED
        BY <3>2, <3>3, <3>4
  <2>6. CASE module \notin visited /\ module[1] \in DOMAIN selected /\ ~(selected[module[1]] < module[2])
    <3>1. selected' = selected /\ module[2] <= selected[module[1]]
        BY <1>4, <1>7, <2>3, <2>6
    <3>2. DOMAIN selected' = NamesOf(visited')
        BY <1>10, <2>1, <2>6, <3>1 DEF NamesOf
    <3> QED
        BY <1>10, <2>1, <3>1, <3>2
  <2> QED
      BY <2>4, <2>5, <2>6
<1>20. DOMAIN selected' = NamesOf(visited)'
    BY <1>19 DEF NamesOf
<1> QED
    BY <1>13, <1>17, <1>18, <1>19, <1>20 DEF GoInv


LEMMA ReachInside ==
    ASSUME GraphInv, NEW V, Rooted \subseteq V, Follow(V) \subseteq V
    PROVE  \A k \in 0 .. Most : Reach[k] \subseteq V
<1>1. Grows(Reach, Most) /\ Most \in Nat
    BY ReachGrows
<1> DEFINE G == {k \in 0 .. Most : Reach[k] \subseteq V}
<1>2. 0 \in G
    BY <1>1 DEF Grows
<1>3. ASSUME NEW k \in 1 .. Most, k - 1 \in G PROVE k \in G
  <2>1. k \in 0 .. Most /\ Reach[k] = Reach[k - 1] \cup Follow(Reach[k - 1])
      BY <1>1 DEF Grows
  <2>2. Follow(Reach[k - 1]) \subseteq Follow(V)
      BY <1>3, FollowMore
  <2> QED
      BY <1>3, <2>1, <2>2
<1> HIDE DEF G
<1>4. \A k \in 0 .. Most : k \in G
    BY <1>1, <1>2, <1>3, CountUp
<1> QED
    BY <1>4 DEF G

LEMMA MostIsReached ==
    ASSUME GraphInv
    PROVE  /\ Most \in 0 .. Most /\ Reach[Most] \in SUBSET Published /\ Within(Cardinality(Published)) = Reach[Most]
           /\ Rooted \subseteq Reach[Most]
<1>1. Grows(Reach, Most) /\ Most \in Nat
    BY ReachGrows
<1> DEFINE G == {k \in 0 .. Most : Rooted \subseteq Reach[k]}
<1>2. 0 \in G
    BY <1>1 DEF Grows
<1>3. ASSUME NEW k \in 1 .. Most, k - 1 \in G PROVE k \in G
  <2>1. k \in 0 .. Most /\ Reach[k] = Reach[k - 1] \cup Follow(Reach[k - 1])
      BY <1>1 DEF Grows
  <2> QED
      BY <1>3, <2>1
<1>4. Most \in 0 .. Most
    BY <1>1
<1>5. Most \in G
  <2> HIDE DEF G
  <2>1. \A k \in 0 .. Most : k \in G
      BY <1>1, <1>2, <1>3, CountUp
  <2> QED
      BY <1>4, <2>1
<1> QED
    BY <1>1, <1>4, <1>5 DEF Grows, Within, Most

LEMMA GoEnds ==
    ASSUME tool = "go", GraphInv, GoInv
    PROVE  BuildListIsMinimal
<1> SUFFICES ASSUME Ended
             PROVE  LET all == Within(Cardinality(Published))
                    IN  /\ DOMAIN selected = NamesOf(all)
                        /\ \A n \in DOMAIN selected : selected[n] = Greatest({p[2] : p \in {q \in all : q[1] = n}})
    BY DEF BuildListIsMinimal
<1>1. Waiting = {}
  <2>1. DOMAIN work = {}
      BY DEF Ended
  <2>2. Stands(work) = {}
      BY <2>1 DEF Stands
  <2> QED
      BY <2>2 DEF Waiting, Firsts
<1>2. Rooted \subseteq visited /\ Follow(visited) \subseteq visited
    BY <1>1 DEF GoInv
<1>3. Reach[Most] \subseteq visited
    BY <1>2, ReachInside, MostIsReached
<1>4. visited \subseteq Reach[Most]
  <2>1. Follow(Reach[Most]) \subseteq Reach[Most]
      BY ReachCloses DEF Ended
  <2> QED
      BY <2>1, MostIsReached DEF GoInv
<1>5. Within(Cardinality(Published)) = visited
    BY <1>3, <1>4, MostIsReached
<1>6. ASSUME NEW n \in DOMAIN selected
      PROVE  selected[n] = Greatest({p[2] : p \in {q \in visited : q[1] = n}})
  <2> DEFINE S == {p[2] : p \in {q \in visited : q[1] = n}}
  <2>1. <<n, selected[n]>> \in visited
      BY DEF GoInv
  <2>2. selected[n] \in S
      BY <2>1
  <2>3. \A v \in S : v \in Nat /\ v <= selected[n]
      BY PublishedAreVersions DEF GoInv, GraphInv
  <2> HIDE DEF S
  <2>4. selected[n] \in Nat
      BY <2>2, <2>3
  <2>5. \A v \in S : (\A w \in S : w <= v) => v = selected[n]
      BY <2>2, <2>3, <2>4
  <2>6. selected[n] = CHOOSE v \in S : \A w \in S : w <= v
      BY <2>2, <2>3, <2>5
  <2> QED
      BY <2>6 DEF Greatest, S
<1> QED
    BY <1>5, <1>6 DEF GoInv


\* What the project leads to in at most so many steps, however many.
IsLayers(L) ==
    /\ L \in [Nat -> SUBSET Published] /\ L[0] = Rooted
    /\ \A k \in Nat : L[k + 1] = L[k] \cup Follow(L[k])

LEMMA LayersGrow ==
    ASSUME NEW L, IsLayers(L), NEW j \in Nat, NEW k \in Nat, j <= k
    PROVE  L[j] \subseteq L[k]
<1> DEFINE G == {i \in 0 .. k : i >= j => L[j] \subseteq L[i]}
<1>1. 0 \in G
    BY DEF IsLayers
<1>2. ASSUME NEW i \in 1 .. k, i - 1 \in G PROVE i \in G
  <2>1. i - 1 \in Nat /\ i - 1 + 1 = i /\ i \in 0 .. k
      OBVIOUS
  <2>2. L[i] = L[i - 1] \cup Follow(L[i - 1])
      BY <2>1 DEF IsLayers
  <2>3. CASE i = j
      BY <2>1, <2>3
  <2>4. CASE i > j
      BY <1>2, <2>1, <2>2, <2>4
  <2>5. CASE i < j
      BY <2>1, <2>5
  <2> QED
      BY <2>1, <2>3, <2>4, <2>5
<1>3. k \in G
  <2> HIDE DEF G
  <2>1. \A i \in 0 .. k : i \in G
      BY <1>1, <1>2, CountUp
  <2> QED
      BY <2>1
<1> QED
    BY <1>3

LEMMA LayersThere ==
    ASSUME GraphInv, roots # << >>
    PROVE  \E L : IsLayers(L) /\ \A k \in Nat : L[k] = IF k <= Most THEN Reach[k] ELSE Reach[Most]
<1> DEFINE L == [k \in Nat |-> IF k <= Most THEN Reach[k] ELSE Reach[Most]]
<1>1. Grows(Reach, Most) /\ Most \in Nat /\ Follow(Reach[Most]) \subseteq Reach[Most]
    BY ReachGrows, ReachCloses
<1>2. L \in [Nat -> SUBSET Published]
  <2>1. ASSUME NEW k \in Nat PROVE (IF k <= Most THEN Reach[k] ELSE Reach[Most]) \in SUBSET Published
    <3>1. Most \in 0 .. Most /\ (k <= Most => k \in 0 .. Most)
        BY <1>1
    <3> QED
        BY <1>1, <3>1 DEF Grows
  <2> QED
      BY <2>1
<1>3. L[0] = Rooted
    BY <1>1 DEF Grows
<1>4. ASSUME NEW k \in Nat PROVE L[k + 1] = L[k] \cup Follow(L[k])
  <2>1. CASE k + 1 <= Most
    <3>1. k + 1 \in 1 .. Most /\ k <= Most /\ k + 1 - 1 = k
        BY <1>1, <2>1
    <3>2. Reach[k + 1] = Reach[k] \cup Follow(Reach[k])
        BY <1>1, <3>1 DEF Grows
    <3> QED
        BY <2>1, <3>1, <3>2
  <2>2. CASE ~(k + 1 <= Most)
    <3>1. L[k + 1] = Reach[Most]
        BY <2>2
    <3>2. L[k] = Reach[Most]
        BY <1>1, <2>2
    <3> QED
        BY <1>1, <3>1, <3>2
  <2> QED
      BY <2>1, <2>2
<1>5. \A k \in Nat : L[k] = IF k <= Most THEN Reach[k] ELSE Reach[Most]
    OBVIOUS
<1> HIDE DEF L
<1> QED
    BY <1>2, <1>3, <1>4, <1>5 DEF IsLayers

ByDepth(s) == \A i, j \in DOMAIN s : i < j => s[i].depth <= s[j].depth
\* The queue holds items of one depth and then of the next.
InBand(s) == ByDepth(s) /\ \A i \in DOMAIN s : s[i].depth <= s[1].depth + 1

\* Every package met so far is as near as its item says, and what it leads to waits
\* no further off than one more step; of each name a nearest version is selected.
Nearest(L) ==
    /\ \A h \in Stands(work) : h[1] \in L[h[2]]
    /\ \A p \in visited : \E k \in Nat : p \in L[k]
    /\ \A x \in Rooted : x \in visited \/ \E h \in Stands(work) : h[1] = x /\ h[2] = 0
    /\ \A k \in Nat : \A p \in visited \cap L[k] : \A x \in Follow({p}) :
          x \in visited \/ \E h \in Stands(work) : h[1] = x /\ h[2] <= k + 1
    /\ \A n \in DOMAIN selected \ DOMAIN managed : \A k \in Nat :
          n \in NamesOf(L[k]) => <<n, selected[n]>> \in L[k]

MavenInv ==
    /\ InBand(work)
    /\ DOMAIN selected = NamesOf(visited)
    /\ \A n \in DOMAIN selected : n \in DOMAIN managed => selected[n] = managed[n][2]
    /\ \A L : IsLayers(L) => Nearest(L)

LEMMA StandsAre ==
    ASSUME NEW s \in Seq(Items)
    PROVE  \A h \in Stands(s) : h = <<h[1], h[2]>> /\ h[2] \in Nat /\ \E i \in DOMAIN s : h[2] = s[i].depth
<1>1. ASSUME NEW i \in DOMAIN s PROVE s[i].depth \in Nat
  <2>1. s[i] \in Items
      OBVIOUS
  <2> QED
      BY <2>1 DEF Items
<1> QED
    BY <1>1 DEF Stands

\* Nothing nearer than what waits has been left out.
LEMMA NearerIsVisited ==
    ASSUME GraphInv, NEW L, IsLayers(L), Nearest(L), NEW k \in Nat, \A h \in Stands(work) : h[2] > k
    PROVE  L[k] \subseteq visited
<1>1. \A h \in Stands(work) : h[2] \in Nat
    BY StandsAre DEF GraphInv
<1> DEFINE G == {j \in 0 .. k : L[j] \subseteq visited}
<1>2. 0 \in G
  <2>1. \A x \in Rooted : x \in visited
      BY <1>1 DEF Nearest
  <2> QED
      BY <2>1 DEF IsLayers
<1>3. ASSUME NEW j \in 1 .. k, j - 1 \in G PROVE j \in G
  <2>1. j - 1 \in Nat /\ j - 1 + 1 = j /\ j \in 0 .. k /\ j <= k
      OBVIOUS
  <2>2. L[j] = L[j - 1] \cup Follow(L[j - 1])
      BY <2>1 DEF IsLayers
  <2>3. ASSUME NEW x \in Follow(L[j - 1]) PROVE x \in visited
    <3>1. PICK p \in L[j - 1] : x \in Follow({p})
      <4>1. PICK r \in requires : r[1] \in L[j - 1] /\ x = Target(r[2], r[3])
          BY FollowIs
      <4> DEFINE p == r[1]
      <4>2. p \in {p} /\ p \in L[j - 1]
          BY <4>1
      <4>3. x \in Follow({p})
          BY <4>1, FollowIs
      <4> QED
          BY <4>2, <4>3
    <3>2. p \in visited \cap L[j - 1]
        BY <1>3
    <3>3. x \in visited \/ \E h \in Stands(work) : h[1] = x /\ h[2] <= j - 1 + 1
        BY <2>1, <3>1, <3>2 DEF Nearest
    <3>4. ASSUME NEW h \in Stands(work), h[2] <= j - 1 + 1 PROVE FALSE
        BY <1>1, <2>1, <3>4
    <3> QED
        BY <3>3, <3>4
  <2> QED
      BY <1>3, <2>1, <2>2, <2>3
<1>4. k \in G
  <2> HIDE DEF G
  <2>1. \A j \in 0 .. k : j \in G
      BY <1>2, <1>3, CountUp
  <2> QED
      BY <2>1
<1> QED
    BY <1>4


LEMMA MavenBegins ==
    ASSUME tool = "maven", GraphInv', roots' # << >>, visited' = {}, selected' = << >>,
           Stands(work)' = {<<x, 0>> : x \in Rooted'}, \A i \in DOMAIN work' : work'[i].depth = 0
    PROVE  MavenInv'
<1>1. InBand(work)'
    BY DEF InBand, ByDepth
<1>2. (DOMAIN selected = NamesOf(visited))' /\ DOMAIN selected' = {}
    BY DEF NamesOf
<1>3. ASSUME NEW L, IsLayers(L)' PROVE Nearest(L)'
  <2>1. L[0] = Rooted'
      BY <1>3 DEF IsLayers
  <2>2. \A h \in Stands(work)' : h[1] \in Rooted' /\ h[2] = 0
      OBVIOUS
  <2>3. ASSUME NEW x \in Rooted' PROVE \E h \in Stands(work)' : h[1] = x /\ h[2] = 0
    <3>1. <<x, 0>> \in Stands(work)'
        OBVIOUS
    <3> QED
        BY <3>1
  <2> QED
      BY <1>2, <2>1, <2>2, <2>3 DEF Nearest
<1> QED
    BY <1>1, <1>2, <1>3 DEF MavenInv

LEMMA BandKept ==
    ASSUME NEW s \in Seq(Items), s # << >>, InBand(s), NEW t \in Seq(Items),
           \A i \in DOMAIN t : t[i].depth = s[1].depth + 1
    PROVE  InBand(Tail(s) \o t) /\ \A i \in DOMAIN s : s[1].depth <= s[i].depth
<1> DEFINE n == Len(s)
           m == Len(t)
           c == Tail(s) \o t
           d == s[1].depth
<1>1. n \in Nat /\ n >= 1 /\ m \in Nat /\ DOMAIN s = 1 .. n /\ DOMAIN t = 1 .. m
    OBVIOUS
<1>2. /\ Tail(s) \in Seq(Items) /\ Len(Tail(s)) = n - 1
      /\ \A i \in 1 .. n - 1 : Tail(s)[i] = s[i + 1]
    BY <1>1
<1>3. /\ DOMAIN c = 1 .. n - 1 + m
      /\ \A i \in 1 .. n - 1 + m : c[i] = IF i <= n - 1 THEN Tail(s)[i] ELSE t[i - (n - 1)]
    BY <1>1, <1>2
<1>4. \A i \in DOMAIN s : s[i].depth \in Nat
  <2> TAKE i \in DOMAIN s
  <2>1. s[i] \in Items
      OBVIOUS
  <2> QED
      BY <2>1 DEF Items
<1>5. d \in Nat
    BY <1>1, <1>4
<1>6. \A i \in DOMAIN s : d <= s[i].depth /\ s[i].depth <= d + 1
  <2> TAKE i \in DOMAIN s
  <2>1. i = 1 \/ 1 < i
      BY <1>1
  <2>2. 1 < i => d <= s[i].depth
      BY <1>1 DEF InBand, ByDepth
  <2> QED
      BY <1>5, <2>1, <2>2 DEF InBand
<1> HIDE DEF c, n, m, d
<1>7. \A i \in 1 .. n - 1 : c[i].depth = s[i + 1].depth /\ i + 1 \in DOMAIN s
    BY <1>1, <1>2, <1>3
<1>8. \A i \in DOMAIN c : i <= n - 1 \/ c[i].depth = d + 1
  <2> TAKE i \in DOMAIN c
  <2>1. CASE i <= n - 1
      BY <2>1
  <2>2. CASE ~(i <= n - 1)
    <3>1. i - (n - 1) \in DOMAIN t /\ c[i] = t[i - (n - 1)]
        BY <1>1, <1>3, <2>2
    <3> QED
        BY <3>1 DEF d
  <2> QED
      BY <2>1, <2>2
<1>9. \A i \in DOMAIN c : c[i].depth \in Nat /\ d <= c[i].depth /\ c[i].depth <= d + 1
  <2> TAKE i \in DOMAIN c
  <2>1. CASE i <= n - 1
    <3>1. i \in 1 .. n - 1
        BY <1>1, <1>3, <2>1
    <3> QED
        BY <1>4, <1>6, <1>7, <3>1
  <2>2. CASE ~(i <= n - 1)
      BY <1>5, <1>8, <2>2
  <2> QED
      BY <2>1, <2>2
<1>10. ASSUME NEW i \in DOMAIN c, NEW j \in DOMAIN c, i < j PROVE c[i].depth <= c[j].depth
  <2>1. CASE j <= n - 1
    <3>1. i \in 1 .. n - 1 /\ j \in 1 .. n - 1 /\ i + 1 < j + 1
        BY <1>1, <1>3, <1>10, <2>1
    <3>2. s[i + 1].depth <= s[j + 1].depth
        BY <1>7, <3>1 DEF InBand, ByDepth
    <3> QED
        BY <1>7, <3>1, <3>2
  <2>2. CASE ~(j <= n - 1)
      BY <1>8, <1>9, <2>2
  <2> QED
      BY <2>1, <2>2
<1>11. \A i \in DOMAIN c : c[i].depth <= c[1].depth + 1
  <2> TAKE i \in DOMAIN c
  <2>1. 1 \in DOMAIN c
      BY <1>1, <1>3
  <2> QED
      BY <1>5, <1>9, <2>1
<1> QED
    BY <1>6, <1>10, <1>11 DEF InBand, ByDepth, c, d


LEMMA MavenVisits ==
    ASSUME tool = "maven", GraphInv, MavenInv, VisitMaven
    PROVE  GraphInv' /\ MavenInv'
<1> DEFINE item == Head(work)
           asked == <<item.name, Only(item)>>
           d == item.depth
           rest == Tail(work)
           more == IF asked \in visited THEN << >> ELSE ItemsOf(asked, d + 1)
<1>1. UNCHANGED <<tool, requires, roots, managed>> /\ work # << >>
    BY DEF VisitMaven
<1>2. /\ item = work[1] /\ item \in Items /\ AsksOne(item.name, item.allowed) /\ rest \in Seq(Items) /\ AskOne(rest)
      /\ Stands(work) = Stands(rest) \cup {<<Target(item.name, item.allowed), d>>}
    BY <1>1, StandsSplit DEF GraphInv, Splits
<1>3. asked = Target(item.name, item.allowed) /\ asked \in Published
  <2>1. PICK p \in Published : p[1] = item.name /\ item.allowed = {p[2]}
      BY <1>2 DEF AsksOne
  <2> DEFINE need == <<Project, item.name, item.allowed>>
  <2>2. need[2] = item.name /\ need[3] = item.allowed
      OBVIOUS
  <2> HIDE DEF need
  <2>3. Only(item) = p[2] /\ (CHOOSE v \in need[3] : TRUE) = p[2]
      BY <2>1, <2>2 DEF Only
  <2>4. Target(item.name, item.allowed) = Meant(need)
      BY DEF Target, need
  <2>5. asked = Target(item.name, item.allowed)
      BY <2>2, <2>3, <2>4 DEF Meant
  <2>6. Target(item.name, item.allowed) \in Published
    <3>1. \A n \in DOMAIN managed : managed[n] \in Published
        BY DEF GraphInv
    <3>2. AsksOne(item.name, item.allowed)
        BY <1>2
    <3> HIDE DEF item
    <3> QED
        BY <3>1, <3>2, TargetIs
  <2> QED
      BY <2>5, <2>6
<1>4. d \in Nat /\ d + 1 \in Nat
    BY <1>2 DEF Items
<1>5. /\ more \in Seq(Items) /\ AskOne(more) /\ \A i \in DOMAIN more : more[i].depth = d + 1
      /\ asked \notin visited => Stands(more) = {<<x, d + 1>> : x \in Follow({asked})}
  <2>1. CASE asked \notin visited
      BY <1>3, <1>4, <2>1, ItemsAre
  <2>2. CASE asked \in visited
      BY <2>2 DEF AskOne
  <2> QED
      BY <2>1, <2>2
<1>6. /\ Rooted' = Rooted /\ \A ps : Follow(ps)' = Follow(ps)
      /\ \A s : Stands(s)' = Stands(s)
    BY <1>1, GraphStays
<1>7. /\ visited' = visited \cup {asked} /\ work' = rest \o more
      /\ selected' = IF item.name \in DOMAIN selected THEN selected
                     ELSE NewSelected(item.name, InPlaceOf(asked[1], asked[2])[2])
    BY DEF VisitMaven
<1>8. asked[1] = item.name /\ asked = <<asked[1], asked[2]>>
    OBVIOUS
<1> HIDE DEF asked, more, rest, d
<1>9. visited' \in SUBSET Published /\ work' \in Seq(Items) /\ AskOne(work')
    BY <1>2, <1>3, <1>5, <1>7, StandsSplit DEF GraphInv
<1>10. GraphInv'
  <2>1. AskOne(work)'
      BY <1>9 DEF AskOne
  <2> QED
      BY <1>1, <1>9, <2>1 DEF GraphInv
<1>11. InBand(work') /\ \A i \in DOMAIN work : d <= work[i].depth
  <2>1. work \in Seq(Items) /\ InBand(work) /\ d = work[1].depth
      BY <1>2 DEF GraphInv, MavenInv, d
  <2> QED
      BY <1>1, <1>5, <1>7, <2>1, BandKept DEF rest
<1>12. DOMAIN selected' = NamesOf(visited')
  <2>1. DOMAIN selected = NamesOf(visited)
      BY DEF MavenInv
  <2>2. DOMAIN selected' = DOMAIN selected \cup {item.name}
      BY <1>7 DEF NewSelected
  <2> QED
      BY <1>7, <1>8, <2>1, <2>2 DEF NamesOf
<1>13. \A n \in DOMAIN selected' : n \in DOMAIN managed => selected'[n] = managed[n][2]
    BY <1>7, <1>8 DEF MavenInv, NewSelected, InPlaceOf
<1>14. ASSUME NEW L, IsLayers(L)' PROVE Nearest(L)'
  <2>1. IsLayers(L)
      BY <1>6, <1>14 DEF IsLayers
  <2>2. Nearest(L)
      BY <2>1 DEF MavenInv
  <2>3. Stands(work)' = Stands(rest) \cup Stands(more)
    <3>1. Stands(rest \o more) = Stands(rest) \cup Stands(more)
        BY <1>2, <1>5, StandsSplit
    <3> QED
        BY <1>6, <1>7, <3>1
  <2>4. Stands(work) = Stands(rest) \cup {<<asked, d>>} /\ asked \in L[d]
    <3>1. Stands(work) = Stands(rest) \cup {<<asked, d>>}
        BY <1>2, <1>3
    <3>2. <<asked, d>> \in Stands(work)
        BY <3>1
    <3> QED
        BY <2>2, <3>1, <3>2 DEF Nearest
  <2>5. \A h \in Stands(work) : h[2] >= d
    <3> TAKE h \in Stands(work)
    <3>1. PICK i \in DOMAIN work : h[2] = work[i].depth
        BY StandsAre DEF GraphInv
    <3> QED
        BY <1>11, <3>1
  <2>6. ASSUME NEW k \in Nat, k < d PROVE L[k] \subseteq visited
    <3>1. \A h \in Stands(work) : h[2] \in Nat
        BY StandsAre DEF GraphInv
    <3>2. \A h \in Stands(work) : h[2] > k
        BY <1>4, <2>5, <2>6, <3>1
    <3> QED
        BY <2>1, <2>2, <3>2, NearerIsVisited
  <2>7. ASSUME asked \notin visited, NEW x \in Follow({asked})
        PROVE  <<x, d + 1>> \in Stands(work)'
      BY <1>5, <2>3, <2>7
  <2>8. ASSUME NEW h \in Stands(work)' PROVE h[1] \in L[h[2]]
    <3>1. CASE h \in Stands(rest)
        BY <2>2, <2>4, <3>1 DEF Nearest
    <3>2. CASE h \in Stands(more) /\ asked \notin visited
      <4>1. PICK x \in Follow({asked}) : h = <<x, d + 1>>
          BY <1>5, <3>2
      <4>2. Follow({asked}) \subseteq Follow(L[d])
          BY <2>4, FollowMore
      <4>3. L[d + 1] = L[d] \cup Follow(L[d])
          BY <1>4, <2>1 DEF IsLayers
      <4> QED
          BY <4>1, <4>2, <4>3
    <3>3. CASE asked \in visited
      <4>1. Stands(more) = {}
          BY <3>3 DEF more, Stands
      <4> QED
          BY <2>3, <3>1, <4>1
    <3> QED
        BY <2>3, <3>1, <3>2, <3>3
  <2>9. ASSUME NEW p \in visited' PROVE \E k \in Nat : p \in L[k]
      BY <1>4, <1>7, <2>2, <2>4 DEF Nearest
  <2>10. ASSUME NEW x, NEW e, x \in visited \/ \E h \in Stands(work) : h[1] = x /\ h[2] <= e
         PROVE  x \in visited' \/ \E h \in Stands(work)' : h[1] = x /\ h[2] <= e
    <3>1. CASE x \in visited
        BY <1>7, <3>1
    <3>2. CASE \E h \in Stands(work) : h[1] = x /\ h[2] <= e
      <4>1. PICK h \in Stands(work) : h[1] = x /\ h[2] <= e
          BY <3>2
      <4>2. h \in Stands(rest) \/ h[1] = asked
          BY <2>4
      <4> QED
          BY <1>7, <2>3, <4>1, <4>2
    <3> QED
        BY <2>10, <3>1, <3>2
  <2>11. ASSUME NEW x \in Rooted' PROVE x \in visited' \/ \E h \in Stands(work)' : h[1] = x /\ h[2] = 0
    <3>1. x \in visited \/ \E h \in Stands(work) : h[1] = x /\ h[2] = 0
        BY <1>6, <2>2, <2>11 DEF Nearest
    <3>2. ASSUME NEW h \in Stands(work), h[1] = x, h[2] = 0
          PROVE  x \in visited' \/ \E g \in Stands(work)' : g[1] = x /\ g[2] = 0
      <4>1. h \in Stands(rest) \/ h[1] = asked
          BY <2>4
      <4> QED
          BY <1>7, <2>3, <3>2, <4>1
    <3> QED
        BY <1>7, <3>1, <3>2
  <2>12. ASSUME NEW k \in Nat, NEW p \in visited' \cap L[k], NEW x \in Follow({p})'
         PROVE  x \in visited' \/ \E h \in Stands(work)' : h[1] = x /\ h[2] <= k + 1
    <3>1. x \in Follow({p})
        BY <1>6, <2>12
    <3>2. CASE p \in visited
      <4>1. x \in visited \/ \E h \in Stands(work) : h[1] = x /\ h[2] <= k + 1
          BY <2>2, <2>12, <3>1, <3>2 DEF Nearest
      <4> QED
          BY <2>10, <4>1
    <3>3. CASE p \notin visited
      <4>1. p = asked
          BY <1>7, <2>12, <3>3
      <4>2. ~(k < d)
          BY <2>6, <2>12, <3>3
      <4>3. <<x, d + 1>> \in Stands(work)' /\ d + 1 <= k + 1
          BY <1>4, <2>7, <3>1, <3>3, <4>1, <4>2
      <4> QED
          BY <4>3
    <3> QED
        BY <3>2, <3>3
  <2>13. ASSUME NEW n \in DOMAIN selected' \ DOMAIN managed', NEW k \in Nat, n \in NamesOf(L[k])
         PROVE  <<n, selected'[n]>> \in L[k]
    <3>1. CASE n \in DOMAIN selected
      <4>1. selected'[n] = selected[n]
          BY <1>7, <3>1 DEF NewSelected
      <4> QED
          BY <1>1, <2>2, <2>13, <3>1, <4>1 DEF Nearest
    <3>2. CASE n \notin DOMAIN selected
      <4>1. n = item.name /\ item.name \notin DOMAIN selected
          BY <1>7, <2>13, <3>2 DEF NewSelected
      <4>2. selected'[n] = asked[2]
          BY <1>1, <1>7, <1>8, <2>13, <4>1 DEF NewSelected, InPlaceOf
      <4>3. ~(k < d)
        <5>1. NamesOf(visited) = DOMAIN selected
            BY DEF MavenInv
        <5>2. L[k] \subseteq visited => n \in NamesOf(visited)
            BY <2>13 DEF NamesOf
        <5> QED
            BY <2>6, <3>2, <5>1, <5>2
      <4>4. L[d] \subseteq L[k]
          BY <1>4, <2>1, <4>3, LayersGrow
      <4> QED
          BY <1>8, <2>4, <4>1, <4>2, <4>4
    <3> QED
        BY <3>1, <3>2
  <2>14. \A n \in (DOMAIN selected \ DOMAIN managed)' : \A k \in Nat : n \in NamesOf(L[k])' => <<n, selected'[n]>> \in L[k]
      BY <2>13 DEF NamesOf
  <2> QED
      BY <2>8, <2>9, <2>11, <2>12, <2>14 DEF Nearest
<1>15. InBand(work)' /\ (DOMAIN selected = NamesOf(visited))'
    BY <1>11, <1>12 DEF InBand, ByDepth, NamesOf
<1> QED
    BY <1>1, <1>10, <1>13, <1>14, <1>15 DEF MavenInv


LEMMA MavenEnds ==
    ASSUME tool = "maven", GraphInv, MavenInv
    PROVE  NearestWins
<1> SUFFICES ASSUME Ended
             PROVE  /\ DOMAIN selected = NamesOf(Within(Cardinality(Published)))
                    /\ \A n \in DOMAIN selected :
                         LET near == CHOOSE k \in 0 .. Cardinality(Published) :
                                       n \in NamesOf(Within(k)) /\ (k = 0 \/ n \notin NamesOf(Within(k - 1)))
                         IN  IF n \in DOMAIN managed THEN selected[n] = managed[n][2]
                             ELSE <<n, selected[n]>> \in Within(near)
    BY DEF NearestWins
<1>1. PICK L : IsLayers(L) /\ \A k \in Nat : L[k] = IF k <= Most THEN Reach[k] ELSE Reach[Most]
    BY LayersThere DEF Ended
<1>2. Nearest(L) /\ Most \in Nat
    BY <1>1, ReachGrows DEF MavenInv
<1>3. Stands(work) = {}
  <2>1. DOMAIN work = {}
      BY DEF Ended
  <2> QED
      BY <2>1 DEF Stands
<1>4. Reach[Most] \subseteq visited
  <2>1. L[Most] \subseteq visited
      BY <1>1, <1>2, <1>3, NearerIsVisited
  <2>2. L[Most] = Reach[Most]
      BY <1>1, <1>2
  <2> QED
      BY <2>1, <2>2
<1>5. visited \subseteq Reach[Most]
  <2>1. Rooted \subseteq Reach[Most] /\ Follow(Reach[Most]) \subseteq Reach[Most]
      BY MostIsReached, ReachCloses DEF Ended
  <2>2. \A k \in 0 .. Most : Reach[k] \subseteq Reach[Most]
      BY <2>1, ReachInside
  <2>3. ASSUME NEW p \in visited PROVE p \in Reach[Most]
    <3>1. PICK k \in Nat : p \in L[k]
        BY <1>2 DEF Nearest
    <3>2. L[k] = IF k <= Most THEN Reach[k] ELSE Reach[Most]
        BY <1>1
    <3>3. k <= Most => k \in 0 .. Most
        BY <1>2
    <3> QED
        BY <2>2, <3>1, <3>2, <3>3
  <2> QED
      BY <2>3
<1>6. DOMAIN selected = NamesOf(Reach[Most])
    BY <1>4, <1>5 DEF MavenInv, NamesOf
<1>7. ASSUME NEW n \in DOMAIN selected
      PROVE  \E k \in 0 .. Most : n \in NamesOf(Reach[k]) /\ (k = 0 \/ n \notin NamesOf(Reach[k - 1]))
  <2> SUFFICES ASSUME ~\E k \in 0 .. Most : n \in NamesOf(Reach[k]) /\ (k = 0 \/ n \notin NamesOf(Reach[k - 1]))
               PROVE  FALSE
      OBVIOUS
  <2> DEFINE G == {k \in 0 .. Most : n \notin NamesOf(Reach[k])}
  <2>1. 0 \in G
      BY <1>2
  <2>2. ASSUME NEW k \in 1 .. Most, k - 1 \in G PROVE k \in G
      BY <1>2, <2>2
  <2> HIDE DEF G
  <2>3. \A k \in 0 .. Most : k \in G
      BY <1>2, <2>1, <2>2, CountUp
  <2>4. Most \in G
      BY <1>2, <2>3
  <2> QED
      BY <1>6, <2>4 DEF G
<1>8. ASSUME NEW n \in DOMAIN selected, n \notin DOMAIN managed, NEW near \in 0 .. Most, n \in NamesOf(Reach[near])
      PROVE  <<n, selected[n]>> \in Reach[near]
  <2>1. near \in Nat /\ L[near] = Reach[near]
      BY <1>1, <1>2, <1>8
  <2> QED
      BY <1>2, <1>8, <2>1 DEF Nearest
<1>9. \A k : Within(k) = Reach[k]
    BY DEF Within
<1>10. ASSUME NEW n \in DOMAIN selected
       PROVE  LET near == CHOOSE k \in 0 .. Cardinality(Published) :
                                   n \in NamesOf(Within(k)) /\ (k = 0 \/ n \notin NamesOf(Within(k - 1)))
              IN  IF n \in DOMAIN managed THEN selected[n] = managed[n][2]
                  ELSE <<n, selected[n]>> \in Within(near)
  <2> DEFINE Least(k) == n \in NamesOf(Within(k)) /\ (k = 0 \/ n \notin NamesOf(Within(k - 1)))
             near == CHOOSE k \in 0 .. Most : Least(k)
  <2>1. \E k \in 0 .. Most : Least(k)
      BY <1>7, <1>9
  <2>2. near \in 0 .. Most /\ Least(near)
      BY <2>1
  <2>3. n \in DOMAIN managed => selected[n] = managed[n][2]
      BY DEF MavenInv
  <2>4. n \in NamesOf(Reach[near])
      BY <1>9, <2>2
  <2> HIDE DEF near
  <2>5. IF n \in DOMAIN managed THEN selected[n] = managed[n][2] ELSE <<n, selected[n]>> \in Within(near)
      BY <1>8, <1>9, <2>2, <2>3, <2>4
  <2> QED
      BY <2>5 DEF near, Most
<1> QED
    BY <1>6, <1>9, <1>10 DEF Most

\* The work lists of Go and Maven, from the first requirement to the last.
GraphsInv ==
    tool \in {"go", "maven"} => GraphInv /\ (tool = "go" => GoInv) /\ (tool = "maven" => MavenInv)

LEMMA GraphsKept == ResolveSpec => []GraphsInv
<1>1. ResolveInit => GraphsInv
  <2> SUFFICES ASSUME ResolveInit, tool \in {"go", "maven"}
               PROVE  GraphInv /\ GoInv /\ MavenInv
      BY DEF GraphsInv
  <2>1. /\ requires = {} /\ roots = << >> /\ managed = << >> /\ work = << >> /\ visited = {} /\ selected = << >>
        /\ DOMAIN roots = {} /\ DOMAIN managed = {} /\ DOMAIN work = {} /\ DOMAIN selected = {}
      BY DEF ResolveInit
  <2>2. GraphInv
      BY <2>1, FS_EmptySet DEF GraphInv, AskOne
  <2>3. Stands(work) = {} /\ Waiting = {}
      BY <2>1 DEF Stands, Waiting, Firsts
  <2>4. Rooted = {} /\ Follow({}) = {}
      BY <2>1, RootedIs, FollowMore
  <2>5. GoInv
      BY <2>1, <2>3, <2>4 DEF GoInv, NamesOf
  <2>6. MavenInv
      BY <2>1, <2>3, <2>4 DEF MavenInv, Nearest, InBand, ByDepth, NamesOf
  <2> QED
      BY <2>2, <2>5, <2>6
<1>2. GraphsInv /\ [ResolveNext]_resolveVars => GraphsInv'
  <2> SUFFICES ASSUME GraphsInv, [ResolveNext]_resolveVars, tool' \in {"go", "maven"}
               PROVE  GraphInv' /\ (tool' = "go" => GoInv') /\ (tool' = "maven" => MavenInv')
      BY DEF GraphsInv
  <2>1. tool' = tool
      BY DEF ResolveNext, Publish, Begin, VisitNpm, VisitGo, VisitMaven, resolveVars
  <2>2. GraphInv /\ (tool = "go" => GoInv) /\ (tool = "maven" => MavenInv)
      BY <2>1 DEF GraphsInv
  <2>3. ASSUME NEW p \in Published, NEW n, NEW w, Publish(p, n, w)
        PROVE  GraphInv' /\ (tool = "go" => GoInv') /\ (tool = "maven" => MavenInv')
    <3>1. GraphInv'
        BY <2>1, <2>2, <2>3, GraphPublishes
    <3>2. /\ UNCHANGED <<roots, work, visited, selected, managed, tool>> /\ roots = << >>
        BY <2>3 DEF Publish
    <3>3. /\ work' = << >> /\ visited' = {} /\ selected' = << >> /\ DOMAIN work' = {} /\ DOMAIN selected' = {}
          /\ DOMAIN roots' = {}
        BY <2>2, <3>2 DEF GraphInv
    <3>4. (Stands(work) = {})' /\ (Waiting = {})'
        BY <3>3 DEF Stands, Waiting, Firsts
    <3>5. (Rooted = {})' /\ (Follow({}) = {})'
      <4>1. (\A x : x \in Rooted <=> \E i \in DOMAIN roots : x = Target(roots[i][1], roots[i][2]))'
          BY RootedIs, PTL
      <4>2. (Follow({}) = {})'
          BY FollowMore, PTL
      <4> QED
          BY <3>3, <4>1, <4>2
    <3>6. Follow(visited)' = {}
        BY <3>3, <3>5
    <3>7. GoInv'
        BY <3>3, <3>4, <3>5, <3>6 DEF GoInv, NamesOf
    <3>8. MavenInv'
        BY <3>3, <3>4, <3>5 DEF MavenInv, Nearest, InBand, ByDepth, NamesOf
    <3> QED
        BY <3>1, <3>7, <3>8
  <2>4. ASSUME NEW first \in PublishedNames, NEW second \in PublishedNames, Begin(first, second)
        PROVE  GraphInv' /\ (tool = "go" => GoInv') /\ (tool = "maven" => MavenInv')
    <3>1. /\ GraphInv' /\ roots' # << >> /\ visited' = {} /\ selected' = << >>
          /\ Stands(work)' = {<<x, 0>> : x \in Rooted'} /\ \A i \in DOMAIN work' : work'[i].depth = 0
        BY <2>1, <2>2, <2>4, GraphBegins
    <3>2. tool = "maven" => MavenInv'
        BY <3>1, MavenBegins
    <3>3. Waiting' = Rooted'
      <4>1. \A h \in Stands(work)' : h[1] \in Rooted'
          BY <3>1
      <4>2. ASSUME NEW x \in Rooted' PROVE \E h \in Stands(work)' : h[1] = x
        <5>1. <<x, 0>> \in Stands(work)' /\ <<x, 0>>[1] = x
            BY <3>1
        <5> QED
            BY <5>1
      <4>3. Waiting' = {h[1] : h \in Stands(work)'}
          BY DEF Waiting, Firsts
      <4> QED
          BY <4>1, <4>2, <4>3
    <3>4. (Follow({}) = {})'
        BY FollowMore, PTL
    <3>5. Follow(visited)' = {}
        BY <3>1, <3>4
    <3>6. GoInv'
        BY <3>1, <3>3, <3>5 DEF GoInv, NamesOf
    <3> QED
        BY <3>1, <3>2, <3>6
  <2>5. CASE VisitNpm
      BY <2>1, <2>5 DEF VisitNpm
  <2>6. CASE VisitGo
      BY <2>1, <2>2, <2>6, GoVisits DEF VisitGo
  <2>7. CASE VisitMaven
      BY <2>1, <2>2, <2>7, MavenVisits DEF VisitMaven
  <2>8. CASE UNCHANGED resolveVars
    <3>1. UNCHANGED <<tool, requires, roots, managed, work, visited, selected>>
        BY <2>8 DEF resolveVars
    <3>2. Rooted' = Rooted /\ (\A ps : Follow(ps)' = Follow(ps)) /\ \A s : Stands(s)' = Stands(s)
        BY <3>1, GraphStays
    <3>3. Stands(work)' = Stands(work) /\ Waiting' = Waiting /\ Follow(visited)' = Follow(visited)
        BY <3>1, <3>2 DEF Waiting, Firsts
    <3>4. GraphInv'
        BY <2>2, <3>1 DEF GraphInv, AskOne
    <3>5. GoInv => GoInv'
        BY <3>1, <3>2, <3>3 DEF GoInv, NamesOf
    <3>6. MavenInv => MavenInv'
      <4>1. \A L : IsLayers(L)' <=> IsLayers(L)
          BY <3>2 DEF IsLayers
      <4>2. \A L : Nearest(L) => Nearest(L)'
          BY <3>1, <3>2, <3>3 DEF Nearest, NamesOf
      <4> QED
          BY <3>1, <4>1, <4>2 DEF MavenInv, InBand, ByDepth, NamesOf
    <3> QED
        BY <2>1, <2>2, <3>4, <3>5, <3>6
  <2> QED
      BY <2>1, <2>3, <2>4, <2>5, <2>6, <2>7, <2>8 DEF ResolveNext
<1> QED
    BY <1>1, <1>2, PTL DEF ResolveSpec


(***************************************************************************)
(* The queue of npm                                                        *)
(***************************************************************************)

LEMMA GreatestIs ==
    ASSUME NEW S \in SUBSET Nat, IsFiniteSet(S), S # {}
    PROVE  Greatest(S) \in S
<1>1. PICK n \in Nat : ExistsBijection(1 .. n, S)
    BY FS_NatBijection
<1>2. PICK f : f \in Bijection(1 .. n, S)
    BY <1>1 DEF ExistsBijection
<1>3. f \in [1 .. n -> S] /\ \A x \in S : \E k \in 1 .. n : f[k] = x
    BY <1>2 DEF Bijection, Surjection
<1> DEFINE G == {k \in 0 .. n : k = 0 \/ \E m \in 1 .. k : \A j \in 1 .. k : f[j] <= f[m]}
<1>4. 0 \in G
    BY <1>1
<1>5. ASSUME NEW k \in 1 .. n, k - 1 \in G PROVE k \in G
  <2>1. \A j \in 1 .. n : f[j] \in Nat
      BY <1>3
  <2>2. CASE k = 1
      BY <2>1, <2>2
  <2>3. CASE k # 1
    <3>1. PICK m \in 1 .. k - 1 : \A j \in 1 .. k - 1 : f[j] <= f[m]
        BY <1>5, <2>3
    <3>2. 1 .. k = (1 .. k - 1) \cup {k} /\ k \in 0 .. n
        BY <2>3
    <3>3. CASE f[k] <= f[m]
        BY <3>1, <3>2, <3>3
    <3>4. CASE f[m] <= f[k]
      <4>1. \A j \in 1 .. k : f[j] <= f[k]
          BY <2>1, <3>1, <3>2, <3>4
      <4> QED
          BY <3>2, <4>1
    <3> QED
        BY <2>1, <3>1, <3>3, <3>4
  <2> QED
      BY <2>2, <2>3
<1>6. n \in G
  <2> HIDE DEF G
  <2>1. \A k \in 0 .. n : k \in G
      BY <1>4, <1>5, CountUp
  <2> QED
      BY <1>1, <2>1
<1>7. n # 0
  <2>1. PICK x \in S : TRUE
      OBVIOUS
  <2> QED
      BY <1>3, <2>1
<1>8. PICK m \in 1 .. n : \A j \in 1 .. n : f[j] <= f[m]
    BY <1>6, <1>7
<1>9. f[m] \in S /\ \A y \in S : y <= f[m]
  <2>1. \A j \in 1 .. n : f[j] \in Nat
      BY <1>3
  <2> QED
      BY <1>3, <1>8, <2>1
<1> QED
    BY <1>9 DEF Greatest

NeedOf(item) == <<item.parent, item.name, item.allowed>>
Direct == {<<e[2], e[4]>> : e \in {d \in edges : d[1] = Project}}
Meetable(need) == need[3] \cap VersionsIn(need[2]) # {}
\* What the project asks for itself comes first and has names of its own, none of
\* them selected yet.
RootsFirst(s, taken) ==
    \A i \in DOMAIN s : s[i].parent = Project =>
        /\ s[i].depth = 0 /\ s[i].name \notin taken
        /\ \A j \in 1 .. i - 1 : s[j].parent = Project /\ s[j].name # s[i].name

NpmTypes ==
    /\ IsFiniteSet(requires)
    /\ \A r \in requires : r[1] \in Published /\ r[2] \in PublishedNames /\ r[3] \in SUBSET Nat
    /\ work \in Seq(Items)
    /\ roots = << >> => work = << >> /\ selected = << >> /\ nested = {} /\ edges = {} /\ incomplete = {}
NeedsKept ==
    \A need \in AskedByRoot \cup AskedBy(SelectedVersions) :
       need \in Edged \/ need \in incomplete \/ \E item \in Range(work) : NeedOf(item) = need
EdgesHold ==
    \A e \in edges : /\ e[4] \in e[3] /\ <<e[2], e[4]>> \in SelectedVersions
                     /\ e[1] = Project => e[4] = Greatest(e[3] \cap VersionsIn(e[2]))
DirectKept ==
    registry = "up" =>
      \A need \in AskedByRoot \cup AskedBy(Direct) : Meetable(need) =>
         need \in Edged \/ \E item \in Range(work) : NeedOf(item) = need /\ item.depth <= 1

\* Every requirement of the project and of what is selected is met, given up or
\* waits; of a registry that answers none is given up that could be met near the
\* project.
NpmInv == NpmTypes /\ NeedsKept /\ EdgesHold /\ DirectKept /\ RootsFirst(work, DOMAIN selected)

LEMMA RootsFirstKept ==
    ASSUME NEW s \in Seq(Items), s # << >>, NEW taken, NEW more, RootsFirst(s, taken), more \subseteq taken \cup {s[1].name},
           NEW t \in Seq(Items), \A i \in DOMAIN t : t[i].parent # Project
    PROVE  RootsFirst(Tail(s) \o t, more)
<1> DEFINE n == Len(s)
           m == Len(t)
           c == Tail(s) \o t
<1>1. n \in Nat /\ n >= 1 /\ m \in Nat /\ DOMAIN s = 1 .. n /\ DOMAIN t = 1 .. m
    OBVIOUS
<1>2. /\ Tail(s) \in Seq(Items) /\ Len(Tail(s)) = n - 1
      /\ \A i \in 1 .. n - 1 : Tail(s)[i] = s[i + 1]
    BY <1>1
<1>3. /\ DOMAIN c = 1 .. n - 1 + m
      /\ \A i \in 1 .. n - 1 + m : c[i] = IF i <= n - 1 THEN Tail(s)[i] ELSE t[i - (n - 1)]
    BY <1>1, <1>2
<1> HIDE DEF c, n, m
<1>4. \A i \in 1 .. n - 1 : c[i] = s[i + 1] /\ i + 1 \in DOMAIN s
    BY <1>1, <1>2, <1>3
<1>5. ASSUME NEW i \in DOMAIN c, c[i].parent = Project
      PROVE  /\ c[i].depth = 0 /\ c[i].name \notin more
             /\ \A j \in 1 .. i - 1 : c[j].parent = Project /\ c[j].name # c[i].name
  <2>1. i \in 1 .. n - 1
    <3>1. i > n - 1 => i - (n - 1) \in DOMAIN t /\ c[i] = t[i - (n - 1)]
        BY <1>1, <1>3
    <3> QED
        BY <1>1, <1>3, <1>5, <3>1
  <2> DEFINE k == i + 1
  <2>2. c[i] = s[k] /\ k \in DOMAIN s /\ s[k].parent = Project
      BY <1>4, <1>5, <2>1
  <2>4. 1 \in 1 .. k - 1
      BY <1>1, <2>1
  <2>6. ASSUME NEW j \in 1 .. i - 1 PROVE c[j] = s[j + 1] /\ j + 1 \in 1 .. k - 1
      BY <1>1, <1>4, <2>1
  <2> HIDE DEF k
  <2>3. /\ s[k].depth = 0 /\ s[k].name \notin taken
        /\ \A j \in 1 .. k - 1 : s[j].parent = Project /\ s[j].name # s[k].name
      BY <2>2 DEF RootsFirst
  <2>5. s[1].name # s[k].name
      BY <2>3, <2>4
  <2> QED
      BY <2>2, <2>3, <2>5, <2>6
<1> QED
    BY <1>5 DEF RootsFirst, c

LEMMA NpmStays ==
    ASSUME UNCHANGED <<requires, roots>>
    PROVE  AskedByRoot' = AskedByRoot /\ \A ps : AskedBy(ps)' = AskedBy(ps)
    BY DEF AskedByRoot, AskedBy

LEMMA AskedByMore ==
    /\ \A ps, qs : AskedBy(ps \cup qs) = AskedBy(ps) \cup AskedBy(qs)
    /\ AskedBy({}) = {}
    /\ \A p, need : need \in AskedBy({p}) <=> \E r \in Required(p) : need = <<p[1], r[2], r[3]>>
<1>1. \A ps, need : need \in AskedBy(ps) <=> \E r \in requires : r[1] \in ps /\ need = <<r[1][1], r[2], r[3]>>
    BY DEF AskedBy
<1>2. \A ps, qs, need : need \in AskedBy(ps \cup qs) <=> need \in AskedBy(ps) \cup AskedBy(qs)
    BY <1>1
<1>3. \A need : need \notin AskedBy({})
    BY <1>1
<1>4. \A p, need : need \in AskedBy({p}) <=> \E r \in Required(p) : need = <<p[1], r[2], r[3]>>
    BY <1>1 DEF Required
<1> QED
    BY <1>2, <1>3, <1>4


LEMMA NpmGivesUp ==
    ASSUME NpmInv, work # << >>, NotResolved(Head(work)), UNCHANGED <<requires, roots, registry>>,
           registry = "up" => \/ Head(work).depth > MaxDepth
                              \/ ~Meetable(NeedOf(Head(work)))
    PROVE  NpmInv'
<1> DEFINE item == Head(work)
           none == << >>
<1>1. /\ work \in Seq(Items) /\ item = work[1] /\ item \in Items /\ Tail(work) \in Seq(Items)
      /\ Range(work) = Range(Tail(work)) \cup {item}
      /\ none \in Seq(Items) /\ Tail(work) \o none = Tail(work) /\ \A i \in DOMAIN none : none[i].parent # Project
  <2>1. work \in Seq(Items)
      BY DEF NpmInv, NpmTypes
  <2> HIDE DEF item
  <2>2. Tail(work) \in Seq(Items) /\ Range(work) = Range(Tail(work)) \cup {Head(work)} /\ Head(work) = work[1] /\ Head(work) \in Items
      BY <2>1, RangeSplit
  <2>3. none \in Seq(Items) /\ \A q \in Seq(Items) : q \o none = q
      OBVIOUS
  <2>4. \A i \in DOMAIN none : none[i].parent # Project
      OBVIOUS
  <2> HIDE DEF none
  <2> QED
      BY <2>1, <2>2, <2>3, <2>4 DEF item
<1>2. /\ incomplete' = incomplete \cup {NeedOf(item)} /\ work' = Tail(work)
      /\ UNCHANGED <<selected, nested, edges, requires, roots, registry>>
    BY DEF NotResolved, NeedOf
<1>3. roots # << >>
    BY DEF NpmInv, NpmTypes
<1> HIDE DEF item, none
<1>4. SelectedVersions' = SelectedVersions /\ Direct' = Direct /\ Edged' = Edged
    BY <1>2 DEF SelectedVersions, Direct, Edged
<1>5. AskedByRoot' = AskedByRoot /\ \A ps : AskedBy(ps)' = AskedBy(ps)
    BY <1>2, NpmStays
<1>6. AskedBy(SelectedVersions)' = AskedBy(SelectedVersions) /\ AskedBy(Direct)' = AskedBy(Direct)
    BY <1>4, <1>5
<1>7. NpmTypes'
    BY <1>1, <1>2, <1>3 DEF NpmInv, NpmTypes
<1>8. NeedsKept'
    BY <1>1, <1>2, <1>4, <1>5, <1>6 DEF NpmInv, NeedsKept
<1>9. EdgesHold'
    BY <1>2, <1>4 DEF NpmInv, EdgesHold
<1>10. DirectKept'
  <2> SUFFICES ASSUME registry' = "up", NEW need \in AskedByRoot' \cup AskedBy(Direct)', Meetable(need)
               PROVE  need \in Edged' \/ \E x \in Range(work') : NeedOf(x) = need /\ x.depth <= 1
      BY DEF DirectKept
  <2>1. need \in Edged \/ \E x \in Range(work) : NeedOf(x) = need /\ x.depth <= 1
      BY <1>2, <1>5, <1>6 DEF NpmInv, DirectKept
  <2>2. ASSUME NeedOf(item) = need, item.depth <= 1 PROVE FALSE
    <3>1. item.depth \in Nat
        BY <1>1 DEF Items
    <3>2. ~(item.depth > MaxDepth)
        BY <2>2, <3>1, DepthIsPositive
    <3> QED
        BY <1>2, <2>2, <3>2 DEF item
  <2> QED
      BY <1>1, <1>2, <1>4, <2>1, <2>2
<1>11. RootsFirst(work', DOMAIN selected')
  <2>1. RootsFirst(work, DOMAIN selected) /\ DOMAIN selected \subseteq DOMAIN selected \cup {work[1].name}
      BY DEF NpmInv
  <2>2. RootsFirst(Tail(work) \o none, DOMAIN selected)
      BY <1>1, <2>1, RootsFirstKept
  <2> QED
      BY <1>1, <1>2, <2>2
<1>12. RootsFirst(work, DOMAIN selected)'
    BY <1>11 DEF RootsFirst
<1> QED
    BY <1>7, <1>8, <1>9, <1>10, <1>12 DEF NpmInv

LEMMA NpmResolves ==
    ASSUME NpmInv, work # << >>, UNCHANGED <<requires, roots, registry, incomplete>>,
           NEW ver, ver \in Head(work).allowed, Resolved(Head(work), ver),
           NEW more \in Seq(Items), work' = Tail(work) \o more, \A i \in DOMAIN more : more[i].parent # Project,
           SelectedVersions' = SelectedVersions \cup {<<Head(work).name, ver>>},
           DOMAIN selected' \subseteq DOMAIN selected \cup {Head(work).name},
           Head(work).parent = Project => ver = Greatest(Head(work).allowed \cap VersionsIn(Head(work).name)),
           Head(work).parent = Project \/ <<Head(work).name, ver>> \notin SelectedVersions
             => \A need \in AskedBy({<<Head(work).name, ver>>}) :
                   \E x \in Range(more) : NeedOf(x) = need /\ x.depth = Head(work).depth + 1
    PROVE  NpmInv'
<1> DEFINE item == Head(work)
           p == <<item.name, ver>>
           e == <<item.parent, item.name, item.allowed, ver>>
           rest == Tail(work)
<1>1. work \in Seq(Items) /\ RootsFirst(work, DOMAIN selected) /\ NpmTypes
    BY DEF NpmInv, NpmTypes
<1>2. /\ item = work[1] /\ item \in Items /\ rest \in Seq(Items)
      /\ Range(work) = Range(rest) \cup {item}
      /\ work' \in Seq(Items) /\ Range(work') = Range(rest) \cup Range(more)
  <2>1. /\ Head(work) = work[1] /\ Head(work) \in Items /\ Tail(work) \in Seq(Items)
        /\ Range(work) = Range(Tail(work)) \cup {Head(work)}
      BY <1>1, RangeSplit
  <2>2. item = work[1] /\ item \in Items /\ rest \in Seq(Items) /\ Range(work) = Range(rest) \cup {item} /\ work' = rest \o more
      BY <2>1
  <2> HIDE DEF item, rest
  <2>3. rest \o more \in Seq(Items) /\ Range(rest \o more) = Range(rest) \cup Range(more)
      BY <2>2, RangeSplit
  <2> QED
      BY <2>2, <2>3
<1>3. RootsFirst(work, DOMAIN selected)'
  <2>1. RootsFirst(work', DOMAIN selected')
      BY <1>1, <1>2, RootsFirstKept
  <2> QED
      BY <2>1 DEF RootsFirst
<1>4. item.parent = Project => item.depth = 0
  <2>1. 1 \in DOMAIN work
      BY <1>1
  <2> QED
      BY <1>1, <1>2, <2>1 DEF RootsFirst
<1>5. edges' = edges \cup {e} /\ e[1] = item.parent /\ e[2] = item.name /\ e[3] = item.allowed /\ e[4] = ver
    BY DEF Resolved
<1>6. ver \in item.allowed /\ SelectedVersions' = SelectedVersions \cup {p} /\ p[1] = item.name /\ p[2] = ver
      /\ (item.parent = Project => ver = Greatest(item.allowed \cap VersionsIn(item.name)))
      /\ (item.parent = Project \/ p \notin SelectedVersions
             => \A need \in AskedBy({p}) : \E x \in Range(more) : NeedOf(x) = need /\ x.depth = item.depth + 1)
    OBVIOUS
<1>7. roots # << >> /\ UNCHANGED <<requires, roots, registry, incomplete>>
    BY DEF NpmInv, NpmTypes
<1> HIDE DEF item, p, e, rest
<1>8. Edged' = Edged \cup {NeedOf(item)}
    BY <1>5 DEF Edged, NeedOf
<1>9. Direct' = IF item.parent = Project THEN Direct \cup {p} ELSE Direct
  <2>1. p = <<e[2], e[4]>>
      BY <1>5 DEF p
  <2> QED
      BY <1>5, <2>1 DEF Direct
<1>10. AskedByRoot' = AskedByRoot /\ \A ps : AskedBy(ps)' = AskedBy(ps)
    BY <1>7, NpmStays
<1>11. /\ AskedBy(SelectedVersions)' = AskedBy(SelectedVersions) \cup AskedBy({p})
       /\ AskedBy(Direct)' = IF item.parent = Project THEN AskedBy(Direct) \cup AskedBy({p}) ELSE AskedBy(Direct)
  <2>1. AskedBy(SelectedVersions)' = AskedBy(SelectedVersions')
      BY <1>10
  <2>2. AskedBy(Direct)' = AskedBy(Direct')
      BY <1>10
  <2>3. \A ps : AskedBy(ps \cup {p}) = AskedBy(ps) \cup AskedBy({p})
      BY AskedByMore
  <2>4. AskedBy(SelectedVersions') = AskedBy(SelectedVersions) \cup AskedBy({p})
      BY <1>6, <2>3
  <2>5. CASE item.parent = Project
    <3>1. Direct' = Direct \cup {p}
        BY <1>9, <2>5
    <3> QED
        BY <2>1, <2>2, <2>3, <2>4, <2>5, <3>1
  <2>6. CASE item.parent # Project
    <3>1. Direct' = Direct
        BY <1>9, <2>6
    <3> QED
        BY <2>1, <2>2, <2>4, <2>6, <3>1
  <2> QED
      BY <2>5, <2>6
<1>12. NpmTypes'
    BY <1>1, <1>2, <1>7 DEF NpmTypes
<1>13. NeedsKept'
  <2> SUFFICES ASSUME NEW need \in AskedByRoot' \cup AskedBy(SelectedVersions)'
               PROVE  need \in Edged' \/ need \in incomplete' \/ \E x \in Range(work') : NeedOf(x) = need
      BY DEF NeedsKept
  <2>1. CASE need \in AskedByRoot \cup AskedBy(SelectedVersions)
    <3>1. need \in Edged \/ need \in incomplete \/ \E x \in Range(work) : NeedOf(x) = need
        BY <2>1 DEF NpmInv, NeedsKept
    <3> QED
        BY <1>2, <1>7, <1>8, <3>1
  <2>2. CASE need \in AskedBy({p}) /\ need \notin AskedBy(SelectedVersions)
    <3>1. p \notin SelectedVersions
      <4>1. p \in SelectedVersions => SelectedVersions = SelectedVersions \cup {p}
          OBVIOUS
      <4> QED
          BY <2>2, <4>1, AskedByMore
    <3> QED
        BY <1>2, <1>6, <2>2, <3>1
  <2> QED
      BY <1>10, <1>11, <2>1, <2>2
<1>14. EdgesHold'
  <2> SUFFICES ASSUME NEW d \in edges'
               PROVE  /\ d[4] \in d[3] /\ <<d[2], d[4]>> \in SelectedVersions'
                      /\ d[1] = Project => d[4] = Greatest(d[3] \cap VersionsIn(d[2]))
      BY DEF EdgesHold
  <2>1. CASE d \in edges
      BY <1>6, <2>1 DEF NpmInv, EdgesHold
  <2>2. CASE d = e
      BY <1>5, <1>6, <2>2 DEF p
  <2> QED
      BY <1>5, <2>1, <2>2
<1>15. DirectKept'
  <2> SUFFICES ASSUME registry' = "up", NEW need \in AskedByRoot' \cup AskedBy(Direct)', Meetable(need)
               PROVE  need \in Edged' \/ \E x \in Range(work') : NeedOf(x) = need /\ x.depth <= 1
      BY DEF DirectKept
  <2>1. CASE need \in AskedByRoot \cup AskedBy(Direct)
    <3>1. need \in Edged \/ \E x \in Range(work) : NeedOf(x) = need /\ x.depth <= 1
        BY <1>7, <2>1 DEF NpmInv, DirectKept
    <3> QED
        BY <1>2, <1>8, <3>1
  <2>2. CASE need \in AskedBy({p}) /\ item.parent = Project
    <3>1. PICK x \in Range(more) : NeedOf(x) = need /\ x.depth = item.depth + 1
        BY <1>6, <2>2
    <3>2. x.depth <= 1
        BY <1>4, <2>2, <3>1
    <3> QED
        BY <1>2, <3>1, <3>2
  <2> QED
      BY <1>10, <1>11, <2>1, <2>2
<1> QED
    BY <1>3, <1>12, <1>13, <1>14, <1>15 DEF NpmInv

LEMMA VersionsAre ==
    ASSUME NEW name
    PROVE  /\ VersionsIn(name) \in SUBSET Nat /\ IsFiniteSet(VersionsIn(name))
           /\ \A v \in VersionsIn(name) : <<name, v>> \in Published
<1> DEFINE qs == {q \in Published : q[1] = name}
           f == [q \in qs |-> q[2]]
           vs == {p[2] : p \in qs}
<1>1. IsFiniteSet(qs)
    BY PublishedAreVersions, FS_Subset
<1>2. f \in Surjection(qs, vs)
    BY DEF Surjection
<1>3. IsFiniteSet(vs)
  <2> HIDE DEF f, vs, qs
  <2> QED
      BY <1>1, <1>2, FS_Surjection
<1>4. \A v \in vs : v \in Nat /\ <<name, v>> \in Published
    BY PublishedAreVersions
<1>5. VersionsIn(name) = vs
    BY DEF VersionsIn
<1> QED
    BY <1>3, <1>4, <1>5

LEMMA NpmReuses ==
    ASSUME NpmInv, work # << >>, Reuses(Head(work)), Resolved(Head(work), selected[Head(work).name]),
           work' = Tail(work), UNCHANGED <<requires, roots, registry, selected, nested, incomplete>>
    PROVE  NpmInv'
<1> DEFINE item == Head(work)
           ver == selected[item.name]
           none == << >>
<1>1. work \in Seq(Items) /\ RootsFirst(work, DOMAIN selected)
    BY DEF NpmInv, NpmTypes
<1>2. item = work[1] /\ Tail(work) \in Seq(Items) /\ 1 \in DOMAIN work
    BY <1>1
<1>3. none \in Seq(Items) /\ work' = Tail(work) \o none /\ \A i \in DOMAIN none : none[i].parent # Project
    BY <1>2
<1>4. item.name \in DOMAIN selected /\ ver \in item.allowed
    BY DEF Reuses
<1>5. item.parent # Project
    BY <1>1, <1>2, <1>4 DEF RootsFirst
<1> HIDE DEF none
<1>6. <<item.name, ver>> \in SelectedVersions /\ SelectedVersions' = SelectedVersions
    BY <1>4 DEF SelectedVersions
<1>7. SelectedVersions' = SelectedVersions \cup {<<item.name, ver>>} /\ DOMAIN selected' \subseteq DOMAIN selected \cup {item.name}
    BY <1>6
<1>8. Resolved(Head(work), ver)
    OBVIOUS
<1> HIDE DEF ver
<1> QED
    BY <1>3, <1>4, <1>5, <1>6, <1>7, <1>8, NpmResolves

LEMMA NpmPicks ==
    ASSUME NpmInv, work # << >>, Pick(Head(work), Greatest(Head(work).allowed \cap VersionsIn(Head(work).name))),
           Head(work).allowed \cap VersionsIn(Head(work).name) # {},
           UNCHANGED <<requires, roots, registry>>
    PROVE  NpmInv'
<1> DEFINE item == Head(work)
           inRange == item.allowed \cap VersionsIn(item.name)
           ver == Greatest(inRange)
           p == <<item.name, ver>>
           new == item.name \notin DOMAIN selected \/ selected[item.name] # ver
           more == IF new THEN ItemsOf(p, item.depth + 1) ELSE << >>
<1>1. /\ work \in Seq(Items) /\ RootsFirst(work, DOMAIN selected) /\ IsFiniteSet(requires)
      /\ \A r \in requires : r[2] \in PublishedNames /\ r[3] \in SUBSET Nat
    BY DEF NpmInv, NpmTypes
<1>2. item = work[1] /\ item \in Items /\ 1 \in DOMAIN work
    BY <1>1, RangeSplit
<1>3. ver \in inRange
  <2>1. VersionsIn(item.name) \in SUBSET Nat /\ IsFiniteSet(VersionsIn(item.name))
      BY VersionsAre
  <2>2. inRange \in SUBSET Nat /\ IsFiniteSet(inRange) /\ inRange # {}
      BY <2>1, FS_Subset
  <2> HIDE DEF inRange
  <2> QED
      BY <2>2, GreatestIs
<1>4. ver \in item.allowed /\ p \in Published /\ p[1] = item.name /\ p[1] # Project
    BY <1>3, VersionsAre, PublishedAreVersions
<1>5. item.depth \in Nat /\ item.depth + 1 \in Nat
    BY <1>2 DEF Items
<1>6. /\ Resolved(item, ver) /\ work' = Tail(work) \o more /\ UNCHANGED incomplete
      /\ IF item.name \in DOMAIN selected
         THEN nested' = nested \cup ({p} \ {<<item.name, selected[item.name]>>}) /\ UNCHANGED selected
         ELSE selected' = NewSelected(item.name, ver) /\ UNCHANGED nested
    BY DEF Pick
<1>7. ver = Greatest(item.allowed \cap VersionsIn(item.name))
    OBVIOUS
<1> HIDE DEF item, inRange, ver
<1>8. /\ more \in Seq(Items) /\ \A i \in DOMAIN more : more[i].parent # Project
      /\ new => \A need \in AskedBy({p}) : \E x \in Range(more) : NeedOf(x) = need /\ x.depth = item.depth + 1
  <2> DEFINE d == item.depth + 1
             s == ItemsOf(p, d)
             Of(r) == Item(p[1], r[2], r[3], d)
  <2>1. /\ s \in Seq(Items) /\ Range(s) = {Of(r) : r \in Required(p)}
        /\ \A r \in Required(p) : /\ Of(r).parent = p[1] /\ Of(r).name = r[2] /\ Of(r).allowed = r[3]
                                    /\ Of(r).depth = d
      BY <1>1, <1>4, <1>5, ItemsRange
  <2> HIDE DEF s, Of, p, d
  <2>2. \A i \in DOMAIN s : s[i].parent # Project
      BY <1>4, <2>1 DEF Range
  <2>3. \A need \in AskedBy({p}) : \E x \in Range(s) : NeedOf(x) = need /\ x.depth = d
    <3> TAKE need \in AskedBy({p})
    <3>1. PICK r \in Required(p) : need = <<p[1], r[2], r[3]>>
        BY AskedByMore
    <3>2. NeedOf(Of(r)) = need /\ Of(r).depth = d /\ Of(r) \in Range(s)
        BY <2>1, <3>1 DEF NeedOf
    <3> QED
        BY <3>2
  <2>4. CASE new
    <3>1. more = s
        BY <2>4 DEF s, d
    <3> HIDE DEF more, new
    <3> QED
        BY <2>1, <2>2, <2>3, <3>1 DEF d
  <2>5. CASE ~new
    <3>1. more = << >>
        BY <2>5
    <3> HIDE DEF more, new
    <3>2. more \in Seq(Items) /\ DOMAIN more = {}
        BY <3>1
    <3> QED
        BY <2>5, <3>2
  <2> QED
      BY <2>4, <2>5
<1> HIDE DEF more
<1>9. SelectedVersions' = SelectedVersions \cup {p} /\ DOMAIN selected' \subseteq DOMAIN selected \cup {item.name}
  <2>1. CASE item.name \in DOMAIN selected
    <3>1. /\ nested' = nested \cup ({p} \ {<<item.name, selected[item.name]>>}) /\ selected' = selected
        BY <1>6, <2>1
    <3>2. <<item.name, selected[item.name]>> \in {<<n, selected[n]>> : n \in DOMAIN selected}
        BY <2>1
    <3> DEFINE own == {<<n, selected[n]>> : n \in DOMAIN selected}
               one == <<item.name, selected[item.name]>>
    <3>3. SelectedVersions = own \cup nested /\ SelectedVersions' = own \cup nested'
        BY <3>1 DEF SelectedVersions
    <3> HIDE DEF own, one, p
    <3>4. one \in own /\ nested' = nested \cup ({p} \ {one})
        BY <3>1, <3>2 DEF own, one
    <3> QED
        BY <3>1, <3>3, <3>4
  <2>2. CASE item.name \notin DOMAIN selected
    <3>1. /\ DOMAIN selected' = DOMAIN selected \cup {item.name} /\ nested' = nested
          /\ \A n \in DOMAIN selected' : selected'[n] = IF n = item.name THEN ver ELSE selected[n]
        BY <1>6, <2>2 DEF NewSelected
    <3>2. \A q \in {<<n, selected'[n]>> : n \in DOMAIN selected'} : q = p \/ q \in {<<n, selected[n]>> : n \in DOMAIN selected}
        BY <3>1
    <3>3. \A q \in {<<n, selected[n]>> : n \in DOMAIN selected} : q \in {<<n, selected'[n]>> : n \in DOMAIN selected'}
        BY <2>2, <3>1
    <3>4. p \in {<<n, selected'[n]>> : n \in DOMAIN selected'}
        BY <3>1
    <3> DEFINE own == {<<n, selected[n]>> : n \in DOMAIN selected}
               then == {<<n, selected'[n]>> : n \in DOMAIN selected'}
    <3>5. SelectedVersions = own \cup nested /\ SelectedVersions' = then \cup nested
        BY <3>1 DEF SelectedVersions
    <3>6. then = own \cup {p}
      <4> HIDE DEF own, then, p
      <4> QED
          BY <3>2, <3>3, <3>4 DEF own, then
    <3> HIDE DEF own, then, p
    <3> QED
        BY <3>1, <3>5, <3>6
  <2> QED
      BY <2>1, <2>2
<1>10. item.parent = Project \/ p \notin SelectedVersions => new
  <2>1. item.parent = Project => item.name \notin DOMAIN selected
      BY <1>1, <1>2 DEF RootsFirst
  <2>2. item.name \in DOMAIN selected /\ selected[item.name] = ver => p \in SelectedVersions
      BY DEF SelectedVersions
  <2> QED
      BY <2>1, <2>2
<1> HIDE DEF new
<1> QED
    BY <1>4, <1>6, <1>7, <1>8, <1>9, <1>10, NpmResolves DEF item, p

LEMMA NpmVisits ==
    ASSUME tool = "npm", NpmInv, VisitNpm
    PROVE  NpmInv'
<1> DEFINE item == Head(work)
           inRange == item.allowed \cap VersionsIn(item.name)
<1>1. work # << >> /\ UNCHANGED <<requires, roots, registry>>
    BY DEF VisitNpm
<1>2. CASE item.depth > MaxDepth /\ NotResolved(item)
    BY <1>1, <1>2, NpmGivesUp
<1>3. CASE Reuses(item) /\ Resolved(item, selected[item.name]) /\ work' = Tail(work)
           /\ UNCHANGED <<selected, nested, incomplete>>
    BY <1>1, <1>3, NpmReuses
<1>4. ASSUME NEW answered \in Answers(item.name),
             IF answered /\ inRange # {} THEN Pick(item, Greatest(inRange)) ELSE NotResolved(item)
      PROVE  NpmInv'
  <2>1. CASE answered /\ inRange # {}
      BY <1>1, <1>4, <2>1, NpmPicks
  <2>2. CASE ~(answered /\ inRange # {})
    <3>1. NotResolved(item)
        BY <1>4, <2>2
    <3>2. registry = "up" => inRange = {}
        BY <1>4, <2>2 DEF Answers
    <3>3. inRange = {} => ~Meetable(NeedOf(item))
        BY DEF Meetable, NeedOf
    <3> QED
        BY <1>1, <3>1, <3>2, <3>3, NpmGivesUp
  <2> QED
      BY <2>1, <2>2
<1> QED
    BY <1>2, <1>3, <1>4 DEF VisitNpm

\* Nothing is selected yet, and all that the project asks for waits.
Untouched == selected = << >> /\ nested = {} /\ edges = {} /\ incomplete = {}
LEMMA NpmStarts ==
    ASSUME Untouched, NpmTypes, \A need \in AskedByRoot : \E item \in Range(work) : NeedOf(item) = need /\ item.depth <= 1,
           RootsFirst(work, DOMAIN selected)
    PROVE  NpmInv
<1>1. SelectedVersions = {} /\ Direct = {} /\ edges = {}
    BY DEF Untouched, SelectedVersions, Direct
<1>2. AskedBy(SelectedVersions) = {} /\ AskedBy(Direct) = {}
    BY <1>1, AskedByMore
<1>3. NeedsKept
    BY <1>2 DEF NeedsKept
<1>4. DirectKept
    BY <1>2 DEF DirectKept
<1>5. EdgesHold
    BY <1>1 DEF EdgesHold
<1> QED
    BY <1>3, <1>4, <1>5 DEF NpmInv

LEMMA NpmPublishes ==
    ASSUME tool = "npm", NpmInv, NEW p \in Published, NEW name \in PublishedNames, NEW allowed, Publish(p, name, allowed)
    PROVE  NpmInv'
<1>1. allowed \in SUBSET Nat
  <2>1. allowed \in SUBSET {q[2] : q \in Published}
      BY DEF Publish, Askable
  <2> QED
      BY <2>1, PublishedAreVersions
<1>2. /\ roots' = << >> /\ work' = << >> /\ selected' = << >> /\ nested' = {} /\ edges' = {} /\ incomplete' = {}
    BY DEF NpmInv, NpmTypes, Publish
<1>3. requires' = requires \cup {<<p, name, allowed>>}
    BY DEF Publish
<1>4. IsFiniteSet(requires')
    BY <1>3, FS_AddElement DEF NpmInv, NpmTypes
<1>5. \A r \in requires' : r[1] \in Published /\ r[2] \in PublishedNames /\ r[3] \in SUBSET Nat
  <2> TAKE r \in requires'
  <2>1. r \in requires \/ r = <<p, name, allowed>>
      BY <1>3
  <2> QED
      BY <1>1, <2>1 DEF NpmInv, NpmTypes
<1>6. NpmTypes' /\ Untouched'
    BY <1>2, <1>4, <1>5 DEF NpmTypes, Untouched
<1>7. AskedByRoot' = {} /\ DOMAIN work' = {}
    BY <1>2 DEF AskedByRoot
<1>8. RootsFirst(work, DOMAIN selected)'
    BY <1>7 DEF RootsFirst
<1>9. (Untouched /\ NpmTypes
         /\ (\A need \in AskedByRoot : \E item \in Range(work) : NeedOf(item) = need /\ item.depth <= 1)
         /\ RootsFirst(work, DOMAIN selected) => NpmInv)'
    BY NpmStarts, PTL
<1> QED
    BY <1>6, <1>7, <1>8, <1>9

LEMMA NpmBegins ==
    ASSUME tool = "npm", NpmInv, NEW first \in PublishedNames, NEW second \in PublishedNames, Begin(first, second)
    PROVE  NpmInv'
<1>1. PICK one \in Askable(first), other \in Askable(second) :
         roots' = IF first = second THEN <<<<first, one>>>> ELSE <<<<first, one>>, <<second, other>>>>
    BY DEF Begin
<1>2. one \in SUBSET Nat /\ other \in SUBSET Nat
  <2>1. one \in SUBSET {q[2] : q \in Published} /\ other \in SUBSET {q[2] : q \in Published}
      BY DEF Askable
  <2> QED
      BY <2>1, PublishedAreVersions
<1>3. /\ roots' # << >> /\ (\E n \in Nat : DOMAIN roots' = 1 .. n)
      /\ \A i \in DOMAIN roots' : roots'[i][1] \in PublishedNames /\ roots'[i][2] \in SUBSET Nat
      /\ \A i \in DOMAIN roots' : \A j \in 1 .. i - 1 : roots'[j][1] # roots'[i][1]
  <2>1. CASE first = second
    <3>1. roots' = <<<<first, one>>>>
        BY <1>1, <2>1
    <3>2. roots' # << >> /\ DOMAIN roots' = 1 .. 1 /\ roots'[1] = <<first, one>>
        BY <3>1
    <3>3. \A i \in DOMAIN roots' : i = 1 /\ \A j \in 1 .. i - 1 : FALSE
        BY <3>2
    <3>4. roots'[1][1] = first /\ roots'[1][2] = one
        BY <3>2
    <3> QED
        BY <1>2, <3>2, <3>3, <3>4
  <2>2. CASE first # second
    <3>1. roots' = <<<<first, one>>, <<second, other>>>>
        BY <1>1, <2>2
    <3>2. /\ roots' # << >> /\ DOMAIN roots' = 1 .. 2
          /\ roots'[1] = <<first, one>> /\ roots'[2] = <<second, other>>
        BY <3>1
    <3>3. \A i \in DOMAIN roots' : (i = 1 \/ i = 2) /\ \A j \in 1 .. i - 1 : i = 2 /\ j = 1
        BY <3>2
    <3>4. roots'[1][1] = first /\ roots'[1][2] = one /\ roots'[2][1] = second /\ roots'[2][2] = other
        BY <3>2
    <3> QED
        BY <1>2, <2>2, <3>2, <3>3, <3>4
  <2> QED
      BY <2>1, <2>2
<1>4. /\ work' = [i \in DOMAIN roots' |-> Item(Project, roots'[i][1], roots'[i][2], 0)]
      /\ UNCHANGED <<requires, selected, nested, edges, incomplete>> /\ roots = << >>
    BY DEF Begin
<1>5. \A i \in DOMAIN roots' :
         /\ work'[i] \in Items /\ work'[i].parent = Project /\ work'[i].name = roots'[i][1]
         /\ work'[i].allowed = roots'[i][2] /\ work'[i].depth = 0
    BY <1>3, <1>4 DEF Item, Items
<1>6. work' \in Seq(Items) /\ DOMAIN work' = DOMAIN roots'
    BY <1>3, <1>4, <1>5
<1>7. selected' = << >> /\ nested' = {} /\ edges' = {} /\ incomplete' = {}
    BY <1>4 DEF NpmInv, NpmTypes
<1>8. NpmTypes' /\ Untouched'
    BY <1>3, <1>4, <1>6, <1>7 DEF NpmInv, NpmTypes, Untouched
<1>9. RootsFirst(work, DOMAIN selected)'
  <2>1. DOMAIN selected' = {}
      BY <1>7
  <2>2. ASSUME NEW i \in DOMAIN work', NEW j \in 1 .. i - 1 PROVE j \in DOMAIN work'
      BY <1>3, <1>6
  <2> QED
      BY <1>3, <1>5, <1>6, <2>1, <2>2 DEF RootsFirst
<1>10. ASSUME NEW need \in AskedByRoot' PROVE \E item \in Range(work') : NeedOf(item) = need /\ item.depth <= 1
  <2>1. PICK i \in DOMAIN roots' : need = <<Project, roots'[i][1], roots'[i][2]>>
      BY DEF AskedByRoot
  <2>2. work'[i] \in Range(work')
      BY <1>6 DEF Range
  <2>3. NeedOf(work'[i]) = need /\ work'[i].depth <= 1
      BY <1>5, <2>1 DEF NeedOf
  <2> QED
      BY <2>2, <2>3
<1>11. (Untouched /\ NpmTypes
         /\ (\A need \in AskedByRoot : \E item \in Range(work) : NeedOf(item) = need /\ item.depth <= 1)
         /\ RootsFirst(work, DOMAIN selected) => NpmInv)'
    BY NpmStarts, PTL
<1> QED
    BY <1>8, <1>9, <1>10, <1>11

LEMMA NpmKept == ResolveSpec => [](tool = "npm" => NpmInv)
<1>1. ResolveInit => NpmInv
  <2> SUFFICES ASSUME ResolveInit PROVE NpmInv
      OBVIOUS
  <2>1. /\ requires = {} /\ roots = << >> /\ work = << >> /\ Untouched
      BY DEF ResolveInit, Untouched
  <2>2. NpmTypes
      BY <2>1, FS_EmptySet DEF NpmTypes, Untouched
  <2>3. AskedByRoot = {} /\ RootsFirst(work, DOMAIN selected)
      BY <2>1 DEF AskedByRoot, RootsFirst
  <2> QED
      BY <2>1, <2>2, <2>3, NpmStarts
<1>2. (tool = "npm" => NpmInv) /\ [ResolveNext]_resolveVars => (tool = "npm" => NpmInv)'
  <2> SUFFICES ASSUME tool = "npm" => NpmInv, [ResolveNext]_resolveVars, tool' = "npm" PROVE NpmInv'
      OBVIOUS
  <2>1. tool' = tool
      BY DEF ResolveNext, Publish, Begin, VisitNpm, VisitGo, VisitMaven, resolveVars
  <2>2. tool = "npm" /\ NpmInv
      BY <2>1
  <2>3. CASE \E p \in Published, n \in PublishedNames, w \in SUBSET {q[2] : q \in Published} : Publish(p, n, w)
      BY <2>2, <2>3, NpmPublishes
  <2>4. CASE \E first, second \in PublishedNames : Begin(first, second)
      BY <2>2, <2>4, NpmBegins
  <2>5. CASE VisitNpm
      BY <2>2, <2>5, NpmVisits
  <2>6. CASE VisitGo \/ VisitMaven
      BY <2>2, <2>6 DEF VisitGo, VisitMaven
  <2>7. CASE UNCHANGED resolveVars
    <3>1. UNCHANGED <<requires, roots, registry, work, selected, nested, edges, incomplete>>
        BY <2>7 DEF resolveVars
    <3>2. /\ AskedByRoot' = AskedByRoot /\ SelectedVersions' = SelectedVersions /\ Direct' = Direct /\ Edged' = Edged
          /\ \A ps : AskedBy(ps)' = AskedBy(ps)
        BY <3>1, NpmStays DEF SelectedVersions, Direct, Edged
    <3>3. AskedBy(SelectedVersions)' = AskedBy(SelectedVersions) /\ AskedBy(Direct)' = AskedBy(Direct)
        BY <3>2
    <3>4. NpmTypes' /\ NeedsKept' /\ EdgesHold' /\ DirectKept' /\ RootsFirst(work, DOMAIN selected)'
        BY <2>2, <3>1, <3>2, <3>3 DEF NpmInv, NpmTypes, NeedsKept, EdgesHold, DirectKept, RootsFirst
    <3> QED
        BY <3>4 DEF NpmInv
  <2> QED
      BY <2>3, <2>4, <2>5, <2>6, <2>7 DEF ResolveNext
<1> QED
    BY <1>1, <1>2, PTL DEF ResolveSpec

LEMMA NpmEnds ==
    ASSUME tool = "npm" => NpmInv
    PROVE  NpmAnswersEveryNeed
<1> SUFFICES ASSUME tool = "npm", Ended
             PROVE  /\ AskedByRoot \cup AskedBy(SelectedVersions) \subseteq Edged \cup incomplete
                    /\ \A e \in edges : e[4] \in e[3] /\ <<e[2], e[4]>> \in SelectedVersions
                    /\ \A p \in Direct : \E e \in edges : e[1] = Project /\ e[2] = p[1]
                                                  /\ p[2] = Greatest(e[3] \cap VersionsIn(p[1]))
                    /\ registry = "up" => {need \in AskedByRoot \cup AskedBy(Direct) : Meetable(need)} \subseteq Edged
    BY DEF NpmAnswersEveryNeed, Direct, Meetable
<1>1. Range(work) = {}
    BY DEF Ended, Range
<1>2. NpmInv
    OBVIOUS
<1>3. AskedByRoot \cup AskedBy(SelectedVersions) \subseteq Edged \cup incomplete
    BY <1>1, <1>2 DEF NpmInv, NeedsKept
<1>4. \A e \in edges : e[4] \in e[3] /\ <<e[2], e[4]>> \in SelectedVersions
    BY <1>2 DEF NpmInv, EdgesHold
<1>5. ASSUME NEW p \in Direct
      PROVE  \E e \in edges : e[1] = Project /\ e[2] = p[1] /\ p[2] = Greatest(e[3] \cap VersionsIn(p[1]))
  <2>1. PICK e \in edges : e[1] = Project /\ p = <<e[2], e[4]>>
      BY DEF Direct
  <2>2. e[4] = Greatest(e[3] \cap VersionsIn(e[2]))
      BY <1>2, <2>1 DEF NpmInv, EdgesHold
  <2> QED
      BY <2>1, <2>2
<1>6. registry = "up" => {need \in AskedByRoot \cup AskedBy(Direct) : Meetable(need)} \subseteq Edged
    BY <1>1, <1>2 DEF NpmInv, DirectKept
<1> QED
    BY <1>3, <1>4, <1>5, <1>6

\* What a resolver selects is what the rules of its ecosystem select: a range of
\* semver.py allows what its text says, resolve_npm answers every requirement it
\* follows, mvs_build_list has the greatest version of everything asked for, and
\* mediate the nearest; for any packages, requirements and ranges.
THEOREM SelectionAlwaysFollowsRules == ResolveSpec => []SelectionFollowsRules
<1>1. RangeInv /\ GraphsInv /\ (tool = "npm" => NpmInv) => SelectionFollowsRules
  <2> SUFFICES ASSUME RangeInv, GraphsInv, tool = "npm" => NpmInv PROVE SelectionFollowsRules
      OBVIOUS
  <2>1. RangesMeanTheirText
      BY RangesMean
  <2>2. NpmAnswersEveryNeed
      BY NpmEnds
  <2>3. BuildListIsMinimal
    <3>1. CASE tool = "go"
        BY <3>1, GoEnds DEF GraphsInv
    <3>2. CASE tool # "go"
        BY <3>2 DEF BuildListIsMinimal
    <3> QED
        BY <3>1, <3>2
  <2>4. NearestWins
    <3>1. CASE tool = "maven"
        BY <3>1, MavenEnds DEF GraphsInv
    <3>2. CASE tool # "maven"
        BY <3>2 DEF NearestWins
    <3> QED
        BY <3>1, <3>2
  <2> QED
      BY <2>1, <2>2, <2>3, <2>4 DEF SelectionFollowsRules
<1> QED
    BY <1>1, RangeIsKept, GraphsKept, NpmKept, PTL

(***************************************************************************)
(* The databases of installed packages                                     *)
(***************************************************************************)

Asked == [form : {"name", "either", "provided", "refuses"}, name : {q[1] : q \in Installable}, ver : Version]

\* What sqlite's main file and ndb's blobs hold of the packages, whatever step the
\* package manager was interrupted at; a requirement is of another package.
OsInv ==
    /\ db \in DatabaseFormats
    /\ asks \in [Installable -> SUBSET Asked]
    /\ \A p \in Installable : \A ask \in asks[p] : ask.name # p[1]
    /\ DOMAIN status \subseteq Installable /\ stored \subseteq Installable
    /\ logged \in BOOLEAN /\ (logged => db = "sqlite")
    /\ db = "sqlite" =>
         (\A p \in DOMAIN status : status[p] = "installed") /\ (~logged => stored = DOMAIN status)
    /\ db = "ndb" => \A p \in DOMAIN status : p \in stored /\ status[p] \in {"installed", "blob"}

LEMMA AsksAreOfOthers ==
    ASSUME OsInv, NEW p \in Installable,
           asks' \in {[asks EXCEPT ![p] = wanted] : wanted \in AsksOf(p)} \cup {asks, [asks EXCEPT ![p] = {}]}
    PROVE  /\ asks' \in [Installable -> SUBSET Asked]
           /\ \A q \in Installable : \A ask \in asks'[q] : ask.name # q[1]
<1>1. \A wanted \in AsksOf(p) : wanted \in SUBSET Asked /\ \A ask \in wanted : ask.name # p[1]
  <2> TAKE wanted \in AsksOf(p)
  <2>1. CASE wanted = {}
      BY <2>1
  <2>2. CASE wanted # {}
    <3>1. PICK f \in Forms, q \in {r \in Installable : r[1] # p[1]} :
            wanted = {[form |-> f, name |-> q[1], ver |-> q[2]]}
        BY <2>2 DEF AsksOf
    <3>2. f \in {"name", "either", "provided", "refuses"}
        BY DEF Forms
    <3>3. q \in Installable /\ q[1] # p[1] /\ q[2] \in Version
        BY InstallableAreVersions
    <3> QED
        BY <3>1, <3>2, <3>3 DEF Asked
  <2> QED
      BY <2>1, <2>2
<1>2. PICK wanted \in SUBSET Asked : (asks' = asks \/ asks' = [asks EXCEPT ![p] = wanted]) /\ \A ask \in wanted : ask.name # p[1]
  <2>1. {} \in SUBSET Asked /\ \A ask \in {} : ask.name # p[1]
      OBVIOUS
  <2>2. asks' = asks \/ \E wanted \in SUBSET Asked : asks' = [asks EXCEPT ![p] = wanted] /\ \A ask \in wanted : ask.name # p[1]
      BY <1>1, <2>1
  <2> QED
      BY <2>1, <2>2
<1>3. asks \in [Installable -> SUBSET Asked] /\ \A q \in Installable : \A ask \in asks[q] : ask.name # q[1]
    BY DEF OsInv
<1> HIDE DEF Asked, AsksOf
<1> QED
    BY <1>2, <1>3

LEMMA OsKept == OsSpec => []OsInv
<1>1. OsInit => OsInv
    BY DEF OsInit, OsInv, DatabaseFormats
<1>2. OsInv /\ [OsNext]_osVars => OsInv'
  <2> SUFFICES ASSUME OsInv, [OsNext]_osVars PROVE OsInv'
      OBVIOUS
  <2>1. ASSUME NEW p \in Installable, Install(p) PROVE OsInv'
    <3>1. /\ asks' \in {[asks EXCEPT ![p] = wanted] : wanted \in AsksOf(p)}
          /\ stored' = (IF db = "sqlite" THEN stored ELSE stored \cup {p})
          /\ logged' = (db = "sqlite") /\ db' = db
        BY <2>1 DEF Install
    <3>2. /\ asks' \in [Installable -> SUBSET Asked]
          /\ \A q \in Installable : \A ask \in asks'[q] : ask.name # q[1]
        BY <3>1, AsksAreOfOthers
    <3>3. PICK s : s \in {"unpacked", "blob", "installed"} /\ (db = "sqlite" => s = "installed") /\ (db = "ndb" => s = "blob")
                   /\ status' = With(Without(status, Replaced(p)), p, s)
        BY <2>1 DEF Install
    <3>4. /\ DOMAIN status' \subseteq DOMAIN status \cup {p}
          /\ \A q \in DOMAIN status' : status'[q] = IF q = p THEN s ELSE status[q]
        BY <3>3 DEF With, Without
    <3> QED
        BY <3>1, <3>2, <3>3, <3>4 DEF OsInv, Asked
  <2>2. ASSUME NEW p \in Installable, Configure(p) PROVE OsInv'
    <3>1. UNCHANGED <<db, asks, stored, logged>> /\ p \in DOMAIN status /\ status[p] \in {"unpacked", "blob"}
        BY <2>2 DEF Configure, WithStatus
    <3>2. PICK s \in {"installed", "triggers-pending"} :
            status' = [status EXCEPT ![p] = s] /\ (db = "ndb" => s = "installed")
        BY <2>2 DEF Configure
    <3>3. DOMAIN status' = DOMAIN status /\ \A q \in DOMAIN status : status'[q] = IF q = p THEN s ELSE status[q]
        BY <3>2
    <3>4. db # "sqlite"
      <4>1. status[p] # "installed"
          BY <3>1
      <4> QED
          BY <3>1, <4>1 DEF OsInv
    <3>5. db = "ndb" => \A q \in DOMAIN status' : q \in stored /\ status'[q] \in {"installed", "blob"}
        BY <3>1, <3>2, <3>3 DEF OsInv
    <3>6. DOMAIN status' \subseteq Installable
        BY <3>3 DEF OsInv
    <3> QED
        BY <3>1, <3>4, <3>5, <3>6 DEF OsInv, Asked
  <2>3. ASSUME NEW p \in Installable, Uninstall(p) PROVE OsInv'
    <3>1. /\ asks' \in {asks, [asks EXCEPT ![p] = {}]} /\ db' = db /\ logged' = (db = "sqlite")
          /\ stored' \in {stored, stored \ {p}} /\ (db = "sqlite" => stored' = stored)
          /\ p \in DOMAIN status
      <4>1. asks' \in {asks, [asks EXCEPT ![p] = {}]} /\ db' = db /\ logged' = (db = "sqlite") /\ p \in DOMAIN status
          BY <2>3 DEF Uninstall, Installed, WithStatus
      <4>2. stored' \in IF db = "ndb" THEN {stored, stored \ {p}} ELSE IF db = "sqlite" THEN {stored} ELSE {stored \ {p}}
          BY <2>3 DEF Uninstall
      <4> QED
          BY <4>1, <4>2
    <3>2. /\ asks' \in [Installable -> SUBSET Asked]
          /\ \A q \in Installable : \A ask \in asks'[q] : ask.name # q[1]
        BY <3>1, AsksAreOfOthers
    <3>3. /\ DOMAIN status' \subseteq DOMAIN status
          /\ \A q \in DOMAIN status' : q # p => status'[q] = status[q]
          /\ db # "dpkg" => p \notin DOMAIN status'
        BY <2>3 DEF Uninstall, Without
    <3> QED
        BY <3>1, <3>2, <3>3 DEF OsInv, Asked
  <2>4. ASSUME NEW p \in Installable, Damage(p) PROVE OsInv'
      BY <2>4 DEF OsInv, Damage, Asked
  <2>5. CASE Checkpoint
    <3>1. logged /\ stored' = Installed /\ logged' \in BOOLEAN /\ UNCHANGED <<db, status, asks>>
        BY <2>5 DEF Checkpoint
    <3>2. db = "sqlite" /\ Installed = DOMAIN status
        BY <3>1 DEF OsInv, Installed, WithStatus
    <3> QED
        BY <3>1, <3>2 DEF OsInv, Asked
  <2>6. CASE UNCHANGED osVars
      BY <2>6 DEF OsInv, osVars, Asked
  <2> QED
      BY <2>1, <2>2, <2>3, <2>4, <2>5, <2>6 DEF OsNext
<1> QED
    BY <1>1, <1>2, PTL DEF OsSpec

LEMMA ReportedRows ==
    ASSUME OsInv
    PROVE  /\ Rows \subseteq Installable
           /\ Reported = {SystemPackage(p) : p \in Rows}
           /\ \A d \in SystemReport.edges :
                \E p \in Rows : \E ask \in asks[p] :
                   /\ db \notin TellNoNeeds /\ ask.form # "provided"
                   /\ d = Edge(RefPurl(SystemPackage(p)), RefFamily(SystemFamily(ask.name)), "runtime", FALSE)
           /\ db \notin TellNoNeeds =>
                \A p \in Rows : \A ask \in asks[p] : ask.form # "provided" =>
                   Edge(RefPurl(SystemPackage(p)), RefFamily(SystemFamily(ask.name)), "runtime", FALSE) \in SystemReport.edges
<1>1. Rows \subseteq Installable
  <2>1. WithStatus({"installed"}) \subseteq Installable /\ WithStatus({"installed", "half-installed"}) \subseteq Installable
      BY DEF WithStatus, OsInv
  <2>2. Headers \subseteq Installable
      BY <2>1 DEF Headers, SqliteHeaders, NdbHeaders, BdbHeaders, Installed, OsInv
  <2> QED
      BY <2>1, <2>2 DEF Rows, DpkgRows, RpmRows, PackageRows, Installed
<1>2. SystemReport.claims = UNION {SystemFinding(p).claims : p \in Rows}
      /\ SystemReport.edges = UNION {SystemFinding(p).edges : p \in Rows}
    BY DEF SystemReport, Found
<1>3. \A p \in Rows : SystemFinding(p).claims = {Claim(SystemPackage(p), Tier.INSTALLED, {})}
    BY DEF SystemFinding, Found
<1>4. \A c : c \in SystemReport.claims <=> \E p \in Rows : c = Claim(SystemPackage(p), Tier.INSTALLED, {})
    BY <1>2, <1>3
<1>5. \A p : /\ Claim(SystemPackage(p), Tier.INSTALLED, {}).name = SystemFamily(p[1])
             /\ Claim(SystemPackage(p), Tier.INSTALLED, {}).ver = p[2]
    BY DEF Claim, SystemPackage
<1>6. \A c \in SystemReport.claims : c.ver # 0
    BY <1>1, <1>4, <1>5, InstallableAreVersions, VersionsAreNumbers
<1>7. Reported = {<<c.name, c.ver>> : c \in SystemReport.claims}
    BY <1>6 DEF Reported, Components
<1>8. Reported = {SystemPackage(p) : p \in Rows}
  <2> DEFINE claim(p) == Claim(SystemPackage(p), Tier.INSTALLED, {})
  <2>1. \A p : <<claim(p).name, claim(p).ver>> = SystemPackage(p)
      BY <1>5 DEF SystemPackage
  <2>2. \A c : c \in SystemReport.claims <=> \E p \in Rows : c = claim(p)
      BY <1>4
  <2> HIDE DEF claim, Rows, Reported, SystemReport
  <2> QED
      BY <1>7, <2>1, <2>2
<1>9. ASSUME NEW p \in Rows
      PROVE  \A d : d \in SystemFinding(p).edges <=>
               \E ask \in asks[p] : /\ db \notin TellNoNeeds /\ ask.form # "provided"
                                    /\ d = Edge(RefPurl(SystemPackage(p)), RefFamily(SystemFamily(ask.name)), "runtime", FALSE)
  <2> DEFINE asked == IF db \in TellNoNeeds THEN {} ELSE UNION {AskedName(ask) : ask \in asks[p]}
             edge(n) == Edge(RefPurl(SystemPackage(p)), RefFamily(SystemFamily(n)), "runtime", FALSE)
  <2>1. SystemFinding(p).edges = {edge(n) : n \in asked}
      BY DEF SystemFinding, Found
  <2>2. \A n : n \in asked <=> \E ask \in asks[p] : db \notin TellNoNeeds /\ ask.form # "provided" /\ n = ask.name
      BY DEF AskedName
  <2> HIDE DEF asked, edge
  <2>3. \A d : d \in SystemFinding(p).edges <=>
               \E ask \in asks[p] : db \notin TellNoNeeds /\ ask.form # "provided" /\ d = edge(ask.name)
      BY <2>1, <2>2
  <2> QED
      BY <2>3 DEF edge
<1>10. \A d : d \in SystemReport.edges <=> \E p \in Rows : d \in SystemFinding(p).edges
    BY <1>2
<1>11. \A d \in SystemReport.edges :
         \E p \in Rows : \E ask \in asks[p] :
            /\ db \notin TellNoNeeds /\ ask.form # "provided"
            /\ d = Edge(RefPurl(SystemPackage(p)), RefFamily(SystemFamily(ask.name)), "runtime", FALSE)
  <2> TAKE d \in SystemReport.edges
  <2>1. PICK p \in Rows : d \in SystemFinding(p).edges
      BY <1>10
  <2> QED
      BY <1>9, <2>1
<1>12. ASSUME db \notin TellNoNeeds, NEW p \in Rows, NEW ask \in asks[p], ask.form # "provided"
       PROVE  Edge(RefPurl(SystemPackage(p)), RefFamily(SystemFamily(ask.name)), "runtime", FALSE) \in SystemReport.edges
  <2> DEFINE d == Edge(RefPurl(SystemPackage(p)), RefFamily(SystemFamily(ask.name)), "runtime", FALSE)
  <2>1. d \in SystemFinding(p).edges
      BY <1>9, <1>12
  <2> HIDE DEF d
  <2>2. d \in SystemReport.edges
      BY <1>10, <2>1
  <2> QED
      BY <2>2 DEF d
<1> QED
    BY <1>1, <1>8, <1>11, <1>12

LEMMA RowsRead == OsInv => RowsAreReadBack
<1> SUFFICES ASSUME OsInv, ~Warned, ~(db \in Rpm /\ ParseFails)
             PROVE  /\ {SystemPackage(p) : p \in Installed \ DOMAIN damaged} \subseteq Reported
                    /\ Reported \subseteq {SystemPackage(p) : p \in Present}
    BY DEF RowsAreReadBack
<1>1. Reported = {SystemPackage(p) : p \in Rows}
    BY ReportedRows
<1>2. Installed = {p \in DOMAIN status : status[p] = "installed"}
      /\ Present = {p \in DOMAIN status : status[p] \in {"installed", "half-installed"}}
      /\ DpkgRows = Present
    BY DEF Installed, Present, DpkgRows, WithStatus
<1>3. Headers = Installed
  <2>1. CASE db = "sqlite"
      BY <1>2, <2>1 DEF Headers, SqliteHeaders, Warned, OsInv
  <2>2. CASE db = "ndb"
      BY <1>2, <2>2 DEF Headers, NdbHeaders, OsInv
  <2>3. CASE db \notin {"sqlite", "ndb"}
      BY <2>3 DEF Headers, BdbHeaders
  <2> QED
      BY <2>1, <2>2, <2>3
<1>4. CASE db \in Rpm
  <2>1. Rows = Installed \ (NoHeader \cup Nameless)
      BY <1>3, <1>4 DEF Rows, RpmRows, Rpm
  <2>2. NoHeader \cup Nameless \subseteq DOMAIN damaged
      BY DEF NoHeader, Nameless
  <2> QED
      BY <1>1, <1>2, <2>1, <2>2
<1>5. CASE db \notin Rpm
    BY <1>1, <1>2, <1>5 DEF Rows, PackageRows, DpkgRows
<1> QED
    BY <1>4, <1>5

\* Of the packages of one name there is one whose version none exceeds.
LEMMA Newest ==
    ASSUME NEW S \in SUBSET Installable, S # {}
    PROVE  \E p \in S : \A q \in S : q[2] <= p[2]
<1>1. IsFiniteSet(S) /\ \A p \in S : p[2] \in Nat
    BY InstallableAreVersions, VersionsAreNumbers, FS_Subset
<1> DEFINE G == {n \in Nat : \A T \in SUBSET S : Cardinality(T) = n /\ T # {} => \E p \in T : \A q \in T : q[2] <= p[2]}
<1>2. \A T \in SUBSET S : IsFiniteSet(T) /\ Cardinality(T) \in Nat
    BY <1>1, FS_Subset, FS_CardinalityType
<1>3. 0 \in G
    BY <1>2, FS_EmptySet
<1>4. ASSUME NEW n \in 1 .. Cardinality(S), n - 1 \in G PROVE n \in G
  <2> SUFFICES ASSUME NEW T \in SUBSET S, Cardinality(T) = n, T # {} PROVE \E p \in T : \A q \in T : q[2] <= p[2]
      BY <1>2
  <2>1. PICK x \in T : TRUE
      OBVIOUS
  <2>2. T \ {x} \in SUBSET S /\ Cardinality(T \ {x}) = n - 1
      BY <1>2, <2>1, FS_RemoveElement
  <2>3. CASE T \ {x} = {}
      BY <1>1, <2>1, <2>3
  <2>4. CASE T \ {x} # {}
    <3>1. PICK p \in T \ {x} : \A q \in T \ {x} : q[2] <= p[2]
        BY <1>4, <2>2, <2>4
    <3>2. x[2] \in Nat /\ p[2] \in Nat /\ \A q \in T : q[2] \in Nat
        BY <1>1, <2>1
    <3>3. CASE x[2] <= p[2]
        BY <3>1, <3>3
    <3>4. CASE p[2] < x[2]
      <4>1. \A q \in T : q[2] <= x[2]
        <5> TAKE q \in T
        <5>1. q = x \/ q[2] <= p[2]
            BY <3>1
        <5> QED
            BY <3>2, <3>4, <5>1
      <4> QED
          BY <2>1, <4>1
    <3> QED
        BY <3>2, <3>3, <3>4
  <2> QED
      BY <2>3, <2>4
<1> HIDE DEF G
<1>5. Cardinality(S) \in G
    BY <1>2, <1>3, <1>4, CountUp
<1> QED
    BY <1>2, <1>5 DEF G

LEMMA NeedsRead == OsInv => NeedsAreReadBack
<1> SUFFICES ASSUME OsInv PROVE NeedsAreReadBack
    OBVIOUS
<1> DEFINE graph == Graph(SystemReport)
           claims == SystemReport.claims
           pkg(p) == SystemPackage(p)
           edge(p, n) == Edge(RefPurl(pkg(p)), RefFamily(SystemFamily(n)), "runtime", FALSE)
<1>1. /\ Rows \subseteq Installable /\ Reported = {pkg(p) : p \in Rows} /\ Components(claims) = Reported
      /\ \A d \in SystemReport.edges : \E p \in Rows : \E ask \in asks[p] :
           db \notin TellNoNeeds /\ ask.form # "provided" /\ d = edge(p, ask.name)
      /\ db \notin TellNoNeeds =>
           \A p \in Rows : \A ask \in asks[p] : ask.form # "provided" => edge(p, ask.name) \in SystemReport.edges
    BY ReportedRows DEF Reported
<1>2. \A p, q : (p \in Rows /\ q \in Rows /\ pkg(p) = pkg(q)) => p = q
  <2>1. \A p, q : pkg(p) = pkg(q) => p[1] = q[1] /\ p[2] = q[2]
      BY DEF SystemPackage, SystemFamily, Family
  <2> QED
      BY <1>1, <2>1, InstallableAreVersions
<1>3. \A p, n : /\ edge(p, n).src = RefPurl(pkg(p)) /\ edge(p, n).dst = RefFamily(SystemFamily(n))
    BY DEF Edge
<1>4. \A p : Resolve(claims, RefPurl(pkg(p))) = {r \in Reported : r = pkg(p)}
    BY <1>1 DEF Resolve, RefPurl, SystemPackage
<1>5. \A n : /\ Resolve(claims, RefFamily(SystemFamily(n))) \subseteq Reported
             /\ \A p \in Rows : pkg(p) \in Resolve(claims, RefFamily(SystemFamily(n))) => p[1] = n
  <2> TAKE n
  <2>1. Resolve(claims, RefFamily(SystemFamily(n))) = ResolveFamily(claims, Called(SystemFamily(n)))
      BY DEF Resolve, RefFamily
  <2>2. ResolveFamily(claims, Called(SystemFamily(n))) \subseteq {p \in Reported : Called(p[1]) = Called(SystemFamily(n))}
      BY <1>1 DEF ResolveFamily
  <2>3. \A p : Called(pkg(p)[1]) = Called(SystemFamily(n)) => p[1] = n
      BY DEF Called, SystemPackage, SystemFamily, Family
  <2> QED
      BY <2>1, <2>2, <2>3
<1> HIDE DEF pkg, edge, claims
<1>6. \A e \in graph : \E d \in SystemReport.edges :
        e[1] \in Resolve(claims, d.src) /\ e[2] \in Resolve(claims, d.dst)
    BY DEF Graph, claims
<1>7. \A e \in graph : \E p \in Rows : \E ask \in asks[p] :
        ask.form # "provided" /\ e[1] = pkg(p) /\ e[1] \in Reported
        /\ e[2] \in Resolve(claims, RefFamily(SystemFamily(ask.name))) /\ e[2] \in Reported
  <2> TAKE e \in graph
  <2>1. PICK d \in SystemReport.edges : e[1] \in Resolve(claims, d.src) /\ e[2] \in Resolve(claims, d.dst)
      BY <1>6
  <2>2. PICK p \in Rows : \E ask \in asks[p] : ask.form # "provided" /\ d = edge(p, ask.name)
      BY <1>1
  <2>3. PICK ask \in asks[p] : ask.form # "provided" /\ d = edge(p, ask.name)
      BY <2>2
  <2>4. e[1] \in Resolve(claims, RefPurl(pkg(p))) /\ e[2] \in Resolve(claims, RefFamily(SystemFamily(ask.name)))
      BY <1>3, <2>1, <2>3
  <2> QED
      BY <1>4, <1>5, <2>3, <2>4
<1>8. ASSUME db \notin TellNoNeeds, NEW p \in Rows, NEW ask \in asks[p], ask.form = "name",
             \E q \in Rows : q[1] = ask.name
      PROVE  \E q \in Rows : q[1] = ask.name /\ \E e \in graph : e[1] = pkg(p) /\ e[2] = pkg(q)
  <2> DEFINE same == {q \in Rows : q[1] = ask.name}
  <2>1. same \in SUBSET Installable /\ same # {}
      BY <1>1, <1>8
  <2>2. PICK q \in same : \A r \in same : r[2] <= q[2]
      BY <2>1, Newest
  <2>3. pkg(q) \in Resolve(claims, RefFamily(SystemFamily(ask.name)))
    <3> DEFINE name == Called(SystemFamily(ask.name))
               candidates == {r \in Components(claims) : Called(r[1]) = name}
    <3>1. Resolve(claims, RefFamily(SystemFamily(ask.name))) = ResolveFamily(claims, name)
        BY DEF Resolve, RefFamily
    <3>2. pkg(q) \in candidates
        BY <1>1, <2>2 DEF pkg, SystemPackage, Called
    <3>3. \A r \in candidates : \E s \in same : r = pkg(s)
      <4> TAKE r \in candidates
      <4>1. PICK s \in Rows : r = pkg(s)
          BY <1>1
      <4>2. s[1] = ask.name
          BY <4>1 DEF pkg, Called, SystemPackage, SystemFamily, Family
      <4> QED
          BY <4>1, <4>2
    <3>4. \A r \in candidates : TopTier(claims, r) = Tier.INSTALLED
      <4> TAKE r \in candidates
      <4>1. \A c \in claims : c.tier = Tier.INSTALLED
          BY DEF claims, SystemReport, SystemFinding, Found, Claim
      <4>2. \E c \in claims : c.name = r[1] /\ c.ver = r[2]
        <5>1. r \in Components(claims)
            OBVIOUS
        <5> QED
            BY <5>1 DEF Components
      <4>3. Tier.INSTALLED = 4
          BY DEF Tier
      <4> DEFINE top(t) == /\ \E c \in claims : c.name = r[1] /\ c.ver = r[2] /\ c.tier = t
                           /\ \A c \in claims : c.name = r[1] /\ c.ver = r[2] => c.tier <= t
      <4>4. TopTier(claims, r) = CHOOSE t \in {c.tier : c \in claims} : top(t)
          BY DEF TopTier
      <4>5. \A t \in {c.tier : c \in claims} : top(t) <=> t = Tier.INSTALLED
          BY <4>1, <4>2, <4>3
      <4>6. Tier.INSTALLED \in {c.tier : c \in claims}
          BY <4>1, <4>2
      <4> HIDE DEF top
      <4> QED
          BY <4>4, <4>5, <4>6
    <3>5. \A s \in same : pkg(s)[2] = s[2] /\ s[2] \in Nat
        BY <2>1, InstallableAreVersions, VersionsAreNumbers DEF pkg, SystemPackage
    <3>6. \A r \in candidates : pkg(q)[2] >= r[2]
        BY <2>2, <3>3, <3>5
    <3> HIDE DEF candidates
    <3>7. \A r \in candidates : TopTier(claims, pkg(q)) = TopTier(claims, r)
        BY <3>2, <3>4
    <3>8. pkg(q) \in ResolveFamily(claims, name)
        BY <3>2, <3>6, <3>7 DEF ResolveFamily, candidates
    <3> QED
        BY <3>1, <3>8
  <2>4. edge(p, ask.name) \in SystemReport.edges
      BY <1>1, <1>8
  <2>5. pkg(p) # pkg(q)
    <3>1. ask.name # p[1] /\ q[1] = ask.name
        BY <1>1, <2>2 DEF OsInv
    <3> QED
        BY <1>2, <2>2, <3>1
  <2>6. <<pkg(p), pkg(q), "runtime", FALSE>> \in graph
    <3> DEFINE d == edge(p, ask.name)
    <3>1. d.src = RefPurl(pkg(p)) /\ d.dst = RefFamily(SystemFamily(ask.name)) /\ d.scope = "runtime" /\ d.direct = FALSE
        BY DEF edge, Edge
    <3> HIDE DEF d
    <3>2. <<pkg(p), pkg(q), "runtime", FALSE>> \in Resolve(claims, d.src) \X Resolve(claims, d.dst) \X {d.scope} \X {d.direct}
        BY <1>1, <1>4, <2>3, <3>1
    <3>3. d \in SystemReport.edges
        BY <2>4 DEF d
    <3> QED
        BY <2>5, <3>2, <3>3 DEF Graph, claims
  <2> QED
      BY <2>2, <2>6
<1>9. \A e \in graph : e[1] \in Reported /\ e[2] \in Reported
    BY <1>7
<1>10. ASSUME NEW p \in Rows, NEW q \in Rows, NEW e \in graph, e[1] = pkg(p), e[2] = pkg(q)
       PROVE  \E ask \in asks[p] : ask.name = q[1] /\ ask.form # "provided"
    BY <1>2, <1>5, <1>7, <1>10
<1> QED
  <2> DEFINE shown == {pq \in Rows \X Rows : \E e \in graph : e[1] = pkg(pq[1]) /\ e[2] = pkg(pq[2])}
             asked(p, q) == {ask.form : ask \in {a \in asks[p] : a.name = q[1]}}
  <2>1. \A pq \in shown : asked(pq[1], pq[2]) \ {"provided"} # {}
      BY <1>10
  <2>2. db \notin TellNoNeeds =>
             \A p \in Rows : \A ask \in asks[p] :
                ask.form = "name" /\ (\E q \in Rows : q[1] = ask.name)
                  => \E q \in Rows : q[1] = ask.name /\ <<p, q>> \in shown
    <3> HAVE db \notin TellNoNeeds
    <3> TAKE p \in Rows
    <3> TAKE ask \in asks[p]
    <3> HAVE ask.form = "name" /\ \E q \in Rows : q[1] = ask.name
    <3>1. PICK q \in Rows : q[1] = ask.name /\ \E e \in graph : e[1] = pkg(p) /\ e[2] = pkg(q)
        BY <1>8
    <3> HIDE DEF graph
    <3>2. <<p, q>>[1] = p /\ <<p, q>>[2] = q /\ <<p, q>> \in Rows \X Rows
        OBVIOUS
    <3>3. <<p, q>> \in shown
        BY <3>1, <3>2
    <3> QED
        BY <3>1, <3>3
  <2> QED
      BY <1>9, <2>1, <2>2 DEF NeedsAreReadBack, pkg

\* What the scan says of a package database, found at any moment of the package
\* manager's work, is what the database says.
THEOREM DatabaseAlwaysReadBack == OsSpec => []DatabaseIsReadBack
<1>1. OsInv => DatabaseIsReadBack
    BY RowsRead, NeedsRead DEF DatabaseIsReadBack
<1> QED
    BY <1>1, OsKept, PTL

(***************************************************************************)
(* Files inside files                                                      *)
(***************************************************************************)

LEMMA EndsOfPlaces ==
    ASSUME NEW n \in Nat, NEW S \in SUBSET (1 .. n), S # {}
    PROVE  /\ Max(S) \in S /\ \A x \in S : x <= Max(S)
           /\ Min(S) \in S /\ \A x \in S : Min(S) <= x
<1> DEFINE G == {k \in 0 .. n : \A T \in SUBSET (1 .. k) : T # {} =>
                   (\E m \in T : \A x \in T : m >= x) /\ \E m \in T : \A x \in T : m <= x}
<1>1. 0 \in G
  <2>1. ASSUME NEW T \in SUBSET (1 .. 0) PROVE T = {}
      OBVIOUS
  <2>2. \A T \in SUBSET (1 .. 0) : T # {} => (\E m \in T : \A x \in T : m >= x) /\ \E m \in T : \A x \in T : m <= x
      BY <2>1
  <2>3. 0 \in 0 .. n
      OBVIOUS
  <2> QED
      BY <2>2, <2>3
<1>2. ASSUME NEW k \in 1 .. n, k - 1 \in G PROVE k \in G
  <2> SUFFICES ASSUME NEW T \in SUBSET (1 .. k), T # {}
               PROVE  (\E m \in T : \A x \in T : m >= x) /\ \E m \in T : \A x \in T : m <= x
      BY DEF G
  <2>1. CASE k \notin T
    <3>1. T \in SUBSET (1 .. k - 1)
        BY <2>1
    <3> QED
        BY <1>2, <3>1 DEF G
  <2>2. CASE k \in T
    <3>1. \A x \in T : k >= x
        OBVIOUS
    <3>2. CASE T \ {k} = {}
        BY <2>2, <3>1, <3>2
    <3>3. CASE T \ {k} # {}
      <4>1. T \ {k} \in SUBSET (1 .. k - 1)
          OBVIOUS
      <4>2. PICK m \in T \ {k} : \A x \in T \ {k} : m <= x
          BY <1>2, <3>3, <4>1 DEF G
      <4>3. m <= k
          BY <4>1
      <4> QED
          BY <2>2, <3>1, <4>2, <4>3
    <3> QED
        BY <3>2, <3>3
  <2> QED
      BY <2>1, <2>2
<1>3. n \in G
  <2> HIDE DEF G
  <2>1. \A k \in 0 .. n : k \in G
      BY <1>1, <1>2, CountUp
  <2> QED
      BY <2>1
<1>4. (\E m \in S : \A x \in S : m >= x) /\ \E m \in S : \A x \in S : m <= x
    BY <1>3 DEF G
<1>5. Max(S) \in S /\ \A x \in S : Max(S) >= x
    BY <1>4 DEF Max
<1>6. Min(S) \in S /\ \A x \in S : Min(S) <= x
    BY <1>4 DEF Min
<1> QED
    BY <1>5, <1>6

(***************************************************************************)
(* The jars that a fold over the library directory has seen                *)
(***************************************************************************)

Self == Identity(outer, 0)
JarTells(i) == Analysed(inner[i], i, Self)
\* The jars of some places that come before one that cannot be opened, and of these
\* the ones that were identified.
Before(S) == {i \in S : \A k \in S : k <= i => inner[k].opens # "broken"}
Telling(S) == {i \in Before(S) : inner[i].opens # "refused" /\ JarTells(i).components # {}}
Seen(S) ==
    Reports(Analysed(outer, 0, Nobody).components \cup UNION {JarTells(i).components : i \in Telling(S)},
            Analysed(outer, 0, Nobody).contains \cup UNION {JarTells(i).contains : i \in Telling(S)},
            Before(S) \ Telling(S), Before(S) # S)

LEMMA SeenOneMore ==
    ASSUME NEW n \in Nat, NEW S \in SUBSET (1 .. n), S # {}
    PROVE  Seen(S) = WithInner(Seen(S \ {Max(S)}), Max(S))
<1> DEFINE m == Max(S)
           T == S \ {m}
<1>1. m \in S /\ \A x \in S : x <= m
    BY EndsOfPlaces
<1>2. \A k \in T : k < m /\ k \in 1 .. n
  <2> HIDE DEF m
  <2> QED
      BY <1>1
<1>3. S = T \cup {m} /\ m \notin T /\ m \in 1 .. n
    BY <1>1
<1> HIDE DEF m, T
<1>4. Before(S) = Before(T) \cup (IF Before(T) = T /\ inner[m].opens # "broken" THEN {m} ELSE {})
  <2>1. \A i \in T : i \in Before(S) <=> i \in Before(T)
    <3> TAKE i \in T
    <3>1. ~(m <= i)
        BY <1>2, <1>3
    <3> QED
        BY <1>3, <3>1 DEF Before
  <2>2. m \in Before(S) <=> Before(T) = T /\ inner[m].opens # "broken"
    <3>1. \A k \in T : k <= m /\ k <= k
        BY <1>2, <1>3
    <3>2. m \in Before(S) <=> \A k \in S : inner[k].opens # "broken"
        BY <1>3, <3>1 DEF Before
    <3>3. Before(T) = T <=> \A k \in T : inner[k].opens # "broken"
        BY <3>1 DEF Before
    <3> QED
        BY <1>3, <3>2, <3>3
  <2>3. Before(S) \subseteq S /\ Before(T) \subseteq T
      BY DEF Before
  <2> QED
      BY <1>3, <2>1, <2>2, <2>3
<1>5. Before(T) \subseteq T /\ Telling(S) = {i \in Before(S) : inner[i].opens # "refused" /\ JarTells(i).components # {}}
      /\ Telling(T) = {i \in Before(T) : inner[i].opens # "refused" /\ JarTells(i).components # {}}
    BY DEF Before, Telling
<1> DEFINE C(x) == Analysed(outer, 0, Nobody).components \cup UNION {JarTells(i).components : i \in x}
           E(x) == Analysed(outer, 0, Nobody).contains \cup UNION {JarTells(i).contains : i \in x}
<1>6. /\ Seen(S) = Reports(C(Telling(S)), E(Telling(S)), Before(S) \ Telling(S), Before(S) # S)
      /\ Seen(T) = Reports(C(Telling(T)), E(Telling(T)), Before(T) \ Telling(T), Before(T) # T)
    BY DEF Seen
<1>7. /\ C(Telling(T) \cup {m}) = C(Telling(T)) \cup JarTells(m).components
      /\ E(Telling(T) \cup {m}) = E(Telling(T)) \cup JarTells(m).contains
    OBVIOUS
<1> HIDE DEF C, E
<1> DEFINE v == Seen(T)
<1>8. WithInner(v, m) =
        IF v.gap THEN v
        ELSE IF inner[m].opens = "broken" THEN Reports(v.components, v.contains, v.notes, TRUE)
        ELSE IF inner[m].opens = "refused" \/ JarTells(m).components = {}
        THEN Reports(v.components, v.contains, v.notes \cup {m}, FALSE)
        ELSE Reports(v.components \cup JarTells(m).components, v.contains \cup JarTells(m).contains, v.notes, FALSE)
    BY DEF WithInner, JarTells, Self
<1>9. /\ v.components = C(Telling(T)) /\ v.contains = E(Telling(T))
      /\ v.notes = Before(T) \ Telling(T) /\ v.gap = (Before(T) # T)
    BY <1>6 DEF Reports
<1> HIDE DEF v
<1>10. CASE Before(T) # T
  <2>1. Before(S) = Before(T) /\ Before(S) # S /\ Telling(S) = Telling(T)
      BY <1>3, <1>4, <1>5, <1>10
  <2>2. Seen(S) = v /\ v.gap
      BY <1>6, <1>9, <1>10, <2>1 DEF v
  <2> QED
      BY <1>8, <2>2 DEF m, T, v
<1>11. CASE Before(T) = T /\ inner[m].opens = "broken"
  <2>1. Before(S) = Before(T) /\ Before(S) # S /\ Telling(S) = Telling(T)
      BY <1>3, <1>4, <1>5, <1>11
  <2>2. Seen(S) = Reports(v.components, v.contains, v.notes, TRUE) /\ ~v.gap
      BY <1>6, <1>9, <1>11, <2>1
  <2> QED
      BY <1>8, <1>11, <2>2 DEF m, T, v
<1>12. CASE Before(T) = T /\ inner[m].opens # "broken" /\ (inner[m].opens = "refused" \/ JarTells(m).components = {})
  <2>1. Before(S) = T \cup {m} /\ Before(S) = S /\ Telling(S) = Telling(T)
      BY <1>3, <1>4, <1>5, <1>12
  <2>2. Before(S) \ Telling(S) = (Before(T) \ Telling(T)) \cup {m}
      BY <1>3, <1>5, <1>12, <2>1
  <2>3. Seen(S) = Reports(v.components, v.contains, v.notes \cup {m}, FALSE) /\ ~v.gap
      BY <1>6, <1>9, <1>12, <2>1, <2>2
  <2> QED
      BY <1>8, <1>12, <2>3 DEF m, T, v
<1>13. CASE Before(T) = T /\ inner[m].opens # "broken" /\ ~(inner[m].opens = "refused" \/ JarTells(m).components = {})
  <2>1. Before(S) = T \cup {m} /\ Before(S) = S /\ Telling(S) = Telling(T) \cup {m}
      BY <1>3, <1>4, <1>5, <1>13
  <2>2. Before(S) \ Telling(S) = Before(T) \ Telling(T)
      BY <1>3, <1>5, <1>13, <2>1
  <2>3. ~v.gap /\ C(Telling(S)) = C(Telling(T)) \cup JarTells(m).components /\ E(Telling(S)) = E(Telling(T)) \cup JarTells(m).contains
      BY <1>7, <1>9, <1>13, <2>1
  <2>4. Seen(S) = Reports(v.components \cup JarTells(m).components, v.contains \cup JarTells(m).contains, v.notes, FALSE)
      BY <1>6, <1>9, <1>13, <2>1, <2>2, <2>3
  <2> QED
      BY <1>8, <1>13, <2>3, <2>4 DEF m, T, v
<1> QED
    BY <1>10, <1>11, <1>12, <1>13

LEMMA JarIsSeen ==
    ASSUME inner \in Seq(Jars)
    PROVE  FoldLeft(WithInner, Analysed(outer, 0, Nobody), [i \in DOMAIN inner |-> i]) = Seen(DOMAIN inner)
<1> DEFINE n == Len(inner)
           base == Analysed(outer, 0, Nobody)
           D == DOMAIN [i \in DOMAIN inner |-> i]
           folds(a) == a = [S \in SUBSET D |->
                              IF S = {} THEN base ELSE WithInner(a[S \ {Max(S)}], [i \in DOMAIN inner |-> i][Max(S)])]
           Folds1(a) == a = [S \in SUBSET (1 .. n) |-> IF S = {} THEN base ELSE WithInner(a[S \ {Max(S)}], Max(S))]
           g == CHOOSE a : Folds1(a)
           h == [S \in SUBSET (1 .. n) |-> Seen(S)]
<1>1. n \in Nat /\ DOMAIN inner = 1 .. n /\ D = 1 .. n
    OBVIOUS
<1>2. FoldLeft(WithInner, base, [i \in DOMAIN inner |-> i]) = (CHOOSE a : folds(a))[D]
    BY DEF FoldLeft, MapThenFoldSet
<1>3. \A S \in SUBSET (1 .. n) : S # {} => Max(S) \in S /\ S \ {Max(S)} \in SUBSET (1 .. n)
    BY <1>1, EndsOfPlaces
<1>4. \A a : folds(a) <=> Folds1(a)
  <2> TAKE a
  <2> DEFINE one(S) == IF S = {} THEN base ELSE WithInner(a[S \ {Max(S)}], [i \in DOMAIN inner |-> i][Max(S)])
             other(S) == IF S = {} THEN base ELSE WithInner(a[S \ {Max(S)}], Max(S))
  <2>1. \A S \in SUBSET (1 .. n) : S # {} => [i \in DOMAIN inner |-> i][Max(S)] = Max(S)
      BY <1>1, <1>3
  <2>2. \A S \in SUBSET (1 .. n) : one(S) = other(S)
      BY <2>1
  <2>3. folds(a) <=> a = [S \in SUBSET (1 .. n) |-> one(S)]
      BY <1>1
  <2>4. Folds1(a) <=> a = [S \in SUBSET (1 .. n) |-> other(S)]
      OBVIOUS
  <2> HIDE DEF one, other, folds, Folds1
  <2>5. [S \in SUBSET (1 .. n) |-> one(S)] = [S \in SUBSET (1 .. n) |-> other(S)]
      BY <2>2
  <2> QED
      BY <2>3, <2>4, <2>5
<1>5. (CHOOSE a : folds(a)) = g
  <2> HIDE DEF folds, Folds1
  <2> QED
      BY <1>4
<1>6. Seen({}) = base
  <2>1. Before({}) = {} /\ Telling({}) = {}
      BY DEF Before, Telling
  <2>2. Seen({}) = Reports(base.components, base.contains, {}, FALSE)
      BY <2>1 DEF Seen
  <2> QED
      BY <2>2 DEF Analysed, Reports
<1>7. Folds1(h)
  <2>1. ASSUME NEW S \in SUBSET (1 .. n)
        PROVE  Seen(S) = IF S = {} THEN base ELSE WithInner(h[S \ {Max(S)}], Max(S))
    <3>1. CASE S = {}
        BY <1>6, <3>1
    <3>2. CASE S # {}
      <4>1. Seen(S) = WithInner(Seen(S \ {Max(S)}), Max(S))
          BY <1>1, <3>2, SeenOneMore
      <4>2. h[S \ {Max(S)}] = Seen(S \ {Max(S)})
          BY <1>3, <3>2
      <4> QED
          BY <3>2, <4>1, <4>2
    <3> QED
        BY <3>1, <3>2
  <2> QED
      BY <2>1
<1>8. Folds1(g)
  <2> HIDE DEF Folds1, h
  <2> QED
      BY <1>7
<1>9. \A S \in SUBSET (1 .. n) :
        /\ g[S] = IF S = {} THEN base ELSE WithInner(g[S \ {Max(S)}], Max(S))
        /\ h[S] = IF S = {} THEN base ELSE WithInner(h[S \ {Max(S)}], Max(S))
  <2> HIDE DEF g, h
  <2> QED
      BY <1>7, <1>8
<1> HIDE DEF g, h, folds, Folds1
<1> DEFINE G == {k \in 0 .. n : \A S \in SUBSET (1 .. k) : S \in SUBSET (1 .. n) => g[S] = h[S]}
<1>10. 0 \in G
  <2>1. ASSUME NEW S \in SUBSET (1 .. 0) PROVE S = {}
      OBVIOUS
  <2>2. g[{}] = h[{}]
    <3>1. {} \in SUBSET (1 .. n)
        OBVIOUS
    <3> QED
        BY <1>9, <3>1
  <2>3. \A S \in SUBSET (1 .. 0) : S \in SUBSET (1 .. n) => g[S] = h[S]
      BY <2>1, <2>2
  <2>4. 0 \in 0 .. n
      BY <1>1
  <2> QED
      BY <2>3, <2>4
<1>11. ASSUME NEW k \in 1 .. n, k - 1 \in G PROVE k \in G
  <2>0. g[{}] = h[{}]
    <3>1. {} \in SUBSET (1 .. n)
        OBVIOUS
    <3> QED
        BY <1>9, <3>1
  <2> SUFFICES ASSUME NEW S \in SUBSET (1 .. k), S \in SUBSET (1 .. n), S # {} PROVE g[S] = h[S]
    <3>1. ASSUME NEW S \in SUBSET (1 .. k), S \in SUBSET (1 .. n) PROVE g[S] = h[S]
      <4>1. CASE S = {}
          BY <2>0, <4>1
      <4> QED
          BY <4>1
    <3>2. \A S \in SUBSET (1 .. k) : S \in SUBSET (1 .. n) => g[S] = h[S]
        BY <3>1
    <3>3. k \in 0 .. n
        BY <1>1
    <3> QED
        BY <3>2, <3>3 DEF G
  <2> DEFINE m == Max(S)
  <2>1. m \in S /\ \A x \in S : x <= m
      BY <1>1, EndsOfPlaces
  <2>2. S \ {m} \in SUBSET (1 .. k - 1) /\ S \ {m} \in SUBSET (1 .. n)
    <3> HIDE DEF m
    <3> SUFFICES ASSUME NEW x \in S \ {m} PROVE x \in 1 .. k - 1
        OBVIOUS
    <3>1. x \in 1 .. k /\ m \in 1 .. k /\ x <= m /\ x # m
        BY <2>1
    <3> QED
        BY <1>1, <3>1
  <2>3. g[S \ {m}] = h[S \ {m}]
      BY <1>11, <2>2 DEF G
  <2> QED
      BY <1>9, <2>3
<1>12. n \in G
  <2> HIDE DEF G
  <2>1. \A k \in 0 .. n : k \in G
      BY <1>1, <1>10, <1>11, CountUp
  <2> QED
      BY <1>1, <2>1
<1>13. g[1 .. n] = h[1 .. n]
    BY <1>12 DEF G
<1>14. h[1 .. n] = Seen(1 .. n)
    BY DEF h
<1> QED
    BY <1>1, <1>2, <1>5, <1>13, <1>14

LEMMA JarParts ==
    ASSUME NEW j, NEW place, NEW holder
    PROVE  LET self == Identity(j, place)
               rest == IF "shaded" \in j.poms THEN {Shaded} \ {self} ELSE {}
               a == Analysed(j, place, holder)
           IN  /\ a.components = Analysed(j, place, Nobody).components
               /\ a.notes = {}
               /\ \A x : x \in a.components <=> (x = self /\ self # Nobody) \/ x \in rest
               /\ \A e : e \in a.contains <=>
                    \/ e = <<holder, self>> /\ holder # Nobody /\ self # Nobody
                    \/ \E x \in rest : e = <<self, x>> /\ self # Nobody
                    \/ \E x \in rest : e = <<holder, x>> /\ self = Nobody /\ holder # Nobody
BY DEF Analysed, Reports

Accounts(r) ==
    LET before == {i \in DOMAIN inner : \A k \in 1 .. i : inner[k].opens # "broken"}
        within(i) == IF inner[i].opens = "well" THEN Analysed(inner[i], i, Nobody).components ELSE {}
        below == {e[2] : e \in {d \in r.contains : d[1] = Self}}
        deeper == below \cup {e[2] : e \in {d \in r.contains : d[1] \in below}}
    IN  /\ \A i \in before : within(i) \subseteq r.components
        /\ r.gap <=> before # DOMAIN inner
        /\ ~r.gap => \A i \in DOMAIN inner : within(i) # {} \/ i \in r.notes \/ Self = Nobody
        /\ Self # Nobody => r.components \subseteq deeper \cup {Self}
        /\ \A e \in r.contains : e[1] \in r.components /\ e[2] \in r.components

LEMMA JarsAccounted ==
    ASSUME inner \in Seq(Jars)
    PROVE  Accounts(JarFindings)
<1> DEFINE r == JarFindings
           D == DOMAIN inner
           whole == Seen(D)
           outside == Analysed(outer, 0, Nobody)
           within(i) == IF inner[i].opens = "well" THEN Analysed(inner[i], i, Nobody).components ELSE {}
           below == {e[2] : e \in {d \in r.contains : d[1] = Self}}
           deeper == below \cup {e[2] : e \in {d \in r.contains : d[1] \in below}}
<1>1. D = 1 .. Len(inner) /\ Len(inner) \in Nat /\ \A i \in D : inner[i].opens \in {"well", "refused", "broken"}
  <2>1. \A j \in Jars : j.opens \in {"well", "refused", "broken"}
      BY DEF Jars, JarOf
  <2>2. \A i \in D : inner[i] \in Jars
      OBVIOUS
  <2>3. D = 1 .. Len(inner) /\ Len(inner) \in Nat
      OBVIOUS
  <2> QED
      BY <2>1, <2>2, <2>3
<1>2. Before(D) = {i \in D : \A k \in 1 .. i : inner[k].opens # "broken"}
  <2> SUFFICES ASSUME NEW i \in D
               PROVE  (\A k \in D : k <= i => inner[k].opens # "broken") <=> (\A k \in 1 .. i : inner[k].opens # "broken")
      BY DEF Before
  <2>1. \A k : k \in 1 .. i <=> k \in D /\ k <= i
      BY <1>1
  <2> QED
      BY <2>1
<1>3. /\ whole.components = outside.components \cup UNION {JarTells(i).components : i \in Telling(D)}
      /\ whole.contains = outside.contains \cup UNION {JarTells(i).contains : i \in Telling(D)}
      /\ whole.notes = Before(D) \ Telling(D) /\ whole.gap = (Before(D) # D)
    BY DEF Seen, Reports
<1>4. r = IF whole.gap \/ Self = Nobody THEN [whole EXCEPT !.notes = {}]
               ELSE IF whole.notes = {} /\ LooseClasses(outer, 0) THEN [whole EXCEPT !.notes = {0}] ELSE whole
    BY JarIsSeen DEF JarFindings, Self, r
<1>5. /\ r.components = whole.components /\ r.contains = whole.contains /\ r.gap = whole.gap
      /\ ~whole.gap /\ Self # Nobody => whole.notes \subseteq r.notes
  <2>1. whole = [components |-> whole.components, contains |-> whole.contains, notes |-> whole.notes, gap |-> whole.gap]
      BY DEF Seen, Reports
  <2> HIDE DEF whole, r
  <2> QED
      BY <1>4, <2>1
<1>6. \A i \in Telling(D) : JarTells(i).components \subseteq r.components /\ JarTells(i).contains \subseteq r.contains
    BY <1>3, <1>5
<1>7. outside.components \subseteq r.components /\ outside.contains \subseteq r.contains
    BY <1>3, <1>5
<1>8. \A i \in D : within(i) # {} => within(i) = JarTells(i).components
    BY JarParts DEF JarTells
<1>9. \A i \in Before(D) : i \in Telling(D) <=> within(i) # {}
  <2> TAKE i \in Before(D)
  <2>1. i \in D /\ inner[i].opens # "broken"
    <3>1. i \in D /\ i <= i
        BY <1>1 DEF Before
    <3> QED
        BY <3>1 DEF Before
  <2>2. inner[i].opens # "refused" <=> inner[i].opens = "well"
      BY <1>1, <2>1
  <2>3. JarTells(i).components = Analysed(inner[i], i, Nobody).components
      BY JarParts DEF JarTells
  <2> QED
      BY <2>1, <2>2, <2>3 DEF Telling
<1> HIDE DEF within, whole, outside, r
<1>10. \A i \in Before(D) : within(i) \subseteq r.components
    BY <1>6, <1>8, <1>9 DEF Before
<1>11. r.gap <=> Before(D) # D
    BY <1>3, <1>5
<1>12. ~r.gap => \A i \in D : within(i) # {} \/ i \in r.notes \/ Self = Nobody
    BY <1>3, <1>5, <1>9
<1>13. /\ \A x \in r.components : x \in outside.components \/ \E i \in Telling(D) : x \in JarTells(i).components
       /\ \A e \in r.contains : e \in outside.contains \/ \E i \in Telling(D) : e \in JarTells(i).contains
    BY <1>3, <1>5
<1>14. /\ \A x \in outside.components : x = Self \/ <<Self, x>> \in outside.contains \/ Self = Nobody
       /\ \A e \in outside.contains : e[1] = Self /\ Self \in outside.components /\ e[2] \in outside.components
  <2> DEFINE rest == IF "shaded" \in outer.poms THEN {Shaded} \ {Self} ELSE {}
  <2>1. /\ \A x : x \in outside.components <=> (x = Self /\ Self # Nobody) \/ x \in rest
        /\ \A e : e \in outside.contains <=> \E x \in rest : e = <<Self, x>> /\ Self # Nobody
      BY JarParts DEF Self, outside
  <2> HIDE DEF rest
  <2> QED
      BY <2>1
<1>15. ASSUME NEW i \in Telling(D)
       PROVE  /\ \A x \in JarTells(i).components :
                   \/ Self = Nobody \/ <<Self, x>> \in JarTells(i).contains
                   \/ \E y : <<Self, y>> \in JarTells(i).contains /\ <<y, x>> \in JarTells(i).contains
              /\ \A e \in JarTells(i).contains :
                   /\ e[1] \in JarTells(i).components \/ (e[1] = Self /\ Self # Nobody)
                   /\ e[2] \in JarTells(i).components
  <2> DEFINE me == Identity(inner[i], i)
             rest == IF "shaded" \in inner[i].poms THEN {Shaded} \ {me} ELSE {}
  <2>1. /\ \A x : x \in JarTells(i).components <=> (x = me /\ me # Nobody) \/ x \in rest
        /\ \A e : e \in JarTells(i).contains <=>
             \/ e = <<Self, me>> /\ Self # Nobody /\ me # Nobody
             \/ \E x \in rest : e = <<me, x>> /\ me # Nobody
             \/ \E x \in rest : e = <<Self, x>> /\ me = Nobody /\ Self # Nobody
      BY JarParts DEF JarTells
  <2> HIDE DEF rest, me
  <2>2. ASSUME NEW x \in JarTells(i).components, Self # Nobody
        PROVE  \/ <<Self, x>> \in JarTells(i).contains
               \/ \E y : <<Self, y>> \in JarTells(i).contains /\ <<y, x>> \in JarTells(i).contains
    <3>1. CASE x = me /\ me # Nobody
        BY <2>1, <2>2, <3>1
    <3>2. CASE x \in rest /\ me = Nobody
        BY <2>1, <2>2, <3>2
    <3>3. CASE x \in rest /\ me # Nobody
      <4>1. <<Self, me>> \in JarTells(i).contains /\ <<me, x>> \in JarTells(i).contains
          BY <2>1, <2>2, <3>3
      <4> QED
          BY <4>1
    <3> QED
        BY <2>1, <2>2, <3>1, <3>2, <3>3
  <2>3. ASSUME NEW e \in JarTells(i).contains
        PROVE  /\ e[1] \in JarTells(i).components \/ (e[1] = Self /\ Self # Nobody)
               /\ e[2] \in JarTells(i).components
    <3>1. CASE e = <<Self, me>> /\ Self # Nobody /\ me # Nobody
        BY <2>1, <3>1
    <3>2. CASE \E x \in rest : e = <<me, x>> /\ me # Nobody
        BY <2>1, <3>2
    <3>3. CASE \E x \in rest : e = <<Self, x>> /\ me = Nobody /\ Self # Nobody
        BY <2>1, <3>3
    <3> QED
        BY <2>1, <2>3, <3>1, <3>2, <3>3
  <2> QED
      BY <2>2, <2>3
<1>16. ASSUME Self # Nobody PROVE r.components \subseteq deeper \cup {Self}
  <2> SUFFICES ASSUME NEW x \in r.components, x # Self PROVE x \in deeper
      OBVIOUS
  <2>1. \A y : <<Self, y>> \in r.contains => y \in below
    <3> TAKE y
    <3>1. <<Self, y>>[1] = Self /\ <<Self, y>>[2] = y
        OBVIOUS
    <3> QED
        BY <3>1
  <2>2. \A y, z : y \in below /\ <<y, z>> \in r.contains => z \in deeper
    <3> HIDE DEF below
    <3> TAKE y, z
    <3>1. <<y, z>>[1] = y /\ <<y, z>>[2] = z
        OBVIOUS
    <3> QED
        BY <3>1
  <2>3. below \subseteq deeper
      OBVIOUS
  <2> HIDE DEF below, deeper
  <2> QED
      BY <1>6, <1>7, <1>13, <1>14, <1>15, <1>16, <2>1, <2>2, <2>3
<1>17. \A e \in r.contains : e[1] \in r.components /\ e[2] \in r.components
  <2> TAKE e \in r.contains
  <2>1. CASE e \in outside.contains
      BY <1>7, <1>14, <2>1
  <2>2. CASE e \notin outside.contains
    <3>1. PICK i \in Telling(D) : e \in JarTells(i).contains
        BY <1>13, <2>2
    <3>2. Self # Nobody => Self \in outside.components
        BY JarParts DEF Self, outside
    <3> QED
        BY <1>6, <1>7, <1>15, <3>1, <3>2
  <2> QED
      BY <2>1, <2>2
<1> QED
  <2>1. Before(D) = {i \in DOMAIN inner : \A k \in 1 .. i : inner[k].opens # "broken"}
      BY <1>2
  <2> QED
      BY <1>10, <1>11, <1>12, <1>16, <1>17, <2>1 DEF Accounts, within, r

MembersOf == CASE container = "tar" -> TarMembers [] container = "zip" -> ZipMembers [] container = "jar" -> {}

\* An archive that is being read has the members it was packed with, and a jar
\* that was reported the jars that were put in it.
ArchiveInv ==
    /\ container \in {"tar", "zip", "jar"}
    /\ packed \in Seq(MembersOf)
    /\ answers # Unread => answers = [p \in PathNames |-> OpenMember(p)]
    /\ inner \in Seq(Jars)
    /\ outer = << >> => report = Unread
    /\ report # Unread => Accounts(report)

LEMMA ArchivesKept == ArchiveSpec => []ArchiveInv
<1>1. ArchiveInit => ArchiveInv
    BY DEF ArchiveInit, ArchiveInv
<1>2. ArchiveInv /\ [ArchiveNext]_archiveVars => ArchiveInv'
  <2> SUFFICES ASSUME ArchiveInv, [ArchiveNext]_archiveVars PROVE ArchiveInv'
      OBVIOUS
  <2>1. ASSUME container' = container, packed' = packed
        PROVE  MembersOf' = MembersOf /\ \A p : OpenMember(p)' = OpenMember(p)
    <3>1. Indexed' = Indexed /\ MembersOf' = MembersOf
        BY <2>1 DEF Indexed, MembersOf
    <3>2. \A p : Named(p)' = Named(p)
        BY <2>1, <3>1 DEF Named
    <3>3. \A p, s : Spelled(p, s)' = Spelled(p, s)
        BY <2>1, <3>2 DEF Spelled
    <3>4. \A p : Linked(p)' = Linked(p)
        BY <2>1, <3>1, <3>2 DEF Linked
    <3>5. \A s : Latest(s)' = Latest(s)
        BY <2>1 DEF Latest
    <3>6. \A p : Data(p)' = Data(p)
        BY <2>1, <3>2, <3>3, <3>4, <3>5 DEF Data
    <3>7. MemberPaths' = MemberPaths
        BY <2>1, <3>1 DEF MemberPaths
    <3>8. \A p : OpenMember(p)' = OpenMember(p)
        BY <2>1, <3>2, <3>5, <3>6, <3>7 DEF OpenMember
    <3> QED
        BY <3>1, <3>8
  <2>2. ASSUME outer' = outer, inner' = inner PROVE \A r : Accounts(r)' <=> Accounts(r)
      BY <2>2 DEF Accounts, Self
  <2>3. ASSUME NEW m, Store(m) PROVE ArchiveInv'
    <3>1. /\ container' = container /\ answers' = answers /\ answers = Unread
          /\ outer' = outer /\ inner' = inner /\ report' = report
          /\ m \in MembersOf /\ packed' = Append(packed, m)
        BY <2>3 DEF Store, MembersOf
    <3>2. MembersOf' = MembersOf /\ packed' \in Seq(MembersOf)
        BY <3>1 DEF ArchiveInv, MembersOf
    <3> QED
        BY <2>2, <3>1, <3>2 DEF ArchiveInv, Unread
  <2>4. CASE OpenAll
    <3>1. /\ UNCHANGED <<container, packed, outer, inner, report>>
          /\ answers' = [p \in PathNames |-> OpenMember(p)]
        BY <2>4 DEF OpenAll
    <3> QED
        BY <2>1, <2>2, <3>1 DEF ArchiveInv, Unread
  <2>5. ASSUME NEW j \in Jars, PutJar(j) \/ PutInner(j) PROVE ArchiveInv'
    <3>1. /\ UNCHANGED <<container, packed, answers, report>> /\ report = Unread
          /\ inner' \in {inner, Append(inner, j)}
        BY <2>5 DEF PutJar, PutInner, ArchiveInv
    <3>2. inner' \in Seq(Jars)
        BY <3>1 DEF ArchiveInv
    <3> QED
        BY <2>1, <3>1, <3>2 DEF ArchiveInv, Unread
  <2>6. CASE CatalogJar
    <3>1. UNCHANGED <<container, packed, answers, outer, inner>> /\ report' = JarFindings /\ outer # << >>
        BY <2>6 DEF CatalogJar
    <3>2. Accounts(report')
        BY <3>1, JarsAccounted DEF ArchiveInv
    <3>3. Accounts(report)'
        BY <3>1, <3>2 DEF Accounts, Self
    <3> QED
        BY <2>1, <3>1, <3>3 DEF ArchiveInv, Unread
  <2>7. CASE UNCHANGED archiveVars
      BY <2>1, <2>2, <2>7 DEF ArchiveInv, archiveVars, Unread
  <2> QED
      BY <2>3, <2>4, <2>5, <2>6, <2>7 DEF ArchiveNext
<1> QED
    BY <1>1, <1>2, PTL DEF ArchiveSpec

LEMMA MemberFields ==
    ASSUME ArchiveInv, NEW i \in DOMAIN packed
    PROVE  /\ packed[i].says \in Nat /\ packed[i].size \in Nat
           /\ packed[i].kind \in {"file", "symlink", "hardlink"}
           /\ container = "tar" => packed[i].size = packed[i].says
           /\ packed[i].kind # "file" => container = "tar" /\ packed[i].says = 0
<1>1. packed[i] \in MembersOf
    BY DEF ArchiveInv
<1>2. CASE container = "tar"
  <2>1. packed[i] \in TarMembers
      BY <1>1, <1>2 DEF MembersOf
  <2> QED
      BY <1>2, <2>1, SizesAreNumbers DEF TarMembers, Member
<1>3. CASE container = "zip"
  <2>1. packed[i] \in ZipMembers
      BY <1>1, <1>3 DEF MembersOf
  <2> QED
      BY <1>3, <2>1, SizesAreNumbers DEF ZipMembers, Member
<1>4. CASE container = "jar"
    BY <1>1, <1>4 DEF MembersOf
<1> QED
    BY <1>2, <1>3, <1>4 DEF ArchiveInv

LEMMA MembersAreWhole == ArchiveInv => MembersAreReadWhole
<1> SUFFICES ASSUME ArchiveInv, answers # Unread, NEW p \in PathNames
             PROVE  /\ answers[p].answer = "bytes" =>
                         /\ p \in MemberPaths /\ answers[p].data <= Latest(Named(p)).says /\ answers[p].data <= MaxSize
                         /\ \/ \E m \in {packed[i] : i \in Named(p)} : m.kind = "file" /\ m.size = answers[p].data
                            \/ Latest(Named(p)).kind # "file" /\ answers[p].data = 0
                         /\ (container = "tar" /\ Latest(Named(p)).kind = "file") =>
                               answers[p].data = Latest(Named(p)).size
                    /\ (container = "tar" /\ p \in MemberPaths /\ Latest(Named(p)).kind = "file"
                          /\ Latest(Named(p)).size <= MaxSize) => answers[p].answer = "bytes"
    BY DEF MembersAreReadWhole
<1>1. answers[p] = OpenMember(p)
    BY DEF ArchiveInv
<1>2. CASE p \notin MemberPaths
    BY <1>1, <1>2 DEF OpenMember, Missing
<1>3. CASE p \in MemberPaths
  <2> DEFINE n == Len(packed)
             last == Latest(Named(p))
             data == Data(p)
  <2>1. n \in Nat /\ DOMAIN packed = 1 .. n
      BY DEF ArchiveInv
  <2>2. /\ Named(p) \in SUBSET (1 .. n) /\ Named(p) # {}
        /\ \A s : Spelled(p, s) \subseteq Named(p)
        /\ Linked(p) \in SUBSET (1 .. n)
      BY <1>3, <2>1 DEF Named, Indexed, MemberPaths, Spelled, Linked
  <2>3. \A S \in SUBSET (1 .. n) : S # {} => \E i \in S : Latest(S) = packed[i]
      BY <2>1, EndsOfPlaces DEF Latest
  <2>4. PICK l \in Named(p) : last = packed[l]
      BY <2>2, <2>3
  <2>5. /\ last.says \in Nat /\ last.size \in Nat /\ last.kind \in {"file", "symlink", "hardlink"}
        /\ (container = "tar" => last.size = last.says)
        /\ last.kind # "file" => container = "tar" /\ last.says = 0
      BY <2>1, <2>2, <2>4, MemberFields
  <2>6. \E i \in DOMAIN packed : data = packed[i] /\ (last.kind # "hardlink" => i \in Named(p))
                                 /\ (container = "tar" /\ last.kind = "file" => data = last)
    <3>1. CASE container = "zip"
      <4> DEFINE first == packed[Min(Named(p))].spelling
                 how == IF Spelled(p, "plain") # {} THEN "plain" ELSE first
      <4>1. Spelled(p, how) # {}
        <5>1. Min(Named(p)) \in Named(p)
            BY <2>1, <2>2, EndsOfPlaces
        <5>2. Min(Named(p)) \in Spelled(p, first)
            BY <5>1 DEF Spelled
        <5> QED
            BY <5>2
      <4>2. data = Latest(Spelled(p, how))
          BY <3>1 DEF Data
      <4> HIDE DEF how, data, last
      <4>3. PICK i \in Spelled(p, how) : data = packed[i]
          BY <2>2, <2>3, <4>1, <4>2
      <4> QED
          BY <2>1, <2>2, <3>1, <4>3
    <3>2. CASE container # "zip" /\ last.kind = "hardlink" /\ Linked(p) # {}
      <4>1. data = Latest(Linked(p))
          BY <3>2 DEF Data
      <4>2. PICK i \in Linked(p) : data = packed[i]
          BY <2>2, <2>3, <3>2, <4>1
      <4> QED
          BY <2>1, <2>2, <3>2, <4>2
    <3>3. CASE container # "zip" /\ ~(last.kind = "hardlink" /\ Linked(p) # {})
      <4>1. data = last
          BY <3>3 DEF Data
      <4> QED
          BY <2>1, <2>2, <2>4, <4>1
    <3> QED
        BY <3>1, <3>2, <3>3
  <2>7. PICK d \in DOMAIN packed : data = packed[d] /\ (last.kind # "hardlink" => d \in Named(p))
                                 /\ (container = "tar" /\ last.kind = "file" => data = last)
      BY <2>6
  <2>8. data.says \in Nat /\ data.size \in Nat /\ (container = "tar" => data.size = data.says)
      BY <2>7, MemberFields
  <2>9. answers[p] = IF last.kind = "symlink" THEN Bytes(0)
                     ELSE IF last.says > MaxSize THEN Refused
                     ELSE IF data.kind # "file" THEN Missing
                     ELSE IF data.size > last.says \/ data.size > data.says THEN Refused ELSE Bytes(data.size)
      BY <1>1, <1>3 DEF OpenMember
  <2> HIDE DEF last, data
  <2>10. CASE last.kind = "symlink"
    <3>1. answers[p].answer = "bytes" /\ answers[p].data = 0
        BY <2>9, <2>10 DEF Bytes
    <3> QED
        BY <1>3, <2>5, <2>10, <3>1, SizesAreNumbers DEF last
  <2>11. CASE last.kind # "symlink" /\ (last.says > MaxSize \/ data.kind # "file" \/ data.size > last.says \/ data.size > data.says)
    <3>1. answers[p].answer # "bytes"
        BY <2>9, <2>11 DEF Refused, Missing
    <3>2. ~(container = "tar" /\ last.kind = "file" /\ last.size <= MaxSize)
        BY <2>5, <2>7, <2>8, <2>11, SizesAreNumbers
    <3> QED
        BY <3>1, <3>2 DEF last
  <2>12. CASE last.kind # "symlink" /\ ~(last.says > MaxSize) /\ data.kind = "file"
              /\ ~(data.size > last.says) /\ ~(data.size > data.says)
    <3>1. answers[p].answer = "bytes" /\ answers[p].data = data.size
        BY <2>9, <2>12 DEF Bytes
    <3>2. data.size <= last.says /\ data.size <= MaxSize
        BY <2>5, <2>8, <2>12, SizesAreNumbers
    <3>3. last.kind = "hardlink" => data.size = 0
        BY <2>5, <2>8, <3>2
    <3>4. last.kind # "hardlink" => \E m \in {packed[i] : i \in Named(p)} : m.kind = "file" /\ m.size = data.size
        BY <2>7, <2>12
    <3>5. container = "tar" /\ last.kind = "file" => data.size = last.size
        BY <2>7
    <3> QED
        BY <1>3, <3>1, <3>2, <3>3, <3>4, <3>5 DEF last
  <2> QED
      BY <2>10, <2>11, <2>12
<1> QED
    BY <1>2, <1>3

\* What is inside a file is read as it is stored, or the scan says that it is not,
\* for archives and jars of any size.
THEOREM ArchivesAlwaysAccountedFor == ArchiveSpec => []ArchivesAreAccountedFor
<1>1. ArchiveInv => ArchivesAreAccountedFor
  <2>1. ArchiveInv => JarsAreAccountedFor
      BY DEF ArchiveInv, JarsAreAccountedFor, Accounts, Self
  <2> QED
      BY <2>1, MembersAreWhole DEF ArchivesAreAccountedFor
<1> QED
    BY <1>1, ArchivesKept, PTL

(***************************************************************************)
(* The walk of a tree that changes                                         *)
(***************************************************************************)

Names == {"code", "git", "modules", "nfc", "nfd", "pkg"}
Folders == {"code", "git", "modules"}
Raws == Seq(Names)
Code == << "code" >>
\* A path starts with another one.
Under(p, q) == Len(q) <= Len(p) /\ \A i \in 1 .. Len(q) : p[i] = q[i]
IsMount(p) == p \in DOMAIN tree /\ tree[p].kind = "mount"
\* The place of a path that leads through m, a mount of the code.
Via(m, p) == [i \in 1 .. Len(p) - Len(m) + 1 |-> IF i = 1 THEN "code" ELSE p[Len(m) + i - 1]]
Plain(p) == \A i \in 1 .. Len(p) : ~IsMount(SubSeq(p, 1, i))
Through(m, p) ==
    /\ m # << >> /\ Under(p, m) /\ IsMount(m) /\ tree[m].to = Code
    /\ \A i \in 1 .. Len(m) - 1 : ~IsMount(SubSeq(m, 1, i))
    /\ Plain(Via(m, p))
Leads(m, p) == Plain(p) \/ Through(m, p)

\* Only the directories that the walk is in have paths ahead of it.
Ahead(f, p) == Len(p) > Len(f.raw) /\ Under(p, f.raw) /\ \E k \in DOMAIN f.left : Sorted[k] = p[Len(f.raw) + 1]
ToComeIn(fs, p) == \E j \in DOMAIN fs : Ahead(fs[j], p)
ToCome(p) == ToComeIn(frames, p)

GoodTree ==
    \A p \in DOMAIN tree :
       /\ p \in Raws /\ p # << >> /\ tree[p].kind \in {"file", "dir", "link", "mount"} /\ tree[p].readable \in BOOLEAN
       /\ tree[p].kind \in {"dir", "mount"} <=> Last(p) \in Folders
       /\ tree[p].kind = "mount" => tree[p].to \in {<< >>, Code} /\ (p = Code => tree[p].to = << >>)
       /\ \A i \in 1 .. Len(p) - 1 : SubSeq(p, 1, i) \in DOMAIN tree /\ tree[SubSeq(p, 1, i)].kind = "dir"

GoodFrame(f, m) ==
    /\ f.raw \in Seq({"code", "modules"}) /\ f.rel = f.raw /\ DOMAIN f.left \in (SUBSET (1 .. 6)) \ {{}}
    /\ Leads(m, f.raw) /\ (Under(f.raw, Code) => m = Code)
    /\ \A k \in DOMAIN f.left :
         /\ f.left[k] \in {"dir", "mount"} <=> Sorted[k] \in Folders
         /\ f.left[k] # "mount" => Leads(m, Append(f.raw, Sorted[k]))
         /\ changed = {} => tree[Append(At(f.raw), Sorted[k])].kind = f.left[k]
Kinds == {"file", "dir", "link", "mount"}
Listings == UNION {[D -> Kinds] : D \in SUBSET (1 .. 6)}
FrameTypes == [rel : Raws, raw : Raws, left : Listings]
GoodFrames(fs, m) ==
    /\ fs \in Seq(FrameTypes)
    /\ \A j \in DOMAIN fs : GoodFrame(fs[j], m)
    /\ \A j, k \in DOMAIN fs :
         j < k => Len(fs[j].raw) < Len(fs[k].raw) /\ Under(fs[k].raw, fs[j].raw) /\ ~Ahead(fs[j], fs[k].raw)
RootIsFirst ==
    \A j \in DOMAIN frames : frames[j].raw = << >> /\ 1 \in DOMAIN frames[j].left => Len(frames) = 1 /\ seen = {<< >>}

\* Who was met: q is the place of some path that the walk is done with.
GoodSeen(m) ==
    /\ << >> \in seen /\ (Code \in seen <=> m # << >>)
    /\ \A q \in seen : \E p \in Raws : ~ToCome(p) /\ (q = p \/ (m # << >> /\ Under(p, m) /\ q = Via(m, p)))

GoodEntry(m) ==
    LET raw == entry[2]
    IN  /\ entry[1] = Append(Front(raw), Nfc(Last(raw)))
        /\ raw \in Raws /\ raw # << >> /\ Last(raw) \notin Folders
        /\ Front(raw) \in Seq({"code", "modules"})
        /\ ~ToCome(raw) /\ Leads(m, raw) /\ (Under(raw, Code) => m = Code)
        /\ changed = {} => Content(raw) # Nowhere \/ tree[At(raw)].kind = "link"

GoodReadings(m, raws) ==
    /\ raws \in Seq(Raws) /\ DOMAIN readings = DOMAIN raws /\ readings \in Seq(Range(readings))
    /\ \A i, j \in DOMAIN raws : raws[i] = raws[j] => i = j
    /\ \A i \in DOMAIN raws :
         /\ ~ToCome(raws[i]) /\ (entry # << >> => raws[i] # entry[2]) /\ (Under(raws[i], Code) => m = Code)
         /\ readings[i].place = raws[i] \/ (m # << >> /\ Under(raws[i], m) /\ readings[i].place = Via(m, raws[i]))
         /\ readings[i].got = Nowhere =>
              changed # {} \/ Last(readings[i].place) = "nfd" \/ tree[readings[i].place].kind = "link"

Read(p) == \E i \in DOMAIN readings : readings[i].place = p /\ (Last(p) = "nfd" \/ readings[i].got = p)
AwaitedIn(fs, p) ==
    \E j \in DOMAIN fs : \E k \in DOMAIN fs[j].left :
       LET child == Append(fs[j].raw, Sorted[k])
       IN  Under(p, child) /\ fs[j].left[k] = tree[child].kind
Awaited(p) == (entry # << >> /\ entry[2] = p) \/ AwaitedIn(frames, p)
Expected(p) == Walkable(p) /\ Steady(p)

Walked(m, raws) ==
    GoodFrames(frames, m) /\ RootIsFirst /\ GoodSeen(m) /\ (entry # << >> => GoodEntry(m)) /\ GoodReadings(m, raws)
Covered == \A p \in DOMAIN tree : Expected(p) => Read(p) \/ Awaited(p)

WalkInv ==
    /\ GoodTree
    /\ stage \in {"before", "walking", "done"}
    /\ stage = "before" => frames = << >> /\ seen = {} /\ entry = << >> /\ readings = << >> /\ changed = {}
    /\ stage # "before" => (\E m \in Raws : \E raws \in Seq(Raws) : Walked(m, raws)) /\ Covered
    /\ stage = "done" => frames = << >> /\ entry = << >>

LEMMA SortedNames ==
    /\ DOMAIN Sorted = 1 .. 6 /\ \A k \in 1 .. 6 : Sorted[k] \in Names
    /\ \A n \in Names : \E k \in 1 .. 6 : Sorted[k] = n
    /\ \A k, l \in 1 .. 6 : Sorted[k] = Sorted[l] => k = l
    /\ Sorted[1] = "code"
    /\ Range(Sorted) = Names
<1> DEFINE s == << "code", "git", "modules", "nfc", "nfd", "pkg" >>
<1>1. DOMAIN s = 1 .. 6 /\ s[1] = "code" /\ s[2] = "git" /\ s[3] = "modules" /\ s[4] = "nfc" /\ s[5] = "nfd" /\ s[6] = "pkg"
    OBVIOUS
<1>2. s = Sorted
    BY DEF Sorted
<1> HIDE DEF s
<1>3. \A k \in 1 .. 6 : k = 1 \/ k = 2 \/ k = 3 \/ k = 4 \/ k = 5 \/ k = 6
    OBVIOUS
<1>4. \A k \in 1 .. 6 : s[k] \in Names
    BY <1>1, <1>3 DEF Names
<1>5. \A n \in Names : \E k \in 1 .. 6 : s[k] = n
    BY <1>1 DEF Names
<1>6. \A k, l \in 1 .. 6 : s[k] = s[l] => k = l
    BY <1>1, <1>3
<1>7. Range(s) = Names
    BY <1>1, <1>4, <1>5 DEF Range
<1> QED
    BY <1>1, <1>2, <1>4, <1>5, <1>6, <1>7

\* A path is resolved one name after the other.
LEMMA AtIs ==
    ASSUME NEW p \in Raws, NEW h, h[0] = << >>, \A i \in 1 .. Len(p) : h[i] = Mounted(Append(h[i - 1], p[i]))
    PROVE  At(p) = h[Len(p)]
<1> DEFINE n == Len(p)
           rec(g) == g = [i \in 0 .. n |-> IF i = 0 THEN << >> ELSE Mounted(Append(g[i - 1], p[i]))]
           at == CHOOSE g : rec(g)
           f == [i \in 0 .. n |-> h[i]]
<1>1. n \in Nat
    BY DEF Raws
<1>2. At(p) = at[n]
    BY DEF At
<1>3. rec(f)
  <2>1. \A i \in 0 .. n : h[i] = IF i = 0 THEN << >> ELSE Mounted(Append(f[i - 1], p[i]))
    <3> TAKE i \in 0 .. n
    <3>1. CASE i = 0
        BY <3>1
    <3>2. CASE i # 0
      <4>1. i \in 1 .. n /\ i - 1 \in 0 .. n
          BY <1>1, <3>2
      <4> QED
          BY <3>2, <4>1
    <3> QED
        BY <3>1, <3>2
  <2> QED
      BY <2>1
<1>4. rec(at)
  <2> HIDE DEF f, rec
  <2> QED
      BY <1>3
<1>5. /\ \A i \in 0 .. n : at[i] = IF i = 0 THEN << >> ELSE Mounted(Append(at[i - 1], p[i]))
      /\ \A i \in 0 .. n : f[i] = h[i]
  <2> HIDE DEF at
  <2> QED
      BY <1>4
<1> HIDE DEF at, f, n, rec
<1> DEFINE G == {i \in 0 .. n : at[i] = h[i]}
<1>6. 0 \in G
    BY <1>1, <1>5
<1>7. ASSUME NEW k \in 1 .. n, k - 1 \in G PROVE k \in G
  <2>1. k \in 0 .. n /\ k # 0 /\ at[k - 1] = h[k - 1]
      BY <1>1, <1>7
  <2> QED
      BY <1>5, <2>1 DEF n
<1> HIDE DEF G
<1>8. n \in G
  <2>1. \A k \in 0 .. n : k \in G
      BY <1>1, <1>6, <1>7, CountUp
  <2> QED
      BY <1>1, <2>1
<1> QED
    BY <1>2, <1>8 DEF G, n

LEMMA AtExists ==
    ASSUME NEW p \in Raws
    PROVE  \E h : h[0] = << >> /\ \A i \in 1 .. Len(p) : h[i] = Mounted(Append(h[i - 1], p[i]))
<1> DEFINE n == Len(p)
           G == {k \in 0 .. n : \E h : h[0] = << >> /\ \A i \in 1 .. k : h[i] = Mounted(Append(h[i - 1], p[i]))}
<1>1. n \in Nat
    BY DEF Raws
<1>2. 0 \in G
  <2> DEFINE h == [i \in 0 .. 0 |-> << >>]
  <2>1. h[0] = << >> /\ \A i \in 1 .. 0 : h[i] = Mounted(Append(h[i - 1], p[i]))
      OBVIOUS
  <2> HIDE DEF h
  <2> QED
      BY <1>1, <2>1
<1>3. ASSUME NEW k \in 1 .. n, k - 1 \in G PROVE k \in G
  <2>1. PICK h : h[0] = << >> /\ \A i \in 1 .. k - 1 : h[i] = Mounted(Append(h[i - 1], p[i]))
      BY <1>3
  <2> DEFINE g == [i \in 0 .. k |-> IF i = k THEN Mounted(Append(h[k - 1], p[k])) ELSE h[i]]
  <2>2. \A i \in 0 .. k : g[i] = IF i = k THEN Mounted(Append(h[k - 1], p[k])) ELSE h[i]
      OBVIOUS
  <2> HIDE DEF g
  <2>3. g[0] = << >>
      BY <2>1, <2>2
  <2>4. ASSUME NEW i \in 1 .. k PROVE g[i] = Mounted(Append(g[i - 1], p[i]))
    <3>1. i - 1 \in 0 .. k /\ i - 1 # k /\ i \in 0 .. k
        OBVIOUS
    <3>2. g[i - 1] = h[i - 1]
        BY <2>2, <3>1
    <3>3. CASE i = k
        BY <2>2, <3>1, <3>2, <3>3
    <3>4. CASE i # k
      <4>1. i \in 1 .. k - 1
          BY <3>4
      <4> QED
          BY <2>1, <2>2, <3>1, <3>2, <3>4, <4>1
    <3> QED
        BY <3>3, <3>4
  <2> QED
      BY <1>1, <2>3, <2>4
<1> HIDE DEF G
<1>4. n \in G
  <2> HIDE DEF n
  <2>1. \A k \in 0 .. n : k \in G
      BY <1>1, <1>2, <1>3, CountUp
  <2> QED
      BY <1>1, <2>1
<1> QED
    BY <1>4 DEF G

\* What is appended to a path.
LEMMA OneMore ==
    ASSUME NEW p \in Raws, NEW n \in Names
    PROVE  /\ Append(p, n) \in Raws /\ Len(Append(p, n)) = Len(p) + 1 /\ Len(p) \in Nat
           /\ Append(p, n)[Len(p) + 1] = n /\ \A i \in 1 .. Len(p) : Append(p, n)[i] = p[i]
           /\ \A i \in 1 .. Len(p) : SubSeq(Append(p, n), 1, i) = SubSeq(p, 1, i)
           /\ SubSeq(Append(p, n), 1, Len(p) + 1) = Append(p, n) /\ SubSeq(p, 1, Len(p)) = p
           /\ Front(Append(p, n)) = p /\ Last(Append(p, n)) = n /\ Append(p, n) # << >>
<1>1. /\ Append(p, n) \in Raws /\ Len(Append(p, n)) = Len(p) + 1 /\ Len(p) \in Nat
      /\ Append(p, n)[Len(p) + 1] = n /\ \A i \in 1 .. Len(p) : Append(p, n)[i] = p[i]
    BY DEF Raws
<1>2. \A i \in 1 .. Len(p) : SubSeq(Append(p, n), 1, i) = SubSeq(p, 1, i)
    BY <1>1 DEF Raws
<1>3. SubSeq(Append(p, n), 1, Len(p) + 1) = Append(p, n) /\ SubSeq(p, 1, Len(p)) = p
    BY <1>1 DEF Raws
<1>4. Front(Append(p, n)) = p
    BY <1>1 DEF Raws, Front
<1>5. Last(Append(p, n)) = n
    BY <1>1 DEF Last
<1>6. Append(p, n) # << >>
    BY <1>1
<1> QED
    BY <1>1, <1>2, <1>3, <1>4, <1>5, <1>6

LEMMA AtStep ==
    ASSUME NEW p \in Raws, NEW n \in Names
    PROVE  At(Append(p, n)) = Mounted(Append(At(p), n))
<1> DEFINE k == Len(p)
           c == Append(p, n)
<1>1. PICK h : h[0] = << >> /\ \A i \in 1 .. k : h[i] = Mounted(Append(h[i - 1], p[i]))
    BY AtExists
<1>2. k \in Nat /\ c \in Raws /\ Len(c) = k + 1 /\ c[k + 1] = n /\ \A i \in 1 .. k : c[i] = p[i]
    BY OneMore
<1>3. At(p) = h[k]
    BY <1>1, AtIs
<1> HIDE DEF k, c
<1> DEFINE g == [i \in 0 .. k + 1 |-> IF i = k + 1 THEN Mounted(Append(h[k], n)) ELSE h[i]]
<1>4. \A i \in 0 .. k + 1 : g[i] = IF i = k + 1 THEN Mounted(Append(h[k], n)) ELSE h[i]
    OBVIOUS
<1> HIDE DEF g
<1>5. g[0] = << >>
    BY <1>1, <1>2, <1>4
<1>6. ASSUME NEW i \in 1 .. k + 1 PROVE g[i] = Mounted(Append(g[i - 1], c[i]))
  <2>1. i - 1 \in 0 .. k + 1 /\ i - 1 # k + 1 /\ i \in 0 .. k + 1
      BY <1>2
  <2>2. g[i - 1] = h[i - 1]
      BY <1>4, <2>1
  <2>3. CASE i = k + 1
    <3>1. i - 1 = k
        BY <1>2, <2>3
    <3> QED
        BY <1>2, <1>4, <2>1, <2>2, <2>3, <3>1
  <2>4. CASE i # k + 1
    <3>1. i \in 1 .. k
        BY <1>2, <2>4
    <3> QED
        BY <1>1, <1>2, <1>4, <2>1, <2>2, <2>4, <3>1
  <2> QED
      BY <2>3, <2>4
<1>7. At(c) = g[k + 1]
    BY <1>2, <1>5, <1>6, AtIs
<1>8. g[k + 1] = Mounted(Append(h[k], n))
    BY <1>2, <1>4
<1> QED
    BY <1>3, <1>7, <1>8 DEF c

LEMMA RawFacts ==
    ASSUME NEW p \in Raws
    PROVE  /\ Len(p) \in Nat /\ DOMAIN p = 1 .. Len(p) /\ \A i \in 1 .. Len(p) : p[i] \in Names
           /\ \A i \in 0 .. Len(p) : SubSeq(p, 1, i) \in Raws /\ Len(SubSeq(p, 1, i)) = i
           /\ \A i \in 0 .. Len(p) : \A k \in 1 .. i : SubSeq(p, 1, i)[k] = p[k]
           /\ SubSeq(p, 1, Len(p)) = p /\ (Len(p) = 0 <=> p = << >>)
           /\ \A q \in Raws : Len(q) = Len(p) /\ (\A i \in 1 .. Len(p) : p[i] = q[i]) => p = q
<1>1. Len(p) \in Nat /\ DOMAIN p = 1 .. Len(p) /\ \A i \in 1 .. Len(p) : p[i] \in Names
    BY DEF Raws
<1>2. /\ \A i \in 0 .. Len(p) : SubSeq(p, 1, i) \in Raws /\ Len(SubSeq(p, 1, i)) = i
      /\ \A i \in 0 .. Len(p) : \A k \in 1 .. i : SubSeq(p, 1, i)[k] = p[k]
    BY DEF Raws
<1>3. SubSeq(p, 1, Len(p)) = p /\ (Len(p) = 0 <=> p = << >>)
    BY DEF Raws
<1>4. \A q \in Raws : Len(q) = Len(p) /\ (\A i \in 1 .. Len(p) : p[i] = q[i]) => p = q
    BY DEF Raws
<1> QED
    BY <1>1, <1>2, <1>3, <1>4

LEMMA UnderFacts ==
    ASSUME NEW p \in Raws, NEW q \in Raws
    PROVE  /\ Under(p, q) <=> Len(q) <= Len(p) /\ SubSeq(p, 1, Len(q)) = q
           /\ IsPrefix(q, p) <=> Under(p, q)
           /\ Under(p, p) /\ Under(p, << >>)
           /\ \A r \in Raws : Under(p, q) /\ Under(q, r) => Under(p, r)
           /\ \A r \in Raws : Under(p, q) /\ Under(p, r) /\ Len(r) <= Len(q) => Under(q, r)
<1>1. Len(p) \in Nat /\ Len(q) \in Nat
    BY DEF Raws
<1>2. Under(p, q) <=> Len(q) <= Len(p) /\ SubSeq(p, 1, Len(q)) = q
  <2>1. CASE Len(q) <= Len(p)
    <3>1. Len(q) \in 0 .. Len(p)
        BY <1>1, <2>1
    <3> DEFINE s == SubSeq(p, 1, Len(q))
    <3>2. s \in Raws /\ Len(s) = Len(q) /\ \A k \in 1 .. Len(q) : s[k] = p[k]
        BY <3>1, RawFacts
    <3> HIDE DEF s
    <3>3. s = q <=> \A k \in 1 .. Len(q) : s[k] = q[k]
        BY <3>2, RawFacts
    <3> QED
        BY <2>1, <3>2, <3>3 DEF Under, s
  <2> QED
      BY <2>1 DEF Under
<1>3. IsPrefix(q, p) <=> Under(p, q)
  <2>1. SubSeq(q, 1, Len(q)) = q
      BY RawFacts
  <2> QED
      BY <1>2, <2>1 DEF IsPrefix
<1>4. Under(p, p) /\ Under(p, << >>)
    BY <1>1 DEF Under
<1>5. ASSUME NEW r \in Raws, Under(p, q), Under(q, r) PROVE Under(p, r)
  <2>1. Len(r) \in Nat
      BY DEF Raws
  <2> QED
      BY <1>1, <1>5, <2>1 DEF Under
<1>6. ASSUME NEW r \in Raws, Under(p, q), Under(p, r), Len(r) <= Len(q) PROVE Under(q, r)
  <2>1. Len(r) \in Nat
      BY DEF Raws
  <2> QED
      BY <1>1, <1>6, <2>1 DEF Under
<1> QED
    BY <1>2, <1>3, <1>4, <1>5, <1>6

LEMMA ViaFacts ==
    ASSUME NEW m \in Raws, m # << >>, NEW p \in Raws, Under(p, m)
    PROVE  /\ Via(m, p) \in Raws /\ Len(Via(m, p)) = Len(p) - Len(m) + 1 /\ Len(m) >= 1
           /\ Via(m, p)[1] = "code" /\ \A i \in 2 .. Len(p) - Len(m) + 1 : Via(m, p)[i] = p[Len(m) + i - 1]
           /\ Under(Via(m, p), Code) /\ Via(m, m) = Code
           /\ m = Code => Via(m, p) = p
           /\ \A n \in Names : Under(Append(p, n), m) /\ Via(m, Append(p, n)) = Append(Via(m, p), n)
           /\ \A q \in Raws : Under(q, m) /\ Via(m, p) = Via(m, q) => p = q
<1>1. /\ Len(m) \in Nat /\ Len(p) \in Nat /\ Len(m) >= 1 /\ Len(m) <= Len(p)
      /\ \A i \in 1 .. Len(p) : p[i] \in Names
    BY RawFacts DEF Under
<1> DEFINE d == Len(p) - Len(m) + 1
           v == Via(m, p)
<1>2. d \in Nat /\ d >= 1
    BY <1>1
<1>3. \A i \in 1 .. d : IF i = 1 THEN "code" \in Names ELSE Len(m) + i - 1 \in 1 .. Len(p)
    BY <1>1 DEF Names
<1>4. v = [i \in 1 .. d |-> IF i = 1 THEN "code" ELSE p[Len(m) + i - 1]]
    BY DEF Via
<1> HIDE DEF d, v
<1>5. \A i \in 1 .. d : v[i] = IF i = 1 THEN "code" ELSE p[Len(m) + i - 1]
    BY <1>4
<1>6. v \in [1 .. d -> Names]
    BY <1>1, <1>3, <1>4
<1>7. v \in Raws /\ Len(v) = d
    BY <1>2, <1>6 DEF Raws
<1>8. Code \in Raws /\ Len(Code) = 1 /\ Code[1] = "code"
    BY DEF Code, Raws, Names
<1>9. Under(v, Code)
    BY <1>2, <1>5, <1>7, <1>8 DEF Under
<1>10. Via(m, m) = Code
  <2>1. Len(m) - Len(m) + 1 = 1
      BY <1>1
  <2>2. Via(m, m) = [i \in 1 .. 1 |-> "code"]
      BY <2>1 DEF Via
  <2> QED
      BY <2>2 DEF Code
<1>11. ASSUME m = Code PROVE v = p
  <2>1. d = Len(p)
      BY <1>1, <1>8, <1>11 DEF d
  <2>2. \A i \in 1 .. Len(p) : v[i] = p[i]
    <3> TAKE i \in 1 .. Len(p)
    <3>1. p[1] = "code"
        BY <1>8, <1>11 DEF Under
    <3>2. Len(m) + i - 1 = i
      <4>1. Len(m) = 1
          BY <1>8, <1>11
      <4>2. i \in Nat
          BY <1>1
      <4> QED
          BY <4>1, <4>2
    <3> QED
        BY <1>5, <2>1, <3>1, <3>2
  <2> QED
      BY <1>7, <2>1, <2>2, RawFacts
<1>12. ASSUME NEW n \in Names
       PROVE  Under(Append(p, n), m) /\ Via(m, Append(p, n)) = Append(v, n)
  <2> DEFINE c == Append(p, n)
             w == Append(v, n)
  <2>1. c \in Raws /\ Len(c) = Len(p) + 1 /\ c[Len(p) + 1] = n /\ \A i \in 1 .. Len(p) : c[i] = p[i]
      BY OneMore
  <2>2. w \in Raws /\ Len(w) = d + 1 /\ w[d + 1] = n /\ \A i \in 1 .. d : w[i] = v[i]
      BY <1>7, OneMore
  <2> HIDE DEF c, w
  <2>3. Under(c, m)
      BY <1>1, <2>1 DEF Under
  <2>4. Len(c) - Len(m) + 1 = d + 1
      BY <1>1, <2>1 DEF d
  <2>5. Via(m, c) = [i \in 1 .. d + 1 |-> IF i = 1 THEN "code" ELSE c[Len(m) + i - 1]]
      BY <2>4 DEF Via
  <2>6. \A i \in 1 .. d + 1 : (IF i = 1 THEN "code" ELSE c[Len(m) + i - 1]) = w[i]
    <3> TAKE i \in 1 .. d + 1
    <3>1. CASE i = 1
        BY <1>2, <1>5, <2>2, <3>1
    <3>2. CASE i # 1 /\ i <= d
      <4>1. i \in 1 .. d /\ Len(m) + i - 1 \in 1 .. Len(p)
          BY <1>1, <1>2, <3>2 DEF d
      <4> QED
          BY <1>5, <2>1, <2>2, <3>2, <4>1
    <3>3. CASE i = d + 1
      <4>1. i # 1 /\ Len(m) + i - 1 = Len(p) + 1
          BY <1>1, <1>2, <3>3 DEF d
      <4> QED
          BY <2>1, <2>2, <3>3, <4>1
    <3> QED
        BY <1>2, <3>1, <3>2, <3>3
  <2>7. w = [i \in 1 .. d + 1 |-> w[i]]
      BY <2>2 DEF Raws
  <2>8. Via(m, c) = w
      BY <2>5, <2>6, <2>7
  <2> QED
      BY <2>3, <2>8 DEF c, w
<1>13. ASSUME NEW q \in Raws, Under(q, m), v = Via(m, q) PROVE p = q
  <2>1. Len(q) \in Nat /\ Len(m) <= Len(q)
      BY <1>13, RawFacts DEF Under
  <2> DEFINE e == Len(q) - Len(m) + 1
  <2>2. v = [i \in 1 .. e |-> IF i = 1 THEN "code" ELSE q[Len(m) + i - 1]]
      BY <1>13 DEF Via
  <2>3. e \in Nat
      BY <1>1, <2>1
  <2> HIDE DEF e
  <2>4. 1 .. e = 1 .. d
      BY <1>4, <2>2
  <2>5. e = d
      BY <1>2, <2>3, <2>4
  <2>6. Len(q) = Len(p)
      BY <1>1, <2>1, <2>5 DEF d, e
  <2>7. \A i \in 1 .. Len(p) : p[i] = q[i]
    <3> TAKE i \in 1 .. Len(p)
    <3>1. CASE i <= Len(m)
        BY <1>1, <1>13, <3>1 DEF Under
    <3>2. CASE i > Len(m)
      <4> DEFINE k == i - Len(m) + 1
      <4>1. k \in 1 .. d /\ k # 1 /\ Len(m) + k - 1 = i
          BY <1>1, <3>2 DEF d
      <4> HIDE DEF k
      <4>2. v[k] = p[i]
          BY <1>5, <4>1
      <4>3. v[k] = q[i]
          BY <2>2, <2>5, <4>1
      <4> QED
          BY <4>2, <4>3
    <3> QED
        BY <1>1, <3>1, <3>2
  <2> QED
      BY <2>6, <2>7, RawFacts
<1> QED
    BY <1>1, <1>5, <1>7, <1>9, <1>10, <1>11, <1>12, <1>13 DEF d, v

LEMMA PlainAt ==
    ASSUME NEW p \in Raws, Plain(p)
    PROVE  At(p) = p
<1> DEFINE h == [i \in 0 .. Len(p) |-> SubSeq(p, 1, i)]
<1>1. \A i \in 0 .. Len(p) : h[i] = SubSeq(p, 1, i)
    OBVIOUS
<1> HIDE DEF h
<1>2. Len(p) \in Nat /\ SubSeq(p, 1, Len(p)) = p
    BY RawFacts
<1>3. h[0] = << >>
    BY <1>1, <1>2 DEF Raws
<1>4. ASSUME NEW i \in 1 .. Len(p) PROVE h[i] = Mounted(Append(h[i - 1], p[i]))
  <2>1. i - 1 \in 0 .. Len(p) /\ i \in 0 .. Len(p)
      BY <1>2
  <2>2. Append(SubSeq(p, 1, i - 1), p[i]) = SubSeq(p, 1, i)
      BY <1>2 DEF Raws
  <2>3. Mounted(SubSeq(p, 1, i)) = SubSeq(p, 1, i)
      BY DEF Plain, IsMount, Mounted
  <2> QED
      BY <1>1, <2>1, <2>2, <2>3
<1>5. At(p) = h[Len(p)]
    BY <1>3, <1>4, AtIs
<1> QED
    BY <1>1, <1>2, <1>5

LEMMA ThroughAt ==
    ASSUME NEW m \in Raws, NEW p \in Raws, Through(m, p)
    PROVE  At(p) = Via(m, p)
<1> DEFINE k == Len(m)
           v == Via(m, p)
           h == [i \in 0 .. Len(p) |-> IF i < k THEN SubSeq(p, 1, i) ELSE SubSeq(v, 1, i - k + 1)]
<1>1. /\ m # << >> /\ Under(p, m) /\ IsMount(m) /\ tree[m].to = Code /\ Plain(v)
      /\ \A i \in 1 .. k - 1 : ~IsMount(SubSeq(m, 1, i))
    BY DEF Through
<1>2. /\ v \in Raws /\ Len(v) = Len(p) - k + 1 /\ k >= 1 /\ v[1] = "code"
      /\ \A i \in 2 .. Len(p) - k + 1 : v[i] = p[k + i - 1]
    BY <1>1, ViaFacts
<1>3. Len(p) \in Nat /\ k \in Nat /\ k <= Len(p) /\ SubSeq(p, 1, k) = m
    BY <1>1, RawFacts, UnderFacts
<1>4. \A i \in 0 .. Len(p) : h[i] = IF i < k THEN SubSeq(p, 1, i) ELSE SubSeq(v, 1, i - k + 1)
    OBVIOUS
<1> HIDE DEF h, v, k
<1>5. h[0] = << >>
  <2>1. 0 \in 0 .. Len(p) /\ 0 < k
      BY <1>2, <1>3
  <2>2. SubSeq(p, 1, 0) \in Raws /\ Len(SubSeq(p, 1, 0)) = 0
      BY <2>1, RawFacts
  <2>3. SubSeq(p, 1, 0) = << >>
      BY <2>2, RawFacts
  <2> QED
      BY <1>4, <2>1, <2>3
<1>6. ASSUME NEW i \in 1 .. Len(p) PROVE h[i] = Mounted(Append(h[i - 1], p[i]))
  <2>1. i - 1 \in 0 .. Len(p) /\ i \in 0 .. Len(p) /\ i \in Nat
      BY <1>3
  <2>2. Append(SubSeq(p, 1, i - 1), p[i]) = SubSeq(p, 1, i)
      BY <1>3 DEF Raws
  <2>3. CASE i < k
    <3>1. SubSeq(m, 1, i) = SubSeq(p, 1, i)
      <4>1. i \in 0 .. Len(m) /\ m \in Raws
          BY <1>3, <2>1, <2>3 DEF k
      <4>2. /\ SubSeq(m, 1, i) \in Raws /\ Len(SubSeq(m, 1, i)) = i
            /\ \A j \in 1 .. i : SubSeq(m, 1, i)[j] = m[j]
          BY <4>1, RawFacts
      <4>3. /\ SubSeq(p, 1, i) \in Raws /\ Len(SubSeq(p, 1, i)) = i
            /\ \A j \in 1 .. i : SubSeq(p, 1, i)[j] = p[j]
          BY <2>1, RawFacts
      <4>4. \A j \in 1 .. i : m[j] = p[j]
          BY <1>1, <1>3, <2>3 DEF Under, k
      <4> QED
          BY <4>2, <4>3, <4>4, RawFacts
    <3>2. Mounted(SubSeq(p, 1, i)) = SubSeq(p, 1, i)
      <4>1. i \in 1 .. k - 1
          BY <1>3, <2>3
      <4> QED
          BY <1>1, <3>1, <4>1 DEF IsMount, Mounted
    <3>3. i - 1 < k
        BY <1>3, <2>3
    <3> QED
        BY <1>4, <2>1, <2>2, <2>3, <3>2, <3>3
  <2>4. CASE i = k
    <3>1. h[i - 1] = SubSeq(p, 1, i - 1)
      <4>1. i - 1 < k
          BY <2>4, <1>3
      <4> QED
          BY <1>4, <2>1, <4>1
    <3>2. Mounted(Append(h[i - 1], p[i])) = Code
        BY <1>1, <1>3, <2>2, <2>4, <3>1 DEF IsMount, Mounted
    <3>3. h[i] = SubSeq(v, 1, 1)
      <4>1. ~(i < k) /\ i - k + 1 = 1
          BY <2>4, <1>3
      <4> QED
          BY <1>4, <2>1, <4>1
    <3>4. SubSeq(v, 1, 1) = Code
      <4>1. 1 \in 0 .. Len(v)
          BY <1>2, <1>3
      <4> DEFINE w == SubSeq(v, 1, 1)
      <4>2. w \in Raws /\ Len(w) = 1 /\ \A j \in 1 .. 1 : w[j] = v[j]
          BY <1>2, <4>1, RawFacts
      <4> HIDE DEF w
      <4>3. w[1] = "code"
          BY <1>2, <4>2
      <4>4. Code \in Raws /\ Len(Code) = 1 /\ Code[1] = "code"
          BY DEF Code, Raws, Names
      <4>5. w = Code
          BY <4>2, <4>3, <4>4, RawFacts
      <4> QED
          BY <4>5 DEF w
    <3> QED
        BY <3>2, <3>3, <3>4
  <2>5. CASE i > k
    <3> DEFINE l == i - k + 1
    <3>1. l \in 2 .. Len(v) /\ l \in 1 .. Len(v) /\ k + l - 1 = i
        BY <1>2, <1>3, <2>5
    <3>2. h[i - 1] = SubSeq(v, 1, l - 1) /\ h[i] = SubSeq(v, 1, l)
      <4>1. ~(i < k) /\ ~(i - 1 < k) /\ i - 1 - k + 1 = l - 1
          BY <1>3, <2>5
      <4> HIDE DEF l
      <4> QED
          BY <1>4, <2>1, <4>1 DEF l
    <3> HIDE DEF l
    <3>3. p[i] = v[l]
        BY <1>2, <3>1
    <3>4. Append(SubSeq(v, 1, l - 1), v[l]) = SubSeq(v, 1, l)
        BY <1>2, <3>1 DEF Raws
    <3>5. Mounted(SubSeq(v, 1, l)) = SubSeq(v, 1, l)
        BY <1>1, <3>1 DEF Plain, IsMount, Mounted
    <3> QED
        BY <3>2, <3>3, <3>4, <3>5
  <2> QED
      BY <1>3, <2>3, <2>4, <2>5
<1>7. At(p) = h[Len(p)]
    BY <1>5, <1>6, AtIs
<1>8. h[Len(p)] = SubSeq(v, 1, Len(v))
  <2>1. ~(Len(p) < k) /\ Len(p) \in 0 .. Len(p) /\ Len(p) - k + 1 = Len(v)
      BY <1>2, <1>3
  <2> QED
      BY <1>4, <2>1
<1>9. SubSeq(v, 1, Len(v)) = v
    BY <1>2, RawFacts
<1> QED
    BY <1>7, <1>8, <1>9 DEF v

\* Where a path leads, and where one more name leads.
LEMMA LeadsTo ==
    ASSUME NEW m \in Raws, NEW p \in Raws, Leads(m, p)
    PROVE  /\ At(p) \in Raws
           /\ (Plain(p) /\ At(p) = p) \/ (Through(m, p) /\ At(p) = Via(m, p))
           /\ \A n \in Names : ~IsMount(Append(At(p), n)) =>
                Leads(m, Append(p, n)) /\ At(Append(p, n)) = Append(At(p), n)
<1>1. (Plain(p) /\ At(p) = p) \/ (Through(m, p) /\ At(p) = Via(m, p))
    BY PlainAt, ThroughAt DEF Leads
<1>2. At(p) \in Raws
    BY <1>1, ViaFacts DEF Through
<1>3. ASSUME NEW n \in Names, ~IsMount(Append(At(p), n))
      PROVE  Leads(m, Append(p, n)) /\ At(Append(p, n)) = Append(At(p), n)
  <2>1. At(Append(p, n)) = Append(At(p), n)
      BY <1>3, AtStep DEF Mounted, IsMount
  <2>2. ASSUME NEW q \in Raws, Plain(q), ~IsMount(Append(q, n)) PROVE Plain(Append(q, n))
    <3> SUFFICES ASSUME NEW i \in 1 .. Len(Append(q, n)) PROVE ~IsMount(SubSeq(Append(q, n), 1, i))
        BY DEF Plain
    <3>1. /\ Len(q) \in Nat /\ Len(Append(q, n)) = Len(q) + 1
          /\ \A k \in 1 .. Len(q) : SubSeq(Append(q, n), 1, k) = SubSeq(q, 1, k)
          /\ SubSeq(Append(q, n), 1, Len(q) + 1) = Append(q, n)
        BY OneMore
    <3>2. CASE i = Len(q) + 1
        BY <2>2, <3>1, <3>2
    <3>3. CASE i # Len(q) + 1
      <4>1. i \in 1 .. Len(q)
          BY <3>1, <3>3
      <4> QED
          BY <2>2, <3>1, <4>1 DEF Plain
    <3> QED
        BY <3>2, <3>3
  <2>3. CASE Plain(p) /\ At(p) = p
      BY <1>3, <2>1, <2>2, <2>3 DEF Leads
  <2>4. CASE Through(m, p) /\ At(p) = Via(m, p)
    <3>1. /\ m # << >> /\ Under(p, m) /\ IsMount(m) /\ tree[m].to = Code /\ Plain(Via(m, p))
          /\ \A i \in 1 .. Len(m) - 1 : ~IsMount(SubSeq(m, 1, i))
        BY <2>4 DEF Through
    <3>2. /\ Under(Append(p, n), m) /\ Via(m, Append(p, n)) = Append(Via(m, p), n) /\ Via(m, p) \in Raws
        BY <3>1, ViaFacts
    <3>3. Plain(Append(Via(m, p), n))
        BY <1>3, <2>2, <2>4, <3>1, <3>2
    <3> QED
        BY <2>1, <3>1, <3>2, <3>3 DEF Through, Leads
  <2> QED
      BY <1>1, <2>3, <2>4
<1> QED
    BY <1>1, <1>2, <1>3

LEMMA AnyMount ==
    ASSUME NEW m, NEW p, Leads(<< >>, p)
    PROVE  Leads(m, p)
BY DEF Leads, Through

LEMMA NodesAre ==
    ASSUME NEW place \in Places, NEW node \in Nodes(place)
    PROVE  /\ place \in Raws /\ place # << >>
           /\ node.kind \in {"file", "dir", "link", "mount"} /\ node.readable \in BOOLEAN
           /\ node.kind \in {"dir", "mount"} <=> Last(place) \in Folders
           /\ node.kind = "mount" => node.to \in {<< >>, Code} /\ (place = Code => node.to = << >>)
<1>1. place \in Raws /\ place # << >>
    BY PlacesAreNamed, SortedNames DEF Raws
<1>2. CASE Last(place) \in SkipDirs
  <2>1. node = Directory(TRUE)
      BY <1>2 DEF Nodes
  <2> QED
      BY <1>1, <1>2, <2>1 DEF Directory, SkipDirs, Folders
<1>3. CASE Last(place) \in {"code", "modules"}
  <2>1. Last(place) \notin SkipDirs
      BY <1>3 DEF SkipDirs
  <2>2. (\E r \in BOOLEAN : node = Directory(r)) \/ \E p \in {<< >>, Code} \ {place} : node = Mount(p)
      BY <1>3, <2>1 DEF Nodes, Code
  <2>3. ASSUME NEW r \in BOOLEAN, node = Directory(r) PROVE node.kind = "dir" /\ node.readable \in BOOLEAN
      BY <2>3 DEF Directory
  <2>4. ASSUME NEW p \in {<< >>, Code} \ {place}, node = Mount(p)
        PROVE  node.kind = "mount" /\ node.to = p /\ node.readable = TRUE
      BY <2>4 DEF Mount
  <2> QED
      BY <1>1, <1>3, <2>2, <2>3, <2>4 DEF Folders
<1>4. CASE Last(place) \notin SkipDirs /\ Last(place) \notin {"code", "modules"}
  <2>1. (\E r \in BOOLEAN : node = File(r)) \/ \E p : node = Link(p)
      BY <1>4 DEF Nodes
  <2>2. ASSUME NEW r \in BOOLEAN, node = File(r) PROVE node.kind = "file" /\ node.readable \in BOOLEAN
      BY <2>2 DEF File
  <2>3. ASSUME NEW p, node = Link(p) PROVE node.kind = "link" /\ node.readable = TRUE
      BY <2>3 DEF Link
  <2> QED
      BY <1>1, <1>4, <2>1, <2>2, <2>3 DEF Folders, SkipDirs
<1> QED
    BY <1>2, <1>3, <1>4

LEMMA CreatedTree ==
    ASSUME GoodTree, NEW place \in Places, NEW node \in Nodes(place), Create(place, node)
    PROVE  GoodTree'
<1>1. /\ place \notin DOMAIN tree /\ IsDir(Front(place))
      /\ tree' = [p \in DOMAIN tree \cup {place} |-> IF p = place THEN node ELSE tree[p]]
    BY DEF Create
<1>2. /\ DOMAIN tree' = DOMAIN tree \cup {place} /\ tree'[place] = node
      /\ \A p \in DOMAIN tree : p # place /\ tree'[p] = tree[p]
    BY <1>1
<1>3. /\ place \in Raws /\ place # << >>
      /\ node.kind \in {"file", "dir", "link", "mount"} /\ node.readable \in BOOLEAN
      /\ node.kind \in {"dir", "mount"} <=> Last(place) \in Folders
      /\ node.kind = "mount" => node.to \in {<< >>, Code} /\ (place = Code => node.to = << >>)
    BY NodesAre
<1>4. ASSUME NEW i \in 1 .. Len(place) - 1
      PROVE  SubSeq(place, 1, i) \in DOMAIN tree /\ tree[SubSeq(place, 1, i)].kind = "dir"
  <2> DEFINE f == SubSeq(place, 1, Len(place) - 1)
  <2>1. Len(place) \in Nat /\ Len(place) - 1 \in 0 .. Len(place) /\ i \in 0 .. Len(place)
      BY <1>3, RawFacts
  <2>2. f \in Raws /\ Len(f) = Len(place) - 1 /\ \A k \in 1 .. Len(place) - 1 : f[k] = place[k]
      BY <1>3, <2>1, RawFacts
  <2>3. f # << >>
    <3> HIDE DEF f
    <3>1. Len(f) # 0
        BY <2>1, <2>2
    <3> QED
        BY <2>2, <3>1, RawFacts
  <2>4. f \in DOMAIN tree /\ tree[f].kind = "dir"
      BY <1>1, <2>3 DEF IsDir, Front
  <2> HIDE DEF f
  <2>5. SubSeq(place, 1, i) = SubSeq(f, 1, i)
    <3> DEFINE a == SubSeq(place, 1, i)
               b == SubSeq(f, 1, i)
    <3>1. i \in 0 .. Len(f)
        BY <2>1, <2>2
    <3>2. b \in Raws /\ Len(b) = i /\ \A k \in 1 .. i : b[k] = f[k]
        BY <2>2, <3>1, RawFacts
    <3>3. a \in Raws /\ Len(a) = i /\ \A k \in 1 .. i : a[k] = place[k]
        BY <1>3, <2>1, RawFacts
    <3>4. \A k \in 1 .. i : f[k] = place[k]
        BY <2>1, <2>2
    <3> HIDE DEF a, b
    <3>5. \A k \in 1 .. Len(a) : a[k] = b[k]
        BY <3>2, <3>3, <3>4
    <3>6. a = b
        BY <3>2, <3>3, <3>5, RawFacts
    <3> QED
        BY <3>6 DEF a, b
  <2>6. CASE i = Len(f)
    <3>1. SubSeq(f, 1, i) = f
        BY <2>2, <2>6, RawFacts
    <3> QED
        BY <2>4, <2>5, <3>1
  <2>7. CASE i # Len(f)
    <3>1. i \in 1 .. Len(f) - 1
        BY <2>1, <2>2, <2>7
    <3>2. SubSeq(f, 1, i) \in DOMAIN tree /\ tree[SubSeq(f, 1, i)].kind = "dir"
        BY <2>4, <3>1 DEF GoodTree
    <3> QED
        BY <2>5, <3>2
  <2> QED
      BY <2>6, <2>7
<1> SUFFICES ASSUME NEW p \in DOMAIN tree'
             PROVE  /\ p \in Raws /\ p # << >> /\ tree'[p].kind \in {"file", "dir", "link", "mount"} /\ tree'[p].readable \in BOOLEAN
                    /\ tree'[p].kind \in {"dir", "mount"} <=> Last(p) \in Folders
                    /\ tree'[p].kind = "mount" => tree'[p].to \in {<< >>, Code} /\ (p = Code => tree'[p].to = << >>)
                    /\ \A i \in 1 .. Len(p) - 1 : SubSeq(p, 1, i) \in DOMAIN tree' /\ tree'[SubSeq(p, 1, i)].kind = "dir"
    BY DEF GoodTree
<1>5. CASE p = place
    BY <1>2, <1>3, <1>4, <1>5
<1>6. CASE p # place
  <2>1. p \in DOMAIN tree
      BY <1>2, <1>6
  <2> QED
      BY <1>2, <2>1 DEF GoodTree
<1> QED
    BY <1>5, <1>6

\* What TakeAway leaves: whole branches are gone.
LEMMA LeftTree ==
    ASSUME GoodTree, NEW place \in Places, TakeAway(place)
    PROVE  /\ GoodTree'
           /\ \A p : p \in DOMAIN tree' <=> p \in DOMAIN tree /\ ~Under(p, place)
           /\ \A p \in DOMAIN tree' : tree'[p] = tree[p]
<1>1. place \in Raws /\ place # << >>
    BY PlacesAreNamed, SortedNames DEF Raws
<1>2. tree' = [p \in {q \in DOMAIN tree : ~IsPrefix(place, q)} |-> tree[p]]
    BY DEF TakeAway
<1>3. /\ \A p : p \in DOMAIN tree' <=> p \in DOMAIN tree /\ ~Under(p, place)
      /\ \A p \in DOMAIN tree' : tree'[p] = tree[p]
  <2>1. \A p \in DOMAIN tree : IsPrefix(place, p) <=> Under(p, place)
      BY <1>1, UnderFacts DEF GoodTree
  <2> QED
      BY <1>2, <2>1
<1>4. ASSUME NEW p \in DOMAIN tree'
      PROVE  /\ p \in Raws /\ p # << >> /\ tree'[p].kind \in {"file", "dir", "link", "mount"} /\ tree'[p].readable \in BOOLEAN
             /\ tree'[p].kind \in {"dir", "mount"} <=> Last(p) \in Folders
             /\ tree'[p].kind = "mount" => tree'[p].to \in {<< >>, Code} /\ (p = Code => tree'[p].to = << >>)
    BY <1>3 DEF GoodTree
<1>5. ASSUME NEW p \in DOMAIN tree', NEW i \in 1 .. Len(p) - 1
      PROVE  SubSeq(p, 1, i) \in DOMAIN tree' /\ tree'[SubSeq(p, 1, i)].kind = "dir"
  <2> DEFINE q == SubSeq(p, 1, i)
  <2>1. p \in DOMAIN tree /\ ~Under(p, place) /\ p \in Raws
      BY <1>3, <1>4
  <2>2. q \in DOMAIN tree /\ tree[q].kind = "dir"
      BY <2>1 DEF GoodTree
  <2>3. q \in Raws /\ Under(p, q)
    <3>1. i \in 0 .. Len(p) /\ i <= Len(p) /\ Len(p) \in Nat
        BY <2>1, RawFacts
    <3>2. q \in Raws /\ Len(q) = i
        BY <2>1, <3>1, RawFacts
    <3> HIDE DEF q
    <3>3. SubSeq(p, 1, Len(q)) = q
        BY <3>2 DEF q
    <3> QED
        BY <2>1, <3>1, <3>2, <3>3, UnderFacts
  <2> HIDE DEF q
  <2>4. ~Under(q, place)
      BY <1>1, <2>1, <2>3, UnderFacts
  <2>5. q \in DOMAIN tree' /\ tree'[q].kind = "dir"
      BY <1>3, <2>2, <2>4
  <2> QED
      BY <2>5 DEF q
<1>6. GoodTree'
    BY <1>4, <1>5 DEF GoodTree
<1> QED
    BY <1>3, <1>6

\* During the walk nothing is mounted: what a path leads through stays, or is a
\* directory like any other.
LEMMA LeadsKept ==
    ASSUME GoodTree, \A q : IsMount(q)' => IsMount(q) /\ tree'[q] = tree[q],
           NEW m \in Raws, NEW p \in Raws, Leads(m, p)
    PROVE  Leads(m, p)'
<1>1. \A q : Plain(q) => Plain(q)'
    BY DEF Plain
<1>2. CASE Plain(p)
    BY <1>1, <1>2 DEF Leads
<1>3. CASE Through(m, p) /\ IsMount(m)'
    BY <1>1, <1>3 DEF Leads, Through
<1>4. CASE Through(m, p) /\ ~IsMount(m)'
  <2>1. /\ Under(p, m) /\ IsMount(m) /\ \A i \in 1 .. Len(m) - 1 : ~IsMount(SubSeq(m, 1, i))
      BY <1>4 DEF Through
  <2>2. ASSUME NEW i \in 1 .. Len(p), IsMount(SubSeq(p, 1, i))' PROVE FALSE
    <3> DEFINE q == SubSeq(p, 1, i)
    <3>1. IsMount(q) /\ IsMount(q)'
        BY <2>2
    <3>2. Len(p) \in Nat /\ Len(m) \in Nat /\ Len(m) <= Len(p) /\ i \in 0 .. Len(p) /\ SubSeq(p, 1, Len(m)) = m
        BY <2>1, RawFacts, UnderFacts
    <3>3. q \in Raws /\ Len(q) = i /\ \A k \in 1 .. i : q[k] = p[k]
        BY <3>2, RawFacts
    <3>4. Under(p, q)
        BY <3>2, <3>3 DEF Under
    <3> HIDE DEF q
    <3>5. CASE i <= Len(m)
      <4>1. Under(m, q)
          BY <2>1, <3>2, <3>3, <3>4, <3>5, UnderFacts
      <4>2. SubSeq(m, 1, i) = q
          BY <3>3, <4>1, UnderFacts
      <4>3. CASE i = Len(m)
        <5>1. q = m
            BY <4>2, <4>3, RawFacts
        <5> QED
            BY <1>4, <3>1, <5>1 DEF IsMount
      <4>4. CASE i # Len(m)
        <5>1. i \in 1 .. Len(m) - 1
          <6>1. i \in Nat /\ i >= 1 /\ Len(m) \in Nat
              BY <3>2
          <6> QED
              BY <3>5, <4>4, <6>1
        <5> QED
            BY <2>1, <3>1, <4>2, <5>1
      <4> QED
          BY <4>3, <4>4
    <3>6. CASE i > Len(m)
      <4>1. Under(q, m)
          BY <2>1, <3>2, <3>3, <3>4, <3>6, UnderFacts
      <4>2. SubSeq(q, 1, Len(m)) = m
          BY <3>3, <4>1, UnderFacts
      <4>3. Len(m) \in 1 .. Len(q) - 1
        <5>1. Len(m) # 0
            BY <1>4, RawFacts DEF Through
        <5>2. Len(q) = i /\ i \in Nat /\ Len(m) \in Nat
            BY <3>2, <3>3
        <5> QED
            BY <3>6, <5>1, <5>2
      <4>4. tree[m].kind = "dir"
        <5>1. \A k \in 1 .. Len(q) - 1 : tree[SubSeq(q, 1, k)].kind = "dir"
            BY <3>1 DEF GoodTree, IsMount
        <5> QED
            BY <4>2, <4>3, <5>1
      <4> QED
          BY <2>1, <4>4 DEF IsMount
    <3> QED
        BY <3>2, <3>5, <3>6
  <2> QED
      BY <2>2 DEF Leads, Plain
<1> QED
    BY <1>2, <1>3, <1>4 DEF Leads

\* A path that the walk may be expected at leads through directories of that name.
LEMMA ExpectedIs ==
    ASSUME GoodTree, NEW p \in DOMAIN tree, Expected(p)
    PROVE  /\ p \in Raws /\ p # << >> /\ IsFile(p) /\ tree[p].readable /\ Plain(p)
           /\ ~Excluded([i \in DOMAIN p |-> Nfc(p[i])])
           /\ \A q \in Raws : Under(p, q) /\ q # << >> /\ q # p =>
                /\ q \in DOMAIN tree /\ tree[q].kind = "dir" /\ tree[q].readable /\ Plain(q)
                /\ Last(q) \notin SkipDirs /\ ~Excluded([i \in DOMAIN q |-> Nfc(q[i])])
<1> DEFINE above == {SubSeq(p, 1, i) : i \in 1 .. Len(p) - 1}
<1>1. p \in Raws /\ p # << >> /\ Len(p) \in Nat
    BY RawFacts DEF GoodTree
<1>2. /\ IsFile(p) /\ tree[p].readable
      /\ \A dir \in above : IsDir(dir) /\ IsReadable(dir) /\ Last(dir) \notin SkipDirs
      /\ \A q \in above \cup {p} : ~Excluded([i \in DOMAIN q |-> Nfc(q[i])])
    BY DEF Expected, Walkable
<1>3. ASSUME NEW q \in Raws, Under(p, q), q # << >>, q # p
      PROVE  q \in above
  <2>1. Len(q) \in Nat /\ Len(q) # 0 /\ Len(q) <= Len(p) /\ SubSeq(p, 1, Len(q)) = q
      BY <1>1, <1>3, RawFacts, UnderFacts
  <2>2. Len(q) # Len(p)
      BY <1>1, <1>3, <2>1, RawFacts
  <2>3. Len(q) \in 1 .. Len(p) - 1
    <3>1. Len(q) \in Nat /\ Len(q) # 0 /\ Len(q) <= Len(p) /\ Len(p) \in Nat
        BY <1>1, <2>1
    <3> QED
        BY <2>2, <3>1
  <2> QED
      BY <2>1, <2>3
<1>4. \A i \in 1 .. Len(p) - 1 : SubSeq(p, 1, i) \in DOMAIN tree /\ tree[SubSeq(p, 1, i)].kind = "dir"
    BY DEF GoodTree
<1>5. Plain(p)
  <2> SUFFICES ASSUME NEW i \in 1 .. Len(p) PROVE ~IsMount(SubSeq(p, 1, i))
      BY DEF Plain
  <2>1. CASE i = Len(p)
    <3>1. SubSeq(p, 1, i) = p
        BY <1>1, <2>1, RawFacts
    <3> QED
        BY <1>2, <3>1 DEF IsFile, IsMount
  <2>2. CASE i # Len(p)
    <3>1. i \in 1 .. Len(p) - 1
        BY <1>1, <2>2
    <3> QED
        BY <1>4, <3>1 DEF IsMount
  <2> QED
      BY <2>1, <2>2
<1>6. ASSUME NEW q \in Raws, Under(p, q) PROVE Plain(q)
  <2> SUFFICES ASSUME NEW i \in 1 .. Len(q) PROVE ~IsMount(SubSeq(q, 1, i))
      BY DEF Plain
  <2>1. Len(q) \in Nat /\ Len(q) <= Len(p) /\ SubSeq(p, 1, Len(q)) = q
      BY <1>1, <1>6, RawFacts, UnderFacts
  <2>2. i \in 1 .. Len(p) /\ i \in 0 .. Len(p) /\ i \in 0 .. Len(q)
    <3>1. Len(q) \in Nat /\ Len(q) <= Len(p)
        BY <2>1
    <3> QED
        BY <1>1, <3>1
  <2>3. SubSeq(q, 1, i) = SubSeq(p, 1, i)
    <3>1. /\ SubSeq(q, 1, i) \in Raws /\ Len(SubSeq(q, 1, i)) = i
          /\ \A k \in 1 .. i : SubSeq(q, 1, i)[k] = q[k]
        BY <2>2, RawFacts
    <3>2. /\ SubSeq(p, 1, i) \in Raws /\ Len(SubSeq(p, 1, i)) = i
          /\ \A k \in 1 .. i : SubSeq(p, 1, i)[k] = p[k]
        BY <1>1, <2>2, RawFacts
    <3>3. \A k \in 1 .. i : q[k] = p[k]
      <4>1. \A k \in 1 .. Len(q) : q[k] = p[k]
          BY <1>6 DEF Under
      <4> QED
          BY <4>1, <2>1
    <3> QED
        BY <3>1, <3>2, <3>3, RawFacts
  <2> QED
      BY <1>5, <2>2, <2>3 DEF Plain
<1> HIDE DEF above
<1>7. ASSUME NEW q \in Raws, Under(p, q), q # << >>, q # p
      PROVE  /\ q \in DOMAIN tree /\ tree[q].kind = "dir" /\ tree[q].readable /\ Plain(q)
             /\ Last(q) \notin SkipDirs /\ ~Excluded([i \in DOMAIN q |-> Nfc(q[i])])
  <2>1. q \in above
      BY <1>3, <1>7
  <2>2. IsDir(q) /\ IsReadable(q) /\ Last(q) \notin SkipDirs /\ ~Excluded([i \in DOMAIN q |-> Nfc(q[i])])
      BY <1>2, <2>1
  <2> QED
      BY <1>6, <1>7, <2>2 DEF IsDir, IsReadable
<1> QED
    BY <1>1, <1>2, <1>5, <1>7

\* What is expected after a change was expected before, and its path is untouched.
LEMMA ExpectedKept ==
    ASSUME GoodTree, GoodTree', ignored' = ignored, NEW place \in Raws, place \in changed', changed \subseteq changed',
           \A q \in Raws : ~Under(q, place) =>
              (q \in DOMAIN tree' <=> q \in DOMAIN tree) /\ (q \in DOMAIN tree => tree'[q] = tree[q]),
           NEW p \in DOMAIN tree', Expected(p)'
    PROVE  /\ p \in DOMAIN tree /\ p \in Raws /\ Expected(p)
           /\ \A q \in DOMAIN tree : Under(p, q) => tree'[q] = tree[q]
<1>1. p \in Raws /\ Len(p) \in Nat
    BY RawFacts DEF GoodTree
<1>2. ~Under(p, place)
  <2>1. ~IsPrefix(place, p)
      BY DEF Expected, Steady
  <2> QED
      BY <1>1, <2>1, UnderFacts
<1>3. \A q \in Raws : Under(p, q) => ~Under(q, place)
    BY <1>1, <1>2, UnderFacts
<1>4. \A q \in Raws : Under(p, q) =>
         (q \in DOMAIN tree' <=> q \in DOMAIN tree) /\ (q \in DOMAIN tree => tree'[q] = tree[q])
    BY <1>3
<1>5. Under(p, p)
    BY <1>1, UnderFacts
<1>6. p \in DOMAIN tree /\ tree'[p] = tree[p]
    BY <1>1, <1>4, <1>5
<1>7. Steady(p)
    BY DEF Expected, Steady
<1> DEFINE above == {SubSeq(p, 1, i) : i \in 1 .. Len(p) - 1}
<1>8. /\ IsFile(p)' /\ tree'[p].readable
      /\ \A dir \in above : IsDir(dir)' /\ IsReadable(dir)' /\ Last(dir) \notin SkipDirs
      /\ \A q \in above \cup {p} : ~Excluded([i \in DOMAIN q |-> Nfc(q[i])])'
    BY DEF Expected, Walkable
<1>9. \A q \in above : q \in Raws /\ Under(p, q)
  <2> SUFFICES ASSUME NEW i \in 1 .. Len(p) - 1 PROVE SubSeq(p, 1, i) \in Raws /\ Under(p, SubSeq(p, 1, i))
      OBVIOUS
  <2> DEFINE q == SubSeq(p, 1, i)
  <2>1. i \in 0 .. Len(p) /\ i <= Len(p)
      BY <1>1
  <2>2. q \in Raws /\ Len(q) = i
      BY <1>1, <2>1, RawFacts
  <2> HIDE DEF q
  <2>3. SubSeq(p, 1, Len(q)) = q
      BY <2>2 DEF q
  <2>4. Under(p, q)
      BY <1>1, <2>1, <2>2, <2>3, UnderFacts
  <2> QED
      BY <2>2, <2>4 DEF q
<1> HIDE DEF above
<1>10. \A dir \in above : IsDir(dir) /\ IsReadable(dir)
  <2> TAKE dir \in above
  <2>1. dir = << >> \/ ((dir \in DOMAIN tree' <=> dir \in DOMAIN tree) /\ tree'[dir] = tree[dir])
      BY <1>4, <1>8, <1>9 DEF IsDir
  <2>2. IsDir(dir)' /\ IsReadable(dir)'
      BY <1>8
  <2> QED
      BY <2>1, <2>2 DEF IsDir, IsReadable
<1>11. \A q \in above \cup {p} : ~Excluded([i \in DOMAIN q |-> Nfc(q[i])])
    BY <1>8 DEF Excluded, Ignored
<1>12. IsFile(p) /\ tree[p].readable
    BY <1>6, <1>8 DEF IsFile
<1>13. Walkable(p)
    BY <1>8, <1>10, <1>11, <1>12 DEF Walkable, above
<1>14. \A q \in DOMAIN tree : Under(p, q) => tree'[q] = tree[q]
    BY <1>4 DEF GoodTree
<1> QED
    BY <1>1, <1>6, <1>7, <1>13, <1>14 DEF Expected

Top == Last(frames)
NextIndex == Min(DOMAIN Top.left)
Later == DOMAIN Top.left \ {NextIndex}
Child == Append(Top.raw, Sorted[NextIndex])
Rest == IF Later = {} THEN Front(frames) ELSE Append(Front(frames), Frame(Top.rel, Top.raw, [i \in Later |-> Top.left[i]]))

LEMMA TopIs ==
    ASSUME NEW m \in Raws, GoodFrames(frames, m), frames # << >>
    PROVE  /\ Len(frames) \in DOMAIN frames /\ Top = frames[Len(frames)] /\ Top \in FrameTypes /\ GoodFrame(Top, m)
           /\ Top.raw \in Raws /\ Top.rel = Top.raw
           /\ NextIndex \in DOMAIN Top.left /\ NextIndex \in 1 .. 6 /\ Sorted[NextIndex] \in Names
           /\ \A k \in DOMAIN Top.left : k \in 1 .. 6 /\ NextIndex <= k
           /\ Child \in Raws /\ Ahead(Top, Child) /\ ToCome(Child)
<1>1. /\ frames \in Seq(FrameTypes) /\ Len(frames) \in DOMAIN frames /\ Top = frames[Len(frames)]
    BY DEF GoodFrames, Top, Last
<1>2. Top \in FrameTypes /\ GoodFrame(Top, m)
    BY <1>1 DEF GoodFrames
<1>3. DOMAIN Top.left \in SUBSET (1 .. 6) /\ DOMAIN Top.left # {} /\ Top.rel = Top.raw
    BY <1>2 DEF GoodFrame
<1>4. Top.raw \in Raws
    BY <1>2 DEF FrameTypes
<1>5. NextIndex \in DOMAIN Top.left /\ \A k \in DOMAIN Top.left : NextIndex <= k
    BY <1>3, EndsOfPlaces DEF NextIndex
<1>6. NextIndex \in 1 .. 6 /\ Sorted[NextIndex] \in Names
    BY <1>3, <1>5, SortedNames
<1>7. /\ Child \in Raws /\ Len(Child) = Len(Top.raw) + 1 /\ Child[Len(Top.raw) + 1] = Sorted[NextIndex]
      /\ Len(Top.raw) \in Nat /\ \A i \in 1 .. Len(Top.raw) : Child[i] = Top.raw[i]
    BY <1>4, <1>6, OneMore DEF Child
<1>8. Ahead(Top, Child)
  <2>1. Under(Child, Top.raw)
      BY <1>7 DEF Under
  <2> QED
      BY <1>5, <1>7, <2>1 DEF Ahead
<1>9. ToCome(Child)
    BY <1>1, <1>8 DEF ToCome, ToComeIn
<1> QED
    BY <1>1, <1>2, <1>3, <1>4, <1>5, <1>6, <1>7, <1>8, <1>9

LEMMA RestIs ==
    ASSUME NEW m \in Raws, GoodFrames(frames, m), frames # << >>
    PROVE  /\ Rest \in Seq(FrameTypes) /\ Len(frames) \in Nat
           /\ \A j \in DOMAIN Rest :
                \/ j \in 1 .. Len(frames) - 1 /\ Rest[j] = frames[j]
                \/ /\ j = Len(frames) /\ Rest[j].rel = Top.rel /\ Rest[j].raw = Top.raw
                   /\ DOMAIN Rest[j].left = Later /\ Later # {} /\ \A k \in Later : Rest[j].left[k] = Top.left[k]
           /\ \A j \in 1 .. Len(frames) - 1 : j \in DOMAIN Rest /\ Rest[j] = frames[j]
           /\ Later # {} => Len(frames) \in DOMAIN Rest /\ Rest[Len(frames)].raw = Top.raw
                            /\ DOMAIN Rest[Len(frames)].left = Later
                            /\ \A k \in Later : Rest[Len(frames)].left[k] = Top.left[k]
           /\ Len(Rest) <= Len(frames)
<1> DEFINE n == Len(frames)
           f == Frame(Top.rel, Top.raw, [i \in Later |-> Top.left[i]])
           front == Front(frames)
<1>1. frames \in Seq(FrameTypes) /\ n \in Nat /\ n # 0
    BY DEF GoodFrames
<1>2. front \in Seq(FrameTypes) /\ Len(front) = n - 1 /\ \A j \in 1 .. n - 1 : front[j] = frames[j]
    BY <1>1 DEF Front
<1>3. f.rel = Top.rel /\ f.raw = Top.raw /\ f.left = [i \in Later |-> Top.left[i]]
    BY DEF Frame
<1>4. Top \in FrameTypes
    BY TopIs
<1>5. f \in FrameTypes
  <2>1. Top.rel \in Raws /\ Top.raw \in Raws /\ Top.left \in Listings
      BY <1>4 DEF FrameTypes
  <2>2. PICK D \in SUBSET (1 .. 6) : Top.left \in [D -> Kinds]
      BY <2>1 DEF Listings
  <2>3. Later \in SUBSET (1 .. 6) /\ [i \in Later |-> Top.left[i]] \in [Later -> Kinds]
      BY <2>2 DEF Later
  <2>4. [i \in Later |-> Top.left[i]] \in Listings
      BY <2>3 DEF Listings
  <2> QED
      BY <2>1, <2>4 DEF FrameTypes, Frame
<1>6. Rest = IF Later = {} THEN front ELSE Append(front, f)
    BY DEF Rest
<1> HIDE DEF f, front, n
<1>7. CASE Later = {}
    BY <1>1, <1>2, <1>6, <1>7 DEF n
<1>8. CASE Later # {}
  <2> DEFINE a == Append(front, f)
  <2>1. a \in Seq(FrameTypes) /\ Len(a) = n /\ a[n] = f /\ \A j \in 1 .. n - 1 : a[j] = front[j]
      BY <1>1, <1>2, <1>5
  <2>2. Rest = a
      BY <1>6, <1>8
  <2> HIDE DEF a
  <2>3. DOMAIN a = 1 .. n
      BY <2>1
  <2>4. f.rel = Top.rel /\ f.raw = Top.raw /\ DOMAIN f.left = Later /\ \A k \in Later : f.left[k] = Top.left[k]
      BY <1>3
  <2>5. \A j \in 1 .. n : j = n \/ j \in 1 .. n - 1
      BY <1>1
  <2>6. n \in 1 .. n /\ \A j \in 1 .. n - 1 : j \in 1 .. n
      BY <1>1
  <2>7. \A j \in 1 .. n : \/ j \in 1 .. n - 1 /\ a[j] = frames[j]
                         \/ /\ j = n /\ a[j].rel = Top.rel /\ a[j].raw = Top.raw
                            /\ DOMAIN a[j].left = Later /\ Later # {} /\ \A k \in Later : a[j].left[k] = Top.left[k]
    <3> TAKE j \in 1 .. n
    <3>1. CASE j = n
        BY <1>8, <2>1, <2>4, <3>1
    <3>2. CASE j \in 1 .. n - 1
        BY <1>2, <2>1, <3>2
    <3> QED
        BY <2>5, <3>1, <3>2
  <2>8. \A j \in 1 .. n - 1 : j \in DOMAIN a /\ a[j] = frames[j]
      BY <1>2, <2>1, <2>3, <2>6
  <2>9. n \in DOMAIN a /\ a[n].raw = Top.raw /\ DOMAIN a[n].left = Later /\ \A k \in Later : a[n].left[k] = Top.left[k]
      BY <2>1, <2>3, <2>4, <2>6
  <2>10. Len(a) <= n
      BY <1>1, <2>1
  <2>11. \A j \in DOMAIN Rest :
            \/ j \in 1 .. n - 1 /\ Rest[j] = frames[j]
            \/ /\ j = n /\ Rest[j].rel = Top.rel /\ Rest[j].raw = Top.raw
               /\ DOMAIN Rest[j].left = Later /\ Later # {} /\ \A k \in Later : Rest[j].left[k] = Top.left[k]
      BY <2>2, <2>3, <2>7
  <2>12. Rest \in Seq(FrameTypes) /\ n \in Nat /\ Len(Rest) <= n
      BY <1>1, <2>1, <2>2, <2>10
  <2>13. \A j \in 1 .. n - 1 : j \in DOMAIN Rest /\ Rest[j] = frames[j]
      BY <2>2, <2>8
  <2>14. /\ n \in DOMAIN Rest /\ Rest[n].raw = Top.raw
         /\ DOMAIN Rest[n].left = Later /\ \A k \in Later : Rest[n].left[k] = Top.left[k]
      BY <2>2, <2>9
  <2> QED
      BY <2>11, <2>12, <2>13, <2>14 DEF n
<1> QED
    BY <1>7, <1>8

LEMMA AheadOf ==
    ASSUME NEW f \in FrameTypes, NEW p \in Raws, NEW q \in Raws, Under(p, q)
    PROVE  /\ Ahead(f, p) /\ Len(q) > Len(f.raw) => Ahead(f, q)
           /\ Ahead(f, q) => Ahead(f, p)
<1>1. f.raw \in Raws
    BY DEF FrameTypes
<1>2. Len(p) \in Nat /\ Len(q) \in Nat /\ Len(f.raw) \in Nat /\ Len(q) <= Len(p) /\ \A i \in 1 .. Len(q) : p[i] = q[i]
    BY <1>1, RawFacts DEF Under
<1>3. ASSUME Len(q) > Len(f.raw) PROVE p[Len(f.raw) + 1] = q[Len(f.raw) + 1]
  <2>1. Len(f.raw) + 1 \in 1 .. Len(q)
      BY <1>2, <1>3
  <2> QED
      BY <1>2, <2>1
<1>4. ASSUME Len(q) > Len(f.raw), Under(p, f.raw) PROVE Under(q, f.raw)
  <2>1. Len(f.raw) <= Len(q)
      BY <1>2, <1>4
  <2> QED
      BY <1>1, <1>4, <2>1, UnderFacts
<1>5. Under(q, f.raw) => Under(p, f.raw)
    BY <1>1, UnderFacts
<1>6. Len(q) > Len(f.raw) => Len(p) > Len(f.raw)
    BY <1>2
<1> QED
    BY <1>3, <1>4, <1>5, <1>6 DEF Ahead

\* What is left once a child is taken: nothing at or below the child is ahead.
LEMMA RestAhead ==
    ASSUME NEW m \in Raws, GoodFrames(frames, m), frames # << >>, NEW p \in Raws, ToComeIn(Rest, p)
    PROVE  ToCome(p) /\ ~Under(p, Child)
<1> DEFINE n == Len(frames)
           l == Len(Top.raw)
<1>1. /\ n \in DOMAIN frames /\ Top = frames[n] /\ Top \in FrameTypes /\ Top.raw \in Raws
      /\ NextIndex \in 1 .. 6 /\ Sorted[NextIndex] \in Names /\ Child \in Raws
      /\ \A k \in DOMAIN Top.left : k \in 1 .. 6
    BY TopIs
<1>2. /\ Len(Child) = l + 1 /\ Child[l + 1] = Sorted[NextIndex] /\ l \in Nat
      /\ \A i \in 1 .. l : Child[i] = Top.raw[i]
    BY <1>1, OneMore DEF Child
<1>3. PICK j \in DOMAIN Rest : Ahead(Rest[j], p)
    BY DEF ToComeIn
<1>4. frames \in Seq(FrameTypes) /\ n \in Nat
    BY DEF GoodFrames
<1>5. Under(Child, Top.raw)
    BY <1>2 DEF Under
<1> HIDE DEF n, l
<1>6. CASE j \in 1 .. n - 1 /\ Rest[j] = frames[j]
  <2>1. j \in DOMAIN frames /\ j < n /\ frames[j] \in FrameTypes
      BY <1>4, <1>6 DEF n
  <2>2. Ahead(frames[j], p) /\ ToCome(p)
      BY <1>3, <1>6, <2>1 DEF ToCome, ToComeIn
  <2>3. Len(frames[j].raw) < Len(Top.raw) /\ ~Ahead(frames[j], Top.raw)
      BY <1>1, <2>1 DEF GoodFrames
  <2>4. ~Under(p, Top.raw)
      BY <1>1, <2>1, <2>2, <2>3, AheadOf
  <2> QED
      BY <1>1, <1>5, <2>2, <2>4, UnderFacts
<1>7. CASE j = n /\ Rest[j].raw = Top.raw /\ DOMAIN Rest[j].left = Later
  <2>1. Len(p) > l /\ Under(p, Top.raw) /\ \E k \in Later : Sorted[k] = p[l + 1]
      BY <1>3, <1>7 DEF Ahead, l
  <2>2. PICK k \in Later : Sorted[k] = p[l + 1]
      BY <2>1
  <2>3. k \in DOMAIN Top.left /\ k # NextIndex
      BY DEF Later
  <2>4. Ahead(Top, p)
      BY <2>1, <2>2, <2>3 DEF Ahead, l
  <2>5. Sorted[k] # Sorted[NextIndex]
      BY <1>1, <2>3, SortedNames
  <2>6. l + 1 \in 1 .. Len(Child)
      BY <1>2
  <2>7. ~Under(p, Child)
      BY <1>2, <2>2, <2>5, <2>6 DEF Under
  <2> QED
      BY <1>1, <2>4, <2>7 DEF ToCome, ToComeIn
<1> QED
    BY <1>6, <1>7, RestIs DEF n

LEMMA RestGood ==
    ASSUME NEW m \in Raws, GoodFrames(frames, m), frames # << >>
    PROVE  /\ GoodFrames(Rest, m)
           /\ \A j \in DOMAIN Rest : Len(Rest[j].raw) < Len(Child) /\ Under(Child, Rest[j].raw) /\ ~Ahead(Rest[j], Child)
           /\ RootIsFirst => \A j \in DOMAIN Rest : Rest[j].raw = << >> => 1 \notin DOMAIN Rest[j].left
<1> DEFINE n == Len(frames)
<1>1. /\ n \in DOMAIN frames /\ Top = frames[n] /\ Top \in FrameTypes /\ Top.raw \in Raws
      /\ NextIndex \in 1 .. 6 /\ Sorted[NextIndex] \in Names /\ Child \in Raws /\ GoodFrame(Top, m) /\ Top.rel = Top.raw
      /\ \A k \in DOMAIN Top.left : k \in 1 .. 6 /\ NextIndex <= k
    BY TopIs
<1>2. /\ Len(Child) = Len(Top.raw) + 1 /\ Len(Top.raw) \in Nat /\ \A i \in 1 .. Len(Top.raw) : Child[i] = Top.raw[i]
    BY <1>1, OneMore DEF Child
<1>3. Under(Child, Top.raw) /\ Under(Child, Child)
    BY <1>1, <1>2, UnderFacts DEF Under
<1>4. frames \in Seq(FrameTypes) /\ n \in Nat
    BY DEF GoodFrames
<1> HIDE DEF n
<1>5. /\ Rest \in Seq(FrameTypes)
      /\ \A j \in DOMAIN Rest :
           \/ j \in 1 .. n - 1 /\ Rest[j] = frames[j]
           \/ /\ j = n /\ Rest[j].rel = Top.rel /\ Rest[j].raw = Top.raw
              /\ DOMAIN Rest[j].left = Later /\ Later # {} /\ \A k \in Later : Rest[j].left[k] = Top.left[k]
    BY RestIs DEF n
<1>6. \A j \in 1 .. n - 1 : /\ j \in DOMAIN frames /\ j < n /\ frames[j] \in FrameTypes /\ GoodFrame(frames[j], m)
                            /\ Len(frames[j].raw) < Len(Top.raw) /\ Under(Top.raw, frames[j].raw) /\ ~Ahead(frames[j], Top.raw)
  <2>1. \A j \in 1 .. n - 1 : j \in DOMAIN frames /\ j < n /\ frames[j] \in FrameTypes
      BY <1>4 DEF n
  <2> QED
      BY <1>1, <2>1 DEF GoodFrames
<1>7. ASSUME NEW j \in DOMAIN Rest PROVE GoodFrame(Rest[j], m)
  <2>1. CASE j \in 1 .. n - 1 /\ Rest[j] = frames[j]
      BY <1>6, <2>1
  <2>2. CASE /\ j = n /\ Rest[j].rel = Top.rel /\ Rest[j].raw = Top.raw
             /\ DOMAIN Rest[j].left = Later /\ Later # {} /\ \A k \in Later : Rest[j].left[k] = Top.left[k]
    <3>1. Later \subseteq DOMAIN Top.left
        BY DEF Later
    <3>2. DOMAIN Rest[j].left \in (SUBSET (1 .. 6)) \ {{}}
        BY <1>1, <2>2, <3>1
    <3> QED
        BY <1>1, <2>2, <3>1, <3>2 DEF GoodFrame
  <2> QED
      BY <1>5, <2>1, <2>2
<1>8. ASSUME NEW j \in DOMAIN Rest, NEW k \in DOMAIN Rest, j < k
      PROVE  Len(Rest[j].raw) < Len(Rest[k].raw) /\ Under(Rest[k].raw, Rest[j].raw) /\ ~Ahead(Rest[j], Rest[k].raw)
  <2>1. j \in 1 .. n - 1 /\ Rest[j] = frames[j]
    <3>1. j # n
      <4>1. k = n \/ k \in 1 .. n - 1
          BY <1>5
      <4>2. j \in Nat /\ k \in Nat
          BY <1>5
      <4> QED
          BY <1>4, <1>8, <4>1, <4>2
    <3> QED
        BY <1>5, <3>1
  <2>2. CASE k \in 1 .. n - 1 /\ Rest[k] = frames[k]
      BY <1>6, <1>8, <2>1, <2>2 DEF GoodFrames
  <2>3. CASE k = n /\ Rest[k].raw = Top.raw
      BY <1>6, <2>1, <2>3
  <2> QED
      BY <1>5, <2>2, <2>3
<1>9. GoodFrames(Rest, m)
    BY <1>5, <1>7, <1>8 DEF GoodFrames
<1>10. ASSUME NEW j \in DOMAIN Rest
       PROVE  Len(Rest[j].raw) < Len(Child) /\ Under(Child, Rest[j].raw) /\ ~Ahead(Rest[j], Child)
  <2>1. ~Ahead(Rest[j], Child)
      BY <1>1, <1>3, RestAhead DEF ToComeIn
  <2>2. CASE j \in 1 .. n - 1 /\ Rest[j] = frames[j]
    <3>1. frames[j].raw \in Raws /\ Len(frames[j].raw) \in Nat
        BY <1>6, <2>2, RawFacts DEF FrameTypes
    <3>2. Under(Child, frames[j].raw)
        BY <1>1, <1>3, <1>6, <2>2, <3>1, UnderFacts
    <3>3. Len(frames[j].raw) < Len(Child)
        BY <1>2, <1>6, <2>2, <3>1
    <3> QED
        BY <2>1, <2>2, <3>2, <3>3
  <2>3. CASE Rest[j].raw = Top.raw
    <3>1. Len(Top.raw) < Len(Child)
        BY <1>2
    <3> QED
        BY <1>3, <2>1, <2>3, <3>1
  <2> QED
      BY <1>5, <2>2, <2>3
<1>11. ASSUME RootIsFirst, NEW j \in DOMAIN Rest, Rest[j].raw = << >>, 1 \in DOMAIN Rest[j].left PROVE FALSE
  <2>1. CASE j \in 1 .. n - 1 /\ Rest[j] = frames[j]
    <3>1. n = 1
        BY <1>6, <1>11, <2>1 DEF RootIsFirst, n
    <3> QED
        BY <2>1, <3>1
  <2>2. CASE DOMAIN Rest[j].left = Later
    <3>1. 1 \in DOMAIN Top.left /\ 1 # NextIndex /\ NextIndex <= 1
        BY <1>1, <1>11, <2>2 DEF Later
    <3> QED
        BY <1>1, <3>1
  <2> QED
      BY <1>5, <2>1, <2>2
<1> QED
    BY <1>9, <1>10, <1>11

\* A directory is entered: its frame goes on top.
LEMMA PushGood ==
    ASSUME NEW m \in Raws, NEW fs, GoodFrames(fs, m), NEW f \in FrameTypes, GoodFrame(f, m),
           \A j \in DOMAIN fs : Len(fs[j].raw) < Len(f.raw) /\ Under(f.raw, fs[j].raw) /\ ~Ahead(fs[j], f.raw)
    PROVE  /\ GoodFrames(Append(fs, f), m) /\ Len(fs) \in Nat
           /\ \A p : ToComeIn(Append(fs, f), p) => ToComeIn(fs, p) \/ Ahead(f, p)
           /\ DOMAIN Append(fs, f) = 1 .. Len(fs) + 1 /\ DOMAIN fs = 1 .. Len(fs)
           /\ Append(fs, f)[Len(fs) + 1] = f /\ \A j \in DOMAIN fs : Append(fs, f)[j] = fs[j]
<1> DEFINE n == Len(fs)
           a == Append(fs, f)
<1>1. fs \in Seq(FrameTypes) /\ n \in Nat /\ DOMAIN fs = 1 .. n
    BY DEF GoodFrames
<1>2. a \in Seq(FrameTypes) /\ DOMAIN a = 1 .. n + 1 /\ a[n + 1] = f /\ \A j \in 1 .. n : a[j] = fs[j]
    BY <1>1
<1> HIDE DEF a, n
<1>3. \A j \in 1 .. n + 1 : j = n + 1 \/ j \in 1 .. n
    BY <1>1
<1>4. \A j \in DOMAIN a : GoodFrame(a[j], m)
  <2> TAKE j \in DOMAIN a
  <2>1. CASE j = n + 1
      BY <1>2, <2>1
  <2>2. CASE j \in 1 .. n
      BY <1>1, <1>2, <2>2 DEF GoodFrames
  <2> QED
      BY <1>2, <1>3, <2>1, <2>2
<1>5. ASSUME NEW j \in DOMAIN a, NEW k \in DOMAIN a, j < k
      PROVE  Len(a[j].raw) < Len(a[k].raw) /\ Under(a[k].raw, a[j].raw) /\ ~Ahead(a[j], a[k].raw)
  <2>1. j \in 1 .. n
      BY <1>1, <1>2, <1>5
  <2>2. CASE k = n + 1
      BY <1>1, <1>2, <2>1, <2>2
  <2>3. CASE k \in 1 .. n
      BY <1>1, <1>2, <1>5, <2>1, <2>3 DEF GoodFrames
  <2> QED
      BY <1>2, <1>3, <2>2, <2>3
<1>6. GoodFrames(a, m)
    BY <1>2, <1>4, <1>5 DEF GoodFrames
<1>7. \A p : ToComeIn(a, p) => ToComeIn(fs, p) \/ Ahead(f, p)
  <2> SUFFICES ASSUME NEW p, NEW j \in DOMAIN a, Ahead(a[j], p) PROVE ToComeIn(fs, p) \/ Ahead(f, p)
      BY DEF ToComeIn
  <2>1. CASE j = n + 1
      BY <1>2, <2>1
  <2>2. CASE j \in 1 .. n
      BY <1>1, <1>2, <2>2 DEF ToComeIn
  <2> QED
      BY <1>2, <1>3, <2>1, <2>2
<1> QED
    BY <1>1, <1>2, <1>6, <1>7 DEF a, n

\* The code was not met yet, and it may be met by any path.
LEMMA MountLater ==
    ASSUME NEW fs, GoodFrames(fs, << >>), NEW m \in Raws
    PROVE  GoodFrames(fs, m)
<1>1. \A p : Leads(<< >>, p) => Leads(m, p)
    BY AnyMount
<1>2. Code # << >>
    BY DEF Code
<1>3. ASSUME NEW f, GoodFrame(f, << >>) PROVE GoodFrame(f, m)
    BY <1>1, <1>2, <1>3 DEF GoodFrame
<1> QED
    BY <1>3 DEF GoodFrames

\* Resolution looks at nothing but the tree.
AtLaw ==
    \A p \in Raws : \A h :
       h[0] = << >> /\ (\A i \in 1 .. Len(p) : h[i] = Mounted(Append(h[i - 1], p[i]))) => At(p) = h[Len(p)]

LEMMA AtAlways == AtLaw
BY AtIs DEF AtLaw

LEMMA SameTree ==
    ASSUME tree' = tree
    PROVE  /\ \A p \in Raws : At(p)' = At(p)
           /\ \A m, p : Leads(m, p)' <=> Leads(m, p)
<1>1. AtLaw'
    BY AtAlways, PTL
<1>2. \A p : Mounted(p)' = Mounted(p)
    BY DEF Mounted
<1>3. ASSUME NEW p \in Raws PROVE At(p)' = At(p)
  <2>1. PICK h : h[0] = << >> /\ \A i \in 1 .. Len(p) : h[i] = Mounted(Append(h[i - 1], p[i]))
      BY AtExists
  <2>2. At(p) = h[Len(p)]
      BY <2>1, AtIs
  <2>3. \A i \in 1 .. Len(p) : h[i] = Mounted(Append(h[i - 1], p[i]))'
      BY <1>2, <2>1
  <2>4. At(p)' = h[Len(p)]
      BY <1>1, <2>1, <2>3 DEF AtLaw
  <2> QED
      BY <2>2, <2>4
<1>4. \A m, p : Leads(m, p)' <=> Leads(m, p)
    BY DEF Leads, Plain, Through, IsMount
<1> QED
    BY <1>3, <1>4

\* The frames stay good as long as paths lead where they did.
LEMMA FramesKept ==
    ASSUME NEW m \in Raws, NEW fs, GoodFrames(fs, m), \A p \in Raws : Leads(m, p) => Leads(m, p)',
           changed' = {} => changed = {} /\ tree' = tree
    PROVE  GoodFrames(fs, m)'
<1>1. ASSUME NEW j \in DOMAIN fs PROVE GoodFrame(fs[j], m)'
  <2> DEFINE f == fs[j]
  <2>1. f \in FrameTypes /\ GoodFrame(f, m) /\ f.raw \in Raws
    <3>1. fs[j] \in FrameTypes
        BY DEF GoodFrames
    <3> QED
        BY <3>1 DEF GoodFrames, FrameTypes
  <2> HIDE DEF f
  <2>2. \A k \in DOMAIN f.left : Sorted[k] \in Names /\ Append(f.raw, Sorted[k]) \in Raws
    <3>1. \A k \in DOMAIN f.left : Sorted[k] \in Names
        BY <2>1, SortedNames DEF GoodFrame
    <3> QED
        BY <2>1, <3>1, OneMore
  <2>3. ASSUME changed' = {} PROVE \A k \in DOMAIN f.left : tree'[Append(At(f.raw)', Sorted[k])].kind = f.left[k]
    <3>1. changed = {} /\ tree' = tree /\ At(f.raw)' = At(f.raw)
        BY <2>1, <2>3, SameTree
    <3>2. \A k \in DOMAIN f.left : tree[Append(At(f.raw), Sorted[k])].kind = f.left[k]
        BY <2>1, <3>1 DEF GoodFrame
    <3> QED
        BY <3>1, <3>2
  <2>4. Leads(m, f.raw)' /\ \A k \in DOMAIN f.left : f.left[k] # "mount" => Leads(m, Append(f.raw, Sorted[k]))'
      BY <2>1, <2>2 DEF GoodFrame
  <2>5. GoodFrame(f, m)'
      BY <2>1, <2>3, <2>4 DEF GoodFrame
  <2> QED
      BY <2>5 DEF f
<1> QED
    BY <1>1 DEF GoodFrames

LEMMA CodeIs ==
    /\ Code \in Raws /\ Len(Code) = 1 /\ Code[1] = "code" /\ Code # << >>
    /\ \A p \in Raws : p # << >> /\ Under(Code, p) => p = Code
<1>1. Code \in Raws /\ Len(Code) = 1 /\ Code[1] = "code" /\ Code # << >>
    BY DEF Code, Raws, Names
<1>2. ASSUME NEW p \in Raws, p # << >>, Under(Code, p) PROVE p = Code
  <2>1. Len(p) = 1
    <3> DEFINE l == Len(p)
    <3>1. l \in Nat /\ l # 0 /\ l <= 1
        BY <1>1, <1>2, RawFacts DEF Under
    <3> HIDE DEF l
    <3>2. l = 1
        BY <3>1
    <3> QED
        BY <3>2 DEF l
  <2>2. p[1] = "code"
      BY <1>1, <1>2, <2>1 DEF Under
  <2> QED
      BY <1>1, <2>1, <2>2, RawFacts
<1> QED
    BY <1>1, <1>2

LEMMA UnderTop ==
    ASSUME NEW m \in Raws, GoodFrames(frames, m), frames # << >>, Under(Child, Code)
    PROVE  Child = Code \/ m = Code
<1>1. Top.raw \in Raws /\ Child \in Raws /\ GoodFrame(Top, m) /\ Sorted[NextIndex] \in Names
    BY TopIs
<1>2. Len(Child) = Len(Top.raw) + 1 /\ Len(Top.raw) \in Nat /\ \A i \in 1 .. Len(Top.raw) : Child[i] = Top.raw[i]
    BY <1>1, OneMore DEF Child
<1>3. CASE Len(Top.raw) = 0
  <2>1. Len(Child) = 1 /\ Child[1] = "code"
      BY <1>2, <1>3, CodeIs DEF Under
  <2> QED
      BY <1>1, <2>1, CodeIs, RawFacts
<1>4. CASE Len(Top.raw) # 0
  <2>1. 1 \in 1 .. Len(Top.raw) /\ Len(Code) <= Len(Top.raw)
      BY <1>2, <1>4, CodeIs
  <2>2. Top.raw[1] = "code"
    <3>1. Child[1] = "code"
        BY CodeIs DEF Under
    <3> QED
        BY <1>2, <2>1, <3>1
  <2>3. Under(Top.raw, Code)
      BY <2>1, <2>2, CodeIs DEF Under
  <2> QED
      BY <1>1, <2>3 DEF GoodFrame
<1> QED
    BY <1>3, <1>4

\* The place of a child that was not seen: the child itself, or the code by its
\* mount; n is the mount from here on.
LEMMA ChildPlace ==
    ASSUME GoodTree, NEW m \in Raws, GoodFrames(frames, m), frames # << >>,
           << >> \in seen, Code \in seen <=> m # << >>, At(Child) \notin seen, IsDir(At(Child))
    PROVE  \E n \in Raws :
              /\ n = m \/ m = << >>
              /\ Leads(n, Child) /\ (At(Child) = Child \/ (n # << >> /\ Under(Child, n) /\ At(Child) = Via(n, Child)))
              /\ Code \in seen \cup {At(Child)} <=> n # << >>
              /\ Under(Child, Code) => n = Code
<1> DEFINE name == Sorted[NextIndex]
           a == Append(At(Top.raw), name)
<1>1. Top.raw \in Raws /\ Child \in Raws /\ GoodFrame(Top, m) /\ name \in Names /\ Leads(m, Top.raw)
    BY TopIs DEF GoodFrame
<1>2. /\ At(Top.raw) \in Raws
      /\ (Plain(Top.raw) /\ At(Top.raw) = Top.raw) \/ (Through(m, Top.raw) /\ At(Top.raw) = Via(m, Top.raw))
      /\ ~IsMount(a) => Leads(m, Child) /\ At(Child) = a
    BY <1>1, LeadsTo DEF Child
<1>3. At(Child) = Mounted(a)
    BY <1>1, AtStep DEF Child
<1>4. Child # << >>
    BY <1>1, OneMore DEF Child
<1> HIDE DEF name, a
<1>5. IsMount(a) => Mounted(a) = tree[a].to /\ tree[a].to \in {<< >>, Code} /\ (a = Code => tree[a].to = << >>)
    BY DEF IsMount, Mounted, GoodTree
<1>6. Leads(m, Child) => (At(Child) = Child \/ (m # << >> /\ Under(Child, m) /\ At(Child) = Via(m, Child)))
    BY <1>1, LeadsTo DEF Through
<1>7. ASSUME Plain(Top.raw), At(Top.raw) = Top.raw PROVE a = Child
    BY <1>7 DEF a, Child, name
<1>8. CASE m # << >>
  <2>1. ~IsMount(a)
      BY <1>3, <1>5, <1>8
  <2>2. Leads(m, Child)
      BY <1>2, <2>1
  <2>3. ASSUME Child = Code PROVE FALSE
    <3>1. CASE Plain(Child)
      <4>1. At(Child) = Code
          BY <1>1, <2>3, <3>1, PlainAt
      <4> QED
          BY <1>8, <4>1
    <3>2. CASE Through(m, Child)
      <4>1. m = Code
          BY <1>8, <2>3, <3>2, CodeIs DEF Through
      <4> QED
          BY <3>2, <4>1, CodeIs DEF Through, GoodTree, IsMount
    <3> QED
        BY <2>2, <3>1, <3>2 DEF Leads
  <2>4. Under(Child, Code) => m = Code
      BY <2>3, UnderTop
  <2> QED
      BY <1>6, <1>8, <2>2, <2>4
<1>9. CASE m = << >>
  <2>1. Plain(Top.raw) /\ At(Top.raw) = Top.raw /\ a = Child
      BY <1>2, <1>7, <1>9 DEF Through
  <2>2. Under(Child, Code) => Child = Code
      BY <1>9, UnderTop, CodeIs
  <2>3. CASE IsMount(a)
    <3>1. At(Child) = Code /\ tree[Child].to = Code /\ IsMount(Child) /\ Child # Code
        BY <1>3, <1>5, <2>1, <2>3, CodeIs
    <3>2. Under(Child, Child) /\ Via(Child, Child) = Code
        BY <1>1, <1>4, UnderFacts, ViaFacts
    <3>3. Plain(Code)
      <4>1. tree[Code].kind = "dir"
          BY <3>1, CodeIs DEF IsDir
      <4>2. SubSeq(Code, 1, 1) = Code
          BY CodeIs, RawFacts
      <4>3. \A i \in 1 .. Len(Code) : i = 1
          BY CodeIs
      <4> QED
          BY <4>1, <4>2, <4>3 DEF Plain, IsMount
    <3>4. \A i \in 1 .. Len(Child) - 1 : ~IsMount(SubSeq(Child, 1, i))
      <4>1. /\ Len(Child) = Len(Top.raw) + 1 /\ Len(Top.raw) \in Nat
            /\ \A i \in 1 .. Len(Top.raw) : SubSeq(Child, 1, i) = SubSeq(Top.raw, 1, i)
          BY <1>1, OneMore DEF Child, name
      <4>2. \A i \in 1 .. Len(Child) - 1 : i \in 1 .. Len(Top.raw)
          BY <4>1
      <4> QED
          BY <2>1, <4>1, <4>2 DEF Plain
    <3>5. Leads(Child, Child)
        BY <1>4, <3>1, <3>2, <3>3, <3>4 DEF Leads, Through
    <3> QED
        BY <1>1, <1>4, <1>9, <2>2, <3>1, <3>2, <3>5
  <2>4. CASE ~IsMount(a)
    <3>1. Leads(m, Child) /\ At(Child) = Child
        BY <1>2, <2>1, <2>4
    <3>2. Leads(Code, Child)
        BY <1>9, <3>1, AnyMount
    <3>3. CASE Child = Code
        BY <1>9, <3>1, <3>2, <3>3, CodeIs
    <3>4. CASE Child # Code
        BY <1>9, <2>2, <3>1, <3>4
    <3> QED
        BY <3>3, <3>4
  <2> QED
      BY <2>3, <2>4
<1> QED
    BY <1>8, <1>9

LEMMA ListingIs ==
    ASSUME GoodTree, NEW d \in Raws
    PROVE  /\ DOMAIN Listing(d) \in SUBSET (1 .. 6) /\ Listing(d) \in Listings
           /\ \A k \in 1 .. 6 : k \in DOMAIN Listing(d) <=> Append(d, Sorted[k]) \in DOMAIN tree
           /\ \A k \in DOMAIN Listing(d) :
                /\ Listing(d)[k] = tree[Append(d, Sorted[k])].kind
                /\ Listing(d)[k] \in {"dir", "mount"} <=> Sorted[k] \in Folders
<1> DEFINE D == {k \in DOMAIN Sorted : Append(d, Sorted[k]) \in DOMAIN tree}
<1>1. Listing(d) = [k \in D |-> tree[Append(d, Sorted[k])].kind]
    BY DEF Listing
<1>2. D \in SUBSET (1 .. 6) /\ \A k \in 1 .. 6 : k \in D <=> Append(d, Sorted[k]) \in DOMAIN tree
    BY SortedNames
<1>3. \A k \in D : Append(d, Sorted[k]) \in DOMAIN tree
    OBVIOUS
<1> HIDE DEF D
<1>4. \A k \in D : Last(Append(d, Sorted[k])) = Sorted[k]
  <2>1. \A k \in D : Sorted[k] \in Names
      BY <1>2, SortedNames
  <2> QED
      BY <2>1, OneMore
<1>5. \A k \in D : /\ tree[Append(d, Sorted[k])].kind \in Kinds
                   /\ tree[Append(d, Sorted[k])].kind \in {"dir", "mount"} <=> Sorted[k] \in Folders
    BY <1>3, <1>4 DEF GoodTree, Kinds
<1>6. Listing(d) \in [D -> Kinds]
    BY <1>1, <1>5
<1> QED
    BY <1>1, <1>2, <1>5, <1>6 DEF Listings

\* The frame of a directory that is entered.
LEMMA NewFrame ==
    ASSUME GoodTree, NEW n \in Raws, NEW d \in Raws, d \in Seq({"code", "modules"}), Leads(n, d),
           Under(d, Code) => n = Code, DOMAIN Listing(At(d)) # {}
    PROVE  /\ Frame(d, d, Listing(At(d))) \in FrameTypes /\ GoodFrame(Frame(d, d, Listing(At(d))), n)
           /\ Frame(d, d, Listing(At(d))).raw = d /\ Frame(d, d, Listing(At(d))).left = Listing(At(d))
<1> DEFINE l == Listing(At(d))
           f == Frame(d, d, l)
<1>1. f.rel = d /\ f.raw = d /\ f.left = l
    BY DEF Frame
<1>2. /\ At(d) \in Raws
      /\ \A s \in Names : ~IsMount(Append(At(d), s)) => Leads(n, Append(d, s))
    BY LeadsTo
<1>3. /\ DOMAIN l \in SUBSET (1 .. 6) /\ l \in Listings
      /\ \A k \in DOMAIN l :
           l[k] = tree[Append(At(d), Sorted[k])].kind /\ (l[k] \in {"dir", "mount"} <=> Sorted[k] \in Folders)
    BY <1>2, ListingIs
<1>4. f \in FrameTypes
    BY <1>3 DEF Frame, FrameTypes
<1> HIDE DEF f, l
<1>5. \A k \in DOMAIN l : l[k] # "mount" => Leads(n, Append(d, Sorted[k]))
  <2>1. \A k \in DOMAIN l : Sorted[k] \in Names
      BY <1>3, SortedNames
  <2> QED
      BY <1>2, <1>3, <2>1 DEF IsMount
<1>6. DOMAIN l # {}
    BY DEF l
<1>7. GoodFrame(f, n)
    BY <1>1, <1>3, <1>5, <1>6 DEF GoodFrame
<1> QED
    BY <1>1, <1>4, <1>7 DEF f, l

LEMMA ListingAwaits ==
    ASSUME GoodTree, NEW p \in DOMAIN tree, NEW d \in Raws, Under(p, d), p # d
    PROVE  \E k \in DOMAIN Listing(d) :
              Under(p, Append(d, Sorted[k])) /\ Listing(d)[k] = tree[Append(d, Sorted[k])].kind
<1> DEFINE i == Len(d) + 1
<1>1. p \in Raws /\ Len(p) \in Nat /\ Len(d) \in Nat /\ Len(d) <= Len(p) /\ SubSeq(p, 1, Len(d)) = d /\ SubSeq(p, 1, Len(p)) = p
  <2>1. p \in Raws
      BY DEF GoodTree
  <2> QED
      BY <2>1, RawFacts, UnderFacts
<1>2. Len(d) # Len(p)
    BY <1>1
<1>3. i \in 1 .. Len(p) /\ i \in 0 .. Len(p) /\ i - 1 = Len(d)
  <2>1. Len(p) \in Nat /\ Len(d) \in Nat /\ Len(d) <= Len(p)
      BY <1>1
  <2> QED
      BY <1>2, <2>1
<1> HIDE DEF i
<1>4. p[i] \in Names
    BY <1>1, <1>3, RawFacts
<1>5. PICK k \in 1 .. 6 : Sorted[k] = p[i]
    BY <1>4, SortedNames
<1> DEFINE c == Append(d, Sorted[k])
<1>6. c \in Raws /\ Len(c) = i /\ c[i] = p[i] /\ \A j \in 1 .. Len(d) : c[j] = d[j]
    BY <1>4, <1>5, OneMore DEF i
<1> HIDE DEF c
<1>7. Under(p, c)
  <2>1. ASSUME NEW j \in 1 .. i PROVE p[j] = c[j]
    <3>1. CASE j = i
        BY <1>6, <3>1
    <3>2. CASE j # i
      <4>1. j \in 1 .. Len(d)
          BY <1>1, <1>3, <3>2
      <4> QED
          BY <1>6, <4>1 DEF Under
    <3> QED
        BY <3>1, <3>2
  <2>2. i <= Len(p)
      BY <1>1, <1>3
  <2> QED
      BY <1>6, <2>1, <2>2 DEF Under
<1>8. c = SubSeq(p, 1, i)
    BY <1>1, <1>6, <1>7, UnderFacts
<1>9. c \in DOMAIN tree
  <2>1. CASE i = Len(p)
      BY <1>1, <1>8, <2>1
  <2>2. CASE i # Len(p)
    <3>1. i \in 1 .. Len(p) - 1
      <4>1. Len(p) \in Nat
          BY <1>1
      <4> QED
          BY <1>3, <2>2, <4>1
    <3> QED
        BY <1>8, <3>1 DEF GoodTree
  <2> QED
      BY <2>1, <2>2
<1>10. k \in DOMAIN Listing(d)
    BY <1>9, ListingIs DEF c
<1>11. Listing(d)[k] = tree[c].kind
    BY <1>10, ListingIs DEF c
<1> QED
    BY <1>7, <1>10, <1>11 DEF c

\* Others change the tree: the walk goes on with what it listed.
LEMMA ChangeKeepsWalk ==
    ASSUME GoodTree, GoodTree', NEW place \in Raws, changed' = changed \cup {place},
           UNCHANGED <<ignored, frames, seen, entry, readings>>,
           \A q : IsMount(q)' => IsMount(q) /\ tree'[q] = tree[q],
           \A q \in Raws : ~Under(q, place) =>
              (q \in DOMAIN tree' <=> q \in DOMAIN tree) /\ (q \in DOMAIN tree => tree'[q] = tree[q]),
           NEW m \in Raws, NEW raws \in Seq(Raws), Walked(m, raws), Covered
    PROVE  Walked(m, raws)' /\ Covered'
<1>1. place \in changed' /\ changed' # {} /\ changed \subseteq changed'
    OBVIOUS
<1>2. \A p \in Raws : Leads(m, p) => Leads(m, p)'
    BY LeadsKept
<1>3. \A p : ToCome(p)' <=> ToCome(p)
    BY DEF ToCome, ToComeIn
<1>4. GoodFrames(frames, m)'
  <2>1. GoodFrames(frames, m)
      BY DEF Walked
  <2> SUFFICES ASSUME NEW f, f = frames, GoodFrames(f, m) PROVE GoodFrames(frames, m)'
      BY <2>1
  <2>2. GoodFrames(f, m)'
      BY <1>1, <1>2, FramesKept
  <2>3. frames' = f
      OBVIOUS
  <2> QED
      BY <2>2, <2>3
<1>5. RootIsFirst'
    BY DEF Walked, RootIsFirst
<1>6. GoodSeen(m)'
    BY <1>3 DEF Walked, GoodSeen
<1>7. ASSUME entry' # << >> PROVE GoodEntry(m)'
  <2>1. GoodEntry(m) /\ entry' = entry
      BY <1>7 DEF Walked
  <2> DEFINE raw == entry[2]
  <2>2. raw \in Raws /\ raw' = raw
      BY <2>1 DEF GoodEntry
  <2>3. Leads(m, raw) /\ ~ToCome(raw)
      BY <2>1 DEF GoodEntry
  <2> SUFFICES ASSUME NEW x \in Raws, x = entry[2] PROVE GoodEntry(m)'
      BY <2>2
  <2>4. Leads(m, x)' /\ ~ToCome(x)' /\ entry[2]' = x
      BY <1>2, <1>3, <2>1, <2>3
  <2> QED
      BY <1>1, <2>1, <2>4 DEF GoodEntry
<1>8. GoodReadings(m, raws)'
  <2>1. GoodReadings(m, raws)
      BY DEF Walked
  <2> QED
      BY <1>1, <1>3, <2>1 DEF GoodReadings
<1>9. ASSUME NEW p \in DOMAIN tree', Expected(p)' PROVE Read(p)' \/ Awaited(p)'
  <2>1. p \in DOMAIN tree /\ p \in Raws /\ Expected(p) /\ \A q \in DOMAIN tree : Under(p, q) => tree'[q] = tree[q]
      BY <1>1, <1>9, ExpectedKept
  <2>2. CASE Read(p)
      BY <2>2 DEF Read
  <2>3. CASE entry # << >> /\ entry[2] = p
      BY <2>3 DEF Awaited
  <2>4. ASSUME NEW j \in DOMAIN frames, NEW k \in DOMAIN frames[j].left,
               Under(p, Append(frames[j].raw, Sorted[k])),
               frames[j].left[k] = tree[Append(frames[j].raw, Sorted[k])].kind
        PROVE  Awaited(p)'
    <3> DEFINE child == Append(frames[j].raw, Sorted[k])
    <3>1. frames[j].raw \in Raws /\ Sorted[k] \in Names
      <4>1. frames[j] \in FrameTypes /\ GoodFrame(frames[j], m)
          BY DEF Walked, GoodFrames
      <4> QED
          BY <4>1, SortedNames DEF FrameTypes, GoodFrame
    <3>2. child \in Raws /\ child # << >>
        BY <3>1, OneMore
    <3>3. child \in DOMAIN tree
        BY <2>1, <2>4, <3>2, ExpectedIs
    <3>4. tree'[child] = tree[child]
        BY <2>1, <2>4, <3>3
    <3> QED
        BY <2>4, <3>4 DEF Awaited, AwaitedIn
  <2>5. Read(p) \/ Awaited(p)
      BY <2>1 DEF Covered
  <2> QED
      BY <2>2, <2>3, <2>4, <2>5 DEF Awaited, AwaitedIn
<1>10. Covered'
    BY <1>9 DEF Covered
<1> QED
    BY <1>4, <1>5, <1>6, <1>7, <1>8, <1>10 DEF Walked

LEMMA TreeKeepsWalk ==
    ASSUME WalkInv, NEW place \in Places, (\E node \in Nodes(place) : Create(place, node)) \/ TakeAway(place)
    PROVE  WalkInv'
<1>1. place \in Raws
    BY PlacesAreNamed, SortedNames DEF Raws
<1>2. GoodTree
    BY DEF WalkInv
<1>3. UNCHANGED <<ignored, frames, seen, entry, readings, stage>> /\ changed' = Noted({place}) /\ MayChange
    BY DEF Create, TakeAway
<1>4. GoodTree'
    BY <1>2, CreatedTree, LeftTree
<1>5. CASE stage = "before"
    BY <1>3, <1>4, <1>5 DEF WalkInv, Noted
<1>6. CASE stage = "walking"
  <2>1. changed' = changed \cup {place}
      BY <1>3, <1>6 DEF Noted
  <2>2. /\ \A q : IsMount(q)' => IsMount(q) /\ tree'[q] = tree[q]
        /\ \A q \in Raws : ~Under(q, place) =>
              (q \in DOMAIN tree' <=> q \in DOMAIN tree) /\ (q \in DOMAIN tree => tree'[q] = tree[q])
    <3>1. CASE TakeAway(place)
      <4>1. /\ \A p : p \in DOMAIN tree' <=> p \in DOMAIN tree /\ ~Under(p, place)
            /\ \A p \in DOMAIN tree' : tree'[p] = tree[p]
          BY <1>2, <3>1, LeftTree
      <4> QED
          BY <4>1 DEF IsMount
    <3>2. ASSUME NEW node \in Nodes(place), Create(place, node)
          PROVE  /\ \A q : IsMount(q)' => IsMount(q) /\ tree'[q] = tree[q]
                 /\ \A q \in Raws : ~Under(q, place) =>
                      (q \in DOMAIN tree' <=> q \in DOMAIN tree) /\ (q \in DOMAIN tree => tree'[q] = tree[q])
      <4>1. /\ DOMAIN tree' = DOMAIN tree \cup {place} /\ tree'[place] = node /\ place \notin DOMAIN tree
            /\ \A p \in DOMAIN tree : tree'[p] = tree[p]
          BY <3>2 DEF Create
      <4>2. node.kind # "mount"
          BY <1>6, <3>2 DEF Create
      <4>3. Under(place, place)
          BY <1>1, UnderFacts
      <4> QED
          BY <4>1, <4>2, <4>3 DEF IsMount
    <3> QED
        BY <3>1, <3>2
  <2>3. PICK m \in Raws, raws \in Seq(Raws) : Walked(m, raws)
      BY <1>6 DEF WalkInv
  <2>4. Covered
      BY <1>6 DEF WalkInv
  <2>5. Walked(m, raws)' /\ Covered'
      BY <1>1, <1>2, <1>3, <1>4, <2>1, <2>2, <2>3, <2>4, ChangeKeepsWalk
  <2> QED
      BY <1>3, <1>4, <1>6, <2>5 DEF WalkInv
<1> QED
    BY <1>3, <1>5, <1>6 DEF MayChange

Rel == Append(Top.rel, Nfc(Sorted[NextIndex]))
Kind == Top.left[NextIndex]

LEMMA VisitIs ==
    ASSUME VisitChild
    PROVE  /\ stage = "walking" /\ frames # << >> /\ entry = << >>
           /\ UNCHANGED <<tree, ignored, readings, changed, stage>>
           /\ Kind \in {"dir", "mount"} => \/ /\ Sorted[NextIndex] \in SkipDirs \/ Excluded(Rel)
                                              /\ frames' = Rest /\ entry' = entry /\ seen' = seen
                                           \/ /\ ~(Sorted[NextIndex] \in SkipDirs \/ Excluded(Rel))
                                              /\ Enter(Rel, Child, Rest)
           /\ Kind \notin {"dir", "mount"} =>
                /\ frames' = Rest /\ seen' = seen
                /\ entry' = IF (Kind = "link" /\ ~IsFile(LinkTarget(At(Child)))) \/ ~(Excluded(Rel) \/ Content(Child) = Nowhere)
                            THEN <<Rel, Child>> ELSE entry
BY DEF VisitChild, Top, NextIndex, Later, Child, Rest, Rel, Kind, Report, Pass

LEMMA RelIs ==
    ASSUME NEW m \in Raws, GoodFrames(frames, m), frames # << >>
    PROVE  /\ Rel = [i \in DOMAIN Child |-> Nfc(Child[i])]
           /\ Rel = Append(Front(Child), Nfc(Last(Child))) /\ Last(Child) = Sorted[NextIndex] /\ Front(Child) = Top.raw
           /\ Child # << >> /\ Top.raw \in Seq({"code", "modules"})
           /\ Sorted[NextIndex] \in {"code", "modules"} => Rel = Child /\ Child \in Seq({"code", "modules"})
<1> DEFINE name == Sorted[NextIndex]
           r == Append(Top.raw, Nfc(name))
<1>1. Top.raw \in Raws /\ Child \in Raws /\ name \in Names /\ Top.rel = Top.raw /\ Top.raw \in Seq({"code", "modules"})
    BY TopIs DEF GoodFrame
<1>2. /\ Len(Child) = Len(Top.raw) + 1 /\ Len(Top.raw) \in Nat /\ Child[Len(Top.raw) + 1] = name
      /\ \A i \in 1 .. Len(Top.raw) : Child[i] = Top.raw[i]
      /\ Last(Child) = name /\ Front(Child) = Top.raw /\ Child # << >>
    BY <1>1, OneMore DEF Child
<1>3. Nfc(name) \in Names
    BY <1>1 DEF Nfc, Names
<1>4. /\ r \in Raws /\ Len(r) = Len(Top.raw) + 1 /\ r[Len(Top.raw) + 1] = Nfc(name)
      /\ \A i \in 1 .. Len(Top.raw) : r[i] = Top.raw[i]
    BY <1>1, <1>3, OneMore
<1>5. Rel = r
    BY <1>1 DEF Rel
<1>6. name \in {"code", "modules"} => Nfc(name) = name /\ r = Child /\ Child \in Seq({"code", "modules"})
    BY <1>1 DEF Nfc, Child
<1> HIDE DEF r, name
<1>7. \A i \in 1 .. Len(Top.raw) : Nfc(Top.raw[i]) = Top.raw[i]
  <2>1. \A i \in 1 .. Len(Top.raw) : Top.raw[i] \in {"code", "modules"}
      BY <1>1
  <2> QED
      BY <2>1 DEF Nfc
<1>8. \A i \in 1 .. Len(Top.raw) + 1 : r[i] = Nfc(Child[i])
  <2> TAKE i \in 1 .. Len(Top.raw) + 1
  <2>1. CASE i = Len(Top.raw) + 1
      BY <1>2, <1>4, <2>1
  <2>2. CASE i # Len(Top.raw) + 1
    <3>1. i \in 1 .. Len(Top.raw)
        BY <1>2, <2>2
    <3> QED
        BY <1>2, <1>4, <1>7, <3>1
  <2> QED
      BY <2>1, <2>2
<1>9. DOMAIN r = 1 .. Len(Top.raw) + 1 /\ DOMAIN Child = 1 .. Len(Top.raw) + 1
    BY <1>1, <1>2, <1>4, RawFacts
<1>10. r = [i \in DOMAIN Child |-> Nfc(Child[i])]
  <2>1. r = [i \in DOMAIN r |-> r[i]]
      BY <1>4 DEF Raws
  <2> QED
      BY <1>8, <1>9, <2>1
<1>11. Rel = Append(Front(Child), Nfc(Last(Child)))
    BY <1>1, <1>2 DEF Rel, name
<1> QED
    BY <1>1, <1>2, <1>5, <1>6, <1>10, <1>11 DEF name

\* One child is dealt with, and n is the mount of the code from here on.
LEMMA StepKeepsWalk ==
    ASSUME NEW m \in Raws, NEW raws \in Seq(Raws), Walked(m, raws), frames # << >>, entry = << >>,
           UNCHANGED <<tree, readings, changed>>,
           NEW n \in Raws, n = m \/ m = << >>, NEW fs, frames' = fs, GoodFrames(fs, n), RootIsFirst',
           \A p \in Raws : ToComeIn(fs, p) => ToCome(p), ~ToComeIn(fs, Child),
           seen \subseteq seen', Code \in seen' <=> n # << >>,
           \A q \in seen' \ seen : q = Child \/ (n # << >> /\ Under(Child, n) /\ q = Via(n, Child)),
           entry' # << >> => GoodEntry(n)' /\ entry'[2] = Child
    PROVE  Walked(n, raws)'
<1>1. Child \in Raws /\ ToCome(Child) /\ GoodFrames(frames, m)
    BY TopIs DEF Walked
<1>2. \A p \in Raws : Leads(n, p) => Leads(n, p)'
    BY SameTree
<1>3. GoodFrames(fs, n)'
    BY <1>2, FramesKept
<1>4. GoodFrames(frames, n)'
    BY <1>3
<1>5. \A p \in Raws : ~ToCome(p) => ~ToCome(p)'
  <2>1. \A p : ToCome(p)' => ToComeIn(fs, p)
      BY DEF ToCome, ToComeIn
  <2> QED
      BY <2>1
<1>6. ASSUME NEW p, p = Child PROVE ~ToCome(p)'
  <2>1. ~ToComeIn(fs, p)
      BY <1>6
  <2> QED
      BY <2>1 DEF ToCome, ToComeIn
<1>7. GoodSeen(n)'
  <2>1. << >> \in seen'
      BY DEF Walked, GoodSeen
  <2>2. ASSUME NEW q \in seen'
        PROVE  \E p \in Raws : ~ToCome(p)' /\ (q = p \/ (n # << >> /\ Under(p, n) /\ q = Via(n, p)))
    <3>1. CASE q \in seen
      <4>1. PICK p \in Raws : ~ToCome(p) /\ (q = p \/ (m # << >> /\ Under(p, m) /\ q = Via(m, p)))
          BY <3>1 DEF Walked, GoodSeen
      <4> QED
          BY <1>5, <4>1
    <3>2. CASE q \notin seen
      <4> SUFFICES ASSUME NEW p \in Raws, p = Child
                   PROVE  ~ToCome(p)' /\ (q = p \/ (n # << >> /\ Under(p, n) /\ q = Via(n, p)))
          BY <1>1
      <4> QED
          BY <1>6, <3>2
    <3> QED
        BY <3>1, <3>2
  <2> QED
      BY <2>1, <2>2 DEF GoodSeen
<1>8. GoodReadings(n, raws)'
  <2>1. GoodReadings(m, raws)
      BY DEF Walked
  <2>2. \A i \in DOMAIN raws : raws[i] \in Raws
      OBVIOUS
  <2>3. \A i \in DOMAIN raws : ~ToCome(raws[i])' /\ (entry' # << >> => raws[i] # entry'[2])
    <3> TAKE i \in DOMAIN raws
    <3>1. ~ToCome(raws[i]) /\ raws[i] \in Raws
        BY <2>1, <2>2 DEF GoodReadings
    <3> QED
        BY <1>1, <1>5, <3>1
  <2>4. \A i \in DOMAIN raws : Under(raws[i], Code) => n = Code
      BY <2>1, CodeIs DEF GoodReadings
  <2>5. \A i \in DOMAIN raws :
           readings'[i].place = raws[i] \/ (n # << >> /\ Under(raws[i], n) /\ readings'[i].place = Via(n, raws[i]))
      BY <2>1 DEF GoodReadings
  <2> QED
      BY <2>1, <2>3, <2>4, <2>5 DEF GoodReadings
<1> QED
    BY <1>4, <1>7, <1>8 DEF Walked

\* A child that is no directory is reported.
LEMMA ReportGood ==
    ASSUME NEW m \in Raws, GoodFrames(frames, m), frames # << >>, UNCHANGED <<tree, changed>>, frames' = Rest,
           Kind \notin {"dir", "mount"}, entry' = <<Rel, Child>>,
           (Kind = "link" /\ ~IsFile(LinkTarget(At(Child)))) \/ ~(Excluded(Rel) \/ Content(Child) = Nowhere)
    PROVE  GoodEntry(m)'
<1> SUFFICES ASSUME NEW c \in Raws, c = Child PROVE GoodEntry(m)'
    BY TopIs
<1>1. /\ Top.raw \in Raws /\ GoodFrame(Top, m) /\ NextIndex \in DOMAIN Top.left /\ Sorted[NextIndex] \in Names
    BY TopIs
<1>2. /\ Rel = Append(Front(c), Nfc(Last(c))) /\ Last(c) = Sorted[NextIndex] /\ c # << >>
      /\ Front(c) \in Seq({"code", "modules"})
    BY RelIs
<1>3. Last(c) \notin Folders
    BY <1>1, <1>2 DEF GoodFrame, Kind
<1>4. ~ToComeIn(Rest, c)
    BY RestAhead, UnderFacts
<1>5. Leads(m, c) /\ Leads(m, Top.raw)
    BY <1>1 DEF GoodFrame, Kind, Child
<1>6. Under(c, Code) => m = Code
  <2>1. c # Code
      BY <1>3, CodeIs DEF Last, Folders
  <2> QED
      BY <2>1, UnderTop
<1>7. ASSUME changed = {} PROVE Content(c) # Nowhere \/ tree[At(c)].kind = "link"
  <2>1. tree[Append(At(Top.raw), Sorted[NextIndex])].kind = Kind
      BY <1>1, <1>7 DEF GoodFrame, Kind
  <2>2. ~IsMount(Append(At(Top.raw), Sorted[NextIndex]))
      BY <2>1 DEF IsMount
  <2>3. At(c) = Append(At(Top.raw), Sorted[NextIndex])
      BY <1>1, <1>5, <2>2, LeadsTo DEF Child
  <2> QED
      BY <2>1, <2>3
<1>8. At(c)' = At(c) /\ Leads(m, c)'
    BY <1>5, SameTree
<1>9. Content(c)' = Content(c)
    BY <1>8 DEF Content, LinkTarget, IsFile
<1>10. entry'[2] = c /\ entry'[1] = Rel
    OBVIOUS
<1>11. ~ToCome(c)'
    BY <1>4 DEF ToCome, ToComeIn
<1> QED
    BY <1>2, <1>3, <1>6, <1>7, <1>8, <1>9, <1>10, <1>11 DEF GoodEntry

\* A child that may be a directory is entered, or not.
LEMMA EnterKeepsWalk ==
    ASSUME GoodTree, NEW m \in Raws, NEW raws \in Seq(Raws), Walked(m, raws), frames # << >>, entry = << >>,
           UNCHANGED <<tree, readings, changed>>,
           Kind \in {"dir", "mount"}, Sorted[NextIndex] \notin SkipDirs, Enter(Rel, Child, Rest)
    PROVE  \E n \in Raws : Walked(n, raws)'
<1>1. /\ GoodFrames(frames, m) /\ RootIsFirst /\ << >> \in seen /\ (Code \in seen <=> m # << >>)
    BY DEF Walked, GoodSeen
<1>2. /\ Child \in Raws /\ Top \in FrameTypes /\ Ahead(Top, Child) /\ Len(frames) \in DOMAIN frames /\ Top = frames[Len(frames)]
    BY <1>1, TopIs
<1>3. Rel = Child /\ Child \in Seq({"code", "modules"}) /\ Child # << >>
  <2>1. GoodFrame(Top, m) /\ NextIndex \in DOMAIN Top.left
      BY <1>1, TopIs
  <2>2. Sorted[NextIndex] \in {"code", "modules"}
      BY <2>1 DEF GoodFrame, Kind, Folders, SkipDirs
  <2> QED
      BY <1>1, <2>2, RelIs
<1> DEFINE place == At(Child)
           f == Frame(Child, Child, Listing(place))
           lists == IsDir(place) /\ place \notin seen /\ IsReadable(place)
           fs == IF lists /\ DOMAIN Listing(place) # {} THEN Append(Rest, f) ELSE Rest
           met == IsDir(place) /\ place \notin seen
<1>4. seen' = (IF IsDir(place) THEN seen \cup {place} ELSE seen) /\ frames' = fs /\ entry' = entry
    BY <1>3 DEF Enter, ByInode
<1>5. PICK n \in Raws : /\ n = m \/ m = << >>
                        /\ Code \in seen' <=> n # << >>
                        /\ \A q \in seen' \ seen : q = Child \/ (n # << >> /\ Under(Child, n) /\ q = Via(n, Child))
                        /\ met => Leads(n, Child) /\ (Under(Child, Code) => n = Code)
  <2>1. CASE met
    <3>1. seen' = seen \cup {At(Child)}
        BY <1>4, <2>1
    <3> QED
        BY <1>1, <2>1, <3>1, ChildPlace
  <2>2. CASE ~met
    <3>1. seen' = seen
        BY <1>4, <2>2
    <3> QED
        BY <1>1, <2>2, <3>1
  <2> QED
      BY <2>1, <2>2
<1> HIDE DEF f
<1>6. GoodFrames(Rest, n)
    BY <1>1, <1>5, RestGood, MountLater
<1>7. /\ \A j \in DOMAIN Rest : Len(Rest[j].raw) < Len(Child) /\ Under(Child, Rest[j].raw) /\ ~Ahead(Rest[j], Child)
      /\ \A j \in DOMAIN Rest : Rest[j].raw = << >> => 1 \notin DOMAIN Rest[j].left
    BY <1>1, RestGood
<1>8. \A p \in Raws : ToComeIn(Rest, p) => ToCome(p) /\ ~Under(p, Child)
    BY <1>1, RestAhead
<1>9. ~ToComeIn(Rest, Child)
    BY <1>2, <1>8, UnderFacts
<1>10. CASE lists /\ DOMAIN Listing(place) # {}
  <2>1. f \in FrameTypes /\ GoodFrame(f, n) /\ f.raw = Child
      BY <1>2, <1>3, <1>5, <1>10, NewFrame DEF f
  <2>2. /\ GoodFrames(Append(Rest, f), n) /\ Len(Rest) \in Nat
        /\ \A p : ToComeIn(Append(Rest, f), p) => ToComeIn(Rest, p) \/ Ahead(f, p)
        /\ DOMAIN Append(Rest, f) = 1 .. Len(Rest) + 1 /\ DOMAIN Rest = 1 .. Len(Rest)
        /\ Append(Rest, f)[Len(Rest) + 1] = f /\ \A j \in DOMAIN Rest : Append(Rest, f)[j] = Rest[j]
      BY <1>6, <1>7, <2>1, PushGood
  <2> DEFINE a == Append(Rest, f)
  <2>3. frames' = a
      BY <1>4, <1>10
  <2> HIDE DEF a, fs, place, lists, met
  <2>4. ASSUME NEW p \in Raws, ToComeIn(a, p) PROVE ToCome(p)
    <3>1. CASE ToComeIn(Rest, p)
        BY <1>8, <3>1
    <3>2. CASE Ahead(f, p)
      <4>1. Under(p, Child)
          BY <2>1, <3>2 DEF Ahead
      <4>2. Ahead(Top, p)
          BY <1>2, <4>1, AheadOf
      <4> QED
          BY <1>2, <4>2 DEF ToCome, ToComeIn
    <3> QED
        BY <2>2, <2>4, <3>1, <3>2 DEF a
  <2>5. ~ToComeIn(a, Child)
    <3>1. ~Ahead(f, Child)
      <4>1. Len(Child) \in Nat
          BY <1>2, RawFacts
      <4> QED
          BY <2>1, <4>1 DEF Ahead
    <3> QED
        BY <1>9, <2>2, <3>1 DEF a
  <2>6. RootIsFirst'
    <3> SUFFICES ASSUME NEW j \in DOMAIN a, a[j].raw = << >>, 1 \in DOMAIN a[j].left PROVE FALSE
        BY <2>3 DEF RootIsFirst
    <3>1. CASE j = Len(Rest) + 1
        BY <1>3, <2>1, <2>2, <3>1 DEF a
    <3>2. CASE j \in 1 .. Len(Rest)
        BY <1>7, <2>2, <3>2 DEF a
    <3>3. j \in 1 .. Len(Rest) + 1 /\ Len(Rest) \in Nat
        BY <2>2 DEF a
    <3> QED
        BY <3>1, <3>2, <3>3
  <2>7. GoodFrames(a, n) /\ seen \subseteq seen' /\ entry' = << >>
      BY <1>4, <2>2 DEF a
  <2> QED
      BY <1>5, <2>3, <2>4, <2>5, <2>6, <2>7, StepKeepsWalk
<1>11. CASE ~(lists /\ DOMAIN Listing(place) # {})
  <2>1. frames' = Rest
      BY <1>4, <1>11
  <2>2. seen \subseteq seen' /\ entry' = << >>
      BY <1>4
  <2> HIDE DEF fs, place, lists, met
  <2>3. RootIsFirst'
      BY <1>7, <2>1 DEF RootIsFirst
  <2>4. \A p \in Raws : ToComeIn(Rest, p) => ToCome(p)
      BY <1>8
  <2> QED
      BY <1>5, <1>6, <1>9, <2>1, <2>2, <2>3, <2>4, StepKeepsWalk
<1> QED
    BY <1>10, <1>11

LEMMA RestAwaits ==
    ASSUME NEW m \in Raws, GoodFrames(frames, m), frames # << >>, NEW p \in Raws, AwaitedIn(frames, p)
    PROVE  AwaitedIn(Rest, p) \/ (Under(p, Child) /\ Kind = tree[Child].kind)
<1>1. PICK j \in DOMAIN frames : \E k \in DOMAIN frames[j].left :
         Under(p, Append(frames[j].raw, Sorted[k])) /\ frames[j].left[k] = tree[Append(frames[j].raw, Sorted[k])].kind
    BY DEF AwaitedIn
<1>2. PICK k \in DOMAIN frames[j].left :
         Under(p, Append(frames[j].raw, Sorted[k])) /\ frames[j].left[k] = tree[Append(frames[j].raw, Sorted[k])].kind
    BY <1>1
<1> DEFINE n == Len(frames)
<1>3. /\ \A i \in 1 .. n - 1 : i \in DOMAIN Rest /\ Rest[i] = frames[i]
      /\ Later # {} => n \in DOMAIN Rest /\ Rest[n].raw = Top.raw
                       /\ DOMAIN Rest[n].left = Later /\ \A i \in Later : Rest[n].left[i] = Top.left[i]
    BY RestIs
<1>4. Top = frames[n] /\ n \in Nat /\ j \in 1 .. n
    BY TopIs DEF GoodFrames
<1> HIDE DEF n
<1>5. CASE j # n
  <2>1. j \in 1 .. n - 1
      BY <1>4, <1>5
  <2> QED
      BY <1>2, <1>3, <2>1 DEF AwaitedIn
<1>6. CASE j = n /\ k = NextIndex
    BY <1>2, <1>4, <1>6 DEF Child, Kind
<1>7. CASE j = n /\ k # NextIndex
  <2>1. k \in Later
      BY <1>4, <1>7 DEF Later
  <2>2. n \in DOMAIN Rest /\ k \in DOMAIN Rest[n].left /\ Rest[n].raw = Top.raw /\ Rest[n].left[k] = Top.left[k]
      BY <1>3, <2>1
  <2> QED
      BY <1>2, <1>4, <1>7, <2>2 DEF AwaitedIn
<1> QED
    BY <1>5, <1>6, <1>7

\* A directory with an expected file below it is not met by another path first.
LEMMA ChildUnseen ==
    ASSUME NEW m \in Raws, GoodFrames(frames, m), frames # << >>, RootIsFirst, GoodSeen(m)
    PROVE  Child \notin seen
<1>1. /\ Child \in Raws /\ ToCome(Child) /\ Sorted[NextIndex] \in Names /\ NextIndex \in 1 .. 6
      /\ NextIndex \in DOMAIN Top.left /\ Top.raw \in Raws
      /\ Len(frames) \in DOMAIN frames /\ Top = frames[Len(frames)]
    BY TopIs
<1>2. ASSUME Child = Code PROVE seen = {<< >>}
  <2>1. Front(Child) = Top.raw /\ Last(Child) = Sorted[NextIndex] /\ Len(Child) = Len(Top.raw) + 1 /\ Len(Top.raw) \in Nat
      BY <1>1, OneMore DEF Child
  <2>2. Len(Top.raw) = 0 /\ Sorted[NextIndex] = "code"
    <3>1. Last(Code) = "code"
        BY CodeIs DEF Last
    <3>2. Sorted[NextIndex] = "code"
        BY <1>2, <2>1, <3>1
    <3> DEFINE l == Len(Top.raw)
    <3>3. l \in Nat /\ l + 1 = 1
        BY <1>2, <2>1, CodeIs
    <3> HIDE DEF l
    <3>4. l = 0
        BY <3>3
    <3> QED
        BY <3>2, <3>4 DEF l
  <2>3. Top.raw = << >> /\ NextIndex = 1
    <3>1. Top.raw = << >>
        BY <1>1, <2>2, RawFacts
    <3>2. NextIndex = 1
        BY <1>1, <2>2, SortedNames
    <3> QED
        BY <3>1, <3>2
  <2> QED
      BY <1>1, <2>3 DEF RootIsFirst
<1>3. SUFFICES ASSUME Child \in seen PROVE FALSE
    OBVIOUS
<1>4. PICK p \in Raws : ~ToCome(p) /\ (Child = p \/ (m # << >> /\ Under(p, m) /\ Child = Via(m, p)))
    BY <1>3 DEF GoodSeen
<1>5. m # << >> /\ Under(p, m) /\ Child = Via(m, p)
    BY <1>1, <1>4
<1>6. Under(Child, Code) /\ (m = Code => Child = p)
    BY <1>5, ViaFacts
<1>7. Child # Code
    BY <1>2, <1>3, CodeIs
<1> QED
    BY <1>1, <1>4, <1>6, <1>7, UnderTop

LEMMA SameExpected ==
    ASSUME UNCHANGED <<tree, ignored, changed>>
    PROVE  \A p : Expected(p)' <=> Expected(p)
<1>1. \A p : IsFile(p)' <=> IsFile(p)
    BY DEF IsFile
<1>2. \A p : (IsDir(p)' <=> IsDir(p)) /\ (IsReadable(p)' <=> IsReadable(p))
    BY DEF IsDir, IsReadable
<1>3. \A p : Excluded(p)' <=> Excluded(p)
    BY DEF Excluded, Ignored
<1>4. \A p : Steady(p)' <=> Steady(p)
    BY DEF Steady
<1>5. \A p : Walkable(p)' <=> Walkable(p)
    BY <1>1, <1>2, <1>3 DEF Walkable
<1> QED
    BY <1>4, <1>5 DEF Expected

\* What is read at an expected path.
LEMMA ContentIs ==
    ASSUME NEW p \in Raws, At(p) = p, IsFile(p), tree[p].readable
    PROVE  Content(p) = p /\ p # Nowhere
<1>1. LinkTarget(p) = p
    BY DEF LinkTarget, IsFile
<1>2. p # Outside /\ p # Nowhere
  <2>1. Outside \notin Raws /\ Nowhere \notin Raws
      BY DEF Outside, Nowhere, Raws, Names
  <2> QED
      BY <2>1
<1> QED
    BY <1>1, <1>2 DEF Content

\* An expected file is still awaited, or it is reported, when a child was dealt with.
LEMMA VisitCovers ==
    ASSUME GoodTree, NEW m \in Raws, NEW raws \in Seq(Raws), Walked(m, raws), Covered, VisitChild
    PROVE  Covered'
<1>1. /\ frames # << >> /\ entry = << >> /\ UNCHANGED <<tree, ignored, readings, changed>>
      /\ GoodFrames(frames, m) /\ RootIsFirst /\ GoodSeen(m)
    BY VisitIs DEF Walked
<1> SUFFICES ASSUME NEW p \in DOMAIN tree, Expected(p), ~Read(p) PROVE Awaited(p)'
  <2>1. \A p : Read(p)' <=> Read(p)
      BY <1>1 DEF Read
  <2> QED
      BY <1>1, <2>1, SameExpected DEF Covered
<1>2. p \in Raws /\ AwaitedIn(frames, p)
    BY <1>1 DEF Covered, Awaited, GoodTree
<1>3. \A fs : frames' = fs /\ AwaitedIn(fs, p) => Awaited(p)'
    BY <1>1 DEF Awaited, AwaitedIn
<1>4. frames' = Rest \/ \E f : frames' = Append(Rest, f)
    BY <1>1, VisitIs DEF Enter
<1>5. CASE AwaitedIn(Rest, p)
  <2>1. CASE frames' = Rest
      BY <1>3, <1>5, <2>1
  <2>2. ASSUME NEW f, frames' = Append(Rest, f) PROVE AwaitedIn(frames', p)
    <3>1. Rest \in Seq(FrameTypes)
        BY <1>1, RestIs
    <3>2. \A j \in DOMAIN Rest : j \in DOMAIN Append(Rest, f) /\ Append(Rest, f)[j] = Rest[j]
        BY <3>1
    <3> QED
        BY <1>5, <2>2, <3>2 DEF AwaitedIn
  <2> QED
      BY <1>3, <1>4, <2>1, <2>2
<1>6. CASE Under(p, Child) /\ Kind = tree[Child].kind
  <2>1. Child \in Raws /\ Child # << >>
      BY <1>1, TopIs, RelIs
  <2>2. CASE p = Child
    <3>1. /\ IsFile(p) /\ tree[p].readable /\ Plain(p) /\ ~Excluded([i \in DOMAIN p |-> Nfc(p[i])])
        BY <1>2, ExpectedIs
    <3>2. ~Excluded(Rel) /\ Content(Child) # Nowhere
        BY <1>1, <1>2, <2>2, <3>1, RelIs, PlainAt, ContentIs
    <3>3. Kind \notin {"dir", "mount"}
        BY <1>6, <2>2, <3>1 DEF IsFile
    <3>4. entry' = <<Rel, Child>>
        BY <3>2, <3>3, VisitIs
    <3> QED
        BY <2>2, <3>4 DEF Awaited
  <2>3. CASE p # Child
    <3>1. /\ Child \in DOMAIN tree /\ tree[Child].kind = "dir" /\ tree[Child].readable /\ Plain(Child)
          /\ Last(Child) \notin SkipDirs /\ ~Excluded([i \in DOMAIN Child |-> Nfc(Child[i])])
        BY <1>6, <2>1, <2>3, ExpectedIs
    <3>2. Enter(Rel, Child, Rest)
        BY <1>1, <1>6, <3>1, VisitIs, RelIs
    <3>3. At(Child) = Child /\ Child \notin seen
        BY <1>1, <2>1, <3>1, PlainAt, ChildUnseen
    <3>4. PICK k \in DOMAIN Listing(Child) :
             Under(p, Append(Child, Sorted[k])) /\ Listing(Child)[k] = tree[Append(Child, Sorted[k])].kind
        BY <1>6, <2>1, <2>3, ListingAwaits
    <3> DEFINE f == Frame(Rel, Child, Listing(Child))
               a == Append(Rest, f)
    <3>5. frames' = a
        BY <3>1, <3>2, <3>3, <3>4 DEF Enter, ByInode, IsDir, IsReadable
    <3>6. f.raw = Child /\ f.left = Listing(Child)
        BY DEF Frame
    <3>7. Len(Rest) + 1 \in DOMAIN a /\ a[Len(Rest) + 1] = f
      <4>1. Rest \in Seq(FrameTypes)
          BY <1>1, RestIs
      <4> HIDE DEF f
      <4> QED
          BY <4>1
    <3> HIDE DEF f, a
    <3>8. AwaitedIn(a, p)
        BY <3>4, <3>6, <3>7 DEF AwaitedIn
    <3> QED
        BY <1>3, <3>5, <3>8
  <2> QED
      BY <2>2, <2>3
<1> QED
    BY <1>1, <1>2, <1>5, <1>6, RestAwaits

LEMMA VisitKeepsWalk ==
    ASSUME WalkInv, VisitChild
    PROVE  WalkInv'
<1>1. /\ frames # << >> /\ entry = << >> /\ stage = "walking" /\ UNCHANGED <<tree, ignored, readings, changed, stage>>
    BY VisitIs
<1>2. GoodTree /\ Covered
    BY <1>1 DEF WalkInv
<1>3. PICK m \in Raws, raws \in Seq(Raws) : Walked(m, raws)
    BY <1>1 DEF WalkInv
<1>4. GoodFrames(frames, m) /\ << >> \in seen /\ (Code \in seen <=> m # << >>)
    BY <1>3 DEF Walked, GoodSeen
<1>5. ASSUME frames' = Rest, seen' = seen, entry' # << >> => GoodEntry(m)' /\ entry'[2] = Child
      PROVE  Walked(m, raws)'
  <2>1. Child \in Raws
      BY <1>1, <1>4, TopIs
  <2>2. GoodFrames(Rest, m)
      BY <1>1, <1>4, RestGood
  <2>3. RootIsFirst'
    <3>1. \A j \in DOMAIN Rest : Rest[j].raw = << >> => 1 \notin DOMAIN Rest[j].left
        BY <1>1, <1>3, <1>4, RestGood DEF Walked
    <3> QED
        BY <1>5, <3>1 DEF RootIsFirst
  <2>4. \A p \in Raws : ToComeIn(Rest, p) => ToCome(p) /\ ~Under(p, Child)
      BY <1>1, <1>4, RestAhead
  <2>5. ~ToComeIn(Rest, Child)
      BY <2>1, <2>4, UnderFacts
  <2> QED
      BY <1>1, <1>3, <1>4, <1>5, <2>2, <2>3, <2>4, <2>5, StepKeepsWalk
<1>6. \E n \in Raws : Walked(n, raws)'
  <2>1. CASE Kind \in {"dir", "mount"} /\ Sorted[NextIndex] \notin SkipDirs /\ Enter(Rel, Child, Rest)
      BY <1>1, <1>2, <1>3, <2>1, EnterKeepsWalk
  <2>2. CASE frames' = Rest /\ entry' = entry /\ seen' = seen
      BY <1>1, <1>5, <2>2
  <2>3. CASE /\ Kind \notin {"dir", "mount"} /\ frames' = Rest /\ seen' = seen /\ entry' = <<Rel, Child>>
             /\ (Kind = "link" /\ ~IsFile(LinkTarget(At(Child)))) \/ ~(Excluded(Rel) \/ Content(Child) = Nowhere)
    <3>1. GoodEntry(m)'
        BY <1>1, <1>4, <2>3, ReportGood
    <3> QED
        BY <1>5, <2>3, <3>1
  <2> QED
      BY <2>1, <2>2, <2>3, VisitIs
<1>7. Covered'
    BY <1>2, <1>3, VisitCovers
<1>8. GoodTree'
    BY <1>1, <1>2 DEF GoodTree
<1> QED
    BY <1>1, <1>6, <1>7, <1>8 DEF WalkInv

LEMMA WalkedSame ==
    ASSUME UNCHANGED <<tree, ignored, frames, seen, entry, readings, changed>>,
           NEW m \in Raws, NEW raws \in Seq(Raws), Walked(m, raws), Covered
    PROVE  Walked(m, raws)' /\ Covered'
<1>1. GoodFrames(frames, m)'
  <2> SUFFICES ASSUME NEW fs, fs = frames, GoodFrames(fs, m) PROVE GoodFrames(frames, m)'
      BY DEF Walked
  <2>1. GoodFrames(fs, m)'
      BY SameTree, FramesKept
  <2> QED
      BY <2>1
<1>2. ASSUME entry' # << >> PROVE GoodEntry(m)'
  <2>1. GoodEntry(m)
      BY <1>2 DEF Walked
  <2> SUFFICES ASSUME NEW x \in Raws, x = entry[2] PROVE GoodEntry(m)'
      BY <2>1 DEF GoodEntry
  <2>2. At(x)' = At(x) /\ (Leads(m, x)' <=> Leads(m, x))
      BY SameTree
  <2>3. Content(x)' = Content(x)
      BY <2>2 DEF Content, LinkTarget, IsFile
  <2>4. ToCome(x)' <=> ToCome(x)
      BY DEF ToCome, ToComeIn
  <2>5. entry[2]' = x
      OBVIOUS
  <2> QED
      BY <2>1, <2>2, <2>3, <2>4, <2>5 DEF GoodEntry
<1>3. \A p : ToCome(p)' <=> ToCome(p)
    BY DEF ToCome, ToComeIn
<1>4. GoodSeen(m)' /\ GoodReadings(m, raws)' /\ RootIsFirst'
    BY <1>3 DEF Walked, GoodSeen, GoodReadings, RootIsFirst
<1>5. \A p : (Read(p)' <=> Read(p)) /\ (Awaited(p)' <=> Awaited(p))
    BY DEF Read, Awaited, AwaitedIn
<1>6. Covered'
    BY <1>5, SameExpected DEF Covered
<1> QED
    BY <1>1, <1>2, <1>4, <1>6 DEF Walked

LEMMA BeginKeepsWalk ==
    ASSUME WalkInv, BeginWalk
    PROVE  WalkInv'
<1> DEFINE root == << >>
           f == Frame(root, root, Listing(root))
<1>1. /\ stage' = "walking" /\ UNCHANGED <<tree, ignored, readings, changed, entry>>
      /\ readings = << >> /\ entry = << >> /\ seen = {} /\ GoodTree
    BY DEF BeginWalk, WalkInv, Enter
<1>2. /\ root \in Raws /\ Len(root) = 0 /\ root \in Seq({"code", "modules"}) /\ Leads(root, root) /\ At(root) = root
      /\ ~Under(root, Code)
  <2>1. root \in Raws /\ Len(root) = 0 /\ root \in Seq({"code", "modules"}) /\ Plain(root)
      BY DEF Raws, Plain
  <2> QED
      BY <2>1, PlainAt, CodeIs DEF Leads, Under
<1>3. seen' = {root} /\ frames' = IF DOMAIN Listing(root) # {} THEN Append(<< >>, f) ELSE << >>
    BY <1>1, <1>2 DEF BeginWalk, Enter, ByInode, IsDir, IsReadable
<1>4. GoodFrames(<< >>, root)
    BY DEF GoodFrames
<1>5. /\ GoodFrames(frames', root)
      /\ \A j \in DOMAIN frames' : Len(frames') = 1 /\ frames'[j] = f /\ f.raw = root /\ f.left = Listing(root)
  <2>1. CASE DOMAIN Listing(root) # {}
    <3>1. f \in FrameTypes /\ GoodFrame(f, root) /\ f.raw = root /\ f.left = Listing(root)
        BY <1>1, <1>2, <2>1, NewFrame
    <3> HIDE DEF f
    <3>2. GoodFrames(Append(<< >>, f), root)
      <4>1. DOMAIN << >> = {}
          OBVIOUS
      <4> QED
          BY <1>2, <1>4, <3>1, <4>1, PushGood
    <3>3. Len(Append(<< >>, f)) = 1 /\ \A j \in DOMAIN Append(<< >>, f) : Append(<< >>, f)[j] = f
        OBVIOUS
    <3> QED
        BY <1>3, <2>1, <3>1, <3>2, <3>3
  <2>2. CASE DOMAIN Listing(root) = {}
      BY <1>3, <1>4, <2>2
  <2> QED
      BY <2>1, <2>2
<1>6. GoodFrames(frames, root)'
  <2> SUFFICES ASSUME NEW fs, fs = frames', GoodFrames(fs, root) PROVE GoodFrames(frames, root)'
      BY <1>5
  <2>1. GoodFrames(fs, root)'
      BY <1>1, <1>2, SameTree, FramesKept
  <2> QED
      BY <2>1
<1>7. RootIsFirst'
    BY <1>3, <1>5 DEF RootIsFirst
<1>8. GoodSeen(root)'
  <2>1. ~ToCome(root)'
      BY <1>2, <1>5 DEF ToCome, ToComeIn, Ahead
  <2> QED
      BY <1>2, <1>3, <2>1, CodeIs DEF GoodSeen
<1>9. GoodReadings(root, << >>)'
  <2>1. << >> \in Seq(Raws) /\ << >> \in Seq(Range(<< >>)) /\ DOMAIN << >> = {}
      OBVIOUS
  <2> QED
      BY <1>1, <2>1 DEF GoodReadings
<1>10. Covered'
  <2> SUFFICES ASSUME NEW p \in DOMAIN tree PROVE Awaited(p)'
      BY <1>1 DEF Covered
  <2>1. p \in Raws /\ p # root
      BY <1>1 DEF GoodTree
  <2>2. PICK k \in DOMAIN Listing(root) :
           Under(p, Append(root, Sorted[k])) /\ Listing(root)[k] = tree[Append(root, Sorted[k])].kind
      BY <1>1, <1>2, <2>1, ListingAwaits, UnderFacts
  <2>3. 1 \in DOMAIN frames'
    <3> HIDE DEF f
    <3> QED
        BY <1>3, <2>2
  <2>4. frames'[1].raw = root /\ frames'[1].left = Listing(root)
      BY <1>5, <2>3
  <2> QED
      BY <1>1, <2>2, <2>3, <2>4 DEF Awaited, AwaitedIn
<1>11. GoodTree'
    BY <1>1 DEF GoodTree
<1>12. Walked(root, << >>)'
    BY <1>1, <1>6, <1>7, <1>8, <1>9 DEF Walked
<1>13. << >> \in Seq(Raws)
    OBVIOUS
<1> QED
    BY <1>1, <1>2, <1>10, <1>11, <1>12, <1>13 DEF WalkInv

\* What was reported is read at the same place.
LEMMA ReadKeepsWalk ==
    ASSUME WalkInv, ReadEntry
    PROVE  WalkInv'
<1> DEFINE raw == entry[2]
           x == [path |-> entry[1], place |-> At(raw), got |-> Content(entry[1])]
<1>1. /\ entry # << >> /\ entry' = << >> /\ readings' = Append(readings, x)
      /\ UNCHANGED <<tree, ignored, frames, seen, changed, stage>>
    BY DEF ReadEntry
<1>2. stage = "walking" /\ GoodTree /\ Covered
    BY <1>1 DEF WalkInv
<1>3. PICK m \in Raws, raws \in Seq(Raws) : Walked(m, raws)
    BY <1>2 DEF WalkInv
<1>4. GoodEntry(m) /\ GoodReadings(m, raws) /\ GoodFrames(frames, m) /\ RootIsFirst /\ GoodSeen(m)
    BY <1>1, <1>3 DEF Walked
<1>5. /\ raw \in Raws /\ raw # << >> /\ entry[1] = Append(Front(raw), Nfc(Last(raw)))
      /\ ~ToCome(raw) /\ Leads(m, raw) /\ (Under(raw, Code) => m = Code)
      /\ changed = {} => Content(raw) # Nowhere \/ tree[At(raw)].kind = "link"
    BY <1>4 DEF GoodEntry
<1>6. /\ x.place = At(raw) /\ x.got = Content(entry[1])
      /\ (x.place = raw \/ (m # << >> /\ Under(raw, m) /\ x.place = Via(m, raw)))
    BY <1>5, LeadsTo DEF Through
<1>7. Last(raw) # "nfd" => entry[1] = raw
  <2>1. Append(Front(raw), Last(raw)) = raw
      BY <1>5 DEF Front, Last, Raws
  <2> QED
      BY <1>5, <2>1 DEF Nfc
<1>8. Last(x.place) = Last(raw)
  <2>1. CASE x.place = raw
      BY <2>1
  <2>2. CASE Through(m, raw) /\ x.place = Via(m, raw)
    <3>1. m # << >> /\ Under(raw, m) /\ Last(m) \in Folders
        BY <1>2, <2>2 DEF Through, IsMount, GoodTree
    <3>2. Last(raw) \notin Folders
        BY <1>4 DEF GoodEntry
    <3>3. /\ Len(Via(m, raw)) = Len(raw) - Len(m) + 1
          /\ \A i \in 2 .. Len(raw) - Len(m) + 1 : Via(m, raw)[i] = raw[Len(m) + i - 1]
        BY <1>5, <3>1, ViaFacts
    <3>4. Len(raw) \in Nat /\ Len(m) \in Nat /\ Len(m) <= Len(raw) /\ SubSeq(raw, 1, Len(m)) = m /\ SubSeq(raw, 1, Len(raw)) = raw
        BY <1>5, <3>1, RawFacts, UnderFacts
    <3>5. Len(raw) # Len(m)
        BY <3>1, <3>2, <3>4
    <3> DEFINE d == Len(raw) - Len(m) + 1
               v == Via(m, raw)
    <3>6. d \in 2 .. d /\ Len(m) + d - 1 = Len(raw)
      <4>1. Len(raw) \in Nat /\ Len(m) \in Nat /\ Len(m) <= Len(raw)
          BY <3>4
      <4> QED
          BY <3>5, <4>1
    <3>7. Len(v) = d /\ v[d] = raw[Len(m) + d - 1]
        BY <3>3, <3>6
    <3> HIDE DEF d, v
    <3>8. Last(v) = Last(raw)
        BY <3>6, <3>7 DEF Last
    <3> QED
        BY <2>2, <3>8 DEF v
  <2> QED
      BY <1>5, <1>6, <2>1, <2>2, LeadsTo
<1>9. x.got = Nowhere => changed # {} \/ Last(x.place) = "nfd" \/ tree[x.place].kind = "link"
    BY <1>5, <1>6, <1>7, <1>8
<1> HIDE DEF x
<1> DEFINE n == Len(raws)
<1>10. PICK rs \in Seq(Raws) :
          /\ n \in Nat /\ DOMAIN rs = 1 .. n + 1 /\ rs[n + 1] = raw /\ DOMAIN raws = 1 .. n
          /\ \A i \in 1 .. n : rs[i] = raws[i]
  <2> DEFINE s == Append(raws, raw)
  <2>1. /\ s \in Seq(Raws) /\ n \in Nat /\ DOMAIN s = 1 .. n + 1 /\ s[n + 1] = raw /\ DOMAIN raws = 1 .. n
        /\ \A i \in 1 .. n : s[i] = raws[i]
      BY <1>5
  <2> HIDE DEF s
  <2> QED
      BY <2>1
<1>11. DOMAIN readings = 1 .. n /\ readings \in Seq(Range(readings))
    BY <1>4, <1>10 DEF GoodReadings
<1>12. /\ DOMAIN readings' = 1 .. n + 1 /\ readings'[n + 1] = x /\ \A i \in 1 .. n : readings'[i] = readings[i]
       /\ readings' \in Seq(Range(readings'))
  <2>1. Len(readings) = n
      BY <1>10, <1>11
  <2>2. readings' \in Seq(Range(readings) \cup {x})
      BY <1>1, <1>11
  <2>3. DOMAIN readings' = 1 .. n + 1 /\ readings'[n + 1] = x /\ \A i \in 1 .. n : readings'[i] = readings[i]
      BY <1>1, <1>10, <1>11, <2>1
  <2>4. readings' \in [1 .. n + 1 -> Range(readings')]
      BY <2>2, <2>3 DEF Range
  <2> QED
      BY <1>10, <2>3, <2>4
<1>13. \A i \in 1 .. n + 1 : i = n + 1 \/ i \in 1 .. n
    BY <1>10
<1> HIDE DEF n, raw
<1>14. \A p : ToCome(p)' <=> ToCome(p)
    BY <1>1 DEF ToCome, ToComeIn
<1>15. ASSUME NEW i \in DOMAIN rs, NEW j \in DOMAIN rs, rs[i] = rs[j] PROVE i = j
  <2>1. \A k \in 1 .. n : raws[k] # raw
      BY <1>1, <1>4, <1>10 DEF GoodReadings, raw
  <2>2. \A k, l \in 1 .. n : raws[k] = raws[l] => k = l
      BY <1>4, <1>10 DEF GoodReadings
  <2> QED
      BY <1>10, <1>13, <1>15, <2>1, <2>2
<1>16. ASSUME NEW i \in DOMAIN rs
       PROVE  /\ ~ToCome(rs[i]) /\ (Under(rs[i], Code) => m = Code)
              /\ readings'[i].place = rs[i] \/ (m # << >> /\ Under(rs[i], m) /\ readings'[i].place = Via(m, rs[i]))
              /\ readings'[i].got = Nowhere =>
                   changed # {} \/ Last(readings'[i].place) = "nfd" \/ tree[readings'[i].place].kind = "link"
  <2>1. CASE i = n + 1
      BY <1>5, <1>6, <1>9, <1>10, <1>12, <2>1 DEF raw
  <2>2. CASE i \in 1 .. n
      BY <1>4, <1>10, <1>12, <2>2 DEF GoodReadings
  <2> QED
      BY <1>10, <1>13, <2>1, <2>2
<1>17. GoodReadings(m, rs)'
  <2>1. \A i \in DOMAIN rs : ~ToCome(rs[i])'
      BY <1>14, <1>16
  <2>2. UNCHANGED <<tree, changed>> /\ entry' = << >> /\ DOMAIN readings' = DOMAIN rs
      BY <1>1, <1>10, <1>12
  <2> QED
      BY <1>12, <1>15, <1>16, <2>1, <2>2 DEF GoodReadings
<1>18. GoodFrames(frames, m)'
  <2> SUFFICES ASSUME NEW fs, fs = frames, GoodFrames(fs, m) PROVE GoodFrames(frames, m)'
      BY <1>4
  <2>1. GoodFrames(fs, m)'
      BY <1>1, SameTree, FramesKept
  <2> QED
      BY <1>1, <2>1
<1>19. GoodSeen(m)' /\ RootIsFirst'
    BY <1>1, <1>4, <1>14 DEF GoodSeen, RootIsFirst
<1>20. Covered'
  <2> SUFFICES ASSUME NEW p \in DOMAIN tree, Expected(p) PROVE Read(p)' \/ Awaited(p)'
      BY <1>1, SameExpected DEF Covered
  <2>1. CASE Read(p)
    <3>1. PICK i \in DOMAIN readings : readings[i].place = p /\ (Last(p) = "nfd" \/ readings[i].got = p)
        BY <2>1 DEF Read
    <3>2. i \in DOMAIN readings' /\ readings'[i] = readings[i]
        BY <1>10, <1>11, <1>12, <3>1
    <3> QED
        BY <3>1, <3>2 DEF Read
  <2>2. CASE AwaitedIn(frames, p)
      BY <1>1, <2>2 DEF Awaited, AwaitedIn
  <2>3. CASE raw = p
    <3>1. p \in Raws /\ IsFile(p) /\ tree[p].readable /\ Plain(p)
        BY <1>2, ExpectedIs
    <3>2. At(p) = p /\ Content(p) = p
        BY <3>1, PlainAt, ContentIs
    <3>3. x.place = p /\ (Last(p) = "nfd" \/ x.got = p)
        BY <1>6, <1>7, <2>3, <3>2
    <3>4. n + 1 \in DOMAIN readings'
        BY <1>10, <1>12
    <3> QED
        BY <1>12, <3>3, <3>4 DEF Read
  <2> QED
      BY <1>2, <2>1, <2>2, <2>3 DEF Covered, Awaited, raw
<1>21. Walked(m, rs)'
    BY <1>1, <1>17, <1>18, <1>19 DEF Walked
<1>22. GoodTree'
    BY <1>1, <1>2 DEF GoodTree
<1> QED
    BY <1>1, <1>2, <1>10, <1>20, <1>21, <1>22 DEF WalkInv

\* Two readings of one place are one reading; what was awaited at the end was read.
LEMMA WalkAccounts ==
    ASSUME WalkInv
    PROVE  TreeIsAccountedFor
<1>1. CASE stage = "before"
    BY <1>1 DEF WalkInv, TreeIsAccountedFor
<1>2. CASE stage # "before"
  <2>1. PICK m \in Raws, raws \in Seq(Raws) : Walked(m, raws)
      BY <1>2 DEF WalkInv
  <2>2. GoodReadings(m, raws) /\ Covered
      BY <1>2, <2>1 DEF Walked, WalkInv
  <2>3. \A i \in DOMAIN readings :
           /\ raws[i] \in Raws /\ (Under(raws[i], Code) => m = Code)
           /\ readings[i].place = raws[i] \/ (m # << >> /\ Under(raws[i], m) /\ readings[i].place = Via(m, raws[i]))
    <3>1. \A i \in DOMAIN raws : raws[i] \in Raws
        OBVIOUS
    <3> QED
        BY <2>2, <3>1 DEF GoodReadings
  <2>4. ASSUME NEW p \in Raws, NEW q \in Raws, Under(p, Code) => m = Code,
               m # << >>, Under(q, m), p = Via(m, q)
        PROVE  p = q
    <3>1. Under(p, Code) /\ (m = Code => p = q)
        BY <2>4, ViaFacts
    <3> QED
        BY <2>4, <3>1
  <2>5. ASSUME NEW i \in DOMAIN readings, NEW j \in DOMAIN readings, readings[i].place = readings[j].place
        PROVE  i = j
    <3>1. raws[i] = raws[j]
      <4>1. CASE readings[i].place = raws[i] /\ readings[j].place = raws[j]
          BY <2>5, <4>1
      <4>2. CASE readings[i].place = raws[i] /\ m # << >> /\ Under(raws[j], m) /\ readings[j].place = Via(m, raws[j])
          BY <2>3, <2>4, <2>5, <4>2
      <4>3. CASE readings[j].place = raws[j] /\ m # << >> /\ Under(raws[i], m) /\ readings[i].place = Via(m, raws[i])
          BY <2>3, <2>4, <2>5, <4>3
      <4>4. CASE /\ m # << >> /\ Under(raws[i], m) /\ readings[i].place = Via(m, raws[i])
                 /\ Under(raws[j], m) /\ readings[j].place = Via(m, raws[j])
        <5>1. Via(m, raws[i]) = Via(m, raws[j]) /\ raws[i] \in Raws /\ raws[j] \in Raws
            BY <2>3, <2>5, <4>4
        <5> QED
            BY <4>4, <5>1, ViaFacts
      <4> QED
          BY <2>3, <4>1, <4>2, <4>3, <4>4
    <3> QED
        BY <2>2, <3>1 DEF GoodReadings
  <2>6. ASSUME stage = "done", NEW p \in DOMAIN tree, Walkable(p), Steady(p)
        PROVE  \E i \in DOMAIN readings : readings[i].place = p /\ (Last(p) = "nfd" \/ readings[i].got = p)
    <3>1. frames = << >> /\ entry = << >>
        BY <2>6 DEF WalkInv
    <3>2. ~Awaited(p)
      <4>1. DOMAIN frames = {}
          BY <3>1
      <4> QED
          BY <3>1, <4>1 DEF Awaited, AwaitedIn
    <3> QED
        BY <2>2, <2>6, <3>2 DEF Covered, Expected, Read
  <2>7. \A i \in DOMAIN readings :
           readings[i].got = Nowhere =>
              changed # {} \/ Last(readings[i].place) = "nfd" \/ tree[readings[i].place].kind = "link"
      BY <2>2 DEF GoodReadings
  <2> QED
      BY <2>5, <2>6, <2>7 DEF TreeIsAccountedFor
<1> QED
    BY <1>1, <1>2

\* The tables are as good as the list when they are as long as it is.
DispatchInv ==
    /\ catalogers \in Seq(Matchers) /\ index.size \in Nat /\ index.size <= Len(catalogers)
    /\ index.size = Len(catalogers) => index.of = Range(catalogers)
    /\ DispatchMissesNothing

LEMMA BucketOfMatch ==
    ASSUME NEW m, NEW f, Matches(m, f)
    PROVE  RequiredName(m) \in Buckets3(f)
<1>1. CASE m.stem # Anything /\ m.ext # Anything
  <2>1. RequiredName(m) = <<"exact", m.stem, m.ext>>
      BY <1>1 DEF RequiredName
  <2>2. m.stem = f.stem /\ m.ext = f.ext
      BY <1>1 DEF Matches, Fits
  <2> QED
      BY <2>1, <2>2 DEF Buckets3
<1>2. CASE m.stem = Anything /\ m.ext \notin {Anything, Bare}
  <2>1. RequiredName(m) = <<"extension", m.ext>>
      BY <1>2 DEF RequiredName
  <2>2. m.ext = f.ext
      BY <1>2 DEF Matches, Fits
  <2> QED
      BY <2>1, <2>2 DEF Buckets3
<1>3. CASE ~(m.stem # Anything /\ m.ext # Anything) /\ ~(m.stem = Anything /\ m.ext \notin {Anything, Bare})
    BY <1>3 DEF RequiredName, Buckets3
<1> QED
    BY <1>1, <1>2, <1>3

LEMMA StepKeepsDispatch ==
    ASSUME DispatchInv, [TreeNext]_treeVars
    PROVE  DispatchInv'
<1>1. ASSUME NEW m \in Matchers, Register(m) PROVE DispatchInv'
  <2>1. /\ catalogers' = IF m \in Range(catalogers) THEN catalogers ELSE Append(catalogers, m)
        /\ offered' = << >> /\ index' = index
      BY <1>1 DEF Register
  <2>2. CASE m \in Range(catalogers)
      BY <2>1, <2>2 DEF DispatchInv, DispatchMissesNothing
  <2>3. CASE m \notin Range(catalogers)
    <3>1. catalogers' \in Seq(Matchers) /\ Len(catalogers') = Len(catalogers) + 1 /\ Len(catalogers) \in Nat
        BY <2>1, <2>3 DEF DispatchInv
    <3>2. index'.size \in Nat /\ index'.size <= Len(catalogers)
        BY <2>1 DEF DispatchInv
    <3>3. index'.size <= Len(catalogers') /\ index'.size # Len(catalogers')
        BY <3>1, <3>2
    <3>4. DispatchMissesNothing'
        BY <2>1 DEF DispatchMissesNothing
    <3> QED
        BY <3>1, <3>2, <3>3, <3>4 DEF DispatchInv
  <2> QED
      BY <2>2, <2>3
<1>2. ASSUME NEW f \in FileNames, Dispatch(f) PROVE DispatchInv'
  <2>1. /\ index' = IF index.size = Len(catalogers) THEN index ELSE [size |-> Len(catalogers), of |-> Range(catalogers)]
        /\ offered' = <<f, {m \in index'.of : RequiredName(m) \in Buckets3(f) /\ Matches(m, f)}, Range(catalogers)>>
        /\ catalogers' = catalogers
      BY <1>2 DEF Dispatch
  <2>2. index'.size = Len(catalogers) /\ index'.of = Range(catalogers)
      BY <2>1 DEF DispatchInv
  <2>3. {m \in index'.of : RequiredName(m) \in Buckets3(f) /\ Matches(m, f)} = {m \in Range(catalogers) : Matches(m, f)}
      BY <2>2, BucketOfMatch
  <2>4. offered' = <<f, {m \in Range(catalogers) : Matches(m, f)}, Range(catalogers)>>
      BY <2>1, <2>3
  <2>5. offered'[1] = f /\ offered'[2] = {m \in Range(catalogers) : Matches(m, f)} /\ offered'[3] = Range(catalogers)
      BY <2>4
  <2>6. DispatchMissesNothing'
      BY <2>5 DEF DispatchMissesNothing
  <2>7. Len(catalogers) \in Nat /\ catalogers \in Seq(Matchers)
      BY DEF DispatchInv
  <2> QED
      BY <2>1, <2>2, <2>6, <2>7 DEF DispatchInv
<1>3. CASE UNCHANGED <<catalogers, index, offered>>
    BY <1>3 DEF DispatchInv, DispatchMissesNothing
<1>4. CASE \E place \in Places : (\E node \in Nodes(place) : Create(place, node)) \/ TakeAway(place)
    BY <1>3, <1>4 DEF Create, TakeAway
<1>5. CASE BeginWalk \/ VisitChild \/ ReadEntry \/ Finish
    BY <1>3, <1>5 DEF BeginWalk, VisitChild, ReadEntry, Finish
<1>6. CASE UNCHANGED treeVars
    BY <1>3, <1>6 DEF treeVars
<1> QED
    BY <1>1, <1>2, <1>4, <1>5, <1>6 DEF TreeNext

LEMMA StepKeepsWalkInv ==
    ASSUME WalkInv, [TreeNext]_treeVars
    PROVE  WalkInv'
<1>1. CASE UNCHANGED <<tree, ignored, frames, seen, entry, readings, changed, stage>>
  <2>1. stage # "before" => (\E m \in Raws : \E raws \in Seq(Raws) : Walked(m, raws)') /\ Covered'
      BY <1>1, WalkedSame DEF WalkInv
  <2>2. GoodTree'
      BY <1>1 DEF WalkInv, GoodTree
  <2> QED
      BY <1>1, <2>1, <2>2 DEF WalkInv
<1>2. CASE Finish
  <2>1. /\ stage = "walking" /\ frames = << >> /\ entry = << >> /\ stage' = "done"
        /\ UNCHANGED <<tree, ignored, frames, seen, entry, readings, changed>>
      BY <1>2 DEF Finish
  <2>2. (\E m \in Raws : \E raws \in Seq(Raws) : Walked(m, raws)') /\ Covered'
      BY <2>1, WalkedSame DEF WalkInv
  <2>3. GoodTree'
      BY <2>1 DEF WalkInv, GoodTree
  <2> QED
      BY <2>1, <2>2, <2>3 DEF WalkInv
<1>3. CASE \E place \in Places : (\E node \in Nodes(place) : Create(place, node)) \/ TakeAway(place)
    BY <1>3, TreeKeepsWalk
<1>4. CASE BeginWalk
    BY <1>4, BeginKeepsWalk
<1>5. CASE VisitChild
    BY <1>5, VisitKeepsWalk
<1>6. CASE ReadEntry
    BY <1>6, ReadKeepsWalk
<1>7. CASE \E m \in Matchers : Register(m)
    BY <1>1, <1>7 DEF Register
<1>8. CASE \E f \in FileNames : Dispatch(f)
    BY <1>1, <1>8 DEF Dispatch
<1>9. CASE UNCHANGED treeVars
    BY <1>1, <1>9 DEF treeVars
<1> QED
    BY <1>2, <1>3, <1>4, <1>5, <1>6, <1>7, <1>8, <1>9 DEF TreeNext

\* A walk of a tree that others change comes to no file twice and leaves out none
\* that stood there throughout, and a file is offered to every cataloger whose
\* matcher accepts it, whatever the places of the tree and the number of changes.
THEOREM NothingEverOverlooked == TreeSpec => []NothingIsOverlooked
<1>1. TreeInit => WalkInv /\ DispatchInv
  <2> SUFFICES ASSUME TreeInit PROVE WalkInv /\ DispatchInv
      OBVIOUS
  <2>1. DOMAIN tree = {}
      BY DEF TreeInit
  <2>2. GoodTree
      BY <2>1 DEF GoodTree
  <2>3. WalkInv
      BY <2>2 DEF TreeInit, WalkInv
  <2>4. catalogers = << >> /\ index.size = 0 /\ index.of = {} /\ offered = << >>
      BY DEF TreeInit
  <2>5. Range(<< >>) = {}
      BY DEF Range
  <2>6. DispatchInv
      BY <2>4, <2>5 DEF DispatchInv, DispatchMissesNothing
  <2> QED
      BY <2>3, <2>6
<1>2. (WalkInv /\ DispatchInv) /\ [TreeNext]_treeVars => (WalkInv /\ DispatchInv)'
    BY StepKeepsWalkInv, StepKeepsDispatch
<1>3. WalkInv /\ DispatchInv => NothingIsOverlooked
    BY WalkAccounts DEF DispatchInv, NothingIsOverlooked
<1> QED
    BY <1>1, <1>2, <1>3, PTL DEF TreeSpec
====
