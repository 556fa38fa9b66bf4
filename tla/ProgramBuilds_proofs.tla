------------------------ MODULE ProgramBuilds_proofs ------------------------
(***************************************************************************)
(* Proofs about ProgramBuilds, for any number of processes, any versions    *)
(* and any subset of the languages.  What a directory holds tells how far   *)
(* its build has come: a harness that can run in it needs something that    *)
(* is made by the last step, or after the step that resolves the SDK.       *)
(***************************************************************************)
EXTENDS ProgramBuilds, SequenceTheorems, TLAPS

\* A step as it is written: it makes one thing and its failure ends the build.
LEMMA StepFacts ==
  /\ \A x : /\ Step(x).makes = x /\ ~Step(x).resolves
            /\ ~Step(x).leaves /\ Step(x).failure = "error"
  /\ \A x : /\ SDKStep(x).makes = x /\ SDKStep(x).resolves
            /\ ~SDKStep(x).leaves /\ SDKStep(x).failure = "error"
  BY DEF Step, SDKStep

\* Leaving only changes what a step that fails leaves.
LEMMA LeavingFacts ==
  \A x : /\ Leaving(Step(x)).makes = x /\ ~Leaving(Step(x)).resolves
         /\ Leaving(Step(x)).failure = "error"
  BY DEF Step, Leaving

-----------------------------------------------------------------------------
(***************************************************************************)
(* What the proofs need of the steps b of a builder.                       *)
(***************************************************************************)
\* No step makes x.
Without(x, b) ==
  \A i \in 1..Len(b) : b[i].makes # x /\ ~b[i].leaves /\ b[i].failure = "error"

\* Only the last step makes x.
MadeLast(x, b) ==
  \A i \in 1..Len(b) : (b[i].makes = x => i = Len(b)) /\ ~b[i].leaves

\* A step that resolves the SDK must pass before there is an x, even half an x.
MadeResolved(x, b) ==
  \A i \in 1..Len(b) :
    /\ b[i].failure = "error"
    /\ b[i].makes = x => \E j \in 1..i : b[j].resolves /\ (b[i].leaves => j < i)

\* The elements of two sequences put together.
LEMMA Joined ==
  ASSUME NEW S, NEW s \in Seq(S), NEW t \in Seq(S)
  PROVE  /\ s \o t \in Seq(S) /\ Len(s) \in Nat /\ Len(t) \in Nat
         /\ Len(s \o t) = Len(s) + Len(t)
         /\ \A i \in 1..Len(s \o t) :
              \/ i \in 1..Len(s) /\ (s \o t)[i] = s[i]
              \/ i - Len(s) \in 1..Len(t) /\ (s \o t)[i] = t[i - Len(s)]
         /\ \A i \in 1..Len(s) : i \in 1..Len(s \o t) /\ (s \o t)[i] = s[i]
         /\ \A i \in 1..Len(t) : (s \o t)[Len(s) + i] = t[i]
  <1>1. /\ s \o t \in Seq(S) /\ Len(s \o t) = Len(s) + Len(t)
        /\ \A i \in 1..Len(s) + Len(t) :
             (s \o t)[i] = IF i <= Len(s) THEN s[i] ELSE t[i - Len(s)]
    BY ConcatProperties
  <1>2. Len(s) \in Nat /\ Len(t) \in Nat
    OBVIOUS
  <1>3. \A i \in 1..Len(t) : Len(s) + i \in 1..Len(s) + Len(t) /\ ~(Len(s) + i <= Len(s))
                             /\ Len(s) + i - Len(s) = i
    BY <1>2
  <1>4. \A i \in 1..Len(t) : (s \o t)[Len(s) + i] = t[i]
    BY <1>1, <1>3
  <1>. QED  BY <1>1, <1>2, <1>4

\* Up to two steps that are there on a condition only.
LEMMA Optional ==
  ASSUME NEW S, NEW x \in S, NEW y \in S, NEW s,
         s = <<x, y>> \/ s = <<x>> \/ s = <<>>
  PROVE  s \in Seq(S) /\ \A i \in 1..Len(s) : s[i] \in {x, y}
  <1>1. /\ Len(<<x, y>>) = 2 /\ <<x, y>>[1] = x /\ <<x, y>>[2] = y
        /\ Len(<<x>>) = 1 /\ <<x>>[1] = x
        /\ Len(<<>>) = 0
    OBVIOUS
  <1>2. <<x, y>> \in Seq(S) /\ <<x>> \in Seq(S) /\ <<>> \in Seq(S)
    OBVIOUS
  <1>3. CASE s = <<x, y>>
    BY <1>1, <1>2, <1>3
  <1>4. CASE s = <<x>>
    BY <1>1, <1>2, <1>4
  <1>5. CASE s = <<>>
    BY <1>1, <1>2, <1>5
  <1>. QED  BY <1>3, <1>4, <1>5

\* Steps before those of a builder.
LEMMA Before ==
  ASSUME NEW S, NEW s \in Seq(S), NEW t \in Seq(S), NEW x, Without(x, s)
  PROVE  /\ Without(x, t) => Without(x, s \o t)
         /\ MadeLast(x, t) => MadeLast(x, s \o t)
         /\ MadeResolved(x, t) => MadeResolved(x, s \o t)
  <1>. DEFINE b == s \o t
  <1>1. /\ Len(s) \in Nat /\ Len(t) \in Nat /\ Len(b) = Len(s) + Len(t)
        /\ \A i \in 1..Len(b) :
             \/ i \in 1..Len(s) /\ b[i] = s[i]
             \/ i - Len(s) \in 1..Len(t) /\ b[i] = t[i - Len(s)]
        /\ \A i \in 1..Len(t) : b[Len(s) + i] = t[i]
    BY Joined
  <1>. HIDE DEF b
  <1>2. Without(x, t) => Without(x, b)
    BY <1>1 DEF Without
  <1>3. MadeLast(x, t) => MadeLast(x, b)
    <2>1. SUFFICES ASSUME MadeLast(x, t), NEW i \in 1..Len(b)
                   PROVE  (b[i].makes = x => i = Len(b)) /\ ~b[i].leaves
      BY DEF MadeLast
    <2>2. CASE i \in 1..Len(s) /\ b[i] = s[i]
      BY <2>2 DEF Without
    <2>3. CASE i - Len(s) \in 1..Len(t) /\ b[i] = t[i - Len(s)]
      <3>1. i - Len(s) = Len(t) => i = Len(b)
        BY <1>1, <2>3
      <3>. QED  BY <2>1, <2>3, <3>1 DEF MadeLast
    <2>. QED  BY <1>1, <2>2, <2>3
  <1>4. ASSUME MadeResolved(x, t) PROVE MadeResolved(x, b)
    <2>1. SUFFICES ASSUME NEW i \in 1..Len(b)
                   PROVE  /\ b[i].failure = "error"
                          /\ b[i].makes = x =>
                               \E j \in 1..i : b[j].resolves /\ (b[i].leaves => j < i)
      BY DEF MadeResolved
    <2>2. CASE i \in 1..Len(s) /\ b[i] = s[i]
      BY <2>2 DEF Without
    <2>3. CASE i - Len(s) \in 1..Len(t) /\ b[i] = t[i - Len(s)]
      <3>1. b[i].failure = "error"
        BY <1>4, <2>3 DEF MadeResolved
      <3>2. ASSUME b[i].makes = x
            PROVE  \E j \in 1..i : b[j].resolves /\ (b[i].leaves => j < i)
        <4>1. PICK j \in 1..(i - Len(s)) :
                     t[j].resolves /\ (t[i - Len(s)].leaves => j < i - Len(s))
          BY <1>4, <2>3, <3>2 DEF MadeResolved
        <4>2. /\ Len(s) + j \in 1..i /\ j \in 1..Len(t)
              /\ j < i - Len(s) => Len(s) + j < i
          BY <1>1, <2>3
        <4>3. b[Len(s) + j] = t[j]
          BY <1>1, <4>2
        <4>. QED  BY <2>3, <4>1, <4>2, <4>3
      <3>. QED  BY <3>1, <3>2
    <2>. QED  BY <1>1, <2>2, <2>3
  <1>. QED  BY <1>2, <1>3, <1>4 DEF b

\* Steps after those of a builder.
LEMMA After ==
  ASSUME NEW S, NEW s \in Seq(S), NEW t \in Seq(S), NEW x, Without(x, t)
  PROVE  MadeResolved(x, s) => MadeResolved(x, s \o t)
  <1>. DEFINE b == s \o t
  <1>1. /\ Len(s) \in Nat /\ Len(b) = Len(s) + Len(t)
        /\ \A i \in 1..Len(b) :
             \/ i \in 1..Len(s) /\ b[i] = s[i]
             \/ i - Len(s) \in 1..Len(t) /\ b[i] = t[i - Len(s)]
        /\ \A i \in 1..Len(s) : b[i] = s[i]
    BY Joined
  <1>. HIDE DEF b
  <1>2. SUFFICES ASSUME MadeResolved(x, s), NEW i \in 1..Len(b)
                 PROVE  /\ b[i].failure = "error"
                        /\ b[i].makes = x =>
                             \E j \in 1..i : b[j].resolves /\ (b[i].leaves => j < i)
    BY DEF MadeResolved, b
  <1>3. CASE i \in 1..Len(s) /\ b[i] = s[i]
    <2>1. \A j \in 1..i : b[j] = s[j]
      BY <1>1, <1>3
    <2>. QED  BY <1>2, <1>3, <2>1 DEF MadeResolved
  <1>4. CASE i - Len(s) \in 1..Len(t) /\ b[i] = t[i - Len(s)]
    BY <1>4 DEF Without
  <1>. QED  BY <1>1, <1>3, <1>4

-----------------------------------------------------------------------------
(***************************************************************************)
(* The builders.                                                           *)
(***************************************************************************)
\* GoBuild resolves the SDK with go.mod and makes the program last.
LEMMA GoFacts ==
  ASSUME NEW k
  PROVE  /\ Len(GoBuild(k)) \in Nat
         /\ MadeLast("program", GoBuild(k)) /\ MadeResolved("program", GoBuild(k))
  <1>. DEFINE b == GoBuild(k)
  <1>1. b = <<SDKStep("go.mod"), Step("main.go"), Step("go.sum"), Step("program")>>
    BY DEF GoBuild
  <1>. HIDE DEF b
  <1>2. /\ Len(b) = 4 /\ b[1].resolves
        /\ \A i \in 1..4 : ~b[i].leaves /\ b[i].failure = "error"
    BY <1>1, StepFacts
  <1>3. \A i \in 1..4 : b[i].makes = "program" => i = 4
    BY <1>1, StepFacts
  <1>. QED  BY <1>2, <1>3 DEF MadeLast, MadeResolved, b

\* DotNetBuild makes the build last, which resolves the SDK.
LEMMA DotNetFacts ==
  ASSUME NEW k
  PROVE  /\ Len(DotNetBuild(k)) \in Nat
         /\ MadeLast("build", DotNetBuild(k)) /\ MadeResolved("build", DotNetBuild(k))
  <1>. DEFINE s == IF k = "path"
                     THEN <<Step("Temporalio.csproj"), Step("SDK's build")>>
                     ELSE <<>>
              t == <<Step("program.csproj"), Step("Program.cs"), SDKStep("build")>>
              S == {Step("Temporalio.csproj"), Step("SDK's build"),
                    Step("program.csproj"), Step("Program.cs"), SDKStep("build")}
  <1>1. /\ s \in Seq(S)
        /\ \A i \in 1..Len(s) : s[i] \in {Step("Temporalio.csproj"), Step("SDK's build")}
    <2>1. Step("Temporalio.csproj") \in S /\ Step("SDK's build") \in S
      OBVIOUS
    <2>2. s = <<Step("Temporalio.csproj"), Step("SDK's build")>> \/ s = <<>>
      OBVIOUS
    <2>. HIDE DEF s, S
    <2>. QED  BY <2>1, <2>2, Optional
  <1>2. t \in Seq(S) /\ Len(t) = 3
    OBVIOUS
  <1>3. DotNetBuild(k) = s \o t
    BY DEF DotNetBuild
  <1>. HIDE DEF s
  <1>4. Without("build", s)
    <2>1. \A y \in {Step("Temporalio.csproj"), Step("SDK's build")} :
            y.makes # "build" /\ ~y.leaves /\ y.failure = "error"
      BY StepFacts
    <2>. QED  BY <1>1, <2>1 DEF Without
  <1>5. /\ t[3].resolves /\ \A i \in 1..3 : ~t[i].leaves /\ t[i].failure = "error"
        /\ \A i \in 1..3 : t[i].makes = "build" => i = 3
    BY StepFacts
  <1>. HIDE DEF t, S
  <1>6. MadeLast("build", t) /\ MadeResolved("build", t)
    BY <1>2, <1>5 DEF MadeLast, MadeResolved
  <1>7. Len(s \o t) \in Nat
    BY <1>1, <1>2, Joined
  <1>. QED  BY <1>1, <1>2, <1>3, <1>4, <1>6, <1>7, Before

\* TypeScriptBuild resolves the SDK with package.json, and compiles last.
LEMMA TypeScriptFacts ==
  ASSUME NEW k
  PROVE  /\ Len(TypeScriptBuild(k)) \in Nat
         /\ MadeResolved("tslib", TypeScriptBuild(k))
  <1>. DEFINE s == IF k = "path"
                     THEN <<Step("SDK's package.json"), Step("SDK's modules")>>
                     ELSE <<>>
              t == <<SDKStep("package.json"), Step("tsconfig.json"),
                     Step("node_modules"), Leaving(Step("tslib"))>>
              S == {Step("SDK's package.json"), Step("SDK's modules"),
                    SDKStep("package.json"), Step("tsconfig.json"),
                    Step("node_modules"), Leaving(Step("tslib"))}
  <1>1. /\ s \in Seq(S)
        /\ \A i \in 1..Len(s) : s[i] \in {Step("SDK's package.json"), Step("SDK's modules")}
    <2>1. Step("SDK's package.json") \in S /\ Step("SDK's modules") \in S
      OBVIOUS
    <2>2. s = <<Step("SDK's package.json"), Step("SDK's modules")>> \/ s = <<>>
      OBVIOUS
    <2>. HIDE DEF s, S
    <2>. QED  BY <2>1, <2>2, Optional
  <1>2. t \in Seq(S) /\ Len(t) = 4
    OBVIOUS
  <1>3. TypeScriptBuild(k) = s \o t
    BY DEF TypeScriptBuild
  <1>. HIDE DEF s
  <1>4. Without("tslib", s)
    <2>1. \A y \in {Step("SDK's package.json"), Step("SDK's modules")} :
            y.makes # "tslib" /\ ~y.leaves /\ y.failure = "error"
      BY StepFacts
    <2>. QED  BY <1>1, <2>1 DEF Without
  <1>5. /\ t[1].resolves /\ \A i \in 1..4 : t[i].failure = "error"
        /\ \A i \in 1..4 : t[i].makes = "tslib" => i = 4
    BY StepFacts, LeavingFacts
  <1>. HIDE DEF t, S
  <1>6. MadeResolved("tslib", t)
    BY <1>2, <1>5 DEF MadeResolved
  <1>7. Len(s \o t) \in Nat
    BY <1>1, <1>2, Joined
  <1>. QED  BY <1>1, <1>2, <1>3, <1>4, <1>6, <1>7, Before

\* PhpBuild makes rr last; composer resolves the SDK before the vendor directory is
\* there, or with it.
LEMMA PhpFacts ==
  ASSUME NEW k
  PROVE  /\ Len(PhpBuild(k)) \in Nat
         /\ MadeLast("rr", PhpBuild(k)) /\ MadeResolved("vendor", PhpBuild(k))
  <1>. DEFINE s == <<Step("composer.json"), Step(".rr.yaml")>>
              m == IF k = "default" THEN <<SDKStep("vendor")>>
                   ELSE <<SDKStep("composer.lock"), Step("vendor")>>
              t == <<Step("rr")>>
              S == {Step("composer.json"), Step(".rr.yaml"), SDKStep("vendor"),
                    SDKStep("composer.lock"), Step("vendor"), Step("rr")}
  <1>1. s \in Seq(S) /\ t \in Seq(S)
    OBVIOUS
  <1>2. PhpBuild(k) = (s \o m) \o t
    BY DEF PhpBuild
  <1>3. Without("vendor", s) /\ Without("rr", s) /\ Without("vendor", t)
    <2>1. /\ Len(s) = 2 /\ Len(t) = 1
          /\ \A i \in 1..2 : s[i].makes \notin {"vendor", "rr"} /\ ~s[i].leaves
                             /\ s[i].failure = "error"
          /\ t[1].makes # "vendor" /\ ~t[1].leaves /\ t[1].failure = "error"
      BY StepFacts
    <2>. HIDE DEF s, t
    <2>. QED  BY <2>1 DEF Without
  <1>4. MadeLast("rr", t)
    <2>1. Len(t) = 1 /\ ~t[1].leaves
      BY StepFacts
    <2>. HIDE DEF t
    <2>. QED  BY <2>1 DEF MadeLast
  <1>5. m \in Seq(S) /\ Without("rr", m) /\ MadeResolved("vendor", m)
    <2>1. CASE k = "default"
      <3>. DEFINE n == <<SDKStep("vendor")>>
      <3>1. m = n /\ n \in Seq(S)
        BY <2>1
      <3>2. /\ Len(n) = 1 /\ n[1].resolves /\ n[1].makes # "rr" /\ ~n[1].leaves
            /\ n[1].failure = "error"
        BY StepFacts
      <3>. HIDE DEF n, m, S
      <3>. QED  BY <3>1, <3>2 DEF Without, MadeResolved
    <2>2. CASE k # "default"
      <3>. DEFINE n == <<SDKStep("composer.lock"), Step("vendor")>>
      <3>1. m = n /\ n \in Seq(S)
        BY <2>2
      <3>2. /\ Len(n) = 2 /\ n[1].resolves
            /\ \A i \in 1..2 : n[i].makes # "rr" /\ ~n[i].leaves /\ n[i].failure = "error"
        BY StepFacts
      <3>. HIDE DEF n, m, S
      <3>. QED  BY <3>1, <3>2 DEF Without, MadeResolved
    <2>. QED  BY <2>1, <2>2
  <1>. HIDE DEF s, m, t, S
  <1>6. s \o m \in Seq(S) /\ Without("rr", s \o m) /\ MadeResolved("vendor", s \o m)
    BY <1>1, <1>3, <1>5, Before, Joined
  <1>7. Len((s \o m) \o t) \in Nat
    BY <1>1, <1>6, Joined
  <1>. QED  BY <1>1, <1>2, <1>3, <1>4, <1>6, <1>7, Before, After

\* RubyBuild resolves the SDK with the Gemfile; bundler's vendor directory is made
\* last, unless the SDK is a path.
LEMMA RubyFacts ==
  ASSUME NEW k
  PROVE  /\ Len(RubyBuild(k)) \in Nat
         /\ k # "path" => MadeLast("vendor", RubyBuild(k))
         /\ MadeResolved("vendor", RubyBuild(k))
  <1>. DEFINE s == IF k = "path" THEN <<Step("temporalio.gemspec")>> ELSE <<>>
              t == <<SDKStep("Gemfile"), Step(".bundle/config"), Step("vendor")>>
              u == IF k = "path" THEN <<Step("SDK's extension")>> ELSE <<>>
              S == {Step("temporalio.gemspec"), SDKStep("Gemfile"),
                    Step(".bundle/config"), Step("vendor"), Step("SDK's extension")}
  <1>1. /\ s \in Seq(S) /\ \A i \in 1..Len(s) : s[i] = Step("temporalio.gemspec")
        /\ u \in Seq(S) /\ \A i \in 1..Len(u) : u[i] = Step("SDK's extension")
    <2>1. Step("temporalio.gemspec") \in S /\ Step("SDK's extension") \in S
      OBVIOUS
    <2>2. /\ s = <<Step("temporalio.gemspec")>> \/ s = <<>>
          /\ u = <<Step("SDK's extension")>> \/ u = <<>>
      OBVIOUS
    <2>. HIDE DEF s, u, S
    <2>3. \A r : \A x \in S : r = <<x>> \/ r = <<>> =>
                             r \in Seq(S) /\ \A i \in 1..Len(r) : r[i] = x
      <3>1. \A r : \A x \in S : r = <<x>> \/ r = <<>> =>
                               r \in Seq(S) /\ \A i \in 1..Len(r) : r[i] \in {x, x}
        BY Optional
      <3>. QED  BY <3>1
    <2>. QED  BY <2>1, <2>2, <2>3
  <1>2. t \in Seq(S) /\ Len(t) = 3
    OBVIOUS
  <1>3. RubyBuild(k) = (s \o t) \o u /\ (k # "path" => u = <<>>)
    BY DEF RubyBuild
  <1>. HIDE DEF s, u
  <1>4. Without("vendor", s) /\ Without("vendor", u)
    BY <1>1, StepFacts DEF Without
  <1>5. /\ t[1].resolves /\ \A i \in 1..3 : ~t[i].leaves /\ t[i].failure = "error"
        /\ \A i \in 1..3 : t[i].makes = "vendor" => i = 3
    BY StepFacts
  <1>. HIDE DEF t, S
  <1>6. MadeLast("vendor", t) /\ MadeResolved("vendor", t)
    BY <1>2, <1>5 DEF MadeLast, MadeResolved
  <1>7. s \o t \in Seq(S) /\ Len((s \o t) \o u) \in Nat
    BY <1>1, <1>2, Joined
  <1>8. k # "path" => (s \o t) \o u = s \o t
    BY <1>3, <1>7
  <1>9. MadeLast("vendor", s \o t) /\ MadeResolved("vendor", s \o t)
    BY <1>1, <1>2, <1>4, <1>6, Before
  <1>10. MadeResolved("vendor", (s \o t) \o u)
    BY <1>1, <1>4, <1>7, <1>9, After
  <1>. QED  BY <1>3, <1>7, <1>8, <1>9, <1>10

\* The others are sequences too.
LEMMA JavaAndPythonFacts ==
  ASSUME NEW k, NEW prepare \in BOOLEAN
  PROVE  Len(JavaBuild(k, prepare)) \in Nat /\ Len(PythonBuild(k)) \in Nat
  <1>1. Len(JavaBuild(k, prepare)) \in Nat
    <2>. DEFINE s == IF k = "path" THEN <<Step("build.gradle"), SDKStep("settings.gradle")>>
                                   ELSE <<SDKStep("build.gradle"), Step("settings.gradle")>>
                t == IF prepare THEN <<Step("caches")>> ELSE <<>>
                S == {Step("build.gradle"), SDKStep("settings.gradle"),
                      SDKStep("build.gradle"), Step("settings.gradle"), Step("caches")}
    <2>1. s \in Seq(S)
      <3>1. CASE k = "path"
        BY <3>1
      <3>2. CASE k # "path"
        BY <3>2
      <3>. QED  BY <3>1, <3>2
    <2>2. t \in Seq(S)
      <3>1. t = <<Step("caches")>> \/ t = <<>>
        OBVIOUS
      <3>2. Step("caches") \in S
        OBVIOUS
      <3>. HIDE DEF t, S
      <3>. QED  BY <3>1, <3>2, Optional
    <2>3. JavaBuild(k, prepare) = s \o t
      BY DEF JavaBuild
    <2>. HIDE DEF s, t, S
    <2>. QED  BY <2>1, <2>2, <2>3, Joined
  <1>2. Len(PythonBuild(k)) \in Nat
    <2>. DEFINE s == <<Step("pyproject.toml")>>
                m == IF k = "path" THEN <<Step("SDK's wheel")>> ELSE <<>>
                t == <<Tries(SDKStep("temporalio")), Tries(Step("features")), Step("uv.lock"),
                       Step("mypy"), Step("__init__.py"), Step("types")>>
                S == {Step("pyproject.toml"), Step("SDK's wheel"),
                      Tries(SDKStep("temporalio")), Tries(Step("features")), Step("uv.lock"),
                      Step("mypy"), Step("__init__.py"), Step("types")}
    <2>1. s \in Seq(S) /\ t \in Seq(S)
      OBVIOUS
    <2>2. m \in Seq(S)
      <3>1. m = <<Step("SDK's wheel")>> \/ m = <<>>
        OBVIOUS
      <3>2. Step("SDK's wheel") \in S
        OBVIOUS
      <3>. HIDE DEF m, S
      <3>. QED  BY <3>1, <3>2, Optional
    <2>3. PythonBuild(k) = (s \o m) \o t
      BY DEF PythonBuild
    <2>. HIDE DEF s, m, t, S
    <2>4. s \o m \in Seq(S)
      BY <2>1, <2>2, Joined
    <2>. QED  BY <2>1, <2>3, <2>4, Joined
  <1>. QED  BY <1>1, <1>2

\* Languages whose programs run only once the last step has passed.
LastStepNeeded(l, k) == l \in {"go", "cs", "php"} \/ (l = "rb" /\ k # "path")

\* Languages that resolve the SDK before the harness can run.
SDKNeeded(l) == l \in AllLangs \ {"py", "java"}

\* What the command of a program needs, and what the builder makes when.
LEMMA BuilderFacts ==
  ASSUME NEW l \in AllLangs, NEW k, NEW prepare \in BOOLEAN
  PROVE  /\ Len(Builder(l, k, prepare)) \in Nat
         /\ LastStepNeeded(l, k) =>
              \E x \in Program[l].needs : MadeLast(x, Builder(l, k, prepare))
         /\ SDKNeeded(l) =>
              \E x \in Program[l].needs : MadeResolved(x, Builder(l, k, prepare))
  <1>1. CASE l = "go"
    <2>1. "program" \in Program["go"].needs
      BY DEF Program, GoProgram
    <2>2. Builder("go", k, prepare) = GoBuild(k)
      BY DEF Builder
    <2>. QED  BY <1>1, <2>1, <2>2, GoFacts
  <1>2. CASE l = "java"
    <2>1. Builder("java", k, prepare) = JavaBuild(k, prepare)
      BY DEF Builder
    <2>. QED  BY <1>2, <2>1, JavaAndPythonFacts DEF LastStepNeeded, SDKNeeded
  <1>3. CASE l = "ts"
    <2>1. "tslib" \in Program["ts"].needs
      BY DEF Program, TypeScriptProgram
    <2>2. Builder("ts", k, prepare) = TypeScriptBuild(k)
      BY DEF Builder
    <2>. QED  BY <1>3, <2>1, <2>2, TypeScriptFacts DEF LastStepNeeded
  <1>4. CASE l = "php"
    <2>1. "vendor" \in Program["php"].needs /\ "rr" \in Program["php"].needs
      BY DEF Program, PhpProgram
    <2>2. Builder("php", k, prepare) = PhpBuild(k)
      BY DEF Builder
    <2>. QED  BY <1>4, <2>1, <2>2, PhpFacts
  <1>5. CASE l = "py"
    <2>1. Builder("py", k, prepare) = PythonBuild(k)
      BY DEF Builder
    <2>. QED  BY <1>5, <2>1, JavaAndPythonFacts DEF LastStepNeeded, SDKNeeded
  <1>6. CASE l = "cs"
    <2>1. "build" \in Program["cs"].needs
      BY DEF Program, DotNetProgram
    <2>2. Builder("cs", k, prepare) = DotNetBuild(k)
      BY DEF Builder
    <2>. QED  BY <1>6, <2>1, <2>2, DotNetFacts
  <1>7. CASE l = "rb"
    <2>1. "vendor" \in Program["rb"].needs
      BY DEF Program, RubyProgram
    <2>2. Builder("rb", k, prepare) = RubyBuild(k)
      BY DEF Builder
    <2>. QED  BY <1>7, <2>1, <2>2, RubyFacts DEF LastStepNeeded
  <1>. QED  BY <1>1, <1>2, <1>3, <1>4, <1>5, <1>6, <1>7 DEF AllLangs

-----------------------------------------------------------------------------
(***************************************************************************)
(* One directory.                                                          *)
(***************************************************************************)
\* What the first n steps of b have made, and what step n+1 may have left.
Made(b, n) ==
  {b[i].makes : i \in {j \in 1..Len(b) : j <= n \/ (j = n + 1 /\ b[j].leaves)}}

Things ==
  UNION {Made(Builder(l, k, prepare), Len(Builder(l, k, prepare))) :
           l \in AllLangs, k \in Kinds, prepare \in BOOLEAN}
Versions == {Version(l, k) : l \in AllLangs, k \in Kinds}

DirType == [there : BOOLEAN, have : SUBSET Things, sdk : Versions \cup {"none"},
            asked : Kinds \cup {"none"}, passed : Nat]

\* r holds nothing, or no more than its builder's steps have made of it.
DirOK(l, r, prepare) ==
  /\ r \in DirType
  /\ ~r.there => r = NoDir
  /\ r.there =>
       LET b == Builder(l, r.asked, prepare) IN
       /\ r.asked \in Kinds /\ r.passed \in 0..Len(b)
       /\ r.sdk \in {"none", Version(l, r.asked)}
       /\ r.have \subseteq Made(b, r.passed)
       /\ SDKNeeded(l) /\ (\E i \in 1..r.passed : b[i].resolves)
            => r.sdk = Version(l, r.asked)

\* A directory that is not there.
LEMMA NoDirOK ==
  ASSUME NEW l, NEW prepare PROVE DirOK(l, NoDir, prepare)
  <1>1. /\ NoDir = [there |-> FALSE, have |-> {}, sdk |-> "none", asked |-> "none",
                    passed |-> 0]
    BY DEF NoDir
  <1>2. NoDir \in DirType /\ ~NoDir.there
    BY <1>1 DEF DirType
  <1>. QED  BY <1>2 DEF DirOK

\* A directory that was just made, with what was there before: nothing.
LEMMA NewDirOK ==
  ASSUME NEW l \in AllLangs, NEW prepare \in BOOLEAN, NEW k \in Kinds
  PROVE  /\ DirOK(l, NewDir(k), prepare)
         /\ NewDir(k).there /\ NewDir(k).asked = k
         /\ NewDir(k) = [NewDir(k) EXCEPT !.have = NoDir.have, !.sdk = NoDir.sdk]
  <1>1. /\ NoDir \in DirType
        /\ NoDir.have = {} /\ NoDir.sdk = "none" /\ NoDir.passed = 0
    BY DEF NoDir, DirType
  <1>2. /\ NewDir(k) \in DirType /\ NewDir(k).there /\ NewDir(k).asked = k
        /\ NewDir(k).have = {} /\ NewDir(k).sdk = "none" /\ NewDir(k).passed = 0
    BY <1>1 DEF DirType, NewDir
  <1>3. NewDir(k) = [NewDir(k) EXCEPT !.have = NoDir.have, !.sdk = NoDir.sdk]
    BY <1>1, <1>2 DEF DirType
  <1>4. Len(Builder(l, k, prepare)) \in Nat
    BY BuilderFacts
  <1>. HIDE DEF NewDir
  <1>5. DirOK(l, NewDir(k), prepare)
    BY <1>2, <1>4 DEF DirOK
  <1>. QED  BY <1>2, <1>3, <1>5

\* A step more, or half a step more, makes more.
LEMMA MadeGrows ==
  ASSUME NEW b, Len(b) \in Nat, NEW n \in Nat, n < Len(b)
  PROVE  /\ Made(b, n) \subseteq Made(b, n + 1)
         /\ b[n + 1].makes \in Made(b, n + 1)
         /\ b[n + 1].leaves => b[n + 1].makes \in Made(b, n)
  BY DEF Made

\* Whatever a step makes is one of the things.
LEMMA MadeIsThings ==
  ASSUME NEW l \in AllLangs, NEW k \in Kinds, NEW prepare \in BOOLEAN,
         NEW n \in 1..Len(Builder(l, k, prepare))
  PROVE  Builder(l, k, prepare)[n].makes \in Things
  <1>. DEFINE b == Builder(l, k, prepare)
              made == Made(b, Len(b))
  <1>1. Len(b) \in Nat
    BY BuilderFacts
  <1>2. n <= Len(b)
    BY <1>1
  <1>3. made \in {Made(Builder(m, h, c), Len(Builder(m, h, c))) :
                   m \in AllLangs, h \in Kinds, c \in BOOLEAN}
    OBVIOUS
  <1>4. b[n].makes \in made
    <2>. HIDE DEF b
    <2>. QED  BY <1>1, <1>2 DEF Made
  <1>. HIDE DEF made
  <1>. QED  BY <1>3, <1>4 DEF Things

\* The directory after a step that failed and was ignored, and after one that failed
\* and left its product.
DirIgnored(r) == [r EXCEPT !.passed = @ + 1]
DirLeft(r, s) == [r EXCEPT !.have = @ \cup {s.makes}]

\* A step passes: what it makes is there, and the SDK it resolves is the one asked for.
LEMMA PassOK ==
  ASSUME NEW l \in AllLangs, NEW prepare \in BOOLEAN, NEW r, DirOK(l, r, prepare), r.there,
         NEW s, s = Builder(l, r.asked, prepare)[r.passed + 1],
         r.passed # Len(Builder(l, r.asked, prepare)),
         NEW q, q = DirAfter(r, s, Version(l, r.asked))
  PROVE  DirOK(l, q, prepare) /\ q.there /\ q.asked = r.asked /\ r.have \subseteq q.have
  <1>. DEFINE b == Builder(l, r.asked, prepare)
              v == Version(l, r.asked)
  <1>1. /\ r \in DirType /\ r.asked \in Kinds /\ r.passed \in 0..Len(b)
        /\ r.sdk \in {"none", v} /\ r.have \subseteq Made(b, r.passed)
        /\ SDKNeeded(l) /\ (\E i \in 1..r.passed : b[i].resolves) => r.sdk = v
    BY DEF DirOK
  <1>2. Len(b) \in Nat
    BY BuilderFacts
  <1>3. r.passed \in Nat /\ r.passed < Len(b) /\ r.passed + 1 \in 1..Len(b)
    BY <1>1, <1>2
  <1>4. s.makes \in Things /\ v \in Versions
    BY <1>1, <1>3, MadeIsThings DEF Versions
  <1>. HIDE DEF b, v
  <1>5. /\ q.there = r.there /\ q.asked = r.asked /\ q.passed = r.passed + 1
        /\ q.have = r.have \cup {s.makes}
        /\ q.sdk = IF s.resolves THEN v ELSE r.sdk
    BY <1>1 DEF DirType, DirAfter, v
  <1>6. q \in DirType
    <2>1. /\ r.have \cup {s.makes} \in SUBSET Things /\ r.passed + 1 \in Nat
          /\ (IF s.resolves THEN v ELSE r.sdk) \in Versions \cup {"none"}
      BY <1>1, <1>3, <1>4 DEF DirType
    <2>. QED  BY <1>1, <2>1 DEF DirType, DirAfter, v
  <1>7. q.have \subseteq Made(b, q.passed)
    BY <1>1, <1>2, <1>3, <1>5, MadeGrows DEF b
  <1>8. SDKNeeded(l) /\ (\E i \in 1..q.passed : b[i].resolves) => q.sdk = v
    <2>. SUFFICES ASSUME SDKNeeded(l), NEW i \in 1..q.passed, b[i].resolves
                  PROVE  q.sdk = v
      OBVIOUS
    <2>1. i \in 1..r.passed \/ i = r.passed + 1
      BY <1>3, <1>5
    <2>. QED  BY <1>1, <1>5, <2>1 DEF b
  <1>9. q.sdk \in {"none", v} /\ q.passed \in 0..Len(b)
    BY <1>1, <1>2, <1>3, <1>5
  <1>. QED  BY <1>1, <1>5, <1>6, <1>7, <1>8, <1>9 DEF DirOK, b, v

\* A step whose failure is ignored: it resolves no SDK that the harness needs.
LEMMA IgnoreOK ==
  ASSUME NEW l \in AllLangs, NEW prepare \in BOOLEAN, NEW r, DirOK(l, r, prepare), r.there,
         r.passed # Len(Builder(l, r.asked, prepare)),
         Builder(l, r.asked, prepare)[r.passed + 1].failure = "ignored",
         NEW q, q = DirIgnored(r)
  PROVE  DirOK(l, q, prepare) /\ q.there /\ q.asked = r.asked /\ r.have \subseteq q.have
  <1>. DEFINE b == Builder(l, r.asked, prepare)
              v == Version(l, r.asked)
  <1>1. /\ r \in DirType /\ r.asked \in Kinds /\ r.passed \in 0..Len(b)
        /\ r.sdk \in {"none", v} /\ r.have \subseteq Made(b, r.passed)
    BY DEF DirOK
  <1>2. Len(b) \in Nat /\ (SDKNeeded(l) => \A i \in 1..Len(b) : b[i].failure = "error")
    BY BuilderFacts DEF MadeResolved
  <1>. HIDE DEF b, v
  <1>3. r.passed \in Nat /\ r.passed < Len(b) /\ r.passed + 1 \in 1..Len(b)
    BY <1>1, <1>2 DEF b
  <1>4. ~SDKNeeded(l)
    BY <1>2, <1>3 DEF b
  <1>5. /\ q.there = r.there /\ q.asked = r.asked /\ q.passed = r.passed + 1
        /\ q.have = r.have /\ q.sdk = r.sdk
    BY <1>1 DEF DirType, DirIgnored
  <1>6. q \in DirType
    BY <1>1, <1>3 DEF DirType, DirIgnored
  <1>7. q.have \subseteq Made(b, q.passed)
    <2>1. Made(b, r.passed) \subseteq Made(b, r.passed + 1)
      BY <1>2, <1>3, MadeGrows
    <2>. QED  BY <1>1, <1>5, <2>1
  <1>8. q.sdk \in {"none", v} /\ q.passed \in 0..Len(b)
    BY <1>1, <1>2, <1>3, <1>5
  <1>. QED  BY <1>1, <1>4, <1>5, <1>6, <1>7, <1>8 DEF DirOK, b, v

\* A step that fails and leaves its product.
LEMMA LeaveOK ==
  ASSUME NEW l \in AllLangs, NEW prepare \in BOOLEAN, NEW r, DirOK(l, r, prepare), r.there,
         NEW s, s = Builder(l, r.asked, prepare)[r.passed + 1], s.leaves,
         r.passed # Len(Builder(l, r.asked, prepare)),
         NEW q, q = DirLeft(r, s)
  PROVE  DirOK(l, q, prepare) /\ q.there /\ q.asked = r.asked /\ r.have \subseteq q.have
  <1>. DEFINE b == Builder(l, r.asked, prepare)
              v == Version(l, r.asked)
  <1>1. /\ r \in DirType /\ r.asked \in Kinds /\ r.passed \in 0..Len(b)
        /\ r.sdk \in {"none", v} /\ r.have \subseteq Made(b, r.passed)
        /\ SDKNeeded(l) /\ (\E i \in 1..r.passed : b[i].resolves) => r.sdk = v
    BY DEF DirOK
  <1>2. Len(b) \in Nat
    BY BuilderFacts
  <1>3. r.passed \in Nat /\ r.passed < Len(b) /\ r.passed + 1 \in 1..Len(b)
    BY <1>1, <1>2
  <1>4. s.makes \in Things
    BY <1>1, <1>3, MadeIsThings
  <1>. HIDE DEF b, v
  <1>5. /\ q.there = r.there /\ q.asked = r.asked /\ q.passed = r.passed
        /\ q.have = r.have \cup {s.makes} /\ q.sdk = r.sdk
    BY <1>1 DEF DirType, DirLeft
  <1>6. q \in DirType
    BY <1>1, <1>4 DEF DirType, DirLeft
  <1>7. q.have \subseteq Made(b, q.passed)
    BY <1>1, <1>2, <1>3, <1>5, MadeGrows DEF b
  <1>. QED  BY <1>1, <1>5, <1>6, <1>7 DEF DirOK, b, v

\* Where the program can run, the SDK is the one asked for; and the last step has
\* passed where it is needed.
LEMMA CanRunOK ==
  ASSUME NEW l \in AllLangs, NEW prepare \in BOOLEAN, NEW r, DirOK(l, r, prepare), r.there,
         Program[l].needs \subseteq r.have
  PROVE  /\ SDKNeeded(l) => r.sdk = Version(l, r.asked)
         /\ LastStepNeeded(l, r.asked) => r.passed = Len(Builder(l, r.asked, prepare))
  <1>. DEFINE b == Builder(l, r.asked, prepare)
              v == Version(l, r.asked)
  <1>1. /\ r \in DirType /\ r.passed \in 0..Len(b)
        /\ r.have \subseteq Made(b, r.passed)
        /\ SDKNeeded(l) /\ (\E i \in 1..r.passed : b[i].resolves) => r.sdk = v
    BY DEF DirOK
  <1>2. /\ Len(b) \in Nat
        /\ LastStepNeeded(l, r.asked) => \E x \in Program[l].needs : MadeLast(x, b)
        /\ SDKNeeded(l) => \E x \in Program[l].needs : MadeResolved(x, b)
    BY BuilderFacts
  <1>. HIDE DEF b, v
  <1>3. \A x \in Program[l].needs :
          \E i \in 1..Len(b) : /\ b[i].makes = x
                               /\ i <= r.passed \/ (i = r.passed + 1 /\ b[i].leaves)
    BY <1>1 DEF Made
  <1>4. ASSUME SDKNeeded(l) PROVE r.sdk = v
    <2>1. PICK x \in Program[l].needs : MadeResolved(x, b)
      BY <1>2, <1>4
    <2>2. PICK i \in 1..Len(b) : /\ b[i].makes = x
                                 /\ i <= r.passed \/ (i = r.passed + 1 /\ b[i].leaves)
      BY <1>3
    <2>3. PICK j \in 1..i : b[j].resolves /\ (b[i].leaves => j < i)
      BY <2>1, <2>2 DEF MadeResolved
    <2>4. j \in 1..r.passed
      <3>1. CASE i <= r.passed
        BY <1>1, <1>2, <3>1
      <3>2. CASE i = r.passed + 1 /\ b[i].leaves
        BY <1>1, <1>2, <2>3, <3>2
      <3>. QED  BY <2>2, <3>1, <3>2
    <2>. QED  BY <1>1, <1>4, <2>3, <2>4
  <1>5. ASSUME LastStepNeeded(l, r.asked) PROVE r.passed = Len(b)
    <2>1. PICK x \in Program[l].needs : MadeLast(x, b)
      BY <1>2, <1>5
    <2>2. PICK i \in 1..Len(b) : /\ b[i].makes = x
                                 /\ i <= r.passed \/ (i = r.passed + 1 /\ b[i].leaves)
      BY <1>3
    <2>3. i = Len(b) /\ ~b[i].leaves
      BY <2>1, <2>2 DEF MadeLast
    <2>. QED  BY <1>1, <1>2, <2>2, <2>3
  <1>. QED  BY <1>4, <1>5 DEF b, v

-----------------------------------------------------------------------------
(***************************************************************************)
(* The invariant.                                                          *)
(***************************************************************************)
Types ==
  /\ lang \in Langs /\ kind \in [Procs -> Kinds]
  /\ pc \in [Procs -> {"idle", "build", "harness", "ended"}]
  /\ cmd \in [Procs -> {"none", "prepare", "run", "runPrepared"}]
  /\ disk \in [Places -> DirType]

Contents == \A d \in Places : DirOK(lang, disk[d], d = Prepared)

\* A build goes on in a directory that is there, for the version it was asked for.
Builders ==
  \A p \in Procs :
    pc[p] = "build" => /\ cmd[p] \in {"prepare", "run"}
                       /\ disk[Place(p)].there /\ disk[Place(p)].asked = kind[p]

\* Mkdir lets one prepare into the directory.
OnePrepares ==
  \A p, q \in Procs :
    pc[p] = "build" /\ cmd[p] = "prepare" /\ pc[q] = "build" /\ cmd[q] = "prepare"
      => p = q

\* A harness runs where it can run.
Harnesses ==
  \A p \in Procs :
    pc[p] = "harness" => cmd[p] \in {"run", "runPrepared"} /\ CanRun(Place(p))

IInv == Types /\ Contents /\ Builders /\ OnePrepares /\ Harnesses

\* A process works in its own directory or in the prepared one.
LEMMA PlaceFacts ==
  ASSUME Types, NEW p \in Procs
  PROVE  /\ lang \in AllLangs /\ kind[p] \in Kinds
         /\ Place(p) \in Places /\ Prepared \in Places /\ p \in Places /\ p # Prepared
         /\ cmd[p] = "run" => Place(p) = p
         /\ cmd[p] # "run" => Place(p) = Prepared
  BY ProgramBuildsAssumption DEF Types, Place, Places

\* The steps of p are those of its directory's builder.
LEMMA StepsFacts ==
  ASSUME IInv, NEW p \in Procs, pc[p] = "build"
  PROVE  /\ (cmd[p] = "prepare") = (Place(p) = Prepared)
         /\ Steps(p) = Builder(lang, disk[Place(p)].asked, Place(p) = Prepared)
         /\ disk[Place(p)].there
  <1>1. cmd[p] \in {"prepare", "run"} /\ disk[Place(p)].asked = kind[p] /\ disk[Place(p)].there
    BY DEF IInv, Builders
  <1>2. (cmd[p] = "prepare") = (Place(p) = Prepared)
    BY <1>1, PlaceFacts DEF IInv
  <1>. QED  BY <1>1, <1>2 DEF Steps

\* Initially there is no directory.
THEOREM InvInit == Init => IInv
  <1>. SUFFICES ASSUME Init PROVE IInv
    OBVIOUS
  <1>1. \A d \in Places : disk[d] = NoDir
    BY DEF Init
  <1>2. Contents
    BY <1>1, NoDirOK DEF Contents
  <1>3. NoDir \in DirType
    BY NoDirOK DEF DirOK
  <1>4. Types
    BY <1>3 DEF Init, Types
  <1>5. \A p \in Procs : pc[p] = "idle"
    BY DEF Init
  <1>. QED  BY <1>2, <1>4, <1>5 DEF IInv, Builders, OnePrepares, Harnesses

\* p moves on to next under command c and makes r of directory d: its own, or the
\* prepared one, which keeps what another may use.
Moves(p, d, r, next, c) ==
  /\ UNCHANGED <<lang, kind>>
  /\ pc' = [pc EXCEPT ![p] = next] /\ cmd' = [cmd EXCEPT ![p] = c]
  /\ disk' = [disk EXCEPT ![d] = r]
  /\ next \in {"build", "harness", "ended"} /\ c \in {"prepare", "run", "runPrepared"}
  /\ d = IF c = "run" THEN p ELSE Prepared
  /\ DirOK(lang, r, d = Prepared)
  /\ d = Prepared /\ disk[d].there =>
       r.there /\ r.asked = disk[d].asked /\ disk[d].have \subseteq r.have
  /\ next = "build" =>
       /\ c # "runPrepared" /\ r.there /\ r.asked = kind[p]
       /\ c = "prepare" => (pc[p] = "build" /\ cmd[p] = "prepare") \/ ~disk[Prepared].there
  /\ next = "harness" =>
       c # "prepare" /\ r.there /\ Program[lang].needs \subseteq r.have

\* Such a move keeps the invariant, for every process.
LEMMA MovesKeep ==
  ASSUME IInv, NEW p \in Procs, NEW d, NEW r, NEW next, NEW c, Moves(p, d, r, next, c)
  PROVE  IInv'
  <1>1. Types /\ Contents /\ Builders /\ OnePrepares /\ Harnesses
    BY DEF IInv
  <1>2. r \in DirType
    BY DEF DirOK, Moves
  <1>3. Types'
    BY <1>1, <1>2 DEF Types, Moves
  <1>4. /\ \A e \in Places : disk'[e] = IF e = d THEN r ELSE disk[e]
        /\ \A q \in Procs : /\ pc'[q] = IF q = p THEN next ELSE pc[q]
                            /\ cmd'[q] = IF q = p THEN c ELSE cmd[q]
        /\ lang' = lang /\ kind' = kind
    BY <1>1 DEF Types, Moves
  <1>5. Contents'
    BY <1>1, <1>4 DEF Contents, Moves
  <1>6. /\ \A q \in Procs : Place(q)' = IF cmd'[q] = "run" THEN q ELSE Prepared
        /\ \A q \in Procs : Place(q) = IF cmd[q] = "run" THEN q ELSE Prepared
        /\ \A q \in Procs : q # Prepared /\ q \in Places
        /\ Prepared \in Places
    BY <1>1, PlaceFacts DEF Place
  <1>7. \A q \in Procs \ {p} :
          /\ Place(q)' = Place(q)
          /\ disk[Place(q)].there =>
               /\ disk'[Place(q)].there /\ disk'[Place(q)].asked = disk[Place(q)].asked
               /\ disk[Place(q)].have \subseteq disk'[Place(q)].have
    BY <1>4, <1>6 DEF Moves
  <1>8. Builders'
    <2>. SUFFICES ASSUME NEW q \in Procs, pc'[q] = "build"
                  PROVE  /\ cmd'[q] \in {"prepare", "run"}
                         /\ disk'[Place(q)'].there /\ disk'[Place(q)'].asked = kind'[q]
      BY DEF Builders
    <2>1. CASE q = p
      BY <1>4, <1>6, <2>1 DEF Moves
    <2>2. CASE q # p
      BY <1>1, <1>4, <1>7, <2>2 DEF Builders
    <2>. QED  BY <2>1, <2>2
  <1>9. OnePrepares'
    <2>1. ASSUME NEW q \in Procs, q # p, pc[q] = "build", cmd[q] = "prepare",
                 next = "build", c = "prepare"
          PROVE  FALSE
      <3>1. disk[Prepared].there
        BY <1>1, <1>6, <2>1 DEF Builders
      <3>2. pc[p] = "build" /\ cmd[p] = "prepare"
        BY <2>1, <3>1 DEF Moves
      <3>. QED  BY <1>1, <2>1, <3>2 DEF OnePrepares
    <2>. QED  BY <1>1, <1>4, <2>1 DEF OnePrepares
  <1>10. Harnesses'
    <2>. SUFFICES ASSUME NEW q \in Procs, pc'[q] = "harness"
                  PROVE  /\ cmd'[q] \in {"run", "runPrepared"}
                         /\ disk'[Place(q)'].there
                         /\ Program[lang].needs \subseteq disk'[Place(q)'].have
      BY <1>4 DEF Harnesses, CanRun
    <2>1. CASE q = p
      BY <1>4, <1>6, <2>1 DEF Moves
    <2>2. CASE q # p
      BY <1>1, <1>4, <1>7, <2>2 DEF Harnesses, CanRun
    <2>. QED  BY <2>1, <2>2
  <1>. QED  BY <1>3, <1>5, <1>8, <1>9, <1>10 DEF IInv

\* Prepare, run, and run --prepared-dir: where a process may begin.
LEMMA BeginsKeep ==
  ASSUME IInv, NEW p \in Procs, Prepares(p) \/ Runs(p) \/ RunsPrepared(p)
  PROVE  IInv'
  <1>1. /\ Types /\ Contents /\ pc[p] = "idle" /\ kind[p] \in Kinds /\ lang \in AllLangs
        /\ Prepared \in Places /\ p \in Places /\ p # Prepared
    BY PlaceFacts DEF IInv, Prepares, Runs, RunsPrepared
  <1>2. \A d \in Places : disk = [disk EXCEPT ![d] = disk[d]] /\ DirOK(lang, disk[d], d = Prepared)
    BY <1>1 DEF Types, Contents
  <1>3. CASE Prepares(p) /\ Mkdir
    <2>1. /\ pc' = [pc EXCEPT ![p] = "build"] /\ cmd' = [cmd EXCEPT ![p] = "prepare"]
          /\ lang' = lang /\ kind' = kind /\ ~disk[Prepared].there
          /\ disk' = [disk EXCEPT ![Prepared] =
                        [NewDir(kind[p]) EXCEPT !.have = disk[Prepared].have,
                                                !.sdk = disk[Prepared].sdk]]
      BY <1>3 DEF Prepares, Mkdir
    <2>2. disk[Prepared] = NoDir
      BY <1>2, <1>1, <2>1 DEF DirOK
    <2>3. /\ disk' = [disk EXCEPT ![Prepared] = NewDir(kind[p])]
          /\ DirOK(lang, NewDir(kind[p]), TRUE)
          /\ NewDir(kind[p]).there /\ NewDir(kind[p]).asked = kind[p]
      BY <1>1, <2>1, <2>2, NewDirOK
    <2>4. Moves(p, Prepared, NewDir(kind[p]), "build", "prepare")
      BY <1>1, <2>1, <2>3 DEF Moves
    <2>. QED  BY <2>4, MovesKeep
  <1>4. CASE Prepares(p) /\ ~Mkdir
    <2>1. /\ pc' = [pc EXCEPT ![p] = "ended"] /\ cmd' = [cmd EXCEPT ![p] = "prepare"]
          /\ lang' = lang /\ kind' = kind /\ disk' = disk
      BY <1>4 DEF Prepares, Ends
    <2>2. Moves(p, Prepared, disk[Prepared], "ended", "prepare")
      BY <1>1, <1>2, <2>1 DEF Moves
    <2>. QED  BY <2>2, MovesKeep
  <1>5. CASE Runs(p)
    <2>1. /\ pc' = [pc EXCEPT ![p] = "build"] /\ cmd' = [cmd EXCEPT ![p] = "run"]
          /\ lang' = lang /\ kind' = kind /\ disk' = [disk EXCEPT ![p] = NewDir(kind[p])]
      BY <1>5 DEF Runs
    <2>2. /\ DirOK(lang, NewDir(kind[p]), p = Prepared)
          /\ NewDir(kind[p]).there /\ NewDir(kind[p]).asked = kind[p]
      BY <1>1, NewDirOK
    <2>3. Moves(p, p, NewDir(kind[p]), "build", "run")
      BY <1>1, <2>1, <2>2 DEF Moves
    <2>. QED  BY <2>3, MovesKeep
  <1>6. CASE RunsPrepared(p)
    <2>1. /\ \/ /\ pc' = [pc EXCEPT ![p] = "harness"] /\ disk[Prepared].there
                /\ Program[lang].needs \subseteq disk[Prepared].have
             \/ pc' = [pc EXCEPT ![p] = "ended"]
          /\ cmd' = [cmd EXCEPT ![p] = "runPrepared"]
          /\ lang' = lang /\ kind' = kind /\ disk' = disk
      BY <1>6 DEF RunsPrepared, Ends, CanRun
    <2>2. disk' = [disk EXCEPT ![Prepared] = disk[Prepared]]
      BY <1>1, <1>2, <2>1
    <2>3. CASE /\ pc' = [pc EXCEPT ![p] = "harness"] /\ disk[Prepared].there
               /\ Program[lang].needs \subseteq disk[Prepared].have
      <3>1. Moves(p, Prepared, disk[Prepared], "harness", "runPrepared")
        BY <1>1, <1>2, <2>1, <2>2, <2>3 DEF Moves
      <3>. QED  BY <3>1, MovesKeep
    <2>4. CASE pc' = [pc EXCEPT ![p] = "ended"]
      <3>1. Moves(p, Prepared, disk[Prepared], "ended", "runPrepared")
        BY <1>1, <1>2, <2>1, <2>2, <2>4 DEF Moves
      <3>. QED  BY <3>1, MovesKeep
    <2>. QED  BY <2>1, <2>3, <2>4
  <1>. QED  BY <1>3, <1>4, <1>5, <1>6

\* The steps of a build.
LEMMA StepsKeep ==
  ASSUME IInv, NEW p \in Procs, StepPasses(p) \/ StepIgnored(p) \/ StepFails(p)
  PROVE  IInv'
  <1>. DEFINE d == Place(p)
              r == disk[d]
              b(prepare) == Builder(lang, r.asked, prepare)
  <1>1. /\ pc[p] = "build" /\ ~AllPassed(p) /\ lang' = lang /\ kind' = kind /\ cmd' = cmd
        /\ Types /\ Contents /\ kind[p] \in Kinds /\ lang \in AllLangs
        /\ p # Prepared /\ d \in Places
    BY PlaceFacts DEF IInv, StepPasses, StepIgnored, StepFails
  <1>2. /\ cmd[p] \in {"prepare", "run"} /\ r.there /\ r.asked = kind[p]
        /\ (cmd[p] = "prepare") = (d = Prepared)
        /\ d = IF cmd[p] = "run" THEN p ELSE Prepared
        /\ Steps(p) = b(d = Prepared)
    BY <1>1, StepsFacts DEF IInv, Builders, Place
  <1>3. PICK prepare \in BOOLEAN : prepare = (d = Prepared)
    OBVIOUS
  <1>. DEFINE s == b(prepare)[r.passed + 1]
  <1>4. NextStep(p) = s /\ r.passed # Len(b(prepare))
    BY <1>1, <1>2, <1>3 DEF NextStep, AllPassed
  <1>5. /\ pc = [pc EXCEPT ![p] = "build"] /\ cmd = [cmd EXCEPT ![p] = cmd[p]]
        /\ disk = [disk EXCEPT ![d] = r] /\ DirOK(lang, r, prepare)
    BY <1>1, <1>3 DEF Types, Contents
  <1>. HIDE DEF d
  <1>6. CASE StepPasses(p)
    <2>. DEFINE q == DirAfter(r, s, Version(lang, r.asked))
    <2>1. DirOK(lang, q, prepare) /\ q.there /\ q.asked = r.asked /\ r.have \subseteq q.have
      BY <1>1, <1>2, <1>4, <1>5, PassOK
    <2>2. /\ pc' = [pc EXCEPT ![p] = "build"] /\ cmd' = [cmd EXCEPT ![p] = cmd[p]]
          /\ disk' = [disk EXCEPT ![d] = q]
      <3>1. /\ disk' = [disk EXCEPT ![d] = DirAfter(r, NextStep(p), Version(lang, kind[p]))]
            /\ pc' = pc
        BY <1>6 DEF StepPasses, d
      <3>2. q = DirAfter(r, NextStep(p), Version(lang, kind[p]))
        <4>1. NextStep(p) = s /\ r.asked = kind[p]
          BY <1>2, <1>4
        <4>. HIDE DEF r, s
        <4>. QED  BY <4>1
      <3>. HIDE DEF q
      <3>. QED  BY <1>1, <1>5, <3>1, <3>2
    <2>. HIDE DEF q
    <2>3. DirOK(lang, q, d = Prepared)
      BY <1>3, <2>1
    <2>4. Moves(p, d, q, "build", cmd[p])
      BY <1>1, <1>2, <2>1, <2>2, <2>3 DEF Moves
    <2>. QED  BY <2>4, MovesKeep
  <1>7. CASE StepIgnored(p)
    <2>. DEFINE q == DirIgnored(r)
    <2>1. s.failure = "ignored"
      BY <1>4, <1>7 DEF StepIgnored
    <2>2. DirOK(lang, q, prepare) /\ q.there /\ q.asked = r.asked /\ r.have \subseteq q.have
      BY <1>1, <1>2, <1>4, <1>5, <2>1, IgnoreOK
    <2>3. /\ pc' = [pc EXCEPT ![p] = "build"] /\ cmd' = [cmd EXCEPT ![p] = cmd[p]]
          /\ disk' = [disk EXCEPT ![d] = q]
      BY <1>2, <1>4, <1>5, <1>7 DEF StepIgnored, DirIgnored, d
    <2>. HIDE DEF q
    <2>4. DirOK(lang, q, d = Prepared)
      BY <1>3, <2>2
    <2>5. Moves(p, d, q, "build", cmd[p])
      BY <1>1, <1>2, <2>2, <2>3, <2>4 DEF Moves
    <2>. QED  BY <2>5, MovesKeep
  <1>8. CASE StepFails(p)
    <2>1. pc' = [pc EXCEPT ![p] = "ended"] /\ cmd' = [cmd EXCEPT ![p] = cmd[p]]
      BY <1>5, <1>8 DEF StepFails, Ends
    <2>2. CASE cmd[p] = "run" /\ disk' = [disk EXCEPT ![p] = NoDir]
      <3>1. Moves(p, d, NoDir, "ended", cmd[p])
        BY <1>1, <1>2, <2>1, <2>2, NoDirOK DEF Moves
      <3>. QED  BY <3>1, MovesKeep
    <2>3. CASE disk' = disk
      <3>1. DirOK(lang, r, d = Prepared)
        BY <1>1 DEF Contents
      <3>2. Moves(p, d, r, "ended", cmd[p])
        BY <1>1, <1>2, <1>5, <2>1, <2>3, <3>1 DEF Moves
      <3>. QED  BY <3>2, MovesKeep
    <2>4. CASE s.leaves /\ disk' = [disk EXCEPT ![d].have = @ \cup {s.makes}]
      <3>. DEFINE q == DirLeft(r, s)
      <3>1. DirOK(lang, q, prepare) /\ q.there /\ q.asked = r.asked
            /\ r.have \subseteq q.have
        <4>1. /\ lang \in AllLangs /\ DirOK(lang, r, prepare) /\ r.there /\ s.leaves
              /\ r.passed # Len(b(prepare))
          BY <1>1, <1>2, <1>4, <1>5, <2>4
        <4>. QED  BY <4>1, LeaveOK
      <3>2. disk' = [disk EXCEPT ![d] = q]
        BY <2>4 DEF DirLeft
      <3>. HIDE DEF q
      <3>3. DirOK(lang, q, d = Prepared)
        BY <1>3, <3>1
      <3>4. Moves(p, d, q, "ended", cmd[p])
        BY <1>1, <1>2, <2>1, <3>1, <3>2, <3>3 DEF Moves
      <3>. QED  BY <3>4, MovesKeep
    <2>. QED  BY <1>2, <1>4, <1>8, <2>2, <2>3, <2>4 DEF StepFails, Removed, d
  <1>. QED  BY <1>6, <1>7, <1>8

\* A build or a harness that ends, or is killed.
LEMMA EndsKeep ==
  ASSUME IInv, NEW p \in Procs, BuildReturns(p) \/ HarnessEnds(p) \/ Killed(p)
  PROVE  IInv'
  <1>. DEFINE d == Place(p)
              r == disk[d]
  <1>1. /\ pc[p] \in {"build", "harness"} /\ lang' = lang /\ kind' = kind /\ cmd' = cmd
        /\ Types /\ Contents /\ kind[p] \in Kinds /\ lang \in AllLangs
        /\ p # Prepared /\ d \in Places
        /\ d = IF cmd[p] = "run" THEN p ELSE Prepared
    BY PlaceFacts DEF IInv, BuildReturns, HarnessEnds, Killed
  <1>2. cmd[p] \in {"prepare", "run", "runPrepared"} /\ r.there
    BY <1>1 DEF IInv, Builders, Harnesses, CanRun
  <1>3. /\ cmd' = [cmd EXCEPT ![p] = cmd[p]]
        /\ disk = [disk EXCEPT ![d] = r] /\ DirOK(lang, r, d = Prepared)
    BY <1>1 DEF Types, Contents
  <1>4. \/ pc' = [pc EXCEPT ![p] = "ended"] /\ disk' = disk
        \/ /\ pc' = [pc EXCEPT ![p] = "ended"] /\ cmd[p] = "run"
           /\ disk' = [disk EXCEPT ![p] = NoDir]
        \/ /\ pc' = [pc EXCEPT ![p] = "harness"] /\ cmd[p] = "run" /\ CanRun(p)
           /\ disk' = disk
    BY DEF BuildReturns, HarnessEnds, Killed, Ends, Removed
  <1>5. CASE pc' = [pc EXCEPT ![p] = "ended"] /\ disk' = disk
    <2>. HIDE DEF d
    <2>1. Moves(p, d, r, "ended", cmd[p])
      BY <1>1, <1>2, <1>3, <1>5 DEF Moves
    <2>. QED  BY <2>1, MovesKeep
  <1>6. CASE /\ pc' = [pc EXCEPT ![p] = "ended"] /\ cmd[p] = "run"
             /\ disk' = [disk EXCEPT ![p] = NoDir]
    <2>. HIDE DEF d
    <2>1. Moves(p, d, NoDir, "ended", cmd[p])
      BY <1>1, <1>2, <1>3, <1>6, NoDirOK DEF Moves
    <2>. QED  BY <2>1, MovesKeep
  <1>7. CASE /\ pc' = [pc EXCEPT ![p] = "harness"] /\ cmd[p] = "run" /\ CanRun(p)
             /\ disk' = disk
    <2>1. d = p /\ Program[lang].needs \subseteq r.have
      BY <1>1, <1>7 DEF CanRun
    <2>. HIDE DEF d
    <2>2. Moves(p, d, r, "harness", cmd[p])
      BY <1>1, <1>2, <1>3, <1>7, <2>1 DEF Moves
    <2>. QED  BY <2>2, MovesKeep
  <1>. QED  BY <1>4, <1>5, <1>6, <1>7

\* Every step keeps the invariant.
THEOREM InvStep == IInv /\ [Next]_vars => IInv'
  <1>. SUFFICES ASSUME IInv, [Next]_vars PROVE IInv'
    OBVIOUS
  <1>1. CASE UNCHANGED vars
    BY <1>1 DEF vars, IInv, Types, Contents, Builders, OnePrepares, Harnesses, Place, CanRun
  <1>2. CASE Next
    BY <1>2, BeginsKeep, StepsKeep, EndsKeep DEF Next
  <1>. QED  BY <1>1, <1>2

-----------------------------------------------------------------------------
\* The number of steps a directory's build has passed is one of its builder's, and the
\* directory it removes holds nothing (TypeOK of the runs).
THEOREM ProgramBuildsTypeOK == Spec => []TypeOK
  <1>1. ASSUME IInv PROVE TypeOK
    <2>1. Types /\ Contents
      BY <1>1 DEF IInv
    <2>2. ASSUME NEW d \in Places
          PROVE  /\ ~disk[d].there => disk[d] = NoDir
                 /\ disk[d].asked \in Kinds \cup {"none"}
                 /\ disk[d].sdk \in {"none", Version(lang, disk[d].asked)}
                 /\ disk[d].there =>
                      disk[d].passed \in 0..Len(Builder(lang, disk[d].asked, d = Prepared))
      <3>1. DirOK(lang, disk[d], d = Prepared) /\ disk[d] \in DirType
        BY <2>1 DEF Contents, DirOK
      <3>2. CASE disk[d].there
        BY <3>1, <3>2 DEF DirOK, DirType
      <3>3. CASE ~disk[d].there
        <4>1. disk[d] = NoDir
          BY <3>1, <3>3 DEF DirOK
        <4>. QED  BY <3>3, <4>1 DEF NoDir
      <3>. QED  BY <3>2, <3>3
    <2>. QED  BY <2>1, <2>2 DEF TypeOK, Types
  <1>. QED  BY <1>1, InvInit, InvStep, PTL DEF Spec

\* A harness runs in a directory where its program can run.
LEMMA HarnessDir ==
  ASSUME IInv, NEW p \in Procs, pc[p] = "harness"
  PROVE  /\ lang \in AllLangs /\ Place(p) \in Places
         /\ DirOK(lang, disk[Place(p)], Place(p) = Prepared)
         /\ disk[Place(p)].there /\ Program[lang].needs \subseteq disk[Place(p)].have
         /\ lang # "java" =>
              \A a, c \in BOOLEAN : \A k : Builder(lang, k, a) = Builder(lang, k, c)
  <1>1. Types /\ Contents /\ Harnesses
    BY DEF IInv
  <1>2. lang \in AllLangs /\ Place(p) \in Places
    BY <1>1, PlaceFacts
  <1>3. lang # "java" => \A a, c \in BOOLEAN : \A k : Builder(lang, k, a) = Builder(lang, k, c)
    BY DEF Builder
  <1>. QED  BY <1>1, <1>2, <1>3 DEF Contents, Harnesses, CanRun

\* Whatever processes share a directory, and wherever they are killed, a harness runs
\* against the SDK that was asked of the build of its directory (RunsAskedSDK): all
\* languages but Python and Java.
THEOREM RunsTheAskedSDK == Spec => []RunsAskedSDK
  <1>1. ASSUME IInv PROVE RunsAskedSDK
    <2>. SUFFICES ASSUME NEW p \in Procs, lang \notin {"py", "java"}, pc[p] = "harness"
                  PROVE  disk[Place(p)].sdk = Version(lang, disk[Place(p)].asked)
      BY DEF RunsAskedSDK, RunsAsked
    <2>. DEFINE r == disk[Place(p)]
    <2>1. PICK prepare \in BOOLEAN : prepare = (Place(p) = Prepared)
      OBVIOUS
    <2>2. /\ lang \in AllLangs /\ DirOK(lang, r, prepare)
          /\ r.there /\ Program[lang].needs \subseteq r.have
      BY <1>1, <2>1, HarnessDir
    <2>3. SDKNeeded(lang)
      BY <2>2 DEF SDKNeeded
    <2>. HIDE DEF r
    <2>4. r.sdk = Version(lang, r.asked)
      BY <2>2, <2>3, CanRunOK
    <2>. QED  BY <2>4 DEF r
  <1>. QED  BY <1>1, InvInit, InvStep, PTL DEF Spec

\* A harness never runs in a directory whose build has not passed all of its steps
\* (HalfBuiltNeverRuns): Go, .NET and PHP, and Ruby unless the SDK is a path.
THEOREM HalfBuiltDirNeverRuns == Spec => []HalfBuiltNeverRuns
  <1>1. ASSUME IInv PROVE HalfBuiltNeverRuns
    <2>. SUFFICES ASSUME NEW p \in Procs, pc[p] = "harness",
                         \/ lang \in {"go", "cs", "php"}
                         \/ lang = "rb" /\ disk[Place(p)].asked # "path"
                  PROVE  disk[Place(p)].passed = Len(Builder(lang, disk[Place(p)].asked, TRUE))
      BY DEF HalfBuiltNeverRuns
    <2>. DEFINE r == disk[Place(p)]
    <2>1. PICK prepare \in BOOLEAN : prepare = (Place(p) = Prepared)
      OBVIOUS
    <2>2. /\ lang \in AllLangs /\ DirOK(lang, r, prepare)
          /\ r.there /\ Program[lang].needs \subseteq r.have
          /\ Builder(lang, r.asked, prepare) = Builder(lang, r.asked, TRUE)
      BY <1>1, <2>1, HarnessDir
    <2>3. LastStepNeeded(lang, r.asked)
      BY DEF LastStepNeeded
    <2>. HIDE DEF r
    <2>4. r.passed = Len(Builder(lang, r.asked, prepare))
      BY <2>2, <2>3, CanRunOK
    <2>. QED  BY <2>2, <2>4 DEF r
  <1>. QED  BY <1>1, InvInit, InvStep, PTL DEF Spec

=============================================================================
