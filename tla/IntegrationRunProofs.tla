------------------------ MODULE IntegrationRunProofs ------------------------
(***************************************************************************)
(* For every set of sources, every choice of ignored names and whatever    *)
(* lies in the workspace before the first run: the gates of a run see what *)
(* its own sources add up to, and exit code 0 means that all of them       *)
(* passed.                                                                 *)
(*                                                                         *)
(* IInv of IntegrationRun is inductive; what the workspace holds in each   *)
(* phase (PhaseInv) is the argument.                                       *)
(***************************************************************************)
EXTENDS IntegrationRun, TLAPS

\* A tree is a function from some places to contents.
LEMMA TreeIsFunction ==
  ASSUME NEW t \in Tree
  PROVE  /\ DOMAIN t \subseteq Place
         /\ t = [p \in DOMAIN t |-> t[p]]
         /\ \A p \in DOMAIN t : t[p] \in Content \cup {Made}
BY DEF Tree

LEMMA FunctionIsTree ==
  ASSUME NEW S \in SUBSET Place, NEW f \in [S -> Content \cup {Made}]
  PROVE  f \in Tree
BY DEF Tree

LEMMA PlaceIsPair ==
  ASSUME NEW p \in Place
  PROVE  /\ p = <<p[1], p[2]>>
         /\ p[1] \in {"root", "module"}
         /\ p[2] \in Name
BY DEF Place

\* What the framework source has lies in its root.
LEMMA ModulePlace ==
  ASSUME NEW s \in Sources, NEW p \in DOMAIN s.module
  PROVE  p = <<"root", p[2]>> /\ p[2] \in Name
BY SourcesAssumption

LEMMA SourceTypes ==
  ASSUME NEW s \in Sources
  PROVE  /\ s.base \in Tree
         /\ s.module \in Tree
         /\ s.tfvars \in Content \cup {NoFile}
         /\ s.role \in {"runner", "framework", "other"}
         /\ s.case \in BOOLEAN
         /\ s.inside \in BOOLEAN
         /\ s.testVars \in BOOLEAN
BY SourcesAssumption DEF Source

LEMMA GatesFacts ==
  /\ Len(Gates) = 5
  /\ Gates[1] = "fmt" /\ Gates[2] = "init" /\ Gates[3] = "validate"
  /\ Gates[4] = "plan" /\ Gates[5] = "test"
  /\ Gates \in Seq({"fmt", "init", "validate", "plan", "test"})
BY DEF Gates

\* Putting a file into a tree, and removing one, gives a tree.
LEMMA PutTree ==
  ASSUME NEW t \in Tree, NEW q \in Place, NEW c \in Content \cup {Made}
  PROVE  [p \in DOMAIN t \cup {q} |-> IF p = q THEN c ELSE t[p]] \in Tree
<1>1. /\ DOMAIN t \subseteq Place
      /\ \A p \in DOMAIN t : t[p] \in Content \cup {Made}
  BY TreeIsFunction
<1>2. [p \in DOMAIN t \cup {q} |-> IF p = q THEN c ELSE t[p]]
        \in [DOMAIN t \cup {q} -> Content \cup {Made}]
  BY <1>1
<1>3. DOMAIN t \cup {q} \in SUBSET Place
  BY <1>1
<1> QED
  BY <1>2, <1>3, FunctionIsTree

LEMMA RestrictTree ==
  ASSUME NEW t \in Tree, NEW q
  PROVE  [p \in DOMAIN t \ {q} |-> t[p]] \in Tree
<1>1. [p \in DOMAIN t \ {q} |-> t[p]] \in [DOMAIN t \ {q} -> Content \cup {Made}]
  BY TreeIsFunction
<1>2. DOMAIN t \ {q} \in SUBSET Place
  BY TreeIsFunction
<1> QED
  BY <1>1, <1>2, FunctionIsTree

LEMMA WriteTree ==
  ASSUME NEW t \in Tree, NEW S \in SUBSET Place
  PROVE  [p \in DOMAIN t \cup S |-> IF p \in S THEN Made ELSE t[p]] \in Tree
<1>1. /\ DOMAIN t \subseteq Place
      /\ \A p \in DOMAIN t : t[p] \in Content \cup {Made}
  BY TreeIsFunction
<1>2. [p \in DOMAIN t \cup S |-> IF p \in S THEN Made ELSE t[p]]
        \in [DOMAIN t \cup S -> Content \cup {Made}]
  BY <1>1
<1>3. DOMAIN t \cup S \in SUBSET Place
  BY <1>1
<1> QED
  BY <1>2, <1>3, FunctionIsTree

LEMMA ArtifactPlaces ==
  ASSUME NEW g, NEW S \in SUBSET Artifacts(g)
  PROVE  /\ S \subseteq Place
         /\ \A p \in S : p[2] \in Ignored
         /\ S # {} => g \in {"init", "plan"}
BY NamesAssumption DEF Artifacts, Place

LEMMA CommandType ==
  ASSUME TypeOK, Len(ran) < Len(Gates)
  PROVE  [gate |-> NextGate, vars |-> VarFile(NextGate), on |-> ws] \in Command
<1>1. Len(ran) \in Nat
  BY DEF TypeOK
<1>2. NextGate \in {Gates[i] : i \in 1..Len(Gates)}
  BY <1>1, GatesFacts DEF NextGate
<1>3. VarFile(NextGate) \in BOOLEAN
  BY SourceTypes DEF VarFile, HasTfvars, TypeOK
<1> QED
  BY <1>2, <1>3 DEF Command, TypeOK

----------------------------------------------------------------------------
\* What the sources add up to, by the parts in which they are copied.
LEMMA AssemblyIs ==
  ASSUME NEW s \in Sources
  PROVE  LET data == IF s.tfvars = NoFile THEN {} ELSE {<<"root", Tfvars>>}
             mod == IF s.role = "runner"
                      THEN {<<"module", p[2]>> : p \in Copied(s.module)} ELSE {}
         IN  Assembly(s) =
               [p \in data \cup mod \cup Copied(s.base) |->
                  IF p \in data THEN s.tfvars
                  ELSE IF p \in mod THEN s.module[<<"root", p[2]>>]
                  ELSE s.base[p]]
<1> DEFINE kept == {p \in Place : p[2] \notin Ignored}
           fromTfvars == {p \in kept : p = <<"root", Tfvars>> /\ s.tfvars # NoFile}
           fromModule == {p \in kept : /\ s.role = "runner" /\ p[1] = "module"
                                       /\ <<"root", p[2]>> \in DOMAIN s.module}
           fromBase == kept \cap DOMAIN s.base
           data == IF s.tfvars = NoFile THEN {} ELSE {<<"root", Tfvars>>}
           mod == IF s.role = "runner"
                    THEN {<<"module", p[2]>> : p \in Copied(s.module)} ELSE {}
<1>1. <<"root", Tfvars>> \in kept
  BY NamesAssumption DEF Place
<1>2. fromTfvars = data
  BY <1>1
<1>3. fromBase = Copied(s.base)
  BY SourceTypes, TreeIsFunction DEF Copied
<1>4. fromModule = mod
  <2>1. ASSUME NEW p \in fromModule PROVE p \in mod
    <3>1. p = <<"module", p[2]>>
      BY PlaceIsPair
    <3>2. <<"root", p[2]>> \in Copied(s.module)
      BY DEF Copied
    <3> QED
      BY <3>1, <3>2
  <2>2. ASSUME NEW p \in mod PROVE p \in fromModule
    <3>1. s.role = "runner"
      OBVIOUS
    <3>2. PICK q \in Copied(s.module) : p = <<"module", q[2]>>
      BY <3>1
    <3>3. q \in DOMAIN s.module /\ q[2] \notin Ignored
      BY DEF Copied
    <3>4. q = <<"root", q[2]>> /\ q[2] \in Name
      BY <3>3, ModulePlace
    <3>5. p \in kept
      BY <3>2, <3>3, <3>4 DEF Place
    <3> QED
      BY <3>1, <3>2, <3>3, <3>4, <3>5
  <2> QED
    BY <2>1, <2>2
<1>5. Assembly(s) = [p \in fromTfvars \cup fromModule \cup fromBase |->
                       IF p \in fromTfvars THEN s.tfvars
                       ELSE IF p \in fromModule THEN s.module[<<"root", p[2]>>]
                       ELSE s.base[p]]
  BY DEF Assembly
<1> HIDE DEF fromTfvars, fromModule, fromBase, kept
<1> QED
  BY <1>2, <1>3, <1>4, <1>5

\* No ignored name is in the assembly, and sample data always are.
LEMMA AssemblyPlaces ==
  ASSUME NEW s \in Sources
  PROVE  /\ \A p \in DOMAIN Assembly(s) : p \in Place /\ p[2] \notin Ignored
         /\ s.tfvars # NoFile => <<"root", Tfvars>> \in DOMAIN Assembly(s)
         /\ Assembly(s) = [p \in DOMAIN Assembly(s) |-> Assembly(s)[p]]
BY NamesAssumption DEF Assembly, Place

\* A step that leaves the sources and the commands of the run as they are.
LEMMA GatesStay ==
  ASSUME GatesRunOnAssembly, src' = src, ran' = ran
  PROVE  GatesRunOnAssembly'
<1> DEFINE Sees(c, s) ==
      LET extra == DOMAIN c.on \ DOMAIN Assembly(s)
      IN  /\ [p \in DOMAIN c.on \ extra |-> c.on[p]] = Assembly(s)
          /\ \A p \in extra : c.on[p] = Made
          /\ c.gate \in {"fmt", "init"} => extra = {}
<1>1. \A i \in 1..Len(ran) : Sees(ran[i], src)
  BY DEF GatesRunOnAssembly
<1>2. \A i \in 1..Len(ran') : Sees(ran'[i], src')
  <2> HIDE DEF Sees
  <2> QED
    BY <1>1
<1> QED
  BY <1>2 DEF GatesRunOnAssembly

\* The end of a run, for whatever reason but success.
LEMMA EndStep ==
  ASSUME IInv, NEW code \in {"killed", "nonzero"}, End(code), src' = src, ran' = ran,
         ws' \in Tree
  PROVE  IInv'
<1> USE DEF IInv, End
<1>1. TypeOK'
  BY DEF TypeOK, Phase
<1>2. PhaseInv'
  BY DEF PhaseInv
<1>3. RanInv'
  BY DEF RanInv
<1>4. GatesRunOnAssembly'
  BY GatesStay
<1> QED
  BY <1>1, <1>2, <1>3, <1>4

LEMMA InitStep == Init => IInv
<1> SUFFICES ASSUME Init PROVE IInv
  OBVIOUS
<1>1. TypeOK
  BY LeftoversAssumption DEF Init, TypeOK, Phase
<1>2. PhaseInv
  BY DEF Init, PhaseInv
<1>3. RanInv
  BY GatesFacts DEF Init, RanInv
<1>4. GatesRunOnAssembly
  BY DEF Init, GatesRunOnAssembly
<1> QED
  BY <1>1, <1>2, <1>3, <1>4 DEF IInv

LEMMA StartStep ==
  ASSUME IInv, Start
  PROVE  IInv'
<1> USE DEF IInv, Start
<1>1. TypeOK'
  BY DEF TypeOK, Phase
<1>2. PhaseInv'
  BY DEF PhaseInv
<1>3. RanInv'
  BY GatesFacts DEF RanInv
<1>4. GatesRunOnAssembly'
  BY DEF GatesRunOnAssembly
<1> QED
  BY <1>1, <1>2, <1>3, <1>4

LEMMA ConfigureStep ==
  ASSUME IInv, Configure
  PROVE  IInv'
<1> USE DEF IInv, Configure
<1>1. TypeOK'
  BY DEF TypeOK, Phase
<1>2. PhaseInv'
  BY DEF PhaseInv
<1>3. RanInv'
  BY DEF RanInv
<1> QED
  BY <1>1, <1>2, <1>3, GatesStay

LEMMA RemoveFileStep ==
  ASSUME IInv, RemoveFile
  PROVE  IInv'
<1> USE DEF IInv, RemoveFile
<1>1. TypeOK'
  BY RestrictTree DEF TypeOK
<1>2. PhaseInv'
  BY DEF PhaseInv
<1>3. RanInv'
  BY DEF RanInv
<1> QED
  BY <1>1, <1>2, <1>3, GatesStay

LEMMA MakeWorkspaceStep ==
  ASSUME IInv, MakeWorkspace
  PROVE  IInv'
<1>1. CASE src.role = "other"
  BY <1>1, EndStep DEF MakeWorkspace, IInv, TypeOK
<1>2. CASE src.role # "other"
  <2> USE <1>2 DEF IInv, MakeWorkspace
  <2>1. TypeOK'
    BY SourceTypes, TreeIsFunction DEF TypeOK, Phase, Copied
  <2>2. PhaseInv'
    <3>1. pc' = "base" /\ todo' = Copied(src.base) /\ src' = src /\ ws' = <<>>
      OBVIOUS
    <3>2. DOMAIN ws' = {}
      BY <3>1
    <3> QED
      BY <3>1, <3>2 DEF PhaseInv
  <2>3. RanInv'
    BY DEF RanInv
  <2> QED
    BY <2>1, <2>2, <2>3, GatesStay
<1> QED
  BY <1>1, <1>2

LEMMA CopyBaseStep ==
  ASSUME IInv, CopyBase
  PROVE  IInv'
<1> USE DEF IInv, CopyBase
<1>1. PICK p \in todo : todo' = todo \ {p} /\ Put(p, src.base[p])
  OBVIOUS
<1>2. p \in DOMAIN src.base /\ p \in Place /\ src.base[p] \in Content \cup {Made}
  BY SourceTypes, TreeIsFunction DEF PhaseInv, Copied, TypeOK
<1>3. TypeOK'
  BY <1>1, <1>2, PutTree DEF TypeOK, Put
<1>4. PhaseInv'
  <2>1. /\ pc' = "base" /\ src' = src
        /\ src.role # "other" /\ src.case /\ src.inside
        /\ todo' = todo \ {p} /\ todo \subseteq Copied(src.base)
        /\ DOMAIN ws = Copied(src.base) \ todo
        /\ \A q \in DOMAIN ws : ws[q] = src.base[q]
    BY <1>1 DEF PhaseInv
  <2>2. /\ DOMAIN ws' = DOMAIN ws \cup {p}
        /\ \A q \in DOMAIN ws' : ws'[q] = IF q = p THEN src.base[p] ELSE ws[q]
    BY <1>1 DEF Put
  <2>3. DOMAIN ws' = Copied(src.base) \ todo'
    BY <2>1, <2>2
  <2>4. \A q \in DOMAIN ws' : ws'[q] = src.base[q]
    BY <2>1, <2>2
  <2> QED
    BY <2>1, <2>3, <2>4 DEF PhaseInv
<1>5. RanInv'
  BY DEF RanInv
<1> QED
  BY <1>3, <1>4, <1>5, GatesStay

LEMMA EndBaseStep ==
  ASSUME IInv, EndBase
  PROVE  IInv'
<1> USE DEF IInv, EndBase
<1>0. src \in Sources /\ ws \in Tree
  BY DEF TypeOK
<1>1. CASE src.role = "framework"
  <2>1. TypeOK'
    BY <1>1 DEF TypeOK, Phase
  <2>2. PhaseInv'
    <3>1. DOMAIN ws = Copied(src.base) /\ \A p \in DOMAIN ws : ws[p] = src.base[p]
      BY DEF PhaseInv
    <3>2. [p \in DOMAIN ws \cup SampleData |->
             IF p \in SampleData THEN src.tfvars ELSE ws[p]] = Assembly(src)
      <4> DEFINE f == [p \in DOMAIN ws \cup SampleData |->
                         IF p \in SampleData THEN src.tfvars ELSE ws[p]]
      <4>1. Assembly(src) = [p \in SampleData \cup Copied(src.base) |->
              IF p \in SampleData THEN src.tfvars ELSE src.base[p]]
        BY <1>0, <1>1, AssemblyIs DEF SampleData
      <4>2. DOMAIN f = SampleData \cup Copied(src.base)
        BY <3>1
      <4>3. \A p \in DOMAIN f :
              f[p] = IF p \in SampleData THEN src.tfvars ELSE src.base[p]
        BY <3>1
      <4> QED
        BY <4>1, <4>2, <4>3
    <3> QED
      BY <1>1, <3>2 DEF PhaseInv, SampleData
  <2>3. RanInv'
    BY <1>1 DEF RanInv
  <2> QED
    BY <2>1, <2>2, <2>3, <1>1, GatesStay
<1>2. CASE src.role = "runner" /\ <<"root", Versions>> \in DOMAIN src.module
  <2>1. TypeOK'
    BY <1>0, <1>2, SourceTypes, TreeIsFunction DEF TypeOK, Phase, Copied
  <2>2. PhaseInv'
    <3>1. DOMAIN ws = Copied(src.base) /\ \A p \in DOMAIN ws : ws[p] = src.base[p]
      BY DEF PhaseInv
    <3>2. pc' = "module" /\ todo' = Copied(src.module) /\ src' = src /\ ws' = ws
      BY <1>2
    <3>3. FromModule' = LeftOfModule'
      BY <3>2 DEF FromModule, LeftOfModule
    <3>4. src.case /\ src.inside
      BY DEF PhaseInv
    <3> QED
      BY <1>2, <3>1, <3>2, <3>3, <3>4 DEF PhaseInv
  <2>3. RanInv'
    BY <1>2 DEF RanInv
  <2> QED
    BY <2>1, <2>2, <2>3, <1>2, GatesStay
<1>3. CASE src.role = "runner" /\ <<"root", Versions>> \notin DOMAIN src.module
  BY <1>0, <1>3, EndStep
<1> QED
  BY <1>1, <1>2, <1>3

LEMMA CopyModuleStep ==
  ASSUME IInv, CopyModule
  PROVE  IInv'
<1> USE DEF IInv, CopyModule
<1>1. PICK p \in todo : todo' = todo \ {p} /\ Put(<<"module", p[2]>>, src.module[p])
  OBVIOUS
<1> DEFINE q == <<"module", p[2]>>
<1>2. src \in Sources /\ todo \subseteq Copied(src.module)
  BY DEF TypeOK, PhaseInv
<1>3. \A r \in Copied(src.module) : r = <<"root", r[2]>> /\ r[2] \in Name
  BY <1>2, ModulePlace DEF Copied
<1>4. q \in Place /\ src.module[p] \in Content \cup {Made}
  <2>1. p \in DOMAIN src.module
    BY <1>2 DEF Copied
  <2>2. src.module[p] \in Content \cup {Made}
    BY <1>2, <2>1, SourceTypes, TreeIsFunction
  <2> QED
    BY <1>2, <1>3, <2>2 DEF Place
<1>5. TypeOK'
  BY <1>1, <1>4, PutTree DEF TypeOK, Put
<1>6. PhaseInv'
  <2>1. /\ pc' = "module" /\ src' = src /\ todo' = todo \ {p}
        /\ src.role = "runner" /\ src.case /\ src.inside
        /\ DOMAIN ws = Copied(src.base) \cup (FromModule \ LeftOfModule)
        /\ \A r \in DOMAIN ws :
             ws[r] = IF r \in FromModule \ LeftOfModule
                       THEN src.module[<<"root", r[2]>>] ELSE src.base[r]
    BY <1>1 DEF PhaseInv
  <2>2. FromModule' = FromModule /\ q \in FromModule
    BY <1>2, <2>1 DEF FromModule
  <2>3. LeftOfModule' = LeftOfModule \ {q}
    <3>1. ASSUME NEW r \in LeftOfModule' PROVE r \in LeftOfModule /\ r # q
      <4>1. PICK t \in todo' : r = <<"module", t[2]>>
        BY DEF LeftOfModule
      <4>2. t \in todo /\ t # p
        BY <2>1
      <4>3. t[2] # p[2]
        BY <1>2, <1>3, <4>2
      <4> QED
        BY <4>1, <4>2, <4>3 DEF LeftOfModule
    <3>2. ASSUME NEW r \in LeftOfModule, r # q PROVE r \in LeftOfModule'
      BY <2>1, <3>2 DEF LeftOfModule
    <3> QED
      BY <3>1, <3>2
  <2>4. FromModule' \ LeftOfModule' = (FromModule \ LeftOfModule) \cup {q}
    BY <2>2, <2>3
  <2>5. /\ DOMAIN ws' = DOMAIN ws \cup {q}
        /\ \A r \in DOMAIN ws' : ws'[r] = IF r = q THEN src.module[p] ELSE ws[r]
    BY <1>1 DEF Put
  <2>6. p = <<"root", q[2]>>
    BY <1>2, <1>3
  <2> HIDE DEF q
  <2>7. DOMAIN ws' = Copied(src.base) \cup (FromModule' \ LeftOfModule')
    BY <2>1, <2>4, <2>5
  <2>8. \A r \in DOMAIN ws' :
          ws'[r] = IF r \in FromModule' \ LeftOfModule'
                     THEN src.module[<<"root", r[2]>>] ELSE src.base[r]
    BY <2>1, <2>4, <2>5, <2>6
  <2>9. todo' \subseteq Copied(src.module)
    BY <1>2, <2>1
  <2> QED
    BY <2>1, <2>7, <2>8, <2>9 DEF PhaseInv
<1>7. RanInv'
  BY DEF RanInv
<1> QED
  BY <1>5, <1>6, <1>7, GatesStay

LEMMA EndModuleStep ==
  ASSUME IInv, EndModule
  PROVE  IInv'
<1> USE DEF IInv, EndModule
<1>1. TypeOK'
  BY DEF TypeOK, Phase
<1>2. PhaseInv'
  <2>1. /\ src \in Sources /\ src.role = "runner" /\ src.case /\ src.inside
        /\ todo = {}
        /\ DOMAIN ws = Copied(src.base) \cup FromModule
        /\ \A p \in DOMAIN ws :
             ws[p] = IF p \in FromModule
                       THEN src.module[<<"root", p[2]>>] ELSE src.base[p]
    BY DEF TypeOK, PhaseInv, LeftOfModule
  <2>2. [p \in DOMAIN ws \cup SampleData |->
           IF p \in SampleData THEN src.tfvars ELSE ws[p]] = Assembly(src)
    <3> DEFINE f == [p \in DOMAIN ws \cup SampleData |->
                       IF p \in SampleData THEN src.tfvars ELSE ws[p]]
    <3>1. Assembly(src) = [p \in SampleData \cup FromModule \cup Copied(src.base) |->
            IF p \in SampleData THEN src.tfvars
            ELSE IF p \in FromModule THEN src.module[<<"root", p[2]>>]
            ELSE src.base[p]]
      BY <2>1, AssemblyIs DEF SampleData, FromModule
    <3>2. DOMAIN f = SampleData \cup FromModule \cup Copied(src.base)
      BY <2>1
    <3>3. \A p \in DOMAIN f :
            f[p] = IF p \in SampleData THEN src.tfvars
                   ELSE IF p \in FromModule THEN src.module[<<"root", p[2]>>]
                   ELSE src.base[p]
      BY <2>1
    <3> QED
      BY <3>1, <3>2, <3>3
  <2> QED
    BY <2>1, <2>2 DEF PhaseInv, SampleData
<1>3. RanInv'
  BY DEF RanInv
<1> QED
  BY <1>1, <1>2, <1>3, GatesStay

LEMMA CopyTfvarsStep ==
  ASSUME IInv, CopyTfvars
  PROVE  IInv'
<1> USE DEF IInv, CopyTfvars
<1>0. src \in Sources /\ ws \in Tree /\ src' = src /\ pc' = "gates"
  BY DEF TypeOK
<1>1. ws' = Assembly(src)
  <2>1. [p \in DOMAIN ws \cup SampleData |->
           IF p \in SampleData THEN src.tfvars ELSE ws[p]] = Assembly(src)
    BY DEF PhaseInv
  <2>2. CASE src.tfvars = NoFile
    <3>1. SampleData = {} /\ ws' = ws
      BY <2>2 DEF SampleData
    <3>2. ws = [p \in DOMAIN ws |-> ws[p]]
      BY <1>0, TreeIsFunction
    <3> QED
      BY <2>1, <3>1, <3>2
  <2>3. CASE src.tfvars # NoFile
    BY <2>1, <2>3 DEF SampleData, Put
  <2> QED
    BY <2>2, <2>3
<1>2. TypeOK'
  <2>1. ws' \in Tree
    <3>1. CASE src.tfvars = NoFile
      BY <1>0, <3>1
    <3>2. CASE src.tfvars # NoFile
      <4>1. src.tfvars \in Content /\ <<"root", Tfvars>> \in Place
        BY <1>0, <3>2, SourceTypes, NamesAssumption DEF Place
      <4> QED
        BY <1>0, <3>2, <4>1, PutTree DEF Put
    <3> QED
      BY <3>1, <3>2
  <2> QED
    BY <2>1 DEF TypeOK, Phase
<1>3. PhaseInv'
  <2>1. src.role # "other" /\ src.case /\ src.inside /\ todo' = {}
    BY DEF PhaseInv
  <2>2. Assembly(src)' = Assembly(src)
    BY <1>0 DEF Assembly
  <2> QED
    BY <1>0, <1>1, <2>1, <2>2 DEF PhaseInv
<1>4. RanInv'
  BY DEF RanInv
<1> QED
  BY <1>2, <1>3, <1>4, GatesStay

\* What holds at each gate: the workspace is the assembly, and from the second
\* gate on what terraform has left in it.
LEMMA AtGate ==
  ASSUME IInv, pc = "gates"
  PROVE  /\ src \in Sources /\ ws \in Tree /\ ran \in Seq(Command)
         /\ DOMAIN Assembly(src) \subseteq DOMAIN ws
         /\ \A p \in DOMAIN Assembly(src) : ws[p] = Assembly(src)[p]
         /\ \A p \in DOMAIN ws \ DOMAIN Assembly(src) :
              p[2] \in Ignored /\ ws[p] = Made /\ Len(ran) >= 2
         /\ src.role # "other" /\ src.case /\ src.inside /\ todo = {}
BY DEF IInv, TypeOK, PhaseInv

LEMMA GatePassesStep ==
  ASSUME IInv, GatePasses
  PROVE  IInv'
<1> DEFINE c == [gate |-> NextGate, vars |-> VarFile(NextGate), on |-> ws]
           n == Len(ran)
<1>0. /\ pc = "gates" /\ pc' = "gates" /\ n < 5 /\ ran' = Append(ran, c)
      /\ src' = src /\ todo' = todo /\ exit' = exit
      /\ TypeOK /\ RanInv /\ GatesRunOnAssembly
  BY GatesFacts DEF GatePasses, IInv
<1>1. PICK S \in SUBSET Artifacts(NextGate) :
        ws' = [p \in DOMAIN ws \cup S |-> IF p \in S THEN Made ELSE ws[p]]
  BY DEF GatePasses, Write
<1>2. c \in Command /\ n \in Nat
  BY <1>0, CommandType, GatesFacts DEF TypeOK
<1>3. /\ Len(ran') = n + 1 /\ ran' \in Seq(Command)
      /\ ran'[n + 1] = c
      /\ \A i \in 1..n : ran'[i] = ran[i]
  <2> HIDE DEF c
  <2> QED
    BY <1>0, <1>2 DEF TypeOK
<1>4. TypeOK'
  <2>1. ws \in Tree /\ S \in SUBSET Place
    BY <1>0, ArtifactPlaces DEF TypeOK
  <2>2. [p \in DOMAIN ws \cup S |-> IF p \in S THEN Made ELSE ws[p]] \in Tree
    BY <2>1, WriteTree
  <2> QED
    BY <1>0, <1>1, <1>3, <2>2 DEF TypeOK
<1>5. PhaseInv'
  <2>1. Assembly(src)' = Assembly(src)
    BY <1>0 DEF Assembly
  <2>2. /\ DOMAIN ws' = DOMAIN ws \cup S
        /\ \A p \in DOMAIN ws' : ws'[p] = IF p \in S THEN Made ELSE ws[p]
    BY <1>1
  <2>3. /\ \A p \in S : p[2] \in Ignored
        /\ S # {} => NextGate \in {"init", "plan"}
    BY ArtifactPlaces
  <2>4. S # {} => n + 1 >= 2
    BY <1>0, <1>2, <2>3, GatesFacts DEF NextGate
  <2>5. S \cap DOMAIN Assembly(src) = {}
    BY <1>0, <2>3, AssemblyPlaces, AtGate
  <2>6. \A p \in DOMAIN Assembly(src) : p \in DOMAIN ws' /\ ws'[p] = Assembly(src)[p]
    BY <1>0, <2>2, <2>5, AtGate
  <2>7. \A p \in DOMAIN ws' \ DOMAIN Assembly(src) :
          p[2] \in Ignored /\ ws'[p] = Made /\ Len(ran') >= 2
    BY <1>0, <1>2, <1>3, <2>2, <2>3, <2>4, AtGate
  <2> QED
    BY <1>0, <2>1, <2>6, <2>7, AtGate DEF PhaseInv
<1>6. RanInv'
  <2>1. c.gate = Gates[n + 1]
    BY DEF NextGate
  <2>2. c.gate = "plan" /\ src.tfvars # NoFile => c.vars
    BY <1>0, AtGate, AssemblyPlaces DEF VarFile, HasTfvars
  <2>3. exit # "zero"
    BY <1>0, GatesFacts DEF RanInv
  <2>4. \A i \in 1..Len(ran') : i \in 1..n \/ i = n + 1
    BY <1>2, <1>3
  <2>5. /\ \A i \in 1..n : ran[i].gate = Gates[i]
        /\ \A i \in 1..n : ran[i].gate = "plan" /\ src.tfvars # NoFile => ran[i].vars
    BY <1>0 DEF RanInv
  <2> HIDE DEF c
  <2> QED
    BY <1>0, <1>2, <1>3, <2>1, <2>2, <2>3, <2>4, <2>5, GatesFacts DEF RanInv
<1>7. GatesRunOnAssembly'
  <2> DEFINE A == Assembly(src)
             Sees(d, s) ==
               LET extra == DOMAIN d.on \ DOMAIN Assembly(s)
               IN  /\ [p \in DOMAIN d.on \ extra |-> d.on[p]] = Assembly(s)
                   /\ \A p \in extra : d.on[p] = Made
                   /\ d.gate \in {"fmt", "init"} => extra = {}
  <2>2. \A i \in 1..n : Sees(ran[i], src)
    BY <1>0 DEF GatesRunOnAssembly
  <2>3. Sees(c, src)
    <3> DEFINE extra == DOMAIN ws \ DOMAIN A
    <3>1. DOMAIN ws \ extra = DOMAIN A
      BY <1>0, AtGate
    <3>2. [p \in DOMAIN ws \ extra |-> ws[p]] = A
      <4>1. A = [p \in DOMAIN A |-> A[p]]
        BY <1>0, AtGate, AssemblyPlaces
      <4>2. \A p \in DOMAIN A : ws[p] = A[p]
        BY <1>0, AtGate
      <4> HIDE DEF A, extra
      <4> QED
        BY <3>1, <4>1, <4>2
    <3>3. \A p \in extra : ws[p] = Made
      BY <1>0, AtGate
    <3>4. NextGate \in {"fmt", "init"} => n < 2
      BY <1>0, <1>2, GatesFacts DEF NextGate
    <3>5. NextGate \in {"fmt", "init"} => extra = {}
      BY <1>0, <1>2, <3>4, AtGate
    <3> QED
      BY <3>2, <3>3, <3>5
  <2> HIDE DEF Sees, A, c
  <2>4. \A i \in 1..Len(ran') : Sees(ran'[i], src')
    BY <1>0, <1>2, <1>3, <2>2, <2>3
  <2> QED
    BY <2>4 DEF Sees, GatesRunOnAssembly
<1> QED
  BY <1>4, <1>5, <1>6, <1>7 DEF IInv

LEMMA GateFailsStep ==
  ASSUME IInv, GateFails
  PROVE  IInv'
<1>1. PICK S \in SUBSET Artifacts(NextGate) :
        ws' = [p \in DOMAIN ws \cup S |-> IF p \in S THEN Made ELSE ws[p]]
  BY DEF GateFails, Write
<1>2. ws \in Tree /\ S \in SUBSET Place
  BY ArtifactPlaces DEF IInv, TypeOK
<1>3. [p \in DOMAIN ws \cup S |-> IF p \in S THEN Made ELSE ws[p]] \in Tree
  BY <1>2, WriteTree
<1> QED
  BY <1>1, <1>3, EndStep DEF GateFails

LEMMA SucceedStep ==
  ASSUME IInv, Succeed
  PROVE  IInv'
<1> USE DEF IInv, Succeed, End
<1>1. TypeOK'
  BY DEF TypeOK, Phase
<1>2. PhaseInv'
  BY DEF PhaseInv
<1>3. RanInv'
  BY DEF RanInv
<1> QED
  BY <1>1, <1>2, <1>3, GatesStay

LEMMA StutterStep ==
  ASSUME IInv, UNCHANGED vars
  PROVE  IInv'
<1> USE DEF IInv, vars
<1>1. TypeOK'
  BY DEF TypeOK
<1>2. PhaseInv'
  <2>1. /\ Assembly(src)' = Assembly(src) /\ FromModule' = FromModule
        /\ LeftOfModule' = LeftOfModule /\ SampleData' = SampleData
    BY DEF Assembly, FromModule, LeftOfModule, SampleData, Copied
  <2> QED
    BY <2>1 DEF PhaseInv
<1>3. RanInv'
  BY DEF RanInv
<1> QED
  BY <1>1, <1>2, <1>3, GatesStay

LEMMA NextStep == IInv /\ [Next]_vars => IInv'
<1> SUFFICES ASSUME IInv, [Next]_vars PROVE IInv'
  OBVIOUS
<1>1. CASE Start
  BY <1>1, StartStep
<1>2. CASE ConfigError
  BY <1>2, EndStep DEF ConfigError, IInv, TypeOK
<1>3. CASE Configure
  BY <1>3, ConfigureStep
<1>4. CASE RemoveFile
  BY <1>4, RemoveFileStep
<1>5. CASE MakeWorkspace
  BY <1>5, MakeWorkspaceStep
<1>6. CASE CopyBase
  BY <1>6, CopyBaseStep
<1>7. CASE EndBase
  BY <1>7, EndBaseStep
<1>8. CASE CopyModule
  BY <1>8, CopyModuleStep
<1>9. CASE EndModule
  BY <1>9, EndModuleStep
<1>10. CASE CopyTfvars
  BY <1>10, CopyTfvarsStep
<1>11. CASE GatePasses
  BY <1>11, GatePassesStep
<1>12. CASE GateFails
  BY <1>12, GateFailsStep
<1>13. CASE Succeed
  BY <1>13, SucceedStep
<1>14. CASE Abort
  BY <1>14, EndStep DEF Abort, IInv, TypeOK
<1>15. CASE UNCHANGED vars
  BY <1>15, StutterStep
<1> QED
  BY <1>1, <1>2, <1>3, <1>4, <1>5, <1>6, <1>7, <1>8, <1>9, <1>10, <1>11, <1>12,
     <1>13, <1>14, <1>15 DEF Next, Work

----------------------------------------------------------------------------
\* The invariant of the phases holds in every run, however the one before it
\* has ended.
THEOREM InductiveInvariant == Spec => []IInv
<1> QED
  BY InitStep, NextStep, PTL DEF Spec

\* The state of the integration runs is well typed.
THEOREM TypeCorrect == Spec => []TypeOK
<1>1. IInv => TypeOK
  BY DEF IInv
<1> QED
  BY <1>1, InductiveInvariant, PTL

\* Every gate runs in exactly what the sources of its own run add up to,
\* whatever lies where the workspace belongs, and whichever files are ignored.
THEOREM GatesSeeTheirSources == Spec => []GatesRunOnAssembly
<1>1. IInv => GatesRunOnAssembly
  BY DEF IInv
<1> QED
  BY <1>1, InductiveInvariant, PTL

\* Exit code 0 means that the five gates passed in this run, in order, and that
\* the plan was made with the sample data.
THEOREM ZeroIsVerified == Spec => []ZeroMeansVerified
<1>1. IInv => ZeroMeansVerified
  <2> SUFFICES ASSUME IInv, exit = "zero"
               PROVE  /\ [i \in 1..Len(ran) |-> ran[i].gate] = Gates
                      /\ \A i \in 1..Len(ran) :
                           ran[i].gate = "plan" /\ src.tfvars # NoFile => ran[i].vars
    BY DEF ZeroMeansVerified
  <2>1. /\ Len(ran) = 5 /\ \A i \in 1..Len(ran) : ran[i].gate = Gates[i]
        /\ \A i \in 1..Len(ran) :
             ran[i].gate = "plan" /\ src.tfvars # NoFile => ran[i].vars
    BY GatesFacts DEF IInv, RanInv
  <2>2. [i \in 1..5 |-> Gates[i]] = Gates
    BY DEF Gates
  <2> QED
    BY <2>1, <2>2
<1> QED
  BY <1>1, InductiveInvariant, PTL

\* A run whose case is unknown or leads out of the artifact root removes and
\* writes nothing.
THEOREM NothingWrittenOutside == Spec => NothingOutside
<1>1. IInv /\ [Next]_vars => [~(src.case /\ src.inside) => UNCHANGED ws]_vars
  <2> SUFFICES ASSUME IInv, Next, ~(src.case /\ src.inside)
               PROVE  UNCHANGED ws
    OBVIOUS
  <2>1. pc \in {"idle", "config"}
    BY DEF IInv, PhaseInv
  <2> QED
    BY <2>1 DEF Next, Work, Start, ConfigError, Configure, RemoveFile, MakeWorkspace,
      CopyBase, EndBase, CopyModule, EndModule, CopyTfvars, GatePasses, GateFails,
      Succeed, Abort
<1> QED
  BY <1>1, InductiveInvariant, PTL DEF Spec, NothingOutside
=============================================================================
