--------------------------- MODULE IntegrationRun ---------------------------
(***************************************************************************)
(* tools/ci/run_integration.py: assemble a Terraform workspace from the    *)
(* fixture overlay, the framework module and sample data, and run the      *)
(* terraform gates in it.  The workspace lives under .tmp and outlasts the *)
(* run, which can fail or be killed between any two file operations, so    *)
(* what a run finds there is whatever the earlier ones have left.          *)
(*                                                                         *)
(* A file is a place, <<directory, name>>; a directory tree is a function  *)
(* from places to contents.  Directories deeper than the overlay's root    *)
(* and the framework's mount point are left out.                           *)
(***************************************************************************)
EXTENDS Integers, Sequences

CONSTANTS
  Name,      \* file names
  Ignored,   \* those that should_ignore_name holds back
  Versions,  \* the name versions.tf
  Tfvars,    \* the name terraform.tfvars
  Content,   \* contents of source files
  Made,      \* content of what terraform writes (state, plugins, the plan)
  NoFile,    \* no sample data are configured
  Sources,   \* the sources and configurations a run may start from
  Leftovers  \* what may lie where the workspace belongs before the first run

Place == {"root", "module"} \X Name
Tree == UNION {[S -> Content \cup {Made}] : S \in SUBSET Place}

Source == [case     : BOOLEAN,  \* the configuration has the requested case
           inside   : BOOLEAN,  \* its workspace is below the artifact root
           role     : {"runner", "framework", "other"},
           base     : Tree,     \* the overlay; for a framework, the module
           module   : Tree,     \* what the framework source resolves to
           tfvars   : Content \cup {NoFile},
           testVars : BOOLEAN]  \* test_var_file

ASSUME NamesAssumption ==
  /\ Ignored \subseteq Name
  /\ {Versions, Tfvars} \subseteq Name \ Ignored
  /\ NoFile \notin Content
ASSUME SourcesAssumption ==
  /\ Sources \subseteq Source
  /\ \A s \in Sources : DOMAIN s.module \subseteq {"root"} \X Name
ASSUME LeftoversAssumption == Leftovers \subseteq Tree

Gates == <<"fmt", "init", "validate", "plan", "test">>

VARIABLES
  src,      \* the sources of the current run
  ws,       \* the workspace
  pc,       \* the next phase of the run
  todo,     \* the places still to copy in this phase
  ran,      \* the terraform commands of this run that succeeded
  exit      \* how the run ended, "none" while it runs

vars == <<src, ws, pc, todo, ran, exit>>

Phase == {"idle", "config", "reset", "base", "module", "tfvars", "gates"}

\* What a command is: the gate, whether it got the -var-file argument, and the
\* tree it ran in.
Command == [gate : {Gates[i] : i \in 1..Len(Gates)}, vars : BOOLEAN, on : Tree]

TypeOK ==
  /\ src \in Sources
  /\ ws \in Tree
  /\ pc \in Phase
  /\ todo \in SUBSET Place
  /\ ran \in Seq(Command)
  /\ exit \in {"none", "killed", "zero", "nonzero"}

----------------------------------------------------------------------------

Init ==
  /\ src \in Sources
  /\ ws \in Leftovers
  /\ pc = "idle"
  /\ todo = {}
  /\ ran = <<>>
  /\ exit = "none"

\* A new run, on whatever the sources and the configuration are by then.
Start ==
  /\ pc = "idle"
  /\ src' \in Sources
  /\ pc' = "config" /\ ran' = <<>> /\ exit' = "none"
  /\ UNCHANGED <<ws, todo>>

End(code) == /\ pc' = "idle" /\ todo' = {} /\ exit' = code

\* load_config and select_case raise, or the workspace is not below the
\* artifact root.
ConfigError ==
  /\ pc = "config"
  /\ ~(src.case /\ src.inside)
  /\ End("nonzero")
  /\ UNCHANGED <<src, ws, ran>>

\* Mutant: the workspace may be anywhere.
ConfigureAnywhere ==
  /\ pc = "config"
  /\ src.case
  /\ pc' = "reset"
  /\ UNCHANGED <<src, ws, todo, ran, exit>>

Configure ==
  /\ pc = "config"
  /\ src.case /\ src.inside
  /\ pc' = "reset"
  /\ UNCHANGED <<src, ws, todo, ran, exit>>

\* Mutant: no name is held back.
CopiedAll(tree) == DOMAIN tree

\* The files a copy takes: names are held back at every level.
Copied(tree) == {p \in DOMAIN tree : p[2] \notin Ignored}

\* rmtree removes one file after the other.
RemoveFile ==
  /\ pc = "reset"
  /\ \E p \in DOMAIN ws : ws' = [q \in DOMAIN ws \ {p} |-> ws[q]]
  /\ UNCHANGED <<src, pc, todo, ran, exit>>

\* Mutant: an existing workspace is used as it is.
MakeWorkspaceKeeping ==
  /\ pc = "reset"
  /\ IF src.role = "other"
       THEN End("nonzero")
       ELSE /\ pc' = "base" /\ todo' = Copied(src.base)
            /\ UNCHANGED exit
  /\ UNCHANGED <<src, ws, ran>>

\* The workspace is gone and made again; then the role decides.
MakeWorkspace ==
  /\ pc = "reset"
  /\ ws = <<>>
  /\ IF src.role = "other"
       THEN End("nonzero")
       ELSE /\ pc' = "base" /\ todo' = Copied(src.base)
            /\ UNCHANGED exit
  /\ UNCHANGED <<src, ws, ran>>

Put(p, content) ==
  ws' = [q \in DOMAIN ws \cup {p} |-> IF q = p THEN content ELSE ws[q]]

CopyBase ==
  /\ pc = "base"
  /\ \E p \in todo : todo' = todo \ {p} /\ Put(p, src.base[p])
  /\ UNCHANGED <<src, pc, ran, exit>>

\* For a runner, the framework source must have a versions.tf.
EndBase ==
  /\ pc = "base"
  /\ todo = {}
  /\ \/ /\ src.role = "framework"
        /\ pc' = "tfvars"
        /\ UNCHANGED <<todo, exit>>
     \/ /\ src.role = "runner" /\ <<"root", Versions>> \in DOMAIN src.module
        /\ pc' = "module" /\ todo' = Copied(src.module)
        /\ UNCHANGED exit
     \/ /\ src.role = "runner" /\ <<"root", Versions>> \notin DOMAIN src.module
        /\ End("nonzero")
  /\ UNCHANGED <<src, ws, ran>>

CopyModule ==
  /\ pc = "module"
  /\ \E p \in todo : /\ todo' = todo \ {p}
                     /\ Put(<<"module", p[2]>>, src.module[p])
  /\ UNCHANGED <<src, pc, ran, exit>>

EndModule ==
  /\ pc = "module"
  /\ todo = {}
  /\ pc' = "tfvars"
  /\ UNCHANGED <<src, ws, todo, ran, exit>>

CopyTfvars ==
  /\ pc = "tfvars"
  /\ IF src.tfvars = NoFile THEN UNCHANGED ws
       ELSE Put(<<"root", Tfvars>>, src.tfvars)
  /\ pc' = "gates"
  /\ UNCHANGED <<src, todo, ran, exit>>

----------------------------------------------------------------------------
\* run_terraform_gates

HasTfvars == <<"root", Tfvars>> \in DOMAIN ws

\* Mutant: test_var_file decides for the plan too.
VarFileConfigured(gate) ==
  gate \in {"plan", "test"} /\ HasTfvars /\ src.testVars

VarFile(gate) ==
  \/ gate = "plan" /\ HasTfvars
  \/ gate = "test" /\ HasTfvars /\ src.testVars

\* What a gate may leave in the workspace, whether it succeeds or not.
Artifacts(gate) ==
  IF gate \in {"init", "plan"} THEN {"root"} \X Ignored ELSE {}

Write(places) ==
  ws' = [p \in DOMAIN ws \cup places |-> IF p \in places THEN Made ELSE ws[p]]

NextGate == Gates[Len(ran) + 1]

GatePasses ==
  /\ pc = "gates"
  /\ Len(ran) < Len(Gates)
  /\ ran' = Append(ran, [gate |-> NextGate, vars |-> VarFile(NextGate), on |-> ws])
  /\ \E places \in SUBSET Artifacts(NextGate) : Write(places)
  /\ UNCHANGED <<src, pc, todo, exit>>

\* check=True: the first gate that fails ends the run with its exit code.
GateFails ==
  /\ pc = "gates"
  /\ Len(ran) < Len(Gates)
  /\ \E places \in SUBSET Artifacts(NextGate) : Write(places)
  /\ End("nonzero")
  /\ UNCHANGED <<src, ran>>

Succeed ==
  /\ pc = "gates"
  /\ Len(ran) = Len(Gates)
  /\ End("zero")
  /\ UNCHANGED <<src, ws, ran>>

\* A file operation raises, or the process is killed.
Abort ==
  /\ pc # "idle"
  /\ \E code \in {"nonzero", "killed"} : End(code)
  /\ UNCHANGED <<src, ws, ran>>

Work ==
  \/ ConfigError \/ Configure \/ RemoveFile \/ MakeWorkspace
  \/ CopyBase \/ EndBase \/ CopyModule \/ EndModule \/ CopyTfvars
  \/ GatePasses \/ GateFails \/ Succeed

Next == Start \/ Work \/ Abort

Spec == Init /\ [][Next]_vars

----------------------------------------------------------------------------
(***************************************************************************)
(* Properties                                                              *)
(***************************************************************************)

\* What the sources of a run add up to, said without the steps: sample data
\* over framework over overlay, none of the ignored names among them.
Assembly(s) ==
  LET kept == {p \in Place : p[2] \notin Ignored}
      fromTfvars == {p \in kept : p = <<"root", Tfvars>> /\ s.tfvars # NoFile}
      fromModule == {p \in kept : /\ s.role = "runner" /\ p[1] = "module"
                                  /\ <<"root", p[2]>> \in DOMAIN s.module}
      fromBase == kept \cap DOMAIN s.base
  IN  [p \in fromTfvars \cup fromModule \cup fromBase |->
         IF p \in fromTfvars THEN s.tfvars
         ELSE IF p \in fromModule THEN s.module[<<"root", p[2]>>]
         ELSE s.base[p]]

\* Every gate runs in exactly what the sources of its own run add up to,
\* whatever earlier runs, finished, failed or killed halfway, have left in the
\* workspace; before init there is no terraform state, and after it only that
\* of this run.
GatesRunOnAssembly ==
  \A i \in 1..Len(ran) :
    LET t == ran[i].on
        extra == DOMAIN t \ DOMAIN Assembly(src)
    IN  /\ [p \in DOMAIN t \ extra |-> t[p]] = Assembly(src)
        /\ \A p \in extra : t[p] = Made
        /\ ran[i].gate \in {"fmt", "init"} => extra = {}

\* Exit code 0 means that all five gates passed in this run, in order, and that
\* the plan was made with the sample data when there are any.
ZeroMeansVerified ==
  exit = "zero" =>
    /\ [i \in 1..Len(ran) |-> ran[i].gate] = Gates
    /\ \A i \in 1..Len(ran) :
         ran[i].gate = "plan" /\ src.tfvars # NoFile => ran[i].vars

\* A run whose case is unknown or leads out of the artifact root removes and
\* writes nothing.
NothingOutside ==
  [][~(src.case /\ src.inside) => UNCHANGED ws]_vars

----------------------------------------------------------------------------
(***************************************************************************)
(* The inductive invariant behind the three safety properties              *)
(***************************************************************************)

FromModule == {<<"module", p[2]>> : p \in Copied(src.module)}
LeftOfModule == {<<"module", p[2]>> : p \in todo}
SampleData == IF src.tfvars = NoFile THEN {} ELSE {<<"root", Tfvars>>}

Overridden(p) == src.role = "runner" /\ p \in FromModule

\* What the workspace holds, phase by phase.
PhaseInv ==
  /\ pc \notin {"idle", "config"} => src.case /\ src.inside
  /\ pc \in {"base", "module", "tfvars", "gates"} => src.role # "other"
  /\ pc \notin {"base", "module"} => todo = {}
  /\ pc = "base" =>
       /\ todo \subseteq Copied(src.base)
       /\ DOMAIN ws = Copied(src.base) \ todo
       /\ \A p \in DOMAIN ws : ws[p] = src.base[p]
  /\ pc = "module" =>
       /\ src.role = "runner"
       /\ todo \subseteq Copied(src.module)
       /\ DOMAIN ws = Copied(src.base) \cup (FromModule \ LeftOfModule)
       /\ \A p \in DOMAIN ws :
            ws[p] = IF p \in FromModule \ LeftOfModule
                      THEN src.module[<<"root", p[2]>>] ELSE src.base[p]
  /\ pc = "tfvars" =>
       [p \in DOMAIN ws \cup SampleData |->
          IF p \in SampleData THEN src.tfvars ELSE ws[p]] = Assembly(src)
  /\ pc = "gates" =>
       /\ DOMAIN Assembly(src) \subseteq DOMAIN ws
       /\ \A p \in DOMAIN Assembly(src) : ws[p] = Assembly(src)[p]
       /\ \A p \in DOMAIN ws \ DOMAIN Assembly(src) :
            p[2] \in Ignored /\ ws[p] = Made /\ Len(ran) >= 2

\* The commands of the run are the first gates.
RanInv ==
  /\ Len(ran) <= Len(Gates)
  /\ \A i \in 1..Len(ran) : ran[i].gate = Gates[i]
  /\ \A i \in 1..Len(ran) :
       ran[i].gate = "plan" /\ src.tfvars # NoFile => ran[i].vars
  /\ pc \notin {"idle", "gates"} => ran = <<>>
  /\ exit = "zero" => Len(ran) = Len(Gates)

IInv == TypeOK /\ PhaseInv /\ RanInv /\ GatesRunOnAssembly
=============================================================================
