---------------------------- MODULE InstallProofs ----------------------------
(***************************************************************************)
(* Proofs about Install, for any commands, namespaces and any number of    *)
(* processes at the same time.                                             *)
(***************************************************************************)
EXTENDS Install, SequenceTheorems, FiniteSetTheorems, TLAPS

-----------------------------------------------------------------------------
(* Plans of steps                                                          *)

LEMMA PlanConcat ==
    ASSUME NEW m, NEW s \in Plan(m), NEW t \in Plan(m)
    PROVE  s \o t \in Plan(m)
BY ConcatProperties DEF Plan

LEMMA PlanStep ==
    ASSUME NEW m, NEW do \in Doing(m), NEW kind \in Kinds, NEW n \in Namespaces,
           IF do = "token" THEN kind = "secret" /\ n = System ELSE kind # "secret"
    PROVE  /\ Step(do, kind, n) \in Planned(m)
           /\ <<Step(do, kind, n)>> \in Plan(m)
<1>1. Step(do, kind, n) \in Planned(m)
      BY DEF Planned, Step
<1> QED BY <1>1 DEF Plan

LEMMA PlanSplit ==
    ASSUME NEW m, NEW s \in Plan(m), s # <<>>
    PROVE  /\ Head(s) \in Planned(m) /\ Tail(s) \in Plan(m)
           /\ Head(s) \in [do : Doing(m), object : Kinds \X Namespaces]
           /\ Head(s).do = "token" => Head(s).object = <<"secret", System>>
           /\ Head(s).do # "token" => Head(s).object[1] # "secret"
<1>1. Head(s) \in Planned(m) /\ Tail(s) \in Plan(m)
      BY HeadTailProperties DEF Plan
<1> QED BY <1>1 DEF Planned

LEMMA TokenSteps ==
    /\ ResetToken # <<>> /\ Head(ResetToken) = Step("uid", "namespace", System)
    /\ Tail(ResetToken) = ToWrite
    /\ ToWrite # <<>> /\ Head(ToWrite) = Step("write", "secret", System)
    /\ Tail(ToWrite) = ToPrint
    /\ ToPrint # <<>> /\ Head(ToPrint) = Step("print", "secret", System)
    /\ Tail(ToPrint) = <<>>
BY DEF ResetToken, ToWrite, ToPrint

(* Plans one after the other, and what is left of one.                     *)
LEMMA Concat ==
    ASSUME NEW S, NEW s \in Seq(S), NEW t \in Seq(S)
    PROVE  /\ Len(s) \in Nat /\ Len(t) \in Nat /\ Len(s \o t) = Len(s) + Len(t)
           /\ \A i \in 1 .. Len(s) : (s \o t)[i] = s[i]
           /\ \A i \in 1 .. Len(t) : (s \o t)[Len(s) + i] = t[i]
<1>1. Len(s) \in Nat /\ Len(t) \in Nat
      BY LenProperties
<1>2. Len(s \o t) = Len(s) + Len(t)
      BY ConcatProperties
<1>3. \A i \in 1 .. Len(s) + Len(t) :
         (s \o t)[i] = IF i <= Len(s) THEN s[i] ELSE t[i - Len(s)]
      BY ConcatProperties
<1>4. ASSUME NEW i \in 1 .. Len(s)
      PROVE  (s \o t)[i] = s[i]
      BY <1>1, <1>3
<1>5. ASSUME NEW i \in 1 .. Len(t)
      PROVE  (s \o t)[Len(s) + i] = t[i]
      <2>1. Len(s) + i \in 1 .. Len(s) + Len(t) /\ ~(Len(s) + i <= Len(s))
            BY <1>1
      <2>2. (Len(s) + i) - Len(s) = i
            BY <1>1
      <2> QED BY <1>3, <2>1, <2>2
<1> QED BY <1>1, <1>2, <1>4, <1>5

LEMMA HeadFirst ==
    ASSUME NEW S, NEW s \in Seq(S), s # <<>>
    PROVE  /\ Len(s) \in Nat /\ Len(s) >= 1 /\ Head(s) = s[1]
           /\ Tail(s) \in Seq(S) /\ Len(Tail(s)) = Len(s) - 1
           /\ \A i \in 1 .. Len(s) - 1 : Tail(s)[i] = s[i + 1]
BY LenProperties, EmptySeq, HeadTailProperties

LEMMA StepsConcat ==
    ASSUME NEW S, NEW s \in Seq(S), NEW t \in Seq(S)
    PROVE  StepsOf(s \o t) = StepsOf(s) \cup StepsOf(t)
<1>1. ASSUME NEW x \in StepsOf(s) PROVE x \in StepsOf(s \o t)
      <2>1. PICK i \in 1 .. Len(s) : x = s[i]
            BY DEF StepsOf
      <2>2. i \in 1 .. Len(s \o t) /\ (s \o t)[i] = x
            BY <2>1, Concat
      <2> QED BY <2>2 DEF StepsOf
<1>2. ASSUME NEW x \in StepsOf(t) PROVE x \in StepsOf(s \o t)
      <2>1. PICK i \in 1 .. Len(t) : x = t[i]
            BY DEF StepsOf
      <2>2. Len(s) + i \in 1 .. Len(s \o t) /\ (s \o t)[Len(s) + i] = x
            BY <2>1, Concat
      <2> QED BY <2>2 DEF StepsOf
<1>3. ASSUME NEW x \in StepsOf(s \o t) PROVE x \in StepsOf(s) \cup StepsOf(t)
      <2>1. PICK i \in 1 .. Len(s) + Len(t) : x = (s \o t)[i]
            BY Concat DEF StepsOf
      <2>2. CASE i <= Len(s)
            BY <2>1, <2>2, Concat DEF StepsOf
      <2>3. CASE ~(i <= Len(s))
            <3>1. i - Len(s) \in 1 .. Len(t) /\ Len(s) + (i - Len(s)) = i
                  BY <2>3, Concat
            <3>2. x = t[i - Len(s)]
                  BY <2>1, <3>1, Concat
            <3> QED BY <3>1, <3>2 DEF StepsOf
      <2> QED BY <2>2, <2>3
<1> QED BY <1>1, <1>2, <1>3

LEMMA StepsHead ==
    ASSUME NEW S, NEW s \in Seq(S), s # <<>>
    PROVE  StepsOf(s) \subseteq {Head(s)} \cup StepsOf(Tail(s))
<1> SUFFICES ASSUME NEW i \in 1 .. Len(s), i # 1
             PROVE  s[i] \in StepsOf(Tail(s))
    BY HeadFirst DEF StepsOf
<1>1. i - 1 \in 1 .. Len(s) - 1 /\ (i - 1) + 1 = i
      BY HeadFirst
<1>2. Tail(s)[i - 1] = s[i] /\ i - 1 \in 1 .. Len(Tail(s))
      BY <1>1, HeadFirst
<1> QED BY <1>2 DEF StepsOf

(* A plan without a token before one that ends in it.                      *)
LEMMA TokenLast ==
    ASSUME NEW m, NEW s \in Plan(m), "token" \notin Doing(m),
           NEW n, NEW t \in Plan(n), EndsInToken(t)
    PROVE  EndsInToken(s \o t)
<1> DEFINE S == Planned(m) \cup Planned(n)
<1>1. s \in Seq(S) /\ t \in Seq(S) /\ s \in Seq(Planned(m)) /\ t # <<>>
      <2>1. Planned(m) \subseteq S /\ Planned(n) \subseteq S
            OBVIOUS
      <2> QED BY <2>1, SeqMonotonic DEF Plan, EndsInToken
<1> HIDE DEF S
<1>2. /\ Len(s) \in Nat /\ Len(t) \in Nat /\ Len(s \o t) = Len(s) + Len(t)
      /\ Len(t) >= 1
      BY <1>1, Concat, HeadFirst
<1>3. ASSUME NEW i \in 1 .. Len(s)
      PROVE  (s \o t)[i].do # "token"
      <2>1. (s \o t)[i] = s[i]
            BY <1>1, Concat
      <2>2. s[i] \in Planned(m)
            BY <1>1, ElementOfSeq
      <2>3. s[i].do \in Doing(m)
            BY <2>2 DEF Planned
      <2> QED BY <2>1, <2>3
<1>4. ASSUME NEW i \in 1 .. Len(s) + Len(t), ~(i <= Len(s))
      PROVE  (s \o t)[i].do = "token" <=> i = Len(s) + Len(t)
      <2>1. i - Len(s) \in 1 .. Len(t) /\ Len(s) + (i - Len(s)) = i
            BY <1>2, <1>4
      <2>2. (s \o t)[i] = t[i - Len(s)]
            BY <1>1, <2>1, Concat
      <2>3. t[i - Len(s)].do = "token" <=> i - Len(s) = Len(t)
            BY <2>1 DEF EndsInToken
      <2> QED BY <1>2, <2>2, <2>3
<1>5. \A i \in 1 .. Len(s \o t) : (s \o t)[i].do = "token" <=> i = Len(s \o t)
      <2>1. \A i \in 1 .. Len(s) + Len(t) : i <= Len(s) => i # Len(s) + Len(t)
            BY <1>2
      <2> QED BY <1>2, <1>3, <1>4, <2>1
<1>6. s \o t # <<>>
      BY <1>1, <1>2, ConcatProperties, EmptySeq
<1> QED BY <1>5, <1>6 DEF EndsInToken

LEMMA TokenNotFirst ==
    ASSUME NEW S, NEW t \in Seq(S), EndsInToken(t), Head(t).do # "token"
    PROVE  EndsInToken(Tail(t))
<1>1. /\ Len(t) \in Nat /\ Len(t) >= 1 /\ Head(t) = t[1]
      /\ Tail(t) \in Seq(S) /\ Len(Tail(t)) = Len(t) - 1
      /\ \A i \in 1 .. Len(t) - 1 : Tail(t)[i] = t[i + 1]
      BY HeadFirst DEF EndsInToken
<1>2. Len(t) > 1
      <2>1. 1 \in 1 .. Len(t)
            BY <1>1
      <2>2. t[1].do = "token" <=> 1 = Len(t)
            BY <2>1 DEF EndsInToken
      <2>3. 1 # Len(t)
            BY <1>1, <2>2
      <2> QED BY <1>1, <2>3
<1>3. \A i \in 1 .. Len(Tail(t)) :
         /\ Tail(t)[i] = t[i + 1] /\ i + 1 \in 1 .. Len(t)
         /\ i + 1 = Len(t) <=> i = Len(Tail(t))
      BY <1>1
<1>4. ASSUME NEW i \in 1 .. Len(Tail(t))
      PROVE  Tail(t)[i].do = "token" <=> i = Len(Tail(t))
      <2>1. t[i + 1].do = "token" <=> i + 1 = Len(t)
            BY <1>3 DEF EndsInToken
      <2> QED BY <1>3, <2>1
<1>5. Tail(t) # <<>>
      <2>1. Len(Tail(t)) # 0
            BY <1>1, <1>2
      <2> QED BY <2>1, EmptySeq
<1> QED BY <1>4, <1>5 DEF EndsInToken

LEMMA TokenFirst ==
    ASSUME NEW S, NEW t \in Seq(S), EndsInToken(t), Head(t).do = "token"
    PROVE  Tail(t) = <<>>
<1>1. /\ Len(t) \in Nat /\ Len(t) >= 1
      /\ Tail(t) \in Seq(S) /\ Len(Tail(t)) = Len(t) - 1
      BY HeadFirst DEF EndsInToken
<1>2. 1 = Len(t)
      <2>1. 1 \in 1 .. Len(t) /\ Head(t) = t[1]
            BY HeadFirst DEF EndsInToken
      <2>2. t[1].do = "token" <=> 1 = Len(t)
            BY <2>1 DEF EndsInToken
      <2> QED BY <2>1, <2>2
<1>3. Len(Tail(t)) = 0
      <2>1. \A k, l \in Nat : 1 = k /\ l = k - 1 => l = 0
            OBVIOUS
      <2>2. Len(Tail(t)) \in Nat
            BY <1>1, LenProperties
      <2> QED BY <1>1, <1>2, <2>1, <2>2
<1> QED BY <1>1, <1>3, EmptySeq

(* The steps an install and an upgrade may take, and those of an           *)
(* uninstall.                                                              *)
LEMMA DoingWhat ==
    /\ Installing = {"namespace", "checkOLM", "apply", "await", "operator", "everest",
                     "checkCSV", "select"}
    /\ Doing("install") = Installing \cup {"token"}
    /\ Doing("upgrade") = Installing
    /\ Doing("uninstall") = {"list", "delete", "gone", "deleteCSV"}
    /\ Doing("reset") = {} /\ Doing("none") = {}
BY DEF Installing, Doing, Verbs

LEMMA Places ==
    /\ {System, Monitoring, OLM} \subseteq Namespaces /\ DBNamespaces \subseteq Namespaces
    /\ Kinds = {"namespace", "olm-operator", "packageserver", "catalog", "group",
                "operator", "monitoring", "role", "roleBinding", "everest", "secret"}
BY DEF Namespaces, Kinds

LEMMA EmptyPlan == ASSUME NEW m PROVE <<>> \in Plan(m)
BY DEF Plan

LEMMA PlanNamespaces ==
    ASSUME NEW m, NEW do \in Doing(m), NEW S \in SUBSET Namespaces, IsFiniteSet(S),
           NEW order \in Orders(S), do # "token"
    PROVE  [i \in DOMAIN order |-> Step(do, "namespace", order[i])] \in Plan(m)
<1> DEFINE k == Cardinality(S)
           T == Planned(m)
<1>1. k \in Nat
      BY FS_CardinalityType
<1>2. order \in [1 .. k -> S] /\ DOMAIN order = 1 .. k
      BY DEF Orders
<1>3. \A i \in 1 .. k : Step(do, "namespace", order[i]) \in T
      BY <1>2, PlanStep, Places
<1>4. [i \in 1 .. k |-> Step(do, "namespace", order[i])] \in [1 .. k -> T]
      BY <1>3
<1>5. [1 .. k -> T] \subseteq Seq(T)
      <2> HIDE DEF k, T
      <2>1. [1 .. k -> T] \in {[1 .. n -> T] : n \in Nat}
            BY <1>1
      <2> QED BY <2>1, SeqDef
<1> QED BY <1>2, <1>4, <1>5 DEF Plan

LEMMA InstallPlans ==
    ASSUME NEW m \in {"install", "upgrade"}
    PROVE  /\ InstallOLM \in Plan(m) /\ InstallPerconaCatalog \in Plan(m)
           /\ \A n \in Namespaces : provisionDBNamespace(n) \in Plan(m)
           /\ provisionOLM \in Plan(m) /\ provisionMonitoringStack \in Plan(m)
           /\ provisionEverestOperator \in Plan(m) /\ provisionEverest \in Plan(m)
<1> DEFINE T == Planned(m)
<1>1. \A do \in Installing, kind \in Kinds \ {"secret"}, n \in Namespaces :
         Step(do, kind, n) \in T
      BY DoingWhat, PlanStep
<1> USE DoingWhat, Places
<1>2. InstallOLM \in Seq(T)
      BY <1>1 DEF InstallOLM, Apply
<1>3. InstallPerconaCatalog \in Seq(T)
      BY <1>1 DEF InstallPerconaCatalog, Apply
<1>4. \A n \in Namespaces : provisionDBNamespace(n) \in Seq(T)
      BY <1>1 DEF provisionDBNamespace, Apply
<1>5. provisionEverestOperator \in Seq(T) /\ provisionEverest \in Seq(T)
      BY <1>1 DEF provisionEverestOperator, provisionEverest, Apply
<1>6. provisionOLM \in Seq(T)
      <2>1. << Step("checkOLM", "olm-operator", OLM) >> \in Seq(T)
            BY <1>1
      <2> QED BY <1>3, <2>1, ConcatProperties DEF provisionOLM
<1>7. provisionMonitoringStack \in Seq(T)
      <2>1. /\ << Step("namespace", "namespace", Monitoring) >> \in Seq(T)
            /\ installVMOperator \in Seq(T)
            /\ << Apply("monitoring", Monitoring) >> \in Seq(T)
            BY <1>1 DEF installVMOperator, Apply
      <2> QED BY <2>1, ConcatProperties DEF provisionMonitoringStack
<1> QED BY <1>2, <1>3, <1>4, <1>5, <1>6, <1>7 DEF Plan

(* An install does what an upgrade does, and more.                         *)
LEMMA UpgradePlans == Plan("upgrade") \subseteq Plan("install")
<1>1. Planned("upgrade") \subseteq Planned("install")
      BY DoingWhat DEF Planned
<1> QED BY <1>1, SeqMonotonic DEF Plan

LEMMA RunPlans ==
    /\ \A S \in SUBSET DBNamespaces : \A order \in Orders(S) :
          RunInstall(order) \in Plan("install") /\ EndsInToken(RunInstall(order))
    /\ RunUpgrade \in Plan("upgrade") /\ runEverestWizard \in Plan("upgrade")
    /\ \A S \in SUBSET DBNamespaces : \A order \in Orders(S) :
          DeleteNamespaces(order) \in Plan("uninstall")
    /\ RunUninstall \in Plan("uninstall")
<1> USE DoingWhat, Places
<1>1. ASSUME NEW S \in SUBSET DBNamespaces, NEW order \in Orders(S)
      PROVE  RunInstall(order) \in Plan("install") /\ EndsInToken(RunInstall(order))
      <2>1. IsFiniteSet(S) /\ S \subseteq Namespaces
            BY ChosenKnown, FS_Subset
      <2>2. [i \in DOMAIN order |-> Step("namespace", "namespace", order[i])]
              \in Plan("upgrade")
            BY <2>1, PlanNamespaces
      <2>3. << Step("token", "secret", System) >> \in Plan("install")
            BY PlanStep
      <2> DEFINE before == provisionOLM \o provisionMonitoringStack
                  \o [i \in DOMAIN order |-> Step("namespace", "namespace", order[i])]
                  \o provisionEverestOperator \o provisionEverest
                 last == << Step("token", "secret", System) >>
      <2>4. before \in Plan("upgrade") /\ RunInstall(order) = before \o last
            BY <2>2, InstallPlans, PlanConcat DEF RunInstall
      <2>5. EndsInToken(last)
            <3>1. Len(last) = 1 /\ last[1].do = "token"
                  BY DEF Step
            <3> QED BY <3>1 DEF EndsInToken
      <2> HIDE DEF before, last
      <2>6. last \in Plan("install") /\ before \in Plan("install")
            BY <2>3, <2>4, UpgradePlans DEF last
      <2>7. EndsInToken(before \o last)
            BY <2>4, <2>5, <2>6, TokenLast
      <2> QED BY <2>4, <2>6, <2>7, PlanConcat
<1>2. RunUpgrade \in Plan("upgrade") /\ runEverestWizard \in Plan("upgrade")
      <2>1. << Step("checkCSV", "packageserver", OLM) >> \in Plan("upgrade")
            BY PlanStep
      <2>2. << Apply("everest", System), Step("await", "everest", System) >>
              \in Plan("upgrade")
            <3> DEFINE T == Planned("upgrade")
            <3>1. Step("apply", "everest", System) \in T
                  BY PlanStep
            <3>2. Step("await", "everest", System) \in T
                  BY PlanStep
            <3> QED BY <3>1, <3>2 DEF Plan, Apply
      <2>3. runEverestWizard \in Plan("upgrade")
            BY PlanStep DEF runEverestWizard
      <2> QED BY <2>1, <2>2, <2>3, InstallPlans, PlanConcat DEF RunUpgrade
<1>3. ASSUME NEW S \in SUBSET Namespaces, IsFiniteSet(S), NEW order \in Orders(S)
      PROVE  DeleteNamespaces(order) \in Plan("uninstall")
      BY <1>3, PlanNamespaces, PlanConcat DEF DeleteNamespaces
<1>4. ASSUME NEW S \in SUBSET DBNamespaces
      PROVE  IsFiniteSet(S) /\ S \subseteq Namespaces
      BY ChosenKnown, FS_Subset
<1>5. ASSUME NEW n \in Namespaces
      PROVE  DeleteNamespaces(<<n>>) \in Plan("uninstall")
      <2>1. IsFiniteSet({n}) /\ Cardinality({n}) = 1
            BY FS_Singleton
      <2>2. <<n>> \in [1 .. 1 -> {n}] /\ DOMAIN <<n>> = 1 .. 1
            OBVIOUS
      <2>3. <<n>> \in Orders({n})
            BY <2>1, <2>2 DEF Orders
      <2> QED BY <1>3, <2>1, <2>3
<1>6. RunUninstall \in Plan("uninstall")
      <2>1. << Step("list", "operator", System) >> \in Plan("uninstall")
            BY PlanStep
      <2>3. << Step("deleteCSV", "packageserver", OLM) >> \in Plan("uninstall")
            BY PlanStep
      <2>2. /\ DeleteNamespaces(<<Monitoring>>) \in Plan("uninstall")
            /\ DeleteNamespaces(<<System>>) \in Plan("uninstall")
            /\ DeleteNamespaces(<<OLM>>) \in Plan("uninstall")
            BY <1>5
      <2> QED BY <2>1, <2>2, <2>3, PlanConcat DEF RunUninstall
<1> QED BY <1>1, <1>2, <1>3, <1>4, <1>6

-----------------------------------------------------------------------------
(* Types, and what the processes are at                                    *)

CommandNames == {"install", "reset", "upgrade", "uninstall", "none"}

LEMMA PlanTyped ==
    /\ \A m \in CommandNames : Plan(m) \subseteq Seq(Steps)
    /\ {ResetToken, ToWrite, ToPrint} \subseteq Seq(Steps)
<1>1. ASSUME NEW m \in CommandNames
      PROVE  Plan(m) \subseteq Seq(Steps)
      <2>1. Doing(m) \subseteq Verbs
            BY DoingWhat DEF CommandNames, Verbs
      <2>2. Planned(m) \subseteq Steps
            BY <2>1 DEF Planned, Steps
      <2> QED BY <2>2, SeqMonotonic DEF Plan
<1>2. /\ Step("uid", "namespace", System) \in Steps
      /\ Step("write", "secret", System) \in Steps
      /\ Step("print", "secret", System) \in Steps
      BY Places DEF Steps, Step, Verbs
<1> QED BY <1>1, <1>2 DEF ResetToken, ToWrite, ToPrint

(* The step a process is at is one of its command, or of a token's making. *)
LEMMA CurrentStep ==
    ASSUME TypeOK, CommandInv, NEW c \in Cli, NEW do, At(c, do)
    PROVE  \/ /\ do \in Doing(command[c]) /\ todo[c] \in Plan(command[c])
              /\ Object(c) \in Kinds \X Namespaces /\ Where(c) \in Namespaces
              /\ Tail(todo[c]) \in Plan(command[c])
              /\ do = "token" => Object(c) = <<"secret", System>>
              /\ do # "token" => Object(c)[1] # "secret"
           \/ /\ command[c] \in {"install", "reset"}
              /\ Where(c) = System
              /\ \/ do = "uid" /\ todo[c] = ResetToken /\ Tail(todo[c]) = ToWrite
                 \/ do = "write" /\ todo[c] = ToWrite /\ Tail(todo[c]) = ToPrint
                 \/ do = "print" /\ todo[c] = ToPrint /\ Tail(todo[c]) = <<>>
              /\ do # "uid" => Object(c) = <<"secret", System>>
<1>1. todo[c] # <<>> /\ Head(todo[c]).do = do
      BY DEF At
<1>2. CASE todo[c] \in Plan(command[c])
      BY <1>1, <1>2, PlanSplit DEF Object, Where
<1>3. CASE /\ todo[c] \in {ResetToken, ToWrite, ToPrint}
           /\ command[c] \in {"install", "reset"}
      <2>1. CASE todo[c] = ResetToken
            BY <1>1, <1>3, <2>1, TokenSteps DEF Object, Where, Step
      <2>2. CASE todo[c] = ToWrite
            BY <1>1, <1>3, <2>2, TokenSteps DEF Object, Where, Step
      <2>3. CASE todo[c] = ToPrint
            BY <1>1, <1>3, <2>3, TokenSteps DEF Object, Where, Step
      <2> QED BY <1>3, <2>1, <2>2, <2>3
<1> QED BY <1>2, <1>3 DEF CommandInv

LEMMA CommandStep ==
    ASSUME TypeOK, CommandInv, NEW c \in Cli, NEW do, At(c, do),
           do \notin {"uid", "write", "print"}
    PROVE  /\ do \in Doing(command[c]) /\ todo[c] \in Plan(command[c])
           /\ Object(c) \in Kinds \X Namespaces /\ Where(c) \in Namespaces
           /\ Tail(todo[c]) \in Plan(command[c])
           /\ do = "token" => Object(c) = <<"secret", System>>
           /\ do # "token" => Object(c)[1] # "secret"
BY CurrentStep

LEMMA TokenStep ==
    ASSUME TypeOK, CommandInv, NEW c \in Cli, NEW do \in {"uid", "write", "print"},
           At(c, do)
    PROVE  /\ command[c] \in {"install", "reset"} /\ Where(c) = System
           /\ do = "uid" => todo[c] = ResetToken /\ Tail(todo[c]) = ToWrite
           /\ do = "write" => todo[c] = ToWrite /\ Tail(todo[c]) = ToPrint
           /\ do = "print" => todo[c] = ToPrint /\ Tail(todo[c]) = <<>>
           /\ do # "uid" => Object(c) = <<"secret", System>>
<1>1. command[c] \in CommandNames
      BY DEF TypeOK, CommandNames
<1>2. do \notin Doing(command[c])
      BY <1>1, DoingWhat DEF CommandNames
<1> QED BY <1>2, CurrentStep

(* What a process may have left to do after a step.                        *)
Rest(c, rest) ==
    \/ rest \in Plan(command[c])
    \/ /\ command[c] \in {"install", "reset"}
       /\ \/ todo[c] = ResetToken /\ rest = ToWrite
          \/ todo[c] = ToWrite /\ rest = ToPrint
          \/ rest = ResetToken /\ <<"secret", System>> \notin object
Moved(c) ==
    \E rest, s :
        /\ todo' = [todo EXCEPT ![c] = rest] /\ status' = [status EXCEPT ![c] = s]
        /\ s \in {"running", "ok", "failed"}
        /\ Rest(c, rest) /\ (rest \in Plan(command[c]) \/ s = "running")

LEMMA Continues ==
    ASSUME TypeOK, NEW c \in Cli, Running(c), NEW rest, Rest(c, rest), Continue(c, rest)
    PROVE  Moved(c)
<1> DEFINE s == IF rest = <<>> THEN "ok" ELSE "running"
<1>1. /\ todo' = [todo EXCEPT ![c] = rest]
      /\ status' = [status EXCEPT ![c] = s]
      BY DEF Continue, Running, TypeOK
<1>2. rest \in Plan(command[c]) \/ s = "running"
      BY TokenSteps DEF Rest
<1> QED BY <1>1, <1>2 DEF Moved

LEMMA Stops ==
    ASSUME TypeOK, NEW c \in Cli, Fails(c)
    PROVE  Moved(c)
BY EmptyPlan DEF Fails, Moved, Rest

(* Every step leaves a process with a rest of this kind.                   *)
LEMMA StepMoves ==
    ASSUME TypeOK, CommandInv, NEW c \in Cli, Advance(c) \/ Stop(c)
    PROVE  /\ Running(c) /\ Moved(c) /\ UNCHANGED <<command, met, leftover>>
           /\ \/ printed' = printed
              \/ printed' = printed \cup {c} /\ command[c] \in {"install", "reset"}
<1>1. Running(c)
      BY DEF Advance, Stop, ApplyObject, CreateNamespace, CheckOLM, Await, upgradeOLM,
         SelectNamespaces, InstallOperator, InstallEverest, GetSecret, GetNamespace,
         SetSecret, PrintOutput, GetDBNamespaces, DeleteNamespace, PollNamespace,
         DeleteCSV, At
<1>2. UNCHANGED <<command, met, leftover>>
      BY DEF Advance, Stop, ApplyObject, CreateNamespace, CheckOLM, Await, upgradeOLM,
         SelectNamespaces, InstallOperator, InstallEverest, GetSecret, GetNamespace,
         SetSecret, PrintOutput, GetDBNamespaces, DeleteNamespace, PollNamespace,
         DeleteCSV, history
<1>3. UNCHANGED printed \/ PrintOutput(c)
      BY DEF Advance, Stop, ApplyObject, CreateNamespace, CheckOLM, Await, upgradeOLM,
         SelectNamespaces, InstallOperator, InstallEverest, GetSecret, GetNamespace,
         SetSecret, GetDBNamespaces, DeleteNamespace, PollNamespace, DeleteCSV, history
<1>4. Rest(c, Tail(todo[c])) /\ Continue(c, Tail(todo[c])) => Moved(c)
      BY <1>1, Continues
<1>5. ASSUME NEW do, At(c, do), do \notin {"uid", "write", "print"}, Done(c)
      PROVE  Moved(c)
      BY <1>4, <1>5, CommandStep DEF Rest, Done
<1>6. ASSUME Fails(c) PROVE Moved(c)
      BY <1>6, Stops
<1>7. ASSUME \/ ApplyObject(c) \/ Await(c) \/ SelectNamespaces(c)
             \/ InstallOperator(c) \/ DeleteNamespace(c) \/ PollNamespace(c)
             \/ DeleteCSV(c)
      PROVE  Moved(c)
      BY <1>5, <1>6, <1>7
         DEF ApplyObject, Await, SelectNamespaces, InstallOperator, DeleteNamespace,
             PollNamespace, DeleteCSV
(* A plan put before the rest of that of an install or upgrade.            *)
<1>8. ASSUME NEW do \in Installing, At(c, do),
             NEW s, \A m \in {"install", "upgrade"} : s \in Plan(m),
             Continue(c, s \o Tail(todo[c]))
      PROVE  Moved(c)
      <2>1. do \notin {"uid", "write", "print"}
            BY DoingWhat
      <2>2. /\ do \in Doing(command[c]) /\ Tail(todo[c]) \in Plan(command[c])
            /\ command[c] \in CommandNames
            BY <1>8, <2>1, CommandStep DEF TypeOK, CommandNames
      <2>3. command[c] \in {"install", "upgrade"}
            BY <2>2, DoingWhat DEF CommandNames
      <2>4. s \o Tail(todo[c]) \in Plan(command[c])
            BY <1>8, <2>2, <2>3, PlanConcat
      <2> QED BY <1>1, <1>8, <2>4, Continues DEF Rest
<1>9. ASSUME CreateNamespace(c)
      PROVE  Moved(c)
      <2>1. At(c, "namespace")
            BY <1>9 DEF CreateNamespace
      <2>2. CASE Done(c)
            BY <1>5, <2>1, <2>2
      <2>3. CASE /\ Where(c) \in DBNamespaces
                 /\ Continue(c, provisionDBNamespace(Where(c)) \o Tail(todo[c]))
            <3>1. \A m \in {"install", "upgrade"} : provisionDBNamespace(Where(c)) \in Plan(m)
                  BY <2>3, InstallPlans, Places
            <3> QED BY <1>8, <2>1, <2>3, <3>1, DoingWhat
      <2> QED BY <1>9, <2>2, <2>3 DEF CreateNamespace, Done
<1>10. ASSUME CheckOLM(c) \/ upgradeOLM(c) \/ InstallEverest(c)
       PROVE  Moved(c)
      <2>1. \A m \in {"install", "upgrade"} :
               /\ <<>> \in Plan(m) /\ InstallOLM \in Plan(m)
               /\ <<Step("await", "everest", System)>> \in Plan(m)
            BY InstallPlans, EmptyPlan, PlanStep, DoingWhat, Places
      <2>2. CASE CheckOLM(c)
            BY <1>5, <1>8, <2>1, <2>2, DoingWhat DEF CheckOLM
      <2>3. CASE upgradeOLM(c)
            BY <1>6, <1>8, <2>1, <2>3, DoingWhat DEF upgradeOLM
      <2>4. CASE InstallEverest(c)
            BY <1>5, <1>6, <1>8, <2>1, <2>4, DoingWhat DEF InstallEverest
      <2> QED BY <1>10, <2>2, <2>3, <2>4
<1>11. ASSUME GetSecret(c)
       PROVE  Moved(c)
      <2>1. command[c] = "install"
            <3>1. "token" \in Doing(command[c]) /\ command[c] \in CommandNames
                  BY <1>11, CommandStep DEF GetSecret, TypeOK, CommandNames
            <3> QED BY <3>1, DoingWhat DEF CommandNames
      <2>2. At(c, "token") /\ Object(c) = <<"secret", System>>
            BY <1>11, CommandStep DEF GetSecret
      <2>3. CASE Object(c) \in object /\ Continue(c, <<>>)
            BY <1>1, <2>3, EmptyPlan, Continues DEF Rest
      <2>4. CASE Object(c) \notin object /\ Continue(c, ResetToken)
            BY <1>1, <2>1, <2>2, <2>4, Continues DEF Rest
      <2> QED BY <1>11, <2>3, <2>4 DEF GetSecret
<1>12. ASSUME NEW do \in {"uid", "write", "print"}, At(c, do), Done(c)
       PROVE  Moved(c)
      <2>1. Rest(c, Tail(todo[c]))
            BY <1>12, TokenStep, EmptyPlan DEF Rest
      <2> QED BY <1>4, <1>12, <2>1 DEF Done
<1>13. ASSUME GetDBNamespaces(c)
       PROVE  Moved(c)
      <2>1. At(c, "list") /\ monitored \in SUBSET DBNamespaces
            BY <1>13 DEF GetDBNamespaces, TypeOK
      <2>2. "list" \in Doing(command[c]) /\ Tail(todo[c]) \in Plan(command[c])
            /\ command[c] \in CommandNames
            BY <2>1, CommandStep DEF TypeOK, CommandNames
      <2>3. command[c] = "uninstall"
            BY <2>2, DoingWhat DEF CommandNames
      <2>4. \A order \in Orders(monitored) :
               DeleteNamespaces(order) \o Tail(todo[c]) \in Plan(command[c])
            BY <2>1, <2>2, <2>3, RunPlans, PlanConcat
      <2> QED BY <1>1, <1>6, <1>13, <2>4, Continues DEF GetDBNamespaces, Rest
<1>14. Moved(c)
       BY <1>6, <1>7, <1>9, <1>10, <1>11, <1>12, <1>13
          DEF Advance, Stop, GetNamespace, SetSecret, PrintOutput
<1>15. PrintOutput(c) => printed' = printed \cup {c} /\ command[c] \in {"install", "reset"}
       BY TokenStep DEF PrintOutput
<1> QED BY <1>1, <1>2, <1>3, <1>14, <1>15

LEMMA ObjectTyped ==
    ASSUME TypeOK, CommandInv, NEW c \in Cli, NEW do, At(c, do)
    PROVE  Object(c) \in Kinds \X Namespaces /\ Where(c) \in Namespaces
<1>1. CASE do \in {"uid", "write", "print"}
      <2>1. todo[c] \in Seq(Steps) /\ todo[c] # <<>>
            BY DEF TypeOK, At
      <2>2. Head(todo[c]) \in Steps
            BY <2>1, HeadTailProperties
      <2> QED BY <2>2 DEF Steps, Object, Where
<1>2. CASE do \notin {"uid", "write", "print"}
      BY <1>2, CommandStep
<1> QED BY <1>1, <1>2

LEMMA ClusterTyped ==
    ASSUME TypeOK, CommandInv, NEW c \in Cli, Advance(c)
    PROVE  /\ object' \subseteq Kinds \X Namespaces
           /\ namespace' \in [Namespaces -> {"absent", "active", "terminating"}]
           /\ uid' \in Nat /\ monitored' \subseteq DBNamespaces
           /\ secret' \in Secrets \cup {None}
           /\ salt' \in [Cli -> Nat]
<1> USE ObjectTyped DEF TypeOK
<1>1. CASE ApplyObject(c) \/ InstallEverest(c) \/ DeleteCSV(c)
      BY <1>1 DEF ApplyObject, InstallEverest, DeleteCSV
<1>2. CASE CreateNamespace(c)
      BY <1>2 DEF CreateNamespace
<1>3. CASE InstallOperator(c)
      BY <1>3, ChosenKnown DEF InstallOperator, Told
<1>4. CASE SetSecret(c)
      BY <1>4 DEF SetSecret, Secrets
<1>5. CASE DeleteNamespace(c)
      BY <1>5 DEF DeleteNamespace
<1>6. CASE GetNamespace(c)
      <2>1. salt' \in [Cli -> Nat]
            BY <1>6 DEF GetNamespace
      <2> QED BY <1>6, <2>1 DEF GetNamespace, cluster
<1>7. CASE CheckOLM(c) \/ Await(c) \/ upgradeOLM(c) \/ SelectNamespaces(c)
           \/ GetSecret(c) \/ PrintOutput(c) \/ GetDBNamespaces(c) \/ PollNamespace(c)
      BY <1>7 DEF CheckOLM, Await, upgradeOLM, SelectNamespaces, GetSecret, PrintOutput,
                  GetDBNamespaces, PollNamespace, cluster
<1> QED BY <1>1, <1>2, <1>3, <1>4, <1>5, <1>6, <1>7 DEF Advance

(* Only an uninstall has a namespace deleted.                              *)
LEMMA DeletedByUninstall ==
    ASSUME TypeOK, CommandInv, NEW c \in Cli, Advance(c), NEW n \in Namespaces,
           namespace'[n] = "terminating", namespace[n] # "terminating"
    PROVE  command[c] = "uninstall"
<1>1. DeleteNamespace(c)
      BY DEF TypeOK, Advance, ApplyObject, CreateNamespace, CheckOLM, Await, upgradeOLM,
         SelectNamespaces, InstallOperator, InstallEverest, GetSecret, GetNamespace,
         SetSecret, PrintOutput, GetDBNamespaces, PollNamespace, DeleteCSV, cluster
<1>2. "delete" \in Doing(command[c]) /\ command[c] \in CommandNames
      BY <1>1, CommandStep DEF DeleteNamespace, TypeOK, CommandNames
<1> QED BY <1>2, DoingWhat DEF CommandNames

(* What a process starts with.                                             *)
Started(c, m) ==
    \E plan :
        /\ command' = [command EXCEPT ![c] = m] /\ todo' = [todo EXCEPT ![c] = plan]
        /\ plan \in Plan(m) \/ (m = "reset" /\ plan = ResetToken)
        /\ m = "install" => EndsInToken(plan)

LEMMA StartsWith ==
    ASSUME TypeOK, NEW c \in Cli, Start(c)
    PROVE  \E m \in {"install", "reset", "upgrade", "uninstall"} : Started(c, m)
<1>1. PICK m \in Commands[c] :
         /\ command' = [command EXCEPT ![c] = m]
         /\ \/ /\ m = "install" /\ Chosen[c] # {}
               /\ \E order \in Orders(Chosen[c]) :
                    todo' = [todo EXCEPT ![c] = RunInstall(order)]
            \/ m = "reset" /\ todo' = [todo EXCEPT ![c] = ResetToken]
            \/ m = "upgrade" /\ Chosen[c] # {}
               /\ todo' \in {[todo EXCEPT ![c] = RunUpgrade],
                             [todo EXCEPT ![c] = runEverestWizard
                                                   \o RunUpgrade]}
            \/ m = "uninstall" /\ todo' = [todo EXCEPT ![c] = RunUninstall]
      BY DEF Start
<1>2. Chosen[c] \in SUBSET DBNamespaces
      BY ChosenKnown
<1>3. CASE m = "install"
      <2>1. PICK order \in Orders(Chosen[c]) :
               todo' = [todo EXCEPT ![c] = RunInstall(order)]
            BY <1>1, <1>3
      <2>2. RunInstall(order) \in Plan(m) /\ EndsInToken(RunInstall(order))
            BY <1>2, <1>3, RunPlans
      <2> QED BY <1>1, <1>3, <2>1, <2>2 DEF Started
<1>4. CASE m = "reset"
      BY <1>1, <1>4 DEF Started
<1>5. CASE m = "upgrade"
      <2>1. RunUpgrade \in Plan(m) /\ runEverestWizard \o RunUpgrade \in Plan(m)
            BY <1>5, RunPlans, PlanConcat
      <2> QED BY <1>1, <1>5, <2>1 DEF Started
<1>6. CASE m = "uninstall"
      BY <1>1, <1>6, RunPlans DEF Started
<1> QED BY <1>1, <1>3, <1>4, <1>5, <1>6

LEMMA InitCommand == Init => TypeOK /\ CommandInv
<1> SUFFICES ASSUME Init PROVE TypeOK /\ CommandInv
    OBVIOUS
<1>1. TypeOK
      BY DEF Init, TypeOK
<1>2. CommandInv
      BY EmptyPlan DEF Init, CommandInv, Running
<1> QED BY <1>1, <1>2

LEMMA StartCommand ==
    ASSUME TypeOK, CommandInv, NEW c \in Cli, Start(c)
    PROVE  TypeOK' /\ CommandInv'
<1>0. PICK m \in {"install", "reset", "upgrade", "uninstall"} : Started(c, m)
      BY StartsWith
<1>1. PICK plan :
        /\ command' = [command EXCEPT ![c] = m] /\ todo' = [todo EXCEPT ![c] = plan]
        /\ plan \in Plan(m) \/ (m = "reset" /\ plan = ResetToken)
      BY <1>0 DEF Started
<1>2. /\ status' = [status EXCEPT ![c] = "running"]
      /\ \A d \in Cli : met'[d] = IF d = c THEN Others(c)
                                    ELSE IF Running(d) THEN met[d] \cup {c} ELSE met[d]
      /\ met' \in [Cli -> SUBSET Cli]
      /\ UNCHANGED <<object, namespace, uid, monitored, secret, salt, printed>>
      /\ status[c] = "idle" /\ command[c] = "none"
      <2>1. Others(c) \subseteq Cli
            BY DEF Others
      <2> QED BY <2>1 DEF Start, cluster, TypeOK, CommandInv
<1>3. TypeOK'
      <2>1. plan \in Seq(Steps)
            BY <1>1, PlanTyped DEF CommandNames
      <2>2. /\ todo' \in [Cli -> Seq(Steps)]
            /\ command' \in [Cli -> {"install", "reset", "upgrade", "uninstall", "none"}]
            /\ status' \in [Cli -> {"idle", "running", "ok", "failed"}]
            BY <1>1, <1>2, <2>1 DEF TypeOK
      <2>3. leftover' \in [Cli -> BOOLEAN]
            BY DEF Start, TypeOK
      <2> QED BY <1>2, <2>2, <2>3 DEF TypeOK
<1>4. ASSUME NEW d \in Cli
      PROVE  /\ (status[d] = "idle" <=> command[d] = "none")'
             /\ \/ todo'[d] \in Plan(command'[d])
                \/ /\ todo'[d] \in {ResetToken, ToWrite, ToPrint}
                   /\ command'[d] \in {"install", "reset"} /\ Running(d)'
             /\ d \in printed' => command'[d] \in {"install", "reset"}
      <2>1. CASE d = c
            <3>1. command'[c] = m /\ todo'[c] = plan /\ status'[c] = "running"
                  BY <1>1, <1>2 DEF TypeOK
            <3>2. c \notin printed
                  BY <1>2 DEF CommandInv
            <3> QED BY <1>1, <1>2, <2>1, <3>1, <3>2 DEF Running
      <2>2. CASE d # c
            <3>1. /\ command'[d] = command[d] /\ todo'[d] = todo[d]
                  /\ status'[d] = status[d]
                  BY <1>1, <1>2, <2>2 DEF TypeOK
            <3> QED BY <1>2, <3>1 DEF CommandInv, Running
      <2> QED BY <2>1, <2>2
<1>5. ASSUME NEW d \in Cli, NEW e \in Cli, Running(d)', Running(e)', d # e
      PROVE  e \in met'[d]
      <2>1. \A x \in Cli \ {c} : Running(x)' = Running(x)
            BY <1>2 DEF TypeOK, Running
      <2>2. CASE d = c
            BY <1>2, <1>5, <2>1, <2>2 DEF Others
      <2>3. CASE d # c /\ e = c
            BY <1>2, <1>5, <2>1, <2>3
      <2>4. CASE d # c /\ e # c
            BY <1>2, <1>5, <2>1, <2>4 DEF CommandInv
      <2> QED BY <2>2, <2>3, <2>4
<1>6. (\E n \in Namespaces : namespace'[n] = "terminating") =>
          \E d \in Cli : command'[d] = "uninstall"
      BY <1>1, <1>2 DEF CommandInv, TypeOK
<1> QED BY <1>3, <1>4, <1>5, <1>6 DEF CommandInv

(* The steps and the end of a process.                                     *)
LEMMA AdvanceCommand ==
    ASSUME TypeOK, CommandInv, NEW c \in Cli, Advance(c) \/ Stop(c)
    PROVE  TypeOK' /\ CommandInv'
<1>1. /\ Running(c) /\ UNCHANGED <<command, met, leftover>>
      /\ \/ printed' = printed
         \/ printed' = printed \cup {c} /\ command[c] \in {"install", "reset"}
      BY StepMoves
<1>2. PICK rest, s :
        /\ todo' = [todo EXCEPT ![c] = rest] /\ status' = [status EXCEPT ![c] = s]
        /\ s \in {"running", "ok", "failed"}
        /\ Rest(c, rest) /\ (rest \in Plan(command[c]) \/ s = "running")
      BY StepMoves DEF Moved
<1>3. TypeOK'
      <2>1. rest \in Seq(Steps)
            <3>1. command[c] \in CommandNames
                  BY DEF TypeOK, CommandNames
            <3> QED BY <1>2, <3>1, PlanTyped DEF Rest
      <2>2. /\ todo' \in [Cli -> Seq(Steps)]
            /\ status' \in [Cli -> {"idle", "running", "ok", "failed"}]
            BY <1>2, <2>1 DEF TypeOK
      <2>3. /\ object' \subseteq Kinds \X Namespaces
            /\ namespace' \in [Namespaces -> {"absent", "active", "terminating"}]
            /\ uid' \in Nat /\ monitored' \subseteq DBNamespaces
            /\ secret' \in Secrets \cup {None}
            /\ salt' \in [Cli -> Nat]
            BY ClusterTyped DEF Stop, cluster, TypeOK
      <2> QED BY <1>1, <2>2, <2>3 DEF TypeOK
<1>4. ASSUME NEW d \in Cli
      PROVE  /\ (status[d] = "idle" <=> command[d] = "none")'
             /\ \/ todo'[d] \in Plan(command'[d])
                \/ /\ todo'[d] \in {ResetToken, ToWrite, ToPrint}
                   /\ command'[d] \in {"install", "reset"} /\ Running(d)'
             /\ d \in printed' => command'[d] \in {"install", "reset"}
      <2>1. CASE d = c
            BY <1>1, <1>2, <2>1 DEF TypeOK, CommandInv, Running, Rest
      <2>2. CASE d # c
            BY <1>1, <1>2, <2>2 DEF TypeOK, CommandInv, Running
      <2> QED BY <2>1, <2>2
<1>5. ASSUME NEW d \in Cli, NEW e \in Cli, Running(d)', Running(e)', d # e
      PROVE  e \in met'[d]
      <2>1. \A x \in Cli : Running(x)' => Running(x)
            BY <1>1, <1>2 DEF TypeOK, Running
      <2> QED BY <1>1, <1>5, <2>1 DEF CommandInv
<1>6. ASSUME NEW n \in Namespaces, namespace'[n] = "terminating"
      PROVE  \E d \in Cli : command'[d] = "uninstall"
      <2>1. CASE namespace[n] = "terminating"
            BY <1>1, <2>1 DEF CommandInv
      <2>2. CASE namespace[n] # "terminating"
            <3>1. Advance(c)
                  BY <1>6, <2>2 DEF Stop, cluster
            <3> QED BY <1>1, <1>6, <2>2, <3>1, DeletedByUninstall
      <2> QED BY <2>1, <2>2
<1> QED BY <1>3, <1>4, <1>5, <1>6 DEF CommandInv

LEMMA GoneCommand ==
    ASSUME TypeOK, CommandInv, NEW n \in Namespaces, NamespaceGone(n)
    PROVE  TypeOK' /\ CommandInv'
<1>1. TypeOK'
      BY DEF TypeOK, NamespaceGone, process, history
<1>2. \A m \in Namespaces : namespace'[m] = "terminating" => namespace[m] = "terminating"
      BY DEF TypeOK, NamespaceGone
<1>3. UNCHANGED <<command, status, todo, printed, met>>
      BY DEF NamespaceGone, process, history
<1> QED BY <1>1, <1>2, <1>3 DEF CommandInv, Running

LEMMA StepCommand ==
    ASSUME TypeOK, CommandInv, [Next]_vars
    PROVE  TypeOK' /\ CommandInv'
<1>1. CASE UNCHANGED vars
      BY <1>1 DEF vars, TypeOK, CommandInv, Running
<1>2. CASE Terminated
      BY <1>1, <1>2 DEF Terminated
<1> QED BY <1>1, <1>2, StartCommand, AdvanceCommand, GoneCommand DEF Next

(* The variables keep their types, and a process has steps of its command  *)
(* before it or is making a token; all that run at once have met, and      *)
(* nothing is being deleted unless somebody uninstalled.                   *)
THEOREM TypeCorrect == Spec => [](TypeOK /\ CommandInv)
BY InitCommand, StepCommand, PTL DEF Spec

-----------------------------------------------------------------------------
(* The token that was printed                                              *)

LEMMA NotPlanned ==
    /\ \A m \in CommandNames : Plan(m) \cap {ResetToken, ToWrite, ToPrint} = {}
    /\ ResetToken # ToWrite /\ ResetToken # ToPrint /\ ToWrite # ToPrint
<1>1. ASSUME NEW m \in CommandNames, NEW s \in {ResetToken, ToWrite, ToPrint}, s \in Plan(m)
      PROVE  FALSE
      <2>1. s # <<>> /\ Head(s).do \in {"uid", "write", "print"}
            BY <1>1, TokenSteps DEF Step
      <2>2. Head(s).do \in Doing(m)
            BY <1>1, <2>1, PlanSplit
      <2> QED BY <2>1, <2>2, DoingWhat DEF CommandNames
<1>2. /\ Head(ResetToken).do = "uid" /\ Head(ToWrite).do = "write"
      /\ Head(ToPrint).do = "print"
      BY TokenSteps DEF Step
<1>3. ResetToken # ToWrite /\ ResetToken # ToPrint /\ ToWrite # ToPrint
      BY <1>2
<1> QED BY <1>1, <1>3

(* Where nobody but c was to uninstall, nobody did, and nothing goes.      *)
LEMMA Calm ==
    ASSUME TypeOK, CommandInv, NEW c \in Cli, Undisturbed(c),
           command[c] \in {"install", "reset"}
    PROVE  /\ \A d \in Cli : command[d] # "uninstall"
           /\ \A n \in Namespaces : namespace[n] # "terminating"
<1>1. \A d \in Cli : command[d] # "uninstall"
      BY DEF Undisturbed
<1> QED BY <1>1 DEF CommandInv

(* A step of a command that does not uninstall.                            *)
LEMMA CalmStep ==
    ASSUME TypeOK, CommandInv, NEW d \in Cli, Advance(d) \/ Stop(d),
           command[d] # "uninstall"
    PROVE  /\ namespace[System] = "active" =>
                 namespace'[System] = "active" /\ uid' = uid
           /\ object \subseteq object' /\ monitored \subseteq monitored'
           /\ \A e \in Cli \ {d} : salt'[e] = salt[e] /\ todo'[e] = todo[e]
           /\ SetSecret(d) \/ secret' = secret
<1>1. ~DeleteNamespace(d) /\ ~DeleteCSV(d)
      <2>1. command[d] \in CommandNames
            BY DEF TypeOK, CommandNames
      <2>2. "delete" \notin Doing(command[d]) /\ "deleteCSV" \notin Doing(command[d])
            BY <2>1, DoingWhat DEF CommandNames
      <2> QED BY <2>2, CommandStep DEF DeleteNamespace, DeleteCSV
<1>2. \A e \in Cli \ {d} : todo'[e] = todo[e]
      BY StepMoves DEF Moved, TypeOK
<1> USE DEF TypeOK
<1>3. CASE ApplyObject(d) \/ InstallEverest(d) \/ InstallOperator(d)
      BY <1>2, <1>3 DEF ApplyObject, InstallEverest, InstallOperator, Told
<1>4. CASE CreateNamespace(d)
      BY <1>2, <1>4, Places DEF CreateNamespace
<1>5. CASE SetSecret(d)
      BY <1>2, <1>5 DEF SetSecret
<1>6. CASE GetNamespace(d)
      BY <1>2, <1>6 DEF GetNamespace, cluster
<1>7. CASE CheckOLM(d) \/ Await(d) \/ upgradeOLM(d) \/ SelectNamespaces(d)
           \/ GetSecret(d) \/ PrintOutput(d) \/ GetDBNamespaces(d) \/ PollNamespace(d)
           \/ Stop(d)
      BY <1>2, <1>7 DEF CheckOLM, Await, upgradeOLM, SelectNamespaces, GetSecret,
                  PrintOutput, GetDBNamespaces, PollNamespace, Stop, cluster
<1> QED BY <1>1, <1>3, <1>4, <1>5, <1>6, <1>7 DEF Advance

(* A token is about to be written once the UID is read, and to be printed  *)
(* once it is written.                                                     *)
LEMMA Makes ==
    ASSUME TypeOK, CommandInv, NEW c \in Cli, Advance(c) \/ Stop(c)
    PROVE  /\ todo'[c] = ToWrite => GetNamespace(c) /\ namespace[System] # "absent"
           /\ todo'[c] = ToPrint => todo[c] = ToWrite /\ SetSecret(c)
           /\ SetSecret(c) => todo[c] = ToWrite
           /\ GetNamespace(c) => todo[c] = ResetToken
           /\ c \in printed' => c \in printed \/ todo[c] = ToPrint
<1>1. PICK rest : todo' = [todo EXCEPT ![c] = rest] /\ Rest(c, rest)
      BY StepMoves DEF Moved
<1>2. todo'[c] = rest /\ command[c] \in CommandNames
      BY <1>1 DEF TypeOK, CommandNames
<1>3. rest = ToWrite => todo[c] = ResetToken
      BY <1>1, <1>2, NotPlanned DEF Rest
<1>4. rest = ToPrint => todo[c] = ToWrite
      BY <1>1, <1>2, NotPlanned DEF Rest
<1>5. Stop(c) => rest = <<>>
      BY <1>2 DEF Stop, Fails, TypeOK
<1>6. ASSUME todo[c] = ResetToken, rest = ToWrite
      PROVE  GetNamespace(c) /\ namespace[System] # "absent"
      <2>1. Head(todo[c]).do = "uid"
            BY <1>6, TokenSteps DEF Step
      <2>2. Advance(c) /\ ~Fails(c)
            BY <1>2, <1>5, <1>6, TokenSteps DEF Fails, TypeOK
      <2>3. GetNamespace(c)
            BY <2>1, <2>2 DEF At, Advance, ApplyObject, CreateNamespace, CheckOLM, Await,
               upgradeOLM, SelectNamespaces, InstallOperator, InstallEverest, GetSecret,
               SetSecret, PrintOutput, GetDBNamespaces, DeleteNamespace, PollNamespace,
               DeleteCSV
      <2> QED BY <2>2, <2>3 DEF GetNamespace
<1>7. ASSUME todo[c] = ToWrite, rest = ToPrint
      PROVE  SetSecret(c)
      <2>1. Head(todo[c]).do = "write"
            BY <1>7, TokenSteps DEF Step
      <2>2. Advance(c)
            BY <1>5, <1>7, TokenSteps
      <2> QED BY <2>1, <2>2 DEF At, Advance, ApplyObject, CreateNamespace, CheckOLM, Await,
               upgradeOLM, SelectNamespaces, InstallOperator, InstallEverest, GetSecret,
               GetNamespace, PrintOutput, GetDBNamespaces, DeleteNamespace, PollNamespace,
               DeleteCSV
<1>8. ASSUME c \in printed', c \notin printed
      PROVE  todo[c] = ToPrint
      <2>1. PrintOutput(c)
            BY <1>8 DEF Advance, Stop, ApplyObject, CreateNamespace, CheckOLM, Await,
               upgradeOLM, SelectNamespaces, InstallOperator, InstallEverest, GetSecret,
               GetNamespace, SetSecret, GetDBNamespaces, DeleteNamespace, PollNamespace,
               DeleteCSV, history
      <2> QED BY <2>1, TokenStep DEF PrintOutput
<1>9. (SetSecret(c) => todo[c] = ToWrite) /\ (GetNamespace(c) => todo[c] = ResetToken)
      BY TokenStep DEF SetSecret, GetNamespace
<1> QED BY <1>2, <1>3, <1>4, <1>6, <1>7, <1>8, <1>9

LEMMA StartKeepsToken ==
    ASSUME TypeOK, CommandInv, TokenInv, NEW d \in Cli, Start(d),
           NEW c \in Cli, Undisturbed(c)'
    PROVE  TokenKept(c)'
<1>0. PICK m \in {"install", "reset", "upgrade", "uninstall"} : Started(d, m)
      BY StartsWith
<1>1. PICK plan :
        /\ command' = [command EXCEPT ![d] = m] /\ todo' = [todo EXCEPT ![d] = plan]
        /\ plan \in Plan(m) \/ (m = "reset" /\ plan = ResetToken)
      BY <1>0 DEF Started
<1>2. /\ status' = [status EXCEPT ![d] = "running"] /\ command[d] = "none"
      /\ \A e \in Cli \ {d} : met[e] \subseteq met'[e]
      /\ UNCHANGED <<object, namespace, uid, monitored, secret, salt, printed>>
      BY DEF Start, cluster, TypeOK, CommandInv
<1>3. CASE c = d
      <2>1. c \notin printed
            BY <1>2, <1>3 DEF CommandInv
      <2>2. todo'[c] # ToWrite /\ todo'[c] # ToPrint
            BY <1>1, <1>3, NotPlanned DEF TypeOK, CommandNames
      <2> QED BY <1>2, <2>1, <2>2 DEF TokenKept, Written
<1>4. CASE c # d
      <2>1. TokenKept(c)
            <3>1. \A e \in Cli : command'[e] = IF e = d THEN m ELSE command[e]
                  BY <1>1 DEF TypeOK
            <3>2. met[c] \subseteq met'[c] /\ met[c] \subseteq Cli
                  BY <1>2, <1>4 DEF TypeOK
            <3>3. Undisturbed(c)
                  BY <1>2, <3>1, <3>2 DEF Undisturbed
            <3> QED BY <3>3 DEF TokenInv
      <2>2. todo'[c] = todo[c]
            BY <1>1, <1>4 DEF TypeOK
      <2>3. ASSUME NEW e \in Cli \ {c}, Running(e)', e \notin met'[c], Written(c)
            PROVE  todo'[e] \in Plan(command'[e])
            <3>1. CASE e = d
                  <4>1. m # "reset"
                        BY <1>1, <1>4 DEF Undisturbed, TypeOK
                  <4> QED BY <1>1, <3>1, <4>1 DEF TypeOK
            <3>2. CASE e # d
                  BY <1>1, <1>2, <1>4, <2>1, <2>3, <3>2 DEF TokenKept, Running, TypeOK
            <3> QED BY <3>1, <3>2
      <2> QED BY <1>2, <2>1, <2>2, <2>3 DEF TokenKept, Written, Works
<1> QED BY <1>3, <1>4

LEMMA AdvanceKeepsToken ==
    ASSUME TypeOK, CommandInv, TokenInv, NEW d \in Cli, Advance(d) \/ Stop(d),
           NEW c \in Cli, Undisturbed(c)'
    PROVE  TokenKept(c)'
<1>1. /\ Running(d) /\ UNCHANGED <<command, met, leftover>>
      /\ printed' \subseteq printed \cup {d}
      BY StepMoves
<1>2. PICK rest, s :
        /\ todo' = [todo EXCEPT ![d] = rest] /\ status' = [status EXCEPT ![d] = s]
        /\ Rest(d, rest)
      BY StepMoves DEF Moved
<1>3. TokenKept(c) /\ Undisturbed(c)
      BY <1>1 DEF Undisturbed, TokenInv
<1>4. SUFFICES ASSUME todo'[c] = ToWrite \/ Written(c)'
               PROVE  TokenKept(c)'
      BY DEF TokenKept
<1>5. command[c] \in {"install", "reset"}
      <2>1. TypeOK' /\ CommandInv'
            BY AdvanceCommand
      <2>2. command'[c] \in CommandNames
            BY <2>1 DEF TypeOK, CommandNames
      <2> QED BY <1>1, <1>4, <2>1, <2>2, NotPlanned DEF CommandInv, Written
<1>6. /\ \A e \in Cli : command[e] # "uninstall"
      /\ \A n \in Namespaces : namespace[n] # "terminating"
      BY <1>3, <1>5, Calm
<1>7. /\ namespace[System] = "active" => namespace'[System] = "active" /\ uid' = uid
      /\ object \subseteq object'
      /\ \A e \in Cli \ {d} : salt'[e] = salt[e] /\ todo'[e] = todo[e]
      /\ SetSecret(d) \/ secret' = secret
      BY <1>6, CalmStep
<1>8. CASE c = d
      <2>1. todo'[c] = ToWrite => namespace'[System] = "active" /\ salt'[c] = uid'
            <3> SUFFICES ASSUME todo'[c] = ToWrite
                         PROVE  namespace'[System] = "active" /\ salt'[c] = uid'
                OBVIOUS
            <3>1. GetNamespace(c) /\ namespace[System] # "absent"
                  BY <1>8, Makes
            <3>2. namespace[System] = "active"
                  BY <1>6, <3>1, Places DEF TypeOK
            <3>3. salt'[c] = uid
                  <4>1. ~Fails(c)
                        BY TokenSteps DEF Fails, TypeOK
                  <4> QED BY <3>1, <4>1 DEF GetNamespace, TypeOK
            <3> QED BY <1>7, <3>2, <3>3
      <2>2. ASSUME Written(c)'
            PROVE  namespace'[System] = "active" /\ Works(c)' /\ <<"secret", System>> \in object'
            <3>1. CASE SetSecret(c)
                  <4>1. todo[c] = ToWrite /\ Object(c) = <<"secret", System>>
                        BY <1>8, <3>1, Makes, TokenStep DEF SetSecret
                  <4>2. namespace[System] = "active" /\ salt[c] = uid
                        BY <1>3, <4>1 DEF TokenKept
                  <4>3. Accepts(Object(c))
                        BY <4>1, <4>2 DEF Accepts
                  <4>4. secret' = [token |-> c, salt |-> uid] /\ Object(c) \in object'
                        BY <3>1, <4>2, <4>3 DEF SetSecret
                  <4> QED BY <1>7, <4>1, <4>2, <4>4 DEF Works
            <3>2. CASE ~SetSecret(c)
                  <4>1. Written(c)
                        BY <1>8, <2>2, <3>2, Makes DEF Written
                  <4> QED BY <1>3, <1>7, <1>8, <3>2, <4>1 DEF TokenKept, Works
            <3> QED BY <3>1, <3>2
      <2>3. ASSUME NEW e \in Cli \ {c}, Running(e)'
            PROVE  e \in met'[c]
            <3>1. Running(e)
                  BY <1>2, <1>8, <2>3 DEF Running, TypeOK
            <3> QED BY <1>1, <1>8, <3>1 DEF CommandInv
      <2> QED BY <2>1, <2>2, <2>3 DEF TokenKept
<1>9. CASE c # d
      <2>1. todo'[c] = todo[c] /\ salt'[c] = salt[c] /\ (Written(c)' => Written(c))
            BY <1>1, <1>7, <1>9 DEF Written
      <2>2. ASSUME Written(c), Running(d), d \notin met[c]
            PROVE  /\ todo[d] \in Plan(command[d]) /\ rest \in Plan(command[d])
                   /\ todo[d] # ToWrite
            <3>1. todo[d] \in Plan(command[d]) /\ <<"secret", System>> \in object
                  BY <1>3, <1>9, <2>2 DEF TokenKept
            <3>2. todo[d] # ToWrite /\ todo[d] # ResetToken
                  BY <3>1, NotPlanned DEF TypeOK, CommandNames
            <3> QED BY <1>2, <3>1, <3>2 DEF Rest
      <2>3. Written(c) => secret' = secret
            <3> SUFFICES ASSUME Written(c), SetSecret(d) PROVE FALSE
                BY <1>7
            <3>1. todo[d] = ToWrite /\ command[d] \in {"install", "reset"}
                  BY Makes, TokenStep DEF SetSecret
            <3>2. command[d] = "install"
                  BY <1>3, <1>9, <3>1 DEF Undisturbed
            <3>3. d \notin met[c]
                  BY <1>3, <3>2 DEF Undisturbed
            <3> QED BY <1>1, <2>2, <3>1, <3>3
      <2>4. ASSUME Written(c), NEW e \in Cli \ {c}, Running(e)', e \notin met'[c]
            PROVE  todo'[e] \in Plan(command'[e])
            <3>1. CASE e = d
                  <4>1. todo'[d] = rest
                        BY <1>2 DEF TypeOK
                  <4> QED BY <1>1, <2>2, <2>4, <3>1, <4>1
            <3>2. CASE e # d
                  <4>1. Running(e)
                        BY <1>2, <2>4, <3>2 DEF Running, TypeOK
                  <4> QED BY <1>1, <1>3, <1>7, <2>4, <3>2, <4>1 DEF TokenKept
            <3> QED BY <3>1, <3>2
      <2> QED BY <1>3, <1>7, <2>1, <2>3, <2>4 DEF TokenKept, Works
<1> QED BY <1>8, <1>9

LEMMA StepToken ==
    ASSUME TypeOK, CommandInv, TokenInv, [Next]_vars, NEW c \in Cli, Undisturbed(c)'
    PROVE  TokenKept(c)'
<1>1. CASE UNCHANGED vars
      BY <1>1 DEF vars, TokenInv, Undisturbed, TokenKept, Written, Works, Running
<1>2. CASE Terminated
      BY <1>1, <1>2 DEF Terminated
<1>3. CASE \E n \in Namespaces : NamespaceGone(n)
      <2>1. UNCHANGED <<command, met, todo, printed>>
            BY <1>3 DEF NamespaceGone, process, history
      <2>2. Undisturbed(c) /\ \E n \in Namespaces : namespace[n] = "terminating"
            BY <1>3, <2>1 DEF Undisturbed, NamespaceGone
      <2>3. command[c] \notin {"install", "reset"}
            BY <2>2, Calm
      <2>4. command[c] \in CommandNames
            BY DEF TypeOK, CommandNames
      <2>5. todo[c] # ToWrite /\ ~Written(c)
            BY <2>3, <2>4, NotPlanned DEF CommandInv, Written
      <2> QED BY <2>1, <2>5 DEF TokenKept, Written
<1> QED BY <1>1, <1>2, <1>3, StartKeepsToken, AdvanceKeepsToken DEF Next

LEMMA TokenInvariant == Spec => []TokenInv
<1>1. Init => TokenInv
      BY TokenSteps DEF Init, TokenInv, TokenKept, Written
<1>2. TypeOK /\ CommandInv /\ TokenInv /\ [Next]_vars => TokenInv'
      BY StepToken DEF TokenInv
<1> QED BY <1>1, <1>2, TypeCorrect, PTL DEF Spec

(* The token a command printed stays the one Everest accepts, whatever     *)
(* commands run later or beside it, die or are killed, unless the user     *)
(* asked for another token, uninstalled, or ran installs at once.          *)
THEOREM PrintedWorks == Spec => []PrintedTokenWorks
<1>1. TypeOK /\ TokenInv => PrintedTokenWorks
      BY DEF TypeOK, TokenInv, TokenKept, Undisturbed, Written, PrintedTokenWorks
<1> QED BY <1>1, TokenInvariant, TypeCorrect, PTL

-----------------------------------------------------------------------------
(* The token that is known                                                 *)

(* What the step at hand leaves behind is there, or left by the steps s    *)
(* that it is replaced with; the operator was told its namespaces.         *)
Leads(c, s) ==
    /\ \A o : Leaves(Head(todo[c]), o) =>
                 o \in object' \/ \E x \in StepsOf(s) : Leaves(x, o)
    /\ Head(todo[c]) = Step("operator", "operator", System) =>
          Chosen[c] \subseteq monitored'

LEMMA LeavesWhat ==
    ASSUME NEW c \in Cli, NEW do, At(c, do), NEW o, Leaves(Head(todo[c]), o)
    PROVE  \/ /\ do \in {"apply", "await", "operator", "everest", "token", "write"}
              /\ o = Object(c)
           \/ do = "await" /\ Where(c) = OLM /\ o = <<"olm-operator", OLM>>
           \/ /\ do = "namespace" /\ Where(c) \in DBNamespaces
              /\ o \in {"group", "operator", "role", "roleBinding"} \X {Where(c)}
BY DEF Leaves, At, Object, Where

LEMMA LeadsNowhere ==
    ASSUME NEW c \in Cli, NEW do, At(c, do), NEW s,
           do \in {"checkOLM", "checkCSV", "select", "uid", "print"}
    PROVE  Leads(c, s)
<1>1. \A o : ~Leaves(Head(todo[c]), o)
      BY LeavesWhat
<1>2. Head(todo[c]) # Step("operator", "operator", System)
      BY DEF At, Step
<1> QED BY <1>1, <1>2 DEF Leads

LEMMA LeadsDone ==
    ASSUME NEW c \in Cli, NEW do, At(c, do), NEW s,
           do \in {"apply", "await", "everest", "write"}, Object(c) \in object',
           do = "await" /\ Where(c) = OLM => <<"olm-operator", OLM>> \in object'
    PROVE  Leads(c, s)
<1>1. ASSUME NEW o, Leaves(Head(todo[c]), o)
      PROVE  o \in object'
      BY <1>1, LeavesWhat
<1>2. Head(todo[c]) # Step("operator", "operator", System)
      BY DEF At, Step
<1> QED BY <1>1, <1>2 DEF Leads

(* The steps for a DB namespace leave all that they replace.               *)
LEMMA LeadsNamespace ==
    ASSUME NEW c \in Cli, At(c, "namespace"), NEW s,
           Where(c) \in DBNamespaces => s = provisionDBNamespace(Where(c))
    PROVE  Leads(c, s)
<1>1. ASSUME NEW n, NEW kind \in {"group", "operator", "role", "roleBinding"}
      PROVE  \E x \in StepsOf(provisionDBNamespace(n)) : Leaves(x, <<kind, n>>)
      <2>1. /\ Apply("group", n) \in StepsOf(provisionDBNamespace(n))
            /\ Step("operator", "operator", n) \in StepsOf(provisionDBNamespace(n))
            /\ Apply("role", n) \in StepsOf(provisionDBNamespace(n))
            /\ Apply("roleBinding", n) \in StepsOf(provisionDBNamespace(n))
            <3>1. StepsOf(provisionDBNamespace(n)) =
                     {Apply("group", n), Step("operator", "operator", n),
                      Apply("role", n), Apply("roleBinding", n)}
                  BY DEF StepsOf, provisionDBNamespace
            <3> QED BY <3>1
      <2>2. /\ Leaves(Apply(kind, n), <<kind, n>>)
            /\ Leaves(Step("operator", "operator", n), <<"operator", n>>)
            BY DEF Leaves, Apply, Step
      <2> QED BY <2>1, <2>2
<1>2. ASSUME NEW o, Leaves(Head(todo[c]), o)
      PROVE  \E x \in StepsOf(s) : Leaves(x, o)
      <2>1. /\ Where(c) \in DBNamespaces
            /\ o \in {"group", "operator", "role", "roleBinding"} \X {Where(c)}
            BY <1>2, LeavesWhat
      <2>2. PICK kind \in {"group", "operator", "role", "roleBinding"} : o = <<kind, Where(c)>>
            BY <2>1
      <2> QED BY <1>1, <2>1, <2>2
<1> QED BY <1>2 DEF Leads, At, Step

(* A step of an install or upgrade: it fails, puts steps before the rest   *)
(* of its plan, or is one of the token's.                                  *)
LEMMA InstallGoes ==
    ASSUME TypeOK, CommandInv, NEW c \in Cli, Advance(c),
           command[c] \in {"install", "upgrade"}
    PROVE  \/ Fails(c)
           \/ /\ todo[c] \in Plan(command[c]) /\ todo[c] # <<>>
              /\ Head(todo[c]).do # "token"
              /\ \E s \in Plan("upgrade") : Continue(c, s \o Tail(todo[c])) /\ Leads(c, s)
           \/ GetSecret(c)
           \/ todo[c] = ResetToken /\ Continue(c, ToWrite)
           \/ SetSecret(c) /\ todo[c] = ToWrite /\ Continue(c, ToPrint)
           \/ PrintOutput(c) /\ todo[c] = ToPrint /\ Continue(c, <<>>)
<1> DEFINE Goes == /\ todo[c] \in Plan(command[c]) /\ todo[c] # <<>>
                   /\ Head(todo[c]).do # "token"
                   /\ \E s \in Plan("upgrade") :
                         Continue(c, s \o Tail(todo[c])) /\ Leads(c, s)
<1>1. ASSUME NEW do, At(c, do), do \notin {"uid", "write", "print", "token"}
      PROVE  /\ do \in Installing
             /\ todo[c] \in Plan(command[c]) /\ todo[c] # <<>>
             /\ Head(todo[c]).do # "token"
             /\ <<>> \in Plan("upgrade") /\ <<>> \o Tail(todo[c]) = Tail(todo[c])
      <2>1. do \in Doing(command[c]) /\ Tail(todo[c]) \in Plan(command[c])
            /\ todo[c] \in Plan(command[c])
            BY <1>1, CommandStep
      <2>2. <<>> \o Tail(todo[c]) = Tail(todo[c])
            BY <2>1, ConcatEmptySeq DEF Plan
      <2>3. do \in Installing
            BY <1>1, <2>1, DoingWhat
      <2> QED BY <1>1, <2>1, <2>2, <2>3, EmptyPlan DEF At
<1>2. ASSUME NEW do, At(c, do), do \notin {"uid", "write", "print", "token"}, Done(c),
             \A s : Leads(c, s)
      PROVE  Goes
      BY <1>1, <1>2 DEF Done
<1>3. ASSUME ApplyObject(c)
      PROVE  Fails(c) \/ Goes
      BY <1>2, <1>3, LeadsDone DEF ApplyObject
<1>4. ASSUME Await(c)
      PROVE  Goes
      <2>1. \A s : Leads(c, s)
            BY <1>4, LeadsDone DEF Await, cluster
      <2> QED BY <1>2, <1>4, <2>1 DEF Await
<1>5. ASSUME SelectNamespaces(c)
      PROVE  Fails(c) \/ Goes
      BY <1>2, <1>5, LeadsNowhere DEF SelectNamespaces
<1>6. ASSUME InstallOperator(c)
      PROVE  Fails(c) \/ Goes
      <2>1. CASE Fails(c)
            BY <2>1
      <2>2. CASE /\ object' = object \cup {Object(c)} /\ Done(c)
                 /\ monitored' = IF Where(c) = System THEN Told(c) ELSE monitored
            <3>1. At(c, "operator")
                  BY <1>6 DEF InstallOperator
            <3>2. Head(todo[c]) = Step("operator", "operator", System) =>
                     Chosen[c] \subseteq monitored'
                  BY <2>2 DEF Where, Object, Step, Told
            <3>3. \A o : Leaves(Head(todo[c]), o) => o \in object'
                  BY <2>2, <3>1, LeavesWhat
            <3>4. \A s : Leads(c, s)
                  BY <3>2, <3>3 DEF Leads
            <3> QED BY <1>2, <2>2, <3>1, <3>4
      <2> QED BY <1>6, <2>1, <2>2 DEF InstallOperator
<1>7. ASSUME CreateNamespace(c)
      PROVE  Goes
      <2>1. At(c, "namespace")
            BY <1>7 DEF CreateNamespace
      <2>2. CASE Where(c) \notin DBNamespaces
            <3>1. \A s : Leads(c, s)
                  BY <2>1, <2>2, LeadsNamespace
            <3>2. Done(c)
                  BY <1>7, <2>2 DEF CreateNamespace, Done
            <3> QED BY <1>2, <2>1, <3>1, <3>2
      <2>3. CASE Where(c) \in DBNamespaces
            <3> DEFINE s == provisionDBNamespace(Where(c))
            <3>1. Continue(c, s \o Tail(todo[c]))
                  BY <1>7, <2>3 DEF CreateNamespace
            <3>2. Leads(c, s)
                  BY <2>1, LeadsNamespace
            <3>3. s \in Plan("upgrade")
                  BY <2>3, InstallPlans, Places
            <3> QED BY <1>1, <2>1, <3>1, <3>2, <3>3
      <2> QED BY <2>2, <2>3
<1>8. ASSUME CheckOLM(c) \/ upgradeOLM(c)
      PROVE  Fails(c) \/ Goes
      <2>1. <<>> \in Plan("upgrade") /\ InstallOLM \in Plan("upgrade")
            BY InstallPlans, EmptyPlan
      <2>2. CASE CheckOLM(c)
            BY <1>1, <1>2, <2>1, <2>2, LeadsNowhere DEF CheckOLM
      <2>3. CASE upgradeOLM(c)
            <3>1. At(c, "checkCSV") /\ \A s : Leads(c, s)
                  BY <2>3, LeadsNowhere DEF upgradeOLM
            <3>2. Fails(c) \/ \E olm \in {<<>>, InstallOLM} :
                                 Continue(c, olm \o Tail(todo[c]))
                  BY <2>3 DEF upgradeOLM
            <3> QED BY <1>1, <2>1, <3>1, <3>2
      <2> QED BY <1>8, <2>2, <2>3
<1>9. ASSUME InstallEverest(c)
      PROVE  Fails(c) \/ Goes
      <2> DEFINE s == <<Step("await", "everest", System)>>
      <2>1. At(c, "everest")
            BY <1>9 DEF InstallEverest
      <2>2. CASE Object(c) \in object' /\ Done(c)
            BY <1>2, <2>1, <2>2, LeadsDone
      <2>3. CASE Object(c) \in object' /\ Continue(c, s \o Tail(todo[c]))
            <3>1. s \in Plan("upgrade")
                  BY PlanStep, DoingWhat, Places
            <3> QED BY <1>1, <2>1, <2>3, <3>1, LeadsDone
      <2> QED BY <1>9, <2>2, <2>3 DEF InstallEverest
<1>10. ~GetDBNamespaces(c) /\ ~DeleteNamespace(c) /\ ~PollNamespace(c) /\ ~DeleteCSV(c)
      <2>1. {"list", "delete", "gone", "deleteCSV"} \cap Doing(command[c]) = {}
            BY DoingWhat
      <2> QED BY <2>1, CommandStep
              DEF GetDBNamespaces, DeleteNamespace, PollNamespace, DeleteCSV
<1>11. CASE GetNamespace(c) \/ SetSecret(c) \/ PrintOutput(c)
      BY <1>11, TokenStep DEF GetNamespace, SetSecret, PrintOutput, Done
<1> QED BY <1>3, <1>4, <1>5, <1>6, <1>7, <1>8, <1>9, <1>10, <1>11 DEF Advance

(* An install comes to its token last, and succeeds by finding a secret or *)
(* by printing the token of the one it has made.                           *)
LEMMA InstallEnds ==
    ASSUME TypeOK, CommandInv, NEW c \in Cli, Advance(c) \/ Stop(c),
           command[c] = "install", ToToken(c)
    PROVE  /\ Running(c)' => ToToken(c)'
           /\ status'[c] = "ok" => \/ <<"secret", System>> \in object
                                   \/ PrintOutput(c) /\ todo[c] = ToPrint
<1>1. Running(c)
      BY StepMoves
<1>2. ASSUME NEW rest, Continue(c, rest)
      PROVE  todo'[c] = rest /\ (rest = <<>> <=> status'[c] = "ok")
             /\ (rest = <<>> => ~Running(c)')
      BY <1>1, <1>2 DEF Continue, TypeOK, Running
<1>3. CASE Fails(c)
      BY <1>3 DEF Fails, TypeOK, Running
<1>4. ASSUME todo[c] \in Plan("install"), Head(todo[c]).do # "token",
             NEW s \in Plan("upgrade"), Continue(c, s \o Tail(todo[c]))
      PROVE  ToToken(c)' /\ status'[c] # "ok"
      <2>1. todo[c] \notin {ResetToken, ToWrite, ToPrint}
            BY <1>4, NotPlanned DEF CommandNames
      <2>2. EndsInToken(Tail(todo[c]))
            BY <1>4, <2>1, TokenNotFirst DEF ToToken, Plan
      <2>3. Tail(todo[c]) \in Plan("install")
            BY <1>4, <2>1, PlanSplit DEF ToToken, EndsInToken
      <2>4. EndsInToken(s \o Tail(todo[c]))
            BY <2>2, <2>3, DoingWhat, TokenLast DEF Verbs
      <2>5. s \o Tail(todo[c]) # <<>>
            BY <2>4 DEF EndsInToken
      <2>6. todo'[c] = s \o Tail(todo[c]) /\ status'[c] # "ok"
            BY <1>2, <1>4, <2>5
      <2> QED BY <2>4, <2>6 DEF ToToken
<1>5. CASE GetSecret(c)
      <2>1. Object(c) = <<"secret", System>>
            BY <1>5, CommandStep DEF GetSecret
      <2>2. CASE Object(c) \in object
            BY <1>2, <1>5, <2>1, <2>2 DEF GetSecret
      <2>3. CASE Object(c) \notin object
            BY <1>2, <1>5, <2>3, TokenSteps DEF GetSecret, ToToken
      <2> QED BY <2>2, <2>3
<1>6. CASE Continue(c, ToWrite) \/ Continue(c, ToPrint)
      BY <1>2, <1>6, TokenSteps DEF ToToken
<1>7. CASE PrintOutput(c) /\ todo[c] = ToPrint /\ Continue(c, <<>>)
      BY <1>2, <1>7
<1> QED BY <1>3, <1>4, <1>5, <1>6, <1>7, InstallGoes DEF Stop

(* SecretInv, part by part.                                                *)
SecretThere == secret # None <=> <<"secret", System>> \in object
SecretKnown == secret # None => \/ secret.token \in printed
                                \/ todo[secret.token] = ToPrint
                                \/ status[secret.token] = "failed"
SecretStays(c) ==
    Running(c) =>
        /\ command[c] = "install" => ToToken(c)
        /\ ~Undone(c) /\ command[c] # "uninstall" =>
              \A n \in Namespaces : namespace[n] # "terminating"
        /\ ~Undone(c) /\ todo[c] = ToPrint => secret # None

LEMMA SecretParts ==
    SecretInv <=> SecretThere /\ SecretKnown /\ \A c \in Cli : SecretStays(c)
BY DEF SecretInv, SecretThere, SecretKnown, SecretStays

LEMMA SecretTyped ==
    ASSUME TypeOK, secret # None
    PROVE  secret.token \in Cli
BY DEF TypeOK, Secrets

(* The write of a token.                                                   *)
LEMMA Writes ==
    ASSUME TypeOK, CommandInv, NEW d \in Cli, SetSecret(d)
    PROVE  \/ /\ secret' = [token |-> d, salt |-> salt[d]] /\ secret' # None
              /\ object' = object \cup {<<"secret", System>>}
              /\ todo'[d] = ToPrint
           \/ UNCHANGED <<object, secret>> /\ Fails(d)
<1>1. Object(d) = <<"secret", System>> /\ Tail(todo[d]) = ToPrint
      BY TokenStep DEF SetSecret
<1>2. [token |-> d, salt |-> salt[d]] # None
      BY NoneDistinct DEF TypeOK
<1>3. CASE Done(d) /\ object' = object \cup {Object(d)}
             /\ secret' = [token |-> d, salt |-> salt[d]]
      <2>1. todo'[d] = ToPrint
            BY <1>1, <1>3 DEF Done, Continue, TypeOK
      <2> QED BY <1>1, <1>2, <1>3, <2>1
<1> QED BY <1>3 DEF SetSecret

LEMMA AdvanceSecretThere ==
    ASSUME TypeOK, CommandInv, SecretThere, NEW d \in Cli, Advance(d) \/ Stop(d)
    PROVE  SecretThere'
<1>1. ASSUME NEW do, At(d, do), do \notin {"uid", "write", "print", "token"}
      PROVE  Object(d) # <<"secret", System>>
      BY <1>1, CommandStep
<1>2. CASE ApplyObject(d) \/ InstallOperator(d) \/ InstallEverest(d) \/ DeleteCSV(d)
      BY <1>1, <1>2 DEF ApplyObject, InstallOperator, InstallEverest, DeleteCSV, SecretThere
<1>3. CASE SetSecret(d)
      BY <1>3, Writes DEF SecretThere
<1>4. CASE ~(ApplyObject(d) \/ InstallOperator(d) \/ InstallEverest(d) \/ DeleteCSV(d)
             \/ SetSecret(d))
      <2>1. UNCHANGED <<object, secret>>
            BY <1>4 DEF Advance, Stop, CreateNamespace, CheckOLM, Await, upgradeOLM,
               SelectNamespaces, GetSecret, GetNamespace, PrintOutput, GetDBNamespaces,
               DeleteNamespace, PollNamespace, cluster
      <2> QED BY <2>1 DEF SecretThere
<1> QED BY <1>2, <1>3, <1>4

LEMMA AdvanceSecretKnown ==
    ASSUME TypeOK, CommandInv, SecretKnown, NEW d \in Cli, Advance(d) \/ Stop(d)
    PROVE  SecretKnown'
<1>1. /\ Running(d) /\ printed \subseteq printed'
      /\ \A e \in Cli \ {d} : todo'[e] = todo[e] /\ status'[e] = status[e]
      <2>1. Running(d) /\ Moved(d) /\ printed \subseteq printed'
            BY StepMoves
      <2>2. \A e \in Cli \ {d} : todo'[e] = todo[e] /\ status'[e] = status[e]
            BY <2>1 DEF Moved, TypeOK
      <2> QED BY <2>1, <2>2
<1>2. SetSecret(d) \/ secret' = secret
      BY DEF Advance, Stop, ApplyObject, CreateNamespace, CheckOLM, Await, upgradeOLM,
         SelectNamespaces, InstallOperator, InstallEverest, GetSecret, GetNamespace,
         PrintOutput, GetDBNamespaces, DeleteNamespace, PollNamespace, DeleteCSV, cluster
<1>3. CASE SetSecret(d) /\ todo'[d] = ToPrint /\ secret'.token = d
      BY <1>3 DEF SecretKnown
<1>4. ASSUME secret' = secret, secret # None
      PROVE  SecretKnown'
      <2> DEFINE e == secret.token
      <2>1. e \in Cli
            BY <1>4, SecretTyped
      <2>2. CASE e # d
            BY <1>1, <1>4, <2>1, <2>2 DEF SecretKnown
      <2>3. CASE e = d /\ todo[d] = ToPrint
            <3>1. Head(todo[d]).do = "print"
                  BY <2>3, TokenSteps DEF Step
            <3>2. PrintOutput(d) \/ Stop(d)
                  BY <3>1 DEF At, Advance, ApplyObject, CreateNamespace, CheckOLM, Await,
                     upgradeOLM, SelectNamespaces, InstallOperator, InstallEverest,
                     GetSecret, GetNamespace, SetSecret, GetDBNamespaces,
                     DeleteNamespace, PollNamespace, DeleteCSV
            <3>3. d \in printed' \/ status'[d] = "failed"
                  BY <3>2 DEF PrintOutput, Stop, Fails, TypeOK
            <3> QED BY <1>4, <2>3, <3>3 DEF SecretKnown
      <2>4. CASE e = d /\ todo[d] # ToPrint
            <3>1. d \in printed
                  BY <1>1, <1>4, <2>4 DEF SecretKnown, Running
            <3> QED BY <1>1, <1>4, <2>4, <3>1 DEF SecretKnown
      <2> QED BY <2>2, <2>3, <2>4
<1>5. CASE secret' = secret /\ secret = None
      BY <1>5 DEF SecretKnown
<1> QED BY <1>2, <1>3, <1>4, <1>5, Writes

LEMMA AdvanceSecretStays ==
    ASSUME TypeOK, CommandInv, NEW d \in Cli, Advance(d) \/ Stop(d),
           NEW c \in Cli, SecretStays(c)
    PROVE  SecretStays(c)'
<1> SUFFICES ASSUME Running(c)'
             PROVE  /\ command'[c] = "install" => ToToken(c)'
                    /\ ~Undone(c)' /\ command'[c] # "uninstall" =>
                          \A n \in Namespaces : namespace'[n] # "terminating"
                    /\ ~Undone(c)' /\ todo'[c] = ToPrint => secret' # None
    BY DEF SecretStays
<1>1. /\ Running(d) /\ UNCHANGED <<command, met, leftover>>
      /\ \A e \in Cli \ {d} : todo'[e] = todo[e] /\ status'[e] = status[e]
      BY StepMoves DEF Moved, TypeOK
<1>2. Running(c) /\ (Undone(c)' <=> Undone(c))
      BY <1>1 DEF Running, Undone
<1>3. ASSUME command[c] = "install"
      PROVE  ToToken(c)'
      <2>1. CASE c = d
            BY <1>2, <1>3, <2>1, InstallEnds DEF SecretStays
      <2>2. CASE c # d
            BY <1>1, <1>2, <1>3, <2>2 DEF SecretStays, ToToken
      <2> QED BY <2>1, <2>2
<1>4. ASSUME ~Undone(c), command[c] # "uninstall", NEW n \in Namespaces
      PROVE  namespace'[n] # "terminating"
      <2>1. namespace[n] # "terminating"
            BY <1>2, <1>4 DEF SecretStays
      <2>2. command[d] # "uninstall"
            BY <1>1, <1>2, <1>4 DEF CommandInv, Undone
      <2>3. Stop(d) => namespace' = namespace
            BY DEF Stop, cluster
      <2> QED BY <2>1, <2>2, <2>3, DeletedByUninstall
<1>5. ASSUME ~Undone(c), todo'[c] = ToPrint
      PROVE  secret' # None
      <2>1. CASE SetSecret(d)
            <3>1. CASE secret' # None
                  BY <3>1
            <3>2. CASE UNCHANGED secret /\ Fails(d)
                  <4>1. c # d
                        BY <1>5, <3>2, TokenSteps DEF Fails, TypeOK
                  <4> QED BY <1>1, <1>2, <1>5, <3>2, <4>1 DEF SecretStays
            <3> QED BY <2>1, <3>1, <3>2, Writes
      <2>2. CASE ~SetSecret(d)
            <3>1. secret' = secret
                  BY <2>2 DEF Advance, Stop, ApplyObject, CreateNamespace, CheckOLM, Await,
                     upgradeOLM, SelectNamespaces, InstallOperator, InstallEverest,
                     GetSecret, GetNamespace, PrintOutput, GetDBNamespaces,
                     DeleteNamespace, PollNamespace, DeleteCSV, cluster
            <3>2. c # d
                  BY <1>5, <2>2, Makes
            <3> QED BY <1>1, <1>2, <1>5, <3>1, <3>2 DEF SecretStays
      <2> QED BY <2>1, <2>2
<1> QED BY <1>1, <1>2, <1>3, <1>4, <1>5

(* What is undone stays so.                                                *)
LEMMA StartUndone ==
    ASSUME TypeOK, CommandInv, NEW d \in Cli, Start(d), NEW c \in Cli \ {d}, Undone(c)
    PROVE  Undone(c)'
<1>1. PICK m \in {"install", "reset", "upgrade", "uninstall"} : Started(d, m)
      BY StartsWith
<1>2. \A e \in Cli \ {d} : command'[e] = command[e]
      BY <1>1 DEF Started, TypeOK
<1>3. command[d] = "none" /\ met[c] \subseteq met'[c] /\ leftover'[c] = leftover[c]
      BY DEF Start, TypeOK, CommandInv
<1>4. CASE leftover[c]
      BY <1>3, <1>4 DEF Undone
<1>5. ASSUME NEW e \in met[c], command[e] = "uninstall"
      PROVE  Undone(c)'
      <2>1. e \in Cli \ {d}
            BY <1>3, <1>5 DEF TypeOK
      <2> QED BY <1>2, <1>3, <1>5, <2>1 DEF Undone
<1> QED BY <1>4, <1>5 DEF Undone

LEMMA StartSecret ==
    ASSUME TypeOK, CommandInv, SecretInv, NEW d \in Cli, Start(d)
    PROVE  SecretInv'
<1>0. PICK m \in {"install", "reset", "upgrade", "uninstall"} : Started(d, m)
      BY StartsWith
<1>1. PICK plan :
        /\ command' = [command EXCEPT ![d] = m] /\ todo' = [todo EXCEPT ![d] = plan]
        /\ plan \in Plan(m) \/ (m = "reset" /\ plan = ResetToken)
        /\ m = "install" => EndsInToken(plan)
      BY <1>0 DEF Started
<1>2. /\ status' = [status EXCEPT ![d] = "running"] /\ command[d] = "none"
      /\ status[d] = "idle" /\ d \notin printed
      /\ \A e \in Cli \ {d} : met[e] \subseteq met'[e] /\ leftover'[e] = leftover[e]
      /\ leftover'[d] = (\E n \in Namespaces : namespace[n] = "terminating")
      /\ UNCHANGED <<object, namespace, secret, printed>>
      <2>1. status[d] = "idle" /\ command[d] = "none" /\ d \notin printed
            BY DEF Start, CommandInv
      <2>2. \A e \in Cli \ {d} : met[e] \subseteq met'[e]
            BY DEF Start, TypeOK
      <2>3. /\ \A e \in Cli \ {d} : leftover'[e] = leftover[e]
            /\ leftover'[d] = (\E n \in Namespaces : namespace[n] = "terminating")
            BY DEF Start, TypeOK
      <2>4. /\ status' = [status EXCEPT ![d] = "running"]
            /\ UNCHANGED <<object, namespace, secret, printed>>
            BY DEF Start, cluster
      <2> QED BY <2>1, <2>2, <2>3, <2>4
<1>3. \A e \in Cli \ {d} : /\ command'[e] = command[e] /\ todo'[e] = todo[e]
                           /\ status'[e] = status[e]
      BY <1>1, <1>2 DEF TypeOK
<1>4. SecretThere' /\ SecretKnown'
      <2>1. todo[d] # ToPrint
            BY <1>2, NotPlanned DEF CommandInv, CommandNames
      <2>2. secret # None => secret.token # d
            BY <1>2, <2>1 DEF SecretInv
      <2> QED BY <1>2, <1>3, <2>2, SecretTyped DEF SecretInv, SecretThere, SecretKnown
<1>5. ASSUME NEW c \in Cli
      PROVE  SecretStays(c)'
      <2>1. CASE c = d
            <3>1. todo'[c] = plan /\ command'[c] = m
                  BY <1>1, <2>1 DEF TypeOK
            <3>2. (m = "install" => EndsInToken(plan)) /\ plan # ToPrint
                  BY <1>1, NotPlanned DEF CommandNames
            <3>3. ~Undone(c)' => \A n \in Namespaces : namespace'[n] # "terminating"
                  BY <1>2, <2>1 DEF Undone
            <3> QED BY <3>1, <3>2, <3>3 DEF SecretStays, ToToken
      <2>2. CASE c # d
            <3>1. Undone(c) => Undone(c)'
                  BY <2>2, StartUndone
            <3>2. Running(c)' => Running(c)
                  BY <1>3, <2>2 DEF Running
            <3> QED BY <1>2, <1>3, <2>2, <3>1, <3>2 DEF SecretInv, SecretStays, ToToken
      <2> QED BY <2>1, <2>2
<1> QED BY <1>4, <1>5 DEF SecretInv, SecretThere, SecretKnown, SecretStays

LEMMA GoneSecret ==
    ASSUME TypeOK, CommandInv, SecretInv, NEW n \in Namespaces, NamespaceGone(n)
    PROVE  SecretInv'
<1>1. /\ UNCHANGED <<command, status, todo, printed, met, leftover>>
      /\ namespace[n] = "terminating"
      /\ \A k \in Namespaces : namespace'[k] = "terminating" => namespace[k] = "terminating"
      /\ secret' = IF n = System THEN None ELSE secret
      /\ object' = {o \in object : o[2] # n}
      BY DEF NamespaceGone, process, history, TypeOK
<1>2. SecretThere'
      <2>1. CASE n = System
            BY <1>1, <2>1 DEF SecretThere
      <2>2. CASE n # System
            BY <1>1, <2>2 DEF SecretInv, SecretThere
      <2> QED BY <2>1, <2>2
<1>3. SecretKnown'
      BY <1>1 DEF SecretInv, SecretKnown
<1>4. ASSUME NEW c \in Cli
      PROVE  SecretStays(c)'
      <2>1. (Undone(c)' <=> Undone(c)) /\ (Running(c)' <=> Running(c))
            /\ (ToToken(c)' <=> ToToken(c))
            BY <1>1 DEF Undone, Running, ToToken
      <2>2. todo[c] = ToPrint => command[c] # "uninstall"
            <3>1. command[c] \in CommandNames
                  BY DEF TypeOK, CommandNames
            <3> QED BY <3>1, NotPlanned DEF CommandInv
      <2> QED BY <1>1, <2>1, <2>2 DEF SecretInv, SecretStays
<1> QED BY <1>2, <1>3, <1>4, SecretParts DEF SecretInv, SecretThere, SecretKnown, SecretStays

LEMMA SecretInvariant == Spec => []SecretInv
<1>1. Init => SecretInv
      BY DEF Init, SecretInv, Running
<1>2. TypeOK /\ CommandInv /\ SecretInv /\ [Next]_vars => SecretInv'
      <2> SUFFICES ASSUME TypeOK, CommandInv, SecretInv, [Next]_vars PROVE SecretInv'
          OBVIOUS
      <2>1. CASE UNCHANGED vars
            BY <2>1 DEF vars, SecretInv, Running, Undone, ToToken
      <2>2. CASE Terminated
            BY <2>1, <2>2 DEF Terminated
      <2>3. ASSUME NEW d \in Cli, Advance(d) \/ Stop(d)
            PROVE  SecretInv'
            <3>1. SecretThere' /\ SecretKnown'
                  BY <2>3, SecretParts, AdvanceSecretThere, AdvanceSecretKnown
            <3>2. \A c \in Cli : SecretStays(c)'
                  BY <2>3, SecretParts, AdvanceSecretStays
            <3> QED BY <3>1, <3>2 DEF SecretInv, SecretThere, SecretKnown, SecretStays
      <2> QED BY <2>1, <2>2, <2>3, StartSecret, GoneSecret DEF Next
<1> QED BY <1>1, <1>2, TypeCorrect, PTL DEF Spec

(* An install that succeeds leaves a secret for a token that was printed,  *)
(* that is being printed, or whose command died before it was, whatever    *)
(* installs, resets and upgrades run before and beside it.                 *)
THEOREM TokenKnown == Spec => TokenIsKnown
<1> DEFINE Known == \A c \in Cli :
             /\ command[c] = "install" /\ Running(c) /\ status'[c] = "ok"
             /\ ~Undone(c)
             => /\ secret # None
                /\ \/ secret.token \in printed'
                   \/ status[secret.token] \in {"running", "failed"}
<1>1. TypeOK /\ CommandInv /\ SecretInv /\ [Next]_vars => [Known]_vars
      <2> SUFFICES ASSUME TypeOK, CommandInv, SecretInv, Next,
                          NEW c \in Cli, command[c] = "install", Running(c),
                          status'[c] = "ok", ~Undone(c)
                   PROVE  /\ secret # None
                          /\ \/ secret.token \in printed'
                             \/ status[secret.token] \in {"running", "failed"}
          OBVIOUS
      <2>1. ASSUME NEW d \in Cli, Start(d)
            PROVE  FALSE
            BY <2>1 DEF Start, Running, TypeOK
      <2>2. \A n \in Namespaces : ~NamespaceGone(n)
            BY DEF NamespaceGone, process, Running
      <2>3. ~Terminated
            BY DEF Terminated, vars, Running
      <2>4. PICK d \in Cli : Advance(d) \/ Stop(d)
            BY <2>1, <2>2, <2>3 DEF Next
      <2>5. c = d
            BY <2>4, StepMoves DEF Moved, Running, TypeOK
      <2>6. secret # None
            <3>1. ToToken(c)
                  BY DEF SecretInv
            <3>2. <<"secret", System>> \in object \/ todo[c] = ToPrint
                  BY <2>4, <2>5, <3>1, InstallEnds
            <3> QED BY <3>2 DEF SecretInv
      <2>7. printed \subseteq printed'
            BY <2>4, StepMoves
      <2>8. todo[secret.token] = ToPrint => Running(secret.token)
            <3>1. secret.token \in Cli /\ command[secret.token] \in CommandNames
                  BY <2>6, SecretTyped DEF TypeOK, CommandNames
            <3> QED BY <3>1, NotPlanned DEF CommandInv
      <2> QED BY <2>6, <2>7, <2>8 DEF SecretInv, Running
<1> QED BY <1>1, TypeCorrect, SecretInvariant, PTL DEF Spec, TokenIsKnown
-----------------------------------------------------------------------------
(* What a command that succeeds leaves behind                              *)

LEMMA LeavesOf ==
    /\ \A kind, n : /\ Leaves(Apply(kind, n), <<kind, n>>)
                    /\ \A do \in {"await", "operator", "everest", "token", "write"} :
                          Leaves(Step(do, kind, n), <<kind, n>>)
    /\ Leaves(Step("await", "packageserver", OLM), <<"olm-operator", OLM>>)
    /\ \A n \in DBNamespaces, kind \in {"group", "operator", "role", "roleBinding"} :
          Leaves(Step("namespace", "namespace", n), <<kind, n>>)
BY DEF Leaves, Apply, Step

LEMMA PlanSteps ==
    ASSUME NEW m, NEW s \in Plan(m), NEW t \in Plan(m)
    PROVE  /\ s \o t \in Plan(m)
           /\ StepsOf(s) \subseteq StepsOf(s \o t) /\ StepsOf(t) \subseteq StepsOf(s \o t)
BY PlanConcat, StepsConcat DEF Plan

(* An order has all of its set.                                            *)
LEMMA OrderHasAll ==
    ASSUME NEW S \in SUBSET DBNamespaces, NEW order \in Orders(S), NEW n \in S
    PROVE  \E i \in DOMAIN order : order[i] = n
<1> DEFINE k == Cardinality(S)
<1>1. IsFiniteSet(S) /\ k \in Nat
      BY ChosenKnown, FS_Subset, FS_CardinalityType
<1>2. Cardinality(1 .. k) = k
      <2>1. 1 \in Int /\ k \in Int
            BY <1>1
      <2>2. Cardinality(1 .. k) = IF 1 > k THEN 0 ELSE k - 1 + 1
            BY <2>1, FS_Interval
      <2> HIDE DEF k
      <2> QED BY <1>1, <2>2
<1>3. order \in Injection(1 .. k, S) /\ DOMAIN order = 1 .. k
      <2>1. /\ order \in [1 .. k -> S] /\ DOMAIN order = 1 .. k
            /\ \A i, j \in DOMAIN order : order[i] = order[j] => i = j
            BY DEF Orders
      <2> QED BY <2>1 DEF Injection, IsInjective
<1>4. order \in Surjection(1 .. k, S)
      BY <1>1, <1>2, <1>3, FS_Injection
<1> QED BY <1>3, <1>4 DEF Surjection

LEMMA CatalogSteps ==
    /\ Step("await", "packageserver", OLM) \in StepsOf(InstallPerconaCatalog)
    /\ Step("await", "catalog", OLM) \in StepsOf(InstallPerconaCatalog)
<1>1. StepsOf(InstallPerconaCatalog) =
         {Apply("catalog", OLM), Step("await", "packageserver", OLM),
          Step("await", "catalog", OLM)}
      BY DEF StepsOf, InstallPerconaCatalog
<1> QED BY <1>1

(* The steps of an install that leave what it is to leave.                 *)
LEMMA InstallSteps ==
    ASSUME NEW S \in SUBSET DBNamespaces, NEW order \in Orders(S)
    PROVE  /\ Step("await", "packageserver", OLM) \in StepsOf(RunInstall(order))
           /\ Step("await", "catalog", OLM) \in StepsOf(RunInstall(order))
           /\ Apply("group", Monitoring) \in StepsOf(RunInstall(order))
           /\ Step("operator", "operator", Monitoring) \in StepsOf(RunInstall(order))
           /\ Apply("monitoring", Monitoring) \in StepsOf(RunInstall(order))
           /\ \A n \in S : Step("namespace", "namespace", n) \in StepsOf(RunInstall(order))
           /\ Apply("group", System) \in StepsOf(RunInstall(order))
           /\ Step("operator", "operator", System) \in StepsOf(RunInstall(order))
           /\ Step("everest", "everest", System) \in StepsOf(RunInstall(order))
           /\ Step("token", "secret", System) \in StepsOf(RunInstall(order))
<1> DEFINE m == "install"
           names == [i \in DOMAIN order |-> Step("namespace", "namespace", order[i])]
           last == << Step("token", "secret", System) >>
           A == provisionOLM \o provisionMonitoringStack
           B == A \o names
           C == B \o provisionEverestOperator
           D == C \o provisionEverest
<1>1. IsFiniteSet(S) /\ S \subseteq Namespaces
      BY ChosenKnown, FS_Subset, Places
<1>2. names \in Plan(m)
      BY <1>1, PlanNamespaces, DoingWhat
<1>3. last \in Plan(m)
      BY PlanStep, DoingWhat, Places
<1>4. /\ provisionOLM \in Plan(m) /\ provisionMonitoringStack \in Plan(m)
      /\ provisionEverestOperator \in Plan(m) /\ provisionEverest \in Plan(m)
      /\ InstallPerconaCatalog \in Plan(m)
      BY InstallPlans
<1>5. RunInstall(order) = D \o last
      BY DEF RunInstall
<1>6. \A n \in S : Step("namespace", "namespace", n) \in StepsOf(names)
      <2> SUFFICES ASSUME NEW n \in S
                   PROVE  Step("namespace", "namespace", n) \in StepsOf(names)
          OBVIOUS
      <2>1. PICK i \in DOMAIN order : order[i] = n
            BY OrderHasAll
      <2>2. DOMAIN order = 1 .. Cardinality(S) /\ Cardinality(S) \in Nat
            BY <1>1, FS_CardinalityType DEF Orders
      <2>3. Len(names) = Cardinality(S)
            <3>1. names \in Seq(Planned(m)) /\ DOMAIN names = 1 .. Cardinality(S)
                  BY <1>2, <2>2 DEF Plan
            <3> HIDE DEF names
            <3> QED BY <2>2, <3>1, LenProperties
      <2> QED BY <2>1, <2>2, <2>3 DEF StepsOf
<1>7. /\ Step("await", "packageserver", OLM) \in StepsOf(provisionOLM)
      /\ Step("await", "catalog", OLM) \in StepsOf(provisionOLM)
      <2>1. << Step("checkOLM", "olm-operator", OLM) >> \in Plan(m)
            BY PlanStep, DoingWhat, Places
      <2> QED BY <1>4, <2>1, CatalogSteps, PlanSteps DEF provisionOLM
<1>8. /\ Apply("group", Monitoring) \in StepsOf(provisionMonitoringStack)
      /\ Step("operator", "operator", Monitoring) \in StepsOf(provisionMonitoringStack)
      /\ Apply("monitoring", Monitoring) \in StepsOf(provisionMonitoringStack)
      <2> DEFINE first == << Step("namespace", "namespace", Monitoring) >>
                 end == << Apply("monitoring", Monitoring) >>
      <2>1. first \in Plan(m) /\ end \in Plan(m) /\ installVMOperator \in Plan(m)
            <3>1. /\ Step("namespace", "namespace", Monitoring) \in Planned(m)
                  /\ Apply("monitoring", Monitoring) \in Planned(m)
                  /\ Apply("group", Monitoring) \in Planned(m)
                  /\ Step("operator", "operator", Monitoring) \in Planned(m)
                  BY PlanStep, DoingWhat, Places DEF Apply
            <3> QED BY <3>1 DEF Plan, installVMOperator
      <2>2. StepsOf(end) = {Apply("monitoring", Monitoring)}
            BY DEF StepsOf
      <2>3. StepsOf(installVMOperator) =
               {Apply("group", Monitoring), Step("operator", "operator", Monitoring)}
            BY DEF StepsOf, installVMOperator
      <2>4. provisionMonitoringStack = (first \o installVMOperator) \o end
            BY DEF provisionMonitoringStack
      <2> HIDE DEF first, end, m
      <2>5. /\ first \o installVMOperator \in Plan(m)
            /\ StepsOf(installVMOperator) \subseteq StepsOf(first \o installVMOperator)
            BY <2>1, PlanSteps
      <2>6. /\ StepsOf(first \o installVMOperator) \subseteq StepsOf(provisionMonitoringStack)
            /\ StepsOf(end) \subseteq StepsOf(provisionMonitoringStack)
            BY <2>1, <2>4, <2>5, PlanSteps
      <2> QED BY <2>2, <2>3, <2>5, <2>6
<1>9. /\ Apply("group", System) \in StepsOf(provisionEverestOperator)
      /\ Step("operator", "operator", System) \in StepsOf(provisionEverestOperator)
      <2>1. StepsOf(provisionEverestOperator) =
               {Step("namespace", "namespace", System), Apply("group", System),
                Step("operator", "operator", System)}
            BY DEF StepsOf, provisionEverestOperator
      <2> QED BY <2>1
<1>10. /\ Step("everest", "everest", System) \in StepsOf(provisionEverest)
       /\ Step("token", "secret", System) \in StepsOf(last)
      BY DEF StepsOf, provisionEverest
<1> HIDE DEF names, last, m
<1>11. /\ A \in Plan(m) /\ StepsOf(provisionOLM) \subseteq StepsOf(A)
       /\ StepsOf(provisionMonitoringStack) \subseteq StepsOf(A)
      BY <1>4, PlanSteps
<1> HIDE DEF A
<1>12. B \in Plan(m) /\ StepsOf(A) \subseteq StepsOf(B) /\ StepsOf(names) \subseteq StepsOf(B)
      BY <1>2, <1>11, PlanSteps
<1> HIDE DEF B
<1>13. /\ C \in Plan(m) /\ StepsOf(B) \subseteq StepsOf(C)
       /\ StepsOf(provisionEverestOperator) \subseteq StepsOf(C)
      BY <1>4, <1>12, PlanSteps
<1> HIDE DEF C
<1>14. /\ D \in Plan(m) /\ StepsOf(C) \subseteq StepsOf(D)
       /\ StepsOf(provisionEverest) \subseteq StepsOf(D)
      BY <1>4, <1>13, PlanSteps
<1> HIDE DEF D
<1>15. /\ StepsOf(D) \subseteq StepsOf(RunInstall(order))
       /\ StepsOf(last) \subseteq StepsOf(RunInstall(order))
      BY <1>3, <1>5, <1>14, PlanSteps
<1> QED BY <1>6, <1>7, <1>8, <1>9, <1>10, <1>11, <1>12, <1>13, <1>14, <1>15

LEMMA UpgradeSteps ==
    /\ Step("await", "packageserver", OLM) \in StepsOf(RunUpgrade)
    /\ Step("await", "catalog", OLM) \in StepsOf(RunUpgrade)
    /\ Apply("everest", System) \in StepsOf(RunUpgrade)
    /\ StepsOf(RunUpgrade) \subseteq StepsOf(runEverestWizard \o RunUpgrade)
<1> DEFINE m == "upgrade"
           first == << Step("checkCSV", "packageserver", OLM) >>
           end == << Apply("everest", System), Step("await", "everest", System) >>
<1>1. first \in Plan(m) /\ end \in Plan(m) /\ InstallPerconaCatalog \in Plan(m)
      <2>1. /\ Step("checkCSV", "packageserver", OLM) \in Planned(m)
            /\ Apply("everest", System) \in Planned(m)
            /\ Step("await", "everest", System) \in Planned(m)
            BY PlanStep, DoingWhat, Places DEF Apply
      <2> QED BY <2>1, InstallPlans DEF Plan
<1>2. Apply("everest", System) \in StepsOf(end)
      <2>1. StepsOf(end) = {Apply("everest", System), Step("await", "everest", System)}
            BY DEF StepsOf
      <2> QED BY <2>1
<1>3. RunUpgrade = (first \o InstallPerconaCatalog) \o end
      BY DEF RunUpgrade
<1> HIDE DEF first, end, m
<1>4. /\ first \o InstallPerconaCatalog \in Plan(m)
      /\ StepsOf(InstallPerconaCatalog) \subseteq StepsOf(first \o InstallPerconaCatalog)
      BY <1>1, PlanSteps
<1>5. /\ StepsOf(first \o InstallPerconaCatalog) \subseteq StepsOf(RunUpgrade)
      /\ StepsOf(end) \subseteq StepsOf(RunUpgrade)
      BY <1>1, <1>3, <1>4, PlanSteps
<1>6. StepsOf(RunUpgrade) \subseteq StepsOf(runEverestWizard \o RunUpgrade)
      BY RunPlans, PlanSteps
<1> QED BY <1>2, <1>4, <1>5, <1>6, CatalogSteps

(* What an install or upgrade is to leave is left by its steps.            *)
LEMMA StartCovers ==
    ASSUME TypeOK, NEW c \in Cli, Start(c), command'[c] \in {"install", "upgrade"}
    PROVE  Covered(c)'
<1>1. PICK m \in Commands[c] :
         /\ command' = [command EXCEPT ![c] = m]
         /\ \/ /\ m = "install" /\ Chosen[c] # {}
               /\ \E order \in Orders(Chosen[c]) :
                    todo' = [todo EXCEPT ![c] = RunInstall(order)]
            \/ m = "reset" /\ todo' = [todo EXCEPT ![c] = ResetToken]
            \/ m = "upgrade" /\ Chosen[c] # {}
               /\ todo' \in {[todo EXCEPT ![c] = RunUpgrade],
                             [todo EXCEPT ![c] = runEverestWizard
                                                   \o RunUpgrade]}
            \/ m = "uninstall" /\ todo' = [todo EXCEPT ![c] = RunUninstall]
      BY DEF Start
<1>2. command'[c] = m
      BY <1>1 DEF TypeOK
<1>3. CASE m = "install"
      <2>1. PICK order \in Orders(Chosen[c]) : todo'[c] = RunInstall(order)
            BY <1>1, <1>3 DEF TypeOK
      <2>2. Chosen[c] \in SUBSET DBNamespaces
            BY ChosenKnown
      <2> DEFINE left == StepsOf(RunInstall(order))
      <2>3. /\ Step("await", "packageserver", OLM) \in left
            /\ Step("await", "catalog", OLM) \in left
            /\ Apply("group", Monitoring) \in left
            /\ Step("operator", "operator", Monitoring) \in left
            /\ Apply("monitoring", Monitoring) \in left
            /\ \A n \in Chosen[c] : Step("namespace", "namespace", n) \in left
            /\ Apply("group", System) \in left
            /\ Step("operator", "operator", System) \in left
            /\ Step("everest", "everest", System) \in left
            /\ Step("token", "secret", System) \in left
            BY <2>2, InstallSteps
      <2> HIDE DEF left
      <2>4. ASSUME NEW o \in Needed(c)'
            PROVE  \E s \in left : Leaves(s, o)
            <3>1. \/ o \in {<<"olm-operator", OLM>>, <<"packageserver", OLM>>,
                           <<"catalog", OLM>>, <<"everest", System>>,
                           <<"group", Monitoring>>, <<"operator", Monitoring>>,
                           <<"monitoring", Monitoring>>, <<"group", System>>,
                           <<"operator", System>>, <<"secret", System>>}
                  \/ o \in {"group", "operator", "role", "roleBinding"} \X Chosen[c]
                  BY <1>2, <1>3 DEF Needed
            <3>2. CASE o \in {"group", "operator", "role", "roleBinding"} \X Chosen[c]
                  <4>1. PICK kind \in {"group", "operator", "role", "roleBinding"},
                             n \in Chosen[c] : o = <<kind, n>>
                        BY <3>2
                  <4> QED BY <2>2, <2>3, <4>1, LeavesOf
            <3> QED BY <2>3, <3>1, <3>2, LeavesOf
      <2> QED BY <2>1, <2>3, <2>4 DEF Covered, left
<1>4. CASE m = "upgrade"
      <2>1. todo'[c] = RunUpgrade \/ todo'[c] = runEverestWizard \o RunUpgrade
            BY <1>1, <1>4 DEF TypeOK
      <2>2. /\ Step("await", "packageserver", OLM) \in StepsOf(todo'[c])
            /\ Step("await", "catalog", OLM) \in StepsOf(todo'[c])
            /\ Apply("everest", System) \in StepsOf(todo'[c])
            BY <2>1, UpgradeSteps
      <2>3. ASSUME NEW o \in Needed(c)'
            PROVE  \E s \in StepsOf(todo'[c]) : Leaves(s, o)
            <3>1. o \in {<<"olm-operator", OLM>>, <<"packageserver", OLM>>,
                        <<"catalog", OLM>>, <<"everest", System>>}
                  BY <1>2, <1>4 DEF Needed
            <3> QED BY <2>2, <3>1, LeavesOf
      <2> QED BY <1>2, <1>4, <2>3 DEF Covered
<1> QED BY <1>2, <1>3, <1>4

(* A step of its own, with those it is replaced with.                      *)
LEMMA Leading ==
    ASSUME TypeOK, CommandInv, NEW c \in Cli, Advance(c),
           command[c] \in {"install", "upgrade"}, command[c] = "install" => ToToken(c)
    PROVE  \/ Fails(c)
           \/ /\ todo[c] # <<>>
              /\ \E s \in Seq(Steps) : /\ Continue(c, s \o Tail(todo[c]))
                                       /\ Leads(c, s)
<1>1. /\ \A m \in {"install", "upgrade"} : Plan(m) \subseteq Seq(Steps)
      /\ {ResetToken, ToWrite, ToPrint} \subseteq Seq(Steps) /\ <<>> \in Seq(Steps)
      BY PlanTyped, EmptySeq DEF CommandNames
<1>2. \A s \in Seq(Steps) : <<>> \o s = s /\ s \o <<>> = s
      BY ConcatEmptySeq
<1>3. Running(c)
      BY StepMoves
<1>4. ASSUME NEW s \in Seq(Steps), NEW t \in Seq(Steps), todo[c] # <<>>,
             \/ s = <<>> /\ Tail(todo[c]) = t
             \/ s = t /\ Tail(todo[c]) = <<>>,
             Continue(c, t), Leads(c, s)
      PROVE  /\ todo[c] # <<>>
             /\ \E r \in Seq(Steps) : Continue(c, r \o Tail(todo[c])) /\ Leads(c, r)
      <2>1. s \o Tail(todo[c]) = t
            BY <1>2, <1>4
      <2>2. Continue(c, s \o Tail(todo[c]))
            BY <1>4, <2>1
      <2> QED BY <1>4, <2>2
<1>5. CASE GetSecret(c)
      <2>1. At(c, "token") /\ Object(c) = <<"secret", System>> /\ object' = object
            /\ todo[c] # <<>> /\ Head(todo[c]).do = "token" /\ command[c] \in CommandNames
            BY <1>5, CommandStep DEF GetSecret, cluster, At, CommandNames
      <2>2. Tail(todo[c]) = <<>>
            <3>1. "token" \in Doing(command[c])
                  BY <2>1, CommandStep
            <3>2. command[c] = "install"
                  BY <3>1, DoingWhat
            <3>3. todo[c] \notin {ResetToken, ToWrite, ToPrint}
                  BY <2>1, CommandStep, NotPlanned
            <3>4. todo[c] \in Seq(Steps) /\ EndsInToken(todo[c])
                  BY <3>2, <3>3 DEF ToToken, TypeOK
            <3> QED BY <2>1, <3>4, TokenFirst
      <2>3. Head(todo[c]) # Step("operator", "operator", System)
            BY <2>1 DEF Step
      <2>4. \A o : Leaves(Head(todo[c]), o) => o = <<"secret", System>>
            BY <2>1, LeavesWhat
      <2>5. CASE Object(c) \in object /\ Continue(c, <<>>)
            <3>1. Leads(c, <<>>)
                  BY <2>1, <2>3, <2>4, <2>5 DEF Leads
            <3> QED BY <1>1, <1>4, <2>1, <2>2, <2>5, <3>1
      <2>6. CASE Object(c) \notin object /\ Continue(c, ResetToken)
            <3>1. Step("write", "secret", System) \in StepsOf(ResetToken)
                  <4>1. StepsOf(ResetToken) =
                           {Step("uid", "namespace", System),
                            Step("write", "secret", System),
                            Step("print", "secret", System)}
                        BY DEF StepsOf, ResetToken
                  <4> QED BY <4>1
            <3>2. Leads(c, ResetToken)
                  BY <2>3, <2>4, <3>1, LeavesOf DEF Leads
            <3> QED BY <1>1, <1>4, <2>1, <2>2, <2>6, <3>2
      <2> QED BY <1>5, <2>5, <2>6 DEF GetSecret
<1>6. CASE todo[c] = ResetToken /\ Continue(c, ToWrite)
      <2>1. At(c, "uid")
            BY <1>3, <1>6, TokenSteps DEF At, Step
      <2>2. Leads(c, <<>>)
            BY <2>1, LeadsNowhere
      <2>3. todo[c] # <<>> /\ Tail(todo[c]) = ToWrite
            BY <1>6, TokenSteps
      <2> QED BY <1>1, <1>6, <1>4, <2>2, <2>3
<1>7. CASE SetSecret(c) /\ todo[c] = ToWrite /\ Continue(c, ToPrint)
      <2>1. At(c, "write")
            BY <1>7 DEF SetSecret
      <2>2. Object(c) \in object' \/ Fails(c)
            BY <1>7 DEF SetSecret
      <2>3. Object(c) \in object' => Leads(c, <<>>)
            BY <2>1, LeadsDone
      <2>4. todo[c] # <<>> /\ Tail(todo[c]) = ToPrint
            BY <1>7, TokenSteps
      <2>5. CASE Object(c) \in object'
            BY <1>1, <1>7, <1>4, <2>3, <2>4, <2>5
      <2> QED BY <2>2, <2>5
<1>8. CASE PrintOutput(c) /\ todo[c] = ToPrint /\ Continue(c, <<>>)
      <2>1. Leads(c, <<>>)
            BY <1>8, LeadsNowhere DEF PrintOutput
      <2>2. todo[c] # <<>> /\ Tail(todo[c]) = <<>>
            BY <1>8, TokenSteps
      <2> QED BY <1>1, <1>8, <1>4, <2>1, <2>2
<1> QED BY <1>1, <1>5, <1>6, <1>7, <1>8, InstallGoes

LEMMA AdvanceCovers ==
    ASSUME TypeOK, CommandInv, NEW c \in Cli, Advance(c) \/ Stop(c),
           command[c] \in {"install", "upgrade"}, command[c] = "install" => ToToken(c),
           Covered(c), status'[c] # "failed"
    PROVE  Covered(c)' /\ (status'[c] = "ok" => todo'[c] = <<>>)
<1>1. Running(c) /\ command' = command
      BY StepMoves
<1>2. ~Fails(c)
      BY DEF Fails, TypeOK
<1>3. Advance(c)
      BY <1>2 DEF Stop
<1>4. PICK s \in Seq(Steps) :
         Continue(c, s \o Tail(todo[c])) /\ Leads(c, s) /\ todo[c] # <<>>
      BY <1>2, <1>3, Leading
<1>5. /\ todo'[c] = s \o Tail(todo[c])
      /\ status'[c] = "ok" => s \o Tail(todo[c]) = <<>>
      BY <1>1, <1>4 DEF Continue, Running, TypeOK
<1>6. todo[c] \in Seq(Steps) /\ Tail(todo[c]) \in Seq(Steps)
      BY <1>4, HeadTailProperties DEF TypeOK
<1>7. /\ StepsOf(todo'[c]) = StepsOf(s) \cup StepsOf(Tail(todo[c]))
      /\ StepsOf(todo[c]) \subseteq {Head(todo[c])} \cup StepsOf(Tail(todo[c]))
      <2>1. StepsOf(s \o Tail(todo[c])) = StepsOf(s) \cup StepsOf(Tail(todo[c]))
            <3>1. s \in Seq(Steps) /\ Tail(todo[c]) \in Seq(Steps)
                  BY <1>4, <1>6
            <3>2. ASSUME NEW t \in Seq(Steps), NEW u \in Seq(Steps)
                  PROVE  StepsOf(t \o u) = StepsOf(t) \cup StepsOf(u)
                  BY StepsConcat
            <3> QED BY <3>1, <3>2, Zenon
      <2>2. StepsOf(todo[c]) \subseteq {Head(todo[c])} \cup StepsOf(Tail(todo[c]))
            BY <1>4, <1>6, StepsHead
      <2> QED BY <1>5, <2>1, <2>2
<1>8. object \subseteq object' /\ monitored \subseteq monitored'
      BY CalmStep
<1>9. ASSUME NEW o \in Needed(c)'
      PROVE  o \in object' \/ \E x \in StepsOf(todo'[c]) : Leaves(x, o)
      <2>1. o \in Needed(c)
            BY <1>1 DEF Needed
      <2>2. CASE o \in object
            BY <1>8, <2>2
      <2>3. ASSUME NEW x \in StepsOf(todo[c]), Leaves(x, o)
            PROVE  o \in object' \/ \E y \in StepsOf(todo'[c]) : Leaves(y, o)
            <3>1. CASE x = Head(todo[c])
                  BY <1>4, <1>7, <2>3, <3>1 DEF Leads
            <3>2. CASE x # Head(todo[c])
                  BY <1>7, <2>3, <3>2
            <3> QED BY <3>1, <3>2
      <2> QED BY <2>1, <2>2, <2>3 DEF Covered
<1>10. ASSUME command[c] = "install"
       PROVE  \/ Chosen[c] \subseteq monitored'
              \/ Step("operator", "operator", System) \in StepsOf(todo'[c])
      BY <1>4, <1>7, <1>8, <1>10 DEF Covered, Leads
<1>11. Covered(c)'
      BY <1>1, <1>9, <1>10 DEF Covered
<1> QED BY <1>5, <1>11

(* Nobody else takes it away.                                              *)
LEMMA StaysCovered ==
    ASSUME NEW c \in Cli, Covered(c), object \subseteq object', monitored \subseteq monitored',
           todo'[c] = todo[c], command'[c] = command[c]
    PROVE  Covered(c)'
<1>1. Needed(c)' = Needed(c)
      BY DEF Needed
<1> QED BY <1>1 DEF Covered

LEMMA StepCovers ==
    ASSUME TypeOK, CommandInv, SecretInv, CoverInv, Next,
           NEW c \in Cli, Running(c), ~Undone(c), command[c] \in {"install", "upgrade"},
           status'[c] # "failed"
    PROVE  Covered(c)' /\ (status'[c] = "ok" => todo'[c] = <<>>)
<1>1. Covered(c) /\ (command[c] = "install" => ToToken(c))
      BY DEF CoverInv, SecretInv
<1>2. \A n \in Namespaces : namespace[n] # "terminating"
      BY DEF SecretInv
<1>3. ASSUME NEW d \in Cli, Start(d)
      PROVE  Covered(c)' /\ status'[c] # "ok"
      <2>1. d # c /\ UNCHANGED <<object, monitored>>
            BY <1>3 DEF Start, Running, cluster
      <2>2. /\ todo'[c] = todo[c] /\ command'[c] = command[c] /\ status'[c] = status[c]
            <3>1. PICK m : Started(d, m)
                  BY <1>3, StartsWith
            <3>2. status' = [status EXCEPT ![d] = "running"]
                  BY <1>3 DEF Start
            <3> QED BY <2>1, <3>1, <3>2 DEF Started, TypeOK
      <2> QED BY <1>1, <2>1, <2>2, StaysCovered DEF Running
<1>4. ASSUME NEW d \in Cli, Advance(d) \/ Stop(d), d # c
      PROVE  Covered(c)' /\ status'[c] # "ok"
      <2>1. Running(d) /\ command' = command /\ status'[c] = status[c]
            BY <1>4, StepMoves DEF Moved, TypeOK
      <2>2. command[d] # "uninstall"
            BY <1>4, <2>1 DEF CommandInv, Undone
      <2>3. object \subseteq object' /\ monitored \subseteq monitored' /\ todo'[c] = todo[c]
            BY <1>4, <2>2, CalmStep
      <2> QED BY <1>1, <2>1, <2>3, StaysCovered DEF Running
<1>5. \A n \in Namespaces : ~NamespaceGone(n)
      BY <1>2 DEF NamespaceGone
<1>6. ~Terminated
      BY DEF Terminated
<1> QED BY <1>1, <1>3, <1>4, <1>5, <1>6, AdvanceCovers DEF Next

LEMMA CoverInvariant == Spec => []CoverInv
<1>1. Init => CoverInv
      BY DEF Init, CoverInv, Running
<1>2. TypeOK /\ CommandInv /\ SecretInv /\ CoverInv /\ [Next]_vars => CoverInv'
      <2> SUFFICES ASSUME TypeOK, CommandInv, SecretInv, CoverInv, [Next]_vars
                   PROVE  CoverInv'
          OBVIOUS
      <2>1. CASE UNCHANGED vars
            BY <2>1 DEF vars, CoverInv, Running, Undone, Covered, Needed
      <2>2. ASSUME Next, NEW c \in Cli, Running(c)', ~Undone(c)',
                   command'[c] \in {"install", "upgrade"}
            PROVE  Covered(c)'
            <3>1. CASE Start(c)
                  BY <2>2, <3>1, StartCovers
            <3>2. ASSUME NEW d \in Cli, Start(d), d # c
                  PROVE  Running(c) /\ ~Undone(c) /\ command'[c] = command[c]
                  <4>1. PICK m : Started(d, m)
                        BY <3>2, StartsWith
                  <4>2. command'[c] = command[c] /\ status'[c] = status[c]
                        BY <3>2, <4>1 DEF Started, Start, TypeOK
                  <4> QED BY <2>2, <3>2, <4>2, StartUndone DEF Running
            <3>3. ASSUME NEW d \in Cli, Advance(d) \/ Stop(d)
                  PROVE  Running(c) /\ ~Undone(c) /\ command'[c] = command[c]
                  <4>1. UNCHANGED <<command, met, leftover>> /\ Running(d)
                        BY <3>3, StepMoves
                  <4>2. c # d => status'[c] = status[c]
                        BY <3>3, StepMoves DEF Moved, TypeOK
                  <4> QED BY <2>2, <4>1, <4>2 DEF Running, Undone
            <3>4. ASSUME (\E n \in Namespaces : NamespaceGone(n)) \/ Terminated
                  PROVE  Running(c) /\ ~Undone(c) /\ command'[c] = command[c]
                  <4>1. UNCHANGED <<command, status, met, leftover>>
                        BY <3>4 DEF NamespaceGone, Terminated, process, history, vars
                  <4> QED BY <2>2, <4>1 DEF Running, Undone
            <3>5. status'[c] # "failed"
                  BY <2>2 DEF Running
            <3> QED BY <2>2, <3>1, <3>2, <3>3, <3>4, <3>5, StepCovers DEF Next
      <2> QED BY <2>1, <2>2 DEF CoverInv
<1> QED BY <1>1, <1>2, TypeCorrect, SecretInvariant, PTL DEF Spec

(* An install that succeeds leaves all of Everest behind, with every       *)
(* namespace it was given told to the operator, and an upgrade a complete  *)
(* OLM and Everest, wherever earlier commands died and whatever installs,  *)
(* upgrades and resets run beside it, as long as nobody uninstalls.        *)
THEOREM SuccessIsComplete == Spec => ReportedComplete
<1> DEFINE Leaving == \A c \in Cli :
             Running(c) /\ status'[c] = "ok" /\ ~Undone(c)
             => /\ command[c] = "install" => Complete(c)'
                /\ command[c] = "upgrade" => Upgraded'
<1>1. TypeOK /\ CommandInv /\ SecretInv /\ CoverInv /\ [Next]_vars => [Leaving]_vars
      <2> SUFFICES ASSUME TypeOK, CommandInv, SecretInv, CoverInv, Next,
                          NEW c \in Cli, Running(c), status'[c] = "ok", ~Undone(c),
                          command[c] \in {"install", "upgrade"}
                   PROVE  /\ command[c] = "install" => Complete(c)'
                          /\ command[c] = "upgrade" => Upgraded'
          OBVIOUS
      <2>1. Covered(c)' /\ todo'[c] = <<>>
            BY StepCovers
      <2>2. StepsOf(todo'[c]) = {}
            BY <2>1 DEF StepsOf
      <2>3. command'[c] = command[c]
            <3>1. command' = command \/ \E d \in Cli : Start(d)
                  BY StepMoves DEF Next, NamespaceGone, Terminated, process, vars
            <3>2. ASSUME NEW d \in Cli, Start(d)
                  PROVE  command'[c] = command[c]
                  <4>1. PICK m : Started(d, m)
                        BY <3>2, StartsWith
                  <4>2. d # c
                        BY <3>2 DEF Start, Running
                  <4> QED BY <4>1, <4>2 DEF Started, TypeOK
            <3> QED BY <3>1, <3>2
      <2>4. Needed(c)' \subseteq object' /\ (command[c] = "install" => Chosen[c] \subseteq monitored')
            BY <2>1, <2>2, <2>3 DEF Covered
      <2>5. {"olm-operator", "packageserver", "catalog"} \X {OLM} \subseteq object'
            /\ <<"everest", System>> \in object'
            BY <2>4 DEF Needed
      <2>6. ASSUME command[c] = "install"
            PROVE  /\ {"group", "operator", "monitoring"} \X {Monitoring} \subseteq object'
                   /\ {"group", "operator", "role", "roleBinding"} \X Chosen[c] \subseteq object'
                   /\ {"group", "operator", "secret"} \X {System} \subseteq object'
            BY <2>3, <2>4, <2>6 DEF Needed
      <2>7. ASSUME command[c] = "install", NEW n \in Chosen[c]
            PROVE  {"group", "operator", "role", "roleBinding"} \X {n} \subseteq object'
            BY <2>6, <2>7
      <2>8. ASSUME command[c] = "install"
            PROVE  {"group", "operator", "everest", "secret"} \X {System} \subseteq object'
            BY <2>5, <2>6, <2>8
      <2> QED BY <2>4, <2>5, <2>6, <2>7, <2>8 DEF Complete, Upgraded, OLMServes, Provisioned
<1> QED BY <1>1, TypeCorrect, SecretInvariant, CoverInvariant, PTL DEF Spec, ReportedComplete
==============================================================================
