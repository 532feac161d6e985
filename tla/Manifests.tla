----------------------------- MODULE Manifests -----------------------------
(***************************************************************************)
(* The marketplace: each application has a manifest, which the operator    *)
(* downloads anew for every question it has (pkg/utils/utils.go).  A       *)
(* manifest names the application's dependencies and namespace, its        *)
(* configuration (templates under keys) and its plans (each with a label   *)
(* and values under keys).  This module is what utils.go makes of it.      *)
(*                                                                         *)
(* The text of a template is left out: what matters is the kinds of        *)
(* KUBEMART variable it contains, "unknown" for one that the operator has  *)
(* no value for, and whether it has a number in parentheses.               *)
(***************************************************************************)
EXTENDS Naturals, Sequences

CONSTANTS
  Apps,             \* the marketplace applications
  Keys,             \* the keys of configurations and plans
  MaxVersion,       \* versions of the applications ever published (a bound)
  Dependencies,     \* Dependencies[a]: the direct dependencies in a's manifest
  Namespaced,       \* the applications whose manifest declares a namespace
  Configuration,    \* Configuration[a][v]: the templates in version v of a's manifest
  Plans,            \* Plans[a]: the plans in a's manifest, in order
  ErrorPages        \* whether the server may send something else than the manifest

GeneratedKinds == {"ALPHANUMERIC", "WORDS"}
SettingKinds == {"CLUSTER_NAME", "DOMAIN_NAME", "EMAIL_ADDRESS", "MASTER_IP"}
Kinds == GeneratedKinds \cup SettingKinds
Templates == [kinds: SUBSET (Kinds \cup {"unknown"}), sized: BOOLEAN]

ASSUME DependenciesAssumption == Dependencies \in [Apps -> SUBSET Apps]
ASSUME NamespacedAssumption == Namespaced \subseteq Apps
ASSUME VersionAssumption == MaxVersion \in Nat \ {0}
ASSUME ConfigurationAssumption ==
  \A a \in Apps : \A v \in 1..MaxVersion :
    /\ DOMAIN Configuration[a][v] \subseteq Keys
    /\ \A k \in Keys : k \in DOMAIN Configuration[a][v] => Configuration[a][v][k] \in Templates
ASSUME PlansAssumption ==
  \A a \in Apps : \A i \in DOMAIN Plans[a] : \A k \in Keys :
    k \in DOMAIN Plans[a][i].configuration => Plans[a][i].configuration[k] \in Nat
ASSUME ErrorPagesAssumption == ErrorPages \in BOOLEAN

\* What a download of the part `content` of a manifest yields.  The HTTP status is not
\* looked at: the text of an error page is a manifest in which every part is empty.
Downloads(content, empty) == {content} \cup (IF ErrorPages THEN {empty} ELSE {})

(***************************************************************************)
(* Configurations.  An entry of an App holds a key and a value, which is   *)
(* the template with the variable replaced.  The value is what it was made *)
(* from: the App's uid, which seeds the generators, the settings read from *)
(* the ConfigMap, or the size the plan asks for.  The kind says which, and *)
(* so whether the value is base64 and customized.                          *)
(***************************************************************************)
Entries == [key: Keys, kind: Kinds \cup {"plan"}, value: Nat]

EntriesOf(app, key) == {c \in app.configurations : c.key = key}

\* Mistake: what is stored is not looked at.
NeverExists(app, key) == FALSE
IsConfigurationExists(app, key) == EntriesOf(app, key) # {}

Missing(app, conf) == {k \in DOMAIN conf : ~IsConfigurationExists(app, k)}

\* A template without a variable is an error.
Unusable(app, conf) == \E k \in Missing(app, conf) : conf[k].kinds = {}

\* A generated value without a length is a panic: FindStringMatch returns nil.
Unsized(app, conf) ==
  \E k \in Missing(app, conf) : conf[k].kinds \cap GeneratedKinds # {} /\ ~conf[k].sized

\* One entry for each kind of variable in the template: a template with two of
\* them gets two entries under one key, one with an unknown variable none.
NewEntries(app, conf, settings) ==
  UNION {{[key |-> k, kind |-> n, value |-> IF n \in GeneratedKinds THEN app.uid ELSE settings] :
            n \in conf[k].kinds \cap Kinds} : k \in Missing(app, conf)}

(***************************************************************************)
(* Plans.  A size of zero stands for the empty string.                     *)
(***************************************************************************)
NoPlan == 0

\* GetAppPlanVariableName: a key of the first plan that has one; as the keys come in
\* random order, any of them.  Without any the code panics.
PlanVariables(plans) ==
  {k \in Keys : \E i \in DOMAIN plans :
     /\ k \in DOMAIN plans[i].configuration
     /\ \A h \in 1..(i - 1) : DOMAIN plans[h].configuration = {}}

\* GetAppPlanValueByLabel for the first plan's label: the last plan with that label
\* counts, and has no size when the chosen key is not one of its own.
LastNamed(plans) ==
  {i \in DOMAIN plans : /\ plans[i].label = plans[1].label
                        /\ \A h \in DOMAIN plans : h > i => plans[h].label # plans[1].label}
SmallestPlan(plans) ==
  IF plans = <<>> THEN {NoPlan}
  ELSE {IF k \in DOMAIN plans[i].configuration THEN plans[i].configuration[k] ELSE NoPlan :
          k \in PlanVariables(plans), i \in LastNamed(plans)}

\* The entries that App's plan may add, which is none when its key is stored already.
PlanEntries(app, plans) ==
  IF app.plan = NoPlan THEN {{}}
  ELSE {IF IsConfigurationExists(app, k) THEN {}
        ELSE {[key |-> k, kind |-> "plan", value |-> app.plan]} : k \in PlanVariables(plans)}
=============================================================================
