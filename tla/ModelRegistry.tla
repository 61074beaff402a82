---------------------------- MODULE ModelRegistry ----------------------------
(***************************************************************************)
(* Providers, models and the routing of a prompt to a model.               *)
(*                                                                         *)
(* A settings request reads the provider or model it is about, decides on  *)
(* what it read, and writes by id in a later transaction, so requests      *)
(* interleave: an edit read before a retirement is written after it.       *)
(* Routing reads the chosen model, then the rows of all, then their keys   *)
(* one by one, while settings are written. Names, addresses, prices and    *)
(* the audit are left out, the switch for fallbacks is Orchestrator's; the *)
(* remote catalogue is any set of the models the Zen list names.           *)
(***************************************************************************)
EXTENDS Naturals, SequencesExt

CONSTANTS
    Models, Providers,
    Owner,         \* the provider each model belongs to
    Priority,      \* the number models of equal standing are ordered by
    Tiers,         \* "vision" among them
    ZenModels,     \* models the locked Zen list names, of the Zen provider
    ZenDefault,    \* the one of them that becomes the default
    Settings,      \* settings requests, reused
    MaxSettings    \* bound: settings requests that are made

VARIABLES
    providers,  \* rows of ai_provider_profiles, with the key the keyring holds
    models,     \* rows of ai_model_profiles
    setting,    \* settings requests that have read and not yet written
    routing,    \* how far the routing of a prompt is
    needs,      \* the tier it is for
    chosen,     \* the model chosen by hand, or "none"
    left,       \* rows it has read and not yet tried
    ranks,      \* model -> its standing in the rows
    seeing,     \* the models that see, in the rows
    given,      \* its candidates so far
    withdrawn,  \* history: models and providers retired and not brought back
    barred,     \* history: models withdrawn when the routing began, and ever since
    touched,    \* history: models changed since then, or their providers
    requests    \* settings requests made

routeVars == <<routing, needs, chosen, left, ranks, seeing, given>>
registryVars == <<providers, models, setting, routeVars, withdrawn, barred, touched, requests>>

ProviderRow == [known : BOOLEAN, enabled : BOOLEAN, retired : BOOLEAN, key : BOOLEAN]
ModelRow == [known : BOOLEAN, tier : Tiers, vision : BOOLEAN, enabled : BOOLEAN,
             default : BOOLEAN, retired : BOOLEAN]
Idle == [op |-> "none", of |-> "none"]

RegistryTypeOK ==
    /\ providers \in [Providers -> ProviderRow]
    /\ models \in [Models -> ModelRow]
    /\ setting \in [Settings -> [op : {"none", "provider", "retire provider", "create",
                                       "zen", "model", "retire model"},
                                 of : Models \cup Providers \cup {"none"}]]
    /\ routing \in {"idle", "chosen", "first", "rows", "done", "failed"}
    /\ needs \in Tiers /\ chosen \in Models \cup {"none"}
    /\ left \subseteq Models /\ ranks \in [Models -> 0..2] /\ seeing \subseteq Models
    /\ given \in Seq(Models)
    /\ withdrawn \subseteq Models \cup Providers
    /\ barred \subseteq Models /\ touched \subseteq Models
    /\ requests \in 0..MaxSettings

NoModel == [known |-> FALSE, tier |-> "vision", vision |-> FALSE, enabled |-> FALSE,
            default |-> FALSE, retired |-> FALSE]

RegistryInit ==
    /\ providers = [p \in Providers |-> [known |-> FALSE, enabled |-> FALSE,
                                         retired |-> FALSE, key |-> FALSE]]
    /\ models = [m \in Models |-> NoModel]
    /\ setting = [s \in Settings |-> Idle]
    /\ routing = "idle" /\ needs = "vision" /\ chosen = "none" /\ given = <<>>
    /\ left = {} /\ ranks = [m \in Models |-> 0] /\ seeing = {}
    /\ withdrawn = {} /\ barred = {} /\ touched = {}
    /\ requests = 0

-----------------------------------------------------------------------------
(* Providers.                                                              *)

\* A keyring that refuses the key rolls the row back.
CreateProvider(p) ==
    /\ ~providers[p].known
    /\ \E key \in BOOLEAN :
          providers' = [providers EXCEPT ![p] = [known |-> TRUE, enabled |-> TRUE,
                                                 retired |-> FALSE, key |-> key]]
    /\ UNCHANGED <<models, setting, withdrawn, requests>>

Await(s, op, of) ==
    /\ setting[s] = Idle
    /\ requests < MaxSettings /\ requests' = requests + 1
    /\ setting' = [setting EXCEPT ![s] = [op |-> op, of |-> of]]
    /\ UNCHANGED <<providers, models, withdrawn>>

CurrentProvider(p) == providers[p].known /\ ~providers[p].retired

\* Models are added to a provider that was read as enabled, the Zen list to
\* one that also has a key.
ReadProvider(s, p, op) ==
    /\ CurrentProvider(p)
    /\ op \in {"create", "zen"} => providers[p].enabled
    /\ op = "zen" => providers[p].key /\ \E m \in ZenModels : Owner[m] = p
    /\ Await(s, op, p)

Answer(s, op, of) ==
    /\ setting[s] = [op |-> op, of |-> of]
    /\ setting' = [setting EXCEPT ![s] = Idle]
    /\ UNCHANGED requests

UpdateProvider(s, p) ==
    /\ Answer(s, "provider", p)
    /\ \E on \in BOOLEAN : providers' = [providers EXCEPT ![p].enabled = on]
    /\ UNCHANGED <<models, withdrawn>>

SetCredential(s, p) ==
    /\ Answer(s, "provider", p)
    /\ providers' = [providers EXCEPT ![p].key = TRUE]
    /\ UNCHANGED <<models, withdrawn>>

RetireProvider(s, p) ==
    /\ Answer(s, "retire provider", p)
    /\ providers' = [providers EXCEPT ![p] = [@ EXCEPT !.enabled = FALSE, !.retired = TRUE]]
    /\ models' = [m \in Models |-> IF Owner[m] = p THEN [models[m] EXCEPT !.default = FALSE]
                                   ELSE models[m]]
    /\ withdrawn' = withdrawn \cup {p}

-----------------------------------------------------------------------------
(* Models.                                                                 *)

Undefaulted(rows) == [n \in Models |-> [rows[n] EXCEPT !.default = FALSE]]

\* The unique index: one default among the models not retired.
Indexed(rows) == \A m, n \in Models :
    (\A x \in {m, n} : rows[x].default /\ ~rows[x].retired) => m = n

\* A second model of the same identifier, or a second default, is refused.
CreateModel(s, m) ==
    \E tier \in Tiers, vision, default \in BOOLEAN :
        LET cleared == IF default THEN Undefaulted(models) ELSE models
        IN  /\ Answer(s, "create", Owner[m]) /\ ~models[m].known
            /\ models' = [cleared EXCEPT ![m] = [known |-> TRUE, tier |-> tier, vision |-> vision,
                                                 enabled |-> TRUE, default |-> default,
                                                 retired |-> FALSE]]
            /\ Indexed(models')
            /\ UNCHANGED <<providers, withdrawn>>

\* The Zen list brings a model back even when it was retired.
ZenRow(rows, m) ==
    [rows[m] EXCEPT !.known = TRUE, !.tier = "fast", !.vision = FALSE, !.enabled = TRUE,
                    !.default = @ \/ m = ZenDefault, !.retired = FALSE]

\* All of the available models or none: a model brought back as a default beside
\* another is refused at its own statement, before or after the others lose theirs.
ImportZen(s, p) ==
    \E wanted \in SUBSET {m \in ZenModels : Owner[m] = p} :
        LET cleared == IF ZenDefault \in wanted THEN Undefaulted(models) ELSE models
            Import(rows, new) == [m \in Models |-> IF m \in new THEN ZenRow(rows, m) ELSE rows[m]]
            done == Import(cleared, wanted)
            early == Import(models, wanted \ {ZenDefault})
        IN  /\ wanted # {}
            /\ Answer(s, "zen", p)
            /\ \/ Indexed(done) /\ models' = done /\ withdrawn' = withdrawn \ wanted
               \/ ~(Indexed(done) /\ Indexed(early)) /\ UNCHANGED <<models, withdrawn>>
            /\ UNCHANGED providers

CurrentModel(m) == models[m].known /\ ~models[m].retired

ReadModel(s, m, op) == CurrentModel(m) /\ Await(s, op, m)

EditedWhole(row, tier, vision, on, default, off) == \* mutant: the row as it was read
    [row EXCEPT !.tier = tier, !.vision = vision, !.enabled = on, !.retired = FALSE,
                !.default = default = "make" \/ (@ /\ default = "keep" /\ ~off)]
\* "default" is "keep" when the request does not speak of it; a model that the
\* request turns off is no default.
Edited(row, tier, vision, on, default, off) ==
    [row EXCEPT !.tier = tier, !.vision = vision, !.enabled = on,
                !.default = default = "make" \/ (@ /\ default = "keep" /\ ~off)]

UpdateModel(s, m) ==
    \E tier \in Tiers, vision, on \in BOOLEAN, default \in {"keep", "make", "drop"} :
        LET cleared == IF default = "make" THEN Undefaulted(models) ELSE models
            off == models[m].enabled /\ ~on
        IN  /\ Answer(s, "model", m)
            /\ ~(off /\ default = "make")
            /\ models' = [cleared EXCEPT ![m] = Edited(cleared[m], tier, vision, on, default, off)]
            /\ UNCHANGED <<providers, withdrawn>>

RetireModel(s, m) ==
    /\ Answer(s, "retire model", m)
    /\ models' = [models EXCEPT ![m] = [@ EXCEPT !.enabled = FALSE, !.default = FALSE,
                                                 !.retired = TRUE]]
    /\ withdrawn' = withdrawn \cup {m}
    /\ UNCHANGED providers

SettingsStep ==
    \/ \E p \in Providers : CreateProvider(p)
    \/ \E s \in Settings, p \in Providers :
         \/ \E op \in {"provider", "retire provider", "create", "zen"} : ReadProvider(s, p, op)
         \/ UpdateProvider(s, p) \/ SetCredential(s, p) \/ RetireProvider(s, p) \/ ImportZen(s, p)
    \/ \E s \in Settings, m \in Models :
         \/ \E op \in {"model", "retire model"} : ReadModel(s, m, op)
         \/ CreateModel(s, m) \/ UpdateModel(s, m) \/ RetireModel(s, m)

-----------------------------------------------------------------------------
(* Routing.                                                                *)

OfAnyProvider == {m \in Models : CurrentModel(m) /\ models[m].enabled
                                 /\ providers[Owner[m]].enabled} \* mutant
EligibleModels == {m \in Models : /\ CurrentModel(m) /\ models[m].enabled
                                  /\ CurrentProvider(Owner[m]) /\ providers[Owner[m]].enabled}

Standing(m, tier) == IF models[m].tier = tier THEN 0 ELSE IF models[m].default THEN 1 ELSE 2
HasKey(m) == providers[Owner[m]].key
SettingsStay == UNCHANGED <<providers, models, setting, withdrawn, requests>>

Withdrawn(m) == m \in withdrawn \/ Owner[m] \in withdrawn

\* One routing is followed, begun at any time: it changes nothing it reads.
Begin(m) ==
    /\ routing = "idle"
    /\ chosen' = m /\ given' = <<>>
    /\ barred' = {n \in Models : Withdrawn(n)} /\ touched' = {}

\* The first SELECT, of the model chosen by hand.
SelectChosen(m) ==
    /\ Begin(m)
    /\ routing' = IF m \in EligibleModels THEN "chosen" ELSE "failed"
    /\ needs' = models[m].tier
    /\ seeing' = {n \in {m} : models[n].vision}
    /\ left' = {} /\ UNCHANGED ranks
    /\ SettingsStay

\* The SELECT of all; of the chosen model the row read before counts.
SelectRows(tier) ==
    /\ \/ Begin("none")
       \/ routing = "chosen" /\ tier = needs /\ UNCHANGED <<chosen, given, barred, touched>>
    /\ needs' = tier
    /\ routing' = (IF EligibleModels = {} THEN "failed" ELSE IF chosen' = "none" THEN "rows" ELSE "first")
    /\ left' = EligibleModels /\ ranks' = [m \in Models |-> Standing(m, tier)]
    /\ seeing' = {m \in Models : IF m = chosen' THEN m \in seeing ELSE models[m].vision}
    /\ SettingsStay

Capable(m) == needs = "vision" => m \in seeing

\* The key of the chosen model ...
TryChosen ==
    /\ routing = "first"
    /\ IF HasKey(chosen) /\ Capable(chosen)
       THEN given' = <<chosen>> /\ routing' = "rows"
       ELSE routing' = "failed" /\ UNCHANGED given
    /\ UNCHANGED <<needs, chosen, left, ranks, seeing, barred, touched>> /\ SettingsStay

Before(m, n) == ranks[m] < ranks[n] \/ (ranks[m] = ranks[n] /\ Priority[m] < Priority[n])

\* ... and those of the others, in the order of the rows.
TryRow(m) ==
    /\ routing = "rows" /\ m \in left /\ \A n \in left \ {m} : Before(m, n)
    /\ left' = left \ {m}
    /\ given' = (IF HasKey(m) /\ Capable(m) /\ m \notin ToSet(given) THEN Append(given, m) ELSE given)
    /\ UNCHANGED <<routing, needs, chosen, ranks, seeing, barred, touched>> /\ SettingsStay

EndRows ==
    /\ routing = "rows" /\ left = {}
    /\ routing' = IF given = <<>> THEN "failed" ELSE "done"
    /\ UNCHANGED <<needs, chosen, left, ranks, seeing, given, barred, touched>> /\ SettingsStay

RouteStep ==
    \/ \E m \in Models : SelectChosen(m) \/ TryRow(m)
    \/ \E tier \in Tiers : SelectRows(tier)
    \/ TryChosen \/ EndRows

\* What a settings request does to the histories of the routing.
Watch ==
    /\ UNCHANGED routeVars
    /\ barred' = barred \cap {m \in Models : Withdrawn(m)'}
    /\ touched' = touched \cup {m \in Models : \/ models'[m] # models[m]
                                              \/ providers'[Owner[m]] # providers[Owner[m]]}

RegistryNext == (SettingsStep /\ Watch) \/ RouteStep
RegistrySpec == RegistryInit /\ [][RegistryNext]_registryVars

-----------------------------------------------------------------------------

\* Enabled, not retired, with a key, and able to do what the tier asks for.
Fit(m, tier) ==
    /\ models[m].known /\ models[m].enabled /\ ~models[m].retired
    /\ providers[Owner[m]].enabled /\ ~providers[Owner[m]].retired /\ HasKey(m)
    /\ tier = "vision" => models[m].vision

Ahead(m, n, tier) ==
    \/ Standing(m, tier) < Standing(n, tier)
    \/ Standing(m, tier) = Standing(n, tier) /\ Priority[m] < Priority[n]

\* Whatever is written between its reads, a routing hands on each model once, the
\* chosen one first; none that was retired before it began, not even when an edit
\* read before the retirement was written after it, and none without a key. Of the
\* models nobody touched meanwhile it hands on those that are fit and no other, in
\* the order of their standing (select_model_candidates).
RouteIsFit ==
    routing = "done" =>
        /\ IsInjective(given) /\ (chosen # "none" => given[1] = chosen)
        /\ \A m \in ToSet(given) : m \notin barred /\ HasKey(m)
        /\ \A m \in Models \ touched : m \in ToSet(given) <=> Fit(m, needs)
        /\ \A i, j \in DOMAIN given :
              i < j /\ given[i] # chosen /\ {given[i], given[j]} \cap touched = {}
              => Ahead(given[i], given[j], needs)

\* It refuses a prompt only when, of the models nobody touched, none is fit, or when
\* the chosen one is not.
RefusalIsFit ==
    routing = "failed" =>
        \A m \in Models \ touched : chosen \in {"none", m} => ~Fit(m, needs)

RoutesAreFit == RouteIsFit /\ RefusalIsFit

(* "A disabled model cannot be default" (model_config.py, update_model).      *)
DisabledIsNotDefault == \A m \in Models : models[m].default => models[m].enabled
=============================================================================
