--------------------------- MODULE ResiliencyBuilder ---------------------------
(***************************************************************************)
(* The resiliency wizard (src/web/src/pages/resiliency-builder): a reducer *)
(* over policies and the targets that refer to them by name, edited through *)
(* dialogs in three steps and emitted as YAML in the fourth.  Policies can *)
(* be renamed and removed after targets were made; the reducer cascades.   *)
(***************************************************************************)
EXTENDS Naturals, FiniteSets

CONSTANTS Unset,         \* an absent value
          PolicyNames,  \* valid names for policies
          BuiltIn,      \* the DaprBuiltIn names among them: retry overrides only
          TargetNames,  \* valid names for apps, actor types and components
          MaxEdits      \* bound: dialogs opened, removals and name edits

VARIABLES rcfg,   \* config.spec: [pol, tgt]
          rmeta,  \* metadata: the name is valid, a namespace is given
          rstep,  \* activeStep
          ropen,  \* the open dialog, or Unset
          redits  \* edits so far

rvars == <<rcfg, rmeta, rstep, ropen, redits>>

PolicyFields == {"timeout", "retry", "circuitBreaker"}
TargetKinds == {"apps", "actors", "components"}
Legs == {"own", "outbound", "inbound"}

(* A policy's settings: some are given, or all were cleared.  Only the      *)
(* circuit breaker dialog lets every field be empty.                        *)
Settings(field) == IF field = "circuitBreaker" THEN {"given", "blank"} ELSE {"given"}

Refs == [PolicyFields -> PolicyNames \cup {Unset}]

ASSUME ResiliencyAssumption ==
  /\ Unset \notin PolicyNames \cup {"given", "blank"} \cup Refs
  /\ BuiltIn \subseteq PolicyNames
  /\ MaxEdits \in Nat

NoTarget == [legs |-> [leg \in Legs |-> Unset], scope |-> FALSE]

Has(target) == \E leg \in Legs : target.legs[leg] # Unset

defaultResiliencyConfig ==
  [pol |-> [field \in PolicyFields |-> [n \in PolicyNames |-> Unset]],
   tgt |-> [kind \in TargetKinds |-> [n \in TargetNames |-> NoTarget]]]

-----------------------------------------------------------------------------
(* The reducer. *)

(* A reference to policy "from" is pointed at "to", or cleared. *)
remapRef(leg, field, from, to) ==
  IF leg # Unset /\ leg[field] = from THEN [leg EXCEPT ![field] = to] ELSE leg

(* Without its circuit breaker an actor loses the breaker's scope too. *)
remapTarget(target, field, from, to) ==
  [legs |-> [leg \in Legs |-> remapRef(target.legs[leg], field, from, to)],
   scope |-> target.scope /\ ~ (field = "circuitBreaker" /\ to = Unset
                                /\ target.legs["own"][field] = from)]

remapPolicyRefs(tgt, field, from, to) ==
  [kind \in TargetKinds |->
     [n \in TargetNames |-> remapTarget(tgt[kind][n], field, from, to)]]

UPSERT_POLICY(cfg, field, name, settings) ==
  [cfg EXCEPT !.pol[field][name] = settings]

REMOVE_POLICY_ONLY(cfg, field, name) == [cfg EXCEPT !.pol[field][name] = Unset]

REMOVE_POLICY(cfg, field, name) ==
  [pol |-> [cfg.pol EXCEPT ![field][name] = Unset],
   tgt |-> remapPolicyRefs(cfg.tgt, field, name, Unset)]

RENAME_POLICY(cfg, field, from, to) ==
  [pol |-> IF cfg.pol[field][from] = Unset THEN cfg.pol
           ELSE [cfg.pol EXCEPT ![field][from] = Unset,
                                 ![field][to] = cfg.pol[field][from]],
   tgt |-> remapPolicyRefs(cfg.tgt, field, from, to)]

UPSERT_TARGET(cfg, kind, name, target) == [cfg EXCEPT !.tgt[kind][name] = target]

REMOVE_TARGET(cfg, kind, name) == [cfg EXCEPT !.tgt[kind][name] = NoTarget]

(* What lets the wizard leave a step. *)
canContinue ==
  CASE rstep = 0 -> rmeta.name
    [] rstep = 1 -> \E field \in PolicyFields, n \in PolicyNames :
                      rcfg.pol[field][n] # Unset
    [] rstep = 2 -> \/ \E kind \in TargetKinds, n \in TargetNames : Has(rcfg.tgt[kind][n])
                    \/ \E n \in BuiltIn : rcfg.pol["retry"][n] # Unset
    [] OTHER -> TRUE

(* The YAML: empty values are pruned, and with them a policy that has none. *)
assembleResiliency ==
  [namespace |-> rmeta.namespace,
   policies |-> {ref \in PolicyFields \X PolicyNames : rcfg.pol[ref[1]][ref[2]] = "given"},
   refs |-> {ref \in PolicyFields \X PolicyNames :
               \E kind \in TargetKinds, t \in TargetNames, leg \in Legs :
                 /\ rcfg.tgt[kind][t].legs[leg] # Unset
                 /\ rcfg.tgt[kind][t].legs[leg][ref[1]] = ref[2]}]

-----------------------------------------------------------------------------
(* The steps and their dialogs. *)

Edited == redits < MaxEdits /\ redits' = redits + 1

(* StepGeneral: the name, valid or not, and the namespace, given or not. *)
SetMeta(meta) == /\ rstep = 0 /\ Edited
                 /\ rmeta' = meta
                 /\ UNCHANGED <<rcfg, rstep, ropen>>

SET_NAME(valid) == SetMeta([rmeta EXCEPT !.name = valid])
SET_NAMESPACE(given) == SetMeta([rmeta EXCEPT !.namespace = given])

Open(dialog) == /\ ropen = Unset /\ Edited
                /\ ropen' = dialog
                /\ UNCHANGED <<rcfg, rmeta, rstep>>

Close == ropen' = Unset /\ UNCHANGED <<rmeta, rstep, redits>>

(* StepPolicies: the custom lists leave the built-in retries out. *)
Listed(field) == {n \in PolicyNames : /\ rcfg.pol[field][n] # Unset
                                      /\ field = "retry" => n \notin BuiltIn}

openPolicy(field, editName) ==
  /\ rstep = 1 /\ editName \in Listed(field) \cup {Unset}
  /\ Open([kind |-> field, editName |-> editName])

openOverride(label) == rstep = 1 /\ Open([kind |-> "override", editName |-> label])

removePolicy(field, name) ==
  /\ rstep = 1 /\ ropen = Unset /\ rcfg.pol[field][name] # Unset
  /\ Edited
  /\ rcfg' = REMOVE_POLICY(rcfg, field, name)
  /\ UNCHANGED <<rmeta, rstep, ropen>>

(* Saving under a new name renames first, so that references follow. *)
upsertWithRename(field, editName, name, settings) ==
  UPSERT_POLICY(IF editName \notin {Unset, name}
                THEN RENAME_POLICY(rcfg, field, editName, name) ELSE rcfg,
                field, name, settings)

duplicateName(taken, name) == taken /\ name # ropen.editName

savePolicy(field, name, settings) ==
  /\ ropen # Unset /\ ropen.kind = field
  /\ ~duplicateName(rcfg.pol[field][name] # Unset, name)
  /\ field = "retry" => name \notin BuiltIn
  /\ rcfg' = upsertWithRename(field, ropen.editName, name, settings)
  /\ Close

saveOverride ==
  /\ ropen # Unset /\ ropen.kind = "override"
  /\ rcfg' = UPSERT_POLICY(rcfg, "retry", ropen.editName, "given")
  /\ Close

(* StepTargets: the pickers offer the policies there are; one is required. *)
openTarget(kind, editName) ==
  /\ rstep = 2
  /\ editName # Unset => Has(rcfg.tgt[kind][editName])
  /\ Open([kind |-> kind, editName |-> editName])

removeTarget(kind, name) ==
  /\ rstep = 2 /\ ropen = Unset /\ Has(rcfg.tgt[kind][name])
  /\ Edited
  /\ rcfg' = REMOVE_TARGET(rcfg, kind, name)
  /\ UNCHANGED <<rmeta, rstep, ropen>>

Pickable == {refs \in Refs :
               /\ \E field \in PolicyFields : refs[field] # Unset
               /\ \A field \in PolicyFields :
                    refs[field] # Unset => rcfg.pol[field][refs[field]] # Unset}

(* The targets a dialog can save: one leg, or a component's directions with *)
(* the same references in each.                                             *)
Target(kind, refs, direction, scope) ==
  [legs |-> [leg \in Legs |->
               IF leg \in (IF kind = "components" THEN direction ELSE {"own"})
               THEN refs ELSE Unset],
   scope |-> kind = "actors" /\ scope /\ refs["circuitBreaker"] # Unset]

saveTarget(kind, name, refs, direction, scope) ==
  /\ ropen # Unset /\ ropen.kind = kind
  /\ ~duplicateName(Has(rcfg.tgt[kind][name]), name)
  /\ rcfg' = UPSERT_TARGET(IF ropen.editName \notin {Unset, name}
                           THEN REMOVE_TARGET(rcfg, kind, ropen.editName) ELSE rcfg,
                           kind, name, Target(kind, refs, direction, scope))
  /\ Close

closeDialog == ropen # Unset /\ Close /\ UNCHANGED rcfg

NEXT == /\ rstep < 3 /\ ropen = Unset /\ canContinue
        /\ rstep' = rstep + 1
        /\ UNCHANGED <<rcfg, rmeta, ropen, redits>>

BACK == /\ rstep > 0 /\ ropen = Unset
        /\ rstep' = rstep - 1
        /\ UNCHANGED <<rcfg, rmeta, ropen, redits>>

-----------------------------------------------------------------------------
RInit ==
  /\ rcfg = defaultResiliencyConfig
  /\ rmeta = [name |-> FALSE, namespace |-> TRUE]
  /\ rstep = 0
  /\ ropen = Unset
  /\ redits = 0

RNext ==
  \/ \E value \in BOOLEAN : SET_NAME(value) \/ SET_NAMESPACE(value)
  \/ \E field \in PolicyFields, editName \in PolicyNames \cup {Unset} :
       openPolicy(field, editName)
  \/ \E label \in BuiltIn : openOverride(label)
  \/ \E field \in PolicyFields, name \in PolicyNames : removePolicy(field, name)
  \/ \E field \in PolicyFields, name \in PolicyNames :
       \E settings \in Settings(field) : savePolicy(field, name, settings)
  \/ saveOverride
  \/ \E kind \in TargetKinds, editName \in TargetNames \cup {Unset} :
       openTarget(kind, editName)
  \/ \E kind \in TargetKinds, name \in TargetNames : removeTarget(kind, name)
  \/ \E kind \in TargetKinds, name \in TargetNames, refs \in Pickable,
        direction \in {{"outbound"}, {"inbound"}, {"outbound", "inbound"}},
        scope \in BOOLEAN : saveTarget(kind, name, refs, direction, scope)
  \/ closeDialog
  \/ NEXT
  \/ BACK
RSpec == RInit /\ [][RNext]_rvars

-----------------------------------------------------------------------------
(* However policies are renamed and removed after targets were made, every  *)
(* reference a target holds names a policy there is, an actor keeps a       *)
(* breaker's scope only with the breaker (reducer.ts remapPolicyRefs), and  *)
(* a reference the YAML preview leaves unresolved is one to a circuit       *)
(* breaker whose every field was cleared, which assembleResiliency prunes.  *)
ReferencesResolve ==
  /\ \A kind \in TargetKinds, t \in TargetNames, leg \in Legs, field \in PolicyFields :
       LET refs == rcfg.tgt[kind][t].legs[leg] IN
       refs # Unset /\ refs[field] # Unset => rcfg.pol[field][refs[field]] # Unset
  /\ \A kind \in TargetKinds, t \in TargetNames :
       rcfg.tgt[kind][t].scope
         => rcfg.tgt[kind][t].legs["own"]["circuitBreaker"] # Unset
  /\ rstep = 3 => \A ref \in assembleResiliency.refs \ assembleResiliency.policies :
                    ref[1] = "circuitBreaker" /\ rcfg.pol[ref[1]][ref[2]] = "blank"
=============================================================================
