---------------------------- MODULE ComponentBuilder ----------------------------
(***************************************************************************)
(* The component wizard (src/web/src/pages/component-builder): a component *)
(* is chosen from the catalogue, then an authentication profile, then its  *)
(* fields are filled in, and the last step shows the YAML.  Going back and *)
(* choosing another component has to invalidate what was entered for the   *)
(* first.  A value is modelled by the component it was typed for.          *)
(***************************************************************************)
EXTENDS Naturals, FiniteSets

CONSTANTS None,          \* an absent or blank value
          Schemas,       \* the catalogue's components
          CategoryOf,    \* [schema -> its type, the category it is listed in]
          ProfilesOf,    \* [schema -> its authentication profiles]
          Required,      \* [schema or profile -> its required fields]
          Optional,      \* [schema or profile -> its optional fields]
          MaxEntries     \* bound: choices and entries made

VARIABLES cb,       \* the reducer's state
          centries  \* entries so far

cvars == <<cb, centries>>

FieldNames == UNION {Required[x] \cup Optional[x] : x \in DOMAIN Required}
Categories == {CategoryOf[s] : s \in Schemas}

BlankFields == [values |-> [f \in FieldNames |-> None],
                secretName |-> [f \in FieldNames |-> None],
                secretKey |-> [f \in FieldNames |-> None],
                useSecret |-> {}, optionalAdded |-> {}]

initialState ==
  [activeStep |-> 0, category |-> None, schema |-> None, authProfile |-> None,
   name |-> FALSE, namespace |-> TRUE, fields |-> BlankFields]

-----------------------------------------------------------------------------
(* The reducer. *)

(* A variant that forgets to invalidate. *)
SELECT_SCHEMA_KEEPING(schema) ==
  [cb EXCEPT !.category = CategoryOf[schema], !.schema = schema, !.activeStep = 1]

(* The same component again keeps what was entered; another invalidates it. *)
SELECT_SCHEMA(schema) ==
  [cb EXCEPT !.category = CategoryOf[schema], !.schema = schema, !.activeStep = 1,
             !.authProfile = IF schema = cb.schema THEN @ ELSE None,
             !.fields = IF schema = cb.schema THEN @ ELSE BlankFields]

SELECT_CATEGORY(category) ==
  IF cb.schema # None /\ category = CategoryOf[cb.schema]
  THEN [cb EXCEPT !.category = category]
  ELSE [cb EXCEPT !.category = category, !.schema = None, !.authProfile = None,
                  !.fields = BlankFields]

ADD_OPTIONAL(field) == [cb EXCEPT !.fields.optionalAdded = @ \cup {field}]

REMOVE_OPTIONAL(field) ==
  [cb EXCEPT !.fields = [values |-> [@.values EXCEPT ![field] = None],
                         secretName |-> [@.secretName EXCEPT ![field] = None],
                         secretKey |-> [@.secretKey EXCEPT ![field] = None],
                         useSecret |-> @.useSecret \ {field},
                         optionalAdded |-> @.optionalAdded \ {field}]]

(* The fields of the component and of the chosen profile. *)
activeFields(table) == table[cb.schema] \cup
                       (IF cb.authProfile = None THEN {} ELSE table[cb.authProfile])

configureFields == IF cb.schema = None THEN {}
                   ELSE activeFields(Required)
                        \cup (activeFields(Optional) \cap cb.fields.optionalAdded)

fieldSatisfied(f) ==
  IF f \in cb.fields.useSecret
  THEN cb.fields.secretName[f] # None /\ cb.fields.secretKey[f] # None
  ELSE cb.fields.values[f] # None

canContinue ==
  CASE cb.activeStep = 0 -> cb.schema # None
    [] cb.activeStep = 2 -> /\ cb.name /\ cb.namespace
                            /\ \A f \in activeFields(Required) : fieldSatisfied(f)
    [] OTHER -> TRUE

(* The YAML's metadata: each filled field with where its value came from. *)
assembleComponentSpec ==
  [f \in {g \in configureFields : fieldSatisfied(g)} |->
     IF f \in cb.fields.useSecret THEN {cb.fields.secretName[f], cb.fields.secretKey[f]}
     ELSE {cb.fields.values[f]}]

-----------------------------------------------------------------------------
(* The steps. *)

dispatch(state) == cb' = state /\ UNCHANGED centries
Enter(state) == /\ centries < MaxEntries /\ centries' = centries + 1
                /\ cb' = state

(* StepType *)
selectCategory(category) == cb.activeStep = 0 /\ Enter(SELECT_CATEGORY(category))

selectSchema(schema) ==
  /\ cb.activeStep = 0 /\ CategoryOf[schema] = cb.category
  /\ Enter(SELECT_SCHEMA(schema))

(* StepAuth *)
selectProfile(profile) ==
  /\ cb.activeStep = 1 /\ cb.schema # None
  /\ profile \in ProfilesOf[cb.schema] \cup {None} /\ ProfilesOf[cb.schema] # {}
  /\ Enter([cb EXCEPT !.authProfile = profile])

(* StepConfigure *)
setName(valid) == cb.activeStep = 2 /\ Enter([cb EXCEPT !.name = valid])

setNamespace(valid) == cb.activeStep = 2 /\ Enter([cb EXCEPT !.namespace = valid])

setValue(f, value) ==
  /\ cb.activeStep = 2 /\ f \in configureFields /\ f \notin cb.fields.useSecret
  /\ Enter([cb EXCEPT !.fields.values[f] = value])

SecretShown(f) == cb.activeStep = 2 /\ f \in configureFields \cap cb.fields.useSecret

setSecretName(f, name) == SecretShown(f) /\ Enter([cb EXCEPT !.fields.secretName[f] = name])

setSecretKey(f, key) == SecretShown(f) /\ Enter([cb EXCEPT !.fields.secretKey[f] = key])

toggleSecret(f) ==
  /\ cb.activeStep = 2 /\ f \in configureFields
  /\ Enter([cb EXCEPT !.fields.useSecret = IF f \in @ THEN @ \ {f} ELSE @ \cup {f}])

addOptional(f) ==
  /\ cb.activeStep = 2 /\ f \in activeFields(Optional) \ cb.fields.optionalAdded
  /\ Enter(ADD_OPTIONAL(f))

removeOptional(f) ==
  /\ cb.activeStep = 2 /\ f \in activeFields(Optional) \cap cb.fields.optionalAdded
  /\ Enter(REMOVE_OPTIONAL(f))

NEXT == /\ cb.activeStep < 3 /\ canContinue
        /\ dispatch([cb EXCEPT !.activeStep = @ + 1])

BACK == cb.activeStep > 0 /\ dispatch([cb EXCEPT !.activeStep = @ - 1])

-----------------------------------------------------------------------------
CInit == cb = initialState /\ centries = 0

CNext ==
  \/ \E category \in Categories : selectCategory(category)
  \/ \E schema \in Schemas : selectSchema(schema)
  \/ \E profile \in {None} \cup UNION {ProfilesOf[s] : s \in Schemas} : selectProfile(profile)
  \/ \E valid \in BOOLEAN : setName(valid) \/ setNamespace(valid)
  \/ \E f \in FieldNames, value \in {None, cb.schema} : setValue(f, value)
  \/ \E f \in FieldNames, v \in {None, cb.schema} : setSecretName(f, v) \/ setSecretKey(f, v)
  \/ \E f \in FieldNames : toggleSecret(f)
  \/ \E f \in FieldNames : addOptional(f)
  \/ \E f \in FieldNames : removeOptional(f)
  \/ NEXT
  \/ BACK
-----------------------------------------------------------------------------
(* The YAML on the last step belongs to the component chosen: its profile   *)
(* is one of that component's, every field the component and the profile    *)
(* require is there, and each value was entered for that component, however *)
(* often the user went back and chose another (reducer.ts SELECT_SCHEMA     *)
(* and SELECT_CATEGORY invalidate what was entered).                        *)
ConfigBelongs ==
  cb.activeStep = 3 =>
    /\ cb.schema # None
    /\ cb.authProfile \in ProfilesOf[cb.schema] \cup {None}
    /\ activeFields(Required) \subseteq DOMAIN assembleComponentSpec
    /\ \A f \in DOMAIN assembleComponentSpec : assembleComponentSpec[f] = {cb.schema}
=============================================================================
