------------------------------ MODULE ScriptEngine ------------------------------
(***************************************************************************)
(* ScriptEngine of src/src/script_engine.rs: what render_script makes of a *)
(* script, the definitions of its parameters and the values it is given.   *)
(*                                                                         *)
(* A content is a sequence of tokens, each a name that stands for {{name}} *)
(* or a value that stands for text.  A definition holds the set of values  *)
(* that its validation pattern and its type accept; an invalid pattern     *)
(* accepts none.  Empty is the empty value, Blank one of spaces.           *)
(***************************************************************************)
EXTENDS Naturals, Sequences, SequencesExt

CONSTANTS
  Names, Values, Empty, Blank, \* parameter names; values, two of them special
  Bodies, Definitions,         \* contents, and sequences of definitions
  NoDefault                    \* a definition without default_value

Definition == [name : Names, required : BOOLEAN, default : Values \cup {NoDefault},
               pattern : SUBSET Values, type : SUBSET Values]

ASSUME ScriptEngineAssumption ==
  /\ Bodies \subseteq Seq(Names \cup Values) /\ Definitions \subseteq Seq(Definition)
  /\ Empty \in Values

VARIABLE rendering \* a call of render_script: what it was given, its result

Unanswered == [result |-> "none"]

Detected(body) == {body[i] : i \in {j \in DOMAIN body : body[j] \in Names}}
Defined(defs) == {defs[i].name : i \in DOMAIN defs}

MissingDefinitions(body, defs) == Detected(body) \ Defined(defs)
UnusedDefinitions(body, defs) == Defined(defs) \ Detected(body)

(* The pattern is asked about an empty value too, the type is not. *)
Validates(def, value) ==
  /\ def.required => value \notin {Empty, Blank}
  /\ value \in def.pattern
  /\ value = Empty \/ value \in def.type

(* analyze_script reports a default that does not validate, and            *)
(* render_script goes on with it: only missing definitions stop it.        *)
InvalidDefaults(defs) ==
  {i \in DOMAIN defs : defs[i].default # NoDefault /\ ~Validates(defs[i], defs[i].default)}
IsValid(body, defs) == MissingDefinitions(body, defs) = {} /\ InvalidDefaults(defs) = {}

(* Mutant: resolve_parameters validates what it was given, not the default *)
(* it puts in its place.                                                   *)
ResolvesGiven(def, given) == Validates(def, given[def.name])

ValueToUse(def, given) ==
  IF given[def.name] # Empty THEN given[def.name]
  ELSE IF def.default = NoDefault THEN Empty ELSE def.default

Resolves(def, given) ==
  /\ Validates(def, ValueToUse(def, given))
  /\ def.required /\ def.default = NoDefault => given[def.name] # Empty

(* The resolved values go into a map, so the last definition of a name     *)
(* decides, and are put in place in one pass over the content.             *)
Substituted(body, defs, given) ==
  LET Final(n) == defs[Max({k \in DOMAIN defs : defs[k].name = n})] IN
  [i \in DOMAIN body |->
     IF body[i] \in Defined(defs) THEN ValueToUse(Final(body[i]), given) ELSE body[i]]

Rendered(body, defs, given) ==
  IF ~IsValid(body, defs) /\ MissingDefinitions(body, defs) # {}
  THEN [result |-> "template error"]
  ELSE IF \E i \in DOMAIN defs : ~Resolves(defs[i], given)
  THEN [result |-> "invalid"]
  ELSE [result |-> "ok", content |-> Substituted(body, defs, given)]

(* build_execution_command: the content is one argument of the interpreter *)
ExecutionCommand(type, content) ==
  LET Run(program, options) == [program |-> program, args |-> Append(options, content)] IN
  CASE type = "shell" -> Run("sh", <<"-c">>)
    [] type = "powershell" -> Run("pwsh", <<"-NoProfile", "-Command">>)
    [] type = "python" -> Run("python3", <<"-c">>)
    [] type = "lua" -> Run("lua", <<"-e">>)
-----------------------------------------------------------------------------
RenderInit == rendering = Unanswered

RenderScript == \E body \in Bodies, defs \in Definitions, given \in [Names -> Values] :
  LET answer == Rendered(body, defs, given) IN
  /\ rendering = Unanswered
  /\ rendering' = [result |-> answer.result, body |-> body, defs |-> defs, given |-> given,
       command |-> IF answer.result # "ok" THEN << >>
                   ELSE ExecutionCommand("shell", answer.content).args]

RenderReturns == rendering # Unanswered /\ rendering' = Unanswered

RenderNext == RenderScript \/ RenderReturns
-----------------------------------------------------------------------------
ScriptEngineTypeOK ==
  rendering.result \in {"none", "template error", "invalid", "ok"}

(* A script is rendered only when every placeholder in it is defined and   *)
(* has a value, the given one or the default, that its definition allows,  *)
(* the last one if the name is defined twice; then no placeholder is left  *)
(* and what was none is left alone.  A value that is neither given nor     *)
(* required is refused all the same if its pattern refuses the empty one.  *)
RenderedIsComplete == rendering.result = "ok" =>
  LET body == rendering.body
      content == Last(rendering.command)
      AllowedFor(def, value) ==
        /\ value \in Values \cap def.pattern
        /\ \/ value = rendering.given[def.name]
           \/ rendering.given[def.name] = Empty /\ value = def.default
        /\ def.required => value \notin {Empty, Blank}
        /\ value = Empty \/ value \in def.type
  IN
  /\ Len(content) = Len(body)
  /\ \A i \in DOMAIN body :
       IF body[i] \notin Names THEN content[i] = body[i]
       ELSE \E k \in DOMAIN rendering.defs :
              /\ rendering.defs[k].name = body[i]
              /\ \A l \in k+1..Len(rendering.defs) : rendering.defs[l].name # body[i]
              /\ AllowedFor(rendering.defs[k], content[i])
=============================================================================
