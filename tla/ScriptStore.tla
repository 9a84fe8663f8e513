------------------------------ MODULE ScriptStore ------------------------------
(***************************************************************************)
(* ScriptStore of src/src/script_store.rs over the scripts of              *)
(* src/src/scripts.rs: two tables behind one connection and one mutex.     *)
(* Every call holds the mutex for its statements, except toggle_favorite,  *)
(* which lets it go before it reads the script back, and import, which     *)
(* takes it once for each script.  What is between the calls is the        *)
(* caller's copy: get hands out a copy, update writes all of it.           *)
(*                                                                         *)
(* A script is its content, whether it is a favourite, its version and its *)
(* usage count; an execution is counted.                                   *)
(***************************************************************************)
EXTENDS Naturals, Sequences, FiniteSets, FiniteSetsExt

CONSTANTS
  Scripts, Contents, \* ids and contents of scripts
  ScriptClients,     \* threads that call the store
  NoScript,          \* absent from the table; no copy in hand
  MaxScriptOps       \* bound: calls that take the lock

ASSUME ScriptAssumption ==
  /\ NoScript \notin [content : Contents, favorite : BOOLEAN, version : Nat, usage : Nat]
  /\ IsFiniteSet(Scripts)

VARIABLES
  scripts,     \* table scripts
  executions,  \* table script_executions: rows per script
  scriptCopy,  \* client -> the copy in hand: the row it read, the row it made
  scriptStep,  \* client -> what is left of a call with more than one lock
  promised,    \* history: the scripts as the acknowledged calls left them
  overwritten, \* history: scripts written from a copy that was out of date
  scriptOps    \* calls so far

scriptVars == <<scripts, executions, scriptCopy, scriptStep, promised, overwritten,
                scriptOps>>

Idle == [to |-> "idle"]
New(content) == [content |-> content, favorite |-> FALSE, version |-> 1, usage |-> 0]

(* CommandScript::update_content and toggle_favorite, on a copy *)
UpdateContent(row, content) == [row EXCEPT !.content = content, !.version = @ + 1]
ToggleFavorite(row) == [row EXCEPT !.favorite = ~@]

Held == {s \in Scripts : scripts[s] # NoScript}

ScriptInit ==
  /\ scripts = [s \in Scripts |-> NoScript]
  /\ executions = [s \in Scripts |-> 0]
  /\ scriptCopy = [c \in ScriptClients |-> NoScript]
  /\ scriptStep = [c \in ScriptClients |-> Idle]
  /\ promised = scripts /\ overwritten = {}
  /\ scriptOps = 0
-----------------------------------------------------------------------------
Lock(c) ==
  /\ scriptStep[c] = Idle /\ scriptOps < MaxScriptOps
  /\ scriptOps' = scriptOps + 1

(* INSERT; ids are new UUIDs, so there is never a row in the way. *)
Insert(s, row) ==
  /\ s \notin Held
  /\ scripts' = [scripts EXCEPT ![s] = row]
  /\ promised' = [promised EXCEPT ![s] = row]
  /\ overwritten' = overwritten \ {s}
  /\ UNCHANGED executions

Create(c) == \E s \in Scripts, content \in Contents :
  /\ Lock(c) /\ Insert(s, New(content))
  /\ \A d \in ScriptClients : scriptCopy[d] # NoScript => scriptCopy[d].id # s
  /\ scriptCopy' = [scriptCopy EXCEPT
       ![c] = [id |-> s, base |-> New(content), row |-> New(content)]]
  /\ UNCHANGED scriptStep

Get(c) == \E s \in Held :
  /\ scriptStep[c] = Idle
  /\ scriptCopy' = [scriptCopy EXCEPT
       ![c] = [id |-> s, base |-> scripts[s], row |-> scripts[s]]]
  /\ UNCHANGED <<scripts, executions, scriptStep, promised, overwritten, scriptOps>>

Edit(c) ==
  /\ scriptStep[c] = Idle /\ scriptCopy[c] # NoScript
  /\ scriptCopy[c].row = scriptCopy[c].base
  /\ \E row \in {ToggleFavorite(scriptCopy[c].row)} \cup
                {UpdateContent(scriptCopy[c].row, content) : content \in Contents} :
       scriptCopy' = [scriptCopy EXCEPT ![c].row = row]
  /\ UNCHANGED <<scripts, executions, scriptStep, promised, overwritten, scriptOps>>

(* Mutant: update leaves the version to the caller. *)
StoredRowAsIs(row) == row

StoredRow(row) == [row EXCEPT !.version = @ + 1]

(* update writes every column of the copy; NotFound changes nothing. *)
Update(c) ==
  LET s == scriptCopy[c].id
      copy == scriptCopy[c]
  IN
  /\ Lock(c) /\ scriptCopy[c] # NoScript
  /\ IF s \notin Held
     THEN /\ scriptCopy' = [scriptCopy EXCEPT ![c] = NoScript]
          /\ UNCHANGED <<scripts, promised, overwritten>>
     ELSE /\ scripts' = [scripts EXCEPT ![s] = StoredRow(copy.row)]
          /\ promised' = [promised EXCEPT
               ![s] = [copy.row EXCEPT !.usage = promised[s].usage,
                        !.version = promised[s].version + 1 +
                                    (copy.row.version - copy.base.version)]]
          /\ overwritten' = IF copy.base = scripts[s] THEN overwritten
                                                      ELSE overwritten \cup {s}
          /\ scriptCopy' = [scriptCopy EXCEPT
               ![c].base = StoredRow(copy.row), ![c].row = StoredRow(copy.row)]
  /\ UNCHANGED <<executions, scriptStep>>

(* DELETE; the foreign key of the executions cascades. *)
Removed(ss) ==
  /\ scripts' = [s \in Scripts |-> IF s \in ss THEN NoScript ELSE scripts[s]]
  /\ executions' = [s \in Scripts |-> IF s \in ss THEN 0 ELSE executions[s]]
  /\ promised' = [s \in Scripts |-> IF s \in ss THEN NoScript ELSE promised[s]]

Delete(c) == \E s \in Scripts :
  Lock(c) /\ Removed({s}) /\ UNCHANGED <<scriptCopy, scriptStep, overwritten>>

(* bulk_delete: a statement that fails ends it with an error, and what was *)
(* deleted before stays deleted.                                           *)
BulkDelete(c) == \E ids \in SUBSET Scripts, gone \in SUBSET Scripts :
  /\ Cardinality(ids) > 1 /\ gone \subseteq ids
  /\ Lock(c)
  /\ Removed(gone) /\ UNCHANGED <<scriptCopy, scriptStep, overwritten>>

(* UPDATE ... SET usage_count = usage_count + 1: unknown ids are accepted. *)
IncrementUsage(c) == \E s \in Scripts :
  /\ Lock(c)
  /\ IF s \in Held
     THEN /\ scripts' = [scripts EXCEPT ![s].usage = @ + 1]
          /\ promised' = [promised EXCEPT ![s].usage = @ + 1]
     ELSE UNCHANGED <<scripts, promised>>
  /\ UNCHANGED <<executions, scriptCopy, scriptStep, overwritten>>

(* toggle_favorite: UPDATE under the lock, then get under it again *)
Toggle(c) == \E s \in Scripts :
  /\ Lock(c)
  /\ IF s \in Held
     THEN /\ scripts' = [scripts EXCEPT ![s] = ToggleFavorite(@)]
          /\ promised' = [promised EXCEPT ![s] = ToggleFavorite(@)]
     ELSE UNCHANGED <<scripts, promised>>
  /\ scriptStep' = [scriptStep EXCEPT ![c] = [to |-> "get", id |-> s]]
  /\ UNCHANGED <<executions, scriptCopy, overwritten>>

Toggled(c) ==
  LET s == scriptStep[c].id IN
  /\ scriptStep[c].to = "get"
  /\ scriptCopy' = [scriptCopy EXCEPT
       ![c] = IF s \in Held THEN [id |-> s, base |-> scripts[s], row |-> scripts[s]]
              ELSE @]
  /\ scriptStep' = [scriptStep EXCEPT ![c] = Idle]
  /\ UNCHANGED <<scripts, executions, promised, overwritten, scriptOps>>

SaveExecution(c) == \E s \in Scripts :
  /\ Lock(c)
  /\ executions' = IF s \in Held THEN [executions EXCEPT ![s] = @ + 1] ELSE executions
  /\ UNCHANGED <<scripts, scriptCopy, scriptStep, promised, overwritten>>

(* export lists the scripts; import creates them anew, one lock each, and  *)
(* stops at the first that fails.                                          *)
Import(c) ==
  /\ Held # {} /\ Lock(c)
  /\ scriptStep' = [scriptStep EXCEPT ![c] =
       [to |-> "import", rest |-> {scripts[s] : s \in Held}]]
  /\ UNCHANGED <<scripts, executions, scriptCopy, promised, overwritten>>

ImportNext(c) ==
  /\ scriptStep[c].to = "import"
  /\ \/ \E row \in scriptStep[c].rest, s \in Scripts :
          /\ Insert(s, [row EXCEPT !.version = 1, !.usage = 0])
          /\ \A d \in ScriptClients : scriptCopy[d] # NoScript => scriptCopy[d].id # s
          /\ scriptStep' = [scriptStep EXCEPT ![c].rest = @ \ {row}]
     \/ /\ scriptStep' = [scriptStep EXCEPT ![c] = Idle]
        /\ UNCHANGED <<scripts, executions, promised, overwritten>>
  /\ UNCHANGED <<scriptCopy, scriptOps>>

ScriptNext == \E c \in ScriptClients :
  \/ Create(c) \/ Get(c) \/ Edit(c) \/ Update(c) \/ Delete(c) \/ BulkDelete(c)
  \/ IncrementUsage(c) \/ Toggle(c) \/ Toggled(c) \/ SaveExecution(c)
  \/ Import(c) \/ ImportNext(c)
-----------------------------------------------------------------------------
(* What readers get: list and search choose from the rows, get_executions
   those of one script, stats counts them. *)
ListScripts(favoritesOnly) == {s \in Held : favoritesOnly => scripts[s].favorite}
MostUsed == {s \in Held : \A t \in Held : scripts[t].usage <= scripts[s].usage}
ScriptStats ==
  [total |-> Cardinality(Held), favorites |-> Cardinality(ListScripts(TRUE)),
   executions |-> FoldSet(LAMBDA s, n : executions[s] + n, 0, Scripts)]

ScriptStoreTypeOK ==
  /\ \A s \in Held : /\ scripts[s].content \in Contents /\ scripts[s].favorite \in BOOLEAN
                     /\ scripts[s].version \in Nat \ {0} /\ scripts[s].usage \in Nat
  /\ executions \in [Scripts -> Nat] /\ \A s \in Scripts \ Held : executions[s] = 0
  /\ ScriptStats.favorites <= ScriptStats.total

(* Every acknowledged change of a script stays: its uses, whether it is a  *)
(* favourite, its content and a version that counts its updates, whatever  *)
(* other callers do, unless update was given a copy that was out of date.  *)
ChangesSurvive ==
  \A s \in Scripts \ overwritten : scripts[s] = promised[s]
=============================================================================
