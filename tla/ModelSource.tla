----------------------------- MODULE ModelSource -----------------------------
(***************************************************************************)
(* The moderator's list of model selectors: the file models.json, the      *)
(* programs that replace it (moderator/src/model-select.ts, cli.ts and     *)
(* tui.ts) and the plugin that reads it once, when it starts (server.ts).  *)
(*                                                                         *)
(* A selector is a model value.  A write is one rename, so a reader sees   *)
(* the list before or after it; replaceTopModel reads the file first and   *)
(* writes it afterwards, and others may write in between.  The command     *)
(* line accepts what the config file names; the picker offers what the     *)
(* running OpenCode exposes.  The installer (scripts/install-moderator)    *)
(* puts a template where there is no file, after a look at its shape.      *)
(***************************************************************************)
EXTENDS Integers, SequencesExt

CONSTANTS
  Selector,    \* every selector a user may name
  Configured,  \* those in the provider block of OpenCode's config
  Exposed,     \* those in the state of the running OpenCode
  Picker,      \* TUI instances
  Template,    \* models.template.json
  Missing,
  MaxWrites,   \* bound on commands
  MaxLength    \* bound on the lists a user types

VARIABLES
  file,     \* the list in models.json, or Missing when it is missing
  picking,  \* what each picker has read, with the selector picked; or Missing
  loaded,   \* the list the running plugin was created with, or Missing
  writes    \* commands so far

sourceVars == <<file, picking, loaded, writes>>

ASSUME SourceAssumption ==
  /\ Configured \subseteq Selector /\ Exposed \subseteq Selector
  /\ Missing \notin Selector
  /\ MaxWrites \in Nat /\ MaxLength \in Nat
  /\ Template \in Seq(Selector) /\ Template # <<>> /\ IsInjective(Template)

Typed == UNION {[1..n -> Selector] : n \in 1..MaxLength}

SourceInit ==
  /\ file = Missing
  /\ picking = [p \in Picker |-> Missing]
  /\ loaded = Missing
  /\ writes = 0

\* A list that is not empty and names no selector twice: what is typed, read
\* and written is held to the same rule.
distinct(models) == models # <<>> /\ IsInjective(models)
parseSelectorList(models) == distinct(models)
parseModels(models) == distinct(models)

\* Mutation: the list is written as it comes.
writeUnchecked(models) == models # <<>>

writeModels(models) == distinct(models)
validateAgainstConfig(models) == ToSet(models) \subseteq Configured

\* seed_models: whether the config names the template's models is not asked.
SeedModels ==
  /\ file' = IF file = Missing THEN Template ELSE file
  /\ UNCHANGED <<picking, loaded, writes>>

\* models set: a list that fails a check leaves the file alone.
ModelsSet(models) ==
  /\ writes < MaxWrites
  /\ writes' = writes + 1
  /\ file' = IF parseSelectorList(models) /\ validateAgainstConfig(models) /\ writeModels(models)
             THEN models ELSE file
  /\ UNCHANGED <<picking, loaded>>

readModels == file # Missing /\ parseModels(file)

\* The picker opens only over a readable list; what it picks is put in front of
\* the rest of the list it reads then.
PickReads(p, selector) ==
  /\ writes < MaxWrites
  /\ writes' = writes + 1
  /\ picking[p] = Missing
  /\ readModels
  /\ picking' = [picking EXCEPT ![p] = [top |-> selector, models |-> file]]
  /\ UNCHANGED <<file, loaded>>

\* A list that names the picked selector further down is refused.
replaceTopModel(p) ==
  /\ picking[p] # Missing
  /\ LET next == <<picking[p].top>> \o Tail(picking[p].models)
     IN file' = IF writeModels(next) THEN next ELSE file
  /\ picking' = [picking EXCEPT ![p] = Missing]
  /\ UNCHANGED <<loaded, writes>>

\* The moderator starts, or its start fails without a list.
PluginStarts ==
  /\ readModels
  /\ loaded' = file
  /\ UNCHANGED <<file, picking, writes>>

SourceNext ==
  \/ SeedModels
  \/ \E models \in Typed : ModelsSet(models)
  \/ \E p \in Picker, s \in Exposed : PickReads(p, s)
  \/ \E p \in Picker : replaceTopModel(p)
  \/ PluginStarts

SourceSpec == SourceInit /\ [][SourceNext]_sourceVars

-----------------------------------------------------------------------------

\* However the installer, commands and pickers interleave, models.json is a list
\* the plugin will take, and the fallbacks in it - all but the top - have passed
\* the check against the config, or are the template's, which nobody checks
\* (model-select.ts writeModels, replaceTopModel): a pick never moves an
\* unchecked selector down, nor doubles one, nor mixes the two.
FileUsable ==
  file # Missing =>
    /\ file # <<>> /\ IsInjective(file)
    /\ \/ ToSet(Tail(file)) \subseteq Configured
       \/ Tail(file) = Tail(Template)
=============================================================================
