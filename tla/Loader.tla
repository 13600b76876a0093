------------------------------- MODULE Loader -------------------------------
(***************************************************************************)
(* Loading YAML files with their includes: load_workflow_with_includes.    *)
(* Without includes it is load_workflow_from_str.                          *)
(*                                                                         *)
(*   world   the files, the configuration and the data of the instance     *)
(*   stage   load, loaded, compiled, registered or build; started; failed  *)
(*           or circular                                                   *)
(*   stack   the files being loaded, each with the includes still to come  *)
(*   seen    visited, the canonical paths                                  *)
(*   specs   the workflows collected so far                                *)
(***************************************************************************)
EXTENDS Integers, Sequences, FiniteSets

CONSTANTS
  Worlds,    \* the files and data considered
  Root       \* the file that is loaded

Elements(s) == {s[i] : i \in DOMAIN s}
IsList(s) == s \in Seq(Elements(s))

\* A world without files is one in which a program calls the builder.
ASSUME WorldsAssumption ==
  \A w \in Worlds : w.files # <<>> =>
    /\ Root \in DOMAIN w.files
    /\ \A f \in DOMAIN w.files : IsList(w.files[f].includes) /\ IsList(w.files[f].specs)

VARIABLES world, stage, stack, seen, specs
loader == <<world, stage, stack, seen, specs>>

LoaderInit ==
  /\ world \in Worlds
  /\ stage = IF world.files = <<>> THEN "build" ELSE "load"
  /\ stack = <<>> /\ seen = {} /\ specs = <<>>

File(path) == world.files[path]

\* interpolate: every ((variable)) is configured; then the text parses, and it
\* has one workflow, or a list that is not empty.
interpolate(f) == f.vars \subseteq world.config
resolve_workflow_specs(f) == f.form \in {"workflow", "workflows"} /\ f.specs # <<>>
Readable(f) == interpolate(f) /\ resolve_workflow_specs(f)

Fails(why) == stage' = why /\ UNCHANGED <<world, stack, seen, specs>>

LoadMain ==
  /\ stage = "load" /\ seen = {}
  /\ IF Readable(File(Root))
     THEN /\ seen' = {Root} /\ specs' = File(Root).specs
          /\ stack' = <<File(Root).includes>>
          /\ UNCHANGED <<world, stage>>
     ELSE Fails("failed")

\* The elements of s at the places I, in their order, and the places in new of
\* workflows that old has not.
Kept(s, I) ==
  [k \in 1 .. Cardinality(I) |-> s[CHOOSE i \in I : Cardinality({j \in I : j <= i}) = k]]
Fresh(new, old) == {i \in DOMAIN new : \A j \in DOMAIN old : old[j].id # new[i].id}

\* Slip: the workflows of an included file replace those collected before.
MergeOver(old, new) == Kept(old, Fresh(old, new)) \o new

\* What was collected first stays.
Merge(old, new) == old \o Kept(new, Fresh(new, old))

\* load_includes_recursive, for the next include of the file on top: a file
\* that was visited before, wherever, counts as a circle.
LoadInclude ==
  /\ stage = "load" /\ stack # <<>> /\ Head(stack) # <<>>
  /\ LET path == Head(Head(stack))
     IN  CASE path \notin DOMAIN world.files -> Fails("failed")
           [] path \in DOMAIN world.files /\ path \in seen -> Fails("circular")
           [] path \in DOMAIN world.files /\ path \notin seen /\ ~Readable(File(path)) -> Fails("failed")
           [] OTHER ->
                /\ seen' = seen \cup {path}
                /\ specs' = Merge(specs, File(path).specs)
                /\ stack' = <<File(path).includes, Tail(Head(stack))>> \o Tail(stack)
                /\ UNCHANGED <<world, stage>>

LeaveFile ==
  /\ stage = "load" /\ stack # <<>> /\ Head(stack) = <<>>
  /\ stack' = Tail(stack)
  /\ stage' = IF Tail(stack) = <<>> THEN "loaded" ELSE "load"
  /\ UNCHANGED <<world, seen, specs>>

LoaderStep == LoadMain \/ LoadInclude \/ LeaveFile

\* What comes after loading, or instead of it, leaves the files alone.
Finished == {"loaded", "compiled", "registered", "started"}
Afterwards ==
  /\ \/ stage \in Finished /\ stage' \in Finished \cup {"failed"}
     \/ stage = "build" /\ stage' \in {"build", "started"}
  /\ UNCHANGED <<world, stack, seen, specs>>

LoaderSpec == LoaderInit /\ [][LoaderStep \/ Afterwards]_loader

-----------------------------------------------------------------------------
(* Properties.                                                             *)

\* What is loaded is complete: the files that the root file includes, directly
\* or not, were all read, every workflow of theirs is there, and those of the
\* root file are the root file's own.
Includes(files) == files \cup UNION {Elements(File(f).includes) : f \in files}
FilesComplete ==
  stage \in Finished /\ seen # {} =>
    /\ Root \in seen /\ Includes(seen) = seen
    /\ \A f \in seen : \A i \in DOMAIN File(f).specs :
         /\ \E j \in DOMAIN specs : specs[j].id = File(f).specs[i].id
         /\ f = Root => File(f).specs[i] \in Elements(specs)

=============================================================================
