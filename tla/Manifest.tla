------------------------------ MODULE Manifest ------------------------------
(***************************************************************************)
(* Patching a workload's manifest (internal/gitops/manifest.go): a change  *)
(* set is applied to the Deployment's YAML by editing lines, the patched   *)
(* file is read back, and the values it replaced are what a rollback       *)
(* patches in later (previousValues in generator.go).                      *)
(*                                                                         *)
(* A file is a sequence of lines.  A line is indented and is a blank, a    *)
(* comment, a document separator, text, or an entry: a key followed by     *)
(* nothing, a plain or quoted scalar, the head of a block scalar or a flow *)
(* collection.  What it means depends on the lines above it.  The pod      *)
(* template is shortened: the list spec.template.spec.containers is a      *)
(* mapping spec.containers from a container's name to its keys.            *)
(***************************************************************************)
EXTENDS Integers, Sequences, FiniteSets, FiniteSetsExt, SequencesExt

CONSTANTS
  Manifests,   \* the files a human may have written
  ChangeSets,  \* the changes that may be proposed
  None         \* no value

VARIABLES
  file,      \* the file on the base branch
  original,  \* the file before the last change, None before the first
  change,    \* that change set
  previous   \* the previous values its PR records, None where it records none

vars == <<file, original, change, previous>>

Fields == {"cpu", "memory", "replicas"}

Entry(indent, key, style, value) ==
  [indent |-> indent, kind |-> "entry", key |-> key, style |-> style, value |-> value]

IsFile(f) ==
  /\ f \in Seq(Range(f))
  /\ \A i \in DOMAIN f :
       /\ f[i].indent \in Nat
       /\ f[i].kind = "entry" => f[i] = Entry(f[i].indent, f[i].key, f[i].style, f[i].value)

ASSUME ManifestsAreFiles == \A f \in Manifests : IsFile(f)

-----------------------------------------------------------------------------
(* What a YAML decoder reads from a file. *)

(* Whether a line goes on with the scalar that a line above it begins. *)
Continues(head, line) ==
  \/ head.style = "block" /\ line.kind = "blank"
  \/ /\ head.style = "block"
     /\ line.kind # "separator" /\ line.indent > head.indent
  \/ /\ head.style \in {"plain", "quoted"}
     /\ line.kind = "text" /\ line.indent > head.indent

Body(f, i) == {j \in i + 1 .. Len(f) : \A k \in i + 1 .. j : Continues(f[i], f[k])}

Heads(f) == {i \in DOMAIN f : f[i].kind = "entry"}

InScalars(f) == UNION {Body(f, i) : i \in Heads(f)}

(* Entries that are keys of a mapping and not part of a scalar. *)
Keys(f) == Heads(f) \ UNION {Body(f, i) : i \in Heads(f)}

Doc(f, i) == Cardinality({j \in 1..i : f[j].kind = "separator"})

(* The keys an entry is nested in, and itself: no later key up to it is
   indented as little. *)
Nesting(f, keys, i) ==
  {j \in keys : /\ j <= i /\ Doc(f, j) = Doc(f, i)
                /\ \A k \in keys : j < k /\ k <= i => f[k].indent > f[j].indent}

(* The nodes: the line that begins each, and its path, which starts with the
   number of the document. *)
Tree(f) ==
  LET keys == Keys(f)
      path(i) == LET above == Nesting(f, keys, i) IN
                 <<Doc(f, i)>> \o
                   [n \in 1 .. Cardinality(above) |->
                      f[CHOOSE j \in above : Cardinality(above \cap 1..j) = n].key]
  IN {[line |-> i, path |-> path(i)] : i \in keys}

(* The lines that begin what is at a path: one at most in a well-formed file. *)
Found(tree, path) == {x.line : x \in {y \in tree : y.path = path}}

Line(tree, path) == CHOOSE i \in Found(tree, path) : TRUE

Subtree(tree, path) == {x \in tree : IsPrefix(path, x.path)}

Children(tree, path) == {x \in Subtree(tree, path) : Len(x.path) = Len(path) + 1}

IsLeaf(tree, path) == Children(tree, path) = {}

WellFormed(f) ==
  LET tree == Tree(f) IN
  /\ \A i \in DOMAIN f :
       f[i].kind = "text" => \E x \in tree : i \in Body(f, x.line)
  /\ \A x \in tree :
       /\ Found(tree, x.path) = {x.line}
       /\ Len(x.path) = 2 => f[x.line].indent = 0
       /\ ~IsLeaf(tree, x.path) => f[x.line].style = "nothing"
       /\ \A y, z \in Children(tree, x.path) : f[y.line].indent = f[z.line].indent

(* No block scalar has a blank and behind it what would read as a comment or an
   entry if the scalar ended at the blank. *)
Unparted(f) ==
  \A i \in Keys(f) : f[i].style = "block" =>
    \A j, k \in Body(f, i) :
      j < k /\ f[j].kind = "blank" => f[k].kind \in {"blank", "text"}

(* A scalar's text; blanks at the end of a block scalar are not part of it. *)
Scalar(f, i) ==
  LET filled == {j \in Body(f, i) : f[j].kind # "blank"}
  IN <<f[i].value>> \o SubSeq(f, i + 1, IF filled = {} THEN i ELSE Max(filled))

(* Everything a file says: what stands at the ends of its paths. *)
Reading(f) ==
  LET tree == Tree(f)
  IN {<<x.path, Scalar(f, x.line)>> : x \in {y \in tree : IsLeaf(tree, y.path)}}

-----------------------------------------------------------------------------
(* locateDeployment.  The documents of all files are documents of one file
   here; "object" stands for kind and name, or kind and scale target. *)

Objects(f, object) ==
  LET tree == Tree(f)
  IN {doc \in 0..Len(f) :
        \E i \in Found(tree, <<doc, "object">>) : f[i].value = object}

(* None if there is not exactly one. *)
LocateDeployment(f) ==
  LET docs == Objects(f, "deployment")
  IN IF Cardinality(docs) = 1 THEN CHOOSE doc \in docs : TRUE ELSE None

Autoscaled(f) == Objects(f, "autoscaler") # {}

Containers(tree, doc) == Children(tree, <<doc, "spec", "containers">>)

(* The path of a field. *)
FieldPath(tree, doc, field) ==
  IF field = "replicas" THEN <<doc, "spec", "replicas">>
  ELSE LET container == CHOOSE x \in Containers(tree, doc) : TRUE
       IN container.path \o <<"resources", "requests", field>>

(* What a field is read back as. *)
Value(f, doc, field) ==
  LET tree == Tree(f)
      path == FieldPath(tree, doc, field)
  IN IF Found(tree, path) = {} THEN None ELSE Scalar(f, Line(tree, path))

-----------------------------------------------------------------------------
(* Edits of lines. *)

(* Whether insertKeys accepts what is at a path as the parent of new keys. *)
BlockMapping(f, tree, path) ==
  f[Line(tree, path)].style = "nothing" /\ ~IsLeaf(tree, path)

(* Mutant: right below the last node, into the middle of a scalar. *)
InsertionLineAtNode(f, tree, path, indent) ==
  Max({x.line : x \in Subtree(tree, path)})

(* The line after which keys are added to a mapping: the last one that begins a
   node of it, and those below that look like its continuation. *)
InsertionLine(f, tree, path, indent) ==
  LET last == Max({x.line : x \in Subtree(tree, path)})
      goesOn(j) == f[j].kind \notin {"blank", "separator"} /\ f[j].indent > indent
  IN Max({j \in last .. Len(f) : \A k \in last + 1 .. j : goesOn(k)})

InsertKeys(f, tree, path, keys, value, style) ==
  LET indent == f[Min({x.line : x \in Children(tree, path)})].indent
      at == InsertionLine(f, tree, path, indent)
      added == [n \in DOMAIN keys |->
                  LET column == indent + 2 * (n - 1) IN
                  IF n < Len(keys) THEN Entry(column, keys[n], "nothing", None)
                  ELSE Entry(column, keys[n], style, value)]
  IN SubSeq(f, 1, at) \o added \o SubSeq(f, at + 1, Len(f))

(* Mutant: compares what is written, quotes included. *)
SaysPlainly(f, i, value) == f[i].style = "plain" /\ Scalar(f, i) = <<value>>

Says(f, i, value) == Scalar(f, i) = <<value>>

(* Only a scalar on one line is replaced. *)
Replaceable(f, i) == f[i].style \in {"plain", "quoted"} /\ Body(f, i) = {}

(* Mutant: a replaced scalar loses its quotes. *)
ReplaceUnquoted(f, i, value) == [f EXCEPT ![i].value = value, ![i].style = "plain"]

(* The quotes stay as they are. *)
ReplaceScalar(f, i, value) == [f EXCEPT ![i].value = value]

-----------------------------------------------------------------------------
(* patchWorkload. *)

Untouched(f) == [ok |-> TRUE, lines |-> f, edits |-> <<>>, skipped |-> {}]

Error == [ok |-> FALSE, lines |-> <<>>, edits |-> <<>>, skipped |-> {}]

(* An edit records the value that was there, None if the key is new. *)
Edited(res, lines, field, old, new) ==
  [res EXCEPT !.lines = lines,
              !.edits = Append(@, [field |-> field, old |-> old, new |-> new])]

(* set, if the field is there: its scalar is replaced unless it says so already. *)
SetScalar(res, i, field, value) ==
  LET f == res.lines
  IN CASE Says(f, i, value) -> res
       [] ~Says(f, i, value) /\ ~Replaceable(f, i) -> Error
       [] ~Says(f, i, value) /\ Replaceable(f, i) ->
            Edited(res, ReplaceScalar(f, i, value), field, f[i].value, value)

(* set, if the field is not there: goes down its path as far as it exists. *)
SetMissing(res, tree, path, field, value) ==
  LET f == res.lines
      exist == {n \in 2 .. Len(path) - 1 : Found(tree, SubSeq(path, 1, n)) # {}}
      parent == SubSeq(path, 1, Max(exist))
      missing == SubSeq(path, Max(exist) + 1, Len(path))
      style == IF field = "replicas" THEN "plain" ELSE "quoted"
  IN IF exist = {} \/ ~BlockMapping(f, tree, parent) THEN Error
     ELSE Edited(res, InsertKeys(f, tree, parent, missing, value, style),
                 field, None, value)

SetField(res, doc, field, value) ==
  LET tree == Tree(res.lines)
      path == FieldPath(tree, doc, field)
  IN IF Found(tree, path) # {} THEN SetScalar(res, Line(tree, path), field, value)
     ELSE SetMissing(res, tree, path, field, value)

(* Replicas belong to the autoscaler if there is one; a request is the total of
   a pod and can be given to its only container. *)
Skips(f, doc, field) ==
  IF field = "replicas" THEN Autoscaled(f)
  ELSE Cardinality(Containers(Tree(f), doc)) # 1

PatchField(res, doc, field, value) ==
  CASE ~res.ok \/ value = None -> res
    [] res.ok /\ value # None /\ field # "replicas"
         /\ Containers(Tree(res.lines), doc) = {} -> Error
    [] OTHER -> IF Skips(res.lines, doc, field)
                THEN [res EXCEPT !.skipped = @ \union {field}]
                ELSE SetField(res, doc, field, value)

VerifyPatch(res, doc) ==
  /\ WellFormed(res.lines)
  /\ \A e \in Range(res.edits) : Value(res.lines, doc, e.field) = <<e.new>>

Verified(res, doc) == IF res.edits # <<>> /\ ~VerifyPatch(res, doc) THEN Error ELSE res

PatchWorkload(f, cs) ==
  LET doc == LocateDeployment(f)
      patch(res, field) == PatchField(res, doc, field, cs[field])
  IN IF doc = None THEN Error
     ELSE Verified(patch(patch(patch(Untouched(f), "cpu"), "memory"), "replicas"), doc)

(* The change set that undoes the edits; None if one of them added a key. *)
PreviousValues(edits) ==
  IF edits = <<>> \/ \E e \in Range(edits) : e.old = None THEN None
  ELSE [field \in Fields |->
          IF \E e \in Range(edits) : e.field = field
          THEN (CHOOSE e \in Range(edits) : e.field = field).old ELSE None]

-----------------------------------------------------------------------------
Init ==
  /\ file \in Manifests
  /\ original = None
  /\ change = None
  /\ previous = None

(* A PR with the patched file is merged; one without edits is not opened. *)
Merge(cs, patch) ==
  /\ patch.ok /\ patch.edits # <<>>
  /\ file' = patch.lines
  /\ original' = file
  /\ change' = cs

Propose(cs) ==
  LET patch == PatchWorkload(file, cs)
  IN Merge(cs, patch) /\ previous' = PreviousValues(patch.edits)

(* A rollback's PR does not record previous values. *)
Rollback ==
  /\ previous # None
  /\ Merge(previous, PatchWorkload(file, previous))
  /\ previous' = None

Next == Rollback \/ \E cs \in ChangeSets : Propose(cs)

Spec == Init /\ [][Next]_vars

-----------------------------------------------------------------------------
(* Properties. *)

Changed == original # None

(* What a change set may touch of a file. *)
MayTouch(f, doc, cs) ==
  {FieldPath(Tree(f), doc, field) :
     field \in {x \in Fields : cs[x] # None /\ ~Skips(f, doc, x)}}

Others(f, touched) == {r \in Reading(f) : r[1] \notin touched}

(* The comments, in their order. *)
Remarks(f) ==
  LET scalars == UNION {Body(f, i) : i \in Heads(f)}
      remarks == {i \in DOMAIN f \ scalars : f[i].kind = "comment"}
  IN [n \in 1 .. Cardinality(remarks) |-> f[Min({i \in remarks : Cardinality(remarks \cap 1..i) = n})]]

(* Whatever a patch does to lines, every other value of every document reads as
   before, scripts in block scalars and skipped fields included, and no comment
   is lost: verifyPatch looks at the edited fields only. *)
NothingElseChanges ==
  Changed =>
    LET touched == MayTouch(original, LocateDeployment(original), change)
    IN /\ Others(file, touched) = Others(original, touched)
       /\ Remarks(file) = Remarks(original)

(* "The values being replaced, so a failed change can be rolled back exactly"
   (prBody): if a PR records previous values, patching them in gives back the
   file from before, line by line, with its quotes. *)
RollbackRestoresTheFile ==
  previous # None =>
    LET patch == PatchWorkload(file, previous)
    IN patch.ok /\ patch.lines = original

(* A change that was merged is not found to be a change again, by any of its
   fields: the generator opens no PR for what is there already. *)
PatchTwiceIsOnce ==
  Changed =>
    LET patch == PatchWorkload(file, change)
    IN /\ patch.ok /\ patch.edits = <<>>
       /\ \A field \in Fields :
            \/ change[field] = None \/ field \in patch.skipped
            \/ Value(file, LocateDeployment(file), field) = <<change[field]>>
=============================================================================
