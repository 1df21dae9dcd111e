# A verification of the hh grammar compiler

hh reads a grammar, a set of files of named regular expressions, and generates
a C++ recognizer for the expressions marked `export`. This directory holds TLA+
models of the parts of the program where the result depends on an order of
steps, on several data structures being changed together, or on one function
relying on what another one left behind; TLC configurations that check them on
small instances; and TLAPS proofs for the minimization algorithm, determinization,
the topological sort, the loader, the layout of the exported automata, and the
common ancestors that decide which actions an edge runs. Paths below are relative to `src/src/` of the repository.

Throughout, a statement of the grammar is `name = expression`. In an expression
`name` embeds the other statement's automaton, `!name` collapses it (the
automaton is linked in by epsilons, recursion is possible), and `&name` calls
it (the generated machine pushes a return state).

## 1. Inventory

hh is a single-threaded batch program. Nothing is persisted and nothing runs
concurrently, so there is no crash recovery and no interleaving of threads. What
is hard is different: containers that are read by one loop and changed by a
nested call, results that must not depend on the order of hash maps and inodes,
worklists whose entries go stale, indices that are renumbered four times between
the parser and the generator, and recursion through circular imports and
references.

| Component | State it keeps | Operations | Uses / is used by |
|---|---|---|---|
| loader (`loader.cc`) | `inode2module` with status and name tables of each module, `depended_by`, `used_as_call/collapse/embed`, `define_stmt` in the syntax tree, `n_errors` | `load`, `load_module`, visitors `ModuleImportDef` and `ModuleUse`, `resolve`, `resolve_action`, `topo_define_stmts` | calls the parser, `compile`, `compile_export`, the generators |
| expression compiler (`compiler.cc` 115-298, `fsa_anno.cc`) | `compiled`; per call a stack of `FsaAnno` = automaton, flag `deterministic`, `assoc` of each state; global counters of labels | one `visit` per kind of expression, one `FsaAnno` method each, `add_assoc`, `compile` | uses `Fsa`; runs in topological order, because `embed` copies from `compiled` |
| automata (`fsa.cc`) | `start`, `finals`, sorted interval edges `adj` | `determinize`, `hopcroft_minimize`, `intersect`, `difference`, `operator~`, `check`, `has*`, `accessible`, `co_accessible` | called by `FsaAnno` and `compile_export`, which pass callbacks `relate` that follow the renumbering |
| export (`compiler.cc` 533-821) | `stmt2offset`, `starts`, `stmt2start`, `start2stmt`, `sub_final`, `call_addr` | `compile_export`: `allocate`, determinize, minimize, call addresses, removal of labels | changes `compiled[stmt]` in place; read by the generators |
| code generation (`compiler.cc` 300-506, 823-1026) | output file | `generate_transitions`, `generate_cxx`, `generate_graphviz`, `find_within`, `find_lca` | reads `compiled`, `assoc`, `call_addr` |
| parser, lexer, syntax tree | statement lists | generated by bison and flex | called by `load_module` |
| helpers | - | `DisjointIntervals`, `sorted_emplace`, locations, options, `main` | everywhere |

What makes each of them correct:

- **Loader.** Every file reached from the main one is loaded and visited exactly
  once, whatever its inode; `load` fails exactly if the text is faulty; every use
  is bound to the one definition it can mean, and recorded where the later phases
  look for it. A circular embedding is reported exactly if there is one, and
  otherwise `compile` never reads an automaton that is not there yet.
- **Expression compiler.** The automaton denotes what the expression does; the
  associations of states stay with their states, and the labels for actions and
  references stay where the associations say; `deterministic` is never wrong.
- **Automata.** `determinize` is the subset construction on intervals, and builds
  the closures of the further starts; `hopcroft_minimize` returns the coarsest
  stable partition, and ends, doing the smaller half each time.
- **Export.** The automata referred to are laid out once each, disjointly; each
  collapse edge becomes the epsilons of that reference and nothing else is
  changed; starts and final states of called statements are known afterwards.
- **Code generation.** The generated machine with its return stack recognizes
  the language of the grammar, and runs the actions of the states passed.

The hazards, each at its line and with the properties that cover it, are listed
in `PROJECT.json`.

## 2. Modules

| Module | Models | Kind |
|---|---|---|
| `Automaton` | automata and partitions | definitions |
| `PartitionRefinement` | what `hopcroft_minimize` promises: a partition refined by cuts until it is stable | abstract specification |
| `Hopcroft` | `Fsa::hopcroft_minimize`, 466-707 | detailed specification, refines the former |
| `HopcroftWork` | `Hopcroft` with a history variable for the work done | extension |
| `Determinize` | `Fsa::determinize`, `epsilon_closure` | specification |
| `TopoSort` | `topo_define_stmts` and the compile loop of `load` | specification |
| `Loader` | `load` up to the topological sort | specification |
| `Common` | `sorted_emplace`, `DisjointIntervals` | operators |
| `FsaOps` | `intersect`, `difference`, `operator~`, `check`; results of `determinize` and `hopcroft_minimize` | operators |
| `Builder` | `Compiler`, `FsaAnno`, `compile` | specification over `FsaOps` |
| `Export` | the lambda `allocate` of `compile_export` | specification |
| `CompileExport` | the rest of `compile_export`, and the loop over the exported statements | extends `Export`, over `FsaOps` |
| `Machine` | the program `generate_cxx` writes, on the tables of `CompileExport` | extends `CompileExport` |
| `Within` | `pre_expr`, `find_lca`, `find_within`, the actions of an edge | specification |
| `MC...` | inputs for TLC | model checking |
| `LeastLemmas` | least elements, cardinalities | lemmas |
| `PartitionRefinementProofs`, `HopcroftProofs`, `DeterminizeProofs`, `TopoSortProofs`, `LoaderProofs`, `ExportProofs`, `WithinProofs` | - | proofs about the module named |

How states and actions correspond to the code:

**Hopcroft.** `B`, `refines`, `mark`, `CC`, `bs` are the variables of the code.
The rings `L`, `R` and sizes `C` hold the same information as `B` (the ring of
leader f is the set of states whose leader is f) and are represented by it. A
letter is an elementary interval `[scale[j], scale[j+1])`. `start` is any state; the automata
`compile` makes start at 0, those the tests read start anywhere. `Pick` takes a
splitter and marks its predecessors (the loop up to 584), `SplitBlock` is one
iteration of the loop over `bs` with the split, the renaming of the leader and the new
splitters (586-640), `Cleanup` is 642-655, `Build` the construction of the
result. The set `refines` is emptied in any order, so the results hold for the
order the code has.

**TopoSort.** The recursive lambda `dfs` has its calls on `frames`; the second
stack `st` the code keeps by hand is a variable of its own, because the two get
out of step (see the findings). `depended_by` is an unordered map: the roots come
in any order. `Compile` is one round of the loop that calls `compile`.

**Loader.** A file is the list of statements the parser makes of it. `Enter`,
`Skip`, `Leave` are the loop over `inode2module` with its iterator `it`; `Def`,
`DefMacro`, `DefAction`, `Import` are `ModuleImportDef` on a statement. `UseExpr` is
`ModuleUse` on one expression that names a definition or action, `UseDone` goes on to the
next statement: the uses of a statement are visited one by one, at `at`. `EndImports` and `EndUses` are the ends of the loops with their error
exits, `CheckSolely` is the merge of 515-578.

**Builder.** An action is the visit of one expression, after its operands were
visited: a behaviour is a grammar of up to two statements in postfix order. Each
`...Of` operator is one method of `FsaAnno`; `Leave` is the end of
`Compiler::visit`, with the assertion of `Fsa::check`. What a step computes on
automata is in `FsaOps`: `intersect`, `difference` and `operator~` as the
pair worklists and interval sweeps of the code, `determinize` and
`hopcroft_minimize` as what `Determinize` and `Hopcroft` show them to return; for
`determinize` the run `determinize` compares the two, numbers included
(`ResultInFsaOps`). The words
an expression denotes and the owner of each label are recorded beside the
program's state for the properties. An operand the code moves out of the stack
(it leaves the empty shell there and only ever looks at the top) disappears.

**Determinize.** `AddStart` builds the closure of one further start, `Pop` takes a subset
from the stack and collects its events, `Event` is one round of the sweep, `Swept` the end of
it. The sorted vector of events is a set from which `Event` takes a least one: events that
compare equal are taken in any order, which is what sorting leaves open.

**Export.** The recursive calls of `allocate` are on `frames`, with the state k,
the index j into `adj[i]` and the reference at hand, as they are local variables
that survive the nested calls. `Visit` is a call of `allocate`, `LinkStart` and
`LinkEnd` what is done after it has returned, `TakeRef` a round of the loop over the
collapse edges from the end, `NextState` the `resize(j)`. `assoc` is ordered by
address, so the references of a state come in any order. `load` fills `used_as_call` from the
syntax, while the model's automata have the associations that `compile` left: it is any set with the
statements that these still call, as `complement` and `intersect` drop calls, and other
statements may call as well.

**CompileExport.** `Lay` is a step of `allocate`. `Determinize` to `RemoveLabels` are
the parts of `compile_export` in the order of the code: `FollowStarts` and `Minimize`
carry `stmt2start`, `start2stmt` and `sub_final` through the two renumberings,
`FollowFails` and `CallsFail` are the two error exits, `CallAddrs` fills in
`call_addr`. `start2stmt` is rebuilt in the order of an unordered map, so of two
statements with the same start any may stay. The exports run one after the
other on the same `compiled`. `given` (the automata as `compile` left them) and
`merged` are history for the properties. `has_call` reads the counter `call_label`, which is any
number above the labels of the calls left.

**Machine.** `Read` is a round of the loop of the generated `main`; `Call`, `Move`,
`PopReturn`, `Reject` are the rounds of the loop `again` of `hh_X_transit`; `IsFinal`
is `hh_X_is_final`. Beside the program's state, `derived` and `reached` have the
words that the automata in `given` define, computed without any table of
`compile_export`. `derived` is the language of the grammar, where a call or a
collapse stands for the words of its statement. `reached` is the larger language
of the automaton with epsilons into a collapsed statement and from its end to
the end of *any* collapse of it, which is what linking by epsilons can keep: a
collapse that is not in tail position returns to the wrong place as well. The machine is
shown to accept no more than `reached` and no less than `derived`.

**Within.** A behaviour compiles some statements (`PreExpr`, `PostExpr` are
`Compiler::visit`), then `Generate` picks any associations of two states with their
expressions, and `Bring` is a round of the loop of `find_within`. `Run` is the
four loops of `generate_transitions` over the two results.

## 3. What the runs check

| Run | Instance | Shows |
|---|---|---|
| `hopcroft` | all partial automata of 3 states and 2 letters in which 0 leads to 1 on the first letter and the last state nowhere on the second, starting at 0 or the last state | data structures consistent at every step, `Hopcroft` implements `PartitionRefinement`, coarsest stable partition, the automaton built simulates the old one; termination; halving |
| `toposort` | 3 statements, each embedded up to twice by each | errors exactly for circular embeddings, otherwise a topological order and every `compile` after those it reads |
| `toposort_marks` | the same | **violated**: `MarkedOnCycle` |
| `loader` | 3 files around the main one, import lists of up to two, all kinds of uses, broken files | the statements about the loader above |
| `loader_used_solely` | the same | **violated**: `UsedSolely` |
| `builder` | all grammars of up to 4 expressions in up to 2 statements with one action | language, determinism, labels and associations; the intervals of all classes of up to 3 items (the assumption `ClassesCovered`) |
| `builder_check` | the same | **violated**: the assertion of `Fsa::check` |
| `export` | 2 statements, of 3 and 2 states, up to 2 and 1 references, any final states; `used_as_call` with and without what is not called | layout, starts, epsilons; no edge lost where every collapse starts wherever a collapse edge leads to its end (`WellTagged`) |
| `export_lost_edges` | the same | **violated**: `OnlyRefsDeleted` |
| `machine` | 2 statements, of 2-4 and 1-2 edges, that call and collapse each other and themselves, or `S` the complement of a collapse; `used_as_call` as in `export`, `call_label` as low as it can be; `S` exported alone or after `W`; words of up to 3 letters | the generated program accepts what the grammar defines, starts of called statements are followed, each step of the program ends |
| `within` | all programs of up to 8 expressions for `find_lca`, of up to 4 for two states with any associations | lowest common ancestors, the expressions a state is within, the actions of an edge |
| `determinize` | automata of 3 states, overlapping intervals and epsilons, with and without further starts | the subset construction, canonical edges, termination |

Why the bounds are enough for the questions asked:

- Hopcroft: the subtle case is a block that is split while splitters named by its
  leader are pending; it needs a block of three states, or one of two that is
  split by its own predecessors. Three states and two letters have pending splitters of another
  letter as well. The theorems hold without bounds.
- TopoSort: with three statements there are cycles beside, inside and behind each other,
  and a report after a report. The theorems hold without bounds.
- Loader: two files besides the main one, whose inodes are before and after it,
  import each other and it; that is what the order of the loop can go wrong on. Names
  are few, because only their equality matters.
- Builder: `MaxExprs`, `MaxActions`, `MaxStates` bound the expressions, actions and states;
  `Room` is the number of labels of a class, 1000000 in the code. Words of up to three
  letters tell the operations on expressions of this size apart; an error in
  any operation shows in an expression of that operation, a loop below it and a leaf.
  Four expressions are also enough to compile a statement with a reference
  and embed it below an operation.
- Export: two statements suffice for all forms of recursion, and three states for
  a state that is the start of one reference, the end of another and final.
- Machine: with two statements there is every kind of recursion, a call inside a call, both of a
  collapse and a call of one statement, and a statement exported before it is
  referred to. `MaxStack` = 5 is more than the calls that words of `MaxWord` = 3 letters can leave
  open unless a statement calls itself without reading; `Room` = 8 is the number
  of labels of a class. The inputs are minimal deterministic automata, as `compile` leaves them.
  That every exception of the properties is needed, and that nested calls and both errors occur,
  was checked by leaving each out in turn.
- Within: depths up to seven take three powers of two in `find_lca`. Four expressions are two
  statements with an expression around another one; the tags are those of a state
  in the middle and at the end.
- Determinize: edges of up to two labels out of three, from two states of a subset,
  overlap in all ways two intervals can.

**Fairness.** Each model is of one call of a sequential function: the only
assumption is weak fairness of its next step (`WF_vars(Step)`), that is, the program
runs on. It is used for `Termination` alone, which is not trivial for the worklist of
`hopcroft_minimize`, the map that grows while it is iterated, the stack of
`determinize`, and the recursion over circular embeddings; and for `TransitEnds`, where the
generated program runs on once it has read a character (it need not read another one).
`CHECK_DEADLOCK FALSE` is used for `Builder`, where the grammar ends or a bound is reached,
and for `Machine`, where the input ends, an export fails or a state is negative.

## 4. Where the code disagrees with itself

1. `toposort_marks`: `loader.cc:408` marks statements "in cycle", but the report
   pushes an entry on `st` that the callers' pops do not account for; after one
   cycle has been reported, statements that are on no cycle can be marked and
   printed as part of one. Whether an error is reported at all is not affected
   (`ErrorsIffCyclic`, proved).
2. `export_lost_edges`: `compiler.cc:637` "delete the old reference edges" deletes
   others, too. The index `j` of the caller is stale when the nested `allocate`
   inserts an epsilon into the state the caller is at. Example:
   `S = (!S | 'a' !W)?`, `W = !S 'b'`: the edge on `a` is lost. `EdgesComplete`, proved,
   shows what it takes: a collapse that ends in a state into which a collapse edge leads from
   a state where it does not start. Two references that share an end but not a start make
   one; without that, and if some collapse edge leads there (`WellTagged`), nothing is lost,
   whatever the recursion.
3. `loader_used_solely`: the comment at `loader.cc:522` says that a statement
   is ensured to be used in one way only; a violation is printed and `load` goes on.
4. `builder_check`: the assertion of `Fsa::check` (`fsa.cc:30`) fails for `&A $ action`,
   since `add_assoc` appends the action's label behind the greater one of the call.

Also seen while modelling, without a statement in the code to hold against it:
`complement` drops all associations while the edges of references stay in
the automaton (`LabelsTagged` excepts it), an embedding of such an automaton
may end in the assertion of `fsa_anno.cc:135` (the gap edge of the complement reaches
over `call_label_base`), actions given to a repeat or complement are ignored,
and an entering or leaving action keeps the label of a finishing one from being made.

The properties of `machine` and `within` hold with exceptions, each of which the run reaches:

- A call returns at a state where its statement does not end, if `minimize`, which looks
  at `finals` only, made it one with a state where it does (`compiler.cc:701`). With
  `number = [0-9]+`, a call of `number` may so read no digit at all
  (`MachineSound`, except `merged`).
- One vector `sub_final` has the ends of all statements called from anywhere in the program
  (`compiler.cc:572`). If a called statement collapses another one that is also called, its call may
  return where only the other one ends: with `X = &W`, `W = !S 'a'`, `S = '1'` and `&S` anywhere, `X`
  accepts `1` (`MachineSound`, except `EndsInside`). If the other one may be empty, `hh_X_transit`
  can so return from a call without reading (`TransitEnds`, with the same exception).
- A statement exported earlier and referred to by a later export has lost its calls,
  and begins collapses at states that `minimize` merged with those that did
  (`compiler.cc:800`; `Reexported`, `CallsLost`).
- The program returns from a call only if it can read no more there, and enters one only
  for the next character: grammars in which a word of a called statement can be continued, or is
  empty, are not accepted in full (`MachineComplete`, `Settled`, `Nullable`).
- A statement that calls itself before it reads anything, or a repeated call of
  one that reads nothing, keeps `hh_X_transit` busy for ever (`TransitEnds`).
- `find_within` sorts by `pre`, which counts in each statement from 0. An expression of another
  (embedded) statement between an expression and one inside it makes it give the
  former the tag of the latter: in `S = ((A @p) 'b') @q`, `A = 'a' @r`, the action `q` runs after `a`
  already (`Interleaved`).

## 5. What is proved

All proofs are for every value of the constants, under named assumptions only:

| Assumption | Says |
|---|---|
| `NAssumption` (`Automaton`) | an automaton has a positive number N of states; letters are any set |
| `DeterminizeAssumption` | the same, and labels are below a natural number `Limit` |
| `StmtAssumption` (`TopoSort`) | the statements are finitely many, the uses in each boundedly many |
| `LoaderAssumption` | inodes are finitely many positive numbers, `Main` is one; a missing qualifier is not a qualifier |
| `ExportAssumption` | the statements are finitely many; `AB` is positive, `Room` a natural number |
| `WithinAssumption` | the bounds on the expressions are natural numbers; a tag is a set of the three bits of the code |

The specifications the theorems are about start from any input of the type: any files
(`[Inode -> File]`), any tuple of automata with sorted edges, any automata of any size with any
associations that refer to statements. The inputs of the runs are some of these.

**PartitionRefinementProofs.** The abstract refinement keeps a partition that respects
finality (`TypeCorrect`), never separates two states that a stable partition puts together
(`NeverOversplits`), and is stable when it says it is done (`EndsStable`).

**HopcroftProofs.** The inductive invariant is

    IInv == TypeOK /\ LeadersInv /\ MarksClean /\ MarksInv /\ WorklistInv /\ FinalityInv

`LeadersInv` (a leader is the least state of its block, and splitters in the set
name leaders) and `FinalityInv` tie `B` to a partition. `WorklistInv` is the argument of the
algorithm: for two states of a block whose successors on a letter are in different
blocks, one of those is pending as a splitter, or is the one in use and its
marks tell the two apart. It is not inductive by itself. That a split really follows the marks
needs `MarksInv` (marks are the predecessors of the splitter in use that are not examined yet, the
counters count them), and that the next splitter starts from nothing needs `MarksClean`.
From it follow `TypeCorrect`, `MarksCorrect`, `WorklistCorrect`; `Refinement`,
that every step of `Hopcroft` is a cut of `PartitionRefinement` or a stutter (a split
by marks is a cut by a union of blocks, since the splitter as it was walked is one); and
`Minimal`: at the end the partition is stable, as no splitter is pending, and
never oversplit, by the refinement, hence the coarsest. `OutputFaithfulAlways` is about the
automaton built from it: numbering the leaders in their order is a bijection onto
`0 .. n - 1`, since the rank of a leader is a strictly growing cardinality, so the result has as many states
as there are blocks and simulates the old automaton letter by letter. `HalvesAlways`
(`HalvesWork`) is the argument for the running time, about `HopcroftWork`: by `WorkInv` a state's block is
no larger than the splitter that held the state last, and half of that while it is
pending; a split keeps both, because the half that becomes pending is the smaller one unless the whole
block was pending before. `LeastLemmas` has the facts
about least states and cardinalities that the steps use.

**DeterminizeProofs.** The inductive invariant

    IInv == GivenInv /\ NumbersInv /\ StartsInv /\ SweepInv /\ EdgesInv /\ FollowedInv

says that subsets have the numbers 0, 1, ... without gap or repetition, those on
the stack have no edges yet and all others do (`NumbersInv`), that the further starts come before
anything is popped (`StartsInv`), where the sweep of the subset at hand is (`SweepInv`), that
edges are canonical (`EdgesInv`) and lead where they should (`FollowedInv`). The core is
`Sweep`: the events done are at or before `last` and not after any to come; `live[v]`
is the number of open edges into v; and every label below `last` leads to the number of the closed
set of its targets. Between two events the open edges do not change, hence neither do the
targets (`TargetsMoved`). That N rounds of following epsilons are the least closed
set, without induction: as long as a round adds something it adds a state, so the number of states in
the first round that adds nothing is at least that of the rounds (`ClosureLeast`). From it: `TypeCorrect`; `FollowedAlways`
(`SubsetsFollowed`: the result is the subset construction), `CanonicalAlways` (`EdgesCanonical`: no
empty edge, none that could be joined with the next) and `StartsAlways` (`StartsBuilt`).

**TopoSortProofs.** The inductive invariant

    IInv == TypeOK /\ PathInv /\ BadInv /\ SortInv /\ RootsInv /\ DoneInv

says that the open calls form a path in the embedding relation and are those marked 1,
or 3 after a report (`PathInv`), that a report is only made for a cycle (`BadInv`),
that a finished statement has all its users finished and after it in the list unless there
was a report (`SortInv`), that no key has been skipped (`RootsInv`), and what holds at the
end (`DoneInv`). From it: `CyclesReported`, `OrderTopological`, `EmbedsFirst`.
`OpenFound` is about the hand-kept stack `st`, which the calls' stack gets out of step with after a
report: `StackInv` says that the open statements still occur in `st` in their order, with
leftovers of reports between them, because a return pops one entry of its own or a leftover above
it; the search for an open statement therefore never runs off the bottom (`OpenOnStack`).

**LoaderProofs.** The inductive invariant

    IInv == TypeOK /\ ControlInv /\ ImportInv /\ KeysInv /\ ReachInv /\ FaultInv
            /\ BoundInv /\ RecordInv

follows the two loops. `ControlInv` says where they are; note that the module being visited is marked
good before it is. For each module and the number of its statements visited so far, `ImportInv` says that its tables
hold the definitions seen (`TablesRight`), its imports are those seen, the last one for each qualifier and
each unqualified one once (`ImportsRight`), and that without an error there is nothing wrong in what
was seen (`Clean`). `ReachInv` is the argument for the loop over a map that grows:
a pass that processed no module has none unprocessed behind it, so the last pass leaves the set of
modules closed under imports; with that the map is what can be reached from the main file. `FaultInv`
says that an error counted is one in the text. `BoundInv` (the uses visited and not faulty are bound to
the one definition they can mean) rests on the correspondence between the hits of the search
through the scopes and the meanings defined on the text alone; `RecordInv` and `KeysInv` say that each use is
recorded once, under what it is bound to and in the table of its kind. From it: `VisitedAlways`
(`ReachedVisited`), `ErrorsAlways` (`ErrorsIffFaulty`), `BoundAlways` (`BoundUniquely`),
`RecordedAlways` (`UsesRecorded`).

**ExportProofs.** The module begins with the helpers that `Common` models. `AddedUnion`: `emplace` of
`DisjointIntervals` keeps intervals of integers apart from each other and adds the labels of the new one and no
others. It looks at two neighbours only, the last interval that begins before the new one and the last that
begins in it; as intervals are apart, all others end before those (`LastOfProps`).
`FlippedComplement`: `flip` gives the complement below `AB`. `EmplacedProps`: `sorted_emplace` puts one epsilon in
its place. For `allocate` the inductive invariant

    IInv == TypeInv /\ LayoutInv /\ CalledInv /\ FramesInv /\ NeededInv /\ EdgesInv

says that every statement laid out has its own interval of states (`LayoutInv`), that
`starts` and `sub_final` are those of the called statements among them (`CalledInv`), what each open call of
`allocate` still has to visit, and that all callers but the innermost wait for a reference
(`FramesInv`), that what is laid out is needed and nothing is missing behind a call
(`NeededInv`), and that each edge is one of the statement, moved and perhaps cut off where labels of
collapses begin, or an epsilon that stands for a collapse (`EdgesInv`). The edges of a state are sorted, and the loop
that replaces collapse edges stops at the first other one from the end: this gives that
none is left in a state passed. Nested calls change other statements' states, and that of the caller:
what is stated about an edge is therefore its form, never its place. From it:
`LayoutDisjointAlways`, `CalledKeptAlways`, `AllocatedNeededAlways`, `RefsReplacedAlways`.

The last part of the module has the other direction, `CompleteInv`, for well-tagged
inputs: no edge is lost (`OwnInv`), and the epsilons are there, those from where a collapse starts
(`StartInv`) and those to where it ends (`EndInv`). While edges are being replaced (`RefsInv`) no
other call is open above: all the statements referred to are laid out already, since each collapse
that ends where an edge leads starts at the state itself, whose starts are visited first. That is where
`WellTagged` is used, and what fails without it (finding 2). From it and `IInv`:
`EdgesCompleteAlways`.

**WithinProofs.** For any programs, of any number and depth of expressions. The inductive invariant

    IInv == TypeInv /\ TreeInv /\ TableInv /\ PathInv /\ OrderInv /\ FindInv

says that the first entries of the tables `anc` are parents, entered earlier and one less deep
(`TreeInv`); that the tables have the ancestors at the distances 1, 2, 4, ... up to the depth, and no
more (`TableInv`); that the expressions open are the line from a root to the innermost (`PathInv`),
without which the table of a new one could not be right; that what is numbered between an expression and one
inside it is inside it as well, and `pre` is counted from the root of the statement (`OrderInv`); and
what `find_within` has done so far (`FindInv`): the last expression visited has the greatest `pre`,
what is brought along is what is around those visited, and each visited one keeps the tag it has.
That lifting by the powers of two reaches the depth asked for, and that climbing while the two are apart ends
below the lowest common ancestor, is by induction over the powers
(`LiftedProps`, `ClimbedProps`), where `TableInv` gives what is at the distance of each power.
The code tests `k < size` for the table of one of the two only: both have the same
depth, hence tables of the same length (`ClimbStep`).
From it: `LcaAlways` (`LcaCorrect`). With it `find_within` brings along exactly
what is not around the last one (`Brought`), and an expression is brought along again only if the
last one is of another statement, since in one statement `OrderInv` would put the last one inside it (`SameStatement`):
`WithinAlways` (`WithinUpward`), where `Interleaved` is the exception. The
index that follows in the loops of `generate_transitions` skips only what is less than what is looked for
(`FollowedProps`), so that the loops find what two sorted vectors have in common (`MetProps`):
`EdgeActionsAlways` (`EdgeActions`).

## 6. What is only model-checked

- Liveness (`Termination`, `TransitEnds`): out of the prover's reach.
- `Builder`, `CompileExport` and `Machine`: they use the recursive operators of `FsaOps`, about
  which nothing can be proved. That the results `FsaOps` has for `determinize` are those of
  `Determinize` (`ResultInFsaOps`) is checked for the same reason only.
- That a class put together item by item covers its items (the assumption `ClassesCovered`): each step is
  proved (`AddedUnion`), the induction over the items is not, being about a fold.

## 7. What is not modelled

- Of `load`: how `AB` grows with the files parsed, and the calls of the generators.
- Of the code generation: the text, the order of the actions of an edge, `generate_graphviz`.
- The parser and lexer, inputs of generators; their result is the input of `Loader`.
- `accessible`, `co_accessible`, `substring_grammar`: not called (`if (0)`).
- `sorted_insert` and `sort_assoc`: the vectors they keep sorted are sets in the models.
- Syntax tree, locations, options, messages: no behaviour of their own.

## 8. Plan

In the order of importance; what is done is marked.

1. (done) `PartitionRefinement`, `Hopcroft`, `HopcroftWork`, with proofs: the most
   intricate algorithm, on which every automaton depends.
2. (done) `TopoSort` with proofs: the order everything is compiled in.
3. (done) `Export`, with proofs: `allocate`; `CompileExport`: the renumbering of `starts`, `start2stmt` and
   `sub_final`, `call_addr` with its check, removal of labels, the loop over several exports.
4. (done) `Loader`, with proofs.
5. (done) `Determinize`, with proofs. Next: the subset construction as an abstract specification of
   its own, a set of reached subsets that grows, which `Determinize` implements.
6. (done) `FsaOps`, `Builder`: expressions. Next: `FsaOps` without recursive operators, and the
   interval sweeps of the products step by step, so that they can be proved about (distinct pairs have
   distinct keys, the sweep covers each label once); then the statements about `CompileExport` that
   depend on the results of `determinize` and `hopcroft_minimize` only (`StartsFollowed`).
7. (done) `Machine`: the generated program, composed with `CompileExport`, compared with the
   language of the grammar. Next: the actions it runs, composed with `Within`.
8. (done) `Common`, `Within`, with proofs.
