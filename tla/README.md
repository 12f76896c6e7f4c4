# A TLA+ verification of thrift-ls

thrift-ls is a language server, linter and formatter for Thrift IDL, written in Go. Two
things about it are hard. An editor, a workspace loader and background analyses share one
store of parsed files, and what the editor shows must follow the latest change although
every one of them may be late. And what it writes back, fixes, renames and formatted files,
must say what the file said before. The modules here model both: the store with everything
that runs on it at the same time, and the path of a file from its bytes over tokens, tree
and document to the text that replaces it. TLC checks them on small instances; TLAPS proves,
for all instances, the safety of the store, the diagnostics, the workspace and of applying
fixes, in one file and over all, that the lexer places every token and skips nothing, that a
diff patches, and of the symbol index what typedefs stand for, that the edits of a rename
fit, that the references found are those there are and that cycles of includes are reported.

## Contents

| File | What it is |
|---|---|
| `View.tla` | `store.View`: cached parses, include graph, generations, concurrent `Parse`, `Update`, `Evict` |
| `FileCache.tla` | the abstract specification that `View` implements |
| `Diagnostics.tla` | from a change of a file to the findings the editor shows |
| `Workspace.tla` | which project owns a file: folders, loads, reconciliation, documents |
| `FixApply.tla` | `sema.Apply`: which fixes of a file are applied, and to what content |
| `FixAll.tla` | `Pipeline.FixAll`: passes of analysing, fixing and writing files |
| `Lexer.tla`, `Parser.tla` | the scanner, character by character; the recursive descent parser with its recovery |
| `Grammar.tla` | the grammar of Thrift as sets of places, apart from any parser: what `Parser` is checked against |
| `Syntax.tla` | `syntax.Parse`: the lexer and the parser composed |
| `Doc.tla`, `Printer.tla` | the documents of the pretty-printer, and the machine that lays them out |
| `Layout.tla` | `formatter.Format`: from a tree and its comments to a document, composed with `Parser` into reading, formatting and reading again |
| `Names.tla` | the symbol index: what a name means, and who refers to a definition |
| `Rename.tla` | references and renames over a project, and the client that makes the edits |
| `Mapper.tla`, `Diff.tla` | positions in UTF-16 units, and edits; the diff of `format -d` |
| `Formatting.tla` | the formatting requests on one document, composed of the two |
| `ViewProofs`, `DiagnosticsProofs`, `WorkspaceProofs`, `TextProofs`, `FixAllProofs`, `FormattingProofs`, `RenameProofs` | theorems, checked by TLAPS |
| `Induction.tla` | lemmas: induction and recursion over the natural numbers, and over the turns of a loop, with sets and functions in place of operators |
| `MC*.tla` | finite instances |
| `View`, `Diagnostics`, `Workspace`, `FixApply`, `FixAll`, `Syntax`, `Printer`, `Rename`, `Formatting`, `Layout` (`.cfg`) | runs in which every property holds |
| `DiagnosticsLost.cfg`, `LayoutReturn.cfg` | runs in which TLC refutes what a comment in the code says |
| `ViewEvict`, `ViewCancel`, `WorkspaceOwner`, `FixAllLines`, `FixAllOscillates`, `SyntaxFunctions`, `RenameService`, `RenameReference`, `RenameTwins`, `LayoutBraces` (`.cfg`) | further instances, outside the assumptions of the runs, in which TLC refutes an expectation (see below); not among the runs of `PROJECT.json` |
| `PROJECT.json` | components, runs, the map from definitions to source lines, hazards, findings |

## Inventory of the system

Paths are relative to the repository. "Hard" names what a unit test hardly reaches.

### store: the view, the overlays and the session
* State. `View` has one entry per file (content handle and parse), `includes`, its inverse
  `includers`, and a generation counter `gen`. `OverlayFS` holds the contents of open
  documents over the disk. `Session` holds the views and a cache of routes.
* Operations. `Parse` returns a cached parse or reads, parses, resolves the includes and
  stores, without holding the lock in between. `Update` invalidates files, advances `gen`,
  re-parses and returns the affected files. `Evict` forgets files.
* Callers. Every request handler, the analyses in the background, the workspace.
* Hard. A parse races with the invalidation of its file; the inverse maps must survive
  every interleaving; a request may be cancelled half way through a parse.
* Correct when: no cached parse is older than the last announced change; the two edge maps
  are inverse; an update finds every dependent.

### lsp: diagnostics
* State. `reports` (the findings code actions pair with) under `reportMu`; `analysisMu`;
  the generation each analysis was started for.
* Operations. `postDiagnostics` starts a goroutine per update; `diagnoseAt` analyses,
  caches and publishes, and compares generations in between; `clearDiagnostics` and
  `forgetReport` take findings back.
* Hard. Analyses overtake each other and the changes that supersede them; the editor is
  sent messages from several goroutines; three mutexes are nested; an analyzer may panic.
* Correct when: what is shown never goes back to an earlier generation; what was cleared
  stays clear; the latest analysis does publish; every change returns.

### lsp: workspace
* State. The active folders with their snapshots, the model computed from them (roots,
  targets, issues), a view per root, the open documents, all under `w.mu`.
* Operations. `start`, `changeFolders`, `loadLocked`, `loadSync`, `commit`,
  `reconcileLocked`, `applyChanges`, `shutdown`.
* Interaction. Loads run in goroutines and call back with `commit`; reconciliation creates,
  updates and evicts views and clears diagnostics; `didOpen` may load a directory.
* Hard. A load returns for a folder that was removed and added again; nested roots move the
  ownership of open documents; batches fail in part.
* Correct when: the model is always that of the active folders; views match the model;
  an owned file is tracked by its view; nothing is shown that no view answers for.

### sema: the fix engine
* State. `Apply` has none but its locals. `FixAll` has the view, the disk behind it, and a
  summary of the passes so far.
* Operations. `Apply` accepts fixes in order, each whole or not at all, and splices their
  edits; `FixAll` runs the analyzers, applies the fixes of each target and persists it, and
  starts over until a pass applies none or ten have run.
* Interaction. Analyzers and fixers read the whole view; `persist` is a callback, that of
  `check --fix` writes the file; `view.Update` is called between passes.
* Hard. Fixes overlap; one makes another possible or undoes it; `persist` or an analyzer
  fails with some files written.
* Correct when: the text is that of the accepted fixes made at once; the passes end because
  nothing is left to fix; the summary is what landed, also on a failure.

### syntax: lexer and parser
* State. The scanner: offset, line, column, errors. The parser: the next token and the errors.
* Operations. `Lex` gives tokens with positions and the blank lines before them, `Parse` a
  tree and errors; every production recovers by skipping to a token that can begin or end
  something.
* Interaction. Everything reads the tree. `Format` refuses a file with errors and trusts one
  without.
* Hard. Recovery must neither loop nor give up what follows; columns count runes over invalid
  bytes and three kinds of line breaks.
* Correct when: a tree without errors holds the whole file and only of valid files; a bad
  field costs itself; every turn consumes a token.

### doc and formatter
* State. The printer: a stack of commands, the column, the modes of groups, pending suffixes.
  The formatter has none but its locals; it asks for comments by the place of tokens.
* Operations. One document for each construct; `propagateBreaks`, `fits`, `Print`; the diff of
  `format -d`; picking blocks for range formatting.
* Interaction. Comments are tokens that are in no node: every construct has to emit those
  between its tokens, and no other may.
* Hard. A comment at a place nobody thought of; a separator that is added, dropped or moved
  over a comment; a construct that breaks for a comment that it then prints elsewhere.
* Correct when: no word and no comment is lost; the output parses to the same tree; formatting
  again changes nothing; edits of a selection change the selection only.

### sema index, references and renames
* State. `Index` memoises resolutions of one analysis; the requests keep nothing.
* Operations. Resolution of types, values and services over includes, typedef chains of at
  most 32 steps, references of a definition over the files that can see it, renames of both.
* Hard. The same name in several files, in several includes, with dots in file names; the
  include graph may be cyclic.
* Correct when: references are those that resolve to the definition; a rename leaves every
  reference at what it meant.

### Other parts

| Part | State and operations | What makes it correct | Status |
|---|---|---|---|
| resolver | none; candidates of an include path by proximity | nearest existing candidate, no duplicates | candidates are a constant of `View`, in a fixed order; the sort by proximity (`resolver.go:139`) is not modelled |
| file renames | `didRenameFiles` changes overlay and view without `w.mu`; `willRenameFiles` computes edits | includers re-resolve; an edit resolves to the new location | the first is a change in `Diagnostics`; the edits are not modelled |
| sema pipeline | analyzers in order over one shared index | findings per file, errors joined | one action of `Diagnostics` |
| analyzers | pure checks | report exactly the cycles, duplicates and unused includes | unused includes and undefined types are part of `FixAll`, cycles of `Names`; duplicates, field ids and values are not modelled |
| mapper | byte, rune and UTF-16 positions | offsets on rune boundaries, columns clamped to their line | `Mapper` |
| options | layers of patches, search for a config file | precedence, termination at the root | not modelled |
| read requests (hover, definition, completion, ...) | none of their own | pure functions of a parse and the index | appear as concurrent parses in `View` |
| CLI, VS Code and JetBrains clients | flags, process start | | not modelled: I/O |

How they interact: the editor's events enter through `lsp/impl.go`, which forgets reports
and calls `workspace.applyChanges`; that sets overlays and updates or evicts views; a view
update returns the affected files, for which `postDiagnostics` starts an analysis; the
analysis parses through the view and publishes. The loader's commits enter at
`reconcileLocked` and take the same path. Requests parse through the view, go through the
index or the formatter, and answer in positions, which the mapper computes, and edits, which
the client makes and sends back as changes.

## The modules

### View, and FileCache which it implements

A goroutine (`Task`) is idle or inside one `Parse` or `Update`; `call[t]` is its program
counter and locals. Each action is one critical section of `v.mu`, or one access to the
file source, as in `store/view.go`:

| Code | Actions |
|---|---|
| `Parse` | `BeginParse` (lookup), `LoadGeneration`, `Read`, `ResolveOne` per include, then `Store` or `Discard` |
| `Update` | `Update` (invalidation), `NextFile` (lookup of the eager re-parse, which goes on as a `Parse`), `Reparsed`, `AddDependents` per file, `Return` |
| `Evict` | `Evict` |
| a file or overlay changes | `Write` |

`guard` is the generation an analysis puts in its context; `Cacheable` is the condition
under which `Parse` stores. A text is the set of include paths in it, with a version that
tells texts apart. An include path is resolved in one step from the ordered `Candidates`;
a cancelled context finds no file, as in `OverlayFS.Exists`. `announced`, `evictedAt` and
`since` are history, never read by a guard.

`FileCache` says what a client may rely on: an invalidation rules out older versions, and
any version not ruled out may be cached at any time. `Diagnostics` uses this view of the
store: an analysis sees each file at a version between its last invalidation and now.

### Diagnostics

One view. A handler makes a change in steps (`Begin`, `Forget`, `Write`, `Update`, `Post`,
or `Evict` and `Clear`); an analysis, named by the generation it was started for, goes
through `Start`, `Acquire`, `RunAnalyzers` or `Panic`, `Report`, `Prepare` and `Publish` per
file, and `Finish`. `workspaceMu`, `analysisMu` and `reportMu` are explicit, because the
properties are about what is between them. The kinds of changes:

| kind | code |
|---|---|
| `edit` | didOpen, didChange, a watched file that changed |
| `close`, `drop` | didClose of a file its project still owns, of any other |
| `delete` | a watched file is gone |
| `rename` | didRenameFiles: no lock, and a second update of the includers |
| `load`, `lose` | reconciliation updates the files of a project, evicts those it lost |

Two generation checks with nothing between them are one, because a generation never comes
back. Several files of one notification are one change each.

A message to the editor may fail, in `Clear` and in `Publish`: the code logs the error and
goes on with the next file. `unsent`, which is history, holds the files the last message
about which was not sent; what is said of shown findings is said of the others. A file that
does not parse any more when its findings are prepared is passed over, whether the loop finds
out or `ToProtocolDiagnostics`, which parses it again.

### Workspace

A step is one critical section of `w.mu`. `Start`, `ChangeFolders`, `Shutdown` and `Commit`
are the functions of these names; `Reconcile` is `reconcileLocked` with `ModelOf` as
`workspaceModelOf`; `Apply` is `applyChanges`; `Open`, `Contained`, `LoadSync` and `Opened`
are the separate critical sections of `didOpen`; `Load` is the loader returning, with any
of the snapshots the mode allows or an error. A folder state is identified by `id`, where
the code compares addresses. A view is reduced to its include paths, the files it tracks
and the findings it still has to publish: that older analyses publish nothing, and nothing
after a clear, is what `Diagnostics` shows, and messages that fail are in that module only.
An update affects the files given and whatever reaches them over includes (`Reaching`). The
editor sends one document event at a time
and nothing after shutdown. Not modelled: `validateWorkspaceSnapshot` (snapshots are valid)
and `didRenameFiles`.

### FixApply

One call of `Apply`, a step for each round of its loops: `Fail`, `Reject` and `Admit` check
a fix, `Pass`, `Skip` and `Accept` decide on it, `Splice` makes one edit. Of a text only its
place matters, so an edit inserts one item that carries the edit's name. The code sorts the
accepted edits and walks them from the end; here `Splice` takes the last of those pending,
under the order of the sort with its stability spelt out (`Before`). That neighbours do not
overlap in the sorted edits of a fix is stated of any two (`SelfOverlaps`), which is the
same as no edit ends before it starts.

### FixAll

`Run` or `RunFails` is the analysis of a pass. Then every target takes `SkipBroken` or
`FixFile`, whose cases are nothing to apply, a `persist` that succeeds and one that fails.
`EndPass` is the update of the view and the decision to go on. `disk` and `view` are apart
because the view learns of a write only there.

A file is a sequence of lines of statements. The fixes are those that depend on other
files: `Unused` and `Undefined` are the findings, `Resolve` with `Visit` the search over
includes behind both, `Definers` with `Offers` what `FindInWorkspace` may answer. Its answer
depends on which files are known by then, so any file that defines the name is allowed. How
fixes of a file combine is fixed by the rules of `FixApply`: deletions of one line overlap
and the first wins, insertions at one place are all made in their order, after what the
last include's line was and before what follows.

Left out: files that cannot be read, files with warnings only (`AddIncludeFixer` leaves them
alone, the deletion does not), fixes of enum values and of configured analyzers, and an
`os.WriteFile` that fails after it truncated the file. References are those of types.

Seen while modelling and not stated as a property: `skipped` lists the fixes that overlap
themselves before all others, not in argument order (`edit.go:12`); after the last of ten
passes `Remaining` is the report from before its fixes (`fixapply.go:67`); a file outside
the targets can lose a definition it reached through an include of a target.

### Syntax, composed of Lexer and Parser

`Lexer` scans one token a step, with the whitespace and comments before it: `Scan` is the
loop of `Lex`, an operator for each scanner (`Identifier`, numbers, strings, comments), with
the errors each reports. Each loop of a scanner is a recursive function of the locals it
changes (`Whitespace`, `Trivia`, `ToQuote`, ...), a branch for each branch of the loop, so
that the prover can reason about it. A character is its class; a keyword is one character,
which is a keyword where it stands alone and letters where it does not. Runes of two bytes,
and either byte of one alone, are characters too, since columns and offsets count them
differently. `SourceAssumption` says no more of the sources than that they are sequences of
strings.

In `Parser` a step is one turn of `parseDocument`'s loop, an action for each definition and
`Unexpected` for the recovery. Every production is an operator from a state of the parser
(position, errors, nodes, whether the last production gave a node) to a state, one for each
`parse...` function, with the same order of tests, advances, errors and
synchronisations. Comments are tokens that no production sees. A node is its kind and the
tokens it covers; nothing in the tree depends on more.

`Grammar` says what is valid without a parser: an operator maps the set of places at which a
phrase may begin to those at which it may end. `ErrorFreeIsGrammatical` compares the two.

Seen while modelling and not stated as a property: `PrevReal` answers with the token at the
index if it is a real one, where its comment says strictly before (`lexer.go:157`); a block
comment spans lines, where the comment of `TokenEndPosition` says no token does; comments
between an invalid character and the next token are dropped; `n` line breaks at the start of
a file count as `n - 1` blank lines.

### Printer, on Doc

`Doc` has the constructors of documents and `propagateBreaks`; `Printer` is the loop of
`Print`, an action for each kind of command (`PrintText`, groups, lines, suffixes, trims),
with `Fits` as the search of `fits` over the rest commands. A text is its width and its
identity. The stack, the pending suffixes, `shouldRemeasure`, the modes of groups and the
mark that the last line ended a comment are variables. Arenas, buffers and pools are left out, and so is
the width of wide characters.

`PrintsMeaning` compares the output with `Meaning`, which lays a document out by definition,
given the modes of its groups; `MeasuredRight` compares the decision of each group with the
width of the line that follows if it is flat (`Row`), from the column the output really has.

Seen while modelling and not stated as a property: `propagateBreaks` pushes a group that it
visits again and never pops it (`print.go:614`), so that the break of a later line would go
to it and not to the group that holds the line. The formatter builds no choice whose layouts
share a group, which is what it would take.

The shapes of `MCPrinter` are those the document package offers, also the
suffixes, trims, literal lines and choices of states (conditional groups) that no construct of
the formatter uses today.
`MeasuredRight` does not speak of choices of states; `PrintsMeaning` does.

### Layout, composed of Parser and Doc

`Layout` builds the document of a file: operators carry the names of the functions of
`formatter` (`OwnLineComments`, `SameLineComments`, `SuppressedSepComments`, `EmitTokens`,
`FieldDoc`, `BodyDoc`, `FunctionDoc`, `ConstDoc`, `AnnotationsDoc`, ...) and map to a
sequence of documents. The machine reads a file with the actions of `Parser`; `Format`
prints the document of a file without errors and reads the result as the next file
(`Relexed`: a line comment takes the rest of its line, and two words without a space are
one), which is parsed and formatted again.

Abstractions: columns and alignment are left out, since they are spaces where there is a
space anyhow; which groups do not fit is an option of the instance, by the token that opens
the group, and is the same in both passes; one separator mode and one break mode hold for all constructs; a
comment is on one line. Printing (`Render`) is that of `Printer` without widths, in one
step. That a comment may change sides with a separator in a body that is not broken is
allowed by `NothingLost`.

### Rename, on Names

`Names` is the part of `sema.Index` that resolves: `ParseIdent` with the longest qualifier that
is an include, `DefinitionFiles` in depth first order over includes, `ResolveType`,
`ResolveValue`, `ResolveService`, `UnderlyingType` over typedefs, and `ReferencesTo` over the
files that can see a definition; besides `CycleCheck`. A name is a sequence of segments, and
so is the base name of a file, because files have dots in their names and the resolution
has to take prefixes apart.

`CycleCheck` is the set of the edges reported. Seen while modelling and not stated as a
property: a file that is both analysed and included by a file analysed before it has its
includes collected twice (`cycle_detect.go:95` appends to what is there), so that one edge is
reported twice. Nor is it said what a chain of typedefs answers that the bound cuts off:
`TypedefsStandForTargets` speaks of chains that end.

In `Rename` the user asks at any place for references or, at definitions, for a rename
(`AskReferences`, `AskRename`); the client makes the edits (`Apply`), and the next request is
about the result. `Search` and `Hits` are the cases of `searchReferences` and `Rename`.
Assumptions: documents are as the parser makes them, of finitely many files
(`ProjectsAssumption`); a new name is used nowhere in the project; every file that can be read is
parsed; exceptions are not the type of a field (`ExceptionsThrown`), since the references to an
exception that are searched for are those in signatures and annotations (`RefKindsFor`). Left out: fields, functions and arguments
(renamed where they stand), values qualified by a typedef, the memo of an `Index`.

### Formatting, composed of Mapper and Diff

One document and what the formatter makes of it, any of a set of pairs. `AskDocument` is
`FormatDocument`, `AskRange` is `FormatRange` (with `Segments` and `BlockDiff` for the
blocks between blank lines), `AskDiff` is `format -d`, and `Apply` the client, which makes
the edits by positions. `Mapper` has both directions between offsets and positions with
their clamping. A position on a line past the document is refused where there is something to
format; an edit at one, or with a range that is not in the text, makes `ApplyEdits` give up
all of them, and `EditsFormatSelection` has it that no answer of the server comes to that.
`Diff` is the anchored diff with Szymanski's longest run (`Tgs`) and the chunks with their
context. Left out: that `FormatDocument` reads the content before the
parse it formats, and the marker for a missing newline at the end. `lastj` of the diff is
never set after its initialisation (`diff.go`), which `FormattingDiffPatches` proves to do no
harm.
`ApplyEdits`, which only the tests use as a client, makes an insertion and a replacement at one start in the
wrong order; no answer of the server holds such a pair.

## The runs

| Run | Instance | Shows |
|---|---|---|
| `View.cfg` | 3 files including each other, one created or deleted meanwhile, 2 goroutines, 1 write, 2 updates or evictions | `NeverStale`, `GraphConsistent`, `EdgesLostOnlyToEvict`, `AffectedComplete`, and that `View` implements `FileCache` |
| `Diagnostics.cfg` | 2 files, one including the other, 2 handlers, 3 generations | `ClearedStayClear`, `ReportsKeepUp`, `LatestIsShown`, `NeverBackwards`; under fairness `ChangesReturn` and `LatestIsPublished` |
| `Workspace.cfg` | 2 nested folders, 2 files including each other, an implicit and a custom loader, 3 loads, 2 document events, each folder added once again | `SnapshotsFollowed`, `OwnedTracked`, `ShownTracked`, `LoadsBelong`; under fairness `LoadsSettle` |
| `FixApply.cfg` | content of 3 bytes, every sequence of up to 3 fixes out of 21 | `SkippedForCause`, `MadeAtOnce` |
| `FixAll.cfg` | 3 files, one broken, every combination of 35, 16 and 3 contents, 10 passes | `LandedIsReported`, `ConvergedClean`, `NothingLost`, `NeverOscillates` |
| `Syntax.cfg` | 10 documents with every production, each with every token lost, replaced by or preceded by one of 23; every text of 3 to 6 characters of some alphabets | `PositionsRight`, `Lossless`, `ErrorFreeIsGrammatical`, `FieldsKept`, `Progress` |
| `Printer.cfg` | documents of 3 pieces out of 21 shapes, alone or in an indented group, width 8 | `PrintsMeaning`, `MeasuredRight` |
| `Layout.cfg` | 12 files with every construct, each with a comment of every kind, or a blank line, at every place, on one line or one token a line; 3 separator modes, forced breaks, everything or nothing fits; 2 passes | `NothingLost`, `OutputParses`, `FormattingSettles` |
| `Rename.cfg` | 3 files with 3 contents each that share names, includes in either order, repeated, missing or cyclic; 2 renames | `EditsFit`, `ReferencesExact`, `TypedefsStandForTargets`, `CyclesReported`, `RenameKeepsMeaning` |
| `Formatting.cfg` | texts of 3 pieces with runes of all sizes, broken ones and every line end; pairs of a text of 4 lines and a formatted one; moved and repeated lines | `PositionsMap`, `DiffPatches`, `EditsFormatSelection` |
| `DiagnosticsLost.cfg` | 1 handler, 2 generations | refutes `DroppedResultsReplaced` |
| `LayoutReturn.cfg` | a function whose return type has annotations | refutes `OutputParses` |

Deadlock is not checked: the bounds end every behaviour, and an editor that sends nothing
more leaves nothing to do; a parse, a print and the two fix modules end with the call they
model.

### Why the bounds are enough
* `View`: a race needs a parse and one invalidation, or a parse that spans two (seen
  before the first, stored after the second); two goroutines and two generations give
  both. Three files on a cycle give transitive dependents, shared dependents and a file
  that is its own dependent; a missing file gives the fallback of the resolver. The write
  between two updates tells old and new text apart. The proofs have none of these bounds.
* `Diagnostics`: three generations let an analysis be overtaken twice, or be overtaken by
  a rename, which makes two. Two handlers are the editor and the loader's commit.
* `Workspace`: the roots are nested, so that ownership moves; the snapshots hold the cases
  of `workspaceModelOf`: a target outside its root, one in two roots, a root with two
  lists of include paths, an empty snapshot, an issue. Each folder can be removed and added
  again while its first load is under way, and one more load comes from `didOpen`.
* `FixApply`: three bytes hold every way in which two spans can lie, and three fixes a chain
  in which the first keeps out the second and thereby lets the third in. The fixes with two
  edits are those that touch, nest, meet at one offset or come in reverse order; two of the
  fixes are out of range. The proofs have none of these bounds.
* `FixAll`: the first file includes the others once, twice or in either order and uses what
  they define by its bare name or qualified; the second reaches the third, the first or
  both, or defines the same name; the third is broken. Fixes of one file enable and disable
  those of another over two or three passes; no behaviour of `FixAll.cfg` needs ten.
* `Syntax`: recovery starts at one token that is not expected. The noise has a token of every
  set the recoveries stop at, so that each stops at once, skips, and meets the end of the
  file in every production. Lexemes longer than five characters repeat states of the scanner.
* `Printer`: what a group decides depends on the column, on itself and on what is behind it up
  to the next break, which are three pieces; a suffix, a trim or a comment's line changes the
  next piece. Widths up to 6 on 8 columns fit, fit exactly and do not fit.
* `Layout`: a comment is claimed by looking at the tokens next to it, so one comment at every
  place, on the line of the token before, of the one behind, of both or of neither, is every
  case but that of two comments in a row. The second pass reads what the first has written,
  which is how a third would begin.
* `Rename`: three files give a name that is defined at two places and used at a third, which
  reaches them in either order. The second rename is on what the first left.
* `Formatting`: the context of a chunk is one line where the code has three; chunks merge,
  touch and stay apart within five lines. Selections start and end at column 0 or 1 of any
  line, for `FormatRange` only looks at their lines, or of the line past the document.

### Fairness
`Diagnostics` assumes weak fairness of each handler's and each analysis' next step: Go
schedules every goroutine and its mutexes do not starve a waiter (`sync.Mutex` hands over
after a millisecond). `Begin` and cancellation are not fair: the editor need never send
anything. `Workspace` assumes that each load returns and that its goroutine commits; a
loader that hangs leaves its folder loading, in the code as well. No other action is fair.

The sequential modules have no fairness: they are one call. `NeverOscillates` with
`MaxPasses` says more than that `FixAll` ends, and `Progress` that the parser does.

## What the refuted expectations mean

The first two are runs; `PROJECT.json` quotes the lines they contradict. The others are the
further instances, each with the place that raises the expectation.

* `DroppedResultsReplaced` (`DiagnosticsLost`): the generation belongs to the view, not to a
  file. An edit right after a load drops the findings of every file the edit does not affect.
* `OutputParses` (`LayoutReturn`): the parenthesis of the arguments is looked for from the
  start of the function. If the return type has annotations theirs is taken, and the name of
  the function is not printed.
* `AffectedReflectsChange` (`ViewEvict`): `Evict` removes the edges of includers whose parse
  stays cached, and nothing restores them; after the included file is opened again, a change
  of it does not reach those includers.
* `EdgesResolve` (`ViewCancel`): a request that is cancelled while its parse resolves includes
  caches the fallback edges, and no later request re-parses the file.
* `OwnerDiagnoses` (`WorkspaceOwner`): an analysis publishes for every affected file; over an
  include cycle across projects it publishes for a file of the other project.
* `NothingLost` of `FixAll` (`FixAllLines`): the fix for an unused include deletes its whole
  line, and Thrift lets a definition stand on it.
* `NeverOscillates` (`FixAllOscillates`): `FindInWorkspace` takes a definition of any kind. If
  a constant has the name of the undefined type its file is included; the include is of no use
  and removed in the next pass, and so on to the bound, which may leave the file with the
  include or without.
* `LaterFunctionsKept` (`SyntaxFunctions`; `parser.go:482`, "so later functions still parse"):
  a separator behind the skipped parameter list of a bad function is taken for one more bad
  function, whose recovery skips the parameter list of the next, a good one.
* `ReferencesFollow` (`RenameService`; `rename.go:44`): the name of a service in its own file
  is looked up with the name of the file before it, which resolves to nothing; the references
  keep the old name.
* `EditsFit` (`RenameReference`; `mapper/apply.go:10`): a rename at a reference rewrites that
  reference twice, once as a reference and once as what is under the cursor.
* `RenameKeepsMeaning` (`RenameTwins`; `rename_correctness_test.go:86`): two enums of a file
  that have a member of one name share it in the index, in which the last wins; a rename
  rewrites values that are qualified with the other enum.
* `RenameKeepsMeaning` (`RenameTwins` with the projects `MCNamesake`): the qualifier of a value is rewritten where it
  names the enum; in an enum that has the name of its file it also names the include.
* `RenameKeepsMeaning` (`RenameTwins` with the projects `MCConstant`; `sema/index.go:602`, "If the
  identifier is not qualified with enumName, ok=false"): the segment that is the enum may be the
  last; a rename of the enum rewrites a value that is a constant of the same name.
* `NothingLost` of `Layout` (`LayoutBraces`; `format_fuzz_test.go:18`, "every comment survives
  formatting"): the closing brace of a body is the first one, that of a value in it if there
  is one, and a comment in front of the real one is lost.
* `FormattingSettles` (`LayoutBraces` with the inputs `MCParameter`; `format_fuzz_test.go:16`, idempotence): a comment
  between a parameter and a separator that is dropped moves once more when it is formatted again.

The inputs of `Layout.cfg` leave these cases out: no value in braces in the body of a struct,
no annotations of a return type, no comment between a parameter and its separator where
separators are dropped; and none next to `throws`, which no document prints (`InThrows`). `Rename.cfg` renames at definitions.

## What is proved

`ViewProofs` proves for all instances, from the named assumptions on the constants of
`View` only (candidate lists are not empty, the sentinels are not data):

| Theorem | Statement |
|---|---|
| `ViewTypeOK` | `Spec => []TypeOK` |
| `ViewNeverStale` | `Spec => []NeverStale` |
| `ViewGraphConsistent` | `Spec => []GraphConsistent` |
| `ViewEdgesLostOnlyToEvict` | `Spec => []EdgesLostOnlyToEvict` |
| `ViewAffectedComplete` | `Spec => []AffectedComplete` |
| `ViewImplementsCache` | `Spec => Cache!Spec`, the refinement |

The argument. `TypeOK` alone is not inductive: that a stored edge is a file needs that the
files in flight are, which `Typed` adds. `NeverStale` is about stored parses but is decided
when a parse is read, long before it is stored. `Fresh` carries it through the call: a call
that has loaded the current generation and read a version has read one not older than the
last announcement, *because* every announcement advances the generation; a call whose
generation has passed need not satisfy anything, since `Cacheable` will discard it.
`Edges` says the same for the edges: the map is the parse's edges less those an eviction
took, and the inverse map follows every assignment. The refinement needs `Fresh` at
`Store`, which is a `Fill`; every other step is an invalidation, a change or a stutter.

`AffectedComplete` is about an update that ends in the generation it began. While that lasts,
the edges there were before can only become fewer, because whatever stores a parse read in
this generation (`EarlierEdges`, `UpdateOK`); and the update's own parses are never discarded
(`ParsedSoFar`), so that what it could not parse is in `failed`. The dependents are collected
file by file, each under the lock of its own; with fewer edges fewer files reach one
(`ReachesMonotone`), so the set collected so far holds whatever still reaches the files that
are done (`ReachedSoFar`). Without the generation this breaks where the code does: another
update or an eviction may remove an edge that is yet to be followed. The property leaves that
case out, for the analysis of such an update is dropped by its generation; what that costs
the files affected is `DroppedResultsReplaced`, which is refuted.

`DiagnosticsProofs` proves, for any files, include relation, finite set of handlers and
bound on the generations:

| Theorem | Statement |
|---|---|
| `DiagnosticsTypeOK` | `Spec => []TypeOK` |
| `DiagnosticsClearedStayClear` | `Spec => []ClearedStayClear` |
| `DiagnosticsReportsKeepUp` | `Spec => []ReportsKeepUp` |
| `DiagnosticsLatestIsShown` | `Spec => []LatestIsShown` |
| `DiagnosticsNeverBackwards` | `Spec => NeverBackwards` |

`Aimed`, that an analysis which sends has a file to send about, makes `unsent` a set of files.

The argument. None of the four properties looks at a mutex, yet each rests on the one
between an analysis' last generation check and its last message. `Holding`: an analysis
that publishes holds `reportMu`, and each file it is about is tracked or waits in `Clear`,
which needs that mutex. So whatever the analysis still sends for an evicted file is taken
back. That the files are tracked when it starts is `LatestTracked`: everything the latest
generation affects is tracked, since only an eviction forgets a file, and an eviction makes
a generation that affects nothing. `ReportsHeld` says that the reports of the publishing
analysis' files are its own, `NotAhead` that nothing shown is later than that analysis; the
first gives `ReportsKeepUp`, the second `NeverBackwards`. `Unposted` says that a generation
is analysed once. `Bounded` is about the model only: the changes under way find a
generation left below `MaxGen`.

`LatestIsShown` needs what the analysis of the latest generation has done so far (`Latest`).
It read each file at a version not below what was announced by then, and an announcement
makes a new generation, which is the next latest (`LatestSeen`). The files it has behind it
show its findings, unless the message was not sent, and no other analysis can put its own
over them: it would have to hold
`reportMu`, which the latest one holds until it is done, and after that its check of the
generation keeps it from sending (`LatestSent`, `LatestAlone`). A file that is taken back
meanwhile is tracked by nobody or waits in the handler that took it, which is what
`Settled` excludes. `DoneAll`: an analysis is done with no file left.

`WorkspaceProofs` proves, for any folders, roots, projects, loaders and bounds, from the two
assumptions `Workspace` names (of two roots around one file one is deeper, and there are
finitely many; sentinels are not data):

| Theorem | Statement |
|---|---|
| `WorkspaceTypeOK` | `Spec => []TypeOK` |
| `WorkspaceSnapshotsFollowed` | `Spec => []SnapshotsFollowed` |
| `WorkspaceOwnedTracked` | `Spec => []OwnedTracked` |
| `WorkspaceShownTracked` | `Spec => []ShownTracked` |
| `WorkspaceLoadsBelong` | `Spec => []LoadsBelong` |

The argument. The first four are proved as one invariant, `IInv`. `SameModel`: the model
depends on the snapshots of the folders only, so that a step which changes something else
of a folder (that it loads, its number) leaves the model right. `ReconcileFollows`: a step
that does change a snapshot reconciles, and then everything about views holds again, because
a view that is kept loses at most what `Gone` clears and gains what it owns. `OwnerIsRoot`:
an owner is a root of the model, hence has a view, so `applyChanges` always finds one and
`OwnedTracked` survives it. Strengthenings: what a view has yet to publish it tracks
(`DueKnown`), without which `Publish` would break `ShownTracked`; and at most one load is
waited for, by the didOpen under way (`Syncing`), so that its commit moves on the right one.
`LoadsBelong` is inductive by itself over `IInv`: a commit compares the state the load
was started for with the one the folder has now. The bounds play no part in it.

`TextProofs` proves of `FixApply`, for any content and any sequences of fixes:

| Theorem | Statement |
|---|---|
| `FixApplyTypeOK` | `Spec => []TypeOK` |
| `FixApplySkippedForCause` | `Spec => []SkippedForCause` |
| `FixApplyAcceptedApart` | `Spec => []AcceptedApart` |
| `FixApplyOffsetsValid` | `Spec => []EarlierOffsetsValid` |
| `FixApplyMadeAtOnce` | `Spec => []MadeAtOnce` |

The argument. Valid fixes do not overlap themselves and are in range (`ValidSound`), and an
accepted fix does not overlap those before it (`AcceptedDisjoint`); two edits that start at
different offsets are therefore apart, and so are two that start at one offset if the
insertion comes first, as `Before` has it. `EarlierOffsetsValid` is inductive with that: the
edit that is spliced is the last of those pending, so everything pending ends where it
starts. `MadeAtOnce` is the invariant of the last loop. Below the offset of the edit, `out`
is the content; above it, it is the tail of `out` that came before, every item of which
follows the edit (`LastFirst`: whatever was made comes after whatever is pending), so the
items stay in order and each occurs once. `SkippedForCause` has an invariant of its own,
which says of each fix that the loops have passed whether it was given up and why.

And of `Lexer`, for any source, from `SourceAssumption` alone:

| Theorem | Statement |
|---|---|
| `LexerPositionsRight` | `LexSpec => []PositionsRight` |
| `LexerNothingSkipped` | `LexSpec => []NothingSkipped` |

`LexSpec` is the lexer by itself; every step of `SyntaxSpec` is a `Scan` or leaves the
variables of the lexer as they are. `NothingSkipped` is the part of `Lossless` that speaks of
characters and tokens; the rest is about tokens and the tree.

The argument. A scanner is `Sound` if it is at a rune, with the line and the column of its
offset, and its errors have theirs. One place is different: between the characters of a
CR LF the scanner has the column of the CR, and the definition the one behind it (`InBreak`).
Loops pass through there, but no token and no error begins there, since it is an LF; hence
the disjunct in `Sound`. `Follows` is what every scanner does: it does not go back, drops no
error and keeps a sound scanner sound. For `advanceByte` this needs that the byte is a rune
by itself (`ByteFollows`), as its comment says ("only called for ASCII characters"), and the
lemma about each caller shows that it is; for numbers, that every character a match covers is
a digit, a letter, a sign or a point (`MatchesSolid`).

The loops are recursive functions, of which it must be shown that there are such functions,
and then that they keep what is wanted. `LoopExists` and `LoopInduction` say this once: a
loop with a measure that falls in every turn is a function, and what the turns keep is so at
its end. The measure is how much of the source is ahead (`AheadFalls`). So every loop of the
lexer ends, whatever the source.

Of the trivia before a token, `Right` says that each comment has its place, that nothing but
whitespace lies between one and the next (`Gap`, `Chained`), and that `blank` is the number
of lines between the end of the last of them and the scanner, less one. `Whitespace` counts
the lines it goes down (`WhitespaceCounts`) and stops at no whitespace: two runs in a row
would count an empty line too few, so `Right` says too that there is only one. Behind an
invalid character whitespace and comments are passed over and are no tokens, but then there
is an error (`ToTokenFollows`). `LexInv` says this of all tokens so far, and that the scanner
stands where the last one ends.

`FixAllProofs` proves, for any finite sets of files and names, any contents that are lines of
statements, any targets and any bound on the passes:

| Theorem | Statement |
|---|---|
| `FixAllTypeOK` | `Spec => []TypeOK` |
| `FixAllLandedIsReported` | `Spec => []LandedIsReported` |
| `FixAllConvergedClean` | `Spec => []ConvergedClean` |
| `FixAllNothingLost` | `IncludesAlone`, then `Spec => []NothingLost` |

The argument. `Landed` is what the summary says of the disk, in every state and not only at
the end. `Current` has a case for each place in a pass: the view is the disk but for the
files written in this pass, the report is of the view, none is written exactly if none is
applied, and a target behind the cursor that did not change is clean. When a pass applies
nothing all of this is about the disk, which is `ConvergedClean`. `Kept` says that every
definition is where it was and that includes stand alone; that a fix preserves it is
`FixedKeeps`. The hypothesis, `IncludesAlone`, is about the initial contents and is needed:
`FixAllLines.cfg` shows `NothingLost` violated where an include shares its line. What
`Edited` does to the lines is proved by induction over them (`EditedLines`), and so is that
it is defined at all (`EditedRecursion`).

`FormattingProofs` proves, for any documents, whatever the formatter makes of them and any
number of lines of context but 0, from `FormatsAssumption` (documents are sequences) and
`DiffAssumption`:

| Theorem | Statement |
|---|---|
| `UnifiedDiffPatches` | for any two texts, patching the one with the diff to the other gives the other, every chunk stands where its header says, and the diff is empty only for equal texts |
| `FormattingDiffPatches` | `Spec => []DiffPatches` |
| `FormattingPositionsMap` | `Spec => []PositionsMap` |

The argument. The matches come first. `LongestProperties` is about L: that of an anchor is one
more than the greatest of those before it in both texts, so that there is always one with L
less by one before it. `PickedTo` is the invariant of the loop that picks from the last line
backwards: what is picked is in order *in both texts*, although the code never sets `lastj`
and only compares L. Of the anchors before the last pick in both texts one has the L that is
looked for, and it is not behind the next pick, which is the last anchor with that L. Were
the partner of the next pick not before that of the last one, then that other anchor would be
before the next pick in both texts and have a smaller L (`PartnersInOrder`). Hence
`MatchesProperties`: the matches go from the beginning of the texts to their end, in order in
both, and each but the first and the last is a line that each text has exactly once.

Then the loop over them. `Written` says that the lines of the chunk begun are those of either
text from its beginning to `done` (`Holds`), as many as are counted (`Counted`), and that
patching with the chunks written gives the new text up to that beginning (`PatchedTo`). A
turn keeps this (`TurnKeeps`) if its match is not behind `done` in either text; the code asks
that of the old text only. `MatchBehind` is why it is enough: `done` is where the lines
behind an earlier match stop being the same (`Reached`), so a match before it in the new text
is one of those lines, and since there is no other line like it, it is before `done` in the
old text too. After the last match everything is written. `Start` and `End` go as far as the
texts are the same, and no further than `done`; that a chunk which is ended holds something,
and that a new one can begin `Context` lines back, comes from `GoesOn`.

What `Side`, `Patch`, `LongestTo`, `Tgs`, `UnifiedDiff` and `LineStart` compute is defined by
recursive functions, and each has a lemma that they satisfy their equations
(`SideRecursion`, ...; for `UnifiedDiff` that takes the invariant of the loop, as a turn
makes sense of nothing else). `DiffPatches` compares documents and not lines in the end:
`StartsProperties`, `LinesCut` and `DiffLinesDiffer` show that the lines are the document cut
in pieces and documents with the same lines are the same. `DiffAnswered` carries all of this
over the requests.

Positions rest on the loop over the runes of a line, which is used in both directions: to its
end for the units in front of an offset (`UTF16Count`), and until there are enough units for
the offset of a position. `AfterRunes` is one function of the number of turns for both.
`AfterProperties`: the loop never passes the end, is there after as many turns as there
are bytes, and of two points it reaches the one with more bytes behind it has more units. The two uses meet in `UnitsOfPart`: a part of a line that is cut between two runes
has the runes the line has there. That is no matter of course, since a broken rune is decoded
by what comes after it, and a cut may take that away (`RuneSizeOfPart`: not at a cut between
runes). `LineEnds` says where a line starts and ends, and that its
end is not inside of a terminator, `OffsetMeans` and `PositionMeans` say which turn of the loop a
position and an offset stand for, also in documents of ASCII only, where the code does not
loop (`AfterLetters`). `LinesMap` puts the three parts of `PositionsMap` together for any
sequence of bytes; that `content` is one is part of `DiffAnswered`.

`RenameProofs` proves, for any projects of finitely many files, from `ProjectsAssumption` and
`NamesAssumption` (base names are sequences of strings and not empty, the bound on typedef
chains is not 0):

| Theorem | Statement |
|---|---|
| `TypedefsStand` | `Spec => []TypedefsStandForTargets` |
| `EditsFitAtDefinitions` | renames are asked for at definitions, then `Spec => []EditsFit` |
| `CyclesAreReported` | `Spec => []CyclesReported` |
| `ReferencesAreExact` | the names in every file of `Projects` are different, then `Spec => []ReferencesExact` |
| `MeaningIsKept` | renames are asked for at definitions, `NamesApart`, `EnumsApart` and `ExceptionsThrown` hold of every project of `Projects` and `Fresh` of every name of `NewNames`, then `Spec => RenameKeepsMeaning` |

The argument. The chain of typedefs from the target of a typedef, in the file of the typedef,
is the chain from the typedef one turn later (`TypedefShifts`), and a chain that is done stays
what it is (`FollowKeeps`); so both end in the same type, whatever the typedefs in between,
the files they are in and the bound. The code restarts the search of each link in the file of
the link, and that is what the lemma needs. `EditsFit` needs no two hits at one identifier.
A file is searched once (`SearchFilesProperties`): the files that depend on another are a
set, made into a sequence without the file itself, which a file on an include cycle would else
be in twice. `References` lists each reference of a file once, each gives one hit at most, and
`FlattenProperties` puts these together, file by file (`ReferencesApart`). The identifier
under the cursor is a definition and so is none of the references, which is the hypothesis
(`RenameAt`), and it is needed: `RenameReference` shows the edits overlap where the rename is
asked for at a reference. `IsProject` is what the edits preserve: they change names only.
`DependentsProperties` says of the search by breadth that it ends in the least set that holds
the includers and theirs, since it gains a file in every turn or has all of them
(`DependentsLayers`).

`CyclesReported` has an include reported if it lies on a path back to its file; `PathDepends`
and `DependsPath` say that there is a path, no longer than there are files, exactly to the
dependents. It remains that `getIncludes` notes the includes of all files that the analysed
ones lead to. A call adds to the notes of its own file and may find those of others
half-written by the calls it came from, so what it has done is said of both (`Explored`): a
file that had notes keeps them, one that got notes got all its includes, is led to, and each
of its includes is `Settled`, it has notes too or includes nothing. `PartlyStep` keeps that
over one include, and by induction over the depth of the calls (`GetIncludesExplores`) it
holds of enough of them: a call is made for a file without notes after its caller's file has
got some. After any analysed files, some of which were noted before (`CompleteStep`), the
files with settled notes are closed under includes, and so hold all that are led to.

`ReferencesExact` compares what a search finds with what every name of the project means, so
it takes both. What a name means is a definition of its last segment that stands in a file
which the one with the name leads to (`Means`, `ResolveMeans`): `Visit` goes on with such
files only, by induction over its depth and over the includes of each file (`VisitGoesOn`),
and without a qualifier the file itself comes first. So a reference to a definition stands in
the file of the definition or in a dependent of it, which are the files searched
(`ReferenceTo`). The hits of the search are, one each, the references of those files that
resolve to a definition of the name and file looked for (`ReferencesToExact`); the rest is
the definition and the qualifiers of enum values (`AnswerExact`, `SearchExact`). That
definition is *the* definition only if no other in its file has its name, since
`sameDefinition` compares files and names. Hence the hypothesis `NamesApart` about the
projects to start with, which `Rename.cfg` assumes of its own (`MeaningIsClear`); with two
enums that share a member, the projects `MCTwins`, TLC refutes `ReferencesExact`. Names stay
apart over renames, and that needs to know what the edits in flight are: the inductive
invariant has, besides `IsProject`, `IsNamed` and `NamesApart`, that a rename which was
answered is made of ranges of names (`RenameSound`), the ones at definitions all at one, the
ones at one place overlapping. Edits that overlap are refused, so one definition gets the new
name, which is free, and the others keep theirs (`MadeApart`). It holds wherever renames are
asked for, at references too.

`RenameKeepsMeaning` compares resolutions before and after the edits. It is an action property,
and the invariant it follows from says that an answer in flight holds the edits for a definition
of *this* project and a free name (`RenameAsked`), besides what the theorem assumes of the
projects, which a rename has to keep. The argument takes a rename in two halves.
What becomes of the texts: the hits at a reference are one that means the definition, or one
value that is qualified with it (`FoundMeans`), so `RenameMoves` has three cases (`RefChange`):
the last segment is the new name, the segment of the enum is, or nothing changes.
What becomes of the lookups: projects of one shape search the same files in the same order
(`SameVisit`, `SameFiles`), and in a file a name that is not the new one is defined where it was
unless that is the definition that was renamed, which alone has the new name (`SpotMoves`). The
first file that has a name is then the same for every name that meant something else
(`PlaceStays`), and for the new name it is the first for the old (`PlaceMoves`), because no file
in front of it has the new name. `ResolveMoves` adds that the qualifier and whether a type
is built in are read as before, and `MeaningMoves` puts the halves together. For
`InItsEnum` the qualifier of a value is followed in the same way (`QualifierMoves`): where it is the
renamed enum, the first segment of that name is the last one of the qualifier.

Each hypothesis is needed, and each is one the code relies on without saying so. Two definitions
of one name in a file are one to `sameDefinition` (`MCTwins`). `enumSegment` takes the first
segment with the name of the enum, which may be part of the include (`MCNamesake`) or the value
itself (`MCConstant`): `EnumsApart`. References to exceptions are not searched for among fields:
`ExceptionsThrown`. An enum renamed `v` turns the value `m.E.R` into `m.v.R`, whose qualifier is
`m.v` where a file of that name is included, and a type must not become a built-in one: `Fresh`,
besides `Free`, which `AskRename` asks for. `ThrownStill`, `EnumsStill` and `MadeApart` are why they still
hold for the next rename. `MeaningIsClear` has TLC evaluate all of them on the projects of
`Rename.cfg`.

`Induction` is what makes that possible. The library states induction with a predicate as a
parameter, which the provers at hand cannot instantiate; but it states of *sets* that a
well-founded relation has minimal elements in each (`WFMin`). `NatSetInduction`,
`BoundedInduction` and `Recursion` follow from that.

Only model-checked: all liveness (fairness and ENABLED are beyond the prover), which is
`LoadsSettle`, `ChangesReturn`, `LatestIsPublished` and `Progress`; `NeverOscillates`, which
`FixAllOscillates.cfg` shows to depend on the contents; and everything about the modules with
RECURSIVE operators, for which the prover has no arithmetic: the parser, the grammar,
documents and their printing, hence `Layout` too, and the part of `Lossless` about the tree.
Of `Formatting` it leaves `EditsFormatSelection`: blocks are folds, about which there is no
induction yet. Of `Rename` every property that holds is proved.

## Plan

Done: the store, diagnostics and workspace, the fix engine, the parser, printer and
formatter, names and renames, positions, edits and the diff. What is left, by weight:

1. Proofs of the rest of `Lossless`, for which the productions of the parser have to be
   written as recursive functions in place of RECURSIVE operators first, as the loops of the
   lexer were.
2. `FileEvents`: overlays, documents, watched files and renames together; the life of one
   URI from didOpen to didRenameFiles, and the edits of `willRenameFiles`. To be written to be
   proved about: no RECURSIVE operators, invariants as conjunctions of named parts.
3. The analyzers that are left: duplicates, field ids, constant values against their types.
4. `Resolver` and `Options`: proximity order, layering, nearest config.
5. In `Layout`: comments over several lines and alignment, options by construct, two comments
   in a row. In `FixAll`: the fixes of enum values and a `persist` that tears a file.

## Not modelled

* Options and the order of the resolver's candidates: pure functions, planned (4).
* Read requests: pure functions of one parse and the index; their parses are in `View`.
* Command line, VS Code and JetBrains clients, `lsptest`: I/O, process start and test support.
* A disk that changes without a notification; `validateWorkspaceSnapshot`; capabilities and
  settings of the server.
* Widths of characters, arenas, buffers and pools of the printer: no property here is about
  speed, and a width is a number whatever it was computed from.
