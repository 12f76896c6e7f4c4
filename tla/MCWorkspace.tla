----------------------------- MODULE MCWorkspace -----------------------------
(* Instances of Workspace for TLC.                                         *)
EXTENDS Workspace, TLC

CONSTANTS outer, inner,   \* two folders and roots, the second in the first
          x, y,           \* two files, the second in both
          pathA, pathB    \* include paths

MCOrder == <<outer, inner>>
MCWithin == [r \in Root |-> IF r = outer THEN {x, y} ELSE {y}]
MCDepth == [r \in Root |-> IF r = outer THEN 1 ELSE 2]
MCDirOf == [f \in File |-> IF f = x THEN outer ELSE inner]

\* x and y include each other.
MCIncludes == [f \in File |-> IF f = x THEN {y} ELSE {x}]

P(config, root, paths, targets) ==
  [config |-> config, root |-> root, paths |-> paths, targets |-> targets]

MCProject ==
  { P(outer, outer, pathA, {x}), P(outer, outer, pathA, {x, y}), P(inner, inner, pathA, {y}),
    P(inner, inner, pathA, {x, y}), P(inner, outer, pathB, {x}) }

Of(projects) == [projects |-> projects, issues |-> {}]

\* The default loader finds the files that are on the disk at the time.
Walks ==
  [d \in Folder |->
     IF d = outer
     THEN {Of(<<P(outer, outer, pathA, {x})>>), Of(<<P(outer, outer, pathA, {x, y})>>)}
     ELSE {Of(<<P(inner, inner, pathA, {y})>>)}]

\* A build system may find a target outside the root, a root that another
\* folder has with other include paths, or an issue besides its projects.
Discovers ==
  [d \in Folder |->
     IF d = outer
     THEN {Of(<<P(outer, outer, pathA, {x})>>), Of(<<>>)}
     ELSE {Of(<<P(inner, inner, pathA, {x, y}), P(inner, outer, pathB, {x})>>),
           [projects |-> <<P(inner, inner, pathA, {x, y})>>, issues |-> {inner}]}]

MCModes ==
  {[implicit |-> TRUE, snapshots |-> Walks], [implicit |-> FALSE, snapshots |-> Discovers]}

MCInitial == {{outer}, {outer, inner}}

\* The inner folder is added or replaced, the outer one is removed.
MCBatches == {<<{inner}, {}>>, <<{inner}, {inner}>>, <<{}, {outer}>>}

=============================================================================
