------------------------- MODULE MCControllerEngine -------------------------
(* Instances of ControllerEngine small enough for TLC. *)
EXTENDS ControllerEngine

Table(rbb, fbb, sys) == [b \in Blocks |-> IF b \in rbb THEN "historical-rbb"
                                          ELSE IF b \in fbb THEN "factory-bad"
                                          ELSE IF b \in sys THEN "system-rebuild"
                                          ELSE "absent"]
\* One worn block; a factory-bad one; too many worn blocks for a spare pool;
\* a table that puts system data where the profile has none.
MCTables == {Table({2}, {}, {}), Table({}, {3}, {0}), Table({2, 4}, {}, {}),
             Table({}, {}, {5})}
MCMarked == {{}, {3}}
Entry(e, l, r, x) == [enterReenum |-> e, loader |-> l, loaderReenum |-> r,
                      exitReenum |-> x]
MCEntries == {Entry(FALSE, FALSE, FALSE, FALSE), Entry(TRUE, TRUE, TRUE, TRUE),
              Entry(TRUE, TRUE, FALSE, FALSE)}
=============================================================================
